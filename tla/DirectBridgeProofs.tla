------------------------- MODULE DirectBridgeProofs -------------------------
(***************************************************************************)
(* Theorems of DirectBridge, for any number of turns, strangers and edits, *)
(* any bodies and any limit of the store.                                  *)
(***************************************************************************)
EXTENDS DirectBridge, DraftBrokerProofs

\* Before the run's first broker process; between two of them.
Early == {"starting", "opening", "heading", "run", "capsule"}
Between == {"capsuled", "turn", "provider", "answered", "dispatch"}

BridgePcs ==
  Early \cup Between \cup {"asked", "broker", "returned", "decide", "decided", "settled",
                           "rewriting", "printing", "ended", "dead"}

BridgeStates == {Unavailable, Admitted, "NO_DRAFT", "TURN_LIMIT", "DRAFT_UNAVAILABLE"}

BridgeType ==
  [pc : BridgePcs, turn : 1 .. Turns, call : Calls, identity : Nat \cup {None},
   state : BridgeStates, printed : BridgeStates \cup {None}]

-----------------------------------------------------------------------------
(* The run's own broker processes.                                         *)

\* There is one for the capsule and one for each turn, one after another; only
\* a killed bridge leaves one running.
OwnOK ==
  /\ \A r \in Own :
       /\ r > bridge.turn => proc[r].pc = "unused"
       /\ 0 < r /\ r < bridge.turn => proc[r].pc = "done" /\ ~Holds(r, "draft.json")
  /\ proc[0].pc # "unused" => proc[0].body = Public
  /\ bridge.pc \in Early => proc[0].pc = "unused"
  /\ Running(0) => bridge.pc \in {"asked", "dead"}
  /\ bridge.pc \in Early \cup Between \cup {"asked"} => proc[bridge.turn].pc = "unused"
  /\ Running(bridge.turn) => bridge.pc \in {"broker", "dead"}
  /\ bridge.pc \in {"broker", "returned", "decide"} => proc[bridge.turn].body = bridge.call
  /\ bridge.pc \in {"returned", "decide"} => proc[bridge.turn].pc = "done"

\* The run has left no draft and no process that could still make one.
LeftNothing == OwnRecords = {} /\ \A r \in Own : ~Running(r)

\* The turn's process has ended with an admitted draft of the turn's body.
LeftDraft ==
  /\ proc[bridge.turn].pc = "done" /\ proc[bridge.turn].result = Admitted
  /\ proc[bridge.turn].body = bridge.call

-----------------------------------------------------------------------------
(* What is decided, written and printed.                                   *)

Undecided == Early \cup Between \cup {"asked", "broker", "returned", "decide", "rewriting"}

VerdictOK ==
  /\ bridge.pc \in Undecided => bridge.state = Unavailable
  /\ bridge.pc \in (Undecided \ {"starting", "opening", "heading"}) \cup {"decided", "settled"} =>
       report = Unavailable
  /\ bridge.state = Admitted \/ report = Admitted => LeftDraft
  /\ bridge.state \in {"NO_DRAFT", "TURN_LIMIT"} \/ report \in {"NO_DRAFT", "TURN_LIMIT"} => LeftNothing
  /\ Is("printing") /\ bridge.state = Admitted => report = Admitted
  /\ bridge.printed = Admitted => report = Admitted
  /\ Is("dispatch") => bridge.call # NoCall

\* Every process was started from an installation between the one that was
\* identified and the present one.
Identified == BridgePcs \ {"starting", "rewriting", "printing", "ended", "dead"}

CodeOK ==
  /\ installed \in Nat
  /\ bridge.pc \in Identified =>
       /\ bridge.identity \in Nat /\ bridge.identity <= installed
       /\ code \subseteq bridge.identity .. installed
  /\ bridge.pc \in Early => code = {}
  /\ bridge.pc \in Identified \ Early => code # {}
  /\ Is("settled") \/ report = Admitted => code = {bridge.identity}

BridgeInv ==
  /\ BrokerInv
  /\ bridge \in BridgeType
  /\ OwnOK
  /\ VerdictOK
  /\ CodeOK

-----------------------------------------------------------------------------
(* The ways the bridge changes.                                            *)

LEMMA OwnFacts ==
  ASSUME BridgeInv
  PROVE  /\ 0 \in Own /\ bridge.turn \in Own /\ bridge.turn # 0 /\ bridge.turn \in Nat
         /\ Own \subseteq Nat /\ Own \subseteq Requests
         /\ \A r \in Strangers : r \in Requests /\ r \notin Own
         /\ \A r \in Own : r = 0 \/ (0 < r /\ r < bridge.turn) \/ r = bridge.turn \/ r > bridge.turn
  BY BridgeAssumption DEF BridgeInv, BridgeType, Own

LEMMA AdvanceFacts ==
  ASSUME bridge \in BridgeType, NEW pc \in BridgePcs, Advance(pc)
  PROVE  /\ bridge' \in BridgeType
         /\ bridge'.pc = pc
         /\ bridge'.turn = bridge.turn /\ bridge'.call = bridge.call
         /\ bridge'.identity = bridge.identity
         /\ bridge'.state = bridge.state /\ bridge'.printed = bridge.printed
  BY DEF Advance, BridgeType

LEMMA StoppedFacts ==
  ASSUME bridge \in BridgeType, NEW pc \in BridgePcs, NEW state \in BridgeStates,
         bridge' = [bridge EXCEPT !.pc = pc, !.state = state]
  PROVE  /\ bridge' \in BridgeType
         /\ bridge'.pc = pc
         /\ bridge'.turn = bridge.turn /\ bridge'.call = bridge.call
         /\ bridge'.identity = bridge.identity
         /\ bridge'.state = state /\ bridge'.printed = bridge.printed
  BY DEF BridgeType

LEMMA StatesApart ==
  /\ Unavailable \in BridgeStates
  /\ Unavailable \notin {Admitted, "NO_DRAFT", "TURN_LIMIT"}
  /\ "torn" \notin {Admitted, "NO_DRAFT", "TURN_LIMIT"}
  /\ "empty" \notin {Admitted, "NO_DRAFT", "TURN_LIMIT"}
  /\ Admitted \notin {"NO_DRAFT", "TURN_LIMIT"}
  /\ None # Admitted
  BY BrokerAssumption DEF Unavailable, Admitted, BridgeStates, Answers

LEMMA BrokerRests ==
  ASSUME BridgeInv, UNCHANGED brokerVars
  PROVE  BrokerInv' /\ UNCHANGED <<files, prepare, proc, lock, draft>>
  BY BrokerStep DEF BridgeInv, brokerVars

\* A requests's directory holds nothing before it has begun, and nothing of
\* one that has asked for the capsule.
LEMMA NoDirectory ==
  ASSUME BrokerInv, NEW r \in Requests, proc[r].pc = "unused" \/ proc[r].body = Public
  PROVE  ~Holds(r, "draft.json")
<1>1. RequestOK(r) /\ Public \notin WellFormed
  BY BrokerAssumption DEF BrokerInv
<1> QED
  BY <1>1, ContentsAt DEF RequestOK, Holds, Stages

\* An answer that does not end the run has left no draft.
LEMMA NotFinal ==
  ASSUME BrokerInv, NEW r \in Requests, proc[r].pc = "done", proc[r].result \notin Final
  PROVE  ~Holds(r, "draft.json")
  BY DEF BrokerInv, RequestOK, Answers, Failures, Final, Admitted

\* Only the process that the bridge waits for, or has died over, is running.
LEMMA OnlyChildRuns ==
  ASSUME BridgeInv, NEW r \in Own, Running(r)
  PROVE  \/ bridge.pc = "dead" /\ r \in {0, bridge.turn}
         \/ bridge.pc = "asked" /\ r = 0
         \/ bridge.pc = "broker" /\ r = bridge.turn
  BY OwnFacts DEF BridgeInv, OwnOK, Running

\* While no process of its own has been started but the capsule's and those
\* of the turns behind it, the run has left nothing.
LEMMA NothingYet ==
  ASSUME BridgeInv, bridge.pc \in Early \cup Between PROVE LeftNothing
<1>1. \A r \in Own : ~Running(r)
  BY OnlyChildRuns DEF Early, Between
<1>2. ASSUME NEW r \in Own PROVE ~Holds(r, "draft.json")
  <2>1. CASE r = 0
    BY <2>1, OwnFacts, NoDirectory DEF BridgeInv, OwnOK
  <2>2. CASE r = bridge.turn \/ r > bridge.turn
    BY <2>2, OwnFacts, NoDirectory DEF BridgeInv, OwnOK
  <2>3. CASE 0 < r /\ r < bridge.turn
    BY <2>3 DEF BridgeInv, OwnOK
  <2> QED
    BY <2>1, <2>2, <2>3, OwnFacts
<1> QED
  BY <1>1, <1>2 DEF LeftNothing, OwnRecords

\* The own processes stay what they were to a bridge at another line.
LEMMA OwnRests ==
  ASSUME BridgeInv, UNCHANGED <<proc, draft>>, bridge'.turn = bridge.turn,
         bridge'.pc \in Early => bridge.pc \in Early,
         bridge'.pc \in Early \cup Between \cup {"asked"} =>
           bridge.pc \in Early \cup Between \cup {"asked"},
         bridge.pc = "asked" => bridge'.pc = "dead" \/ ~Running(0),
         bridge.pc = "broker" => bridge'.pc = "dead" \/ ~Running(bridge.turn),
         bridge.pc = "dead" => bridge'.pc = "dead",
         bridge'.pc # "broker",
         bridge'.pc \in {"returned", "decide"} =>
           proc[bridge.turn].body = bridge'.call /\ proc[bridge.turn].pc = "done"
  PROVE  OwnOK'
<1>1. bridge'.pc # "dead" => ~Running(0) /\ ~Running(bridge.turn)
  BY OwnFacts, OnlyChildRuns
<1> QED
  BY <1>1, OwnFacts DEF BridgeInv, OwnOK, Running, Holds

-----------------------------------------------------------------------------
(* Giving up.                                                              *)

LEMMA GivesUp ==
  ASSUME BridgeInv, BrokerInv', Abandon, UNCHANGED <<installed, report, code>>,
         bridge.pc \in (Undecided \ {"starting", "opening", "heading"}) \cup {"decided"},
         \A r \in Own \ {0, bridge.turn} : proc'[r] = proc[r] /\ draft'[r] = draft[r],
         proc'[0].pc # "unused" => proc'[0].body = Public,
         ~Running(0)', ~Running(bridge.turn)'
  PROVE  BridgeInv'
<1>1. /\ bridge' \in BridgeType
      /\ bridge'.pc = "rewriting" /\ bridge'.state = Unavailable
      /\ bridge'.turn = bridge.turn /\ bridge'.call = bridge.call
      /\ bridge'.identity = bridge.identity /\ bridge'.printed = bridge.printed
  BY StatesApart, StoppedFacts DEF Abandon, BridgeInv, BridgePcs
<1>2. OwnOK'
  <2>1. \A r \in Own : r > bridge.turn => r \notin {0, bridge.turn}
    BY OwnFacts
  <2>2. \A r \in Own : 0 < r /\ r < bridge.turn => r \notin {0, bridge.turn}
    BY OwnFacts
  <2>3. ~(proc'[0].pc \notin {"unused", "done", "dead"}) /\ ~(proc'[bridge.turn].pc \notin {"unused", "done", "dead"})
    BY <1>1 DEF Running
  <2> QED
    BY <1>1, <2>1, <2>2, <2>3 DEF BridgeInv, OwnOK, Running, Holds, Early, Between
<1>3. report = Unavailable
  BY DEF BridgeInv, VerdictOK
<1>4. VerdictOK'
  BY <1>1, <1>3, StatesApart DEF BridgeInv, VerdictOK, Is
<1>5. CodeOK'
  BY <1>1, <1>3, StatesApart DEF BridgeInv, CodeOK, Identified, Early, Is
<1> QED
  BY <1>1, <1>2, <1>4, <1>5 DEF BridgeInv

\* An exception between two broker processes, or after the last one.
LEMMA AbandonStep ==
  ASSUME BridgeInv, Abandon, UNCHANGED <<brokerVars, installed, report, code>>,
         \/ bridge.pc \in (Undecided \ {"starting", "opening", "heading", "asked", "broker"}) \cup {"decided"}
         \/ Is("asked") /\ ~Running(0)
  PROVE  BridgeInv'
<1>1. BrokerInv' /\ UNCHANGED <<proc, draft>>
  BY BrokerRests
<1>2. ~Running(0) /\ ~Running(bridge.turn)
  BY OwnFacts, OnlyChildRuns DEF Undecided, Early, Between, Is
<1>3. ~Running(0)' /\ ~Running(bridge.turn)'
  <2>1. bridge'.turn = bridge.turn
    BY DEF Abandon, BridgeInv, BridgeType
  <2> QED
    BY <1>1, <1>2, <2>1 DEF Running
<1>4. proc'[0].pc # "unused" => proc'[0].body = Public
  BY <1>1 DEF BridgeInv, OwnOK
<1> QED
  BY <1>1, <1>3, <1>4, GivesUp DEF Undecided, Is

\* The group of the process that is waited for is killed.
LEMMA BrokerFailsStep == ASSUME BridgeInv, BrokerFails PROVE BridgeInv'
<1>1. /\ bridge.pc \in {"asked", "broker"} /\ Abandon /\ UNCHANGED <<installed, report, code>>
      /\ IF Running(Child) THEN Kill(Child) ELSE UNCHANGED brokerVars
  BY DEF BrokerFails, AbandonChild
<1>2. Child \in {0, bridge.turn} /\ Child \in Own /\ Child \in Requests
  BY OwnFacts DEF Child
<1>3. bridge'.turn = bridge.turn
  BY <1>1 DEF Abandon, BridgeInv, BridgeType
<1>4. \A r \in {0, bridge.turn} : Running(r) => r = Child
  BY <1>1, OwnFacts, OnlyChildRuns DEF Child, Is
<1>5. CASE Running(Child)
  <2>1. Kill(Child)
    BY <1>1, <1>5
  <2>2. BrokerInv'
    BY <1>2, <2>1, EndSteps DEF BridgeInv
  <2>3. /\ \A q \in Requests \ {Child} : proc'[q] = proc[q] /\ draft'[q] = draft[q]
        /\ proc'[Child].body = proc[Child].body
    BY <1>2, <2>1, RequestFrame DEF BridgeInv, BrokerInv
  <2>4. proc'[Child].pc = "dead"
    BY <1>2, <2>1, GotoFacts DEF Kill, BridgeInv, BrokerInv, Stages
  <2>5. ~Running(0)' /\ ~Running(bridge.turn)'
    BY <1>3, <1>4, <2>3, <2>4, OwnFacts DEF Running
  <2>6. proc'[0].pc # "unused" => proc'[0].body = Public
    <3>1. CASE Child = 0
      BY <1>5, <2>3, <3>1 DEF BridgeInv, OwnOK, Running
    <3>2. CASE Child # 0
      BY <2>3, <3>2, OwnFacts DEF BridgeInv, OwnOK
    <3> QED
      BY <3>1, <3>2
  <2>7. \A r \in Own \ {0, bridge.turn} : proc'[r] = proc[r] /\ draft'[r] = draft[r]
    BY <1>2, <2>3, OwnFacts
  <2> QED
    BY <1>1, <2>2, <2>5, <2>6, <2>7, GivesUp DEF Undecided
<1>6. CASE ~Running(Child)
  <2>1. UNCHANGED brokerVars /\ BrokerInv' /\ UNCHANGED <<proc, draft>>
    BY <1>1, <1>6, BrokerRests
  <2>2. ~Running(0)' /\ ~Running(bridge.turn)'
    BY <1>3, <1>4, <1>6, <2>1 DEF Running
  <2>3. proc'[0].pc # "unused" => proc'[0].body = Public
    BY <2>1 DEF BridgeInv, OwnOK
  <2> QED
    BY <1>1, <2>1, <2>2, <2>3, GivesUp DEF Undecided
<1> QED
  BY <1>5, <1>6

-----------------------------------------------------------------------------
(* The steps that leave the broker's processes alone.                      *)

LEMMA StillLeft ==
  ASSUME UNCHANGED <<proc, draft>>, bridge'.turn = bridge.turn, bridge'.call = bridge.call
  PROVE  (LeftDraft' <=> LeftDraft) /\ (LeftNothing' <=> LeftNothing)
  BY DEF LeftDraft, LeftNothing, OwnRecords, Holds, Running

\* main's handler of whatever _run does not catch.
LEMMA AbortFacts ==
  ASSUME bridge \in BridgeType, Abort
  PROVE  /\ bridge' \in BridgeType
         /\ bridge'.pc = "printing" /\ bridge'.state = Unavailable
         /\ bridge'.turn = bridge.turn /\ bridge'.call = bridge.call
         /\ bridge'.identity = bridge.identity /\ bridge'.printed = bridge.printed
  BY StatesApart, StoppedFacts DEF Abort, BridgePcs

LEMMA ConfigureStep == ASSUME BridgeInv, Configure PROVE BridgeInv'
<1>1. BrokerInv' /\ UNCHANGED <<proc, draft>>
  BY BrokerRests DEF Configure
<1>2. bridge.pc = "starting" /\ UNCHANGED <<installed, report, code>>
  BY DEF Configure, Is
<1>3. /\ bridge' \in BridgeType
      /\ bridge'.turn = bridge.turn /\ bridge'.call = bridge.call
      /\ bridge'.printed = bridge.printed /\ bridge'.state = Unavailable
      /\ \/ bridge'.pc = "opening" /\ bridge'.identity = installed
         \/ bridge'.pc = "printing" /\ bridge'.identity = bridge.identity
  <2>1. CASE bridge' = [bridge EXCEPT !.pc = "opening", !.identity = installed]
    BY <1>2, <2>1 DEF BridgeInv, BridgeType, BridgePcs, VerdictOK, CodeOK, Undecided, Early
  <2>2. CASE Abort
    BY <2>2, AbortFacts DEF BridgeInv
  <2> QED
    BY <2>1, <2>2 DEF Configure
<1>4. OwnOK'
  BY <1>1, <1>2, <1>3, OwnRests DEF Early, Between
<1>5. VerdictOK'
  BY <1>1, <1>2, <1>3, StillLeft, StatesApart
     DEF BridgeInv, VerdictOK, Undecided, Early, Between, Is
<1>6. CodeOK'
  BY <1>2, <1>3 DEF BridgeInv, CodeOK, Identified, Early, Is
<1> QED
  BY <1>1, <1>3, <1>4, <1>5, <1>6 DEF BridgeInv

LEMMA OpenReportStep == ASSUME BridgeInv, OpenReport PROVE BridgeInv'
<1>1. BrokerInv' /\ UNCHANGED <<proc, draft>>
  BY BrokerRests DEF OpenReport
<1>2. /\ bridge.pc = "opening" /\ UNCHANGED <<installed, code>>
      /\ bridge.state = Unavailable /\ code = {}
  BY DEF OpenReport, Is, BridgeInv, VerdictOK, CodeOK, Undecided, Early
<1>3. /\ bridge' \in BridgeType
      /\ bridge'.turn = bridge.turn /\ bridge'.call = bridge.call
      /\ bridge'.identity = bridge.identity
      /\ bridge'.printed = bridge.printed /\ bridge'.state = Unavailable
      /\ \/ bridge'.pc = "heading" /\ report' = "empty"
         \/ bridge'.pc = "printing" /\ report' = report
  BY <1>2, AdvanceFacts, AbortFacts DEF OpenReport, BridgeInv, BridgePcs, Early
<1>4. OwnOK'
  BY <1>1, <1>2, <1>3, OwnRests DEF Early, Between
<1>5. report # Admitted /\ report' # Admitted /\ bridge.printed # Admitted
  BY <1>2, <1>3, StatesApart DEF BridgeInv, VerdictOK, CodeOK
<1>6. VerdictOK'
  BY <1>1, <1>2, <1>3, <1>5, StillLeft, StatesApart
     DEF BridgeInv, VerdictOK, Undecided, Early, Between, Is
<1>7. CodeOK'
  BY <1>2, <1>3, <1>5 DEF BridgeInv, CodeOK, Identified, Early, Between, BridgePcs, Is
<1> QED
  BY <1>1, <1>3, <1>4, <1>6, <1>7 DEF BridgeInv

LEMMA WriteFirstStep == ASSUME BridgeInv, WriteFirst PROVE BridgeInv'
<1>1. BrokerInv' /\ UNCHANGED <<proc, draft>>
  BY BrokerRests DEF WriteFirst
<1>2. /\ bridge.pc = "heading" /\ UNCHANGED <<installed, code>>
      /\ bridge.state = Unavailable /\ code = {}
  BY DEF WriteFirst, Is, BridgeInv, VerdictOK, CodeOK, Undecided, Early
<1>3. /\ bridge' \in BridgeType
      /\ bridge'.turn = bridge.turn /\ bridge'.call = bridge.call
      /\ bridge'.identity = bridge.identity
      /\ bridge'.printed = bridge.printed /\ bridge'.state = Unavailable
      /\ \/ bridge'.pc = "run" /\ report' = Unavailable
         \/ bridge'.pc = "printing" /\ report' \in {report, "torn", Unavailable}
  BY <1>2, AdvanceFacts, AbortFacts DEF WriteFirst, Torn, BridgeInv, BridgePcs, Early
<1>4. OwnOK'
  BY <1>1, <1>2, <1>3, OwnRests DEF Early, Between
<1>5. report # Admitted /\ report' # Admitted /\ bridge.printed # Admitted
  BY <1>2, <1>3, StatesApart DEF BridgeInv, VerdictOK, CodeOK
<1>6. VerdictOK'
  BY <1>1, <1>2, <1>3, <1>5, StillLeft, StatesApart
     DEF BridgeInv, VerdictOK, Undecided, Early, Between, Is
<1>7. CodeOK'
  BY <1>2, <1>3, <1>5 DEF BridgeInv, CodeOK, Identified, Early, Between, BridgePcs, Is
<1> QED
  BY <1>1, <1>3, <1>4, <1>6, <1>7 DEF BridgeInv

LEMMA RecheckStep == ASSUME BridgeInv, Recheck PROVE BridgeInv'
<1>1. /\ bridge.pc \in {"run", "capsuled", "turn", "returned", "decided"}
      /\ UNCHANGED <<brokerVars, installed, report, code>>
  BY DEF Recheck, Checkpoints
<1>2. CASE Abandon
  BY <1>1, <1>2, AbandonStep DEF Undecided, Early, Between
<1>3. CASE SameIdentity /\ Advance(Checkpoints[bridge.pc])
  <2>1. BrokerInv' /\ UNCHANGED <<proc, draft>>
    BY <1>1, BrokerRests
  <2>2. PICK pc \in BridgePcs :
          /\ Advance(pc)
          /\ \/ bridge.pc = "run" /\ pc = "capsule"
             \/ bridge.pc = "capsuled" /\ pc = "turn"
             \/ bridge.pc = "turn" /\ pc = "provider"
             \/ bridge.pc = "returned" /\ pc = "decide"
             \/ bridge.pc = "decided" /\ pc = "settled"
    <3>1. Checkpoints[bridge.pc] \in BridgePcs
      BY <1>1 DEF Checkpoints, BridgePcs, Early, Between
    <3> QED
      BY <1>1, <1>3, <3>1 DEF Checkpoints
  <2>3. /\ bridge' \in BridgeType /\ bridge'.pc = pc
        /\ bridge'.turn = bridge.turn /\ bridge'.call = bridge.call
        /\ bridge'.identity = bridge.identity
        /\ bridge'.state = bridge.state /\ bridge'.printed = bridge.printed
    BY <2>2, AdvanceFacts DEF BridgeInv
  <2>4. OwnOK'
    <3>1. bridge.pc = "returned" => proc[bridge.turn].body = bridge.call /\ proc[bridge.turn].pc = "done"
      BY DEF BridgeInv, OwnOK
    <3> QED
      BY <2>1, <2>2, <2>3, <3>1, OwnRests DEF Early, Between
  <2>5. VerdictOK'
    BY <1>1, <2>1, <2>2, <2>3, StillLeft DEF BridgeInv, VerdictOK, Undecided, Early, Between, Is
  <2>6. bridge.pc = "decided" => code = {bridge.identity}
    <3> SUFFICES ASSUME bridge.pc = "decided" PROVE code = {bridge.identity}
      OBVIOUS
    <3>1. code # {} /\ code \subseteq bridge.identity .. bridge.identity /\ bridge.identity \in Nat
      BY <1>3 DEF BridgeInv, CodeOK, Identified, BridgePcs, Early, Between, SameIdentity
    <3>2. \A c \in code : c = bridge.identity
      BY <3>1
    <3> QED
      BY <3>1, <3>2
  <2>7. CodeOK'
    BY <1>1, <2>2, <2>3, <2>6 DEF BridgeInv, CodeOK, Identified, BridgePcs, Early, Between, Is
  <2> QED
    BY <2>1, <2>3, <2>4, <2>5, <2>7 DEF BridgeInv
<1> QED
  BY <1>2, <1>3 DEF Recheck

LEMMA CapsuleReturnedStep == ASSUME BridgeInv, CapsuleReturned PROVE BridgeInv'
<1>1. /\ bridge.pc = "asked" /\ ~Running(0)
      /\ UNCHANGED <<brokerVars, installed, report, code>>
  BY DEF CapsuleReturned, Is, Running
<1>2. CASE Abandon
  BY <1>1, <1>2, AbandonStep DEF Is
<1>3. CASE Advance("capsuled")
  <2>1. BrokerInv' /\ UNCHANGED <<proc, draft>>
    BY <1>1, BrokerRests
  <2>2. /\ bridge' \in BridgeType /\ bridge'.pc = "capsuled"
        /\ bridge'.turn = bridge.turn /\ bridge'.call = bridge.call
        /\ bridge'.identity = bridge.identity
        /\ bridge'.state = bridge.state /\ bridge'.printed = bridge.printed
    BY <1>3, AdvanceFacts DEF BridgeInv, BridgePcs, Between
  <2>3. OwnOK'
    BY <1>1, <2>1, <2>2, OwnRests DEF Early, Between
  <2>4. VerdictOK'
    BY <1>1, <2>1, <2>2, StillLeft DEF BridgeInv, VerdictOK, Undecided, Early, Between, Is
  <2>5. CodeOK'
    BY <1>1, <2>2 DEF BridgeInv, CodeOK, Identified, BridgePcs, Early, Between, Is
  <2> QED
    BY <2>1, <2>2, <2>3, <2>4, <2>5 DEF BridgeInv
<1> QED
  BY <1>2, <1>3 DEF CapsuleReturned

LEMMA ProviderAnswersStep == ASSUME BridgeInv, ProviderAnswers PROVE BridgeInv'
<1>1. bridge.pc = "provider" /\ UNCHANGED <<installed, report, code>>
  BY DEF ProviderAnswers, Is
<1>2. BrokerInv' /\ UNCHANGED <<proc, draft>>
  BY BrokerRests DEF ProviderAnswers
<1>3. bridge.state = Unavailable /\ report = Unavailable
  BY <1>1 DEF BridgeInv, VerdictOK, Undecided, Early, Between
<1>4. /\ bridge' \in BridgeType /\ bridge'.pc = "answered"
      /\ bridge'.turn = bridge.turn
      /\ bridge'.identity = bridge.identity
      /\ bridge'.state = bridge.state /\ bridge'.printed = bridge.printed
  BY DEF ProviderAnswers, BridgeInv, BridgeType, BridgePcs, Between
<1>5. OwnOK'
  BY <1>1, <1>2, <1>4, OwnRests DEF Early, Between
<1>6. VerdictOK'
  BY <1>1, <1>3, <1>4, StatesApart DEF BridgeInv, VerdictOK, Undecided, Early, Between, Is
<1>7. CodeOK'
  BY <1>1, <1>4 DEF BridgeInv, CodeOK, Identified, BridgePcs, Early, Between, Is
<1> QED
  BY <1>2, <1>4, <1>5, <1>6, <1>7 DEF BridgeInv

\* Nothing is left behind when the provider makes no call.
LEMMA CheckAnswerStep == ASSUME BridgeInv, CheckAnswer PROVE BridgeInv'
<1>1. /\ bridge.pc = "answered"
      /\ UNCHANGED <<brokerVars, installed, report, code>>
  BY DEF CheckAnswer, Is
<1>2. CASE Abandon
  BY <1>1, <1>2, AbandonStep DEF Undecided, Early, Between
<1>3. BrokerInv' /\ UNCHANGED <<proc, draft>>
  BY <1>1, BrokerRests
<1>4. report = Unavailable /\ bridge.state = Unavailable
  BY <1>1 DEF BridgeInv, VerdictOK, Undecided, Early, Between
<1>5. CASE Decide("NO_DRAFT")
  <2>1. /\ bridge' \in BridgeType /\ bridge'.pc = "decided" /\ bridge'.state = "NO_DRAFT"
        /\ bridge'.turn = bridge.turn /\ bridge'.call = bridge.call
        /\ bridge'.identity = bridge.identity /\ bridge'.printed = bridge.printed
    BY <1>5, StoppedFacts DEF Decide, BridgeInv, BridgePcs, BridgeStates
  <2>2. LeftNothing'
    BY <1>1, <1>3, <2>1, NothingYet, StillLeft DEF Between
  <2>3. OwnOK'
    BY <1>1, <1>3, <2>1, OwnRests DEF Early, Between
  <2>4. VerdictOK'
    BY <1>1, <1>4, <2>1, <2>2, StatesApart DEF BridgeInv, VerdictOK, Undecided, Early, Between, Is
  <2>5. CodeOK'
    BY <1>1, <1>4, <2>1, StatesApart DEF BridgeInv, CodeOK, Identified, BridgePcs, Early, Between, Is
  <2> QED
    BY <1>3, <2>1, <2>3, <2>4, <2>5 DEF BridgeInv
<1>6. CASE bridge.call # NoCall /\ Advance("dispatch")
  <2>1. /\ bridge' \in BridgeType /\ bridge'.pc = "dispatch" /\ bridge'.state = bridge.state
        /\ bridge'.turn = bridge.turn /\ bridge'.call = bridge.call
        /\ bridge'.identity = bridge.identity /\ bridge'.printed = bridge.printed
    BY <1>6, AdvanceFacts DEF BridgeInv, BridgePcs, Between
  <2>2. OwnOK'
    BY <1>1, <1>3, <2>1, OwnRests DEF Early, Between
  <2>3. VerdictOK'
    BY <1>1, <1>4, <1>6, <2>1, StatesApart DEF BridgeInv, VerdictOK, Undecided, Early, Between, Is
  <2>4. CodeOK'
    BY <1>1, <1>4, <2>1, StatesApart DEF BridgeInv, CodeOK, Identified, BridgePcs, Early, Between, Is
  <2> QED
    BY <1>3, <2>1, <2>2, <2>3, <2>4 DEF BridgeInv
<1> QED
  BY <1>2, <1>5, <1>6 DEF CheckAnswer

LEMMA BrokerReturnedStep == ASSUME BridgeInv, BrokerReturned PROVE BridgeInv'
<1>1. /\ bridge.pc = "broker" /\ proc[bridge.turn].pc = "done"
      /\ proc[bridge.turn].body = bridge.call
      /\ Advance("returned") /\ UNCHANGED <<brokerVars, installed, report, code>>
  BY DEF BrokerReturned, Is, BridgeInv, OwnOK
<1>2. BrokerInv' /\ UNCHANGED <<proc, draft>>
  BY <1>1, BrokerRests
<1>3. /\ bridge' \in BridgeType /\ bridge'.pc = "returned"
      /\ bridge'.turn = bridge.turn /\ bridge'.call = bridge.call
      /\ bridge'.identity = bridge.identity
      /\ bridge'.state = bridge.state /\ bridge'.printed = bridge.printed
  BY <1>1, AdvanceFacts DEF BridgeInv, BridgePcs
<1>4. ~Running(bridge.turn)
  BY <1>1 DEF Running
<1>5. OwnOK'
  BY <1>1, <1>2, <1>3, <1>4, OwnRests DEF Early, Between
<1>6. VerdictOK'
  BY <1>1, <1>2, <1>3, StillLeft DEF BridgeInv, VerdictOK, Undecided, Early, Between, Is
<1>7. CodeOK'
  BY <1>1, <1>3 DEF BridgeInv, CodeOK, Identified, BridgePcs, Early, Between, Is
<1> QED
  BY <1>2, <1>3, <1>5, <1>6, <1>7 DEF BridgeInv

\* The run ends with the broker's answer, goes on to the next turn, or is at
\* its last one and has left no draft in any of them.
LEMMA NextTurnStep == ASSUME BridgeInv, NextTurn PROVE BridgeInv'
<1> DEFINE answer == proc[bridge.turn].result
<1>1. /\ bridge.pc = "decide" /\ UNCHANGED <<brokerVars, installed, report, code>>
      /\ proc[bridge.turn].pc = "done" /\ proc[bridge.turn].body = bridge.call
  BY DEF NextTurn, Is, BridgeInv, OwnOK
<1>2. BrokerInv' /\ UNCHANGED <<proc, draft>>
  BY <1>1, BrokerRests
<1>3. report = Unavailable /\ bridge.state = Unavailable
  BY <1>1 DEF BridgeInv, VerdictOK, Undecided, Early, Between
<1>4. \A r \in Own : ~Running(r)
  BY <1>1, OnlyChildRuns
<1>5. ASSUME NEW state \in BridgeStates, Decide(state), state = Admitted => LeftDraft,
             state \in {"NO_DRAFT", "TURN_LIMIT"} => LeftNothing
      PROVE  BridgeInv'
  <2>1. /\ bridge' \in BridgeType /\ bridge'.pc = "decided" /\ bridge'.state = state
        /\ bridge'.turn = bridge.turn /\ bridge'.call = bridge.call
        /\ bridge'.identity = bridge.identity /\ bridge'.printed = bridge.printed
    BY <1>5, StoppedFacts DEF Decide, BridgeInv, BridgePcs
  <2>2. OwnOK'
    BY <1>1, <1>2, <2>1, OwnRests DEF Early, Between
  <2>3. VerdictOK'
    BY <1>1, <1>2, <1>3, <1>5, <2>1, StillLeft, StatesApart
       DEF BridgeInv, VerdictOK, Undecided, Early, Between, Is
  <2>4. CodeOK'
    BY <1>1, <1>3, <2>1, StatesApart DEF BridgeInv, CodeOK, Identified, BridgePcs, Early, Between, Is
  <2> QED
    BY <1>2, <2>1, <2>2, <2>3, <2>4 DEF BridgeInv
<1>6. CASE answer \in Final /\ Decide(answer)
  <2>1. answer \in BridgeStates /\ answer \notin {"NO_DRAFT", "TURN_LIMIT"}
    BY <1>6 DEF Final, Admitted, BridgeStates
  <2>2. answer = Admitted => LeftDraft
    BY <1>1 DEF LeftDraft
  <2> QED
    BY <1>5, <1>6, <2>1, <2>2
<1>7. answer \notin Final => ~Holds(bridge.turn, "draft.json")
  BY <1>1, OwnFacts, NotFinal DEF BridgeInv
<1>8. CASE /\ answer \notin Final /\ bridge.turn < Turns
           /\ bridge' = [bridge EXCEPT !.pc = "turn", !.turn = @ + 1]
  <2>1. /\ bridge' \in BridgeType /\ bridge'.pc = "turn" /\ bridge'.turn = bridge.turn + 1
        /\ bridge'.call = bridge.call /\ bridge'.state = bridge.state
        /\ bridge'.identity = bridge.identity /\ bridge'.printed = bridge.printed
        /\ bridge.turn + 1 \in Own
    <3>1. bridge.turn + 1 \in 1 .. Turns /\ bridge.turn + 1 \in Own
      BY <1>8, BridgeAssumption DEF BridgeInv, BridgeType, Own
    <3>2. bridge' = [bridge EXCEPT !.pc = "turn", !.turn = bridge.turn + 1]
      BY <1>8
    <3> QED
      BY <3>1, <3>2 DEF BridgeInv, BridgeType, BridgePcs, Between
  <2>2. OwnOK'
    <3>1. proc[bridge.turn + 1].pc = "unused"
      BY <2>1, OwnFacts DEF BridgeInv, OwnOK
    <3>2. ASSUME NEW r \in Own, 0 < r, r < bridge.turn + 1
          PROVE  proc[r].pc = "done" /\ ~Holds(r, "draft.json")
      <4>1. r < bridge.turn \/ r = bridge.turn
        BY <3>2, OwnFacts
      <4> QED
        BY <1>1, <1>7, <1>8, <3>2, <4>1 DEF BridgeInv, OwnOK
    <3>3. \A r \in Own : r > bridge.turn + 1 => r > bridge.turn
      BY OwnFacts
    <3> QED
      BY <1>1, <1>2, <1>4, <2>1, <3>1, <3>2, <3>3, OwnFacts
         DEF BridgeInv, OwnOK, Running, Holds, Early, Between
  <2>3. VerdictOK'
    BY <1>1, <1>3, <2>1, StatesApart DEF BridgeInv, VerdictOK, Undecided, Early, Between, Is
  <2>4. CodeOK'
    BY <1>1, <1>3, <2>1, StatesApart DEF BridgeInv, CodeOK, Identified, BridgePcs, Early, Between, Is
  <2> QED
    BY <1>2, <2>1, <2>2, <2>3, <2>4 DEF BridgeInv
<1>9. CASE answer \notin Final /\ Decide("TURN_LIMIT")
  <2>1. ASSUME NEW r \in Own PROVE ~Holds(r, "draft.json")
    <3>1. CASE r = 0
      BY <3>1, OwnFacts, NoDirectory DEF BridgeInv, OwnOK
    <3>2. CASE r = bridge.turn
      BY <1>7, <1>9, <3>2
    <3>3. CASE 0 < r /\ r < bridge.turn
      BY <3>3 DEF BridgeInv, OwnOK
    <3>4. CASE r > bridge.turn
      BY <3>4, OwnFacts, NoDirectory DEF BridgeInv, OwnOK
    <3> QED
      BY <3>1, <3>2, <3>3, <3>4, OwnFacts
  <2>2. LeftNothing
    BY <1>4, <2>1 DEF LeftNothing, OwnRecords
  <2> QED
    BY <1>5, <1>9, <2>2, StatesApart DEF BridgeStates
<1> QED
  BY <1>6, <1>8, <1>9 DEF NextTurn

LEMMA FailureSteps == ASSUME BridgeInv, ProviderDeadline \/ RunFails PROVE BridgeInv'
  BY AbandonStep DEF ProviderDeadline, RunFails, Is, Undecided, Early, Between

-----------------------------------------------------------------------------
(* main, from _run to the end.                                             *)

\* What a cut off write of `state` may leave is no worse than a whole one.
LEMMA TornFacts ==
  ASSUME BridgeInv, bridge.pc \in {"settled", "rewriting"}, report' \in Torn(report, bridge.state)
  PROVE  /\ bridge.printed # Admitted
         /\ report' = Admitted => LeftDraft /\ code = {bridge.identity}
         /\ report' \in {"NO_DRAFT", "TURN_LIMIT"} => LeftNothing
<1>1. report = Unavailable /\ (bridge.pc = "rewriting" => bridge.state = Unavailable)
  BY DEF BridgeInv, VerdictOK, Undecided
<1>2. report' \in {Unavailable, "torn", bridge.state}
  BY <1>1 DEF Torn
<1> QED
  BY <1>1, <1>2, StatesApart DEF BridgeInv, VerdictOK, CodeOK, Is

LEMMA RewriteStep == ASSUME BridgeInv, Rewrite PROVE BridgeInv'
<1>1. /\ bridge.pc \in {"settled", "rewriting"} /\ UNCHANGED <<brokerVars, installed, code>>
      /\ report' \in Torn(report, bridge.state)
  BY DEF Rewrite, Torn
<1>2. BrokerInv' /\ UNCHANGED <<proc, draft>>
  BY <1>1, BrokerRests
<1>3. /\ bridge' \in BridgeType /\ bridge'.pc = "printing"
      /\ bridge'.turn = bridge.turn /\ bridge'.call = bridge.call
      /\ bridge'.identity = bridge.identity /\ bridge'.printed = bridge.printed
      /\ bridge'.state = Unavailable \/ (bridge'.state = bridge.state /\ report' = bridge.state)
  BY AdvanceFacts, AbortFacts DEF Rewrite, BridgeInv, BridgePcs
<1>4. /\ bridge.printed # Admitted
      /\ report' = Admitted => LeftDraft /\ code = {bridge.identity}
      /\ report' \in {"NO_DRAFT", "TURN_LIMIT"} => LeftNothing
  BY <1>1, TornFacts
<1>5. OwnOK'
  BY <1>1, <1>2, <1>3, OwnRests DEF Early, Between
<1>6. VerdictOK'
  BY <1>2, <1>3, <1>4, StillLeft, StatesApart DEF VerdictOK, Undecided, Early, Between, Is
<1>7. CodeOK'
  BY <1>1, <1>3, <1>4 DEF BridgeInv, CodeOK, Identified, Early, Is
<1> QED
  BY <1>2, <1>3, <1>5, <1>6, <1>7 DEF BridgeInv

LEMMA PrintReportStep == ASSUME BridgeInv, PrintReport PROVE BridgeInv'
<1>1. bridge.pc = "printing" /\ UNCHANGED <<brokerVars, installed, report, code>>
  BY DEF PrintReport, Is
<1>2. BrokerInv' /\ UNCHANGED <<proc, draft>>
  BY <1>1, BrokerRests
<1>3. /\ bridge' \in BridgeType /\ bridge'.pc = "ended"
      /\ bridge'.turn = bridge.turn /\ bridge'.call = bridge.call
      /\ bridge'.identity = bridge.identity /\ bridge'.state = bridge.state
      /\ bridge'.printed = bridge.state
  BY DEF PrintReport, BridgeInv, BridgeType, BridgePcs
<1>4. OwnOK'
  BY <1>1, <1>2, <1>3, OwnRests DEF Early, Between
<1>5. VerdictOK'
  BY <1>1, <1>2, <1>3, StillLeft DEF BridgeInv, VerdictOK, Undecided, Early, Between, Is
<1>6. CodeOK'
  BY <1>1, <1>3 DEF BridgeInv, CodeOK, Identified, Early, Is
<1> QED
  BY <1>2, <1>3, <1>4, <1>5, <1>6 DEF BridgeInv

LEMMA KillBridgeStep == ASSUME BridgeInv, KillBridge PROVE BridgeInv'
<1>1. /\ bridge.pc \notin {"starting", "ended", "dead"}
      /\ Advance("dead") /\ UNCHANGED <<brokerVars, installed, code>>
  BY DEF KillBridge
<1>2. BrokerInv' /\ UNCHANGED <<proc, draft>>
  BY <1>1, BrokerRests
<1>3. /\ bridge' \in BridgeType /\ bridge'.pc = "dead"
      /\ bridge'.turn = bridge.turn /\ bridge'.call = bridge.call
      /\ bridge'.identity = bridge.identity
      /\ bridge'.state = bridge.state /\ bridge'.printed = bridge.printed
  BY <1>1, AdvanceFacts DEF BridgeInv, BridgePcs
<1>4. /\ bridge.printed = Admitted => report' = Admitted
      /\ report' = Admitted => LeftDraft /\ code = {bridge.identity}
      /\ report' \in {"NO_DRAFT", "TURN_LIMIT"} => LeftNothing
  <2>1. CASE bridge.pc = "heading"
    <3>1. report' \in {report, "torn", Unavailable}
      BY <2>1 DEF KillBridge, Is, Torn
    <3>2. report # Admitted
      BY <2>1 DEF BridgeInv, CodeOK, Early
    <3> QED
      BY <3>1, <3>2, StatesApart DEF BridgeInv, VerdictOK
  <2>2. CASE bridge.pc \in {"settled", "rewriting"}
    <3>1. report' \in Torn(report, bridge.state)
      BY <2>2 DEF KillBridge, Is
    <3> QED
      BY <2>2, <3>1, TornFacts
  <2>3. CASE bridge.pc \notin {"heading", "settled", "rewriting"}
    <3>1. report' = report
      BY <2>3 DEF KillBridge, Is
    <3> QED
      BY <3>1 DEF BridgeInv, VerdictOK, CodeOK
  <2> QED
    BY <2>1, <2>2, <2>3
<1>5. OwnOK'
  BY <1>1, <1>2, <1>3, OwnRests DEF Early, Between
<1>6. VerdictOK'
  BY <1>2, <1>3, <1>4, StillLeft DEF BridgeInv, VerdictOK, Undecided, Early, Between, Is
<1>7. CodeOK'
  BY <1>1, <1>3, <1>4 DEF BridgeInv, CodeOK, Identified, Early, Is
<1> QED
  BY <1>2, <1>3, <1>5, <1>6, <1>7 DEF BridgeInv

LEMMA EditStep == ASSUME BridgeInv, Edit PROVE BridgeInv'
<1>1. UNCHANGED <<brokerVars, bridge, report, code>> /\ installed' = installed + 1
  BY DEF Edit, bridgeVars
<1>2. BrokerInv' /\ UNCHANGED <<proc, draft>>
  BY <1>1, BrokerRests
<1>3. OwnOK' /\ VerdictOK'
  BY <1>1, <1>2, StillLeft DEF BridgeInv, OwnOK, VerdictOK, Running, Holds, Is
<1>4. CodeOK'
  <2>1. \A i \in Nat : i <= installed => i <= installed + 1 /\ i .. installed \subseteq i .. installed + 1
    BY DEF BridgeInv, CodeOK
  <2> QED
    BY <1>1, <2>1 DEF BridgeInv, CodeOK, Is
<1> QED
  BY <1>1, <1>2, <1>3, <1>4 DEF BridgeInv

-----------------------------------------------------------------------------
(* The steps of the broker's processes.                                    *)

\* Somebody else's step.
LEMMA OwnKept ==
  ASSUME BridgeInv, BrokerInv', UNCHANGED <<installed, bridgeVars>>,
         \A q \in Own : proc'[q] = proc[q] /\ draft'[q] = draft[q]
  PROVE  BridgeInv'
<1>1. UNCHANGED <<bridge, report, code>>
  BY DEF bridgeVars
<1>2. \A q \in Own : Holds(q, "draft.json")' = Holds(q, "draft.json") /\ Running(q)' = Running(q)
  BY DEF Holds, Running
<1>3. OwnOK'
  BY <1>1, <1>2, OwnFacts DEF BridgeInv, OwnOK
<1>4. (LeftDraft' <=> LeftDraft) /\ (LeftNothing' <=> LeftNothing)
  BY <1>1, <1>2, OwnFacts DEF LeftDraft, LeftNothing, OwnRecords
<1>5. VerdictOK' /\ CodeOK'
  BY <1>1, <1>4 DEF BridgeInv, VerdictOK, CodeOK, Is
<1> QED
  BY <1>1, <1>3, <1>5 DEF BridgeInv

LEMMA PrepareStep == ASSUME BridgeInv, Prepare PROVE BridgeInv'
<1>1. BrokerInv' /\ UNCHANGED <<proc, draft, installed, bridgeVars>>
  BY PrepareSteps DEF Prepare, PrepareWrites, PrepareStops, BridgeInv
<1> QED
  BY <1>1, OwnKept

LEMMA StrangeStep == ASSUME BridgeInv, NEW r \in Strangers, Strange(r) PROVE BridgeInv'
<1>1. PICK b \in Bodies \cup {Public} : Begin(r, b)
  BY BridgeAssumption DEF Strange
<1>2. r \in Requests /\ r \notin Own /\ Own \subseteq Requests
  BY OwnFacts
<1>3. BrokerInv'
  BY <1>1, <1>2, BeginStep DEF BridgeInv
<1>4. \A q \in Requests \ {r} : proc'[q] = proc[q] /\ draft'[q] = draft[q]
  BY <1>1, <1>2, BeginFrame DEF BridgeInv, BrokerInv
<1> QED
  BY <1>2, <1>3, <1>4, OwnKept DEF Strange

\* A process of the run that moves is the one that is waited for, or one that
\* a killed bridge has left behind; neither can undo what has been reported.
LEMMA RequestMoves ==
  ASSUME BridgeInv, NEW r \in Requests, Serve(r) \/ Outside(r)
  PROVE  BridgeInv'
<1>1. /\ Proceed(r) \/ Receive(r) \/ IndexEnds(r) \/ Kill(r)
      /\ UNCHANGED <<installed, bridge, report, code>>
  BY DEF Serve, Outside, bridgeVars
<1>2. BrokerInv'
  BY <1>1, BrokerStep DEF BridgeInv, BrokerNext
<1>3. /\ Running(r)
      /\ proc'[r].pc \in Stages \ {"unused", "loading"} /\ proc'[r].body = proc[r].body
      /\ \A q \in Requests \ {r} : proc'[q] = proc[q] /\ draft'[q] = draft[q]
  BY <1>1, RequestFrame DEF BridgeInv, BrokerInv
<1>4. CASE r \notin Own
  BY <1>1, <1>2, <1>3, <1>4, OwnFacts, OwnKept DEF bridgeVars
<1>5. CASE r \in Own
  <2>1. \/ bridge.pc = "dead" /\ r \in {0, bridge.turn}
        \/ bridge.pc = "asked" /\ r = 0
        \/ bridge.pc = "broker" /\ r = bridge.turn
    BY <1>3, <1>5, OnlyChildRuns
  <2>2. \A q \in Own \ {r} : /\ proc'[q] = proc[q]
                             /\ Holds(q, "draft.json")' = Holds(q, "draft.json")
                             /\ Running(q)' = Running(q)
    BY <1>3, OwnFacts DEF Holds, Running
  <2>3. OwnOK'
    <3>1. ASSUME NEW q \in Own
          PROVE  /\ q > bridge.turn => proc'[q].pc = "unused"
                 /\ 0 < q /\ q < bridge.turn => proc'[q].pc = "done" /\ ~Holds(q, "draft.json")'
      <4>1. q > bridge.turn \/ (0 < q /\ q < bridge.turn) => q # r
        BY <2>1, OwnFacts
      <4> QED
        BY <2>2, <4>1 DEF BridgeInv, OwnOK
    <3>2. proc'[0].pc # "unused" => proc'[0].body = Public
      BY <1>3, <2>2, OwnFacts DEF BridgeInv, OwnOK, Running
    <3>3. bridge.pc \in Early => proc'[0].pc = "unused"
      BY <2>1 DEF Early
    <3>4. Running(0)' => bridge.pc \in {"asked", "dead"}
      BY <2>1, <2>2, OwnFacts DEF BridgeInv, OwnOK
    <3>5. bridge.pc \in Early \cup Between \cup {"asked"} => proc'[bridge.turn].pc = "unused"
      BY <2>1, <2>2, OwnFacts DEF BridgeInv, OwnOK, Early, Between
    <3>6. (proc'[bridge.turn].pc \notin {"unused", "done", "dead"}) => bridge.pc \in {"broker", "dead"}
      <4>1. CASE r = bridge.turn
        BY <2>1, <4>1, OwnFacts
      <4>2. CASE r # bridge.turn
        <5>1. proc'[bridge.turn] = proc[bridge.turn]
          BY <2>2, <4>2, OwnFacts
        <5> QED
          BY <5>1 DEF BridgeInv, OwnOK, Running
      <4> QED
        BY <4>1, <4>2
    <3>7. bridge.pc \in {"broker", "returned", "decide"} => proc'[bridge.turn].body = bridge.call
      BY <1>3, <2>1 DEF BridgeInv, OwnOK
    <3>8. bridge.pc \notin {"returned", "decide"}
      BY <2>1
    <3> QED
      BY <1>1, <3>1, <3>2, <3>3, <3>4, <3>5, <3>6, <3>7, <3>8 DEF OwnOK, Running
  <2>4. LeftDraft => LeftDraft'
    <3>1. LeftDraft => bridge.turn # r
      BY <1>3 DEF LeftDraft, Running
    <3> QED
      BY <1>1, <2>2, <3>1, OwnFacts DEF LeftDraft
  <2>5. ~LeftNothing
    BY <1>3, <1>5 DEF LeftNothing
  <2>6. VerdictOK' /\ CodeOK'
    BY <1>1, <2>4, <2>5 DEF BridgeInv, VerdictOK, CodeOK, Is
  <2> QED
    BY <1>1, <1>2, <2>3, <2>6 DEF BridgeInv
<1> QED
  BY <1>4, <1>5

\* A broker process of the run is started from the present installation.
LEMMA StartFacts ==
  ASSUME BridgeInv, NEW r \in Own, NEW body \in Bodies \cup {Public},
         NEW pc \in BridgePcs, Start(r, body, pc)
  PROVE  /\ BrokerInv'
         /\ proc'[r].pc = "loading" /\ proc'[r].body = body
         /\ \A q \in Own \ {r} : proc'[q] = proc[q]
         /\ UNCHANGED <<draft, installed, report>> /\ code' = code \cup {installed}
         /\ bridge' \in BridgeType /\ bridge'.pc = pc
         /\ bridge'.turn = bridge.turn /\ bridge'.call = bridge.call
         /\ bridge'.identity = bridge.identity
         /\ bridge'.state = bridge.state /\ bridge'.printed = bridge.printed
<1>1. Begin(r, body) /\ r \in Requests /\ Own \subseteq Requests
  BY OwnFacts DEF Start
<1>2. BrokerInv'
  BY <1>1, BeginStep DEF BridgeInv
<1>3. /\ proc'[r].pc = "loading" /\ proc'[r].body = body
      /\ \A q \in Own \ {r} : proc'[q] = proc[q]
      /\ UNCHANGED draft
  BY <1>1, BeginFrame DEF BridgeInv, BrokerInv
<1> QED
  BY <1>2, <1>3, AdvanceFacts DEF Start, BridgeInv

\* The installation has not gone back behind the one that was identified.
LEMMA StartedIdentified ==
  ASSUME BridgeInv, bridge.pc \in {"capsule", "dispatch"}, code' = code \cup {installed},
         UNCHANGED <<installed, report>>, bridge'.identity = bridge.identity,
         bridge'.pc \in {"asked", "broker"}
  PROVE  CodeOK'
<1>1. /\ installed \in Nat /\ bridge.identity \in Nat /\ bridge.identity <= installed
      /\ code \subseteq bridge.identity .. installed
      /\ report # Admitted
  BY StatesApart DEF BridgeInv, CodeOK, VerdictOK, Identified, BridgePcs, Undecided, Early, Between
<1>2. installed \in bridge.identity .. installed
  BY <1>1
<1> QED
  BY <1>1, <1>2 DEF CodeOK, Early, Is

LEMMA AskCapsuleStep == ASSUME BridgeInv, AskCapsule PROVE BridgeInv'
<1>1. bridge.pc = "capsule" /\ Start(0, Public, "asked") /\ 0 \in Own
  BY OwnFacts DEF AskCapsule, Is
<1>2. /\ BrokerInv'
      /\ proc'[0].pc = "loading" /\ proc'[0].body = Public
      /\ \A q \in Own \ {0} : proc'[q] = proc[q]
      /\ UNCHANGED <<draft, installed, report>> /\ code' = code \cup {installed}
      /\ bridge' \in BridgeType /\ bridge'.pc = "asked"
      /\ bridge'.turn = bridge.turn /\ bridge'.call = bridge.call
      /\ bridge'.identity = bridge.identity
      /\ bridge'.state = bridge.state /\ bridge'.printed = bridge.printed
  BY <1>1, StartFacts DEF BridgePcs
<1>3. report = Unavailable /\ bridge.state = Unavailable
  BY <1>1 DEF BridgeInv, VerdictOK, Undecided, Early, Between
<1>4. OwnOK'
  BY <1>1, <1>2, OwnFacts DEF BridgeInv, OwnOK, Running, Holds, Early, Between
<1>5. VerdictOK'
  BY <1>1, <1>2, <1>3, StatesApart DEF BridgeInv, VerdictOK, Undecided, Early, Between, Is
<1>6. CodeOK'
  BY <1>1, <1>2, StartedIdentified
<1> QED
  BY <1>2, <1>4, <1>5, <1>6 DEF BridgeInv

LEMMA DispatchStep == ASSUME BridgeInv, Dispatch PROVE BridgeInv'
<1>1. /\ bridge.pc = "dispatch" /\ Start(bridge.turn, bridge.call, "broker")
      /\ bridge.turn \in Own /\ bridge.call \in Bodies \cup {Public}
  BY OwnFacts DEF Dispatch, Is, BridgeInv, VerdictOK, BridgeType, Calls
<1>2. /\ BrokerInv'
      /\ proc'[bridge.turn].pc = "loading" /\ proc'[bridge.turn].body = bridge.call
      /\ \A q \in Own \ {bridge.turn} : proc'[q] = proc[q]
      /\ UNCHANGED <<draft, installed, report>> /\ code' = code \cup {installed}
      /\ bridge' \in BridgeType /\ bridge'.pc = "broker"
      /\ bridge'.turn = bridge.turn /\ bridge'.call = bridge.call
      /\ bridge'.identity = bridge.identity
      /\ bridge'.state = bridge.state /\ bridge'.printed = bridge.printed
  BY <1>1, StartFacts DEF BridgePcs
<1>3. report = Unavailable /\ bridge.state = Unavailable
  BY <1>1 DEF BridgeInv, VerdictOK, Undecided, Early, Between
<1>4. OwnOK'
  <2>1. ~Running(0) /\ proc'[0] = proc[0]
    BY <1>1, <1>2, OwnFacts DEF BridgeInv, OwnOK
  <2>2. \A q \in Own : q > bridge.turn \/ (0 < q /\ q < bridge.turn) => q # bridge.turn
    BY OwnFacts
  <2> QED
    BY <1>1, <1>2, <2>1, <2>2, OwnFacts DEF BridgeInv, OwnOK, Running, Holds, Early, Between
<1>5. VerdictOK'
  BY <1>1, <1>2, <1>3, StatesApart DEF BridgeInv, VerdictOK, Undecided, Early, Between, Is
<1>6. CodeOK'
  BY <1>1, <1>2, StartedIdentified
<1> QED
  BY <1>2, <1>4, <1>5, <1>6 DEF BridgeInv

-----------------------------------------------------------------------------
(* Every behaviour.                                                        *)

LEMMA BridgeStart == Init => BridgeInv
<1> SUFFICES ASSUME Init PROVE BridgeInv
  OBVIOUS
<1>1. BrokerInv
  BY BrokerStart DEF Init
<1>2. bridge \in BridgeType
  BY BridgeAssumption
     DEF Init, BridgeType, BridgePcs, BridgeStates, Early, Calls, Unavailable
<1>3. \A r \in Own : proc[r].pc = "unused" /\ ~Running(r) /\ ~Holds(r, "draft.json")
  BY BridgeAssumption DEF Init, BrokerInit, Own, Unused, Running, Holds
<1>4. OwnOK
  <2>1. 0 \in Own /\ bridge.turn \in Own /\ bridge.turn = 1 /\ bridge.pc = "starting"
    BY BridgeAssumption DEF Init, Own
  <2>2. \A r \in Own : ~(0 < r /\ r < 1)
    BY BridgeAssumption DEF Own
  <2> QED
    BY <1>3, <2>1, <2>2 DEF OwnOK
<1>5. VerdictOK
  <2>1. LeftNothing
    BY <1>3 DEF LeftNothing, OwnRecords
  <2>2. /\ bridge.pc = "starting" /\ bridge.state = Unavailable
        /\ bridge.printed = None /\ report = None
    BY DEF Init
  <2> QED
    BY <2>1, <2>2, StatesApart DEF VerdictOK, Undecided, Early, Is
<1>6. CodeOK
  BY StatesApart DEF Init, CodeOK, Identified, Early, Is
<1> QED
  BY <1>1, <1>2, <1>4, <1>5, <1>6 DEF BridgeInv

LEMMA BridgeStep == BridgeInv /\ [Next]_vars => BridgeInv'
<1> SUFFICES ASSUME BridgeInv, [Next]_vars PROVE BridgeInv'
  OBVIOUS
<1>1. CASE Bridge
  BY <1>1, ConfigureStep, OpenReportStep, WriteFirstStep, RecheckStep, AskCapsuleStep,
     CapsuleReturnedStep, CheckAnswerStep, DispatchStep, BrokerReturnedStep, NextTurnStep,
     BrokerFailsStep, FailureSteps, RewriteStep, PrintReportStep DEF Bridge
<1>2. CASE ProviderAnswers \/ RunFails \/ KillBridge \/ Edit \/ Prepare
  BY <1>2, ProviderAnswersStep, FailureSteps, KillBridgeStep, EditStep, PrepareStep
<1>3. ASSUME NEW r \in Requests, Serve(r) \/ Outside(r) PROVE BridgeInv'
  BY <1>3, RequestMoves
<1>4. ASSUME NEW r \in Strangers, Strange(r) PROVE BridgeInv'
  BY <1>4, StrangeStep
<1>5. CASE UNCHANGED vars
  <2>1. BrokerInv' /\ UNCHANGED <<proc, draft, installed, bridgeVars>>
    BY <1>5, BrokerRests DEF vars
  <2> QED
    BY <2>1, OwnKept
<1> QED
  BY <1>1, <1>2, <1>3, <1>4, <1>5 DEF Next

\* The inductive invariant of a run: which of its processes may run at each
\* line, what they have left, and what its verdict says of that.
THEOREM BridgeInvariant == Spec => []BridgeInv
<1> QED
  BY BridgeStart, BridgeStep, PTL DEF Spec

\* For any number of turns and strangers: whatever has been killed, the report
\* file says nothing of a draft that the state directory does not bear out.
THEOREM ReportIsAlwaysTrue == Spec => []ReportIsTrue
<1>1. BridgeInv => ReportIsTrue
  <2> SUFFICES ASSUME BridgeInv PROVE ReportIsTrue
    OBVIOUS
  <2>1. LeftDraft => Holds(bridge.turn, "record") /\ proc[bridge.turn].body = bridge.call
    BY OwnFacts DEF LeftDraft, BridgeInv, BrokerInv, RequestOK, Admitted
  <2> QED
    BY <2>1 DEF BridgeInv, VerdictOK, ReportIsTrue, LeftNothing
<1> QED
  BY <1>1, BridgeInvariant, PTL

\* Only the turn that a run has reached can have begun a draft record, and no
\* process of an ended run is left to begin one.
THEOREM OneDraftEver == Spec => []OneDraftAtMost
<1>1. BridgeInv => OneDraftAtMost
  <2> SUFFICES ASSUME BridgeInv PROVE OneDraftAtMost
    OBVIOUS
  <2>1. ASSUME NEW r \in Own, r # bridge.turn PROVE ~Holds(r, "draft.json")
    <3>1. CASE 0 < r /\ r < bridge.turn
      BY <3>1 DEF BridgeInv, OwnOK
    <3>2. CASE r = 0 \/ r > bridge.turn
      BY <3>2, OwnFacts, NoDirectory DEF BridgeInv, OwnOK
    <3> QED
      BY <2>1, <3>1, <3>2, OwnFacts
  <2>2. OwnRecords \subseteq {bridge.turn}
    BY <2>1 DEF OwnRecords
  <2>3. IsFiniteSet({bridge.turn}) /\ Cardinality({bridge.turn}) = 1
    BY FS_Singleton
  <2>4. Cardinality(OwnRecords) <= 1
    BY <2>2, <2>3, FS_Subset
  <2>5. Is("ended") => \A r \in Own : ~Running(r)
    BY OnlyChildRuns DEF Is
  <2> QED
    BY <2>4, <2>5 DEF OneDraftAtMost
<1> QED
  BY <1>1, BridgeInvariant, PTL

\* However often and whenever the installed code is edited, an admitted draft
\* is only reported when every process has run the code that was identified.
THEOREM IdentifiedCodeAlwaysAdmits == Spec => []IdentifiedCodeAdmits
<1>1. BridgeInv => IdentifiedCodeAdmits
  BY DEF BridgeInv, CodeOK, IdentifiedCodeAdmits
<1> QED
  BY <1>1, BridgeInvariant, PTL

\* To the state directory, a bridge, its provider and the strangers are
\* clients of the broker like any others.
THEOREM BridgeImplementsBroker == Spec => BrokerInit /\ [][BrokerNext]_brokerVars
<1>1. Init => BrokerInit
  BY DEF Init
<1>2. BridgeInv /\ [Next]_vars => [BrokerNext]_brokerVars
  <2> SUFFICES ASSUME BridgeInv, [Next]_vars PROVE [BrokerNext]_brokerVars
    OBVIOUS
  <2>1. CASE AskCapsule \/ Dispatch
    <3>1. \E r \in Requests, b \in Bodies \cup {Public} : Begin(r, b)
      BY <2>1, OwnFacts
         DEF AskCapsule, Dispatch, Start, Is, BridgeInv, VerdictOK, BridgeType, Calls
    <3> QED
      BY <3>1 DEF BrokerNext
  <2>2. CASE BrokerFails
    <3>1. Child \in Requests
      BY OwnFacts DEF Child
    <3> QED
      BY <2>2, <3>1 DEF BrokerFails, AbandonChild, BrokerNext
  <2>3. ASSUME NEW r \in Requests, Serve(r) \/ Outside(r) PROVE BrokerNext
    BY <2>3 DEF Serve, Outside, BrokerNext
  <2>4. ASSUME NEW r \in Strangers, Strange(r) PROVE BrokerNext
    BY <2>4, BridgeAssumption DEF Strange, BrokerNext
  <2>5. CASE Prepare
    BY <2>5 DEF Prepare, BrokerNext
  <2>6. CASE \/ Configure \/ OpenReport \/ WriteFirst \/ Recheck \/ CapsuleReturned \/ CheckAnswer
             \/ BrokerReturned \/ NextTurn \/ ProviderDeadline \/ Rewrite \/ PrintReport
             \/ ProviderAnswers \/ RunFails \/ KillBridge \/ Edit
    BY <2>6 DEF Configure, OpenReport, WriteFirst, Recheck, CapsuleReturned, CheckAnswer,
                BrokerReturned, NextTurn, ProviderDeadline, Rewrite, PrintReport,
                ProviderAnswers, RunFails, KillBridge, Edit
  <2>7. CASE UNCHANGED vars
    BY <2>7 DEF vars
  <2> QED
    BY <2>1, <2>2, <2>3, <2>4, <2>5, <2>6, <2>7 DEF Next, Bridge
<1> QED
  BY <1>1, <1>2, BridgeInvariant, PTL DEF Spec
=============================================================================
