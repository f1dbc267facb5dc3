------------------------- MODULE DraftBrokerProofs -------------------------
(***************************************************************************)
(* Theorems of DraftBroker, for any number of request processes, any       *)
(* bodies and any limit.                                                   *)
(***************************************************************************)
EXTENDS DraftBroker, FiniteSetTheorems, TLAPS

\* Inside the lock.
Critical == {"locked", "checked", "writing", "indexing", "indexed", "admitted", "recording"}

\* Once the state has been loaded it was, and stays, complete.
Past == Stages \ {"unused", "loading", "answering", "done", "dead"}

Complete == {"source", "index", "draft.json", "record"}

\* What a request has in its directory at each stage; None is no directory.
Contents(pc) ==
  CASE pc = "writing" -> {}
    [] pc = "indexing" -> {"source"}
    [] pc \in {"indexed", "admitted"} -> {"source", "index"}
    [] pc = "recording" -> {"source", "index", "draft.json"}
    [] OTHER -> None

\* One request: its data, its lock, its directory and its answer.
RequestOK(r) ==
  LET me == proc[r]
  IN /\ me.pc \in Past => me.result = None /\ files = Everything
     /\ me.pc \in {"unused", "loading"} => me.result = None
     /\ me.pc \in Stages \ {"answering", "done", "dead"} => draft[r] = Contents(me.pc)
     /\ me.pc \in Critical \cup {"waiting"} => me.body \in WellFormed
     /\ me.pc \in {"admitted", "recording"} => me.body \in Admissible
     /\ me.pc \in Critical => lock = r
     /\ Holds(r, "record") =>
          /\ draft[r] = Complete
          /\ me.body \in WellFormed \cap Admissible
          /\ files = Everything
     /\ me.result = "STRUCTURALLY_ADMITTED_DRAFT" => Holds(r, "record")
     /\ me.result \in {"DRAFT_REJECTED", "DRAFT_CAPSULE"} => ~Holds(r, "draft.json")
     /\ me.pc \in {"answering", "done"} => me.result \in Answers
     /\ draft[r] # None => me.body \in WellFormed

BrokerInv ==
  /\ BrokerTypeOK
  /\ "scaffold" \in files => files = Everything
  /\ StoreWithinLimit
  /\ \A r \in Requests : At(r, "checked") => Cardinality(Directories) < Limit
  /\ \A r \in Requests : RequestOK(r)

-----------------------------------------------------------------------------
(* The ways a request process changes.                                     *)

LEMMA GotoFacts ==
  ASSUME BrokerTypeOK, NEW r \in Requests, NEW pc \in Stages, Goto(r, pc)
  PROVE  /\ proc' \in [Requests -> [pc : Stages, body : Bodies \cup {Public, None}, result : Answers \cup {None}]]
         /\ proc'[r].pc = pc
         /\ proc'[r].body = proc[r].body
         /\ proc'[r].result = proc[r].result
         /\ \A q \in Requests \ {r} : proc'[q] = proc[q]
  BY DEF BrokerTypeOK, Goto

LEMMA ReplyFacts ==
  ASSUME BrokerTypeOK, NEW r \in Requests, NEW a \in Answers, Reply(r, a)
  PROVE  /\ proc' \in [Requests -> [pc : Stages, body : Bodies \cup {Public, None}, result : Answers \cup {None}]]
         /\ proc'[r].pc = "answering"
         /\ proc'[r].body = proc[r].body
         /\ proc'[r].result = a
         /\ \A q \in Requests \ {r} : proc'[q] = proc[q]
         /\ lock' = lock \/ (lock = r /\ lock' = None)
  BY DEF BrokerTypeOK, Reply, Release, Stages

LEMMA PutFacts ==
  ASSUME BrokerTypeOK, NEW r \in Requests, draft[r] # None,
         NEW file \in {"source", "index", "draft.json", "record"}, Put(r, file)
  PROVE  /\ draft' \in [Requests -> (SUBSET {"source", "index", "draft.json", "record"}) \cup {None}]
         /\ draft'[r] = draft[r] \cup {file}
         /\ draft'[r] # None
         /\ \A q \in Requests \ {r} : draft'[q] = draft[q]
<1> DEFINE F == {"source", "index", "draft.json", "record"}
<1>1. draft \in [Requests -> (SUBSET F) \cup {None}]
  BY DEF BrokerTypeOK
<1>2. file \in F /\ \A contents \in SUBSET F : None # contents
  BY BrokerAssumption
<1> HIDE DEF F
<1>3. draft[r] \in SUBSET F
  BY <1>1
<1>4. draft[r] \cup {file} \in SUBSET F
  BY <1>2, <1>3
<1>5. draft[r] \cup {file} # None
  BY <1>2, <1>4
<1>6. draft' = [draft EXCEPT ![r] = draft[r] \cup {file}]
  BY DEF Put
<1> QED
  BY <1>1, <1>4, <1>5, <1>6 DEF F

LEMMA DirectoriesFinite == IsFiniteSet(Directories) /\ Cardinality(Directories) \in Nat
<1>1. Directories \subseteq Requests
  BY DEF Directories
<1>2. IsFiniteSet(Directories)
  BY <1>1, BrokerAssumption, FS_Subset
<1> QED
  BY <1>2, FS_CardinalityType

\* One request has moved; the others keep their lock, their directories and
\* so their place.
LEMMA OneMoved ==
  ASSUME BrokerInv, NEW r \in Requests,
         BrokerTypeOK', files' = files,
         \A q \in Requests \ {r} : proc'[q] = proc[q] /\ draft'[q] = draft[q],
         lock' = lock \/ lock \in {None, r},
         draft[r] # None => draft'[r] # None,
         draft[r] = None /\ draft'[r] # None => At(r, "checked"),
         proc'[r].pc = "checked" => draft'[r] = draft[r] /\ Cardinality(Directories) < Limit,
         RequestOK(r)'
  PROVE  BrokerInv'
<1>1. \A q \in Requests : RequestOK(q) /\ (At(q, "checked") => lock = q)
  BY DEF BrokerInv, RequestOK, At, Critical
<1>2. ASSUME NEW q \in Requests, q # r PROVE RequestOK(q)'
  <2>1. RequestOK(q) /\ q # None
    BY BrokerAssumption DEF BrokerInv
  <2>2. proc'[q] = proc[q] /\ draft'[q] = draft[q]
    BY <1>2
  <2>3. proc[q].pc \in Critical => lock' = q
    BY <1>2, <2>1 DEF RequestOK
  <2> QED
    BY <2>1, <2>2, <2>3 DEF RequestOK, Holds
<1>3. CASE draft[r] = None /\ draft'[r] # None
  <2>1. At(r, "checked") /\ r \notin Directories
    BY <1>3 DEF Directories
  <2>2. Directories' = Directories \cup {r}
    BY <1>3 DEF Directories
  <2>3. Cardinality(Directories') = Cardinality(Directories) + 1
    BY <2>1, <2>2, DirectoriesFinite, FS_AddElement
  <2>4. Cardinality(Directories) < Limit
    BY <2>1 DEF BrokerInv
  <2>5. StoreWithinLimit'
    BY <2>3, <2>4, DirectoriesFinite, BrokerAssumption DEF StoreWithinLimit
  <2>6. \A q \in Requests : ~(proc'[q].pc = "checked")
    <3>1. proc'[r].pc # "checked"
      BY <1>3
    <3>2. \A q \in Requests \ {r} : proc[q].pc # "checked"
      BY <1>1, <2>1 DEF At
    <3> QED
      BY <3>1, <3>2
  <2> QED
    BY <1>2, <2>5, <2>6 DEF BrokerInv, At
<1>4. CASE ~(draft[r] = None /\ draft'[r] # None)
  <2>1. Directories' = Directories
    BY <1>4 DEF Directories
  <2>2. \A q \in Requests : proc'[q].pc = "checked" => Cardinality(Directories) < Limit
    BY DEF BrokerInv, At
  <2> QED
    BY <1>2, <2>1, <2>2 DEF BrokerInv, At, StoreWithinLimit
<1> QED
  BY <1>3, <1>4

LEMMA BrokerStart == BrokerInit => BrokerInv
<1> SUFFICES ASSUME BrokerInit PROVE BrokerInv
  OBVIOUS
<1>1. BrokerTypeOK
  <2>1. Unused \in [pc : Stages, body : Bodies \cup {Public, None}, result : Answers \cup {None}]
    BY DEF Unused, Stages
  <2> QED
    BY <2>1 DEF BrokerInit, BrokerTypeOK
<1>2. StoreWithinLimit
  <2>1. Directories = {}
    BY DEF BrokerInit, Directories
  <2> QED
    BY <2>1, FS_EmptySet, BrokerAssumption DEF StoreWithinLimit
<1>3. \A r \in Requests : proc[r].pc = "unused" /\ proc[r].result = None /\ draft[r] = None
  BY DEF BrokerInit, Unused
<1>4. ASSUME NEW r \in Requests PROVE RequestOK(r)
  <2>1. proc[r].pc = "unused" /\ proc[r].result = None /\ draft[r] = None
    BY <1>3
  <2>2. Contents("unused") = None
    BY DEF Contents
  <2>3. None # "STRUCTURALLY_ADMITTED_DRAFT" /\ None # "DRAFT_REJECTED" /\ None # "DRAFT_CAPSULE"
    BY BrokerAssumption DEF Answers, Failures
  <2> QED
    BY <2>1, <2>2, <2>3 DEF RequestOK, Past, Stages, Critical, Holds
<1> QED
  BY <1>1, <1>2, <1>3, <1>4 DEF BrokerInv, BrokerInit, At

LEMMA ContentsAt ==
  /\ \A pc \in {"unused", "loading", "loaded", "waiting", "locked", "checked"} : Contents(pc) = None
  /\ Contents("writing") = {}
  /\ Contents("indexing") = {"source"}
  /\ Contents("indexed") = {"source", "index"}
  /\ Contents("admitted") = {"source", "index"}
  /\ Contents("recording") = {"source", "index", "draft.json"}
  BY DEF Contents

LEMMA AnswersApart ==
  /\ None \notin Answers
  /\ Failures \subseteq Answers
  /\ "STRUCTURALLY_ADMITTED_DRAFT" \in Answers \ Failures
  /\ "DRAFT_CAPSULE" \in Answers \ Failures
  BY BrokerAssumption DEF Answers, Failures

\* Answering without having touched the draft directory.
LEMMA ReplyStep ==
  ASSUME BrokerInv, NEW r \in Requests, NEW a \in Failures \cup {"DRAFT_CAPSULE"},
         Reply(r, a), UNCHANGED <<files, prepare, draft>>,
         proc[r].pc \in Stages \ {"recording", "answering", "done", "dead"}
  PROVE  BrokerInv'
<1>1. /\ BrokerTypeOK /\ a \in Answers /\ RequestOK(r)
  BY AnswersApart DEF BrokerInv
<1>2. /\ proc' \in [Requests -> [pc : Stages, body : Bodies \cup {Public, None}, result : Answers \cup {None}]]
      /\ proc'[r].pc = "answering"
      /\ proc'[r].body = proc[r].body
      /\ proc'[r].result = a
      /\ \A q \in Requests \ {r} : proc'[q] = proc[q]
      /\ lock' = lock \/ (lock = r /\ lock' = None)
  BY <1>1, ReplyFacts
<1>3. BrokerTypeOK'
  BY <1>1, <1>2 DEF BrokerTypeOK
<1>4. ~Holds(r, "draft.json")
  <2>1. draft[r] = Contents(proc[r].pc)
    BY <1>1 DEF RequestOK
  <2> QED
    BY <2>1, ContentsAt DEF Holds, Stages
<1>5. RequestOK(r)'
  BY <1>1, <1>2, <1>4, AnswersApart DEF RequestOK, Holds, Past, Critical, Failures
<1> QED
  BY <1>2, <1>3, <1>5, OneMoved

\* Going on without touching the draft directory.
LEMMA GotoStep ==
  ASSUME BrokerInv, NEW r \in Requests, NEW pc \in Past, Goto(r, pc), BrokerTypeOK,
         UNCHANGED <<files, prepare, draft>>,
         lock' = lock \/ lock = None,
         lock' \in Requests \cup {None},
         pc = "checked" => Cardinality(Directories) < Limit,
         RequestOK(r)'
  PROVE  BrokerInv'
<1>1. /\ proc' \in [Requests -> [pc : Stages, body : Bodies \cup {Public, None}, result : Answers \cup {None}]]
      /\ proc'[r].pc = pc
      /\ \A q \in Requests \ {r} : proc'[q] = proc[q]
  <2>1. pc \in Stages
    BY DEF Past
  <2> QED
    BY <2>1, GotoFacts
<1>2. BrokerTypeOK'
  BY <1>1 DEF BrokerTypeOK
<1> QED
  BY <1>1, <1>2, OneMoved

\* Going on with one more file in the draft directory.
LEMMA PutStep ==
  ASSUME BrokerInv, NEW r \in Requests, NEW pc \in {"indexing", "indexed", "recording"},
         NEW file \in {"source", "index", "draft.json"},
         Goto(r, pc), Put(r, file), UNCHANGED <<files, prepare, lock>>,
         proc[r].pc \in {"writing", "indexing", "admitted"},
         Contents(pc) = Contents(proc[r].pc) \cup {file},
         pc = "recording" => proc[r].body \in Admissible
  PROVE  BrokerInv'
<1>1. BrokerTypeOK /\ RequestOK(r) /\ pc \in Stages
  BY DEF BrokerInv, Stages
<1>2. draft[r] = Contents(proc[r].pc) /\ draft[r] # None
  BY <1>1, ContentsAt, BrokerAssumption DEF RequestOK, Stages
<1>3. /\ proc' \in [Requests -> [pc : Stages, body : Bodies \cup {Public, None}, result : Answers \cup {None}]]
      /\ proc'[r].pc = pc
      /\ proc'[r].body = proc[r].body
      /\ proc'[r].result = proc[r].result
      /\ \A q \in Requests \ {r} : proc'[q] = proc[q]
  BY <1>1, GotoFacts
<1>4. /\ draft' \in [Requests -> (SUBSET {"source", "index", "draft.json", "record"}) \cup {None}]
      /\ draft'[r] = draft[r] \cup {file}
      /\ draft'[r] # None
      /\ \A q \in Requests \ {r} : draft'[q] = draft[q]
  BY <1>1, <1>2, PutFacts
<1>5. BrokerTypeOK'
  BY <1>1, <1>3, <1>4 DEF BrokerTypeOK
<1>6. RequestOK(r)'
  <2>1. draft'[r] = Contents(pc) /\ "record" \notin draft'[r]
    BY <1>2, <1>4, ContentsAt
  <2>2. proc[r].pc \in Critical /\ proc[r].pc \in Past
    BY DEF Critical, Past, Stages
  <2> QED
    BY <1>1, <1>3, <2>1, <2>2, AnswersApart DEF RequestOK, Holds, Past, Critical, Failures
<1> QED
  BY <1>2, <1>3, <1>4, <1>5, <1>6, OneMoved

-----------------------------------------------------------------------------
(* prepare.                                                                *)

LEMMA ScaffoldIsLast ==
  ASSUME BrokerInv, PrepareWrites
  PROVE  /\ files # Everything
         /\ files' \subseteq Everything
         /\ "scaffold" \in files' => files' = Everything
<1>1. PICK i \in DOMAIN Layout :
        /\ files = {Layout[j] : j \in 1 .. i - 1}
        /\ files' = files \cup {Layout[i]}
  BY DEF PrepareWrites
<1>2. Len(Layout) = 6 /\ DOMAIN Layout = 1 .. 6
  BY DEF Layout
<1>3. /\ Layout[1] = "capsule" /\ Layout[2] = "lock" /\ Layout[3] = "baseline"
      /\ Layout[4] = "drafts" /\ Layout[5] = "scaffold-index" /\ Layout[6] = "scaffold"
  BY DEF Layout
<1>4. "scaffold" \notin files
  <2>1. \A j \in 1 .. i - 1 : j \in 1 .. 5
    BY <1>2
  <2>2. \A j \in 1 .. 5 : Layout[j] # "scaffold"
    <3>1. \A j \in 1 .. 5 : j = 1 \/ j = 2 \/ j = 3 \/ j = 4 \/ j = 5
      OBVIOUS
    <3> QED
      BY <1>3, <3>1
  <2> QED
    BY <1>1, <2>1, <2>2
<1>5. "scaffold" \in Everything
  BY <1>2, <1>3 DEF Everything
<1>6. files' \subseteq Everything
  BY <1>1 DEF BrokerInv, BrokerTypeOK, Everything
<1>7. ASSUME "scaffold" \in files' PROVE files' = Everything
  <2>1. Layout[i] = "scaffold"
    BY <1>1, <1>4, <1>7
  <2>2. i = 6
    <3>1. i \in 1 .. 5 \/ i = 6
      BY <1>2
    <3>2. \A j \in 1 .. 5 : j = 1 \/ j = 2 \/ j = 3 \/ j = 4 \/ j = 5
      OBVIOUS
    <3> QED
      BY <1>3, <2>1, <3>1, <3>2
  <2>3. \A j \in DOMAIN Layout : j \in 1 .. i - 1 \/ j = i
    BY <1>2, <2>2
  <2>4. Everything \subseteq files'
    BY <1>1, <2>3 DEF Everything
  <2> QED
    BY <1>6, <2>4
<1> QED
  BY <1>4, <1>5, <1>6, <1>7

\* What prepare does, no request's place depends on but for completeness.
LEMMA PrepareSteps ==
  ASSUME BrokerInv, PrepareWrites \/ PrepareStops PROVE BrokerInv'
<1>1. UNCHANGED <<proc, lock, draft>> /\ Directories' = Directories
  BY DEF PrepareWrites, PrepareStops, Directories
<1>2. /\ files' \subseteq Everything
      /\ "scaffold" \in files' => files' = Everything
      /\ files = Everything => files' = files
  BY ScaffoldIsLast DEF PrepareStops, BrokerInv, BrokerTypeOK
<1>3. prepare' \in {"running", "done", "stopped"}
  BY DEF PrepareWrites, PrepareStops
<1>4. BrokerTypeOK'
  BY <1>1, <1>2, <1>3 DEF BrokerInv, BrokerTypeOK
<1>5. ASSUME NEW r \in Requests PROVE RequestOK(r)'
  <2>1. RequestOK(r)
    BY DEF BrokerInv
  <2> QED
    BY <1>1, <1>2, <2>1 DEF RequestOK, Holds
<1> QED
  BY <1>1, <1>2, <1>4, <1>5 DEF BrokerInv, StoreWithinLimit, At

-----------------------------------------------------------------------------
(* request: from the start to the lock.                                    *)

LEMMA BeginStep ==
  ASSUME BrokerInv, NEW r \in Requests, NEW b \in Bodies \cup {Public}, Begin(r, b) PROVE BrokerInv'
<1>1. BrokerTypeOK /\ RequestOK(r)
  BY DEF BrokerInv
<1>2. /\ proc' \in [Requests -> [pc : Stages, body : Bodies \cup {Public, None}, result : Answers \cup {None}]]
      /\ proc'[r].pc = "loading"
      /\ proc'[r].result = None
      /\ \A q \in Requests \ {r} : proc'[q] = proc[q]
  BY <1>1 DEF BrokerTypeOK, Begin, At, RequestOK, Stages
<1>3. UNCHANGED <<files, prepare, lock, draft>>
  BY DEF Begin
<1>4. draft[r] = None
  BY <1>1, ContentsAt DEF RequestOK, Begin, At, Stages
<1>5. BrokerTypeOK'
  BY <1>1, <1>2, <1>3 DEF BrokerTypeOK
<1>6. RequestOK(r)'
  BY <1>2, <1>3, <1>4, ContentsAt, AnswersApart DEF RequestOK, Holds, Past, Critical, Failures
<1> QED
  BY <1>2, <1>3, <1>5, <1>6, OneMoved

LEMMA LoadStep == ASSUME BrokerInv, NEW r \in Requests, Load(r) PROVE BrokerInv'
<1>1. /\ proc[r].pc = "loading" /\ RequestOK(r) /\ UNCHANGED <<files, prepare, draft>>
  BY DEF Load, At, BrokerInv
<1>2. CASE "scaffold" \in files /\ Goto(r, "loaded") /\ UNCHANGED lock
  <2>1. /\ BrokerTypeOK /\ "loaded" \in Past
        /\ proc'[r].pc = "loaded" /\ proc'[r].body = proc[r].body /\ proc'[r].result = proc[r].result
    BY <1>1, <1>2, GotoFacts DEF BrokerInv, Past, Stages
  <2>2. files = Everything /\ proc[r].result = None /\ draft[r] = None
    BY <1>1, <1>2, ContentsAt DEF BrokerInv, RequestOK, Past, Stages
  <2>3. RequestOK(r)'
    BY <1>1, <1>2, <2>1, <2>2, ContentsAt DEF RequestOK, Holds, Past, Critical
  <2> QED
    BY <1>1, <1>2, <2>1, <2>3, GotoStep DEF BrokerTypeOK
<1>3. CASE \E a \in Failures : Reply(r, a)
  BY <1>1, <1>3, ReplyStep DEF Stages
<1> QED
  BY <1>2, <1>3 DEF Load

LEMMA ReceiveStep == ASSUME BrokerInv, NEW r \in Requests, Receive(r) PROVE BrokerInv'
<1>1. /\ proc[r].pc = "loaded" /\ RequestOK(r) /\ UNCHANGED <<files, prepare, draft>>
  BY DEF Receive, At, BrokerInv
<1>2. CASE proc[r].body \in WellFormed /\ Goto(r, "waiting") /\ UNCHANGED lock
  <2>1. /\ BrokerTypeOK /\ "waiting" \in Past
        /\ proc'[r].pc = "waiting" /\ proc'[r].body = proc[r].body /\ proc'[r].result = proc[r].result
    BY <1>1, <1>2, GotoFacts DEF BrokerInv, Past, Stages
  <2>2. files = Everything /\ proc[r].result = None /\ draft[r] = None
    BY <1>1, <1>2, ContentsAt DEF BrokerInv, RequestOK, Past, Stages
  <2>3. RequestOK(r)'
    BY <1>1, <1>2, <2>1, <2>2, ContentsAt DEF RequestOK, Holds, Past, Critical
  <2> QED
    BY <1>1, <1>2, <2>1, <2>3, GotoStep DEF BrokerTypeOK
<1>3. CASE \E a \in Failures \cup {"DRAFT_CAPSULE"} : Reply(r, a)
  BY <1>1, <1>3, ReplyStep DEF Stages
<1> QED
  BY <1>2, <1>3 DEF Receive, Failures

LEMMA EnterStep == ASSUME BrokerInv, NEW r \in Requests, Enter(r) PROVE BrokerInv'
<1>1. /\ proc[r].pc = "waiting" /\ RequestOK(r) /\ Goto(r, "locked")
      /\ UNCHANGED <<files, prepare, draft>> /\ lock = None /\ lock' = r
  BY DEF Enter, At, BrokerInv
<1>2. /\ BrokerTypeOK /\ "locked" \in Past
      /\ proc'[r].pc = "locked" /\ proc'[r].body = proc[r].body /\ proc'[r].result = proc[r].result
  BY <1>1, GotoFacts DEF BrokerInv, Past, Stages
<1>3. /\ files = Everything /\ proc[r].result = None /\ draft[r] = Contents("locked")
      /\ proc[r].body \in WellFormed /\ lock' = r
  BY <1>1, ContentsAt DEF RequestOK, Past, Stages, Critical
<1>4. RequestOK(r)'
  BY <1>1, <1>2, <1>3, ContentsAt, AnswersApart DEF RequestOK, Holds, Past, Critical
<1> QED
  BY <1>1, <1>2, <1>3, <1>4, GotoStep DEF BrokerTypeOK

\* The deadlines are failures answered with an untouched directory.
LEMMA DeadlineSteps ==
  ASSUME BrokerInv, NEW r \in Requests, InputDeadline(r) \/ Busy(r) \/ IndexDeadline(r) PROVE BrokerInv'
<1>1. /\ proc[r].pc \in {"loaded", "waiting", "indexing"}
      /\ UNCHANGED <<files, prepare, draft>> /\ Reply(r, "DRAFT_UNAVAILABLE")
  BY DEF InputDeadline, Busy, IndexDeadline, At
<1> QED
  BY <1>1, ReplyStep DEF Stages, Failures

-----------------------------------------------------------------------------
(* request: under the lock.                                                *)

LEMMA CheckStep == ASSUME BrokerInv, NEW r \in Requests, Check(r) PROVE BrokerInv'
<1>1. /\ proc[r].pc = "locked" /\ RequestOK(r) /\ UNCHANGED <<files, prepare, draft>>
  BY DEF Check, At, BrokerInv
<1>2. CASE Cardinality(Directories) < Limit /\ Goto(r, "checked") /\ UNCHANGED lock
  <2>1. /\ BrokerTypeOK /\ "checked" \in Past
        /\ proc'[r].pc = "checked" /\ proc'[r].body = proc[r].body /\ proc'[r].result = proc[r].result
    BY <1>1, <1>2, GotoFacts DEF BrokerInv, Past, Stages
  <2>2. /\ files = Everything /\ proc[r].result = None /\ draft[r] = Contents("checked")
        /\ proc[r].body \in WellFormed /\ lock' = r
    BY <1>1, <1>2, ContentsAt DEF RequestOK, Past, Stages, Critical
  <2>3. RequestOK(r)'
    BY <1>1, <1>2, <2>1, <2>2, ContentsAt, AnswersApart DEF RequestOK, Holds, Past, Critical
  <2> QED
    BY <1>1, <1>2, <2>1, <2>2, <2>3, GotoStep DEF BrokerTypeOK
<1>3. CASE \E a \in Failures : Reply(r, a)
  BY <1>1, <1>3, ReplyStep DEF Stages
<1> QED
  BY <1>2, <1>3 DEF Check, Failures

LEMMA MakeWorkspaceStep == ASSUME BrokerInv, NEW r \in Requests, MakeWorkspace(r) PROVE BrokerInv'
<1>1. /\ proc[r].pc = "checked" /\ RequestOK(r) /\ BrokerTypeOK /\ UNCHANGED <<files, prepare>>
  BY DEF MakeWorkspace, At, BrokerInv
<1>2. CASE draft' = [draft EXCEPT ![r] = {}] /\ Goto(r, "writing") /\ UNCHANGED lock
  <2>1. /\ proc' \in [Requests -> [pc : Stages, body : Bodies \cup {Public, None}, result : Answers \cup {None}]]
        /\ proc'[r].pc = "writing"
        /\ proc'[r].body = proc[r].body
        /\ proc'[r].result = proc[r].result
        /\ \A q \in Requests \ {r} : proc'[q] = proc[q]
    BY <1>1, <1>2, GotoFacts DEF Stages
  <2>2. /\ draft' \in [Requests -> (SUBSET {"source", "index", "draft.json", "record"}) \cup {None}]
        /\ draft'[r] = {}
        /\ \A q \in Requests \ {r} : draft'[q] = draft[q]
    BY <1>1, <1>2 DEF BrokerTypeOK
  <2>3. {} # None
    BY BrokerAssumption
  <2>4. BrokerTypeOK'
    BY <1>1, <1>2, <2>1, <2>2 DEF BrokerTypeOK
  <2>5. files = Everything /\ proc[r].result = None /\ proc[r].body \in WellFormed /\ lock = r
    BY <1>1 DEF RequestOK, Past, Stages, Critical
  <2>6. RequestOK(r)'
    BY <1>1, <1>2, <2>1, <2>2, <2>5, ContentsAt, AnswersApart DEF RequestOK, Holds, Past, Critical, Failures
  <2> QED
    BY <1>1, <1>2, <2>1, <2>2, <2>3, <2>4, <2>6, OneMoved DEF At
<1>3. CASE UNCHANGED draft /\ Reply(r, "DRAFT_UNAVAILABLE")
  BY <1>1, <1>3, ReplyStep DEF Stages, Failures
<1> QED
  BY <1>2, <1>3 DEF MakeWorkspace

LEMMA MaterializeStep == ASSUME BrokerInv, NEW r \in Requests, Materialize(r) PROVE BrokerInv'
<1>1. proc[r].pc = "writing" /\ UNCHANGED <<files, prepare>>
  BY DEF Materialize, At
<1>2. CASE Put(r, "source") /\ Goto(r, "indexing") /\ UNCHANGED lock
  BY <1>1, <1>2, ContentsAt, PutStep
<1>3. CASE UNCHANGED draft /\ \E a \in Failures : Reply(r, a)
  BY <1>1, <1>3, ReplyStep DEF Stages
<1> QED
  BY <1>2, <1>3 DEF Materialize

LEMMA IndexEndsStep == ASSUME BrokerInv, NEW r \in Requests, IndexEnds(r) PROVE BrokerInv'
<1>1. proc[r].pc = "indexing" /\ UNCHANGED <<files, prepare>>
  BY DEF IndexEnds, At
<1>2. CASE Put(r, "index") /\ Goto(r, "indexed") /\ UNCHANGED lock
  <2>1. Contents("indexed") = Contents("indexing") \cup {"index"}
    BY ContentsAt
  <2> QED
    BY <1>1, <1>2, <2>1, PutStep
<1>3. CASE UNCHANGED draft /\ \E a \in Failures : Reply(r, a)
  BY <1>1, <1>3, ReplyStep DEF Stages
<1> QED
  BY <1>2, <1>3 DEF IndexEnds

LEMMA CompareStep == ASSUME BrokerInv, NEW r \in Requests, Compare(r) PROVE BrokerInv'
<1>1. /\ proc[r].pc = "indexed" /\ RequestOK(r) /\ UNCHANGED <<files, prepare, draft>>
  BY DEF Compare, At, BrokerInv
<1>2. CASE proc[r].body \in Admissible /\ Goto(r, "admitted") /\ UNCHANGED lock
  <2>1. /\ BrokerTypeOK /\ "admitted" \in Past
        /\ proc'[r].pc = "admitted" /\ proc'[r].body = proc[r].body /\ proc'[r].result = proc[r].result
    BY <1>1, <1>2, GotoFacts DEF BrokerInv, Past, Stages
  <2>2. /\ files = Everything /\ proc[r].result = None /\ draft[r] = Contents("admitted")
        /\ proc[r].body \in WellFormed /\ lock' = r
    BY <1>1, <1>2, ContentsAt DEF RequestOK, Past, Stages, Critical
  <2>3. RequestOK(r)'
    BY <1>1, <1>2, <2>1, <2>2, ContentsAt, AnswersApart DEF RequestOK, Holds, Past, Critical
  <2> QED
    BY <1>1, <1>2, <2>1, <2>2, <2>3, GotoStep DEF BrokerTypeOK
<1>3. CASE Reply(r, "DRAFT_REJECTED")
  BY <1>1, <1>3, ReplyStep DEF Stages, Failures
<1> QED
  BY <1>2, <1>3 DEF Compare

LEMMA OpenRecordStep == ASSUME BrokerInv, NEW r \in Requests, OpenRecord(r) PROVE BrokerInv'
<1>1. proc[r].pc = "admitted" /\ UNCHANGED <<files, prepare>> /\ RequestOK(r)
  BY DEF OpenRecord, At, BrokerInv
<1>2. CASE Put(r, "draft.json") /\ Goto(r, "recording") /\ UNCHANGED lock
  <2>1. Contents("recording") = Contents("admitted") \cup {"draft.json"} /\ proc[r].body \in Admissible
    BY <1>1, ContentsAt DEF RequestOK
  <2> QED
    BY <1>1, <1>2, <2>1, PutStep
<1>3. CASE UNCHANGED draft /\ Reply(r, "DRAFT_UNAVAILABLE")
  BY <1>1, <1>3, ReplyStep DEF Stages, Failures
<1> QED
  BY <1>2, <1>3 DEF OpenRecord

\* The one step that completes a record: under the lock the directory holds
\* the source and the index, and the body has been found admissible.
LEMMA FillRecordStep == ASSUME BrokerInv, NEW r \in Requests, FillRecord(r) PROVE BrokerInv'
<1>1. /\ proc[r].pc = "recording" /\ RequestOK(r) /\ BrokerTypeOK /\ UNCHANGED <<files, prepare>>
  BY DEF FillRecord, At, BrokerInv
<1>2. /\ files = Everything /\ proc[r].body \in WellFormed \cap Admissible
      /\ draft[r] = {"source", "index", "draft.json"} /\ draft[r] # None
  BY <1>1, ContentsAt, BrokerAssumption DEF RequestOK, Past, Stages, Critical
<1>3. PICK a \in {"STRUCTURALLY_ADMITTED_DRAFT", "DRAFT_UNAVAILABLE"} :
        /\ Reply(r, a)
        /\ Put(r, "record") \/ (UNCHANGED draft /\ a = "DRAFT_UNAVAILABLE")
  BY DEF FillRecord
<1>4. /\ proc' \in [Requests -> [pc : Stages, body : Bodies \cup {Public, None}, result : Answers \cup {None}]]
      /\ proc'[r].pc = "answering"
      /\ proc'[r].body = proc[r].body
      /\ proc'[r].result = a
      /\ \A q \in Requests \ {r} : proc'[q] = proc[q]
      /\ lock' = lock \/ (lock = r /\ lock' = None)
  <2>1. a \in Answers
    BY DEF Answers, Failures
  <2> QED
    BY <1>1, <1>3, <2>1, ReplyFacts
<1>5. /\ draft' \in [Requests -> (SUBSET {"source", "index", "draft.json", "record"}) \cup {None}]
      /\ draft'[r] # None
      /\ draft'[r] = Complete \/ (draft'[r] = draft[r] /\ a = "DRAFT_UNAVAILABLE")
      /\ \A q \in Requests \ {r} : draft'[q] = draft[q]
  <2>1. CASE Put(r, "record")
    <3>1. /\ draft' \in [Requests -> (SUBSET {"source", "index", "draft.json", "record"}) \cup {None}]
          /\ draft'[r] = draft[r] \cup {"record"}
          /\ draft'[r] # None
          /\ \A q \in Requests \ {r} : draft'[q] = draft[q]
      BY <1>1, <1>2, <2>1, PutFacts
    <3> QED
      BY <1>2, <3>1 DEF Complete
  <2>2. CASE UNCHANGED draft /\ a = "DRAFT_UNAVAILABLE"
    BY <1>1, <1>2, <2>2 DEF BrokerTypeOK
  <2> QED
    BY <1>3, <2>1, <2>2
<1>6. BrokerTypeOK'
  BY <1>1, <1>4, <1>5 DEF BrokerTypeOK
<1>7. RequestOK(r)'
  <2>1. a # None /\ a \notin {"DRAFT_REJECTED", "DRAFT_CAPSULE"} /\ a \in Answers
    BY AnswersApart DEF Failures
  <2>2. Holds(r, "record")' => draft'[r] = Complete
    BY <1>2, <1>5 DEF Holds
  <2>3. a = "STRUCTURALLY_ADMITTED_DRAFT" => Holds(r, "record")'
    BY <1>5 DEF Holds, Complete
  <2> QED
    BY <1>1, <1>2, <1>4, <2>1, <2>2, <2>3 DEF RequestOK, Past, Critical
<1> QED
  BY <1>1, <1>2, <1>4, <1>5, <1>6, <1>7, OneMoved

-----------------------------------------------------------------------------
(* The end of a request.                                                   *)

LEMMA EndSteps == ASSUME BrokerInv, NEW r \in Requests, Answer(r) \/ Kill(r) PROVE BrokerInv'
<1>1. BrokerTypeOK /\ RequestOK(r) /\ UNCHANGED <<files, prepare, draft>>
  BY DEF BrokerInv, Answer, Kill
<1>2. PICK pc \in {"done", "dead"} : Goto(r, pc) /\ (pc = "done" => proc[r].pc = "answering")
  BY DEF Answer, Kill, At
<1>3. /\ proc' \in [Requests -> [pc : Stages, body : Bodies \cup {Public, None}, result : Answers \cup {None}]]
      /\ proc'[r].pc = pc
      /\ proc'[r].body = proc[r].body
      /\ proc'[r].result = proc[r].result
      /\ \A q \in Requests \ {r} : proc'[q] = proc[q]
  BY <1>1, <1>2, GotoFacts DEF Stages
<1>4. lock' = lock \/ (lock = r /\ lock' = None)
  BY DEF Answer, Kill, Release
<1>5. BrokerTypeOK'
  BY <1>1, <1>3, <1>4 DEF BrokerTypeOK
<1>6. RequestOK(r)'
  BY <1>1, <1>2, <1>3 DEF RequestOK, Holds, Past, Critical
<1> QED
  BY <1>1, <1>3, <1>4, <1>5, <1>6, OneMoved

LEMMA BrokerStep == BrokerInv /\ [BrokerNext]_brokerVars => BrokerInv'
<1> SUFFICES ASSUME BrokerInv, [BrokerNext]_brokerVars PROVE BrokerInv'
  OBVIOUS
<1>1. CASE PrepareWrites \/ PrepareStops
  BY <1>1, PrepareSteps
<1>2. ASSUME NEW r \in Requests, \E b \in Bodies \cup {Public} : Begin(r, b) PROVE BrokerInv'
  BY <1>2, BeginStep
<1>3. ASSUME NEW r \in Requests, Proceed(r) PROVE BrokerInv'
  BY <1>3, LoadStep, EnterStep, DeadlineSteps, CheckStep, MakeWorkspaceStep, MaterializeStep,
     CompareStep, OpenRecordStep, FillRecordStep, EndSteps DEF Proceed
<1>4. ASSUME NEW r \in Requests, Receive(r) \/ IndexEnds(r) \/ Kill(r) PROVE BrokerInv'
  BY <1>4, ReceiveStep, IndexEndsStep, EndSteps
<1>5. CASE UNCHANGED brokerVars
  <2>1. UNCHANGED <<files, prepare, proc, lock, draft>>
    BY <1>5 DEF brokerVars
  <2>2. Directories' = Directories
    BY <2>1 DEF Directories
  <2> QED
    BY <2>1, <2>2 DEF BrokerInv, BrokerTypeOK, StoreWithinLimit, RequestOK, At, Holds
<1> QED
  BY <1>1, <1>2, <1>3, <1>4, <1>5 DEF BrokerNext

\* A request process that moves on was running, and touches nobody else's
\* place and directory, nor the body it was given.
LEMMA RequestFrame ==
  ASSUME BrokerTypeOK, NEW r \in Requests, Proceed(r) \/ Receive(r) \/ IndexEnds(r) \/ Kill(r)
  PROVE  /\ Running(r)
         /\ proc'[r].pc \in Stages \ {"unused", "loading"} /\ proc'[r].body = proc[r].body
         /\ \A q \in Requests \ {r} : proc'[q] = proc[q] /\ draft'[q] = draft[q]
         /\ UNCHANGED <<files, prepare>>
<1> DEFINE Moved(s) ==
      /\ proc'[r].pc = s /\ proc'[r].body = proc[r].body
      /\ \A q \in Requests \ {r} : proc'[q] = proc[q]
<1> DEFINE Kept == \A q \in Requests \ {r} : draft'[q] = draft[q]
<1>1. ASSUME NEW s, Goto(r, s) PROVE Moved(s)
  BY <1>1 DEF BrokerTypeOK, Goto
<1>2. ASSUME NEW a, Reply(r, a) PROVE Moved("answering")
  BY <1>2 DEF BrokerTypeOK, Reply
<1>3. ASSUME NEW file, Put(r, file) PROVE Kept
  BY <1>3 DEF BrokerTypeOK, Put
<1>4. UNCHANGED draft => Kept
  OBVIOUS
<1>5. draft' = [draft EXCEPT ![r] = {}] => Kept
  BY DEF BrokerTypeOK
<1> HIDE DEF Moved, Kept
<1>6. /\ proc[r].pc \in Stages \ {"unused", "done", "dead"}
      /\ UNCHANGED <<files, prepare>>
      /\ Kept
      /\ \E s \in Stages \ {"unused", "loading"} : Moved(s)
  <2>1. CASE Load(r) \/ Receive(r) \/ InputDeadline(r) \/ Enter(r) \/ Busy(r)
    BY <1>1, <1>2, <1>4, <2>1 DEF Load, Receive, InputDeadline, Enter, Busy, At, Stages
  <2>2. CASE Check(r) \/ MakeWorkspace(r) \/ Materialize(r)
    BY <1>1, <1>2, <1>3, <1>4, <1>5, <2>2 DEF Check, MakeWorkspace, Materialize, At, Stages
  <2>3. CASE IndexEnds(r) \/ IndexDeadline(r) \/ Compare(r)
    BY <1>1, <1>2, <1>3, <1>4, <2>3 DEF IndexEnds, IndexDeadline, Compare, At, Stages
  <2>4. CASE OpenRecord(r) \/ FillRecord(r)
    BY <1>1, <1>2, <1>3, <1>4, <2>4 DEF OpenRecord, FillRecord, At, Stages
  <2>5. CASE Answer(r) \/ Kill(r)
    <3>1. proc[r].pc \in Stages
      BY DEF BrokerTypeOK
    <3> QED
      BY <1>1, <1>4, <2>5, <3>1 DEF Answer, Kill, Running, At, Stages
  <2> QED
    BY <2>1, <2>2, <2>3, <2>4, <2>5 DEF Proceed
<1> QED
  BY <1>6 DEF Moved, Kept, Running

LEMMA BeginFrame ==
  ASSUME BrokerTypeOK, NEW r \in Requests, NEW b, Begin(r, b)
  PROVE  /\ proc[r].pc = "unused"
         /\ proc'[r].pc = "loading" /\ proc'[r].body = b
         /\ \A q \in Requests \ {r} : proc'[q] = proc[q]
         /\ UNCHANGED <<files, prepare, lock, draft>>
  BY DEF BrokerTypeOK, Begin, At

-----------------------------------------------------------------------------
(* Theorems.                                                               *)

\* The inductive invariant of the broker: what each request has in its
\* directory at each line of submit, and who holds the lock there.
THEOREM BrokerInvariant == BrokerSpec => []BrokerInv
<1> QED
  BY BrokerStart, BrokerStep, PTL DEF BrokerSpec

\* The state directory, the processes and the drafts are always well formed.
THEOREM BrokerIsTyped == BrokerSpec => []BrokerTypeOK
<1>1. BrokerInv => BrokerTypeOK
  BY DEF BrokerInv
<1> QED
  BY <1>1, BrokerInvariant, PTL

\* For any number of concurrent submissions and any limit, the count of the
\* draft directories made under the lock keeps the store within the limit.
THEOREM LimitAlwaysHolds == BrokerSpec => []StoreWithinLimit
<1>1. BrokerInv => StoreWithinLimit
  BY DEF BrokerInv
<1> QED
  BY <1>1, BrokerInvariant, PTL

\* Whatever is killed, a complete record is about an admissible body, stands
\* beside its source and index, and is there when its client has been told.
THEOREM AdmittedIsAlwaysRetained == BrokerSpec => []RetainedIsAdmitted
<1>1. BrokerInv => RetainedIsAdmitted
  BY DEF BrokerInv, RequestOK, RetainedIsAdmitted, Complete
<1> QED
  BY <1>1, BrokerInvariant, PTL

\* A rejection never leaves a record behind.
THEOREM RejectedIsNeverRetained == BrokerSpec => []RejectedIsNotRetained
<1>1. BrokerInv => RejectedIsNotRetained
  BY DEF BrokerInv, RequestOK, RejectedIsNotRetained
<1> QED
  BY <1>1, BrokerInvariant, PTL
=============================================================================
