---------------------------- MODULE DirectBridge ----------------------------
(***************************************************************************)
(* One run of the direct bridge: an operator's process that carries a      *)
(* model provider's calls to the draft broker, one broker process for each *)
(* call, and leaves a report behind.  Others may use the same state        *)
(* directory, the installed code may be edited under the run, and every    *)
(* process may be killed; a killed bridge leaves its broker process alone. *)
(***************************************************************************)
EXTENDS DraftBroker

CONSTANTS
  Turns,      \* provider requests of one run
  Strangers,  \* requests that others make on the same state directory
  Foreign,    \* what they ask for
  Edits       \* bound: how often the installed code is edited

\* The run's own broker processes: 0 asks for the capsule, t serves turn t.
Own == 0 .. Turns

ASSUME BridgeAssumption ==
  /\ Turns \in Nat \ {0} /\ Edits \in Nat
  /\ Own \cap Strangers = {}
  /\ Foreign \subseteq Bodies \cup {Public}
  /\ Requests = Own \cup Strangers

VARIABLES
  installed,  \* the edits made so far to the bridge, the broker and the framework
  bridge,     \* the bridge's process
  report,     \* the output file: None, or what it holds
  code        \* the installations its broker processes were started from

bridgeVars == <<bridge, report, code>>
vars == <<brokerVars, installed, bridgeVars>>

Admitted == "STRUCTURALLY_ADMITTED_DRAFT"
Unavailable == "BRIDGE_UNAVAILABLE"
NoCall == "none"
Calls == {NoCall, Public} \cup Bodies

Init ==
  /\ BrokerInit
  /\ installed = 0
  /\ bridge = [pc |-> "starting", turn |-> 1, call |-> NoCall, identity |-> None,
               state |-> Unavailable, printed |-> None]
  /\ report = None
  /\ code = {}

Is(pc) == bridge.pc = pc
Advance(pc) == bridge' = [bridge EXCEPT !.pc = pc]

\* main's outer exception handler: whatever the file holds, the run is
\* reported as unavailable on standard output.
Abort == bridge' = [bridge EXCEPT !.pc = "printing", !.state = Unavailable]

\* An exception inside _run is caught, and the report is written again.
Abandon == bridge' = [bridge EXCEPT !.pc = "rewriting", !.state = Unavailable]

-----------------------------------------------------------------------------
(* main, up to the first report.                                           *)

\* Arguments, state directory, task and credential are what they should be,
\* and the installation is identified; or not.
Configure ==
  /\ Is("starting")
  /\ \/ bridge' = [bridge EXCEPT !.pc = "opening", !.identity = installed]
     \/ Abort
  /\ UNCHANGED <<brokerVars, installed, report, code>>

\* The output must be a new file.
OpenReport ==
  /\ Is("opening")
  /\ \/ Advance("heading") /\ report' = "empty"
     \/ Abort /\ UNCHANGED report
  /\ UNCHANGED <<brokerVars, installed, code>>

\* What a file that holds `old` can hold when writing `new` was cut off.
Torn(old, new) == {old, "torn", new}

WriteFirst ==
  /\ Is("heading")
  /\ \/ Advance("run") /\ report' = Unavailable
     \/ Abort /\ report' \in Torn(report, Unavailable)
  /\ UNCHANGED <<brokerVars, installed, code>>

-----------------------------------------------------------------------------
(* _run.                                                                   *)

IdentityRemembered == TRUE  \* fault: the first identity is kept in a cache

\* _identity() == identity: every file is read again.
SameIdentity == installed = bridge.identity

\* Where the identity is compared, and where the run goes on to.
Checkpoints == [run |-> "capsule", capsuled |-> "turn", turn |-> "provider",
                returned |-> "decide", decided |-> "settled"]

Recheck ==
  /\ bridge.pc \in DOMAIN Checkpoints
  /\ IF SameIdentity THEN Advance(Checkpoints[bridge.pc]) ELSE Abandon
  /\ UNCHANGED <<brokerVars, installed, report, code>>

\* A broker process is started from the installation as it is by now.
Start(r, body, pc) ==
  /\ Begin(r, body)
  /\ code' = code \cup {installed}
  /\ Advance(pc)
  /\ UNCHANGED <<installed, report>>

AskCapsule == Is("capsule") /\ Start(0, Public, "asked")

CapsuleReturned ==
  /\ Is("asked") /\ proc[0].pc = "done"
  /\ IF proc[0].result = "DRAFT_CAPSULE" THEN Advance("capsuled") ELSE Abandon
  /\ UNCHANGED <<brokerVars, installed, report, code>>

\* The provider's child process answers, with at most one call.
ProviderAnswers ==
  /\ Is("provider")
  /\ \E c \in Calls : bridge' = [bridge EXCEPT !.pc = "answered", !.call = c]
  /\ UNCHANGED <<brokerVars, installed, report, code>>

Decide(state) == bridge' = [bridge EXCEPT !.pc = "decided", !.state = state]

CheckAnswer ==
  /\ Is("answered")
  /\ IF ~SameIdentity THEN Abandon
     ELSE IF bridge.call = NoCall THEN Decide("NO_DRAFT")
     ELSE Advance("dispatch")
  /\ UNCHANGED <<brokerVars, installed, report, code>>

Dispatch == Is("dispatch") /\ Start(bridge.turn, bridge.call, "broker")

BrokerReturned ==
  /\ Is("broker") /\ proc[bridge.turn].pc = "done"
  /\ Advance("returned")
  /\ UNCHANGED <<brokerVars, installed, report, code>>

FinalAdmittedOnly == {Admitted}  \* fault: the model may revise when the broker is unavailable

\* The answers that end the run.
Final == {Admitted, "DRAFT_UNAVAILABLE"}

NextTurn ==
  /\ Is("decide")
  /\ LET state == proc[bridge.turn].result
     IN \/ state \in Final /\ Decide(state)
        \/ /\ state \notin Final /\ bridge.turn < Turns
           /\ bridge' = [bridge EXCEPT !.pc = "turn", !.turn = @ + 1]
        \/ state \notin Final /\ bridge.turn = Turns /\ Decide("TURN_LIMIT")
  /\ UNCHANGED <<brokerVars, installed, report, code>>

\* The broker process the bridge is waiting for.
Child == IF Is("asked") THEN 0 ELSE bridge.turn

AbandonOnly(r) ==  \* fault: the broker process is not killed
  /\ Abandon
  /\ UNCHANGED <<brokerVars, installed, report, code>>

\* Leaving _child kills the process group it has started.
AbandonChild(r) ==
  /\ Abandon
  /\ IF Running(r) THEN Kill(r) ELSE UNCHANGED brokerVars
  /\ UNCHANGED <<installed, report, code>>

CapsuleFails == Is("asked") /\ AbandonChild(Child)  \* fault: a submission is waited for without a deadline

\* 240 seconds have passed, the process was killed, or it writes too much.
BrokerFails == bridge.pc \in {"asked", "broker"} /\ AbandonChild(Child)

\* 120 seconds for the provider have passed.
ProviderDeadline ==
  /\ Is("provider")
  /\ Abandon
  /\ UNCHANGED <<brokerVars, installed, report, code>>

\* An invalid response, a body that is not canonical, the credential in what
\* would be shown, an answer with other bindings, a history too long, ...
RunFails ==
  /\ bridge.pc \in {"run", "capsuled", "provider", "answered", "dispatch", "returned", "decide"}
  /\ Abandon
  /\ UNCHANGED <<brokerVars, installed, report, code>>

-----------------------------------------------------------------------------
(* main, from _run to the end.                                             *)

\* Success needs the report to be written, flushed and cut off.
Rewrite ==
  /\ bridge.pc \in {"settled", "rewriting"}
  /\ \/ Advance("printing") /\ report' = bridge.state
     \/ Abort /\ report' \in Torn(report, bridge.state)
  /\ UNCHANGED <<brokerVars, installed, code>>

PrintReport ==
  /\ Is("printing")
  /\ bridge' = [bridge EXCEPT !.pc = "ended", !.printed = bridge.state]
  /\ UNCHANGED <<brokerVars, installed, report, code>>

KillBridge ==
  /\ bridge.pc \notin {"starting", "ended", "dead"}
  /\ Advance("dead")
  /\ report' \in CASE Is("heading") -> Torn(report, Unavailable)
                   [] bridge.pc \in {"settled", "rewriting"} -> Torn(report, bridge.state)
                   [] OTHER -> {report}
  /\ UNCHANGED <<brokerVars, installed, code>>

\* Somebody edits the installed code under the run; the old bytes do not
\* come back.  An edit at any other moment is like one right before the
\* installation is next read.
Edit ==
  /\ bridge.pc \in DOMAIN Checkpoints \cup {"capsule", "answered", "dispatch"}
  /\ installed < Edits
  /\ installed' = installed + 1
  /\ UNCHANGED <<brokerVars, bridgeVars>>

-----------------------------------------------------------------------------
Bridge ==
  \/ Configure \/ OpenReport \/ WriteFirst \/ Recheck \/ AskCapsule \/ CapsuleReturned
  \/ CheckAnswer \/ Dispatch \/ BrokerReturned \/ NextTurn \/ BrokerFails \/ ProviderDeadline
  \/ Rewrite \/ PrintReport

Prepare ==
  /\ PrepareWrites \/ PrepareStops
  /\ UNCHANGED <<installed, bridgeVars>>

Serve(r) == Proceed(r) /\ UNCHANGED <<installed, bridgeVars>>

Outside(r) ==
  /\ Receive(r) \/ IndexEnds(r) \/ Kill(r)
  /\ UNCHANGED <<installed, bridgeVars>>

Strange(r) ==
  /\ \E b \in Foreign : Begin(r, b)
  /\ UNCHANGED <<installed, bridgeVars>>

Next ==
  \/ Bridge \/ ProviderAnswers \/ RunFails \/ KillBridge \/ Edit \/ Prepare
  \/ \E r \in Requests : Serve(r) \/ Outside(r)
  \/ \E r \in Strangers : Strange(r)

\* The operating system runs the bridge and every broker process, and the
\* clock passes every deadline; the provider and the indexer may hang.
Spec ==
  /\ Init /\ [][Next]_vars
  /\ WF_vars(Bridge)
  /\ \A r \in Requests : WF_vars(Serve(r))

-----------------------------------------------------------------------------
(* Properties.                                                             *)

OwnRecords == {r \in Own : Holds(r, "draft.json")}

\* The report file is believed by whoever finds it, whatever has been killed
\* since: an admitted draft is on disk, complete; a run that ended without a
\* draft has left none, and no process that could still write one; and the
\* bridge never prints success over a file that does not say so.
ReportIsTrue ==
  /\ report = Admitted =>
       Holds(bridge.turn, "record") /\ proc[bridge.turn].body = bridge.call
  /\ report \in {"NO_DRAFT", "TURN_LIMIT"} =>
       OwnRecords = {} /\ \A r \in Own : ~Running(r)
  /\ bridge.printed = Admitted => report = Admitted

\* However often the model revises, and whatever is killed or answers late,
\* a run begins at most one draft record, and when it has printed its answer
\* no process of its own can begin another.
OneDraftAtMost ==
  /\ Cardinality(OwnRecords) <= 1
  /\ Is("ended") => \A r \in Own : ~Running(r)

\* Every broker process of a run that reports an admitted draft has run the
\* code that the report identifies, although the code may change between a
\* comparison and the start of the process that it is about.
IdentifiedCodeAdmits ==
  report = Admitted => code = {bridge.identity}

\* A run ends, whether or not the provider and the indexer ever do.
BridgeEnds == ~Is("starting") ~> bridge.pc \in {"ended", "dead"}
=============================================================================
