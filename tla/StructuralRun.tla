--------------------------- MODULE StructuralRun ---------------------------
(***************************************************************************)
(* One structural drafting run, composed of the processes that make it:    *)
(* the orchestrator; the broker's prepare; the container operator, which   *)
(* talks to the model provider, starts a broker request for every          *)
(* submission and serves the session; and the session in the container,    *)
(* which keeps a history of its own and is served frame by frame over one  *)
(* pipe in each direction.  Every exchange, every broker request and the   *)
(* whole worker have deadlines; whatever they cut off may go on running.   *)
(***************************************************************************)
EXTENDS DraftBroker

CONSTANTS Turns  \* provider requests of one session

\* A run makes at most one submission in each turn.
ASSUME TurnsAssumption == Turns \in Nat \ {0} /\ Requests = 1 .. Turns

VARIABLES
  run,        \* the orchestrator: its phase, its report's state, whether it has ended
  operator,   \* the container operator
  container,  \* the container and its session
  toSession,  \* the frame on the way to the session, or None
  toOperator  \* the frame on the way to the operator, or None

sessionVars == <<operator, container, toSession, toOperator>>
runVars == <<run, operator, container, toSession, toOperator>>
vars == <<brokerVars, runVars>>

\* What the model may ask for: nothing more, the capsule, or a submission.
NoCall == "none"
Calls == {NoCall, Public} \cup Bodies

Frame(kind, value) == [kind |-> kind, value |-> value]

\* An empty pipe is not a frame.
ASSUME PipeAssumption == None # Frame("continue", None)

FinalAdmittedOnly == {"STRUCTURALLY_ADMITTED_DRAFT"}  \* fault: a retry when the broker is unavailable

\* The results that end a session on both of its sides.
Final == {"STRUCTURALLY_ADMITTED_DRAFT", "DRAFT_UNAVAILABLE"}
Result(state, body) == [state |-> state, body |-> body]
NoResult == Result("UNAVAILABLE", None)

IdleOperator ==
  [pc |-> "idle", turn |-> 1, history |-> <<>>, call |-> NoCall, result |-> NoResult,
   confirmed |-> FALSE, mismatch |-> FALSE]

NoContainer == [state |-> "none", pc |-> "initial", turn |-> 1, history |-> <<>>, call |-> NoCall]

Init ==
  /\ BrokerInit
  /\ run = [phase |-> "INPUT", state |-> "UNAVAILABLE", ended |-> FALSE]
  /\ operator = IdleOperator
  /\ container = NoContainer
  /\ toSession = None
  /\ toOperator = None

-----------------------------------------------------------------------------
(* The orchestrator.                                                       *)

\* The report is written to result.json; without it, the run is unavailable.
End(phase, state) ==
  \/ run' = [phase |-> phase, state |-> state, ended |-> TRUE]
  \/ run' = [phase |-> "RECORD", state |-> "UNAVAILABLE", ended |-> TRUE]

\* Inputs, deployment and broker are what they should be, the run directory
\* is new, and prepare is started on a state directory of its own; or not.
Submit ==
  /\ run.phase = "INPUT" /\ ~run.ended
  /\ run' = [run EXCEPT !.phase = "PREPARE"] \/ End("INPUT", "UNAVAILABLE")
  /\ UNCHANGED <<brokerVars, sessionVars>>

Prepared ==
  /\ run.phase = "PREPARE" /\ ~run.ended
  /\ prepare = "done"
  /\ run' = [run EXCEPT !.phase = "WORKER"]
  /\ operator' = [operator EXCEPT !.pc = "public"]
  /\ UNCHANGED <<brokerVars, container, toSession, toOperator>>

\* Its process ended with an error, perhaps after the last file.
PrepareFailed ==
  /\ run.phase = "PREPARE" /\ ~run.ended
  /\ prepare # "running"
  /\ End("PREPARE", "UNAVAILABLE")
  /\ UNCHANGED <<brokerVars, sessionVars>>

\* 1800 seconds have passed: subprocess.run kills the command it started,
\* and nothing that the command has started.
CommandDeadline ==
  /\ run.phase \in {"PREPARE", "WORKER"} /\ ~run.ended
  /\ End(run.phase, "UNAVAILABLE")
  /\ IF run.phase = "PREPARE"
       THEN /\ prepare' = IF prepare = "running" THEN "stopped" ELSE prepare
            /\ UNCHANGED operator
       ELSE /\ operator' = [operator EXCEPT !.pc = "dead"]
            /\ UNCHANGED prepare
  /\ UNCHANGED <<files, proc, lock, draft, container, toSession, toOperator>>

\* Only a worker that reports an admitted draft and a confirmed cleanup is
\* believed.
WorkerEnded ==
  /\ run.phase = "WORKER" /\ ~run.ended
  /\ operator.pc = "ended"
  /\ IF operator.result.state = "STRUCTURALLY_ADMITTED_DRAFT" /\ operator.confirmed
       THEN run' = [run EXCEPT !.phase = "RETAIN"]
       ELSE End("WORKER", "UNAVAILABLE")
  /\ UNCHANGED <<brokerVars, sessionVars>>

\* collect: a record that cannot be parsed stops it; otherwise exactly one
\* complete record must be about the result.  Any error on the way stops it.
Matches == {r \in Requests : Holds(r, "record") /\ proc[r].body = operator.result.body}
Unparsable == {r \in Requests : Holds(r, "draft.json") /\ ~Holds(r, "record")}
Collectable == Unparsable = {} /\ Cardinality(Matches) = 1

Collect ==
  /\ run.phase = "RETAIN" /\ ~run.ended
  /\ \/ Collectable /\ End("DONE", "STRUCTURALLY_ADMITTED_DRAFT")
     \/ End("RETAIN", "UNAVAILABLE")
  /\ UNCHANGED <<brokerVars, sessionVars>>

-----------------------------------------------------------------------------
(* The container operator.                                                 *)

Is(pc) == operator.pc = pc
Advance(pc) == operator' = [operator EXCEPT !.pc = pc]

\* An exception leaves the session's loop; the container, if there can be
\* one, is cleaned up on the way out.
Abandon == operator' = [operator EXCEPT !.pc = "cleanup", !.result = NoResult]
Mismatch == operator' = [operator EXCEPT !.pc = "cleanup", !.result = NoResult, !.mismatch = TRUE]

Serving == {"start", "ready", "request", "provider", "answered", "broker", "returned", "closing"}
Awaiting == {"ready", "request", "provider", "answered", "returned", "closing"}

\* The broker's public answer, asked for before there is a container.
AskPublic ==
  /\ Is("public")
  /\ \/ "scaffold" \in files /\ Advance("create")
     \/ operator' = [operator EXCEPT !.pc = "ended"]
  /\ UNCHANGED <<brokerVars, run, container, toSession, toOperator>>

\* docker create and inspect; both may fail, the second one with a container.
CreateContainer ==
  /\ Is("create")
  /\ \/ Advance("start") /\ container' = [container EXCEPT !.state = "created"]
     \/ Abandon /\ (container' = [container EXCEPT !.state = "created"] \/ UNCHANGED container)
  /\ UNCHANGED <<brokerVars, run, toSession, toOperator>>

StartContainer ==
  /\ Is("start")
  /\ container' = [container EXCEPT !.state = "running"]
  /\ toSession' = Frame("initial", None)
  /\ Advance("ready")
  /\ UNCHANGED <<brokerVars, run, toOperator>>

AcceptReady ==
  /\ Is("ready") /\ toOperator # None
  /\ toOperator' = None
  /\ IF toOperator = Frame("ready", None)
       THEN Advance("request") /\ toSession' = Frame("continue", None)
       ELSE Mismatch /\ UNCHANGED toSession
  /\ UNCHANGED <<brokerVars, run, container>>

\* The session has to ask with exactly the history the operator keeps.
AcceptRequest ==
  /\ Is("request") /\ toOperator # None
  /\ toOperator' = None
  /\ IF toOperator = Frame("provider", operator.history) THEN Advance("provider") ELSE Mismatch
  /\ UNCHANGED <<brokerVars, run, container, toSession>>

ProviderAnswers ==
  /\ Is("provider")
  /\ \E c \in Calls :
       /\ operator' = [operator EXCEPT !.pc = "answered", !.call = c]
       /\ toSession' = Frame("response", c)
  /\ UNCHANGED <<brokerVars, run, container, toOperator>>

Close(state, body) ==
  operator' = [operator EXCEPT !.pc = "closing", !.result = Result(state, body)]

\* The session has to repeat the call it was sent, or to finish without one.
Dispatch ==
  /\ Is("answered") /\ toOperator # None
  /\ toOperator' = None
  /\ LET c == operator.call
     IN \/ /\ toOperator # (IF c = NoCall THEN Frame("finish", "NO_DRAFT") ELSE Frame("call", c))
           /\ Mismatch
           /\ UNCHANGED <<brokerVars, toSession>>
        \/ /\ c = NoCall /\ toOperator = Frame("finish", "NO_DRAFT")
           /\ Close("NO_DRAFT", None)
           /\ UNCHANGED <<brokerVars, toSession>>
        \/ /\ c = Public /\ toOperator = Frame("call", c)
           /\ operator' = [operator EXCEPT !.pc = "returned", !.result = Result("DRAFT_CAPSULE", None)]
           /\ toSession' = Frame("result", "DRAFT_CAPSULE")
           /\ UNCHANGED brokerVars
        \/ /\ c \in Bodies /\ toOperator = Frame("call", c)
           /\ Advance("broker")
           /\ Begin(operator.turn, c)
           /\ UNCHANGED toSession
  /\ UNCHANGED <<run, container>>

\* The broker's answer goes to the session as it is.
ReturnResult ==
  LET child == proc[operator.turn]
  IN /\ Is("broker")
     /\ child.pc = "done"
     /\ operator' = [operator EXCEPT !.pc = "returned", !.result = Result(child.result, child.body)]
     /\ toSession' = Frame("result", child.result)
     /\ UNCHANGED <<brokerVars, run, container, toOperator>>

\* 240 seconds have passed: the answer is refused even if it is there, and
\* the broker's process group is killed.
BrokerDeadline ==
  /\ Is("broker")
  /\ Abandon
  /\ IF Running(operator.turn) THEN Kill(operator.turn) ELSE UNCHANGED brokerVars
  /\ UNCHANGED <<run, container, toSession, toOperator>>

Extended(history, call, state) == Append(history, <<call, state>>)

\* A final result has to end the session.  Otherwise the histories grow, and
\* the frame that has come is the next request or, after the last turn, the
\* end of the session.
NextTurn ==
  /\ Is("returned") /\ toOperator # None
  /\ LET r == operator.result
     IN \/ /\ r.state \in Final
           /\ toOperator' = None
           /\ IF toOperator = Frame("finish", r.state) THEN Advance("closing") ELSE Mismatch
        \/ /\ r.state \notin Final /\ operator.turn < Turns
           /\ UNCHANGED toOperator
           /\ operator' = [operator EXCEPT
                !.pc = "request", !.turn = @ + 1,
                !.history = Extended(@, operator.call, r.state)]
        \/ /\ r.state \notin Final /\ operator.turn = Turns
           /\ toOperator' = None
           /\ IF toOperator = Frame("finish", "TURN_LIMIT") THEN Close("TURN_LIMIT", None) ELSE Mismatch
  /\ UNCHANGED <<brokerVars, run, container, toSession>>

\* The session's container has to have exited with zero.
CloseSession ==
  /\ Is("closing")
  /\ container.state = "exited" /\ container.pc = "finished"
  /\ Advance("cleanup")
  /\ UNCHANGED <<brokerVars, run, container, toSession, toOperator>>

FrameDeadline ==  \* fault: the provider's process has no deadline
  /\ operator.pc \in Awaiting \ {"provider"}
  /\ Abandon
  /\ UNCHANGED <<brokerVars, run, container, toSession, toOperator>>

\* 15 seconds for a frame, 120 for the provider, 5 for the session's end.
AwaitDeadline ==
  /\ operator.pc \in Awaiting
  /\ Abandon
  /\ UNCHANGED <<brokerVars, run, container, toSession, toOperator>>

\* A changed identity, an invalid response, the end of a pipe, ...: leaving a
\* broker request kills it.
OperatorFails ==
  /\ operator.pc \in Serving \ {"broker"}
  /\ Abandon
  /\ UNCHANGED <<brokerVars, run, container, toSession, toOperator>>

CleanUpSuppressed ==  \* fault: errors of docker are suppressed
  /\ Is("cleanup")
  /\ \/ container.state # "none" /\ container' = [container EXCEPT !.state = "removed"]
     \/ UNCHANGED container
  /\ operator' = [operator EXCEPT !.pc = "ended", !.confirmed = TRUE]
  /\ toSession' = None /\ toOperator' = None
  /\ UNCHANGED <<brokerVars, run>>

\* The attached client is killed and the container removed, whatever it does.
\* If any of it fails, that exception replaces the result.
CleanUp ==
  /\ Is("cleanup")
  /\ \/ /\ container.state # "none"
        /\ container' = [container EXCEPT !.state = "removed"]
        /\ operator' = [operator EXCEPT !.pc = "ended", !.confirmed = TRUE]
     \/ /\ container' = [container EXCEPT !.state = "removed"] \/ UNCHANGED container
        /\ operator' = [operator EXCEPT !.pc = "ended", !.result = NoResult]
  /\ toSession' = None /\ toOperator' = None
  /\ UNCHANGED <<brokerVars, run>>

-----------------------------------------------------------------------------
(* The session in the container.                                           *)

InSession(pc) == container.state = "running" /\ container.pc = pc

\* One frame is taken, one is sent.
Respond(frame) == toSession' = None /\ toOperator' = frame

SayReady ==
  /\ InSession("initial") /\ toSession = Frame("initial", None)
  /\ Respond(Frame("ready", None))
  /\ container' = [container EXCEPT !.pc = "ready"]
  /\ UNCHANGED <<brokerVars, run, operator>>

AskProvider ==
  /\ InSession("ready") /\ toSession = Frame("continue", None)
  /\ Respond(Frame("provider", container.history))
  /\ container' = [container EXCEPT !.pc = "response"]
  /\ UNCHANGED <<brokerVars, run, operator>>

RepeatCall ==
  /\ InSession("response") /\ toSession # None
  /\ LET c == toSession.value
     IN IF c = NoCall
          THEN /\ Respond(Frame("finish", "NO_DRAFT"))
               /\ container' = [container EXCEPT !.pc = "finished"]
          ELSE /\ Respond(Frame("call", c))
               /\ container' = [container EXCEPT !.pc = "result", !.call = c]
  /\ UNCHANGED <<brokerVars, run, operator>>

TakeResultForgetting ==  \* fault: a capsule that is read again is not remembered
  /\ InSession("result") /\ toSession # None
  /\ LET state == toSession.value
         longer == IF state = "DRAFT_CAPSULE" THEN container.history
                     ELSE Extended(container.history, container.call, state)
     IN IF state \in Final \/ container.turn = Turns
          THEN /\ Respond(Frame("finish", IF state \in Final THEN state ELSE "TURN_LIMIT"))
               /\ container' = [container EXCEPT !.pc = "finished"]
          ELSE /\ Respond(Frame("provider", longer))
               /\ container' = [container EXCEPT
                    !.pc = "response", !.turn = @ + 1, !.history = longer]
  /\ UNCHANGED <<brokerVars, run, operator>>

TakeResult ==
  /\ InSession("result") /\ toSession # None
  /\ LET state == toSession.value
         longer == Extended(container.history, container.call, state)
     IN IF state \in Final \/ container.turn = Turns
          THEN /\ Respond(Frame("finish", IF state \in Final THEN state ELSE "TURN_LIMIT"))
               /\ container' = [container EXCEPT !.pc = "finished"]
          ELSE /\ Respond(Frame("provider", longer))
               /\ container' = [container EXCEPT
                    !.pc = "response", !.turn = @ + 1, !.history = longer]
  /\ UNCHANGED <<brokerVars, run, operator>>

SessionExits ==
  /\ InSession("finished")
  /\ container' = [container EXCEPT !.state = "exited"]
  /\ UNCHANGED <<brokerVars, run, operator, toSession, toOperator>>

\* A guard that fails, the end of standard input, the memory limit, ...
SessionDies ==
  /\ container.state = "running" /\ container.pc # "finished"
  /\ container' = [container EXCEPT !.state = "exited", !.pc = "failed"]
  /\ UNCHANGED <<brokerVars, run, operator, toSession, toOperator>>

-----------------------------------------------------------------------------
Orchestrate == Submit \/ Prepared \/ PrepareFailed \/ WorkerEnded \/ Collect

Operate ==
  \/ AskPublic \/ CreateContainer \/ StartContainer \/ AcceptReady \/ AcceptRequest \/ Dispatch
  \/ ReturnResult \/ BrokerDeadline \/ NextTurn \/ CloseSession \/ AwaitDeadline \/ CleanUp

Session == SayReady \/ AskProvider \/ RepeatCall \/ TakeResult \/ SessionExits

Prepare ==
  /\ run.phase # "INPUT"
  /\ PrepareWrites \/ PrepareStops
  /\ UNCHANGED runVars

Request(r) ==
  /\ Proceed(r) \/ Receive(r) \/ IndexEnds(r) \/ Kill(r)
  /\ UNCHANGED runVars

Next ==
  \/ Orchestrate \/ CommandDeadline
  \/ Operate \/ ProviderAnswers \/ OperatorFails
  \/ Session \/ SessionDies
  \/ Prepare
  \/ \E r \in Requests : Request(r)

\* The orchestrator, its commands and their clocks run; the provider, the
\* session and the broker's own work owe nobody anything.
Spec ==
  /\ Init /\ [][Next]_vars
  /\ WF_vars(Orchestrate) /\ WF_vars(Prepare) /\ WF_vars(Operate)

-----------------------------------------------------------------------------
(* Properties.                                                             *)

\* The run's own state; the broker's is BrokerTypeOK.
RunTypeOK ==
  /\ run.phase \in {"INPUT", "PREPARE", "WORKER", "RETAIN", "DONE", "RECORD"}
  /\ run.state \in {"UNAVAILABLE", "STRUCTURALLY_ADMITTED_DRAFT"}
  /\ operator.pc \in Serving \cup {"idle", "public", "create", "cleanup", "ended", "dead"}
  /\ operator.turn \in 1 .. Turns /\ container.turn \in 1 .. Turns
  /\ operator.call \in Calls /\ container.call \in Calls
  /\ Len(operator.history) < Turns /\ Len(container.history) < Turns
  /\ container.state \in {"none", "created", "running", "exited", "removed"}

\* Two loops in two processes count the turns and keep the history, and
\* neither tells the other: whatever is called, rejected, delayed or killed,
\* the operator never sees a request that its own copy does not predict.
MirrorsAgree == ~operator.mismatch

\* Over a whole run, killed requests and late answers included, at most one
\* draft record is ever begun, so collecting is never ambiguous: the session
\* goes on only after answers that leave no record behind.
AtMostOneRecord == Cardinality({r \in Requests : Holds(r, "draft.json")}) <= 1

\* A run that ends with an admitted draft has it on disk, complete, admissible
\* and unique, and has left no container; and a worker that is believed is
\* never one whose draft cannot be collected.
DoneIsRetained ==
  run.phase \in {"RETAIN", "DONE"} =>
    /\ Collectable
    /\ \A r \in Matches : proc[r].body \in Admissible /\ ~Running(r)
    /\ container.state = "removed"

\* A run that was started ends, without the help of the provider, the session
\* or the broker, and before the orchestrator's own deadline has to act.
RunEnds == run.phase # "INPUT" ~> run.ended
=============================================================================
