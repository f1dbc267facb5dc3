------------------------ MODULE StructuralRunProofs ------------------------
(***************************************************************************)
(* Theorems of StructuralRun, for any number of turns, any bodies and any  *)
(* limit of the store.                                                     *)
(***************************************************************************)
EXTENDS StructuralRun, DraftBrokerProofs, SequenceTheorems

ADMITTED == "STRUCTURALLY_ADMITTED_DRAFT"
States == Answers \cup {None, "UNAVAILABLE", "NO_DRAFT", "TURN_LIMIT"}

OperatorPcs == Serving \cup {"idle", "public", "create", "cleanup", "ended", "dead"}
ContainerStates == {"none", "created", "running", "exited", "removed"}
ContainerPcs == {"initial", "ready", "response", "result", "finished", "failed"}

Histories == Seq(Calls \X States)

\* The three processes' records, and that each side's history has one entry
\* for every turn behind it.
RecordsOK ==
  /\ run \in [phase : {"INPUT", "PREPARE", "WORKER", "RETAIN", "DONE", "RECORD"},
              state : {"UNAVAILABLE", ADMITTED}, ended : BOOLEAN]
  /\ operator \in [pc : OperatorPcs, turn : 1 .. Turns, history : Histories, call : Calls,
                   result : [state : States, body : Bodies \cup {Public, None}],
                   confirmed : BOOLEAN, mismatch : BOOLEAN]
  /\ container \in [state : ContainerStates, pc : ContainerPcs, turn : 1 .. Turns,
                    history : Histories, call : Calls]
  /\ Len(operator.history) = operator.turn - 1
  /\ Len(container.history) = container.turn - 1

-----------------------------------------------------------------------------
(* The exchange: what is in the pipes at each line of the operator's loop. *)

InStep == container.turn = operator.turn /\ container.history = operator.history

\* The session is at pc with this frame before it, or has sent this one, or
\* has died before or after it did.
Facing(pc, frame) == container.pc = pc /\ toSession = frame /\ toOperator = None /\ InStep
Sent(pc, frame) == container.pc = pc /\ toSession = None /\ toOperator = frame
Failed(frame) == container.pc = "failed" /\ toOperator \in {None, frame}

\* The frames the operator predicts.
CallFrame == IF operator.call = NoCall THEN Frame("finish", "NO_DRAFT") ELSE Frame("call", operator.call)

Longer == Extended(operator.history, operator.call, operator.result.state)
Ends == operator.result.state \in Final \/ operator.turn = Turns
LastWord == IF operator.result.state \in Final THEN operator.result.state ELSE "TURN_LIMIT"
NextFrame == IF Ends THEN Frame("finish", LastWord) ELSE Frame("provider", Longer)

Exchange ==
  /\ operator.pc \in {"idle", "public", "create", "start"} => Facing("initial", None)
  /\ Is("ready") =>
       \/ Facing("initial", Frame("initial", None))
       \/ Sent("ready", Frame("ready", None)) /\ InStep
       \/ Failed(Frame("ready", None))
  /\ Is("request") =>
       \/ Facing("ready", Frame("continue", None))
       \/ Sent("response", Frame("provider", operator.history)) /\ InStep
       \/ Failed(Frame("provider", operator.history))
  /\ Is("provider") => Facing("response", None) \/ Failed(None)
  /\ Is("answered") =>
       \/ Facing("response", Frame("response", operator.call))
       \/ operator.call = NoCall /\ Sent("finished", CallFrame)
       \/ /\ operator.call # NoCall /\ container.call = operator.call
          /\ Sent("result", CallFrame) /\ InStep
       \/ Failed(CallFrame)
  /\ Is("broker") =>
       \/ Facing("result", None) /\ container.call = operator.call
       \/ Failed(None)
  /\ Is("returned") =>
       \/ Facing("result", Frame("result", operator.result.state)) /\ container.call = operator.call
       \/ Ends /\ Sent("finished", NextFrame)
       \/ /\ ~Ends /\ Sent("response", NextFrame)
          /\ container.turn = operator.turn + 1 /\ container.history = Longer
       \/ Failed(NextFrame)

\* What the session takes it can use, even from an operator that has given up.
PipesOK ==
  /\ container.pc = "response" => toSession \in {None} \cup {Frame("response", c) : c \in Calls}
  /\ container.pc = "result" => toSession \in {None} \cup {Frame("result", s) : s \in States}

\* A session runs in a started container only, and a confirmed cleanup has
\* removed the container for good.
ContainerOK ==
  /\ operator.pc \in {"idle", "public", "create"} => container.state = "none"
  /\ Is("start") => container.state = "created"
  /\ operator.confirmed => container.state = "removed" /\ operator.pc \in {"ended", "dead"}

-----------------------------------------------------------------------------
(* The broker's requests: one for each turn, one after another.            *)

\* The turn's request has not been made yet.
Uncalled == {"idle", "public", "create", "start", "ready", "request", "provider", "answered"}

RequestsOK ==
  \A r \in Requests :
    /\ r > operator.turn => proc[r].pc = "unused"
    /\ r < operator.turn => proc[r].pc \in {"unused", "done"} /\ ~Holds(r, "draft.json")
    /\ r = operator.turn /\ operator.pc \in Uncalled => proc[r].pc = "unused"
    /\ r = operator.turn /\ Is("returned") =>
         /\ proc[r].pc \in {"unused", "done"}
         /\ operator.result.state \notin Final => ~Holds(r, "draft.json")
    /\ r = operator.turn /\ operator.result.state = ADMITTED =>
         /\ proc[r].pc = "done" /\ proc[r].result = ADMITTED
         /\ proc[r].body = operator.result.body

\* The phases: nothing is served before the worker, and what is retained is
\* what a worker with a confirmed cleanup has reported.
PhaseOK ==
  /\ run.phase \in {"INPUT", "PREPARE"} => Is("idle")
  /\ run.phase \in {"RETAIN", "DONE"} =>
       Is("ended") /\ operator.confirmed /\ operator.result.state = ADMITTED

RunInv ==
  /\ BrokerInv
  /\ RecordsOK
  /\ Exchange
  /\ PipesOK
  /\ ContainerOK
  /\ RequestsOK
  /\ PhaseOK
  /\ MirrorsAgree

-----------------------------------------------------------------------------
(* The ways the operator and the session change.                           *)

OperatorType ==
  [pc : OperatorPcs, turn : 1 .. Turns, history : Histories, call : Calls,
   result : [state : States, body : Bodies \cup {Public, None}],
   confirmed : BOOLEAN, mismatch : BOOLEAN]

ContainerType ==
  [state : ContainerStates, pc : ContainerPcs, turn : 1 .. Turns, history : Histories, call : Calls]

LEMMA AdvanceFacts ==
  ASSUME RecordsOK, NEW pc \in OperatorPcs, Advance(pc)
  PROVE  /\ operator' \in OperatorType
         /\ operator'.pc = pc
         /\ operator'.turn = operator.turn /\ operator'.history = operator.history
         /\ operator'.call = operator.call /\ operator'.result = operator.result
         /\ operator'.confirmed = operator.confirmed /\ operator'.mismatch = operator.mismatch
  BY DEF RecordsOK, Advance, OperatorType

LEMMA NoResultFacts ==
  /\ NoResult \in [state : States, body : Bodies \cup {Public, None}]
  /\ NoResult.state = "UNAVAILABLE"
  BY DEF NoResult, Result, States

LEMMA AbandonFacts ==
  ASSUME RecordsOK, Abandon
  PROVE  /\ operator' \in OperatorType
         /\ operator'.pc = "cleanup" /\ operator'.result = NoResult
         /\ operator'.turn = operator.turn /\ operator'.history = operator.history
         /\ operator'.confirmed = operator.confirmed /\ operator'.mismatch = operator.mismatch
  BY NoResultFacts DEF RecordsOK, Abandon, OperatorType, OperatorPcs

\* The requests stay what they were to an operator that takes no new one on.
LEMMA NoRequestMoves ==
  ASSUME RequestsOK, UNCHANGED <<proc, draft>>, operator'.turn = operator.turn,
         operator'.pc \in Uncalled => operator.pc \in Uncalled,
         operator'.pc = "returned" => operator.pc = "returned",
         \/ operator'.result = operator.result
         \/ operator'.result.state \notin Final /\ operator'.pc # "returned"
  PROVE  RequestsOK'
<1>1. ADMITTED \in Final
  BY DEF Final, ADMITTED
<1> QED
  BY <1>1 DEF RequestsOK, Holds, Is

LEMMA BrokerRests ==
  ASSUME BrokerInv, UNCHANGED brokerVars
  PROVE  BrokerInv' /\ UNCHANGED <<files, prepare, proc, lock, draft>>
  BY BrokerStep DEF brokerVars

-----------------------------------------------------------------------------
(* The orchestrator.                                                       *)

LEMMA EndFacts ==
  ASSUME NEW phase \in {"INPUT", "PREPARE", "WORKER", "RETAIN", "DONE"},
         NEW state \in {"UNAVAILABLE", ADMITTED}, End(phase, state)
  PROVE  /\ run' \in [phase : {"INPUT", "PREPARE", "WORKER", "RETAIN", "DONE", "RECORD"},
                       state : {"UNAVAILABLE", ADMITTED}, ended : BOOLEAN]
         /\ run'.phase \in {phase, "RECORD"}
<1>1. CASE run' = [phase |-> phase, state |-> state, ended |-> TRUE]
  BY <1>1
<1>2. CASE run' = [phase |-> "RECORD", state |-> "UNAVAILABLE", ended |-> TRUE]
  BY <1>2
<1> QED
  BY <1>1, <1>2 DEF End

\* The run's own record changes, and nothing that is exchanged.
LEMMA RunMoves ==
  ASSUME RunInv, UNCHANGED <<brokerVars, sessionVars>>,
         run' \in [phase : {"INPUT", "PREPARE", "WORKER", "RETAIN", "DONE", "RECORD"},
                   state : {"UNAVAILABLE", ADMITTED}, ended : BOOLEAN],
         PhaseOK'
  PROVE  RunInv'
<1>1. BrokerInv' /\ UNCHANGED <<files, prepare, proc, lock, draft>>
  BY BrokerRests DEF RunInv
<1>2. UNCHANGED <<operator, container, toSession, toOperator>>
  BY DEF sessionVars
<1>3. RecordsOK' /\ MirrorsAgree' /\ PipesOK'
  BY <1>2 DEF RunInv, RecordsOK, MirrorsAgree, PipesOK
<1>4. Exchange'
  BY <1>2 DEF RunInv, Exchange, Facing, Sent, Failed, InStep, CallFrame, NextFrame, Longer, Ends, LastWord, Is
<1>5. ContainerOK' /\ RequestsOK'
  BY <1>1, <1>2 DEF RunInv, ContainerOK, RequestsOK, Is, Holds
<1> QED
  BY <1>1, <1>3, <1>4, <1>5 DEF RunInv

LEMMA SubmitStep == ASSUME RunInv, Submit PROVE RunInv'
<1>1. run.phase = "INPUT" /\ UNCHANGED <<brokerVars, sessionVars>> /\ UNCHANGED operator
  BY DEF Submit, sessionVars
<1>2. /\ run' \in [phase : {"INPUT", "PREPARE", "WORKER", "RETAIN", "DONE", "RECORD"},
                    state : {"UNAVAILABLE", ADMITTED}, ended : BOOLEAN]
      /\ run'.phase \in {"INPUT", "PREPARE", "RECORD"}
  BY EndFacts DEF Submit, RunInv, RecordsOK
<1>3. PhaseOK'
  BY <1>1, <1>2 DEF RunInv, PhaseOK, Is
<1> QED
  BY <1>1, <1>2, <1>3, RunMoves

LEMMA PrepareFailedStep == ASSUME RunInv, PrepareFailed PROVE RunInv'
<1>1. run.phase = "PREPARE" /\ UNCHANGED <<brokerVars, sessionVars>> /\ UNCHANGED operator
  BY DEF PrepareFailed, sessionVars
<1>2. /\ run' \in [phase : {"INPUT", "PREPARE", "WORKER", "RETAIN", "DONE", "RECORD"},
                    state : {"UNAVAILABLE", ADMITTED}, ended : BOOLEAN]
      /\ run'.phase \in {"PREPARE", "RECORD"}
  BY EndFacts DEF PrepareFailed
<1>3. PhaseOK'
  BY <1>1, <1>2 DEF RunInv, PhaseOK, Is
<1> QED
  BY <1>1, <1>2, <1>3, RunMoves

LEMMA WorkerEndedStep == ASSUME RunInv, WorkerEnded PROVE RunInv'
<1>1. /\ run.phase = "WORKER" /\ Is("ended")
      /\ UNCHANGED <<brokerVars, sessionVars>> /\ UNCHANGED operator
  BY DEF WorkerEnded, sessionVars, Is
<1>2. CASE operator.result.state = ADMITTED /\ operator.confirmed
  <2>1. run' = [run EXCEPT !.phase = "RETAIN"]
    BY <1>2 DEF WorkerEnded, ADMITTED
  <2>2. PhaseOK'
    BY <1>1, <1>2, <2>1 DEF RunInv, RecordsOK, PhaseOK, Is
  <2> QED
    BY <1>1, <2>1, <2>2, RunMoves DEF RunInv, RecordsOK
<1>3. CASE End("WORKER", "UNAVAILABLE")
  <2>1. /\ run' \in [phase : {"INPUT", "PREPARE", "WORKER", "RETAIN", "DONE", "RECORD"},
                      state : {"UNAVAILABLE", ADMITTED}, ended : BOOLEAN]
        /\ run'.phase \in {"WORKER", "RECORD"}
    BY <1>3, EndFacts
  <2>2. PhaseOK'
    BY <2>1 DEF PhaseOK
  <2> QED
    BY <1>1, <2>1, <2>2, RunMoves
<1> QED
  BY <1>2, <1>3 DEF WorkerEnded, ADMITTED

LEMMA CollectStep == ASSUME RunInv, Collect PROVE RunInv'
<1>1. run.phase = "RETAIN" /\ UNCHANGED <<brokerVars, sessionVars>> /\ UNCHANGED operator
  BY DEF Collect, sessionVars
<1>2. /\ run' \in [phase : {"INPUT", "PREPARE", "WORKER", "RETAIN", "DONE", "RECORD"},
                    state : {"UNAVAILABLE", ADMITTED}, ended : BOOLEAN]
      /\ run'.phase \in {"RETAIN", "DONE", "RECORD"}
  BY EndFacts DEF Collect, ADMITTED
<1>3. PhaseOK'
  BY <1>1, <1>2 DEF RunInv, PhaseOK, Is
<1> QED
  BY <1>1, <1>2, <1>3, RunMoves

\* The worker begins where the operator stood idle.
LEMMA PreparedStep == ASSUME RunInv, Prepared PROVE RunInv'
<1>1. /\ run.phase = "PREPARE" /\ Is("idle")
      /\ UNCHANGED <<brokerVars, container, toSession, toOperator>> /\ Advance("public")
  BY DEF Prepared, Advance, RunInv, PhaseOK
<1>2. BrokerInv' /\ UNCHANGED <<files, prepare, proc, lock, draft>>
  BY <1>1, BrokerRests DEF RunInv
<1>3. /\ operator' \in OperatorType
      /\ operator'.pc = "public"
      /\ operator'.turn = operator.turn /\ operator'.history = operator.history
      /\ operator'.call = operator.call /\ operator'.result = operator.result
      /\ operator'.confirmed = operator.confirmed /\ operator'.mismatch = operator.mismatch
  BY <1>1, AdvanceFacts DEF RunInv, OperatorPcs
<1>4. RecordsOK' /\ PhaseOK'
  BY <1>1, <1>3 DEF Prepared, RunInv, RecordsOK, PhaseOK, OperatorType
<1>5. Exchange'
  BY <1>1, <1>3 DEF RunInv, Exchange, Facing, InStep, Is
<1>6. RequestsOK'
  BY <1>1, <1>2, <1>3, NoRequestMoves DEF RunInv, Uncalled, Is
<1> QED
  BY <1>1, <1>2, <1>3, <1>4, <1>5, <1>6 DEF RunInv, PipesOK, ContainerOK, MirrorsAgree, Is

\* A command that is cut off leaves the store, the container and the pipes as
\* they are, and what its processes have started goes on.
LEMMA CommandDeadlineStep == ASSUME RunInv, CommandDeadline PROVE RunInv'
<1>1. /\ run.phase \in {"PREPARE", "WORKER"}
      /\ UNCHANGED <<files, proc, lock, draft, container, toSession, toOperator>>
  BY DEF CommandDeadline
<1>2. /\ run' \in [phase : {"INPUT", "PREPARE", "WORKER", "RETAIN", "DONE", "RECORD"},
                    state : {"UNAVAILABLE", ADMITTED}, ended : BOOLEAN]
      /\ run'.phase \in {run.phase, "RECORD"}
  BY <1>1, EndFacts DEF CommandDeadline
<1>3. CASE run.phase = "PREPARE"
  <2>1. UNCHANGED operator
    BY <1>3 DEF CommandDeadline
  <2>2. BrokerInv'
    <3>1. CASE prepare = "running"
      <4>1. PrepareStops
        BY <1>1, <1>3, <3>1 DEF CommandDeadline, PrepareStops
      <4> QED
        BY <4>1, PrepareSteps DEF RunInv
    <3>2. CASE prepare # "running"
      <4>1. UNCHANGED brokerVars
        BY <1>1, <1>3, <3>2 DEF CommandDeadline, brokerVars
      <4> QED
        BY <4>1, BrokerRests DEF RunInv
    <3> QED
      BY <3>1, <3>2
  <2>3. RecordsOK' /\ MirrorsAgree' /\ PipesOK' /\ PhaseOK'
    BY <1>1, <1>2, <1>3, <2>1 DEF RunInv, RecordsOK, MirrorsAgree, PipesOK, PhaseOK, Is
  <2>4. Exchange'
    BY <1>1, <2>1 DEF RunInv, Exchange, Facing, Sent, Failed, InStep, CallFrame, NextFrame, Longer, Ends,
       LastWord, Is
  <2>5. ContainerOK' /\ RequestsOK'
    BY <1>1, <2>1 DEF RunInv, ContainerOK, RequestsOK, Is, Holds
  <2> QED
    BY <2>2, <2>3, <2>4, <2>5 DEF RunInv
<1>4. CASE run.phase = "WORKER"
  <2>1. Advance("dead") /\ UNCHANGED prepare
    BY <1>4 DEF CommandDeadline, Advance
  <2>2. BrokerInv'
    BY <1>1, <2>1, BrokerRests DEF RunInv, brokerVars
  <2>3. /\ operator' \in OperatorType
        /\ operator'.pc = "dead"
        /\ operator'.turn = operator.turn /\ operator'.history = operator.history
        /\ operator'.call = operator.call /\ operator'.result = operator.result
        /\ operator'.confirmed = operator.confirmed /\ operator'.mismatch = operator.mismatch
    BY <2>1, AdvanceFacts DEF RunInv, OperatorPcs
  <2>4. RecordsOK' /\ MirrorsAgree' /\ PipesOK' /\ PhaseOK'
    BY <1>1, <1>2, <1>4, <2>3 DEF RunInv, RecordsOK, MirrorsAgree, PipesOK, PhaseOK, OperatorType
  <2>5. Exchange' /\ ContainerOK'
    BY <1>1, <2>3 DEF RunInv, Exchange, ContainerOK, Is
  <2>6. RequestsOK'
    BY <1>1, <2>3, NoRequestMoves DEF RunInv, Uncalled
  <2> QED
    BY <2>2, <2>4, <2>5, <2>6 DEF RunInv
<1> QED
  BY <1>1, <1>3, <1>4

-----------------------------------------------------------------------------
(* The broker.                                                             *)

LEMMA PrepareStep == ASSUME RunInv, Prepare PROVE RunInv'
<1>1. UNCHANGED <<proc, draft, run, operator, container, toSession, toOperator>>
  BY DEF Prepare, PrepareWrites, PrepareStops, runVars
<1>2. BrokerInv'
  BY PrepareSteps DEF Prepare, RunInv
<1>3. RecordsOK' /\ MirrorsAgree' /\ PipesOK' /\ PhaseOK'
  BY <1>1 DEF RunInv, RecordsOK, MirrorsAgree, PipesOK, PhaseOK, Is
<1>4. Exchange'
  BY <1>1 DEF RunInv, Exchange, Facing, Sent, Failed, InStep, CallFrame, NextFrame, Longer, Ends, LastWord, Is
<1>5. ContainerOK' /\ RequestsOK'
  BY <1>1 DEF RunInv, ContainerOK, RequestsOK, Is, Holds
<1> QED
  BY <1>2, <1>3, <1>4, <1>5 DEF RunInv

\* Only the request of the operator's turn can be running, and only after it
\* was called: killed or late, it is still that turn's.
LEMMA OnlyThisTurnRuns ==
  ASSUME RunInv, NEW r \in Requests, Running(r)
  PROVE  r = operator.turn /\ operator.pc \notin Uncalled \cup {"returned"} /\ proc[r].pc # "done"
<1>1. r \in 1 .. Turns /\ operator.turn \in 1 .. Turns
  BY TurnsAssumption DEF RunInv, RecordsOK
<1>2. r < operator.turn \/ r = operator.turn \/ r > operator.turn
  BY <1>1
<1> QED
  BY <1>2 DEF RunInv, RequestsOK, Running, Is

LEMMA RequestStep == ASSUME RunInv, NEW r \in Requests, Request(r) PROVE RunInv'
<1>1. /\ UNCHANGED <<run, operator, container, toSession, toOperator>>
      /\ Proceed(r) \/ Receive(r) \/ IndexEnds(r) \/ Kill(r)
  BY DEF Request, runVars
<1>2. /\ Running(r)
      /\ \A q \in Requests \ {r} : proc'[q] = proc[q] /\ draft'[q] = draft[q]
  BY <1>1, RequestFrame DEF RunInv, BrokerInv
<1>3. BrokerInv'
  <2>1. BrokerNext
    BY <1>1 DEF BrokerNext
  <2> QED
    BY <2>1, BrokerStep DEF RunInv
<1>4. RecordsOK' /\ MirrorsAgree' /\ PipesOK' /\ PhaseOK' /\ ContainerOK'
  BY <1>1 DEF RunInv, RecordsOK, MirrorsAgree, PipesOK, PhaseOK, ContainerOK, Is
<1>5. Exchange'
  BY <1>1 DEF RunInv, Exchange, Facing, Sent, Failed, InStep, CallFrame, NextFrame, Longer, Ends, LastWord, Is
<1>6. RequestsOK'
  <2>1. r = operator.turn /\ operator.pc \notin Uncalled \cup {"returned"} /\ proc[r].pc # "done"
    BY <1>2, OnlyThisTurnRuns
  <2>2. operator.result.state # ADMITTED
    BY <2>1 DEF RunInv, RequestsOK
  <2>3. r \in 1 .. Turns
    BY TurnsAssumption
  <2> QED
    BY <1>1, <1>2, <2>1, <2>2, <2>3 DEF RunInv, RequestsOK, Holds, Is
<1> QED
  BY <1>3, <1>4, <1>5, <1>6 DEF RunInv

-----------------------------------------------------------------------------
(* The container operator.                                                 *)

\* However it leaves its loop, the result it may have had is gone.
LEMMA GivesUp ==
  ASSUME RunInv, BrokerInv', Abandon, operator.pc \in Serving \cup {"create"},
         UNCHANGED <<run, toSession, toOperator>>,
         \/ UNCHANGED container
         \/ container' = [container EXCEPT !.state = "created"],
         \A q \in Requests \ {operator.turn} : proc'[q] = proc[q] /\ draft'[q] = draft[q]
  PROVE  RunInv'
<1>1. /\ operator' \in OperatorType
      /\ operator'.pc = "cleanup" /\ operator'.result = NoResult
      /\ operator'.turn = operator.turn /\ operator'.history = operator.history
      /\ operator'.confirmed = operator.confirmed /\ operator'.mismatch = operator.mismatch
  BY AbandonFacts DEF RunInv
<1>2. /\ container' \in ContainerType /\ container'.pc = container.pc
      /\ container'.turn = container.turn /\ container'.history = container.history
  BY DEF RunInv, RecordsOK, ContainerType, ContainerStates
<1>3. RecordsOK' /\ MirrorsAgree' /\ PipesOK'
  BY <1>1, <1>2 DEF RunInv, RecordsOK, MirrorsAgree, PipesOK, OperatorType, ContainerType
<1>4. PhaseOK' /\ ContainerOK'
  BY <1>1 DEF RunInv, PhaseOK, ContainerOK, Is, Serving
<1>5. Exchange'
  BY <1>1 DEF Exchange, Is
<1>6. RequestsOK'
  <2>1. NoResult.state # ADMITTED
    BY NoResultFacts DEF ADMITTED
  <2>2. operator.turn \in 1 .. Turns /\ \A r \in Requests : r \in 1 .. Turns
    BY TurnsAssumption DEF RunInv, RecordsOK
  <2> QED
    BY <1>1, <2>1, <2>2 DEF RunInv, RequestsOK, Holds, Is, Uncalled
<1> QED
  BY <1>3, <1>4, <1>5, <1>6 DEF RunInv

LEMMA GivingUpSteps ==
  ASSUME RunInv, BrokerDeadline \/ AwaitDeadline \/ OperatorFails PROVE RunInv'
<1>1. /\ Abandon /\ operator.pc \in Serving
      /\ UNCHANGED <<run, container, toSession, toOperator>>
  BY DEF BrokerDeadline, AwaitDeadline, OperatorFails, Awaiting, Serving, Is
<1>2. operator.turn \in Requests
  BY TurnsAssumption DEF RunInv, RecordsOK
<1>3. CASE UNCHANGED brokerVars
  BY <1>1, <1>3, BrokerRests, GivesUp DEF RunInv
<1>4. CASE Kill(operator.turn)
  <2>1. BrokerInv'
    BY <1>2, <1>4, EndSteps DEF RunInv
  <2>2. \A q \in Requests \ {operator.turn} : proc'[q] = proc[q] /\ draft'[q] = draft[q]
    BY <1>2, <1>4, RequestFrame DEF RunInv, BrokerInv
  <2> QED
    BY <1>1, <2>1, <2>2, GivesUp
<1> QED
  BY <1>3, <1>4 DEF BrokerDeadline, AwaitDeadline, OperatorFails

\* The operator's line, the pipes or the container change, and nothing that
\* concerns the broker's requests or the run.
LEMMA OperatorMoves ==
  ASSUME RunInv, UNCHANGED <<brokerVars, run>>,
         operator' \in OperatorType, container' \in ContainerType,
         Len(operator'.history) = operator'.turn - 1, Len(container'.history) = container'.turn - 1,
         operator'.mismatch = operator.mismatch,
         operator.pc \in Serving \cup {"public", "create", "cleanup"}, operator'.pc # "idle",
         Exchange', PipesOK', ContainerOK', RequestsOK'
  PROVE  RunInv'
<1>1. BrokerInv'
  BY BrokerRests DEF RunInv
<1>2. RecordsOK' /\ MirrorsAgree'
  BY DEF RunInv, RecordsOK, MirrorsAgree, OperatorType, ContainerType
<1>3. PhaseOK'
  BY DEF RunInv, PhaseOK, Is, Serving
<1> QED
  BY <1>1, <1>2, <1>3 DEF RunInv

LEMMA SessionTyped == RunInv => container \in ContainerType /\ Len(container.history) = container.turn - 1
  BY DEF RunInv, RecordsOK, ContainerType

LEMMA AskPublicStep == ASSUME RunInv, AskPublic PROVE RunInv'
<1>1. Is("public") /\ UNCHANGED <<brokerVars, run, container, toSession, toOperator>>
  BY DEF AskPublic
<1>2. PICK pc \in {"create", "ended"} : Advance(pc)
  BY DEF AskPublic, Advance
<1>3. /\ operator' \in OperatorType
      /\ operator'.pc = pc
      /\ operator'.turn = operator.turn /\ operator'.history = operator.history
      /\ operator'.call = operator.call /\ operator'.result = operator.result
      /\ operator'.confirmed = operator.confirmed /\ operator'.mismatch = operator.mismatch
  BY <1>2, AdvanceFacts DEF RunInv, OperatorPcs, Serving
<1>4. Exchange' /\ PipesOK' /\ ContainerOK'
  BY <1>1, <1>3 DEF RunInv, Exchange, PipesOK, ContainerOK, Facing, InStep, Is
<1>5. RequestsOK'
  BY <1>1, <1>3, BrokerRests, NoRequestMoves DEF RunInv, Uncalled, Is
<1>6. Len(operator'.history) = operator'.turn - 1
  BY <1>3 DEF RunInv, RecordsOK
<1> QED
  BY <1>1, <1>3, <1>4, <1>5, <1>6, SessionTyped, OperatorMoves DEF Is

LEMMA CreateContainerStep == ASSUME RunInv, CreateContainer PROVE RunInv'
<1>1. Is("create") /\ UNCHANGED <<brokerVars, run, toSession, toOperator>>
  BY DEF CreateContainer
<1>2. CASE Advance("start") /\ container' = [container EXCEPT !.state = "created"]
  <2>1. /\ operator' \in OperatorType
        /\ operator'.pc = "start"
        /\ operator'.turn = operator.turn /\ operator'.history = operator.history
        /\ operator'.call = operator.call /\ operator'.result = operator.result
        /\ operator'.confirmed = operator.confirmed /\ operator'.mismatch = operator.mismatch
    BY <1>2, AdvanceFacts DEF RunInv, OperatorPcs, Serving
  <2>2. /\ container' \in ContainerType /\ container'.state = "created" /\ container'.pc = container.pc
        /\ container'.turn = container.turn /\ container'.history = container.history
    BY <1>2 DEF RunInv, RecordsOK, ContainerType, ContainerStates
  <2>3. Exchange' /\ PipesOK' /\ ContainerOK'
    BY <1>1, <2>1, <2>2 DEF RunInv, Exchange, PipesOK, ContainerOK, Facing, InStep, Is
  <2>4. RequestsOK'
    BY <1>1, <2>1, BrokerRests, NoRequestMoves DEF RunInv, Uncalled, Is
  <2>5. Len(operator'.history) = operator'.turn - 1 /\ Len(container'.history) = container'.turn - 1
    BY <2>1, <2>2 DEF RunInv, RecordsOK
  <2> QED
    BY <1>1, <2>1, <2>2, <2>3, <2>4, <2>5, OperatorMoves DEF Is
<1>3. CASE Abandon /\ (container' = [container EXCEPT !.state = "created"] \/ UNCHANGED container)
  <2>1. BrokerInv' /\ UNCHANGED <<files, prepare, proc, lock, draft>>
    BY <1>1, BrokerRests DEF RunInv
  <2> QED
    BY <1>1, <1>3, <2>1, GivesUp DEF Is
<1> QED
  BY <1>2, <1>3 DEF CreateContainer

LEMMA StartContainerStep == ASSUME RunInv, StartContainer PROVE RunInv'
<1>1. /\ Is("start") /\ UNCHANGED <<brokerVars, run, toOperator>>
      /\ container' = [container EXCEPT !.state = "running"]
      /\ toSession' = Frame("initial", None)
  BY DEF StartContainer
<1>2. /\ operator' \in OperatorType
      /\ operator'.pc = "ready"
      /\ operator'.turn = operator.turn /\ operator'.history = operator.history
      /\ operator'.call = operator.call /\ operator'.result = operator.result
      /\ operator'.confirmed = operator.confirmed /\ operator'.mismatch = operator.mismatch
  BY AdvanceFacts DEF StartContainer, RunInv, OperatorPcs, Serving
<1>3. /\ container' \in ContainerType /\ container'.state = "running" /\ container'.pc = container.pc
      /\ container'.turn = container.turn /\ container'.history = container.history
  BY <1>1 DEF RunInv, RecordsOK, ContainerType, ContainerStates
<1>4. Exchange' /\ PipesOK' /\ ContainerOK'
  BY <1>1, <1>2, <1>3 DEF RunInv, Exchange, PipesOK, ContainerOK, Facing, InStep, Is
<1>5. RequestsOK'
  BY <1>1, <1>2, BrokerRests, NoRequestMoves DEF RunInv, Uncalled, Is
<1>6. Len(operator'.history) = operator'.turn - 1 /\ Len(container'.history) = container'.turn - 1
  BY <1>2, <1>3 DEF RunInv, RecordsOK
<1> QED
  BY <1>1, <1>2, <1>3, <1>4, <1>5, <1>6, OperatorMoves DEF Is, Serving

\* The session says that it is ready, or nothing any more.
LEMMA AcceptReadyStep == ASSUME RunInv, AcceptReady PROVE RunInv'
<1>1. /\ Is("ready") /\ toOperator # None
      /\ UNCHANGED <<brokerVars, run, container>>
      /\ toOperator' = None
  BY DEF AcceptReady
<1>2. /\ toOperator = Frame("ready", None)
      /\ (container.pc = "ready" /\ InStep) \/ container.pc = "failed"
  BY <1>1 DEF RunInv, Exchange, Facing, Sent, Failed
<1>3. Advance("request") /\ toSession' = Frame("continue", None)
  BY <1>2 DEF AcceptReady
<1>4. /\ operator' \in OperatorType
      /\ operator'.pc = "request"
      /\ operator'.turn = operator.turn /\ operator'.history = operator.history
      /\ operator'.call = operator.call /\ operator'.result = operator.result
      /\ operator'.confirmed = operator.confirmed /\ operator'.mismatch = operator.mismatch
  BY <1>3, AdvanceFacts DEF RunInv, OperatorPcs, Serving
<1>5. Exchange' /\ PipesOK' /\ ContainerOK'
  BY <1>1, <1>2, <1>3, <1>4 DEF RunInv, Exchange, PipesOK, ContainerOK, Facing, Failed, InStep, Is
<1>6. RequestsOK'
  BY <1>1, <1>4, BrokerRests, NoRequestMoves DEF RunInv, Uncalled, Is
<1>7. Len(operator'.history) = operator'.turn - 1
  BY <1>4 DEF RunInv, RecordsOK
<1> QED
  BY <1>1, <1>4, <1>5, <1>6, <1>7, SessionTyped, OperatorMoves DEF Is, Serving

\* The session asks with the operator's own history.
LEMMA AcceptRequestStep == ASSUME RunInv, AcceptRequest PROVE RunInv'
<1>1. /\ Is("request") /\ toOperator # None
      /\ UNCHANGED <<brokerVars, run, container, toSession>>
      /\ toOperator' = None
  BY DEF AcceptRequest
<1>2. /\ toOperator = Frame("provider", operator.history)
      /\ (container.pc = "response" /\ InStep /\ toSession = None) \/ container.pc = "failed"
  BY <1>1 DEF RunInv, Exchange, Facing, Sent, Failed
<1>3. Advance("provider")
  BY <1>2 DEF AcceptRequest
<1>4. /\ operator' \in OperatorType
      /\ operator'.pc = "provider"
      /\ operator'.turn = operator.turn /\ operator'.history = operator.history
      /\ operator'.call = operator.call /\ operator'.result = operator.result
      /\ operator'.confirmed = operator.confirmed /\ operator'.mismatch = operator.mismatch
  BY <1>3, AdvanceFacts DEF RunInv, OperatorPcs, Serving
<1>5. Exchange' /\ PipesOK' /\ ContainerOK'
  BY <1>1, <1>2, <1>4 DEF RunInv, Exchange, PipesOK, ContainerOK, Facing, Failed, InStep, Is
<1>6. RequestsOK'
  BY <1>1, <1>4, BrokerRests, NoRequestMoves DEF RunInv, Uncalled, Is
<1>7. Len(operator'.history) = operator'.turn - 1
  BY <1>4 DEF RunInv, RecordsOK
<1> QED
  BY <1>1, <1>4, <1>5, <1>6, <1>7, SessionTyped, OperatorMoves DEF Is, Serving

LEMMA ProviderAnswersStep == ASSUME RunInv, ProviderAnswers PROVE RunInv'
<1>1. Is("provider") /\ UNCHANGED <<brokerVars, run, container, toOperator>>
  BY DEF ProviderAnswers
<1>2. PICK c \in Calls :
        /\ operator' = [operator EXCEPT !.pc = "answered", !.call = c]
        /\ toSession' = Frame("response", c)
  BY DEF ProviderAnswers
<1>3. /\ operator' \in OperatorType
      /\ operator'.pc = "answered" /\ operator'.call = c
      /\ operator'.turn = operator.turn /\ operator'.history = operator.history
      /\ operator'.result = operator.result
      /\ operator'.confirmed = operator.confirmed /\ operator'.mismatch = operator.mismatch
  BY <1>2 DEF RunInv, RecordsOK, OperatorType, OperatorPcs, Serving
<1>4. Exchange' /\ PipesOK' /\ ContainerOK'
  BY <1>1, <1>2, <1>3 DEF RunInv, Exchange, PipesOK, ContainerOK, Facing, Failed, InStep, Is
<1>5. RequestsOK'
  BY <1>1, <1>3, BrokerRests, NoRequestMoves DEF RunInv, Uncalled, Is
<1>6. Len(operator'.history) = operator'.turn - 1
  BY <1>3 DEF RunInv, RecordsOK
<1> QED
  BY <1>1, <1>3, <1>4, <1>5, <1>6, SessionTyped, OperatorMoves DEF Is, Serving

\* What the session has sent is what it was asked to repeat.
LEMMA CallIsRepeated ==
  ASSUME RunInv, Is("answered"), toOperator # None
  PROVE  /\ toOperator = CallFrame
         /\ \/ container.pc = "failed"
            \/ operator.call = NoCall /\ container.pc = "finished"
            \/ /\ operator.call # NoCall /\ container.call = operator.call
               /\ container.pc = "result" /\ toSession = None /\ InStep
  BY DEF RunInv, Exchange, Facing, Sent, Failed

LEMMA DispatchStep == ASSUME RunInv, Dispatch PROVE RunInv'
<1> DEFINE c == operator.call
<1>1. /\ Is("answered") /\ toOperator # None /\ toOperator' = None
      /\ UNCHANGED <<run, container>>
  BY DEF Dispatch
<1>2. /\ toOperator = CallFrame
      /\ \/ container.pc = "failed"
         \/ c = NoCall /\ container.pc = "finished"
         \/ /\ c # NoCall /\ container.call = c
            /\ container.pc = "result" /\ toSession = None /\ InStep
  BY <1>1, CallIsRepeated
<1>3. \A x, y : Frame("finish", x) # Frame("call", y)
  BY DEF Frame
<1>4. CASE /\ c = NoCall
           /\ Close("NO_DRAFT", None)
           /\ UNCHANGED <<brokerVars, toSession>>
  <2>1. /\ operator' \in OperatorType
        /\ operator'.pc = "closing" /\ operator'.result = Result("NO_DRAFT", None)
        /\ operator'.turn = operator.turn /\ operator'.history = operator.history
        /\ operator'.confirmed = operator.confirmed /\ operator'.mismatch = operator.mismatch
    BY <1>4 DEF RunInv, RecordsOK, OperatorType, OperatorPcs, Serving, Close, Result, States
  <2>2. Exchange' /\ PipesOK' /\ ContainerOK'
    BY <1>1, <1>4, <2>1 DEF RunInv, Exchange, PipesOK, ContainerOK, Is
  <2>3. operator'.result.state \notin Final
    BY <2>1 DEF Result, Final
  <2>4. RequestsOK'
    BY <1>4, <2>1, <2>3, BrokerRests, NoRequestMoves DEF RunInv, Uncalled
  <2>5. Len(operator'.history) = operator'.turn - 1
    BY <2>1 DEF RunInv, RecordsOK
  <2> QED
    BY <1>1, <1>4, <2>1, <2>2, <2>4, <2>5, SessionTyped, OperatorMoves DEF Is, Serving
<1>5. CASE /\ c = Public /\ toOperator = Frame("call", c)
           /\ operator' = [operator EXCEPT !.pc = "returned", !.result = Result("DRAFT_CAPSULE", None)]
           /\ toSession' = Frame("result", "DRAFT_CAPSULE")
           /\ UNCHANGED brokerVars
  <2>1. /\ operator' \in OperatorType
        /\ operator'.pc = "returned" /\ operator'.result = Result("DRAFT_CAPSULE", None)
        /\ operator'.turn = operator.turn /\ operator'.history = operator.history
        /\ operator'.call = operator.call
        /\ operator'.confirmed = operator.confirmed /\ operator'.mismatch = operator.mismatch
    <3>1. Result("DRAFT_CAPSULE", None) \in [state : States, body : Bodies \cup {Public, None}]
      BY DEF Result, States, Answers
    <3> QED
      BY <1>5, <3>1 DEF RunInv, RecordsOK, OperatorType, OperatorPcs, Serving
  <2>2. operator'.result.state = "DRAFT_CAPSULE" /\ "DRAFT_CAPSULE" \notin Final
    BY <2>1 DEF Result, Final
  <2>3. c # NoCall
    BY <1>2, <1>3, <1>5 DEF CallFrame
  <2>4. Exchange' /\ ContainerOK'
    BY <1>1, <1>2, <1>5, <2>1, <2>2, <2>3 DEF RunInv, Exchange, ContainerOK, Facing, Failed, InStep, Is
  <2>5. PipesOK'
    BY <1>1, <1>2, <1>5, <2>3 DEF PipesOK, States, Answers
  <2>6. RequestsOK'
    <3>1. UNCHANGED <<proc, draft>>
      BY <1>5, BrokerRests DEF RunInv
    <3>2. \A r \in Requests : proc[r].pc = "unused" => ~Holds(r, "draft.json")
      BY ContentsAt DEF RunInv, BrokerInv, RequestOK, Holds, Stages
    <3>3. ADMITTED # "DRAFT_CAPSULE"
      BY DEF ADMITTED
    <3> QED
      BY <1>1, <2>1, <2>2, <3>1, <3>2, <3>3 DEF RunInv, RequestsOK, Holds, Is, Uncalled
  <2>7. Len(operator'.history) = operator'.turn - 1
    BY <2>1 DEF RunInv, RecordsOK
  <2> QED
    BY <1>1, <1>5, <2>1, <2>4, <2>5, <2>6, <2>7, SessionTyped, OperatorMoves DEF Is, Serving
<1>6. CASE /\ c \in Bodies /\ toOperator = Frame("call", c)
           /\ Advance("broker")
           /\ Begin(operator.turn, c)
           /\ UNCHANGED toSession
  <2>1. /\ operator' \in OperatorType
        /\ operator'.pc = "broker"
        /\ operator'.turn = operator.turn /\ operator'.history = operator.history
        /\ operator'.call = operator.call /\ operator'.result = operator.result
        /\ operator'.confirmed = operator.confirmed /\ operator'.mismatch = operator.mismatch
    BY <1>6, AdvanceFacts DEF RunInv, OperatorPcs, Serving
  <2>2. operator.turn \in Requests
    BY TurnsAssumption DEF RunInv, RecordsOK
  <2>3. /\ proc[operator.turn].pc = "unused"
        /\ \A q \in Requests \ {operator.turn} : proc'[q] = proc[q]
        /\ UNCHANGED draft
    BY <1>6, <2>2, BeginFrame DEF RunInv, BrokerInv
  <2>4. BrokerInv'
    BY <1>6, <2>2, BeginStep DEF RunInv
  <2>5. c # NoCall
    BY <1>2, <1>3, <1>6 DEF CallFrame
  <2>6. Exchange' /\ ContainerOK'
    BY <1>1, <1>2, <1>6, <2>1, <2>5 DEF RunInv, Exchange, ContainerOK, Facing, Failed, InStep, Is
  <2>7. PipesOK' /\ RecordsOK' /\ MirrorsAgree' /\ PhaseOK'
    BY <1>1, <1>6, <2>1 DEF RunInv, PipesOK, RecordsOK, MirrorsAgree, PhaseOK, OperatorType, Is
  <2>8. RequestsOK'
    <3>1. operator.result.state # ADMITTED
      BY <2>2, <2>3 DEF RunInv, RequestsOK
    <3>2. \A r \in Requests : r \in 1 .. Turns
      BY TurnsAssumption
    <3> QED
      BY <2>1, <2>2, <2>3, <3>1, <3>2 DEF RunInv, RequestsOK, RecordsOK, Holds, Is, Uncalled
  <2> QED
    BY <2>4, <2>6, <2>7, <2>8 DEF RunInv
<1> QED
  BY <1>2, <1>4, <1>5, <1>6 DEF Dispatch, CallFrame

\* The answer of the turn's own request, which has ended.
LEMMA ReturnResultStep == ASSUME RunInv, ReturnResult PROVE RunInv'
<1> DEFINE child == proc[operator.turn]
<1>1. /\ Is("broker") /\ child.pc = "done"
      /\ operator' = [operator EXCEPT !.pc = "returned", !.result = Result(child.result, child.body)]
      /\ toSession' = Frame("result", child.result)
      /\ UNCHANGED <<brokerVars, run, container, toOperator>>
  BY DEF ReturnResult
<1>2. operator.turn \in Requests
  BY TurnsAssumption DEF RunInv, RecordsOK
<1>3. /\ child.result \in Answers /\ child.body \in Bodies \cup {Public, None}
      /\ child.result \notin Final => ~Holds(operator.turn, "draft.json")
  BY <1>1, <1>2 DEF RunInv, BrokerInv, BrokerTypeOK, RequestOK, Answers, Failures, Final
<1>4. /\ operator' \in OperatorType
      /\ operator'.pc = "returned"
      /\ operator'.result.state = child.result /\ operator'.result.body = child.body
      /\ operator'.turn = operator.turn /\ operator'.history = operator.history
      /\ operator'.call = operator.call
      /\ operator'.confirmed = operator.confirmed /\ operator'.mismatch = operator.mismatch
  <2>1. Result(child.result, child.body) \in [state : States, body : Bodies \cup {Public, None}]
    BY <1>3 DEF Result, States
  <2>2. Result(child.result, child.body).state = child.result /\ Result(child.result, child.body).body = child.body
    BY DEF Result
  <2> QED
    BY <1>1, <2>1, <2>2 DEF RunInv, RecordsOK, OperatorType, OperatorPcs, Serving
<1>5. Exchange' /\ ContainerOK'
  BY <1>1, <1>4 DEF RunInv, Exchange, ContainerOK, Facing, Failed, InStep, Is
<1>6. PipesOK'
  BY <1>1, <1>3 DEF RunInv, Exchange, Facing, Failed, PipesOK, States
<1>7. RequestsOK'
  <2>1. UNCHANGED <<proc, draft>>
    BY <1>1, BrokerRests DEF RunInv
  <2> QED
    BY <1>1, <1>2, <1>3, <1>4, <2>1 DEF RunInv, RequestsOK, Holds, Is, Uncalled
<1>8. Len(operator'.history) = operator'.turn - 1
  BY <1>4 DEF RunInv, RecordsOK
<1> QED
  BY <1>1, <1>4, <1>5, <1>6, <1>7, <1>8, SessionTyped, OperatorMoves DEF Is, Serving

LEMMA ExtendedFacts ==
  ASSUME NEW h \in Histories, NEW c \in Calls, NEW state \in States
  PROVE  Extended(h, c, state) \in Histories /\ Len(Extended(h, c, state)) = Len(h) + 1
<1>1. <<c, state>> \in Calls \X States
  OBVIOUS
<1> QED
  BY <1>1 DEF Extended, Histories

\* After its answer the session has sent what the operator's copy predicts.
LEMMA AnswerIsTaken ==
  ASSUME RunInv, Is("returned"), toOperator # None
  PROVE  /\ toOperator = NextFrame
         /\ ~Ends => \/ container.pc = "failed"
                     \/ /\ container.pc = "response" /\ toSession = None
                        /\ container.turn = operator.turn + 1 /\ container.history = Longer
  BY DEF RunInv, Exchange, Facing, Sent, Failed

LEMMA NextTurnStep == ASSUME RunInv, NextTurn PROVE RunInv'
<1> DEFINE state == operator.result.state
<1>1. Is("returned") /\ toOperator # None /\ UNCHANGED <<brokerVars, run, container, toSession>>
  BY DEF NextTurn
<1>2. /\ toOperator = NextFrame
      /\ ~Ends => \/ container.pc = "failed"
                  \/ /\ container.pc = "response" /\ toSession = None
                     /\ container.turn = operator.turn + 1 /\ container.history = Longer
  BY <1>1, AnswerIsTaken
<1>3. BrokerInv' /\ UNCHANGED <<proc, draft>>
  BY <1>1, BrokerRests DEF RunInv
<1>4. CASE state \in Final /\ toOperator' = None /\ Advance("closing")
  <2>1. /\ operator' \in OperatorType
        /\ operator'.pc = "closing"
        /\ operator'.turn = operator.turn /\ operator'.history = operator.history
        /\ operator'.call = operator.call /\ operator'.result = operator.result
        /\ operator'.confirmed = operator.confirmed /\ operator'.mismatch = operator.mismatch
    BY <1>4, AdvanceFacts DEF RunInv, OperatorPcs, Serving
  <2>2. Exchange' /\ PipesOK' /\ ContainerOK'
    BY <1>1, <2>1 DEF RunInv, Exchange, PipesOK, ContainerOK, Is
  <2>3. RequestsOK'
    BY <1>3, <2>1, NoRequestMoves DEF RunInv, Uncalled
  <2>4. Len(operator'.history) = operator'.turn - 1
    BY <2>1 DEF RunInv, RecordsOK
  <2> QED
    BY <1>1, <2>1, <2>2, <2>3, <2>4, SessionTyped, OperatorMoves DEF Is, Serving
<1>5. CASE /\ state \notin Final /\ operator.turn < Turns
           /\ UNCHANGED toOperator
           /\ operator' = [operator EXCEPT !.pc = "request", !.turn = operator.turn + 1, !.history = Longer]
  <2>1. Longer \in Histories /\ Len(Longer) = Len(operator.history) + 1
    BY ExtendedFacts DEF RunInv, RecordsOK, Longer
  <2>2. /\ operator' \in OperatorType
        /\ operator'.pc = "request" /\ operator'.turn = operator.turn + 1 /\ operator'.history = Longer
        /\ operator'.result = operator.result
        /\ operator'.confirmed = operator.confirmed /\ operator'.mismatch = operator.mismatch
    <3>1. operator.turn + 1 \in 1 .. Turns
      BY <1>5, TurnsAssumption DEF RunInv, RecordsOK
    <3> QED
      BY <1>5, <2>1, <3>1 DEF RunInv, RecordsOK, OperatorType, OperatorPcs, Serving
  <2>3. ~Ends
    BY <1>5, TurnsAssumption DEF Ends, RunInv, RecordsOK
  <2>4. toOperator = Frame("provider", Longer)
    BY <1>2, <2>3 DEF NextFrame
  <2>5. Exchange' /\ ContainerOK' /\ PipesOK'
    BY <1>1, <1>2, <1>5, <2>2, <2>3, <2>4
       DEF RunInv, Exchange, ContainerOK, PipesOK, Sent, Failed, InStep, Is
  <2>6. RequestsOK'
    <3>1. state # ADMITTED
      BY <1>5 DEF Final, ADMITTED
    <3>2. ASSUME NEW r \in Requests PROVE r \in Int /\ operator.turn \in Int
      BY TurnsAssumption DEF RunInv, RecordsOK
    <3>3. \A r \in Requests : r < operator'.turn => r < operator.turn \/ r = operator.turn
      BY <2>2, <3>2
    <3>4. \A r \in Requests : r >= operator'.turn => r > operator.turn
      BY <2>2, <3>2
    <3>5. \A r \in Requests : r = operator'.turn => r >= operator'.turn
      BY <2>2, <3>2
    <3>6. \A r \in Requests : r > operator'.turn => r >= operator'.turn
      BY <2>2, <3>2
    <3> QED
      BY <1>1, <1>3, <1>5, <2>2, <3>1, <3>3, <3>4, <3>5, <3>6 DEF RunInv, RequestsOK, Holds, Is
  <2>7. Len(operator'.history) = operator'.turn - 1
    BY <2>1, <2>2 DEF RunInv, RecordsOK
  <2> QED
    BY <1>1, <2>2, <2>5, <2>6, <2>7, SessionTyped, OperatorMoves DEF Is, Serving
<1>6. CASE /\ state \notin Final /\ operator.turn = Turns
           /\ toOperator' = None /\ Close("TURN_LIMIT", None)
  <2>1. /\ operator' \in OperatorType
        /\ operator'.pc = "closing" /\ operator'.result.state = "TURN_LIMIT"
        /\ operator'.turn = operator.turn /\ operator'.history = operator.history
        /\ operator'.confirmed = operator.confirmed /\ operator'.mismatch = operator.mismatch
    BY <1>6 DEF RunInv, RecordsOK, OperatorType, OperatorPcs, Serving, Close, Result, States
  <2>2. Exchange' /\ PipesOK' /\ ContainerOK'
    BY <1>1, <2>1 DEF RunInv, Exchange, PipesOK, ContainerOK, Is
  <2>3. operator'.result.state \notin Final
    BY <2>1 DEF Final
  <2>4. RequestsOK'
    BY <1>3, <2>1, <2>3, NoRequestMoves DEF RunInv, Uncalled
  <2>5. Len(operator'.history) = operator'.turn - 1
    BY <2>1 DEF RunInv, RecordsOK
  <2> QED
    BY <1>1, <2>1, <2>2, <2>4, <2>5, SessionTyped, OperatorMoves DEF Is, Serving
<1>7. \/ state \in Final /\ toOperator' = None /\ Advance("closing")
      \/ /\ state \notin Final /\ operator.turn < Turns
         /\ UNCHANGED toOperator
         /\ operator' = [operator EXCEPT !.pc = "request", !.turn = operator.turn + 1, !.history = Longer]
      \/ /\ state \notin Final /\ operator.turn = Turns
         /\ toOperator' = None /\ Close("TURN_LIMIT", None)
  BY <1>2 DEF NextTurn, NextFrame, Ends, LastWord, Longer
<1> QED
  BY <1>4, <1>5, <1>6, <1>7

LEMMA CloseSessionStep == ASSUME RunInv, CloseSession PROVE RunInv'
<1>1. Is("closing") /\ UNCHANGED <<brokerVars, run, container, toSession, toOperator>>
  BY DEF CloseSession
<1>2. /\ operator' \in OperatorType
      /\ operator'.pc = "cleanup"
      /\ operator'.turn = operator.turn /\ operator'.history = operator.history
      /\ operator'.call = operator.call /\ operator'.result = operator.result
      /\ operator'.confirmed = operator.confirmed /\ operator'.mismatch = operator.mismatch
  BY AdvanceFacts DEF CloseSession, RunInv, OperatorPcs
<1>3. Exchange' /\ PipesOK' /\ ContainerOK'
  BY <1>1, <1>2 DEF RunInv, Exchange, PipesOK, ContainerOK, Is
<1>4. RequestsOK'
  BY <1>1, <1>2, BrokerRests, NoRequestMoves DEF RunInv, Uncalled
<1>5. Len(operator'.history) = operator'.turn - 1
  BY <1>2 DEF RunInv, RecordsOK
<1> QED
  BY <1>1, <1>2, <1>3, <1>4, <1>5, SessionTyped, OperatorMoves DEF Is, Serving

\* A result survives the cleanup only if the container is gone.
LEMMA CleanUpStep == ASSUME RunInv, CleanUp PROVE RunInv'
<1>1. /\ Is("cleanup") /\ UNCHANGED <<brokerVars, run>>
      /\ toSession' = None /\ toOperator' = None
  BY DEF CleanUp
<1>2. /\ container' \in ContainerType /\ container'.pc = container.pc
      /\ container'.turn = container.turn /\ container'.history = container.history
      /\ container' = [container EXCEPT !.state = "removed"] => container'.state = "removed"
  BY DEF CleanUp, RunInv, RecordsOK, ContainerType, ContainerStates
<1>3. /\ operator' \in OperatorType
      /\ operator'.pc = "ended"
      /\ operator'.turn = operator.turn /\ operator'.history = operator.history
      /\ operator'.call = operator.call /\ operator'.mismatch = operator.mismatch
      /\ operator'.result = operator.result \/ operator'.result = NoResult
      /\ operator'.confirmed => container'.state = "removed"
  <2>1. CASE /\ container' = [container EXCEPT !.state = "removed"]
             /\ operator' = [operator EXCEPT !.pc = "ended", !.confirmed = TRUE]
    BY <1>2, <2>1 DEF RunInv, RecordsOK, OperatorType, OperatorPcs
  <2>2. CASE operator' = [operator EXCEPT !.pc = "ended", !.result = NoResult]
    BY <1>1, <2>2, NoResultFacts DEF RunInv, RecordsOK, ContainerOK, OperatorType, OperatorPcs, Is
  <2> QED
    BY <2>1, <2>2 DEF CleanUp
<1>4. Exchange' /\ PipesOK' /\ ContainerOK'
  BY <1>1, <1>3 DEF Exchange, PipesOK, ContainerOK, Is
<1>5. NoResult.state \notin Final
  BY DEF NoResult, Result, Final
<1>6. RequestsOK'
  BY <1>1, <1>3, <1>5, BrokerRests, NoRequestMoves DEF RunInv, Uncalled
<1>7. Len(operator'.history) = operator'.turn - 1 /\ Len(container'.history) = container'.turn - 1
  BY <1>2, <1>3 DEF RunInv, RecordsOK
<1> QED
  BY <1>1, <1>2, <1>3, <1>4, <1>6, <1>7, OperatorMoves DEF Is

-----------------------------------------------------------------------------
(* The session.                                                            *)

\* Of what concerns the others the session changes only the two pipes.
LEMMA SessionMoves ==
  ASSUME RunInv, UNCHANGED <<brokerVars, run, operator>>,
         container.state = "running", container'.state \in {"running", "exited"},
         container' \in ContainerType, Len(container'.history) = container'.turn - 1,
         Exchange', PipesOK'
  PROVE  RunInv'
<1>1. BrokerInv' /\ UNCHANGED <<proc, draft>>
  BY BrokerRests DEF RunInv
<1>2. RecordsOK' /\ MirrorsAgree' /\ PhaseOK'
  BY DEF RunInv, RecordsOK, MirrorsAgree, PhaseOK, ContainerType, Is
<1>3. ContainerOK' /\ RequestsOK'
  BY <1>1 DEF RunInv, ContainerOK, RequestsOK, Holds, Is
<1> QED
  BY <1>1, <1>2, <1>3 DEF RunInv

LEMMA SayReadyStep == ASSUME RunInv, SayReady PROVE RunInv'
<1>1. /\ container.state = "running" /\ container.pc = "initial"
      /\ toSession' = None /\ toOperator' = Frame("ready", None)
      /\ container' = [container EXCEPT !.pc = "ready"]
      /\ UNCHANGED <<brokerVars, run, operator>>
  BY DEF SayReady, InSession, Respond
<1>2. /\ container' \in ContainerType /\ container'.pc = "ready" /\ container'.state = "running"
      /\ container'.turn = container.turn /\ container'.history = container.history
  BY <1>1 DEF RunInv, RecordsOK, ContainerType, ContainerPcs
<1>3. Exchange' /\ PipesOK'
  BY <1>1, <1>2 DEF RunInv, Exchange, ContainerOK, PipesOK, Facing, Sent, Failed, InStep, Is
<1>4. Len(container'.history) = container'.turn - 1
  BY <1>2 DEF RunInv, RecordsOK
<1> QED
  BY <1>1, <1>2, <1>3, <1>4, SessionMoves

LEMMA AskProviderStep == ASSUME RunInv, AskProvider PROVE RunInv'
<1>1. /\ container.state = "running" /\ container.pc = "ready" /\ toSession # None
      /\ toSession' = None /\ toOperator' = Frame("provider", container.history)
      /\ container' = [container EXCEPT !.pc = "response"]
      /\ UNCHANGED <<brokerVars, run, operator>>
  BY PipeAssumption DEF AskProvider, InSession, Respond
<1>2. /\ container' \in ContainerType /\ container'.pc = "response" /\ container'.state = "running"
      /\ container'.turn = container.turn /\ container'.history = container.history
  BY <1>1 DEF RunInv, RecordsOK, ContainerType, ContainerPcs
<1>3. Exchange' /\ PipesOK'
  BY <1>1, <1>2 DEF RunInv, Exchange, ContainerOK, PipesOK, Facing, Sent, Failed, InStep, Is
<1>4. Len(container'.history) = container'.turn - 1
  BY <1>2 DEF RunInv, RecordsOK
<1> QED
  BY <1>1, <1>2, <1>3, <1>4, SessionMoves

LEMMA RepeatCallStep == ASSUME RunInv, RepeatCall PROVE RunInv'
<1> DEFINE c == toSession.value
<1>1. /\ container.state = "running" /\ container.pc = "response" /\ toSession # None
      /\ UNCHANGED <<brokerVars, run, operator>>
  BY DEF RepeatCall, InSession
<1>2. c \in Calls
  BY <1>1 DEF RunInv, PipesOK, Frame
<1>3. /\ toSession' = None
      /\ \/ /\ c = NoCall
            /\ toOperator' = Frame("finish", "NO_DRAFT")
            /\ container' = [container EXCEPT !.pc = "finished"]
         \/ /\ c # NoCall
            /\ toOperator' = Frame("call", c)
            /\ container' = [container EXCEPT !.pc = "result", !.call = c]
  BY DEF RepeatCall, Respond
<1>4. /\ container' \in ContainerType
      /\ container'.state = "running"
      /\ container'.turn = container.turn /\ container'.history = container.history
      /\ c = NoCall => container'.pc = "finished"
      /\ c # NoCall => container'.pc = "result" /\ container'.call = c
  BY <1>1, <1>2, <1>3 DEF RunInv, RecordsOK, ContainerType, ContainerPcs
<1>5. PipesOK'
  BY <1>3, <1>4 DEF PipesOK
<1>6. Is("answered") => toSession = Frame("response", operator.call) /\ c = operator.call /\ InStep
  BY <1>1 DEF RunInv, Exchange, Facing, Sent, Failed, Frame
<1>7. operator.pc \notin Serving \ {"answered", "closing"}
  <2>1. operator.pc # "start"
    BY <1>1 DEF RunInv, ContainerOK, Is
  <2> QED
    BY <1>1, <2>1 DEF RunInv, Exchange, Facing, Sent, Failed, Is, Serving
<1>8. operator.pc \notin {"idle", "public", "create"}
  BY <1>1 DEF RunInv, ContainerOK
<1>9. Exchange'
  BY <1>1, <1>3, <1>4, <1>6, <1>7, <1>8 DEF Exchange, Sent, CallFrame, InStep, Is, Serving
<1>10. Len(container'.history) = container'.turn - 1
  BY <1>4 DEF RunInv, RecordsOK
<1> QED
  BY <1>1, <1>4, <1>5, <1>9, <1>10, SessionMoves

LEMMA TakeResultStep == ASSUME RunInv, TakeResult PROVE RunInv'
<1> DEFINE state == toSession.value
           longer == Extended(container.history, container.call, state)
           ends == state \in Final \/ container.turn = Turns
<1>1. /\ container.state = "running" /\ container.pc = "result" /\ toSession # None
      /\ UNCHANGED <<brokerVars, run, operator>>
  BY DEF TakeResult, InSession
<1>2. state \in States
  BY <1>1 DEF RunInv, PipesOK, Frame
<1>3. longer \in Histories /\ Len(longer) = Len(container.history) + 1
  BY <1>2, ExtendedFacts DEF RunInv, RecordsOK
<1>4. /\ toSession' = None
      /\ \/ /\ ends
            /\ toOperator' = Frame("finish", IF state \in Final THEN state ELSE "TURN_LIMIT")
            /\ container' = [container EXCEPT !.pc = "finished"]
         \/ /\ ~ends
            /\ toOperator' = Frame("provider", longer)
            /\ container' = [container EXCEPT
                 !.pc = "response", !.turn = container.turn + 1, !.history = longer]
  BY DEF TakeResult, Respond
<1>5. /\ container' \in ContainerType
      /\ container'.state = "running"
      /\ ends => container'.pc = "finished" /\ container'.turn = container.turn
                 /\ container'.history = container.history
      /\ ~ends => container'.pc = "response" /\ container'.turn = container.turn + 1
                  /\ container'.history = longer
  <2>1. ~ends => container.turn + 1 \in 1 .. Turns
    BY TurnsAssumption DEF RunInv, RecordsOK
  <2> HIDE DEF longer, ends
  <2> QED
    BY <1>1, <1>3, <1>4, <2>1 DEF RunInv, RecordsOK, ContainerType, ContainerPcs
<1>6. PipesOK'
  BY <1>4, <1>5 DEF PipesOK
<1>7. Is("returned") =>
        /\ state = operator.result.state /\ container.call = operator.call /\ InStep
  BY <1>1 DEF RunInv, Exchange, Facing, Sent, Failed, Frame
<1>8. operator.pc \notin Serving \ {"returned", "closing"}
  <2>1. operator.pc # "start"
    BY <1>1 DEF RunInv, ContainerOK, Is
  <2> QED
    BY <1>1, <2>1 DEF RunInv, Exchange, Facing, Sent, Failed, Is, Serving
<1>9. operator.pc \notin {"idle", "public", "create"}
  BY <1>1 DEF RunInv, ContainerOK
<1>10. Exchange'
  BY <1>1, <1>4, <1>5, <1>7, <1>8, <1>9
     DEF Exchange, Sent, NextFrame, LastWord, Longer, Ends, InStep, Is, Serving
<1>11. Len(container'.history) = container'.turn - 1
  BY <1>3, <1>5 DEF RunInv, RecordsOK
<1> QED
  BY <1>1, <1>5, <1>6, <1>10, <1>11, SessionMoves

\* Whatever has been sent stays in the pipe.
LEMMA SessionStopsStep == ASSUME RunInv, SessionExits \/ SessionDies PROVE RunInv'
<1>1. /\ container.state = "running"
      /\ UNCHANGED <<brokerVars, run, operator, toSession, toOperator>>
  BY DEF SessionExits, SessionDies, InSession
<1>2. /\ container' \in ContainerType
      /\ container'.state = "exited"
      /\ container'.turn = container.turn /\ container'.history = container.history
      /\ \/ container.pc = "finished" /\ container'.pc = "finished"
         \/ container'.pc = "failed" /\ container.pc # "finished"
  BY DEF SessionExits, SessionDies, InSession, RunInv, RecordsOK, ContainerType, ContainerPcs, ContainerStates
<1>3. PipesOK'
  BY <1>2 DEF PipesOK
<1>4. operator.pc \notin {"idle", "public", "create", "start"}
  BY <1>1 DEF RunInv, ContainerOK, Is
<1>5. CallFrame' = CallFrame /\ NextFrame' = NextFrame /\ (Ends' <=> Ends)
  BY <1>1 DEF CallFrame, NextFrame, LastWord, Longer, Ends
<1>6. Exchange'
  BY <1>1, <1>2, <1>4, <1>5 DEF RunInv, Exchange, Facing, Sent, Failed, InStep, Is
<1>7. Len(container'.history) = container'.turn - 1
  BY <1>2 DEF RunInv, RecordsOK
<1> QED
  BY <1>1, <1>2, <1>3, <1>6, <1>7, SessionMoves

-----------------------------------------------------------------------------
(* The whole run.                                                          *)

LEMMA RunStart == Init => RunInv
<1> SUFFICES ASSUME Init PROVE RunInv
  OBVIOUS
<1>1. BrokerInv /\ \A r \in Requests : proc[r].pc = "unused" /\ draft[r] = None
  BY BrokerStart DEF Init, BrokerInit, Unused
<1>2. 1 \in 1 .. Turns /\ <<>> \in Histories /\ Len(<<>>) = 0
  BY TurnsAssumption DEF Histories
<1>3. RecordsOK
  <2>1. operator \in OperatorType
    BY <1>2, NoResultFacts DEF Init, IdleOperator, OperatorType, OperatorPcs, Calls
  <2>2. container \in ContainerType
    BY <1>2 DEF Init, NoContainer, ContainerType, ContainerStates, ContainerPcs, Calls
  <2>3. Len(operator.history) = operator.turn - 1 /\ Len(container.history) = container.turn - 1
    BY <1>2 DEF Init, IdleOperator, NoContainer
  <2> QED
    BY <2>1, <2>2, <2>3 DEF Init, RecordsOK, OperatorType, ContainerType
<1>4. Exchange /\ PipesOK /\ ContainerOK /\ PhaseOK /\ MirrorsAgree
  BY DEF Init, IdleOperator, NoContainer, Exchange, PipesOK, ContainerOK, PhaseOK, MirrorsAgree,
     Facing, InStep, Is
<1>5. RequestsOK
  <2>1. operator.result.state = "UNAVAILABLE" /\ operator.pc = "idle"
    BY NoResultFacts DEF Init, IdleOperator
  <2> QED
    BY <1>1, <2>1 DEF RequestsOK, Holds, Is, ADMITTED
<1> QED
  BY <1>1, <1>3, <1>4, <1>5 DEF RunInv

LEMMA RunStep == RunInv /\ [Next]_vars => RunInv'
<1> SUFFICES ASSUME RunInv, [Next]_vars PROVE RunInv'
  OBVIOUS
<1>1. CASE Orchestrate \/ CommandDeadline
  BY <1>1, SubmitStep, PreparedStep, PrepareFailedStep, WorkerEndedStep, CollectStep, CommandDeadlineStep
     DEF Orchestrate
<1>2. CASE Operate \/ ProviderAnswers \/ OperatorFails
  BY <1>2, AskPublicStep, CreateContainerStep, StartContainerStep, AcceptReadyStep, AcceptRequestStep,
     DispatchStep, ReturnResultStep, NextTurnStep, CloseSessionStep, CleanUpStep, ProviderAnswersStep,
     GivingUpSteps DEF Operate
<1>3. CASE Session \/ SessionDies
  BY <1>3, SayReadyStep, AskProviderStep, RepeatCallStep, TakeResultStep, SessionStopsStep DEF Session
<1>4. CASE Prepare \/ \E r \in Requests : Request(r)
  BY <1>4, PrepareStep, RequestStep
<1>5. CASE UNCHANGED vars
  <2>1. UNCHANGED <<brokerVars, sessionVars>> /\ UNCHANGED run /\ UNCHANGED operator
    BY <1>5 DEF vars, runVars, sessionVars
  <2>2. PhaseOK'
    BY <2>1 DEF RunInv, PhaseOK, Is
  <2> QED
    BY <2>1, <2>2, RunMoves DEF RunInv, RecordsOK
<1> QED
  BY <1>1, <1>2, <1>3, <1>4, <1>5 DEF Next

\* The inductive invariant of a run: the frame in each pipe, the copies of the
\* history and the broker's requests at each line of the operator's loop.
THEOREM RunInvariant == Spec => []RunInv
<1> QED
  BY RunStart, RunStep, PTL DEF Spec

\* The run's own state is always well formed, histories and turns included.
THEOREM RunIsTyped == Spec => []RunTypeOK
<1>1. RunInv => RunTypeOK
  BY TurnsAssumption DEF RunInv, RecordsOK, RunTypeOK, OperatorPcs, ContainerStates, ADMITTED
<1> QED
  BY <1>1, RunInvariant, PTL

\* For any number of turns, whatever is called, rejected, killed or late: the
\* session never sends what the operator's own history does not predict.
THEOREM MirrorsAlwaysAgree == Spec => []MirrorsAgree
<1>1. RunInv => MirrorsAgree
  BY DEF RunInv
<1> QED
  BY <1>1, RunInvariant, PTL

\* Only the last request made can have left anything like a record.
LEMMA RecordsAreOfThisTurn ==
  ASSUME RunInv, NEW r \in Requests, Holds(r, "draft.json")
  PROVE  r = operator.turn
<1>1. r \in 1 .. Turns /\ operator.turn \in 1 .. Turns
  BY TurnsAssumption DEF RunInv, RecordsOK
<1>2. proc[r].pc # "unused"
  BY ContentsAt DEF RunInv, BrokerInv, RequestOK, Holds, Stages
<1> QED
  BY <1>1, <1>2 DEF RunInv, RequestsOK

\* Over a whole run of any length at most one record is ever begun.
THEOREM AtMostOneRecordEver == Spec => []AtMostOneRecord
<1>1. RunInv => AtMostOneRecord
  <2> SUFFICES ASSUME RunInv PROVE AtMostOneRecord
    OBVIOUS
  <2>1. {r \in Requests : Holds(r, "draft.json")} \subseteq {operator.turn}
    BY RecordsAreOfThisTurn
  <2>2. IsFiniteSet({operator.turn}) /\ Cardinality({operator.turn}) = 1
    BY FS_Singleton
  <2> QED
    BY <2>1, <2>2, FS_Subset DEF AtMostOneRecord
<1> QED
  BY <1>1, RunInvariant, PTL

\* A worker that is believed has left exactly the draft it reports: whole,
\* admissible, made by a request that has ended, and no container.
LEMMA BelievedIsCollectable ==
  ASSUME RunInv, run.phase \in {"RETAIN", "DONE"}
  PROVE  /\ Collectable
         /\ \A r \in Matches : proc[r].body \in Admissible /\ ~Running(r)
         /\ container.state = "removed"
<1> DEFINE t == operator.turn
<1>1. t \in Requests
  BY TurnsAssumption DEF RunInv, RecordsOK
<1>2. operator.result.state = ADMITTED /\ container.state = "removed"
  BY DEF RunInv, PhaseOK, ContainerOK
<1>3. proc[t].pc = "done" /\ proc[t].result = ADMITTED /\ proc[t].body = operator.result.body
  BY <1>1, <1>2 DEF RunInv, RequestsOK
<1>4. Holds(t, "record") /\ draft[t] = Complete /\ proc[t].body \in Admissible
  BY <1>1, <1>3 DEF RunInv, BrokerInv, RequestOK, ADMITTED
<1>5. \A r \in Requests : Holds(r, "record") => Holds(r, "draft.json")
  BY DEF RunInv, BrokerInv, RequestOK, Holds, Complete
<1>6. \A r \in Requests : Holds(r, "draft.json") => r = t
  BY RecordsAreOfThisTurn
<1>7. Matches = {t}
  BY <1>1, <1>3, <1>4, <1>5, <1>6 DEF Matches
<1>8. Unparsable = {}
  BY <1>4, <1>6 DEF Unparsable
<1>9. Cardinality(Matches) = 1
  BY <1>7, FS_Singleton
<1> QED
  BY <1>2, <1>3, <1>4, <1>7, <1>8, <1>9 DEF Collectable, Running

\* A run that reports an admitted draft has retained it.
THEOREM DoneIsAlwaysRetained == Spec => []DoneIsRetained
<1>1. RunInv => DoneIsRetained
  BY BelievedIsCollectable DEF DoneIsRetained
<1> QED
  BY <1>1, RunInvariant, PTL

-----------------------------------------------------------------------------
(* The run as a user of the broker.                                        *)

LEMMA StepIsTheBrokers == RunInv /\ [Next]_vars => [BrokerNext]_brokerVars
<1> SUFFICES ASSUME RunInv, [Next]_vars PROVE [BrokerNext]_brokerVars
  OBVIOUS
<1>1. operator.turn \in Requests
  BY TurnsAssumption DEF RunInv, RecordsOK
<1>2. CASE Orchestrate
  BY <1>2 DEF Orchestrate, Submit, Prepared, PrepareFailed, WorkerEnded, Collect
<1>3. CASE CommandDeadline
  <2>1. UNCHANGED <<files, proc, lock, draft>>
    BY <1>3 DEF CommandDeadline
  <2>2. UNCHANGED prepare \/ (prepare = "running" /\ prepare' = "stopped")
    BY <1>3 DEF CommandDeadline
  <2> QED
    BY <2>1, <2>2 DEF BrokerNext, PrepareStops, brokerVars
<1>4. CASE Dispatch
  <2>1. operator.call \in Bodies => operator.call \in Bodies \cup {Public}
    OBVIOUS
  <2> QED
    BY <1>1, <1>4, <2>1 DEF Dispatch, BrokerNext
<1>5. CASE BrokerDeadline
  BY <1>1, <1>5 DEF BrokerDeadline, BrokerNext
<1>6. CASE \/ AskPublic \/ CreateContainer \/ StartContainer \/ AcceptReady \/ AcceptRequest
           \/ ReturnResult \/ NextTurn \/ CloseSession \/ AwaitDeadline \/ CleanUp
           \/ ProviderAnswers \/ OperatorFails
  BY <1>6 DEF AskPublic, CreateContainer, StartContainer, AcceptReady, AcceptRequest, ReturnResult,
     NextTurn, CloseSession, AwaitDeadline, CleanUp, ProviderAnswers, OperatorFails
<1>7. CASE Session \/ SessionDies
  BY <1>7 DEF Session, SayReady, AskProvider, RepeatCall, TakeResult, SessionExits, SessionDies
<1>8. CASE Prepare \/ \E r \in Requests : Request(r)
  BY <1>8 DEF Prepare, Request, BrokerNext
<1>9. CASE UNCHANGED vars
  BY <1>9 DEF vars
<1> QED
  BY <1>2, <1>3, <1>4, <1>5, <1>6, <1>7, <1>8, <1>9 DEF Next, Operate

\* A run, killed or cut off as it may be, does to the broker's store and its
\* processes nothing that the broker's own specification does not allow.
THEOREM RunImplementsBroker == Spec => BrokerInit /\ [][BrokerNext]_brokerVars
<1>1. Init => BrokerInit
  BY DEF Init
<1> QED
  BY <1>1, RunInvariant, StepIsTheBrokers, PTL DEF Spec
=============================================================================
