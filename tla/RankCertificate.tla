--------------------------- MODULE RankCertificate ---------------------------
(***************************************************************************)
(* mkso model prove and mkso model check: the finite-state prover for "all *)
(* paths eventually" and the independent checker of its certificates.      *)
(*                                                                         *)
(* prove ranks states backwards from the targets, sweep by sweep over the  *)
(* sorted states and in place, until a sweep ranks nothing; if a source is *)
(* left without a rank it walks unranked states until it meets a dead end  *)
(* or closes a cycle.  A certificate may also come from anywhere else: the *)
(* checker reads a file.  Checking changes nothing, so it is the operator  *)
(* Accepts.  States are numbered in the order of their names.              *)
(***************************************************************************)
EXTENDS Integers, Sequences, FiniteSetsExt

CONSTANTS
  States,     \* every state name, as a number
  Models,     \* transition models with their one property of interest
  Received,   \* certificates that reach the checker from elsewhere
  Others,     \* models they may be about, if not about the model at hand
  None

\* What load_model lets through.
ASSUME ModelsAssumption ==
  /\ States \subseteq Int
  /\ \A m \in Models :
       /\ m.next \in [States -> SUBSET States]
       /\ m.sources \in SUBSET States /\ m.sources # {}
       /\ m.targets \in SUBSET States /\ m.targets # {}

\* A received certificate is well-formed JSON; its ranks and paths are free.
ASSUME ReceivedAssumption ==
  /\ Others \subseteq Models
  /\ \A r \in Received :
       /\ r.result \in {"proved", "disproved"}
       /\ r.result = "disproved" => r.evidence \in Seq(States)

ASSUME NoneAssumption == None \notin States

VARIABLES
  model,        \* the model file
  pc,
  ranks,        \* ranks assigned so far, a function on the ranked states
  todo,         \* states this sweep has yet to visit
  changed,      \* this sweep has ranked a state
  at,           \* where the counterexample walk stands
  path,         \* where it has been
  certificate

vars == <<model, pc, ranks, todo, changed, at, path, certificate>>

Successors(s) == model.next[s]
Ranked == DOMAIN ranks
First(s, S) == s \in S /\ \A t \in S : s <= t
Visited == {path[i] : i \in DOMAIN path}

\* The common part of every certificate and its two conclusions.  The model's
\* digest is the model.
Certificate(m, result, evidence) ==
  [model |-> m, sources |-> m.sources, targets |-> m.targets,
   result |-> result, evidence |-> evidence]

-----------------------------------------------------------------------------
(* prove.                                                                  *)

Init ==
  /\ model \in Models
  /\ pc = "idle"
  /\ ranks = <<>>
  /\ todo = {}
  /\ changed = FALSE
  /\ at = None
  /\ path = <<>>
  /\ certificate = None

Start ==
  /\ pc = "idle"
  /\ pc' = "sweep"
  /\ ranks' = [s \in model.targets |-> 0]
  /\ todo' = States
  /\ changed' = FALSE
  /\ UNCHANGED <<model, at, path, certificate>>

\* A state may be ranked once it has a successor and all of them are ranked.
Rankable(s) == s \notin Ranked /\ Successors(s) # {} /\ Successors(s) \subseteq Ranked

RankAnySuccessor(s) ==  \* fault: one ranked successor is enough
  LET ranked == Successors(s) \cap Ranked
  IN /\ pc = "sweep" /\ First(s, todo)
     /\ s \notin Ranked /\ ranked # {}
     /\ ranks' = [t \in Ranked \cup {s} |->
                    IF t = s THEN 1 + Max({ranks[u] : u \in ranked}) ELSE ranks[t]]
     /\ todo' = todo \ {s}
     /\ changed' = TRUE
     /\ UNCHANGED <<model, pc, at, path, certificate>>

RankFromLowest(s) ==  \* fault: one more than the lowest successor rank
  /\ pc = "sweep" /\ First(s, todo)
  /\ Rankable(s)
  /\ ranks' = [t \in Ranked \cup {s} |->
                 IF t = s THEN 1 + Min({ranks[u] : u \in Successors(s)}) ELSE ranks[t]]
  /\ todo' = todo \ {s}
  /\ changed' = TRUE
  /\ UNCHANGED <<model, pc, at, path, certificate>>

Rank(s) ==
  /\ pc = "sweep" /\ First(s, todo)
  /\ Rankable(s)
  /\ ranks' = [t \in Ranked \cup {s} |->
                 IF t = s THEN 1 + Max({ranks[u] : u \in Successors(s)}) ELSE ranks[t]]
  /\ todo' = todo \ {s}
  /\ changed' = TRUE
  /\ UNCHANGED <<model, pc, at, path, certificate>>

Skip(s) ==
  /\ pc = "sweep" /\ First(s, todo)
  /\ ~Rankable(s)
  /\ todo' = todo \ {s}
  /\ UNCHANGED <<model, pc, ranks, changed, at, path, certificate>>

NeverSweepAgain ==  \* fault: one sweep over the states has to do
  /\ pc = "sweep" /\ todo = {} /\ changed
  /\ changed' = FALSE
  /\ UNCHANGED <<model, pc, ranks, todo, at, path, certificate>>

SweepAgain ==
  /\ pc = "sweep" /\ todo = {} /\ changed
  /\ todo' = States
  /\ changed' = FALSE
  /\ UNCHANGED <<model, pc, ranks, at, path, certificate>>

Prove ==
  /\ pc = "sweep" /\ todo = {} /\ ~changed
  /\ model.sources \subseteq Ranked
  /\ pc' = "done"
  /\ certificate' = Certificate(model, "proved", ranks)
  /\ UNCHANGED <<model, ranks, todo, changed, at, path>>

\* _counterexample begins at the first source without a rank.
Refute(s) ==
  /\ pc = "sweep" /\ todo = {} /\ ~changed
  /\ First(s, model.sources \ Ranked)
  /\ pc' = "walk"
  /\ at' = s
  /\ UNCHANGED <<model, ranks, todo, changed, path, certificate>>

FollowForgetting(s) ==  \* fault: the state left behind is not remembered
  /\ pc = "walk" /\ at \notin Visited /\ at \notin model.targets
  /\ First(s, Successors(at) \ Ranked)
  /\ at' = s
  /\ UNCHANGED <<model, pc, ranks, todo, changed, path, certificate>>

Follow(s) ==
  /\ pc = "walk" /\ at \notin Visited /\ at \notin model.targets
  /\ First(s, Successors(at) \ Ranked)
  /\ path' = Append(path, at)
  /\ at' = s
  /\ UNCHANGED <<model, pc, ranks, todo, changed, certificate>>

\* The walk ends where it has been before or where nothing follows.
Disprove ==
  /\ pc = "walk"
  /\ at \in Visited \/ (at \notin model.targets /\ Successors(at) = {})
  /\ pc' = "done"
  /\ path' = Append(path, at)
  /\ certificate' = Certificate(model, "disproved", Append(path, at))
  /\ UNCHANGED <<model, ranks, todo, changed, at>>

\* Somebody else's certificate, or one made before the model was edited, lies
\* where `model check` will read it.
Receive ==
  /\ pc = "idle"
  /\ pc' = "received"
  /\ \E r \in Received, m \in Others \cup {model} :
       certificate' = Certificate(m, r.result, r.evidence)
  /\ UNCHANGED <<model, ranks, todo, changed, at, path>>

-----------------------------------------------------------------------------
(* check_certificate.                                                      *)

RanksDecreaseWeakly(r) ==  \* fault: a rank may stay the same along an edge
  /\ DOMAIN r \subseteq States /\ DOMAIN r # {}
  /\ model.sources \subseteq DOMAIN r
  /\ \A s \in DOMAIN r :
       /\ r[s] \in Nat
       /\ r[s] = 0 <=> s \in model.targets
       /\ r[s] # 0 => /\ Successors(s) # {}
                      /\ \A t \in Successors(s) : t \in DOMAIN r /\ r[t] <= r[s]

RanksDecrease(r) ==
  /\ DOMAIN r \subseteq States /\ DOMAIN r # {}
  /\ model.sources \subseteq DOMAIN r
  /\ \A s \in DOMAIN r :
       /\ r[s] \in Nat
       /\ r[s] = 0 <=> s \in model.targets
       /\ r[s] # 0 => /\ Successors(s) # {}
                      /\ \A t \in Successors(s) : t \in DOMAIN r /\ r[t] < r[s]

AvoidsTargets(p) ==
  /\ Len(p) > 0
  /\ p[1] \in model.sources
  /\ \A i \in DOMAIN p : p[i] \notin model.targets
  /\ \A i \in 1 .. Len(p) - 1 : p[i + 1] \in Successors(p[i])
  /\ \/ Successors(p[Len(p)]) = {}
     \/ \E i \in 1 .. Len(p) - 1 : p[i] = p[Len(p)]

Accepts(c) ==
  /\ c.model = model
  /\ c.sources = model.sources
  /\ c.targets = model.targets
  /\ \/ c.result = "proved" /\ RanksDecrease(c.evidence)
     \/ c.result = "disproved" /\ AvoidsTargets(c.evidence)

-----------------------------------------------------------------------------
Next ==
  \/ Start \/ SweepAgain \/ Prove \/ Disprove \/ Receive
  \/ \E s \in States : Rank(s) \/ Skip(s) \/ Refute(s) \/ Follow(s)

\* A command that runs alone and to its end: it always takes its next step.
Spec == Init /\ [][Next]_vars /\ WF_vars(Next)

-----------------------------------------------------------------------------
(* Properties.                                                             *)

\* The claim itself, without ranks or paths: a source can avoid the targets
\* for ever, or get stuck, exactly when it lies in a set of other states
\* each of which is a dead end or has a successor in the set.
Avoiding(Z) ==
  /\ Z \subseteq States \ model.targets
  /\ \A s \in Z : Successors(s) = {} \/ Successors(s) \cap Z # {}

Inevitable == \A Z \in SUBSET States : Avoiding(Z) => model.sources \cap Z = {}

\* The prover's data, before and while it works.
TypeOK ==
  /\ model \in Models
  /\ pc \in {"idle", "sweep", "walk", "done", "received"}
  /\ Ranked \subseteq States /\ \A s \in Ranked : ranks[s] \in Nat
  /\ todo \subseteq States
  /\ changed \in BOOLEAN
  /\ at \in States \cup {None}
  /\ path \in Seq(States)

\* prove decides the property: its verdict is the truth in both directions.
ProverDecides ==
  pc = "done" => (certificate.result = "proved" <=> Inevitable)

\* Every certificate prove writes is one check_certificate accepts.
ProducedIsAccepted == pc = "done" => Accepts(certificate)

\* A certificate that is accepted is true of the model, whoever wrote it.
AcceptedIsTrue ==
  certificate # None /\ Accepts(certificate) =>
    (certificate.result = "proved" <=> Inevitable)

\* The two "internal error" assertions of _counterexample cannot fail: the
\* walk reaches no target, and where it can go on it finds an unranked
\* successor.
NoInternalError ==
  pc = "walk" /\ at \notin Visited =>
    /\ at \notin model.targets
    /\ Successors(at) # {} => Successors(at) \ Ranked # {}

\* prove always ends with a certificate, unless one was received instead.
Terminates == <>(pc \in {"done", "received"})
=============================================================================
