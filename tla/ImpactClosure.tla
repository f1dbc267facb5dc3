---------------------------- MODULE ImpactClosure ----------------------------
(***************************************************************************)
(* compute_scip_impact: from the difference of two SCIP admissions to the  *)
(* subjects, obligations and work items it affects.  The contract becomes  *)
(* a graph or is refused, the difference becomes seed subjects or is       *)
(* refused, and _close_impact repeats four loops over the graph until a    *)
(* pass changes nothing.  Loop iterations that change nothing are no steps.*)
(* Names are numbered in the order the contract lists them.                *)
(***************************************************************************)
EXTENDS Integers, FiniteSets

CONSTANTS
  Subjects, Obligations, WorkItems,  \* of the contract, numbered
  Contracts,  \* contract documents
  Deltas,     \* differences between two admissions
  None

ASSUME ContractsAssumption ==
  /\ Subjects \cup Obligations \cup WorkItems \subseteq Int
  /\ IsFiniteSet(Subjects) /\ IsFiniteSet(Obligations) /\ IsFiniteSet(WorkItems)
  /\ None \notin WorkItems
  /\ \A c \in Contracts :
       /\ c.edges \subseteq Subjects \X Subjects  \* <<dependent, target>>
       /\ c.bound \in [Obligations -> SUBSET Subjects]
       /\ c.work \in [Obligations -> WorkItems]
       /\ c.composition \subseteq Obligations
       /\ c.parent \in [WorkItems -> WorkItems \cup {None}]
       /\ c.depends \in [WorkItems -> SUBSET WorkItems]
       /\ DOMAIN c.places = Subjects  \* each subject's document and symbol

\* A difference names the subjects, the documents and symbols that differ;
\* amended: contract, relationships, policy or tool; opaque: index bytes only;
\* current: the later admission is the active one, fresh, and both are of the
\* contract revision on disk; agrees: the bindings, relationships and policy
\* of both are the contract's.
ASSUME DeltasAssumption ==
  \A d \in Deltas :
    d.subjects \subseteq Subjects
      /\ \A b \in {d.amended, d.opaque, d.current, d.agrees} : b \in BOOLEAN

VARIABLES
  contract, delta,  \* the inputs
  phase,            \* the loop of _close_impact that runs
  todo,             \* what that loop has yet to look at
  changed,          \* the current pass has changed something
  subjects, obligations, works  \* the affected ones so far

vars == <<contract, delta, phase, todo, changed, subjects, obligations, works>>
input == <<contract, delta>>

-----------------------------------------------------------------------------
(* compute_scip_impact, _contract_graph and _seed_subjects.                *)

Current == delta.current

\* No set of nodes that all lead back into the set.
Acyclic(targets) ==
  \A N \in SUBSET WorkItems : N # {} => \E n \in N : targets[n] \cap N = {}

Admissible ==
  /\ delta.agrees
  /\ Acyclic([w \in WorkItems |-> {contract.parent[w]} \ {None}])
  /\ Acyclic(contract.depends)
  /\ \A o \in Obligations : contract.bound[o] # {}
  /\ UNION {contract.bound[o] : o \in Obligations} = Subjects

Seeds ==
  delta.subjects \cup {s \in Subjects : contract.places[s] \cap delta.places # {}}

\* The difference stays within the contract: nothing that takes a signed
\* amendment, no document or symbol without a subject, no unseeded change.
Mapped ==
  /\ ~delta.amended
  /\ \A p \in delta.places : \E s \in Subjects : p \in contract.places[s]
  /\ delta.opaque => Seeds # {}

Init ==
  /\ contract \in Contracts
  /\ delta \in Deltas
  /\ phase = "load"
  /\ todo = {}
  /\ changed = FALSE
  /\ subjects = {} /\ obligations = {} /\ works = {}

Reject ==
  /\ phase = "load"
  /\ ~(Current /\ Admissible /\ Mapped)
  /\ phase' = "rejected"
  /\ UNCHANGED <<input, todo, changed, subjects, obligations, works>>

Seed ==
  /\ phase = "load"
  /\ Current /\ Admissible /\ Mapped
  /\ subjects' = Seeds
  /\ phase' = "edges"
  /\ todo' = contract.edges
  /\ UNCHANGED <<input, changed, obligations, works>>

-----------------------------------------------------------------------------
(* _close_impact.                                                          *)

\* The next iteration of the loop that has something to do.
IsNext(x, Applies(_), Before(_, _)) ==
  x \in todo /\ Applies(x) /\ \A y \in todo : Applies(y) /\ y # x => Before(x, y)

Later(x, Before(_, _)) == {y \in todo : Before(x, y)}

EdgeBefore(e, f) == e[1] < f[1] \/ (e[1] = f[1] /\ e[2] < f[2])

EdgeApplies(e) == e[2] \in subjects /\ e[1] \notin subjects

Edge(e) ==
  /\ phase = "edges" /\ IsNext(e, EdgeApplies, EdgeBefore)
  /\ subjects' = subjects \cup {e[1]}
  /\ todo' = Later(e, EdgeBefore)
  /\ changed' = TRUE
  /\ UNCHANGED <<input, phase, obligations, works>>

ObligationApplies(o) == contract.bound[o] \cap subjects # {} /\ o \notin obligations

BoundApplies(o) == contract.bound[o] \cap subjects # {}

BindAgain(o) ==  \* fault: an obligation already found counts as a change
  /\ phase = "obligations" /\ IsNext(o, BoundApplies, <)
  /\ obligations' = obligations \cup {o}
  /\ works' = works \cup {contract.work[o]}
  /\ todo' = Later(o, <)
  /\ changed' = TRUE
  /\ UNCHANGED <<input, phase, subjects>>

Bind(o) ==
  /\ phase = "obligations" /\ IsNext(o, ObligationApplies, <)
  /\ obligations' = obligations \cup {o}
  /\ works' = works \cup {contract.work[o]}
  /\ todo' = Later(o, <)
  /\ changed' = TRUE
  /\ UNCHANGED <<input, phase, subjects>>

OwnedBy(w) == {o \in Obligations : contract.work[o] = w}

DependentApplies(w) == contract.depends[w] \cap works # {} /\ w \notin works

Depend(w) ==
  /\ phase = "dependents" /\ IsNext(w, DependentApplies, <)
  /\ works' = works \cup {w}
  /\ obligations' = obligations \cup OwnedBy(w)
  /\ subjects' = subjects \cup UNION {contract.bound[o] : o \in OwnedBy(w) \ contract.composition}
  /\ todo' = Later(w, <)
  /\ changed' = TRUE
  /\ UNCHANGED <<input, phase>>

CompositionsOf(p) == OwnedBy(p) \cap contract.composition

ParentAppliesOnce(w) ==  \* fault: a parent already affected is passed over
  contract.parent[w] # None /\ contract.parent[w] \notin works

ParentApplies(w) ==
  LET p == contract.parent[w]
  IN p # None /\ (p \notin works \/ ~(CompositionsOf(p) \subseteq obligations))

AscendAll(w) ==  \* fault: every obligation of the parent, not its compositions
  LET p == contract.parent[w]
  IN /\ phase = "parents" /\ w \in todo /\ ParentApplies(w)
     /\ works' = works \cup {p}
     /\ obligations' = obligations \cup OwnedBy(p)
     /\ todo' = todo \ {w}
     /\ changed' = TRUE
     /\ UNCHANGED <<input, phase, subjects>>

\* This loop runs over a copy of a Python set, in any order.
Ascend(w) ==
  LET p == contract.parent[w]
  IN /\ phase = "parents" /\ w \in todo /\ ParentApplies(w)
     /\ works' = works \cup {p}
     /\ obligations' = obligations \cup CompositionsOf(p)
     /\ todo' = todo \ {w}
     /\ changed' = TRUE
     /\ UNCHANGED <<input, phase, subjects>>

Exhausted ==
  CASE phase = "edges" -> \A e \in todo : ~EdgeApplies(e)
    [] phase = "obligations" -> \A o \in todo : ~ObligationApplies(o)
    [] phase = "dependents" -> \A w \in todo : ~DependentApplies(w)
    [] phase = "parents" -> \A w \in todo : ~ParentApplies(w)
    [] OTHER -> FALSE

NextLoop ==
  /\ phase \in {"edges", "obligations", "dependents"} /\ Exhausted
  /\ \/ phase = "edges" /\ phase' = "obligations" /\ todo' = Obligations
     \/ phase = "obligations" /\ phase' = "dependents" /\ todo' = WorkItems
     \/ phase = "dependents" /\ phase' = "parents" /\ todo' = works
  /\ UNCHANGED <<input, changed, subjects, obligations, works>>

NextPass ==
  /\ phase = "parents" /\ Exhausted /\ changed
  /\ phase' = "edges"
  /\ todo' = contract.edges
  /\ changed' = FALSE
  /\ UNCHANGED <<input, subjects, obligations, works>>

ReturnAfterOnePass ==  \* fault: the loops are not repeated
  /\ phase = "parents" /\ Exhausted
  /\ phase' = "done"
  /\ UNCHANGED <<input, todo, changed, subjects, obligations, works>>

Return ==
  /\ phase = "parents" /\ Exhausted /\ ~changed
  /\ phase' = "done"
  /\ UNCHANGED <<input, todo, changed, subjects, obligations, works>>

Next ==
  \/ Reject \/ Seed \/ NextLoop \/ NextPass \/ Return
  \/ \E e \in contract.edges : Edge(e)
  \/ \E o \in Obligations : Bind(o)
  \/ \E w \in WorkItems : Depend(w) \/ Ascend(w)

\* One function call that runs to its end.
Spec == Init /\ [][Next]_vars /\ WF_vars(Next)

-----------------------------------------------------------------------------
(* The closure that the four rules define, for reference.                  *)

Start == [subjects |-> Seeds, obligations |-> {}, works |-> {}]

\* Everything the affected ones affect directly.
Implied(x) ==
  LET bound == {o \in Obligations : contract.bound[o] \cap x.subjects # {}}
      dependents == {w \in WorkItems : contract.depends[w] \cap x.works # {}}
      owned == UNION {OwnedBy(w) : w \in dependents}
      parents == {contract.parent[w] : w \in x.works} \ {None}
  IN [subjects |-> x.subjects
        \cup {s \in Subjects : \E t \in x.subjects : <<s, t>> \in contract.edges}
        \cup UNION {contract.bound[o] : o \in owned \ contract.composition},
      obligations |-> x.obligations \cup bound \cup owned
        \cup UNION {CompositionsOf(p) : p \in parents},
      works |-> x.works \cup {contract.work[o] : o \in bound} \cup dependents \cup parents]

Size == Cardinality(Subjects) + Cardinality(Obligations) + Cardinality(WorkItems)

Closure ==
  LET reach[n \in 0 .. Size] == IF n = 0 THEN Start ELSE Implied(reach[n - 1])
  IN reach[Size]

Affected == [subjects |-> subjects, obligations |-> obligations, works |-> works]

-----------------------------------------------------------------------------
(* Properties.                                                             *)

\* The sets hold what their names say.
TypeOK ==
  /\ contract \in Contracts /\ delta \in Deltas
  /\ phase \in {"load", "rejected", "edges", "obligations", "dependents", "parents", "done"}
  /\ todo \subseteq IF phase = "edges" THEN contract.edges ELSE Obligations \cup WorkItems
  /\ changed \in BOOLEAN
  /\ subjects \subseteq Subjects
  /\ obligations \subseteq Obligations
  /\ works \subseteq WorkItems

\* Nothing is called affected that the rules do not lead to from the seeds.
OnlyImplied ==
  phase = "done" =>
    /\ subjects \subseteq Closure.subjects
    /\ obligations \subseteq Closure.obligations
    /\ works \subseteq Closure.works

\* No affected subject is left without what follows from it: its dependents,
\* its obligations, their work items, the items that wait for those, and the
\* composition obligations all the way up.
SubjectsAreFollowedUp ==
  phase = "done" =>
    /\ Seeds \subseteq subjects
    /\ \A e \in contract.edges : e[2] \in subjects => e[1] \in subjects
    /\ \A o \in Obligations : contract.bound[o] \cap subjects # {} => o \in obligations
    /\ \A o \in obligations : contract.work[o] \in works
    /\ \A w \in WorkItems : contract.depends[w] \cap works # {} => w \in works
    /\ \A w \in works : contract.parent[w] # None =>
         contract.parent[w] \in works /\ CompositionsOf(contract.parent[w]) \subseteq obligations

\* In a contract without work dependencies the result is the closure.
ExactWithoutDependencies ==
  phase = "done" /\ (\A w \in WorkItems : contract.depends[w] = {}) => Affected = Closure

\* The loops end: every change adds to one of three finite sets.
Terminates == <>(phase \in {"rejected", "done"})

\* compute_scip_impact's docstring: the "exact D-033 closure".
ExactClosure == phase = "done" => Affected = Closure
=============================================================================
