--------------------------- MODULE MCProjectCheck ---------------------------
(***************************************************************************)
(* The deep project of MCEvidenceWorkflow, verified once, and what can     *)
(* happen to it while it is checked again.  Another plan has its task at   *)
(* the root, with another checker and no composition.                      *)
(***************************************************************************)
EXTENDS ProjectCheck, MCEvidenceWorkflow

ShallowPlan ==
  [project |-> "deep",
   items |-> [i \in {task} |-> [parent |-> None, text |-> "text"]],
   obligations |-> [o \in {leaf} |-> Leaf("other", art)],
   bindings |-> {<<leaf, src>>}]

CheckPlans == {p1, p2}
CheckManifest == [p \in CheckPlans |-> IF p = p1 THEN DeepPlan ELSE ShallowPlan]
=============================================================================
