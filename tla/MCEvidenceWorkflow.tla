------------------------- MODULE MCEvidenceWorkflow -------------------------
(***************************************************************************)
(* Two small projects.                                                     *)
(*                                                                         *)
(* Flat: one task whose obligation is bound to the source file.  There are *)
(* three plans; the second one froze another checker command, the third    *)
(* one binds the input file as well, which is no subject of the contract.  *)
(* The source changes.                                                     *)
(*                                                                         *)
(* Deep: an epic over a task, a behavior obligation whose checker writes   *)
(* an artifact and a composition obligation over both.  There is one plan; *)
(* the checkers' input file and the artifact change.                       *)
(***************************************************************************)
EXTENDS EvidenceWorkflow, TLC

CONSTANTS r1, r2, src, inp, art, frozen, v1, v2, c1, p1, p2, p3, leaf, root, test, comp, epic, task

Policy(command, artifact) ==
  [command |-> command, inputs |-> {inp}, artifact |-> artifact]

Leaf(command, artifact) ==
  [item |-> task, role |-> "behavior", policies |-> [k \in {test} |-> Policy(command, artifact)]]

Root == [item |-> epic, role |-> "composition", policies |-> [k \in {comp} |-> Policy("compose", None)]]

FlatPlan(name, command, bound) ==
  [project |-> name,
   items |-> [i \in {task} |-> [parent |-> None, text |-> "text"]],
   obligations |-> [o \in {leaf} |-> Leaf(command, None)],
   bindings |-> {leaf} \X bound]

DeepPlan ==
  [project |-> "deep",
   items |-> [i \in {epic, task} |->
                [parent |-> IF i = epic THEN None ELSE epic, text |-> "text"]],
   obligations |-> [o \in {leaf, root} |-> IF o = leaf THEN Leaf("prove", art) ELSE Root],
   bindings |-> {<<leaf, src>>}]

FlatPlans == {p1, p2, p3}
FlatManifest ==
  [p \in FlatPlans |->
     CASE p = p1 -> FlatPlan("first", "old", {src})
       [] p = p2 -> FlatPlan("second", "new", {src})
       [] p = p3 -> FlatPlan("second", "new", {src, inp})]
FlatChoices == [f \in {src, inp, frozen} |->
  IF f = src THEN {v1, v2} ELSE IF f = inp THEN {v1} ELSE {c1}]

DeepPlans == {p1}
DeepManifest == [p \in DeepPlans |-> DeepPlan]
DeepChoices == [f \in {src, inp, art, frozen} |->
  CASE f = src -> {v1}
    [] f = inp -> {v1, v2}
    [] f = art -> {v1, Absent}
    [] f = frozen -> {c1}]

RunnerSymmetry == Permutations(Runners)

MCContents == {v1, v2, c1}
MCScope == [c \in {c1} |-> [subjects |-> {src}, indexed |-> {src}, inputs |-> {src}]]
MCDefining == {v1, v2}
=============================================================================
