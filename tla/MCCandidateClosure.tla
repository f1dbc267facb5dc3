------------------------- MODULE MCCandidateClosure -------------------------
(***************************************************************************)
(* Subject 1 is in path 1 (slot 1); subject 2, a managed artifact, is in   *)
(* path 2 (slot 2) and projected by two adapters, by one in the second    *)
(* contract, where the obligation of slot 2 is a composition.  Each        *)
(* contract has a suite of its own.  Body 1 of slot 2 makes subject 1      *)
(* refer to subject 2.                                                     *)
(***************************************************************************)
EXTENDS CandidateClosure

Slot(id, obligation, subject, path) ==
  [id |-> id, obligation |-> obligation, subject |-> subject, path |-> path,
   task |-> "task", category |-> "body"]

Obligation(id, role, subjects) ==
  [id |-> id, task |-> "task", role |-> role, subjects |-> subjects]

Suite(body) == {[path |-> 3, content |-> {[body |-> body, slot |-> 0]}]}

Contract(id, role, managed) ==
  [id |-> id, subjects |-> {[subject |-> 1, path |-> 1]}, managed |-> managed,
   baseline |-> "baseline", paths |-> <<1, 2>>,
   slots |-> <<Slot(1, 1, 1, 1), Slot(2, 2, 2, 2)>>,
   obligations |-> <<Obligation(1, "leaf", {1}), Obligation(2, role, {2})>>,
   relationships |-> {}, suite |-> Suite(id)]

Managed(path, adapter) == [adapter |-> adapter, path |-> path, subject |-> 2]

One == Contract(1, "leaf", {Managed(2, 1), Managed(2, 2)})
Two == Contract(2, "composition", {Managed(1, 1), Managed(2, 1)})

MCContracts == {One, Two}
MCAdapters == {1, 2}

Op(slot, body) == [body |-> body, slot |-> slot]
MCSubmissions == {<<Op(1, 1)>>, <<Op(1, 2)>>, <<Op(2, 1), Op(1, 1)>>}
MCOrigin == [contract |-> One, submission |-> <<Op(1, 1)>>]

\* The bytes of path 1 have the lower hashes.
MCLower(p, q) == \A x \in p.raw, y \in q.raw : x.slot < y.slot

MCRelations(files) ==
  IF \E e \in files : [slot |-> 2, body |-> 1] \in e.content
  THEN {[source |-> 1, kind |-> "reference", target |-> 2]} ELSE {}
=============================================================================
