------------------------- MODULE QualificationLedger -------------------------
(***************************************************************************)
(* What the qualification store promises, without tables, stages, events   *)
(* or answers: for every run key six facts that are established one after  *)
(* the other, each once, and never taken back.                             *)
(***************************************************************************)
EXTENDS Naturals

CONSTANTS
  Keys,      \* run keys
  Profiles,  \* execution profiles, each with its run key
  Raws, Cleanups, Bodies,  \* raw outputs, cleanup observations, other blobs
  Results,   \* result documents, each with its run key
  None

Steps == 1 .. 6

VARIABLE ledger  \* per key: profile, start, raw, cleanup, private run, result

\* What may become the next fact, given the facts before it: a private run
\* repeats the two commitments, profile and result belong to the key.
Allowed(k, i, facts) ==
  CASE i = 1 -> {p \in Profiles : p.key = k}
    [] i = 2 -> {facts[1]}
    [] i = 3 -> Raws
    [] i = 4 -> Cleanups
    [] i = 5 -> [key : {k}, raw : {facts[3]}, cleanup : {facts[4]}, body : Bodies]
    [] i = 6 -> {r \in Results : r.key = k}

Init == ledger = [k \in Keys |-> [i \in Steps |-> None]]

Establish(k, i) ==
  /\ \A j \in Steps : ledger[k][j] = None <=> j >= i
  /\ \E v \in Allowed(k, i, ledger[k]) : ledger' = [ledger EXCEPT ![k][i] = v]

Next == \E k \in Keys, i \in Steps : Establish(k, i)

Spec == Init /\ [][Next]_ledger
=============================================================================
