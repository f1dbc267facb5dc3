-------------------------- MODULE MCImpactClosure --------------------------
(***************************************************************************)
(* Three subjects in three documents, three work items, four obligations,  *)
(* one of them a composition: every dependency relation among the items,   *)
(* cyclic ones included, several hierarchies, subject graphs and           *)
(* assignments, and differences of every kind.                             *)
(***************************************************************************)
EXTENDS ImpactClosure

MCSubjects == 1 .. 3
MCObligations == 1 .. 4
MCWorkItems == 1 .. 3

Hierarchies == {<<None, None, None>>, <<None, 1, 1>>, <<3, 3, None>>, <<2, 3, None>>, <<2, 1, None>>}
Assignments ==
  {[bound |-> <<{1}, {2}, {3}, {1, 2}>>, work |-> <<1, 1, 2, 3>>],
   [bound |-> <<{1}, {2}, {3}, {3}>>, work |-> <<2, 3, 3, 1>>],
   [bound |-> <<{1}, {2}, {3}, {3}>>, work |-> <<1, 2, 3, 1>>]}

MCContracts ==
  {[edges |-> E, bound |-> a.bound, work |-> a.work, composition |-> {4}, parent |-> h,
    depends |-> d, places |-> <<{"a", "x"}, {"b", "y"}, {"b", "z"}>>] :
     E \in {{}, {<<1, 2>>, <<2, 3>>}}, a \in Assignments, h \in Hierarchies,
     d \in {d \in [MCWorkItems -> SUBSET MCWorkItems] : \A w \in MCWorkItems : w \notin d[w]}}

Delta(S, P) ==
  [subjects |-> S, places |-> P, amended |-> FALSE, opaque |-> TRUE, current |-> TRUE, agrees |-> TRUE]

MCDeltas ==
  {Delta({1}, {}), Delta({3}, {}), Delta({}, {"y"}), Delta({}, {"b"}), Delta({}, {"c"}),
   Delta({}, {}), [Delta({}, {}) EXCEPT !.opaque = FALSE], [Delta({1}, {}) EXCEPT !.amended = TRUE],
   [Delta({1}, {}) EXCEPT !.current = FALSE], [Delta({1}, {}) EXCEPT !.agrees = FALSE]}
=============================================================================
