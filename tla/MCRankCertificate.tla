------------------------- MODULE MCRankCertificate -------------------------
(***************************************************************************)
(* Every transition relation over three states, with one or two sources    *)
(* and one or two targets, a source among them; every rank table up to     *)
(* rank two and every path up to three states as received certificates,    *)
(* about the model at hand or about one where every state leads to 3.      *)
(***************************************************************************)
EXTENDS RankCertificate

MCStates == 1 .. 3

MCModels ==
  [next : [MCStates -> SUBSET MCStates], sources : {{1}, {2}, {1, 2}}, targets : {{3}, {1, 3}}]

RankTables == UNION {[D -> 0 .. 2] : D \in SUBSET MCStates}
Paths == UNION {[1 .. n -> MCStates] : n \in 0 .. 3}

MCOthers == {[next |-> [s \in MCStates |-> {3}], sources |-> {1, 2}, targets |-> {3}]}

MCReceived ==
  [result : {"proved"}, evidence : RankTables] \cup [result : {"disproved"}, evidence : Paths]
=============================================================================
