--------------------------- MODULE MCCoverageJoin ---------------------------
(***************************************************************************)
(* Two source files, one of which changes, under a contract that may move  *)
(* subject a from the first to the second.  Two objectives, for two        *)
(* obligations, one that names the moved subject, one of another contract; *)
(* suites for the primary channels and for both blind lanes, the           *)
(* assignments of each, and what runs report on every channel about either *)
(* state of the sources.                                                   *)
(***************************************************************************)
EXTENDS CoverageJoin

CONSTANTS frozen, f, g, v1, v2, c1, c2

MCContents == {v1, v2, c1, c2}
MCChoices == [x \in {frozen, f, g} |->
  IF x = frozen THEN {c1, c2} ELSE IF x = f THEN {v1, v2} ELSE {v1}]
MCScope == [c \in {c1, c2} |-> [subjects |-> {f, g}, indexed |-> {f, g}, inputs |-> {f, g}]]
MCDefining == {v1, v2}

In(path, symbol) == [path |-> path, symbol |-> symbol]
MCBinding == [c \in {c1, c2} |->
  [s \in {"a", "b"} |-> IF s = "a" THEN In(IF c = c1 THEN f ELSE g, "a()") ELSE In(g, "b()")]]

OnAll(subjects, profile) == [subjects |-> subjects, profiles |-> {profile}]

First(path, contract) ==
  [id |-> "o1", hash |-> "h1", contract |-> contract, node |-> "task",
   obligation |-> "ob1", tools |-> {"tool"},
   profiles |-> [p \in {"execute", "exhaust"} |->
     IF p = "execute" THEN {"PRIMARY", "A", "COMPOSITION"} ELSE {"PRIMARY", "B"}],
   targets |-> [s \in {"a", "b"} |-> IF s = "a" THEN In(path, "a()") ELSE In(g, "b()")],
   requirements |-> [q \in {"reach", "domain"} |->
     IF q = "reach" THEN OnAll({"a", "b"}, "execute") ELSE OnAll({"a"}, "exhaust")]]

Second ==
  [id |-> "o2", hash |-> "h2", contract |-> c1, node |-> "task", obligation |-> "ob2", tools |-> {"tool"},
   profiles |-> [p \in {"execute"} |-> {"PRIMARY", "B"}],
   targets |-> [s \in {"b"} |-> In(g, "b()")],
   requirements |-> [q \in {"edge"} |-> OnAll({"b"}, "execute")]]

MCObjectives == {First(f, c1), First(g, c1), First(f, c2), Second}

Frozen == [reach |-> {"a", "b"}, domain |-> {"a"}, edge |-> {"b"}]

Suite(hash, lane, ids, hashes, strategy, requirements) ==
  [hash |-> hash, contract |-> c1, node |-> "task", lane |-> lane,
   origin |-> IF lane = "PRIMARY" THEN "primary" ELSE "blind",
   objectives |-> ids, hashes |-> hashes, strategy |-> strategy,
   bindings |-> [q \in requirements |->
     [subjects |-> Frozen[q], tool |-> "tool", parser |-> "parser"]]]

One == [o \in {"ob1"} |-> "execute"]
MCSuites ==
  {Suite("p", "PRIMARY", <<"o1">>, <<"h1">>, <<>>, {"reach", "domain"}),
   Suite("pc", "PRIMARY", <<"o1">>, <<"h1">>, <<>>, {"reach"}),
   Suite("p2", "PRIMARY", <<"o1", "o2">>, <<"h1", "h2">>, <<>>, {"reach", "domain", "edge"}),
   Suite("a", "A", <<"o1">>, <<"h1">>, One, {"reach"}),
   Suite("b", "B", <<"o1">>, <<"h1">>, One, {"reach"}),
   Suite("b2", "B", <<"o2">>, <<"h2">>, [o \in {"ob2"} |-> "execute"], {"edge"})}

Kinds(suite) ==
  IF suite.origin = "primary" THEN {<<"primary", "PRIMARY">>, <<"composition", "COMPOSITION">>}
    ELSE {<<"blind_fresh", suite.lane>>, <<"blind_regression", "REGRESSION">>}

Assignment(suite, kind, channel) ==
  [hash |-> <<suite.hash, kind>>, contract |-> suite.contract, node |-> "task",
   lane |-> suite.lane, kind |-> kind, channel |-> channel, suite |-> suite.hash,
   objectives |-> suite.objectives, hashes |-> suite.hashes]

MCAssignments == UNION {{Assignment(s, k[1], k[2]) : k \in Kinds(s)} : s \in MCSuites}

Sources == [{f} -> {v1, v2}]
Bytes(sources) == [x \in {f, g} |-> IF x = f THEN sources[f] ELSE v1]

\* A run reports on the sources that the index describes, or says so of a
\* subject it measured in another file or in another state.
Report(suite, k, sources, measured) ==
  [channel |-> k[2], contract |-> suite.contract, node |-> "task", suite |-> suite.hash,
   assignment |-> <<suite.hash, k[1]>>,
   hashes |-> suite.hashes,
   obligations |-> {IF o = "o1" THEN "ob1" ELSE "ob2" : o \in Range(suite.objectives)},
   index |-> Bytes(sources),
   results |-> [x \in UNION {{q} \X Frozen[q] : q \in DOMAIN suite.bindings} |->
     [source |-> IF x[2] = "a" THEN measured ELSE v1, index |-> Bytes(sources),
      parser |-> "parser", result |-> "SATISFIED"]]]

MCReports ==
  UNION {{Report(s, k, sources, m) : k \in Kinds(s), sources \in Sources, m \in {v1, v2}} : s \in MCSuites}
=============================================================================
