-------------------------- MODULE MCScipComparison --------------------------
(***************************************************************************)
(* A file "p" with a class (subject 1) around a method (subject 2), a file *)
(* "q" with a function (subject 3) and a read-only file "k" (subject 4).   *)
(* Messages vary where the method lies, what mentions what and from where, *)
(* which local and external symbols exist, what is described or defined a  *)
(* second time, and the file "k".                                          *)
(***************************************************************************)
EXTENDS ScipComparison, TLC

Info(symbol, relations) == [symbol |-> symbol, information |-> "text", relations |-> relations]
Def(symbol, range, enclosing) ==
  [symbol |-> symbol, definition |-> TRUE, range |-> range, enclosing |-> enclosing]
Use(symbol, at) ==
  [symbol |-> symbol, definition |-> FALSE, range |-> <<at, at>>, enclosing |-> Absent]

File(path, symbols, occurrences) ==
  [path |-> path, language |-> "python", length |-> 9, symbols |-> symbols,
   occurrences |-> occurrences]

\* method: where it lies; relations: of the class; mentions: in p; second: in q.
Index(method, relations, mentions, extra, second, k) ==
  [tool |-> Tool, indexer |-> "indexer", output |-> "output",
   inputs |-> [f \in {"p", "q", "k"} |->
                 CASE f = "p" -> <<method, mentions>> [] f = "q" -> second [] OTHER -> k],
   externals |-> <<Info("E", {})>>,
   documents |->
     <<File("p", <<Info("C", relations), Info("M", {})>> \o extra,
            <<Def("C", <<0, 0>>, <<0, 6>>), Def("M", <<method[1], method[1]>>, method)>> \o mentions),
       File("q", <<Info("F", {})>>, <<Def("F", <<1, 1>>, <<1, 5>>)>> \o second)>>]

Plain == Index(<<2, 4>>, {}, <<Use("F", 3)>>, <<>>, <<>>, "k1")

\* Two ways to write each place, and single changes.
Variants ==
  {Index(method, relations, mentions, <<>>, second, "k1") :
     method \in {<<2, 4>>, <<3, 5>>, <<0, 6>>, <<4, 9>>},
     relations \in {{}, {[target |-> "F", kinds |-> {"implementation"}]}},
     mentions \in {<<>>, <<Use("F", 3)>>, <<Use("F", 5)>>, <<Use("F", 8)>>,
                   <<Use("F", 5), Use("M", 1)>>, <<Use("M", 1), Use("F", 5)>>},
     second \in {<<>>, <<Use("C", 3)>>}}

Others ==
  {Index(<<2, 4>>, {}, <<Use("F", 3)>>, <<Info("l", {})>>, <<>>, "k1"),
   Index(<<2, 4>>, {}, <<Use("F", 3)>>, <<Info("F", {})>>, <<>>, "k1"),
   Index(<<2, 4>>, {}, <<Use("F", 3)>>, <<>>, <<Def("C", <<3, 3>>, Absent)>>, "k1"),
   Index(<<2, 4>>, {}, <<Use("F", 3)>>, <<>>, <<>>, "k2"),
   Index(<<2, 4>>, {[target |-> "E", kinds |-> {"definition"}]}, <<Use("F", 3)>>, <<>>, <<>>, "k1"),
   [Plain EXCEPT !.output = "other"], [Plain EXCEPT !.indexer = "other"],
   [Plain EXCEPT !.documents = <<@[2], @[1]>>],
   [Plain EXCEPT !.externals = <<>>],
   [Plain EXCEPT !.externals[1].information = "other"],
   [Plain EXCEPT !.documents[1].symbols[2].information = "other"]}

MCMessages == Variants \cup Others

Edge(kind, target, required) == [kind |-> kind, target |-> target, required |-> required]

Subject(family, path, symbol, relationships) ==
  [family |-> family, path |-> path, symbol |-> symbol, language |-> "python",
   relationships |-> relationships]

Contract(one, two, three, managed) ==
  [indexed |-> {"p", "q"}, inputs |-> {"p", "q", "k"},
   subjects |-> [s \in 1 .. 3 |->
                   CASE s = 1 -> Subject("scip", "p", "C", one)
                     [] s = 2 -> Subject("scip", "p", "M", two)
                     [] s = 3 -> Subject("scip", "q", "F", three)]
                  @@ managed]

K == 4 :> Subject("managed_artifact", "k", Absent, {})
None4 == [s \in {} |-> Absent]
Loose(target) == Edge("reference", target, FALSE)

MCContracts ==
  {Contract({}, {Edge("reference", 3, TRUE)}, {}, K),
   Contract({Loose(2), Loose(3), Edge("implementation", 3, FALSE)}, {Loose(3)}, {Loose(1)}, K),
   Contract({Loose(2), Loose(3)}, {}, {Loose(1)}, None4)}

\* The contract of one function only.
Single ==
  [indexed |-> {"p", "q"}, inputs |-> {"p", "q", "k"},
   subjects |-> 3 :> Subject("scip", "q", "F", {}) @@ 1 :> Subject("scip", "p", "C", {Loose(3)})]

MCAllContracts == MCContracts \cup {Single}
MCLocals == {"l"}
MCSubjectIds == 1 .. 4
=============================================================================
