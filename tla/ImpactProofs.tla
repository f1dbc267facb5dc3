---------------------------- MODULE ImpactProofs ----------------------------
(***************************************************************************)
(* Proofs about the way from an index to an impact.                        *)
(*                                                                         *)
(* ScipAdmission and ScipComparison: in admitted code every mention of a   *)
(* subject has one innermost owner that declares it, a bound symbol has    *)
(* one meaning, and an accepted difference leaves nothing unseen.          *)
(*                                                                         *)
(* ImpactClosure: what compute_scip_impact returns is closed under the     *)
(* rules, nothing in it is beyond any closed set, and Closure, which is    *)
(* defined by repeating the rules Size times, is the least closed one.     *)
(***************************************************************************)
EXTENDS ImpactClosure, ScipComparison, FiniteSetTheorems, WellFoundedInduction, TLAPS

\* Every non-empty set of numbers has a least one.
LEMMA LeastNumber ==
  ASSUME NEW T \in SUBSET Nat, T # {}
  PROVE  \E n \in T : \A m \in T : ~(m < n)
<1>1. \E n \in T : \A m \in T : ~(<<m, n>> \in OpToRel(<, Nat))
  BY NatLessThanWellFounded, WFMin, Zenon
<1>2. PICK n \in T : \A m \in T : ~(<<m, n>> \in OpToRel(<, Nat))
  BY <1>1
<1>3. \A m \in T : ~(m < n)
  BY <1>2, Zenon DEF OpToRel
<1>4. QED BY <1>3

-----------------------------------------------------------------------------
(* Messages.                                                               *)

LEMMA FiniteImage ==
  ASSUME NEW S, IsFiniteSet(S), NEW f
  PROVE  IsFiniteSet({f[x] : x \in S})
<1> DEFINE g == [x \in S |-> f[x]]
<1>1. g \in Surjection(S, {f[x] : x \in S})
  BY DEF Surjection
<1>2. QED BY <1>1, FS_Surjection

\* Lists have finitely many positions.
LEMMA ListsAreFinite ==
  ASSUME NEW s, IsList(s)
  PROVE  IsFiniteSet(DOMAIN s)
<1>1. PICK n \in Nat : DOMAIN s = 1 .. n
  BY DEF IsList
<1>2. QED BY <1>1, FS_Interval

\* A message has finitely many rows of symbols and finitely many occurrences.
LEMMA SymbolRowsAreFinite ==
  ASSUME NEW m \in Messages
  PROVE  IsFiniteSet(SymbolRows(m))
<1> DEFINE of == [i \in DOMAIN m.documents |-> {i} \X DOMAIN m.documents[i].symbols]
<1>1. IsFiniteSet(DOMAIN m.documents) /\ IsFiniteSet(DOMAIN m.externals)
  BY MessagesAssumption, ListsAreFinite
<1>2. \A i \in DOMAIN m.documents : IsFiniteSet(DOMAIN m.documents[i].symbols)
  BY MessagesAssumption, ListsAreFinite
<1>3. \A i \in DOMAIN m.documents : IsFiniteSet(of[i])
  <2>1. TAKE i \in DOMAIN m.documents
  <2>2. IsFiniteSet({i})
    BY FS_Singleton
  <2>3. IsFiniteSet({i} \X DOMAIN m.documents[i].symbols)
    BY <1>2, <2>2, FS_Product
  <2>4. QED BY <2>3
<1> HIDE DEF of
<1>4. IsFiniteSet({of[i] : i \in DOMAIN m.documents})
  BY <1>1, FiniteImage
<1> USE DEF of
<1>5. IsFiniteSet(UNION {of[i] : i \in DOMAIN m.documents})
  BY <1>3, <1>4, FS_UNION
<1>6. IsFiniteSet({0} \X DOMAIN m.externals)
  BY <1>1, FS_Singleton, FS_Product
<1>7. UNION {of[i] : i \in DOMAIN m.documents}
        = UNION {{i} \X DOMAIN m.documents[i].symbols : i \in DOMAIN m.documents}
  OBVIOUS
<1>8. QED BY <1>5, <1>6, <1>7, FS_Union DEF SymbolRows

\* What one occurrence is.
OccurrenceAt(d, j) ==
  [path |-> d.path, at |-> j, symbol |-> d.occurrences[j].symbol,
   definition |-> d.occurrences[j].definition, range |-> d.occurrences[j].range,
   enclosing |-> d.occurrences[j].enclosing]

LEMMA OccurrencesAt ==
  ASSUME NEW m \in Messages, NEW o
  PROVE  o \in Occurrences(m) <=>
           \E i \in DOMAIN m.documents : \E j \in DOMAIN m.documents[i].occurrences :
             o = OccurrenceAt(m.documents[i], j)
BY DEF Occurrences, OccurrenceAt

LEMMA OccurrencesAreFinite ==
  ASSUME NEW m \in Messages
  PROVE  IsFiniteSet(Occurrences(m))
<1> DEFINE of == [i \in DOMAIN m.documents |->
                    {OccurrenceAt(m.documents[i], j) : j \in DOMAIN m.documents[i].occurrences}]
<1>1. IsFiniteSet(DOMAIN m.documents)
  BY MessagesAssumption, ListsAreFinite
<1>2. \A i \in DOMAIN m.documents : IsFiniteSet(DOMAIN m.documents[i].occurrences)
  BY MessagesAssumption, ListsAreFinite
<1>3. \A i \in DOMAIN m.documents : IsFiniteSet(of[i])
  <2>1. TAKE i \in DOMAIN m.documents
  <2> DEFINE f == [j \in DOMAIN m.documents[i].occurrences |-> OccurrenceAt(m.documents[i], j)]
  <2> HIDE DEF f
  <2>2. IsFiniteSet({f[j] : j \in DOMAIN m.documents[i].occurrences})
    BY <1>2, FiniteImage
  <2> USE DEF f
  <2>3. {f[j] : j \in DOMAIN m.documents[i].occurrences} = of[i]
    OBVIOUS
  <2>4. QED BY <2>2, <2>3
<1> HIDE DEF of
<1>4. IsFiniteSet({of[i] : i \in DOMAIN m.documents})
  BY <1>1, FiniteImage
<1> USE DEF of
<1>5. IsFiniteSet(UNION {of[i] : i \in DOMAIN m.documents})
  BY <1>3, <1>4, FS_UNION
<1>6. UNION {of[i] : i \in DOMAIN m.documents} = Occurrences(m)
  <2>1. \A i \in DOMAIN m.documents : \A o : o \in of[i] <=>
          \E j \in DOMAIN m.documents[i].occurrences : o = OccurrenceAt(m.documents[i], j)
    OBVIOUS
  <2> HIDE DEF of
  <2>2. ASSUME NEW o
        PROVE  o \in UNION {of[i] : i \in DOMAIN m.documents} <=> o \in Occurrences(m)
    <3>1. o \in UNION {of[i] : i \in DOMAIN m.documents}
            <=> \E i \in DOMAIN m.documents : o \in of[i]
      OBVIOUS
    <3>2. QED BY <2>1, <3>1, OccurrencesAt
  <2>3. QED BY <2>2
<1>7. QED BY <1>5, <1>6

\* The ranges of an admitted message lie in their documents.
LEMMA RangesTyped ==
  ASSUME NEW m \in Messages, DocumentsValid(m), NEW o \in Occurrences(m)
  PROVE  /\ o.range \in Int \X Int
         /\ o.enclosing # Absent => /\ o.enclosing \in Int \X Int
                                    /\ 0 <= o.enclosing[1] /\ o.enclosing[1] <= o.enclosing[2]
<1>0. PICK i \in DOMAIN m.documents : \E j \in DOMAIN m.documents[i].occurrences :
        o = OccurrenceAt(m.documents[i], j)
  BY OccurrencesAt
<1>1. PICK j \in DOMAIN m.documents[i].occurrences : o = OccurrenceAt(m.documents[i], j)
  BY <1>0
<1>2. OccurrenceValid(m.documents[i], m.documents[i].occurrences[j])
  BY <1>1 DEF DocumentsValid
<1>3. /\ o.range = m.documents[i].occurrences[j].range
      /\ o.enclosing = m.documents[i].occurrences[j].enclosing
  BY <1>1 DEF OccurrenceAt
<1>4. /\ m.documents[i].occurrences[j].range \in Int \X Int
      /\ \/ m.documents[i].occurrences[j].enclosing = Absent
         \/ m.documents[i].occurrences[j].enclosing \in Int \X Int
  BY <1>1, MessagesAssumption
<1>5. QED BY <1>2, <1>3, <1>4 DEF OccurrenceValid, InDocument

\* A set with one element has an element, and no other.
LEMMA TheOnlyOne ==
  ASSUME NEW S, IsFiniteSet(S), Cardinality(S) = 1
  PROVE  \E x \in S : S = {x}
<1>1. PICK x : S = {x}
  BY FS_Singleton
<1>2. QED BY <1>1

LEMMA AtMostOne ==
  ASSUME NEW S, IsFiniteSet(S), Cardinality(S) <= 1, NEW x \in S, NEW y \in S
  PROVE  x = y
<1>1. Cardinality(S) \in Nat /\ Cardinality(S) # 0
  BY FS_CardinalityType, FS_EmptySet
<1>2. Cardinality(S) = 1
  BY <1>1
<1>3. QED BY <1>2, TheOnlyOne

-----------------------------------------------------------------------------
(* What an admitted message says about a contract.                         *)

Resolvable(m, c) ==
  /\ m \in Messages /\ c \in ContractDocuments
  /\ MayBeAdmitted(m, c)

\* A bound subject has one definition and one description in its own file.
LEMMA SubjectsResolved ==
  ASSUME NEW m, NEW c, Resolvable(m, c), NEW s \in Bound(c)
  PROVE  /\ Definitions(m, c, s) = {Definition(m, c, s)}
         /\ Definition(m, c, s) \in Occurrences(m)
         /\ \E x \in SymbolRows(m) : Information(m, c, s) = {x}
<1>1. SubjectResolves(m, c, s)
  BY DEF Resolvable, MayBeAdmitted, SubjectsVerified, BindingsValid
<1>2. Definitions(m, c, s) \in SUBSET Occurrences(m) /\ Cardinality(Definitions(m, c, s)) = 1
  BY <1>1 DEF SubjectResolves, Definitions
<1>3. Information(m, c, s) \in SUBSET SymbolRows(m) /\ Cardinality(Information(m, c, s)) = 1
  BY <1>1 DEF SubjectResolves, Information
<1>4. IsFiniteSet(Definitions(m, c, s)) /\ IsFiniteSet(Information(m, c, s))
  BY <1>2, <1>3, OccurrencesAreFinite, SymbolRowsAreFinite, FS_Subset DEF Resolvable
<1>5. PICK o \in Definitions(m, c, s) : Definitions(m, c, s) = {o}
  BY <1>2, <1>4, TheOnlyOne
<1>6. PICK x \in Information(m, c, s) : Information(m, c, s) = {x}
  BY <1>3, <1>4, TheOnlyOne
<1>7. Definition(m, c, s) = o
  BY <1>5 DEF Definition
<1>8. QED BY <1>2, <1>3, <1>5, <1>6, <1>7

\* Its definition surrounds a range of its file.
LEMMA EnclosingTyped ==
  ASSUME NEW m, NEW c, Resolvable(m, c), NEW s \in Bound(c), Enclosing(m, c, s) # Absent
  PROVE  /\ Enclosing(m, c, s)[1] \in Nat /\ Enclosing(m, c, s)[2] \in Nat
         /\ Enclosing(m, c, s)[1] <= Enclosing(m, c, s)[2]
         /\ Enclosing(m, c, s) = <<Enclosing(m, c, s)[1], Enclosing(m, c, s)[2]>>
<1>1. Definition(m, c, s) \in Occurrences(m)
  BY SubjectsResolved
<1>2. DocumentsValid(m)
  BY DEF Resolvable, MayBeAdmitted, IndexValid
<1>3. /\ Enclosing(m, c, s) \in Int \X Int
      /\ 0 <= Enclosing(m, c, s)[1] /\ Enclosing(m, c, s)[1] <= Enclosing(m, c, s)[2]
  BY <1>1, <1>2, RangesTyped DEF Enclosing, Resolvable
<1>4. QED BY <1>3

-----------------------------------------------------------------------------
(* Owners.                                                                 *)

LEMMA ContainsIsTransitive ==
  ASSUME NEW a, NEW b, NEW d,
         a[1] \in Int, a[2] \in Int, b[1] \in Int, b[2] \in Int, d[1] \in Int, d[2] \in Int,
         Contains(a, b), Contains(b, d)
  PROVE  Contains(a, d)
BY DEF Contains

\* Within each candidate around a mention lies a minimal one.
LEMMA MinimalBelow ==
  ASSUME NEW m, NEW c, Resolvable(m, c), NEW o, NEW t \in Candidates(m, c, o)
  PROVE  \E s \in Minimal(m, c, o) : Contains(Enclosing(m, c, t), Enclosing(m, c, s))
<1> DEFINE E(u) == Enclosing(m, c, u)
           inside == {u \in Candidates(m, c, o) : Contains(E(t), E(u))}
           lengths == {E(u)[2] - E(u)[1] : u \in inside}
<1>1. \A u \in Candidates(m, c, o) : u \in Bound(c) /\ E(u) # Absent
  BY DEF Candidates
<1>2. \A u \in Candidates(m, c, o) :
        /\ E(u)[1] \in Nat /\ E(u)[2] \in Nat /\ E(u)[1] <= E(u)[2]
        /\ E(u) = <<E(u)[1], E(u)[2]>>
  BY <1>1, EnclosingTyped
<1> HIDE DEF E
<1>3. t \in inside
  BY <1>2 DEF Contains
<1>4. lengths \in SUBSET Nat /\ lengths # {}
  BY <1>2, <1>3
<1>5. PICK n \in lengths : \A k \in lengths : ~(k < n)
  BY <1>4, LeastNumber
<1>6. PICK s \in inside : n = E(s)[2] - E(s)[1]
  BY <1>5
<1>7. ASSUME NEW u \in Candidates(m, c, o), E(u) # E(s), Contains(E(s), E(u))
      PROVE  FALSE
  <2>1. Contains(E(t), E(u))
    BY <1>2, <1>6, <1>7, ContainsIsTransitive
  <2>2. u \in inside
    BY <1>7, <2>1
  <2>3. ~(E(u)[2] - E(u)[1] < E(s)[2] - E(s)[1])
    BY <1>5, <1>6, <2>2
  <2>4. E(s)[1] <= E(u)[1] /\ E(u)[2] <= E(s)[2]
    BY <1>7 DEF Contains
  <2>5. E(u)[1] = E(s)[1] /\ E(u)[2] = E(s)[2]
    BY <1>2, <1>6, <2>3, <2>4
  <2>6. QED BY <1>2, <1>6, <1>7, <2>5
<1>8. s \in Minimal(m, c, o)
  BY <1>6, <1>7 DEF Minimal, E
<1>9. QED BY <1>6, <1>8 DEF E

\* Around every mention of a subject, one candidate lies in all the others.
LEMMA OneOwner ==
  ASSUME NEW m, NEW c, Resolvable(m, c), NEW o \in References(m, c), Candidates(m, c, o) # {}
  PROVE  \E s \in Minimal(m, c, o) : \A u \in Bound(c) : Innermost(m, c, o, u) <=> u = s
<1> DEFINE E(u) == Enclosing(m, c, u)
<1>1. PICK t \in Candidates(m, c, o) : TRUE
  OBVIOUS
<1>2. PICK s \in Minimal(m, c, o) : Contains(E(t), E(s))
  BY <1>1, MinimalBelow
<1>3. \A u \in Candidates(m, c, o) : u \in Bound(c) /\ E(u) # Absent
  BY DEF Candidates
<1>4. \A u \in Candidates(m, c, o) :
        E(u)[1] \in Nat /\ E(u)[2] \in Nat /\ E(u) = <<E(u)[1], E(u)[2]>>
  BY <1>3, EnclosingTyped
<1>5. \A u \in Minimal(m, c, o) : u = s
  <2>1. IsFiniteSet(Bound(c))
    BY ContractsAreFinite, FS_Subset DEF Resolvable, Bound, Frozen
  <2>2. Minimal(m, c, o) \in SUBSET Bound(c)
    BY DEF Minimal, Candidates
  <2>3. Cardinality(Minimal(m, c, o)) <= 1
    BY DEF Resolvable, MayBeAdmitted, SubjectsVerified, EdgesValid
  <2>4. IsFiniteSet(Minimal(m, c, o))
    BY <2>1, <2>2, FS_Subset
  <2>5. QED BY <1>2, <2>3, <2>4, AtMostOne
<1>6. s \in Candidates(m, c, o)
  BY <1>2 DEF Minimal
<1>7. \A u \in Candidates(m, c, o) : Contains(E(u), E(s))
  BY <1>5, MinimalBelow
<1>8. Innermost(m, c, o, s)
  BY <1>6, <1>7 DEF Innermost
<1>9. ASSUME NEW u \in Bound(c), Innermost(m, c, o, u) PROVE u = s
  <2>1. u \in Candidates(m, c, o) /\ Contains(E(s), E(u))
    BY <1>6, <1>9 DEF Innermost
  <2>2. Contains(E(u), E(s))
    BY <1>7, <2>1
  <2>3. E(u)[1] = E(s)[1] /\ E(u)[2] = E(s)[2]
    BY <1>4, <1>6, <2>1, <2>2 DEF Contains
  <2>4. E(u) = E(s)
    BY <1>4, <1>6, <2>1, <2>3
  <2>5. u \in Minimal(m, c, o)
    BY <1>2, <2>1, <2>4 DEF Minimal
  <2>6. QED BY <1>5, <2>5
<1>10. QED BY <1>2, <1>8, <1>9

\* An observed edge is one of the owner's.
LEMMA ObservedIsDeclared ==
  ASSUME NEW m, NEW c, Resolvable(m, c), NEW s, NEW k, NEW t, <<s, k, t>> \in Observed(m, c)
  PROVE  \E r \in c.subjects[s].relationships : r.kind = k /\ r.target = t
<1>1. <<s, k, t>> \in Declared(c)
  BY DEF Resolvable, MayBeAdmitted, SubjectsVerified, EdgesValid
<1>2. PICK u \in Bound(c) :
        <<s, k, t>> \in {<<u, r.kind, r.target>> : r \in c.subjects[u].relationships}
  BY <1>1 DEF Declared
<1>3. QED BY <1>2

LEMMA RequiredIsObserved ==
  ASSUME NEW m, NEW c, Resolvable(m, c),
         NEW s \in Bound(c), NEW r \in c.subjects[s].relationships, r.required
  PROVE  <<s, r.kind, r.target>> \in Observed(m, c)
<1>1. <<s, r.kind, r.target>> \in Required(c)
  <2>1. r \in {q \in c.subjects[s].relationships : q.required}
    OBVIOUS
  <2>2. QED BY <2>1 DEF Required
<1>2. QED BY <1>1 DEF Resolvable, MayBeAdmitted, SubjectsVerified, EdgesValid

\* The first conjunct of ClosedWorld, for one mention.
LEMMA MentionsAreDeclared ==
  ASSUME NEW m, NEW c, Resolvable(m, c), NEW o \in References(m, c), Candidates(m, c, o) # {}
  PROVE  \E s \in Bound(c) :
           /\ \A u \in Bound(c) : Innermost(m, c, o, u) <=> u = s
           /\ \A t \in Bound(c) : c.subjects[t].symbol = o.symbol =>
                \E r \in c.subjects[s].relationships : r.kind = "reference" /\ r.target = t
<1>1. PICK s \in Minimal(m, c, o) : \A u \in Bound(c) : Innermost(m, c, o, u) <=> u = s
  BY OneOwner
<1>2. s \in Bound(c)
  BY DEF Minimal, Candidates
<1>3. ASSUME NEW t \in Bound(c), c.subjects[t].symbol = o.symbol
      PROVE  \E r \in c.subjects[s].relationships : r.kind = "reference" /\ r.target = t
  <2>1. <<s, "reference", t>> \in
          {<<v, "reference", w>> :
             v \in Minimal(m, c, o), w \in {u \in Bound(c) : c.subjects[u].symbol = o.symbol}}
    BY <1>3
  <2>2. <<s, "reference", t>> \in ObservedReferences(m, c)
    BY <2>1 DEF ObservedReferences
  <2>3. <<s, "reference", t>> \in Observed(m, c)
    BY <2>2 DEF Observed
  <2>4. QED BY <2>3, ObservedIsDeclared
<1>4. QED BY <1>1, <1>2, <1>3

-----------------------------------------------------------------------------
(* Symbols.                                                                *)

\* A subject's description is the only one of its symbol in the index.
LEMMA OneDescription ==
  ASSUME NEW m, NEW c, Resolvable(m, c), NEW s \in Bound(c),
         NEW x \in SymbolRows(m), SymbolAt(m, x).symbol = c.subjects[s].symbol
  PROVE  Information(m, c, s) = {x}
<1>1. PICK y \in SymbolRows(m) : Information(m, c, s) = {y}
  BY SubjectsResolved
<1>2. y \in Information(m, c, s)
  BY <1>1
<1>3. SymbolAt(m, y).symbol = c.subjects[s].symbol /\ PathAt(m, y) = c.subjects[s].path
  BY <1>2 DEF Information
<1>4. c.subjects[s].symbol \notin Locals
  BY DEF Resolvable, MayBeAdmitted, SubjectsVerified, BindingsValid, SubjectResolves
<1>5. KeyAt(m, x) = KeyAt(m, y)
  BY <1>3, <1>4 DEF KeyAt, Key
<1>6. x = y
  BY <1>5 DEF Resolvable, MayBeAdmitted, IndexValid, SymbolsValid
<1>7. QED BY <1>1, <1>6

LEMMA DescribedAtHome ==
  ASSUME NEW m, NEW c, Resolvable(m, c), NEW s \in Bound(c),
         NEW x \in SymbolRows(m), SymbolAt(m, x).symbol = c.subjects[s].symbol
  PROVE  PathAt(m, x) = c.subjects[s].path
<1>1. x \in Information(m, c, s)
  BY OneDescription
<1>2. QED BY <1>1 DEF Information

\* No other subject has its symbol.
LEMMA SymbolsDiffer ==
  ASSUME NEW m, NEW c, Resolvable(m, c), NEW s \in Bound(c), NEW t \in Bound(c),
         c.subjects[t].symbol = c.subjects[s].symbol
  PROVE  t = s
<1>1. PICK y \in SymbolRows(m) : Information(m, c, t) = {y}
  BY SubjectsResolved
<1>2. y \in Information(m, c, t)
  BY <1>1
<1>3. SymbolAt(m, y).symbol = c.subjects[s].symbol /\ PathAt(m, y) = c.subjects[t].path
  BY <1>2 DEF Information
<1>4. PathAt(m, y) = c.subjects[s].path
  BY <1>3, DescribedAtHome
<1>5. QED BY <1>3, <1>4 DEF Resolvable, MayBeAdmitted, SubjectsVerified, BindingsValid

\* It is defined once in the index, in its file.
LEMMA DefinedOnce ==
  ASSUME NEW m, NEW c, Resolvable(m, c), NEW s \in Bound(c), NEW q \in Occurrences(m)
  PROVE  q.symbol = c.subjects[s].symbol /\ q.definition <=> q = Definition(m, c, s)
<1>1. Definition(m, c, s) \in Definitions(m, c, s) /\ Definitions(m, c, s) = {Definition(m, c, s)}
  BY SubjectsResolved
<1>2. ASSUME q = Definition(m, c, s)
      PROVE  q.symbol = c.subjects[s].symbol /\ q.definition
  BY <1>1, <1>2 DEF Definitions
<1>3. ASSUME q.symbol = c.subjects[s].symbol, q.definition
      PROVE  q = Definition(m, c, s)
  <2>1. Cardinality(Resolved(m, q)) = 1
    BY <1>3 DEF Resolvable, MayBeAdmitted, IndexValid, DefinitionsResolve
  <2>2. Resolved(m, q) \in SUBSET SymbolRows(m)
    BY DEF Resolved
  <2>3. IsFiniteSet(Resolved(m, q))
    BY <2>2, SymbolRowsAreFinite, FS_Subset DEF Resolvable
  <2>4. PICK x \in Resolved(m, q) : TRUE
    BY <2>1, <2>3, TheOnlyOne
  <2>5. x \in SymbolRows(m) /\ KeyAt(m, x) = Key(q.symbol, q.path) /\ PathAt(m, x) = q.path
    BY <2>4 DEF Resolved
  <2>6. SymbolAt(m, x).symbol = c.subjects[s].symbol
    BY <1>3, <2>5 DEF KeyAt, Key
  <2>7. q.path = c.subjects[s].path
    BY <2>5, <2>6, DescribedAtHome
  <2>8. q \in Definitions(m, c, s)
    BY <1>3, <2>7 DEF Definitions
  <2>9. QED BY <1>1, <2>8
<1>4. QED BY <1>2, <1>3

-----------------------------------------------------------------------------
(* The store's admissions and the computed impact.                         *)

AdmissionsInv ==
  /\ admissions \in Seq([index : Messages, contract : ContractDocuments])
  /\ \A i \in DOMAIN admissions : Resolvable(admissions[i].index, admissions[i].contract)

\* An impact is computed once there are two admissions, and then they stay.
ImpactInv ==
  /\ impact.state # "none" => Len(admissions) = 2
  /\ impact.state = "mapped" => Impact!Mapped /\ impact.seeds = Impact!Seeds

ComparisonInv == AdmissionsInv /\ ImpactInv

LEMMA InitCompared ==
  ASSUME ComparisonInit
  PROVE  ComparisonInv
BY DEF ComparisonInit, AdmitInit, ComparisonInv, AdmissionsInv, ImpactInv

LEMMA AdmitStep ==
  ASSUME ComparisonInv, NEW m \in Messages, NEW c \in ContractDocuments, AdmitNext(m, c)
  PROVE  ComparisonInv'
<1>1. /\ Len(admissions) < 2 /\ MayBeAdmitted(m, c)
      /\ admissions' = Append(admissions, Admission(m, c))
      /\ impact' = impact
  BY DEF AdmitNext, Admit
<1>2. Admission(m, c) \in [index : Messages, contract : ContractDocuments]
  BY DEF Admission
<1>3. admissions' \in Seq([index : Messages, contract : ContractDocuments])
  BY <1>1, <1>2 DEF ComparisonInv, AdmissionsInv
<1>4. Resolvable(Admission(m, c).index, Admission(m, c).contract)
  BY <1>1 DEF Resolvable, Admission
<1>5. \A i \in DOMAIN admissions' : Resolvable(admissions'[i].index, admissions'[i].contract)
  <2>1. TAKE i \in DOMAIN admissions'
  <2>2. \/ i \in DOMAIN admissions /\ admissions'[i] = admissions[i]
        \/ admissions'[i] = Admission(m, c)
    BY <1>1, <1>2 DEF ComparisonInv, AdmissionsInv
  <2>3. QED BY <1>4, <2>2 DEF ComparisonInv, AdmissionsInv
<1>6. impact.state = "none"
  BY <1>1 DEF ComparisonInv, ImpactInv
<1>7. QED BY <1>1, <1>3, <1>5, <1>6 DEF ComparisonInv, AdmissionsInv, ImpactInv, Resolvable

LEMMA ComputeStep ==
  ASSUME ComparisonInv, Compute
  PROVE  ComparisonInv'
<1>1. /\ Len(admissions) = 2
      /\ admissions' = admissions
      /\ impact' = IF Impact!Mapped THEN [state |-> "mapped", seeds |-> Impact!Seeds]
                                    ELSE [state |-> "rejected", seeds |-> {}]
  BY DEF Compute
<1>2. Before' = Before /\ After' = After /\ Delta' = Delta
  BY <1>1 DEF Before, After, Delta, ChangedInputs, ChangedDocuments, ChangedSymbols, ChangedRelationSources,
    ChangedOccurrencePaths, ChangedSubjects, Amended, BytesChanged
<1>3. Impact!Seeds' = Impact!Seeds
  BY <1>2 DEF Impact!Seeds
<1>4. Impact!Mapped' <=> Impact!Mapped
  BY <1>2, <1>3 DEF Impact!Mapped
<1>5. ImpactInv'
  <2>1. CASE Impact!Mapped
    BY <1>1, <1>3, <1>4, <2>1 DEF ImpactInv
  <2>2. CASE ~Impact!Mapped
    BY <1>1, <2>2 DEF ImpactInv
  <2>3. QED BY <2>1, <2>2
<1>6. QED BY <1>1, <1>5 DEF ComparisonInv, AdmissionsInv, Resolvable

\* Every admission was admissible, and what was computed was computed of both.
THEOREM ComparisonInvariant == ComparisonSpec => []ComparisonInv
<1>1. ComparisonInit => ComparisonInv
  BY InitCompared
<1>2. ASSUME ComparisonInv, [ComparisonNext]_comparisonVars
      PROVE  ComparisonInv'
  <2>1. CASE Compute
    BY <1>2, <2>1, ComputeStep
  <2>2. CASE \E m \in Messages, c \in ContractDocuments : AdmitNext(m, c)
    BY <1>2, <2>2, AdmitStep
  <2>3. CASE UNCHANGED comparisonVars
    <3>1. admissions' = admissions /\ impact' = impact
      BY <2>3 DEF comparisonVars
    <3>2. Before' = Before /\ After' = After /\ Delta' = Delta
      BY <3>1 DEF Before, After, Delta, ChangedInputs, ChangedDocuments, ChangedSymbols,
        ChangedRelationSources, ChangedOccurrencePaths, ChangedSubjects, Amended, BytesChanged
    <3>3. Impact!Seeds' = Impact!Seeds
      BY <3>2 DEF Impact!Seeds
    <3>4. Impact!Mapped' <=> Impact!Mapped
      BY <3>2, <3>3 DEF Impact!Mapped
    <3>5. QED BY <1>2, <3>1, <3>3, <3>4 DEF ComparisonInv, AdmissionsInv, ImpactInv, Resolvable
  <2>4. QED BY <1>2, <2>1, <2>2, <2>3 DEF ComparisonNext
<1>3. QED BY <1>1, <1>2, PTL DEF ComparisonSpec

LEMMA AdmittedAreResolvable ==
  ASSUME ComparisonInv, NEW a \in Admitted
  PROVE  Resolvable(a.index, a.contract)
BY DEF ComparisonInv, AdmissionsInv, Admitted

LEMMA WorldIsClosed ==
  ASSUME ComparisonInv
  PROVE  ClosedWorld
<1>1. ASSUME NEW a \in Admitted
      PROVE  /\ \A o \in References(a.index, a.contract) :
                  Candidates(a.index, a.contract, o) # {} =>
                    \E s \in Bound(a.contract) :
                      /\ \A u \in Bound(a.contract) : Innermost(a.index, a.contract, o, u) <=> u = s
                      /\ \A t \in Bound(a.contract) :
                           a.contract.subjects[t].symbol = o.symbol =>
                             \E r \in a.contract.subjects[s].relationships :
                               r.kind = "reference" /\ r.target = t
             /\ \A s \in Bound(a.contract) :
                  \A r \in a.contract.subjects[s].relationships :
                    r.required => <<s, r.kind, r.target>> \in Observed(a.index, a.contract)
  <2>1. Resolvable(a.index, a.contract)
    BY <1>1, AdmittedAreResolvable
  <2>2. QED BY <2>1, MentionsAreDeclared, RequiredIsObserved
<1>2. QED BY <1>1 DEF ClosedWorld

\* For every message and contract document, however definitions nest and
\* overlap: in admitted code each mention of a subject has one innermost owner,
\* whose contract declares it (verify_contract_subjects).
THEOREM WorldIsAlwaysClosed == ComparisonSpec => []ClosedWorld
BY ComparisonInvariant, WorldIsClosed, PTL

LEMMA Unambiguous ==
  ASSUME ComparisonInv
  PROVE  SubjectsAreUnambiguous
<1>1. ASSUME NEW a \in Admitted, NEW s \in Bound(a.contract)
      PROVE  LET symbol == a.contract.subjects[s].symbol
                 path == a.contract.subjects[s].path
             IN /\ \A t \in Bound(a.contract) : a.contract.subjects[t].symbol = symbol => t = s
                /\ \E o \in Occurrences(a.index) :
                     /\ o.path = path
                     /\ \A q \in Occurrences(a.index) : q.symbol = symbol /\ q.definition <=> q = o
                /\ \A x \in SymbolRows(a.index) :
                     SymbolAt(a.index, x).symbol = symbol => PathAt(a.index, x) = path
  <2>1. Resolvable(a.index, a.contract)
    BY <1>1, AdmittedAreResolvable
  <2>2. \A t \in Bound(a.contract) :
          a.contract.subjects[t].symbol = a.contract.subjects[s].symbol => t = s
    BY <1>1, <2>1, SymbolsDiffer
  <2>3. /\ Definition(a.index, a.contract, s) \in Occurrences(a.index)
        /\ Definition(a.index, a.contract, s) \in Definitions(a.index, a.contract, s)
    BY <1>1, <2>1, SubjectsResolved
  <2>4. Definition(a.index, a.contract, s).path = a.contract.subjects[s].path
    BY <2>3 DEF Definitions
  <2>5. \A q \in Occurrences(a.index) :
          q.symbol = a.contract.subjects[s].symbol /\ q.definition
            <=> q = Definition(a.index, a.contract, s)
    BY <1>1, <2>1, DefinedOnce
  <2>6. \A x \in SymbolRows(a.index) :
          SymbolAt(a.index, x).symbol = a.contract.subjects[s].symbol =>
            PathAt(a.index, x) = a.contract.subjects[s].path
    BY <1>1, <2>1, DescribedAtHome
  <2>7. QED BY <2>2, <2>3, <2>4, <2>5, <2>6
<1>2. QED BY <1>1 DEF SubjectsAreUnambiguous

\* For every message and contract document: a bound symbol has one meaning in
\* the whole admitted index.
THEOREM SubjectsAreAlwaysUnambiguous == ComparisonSpec => []SubjectsAreUnambiguous
BY ComparisonInvariant, Unambiguous, PTL

-----------------------------------------------------------------------------
(* What an accepted difference says.                                       *)

\* Two admissions under one contract.
Comparable ==
  /\ Resolvable(Before.index, Before.contract)
  /\ Resolvable(After.index, Before.contract)
  /\ After.contract = Before.contract

\* All that differs has a subject, and the seeds are those it has.
Localised ==
  /\ Comparable
  /\ \A p \in Delta.places : \E s \in SubjectIds : p \in Places(Before.contract)[s]
  /\ \A s \in SubjectIds \ impact.seeds :
       s \notin ChangedSubjects /\ Places(Before.contract)[s] \cap Delta.places = {}

LEMMA MappedIsLocalised ==
  ASSUME ComparisonInv, impact.state = "mapped"
  PROVE  Localised
<1>1. Len(admissions) = 2 /\ Impact!Mapped /\ impact.seeds = Impact!Seeds
  BY DEF ComparisonInv, ImpactInv
<1>2. 1 \in DOMAIN admissions /\ 2 \in DOMAIN admissions
  BY <1>1 DEF ComparisonInv, AdmissionsInv
<1>3. /\ Resolvable(Before.index, Before.contract)
      /\ Resolvable(After.index, After.contract)
  BY <1>2 DEF ComparisonInv, AdmissionsInv, Before, After
<1>4. /\ Delta.amended = Amended /\ Delta.subjects = ChangedSubjects
  BY DEF Delta
<1>5. ~Delta.amended /\ \A p \in Delta.places : \E s \in SubjectIds : p \in Places(Before.contract)[s]
  BY <1>1 DEF Impact!Mapped
<1>6. After.contract = Before.contract
  BY <1>4, <1>5 DEF Amended
<1>7. \A s \in SubjectIds \ impact.seeds :
        s \notin ChangedSubjects /\ Places(Before.contract)[s] \cap Delta.places = {}
  BY <1>1, <1>4 DEF Impact!Seeds
<1>8. QED BY <1>3, <1>5, <1>6, <1>7 DEF Localised, Comparable

\* A document and a symbol are not mistaken for one another.
LEMMA DocumentsAreNotSymbols ==
  ASSUME NEW p, NEW q, NEW r
  PROVE  <<p>> # <<q, r>> /\ (<<p>> = <<q>> => p = q)
<1>1. Len(<<p>>) = 1 /\ Len(<<q, r>>) = 2
  OBVIOUS
<1>2. QED BY <1>1

LEMMA PlacesChanged ==
  /\ \A p : <<p>> \in Delta.places <=>
              p \in ChangedInputs \cup ChangedDocuments \cup ChangedOccurrencePaths
  /\ \A p, y : <<p, y>> \in Delta.places <=> <<p, y>> \in ChangedSymbols \cup ChangedRelationSources
<1>1. Delta.places =
        {<<p>> : p \in ChangedInputs \cup ChangedDocuments \cup ChangedOccurrencePaths}
          \cup ChangedSymbols \cup ChangedRelationSources
  BY DEF Delta
<1>2. \A k \in ChangedSymbols \cup ChangedRelationSources : \E p, y : k = <<p, y>>
  BY DEF ChangedSymbols, ChangedRelationSources, Changed, SymbolRowsOf, SymbolRow, RelationRows, KeyAt, Key
<1>3. QED BY <1>1, <1>2, DocumentsAreNotSymbols

\* The places of a bound subject are its document and its symbol.
LEMMA PlacesOfSubjects ==
  ASSUME NEW c \in ContractDocuments
  PROVE  /\ \A s \in Frozen(c) : s \in SubjectIds /\ <<c.subjects[s].path>> \in Places(c)[s]
         /\ \A s \in Bound(c) : <<Absent, c.subjects[s].symbol>> \in Places(c)[s]
         /\ \A s \in SubjectIds : \A k \in Places(c)[s] :
              \/ s \in Frozen(c) /\ k = <<c.subjects[s].path>>
              \/ s \in Bound(c) /\ k = <<Absent, c.subjects[s].symbol>>
<1>1. Frozen(c) \subseteq SubjectIds /\ Bound(c) \subseteq Frozen(c)
  BY SubjectsAssumption DEF Frozen, Bound
<1>2. \A s \in SubjectIds :
        Places(c)[s] = {<<c.subjects[t].path>> : t \in {s} \cap Frozen(c)}
                         \cup {<<Absent, c.subjects[t].symbol>> : t \in {s} \cap Bound(c)}
  BY DEF Places
<1>3. QED BY <1>1, <1>2

\* Nothing of an unseeded subject has changed.
LEMMA UnseededIsUnchanged ==
  ASSUME Localised, NEW s \in Bound(Before.contract), s \notin impact.seeds
  PROVE  LET c == Before.contract
             path == c.subjects[s].path
             key == <<Absent, c.subjects[s].symbol>>
         IN /\ s \notin ChangedSubjects
            /\ path \notin ChangedInputs /\ path \notin ChangedDocuments
            /\ path \notin ChangedOccurrencePaths
            /\ key \notin ChangedSymbols /\ key \notin ChangedRelationSources
<1> DEFINE c == Before.contract
<1>1. c \in ContractDocuments
  BY DEF Localised, Comparable, Resolvable
<1>2. s \in Frozen(c)
  BY DEF Bound
<1>3. /\ s \in SubjectIds
      /\ <<c.subjects[s].path>> \in Places(c)[s]
      /\ <<Absent, c.subjects[s].symbol>> \in Places(c)[s]
  BY <1>1, <1>2, PlacesOfSubjects
<1>4. s \notin ChangedSubjects /\ Places(c)[s] \cap Delta.places = {}
  BY <1>3 DEF Localised
<1>5. <<c.subjects[s].path>> \notin Delta.places /\ <<Absent, c.subjects[s].symbol>> \notin Delta.places
  BY <1>3, <1>4
<1>6. QED BY <1>4, <1>5, PlacesChanged

-----------------------------------------------------------------------------
(* The rows of a document that did not change.                             *)

LEMMA SameRows ==
  ASSUME Comparable, NEW o, o.path \notin ChangedOccurrencePaths
  PROVE  /\ o \in Occurrences(Before.index) =>
              \E q \in Occurrences(After.index) : OccurrenceRow(q) = OccurrenceRow(o)
         /\ o \in Occurrences(After.index) =>
              \E q \in Occurrences(Before.index) : OccurrenceRow(q) = OccurrenceRow(o)
<1>1. Before.index \in Messages /\ After.index \in Messages
  BY DEF Comparable, Resolvable
<1> DEFINE row == OccurrenceRow(o)
           with(a) == {q \in Occurrences(a.index) : OccurrenceRow(q) = row}
<1>2. row.path = o.path
  BY DEF OccurrenceRow
<1>3. IsFiniteSet(with(Before)) /\ IsFiniteSet(with(After))
  BY <1>1, OccurrencesAreFinite, FS_Subset
<1>4. row \in OccurrenceRows(Before) \cup OccurrenceRows(After) =>
        HowOften(Before, row) = HowOften(After, row)
  BY <1>2 DEF ChangedOccurrencePaths
<1>5. HowOften(Before, row) = Cardinality(with(Before)) /\ HowOften(After, row) = Cardinality(with(After))
  BY DEF HowOften
<1>6. ASSUME row \in OccurrenceRows(Before) \cup OccurrenceRows(After)
      PROVE  with(Before) = {} <=> with(After) = {}
  BY <1>3, <1>4, <1>5, <1>6, FS_EmptySet
<1>7. /\ o \in Occurrences(Before.index) => o \in with(Before) /\ row \in OccurrenceRows(Before)
      /\ o \in Occurrences(After.index) => o \in with(After) /\ row \in OccurrenceRows(After)
  BY DEF OccurrenceRows
<1>8. QED BY <1>6, <1>7

LEMMA SameEnclosing ==
  ASSUME Comparable, NEW t \in Bound(Before.contract),
         Before.contract.subjects[t].path \notin ChangedOccurrencePaths
  PROVE  Enclosing(Before.index, Before.contract, t) = Enclosing(After.index, Before.contract, t)
<1> DEFINE c == Before.contract
           d == Definition(Before.index, c, t)
<1>1. d \in Occurrences(Before.index) /\ d \in Definitions(Before.index, c, t)
  BY SubjectsResolved DEF Comparable
<1>2. d.path = c.subjects[t].path /\ d.symbol = c.subjects[t].symbol /\ d.definition
  BY <1>1 DEF Definitions
<1>3. PICK q \in Occurrences(After.index) : OccurrenceRow(q) = OccurrenceRow(d)
  BY <1>1, <1>2, SameRows
<1>4. /\ q.path = d.path /\ q.symbol = d.symbol /\ q.enclosing = d.enclosing
      /\ q.definition = d.definition
  BY <1>3 DEF OccurrenceRow
<1>5. q \in Definitions(After.index, c, t)
  BY <1>2, <1>4 DEF Definitions
<1>6. q = Definition(After.index, c, t)
  BY <1>5, SubjectsResolved DEF Comparable
<1>7. QED BY <1>4, <1>6 DEF Enclosing

\* A mention has the owners it had.
LEMMA SameOwners ==
  ASSUME Comparable, NEW o, NEW q, OccurrenceRow(q) = OccurrenceRow(o),
         o.path \notin ChangedOccurrencePaths
  PROVE  Minimal(Before.index, Before.contract, o) = Minimal(After.index, Before.contract, q)
<1> DEFINE c == Before.contract
           m == Before.index
           n == After.index
<1>1. q.path = o.path /\ q.range = o.range
  BY DEF OccurrenceRow
<1>2. \A t \in Bound(c) : c.subjects[t].path = o.path => Enclosing(m, c, t) = Enclosing(n, c, t)
  BY SameEnclosing
<1>3. \A t : t \in Candidates(m, c, o) <=> t \in Candidates(n, c, q)
  BY <1>1, <1>2 DEF Candidates
<1>4. \A t \in Candidates(m, c, o) : Enclosing(m, c, t) = Enclosing(n, c, t)
  BY <1>2 DEF Candidates
<1>5. \A t : t \in Minimal(m, c, o) <=> t \in Minimal(n, c, q)
  BY <1>3, <1>4 DEF Minimal
<1>6. QED BY <1>5

LEMMA ReferencesUnfold ==
  ASSUME NEW m, NEW c, NEW e
  PROVE  e \in ObservedReferences(m, c) <=>
           \E o \in References(m, c) : \E s \in Minimal(m, c, o), t \in Bound(c) :
             c.subjects[t].symbol = o.symbol /\ e = <<s, "reference", t>>
BY DEF ObservedReferences

LEMMA SameReferences ==
  ASSUME Comparable, NEW s \in Bound(Before.contract),
         Before.contract.subjects[s].path \notin ChangedOccurrencePaths, NEW e, e[1] = s
  PROVE  e \in ObservedReferences(Before.index, Before.contract)
           <=> e \in ObservedReferences(After.index, Before.contract)
<1> DEFINE c == Before.contract
           m == Before.index
           n == After.index
<1>1. ASSUME e \in ObservedReferences(m, c)
      PROVE  e \in ObservedReferences(n, c)
  <2>1. PICK o \in References(m, c) : \E u \in Minimal(m, c, o), t \in Bound(c) :
          c.subjects[t].symbol = o.symbol /\ e = <<u, "reference", t>>
    BY <1>1, ReferencesUnfold
  <2>2. s \in Minimal(m, c, o)
    BY <2>1
  <2>3. o.path = c.subjects[s].path
    BY <2>2 DEF Minimal, Candidates
  <2>4. PICK q \in Occurrences(n) : OccurrenceRow(q) = OccurrenceRow(o)
    BY <2>3, SameRows DEF References
  <2>5. q.symbol = o.symbol /\ q.definition = o.definition
    BY <2>4 DEF OccurrenceRow
  <2>6. q \in References(n, c)
    BY <2>5 DEF References
  <2>7. Minimal(n, c, q) = Minimal(m, c, o)
    BY <2>3, <2>4, SameOwners
  <2>8. QED BY <2>1, <2>5, <2>6, <2>7, ReferencesUnfold
<1>2. ASSUME e \in ObservedReferences(n, c)
      PROVE  e \in ObservedReferences(m, c)
  <2>1. PICK q \in References(n, c) : \E u \in Minimal(n, c, q), t \in Bound(c) :
          c.subjects[t].symbol = q.symbol /\ e = <<u, "reference", t>>
    BY <1>2, ReferencesUnfold
  <2>2. s \in Minimal(n, c, q)
    BY <2>1
  <2>3. q.path = c.subjects[s].path
    BY <2>2 DEF Minimal, Candidates
  <2>4. PICK o \in Occurrences(m) : OccurrenceRow(o) = OccurrenceRow(q)
    BY <2>3, SameRows DEF References
  <2>5. q.symbol = o.symbol /\ q.definition = o.definition /\ q.path = o.path
    BY <2>4 DEF OccurrenceRow
  <2>6. o \in References(m, c)
    BY <2>5 DEF References
  <2>7. Minimal(n, c, q) = Minimal(m, c, o)
    BY <2>3, <2>4, <2>5, SameOwners
  <2>8. QED BY <2>1, <2>5, <2>6, <2>7, ReferencesUnfold
<1>3. QED BY <1>1, <1>2

-----------------------------------------------------------------------------
(* The description of an unchanged symbol.                                 *)

LEMMA RelationsTyped ==
  ASSUME NEW m \in Messages, NEW x \in SymbolRows(m), NEW r \in SymbolAt(m, x).relations
  PROVE  r = [target |-> r.target, kinds |-> r.kinds]
<1>1. 0 \notin DOMAIN m.documents
  BY MessagesAssumption DEF IsList
<1>2. CASE x \in {0} \X DOMAIN m.externals
  <2>1. x[1] = 0 /\ x[2] \in DOMAIN m.externals
    BY <1>2
  <2>2. SymbolAt(m, x) = m.externals[x[2]]
    BY <2>1 DEF SymbolAt
  <2>3. QED BY <2>1, <2>2, MessagesAssumption
<1>3. CASE \E i \in DOMAIN m.documents : x \in {i} \X DOMAIN m.documents[i].symbols
  <2>1. x[1] \in DOMAIN m.documents /\ x[2] \in DOMAIN m.documents[x[1]].symbols
    BY <1>3
  <2>2. SymbolAt(m, x) = m.documents[x[1]].symbols[x[2]]
    BY <1>1, <2>1 DEF SymbolAt
  <2>3. QED BY <2>1, <2>2, MessagesAssumption
<1>4. QED BY <1>2, <1>3 DEF SymbolRows

\* A row under the key of a subject is that of its description.
LEMMA SubjectsKey ==
  ASSUME NEW m, NEW c, Resolvable(m, c), NEW s \in Bound(c), NEW x \in SymbolRows(m)
  PROVE  KeyAt(m, x) = <<Absent, c.subjects[s].symbol>> <=> Information(m, c, s) = {x}
<1>1. c.subjects[s].symbol \notin Locals
  BY DEF Resolvable, MayBeAdmitted, SubjectsVerified, BindingsValid, SubjectResolves
<1>2. ASSUME KeyAt(m, x) = <<Absent, c.subjects[s].symbol>>
      PROVE  Information(m, c, s) = {x}
  <2>1. SymbolAt(m, x).symbol = c.subjects[s].symbol
    BY <1>2 DEF KeyAt, Key
  <2>2. QED BY <2>1, OneDescription
<1>3. ASSUME Information(m, c, s) = {x}
      PROVE  KeyAt(m, x) = <<Absent, c.subjects[s].symbol>>
  <2>1. x \in Information(m, c, s)
    BY <1>3
  <2>2. SymbolAt(m, x).symbol = c.subjects[s].symbol
    BY <2>1 DEF Information
  <2>3. QED BY <1>1, <2>2 DEF KeyAt, Key
<1>4. QED BY <1>2, <1>3

LEMMA SameDescription ==
  ASSUME Comparable, NEW s \in Bound(Before.contract),
         <<Absent, Before.contract.subjects[s].symbol>> \notin ChangedSymbols,
         NEW x \in SymbolRows(Before.index), NEW y \in SymbolRows(After.index),
         Information(Before.index, Before.contract, s) = {x},
         Information(After.index, Before.contract, s) = {y}
  PROVE  SymbolRow(Before.index, x) = SymbolRow(After.index, y)
<1> DEFINE key == <<Absent, Before.contract.subjects[s].symbol>>
           row == SymbolRow(Before.index, x)
<1>1. KeyAt(Before.index, x) = key
  BY SubjectsKey DEF Comparable
<1>2. row.key = key /\ row \in SymbolRowsOf(Before)
  BY <1>1 DEF SymbolRow, SymbolRowsOf
<1>3. row \in SymbolRowsOf(After)
  BY <1>2 DEF ChangedSymbols, Changed
<1>4. PICK z \in SymbolRows(After.index) : row = SymbolRow(After.index, z)
  BY <1>3 DEF SymbolRowsOf
<1>5. KeyAt(After.index, z) = key
  BY <1>2, <1>4 DEF SymbolRow
<1>6. z = y
  BY <1>5, SubjectsKey DEF Comparable
<1>7. QED BY <1>4, <1>6

LEMMA SameRelations ==
  ASSUME Comparable, NEW s \in Bound(Before.contract),
         <<Absent, Before.contract.subjects[s].symbol>> \notin ChangedRelationSources,
         NEW x \in SymbolRows(Before.index), NEW y \in SymbolRows(After.index),
         Information(Before.index, Before.contract, s) = {x},
         Information(After.index, Before.contract, s) = {y}
  PROVE  SymbolAt(Before.index, x).relations = SymbolAt(After.index, y).relations
<1> DEFINE key == <<Absent, Before.contract.subjects[s].symbol>>
           row(r) == [key |-> key, target |-> r.target, kinds |-> r.kinds]
           of(a, v) == SymbolAt(a.index, v).relations
<1>1. Before.index \in Messages /\ After.index \in Messages
  BY DEF Comparable, Resolvable
<1>2. KeyAt(Before.index, x) = key /\ KeyAt(After.index, y) = key
  BY SubjectsKey DEF Comparable
<1>3. \A r : row(r) \in RelationRows(Before) <=> row(r) \in RelationRows(After)
  BY DEF ChangedRelationSources, Changed
<1>4. ASSUME NEW r \in of(Before, x) PROVE r \in of(After, y)
  <2>1. row(r) \in RelationRows(Before)
    BY <1>2 DEF RelationRows
  <2>2. row(r) \in RelationRows(After)
    BY <1>3, <2>1
  <2>3. PICK z \in SymbolRows(After.index) :
          \E q \in of(After, z) : row(r) = [key |-> KeyAt(After.index, z), target |-> q.target, kinds |-> q.kinds]
    BY <2>2 DEF RelationRows
  <2>4. PICK q \in of(After, z) :
          row(r) = [key |-> KeyAt(After.index, z), target |-> q.target, kinds |-> q.kinds]
    BY <2>3
  <2>5. KeyAt(After.index, z) = key /\ q.target = r.target /\ q.kinds = r.kinds
    BY <2>4
  <2>6. z = y
    BY <2>5, SubjectsKey DEF Comparable
  <2>7. q = r
    BY <1>1, <2>5, RelationsTyped
  <2>8. QED BY <2>6, <2>7
<1>5. ASSUME NEW r \in of(After, y) PROVE r \in of(Before, x)
  <2>1. row(r) \in RelationRows(After)
    BY <1>2 DEF RelationRows
  <2>2. row(r) \in RelationRows(Before)
    BY <1>3, <2>1
  <2>3. PICK z \in SymbolRows(Before.index) :
          \E q \in of(Before, z) : row(r) = [key |-> KeyAt(Before.index, z), target |-> q.target, kinds |-> q.kinds]
    BY <2>2 DEF RelationRows
  <2>4. PICK q \in of(Before, z) :
          row(r) = [key |-> KeyAt(Before.index, z), target |-> q.target, kinds |-> q.kinds]
    BY <2>3
  <2>5. KeyAt(Before.index, z) = key /\ q.target = r.target /\ q.kinds = r.kinds
    BY <2>4
  <2>6. z = x
    BY <2>5, SubjectsKey DEF Comparable
  <2>7. q = r
    BY <1>1, <2>5, RelationsTyped
  <2>8. QED BY <2>6, <2>7
<1>6. QED BY <1>4, <1>5

LEMMA SameBinding ==
  ASSUME Comparable, NEW s \in Bound(Before.contract), s \notin ChangedSubjects
  PROVE  Binding(Before.index, Before.contract, s) = Binding(After.index, After.contract, s)
<1> DEFINE row == [subject |-> s, binding |-> Binding(Before.index, Before.contract, s)]
<1>1. row \in BindingRows(Before) /\ row.subject = s
  BY DEF BindingRows
<1>2. row \in BindingRows(After)
  BY <1>1 DEF ChangedSubjects, Changed
<1>3. PICK t \in Bound(After.contract) :
        row = [subject |-> t, binding |-> Binding(After.index, After.contract, t)]
  BY <1>2 DEF BindingRows
<1>4. row.subject = t /\ row.binding = Binding(After.index, After.contract, t)
  BY <1>3
<1>5. QED BY <1>1, <1>4

LEMMA SameStructure ==
  ASSUME Localised, NEW s \in Bound(Before.contract), s \notin impact.seeds
  PROVE  Structure(Before, s) = Structure(After, s)
<1> DEFINE c == Before.contract
           m == Before.index
           n == After.index
<1>1. Comparable /\ After.contract = c /\ Resolvable(m, c) /\ Resolvable(n, c)
  BY DEF Localised, Comparable
<1>2. /\ s \notin ChangedSubjects
      /\ c.subjects[s].path \notin ChangedOccurrencePaths
      /\ <<Absent, c.subjects[s].symbol>> \notin ChangedSymbols
      /\ <<Absent, c.subjects[s].symbol>> \notin ChangedRelationSources
  BY UnseededIsUnchanged
<1>3. Binding(m, c, s) = Binding(n, c, s)
  BY <1>1, <1>2, SameBinding
<1>4. PICK x \in SymbolRows(m) : Information(m, c, s) = {x}
  BY <1>1, SubjectsResolved
<1>5. PICK y \in SymbolRows(n) : Information(n, c, s) = {y}
  BY <1>1, SubjectsResolved
<1>6. SymbolRow(m, x) = SymbolRow(n, y)
  BY <1>1, <1>2, <1>4, <1>5, SameDescription
<1>7. SymbolAt(m, x).relations = SymbolAt(n, y).relations
  BY <1>1, <1>2, <1>4, <1>5, SameRelations
<1>8. PathAt(m, x) = PathAt(n, y)
  BY <1>6 DEF SymbolRow
<1>9. \A e : e[1] = s => (e \in ObservedRelationships(m, c) <=> e \in ObservedRelationships(n, c))
  <2>1. SUFFICES ASSUME NEW e, e[1] = s, e \in Bound(c) \X RelationshipKinds \X Bound(c)
                 PROVE  e \in ObservedRelationships(m, c) <=> e \in ObservedRelationships(n, c)
    BY DEF ObservedRelationships
  <2>2. e \in ObservedRelationships(m, c) <=>
          \E r \in SymbolAt(m, x).relations :
            e[2] \in r.kinds /\ Key(r.target, PathAt(m, x)) = <<Absent, c.subjects[e[3]].symbol>>
    BY <1>4, <2>1 DEF ObservedRelationships
  <2>3. e \in ObservedRelationships(n, c) <=>
          \E r \in SymbolAt(n, y).relations :
            e[2] \in r.kinds /\ Key(r.target, PathAt(n, y)) = <<Absent, c.subjects[e[3]].symbol>>
    BY <1>5, <2>1 DEF ObservedRelationships
  <2>4. QED BY <1>7, <1>8, <2>2, <2>3
<1>10. \A e : e[1] = s => (e \in Observed(m, c) <=> e \in Observed(n, c))
  BY <1>1, <1>2, <1>9, SameReferences DEF Observed
<1>11. {e \in Observed(m, c) : e[1] = s} = {e \in Observed(n, c) : e[1] = s}
  BY <1>10
<1>12. {SymbolRow(m, z) : z \in Information(m, c, s)} = {SymbolRow(n, z) : z \in Information(n, c, s)}
  BY <1>4, <1>5, <1>6
<1>13. UNION {SymbolAt(m, z).relations : z \in Information(m, c, s)}
         = UNION {SymbolAt(n, z).relations : z \in Information(n, c, s)}
  BY <1>4, <1>5, <1>7
<1>14. QED BY <1>1, <1>3, <1>11, <1>12, <1>13 DEF Structure

\* What changed is named by a subject of the contract.
LEMMA ChangesAreOwned ==
  ASSUME Localised
  PROVE  /\ \A k \in ChangedSymbols \cup ChangedRelationSources :
              \E s \in Bound(Before.contract) : k = <<Absent, Before.contract.subjects[s].symbol>>
         /\ \A p \in ChangedInputs \cup ChangedDocuments :
              \E s \in Frozen(Before.contract) : p = Before.contract.subjects[s].path
<1> DEFINE c == Before.contract
<1>1. c \in ContractDocuments
  BY DEF Localised, Comparable, Resolvable
<1>2. ASSUME NEW k \in ChangedSymbols \cup ChangedRelationSources
      PROVE  \E s \in Bound(c) : k = <<Absent, c.subjects[s].symbol>>
  <2>1. PICK p, y : k = <<p, y>>
    BY <1>2 DEF ChangedSymbols, ChangedRelationSources, Changed, SymbolRowsOf, SymbolRow,
      RelationRows, KeyAt, Key
  <2>2. k \in Delta.places
    BY <1>2, <2>1, PlacesChanged
  <2>3. PICK s \in SubjectIds : k \in Places(c)[s]
    BY <2>2 DEF Localised
  <2>4. k # <<c.subjects[s].path>>
    BY <2>1, DocumentsAreNotSymbols
  <2>5. QED BY <1>1, <2>3, <2>4, PlacesOfSubjects
<1>3. ASSUME NEW p \in ChangedInputs \cup ChangedDocuments
      PROVE  \E s \in Frozen(c) : p = c.subjects[s].path
  <2>1. <<p>> \in Delta.places
    BY <1>3, PlacesChanged
  <2>2. PICK s \in SubjectIds : <<p>> \in Places(c)[s]
    BY <2>1 DEF Localised
  <2>3. s \in Frozen(c) /\ <<p>> = <<c.subjects[s].path>>
    BY <1>1, <2>2, PlacesOfSubjects, DocumentsAreNotSymbols
  <2>4. QED BY <2>3, DocumentsAreNotSymbols
<1>4. QED BY <1>2, <1>3

LEMMA SameRemainder ==
  ASSUME Localised
  PROVE  Remainder(Before) = Remainder(After)
<1> DEFINE c == Before.contract
           own == {<<Absent, c.subjects[s].symbol>> : s \in Bound(c)}
           places == {c.subjects[s].path : s \in Frozen(c)}
           rest(a) == DOMAIN a.index.inputs \ places
<1>1. After.contract = c
  BY DEF Localised, Comparable
<1>2. ChangedSymbols \cup ChangedRelationSources \subseteq own
  BY ChangesAreOwned
<1>3. ChangedInputs \cup ChangedDocuments \subseteq places
  BY ChangesAreOwned
<1>4. {r \in SymbolRowsOf(Before) : r.key \notin own} = {r \in SymbolRowsOf(After) : r.key \notin own}
  BY <1>2 DEF ChangedSymbols, Changed
<1>5. {r \in RelationRows(Before) : r.key \notin own} = {r \in RelationRows(After) : r.key \notin own}
  BY <1>2 DEF ChangedRelationSources, Changed
<1>6. {r \in DocumentRows(Before) : r.path \notin places} = {r \in DocumentRows(After) : r.path \notin places}
  BY <1>3 DEF ChangedDocuments, Changed
<1>7. {<<p, Before.index.inputs[p]>> : p \in rest(Before)} = {<<p, After.index.inputs[p]>> : p \in rest(After)}
  <2>1. \A p \in rest(Before) : p \in rest(After) /\ Before.index.inputs[p] = After.index.inputs[p]
    BY <1>3 DEF ChangedInputs
  <2>2. \A p \in rest(After) : p \in rest(Before) /\ Before.index.inputs[p] = After.index.inputs[p]
    BY <1>3 DEF ChangedInputs
  <2>3. QED BY <2>1, <2>2
<1>8. QED BY <1>1, <1>4, <1>5, <1>6, <1>7 DEF Remainder

LEMMA NoneUnseen ==
  ASSUME ComparisonInv
  PROVE  NoChangeIsUnseen
<1>1. ASSUME impact.state = "mapped"
      PROVE  /\ \A s \in Bound(Before.contract) \ impact.seeds : Structure(Before, s) = Structure(After, s)
             /\ Remainder(Before) = Remainder(After)
             /\ Before.contract = After.contract
  <2>1. Localised
    BY <1>1, MappedIsLocalised
  <2>2. QED BY <2>1, SameStructure, SameRemainder DEF Localised, Comparable
<1>2. QED BY <1>1 DEF NoChangeIsUnseen

\* For every pair of admissible messages: what an accepted difference does not
\* seed is as it was, in its binding, its edges, its rows and its relations,
\* and so is all that belongs to no subject (compare_scip_admissions).
THEOREM NoChangeIsEverUnseen == ComparisonSpec => []NoChangeIsUnseen
BY ComparisonInvariant, NoneUnseen, PTL

-----------------------------------------------------------------------------
(* The loops of _close_impact.                                             *)

Triples == [subjects : SUBSET Subjects, obligations : SUBSET Obligations, works : SUBSET WorkItems]

Within(x, y) ==
  /\ x.subjects \subseteq y.subjects
  /\ x.obligations \subseteq y.obligations
  /\ x.works \subseteq y.works

Input == contract \in Contracts /\ delta \in Deltas

\* What is known of the input.
LEMMA InputTyped ==
  ASSUME Input
  PROVE  /\ contract.edges \subseteq Subjects \X Subjects
         /\ contract.bound \in [Obligations -> SUBSET Subjects]
         /\ contract.work \in [Obligations -> WorkItems]
         /\ contract.composition \subseteq Obligations
         /\ contract.parent \in [WorkItems -> WorkItems \cup {None}]
         /\ contract.depends \in [WorkItems -> SUBSET WorkItems]
         /\ Seeds \subseteq Subjects
<1>1. delta.subjects \subseteq Subjects
  BY DeltasAssumption DEF Input
<1>2. Seeds \subseteq Subjects
  BY <1>1 DEF Seeds
<1>3. QED BY <1>2, ContractsAssumption DEF Input

-----------------------------------------------------------------------------
(* Sets that the rules do not lead out of.                                 *)

ClosedUnder(S, O, W) ==
  /\ Seeds \subseteq S
  /\ \A e \in contract.edges : e[2] \in S => e[1] \in S
  /\ \A o \in Obligations : contract.bound[o] \cap S # {} => o \in O /\ contract.work[o] \in W
  /\ \A w \in WorkItems : contract.depends[w] \cap W # {} =>
       /\ w \in W
       /\ OwnedBy(w) \subseteq O
       /\ \A o \in OwnedBy(w) \ contract.composition : contract.bound[o] \subseteq S
  /\ \A w \in W : contract.parent[w] # None =>
       contract.parent[w] \in W /\ CompositionsOf(contract.parent[w]) \subseteq O

LEMMA ImpliedGrows ==
  ASSUME Input, NEW x \in Triples
  PROVE  Implied(x) \in Triples /\ Within(x, Implied(x))
<1> DEFINE bound == {o \in Obligations : contract.bound[o] \cap x.subjects # {}}
           dependents == {w \in WorkItems : contract.depends[w] \cap x.works # {}}
           owned == UNION {OwnedBy(w) : w \in dependents}
           parents == {contract.parent[w] : w \in x.works} \ {None}
           S == x.subjects
                  \cup {s \in Subjects : \E t \in x.subjects : <<s, t>> \in contract.edges}
                  \cup UNION {contract.bound[o] : o \in owned \ contract.composition}
           O == x.obligations \cup bound \cup owned
                  \cup UNION {CompositionsOf(p) : p \in parents}
           W == x.works \cup {contract.work[o] : o \in bound} \cup dependents \cup parents
<1>1. Implied(x) = [subjects |-> S, obligations |-> O, works |-> W]
  BY Zenon DEF Implied
<1>2. x.subjects \subseteq Subjects /\ x.obligations \subseteq Obligations /\ x.works \subseteq WorkItems
  BY DEF Triples
<1>3. owned \subseteq Obligations
  BY DEF OwnedBy
<1>4. S \subseteq Subjects
  BY <1>2, <1>3, InputTyped
<1>5. O \subseteq Obligations
  <2>1. \A p : CompositionsOf(p) \subseteq Obligations
    BY InputTyped DEF CompositionsOf, OwnedBy
  <2>2. QED BY <1>2, <1>3, <2>1
<1>6. W \subseteq WorkItems
  BY <1>2, InputTyped
<1>7. x.subjects \subseteq S /\ x.obligations \subseteq O /\ x.works \subseteq W
  OBVIOUS
<1> HIDE DEF S, O, W
<1>8. QED BY <1>1, <1>4, <1>5, <1>6, <1>7 DEF Triples, Within

LEMMA FixpointIsClosed ==
  ASSUME Input, NEW x \in Triples, Implied(x) = x, Seeds \subseteq x.subjects
  PROVE  ClosedUnder(x.subjects, x.obligations, x.works)
<1> DEFINE bound == {o \in Obligations : contract.bound[o] \cap x.subjects # {}}
           dependents == {w \in WorkItems : contract.depends[w] \cap x.works # {}}
           owned == UNION {OwnedBy(w) : w \in dependents}
           parents == {contract.parent[w] : w \in x.works} \ {None}
           S == x.subjects
                  \cup {s \in Subjects : \E t \in x.subjects : <<s, t>> \in contract.edges}
                  \cup UNION {contract.bound[o] : o \in owned \ contract.composition}
           O == x.obligations \cup bound \cup owned
                  \cup UNION {CompositionsOf(p) : p \in parents}
           W == x.works \cup {contract.work[o] : o \in bound} \cup dependents \cup parents
<1>1. Implied(x) = [subjects |-> S, obligations |-> O, works |-> W]
  BY Zenon DEF Implied
<1>2. x.subjects = S /\ x.obligations = O /\ x.works = W
  <2> HIDE DEF S, O, W
  <2>1. QED BY <1>1
<1>3. \A e \in contract.edges : e[2] \in x.subjects => e[1] \in x.subjects
  <2> SUFFICES ASSUME NEW e \in contract.edges, e[2] \in x.subjects PROVE e[1] \in S
    BY <1>2
  <2>1. e[1] \in Subjects /\ e = <<e[1], e[2]>>
    BY InputTyped
  <2>2. QED BY <2>1
<1>4. \A o \in Obligations : contract.bound[o] \cap x.subjects # {} =>
        o \in x.obligations /\ contract.work[o] \in x.works
  <2> SUFFICES ASSUME NEW o \in Obligations, contract.bound[o] \cap x.subjects # {}
               PROVE  o \in O /\ contract.work[o] \in W
    BY <1>2
  <2>1. o \in bound
    OBVIOUS
  <2>2. QED BY <2>1
<1>5. \A w \in WorkItems : contract.depends[w] \cap x.works # {} =>
        /\ w \in x.works
        /\ OwnedBy(w) \subseteq x.obligations
        /\ \A o \in OwnedBy(w) \ contract.composition : contract.bound[o] \subseteq x.subjects
  <2> SUFFICES ASSUME NEW w \in WorkItems, contract.depends[w] \cap x.works # {}
               PROVE  /\ w \in W
                      /\ OwnedBy(w) \subseteq O
                      /\ \A o \in OwnedBy(w) \ contract.composition : contract.bound[o] \subseteq S
    BY <1>2
  <2>1. w \in dependents
    OBVIOUS
  <2>2. OwnedBy(w) \subseteq owned
    BY <2>1
  <2>3. QED BY <2>1, <2>2
<1>6. \A w \in x.works : contract.parent[w] # None =>
        contract.parent[w] \in x.works /\ CompositionsOf(contract.parent[w]) \subseteq x.obligations
  <2> SUFFICES ASSUME NEW w \in x.works, contract.parent[w] # None
               PROVE  contract.parent[w] \in W /\ CompositionsOf(contract.parent[w]) \subseteq O
    BY <1>2
  <2>1. contract.parent[w] \in parents
    OBVIOUS
  <2>2. CompositionsOf(contract.parent[w]) \subseteq UNION {CompositionsOf(p) : p \in parents}
    BY <2>1
  <2>3. QED BY <2>1, <2>2
<1>7. QED BY <1>3, <1>4, <1>5, <1>6 DEF ClosedUnder

\* One application of the rules stays within any closed set.
LEMMA ImpliedStaysWithin ==
  ASSUME Input, NEW x \in Triples, NEW y \in Triples, Within(x, y),
         ClosedUnder(y.subjects, y.obligations, y.works)
  PROVE  Within(Implied(x), y)
<1> DEFINE bound == {o \in Obligations : contract.bound[o] \cap x.subjects # {}}
           dependents == {w \in WorkItems : contract.depends[w] \cap x.works # {}}
           owned == UNION {OwnedBy(w) : w \in dependents}
           parents == {contract.parent[w] : w \in x.works} \ {None}
           S == x.subjects
                  \cup {s \in Subjects : \E t \in x.subjects : <<s, t>> \in contract.edges}
                  \cup UNION {contract.bound[o] : o \in owned \ contract.composition}
           O == x.obligations \cup bound \cup owned
                  \cup UNION {CompositionsOf(p) : p \in parents}
           W == x.works \cup {contract.work[o] : o \in bound} \cup dependents \cup parents
<1>1. Implied(x) = [subjects |-> S, obligations |-> O, works |-> W]
  BY Zenon DEF Implied
<1>2. /\ x.subjects \subseteq y.subjects /\ x.obligations \subseteq y.obligations
      /\ x.works \subseteq y.works /\ x.works \subseteq WorkItems
  BY DEF Within, Triples
<1>3. \A o \in bound : o \in y.obligations /\ contract.work[o] \in y.works
  BY <1>2 DEF ClosedUnder
<1>4. \A w \in dependents :
        /\ w \in y.works
        /\ OwnedBy(w) \subseteq y.obligations
        /\ \A o \in OwnedBy(w) \ contract.composition : contract.bound[o] \subseteq y.subjects
  BY <1>2 DEF ClosedUnder
<1>5. \A p \in parents : p \in y.works /\ CompositionsOf(p) \subseteq y.obligations
  BY <1>2 DEF ClosedUnder
<1>6. S \subseteq y.subjects
  <2>1. \A s \in Subjects, t \in x.subjects : <<s, t>> \in contract.edges => s \in y.subjects
    <3> SUFFICES ASSUME NEW s \in Subjects, NEW t \in x.subjects, <<s, t>> \in contract.edges
                 PROVE  s \in y.subjects
      OBVIOUS
    <3> DEFINE e == <<s, t>>
    <3>1. e \in contract.edges /\ e[1] = s /\ e[2] = t /\ t \in y.subjects
      BY <1>2
    <3> HIDE DEF e
    <3>2. QED BY <3>1 DEF ClosedUnder
  <2>2. \A o \in owned \ contract.composition : contract.bound[o] \subseteq y.subjects
    BY <1>4
  <2>3. QED BY <1>2, <2>1, <2>2
<1>7. O \subseteq y.obligations
  BY <1>2, <1>3, <1>4, <1>5
<1>8. W \subseteq y.works
  BY <1>2, <1>3, <1>4, <1>5
<1> HIDE DEF S, O, W
<1>9. QED BY <1>1, <1>6, <1>7, <1>8 DEF Within
-----------------------------------------------------------------------------
(* Closure is the least closed set.                                        *)

\* The repetition of the rules exists, for any number of times.
LEMMA RepetitionExists ==
  ASSUME NEW N \in Nat
  PROVE  \E r : r = [n \in 0 .. N |-> IF n = 0 THEN Start ELSE Implied(r[n - 1])]
<1> DEFINE T == {k \in Nat :
                   ~\E r : r = [n \in 0 .. k |-> IF n = 0 THEN Start ELSE Implied(r[n - 1])]}
<1>1. SUFFICES ASSUME T # {} PROVE FALSE
  BY Zenon
<1>2. PICK k \in T : \A m \in T : ~(m < k)
  <2>1. T \in SUBSET Nat
    OBVIOUS
  <2> HIDE DEF T
  <2>2. QED BY <1>1, <2>1, LeastNumber, Zenon
<1>3. k \in Nat
  OBVIOUS
<1>4. CASE k = 0
  <2> DEFINE r == [n \in 0 .. 0 |-> Start]
  <2>1. r = [n \in 0 .. 0 |-> IF n = 0 THEN Start ELSE Implied(r[n - 1])]
    OBVIOUS
  <2>2. QED BY <1>4, <2>1, Zenon
<1>5. CASE k # 0
  <2>1. k - 1 \in Nat /\ k - 1 < k
    BY <1>3, <1>5
  <2>2. k - 1 \notin T
    <3> HIDE DEF T
    <3>1. QED BY <1>2, <2>1
  <2>3. PICK r : r = [n \in 0 .. (k - 1) |-> IF n = 0 THEN Start ELSE Implied(r[n - 1])]
    BY <2>1, <2>2, Zenon
  <2> DEFINE q == [n \in 0 .. k |-> IF n = k THEN Implied(r[k - 1]) ELSE r[n]]
  <2>4. ASSUME NEW n \in 0 .. k
        PROVE  q[n] = IF n = 0 THEN Start ELSE Implied(q[n - 1])
    <3>1. CASE n = 0
      <4>1. q[n] = r[0]
        BY <3>1, <1>3, <1>5
      <4>2. r[0] = Start
        BY <2>1, <2>3
      <4>3. QED BY <3>1, <4>1, <4>2
    <3>2. CASE n = k
      <4>1. q[n] = Implied(r[k - 1])
        BY <3>2, <1>3
      <4>2. q[n - 1] = r[k - 1]
        BY <3>2, <2>1, <1>3
      <4>3. QED BY <3>2, <1>5, <4>1, <4>2, Zenon
    <3>3. CASE n # 0 /\ n # k
      <4>1. n \in 0 .. (k - 1) /\ n - 1 \in 0 .. k /\ n - 1 # k
        BY <3>3, <1>3
      <4>2. q[n] = r[n] /\ q[n - 1] = r[n - 1]
        BY <3>3, <4>1
      <4>3. r[n] = Implied(r[n - 1])
        BY <2>3, <4>1, <3>3
      <4>4. QED BY <3>3, <4>2, <4>3, Zenon
    <3>4. QED BY <3>1, <3>2, <3>3
  <2>5. q = [n \in 0 .. k |-> IF n = 0 THEN Start ELSE Implied(q[n - 1])]
    <3>1. q = [n \in 0 .. k |-> q[n]]
      OBVIOUS
    <3> HIDE DEF q
    <3>2. QED BY <3>1, <2>4
  <2> HIDE DEF q
  <2>6. \E x : x = [n \in 0 .. k |-> IF n = 0 THEN Start ELSE Implied(x[n - 1])]
    BY <2>5, Zenon
  <2>7. QED BY <1>2, <2>6, Zenon
<1>6. QED BY <1>4, <1>5

LEMMA SizeIsNatural == Size \in Nat
BY ContractsAssumption, FS_CardinalityType DEF Size

\* Closure is the last of Size + 1 sets, each what the rules make of the one
\* before.
LEMMA ClosureIsRepetition ==
  \E r : /\ r[0] = Start
         /\ \A n \in 1 .. Size : r[n] = Implied(r[n - 1])
         /\ Closure = r[Size]
<1> DEFINE r[n \in 0 .. Size] == IF n = 0 THEN Start ELSE Implied(r[n - 1])
<1>1. r = [n \in 0 .. Size |-> IF n = 0 THEN Start ELSE Implied(r[n - 1])]
  BY RepetitionExists, SizeIsNatural, Zenon
<1>2. Closure = r[Size]
  BY Zenon DEF Closure
<1> HIDE DEF r
<1>3. r[0] = Start
  BY <1>1, SizeIsNatural
<1>4. ASSUME NEW n \in 1 .. Size PROVE r[n] = Implied(r[n - 1])
  <2>1. n \in 0 .. Size /\ n # 0
    BY SizeIsNatural
  <2>2. QED BY <1>1, <2>1
<1>5. QED BY <1>2, <1>3, <1>4

Count(x) == Cardinality(x.subjects) + Cardinality(x.obligations) + Cardinality(x.works)

LEMMA CountGrows ==
  ASSUME NEW x \in Triples, NEW y \in Triples, Within(x, y)
  PROVE  /\ Count(x) \in Nat /\ Count(y) \in Nat
         /\ Count(x) <= Count(y)
         /\ Count(x) = Count(y) => x = y
<1> DEFINE a1 == x.subjects  b1 == y.subjects
           a2 == x.obligations  b2 == y.obligations
           a3 == x.works  b3 == y.works
<1>1. /\ b1 \in SUBSET Subjects /\ b2 \in SUBSET Obligations /\ b3 \in SUBSET WorkItems
      /\ a1 \in SUBSET b1 /\ a2 \in SUBSET b2 /\ a3 \in SUBSET b3
  BY DEF Triples, Within
<1>2. x = [subjects |-> a1, obligations |-> a2, works |-> a3]
      /\ y = [subjects |-> b1, obligations |-> b2, works |-> b3]
  BY DEF Triples
<1>3. Count(x) = Cardinality(a1) + Cardinality(a2) + Cardinality(a3)
      /\ Count(y) = Cardinality(b1) + Cardinality(b2) + Cardinality(b3)
  BY Zenon DEF Count
<1> HIDE DEF a1, a2, a3, b1, b2, b3
<1>4. IsFiniteSet(b1) /\ IsFiniteSet(b2) /\ IsFiniteSet(b3)
  BY <1>1, ContractsAssumption, FS_Subset
<1>5. IsFiniteSet(a1) /\ IsFiniteSet(a2) /\ IsFiniteSet(a3)
  BY <1>1, <1>4, FS_Subset
<1>6. /\ Cardinality(a1) \in Nat /\ Cardinality(a2) \in Nat /\ Cardinality(a3) \in Nat
      /\ Cardinality(b1) \in Nat /\ Cardinality(b2) \in Nat /\ Cardinality(b3) \in Nat
  BY <1>4, <1>5, FS_CardinalityType
<1>7. /\ Cardinality(a1) <= Cardinality(b1) /\ (Cardinality(b1) = Cardinality(a1) => b1 = a1)
      /\ Cardinality(a2) <= Cardinality(b2) /\ (Cardinality(b2) = Cardinality(a2) => b2 = a2)
      /\ Cardinality(a3) <= Cardinality(b3) /\ (Cardinality(b3) = Cardinality(a3) => b3 = a3)
  BY <1>1, <1>4, FS_Subset
<1>8. QED BY <1>2, <1>3, <1>6, <1>7
\* Induction up to a bound, over a set of numbers.
LEMMA UpTo ==
  ASSUME NEW N \in Nat, NEW P, 0 \in P, \A n \in 1 .. N : n - 1 \in P => n \in P
  PROVE  \A n \in 0 .. N : n \in P
<1> DEFINE T == {n \in 0 .. N : n \notin P}
<1>1. SUFFICES ASSUME T # {} PROVE FALSE
  OBVIOUS
<1>2. T \in SUBSET Nat
  OBVIOUS
<1>3. PICK k \in T : \A m \in T : ~(m < k)
  <2> HIDE DEF T
  <2>1. QED BY <1>1, <1>2, LeastNumber
<1>4. k \in 1 .. N /\ k - 1 \in 0 .. N /\ k - 1 < k /\ k \notin P
  BY <1>3
<1>5. k - 1 \in P
  BY <1>3, <1>4
<1>6. QED BY <1>4, <1>5

LEMMA StartIsTriple ==
  ASSUME Input
  PROVE  Start \in Triples /\ Seeds \subseteq Start.subjects
BY InputTyped DEF Start, Triples

LEMMA WithinBothIsEqual ==
  ASSUME NEW x \in Triples, NEW y \in Triples, Within(x, y), Within(y, x)
  PROVE  x = y
<1>1. x = [subjects |-> x.subjects, obligations |-> x.obligations, works |-> x.works]
  BY DEF Triples
<1>2. y = [subjects |-> y.subjects, obligations |-> y.obligations, works |-> y.works]
  BY DEF Triples
<1>3. x.subjects = y.subjects /\ x.obligations = y.obligations /\ x.works = y.works
  BY DEF Within
<1>4. QED BY <1>1, <1>2, <1>3

\* Full sets cannot grow.
LEMMA FullIsFixpoint ==
  ASSUME Input, NEW x \in Triples, Count(x) >= Size
  PROVE  Implied(x) = x
<1> DEFINE full == [subjects |-> Subjects, obligations |-> Obligations, works |-> WorkItems]
<1>1. full \in Triples
  BY DEF Triples
<1>2. \A y \in Triples : Within(y, full)
  BY DEF Triples, Within
<1>3. Count(full) = Size
  BY DEF Count, Size
<1> HIDE DEF full
<1>4. x = full
  BY <1>1, <1>2, <1>3, CountGrows, SizeIsNatural
<1>5. Implied(x) \in Triples /\ Within(x, Implied(x))
  BY ImpliedGrows
<1>6. Within(Implied(x), x)
  BY <1>2, <1>4, <1>5
<1>7. QED BY <1>5, <1>6, WithinBothIsEqual

LEMMA ClosureIsFixpoint ==
  ASSUME Input
  PROVE  /\ Closure \in Triples
         /\ Seeds \subseteq Closure.subjects
         /\ Implied(Closure) = Closure
<1>1. PICK r : /\ r[0] = Start
               /\ \A n \in 1 .. Size : r[n] = Implied(r[n - 1])
               /\ Closure = r[Size]
  BY ClosureIsRepetition
<1>2. \A n \in 0 .. Size : r[n] \in Triples /\ Seeds \subseteq r[n].subjects
  <2> DEFINE P == {n \in 0 .. Size : r[n] \in Triples /\ Seeds \subseteq r[n].subjects}
  <2>1. 0 \in P
    BY <1>1, StartIsTriple, SizeIsNatural
  <2>2. ASSUME NEW n \in 1 .. Size, n - 1 \in P PROVE n \in P
    <3>1. r[n - 1] \in Triples /\ Seeds \subseteq r[n - 1].subjects /\ r[n] = Implied(r[n - 1])
      BY <1>1, <2>2
    <3>2. r[n] \in Triples /\ Within(r[n - 1], r[n])
      BY <3>1, ImpliedGrows
    <3>3. Seeds \subseteq r[n].subjects
      BY <3>1, <3>2 DEF Within
    <3>4. n \in 0 .. Size
      BY <2>2, SizeIsNatural
    <3>5. QED BY <3>2, <3>3, <3>4
  <2>3. \A n \in 0 .. Size : n \in P
    <3> HIDE DEF P
    <3>1. QED BY <2>1, <2>2, UpTo, SizeIsNatural
  <2>4. QED BY <2>3
<1>3. \A n \in 0 .. Size : Implied(r[n]) = r[n] \/ Count(r[n]) >= n
  <2> DEFINE P == {n \in 0 .. Size : Implied(r[n]) = r[n] \/ Count(r[n]) >= n}
  <2>0. ASSUME NEW n \in 0 .. Size PROVE Count(r[n]) \in Nat
    <3>1. r[n] \in Triples /\ Within(r[n], r[n])
      BY <1>2 DEF Within
    <3>2. QED BY <3>1, CountGrows
  <2>1. 0 \in P
    <3>1. 0 \in 0 .. Size
      BY SizeIsNatural
    <3>2. QED BY <3>1, <2>0
  <2>2. ASSUME NEW n \in 1 .. Size, n - 1 \in P PROVE n \in P
    <3>1. n \in 0 .. Size /\ n - 1 \in 0 .. Size /\ n \in Int
      BY SizeIsNatural
    <3>2. r[n] = Implied(r[n - 1]) /\ r[n - 1] \in Triples /\ r[n] \in Triples
      BY <1>1, <1>2, <3>1
    <3>3. CASE Implied(r[n - 1]) = r[n - 1]
      BY <3>1, <3>2, <3>3
    <3>4. CASE Implied(r[n - 1]) # r[n - 1] /\ Count(r[n - 1]) >= n - 1
      <4>1. Within(r[n - 1], r[n])
        BY <3>2, ImpliedGrows
      <4>2. Count(r[n - 1]) <= Count(r[n]) /\ Count(r[n - 1]) # Count(r[n])
        BY <4>1, <3>2, <3>4, CountGrows
      <4>3. Count(r[n - 1]) \in Nat /\ Count(r[n]) \in Nat
        BY <2>0, <3>1
      <4>4. Count(r[n]) >= n
        BY <4>2, <4>3, <3>1, <3>4
      <4>5. QED BY <3>1, <4>4
    <3>5. QED BY <2>2, <3>3, <3>4
  <2>3. \A n \in 0 .. Size : n \in P
    <3> HIDE DEF P
    <3>1. QED BY <2>1, <2>2, UpTo, SizeIsNatural
  <2>4. QED BY <2>3
<1>4. Size \in 0 .. Size
  BY SizeIsNatural
<1>5. Implied(r[Size]) = r[Size]
  <2>1. CASE Count(r[Size]) >= Size
    BY <2>1, <1>2, <1>4, FullIsFixpoint
  <2>2. QED BY <2>1, <1>3, <1>4
<1>6. QED BY <1>1, <1>2, <1>4, <1>5

\* The closure satisfies the rules, and lies within whatever does.
LEMMA ClosureIsClosed ==
  ASSUME Input
  PROVE  ClosedUnder(Closure.subjects, Closure.obligations, Closure.works)
BY ClosureIsFixpoint, FixpointIsClosed

LEMMA ClosureIsLeast ==
  ASSUME Input, NEW y \in Triples, ClosedUnder(y.subjects, y.obligations, y.works)
  PROVE  Within(Closure, y)
<1>1. PICK r : /\ r[0] = Start
               /\ \A n \in 1 .. Size : r[n] = Implied(r[n - 1])
               /\ Closure = r[Size]
  BY ClosureIsRepetition
<1> DEFINE P == {n \in 0 .. Size : r[n] \in Triples /\ Within(r[n], y)}
<1>2. 0 \in P
  <2>1. Within(Start, y)
    BY DEF Start, Within, ClosedUnder
  <2>2. QED BY <1>1, <2>1, StartIsTriple, SizeIsNatural
<1>3. ASSUME NEW n \in 1 .. Size, n - 1 \in P PROVE n \in P
  <2>1. r[n - 1] \in Triples /\ Within(r[n - 1], y) /\ r[n] = Implied(r[n - 1])
    BY <1>1, <1>3
  <2>2. r[n] \in Triples
    BY <2>1, ImpliedGrows
  <2>3. Within(r[n], y)
    BY <2>1, ImpliedStaysWithin
  <2>4. n \in 0 .. Size
    BY <1>3, SizeIsNatural
  <2>5. QED BY <2>2, <2>3, <2>4
<1>4. \A n \in 0 .. Size : n \in P
  <2> HIDE DEF P
  <2>1. QED BY <1>2, <1>3, UpTo, SizeIsNatural
<1>5. Size \in 0 .. Size
  BY SizeIsNatural
<1>6. QED BY <1>1, <1>4, <1>5
-----------------------------------------------------------------------------
(* The state of the loops.                                                 *)

InputNow == contract \in Contracts /\ delta \in Deltas

Running == phase \in {"edges", "obligations", "dependents", "parents", "done"}

\* What the loops have found is typed; owners of affected obligations are
\* affected.
Found ==
  /\ subjects \subseteq Subjects
  /\ obligations \subseteq Obligations
  /\ works \subseteq WorkItems
  /\ \A o \in obligations : contract.work[o] \in works

Loops ==
  /\ phase \in {"load", "rejected", "edges", "obligations", "dependents", "parents", "done"}
  /\ changed \in BOOLEAN
  /\ phase \in {"load", "rejected"} => subjects = {} /\ obligations = {} /\ works = {} /\ ~changed
  /\ todo \subseteq CASE phase = "edges" -> contract.edges
                     [] phase = "obligations" -> Obligations
                     [] phase = "dependents" -> WorkItems
                     [] phase \in {"parents", "done"} -> works
                     [] OTHER -> {}

EdgesDone == \A e \in contract.edges : ~EdgeApplies(e)
ObligationsDone == \A o \in Obligations : ~ObligationApplies(o)
DependentsDone == \A w \in WorkItems : ~DependentApplies(w)
ParentsDone == \A w \in works : ~ParentApplies(w)

\* A pass that has changed nothing has looked at everything so far.
Pass ==
  /\ phase = "edges" /\ ~changed => todo = contract.edges
  /\ phase = "obligations" /\ ~changed => todo = Obligations /\ EdgesDone
  /\ phase = "dependents" /\ ~changed => todo = WorkItems /\ EdgesDone /\ ObligationsDone
  /\ phase = "parents" /\ ~changed =>
       todo = works /\ EdgesDone /\ ObligationsDone /\ DependentsDone
  /\ phase = "done" => EdgesDone /\ ObligationsDone /\ DependentsDone /\ ParentsDone

\* The seeds are affected, and whatever is affected is in every closed set.
Least ==
  Running =>
    /\ Seeds \subseteq subjects
    /\ \A S \in SUBSET Subjects, O \in SUBSET Obligations, W \in SUBSET WorkItems :
         ClosedUnder(S, O, W) => subjects \subseteq S /\ obligations \subseteq O /\ works \subseteq W

IInv == InputNow /\ Found /\ Loops /\ Pass /\ Least
LEMMA InputFixed ==
  ASSUME contract' = contract, delta' = delta
  PROVE  /\ Seeds' = Seeds
         /\ \A S, O, W : ClosedUnder(S, O, W)' <=> ClosedUnder(S, O, W)
BY DEF Seeds, ClosedUnder, OwnedBy, CompositionsOf

LEMMA EdgeApplied ==
  ASSUME NEW e \in contract.edges, Edge(e)
  PROVE  /\ phase = "edges" /\ e \in todo /\ e[2] \in subjects
         /\ subjects' = subjects \cup {e[1]} /\ todo' \subseteq todo /\ changed' = TRUE
         /\ UNCHANGED <<contract, delta, phase, obligations, works>>
BY DEF Edge, IsNext, Later, EdgeApplies, EdgeBefore, input

LEMMA BindApplied ==
  ASSUME NEW o \in Obligations, Bind(o)
  PROVE  /\ phase = "obligations" /\ o \in todo /\ contract.bound[o] \cap subjects # {}
         /\ obligations' = obligations \cup {o} /\ works' = works \cup {contract.work[o]}
         /\ todo' \subseteq todo /\ changed' = TRUE
         /\ UNCHANGED <<contract, delta, phase, subjects>>
BY DEF Bind, IsNext, Later, ObligationApplies, input

LEMMA DependApplied ==
  ASSUME NEW w \in WorkItems, Depend(w)
  PROVE  /\ phase = "dependents" /\ w \in todo /\ contract.depends[w] \cap works # {}
         /\ works' = works \cup {w} /\ obligations' = obligations \cup OwnedBy(w)
         /\ subjects' = subjects \cup
              UNION {contract.bound[o] : o \in OwnedBy(w) \ contract.composition}
         /\ todo' \subseteq todo /\ changed' = TRUE
         /\ UNCHANGED <<contract, delta, phase>>
BY DEF Depend, IsNext, Later, DependentApplies, input

LEMMA AscendApplied ==
  ASSUME NEW w \in WorkItems, Ascend(w)
  PROVE  /\ phase = "parents" /\ w \in todo /\ contract.parent[w] # None
         /\ works' = works \cup {contract.parent[w]}
         /\ obligations' = obligations \cup CompositionsOf(contract.parent[w])
         /\ todo' \subseteq todo /\ changed' = TRUE
         /\ UNCHANGED <<contract, delta, phase, subjects>>
BY DEF Ascend, ParentApplies, input
\* What a loop adds keeps the invariant if it is typed, brings owners with
\* it and lies in every closed set.
LEMMA Extended ==
  ASSUME IInv, UNCHANGED <<contract, delta, phase>>,
         phase \in {"edges", "obligations", "dependents", "parents"},
         todo' \subseteq todo, changed' = TRUE, Found',
         subjects \subseteq subjects', works \subseteq works',
         \A S \in SUBSET Subjects, O \in SUBSET Obligations, W \in SUBSET WorkItems :
           ClosedUnder(S, O, W) /\ subjects \subseteq S /\ obligations \subseteq O /\ works \subseteq W
             => subjects' \subseteq S /\ obligations' \subseteq O /\ works' \subseteq W
  PROVE  IInv'
<1>1. InputNow'
  BY DEF IInv, InputNow
<1>2. Loops'
  BY DEF IInv, Loops
<1>3. Pass'
  BY DEF Pass
<1>4. Least'
  <2>1. Seeds' \subseteq subjects'
    BY InputFixed DEF IInv, Least, Running
  <2>2. ASSUME NEW S \in SUBSET Subjects, NEW O \in SUBSET Obligations, NEW W \in SUBSET WorkItems,
               ClosedUnder(S, O, W)'
        PROVE  subjects' \subseteq S /\ obligations' \subseteq O /\ works' \subseteq W
    <3>1. ClosedUnder(S, O, W)
      BY <2>2, InputFixed
    <3>2. subjects \subseteq S /\ obligations \subseteq O /\ works \subseteq W
      BY <3>1 DEF IInv, Least, Running
    <3>3. QED BY <3>1, <3>2
  <2>3. QED BY <2>1, <2>2 DEF Least
<1>5. QED BY <1>1, <1>2, <1>3, <1>4 DEF IInv

LEMMA EdgeKeeps == ASSUME IInv, NEW e \in contract.edges, Edge(e) PROVE IInv'
<1> USE EdgeApplied
<1>1. e[1] \in Subjects
  BY InputTyped DEF IInv, InputNow, Input
<1>2. Found'
  BY <1>1 DEF IInv, Found
<1>3. ASSUME NEW S, NEW O, NEW W, ClosedUnder(S, O, W), subjects \subseteq S,
             obligations \subseteq O, works \subseteq W
      PROVE  subjects' \subseteq S /\ obligations' \subseteq O /\ works' \subseteq W
  BY <1>3 DEF ClosedUnder
<1>4. QED BY <1>2, <1>3, Extended

LEMMA BindKeeps == ASSUME IInv, NEW o \in Obligations, Bind(o) PROVE IInv'
<1>0. /\ phase = "obligations" /\ contract.bound[o] \cap subjects # {}
      /\ obligations' = obligations \cup {o} /\ works' = works \cup {contract.work[o]}
      /\ todo' \subseteq todo /\ changed' = TRUE
      /\ UNCHANGED <<contract, delta, phase, subjects>>
  BY BindApplied
<1>1. contract.work[o] \in WorkItems
  BY InputTyped DEF IInv, InputNow, Input
<1>2. Found'
  BY <1>0, <1>1 DEF IInv, Found
<1>3. ASSUME NEW S, NEW O, NEW W, ClosedUnder(S, O, W), subjects \subseteq S,
             obligations \subseteq O, works \subseteq W
      PROVE  subjects' \subseteq S /\ obligations' \subseteq O /\ works' \subseteq W
  <2>1. contract.bound[o] \cap S # {}
    BY <1>0, <1>3
  <2>2. o \in O /\ contract.work[o] \in W
    BY <1>3, <2>1 DEF ClosedUnder
  <2>3. QED BY <1>0, <1>3, <2>2
<1>4. QED BY <1>0, <1>2, <1>3, Extended

LEMMA DependKeeps == ASSUME IInv, NEW w \in WorkItems, Depend(w) PROVE IInv'
<1> DEFINE U == UNION {contract.bound[o] : o \in OwnedBy(w) \ contract.composition}
<1>0. /\ phase = "dependents" /\ contract.depends[w] \cap works # {}
      /\ works' = works \cup {w} /\ obligations' = obligations \cup OwnedBy(w)
      /\ subjects' = subjects \cup U
      /\ todo' \subseteq todo /\ changed' = TRUE
      /\ UNCHANGED <<contract, delta, phase>>
  BY DependApplied
<1>1. \A o \in Obligations : contract.bound[o] \subseteq Subjects
  BY InputTyped DEF IInv, InputNow, Input
<1>2. Found'
  <2>1. U \subseteq Subjects /\ OwnedBy(w) \subseteq Obligations
    BY <1>1 DEF OwnedBy
  <2>2. \A o \in OwnedBy(w) : contract.work[o] = w
    BY DEF OwnedBy
  <2> HIDE DEF U
  <2>3. QED BY <1>0, <2>1, <2>2 DEF IInv, Found
<1>3. ASSUME NEW S, NEW O, NEW W, ClosedUnder(S, O, W), subjects \subseteq S,
             obligations \subseteq O, works \subseteq W
      PROVE  subjects' \subseteq S /\ obligations' \subseteq O /\ works' \subseteq W
  <2>1. contract.depends[w] \cap W # {}
    BY <1>0, <1>3
  <2>2. /\ w \in W /\ OwnedBy(w) \subseteq O
        /\ \A o \in OwnedBy(w) \ contract.composition : contract.bound[o] \subseteq S
    BY <1>3, <2>1 DEF ClosedUnder
  <2>3. QED BY <1>0, <1>3, <2>2
<1> HIDE DEF U
<1>4. QED BY <1>0, <1>2, <1>3, Extended

LEMMA AscendKeeps == ASSUME IInv, NEW w \in WorkItems, Ascend(w) PROVE IInv'
<1> DEFINE p == contract.parent[w]
<1>0. /\ phase = "parents" /\ w \in todo /\ p # None
      /\ works' = works \cup {p} /\ obligations' = obligations \cup CompositionsOf(p)
      /\ todo' \subseteq todo /\ changed' = TRUE
      /\ UNCHANGED <<contract, delta, phase, subjects>>
  BY AscendApplied
<1>1. p \in WorkItems
  BY <1>0, InputTyped DEF IInv, InputNow, Input
<1>2. w \in works
  BY <1>0 DEF IInv, Loops
<1>3. Found'
  <2>1. CompositionsOf(p) \subseteq Obligations /\ \A o \in CompositionsOf(p) : contract.work[o] = p
    BY DEF CompositionsOf, OwnedBy
  <2> HIDE DEF p
  <2>2. QED BY <1>0, <1>1, <2>1 DEF IInv, Found
<1>4. ASSUME NEW S, NEW O, NEW W, ClosedUnder(S, O, W), subjects \subseteq S,
             obligations \subseteq O, works \subseteq W
      PROVE  subjects' \subseteq S /\ obligations' \subseteq O /\ works' \subseteq W
  <2>1. w \in W
    BY <1>2, <1>4
  <2>2. p \in W /\ CompositionsOf(p) \subseteq O
    BY <1>0, <1>4, <2>1 DEF ClosedUnder
  <2>3. QED BY <1>0, <1>4, <2>2
<1> HIDE DEF p
<1>5. QED BY <1>0, <1>3, <1>4, Extended

LEMMA SeedKeeps == ASSUME IInv, Seed PROVE IInv'
<1>1. /\ phase = "load" /\ phase' = "edges" /\ todo' = contract.edges /\ subjects' = Seeds
      /\ UNCHANGED <<contract, delta, changed, obligations, works>>
  BY DEF Seed, input
<1>2. subjects = {} /\ obligations = {} /\ works = {} /\ ~changed
  BY <1>1 DEF IInv, Loops
<1>3. Found'
  BY <1>1, <1>2, InputTyped DEF Found, IInv, InputNow, Input
<1>4. InputNow' /\ Loops' /\ Pass'
  BY <1>1, <1>2 DEF IInv, InputNow, Loops, Pass
<1>5. Least'
  <2>1. Seeds' = Seeds
    BY <1>1, InputFixed
  <2>2. ASSUME NEW S, NEW O, NEW W, ClosedUnder(S, O, W)'
        PROVE  subjects' \subseteq S /\ obligations' \subseteq O /\ works' \subseteq W
    <3>1. ClosedUnder(S, O, W)
      BY <1>1, <2>2, InputFixed
    <3>2. QED BY <1>1, <1>2, <3>1 DEF ClosedUnder
  <2>3. QED BY <1>1, <2>1, <2>2 DEF Least
<1>6. QED BY <1>3, <1>4, <1>5 DEF IInv

\* Going on to another loop keeps what was found.
LEMMA MovedOn ==
  ASSUME IInv, Running, UNCHANGED <<contract, delta, subjects, obligations, works>>
  PROVE  InputNow' /\ Found' /\ Least'
<1>1. Seeds' = Seeds /\ \A S, O, W : ClosedUnder(S, O, W)' <=> ClosedUnder(S, O, W)
  BY InputFixed
<1>2. Least'
  <2>1. Seeds' \subseteq subjects'
    BY <1>1 DEF IInv, Least
  <2>2. ASSUME NEW S \in SUBSET Subjects', NEW O \in SUBSET Obligations', NEW W \in SUBSET WorkItems',
               ClosedUnder(S, O, W)'
        PROVE  subjects' \subseteq S /\ obligations' \subseteq O /\ works' \subseteq W
    <3>1. ClosedUnder(S, O, W)
      BY <1>1, <2>2
    <3>2. QED BY <3>1 DEF IInv, Least
  <2>3. QED BY <2>1, <2>2 DEF Least
<1>3. QED BY <1>2 DEF IInv, InputNow, Found

LEMMA NextLoopKeeps == ASSUME IInv, NextLoop PROVE IInv'
<1>1. /\ phase \in {"edges", "obligations", "dependents"} /\ Exhausted
      /\ UNCHANGED <<contract, delta, changed, subjects, obligations, works>>
  BY DEF NextLoop, input
<1>2. InputNow' /\ Found' /\ Least'
  BY <1>1, MovedOn DEF Running
<1>3. EdgesDone' = EdgesDone /\ ObligationsDone' = ObligationsDone /\ DependentsDone' = DependentsDone
  BY <1>1 DEF EdgesDone, ObligationsDone, DependentsDone, EdgeApplies, ObligationApplies, DependentApplies
<1>4. CASE phase = "edges"
  <2>1. phase' = "obligations" /\ todo' = Obligations
    BY <1>4 DEF NextLoop
  <2>2. ~changed => EdgesDone
    BY <1>1, <1>4 DEF Exhausted, EdgesDone, IInv, Pass
  <2>3. Loops' /\ Pass'
    BY <1>1, <1>3, <2>1, <2>2 DEF IInv, Loops, Pass
  <2>4. QED BY <1>2, <2>3 DEF IInv
<1>5. CASE phase = "obligations"
  <2>1. phase' = "dependents" /\ todo' = WorkItems
    BY <1>5 DEF NextLoop
  <2>2. ~changed => EdgesDone /\ ObligationsDone
    BY <1>1, <1>5 DEF Exhausted, ObligationsDone, IInv, Pass
  <2>3. Loops' /\ Pass'
    BY <1>1, <1>3, <2>1, <2>2 DEF IInv, Loops, Pass
  <2>4. QED BY <1>2, <2>3 DEF IInv
<1>6. CASE phase = "dependents"
  <2>1. phase' = "parents" /\ todo' = works
    BY <1>6 DEF NextLoop
  <2>2. ~changed => EdgesDone /\ ObligationsDone /\ DependentsDone
    BY <1>1, <1>6 DEF Exhausted, DependentsDone, IInv, Pass
  <2>3. Loops' /\ Pass'
    BY <1>1, <1>3, <2>1, <2>2 DEF IInv, Loops, Pass
  <2>4. QED BY <1>2, <2>3 DEF IInv
<1>7. QED BY <1>1, <1>4, <1>5, <1>6

LEMMA NextPassKeeps == ASSUME IInv, NextPass PROVE IInv'
<1>1. /\ phase = "parents" /\ phase' = "edges" /\ todo' = contract.edges /\ changed' = FALSE
      /\ UNCHANGED <<contract, delta, subjects, obligations, works>>
  BY DEF NextPass, input
<1>2. InputNow' /\ Found' /\ Least'
  BY <1>1, MovedOn DEF Running
<1>3. Loops' /\ Pass'
  BY <1>1 DEF Loops, Pass
<1>4. QED BY <1>2, <1>3 DEF IInv

LEMMA ReturnKeeps == ASSUME IInv, Return PROVE IInv'
<1>1. /\ phase = "parents" /\ phase' = "done" /\ Exhausted /\ ~changed
      /\ UNCHANGED <<contract, delta, todo, changed, subjects, obligations, works>>
  BY DEF Return, input
<1>2. InputNow' /\ Found' /\ Least'
  BY <1>1, MovedOn DEF Running
<1>3. EdgesDone /\ ObligationsDone /\ DependentsDone /\ ParentsDone
  BY <1>1 DEF Exhausted, ParentsDone, IInv, Pass
<1>4. /\ EdgesDone' = EdgesDone /\ ObligationsDone' = ObligationsDone
      /\ DependentsDone' = DependentsDone /\ ParentsDone' = ParentsDone
  BY <1>1 DEF EdgesDone, ObligationsDone, DependentsDone, ParentsDone, EdgeApplies,
              ObligationApplies, DependentApplies, ParentApplies, CompositionsOf, OwnedBy
<1>5. Loops' /\ Pass'
  BY <1>1, <1>3, <1>4 DEF IInv, Loops, Pass
<1>6. QED BY <1>2, <1>5 DEF IInv

LEMMA IInvHolds == Spec => []IInv
<1>1. Init => IInv
  BY DEF Init, IInv, InputNow, Found, Loops, Pass, Least, Running
<1>2. IInv /\ [Next]_vars => IInv'
  <2> SUFFICES ASSUME IInv, [Next]_vars PROVE IInv'
    OBVIOUS
  <2>1. CASE Reject
    BY <2>1 DEF Reject, input, IInv, InputNow, Found, Loops, Pass, Least, Running
  <2>2. CASE \E e \in contract.edges : Edge(e)
    BY <2>2, EdgeKeeps
  <2>3. CASE \E o \in Obligations : Bind(o)
    BY <2>3, BindKeeps
  <2>4. CASE \E w \in WorkItems : Depend(w) \/ Ascend(w)
    BY <2>4, DependKeeps, AscendKeeps
  <2>5. CASE UNCHANGED vars
    <3>1. UNCHANGED <<contract, delta, phase, todo, changed, subjects, obligations, works>>
      BY <2>5 DEF vars
    <3>2. Seeds' = Seeds /\ \A S, O, W : ClosedUnder(S, O, W)' <=> ClosedUnder(S, O, W)
      BY <3>1, InputFixed
    <3>3. /\ EdgesDone' = EdgesDone /\ ObligationsDone' = ObligationsDone
          /\ DependentsDone' = DependentsDone /\ ParentsDone' = ParentsDone
      BY <3>1 DEF EdgesDone, ObligationsDone, DependentsDone, ParentsDone, EdgeApplies,
                  ObligationApplies, DependentApplies, ParentApplies, CompositionsOf, OwnedBy
    <3>4. InputNow' /\ Found' /\ Loops'
      BY <3>1 DEF IInv, InputNow, Found, Loops
    <3>5. Pass'
      BY <3>1, <3>3 DEF IInv, Pass
    <3>6. Least'
      <4>1. CASE ~Running
        BY <3>1, <4>1 DEF Running, Least
      <4>2. CASE Running
        BY <3>1, <4>2, MovedOn
      <4>3. QED BY <4>1, <4>2
    <3>7. QED BY <3>4, <3>5, <3>6 DEF IInv
  <2>6. QED BY <2>1, <2>2, <2>3, <2>4, <2>5, SeedKeeps, NextLoopKeeps, NextPassKeeps, ReturnKeeps DEF Next
<1>3. QED BY <1>1, <1>2, PTL DEF Spec

-----------------------------------------------------------------------------
(* The theorems.                                                           *)

\* The sets hold what their names say, in every contract and difference.
THEOREM ImpactTyped == Spec => []TypeOK
<1>1. IInv => TypeOK
  <2> SUFFICES ASSUME IInv PROVE TypeOK
    OBVIOUS
  <2>1. /\ contract \in Contracts /\ delta \in Deltas
        /\ phase \in {"load", "rejected", "edges", "obligations", "dependents", "parents", "done"}
        /\ changed \in BOOLEAN
        /\ subjects \subseteq Subjects /\ obligations \subseteq Obligations /\ works \subseteq WorkItems
    BY DEF IInv, InputNow, Found, Loops
  <2>2. todo \subseteq IF phase = "edges" THEN contract.edges ELSE Obligations \cup WorkItems
    BY <2>1 DEF IInv, Loops
  <2>3. QED BY <2>1, <2>2 DEF TypeOK
<1>2. QED BY <1>1, IInvHolds, PTL

\* What compute_scip_impact returns leaves no affected subject without what
\* follows from it.
THEOREM FollowedUp == Spec => []SubjectsAreFollowedUp
<1>1. IInv => SubjectsAreFollowedUp
  <2> SUFFICES ASSUME IInv, phase = "done" PROVE SubjectsAreFollowedUp
    BY DEF SubjectsAreFollowedUp
  <2>1. EdgesDone /\ ObligationsDone /\ DependentsDone /\ ParentsDone
    BY DEF IInv, Pass
  <2>2. Seeds \subseteq subjects
    BY DEF IInv, Least, Running
  <2>3. \A o \in obligations : contract.work[o] \in works
    BY DEF IInv, Found
  <2>4. \A w \in works : contract.parent[w] # None =>
          contract.parent[w] \in works /\ CompositionsOf(contract.parent[w]) \subseteq obligations
    BY <2>1 DEF ParentsDone, ParentApplies
  <2>5. QED BY <2>1, <2>2, <2>3, <2>4
        DEF SubjectsAreFollowedUp, EdgesDone, ObligationsDone, DependentsDone,
            EdgeApplies, ObligationApplies, DependentApplies
<1>2. QED BY <1>1, IInvHolds, PTL

\* Everything it returns is in the closure of the seeds.
THEOREM NothingElse == Spec => []OnlyImplied
<1>1. IInv => OnlyImplied
  <2> SUFFICES ASSUME IInv, phase = "done" PROVE OnlyImplied
    BY DEF OnlyImplied
  <2>1. Input
    BY DEF IInv, InputNow, Input
  <2>2. /\ Closure \in Triples
        /\ ClosedUnder(Closure.subjects, Closure.obligations, Closure.works)
    BY <2>1, ClosureIsFixpoint, ClosureIsClosed
  <2>3. /\ Closure.subjects \in SUBSET Subjects /\ Closure.obligations \in SUBSET Obligations
        /\ Closure.works \in SUBSET WorkItems
    BY <2>2 DEF Triples
  <2>4. QED BY <2>2, <2>3 DEF OnlyImplied, IInv, Least, Running
<1>2. QED BY <1>1, IInvHolds, PTL

\* Without work dependencies it returns the closure itself.
THEOREM ExactThen == Spec => []ExactWithoutDependencies
<1>1. IInv => ExactWithoutDependencies
  <2> SUFFICES ASSUME IInv, phase = "done", \A w \in WorkItems : contract.depends[w] = {}
               PROVE  Affected = Closure
    BY DEF ExactWithoutDependencies
  <2>1. Input
    BY DEF IInv, InputNow, Input
  <2>2. Affected \in Triples
    BY DEF Affected, Triples, IInv, Found
  <2>3. Affected.subjects = subjects /\ Affected.obligations = obligations /\ Affected.works = works
    BY DEF Affected
  <2>4. ClosedUnder(subjects, obligations, works)
    <3>1. EdgesDone /\ ObligationsDone /\ ParentsDone
      BY DEF IInv, Pass
    <3>2. Seeds \subseteq subjects
      BY DEF IInv, Least, Running
    <3>3. \A w \in works : contract.parent[w] # None =>
            contract.parent[w] \in works /\ CompositionsOf(contract.parent[w]) \subseteq obligations
      BY <3>1 DEF ParentsDone, ParentApplies
    <3>4. \A o \in Obligations : contract.bound[o] \cap subjects # {} =>
            o \in obligations /\ contract.work[o] \in works
      BY <3>1 DEF ObligationsDone, ObligationApplies, IInv, Found
    <3>5. QED BY <3>1, <3>2, <3>3, <3>4 DEF ClosedUnder, EdgesDone, EdgeApplies
  <2>5. Within(Closure, Affected)
    BY <2>1, <2>2, <2>3, <2>4, ClosureIsLeast
  <2>6. Closure \in Triples /\ ClosedUnder(Closure.subjects, Closure.obligations, Closure.works)
    BY <2>1, ClosureIsFixpoint, ClosureIsClosed
  <2>7. Within(Affected, Closure)
    <3>1. /\ Closure.subjects \in SUBSET Subjects /\ Closure.obligations \in SUBSET Obligations
          /\ Closure.works \in SUBSET WorkItems
      BY <2>6 DEF Triples
    <3>2. QED BY <2>3, <2>6, <3>1 DEF Within, IInv, Least, Running
  <2>8. QED BY <2>2, <2>5, <2>6, <2>7, WithinBothIsEqual
<1>2. QED BY <1>1, IInvHolds, PTL
=============================================================================
