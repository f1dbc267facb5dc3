-------------------------- MODULE AcceptanceProofs --------------------------
(***************************************************************************)
(* What it means that the program accepts: theorems of RankCertificate,    *)
(* for every model over every set of states, and of CandidateClosure, for  *)
(* every set of contracts, submissions and adapters.                       *)
(***************************************************************************)
EXTENDS RankCertificate, CandidateClosure, FiniteSetTheorems, WellFoundedInduction, TLAPS

USE DEF Successors, Ranked

-----------------------------------------------------------------------------
(* The checker alone.                                                      *)

\* A rank table that passes the checker leaves no way to avoid the targets:
\* in an avoiding set, the state of lowest rank would need a lower one.
LEMMA DecreasingRanksAreInevitable ==
  ASSUME model \in Models, NEW r, RanksDecrease(r)
  PROVE  Inevitable
<1> SUFFICES ASSUME NEW Z \in SUBSET States, Avoiding(Z), model.sources \cap Z # {}
             PROVE  FALSE
  BY DEF Inevitable
<1> DEFINE T == {r[s] : s \in Z \cap DOMAIN r}
<1>1. T \subseteq Nat /\ T # {}
  BY DEF RanksDecrease
<1>2. IsWellFoundedOn(OpToRel(<, Nat), Nat)
  BY NatLessThanWellFounded
<1>3. PICK n \in T : \A k \in T : <<k, n>> \notin OpToRel(<, Nat)
  <2> HIDE DEF T
  <2> QED
    BY <1>1, <1>2, WFMin
<1>4. PICK s \in Z \cap DOMAIN r : n = r[s]
  BY <1>3
<1>5. s \notin model.targets /\ r[s] # 0
  BY DEF Avoiding, RanksDecrease
<1>6. PICK t \in Successors(s) : t \in Z
  BY <1>5 DEF Avoiding, RanksDecrease
<1>7. t \in DOMAIN r /\ r[t] < r[s] /\ r[t] \in Nat /\ r[s] \in Nat
  BY <1>5, <1>6 DEF RanksDecrease
<1>8. <<r[t], n>> \in OpToRel(<, Nat)
  BY <1>4, <1>7 DEF OpToRel
<1> QED
  BY <1>3, <1>6, <1>7, <1>8

\* A path that passes the checker is an avoiding set with a source in it.
LEMMA AvoidingPathsAreEvitable ==
  ASSUME model \in Models, NEW p \in Seq(States), AvoidsTargets(p)
  PROVE  ~Inevitable
<1> DEFINE Z == {p[i] : i \in DOMAIN p}
<1>1. Len(p) \in Nat /\ Len(p) > 0 /\ DOMAIN p = 1 .. Len(p)
  BY DEF AvoidsTargets
<1>2. Z \subseteq States \ model.targets
  BY DEF AvoidsTargets
<1>3. model.sources \cap Z # {}
  BY <1>1 DEF AvoidsTargets
<1>4. ASSUME NEW i \in DOMAIN p PROVE Successors(p[i]) = {} \/ Successors(p[i]) \cap Z # {}
  <2>1. CASE i # Len(p)
    <3>1. i \in 1 .. Len(p) - 1 /\ i + 1 \in DOMAIN p
      BY <1>1, <2>1
    <3> QED
      BY <3>1 DEF AvoidsTargets
  <2>2. CASE i = Len(p) /\ Successors(p[Len(p)]) # {}
    <3>1. PICK j \in 1 .. Len(p) - 1 : p[j] = p[Len(p)]
      BY <2>2 DEF AvoidsTargets
    <3>2. j + 1 \in DOMAIN p /\ p[j + 1] \in Successors(p[j])
      BY <1>1, <3>1 DEF AvoidsTargets
    <3> QED
      BY <2>2, <3>1, <3>2
  <2> QED
    BY <2>1, <2>2
<1>5. Avoiding(Z)
  BY <1>2, <1>4 DEF Avoiding
<1> QED
  BY <1>2, <1>3, <1>5 DEF Inevitable
-----------------------------------------------------------------------------
(* The prover.                                                             *)

\* A state the current ranks cannot reach backwards.
Stuck(s) == Successors(s) = {} \/ \E t \in Successors(s) : t \notin Ranked

\* The ranks assigned so far already are a certificate for their own states.
\* The last conjunct is what makes the maximum in Rank exist.
RanksInv ==
  /\ Ranked \subseteq States
  /\ model.targets \subseteq Ranked
  /\ \A s \in Ranked :
       /\ ranks[s] \in Nat
       /\ ranks[s] = 0 <=> s \in model.targets
       /\ s \notin model.targets =>
            /\ Successors(s) # {}
            /\ \A t \in Successors(s) : t \in Ranked /\ ranks[t] < ranks[s]
  /\ \A T \in SUBSET Ranked : T # {} => \E s \in T : \A t \in T : ranks[t] <= ranks[s]

\* A sweep that has ranked nothing leaves only stuck states behind it.
SweepInv ==
  /\ todo \subseteq States
  /\ changed \in BOOLEAN
  /\ ~changed => \A s \in States \ todo : s \in Ranked \/ Stuck(s)

\* The walk runs through unranked states, from a source, along edges.
WalkInv ==
  /\ todo = {} /\ ~changed
  /\ at \in States \ Ranked
  /\ path \in Seq(States)
  /\ \A i \in DOMAIN path : path[i] \notin Ranked /\ Successors(path[i]) # {}
  /\ path = <<>> => at \in model.sources
  /\ path # <<>> => path[1] \in model.sources /\ at \in Successors(path[Len(path)])
  /\ \A i \in 1 .. Len(path) - 1 : path[i + 1] \in Successors(path[i])

WrittenInv ==
  /\ certificate.result \in {"proved", "disproved"}
  /\ certificate.result = "disproved" => certificate.evidence \in Seq(States)

ProverInv ==
  /\ model \in Models
  /\ pc \in {"idle", "sweep", "walk", "done", "received"}
  /\ pc \in {"idle", "sweep"} => path = <<>>
  /\ pc \in {"idle", "sweep", "walk"} => certificate = None
  /\ pc \in {"sweep", "walk"} => RanksInv /\ SweepInv
  /\ pc = "walk" => WalkInv
  /\ pc \in {"done", "received"} => WrittenInv
  /\ pc = "done" => Accepts(certificate)

LEMMA ProverInit == Init => ProverInv
  BY DEF Init, ProverInv

\* Ranking one more state keeps the ranks a certificate for their states.
LEMMA RankKeepsRanks ==
  ASSUME ProverInv, NEW s \in States, Rank(s)
  PROVE  RanksInv'
<1> USE ModelsAssumption
<1>1. RanksInv /\ pc = "sweep" /\ model' = model
  BY DEF Rank, ProverInv
<1>2. s \notin Ranked /\ Successors(s) # {} /\ Successors(s) \subseteq Ranked /\ s \notin model.targets
  BY <1>1 DEF Rank, Rankable, RanksInv
<1> DEFINE R == {ranks[u] : u \in Successors(s)}
           m == Max(R)
<1>3. m \in R /\ \A u \in Successors(s) : ranks[u] <= m
  <2>1. PICK u \in Successors(s) : \A t \in Successors(s) : ranks[t] <= ranks[u]
    BY <1>1, <1>2 DEF RanksInv
  <2>2. ranks[u] \in R /\ \A n \in R : ranks[u] >= n
    BY <1>1, <1>2, <2>1 DEF RanksInv
  <2>3. m \in R /\ \A n \in R : m >= n
    BY <2>2 DEF Max
  <2> QED
    BY <1>1, <1>2, <2>3 DEF RanksInv
<1>4. m \in Nat
  BY <1>1, <1>2, <1>3 DEF RanksInv
<1>5. ranks' = [t \in Ranked \cup {s} |-> IF t = s THEN 1 + m ELSE ranks[t]]
  BY DEF Rank
<1> HIDE DEF m
<1>6. Ranked' = Ranked \cup {s} /\ ranks'[s] = 1 + m /\ \A t \in Ranked : ranks'[t] = ranks[t]
  BY <1>2, <1>5
<1>7. \A t \in Ranked' :
        /\ ranks'[t] \in Nat
        /\ ranks'[t] = 0 <=> t \in model.targets
        /\ t \notin model.targets =>
             /\ Successors(t) # {}
             /\ \A u \in Successors(t) : u \in Ranked' /\ ranks'[u] < ranks'[t]
  <2> TAKE t \in Ranked'
  <2>1. CASE t = s
    <3>1. ranks'[t] \in Nat /\ ranks'[t] # 0
      BY <1>4, <1>6, <2>1
    <3>2. \A u \in Successors(t) : u \in Ranked' /\ ranks'[u] < ranks'[t]
      <4> TAKE u \in Successors(t)
      <4>1. u \in Ranked /\ ranks[u] \in Nat /\ ranks[u] <= m /\ ranks'[u] = ranks[u]
        BY <1>1, <1>2, <1>3, <1>6, <2>1 DEF RanksInv
      <4> QED
        BY <1>4, <1>6, <2>1, <4>1
    <3> QED
      BY <1>2, <2>1, <3>1, <3>2
  <2>2. CASE t \in Ranked
    BY <1>1, <1>6, <2>2 DEF RanksInv
  <2> QED
    BY <1>6, <2>1, <2>2
<1>8. ASSUME NEW T \in SUBSET Ranked', T # {}
      PROVE  \E t \in T : \A u \in T : ranks'[u] <= ranks'[t]
  <2>1. CASE T \subseteq {s}
    BY <1>4, <1>6, <1>8, <2>1
  <2>2. CASE T \ {s} # {}
    <3>1. PICK t \in T \ {s} : \A u \in T \ {s} : ranks[u] <= ranks[t]
      BY <1>1, <1>6, <2>2 DEF RanksInv
    <3>2. \A u \in T : ranks'[u] \in Nat
      BY <1>7
    <3>3. \A u \in T \ {s} : ranks'[u] <= ranks'[t]
      BY <1>6, <3>1
    <3>4. CASE s \notin T \/ ranks'[s] <= ranks'[t]
      BY <3>1, <3>3, <3>4
    <3>5. CASE s \in T /\ ~(ranks'[s] <= ranks'[t])
      BY <3>2, <3>3, <3>5
    <3> QED
      BY <3>4, <3>5
  <2> QED
    BY <1>8, <2>1, <2>2
<1> QED
  BY <1>1, <1>6, <1>7, <1>8 DEF RanksInv

LEMMA ProverStep == ProverInv /\ [Next]_vars => ProverInv'
<1> SUFFICES ASSUME ProverInv, [Next]_vars PROVE ProverInv'
  OBVIOUS
<1> USE ModelsAssumption, ReceivedAssumption
<1>1. CASE Start
  <2>1. RanksInv'
    BY <1>1 DEF Start, ProverInv, RanksInv
  <2>2. SweepInv'
    BY <1>1 DEF Start, ProverInv, SweepInv
  <2> QED
    BY <1>1, <2>1, <2>2 DEF Start, ProverInv
<1>2. ASSUME NEW s \in States, Rank(s) PROVE ProverInv'
  <2>1. RanksInv'
    BY <1>2, RankKeepsRanks
  <2>2. SweepInv'
    BY <1>2 DEF Rank, ProverInv, SweepInv
  <2> QED
    BY <1>2, <2>1, <2>2 DEF Rank, ProverInv
<1>3. ASSUME NEW s \in States, Skip(s) PROVE ProverInv'
  <2>1. RanksInv'
    BY <1>3 DEF Skip, ProverInv, RanksInv
  <2>2. SweepInv'
    BY <1>3 DEF Skip, Rankable, ProverInv, SweepInv, Stuck
  <2> QED
    BY <1>3, <2>1, <2>2 DEF Skip, ProverInv
<1>4. CASE SweepAgain
  <2>1. RanksInv'
    BY <1>4 DEF SweepAgain, ProverInv, RanksInv
  <2>2. SweepInv'
    BY <1>4 DEF SweepAgain, ProverInv, SweepInv
  <2> QED
    BY <1>4, <2>1, <2>2 DEF SweepAgain, ProverInv
<1>5. CASE Prove
  <2>1. RanksDecrease(ranks)
    BY <1>5 DEF Prove, ProverInv, RanksInv, RanksDecrease
  <2>2. WrittenInv' /\ Accepts(certificate)'
    BY <1>5, <2>1 DEF Prove, Certificate, WrittenInv, Accepts, RanksDecrease
  <2> QED
    BY <1>5, <2>2 DEF Prove, ProverInv
<1>6. ASSUME NEW s \in States, Refute(s) PROVE ProverInv'
  <2>1. RanksInv' /\ SweepInv'
    BY <1>6 DEF Refute, ProverInv, RanksInv, SweepInv, Stuck
  <2>2. WalkInv'
    BY <1>6 DEF Refute, First, ProverInv, SweepInv, WalkInv
  <2> QED
    BY <1>6, <2>1, <2>2 DEF Refute, ProverInv
<1>7. ASSUME NEW s \in States, Follow(s) PROVE ProverInv'
  <2>1. RanksInv' /\ SweepInv'
    BY <1>7 DEF Follow, ProverInv, RanksInv, SweepInv, Stuck
  <2>2. WalkInv'
    BY <1>7 DEF Follow, First, ProverInv, WalkInv
  <2> QED
    BY <1>7, <2>1, <2>2 DEF Follow, ProverInv
<1>8. CASE Disprove
  <2>1. AvoidsTargets(path')
    BY <1>8 DEF Disprove, ProverInv, RanksInv, WalkInv, Visited, AvoidsTargets
  <2>2. WrittenInv' /\ Accepts(certificate)'
    BY <1>8, <2>1 DEF Disprove, Certificate, ProverInv, WalkInv, WrittenInv, Accepts, AvoidsTargets
  <2> QED
    BY <1>8, <2>2 DEF Disprove, ProverInv
<1>9. CASE Receive
  BY <1>9 DEF Receive, Certificate, ProverInv, WrittenInv
<1>10. CASE UNCHANGED vars
  BY <1>10 DEF vars, ProverInv, RanksInv, SweepInv, Stuck, WalkInv, Visited, WrittenInv,
               Accepts, RanksDecrease, AvoidsTargets
<1> QED
  BY <1>1, <1>2, <1>3, <1>4, <1>5, <1>6, <1>7, <1>8, <1>9, <1>10 DEF Next

LEMMA ProverInvariant == Spec => []ProverInv
  BY ProverInit, ProverStep, PTL DEF Spec

\* A certificate the checker accepts is true of the model it was checked
\* against, for every model and every certificate anybody could write.
THEOREM CheckerIsSound == Spec => []AcceptedIsTrue
<1>1. ProverInv => AcceptedIsTrue
  <2> SUFFICES ASSUME ProverInv, certificate # None, Accepts(certificate)
               PROVE  certificate.result = "proved" <=> Inevitable
    BY DEF AcceptedIsTrue
  <2>1. WrittenInv /\ model \in Models
    BY DEF ProverInv
  <2>2. CASE certificate.result = "proved"
    BY <2>1, <2>2, DecreasingRanksAreInevitable DEF Accepts
  <2>3. CASE certificate.result = "disproved"
    BY <2>1, <2>3, AvoidingPathsAreEvitable DEF Accepts, WrittenInv
  <2> QED
    BY <2>1, <2>2, <2>3 DEF WrittenInv
<1> QED
  BY <1>1, ProverInvariant, PTL

\* prove decides "all paths eventually" correctly on every model.
THEOREM ProverIsCorrect == Spec => []ProverDecides
<1>1. ProverInv => ProverDecides
  <2> SUFFICES ASSUME ProverInv, pc = "done"
               PROVE  certificate.result = "proved" <=> Inevitable
    BY DEF ProverDecides
  <2>1. WrittenInv /\ model \in Models /\ Accepts(certificate)
    BY DEF ProverInv
  <2>2. CASE certificate.result = "proved"
    BY <2>1, <2>2, DecreasingRanksAreInevitable DEF Accepts
  <2>3. CASE certificate.result = "disproved"
    BY <2>1, <2>3, AvoidingPathsAreEvitable DEF Accepts, WrittenInv
  <2> QED
    BY <2>1, <2>2, <2>3 DEF WrittenInv
<1> QED
  BY <1>1, ProverInvariant, PTL

\* Whatever prove writes, check_certificate accepts.
THEOREM CertificatesAreAccepted == Spec => []ProducedIsAccepted
<1>1. ProverInv => ProducedIsAccepted
  BY DEF ProverInv, ProducedIsAccepted
<1> QED
  BY <1>1, ProverInvariant, PTL

\* No run of prove reaches an "internal error" assertion: the ranking stops
\* only when every unranked state is stuck, which is what the walk needs.
THEOREM AssertionsHold == Spec => []NoInternalError
<1>1. ProverInv => NoInternalError
  BY DEF ProverInv, RanksInv, SweepInv, WalkInv, Stuck, NoInternalError
<1> QED
  BY <1>1, ProverInvariant, PTL

\* The prover's data keep their types.
THEOREM ProverIsTyped == Spec => []TypeOK
<1> USE DEF Start, Rank, Skip, SweepAgain, Prove, Refute, Follow, Disprove, Receive, vars
<1>1. Init => TypeOK
  <2> SUFFICES ASSUME Init PROVE TypeOK
    OBVIOUS
  <2>1. Ranked = {} /\ path \in Seq(States)
    BY DEF Init
  <2>2. Ranked \subseteq States /\ \A s \in Ranked : ranks[s] \in Nat
    BY <2>1
  <2> QED
    BY <2>1, <2>2 DEF Init, TypeOK
<1>2. TypeOK /\ ProverInv /\ ProverInv' /\ [Next]_vars => TypeOK'
  <2> SUFFICES ASSUME TypeOK, ProverInv, ProverInv', [Next]_vars PROVE TypeOK'
    OBVIOUS
  <2>1. CASE pc' = "walk"
    BY <2>1 DEF ProverInv, RanksInv, SweepInv, WalkInv, TypeOK
  <2>2. CASE pc' = "sweep"
    <3>1. at' = at /\ path' = <<>>
      BY <2>2 DEF Next, ProverInv
    <3> QED
      BY <2>2, <3>1 DEF ProverInv, RanksInv, SweepInv, TypeOK
  <2>3. CASE pc' \notin {"sweep", "walk"}
    <3>1. UNCHANGED <<ranks, todo, changed, at>>
      BY <2>3 DEF Next
    <3>2. path' = path \/ (Disprove /\ path' = Append(path, at))
      BY <2>3 DEF Next
    <3>3. path' \in Seq(States)
      BY <3>2 DEF TypeOK, ProverInv, WalkInv
    <3> QED
      BY <2>3, <3>1, <3>3 DEF TypeOK, ProverInv
  <2> QED
    BY <2>1, <2>2, <2>3
<1> QED
  BY <1>1, <1>2, ProverInvariant, PTL DEF Spec

-----------------------------------------------------------------------------
(* A candidate's life (CandidateClosure).                                  *)

\* Every candidate was built of edits submitted under some contract.
IsManifest(m) ==
  \E c \in Contracts : \E operations \in Submissions \cup {Origin.submission} :
    m = ManifestOf(c, operations)

CandidateInv ==
  /\ contract \in Contracts
  /\ \E d \in derived : d.manifest = manifest
  /\ \A d \in derived : IsManifest(d.manifest)

\* h is the hash of something of this kind.
Made(kind, h) == h \in Nat /\ \E n \in 1 .. h : h = Hash(kind, n)

IndexInv ==
  /\ IsFiniteSet(DOMAIN generations)
  /\ \A g \in DOMAIN generations : Made("generation", g)
  /\ current = [candidate |-> current.candidate, suite |-> current.suite]
  /\ authority = [candidate |-> authority.candidate, suite |-> authority.suite]
  /\ \A kind \in {"candidate", "suite"} :
       current[kind] \in authority[kind] /\ authority[kind] \subseteq DOMAIN generations

SuiteInv ==
  /\ IsFiniteSet(DOMAIN suites) /\ suite \in DOMAIN suites
  /\ \A s \in DOMAIN suites :
       /\ Made("suite", s) /\ s <= Hash("suite", Cardinality(DOMAIN suites))
       /\ UniquePaths(suites[s])

Counted == {"run", "coverage", "validation"}

RecordKinds == Counted \cup {"managed"}

RecordsInv ==
  /\ records = [kind \in RecordKinds |-> records[kind]]
  /\ \A kind \in RecordKinds :
       IsFiniteSet(records[kind]) /\ \A r \in records[kind] : Made(kind, r.hash)
  /\ \A kind \in Counted : \A r, q \in records[kind] :
       r.hash <= Hash(kind, Cardinality(records[kind])) /\ (r.hash = q.hash => r = q)
  /\ \A r \in records.coverage :
       r.generation \in DOMAIN generations /\ r.index = generations[r.generation]

\* What a requirement was drawn up of.
DrawnUp(c, m) ==
  /\ requirement.scope.contract = c.id /\ requirement.scope.manifest = m.hash
  /\ requirement.files = FilesOf(m)
  /\ requirement.subjects = SubjectsIn(c, FilesOf(m))
  /\ requirement.relationships = c.relationships
  /\ requirement.managed = {ManagedFor(x, FilesOf(m)) : x \in c.managed}
  /\ requirement.suite \in DOMAIN suites
  /\ requirement.suiteFiles = suites[requirement.suite]

RequirementInv ==
  \/ requirement = [scope |-> <<>>]
  \/ \E c \in Contracts : \E d \in derived : DrawnUp(c, d.manifest)

ClosureInv == CandidateInv /\ IndexInv /\ SuiteInv /\ RecordsInv /\ RequirementInv

-----------------------------------------------------------------------------
(* Hashes.                                                                 *)

AllKinds == {"generation", "suite"} \cup RecordKinds

LEMMA KindNumbers ==
  /\ \A n : Hash("generation", n) = n * 6 + 1
  /\ \A n : Hash("suite", n) = n * 6 + 2
  /\ \A n : Hash("run", n) = n * 6 + 3
  /\ \A n : Hash("coverage", n) = n * 6 + 4
  /\ \A n : Hash("validation", n) = n * 6 + 5
  /\ \A n : Hash("managed", n) = n * 6 + 6
<1>1. DOMAIN Kinds = 1 .. 6 /\ Len(Kinds) = 6
  BY DEF Kinds
<1>2. /\ \A k \in 1 .. 6 : Kinds[k] = "generation" <=> k = 1
      /\ \A k \in 1 .. 6 : Kinds[k] = "suite" <=> k = 2
      /\ \A k \in 1 .. 6 : Kinds[k] = "run" <=> k = 3
      /\ \A k \in 1 .. 6 : Kinds[k] = "coverage" <=> k = 4
      /\ \A k \in 1 .. 6 : Kinds[k] = "validation" <=> k = 5
      /\ \A k \in 1 .. 6 : Kinds[k] = "managed" <=> k = 6
  BY DEF Kinds
<1>3. /\ (CHOOSE k \in DOMAIN Kinds : Kinds[k] = "generation") = 1
      /\ (CHOOSE k \in DOMAIN Kinds : Kinds[k] = "suite") = 2
      /\ (CHOOSE k \in DOMAIN Kinds : Kinds[k] = "run") = 3
  BY <1>1, <1>2
<1>4. /\ (CHOOSE k \in DOMAIN Kinds : Kinds[k] = "coverage") = 4
      /\ (CHOOSE k \in DOMAIN Kinds : Kinds[k] = "validation") = 5
      /\ (CHOOSE k \in DOMAIN Kinds : Kinds[k] = "managed") = 6
  BY <1>1, <1>2
<1>5. QED BY <1>1, <1>3, <1>4 DEF Hash

\* A hash grows with the number, and tells the kind.
LEMMA HashNumbers ==
  ASSUME NEW kind \in AllKinds
  PROVE  \E a \in 1 .. 6 : \A n \in Nat : Hash(kind, n) = n * 6 + a
BY KindNumbers DEF AllKinds, RecordKinds, Counted

LEMMA Hashed ==
  ASSUME NEW kind \in AllKinds, NEW n \in Nat
  PROVE  /\ Hash(kind, n) \in Nat /\ n < Hash(kind, n)
         /\ Hash(kind, n) < Hash(kind, n + 1)
         /\ n # 0 => Made(kind, Hash(kind, n))
<1>1. PICK a \in 1 .. 6 : \A k \in Nat : Hash(kind, k) = k * 6 + a
  BY HashNumbers
<1>2. Hash(kind, n) = n * 6 + a /\ Hash(kind, n + 1) = (n + 1) * 6 + a
  BY <1>1
<1>3. QED BY <1>2 DEF Made

LEMMA HashesDiffer ==
  ASSUME NEW k \in AllKinds, NEW l \in AllKinds, NEW h, Made(k, h), Made(l, h)
  PROVE  k = l
<1>1. PICK n \in 1 .. h : h = Hash(k, n)
  BY DEF Made
<1>2. PICK p \in 1 .. h : h = Hash(l, p)
  BY DEF Made
<1>3. Hash(k, n) = Hash(l, p)
  BY <1>1, <1>2
<1>4. n \in Nat /\ p \in Nat
  BY DEF Made
<1>5. QED BY <1>3, <1>4, KindNumbers DEF AllKinds, RecordKinds, Counted

LEMMA FinitePair ==
  ASSUME NEW x, NEW y
  PROVE  IsFiniteSet({x, y})
<1>1. {x, y} = {x} \cup {y}
  OBVIOUS
<1>2. IsFiniteSet({x})
  BY FS_Singleton
<1>3. IsFiniteSet({x} \cup {y})
  BY <1>2, FS_AddElement
<1>4. QED BY <1>1, <1>3

-----------------------------------------------------------------------------
(* Candidates.                                                             *)

LEMMA ManifestsOf ==
  ASSUME NEW m, IsManifest(m)
  PROVE  \E c \in Contracts, operations \in Submissions \cup {Origin.submission} :
           /\ m = ManifestOf(c, operations)
           /\ m.hash = <<c.id, operations>> /\ m.contract = c.id
           /\ m.submission = operations /\ m.entries = EntriesOf(c, operations)
BY DEF IsManifest, ManifestOf

\* A manifest's hash stands for the manifest.
LEMMA SameManifest ==
  ASSUME NEW m, NEW n, IsManifest(m), IsManifest(n), m.hash = n.hash
  PROVE  m = n
<1>1. PICK c \in Contracts, p \in Submissions \cup {Origin.submission} :
        m = ManifestOf(c, p) /\ m.hash = <<c.id, p>>
  BY ManifestsOf
<1>2. PICK d \in Contracts, q \in Submissions \cup {Origin.submission} :
        n = ManifestOf(d, q) /\ n.hash = <<d.id, q>>
  BY ManifestsOf
<1>3. c.id = d.id /\ p = q
  BY <1>1, <1>2
<1>4. c = d
  BY <1>3, ContractsAssumption
<1>5. QED BY <1>1, <1>2, <1>3, <1>4

LEMMA ManifestIsOne ==
  ASSUME CandidateInv
  PROVE  IsManifest(manifest)
BY DEF CandidateInv

-----------------------------------------------------------------------------
(* The invariant.                                                          *)

LEMMA InitClosed ==
  ASSUME ClosureInit
  PROVE  ClosureInv
<1> DEFINE m == ManifestOf(Origin.contract, Origin.submission)
           g == Hash("generation", 1)
           h == Hash("generation", 2)
<1>1. /\ g = 7 /\ h = 13 /\ Hash("suite", 1) = 8 /\ Hash("run", 1) = 9
      /\ Hash("coverage", 1) = 10 /\ Hash("validation", 1) = 11
  BY KindNumbers
<1>2. /\ Made("generation", g) /\ Made("generation", h) /\ Made("suite", Hash("suite", 1))
      /\ Made("run", Hash("run", 1)) /\ Made("coverage", Hash("coverage", 1))
      /\ Made("validation", Hash("validation", 1))
      /\ \A n \in Nat \ {0} : Made("managed", Hash("managed", n))
  BY Hashed DEF AllKinds, RecordKinds, Counted
<1>3. CandidateInv
  <2>1. contract \in Contracts /\ manifest = m
    BY ContractsAssumption DEF ClosureInit
  <2>2. IsManifest(m)
    BY ContractsAssumption DEF IsManifest
  <2>3. \A d \in derived : d.manifest = m
    BY DEF ClosureInit
  <2>4. derived # {}
    BY DEF ClosureInit
  <2>5. QED BY <2>1, <2>2, <2>3, <2>4 DEF CandidateInv
<1>4. IndexInv
  <2>1. DOMAIN generations = {g, h}
    BY DEF ClosureInit
  <2>2. IsFiniteSet({g, h})
    BY FinitePair
  <2>3. current = [candidate |-> g, suite |-> h]
    BY DEF ClosureInit
  <2>4. authority = [candidate |-> {g}, suite |-> {h}]
    BY DEF ClosureInit
  <2>5. QED BY <1>2, <2>1, <2>2, <2>3, <2>4 DEF IndexInv
<1>5. SuiteInv
  <2>1. suite = Hash("suite", 1) /\ suites = [s \in {suite} |-> Origin.contract.suite]
    BY DEF ClosureInit
  <2>2. IsFiniteSet({suite}) /\ Cardinality({suite}) = 1
    BY FS_Singleton
  <2>3. QED BY <1>1, <1>2, <2>1, <2>2, ContractsAssumption DEF SuiteInv
<1>6. RecordsInv
  <2> DEFINE s == CHOOSE x \in Origin.contract.subjects : TRUE
  <2>1. PICK number \in Numberings(Origin.contract.managed) : records =
          [run |-> {RunOf(Hash("run", 1), g)},
           coverage |-> {CoverageOf(Hash("coverage", 1), g, s, FilesOf(m))},
           validation |-> {ValidationOf(Hash("validation", 1), Hash("suite", 1), h)},
           managed |-> {ManagedOf(Hash("managed", number[a]), a, FilesOf(m)) :
                          a \in Origin.contract.managed}]
    BY DEF ClosureInit
  <2> DEFINE R == RunOf(Hash("run", 1), g)
             C == CoverageOf(Hash("coverage", 1), g, s, FilesOf(m))
             V == ValidationOf(Hash("validation", 1), Hash("suite", 1), h)
             f == [a \in Origin.contract.managed |-> ManagedOf(Hash("managed", number[a]), a, FilesOf(m))]
             M == {f[a] : a \in Origin.contract.managed}
  <2>2. /\ R.hash = Hash("run", 1) /\ C.hash = Hash("coverage", 1) /\ V.hash = Hash("validation", 1)
        /\ C.generation = g /\ C.index = FilesOf(m)
    BY DEF RunOf, CoverageOf, ValidationOf
  <2>3. IsFiniteSet(M) /\ \A x \in M : Made("managed", x.hash)
    <3>1. f \in Surjection(Origin.contract.managed, M)
      BY DEF Surjection
    <3>2. IsFiniteSet(Origin.contract.managed)
      BY ContractsAssumption
    <3>3. Cardinality(Origin.contract.managed) \in Nat
      BY <3>2, FS_CardinalityType
    <3>4. \A a \in Origin.contract.managed : number[a] \in Nat \ {0}
      BY <3>3 DEF Numberings
    <3>5. \A a \in Origin.contract.managed : f[a].hash = Hash("managed", number[a])
      BY DEF ManagedOf
    <3> HIDE DEF f
    <3>6. QED BY <1>2, <3>1, <3>2, <3>4, <3>5, FS_Surjection
  <2>4. generations[g] = FilesOf(m) /\ g \in DOMAIN generations
    BY DEF ClosureInit
  <2> HIDE DEF R, C, V, M
  <2>5. records = [run |-> {R}, coverage |-> {C}, validation |-> {V}, managed |-> M]
    BY <2>1 DEF R, C, V, M
  <2>6. /\ records.run = {R} /\ records.coverage = {C} /\ records.validation = {V} /\ records.managed = M
        /\ records = [kind \in RecordKinds |-> records[kind]]
    BY <2>5 DEF RecordKinds, Counted
  <2>7. \A kind \in Counted : IsFiniteSet(records[kind]) /\ Cardinality(records[kind]) = 1
    BY <2>6, FS_Singleton DEF Counted
  <2>8. \A kind \in RecordKinds :
          IsFiniteSet(records[kind]) /\ \A r \in records[kind] : Made(kind, r.hash)
    BY <1>2, <2>2, <2>3, <2>6, <2>7 DEF RecordKinds, Counted
  <2>9. \A kind \in Counted : \A r, q \in records[kind] :
          r.hash <= Hash(kind, Cardinality(records[kind])) /\ (r.hash = q.hash => r = q)
    <3>1. \A kind \in Counted : \A r \in records[kind] : r.hash = Hash(kind, 1)
      BY <2>2, <2>6 DEF Counted
    <3>2. \A kind \in Counted : Hash(kind, 1) \in Nat
      BY <1>1 DEF Counted
    <3>3. \A kind \in Counted : \A r, q \in records[kind] : r = q
      BY <2>6 DEF Counted
    <3>4. QED BY <2>7, <3>1, <3>2, <3>3
  <2>10. \A r \in records.coverage : r.generation \in DOMAIN generations /\ r.index = generations[r.generation]
    BY <2>2, <2>4, <2>6
  <2>11. QED BY <2>6, <2>8, <2>9, <2>10 DEF RecordsInv
<1>7. RequirementInv
  BY DEF ClosureInit, RequirementInv
<1>8. QED BY <1>3, <1>4, <1>5, <1>6, <1>7 DEF ClosureInv

\* What an action leaves alone keeps its part of the invariant.
LEMMA RecordsKept ==
  ASSUME RecordsInv, UNCHANGED <<records, generations>>
  PROVE  RecordsInv'
BY DEF RecordsInv

LEMMA RequirementKept ==
  ASSUME RequirementInv, UNCHANGED requirement, derived \subseteq derived',
         \A s \in DOMAIN suites : s \in DOMAIN suites' /\ suites'[s] = suites[s]
  PROVE  RequirementInv'
<1>1. CASE requirement = [scope |-> <<>>]
  BY <1>1 DEF RequirementInv
<1>2. CASE \E c \in Contracts : \E d \in derived : DrawnUp(c, d.manifest)
  <2>1. PICK c \in Contracts, d \in derived : DrawnUp(c, d.manifest)
    BY <1>2
  <2>2. DrawnUp(c, d.manifest)'
    BY <2>1 DEF DrawnUp
  <2>3. d \in derived'
    OBVIOUS
  <2>4. QED BY <2>2, <2>3 DEF RequirementInv
<1>3. QED BY <1>1, <1>2 DEF RequirementInv

LEMMA AmendStep ==
  ASSUME ClosureInv, NEW c \in Contracts, Amend(c)
  PROVE  ClosureInv'
<1>1. contract' = c /\ UNCHANGED <<candidateVars, suiteVars, indexVars, records, requirement>>
  BY DEF Amend
<1>2. CandidateInv'
  BY <1>1 DEF ClosureInv, CandidateInv, candidateVars, IsManifest, ManifestOf
<1>3. IndexInv'
  BY <1>1 DEF ClosureInv, IndexInv, indexVars, Made
<1>4. SuiteInv'
  BY <1>1 DEF ClosureInv, SuiteInv, suiteVars, Made
<1>5. RecordsInv'
  BY <1>1, RecordsKept DEF ClosureInv, indexVars
<1>6. RequirementInv'
  BY <1>1, RequirementKept DEF ClosureInv, candidateVars, suiteVars
<1>7. QED BY <1>2, <1>3, <1>4, <1>5, <1>6 DEF ClosureInv

LEMMA SubmitStep ==
  ASSUME ClosureInv, NEW operations \in Submissions, Submit(operations)
  PROVE  ClosureInv'
<1> DEFINE m == ManifestOf(contract, operations)
<1>1. PICK d : d.manifest = m /\ derived' = derived \cup {d}
  BY DEF Submit
<1>2. manifest' = m /\ UNCHANGED <<contract, suiteVars, indexVars, records, requirement>>
  BY DEF Submit
<1>3. IsManifest(m)
  BY DEF IsManifest, ClosureInv, CandidateInv
<1>4. CandidateInv'
  <2> HIDE DEF m
  <2>1. contract' \in Contracts /\ \A e \in derived : IsManifest(e.manifest)
    BY <1>2 DEF ClosureInv, CandidateInv
  <2>2. QED BY <1>1, <1>2, <1>3, <2>1 DEF CandidateInv
<1>5. IndexInv'
  BY <1>2 DEF ClosureInv, IndexInv, indexVars, Made
<1>6. SuiteInv'
  BY <1>2 DEF ClosureInv, SuiteInv, suiteVars, Made
<1>7. RecordsInv'
  BY <1>2, RecordsKept DEF ClosureInv, indexVars
<1>8. RequirementInv'
  BY <1>1, <1>2, RequirementKept DEF ClosureInv, suiteVars
<1>9. QED BY <1>4, <1>5, <1>6, <1>7, <1>8 DEF ClosureInv

LEMMA AdmitStep ==
  ASSUME ClosureInv, NEW kind \in {"candidate", "suite"}, NEW files, AdmitGeneration(kind, files)
  PROVE  ClosureInv'
<1>1. PICK n \in 1 .. Cardinality(DOMAIN generations) + 1 :
        LET g == Hash("generation", n) IN
         /\ IF g \in DOMAIN generations
            THEN UNCHANGED generations
            ELSE generations' = [h \in DOMAIN generations \cup {g} |->
                                  IF h = g THEN files ELSE generations[h]]
         /\ current' = [current EXCEPT ![kind] = g]
         /\ authority' = [authority EXCEPT ![kind] = @ \cup {g}]
  BY DEF AdmitGeneration
<1> DEFINE g == Hash("generation", n)
<1>2. UNCHANGED <<contract, candidateVars, suiteVars, records, requirement>>
  BY DEF AdmitGeneration
<1>3. Made("generation", g)
  <2>1. Cardinality(DOMAIN generations) \in Nat
    BY FS_CardinalityType DEF ClosureInv, IndexInv
  <2>2. n \in Nat /\ n # 0
    BY <2>1
  <2>3. QED BY <2>2, Hashed DEF AllKinds
<1> HIDE DEF g
<1>4. /\ DOMAIN generations' = DOMAIN generations \cup {g}
      /\ \A h \in DOMAIN generations : generations'[h] = generations[h]
  BY <1>1 DEF g
<1>5. current' = [current EXCEPT ![kind] = g] /\ authority' = [authority EXCEPT ![kind] = @ \cup {g}]
  BY <1>1 DEF g
<1>6. CandidateInv'
  BY <1>2 DEF ClosureInv, CandidateInv, candidateVars, IsManifest, ManifestOf
<1>7. IndexInv'
  <2>1. IsFiniteSet(DOMAIN generations')
    BY <1>4, FS_AddElement DEF ClosureInv, IndexInv
  <2>2. \A h \in DOMAIN generations' : Made("generation", h)
    BY <1>3, <1>4 DEF ClosureInv, IndexInv
  <2>3. current' = [candidate |-> current'.candidate, suite |-> current'.suite]
    BY <1>5 DEF ClosureInv, IndexInv
  <2>4. authority' = [authority EXCEPT ![kind] = authority[kind] \cup {g}]
    BY <1>5
  <2>5. authority' = [candidate |-> authority'.candidate, suite |-> authority'.suite]
    BY <2>4 DEF ClosureInv, IndexInv
  <2>6. \A k \in {"candidate", "suite"} :
          current'[k] \in authority'[k] /\ authority'[k] \subseteq DOMAIN generations'
    BY <1>4, <1>5, <2>4 DEF ClosureInv, IndexInv
  <2>7. QED BY <2>1, <2>2, <2>3, <2>5, <2>6 DEF IndexInv, Made
<1>8. SuiteInv'
  BY <1>2 DEF ClosureInv, SuiteInv, suiteVars, Made
<1>9. RecordsInv'
  BY <1>2, <1>4 DEF ClosureInv, RecordsInv
<1>10. RequirementInv'
  BY <1>2, RequirementKept DEF ClosureInv, candidateVars, suiteVars
<1>11. QED BY <1>6, <1>7, <1>8, <1>9, <1>10 DEF ClosureInv

LEMMA SuiteStep ==
  ASSUME ClosureInv, GenerateSuite
  PROVE  ClosureInv'
<1> DEFINE n == Cardinality(DOMAIN suites)
           new == Hash("suite", n + 1)
<1>1. /\ suite' = new
      /\ suites' = [s \in DOMAIN suites \cup {new} |-> IF s = new THEN contract.suite ELSE suites[s]]
      /\ UNCHANGED <<contract, candidateVars, indexVars, records, requirement>>
  BY DEF GenerateSuite
<1>2. n \in Nat
  BY FS_CardinalityType DEF ClosureInv, SuiteInv
<1>3. /\ new \in Nat /\ Hash("suite", n) \in Nat /\ Hash("suite", n) < new
      /\ Made("suite", new)
  BY <1>2, Hashed DEF AllKinds
<1>4. \A s \in DOMAIN suites : s \in Nat /\ s <= Hash("suite", n)
  BY DEF ClosureInv, SuiteInv, Made
<1>5. new \notin DOMAIN suites
  BY <1>3, <1>4
<1> HIDE DEF new
<1>6. /\ DOMAIN suites' = DOMAIN suites \cup {new} /\ suites'[new] = contract.suite
      /\ \A s \in DOMAIN suites : suites'[s] = suites[s]
  BY <1>1, <1>5
<1>7. CandidateInv'
  BY <1>1 DEF ClosureInv, CandidateInv, candidateVars, IsManifest, ManifestOf
<1>8. IndexInv'
  BY <1>1 DEF ClosureInv, IndexInv, indexVars, Made
<1>9. SuiteInv'
  <2>1. IsFiniteSet(DOMAIN suites') /\ Cardinality(DOMAIN suites') = n + 1
    BY <1>5, <1>6, FS_AddElement DEF ClosureInv, SuiteInv
  <2>2. new = Hash("suite", Cardinality(DOMAIN suites'))
    BY <2>1 DEF new
  <2>3. \A s \in DOMAIN suites' : Made("suite", s) /\ s <= new
    BY <1>3, <1>4, <1>6 DEF ClosureInv, SuiteInv
  <2>4. \A s \in DOMAIN suites' : UniquePaths(suites'[s])
    BY <1>6, ContractsAssumption DEF ClosureInv, SuiteInv, CandidateInv
  <2>5. suite' \in DOMAIN suites'
    BY <1>1, <1>6
  <2>6. QED BY <2>1, <2>2, <2>3, <2>4, <2>5 DEF SuiteInv, Made
<1>10. RecordsInv'
  BY <1>1, RecordsKept DEF ClosureInv, indexVars
<1>11. RequirementInv'
  BY <1>1, <1>6, RequirementKept DEF ClosureInv, candidateVars
<1>12. QED BY <1>7, <1>8, <1>9, <1>10, <1>11 DEF ClosureInv

\* A record joins those of its kind with a hash none of them has.
LEMMA AddStep ==
  ASSUME ClosureInv, NEW kind \in RecordKinds, NEW record, Add(kind, record),
         record.hash = New(kind),
         kind = "coverage" =>
           record.generation \in DOMAIN generations /\ record.index = generations[record.generation]
  PROVE  ClosureInv'
<1>1. /\ records' = [records EXCEPT ![kind] = records[kind] \cup {record}]
      /\ UNCHANGED <<contract, candidateVars, suiteVars, indexVars, requirement>>
  BY DEF Add
<1>2. /\ records' = [k \in RecordKinds |-> records'[k]]
      /\ records'[kind] = records[kind] \cup {record}
      /\ \A k \in RecordKinds \ {kind} : records'[k] = records[k]
  BY <1>1 DEF ClosureInv, RecordsInv
<1>3. /\ IsFiniteSet(records[kind]) /\ Cardinality(records[kind]) \in Nat
      /\ \A r \in records[kind] : Made(kind, r.hash)
  BY FS_CardinalityType DEF ClosureInv, RecordsInv
<1> DEFINE n == Cardinality(records[kind])
<1>4. /\ record.hash = Hash(kind, n + 1) /\ record.hash \in Nat /\ Hash(kind, n) \in Nat
      /\ Hash(kind, n) < record.hash /\ Made(kind, record.hash)
  BY <1>3, Hashed DEF New, AllKinds
<1>5. IsFiniteSet(records'[kind])
  BY <1>2, <1>3, FS_AddElement
<1>6. CandidateInv'
  BY <1>1 DEF ClosureInv, CandidateInv, candidateVars, IsManifest, ManifestOf
<1>7. IndexInv'
  BY <1>1 DEF ClosureInv, IndexInv, indexVars, Made
<1>8. SuiteInv'
  BY <1>1 DEF ClosureInv, SuiteInv, suiteVars, Made
<1>9. RecordsInv'
  <2>1. \A k \in RecordKinds : IsFiniteSet(records'[k]) /\ \A r \in records'[k] : Made(k, r.hash)
    BY <1>2, <1>3, <1>4, <1>5 DEF ClosureInv, RecordsInv
  <2>2. ASSUME kind \in Counted, NEW r \in records'[kind], NEW q \in records'[kind]
        PROVE  r.hash <= Hash(kind, Cardinality(records'[kind])) /\ (r.hash = q.hash => r = q)
    <3>1. \A x, y \in records[kind] : x.hash <= Hash(kind, n) /\ (x.hash = y.hash => x = y)
      BY <2>2 DEF ClosureInv, RecordsInv
    <3>2. \A x \in records[kind] : x.hash \in Nat /\ x.hash < record.hash
      BY <1>3, <1>4, <3>1 DEF Made
    <3>3. record \notin records[kind]
      BY <1>4, <3>2
    <3>4. Cardinality(records'[kind]) = n + 1
      BY <1>2, <1>3, <3>3, FS_AddElement
    <3>5. record.hash = Hash(kind, Cardinality(records'[kind]))
      BY <1>4, <3>4
    <3>6. r = record \/ r \in records[kind]
      BY <1>2
    <3>7. q = record \/ q \in records[kind]
      BY <1>2
    <3>8. r.hash <= record.hash
      BY <1>4, <3>2, <3>6
    <3>9. r.hash = q.hash => r = q
      BY <1>4, <3>1, <3>2, <3>6, <3>7
    <3>10. QED BY <3>5, <3>8, <3>9
  <2>3. \A k \in Counted : \A r, q \in records'[k] :
          r.hash <= Hash(k, Cardinality(records'[k])) /\ (r.hash = q.hash => r = q)
    <3>1. SUFFICES ASSUME NEW k \in Counted, NEW r \in records'[k], NEW q \in records'[k]
                   PROVE  r.hash <= Hash(k, Cardinality(records'[k])) /\ (r.hash = q.hash => r = q)
      OBVIOUS
    <3>2. CASE k = kind
      BY <2>2, <3>2
    <3>3. CASE k # kind
      <4>1. records'[k] = records[k]
        BY <1>2, <3>3 DEF RecordKinds
      <4>2. QED BY <4>1 DEF ClosureInv, RecordsInv
    <3>4. QED BY <3>2, <3>3
  <2>4. \A r \in records'.coverage :
          r.generation \in DOMAIN generations' /\ r.index = generations'[r.generation]
    <3>1. generations' = generations
      BY <1>1 DEF indexVars
    <3>2. CASE kind = "coverage"
      BY <1>2, <3>1, <3>2 DEF ClosureInv, RecordsInv
    <3>3. CASE kind # "coverage"
      <4>1. records'.coverage = records.coverage
        BY <1>2, <3>3 DEF RecordKinds, Counted
      <4>2. QED BY <3>1, <4>1 DEF ClosureInv, RecordsInv
    <3>4. QED BY <3>2, <3>3
  <2>5. QED BY <1>2, <2>1, <2>3, <2>4 DEF RecordsInv, Made
<1>10. RequirementInv'
  BY <1>1, RequirementKept DEF ClosureInv, candidateVars, suiteVars
<1>11. QED BY <1>6, <1>7, <1>8, <1>9, <1>10 DEF ClosureInv

LEMMA RecordStep ==
  ASSUME ClosureInv, Run \/ Cover \/ Validate \/ Project
  PROVE  ClosureInv'
<1>1. CASE Run
  <2>1. PICK g \in authority.candidate : Add("run", RunOf(New("run"), g))
    BY <1>1 DEF Run
  <2>2. QED BY <2>1, AddStep DEF RunOf, RecordKinds, Counted
<1>2. CASE Cover
  <2>1. PICK g \in authority.candidate, s \in contract.subjects :
          Add("coverage", CoverageOf(New("coverage"), g, s, generations[g]))
    BY <1>2 DEF Cover
  <2>2. g \in DOMAIN generations
    BY DEF ClosureInv, IndexInv
  <2>3. QED BY <2>1, <2>2, AddStep DEF CoverageOf, RecordKinds, Counted
<1>3. CASE Validate
  <2>1. PICK s \in DOMAIN suites, g \in authority.suite :
          Add("validation", ValidationOf(New("validation"), s, g))
    BY <1>3 DEF Validate
  <2>2. QED BY <2>1, AddStep DEF ValidationOf, RecordKinds, Counted
<1>4. CASE Project
  <2>1. PICK m \in contract.managed : Add("managed", ManagedOf(New("managed"), m, FilesOf(manifest)))
    BY <1>4 DEF Project
  <2>2. QED BY <2>1, AddStep DEF ManagedOf, RecordKinds, Counted
<1>5. QED BY <1>1, <1>2, <1>3, <1>4

LEMMA RequireStep ==
  ASSUME ClosureInv, Require
  PROVE  ClosureInv'
<1>1. PICK r, c, v : requirement' = RequirementOf(r, c, v)
  BY DEF Require
<1>2. UNCHANGED <<contract, candidateVars, suiteVars, indexVars, records>>
  BY DEF Require
<1>3. CandidateInv'
  BY <1>2 DEF ClosureInv, CandidateInv, candidateVars, IsManifest, ManifestOf
<1>4. IndexInv'
  BY <1>2 DEF ClosureInv, IndexInv, indexVars, Made
<1>5. SuiteInv'
  BY <1>2 DEF ClosureInv, SuiteInv, suiteVars, Made
<1>6. RecordsInv'
  BY <1>2, RecordsKept DEF ClosureInv, indexVars
<1>7. RequirementInv'
  <2>1. PICK d \in derived' : d.manifest = manifest
    BY <1>2 DEF ClosureInv, CandidateInv, candidateVars
  <2>2. suite \in DOMAIN suites /\ contract \in Contracts
    BY DEF ClosureInv, SuiteInv, CandidateInv
  <2>3. DrawnUp(contract, manifest)'
    BY <1>1, <1>2, <2>2 DEF DrawnUp, RequirementOf, ScopeNow, candidateVars, suiteVars
  <2>4. DrawnUp(contract, d.manifest)'
    BY <1>2, <2>1, <2>3 DEF candidateVars, DrawnUp
  <2>5. QED BY <1>2, <2>2, <2>4 DEF RequirementInv
<1>8. QED BY <1>3, <1>4, <1>5, <1>6, <1>7 DEF ClosureInv

\* A decision changes nothing but itself.
LEMMA DecisionStep ==
  ASSUME ClosureInv,
         UNCHANGED <<contract, candidateVars, suiteVars, indexVars, records, requirement>>
  PROVE  ClosureInv'
<1>1. CandidateInv'
  BY DEF ClosureInv, CandidateInv, candidateVars, IsManifest, ManifestOf
<1>2. IndexInv'
  BY DEF ClosureInv, IndexInv, indexVars, Made
<1>3. SuiteInv'
  BY DEF ClosureInv, SuiteInv, suiteVars, Made
<1>4. RecordsInv'
  BY RecordsKept DEF ClosureInv, indexVars
<1>5. RequirementInv'
  BY RequirementKept DEF ClosureInv, candidateVars, suiteVars
<1>6. QED BY <1>1, <1>2, <1>3, <1>4, <1>5 DEF ClosureInv

LEMMA StepClosed ==
  ASSUME ClosureInv, [ClosureNext]_closureVars
  PROVE  ClosureInv'
<1>1. ASSUME NEW c \in Contracts, Amend(c)
      PROVE  ClosureInv'
  BY <1>1, AmendStep
<1>2. ASSUME NEW operations \in Submissions, Submit(operations)
      PROVE  ClosureInv'
  BY <1>2, SubmitStep
<1>3. CASE IndexCandidate \/ IndexSuite
  BY <1>3, AdmitStep DEF IndexCandidate, IndexSuite
<1>4. CASE GenerateSuite
  BY <1>4, SuiteStep
<1>5. CASE Run \/ Cover \/ Validate \/ Project
  BY <1>5, RecordStep
<1>6. CASE Require
  BY <1>6, RequireStep
<1>7. CASE Accept \/ Close
  <2>1. UNCHANGED <<contract, candidateVars, suiteVars, indexVars, records, requirement>>
    BY <1>7 DEF Accept, Close
  <2>2. QED BY <2>1, DecisionStep
<1>8. CASE UNCHANGED closureVars
  <2>1. UNCHANGED <<contract, candidateVars, suiteVars, indexVars, records, requirement>>
    BY <1>8 DEF closureVars, candidateVars, suiteVars, indexVars
  <2>2. QED BY <2>1, DecisionStep
<1>9. QED BY <1>1, <1>2, <1>3, <1>4, <1>5, <1>6, <1>7, <1>8 DEF ClosureNext

\* The invariant of the candidate's life.
THEOREM ClosureInvariant == ClosureSpec => []ClosureInv
<1>1. ClosureInit => ClosureInv
  BY InitClosed
<1>2. ClosureInv /\ [ClosureNext]_closureVars => ClosureInv'
  BY StepClosed
<1>3. QED BY <1>1, <1>2, PTL DEF ClosureSpec

-----------------------------------------------------------------------------
(* An accepted diff.                                                       *)

\* The body written into a slot is the one submitted for it.
LEMMA SubmittedBody ==
  ASSUME NEW operations, NEW slot,
         \A i, j \in DOMAIN operations : operations[i].slot = operations[j].slot => i = j
  PROVE  /\ \A op \in ToSet(operations) : op.slot = slot => BodyOf(operations, slot) = op.body
         /\ BodyOf(operations, slot) # 0 =>
              \E op \in ToSet(operations) : op.slot = slot /\ op.body = BodyOf(operations, slot)
<1> DEFINE of == {op \in ToSet(operations) : op.slot = slot}
<1>1. \A p, q \in of : p = q
  BY DEF ToSet
<1>2. BodyOf(operations, slot) = IF of = {} THEN 0 ELSE (CHOOSE op \in of : TRUE).body
  BY DEF BodyOf
<1>3. of # {} => (CHOOSE op \in of : TRUE) \in of
  OBVIOUS
<1>4. \A op \in of : BodyOf(operations, slot) = op.body
  BY <1>1, <1>2, <1>3
<1>5. BodyOf(operations, slot) # 0 => of # {}
  BY <1>2
<1>6. QED BY <1>4, <1>5

\* Ids that are unique name one slot.
LEMMA TheSlot ==
  ASSUME NEW slots, UniqueIds(slots), NEW s \in ToSet(slots)
  PROVE  WithId(slots, s.id) = s
<1>1. \A t \in ToSet(slots) : t.id = s.id => t = s
  BY DEF UniqueIds, ToSet
<1>2. QED BY <1>1 DEF WithId

LEMMA EntriesHold ==
  ASSUME NEW c, NEW operations, NEW e \in ToSet(EntriesOf(c, operations))
  PROVE  e.content = ContentOf(c, operations, e.path)
<1> DEFINE entry(i) == [path |-> c.paths[i], content |-> ContentOf(c, operations, c.paths[i])]
<1>1. PICK i \in DOMAIN c.paths : e = entry(i)
  BY DEF ToSet, EntriesOf
<1>2. e.path = c.paths[i] /\ e.content = ContentOf(c, operations, c.paths[i])
  BY <1>1
<1>3. QED BY <1>2

\* A diff that joins is the one derived from the manifest's own submission.
LEMMA PresentedDiff ==
  ASSUME CandidateInv, NEW value, NEW of, NEW m, NEW e, IsManifest(m), Presented(value, of, m, e)
  PROVE  /\ m.entries = EntriesOf(contract, m.submission)
         /\ Derivable(contract.slots, m.submission, m.entries)
         /\ value.bindings = Bindings(contract.slots, m.submission, m.entries)
         /\ ContractJoin(value, contract)
<1>1. /\ EvaluationJoin(value, m, e) /\ ContractJoin(value, contract)
      /\ Rederived(value, contract.id, contract.baseline, of.submission, contract.slots,
                   of.submission, m.entries)
  BY DEF Presented
<1>2. m.contract = value.contract /\ m.submission = value.submission /\ value.contract = contract.id
  BY <1>1 DEF EvaluationJoin, ManifestJoin, ContractJoin
<1>3. /\ value.submission = of.submission
      /\ value.bindings = Bindings(contract.slots, of.submission, m.entries)
      /\ Derivable(contract.slots, of.submission, m.entries)
  BY <1>1 DEF Rederived, DiffOf, Sealed, Body
<1>4. PICK c \in Contracts, p \in Submissions \cup {Origin.submission} :
        m.contract = c.id /\ m.submission = p /\ m.entries = EntriesOf(c, p)
  BY ManifestsOf
<1>5. c = contract
  BY <1>2, <1>4, ContractsAssumption DEF CandidateInv
<1>6. QED BY <1>1, <1>2, <1>3, <1>4, <1>5

LEMMA BindingIsHonoured ==
  ASSUME CandidateInv, NEW value, NEW of, NEW m, NEW e, IsManifest(m), Presented(value, of, m, e),
         NEW b \in value.bindings
  PROVE  Authorises(b, m)
<1> DEFINE operations == m.submission
           slots == contract.slots
           entries == m.entries
<1>1. /\ entries = EntriesOf(contract, operations)
      /\ Derivable(slots, operations, entries)
      /\ value.bindings = Bindings(slots, operations, entries)
      /\ ContractJoin(value, contract)
  BY PresentedDiff
<1>2. PICK s \in ToSet(slots) :
        /\ s.id = b.slot
        /\ BelongsToSlot(b, s)
        /\ \E o \in ToSet(contract.obligations) : o.id = s.obligation /\ Serves(s, o)
  BY <1>1 DEF ContractJoin
<1>3. PICK o \in ToSet(contract.obligations) : o.id = s.obligation /\ Serves(s, o)
  BY <1>2
<1>4. UniqueIds(slots) /\ \A i, j \in DOMAIN operations : operations[i].slot = operations[j].slot => i = j
  BY <1>1 DEF Derivable
<1>5. PICK op \in ToSet(operations) :
        b = SlotBinding(op, WithId(slots, op.slot), EntryAt(entries, WithId(slots, op.slot).path))
  BY <1>1 DEF Bindings
<1>6. PICK t \in ToSet(slots) : t.id = op.slot /\ \E x \in ToSet(entries) : x.path = t.path
  BY <1>1 DEF Derivable
<1>7. WithId(slots, op.slot) = t
  BY <1>4, <1>6, TheSlot
<1>8. b.slot = op.slot /\ b.body = op.body /\ b.result = EntryAt(entries, t.path).content
  BY <1>5, <1>6, <1>7 DEF SlotBinding
<1>9. t = s
  BY <1>2, <1>4, <1>6, <1>8, TheSlot
<1> DEFINE x == EntryAt(entries, s.path)
<1>10. x \in ToSet(entries) /\ x.path = s.path
  BY <1>6, <1>9 DEF EntryAt
<1>11. x.content = ContentOf(contract, operations, s.path)
  BY <1>1, <1>10, EntriesHold
<1>12. BodyOf(operations, s.id) = b.body
  BY <1>2, <1>4, <1>8, SubmittedBody
<1>13. [slot |-> s.id, body |-> b.body] \in x.content
  BY <1>11, <1>12 DEF ContentOf
<1>14. b.result = x.content
  BY <1>8, <1>9
<1>15. o.role # "composition" /\ o.task = s.task /\ s.subject \in o.subjects
  BY <1>3 DEF Serves
<1>16. x \in FilesOf(m)
  BY <1>10 DEF FilesOf
<1> HIDE DEF x
<1>17. QED BY <1>2, <1>3, <1>10, <1>13, <1>14, <1>15, <1>16 DEF Authorises

LEMMA ChangeIsBound ==
  ASSUME CandidateInv, NEW value, NEW of, NEW m, NEW e, IsManifest(m), Presented(value, of, m, e),
         NEW file \in FilesOf(m), NEW x \in file.content, x.body # 0
  PROVE  \E b \in value.bindings : b.slot = x.slot /\ b.body = x.body
<1> DEFINE operations == m.submission
           slots == contract.slots
<1>1. /\ m.entries = EntriesOf(contract, operations)
      /\ Derivable(slots, operations, m.entries)
      /\ value.bindings = Bindings(slots, operations, m.entries)
  BY PresentedDiff
<1>2. UniqueIds(slots) /\ \A i, j \in DOMAIN operations : operations[i].slot = operations[j].slot => i = j
  BY <1>1 DEF Derivable
<1>3. x \in ContentOf(contract, operations, file.path)
  BY <1>1, EntriesHold DEF FilesOf
<1>4. PICK s \in ToSet(slots) : x = [slot |-> s.id, body |-> BodyOf(operations, s.id)]
  BY <1>3 DEF ContentOf
<1>5. PICK op \in ToSet(operations) : op.slot = s.id /\ op.body = x.body
  BY <1>2, <1>4, SubmittedBody
<1>6. WithId(slots, op.slot) = s
  BY <1>2, <1>5, TheSlot
<1> DEFINE b == SlotBinding(op, WithId(slots, op.slot), EntryAt(m.entries, WithId(slots, op.slot).path))
<1>7. b \in value.bindings
  BY <1>1 DEF Bindings
<1>8. b.slot = x.slot /\ b.body = x.body
  BY <1>4, <1>5, <1>6 DEF SlotBinding
<1>9. QED BY <1>7, <1>8

LEMMA AcceptIsAuthorised ==
  ASSUME ClosureInv, Accept
  PROVE  EveryChangeIsAuthorised'
<1>0. PICK value : \E of, m, e \in derived :
        /\ Presented(value, of.manifest, m.manifest, e.evaluation)
        /\ decision' = [of |-> "diff", value |-> value, manifest |-> m.manifest]
        /\ UNCHANGED contract
  BY DEF Accept
<1>1. PICK of, m, e \in derived :
        /\ Presented(value, of.manifest, m.manifest, e.evaluation)
        /\ decision' = [of |-> "diff", value |-> value, manifest |-> m.manifest]
        /\ UNCHANGED contract
  BY <1>0
<1>2. CandidateInv /\ IsManifest(m.manifest)
  BY DEF ClosureInv, CandidateInv
<1>3. \A b \in value.bindings : Authorises(b, m.manifest)
  BY <1>1, <1>2, BindingIsHonoured
<1>4. \A b \in value.bindings : Authorises(b, m.manifest)'
  BY <1>1, <1>3 DEF Authorises
<1>5. \A file \in FilesOf(m.manifest) : \A x \in file.content :
        x.body # 0 => \E b \in value.bindings : b.slot = x.slot /\ b.body = x.body
  BY <1>1, <1>2, ChangeIsBound
<1>6. QED BY <1>1, <1>4, <1>5 DEF EveryChangeIsAuthorised, Authorises

\* Whatever is not a decision leaves none behind.
LEMMA OnlyDecisions ==
  ASSUME [ClosureNext]_closureVars
  PROVE  Accept \/ Close \/ decision' = NoDecision \/ UNCHANGED closureVars
BY DEF ClosureNext, Amend, Submit, IndexCandidate, IndexSuite, AdmitGeneration, GenerateSuite, Run,
       Cover, Validate, Project, Add, Require, Undecided

\* An accepted diff authorises every changed body of its candidate and is
\* honoured by it, for all contracts, submissions and alterations of what was
\* derived.
THEOREM ChangesAreAlwaysAuthorised == ClosureSpec => []EveryChangeIsAuthorised
<1>1. ClosureInit => EveryChangeIsAuthorised
  BY DEF ClosureInit, EveryChangeIsAuthorised, NoDecision
<1>2. ASSUME ClosureInv, EveryChangeIsAuthorised, [ClosureNext]_closureVars
      PROVE  EveryChangeIsAuthorised'
  <2>1. CASE Accept
    BY <1>2, <2>1, AcceptIsAuthorised
  <2>2. CASE Close
    <3>1. decision'.of = "closure"
      BY <2>2 DEF Close
    <3>2. QED BY <3>1 DEF EveryChangeIsAuthorised
  <2>3. CASE decision' = NoDecision
    BY <2>3 DEF EveryChangeIsAuthorised, NoDecision
  <2>4. CASE UNCHANGED closureVars
    BY <1>2, <2>4 DEF closureVars, EveryChangeIsAuthorised, Authorises
  <2>5. QED BY <1>2, <2>1, <2>2, <2>3, <2>4, OnlyDecisions
<1>3. QED BY <1>1, <1>2, ClosureInvariant, PTL DEF ClosureSpec

-----------------------------------------------------------------------------
(* A closure.                                                              *)

\* A requirement in the scope of now was drawn up of the contract and the
\* candidate of now.
LEMMA RequirementOfNow ==
  ASSUME ClosureInv, requirement.scope = ScopeNow
  PROVE  DrawnUp(contract, manifest)
<1>1. ScopeNow.contract = contract.id /\ ScopeNow.manifest = manifest.hash
  BY DEF ScopeNow
<1>2. ScopeNow # <<>>
  BY DEF ScopeNow
<1>3. requirement # [scope |-> <<>>]
  BY <1>2
<1>4. PICK c \in Contracts, d \in derived : DrawnUp(c, d.manifest)
  BY <1>3 DEF ClosureInv, RequirementInv
<1>5. c = contract
  BY <1>1, <1>4, ContractsAssumption DEF DrawnUp, ClosureInv, CandidateInv
<1>6. IsManifest(d.manifest) /\ IsManifest(manifest)
  BY ManifestIsOne DEF ClosureInv, CandidateInv
<1>7. d.manifest = manifest
  BY <1>1, <1>4, <1>6, SameManifest DEF DrawnUp
<1>8. QED BY <1>4, <1>5, <1>7

\* What no longer authenticates is records or a suite.
LEMMA FailingWereMade ==
  ASSUME ClosureInv, NEW now \in Circumstances, NEW h \in now.failing
  PROVE  \E kind \in RecordKinds \cup {"suite"} : Made(kind, h)
<1>1. DOMAIN records = RecordKinds
  BY DEF ClosureInv, RecordsInv
<1>2. \/ \E kind \in RecordKinds : h \in {b.hash : b \in records[kind]}
      \/ h \in DOMAIN suites
  BY <1>1 DEF Circumstances
<1>3. QED BY <1>2 DEF ClosureInv, RecordsInv, SuiteInv

\* A request that closes and was made up of what is at hand.
LEMMA ClosesOnNow ==
  ASSUME ClosureInv, requirement.scope = ScopeNow,
         NEW g \in DOMAIN generations, NEW h \in DOMAIN generations, NEW now \in Circumstances,
         NEW s, NEW managed \in SUBSET records.managed, NEW request,
         request = Request(ProjectionOf(g), s, ProjectionOf(h), managed, AuthenticatedNow(now)),
         Closes(request)
  PROVE  IsCurrent(ClosureOf(request), now)
<1> DEFINE files == FilesOf(manifest)
           c == ClosureOf(request)
<1>1. /\ request.requirements = requirement
      /\ request.candidate = ProjectionOf(g)
      /\ request.suite.hash = s /\ request.suite.projection = ProjectionOf(h)
      /\ request.authenticated = AuthenticatedNow(now)
      /\ request.runs = {r \in records.run : r.hash \in requirement.runs}
      /\ request.coverage = {r \in records.coverage : Measured(r) \in requirement.coverage}
      /\ request.validations = {r \in records.validation : r.hash \in requirement.validations}
      /\ request.managed = managed
  BY DEF Request
<1>2. /\ c.scope = requirement.scope /\ c.generation = g /\ c.suite = s /\ c.suiteGeneration = h
      /\ c.runs = {b.hash : b \in request.runs}
      /\ c.coverage = {b.hash : b \in request.coverage}
      /\ c.validations = {b.hash : b \in request.validations}
      /\ c.managed = {b.hash : b \in request.managed}
      /\ c.chain = Chain(request)
  BY <1>1 DEF ClosureOf, ProjectionOf
<1>3. /\ CandidateMatches(request) /\ SuiteMatches(request) /\ RunsMatch(request)
      /\ CoverageMatches(request) /\ ValidationsMatch(request) /\ ManagedMatches(request)
  BY DEF Closes
<1>4. /\ AuthenticatedNow(now).suites = DOMAIN suites \ now.failing
      /\ AuthenticatedNow(now).records = Recorded \ now.failing
      /\ AuthenticatedNow(now).adapters = now.qualified
  BY DEF AuthenticatedNow
<1>5. /\ ProjectionOf(g).generation = g /\ ProjectionOf(g).files = generations[g]
      /\ ProjectionOf(g).subjects = SubjectsIn(contract, generations[g])
      /\ ProjectionOf(g).relationships = Relations(generations[g])
      /\ ProjectionOf(h).generation = h /\ ProjectionOf(h).files = generations[h]
  BY DEF ProjectionOf
<1>6. DrawnUp(contract, manifest)
  BY RequirementOfNow
<1>7. generations[g] = files /\ Relations(files) = contract.relationships
  BY <1>1, <1>3, <1>5, <1>6 DEF CandidateMatches, DrawnUp
<1>8. s \in DOMAIN suites \ now.failing /\ generations[h] = suites[s]
  BY <1>1, <1>3, <1>4, <1>5, <1>6 DEF SuiteMatches, DrawnUp
<1>9. \A kind \in Counted : \A r, q \in records[kind] : r.hash = q.hash => r = q
  BY DEF ClosureInv, RecordsInv
<1> HIDE DEF c
<1>10. ASSUME NEW r \in Named("run", c.runs)
       PROVE  generations[r.generation] = files
  <2>1. PICK b \in request.runs : r.hash = b.hash
    BY <1>2 DEF Named
  <2>2. r = b
    BY <1>1, <1>9, <2>1 DEF Named, Counted
  <2>3. QED BY <1>1, <1>3, <1>5, <1>7, <2>2 DEF RunsMatch
<1>11. ASSUME NEW r \in Named("coverage", c.coverage)
       PROVE  /\ generations[r.generation] = files
              /\ \E x \in contract.subjects :
                   x.subject = r.subject /\ ContentAt(files, x.path) = r.source
  <2>1. PICK b \in request.coverage : r.hash = b.hash
    BY <1>2 DEF Named
  <2>2. r = b
    BY <1>1, <1>9, <2>1 DEF Named, Counted
  <2>3. r.generation = g
    BY <1>1, <1>3, <1>5, <2>2 DEF CoverageMatches
  <2>4. Measured(r) \in requirement.coverage
    BY <1>1, <2>2
  <2>5. PICK y \in SubjectsIn(contract, files) : y.subject = r.subject /\ y.source = r.source
    BY <1>1, <1>3, <1>5, <1>7, <2>4 DEF CoverageMatches, Measured
  <2>6. PICK x \in contract.subjects :
          y = [subject |-> x.subject, path |-> x.path, source |-> ContentAt(files, x.path)]
    BY DEF SubjectsIn
  <2>7. QED BY <1>7, <2>3, <2>5, <2>6
<1>12. ASSUME NEW r \in Named("validation", c.validations)
       PROVE  r.suite = s /\ generations[r.generation] = suites[s]
  <2>1. PICK b \in request.validations : r.hash = b.hash
    BY <1>2 DEF Named
  <2>2. r = b
    BY <1>1, <1>9, <2>1 DEF Named, Counted
  <2>3. QED BY <1>1, <1>3, <1>5, <1>8, <2>2 DEF ValidationsMatch
<1>13. ASSUME NEW m \in contract.managed
       PROVE  /\ m.adapter \in now.qualified
              /\ \E r \in Named("managed", c.managed) :
                   r.adapter = m.adapter /\ r.raw = ContentAt(files, m.path)
  <2>1. ManagedFor(m, files) \in requirement.managed
    BY <1>6 DEF DrawnUp
  <2>2. ManagedFor(m, files).adapter = m.adapter /\ ManagedFor(m, files).raw = ContentAt(files, m.path)
    BY DEF ManagedFor
  <2>3. m.adapter \in now.qualified
    BY <1>1, <1>3, <1>4, <2>1, <2>2 DEF ManagedMatches
  <2>4. PICK b \in managed : Projected(b) = ManagedFor(m, files)
    BY <1>1, <1>3, <2>1 DEF ManagedMatches
  <2>5. b.adapter = m.adapter /\ b.raw = ContentAt(files, m.path)
    BY <2>2, <2>4 DEF Projected
  <2>6. b \in Named("managed", c.managed)
    BY <1>1, <1>2 DEF Named
  <2>7. QED BY <2>3, <2>5, <2>6
<1>14. c.chain \cap now.failing = {}
  <2>1. SUFFICES ASSUME NEW x \in now.failing
                 PROVE  x \notin Chain(request)
    BY <1>2
  <2>2. PICK kind \in RecordKinds \cup {"suite"} : Made(kind, x)
    BY FailingWereMade
  <2>3. Made("generation", g) /\ Made("generation", h)
    BY DEF ClosureInv, IndexInv
  <2>4. kind # "generation"
    BY DEF RecordKinds, Counted
  <2>5. x # g /\ x # h /\ x # s
    BY <1>8, <2>2, <2>3, <2>4, HashesDiffer DEF AllKinds
  <2>6. \A b \in request.runs \cup request.coverage \cup request.validations \cup request.managed :
          b.hash # x
    BY <1>1, <1>3, <1>4 DEF RunsMatch, CoverageMatches, ValidationsMatch, ManagedMatches
  <2>7. QED BY <1>1, <1>5, <2>5, <2>6 DEF Chain
<1>15. current.candidate = g /\ current.suite = h
  BY <1>1, <1>3, <1>5 DEF CandidateMatches, SuiteMatches, AuthenticatedNow
<1>16. c.scope = ScopeNow /\ c.suite \in DOMAIN suites
  BY <1>2, <1>8
<1>17. IsCurrent(c, now)
  BY <1>2, <1>7, <1>8, <1>10, <1>11, <1>12, <1>13, <1>14, <1>15, <1>16 DEF IsCurrent
<1>18. QED BY <1>17 DEF c

LEMMA CloseIsCurrent ==
  ASSUME ClosureInv, Close
  PROVE  ClosureIsCurrent'
<1>1. requirement.scope = ScopeNow
  BY DEF Close
<1>2. PICK candidate \in {ProjectionOf(g) : g \in DOMAIN generations},
           suiteProjection \in {ProjectionOf(g) : g \in DOMAIN generations},
           s \in DOMAIN suites, now \in Circumstances, managed \in SUBSET records.managed :
        \E request :
          /\ request = Request(candidate, s, suiteProjection, managed, AuthenticatedNow(now))
          /\ Closes(request)
          /\ decision' = [of |-> "closure", closure |-> ClosureOf(request), now |-> now]
  BY DEF Close
<1>3. PICK g \in DOMAIN generations, h \in DOMAIN generations :
        candidate = ProjectionOf(g) /\ suiteProjection = ProjectionOf(h)
  OBVIOUS
<1> DEFINE request == Request(ProjectionOf(g), s, ProjectionOf(h), managed, AuthenticatedNow(now))
<1>4. /\ Closes(request)
      /\ decision' = [of |-> "closure", closure |-> ClosureOf(request), now |-> now]
  BY <1>2, <1>3
<1>5. IsCurrent(ClosureOf(request), now)
  BY <1>1, <1>4, ClosesOnNow
<1>6. decision'.closure = ClosureOf(request) /\ decision'.now = now
  BY <1>4
<1>7. UNCHANGED <<contract, candidateVars, suiteVars, indexVars, records>>
  BY DEF Close
<1>8. IsCurrent(decision'.closure, decision'.now)
  BY <1>5, <1>6
<1>9. IsCurrent(decision.closure, decision.now)'
  BY <1>7, <1>8 DEF IsCurrent, Named, ScopeNow, candidateVars, suiteVars, indexVars
<1>10. QED BY <1>9 DEF ClosureIsCurrent

\* A closure speaks of the candidate, the generations, the records and the
\* adapters of the moment, and of a suite generated before that still
\* authenticates and whose files are the ones indexed, for all contracts,
\* submissions and histories of indexing and of suites.
THEOREM ClosuresAreAlwaysCurrent == ClosureSpec => []ClosureIsCurrent
<1>1. ClosureInit => ClosureIsCurrent
  BY DEF ClosureInit, ClosureIsCurrent, NoDecision
<1>2. ASSUME ClosureInv, ClosureIsCurrent, [ClosureNext]_closureVars
      PROVE  ClosureIsCurrent'
  <2>1. CASE Accept
    <3>1. decision'.of = "diff"
      BY <2>1 DEF Accept
    <3>2. QED BY <3>1 DEF ClosureIsCurrent
  <2>2. CASE Close
    BY <1>2, <2>2, CloseIsCurrent
  <2>3. CASE decision' = NoDecision
    BY <2>3 DEF ClosureIsCurrent, NoDecision
  <2>4. CASE UNCHANGED closureVars
    <3>1. UNCHANGED <<decision, contract, manifest, evaluation, suites, current, generations, records>>
      BY <2>4 DEF closureVars
    <3>2. IsCurrent(decision.closure, decision.now) <=> IsCurrent(decision.closure, decision.now)'
      BY <3>1 DEF IsCurrent, Named, ScopeNow
    <3>3. QED BY <1>2, <3>1, <3>2 DEF ClosureIsCurrent
  <2>5. QED BY <1>2, <2>1, <2>2, <2>3, <2>4, OnlyDecisions
<1>3. QED BY <1>1, <1>2, ClosureInvariant, PTL DEF ClosureSpec

-----------------------------------------------------------------------------
(* Nothing true is refused.                                                *)

LEMMA CandidatePathsAreUnique ==
  ASSUME ClosureInv
  PROVE  UniquePaths(FilesOf(manifest))
<1>1. PICK c \in Contracts, operations \in Submissions \cup {Origin.submission} :
        manifest.entries = EntriesOf(c, operations)
  BY ManifestIsOne, ManifestsOf DEF ClosureInv
<1>2. SUFFICES ASSUME NEW x \in FilesOf(manifest), NEW y \in FilesOf(manifest), x.path = y.path
               PROVE  x = y
  BY DEF UniquePaths
<1> DEFINE entry(i) == [path |-> c.paths[i], content |-> ContentOf(c, operations, c.paths[i])]
<1>3. PICK i \in DOMAIN c.paths : x = entry(i)
  BY <1>1 DEF FilesOf, ToSet, EntriesOf
<1>4. PICK j \in DOMAIN c.paths : y = entry(j)
  BY <1>1 DEF FilesOf, ToSet, EntriesOf
<1>5. c.paths[i] = c.paths[j]
  BY <1>2, <1>3, <1>4
<1>6. i \in Nat /\ j \in Nat /\ c.paths[i] \in Nat /\ c.paths[j] \in Nat
  BY ContractsAssumption
<1>7. ~(i < j) /\ ~(j < i)
  BY <1>5, <1>6, ContractsAssumption
<1>8. i = j
  BY <1>6, <1>7
<1>9. QED BY <1>3, <1>4, <1>8

LEMMA SubjectsAreOnce ==
  ASSUME ClosureInv, NEW files
  PROVE  UniqueSubjects(SubjectsIn(contract, files))
<1>1. SUFFICES ASSUME NEW x \in SubjectsIn(contract, files), NEW y \in SubjectsIn(contract, files),
                      x.subject = y.subject
               PROVE  x = y
  BY DEF UniqueSubjects
<1> DEFINE of(s) == [subject |-> s.subject, path |-> s.path, source |-> ContentAt(files, s.path)]
<1>2. PICK s \in contract.subjects : x = of(s)
  BY DEF SubjectsIn
<1>3. PICK t \in contract.subjects : y = of(t)
  BY DEF SubjectsIn
<1>4. s = t
  BY <1>1, <1>2, <1>3, ContractsAssumption DEF ClosureInv, CandidateInv
<1>5. QED BY <1>2, <1>3, <1>4

LEMMA TruthCloses ==
  ASSUME ClosureInv,
         generations[current.candidate] = FilesOf(manifest),
         generations[current.suite] = suites[suite],
         authority.candidate \cap authority.suite = {},
         Relations(FilesOf(manifest)) = contract.relationships,
         NEW r \in records.run, NEW c \in records.coverage, NEW v \in records.validation,
         NEW managed \in SUBSET records.managed,
         MadeNow(r, c, v, managed), requirement = RequirementOf(r, c, v),
         NEW request,
         request = Request(ProjectionOf(current.candidate), suite, ProjectionOf(current.suite),
                           managed, AuthenticatedNow([failing |-> {}, qualified |-> Adapters]))
  PROVE  Closes(request)
<1> DEFINE files == FilesOf(manifest)
           a == AuthenticatedNow([failing |-> {}, qualified |-> Adapters])
           candidate == ProjectionOf(current.candidate)
           suiteProjection == ProjectionOf(current.suite)
<1>1. /\ request.requirements = requirement
      /\ request.candidate = candidate
      /\ request.suite.hash = suite /\ request.suite.projection = suiteProjection
      /\ request.authenticated = a
      /\ request.runs = {x \in records.run : x.hash \in requirement.runs}
      /\ request.coverage = {x \in records.coverage : Measured(x) \in requirement.coverage}
      /\ request.validations = {x \in records.validation : x.hash \in requirement.validations}
      /\ request.managed = managed
  BY DEF Request
<1>2. /\ a.scope = ScopeNow /\ a.suites = DOMAIN suites /\ a.records = Recorded /\ a.adapters = Adapters
      /\ a.candidate = current.candidate /\ a.suiteGeneration = current.suite
      /\ a.candidates = authority.candidate /\ a.suiteGenerations = authority.suite
  BY DEF AuthenticatedNow
<1>3. /\ candidate.generation = current.candidate /\ candidate.index = files
      /\ candidate.files = files /\ candidate.subjects = SubjectsIn(contract, files)
      /\ candidate.relationships = contract.relationships
      /\ suiteProjection.generation = current.suite /\ suiteProjection.files = suites[suite]
      /\ suiteProjection.subjects = SubjectsIn(contract, suites[suite])
      /\ suiteProjection.relationships = Relations(suites[suite])
  BY DEF ProjectionOf
<1>4. /\ requirement.scope = ScopeNow
      /\ requirement.files = files /\ requirement.subjects = SubjectsIn(contract, files)
      /\ requirement.relationships = contract.relationships
      /\ requirement.suite = suite /\ requirement.suiteFiles = suites[suite]
      /\ requirement.suiteTargets = SubjectsIn(contract, suites[suite])
      /\ requirement.suiteRelationships = Relations(suites[suite])
      /\ requirement.runs = {r.hash} /\ requirement.coverage = {Measured(c)}
      /\ requirement.validations = {v.hash}
      /\ requirement.managed = {ManagedFor(m, files) : m \in contract.managed}
  BY DEF RequirementOf
<1> HIDE DEF a, candidate, suiteProjection, files
<1>5. /\ current.candidate \in authority.candidate /\ current.suite \in authority.suite
      /\ suite \in DOMAIN suites
  BY DEF ClosureInv, IndexInv, SuiteInv
<1>6. \A kind \in Counted : \A x, y \in records[kind] : x.hash = y.hash => x = y
  BY DEF ClosureInv, RecordsInv
<1>7. /\ \A x \in records.run \cup records.coverage \cup records.validation \cup records.managed :
           x.hash \in Recorded
  BY DEF Recorded
<1>8. InScope(request)
  BY <1>1, <1>2, <1>4 DEF InScope
<1>9. Unambiguous(request)
  BY <1>1, <1>4, <1>5, CandidatePathsAreUnique, SubjectsAreOnce DEF Unambiguous, ClosureInv, SuiteInv, files
<1>10. AuthoritiesAreApart(request)
  BY <1>1, <1>2, <1>5 DEF AuthoritiesAreApart
<1>11. CandidateMatches(request)
  BY <1>1, <1>2, <1>3, <1>4, <1>5 DEF CandidateMatches
<1>12. SuiteMatches(request)
  BY <1>1, <1>2, <1>3, <1>4, <1>5 DEF SuiteMatches
<1>13. RunsMatch(request)
  <2>1. request.runs = {r}
    BY <1>1, <1>4, <1>6 DEF Counted
  <2>2. {b.hash : b \in request.runs} = {r.hash}
    BY <2>1
  <2>3. r.generation = current.candidate
    BY DEF MadeNow
  <2>4. r.hash \in request.authenticated.records
    BY <1>1, <1>2, <1>7
  <2>5. request.requirements.runs = {r.hash} /\ request.candidate.generation = current.candidate
    BY <1>1, <1>3, <1>4
  <2>6. QED BY <2>1, <2>2, <2>3, <2>4, <2>5 DEF RunsMatch
<1>14. CoverageMatches(request)
  <2>1. /\ Measured(c).subject = c.subject /\ Measured(c).source = c.source
        /\ \A x : Measured(x).hash = x.hash
    BY DEF Measured
  <2>2. \A x \in records.coverage : Measured(x) = Measured(c) => x = c
    BY <1>6, <2>1 DEF Counted
  <2>3. request.coverage = {c}
    BY <1>1, <1>4, <2>2
  <2>4. {Measured(b) : b \in request.coverage} = {Measured(c)}
    BY <2>3
  <2>5. /\ c.generation = current.candidate
        /\ \E s \in SubjectsIn(contract, files) : s.subject = c.subject /\ s.source = c.source
    BY DEF MadeNow, files
  <2>6. c.index = files
    BY <2>5 DEF ClosureInv, RecordsInv, files
  <2>7. c.hash \in request.authenticated.records
    BY <1>1, <1>2, <1>7
  <2>8. /\ request.requirements.coverage = {Measured(c)}
        /\ request.candidate.generation = current.candidate /\ request.candidate.index = files
        /\ request.candidate.subjects = SubjectsIn(contract, files)
    BY <1>1, <1>3, <1>4
  <2>9. QED BY <2>1, <2>3, <2>4, <2>5, <2>6, <2>7, <2>8 DEF CoverageMatches
<1>15. ValidationsMatch(request)
  <2>1. request.validations = {v}
    BY <1>1, <1>4, <1>6 DEF Counted
  <2>2. {b.hash : b \in request.validations} = {v.hash}
    BY <2>1
  <2>3. v.suite = suite /\ v.generation = current.suite
    BY DEF MadeNow
  <2>4. v.hash \in request.authenticated.records
    BY <1>1, <1>2, <1>7
  <2>5. /\ request.requirements.validations = {v.hash} /\ request.suite.hash = suite
        /\ request.suite.projection.generation = current.suite
    BY <1>1, <1>3, <1>4
  <2>6. QED BY <2>1, <2>2, <2>3, <2>4, <2>5 DEF ValidationsMatch
<1>16. ManagedMatches(request)
  <2>1. /\ {Projected(b) : b \in managed} = requirement.managed
        /\ Cardinality(managed) = Cardinality(requirement.managed)
    BY <1>4 DEF MadeNow, files
  <2>2. OrdersAgree(managed)
    BY DEF MadeNow, OrdersAgree
  <2>3. \A m \in requirement.managed : m.adapter \in Adapters
    BY <1>4, ContractsAssumption DEF ClosureInv, CandidateInv, ManagedFor
  <2>4. \A b \in managed : b.hash \in Recorded
    BY <1>7
  <2>5. QED BY <1>1, <1>2, <2>1, <2>2, <2>3, <2>4 DEF ManagedMatches
<1>17. QED BY <1>8, <1>9, <1>10, <1>11, <1>12, <1>13, <1>14, <1>15, <1>16 DEF Closes

\* A requirement drawn up of what is indexed and recorded now closes.
THEOREM NothingTrueIsRefused == ClosureSpec => []TruthIsClosed
<1>1. ClosureInv => TruthIsClosed
  BY TruthCloses DEF TruthIsClosed
<1>2. QED BY <1>1, ClosureInvariant, PTL

=============================================================================
