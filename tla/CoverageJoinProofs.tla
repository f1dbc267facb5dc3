------------------------- MODULE CoverageJoinProofs -------------------------
(***************************************************************************)
(* Theorems of CoverageJoin, for every set of files, contracts, records    *)
(* and indexers.                                                           *)
(***************************************************************************)
EXTENDS CoverageJoin, TLAPS

-----------------------------------------------------------------------------
(* The store and the files.                                                *)

\* What an indexer has gathered on the way to a commit.
IndexerOK(x) ==
  LET me == indexer[x]
  IN /\ me = [pc |-> me.pc, before |-> me.before, scope |-> me.scope,
              seen |-> me.seen, admission |-> me.admission]
     /\ me.pc \in {"running", "indexed"} =>
          /\ me.scope \in {Scope[c] : c \in DOMAIN Scope}
          /\ me.before \in [me.scope.inputs -> Contents]
     /\ me.pc = "indexed" => me.seen \in [me.scope.indexed -> Contents \cup {Absent}]
     /\ me.pc = "verified" => me.admission \in Store!Admissions

StoreInv ==
  /\ content \in [Files -> Contents \cup {Absent}]
  /\ content[ContractFile] \in DOMAIN Scope \cup {Absent}
  /\ active \in Store!Admissions \cup {None}
  /\ indexer = [x \in Indexers |-> indexer[x]]
  /\ \A x \in Indexers : IndexerOK(x)

\* An admission pairs the input hashes with the scope of its contract.
LEMMA AdmissionParts ==
  ASSUME NEW c \in DOMAIN Scope,
         NEW i \in [Scope[c].inputs -> Contents],
         NEW s \in [Scope[c].indexed -> Contents \cup {Absent}]
  PROVE  [contract |-> c, inputs |-> i, index |-> s] \in Store!Admissions
  BY DEF Store!Admissions

\* Everything an admission covers is a file of the project.
LEMMA AdmissionCovers ==
  ASSUME NEW a \in Store!Admissions
  PROVE  /\ a # None
         /\ a.contract \in DOMAIN Scope
         /\ a.inputs \in [Scope[a.contract].inputs -> Contents]
         /\ Covers(a) \subseteq Files
<1>1. a # None
  BY StoreAssumption DEF Store!NoneAssumption
<1>2. /\ a.contract \in DOMAIN Scope
      /\ a.inputs \in [Scope[a.contract].inputs -> Contents]
  BY DEF Store!Admissions
<1> QED
  BY <1>1, <1>2, StoreAssumption DEF Store!FilesAssumption, Covers

LEMMA StoreStart == Init => StoreInv
  BY StoreAssumption DEF Init, StoreInv, IndexerOK, Store!IdleIndexer, Store!FilesAssumption

\* A file changes to one of its permitted contents, and no other file does.
LEMMA EditedFile ==
  ASSUME StoreInv, NEW f \in Files, Edit(f)
  PROVE  /\ StoreInv'
         /\ UNCHANGED <<active, join>>
         /\ \A g \in Files \ {f} : content'[g] = content[g]
<1> PICK c \in Choices[f] : content' = [content EXCEPT ![f] = c]
  BY DEF Edit, Store!Edit
<1>1. c \in Contents \cup {Absent} /\ (f = ContractFile => c \in DOMAIN Scope \cup {Absent})
  BY StoreAssumption DEF Store!FilesAssumption
<1>2. content' \in [Files -> Contents \cup {Absent}]
  BY <1>1 DEF StoreInv
<1>3. content'[ContractFile] \in DOMAIN Scope \cup {Absent}
  BY <1>1 DEF StoreInv
<1>4. UNCHANGED <<active, indexer, join>>
  BY DEF Edit, Store!Edit
<1> QED
  BY <1>2, <1>3, <1>4 DEF StoreInv, IndexerOK

LEMMA IndexerStep ==
  ASSUME StoreInv, NEW x \in Indexers, Index(x) \/ Admit(x)
  PROVE  StoreInv' /\ UNCHANGED <<content, join>>
<1> USE DEF StoreInv
<1> DEFINE me == indexer[x]
<1>1. CASE Store!StartIndexer(x) /\ Index(x)
  <2> DEFINE scope == Scope[content[ContractFile]]
  <2>1. indexer' = [indexer EXCEPT ![x] =
          [Store!IdleIndexer EXCEPT !.pc = "running", !.scope = scope,
             !.before = [f \in scope.inputs |-> content[f]]]]
    BY <1>1 DEF Store!StartIndexer
  <2>2. content[ContractFile] \in DOMAIN Scope
    BY <1>1 DEF Store!StartIndexer, Store!Present
  <2>3. [f \in scope.inputs |-> content[f]] \in [scope.inputs -> Contents]
    BY <1>1, <2>2, StoreAssumption DEF Store!StartIndexer, Store!Present, Store!FilesAssumption
  <2>4. IndexerOK(x)'
    BY <2>1, <2>2, <2>3 DEF IndexerOK, Store!IdleIndexer
  <2> QED
    BY <1>1, <2>1, <2>4 DEF Store!StartIndexer, Index, IndexerOK
<1>2. CASE Store!RunIndexer(x) /\ Index(x)
  <2>1. indexer' = [indexer EXCEPT ![x] =
          [me EXCEPT !.pc = "indexed", !.seen = [f \in me.scope.indexed |-> content[f]]]]
    BY <1>2 DEF Store!RunIndexer
  <2>2. IndexerOK(x) /\ me.pc = "running"
    BY <1>2 DEF Store!RunIndexer
  <2>3. [f \in me.scope.indexed |-> content[f]] \in [me.scope.indexed -> Contents \cup {Absent}]
    BY <2>2, StoreAssumption DEF IndexerOK, Store!FilesAssumption
  <2>4. IndexerOK(x)'
    BY <2>1, <2>2, <2>3 DEF IndexerOK
  <2> QED
    BY <1>2, <2>1, <2>4 DEF Store!RunIndexer, Index, IndexerOK
<1>3. CASE Store!VerifyIndex(x) /\ Index(x)
  <2> DEFINE contract == content[ContractFile]
             new == [contract |-> contract, inputs |-> me.before, index |-> me.seen]
  <2>1. indexer' = [indexer EXCEPT ![x] = [me EXCEPT !.pc = "verified", !.admission = new]]
    BY <1>3 DEF Store!VerifyIndex
  <2>2. IndexerOK(x) /\ me.pc = "indexed"
    BY <1>3 DEF Store!VerifyIndex
  <2>3. /\ contract \in DOMAIN Scope
        /\ Scope[contract].inputs = me.scope.inputs
        /\ Scope[contract].indexed = me.scope.indexed
    BY <1>3 DEF Store!VerifyIndex
  <2>4. new \in Store!Admissions
    BY <2>2, <2>3, AdmissionParts DEF IndexerOK
  <2> HIDE DEF new
  <2>5. IndexerOK(x)'
    BY <2>1, <2>2, <2>4 DEF IndexerOK
  <2> QED
    BY <1>3, <2>1, <2>5 DEF Store!VerifyIndex, Index, IndexerOK
<1>4. CASE Store!AbandonIndexer(x) /\ Index(x)
  BY <1>4 DEF Store!AbandonIndexer, Store!IdleIndexer, Index, IndexerOK
<1>5. CASE Admit(x)
  <2>1. /\ indexer' = [indexer EXCEPT ![x] = Store!IdleIndexer]
        /\ active' = me.admission
        /\ me.pc = "verified"
        /\ UNCHANGED <<content, join>>
    BY <1>5 DEF Admit, Store!CommitAdmission
  <2>2. me.admission \in Store!Admissions
    BY <2>1 DEF IndexerOK
  <2> QED
    BY <2>1, <2>2 DEF Store!IdleIndexer, IndexerOK
<1> QED
  BY <1>1, <1>2, <1>3, <1>4, <1>5 DEF Index

LEMMA IndexIsQuiet ==
  ASSUME NEW x \in Indexers, Index(x)
  PROVE  UNCHANGED <<content, active, join, history>>
  BY DEF Index, Store!StartIndexer, Store!RunIndexer, Store!VerifyIndex, Store!AbandonIndexer

-----------------------------------------------------------------------------
(* The join.                                                               *)

\* What has been read, and what of it is still so, step by step.
JoinInv ==
  /\ join = [pc |-> join.pc, admission |-> join.admission, checking |-> join.checking,
             unread |-> join.unread, records |-> join.records, entries |-> join.entries]
  /\ history = [seen |-> history.seen, strayed |-> history.strayed,
                returned |-> history.returned, together |-> history.together,
                after |-> history.after, switched |-> history.switched]
  /\ join.pc \in {"idle", "read", "opening", "joined", "confirmed", "closing", "done", "refused"}
  /\ join.pc \in {"idle", "refused"} => join.admission = None
  /\ join.pc \notin {"idle", "refused"} => join.admission \in Store!Admissions /\ active # None
  /\ join.pc \in {"read", "confirmed"} => active = join.admission \/ history.switched
  /\ join.pc \in {"opening", "closing"} =>
       /\ join.checking \in Store!Admissions
       /\ join.unread \subseteq Covers(join.checking)
       /\ join.checking = join.admission \/ history.switched
  /\ join.pc \notin {"opening", "closing"} => join.unread = {}
  /\ join.entries # {} <=> Joined \/ join.pc = "done"

\* The first check: a file it has read is as admitted, or was changed since.
OpeningInv ==
  join.pc = "opening" /\ ~history.switched =>
    \A f \in Covers(join.admission) \ join.unread :
      f \in history.seen /\ (Holds(join.admission, f) \/ f \in history.strayed)

\* What is as admitted now has been so since the records were joined; and if
\* some file was not as admitted then, it has strayed and never returned.
ClosingInv ==
  /\ Joined \/ join.pc = "done" => history.after \subseteq Covers(join.admission)
  /\ Joined => Current(join.admission) \subseteq history.after
  /\ join.pc = "closing" /\ ~history.switched =>
       Covers(join.admission) \ join.unread \subseteq history.after
  /\ join.pc = "done" /\ ~history.switched => Covers(join.admission) \subseteq history.after
  /\ (Joined \/ join.pc = "done") /\ ~history.switched /\ ~history.returned /\ ~history.together =>
       \E f \in Covers(join.admission) : f \in history.strayed \ history.after

Inv == StoreInv /\ JoinInv /\ OpeningInv /\ ClosingInv

Steady == JoinInv /\ OpeningInv /\ ClosingInv

LEMMA JoinStart == Init => Steady
  BY DEF Init, Steady, JoinInv, OpeningInv, ClosingInv, Idle, Nothing, Joined

\* An editor's change keeps the accounts right.
LEMMA EditIsSteady ==
  ASSUME Inv, NEW f \in Files, Edit(f)
  PROVE  Steady'
<1> DEFINE A == join.admission
           now == content'[f] = Admitted(A, f)
<1> USE DEF Inv
<1>1. UNCHANGED <<active, join>> /\ \A g \in Files \ {f} : content'[g] = content[g]
  BY EditedFile
<1>2. A \in Store!Admissions => Covers(A) \subseteq Files
  BY AdmissionCovers
<1>3. CASE A = None \/ f \notin Covers(A) \/ join.pc = "done"
  <2>1. history' = history
    BY <1>3 DEF Edit
  <2>2. A \in Store!Admissions /\ join.pc # "done" =>
          \A g \in Covers(A) : Holds(A, g)' <=> Holds(A, g)
    BY <1>1, <1>2, <1>3, AdmissionCovers DEF Holds, Admitted
  <2>3. JoinInv'
    BY <1>1, <2>1 DEF JoinInv, Joined, Covers
  <2>4. OpeningInv'
    BY <1>1, <2>1, <2>2 DEF JoinInv, OpeningInv, Covers
  <2>5. ClosingInv'
    BY <1>1, <2>1, <2>2 DEF JoinInv, ClosingInv, Joined, Covers, Current
  <2> QED
    BY <2>3, <2>4, <2>5 DEF Steady
<1>4. CASE ~(A = None \/ f \notin Covers(A) \/ join.pc = "done")
  <2>1. history' = [history EXCEPT
          !.strayed = IF ~now /\ f \in history.seen THEN @ \cup {f} ELSE @,
          !.returned = @ \/ (now /\ f \in history.strayed /\ Joined),
          !.after = IF now /\ Joined THEN @ \cup {f} ELSE @]
    BY <1>4 DEF Edit
  <2>2. A \in Store!Admissions /\ join.pc \notin {"idle", "refused", "done"}
    BY <1>4 DEF JoinInv
  <2>3. /\ Holds(A, f)' <=> now
        /\ \A g \in Covers(A) \ {f} : Holds(A, g)' <=> Holds(A, g)
    BY <1>1, <1>2, <2>2 DEF Holds, Admitted
  <2> HIDE DEF now
  <2>4. /\ history'.seen = history.seen
        /\ history'.together = history.together
        /\ history'.switched = history.switched
        /\ history'.strayed = IF ~now /\ f \in history.seen THEN history.strayed \cup {f} ELSE history.strayed
        /\ history'.returned = (history.returned \/ (now /\ f \in history.strayed /\ Joined))
        /\ history'.after = IF now /\ Joined THEN history.after \cup {f} ELSE history.after
        /\ history' = [seen |-> history'.seen, strayed |-> history'.strayed,
                       returned |-> history'.returned, together |-> history'.together,
                       after |-> history'.after, switched |-> history'.switched]
    BY <2>1 DEF JoinInv
  <2>5. JoinInv'
    BY <1>1, <2>4 DEF JoinInv, Joined, Covers
  <2>6. OpeningInv'
    BY <1>1, <2>3, <2>4 DEF JoinInv, OpeningInv, Covers
  <2>7. ClosingInv'
    BY <1>1, <1>4, <2>2, <2>3, <2>4 DEF JoinInv, ClosingInv, Joined, Covers, Current
  <2> QED
    BY <2>5, <2>6, <2>7 DEF Steady
<1> QED
  BY <1>3, <1>4

LEMMA IndexerIsSteady ==
  ASSUME Inv, NEW x \in Indexers, Index(x) \/ Admit(x)
  PROVE  Steady'
<1> USE DEF Inv
<1>1. CASE Index(x)
  BY <1>1, IndexIsQuiet
  DEF Steady, JoinInv, OpeningInv, ClosingInv, Joined, Covers, Current, Holds, Admitted
<1>2. CASE Admit(x)
  <2>1. UNCHANGED <<content, join>> /\ StoreInv'
    BY IndexerStep
  <2>2. active' \in Store!Admissions
    BY <1>2 DEF Admit, Store!CommitAdmission, StoreInv, IndexerOK
  <2>3. history' = [history EXCEPT
          !.switched = @ \/ (join.pc \in {"read", "confirmed"} /\ active' # active)]
    BY <1>2 DEF Admit
  <2>4. /\ history'.seen = history.seen /\ history'.strayed = history.strayed
        /\ history'.returned = history.returned /\ history'.together = history.together
        /\ history'.after = history.after
        /\ history'.switched =
             (history.switched \/ (join.pc \in {"read", "confirmed"} /\ active' # active))
        /\ history' = [seen |-> history'.seen, strayed |-> history'.strayed,
                       returned |-> history'.returned, together |-> history'.together,
                       after |-> history'.after, switched |-> history'.switched]
    BY <2>3 DEF JoinInv
  <2>5. JoinInv'
    BY <2>1, <2>2, <2>4, AdmissionCovers DEF JoinInv, Joined, Covers
  <2>6. OpeningInv' /\ ClosingInv'
    BY <2>1, <2>4 DEF OpeningInv, ClosingInv, Joined, Covers, Current, Holds, Admitted
  <2> QED
    BY <2>5, <2>6 DEF Steady
<1> QED
  BY <1>1, <1>2

\* The steps that read the store, and the return.
LEMMA JoinStepIsSteady ==
  ASSUME Inv, ReadActive \/ BeginCheck \/ Confirm \/ Return
  PROVE  Steady'
<1> USE DEF Inv
<1>1. CASE ReadActive
  <2>1. /\ join' = [join EXCEPT !.pc = "read", !.admission = active]
        /\ join.pc = "idle" /\ active # None
        /\ UNCHANGED <<content, active, history>>
    BY <1>1 DEF ReadActive
  <2> QED
    BY <2>1 DEF Steady, StoreInv, JoinInv, OpeningInv, ClosingInv, Joined
<1>2. CASE BeginCheck
  <2>1. /\ join' = [join EXCEPT !.pc = IF @ = "read" THEN "opening" ELSE "closing",
                                !.checking = active, !.unread = Covers(active)]
        /\ join.pc \in {"read", "confirmed"}
        /\ UNCHANGED <<content, active, history>>
    BY <1>2 DEF BeginCheck
  <2>2. JoinInv'
    BY <2>1 DEF StoreInv, JoinInv, Joined, Covers
  <2>3. OpeningInv'
    BY <2>1 DEF JoinInv, OpeningInv, Covers
  <2>4. ClosingInv'
    BY <2>1 DEF JoinInv, ClosingInv, Joined, Covers, Current, Holds, Admitted
  <2> QED
    BY <2>2, <2>3, <2>4 DEF Steady
<1>3. CASE Confirm
  <2>1. join.pc = "joined" /\ UNCHANGED <<content, active, history>>
    BY <1>3 DEF Confirm
  <2>2. CASE active = join.admission
    <3>1. join' = [join EXCEPT !.pc = "confirmed"]
      BY <1>3, <2>2 DEF Confirm
    <3> QED
      BY <2>1, <2>2, <3>1
      DEF Steady, JoinInv, OpeningInv, ClosingInv, Joined, Covers, Current, Holds, Admitted
  <2>3. CASE active # join.admission
    <3>1. join' = [Idle EXCEPT !.pc = "refused"]
      BY <1>3, <2>3 DEF Confirm
    <3> QED
      BY <2>1, <3>1 DEF Steady, JoinInv, OpeningInv, ClosingInv, Idle, Joined
  <2> QED
    BY <2>2, <2>3
<1>4. CASE Return
  <2>1. /\ join' = [join EXCEPT !.pc = "done"]
        /\ join.pc = "closing" /\ join.unread = {}
        /\ UNCHANGED <<content, active, history>>
    BY <1>4 DEF Return
  <2> QED
    BY <2>1 DEF Steady, JoinInv, OpeningInv, ClosingInv, Joined, Covers, Current, Holds, Admitted
<1> QED
  BY <1>1, <1>2, <1>3, <1>4

LEMMA HashIsSteady ==
  ASSUME Inv, NEW f \in Files, HashFile(f)
  PROVE  Steady'
<1> USE DEF Inv
<1>1. /\ join.pc \in {"opening", "closing"}
      /\ f \in join.unread
      /\ history' = IF join.pc = "opening" THEN [history EXCEPT !.seen = @ \cup {f}] ELSE history
      /\ UNCHANGED <<content, active>>
  BY DEF HashFile
<1>2. /\ history'.seen = IF join.pc = "opening" THEN history.seen \cup {f} ELSE history.seen
      /\ history'.strayed = history.strayed /\ history'.returned = history.returned
      /\ history'.together = history.together /\ history'.after = history.after
      /\ history'.switched = history.switched
      /\ history' = [seen |-> history'.seen, strayed |-> history'.strayed,
                     returned |-> history'.returned, together |-> history'.together,
                     after |-> history'.after, switched |-> history'.switched]
  BY <1>1 DEF JoinInv
<1>3. CASE Holds(join.checking, f)
  <2>1. join' = [join EXCEPT !.unread = @ \ {f}]
    BY <1>3 DEF HashFile
  <2>2. JoinInv'
    BY <1>1, <1>2, <2>1 DEF JoinInv, Joined, Covers
  <2>3. OpeningInv'
    BY <1>1, <1>2, <1>3, <2>1 DEF JoinInv, OpeningInv, Covers, Holds, Admitted
  <2>4. ClosingInv'
    BY <1>1, <1>2, <1>3, <2>1 DEF JoinInv, ClosingInv, Joined, Covers, Current, Holds, Admitted
  <2> QED
    BY <2>2, <2>3, <2>4 DEF Steady
<1>4. CASE ~Holds(join.checking, f)
  <2>1. join' = [Idle EXCEPT !.pc = "refused"]
    BY <1>4 DEF HashFile
  <2> QED
    BY <1>1, <1>2, <2>1 DEF Steady, JoinInv, OpeningInv, ClosingInv, Idle, Joined
<1> QED
  BY <1>3, <1>4

\* Joined records have at least one entry.
LEMMA SomethingIsJoined ==
  ASSUME NEW O \in SUBSET Objectives, NEW suite, NEW assignment, NEW report, NEW admission,
         Joinable(O, suite, assignment, report, admission)
  PROVE  Entries(O, suite, report, admission) # {}
<1> PICK e \in Expected(O, suite, report.channel) : TRUE
  BY DEF Joinable, ObjectivesUsable
<1>1. Subjects(e) # {}
  BY ObjectivesAssumption DEF Expected, Subjects
<1> PICK s \in Subjects(e) : TRUE
  BY <1>1
<1>2. Entry(e, s, report, admission) \in Entries(O, suite, report, admission)
  BY DEF Entries
<1> QED
  BY <1>2

LEMMA RecordsAreSteady ==
  ASSUME Inv, JoinRecords
  PROVE  Steady'
<1> USE DEF Inv
<1> DEFINE A == join.admission
<1>1. join.pc = "opening" /\ join.unread = {} /\ UNCHANGED <<content, active>>
  BY DEF JoinRecords
<1> PICK O \in SUBSET Objectives, suite \in Suites, assignment \in Assignments, report \in Reports :
       IF Joinable(O, suite, assignment, report, join.admission)
         THEN /\ join' = [join EXCEPT
                   !.pc = "joined",
                   !.records = [objectives |-> O, suite |-> suite, report |-> report],
                   !.entries = Entries(O, suite, report, join.admission)]
              /\ history' = [history EXCEPT
                   !.together = Current(join.admission) = Covers(join.admission),
                   !.after = Current(join.admission)]
         ELSE /\ join' = [Idle EXCEPT !.pc = "refused"]
              /\ UNCHANGED history
  BY DEF JoinRecords
<1>2. CASE Joinable(O, suite, assignment, report, A)
  <2> DEFINE records == [objectives |-> O, suite |-> suite, report |-> report]
             entries == Entries(O, suite, report, A)
  <2>1. entries # {}
    BY <1>2, SomethingIsJoined
  <2>2. join' = [join EXCEPT !.pc = "joined", !.records = records, !.entries = entries]
    BY <1>2
  <2>3. history' = [history EXCEPT !.together = (Current(A) = Covers(A)), !.after = Current(A)]
    BY <1>2
  <2>4. /\ history'.seen = history.seen /\ history'.strayed = history.strayed
        /\ history'.returned = history.returned /\ history'.switched = history.switched
        /\ history'.after = Current(A)
        /\ history'.together = (Current(A) = Covers(A))
        /\ history' = [seen |-> history'.seen, strayed |-> history'.strayed,
                       returned |-> history'.returned, together |-> history'.together,
                       after |-> history'.after, switched |-> history'.switched]
    BY <2>3 DEF JoinInv
  <2> HIDE DEF records, entries
  <2>5. JoinInv'
    BY <1>1, <2>1, <2>2, <2>4 DEF JoinInv, Joined, Covers
  <2>6. OpeningInv'
    BY <2>2 DEF JoinInv, OpeningInv
  <2>7. join'.admission = A /\ join'.pc = "joined"
    BY <2>2 DEF JoinInv
  <2>8. Current(A)' = Current(A) /\ Covers(A)' = Covers(A) /\ Current(A) \subseteq Covers(A)
    BY <1>1, <2>7 DEF Current, Covers, Holds, Admitted
  <2>9. ASSUME ~history'.switched, ~history'.together
        PROVE  \E f \in Covers(A) : f \in history'.strayed \ history'.after
    <3> PICK f \in Covers(A) : ~Holds(A, f)
      BY <2>4, <2>8, <2>9 DEF Current
    <3> QED
      BY <1>1, <2>4, <2>9 DEF OpeningInv, Current
  <2>10. ClosingInv'
    BY <2>4, <2>7, <2>8, <2>9 DEF ClosingInv, Joined
  <2> QED
    BY <2>5, <2>6, <2>10 DEF Steady
<1>3. CASE ~Joinable(O, suite, assignment, report, A)
  <2>1. join' = [Idle EXCEPT !.pc = "refused"] /\ UNCHANGED history
    BY <1>3
  <2> QED
    BY <1>1, <2>1 DEF Steady, JoinInv, OpeningInv, ClosingInv, Idle, Joined
<1> QED
  BY <1>2, <1>3

-----------------------------------------------------------------------------
(* The records that were joined.                                           *)

\* A finished or finishing join holds records that passed every comparison.
RecordsInv ==
  Joined \/ join.pc = "done" =>
    \E assignment \in Assignments :
      /\ Joinable(join.records.objectives, join.records.suite, assignment,
                  join.records.report, join.admission)
      /\ join.entries = Entries(join.records.objectives, join.records.suite,
                                join.records.report, join.admission)

LEMMA RecordsStart == Init => RecordsInv
  BY DEF Init, RecordsInv, Idle, Joined

LEMMA RecordsStep == Inv /\ RecordsInv /\ [Next]_vars => RecordsInv'
<1> SUFFICES ASSUME Inv, RecordsInv, [Next]_vars PROVE RecordsInv'
  OBVIOUS
<1> USE DEF Inv
<1>1. CASE UNCHANGED join
  BY <1>1 DEF RecordsInv, Joined
<1>2. CASE ReadActive
  BY <1>2 DEF ReadActive, RecordsInv, JoinInv, Joined
<1>3. CASE BeginCheck
  <2>1. CASE join.pc = "read"
    BY <1>3, <2>1 DEF BeginCheck, RecordsInv, JoinInv, Joined
  <2>2. CASE join.pc = "confirmed"
    BY <1>3, <2>2 DEF BeginCheck, RecordsInv, JoinInv, Joined
  <2> QED
    BY <1>3, <2>1, <2>2 DEF BeginCheck
<1>4. ASSUME NEW f \in Files, HashFile(f) PROVE RecordsInv'
  BY <1>4 DEF HashFile, RecordsInv, JoinInv, Joined, Idle
<1>5. CASE JoinRecords
  <2> PICK O \in SUBSET Objectives, suite \in Suites, assignment \in Assignments, report \in Reports :
         IF Joinable(O, suite, assignment, report, join.admission)
           THEN join' = [join EXCEPT
                     !.pc = "joined",
                     !.records = [objectives |-> O, suite |-> suite, report |-> report],
                     !.entries = Entries(O, suite, report, join.admission)]
           ELSE join' = [Idle EXCEPT !.pc = "refused"]
    BY <1>5 DEF JoinRecords
  <2> DEFINE entries == Entries(O, suite, report, join.admission)
             records == [objectives |-> O, suite |-> suite, report |-> report]
  <2>1. CASE Joinable(O, suite, assignment, report, join.admission)
    <3>1. join' = [join EXCEPT !.pc = "joined", !.records = records, !.entries = entries]
      BY <2>1
    <3>2. /\ join'.records = records /\ join'.entries = entries
          /\ join'.admission = join.admission
      BY <3>1 DEF JoinInv
    <3>3. /\ join'.records.objectives = O /\ join'.records.suite = suite
          /\ join'.records.report = report
      BY <3>2
    <3> QED
      BY <2>1, <3>2, <3>3 DEF RecordsInv
  <2>2. CASE ~Joinable(O, suite, assignment, report, join.admission)
    BY <2>2 DEF RecordsInv, Joined, Idle
  <2> QED
    BY <2>1, <2>2
<1>6. CASE Confirm
  BY <1>6 DEF Confirm, RecordsInv, JoinInv, Joined, Idle
<1>7. CASE Return
  BY <1>7 DEF Return, RecordsInv, JoinInv, Joined
<1>8. ASSUME NEW f \in Files, Edit(f) PROVE UNCHANGED join
  BY <1>8 DEF Edit
<1>9. ASSUME NEW x \in Indexers, Index(x) \/ Admit(x) PROVE UNCHANGED join
  BY <1>9 DEF Index, Admit
<1> QED
  BY <1>1, <1>2, <1>3, <1>4, <1>5, <1>6, <1>7, <1>8, <1>9 DEF Next, vars

\* The profiles that the records say were exercised.
Exercised(o, suite, channel) ==
  {p \in DOMAIN o.profiles :
     /\ channel # "REGRESSION" => channel \in o.profiles[p]
     /\ suite.origin = "blind" => suite.strategy[o.obligation] = p}

LEMMA ExercisedIsActive ==
  ASSUME NEW o, NEW suite, NEW assignment, NEW channel, SuiteServes(suite, assignment, channel)
  PROVE  Exercised(o, suite, channel) = ActiveProfiles(o, suite, channel)
<1>1. CASE channel \in {"PRIMARY", "COMPOSITION"}
  BY <1>1 DEF SuiteServes, Exercised, ActiveProfiles
<1>2. CASE channel \in {"A", "B"}
  <2>1. suite.origin = "blind"
    BY <1>2 DEF SuiteServes
  <2>2. ActiveProfiles(o, suite, channel) =
          {suite.strategy[o.obligation]} \cap {p \in DOMAIN o.profiles : channel \in o.profiles[p]}
    BY <1>2 DEF ActiveProfiles
  <2> QED
    BY <1>2, <2>1, <2>2 DEF Exercised
<1>3. CASE channel = "REGRESSION"
  <2>1. suite.origin = "blind"
    BY <1>3 DEF SuiteServes
  <2>2. ActiveProfiles(o, suite, channel) = {suite.strategy[o.obligation]} \cap DOMAIN o.profiles
    BY <1>3 DEF ActiveProfiles
  <2> QED
    BY <1>3, <2>1, <2>2 DEF Exercised
<1> QED
  BY <1>1, <1>2, <1>3 DEF SuiteServes

\* An entry repeats what the admission and the run say of its subject.
LEMMA EntryIsExact ==
  ASSUME NEW O, NEW suite, NEW assignment, NEW report, NEW admission,
         Joinable(O, suite, assignment, report, admission),
         NEW e \in Expected(O, suite, report.channel), NEW s \in Subjects(e)
  PROVE  /\ Entry(e, s, report, admission).source =
              admission.inputs[Entry(e, s, report, admission).path]
         /\ report.results[<<e[2], s>>].source = Entry(e, s, report, admission).source
<1>1. EntryMatches(e, s, suite, report, admission)
  BY DEF Joinable, Subjects
<1> QED
  BY <1>1 DEF EntryMatches, Entry

LEMMA RecordsAreExact == JoinInv /\ RecordsInv => JoinIsExact
<1> SUFFICES ASSUME JoinInv, RecordsInv, join.pc = "done" PROVE JoinIsExact
  BY DEF JoinIsExact
<1> DEFINE O == join.records.objectives
           suite == join.records.suite
           report == join.records.report
           A == join.admission
           E == Expected(O, suite, report.channel)
<1> PICK assignment \in Assignments :
       /\ Joinable(O, suite, assignment, report, A)
       /\ join.entries = Entries(O, suite, report, A)
  BY DEF RecordsInv
<1>1. \A o : Exercised(o, suite, report.channel) = ActiveProfiles(o, suite, report.channel)
  BY ExercisedIsActive DEF Joinable
<1>2. ASSUME NEW entry \in join.entries
      PROVE  /\ entry.source = A.inputs[entry.path]
             /\ \E o \in O :
                  /\ o.id = entry.objective
                  /\ o.targets[entry.subject].path = entry.path
                  /\ Exercised(o, suite, report.channel) \cap o.requirements[entry.requirement].profiles # {}
             /\ report.results[<<entry.requirement, entry.subject>>].source = entry.source
  <2> PICK e \in E : \E s \in Subjects(e) : entry = Entry(e, s, report, A)
    BY DEF Entries
  <2> PICK s \in Subjects(e) : entry = Entry(e, s, report, A)
    OBVIOUS
  <2>1. /\ e[1] \in O
        /\ e[1].requirements[e[2]].profiles \cap ActiveProfiles(e[1], suite, report.channel) # {}
    BY DEF Expected
  <2>2. /\ entry.objective = e[1].id /\ entry.requirement = e[2] /\ entry.subject = s
        /\ entry.path = e[1].targets[s].path
    BY DEF Entry
  <2>3. /\ entry.source = A.inputs[entry.path]
        /\ report.results[<<e[2], s>>].source = entry.source
    BY EntryIsExact
  <2>4. Exercised(e[1], suite, report.channel) \cap e[1].requirements[e[2]].profiles # {}
    BY <1>1, <2>1
  <2> HIDE DEF O, suite, report, A
  <2> QED
    BY <2>1, <2>2, <2>3, <2>4
<1>3. ASSUME NEW o \in O, NEW q \in DOMAIN o.requirements,
             Exercised(o, suite, report.channel) \cap o.requirements[q].profiles # {},
             NEW s \in o.requirements[q].subjects
      PROVE  \E entry \in join.entries : entry.requirement = q /\ entry.subject = s
  <2> DEFINE e == <<o, q>>
  <2>1. e \in E
    BY <1>1, <1>3 DEF Expected
  <2>2. s \in Subjects(e)
    BY DEF Subjects
  <2>3. Entry(e, s, report, A) \in join.entries
    BY <2>1, <2>2 DEF Entries
  <2>4. Entry(e, s, report, A).requirement = q /\ Entry(e, s, report, A).subject = s
    BY DEF Entry
  <2> QED
    BY <2>3, <2>4
<1> QED
  BY <1>2, <1>3 DEF JoinIsExact, Exercised

-----------------------------------------------------------------------------
(* The theorems.                                                           *)

LEMMA StoreKept ==
  ASSUME StoreInv, UNCHANGED <<content, active, indexer>>
  PROVE  StoreInv'
  BY DEF StoreInv, IndexerOK

LEMMA InvStep == Inv /\ [Next]_vars => Inv'
<1> SUFFICES ASSUME Inv, [Next]_vars PROVE Inv'
  OBVIOUS
<1>1. ASSUME NEW f \in Files, Edit(f) PROVE StoreInv' /\ Steady'
  BY <1>1, EditedFile, EditIsSteady DEF Inv
<1>2. ASSUME NEW x \in Indexers, Index(x) \/ Admit(x) PROVE StoreInv' /\ Steady'
  BY <1>2, IndexerStep, IndexerIsSteady DEF Inv
<1>3. ASSUME ReadActive \/ BeginCheck \/ Confirm \/ Return PROVE StoreInv' /\ Steady'
  <2>1. UNCHANGED <<content, active, indexer>>
    BY <1>3 DEF ReadActive, BeginCheck, Confirm, Return
  <2> QED
    BY <1>3, <2>1, JoinStepIsSteady, StoreKept DEF Inv
<1>4. ASSUME NEW f \in Files, HashFile(f) PROVE StoreInv' /\ Steady'
  BY <1>4, HashIsSteady, StoreKept DEF HashFile, Inv
<1>5. ASSUME JoinRecords PROVE StoreInv' /\ Steady'
  <2>1. UNCHANGED <<content, active, indexer>>
    BY <1>5 DEF JoinRecords
  <2> QED
    BY <1>5, <2>1, RecordsAreSteady, StoreKept DEF Inv
<1>6. CASE UNCHANGED vars
  BY <1>6 DEF vars, Inv, StoreInv, IndexerOK, JoinInv, OpeningInv, ClosingInv, Steady,
              Joined, Covers, Current, Holds, Admitted
<1> QED
  BY <1>1, <1>2, <1>3, <1>4, <1>5, <1>6 DEF Next, Inv, Steady

\* The accounts of the two checks are right in every state of every join.
THEOREM JoinInvariant == Spec => [](Inv /\ RecordsInv)
<1>1. Init => Inv /\ RecordsInv
  BY StoreStart, JoinStart, RecordsStart DEF Inv, Steady
<1>2. Inv /\ RecordsInv /\ [Next]_vars => (Inv /\ RecordsInv)'
  BY InvStep, RecordsStep
<1> QED
  BY <1>1, <1>2, PTL DEF Spec

\* join.pc, the admission and the unread files are what the code can hold.
THEOREM JoinIsTyped == Spec => []TypeOK
<1>1. Inv => TypeOK
  BY AdmissionCovers DEF Inv, JoinInv, TypeOK
<1> QED
  BY <1>1, JoinInvariant, PTL

\* _require_scip_still_current: each file behind a returned join held the
\* admitted bytes at some instant after the records were joined.
THEOREM JoinedFilesAlwaysHeld == Spec => []JoinedFilesHeldAtTheEnd
<1>1. Inv => JoinedFilesHeldAtTheEnd
  BY DEF Inv, ClosingInv, JoinedFilesHeldAtTheEnd
<1> QED
  BY <1>1, JoinInvariant, PTL

\* The two freshness checks of a join amount to one instant at which all the
\* files were as admitted, unless one was changed and changed back.
THEOREM TwoChecksAreOneSnapshot == Spec => []CheckedTwiceIsOneSnapshot
<1>1. Inv => CheckedTwiceIsOneSnapshot
  BY DEF Inv, ClosingInv, CheckedTwiceIsOneSnapshot, Joined
<1> QED
  BY <1>1, JoinInvariant, PTL

\* join_coverage_results returns what the objectives froze: no entry too
\* many, none missing, and every result about the admitted bytes.
THEOREM JoinIsAlwaysExact == Spec => []JoinIsExact
<1>1. Inv /\ RecordsInv => JoinIsExact
  BY RecordsAreExact DEF Inv
<1> QED
  BY <1>1, JoinInvariant, PTL
=============================================================================
