----------------------- MODULE EvidenceWorkflowProofs -----------------------
(***************************************************************************)
(* Theorems of EvidenceWorkflow and of ProjectCheck, for every set of      *)
(* manifests, files, contracts and processes.                              *)
(***************************************************************************)
EXTENDS ProjectCheck, TLAPS

USE DEF Present

-----------------------------------------------------------------------------
(* The tables: what they hold, and that bindings follow the admission.     *)

\* What an indexer has gathered on the way to a commit.
IndexerOK(x) ==
  LET me == indexer[x]
  IN /\ me = [pc |-> me.pc, before |-> me.before, scope |-> me.scope,
              seen |-> me.seen, admission |-> me.admission]
     /\ me.pc \in {"idle", "running", "indexed", "verified"}
     /\ me.pc \in {"running", "indexed"} =>
          /\ me.scope \in {Scope[c] : c \in DOMAIN Scope}
          /\ me.before \in [me.scope.inputs -> Contents]
     /\ me.pc = "indexed" => me.seen \in [me.scope.indexed -> Contents \cup {Absent}]
     /\ me.pc = "verified" =>
          /\ me.admission \in Admissions
          /\ Scope[me.admission.contract].subjects \subseteq DOMAIN me.admission.inputs

\* The tables alone, without the processes that fill them.
TablesOK ==
  /\ content \in [Files -> Contents \cup {Absent}]
  /\ content[ContractFile] \in DOMAIN Scope \cup {Absent}
  /\ plan \in Plans \cup {None}
  /\ active \in Admissions \cup {None}
  /\ rows \in [IF plan = None THEN {} ELSE Manifest[plan].bindings -> ResolvedRows \cup {None}]
  /\ applier \in [Appliers -> Plans \cup {None}]
  /\ indexer = [x \in Indexers |-> indexer[x]]
  /\ \A x \in Indexers : IndexerOK(x)

BindingInv == TablesOK /\ BindingsFollowAdmission

\* An admission pairs the input hashes with the scope of its contract.
LEMMA AdmissionParts ==
  ASSUME NEW c \in DOMAIN Scope,
         NEW i \in [Scope[c].inputs -> Contents],
         NEW s \in [Scope[c].indexed -> Contents \cup {Absent}]
  PROVE  [contract |-> c, inputs |-> i, index |-> s] \in Admissions
  BY DEF Admissions

LEMMA AdmissionFields ==
  ASSUME NEW a \in Admissions
  PROVE  /\ a.contract \in DOMAIN Scope
         /\ a.inputs \in [Scope[a.contract].inputs -> Contents]
         /\ a # None
  BY NoneAssumption DEF Admissions

LEMMA ResolvedIsNotNone ==
  ASSUME NEW a \in Admissions, NEW c \in Contents
  PROVE  /\ [admission |-> a, source |-> c] \in ResolvedRows
         /\ [admission |-> a, source |-> c] # None
  BY NoneAssumption DEF ResolvedRows

\* Writing a permitted content leaves a well-formed project behind.
LEMMA WrittenFiles ==
  ASSUME content \in [Files -> Contents \cup {Absent}],
         content[ContractFile] \in DOMAIN Scope \cup {Absent},
         NEW f, NEW c \in Choices[f]
  PROVE  /\ [content EXCEPT ![f] = c] \in [Files -> Contents \cup {Absent}]
         /\ [content EXCEPT ![f] = c][ContractFile] \in DOMAIN Scope \cup {Absent}
<1>1. CASE f \in Files
  <2>1. c \in Contents \cup {Absent}
    BY <1>1, FilesAssumption
  <2>2. f = ContractFile => c \in DOMAIN Scope \cup {Absent}
    BY FilesAssumption
  <2> QED
    BY <1>1, <2>1, <2>2
<1>2. CASE f \notin Files
  <2>1. [content EXCEPT ![f] = c] = content
    BY <1>2
  <2> QED
    BY <2>1
<1> QED
  BY <1>1, <1>2

LEMMA BindingInit == Init => BindingInv
<1> SUFFICES ASSUME Init PROVE BindingInv
  OBVIOUS
<1>1. content \in [Files -> Contents \cup {Absent}] /\ content[ContractFile] \in DOMAIN Scope \cup {Absent}
  BY FilesAssumption DEF Init
<1>2. rows \in [IF plan = None THEN {} ELSE Manifest[plan].bindings -> ResolvedRows \cup {None}]
  BY DEF Init
<1>3. \A x \in Indexers : IndexerOK(x)
  BY DEF Init, IndexerOK, IdleIndexer
<1>4. BindingsFollowAdmission
  BY DEF Init, BindingsFollowAdmission
<1> QED
  BY <1>1, <1>2, <1>3, <1>4 DEF Init, BindingInv, TablesOK

LEMMA BindingStep == BindingInv /\ [Next]_vars => BindingInv'
<1> SUFFICES ASSUME BindingInv, [Next]_vars PROVE BindingInv'
  OBVIOUS
<1> USE DEF BindingInv
<1>1. ASSUME NEW f \in Files, Edit(f) PROVE BindingInv'
  <2>1. content' \in [Files -> Contents \cup {Absent}]
        /\ content'[ContractFile] \in DOMAIN Scope \cup {Absent}
    <3> PICK c \in Choices[f] : content' = [content EXCEPT ![f] = c]
      BY <1>1 DEF Edit
    <3> QED
      BY WrittenFiles DEF TablesOK
  <2> QED
    BY <1>1, <2>1 DEF Edit, TablesOK, IndexerOK, BindingsFollowAdmission
<1>2. ASSUME NEW a \in Appliers, ReplacePlan(a) PROVE BindingInv'
  <2> PICK p \in Plans :
        /\ plan' = p
        /\ rows' = [b \in Manifest[p].bindings |-> None]
        /\ applier' = [applier EXCEPT ![a] = p]
    BY <1>2 DEF ReplacePlan
  <2>1. rows' \in [IF plan' = None THEN {} ELSE Manifest[plan'].bindings -> ResolvedRows \cup {None}]
    BY NoneAssumption
  <2>2. applier' \in [Appliers -> Plans \cup {None}]
    BY DEF TablesOK
  <2>3. BindingsFollowAdmission'
    BY DEF BindingsFollowAdmission
  <2> QED
    BY <1>2, <2>1, <2>2, <2>3 DEF ReplacePlan, TablesOK, IndexerOK
<1>3. ASSUME NEW a \in Appliers, StoreIdentity(a) \/ CrashApplier(a) PROVE BindingInv'
  BY <1>3 DEF StoreIdentity, CrashApplier, TablesOK, IndexerOK, BindingsFollowAdmission
<1>4. ASSUME NEW x \in Indexers,
             StartIndexer(x) \/ RunIndexer(x) \/ VerifyIndex(x) \/ AbandonIndexer(x)
      PROVE  BindingInv'
  <2>1. UNCHANGED <<content, plan, rows, active, applier>>
    BY <1>4 DEF StartIndexer, RunIndexer, VerifyIndex, AbandonIndexer
  <2>2. indexer' = [y \in Indexers |-> indexer'[y]]
    BY <1>4 DEF StartIndexer, RunIndexer, VerifyIndex, AbandonIndexer, TablesOK
  <2>3. \A y \in Indexers \ {x} : indexer'[y] = indexer[y]
    BY <1>4 DEF StartIndexer, RunIndexer, VerifyIndex, AbandonIndexer, TablesOK
  <2>4. IndexerOK(x)'
    <3>1. CASE StartIndexer(x)
      <4> DEFINE scope == Scope[content[ContractFile]]
      <4>1. indexer'[x] = [IdleIndexer EXCEPT !.pc = "running", !.scope = scope,
                             !.before = [f \in scope.inputs |-> content[f]]]
        BY <3>1 DEF StartIndexer, TablesOK
      <4>2. content[ContractFile] \in DOMAIN Scope
        BY <3>1 DEF StartIndexer, TablesOK
      <4>3. [f \in scope.inputs |-> content[f]] \in [scope.inputs -> Contents]
        BY <3>1, <4>2, FilesAssumption DEF StartIndexer, TablesOK
      <4> QED
        BY <4>1, <4>2, <4>3 DEF IndexerOK, IdleIndexer
    <3>2. CASE RunIndexer(x)
      <4> DEFINE me == indexer[x]
      <4>1. indexer'[x] = [me EXCEPT !.pc = "indexed",
                             !.seen = [f \in me.scope.indexed |-> content[f]]]
        BY <3>2 DEF RunIndexer, TablesOK
      <4>2. IndexerOK(x) /\ me.pc = "running"
        BY <3>2 DEF RunIndexer, TablesOK
      <4>3. me.scope.indexed \subseteq Files
        BY <4>2, FilesAssumption DEF IndexerOK
      <4>4. [f \in me.scope.indexed |-> content[f]] \in [me.scope.indexed -> Contents \cup {Absent}]
        BY <4>3 DEF TablesOK
      <4> QED
        BY <4>1, <4>2, <4>4 DEF IndexerOK
    <3>3. CASE VerifyIndex(x)
      <4> DEFINE me == indexer[x]
                 contract == content[ContractFile]
                 new == [contract |-> contract, inputs |-> me.before, index |-> me.seen]
      <4>1. indexer'[x] = [me EXCEPT !.pc = "verified", !.admission = new]
        BY <3>3 DEF VerifyIndex, TablesOK
      <4>2. IndexerOK(x) /\ me.pc = "indexed"
        BY <3>3 DEF VerifyIndex, TablesOK
      <4>3. /\ contract \in DOMAIN Scope
            /\ Scope[contract].inputs = me.scope.inputs
            /\ Scope[contract].indexed = me.scope.indexed
            /\ Scope[contract].subjects \subseteq me.scope.indexed
        BY <3>3 DEF VerifyIndex, TablesOK
      <4>4. new \in Admissions
        BY <4>2, <4>3, AdmissionParts DEF IndexerOK
      <4>5. Scope[new.contract].subjects \subseteq DOMAIN new.inputs
        BY <4>2, <4>3, FilesAssumption DEF IndexerOK
      <4> HIDE DEF new
      <4> QED
        BY <4>1, <4>2, <4>4, <4>5 DEF IndexerOK
    <3>4. CASE AbandonIndexer(x)
      BY <3>4 DEF AbandonIndexer, TablesOK, IndexerOK, IdleIndexer
    <3> QED
      BY <1>4, <3>1, <3>2, <3>3, <3>4
  <2> QED
    BY <2>1, <2>2, <2>3, <2>4 DEF TablesOK, IndexerOK, BindingsFollowAdmission
<1>5. ASSUME NEW x \in Indexers, CommitAdmission(x) PROVE BindingInv'
  <2> DEFINE new == indexer[x].admission
  <2>1. /\ new \in Admissions
        /\ Scope[new.contract].subjects \subseteq DOMAIN new.inputs
        /\ \A b \in DOMAIN rows : b[2] \in Scope[new.contract].subjects
        /\ active' = new
        /\ rows' = [b \in DOMAIN rows |-> [admission |-> new, source |-> new.inputs[b[2]]]]
    BY <1>5 DEF CommitAdmission, TablesOK, IndexerOK
  <2>2. new \in Admissions /\ new # None /\ new.inputs \in [DOMAIN new.inputs -> Contents]
    BY <2>1, AdmissionFields
  <2> HIDE DEF new
  <2>3. \A b \in DOMAIN rows :
          /\ [admission |-> new, source |-> new.inputs[b[2]]] \in ResolvedRows
          /\ [admission |-> new, source |-> new.inputs[b[2]]] # None
    BY <2>1, <2>2, ResolvedIsNotNone
  <2>4. rows' \in [IF plan' = None THEN {} ELSE Manifest[plan'].bindings -> ResolvedRows \cup {None}]
    BY <1>5, <2>1, <2>3 DEF CommitAdmission, TablesOK
  <2>5. BindingsFollowAdmission'
    BY <2>1, <2>2, <2>3 DEF BindingsFollowAdmission
  <2>6. indexer' = [y \in Indexers |-> indexer'[y]] /\ \A y \in Indexers : IndexerOK(y)'
    BY <1>5 DEF CommitAdmission, TablesOK, IndexerOK, IdleIndexer
  <2> QED
    BY <1>5, <2>1, <2>2, <2>4, <2>5, <2>6 DEF CommitAdmission, TablesOK
<1>6. ASSUME NEW r \in Runners,
             AcceptInvocation(r) \/ TakeDigest(r) \/ RecordEvidence(r) \/ AbandonRunner(r)
      PROVE  BindingInv'
  BY <1>6 DEF AcceptInvocation, TakeDigest, RecordEvidence, AbandonRunner,
              TablesOK, IndexerOK, BindingsFollowAdmission
<1>7. ASSUME NEW r \in Runners, RunChecker(r) PROVE BindingInv'
  <2>1. content' \in [Files -> Contents \cup {Absent}]
        /\ content'[ContractFile] \in DOMAIN Scope \cup {Absent}
    <3> DEFINE artifact == runner[r].policy.artifact
    <3>1. content' = content \/ \E c \in Choices[artifact] : content' = [content EXCEPT ![artifact] = c]
      BY <1>7 DEF RunChecker
    <3> HIDE DEF artifact
    <3>2. CASE content' = content
      BY <3>2 DEF TablesOK
    <3>3. ASSUME NEW c \in Choices[artifact], content' = [content EXCEPT ![artifact] = c]
          PROVE  /\ content' \in [Files -> Contents \cup {Absent}]
                 /\ content'[ContractFile] \in DOMAIN Scope \cup {Absent}
      BY <3>3, WrittenFiles DEF TablesOK
    <3> QED
      BY <3>1, <3>2, <3>3
  <2> QED
    BY <1>7, <2>1 DEF RunChecker, TablesOK, IndexerOK, BindingsFollowAdmission
<1>8. CASE UNCHANGED vars
  BY <1>8 DEF vars, TablesOK, IndexerOK, BindingsFollowAdmission
<1> QED
  BY <1>1, <1>2, <1>3, <1>4, <1>5, <1>6, <1>7, <1>8 DEF Next

\* The planned bindings are all unresolved, or all resolved by the one active
\* admission, whatever plan applies, index runs, edits and kills do: a
\* rejected or killed admission leaves no half-resolved plan, and no binding
\* outlives the plan or the admission it was made for.
THEOREM BindingsAlwaysFollowAdmission == Spec => []BindingsFollowAdmission
<1>1. BindingInv => BindingsFollowAdmission
  BY DEF BindingInv
<1> QED
  BY BindingInit, BindingStep, <1>1, PTL DEF Spec

-----------------------------------------------------------------------------
(* The evidence runs: what a runner knows, and what a row records of it.   *)

\* A run that nothing has raced with holds the policy its obligation froze,
\* a digest of the files as they are, and then what its checker has read.
RunnerOK(r) ==
  LET me == runner[r]
  IN /\ me = [pc |-> me.pc, obligation |-> me.obligation, kind |-> me.kind,
              policy |-> me.policy, digest |-> me.digest, status |-> me.status,
              seen |-> me.seen, raced |-> me.raced]
     /\ me.pc \in {"idle", "accepted", "digested", "checked"}
     /\ me.raced \in BOOLEAN
     /\ me.pc = "accepted" /\ ~me.raced =>
          /\ me.obligation \in Obligations
          /\ me.policy = Obligation(me.obligation).policies[me.kind]
     /\ me.pc \in {"digested", "checked"} /\ ~me.raced =>
          me.policy = me.digest.records[me.obligation].policies[me.kind]
     /\ me.pc = "digested" =>
          /\ DOMAIN me.digest.contents \subseteq Files
          /\ me.digest.contents = [f \in DOMAIN me.digest.contents |-> me.digest.contents[f]]
     /\ me.pc = "digested" /\ ~me.raced =>
          \A f \in DOMAIN me.digest.contents : me.digest.contents[f] = content[f]
     /\ me.pc = "checked" => me.status \in {"passed", "failed", "error"}
     /\ me.pc = "checked" /\ ~me.raced => me.seen = me.digest.contents

\* Unless it raced, a row's checker is the one its digest froze and has read
\* what its digest describes.
RowOK(e) ==
  /\ e.status \in {"passed", "failed", "error"}
  /\ ~e.raced => /\ e.command = e.digest.records[e.obligation].policies[e.kind].command
                 /\ e.seen = e.digest.contents

RunsInv ==
  /\ runner = [r \in Runners |-> runner[r]]
  /\ \A r \in Runners : RunnerOK(r)
  /\ evidence \in Seq({evidence[i] : i \in DOMAIN evidence})
  /\ \A i \in DOMAIN evidence : RowOK(evidence[i])

CountersOK ==
  /\ project \in {Manifest[p].project : p \in Plans} \cup {None}
  /\ events \in 0 .. MaxEvents

WorkflowInv == BindingInv /\ RunsInv /\ CountersOK

LEMMA AppendedRow ==
  ASSUME NEW S, NEW s \in Seq(S), NEW e
  PROVE  /\ DOMAIN Append(s, e) = DOMAIN s \cup {Len(s) + 1}
         /\ \A i \in DOMAIN s : Append(s, e)[i] = s[i]
         /\ Append(s, e)[Len(s) + 1] = e
         /\ Append(s, e) \in Seq({Append(s, e)[i] : i \in DOMAIN Append(s, e)})
<1>1. s \in Seq(S \cup {e}) /\ e \in S \cup {e}
  OBVIOUS
<1> DEFINE t == Append(s, e)
<1>2. /\ t \in Seq(S \cup {e})
      /\ Len(t) = Len(s) + 1
      /\ DOMAIN t = 1 .. Len(t)
      /\ \A i \in DOMAIN s : t[i] = s[i]
      /\ t[Len(s) + 1] = e
  BY <1>1
<1>3. DOMAIN s = 1 .. Len(s) /\ Len(s) \in Nat
  OBVIOUS
<1> HIDE DEF t
<1>4. t \in Seq({t[i] : i \in DOMAIN t})
  BY <1>2
<1> QED
  BY <1>2, <1>3, <1>4 DEF t

LEMMA SubjectNamesItself ==
  ASSUME TablesOK, NEW o \in Obligations
  PROVE  /\ o \in SubjectObligations(o)
         /\ SubjectDigest(o).records[o] = Obligation(o)
         /\ SubjectDigest(o).contents = [f \in SubjectFiles(o) |-> content[f]]
         /\ SubjectFiles(o) \subseteq Files
<1>1. plan \in Plans /\ plan # None
  BY DEF Obligations, TablesOK
<1>2. Obligation(o).item \in DOMAIN Items
  BY <1>1, ManifestAssumption DEF Obligations, Obligation, Items
<1>3. Obligation(o).item \in Subtree(Obligation(o).item)
  BY <1>2 DEF Subtree, Ancestors
<1>4. o \in SubjectObligations(o)
  BY <1>3 DEF SubjectObligations
<1>5. SubjectObligations(o) \subseteq Obligations
  BY DEF SubjectObligations
<1>6. \A q \in Obligations : PolicyInputs(q) \subseteq Files
  BY <1>1, ManifestAssumption DEF Obligations, Obligation, PolicyInputs
<1>7. \A b \in DOMAIN rows : b[2] \in Files
  BY <1>1, ManifestAssumption DEF TablesOK
<1>8. SubjectFiles(o) \subseteq Files
  <2>1. \A q \in SubjectObligations(o) : PolicyInputs(q) \subseteq Files
    BY <1>5, <1>6
  <2>2. \A b \in BindingsOf(SubjectObligations(o)) : b[2] \in Files
    BY <1>7 DEF BindingsOf
  <2> DEFINE S == SubjectObligations(o)
  <2>3. SubjectFiles(o) = (UNION {PolicyInputs(q) : q \in S}) \cup {b[2] : b \in BindingsOf(S)}
    BY DEF SubjectFiles
  <2> HIDE DEF S
  <2>4. \A f \in SubjectFiles(o) :
          \/ \E q \in S : f \in PolicyInputs(q)
          \/ \E b \in BindingsOf(S) : f = b[2]
    BY <2>3
  <2> QED
    BY <2>1, <2>2, <2>4 DEF S
<1> QED
  BY <1>4, <1>8 DEF SubjectDigest

LEMMA RunsInit == Init => RunsInv /\ CountersOK
<1> SUFFICES ASSUME Init PROVE RunsInv /\ CountersOK
  OBVIOUS
<1>1. \A r \in Runners : RunnerOK(r)
  BY DEF Init, RunnerOK, IdleRunner
<1>2. evidence \in Seq({evidence[i] : i \in DOMAIN evidence}) /\ DOMAIN evidence = {}
  BY DEF Init
<1> QED
  BY <1>1, <1>2, NoneAssumption DEF Init, RunsInv, CountersOK

\* Steps that leave the runs and the files they read alone.
LEMMA RunsUntouched ==
  ASSUME RunsInv, UNCHANGED <<runner, evidence, content, plan>>
  PROVE  RunsInv'
  BY DEF RunsInv, RunnerOK, RowOK, Obligations, Obligation

\* A changed file races with every run that has digested it.
LEMMA ChangedFileRaces ==
  ASSUME NEW f, NEW r \in Runners, RunnerOK(r),
         \A g \in Files : g # f => content'[g] = content[g],
         plan' = plan,
         runner'[r] = IF FileRaces(f, r) THEN [runner[r] EXCEPT !.raced = TRUE] ELSE runner[r]
  PROVE  RunnerOK(r)'
<1>1. CASE FileRaces(f, r)
  <2> DEFINE me == runner[r]
  <2>1. runner'[r] = [me EXCEPT !.raced = TRUE] /\ RunnerOK(r) /\ me.pc = "digested"
    BY <1>1 DEF FileRaces
  <2> QED
    BY <2>1 DEF RunnerOK
<1>2. CASE ~FileRaces(f, r)
  <2>1. runner'[r] = runner[r]
    BY <1>2
  <2>2. runner[r].pc = "digested" =>
          \A g \in DOMAIN runner[r].digest.contents : content'[g] = content[g]
    BY <1>2 DEF FileRaces, RunnerOK
  <2> QED
    BY <2>1, <2>2 DEF RunnerOK, Obligations, Obligation
<1> QED
  BY <1>1, <1>2

LEMMA RunsStep == BindingInv /\ RunsInv /\ [Next]_vars => RunsInv'
<1> SUFFICES ASSUME BindingInv, RunsInv, [Next]_vars PROVE RunsInv'
  OBVIOUS
<1>1. ASSUME NEW f \in Files, Edit(f) PROVE RunsInv'
  <2>1. PICK c : content' = [content EXCEPT ![f] = c]
    BY <1>1 DEF Edit
  <2>2. /\ plan' = plan /\ evidence' = evidence
        /\ runner' = [r \in Runners |->
             IF FileRaces(f, r) THEN [runner[r] EXCEPT !.raced = TRUE] ELSE runner[r]]
    BY <1>1 DEF Edit
  <2>3. content \in [Files -> Contents \cup {Absent}]
    BY DEF BindingInv, TablesOK
  <2>4. ASSUME NEW r \in Runners PROVE RunnerOK(r)'
    <3>1. \A g \in Files : g # f => content'[g] = content[g]
      BY <2>1, <2>3
    <3>2. RunnerOK(r)
      BY DEF RunsInv
    <3> QED
      BY <2>2, <3>1, <3>2, ChangedFileRaces
  <2> QED
    BY <2>2, <2>4 DEF RunsInv, RowOK
<1>2. ASSUME NEW a \in Appliers, ReplacePlan(a) PROVE RunsInv'
  <2>1. content' = content /\ evidence' = evidence /\ runner' = PlanRaces
    BY <1>2 DEF ReplacePlan
  <2>2. ASSUME NEW r \in Runners PROVE RunnerOK(r)'
    <3> DEFINE me == runner[r]
    <3>1. RunnerOK(r)
      BY DEF RunsInv
    <3>2. CASE me.pc = "accepted"
      <4>1. runner'[r] = [me EXCEPT !.raced = TRUE]
        BY <2>1, <3>2 DEF PlanRaces
      <4> QED
        BY <2>1, <3>1, <3>2, <4>1 DEF RunnerOK
    <3>3. CASE me.pc # "accepted"
      <4>1. runner'[r] = me
        BY <2>1, <3>3 DEF PlanRaces
      <4> QED
        BY <2>1, <3>1, <3>3, <4>1 DEF RunnerOK
    <3> QED
      BY <3>2, <3>3
  <2> QED
    BY <2>1, <2>2 DEF RunsInv, RowOK, PlanRaces
<1>3. ASSUME NEW a \in Appliers, StoreIdentity(a) \/ CrashApplier(a) PROVE RunsInv'
  BY <1>3, RunsUntouched DEF StoreIdentity, CrashApplier
<1>4. ASSUME NEW x \in Indexers,
             \/ StartIndexer(x) \/ RunIndexer(x) \/ VerifyIndex(x)
             \/ CommitAdmission(x) \/ AbandonIndexer(x)
      PROVE  RunsInv'
  BY <1>4, RunsUntouched
     DEF StartIndexer, RunIndexer, VerifyIndex, CommitAdmission, AbandonIndexer
<1>5. ASSUME NEW r \in Runners,
             AcceptInvocation(r) \/ TakeDigest(r) \/ RecordEvidence(r) \/ AbandonRunner(r)
      PROVE  RunsInv'
  <2>1. content' = content /\ plan' = plan
    BY <1>5 DEF AcceptInvocation, TakeDigest, RecordEvidence, AbandonRunner
  <2>2. /\ runner' = [q \in Runners |-> runner'[q]]
        /\ \A q \in Runners \ {r} : runner'[q] = runner[q]
    BY <1>5 DEF AcceptInvocation, TakeDigest, RecordEvidence, AbandonRunner, RunsInv
  <2>3. \A q \in Runners \ {r} : RunnerOK(q)'
    BY <2>1, <2>2 DEF RunsInv, RunnerOK, Obligations, Obligation
  <2>4. RunnerOK(r)'
    <3>1. CASE AcceptInvocation(r)
      <4>1. PICK o \in Obligations : \E k \in DOMAIN Obligation(o).policies :
              runner'[r] = [IdleRunner EXCEPT !.pc = "accepted", !.obligation = o, !.kind = k,
                              !.policy = Obligation(o).policies[k]]
        BY <3>1 DEF AcceptInvocation, RunsInv
      <4> PICK k \in DOMAIN Obligation(o).policies :
            runner'[r] = [IdleRunner EXCEPT !.pc = "accepted", !.obligation = o, !.kind = k,
                            !.policy = Obligation(o).policies[k]]
        BY <4>1
      <4>2. /\ runner'[r].pc = "accepted"
            /\ runner'[r].obligation = o
            /\ runner'[r].kind = k
            /\ runner'[r].policy = Obligation(o).policies[k]
            /\ runner'[r].raced = FALSE
            /\ runner'[r] = [pc |-> runner'[r].pc, obligation |-> runner'[r].obligation,
                 kind |-> runner'[r].kind, policy |-> runner'[r].policy,
                 digest |-> runner'[r].digest, status |-> runner'[r].status,
                 seen |-> runner'[r].seen, raced |-> runner'[r].raced]
        BY DEF IdleRunner
      <4> QED
        BY <2>1, <4>2 DEF RunnerOK, Obligations, Obligation
    <3>2. CASE TakeDigest(r)
      <4> DEFINE me == runner[r]
                 o == me.obligation
                 d == SubjectDigest(o)
      <4>1. /\ RunnerOK(r) /\ me.pc = "accepted" /\ o \in Obligations
            /\ runner'[r] = [me EXCEPT !.pc = "digested", !.digest = d]
        BY <3>2 DEF TakeDigest, RunsInv
      <4>2. d.records[o] = Obligation(o) /\ d.contents = [f \in SubjectFiles(o) |-> content[f]]
           /\ SubjectFiles(o) \subseteq Files
        BY <4>1, SubjectNamesItself DEF BindingInv
      <4> HIDE DEF d
      <4>3. /\ runner'[r].pc = "digested"
            /\ runner'[r].digest = d
            /\ runner'[r].obligation = o
            /\ runner'[r].kind = me.kind
            /\ runner'[r].policy = me.policy
            /\ runner'[r].raced = me.raced
            /\ runner'[r] = [pc |-> runner'[r].pc, obligation |-> runner'[r].obligation,
                 kind |-> runner'[r].kind, policy |-> runner'[r].policy,
                 digest |-> runner'[r].digest, status |-> runner'[r].status,
                 seen |-> runner'[r].seen, raced |-> runner'[r].raced]
        BY <4>1 DEF RunnerOK
      <4>4. me.raced \in BOOLEAN /\ (~me.raced => me.policy = Obligation(o).policies[me.kind])
        BY <4>1 DEF RunnerOK
      <4>5. ~me.raced => me.policy = d.records[o].policies[me.kind]
        BY <4>2, <4>4
      <4>6. /\ DOMAIN d.contents \subseteq Files
            /\ d.contents = [f \in DOMAIN d.contents |-> d.contents[f]]
            /\ \A f \in DOMAIN d.contents : d.contents[f] = content[f]
        BY <4>2
      <4> HIDE DEF me, o
      <4> QED
        BY <2>1, <4>3, <4>4, <4>5, <4>6 DEF RunnerOK
    <3>3. CASE RecordEvidence(r) \/ AbandonRunner(r)
      <4>1. runner'[r] = IdleRunner
        BY <3>3 DEF RecordEvidence, AbandonRunner, RunsInv
      <4> QED
        BY <4>1 DEF RunnerOK, IdleRunner
    <3> QED
      BY <1>5, <3>1, <3>2, <3>3
  <2>5. /\ evidence' \in Seq({evidence'[i] : i \in DOMAIN evidence'})
        /\ \A i \in DOMAIN evidence' : RowOK(evidence'[i])
    <3>1. CASE evidence' = evidence
      BY <3>1 DEF RunsInv
    <3>2. CASE RecordEvidence(r)
      <4> DEFINE me == runner[r]
                 artifact == me.policy.artifact
                 missing == artifact # None /\ ~Present(artifact)
                 e == [obligation |-> me.obligation, kind |-> me.kind, command |-> me.policy.command,
                       status |-> IF me.status = "passed" /\ missing THEN "error" ELSE me.status,
                       digest |-> me.digest, artifact |-> artifact,
                       artifactHash |-> IF artifact = None \/ missing THEN None ELSE content[artifact],
                       seen |-> me.seen, raced |-> me.raced]
      <4>1. RunnerOK(r) /\ me.pc = "checked" /\ evidence' = Append(evidence, e)
        BY <3>2 DEF RecordEvidence, RunsInv
      <4>2. RowOK(e)
        BY <4>1 DEF RunnerOK, RowOK
      <4> HIDE DEF e
      <4> QED
        BY <4>1, <4>2, AppendedRow DEF RunsInv
    <3> QED
      BY <1>5, <3>1, <3>2 DEF AcceptInvocation, TakeDigest, AbandonRunner
  <2> QED
    BY <2>2, <2>3, <2>4, <2>5 DEF RunsInv
<1>6. ASSUME NEW r \in Runners, RunChecker(r) PROVE RunsInv'
  <2> DEFINE me == runner[r]
             artifact == me.policy.artifact
  <2>1. PICK status \in {"passed", "failed", "error"} :
          runner' = [q \in Runners |->
               IF q = r
                 THEN [me EXCEPT !.pc = "checked", !.status = status,
                         !.seen = [f \in DOMAIN me.digest.contents |-> content[f]]]
                 ELSE IF content' # content /\ FileRaces(artifact, q)
                        THEN [runner[q] EXCEPT !.raced = TRUE]
                        ELSE runner[q]]
    BY <1>6 DEF RunChecker
  <2>2. content' = content \/ \E c : content' = [content EXCEPT ![artifact] = c]
    BY <1>6 DEF RunChecker
  <2>3. plan' = plan /\ evidence' = evidence /\ me.pc = "digested" /\ RunnerOK(r)
    BY <1>6 DEF RunChecker, RunsInv
  <2>4. RunnerOK(r)'
    <3> DEFINE read == [f \in DOMAIN me.digest.contents |-> content[f]]
    <3>1. runner'[r] = [me EXCEPT !.pc = "checked", !.status = status, !.seen = read]
      BY <2>1
    <3>2. ~me.raced => read = me.digest.contents
      BY <2>3 DEF RunnerOK
    <3> HIDE DEF read
    <3>3. /\ runner'[r].pc = "checked"
          /\ runner'[r].status = status
          /\ runner'[r].seen = read
          /\ runner'[r].digest = me.digest
          /\ runner'[r].policy = me.policy
          /\ runner'[r].obligation = me.obligation
          /\ runner'[r].kind = me.kind
          /\ runner'[r].raced = me.raced
          /\ runner'[r] = [pc |-> runner'[r].pc, obligation |-> runner'[r].obligation,
               kind |-> runner'[r].kind, policy |-> runner'[r].policy,
               digest |-> runner'[r].digest, status |-> runner'[r].status,
               seen |-> runner'[r].seen, raced |-> runner'[r].raced]
      BY <2>3, <3>1 DEF RunnerOK
    <3> QED
      BY <2>3, <3>2, <3>3 DEF RunnerOK
  <2>5. ASSUME NEW q \in Runners, q # r PROVE RunnerOK(q)'
    <3>1. RunnerOK(q)
      BY DEF RunsInv
    <3> HIDE DEF artifact
    <3>2. CASE content' = content
      <4>1. runner'[q] = runner[q]
        BY <2>1, <2>5, <3>2
      <4> QED
        BY <2>3, <3>1, <3>2, <4>1 DEF RunnerOK, Obligations, Obligation
    <3>3. CASE content' # content
      <4>1. runner'[q] = IF FileRaces(artifact, q) THEN [runner[q] EXCEPT !.raced = TRUE] ELSE runner[q]
        BY <2>1, <2>5, <3>3
      <4>2. PICK c : content' = [content EXCEPT ![artifact] = c]
        BY <2>2, <3>3
      <4>3. content \in [Files -> Contents \cup {Absent}]
        BY DEF BindingInv, TablesOK
      <4> QED
        <5>1. \A g \in Files : g # artifact => content'[g] = content[g]
          BY <4>2, <4>3
        <5> QED
          BY <2>3, <3>1, <4>1, <5>1, ChangedFileRaces
    <3> QED
      BY <3>2, <3>3
  <2> QED
    BY <2>1, <2>3, <2>4, <2>5 DEF RunsInv, RowOK
<1>7. CASE UNCHANGED vars
  BY <1>7, RunsUntouched DEF vars
<1> QED
  BY <1>1, <1>2, <1>3, <1>4, <1>5, <1>6, <1>7 DEF Next

LEMMA CountersStep == BindingInv /\ CountersOK /\ [Next]_vars => CountersOK'
<1> SUFFICES ASSUME BindingInv, CountersOK, [Next]_vars PROVE CountersOK'
  OBVIOUS
<1> USE DEF CountersOK
<1>1. ASSUME Event PROVE events' \in 0 .. MaxEvents
  BY <1>1, NoneAssumption DEF Event
<1>2. ASSUME NEW f \in Files, Edit(f) PROVE CountersOK'
  BY <1>1, <1>2 DEF Edit
<1>3. ASSUME NEW a \in Appliers, ReplacePlan(a) \/ StoreIdentity(a) \/ CrashApplier(a) PROVE CountersOK'
  <2>1. CASE StoreIdentity(a)
    <3>1. applier[a] \in Plans
      BY <2>1 DEF StoreIdentity, BindingInv, TablesOK
    <3> QED
      BY <2>1, <3>1 DEF StoreIdentity
  <2> QED
    BY <1>1, <1>3, <2>1 DEF ReplacePlan, CrashApplier
<1>4. ASSUME NEW x \in Indexers,
             \/ StartIndexer(x) \/ RunIndexer(x) \/ VerifyIndex(x)
             \/ CommitAdmission(x) \/ AbandonIndexer(x)
      PROVE  CountersOK'
  BY <1>1, <1>4 DEF StartIndexer, RunIndexer, VerifyIndex, CommitAdmission, AbandonIndexer
<1>5. ASSUME NEW r \in Runners,
             \/ AcceptInvocation(r) \/ TakeDigest(r) \/ RunChecker(r)
             \/ RecordEvidence(r) \/ AbandonRunner(r)
      PROVE  CountersOK'
  BY <1>1, <1>5 DEF AcceptInvocation, TakeDigest, RunChecker, RecordEvidence, AbandonRunner
<1>6. CASE UNCHANGED vars
  BY <1>6 DEF vars
<1> QED
  BY <1>2, <1>3, <1>4, <1>5, <1>6 DEF Next

LEMMA WorkflowAlways == Spec => []WorkflowInv
<1>1. Init => WorkflowInv
  BY BindingInit, RunsInit DEF WorkflowInv
<1>2. WorkflowInv /\ [Next]_vars => WorkflowInv'
  BY BindingStep, RunsStep, CountersStep DEF WorkflowInv
<1> QED
  BY <1>1, <1>2, PTL DEF Spec

-----------------------------------------------------------------------------
(* What the invariant says of `mkso check`.                                *)

\* The tables, files and processes only ever hold what TypeOK says.
THEOREM WorkflowIsTyped == Spec => []TypeOK
<1>1. WorkflowInv => TypeOK
  BY DEF WorkflowInv, BindingInv, TablesOK, RunsInv, CountersOK, IndexerOK, RunnerOK, RowOK, TypeOK
<1> QED
  BY <1>1, WorkflowAlways, PTL

\* A verified obligation's newest fresh evidence has passed, for each kind.
LEMMA VerifiedParts ==
  ASSUME NEW o, Verified(o), NEW k \in DOMAIN Obligation(o).policies
  PROVE  /\ LatestFresh(o, k) # {}
         /\ \A i \in LatestFresh(o, k) : evidence[i].status = "passed"
         /\ BindingsCurrent(o)
  BY DEF Verified, ObligationStatus

\* What a digest is taken of is all that the status speaks of.
LEMMA ConcernedIsSubject ==
  ASSUME TablesOK, NEW o \in Obligations, NEW q \in Obligations, Concerns(o, q)
  PROVE  q \in SubjectObligations(o)
<1>1. plan \in Plans /\ q \in DOMAIN Manifest[plan].obligations
  BY DEF TablesOK, Obligations
<1>2. Obligation(q).item \in DOMAIN Items
  BY <1>1, ManifestAssumption DEF Obligation, Items
<1>3. CASE Obligation(o).role = "composition"
  <2>1. Obligation(o).item \in Ancestors(Items, Obligation(o).item)
    BY DEF Ancestors
  <2>2. Obligation(o).item \in Ancestors(Items, Obligation(q).item)
    BY <2>1 DEF Concerns
  <2> QED
    BY <1>2, <1>3, <2>2 DEF SubjectObligations, Subtree
<1>4. CASE Obligation(o).role # "composition"
  BY <1>4 DEF SubjectObligations, Concerns
<1> QED
  BY <1>3, <1>4

\* The newest fresh row of each kind is what the status is earned by.
LEMMA WhatIsVerifiedIsEarned ==
  ASSUME WorkflowInv
  PROVE  VerifiedIsEarned
<1> SUFFICES ASSUME NEW o \in Obligations, Verified(o), NEW k \in DOMAIN Obligation(o).policies
             PROVE  \E i \in FreshEvidence(o, k) :
                      /\ evidence[i].status = "passed"
                      /\ evidence[i].raced \/ CheckedAsFrozen(o, k, evidence[i])
  BY DEF VerifiedIsEarned, Earned
<1>1. PICK i \in LatestFresh(o, k) : evidence[i].status = "passed"
  BY VerifiedParts
<1> DEFINE e == evidence[i]
<1>2. i \in FreshEvidence(o, k)
  BY DEF LatestFresh
<1>3. i \in DOMAIN evidence /\ e.obligation = o /\ e.kind = k /\ e.digest = SubjectDigest(o)
  BY <1>2 DEF FreshEvidence
<1>4. RowOK(e)
  BY <1>3 DEF WorkflowInv, RunsInv
<1>5. /\ SubjectDigest(o).records[o] = Obligation(o)
      /\ SubjectDigest(o).contents = [f \in SubjectFiles(o) |-> content[f]]
  BY SubjectNamesItself DEF WorkflowInv, BindingInv
<1>6. e.raced \/ CheckedAsFrozen(o, k, e)
  <2> SUFFICES ASSUME ~e.raced PROVE CheckedAsFrozen(o, k, e)
    OBVIOUS
  <2>1. e.command = SubjectDigest(o).records[o].policies[k].command /\ e.seen = SubjectDigest(o).contents
    BY <1>3, <1>4 DEF RowOK
  <2>2. e.seen = [f \in SubjectFiles(o) |-> content[f]] /\ e.command = Obligation(o).policies[k].command
    BY <1>5, <2>1
  <2>3. ASSUME NEW q \in Obligations, Concerns(o, q),
               NEW f \in PolicyInputs(q) \cup {b[2] : b \in BindingsOf({q})}
        PROVE  f \in DOMAIN e.seen /\ e.seen[f] = content[f]
    <3>1. q \in SubjectObligations(o)
      BY <2>3, ConcernedIsSubject DEF WorkflowInv, BindingInv
    <3>2. f \in SubjectFiles(o)
      BY <2>3, <3>1 DEF SubjectFiles, BindingsOf
    <3> QED
      BY <2>2, <3>2
  <2> QED
    BY <2>2, <2>3 DEF CheckedAsFrozen
<1> QED
  BY <1>1, <1>2, <1>6

\* Unless its subject changed while the accepted checker was running, a
\* verified obligation has, for each required kind, passing evidence from the
\* command its plan froze, and what that run read of the inputs and bound
\* files of everything the obligation speaks of is what they now hold.
THEOREM VerifiedIsAlwaysEarned == Spec => []VerifiedIsEarned
  BY WorkflowAlways, WhatIsVerifiedIsEarned, PTL

\* After a failed run without an artifact its obligation is not verified
\* before the same kind has passed again, whatever runs overlapped.
THEOREM LastRunAlwaysDecides == Spec => []LastRunDecides
<1>1. ASSUME WorkflowInv PROVE LastRunDecides
  <2> SUFFICES ASSUME NEW i \in DOMAIN evidence,
                      NEW o, o = evidence[i].obligation, o \in Obligations,
                      NEW k, k = evidence[i].kind, k \in DOMAIN Obligation(o).policies,
                      evidence[i].digest = SubjectDigest(o),
                      evidence[i].artifact = None,
                      evidence[i].status # "passed",
                      Verified(o)
               PROVE  \E j \in FreshEvidence(o, k) : j > i /\ evidence[j].status = "passed"
    BY DEF LastRunDecides
  <2>1. i \in FreshEvidence(o, k)
    BY DEF FreshEvidence
  <2>2. PICK j \in LatestFresh(o, k) : evidence[j].status = "passed"
    BY VerifiedParts
  <2>3. j \in FreshEvidence(o, k) /\ i <= j /\ i # j
    BY <2>1, <2>2 DEF LatestFresh
  <2>4. DOMAIN evidence \subseteq Nat
    BY <1>1 DEF WorkflowInv, RunsInv
  <2>5. i \in Nat /\ j \in Nat
    BY <2>3, <2>4 DEF FreshEvidence
  <2> QED
    BY <2>2, <2>3, <2>5
<1> QED
  BY <1>1, WorkflowAlways, PTL

\* Every item of a plan is a root or below one.
LEMMA UnderARoot ==
  ASSUME plan \in Plans, NEW i \in DOMAIN Items
  PROVE  \E r \in DOMAIN Items : Items[r].parent = None /\ i \in Subtree(r)
<1>1. PICK r \in Ancestors(Items, i) \ {None} : Items[r].parent = None
  BY ManifestAssumption DEF Items
<1>2. \A j \in DOMAIN Items \cup {None} : Parent(Items, j) \in DOMAIN Items \cup {None}
  BY ManifestAssumption DEF Items, Parent
<1>3. Ancestors(Items, i) \subseteq DOMAIN Items \cup {None}
  BY <1>2 DEF Ancestors
<1> QED
  BY <1>1, <1>3 DEF Subtree

\* A verified project has every obligation of its plan verified and earned,
\* on files that the active admission still describes: no obligation of a
\* well-formed plan escapes the walk over the item tree.
THEOREM GateAlwaysCovers == Spec => []GateCoversEveryObligation
<1>1. ASSUME WorkflowInv PROVE GateCoversEveryObligation
  <2> SUFFICES ASSUME ProjectVerified
               PROVE  AdmissionFresh /\ \A o \in Obligations : Verified(o) /\ Earned(o)
    BY DEF GateCoversEveryObligation
  <2>1. plan \in Plans /\ plan # None
    BY <1>1 DEF WorkflowInv, BindingInv, TablesOK, ProjectVerified
  <2>3. ASSUME NEW i \in DOMAIN Items
        PROVE  LET direct == {o \in Obligations : Obligation(o).item = i}
               IN direct # {} /\ \A o \in direct : Verified(o)
    BY <2>1, <2>3, UnderARoot DEF ProjectVerified, ItemVerified
  <2>4. \A o \in Obligations : Verified(o)
    <3>1. \A o \in Obligations : Obligation(o).item \in DOMAIN Items
      BY <2>1, ManifestAssumption DEF Obligations, Obligation, Items
    <3> QED
      BY <2>3, <3>1
  <2>5. \E o \in Obligations : Verified(o)
    BY <2>1, <2>3, <2>4, ManifestAssumption DEF Items
  <2>6. AdmissionFresh
    BY <2>5 DEF Verified, ObligationStatus, BindingsCurrent
  <2>7. VerifiedIsEarned
    BY <1>1, WhatIsVerifiedIsEarned
  <2> QED
    BY <2>4, <2>6, <2>7 DEF VerifiedIsEarned
<1> QED
  BY <1>1, WorkflowAlways, PTL

\* Replacing the plan, by the same one too, leaves no behavior obligation
\* verified, although the old admission stays active and old evidence may
\* still match.
THEOREM ReplacedPlanIsAlwaysUnverified == Spec => ReplacedPlanIsUnverified
<1> DEFINE Unverified ==
      \A a \in Appliers : applier[a] = None /\ applier'[a] # None =>
        \A o \in DOMAIN Manifest[plan'].obligations :
          Manifest[plan'].obligations[o].role = "behavior" => ~Verified(o)'
<1>1. ASSUME WorkflowInv, [Next]_vars PROVE [Unverified]_vars
  <2>1. ASSUME NEW a \in Appliers, applier[a] = None, applier'[a] # None,
               NEW o \in DOMAIN Manifest[plan'].obligations,
               Manifest[plan'].obligations[o].role = "behavior",
               Verified(o)'
        PROVE  FALSE
    <3>1. PICK b \in Appliers : ReplacePlan(b)
      <4>1. applier' # applier
        BY <2>1
      <4>2. CASE \E b \in Appliers : ReplacePlan(b)
        BY <4>2
      <4>3. ASSUME NEW b \in Appliers, StoreIdentity(b) \/ CrashApplier(b) PROVE FALSE
        BY <1>1, <2>1, <4>3 DEF StoreIdentity, CrashApplier, WorkflowInv, BindingInv, TablesOK
      <4> QED
        BY <1>1, <4>1, <4>2, <4>3
           DEF Next, vars, Edit, StartIndexer, RunIndexer, VerifyIndex, CommitAdmission, AbandonIndexer,
               AcceptInvocation, TakeDigest, RunChecker, RecordEvidence, AbandonRunner
    <3>2. \A x \in DOMAIN rows' : rows'[x] = None
      BY <3>1 DEF ReplacePlan
    <3>3. plan' \in Plans /\ plan' # None
      BY <3>1, NoneAssumption DEF ReplacePlan
    <3>4. Obligation(o)'.role = "behavior"
      BY <2>1 DEF Obligation
    <3>5. BindingsCurrent(o)'
      BY <2>1 DEF Verified, ObligationStatus
    <3>6. PICK x \in BindingsOf({o})' : x \in DOMAIN rows' /\ rows'[x] # None
      BY <3>4, <3>5 DEF BindingsCurrent, BindingsOf
    <3> QED
      BY <3>2, <3>6
  <2> QED
    BY <2>1
<1> QED
  BY <1>1, WorkflowAlways, PTL DEF Spec, ReplacedPlanIsUnverified

-----------------------------------------------------------------------------
(* The check as a process: what it has read.                               *)

CheckType ==
  /\ plan \in Plans
  /\ check = [pc |-> check.pc, items |-> check.items, read |-> check.read, now |-> check.now,
              current |-> check.current, digest |-> check.digest, verdicts |-> check.verdicts,
              result |-> check.result]
  /\ check.pc \in {"idle", "obligations", "next", "evidence", "digest", "done"}
  /\ history = [true |-> history.true, held |-> history.held, torn |-> history.torn,
                replaced |-> history.replaced, quiet |-> history.quiet]
  /\ history.held \in BOOLEAN /\ history.replaced \in BOOLEAN /\ history.quiet \in BOOLEAN

\* Both tables were read from the plan that is still the active one.
ReadOK ==
  /\ check.pc # "idle" => check.items = plan
  /\ check.pc \notin {"idle", "obligations"} => check.read = <<plan, plan>>

\* What is known of the obligation being judged is so, unless it was torn.
JudgingOK ==
  check.pc \in Judging =>
    /\ check.now \in Obligations
    /\ check.now \notin history.torn => (check.current <=> BindingsCurrent(check.now))
    /\ check.now \notin history.torn /\ check.pc = "evidence" => check.digest = SubjectDigest(check.now)

VerdictsOK ==
  /\ check.pc \in {"idle", "obligations"} => check.verdicts = <<>>
  /\ \A o \in DOMAIN check.verdicts :
       /\ check.verdicts[o] = "verified" => o \in history.true \cup history.torn
       /\ history.held /\ history.torn = {} => check.verdicts[o] = "verified"
       /\ history.quiet => check.verdicts[o] = ObligationStatus(o)

ResultOK ==
  check.pc = "done" =>
    /\ check.result = "verified" => Obligations \subseteq history.true \cup history.torn
    /\ history.held /\ history.torn = {} => check.result = "verified"
    /\ history.quiet => (check.result = "verified" <=> ProjectVerified)

CheckInv ==
  /\ CheckType
  /\ history.quiet => history.torn = {} /\ ~history.replaced
  /\ ~history.replaced => ReadOK /\ JudgingOK /\ VerdictsOK /\ ResultOK

\* Read from one plan, the evaluator's view is the store's own.
LEMMA SameView ==
  ASSUME plan \in Plans, check.read = <<plan, plan>>
  PROVE  /\ View!Items = Items /\ View!Obligations = Obligations
         /\ \A o : View!Obligation(o) = Obligation(o)
         /\ \A i : View!Subtree(i) = Subtree(i)
<1>1. Mixed[<<plan, plan>>] = [items |-> Manifest[plan].items, obligations |-> Manifest[plan].obligations]
  BY DEF Mixed
<1>2. <<plan, plan>> # None /\ plan # None
  BY PairsAssumption, NoneAssumption
<1>3. View!Items = Items
  BY <1>1 DEF View!Items, Items
<1>4. View!Obligations = Obligations
  BY <1>1, <1>2 DEF View!Obligations, Obligations
<1>5. ASSUME NEW o PROVE View!Obligation(o) = Obligation(o)
  BY <1>1 DEF View!Obligation, Obligation
<1>6. ASSUME NEW i PROVE View!Subtree(i) = Subtree(i)
  BY <1>3 DEF View!Subtree, Subtree, View!Ancestors, Ancestors, View!Parent, Parent
<1> QED
  BY <1>3, <1>4, <1>5, <1>6

LEMMA SameSubject ==
  ASSUME plan \in Plans, check.read = <<plan, plan>>, NEW o
  PROVE  /\ View!BindingsCurrent(o) <=> BindingsCurrent(o)
         /\ View!SubjectDigest(o) = SubjectDigest(o)
<1>1. /\ View!Items = Items /\ View!Obligations = Obligations
      /\ \A q : View!Obligation(q) = Obligation(q)
      /\ \A i : View!Subtree(i) = Subtree(i)
  BY SameView
<1>2. \A O : View!BindingsOf(O) = BindingsOf(O)
  BY DEF View!BindingsOf, BindingsOf
<1>3. \A q : View!PolicyInputs(q) = PolicyInputs(q)
  BY <1>1 DEF View!PolicyInputs, PolicyInputs
<1>4. View!SubjectObligations(o) = SubjectObligations(o)
  BY <1>1 DEF View!SubjectObligations, SubjectObligations
<1>5. View!SubjectFiles(o) = SubjectFiles(o)
  BY <1>2, <1>3, <1>4 DEF View!SubjectFiles, SubjectFiles
<1>6. View!SubjectDigest(o) = SubjectDigest(o)
  BY <1>1, <1>2, <1>4, <1>5 DEF View!SubjectDigest, SubjectDigest
<1>7. View!AdmissionFresh <=> AdmissionFresh
  BY DEF View!AdmissionFresh, AdmissionFresh
<1>8. View!BindingsCurrent(o) <=> BindingsCurrent(o)
  BY <1>1, <1>2, <1>3, <1>7 DEF View!BindingsCurrent, BindingsCurrent, View!Present
<1> QED
  BY <1>6, <1>8

\* A subject that was not torn is judged as the gate would judge it now.
LEMMA JudgedAsNow ==
  ASSUME plan \in Plans, check.read = <<plan, plan>>,
         check.current <=> BindingsCurrent(check.now), check.digest = SubjectDigest(check.now)
  PROVE  Judge = ObligationStatus(check.now)
<1>1. \A k : Fresh(k) = FreshEvidence(check.now, k)
  BY DEF Fresh, FreshEvidence
<1>2. \A k : Latest(k) = LatestFresh(check.now, k)
  BY <1>1 DEF Latest, LatestFresh
<1>3. View!Obligation(check.now) = Obligation(check.now)
  BY SameView
<1> QED
  BY <1>2, <1>3 DEF Judge, ObligationStatus

\* The gate item by item, wherever it stands in the forest.
Direct(i) == {o \in Obligations : Obligation(o).item = i}

LEMMA ProjectParts ==
  ASSUME plan \in Plans
  PROVE  /\ ProjectVerified <=>
              \A i \in DOMAIN Items :
                /\ Direct(i) # {}
                /\ \A o \in Direct(i) : Verified(o)
                /\ Subtree(i) # {i} => \E o \in Direct(i) : Obligation(o).role = "composition"
         /\ \A o \in Obligations : Obligation(o).item \in DOMAIN Items
<1>1. plan # None
  BY NoneAssumption
<1>2. \A o \in Obligations : Obligation(o).item \in DOMAIN Items
  BY <1>1, ManifestAssumption DEF Obligations, Obligation, Items
<1>3. ASSUME ProjectVerified, NEW i \in DOMAIN Items
      PROVE  /\ Direct(i) # {}
             /\ \A o \in Direct(i) : Verified(o)
             /\ Subtree(i) # {i} => \E o \in Direct(i) : Obligation(o).role = "composition"
  BY <1>3, UnderARoot DEF ProjectVerified, ItemVerified, Direct
<1>4. ASSUME \A i \in DOMAIN Items :
               /\ Direct(i) # {}
               /\ \A o \in Direct(i) : Verified(o)
               /\ Subtree(i) # {i} => \E o \in Direct(i) : Obligation(o).role = "composition",
             NEW r \in DOMAIN Items
      PROVE  ItemVerified(r)
  <2>1. Subtree(r) \subseteq DOMAIN Items
    BY DEF Subtree
  <2> QED
    BY <1>4, <2>1 DEF ItemVerified, Direct
<1> QED
  BY <1>1, <1>2, <1>3, <1>4 DEF ProjectVerified

-----------------------------------------------------------------------------
(* The steps of the check.                                                 *)

\* A reading leaves the store alone and is noted.
LEMMA NoteFacts ==
  ASSUME CheckType, NoteReading
  PROVE  /\ history' = [true |-> history'.true, held |-> history'.held, torn |-> history'.torn,
                        replaced |-> history'.replaced, quiet |-> history'.quiet]
         /\ history'.held \in BOOLEAN
         /\ history'.held <=> history.held /\ ProjectVerified
         /\ history'.torn = history.torn
         /\ history'.replaced = history.replaced /\ history'.quiet = history.quiet
         /\ history.true \subseteq history'.true
         /\ check.pc = "evidence" /\ check.now \in Obligations /\ Verified(check.now) =>
              check.now \in history'.true
<1>1. history' = [history EXCEPT
        !.held = history.held /\ ProjectVerified,
        !.true = IF check.pc = "evidence" /\ check.now \in Obligations /\ Verified(check.now)
                   THEN history.true \cup {check.now} ELSE history.true]
  BY DEF NoteReading
<1> QED
  BY <1>1 DEF CheckType

\* The verdicts there are stay right while nothing but the check goes on.
LEMMA VerdictsStay ==
  ASSUME CheckInv, NoteReading, UNCHANGED vars, check'.verdicts = check.verdicts,
         check'.pc \notin {"idle", "obligations"} \/ check.verdicts = <<>>, ~history.replaced
  PROVE  VerdictsOK'
<1>1. \A o : ObligationStatus(o)' = ObligationStatus(o)
  BY DEF vars, ObligationStatus, LatestFresh, FreshEvidence, SubjectDigest, SubjectFiles, BindingsOf,
         SubjectObligations, PolicyInputs, Subtree, Items, Obligations, Obligation, BindingsCurrent,
         AdmissionFresh
<1>2. VerdictsOK
  BY DEF CheckInv
<1> QED
  BY <1>1, <1>2, NoteFacts DEF CheckInv, VerdictsOK

LEMMA ReadItemsStep == ASSUME CheckInv, ReadItems, NoteReading PROVE CheckInv'
<1>1. /\ check.pc = "idle" /\ UNCHANGED vars /\ CheckType
      /\ check' = [check EXCEPT !.pc = "obligations", !.items = plan]
  BY DEF ReadItems, CheckInv
<1>2. /\ check' = [pc |-> check'.pc, items |-> check'.items, read |-> check'.read, now |-> check'.now,
                   current |-> check'.current, digest |-> check'.digest,
                   verdicts |-> check'.verdicts, result |-> check'.result]
      /\ check'.pc = "obligations" /\ check'.items = plan /\ check'.verdicts = check.verdicts
      /\ plan' = plan
  BY <1>1 DEF CheckType, vars
<1>3. CheckType'
  BY <1>1, <1>2, NoteFacts DEF CheckType
<1>4. history'.quiet => history'.torn = {} /\ ~history'.replaced
  BY <1>1, NoteFacts DEF CheckInv
<1>5. ASSUME ~history'.replaced PROVE ReadOK' /\ JudgingOK' /\ VerdictsOK' /\ ResultOK'
  <2>1. ~history.replaced
    BY <1>1, <1>5, NoteFacts
  <2>2. check.verdicts = <<>>
    BY <1>1, <2>1 DEF CheckInv, VerdictsOK
  <2>3. VerdictsOK'
    BY <1>1, <1>2, <2>1, <2>2, VerdictsStay
  <2> QED
    BY <1>2, <2>3 DEF ReadOK, JudgingOK, Judging, ResultOK
<1> QED
  BY <1>3, <1>4, <1>5 DEF CheckInv

LEMMA ReadObligationsStep == ASSUME CheckInv, ReadObligations, NoteReading PROVE CheckInv'
<1>1. /\ check.pc = "obligations" /\ UNCHANGED vars /\ CheckType
      /\ check' = [check EXCEPT !.pc = "next", !.read = <<check.items, plan>>]
  BY DEF ReadObligations, CheckInv
<1>2. /\ check' = [pc |-> check'.pc, items |-> check'.items, read |-> check'.read, now |-> check'.now,
                   current |-> check'.current, digest |-> check'.digest,
                   verdicts |-> check'.verdicts, result |-> check'.result]
      /\ check'.pc = "next" /\ check'.read = <<check.items, plan>>
      /\ check'.items = check.items /\ check'.verdicts = check.verdicts
      /\ plan' = plan
  BY <1>1 DEF CheckType, vars
<1>3. CheckType'
  BY <1>1, <1>2, NoteFacts DEF CheckType
<1>4. history'.quiet => history'.torn = {} /\ ~history'.replaced
  BY <1>1, NoteFacts DEF CheckInv
<1>5. ASSUME ~history'.replaced PROVE ReadOK' /\ JudgingOK' /\ VerdictsOK' /\ ResultOK'
  <2>1. ~history.replaced /\ check.items = plan
    BY <1>1, <1>5, NoteFacts DEF CheckInv, ReadOK
  <2>2. VerdictsOK'
    BY <1>1, <1>2, <2>1, VerdictsStay
  <2> QED
    BY <1>2, <2>1, <2>2 DEF ReadOK, JudgingOK, Judging, ResultOK
<1> QED
  BY <1>3, <1>4, <1>5 DEF CheckInv

LEMMA ReadBindingsStep ==
  ASSUME CheckInv, NEW o \in Ahead, ReadBindings(o), NoteReading PROVE CheckInv'
<1>1. /\ check.pc = "next" /\ UNCHANGED vars /\ CheckType
      /\ check' = [check EXCEPT !.pc = "digest", !.now = o, !.current = View!BindingsCurrent(o)]
  BY DEF ReadBindings, CheckInv
<1>2. /\ check' = [pc |-> check'.pc, items |-> check'.items, read |-> check'.read, now |-> check'.now,
                   current |-> check'.current, digest |-> check'.digest,
                   verdicts |-> check'.verdicts, result |-> check'.result]
      /\ check'.pc = "digest" /\ check'.now = o /\ (check'.current <=> View!BindingsCurrent(o))
      /\ check'.items = check.items /\ check'.read = check.read /\ check'.verdicts = check.verdicts
      /\ plan' = plan
  BY <1>1 DEF CheckType, vars
<1>3. CheckType'
  BY <1>1, <1>2, NoteFacts DEF CheckType
<1>4. history'.quiet => history'.torn = {} /\ ~history'.replaced
  BY <1>1, NoteFacts DEF CheckInv
<1>5. ASSUME ~history'.replaced PROVE ReadOK' /\ JudgingOK' /\ VerdictsOK' /\ ResultOK'
  <2>1. ~history.replaced /\ check.items = plan /\ check.read = <<plan, plan>> /\ plan \in Plans
    BY <1>1, <1>5, NoteFacts DEF CheckInv, CheckType, ReadOK
  <2>2. VerdictsOK'
    BY <1>1, <1>2, <2>1, VerdictsStay
  <2>3. o \in Obligations /\ Obligations' = Obligations
    BY <1>1, <2>1, SameView DEF Ahead, Unread, Reached, vars, Obligations
  <2>4. BindingsCurrent(o)' <=> BindingsCurrent(o)
    BY <1>1 DEF vars, BindingsCurrent, AdmissionFresh, PolicyInputs, Obligation, BindingsOf
  <2>5. check'.current <=> BindingsCurrent(o)'
    BY <1>2, <2>1, <2>4, SameSubject
  <2> QED
    BY <1>2, <2>1, <2>2, <2>3, <2>5 DEF ReadOK, JudgingOK, Judging, ResultOK
<1> QED
  BY <1>3, <1>4, <1>5 DEF CheckInv

LEMMA ReadSubjectStep == ASSUME CheckInv, ReadSubject, NoteReading PROVE CheckInv'
<1>1. /\ check.pc = "digest" /\ UNCHANGED vars /\ CheckType
      /\ check' = [check EXCEPT !.pc = "evidence", !.digest = View!SubjectDigest(check.now)]
  BY DEF ReadSubject, CheckInv
<1>2. /\ check' = [pc |-> check'.pc, items |-> check'.items, read |-> check'.read, now |-> check'.now,
                   current |-> check'.current, digest |-> check'.digest,
                   verdicts |-> check'.verdicts, result |-> check'.result]
      /\ check'.pc = "evidence" /\ check'.digest = View!SubjectDigest(check.now)
      /\ check'.now = check.now /\ check'.current = check.current
      /\ check'.items = check.items /\ check'.read = check.read /\ check'.verdicts = check.verdicts
      /\ plan' = plan
  BY <1>1 DEF CheckType, vars
<1>3. CheckType'
  BY <1>1, <1>2, NoteFacts DEF CheckType
<1>4. history'.quiet => history'.torn = {} /\ ~history'.replaced
  BY <1>1, NoteFacts DEF CheckInv
<1>5. ASSUME ~history'.replaced PROVE ReadOK' /\ JudgingOK' /\ VerdictsOK' /\ ResultOK'
  <2>1. /\ ~history.replaced /\ check.items = plan /\ check.read = <<plan, plan>> /\ plan \in Plans
        /\ JudgingOK
    BY <1>1, <1>5, NoteFacts DEF CheckInv, CheckType, ReadOK
  <2>2. VerdictsOK'
    BY <1>1, <1>2, <2>1, VerdictsStay
  <2>3. Obligations' = Obligations
    BY <1>1 DEF vars, Obligations
  <2>4. BindingsCurrent(check.now)' <=> BindingsCurrent(check.now)
    BY <1>1, <1>2 DEF vars, BindingsCurrent, AdmissionFresh, PolicyInputs, Obligation, BindingsOf
  <2>5. SubjectDigest(check.now)' = SubjectDigest(check.now)
    BY <1>1, <1>2 DEF vars, SubjectDigest, SubjectFiles, BindingsOf, SubjectObligations, PolicyInputs,
                      Subtree, Items, Obligations, Obligation
  <2>6. check'.digest = SubjectDigest(check.now)
    BY <1>2, <2>1, SameSubject
  <2>7. JudgingOK'
    <3>1. /\ check.now \in Obligations
          /\ check.now \notin history.torn => (check.current <=> BindingsCurrent(check.now))
      BY <1>1, <2>1 DEF JudgingOK, Judging
    <3>2. check'.now \in Obligations'
      BY <1>2, <2>3, <3>1
    <3>3. check'.now \notin history'.torn => (check'.current <=> BindingsCurrent(check.now)')
      <4>1. history'.torn = history.torn
        BY <1>1, NoteFacts
      <4>2. check'.current <=> check.current
        BY <1>2
      <4> QED
        BY <1>2, <2>4, <3>1, <4>1, <4>2
    <3>4. check'.digest = SubjectDigest(check.now)'
      BY <2>5, <2>6
    <3> QED
      BY <3>2, <3>3, <3>4 DEF JudgingOK
  <2> QED
    BY <1>2, <2>1, <2>2, <2>7 DEF ReadOK, ResultOK
<1> QED
  BY <1>3, <1>4, <1>5 DEF CheckInv

\* An obligation gets its verdict.
LEMMA ReadEvidenceStep == ASSUME CheckInv, ReadEvidence, NoteReading PROVE CheckInv'
<1>1. /\ check.pc = "evidence" /\ UNCHANGED vars /\ CheckType
      /\ check' = [check EXCEPT
           !.pc = "next", !.now = None, !.current = FALSE, !.digest = None,
           !.verdicts = [o \in DOMAIN check.verdicts \cup {check.now} |->
                           IF o = check.now THEN Judge ELSE check.verdicts[o]]]
  BY DEF ReadEvidence, CheckInv
<1>2. /\ check' = [pc |-> check'.pc, items |-> check'.items, read |-> check'.read, now |-> check'.now,
                   current |-> check'.current, digest |-> check'.digest,
                   verdicts |-> check'.verdicts, result |-> check'.result]
      /\ check'.pc = "next"
      /\ check'.items = check.items /\ check'.read = check.read
      /\ check'.verdicts = [o \in DOMAIN check.verdicts \cup {check.now} |->
                              IF o = check.now THEN Judge ELSE check.verdicts[o]]
      /\ plan' = plan
  BY <1>1 DEF CheckType, vars
<1>3. CheckType'
  BY <1>1, <1>2, NoteFacts DEF CheckType
<1>4. history'.quiet => history'.torn = {} /\ ~history'.replaced
  BY <1>1, NoteFacts DEF CheckInv
<1>5. ASSUME ~history'.replaced PROVE ReadOK' /\ JudgingOK' /\ VerdictsOK' /\ ResultOK'
  <2>1. /\ ~history.replaced /\ check.items = plan /\ check.read = <<plan, plan>> /\ plan \in Plans
        /\ JudgingOK /\ VerdictsOK
    BY <1>1, <1>5, NoteFacts DEF CheckInv, CheckType, ReadOK
  <2>2. check.now \in Obligations
    BY <1>1, <2>1 DEF JudgingOK, Judging
  <2>3. check.now \notin history.torn => Judge = ObligationStatus(check.now)
    BY <1>1, <2>1, JudgedAsNow DEF JudgingOK, Judging
  <2>4. \A o : ObligationStatus(o)' = ObligationStatus(o)
    BY <1>1 DEF vars, ObligationStatus, LatestFresh, FreshEvidence, SubjectDigest, SubjectFiles, BindingsOf,
                SubjectObligations, PolicyInputs, Subtree, Items, Obligations, Obligation, BindingsCurrent,
                AdmissionFresh
  <2>5. /\ history'.torn = history.torn /\ history.true \subseteq history'.true
        /\ history'.held => history.held /\ ProjectVerified
        /\ history'.quiet => history.quiet
        /\ Verified(check.now) => check.now \in history'.true
    BY <1>1, <2>2, NoteFacts
  <2>6. DOMAIN check'.verdicts = DOMAIN check.verdicts \cup {check.now}
    BY <1>2
  <2>7. ASSUME NEW o \in DOMAIN check'.verdicts
        PROVE  /\ check'.verdicts[o] = "verified" => o \in history'.true \cup history'.torn
               /\ history'.held /\ history'.torn = {} => check'.verdicts[o] = "verified"
               /\ history'.quiet => check'.verdicts[o] = ObligationStatus(o)
    <3>1. CASE o # check.now
      <4>1. o \in DOMAIN check.verdicts /\ check'.verdicts[o] = check.verdicts[o]
        BY <1>2, <2>6, <2>7, <3>1
      <4> QED
        BY <2>1, <2>5, <4>1 DEF VerdictsOK
    <3>2. CASE o = check.now
      <4>1. check'.verdicts[o] = Judge
        BY <1>2, <2>6, <3>2
      <4>2. check'.verdicts[o] = "verified" => o \in history'.true \cup history'.torn
        BY <2>3, <2>5, <3>2, <4>1 DEF Verified
      <4>3. ProjectVerified => Verified(o)
        BY <2>1, <2>2, <3>2, ProjectParts DEF Direct
      <4>4. history'.held /\ history'.torn = {} => check'.verdicts[o] = "verified"
        BY <2>3, <2>5, <3>2, <4>1, <4>3 DEF Verified
      <4>5. history'.quiet => history'.torn = {}
        BY <1>4
      <4> QED
        BY <2>3, <2>5, <3>2, <4>1, <4>2, <4>4, <4>5
    <3> QED
      BY <3>1, <3>2
  <2>8. VerdictsOK'
    BY <1>2, <2>4, <2>7 DEF VerdictsOK
  <2> QED
    BY <1>2, <2>1, <2>8 DEF ReadOK, JudgingOK, Judging, ResultOK
<1> QED
  BY <1>3, <1>4, <1>5 DEF CheckInv

\* The report: every obligation of the plan has been judged by now.
LEMMA FinishStep == ASSUME CheckInv, Finish, NoteReading PROVE CheckInv'
<1> DEFINE answer == IF \E o \in Reached : check.verdicts[o] = "failed" THEN "failed"
                     ELSE IF \A i \in DOMAIN View!Items : Passes(i) THEN "verified"
                     ELSE "incomplete"
<1>1. /\ check.pc = "next" /\ Unread = {} /\ UNCHANGED vars /\ CheckType
      /\ check' = [check EXCEPT !.pc = "done", !.result = answer]
  BY DEF Finish, CheckInv
<1>2. /\ check' = [pc |-> check'.pc, items |-> check'.items, read |-> check'.read, now |-> check'.now,
                   current |-> check'.current, digest |-> check'.digest,
                   verdicts |-> check'.verdicts, result |-> check'.result]
      /\ check'.pc = "done" /\ check'.result = answer
      /\ check'.items = check.items /\ check'.read = check.read /\ check'.verdicts = check.verdicts
      /\ plan' = plan
  <2> HIDE DEF answer
  <2> QED
    BY <1>1 DEF CheckType, vars
<1>3. CheckType'
  BY <1>1, <1>2, NoteFacts DEF CheckType
<1>4. history'.quiet => history'.torn = {} /\ ~history'.replaced
  BY <1>1, NoteFacts DEF CheckInv
<1>5. ASSUME ~history'.replaced PROVE ReadOK' /\ JudgingOK' /\ VerdictsOK' /\ ResultOK'
  <2>1. /\ ~history.replaced /\ check.items = plan /\ check.read = <<plan, plan>> /\ plan \in Plans
        /\ VerdictsOK
    BY <1>1, <1>5, NoteFacts DEF CheckInv, CheckType, ReadOK
  <2>2. VerdictsOK'
    BY <1>1, <1>2, <2>1, VerdictsStay
  <2>3. /\ View!Items = Items /\ View!Obligations = Obligations
        /\ \A o : View!Obligation(o) = Obligation(o)
        /\ \A i : View!Subtree(i) = Subtree(i)
    BY <2>1, SameView
  <2>4. \A o \in Obligations : Obligation(o).item \in DOMAIN Items
    BY <2>1, ProjectParts
  <2>5. Reached = Obligations /\ Obligations \subseteq DOMAIN check.verdicts
    BY <1>1, <2>3, <2>4 DEF Unread, Reached, ReadItem
  <2>6. \A i : OwnObligations(i) = Direct(i)
    BY <2>3, <2>5 DEF OwnObligations, ReadItem, Direct
  <2>7. \A i : Passes(i) <=> /\ Direct(i) # {}
                             /\ \A o \in Direct(i) : check.verdicts[o] = "verified"
                             /\ Subtree(i) # {i} => \E o \in Direct(i) : Obligation(o).role = "composition"
    BY <2>3, <2>6 DEF Passes
  <2>8. answer = "verified" <=>
          /\ \A o \in Obligations : check.verdicts[o] = "verified"
          /\ \A i \in DOMAIN Items : /\ Direct(i) # {}
                                     /\ Subtree(i) # {i} => \E o \in Direct(i) : Obligation(o).role = "composition"
    <3>1. \A o \in Obligations : o \in Direct(Obligation(o).item)
      BY DEF Direct
    <3>2. \A i : Direct(i) \subseteq Obligations
      BY DEF Direct
    <3>3. (\A i \in DOMAIN Items : Passes(i)) <=>
            /\ \A o \in Obligations : check.verdicts[o] = "verified"
            /\ \A i \in DOMAIN Items : /\ Direct(i) # {}
                                       /\ Subtree(i) # {i} => \E o \in Direct(i) : Obligation(o).role = "composition"
      BY <2>4, <2>7, <3>1, <3>2
    <3>4. answer = "verified" <=>
            /\ ~\E o \in Obligations : check.verdicts[o] = "failed"
            /\ \A i \in DOMAIN Items : Passes(i)
      BY <2>3, <2>5
    <3> QED
      BY <3>3, <3>4
  <2>9. ProjectVerified <=>
          /\ \A o \in Obligations : Verified(o)
          /\ \A i \in DOMAIN Items : /\ Direct(i) # {}
                                     /\ Subtree(i) # {i} => \E o \in Direct(i) : Obligation(o).role = "composition"
    BY <2>1, <2>4, ProjectParts DEF Direct
  <2>10. /\ history'.torn = history.torn /\ history.true \subseteq history'.true
         /\ history'.held => history.held /\ ProjectVerified
         /\ history'.quiet => history.quiet
    BY <1>1, NoteFacts
  <2>11. answer = "verified" => Obligations \subseteq history'.true \cup history'.torn
    BY <2>1, <2>5, <2>8, <2>10 DEF VerdictsOK
  <2>12. history'.held /\ history'.torn = {} => answer = "verified"
    BY <2>1, <2>5, <2>8, <2>9, <2>10 DEF VerdictsOK
  <2>13. history'.quiet => (answer = "verified" <=> ProjectVerified)
    <3>1. history'.quiet => \A o \in Obligations : check.verdicts[o] = "verified" <=> Verified(o)
      BY <2>1, <2>5, <2>10 DEF VerdictsOK, Verified
    <3> QED
      BY <2>8, <2>9, <3>1
  <2>14. Obligations' = Obligations /\ (ProjectVerified' <=> ProjectVerified)
    BY <1>1 DEF vars, ProjectVerified, ItemVerified, Verified,
                ObligationStatus, LatestFresh, FreshEvidence, SubjectDigest, SubjectFiles, BindingsOf,
                SubjectObligations, PolicyInputs, Subtree, Items, Obligations, Obligation, BindingsCurrent,
                AdmissionFresh
  <2>15. ResultOK'
    <3> HIDE DEF answer
    <3> QED
      BY <1>2, <2>11, <2>12, <2>13, <2>14 DEF ResultOK
  <2> QED
    BY <1>2, <2>1, <2>2, <2>15 DEF ReadOK, JudgingOK, Judging
<1> QED
  BY <1>3, <1>4, <1>5 DEF CheckInv

-----------------------------------------------------------------------------
(* The steps of the others, and every behaviour.                           *)

LEMMA PlanStep == ASSUME Next PROVE plan' = plan \/ plan' \in Plans
  BY DEF Next, Edit, ReplacePlan, StoreIdentity, CrashApplier, StartIndexer, RunIndexer, VerifyIndex,
         CommitAdmission, AbandonIndexer, AcceptInvocation, TakeDigest, RunChecker, RecordEvidence,
         AbandonRunner

\* What is read from an unchanged subject stays right.
LEMMA SubjectStays ==
  ASSUME UNCHANGED Subject, NEW o
  PROVE  /\ Obligations' = Obligations
         /\ \A q : SubjectDigest(q)' = SubjectDigest(q)
         /\ \A q : BindingsCurrent(q)' <=> BindingsCurrent(q)
  BY DEF Subject, SubjectDigest, SubjectFiles, SubjectObligations, BindingsOf, PolicyInputs, Subtree,
         Items, Obligations, Obligation, BindingsCurrent, AdmissionFresh

\* A change under a check is noted against the obligation being judged, and
\* ends what can be said of a check that nothing disturbed.
LEMMA OthersStep ==
  ASSUME CheckInv, check.pc # "done", Next, UNCHANGED check, NoteChange PROVE CheckInv'
<1>1. CheckType /\ plan' \in Plans
  BY PlanStep DEF CheckInv, CheckType
<1>2. CASE check.pc = "idle"
  <2>1. history' = history
    BY <1>2 DEF NoteChange
  <2> QED
    BY <1>1, <1>2, <2>1
       DEF CheckInv, CheckType, ReadOK, JudgingOK, Judging, VerdictsOK, ResultOK
<1>3. CASE check.pc # "idle"
  <2>1. history' = [history EXCEPT
          !.torn = IF Subject' # Subject /\ check.pc \in Judging THEN history.torn \cup {check.now}
                     ELSE history.torn,
          !.replaced = history.replaced \/ plan' # plan,
          !.quiet = FALSE]
    BY <1>3 DEF NoteChange
  <2>2. /\ history' = [true |-> history'.true, held |-> history'.held, torn |-> history'.torn,
                       replaced |-> history'.replaced, quiet |-> history'.quiet]
        /\ history'.true = history.true /\ history'.held = history.held
        /\ history'.held \in BOOLEAN /\ history'.replaced \in BOOLEAN
        /\ history'.quiet = FALSE
        /\ history.torn \subseteq history'.torn
        /\ history'.replaced <=> history.replaced \/ plan' # plan
        /\ check.pc \in Judging /\ check.now \notin history'.torn => Subject' = Subject
    BY <1>1, <2>1 DEF CheckType
  <2>3. CheckType'
    BY <1>1, <2>2 DEF CheckType
  <2>4. ASSUME ~history'.replaced PROVE ReadOK' /\ JudgingOK' /\ VerdictsOK' /\ ResultOK'
    <3>1. /\ ~history.replaced /\ plan' = plan
          /\ ReadOK /\ JudgingOK /\ VerdictsOK
      BY <2>2, <2>4 DEF CheckInv
    <3>2. ReadOK'
      BY <3>1 DEF ReadOK
    <3>3. JudgingOK'
      <4>1. Obligations' = Obligations
        BY <3>1 DEF Obligations
      <4>2. CASE check.pc \in Judging /\ check.now \notin history'.torn
        <5>1. /\ SubjectDigest(check.now)' = SubjectDigest(check.now)
              /\ BindingsCurrent(check.now)' <=> BindingsCurrent(check.now)
          BY <2>2, <4>2, SubjectStays
        <5>2. check.now \notin history.torn
          BY <2>2, <4>2
        <5> QED
          BY <3>1, <4>1, <4>2, <5>1, <5>2 DEF JudgingOK
      <4>3. CASE check.pc \in Judging /\ check.now \in history'.torn
        BY <3>1, <4>1, <4>3 DEF JudgingOK
      <4>4. CASE check.pc \notin Judging
        BY <4>4 DEF JudgingOK, Judging
      <4> QED
        BY <4>2, <4>3, <4>4
    <3>4. VerdictsOK'
      BY <2>2, <3>1 DEF VerdictsOK
    <3> QED
      BY <3>2, <3>3, <3>4 DEF ResultOK
  <2> QED
    BY <2>2, <2>3, <2>4 DEF CheckInv
<1> QED
  BY <1>2, <1>3

LEMMA CheckStart == CheckInit => CheckInv
<1> SUFFICES ASSUME CheckInit PROVE CheckInv
  OBVIOUS
<1>1. plan \in Plans /\ check = Idle /\ history = Nothing
  BY DEF CheckInit
<1>2. CheckType
  BY <1>1 DEF CheckType, Idle, Nothing
<1>3. ReadOK /\ JudgingOK /\ VerdictsOK /\ ResultOK
  BY <1>1 DEF ReadOK, JudgingOK, Judging, VerdictsOK, ResultOK, Idle
<1>4. history.torn = {} /\ history.replaced = FALSE
  BY <1>1 DEF Nothing
<1> QED
  BY <1>2, <1>3, <1>4 DEF CheckInv

LEMMA CheckStep == CheckInv /\ [CheckNext]_allVars => CheckInv'
<1> SUFFICES ASSUME CheckInv, [CheckNext]_allVars PROVE CheckInv'
  OBVIOUS
<1>1. CASE Check /\ NoteReading
  BY <1>1, ReadItemsStep, ReadObligationsStep, ReadBindingsStep, ReadSubjectStep, ReadEvidenceStep,
     FinishStep DEF Check
<1>2. CASE check.pc # "done" /\ Next /\ UNCHANGED check /\ NoteChange
  BY <1>2, OthersStep
<1>3. CASE UNCHANGED allVars
  <2>1. UNCHANGED <<content, plan, rows, active, evidence, check, history>>
    BY <1>3 DEF allVars, vars
  <2>2. /\ Obligations' = Obligations
        /\ \A o : BindingsCurrent(o)' <=> BindingsCurrent(o)
        /\ \A o : SubjectDigest(o)' = SubjectDigest(o)
    BY <2>1, SubjectStays DEF Subject
  <2>3. \A o : ObligationStatus(o)' = ObligationStatus(o)
    BY <2>1, <2>2 DEF ObligationStatus, LatestFresh, FreshEvidence, Obligation
  <2>4. ProjectVerified' <=> ProjectVerified
    BY <2>1, <2>2, <2>3 DEF ProjectVerified, ItemVerified, Verified, Subtree, Items, Obligation
  <2>5. CheckType' /\ (ReadOK' <=> ReadOK)
    BY <2>1 DEF CheckInv, CheckType, ReadOK
  <2>6. JudgingOK => JudgingOK'
    BY <2>1, <2>2 DEF JudgingOK
  <2>7. VerdictsOK => VerdictsOK'
    BY <2>1, <2>3 DEF VerdictsOK
  <2>8. ResultOK => ResultOK'
    BY <2>1, <2>2, <2>4 DEF ResultOK
  <2> QED
    BY <2>1, <2>5, <2>6, <2>7, <2>8 DEF CheckInv
<1> QED
  BY <1>1, <1>2, <1>3 DEF CheckNext

\* The inductive invariant of a check: what it holds in its hands is still so,
\* unless the obligation was torn or the plan replaced.
THEOREM CheckInvariant == CheckSpec => []CheckInv
<1> QED
  BY CheckStart, CheckStep, PTL DEF CheckSpec

\* For any number of edits, admissions and checker runs beside it: a project
\* that holds whenever the check looks is reported as verified.
THEOREM HeldIsAlwaysReported == CheckSpec => []HeldThroughoutIsReported
<1>1. CheckInv => HeldThroughoutIsReported
  BY DEF CheckInv, ResultOK, HeldThroughoutIsReported
<1> QED
  BY <1>1, CheckInvariant, PTL

\* What a check reports was true of each obligation when it was judged, and
\* of the whole project if nothing changed.
THEOREM ReportedWasAlwaysVerified == CheckSpec => []ReportedWasVerified
<1>1. CheckInv => ReportedWasVerified
  BY DEF CheckInv, ResultOK, ReportedWasVerified
<1> QED
  BY <1>1, CheckInvariant, PTL
=============================================================================
