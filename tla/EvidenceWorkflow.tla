-------------------------- MODULE EvidenceWorkflow --------------------------
(***************************************************************************)
(* The local mkso store: one SQLite database, the project's files, and the *)
(* CLI commands that work on both at once.  `mkso plan apply`, `mkso index *)
(* scip` and `mkso evidence run` are processes that touch the database in  *)
(* several separate transactions and read files in between; an editor may  *)
(* change any file at any moment; any command may be killed between two of *)
(* its steps.  `mkso check` reads and changes nothing, so it is the state  *)
(* function ProjectStatus.                                                 *)
(*                                                                         *)
(* A SHA-256 digest is modelled by the value it is taken of, so two        *)
(* digests are equal exactly when the digested values are.                 *)
(***************************************************************************)
EXTENDS Naturals, Sequences

CONSTANTS
  Plans,        \* manifests that load_manifest accepts
  Manifest,     \* what each of them says, a function on Plans
  Files,        \* project files, named relative to the project root
  ContractFile, \* the frozen contract, one of Files
  Contents,     \* what a file may hold
  Choices,      \* what the editor and the checkers may put in each file
  Scope,        \* the subjects and source-index policy a contract declares
  Defining,     \* contents that define the file's planned symbol exactly once
  Appliers, Indexers, Runners,  \* processes running the three commands
  MaxEvents,    \* bound on commands started and edits made
  Absent,       \* the content of a file that does not exist
  None

\* The items at and above i: theme, epic, story and task are the four ranks.
Parent(items, i) == IF i = None THEN None ELSE items[i].parent
Ancestors(items, i) ==
  LET up(j) == Parent(items, j) IN {i, up(i), up(up(i)), up(up(up(i)))}

\* A validated manifest: a forest of items, obligations that items own, one
\* checker policy per evidence kind, and bindings to files in the project.
ASSUME ManifestAssumption ==
  \A p \in Plans :
    /\ None \notin DOMAIN Manifest[p].items
    /\ DOMAIN Manifest[p].items # {}
    /\ \A i \in DOMAIN Manifest[p].items :
         /\ Manifest[p].items[i].parent \in DOMAIN Manifest[p].items \cup {None}
         /\ \E r \in Ancestors(Manifest[p].items, i) \ {None} : Manifest[p].items[r].parent = None
    /\ \A o \in DOMAIN Manifest[p].obligations :
         /\ Manifest[p].obligations[o].item \in DOMAIN Manifest[p].items
         /\ \A k \in DOMAIN Manifest[p].obligations[o].policies :
              /\ Manifest[p].obligations[o].policies[k].inputs \subseteq Files
              /\ Manifest[p].obligations[o].policies[k].artifact \in Files \cup {None}
    /\ Manifest[p].bindings \subseteq (DOMAIN Manifest[p].obligations) \X Files

ASSUME FilesAssumption ==
  /\ ContractFile \in Files
  /\ Absent \notin Contents
  /\ Choices \in [Files -> SUBSET (Contents \cup {Absent})]
  /\ Choices[ContractFile] \ {Absent} \subseteq DOMAIN Scope
  /\ \A c \in DOMAIN Scope : /\ Scope[c].indexed \subseteq Scope[c].inputs
                             /\ Scope[c].inputs \subseteq Files

\* A SCIP admission: the contract, the input manifest and the index bytes,
\* which follow from the sources the indexer read.
Admissions ==
  UNION {[contract : {c},
          inputs   : [Scope[c].inputs -> Contents],
          index    : [Scope[c].indexed -> Contents \cup {Absent}]] : c \in DOMAIN Scope}

ResolvedRows == [admission : Admissions, source : Contents]

ASSUME NoneAssumption ==
  /\ None \notin Plans \cup Admissions \cup ResolvedRows
  /\ MaxEvents \in Nat

VARIABLES
  content,   \* the project's files
  plan,      \* metadata active_plan_hash, and with it the plan tables
  project,   \* metadata project_id and project_name
  rows,      \* planned_bindings: None until a SCIP admission resolves them
  active,    \* metadata active_scip_admission_hash
  evidence,  \* the evidence table in created_at order
  applier,   \* per process: the plan whose identity it has yet to store
  indexer,   \* per process: an `index scip` command
  runner,    \* per process: an `evidence run` command
  events     \* commands started and edits made so far

vars == <<content, plan, project, rows, active, evidence, applier, indexer, runner, events>>

-----------------------------------------------------------------------------
(* Reading the active plan.                                                *)

Obligations == IF plan = None THEN {} ELSE DOMAIN Manifest[plan].obligations
Obligation(o) == Manifest[plan].obligations[o]
Items == Manifest[plan].items
Present(f) == content[f] # Absent

\* The items under i, i included.
Subtree(i) == {j \in DOMAIN Items : i \in Ancestors(Items, j)}

BindingsOf(O) == {b \in DOMAIN rows : b[1] \in O}
PolicyInputs(o) == UNION {Obligation(o).policies[k].inputs : k \in DOMAIN Obligation(o).policies}

\* The obligations a digest speaks of: the obligation alone, or for a
\* composition obligation every obligation below its item.
SubjectObligations(o) ==
  IF Obligation(o).role = "composition"
    THEN {q \in Obligations : Obligation(q).item \in Subtree(Obligation(o).item)}
    ELSE {o}

SubjectFiles(o) ==
  LET S == SubjectObligations(o)
  IN (UNION {PolicyInputs(q) : q \in S}) \cup {b[2] : b \in BindingsOf(S)}

\* Evaluator.subject_digest: obligation records, binding rows (the indexed
\* source hash is not among the hashed fields), current file hashes.
SubjectDigestWithoutInputs(o) ==  \* fault: checker inputs named, not hashed
  LET S == SubjectObligations(o)
  IN [admission |-> active,
      items     |-> <<>>,
      records   |-> [q \in S |-> Obligation(q)],
      bindings  |-> [b \in BindingsOf(S) |->
                       IF rows[b] = None THEN None ELSE rows[b].admission],
      contents  |-> [f \in SubjectFiles(o) |->
                       IF \E b \in BindingsOf(S) : b[2] = f THEN content[f] ELSE None]]

SubjectDigest(o) ==
  LET S == SubjectObligations(o)
  IN [admission |-> active,
      items     |-> IF Obligation(o).role = "composition"
                      THEN [i \in Subtree(Obligation(o).item) |-> Items[i]]
                      ELSE <<>>,
      records   |-> [q \in S |-> Obligation(q)],
      bindings  |-> [b \in BindingsOf(S) |->
                       IF rows[b] = None THEN None ELSE rows[b].admission],
      contents  |-> [f \in SubjectFiles(o) |-> content[f]]]

-----------------------------------------------------------------------------
(* mkso check: obligations, items, project.                                *)

\* scip_freshness_reasons returns no reason.
AdmissionFresh ==
  /\ active # None
  /\ content[ContractFile] = active.contract
  /\ \A f \in DOMAIN active.inputs : content[f] = active.inputs[f]

\* _binding_reasons returns no reason.
BindingsCurrent(o) ==
  /\ AdmissionFresh
  /\ \A f \in PolicyInputs(o) : Present(f)
  /\ Obligation(o).role = "behavior" => BindingsOf({o}) # {}
  /\ \A b \in BindingsOf({o}) :
       /\ rows[b] # None
       /\ rows[b].admission = active
       /\ Present(b[2])
       /\ content[b[2]] = rows[b].source

\* Evidence that still speaks of the current subject and whose artifact, if
\* it has one, still has the recorded bytes.
FreshEvidence(o, k) ==
  {i \in DOMAIN evidence :
     LET e == evidence[i]
     IN /\ e.obligation = o
        /\ e.kind = k
        /\ e.digest = SubjectDigest(o)
        /\ \/ e.artifact = None
           \/ Present(e.artifact) /\ content[e.artifact] = e.artifactHash}

OldestFresh(o, k) ==  \* fault: ORDER BY created_at without DESC
  {i \in FreshEvidence(o, k) : \A j \in FreshEvidence(o, k) : i <= j}

\* The index of the newest of them, if there is one.
LatestFresh(o, k) ==
  {i \in FreshEvidence(o, k) : \A j \in FreshEvidence(o, k) : j <= i}

ObligationStatus(o) ==
  LET required == DOMAIN Obligation(o).policies
      latest(k) == LatestFresh(o, k)
  IN IF \E k \in required : \E i \in latest(k) : evidence[i].status # "passed"
       THEN "failed"
       ELSE IF BindingsCurrent(o) /\ \A k \in required : latest(k) # {}
              THEN "verified"
              ELSE "incomplete"

Verified(o) == ObligationStatus(o) = "verified"

\* check_item: an item is verified when its obligations and its children
\* are, and a parent has to own a composition obligation.
ItemVerifiedByItsOwnObligations(i) ==  \* fault: children are not consulted
  LET direct == {o \in Obligations : Obligation(o).item = i}
  IN direct # {} /\ \A o \in direct : Verified(o)

ItemVerified(i) ==
  \A j \in Subtree(i) :
    LET direct == {o \in Obligations : Obligation(o).item = j}
    IN /\ direct # {}
       /\ \A o \in direct : Verified(o)
       /\ Subtree(j) # {j} => \E o \in direct : Obligation(o).role = "composition"

ProjectVerified ==
  plan # None /\ \A i \in DOMAIN Items : Items[i].parent = None => ItemVerified(i)

-----------------------------------------------------------------------------
(* Process states.                                                         *)

IdleIndexer == [pc |-> "idle", before |-> None, scope |-> None, seen |-> None, admission |-> None]

IdleRunner ==
  [pc |-> "idle", obligation |-> None, kind |-> None, policy |-> None,
   digest |-> None, status |-> None, seen |-> None, raced |-> FALSE]

Init ==
  /\ content \in [Files -> Contents \cup {Absent}]
  /\ \A f \in Files : content[f] \in Choices[f]
  /\ plan = None
  /\ project = None
  /\ rows = <<>>
  /\ active = None
  /\ evidence = <<>>
  /\ applier = [a \in Appliers |-> None]
  /\ indexer = [x \in Indexers |-> IdleIndexer]
  /\ runner = [r \in Runners |-> IdleRunner]
  /\ events = 0

Event == events < MaxEvents /\ events' = events + 1

-----------------------------------------------------------------------------
(* raced marks an evidence run whose subject changed under it: the plan    *)
(* between the policy check and the digest, or a digested file between the *)
(* digest and the checker's reads.                                         *)

PlanRaces ==
  [r \in Runners |->
     IF runner[r].pc = "accepted" THEN [runner[r] EXCEPT !.raced = TRUE] ELSE runner[r]]

FileRaces(f, r) ==
  runner[r].pc = "digested" /\ f \in DOMAIN runner[r].digest.contents

(* An editor, a build or a version-control command changes a file.         *)
Edit(f) ==
  /\ Event
  /\ \E c \in Choices[f] \ {content[f]} :
       content' = [content EXCEPT ![f] = c]
  /\ runner' = [r \in Runners |->
                  IF FileRaces(f, r) THEN [runner[r] EXCEPT !.raced = TRUE] ELSE runner[r]]
  /\ UNCHANGED <<plan, project, rows, active, evidence, applier, indexer>>

-----------------------------------------------------------------------------
(* mkso plan apply.                                                        *)

ReplacePlanKeepingSymbols(a) ==  \* fault: an unchanged binding stays resolved
  /\ Event
  /\ applier[a] = None
  /\ \E p \in Plans :
       /\ plan' = p
       /\ rows' = [b \in Manifest[p].bindings |-> IF b \in DOMAIN rows THEN rows[b] ELSE None]
       /\ applier' = [applier EXCEPT ![a] = p]
  /\ runner' = PlanRaces
  /\ UNCHANGED <<content, project, active, evidence, indexer>>

\* The transaction of Store.replace_plan: deleting the work items cascades
\* to obligations and planned bindings; the new bindings are unresolved; the
\* active admission and the evidence history stay.
ReplacePlan(a) ==
  /\ Event
  /\ applier[a] = None
  /\ \E p \in Plans :
       /\ plan' = p
       /\ rows' = [b \in Manifest[p].bindings |-> None]
       /\ applier' = [applier EXCEPT ![a] = p]
  /\ runner' = PlanRaces
  /\ UNCHANGED <<content, project, active, evidence, indexer>>

\* The second transaction of apply_manifest.
StoreIdentity(a) ==
  /\ applier[a] # None
  /\ project' = Manifest[applier[a]].project
  /\ applier' = [applier EXCEPT ![a] = None]
  /\ UNCHANGED <<content, plan, rows, active, evidence, indexer, runner, events>>

CrashApplier(a) ==
  /\ applier[a] # None
  /\ applier' = [applier EXCEPT ![a] = None]
  /\ UNCHANGED <<content, plan, project, rows, active, evidence, indexer, runner, events>>

-----------------------------------------------------------------------------
(* mkso index scip.                                                        *)

\* The contract gives the input files; run_scip_indexer hashes them first.
StartIndexer(x) ==
  /\ Event
  /\ indexer[x].pc = "idle"
  /\ Present(ContractFile)
  /\ LET scope == Scope[content[ContractFile]]
     IN /\ \A f \in scope.inputs : Present(f)
        /\ indexer' = [indexer EXCEPT
             ![x] = [IdleIndexer EXCEPT !.pc = "running", !.scope = scope,
                       !.before = [f \in scope.inputs |-> content[f]]]]
  /\ UNCHANGED <<content, plan, project, rows, active, evidence, applier, runner>>

\* The indexer process reads the sources for itself.
RunIndexer(x) ==
  /\ indexer[x].pc = "running"
  /\ indexer' = [indexer EXCEPT
       ![x].pc = "indexed",
       ![x].seen = [f \in indexer[x].scope.indexed |-> content[f]]]
  /\ UNCHANGED <<content, plan, project, rows, active, evidence, applier, runner, events>>

\* The inputs must hash as before; the contract, read again, must declare
\* the same scope and every subject must have one definition in the index.
VerifyIndex(x) ==
  LET me == indexer[x]
      contract == content[ContractFile]
  IN /\ me.pc = "indexed"
     /\ \A f \in DOMAIN me.before : content[f] = me.before[f]
     /\ contract # Absent
     /\ Scope[contract].inputs = me.scope.inputs
     /\ Scope[contract].indexed = me.scope.indexed
     /\ \A s \in Scope[contract].subjects : s \in me.scope.indexed /\ me.seen[s] \in Defining
     /\ indexer' = [indexer EXCEPT
          ![x].pc = "verified",
          ![x].admission = [contract |-> contract, inputs |-> me.before, index |-> me.seen]]
     /\ UNCHANGED <<content, plan, project, rows, active, evidence, applier, runner, events>>

CommitWithoutRollback(x) ==  \* fault: what was written before an error stays
  LET new == indexer[x].admission
      subjects == Scope[new.contract].subjects
  IN /\ indexer[x].pc = "verified"
     /\ rows' = [b \in DOMAIN rows |->
                   IF b[2] \in subjects THEN [admission |-> new, source |-> new.inputs[b[2]]] ELSE None]
     /\ active' = IF \A b \in DOMAIN rows : b[2] \in subjects THEN new ELSE active
     /\ indexer' = [indexer EXCEPT ![x] = IdleIndexer]
     /\ UNCHANGED <<content, plan, project, evidence, applier, runner, events>>

\* The transaction of Store.admit_scip_index.  It resets every planned
\* binding and resolves it again; one binding that is not an authorized
\* subject raises, and the whole transaction is rolled back.
CommitAdmission(x) ==
  LET new == indexer[x].admission
  IN /\ indexer[x].pc = "verified"
     /\ \A b \in DOMAIN rows : b[2] \in Scope[new.contract].subjects
     /\ rows' = [b \in DOMAIN rows |-> [admission |-> new, source |-> new.inputs[b[2]]]]
     /\ active' = new
     /\ indexer' = [indexer EXCEPT ![x] = IdleIndexer]
     /\ UNCHANGED <<content, plan, project, evidence, applier, runner, events>>

\* Every error raised on the way, a rolled-back commit, or a kill.
AbandonIndexer(x) ==
  /\ indexer[x].pc # "idle"
  /\ indexer' = [indexer EXCEPT ![x] = IdleIndexer]
  /\ UNCHANGED <<content, plan, project, rows, active, evidence, applier, runner, events>>

-----------------------------------------------------------------------------
(* mkso evidence run.                                                      *)

AcceptAnyCommand(r) ==  \* fault: the policy lookup matches the kind alone
  /\ Event
  /\ runner[r].pc = "idle"
  /\ \E o \in Obligations, p \in Plans : \E k \in DOMAIN Obligation(o).policies :
       runner' = [runner EXCEPT
         ![r] = [IdleRunner EXCEPT !.pc = "accepted", !.obligation = o, !.kind = k,
                   !.policy = Manifest[p].obligations[o].policies[k]]]
  /\ UNCHANGED <<content, plan, project, rows, active, evidence, applier, indexer>>

\* The invocation must be one the accepted plan froze for this kind.
AcceptInvocation(r) ==
  /\ Event
  /\ runner[r].pc = "idle"
  /\ \E o \in Obligations : \E k \in DOMAIN Obligation(o).policies :
       runner' = [runner EXCEPT
         ![r] = [IdleRunner EXCEPT !.pc = "accepted", !.obligation = o, !.kind = k,
                   !.policy = Obligation(o).policies[k]]]
  /\ UNCHANGED <<content, plan, project, rows, active, evidence, applier, indexer>>

\* current_subject_digest opens its own transactions; the obligation may be
\* gone by then (KeyError, AbandonRunner).
TakeDigest(r) ==
  /\ runner[r].pc = "accepted"
  /\ runner[r].obligation \in Obligations
  /\ runner' = [runner EXCEPT
       ![r].pc = "digested",
       ![r].digest = SubjectDigest(runner[r].obligation)]
  /\ UNCHANGED <<content, plan, project, rows, active, evidence, applier, indexer, events>>

\* The checker reads the subject's files, may write its artifact, and exits
\* with zero, non-zero, or not at all in time.
RunChecker(r) ==
  LET me == runner[r]
      artifact == me.policy.artifact
  IN /\ me.pc = "digested"
     /\ \E status \in {"passed", "failed", "error"},
           after \in {content} \cup
             (IF artifact = None THEN {}
                ELSE {[content EXCEPT ![artifact] = c] : c \in Choices[artifact]}) :
          /\ content' = after
          /\ runner' = [q \in Runners |->
               IF q = r
                 THEN [me EXCEPT !.pc = "checked", !.status = status,
                         !.seen = [f \in DOMAIN me.digest.contents |-> content[f]]]
                 ELSE IF after # content /\ FileRaces(artifact, q)
                        THEN [runner[q] EXCEPT !.raced = TRUE]
                        ELSE runner[q]]
     /\ UNCHANGED <<plan, project, rows, active, evidence, applier, indexer, events>>

\* The artifact is hashed after the checker has ended, then the row goes in.
RecordEvidence(r) ==
  LET me == runner[r]
      artifact == me.policy.artifact
      missing == artifact # None /\ ~Present(artifact)
  IN /\ me.pc = "checked"
     /\ evidence' = Append(evidence,
          [obligation |-> me.obligation, kind |-> me.kind, command |-> me.policy.command,
           status |-> IF me.status = "passed" /\ missing THEN "error" ELSE me.status,
           digest |-> me.digest, artifact |-> artifact,
           artifactHash |-> IF artifact = None \/ missing THEN None ELSE content[artifact],
           seen |-> me.seen, raced |-> me.raced])
     /\ runner' = [runner EXCEPT ![r] = IdleRunner]
     /\ UNCHANGED <<content, plan, project, rows, active, applier, indexer, events>>

AbandonRunner(r) ==
  /\ runner[r].pc # "idle"
  /\ runner' = [runner EXCEPT ![r] = IdleRunner]
  /\ UNCHANGED <<content, plan, project, rows, active, evidence, applier, indexer, events>>

-----------------------------------------------------------------------------
Next ==
  \/ \E f \in Files : Edit(f)
  \/ \E a \in Appliers : ReplacePlan(a) \/ StoreIdentity(a) \/ CrashApplier(a)
  \/ \E x \in Indexers :
       \/ StartIndexer(x) \/ RunIndexer(x) \/ VerifyIndex(x)
       \/ CommitAdmission(x) \/ AbandonIndexer(x)
  \/ \E r \in Runners :
       \/ AcceptInvocation(r) \/ TakeDigest(r) \/ RunChecker(r)
       \/ RecordEvidence(r) \/ AbandonRunner(r)

Spec == Init /\ [][Next]_vars

-----------------------------------------------------------------------------
(* Properties.                                                             *)

\* The tables, files and processes hold what the code can put there.
TypeOK ==
  /\ content \in [Files -> Contents \cup {Absent}]
  /\ content[ContractFile] \in DOMAIN Scope \cup {Absent}
  /\ plan \in Plans \cup {None}
  /\ project \in {Manifest[p].project : p \in Plans} \cup {None}
  /\ active \in Admissions \cup {None}
  /\ rows \in [IF plan = None THEN {} ELSE Manifest[plan].bindings -> ResolvedRows \cup {None}]
  /\ applier \in [Appliers -> Plans \cup {None}]
  /\ \A x \in Indexers :
       /\ indexer[x].pc \in {"idle", "running", "indexed", "verified"}
       /\ indexer[x].pc = "verified" => indexer[x].admission \in Admissions
  /\ \A r \in Runners :
       /\ runner[r].pc \in {"idle", "accepted", "digested", "checked"}
       /\ runner[r].raced \in BOOLEAN
  /\ events \in 0 .. MaxEvents
  /\ \A i \in DOMAIN evidence : evidence[i].status \in {"passed", "failed", "error"}

\* The planned bindings are all unresolved, or all resolved by the active
\* admission to a file it indexed: never a mixture of two admissions, never a
\* binding left over from the plan before, and never some of them resolved by
\* an admission that was rejected for the others (admit_scip_index).
BindingsFollowAdmission ==
  \/ \A b \in DOMAIN rows : rows[b] = None
  \/ /\ active # None
     /\ \A b \in DOMAIN rows :
          /\ rows[b] # None
          /\ rows[b].admission = active
          /\ b[2] \in Scope[active.contract].subjects
          /\ rows[b].source = active.inputs[b[2]]

\* The status of o speaks of o and, for a composition, of every obligation at
\* or below its item.
Concerns(o, q) ==
  \/ q = o
  \/ /\ Obligation(o).role = "composition"
     /\ Obligation(o).item \in Ancestors(Items, Obligation(q).item)

\* What a verified obligation claims: for every required kind a checker that
\* the active plan froze has passed, and what it read of the inputs and the
\* bound files of all that is concerned is what they now hold.
CheckedAsFrozen(o, k, e) ==
  /\ e.command = Obligation(o).policies[k].command
  /\ \A q \in Obligations : Concerns(o, q) =>
       \A f \in PolicyInputs(q) \cup {b[2] : b \in BindingsOf({q})} :
         f \in DOMAIN e.seen /\ e.seen[f] = content[f]

Earned(o) ==
  \A k \in DOMAIN Obligation(o).policies :
    \E i \in FreshEvidence(o, k) :
      /\ evidence[i].status = "passed"
      /\ evidence[i].raced \/ CheckedAsFrozen(o, k, evidence[i])

\* Unless its subject changed while the accepted checker was running, a
\* verified obligation has earned that status, whatever was edited, applied
\* or admitted before, after or in between.
VerifiedIsEarned == \A o \in Obligations : Verified(o) => Earned(o)

\* After a run without an artifact has failed or broken, its obligation is
\* not verified unless the same kind has passed since, however many runs
\* overlapped and whichever of them began first.
LastRunDecides ==
  \A i \in DOMAIN evidence :
    LET e == evidence[i]
    IN /\ e.obligation \in Obligations
       /\ e.kind \in DOMAIN Obligation(e.obligation).policies
       /\ e.digest = SubjectDigest(e.obligation)
       /\ e.artifact = None
       /\ e.status # "passed"
       /\ Verified(e.obligation)
       => \E j \in FreshEvidence(e.obligation, e.kind) : j > i /\ evidence[j].status = "passed"

\* In a verified project, however deep its items are nested, each obligation
\* of the plan is verified and has earned that, a composition from
\* everything below it, on files the active admission still describes.
GateCoversEveryObligation ==
  ProjectVerified => /\ AdmissionFresh
                     /\ \A o \in Obligations : Verified(o) /\ Earned(o)

\* Accepting a plan, the same one included, leaves no behavior obligation
\* verified: its bindings wait for a new admission even if old evidence and
\* the old admission still match.
ReplacedPlanIsUnverified ==
  [][ \A a \in Appliers : applier[a] = None /\ applier'[a] # None =>
        \A o \in DOMAIN Manifest[plan'].obligations :
          Manifest[plan'].obligations[o].role = "behavior" => ~Verified(o)' ]_vars

-----------------------------------------------------------------------------
(* What the documentation says and the code does not do.                   *)

\* README: "an old passing result cannot validate code that has since
\* changed"; evidence is bound to the exact code it describes.
VerifiedCodeWasChecked ==
  \A o \in Obligations : Verified(o) =>
    \A k \in DOMAIN Obligation(o).policies :
      \E i \in FreshEvidence(o, k) :
        /\ evidence[i].status = "passed"
        /\ evidence[i].seen = [f \in SubjectFiles(o) |-> content[f]]
=============================================================================
