# mkso: specification, model checking and proofs

`mkso` binds the planned behaviours of a software project to the code that
implements them (through a SCIP index), runs frozen checkers on that code and
keeps their results as evidence.  Around that core the repository has a small
finite-state prover, an impact analysis over a frozen contract, a PostgreSQL
store for toolchain qualification runs, and a bootstrap that lets a language
model draft one function body in a container.  This directory specifies the
parts with state and control, model-checks them on small instances and proves
their main properties for all instances.

    tlc -workers 2 -config EvidenceWorkflowFlat.cfg MCEvidenceWorkflow
    tlapm EvidenceWorkflowProofs.tla

`PROJECT.json` lists the runs, the mutants that show what each property
catches, the source lines of every definition, the hazards and the findings.

## 1. Inventory

| component | state it keeps | operations | what is hard |
|---|---|---|---|
| Evidence workflow (`store.py`, `manifest.py`, `evidence.py`, `evaluation.py`, `scip.py`, `cli.py`) | one SQLite database (plan tables, planned bindings, SCIP admissions, evidence, metadata) and the project's files | `plan apply`, `index scip`, `evidence run`, `check` | every command is several transactions with file reads in between; edits and other commands run in the gaps; kills |
| Finite-state prover (`modelcheck.py`) | none beyond one command | `model prove`, `model check` | in-place sweeps, certificates from elsewhere |
| Impact closure (`impact.py`) | none beyond one command | `compute_scip_impact` | four interdependent loops to a fixpoint, one over a snapshot, one that skips |
| Qualification store (`_sql/i06_*.sql`, `qualification_store.py`) | five PostgreSQL tables | `admit`, `start`, `commit_raw_output`, `commit_cleanup`, event prefix, `retain`, `commit_terminal`, `read_terminal` | concurrent brokers and runners, aborted and repeated calls, lost answers, documents with equal hashes |
| Qualification evaluation (`toolchain_qualification.py`) | none | builds and validates result documents | pure data |
| Draft broker (`bootstrap/baseline/broker.py`) | a state directory: capsule, lock, baseline, drafts, scaffold | `prepare`, `request` (public, submit) | concurrent submissions, flock, kills between writes, deadlines, a bounded store |
| Draft session (`container_operator.py`, `container_session.py`, `direct_bridge.py`) | a container; one history on each side of a pipe | provider turns, tool calls, cleanup | two loops that must stay in step, deadlines everywhere, processes that outlive their caller |
| Structural orchestrator (`orchestrator.py`) | a run directory | prepare, worker, collect, report | a killed worker whose broker goes on |
| Coverage join (`coverage.py`) | none; reads the store | joins coverage records with the admission | reads the store in several transactions and hashes files one by one while both change |
| SCIP admission and comparison (`scip.py`, `scip_compare.py`, `impact.py`) | the last two admissions | validate an index, resolve subjects, check relationships, compare two snapshots, seed the impact | ownership of a mention by nested ranges; symbols that recur; changes no table shows |
| Candidate closure (`authorized_diff.py`, `structural_completion.py`) | none; records that outlive what they were made for | derive and join a diff, derive a closure | stale records that still authenticate; joins that each compare something else |
| Stubs (`stubs.py`) | generated files | write stubs | stops at the first existing file |
| Encodings, hashes, signatures, invocation profiles, scripts | none | conversions and validation | nothing stateful |

They meet in few places.  The workflow commands share the database and the
files.  `impact.py` compares two admissions of that database.  The orchestrator
starts the broker's `prepare` and the container operator as commands; the
operator starts a broker `request` per submission and talks to the session in
the container; the broker runs the SCIP indexer in a container of its own.  The
qualification store is a library: nothing in the repository calls its functions
in order.

What makes each part correct:

* workflow: a *verified* status always means that the frozen checker passed on
  the bytes now on disk, as described by the active admission, whatever was
  applied, indexed, edited or killed in between;
* coverage join: what it returns was measured on the admitted bytes, which the
  files still had at its end, and is what the objectives froze;
* prover: the verdict is the truth, its certificates pass, and nothing false
  passes;
* closure: everything that follows from a change and nothing else;
* qualification store: each run is admitted, started and committed at most
  once, and no answer is ever contradicted;
* SCIP admission: every mention of a subject belongs to exactly one subject, in a
  world with no undeclared edge; a comparison misses no change;
* candidate closure: no body is admitted that its contract does not authorise, and
  nothing closes that is not about the present candidate and suite;
* broker and session: the store is bounded, a draft that is reported exists and
  was admissible, at most one is made per run, and everything ends.

## 2. Modules

| module | models | extends |
|---|---|---|
| `EvidenceWorkflow` | the four workflow commands on one store | |
| `ProjectCheck` | `mkso check`, reading in many transactions | `EvidenceWorkflow`, also instantiated with a mixed view |
| `CoverageJoin` | `join_coverage_results` | instantiates `EvidenceWorkflow` |
| `ScipAdmission` | index validation, subjects, relationships, admission | |
| `ScipComparison` | comparison of two admissions and the impact's seeds | `ScipAdmission`, instantiates `ImpactClosure` |
| `AuthorizedDiff` | derivation of diffs, their rederivation and three joins | |
| `StructuralCompletion` | `derive_structural_closure` | |
| `CandidateClosure` | both over the life of a candidate | `AuthorizedDiff`, `StructuralCompletion` |
| `RankCertificate` | `prove` step by step; `check_certificate` as an operator | |
| `ImpactClosure` | graph validation, seeding, the four loops | |
| `QualificationLedger` | abstract specification: six facts per run, each once, in order | |
| `QualificationStore` | the SQL functions and the client's validation of what it reads | instantiates the ledger |
| `DraftBroker` | `prepare` and any number of `request` processes | |
| `StructuralRun` | orchestrator, operator, session, container, composed with the broker | `DraftBroker` |
| `DirectBridge` | `direct_bridge.py` with its broker processes and its report | `DraftBroker` |
| `MC*` | small instances for TLC | the module they name |
| `EvidenceWorkflowProofs` | theorems of `EvidenceWorkflow` and `ProjectCheck` | `ProjectCheck` |
| `AcceptanceProofs` | theorems of `RankCertificate` and `CandidateClosure` | both |
| `ImpactProofs` | theorems of `ImpactClosure`, `ScipAdmission` and `ScipComparison` | `ImpactClosure`, `ScipComparison` |
| `StructuralRunProofs`, `DirectBridgeProofs` | theorems of each | the module they name and `DraftBrokerProofs` |
| other `*Proofs` | theorems | the module they name |

Conventions.  A hash is modelled by the value it is taken of, so two hashes are
equal exactly when the hashed values are; where the code leaves a field out of a
hash (a signature, the indexed source hash of a binding) the model leaves it out
of the value.  A step of a model is what no other process can interrupt: a
database transaction, one system call, one frame.  Definitions marked `fault:`
are used by no specification; each is a plausible slip in the definition that
follows it, and stands in `PROJECT.json` with the property that catches it.

### EvidenceWorkflow

`content` is the project's files.  `plan`, `project`, `rows`, `active` and
`evidence` are the database: the active plan, the stored project identity, the
planned bindings, the active admission, and the evidence rows in order.
`applier`, `indexer` and `runner` hold the local state of running commands.

* `ReplacePlan`, `StoreIdentity`: the two transactions of `apply_manifest`.
* `StartIndexer`, `RunIndexer`, `VerifyIndex`, `CommitAdmission`: hash the
  inputs; the indexer reads the sources; hash again and check the contract and
  definitions; `admit_scip_index` in one transaction that resets every binding
  and resolves it again, or rolls back.
* `AcceptInvocation`, `TakeDigest`, `RunChecker`, `RecordEvidence`: policy
  lookup, subject digest, checker process, artifact hash and insertion.
* `Edit`, `CrashApplier`, `AbandonIndexer`, `AbandonRunner`: anybody changes a
  file; a command dies or raises between two steps.

`mkso check` changes nothing, so its answer is a state function
(`ObligationStatus`, `ItemVerified`, `ProjectVerified`) of one instant;
`ProjectCheck` has the command that reads in several transactions.  `raced` is a
ghost that marks an evidence run whose subject changed under it; no guard reads it.
`VerifiedIsEarned` says exactly what a race may spoil, and the findings show that it
does spoil it.

### ProjectCheck

`check` is the evaluator: `ReadItems` and `ReadObligations` are the two reads of
its constructor, which may see two plans; then, for one obligation after another,
`ReadBindings`, `ReadSubject` and `ReadEvidence`, and `Finish`, which aggregates
the kept verdicts from the leaves up.  What the evaluator sees is `View`: the
module itself instantiated with manifests whose items come from one plan and whose
obligations from another.  An item's own obligations come before those below it;
otherwise the order is left open.  The project starts out verified, since a check
of anything else seldom has anything to lose.  `history` is a ghost that remembers
what was true at each reading and what changed between them.

### CoverageJoin

The store, the files, the editor and the indexer are those of `EvidenceWorkflow`
(`Store`), instantiated without plans, appliers and runners.  `join` is the
reader: `ReadActive` (the first `metadata` call), `BeginCheck` and `HashFile`
(`scip_freshness_reasons`: it looks the active admission up again, then hashes the
contract and each input), `JoinRecords` (the snapshot, whose rows never change,
and everything that is compared in memory), `Confirm` (the admission once more),
the check again, and `Return`.  Errors lead to `refused`, which remembers nothing.
`Joinable` is the comparison of objectives, suite, assignment, run and snapshot;
the caller's records are chosen when they are compared, because nothing before
depends on them.  `history` is a ghost: no guard reads it.

`Confirm` and the check that follows are two reads of the active admission.  If
another admission comes in between, the check hashes the files of that one, and a
join is returned whose own files need not be current.  `switched` marks this, and
the two properties about files hold in every other case.

### RankCertificate

`Rank` and `Skip` are one visit of the sweep, `SweepAgain` its repetition,
`Refute`, `Follow` and `Disprove` the counterexample walk.  Because states are
numbered in name order and ranked in place, the model shows that verdicts do not
depend on names.  `Receive` brings a certificate from a file, possibly about
another model.  The claim the certificates are compared with, `Inevitable`, is
stated without ranks or paths: no set of states outside the targets in which
every state is stuck or has a successor in the set contains a source.

### ImpactClosure

One action per loop body that changes something, in the loops' own order;
the dependents loop keeps the code's test for a work item that is not yet
affected, and the parents loop the code's snapshot.  `Closure` is the reference:
the least fixpoint of the rules of the contract graph.

### ScipAdmission and ScipComparison

An index is a decoded message: documents with symbol information and occurrences,
positions numbered in source order.  Validation collects errors and refuses at the
end, so each validator is a conjunction.  `Minimal` is the code's rule for the
innermost definition around a mention: no other candidate's range inside it.
`admissions` holds the admission before and the one after; `Compute` compares them
(`Changed` for rows unique under a key, `HowOften` for occurrences, which are
compared as sorted lists) and gives the difference to `ImpactClosure`'s own
`Mapped` and `Seeds`.

### AuthorizedDiff, StructuralCompletion and CandidateClosure

The two decision modules are operators with no state.  `CandidateClosure` gives
them one: contract, candidate manifest, evaluation, suite, the generations indexed,
the generations admitted as authority, and records.  Generations, suites (`suites`,
by hash; `suite` is the last one) and records stay when what they were made for is
replaced, and may go on authenticating (`AuthenticatedNow`); `Circumstances` lets a
suite, the records of a kind or an adapter fail instead.  The repository has no caller yet; the actions around
`Accept` and `Close` only produce values whose fields the decisions compare.
`Accept` presents any diff ever derived, also altered (bindings dropped or
exchanged, sealed again or not), with any manifest and evaluation.  `Close`
presents any generations, suite and records with the last requirement.  `decision` holds
what was decided in the state at hand, and every other action clears it, so the
properties speak of the state the decision was taken in.  The code names the
`current_authenticated_generated_suite` among its requirements, but it compares only
generations with the current ones; of the suite it asks that it authenticates.  So
`ClosureIsCurrent` does not say that the suite is the last one generated: one that was
replaced by another with the same files closes as long as it authenticates.

### QualificationStore

The SQL functions run in serializable transactions, so a call is one step, or
no step when it aborts.  Since no driver exists, the model is the most general
client: any process makes any call at any time.  `Told` lets an answer arrive or
be lost after its commit; `granted` counts the calls that took effect, stopping
at two.  `Ledger` maps the five tables to the six facts of the ledger.

### DraftBroker and StructuralRun

`files` are the entries `prepare` has completed, in the order of `Layout`;
`proc`, `lock` and `draft` are the request processes, the flock and the draft
directories.  A request goes `loading, loaded, waiting, locked, checked, writing,
indexing, indexed, admitted, recording, answering, done`, one stage per call
that can fail, and may be killed (`Kill`) at each; the kernel then drops its lock
and its files stay.  `draft.json` is created and filled in two steps.  A body is
known by two facts: whether it is well formed, and whether the index of the
result has the scaffold's definitions and no new reference.

`StructuralRun` adds the orchestrator's phases (`run`), the operator's serve
loop (`operator`), the container with its session (`container`) and one frame in
flight in each direction.  Operator and session each keep a history and count
turns; `mismatch` is a ghost set where `serve` finds a frame it did not expect.
`BrokerDeadline` refuses even an answer that is there and kills the broker;
`CommandDeadline` kills the operator and leaves its broker running, as
`subprocess.run` does.  `CleanUp` may fail and then replaces the result.

`DirectBridge` composes the broker with `direct_bridge.py`, which does without a
container: `Recheck` compares the identity of the installed code before each step,
`Dispatch` starts a broker process, `BrokerFails` and `ProviderDeadline` give up,
`Rewrite` replaces the report in place and may be cut off.  Others (`Strangers`)
use the same state directory; `Edit` changes the installed code.

## 3. Runs

| run | distinct states | shows |
|---|---|---|
| `workflow_flat` | 608,508 | two overlapping evidence runs, plan replacement, admission, edits: `BindingsFollowAdmission`, `VerifiedIsEarned`, `LastRunDecides`, `ReplacedPlanIsUnverified` |
| `project_check` | 79,348 | a check obligation by obligation of a verified project, an epic over a task, under plans, indexes, edits and evidence: `HeldThroughoutIsReported`, `ReportedWasVerified`, and of the workflow `GateCoversEveryObligation`: each obligation below a verified project has earned that, a composition from everything below it |
| `unchecked_bytes` | violation | finding 1 |
| `coverage_join` | 236,696 | a join on every channel while the store is indexed anew and files are edited: `JoinedFilesHeldAtTheEnd`, `CheckedTwiceIsOneSnapshot`, `JoinIsExact` |
| `rank_certificate` | 665,248 | every relation on three states and every small certificate: `ProverDecides`, `ProducedIsAccepted`, `AcceptedIsTrue`, `NoInternalError`, `Terminates` |
| `impact_closure` | 70,959 | every dependency relation over three work items: `OnlyImplied`, `SubjectsAreFollowedUp`, `ExactWithoutDependencies`, `Terminates` |
| `impact_exact` | violation | finding 2 |
| `scip_comparison` | 42,196 | which of 107 indexes are admitted under four contracts, and every pair of admissions compared: `ClosedWorld`, `SubjectsAreUnambiguous`, `NoChangeIsUnseen` |
| `candidate_closure` | 245,983 | stale diffs, requirements, generations and records presented again after anything was replaced: `EveryChangeIsAuthorised`, `ClosureIsCurrent`, `TruthIsClosed` |
| `qualification_store` | 15,189 | any calls, lost answers, replays: `TablesAgree`, `CallsSucceedOnce`, `AnswersStayTrue`, and `ImplementsLedger` |
| `direct_bridge` | 422,966 | a bridge of two turns beside a stranger on a directory still being prepared, with every kill, deadline and one edit: `ReportIsTrue`, `OneDraftAtMost`, `IdentifiedCodeAdmits`, `BridgeEnds`, and of the broker `StoreWithinLimit`, `RetainedIsAdmitted`, `RequestsEnd` |
| `structural_run` | 126,820 | a session of three turns with every deadline and kill: `MirrorsAgree`, `AtMostOneRecord`, `DoneIsRetained`, `RunEnds` |

Bounds, and why they are enough.

* *Workflow.*  `MaxEvents = 5` bounds commands started plus edits; the other
  steps are not bounded.  Every race in the code takes one command of one kind
  and one or two of others; the counterexample needs at most five events.
  Flat has three plans: the second froze another command, and the third binds a
  second file that is no subject, so that an admission resolves one binding, fails
  at the other and has to roll back.  It has one source with two contents and two
  runners (symmetric).  Deep has a parent item, an artifact that
  may be absent and an input with two contents.  The proofs have no bound.
* *ProjectCheck.*  Two plans, Deep's and one without the epic, so that items and
  obligations can come from different plans; `MaxEvents = 2` commands or edits
  besides the check, enough for a change and its undoing between two readings.
  They are not enough for everything: `HeldThroughoutIsReported` once did without its
  exception for a replaced plan, held here, and could not be proved.  With
  `MaxEvents = 3` TLC then found the reason.  A plan applied under the check leaves
  the items of one plan to be judged with the obligations of another, so that an
  item may lack obligations although both plans were verified at every reading.
  As it now stands the property is proved, and held in a run with `MaxEvents = 3`
  (1,519,024 states) that is too long to keep.
* *CoverageJoin.*  `MaxEvents = 5` edits and index commands let an admission be
  replaced and restored during one join.  The contract and one source change; the
  contract may move a subject to the other source.  Six suites and every
  assignment of each cover all five channels; a report may be about either state
  of the sources and claim to have measured the other.
* *RankCertificate.*  Three states hold every shape the algorithm tells apart:
  a target, a state that reaches it, one that does not, cycles and dead ends.
  All ranks up to 2 and paths up to length 3 are enumerated as certificates.
* *ImpactClosure.*  Three work items are the least number on which the skip in
  the dependents loop and the snapshot in the parents loop matter.
* *ScipComparison.*  A class around a method and a function in another file are
  the least case of nested owners; the method lies inside, overlaps, coincides with
  or follows the class.  Two admissions, because a comparison has two sides.
* *CandidateClosure.*  `MaxEvaluations = 2` and `MaxMade = 3`: one resubmission
  and three things made after the first round, which are the least (an index, a run,
  a measurement) that close the second candidate.  Arrays are sets, because unsorted
  or repeated elements are refused; only managed bindings keep their order, which
  is their records'.  One contract has two adapters for one subject: requirements
  come in the order of the adapters, and `TruthIsClosed` speaks of the records that
  were made in that order or, for one adapter, in the order of what they project.
  Others are refused although they are complete.
* *QualificationStore.*  Two keys show that runs do not interfere; two profiles
  and two results with the same hash are what replays must tell apart.
* *DirectBridge.*  `Turns = 2`: a turn that is revised and the last one.  Four
  broker processes, one of them a stranger's, and `Limit = 2`: they compete for the
  last place.  Three bodies: malformed, well formed but naming something new,
  fitting.  `Edits = 1`, allowed only where the installation is about to be read,
  because an edit elsewhere is like one right before that.
* *StructuralRun.*  `Turns = 3`: a first, a middle and a last turn; one body that
  is rejected and one that is admitted, so that a session can retry.

Deadlock is not checked anywhere: every model has states in which all commands
have ended.  Where ending is the point, a liveness property says so.  
Fairness.  `RankCertificate` and `ImpactClosure` are single sequential commands,
so `WF_vars(Next)` only says that the process keeps running.  `DirectBridge` has
weak fairness per broker process for what the process does by itself, its deadlines
included; reading the client's input, the end of the indexer's container and kills
have none, so `RequestsEnd` rests on the deadlines alone.  Getting the lock needs no
strong fairness: `Enter` or `Busy` is always enabled.  It also has weak fairness for
the bridge, whose waits all have deadlines; none for the provider's answer, kills
and edits.  `StructuralRun` has weak fairness for the orchestrator, `prepare` (all
of whose external work has deadlines) and the operator; none for the provider, the
session, the broker's requests and the orchestrator's own 1800 second deadline, so
`RunEnds` shows that this last deadline is never needed.  The workflow and the store
promise no progress and have no fairness.

## 4. Findings

1. Evidence is described as bound to the exact code, but the digest is taken only
   before the checker runs (`VerifiedCodeWasChecked`).
2. `compute_scip_impact` promises the exact closure; the dependents loop passes
   over work items that another loop has already made affected (`ExactClosure`).
   `OnlyImplied`, `SubjectsAreFollowedUp` and `ExactWithoutDependencies` say what
   does hold.

## 5. Proofs

TLAPS proves every safety property of every passing run, and the implementation of
every abstract specification, for all values of the constants that satisfy the
assumptions named in each module.  TLC evaluates those assumptions, and the
inductive invariants of this section were checked by TLC on the component's run
before they were proved.

**EvidenceWorkflowProofs.**  `ManifestAssumption`, `FilesAssumption` and
`NoneAssumption` say what `validate_manifest` and the contract loader let through.
The inductive invariant `WorkflowInv` has three parts: `BindingInv` (typing of the
database and of indexers, and `BindingsFollowAdmission`: an indexer's `verified`
admission must already be well formed, or committing it would break the rows),
`RunsInv` (each running or recorded evidence run that is not raced has the digest's
contents as what its checker saw, and the command of the digested record) and
`CountersOK`.  From it follow `WorkflowIsTyped`, `BindingsAlwaysFollowAdmission`,
`VerifiedIsAlwaysEarned` (what an obligation speaks of is within its digest,
`ConcernedIsSubject`), `LastRunAlwaysDecides`, `GateAlwaysCovers` (by walking the
item forest upwards) and, as an action property, `ReplacedPlanIsAlwaysUnverified`.

The check is a second process over the same store; `PairsAssumption` only says that
a pair of plans is not the value for none.  As long as no plan has been replaced
under it, `CheckInv` says what its constructor read (`ReadOK`), that what the
obligation at hand is judged by is still so unless it was torn (`JudgingOK`), that a
kept verdict was true when its evidence was read, again unless it was torn
(`VerdictsOK`), and the same of the result (`ResultOK`).  A check read from one plan
sees the store's own view (`SameView`), and every item lies under a root
(`UnderARoot`, from the assumption that parents form a forest), so that a project is
reported exactly when all its obligations were.  `HeldIsAlwaysReported`,
`ReportedWasAlwaysVerified`, `CheckInvariant`.

**CoverageJoinProofs.**  `StoreInv` types the store and the indexers; `JoinInv` says
which admission each check is about; `OpeningInv` that a file the first check has
read is as admitted or has strayed; `ClosingInv` that what is as admitted now has
been so since the records were joined, and that a file which was not as admitted
then has strayed and stayed away.  So the closing check can only succeed on one
snapshot: `JoinedFilesAlwaysHeld`, `TwoChecksAreOneSnapshot`, `JoinIsTyped`.
`JoinIsAlwaysExact` needs no interleaving: it compares `Joinable` with a statement
about entries, by the cases of the channel.

**AcceptanceProofs**, what it means that the program accepts something.  Of the
prover: `CheckerIsSound` needs no execution, since ranks that decrease along every
edge leave no avoiding set, by a least rank in it.  `ProverIsCorrect`,
`CertificatesAreAccepted` and `AssertionsHold` rest on the invariant that ranked
states reach targets by strictly smaller ranks and that, at the walk, every
unranked state has an unranked successor or none.

Of a candidate: `ContractsAssumption` says that a contract's id is its hash, lists
each path, subject and suite file once, and names known adapters.  `ClosureInv`
says that each hash is one of its kind (`Made`), that admitted generations exist,
that records of a kind are numbered without repetition and coverage carries the
index of its generation, that every candidate ever derived was built of edits under
some contract, and that a requirement was drawn up of one of those.
`ChangesAreAlwaysAuthorised`: a diff that joins can only be the one rederived from
the manifest's own submission under the admitted contract (`PresentedDiff`), because
a contract is known by its id; then unique ids and paths carry each body from the
operation to the slot to the entry and back.  `ClosuresAreAlwaysCurrent`: a
requirement in the present scope is of the present candidate (`RequirementOfNow`,
since a manifest is known by its hash), so whatever matches it is present too; its
suite was generated (`DrawnUp`, `SuiteInv`), and since hashes of different kinds differ
(`HashesDiffer`, `FailingWereMade`), what no longer authenticates is what
`Circumstances` says and nothing else.  `NothingTrueIsRefused` shows each of the nine reasons absent; the
order of managed bindings agrees because the records were made in the order of what
they project, and as many records as artifacts leave one for each.

**QualificationStoreProofs.**  `StoreInv` has four parts: the tables' domains; per
run, that the stage fixes the length of the audit trail, that its events are the
first of the six, and that retained rows repeat the commitments; that a call has
taken effect once exactly when its event is there; and that whatever a caller was
told is in the tables.  From it `TablesAlwaysAgree`, `CallsTakeEffectOnce`,
`AnswersAreAlwaysTrue`, `AuditIsAppendOnly` and `StoreImplementsLedger` (initial
states map to initial states; each step establishes one fact or stutters).

**DraftBrokerProofs.**  `BrokerInv` says per stage what the request's directory
holds and what the request knows of its body (`RequestOK`), that stages inside the
lock hold it, that a loaded state is complete, and that at `checked` there is still
a place free.  The lemma `OneMoved` shows that a step of one request leaves the
others where they are, and keeps the count: `LimitAlwaysHolds`,
`AdmittedIsAlwaysRetained`, `RejectedIsNeverRetained`, `BrokerIsTyped`, for any
number of requests and any limit.

**StructuralRunProofs.**  `PipeAssumption`: a frame is none of the values that say
there is none.  `RunInv` stands on `BrokerInv` and relates operator and session frame
by frame (`Exchange`: at each line of the operator's loop, what is in the pipes, where
the session stands, and that it is in step or ahead by exactly the frame in flight),
and operator and broker turn by turn (`RequestsOK`: requests of later turns are
unused, those of earlier ones have ended without a record, and an admitted result is
that of this turn's request).  From it `MirrorsAlwaysAgree`,
`AtMostOneRecordEver`, `DoneIsAlwaysRetained`, `RunIsTyped` for any number of turns
and any bodies; and `RunImplementsBroker`: seen from the state directory, every step
of orchestrator, operator, container and deadlines is a step of the broker or a
stutter, so that what is proved of the broker holds of every run.

**DirectBridgeProofs.**  `BridgeInv` stands on `BrokerInv` too and says where the
run's own broker processes are at each phase and that only a killed bridge leaves one
running (`OwnOK`), what state and report may claim and what is then there
(`VerdictOK`), and from which installations processes were started (`CodeOK`).
`ReportIsAlwaysTrue`,
`OneDraftEver` and `IdentifiedCodeAlwaysAdmits`, with any strangers on the directory
and any number of edits, and `BridgeImplementsBroker`.

**ImpactProofs.**  `Closure` repeats the rules `Size` times, and what it computes is
found by least counterexamples (`WFMin` on the numbers) instead of an induction
scheme: while a repetition changes something its sets grow (`CountGrows`), so after
`Size` of them it is a fixpoint (`ClosureIsFixpoint`), and it stays within every
closed set (`ClosureIsLeast`).  The invariant `IInv` says that what the loops found
is typed, has its owners and lies in every closed set (`Least`), and that a pass that
has changed nothing has looked at everything so far (`Pass`).  From it `FollowedUp`,
`NothingElse`, `ExactThen`, `ImpactTyped`, for any contract graph over finite sets.

Of the comparison, `MessagesAssumption` says that a decoded message is a list of
documents with lists of symbols and of occurrences, whose ranges are pairs of
integers, and `ContractsAreFinite` that a contract lists finitely many subjects.  The
invariant (`ComparisonInvariant`) is that what was admitted satisfied everything
admission asks, so each theorem is about the validators: `WorldIsAlwaysClosed` (of
finitely many candidates whose cardinality the code compares with one, the owner is
the one whose range lies in every other's), `SubjectsAreAlwaysUnambiguous`, and
`NoChangeIsEverUnseen` (rows that did not change give the same owners before and
after, so a changed mention is seeded by its owner).

Only model-checked: the liveness properties (`Terminates`, `RequestsEnd`,
`BridgeEnds`, `RunEnds`), since the prover has no rules for fairness here.

## 6. Not modelled

* Evidence workflow: exports, approval records, the details of SCIP decoding and
  of contract validation, and clocks: evidence is ordered by insertion, while the
  code orders by `created_at` and breaks ties by a random id.  `ProjectCheck` reads
  the bindings, the digest and the evidence of one obligation in a step each, and
  `TakeDigest` and `VerifyIndex` are one step each, where the code reads the store in
  several transactions and hashes file by file: a digest or a manifest mixed of two
  states, when a file is edited behind the reader and another one ahead of it, is not
  modelled there (`CoverageJoin` models such reads one by one).  Stub
  materialisation is one loop of file writes whose results nothing else reads.
* Draft broker: a state directory that somebody changes after preparation, an
  upgrade of `broker.py` between preparation and use, and an indexer container
  that outlives its killed client.  `authority.py` refuses every approval.
* Direct bridge: code that is edited and restored to its earlier bytes between two
  identity checks; the code compares identities and cannot notice either.
* Draft session: the frames' encodings and the checks of configurations and
  provider answers, each of which is one possible failure.
* Coverage join: the parsing of fields, and the fields that are only carried along
  (artifact formats, raw artifacts, the run's own hash, measured fractions).
* SCIP admission: reading the protobuf message, text encodings and size limits, and
  the same relationship declared twice by one subject (a set here, refused in the code).
  In the comparison of two indexes, the order of external symbols, which the code
  counts as a change of the index's bytes.
* Impact closure: the checks of `_contract_graph` that names are resolved and not
  repeated and that both admissions agree with the contract are one possible failure
  (`agrees`), as are the active admission, its freshness and the contract's revision
  (`current`).
* Candidate closure: the parsing of documents, and whoever will call the decisions.
* Encodings, hashes, signatures, qualification documents, invocation profiles,
  the key generator and the indexer patches: pure conversions or one-pass scripts
  without state.

## 7. Plan

Done, in this order: `EvidenceWorkflow` (the core), `RankCertificate`,
`ImpactClosure`, `QualificationLedger` and `QualificationStore`, `DraftBroker`,
`StructuralRun`, `CoverageJoin`, `ScipAdmission` and `ScipComparison`,
`DirectBridge`, `ProjectCheck`, `AuthorizedDiff`, `StructuralCompletion` and
`CandidateClosure`; and the proofs of section 5.

All safety properties the runs check are theorems now.  Next:

1. What `Terminates` needs besides fairness: a measure that every step of the
   prover, and of the impact's loops, decreases, as an action property.
2. `CoverageJoin` and `ProjectCheck` as implementations of `EvidenceWorkflow`, each a
   reader beside it.
