-------------------------- MODULE CandidateClosure --------------------------
(***************************************************************************)
(* The two decisions that admit a candidate, authorized_diff.py's joins    *)
(* and structural_completion.py's closure, over the life of a candidate:   *)
(* the contract is amended, edits are submitted, candidate and suite are   *)
(* indexed again, and runs, coverage, suite validations and managed        *)
(* projections go on being recorded, while requirements, projections and   *)
(* diffs made earlier are still at hand and are presented again.  The      *)
(* repository has the decisions and not yet their callers: what happens    *)
(* around them is taken from the fields they compare.                      *)
(***************************************************************************)
EXTENDS AuthorizedDiff, StructuralCompletion

CONSTANTS
  Contracts,     \* [id, baseline, paths, slots, obligations, subjects,
                 \*  relationships, suite, managed]
  Submissions,   \* sequences of operations [slot, body]
  Adapters,      \* qualification hashes of adapters
  Relations(_),  \* the relationships an index finds in a set of files
  Origin,         \* the first [contract, submission]
  MaxEvaluations,  \* bound: submissions, with the first
  MaxMade          \* bound: generations, suites and records made after the beginning

\* A contract's id is its hash; its paths are listed in order, its subjects
\* and suite files each once, and its adapters are known.
ASSUME ContractsAssumption ==
  /\ Origin.contract \in Contracts
  /\ \A c, d \in Contracts : c.id = d.id => c = d
  /\ \A c \in Contracts :
       /\ \A i \in DOMAIN c.paths : i \in Nat /\ c.paths[i] \in Nat
       /\ \A i, j \in DOMAIN c.paths : i < j => c.paths[i] < c.paths[j]
       /\ \A s, t \in c.subjects : s.subject = t.subject => s = t
       /\ UniquePaths(c.suite)
       /\ IsFiniteSet(c.managed) /\ \A m \in c.managed : m.adapter \in Adapters

VARIABLES
  contract,     \* the admitted contract
  manifest,     \* the manifest of the current candidate
  evaluation,   \* the evaluation it is judged in
  derived,      \* every diff derived, with its manifest and evaluation
  suites,       \* hash -> files, of every suite generated
  suite,        \* the suite generated last
  generations,  \* generation hash -> files indexed
  current,      \* the current generations [candidate, suite]
  authority,    \* the generations admitted for each [candidate, suite]
  records,      \* [run, coverage, validation, managed]: sets of records
  requirement,  \* the last requirement drawn up
  made,         \* how many things were made since the beginning
  decision      \* what was decided in this state, if anything

closureVars == <<contract, manifest, evaluation, derived, suites, suite, generations, current, authority,
          records, requirement, made, decision>>

candidateVars == <<manifest, evaluation, derived>>
suiteVars == <<suites, suite>>
indexVars == <<generations, current, authority>>

NoDecision == [of |-> "nothing"]
Undecided == decision' = NoDecision

-----------------------------------------------------------------------------
\* What candidates, indexes and requirements are made of.

BodyOf(operations, slot) ==
  LET of == {op \in ToSet(operations) : op.slot = slot}
  IN  IF of = {} THEN 0 ELSE (CHOOSE op \in of : TRUE).body

\* Each replaced body is written into its slot and nothing else is; 0 is the
\* baseline's body.
ContentOf(c, operations, path) ==
  {[slot |-> s.id, body |-> BodyOf(operations, s.id)] :
     s \in {x \in ToSet(c.slots) : x.path = path}}

EntriesOf(c, operations) ==
  [i \in DOMAIN c.paths |->
     [path |-> c.paths[i], content |-> ContentOf(c, operations, c.paths[i])]]

DiffFor(c, operations) ==
  DiffOf(c.id, c.baseline, operations, c.slots, operations, EntriesOf(c, operations))

ManifestOf(c, operations) ==
  [hash |-> <<c.id, operations>>, contract |-> c.id, baseline |-> c.baseline,
   submission |-> operations, entries |-> EntriesOf(c, operations),
   diff |-> DiffFor(c, operations).hash]

EvaluationOf(m, n) ==
  [id |-> n, contract |-> m.contract, manifest |-> m.hash, diff |-> m.diff]

FilesOf(m) == ToSet(m.entries)
ContentAt(files, path) == (CHOOSE e \in files : e.path = path).content

SubjectsIn(c, files) ==
  {[subject |-> s.subject, path |-> s.path, source |-> ContentAt(files, s.path)] :
     s \in {x \in c.subjects : \E e \in files : e.path = x.path}}

\* Equal files give equal indexes, whatever their generation.
ProjectionOf(g) ==
  [generation |-> g, index |-> generations[g], files |-> generations[g],
   subjects |-> SubjectsIn(contract, generations[g]),
   relationships |-> Relations(generations[g])]

ScopeNow == [contract |-> contract.id, manifest |-> manifest.hash,
             evaluation |-> evaluation.id, node |-> "node"]

ManagedFor(m, files) ==
  [subject |-> m.subject, adapter |-> m.adapter, raw |-> ContentAt(files, m.path),
   projection |-> <<m.adapter, ContentAt(files, m.path)>>]

ManagedOf(n, m, files) ==
  LET p == ManagedFor(m, files)
  IN  [hash |-> n, subject |-> p.subject, adapter |-> p.adapter, raw |-> p.raw,
       projection |-> p.projection]

Recorded ==
  {r.hash : r \in records.run \cup records.coverage \cup records.validation \cup records.managed}

AuthenticatedNow(now) ==
  [scope |-> ScopeNow,
   candidate |-> current.candidate, suiteGeneration |-> current.suite,
   candidates |-> authority.candidate, suiteGenerations |-> authority.suite,
   suites |-> DOMAIN suites \ now.failing, records |-> Recorded \ now.failing, adapters |-> now.qualified]

\* What a node of the current candidate requires: one run, one coverage
\* result, one validation and each managed artifact.
RequirementOf(run, coverage, validation) ==
  [scope |-> ScopeNow,
   files |-> FilesOf(manifest), subjects |-> SubjectsIn(contract, FilesOf(manifest)),
   relationships |-> contract.relationships,
   suite |-> suite, suiteFiles |-> suites[suite],
   suiteTargets |-> SubjectsIn(contract, suites[suite]),
   suiteRelationships |-> Relations(suites[suite]),
   runs |-> {run.hash}, coverage |-> {Measured(coverage)},
   validations |-> {validation.hash},
   managed |-> {ManagedFor(m, FilesOf(manifest)) : m \in contract.managed}]

Request(candidate, suiteHash, suiteProjection, managed, authenticated) ==
  [requirements |-> requirement,
   candidate |-> candidate,
   suite |-> [hash |-> suiteHash, projection |-> suiteProjection],
   authenticated |-> authenticated,
   runs |-> {r \in records.run : r.hash \in requirement.runs},
   coverage |-> {r \in records.coverage : Measured(r) \in requirement.coverage},
   validations |-> {r \in records.validation : r.hash \in requirement.validations},
   managed |-> managed]

-----------------------------------------------------------------------------
\* Hashes of different things differ; those of one kind are in the order in
\* which they were made.
Kinds == <<"generation", "suite", "run", "coverage", "validation", "managed">>
Hash(kind, n) == n * Len(Kinds) + (CHOOSE k \in DOMAIN Kinds : Kinds[k] = kind)

RunOf(n, g) == [hash |-> n, generation |-> g]

CoverageOf(n, g, subject, files) ==
  [hash |-> n, subject |-> subject.subject, source |-> ContentAt(files, subject.path),
   generation |-> g, index |-> files]

ValidationOf(n, s, g) == [hash |-> n, suite |-> s, generation |-> g]

\* Managed artifacts are projected first by one adapter, then by the next.
Numberings(artifacts) ==
  {number \in [artifacts -> 1 .. Cardinality(artifacts)] :
     \A a, b \in artifacts :
       /\ number[a] = number[b] => a = b
       /\ a.adapter < b.adapter => number[a] < number[b]}

\* At the beginning the first candidate and its suite are indexed and every
\* kind of record has been made once.
ClosureInit ==
 \E number \in Numberings(Origin.contract.managed) :
  LET m == ManifestOf(Origin.contract, Origin.submission)
      subject == CHOOSE s \in Origin.contract.subjects : TRUE
      G(n) == Hash("generation", n)
  IN  /\ contract = Origin.contract
      /\ manifest = m
      /\ evaluation = EvaluationOf(m, 1)
      /\ derived = {[value |-> DiffFor(Origin.contract, Origin.submission),
                     manifest |-> m, evaluation |-> EvaluationOf(m, 1)]}
      /\ suite = Hash("suite", 1)
      /\ suites = [s \in {suite} |-> Origin.contract.suite]
      /\ generations = [g \in {G(1), G(2)} |-> IF g = G(1) THEN FilesOf(m) ELSE Origin.contract.suite]
      /\ current = [candidate |-> G(1), suite |-> G(2)]
      /\ authority = [candidate |-> {G(1)}, suite |-> {G(2)}]
      /\ records = [run |-> {RunOf(Hash("run", 1), G(1))},
                    coverage |-> {CoverageOf(Hash("coverage", 1), G(1), subject, FilesOf(m))},
                    validation |-> {ValidationOf(Hash("validation", 1), Hash("suite", 1), G(2))},
                    managed |-> {ManagedOf(Hash("managed", number[a]), a, FilesOf(m)) :
                                   a \in Origin.contract.managed}]
      /\ requirement = [scope |-> <<>>]
      /\ made = 0
      /\ decision = NoDecision

Make == made < MaxMade /\ made' = made + 1

\* The contract is amended; the candidate stays until edits are submitted.
Amend(c) ==
  /\ c # contract
  /\ contract' = c
  /\ Undecided
  /\ UNCHANGED <<candidateVars, suiteVars, indexVars, records, requirement, made>>

\* Edits are submitted: a candidate is built, its diff derived, and an
\* evaluation opened.
Submit(operations) ==
  /\ Derivable(contract.slots, operations, EntriesOf(contract, operations))
  /\ evaluation.id < MaxEvaluations
  /\ LET m == ManifestOf(contract, operations)
         e == EvaluationOf(m, evaluation.id + 1)
     IN  /\ manifest' = m
         /\ evaluation' = e
         /\ derived' = derived \cup
              {[value |-> DiffFor(contract, operations), manifest |-> m,
                evaluation |-> e]}
  /\ Undecided
  /\ UNCHANGED <<contract, suiteVars, indexVars, records, requirement, made>>

\* Files are indexed and the generation admitted as the current one of its
\* kind; an index made before, of either kind, may be admitted instead.
AdmitGeneration(kind, files) ==
  \E n \in 1 .. Cardinality(DOMAIN generations) + 1 :
   LET g == Hash("generation", n) IN
    /\ g # current[kind]
    /\ IF g \in DOMAIN generations
       THEN generations[g] = files /\ UNCHANGED <<made, generations>>
       ELSE Make /\ generations' = [h \in DOMAIN generations \cup {g} |->
                                     IF h = g THEN files ELSE generations[h]]
    /\ current' = [current EXCEPT ![kind] = g]
    /\ authority' = [authority EXCEPT ![kind] = @ \cup {g}]
    /\ Undecided
    /\ UNCHANGED <<contract, candidateVars, suiteVars, records, requirement>>

IndexCandidate == AdmitGeneration("candidate", FilesOf(manifest))
IndexSuite == AdmitGeneration("suite", suites[suite])

\* A suite is generated for the contract, beside those there are.
GenerateSuite ==
  /\ Make
  /\ LET new == Hash("suite", Cardinality(DOMAIN suites) + 1)
     IN  /\ suite' = new
         /\ suites' = [s \in DOMAIN suites \cup {new} |->
                         IF s = new THEN contract.suite ELSE suites[s]]
  /\ Undecided
  /\ UNCHANGED <<contract, candidateVars, indexVars, records, requirement>>

New(kind) == Hash(kind, Cardinality(records[kind]) + 1)

Add(kind, record) ==
  /\ Make
  /\ records' = [records EXCEPT ![kind] = @ \cup {record}]
  /\ Undecided
  /\ UNCHANGED <<contract, candidateVars, suiteVars, indexVars, requirement>>

\* A run or a measurement may end after the generation it began with was
\* replaced, a validation after its suite was.
Run == \E g \in authority.candidate : Add("run", RunOf(New("run"), g))

Cover ==
  \E g \in authority.candidate, s \in contract.subjects :
    /\ \E e \in generations[g] : e.path = s.path
    /\ Add("coverage", CoverageOf(New("coverage"), g, s, generations[g]))

Validate ==
  \E s \in DOMAIN suites, g \in authority.suite :
    Add("validation", ValidationOf(New("validation"), s, g))

Project ==
  \E m \in contract.managed :
    /\ \E e \in FilesOf(manifest) : e.path = m.path
    /\ Add("managed", ManagedOf(New("managed"), m, FilesOf(manifest)))

\* The requirement names a run, a coverage result and a validation among
\* those recorded.
Require ==
  /\ \A m \in contract.managed : \E e \in FilesOf(manifest) : e.path = m.path
  /\ \E r \in records.run, c \in records.coverage, v \in records.validation :
       requirement' = RequirementOf(r, c, v)
  /\ Undecided
  /\ UNCHANGED <<contract, candidateVars, suiteVars, indexVars, records, made>>

-----------------------------------------------------------------------------
\* The decisions.

\* A stored diff may have been altered: bindings dropped or those of another,
\* the hash kept or made to fit.
Altered(value) ==
  LET others == {d.value.bindings : d \in derived} \cup {value.bindings \ {b} : b \in value.bindings}
      kept == {[value EXCEPT !.bindings = B] : B \in others}
  IN  kept \cup {Sealed([contract |-> v.contract, baseline |-> v.baseline,
                         submission |-> v.submission, entries |-> v.entries,
                         bindings |-> v.bindings]) : v \in kept}

\* Any diff, or what became of it, is presented with any manifest and
\* evaluation, and rederived from any submission.
Presented(value, of, m, e) ==
  /\ EvaluationJoin(value, m, e)
  /\ ContractJoin(value, contract)
  /\ Rederived(value, contract.id, contract.baseline, of.submission, contract.slots,
               of.submission, m.entries)

Accept ==
  \E d \in derived : \E value \in Altered(d.value) \cup {d.value}, of, m, e \in derived :
    /\ Presented(value, of.manifest, m.manifest, e.evaluation)
    /\ decision' = [of |-> "diff", value |-> value, manifest |-> m.manifest]
    /\ UNCHANGED <<contract, candidateVars, suiteVars, indexVars, records, requirement, made>>

\* Of what authenticates, one thing may have changed: the records of a kind
\* or a suite have ceased to, or an adapter is no longer qualified.
Circumstances ==
  {[failing |-> {}, qualified |-> Adapters]}
    \cup {[failing |-> {b.hash : b \in records[kind]}, qualified |-> Adapters] :
            kind \in DOMAIN records}
    \cup {[failing |-> {s}, qualified |-> Adapters] : s \in DOMAIN suites}
    \cup {[failing |-> {}, qualified |-> Adapters \ {a}] : a \in Adapters}

\* Whatever generations and suites are at hand are presented, and whatever
\* records project what is required.  Closes refuses every request
\* in another scope: the first guard only saves making them up.
Close ==
  /\ requirement.scope = ScopeNow
  /\ \E candidate, suiteProjection \in {ProjectionOf(g) : g \in DOMAIN generations},
        s \in DOMAIN suites, now \in Circumstances,
        managed \in SUBSET {b \in records.managed : Projected(b) \in requirement.managed} :
       LET request == Request(candidate, s, suiteProjection, managed, AuthenticatedNow(now))
       IN  /\ Closes(request)
           /\ decision' = [of |-> "closure", closure |-> ClosureOf(request), now |-> now]
  /\ UNCHANGED <<contract, candidateVars, suiteVars, indexVars, records, requirement, made>>

ClosureNext ==
  \/ \E c \in Contracts : Amend(c)
  \/ \E operations \in Submissions : Submit(operations)
  \/ IndexCandidate
  \/ IndexSuite
  \/ GenerateSuite
  \/ Run
  \/ Cover
  \/ Validate
  \/ Project
  \/ Require
  \/ Accept
  \/ Close

ClosureSpec == ClosureInit /\ [][ClosureNext]_closureVars

-----------------------------------------------------------------------------
\* A binding's slot is the admitted contract's, serves an obligation that
\* may change code, and got exactly what the manifest says.
Authorises(b, m) ==
  \E s \in ToSet(contract.slots), o \in ToSet(contract.obligations), e \in FilesOf(m) :
    /\ s.id = b.slot /\ o.id = s.obligation /\ e.path = s.path
    /\ o.role # "composition" /\ o.task = s.task /\ s.subject \in o.subjects
    /\ [slot |-> s.id, body |-> b.body] \in e.content
    /\ b.result = e.content

\* A diff is accepted only if every body of the candidate that is not the
\* baseline's is authorised by one of its bindings, and every binding is
\* honoured by the candidate (validate_authorized_diff, the three joins).
EveryChangeIsAuthorised ==
  decision.of = "diff" =>
    LET bindings == decision.value.bindings m == decision.manifest
    IN  /\ \A b \in bindings : Authorises(b, m)
        /\ \A e \in FilesOf(m) : \A x \in e.content :
             x.body # 0 => \E b \in bindings : b.slot = x.slot /\ b.body = x.body

Named(kind, hashes) == {r \in records[kind] : r.hash \in hashes}

\* The closure c speaks of what is there now.
IsCurrent(c, now) ==
  LET files == FilesOf(manifest)
  IN  /\ c.scope = ScopeNow
      /\ c.generation = current.candidate /\ generations[c.generation] = files
      /\ Relations(files) = contract.relationships
      /\ c.suite \in DOMAIN suites
      /\ c.suiteGeneration = current.suite /\ generations[c.suiteGeneration] = suites[c.suite]
      /\ \A r \in Named("run", c.runs) : generations[r.generation] = files
      /\ \A r \in Named("coverage", c.coverage) :
           /\ generations[r.generation] = files
           /\ \E s \in contract.subjects :
                s.subject = r.subject /\ ContentAt(files, s.path) = r.source
      /\ \A r \in Named("validation", c.validations) :
           r.suite = c.suite /\ generations[r.generation] = suites[c.suite]
      /\ \A m \in contract.managed :
           /\ m.adapter \in now.qualified
           /\ \E r \in Named("managed", c.managed) :
                r.adapter = m.adapter /\ r.raw = ContentAt(files, m.path)
      /\ c.chain \cap now.failing = {}

\* A closure speaks of what is there when it is derived: the files of the
\* candidate, runs and coverage made on those files, a suite that was
\* generated and whose files are the ones indexed now, validations of that
\* very suite on them, projections of the artifacts' present bytes by
\* qualified adapters, and nothing that no longer authenticates
\* (derive_structural_closure).  That suite need not be the last one.
ClosureIsCurrent == decision.of = "closure" => IsCurrent(decision.closure, decision.now)

\* Nothing true is refused: a requirement drawn up now, of a candidate and a
\* suite that are indexed apart and records made on them and on subjects the
\* contract still has, closes, if each subject's managed records were made in
\* the order of what they project (derive_structural_closure).
MadeNow(r, c, v, managed) ==
  /\ r.generation = current.candidate
  /\ c.generation = current.candidate
  /\ \E s \in SubjectsIn(contract, FilesOf(manifest)) : s.subject = c.subject /\ s.source = c.source
  /\ v.suite = suite /\ v.generation = current.suite
  /\ {Projected(b) : b \in managed} = {ManagedFor(m, FilesOf(manifest)) : m \in contract.managed}
  /\ Cardinality(managed) = Cardinality(requirement.managed)
  /\ \A b, d \in managed :
       b.subject = d.subject /\ b.hash < d.hash =>
         b.adapter < d.adapter \/ (b.adapter = d.adapter /\ Lower(Projected(b), Projected(d)))

TruthIsClosed ==
  /\ generations[current.candidate] = FilesOf(manifest)
  /\ generations[current.suite] = suites[suite]
  /\ authority.candidate \cap authority.suite = {}
  /\ Relations(FilesOf(manifest)) = contract.relationships
  /\ requirement.scope = ScopeNow
  => \A r \in records.run, c \in records.coverage, v \in records.validation,
        managed \in SUBSET records.managed :
       MadeNow(r, c, v, managed) /\ requirement = RequirementOf(r, c, v)
         => Closes(Request(ProjectionOf(current.candidate), suite, ProjectionOf(current.suite),
                          managed, AuthenticatedNow([failing |-> {}, qualified |-> Adapters])))
=============================================================================
