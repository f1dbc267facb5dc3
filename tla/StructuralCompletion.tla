------------------------ MODULE StructuralCompletion ------------------------
(***************************************************************************)
(* derive_structural_closure: a request closes when its projections and    *)
(* records are exactly the required ones and all of the current candidate  *)
(* and suite.  An array that is not sorted or repeats an element is        *)
(* refused, so the arrays are the sets of their elements; only the managed *)
(* bindings, whose order is not that of what they are compared with, need  *)
(* theirs.  Record hashes are numbers, ordered as their bytes are.         *)
(***************************************************************************)
EXTENDS Naturals, FiniteSets

CONSTANT Lower(_, _)  \* of two projections, whose hashes of bytes come first

UniquePaths(files) == \A x, y \in files : x.path = y.path => x = y
UniqueSubjects(bindings) == \A x, y \in bindings : x.subject = y.subject => x = y

\* _check_unique_attribute
Unambiguous(request) ==
  LET r == request.requirements
  IN  /\ UniquePaths(r.files) /\ UniqueSubjects(r.subjects)
      /\ UniquePaths(r.suiteFiles) /\ UniqueSubjects(r.suiteTargets)

InScope(request) == request.requirements.scope = request.authenticated.scope

AuthoritiesAreApart(request) ==
  LET a == request.authenticated
  IN  /\ a.candidates \cap a.suiteGenerations = {}
      /\ a.candidate # a.suiteGeneration

CandidateMatches(request) ==
  LET p == request.candidate r == request.requirements a == request.authenticated
  IN  /\ p.generation = a.candidate
      /\ p.generation \in a.candidates
      /\ p.files = r.files
      /\ p.subjects = r.subjects
      /\ p.relationships = r.relationships

SuiteMatches(request) ==
  LET p == request.suite.projection r == request.requirements a == request.authenticated
  IN  /\ request.suite.hash = r.suite
      /\ request.suite.hash \in a.suites
      /\ p.generation = a.suiteGeneration
      /\ p.generation \in a.suiteGenerations
      /\ p.files = r.suiteFiles
      /\ p.subjects = r.suiteTargets
      /\ p.relationships = r.suiteRelationships

RunsMatchByName(request) ==  \* fault: the generation a run was made for is not compared
  /\ {b.hash : b \in request.runs} = request.requirements.runs
  /\ \A b \in request.runs : b.hash \in request.authenticated.records

RunsMatch(request) ==
  /\ {b.hash : b \in request.runs} = request.requirements.runs
  /\ \A b \in request.runs :
       /\ b.hash \in request.authenticated.records
       /\ b.generation = request.candidate.generation

Measured(c) == [hash |-> c.hash, subject |-> c.subject, source |-> c.source]

CoverageMatchesSuiteIndex(request) ==  \* fault: compared with the suite's index
  /\ {Measured(b) : b \in request.coverage} = request.requirements.coverage
  /\ \A b \in request.coverage :
       /\ b.hash \in request.authenticated.records
       /\ b.generation = request.candidate.generation
       /\ b.index = request.suite.projection.index

CoverageMatches(request) ==
  /\ {Measured(b) : b \in request.coverage} = request.requirements.coverage
  /\ \A c \in request.requirements.coverage :
       \E s \in request.candidate.subjects : s.subject = c.subject /\ s.source = c.source
  /\ \A b \in request.coverage :
       /\ b.hash \in request.authenticated.records
       /\ b.generation = request.candidate.generation
       /\ b.index = request.candidate.index

ValidationsMatch(request) ==
  /\ {b.hash : b \in request.validations} = request.requirements.validations
  /\ \A b \in request.validations :
       /\ b.hash \in request.authenticated.records
       /\ b.suite = request.suite.hash
       /\ b.generation = request.suite.projection.generation

Projected(m) ==
  [subject |-> m.subject, adapter |-> m.adapter, raw |-> m.raw, projection |-> m.projection]

\* Bindings are in the order of (subject, record), requirements in that of
\* (subject, adapter, raw, projection): element by element they agree only
\* when both orders do, so one subject's records must be in the order of what
\* they project.
OrdersAgree(managed) ==
  \A b, d \in managed :
    b.subject = d.subject /\ b.hash < d.hash =>
      \/ b.adapter < d.adapter
      \/ b.adapter = d.adapter /\ Lower(Projected(b), Projected(d))

ManagedMatches(request) ==
  /\ {Projected(b) : b \in request.managed} = request.requirements.managed
  /\ Cardinality(request.managed) = Cardinality(request.requirements.managed)
  /\ OrdersAgree(request.managed)
  /\ \A m \in request.requirements.managed : m.adapter \in request.authenticated.adapters
  /\ \A b \in request.managed : b.hash \in request.authenticated.records

\* No reason against the request.
Closes(request) ==
  /\ InScope(request)
  /\ AuthoritiesAreApart(request)
  /\ CandidateMatches(request)
  /\ SuiteMatches(request)
  /\ Unambiguous(request)
  /\ RunsMatch(request)
  /\ CoverageMatches(request)
  /\ ValidationsMatch(request)
  /\ ManagedMatches(request)

Chain(request) ==
  {request.candidate.generation, request.suite.hash, request.suite.projection.generation}
    \cup {b.hash : b \in request.runs \cup request.coverage
                           \cup request.validations \cup request.managed}

ClosureOf(request) ==
  [scope |-> request.requirements.scope,
   generation |-> request.candidate.generation, index |-> request.candidate.index,
   suite |-> request.suite.hash,
   suiteGeneration |-> request.suite.projection.generation,
   suiteIndex |-> request.suite.projection.index,
   runs |-> {b.hash : b \in request.runs},
   coverage |-> {b.hash : b \in request.coverage},
   validations |-> {b.hash : b \in request.validations},
   managed |-> {b.hash : b \in request.managed},
   chain |-> Chain(request)]
=============================================================================
