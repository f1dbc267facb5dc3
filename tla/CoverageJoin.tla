---------------------------- MODULE CoverageJoin ----------------------------
(***************************************************************************)
(* join_coverage_results ties what a suite run reported to the subjects of *)
(* the active SCIP admission.  It reads the store four times and hashes    *)
(* the admission's files twice, one after the other, while editors change  *)
(* files and `mkso index scip` admits other indexes: the store, the files  *)
(* and the indexer are those of EvidenceWorkflow.                          *)
(*                                                                         *)
(* Parsing of fields (their types, hash syntax, measured fractions) is     *)
(* left out; a record with a repeated key is no record.  The run's hash,   *)
(* the tool formats and the raw artifacts are carried along unchecked and  *)
(* left out too.                                                           *)
(***************************************************************************)
EXTENDS Naturals, Sequences, Functions

CONSTANTS
  Files, ContractFile, Contents, Choices, Scope, Defining, Indexers, MaxEvents, Absent, None,
  Binding,      \* per contract: where each subject is defined, [path, symbol]
  Objectives,   \* the objective records a caller may pass
  Suites,       \* the generated suites
  Assignments,  \* the suite assignments
  Reports       \* the run records

ASSUME BindingAssumption ==
  /\ DOMAIN Binding = DOMAIN Scope
  /\ \A c \in DOMAIN Scope :
       {Binding[c][s].path : s \in DOMAIN Binding[c]} \subseteq Scope[c].subjects \cap Scope[c].inputs

ASSUME ObjectivesAssumption ==
  \A o \in Objectives : \A q \in DOMAIN o.requirements : o.requirements[q].subjects # {}

VARIABLES
  content, active, indexer, events,  \* as in EvidenceWorkflow
  join,    \* the join: its step and what it has read
  history  \* what happened to the store and the files meanwhile

vars == <<content, active, indexer, events, join, history>>

Store == INSTANCE EvidenceWorkflow
  WITH Plans <- {}, Manifest <- <<>>, Appliers <- {}, Runners <- {},
       plan <- <<>>, project <- <<>>, rows <- <<>>, evidence <- <<>>,
       applier <- <<>>, runner <- <<>>

ASSUME StoreAssumption == Store!FilesAssumption /\ Store!NoneAssumption

-----------------------------------------------------------------------------
(* Records.                                                                *)

\* The profiles of an objective that the run's channel exercises.
ActiveProfiles(o, suite, channel) ==
  LET onChannel == {p \in DOMAIN o.profiles : channel \in o.profiles[p]}
  IN CASE channel \in {"PRIMARY", "COMPOSITION"} -> onChannel
       [] channel \in {"A", "B"} -> {suite.strategy[o.obligation]} \cap onChannel
       [] OTHER -> {suite.strategy[o.obligation]} \cap DOMAIN o.profiles

\* The suite was generated, and assigned, for this channel.
SuiteServes(suite, assignment, channel) ==
  /\ assignment.channel = channel
  /\ assignment.lane = suite.lane
  /\ \/ /\ channel \in {"PRIMARY", "COMPOSITION"}
        /\ suite.origin = "primary" /\ suite.lane = "PRIMARY"
        /\ assignment.kind = IF channel = "PRIMARY" THEN "primary" ELSE "composition"
        /\ DOMAIN suite.strategy = {}
     \/ /\ channel \in {"A", "B"}
        /\ suite.origin = "blind" /\ suite.lane = channel
        /\ assignment.kind = "blind_fresh"
     \/ /\ channel = "REGRESSION"
        /\ suite.origin = "blind" /\ suite.lane \in {"A", "B"}
        /\ assignment.kind = "blind_regression"

\* _record_identity: contract, node, objectives, suite and assignment agree.
RecordsAgree(O, suite, assignment, report) ==
  /\ \A o \in O : o.contract = suite.contract /\ o.node = suite.node
  /\ assignment.contract = suite.contract /\ assignment.node = suite.node
  /\ report.contract = suite.contract /\ report.node = suite.node
  /\ Range(suite.objectives) = {o.id : o \in O}
  /\ Range(suite.hashes) = {o.hash : o \in O}
  /\ assignment.objectives = suite.objectives
  /\ assignment.hashes = suite.hashes /\ report.hashes = suite.hashes
  /\ assignment.suite = suite.hash /\ report.suite = suite.hash
  /\ report.assignment = assignment.hash
  /\ report.obligations = {o.obligation : o \in O}
  /\ report.channel \in {"A", "B", "REGRESSION"} => DOMAIN suite.strategy = report.obligations

\* The requirements that the run has to answer, each with its objective.
Expected(O, suite, channel) ==
  UNION {{o} \X {q \in DOMAIN o.requirements :
                   o.requirements[q].profiles \cap ActiveProfiles(o, suite, channel) # {}} : o \in O}

\* The subjects of such a pair of an objective and a requirement.
Subjects(e) == e[1].requirements[e[2]].subjects

\* Identifiers of objectives, obligations and requirements do not repeat,
\* every objective has an active profile, and some requirement applies.
ObjectivesUsable(O, suite, channel) ==
  /\ \A o, p \in O : o # p =>
       /\ o.id # p.id /\ o.obligation # p.obligation
       /\ DOMAIN o.requirements \cap DOMAIN p.requirements = {}
  /\ channel \in {"A", "B", "REGRESSION"} => \A o \in O : o.obligation \in DOMAIN suite.strategy
  /\ \A o \in O : ActiveProfiles(o, suite, channel) # {}
  /\ Expected(O, suite, channel) # {}
  /\ \A e \in Expected(O, suite, channel) : Subjects(e) \subseteq DOMAIN e[1].targets

\* _validated_suite_bindings.
SuiteBindsExpected(E, suite) ==
  /\ DOMAIN suite.bindings = {e[2] : e \in E}
  /\ \A e \in E :
       /\ suite.bindings[e[2]].subjects = Subjects(e)
       /\ suite.bindings[e[2]].tool \in e[1].tools

\* _validated_run_results: one result for each frozen pair and no other.
Pairs(E) == UNION {{e[2]} \X Subjects(e) : e \in E}

\* _coverage_entry: the subject is where the objective says, and the result
\* was measured on its indexed source with the suite's parser.
EntryMatchesSource(e, s, suite, report, admission) ==  \* fault: target not compared
  LET found == Binding[admission.contract]
      result == report.results[<<e[2], s>>]
  IN /\ s \in DOMAIN found
     /\ result.source = admission.inputs[found[s].path]
     /\ result.index = admission.index
     /\ result.parser = suite.bindings[e[2]].parser

EntryMatches(e, s, suite, report, admission) ==
  LET found == Binding[admission.contract]
      result == report.results[<<e[2], s>>]
  IN /\ s \in DOMAIN found
     /\ found[s] = e[1].targets[s]
     /\ result.source = admission.inputs[found[s].path]
     /\ result.index = admission.index
     /\ result.parser = suite.bindings[e[2]].parser

Joinable(O, suite, assignment, report, admission) ==
  LET E == Expected(O, suite, report.channel)
  IN /\ O # {}
     /\ SuiteServes(suite, assignment, report.channel)
     /\ ObjectivesUsable(O, suite, report.channel)
     /\ RecordsAgree(O, suite, assignment, report)
     /\ report.index = admission.index
     /\ SuiteBindsExpected(E, suite)
     /\ DOMAIN report.results = Pairs(E)
     /\ \A e \in E : \A s \in Subjects(e) :
          EntryMatches(e, s, suite, report, admission)

\* The joined entries: one per requirement and subject.
Entry(e, s, report, admission) ==
  [objective |-> e[1].id, requirement |-> e[2], subject |-> s,
   path |-> e[1].targets[s].path,
   source |-> admission.inputs[Binding[admission.contract][s].path],
   result |-> report.results[<<e[2], s>>].result]

Entries(O, suite, report, admission) ==
  UNION {{Entry(e, s, report, admission) : s \in Subjects(e)} :
           e \in Expected(O, suite, report.channel)}
-----------------------------------------------------------------------------
(* The store and the files, with what the history notes of them.           *)

Covers(admission) == {ContractFile} \cup DOMAIN admission.inputs
Admitted(admission, f) == IF f = ContractFile THEN admission.contract ELSE admission.inputs[f]
Holds(admission, f) == content[f] = Admitted(admission, f)
Current(admission) == {f \in Covers(admission) : Holds(admission, f)}

Joined == join.pc \in {"joined", "confirmed", "closing"}

Idle ==
  [pc |-> "idle", admission |-> None, checking |-> None, unread |-> {},
   records |-> None, entries |-> {}]

\* seen: files read as admitted by the first check; strayed: those of them
\* changed since; returned: one of these became as admitted again after
\* the records were joined.  together:
\* all of them were as admitted when the records were joined; after: files
\* that were as admitted at some instant from then on.  switched: another
\* admission came in while the join was about to check its own.
Nothing ==
  [seen |-> {}, strayed |-> {}, returned |-> FALSE, together |-> FALSE, after |-> {},
   switched |-> FALSE]

Init ==
  /\ content \in [Files -> Contents \cup {Absent}]
  /\ \A f \in Files : content[f] \in Choices[f]
  /\ active = None
  /\ indexer = [x \in Indexers |-> Store!IdleIndexer]
  /\ events = 0
  /\ join = Idle
  /\ history = Nothing

Edit(f) ==
  /\ Store!Edit(f)
  /\ UNCHANGED join
  /\ history' =
       IF join.admission = None \/ f \notin Covers(join.admission) \/ join.pc = "done"
         THEN history
         ELSE LET now == content'[f] = Admitted(join.admission, f)
              IN [history EXCEPT
                   !.strayed = IF ~now /\ f \in history.seen THEN @ \cup {f} ELSE @,
                   !.returned = @ \/ (now /\ f \in history.strayed /\ Joined),
                   !.after = IF now /\ Joined THEN @ \cup {f} ELSE @]

Index(x) ==
  /\ \/ Store!StartIndexer(x) \/ Store!RunIndexer(x) \/ Store!VerifyIndex(x)
     \/ Store!AbandonIndexer(x)
  /\ UNCHANGED <<join, history>>

Admit(x) ==
  /\ Store!CommitAdmission(x)
  /\ UNCHANGED join
  /\ history' = [history EXCEPT
       !.switched = @ \/ (join.pc \in {"read", "confirmed"} /\ active' # active)]

-----------------------------------------------------------------------------
(* The join.                                                               *)

\* The hash of the active admission.
ReadActive ==
  /\ join.pc = "idle"
  /\ active # None
  /\ join' = [join EXCEPT !.pc = "read", !.admission = active]
  /\ UNCHANGED <<content, active, indexer, events, history>>

CheckOnlyAtTheEnd ==  \* fault: the first check is dropped
  /\ join.pc \in {"read", "confirmed"}
  /\ join' = [join EXCEPT
       !.pc = IF @ = "read" THEN "opening" ELSE "closing",
       !.checking = active,
       !.unread = IF join.pc = "read" THEN {} ELSE Covers(active)]
  /\ UNCHANGED <<content, active, indexer, events, history>>

\* scip_freshness_reasons reads the active admission for itself; it may be
\* another one by now.
BeginCheck ==
  /\ join.pc \in {"read", "confirmed"}
  /\ join' = [join EXCEPT
       !.pc = IF @ = "read" THEN "opening" ELSE "closing",
       !.checking = active,
       !.unread = Covers(active)]
  /\ UNCHANGED <<content, active, indexer, events, history>>

\* The contract first, then the inputs, are hashed one by one.
HashFile(f) ==
  /\ join.pc \in {"opening", "closing"}
  /\ f \in join.unread
  /\ ContractFile \in join.unread => f = ContractFile
  /\ IF Holds(join.checking, f)
       THEN join' = [join EXCEPT !.unread = @ \ {f}]
       ELSE join' = [Idle EXCEPT !.pc = "refused"]
  /\ history' = IF join.pc = "opening" THEN [history EXCEPT !.seen = @ \cup {f}] ELSE history
  /\ UNCHANGED <<content, active, indexer, events>>

\* The snapshot of the admission, whose rows never change, and the records.
JoinRecords ==
  /\ join.pc = "opening"
  /\ join.unread = {}
  /\ \E O \in SUBSET Objectives, suite \in Suites, assignment \in Assignments, report \in Reports :
       IF Joinable(O, suite, assignment, report, join.admission)
         THEN /\ join' = [join EXCEPT
                   !.pc = "joined",
                   !.records = [objectives |-> O, suite |-> suite, report |-> report],
                   !.entries = Entries(O, suite, report, join.admission)]
              /\ history' = [history EXCEPT
                   !.together = Current(join.admission) = Covers(join.admission),
                   !.after = Current(join.admission)]
         ELSE /\ join' = [Idle EXCEPT !.pc = "refused"]
              /\ UNCHANGED history
  /\ UNCHANGED <<content, active, indexer, events>>

ConfirmNothing ==  \* fault: the active admission is not read again
  /\ join.pc = "joined"
  /\ join' = [join EXCEPT !.pc = "confirmed"]
  /\ UNCHANGED <<content, active, indexer, events, history>>

\* _require_scip_still_current: the admission first, then its files.
Confirm ==
  /\ join.pc = "joined"
  /\ join' = IF active = join.admission THEN [join EXCEPT !.pc = "confirmed"]
               ELSE [Idle EXCEPT !.pc = "refused"]
  /\ UNCHANGED <<content, active, indexer, events, history>>

Return ==
  /\ join.pc = "closing"
  /\ join.unread = {}
  /\ join' = [join EXCEPT !.pc = "done"]
  /\ UNCHANGED <<content, active, indexer, events, history>>

Next ==
  \/ \E f \in Files : Edit(f)
  \/ \E x \in Indexers : Index(x) \/ Admit(x)
  \/ ReadActive \/ BeginCheck \/ (\E f \in Files : HashFile(f)) \/ JoinRecords
  \/ Confirm \/ Return

Spec == Init /\ [][Next]_vars

-----------------------------------------------------------------------------
(* Properties.                                                             *)

\* The join's state at each step: a finished join has read every file.
TypeOK ==
  /\ join.pc \in {"idle", "read", "opening", "joined", "confirmed", "closing", "done", "refused"}
  /\ join.admission \in Store!Admissions \cup {None}
  /\ join.unread \subseteq Files
  /\ join.pc \in {"idle", "refused"} <=> join.admission = None
  /\ Joined \/ join.pc = "done" <=> join.entries # {}
  /\ join.pc = "done" => join.unread = {}

\* Every file behind a returned join held the admitted bytes at some instant
\* after the records were joined, whatever was edited meanwhile; the one
\* exception is an admission that came in just when a check was to begin.
JoinedFilesHeldAtTheEnd ==
  join.pc = "done" /\ ~history.switched => history.after = Covers(join.admission)

\* The two checks work as a double collect: unless a file was changed and
\* changed back between them, there was one instant at which all files held
\* the admitted bytes together, although neither check is atomic.
CheckedTwiceIsOneSnapshot ==
  join.pc = "done" /\ ~history.switched /\ ~history.returned => history.together

\* What a returned join says of the code: each frozen requirement of a
\* profile that the suite exercised has one entry per subject, and its
\* result was measured on the admitted bytes of the file the objective
\* names; on a blind lane the profile was one the objective opened to it.
JoinIsExact ==
  join.pc = "done" =>
    LET R == join.records
        channel == R.report.channel
        exercised(o) == {p \in DOMAIN o.profiles :
          /\ channel # "REGRESSION" => channel \in o.profiles[p]
          /\ R.suite.origin = "blind" => R.suite.strategy[o.obligation] = p}
    IN /\ \A e \in join.entries :
            /\ e.source = join.admission.inputs[e.path]
            /\ \E o \in R.objectives :
                 /\ o.id = e.objective
                 /\ o.targets[e.subject].path = e.path
                 /\ exercised(o) \cap o.requirements[e.requirement].profiles # {}
            /\ R.report.results[<<e.requirement, e.subject>>].source = e.source
       /\ \A o \in R.objectives : \A q \in DOMAIN o.requirements :
            exercised(o) \cap o.requirements[q].profiles # {} =>
              \A s \in o.requirements[q].subjects :
                \E e \in join.entries : e.requirement = q /\ e.subject = s
=============================================================================
