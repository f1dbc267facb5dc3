---------------------------- MODULE ProjectCheck ----------------------------
(***************************************************************************)
(* `mkso check` as a process of its own.  Its evaluator keeps the items    *)
(* and the obligations it read first and then, obligation by obligation,   *)
(* reads bindings, files, evidence and metadata anew, each time in another *)
(* transaction, while plans are applied, indexes admitted, files edited    *)
(* and evidence recorded: the store, the files and the other commands are  *)
(* those of EvidenceWorkflow.  What one obligation's bindings, digest and  *)
(* evidence are read from is read in one step each.                        *)
(***************************************************************************)
EXTENDS EvidenceWorkflow

LOCAL S == INSTANCE SequencesExt

ASSUME PairsAssumption == None \notin Plans \X Plans

VARIABLES
  check,   \* the check: its step and what it has read
  history  \* what was true, and what changed, since it began

allVars == <<vars, check, history>>

Subject == <<content, plan, rows, active>>

\* The evaluator's view: the items of one plan, the obligations of another,
\* and everything else as it is now.
Mixed ==
  [read \in Plans \X Plans |->
     [items |-> Manifest[read[1]].items, obligations |-> Manifest[read[2]].obligations]]

View == INSTANCE EvidenceWorkflow
  WITH Plans <- Plans \X Plans, Manifest <- Mixed, plan <- check.read

Idle == [pc |-> "idle", items |-> None, read |-> None, now |-> None, current |-> FALSE, digest |-> None,
         verdicts |-> <<>>, result |-> None]

\* While one obligation is being looked at.
Judging == {"digest", "evidence"}

\* true: obligations that were verified, by the active plan, when their
\* evidence was read; held: the project was verified whenever the check read
\* something; torn: obligations whose subject changed between two of their
\* readings; replaced: another plan was applied; quiet: nothing changed.
Nothing == [true |-> {}, held |-> TRUE, torn |-> {}, replaced |-> FALSE, quiet |-> TRUE]

\* A project that is verified already: its plan was applied, its sources
\* were indexed, and each frozen checker has passed.
Passed(o, k) ==
  [obligation |-> o, kind |-> k, command |-> Obligation(o).policies[k].command,
   status |-> "passed", digest |-> SubjectDigest(o), artifact |-> Obligation(o).policies[k].artifact,
   artifactHash |-> IF Obligation(o).policies[k].artifact = None THEN None
                      ELSE content[Obligation(o).policies[k].artifact],
   seen |-> [f \in SubjectFiles(o) |-> content[f]], raced |-> FALSE]

Evidence == UNION {{Passed(o, k) : k \in DOMAIN Obligation(o).policies} : o \in Obligations}

CheckInit ==
  /\ content \in [Files -> Contents]
  /\ \A f \in Files : content[f] \in Choices[f]
  /\ plan \in Plans
  /\ project = Manifest[plan].project
  /\ LET contract == content[ContractFile]
     IN active = [contract |-> contract,
                  inputs |-> [f \in Scope[contract].inputs |-> content[f]],
                  index |-> [f \in Scope[contract].indexed |-> content[f]]]
  /\ rows = [b \in Manifest[plan].bindings |-> [admission |-> active, source |-> content[b[2]]]]
  /\ evidence = S!SetToSeq(Evidence)
  /\ applier = [a \in Appliers |-> None]
  /\ indexer = [x \in Indexers |-> IdleIndexer]
  /\ runner = [r \in Runners |-> IdleRunner]
  /\ events = 0
  /\ check = Idle
  /\ history = Nothing

-----------------------------------------------------------------------------
(* Evaluator.__init__                                                      *)

ReadItems ==
  /\ check.pc = "idle"
  /\ check' = [check EXCEPT !.pc = "obligations", !.items = plan]
  /\ UNCHANGED vars

ReadObligations ==
  /\ check.pc = "obligations"
  /\ check' = [check EXCEPT !.pc = "next", !.read = <<check.items, plan>>]
  /\ UNCHANGED vars

-----------------------------------------------------------------------------
(* check_item, down from the roots, and check_obligation.                  *)

ReadItem(o) == View!Obligation(o).item
Reached == {o \in View!Obligations : ReadItem(o) \in DOMAIN View!Items}
Unread == Reached \ DOMAIN check.verdicts

\* An item's own obligations come before those below it.
Ahead == {o \in Unread : ~\E q \in Unread : /\ ReadItem(q) # ReadItem(o)
                                            /\ ReadItem(o) \in View!Subtree(ReadItem(q))}

\* _binding_reasons
ReadBindings(o) ==
  /\ check.pc = "next"
  /\ o \in Ahead
  /\ check' = [check EXCEPT !.pc = "digest", !.now = o, !.current = View!BindingsCurrent(o)]
  /\ UNCHANGED vars

\* subject_digest
ReadSubject ==
  /\ check.pc = "digest"
  /\ check' = [check EXCEPT !.pc = "evidence", !.digest = View!SubjectDigest(check.now)]
  /\ UNCHANGED vars

\* The newest row of a kind about the digest taken, its artifact unchanged.
FreshIgnoringArtifact(k) ==  \* fault: the artifact is not hashed again
  {i \in DOMAIN evidence :
     evidence[i].obligation = check.now /\ evidence[i].kind = k /\ evidence[i].digest = check.digest}

Fresh(k) ==
  {i \in DOMAIN evidence :
     LET e == evidence[i]
     IN /\ e.obligation = check.now /\ e.kind = k /\ e.digest = check.digest
        /\ e.artifact # None => Present(e.artifact) /\ content[e.artifact] = e.artifactHash}

Latest(k) == {i \in Fresh(k) : \A j \in Fresh(k) : j <= i}

Judge ==
  LET required == DOMAIN View!Obligation(check.now).policies
  IN IF \E k \in required : \E i \in Latest(k) : evidence[i].status # "passed" THEN "failed"
     ELSE IF check.current /\ \A k \in required : Latest(k) # {} THEN "verified"
     ELSE "incomplete"

ReadEvidence ==
  /\ check.pc = "evidence"
  /\ check' = [check EXCEPT
       !.pc = "next", !.now = None, !.current = FALSE, !.digest = None,
       !.verdicts = [o \in DOMAIN @ \cup {check.now} |-> IF o = check.now THEN Judge ELSE @[o]]]
  /\ UNCHANGED vars

\* The results, from the leaves up.
OwnObligations(i) == {o \in Reached : ReadItem(o) = i}

PassesOnlyComposed(i) ==  \* fault: leaves need a composition obligation as well
  /\ \A o \in OwnObligations(i) : check.verdicts[o] = "verified"
  /\ \E o \in OwnObligations(i) : View!Obligation(o).role = "composition"

Passes(i) ==
  /\ OwnObligations(i) # {}
  /\ \A o \in OwnObligations(i) : check.verdicts[o] = "verified"
  /\ View!Subtree(i) # {i} => \E o \in OwnObligations(i) : View!Obligation(o).role = "composition"

Finish ==
  /\ check.pc = "next"
  /\ Unread = {}
  /\ check' = [check EXCEPT
       !.pc = "done",
       !.result = IF \E o \in Reached : check.verdicts[o] = "failed" THEN "failed"
                  ELSE IF \A i \in DOMAIN View!Items : Passes(i) THEN "verified"
                  ELSE "incomplete"]
  /\ UNCHANGED vars

Check ==
  \/ ReadItems \/ ReadObligations \/ ReadSubject \/ ReadEvidence \/ Finish
  \/ \E o \in Ahead : ReadBindings(o)

-----------------------------------------------------------------------------
\* What is true when the check reads.
NoteReading ==
  history' = [history EXCEPT
    !.held = @ /\ ProjectVerified,
    !.true = IF check.pc = "evidence" /\ check.now \in Obligations /\ Verified(check.now)
               THEN @ \cup {check.now} ELSE @]

\* What others change while it runs.
NoteChange ==
  history' =
    IF check.pc = "idle" THEN history
    ELSE [history EXCEPT
            !.torn = IF Subject' # Subject /\ check.pc \in Judging THEN @ \cup {check.now} ELSE @,
            !.replaced = @ \/ plan' # plan,
            !.quiet = FALSE]

\* What happens after the check has ended is of no interest here.
CheckNext ==
  /\ check.pc # "done"
  /\ \/ Check /\ NoteReading
     \/ Next /\ UNCHANGED check /\ NoteChange

CheckSpec == CheckInit /\ [][CheckNext]_allVars

-----------------------------------------------------------------------------
(* Properties.                                                             *)

\* A project that is verified whenever a check reads something is reported
\* as verified, whatever evidence, edits and admissions come in meanwhile,
\* unless an obligation's subject changes just while it is being judged or
\* another plan is applied, whose obligations would be looked for among the
\* items of the plan before.
HeldThroughoutIsReported ==
  check.pc = "done" /\ history.held /\ history.torn = {} /\ ~history.replaced =>
    check.result = "verified"

\* A check that reports the project as verified found every obligation of
\* the plan as it was when its evidence was read, each at an instant of its
\* own; the exceptions are a plan applied under the check and a subject that
\* changed between two readings of one obligation.  If nothing changed at
\* all, the report is the gate's verdict.
ReportedWasVerified ==
  check.pc = "done" =>
    /\ check.result = "verified" /\ ~history.replaced => Obligations \subseteq history.true \cup history.torn
    /\ history.quiet => (check.result = "verified" <=> ProjectVerified)
=============================================================================
