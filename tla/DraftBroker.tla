---------------------------- MODULE DraftBroker ----------------------------
(***************************************************************************)
(* The draft broker's state directory and the processes that use it: one   *)
(* `prepare` that fills the directory file by file, and any number of      *)
(* concurrent `request` processes, each of which answers one request.  A   *)
(* submission is compiled, materialized, indexed and retained while the    *)
(* process holds the directory's lock.  Any process may be killed between  *)
(* two steps; the kernel then drops its lock and its files stay.           *)
(***************************************************************************)
EXTENDS Naturals, Sequences, FiniteSets

CONSTANTS
  Requests,    \* request processes
  Bodies,      \* replacements for the capsule's slot
  WellFormed,  \* bodies that encode, compile and keep the surrounding syntax
  Admissible,  \* bodies whose index has the scaffold's definitions and no new reference
  Limit,       \* draft directories the store may hold
  Public,      \* the request for the capsule, which carries no body
  None

\* What a request can be answered with.
Failures == {"DRAFT_REJECTED", "DRAFT_UNAVAILABLE"}
Answers == {"DRAFT_CAPSULE", "STRUCTURALLY_ADMITTED_DRAFT"} \cup Failures

ASSUME BrokerAssumption ==
  /\ IsFiniteSet(Requests)
  /\ None \notin Requests /\ None \notin Answers
  /\ \A contents \in SUBSET {"source", "index", "draft.json", "record"} : None # contents
  /\ WellFormed \subseteq Bodies
  /\ Public \notin Bodies
  /\ Limit \in Nat

VARIABLES
  files,    \* what prepare has written into the state directory
  prepare,  \* the operator's prepare command
  proc,     \* the request processes
  lock,     \* who holds the flock of the lock file
  draft     \* per request the contents of its draft directory, or None

brokerVars == <<files, prepare, proc, lock, draft>>

Layout == <<"capsule", "lock", "baseline", "drafts", "scaffold-index", "scaffold">>
Everything == {Layout[i] : i \in DOMAIN Layout}

Unused == [pc |-> "unused", body |-> None, result |-> None]

BrokerInit ==
  /\ files = {}
  /\ prepare = "running"
  /\ proc = [r \in Requests |-> Unused]
  /\ lock = None
  /\ draft = [r \in Requests |-> None]

At(r, pc) == proc[r].pc = pc
Goto(r, pc) == proc' = [proc EXCEPT ![r].pc = pc]

\* Leaving submit, by return or by exception, closes the lock file; the
\* answer is printed after that.
Release(r) == lock' = IF lock = r THEN None ELSE lock
Reply(r, answer) ==
  /\ proc' = [proc EXCEPT ![r].pc = "answering", ![r].result = answer]
  /\ Release(r)

Directories == {r \in Requests : draft[r] # None}
Holds(r, file) == draft[r] # None /\ file \in draft[r]
Put(r, file) == draft' = [draft EXCEPT ![r] = @ \cup {file}]

-----------------------------------------------------------------------------
(* prepare                                                                 *)

\* The files go in one by one, each created exclusively; the scaffold is
\* written last, when the index has been made and names the slot's function.
PrepareWrites ==
  /\ prepare = "running"
  /\ \E i \in DOMAIN Layout :
       /\ files = {Layout[j] : j \in 1 .. i - 1}
       /\ files' = files \cup {Layout[i]}
       /\ prepare' = IF i = Len(Layout) THEN "done" ELSE "running"
  /\ UNCHANGED <<proc, lock, draft>>

\* A failed check, an unavailable indexer or a kill.  The directory exists
\* now, and prepare only ever starts by making it.
PrepareStops ==
  /\ prepare = "running"
  /\ prepare' = "stopped"
  /\ UNCHANGED <<files, proc, lock, draft>>

-----------------------------------------------------------------------------
(* request: from the start to the lock.                                    *)

Begin(r, b) ==
  /\ At(r, "unused")
  /\ proc' = [proc EXCEPT ![r].pc = "loading", ![r].body = b]
  /\ UNCHANGED <<files, prepare, lock, draft>>

\* DraftBroker(state, capsule_hash): a missing file raises OSError, a file
\* that is not yet complete is rejected.
Load(r) ==
  /\ At(r, "loading")
  /\ \/ /\ "scaffold" \in files
        /\ Goto(r, "loaded")
        /\ UNCHANGED lock
     \/ /\ "scaffold" \notin files
        /\ \E a \in Failures : Reply(r, a)
  /\ UNCHANGED <<files, prepare, draft>>

\* The request is read from standard input and checked.
Receive(r) ==
  /\ At(r, "loaded")
  /\ \/ proc[r].body = Public /\ Reply(r, "DRAFT_CAPSULE")
     \/ proc[r].body \in Bodies \ WellFormed /\ Reply(r, "DRAFT_REJECTED")
     \/ proc[r].body \in WellFormed /\ Goto(r, "waiting") /\ UNCHANGED lock
  /\ UNCHANGED <<files, prepare, draft>>

InputDeadline(r) ==
  /\ At(r, "loaded")
  /\ Reply(r, "DRAFT_UNAVAILABLE")
  /\ UNCHANGED <<files, prepare, draft>>

EnterShared(r) ==  \* fault: LOCK_SH
  /\ At(r, "waiting")
  /\ lock' = r
  /\ Goto(r, "locked")
  /\ UNCHANGED <<files, prepare, draft>>

Enter(r) ==
  /\ At(r, "waiting")
  /\ lock = None
  /\ lock' = r
  /\ Goto(r, "locked")
  /\ UNCHANGED <<files, prepare, draft>>

\* Ten seconds of polling, the last poll still finding the lock taken.
Busy(r) ==
  /\ At(r, "waiting")
  /\ lock # None
  /\ Reply(r, "DRAFT_UNAVAILABLE")
  /\ UNCHANGED <<files, prepare, draft>>

-----------------------------------------------------------------------------
(* request: under the lock.                                                *)

\* The state is loaded again, the draft directories are counted, and the
\* free space is looked at.
Check(r) ==
  /\ At(r, "locked")
  /\ IF "scaffold" \in files /\ Cardinality(Directories) < Limit
       THEN \/ Goto(r, "checked") /\ UNCHANGED lock
            \/ Reply(r, "DRAFT_UNAVAILABLE")
       ELSE Reply(r, "DRAFT_REJECTED")
  /\ UNCHANGED <<files, prepare, draft>>

\* mkdtemp
MakeWorkspace(r) ==
  /\ At(r, "checked")
  /\ \/ draft' = [draft EXCEPT ![r] = {}] /\ Goto(r, "writing") /\ UNCHANGED lock
     \/ UNCHANGED draft /\ Reply(r, "DRAFT_UNAVAILABLE")
  /\ UNCHANGED <<files, prepare>>

Materialize(r) ==
  /\ At(r, "writing")
  /\ \/ Put(r, "source") /\ Goto(r, "indexing") /\ UNCHANGED lock
     \/ UNCHANGED draft /\ \E a \in Failures : Reply(r, a)
  /\ UNCHANGED <<files, prepare>>

\* The indexer's container ends, and _index reads what it left.
IndexEnds(r) ==
  /\ At(r, "indexing")
  /\ \/ Put(r, "index") /\ Goto(r, "indexed") /\ UNCHANGED lock
     \/ UNCHANGED draft /\ \E a \in Failures : Reply(r, a)
  /\ UNCHANGED <<files, prepare>>

IndexDeadlineAfterwards(r) ==  \* fault: the clock is read when the container has ended
  /\ At(r, "indexed")
  /\ Reply(r, "DRAFT_UNAVAILABLE")
  /\ UNCHANGED <<files, prepare, draft>>

\* It does not end in 120 seconds, and its client is killed.
IndexDeadline(r) ==
  /\ At(r, "indexing")
  /\ Reply(r, "DRAFT_UNAVAILABLE")
  /\ UNCHANGED <<files, prepare, draft>>

CompareDefinitionsOnly(r) ==  \* fault: new references are not looked for
  /\ At(r, "indexed")
  /\ Goto(r, "admitted")
  /\ UNCHANGED <<files, prepare, lock, draft>>

\* The index must have the scaffold's definitions and only its references.
Compare(r) ==
  /\ At(r, "indexed")
  /\ IF proc[r].body \in Admissible
       THEN Goto(r, "admitted") /\ UNCHANGED lock
       ELSE Reply(r, "DRAFT_REJECTED")
  /\ UNCHANGED <<files, prepare, draft>>

\* draft.json is created, then filled and flushed.
OpenRecord(r) ==
  /\ At(r, "admitted")
  /\ \/ Put(r, "draft.json") /\ Goto(r, "recording") /\ UNCHANGED lock
     \/ UNCHANGED draft /\ Reply(r, "DRAFT_UNAVAILABLE")
  /\ UNCHANGED <<files, prepare>>

\* An error of write or fsync leaves the record whole or not.
FillRecord(r) ==
  /\ At(r, "recording")
  /\ \/ Put(r, "record") /\ Reply(r, "STRUCTURALLY_ADMITTED_DRAFT")
     \/ (Put(r, "record") \/ UNCHANGED draft) /\ Reply(r, "DRAFT_UNAVAILABLE")
  /\ UNCHANGED <<files, prepare>>

-----------------------------------------------------------------------------
Answer(r) ==
  /\ At(r, "answering")
  /\ Goto(r, "done")
  /\ UNCHANGED <<files, prepare, lock, draft>>

Running(r) == proc[r].pc \notin {"unused", "done", "dead"}

Kill(r) ==
  /\ Running(r)
  /\ Goto(r, "dead")
  /\ Release(r)
  /\ UNCHANGED <<files, prepare, draft>>

\* What a request does without anybody's help.
Proceed(r) ==
  \/ Load(r) \/ InputDeadline(r) \/ Enter(r) \/ Busy(r) \/ Check(r) \/ MakeWorkspace(r)
  \/ Materialize(r) \/ IndexDeadline(r) \/ Compare(r) \/ OpenRecord(r) \/ FillRecord(r) \/ Answer(r)

BrokerNext ==
  \/ PrepareWrites \/ PrepareStops
  \/ \E r \in Requests :
       \/ \E b \in Bodies \cup {Public} : Begin(r, b)
       \/ Proceed(r) \/ Receive(r) \/ IndexEnds(r) \/ Kill(r)

\* The operating system schedules every process; a client may keep its input
\* open and a container may run on, but the clock passes every deadline.
BrokerSpec ==
  BrokerInit /\ [][BrokerNext]_brokerVars /\ \A r \in Requests : WF_brokerVars(Proceed(r))

-----------------------------------------------------------------------------
(* Properties.                                                             *)

Stages == {"unused", "loading", "loaded", "waiting", "locked", "checked", "writing", "indexing",
           "indexed", "admitted", "recording", "answering", "done", "dead"}

\* The state directory, the processes and the drafts hold what they can hold.
BrokerTypeOK ==
  /\ files \subseteq Everything
  /\ prepare \in {"running", "done", "stopped"}
  /\ proc \in [Requests -> [pc : Stages, body : Bodies \cup {Public, None}, result : Answers \cup {None}]]
  /\ lock \in Requests \cup {None}
  /\ draft \in [Requests -> (SUBSET {"source", "index", "draft.json", "record"}) \cup {None}]

\* However many submissions run at once and wherever they are killed, there
\* are never more draft directories than the limit: the count is taken and
\* the directory made under one hold of the lock.
StoreWithinLimit == Cardinality(Directories) <= Limit

\* A complete record stands beside the source and the index it speaks of, is
\* about an admissible body, and was made on a completely prepared directory;
\* whoever was told of an admitted draft can rely on the record being there,
\* whatever was killed.
RetainedIsAdmitted ==
  \A r \in Requests :
    /\ Holds(r, "record") =>
         /\ draft[r] = {"source", "index", "draft.json", "record"}
         /\ proc[r].body \in WellFormed \cap Admissible
         /\ files = Everything
    /\ proc[r].result = "STRUCTURALLY_ADMITTED_DRAFT" => Holds(r, "record")

\* A rejected submission has left no record that could be taken for a draft;
\* the session relies on it when it goes on after a rejection and stops when
\* the broker is unavailable.
RejectedIsNotRetained ==
  \A r \in Requests : proc[r].result = "DRAFT_REJECTED" => ~Holds(r, "draft.json")

\* Every request is answered or killed, however long the indexer runs, the
\* client writes, and others hold the lock.
RequestsEnd == \A r \in Requests : Running(r) ~> ~Running(r)
=============================================================================
