------------------------- MODULE QualificationStore -------------------------
(***************************************************************************)
(* The PostgreSQL store of toolchain qualification runs.  Its functions    *)
(* run in serializable transactions, so a call is one step or, aborted,    *)
(* none.  The repository has no driver that calls them in order: brokers   *)
(* and runners here are any number of processes that may make any call at  *)
(* any time, and every answer may be lost after its transaction commits.   *)
(* Restarting or repeating a process is thus one more process.             *)
(*                                                                         *)
(* A hash is modelled by the value it is taken of.  A profile's own hash,  *)
(* which is its run key, leaves the signature out: two documents may share *)
(* it.  So do results.                                                     *)
(***************************************************************************)
EXTENDS Naturals, Sequences

CONSTANTS Keys, Profiles, Raws, Cleanups, Bodies, Results, None

ASSUME DocumentsAssumption ==
  /\ \A p \in Profiles : p.key \in Keys
  /\ \A r \in Results : r.key \in Keys
  /\ None \notin Profiles \cup Raws \cup Cleanups \cup Results
  /\ None \notin [key : Keys, raw : Raws, cleanup : Cleanups, body : Bodies]

Calls == {"admit", "start", "raw", "cleanup"}  \* those with no replay

VARIABLES
  profiles,  \* toolchain_profiles: a function on the keys it has
  stage,     \* toolchain_runs
  events,    \* toolchain_audit_events, by key in ordinal order
  private,   \* toolchain_private_runs and their blobs
  terminal,  \* toolchain_terminal_results
  granted,   \* per key and call: how often it took effect, counted up to two
  prefixes,  \* per key: the event prefixes runners have read
  receipts,  \* per key: the private runs runners have a receipt for
  documents  \* per key: the result documents anybody was given

tables == <<profiles, stage, events, private, terminal>>
answers == <<granted, prefixes, receipts, documents>>
vars == <<tables, answers>>

-----------------------------------------------------------------------------
Has(table, k) == k \in DOMAIN table
Insert(table, k, row) == [j \in DOMAIN table \cup {k} |-> IF j = k THEN row ELSE table[j]]
Event(kind, actor, commitment) == [kind |-> kind, actor |-> actor, commitment |-> commitment]
Kinds(k) == [i \in DOMAIN events[k] |-> events[k][i].kind]

Admission == <<"admission">>
Started == <<"admission", "start">>
RawCommitted == <<"admission", "start", "raw_output_commitment">>
Cleaned == <<"admission", "start", "raw_output_commitment", "cleanup">>
Signed == <<"admission", "start", "raw_output_commitment", "cleanup",
            "terminal_result", "signature_commitment">>

\* The answer to a committed call: it arrives, or it is lost on the way.
Told(known, k, value) == {known, [known EXCEPT ![k] = @ \cup {value}]}
\* The calls that took effect are counted whether or not the answer arrives.
Grant(k, call) == [granted EXCEPT ![k][call] = IF @ = 2 THEN 2 ELSE @ + 1]

Init ==
  /\ profiles = <<>> /\ stage = <<>> /\ events = <<>>
  /\ private = <<>> /\ terminal = <<>>
  /\ granted = [k \in Keys |-> [c \in Calls |-> 0]]
  /\ prefixes = [k \in Keys |-> {}]
  /\ receipts = [k \in Keys |-> {}]
  /\ documents = [k \in Keys |-> {}]

-----------------------------------------------------------------------------
(* Broker: admit_toolchain_run.                                            *)

\* The key is new, or its admission retained these very profile bytes.
Retains(p) == Has(profiles, p.key) => profiles[p.key] = p

AdmitUnstarted(p) ==  \* fault: a run that has not started is admitted again
  /\ Retains(p)
  /\ Has(stage, p.key) => stage[p.key] = "ADMITTED"
  /\ profiles' = Insert(profiles, p.key, p)
  /\ stage' = Insert(stage, p.key, "ADMITTED")
  /\ events' = Insert(events, p.key, <<Event("admission", "broker", p.key)>>)
  /\ granted' = Grant(p.key, "admit")
  /\ UNCHANGED <<private, terminal, prefixes, receipts, documents>>

Admit(p) ==
  /\ Retains(p)
  /\ ~Has(stage, p.key)
  /\ profiles' = Insert(profiles, p.key, p)
  /\ stage' = Insert(stage, p.key, "ADMITTED")
  /\ events' = Insert(events, p.key, <<Event("admission", "broker", p.key)>>)
  /\ granted' = Grant(p.key, "admit")
  /\ UNCHANGED <<private, terminal, prefixes, receipts, documents>>

\* Admitting again answers ACTIVE, or TERMINAL with the document.
AdmitTerminal(p) ==
  /\ Retains(p)
  /\ Has(stage, p.key) /\ stage[p.key] = "TERMINAL"
  /\ Has(terminal, p.key)
  /\ documents' = [documents EXCEPT ![p.key] = @ \cup {terminal[p.key]}]
  /\ UNCHANGED <<tables, granted, prefixes, receipts>>

-----------------------------------------------------------------------------
(* Runner: the three commitments, each refused when repeated.              *)

Start(k) ==
  /\ Has(stage, k) /\ stage[k] = "ADMITTED"
  /\ events[k][1].kind = "admission" /\ events[k][1].commitment = k
  /\ stage' = [stage EXCEPT ![k] = "STARTED"]
  /\ events' = [events EXCEPT ![k] = Append(@, Event("start", "runner", k))]
  /\ granted' = Grant(k, "start")
  /\ UNCHANGED <<profiles, private, terminal, prefixes, receipts, documents>>

CommitRaw(k, raw) ==
  /\ Has(stage, k) /\ stage[k] = "STARTED"
  /\ Kinds(k) = Started
  /\ stage' = [stage EXCEPT ![k] = "RAW_COMMITTED"]
  /\ events' = [events EXCEPT ![k] = Append(@, Event("raw_output_commitment", "runner", raw))]
  /\ granted' = Grant(k, "raw")
  /\ UNCHANGED <<profiles, private, terminal, prefixes, receipts, documents>>

CommitCleanup(k, cleanup) ==
  /\ Has(stage, k) /\ stage[k] = "RAW_COMMITTED"
  /\ Kinds(k) = RawCommitted
  /\ stage' = [stage EXCEPT ![k] = "CLEANED"]
  /\ events' = [events EXCEPT ![k] = Append(@, Event("cleanup", "runner", cleanup))]
  /\ granted' = Grant(k, "cleanup")
  /\ UNCHANGED <<profiles, private, terminal, prefixes, receipts, documents>>

-----------------------------------------------------------------------------
(* Runner: the private run, its event prefix and its receipt.              *)

Prefix(k) == SubSeq(events[k], 1, 4)

\* The first four events, from the broker and three times the runner, the
\* first two about this profile.
PrefixIsExact(k) ==
  LET p == Prefix(k)
  IN /\ [i \in DOMAIN p |-> p[i].kind] = Cleaned
     /\ [i \in DOMAIN p |-> p[i].actor] = <<"broker", "runner", "runner", "runner">>
     /\ p[1].commitment = k /\ p[2].commitment = k

\* read_toolchain_event_prefix
ReadPrefix(k) ==
  /\ Has(stage, k) /\ stage[k] \in {"CLEANED", "TERMINAL"}
  /\ PrefixIsExact(k)
  /\ prefixes' = [prefixes EXCEPT ![k] = @ \cup {Prefix(k)}]
  /\ UNCHANGED <<tables, granted, receipts, documents>>

\* A private run that retain_private_run lets through: made from a prefix
\* that was read, which is still the prefix, with the committed hashes.
PrivateRuns(k) ==
  UNION {[key : {k}, raw : {p[3].commitment}, cleanup : {p[4].commitment}, body : Bodies] :
           p \in {q \in prefixes[k] : q = Prefix(k)}}

RetainAny(k, run) ==  \* fault: the commitments of the events are not compared
  /\ Has(stage, k) /\ stage[k] = "CLEANED"
  /\ PrefixIsExact(k)
  /\ ~Has(private, k) /\ Kinds(k) = Cleaned
  /\ \E raw \in Raws :
       /\ private' = Insert(private, k, [run EXCEPT !.raw = raw])
       /\ receipts' \in Told(receipts, k, [run EXCEPT !.raw = raw])
  /\ UNCHANGED <<profiles, stage, events, terminal, granted, prefixes, documents>>

\* retain_toolchain_private_run, the first time
Retain(k, run) ==
  /\ Has(stage, k) /\ stage[k] = "CLEANED"
  /\ PrefixIsExact(k)
  /\ ~Has(private, k) /\ Kinds(k) = Cleaned
  /\ \A j \in DOMAIN private : private[j] # run
  /\ private' = Insert(private, k, run)
  /\ receipts' \in Told(receipts, k, run)
  /\ UNCHANGED <<profiles, stage, events, terminal, granted, prefixes, documents>>

\* and again, with the same bytes
RetainReplay(k, run) ==
  /\ Has(stage, k) /\ stage[k] \in {"CLEANED", "TERMINAL"}
  /\ PrefixIsExact(k)
  /\ Has(private, k) /\ private[k] = run
  /\ receipts' = [receipts EXCEPT ![k] = @ \cup {run}]
  /\ UNCHANGED <<tables, granted, prefixes, documents>>

-----------------------------------------------------------------------------
(* Runner: commit_terminal_result.  Events, row and stage in one step.     *)

Conclude(k, result) ==
  /\ events' = [events EXCEPT ![k] =
       @ \o <<Event("terminal_result", "runner", result.hash),
              Event("signature_commitment", "runner", result)>>]
  /\ terminal' = Insert(terminal, k, result)
  /\ stage' = [stage EXCEPT ![k] = "TERMINAL"]
  /\ documents' \in Told(documents, k, result)
  /\ UNCHANGED <<profiles, private, granted, prefixes, receipts>>

CommitUnretained(k, result) ==  \* fault: the private run is not asked for
  /\ Has(stage, k) /\ stage[k] = "CLEANED"
  /\ Kinds(k) = Cleaned
  /\ Conclude(k, result)

CommitOverTerminal(k, result) ==  \* fault: a new signature replaces the result
  /\ Has(stage, k) /\ stage[k] \in {"CLEANED", "TERMINAL"}
  /\ Has(private, k)
  /\ Has(terminal, k) => terminal[k].hash = result.hash
  /\ terminal' = Insert(terminal, k, result)
  /\ stage' = [stage EXCEPT ![k] = "TERMINAL"]
  /\ events' = [events EXCEPT ![k] =
       SubSeq(@, 1, 4) \o <<Event("terminal_result", "runner", result.hash),
                            Event("signature_commitment", "runner", result)>>]
  /\ documents' \in Told(documents, k, result)
  /\ UNCHANGED <<profiles, private, granted, prefixes, receipts>>

CommitTerminal(k, result) ==
  /\ Has(stage, k) /\ stage[k] = "CLEANED"
  /\ Has(private, k)
  /\ Kinds(k) = Cleaned
  /\ \A j \in DOMAIN terminal : terminal[j].hash # result.hash
  /\ Conclude(k, result)

CommitReplay(k, result) ==
  /\ Has(stage, k) /\ stage[k] = "TERMINAL"
  /\ Has(private, k)
  /\ Has(terminal, k) /\ terminal[k] = result
  /\ Kinds(k) = Signed
  /\ documents' = [documents EXCEPT ![k] = @ \cup {result}]
  /\ UNCHANGED <<tables, granted, prefixes, receipts>>

\* read_toolchain_terminal, for the broker and the private human
ReadTerminal(k) ==
  /\ Has(stage, k) /\ stage[k] = "TERMINAL" /\ Has(terminal, k)
  /\ documents' = [documents EXCEPT ![k] = @ \cup {terminal[k]}]
  /\ UNCHANGED <<tables, granted, prefixes, receipts>>

-----------------------------------------------------------------------------
Next ==
  \/ \E p \in Profiles : Admit(p) \/ AdmitTerminal(p)
  \/ \E k \in Keys :
       \/ Start(k) \/ ReadPrefix(k) \/ ReadTerminal(k)
       \/ \E raw \in Raws : CommitRaw(k, raw)
       \/ \E cleanup \in Cleanups : CommitCleanup(k, cleanup)
       \/ \E run \in PrivateRuns(k) : Retain(k, run) \/ RetainReplay(k, run)
       \/ \E result \in {r \in Results : r.key = k} :
            CommitTerminal(k, result) \/ CommitReplay(k, result)

Spec == Init /\ [][Next]_vars

-----------------------------------------------------------------------------
(* Properties.                                                             *)

\* The tables hold rows of their kinds; no run has more than six events.
TypeOK ==
  /\ DOMAIN stage \subseteq Keys /\ DOMAIN profiles = DOMAIN stage /\ DOMAIN events = DOMAIN stage
  /\ DOMAIN private \subseteq DOMAIN stage /\ DOMAIN terminal \subseteq DOMAIN stage
  /\ \A k \in DOMAIN stage :
       /\ stage[k] \in {"ADMITTED", "STARTED", "RAW_COMMITTED", "CLEANED", "TERMINAL"}
       /\ profiles[k] \in Profiles /\ profiles[k].key = k
       /\ Len(events[k]) \in 1 .. 6
  /\ \A k \in DOMAIN terminal : terminal[k] \in Results /\ terminal[k].key = k
  /\ \A k \in Keys : \A c \in Calls : granted[k][c] \in 0 .. 2

\* The five tables tell one story, whatever calls were made, aborted or
\* repeated: a run's stage, its event sequence, its private run and its
\* result agree.  It is what keeps the functions' own "lacks its exact
\* predecessor" and "has no retained result" errors from ever being raised.
TablesAgree ==
  \A k \in DOMAIN stage :
    /\ Kinds(k) = CASE stage[k] = "ADMITTED" -> Admission
                    [] stage[k] = "STARTED" -> Started
                    [] stage[k] = "RAW_COMMITTED" -> RawCommitted
                    [] stage[k] = "CLEANED" -> Cleaned
                    [] stage[k] = "TERMINAL" -> Signed
    /\ Has(terminal, k) <=> stage[k] = "TERMINAL"
    /\ Has(terminal, k) => /\ Has(private, k)
                           /\ events[k][5].commitment = terminal[k].hash
                           /\ events[k][6].commitment = terminal[k]
    /\ Has(private, k) => /\ stage[k] \in {"CLEANED", "TERMINAL"}
                          /\ private[k].raw = events[k][3].commitment
                          /\ private[k].cleanup = events[k][4].commitment

\* Of all the calls that ever admit, start or commit a run, restarted and
\* repeated callers included, at most one of each kind takes effect and can
\* be answered so: a toolchain execution is never handed to two runners.
CallsSucceedOnce == \A k \in Keys : \A c \in Calls : granted[k][c] <= 1

\* What anybody was once told is still what the store holds, and therefore
\* what everybody else was told.
AnswersStayTrue ==
  \A k \in Keys :
    /\ \A p \in prefixes[k] : Has(stage, k) /\ p = Prefix(k)
    /\ \A r \in receipts[k] : Has(private, k) /\ r = private[k]
    /\ \A d \in documents[k] : Has(terminal, k) /\ d = terminal[k]

\* The audit of a run only grows, and its stage never goes back.
AuditOnlyGrows ==
  [][ \A k \in DOMAIN events :
        /\ k \in DOMAIN events'
        /\ Len(events'[k]) >= Len(events[k])
        /\ SubSeq(events'[k], 1, Len(events[k])) = events[k]
        /\ stage'[k] # stage[k] => Len(events'[k]) > Len(events[k]) ]_vars

\* The facts behind the tables.
Facts(k) ==
  [i \in 1 .. 6 |->
     CASE ~Has(stage, k) -> None
       [] Has(stage, k) /\ i = 1 -> profiles[k]
       [] Has(stage, k) /\ i = 2 -> IF Len(events[k]) >= 2 THEN profiles[k] ELSE None
       [] Has(stage, k) /\ i \in {3, 4} ->
            IF Len(events[k]) >= i THEN events[k][i].commitment ELSE None
       [] Has(stage, k) /\ i = 5 -> IF Has(private, k) THEN private[k] ELSE None
       [] Has(stage, k) /\ i = 6 -> IF Has(terminal, k) THEN terminal[k] ELSE None]

Ledger == INSTANCE QualificationLedger WITH ledger <- [k \in Keys |-> Facts(k)]

\* Under every interleaving, abort, lost answer and repetition the store is
\* a ledger of six facts per run, each established once and in order.
ImplementsLedger == Ledger!Spec
=============================================================================
