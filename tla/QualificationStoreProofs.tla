----------------------- MODULE QualificationStoreProofs -----------------------
(***************************************************************************)
(* Theorems of QualificationStore, for any documents, keys and callers.    *)
(*                                                                         *)
(* The inductive invariant, StoreInv, describes each run by the length of  *)
(* its audit: the events present are the first so many of the six, and     *)
(* stage, private run, result, counted calls and answers follow from them. *)
(***************************************************************************)
EXTENDS QualificationStore, SequenceTheorems, TLAPS

Commitments ==
  Keys \cup Raws \cup Cleanups \cup Results \cup {r.hash : r \in Results}

AuditEvents ==
  [kind : {Signed[i] : i \in 1 .. 6}, actor : {"broker", "runner"}, commitment : Commitments]

Runs == [key : Keys, raw : Raws, cleanup : Cleanups, body : Bodies]

\* The audit of k: its length goes with the stage, and its events are the
\* first of the six.
AuditOK(k) ==
  /\ events[k] \in Seq(AuditEvents)
  /\ \/ stage[k] = "ADMITTED" /\ Len(events[k]) = 1
     \/ stage[k] = "STARTED" /\ Len(events[k]) = 2
     \/ stage[k] = "RAW_COMMITTED" /\ Len(events[k]) = 3
     \/ stage[k] = "CLEANED" /\ Len(events[k]) = 4
     \/ stage[k] = "TERMINAL" /\ Len(events[k]) = 6
  /\ \A i \in 1 .. Len(events[k]) : events[k][i].kind = Signed[i]
  /\ Len(events[k]) >= 3 => events[k][3].commitment \in Raws
  /\ Len(events[k]) >= 4 => events[k][4].commitment \in Cleanups

\* What is retained beside the audit repeats its commitments.
RetainedOK(k) ==
  /\ profiles[k] \in Profiles /\ profiles[k].key = k
  /\ k \in DOMAIN private =>
       /\ stage[k] \in {"CLEANED", "TERMINAL"}
       /\ private[k] \in Runs /\ private[k].key = k
       /\ private[k].raw = events[k][3].commitment
       /\ private[k].cleanup = events[k][4].commitment
  /\ k \in DOMAIN terminal <=> stage[k] = "TERMINAL"
  /\ k \in DOMAIN terminal =>
       /\ k \in DOMAIN private
       /\ terminal[k] \in Results /\ terminal[k].key = k
       /\ events[k][5].commitment = terminal[k].hash
       /\ events[k][6].commitment = terminal[k]

Position(call) ==
  CASE call = "admit" -> 1 [] call = "start" -> 2 [] call = "raw" -> 3 [] call = "cleanup" -> 4

\* A call has taken effect once if its event is there, and never otherwise.
CountsOK(k) ==
  /\ granted[k] \in [Calls -> 0 .. 2]
  /\ \A c \in Calls :
       granted[k][c] = IF k \in DOMAIN stage /\ Len(events[k]) >= Position(c) THEN 1 ELSE 0

AnswersOK(k) ==
  /\ prefixes[k] # {} => k \in DOMAIN stage /\ stage[k] \in {"CLEANED", "TERMINAL"}
  /\ \A p \in prefixes[k] : p = Prefix(k)
  /\ \A r \in receipts[k] : k \in DOMAIN private /\ r = private[k]
  /\ \A d \in documents[k] : k \in DOMAIN terminal /\ d = terminal[k]

\* A function on the run keys.
OnKeys(f) == f = [k \in Keys |-> f[k]]

TablesOK ==
  /\ DOMAIN stage \subseteq Keys
  /\ DOMAIN profiles = DOMAIN stage /\ DOMAIN events = DOMAIN stage
  /\ DOMAIN private \subseteq DOMAIN stage /\ DOMAIN terminal \subseteq DOMAIN stage
  /\ OnKeys(granted) /\ OnKeys(prefixes) /\ OnKeys(receipts) /\ OnKeys(documents)

StoreInv ==
  /\ TablesOK
  /\ \A k \in DOMAIN stage : AuditOK(k) /\ RetainedOK(k)
  /\ \A k \in Keys : CountsOK(k) /\ AnswersOK(k)

USE DEF OnKeys

-----------------------------------------------------------------------------
(* Sequences of events.                                                    *)

\* The kinds of the six events, one by one.
LEMMA SixKinds ==
  /\ Signed[1] = "admission" /\ Signed[2] = "start" /\ Signed[3] = "raw_output_commitment"
  /\ Signed[4] = "cleanup" /\ Signed[5] = "terminal_result" /\ Signed[6] = "signature_commitment"
  BY DEF Signed

\* A sequence of n events whose kinds are the first n of the six has exactly
\* the list of kinds that the stored functions compare with.
LEMMA ListsOfKinds ==
  ASSUME NEW k, events[k] \in Seq(AuditEvents), Len(events[k]) \in {1, 2, 3, 4, 6},
         \A i \in 1 .. Len(events[k]) : events[k][i].kind = Signed[i]
  PROVE  Kinds(k) = CASE Len(events[k]) = 1 -> Admission
                      [] Len(events[k]) = 2 -> Started
                      [] Len(events[k]) = 3 -> RawCommitted
                      [] Len(events[k]) = 4 -> Cleaned
                      [] Len(events[k]) = 6 -> Signed
<1>1. Kinds(k) = [i \in 1 .. Len(events[k]) |-> Signed[i]]
  BY LenProperties DEF Kinds
<1>2. CASE Len(events[k]) = 1
  BY <1>1, <1>2 DEF Admission, Signed
<1>3. CASE Len(events[k]) = 2
  BY <1>1, <1>3 DEF Started, Signed
<1>4. CASE Len(events[k]) = 3
  BY <1>1, <1>4 DEF RawCommitted, Signed
<1>5. CASE Len(events[k]) = 4
  BY <1>1, <1>5 DEF Cleaned, Signed
<1>6. CASE Len(events[k]) = 6
  BY <1>1, <1>6 DEF Signed
<1> QED
  BY <1>2, <1>3, <1>4, <1>5, <1>6

\* A prefix depends on the first four events only.
LEMMA SamePrefix ==
  ASSUME NEW s \in Seq(AuditEvents), NEW t \in Seq(AuditEvents),
         Len(s) >= 4, Len(t) >= 4, \A i \in 1 .. 4 : s[i] = t[i]
  PROVE  SubSeq(s, 1, 4) = SubSeq(t, 1, 4)
<1>1. ASSUME NEW q \in Seq(AuditEvents), Len(q) >= 4
      PROVE  SubSeq(q, 1, 4) = [i \in 1 .. 4 |-> q[i]]
  <2>1. \A i \in 1 .. 4 : q[i] \in AuditEvents
    BY <1>1, LenProperties
  <2>2. /\ SubSeq(q, 1, 4) \in Seq(AuditEvents)
        /\ Len(SubSeq(q, 1, 4)) = 4
        /\ \A i \in 1 .. 4 : SubSeq(q, 1, 4)[i] = q[i]
    BY <2>1, SubSeqProperties
  <2>3. SubSeq(q, 1, 4) \in [1 .. 4 -> AuditEvents]
    BY <2>2, LenProperties
  <2> QED
    BY <2>2, <2>3
<1> QED
  BY <1>1

\* The event of an ordinal, whoever caused it.
LEMMA EventOfKind ==
  ASSUME NEW n \in 1 .. 6, NEW a \in {"broker", "runner"}, NEW c \in Commitments
  PROVE  /\ Event(Signed[n], a, c) \in AuditEvents
         /\ Event(Signed[n], a, c).kind = Signed[n]
         /\ Event(Signed[n], a, c).commitment = c
  BY DEF AuditEvents, Event

\* One more event of the right kind.
LEMMA OneMoreEvent ==
  ASSUME NEW s \in Seq(AuditEvents), NEW v \in AuditEvents,
         \A i \in 1 .. Len(s) : s[i].kind = Signed[i],
         v.kind = Signed[Len(s) + 1]
  PROVE  /\ Append(s, v) \in Seq(AuditEvents)
         /\ Len(Append(s, v)) = Len(s) + 1
         /\ \A i \in 1 .. Len(s) : Append(s, v)[i] = s[i]
         /\ Append(s, v)[Len(s) + 1] = v
         /\ \A i \in 1 .. Len(s) + 1 : Append(s, v)[i].kind = Signed[i]
<1>1. /\ Append(s, v) \in Seq(AuditEvents)
      /\ Len(Append(s, v)) = Len(s) + 1
      /\ \A i \in 1 .. Len(s) : Append(s, v)[i] = s[i]
      /\ Append(s, v)[Len(s) + 1] = v
  BY AppendProperties
<1>2. \A i \in 1 .. Len(s) + 1 : Append(s, v)[i].kind = Signed[i]
  BY <1>1, LenProperties
<1> QED
  BY <1>1, <1>2

\* The two events of a terminal commitment.
LEMMA TwoMoreEvents ==
  ASSUME NEW s \in Seq(AuditEvents), Len(s) = 4,
         NEW v \in AuditEvents, NEW w \in AuditEvents,
         \A i \in 1 .. 4 : s[i].kind = Signed[i],
         v.kind = Signed[5], w.kind = Signed[6]
  PROVE  /\ s \o <<v, w>> \in Seq(AuditEvents)
         /\ Len(s \o <<v, w>>) = 6
         /\ \A i \in 1 .. 4 : (s \o <<v, w>>)[i] = s[i]
         /\ (s \o <<v, w>>)[5] = v /\ (s \o <<v, w>>)[6] = w
         /\ \A i \in 1 .. 6 : (s \o <<v, w>>)[i].kind = Signed[i]
<1>1. <<v, w>> \in Seq(AuditEvents) /\ Len(<<v, w>>) = 2 /\ <<v, w>>[1] = v /\ <<v, w>>[2] = w
  OBVIOUS
<1> DEFINE t == <<v, w>>
<1> HIDE DEF t
<1>2. /\ s \o t \in Seq(AuditEvents)
      /\ Len(s \o t) = 6
      /\ \A i \in 1 .. 6 : (s \o t)[i] = IF i <= 4 THEN s[i] ELSE t[i - 4]
  <2>1. t \in Seq(AuditEvents) /\ Len(t) = 2
    BY <1>1 DEF t
  <2>2. /\ s \o t \in Seq(AuditEvents)
        /\ Len(s \o t) = Len(s) + Len(t)
        /\ \A i \in 1 .. Len(s) + Len(t) : (s \o t)[i] = IF i <= Len(s) THEN s[i] ELSE t[i - Len(s)]
    BY <2>1, ConcatProperties, Zenon
  <2> QED
    BY <2>1, <2>2
<1>3. (s \o t)[5] = v /\ (s \o t)[6] = w
  BY <1>1, <1>2 DEF t
<1>4. \A i \in 1 .. 6 : (s \o t)[i].kind = Signed[i]
  <2> TAKE i \in 1 .. 6
  <2>1. i \in 1 .. 4 \/ i = 5 \/ i = 6
    OBVIOUS
  <2> QED
    BY <1>2, <1>3, <2>1
<1> QED
  BY <1>2, <1>3, <1>4 DEF t

-----------------------------------------------------------------------------
(* The invariant.                                                          *)

LEMMA StoreInit == Init => StoreInv
<1> SUFFICES ASSUME Init PROVE StoreInv
  OBVIOUS
<1>1. TablesOK
  BY DEF Init, TablesOK
<1>2. ASSUME NEW k \in Keys PROVE CountsOK(k)
  <2>1. granted[k] = [c \in Calls |-> 0] /\ k \notin DOMAIN stage
    BY DEF Init
  <2>2. granted[k] \in [Calls -> 0 .. 2]
    BY <2>1
  <2> QED
    BY <2>1, <2>2 DEF CountsOK
<1>3. \A k \in Keys : AnswersOK(k)
  BY DEF Init, AnswersOK
<1> QED
  BY <1>1, <1>2, <1>3 DEF Init, StoreInv

\* A run that an action does not touch stays as it is.
LEMMA OtherRuns ==
  ASSUME NEW k \in DOMAIN stage, AuditOK(k), RetainedOK(k),
         stage'[k] = stage[k], profiles'[k] = profiles[k], events'[k] = events[k],
         k \in DOMAIN private' <=> k \in DOMAIN private,
         k \in DOMAIN private => private'[k] = private[k],
         k \in DOMAIN terminal' <=> k \in DOMAIN terminal,
         k \in DOMAIN terminal => terminal'[k] = terminal[k]
  PROVE  AuditOK(k)' /\ RetainedOK(k)'
<1>1. AuditOK(k)'
  BY DEF AuditOK
<1>2. RetainedOK(k)'
  BY DEF RetainedOK
<1> QED
  BY <1>1, <1>2

\* The same for what callers know of it.
LEMMA OtherAnswers ==
  ASSUME NEW k \in Keys, CountsOK(k), AnswersOK(k),
         k \in DOMAIN stage' <=> k \in DOMAIN stage,
         k \in DOMAIN stage => stage'[k] = stage[k] /\ events'[k] = events[k],
         k \in DOMAIN private => k \in DOMAIN private' /\ private'[k] = private[k],
         k \in DOMAIN terminal => k \in DOMAIN terminal' /\ terminal'[k] = terminal[k],
         granted'[k] = granted[k], prefixes'[k] = prefixes[k],
         receipts'[k] = receipts[k], documents'[k] = documents[k]
  PROVE  CountsOK(k)' /\ AnswersOK(k)'
<1>1. CountsOK(k)'
  BY DEF CountsOK
<1>2. AnswersOK(k)'
  BY DEF AnswersOK, Prefix
<1> QED
  BY <1>1, <1>2

\* A call that takes effect is counted.
LEMMA Counted ==
  ASSUME NEW k \in Keys, NEW call \in Calls, CountsOK(k),
         OnKeys(granted),
         granted' = Grant(k, call),
         k \in DOMAIN stage', Len(events'[k]) = Position(call),
         k \in DOMAIN stage => Len(events[k]) = Position(call) - 1,
         k \notin DOMAIN stage => Position(call) = 1
  PROVE  CountsOK(k)'
<1>1. granted[k][call] = 0
  BY DEF CountsOK, Position, Calls
<1>2. granted'[k] = [granted[k] EXCEPT ![call] = 1]
  <2>1. k \in DOMAIN granted
    OBVIOUS
  <2>2. granted'[k] = [granted[k] EXCEPT ![call] =
                         IF granted[k][call] = 2 THEN 2 ELSE granted[k][call] + 1]
    BY <2>1 DEF Grant
  <2> QED
    BY <1>1, <2>2
<1>3. granted'[k] \in [Calls -> 0 .. 2]
  BY <1>2 DEF CountsOK
<1>4. ASSUME NEW c \in Calls
      PROVE  granted'[k][c] = IF Len(events'[k]) >= Position(c) THEN 1 ELSE 0
  <2>1. granted'[k][c] = IF c = call THEN 1 ELSE granted[k][c]
    BY <1>2 DEF CountsOK
  <2> QED
    BY <2>1 DEF CountsOK, Position, Calls
<1> QED
  BY <1>3, <1>4 DEF CountsOK

Stages == <<"ADMITTED", "STARTED", "RAW_COMMITTED", "CLEANED">>

\* The three commitments: one stage, one event and one count further.
LEMMA Commitment ==
  ASSUME StoreInv, NEW k \in DOMAIN stage, NEW n \in 1 .. 3, NEW call \in Calls,
         Position(call) = n + 1, NEW c \in Commitments,
         n = 2 => c \in Raws, n = 3 => c \in Cleanups,
         NEW to, NEW kind, to = Stages[n + 1], kind = Signed[n + 1],
         stage[k] = Stages[n],
         DOMAIN stage' = DOMAIN stage, DOMAIN events' = DOMAIN stage,
         stage'[k] = to, events'[k] = Append(events[k], Event(kind, "runner", c)),
         \A j \in DOMAIN stage : j # k => stage'[j] = stage[j] /\ events'[j] = events[j],
         granted' = Grant(k, call),
         UNCHANGED <<profiles, private, terminal, prefixes, receipts, documents>>
  PROVE  StoreInv'
<1>1. k \in Keys /\ k \in DOMAIN events /\ AuditOK(k) /\ RetainedOK(k) /\ CountsOK(k) /\ AnswersOK(k)
  BY DEF StoreInv, TablesOK
<1>2. Len(events[k]) = n
  BY <1>1 DEF AuditOK, Stages
<1>3. /\ events'[k] \in Seq(AuditEvents)
      /\ Len(events'[k]) = n + 1
      /\ \A i \in 1 .. n : events'[k][i] = events[k][i]
      /\ \A i \in 1 .. n + 1 : events'[k][i].kind = Signed[i]
      /\ events'[k][n + 1].commitment = c
  <2> DEFINE v == Event(kind, "runner", c)
  <2>1. events'[k] = Append(events[k], v)
    BY <1>1
  <2>2. events[k] \in Seq(AuditEvents) /\ \A i \in 1 .. n : events[k][i].kind = Signed[i]
    BY <1>1, <1>2 DEF AuditOK
  <2>3. v \in AuditEvents /\ v.kind = Signed[n + 1] /\ v.commitment = c
    BY EventOfKind
  <2> HIDE DEF v
  <2> QED
    BY <1>2, <2>1, <2>2, <2>3, OneMoreEvent
<1>4. stage'[k] = Stages[n + 1] /\ k \notin DOMAIN private /\ k \notin DOMAIN terminal
  BY <1>1 DEF RetainedOK, Stages
<1>5. AuditOK(k)'
  BY <1>1, <1>2, <1>3, <1>4 DEF AuditOK, Stages
<1>6. RetainedOK(k)'
  BY <1>1, <1>4 DEF RetainedOK, Stages
<1>7. CountsOK(k)'
  <2>1. OnKeys(granted)
    BY DEF StoreInv, TablesOK
  <2> QED
    BY <1>1, <1>2, <1>3, <2>1, Counted
<1>8. AnswersOK(k)'
  <2>1. prefixes[k] = {} /\ receipts[k] = {} /\ documents[k] = {}
    BY <1>1, <1>4 DEF AnswersOK, Stages
  <2> QED
    BY <2>1 DEF AnswersOK
<1>9. ASSUME NEW j \in DOMAIN stage, j # k PROVE AuditOK(j)' /\ RetainedOK(j)'
  <2>1. AuditOK(j) /\ RetainedOK(j) /\ j \in DOMAIN events
    BY DEF StoreInv, TablesOK
  <2> QED
    BY <1>9, <2>1, OtherRuns
<1>10. ASSUME NEW j \in Keys, j # k PROVE CountsOK(j)' /\ AnswersOK(j)'
  <2>1. CountsOK(j) /\ AnswersOK(j) /\ DOMAIN events = DOMAIN stage
    BY DEF StoreInv, TablesOK
  <2>2. granted'[j] = granted[j]
    BY <1>10 DEF Grant, StoreInv, TablesOK
  <2> QED
    BY <1>10, <2>1, <2>2, OtherAnswers
<1>11. TablesOK'
  <2>1. OnKeys(granted')
    BY DEF Grant, StoreInv, TablesOK
  <2> QED
    BY <2>1 DEF StoreInv, TablesOK
<1> QED
  BY <1>5, <1>6, <1>7, <1>8, <1>9, <1>10, <1>11 DEF StoreInv

LEMMA AdmitStep == ASSUME StoreInv, NEW p \in Profiles, Admit(p) PROVE StoreInv'
<1> DEFINE k == p.key
<1>1. k \in Keys /\ k \notin DOMAIN stage /\ k \notin DOMAIN private /\ k \notin DOMAIN terminal
  BY DocumentsAssumption DEF Admit, Has, StoreInv, TablesOK
<1>2. CountsOK(k) /\ AnswersOK(k)
  BY <1>1 DEF StoreInv
<1> DEFINE v == Event("admission", "broker", k)
<1>3. v \in AuditEvents /\ v.kind = Signed[1] /\ v.commitment = k
  BY <1>1, SixKinds, EventOfKind DEF Commitments
<1>4. /\ DOMAIN stage' = DOMAIN stage \cup {k}
      /\ DOMAIN profiles' = DOMAIN stage' /\ DOMAIN events' = DOMAIN stage'
      /\ stage'[k] = "ADMITTED" /\ profiles'[k] = p /\ events'[k] = <<v>>
  BY DEF Admit, Insert, StoreInv, TablesOK
<1>5. \A j \in DOMAIN stage :
        /\ j # k
        /\ stage'[j] = stage[j] /\ profiles'[j] = profiles[j] /\ events'[j] = events[j]
  BY <1>1 DEF Admit, Insert, StoreInv, TablesOK
<1> HIDE DEF k, v
<1>6. AuditOK(k)'
  BY <1>3, <1>4 DEF AuditOK
<1>7. RetainedOK(k)'
  BY <1>1, <1>4 DEF RetainedOK, Admit, k
<1>8. CountsOK(k)'
  <2>1. OnKeys(granted)
    BY DEF StoreInv, TablesOK
  <2>2. Len(events'[k]) = 1 /\ "admit" \in Calls /\ Position("admit") = 1
    BY <1>4 DEF Calls, Position
  <2>3. granted' = Grant(k, "admit")
    BY DEF Admit, k
  <2> QED
    BY <1>1, <1>2, <1>4, <2>1, <2>2, <2>3, Counted
<1>9. AnswersOK(k)'
  <2>1. prefixes[k] = {} /\ receipts[k] = {} /\ documents[k] = {}
    BY <1>1, <1>2 DEF AnswersOK
  <2> QED
    BY <2>1 DEF AnswersOK, Admit
<1>10. ASSUME NEW j \in DOMAIN stage PROVE AuditOK(j)' /\ RetainedOK(j)'
  <2>1. AuditOK(j) /\ RetainedOK(j)
    BY DEF StoreInv
  <2> QED
    BY <1>5, <2>1, OtherRuns DEF Admit
<1>11. ASSUME NEW j \in Keys, j # k PROVE CountsOK(j)' /\ AnswersOK(j)'
  <2>1. CountsOK(j) /\ AnswersOK(j)
    BY DEF StoreInv
  <2>2. granted'[j] = granted[j]
    BY <1>11 DEF Admit, Grant, StoreInv, TablesOK, k
  <2> QED
    BY <1>4, <1>5, <1>11, <2>1, <2>2, OtherAnswers DEF Admit
<1>12. TablesOK'
  <2>1. OnKeys(granted')
    BY DEF Admit, Grant, StoreInv, TablesOK
  <2> QED
    BY <1>1, <1>4, <2>1 DEF Admit, StoreInv, TablesOK
<1> QED
  BY <1>4, <1>6, <1>7, <1>8, <1>9, <1>10, <1>11, <1>12 DEF StoreInv

\* The three commitments, from the lemma above.
LEMMA StartStep == ASSUME StoreInv, NEW k \in Keys, Start(k) PROVE StoreInv'
<1>1. k \in DOMAIN stage /\ stage[k] = Stages[1] /\ Stages[2] = "STARTED"
  BY DEF Start, Has, Stages
<1>2. "start" \in Calls /\ Position("start") = 2 /\ k \in Commitments /\ 1 \in 1 .. 3
  BY DEF Calls, Position, Commitments
<1>3. "STARTED" = Stages[1 + 1] /\ "start" = Signed[1 + 1]
  BY <1>1, SixKinds
<1>4. granted' = Grant(k, "start") /\ UNCHANGED <<profiles, private, terminal, prefixes, receipts, documents>>
  BY DEF Start
<1>5. /\ DOMAIN stage' = DOMAIN stage /\ DOMAIN events' = DOMAIN stage
      /\ stage'[k] = "STARTED"
      /\ events'[k] = Append(events[k], Event("start", "runner", k))
      /\ \A j \in DOMAIN stage : j # k => stage'[j] = stage[j] /\ events'[j] = events[j]
  BY <1>1 DEF Start, StoreInv, TablesOK
<1> QED
  BY <1>1, <1>2, <1>3, <1>4, <1>5, Commitment

LEMMA RawStep == ASSUME StoreInv, NEW k \in Keys, NEW raw \in Raws, CommitRaw(k, raw) PROVE StoreInv'
<1>1. k \in DOMAIN stage /\ stage[k] = Stages[2] /\ Stages[3] = "RAW_COMMITTED"
  BY DEF CommitRaw, Has, Stages
<1>2. "raw" \in Calls /\ Position("raw") = 3 /\ raw \in Commitments /\ 2 \in 1 .. 3
  BY DEF Calls, Position, Commitments
<1>3. "RAW_COMMITTED" = Stages[2 + 1] /\ "raw_output_commitment" = Signed[2 + 1]
  BY <1>1, SixKinds
<1>4. granted' = Grant(k, "raw") /\ UNCHANGED <<profiles, private, terminal, prefixes, receipts, documents>>
  BY DEF CommitRaw
<1>5. /\ DOMAIN stage' = DOMAIN stage /\ DOMAIN events' = DOMAIN stage
      /\ stage'[k] = "RAW_COMMITTED"
      /\ events'[k] = Append(events[k], Event("raw_output_commitment", "runner", raw))
      /\ \A j \in DOMAIN stage : j # k => stage'[j] = stage[j] /\ events'[j] = events[j]
  BY <1>1 DEF CommitRaw, StoreInv, TablesOK
<1> QED
  BY <1>1, <1>2, <1>3, <1>4, <1>5, Commitment

LEMMA CleanupStep ==
  ASSUME StoreInv, NEW k \in Keys, NEW cleanup \in Cleanups, CommitCleanup(k, cleanup)
  PROVE  StoreInv'
<1>1. k \in DOMAIN stage /\ stage[k] = Stages[3] /\ Stages[4] = "CLEANED"
  BY DEF CommitCleanup, Has, Stages
<1>2. "cleanup" \in Calls /\ Position("cleanup") = 4 /\ cleanup \in Commitments /\ 3 \in 1 .. 3
  BY DEF Calls, Position, Commitments
<1>3. "CLEANED" = Stages[3 + 1] /\ "cleanup" = Signed[3 + 1]
  BY <1>1, SixKinds
<1>4. granted' = Grant(k, "cleanup") /\ UNCHANGED <<profiles, private, terminal, prefixes, receipts, documents>>
  BY DEF CommitCleanup
<1>5. /\ DOMAIN stage' = DOMAIN stage /\ DOMAIN events' = DOMAIN stage
      /\ stage'[k] = "CLEANED"
      /\ events'[k] = Append(events[k], Event("cleanup", "runner", cleanup))
      /\ \A j \in DOMAIN stage : j # k => stage'[j] = stage[j] /\ events'[j] = events[j]
  BY <1>1 DEF CommitCleanup, StoreInv, TablesOK
<1> QED
  BY <1>1, <1>2, <1>3, <1>4, <1>5, Commitment

\* Told adds at most the one value.
LEMMA ToldOne ==
  ASSUME NEW known, OnKeys(known), NEW k \in Keys, NEW v,
         NEW after \in Told(known, k, v)
  PROVE  /\ OnKeys(after)
         /\ after[k] \subseteq known[k] \cup {v}
         /\ \A j \in Keys : j # k => after[j] = known[j]
  BY DEF Told

\* Answers change nothing but what callers know of one run, and the private
\* run may be there for the first time.
LEMMA AnswerStep ==
  ASSUME StoreInv, NEW k \in DOMAIN stage,
         UNCHANGED <<profiles, stage, events, terminal, granted>>,
         DOMAIN private' \in {DOMAIN private, DOMAIN private \cup {k}},
         \A j \in DOMAIN private : private'[j] = private[j],
         OnKeys(prefixes'), OnKeys(receipts'), OnKeys(documents'),
         \A j \in Keys \ {k} : prefixes'[j] = prefixes[j] /\ receipts'[j] = receipts[j] /\ documents'[j] = documents[j],
         RetainedOK(k)', AnswersOK(k)'
  PROVE  StoreInv'
<1>1. k \in Keys /\ AuditOK(k) /\ CountsOK(k) /\ DOMAIN events = DOMAIN stage
  BY DEF StoreInv, TablesOK
<1>2. AuditOK(k)' /\ CountsOK(k)'
  BY <1>1 DEF AuditOK, CountsOK
<1>3. ASSUME NEW j \in DOMAIN stage, j # k PROVE AuditOK(j)' /\ RetainedOK(j)'
  <2>1. AuditOK(j) /\ RetainedOK(j)
    BY DEF StoreInv
  <2> QED
    BY <1>3, <2>1, OtherRuns
<1>4. ASSUME NEW j \in Keys, j # k PROVE CountsOK(j)' /\ AnswersOK(j)'
  <2>1. CountsOK(j) /\ AnswersOK(j)
    BY DEF StoreInv
  <2> QED
    BY <1>4, <2>1, OtherAnswers
<1>5. TablesOK'
  BY DEF StoreInv, TablesOK
<1> QED
  BY <1>2, <1>3, <1>4, <1>5 DEF StoreInv

\* What is recorded of a run's prefix stays its prefix.
LEMMA ReadPrefixStep == ASSUME StoreInv, NEW k \in Keys, ReadPrefix(k) PROVE StoreInv'
<1>1. k \in DOMAIN stage /\ stage[k] \in {"CLEANED", "TERMINAL"} /\ RetainedOK(k) /\ AnswersOK(k)
  BY DEF ReadPrefix, Has, StoreInv
<1>2. /\ UNCHANGED <<tables, granted, receipts, documents>>
      /\ OnKeys(prefixes') /\ prefixes'[k] = prefixes[k] \cup {Prefix(k)}
      /\ \A j \in Keys \ {k} : prefixes'[j] = prefixes[j]
  BY DEF ReadPrefix, StoreInv, TablesOK
<1>3. AnswersOK(k)'
  BY <1>1, <1>2 DEF AnswersOK, tables, Prefix
<1>4. RetainedOK(k)'
  BY <1>1, <1>2 DEF RetainedOK, tables
<1>5. /\ OnKeys(receipts') /\ OnKeys(documents')
      /\ UNCHANGED <<profiles, stage, events, private, terminal, granted>>
      /\ \A j \in Keys \ {k} : receipts'[j] = receipts[j] /\ documents'[j] = documents[j]
  BY <1>2 DEF StoreInv, TablesOK, tables
<1> QED
  BY <1>1, <1>2, <1>3, <1>4, <1>5, AnswerStep

\* A document that is handed out is the one in the table.
LEMMA DocumentStep ==
  ASSUME StoreInv, NEW k \in Keys, k \in DOMAIN stage, k \in DOMAIN terminal,
         documents' = [documents EXCEPT ![k] = @ \cup {terminal[k]}],
         UNCHANGED <<tables, granted, prefixes, receipts>>
  PROVE  StoreInv'
<1>1. RetainedOK(k) /\ AnswersOK(k)
  BY DEF StoreInv
<1>2. /\ OnKeys(prefixes') /\ OnKeys(receipts') /\ OnKeys(documents')
      /\ UNCHANGED <<profiles, stage, events, private, terminal, granted>>
      /\ documents'[k] = documents[k] \cup {terminal[k]}
      /\ \A j \in Keys \ {k} : prefixes'[j] = prefixes[j] /\ receipts'[j] = receipts[j] /\ documents'[j] = documents[j]
  BY DEF StoreInv, TablesOK, tables
<1>3. AnswersOK(k)'
  BY <1>1, <1>2 DEF AnswersOK, Prefix
<1>4. RetainedOK(k)'
  BY <1>1, <1>2 DEF RetainedOK
<1> QED
  BY <1>2, <1>3, <1>4, AnswerStep

LEMMA RetainReplayStep ==
  ASSUME StoreInv, NEW k \in Keys, NEW run, RetainReplay(k, run)
  PROVE  StoreInv'
<1>1. k \in DOMAIN stage /\ k \in DOMAIN private /\ private[k] = run /\ RetainedOK(k) /\ AnswersOK(k)
  BY DEF RetainReplay, Has, StoreInv
<1>2. /\ OnKeys(prefixes') /\ OnKeys(receipts') /\ OnKeys(documents')
      /\ UNCHANGED <<profiles, stage, events, private, terminal, granted>>
      /\ receipts'[k] = receipts[k] \cup {run} /\ UNCHANGED <<prefixes, documents>>
      /\ \A j \in Keys \ {k} : prefixes'[j] = prefixes[j] /\ receipts'[j] = receipts[j] /\ documents'[j] = documents[j]
  BY DEF RetainReplay, StoreInv, TablesOK, tables
<1>3. AnswersOK(k)'
  BY <1>1, <1>2 DEF AnswersOK, Prefix
<1>4. RetainedOK(k)'
  BY <1>1, <1>2 DEF RetainedOK
<1> QED
  BY <1>1, <1>2, <1>3, <1>4, AnswerStep

\* A private run that is let through repeats the committed hashes.
LEMMA PrivateRunsRepeat ==
  ASSUME StoreInv, NEW k \in DOMAIN stage, stage[k] = "CLEANED", NEW run \in PrivateRuns(k)
  PROVE  /\ run \in Runs /\ run.key = k
         /\ run.raw = events[k][3].commitment
         /\ run.cleanup = events[k][4].commitment
<1>1. AuditOK(k) /\ k \in Keys
  BY DEF StoreInv, TablesOK
<1>2. PICK p \in prefixes[k] :
        /\ p = Prefix(k)
        /\ run \in [key : {k}, raw : {p[3].commitment}, cleanup : {p[4].commitment}, body : Bodies]
  BY DEF PrivateRuns
<1>3. Prefix(k)[3] = events[k][3] /\ Prefix(k)[4] = events[k][4]
  <2>1. events[k] \in Seq(AuditEvents) /\ Len(events[k]) = 4
    BY <1>1 DEF AuditOK
  <2>2. \A i \in 1 .. 4 : events[k][i] \in AuditEvents
    BY <2>1, LenProperties
  <2>3. \A i \in 1 .. 4 : SubSeq(events[k], 1, 4)[i] = events[k][i]
    BY <2>2, SubSeqProperties
  <2> QED
    BY <2>3 DEF Prefix
<1>4. events[k][3].commitment \in Raws /\ events[k][4].commitment \in Cleanups
  BY <1>1 DEF AuditOK
<1> QED
  BY <1>1, <1>2, <1>3, <1>4 DEF Runs

LEMMA RetainStep ==
  ASSUME StoreInv, NEW k \in Keys, NEW run \in PrivateRuns(k), Retain(k, run)
  PROVE  StoreInv'
<1>1. k \in DOMAIN stage /\ stage[k] = "CLEANED" /\ k \notin DOMAIN private /\ RetainedOK(k) /\ AnswersOK(k)
  BY DEF Retain, Has, StoreInv
<1>2. /\ run \in Runs /\ run.key = k
      /\ run.raw = events[k][3].commitment
      /\ run.cleanup = events[k][4].commitment
  BY <1>1, PrivateRunsRepeat
<1>3. /\ OnKeys(receipts') /\ receipts'[k] \subseteq receipts[k] \cup {run}
      /\ \A j \in Keys : j # k => receipts'[j] = receipts[j]
  <2>1. receipts' \in Told(receipts, k, run) /\ OnKeys(receipts)
    BY DEF Retain, StoreInv, TablesOK
  <2> QED
    BY <2>1, ToldOne
<1>4. /\ DOMAIN private' = DOMAIN private \cup {k} /\ private'[k] = run
      /\ \A j \in DOMAIN private : private'[j] = private[j]
  BY <1>1 DEF Retain, Insert
<1>5. /\ UNCHANGED <<profiles, stage, events, terminal, granted, prefixes, documents>>
      /\ OnKeys(prefixes') /\ OnKeys(documents')
  BY DEF Retain, StoreInv, TablesOK
<1>6. RetainedOK(k)'
  BY <1>1, <1>2, <1>4, <1>5 DEF RetainedOK
<1>7. AnswersOK(k)'
  BY <1>1, <1>3, <1>4, <1>5 DEF AnswersOK, Prefix
<1>8. \A j \in Keys \ {k} : prefixes'[j] = prefixes[j] /\ receipts'[j] = receipts[j] /\ documents'[j] = documents[j]
  BY <1>3, <1>5
<1> QED
  BY <1>1, <1>3, <1>4, <1>5, <1>6, <1>7, <1>8, AnswerStep

LEMMA CommitTerminalStep ==
  ASSUME StoreInv, NEW k \in Keys, NEW result \in Results, result.key = k, CommitTerminal(k, result)
  PROVE  StoreInv'
<1>1. /\ k \in DOMAIN stage /\ stage[k] = "CLEANED" /\ k \in DOMAIN private /\ k \in DOMAIN events
      /\ AuditOK(k) /\ RetainedOK(k) /\ CountsOK(k) /\ AnswersOK(k)
  BY DEF CommitTerminal, Has, StoreInv, TablesOK
<1>2. k \notin DOMAIN terminal /\ Len(events[k]) = 4 /\ events[k] \in Seq(AuditEvents)
  BY <1>1 DEF RetainedOK, AuditOK
<1> DEFINE v == Event("terminal_result", "runner", result.hash)
           w == Event("signature_commitment", "runner", result)
<1>3. v \in AuditEvents /\ w \in AuditEvents
  BY SixKinds, EventOfKind DEF Commitments
<1>4. v.kind = Signed[5] /\ w.kind = Signed[6] /\ v.commitment = result.hash /\ w.commitment = result
  BY SixKinds DEF Event
<1>5. /\ DOMAIN stage' = DOMAIN stage /\ DOMAIN events' = DOMAIN stage
      /\ stage'[k] = "TERMINAL" /\ events'[k] = events[k] \o <<v, w>>
      /\ \A j \in DOMAIN stage : j # k => stage'[j] = stage[j] /\ events'[j] = events[j]
  BY <1>1 DEF CommitTerminal, Conclude, StoreInv, TablesOK
<1>6. /\ DOMAIN terminal' = DOMAIN terminal \cup {k} /\ terminal'[k] = result
      /\ \A j \in DOMAIN terminal : terminal'[j] = terminal[j]
  BY <1>2 DEF CommitTerminal, Conclude, Insert
<1>7. UNCHANGED <<profiles, private, granted, prefixes, receipts>>
  BY DEF CommitTerminal, Conclude
<1>8. /\ OnKeys(documents') /\ documents'[k] \subseteq documents[k] \cup {result}
      /\ \A j \in Keys : j # k => documents'[j] = documents[j]
  <2>1. documents' \in Told(documents, k, result) /\ OnKeys(documents)
    BY DEF CommitTerminal, Conclude, StoreInv, TablesOK
  <2> QED
    BY <2>1, ToldOne
<1> HIDE DEF v, w
<1>9. /\ events'[k] \in Seq(AuditEvents)
      /\ Len(events'[k]) = 6
      /\ \A i \in 1 .. 4 : events'[k][i] = events[k][i]
      /\ events'[k][5] = v /\ events'[k][6] = w
      /\ \A i \in 1 .. 6 : events'[k][i].kind = Signed[i]
  <2>1. \A i \in 1 .. 4 : events[k][i].kind = Signed[i]
    BY <1>1, <1>2 DEF AuditOK
  <2> QED
    BY <1>2, <1>3, <1>4, <1>5, <2>1, TwoMoreEvents
<1>10. AuditOK(k)'
  BY <1>1, <1>2, <1>5, <1>9 DEF AuditOK
<1>11. RetainedOK(k)'
  BY <1>1, <1>4, <1>5, <1>6, <1>7, <1>9 DEF RetainedOK
<1>12. CountsOK(k)'
  BY <1>1, <1>2, <1>5, <1>7, <1>9 DEF CountsOK, Position, Calls
<1>13. AnswersOK(k)'
  <2>1. Prefix(k)' = Prefix(k)
    BY <1>2, <1>9, SamePrefix DEF Prefix
  <2> QED
    BY <1>1, <1>2, <1>5, <1>6, <1>7, <1>8, <2>1 DEF AnswersOK
<1>14. ASSUME NEW j \in DOMAIN stage, j # k PROVE AuditOK(j)' /\ RetainedOK(j)'
  <2>1. AuditOK(j) /\ RetainedOK(j)
    BY DEF StoreInv
  <2> QED
    BY <1>5, <1>6, <1>7, <1>14, <2>1, OtherRuns
<1>15. ASSUME NEW j \in Keys, j # k PROVE CountsOK(j)' /\ AnswersOK(j)'
  <2>1. CountsOK(j) /\ AnswersOK(j)
    BY DEF StoreInv
  <2> QED
    BY <1>5, <1>6, <1>7, <1>8, <1>15, <2>1, OtherAnswers
<1>16. TablesOK'
  BY <1>1, <1>5, <1>6, <1>7, <1>8 DEF StoreInv, TablesOK
<1> QED
  BY <1>5, <1>10, <1>11, <1>12, <1>13, <1>14, <1>15, <1>16 DEF StoreInv

LEMMA StoreStep == StoreInv /\ [Next]_vars => StoreInv'
<1> SUFFICES ASSUME StoreInv, [Next]_vars PROVE StoreInv'
  OBVIOUS
<1>1. ASSUME NEW p \in Profiles, Admit(p) PROVE StoreInv'
  BY <1>1, AdmitStep
<1>2. ASSUME NEW p \in Profiles, AdmitTerminal(p) PROVE StoreInv'
  <2>1. p.key \in Keys
    BY DocumentsAssumption
  <2> QED
    BY <1>2, <2>1, DocumentStep DEF AdmitTerminal, Has
<1>3. ASSUME NEW k \in Keys, Start(k) PROVE StoreInv'
  BY <1>3, StartStep
<1>4. ASSUME NEW k \in Keys, ReadPrefix(k) PROVE StoreInv'
  BY <1>4, ReadPrefixStep
<1>5. ASSUME NEW k \in Keys, ReadTerminal(k) PROVE StoreInv'
  BY <1>5, DocumentStep DEF ReadTerminal, Has
<1>6. ASSUME NEW k \in Keys, NEW raw \in Raws, CommitRaw(k, raw) PROVE StoreInv'
  BY <1>6, RawStep
<1>7. ASSUME NEW k \in Keys, NEW cleanup \in Cleanups, CommitCleanup(k, cleanup) PROVE StoreInv'
  BY <1>7, CleanupStep
<1>8. ASSUME NEW k \in Keys, NEW run \in PrivateRuns(k), Retain(k, run) PROVE StoreInv'
  BY <1>8, RetainStep
<1>9. ASSUME NEW k \in Keys, NEW run \in PrivateRuns(k), RetainReplay(k, run) PROVE StoreInv'
  BY <1>9, RetainReplayStep
<1>10. ASSUME NEW k \in Keys, NEW result \in Results, result.key = k, CommitTerminal(k, result)
       PROVE  StoreInv'
  BY <1>10, CommitTerminalStep
<1>11. ASSUME NEW k \in Keys, NEW result \in Results, result.key = k, CommitReplay(k, result)
       PROVE  StoreInv'
  BY <1>11, DocumentStep DEF CommitReplay, Has
<1>12. CASE UNCHANGED vars
  <2>1. UNCHANGED <<profiles, stage, events, private, terminal, granted, prefixes, receipts, documents>>
    BY <1>12 DEF vars, tables, answers
  <2>2. TablesOK'
    BY <2>1 DEF StoreInv, TablesOK
  <2>3. \A k \in DOMAIN stage : (AuditOK(k) /\ RetainedOK(k)) = (AuditOK(k) /\ RetainedOK(k))'
    BY <2>1 DEF AuditOK, RetainedOK
  <2>4. \A k \in Keys : (CountsOK(k) /\ AnswersOK(k)) = (CountsOK(k) /\ AnswersOK(k))'
    BY <2>1 DEF CountsOK, AnswersOK, Prefix
  <2> QED
    BY <2>1, <2>2, <2>3, <2>4 DEF StoreInv
<1> QED
  BY <1>1, <1>2, <1>3, <1>4, <1>5, <1>6, <1>7, <1>8, <1>9, <1>10, <1>11, <1>12 DEF Next

LEMMA StoreIsInvariant == Spec => []StoreInv
  BY StoreInit, StoreStep, PTL DEF Spec

-----------------------------------------------------------------------------
(* Theorems.                                                               *)

\* The tables hold rows of their kinds and no run has more than six events.
THEOREM StoreIsTyped == Spec => []TypeOK
<1>1. ASSUME StoreInv PROVE TypeOK
  <2>1. ASSUME NEW k \in DOMAIN stage
        PROVE  /\ stage[k] \in {"ADMITTED", "STARTED", "RAW_COMMITTED", "CLEANED", "TERMINAL"}
               /\ profiles[k] \in Profiles /\ profiles[k].key = k
               /\ Len(events[k]) \in 1 .. 6
    BY <1>1 DEF StoreInv, AuditOK, RetainedOK
  <2>2. \A k \in DOMAIN terminal : terminal[k] \in Results /\ terminal[k].key = k
    BY <1>1 DEF StoreInv, TablesOK, RetainedOK
  <2>3. \A k \in Keys : \A c \in Calls : granted[k][c] \in 0 .. 2
    BY <1>1 DEF StoreInv, CountsOK
  <2> QED
    BY <1>1, <2>1, <2>2, <2>3 DEF TypeOK, StoreInv, TablesOK
<1> QED
  BY StoreIsInvariant, <1>1, PTL

\* Stage, audit, private run and result of every run tell one story.
THEOREM TablesAlwaysAgree == Spec => []TablesAgree
<1>1. ASSUME StoreInv PROVE TablesAgree
  <2> SUFFICES ASSUME NEW k \in DOMAIN stage
               PROVE  /\ Kinds(k) = CASE stage[k] = "ADMITTED" -> Admission
                                      [] stage[k] = "STARTED" -> Started
                                      [] stage[k] = "RAW_COMMITTED" -> RawCommitted
                                      [] stage[k] = "CLEANED" -> Cleaned
                                      [] stage[k] = "TERMINAL" -> Signed
                      /\ Has(terminal, k) <=> stage[k] = "TERMINAL"
                      /\ Has(terminal, k) => /\ Has(private, k)
                                             /\ events[k][5].commitment = terminal[k].hash
                                             /\ events[k][6].commitment = terminal[k]
                      /\ Has(private, k) => /\ stage[k] \in {"CLEANED", "TERMINAL"}
                                            /\ private[k].raw = events[k][3].commitment
                                            /\ private[k].cleanup = events[k][4].commitment
    BY DEF TablesAgree
  <2>1. AuditOK(k) /\ RetainedOK(k)
    BY <1>1 DEF StoreInv
  <2>2. Kinds(k) = CASE Len(events[k]) = 1 -> Admission
                     [] Len(events[k]) = 2 -> Started
                     [] Len(events[k]) = 3 -> RawCommitted
                     [] Len(events[k]) = 4 -> Cleaned
                     [] Len(events[k]) = 6 -> Signed
    BY <2>1, ListsOfKinds DEF AuditOK
  <2>3. Kinds(k) = CASE stage[k] = "ADMITTED" -> Admission
                     [] stage[k] = "STARTED" -> Started
                     [] stage[k] = "RAW_COMMITTED" -> RawCommitted
                     [] stage[k] = "CLEANED" -> Cleaned
                     [] stage[k] = "TERMINAL" -> Signed
    <3>1. CASE stage[k] = "ADMITTED" /\ Len(events[k]) = 1
      BY <2>2, <3>1
    <3>2. CASE stage[k] = "STARTED" /\ Len(events[k]) = 2
      BY <2>2, <3>2
    <3>3. CASE stage[k] = "RAW_COMMITTED" /\ Len(events[k]) = 3
      BY <2>2, <3>3
    <3>4. CASE stage[k] = "CLEANED" /\ Len(events[k]) = 4
      BY <2>2, <3>4
    <3>5. CASE stage[k] = "TERMINAL" /\ Len(events[k]) = 6
      BY <2>2, <3>5
    <3> QED
      BY <2>1, <3>1, <3>2, <3>3, <3>4, <3>5 DEF AuditOK
  <2> QED
    BY <2>1, <2>3 DEF RetainedOK, Has
<1> QED
  BY StoreIsInvariant, <1>1, PTL

\* No admission, start or commitment of a run ever takes effect twice.
THEOREM CallsTakeEffectOnce == Spec => []CallsSucceedOnce
<1>1. ASSUME StoreInv PROVE CallsSucceedOnce
  BY <1>1 DEF StoreInv, CountsOK, CallsSucceedOnce
<1> QED
  BY StoreIsInvariant, <1>1, PTL

\* No answer anybody was given is ever contradicted by the tables.
THEOREM AnswersAreAlwaysTrue == Spec => []AnswersStayTrue
<1>1. ASSUME StoreInv PROVE AnswersStayTrue
  BY <1>1 DEF StoreInv, AnswersOK, AnswersStayTrue, Has
<1> QED
  BY StoreIsInvariant, <1>1, PTL

-----------------------------------------------------------------------------
(* The audit only grows.                                                   *)

\* A sequence that another one begins with.
LEMMA Beginning ==
  ASSUME NEW s \in Seq(AuditEvents), NEW t \in Seq(AuditEvents),
         Len(s) <= Len(t), \A i \in 1 .. Len(s) : t[i] = s[i]
  PROVE  SubSeq(t, 1, Len(s)) = s
<1>1. Len(s) \in Nat /\ Len(t) \in Nat /\ s \in [1 .. Len(s) -> AuditEvents]
  BY LenProperties
<1>2. \A i \in 1 .. Len(s) : t[i] \in AuditEvents
  BY <1>1
<1>3. /\ SubSeq(t, 1, Len(s)) \in Seq(AuditEvents)
      /\ Len(SubSeq(t, 1, Len(s))) = Len(s)
      /\ \A i \in 1 .. Len(s) : SubSeq(t, 1, Len(s))[i] = t[i]
  BY <1>1, <1>2, SubSeqProperties
<1>4. SubSeq(t, 1, Len(s)) \in [1 .. Len(s) -> AuditEvents]
  BY <1>3, LenProperties
<1> QED
  BY <1>1, <1>3, <1>4

Grows(k) ==
  /\ k \in DOMAIN events'
  /\ Len(events'[k]) >= Len(events[k])
  /\ SubSeq(events'[k], 1, Len(events[k])) = events[k]
  /\ stage'[k] # stage[k] => Len(events'[k]) > Len(events[k])

LEMMA Appended ==
  ASSUME StoreInv, NEW k \in DOMAIN stage, NEW v, events' = [events EXCEPT ![k] = Append(@, v)],
         v \in AuditEvents, \A j \in DOMAIN stage : j # k => stage'[j] = stage[j],
         NEW j \in DOMAIN events
  PROVE  Grows(j)
<1>1. DOMAIN events = DOMAIN stage /\ DOMAIN events' = DOMAIN events /\ events[j] \in Seq(AuditEvents)
  BY DEF StoreInv, TablesOK, AuditOK
<1>2. CASE j = k
  <2>1. /\ events'[j] = Append(events[j], v)
        /\ Append(events[j], v) \in Seq(AuditEvents)
        /\ Len(Append(events[j], v)) = Len(events[j]) + 1
        /\ \A i \in 1 .. Len(events[j]) : Append(events[j], v)[i] = events[j][i]
    BY <1>1, <1>2, AppendProperties
  <2>2. Len(events[j]) \in Nat
    BY <1>1, LenProperties
  <2> QED
    BY <1>1, <2>1, <2>2, Beginning DEF Grows
<1>3. CASE j # k
  BY <1>1, <1>3, Beginning, LenProperties DEF Grows
<1> QED
  BY <1>2, <1>3

LEMMA AuditStep ==
  ASSUME StoreInv, Next, NEW j \in DOMAIN events
  PROVE  Grows(j)
<1>1. DOMAIN events = DOMAIN stage /\ events[j] \in Seq(AuditEvents)
  BY DEF StoreInv, TablesOK, AuditOK
<1>2. CASE j \in DOMAIN events' /\ events'[j] = events[j] /\ stage'[j] = stage[j]
  BY <1>1, <1>2, Beginning, LenProperties DEF Grows
<1>3. ASSUME NEW p \in Profiles, Admit(p) PROVE Grows(j)
  <2>1. j # p.key
    BY <1>1, <1>3 DEF Admit, Has
  <2> QED
    BY <1>1, <1>2, <1>3, <2>1 DEF Admit, Insert
<1>4. ASSUME NEW k \in Keys, Start(k) PROVE Grows(j)
  <2>1. Event("start", "runner", k) \in AuditEvents
    BY SixKinds, EventOfKind DEF Commitments
  <2>2. k \in DOMAIN stage /\ \A i \in DOMAIN stage : i # k => stage'[i] = stage[i]
    BY <1>4 DEF Start, Has
  <2> QED
    BY <1>4, <2>1, <2>2, Appended DEF Start
<1>5. ASSUME NEW k \in Keys, NEW raw \in Raws, CommitRaw(k, raw) PROVE Grows(j)
  <2>1. Event("raw_output_commitment", "runner", raw) \in AuditEvents
    BY SixKinds, EventOfKind DEF Commitments
  <2>2. k \in DOMAIN stage /\ \A i \in DOMAIN stage : i # k => stage'[i] = stage[i]
    BY <1>5 DEF CommitRaw, Has
  <2> QED
    BY <1>5, <2>1, <2>2, Appended DEF CommitRaw
<1>6. ASSUME NEW k \in Keys, NEW cleanup \in Cleanups, CommitCleanup(k, cleanup) PROVE Grows(j)
  <2>1. Event("cleanup", "runner", cleanup) \in AuditEvents
    BY SixKinds, EventOfKind DEF Commitments
  <2>2. k \in DOMAIN stage /\ \A i \in DOMAIN stage : i # k => stage'[i] = stage[i]
    BY <1>6 DEF CommitCleanup, Has
  <2> QED
    BY <1>6, <2>1, <2>2, Appended DEF CommitCleanup
<1>7. ASSUME NEW k \in Keys, NEW result \in Results, CommitTerminal(k, result) PROVE Grows(j)
  <2>1. k \in DOMAIN stage /\ Len(events[k]) = 4 /\ AuditOK(k)
    BY <1>7 DEF CommitTerminal, Has, StoreInv, AuditOK
  <2> DEFINE v == Event("terminal_result", "runner", result.hash)
             w == Event("signature_commitment", "runner", result)
  <2>2. v \in AuditEvents /\ w \in AuditEvents /\ v.kind = Signed[5] /\ w.kind = Signed[6]
    BY SixKinds, EventOfKind DEF Commitments, Event
  <2>3. /\ events' = [events EXCEPT ![k] = @ \o <<v, w>>]
        /\ stage' = [stage EXCEPT ![k] = "TERMINAL"]
    BY <1>7 DEF CommitTerminal, Conclude
  <2> HIDE DEF v, w
  <2>4. CASE j # k
    BY <1>1, <1>2, <2>3, <2>4
  <2>5. CASE j = k
    <3>1. events'[k] = events[k] \o <<v, w>> /\ DOMAIN events' = DOMAIN events
      BY <1>1, <2>1, <2>3
    <3>2. /\ events'[k] \in Seq(AuditEvents) /\ Len(events'[k]) = 6
          /\ \A i \in 1 .. 4 : events'[k][i] = events[k][i]
      BY <2>1, <2>2, <3>1, TwoMoreEvents DEF AuditOK
    <3> QED
      BY <1>1, <2>1, <2>5, <3>1, <3>2, Beginning DEF Grows
  <2> QED
    BY <2>4, <2>5
<1>8. CASE UNCHANGED <<stage, events>>
  BY <1>2, <1>8
<1>9. ASSUME NEW p \in Profiles, AdmitTerminal(p) PROVE UNCHANGED <<stage, events>>
  BY <1>9 DEF AdmitTerminal, tables
<1>10. ASSUME NEW k \in Keys, ReadPrefix(k) \/ ReadTerminal(k) PROVE UNCHANGED <<stage, events>>
  BY <1>10 DEF ReadPrefix, ReadTerminal, tables
<1>11. ASSUME NEW k \in Keys, NEW run, Retain(k, run) \/ RetainReplay(k, run)
       PROVE  UNCHANGED <<stage, events>>
  BY <1>11 DEF Retain, RetainReplay, tables
<1>12. ASSUME NEW k \in Keys, NEW result, CommitReplay(k, result) PROVE UNCHANGED <<stage, events>>
  BY <1>12 DEF CommitReplay, tables
<1> QED
  BY <1>3, <1>4, <1>5, <1>6, <1>7, <1>8, <1>9, <1>10, <1>11, <1>12 DEF Next

\* The audit of a run is extended and never rewritten, and no stage changes
\* without an event.
THEOREM AuditIsAppendOnly == Spec => AuditOnlyGrows
<1>1. ASSUME StoreInv, [Next]_vars
      PROVE  [\A k \in DOMAIN events :
                /\ k \in DOMAIN events'
                /\ Len(events'[k]) >= Len(events[k])
                /\ SubSeq(events'[k], 1, Len(events[k])) = events[k]
                /\ stage'[k] # stage[k] => Len(events'[k]) > Len(events[k]) ]_vars
  BY <1>1, AuditStep DEF Grows
<1> QED
  BY StoreIsInvariant, <1>1, PTL DEF Spec, AuditOnlyGrows

-----------------------------------------------------------------------------
(* The store implements the ledger.                                        *)

\* The six facts of a run, one by one.
LEMMA SixFacts ==
  ASSUME NEW k
  PROVE  /\ k \notin DOMAIN stage => \A i \in 1 .. 6 : Facts(k)[i] = None
         /\ k \in DOMAIN stage =>
              /\ Facts(k)[1] = profiles[k]
              /\ Facts(k)[2] = IF Len(events[k]) >= 2 THEN profiles[k] ELSE None
              /\ Facts(k)[3] = IF Len(events[k]) >= 3 THEN events[k][3].commitment ELSE None
              /\ Facts(k)[4] = IF Len(events[k]) >= 4 THEN events[k][4].commitment ELSE None
              /\ Facts(k)[5] = IF k \in DOMAIN private THEN private[k] ELSE None
              /\ Facts(k)[6] = IF k \in DOMAIN terminal THEN terminal[k] ELSE None
         /\ DOMAIN Facts(k) = 1 .. 6 /\ Facts(k) = [i \in 1 .. 6 |-> Facts(k)[i]]
  BY DEF Facts, Has

\* Facts are values, never None.
LEMMA FactsAreThere ==
  ASSUME StoreInv, NEW k \in DOMAIN stage
  PROVE  /\ profiles[k] # None
         /\ Len(events[k]) >= 3 => events[k][3].commitment # None
         /\ Len(events[k]) >= 4 => events[k][4].commitment # None
         /\ k \in DOMAIN private => private[k] # None
         /\ k \in DOMAIN terminal => terminal[k] # None
<1>1. AuditOK(k) /\ RetainedOK(k)
  BY DEF StoreInv
<1>2. \A r \in Runs : r # None
  BY DocumentsAssumption DEF Runs
<1> QED
  BY <1>1, <1>2, DocumentsAssumption DEF AuditOK, RetainedOK

\* The facts of a run that an action does not touch.
LEMMA SameFacts ==
  ASSUME NEW k, k \in DOMAIN stage' <=> k \in DOMAIN stage,
         k \in DOMAIN stage =>
           /\ profiles'[k] = profiles[k] /\ events'[k] = events[k]
           /\ k \in DOMAIN private' <=> k \in DOMAIN private
           /\ k \in DOMAIN private => private'[k] = private[k]
           /\ k \in DOMAIN terminal' <=> k \in DOMAIN terminal
           /\ k \in DOMAIN terminal => terminal'[k] = terminal[k]
  PROVE  Facts(k)' = Facts(k)
  BY DEF Facts, Has

\* What it takes to establish the next fact.
LEMMA Established ==
  ASSUME NEW k \in Keys, NEW i \in 1 .. 6,
         \A j \in 1 .. 6 : Facts(k)[j] = None <=> j >= i,
         Facts(k)'[i] \in Ledger!Allowed(k, i, Facts(k)),
         \A j \in 1 .. 6 : j # i => Facts(k)'[j] = Facts(k)[j],
         \A h \in Keys : h # k => Facts(h)' = Facts(h)
  PROVE  Ledger!Next
<1> DEFINE L == [h \in Keys |-> Facts(h)]
<1>1. L[k] = Facts(k)
  OBVIOUS
<1>2. Facts(k)' = [Facts(k) EXCEPT ![i] = Facts(k)'[i]]
  <2>1. Facts(k)' = [j \in 1 .. 6 |-> Facts(k)'[j]]
    BY DEF Facts
  <2>2. DOMAIN Facts(k) = 1 .. 6
    BY DEF Facts
  <2> QED
    BY <2>1, <2>2
<1>3. L' = [L EXCEPT ![k] = Facts(k)']
  OBVIOUS
<1>4. L' = [L EXCEPT ![k][i] = Facts(k)'[i]]
  BY <1>1, <1>2, <1>3
<1>5. Ledger!Establish(k, i)
  BY <1>1, <1>4 DEF Ledger!Establish, Ledger!Steps
<1> QED
  BY <1>5 DEF Ledger!Next, Ledger!Steps

\* Each of the six calls establishes one fact.
LEMMA AdmitEstablishes ==
  ASSUME StoreInv, NEW p \in Profiles, Admit(p) PROVE Ledger!Next
<1> DEFINE k == p.key
<1>1. k \in Keys /\ k \notin DOMAIN stage /\ k \notin DOMAIN private /\ k \notin DOMAIN terminal
  BY DocumentsAssumption DEF Admit, Has, StoreInv, TablesOK
<1>2. /\ k \in DOMAIN stage' /\ profiles'[k] = p /\ Len(events'[k]) = 1
      /\ UNCHANGED <<private, terminal>>
  BY DEF Admit, Insert
<1>3. \A h \in Keys : h # k => Facts(h)' = Facts(h)
  <2> TAKE h \in Keys
  <2> HAVE h # k
  <2>1. h \in DOMAIN stage' <=> h \in DOMAIN stage
    BY DEF Admit, Insert
  <2>2. h \in DOMAIN stage => profiles'[h] = profiles[h] /\ events'[h] = events[h]
    BY DEF Admit, Insert, StoreInv, TablesOK
  <2> QED
    BY <1>2, <2>1, <2>2, SameFacts
<1>4. \A j \in 1 .. 6 : Facts(k)[j] = None
  BY <1>1, SixFacts
<1>5. Facts(k)'[1] = p /\ \A j \in 2 .. 6 : Facts(k)'[j] = None
  BY <1>1, <1>2 DEF Facts, Has
<1>6. p \in Ledger!Allowed(k, 1, Facts(k))
  BY DEF Ledger!Allowed
<1> HIDE DEF k
<1> QED
  BY <1>1, <1>3, <1>4, <1>5, <1>6, Established

\* A run has the facts up to its last event, then its private run and result.
LEMMA FactsSoFar ==
  ASSUME StoreInv, NEW k \in DOMAIN stage, k \notin DOMAIN terminal, NEW n \in 1 .. 5,
         k \in DOMAIN private => n = 5,
         k \notin DOMAIN private => n = Len(events[k])
  PROVE  \A j \in 1 .. 6 : Facts(k)[j] = None <=> j >= n + 1
<1>1. AuditOK(k) /\ RetainedOK(k)
  BY DEF StoreInv
<1>2. /\ Len(events[k]) \in 1 .. 4
      /\ k \in DOMAIN private => Len(events[k]) = 4
  BY <1>1 DEF AuditOK, RetainedOK
<1>3. Facts(k)[1] # None
  BY SixFacts, FactsAreThere
<1>4. Facts(k)[2] = None <=> Len(events[k]) < 2
  BY <1>2, SixFacts, FactsAreThere
<1>5. Facts(k)[3] = None <=> Len(events[k]) < 3
  BY <1>2, SixFacts, FactsAreThere
<1>6. Facts(k)[4] = None <=> Len(events[k]) < 4
  BY <1>2, SixFacts, FactsAreThere
<1>7. Facts(k)[5] = None <=> k \notin DOMAIN private
  BY SixFacts, FactsAreThere
<1>8. Facts(k)[6] = None
  BY SixFacts
<1> TAKE j \in 1 .. 6
<1>9. j = 1 \/ j = 2 \/ j = 3 \/ j = 4 \/ j = 5 \/ j = 6
  OBVIOUS
<1>10. CASE k \in DOMAIN private
  BY <1>2, <1>3, <1>4, <1>5, <1>6, <1>7, <1>8, <1>9, <1>10
<1>11. CASE k \notin DOMAIN private
  <2> HIDE DEF Facts
  <2>1. Len(events[k]) = n
    BY <1>11
  <2>2. n \in 1 .. 4
    BY <1>2, <2>1
  <2> QED
    BY <2>1, <2>2, <1>3, <1>4, <1>5, <1>6, <1>7, <1>8, <1>9, <1>11
<1> QED
  BY <1>10, <1>11

\* A commitment establishes the fact of its ordinal.
LEMMA CommitmentEstablishes ==
  ASSUME StoreInv, NEW k \in DOMAIN stage, NEW n \in 1 .. 3, Len(events[k]) = n,
         k \notin DOMAIN private, NEW v \in AuditEvents,
         DOMAIN stage' = DOMAIN stage, DOMAIN events' = DOMAIN stage,
         events'[k] = Append(events[k], v),
         \A j \in DOMAIN stage : j # k => events'[j] = events[j],
         UNCHANGED <<profiles, private, terminal>>,
         n = 2 => v.commitment \in Raws, n = 3 => v.commitment \in Cleanups
  PROVE  Ledger!Next
<1>1. k \in Keys /\ AuditOK(k) /\ RetainedOK(k)
  BY DEF StoreInv, TablesOK
<1>2. /\ Len(events'[k]) = n + 1 /\ events'[k][n + 1] = v
      /\ \A i \in 1 .. n : events'[k][i] = events[k][i]
  <2>1. events[k] \in Seq(AuditEvents)
    BY <1>1 DEF AuditOK
  <2> QED
    BY <2>1, AppendProperties
<1>3. \A j \in 1 .. 6 : Facts(k)[j] = None <=> j >= n + 1
  <2>1. k \notin DOMAIN terminal
    BY <1>1 DEF RetainedOK
  <2>2. n \in 1 .. 5
    OBVIOUS
  <2> QED
    BY <2>1, <2>2, FactsSoFar
<1>4. \A h \in Keys : h # k => Facts(h)' = Facts(h)
  BY SameFacts
<1>5. k \in DOMAIN stage' /\ k \notin DOMAIN terminal
  BY <1>1, FactsAreThere, SixFacts, <1>3
<1>6. /\ Facts(k)'[1] = profiles[k]
      /\ Facts(k)'[2] = profiles[k]
      /\ Facts(k)'[3] = IF n + 1 >= 3 THEN events'[k][3].commitment ELSE None
      /\ Facts(k)'[4] = IF n + 1 >= 4 THEN events'[k][4].commitment ELSE None
      /\ Facts(k)'[5] = None /\ Facts(k)'[6] = None
  BY <1>2, <1>5 DEF Facts, Has
<1>7. \A j \in 1 .. 6 : j # n + 1 => Facts(k)'[j] = Facts(k)[j]
  BY <1>2, <1>5, <1>6, SixFacts
<1>8. Facts(k)'[n + 1] \in Ledger!Allowed(k, n + 1, Facts(k))
  <2>1. CASE n = 1
    BY <1>6, <2>1, SixFacts DEF Ledger!Allowed
  <2>2. CASE n = 2
    BY <1>2, <1>6, <2>2 DEF Ledger!Allowed
  <2>3. CASE n = 3
    BY <1>2, <1>6, <2>3 DEF Ledger!Allowed
  <2> QED
    BY <2>1, <2>2, <2>3
<1> QED
  BY <1>1, <1>3, <1>4, <1>7, <1>8, Established

LEMMA RetainEstablishes ==
  ASSUME StoreInv, NEW k \in Keys, NEW run \in PrivateRuns(k), Retain(k, run) PROVE Ledger!Next
<1>1. /\ k \in DOMAIN stage /\ stage[k] = "CLEANED" /\ k \notin DOMAIN private
      /\ AuditOK(k) /\ RetainedOK(k)
  BY DEF Retain, Has, StoreInv
<1>2. Len(events[k]) = 4 /\ k \notin DOMAIN terminal
  BY <1>1 DEF AuditOK, RetainedOK
<1>3. \A j \in 1 .. 6 : Facts(k)[j] = None <=> j >= 5
  <2>1. \A j \in 1 .. 6 : Facts(k)[j] = None <=> j >= 4 + 1
    BY <1>1, <1>2, FactsSoFar
  <2> QED
    BY <2>1
<1>4. /\ DOMAIN private' = DOMAIN private \cup {k} /\ private'[k] = run
      /\ \A j \in DOMAIN private : private'[j] = private[j]
      /\ UNCHANGED <<profiles, stage, events, terminal>>
  BY <1>1 DEF Retain, Insert
<1>5. \A h \in Keys : h # k => Facts(h)' = Facts(h)
  BY <1>4, SameFacts
<1>6. Facts(k)'[5] = run /\ \A j \in 1 .. 6 : j # 5 => Facts(k)'[j] = Facts(k)[j]
  BY <1>1, <1>4 DEF Facts, Has
<1>7. Facts(k)[3] = events[k][3].commitment /\ Facts(k)[4] = events[k][4].commitment
  BY <1>1, <1>2, SixFacts
<1>8. run \in [key : {k}, raw : {Facts(k)[3]}, cleanup : {Facts(k)[4]}, body : Bodies]
  <2>1. /\ run \in Runs /\ run.key = k
        /\ run.raw = events[k][3].commitment
        /\ run.cleanup = events[k][4].commitment
    BY <1>1, PrivateRunsRepeat
  <2> QED
    BY <1>7, <2>1 DEF Runs
<1>9. Facts(k)'[5] \in Ledger!Allowed(k, 5, Facts(k))
  BY <1>6, <1>8 DEF Ledger!Allowed
<1> QED
  BY <1>3, <1>5, <1>6, <1>9, Established

LEMMA TerminalEstablishes ==
  ASSUME StoreInv, NEW k \in Keys, NEW result \in Results, result.key = k, CommitTerminal(k, result)
  PROVE  Ledger!Next
<1>1. /\ k \in DOMAIN stage /\ stage[k] = "CLEANED" /\ k \in DOMAIN private
      /\ AuditOK(k) /\ RetainedOK(k)
  BY DEF CommitTerminal, Has, StoreInv
<1>2. Len(events[k]) = 4 /\ events[k] \in Seq(AuditEvents) /\ k \notin DOMAIN terminal
  BY <1>1 DEF AuditOK, RetainedOK
<1>3. \A j \in 1 .. 6 : Facts(k)[j] = None <=> j >= 6
  <2>1. \A j \in 1 .. 6 : Facts(k)[j] = None <=> j >= 5 + 1
    BY <1>1, <1>2, FactsSoFar
  <2> QED
    BY <2>1
<1>4. /\ DOMAIN terminal' = DOMAIN terminal \cup {k} /\ terminal'[k] = result
      /\ \A j \in DOMAIN terminal : terminal'[j] = terminal[j]
      /\ DOMAIN stage' = DOMAIN stage
      /\ \A j \in DOMAIN events : j # k => events'[j] = events[j]
      /\ UNCHANGED <<profiles, private>>
  BY <1>1, <1>2 DEF CommitTerminal, Conclude, Insert
<1>5. Len(events'[k]) = 6 /\ \A i \in 1 .. 4 : events'[k][i] = events[k][i]
  <2> DEFINE v == Event("terminal_result", "runner", result.hash)
             w == Event("signature_commitment", "runner", result)
  <2>1. v \in AuditEvents /\ w \in AuditEvents /\ v.kind = Signed[5] /\ w.kind = Signed[6]
    BY SixKinds, EventOfKind DEF Commitments, Event
  <2>2. events'[k] = events[k] \o <<v, w>>
    BY <1>1 DEF CommitTerminal, Conclude, StoreInv, TablesOK
  <2> HIDE DEF v, w
  <2>3. \A i \in 1 .. 4 : events[k][i].kind = Signed[i]
    BY <1>1, <1>2 DEF AuditOK
  <2> QED
    BY <1>2, <2>1, <2>2, <2>3, TwoMoreEvents
<1>6. \A h \in Keys : h # k => Facts(h)' = Facts(h)
  <2>1. DOMAIN events = DOMAIN stage
    BY DEF StoreInv, TablesOK
  <2> QED
    BY <1>4, <2>1, SameFacts
<1>7. Facts(k)'[6] = result /\ \A j \in 1 .. 6 : j # 6 => Facts(k)'[j] = Facts(k)[j]
  BY <1>1, <1>2, <1>4, <1>5 DEF Facts, Has
<1>8. Facts(k)'[6] \in Ledger!Allowed(k, 6, Facts(k))
  BY <1>7 DEF Ledger!Allowed
<1> QED
  BY <1>3, <1>6, <1>7, <1>8, Established

LEMMA LedgerStep == ASSUME StoreInv, Next PROVE [Ledger!Next]_([k \in Keys |-> Facts(k)])
<1> DEFINE L == [k \in Keys |-> Facts(k)]
<1>1. CASE UNCHANGED tables
  <2>1. \A k \in Keys : Facts(k)' = Facts(k)
    BY <1>1, SameFacts DEF tables
  <2> QED
    BY <2>1
<1>2. ASSUME NEW p \in Profiles, Admit(p) PROVE Ledger!Next
  BY <1>2, AdmitEstablishes
<1>3. ASSUME NEW k \in Keys, Start(k) PROVE Ledger!Next
  <2>1. k \in DOMAIN stage /\ AuditOK(k) /\ RetainedOK(k) /\ stage[k] = "ADMITTED"
    BY <1>3 DEF Start, Has, StoreInv
  <2>2. k \notin DOMAIN private /\ Len(events[k]) = 1
    BY <2>1 DEF AuditOK, RetainedOK
  <2>3. Event("start", "runner", k) \in AuditEvents
    BY SixKinds, EventOfKind DEF Commitments
  <2>4. /\ DOMAIN stage' = DOMAIN stage /\ DOMAIN events' = DOMAIN stage
        /\ events'[k] = Append(events[k], Event("start", "runner", k))
        /\ \A j \in DOMAIN stage : j # k => events'[j] = events[j]
        /\ UNCHANGED <<profiles, private, terminal>>
    BY <1>3, <2>1 DEF Start, StoreInv, TablesOK
  <2> QED
    BY <2>1, <2>2, <2>3, <2>4, CommitmentEstablishes
<1>4. ASSUME NEW k \in Keys, NEW raw \in Raws, CommitRaw(k, raw) PROVE Ledger!Next
  <2>1. k \in DOMAIN stage /\ AuditOK(k) /\ RetainedOK(k) /\ stage[k] = "STARTED"
    BY <1>4 DEF CommitRaw, Has, StoreInv
  <2>2. k \notin DOMAIN private /\ Len(events[k]) = 2
    BY <2>1 DEF AuditOK, RetainedOK
  <2> DEFINE v == Event("raw_output_commitment", "runner", raw)
  <2>3. v \in AuditEvents /\ v.commitment \in Raws
    BY SixKinds, EventOfKind DEF Commitments
  <2>4. /\ DOMAIN stage' = DOMAIN stage /\ DOMAIN events' = DOMAIN stage
        /\ events'[k] = Append(events[k], v)
        /\ \A j \in DOMAIN stage : j # k => events'[j] = events[j]
        /\ UNCHANGED <<profiles, private, terminal>>
    BY <1>4, <2>1 DEF CommitRaw, StoreInv, TablesOK
  <2> HIDE DEF v
  <2> QED
    BY <2>1, <2>2, <2>3, <2>4, CommitmentEstablishes
<1>5. ASSUME NEW k \in Keys, NEW cleanup \in Cleanups, CommitCleanup(k, cleanup) PROVE Ledger!Next
  <2>1. k \in DOMAIN stage /\ AuditOK(k) /\ RetainedOK(k) /\ stage[k] = "RAW_COMMITTED"
    BY <1>5 DEF CommitCleanup, Has, StoreInv
  <2>2. k \notin DOMAIN private /\ Len(events[k]) = 3
    BY <2>1 DEF AuditOK, RetainedOK
  <2> DEFINE v == Event("cleanup", "runner", cleanup)
  <2>3. v \in AuditEvents /\ v.commitment \in Cleanups
    BY SixKinds, EventOfKind DEF Commitments
  <2>4. /\ DOMAIN stage' = DOMAIN stage /\ DOMAIN events' = DOMAIN stage
        /\ events'[k] = Append(events[k], v)
        /\ \A j \in DOMAIN stage : j # k => events'[j] = events[j]
        /\ UNCHANGED <<profiles, private, terminal>>
    BY <1>5, <2>1 DEF CommitCleanup, StoreInv, TablesOK
  <2> HIDE DEF v
  <2> QED
    BY <2>1, <2>2, <2>3, <2>4, CommitmentEstablishes
<1>6. ASSUME NEW k \in Keys, NEW run \in PrivateRuns(k), Retain(k, run) PROVE Ledger!Next
  BY <1>6, RetainEstablishes
<1>7. ASSUME NEW k \in Keys, NEW result \in Results, result.key = k, CommitTerminal(k, result)
      PROVE  Ledger!Next
  BY <1>7, TerminalEstablishes
<1>8. ASSUME NEW p \in Profiles, AdmitTerminal(p) PROVE UNCHANGED tables
  BY <1>8 DEF AdmitTerminal
<1>9. ASSUME NEW k \in Keys, ReadPrefix(k) \/ ReadTerminal(k) PROVE UNCHANGED tables
  BY <1>9 DEF ReadPrefix, ReadTerminal
<1>10. ASSUME NEW k \in Keys, NEW run, RetainReplay(k, run) PROVE UNCHANGED tables
  BY <1>10 DEF RetainReplay
<1>11. ASSUME NEW k \in Keys, NEW result, CommitReplay(k, result) PROVE UNCHANGED tables
  BY <1>11 DEF CommitReplay
<1> QED
  BY <1>1, <1>2, <1>3, <1>4, <1>5, <1>6, <1>7, <1>8, <1>9, <1>10, <1>11 DEF Next

\* Every behavior of the store, with any callers, aborts, repetitions and
\* lost answers, is one of the ledger.
THEOREM StoreImplementsLedger == Spec => ImplementsLedger
<1>1. Init => Ledger!Init
  <2> SUFFICES ASSUME Init PROVE Ledger!Init
    OBVIOUS
  <2>1. ASSUME NEW k \in Keys PROVE Facts(k) = [i \in 1 .. 6 |-> None]
    BY SixFacts DEF Init
  <2> QED
    BY <2>1 DEF Ledger!Init, Ledger!Steps
<1>2. ASSUME StoreInv, [Next]_vars PROVE [Ledger!Next]_([k \in Keys |-> Facts(k)])
  <2>1. CASE UNCHANGED vars
    <3>1. UNCHANGED tables
      BY <2>1 DEF vars
    <3>2. \A k \in Keys : Facts(k)' = Facts(k)
      BY <3>1, SameFacts DEF tables
    <3> QED
      BY <3>2
  <2> QED
    BY <1>2, <2>1, LedgerStep
<1> QED
  BY StoreIsInvariant, <1>1, <1>2, PTL DEF Spec, ImplementsLedger, Ledger!Spec
=============================================================================
