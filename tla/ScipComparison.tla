--------------------------- MODULE ScipComparison ---------------------------
(***************************************************************************)
(* compare_scip_admissions over two admissions of one store, and what      *)
(* compute_scip_impact makes of the difference: seed subjects, or a        *)
(* refusal because the change leaves the contract.  The seeds are those of *)
(* ImpactClosure, whose differences are here taken of real admissions.     *)
(***************************************************************************)
EXTENDS ScipAdmission

CONSTANT SubjectIds  \* all subjects of all contracts

ASSUME SubjectsAssumption == \A c \in ContractDocuments : DOMAIN c.subjects \subseteq SubjectIds

VARIABLE impact  \* what the computation says, and the seed subjects

comparisonVars == <<admissions, impact>>

Before == admissions[1]
After == admissions[2]

\* The parts of a snapshot.  Rows carry no ordinal and no hash of the whole.
DocumentRows(a) ==
  {[path |-> d.path, language |-> d.language, source |-> a.index.inputs[d.path]] :
     d \in {a.index.documents[i] : i \in DOMAIN a.index.documents}}

SymbolRow(m, x) ==
  [key |-> KeyAt(m, x), path |-> PathAt(m, x), information |-> SymbolAt(m, x).information]

SymbolRowsOf(a) == {SymbolRow(a.index, x) : x \in SymbolRows(a.index)}

RelationRows(a) ==
  UNION {{[key |-> KeyAt(a.index, x), target |-> r.target, kinds |-> r.kinds] :
            r \in SymbolAt(a.index, x).relations} : x \in SymbolRows(a.index)}

OccurrenceRow(o) ==
  [path |-> o.path, symbol |-> o.symbol, definition |-> o.definition, range |-> o.range,
   enclosing |-> o.enclosing]

OccurrenceRows(a) == {OccurrenceRow(o) : o \in Occurrences(a.index)}

\* Rows grouped under a key are compared as sorted lists: how often each
\* row occurs, not where.
HowOften(a, row) == Cardinality({o \in Occurrences(a.index) : OccurrenceRow(o) = row})

BindingRows(a) ==
  {[subject |-> s, binding |-> Binding(a.index, a.contract, s)] : s \in Bound(a.contract)}

\* _changed_keys over rows that are unique under their key.
Changed(before, after) == (before \ after) \cup (after \ before)

ChangedInputs ==
  {p \in DOMAIN Before.index.inputs \cup DOMAIN After.index.inputs :
     ~(p \in DOMAIN Before.index.inputs /\ p \in DOMAIN After.index.inputs
       /\ Before.index.inputs[p] = After.index.inputs[p])}

ChangedDocuments == {r.path : r \in Changed(DocumentRows(Before), DocumentRows(After))}

ChangedSymbols == {r.key : r \in Changed(SymbolRowsOf(Before), SymbolRowsOf(After))}

ChangedRelationSourcesBefore ==  \* fault: rows that are new are not looked at
  {r.key : r \in RelationRows(Before) \ RelationRows(After)}

ChangedRelationSources == {r.key : r \in Changed(RelationRows(Before), RelationRows(After))}

ChangedOccurrencePaths ==
  {r.path : r \in {row \in OccurrenceRows(Before) \cup OccurrenceRows(After) :
                     HowOften(Before, row) # HowOften(After, row)}}

ChangedSubjects == {r.subject : r \in Changed(BindingRows(Before), BindingRows(After))}

\* Another contract, or another indexer: only its output may differ.
Amended == Before.contract # After.contract \/ Before.index.indexer # After.index.indexer

BytesChanged == Before.index.documents # After.index.documents

\* What _seed_subjects makes of the difference, in the terms of ImpactClosure.
Delta ==
  [subjects |-> ChangedSubjects,
   places |-> {<<p>> : p \in ChangedInputs \cup ChangedDocuments \cup ChangedOccurrencePaths}
                \cup ChangedSymbols \cup ChangedRelationSources,
   amended |-> Amended,
   opaque |-> BytesChanged \/ Before.index.output # After.index.output]

Places(c) ==
  [s \in SubjectIds |->
     {<<c.subjects[t].path>> : t \in {s} \cap Frozen(c)}
       \cup {<<Absent, c.subjects[t].symbol>> : t \in {s} \cap Bound(c)}]

Impact ==
  INSTANCE ImpactClosure WITH
    Subjects <- SubjectIds, contract <- [places |-> Places(Before.contract)],
    delta <- Delta, Obligations <- {}, WorkItems <- {}, Contracts <- {}, Deltas <- {}, None <- Absent,
    phase <- "load", todo <- {}, changed <- FALSE, subjects <- {}, obligations <- {}, works <- {}

-----------------------------------------------------------------------------
ComparisonInit == AdmitInit /\ impact = [state |-> "none", seeds |-> {}]

AdmitNext(m, c) == Admit(m, c) /\ UNCHANGED impact

Compute ==
  /\ Len(admissions) = 2 /\ impact.state = "none"
  /\ impact' = IF Impact!Mapped THEN [state |-> "mapped", seeds |-> Impact!Seeds]
                                ELSE [state |-> "rejected", seeds |-> {}]
  /\ UNCHANGED admissions

ComparisonNext == Compute \/ \E m \in Messages, c \in ContractDocuments : AdmitNext(m, c)

ComparisonSpec == ComparisonInit /\ [][ComparisonNext]_comparisonVars

-----------------------------------------------------------------------------
(* Properties.                                                             *)

\* What an admission says about a subject: where it is and of which bytes, how
\* it is described and related, and which edges leave it.
Structure(a, s) ==
  [binding |-> Binding(a.index, a.contract, s),
   edges |-> {e \in Observed(a.index, a.contract) : e[1] = s},
   rows |-> {SymbolRow(a.index, x) : x \in Information(a.index, a.contract, s)},
   relations |-> UNION {SymbolAt(a.index, x).relations : x \in Information(a.index, a.contract, s)}]

\* What it says about everything else.
Remainder(a) ==
  LET own == {<<Absent, a.contract.subjects[s].symbol>> : s \in Bound(a.contract)}
      places == {a.contract.subjects[s].path : s \in Frozen(a.contract)}
  IN [symbols |-> {r \in SymbolRowsOf(a) : r.key \notin own},
      relations |-> {r \in RelationRows(a) : r.key \notin own},
      inputs |-> {<<p, a.index.inputs[p]>> : p \in DOMAIN a.index.inputs \ places},
      documents |-> {r \in DocumentRows(a) : r.path \notin places}]

\* An accepted difference hides no change: a subject that is not seeded is as
\* it was, and what belongs to no subject is as it was in any case.
NoChangeIsUnseen ==
  impact.state = "mapped" =>
    /\ \A s \in Bound(Before.contract) \ impact.seeds : Structure(Before, s) = Structure(After, s)
    /\ Remainder(Before) = Remainder(After)
    /\ Before.contract = After.contract
=============================================================================
