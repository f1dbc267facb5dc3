---------------------------- MODULE ScipAdmission ----------------------------
(***************************************************************************)
(* From a decoded SCIP index and a contract to an admission:               *)
(* _validate_scip_message, the contract's source-index policy and          *)
(* verify_contract_subjects.  Each collects errors and refuses at its end  *)
(* if there is one, so each is the conjunction of what it asks.  An        *)
(* admission binds every frozen subject to one definition and finds, in a  *)
(* closed world, exactly the declared edges between subjects.              *)
(***************************************************************************)
EXTENDS Integers, Sequences, FiniteSets

CONSTANTS
  Locals,     \* symbols of one document ("local ...")
  Messages,   \* decoded indexes with what the indexer ran on
  ContractDocuments,  \* contract documents
  Tool,       \* the expected producer
  Absent

IsList(s) == Len(s) \in Nat /\ DOMAIN s = 1 .. Len(s)

\* A decoded message consists of lists.  Positions in a source file are in
\* their order, numbered; a range is a pair.
ASSUME MessagesAssumption ==
  \A m \in Messages :
    /\ IsList(m.documents) /\ IsList(m.externals)
    /\ \A k \in DOMAIN m.externals :
         \A r \in m.externals[k].relations : r = [target |-> r.target, kinds |-> r.kinds]
    /\ \A i \in DOMAIN m.documents :
         LET d == m.documents[i]
         IN /\ d.length \in Nat
            /\ IsList(d.symbols) /\ IsList(d.occurrences)
            /\ \A k \in DOMAIN d.symbols :
                 \A r \in d.symbols[k].relations : r = [target |-> r.target, kinds |-> r.kinds]
            /\ \A j \in DOMAIN d.occurrences :
                 LET o == d.occurrences[j]
                 IN o.range \in Int \X Int /\ (o.enclosing = Absent \/ o.enclosing \in Int \X Int)

ASSUME ContractsAreFinite == \A c \in ContractDocuments : IsFiniteSet(DOMAIN c.subjects)

-----------------------------------------------------------------------------
(* _validate_scip_message                                                  *)

\* _symbol_key: a local symbol is one of its document.
Key(symbol, path) == <<IF symbol \in Locals THEN path ELSE Absent, symbol>>

InDocument(r, length) == 0 <= r[1] /\ r[1] <= r[2] /\ r[2] <= length

Contains(r, q) == r[1] <= q[1] /\ q[2] <= r[2]

\* The SymbolInformation rows, by document (0: external) and position.
SymbolAt(m, x) == IF x[1] = 0 THEN m.externals[x[2]] ELSE m.documents[x[1]].symbols[x[2]]
PathAt(m, x) == IF x[1] = 0 THEN Absent ELSE m.documents[x[1]].path
KeyAt(m, x) == Key(SymbolAt(m, x).symbol, PathAt(m, x))

SymbolRows(m) ==
  {0} \X DOMAIN m.externals
    \cup UNION {{i} \X DOMAIN m.documents[i].symbols : i \in DOMAIN m.documents}

\* The occurrences, each with the document it stands in.
Occurrences(m) ==
  UNION {{[path |-> d.path, at |-> j, symbol |-> d.occurrences[j].symbol,
           definition |-> d.occurrences[j].definition, range |-> d.occurrences[j].range,
           enclosing |-> d.occurrences[j].enclosing] : j \in DOMAIN d.occurrences} :
           d \in {m.documents[i] : i \in DOMAIN m.documents}}

OccurrenceValid(d, o) ==
  /\ InDocument(o.range, d.length)
  /\ o.enclosing # Absent => InDocument(o.enclosing, d.length) /\ Contains(o.enclosing, o.range)
  /\ o.symbol = Absent => ~o.definition

DocumentsValid(m) ==
  /\ m.documents # <<>>
  /\ \A i, j \in DOMAIN m.documents : m.documents[i].path = m.documents[j].path => i = j
  /\ \A i \in DOMAIN m.documents :
       \A j \in DOMAIN m.documents[i].occurrences :
         OccurrenceValid(m.documents[i], m.documents[i].occurrences[j])

SymbolsValid(m) ==
  /\ \A x, y \in SymbolRows(m) : KeyAt(m, x) = KeyAt(m, y) => x = y
  /\ \A x \in SymbolRows(m) :
       /\ x[1] = 0 => SymbolAt(m, x).symbol \notin Locals
       /\ \A r \in SymbolAt(m, x).relations :
            r.kinds # {} /\ (x[1] = 0 => r.target \notin Locals)

ResolvedAnywhere(m, o) ==  \* fault: the information may stand in another document
  {x \in SymbolRows(m) : KeyAt(m, x) = Key(o.symbol, o.path)}

Resolved(m, o) ==
  {x \in SymbolRows(m) : KeyAt(m, x) = Key(o.symbol, o.path) /\ PathAt(m, x) = o.path}

DefinitionsResolve(m) ==
  \A o \in Occurrences(m) : o.definition => Cardinality(Resolved(m, o)) = 1

IndexValid(m) ==
  m.tool = Tool /\ DocumentsValid(m) /\ SymbolsValid(m) /\ DefinitionsResolve(m)

-----------------------------------------------------------------------------
(* The contract: its source-index policy and its subjects.                 *)

RelationshipKinds ==
  {"relationship_reference", "implementation", "type_definition", "definition"}

\* _parse_source_index_policy, and the scope that the admission compares.
PolicyValid(c, m) ==
  /\ c.indexed # {} /\ c.indexed \subseteq c.inputs
  /\ c.indexed = {m.documents[i].path : i \in DOMAIN m.documents}
  /\ c.inputs = DOMAIN m.inputs

Frozen(c) == DOMAIN c.subjects
Bound(c) == {s \in Frozen(c) : c.subjects[s].family = "scip"}

Definitions(m, c, s) ==
  {o \in Occurrences(m) :
     o.path = c.subjects[s].path /\ o.symbol = c.subjects[s].symbol /\ o.definition}

Information(m, c, s) ==
  {x \in SymbolRows(m) :
     SymbolAt(m, x).symbol = c.subjects[s].symbol /\ PathAt(m, x) = c.subjects[s].path}

SubjectResolves(m, c, s) ==
  LET subject == c.subjects[s]
  IN /\ subject.symbol \notin Locals
     /\ \E i \in DOMAIN m.documents :
          m.documents[i].path = subject.path /\ m.documents[i].language = subject.language
     /\ Cardinality(Definitions(m, c, s)) = 1
     /\ Cardinality(Information(m, c, s)) = 1

Definition(m, c, s) == CHOOSE o \in Definitions(m, c, s) : TRUE

Enclosing(m, c, s) == Definition(m, c, s).enclosing

Binding(m, c, s) ==
  [symbol |-> c.subjects[s].symbol, path |-> c.subjects[s].path,
   range |-> Definition(m, c, s).range, enclosing |-> Enclosing(m, c, s),
   source |-> m.inputs[c.subjects[s].path]]

BindingsValid(m, c) ==
  /\ \A s \in Frozen(c) : c.subjects[s].family \in {"scip", "managed_artifact"}
  /\ \A s \in Bound(c) : SubjectResolves(m, c, s) /\ c.subjects[s].path \in c.indexed
  /\ \A s \in Frozen(c) \ Bound(c) : c.subjects[s].path \notin c.indexed
  /\ \A s, t \in Bound(c) :
       c.subjects[s].path = c.subjects[t].path /\ c.subjects[s].symbol = c.subjects[t].symbol
         => s = t
  /\ Bound(c) # {}
  /\ Cardinality(Bound(c)) > 1 => \A s \in Bound(c) : Enclosing(m, c, s) # Absent

-----------------------------------------------------------------------------
(* Edges between subjects: the declared and the observed ones.             *)

Declared(c) ==
  UNION {{<<s, r.kind, r.target>> : r \in c.subjects[s].relationships} : s \in Bound(c)}

Required(c) ==
  UNION {{<<s, r.kind, r.target>> : r \in {q \in c.subjects[s].relationships : q.required}} :
           s \in Bound(c)}

DeclarationsValid(c) ==
  \A s \in Bound(c) :
    /\ \A r \in c.subjects[s].relationships :
         r.kind \in RelationshipKinds \cup {"reference"} /\ r.target \in Bound(c)
    /\ \A r, q \in c.subjects[s].relationships : r.kind = q.kind /\ r.target = q.target => r = q

References(m, c) ==
  {o \in Occurrences(m) :
     ~o.definition /\ \E t \in Bound(c) : c.subjects[t].symbol = o.symbol}

\* The subjects whose definition surrounds an occurrence, and those among
\* them that surround no other of them.
Candidates(m, c, o) ==
  {s \in Bound(c) :
     /\ c.subjects[s].path = o.path
     /\ Enclosing(m, c, s) # Absent
     /\ Contains(Enclosing(m, c, s), o.range)}

MinimalBySize(m, c, o) ==  \* fault: the shortest range is the innermost
  {s \in Candidates(m, c, o) :
     \A t \in Candidates(m, c, o) :
       Enclosing(m, c, s)[2] - Enclosing(m, c, s)[1]
         <= Enclosing(m, c, t)[2] - Enclosing(m, c, t)[1]}

Minimal(m, c, o) ==
  {s \in Candidates(m, c, o) :
     ~\E t \in Candidates(m, c, o) :
        /\ Enclosing(m, c, t) # Enclosing(m, c, s)
        /\ Contains(Enclosing(m, c, s), Enclosing(m, c, t))}

ObservedReferences(m, c) ==
  UNION {{<<s, "reference", t>> :
            s \in Minimal(m, c, o), t \in {u \in Bound(c) : c.subjects[u].symbol = o.symbol}} :
            o \in References(m, c)}

ObservedRelationships(m, c) ==
  {e \in Bound(c) \X RelationshipKinds \X Bound(c) :
     \E x \in Information(m, c, e[1]) :
       \E r \in SymbolAt(m, x).relations :
         e[2] \in r.kinds /\ Key(r.target, PathAt(m, x)) = <<Absent, c.subjects[e[3]].symbol>>}

Observed(m, c) == ObservedReferences(m, c) \cup ObservedRelationships(m, c)

EdgesValid(m, c) ==
  /\ \A o \in References(m, c) : Cardinality(Minimal(m, c, o)) <= 1
  /\ Required(c) \subseteq Observed(m, c)
  /\ Observed(m, c) \subseteq Declared(c)

SubjectsVerified(m, c) == BindingsValid(m, c) /\ DeclarationsValid(c) /\ EdgesValid(m, c)

MayBeAdmitted(m, c) == IndexValid(m) /\ PolicyValid(c, m) /\ SubjectsVerified(m, c)

-----------------------------------------------------------------------------
(* The store: the last admission and the one before it.                    *)

VARIABLE admissions

Admission(m, c) == [index |-> m, contract |-> c]

AdmitInit == admissions = <<>>

\* Whatever is refused leaves the store as it was.
Admit(m, c) ==
  /\ Len(admissions) < 2
  /\ MayBeAdmitted(m, c)
  /\ admissions' = Append(admissions, Admission(m, c))

-----------------------------------------------------------------------------
(* Properties.                                                             *)

Admitted == {admissions[i] : i \in DOMAIN admissions}

\* s is the innermost subject around o: inside every other one around it.
Innermost(m, c, o, s) ==
  /\ s \in Candidates(m, c, o)
  /\ \A t \in Candidates(m, c, o) : Contains(Enclosing(m, c, t), Enclosing(m, c, s))

\* The closed world of verify_contract_subjects: wherever the admitted code of
\* a subject mentions another subject, there is exactly one innermost subject
\* around the mention, and the contract declares its edge; nothing that the
\* contract requires is missing.
ClosedWorld ==
  \A a \in Admitted :
    /\ \A o \in References(a.index, a.contract) :
         Candidates(a.index, a.contract, o) # {} =>
           \E s \in Bound(a.contract) :
             /\ \A u \in Bound(a.contract) : Innermost(a.index, a.contract, o, u) <=> u = s
             /\ \A t \in Bound(a.contract) :
                  a.contract.subjects[t].symbol = o.symbol =>
                    \E r \in a.contract.subjects[s].relationships :
                      r.kind = "reference" /\ r.target = t
    /\ \A s \in Bound(a.contract) :
         \A r \in a.contract.subjects[s].relationships :
           r.required => <<s, r.kind, r.target>> \in Observed(a.index, a.contract)

\* A subject's symbol means one thing in the whole index: it is defined once,
\* in the subject's file, described once, and no other subject has it.  The
\* verification looks only into the subject's file and finds targets by their
\* symbol alone; the validation of the index has to make up for it.
SubjectsAreUnambiguous ==
  \A a \in Admitted :
    \A s \in Bound(a.contract) :
      LET symbol == a.contract.subjects[s].symbol
          path == a.contract.subjects[s].path
      IN /\ \A t \in Bound(a.contract) : a.contract.subjects[t].symbol = symbol => t = s
         /\ \E o \in Occurrences(a.index) :
              /\ o.path = path
              /\ \A q \in Occurrences(a.index) : q.symbol = symbol /\ q.definition <=> q = o
         /\ \A x \in SymbolRows(a.index) :
              SymbolAt(a.index, x).symbol = symbol => PathAt(a.index, x) = path
=============================================================================
