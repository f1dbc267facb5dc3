--------------------------- MODULE AuthorizedDiff ---------------------------
(***************************************************************************)
(* authorized_diff.py: the record that says which frozen slots a candidate *)
(* fills and with what, how it is derived, and the joins that admit a      *)
(* stored one.  A contract's hash is its id; a diff's own hash is the      *)
(* record of its other fields.  Identities and paths are numbers, ordered  *)
(* as their bytes are.                                                     *)
(***************************************************************************)
EXTENDS Naturals, Sequences, SequencesExt

\* _index_unique
UniqueIds(values) == \A i, j \in DOMAIN values : values[i].id = values[j].id => i = j

WithId(values, id) == CHOOSE x \in ToSet(values) : x.id = id
EntryAt(entries, path) == CHOOSE e \in ToSet(entries) : e.path = path

\* result_entry_set_hash: refused unless in path order, each path once.
InPathOrder(entries) ==
  \A i, j \in DOMAIN entries : i < j => entries[i].path < entries[j].path

Derivable(slots, operations, entries) ==
  /\ UniqueIds(slots)
  /\ operations # <<>>
  /\ \A i, j \in DOMAIN operations : operations[i].slot = operations[j].slot => i = j
  /\ InPathOrder(entries)
  /\ \A op \in ToSet(operations) :
       \E s \in ToSet(slots) : s.id = op.slot /\ \E e \in ToSet(entries) : e.path = s.path

SlotBinding(op, slot, entry) ==
  [slot |-> slot.id, obligation |-> slot.obligation, task |-> slot.task,
   subject |-> slot.subject, category |-> slot.category, path |-> slot.path,
   body |-> op.body, result |-> entry.content]

\* One binding per operation: the order by slot says nothing more.
Bindings(slots, operations, entries) ==
  {SlotBinding(op, WithId(slots, op.slot), EntryAt(entries, WithId(slots, op.slot).path)) :
     op \in ToSet(operations)}

Body(contract, baseline, submission, slots, operations, entries) ==
  [contract |-> contract, baseline |-> baseline, submission |-> submission,
   entries |-> entries, bindings |-> Bindings(slots, operations, entries)]

Sealed(body) ==
  [contract |-> body.contract, baseline |-> body.baseline, submission |-> body.submission,
   entries |-> body.entries, bindings |-> body.bindings, hash |-> body]

DiffOf(contract, baseline, submission, slots, operations, entries) ==
  Sealed(Body(contract, baseline, submission, slots, operations, entries))

\* validate_authorized_diff
Rederived(value, contract, baseline, submission, slots, operations, entries) ==
  /\ Derivable(slots, operations, entries)
  /\ value = DiffOf(contract, baseline, submission, slots, operations, entries)

BelongsToSlot(binding, slot) ==
  /\ binding.obligation = slot.obligation
  /\ binding.task = slot.task
  /\ binding.subject = slot.subject
  /\ binding.category = slot.category
  /\ binding.path = slot.path

\* The obligation a slot serves may change code: a leaf of the slot's own
\* work item that names the slot's subject.
ServesWithoutRole(slot, obligation) ==  \* fault: a composition may be edited directly
  /\ obligation.task = slot.task
  /\ slot.subject \in obligation.subjects

Serves(slot, obligation) ==
  /\ obligation.role # "composition"
  /\ obligation.task = slot.task
  /\ slot.subject \in obligation.subjects

ContractJoin(value, contract) ==
  /\ value.contract = contract.id
  /\ UniqueIds(contract.slots) /\ UniqueIds(contract.obligations)
  /\ \A b \in value.bindings :
       \E s \in ToSet(contract.slots) :
         /\ s.id = b.slot
         /\ BelongsToSlot(b, s)
         /\ \E o \in ToSet(contract.obligations) : o.id = s.obligation /\ Serves(s, o)

ManifestJoin(value, manifest) ==
  /\ manifest.contract = value.contract
  /\ manifest.baseline = value.baseline
  /\ manifest.submission = value.submission
  /\ manifest.diff = value.hash
  /\ InPathOrder(manifest.entries)
  /\ manifest.entries = value.entries

\* A candidate's hash and its manifest's change together.
EvaluationJoin(value, manifest, evaluation) ==
  /\ ManifestJoin(value, manifest)
  /\ evaluation.contract = manifest.contract
  /\ evaluation.manifest = manifest.hash
  /\ evaluation.diff = value.hash
=============================================================================
