SPECIFICATION Spec
CONSTANTS
  Subjects <- MCSubjects
  Obligations <- MCObligations
  WorkItems <- MCWorkItems
  Contracts <- MCContracts
  Deltas <- MCDeltas
  None = None
CHECK_DEADLOCK FALSE
INVARIANTS
  ExactClosure
