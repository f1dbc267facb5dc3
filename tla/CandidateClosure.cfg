SPECIFICATION ClosureSpec
CONSTANTS
  Contracts <- MCContracts
  Submissions <- MCSubmissions
  Adapters <- MCAdapters
  Relations <- MCRelations
  Lower <- MCLower
  Origin <- MCOrigin
  MaxEvaluations = 2
  MaxMade = 3
CHECK_DEADLOCK FALSE
INVARIANTS
  EveryChangeIsAuthorised
  ClosureIsCurrent
  TruthIsClosed
