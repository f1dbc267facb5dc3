SPECIFICATION Spec
CONSTANTS
  malformed = malformed
  naming = naming
  fitting = fitting
  other = other
  Turns = 2
  Edits = 1
  Strangers = {other}
  Foreign = {fitting}
  Requests = {0, 1, 2, other}
  Bodies = {malformed, naming, fitting}
  WellFormed = {naming, fitting}
  Admissible = {malformed, fitting}
  Limit = 2
  Public = Public
  None = None
CHECK_DEADLOCK FALSE
INVARIANTS
  StoreWithinLimit
  RetainedIsAdmitted
  ReportIsTrue
  OneDraftAtMost
  IdentifiedCodeAdmits
PROPERTIES
  RequestsEnd
  BridgeEnds
