SPECIFICATION Spec
CONSTANTS
  naming = naming
  fitting = fitting
  Turns = 3
  Requests = {1, 2, 3}
  Bodies = {naming, fitting}
  WellFormed = {naming, fitting}
  Admissible = {fitting}
  Limit = 3
  Public = Public
  None = None
CHECK_DEADLOCK FALSE
INVARIANTS
  MirrorsAgree
  AtMostOneRecord
  DoneIsRetained
PROPERTIES
  RunEnds
