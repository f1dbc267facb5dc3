SPECIFICATION Spec
CONSTANTS
  States <- MCStates
  Models <- MCModels
  Received <- MCReceived
  Others <- MCOthers
  None = None
CHECK_DEADLOCK FALSE
INVARIANTS
  ProverDecides
  ProducedIsAccepted
  AcceptedIsTrue
  NoInternalError
PROPERTIES
  Terminates
