SPECIFICATION Spec
CONSTANTS
  frozen = frozen
  f = f
  g = g
  v1 = v1
  v2 = v2
  c1 = c1
  c2 = c2
  Absent = Absent
  None = None
  Files = {frozen, f, g}
  ContractFile = frozen
  Contents <- MCContents
  Choices <- MCChoices
  Scope <- MCScope
  Defining <- MCDefining
  Indexers = {x1}
  MaxEvents = 5
  Binding <- MCBinding
  Objectives <- MCObjectives
  Suites <- MCSuites
  Assignments <- MCAssignments
  Reports <- MCReports
CHECK_DEADLOCK FALSE
INVARIANTS
  JoinedFilesHeldAtTheEnd
  CheckedTwiceIsOneSnapshot
  JoinIsExact
