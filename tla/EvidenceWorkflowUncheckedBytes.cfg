SPECIFICATION Spec
CONSTANTS
  r1 = r1
  r2 = r2
  src = src
  inp = inp
  art = art
  frozen = frozen
  v1 = v1
  v2 = v2
  c1 = c1
  p1 = p1
  p2 = p2
  p3 = p3
  leaf = leaf
  root = root
  test = test
  comp = comp
  epic = epic
  task = task
  Absent = Absent
  None = None
  Plans <- FlatPlans
  Manifest <- FlatManifest
  Files = {src, inp, frozen}
  ContractFile = frozen
  Contents <- MCContents
  Choices <- FlatChoices
  Scope <- MCScope
  Defining <- MCDefining
  Appliers = {a1}
  Indexers = {x1}
  Runners = {r1}
  MaxEvents = 5
CHECK_DEADLOCK FALSE
INVARIANTS
  VerifiedCodeWasChecked
