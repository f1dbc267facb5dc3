SPECIFICATION Spec
CONSTANTS
  k1 = k1
  k2 = k2
  raw1 = raw1
  raw2 = raw2
  clean1 = clean1
  clean2 = clean2
  body1 = body1
  body2 = body2
  None = None
  Keys = {k1, k2}
  Profiles <- MCProfiles
  Raws = {raw1, raw2}
  Cleanups = {clean1, clean2}
  Bodies = {body1, body2}
  Results <- MCResults
CHECK_DEADLOCK FALSE
INVARIANTS
  TablesAgree
  CallsSucceedOnce
  AnswersStayTrue
PROPERTIES
  ImplementsLedger
