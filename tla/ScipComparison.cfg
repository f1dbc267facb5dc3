SPECIFICATION ComparisonSpec
CONSTANTS
  Locals <- MCLocals
  Messages <- MCMessages
  ContractDocuments <- MCAllContracts
  SubjectIds <- MCSubjectIds
  Tool = Tool
  Absent = Absent
CHECK_DEADLOCK FALSE
INVARIANTS
  ClosedWorld
  SubjectsAreUnambiguous
  NoChangeIsUnseen
