SPECIFICATION Spec
CONSTANTS
  Char <- MCChar
  PathLen = 7
  file <- MCFile
  PathMax = 4
  OnTooLong = "stop"
CHECK_DEADLOCK FALSE
INVARIANTS
  FindExeTypeOK
  TriesInOrder
  InBounds
  Diagnosis
PROPERTIES
  Terminates
