SPECIFICATION Spec
CONSTANTS
  Char <- MCChar
  PathLen = 4
  file <- MCFile
  PathMax = 2
  OnTooLong = "continue"
CHECK_DEADLOCK FALSE
PROPERTIES
  Terminates

