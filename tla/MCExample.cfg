SPECIFICATION Spec
CONSTANTS
  JobCount = 3
  PathSz = 3943
  Message = 3
  Capacity = 3
  PageSz = 4096
  SizeMod = 536870912
  Extra = 32768
  ArgsSz = 152
  Memory <- MCMemory
CHECK_DEADLOCK FALSE
INVARIANTS
  ExampleTypeOK
  ChildHasStack
  MessageInOrder
  MemoryReturned
PROPERTIES
  StackLeftAlone
  MainEnds
