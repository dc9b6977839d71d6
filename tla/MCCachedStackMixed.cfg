SPECIFICATION Spec
CONSTANTS
  PageSz = 4096
  SizeMod = 536870912
  Extra = 32768
  ArgsSz = 152
  Memory <- MCMemory
  Requests <- MixedRequests
INVARIANTS
  CachedStackTypeOK
  MemoryMapped
  EnoughStack
