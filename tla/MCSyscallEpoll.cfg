SPECIFICATION Spec
CONSTANTS
  Wrappers <- WithEpollPwait
  Answers <- MCAnswers
  WordMod = 65536
  IntHalf = 8192
CHECK_DEADLOCK FALSE
INVARIANTS
  KernelSeesArgs
