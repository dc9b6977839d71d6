SPECIFICATION Spec
CONSTANTS
  Wrappers <- WithoutEpollPwait
  Answers <- MCAnswers
  WordMod = 65536
  IntHalf = 8192
CHECK_DEADLOCK FALSE
INVARIANTS
  KernelSeesArgs
PROPERTIES
  AnswerTold
