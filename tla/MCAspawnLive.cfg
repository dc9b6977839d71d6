SPECIFICATION FairSpec
CONSTANTS
  Root = Root
  None = None
  t1 = t1
  t2 = t2
  Thread = {t1, t2}
  Call = {c1, c2}
  Stack = {s1, s2}
  Fd = {3, 4, 5, 6}
  NSIG = 2
  Hosts <- OldKernel
  InitMask <- MCInitMask
  InitCancel <- NoCancel
  InitDisp <- MCInitDisp
CHECK_DEADLOCK FALSE
PROPERTIES
  CallReturns
  HupEventually
