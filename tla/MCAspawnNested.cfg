SPECIFICATION Spec
CONSTANTS
  Root = Root
  None = None
  t1 = t1
  t2 = t2
  Thread = {t1}
  Call = {c1, c2, c3}
  Stack = {s1,s2,s3}
  Fd = {3, 4, 5, 6}
  NSIG = 2
  Hosts <- OldBuild
  InitMask <- MCInitMask
  InitCancel <- MCInitCancel
  InitDisp <- MCInitDisp
SYMMETRY Symmetry
INVARIANTS
  HupMeansStackFree
  OriginalMask
CHECK_DEADLOCK FALSE
