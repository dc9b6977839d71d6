SPECIFICATION Spec
CONSTANTS
  Root = Root
  None = None
  t1 = t1
  t2 = t2
  Thread = {t1, t2}
  Call = {c1, c2}
  Stack = {s1, s2}
  Fd = {3, 4, 5, 6}
  NSIG = 3
  Hosts <- AnyHost
  InitMask <- MCInitMask
  InitCancel <- MCInitCancel
  InitDisp <- MCInitDisp
SYMMETRY Symmetry
INVARIANTS
  TypeOK
  HupMeansStackFree
  ChildSeesOwnArgs
  ChildCloseSucceeds
  NoParentHandler
  OriginalMask
  CallerRestored
  NoDescriptorLeak
PROPERTIES
  ImplementsStackLease
CHECK_DEADLOCK FALSE
