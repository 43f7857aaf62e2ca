SPECIFICATION BoundedSpec
CONSTANTS
  Servers = {s1, s2, s3}
  Operations = {o1}
  None = None
INVARIANTS
  LockNamesHolder
  StoppedIsSettled
PROPERTIES ShutdownEnds
CHECK_DEADLOCK FALSE
