SPECIFICATION Spec
CONSTANTS
  Servers = {s1, s2, s3}
  Operations = {o1}
  None = None
SYMMETRY Symmetry
INVARIANTS
  SingleWriter
CHECK_DEADLOCK FALSE
