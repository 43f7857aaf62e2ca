SPECIFICATION Spec
CONSTANTS
  Servers = {s1, s2}
  Operations = {o1}
  None = None
SYMMETRY Symmetry
INVARIANTS
  ShutdownSettles
CHECK_DEADLOCK FALSE
