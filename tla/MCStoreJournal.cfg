SPECIFICATION Spec
CONSTANTS
  Receipts = {r1, r2}
  State = state
  Absent = Absent
  MaxVersion = 3
  MaxFaults = 2
  MaxCrashes = 2
SYMMETRY Symmetry
INVARIANTS
  NeverCorrupt
  CacheIsSound
  NoStaleJournal
  KnownSurvives
PROPERTIES
  ImplementsAtomicCommit
