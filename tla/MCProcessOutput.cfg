SPECIFICATION Spec
CONSTANTS
  Sessions = {s1, s2, s3}
  Followed = {s1}
  ChunkSize = 2
  MaxRetained = 4
  MaxTotal = 5
  MaxProcesses = 2
  MaxRunning = 2
  MaxRead = 4
  ReadSizes = {1, 4}
  CompactHead = 2
  EventSizes = {1, 3}
  MaxEvents = 3
SYMMETRY Symmetry
INVARIANTS
  OutputAccounting
  SelectionIsExact
  NothingSkipped
  NoLostWakeup
CHECK_DEADLOCK FALSE
