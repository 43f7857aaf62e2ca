SPECIFICATION Spec
CONSTANTS
  Sessions = {s1, s2, s3}
  Followed = {}
  ChunkSize = 2
  MaxRetained = 4
  MaxTotal = 5
  MaxProcesses = 3
  MaxRunning = 3
  MaxRead = 4
  ReadSizes = {4}
  CompactHead = 2
  EventSizes = {1, 3}
  MaxEvents = 4
SYMMETRY Symmetry
PROPERTIES
  EvictsLeastRecent
CHECK_DEADLOCK FALSE
