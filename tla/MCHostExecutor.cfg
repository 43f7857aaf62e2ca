SPECIFICATION HostSpec
CONSTANTS
  Jobs = {j1}
  NoJob = NoJob
  MaxChunks = 1
  MaxHostFaults = 1
INVARIANTS ClaimedIsAnswered
CHECK_DEADLOCK FALSE
