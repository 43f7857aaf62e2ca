\* The server may stop or reach a bound in each part.
CHECK_DEADLOCK FALSE
SPECIFICATION Spec
CONSTANTS
  Parts = {"oauth", "approval", "host", "migration", "pages", "moves", "artifacts"}
  Calls = {k1, k2}
  Earlier = earlier
  Clients = {a, b}
  NoClient = NoClient
  Submitted <- MCSubmitted
  MaxClients = 1
  CodeTtl = 1
  AccessTtl = 1
  RefreshTtl = 2
  MaxTime = 2
  MaxFaults = 1
  Approvals = {a, b}
  RequestIds = {q1, q2}
  Operations = {o1, o2}
  Targets <- MCTargets
  Requesters = {c1, c2}
  Executors = {e1, e2}
  Nothing = Nothing
  MaxRecords = 2
  Ttl = 1
  MaxClock = 1
  MaxMishaps = 2
  Jobs = {j1}
  NoJob = NoJob
  MaxChunks = 2
  MaxHostFaults = 3
  StateFile = state
  Receipt = receipt
  MaxEdits = 3
  MaxLosses = 4
  Texts <- MCTexts
  MaxChunk = 4
  Movers = {m1, m2}
  Sources = {s1, s2}
  Destinations = {d1}
  Pieces = {1, 2}
  MaxMoveFaults = 2
  Publishers = {p1, p2}
  Downloaders = {d2}
  Versions = {v1, big}
  Oversized = {big}
  Missing = Missing
  MaxActive = 1
  ArtifactTtl = 1
  MaxTokens = 3
  MaxHour = 1
  MaxArtifactFaults = 1
INVARIANTS
  SpentStaysSpent AnswersSurvive
  ConsumedOnce OutcomeIsHonest CompletedTaskIsQuiet
  HostRunsOnce MarkedIsAnswered
  MigrationIsSafe
  PagesAreExact BackupIsWhole SnapshotsAreWhole
PROPERTIES VerdictIsDurable FailedMoveKeepsDestination
