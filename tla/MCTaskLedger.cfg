SPECIFICATION Spec
CONSTANTS
  Callers = {c1, c2}
  RequestIds = {r1, r2, r3}
  None = None
  MaxTasks = 2
  MaxRevision = 3
  MaxFaults = 1
  MaxCrashes = 1
SYMMETRY Symmetry
INVARIANTS
  AnswerSurvives
  OneActiveTask
  RecordedOnce
  NoLostUpdate
PROPERTIES
  TaskHistory
