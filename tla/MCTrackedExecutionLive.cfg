\* Liveness: one operation, two requests, one crash, one storage failure.
SPECIFICATION LiveSpec
CONSTANTS
  Callers = {c1, c2}
  Ops = {1}
  Inputs = {a}
  None = None
  MaxBoots = 2
  MaxFaults = 1
PROPERTIES EveryRequestReturns EndedIsRecorded
