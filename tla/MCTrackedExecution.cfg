\* Two clients, and either one operation with two different inputs, three server
\* processes and two failing storage calls, or two operations (see Bounded).
SPECIFICATION BoundedSpec
CONSTANTS
  Callers = {c1, c2}
  Ops = {1, 2}
  Inputs = {a, b}
  None = None
  MaxBoots = 3
  MaxFaults = 2
SYMMETRY Symmetry
INVARIANTS
  AtMostOnce SpawnIsRecorded ReceiptIsHonest
  VerifiedIsDurable ClosedTaskIsSettled NoGhostReceipt
PROPERTIES ReceiptHistory ImplementsLedger
