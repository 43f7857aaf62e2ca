SPECIFICATION MovesSpec
CONSTANTS
  Movers = {m1, m2}
  Sources = {s1}
  Destinations = {d1}
  Pieces = {1}
  MaxMoveFaults = 0
INVARIANTS DestinationIsPreserved
CHECK_DEADLOCK FALSE
