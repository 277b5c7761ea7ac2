SPECIFICATION Spec
CONSTANTS
  None = None
  Windows = {c1, c2}
  Instances = {a}
  Stored = {a}
  Workers = {w1, w2}
PROPERTIES QueueMoves TriggersSettle TeardownsEnd BacklogAttempted
CHECK_DEADLOCK FALSE
