SPECIFICATION Spec
CONSTANTS
  BufSize = 1
  Allowance = 1
  MaxSent = 3
  Quits = {q1}
  Kills = {k1}
  Deads = {d1}
  SessionLifetime = FALSE
  ReplayHistory = TRUE
CONSTRAINT OneGroup
INVARIANTS InOrder NoHoles Bounded ClosingClientTold
PROPERTIES DrainLosesNothing ImplementsStream
CHECK_DEADLOCK FALSE
