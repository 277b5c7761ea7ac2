SPECIFICATION TurnsSpec
CONSTANTS
  User = u
  Models = {m1}
  NoActor = NoActor
  TurnKinds = {{"channel", "invitation"}, {"dm"}}
  MaxStays = 2
  MaxCalls = 2
  Windows = {c1, c2}
  None = None
  MaxLog = 4
  Burst = 3
SYMMETRY Symmetry
INVARIANTS
  ValidMeansCurrent CleanEntry ValidTurnKept DirectRowsOfThisSession
  PromptWhole TwoAttempts ActsOnce WaitsOnItsOwnTimer
PROPERTY OwnDelay
CHECK_DEADLOCK FALSE
