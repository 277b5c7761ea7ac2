SPECIFICATION GuardSpec
CONSTANTS
  User = u
  Models = {m1}
  NoActor = NoActor
  TurnKinds = {{"channel", "invitation"}}
  MaxStays = 2
  MaxCalls = 1
INVARIANTS GoneChannelHasNoTurns
CHECK_DEADLOCK FALSE
