SPECIFICATION PartsSpec
CONSTANTS
  None = None
  Ids = {a, b}
  Stored = {a}
  MaxEnds = 1
  MaxRestarts = 1
  Clients = {a}
  Penalty = 2
  MaxLead = 3
  FloodWindow = 3
  Limits = {0, 1, 2}
  Horizon = 6
  MaxCommands = 4
  Channels = {a}
  PokeBackoffCap = 8
INVARIANTS QuietAtClose CleanUpKept KeepsPace ContextKept CommandsRead ScreenFollows
CHECK_DEADLOCK FALSE
