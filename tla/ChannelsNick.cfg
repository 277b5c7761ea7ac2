SPECIFICATION Spec
CONSTANTS
  User = u
  Models = {m1, m2}
  Channels = {c1}
  Nicks = {n1, n2}
  NoChannel = NoChannel
  NoRow = NoRow
  NoNick = NoNick
  MaxGen = 1
  MaxFails = 0
  MaxReadFails = 0
  MaxRestarts = 1
SYMMETRY Symmetry
INVARIANTS OneHolderPerNick
CHECK_DEADLOCK FALSE
