SPECIFICATION RecordsSpec
CONSTANTS
  User = u
  Models = {m1}
  Channels = {c1, c2}
  Nicks = {n1, n2}
  NoChannel = NoChannel
  NoRow = NoRow
  NoNick = NoNick
  MaxGen = 1
  MaxFails = 3
  MaxReadFails = 0
  MaxRestarts = 1
  Chans = {c1, c2}
  Stored = {c1, c2}
  Masks = {{}, {c1}, {c2}}
  MaxEvents = 5
  MaxFaults = 2
SYMMETRY Symmetry
CONSTRAINT Bounds
INVARIANTS
  MembershipAgrees ChannelEnds NickUnique SnapshotsCurrent DivergenceReported
  HistoryExact DirectExact StartInItsStay NoLockCycle
PROPERTIES GatedEntry
CHECK_DEADLOCK FALSE
