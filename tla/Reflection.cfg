SPECIFICATION Spec
CONSTANTS
  None = None
  Descriptions = {d1}
  Baseline = d0
  MaxEvents = 3
  MaxRevisions = 3
  MaxBorn = 2
  Page = 2
  InboxHeadroom = 2
  ExperienceHeadroom = 0
  TransitionHeadroom = 1
  HighBoost = 2
  Schedulers <- TwoSchedulers
  Workers = {w1, w2}
  Modes = {"disabled", "active"}
  Threshold = 1
  Cap = 1
  MaxSwitches = 2
  MaxFaults = 0
  MaxCommands = 1
CONSTRAINT OneDisturbance
INVARIANTS PointerPath ReflectedOnce EvidenceKept ValidCommits CleanUpIsFinal
CHECK_DEADLOCK FALSE
