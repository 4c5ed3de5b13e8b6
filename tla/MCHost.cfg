SPECIFICATION HostSpec
CONSTANTS
  Jobs = {1, 2}
  MaxConcurrent = 1
  MaySlow = TRUE
  MaxFaults = 2
  Dirs = {1,2}
  Bytes = {1,2}
  MaxSize = 2
  Uploads = {"u"}
  Downloads = {"k"}
  Accepts <- AnyHash
  Drafts <- SomeDrafts
  Bins = {"o"}
  Budgets <- SomeBudgets
CHECK_DEADLOCK FALSE
INVARIANTS CancelledIsOver TransfersAreWhole
PROPERTIES VerdictIsFinal MonitorIsPatient JobsSettle NothingVanishes
