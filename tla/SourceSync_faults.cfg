SPECIFICATION Spec
CONSTANTS
  Inodes = {1,2}
  Paths = {"a"}
  Bytes = {1,2,3}
  Formats = {"md","bin","txt"}
  Format <- MixedFormat
  Supported = {"md","txt"}
  Unreadable = {2}
  FileOps = {"write","rename","remove","restore"}
  MayRevert = FALSE
  MaxEdits = 2
  MaxRefreshes = 1
  MayRetire = TRUE
  MayPurge = TRUE
  MaxPending = 1
  BatchLimit = 1
  FaultKinds = {"request","response","analysis","crash"}
  MaxFaults = 2
CHECK_DEADLOCK FALSE
INVARIANTS Faithful LastGoodReadable NothingLeftBehind
