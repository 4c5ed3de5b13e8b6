SPECIFICATION FairSpec
CONSTANTS
  Inodes = {1,2}
  Paths = {"a","b"}
  Bytes = {1,2}
  Formats = {"md","bin","txt"}
  Format <- MixedFormat
  Supported = {"md","txt"}
  Unreadable = {}
  FileOps = {"write","rename","remove","restore"}
  MayRevert = FALSE
  MaxEdits = 1
  MaxRefreshes = 0
  MayRetire = FALSE
  MayPurge = FALSE
  MaxPending = 3
  BatchLimit = 1
  FaultKinds = {"response","crash"}
  MaxFaults = 1
CHECK_DEADLOCK FALSE
INVARIANTS OneDocumentPerPath
PROPERTIES Converges
