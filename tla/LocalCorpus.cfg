SPECIFICATION FairSpec
CONSTANTS
  MaxOps = 1
  MaxEdits = 1
  MaxFaults = 1
  Built = {"failed"}
CHECK_DEADLOCK FALSE
INVARIANTS NoChangeForgotten
PROPERTIES EvidenceRecovers
