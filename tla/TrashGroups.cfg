SPECIFICATION FairTrashSpec
CONSTANTS
  Spaces = {"A","B"}
  Things = {"item","newer","old","citing","skill","late"}
  Present = {"item","newer","old","citing","skill"}
  Inactive = {"old"}
  Kind <- MCKind
  Home <- MCHome
  Cites <- MCCites
  Supersedes <- MCSupersedes
  Attached = {"B"}
  Workers = {"w"}
  Sweep = "sweep"
  Keys = {"k1","k2"}
  MaxGroups = 2
  MaxEdits = 1
  MaxCrashes = 1
  BatchLimit = 1
  SweepLimit = 1
CHECK_DEADLOCK FALSE
INVARIANTS NothingDangles
PROPERTIES OnlyPurgeDestroys DueGroupsAreSettled
