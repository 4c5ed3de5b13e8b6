SPECIFICATION LibraryFairSpec
CONSTANTS
  Issues = {"a", "b"}
  Keys = {"k", "l"}
  Contents <- SomeContents
  LegacyIssues = {"a"}
  LegacyContent <- Both
  LegacyObjects = {"k"}
  Groups = {1, 2}
  Uploads = {"u"}
  Purgers = {"p", "sweep"}
  Sweep = "sweep"
  None = "none"
  Batch = 1
  MaxFaults = 1
INVARIANTS UnusedWhilePurging GoneForGood
PROPERTIES PurgesEnd
