SPECIFICATION FairSpec
CONSTANTS
  Documents = {"d"}
  Revisions = {"r1","r2"}
  Projections = {"p1","p2","p3"}
  Document <- OneDocument
  Revision <- Analyses
  Committed = {"p1"}
  Uploads = {1,2}
  Header <- Contents
  Parts = 1
  Notes = {"n"}
  References <- Citations
  Writers = {"w"}
  MaxVersion = 3
  MaxMaintenance = 1
  MaxFaults = 1
CHECK_DEADLOCK FALSE
INVARIANTS NoReferenceDangles RecordsAreWhole
PROPERTIES WritesEnd
