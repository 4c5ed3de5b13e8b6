SPECIFICATION Spec
CONSTANTS
  LastWeek = 3
  Sources = {"k"}
  Resolutions = {"active", "completed"}
  Ingests = {i, j}
  Owners = {"o"}
  Closers = {"c"}
  MaxVersion = 2
CHECK_DEADLOCK FALSE
SYMMETRY Interchangeable
INVARIANTS OpenWorkContinues
PROPERTIES ClosedAsShown ResolutionIsOwners
