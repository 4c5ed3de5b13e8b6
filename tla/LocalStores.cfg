SPECIFICATION StoresSpec
CONSTANTS
  Bytes = {1,2}
  First = 1
  MaxOps = 2
  MaxEdits = 2
  MaxFaults = 1
  MaxAges = 1
  Corpora <- AllCorpora
  Contexts = {"x", "y"}
  Bindings = {"b", "g"}
  Externals <- AllExternals
  RunIds = {"r1", "r2"}
  WorkFolders = {"f", "g"}
  Units = {"u"}
  Places <- SomePlaces
  Within <- Inside
  Nothing = "none"
  SessionBound = {"b"}
  Normal <- NormalForm
  Requests <- AllRequests
  Form <- Asks
  Plans <- SomePlans
  PageSize = 1
  MaxLives = 2
  MaxOutside = 2
CHECK_DEADLOCK FALSE
INVARIANTS ReplacedIsKept UndoIsTrue ReferencesHold MembersWereSeen TakesEffectOnce
PROPERTIES ImplementsChanges
