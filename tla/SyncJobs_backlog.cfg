SPECIFICATION BacklogSpec
CONSTANTS
  Jobs = {1,2,3,4}
  Expiring = {}
  Fallible = {}
  Aging = {}
  NoWait = {}
  Polled = {}
  ListsReplaced = FALSE
  Slots = {1,2}
  MaxInFlight = 2
  MaxRemembered = 4
  FaultKinds = {"crash","restart"}
  MaxFaults = 1
CHECK_DEADLOCK FALSE
PROPERTIES BacklogDrains
