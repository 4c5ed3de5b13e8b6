SPECIFICATION Spec
CONSTANTS
  Jobs = {1}
  Expiring = {1}
  Fallible = {1}
  Aging = {1}
  NoWait = {}
  Polled = {1}
  ListsReplaced = TRUE
  Slots = {1,2}
  MaxInFlight = 2
  MaxRemembered = 4
  FaultKinds = {"link","crash","restart","statement"}
  MaxFaults = 1
CHECK_DEADLOCK FALSE
INVARIANTS SuccessWasPerformed PerformedOncePerCrash VerdictsAgree
PROPERTIES ImplementsLifecycle
