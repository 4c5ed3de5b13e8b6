SPECIFICATION FairSpec
CONSTANTS
  Regs = {"r"}
  MaxGen = 2
  MaxEffects = 2
  MaxFaults = 2
CHECK_DEADLOCK FALSE
INVARIANTS RecordsAgree
PROPERTIES DetachSettles KeepsPromise
