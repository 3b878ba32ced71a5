SPECIFICATION FairSpec
CONSTANTS
  C1 = C1
  C2 = C2
  L1 = L1
  L2 = L2
  Caller <- Callers
  Launches <- Asked
  LastServer = 2
  LastSlot = 2
  LastCall <- Twice
  None = None
INVARIANTS TypeOK PendingHasItsCaller OneServerPerSlot
PROPERTIES EndedReaderLeavesNobody EveryCallEnds
CHECK_DEADLOCK FALSE
