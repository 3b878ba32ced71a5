SPECIFICATION FairSpec
CONSTANTS
  MaxPages = 3
  MaxTag = 4
  InitPages = 2
  MaxFaults = 2
  Checkpoint = 2
  Modes <- AllModes
  Failures <- Kills
  None = None
INVARIANTS ReadsOwnWrites InputReadsCommitted
PROPERTIES ImplementsTxStore Settles
