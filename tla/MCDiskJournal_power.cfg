SPECIFICATION Spec
CONSTANTS
  MaxPages = 4
  MaxTag = 3
  InitPages = 3
  MaxFaults = 2
  Checkpoint = 2
  Modes <- IoMode
  Failures <- Power
  None = None
INVARIANTS TypeOK KillRecovers AtomicOutcomes NeverRefused
PROPERTIES LongCommitDurable
