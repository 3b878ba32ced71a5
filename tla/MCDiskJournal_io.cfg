SPECIFICATION Spec
CONSTANTS
  MaxPages = 3
  MaxTag = 3
  InitPages = 2
  MaxFaults = 2
  Checkpoint = 2
  Modes <- IoMode
  Failures <- IoErrors
  None = None
PROPERTIES HonestClose
