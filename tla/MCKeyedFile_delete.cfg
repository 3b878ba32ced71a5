SPECIFICATION Spec
CONSTANTS
  Record <- SomeRecords
  Duplicates <- DupThenUnique
  None = None
  Loads <- SomeFiles
  Access = {"sequential", "dynamic"}
  Sought <- SomeAddresses
  Starts <- SomeStarts
  LeafCap = 2
  LastVerb = 2
VIEW State
PROPERTIES KeyedDeleteLeavesTheCursor
CHECK_DEADLOCK FALSE
