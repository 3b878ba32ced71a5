SPECIFICATION Spec
CONSTANTS
  Form = {Main, Other}
  MainForm = Main
  StartForms = {Main}
  ShellForm = {Main}
  BrokenForm = {}
  LastHandle = 2
  DepthGuard = 64
  Asker = {0, 1, 2}
  Guarded = {}
  MaxRequests = 1
  None = None
  Error = Error
  Done = Done
VIEW State
INVARIANTS EveryWindowHasItsHandle
CHECK_DEADLOCK FALSE
