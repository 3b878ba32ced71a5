SPECIFICATION FairSpec
CONSTANTS
  Form = {Main, Other, Broken}
  MainForm = Main
  StartForms = {Main}
  ShellForm = {}
  BrokenForm = {Broken}
  LastHandle = 2
  DepthGuard = 64
  Asker = {0, 1, 2}
  Guarded = {}
  MaxRequests = 1
  None = None
  Error = Error
  Done = Done
VIEW State
INVARIANTS EveryHandleHasItsWindow EveryWindowHasItsHandle
PROPERTIES AskersResume ClosedFormsEnd
CHECK_DEADLOCK FALSE
