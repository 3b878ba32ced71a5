SPECIFICATION Spec
CONSTANTS
  Form = {Main, Other}
  MainForm = Main
  StartForms = {Main}
  ShellForm = {}
  BrokenForm = {}
  LastHandle = 2
  DepthGuard = 64
  Asker = {0, 1, 2}
  Guarded = {1}
  MaxRequests = 1
  None = None
  Error = Error
  Done = Done
VIEW State
PROPERTIES WaitingFormStaysOpen
CHECK_DEADLOCK FALSE
