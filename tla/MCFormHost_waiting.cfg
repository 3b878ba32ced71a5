SPECIFICATION Spec
CONSTANTS
  Form = {Main, Other}
  MainForm = Main
  StartForms = {Other}
  ShellForm = {Other}
  BrokenForm = {}
  LastHandle = 2
  DepthGuard = 64
  Asker = {0, 1, 2}
  Guarded = {0}
  MaxRequests = 1
  None = None
  Error = Error
  Done = Done
VIEW State
INVARIANTS BlockedCallIsPending HandleVariablesAreLive
PROPERTIES WaitingFormStaysOpen
CHECK_DEADLOCK FALSE
