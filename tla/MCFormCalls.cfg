SPECIFICATION Spec
CONSTANTS
  Form = {Main, Other}
  MainForm = Main
  StartForms = {Main, Other}
  LastHandle = 3
  DepthGuard = 64
  Asker = {program}
  None = None
VIEW Table
INVARIANTS TypeOK MainFormIsSingle
PROPERTIES OnlyItsProgramEndsAWaitingForm CloseTakesTheSubtree OrphansWereWaiting CallerClosesLast NoLinkLeftDangling ExitWithTheLastHandle
CHECK_DEADLOCK FALSE
