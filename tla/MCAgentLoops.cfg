SPECIFICATION FairSpec
CONSTANTS
  A = A
  B = B
  Control = {A, B}
  Forms <- AllForms
  Replies <- Calls
  LastHandle = 1
  QueueBound <- Refusals
  MaxRounds = 3
  Continuations = 1
  None = None
INVARIANTS EventSeesItsOwnValues NoLateAnswer ResultIsTheCallsOwn
PROPERTIES NothingSentAfterEnd LentConnectionComesHome ImplementsOneAnswer
