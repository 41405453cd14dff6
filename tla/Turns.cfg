SPECIFICATION Spec
CONSTANTS
  Users = {u1, u2}
  Console = u1
  Nobody = nobody
  ClickOnly = {2}
  Depth = 1
  MaxAgain = 1
  MaxMsgs = 3
  MaxRelayed = 2
  MaxCalls = 2
INVARIANTS
  RunsOnce
  OnlyApprovedRuns
  PromptIsReal
PROPERTIES
  AskIsAnswered
  TurnsEnd
  FollowUpsEnd
CHECK_DEADLOCK FALSE
