CONSTANTS
  Client = {c1, fake}
  Fake = fake
  MaxCalls = 2
  MaxPolls = 2
  Sizes = {"fits"}
  CreateThreadFails = TRUE
  Nothing = Nothing
  Abandoned = Abandoned
SPECIFICATION ShutdownSpec
CHECK_DEADLOCK FALSE
INVARIANTS
  StopEndsThreads
