CONSTANTS
  Client = {c1}
  MaxCalls = 1
  MaxPolls = 2
  Sizes = {"fits"}
  CreateThreadFails = FALSE
  Nothing = Nothing
  Abandoned = Abandoned
SPECIFICATION Spec
CHECK_DEADLOCK FALSE
INVARIANTS
  ConnectedClientGetsThread
