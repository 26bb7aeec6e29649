CONSTANTS
  Client = {c1}
  MaxCalls = 1
  MaxPolls = 2
  Sizes = {"long"}
  CreateThreadFails = FALSE
  Nothing = Nothing
  Abandoned = Abandoned
SPECIFICATION FairSpec
CHECK_DEADLOCK FALSE
PROPERTIES
  EveryCallReturns
