CONSTANTS
  Client = {c1, c2, c3}
  MaxCalls = 1
  MaxPolls = 2
  Sizes = {"fits", "grows", "long"}
  CreateThreadFails = TRUE
  Nothing = Nothing
  Abandoned = Abandoned
SPECIFICATION Spec
SYMMETRY Symmetric
CHECK_DEADLOCK FALSE
INVARIANTS
  TypeOK
  RunningHandlersAreKept
  ExecutedCallSucceeds
  NoInstanceLeaks
PROPERTIES
  ImplementsRPCCall
