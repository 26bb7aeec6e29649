CONSTANTS
  Client = {c1, p1}
  Calculators = {c1}
  Workloads <- FewRequests
  MaxHandlers = 2
  MaxFaults <- OneFault
  Thread = {t1, t2}
  Address = {a1, a2}
  Value = {v1}
  Calculator = Calculator
  Unregistered = Unregistered
  Computed = Computed
  NullHandle = NullHandle
  InvalidHandle = InvalidHandle
  EmptyArgument = EmptyArgument
  Free = Free
  NoThread = NoThread
  Requests <- NoOtherRequests
SPECIFICATION AsyncSpec
CHECK_DEADLOCK FALSE
INVARIANTS
  CallbackHearsTheOutcome
