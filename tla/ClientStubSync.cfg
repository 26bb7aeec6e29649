CONSTANTS
  c1 = c1
  c2 = c2
  p1 = p1
  Client = {c1, c2, p1}
  Calculators = {c1, c2}
  Workloads <- ThreeRequests
  Thread = {t1, t2, t3}
  Address = {a1, a2, a3}
  Value = {v1, v2}
  Calculator = Calculator
  Unregistered = Unregistered
  Computed = Computed
  NullHandle = NullHandle
  InvalidHandle = InvalidHandle
  EmptyArgument = EmptyArgument
  Free = Free
  NoThread = NoThread
  Requests <- NoOtherRequests
SPECIFICATION SyncSpec
SYMMETRY Symmetric
CHECK_DEADLOCK FALSE
INVARIANTS
  ClientTypeOK
  ProxyOwnsObject
  OwnershipIsExclusive
  ObjectsHaveOwners
  ServerSurvives
  CallsReachLiveObjects
  ServedCallsSucceed
