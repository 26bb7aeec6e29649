CONSTANTS
  Thread = {t1, t2, t3}
  Address = {a1, a2}
  Value = {v1}
  Calculator = Calculator
  Unregistered = Unregistered
  Computed = Computed
  NullHandle = NullHandle
  InvalidHandle = InvalidHandle
  EmptyArgument = EmptyArgument
  Free = Free
  NoThread = NoThread
  Requests <- EveryRequest
SPECIFICATION Spec
SYMMETRY Symmetric
CHECK_DEADLOCK FALSE
INVARIANTS
  TypeOK
  MutualExclusion
  FoundStaysRegistered
  LiveObjectsAreRegistered
  CreatedHandleIsRegistered
  DanglingOnlyByDelete
