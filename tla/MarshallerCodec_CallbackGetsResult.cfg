CONSTANTS
  EmptyArgument <- Empty
  InvalidHandle <- InvalidText
  Char <- Characters
  Text <- Texts
  Greeting <- Hello
  WaitTime <- Waits
  Decimal <- Decimals
  INT_MAX = 3
  PIPE_BUFFER_SIZE = 15
SPECIFICATION Spec
CHECK_DEADLOCK FALSE
INVARIANT CallbackGetsResult
