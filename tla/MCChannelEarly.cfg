SPECIFICATION Spec
CONSTANTS
  c1 = c1
  c2 = c2
  Clients = {c1}
  QueueSize = 2
  ReqBlocks = {b1, b2}
  RespBlocks = 1
  MaxCalls <- TwoCalls
  MaySendEmpty = {}
  MayCrash = {}
  MaxRestarts = 0
  NoBlock = NoBlock
  Nothing = Nothing
  Garbage = Garbage
  Error = Error
INVARIANT ReadsFilled
CHECK_DEADLOCK FALSE
