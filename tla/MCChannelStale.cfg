SPECIFICATION FairSpec
CONSTANTS
  c1 = c1
  c2 = c2
  Clients = {c1}
  QueueSize = 2
  ReqBlocks = {b1, b2}
  RespBlocks = 4
  MaxCalls <- ThreeCalls
  MaySendEmpty = {}
  MayCrash = {}
  MaxRestarts = 0
  NoBlock = NoBlock
  Nothing = Nothing
  Garbage = Garbage
  Error = Error
PROPERTY AnswersOwnCall
CHECK_DEADLOCK FALSE
