SPECIFICATION FairSpec
CONSTANTS
  c1 = c1
  c2 = c2
  Clients = {c1, c2}
  QueueSize = 2
  ReqBlocks = {b1, b2}
  RespBlocks = 1
  MaxCalls <- TwoAndOne
  MaySendEmpty = {c1}
  MayCrash = {c2}
  MaxRestarts = 1
  NoBlock = NoBlock
  Nothing = Nothing
  Garbage = Garbage
  Error = Error
INVARIANTS
  TypeOK
  ClaimedByOne
  RequestIntact
PROPERTY CallReturns
CHECK_DEADLOCK FALSE
