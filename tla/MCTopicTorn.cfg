SPECIFICATION Spec
CONSTANTS
  Publishers = {u1}
  Subscribers = {s1}
  QueueSize = 4
  CounterRange = 64
  Blocks = {b1,b2,b3,b4,b5}
  MaxMessages = 8
  MayCrash = {}
  NoBlock = NoBlock
  NoMessage = NoMessage
  Torn = Torn
INVARIANT NoTornRead
CHECK_DEADLOCK FALSE
