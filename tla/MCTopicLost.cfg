SPECIFICATION Spec
CONSTANTS
  Publishers = {u1, u2}
  Subscribers = {s1}
  QueueSize = 2
  CounterRange = 64
  Blocks = {b1,b2,b3,b4}
  MaxMessages = 2
  MayCrash = {}
  NoBlock = NoBlock
  NoMessage = NoMessage
  Torn = Torn
INVARIANT QueueFilled
CHECK_DEADLOCK FALSE
