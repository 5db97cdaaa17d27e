SPECIFICATION Spec
CONSTANTS
  Publishers = {u1, u2}
  Subscribers = {s1}
  QueueSize = 2
  CounterRange = 64
  Blocks = {b1,b2,b3,b4}
  MaxMessages = 3
  MayCrash = {u1, u2, s1}
  NoBlock = NoBlock
  NoMessage = NoMessage
  Torn = Torn
SYMMETRY Symmetry
INVARIANTS
  TypeOK
  HeapAccounted
  WriterFindsRoom
  LockedReadStable
CHECK_DEADLOCK FALSE
