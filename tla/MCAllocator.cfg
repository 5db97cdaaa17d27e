SPECIFICATION Spec
CONSTANTS
  Words = 8
  HeapBase = 20
  UIntRange = 64
  Bytes = {0, 10, 15, 32}
  Alignments = {1}
  UserWords = {9}
INVARIANTS
  TypeOK
  BlocksDisjoint
  AssertsHold
  OldestFreeable
  BlockHoldsRequest
  GuardRefusesNothing
  EmptyServesHalf
  RingInv
PROPERTY FifoSpec
