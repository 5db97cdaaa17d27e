SPECIFICATION FairSpec
CONSTANTS
  t1 = t1
  t2 = t2
  t3 = t3
  p1 = p1
  p2 = p2
  NoPid = NoPid
  NoThread = NoThread
  Threads = {t1, t2, t3}
  Pids = {p1, p2}
  PidOf <- TwoInOne
  Slots = 2
  Operations <- AllOperations
  CrashPoints <- Anywhere
  OwnerChecked = {TRUE, FALSE}
INVARIANTS
  TypeOK
  MutualExclusion
  OwnerIsInside
  ReadersAccounted
PROPERTIES
  HoldIsNotTaken
  WaitersGetIn
  InsertEnds
CHECK_DEADLOCK FALSE
