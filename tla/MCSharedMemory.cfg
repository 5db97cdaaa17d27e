SPECIFICATION FairSpec
CONSTANTS
  NoPid = NoPid
  NoThread = NoThread
  Threads = {t1, t2, t3}
  Pids = {t1, t2, t3}
  PidOf <- OneEach
  Slots = 1
  OwnerChecked = {TRUE, FALSE}
  PidSlots = 2
  MayCrash = {t1, t2}
INVARIANTS
  TypeOK
  
  NoLeftovers
  ResetsExclude
  UsersOnRecord
PROPERTY AttachEnds
CHECK_DEADLOCK FALSE
