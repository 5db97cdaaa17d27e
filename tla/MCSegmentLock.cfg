SPECIFICATION SegmentSpec
CONSTANTS
  NoPid = NoPid
  NoThread = NoThread
  Threads = {t1, t2, t3}
  Pids = {t1, t2, t3}
  PidOf <- OneEach
  Slots = 1
  Operations = {"lock"}
  CrashPoints <- OnRecord
  OwnerChecked = {TRUE, FALSE}
  PidSlots = 2
  MayCrash = {t1}
INVARIANT MutualExclusion
CHECK_DEADLOCK FALSE
