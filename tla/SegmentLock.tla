---------------------------- MODULE SegmentLock ----------------------------
(***************************************************************************)
(* SharedMemory and the lock of the allocator inside the segment, another  *)
(* RobustLock, which processes use once they are ready.  It is constructed *)
(* with the allocator, and reset whenever the segment is.                  *)
(***************************************************************************)
EXTENDS SharedMemory

CONSTANTS Operations, CrashPoints   \* see RobustLock

VARIABLES rwlock, exclusive_owner, shared_owners, pc, op, found, cursor, slot,
          wiped    \* history: the lock was reset when somebody was inside

userVars == <<pc, op, found, cursor, slot>>
segmentVars == <<vars, rwlock, exclusive_owner, shared_owners, userVars, wiped>>

Lock == INSTANCE RobustLock

SegmentInit == Init /\ Lock!Init /\ wiped = FALSE

(* new AllocatorT() *)
ConstructLock(t) ==
  /\ ConstructAllocator(t)
  /\ rwlock' = Lock!Unlocked /\ exclusive_owner' = NoPid
  /\ shared_owners' = [i \in 1 .. Slots |-> NoPid]
  /\ UNCHANGED <<userVars, wiped>>

(* allocator_->lock_reset() is RobustLock::reset(), which initialises      *)
(* mutex_ anew and nothing else.                                           *)
ResetMutex(t) ==
  /\ ResetLock(t)
  /\ rwlock' = Lock!Unlocked
  /\ wiped' = (wiped \/ \E u \in Threads : Inside(u))
  /\ UNCHANGED <<exclusive_owner, shared_owners, userVars>>

(* All else that happens to the segment. *)
SegmentStep(t) ==
  /\ \/ Create(t) \/ Truncate(t) \/ ConstructPidSet(t) \/ ConstructQueue(t)
     \/ InitQueue(t) \/ Open(t) \/ Wake(t) \/ LockPids(t) \/ EnterPids(t)
     \/ Scan(t) \/ RemovePid(t) \/ Decide(t) \/ ResetElements(t)
     \/ ResetCounter(t) \/ ResetHeap(t) \/ UnlockPids(t) \/ Record(t)
  /\ UNCHANGED <<rwlock, exclusive_owner, shared_owners, userVars, wiped>>

(* A process that is ready uses the lock. *)
UseLock(t) ==
  /\ \/ In(t, "ready") /\ \E operation \in Operations : Lock!Call(t, operation)
     \/ Lock!Step(t)
  /\ UNCHANGED <<lockVars, built, pid_set, data, phase, scan, late, wiped>>

(* A process dies. *)
SegmentCrash(p) == Crash(p) /\ Lock!Crash(p) /\ UNCHANGED wiped

SegmentNext ==
  \/ \E t \in Threads :
       \/ ConstructLock(t) \/ ResetMutex(t) \/ SegmentStep(t) \/ UseLock(t)
       \/ WakeTooEarly(t) /\ Lock!Crash(PidOf[t]) /\ UNCHANGED wiped
  \/ \E p \in MayCrash : SegmentCrash(p)

SegmentSpec == SegmentInit /\ [][SegmentNext]_segmentVars

(* At most one live process holds the allocator's lock, across resets of   *)
(* the segment, which are to reset all locks: as long as the lock is not   *)
(* constructed or reset under somebody who uses it already.                *)
MutualExclusion == ~ late /\ ~ wiped => Lock!MutualExclusion

=============================================================================
