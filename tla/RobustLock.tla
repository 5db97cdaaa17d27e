----------------------------- MODULE RobustLock -----------------------------
(***************************************************************************)
(* The reader-writer lock of include/shadesmar/concurrency/robust_lock.h,  *)
(* which lives in shared memory and is meant to survive the death of a     *)
(* process that holds it.  It keeps a pthread rwlock (`mutex_`), the pid   *)
(* of the process that holds it exclusively and a LocklessSet of the pids  *)
(* that hold it shared; a thread that fails to get the rwlock looks in     *)
(* those two for dead processes and gives back what they held.             *)
(*                                                                         *)
(* Every access to shared memory is a step, and a process may crash        *)
(* between any two of them.  The sleep between two attempts is left out.   *)
(***************************************************************************)
EXTENDS Integers, FiniteSets

CONSTANTS Threads,      \* the threads that use the lock
          Pids,         \* their processes
          PidOf,        \* the process of each thread
          NoPid,        \* the pid 0
          NoThread,     \* the rwlock has no writer
          Slots,        \* the size of the LocklessSet, 8 in the code
          Operations,   \* the operations threads call
          CrashPoints,  \* the places where a process may crash
          OwnerChecked  \* how pthread_rwlock_unlock may work, see UnlockRW

ASSUME RobustLockAssumption ==
  /\ IsFiniteSet(Threads) /\ PidOf \in [Threads -> Pids]
  /\ NoPid \notin Pids /\ NoThread \notin Threads
  /\ Slots \in Nat \ {0}
  /\ Operations \subseteq
       {"lock", "try_lock", "lock_sharable", "try_lock_sharable"}
  /\ OwnerChecked \subseteq BOOLEAN /\ OwnerChecked # {}

VARIABLES rwlock,            \* mutex_: [writer, readers]
          exclusive_owner,   \* the pid that holds the lock exclusively, or NoPid
          shared_owners,     \* the slots of the LocklessSet
          alive,             \* the processes that have not crashed
          pc,                \* where each thread is
          op,                \* the operation it is in
          found,             \* the pid it has loaded (ex_proc, shared_owner)
          cursor,            \* the slot prune_readers has come to
          slot               \* the slot remove is about to clear

shared == <<rwlock, exclusive_owner, shared_owners>>
vars == <<shared, alive, pc, op, found, cursor, slot>>

Exclusive(t) == op[t] \in {"lock", "try_lock"}
Blocking(t) == op[t] \in {"lock", "lock_sharable"}
Up(t) == PidOf[t] \in alive

-----------------------------------------------------------------------------
(* The pthread rwlock (concurrency/rw_lock.h over the C library)           *)

Unlocked == [writer |-> NoThread, readers |-> 0]

(* Whether trywrlock or tryrdlock succeeds, and what it does. *)
CanTake(t) == rwlock.writer = NoThread /\ (Exclusive(t) => rwlock.readers = 0)

Taken(t) == IF Exclusive(t) THEN [rwlock EXCEPT !.writer = t]
                            ELSE [rwlock EXCEPT !.readers = @ + 1]

(* unlock and unlock_sharable are both pthread_rwlock_unlock.  Unlocking   *)
(* for somebody else is undefined.  A library that goes by the state of    *)
(* the rwlock releases its writer; one that goes by the owner (glibc since *)
(* 2.25) takes whoever is not the writer for a reader and decrements the   *)
(* readers, below zero if there are none, and nobody gets in again.        *)
UnlockRW(t) ==
  \E checked \in OwnerChecked :
    rwlock' = IF rwlock.writer = t \/ (~ checked /\ rwlock.writer # NoThread)
              THEN [rwlock EXCEPT !.writer = NoThread]
              ELSE [rwlock EXCEPT !.readers = @ - 1]

-----------------------------------------------------------------------------
(* Steps of the operations                                                 *)

Init ==
  /\ rwlock = Unlocked
  /\ exclusive_owner = NoPid
  /\ shared_owners = [i \in 1 .. Slots |-> NoPid]
  /\ alive = Pids
  /\ pc = [t \in Threads |-> "idle"]
  /\ op = [t \in Threads |-> "lock"]
  /\ found = [t \in Threads |-> NoPid]
  /\ cursor = [t \in Threads |-> 1]
  /\ slot = [t \in Threads |-> 0]

(* A thread of a live process moves on. *)
At(t, place) == Up(t) /\ pc[t] = place
Goto(t, place) == pc' = [pc EXCEPT ![t] = place]
Locals == <<op, found, cursor, slot>>

(* What the thread loaded is of no use any more. *)
Forget(t) ==
  /\ found' = [found EXCEPT ![t] = NoPid]
  /\ cursor' = [cursor EXCEPT ![t] = 1]
  /\ slot' = [slot EXCEPT ![t] = 0]

(* The operation returns. *)
Return(t) ==
  /\ Goto(t, "idle")
  /\ op' = [op EXCEPT ![t] = "lock"]
  /\ Forget(t)

(* An attempt continues after looking for dead processes: lock and         *)
(* lock_sharable start over, try_lock and try_lock_sharable try once more. *)
Again(t) ==
  /\ Goto(t, IF Blocking(t) THEN "try" ELSE "last")
  /\ Forget(t)
  /\ UNCHANGED op

(* An operation is called. *)
Call(t, operation) ==
  /\ At(t, "idle")
  /\ op' = [op EXCEPT ![t] = operation]
  /\ Goto(t, "try")
  /\ UNCHANGED <<shared, alive, found, cursor, slot>>

(* mutex_.try_lock() or mutex_.try_lock_sharable() succeeds ... *)
TrySucceeds(t) ==
  /\ At(t, "try") \/ At(t, "last")
  /\ CanTake(t)
  /\ rwlock' = Taken(t)
  /\ Goto(t, IF Exclusive(t) THEN "own" ELSE "insert")
  /\ UNCHANGED <<exclusive_owner, shared_owners, alive, Locals>>

(* ... or fails. *)
TryFails(t) ==
  /\ At(t, "try") \/ At(t, "last")
  /\ ~ CanTake(t)
  /\ IF pc[t] = "try" THEN Goto(t, "check") /\ UNCHANGED Locals ELSE Return(t)
  /\ UNCHANGED <<shared, alive>>

(* exclusive_owner = getpid() *)
Own(t) ==
  /\ At(t, "own")
  /\ exclusive_owner' = PidOf[t]
  /\ Goto(t, "held")
  /\ UNCHANGED <<rwlock, shared_owners, alive, Locals>>

(* Mutant: the search does not begin again. *)
NextSlotUpToLast(t) ==
  cursor' = [cursor EXCEPT ![t] = IF @ = Slots THEN @ ELSE @ + 1]

(* LocklessSet::insert goes on to the next slot; after the last one it     *)
(* returns false, and the loop around it calls it again.                   *)
NextSlot(t) ==
  cursor' = [cursor EXCEPT ![t] = IF @ = Slots THEN 1 ELSE @ + 1]

(* while (!shared_owners.insert(getpid())) {}: a slot is loaded.  Finding  *)
(* its own pid, insert returns false ...                                   *)
Insert(t) ==
  LET probed == shared_owners[cursor[t]]
  IN /\ At(t, "insert")
     /\ \/ probed = NoPid /\ Goto(t, "insert_cas") /\ UNCHANGED cursor
        \/ probed = PidOf[t] /\ cursor' = [cursor EXCEPT ![t] = 1] /\ UNCHANGED pc
        \/ probed \notin {NoPid, PidOf[t]} /\ NextSlot(t) /\ UNCHANGED pc
     /\ UNCHANGED <<shared, alive, op, found, slot>>

(* Mutant: the pid is stored into a slot that was free a moment ago. *)
InsertCasByStore(t) ==
  /\ At(t, "insert_cas")
  /\ shared_owners' = [shared_owners EXCEPT ![cursor[t]] = PidOf[t]]
  /\ Goto(t, "held")
  /\ Forget(t)
  /\ UNCHANGED <<rwlock, exclusive_owner, alive, op>>

(* ... and a slot that was free is taken, if it still is.                  *)
InsertCas(t) ==
  /\ At(t, "insert_cas")
  /\ \/ /\ shared_owners[cursor[t]] = NoPid
        /\ shared_owners' = [shared_owners EXCEPT ![cursor[t]] = PidOf[t]]
        /\ Goto(t, "held")
        /\ Forget(t)
     \/ /\ shared_owners[cursor[t]] # NoPid
        /\ NextSlot(t)
        /\ Goto(t, "insert")
        /\ UNCHANGED <<shared_owners, found, slot>>
  /\ UNCHANGED <<rwlock, exclusive_owner, alive, op>>

(* Mutant: the owner is taken for dead without a look. *)
CheckTrustsNobody(t) ==
  /\ At(t, "check")
  /\ \/ /\ exclusive_owner = NoPid /\ Exclusive(t)
        /\ Goto(t, "prune")
        /\ UNCHANGED Locals
     \/ exclusive_owner = NoPid /\ ~ Exclusive(t) /\ Again(t)
     \/ /\ exclusive_owner # NoPid
        /\ found' = [found EXCEPT ![t] = exclusive_owner]
        /\ Goto(t, "recover")
        /\ UNCHANGED <<op, cursor, slot>>
  /\ UNCHANGED <<shared, alive>>

(* exclusive_owner is loaded and its process looked up (proc_dead). *)
Check(t) ==
  /\ At(t, "check")
  /\ \/ /\ exclusive_owner = NoPid /\ Exclusive(t)
        /\ Goto(t, "prune")
        /\ UNCHANGED Locals
     \/ /\ exclusive_owner \in alive \/ (exclusive_owner = NoPid /\ ~ Exclusive(t))
        /\ Again(t)
     \/ /\ exclusive_owner \notin alive \cup {NoPid}
        /\ found' = [found EXCEPT ![t] = exclusive_owner]
        /\ Goto(t, "recover")
        /\ UNCHANGED <<op, cursor, slot>>
  /\ UNCHANGED <<shared, alive>>

(* Mutant: a store instead of a compare-and-swap. *)
RecoverByStore(t) ==
  /\ At(t, "recover")
  /\ exclusive_owner' = NoPid /\ Goto(t, "release")
  /\ UNCHANGED <<rwlock, shared_owners, alive, Locals>>

(* exclusive_owner.compare_exchange_strong(ex_proc, 0) *)
Recover(t) ==
  /\ At(t, "recover")
  /\ IF exclusive_owner = found[t]
     THEN exclusive_owner' = NoPid /\ Goto(t, "release") /\ UNCHANGED Locals
     ELSE Again(t) /\ UNCHANGED exclusive_owner
  /\ UNCHANGED <<rwlock, shared_owners, alive>>

(* mutex_.unlock() for the dead owner; the shared operations store         *)
(* exclusive_owner = 0 once more before it.                                *)
Release(t) ==
  /\ At(t, "release")
  /\ UnlockRW(t)
  /\ exclusive_owner' = IF Exclusive(t) THEN exclusive_owner ELSE NoPid
  /\ Again(t)
  /\ UNCHANGED <<shared_owners, alive>>

(* Mutant: the scan runs past the last slot. *)
PrunePastEnd(t) ==
  /\ At(t, "prune")
  /\ \/ cursor[t] > Slots + 1 /\ Again(t)
     \/ /\ cursor[t] <= Slots + 1
        /\ cursor' = [cursor EXCEPT ![t] = @ + 1]
        /\ UNCHANGED <<pc, op, found, slot>>
  /\ UNCHANGED <<shared, alive>>

(* prune_readers() loads slot after slot and, for a dead pid, calls        *)
(* remove(pid).                                                            *)
Prune(t) ==
  LET i == cursor[t]
  IN /\ At(t, "prune")
     /\ \/ i > Slots /\ Again(t)
        \/ /\ i <= Slots /\ shared_owners[i] \in alive \cup {NoPid}
           /\ cursor' = [cursor EXCEPT ![t] = i + 1]
           /\ UNCHANGED <<pc, op, found, slot>>
        \/ /\ i <= Slots /\ shared_owners[i] \notin alive \cup {NoPid}
           /\ cursor' = [cursor EXCEPT ![t] = i + 1]
           /\ found' = [found EXCEPT ![t] = shared_owners[i]]
           /\ slot' = [slot EXCEPT ![t] = 1]
           /\ Goto(t, "remove")
           /\ UNCHANGED op
     /\ UNCHANGED <<shared, alive>>

(* LocklessSet::remove(pid) returns false: prune_readers goes on, and      *)
(* unlock_sharable returns without unlocking.                              *)
NotRemoved(t) ==
  IF Exclusive(t) THEN Goto(t, "prune") /\ UNCHANGED Locals ELSE Return(t)

(* remove(pid) loads slot after slot, up to the first that holds the pid.  *)
Remove(t) ==
  LET hit == shared_owners[slot[t]] = found[t]
  IN /\ At(t, "remove")
     /\ \/ hit /\ Goto(t, "remove_cas") /\ UNCHANGED Locals
        \/ /\ ~ hit /\ slot[t] < Slots
           /\ slot' = [slot EXCEPT ![t] = @ + 1]
           /\ UNCHANGED <<pc, op, found, cursor>>
        \/ ~ hit /\ slot[t] = Slots /\ NotRemoved(t)
     /\ UNCHANGED <<shared, alive>>

(* Mutant: a read lock is given back even if somebody else did it. *)
RemoveUnchecked(t) ==
  /\ At(t, "remove_cas")
  /\ shared_owners' = [shared_owners EXCEPT ![slot[t]] = NoPid]
  /\ Goto(t, IF Exclusive(t) THEN "prune_unlock" ELSE "unlock")
  /\ UNCHANGED <<rwlock, exclusive_owner, alive, Locals>>

(* The compare-and-swap of remove. *)
RemoveCas(t) ==
  /\ At(t, "remove_cas")
  /\ IF shared_owners[slot[t]] = found[t]
     THEN /\ shared_owners' = [shared_owners EXCEPT ![slot[t]] = NoPid]
          /\ Goto(t, IF Exclusive(t) THEN "prune_unlock" ELSE "unlock")
          /\ UNCHANGED Locals
     ELSE NotRemoved(t) /\ UNCHANGED shared_owners
  /\ UNCHANGED <<rwlock, exclusive_owner, alive>>

(* prune_readers() gives back the read lock of the dead process. *)
PruneUnlock(t) ==
  /\ At(t, "prune_unlock")
  /\ UnlockRW(t)
  /\ Goto(t, "prune")
  /\ UNCHANGED <<exclusive_owner, shared_owners, alive, Locals>>

(* Mutant: exclusive_owner is left as it is. *)
UnlockKeepsOwner(t) ==
  /\ At(t, "held") /\ Exclusive(t)
  /\ Goto(t, "unlock")
  /\ UNCHANGED <<shared, alive, Locals>>

(* unlock(): compare_exchange_strong(current_pid, 0), or nothing at all. *)
Unlock(t) ==
  /\ At(t, "held") /\ Exclusive(t)
  /\ IF exclusive_owner = PidOf[t]
     THEN exclusive_owner' = NoPid /\ Goto(t, "unlock") /\ UNCHANGED Locals
     ELSE Return(t) /\ UNCHANGED exclusive_owner
  /\ UNCHANGED <<rwlock, shared_owners, alive>>

(* unlock_sharable() calls remove(getpid()). *)
UnlockSharable(t) ==
  /\ At(t, "held") /\ ~ Exclusive(t)
  /\ found' = [found EXCEPT ![t] = PidOf[t]]
  /\ slot' = [slot EXCEPT ![t] = 1]
  /\ Goto(t, "remove")
  /\ UNCHANGED <<shared, alive, op, cursor>>

(* mutex_.unlock() or mutex_.unlock_sharable() at the end of either. *)
Finish(t) ==
  /\ At(t, "unlock")
  /\ UnlockRW(t)
  /\ Return(t)
  /\ UNCHANGED <<exclusive_owner, shared_owners, alive>>

-----------------------------------------------------------------------------
(* Processes                                                               *)

(* Whether a thread that dies leaves something behind: the rwlock, its pid *)
(* in the record, or a lock it was about to give back for another.         *)
LeavesTrace(t) ==
  \/ pc[t] \in {"own", "insert", "insert_cas", "held", "unlock",
                "release", "prune_unlock"}
  \/ ~ Exclusive(t) /\ pc[t] \in {"remove", "remove_cas"}

(* A process dies, with all its threads where they are; what they have     *)
(* loaded is lost, and one that leaves no trace might as well be idle.     *)
Crash(p) ==
  LET Lost(f, nothing) == [t \in Threads |-> IF PidOf[t] = p THEN nothing ELSE f[t]]
      Kept(f, nothing) ==
        [t \in Threads |-> IF PidOf[t] = p /\ ~ LeavesTrace(t) THEN nothing ELSE f[t]]
  IN /\ p \in alive
     /\ \A t \in Threads : PidOf[t] = p => pc[t] \in CrashPoints
     /\ alive' = alive \ {p}
     /\ found' = Lost(found, NoPid) /\ cursor' = Lost(cursor, 1) /\ slot' = Lost(slot, 0)
     /\ pc' = Kept(pc, "idle") /\ op' = Kept(op, "lock")
     /\ UNCHANGED shared

(* What a thread does on its own, once it has called an operation. *)
Step(t) ==
  \/ TrySucceeds(t) \/ TryFails(t) \/ Own(t) \/ Insert(t) \/ InsertCas(t)
  \/ Check(t) \/ Recover(t) \/ Release(t)
  \/ Prune(t) \/ Remove(t) \/ RemoveCas(t) \/ PruneUnlock(t)
  \/ Unlock(t) \/ UnlockSharable(t) \/ Finish(t)

Next ==
  \/ \E t \in Threads : Step(t)
  \/ \E t \in Threads, operation \in Operations : Call(t, operation)
  \/ \E p \in Pids : Crash(p)

Spec == Init /\ [][Next]_vars

(* A live thread that is not idle keeps running. *)
FairSpec == Spec /\ \A t \in Threads : WF_vars(Step(t))

-----------------------------------------------------------------------------
(* Properties                                                              *)

TypeOK ==
  /\ rwlock \in [writer : Threads \cup {NoThread}, readers : Int]
  /\ exclusive_owner \in Pids \cup {NoPid}
  /\ shared_owners \in [1 .. Slots -> Pids \cup {NoPid}]
  /\ alive \subseteq Pids
  /\ pc \in [Threads -> {"idle", "try", "last", "own", "insert", "insert_cas",
                         "check", "recover", "release", "prune", "prune_unlock",
                         "held", "remove", "remove_cas", "unlock"}]
  /\ op \in [Threads -> {"lock", "try_lock", "lock_sharable", "try_lock_sharable"}]
  /\ found \in [Threads -> Pids \cup {NoPid}]
  /\ cursor \in [Threads -> 1 .. Slots + 1]
  /\ slot \in [Threads -> 0 .. Slots]

(* A live thread that holds the lock exclusively is the only live holder,  *)
(* whatever died and was cleaned up after before.                          *)
MutualExclusion ==
  \A t, u \in Threads :
    t # u /\ At(t, "held") /\ At(u, "held") => ~ Exclusive(t) /\ ~ Exclusive(u)

(* exclusive_owner names a process only while one of its threads, alive or *)
(* dead, is inside: recovery never hits a lock that was given back.        *)
OwnerIsInside ==
  exclusive_owner # NoPid =>
    \E t \in Threads : /\ PidOf[t] = exclusive_owner
                       /\ Exclusive(t) /\ pc[t] = "held"
                       /\ rwlock.writer = t

Count(S) == Cardinality(S)

(* The read locks that are on record or in the hands of a thread: pids in  *)
(* the set, readers on the way into or out of it, and waiters that are     *)
(* about to give one back.                                                 *)
Accounted ==
  Count({ i \in 1 .. Slots : shared_owners[i] # NoPid })
  + Count({ t \in Threads :
              ~ Exclusive(t) /\ pc[t] \in {"insert", "insert_cas", "unlock"} })
  + Count({ t \in Threads : pc[t] = "prune_unlock" })

(* A waiter has unlocked the rwlock for a dead writer, and the library has *)
(* taken it for a reader.                                                  *)
Wedged ==
  /\ rwlock.readers = -1
  /\ \E t \in Threads : rwlock.writer = t /\ ~ Up(t)

(* The rwlock counts as many read locks as are accounted for, so that none *)
(* is given back twice, nor before its pid is off the record, whoever      *)
(* prunes whom; the one time the count goes wrong it is wedged with a dead *)
(* writer, and there are no readers.                                       *)
ReadersAccounted ==
  rwlock.readers = Accounted \/ (Wedged /\ Accounted = 0)

(* Nobody but the writer itself ends the exclusive lock of a live thread.  *)
HoldIsNotTaken ==
  [][\A t \in Threads :
       rwlock.writer = t /\ Up(t) /\ rwlock'.writer # t => pc[t] = "unlock"]_vars

(* A live thread inside lock or lock_sharable that does not have the       *)
(* rwlock, and a live thread that has it.                                  *)
Waiting(t) ==
  /\ Up(t) /\ Blocking(t)
  /\ \/ pc[t] \in {"try", "check", "recover", "release", "prune", "prune_unlock"}
     \/ Exclusive(t) /\ pc[t] \in {"remove", "remove_cas"}
Inside(t) ==
  /\ Up(t)
  /\ \/ pc[t] \in {"own", "insert", "insert_cas", "held", "unlock"}
     \/ ~ Exclusive(t) /\ pc[t] \in {"remove", "remove_cas"}

(* A process has died with the rwlock in its hands and its pid off the     *)
(* record, or with what it had taken off the record for a dead process.    *)
DiedOffRecord ==
  \E t \in Threads :
    ~ Up(t) /\ pc[t] \in {"own", "insert", "insert_cas",
                            "release", "prune_unlock", "unlock"}

(* The set holds a process more often than it has readers inside: two of   *)
(* its threads unlocked at once, both found its pid in the same slot, and  *)
(* the one that lost the swap gave up.                                     *)
PidLeft ==
  \E p \in Pids :
    Count({ i \in 1 .. Slots : shared_owners[i] = p }) >
      Count({ t \in Threads : /\ PidOf[t] = p /\ ~ Exclusive(t)
                              /\ pc[t] \in {"held", "remove", "remove_cas"} })

(* The lock is never left with waiters and no live holder: what the dead   *)
(* held comes free while somebody waits for it.  There are three ways for  *)
(* it to be lost, and no other: a death off the record, a rwlock that was  *)
(* unlocked for a dead writer by a library that minds, and a pid left in   *)
(* the set.                                                                *)
WaitersGetIn ==
  (\E t \in Threads : Waiting(t)) ~>
    \/ \E t \in Threads : Inside(t)
    \/ ~ \E t \in Threads : Waiting(t)
    \/ DiedOffRecord \/ Wedged \/ PidLeft

(* The readers other than t that are inside, or died there.               *)
OtherReaders(t) ==
  { u \in Threads \ {t} :
      /\ ~ Exclusive(u)
      /\ pc[u] \in {"insert", "insert_cas", "held", "remove", "remove_cas"} }

(* A reader that has the rwlock gets its pid into the set, whatever the    *)
(* others insert and remove behind its back while it scans, unless they    *)
(* are at some time as many as the set has slots, one of them is of its    *)
(* own process, or a pid has been left there.                              *)
InsertEnds ==
  \A t \in Threads :
    At(t, "insert") ~> \/ ~ Up(t)
                       \/ pc[t] \notin {"insert", "insert_cas"}
                       \/ Count(OtherReaders(t)) >= Slots
                       \/ \E u \in OtherReaders(t) : PidOf[u] = PidOf[t]
                       \/ PidLeft

=============================================================================
