---------------------------- MODULE SharedMemory ----------------------------
(***************************************************************************)
(* How processes get at a segment of shared memory: create_memory_segment  *)
(* and the constructor of Memory (include/shadesmar/memory/memory.h).      *)
(* Whoever creates the segment constructs a PIDSet, the queue and the      *)
(* allocator in it.  Everyone else waits 10 ms, takes the lock of the      *)
(* PIDSet, and resets the segment if all pids on record are dead.  Any     *)
(* number of processes may do so at once, and die anywhere.                *)
(*                                                                         *)
(* The lock of the PIDSet is a RobustLock, taken step by step.  Of what is *)
(* in the segment it is only said whether it is in use.                    *)
(***************************************************************************)
EXTENDS Integers, FiniteSets

CONSTANTS Threads, Pids, PidOf, NoPid, NoThread, Slots,
          OwnerChecked,  \* see RobustLock
          PidSlots,      \* the size of the PIDSet, 32 in the code
          MayCrash       \* bound: the processes that may die

ASSUME SharedMemoryAssumption ==
  /\ IsFiniteSet(Threads) /\ PidOf \in [Threads -> Pids]
  /\ NoPid \notin Pids /\ NoThread \notin Threads
  /\ Slots \in Nat \ {0} /\ PidSlots \in Nat \ {0}
  /\ OwnerChecked \subseteq BOOLEAN /\ OwnerChecked # {}

VARIABLES pids_rwlock, pids_owner,          \* the lock of the PIDSet
          pids_pc, pids_found, pids_cursor, \* and its users
          alive,      \* the processes that have not died
          built,      \* the parts of the segment that exist
          pid_set,    \* the slots of the PIDSet
          data,       \* the parts of the segment that are used
          phase,      \* where each thread is in the constructor of its Memory
          probe,      \* the slot of the PIDSet it has come to
          seen,       \* whether any_alive has found a live process
          dead,       \* the dead pid that any_alive is about to remove
          known,      \* history: the pids on record when it took the lock
          late        \* history: the PIDSet was constructed when in use

lockVars == <<pids_rwlock, pids_owner, pids_pc, pids_found, pids_cursor>>
scan == <<probe, seen, dead, known>>
vars == <<lockVars, alive, built, pid_set, data, phase, scan, late>>

(* The lock of the PIDSet.  It is never taken shared.                      *)
PidLock == INSTANCE RobustLock WITH
  Operations <- {"lock"},
  CrashPoints <- {"idle", "try", "own", "check", "recover", "release", "prune",
                  "held", "unlock"},
  rwlock <- pids_rwlock, exclusive_owner <- pids_owner,
  shared_owners <- [i \in 1 .. Slots |-> NoPid],
  pc <- pids_pc, op <- [t \in Threads |-> "lock"],
  found <- pids_found, cursor <- pids_cursor, slot <- [t \in Threads |-> 0]

(* What has to be set up, and what holds data.                             *)
Parts == {"name", "pages", "pid_set", "queue", "allocator"}
Contents == {"elements", "counter", "heap"}

(* The phases of the process that creates the segment, and of the others.  *)
Building == {"truncate", "pid_set", "queue", "allocator", "record_new", "init"}
Resetting == {"reset_lock", "reset_elements", "reset_counter", "reset_heap"}
Locking == {"scan", "remove", "unlock"} \cup Resetting
Attaching == {"wait", "lock", "record"} \cup Locking

Init ==
  /\ PidLock!Init
  /\ built = {}
  /\ pid_set = [i \in 1 .. PidSlots |-> NoPid]
  /\ data = [c \in Contents |-> "clean"]
  /\ phase = [t \in Threads |-> "out"]
  /\ probe = [t \in Threads |-> 1]
  /\ seen = [t \in Threads |-> FALSE]
  /\ dead = [t \in Threads |-> NoPid]
  /\ known = [t \in Threads |-> {}]
  /\ late = FALSE

Up(t) == PidOf[t] \in alive
In(t, place) == Up(t) /\ phase[t] = place
Enter(t, place) == phase' = [phase EXCEPT ![t] = place]

-----------------------------------------------------------------------------
(* The first process *)

(* shm_open with O_EXCL finds no segment of that name. *)
Create(t) ==
  /\ In(t, "out") /\ "name" \notin built
  /\ built' = built \cup {"name"}
  /\ Enter(t, "truncate")
  /\ UNCHANGED <<lockVars, alive, pid_set, data, scan, late>>

(* ftruncate: pages full of zeros, in which the lock of the PIDSet is free. *)
Truncate(t) ==
  /\ In(t, "truncate")
  /\ built' = built \cup {"pages"}
  /\ Enter(t, "pid_set")
  /\ UNCHANGED <<lockVars, alive, pid_set, data, scan, late>>

(* new PIDSet() clears what is there, also if somebody uses it already.    *)
ConstructPidSet(t) ==
  /\ In(t, "pid_set")
  /\ built' = built \cup {"pid_set"}
  /\ pids_rwlock' = PidLock!Unlocked /\ pids_owner' = NoPid
  /\ pid_set' = [i \in 1 .. PidSlots |-> NoPid]
  /\ known' = [u \in Threads |-> {}]
  /\ late' = (late \/ \E u \in Threads : \/ phase[u] \notin {"out", "wait"} \cup Building
                                        \/ pids_pc[u] # "idle")
  /\ Enter(t, "queue")
  /\ UNCHANGED <<pids_pc, pids_found, pids_cursor, alive, data, probe, seen, dead>>

(* new SharedQueue() *)
ConstructQueue(t) ==
  /\ In(t, "queue")
  /\ built' = built \cup {"queue"}
  /\ data' = [data EXCEPT !["elements"] = "clean", !["counter"] = "clean"]
  /\ Enter(t, "allocator")
  /\ UNCHANGED <<lockVars, alive, pid_set, scan, late>>

(* new AllocatorT() *)
ConstructAllocator(t) ==
  /\ In(t, "allocator")
  /\ built' = built \cup {"allocator"}
  /\ data' = [data EXCEPT !["heap"] = "clean"]
  /\ Enter(t, "record_new")
  /\ UNCHANGED <<lockVars, alive, pid_set, scan, late>>

(* init_shared_queue() *)
InitQueue(t) ==
  /\ In(t, "init")
  /\ data' = [data EXCEPT !["counter"] = "clean"]
  /\ Enter(t, "ready")
  /\ UNCHANGED <<lockVars, alive, built, pid_set, scan, late>>

-----------------------------------------------------------------------------
(* The processes that come later *)

(* shm_open finds the segment. *)
Open(t) ==
  /\ In(t, "out") /\ "name" \in built
  /\ Enter(t, "wait")
  /\ UNCHANGED <<lockVars, alive, built, pid_set, data, scan, late>>

(* The 10 ms are over, and pid_set_->lock() is called. *)
Wake(t) ==
  /\ In(t, "wait") /\ "pages" \in built
  /\ PidLock!Call(t, "lock")
  /\ Enter(t, "lock")
  /\ UNCHANGED <<built, pid_set, data, scan, late>>

(* pid_set_->lock() *)
LockPids(t) ==
  /\ In(t, "lock")
  /\ \/ PidLock!TrySucceeds(t) \/ PidLock!TryFails(t)
     \/ PidLock!Check(t) \/ PidLock!Recover(t) \/ PidLock!Release(t)
     \/ PidLock!Prune(t)
  /\ UNCHANGED <<built, pid_set, data, phase, scan, late>>

(* Somebody is about to use the segment, or uses it already.               *)
Inside(t) == Up(t) /\ phase[t] \in Building \cup {"record", "ready"}

(* pid_set_->lock() has recorded the owner and returns.  If nobody else is *)
(* inside, what the dead have used is left over.                           *)
EnterPids(t) ==
  /\ In(t, "lock") /\ PidLock!Own(t)
  /\ known' = [known EXCEPT ![t] = { pid_set[i] : i \in 1 .. PidSlots } \ {NoPid}]
  /\ data' = IF \E u \in Threads : Inside(u) THEN data
             ELSE [c \in Contents |-> IF data[c] = "used" THEN "left" ELSE data[c]]
  /\ Enter(t, "scan")
  /\ UNCHANGED <<built, pid_set, probe, seen, dead, late>>

(* Mutant: only the last pid on record counts. *)
ScanLast(t) ==
  LET pid == pid_set[probe[t]]
  IN /\ In(t, "scan") /\ probe[t] <= PidSlots
     /\ \/ /\ pid \in alive \cup {NoPid}
           /\ seen' = [seen EXCEPT ![t] = pid # NoPid]
           /\ probe' = [probe EXCEPT ![t] = @ + 1]
           /\ UNCHANGED <<phase, dead>>
        \/ /\ pid \notin alive \cup {NoPid}
           /\ dead' = [dead EXCEPT ![t] = pid]
           /\ Enter(t, "remove")
           /\ UNCHANGED <<probe, seen>>
     /\ UNCHANGED <<lockVars, alive, built, pid_set, data, known, late>>

(* any_alive() loads slot after slot ... *)
Scan(t) ==
  LET pid == pid_set[probe[t]]
  IN /\ In(t, "scan") /\ probe[t] <= PidSlots
     /\ \/ /\ pid \in alive \cup {NoPid}
           /\ seen' = [seen EXCEPT ![t] = @ \/ pid # NoPid]
           /\ probe' = [probe EXCEPT ![t] = @ + 1]
           /\ UNCHANGED <<phase, dead>>
        \/ /\ pid \notin alive \cup {NoPid}
           /\ dead' = [dead EXCEPT ![t] = pid]
           /\ Enter(t, "remove")
           /\ UNCHANGED <<probe, seen>>
     /\ UNCHANGED <<lockVars, alive, built, pid_set, data, known, late>>

(* ... and tries to remove a dead pid until it succeeds, which is never if *)
(* the pid is gone.                                                        *)
RemovePid(t) ==
  LET slots == { i \in 1 .. PidSlots : pid_set[i] = dead[t] }
  IN /\ In(t, "remove")
     /\ \E i \in slots : /\ \A j \in slots : i <= j
                         /\ pid_set' = [pid_set EXCEPT ![i] = NoPid]
     /\ dead' = [dead EXCEPT ![t] = NoPid]
     /\ probe' = [probe EXCEPT ![t] = @ + 1]
     /\ Enter(t, "scan")
     /\ UNCHANGED <<lockVars, alive, built, data, seen, known, late>>

(* any_alive() returns; if it has seen nobody the segment is reset. *)
Decide(t) ==
  /\ In(t, "scan") /\ probe[t] > PidSlots
  /\ probe' = [probe EXCEPT ![t] = 1] /\ seen' = [seen EXCEPT ![t] = FALSE]
  /\ Enter(t, IF seen[t] THEN "unlock" ELSE "reset_lock")
  /\ UNCHANGED <<lockVars, alive, built, pid_set, data, dead, known, late>>

(* allocator_->lock_reset(); see SegmentLock for the lock. *)
ResetLock(t) ==
  /\ In(t, "reset_lock")
  /\ Enter(t, "reset_elements")
  /\ UNCHANGED <<lockVars, alive, built, pid_set, data, scan, late>>

(* Mutant: the counter stays. *)
ResetElementsOnly(t) ==
  /\ In(t, "reset_elements")
  /\ data' = [data EXCEPT !["elements"] = "clean"]
  /\ Enter(t, "reset_heap")
  /\ UNCHANGED <<lockVars, alive, built, pid_set, scan, late>>

(* elem.reset() for all elements ... *)
ResetElements(t) ==
  /\ In(t, "reset_elements")
  /\ data' = [data EXCEPT !["elements"] = "clean"]
  /\ Enter(t, "reset_counter")
  /\ UNCHANGED <<lockVars, alive, built, pid_set, scan, late>>

(* ... counter = 0 ... *)
ResetCounter(t) ==
  /\ In(t, "reset_counter")
  /\ data' = [data EXCEPT !["counter"] = "clean"]
  /\ Enter(t, "reset_heap")
  /\ UNCHANGED <<lockVars, alive, built, pid_set, scan, late>>

(* ... and allocator_->reset(). *)
ResetHeap(t) ==
  /\ In(t, "reset_heap")
  /\ data' = [data EXCEPT !["heap"] = "clean"]
  /\ Enter(t, "unlock")
  /\ UNCHANGED <<lockVars, alive, built, pid_set, scan, late>>

(* Mutant: the lock is not given back. *)
UnlockPidsForgotten(t) ==
  /\ In(t, "unlock")
  /\ known' = [known EXCEPT ![t] = {}]
  /\ Enter(t, "record")
  /\ UNCHANGED <<lockVars, alive, built, pid_set, data, probe, seen, dead, late>>

(* pid_set_->unlock(), which does nothing if the owner is another one. *)
UnlockPids(t) ==
  /\ In(t, "unlock")
  /\ \/ /\ PidLock!Unlock(t) /\ pids_pc'[t] = "unlock"
        /\ UNCHANGED <<phase, known>>
     \/ /\ PidLock!Unlock(t) \/ PidLock!Finish(t)
        /\ pids_pc'[t] = "idle"
        /\ known' = [known EXCEPT ![t] = {}]
        /\ Enter(t, "record")
  /\ UNCHANGED <<built, pid_set, data, probe, seen, dead, late>>

-----------------------------------------------------------------------------
(* All of them *)

(* Mutant: the search runs past the last slot. *)
RecordPastEnd(t) ==
  LET probed == pid_set[probe[t]]
      Returns == /\ Enter(t, IF phase[t] = "record" THEN "ready" ELSE "init")
                 /\ probe' = [probe EXCEPT ![t] = 1]
  IN /\ In(t, "record") \/ In(t, "record_new")
     /\ \/ /\ probed = NoPid
           /\ pid_set' = [pid_set EXCEPT ![probe[t]] = PidOf[t]]
           /\ Returns
        \/ /\ probed = PidOf[t]
           /\ Returns
           /\ UNCHANGED pid_set
        \/ /\ probed # NoPid
           /\ probe' = [probe EXCEPT ![t] = @ + 1]
           /\ UNCHANGED <<phase, pid_set>>
     /\ UNCHANGED <<lockVars, alive, built, data, seen, dead, known, late>>

(* Mutant: the last slot is never used. *)
RecordNotInLast(t) ==
  LET probed == pid_set[probe[t]]
      Returns == /\ Enter(t, IF phase[t] = "record" THEN "ready" ELSE "init")
                 /\ probe' = [probe EXCEPT ![t] = 1]
  IN /\ In(t, "record") \/ In(t, "record_new")
     /\ \/ /\ probed = NoPid /\ probe[t] < PidSlots
           /\ pid_set' = [pid_set EXCEPT ![probe[t]] = PidOf[t]]
           /\ Returns
        \/ /\ probed = PidOf[t] \/ probe[t] = PidSlots
           /\ Returns
           /\ UNCHANGED pid_set
        \/ /\ probed # NoPid /\ probe[t] < PidSlots
           /\ probe' = [probe EXCEPT ![t] = @ + 1]
           /\ UNCHANGED <<phase, pid_set>>
     /\ UNCHANGED <<lockVars, alive, built, data, seen, dead, known, late>>

(* pid_set_->insert(getpid()) goes from slot to slot.  Its result is       *)
(* ignored: it fails if it comes across its own pid or past the last slot. *)
(* A slot that is lost between load and swap is one that was not free,     *)
(* except that the own pid, if another thread has won, does not stop it.   *)
Record(t) ==
  LET probed == pid_set[probe[t]]
      Returns == /\ Enter(t, IF phase[t] = "record" THEN "ready" ELSE "init")
                 /\ probe' = [probe EXCEPT ![t] = 1]
  IN /\ In(t, "record") \/ In(t, "record_new")
     /\ \/ /\ probed = NoPid
           /\ pid_set' = [pid_set EXCEPT ![probe[t]] = PidOf[t]]
           /\ Returns
        \/ /\ probed # NoPid /\ (probed = PidOf[t] \/ probe[t] = PidSlots)
           /\ Returns
           /\ UNCHANGED pid_set
        \/ /\ probed # NoPid /\ probe[t] < PidSlots
           /\ probe' = [probe EXCEPT ![t] = @ + 1]
           /\ UNCHANGED <<phase, pid_set>>
     /\ UNCHANGED <<lockVars, alive, built, data, seen, dead, known, late>>

(* A process that is ready writes to the segment, one part after the other *)
(* and in different orders: Topic::write begins with the heap,             *)
(* Channel::write_client with the counter.                                 *)
Write(t) ==
  /\ In(t, "ready")
  /\ \E c \in Contents :
       data' = [data EXCEPT ![c] = IF @ = "clean" THEN "used" ELSE @]
  /\ UNCHANGED <<lockVars, alive, built, pid_set, phase, scan, late>>

(* A process dies, or exits since it cannot have the segment; of a thread  *)
(* that is dead only matters whether its pid may be on record.             *)
Crash(p) ==
  /\ PidLock!Crash(p)
  /\ LET Lost(f, nothing) == [t \in Threads |-> IF PidOf[t] = p THEN nothing ELSE f[t]]
     IN /\ phase' = [t \in Threads |->
             IF PidOf[t] # p THEN phase[t]
             ELSE IF phase[t] \in {"record", "record_new", "init", "ready"} THEN "ready"
             ELSE "out"]
        /\ probe' = Lost(probe, 1) /\ seen' = Lost(seen, FALSE)
        /\ dead' = Lost(dead, NoPid) /\ known' = Lost(known, {})
  /\ UNCHANGED <<built, pid_set, data, late>>

(* The 10 ms are over before ftruncate: there is nothing to access, and    *)
(* the process gets a SIGBUS.                                              *)
WakeTooEarly(t) ==
  /\ In(t, "wait") /\ "pages" \notin built
  /\ Crash(PidOf[t])

Construct(t) ==
  \/ Truncate(t) \/ ConstructPidSet(t) \/ ConstructQueue(t)
  \/ ConstructAllocator(t) \/ InitQueue(t)

Attach(t) ==
  \/ Wake(t) \/ WakeTooEarly(t) \/ LockPids(t) \/ EnterPids(t)
  \/ Scan(t) \/ RemovePid(t) \/ Decide(t)
  \/ ResetLock(t) \/ ResetElements(t) \/ ResetCounter(t) \/ ResetHeap(t)
  \/ UnlockPids(t)

Next ==
  \/ \E t \in Threads :
       \/ Create(t) \/ Open(t) \/ Construct(t) \/ Attach(t) \/ Record(t) \/ Write(t)
  \/ \E p \in MayCrash : Crash(p)

Spec == Init /\ [][Next]_vars

(* A process that has begun to construct its Memory runs on. *)
FairSpec ==
  Spec /\ \A t \in Threads : WF_vars(Construct(t) \/ Attach(t) \/ Record(t))

-----------------------------------------------------------------------------
(* Properties *)

TypeOK ==
  /\ PidLock!TypeOK
  /\ built \subseteq Parts
  /\ pid_set \in [1 .. PidSlots -> Pids \cup {NoPid}]
  /\ data \in [Contents -> {"clean", "used", "left"}]
  /\ phase \in [Threads -> Building \cup Attaching \cup {"out", "ready"}]
  /\ probe \in [Threads -> 1 .. PidSlots + 1]
  /\ \A t \in Threads : phase[t] # "scan" => probe[t] <= PidSlots
  /\ seen \in [Threads -> BOOLEAN]
  /\ dead \in [Threads -> Pids \cup {NoPid}]
  /\ known \in [Threads -> SUBSET Pids]
  /\ late \in BOOLEAN

(* The segment is not reset while a process is alive that was on record    *)
(* when any_alive() began to look, although any_alive() prunes the set     *)
(* while it goes through it, and others insert themselves behind it.       *)
NoResetOfKnown ==
  \A t \in Threads : Up(t) /\ phase[t] \in Resetting => known[t] \cap alive = {}

(* What the dead have left in the queue or on the heap is gone when the    *)
(* first process that comes after them gets on record, wherever those who  *)
(* came before it to clean up have died.  (A creator that is overtaken in  *)
(* its 10 ms, and constructs the PIDSet under somebody who uses it, spoils *)
(* this and the next two: late.)                                           *)
NoLeftovers ==
  ~ late => \A t \in Threads :
    Up(t) /\ phase[t] \in {"record", "ready"} => \A c \in Contents : data[c] # "left"

(* Only one process at a time looks for the living and resets the segment, *)
(* whoever dies in there with the lock of the PIDSet, which is recovered   *)
(* by the others or lost.                                                  *)
ResetsExclude ==
  ~ late => \A t, u \in Threads :
    Up(t) /\ Up(u) /\ phase[t] \in Locking /\ phase[u] \in Locking => t = u

(* A live process that uses the segment is on record, although insert goes *)
(* from slot to slot without the lock while the dead are removed, unless   *)
(* as many others as there are slots have got there before it: the         *)
(* constructor of Memory ignores that insert has failed.                   *)
UsersOnRecord ==
  \A t \in Threads : In(t, "ready") =>
    \/ \E i \in 1 .. PidSlots : pid_set[i] = PidOf[t]
    \/ Cardinality({ u \in Threads \ {t} :
          phase[u] \in {"record", "record_new", "init", "ready"} }) >= PidSlots
    \/ late

(* A process that begins to construct its Memory gets done, whoever dies   *)
(* around it.  The lock of the PIDSet can be lost, in the ways RobustLock  *)
(* names; nothing else may keep a process waiting, above all not the loop  *)
(* of any_alive() that removes a dead pid until it succeeds.               *)
AttachEnds ==
  \A t \in Threads :
    phase[t] # "out" ~> \/ phase[t] = "ready" \/ ~ Up(t)
                        \/ PidLock!DiedOffRecord \/ PidLock!Wedged \/ late

=============================================================================
