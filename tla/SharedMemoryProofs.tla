------------------------- MODULE SharedMemoryProofs -------------------------
(***************************************************************************)
(* Proofs about SharedMemory, for any number of processes with any number  *)
(* of threads, any size of the PIDSet, deaths anywhere, and whatever the C *)
(* library does when a rwlock is unlocked for a dead process.              *)
(***************************************************************************)
EXTENDS SharedMemory, FiniteSetTheorems, TLAPS

(* What is proved about RobustLock, for the lock of the PIDSet.            *)
LockProofs == INSTANCE RobustLockProofs WITH
  Operations <- {"lock"},
  CrashPoints <- {"idle", "try", "own", "check", "recover", "release", "prune",
                  "held", "unlock"},
  rwlock <- pids_rwlock, exclusive_owner <- pids_owner,
  shared_owners <- [i \in 1 .. Slots |-> NoPid],
  pc <- pids_pc, op <- [t \in Threads |-> "lock"],
  found <- pids_found, cursor <- pids_cursor, slot <- [t \in Threads |-> 0]

-----------------------------------------------------------------------------
(* The lock of the PIDSet                                                  *)

(* The assumptions of RobustLockProofs. *)
LEMMA LockAssumptions ==
  /\ LockProofs!IsFiniteSet(Threads) /\ PidOf \in [Threads -> Pids]
  /\ NoPid \notin Pids /\ NoThread \notin Threads
  /\ Slots \in Nat \ {0}
  /\ {"lock"} \subseteq {"lock", "try_lock", "lock_sharable", "try_lock_sharable"}
  /\ OwnerChecked \subseteq BOOLEAN /\ OwnerChecked # {}
BY SharedMemoryAssumption DEF LockProofs!IsFiniteSet, IsFiniteSet

(* The lock is free to begin with. *)
LEMMA LockInit == Init => LockProofs!LockInv
<1>1. PidLock!Init => LockProofs!Init
  BY DEF PidLock!Init, LockProofs!Init, PidLock!Unlocked, LockProofs!Unlocked
<1>. QED
  BY <1>1, LockAssumptions, LockProofs!InitInv DEF Init

(* A step of a thread in the lock is one that RobustLockProofs knows.      *)
LEMMA LockStep ==
  ASSUME NEW t \in Threads,
         \/ PidLock!TrySucceeds(t) \/ PidLock!TryFails(t) \/ PidLock!Own(t)
         \/ PidLock!Check(t) \/ PidLock!Recover(t) \/ PidLock!Release(t)
         \/ PidLock!Prune(t) \/ PidLock!Unlock(t) \/ PidLock!Finish(t)
  PROVE  LockProofs!Next
<1>. USE DEF PidLock!At, LockProofs!At, PidLock!Up, LockProofs!Up,
             PidLock!Goto, LockProofs!Goto, PidLock!Locals, LockProofs!Locals,
             PidLock!shared, LockProofs!shared
<1>1. PidLock!TrySucceeds(t) => LockProofs!TrySucceeds(t)
  BY DEF PidLock!TrySucceeds, LockProofs!TrySucceeds, PidLock!CanTake, LockProofs!CanTake,
         PidLock!Taken, LockProofs!Taken, PidLock!Exclusive, LockProofs!Exclusive
<1>2. PidLock!TryFails(t) => LockProofs!TryFails(t)
  BY DEF PidLock!TryFails, LockProofs!TryFails, PidLock!CanTake, LockProofs!CanTake,
         PidLock!Exclusive, LockProofs!Exclusive, PidLock!Return, LockProofs!Return,
         PidLock!Forget, LockProofs!Forget
<1>3. PidLock!Own(t) => LockProofs!Own(t)
  BY DEF PidLock!Own, LockProofs!Own
<1>. USE DEF PidLock!Again, LockProofs!Again, PidLock!Forget, LockProofs!Forget,
             PidLock!Exclusive, LockProofs!Exclusive, PidLock!Blocking, LockProofs!Blocking,
             PidLock!Return, LockProofs!Return, PidLock!UnlockRW, LockProofs!UnlockRW
<1>4. PidLock!Check(t) => LockProofs!Check(t)
  BY DEF PidLock!Check, LockProofs!Check
<1>5. PidLock!Recover(t) => LockProofs!Recover(t)
  BY DEF PidLock!Recover, LockProofs!Recover
<1>6. PidLock!Release(t) => LockProofs!Release(t)
  BY DEF PidLock!Release, LockProofs!Release
<1>7. PidLock!Prune(t) => LockProofs!Prune(t)
  BY DEF PidLock!Prune, LockProofs!Prune
<1>8. PidLock!Unlock(t) => LockProofs!Unlock(t)
  BY DEF PidLock!Unlock, LockProofs!Unlock
<1>9. PidLock!Finish(t) => LockProofs!Finish(t)
  BY DEF PidLock!Finish, LockProofs!Finish
<1>. QED
  BY <1>1, <1>2, <1>3, <1>4, <1>5, <1>6, <1>7, <1>8, <1>9
  DEF LockProofs!Next, LockProofs!Step

(* So is a call ... *)
LEMMA LockCall ==
  ASSUME NEW t \in Threads, PidLock!Call(t, "lock")
  PROVE  LockProofs!Next
<1>1. LockProofs!Call(t, "lock")
  BY DEF PidLock!Call, LockProofs!Call, PidLock!At, LockProofs!At, PidLock!Up,
         LockProofs!Up, PidLock!Goto, LockProofs!Goto, PidLock!shared, LockProofs!shared
<1>. QED
  BY <1>1 DEF LockProofs!Next

(* ... and a death. *)
LEMMA LockCrash ==
  ASSUME NEW p \in Pids, PidLock!Crash(p)
  PROVE  LockProofs!Next
<1>1. LockProofs!Crash(p)
  BY DEF PidLock!Crash, LockProofs!Crash, PidLock!LeavesTrace, LockProofs!LeavesTrace,
         PidLock!Exclusive, LockProofs!Exclusive, PidLock!shared, LockProofs!shared
<1>. QED
  BY <1>1 DEF LockProofs!Next

(* The lock stays in order in every step of its own. *)
LEMMA LockNext ==
  ASSUME LockProofs!LockInv,
         LockProofs!Next \/ UNCHANGED <<lockVars, alive>>
  PROVE  LockProofs!LockInv'
<1>1. [LockProofs!Next]_(LockProofs!vars)
  BY DEF lockVars, LockProofs!vars, LockProofs!shared
<1>. QED
  BY <1>1, LockAssumptions, LockProofs!StepInv

(* It is as good as new when it is constructed and nobody has used it.     *)
LEMMA LockNew ==
  ASSUME LockProofs!LockInv, NEW t \in Threads, ConstructPidSet(t), ~ late'
  PROVE  LockProofs!LockInv'
<1>. USE DEF LockProofs!LockInv
<1>1. /\ pids_rwlock' = [writer |-> NoThread, readers |-> 0] /\ pids_owner' = NoPid
      /\ UNCHANGED <<pids_pc, pids_found, pids_cursor, alive>>
      /\ \A u \in Threads : pids_pc[u] = "idle"
  BY DEF ConstructPidSet, PidLock!Unlocked
<1>2. LockProofs!TypeOK'
  BY <1>1 DEF LockProofs!TypeOK
<1>3. LockProofs!PlacesInv'
  BY <1>1 DEF LockProofs!PlacesInv, LockProofs!PlaceOK, LockProofs!Exclusive, LockProofs!Up
<1>4. LockProofs!WriterInv'
  BY <1>1 DEF LockProofs!WriterInv, LockProofs!Writes
<1>5. LockProofs!ReadersInv'
  <2>1. /\ LockProofs!Recorded' = {} /\ LockProofs!Between' = {} /\ LockProofs!Pruning' = {}
    BY <1>1 DEF LockProofs!Recorded, LockProofs!Between, LockProofs!Pruning
  <2>2. LockProofs!Cardinality({}) = 0
    BY FS_EmptySet DEF LockProofs!Cardinality, Cardinality
  <2>3. LockProofs!Counted'
    BY <1>1, <2>1, <2>2 DEF LockProofs!Counted
  <2>4. ASSUME NEW p \in alive'
        PROVE  LockProofs!Cardinality(LockProofs!ReadersOf(p)')
                 <= LockProofs!Cardinality(LockProofs!RecordOf(p)')
    <3>1. LockProofs!ReadersOf(p)' = {}
      BY DEF LockProofs!ReadersOf, LockProofs!Reads, LockProofs!Exclusive
    <3>2. LockProofs!RecordOf(p)' = {}
      BY <1>1, <2>4, LockAssumptions DEF LockProofs!RecordOf, LockProofs!TypeOK
    <3>. QED
      BY <2>2, <3>1, <3>2
  <2>. QED
    BY <1>1, <2>3, <2>4 DEF LockProofs!ReadersInv
<1>. QED
  BY <1>2, <1>3, <1>4, <1>5

-----------------------------------------------------------------------------
(* The inductive invariant                                                 *)

(* Where a live thread is in the lock of the PIDSet, ...                   *)
LockPlaces == {"try", "own", "check", "recover", "release", "prune"}
LockPlace(t) ==
  /\ phase[t] = "lock" => pids_pc[t] \in LockPlaces
  /\ phase[t] \in Locking \ {"unlock"} => pids_pc[t] = "held"
  /\ phase[t] = "unlock" => pids_pc[t] \in {"held", "unlock"}
  /\ phase[t] \notin Locking \cup {"lock"} => pids_pc[t] = "idle"

(* ... and what it has loaded.                                             *)
PlaceOK(t) ==
  /\ phase[t] \notin {"scan", "remove", "record", "record_new"} => probe[t] = 1
  /\ phase[t] \notin {"scan", "remove"} => ~ seen[t]
  /\ phase[t] = "remove" => dead[t] \in Pids \ alive

PlacesInv == \A t \in Threads : Up(t) => LockPlace(t) /\ PlaceOK(t)

(* One process creates the segment, and before that there is none.         *)
CreatorInv ==
  /\ \A t, u \in Threads : phase[t] \in Building /\ phase[u] \in Building => t = u
  /\ "name" \notin built => /\ \A t \in Threads : phase[t] = "out"
                            /\ \A c \in Contents : data[c] = "clean"

LockOrLate == late \/ LockProofs!LockInv

(* The pids that were on record when a thread took the lock, and are alive *)
(* still, are ahead of it, if it has not seen anybody.                     *)
Looking(t) == phase[t] \in {"scan", "remove"} /\ ~ seen[t]
Ahead(t) == (IF phase[t] = "remove" THEN probe[t] + 1 ELSE probe[t]) .. PidSlots

KnownInv ==
  \A t \in Threads : Up(t) =>
    /\ Looking(t) => \A p \in known[t] \cap alive : \E i \in Ahead(t) : pid_set[i] = p
    /\ phase[t] \in Resetting => known[t] \cap alive = {}

(* W says for each thread to which slot of the PIDSet it has written, 0 to *)
(* none.  A slot that is not free shows the pid of one that has written to *)
(* it, and one that a thread has passed has been written to by another.    *)
Used(W, t, j) == \E u \in Threads \ {t} : W[u] = j

Written(W) ==
  /\ W \in [Threads -> 0 .. PidSlots]
  /\ \A u \in Threads : phase[u] \notin {"init", "ready"} => W[u] = 0
  /\ \A i \in 1 .. PidSlots : pid_set[i] # NoPid =>
       \E u \in Threads : W[u] = i /\ PidOf[u] = pid_set[i]
  /\ \A t \in Threads : Up(t) /\ phase[t] \in {"record", "record_new"} =>
       \A j \in 1 .. probe[t] - 1 : Used(W, t, j)
  /\ \A t \in Threads : Up(t) /\ phase[t] \in {"init", "ready"} =>
       \/ \E i \in 1 .. PidSlots : pid_set[i] = PidOf[t]
       \/ \A j \in 1 .. PidSlots : Used(W, t, j)

RecordInv == late \/ \E W : Written(W)

(* What is left over is there while nobody is inside, and whoever has the  *)
(* lock is about to clean it up.                                           *)
Left == { c \in Contents : data[c] = "left" }

Cleaning(t) ==
  /\ phase[t] # "unlock" /\ ~ seen[t]
  /\ phase[t] \in {"reset_counter", "reset_heap"} => "elements" \notin Left
  /\ phase[t] = "reset_heap" => "counter" \notin Left

LeftInv ==
  ~ late /\ Left # {} =>
    /\ \A u \in Threads : ~ Inside(u)
    /\ \A t \in Threads : Up(t) /\ phase[t] \in Locking => Cleaning(t)

Core == TypeOK /\ PlacesInv /\ CreatorInv /\ LockOrLate
Inv == Core /\ KnownInv /\ RecordInv /\ LeftInv

-----------------------------------------------------------------------------
(* Steps inside the lock of the PIDSet                                     *)

LockMove(t) ==
  \/ PidLock!TrySucceeds(t) \/ PidLock!TryFails(t) \/ PidLock!Own(t)
  \/ PidLock!Check(t) \/ PidLock!Recover(t) \/ PidLock!Release(t)
  \/ PidLock!Prune(t) \/ PidLock!Unlock(t) \/ PidLock!Finish(t)
  \/ PidLock!Call(t, "lock")

(* A thread in the lock moves itself only.                                 *)
LEMMA LockMoves ==
  ASSUME PidLock!TypeOK, NEW t \in Threads, LockMove(t)
  PROVE  /\ UNCHANGED alive
         /\ \A u \in Threads \ {t} : pids_pc'[u] = pids_pc[u]
         /\ PidLock!TypeOK'
<1>. USE SharedMemoryAssumption
     DEF PidLock!TypeOK, PidLock!At, PidLock!Goto, PidLock!Locals, PidLock!shared,
         PidLock!Forget, PidLock!Again, PidLock!Return
<1>1. CASE PidLock!TrySucceeds(t)
  BY <1>1 DEF PidLock!TrySucceeds, PidLock!Taken, PidLock!CanTake, PidLock!Exclusive
<1>2. CASE PidLock!TryFails(t)
  BY <1>2 DEF PidLock!TryFails
<1>3. CASE PidLock!Own(t)
  BY <1>3 DEF PidLock!Own
<1>4. CASE PidLock!Check(t)
  BY <1>4 DEF PidLock!Check
<1>5. CASE PidLock!Recover(t)
  BY <1>5 DEF PidLock!Recover
<1>6. CASE PidLock!Release(t)
  <2>1. pids_rwlock' \in [writer : Threads \cup {NoThread}, readers : Int]
    BY <1>6 DEF PidLock!Release, PidLock!UnlockRW
  <2>. QED
    BY <1>6, <2>1 DEF PidLock!Release
<1>7. CASE PidLock!Prune(t)
  <2>1. pids_cursor[t] \in Nat \ {0}
    OBVIOUS
  <2>2. ~ (pids_cursor[t] <= Slots
           /\ [i \in 1 .. Slots |-> NoPid][pids_cursor[t]] \notin alive \cup {NoPid})
    BY <2>1
  <2>3. CASE pids_cursor[t] > Slots /\ PidLock!Again(t)
    BY <1>7, <2>3 DEF PidLock!Prune
  <2>4. CASE /\ pids_cursor[t] <= Slots
             /\ pids_cursor' = [pids_cursor EXCEPT ![t] = pids_cursor[t] + 1]
             /\ UNCHANGED <<pids_pc, pids_found>>
    BY <1>7, <2>1, <2>4 DEF PidLock!Prune
  <2>. QED
    BY <1>7, <2>2, <2>3, <2>4 DEF PidLock!Prune
<1>8. CASE PidLock!Unlock(t)
  BY <1>8 DEF PidLock!Unlock
<1>9. CASE PidLock!Finish(t)
  BY <1>9 DEF PidLock!Finish, PidLock!UnlockRW
<1>10. CASE PidLock!Call(t, "lock")
  BY <1>10 DEF PidLock!Call
<1>. QED
  BY <1>1, <1>2, <1>3, <1>4, <1>5, <1>6, <1>7, <1>8, <1>9, <1>10 DEF LockMove

(* While a thread waits for the lock it keeps to the places of lock().     *)
LEMMA WaitingPlaces ==
  ASSUME PidLock!TypeOK, NEW t \in Threads, LockPids(t), pids_pc[t] \in LockPlaces
  PROVE  pids_pc'[t] \in LockPlaces
<1>. USE SharedMemoryAssumption
     DEF LockPlaces, PidLock!TypeOK, PidLock!At, PidLock!Goto, PidLock!Again,
         PidLock!Exclusive, PidLock!Blocking
<1>1. CASE PidLock!TrySucceeds(t)
  BY <1>1 DEF PidLock!TrySucceeds
<1>2. CASE PidLock!TryFails(t)
  BY <1>2 DEF PidLock!TryFails
<1>3. CASE PidLock!Check(t)
  BY <1>3 DEF PidLock!Check
<1>4. CASE PidLock!Recover(t)
  BY <1>4 DEF PidLock!Recover
<1>5. CASE PidLock!Release(t)
  BY <1>5 DEF PidLock!Release
<1>6. CASE PidLock!Prune(t)
  BY <1>6 DEF PidLock!Prune
<1>. QED
  BY <1>1, <1>2, <1>3, <1>4, <1>5, <1>6 DEF LockPids

-----------------------------------------------------------------------------
(* Types *)

(* The steps of the segment that change its lock. *)
LEMMA LockChanges ==
  ASSUME [Next]_vars
  PROVE  \/ UNCHANGED <<lockVars, alive>>
         \/ \E t \in Threads : \/ Wake(t) \/ LockPids(t) \/ EnterPids(t) \/ UnlockPids(t)
                                \/ ConstructPidSet(t)
         \/ \E p : Crash(p)
<1>1. ASSUME NEW t \in Threads, Create(t) \/ Open(t) \/ Construct(t) \/ Attach(t)
                                \/ Record(t) \/ Write(t)
      PROVE  \/ UNCHANGED <<lockVars, alive>>
             \/ Wake(t) \/ LockPids(t) \/ EnterPids(t) \/ UnlockPids(t)
             \/ ConstructPidSet(t) \/ \E p : Crash(p)
  BY <1>1 DEF Create, Open, Construct, Truncate, ConstructQueue, ConstructAllocator,
         InitQueue, Attach, WakeTooEarly, Scan, RemovePid, Decide, ResetLock,
         ResetElements, ResetCounter, ResetHeap, Record, Write
<1>. QED
  BY <1>1 DEF Next, vars

(* The lock of the PIDSet under the steps of the segment. *)
LEMMA PidLockTyped ==
  ASSUME TypeOK, [Next]_vars
  PROVE  PidLock!TypeOK'
<1>. USE DEF TypeOK
<1>1. CASE UNCHANGED <<lockVars, alive>>
  BY <1>1 DEF lockVars, PidLock!TypeOK
<1>2. ASSUME NEW t \in Threads, Wake(t) PROVE PidLock!TypeOK'
  BY <1>2, LockMoves DEF Wake, LockMove
<1>3. ASSUME NEW t \in Threads, LockPids(t) PROVE PidLock!TypeOK'
  BY <1>3, LockMoves DEF LockPids, LockMove
<1>4. ASSUME NEW t \in Threads, EnterPids(t) PROVE PidLock!TypeOK'
  BY <1>4, LockMoves DEF EnterPids, LockMove
<1>5. ASSUME NEW t \in Threads, UnlockPids(t) PROVE PidLock!TypeOK'
  BY <1>5, LockMoves DEF UnlockPids, LockMove
<1>6. ASSUME NEW t \in Threads, ConstructPidSet(t) PROVE PidLock!TypeOK'
  BY <1>6, SharedMemoryAssumption DEF ConstructPidSet, PidLock!TypeOK, PidLock!Unlocked
<1>7. ASSUME NEW p, Crash(p) PROVE PidLock!TypeOK'
  BY <1>7, SharedMemoryAssumption
  DEF Crash, PidLock!Crash, PidLock!TypeOK, PidLock!LeavesTrace, PidLock!shared
<1>. QED
  BY <1>1, <1>2, <1>3, <1>4, <1>5, <1>6, <1>7, LockChanges

(* A thread that goes from phase to phase without loading anything.        *)
LEMMA EnterTyped ==
  ASSUME TypeOK, NEW t \in Threads,
         NEW place \in Building \cup Attaching \cup {"out", "ready"},
         Enter(t, place), place # "scan", probe[t] <= PidSlots, UNCHANGED probe
  PROVE  /\ phase' \in [Threads -> Building \cup Attaching \cup {"out", "ready"}]
         /\ \A u \in Threads : phase'[u] # "scan" => probe'[u] <= PidSlots
BY DEF TypeOK, Enter

(* Types under every step. *)
LEMMA TypeInv ==
  ASSUME TypeOK, PlacesInv, [Next]_vars
  PROVE  TypeOK'
<1>. USE SharedMemoryAssumption DEF In, Enter
<1>1. PidLock!TypeOK'
  BY PidLockTyped
<1>. USE DEF TypeOK, Building, Attaching, Locking, Resetting, Parts, Contents
<1>2. ASSUME NEW t \in Threads, Create(t) \/ Truncate(t) \/ ConstructQueue(t)
             \/ ConstructAllocator(t) \/ InitQueue(t) \/ Open(t) PROVE TypeOK'
  <2>1. PICK place \in Building \cup {"wait", "ready"} : Enter(t, place)
    BY <1>2 DEF Create, Truncate, ConstructQueue, ConstructAllocator, InitQueue, Open
  <2>2. phase[t] # "scan" /\ UNCHANGED <<probe, seen, dead, known, late, pid_set>>
    BY <1>2 DEF Create, Truncate, ConstructQueue, ConstructAllocator, InitQueue, Open, scan
  <2>3. /\ phase' \in [Threads -> Building \cup Attaching \cup {"out", "ready"}]
        /\ \A u \in Threads : phase'[u] # "scan" => probe'[u] <= PidSlots
    BY <2>1, <2>2, EnterTyped
  <2>4. built' \subseteq Parts
    BY <1>2 DEF Create, Truncate, ConstructQueue, ConstructAllocator, InitQueue, Open
  <2>5. data' \in [Contents -> {"clean", "used", "left"}]
    BY <1>2 DEF Create, Truncate, ConstructQueue, ConstructAllocator, InitQueue, Open
  <2>. QED
    BY <1>1, <2>2, <2>3, <2>4, <2>5
<1>3. ASSUME NEW t \in Threads, ConstructPidSet(t) PROVE TypeOK'
  BY <1>1, <1>3 DEF ConstructPidSet
<1>4. ASSUME NEW t \in Threads, Wake(t) \/ LockPids(t) \/ UnlockPids(t) PROVE TypeOK'
  BY <1>1, <1>4 DEF Wake, LockPids, UnlockPids, scan
<1>5. ASSUME NEW t \in Threads, EnterPids(t) PROVE TypeOK'
  <2>1. data' \in [Contents -> {"clean", "used", "left"}]
    <3>1. CASE UNCHANGED data
      BY <3>1
    <3>2. CASE data' = [c \in Contents |-> IF data[c] = "used" THEN "left" ELSE data[c]]
      BY <3>2
    <3>. QED
      BY <1>5, <3>1, <3>2 DEF EnterPids
  <2>2. known' \in [Threads -> SUBSET Pids]
    BY <1>5 DEF EnterPids
  <2>3. /\ phase' = [phase EXCEPT ![t] = "scan"]
        /\ UNCHANGED <<built, pid_set, probe, seen, dead, late>>
    BY <1>5 DEF EnterPids
  <2>. QED
    BY <1>1, <2>1, <2>2, <2>3
<1>6. ASSUME NEW t \in Threads, Scan(t) PROVE TypeOK'
  <2>. DEFINE pid == pid_set[probe[t]]
  <2>1. phase[t] = "scan" /\ probe[t] \in 1 .. PidSlots /\ pid \in Pids \cup {NoPid}
        /\ UNCHANGED <<built, pid_set, data, known, late>>
    BY <1>6 DEF Scan
  <2>2. CASE /\ seen' = [seen EXCEPT ![t] = @ \/ pid # NoPid]
             /\ probe' = [probe EXCEPT ![t] = @ + 1]
             /\ UNCHANGED <<phase, dead>>
    <3>1. seen' \in [Threads -> BOOLEAN]
      BY <2>2, Zenon
    <3>2. probe' \in [Threads -> 1 .. PidSlots + 1]
      BY <2>1, <2>2
    <3>3. \A u \in Threads : phase'[u] # "scan" => probe'[u] <= PidSlots
      BY <2>1, <2>2
    <3>. QED
      BY <1>1, <2>1, <2>2, <3>1, <3>2, <3>3
  <2>3. CASE /\ dead' = [dead EXCEPT ![t] = pid] /\ phase' = [phase EXCEPT ![t] = "remove"]
             /\ UNCHANGED <<probe, seen>>
    <3>1. \A u \in Threads : phase'[u] # "scan" => probe'[u] <= PidSlots
      BY <2>1, <2>3
    <3>. QED
      BY <1>1, <2>1, <2>3, <3>1
  <2>. QED
    BY <1>6, <2>2, <2>3 DEF Scan
<1>7. ASSUME NEW t \in Threads, RemovePid(t) PROVE TypeOK'
  <2>1. PICK i \in 1 .. PidSlots : pid_set' = [pid_set EXCEPT ![i] = NoPid]
    BY <1>7 DEF RemovePid
  <2>2. /\ probe[t] \in 1 .. PidSlots
        /\ dead' = [dead EXCEPT ![t] = NoPid]
        /\ probe' = [probe EXCEPT ![t] = probe[t] + 1]
        /\ phase' = [phase EXCEPT ![t] = "scan"]
        /\ UNCHANGED <<built, data, seen, known, late>>
    BY <1>7 DEF RemovePid
  <2>3. pid_set' \in [1 .. PidSlots -> Pids \cup {NoPid}]
    BY <2>1
  <2>4. /\ probe' \in [Threads -> 1 .. PidSlots + 1]
        /\ \A u \in Threads : phase'[u] # "scan" => probe'[u] <= PidSlots
    BY <2>2
  <2>. QED
    BY <1>1, <2>2, <2>3, <2>4
<1>8. ASSUME NEW t \in Threads, Decide(t) PROVE TypeOK'
  <2>1. /\ probe' = [probe EXCEPT ![t] = 1] /\ seen' = [seen EXCEPT ![t] = FALSE]
        /\ UNCHANGED <<built, pid_set, data, dead, known, late>>
    BY <1>8 DEF Decide
  <2>2. PICK place \in {"unlock", "reset_lock"} : phase' = [phase EXCEPT ![t] = place]
    BY <1>8 DEF Decide
  <2>. QED
    BY <1>1, <2>1, <2>2
<1>9. ASSUME NEW t \in Threads, ResetLock(t) \/ ResetElements(t) \/ ResetCounter(t) \/ ResetHeap(t)
      PROVE  TypeOK'
  <2>1. PICK place \in Resetting \cup {"unlock"} : Enter(t, place)
    BY <1>9 DEF ResetLock, ResetElements, ResetCounter, ResetHeap
  <2>2. /\ phase[t] # "scan" /\ UNCHANGED <<built, probe, seen, dead, known, late, pid_set>>
    BY <1>9 DEF ResetLock, ResetElements, ResetCounter, ResetHeap, scan
  <2>3. /\ phase' \in [Threads -> Building \cup Attaching \cup {"out", "ready"}]
        /\ \A u \in Threads : phase'[u] # "scan" => probe'[u] <= PidSlots
    BY <2>1, <2>2, EnterTyped
  <2>4. data' \in [Contents -> {"clean", "used", "left"}]
    BY <1>9 DEF ResetLock, ResetElements, ResetCounter, ResetHeap
  <2>. QED
    BY <1>1, <2>2, <2>3, <2>4
<1>10. ASSUME NEW t \in Threads, Record(t) PROVE TypeOK'
  <2>1. /\ probe[t] \in 1 .. PidSlots /\ phase[t] # "scan"
        /\ UNCHANGED <<built, data, seen, dead, known, late>>
    BY <1>10 DEF Record
  <2>2. pid_set' \in [1 .. PidSlots -> Pids \cup {NoPid}]
    <3>1. PidOf[t] \in Pids
      OBVIOUS
    <3>2. pid_set' = [pid_set EXCEPT ![probe[t]] = PidOf[t]] \/ UNCHANGED pid_set
      BY <1>10 DEF Record
    <3>. QED
      BY <2>1, <3>1, <3>2
  <2>3. /\ phase' \in [Threads -> Building \cup Attaching \cup {"out", "ready"}]
        /\ probe' \in [Threads -> 1 .. PidSlots + 1]
        /\ \A u \in Threads : phase'[u] # "scan" => probe'[u] <= PidSlots
    <3>1. CASE probe' = [probe EXCEPT ![t] = 1]
      BY <1>10, <2>1, <3>1 DEF Record
    <3>2. CASE probe[t] < PidSlots /\ probe' = [probe EXCEPT ![t] = @ + 1] /\ UNCHANGED phase
      BY <1>10, <2>1, <3>2
    <3>. QED
      BY <1>10, <3>1, <3>2 DEF Record
  <2>. QED
    BY <1>1, <2>1, <2>2, <2>3
<1>11. ASSUME NEW t \in Threads, Write(t) PROVE TypeOK'
  BY <1>1, <1>11 DEF Write, scan
<1>12. ASSUME NEW p, Crash(p) PROVE TypeOK'
  <2>1. UNCHANGED <<built, pid_set, data, late>>
    BY <1>12 DEF Crash
  <2>2. phase' \in [Threads -> Building \cup Attaching \cup {"out", "ready"}]
    BY <1>12 DEF Crash
  <2>3. /\ probe' \in [Threads -> 1 .. PidSlots + 1]
        /\ \A u \in Threads : phase'[u] # "scan" => probe'[u] <= PidSlots
    BY <1>12 DEF Crash
  <2>4. seen' \in [Threads -> BOOLEAN]
    BY <1>12, Zenon DEF Crash
  <2>5. dead' \in [Threads -> Pids \cup {NoPid}] /\ known' \in [Threads -> SUBSET Pids]
    BY <1>12 DEF Crash
  <2>. QED
    BY <1>1, <2>1, <2>2, <2>3, <2>4, <2>5
<1>13. CASE UNCHANGED vars
  BY <1>1, <1>13 DEF vars, scan
<1>. QED
  BY <1>2, <1>3, <1>4, <1>5, <1>6, <1>7, <1>8, <1>9, <1>10, <1>11, <1>12, <1>13
  DEF Next, Construct, Attach, WakeTooEarly

(* The places under every step. *)
LEMMA PlacesNext ==
  ASSUME TypeOK, PlacesInv, [Next]_vars
  PROVE  PlacesInv'
<1>. USE DEF In, Enter, Up, PlaceOK, LockPlace, LockPlaces, TypeOK, Building, Locking, Resetting
<1>1. ASSUME NEW t \in Threads, Create(t) \/ Truncate(t) \/ ConstructQueue(t)
             \/ ConstructAllocator(t) \/ InitQueue(t) \/ Open(t) \/ Write(t)
             \/ ConstructPidSet(t) PROVE PlacesInv'
  BY <1>1 DEF PlacesInv, Create, Truncate, ConstructQueue, ConstructAllocator, InitQueue,
              Open, scan, lockVars, Write, ConstructPidSet
<1>2. ASSUME NEW t \in Threads, Wake(t) PROVE PlacesInv'
  <2>1. pids_pc' = [pids_pc EXCEPT ![t] = "try"] /\ UNCHANGED alive
    BY <1>2 DEF Wake, PidLock!Call, PidLock!Goto
  <2>. QED
    BY <1>2, <2>1 DEF PlacesInv, Wake, scan, PidLock!TypeOK
<1>3. ASSUME NEW t \in Threads, LockPids(t) PROVE PlacesInv'
  <2>1. /\ UNCHANGED alive /\ \A u \in Threads \ {t} : pids_pc'[u] = pids_pc[u]
    BY <1>3, LockMoves DEF LockPids, LockMove
  <2>2. pids_pc'[t] \in LockPlaces
    BY <1>3, WaitingPlaces DEF PlacesInv, LockPids
  <2>. QED
    BY <1>3, <2>1, <2>2 DEF PlacesInv, LockPids, scan
<1>4. ASSUME NEW t \in Threads, EnterPids(t) PROVE PlacesInv'
  <2>1. pids_pc' = [pids_pc EXCEPT ![t] = "held"] /\ UNCHANGED alive
    BY <1>4 DEF EnterPids, PidLock!Own, PidLock!Goto
  <2>. QED
    BY <1>4, <2>1 DEF PlacesInv, EnterPids, PidLock!TypeOK
<1>5. ASSUME NEW t \in Threads, UnlockPids(t) PROVE PlacesInv'
  <2>1. /\ UNCHANGED alive /\ \A u \in Threads \ {t} : pids_pc'[u] = pids_pc[u]
    BY <1>5, LockMoves DEF UnlockPids, LockMove
  <2>. QED
    BY <1>5, <2>1 DEF PlacesInv, UnlockPids
<1>6. ASSUME NEW t \in Threads, Scan(t) \/ RemovePid(t) \/ Decide(t) \/ ResetLock(t)
             \/ ResetElements(t) \/ ResetCounter(t) \/ ResetHeap(t) \/ Record(t)
      PROVE  PlacesInv'
  BY <1>6 DEF PlacesInv, Scan, RemovePid, Decide, ResetLock, ResetElements, ResetCounter,
              ResetHeap, Record, lockVars, scan
<1>7. ASSUME NEW p, Crash(p) PROVE PlacesInv'
  BY <1>7 DEF PlacesInv, Crash, PidLock!Crash, PidLock!TypeOK
<1>8. CASE UNCHANGED vars
  BY <1>8 DEF PlacesInv, vars, scan, lockVars
<1>. QED
  BY <1>1, <1>2, <1>3, <1>4, <1>5, <1>6, <1>7, <1>8
  DEF Next, Construct, Attach, WakeTooEarly

(* There is one creator under every step. *)
LEMMA CreatorNext ==
  ASSUME TypeOK, CreatorInv, [Next]_vars
  PROVE  CreatorInv'
<1>. USE DEF In, Enter, CreatorInv, TypeOK, Building
<1>1. ASSUME NEW t \in Threads, Create(t) PROVE CreatorInv'
  BY <1>1 DEF Create
<1>2. ASSUME NEW t \in Threads, Construct(t) PROVE CreatorInv'
  <2>1. phase[t] \in Building /\ built \subseteq built'
    BY <1>2 DEF Construct, Truncate, ConstructPidSet, ConstructQueue, ConstructAllocator, InitQueue
  <2>2. PICK place \in Building \cup {"ready"} : phase' = [phase EXCEPT ![t] = place]
    BY <1>2 DEF Construct, Truncate, ConstructPidSet, ConstructQueue, ConstructAllocator, InitQueue
  <2>3. "name" \in built
    BY <2>1
  <2>. QED
    BY <2>1, <2>2, <2>3
<1>3. ASSUME NEW t \in Threads, phase[t] \notin Building \cup {"out"} \/ "name" \in built,
             \/ Open(t) \/ Wake(t) \/ LockPids(t) \/ EnterPids(t) \/ UnlockPids(t)
             \/ Scan(t) \/ RemovePid(t) \/ Decide(t) \/ ResetLock(t) \/ Write(t)
             \/ ResetElements(t) \/ ResetCounter(t) \/ ResetHeap(t)
      PROVE  CreatorInv'
  <2>1. "name" \in built /\ UNCHANGED built
    BY <1>3 DEF Open, Wake, LockPids, EnterPids, UnlockPids, Scan, RemovePid, Decide,
       ResetLock, ResetElements, ResetCounter, ResetHeap, Write
  <2>2. \A u \in Threads : phase'[u] \in Building => phase[u] \in Building
    BY <1>3 DEF Open, Wake, LockPids, EnterPids, UnlockPids, Scan, RemovePid, Decide,
       ResetLock, ResetElements, ResetCounter, ResetHeap, Write
  <2>. QED
    BY <2>1, <2>2
<1>4. ASSUME NEW t \in Threads, Record(t) PROVE CreatorInv'
  BY <1>4 DEF Record
<1>5. ASSUME NEW p, Crash(p) PROVE CreatorInv'
  BY <1>5 DEF Crash
<1>6. CASE UNCHANGED vars
  BY <1>6 DEF vars
<1>7. ASSUME NEW t \in Threads, Open(t) \/ Attach(t) \/ Write(t), ~ WakeTooEarly(t)
      PROVE  phase[t] \notin Building \cup {"out"} \/ "name" \in built
  BY <1>7 DEF Open, Attach, Wake, LockPids, EnterPids, UnlockPids, Scan, RemovePid, Decide,
     ResetLock, ResetElements, ResetCounter, ResetHeap, Write
<1>. QED
  BY <1>1, <1>2, <1>3, <1>4, <1>5, <1>6, <1>7 DEF Next, Attach, WakeTooEarly

(* What was late stays late. *)
LEMMA LateStays ==
  ASSUME [Next]_vars, ~ late'
  PROVE  ~ late
BY DEF Next, vars, Create, Open, Construct, Truncate, ConstructPidSet, ConstructQueue,
   ConstructAllocator, InitQueue, Attach, Wake, WakeTooEarly, LockPids, EnterPids, Scan,
   RemovePid, Decide, ResetLock, ResetElements, ResetCounter, ResetHeap, UnlockPids, Record,
   Write, Crash

(* The lock of the PIDSet is in order under every step.                    *)
LEMMA LockInvNext ==
  ASSUME Core, [Next]_vars
  PROVE  LockOrLate'
<1>. USE DEF LockOrLate
<1>1. SUFFICES ASSUME ~ late'
               PROVE  LockProofs!LockInv'
  OBVIOUS
<1>2. ~ late /\ LockProofs!LockInv
  BY <1>1, LateStays DEF Core
<1>3. CASE UNCHANGED <<lockVars, alive>>
  BY <1>2, <1>3, LockNext
<1>4. ASSUME NEW t \in Threads, Wake(t) PROVE LockProofs!LockInv'
  BY <1>2, <1>4, LockCall, LockNext DEF Wake
<1>5. ASSUME NEW t \in Threads, LockPids(t) PROVE LockProofs!LockInv'
  BY <1>2, <1>5, LockStep, LockNext DEF LockPids
<1>6. ASSUME NEW t \in Threads, EnterPids(t) PROVE LockProofs!LockInv'
  BY <1>2, <1>6, LockStep, LockNext DEF EnterPids
<1>7. ASSUME NEW t \in Threads, UnlockPids(t) PROVE LockProofs!LockInv'
  BY <1>2, <1>7, LockStep, LockNext DEF UnlockPids
<1>8. ASSUME NEW t \in Threads, ConstructPidSet(t) PROVE LockProofs!LockInv'
  BY <1>1, <1>2, <1>8, LockNew
<1>9. ASSUME NEW p, Crash(p) PROVE LockProofs!LockInv'
  <2>1. p \in Pids /\ PidLock!Crash(p)
    BY <1>9 DEF Crash, PidLock!Crash, Core, TypeOK, PidLock!TypeOK
  <2>. QED
    BY <1>2, <2>1, LockCrash, LockNext
<1>. QED
  BY <1>3, <1>4, <1>5, <1>6, <1>7, <1>8, <1>9, LockChanges

(* Of two threads between lock and unlock both have the rwlock.            *)
LEMMA LockersExclude == Core => ResetsExclude
<1>. SUFFICES ASSUME Core, ~ late, NEW t \in Threads, NEW u \in Threads,
                     Up(t), Up(u), phase[t] \in Locking, phase[u] \in Locking
              PROVE  t = u
  BY DEF ResetsExclude
<1>1. LockProofs!WriterInv
  BY DEF Core, LockOrLate, LockProofs!LockInv
<1>2. pids_pc[t] \in {"held", "unlock"} /\ pids_pc[u] \in {"held", "unlock"}
  BY DEF Core, PlacesInv, LockPlace
<1>3. LockProofs!Writes(t) /\ LockProofs!Writes(u)
  BY <1>2 DEF LockProofs!Writes, LockProofs!Exclusive, LockProofs!Up, Up
<1>. QED
  BY <1>1, <1>3 DEF LockProofs!WriterInv

-----------------------------------------------------------------------------
(* Who is on record *)

(* What the invariant says of one thread. *)
Finds(t) ==
  /\ Looking(t) => \A p \in known[t] \cap alive : \E i \in Ahead(t) : pid_set[i] = p
  /\ phase[t] \in Resetting => known[t] \cap alive = {}

(* The steps of the segment that change the record. *)
LEMMA PidSetChanges ==
  ASSUME [Next]_vars
  PROVE  \/ UNCHANGED pid_set
         \/ \E t \in Threads : RemovePid(t) \/ Record(t) \/ ConstructPidSet(t)
<1>1. ASSUME NEW t \in Threads, Create(t) \/ Open(t) \/ Construct(t) \/ Attach(t) \/ Write(t),
             ~ UNCHANGED pid_set
      PROVE  RemovePid(t) \/ ConstructPidSet(t)
  BY <1>1 DEF Create, Open, Construct, Truncate, ConstructQueue, ConstructAllocator,
     InitQueue, Attach, Wake, WakeTooEarly, LockPids, EnterPids, Scan, Decide, ResetLock,
     ResetElements, ResetCounter, ResetHeap, UnlockPids, Write, Crash
<1>. QED
  BY <1>1 DEF Next, vars, Crash

(* A live pid is never taken off the record, except by a new PIDSet.       *)
LEMMA LivePidsStay ==
  ASSUME Core, [Next]_vars, ~ \E t \in Threads : ConstructPidSet(t)
  PROVE  /\ alive' \subseteq alive
         /\ \A i \in 1 .. PidSlots : pid_set[i] \in alive => pid_set'[i] = pid_set[i]
<1>. USE DEF Core, TypeOK
<1>1. alive' \subseteq alive
  <2>1. ASSUME NEW t \in Threads, LockMove(t) PROVE UNCHANGED alive
    BY <2>1, LockMoves
  <2>2. ASSUME NEW p, Crash(p) PROVE alive' \subseteq alive
    BY <2>2 DEF Crash, PidLock!Crash
  <2>. QED
    BY <2>1, <2>2, LockChanges DEF Wake, LockPids, EnterPids, UnlockPids, LockMove
<1>2. CASE UNCHANGED pid_set
  BY <1>1, <1>2
<1>3. ASSUME NEW t \in Threads, RemovePid(t)
      PROVE  \A i \in 1 .. PidSlots : pid_set[i] \in alive => pid_set'[i] = pid_set[i]
  <2>1. dead[t] \notin alive
    BY <1>3 DEF RemovePid, In, PlacesInv, PlaceOK
  <2>2. PICK i \in 1 .. PidSlots : pid_set[i] = dead[t] /\ pid_set' = [pid_set EXCEPT ![i] = NoPid]
    BY <1>3 DEF RemovePid
  <2>. QED
    BY <2>1, <2>2
<1>4. ASSUME NEW t \in Threads, Record(t)
      PROVE  \A i \in 1 .. PidSlots : pid_set[i] \in alive => pid_set'[i] = pid_set[i]
  <2>1. NoPid \notin alive
    BY SharedMemoryAssumption DEF PidLock!TypeOK
  <2>. QED
    BY <1>4, <2>1 DEF Record
<1>. QED
  BY <1>1, <1>2, <1>3, <1>4, PidSetChanges

(* Threads that stand still keep what the invariant says of them.          *)
LEMMA FindsStill ==
  ASSUME Core, [Next]_vars, ~ \E t \in Threads : ConstructPidSet(t),
         NEW u \in Threads, Finds(u),
         phase'[u] = phase[u], probe'[u] = probe[u], seen'[u] = seen[u], known'[u] = known[u]
  PROVE  Finds(u)'
<1>1. /\ alive' \subseteq alive
      /\ \A i \in 1 .. PidSlots : pid_set[i] \in alive => pid_set'[i] = pid_set[i]
  BY LivePidsStay
<1>2. Ahead(u)' = Ahead(u) /\ Ahead(u) \subseteq 1 .. PidSlots /\ (Looking(u)' <=> Looking(u))
  BY SharedMemoryAssumption DEF Ahead, Looking, Core, TypeOK
<1>. QED
  BY <1>1, <1>2 DEF Finds

(* The pids on record are found under every step. *)
LEMMA KnownNext ==
  ASSUME Core, KnownInv, [Next]_vars
  PROVE  KnownInv'
<1>. USE DEF Core, TypeOK, In, Enter
<1>1. ASSUME NEW t \in Threads, ConstructPidSet(t) PROVE KnownInv'
  BY <1>1 DEF ConstructPidSet, KnownInv
<1>2. SUFFICES ASSUME ~ \E t \in Threads : ConstructPidSet(t),
                      NEW u \in Threads, Up(u)'
               PROVE  Finds(u)'
  BY <1>1 DEF KnownInv, Finds
<1>3. Up(u) /\ Finds(u) /\ alive' \subseteq alive
  BY <1>2, LivePidsStay DEF KnownInv, Finds, Up
<1>4. CASE phase'[u] = phase[u] /\ probe'[u] = probe[u] /\ seen'[u] = seen[u] /\ known'[u] = known[u]
  BY <1>2, <1>3, <1>4, FindsStill
<1>5. CASE phase'[u] \notin {"scan", "remove"} \cup Resetting
  BY <1>5 DEF Finds, Looking
<1>6. CASE EnterPids(u)
  <2>1. /\ known'[u] = { pid_set[i] : i \in 1 .. PidSlots } \ {NoPid}
        /\ phase'[u] = "scan" /\ probe[u] = 1 /\ UNCHANGED <<probe, pid_set>>
    BY <1>3, <1>6 DEF EnterPids, PlacesInv, PlaceOK
  <2>. QED
    BY <2>1 DEF Finds, Looking, Ahead, Resetting
<1>7. CASE Scan(u)
  <2>. DEFINE pid == pid_set[probe[u]]
  <2>1. phase[u] = "scan" /\ probe[u] \in 1 .. PidSlots /\ UNCHANGED <<pid_set, known, alive>>
    BY <1>7 DEF Scan
  <2>2. CASE phase'[u] = "scan" /\ probe'[u] = probe[u] + 1 /\ (seen'[u] <=> (seen[u] \/ pid # NoPid))
    <3>. SUFFICES ASSUME ~ seen'[u], NEW p \in known[u] \cap alive
                  PROVE  \E i \in Ahead(u)' : pid_set[i] = p
      BY <2>1, <2>2 DEF Finds, Looking, Resetting
    <3>1. PICK i \in probe[u] .. PidSlots : pid_set[i] = p
      BY <1>3, <2>1, <2>2 DEF Finds, Looking, Ahead
    <3>2. i # probe[u]
      BY <2>2, <3>1, SharedMemoryAssumption DEF PidLock!TypeOK
    <3>3. Ahead(u)' = probe[u] + 1 .. PidSlots
      BY <2>2 DEF Ahead
    <3>4. i \in probe[u] + 1 .. PidSlots
      BY <2>1, <3>1, <3>2, SharedMemoryAssumption
    <3>. QED
      BY <3>1, <3>3, <3>4
  <2>3. CASE /\ phase'[u] = "remove" /\ pid \notin alive /\ probe'[u] = probe[u]
             /\ seen'[u] = seen[u]
    <3>. SUFFICES ASSUME ~ seen[u], NEW p \in known[u] \cap alive
                  PROVE  \E i \in Ahead(u)' : pid_set[i] = p
      BY <2>1, <2>3 DEF Finds, Looking, Resetting
    <3>1. PICK i \in probe[u] .. PidSlots : pid_set[i] = p
      BY <1>3, <2>1 DEF Finds, Looking, Ahead
    <3>2. i # probe[u]
      BY <2>3, <3>1
    <3>3. Ahead(u)' = probe[u] + 1 .. PidSlots
      BY <2>3 DEF Ahead
    <3>4. i \in probe[u] + 1 .. PidSlots
      BY <2>1, <3>1, <3>2, SharedMemoryAssumption
    <3>. QED
      BY <3>1, <3>3, <3>4
  <2>4. CASE /\ seen' = [seen EXCEPT ![u] = @ \/ pid # NoPid]
             /\ probe' = [probe EXCEPT ![u] = @ + 1] /\ UNCHANGED phase
    <3>1. seen'[u] <=> (seen[u] \/ pid # NoPid)
      BY <2>4, Zenon
    <3>. QED
      BY <2>1, <2>2, <2>4, <3>1
  <2>5. CASE /\ pid \notin alive \cup {NoPid} /\ phase' = [phase EXCEPT ![u] = "remove"]
             /\ UNCHANGED <<probe, seen>>
    BY <2>3, <2>5
  <2>. QED
    BY <1>7, <2>4, <2>5 DEF Scan
<1>8. CASE RemovePid(u)
  <2>1. /\ phase[u] = "remove" /\ phase'[u] = "scan" /\ probe'[u] = probe[u] + 1
        /\ UNCHANGED <<seen, known, alive>> /\ probe[u] \in 1 .. PidSlots
    BY <1>8 DEF RemovePid
  <2>2. Ahead(u)' = Ahead(u) /\ Ahead(u) \subseteq 1 .. PidSlots
    BY <2>1, SharedMemoryAssumption DEF Ahead
  <2>3. \A i \in 1 .. PidSlots : pid_set[i] \in alive => pid_set'[i] = pid_set[i]
    BY <1>2, LivePidsStay
  <2>. QED
    BY <1>3, <2>1, <2>2, <2>3 DEF Finds, Looking, Resetting
<1>9. CASE Decide(u)
  <2>1. /\ phase[u] = "scan" /\ probe[u] > PidSlots /\ UNCHANGED <<known, alive>>
        /\ phase'[u] = IF seen[u] THEN "unlock" ELSE "reset_lock"
    BY <1>9 DEF Decide
  <2>2. CASE seen[u]
    BY <2>1, <2>2 DEF Finds, Looking, Resetting
  <2>3. CASE ~ seen[u]
    <3>1. Ahead(u) = {}
      BY <2>1, SharedMemoryAssumption DEF Ahead
    <3>2. known[u] \cap alive = {}
      BY <1>3, <2>1, <2>3, <3>1 DEF Finds, Looking
    <3>. QED
      BY <2>1, <2>3, <3>2 DEF Finds, Looking
  <2>. QED
    BY <2>2, <2>3
<1>10. CASE ResetLock(u) \/ ResetElements(u) \/ ResetCounter(u) \/ ResetHeap(u)
  BY <1>3, <1>10 DEF ResetLock, ResetElements, ResetCounter, ResetHeap, scan, Finds, Looking, Resetting
<1>11. ASSUME phase'[u] \in {"scan", "remove"} \cup Resetting,
              ~ (/\ phase'[u] = phase[u] /\ probe'[u] = probe[u]
                 /\ seen'[u] = seen[u] /\ known'[u] = known[u])
       PROVE  \/ EnterPids(u) \/ Scan(u) \/ RemovePid(u) \/ Decide(u)
              \/ ResetLock(u) \/ ResetElements(u) \/ ResetCounter(u) \/ ResetHeap(u)
  <2>1. ASSUME NEW t \in Threads, Create(t) \/ Open(t) \/ Truncate(t) \/ ConstructQueue(t)
               \/ ConstructAllocator(t) \/ InitQueue(t) \/ Wake(t) \/ LockPids(t)
               \/ Write(t) \/ Record(t) \/ UnlockPids(t)
        PROVE  FALSE
    BY <1>11, <2>1 DEF Create, Open, Truncate, ConstructQueue, ConstructAllocator, InitQueue,
       Wake, LockPids, Write, scan, Resetting, Record, UnlockPids
  <2>2. ASSUME NEW p, Crash(p) PROVE FALSE
    BY <1>2, <1>11, <2>2 DEF Crash, PidLock!Crash, Up, Resetting
  <2>3. ASSUME UNCHANGED vars PROVE FALSE
    BY <1>11, <2>3 DEF vars, scan
  <2>4. ASSUME NEW t \in Threads \ {u},
               \/ EnterPids(t) \/ Scan(t) \/ RemovePid(t) \/ Decide(t)
               \/ ResetLock(t) \/ ResetElements(t) \/ ResetCounter(t) \/ ResetHeap(t)
        PROVE  FALSE
    BY <1>11, <2>4 DEF EnterPids, Scan, RemovePid, Decide, ResetLock, ResetElements,
       ResetCounter, ResetHeap, scan
  <2>. QED
    BY <1>2, <2>1, <2>2, <2>3, <2>4 DEF Next, Construct, Attach, WakeTooEarly
<1>. QED
  BY <1>4, <1>5, <1>6, <1>7, <1>8, <1>9, <1>10, <1>11


(* A live thread moves itself or stands still.                             *)
Own(u) ==
  \/ Create(u) \/ Open(u) \/ Construct(u) \/ Wake(u) \/ LockPids(u) \/ EnterPids(u)
  \/ Scan(u) \/ RemovePid(u) \/ Decide(u) \/ ResetLock(u) \/ ResetElements(u)
  \/ ResetCounter(u) \/ ResetHeap(u) \/ UnlockPids(u) \/ Record(u) \/ Write(u)
Still(u) == phase'[u] = phase[u] /\ probe'[u] = probe[u] /\ seen'[u] = seen[u]

LEMMA OwnOrStill ==
  ASSUME Core, [Next]_vars, NEW u \in Threads
  PROVE  /\ Up(u)' => Up(u) /\ (Own(u) \/ Still(u))
         /\ ~ Up(u)' => \/ Still(u)
                         \/ /\ phase[u] \in {"record", "record_new", "init", "ready"}
                            /\ phase'[u] = "ready"
                         \/ /\ phase[u] \notin {"record", "record_new", "init", "ready"}
                            /\ phase'[u] = "out"
<1>. USE DEF Core, TypeOK, In, Enter, Still
<1>1. ASSUME NEW t \in Threads \ {u}, Own(t)
      PROVE  Still(u)
  BY <1>1 DEF Own, Create, Open, Construct, Truncate, ConstructPidSet, ConstructQueue,
     ConstructAllocator, InitQueue, Wake, LockPids, EnterPids, Scan, RemovePid, Decide, ResetLock,
     ResetElements, ResetCounter, ResetHeap, UnlockPids, Record, Write, scan
<1>2. ASSUME NEW p, Crash(p)
      PROVE  /\ Up(u)' => Up(u) /\ Still(u)
             /\ ~ Up(u)' => \/ Still(u)
                             \/ /\ phase[u] \in {"record", "record_new", "init", "ready"}
                                /\ phase'[u] = "ready"
                             \/ /\ phase[u] \notin {"record", "record_new", "init", "ready"}
                                /\ phase'[u] = "out"
  BY <1>2 DEF Crash, PidLock!Crash, Up
<1>3. CASE UNCHANGED vars
  BY <1>3 DEF vars, scan, Up
<1>4. ASSUME NEW t \in Threads, Own(t)
      PROVE  UNCHANGED alive /\ Up(t)
  <2>1. ASSUME LockMove(t) PROVE UNCHANGED alive
    BY <2>1, LockMoves
  <2>2. Up(t)
    BY <1>4 DEF Own, Create, Open, Construct, Truncate, ConstructPidSet, ConstructQueue,
     ConstructAllocator, InitQueue, Wake, PidLock!Call, PidLock!At, PidLock!Up, Up, LockPids,
     EnterPids, Scan, RemovePid, Decide, ResetLock, ResetElements, ResetCounter, ResetHeap,
     UnlockPids, Record, Write
  <2>3. LockMove(t) \/ UNCHANGED alive
    BY <1>4 DEF Own, Create, Open, Construct, Truncate, ConstructPidSet, ConstructQueue,
     ConstructAllocator, InitQueue, Wake, LockPids, EnterPids, Scan, RemovePid, Decide, ResetLock,
     ResetElements, ResetCounter, ResetHeap, UnlockPids, Record, Write, LockMove
  <2>. QED
    BY <2>1, <2>2, <2>3
<1>5. ASSUME Next
      PROVE  (\E t \in Threads : Own(t)) \/ (\E p : Crash(p))
  BY <1>5 DEF Next, Own, Attach, WakeTooEarly
<1>. QED
  BY <1>1, <1>2, <1>3, <1>4, <1>5 DEF Up

(* How a thread comes to the PIDSet, and that it does not come back.       *)
LEMMA Recording ==
  ASSUME Core, [Next]_vars, NEW u \in Threads
  PROVE  /\ phase[u] \in {"init", "ready"} => phase'[u] \in {"init", "ready"}
         /\ phase'[u] \in {"init", "ready"} /\ Up(u)' /\ ~ Record(u) => phase[u] \in {"init", "ready"}
         /\ phase'[u] \in {"record", "record_new"} /\ Up(u)' /\ ~ Record(u) =>
              probe'[u] = 1 \/ (probe'[u] = probe[u] /\ phase'[u] = phase[u])
<1>. USE DEF Core, TypeOK, In, Enter
<1>1. CASE Still(u)
  BY <1>1 DEF Still
<1>2. CASE ~ Up(u)' /\ ~ Still(u)
  BY <1>2, OwnOrStill
<1>3. CASE Own(u) /\ ~ Record(u)
  <2>1. PlacesInv => (phase[u] \notin {"scan", "remove", "record", "record_new"} /\ Up(u) => probe[u] = 1)
    BY DEF PlacesInv, PlaceOK
  <2>. QED
    BY <1>3, <2>1 DEF Own, Create, Open, Construct, Truncate, ConstructPidSet, ConstructQueue,
       ConstructAllocator, InitQueue, Wake, PidLock!Call, PidLock!At, PidLock!Up, Up, LockPids,
       EnterPids, Scan, RemovePid, Decide, ResetLock, ResetElements, ResetCounter, ResetHeap,
       UnlockPids, Write, scan
<1>4. CASE Record(u)
  BY <1>4 DEF Record
<1>. QED
  BY <1>1, <1>2, <1>3, <1>4, OwnOrStill

(* The slots written to are accounted for under every step.                *)
LEMMA RecordNext ==
  ASSUME Core, RecordInv, [Next]_vars
  PROVE  RecordInv'
<1>. USE SharedMemoryAssumption DEF Core
<1>1. SUFFICES ASSUME ~ late'
               PROVE  \E V : Written(V)'
  BY DEF RecordInv
<1>2. ~ late
  BY <1>1, LateStays
<1>3. PICK W : Written(W)
  BY <1>2 DEF RecordInv
<1>4. ASSUME NEW t \in Threads, ConstructPidSet(t) PROVE \E V : Written(V)'
  <2>. DEFINE V == [u \in Threads |-> 0]
  <2>1. /\ phase' = [phase EXCEPT ![t] = "queue"]
        /\ \A i \in 1 .. PidSlots : pid_set'[i] = NoPid
        /\ \A u \in Threads : phase[u] \in {"out", "wait"} \cup Building
        /\ phase[t] \in Building
    BY <1>1, <1>4 DEF ConstructPidSet, In, Enter, Building
  <2>2. \A u \in Threads : phase'[u] \notin {"record", "record_new", "init", "ready"}
    <3>1. \A u \in Threads \ {t} : phase[u] \in {"out", "wait"}
      BY <2>1 DEF CreatorInv
    <3>. QED
      BY <2>1, <3>1 DEF TypeOK
  <2>3. V \in [Threads -> 0 .. PidSlots] /\ \A u \in Threads : V[u] = 0
    OBVIOUS
  <2>. HIDE DEF V
  <2>4. Written(V)'
    BY <2>1, <2>2, <2>3 DEF Written
  <2>. QED
    BY <2>4
<1>5. ASSUME NEW t \in Threads, Record(t) PROVE \E V : Written(V)'
  <2>. DEFINE i == probe[t]
  <2>1. /\ phase[t] \in {"record", "record_new"} /\ Up(t) /\ i \in 1 .. PidSlots
        /\ UNCHANGED alive /\ W[t] = 0
        /\ \A j \in 1 .. i - 1 : Used(W, t, j)
    <3>1. phase[t] \in {"record", "record_new"} /\ Up(t) /\ i \in 1 .. PidSlots /\ UNCHANGED alive
      BY <1>5 DEF Record, In, TypeOK
    <3>. QED
      BY <1>3, <3>1 DEF Written
  <2>2. \A u \in Threads \ {t} : phase'[u] = phase[u] /\ probe'[u] = probe[u]
    BY <1>5 DEF Record, Enter, TypeOK
  <2>3. phase'[t] \in {"record", "record_new", "init", "ready"}
    BY <1>5 DEF Record, Enter, In, TypeOK
  <2>4. CASE /\ pid_set[i] = NoPid /\ phase'[t] \in {"init", "ready"}
             /\ pid_set' = [pid_set EXCEPT ![i] = PidOf[t]]
    <3>. DEFINE V == [W EXCEPT ![t] = i]
    <3>1. /\ V \in [Threads -> 0 .. PidSlots] /\ V[t] = i
          /\ \A u \in Threads \ {t} : V[u] = W[u]
      BY <1>3, <2>1 DEF Written
    <3>. HIDE DEF V
    <3>2. \A u \in Threads : phase'[u] \notin {"init", "ready"} => V[u] = 0
      BY <1>3, <2>2, <2>4, <3>1 DEF Written
    <3>3. \A j \in 1 .. PidSlots : pid_set'[j] # NoPid =>
            \E u \in Threads : V[u] = j /\ PidOf[u] = pid_set'[j]
      <4>1. ASSUME NEW j \in 1 .. PidSlots \ {i}, pid_set'[j] # NoPid
            PROVE  \E u \in Threads : V[u] = j /\ PidOf[u] = pid_set'[j]
        <5>1. pid_set'[j] = pid_set[j]
          BY <2>4, <4>1 DEF TypeOK
        <5>2. PICK u \in Threads : W[u] = j /\ PidOf[u] = pid_set[j]
          BY <1>3, <4>1, <5>1 DEF Written
        <5>3. u # t
          BY <2>1, <4>1, <5>2
        <5>. QED
          BY <3>1, <5>1, <5>2, <5>3
      <4>2. pid_set'[i] = PidOf[t]
        BY <2>1, <2>4 DEF TypeOK
      <4>. QED
        BY <3>1, <4>1, <4>2
    <3>4. \A u \in Threads, j \in 1 .. PidSlots : Used(W, u, j) => Used(V, u, j)
      BY <2>1, <3>1 DEF Used
    <3>5. \A u \in Threads : Up(u)' /\ phase'[u] \in {"record", "record_new"} =>
            \A j \in 1 .. probe'[u] - 1 : Used(V, u, j)
      <4>1. ASSUME NEW u \in Threads, Up(u)', phase'[u] \in {"record", "record_new"},
                   NEW j \in 1 .. probe'[u] - 1
            PROVE  Used(V, u, j)
        <5>1. u # t /\ Up(u) /\ phase[u] \in {"record", "record_new"} /\ probe'[u] = probe[u]
          BY <2>1, <2>2, <2>4, <4>1 DEF Up
        <5>2. j \in 1 .. PidSlots
          BY <4>1, <5>1 DEF TypeOK
        <5>. QED
          BY <1>3, <3>4, <4>1, <5>1, <5>2 DEF Written
      <4>. QED
        BY <4>1
    <3>6. \A u \in Threads : Up(u)' /\ phase'[u] \in {"init", "ready"} =>
            \/ \E j \in 1 .. PidSlots : pid_set'[j] = PidOf[u]
            \/ \A j \in 1 .. PidSlots : Used(V, u, j)
      <4>1. pid_set'[i] = PidOf[t]
        BY <2>1, <2>4 DEF TypeOK
      <4>2. ASSUME NEW u \in Threads \ {t}, Up(u)', phase'[u] \in {"init", "ready"}
            PROVE  \/ \E j \in 1 .. PidSlots : pid_set'[j] = PidOf[u]
                   \/ \A j \in 1 .. PidSlots : Used(V, u, j)
        <5>1. \A j \in 1 .. PidSlots : pid_set[j] # NoPid => pid_set'[j] = pid_set[j]
          BY <2>4 DEF TypeOK
        <5>2. PidOf[u] # NoPid
          OBVIOUS
        <5>. QED
          BY <1>3, <2>1, <2>2, <3>4, <4>2, <5>1, <5>2 DEF Written, Up
      <4>. QED
        BY <2>1, <4>1, <4>2
    <3>. QED
      BY <3>1, <3>2, <3>3, <3>5, <3>6 DEF Written, Used
  <2>5. CASE pid_set[i] # NoPid /\ UNCHANGED pid_set
    <3>1. \A u \in Threads : phase'[u] \notin {"init", "ready"} => W[u] = 0
      BY <1>3, <2>1, <2>2 DEF Written
    <3>2. \A u \in Threads \ {t} :
            /\ Up(u)' /\ phase'[u] \in {"record", "record_new"} =>
                 \A j \in 1 .. probe'[u] - 1 : Used(W, u, j)
            /\ Up(u)' /\ phase'[u] \in {"init", "ready"} =>
                 \/ \E j \in 1 .. PidSlots : pid_set'[j] = PidOf[u]
                 \/ \A j \in 1 .. PidSlots : Used(W, u, j)
      BY <1>3, <2>1, <2>2, <2>5 DEF Written, Up
    <3>3. Used(W, t, i)
      <4>1. PICK u \in Threads : W[u] = i
        BY <1>3, <2>1, <2>5 DEF Written
      <4>. QED
        BY <2>1, <4>1 DEF Used
    <3>4. \A j \in 1 .. i : Used(W, t, j)
      BY <2>1, <3>3
    <3>5. CASE (pid_set[i] = PidOf[t] \/ i = PidSlots) /\ phase'[t] \in {"init", "ready"}
      BY <1>3, <2>1, <2>5, <3>1, <3>2, <3>4, <3>5 DEF Written, Used
    <3>6. CASE phase'[t] \in {"record", "record_new"} /\ probe'[t] = i + 1
      <4>1. \A j \in 1 .. probe'[t] - 1 : Used(W, t, j)
        BY <2>1, <3>4, <3>6
      <4>. QED
        BY <1>3, <2>1, <2>5, <3>1, <3>2, <3>6, <4>1 DEF Written, Used
    <3>. QED
      BY <1>5, <2>1, <2>5, <3>5, <3>6 DEF Record, Enter, TypeOK
  <2>. QED
    BY <1>5, <2>1, <2>4, <2>5 DEF Record, Enter, TypeOK
<1>6. ASSUME ~ \E t \in Threads : ConstructPidSet(t) \/ Record(t)
      PROVE  Written(W)'
  <2>1. \A u \in Threads : phase'[u] \notin {"init", "ready"} => W[u] = 0
    BY <1>3, Recording DEF Written
  <2>2. \A i \in 1 .. PidSlots : pid_set'[i] \in {NoPid, pid_set[i]}
    <3>1. ASSUME NEW t \in Threads, RemovePid(t)
          PROVE  \A i \in 1 .. PidSlots : pid_set'[i] \in {NoPid, pid_set[i]}
      BY <3>1 DEF RemovePid, TypeOK
    <3>. QED
      BY <1>6, <3>1, PidSetChanges
  <2>3. \A i \in 1 .. PidSlots : pid_set'[i] # NoPid =>
          \E u \in Threads : W[u] = i /\ PidOf[u] = pid_set'[i]
    BY <1>3, <2>2 DEF Written
  <2>4. ASSUME NEW u \in Threads, Up(u)', phase'[u] \in {"record", "record_new"},
               NEW i \in 1 .. probe'[u] - 1
        PROVE  Used(W, u, i)
    <3>1. Up(u) /\ probe'[u] = probe[u] /\ phase'[u] = phase[u]
      BY <1>6, <2>4, Recording, OwnOrStill
    <3>. QED
      BY <1>3, <2>4, <3>1 DEF Written
  <2>5. ASSUME NEW u \in Threads, Up(u)', phase'[u] \in {"init", "ready"}
        PROVE  \/ \E i \in 1 .. PidSlots : pid_set'[i] = PidOf[u]
               \/ \A i \in 1 .. PidSlots : Used(W, u, i)
    <3>1. Up(u) /\ phase[u] \in {"init", "ready"}
      BY <1>6, <2>5, Recording, OwnOrStill
    <3>2. \A i \in 1 .. PidSlots : pid_set[i] \in alive => pid_set'[i] = pid_set[i]
      BY <1>6, LivePidsStay
    <3>. QED
      BY <1>3, <3>1, <3>2 DEF Written, Up
  <2>. QED
    BY <1>3, <2>1, <2>3, <2>4, <2>5 DEF Written, Used
<1>. QED
  BY <1>4, <1>5, <1>6


-----------------------------------------------------------------------------
(* What the dead have left *)

(* Only who takes the lock finds something left over.                      *)
LEMMA LeftShrinks ==
  ASSUME Core, [Next]_vars, ~ \E t \in Threads : EnterPids(t)
  PROVE  Left' \subseteq Left
<1>1. ASSUME NEW t \in Threads, Own(t)
      PROVE  \A c \in Contents : data'[c] = "left" => data[c] = "left"
  BY <1>1 DEF Core, TypeOK, Own, Create, Open, Construct, Truncate, ConstructPidSet, ConstructQueue,
     ConstructAllocator, InitQueue, Wake, LockPids, Scan, RemovePid, Decide, ResetLock,
     ResetElements, ResetCounter, ResetHeap, UnlockPids, Record, Write
<1>2. ASSUME NEW p, Crash(p) PROVE UNCHANGED data
  BY <1>2 DEF Crash
<1>3. CASE UNCHANGED vars
  BY <1>3 DEF vars, Left
<1>4. CASE Next
  BY <1>1, <1>2, <1>4 DEF Next, Own, Attach, WakeTooEarly, Left
<1>. QED
  BY <1>3, <1>4

(* A live pid on record is that of a thread inside. *)
LEMMA OnRecordInside ==
  ASSUME Core, RecordInv, ~ late, NEW i \in 1 .. PidSlots, pid_set[i] \in alive
  PROVE  \E u \in Threads : Inside(u)
<1>1. PICK W : Written(W)
  BY DEF RecordInv
<1>2. pid_set[i] # NoPid
  BY SharedMemoryAssumption DEF Core, TypeOK, PidLock!TypeOK
<1>3. PICK u \in Threads : W[u] = i /\ PidOf[u] = pid_set[i]
  BY <1>1, <1>2 DEF Written
<1>4. phase[u] \in {"init", "ready"}
  BY <1>1, <1>3, SharedMemoryAssumption DEF Written
<1>. QED
  BY <1>3, <1>4 DEF Inside, Up, Building

(* What is left over is cleaned up under every step. *)
LEMMA LeftNext ==
  ASSUME Core, RecordInv, LeftInv, [Next]_vars
  PROVE  LeftInv'
<1>. USE DEF Core, Enter, In
<1>1. SUFFICES ASSUME ~ late', Left' # {}
               PROVE  /\ \A u \in Threads : ~ Inside(u)'
                      /\ \A u \in Threads : Up(u)' /\ phase'[u] \in Locking => Cleaning(u)'
  BY DEF LeftInv
<1>2. ~ late
  BY <1>1, LateStays
<1>3. ASSUME NEW t \in Threads, EnterPids(t)
      PROVE  /\ \A u \in Threads : ~ Inside(u)'
             /\ \A u \in Threads : Up(u)' /\ phase'[u] \in Locking => Cleaning(u)'
  <2>1. /\ phase[t] = "lock" /\ Up(t) /\ phase' = [phase EXCEPT ![t] = "scan"]
        /\ UNCHANGED <<seen, alive>> /\ pids_pc[t] = "own"
    BY <1>3 DEF EnterPids, PidLock!Own, PidLock!At
  <2>2. \A u \in Threads : ~ Inside(u)
    <3>1. (\E u \in Threads : Inside(u)) => UNCHANGED data
      BY <1>3 DEF EnterPids
    <3>2. UNCHANGED data => Left # {}
      BY <1>1 DEF Left
    <3>. QED
      BY <1>2, <3>1, <3>2 DEF LeftInv
  <2>3. \A u \in Threads : ~ Inside(u)'
    BY <2>1, <2>2 DEF Inside, Up, TypeOK, Building
  <2>4. ASSUME NEW u \in Threads, Up(u), phase[u] \in Locking
        PROVE  FALSE
    <3>1. pids_pc[u] \in {"held", "unlock"}
      BY <2>4 DEF PlacesInv, LockPlace
    <3>2. LockProofs!Writes(t) /\ LockProofs!Writes(u)
      BY <2>1, <2>4, <3>1 DEF LockProofs!Writes, LockProofs!Exclusive, LockProofs!Up, Up
    <3>3. LockProofs!WriterInv
      BY <1>2 DEF LockOrLate, LockProofs!LockInv
    <3>. QED
      BY <2>1, <3>1, <3>2, <3>3 DEF LockProofs!WriterInv
  <2>5. ~ seen[t]
    BY <2>1 DEF PlacesInv, PlaceOK
  <2>6. Cleaning(t)'
    BY <2>1, <2>5 DEF Cleaning, TypeOK
  <2>. QED
    BY <2>1, <2>3, <2>4, <2>6 DEF Up, TypeOK
<1>4. ASSUME ~ \E t \in Threads : EnterPids(t)
      PROVE  /\ \A u \in Threads : ~ Inside(u)'
             /\ \A u \in Threads : Up(u)' /\ phase'[u] \in Locking => Cleaning(u)'
  <2>1. Left' \subseteq Left /\ Left # {}
    BY <1>1, <1>4, LeftShrinks
  <2>2. \A u \in Threads : ~ Inside(u)
    BY <1>2, <2>1 DEF LeftInv
  <2>3. \A u \in Threads : Up(u) /\ phase[u] \in Locking => Cleaning(u)
    BY <1>2, <2>1 DEF LeftInv
  <2>4. ASSUME NEW u \in Threads, Up(u)' PROVE Up(u) /\ (Own(u) \/ Still(u))
    BY <2>4, OwnOrStill
  <2>5. ASSUME NEW u \in Threads, Inside(u)' PROVE FALSE
    <3>1. Up(u) /\ (Own(u) \/ Still(u)) /\ phase'[u] \in Building \cup {"record", "ready"}
      BY <2>4, <2>5 DEF Inside
    <3>2. CASE Still(u)
      BY <2>2, <3>1, <3>2 DEF Still, Inside
    <3>3. CASE Create(u)
      <4>1. \A c \in Contents : data[c] = "clean"
        BY <3>3 DEF Create, CreatorInv
      <4>. QED
        BY <2>1, <4>1 DEF Left
    <3>4. CASE UnlockPids(u)
      <4>1. phase[u] = "unlock"
        BY <3>4 DEF UnlockPids
      <4>. QED
        BY <2>3, <3>1, <4>1 DEF Cleaning, Locking
    <3>5. CASE Construct(u) \/ Record(u) \/ Write(u)
      <4>1. phase[u] \in Building \cup {"record", "ready"}
        BY <3>5 DEF Construct, Truncate, ConstructPidSet, ConstructQueue, ConstructAllocator,
           InitQueue, Record, Write, Building
      <4>. QED
        BY <2>2, <3>1, <4>1 DEF Inside
    <3>6. CASE \/ Open(u) \/ Wake(u) \/ LockPids(u) \/ Scan(u) \/ RemovePid(u) \/ Decide(u)
               \/ ResetLock(u) \/ ResetElements(u) \/ ResetCounter(u) \/ ResetHeap(u)
      <4>1. phase'[u] \in {"wait", "lock"} \cup Locking
        BY <3>6 DEF Open, Wake, LockPids, Scan, RemovePid, Decide, ResetLock, ResetElements,
           ResetCounter, ResetHeap, TypeOK, Locking, Resetting
      <4>. QED
        BY <3>1, <4>1 DEF Building, Locking, Resetting
    <3>. QED
      BY <1>4, <3>1, <3>2, <3>3, <3>4, <3>5, <3>6 DEF Own
  <2>6. ASSUME NEW u \in Threads, Up(u)', phase'[u] \in Locking PROVE Cleaning(u)'
    <3>1. Up(u) /\ (Own(u) \/ Still(u))
      BY <2>4, <2>6
    <3>2. CASE Still(u)
      BY <2>1, <2>3, <2>6, <3>1, <3>2 DEF Still, Cleaning
    <3>3. CASE Scan(u)
      <4>1. phase[u] = "scan" /\ probe[u] \in 1 .. PidSlots /\ ~ seen[u]
        BY <2>3, <3>1, <3>3 DEF Scan, Cleaning, TypeOK, Locking
      <4>2. pid_set[probe[u]] \notin alive
        BY <1>2, <2>2, <4>1, OnRecordInside
      <4>3. ~ seen'[u]
        <5>1. \/ /\ seen' = [seen EXCEPT ![u] = @ \/ pid_set[probe[u]] # NoPid]
                 /\ pid_set[probe[u]] = NoPid
              \/ UNCHANGED seen
          BY <3>3, <4>2 DEF Scan
        <5>. QED
          BY <4>1, <5>1, Zenon DEF TypeOK
      <4>4. phase'[u] \in {"scan", "remove"}
        BY <3>3 DEF Scan, TypeOK
      <4>. QED
        BY <4>3, <4>4 DEF Cleaning
    <3>4. CASE RemovePid(u) \/ Decide(u) \/ ResetLock(u)
      <4>1. ~ seen[u]
        BY <2>3, <3>1, <3>4 DEF RemovePid, Decide, ResetLock, Cleaning, Locking, Resetting
      <4>2. phase'[u] \in {"scan", "reset_lock", "reset_elements"} /\ ~ seen'[u]
        BY <3>4, <4>1 DEF RemovePid, Decide, ResetLock, TypeOK, scan
      <4>. QED
        BY <4>2 DEF Cleaning
    <3>5. CASE ResetElements(u) \/ ResetCounter(u)
      <4>1. Cleaning(u) /\ phase[u] \in {"reset_elements", "reset_counter"} /\ UNCHANGED seen
        BY <2>3, <3>1, <3>5 DEF ResetElements, ResetCounter, scan, Locking, Resetting
      <4>. QED
        BY <2>1, <3>5, <4>1 DEF ResetElements, ResetCounter, Cleaning, Left, Contents, TypeOK
    <3>6. CASE ResetHeap(u)
      <4>1. Cleaning(u) /\ phase[u] = "reset_heap"
        BY <2>3, <3>1, <3>6 DEF ResetHeap, Locking, Resetting
      <4>2. "heap" \notin Left'
        BY <3>6 DEF ResetHeap, Left, Contents, TypeOK
      <4>3. Left' = {}
        BY <2>1, <4>1, <4>2 DEF Cleaning, Left, Contents
      <4>. QED
        BY <1>1, <4>3
    <3>7. CASE UnlockPids(u)
      <4>1. phase[u] = "unlock"
        BY <3>7 DEF UnlockPids
      <4>. QED
        BY <2>3, <3>1, <4>1 DEF Cleaning, Locking
    <3>8. CASE \/ Create(u) \/ Open(u) \/ Construct(u) \/ Wake(u) \/ LockPids(u)
               \/ Record(u) \/ Write(u)
      <4>1. phase'[u] \notin Locking
        BY <3>8 DEF Create, Open, Construct, Truncate, ConstructPidSet, ConstructQueue,
           ConstructAllocator, InitQueue, Wake, LockPids, Record, Write, TypeOK, Locking, Resetting
      <4>. QED
        BY <2>6, <4>1
    <3>. QED
      BY <1>4, <3>1, <3>2, <3>3, <3>4, <3>5, <3>6, <3>7, <3>8 DEF Own
  <2>. QED
    BY <2>5, <2>6
<1>. QED
  BY <1>3, <1>4

-----------------------------------------------------------------------------
(* Theorems *)

(* The invariant holds in the beginning. *)
LEMMA InvInit == Init => Inv
<1>. SUFFICES ASSUME Init PROVE Inv
  OBVIOUS
<1>1. PidLock!TypeOK
  BY SharedMemoryAssumption DEF Init, PidLock!Init, PidLock!Unlocked, PidLock!TypeOK
<1>2. TypeOK
  <2>1. /\ built \subseteq Parts
        /\ pid_set \in [1 .. PidSlots -> Pids \cup {NoPid}]
        /\ data \in [Contents -> {"clean", "used", "left"}]
        /\ phase \in [Threads -> Building \cup Attaching \cup {"out", "ready"}]
    BY SharedMemoryAssumption DEF Init
  <2>2. /\ probe \in [Threads -> 1 .. PidSlots + 1]
        /\ \A t \in Threads : phase[t] # "scan" => probe[t] <= PidSlots
    BY SharedMemoryAssumption DEF Init
  <2>3. seen \in [Threads -> BOOLEAN] /\ late \in BOOLEAN
    BY Zenon DEF Init
  <2>4. /\ dead \in [Threads -> Pids \cup {NoPid}] /\ known \in [Threads -> SUBSET Pids]
    BY DEF Init
  <2>. QED
    BY <1>1, <2>1, <2>2, <2>3, <2>4 DEF TypeOK
<1>3. PlacesInv
  BY DEF Init, PidLock!Init, PlacesInv, LockPlace, PlaceOK, Locking, Resetting
<1>4. CreatorInv
  BY DEF Init, CreatorInv, Building
<1>5. KnownInv
  BY DEF Init, KnownInv, Looking, Resetting
<1>6. RecordInv
  <2>. DEFINE W == [u \in Threads |-> 0]
  <2>1. Written(W)
    BY SharedMemoryAssumption DEF Init, Written
  <2>. QED
    BY <2>1 DEF RecordInv
<1>7. LeftInv
  BY DEF Init, LeftInv, Left
<1>. QED
  BY <1>2, <1>3, <1>4, <1>5, <1>6, <1>7, LockInit DEF Inv, Core, LockOrLate

(* Every step preserves it. *)
LEMMA InvNext ==
  ASSUME Inv, [Next]_vars
  PROVE  Inv'
<1>1. TypeOK' /\ PlacesInv' /\ CreatorInv' /\ LockOrLate'
  BY TypeInv, PlacesNext, CreatorNext, LockInvNext DEF Inv, Core
<1>2. KnownInv' /\ RecordInv' /\ LeftInv'
  BY KnownNext, RecordNext, LeftNext DEF Inv
<1>. QED
  BY <1>1, <1>2 DEF Inv, Core

(* It is an invariant. *)
LEMMA Invariance == Spec => []Inv
<1>1. Init => Inv
  BY InvInit
<1>2. Inv /\ [Next]_vars => Inv'
  BY InvNext
<1>. QED
  BY <1>1, <1>2, PTL DEF Spec

(* Every variable keeps to its type, and the scan of the PIDSet to its     *)
(* slots, whoever dies and wherever.                                       *)
THEOREM TypeCorrect == Spec => []TypeOK
<1>1. Inv => TypeOK
  BY DEF Inv, Core
<1>. QED
  BY <1>1, Invariance, PTL

(* Only one process at a time looks for the living and resets the segment, *)
(* whoever dies in there, however the C library unlocks a rwlock for the   *)
(* dead: only a PIDSet that is constructed late breaks it.                 *)
THEOREM ResetsAreExclusive == Spec => []ResetsExclude
<1>1. Inv => ResetsExclude
  BY LockersExclude DEF Inv
<1>. QED
  BY <1>1, Invariance, PTL

(* The segment is not reset while a process is alive that was on record    *)
(* when the lock was taken, whatever is pruned and inserted meanwhile.     *)
THEOREM TheLivingAreSpared == Spec => []NoResetOfKnown
<1>1. Inv => NoResetOfKnown
  BY DEF Inv, KnownInv, NoResetOfKnown
<1>. QED
  BY <1>1, Invariance, PTL

(* A live process that uses the segment is on record, unless at least as   *)
(* many others as the PIDSet has slots have come: they may have filled it. *)
THEOREM UsersAreOnRecord == Spec => []UsersOnRecord
<1>1. Inv => UsersOnRecord
  <2>. SUFFICES ASSUME Inv, ~ late, NEW t \in Threads, In(t, "ready"),
                       ~ \E i \in 1 .. PidSlots : pid_set[i] = PidOf[t]
                PROVE  Cardinality({ u \in Threads \ {t} :
                          phase[u] \in {"record", "record_new", "init", "ready"} }) >= PidSlots
    BY DEF UsersOnRecord
  <2>. DEFINE R == { u \in Threads \ {t} :
                        phase[u] \in {"record", "record_new", "init", "ready"} }
  <2>1. PICK W : Written(W)
    BY DEF Inv, RecordInv
  <2>. DEFINE S == { u \in R : W[u] # 0 }
  <2>. DEFINE f == [u \in S |-> W[u]]
  <2>2. \A j \in 1 .. PidSlots : Used(W, t, j)
    BY <2>1 DEF Written, In
  <2>3. f \in [S -> 1 .. PidSlots]
    BY <2>1, SharedMemoryAssumption DEF Written
  <2>4. \A j \in 1 .. PidSlots : \E u \in S : f[u] = j
    <3>. SUFFICES ASSUME NEW j \in 1 .. PidSlots PROVE \E u \in S : f[u] = j
      OBVIOUS
    <3>1. PICK u \in Threads \ {t} : W[u] = j
      BY <2>2 DEF Used
    <3>2. u \in S
      BY <2>1, <3>1, SharedMemoryAssumption DEF Written
    <3>. QED
      BY <3>1, <3>2
  <2>5. f \in Surjection(S, 1 .. PidSlots)
    BY <2>3, <2>4 DEF Surjection
  <2>6. IsFiniteSet(R) /\ IsFiniteSet(S) /\ Cardinality(S) <= Cardinality(R)
    <3>1. R \in SUBSET Threads /\ S \in SUBSET R
      OBVIOUS
    <3>2. IsFiniteSet(R)
      BY <3>1, FS_Subset, SharedMemoryAssumption
    <3>. QED
      BY <3>1, <3>2, FS_Subset
  <2>7. Cardinality(1 .. PidSlots) <= Cardinality(S)
    BY <2>5, <2>6, FS_Surjection
  <2>8. Cardinality(1 .. PidSlots) = PidSlots
    BY FS_Interval, SharedMemoryAssumption
  <2>9. Cardinality(S) \in Nat /\ Cardinality(R) \in Nat
    BY <2>6, FS_CardinalityType
  <2>. QED
    BY <2>6, <2>7, <2>8, <2>9, SharedMemoryAssumption
<1>. QED
  BY <1>1, Invariance, PTL

(* What the dead have left is gone when the first process gets on record   *)
(* that comes after them, also if others have died cleaning it up.         *)
THEOREM NothingIsLeftOver == Spec => []NoLeftovers
<1>1. Inv => NoLeftovers
  BY DEF Inv, LeftInv, Left, Inside, NoLeftovers
<1>. QED
  BY <1>1, Invariance, PTL

=============================================================================
