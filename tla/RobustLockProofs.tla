--------------------------- MODULE RobustLockProofs ---------------------------
(***************************************************************************)
(* Proofs about RobustLock, for any number of processes with any number of *)
(* threads each, any size of the set, and crashes anywhere.  Whenever a    *)
(* rwlock is unlocked for somebody else, the C library may do either of    *)
(* what UnlockRW says.                                                     *)
(***************************************************************************)
EXTENDS RobustLock, FiniteSetTheorems, TLAPS

-----------------------------------------------------------------------------
(* The inductive invariant *)

(* What a thread is doing and what it has loaded go together.              *)
PlaceOK(t) ==
  /\ pc[t] = "own" => Exclusive(t)
  /\ pc[t] \in {"insert", "insert_cas"} => ~ Exclusive(t)
  /\ pc[t] \in {"prune", "prune_unlock"} => Exclusive(t)
  /\ pc[t] \in {"idle", "try", "last", "insert", "insert_cas"} /\ Up(t) =>
       cursor[t] \in 1 .. Slots
  /\ pc[t] = "recover" /\ Up(t) => found[t] \in Pids \ alive
  /\ pc[t] \in {"remove", "remove_cas"} /\ Up(t) =>
       /\ slot[t] \in 1 .. Slots
       /\ IF Exclusive(t) THEN found[t] \in Pids \ alive ELSE found[t] = PidOf[t]

PlacesInv == \A t \in Threads : PlaceOK(t)

(* Threads that have the rwlock exclusively, the dead as long as nobody    *)
(* has released it for them.                                               *)
Writes(t) == Exclusive(t) /\ (pc[t] \in {"own", "unlock"} \/ (pc[t] = "held" /\ Up(t)))

(* The writer of the rwlock, its record, and who releases it for a dead    *)
(* one: that is decided by who takes the dead owner off the record.        *)
WriterInv ==
  /\ rwlock.writer # NoThread =>
       Exclusive(rwlock.writer) /\ pc[rwlock.writer] \in {"own", "held", "unlock"}
  /\ \A t \in Threads : Writes(t) => rwlock.writer = t
  /\ \A t \in Threads : Writes(t) /\ pc[t] = "held" => exclusive_owner = PidOf[t]
  /\ exclusive_owner # NoPid =>
       /\ rwlock.writer # NoThread /\ pc[rwlock.writer] = "held"
       /\ PidOf[rwlock.writer] = exclusive_owner
  /\ \A t \in Threads : pc[t] = "release" =>
       /\ exclusive_owner = NoPid
       /\ rwlock.writer # NoThread /\ pc[rwlock.writer] = "held" /\ ~ Up(rwlock.writer)
  /\ \A t, u \in Threads : pc[t] = "release" /\ pc[u] = "release" => t = u

Recorded == { i \in 1 .. Slots : shared_owners[i] # NoPid }
RecordOf(p) == { i \in 1 .. Slots : shared_owners[i] = p }
Between == { t \in Threads : ~ Exclusive(t) /\ pc[t] \in {"insert", "insert_cas", "unlock"} }
Pruning == { t \in Threads : pc[t] = "prune_unlock" }
Reads(t) == ~ Exclusive(t) /\ pc[t] \in {"held", "remove", "remove_cas"}
ReadersOf(p) == { t \in Threads : PidOf[t] = p /\ Reads(t) }

Counted ==
  rwlock.readers = Cardinality(Recorded) + Cardinality(Between) + Cardinality(Pruning)

(* The rwlock was unlocked for a dead writer and counts one reader less    *)
(* than none.  The writer is off the record, so nobody does it again.      *)
Hangs ==
  /\ Recorded = {} /\ Between = {} /\ Pruning = {}
  /\ rwlock.readers = -1
  /\ exclusive_owner = NoPid /\ \A t \in Threads : pc[t] # "release"
  /\ rwlock.writer # NoThread /\ ~ Up(rwlock.writer)

(* Every read lock is on record or in somebody's hands, never beside a     *)
(* writer, and a live process is on record for each thread that reads.     *)
ReadersInv ==
  /\ Counted \/ Hangs
  /\ rwlock.readers > 0 => rwlock.writer = NoThread
  /\ \A p \in alive : Cardinality(ReadersOf(p)) <= Cardinality(RecordOf(p))

LockInv == TypeOK /\ PlacesInv /\ WriterInv /\ ReadersInv

-----------------------------------------------------------------------------
(* Lemmas                                                                  *)

(* The sets that are counted are finite.                                   *)
LEMMA CountsAreFinite ==
  /\ IsFiniteSet(Recorded) /\ IsFiniteSet(Between) /\ IsFiniteSet(Pruning)
  /\ \A p \in Pids : IsFiniteSet(ReadersOf(p)) /\ IsFiniteSet(RecordOf(p))
<1>1. \A T \in SUBSET Threads : IsFiniteSet(T)
  BY FS_Subset, RobustLockAssumption
<1>2. IsFiniteSet(1 .. Slots)
  BY FS_Interval, RobustLockAssumption
<1>3. \A S \in SUBSET (1 .. Slots) : IsFiniteSet(S)
  BY <1>2, FS_Subset
<1>. QED
  BY <1>1, <1>3 DEF Recorded, RecordOf, Between, Pruning, ReadersOf

(* Counting after one element has come in or gone.                         *)
LEMMA CountOne ==
  ASSUME NEW S, IsFiniteSet(S), NEW x
  PROVE  /\ Cardinality(S) \in Nat
         /\ x \notin S => Cardinality(S \cup {x}) = Cardinality(S) + 1
         /\ x \in S => Cardinality(S \ {x}) = Cardinality(S) - 1 /\ Cardinality(S) > 0
<1>1. Cardinality(S) \in Nat
  BY FS_CardinalityType
<1>2. ASSUME x \notin S PROVE Cardinality(S \cup {x}) = Cardinality(S) + 1
  BY <1>2, FS_AddElement
<1>3. ASSUME x \in S PROVE Cardinality(S \ {x}) = Cardinality(S) - 1 /\ Cardinality(S) > 0
  <2>1. IsFiniteSet(S \ {x}) /\ Cardinality(S \ {x}) = Cardinality(S) - 1
    BY <1>3, FS_RemoveElement
  <2>2. Cardinality(S \ {x}) \in Nat
    BY <2>1, FS_CardinalityType
  <2>. QED
    BY <1>1, <2>1, <2>2
<1>. QED
  BY <1>1, <1>2, <1>3

(* Nobody gives back a read lock of a rwlock that hangs, nor gets it.      *)
LEMMA NotHanging ==
  ASSUME LockInv,
         \/ Recorded # {} \/ Between # {} \/ Pruning # {}
         \/ rwlock.writer = NoThread \/ exclusive_owner # NoPid
         \/ \E t \in Threads : (rwlock.writer = t /\ Up(t)) \/ pc[t] = "release"
  PROVE  Counted
BY DEF LockInv, ReadersInv, Hangs

(* What hangs hangs on while the rwlock and its records stay as they are.  *)
LEMMA HangsOn ==
  ASSUME LockInv, UNCHANGED <<rwlock, exclusive_owner>>, alive' \subseteq alive,
         Recorded' = Recorded, Between' = Between, Pruning' = Pruning,
         \A t \in Threads : pc'[t] = "release" => pc[t] = "release"
  PROVE  (Counted \/ Hangs)'
BY DEF LockInv, ReadersInv, Counted, Hangs, Up

(* Somebody who gives back a read lock finds no writer.                    *)
LEMMA ReaderExcludesWriter ==
  ASSUME LockInv, Recorded # {} \/ Between # {} \/ Pruning # {}
  PROVE  rwlock.writer = NoThread /\ rwlock.readers > 0 /\ rwlock.readers \in Nat
<1>1. /\ Cardinality(Recorded) \in Nat /\ Cardinality(Between) \in Nat
      /\ Cardinality(Pruning) \in Nat
  BY CountsAreFinite, FS_CardinalityType
<1>2. Cardinality(Recorded) > 0 \/ Cardinality(Between) > 0 \/ Cardinality(Pruning) > 0
  BY CountsAreFinite, CountOne
<1>3. Counted
  BY NotHanging
<1>. QED
  BY <1>1, <1>2, <1>3 DEF LockInv, ReadersInv, Counted

(* A step after which no process has more readers and none less on record. *)
LEMMA StillOnRecord ==
  ASSUME LockInv, alive' \subseteq alive,
         \A p \in Pids : RecordOf(p)' = RecordOf(p),
         \A p \in Pids : ReadersOf(p)' \subseteq ReadersOf(p)
  PROVE  \A p \in alive' : Cardinality(ReadersOf(p)') <= Cardinality(RecordOf(p)')
<1>. SUFFICES ASSUME NEW p \in alive'
              PROVE  Cardinality(ReadersOf(p)') <= Cardinality(RecordOf(p)')
  OBVIOUS
<1>1. p \in Pids /\ IsFiniteSet(ReadersOf(p)) /\ IsFiniteSet(RecordOf(p))
  BY CountsAreFinite DEF LockInv, TypeOK
<1>2. /\ IsFiniteSet(ReadersOf(p)')
      /\ Cardinality(ReadersOf(p)') <= Cardinality(ReadersOf(p))
  BY <1>1, FS_Subset
<1>3. /\ Cardinality(ReadersOf(p)') \in Nat /\ Cardinality(ReadersOf(p)) \in Nat
      /\ Cardinality(RecordOf(p)) \in Nat
  BY <1>1, <1>2, FS_CardinalityType
<1>. QED
  BY <1>1, <1>2, <1>3 DEF LockInv, ReadersInv

(* Everybody but t stays as he is.                                         *)
OthersStay(t) ==
  \A u \in Threads \ {t} :
    /\ pc'[u] = pc[u] /\ op'[u] = op[u]
    /\ found'[u] = found[u] /\ cursor'[u] = cursor[u] /\ slot'[u] = slot[u]

(* What t has of the exclusive lock stays as it is.                        *)
SameWriter(t) ==
  /\ Writes(t)' <=> Writes(t)
  /\ (pc'[t] = "release") <=> (pc[t] = "release")
  /\ Writes(t)' => pc'[t] = pc[t]
  /\ Exclusive(t) /\ pc[t] \in {"own", "held", "unlock"} => Exclusive(t)' /\ pc'[t] = pc[t]

LEMMA WriterKept ==
  ASSUME LockInv, NEW t \in Threads, OthersStay(t), SameWriter(t),
         rwlock'.writer = rwlock.writer, UNCHANGED <<exclusive_owner, alive>>
  PROVE  WriterInv'
<1>1. \A u \in Threads :
        /\ Writes(u)' <=> Writes(u)
        /\ (pc'[u] = "release") <=> (pc[u] = "release")
        /\ Exclusive(u) /\ pc[u] \in {"own", "held", "unlock"} =>
             Exclusive(u)' /\ pc'[u] = pc[u]
        /\ Up(u)' <=> Up(u)
        /\ Writes(u)' => pc'[u] = pc[u]
  BY DEF OthersStay, SameWriter, Exclusive, Writes, Up
<1>2. rwlock.writer # NoThread => rwlock.writer \in Threads
  BY DEF LockInv, TypeOK
<1>. QED
  BY <1>1, <1>2 DEF LockInv, WriterInv

(* The rwlock and its records are not touched, and t stays out of the      *)
(* places where it has any of them, or inserts its pid before and after.   *)
Involved(t) ==
  \/ Exclusive(t) /\ pc[t] \in {"own", "held", "unlock"}
  \/ pc[t] \in {"release", "prune_unlock", "unlock", "insert", "insert_cas"}
Inserting(t) == pc[t] \in {"insert", "insert_cas"} /\ ~ Exclusive(t)
Quiet(t) ==
  /\ UNCHANGED <<rwlock, exclusive_owner, shared_owners, alive>>
  /\ OthersStay(t)
  /\ \/ Inserting(t) /\ Inserting(t)'
     \/ ~ Involved(t) /\ ~ Involved(t)'
  /\ Reads(t)' => Reads(t)

(* A quiet step keeps the writer and the count of readers as they are.     *)
LEMMA QuietInv ==
  ASSUME LockInv, NEW t \in Threads, Quiet(t)
  PROVE  WriterInv' /\ ReadersInv'
<1>. USE DEF LockInv
<1>1. UNCHANGED <<rwlock, exclusive_owner, shared_owners, alive>>
  BY DEF Quiet
<1>2. SameWriter(t)
  BY <1>1 DEF Quiet, OthersStay, Involved, Inserting, Exclusive, Writes, Up, SameWriter
<1>4. WriterInv'
  BY <1>1, <1>2, WriterKept DEF Quiet
<1>5. Recorded' = Recorded /\ \A p \in Pids : RecordOf(p)' = RecordOf(p)
  BY <1>1 DEF Recorded, RecordOf
<1>6. Between' = Between /\ Pruning' = Pruning
  BY DEF Quiet, OthersStay, Involved, Inserting, Exclusive, Between, Pruning
<1>7. \A p \in Pids : ReadersOf(p)' \subseteq ReadersOf(p)
  BY DEF Quiet, OthersStay, Reads, Exclusive, ReadersOf
<1>8. \A p \in alive' : Cardinality(ReadersOf(p)') <= Cardinality(RecordOf(p)')
  BY <1>1, <1>5, <1>7, StillOnRecord
<1>9. ReadersInv'
  <2>1. \A u \in Threads : pc'[u] = "release" => pc[u] = "release"
    BY <1>2 DEF Quiet, OthersStay, SameWriter
  <2>2. (Counted \/ Hangs)'
    BY <1>1, <1>5, <1>6, <2>1, HangsOn
  <2>. QED
    BY <1>1, <1>8, <2>2 DEF ReadersInv
<1>. QED
  BY <1>4, <1>9

(* The others do what they did.                                            *)
LEMMA OthersPlaces ==
  ASSUME LockInv, NEW t \in Threads, OthersStay(t), UNCHANGED alive, PlaceOK(t)'
  PROVE  PlacesInv'
<1>1. ASSUME NEW u \in Threads \ {t} PROVE PlaceOK(u)'
  BY DEF LockInv, PlacesInv, PlaceOK, OthersStay, Exclusive, Up
<1>. QED
  BY <1>1 DEF PlacesInv

Places == {"idle", "try", "last", "own", "insert", "insert_cas", "check", "recover",
           "release", "prune", "prune_unlock", "held", "remove", "remove_cas", "unlock"}
Ops == {"lock", "try_lock", "lock_sharable", "try_lock_sharable"}

(* What t does next and what it knows then.                                *)
Becomes(t, place, operation, pid, i, j) ==
  /\ pc' = [pc EXCEPT ![t] = place]
  /\ op' = [op EXCEPT ![t] = operation]
  /\ found' = [found EXCEPT ![t] = pid]
  /\ cursor' = [cursor EXCEPT ![t] = i]
  /\ slot' = [slot EXCEPT ![t] = j]

(* The types of what changes when t moves on.                              *)
LEMMA BecomesTyped ==
  ASSUME TypeOK, NEW t \in Threads,
         NEW place \in Places, NEW operation \in Ops, NEW pid \in Pids \cup {NoPid},
         NEW i \in 1 .. Slots + 1, NEW j \in 0 .. Slots,
         Becomes(t, place, operation, pid, i, j)
  PROVE  /\ pc' \in [Threads -> Places] /\ op' \in [Threads -> Ops]
         /\ found' \in [Threads -> Pids \cup {NoPid}]
         /\ cursor' \in [Threads -> 1 .. Slots + 1] /\ slot' \in [Threads -> 0 .. Slots]
         /\ OthersStay(t)
         /\ pc'[t] = place /\ op'[t] = operation /\ found'[t] = pid
         /\ cursor'[t] = i /\ slot'[t] = j
BY DEF TypeOK, Becomes, Places, Ops, OthersStay

(* What a thread may do next, one line for each way a step can end.        *)
LEMMA Moves ==
  ASSUME TypeOK, NEW t \in Threads
  PROVE  /\ \A place : Goto(t, place) /\ UNCHANGED Locals =>
              Becomes(t, place, op[t], found[t], cursor[t], slot[t])
         /\ Return(t) => Becomes(t, "idle", "lock", NoPid, 1, 0)
         /\ Again(t) => Becomes(t, IF Blocking(t) THEN "try" ELSE "last", op[t], NoPid, 1, 0)
         /\ NotRemoved(t) =>
              \/ Exclusive(t) /\ Becomes(t, "prune", op[t], found[t], cursor[t], slot[t])
              \/ ~ Exclusive(t) /\ Becomes(t, "idle", "lock", NoPid, 1, 0)
         /\ op[t] \in Ops /\ found[t] \in Pids \cup {NoPid}
         /\ cursor[t] \in 1 .. Slots + 1 /\ slot[t] \in 0 .. Slots
         /\ 1 \in 1 .. Slots /\ 1 \in 1 .. Slots + 1 /\ 0 \in 0 .. Slots /\ 1 \in 0 .. Slots
<1>1. \A place : Goto(t, place) /\ UNCHANGED Locals =>
        Becomes(t, place, op[t], found[t], cursor[t], slot[t])
  BY DEF TypeOK, Goto, Locals, Becomes
<1>2. Return(t) => Becomes(t, "idle", "lock", NoPid, 1, 0)
  BY DEF Return, Goto, Forget, Becomes
<1>3. Again(t) => Becomes(t, IF Blocking(t) THEN "try" ELSE "last", op[t], NoPid, 1, 0)
  BY DEF TypeOK, Again, Goto, Forget, Becomes
<1>4. op[t] \in Ops /\ found[t] \in Pids \cup {NoPid}
      /\ cursor[t] \in 1 .. Slots + 1 /\ slot[t] \in 0 .. Slots
  BY DEF TypeOK, Ops
<1>5. 1 \in 1 .. Slots /\ 1 \in 1 .. Slots + 1 /\ 0 \in 0 .. Slots /\ 1 \in 0 .. Slots
  BY RobustLockAssumption
<1>. QED
  BY <1>1, <1>2, <1>3, <1>4, <1>5 DEF NotRemoved

(* A step that moves t on and changes the rwlock or its records.           *)
LEMMA MoveInv ==
  ASSUME LockInv, NEW t \in Threads,
         NEW place \in Places, NEW operation \in Ops, NEW pid \in Pids \cup {NoPid},
         NEW i \in 1 .. Slots + 1, NEW j \in 0 .. Slots,
         Becomes(t, place, operation, pid, i, j),
         UNCHANGED alive,
         rwlock' \in [writer : Threads \cup {NoThread}, readers : Int],
         exclusive_owner' \in Pids \cup {NoPid},
         shared_owners' \in [1 .. Slots -> Pids \cup {NoPid}],
         PlaceOK(t)'
  PROVE  TypeOK' /\ PlacesInv'
<1>1. /\ pc' \in [Threads -> Places] /\ op' \in [Threads -> Ops]
      /\ found' \in [Threads -> Pids \cup {NoPid}]
      /\ cursor' \in [Threads -> 1 .. Slots + 1] /\ slot' \in [Threads -> 0 .. Slots]
      /\ OthersStay(t)
  BY BecomesTyped DEF LockInv
<1>2. TypeOK'
  BY <1>1 DEF LockInv, TypeOK, Places, Ops
<1>3. PlacesInv'
  BY <1>1, OthersPlaces
<1>. QED
  BY <1>2, <1>3

(* How t stands after it has gone to another place ...                     *)
LEMMA GotoEffect ==
  ASSUME TypeOK, NEW t \in Threads, NEW place \in Places, Goto(t, place), UNCHANGED Locals
  PROVE  /\ Becomes(t, place, op[t], found[t], cursor[t], slot[t])
         /\ OthersStay(t)
         /\ pc'[t] = place /\ op'[t] = op[t] /\ found'[t] = found[t]
         /\ cursor'[t] = cursor[t] /\ slot'[t] = slot[t]
BY DEF TypeOK, Goto, Locals, Becomes, OthersStay

(* ... and after it has forgotten what it knew.                            *)
LEMMA ForgetEffect ==
  ASSUME TypeOK, NEW t \in Threads, NEW place \in Places, NEW operation \in Ops,
         Goto(t, place), op' = [op EXCEPT ![t] = operation], Forget(t)
  PROVE  /\ Becomes(t, place, operation, NoPid, 1, 0)
         /\ OthersStay(t)
         /\ pc'[t] = place /\ op'[t] = operation /\ cursor'[t] = 1
BY DEF TypeOK, Goto, Forget, Becomes, OthersStay

(* A step that only moves t on, between places where it has no part in the *)
(* rwlock and its records, keeps the invariant.                            *)
LEMMA QuietMove ==
  ASSUME LockInv, NEW t \in Threads,
         NEW place \in Places, NEW operation \in Ops, NEW pid \in Pids \cup {NoPid},
         NEW i \in 1 .. Slots + 1, NEW j \in 0 .. Slots,
         Becomes(t, place, operation, pid, i, j),
         UNCHANGED <<rwlock, exclusive_owner, shared_owners, alive>>,
         PlaceOK(t)',
         \/ Inserting(t) /\ Inserting(t)'
         \/ ~ Involved(t) /\ ~ Involved(t)',
         Reads(t)' => Reads(t)
  PROVE  LockInv'
<1>1. /\ pc' \in [Threads -> Places] /\ op' \in [Threads -> Ops]
      /\ found' \in [Threads -> Pids \cup {NoPid}]
      /\ cursor' \in [Threads -> 1 .. Slots + 1] /\ slot' \in [Threads -> 0 .. Slots]
      /\ OthersStay(t)
  BY BecomesTyped DEF LockInv
<1>2. TypeOK'
  BY <1>1 DEF LockInv, TypeOK, Places, Ops
<1>3. PlacesInv'
  BY <1>1, OthersPlaces
<1>4. WriterInv' /\ ReadersInv'
  BY <1>1, QuietInv DEF Quiet
<1>. QED
  BY <1>2, <1>3, <1>4 DEF LockInv

-----------------------------------------------------------------------------
(* The invariant is inductive                                              *)

LEMMA InitInv == Init => LockInv
<1>. SUFFICES ASSUME Init PROVE LockInv
  OBVIOUS
<1>. USE DEF Init, Unlocked
<1>1. TypeOK
  BY RobustLockAssumption DEF TypeOK
<1>2. PlacesInv
  BY RobustLockAssumption DEF PlacesInv, PlaceOK
<1>3. WriterInv
  BY DEF WriterInv, Writes
<1>4. ReadersInv
  <2>1. Recorded = {} /\ Between = {} /\ Pruning = {} /\ \A p \in Pids : ReadersOf(p) = {}
    BY DEF Recorded, Between, Pruning, ReadersOf, Reads
  <2>2. \A p \in Pids : Cardinality(RecordOf(p)) \in Nat
    BY CountsAreFinite, FS_CardinalityType
  <2>3. /\ Cardinality(Recorded) = 0 /\ Cardinality(Between) = 0 /\ Cardinality(Pruning) = 0
        /\ \A p \in Pids : Cardinality(ReadersOf(p)) = 0
    BY <2>1, FS_EmptySet
  <2>. QED
    BY <2>2, <2>3 DEF ReadersInv, Counted
<1>. QED
  BY <1>1, <1>2, <1>3, <1>4 DEF LockInv

LEMMA CallInv ==
  ASSUME LockInv, NEW t \in Threads, NEW operation \in Operations, Call(t, operation)
  PROVE  LockInv'
<1>1. /\ pc[t] = "idle" /\ Up(t) /\ operation \in Ops
      /\ UNCHANGED <<rwlock, exclusive_owner, shared_owners, alive>>
  BY RobustLockAssumption DEF Call, At, shared, Ops
<1>2. Becomes(t, "try", operation, found[t], cursor[t], slot[t])
  BY DEF LockInv, TypeOK, Call, Goto, Becomes
<1>3. cursor[t] \in 1 .. Slots
  BY <1>1 DEF LockInv, PlacesInv, PlaceOK
<1>4. /\ pc'[t] = "try" /\ cursor'[t] = cursor[t]
  BY <1>2 DEF LockInv, TypeOK, Becomes
<1>5. PlaceOK(t)' /\ ~ Involved(t) /\ ~ Involved(t)' /\ ~ Reads(t)'
  BY <1>1, <1>3, <1>4 DEF PlaceOK, Involved, Reads
<1>. QED
  BY <1>1, <1>2, <1>5, Moves, QuietMove DEF LockInv, Places

LEMMA TryFailsInv ==
  ASSUME LockInv, NEW t \in Threads, TryFails(t)
  PROVE  LockInv'
<1>1. /\ pc[t] \in {"try", "last"} /\ Up(t)
      /\ UNCHANGED <<rwlock, exclusive_owner, shared_owners, alive>>
  BY DEF TryFails, At, shared
<1>2. CASE Becomes(t, "check", op[t], found[t], cursor[t], slot[t])
  <2>1. pc'[t] = "check"
    BY <1>2 DEF LockInv, TypeOK, Becomes
  <2>2. PlaceOK(t)' /\ ~ Involved(t) /\ ~ Involved(t)' /\ ~ Reads(t)'
    BY <1>1, <2>1 DEF PlaceOK, Involved, Reads
  <2>. QED
    BY <1>1, <1>2, <2>2, Moves, QuietMove DEF LockInv, Places
<1>3. CASE Becomes(t, "idle", "lock", NoPid, 1, 0)
  <2>1. pc'[t] = "idle" /\ cursor'[t] = 1
    BY <1>3 DEF LockInv, TypeOK, Becomes
  <2>. QED
    BY <1>1, <1>3, <2>1, Moves, QuietMove, SMTT(30)
       DEF LockInv, PlaceOK, Places, Ops, Inserting, Involved, Reads
<1>. QED
  BY <1>2, <1>3, Moves DEF LockInv, TryFails

LEMMA InsertInv ==
  ASSUME LockInv, NEW t \in Threads, Insert(t)
  PROVE  LockInv'
<1>1. /\ pc[t] = "insert" /\ Up(t) /\ ~ Exclusive(t) /\ cursor[t] \in 1 .. Slots
      /\ UNCHANGED <<rwlock, exclusive_owner, shared_owners, alive>>
  BY DEF Insert, At, shared, LockInv, PlacesInv, PlaceOK
<1>2. PICK place \in {"insert", "insert_cas"}, i \in 1 .. Slots :
        Becomes(t, place, op[t], found[t], i, slot[t])
  <2>1. CASE Goto(t, "insert_cas") /\ UNCHANGED cursor
    BY <1>1, <2>1 DEF Insert, Goto, Becomes, LockInv, TypeOK
  <2>2. \A i : cursor' = [cursor EXCEPT ![t] = i] /\ UNCHANGED <<pc, op, found, slot>> =>
                 Becomes(t, "insert", op[t], found[t], i, slot[t])
    BY <1>1 DEF Becomes, LockInv, TypeOK
  <2>3. CASE cursor' = [cursor EXCEPT ![t] = 1] /\ UNCHANGED pc
    <3>1. Becomes(t, "insert", op[t], found[t], 1, slot[t])
      BY <2>2, <2>3 DEF Insert
    <3>. QED
      BY <3>1, RobustLockAssumption
  <2>4. CASE NextSlot(t) /\ UNCHANGED pc
    <3>. DEFINE i == IF cursor[t] = Slots THEN 1 ELSE cursor[t] + 1
    <3>1. i \in 1 .. Slots
      BY <1>1, RobustLockAssumption
    <3>2. cursor' = [cursor EXCEPT ![t] = i] /\ UNCHANGED <<pc, op, found, slot>>
      BY <2>4 DEF NextSlot, Insert, LockInv, TypeOK
    <3>. HIDE DEF i
    <3>3. Becomes(t, "insert", op[t], found[t], i, slot[t])
      BY <2>2, <3>2
    <3>. QED
      BY <3>1, <3>3
  <2>. QED
    BY <2>1, <2>3, <2>4 DEF Insert
<1>3. pc'[t] = place /\ cursor'[t] = i /\ op'[t] = op[t]
  BY <1>2, Moves DEF LockInv, TypeOK, Becomes
<1>4. Inserting(t) /\ Inserting(t)' /\ PlaceOK(t)' /\ ~ Reads(t)'
  BY <1>1, <1>3 DEF Inserting, PlaceOK, Exclusive, Reads
<1>5. i \in 1 .. Slots + 1 /\ place \in Places
  BY RobustLockAssumption DEF Places
<1>. QED
  BY <1>1, <1>2, <1>4, <1>5, Moves, QuietMove DEF LockInv

LEMMA CheckInv ==
  ASSUME LockInv, NEW t \in Threads, Check(t)
  PROVE  LockInv'
<1>1. /\ pc[t] = "check" /\ Up(t)
      /\ UNCHANGED <<rwlock, exclusive_owner, shared_owners, alive>>
  BY DEF Check, At, shared
<1>2. CASE Exclusive(t) /\ Becomes(t, "prune", op[t], found[t], cursor[t], slot[t])
  <2>1. pc'[t] = "prune" /\ op'[t] = op[t]
    BY <1>2, Moves DEF LockInv, TypeOK, Becomes
  <2>. QED
    BY <1>1, <1>2, <2>1, Moves, QuietMove, SMTT(30)
       DEF LockInv, PlaceOK, Places, Exclusive, Inserting, Involved, Reads
<1>3. CASE Becomes(t, IF Blocking(t) THEN "try" ELSE "last", op[t], NoPid, 1, 0)
  <2>1. pc'[t] \in {"try", "last"} /\ cursor'[t] = 1
        /\ (IF Blocking(t) THEN "try" ELSE "last") \in Places
    BY <1>3 DEF LockInv, TypeOK, Becomes, Places
  <2>. QED
    BY <1>1, <1>3, <2>1, Moves, QuietMove
       DEF LockInv, PlaceOK, Inserting, Involved, Reads
<1>4. CASE exclusive_owner \notin alive \cup {NoPid}
           /\ Becomes(t, "recover", op[t], exclusive_owner, cursor[t], slot[t])
  <2>1. pc'[t] = "recover" /\ found'[t] = exclusive_owner /\ exclusive_owner \in Pids \ alive
    BY <1>4 DEF LockInv, TypeOK, Becomes
  <2>. QED
    BY <1>1, <1>4, <2>1, Moves, QuietMove
       DEF LockInv, PlaceOK, Places, Inserting, Involved, Reads
<1>5. /\ \A place : Goto(t, place) /\ UNCHANGED <<op, cursor, slot>>
                   /\ found' = [found EXCEPT ![t] = exclusive_owner] =>
             Becomes(t, place, op[t], exclusive_owner, cursor[t], slot[t])
  BY DEF LockInv, TypeOK, Goto, Becomes
<1>. QED
  BY <1>2, <1>3, <1>4, <1>5, Moves DEF LockInv, Check

LEMMA PruneInv ==
  ASSUME LockInv, NEW t \in Threads, Prune(t)
  PROVE  LockInv'
<1>1. /\ pc[t] = "prune" /\ Up(t) /\ Exclusive(t)
      /\ UNCHANGED <<rwlock, exclusive_owner, shared_owners, alive>>
  BY DEF Prune, At, shared, LockInv, PlacesInv, PlaceOK
<1>2. CASE Becomes(t, IF Blocking(t) THEN "try" ELSE "last", op[t], NoPid, 1, 0)
  <2>1. pc'[t] \in {"try", "last"} /\ cursor'[t] = 1
        /\ (IF Blocking(t) THEN "try" ELSE "last") \in Places
    BY <1>2 DEF LockInv, TypeOK, Becomes, Places
  <2>. QED
    BY <1>1, <1>2, <2>1, Moves, QuietMove
       DEF LockInv, PlaceOK, Inserting, Involved, Reads
<1>3. CASE /\ cursor[t] <= Slots
           /\ Becomes(t, "prune", op[t], found[t], cursor[t] + 1, slot[t])
  <2>1. pc'[t] = "prune" /\ op'[t] = op[t] /\ cursor[t] + 1 \in 1 .. Slots + 1
    <3>1. cursor[t] \in 1 .. Slots + 1
      BY Moves DEF LockInv
    <3>2. cursor[t] + 1 \in 1 .. Slots + 1
      BY <1>3, <3>1, RobustLockAssumption
    <3>. QED
      BY <1>3, <3>2 DEF LockInv, TypeOK, Becomes
  <2>2. PlaceOK(t)' /\ ~ Inserting(t)' /\ ~ Involved(t) /\ ~ Involved(t)' /\ ~ Reads(t)'
    BY <1>1, <2>1 DEF PlaceOK, Exclusive, Inserting, Involved, Reads
  <2>. QED
    BY <1>1, <1>3, <2>1, <2>2, Moves, QuietMove DEF LockInv, Places
<1>4. CASE /\ cursor[t] <= Slots /\ shared_owners[cursor[t]] \notin alive \cup {NoPid}
           /\ Becomes(t, "remove", op[t], shared_owners[cursor[t]], cursor[t] + 1, 1)
  <2>1. cursor[t] + 1 \in 1 .. Slots + 1 /\ shared_owners[cursor[t]] \in Pids \ alive
    BY <1>4, Moves, RobustLockAssumption DEF LockInv, TypeOK
  <2>2. /\ pc'[t] = "remove" /\ op'[t] = op[t] /\ slot'[t] = 1
        /\ found'[t] = shared_owners[cursor[t]]
    BY <1>4, Moves DEF LockInv, TypeOK, Becomes
  <2>3. PlaceOK(t)' /\ ~ Inserting(t)' /\ ~ Involved(t) /\ ~ Involved(t)' /\ ~ Reads(t)'
    BY <1>1, <2>1, <2>2, Moves DEF LockInv, PlaceOK, Exclusive, Inserting, Involved, Reads
  <2>. QED
    BY <1>1, <1>4, <2>1, <2>3, Moves, QuietMove DEF LockInv, Places
<1>5. /\ cursor' = [cursor EXCEPT ![t] = cursor[t] + 1] /\ UNCHANGED <<pc, op, found, slot>> =>
           Becomes(t, "prune", op[t], found[t], cursor[t] + 1, slot[t])
  BY <1>1 DEF LockInv, TypeOK, Becomes
<1>6. ASSUME cursor' = [cursor EXCEPT ![t] = cursor[t] + 1],
             found' = [found EXCEPT ![t] = shared_owners[cursor[t]]],
             slot' = [slot EXCEPT ![t] = 1], Goto(t, "remove"), UNCHANGED op
      PROVE  Becomes(t, "remove", op[t], shared_owners[cursor[t]], cursor[t] + 1, 1)
  <2>1. op' = [op EXCEPT ![t] = op[t]]
    BY <1>6 DEF LockInv, TypeOK
  <2>. QED
    BY <1>6, <2>1 DEF Goto, Becomes
<1>. QED
  BY <1>2, <1>3, <1>4, <1>5, <1>6, Moves DEF LockInv, Prune

LEMMA NotRemovedInv ==
  ASSUME LockInv, NEW t \in Threads, pc[t] \in {"remove", "remove_cas"}, NotRemoved(t),
         UNCHANGED <<rwlock, exclusive_owner, shared_owners, alive>>
  PROVE  LockInv'
<1>1. ~ Inserting(t) /\ ~ Involved(t)
  BY DEF Inserting, Involved
<1>2. CASE Exclusive(t) /\ Becomes(t, "prune", op[t], found[t], cursor[t], slot[t])
  <2>1. pc'[t] = "prune" /\ op'[t] = op[t]
    BY <1>2, Moves DEF LockInv, TypeOK, Becomes
  <2>2. PlaceOK(t)' /\ ~ Involved(t)' /\ ~ Reads(t)'
    BY <1>2, <2>1 DEF PlaceOK, Exclusive, Involved, Reads
  <2>. QED
    BY <1>1, <1>2, <2>2, Moves, QuietMove DEF LockInv, Places
<1>3. CASE Becomes(t, "idle", "lock", NoPid, 1, 0)
  <2>1. pc'[t] = "idle" /\ cursor'[t] = 1
    BY <1>3 DEF LockInv, TypeOK, Becomes
  <2>2. PlaceOK(t)' /\ ~ Involved(t)' /\ ~ Reads(t)'
    BY <2>1, Moves DEF LockInv, PlaceOK, Involved, Reads
  <2>. QED
    BY <1>1, <1>3, <2>2, Moves, QuietMove DEF LockInv, Places, Ops
<1>. QED
  BY <1>2, <1>3, Moves DEF LockInv

LEMMA RemoveInv ==
  ASSUME LockInv, NEW t \in Threads, Remove(t)
  PROVE  LockInv'
<1>1. /\ pc[t] = "remove" /\ Up(t) /\ slot[t] \in 1 .. Slots
      /\ IF Exclusive(t) THEN found[t] \in Pids \ alive ELSE found[t] = PidOf[t]
      /\ UNCHANGED <<rwlock, exclusive_owner, shared_owners, alive>>
  BY DEF Remove, At, shared, LockInv, PlacesInv, PlaceOK
<1>2. ~ Inserting(t) /\ ~ Involved(t)
  BY <1>1 DEF Inserting, Involved
<1>3. CASE Becomes(t, "remove_cas", op[t], found[t], cursor[t], slot[t])
  <2>1. /\ pc'[t] = "remove_cas" /\ op'[t] = op[t]
        /\ found'[t] = found[t] /\ slot'[t] = slot[t]
    BY <1>3, Moves DEF LockInv, TypeOK, Becomes
  <2>2. PlaceOK(t)' /\ ~ Involved(t)' /\ (Reads(t)' => Reads(t))
    BY <1>1, <2>1 DEF PlaceOK, Exclusive, Involved, Reads
  <2>. QED
    BY <1>1, <1>2, <1>3, <2>2, Moves, QuietMove DEF LockInv, Places
<1>4. CASE slot[t] < Slots /\ Becomes(t, "remove", op[t], found[t], cursor[t], slot[t] + 1)
  <2>1. slot[t] + 1 \in 1 .. Slots /\ slot[t] + 1 \in 0 .. Slots
    BY <1>1, <1>4, RobustLockAssumption
  <2>2. /\ pc'[t] = "remove" /\ op'[t] = op[t]
        /\ found'[t] = found[t] /\ slot'[t] = slot[t] + 1
    BY <1>4, Moves DEF LockInv, TypeOK, Becomes
  <2>3. PlaceOK(t)' /\ ~ Involved(t)' /\ (Reads(t)' => Reads(t))
    BY <1>1, <2>1, <2>2 DEF PlaceOK, Exclusive, Involved, Reads
  <2>. QED
    BY <1>1, <1>2, <1>4, <2>1, <2>3, Moves, QuietMove DEF LockInv, Places
<1>5. CASE NotRemoved(t)
  BY <1>1, <1>5, NotRemovedInv
<1>6. ASSUME slot' = [slot EXCEPT ![t] = slot[t] + 1], UNCHANGED <<pc, op, found, cursor>>
      PROVE  Becomes(t, "remove", op[t], found[t], cursor[t], slot[t] + 1)
  BY <1>1, <1>6 DEF LockInv, TypeOK, Becomes
<1>. QED
  BY <1>3, <1>4, <1>5, <1>6, Moves DEF LockInv, Remove

LEMMA UnlockSharableInv ==
  ASSUME LockInv, NEW t \in Threads, UnlockSharable(t)
  PROVE  LockInv'
<1>1. /\ pc[t] = "held" /\ Up(t) /\ ~ Exclusive(t)
      /\ UNCHANGED <<rwlock, exclusive_owner, shared_owners, alive>>
  BY DEF UnlockSharable, At, shared
<1>2. Becomes(t, "remove", op[t], PidOf[t], cursor[t], 1)
  BY DEF UnlockSharable, Goto, Becomes, LockInv, TypeOK
<1>3. /\ pc'[t] = "remove" /\ op'[t] = op[t] /\ found'[t] = PidOf[t] /\ slot'[t] = 1
      /\ PidOf[t] \in Pids
  BY <1>2, Moves, RobustLockAssumption, ZenonT(30) DEF LockInv, TypeOK, Becomes
<1>4. PlaceOK(t)' /\ ~ Inserting(t) /\ ~ Involved(t) /\ ~ Involved(t)' /\ Reads(t)
  BY <1>1, <1>3, Moves DEF LockInv, PlaceOK, Exclusive, Inserting, Involved, Reads
<1>. QED
  BY <1>1, <1>2, <1>3, <1>4, Moves, QuietMove DEF LockInv, Places

(* The rwlock is free of writers, and t becomes its writer or a reader.    *)
LEMMA TrySucceedsInv ==
  ASSUME LockInv, NEW t \in Threads, TrySucceeds(t)
  PROVE  LockInv'
<1>. DEFINE place == IF Exclusive(t) THEN "own" ELSE "insert"
<1>1. /\ pc[t] \in {"try", "last"} /\ Up(t)
      /\ rwlock.writer = NoThread /\ (Exclusive(t) => rwlock.readers = 0)
      /\ rwlock' = Taken(t)
      /\ UNCHANGED <<exclusive_owner, shared_owners, alive>>
  BY DEF TrySucceeds, At, CanTake
<1>2. Becomes(t, place, op[t], found[t], cursor[t], slot[t])
  BY Moves DEF LockInv, TrySucceeds
<1>3. place \in Places /\ rwlock.readers \in Int
      /\ rwlock' \in [writer : Threads \cup {NoThread}, readers : Int]
  BY <1>1 DEF Places, LockInv, TypeOK, Taken
<1>4. /\ pc'[t] = place /\ op'[t] = op[t] /\ cursor'[t] = cursor[t] /\ OthersStay(t)
  <2>. HIDE DEF place
  <2>1. /\ op[t] \in Ops /\ found[t] \in Pids \cup {NoPid}
        /\ cursor[t] \in 1 .. Slots + 1 /\ slot[t] \in 0 .. Slots
    BY Moves DEF LockInv
  <2>. QED
    BY <1>2, <1>3, <2>1, BecomesTyped DEF LockInv
<1>5. PlaceOK(t)'
  BY <1>1, <1>4 DEF LockInv, PlacesInv, PlaceOK, Exclusive, Up
<1>6. TypeOK' /\ PlacesInv'
  BY <1>1, <1>2, <1>3, <1>5, Moves, MoveInv DEF LockInv, TypeOK
<1>7. \A u \in Threads \ {t} : /\ Exclusive(u)' <=> Exclusive(u)
                               /\ pc'[u] = pc[u] /\ (Up(u)' <=> Up(u))
  BY <1>1, <1>4 DEF OthersStay, Exclusive, Up
<1>8. WriterInv'
  <2>1. exclusive_owner = NoPid /\ \A u \in Threads : ~ Writes(u) /\ pc[u] # "release"
    BY <1>1, RobustLockAssumption DEF LockInv, WriterInv
  <2>2. \A u \in Threads \ {t} : ~ Writes(u)' /\ pc'[u] # "release"
    BY <1>7, <2>1 DEF Writes
  <2>3. CASE Exclusive(t)
    <3>1. rwlock'.writer = t /\ pc'[t] = "own" /\ Exclusive(t)'
      BY <1>1, <1>4, <2>3 DEF LockInv, TypeOK, Taken, Exclusive
    <3>. QED
      BY <1>1, <2>1, <2>2, <3>1 DEF WriterInv, Writes
  <2>4. CASE ~ Exclusive(t)
    <3>1. rwlock'.writer = NoThread /\ pc'[t] = "insert" /\ ~ Exclusive(t)'
      BY <1>1, <1>4, <2>4 DEF LockInv, TypeOK, Taken, Exclusive
    <3>. QED
      BY <1>1, <2>1, <2>2, <3>1 DEF WriterInv, Writes
  <2>. QED
    BY <2>3, <2>4
<1>9. Recorded' = Recorded /\ \A p \in Pids : RecordOf(p)' = RecordOf(p)
  BY <1>1 DEF Recorded, RecordOf
<1>10. Pruning' = Pruning /\ \A p \in Pids : ReadersOf(p)' = ReadersOf(p)
  BY <1>1, <1>4, <1>7 DEF Pruning, ReadersOf, Reads, Exclusive
<1>11. /\ Exclusive(t) => Between' = Between /\ rwlock'.readers = rwlock.readers
       /\ ~ Exclusive(t) => /\ t \notin Between /\ Between' = Between \cup {t}
                            /\ rwlock'.readers = rwlock.readers + 1
                            /\ rwlock'.writer = NoThread
  BY <1>1, <1>4, <1>7 DEF LockInv, TypeOK, Taken, Between, Exclusive
<1>12. \A p \in alive' : Cardinality(ReadersOf(p)') <= Cardinality(RecordOf(p)')
  BY <1>1, <1>9, <1>10, StillOnRecord
<1>13. ReadersInv'
  <2>1. /\ Cardinality(Recorded) \in Nat /\ Cardinality(Between) \in Nat
        /\ Cardinality(Pruning) \in Nat /\ Counted
    BY <1>1, CountsAreFinite, FS_CardinalityType, NotHanging
  <2>2. CASE Exclusive(t)
    BY <1>1, <1>9, <1>10, <1>11, <1>12, <2>1, <2>2 DEF LockInv, ReadersInv, Counted
  <2>3. CASE ~ Exclusive(t)
    <3>1. Cardinality(Between') = Cardinality(Between) + 1
      BY <1>11, <2>3, CountsAreFinite, CountOne
    <3>. QED
      BY <1>9, <1>10, <1>11, <1>12, <2>1, <2>3, <3>1 DEF LockInv, ReadersInv, Counted
  <2>. QED
    BY <2>2, <2>3
<1>. QED
  BY <1>6, <1>8, <1>13 DEF LockInv

(* The writer goes on record.                                              *)
LEMMA OwnInv ==
  ASSUME LockInv, NEW t \in Threads, Own(t)
  PROVE  LockInv'
<1>1. /\ pc[t] = "own" /\ Up(t) /\ exclusive_owner' = PidOf[t]
      /\ UNCHANGED <<rwlock, shared_owners, alive>> /\ PidOf[t] \in Pids
  BY RobustLockAssumption DEF Own, At
<1>2. Becomes(t, "held", op[t], found[t], cursor[t], slot[t])
  BY Moves DEF LockInv, Own
<1>3. pc'[t] = "held" /\ op'[t] = op[t] /\ OthersStay(t)
  <2>1. /\ op[t] \in Ops /\ found[t] \in Pids \cup {NoPid}
        /\ cursor[t] \in 1 .. Slots + 1 /\ slot[t] \in 0 .. Slots /\ "held" \in Places
    BY Moves DEF LockInv, Places
  <2>. QED
    BY <1>2, <2>1, BecomesTyped DEF LockInv
<1>4. PlaceOK(t)'
  BY <1>3 DEF PlaceOK
<1>5. TypeOK' /\ PlacesInv'
  BY <1>1, <1>2, <1>4, Moves, MoveInv DEF LockInv, TypeOK, Places
<1>6. \A u \in Threads \ {t} : /\ Exclusive(u)' <=> Exclusive(u)
                               /\ pc'[u] = pc[u] /\ (Up(u)' <=> Up(u))
  BY <1>1, <1>3 DEF OthersStay, Exclusive, Up
<1>7. Exclusive(t) /\ Exclusive(t)' /\ Up(t)'
  BY <1>1, <1>3 DEF LockInv, PlacesInv, PlaceOK, Exclusive, Up
<1>8. rwlock.writer = t /\ t # NoThread
  BY <1>1, <1>7, RobustLockAssumption DEF LockInv, WriterInv, Writes
<1>9. WriterInv'
  <2>1. \A u \in Threads : pc[u] # "release"
    BY <1>1, <1>8 DEF LockInv, WriterInv
  <2>2. \A u \in Threads \ {t} : ~ Writes(u)' /\ pc'[u] # "release"
    BY <1>6, <1>8, <2>1 DEF LockInv, WriterInv, Writes
  <2>. QED
    BY <1>1, <1>3, <1>7, <1>8, <2>2 DEF WriterInv, Writes
<1>10. Recorded' = Recorded /\ \A p \in Pids : RecordOf(p)' = RecordOf(p)
  BY <1>1 DEF Recorded, RecordOf
<1>11. Between' = Between /\ Pruning' = Pruning
       /\ \A p \in Pids : ReadersOf(p)' = ReadersOf(p)
  BY <1>1, <1>3, <1>6, <1>7 DEF Between, Pruning, ReadersOf, Reads
<1>12. \A p \in alive' : Cardinality(ReadersOf(p)') <= Cardinality(RecordOf(p)')
  BY <1>1, <1>10, <1>11, StillOnRecord
<1>13. ReadersInv'
  <2>1. Counted
    BY <1>1, <1>8, NotHanging
  <2>. QED
    BY <1>1, <1>10, <1>11, <1>12, <2>1 DEF LockInv, ReadersInv, Counted
<1>. QED
  BY <1>5, <1>9, <1>13 DEF LockInv

(* A reader goes on record, or finds the slot taken.                       *)
LEMMA InsertCasInv ==
  ASSUME LockInv, NEW t \in Threads, InsertCas(t)
  PROVE  LockInv'
<1>. DEFINE c == cursor[t]
            p == PidOf[t]
<1>1. /\ pc[t] = "insert_cas" /\ Up(t) /\ ~ Exclusive(t) /\ c \in 1 .. Slots
      /\ UNCHANGED <<rwlock, exclusive_owner, alive, op>> /\ p \in Pids
  BY RobustLockAssumption DEF InsertCas, At, LockInv, PlacesInv, PlaceOK
<1>2. CASE /\ shared_owners[c] = NoPid
           /\ shared_owners' = [shared_owners EXCEPT ![c] = p]
           /\ Goto(t, "held") /\ Forget(t)
  <2>1. op' = [op EXCEPT ![t] = op[t]] /\ op[t] \in Ops /\ "held" \in Places
    BY <1>1 DEF LockInv, TypeOK, Ops, Places
  <2>2. /\ Becomes(t, "held", op[t], NoPid, 1, 0) /\ OthersStay(t)
        /\ pc'[t] = "held" /\ op'[t] = op[t]
    BY <1>2, <2>1, ForgetEffect DEF LockInv
  <2>3. PlaceOK(t)' /\ SameWriter(t)
    BY <1>1, <2>2 DEF PlaceOK, SameWriter, Writes, Exclusive
  <2>4. shared_owners' \in [1 .. Slots -> Pids \cup {NoPid}]
    BY <1>1, <1>2 DEF LockInv, TypeOK
  <2>5. TypeOK' /\ PlacesInv'
    BY <1>1, <2>1, <2>2, <2>3, <2>4, Moves, MoveInv DEF LockInv, TypeOK
  <2>6. WriterInv'
    BY <1>1, <2>2, <2>3, WriterKept
  <2>7. p # NoPid
    BY <1>1, RobustLockAssumption
  <2>8. /\ c \notin Recorded /\ Recorded' = Recorded \cup {c}
        /\ c \notin RecordOf(p) /\ RecordOf(p)' = RecordOf(p) \cup {c}
        /\ \A r \in Pids \ {p} : RecordOf(r)' = RecordOf(r)
    <3>1. shared_owners'[c] = p /\ \A i \in (1 .. Slots) \ {c} : shared_owners'[i] = shared_owners[i]
      BY <1>1, <1>2 DEF LockInv, TypeOK
    <3>2. \A r \in Pids \ {p} : r # NoPid
      BY RobustLockAssumption
    <3>. HIDE DEF c, p
    <3>. QED
      BY <1>1, <1>2, <2>7, <3>1, <3>2 DEF Recorded, RecordOf
  <2>9. /\ t \in Between /\ Between' = Between \ {t} /\ Pruning' = Pruning
        /\ t \notin ReadersOf(p) /\ ReadersOf(p)' = ReadersOf(p) \cup {t}
        /\ \A r \in Pids \ {p} : ReadersOf(r)' = ReadersOf(r)
    BY <1>1, <2>2 DEF OthersStay, Between, Pruning, ReadersOf, Reads, Exclusive
  <2>10. /\ Cardinality(Recorded') = Cardinality(Recorded) + 1
         /\ Cardinality(Between') = Cardinality(Between) - 1
         /\ Cardinality(RecordOf(p)') = Cardinality(RecordOf(p)) + 1
         /\ Cardinality(ReadersOf(p)') = Cardinality(ReadersOf(p)) + 1
    BY <1>1, <2>8, <2>9, CountsAreFinite, CountOne
  <2>11. /\ Cardinality(Recorded) \in Nat /\ Cardinality(Between) \in Nat
         /\ Cardinality(Pruning) \in Nat
         /\ \A r \in Pids : Cardinality(RecordOf(r)) \in Nat /\ Cardinality(ReadersOf(r)) \in Nat
    BY CountsAreFinite, FS_CardinalityType
  <2>12. rwlock'.readers = Cardinality(Recorded') + Cardinality(Between') + Cardinality(Pruning')
    <3>1. Counted
      BY <2>9, NotHanging
    <3>. QED
      BY <1>1, <2>9, <2>10, <2>11, <3>1 DEF Counted
  <2>13. \A r \in alive' : Cardinality(ReadersOf(r)') <= Cardinality(RecordOf(r)')
    <3>1. ASSUME NEW r \in alive
          PROVE  Cardinality(ReadersOf(r)) <= Cardinality(RecordOf(r)) /\ r \in Pids
      BY DEF LockInv, ReadersInv, TypeOK
    <3>2. ASSUME NEW r \in alive, r # p
          PROVE  Cardinality(ReadersOf(r)') <= Cardinality(RecordOf(r)')
      BY <2>8, <2>9, <3>1, <3>2
    <3>3. p \in alive
      BY <1>1 DEF Up
    <3>4. Cardinality(ReadersOf(p)') <= Cardinality(RecordOf(p)')
      BY <1>1, <2>10, <2>11, <3>1, <3>3
    <3>. QED
      BY <1>1, <3>2, <3>4
  <2>14. ReadersInv'
    BY <1>1, <2>12, <2>13 DEF LockInv, ReadersInv, Counted
  <2>. QED
    BY <2>5, <2>6, <2>14 DEF LockInv
<1>3. CASE /\ NextSlot(t) /\ Goto(t, "insert") /\ UNCHANGED <<shared_owners, found, slot>>
  <2>. DEFINE i == IF cursor[t] = Slots THEN 1 ELSE cursor[t] + 1
  <2>1. i \in 1 .. Slots /\ i \in 1 .. Slots + 1
    BY <1>1, RobustLockAssumption
  <2>2. cursor' = [cursor EXCEPT ![t] = i]
    BY <1>3 DEF NextSlot, LockInv, TypeOK
  <2>. HIDE DEF i
  <2>3. Becomes(t, "insert", op[t], found[t], i, slot[t])
    BY <1>1, <1>3, <2>2 DEF Goto, Becomes, LockInv, TypeOK
  <2>4. pc'[t] = "insert" /\ cursor'[t] = i /\ op'[t] = op[t]
    BY <1>1, <1>3, <2>2 DEF Goto, LockInv, TypeOK
  <2>5. Inserting(t) /\ Inserting(t)' /\ PlaceOK(t)' /\ ~ Reads(t)'
    BY <1>1, <2>1, <2>4 DEF Inserting, PlaceOK, Exclusive, Reads
  <2>. QED
    BY <1>1, <1>3, <2>1, <2>3, <2>5, Moves, QuietMove DEF LockInv, Places
<1>. QED
  BY <1>2, <1>3 DEF InsertCas

(* A pid comes off the record; whoever takes it off owes the read lock.    *)
LEMMA RemoveCasInv ==
  ASSUME LockInv, NEW t \in Threads, RemoveCas(t)
  PROVE  LockInv'
<1>. DEFINE i == slot[t]
            p == PidOf[t]
<1>1. /\ pc[t] = "remove_cas" /\ Up(t) /\ i \in 1 .. Slots
      /\ IF Exclusive(t) THEN found[t] \in Pids \ alive ELSE found[t] = p
      /\ UNCHANGED <<rwlock, exclusive_owner, alive>> /\ p \in Pids /\ p \in alive
  BY RobustLockAssumption DEF RemoveCas, At, Up, LockInv, PlacesInv, PlaceOK
<1>2. CASE shared_owners[i] = found[t]
  <2>. DEFINE place == IF Exclusive(t) THEN "prune_unlock" ELSE "unlock"
  <2>1. /\ shared_owners' = [shared_owners EXCEPT ![i] = NoPid]
        /\ Goto(t, place) /\ UNCHANGED Locals /\ place \in Places
    BY <1>2 DEF RemoveCas, Places
  <2>. HIDE DEF place
  <2>2. /\ Becomes(t, place, op[t], found[t], cursor[t], slot[t])
        /\ OthersStay(t) /\ pc'[t] = place /\ op'[t] = op[t]
    BY <2>1, GotoEffect DEF LockInv
  <2>. USE DEF place
  <2>3. PlaceOK(t)' /\ SameWriter(t)
    BY <1>1, <2>2 DEF PlaceOK, SameWriter, Writes, Exclusive
  <2>4. shared_owners' \in [1 .. Slots -> Pids \cup {NoPid}]
    BY <1>1, <2>1 DEF LockInv, TypeOK
  <2>5. TypeOK' /\ PlacesInv'
    <3>. HIDE DEF place
    <3>. QED
      BY <1>1, <2>1, <2>2, <2>3, <2>4, Moves, MoveInv DEF LockInv, TypeOK
  <2>6. WriterInv'
    BY <1>1, <2>2, <2>3, WriterKept
  <2>7. found[t] \in Pids /\ NoPid \notin Pids
    BY <1>1, RobustLockAssumption
  <2>8. /\ i \in Recorded /\ Recorded' = Recorded \ {i}
        /\ \A r \in Pids : IF r = found[t] THEN i \in RecordOf(r) /\ RecordOf(r)' = RecordOf(r) \ {i}
                                         ELSE RecordOf(r)' = RecordOf(r)
    <3>1. /\ shared_owners'[i] = NoPid
          /\ \A j \in (1 .. Slots) \ {i} : shared_owners'[j] = shared_owners[j]
      BY <1>1, <2>1 DEF LockInv, TypeOK
    <3>3. Recorded' = Recorded \ {i}
      BY <1>1, <3>1 DEF Recorded
    <3>4. \A r \in Pids : RecordOf(r)' = RecordOf(r) \ {i}
      BY <1>1, <2>7, <3>1 DEF RecordOf
    <3>5. i \in Recorded /\ \A r \in Pids : i \in RecordOf(r) <=> r = found[t]
      BY <1>1, <1>2, <2>7 DEF Recorded, RecordOf
    <3>. QED
      BY <2>7, <3>3, <3>4, <3>5
  <2>9. /\ Cardinality(Recorded) \in Nat /\ Cardinality(Between) \in Nat
        /\ Cardinality(Pruning) \in Nat
        /\ \A r \in Pids : Cardinality(RecordOf(r)) \in Nat /\ Cardinality(ReadersOf(r)) \in Nat
    BY CountsAreFinite, FS_CardinalityType
  <2>10. Cardinality(Recorded') = Cardinality(Recorded) - 1
    BY <2>8, CountsAreFinite, CountOne
  <2>11. /\ \A r \in alive : Cardinality(ReadersOf(r)) <= Cardinality(RecordOf(r)) /\ r \in Pids
         /\ Counted
    BY <2>8, NotHanging DEF LockInv, ReadersInv, TypeOK
  <2>12. CASE Exclusive(t)
    <3>1. /\ t \notin Pruning /\ Pruning' = Pruning \cup {t} /\ Between' = Between
          /\ \A r \in Pids : ReadersOf(r)' = ReadersOf(r)
      BY <1>1, <2>2, <2>12 DEF OthersStay, Between, Pruning, ReadersOf, Reads, Exclusive
    <3>2. Cardinality(Pruning') = Cardinality(Pruning) + 1
      BY <3>1, CountsAreFinite, CountOne
    <3>3. rwlock'.readers = Cardinality(Recorded') + Cardinality(Between') + Cardinality(Pruning')
      BY <1>1, <2>9, <2>10, <2>11, <3>1, <3>2 DEF Counted
    <3>4. \A r \in alive : Cardinality(ReadersOf(r)') <= Cardinality(RecordOf(r)')
      BY <1>1, <2>8, <2>11, <2>12, <3>1
    <3>. QED
      BY <1>1, <2>5, <2>6, <3>3, <3>4 DEF LockInv, ReadersInv, Counted
  <2>13. CASE ~ Exclusive(t)
    <3>1. /\ t \notin Between /\ Between' = Between \cup {t} /\ Pruning' = Pruning
          /\ t \in ReadersOf(p) /\ ReadersOf(p)' = ReadersOf(p) \ {t}
          /\ \A r \in Pids \ {p} : ReadersOf(r)' = ReadersOf(r)
      BY <1>1, <2>2, <2>13 DEF OthersStay, Between, Pruning, ReadersOf, Reads, Exclusive
    <3>2. /\ Cardinality(Between') = Cardinality(Between) + 1
          /\ Cardinality(ReadersOf(p)') = Cardinality(ReadersOf(p)) - 1
          /\ Cardinality(RecordOf(p)') = Cardinality(RecordOf(p)) - 1
      <4>1. i \in RecordOf(p) /\ RecordOf(p)' = RecordOf(p) \ {i}
        BY <1>1, <2>8, <2>13
      <4>. QED
        BY <1>1, <3>1, <4>1, CountsAreFinite, CountOne
    <3>3. rwlock'.readers = Cardinality(Recorded') + Cardinality(Between') + Cardinality(Pruning')
      BY <1>1, <2>9, <2>10, <2>11, <3>1, <3>2 DEF Counted
    <3>4. ASSUME NEW r \in alive, r # p
          PROVE  Cardinality(ReadersOf(r)') <= Cardinality(RecordOf(r)')
      BY <1>1, <2>8, <2>11, <2>13, <3>1, <3>4
    <3>5. Cardinality(ReadersOf(p)') <= Cardinality(RecordOf(p)')
      BY <1>1, <2>9, <2>11, <3>2
    <3>. QED
      BY <1>1, <2>5, <2>6, <3>3, <3>4, <3>5 DEF LockInv, ReadersInv, Counted
  <2>. QED
    BY <2>12, <2>13
<1>3. CASE NotRemoved(t) /\ UNCHANGED shared_owners
  BY <1>1, <1>3, NotRemovedInv
<1>. QED
  BY <1>2, <1>3 DEF RemoveCas

(* Giving back a read lock leaves the writer alone: there is none.         *)
LEMMA PruneUnlockInv ==
  ASSUME LockInv, NEW t \in Threads, PruneUnlock(t)
  PROVE  LockInv'
<1>1. /\ pc[t] = "prune_unlock" /\ Up(t) /\ Exclusive(t) /\ UnlockRW(t)
      /\ Goto(t, "prune") /\ UNCHANGED Locals
      /\ UNCHANGED <<exclusive_owner, shared_owners, alive>>
  BY DEF PruneUnlock, At, LockInv, PlacesInv, PlaceOK
<1>2. t \in Pruning
  BY <1>1 DEF Pruning
<1>3. rwlock.writer = NoThread /\ rwlock.readers > 0 /\ rwlock.readers \in Nat
  BY <1>2, ReaderExcludesWriter
<1>4. rwlock' = [rwlock EXCEPT !.readers = @ - 1]
  BY <1>1, <1>3, RobustLockAssumption DEF UnlockRW
<1>5. /\ rwlock'.writer = rwlock.writer /\ rwlock'.readers = rwlock.readers - 1
      /\ rwlock' \in [writer : Threads \cup {NoThread}, readers : Int]
  <2>1. rwlock \in [writer : Threads \cup {NoThread}, readers : Int]
        /\ rwlock.readers - 1 \in Int
    BY <1>3 DEF LockInv, TypeOK
  <2>. QED
    BY <1>4, <2>1
<1>6. /\ Becomes(t, "prune", op[t], found[t], cursor[t], slot[t])
      /\ OthersStay(t) /\ pc'[t] = "prune" /\ op'[t] = op[t] /\ "prune" \in Places
  BY <1>1, GotoEffect DEF LockInv, Places
<1>7. PlaceOK(t)' /\ SameWriter(t)
  BY <1>1, <1>6 DEF PlaceOK, SameWriter, Writes, Exclusive
<1>8. TypeOK' /\ PlacesInv'
  BY <1>1, <1>5, <1>6, <1>7, Moves, MoveInv DEF LockInv, TypeOK
<1>9. WriterInv'
  BY <1>1, <1>5, <1>6, <1>7, WriterKept
<1>10. Recorded' = Recorded /\ \A p \in Pids : RecordOf(p)' = RecordOf(p)
  BY <1>1 DEF Recorded, RecordOf
<1>11. Between' = Between /\ Pruning' = Pruning \ {t}
       /\ \A p \in Pids : ReadersOf(p)' = ReadersOf(p)
  BY <1>1, <1>6 DEF OthersStay, Between, Pruning, ReadersOf, Reads, Exclusive
<1>12. \A p \in alive' : Cardinality(ReadersOf(p)') <= Cardinality(RecordOf(p)')
  BY <1>1, <1>10, <1>11, StillOnRecord
<1>13. ReadersInv'
  <2>1. /\ Cardinality(Recorded) \in Nat /\ Cardinality(Between) \in Nat
        /\ Cardinality(Pruning) \in Nat
        /\ Cardinality(Pruning') = Cardinality(Pruning) - 1 /\ Counted
    BY <1>2, <1>11, CountsAreFinite, FS_CardinalityType, CountOne, NotHanging
  <2>. QED
    BY <1>3, <1>5, <1>10, <1>11, <1>12, <2>1 DEF LockInv, ReadersInv, Counted
<1>. QED
  BY <1>8, <1>9, <1>13 DEF LockInv

(* The writer goes off the record; the rwlock is still its own.            *)
LEMMA UnlockInv ==
  ASSUME LockInv, NEW t \in Threads, Unlock(t)
  PROVE  LockInv'
<1>1. /\ pc[t] = "held" /\ Up(t) /\ Exclusive(t)
      /\ UNCHANGED <<rwlock, shared_owners, alive>>
  BY DEF Unlock, At
<1>2. Writes(t) /\ rwlock.writer = t /\ exclusive_owner = PidOf[t] /\ t # NoThread
  BY <1>1, RobustLockAssumption DEF LockInv, WriterInv, Writes
<1>3. exclusive_owner' = NoPid /\ Goto(t, "unlock") /\ UNCHANGED Locals
  BY <1>2 DEF Unlock
<1>4. /\ Becomes(t, "unlock", op[t], found[t], cursor[t], slot[t])
      /\ OthersStay(t) /\ pc'[t] = "unlock" /\ op'[t] = op[t] /\ "unlock" \in Places
  BY <1>3, GotoEffect DEF LockInv, Places
<1>5. PlaceOK(t)'
  BY <1>4 DEF PlaceOK
<1>6. TypeOK' /\ PlacesInv'
  BY <1>1, <1>3, <1>4, <1>5, Moves, MoveInv DEF LockInv, TypeOK
<1>7. \A u \in Threads \ {t} : /\ Exclusive(u)' <=> Exclusive(u)
                               /\ pc'[u] = pc[u] /\ (Up(u)' <=> Up(u))
  BY <1>1, <1>4 DEF OthersStay, Exclusive, Up
<1>8. Exclusive(t)'
  BY <1>1, <1>4 DEF Exclusive
<1>9. WriterInv'
  <2>1. \A u \in Threads : pc[u] # "release"
    BY <1>1, <1>2 DEF LockInv, WriterInv
  <2>2. \A u \in Threads \ {t} : ~ Writes(u)' /\ pc'[u] # "release"
    BY <1>2, <1>7, <2>1 DEF LockInv, WriterInv, Writes
  <2>. QED
    BY <1>1, <1>2, <1>3, <1>4, <1>8, <2>2 DEF WriterInv, Writes
<1>10. Recorded' = Recorded /\ \A p \in Pids : RecordOf(p)' = RecordOf(p)
  BY <1>1 DEF Recorded, RecordOf
<1>11. Between' = Between /\ Pruning' = Pruning
       /\ \A p \in Pids : ReadersOf(p)' = ReadersOf(p)
  BY <1>1, <1>4, <1>7, <1>8 DEF Between, Pruning, ReadersOf, Reads
<1>12. \A p \in alive' : Cardinality(ReadersOf(p)') <= Cardinality(RecordOf(p)')
  BY <1>1, <1>10, <1>11, StillOnRecord
<1>13. ReadersInv'
  <2>1. Counted
    BY <1>1, <1>2, NotHanging
  <2>. QED
    BY <1>1, <1>10, <1>11, <1>12, <2>1 DEF LockInv, ReadersInv, Counted
<1>. QED
  BY <1>6, <1>9, <1>13 DEF LockInv

(* The rwlock is given back by who has it.                                 *)
LEMMA FinishInv ==
  ASSUME LockInv, NEW t \in Threads, Finish(t)
  PROVE  LockInv'
<1>1. /\ pc[t] = "unlock" /\ Up(t) /\ UnlockRW(t) /\ Return(t)
      /\ UNCHANGED <<exclusive_owner, shared_owners, alive>>
  BY DEF Finish, At
<1>2. /\ Becomes(t, "idle", "lock", NoPid, 1, 0)
      /\ OthersStay(t) /\ pc'[t] = "idle" /\ op'[t] = "lock" /\ cursor'[t] = 1
      /\ "idle" \in Places /\ "lock" \in Ops
  BY <1>1, ForgetEffect DEF LockInv, Return, Places, Ops
<1>3. PlaceOK(t)'
  BY <1>2, Moves DEF LockInv, PlaceOK
<1>4. \A u \in Threads \ {t} : /\ Exclusive(u)' <=> Exclusive(u)
                               /\ pc'[u] = pc[u] /\ (Up(u)' <=> Up(u))
  BY <1>1, <1>2 DEF OthersStay, Exclusive, Up
<1>5. rwlock \in [writer : Threads \cup {NoThread}, readers : Int]
  BY DEF LockInv, TypeOK
<1>6. Recorded' = Recorded /\ \A p \in Pids : RecordOf(p)' = RecordOf(p)
  BY <1>1 DEF Recorded, RecordOf
<1>7. Pruning' = Pruning /\ \A p \in Pids : ReadersOf(p)' = ReadersOf(p)
  BY <1>1, <1>2, <1>4 DEF Pruning, ReadersOf, Reads
<1>8. \A p \in alive' : Cardinality(ReadersOf(p)') <= Cardinality(RecordOf(p)')
  BY <1>1, <1>6, <1>7, StillOnRecord
<1>9. CASE Exclusive(t)
  <2>1. rwlock.writer = t /\ t # NoThread
    BY <1>1, <1>9, RobustLockAssumption DEF LockInv, WriterInv, Writes
  <2>2. /\ rwlock'.writer = NoThread /\ rwlock'.readers = rwlock.readers
        /\ rwlock' \in [writer : Threads \cup {NoThread}, readers : Int]
    BY <1>1, <1>5, <2>1 DEF UnlockRW
  <2>3. TypeOK' /\ PlacesInv'
    BY <1>1, <1>2, <1>3, <2>2, Moves, MoveInv DEF LockInv, TypeOK
  <2>4. exclusive_owner = NoPid /\ \A u \in Threads : pc[u] # "release"
    BY <1>1, <2>1 DEF LockInv, WriterInv
  <2>5. \A u \in Threads \ {t} : ~ Writes(u)' /\ pc'[u] # "release"
    BY <1>4, <2>1, <2>4 DEF LockInv, WriterInv, Writes
  <2>6. WriterInv'
    BY <1>1, <1>2, <2>2, <2>4, <2>5 DEF WriterInv, Writes
  <2>7. Between' = Between
    BY <1>1, <1>2, <1>4, <1>9 DEF Between
  <2>8. ReadersInv'
    <3>1. Counted
      BY <1>1, <2>1, NotHanging
    <3>. QED
      BY <1>6, <1>7, <1>8, <2>2, <2>7, <3>1 DEF LockInv, ReadersInv, Counted
  <2>. QED
    BY <2>3, <2>6, <2>8 DEF LockInv
<1>10. CASE ~ Exclusive(t)
  <2>1. t \in Between /\ Between' = Between \ {t}
    BY <1>1, <1>2, <1>4, <1>10 DEF Between
  <2>2. rwlock.writer = NoThread /\ rwlock.readers > 0 /\ rwlock.readers \in Nat
    BY <2>1, ReaderExcludesWriter
  <2>3. rwlock' = [rwlock EXCEPT !.readers = @ - 1] /\ rwlock.readers - 1 \in Int
    BY <1>1, <2>2, RobustLockAssumption DEF UnlockRW
  <2>4. /\ rwlock'.writer = rwlock.writer /\ rwlock'.readers = rwlock.readers - 1
        /\ rwlock' \in [writer : Threads \cup {NoThread}, readers : Int]
    BY <1>5, <2>3
  <2>5. TypeOK' /\ PlacesInv'
    BY <1>1, <1>2, <1>3, <2>4, Moves, MoveInv DEF LockInv, TypeOK
  <2>6. SameWriter(t)
    BY <1>1, <1>2, <1>10 DEF SameWriter, Writes
  <2>7. WriterInv'
    BY <1>1, <1>2, <2>4, <2>6, WriterKept
  <2>8. /\ Cardinality(Recorded) \in Nat /\ Cardinality(Between) \in Nat
        /\ Cardinality(Pruning) \in Nat
        /\ Cardinality(Between') = Cardinality(Between) - 1 /\ Counted
    BY <2>1, CountsAreFinite, FS_CardinalityType, CountOne, NotHanging
  <2>9. ReadersInv'
    BY <1>6, <1>7, <1>8, <2>2, <2>4, <2>8 DEF LockInv, ReadersInv, Counted
  <2>. QED
    BY <2>5, <2>7, <2>9 DEF LockInv
<1>. QED
  BY <1>9, <1>10

(* Whoever takes a dead owner off the record is alone to release for it.   *)
LEMMA RecoverInv ==
  ASSUME LockInv, NEW t \in Threads, Recover(t)
  PROVE  LockInv'
<1>1. /\ pc[t] = "recover" /\ Up(t) /\ found[t] \in Pids \ alive
      /\ UNCHANGED <<rwlock, shared_owners, alive>>
  BY DEF Recover, At, LockInv, PlacesInv, PlaceOK
<1>2. CASE exclusive_owner = found[t]
  <2>1. exclusive_owner' = NoPid /\ Goto(t, "release") /\ UNCHANGED Locals
    BY <1>2 DEF Recover
  <2>2. /\ Becomes(t, "release", op[t], found[t], cursor[t], slot[t])
        /\ OthersStay(t) /\ pc'[t] = "release" /\ op'[t] = op[t] /\ "release" \in Places
    BY <2>1, GotoEffect DEF LockInv, Places
  <2>3. PlaceOK(t)'
    BY <2>2 DEF PlaceOK
  <2>4. TypeOK' /\ PlacesInv'
    BY <1>1, <2>1, <2>2, <2>3, Moves, MoveInv DEF LockInv, TypeOK
  <2>5. \A u \in Threads \ {t} : /\ Exclusive(u)' <=> Exclusive(u)
                                 /\ pc'[u] = pc[u] /\ (Up(u)' <=> Up(u))
    BY <1>1, <2>2 DEF OthersStay, Exclusive, Up
  <2>6. exclusive_owner # NoPid
    BY <1>1, <1>2, RobustLockAssumption
  <2>7. /\ rwlock.writer \in Threads /\ rwlock.writer # t /\ pc[rwlock.writer] = "held"
        /\ ~ Up(rwlock.writer) /\ Exclusive(rwlock.writer)
    BY <1>1, <1>2, <2>6 DEF LockInv, TypeOK, WriterInv, Up
  <2>8. \A u \in Threads : ~ Writes(u) /\ pc[u] # "release"
    BY <2>6, <2>7 DEF LockInv, WriterInv, Writes
  <2>9. \A u \in Threads : ~ Writes(u)' /\ (pc'[u] = "release" => u = t)
    BY <2>2, <2>5, <2>8 DEF Writes
  <2>10. WriterInv'
    <3>1. Exclusive(rwlock.writer)' /\ pc'[rwlock.writer] = "held" /\ ~ Up(rwlock.writer)'
      BY <1>1, <2>5, <2>7 DEF OthersStay, Exclusive, Up
    <3>2. UNCHANGED rwlock
      BY <1>1
    <3>3. exclusive_owner' = NoPid /\ rwlock'.writer = rwlock.writer
      BY <2>1, <3>2
    <3>4. \A u \in Threads : pc'[u] = "release" => u = t
      BY <2>9
    <3>5. (rwlock.writer # NoThread =>
             Exclusive(rwlock.writer) /\ pc[rwlock.writer] \in {"own", "held", "unlock"})'
      BY <3>1, <3>2 DEF Exclusive
    <3>6. (/\ rwlock.writer # NoThread /\ pc[rwlock.writer] = "held"
           /\ ~ Up(rwlock.writer))'
      BY <2>7, <3>1, <3>2, RobustLockAssumption DEF Exclusive, Up
    <3>. QED
      BY <2>9, <3>3, <3>4, <3>5, <3>6 DEF WriterInv
  <2>11. Recorded' = Recorded /\ \A p \in Pids : RecordOf(p)' = RecordOf(p)
    BY <1>1 DEF Recorded, RecordOf
  <2>12. Between' = Between /\ Pruning' = Pruning
         /\ \A p \in Pids : ReadersOf(p)' = ReadersOf(p)
    BY <1>1, <2>2, <2>5 DEF Between, Pruning, ReadersOf, Reads
  <2>13. \A p \in alive' : Cardinality(ReadersOf(p)') <= Cardinality(RecordOf(p)')
    BY <1>1, <2>11, <2>12, StillOnRecord
  <2>14. ReadersInv'
    <3>1. Counted
      BY <2>6, NotHanging
    <3>. QED
      BY <1>1, <2>11, <2>12, <2>13, <3>1 DEF LockInv, ReadersInv, Counted
  <2>. QED
    BY <2>4, <2>10, <2>14 DEF LockInv
<1>3. CASE exclusive_owner # found[t]
  <2>. DEFINE place == IF Blocking(t) THEN "try" ELSE "last"
  <2>1. Goto(t, place) /\ Forget(t) /\ UNCHANGED <<op, exclusive_owner>>
    BY <1>3 DEF Recover, Again
  <2>2. place \in {"try", "last"} /\ place \in Places
    BY DEF Places
  <2>. HIDE DEF place
  <2>3. op' = [op EXCEPT ![t] = op[t]] /\ op[t] \in Ops
    BY <2>1 DEF LockInv, TypeOK, Ops
  <2>4. /\ Becomes(t, place, op[t], NoPid, 1, 0)
        /\ pc'[t] = place /\ op'[t] = op[t] /\ cursor'[t] = 1
    BY <2>1, <2>2, <2>3, ForgetEffect DEF LockInv
  <2>5. PlaceOK(t)' /\ ~ Inserting(t) /\ ~ Involved(t) /\ ~ Involved(t)' /\ ~ Reads(t)'
    BY <1>1, <2>2, <2>4, Moves DEF LockInv, PlaceOK, Inserting, Involved, Reads
  <2>. QED
    BY <1>1, <2>1, <2>2, <2>4, <2>5, Moves, QuietMove DEF LockInv
<1>. QED
  BY <1>2, <1>3

(* The rwlock of the dead writer is released.                              *)
LEMMA ReleaseInv ==
  ASSUME LockInv, NEW t \in Threads, Release(t)
  PROVE  LockInv'
<1>. DEFINE place == IF Blocking(t) THEN "try" ELSE "last"
<1>1. /\ pc[t] = "release" /\ Up(t) /\ UnlockRW(t)
      /\ exclusive_owner' = (IF Exclusive(t) THEN exclusive_owner ELSE NoPid)
      /\ Goto(t, place) /\ Forget(t) /\ UNCHANGED <<op, shared_owners, alive>>
  BY DEF Release, At, Again
<1>2. /\ exclusive_owner = NoPid /\ exclusive_owner' = NoPid
      /\ rwlock.writer # NoThread /\ ~ Up(rwlock.writer) /\ pc[rwlock.writer] = "held"
      /\ \A u \in Threads \ {t} : pc[u] # "release"
  BY <1>1 DEF LockInv, WriterInv
<1>3. rwlock \in [writer : Threads \cup {NoThread}, readers : Int]
  BY DEF LockInv, TypeOK
<1>4. /\ \/ rwlock'.writer = NoThread /\ rwlock'.readers = rwlock.readers
         \/ rwlock'.writer = rwlock.writer /\ rwlock'.readers = rwlock.readers - 1
      /\ rwlock' \in [writer : Threads \cup {NoThread}, readers : Int]
  <2>1. rwlock.readers - 1 \in Int
    BY <1>3
  <2>. QED
    BY <1>1, <1>2, <1>3, <2>1 DEF UnlockRW
<1>5. place \in {"try", "last"} /\ place \in Places
  BY DEF Places
<1>. HIDE DEF place
<1>6. op' = [op EXCEPT ![t] = op[t]] /\ op[t] \in Ops
  BY <1>1 DEF LockInv, TypeOK, Ops
<1>7. /\ Becomes(t, place, op[t], NoPid, 1, 0) /\ OthersStay(t)
      /\ pc'[t] = place /\ op'[t] = op[t] /\ cursor'[t] = 1
  BY <1>1, <1>5, <1>6, ForgetEffect DEF LockInv
<1>8. PlaceOK(t)'
  BY <1>5, <1>7, Moves DEF LockInv, PlaceOK
<1>9. TypeOK' /\ PlacesInv'
  BY <1>1, <1>2, <1>4, <1>5, <1>6, <1>7, <1>8, Moves, MoveInv DEF LockInv, TypeOK
<1>10. \A u \in Threads \ {t} : /\ Exclusive(u)' <=> Exclusive(u)
                                /\ pc'[u] = pc[u] /\ (Up(u)' <=> Up(u))
  BY <1>1, <1>7 DEF OthersStay, Exclusive, Up
<1>11. WriterInv'
  <2>1. \A u \in Threads : ~ Writes(u)
    BY <1>2 DEF LockInv, WriterInv, Writes
  <2>2. \A u \in Threads : ~ Writes(u)' /\ pc'[u] # "release"
    BY <1>2, <1>5, <1>7, <1>10, <2>1 DEF Writes
  <2>3. /\ rwlock.writer \in Threads /\ rwlock.writer # t
        /\ Exclusive(rwlock.writer)
    BY <1>1, <1>2, <1>3 DEF LockInv, WriterInv
  <2>4. rwlock'.writer = rwlock.writer =>
          (Exclusive(rwlock.writer) /\ pc[rwlock.writer] \in {"own", "held", "unlock"})'
    BY <1>2, <1>7, <2>3 DEF OthersStay, Exclusive
  <2>. QED
    BY <1>2, <1>4, <2>2, <2>4 DEF WriterInv
<1>12. Recorded' = Recorded /\ \A p \in Pids : RecordOf(p)' = RecordOf(p)
  BY <1>1 DEF Recorded, RecordOf
<1>13. Between' = Between /\ Pruning' = Pruning
       /\ \A p \in Pids : ReadersOf(p)' = ReadersOf(p)
  BY <1>1, <1>5, <1>7, <1>10 DEF Between, Pruning, ReadersOf, Reads
<1>14. \A p \in alive' : Cardinality(ReadersOf(p)') <= Cardinality(RecordOf(p)')
  BY <1>1, <1>12, <1>13, StillOnRecord
<1>15. ReadersInv'
  <2>1. Counted /\ ~ (rwlock.readers > 0)
    BY <1>1, <1>2, NotHanging DEF LockInv, ReadersInv
  <2>2. /\ Cardinality(Recorded) \in Nat /\ Cardinality(Between) \in Nat
        /\ Cardinality(Pruning) \in Nat
    BY CountsAreFinite, FS_CardinalityType
  <2>3. Cardinality(Recorded) = 0 /\ Cardinality(Between) = 0 /\ Cardinality(Pruning) = 0
    BY <1>3, <2>1, <2>2 DEF Counted
  <2>4. Recorded = {} /\ Between = {} /\ Pruning = {}
    BY <2>3, CountsAreFinite, FS_EmptySet
  <2>7. rwlock.readers = 0
    BY <2>1, <2>3 DEF Counted
  <2>5. CASE rwlock'.writer = NoThread /\ rwlock'.readers = rwlock.readers
    BY <1>12, <1>13, <1>14, <2>1, <2>4, <2>5, <2>7 DEF ReadersInv, Counted
  <2>6. CASE rwlock'.writer = rwlock.writer /\ rwlock'.readers = rwlock.readers - 1
    <3>1. \A u \in Threads : pc'[u] # "release"
      BY <1>2, <1>5, <1>7, <1>10
    <3>2. ~ Up(rwlock.writer)'
      BY <1>1, <1>2, <2>6 DEF Up
    <3>3. Hangs'
      BY <1>2, <1>12, <1>13, <2>4, <2>6, <2>7, <3>1, <3>2 DEF Hangs
    <3>. QED
      BY <1>14, <2>6, <2>7, <3>3 DEF ReadersInv
  <2>. QED
    BY <1>4, <2>5, <2>6
<1>. QED
  BY <1>9, <1>11, <1>15 DEF LockInv

(* A process dies; what its threads have of the lock stays where it is.    *)
LEMMA CrashInv ==
  ASSUME LockInv, NEW p \in Pids, Crash(p)
  PROVE  LockInv'
<1>. DEFINE mine(t) == PidOf[t] = p
<1>1. /\ alive' = alive \ {p} /\ UNCHANGED <<rwlock, exclusive_owner, shared_owners>>
      /\ found' = [t \in Threads |-> IF mine(t) THEN NoPid ELSE found[t]]
      /\ cursor' = [t \in Threads |-> IF mine(t) THEN 1 ELSE cursor[t]]
      /\ slot' = [t \in Threads |-> IF mine(t) THEN 0 ELSE slot[t]]
      /\ pc' = [t \in Threads |-> IF mine(t) /\ ~ LeavesTrace(t) THEN "idle" ELSE pc[t]]
      /\ op' = [t \in Threads |-> IF mine(t) /\ ~ LeavesTrace(t) THEN "lock" ELSE op[t]]
  BY DEF Crash, shared
<1>2. TypeOK'
  <2>1. 1 \in 1 .. Slots + 1 /\ 0 \in 0 .. Slots
    BY RobustLockAssumption
  <2>. QED
    BY <1>1, <2>1 DEF LockInv, TypeOK
<1>3. ASSUME NEW t \in Threads
      PROVE  /\ ~ mine(t) => /\ pc'[t] = pc[t] /\ op'[t] = op[t] /\ found'[t] = found[t]
                             /\ cursor'[t] = cursor[t] /\ slot'[t] = slot[t]
                             /\ (Up(t)' <=> Up(t))
             /\ mine(t) => ~ Up(t)'
             /\ LeavesTrace(t) => pc'[t] = pc[t] /\ op'[t] = op[t]
             /\ mine(t) /\ ~ LeavesTrace(t) => pc'[t] = "idle" /\ op'[t] = "lock"
  BY <1>1 DEF Up
<1>4. PlacesInv'
  <2>1. ASSUME NEW t \in Threads PROVE PlaceOK(t)'
    <3>1. PlaceOK(t)
      BY DEF LockInv, PlacesInv
    <3>2. CASE mine(t)
      BY <1>3, <3>1, <3>2 DEF PlaceOK, Exclusive, LeavesTrace
    <3>3. CASE ~ mine(t)
      BY <1>1, <1>3, <3>1, <3>3 DEF PlaceOK, Exclusive
    <3>. QED
      BY <3>2, <3>3
  <2>. QED
    BY <2>1 DEF PlacesInv
<1>5. \A t \in Threads :
        /\ (Up(t)' => Up(t))
        /\ Exclusive(t) /\ pc[t] \in {"own", "held", "unlock"} =>
             Exclusive(t)' /\ pc'[t] = pc[t]
        /\ (pc'[t] = "release" <=> pc[t] = "release")
        /\ (Writes(t)' => Writes(t) /\ pc'[t] = pc[t])
  BY <1>1, <1>3 DEF LeavesTrace, Exclusive, Writes, Up
<1>6. WriterInv'
  <2>1. rwlock.writer # NoThread => rwlock.writer \in Threads
    BY DEF LockInv, TypeOK
  <2>2. UNCHANGED rwlock /\ UNCHANGED exclusive_owner
    BY <1>1
  <2>. QED
    BY <1>5, <2>1, <2>2 DEF LockInv, WriterInv
<1>7. Recorded' = Recorded /\ \A r \in Pids : RecordOf(r)' = RecordOf(r)
  BY <1>1 DEF Recorded, RecordOf
<1>8. \A t \in Threads :
        /\ (~ Exclusive(t) /\ pc[t] \in {"insert", "insert_cas", "unlock"})'
             <=> (~ Exclusive(t) /\ pc[t] \in {"insert", "insert_cas", "unlock"})
        /\ (pc'[t] = "prune_unlock" <=> pc[t] = "prune_unlock")
        /\ (Reads(t)' => Reads(t))
  BY <1>3 DEF LeavesTrace, Exclusive, Reads
<1>9. Between' = Between /\ Pruning' = Pruning
      /\ \A r \in Pids : ReadersOf(r)' \subseteq ReadersOf(r)
  BY <1>8 DEF Between, Pruning, ReadersOf
<1>10. \A r \in alive' : Cardinality(ReadersOf(r)') <= Cardinality(RecordOf(r)')
  BY <1>1, <1>7, <1>9, StillOnRecord
<1>11. ReadersInv'
  <2>1. (Counted \/ Hangs)'
    BY <1>1, <1>5, <1>7, <1>9, HangsOn
  <2>. QED
    BY <1>1, <1>10, <2>1 DEF LockInv, ReadersInv
<1>. QED
  BY <1>2, <1>4, <1>6, <1>11 DEF LockInv

(* LockInv is inductive.                                                   *)
LEMMA StepInv ==
  ASSUME LockInv, [Next]_vars
  PROVE  LockInv'
<1>1. ASSUME NEW t \in Threads, Step(t) PROVE LockInv'
  BY <1>1, TrySucceedsInv, TryFailsInv, OwnInv, InsertInv, InsertCasInv, CheckInv,
     RecoverInv, ReleaseInv, PruneInv, RemoveInv, RemoveCasInv, PruneUnlockInv,
     UnlockInv, UnlockSharableInv, FinishInv DEF Step
<1>2. CASE UNCHANGED vars
  <2>1. (TypeOK /\ PlacesInv)'
    BY <1>2 DEF vars, shared, LockInv, TypeOK, PlacesInv, PlaceOK, Exclusive, Up
  <2>2. WriterInv'
    BY <1>2 DEF vars, shared, LockInv, Exclusive, Up, WriterInv, Writes
  <2>3. ReadersInv'
    BY <1>2 DEF vars, shared, LockInv, Exclusive, Up, ReadersInv, Counted, Hangs, Recorded,
                RecordOf, Between, Pruning, Reads, ReadersOf
  <2>. QED
    BY <2>1, <2>2, <2>3 DEF LockInv
<1>. QED
  BY <1>1, <1>2, CallInv, CrashInv DEF Next

(* LockInv holds throughout, whoever dies and wherever.                    *)
THEOREM Invariance == Spec => []LockInv
<1>1. LockInv /\ [Next]_vars => LockInv'
  BY StepInv
<1>. QED
  BY InitInv, <1>1, PTL DEF Spec

(* Type correctness of the lock, whoever dies and wherever.                *)
THEOREM TypeCorrect == Spec => []TypeOK
<1>1. LockInv => TypeOK
  BY DEF LockInv
<1>. QED
  BY Invariance, <1>1, PTL

-----------------------------------------------------------------------------
(* What the lock promises                                                  *)

(* A writer keeps everybody else out, for good: a reader that is inside is *)
(* on record, so the rwlock has readers and no writer.                     *)
LEMMA Excluded == LockInv => MutualExclusion
<1>. SUFFICES ASSUME LockInv, NEW t \in Threads, NEW u \in Threads, t # u,
                     At(t, "held"), At(u, "held"), Exclusive(t)
              PROVE  FALSE
  BY DEF MutualExclusion
<1>1. /\ Writes(t) /\ rwlock.writer = t /\ rwlock.writer # NoThread
      /\ PidOf[u] \in Pids /\ PidOf[u] \in alive
  BY RobustLockAssumption DEF LockInv, WriterInv, Writes, At, Up
<1>2. CASE Exclusive(u)
  BY <1>1, <1>2 DEF LockInv, WriterInv, Writes, At
<1>3. CASE ~ Exclusive(u)
  <2>1. u \in ReadersOf(PidOf[u])
    BY <1>3 DEF ReadersOf, Reads, At
  <2>2. /\ Cardinality(ReadersOf(PidOf[u])) \in Nat
        /\ Cardinality(ReadersOf(PidOf[u])) > 0
    BY <1>1, <2>1, CountsAreFinite, CountOne
  <2>3. Cardinality(ReadersOf(PidOf[u])) <= Cardinality(RecordOf(PidOf[u]))
    BY <1>1 DEF LockInv, ReadersInv
  <2>4. RecordOf(PidOf[u]) # {}
    BY <2>2, <2>3, FS_EmptySet
  <2>5. Recorded # {}
    BY <1>1, <2>4, RobustLockAssumption DEF Recorded, RecordOf
  <2>. QED
    BY <1>1, <2>5, ReaderExcludesWriter
<1>. QED
  BY <1>2, <1>3

(* MutualExclusion holds throughout, whatever died and was cleaned up.     *)
THEOREM ExclusiveIsExclusive == Spec => []MutualExclusion
<1>. QED
  BY Invariance, Excluded, PTL

(* OwnerIsInside holds throughout: exclusive_owner never names a process   *)
(* that has given the lock back.                                           *)
THEOREM OwnersAreInside == Spec => []OwnerIsInside
<1>1. LockInv => OwnerIsInside
  BY DEF LockInv, TypeOK, WriterInv, OwnerIsInside
<1>. QED
  BY Invariance, <1>1, PTL

(* ReadersAccounted holds throughout: the rwlock, the LocklessSet and the  *)
(* threads between the two agree on how many readers there are.            *)
THEOREM ReadersAreAccounted == Spec => []ReadersAccounted
<1>1. Accounted = Cardinality(Recorded) + Cardinality(Between) + Cardinality(Pruning)
  BY DEF Accounted, Count, Recorded, Between, Pruning
<1>2. LockInv /\ Counted => ReadersAccounted
  BY <1>1 DEF ReadersAccounted, Counted
<1>3. LockInv /\ Hangs => ReadersAccounted
  <2>1. ASSUME LockInv, Hangs PROVE ReadersAccounted
    <3>1. Accounted = 0
      BY <1>1, <2>1, FS_EmptySet DEF Hangs
    <3>2. Wedged
      BY <2>1 DEF Hangs, Wedged, LockInv, TypeOK
    <3>. QED
      BY <3>1, <3>2 DEF ReadersAccounted
  <2>. QED
    BY <2>1
<1>4. LockInv => ReadersAccounted
  BY <1>2, <1>3 DEF LockInv, ReadersInv
<1>. QED
  BY Invariance, <1>4, PTL

(* Only the steps that unlock the rwlock change its writer from a thread   *)
(* to none, and recovery does so for a dead writer only.                   *)
LEMMA HoldIsKept ==
  ASSUME LockInv, NEW t \in Threads, rwlock.writer = t, Up(t), rwlock'.writer # t,
         [Next]_vars
  PROVE  pc[t] = "unlock"
<1>1. rwlock.writer # NoThread
  BY RobustLockAssumption
<1>2. rwlock' # rwlock
  OBVIOUS
<1>3. PICK u \in Threads : TrySucceeds(u) \/ Release(u) \/ PruneUnlock(u) \/ Finish(u)
  BY <1>2 DEF Next, Step, Call, Crash, TryFails, Own, Insert, InsertCas, Check, Recover,
              Prune, Remove, RemoveCas, Unlock, UnlockSharable, vars, shared
<1>4. CASE TrySucceeds(u)
  BY <1>1, <1>4 DEF TrySucceeds, CanTake
<1>5. CASE Release(u)
  BY <1>5 DEF Release, At, LockInv, WriterInv
<1>6. CASE PruneUnlock(u)
  <2>1. u \in Pruning
    BY <1>6 DEF PruneUnlock, At, Pruning
  <2>. QED
    BY <1>1, <2>1, ReaderExcludesWriter
<1>7. CASE Finish(u)
  <2>1. pc[u] = "unlock"
    BY <1>7 DEF Finish, At
  <2>2. CASE Exclusive(u)
    BY <2>1, <2>2 DEF LockInv, WriterInv, Writes
  <2>3. CASE ~ Exclusive(u)
    <3>1. u \in Between
      BY <2>1, <2>3 DEF Between
    <3>. QED
      BY <1>1, <3>1, ReaderExcludesWriter
  <2>. QED
    BY <2>2, <2>3
<1>. QED
  BY <1>3, <1>4, <1>5, <1>6, <1>7

(* HoldIsNotTaken holds of every step: cleaning up after the dead never    *)
(* releases the lock of a live writer.                                     *)
THEOREM HoldsAreNotTaken == Spec => HoldIsNotTaken
<1>1. LockInv /\ [Next]_vars =>
        [\A t \in Threads :
           rwlock.writer = t /\ Up(t) /\ rwlock'.writer # t => pc[t] = "unlock"]_vars
  BY HoldIsKept
<1>. QED
  BY Invariance, <1>1, PTL DEF Spec, HoldIsNotTaken

=============================================================================
