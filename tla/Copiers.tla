------------------------------ MODULE Copiers -------------------------------
(***************************************************************************)
(* Copying a message into and out of shared memory: the copiers of         *)
(* include/shadesmar/memory/copier.h and dragons.h.  A base copier moves   *)
(* vectors (32 bytes, or single bytes) in groups of one, two or four, with *)
(* ordinary stores or with streaming stores that only a fence makes        *)
(* visible to others; MTCopier divides the vectors among threads that each *)
(* call the base copier.  Called on its own, a base copier is an MTCopier  *)
(* of one thread.                                                          *)
(*                                                                         *)
(* Source and destination are copied vector for vector, so a vector is a   *)
(* number.  Moving a group is a step.  Prefetching changes nothing.        *)
(***************************************************************************)
EXTENDS Integers, FiniteSets

CONSTANTS VecBytes,     \* sizeof(__m256i), 32
          Sizes,        \* the sizes in bytes that are copied
          ThreadCounts, \* nthreads
          CountRange,   \* 2^64
          Mapped        \* the vectors of memory there are behind the buffer

(* No buffer is so large that the count of its vectors, rounded up, wraps. *)
ASSUME CopiersAssumption ==
  /\ VecBytes \in Nat \ {0}
  /\ Sizes \subseteq Nat /\ ThreadCounts \subseteq Nat \ {0}
  /\ CountRange \in Nat \ {0} /\ Mapped \in Nat
  /\ \A size \in Sizes : size + 4 <= CountRange

(* A base copier: PtrT is vec bytes long; group vectors are moved in one   *)
(* iteration; tail: the last group is moved after the loop; stream: with   *)
(* streaming stores.                                                       *)
Base(vec, group, tail, stream) ==
  [vec |-> vec, group |-> group, tail |-> tail, stream |-> stream]

DefaultCopier == Base(1, 1, FALSE, FALSE)
RepMovsbCopier == Base(1, 1, FALSE, FALSE)
AvxCopier == Base(VecBytes, 1, FALSE, FALSE)
AvxAsyncCopier == Base(VecBytes, 1, FALSE, TRUE)
AvxAsyncPFCopier == Base(VecBytes, 2, TRUE, TRUE)
AvxUnrollCopier == Base(VecBytes, 4, FALSE, FALSE)
AvxAsyncUnrollCopier == Base(VecBytes, 4, FALSE, TRUE)
AvxAsyncPFUnrollCopier == Base(VecBytes, 4, TRUE, TRUE)

BaseCopiers ==
  {DefaultCopier, RepMovsbCopier, AvxCopier, AvxAsyncCopier, AvxAsyncPFCopier,
   AvxUnrollCopier, AvxAsyncUnrollCopier, AvxAsyncPFUnrollCopier}

VARIABLES job,      \* the call of _copy: [base, size, threads], or NoJob
          worker    \* the state of each of its threads

vars == <<job, worker>>

Job == [base : BaseCopiers, size : Sizes, threads : ThreadCounts]
NoJob == [threads |-> 0]
Workers == 0 .. job.threads - 1

-----------------------------------------------------------------------------
(* The arithmetic *)

(* SHMALIGN: the least multiple of a from n on. *)
SHMALIGN(n, a) == ((n + a - 1) \div a) * a

(* The bytes of the buffer that alloc(size) of the base copier returns,    *)
(* in vectors.                                                             *)
Allocated(base, size) == SHMALIGN(size, base.vec * base.group) \div base.vec

(* The vectors there are to copy. *)
Vectors(base, size) == SHMALIGN(size, base.vec) \div base.vec

(* curr_start of thread w, and next_start of the thread before: the first  *)
(* n % threads threads take a vector more than the others.                 *)
Start(n, threads, w) ==
  w * (n \div threads) + IF w <= n % threads THEN w ELSE n % threads

(* Mutant: everyone takes a vector of the rest, if there is one. *)
ShareEqual(n, threads, w) ==
  (n + threads - 1) \div threads

(* next_start - curr_start: how many vectors thread w is given. *)
Share(n, threads, w) == Start(n, threads, w + 1) - Start(n, threads, w)

(* Mutant: the count is not rounded up to whole groups. *)
CountUnrounded(base, n) == n

(* nVec: how many vectors a base copier sets out to copy for n of them.    *)
Count(base, n) == SHMALIGN(n, base.group)

-----------------------------------------------------------------------------
Init ==
  /\ job = NoJob
  /\ worker = <<>>

(* _copy starts its threads. *)
Copy(j) ==
  LET n == Vectors(j.base, j.size)
  IN /\ job = NoJob
     /\ job' = j
     /\ worker' = [w \in 0 .. j.threads - 1 |->
          [pc |-> "loop", next |-> Start(n, j.threads, w),
           left |-> Count(j.base, Share(n, j.threads, w)),
           written |-> {}, pending |-> {}]]

At(w, place) == worker[w].pc = place

(* The next group of a thread, and what moving it does: streaming stores   *)
(* are pending for a while.                                                *)
Group(w) == worker[w].next .. worker[w].next + job.base.group - 1

Moved(w) ==
  [worker[w] EXCEPT
     !.written = @ \cup Group(w),
     !.pending = IF job.base.stream THEN @ \cup Group(w) ELSE @]

(* Whether the loop goes on; with a tail it stops one group before the end. *)
GoesOn(w) == worker[w].left > IF job.base.tail THEN job.base.group ELSE 0

(* An iteration of the loop. *)
CopyGroup(w) ==
  /\ At(w, "loop") /\ GoesOn(w)
  /\ worker[w].next < Mapped
  /\ worker' = [worker EXCEPT ![w] =
       [Moved(w) EXCEPT !.next = @ + job.base.group,
                        !.left = (@ - job.base.group) % CountRange]]
  /\ UNCHANGED job

(* Mutant: every copier moves a last group after its loop. *)
LeaveLoopAlwaysTail(w) ==
  /\ At(w, "loop") /\ ~ GoesOn(w)
  /\ worker' = [worker EXCEPT ![w].pc = "tail"]
  /\ UNCHANGED job

(* The loop ends. *)
LeaveLoop(w) ==
  /\ At(w, "loop") /\ ~ GoesOn(w)
  /\ worker' = [worker EXCEPT ![w].pc = IF job.base.tail THEN "tail" ELSE "fence"]
  /\ UNCHANGED job

(* The group after the loop, whatever is left. *)
CopyTail(w) ==
  /\ At(w, "tail")
  /\ worker' = [worker EXCEPT ![w] = [Moved(w) EXCEPT !.pc = "fence"]]
  /\ UNCHANGED job

(* The processor makes a streaming store visible. *)
Drain(w) ==
  \E v \in worker[w].pending :
    /\ worker' = [worker EXCEPT ![w].pending = @ \ {v}]
    /\ UNCHANGED job

(* Mutant: no fence. *)
FenceMissing(w) ==
  /\ At(w, "fence")
  /\ worker' = [worker EXCEPT ![w].pc = "done"]
  /\ UNCHANGED job

(* _mm_sfence(), where there are streaming stores; the thread ends. *)
Fence(w) ==
  /\ At(w, "fence")
  /\ worker[w].pending = {}
  /\ worker' = [worker EXCEPT ![w].pc = "done"]
  /\ UNCHANGED job

(* All threads are joined and _copy returns. *)
Joined == job # NoJob /\ \A w \in Workers : At(w, "done")

Return ==
  /\ Joined
  /\ job' = NoJob
  /\ worker' = <<>>

Step(w) == CopyGroup(w) \/ LeaveLoop(w) \/ CopyTail(w) \/ Drain(w) \/ Fence(w)

Next ==
  \/ \E j \in Job : Copy(j)
  \/ \E w \in Workers : Step(w)
  \/ Return

Spec == Init /\ [][Next]_vars

(* The threads run, and stores become visible some time. *)
FairSpec == Spec /\ WF_vars(Return \/ \E w \in Workers : Step(w))

-----------------------------------------------------------------------------
(* Properties *)

(* When _copy returns the whole message is in the destination, and visible *)
(* to the process that is told of it next.                                 *)
CopyComplete ==
  Joined =>
    \A v \in 0 .. Vectors(job.base, job.size) - 1 :
      \E w \in Workers : v \in worker[w].written \ worker[w].pending

(* Nothing is written behind a buffer that the copier itself allocated,    *)
(* provided that groups are not cut by the division among threads and that *)
(* there is something to copy.                                             *)
WithinBuffer ==
  job # NoJob /\ (job.base.group = 1 \/ (job.threads = 1 /\ job.size > 0)) =>
    \A w \in Workers : \A v \in worker[w].written :
      v < Allocated(job.base, job.size)

(* No vector is written by two threads, provided that groups are single.   *)
PartsDisjoint ==
  job # NoJob /\ job.base.group = 1 =>
    \A w, x \in Workers : w # x => worker[w].written \cap worker[x].written = {}

(* A copy comes to an end: the count of a loop hits zero and does not wrap. *)
CopyReturns == job # NoJob ~> job = NoJob

=============================================================================
