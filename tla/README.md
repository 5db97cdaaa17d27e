# Shadesmar in TLA+

Shadesmar is a C++ header library that passes messages between processes of one
machine through POSIX shared memory: publish-subscribe topics and remote procedure
calls, on top of an allocator and a reader-writer lock that live in the shared
segment. This directory holds TLA+ modules of its core, the TLC configurations
that check them, and TLAPS proofs about each part.
Paths below are relative to `include/shadesmar/`.

## 1. Inventory

| Component | State | Operations | What makes it correct |
|---|---|---|---|
| `Allocator` (`memory/allocator.h`) | `alloc_index_`, `free_index_`, a ring of words whose headers lie between the callers' payloads | `alloc`, `free`, `reset`, `get_free_memory`, `lock_reset` | blocks never overlap, headers survive, the oldest block can be freed, no assert fails |
| `RobustLock` (`concurrency/robust_lock.h`) | a pthread rwlock, `exclusive_owner`, a set of reader pids | `lock`, `try_lock`, `unlock`, the `_sharable` three, `prune_readers`, `reset` | exclusion; what a dead process held is given back once, what a live one holds never; waiters are not left with a lock that nobody alive holds |
| `LocklessSet` (`concurrency/lockless_set.h`) | 8 (or 32) atomic slots | `insert`, `remove` | used by `RobustLock` and `PIDSet` |
| `PthreadReadWriteLock` (`concurrency/rw_lock.h`) | a process-shared pthread rwlock | lock, try, unlock, `reset` | guards each element of a topic; not robust |
| `Topic`, `Publisher`, `Subscriber` (`pubsub/`) | `counter`, elements (handle, size, empty, lock), per-subscriber `counter_` | `write`, `read`, `publish`, `spin_once` | no torn message, no block lost or shared, positions move forward, publishers return, subscribers catch up |
| `Channel`, `Client`, `Server` (`rpc/`) | counter, request and response elements (mutex, condition variable), two heaps | `write_client`, `read_client`, `read_server`, `write_server` | each call gets the answer to its own request, exactly once |
| `Memory`, `PIDSet` (`memory/memory.h`) | the segment, the set of attached pids, a lock | create or attach, `any_alive`, reset when all others are dead | one process at a time resets, never while somebody on record is alive; nothing is left of the dead; users are on record; attaching ends |
| `PthreadWriteLock`, `CondVar` (`concurrency/lock.h`, `cond_var.h`) | robust mutex, condition variable | used by the channel | |
| Copiers (`memory/copier.h`, `dragons.h`) | none | `memcpy`, SIMD variants, the multi-threaded `MTCopier` | all that is to be copied is, and is visible before the copy returns; nothing behind the buffer |

How they interact. A `Memory` maps one segment per topic or channel; the segment holds
the `PIDSet`, the allocator(s), each with its `RobustLock`, and the shared queue.
`Topic::write` calls `alloc`, copies the message into the block, swaps the block into
an element under the element's rwlock, calls `free` on the block it took out until
`free` accepts it, and only then advances the counter. `Topic::read` polls the
counter without a lock, takes the element's shared lock, and copies. A channel
does the same with two heaps and a wait on a condition variable. A `Memory` that attaches
and finds all recorded pids dead resets every lock and the allocators.

What is hard here: every public call runs in several processes at once on the same
memory; any of them may die between two instructions; positions are read before a lock
and used after; counters wrap at 2^32; and the heap is a FIFO that several publishers
free out of order. `PROJECT.json` lists these hazards line by line.

## 2. Modules

| Module | Stands for |
|---|---|
| `FifoAllocator` | abstract: what a heap promises (disjoint blocks, taken back oldest first) |
| `Allocator` | the ring of words; implements `FifoAllocator` (`FifoSpec`) |
| `RobustLock` | the lock, the `LocklessSet` under it and the pthread rwlock, one action per shared access |
| `SharedMemory` | creation of a segment, attaching, the `PIDSet` and the reset, with `RobustLock` as the lock of the `PIDSet` (`PidLock`) |
| `SegmentLock` | `SharedMemory` and, in the segment, another `RobustLock` as the allocator's lock (`Lock`) |
| `Topic` | `Topic::write`/`read` and their callers over `FifoAllocator` |
| `Channel` | the four operations of `Channel` with clients and a server that may die, over `FifoAllocator` |
| `Copiers` | the loops of the base copiers and the division of work by `MTCopier` |
| `MCAllocator`, `MCRobustLock`, `MCSharedMemory`, `MCSegmentLock`, `MCTopic`, `MCChannel`, `MCCopiers` | definitions for the configurations |
| `AllocatorProofs`, `RobustLockProofs`, `TopicProofs`, `ChannelProofs`, `SharedMemoryProofs`, `CopiersProofs` | TLAPS proofs about the module of that name |
| `SinglePublisherProofs` | TLAPS proofs about `Topic` with one publisher, on top of `TopicProofs` |
| `ListLemmas` | lemmas about the sequence of blocks in use, for `TopicProofs` and `ChannelProofs` |

Definitions commented "Mutant: ..." are faulty variants of the definition that follows
them; no specification uses them. They show that the properties
can tell the code from a likely bug in it.

### Allocator

Words are numbered, `heap[w]` is the word, `Index` is what `validate_index` accepts.
`alloc` and `free` run under the allocator's exclusive lock, so each is one
action; `PayloadSize`, `SuggestIndex`, `AfterPayload` and `Fits` are the computations of
`alloc` in order, `Accepts` the one of `free`. 32-bit addition is `% UIntRange`.
`UserWrite` is the caller filling the bytes it asked for: any overlap with a header
then shows in `AssertsHold`, `OldestFreeable` and `HeadersIntact`. `live` is a history
variable. `reset` is called only when no process that holds a pointer is left.

### RobustLock

A thread's `pc` is the place it has reached; all accesses to shared memory are steps of
their own, so a crash (`Crash`, all threads of a process at once) can fall between any two.
`TrySucceeds`/`TryFails` are the rwlock's try operations, `Check` the load of
`exclusive_owner` with `proc_dead`, `Recover` and `Release` the compare-and-swap and the
unlock for a dead owner, `Prune` and `PruneUnlock` the loop of `prune_readers`.
The `LocklessSet` is searched slot by slot: `Insert` and `Remove` load a slot,
`InsertCas` and `RemoveCas` are their compare-and-swap, and all the others may change the
set in between. `insert` and `remove` start over or give up where the code does.
Simplifications: the two loads of `exclusive_owner` in a row are one; the final operation of
`lock_sharable` after a recovered owner (store 0, unlock) is one step; what a dead thread had
in its locals is dropped, and one that left nothing in shared memory becomes idle, which
saves states and changes nothing for the living. Pids are not used again.

Unlocking a rwlock for somebody else, which recovery does, is undefined behaviour. `UnlockRW` takes
either of two outcomes each time: the library goes by the lock's state and releases the writer,
or it goes by the owner, as glibc does since 2.25, and counts the readers down, to -1. The constant
`OwnerChecked` is the set of outcomes, `{TRUE, FALSE}` in all runs; nothing that is checked or
proved depends on which it is. After the second outcome the lock is `Wedged`: nobody gets in again.

### SharedMemory

A thread's `phase` follows the constructor of its `Memory`. The creator goes through `Create`,
`Truncate`, the three constructors, `Record` and `InitQueue`; the others through `Open`, `Wake`
(after 10 ms, wherever the creator is by then), `LockPids` and `EnterPids` (`pid_set_->lock()`), `Scan`,
`RemovePid` and `Decide` (`any_alive`), the four steps of the reset, `UnlockPids` and `Record`. Any number of
processes attach at once and any of them, the creator too, may die at any place.

The lock of the `PIDSet` is a `RobustLock` (`PidLock`), whose actions are called one shared access at a time, so it is
recovered, lost or wedged exactly as the code would have it. `any_alive` goes slot by slot, and so does `insert`
(`Record`), whose result the constructor ignores. Load and compare-and-swap of one slot are one
step in `Record`: a swap that fails is as good as a slot that was not free. `remove` is one step: it runs
under the lock, and what others insert meanwhile are other pids.

Of the queue and the heap it is only said whether they are `clean`, `used`, or hold what dead processes have
`left`. A process that is `ready` writes part by part in any order (`Write`): `Topic::write` allocates, stores and counts in three
steps, `Channel::write_client` counts first. Two heaps of a channel count as one. The paths on which the constructor gives up
(`create_memory_segment` returns `nullptr`, `exit(1)`) end the process, as `Crash` does; touching the segment before `ftruncate` is a
SIGBUS (`WakeTooEarly`).

`known` and `late` are history: the pids on record when a thread took the lock, and that the `PIDSet` was
constructed while a process used it already, because the creator took longer than the 10 ms. Constructing it wipes the lock
and the record of that process, so three properties except `late` by name, and hold up to then.

What the code does not protect, and the model shows: two processes attach, the first resets, unlocks and is ready but not
yet on record when the second resets again (this is why `NoResetOfKnown` speaks of those on record); a
process is ready in a segment whose creator has died before it constructed the queue; with a full set
a live user is not on record.

### SegmentLock

`ConstructLock` and `ResetMutex` are `ConstructAllocator` and `ResetLock` with their effect on the allocator's lock. The lock's recovery
works with the pid on record, so that `RobustLock::reset` initialises the rwlock and leaves `exclusive_owner` and `shared_owners`
as they are is modelled literally. `wiped` is history: the lock was reset with somebody inside the segment.

### Topic

A publisher's `pc` runs over `idle, alloc, lock, handle, size, free, inc`, a
subscriber's over `idle, lock, lag, size, copy`; element fields written under the
element's lock are separate steps, because the slow path reads them without that lock.
The copy of a message is two steps for the reader (`ReadSize`, `Deliver`): if the
block's content, or the size that was read, belongs to another message, the result is `Torn`.
A message is `[by, n]`; its size tells it apart. `sent` and `last` are history. A
message larger than what is free makes `write` return false, in any state
(`AllocFails`, merged with the earlier test of `get_free_memory`). Loads of the counter
in a row are one step; the counter only grows, so the last of them decides.

### Channel

A client's `pc` runs over `idle, claim, alloc, handle, size, recv, wait`, the server's over
`idle, handle, size, reply`. `Claim` is the critical section of `write_client`; what
follows it runs without the mutex, one access per step; clients in `MaySendEmpty` also send messages of
size 0, for which nobody looks at the block. `Receive` is the critical
section of `read_client` with `clean_up`, which ignores the result of `free`. `Wait` and `Signal`
are the condition variable. `Poll` to `Reply` are one round of `Server::process`: `read_server`
reads handle and size in two steps, because the client may be storing them. Of
`counter` and `pos_` only the element they select is kept. The response heap is never freed
by the code, so it is a count. A message of any size may find no room, in the request heap
(`AllocFails`) and in the response heap (`ReplyError`). `Crash` is the death of a client,
which leaves its element claimed and its block allocated; `Restart` is the death of the
server, between requests or with one in its hands, and a new server that begins at position 0.
Both happen outside of critical sections (section 7).

### Copiers

Source and destination are copied vector for vector, so a vector is a number. A base copier is
a record of the size of its vectors, how many it moves in an iteration, whether it moves a last
group after its loop and whether it uses streaming stores. `Start` and `Share` are the
division by `MTCopier`, `Count` the rounding of `nVec`; `CopyGroup`, `LeaveLoop`, `CopyTail` and `Fence` the
loop of one thread. A streaming store is `pending` until the processor drains it
(`Drain`) or a fence waits for it. Counting down is modulo `CountRange`, so a loop that passes
zero goes on to the end of the memory (`Mapped`).

## 3. Runs

Passing:

| Run | Bounds | Shows |
|---|---|---|
| `allocator` | 8 words; requests of 0, 10, 15, 32 bytes | all safety properties and the refinement, in every position of the two indices |
| `robust_lock` | 2 processes, one with 2 threads, 2 slots, four operations, crashes anywhere, both outcomes of an unlock for the dead | exclusion, exact count of read locks, recovery never hits a live holder; waiters are not left with a lock that nobody alive holds, but for three named ways to lose it; a reader gets its pid in unless the set is full of others |
| `shared_memory` | 3 processes, of which 2 may die anywhere, 2 slots in the `PIDSet`, both outcomes of an unlock for the dead | no reset while one on record is alive, one resetting at a time, nothing left of the dead, users are on record, attaching ends |
| `topic` | 1 publisher, 1 subscriber, queue of 4, 8 messages | exactness of locked reads, the queue holds the last messages, forward positions, both liveness properties |
| `topic_publishers` | 2 publishers, 1 subscriber, queue of 2, 3 messages each, any may die | heap accounting, room for every writer and stable locked reads under races |
| `channel` | 2 clients with 2 and 1 calls, of which one may die, 1 server that is replaced once, queue of 2, room for 2 requests and 1 response | an element has one owner, its request stays intact, every call of a live client returns |
| `copiers` | all base copiers, 1 to 3 threads, sizes 0, 1, 4, 7, 9 in vectors of 2 bytes | the whole message is visible on return; single groups stay in the buffer and are written once; loops end |

Runs that end in a violation. Each checks one claim the repository makes and shows the
interleaving that contradicts it (details under "findings" in `PROJECT.json`):

| Run | Claim | What happens |
|---|---|---|
| `shared_memory_reset` | "Reset all mutexes/locks" (`memory/memory.h:220`) | `reset` keeps the dead owner's pid; two live threads hold the lock exclusively |
| `topic_torn` | "the publisher cannot cross `elem`" (`pubsub/topic.h:188`) | a reader between Q and 3Q/2 behind reads an element under the lock of another |
| `topic_lost` | "the head is atomically incremented" (`pubsub/topic.h:89`) | two publishers write to one element |
| `channel_stale` | calls to a server on another thread return what was expected (`test/rpc_test.cpp:225`) | a request is served twice; the second response ends a later call |
| `channel_early` | "it is the only one that can access `elem`" (`rpc/channel.h:103`) | the server reads the element before it is filled in |

`shared_memory_reset` is a run of `MCSegmentLock`: 3 processes, crashes of one of them, with the allocator's lock idle or held.

Observed in the same models and recorded as hazards. In the passing runs themselves: a writer that dies on record wedges the rwlock
with glibc's outcome, one that dies off the record loses it, and two reader threads of one process race in `remove` so that a read lock
stays for ever (`README.md:20` of the repository speaks of no resource starvation); the late creator, the second reset and the full set of
`SharedMemory`. With other constants or a stronger property: with two publishers a publish may spin in `free(old_address)`; a
subscriber that dies holding an element stops all publishers; after 2^32 messages a subscriber takes all for
old (`CounterRange = 4` shows `CatchesUp` violated); calls answered out of order leave blocks in the request heap that
nobody can free; a base copier with groups of 2 or 4 under `MTCopier` writes behind its buffer,
and a prefetching one does for size 0 (`WithinBuffer` without its condition).

Why the bounds are enough. The allocator's branches depend on the order of the two
indices and on whether a payload reaches the end or the start of the ring: 8 words with
payloads of 1, 3, 4 and more words put the indices in every order; theorem
`RingInvariance` then covers every size. For the lock, three threads give a holder, one that
recovers and one that interferes with it, and two of them share a pid; two slots make the set fill up,
which the eight of the code do only with more readers; the theorems of `RobustLockProofs` cover
every number of either. For the segment, three processes give one that dies in the reset, one that repeats it and one that comes
after, or two that attach at once while a third creates; two slots make the `PIDSet` fill up, which its 32 do only with more processes. Two
of the three may die: each property speaks of a process that lives, and processes are alike. The theorems of
`SharedMemoryProofs` cover every number of them. For the topic, 8 messages lap a
queue of 4 twice, so both paths of `read` and every reuse of an element occur; two
publishers and a queue of 2 give each publisher an element the other needs. The topic's
counter stays below `CounterRange` (64): wrapping is not part of what the passing runs show.
`MaxMessages` bounds how many messages a publisher writes; a refused write does not count.
For the channel, two clients share positions and meet in both elements, and the server goes
round often enough to serve a request twice; `MaxCalls` bounds the calls of a client and
`MaxRestarts` those of the server's deaths. For the copiers, the sizes leave every rest of a group of 4 vectors
and of 3 threads; `CountRange` (64) and `Mapped` (24 vectors) are above every correct count, so that only a count that
wraps reaches them.

The passing runs reach from 130 thousand (`copiers`) to 3.8 million (`topic_publishers`) distinct states, none in more than about
three minutes with two workers.

Deadlock checking is off for the lock, for `shared_memory` and `shared_memory_reset`, as processes may have died or be ready,
for the topic, as publishers stop after `MaxMessages`, and for the channel, whose clients stop
after `MaxCalls`; the allocator and the copiers always have a step.

## 4. Fairness

`RobustLock!FairSpec` is weak fairness of the steps of each live thread: the
kernel keeps running a thread inside an operation, and a holder gives its lock back.
Nothing is assumed of when operations are called or whether processes die.
`SharedMemory!FairSpec` is weak fairness of each live thread inside the constructor of its `Memory`: the kernel keeps
running it, and it does not wait for anything but the lock. Nobody has to create, open or use the segment.
`Topic!FairSpec` is weak fairness of `Write` (a call of `publish` runs on, retrying `free` in a
loop) and of `Read` (`spin` polls for ever); a new `publish` is never assumed.
Weak fairness is enough for acquiring an element's lock because `topic` has a
single reader; with several, the rwlock itself would need a stronger promise.
`Channel!FairSpec` is weak fairness of the server, which runs `serve`, and of a client inside a
call, and strong fairness of a client's steps that take a mutex: the server takes and releases
it time and again, and the kernel does not pass over a waiting thread for ever. Steps of a dead
client are disabled; a new server after a death is assumed, because `serve` is what `Restart` resumes.
`Copiers!FairSpec` is weak fairness of the threads of a copy, the processor's stores and the join.

## 5. What is proved

All theorems hold for every value of the constants that the `ASSUME` of the module admits; TLC
evaluates that assumption in each run.

### Allocator

`AllocatorProofs` proves for `Allocator!Spec`:

- `RingInvariance`: `RingInv` is invariant;
- `TypeCorrectness`, `Disjointness`, `Containment`, `NoAssertFails`: `TypeOK`, `BlocksDisjoint`,
  `BlockHoldsRequest` and `AssertsHold`;
- `GuardIsGenerous`: `GuardRefusesNothing`;
- `EmptyHeapServes`: `EmptyServesHalf`, for heaps of more than three words (in three words the margin of two words
  that `alloc` keeps refuses a request of one full word);
- `OldestIsFreeable`: `OldestFreeable`, when the only alignment is 1; with a larger one `free` compares an aligned
  pointer with an unaligned address and refuses. It needs the invariant `Unaligned` besides `RingInv`;
- `Refinement`: the ring implements `FifoAllocator`.

Assumption (`AllocatorAssumption`): at least two words; requests and alignments are
such that `bytes + alignment` does not wrap at 2^32. The code
justifies it: callers first compare the size with `get_free_memory`, which is at most the
heap, and pass the default alignment 1.

Argument. That `alloc` does not run into a block it has never heard of is not visible in its
two indices, so `BlocksDisjoint` is not inductive. `RingInv` adds that blocks follow each
other round the ring. `Distance(f, x)` is how far `x` lies ahead of `f`; `Extent(b)` is
what a block uses up, skipped words at the end included. `Chained` says that measured from
`free_index_` each block ends before the next begins and the last before
`alloc_index_`. An allocation appends at the far end and `Fits` keeps it from
closing the ring; a free drops the first block and shifts all distances by its extent, which
it can only do right if the header is intact (`HeadersIntact`), and headers are intact
because what callers write lies in their payloads (`WellFormed`). Disjointness follows from
`Chained`, since words of two blocks have disjoint ranges of distances.

### RobustLock

`RobustLockProofs` proves for `RobustLock!Spec`, with any number of processes, threads per process and
slots, crashes anywhere, and either outcome each time a rwlock is unlocked for somebody else: `TypeCorrect` (`TypeOK`),
`ExclusiveIsExclusive` (`MutualExclusion`), `OwnersAreInside` (`OwnerIsInside`), `ReadersAreAccounted` (`ReadersAccounted`) and
`HoldsAreNotTaken` (`HoldIsNotTaken`). There is no premise; the threads are finitely many.

Argument. The invariant `LockInv` has three parts besides `TypeOK`. `PlacesInv` says what a thread has
loaded at each place; in particular that a pid it took for dead is dead, which stays so. `WriterInv`
ties the rwlock's writer to the one thread that `Writes`, to `exclusive_owner`, and to the one
thread at `release`: having swapped a dead owner's pid for 0, that thread is alone to release for
him, and meanwhile the writer stays the dead thread. This is why recovery never hits a live
writer: at `release` the record is empty and a dead thread is inside, and a live writer's record would be
its own. `ReadersInv` counts: each reader of the rwlock is a pid in the set, a thread on the way
into or out of it, or a waiter about to give it back (`Counted`), and while there is one there is no writer. The other outcome of
`Release` happens with no readers at all and leads to `Hangs`: the count is -1, the dead writer stays and is off the record, so no
thread gets in, nobody releases again, and this stays so. That is what makes the invariant hold with either library.
Two threads of one process may share a pid, so a live process is only known to be in the set at least as often as it has readers;
that is what excludes a writer while a live reader is inside. A pid that stays in the set after its reader has left counts as a
read lock that stays, which `ReadersAccounted` allows and `WaitersGetIn` names (`PidLeft`).

### Topic

`TopicProofs` proves for `Topic!Spec`, with any number of publishers and subscribers, any of which may die:
`TypeCorrect` (`TypeOK`), `BlocksAccounted` (`HeapAccounted`), `LockedReadsAreStable`
(`LockedReadStable`) and `WritersFindRoom` (`WriterFindsRoom`).

Argument. `TopicInv`: writers of an element exclude each other (`WritersInv`), an element that is not being
written holds the message it tells of (`ElementsInv`), a reader excludes the writers of the element it has
locked, so what it took from there is still there (`ReadersInv`), and the blocks in use are exactly those of the elements and
those in publishers' hands, each of them once (`BlocksInv`). `WriterFindsRoom` is then a count: an
injection from the blocks in use to elements and publishers, of whom the writer itself has none.

`SinglePublisherProofs` proves what holds as long as there is one publisher and the counter does not wrap
(`MaxMessages < CounterRange`), with any number of subscribers, any queue and heap, and whoever dies:
`LockedReadsAreExact` (`LockedReadExact`), `LastMessagesAreHeld` (`QueueHoldsLast`) and `SubscribersSkipForward`
(`SkipsForward`). With two publishers a message can overwrite another that was written to the same position, and after a wrap
`counter > pos` is no longer the order of the messages.

Argument. `OrderInv` adds to `TopicInv` that the counter counts the publisher's messages and that element `q` holds
the last of them whose number has the remainder `q` (`QueueInv`): so the elements tell the numbers of the
last `QueueSize` messages apart (`SameRest`). Where a subscriber goes on, be it at its position or
after a jump, is below the counter and less than a queue behind it (`FreshFacts`), so the element it locates holds the message of that
position (`MessageFound`), which is also why the last messages are all there; by `TopicInv` it goes on doing so while the lock is held, and what has been copied is that
message (`PositionInv`). On the slow path, where another element than the locked one is read, nothing keeps the
message there, and the theorem says nothing (`NoTornRead` fails there).

### Channel

`ChannelProofs` proves for `Channel!Spec`, with any number of clients that may die and a server that may be replaced:
`TypeCorrect` (`TypeOK`), `ElementsClaimedByOne` (`ClaimedByOne`) and `RequestsStayIntact` (`RequestIntact`).

Argument. `ChannelInv`: an element that is not empty has exactly one client inside, and an empty one has none and no
request (`ElementsInv`); a client with a block has one that is in use, holds its message, and is nobody
else's, and what the element says of handle and size is what its client has stored so far (`RequestsInv`). `clean_up`
frees only the block of the client that leaves, whatever the server does with old
requests, because the server stores nothing in requests.

### SharedMemory

`SharedMemoryProofs` proves for `SharedMemory!Spec`, with any number of processes and threads, slots and deaths, and either outcome of
the unlock for the dead: `TypeCorrect` (`TypeOK`), `ResetsAreExclusive` (`ResetsExclude`), `TheLivingAreSpared` (`NoResetOfKnown`),
`UsersAreOnRecord` (`UsersOnRecord`) and `NothingIsLeftOver` (`NoLeftovers`). The only assumptions are those of the constants
(finitely many threads, a slot at least); nothing is assumed of the creator's speed or life or of how processes attach. The
exceptions are in the properties themselves.

Argument. `Core` says where each thread is in the lock of the `PIDSet` (`PlacesInv`), that there is one creator and nothing before it
(`CreatorInv`), and that the lock satisfies `LockInv` of `RobustLockProofs`, unless `late`: the module instantiates that one, maps each of
its own steps to a step of the lock or none, and cites the lemmas. A thread in `any_alive` or the reset is at `held`, so
`ResetsExclude` is the lock's mutual exclusion. `KnownInv`: the live pids that were on record when a thread took the lock are, as long as it has seen
nobody, in slots ahead of it. This needs no exclusion: whatever other threads remove is dead and what they insert goes into free slots.
`RecordInv` is about `insert` without the lock. It speaks of a map `W` from threads to the slot each has written to: a slot in use shows
the pid of a thread that has written to it, and a slot that a thread has passed has been written to by another. A thread that comes
past the last slot has then been preceded by as many others as there are slots, by counting (the last step of `UsersAreOnRecord`).
`LeftInv`: while something is left over nobody is inside, and whoever has the lock has seen nobody and has not yet reset that
part; so the unlock finds nothing left, and a thread that dies in the reset leaves the rest to the next.

### Copiers

`CopiersProofs` proves for `Copiers!Spec`, with messages and vectors of any size and any number of threads:
`CopiesAreComplete` (`CopyComplete`), `PartsAreDisjoint` (`PartsDisjoint`) and `CopiesStayInside`
(`WithinBuffer`). Assumption: a size is at least four below 2^64, so that rounding up does not wrap.

Argument. Rounding up is the least number of units that is enough (`RoundUp`), from which all
the arithmetic follows: the parts of `MTCopier` follow each other from the first vector to the last
(`StartFacts`) and each vector is in one (`PartsCover`, which names the thread). `CopyInv` says that a thread has
written exactly from its first vector to the next one and that the count left is a multiple of its
groups; so the count reaches zero, or one group for those with a tail, and does not pass it.

### What is only model-checked

`LockInv`, `TopicInv`, `OrderInv`, `ChannelInv`, `CopyInv` and the `Inv` of `SharedMemoryProofs` are the inductive
invariants; the runs check what follows from them, and `RingInv` itself. All liveness (`WaitersGetIn`, `InsertEnds`, `AttachEnds` and
those of `Topic`, `Channel` and `Copiers`): the provers have no fairness reasoning with `ENABLED`. Every invariant and action property of the
passing runs is proved, those of `Topic` with the premise of one publisher where they need it.

## 6. Plan

The plan was: first the heap every message passes through, then the lock that guards it, publishing, remote
calls, the composition of segment and lock, and the copiers; then proofs in the same order. It is done but for
what section 5 lists as only model-checked and section 7 as left out. What would come
next: `Topic` and `Channel` inside a segment of `SharedMemory`, several servers on one channel, a mutex that dies locked, and proofs
about `SegmentLock`: exclusion up to the first reset with a dead process on the lock's record.

## 7. Not modelled, and why

- A channel's mutex after the death of its owner (`concurrency/lock.h:69`): `EOWNERDEAD` is looked for in `errno`, so the mutex is
  never made consistent and excludes nobody from then on; every access of the critical sections would be a step.
- `Server::stop` and several servers on one channel; the model's server serves for ever.
- `alloc` with an alignment and then `free` of the aligned pointer (`memory/allocator.h:184`), which `free` refuses, and requests
  whose size wraps (`memory/allocator.h:121`): no caller in the library does either.
- Pid reuse (`concurrency/robust_lock.h:76`): the code cannot notice it; the model's processes die once.
- SIMD copiers that round a message up past the payload `alloc` gave it (`pubsub/topic.h:116`): `Copiers` checks them
  against the buffers that copiers allocate themselves.
- `stats.h`: floating-point averages for benchmarks.
- `release/shadesmar.h` and `simul/simul.py`: the former is generated from `include/` by the latter.
- Tests, benchmarks and the vendored Catch header (`catch.hpp`, four fifths of the lines of the repository's sources).
