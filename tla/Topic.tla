------------------------------- MODULE Topic -------------------------------
(***************************************************************************)
(* Publish-subscribe over shared memory: Topic::write and Topic::read      *)
(* (include/shadesmar/pubsub/topic.h) with the publishers and subscribers  *)
(* that call them.  A topic is a circular queue of elements, each guarded  *)
(* by a pthread rwlock of its own, and a heap the messages are copied to   *)
(* (FifoAllocator stands for it).  `counter` counts the writes.            *)
(*                                                                         *)
(* A message's size tells it apart from the others, so the size field of   *)
(* an element holds the message it belongs to.  Each access to shared      *)
(* memory outside of a lock is a step.                                     *)
(***************************************************************************)
EXTENDS Integers, Sequences, FiniteSets

CONSTANTS Publishers, Subscribers,
          QueueSize,      \* QUEUE_SIZE, a power of two
          CounterRange,   \* 2^32, a multiple of QueueSize
          Blocks,         \* the messages the heap has room for
          MaxMessages,    \* bound: the messages a publisher writes
          MayCrash,       \* the publishers and subscribers that may die
          NoBlock, NoMessage, Torn

(* Publishers are no numbers, so that they and the elements of the queue   *)
(* can be told apart.                                                      *)
ASSUME TopicAssumption ==
  /\ Publishers \cap Subscribers = {} /\ Publishers \cap (0 .. QueueSize - 1) = {}
  /\ IsFiniteSet(Publishers) /\ IsFiniteSet(Blocks)
  /\ QueueSize \in Nat \ {0} /\ QueueSize % 2 = 0
  /\ CounterRange \in Nat \ {0} /\ CounterRange % QueueSize = 0
  /\ MaxMessages \in Nat
  /\ NoBlock \notin Blocks

VARIABLES counter,    \* shared_queue_->counter
          elements,   \* shared_queue_->elements[...].msg
          memory,     \* the message in each block of the heap
          live,       \* the allocator: the blocks in use, oldest first
          pub,        \* the state of each publisher
          sub,        \* the state of each subscriber
          sent,       \* history: how many messages a publisher has written
          last,       \* history: what a subscriber was given last
          alive       \* the publishers and subscribers that have not died

heapVars == <<memory, live>>
vars == <<counter, elements, heapVars, pub, sub, sent, last, alive>>

Slots == 0 .. QueueSize - 1
Message == [by : Publishers, n : 0 .. MaxMessages - 1]

(* The shared heap, which knows its blocks by name. *)
Same(b, c) == b = c
Heap == INSTANCE FifoAllocator WITH Overlap <- Same

Minus(a, b) == (a - b) % CounterRange    \* uint32_t subtraction

(* Mutant: the subscriber jumps ahead of the counter. *)
JumpaheadOvershoots(count) == Minus(count, - (QueueSize \div 2))

(* Where a subscriber that has fallen behind goes on. *)
Jumpahead(count) == Minus(count, QueueSize \div 2)

(* Mutant: being behind by the whole queue is not yet too far. *)
LagsLate(p) == Minus(counter, p) > QueueSize

(* Whether a subscriber at position p has fallen behind. *)
Lags(p) == Minus(counter, p) >= QueueSize

PubIdle == [pc |-> "idle", slot |-> 0, new |-> NoBlock, old |-> NoBlock]

(* pos is the subscriber's counter_; held the element it has locked, from  *)
(* the one it reads.                                                       *)
SubIdle(position) ==
  [pc |-> "idle", pos |-> position, held |-> 0, from |-> 0,
   block |-> NoBlock, size |-> NoMessage, part |-> NoMessage]

(* The rwlock of an element: who has it shows in their states. *)
WriteLocked(q) ==
  \E p \in Publishers : pub[p].slot = q /\ pub[p].pc \in {"handle", "size"}
ReadLocked(q) ==
  \E s \in Subscribers : sub[s].held = q /\ sub[s].pc \in {"lag", "size", "copy"}

-----------------------------------------------------------------------------
Init ==
  /\ counter = 0
  /\ elements = [q \in Slots |->
       [empty |-> TRUE, address_handle |-> NoBlock, size |-> NoMessage]]
  /\ memory = [b \in Blocks |-> NoMessage]
  /\ Heap!Init
  /\ pub = [p \in Publishers |-> PubIdle]
  /\ sub = [s \in Subscribers |-> SubIdle(0)]
  /\ sent = [p \in Publishers |-> 0]
  /\ last = [s \in Subscribers |-> [msg |-> NoMessage, pos |-> 0, locked |-> TRUE]]
  /\ alive = Publishers \cup Subscribers

(* Publisher::publish and Topic::write *)

PubAt(p, place) == p \in alive /\ pub[p].pc = place

(* The position to write to is read. *)
Begin(p) ==
  /\ PubAt(p, "idle") /\ sent[p] < MaxMessages
  /\ pub' = [pub EXCEPT ![p].pc = "alloc", ![p].slot = counter % QueueSize]
  /\ UNCHANGED <<counter, elements, heapVars, sub, sent, last, alive>>

(* A block is taken and the message copied to it. *)
AllocAndCopy(p) ==
  /\ PubAt(p, "alloc")
  /\ \E b \in Blocks :
       /\ Heap!Alloc(b)
       /\ memory' = [memory EXCEPT ![b] = [by |-> p, n |-> sent[p]]]
       /\ pub' = [pub EXCEPT ![p].pc = "lock", ![p].new = b]
  /\ UNCHANGED <<counter, elements, sub, sent, last, alive>>

(* No room, and write returns false: messages differ in size, so that one  *)
(* may be too large whatever is in the heap.                               *)
AllocFails(p) ==
  /\ PubAt(p, "alloc")
  /\ pub' = [pub EXCEPT ![p] = PubIdle]
  /\ UNCHANGED <<counter, elements, heapVars, sub, sent, last, alive>>

(* Mutant: the readers of the element are not waited for. *)
LockIgnoresReaders(p) ==
  LET q == pub[p].slot
  IN /\ PubAt(p, "lock")
     /\ ~ WriteLocked(q)
     /\ pub' = [pub EXCEPT
          ![p].pc = "handle",
          ![p].old = IF elements[q].empty THEN NoBlock ELSE elements[q].address_handle]
     /\ UNCHANGED <<counter, elements, heapVars, sub, sent, last, alive>>

(* Mutant: the old block is forgotten. *)
LockLosesOld(p) ==
  LET q == pub[p].slot
  IN /\ PubAt(p, "lock")
     /\ ~ WriteLocked(q) /\ ~ ReadLocked(q)
     /\ pub' = [pub EXCEPT ![p].pc = "handle", ![p].old = NoBlock]
     /\ UNCHANGED <<counter, elements, heapVars, sub, sent, last, alive>>

(* The element is locked and its old block taken out. *)
Lock(p) ==
  LET q == pub[p].slot
  IN /\ PubAt(p, "lock")
     /\ ~ WriteLocked(q) /\ ~ ReadLocked(q)
     /\ pub' = [pub EXCEPT
          ![p].pc = "handle",
          ![p].old = IF elements[q].empty THEN NoBlock ELSE elements[q].address_handle]
     /\ UNCHANGED <<counter, elements, heapVars, sub, sent, last, alive>>

(* Mutant: a filled element keeps the block it has. *)
StoreHandleFirstOnly(p) ==
  /\ PubAt(p, "handle")
  /\ elements' = [elements EXCEPT ![pub[p].slot].address_handle =
                    IF elements[pub[p].slot].empty THEN pub[p].new ELSE @]
  /\ pub' = [pub EXCEPT ![p].pc = "size"]
  /\ UNCHANGED <<counter, heapVars, sub, sent, last, alive>>

(* The new block goes in ... *)
StoreHandle(p) ==
  /\ PubAt(p, "handle")
  /\ elements' = [elements EXCEPT ![pub[p].slot].address_handle = pub[p].new]
  /\ pub' = [pub EXCEPT ![p].pc = "size"]
  /\ UNCHANGED <<counter, heapVars, sub, sent, last, alive>>

(* ... then its size, and the element is unlocked. *)
StoreSize(p) ==
  /\ PubAt(p, "size")
  /\ elements' = [elements EXCEPT ![pub[p].slot].size = memory[pub[p].new],
                                  ![pub[p].slot].empty = FALSE]
  /\ pub' = [pub EXCEPT ![p].pc = "free"]
  /\ UNCHANGED <<counter, heapVars, sub, sent, last, alive>>

(* Mutant: the block just written is given back. *)
FreeOldIsNew(p) ==
  /\ PubAt(p, "free")
  /\ IF pub[p].old = NoBlock THEN UNCHANGED live ELSE Heap!Free(pub[p].new)
  /\ pub' = [pub EXCEPT ![p].pc = "inc"]
  /\ UNCHANGED <<counter, elements, memory, sub, sent, last, alive>>

(* free(old_address) is tried until the allocator takes it. *)
FreeOld(p) ==
  /\ PubAt(p, "free")
  /\ IF pub[p].old = NoBlock THEN UNCHANGED live ELSE Heap!Free(pub[p].old)
  /\ pub' = [pub EXCEPT ![p].pc = "inc"]
  /\ UNCHANGED <<counter, elements, memory, sub, sent, last, alive>>

(* inc_counter(), and write returns true. *)
IncCounter(p) ==
  /\ PubAt(p, "inc")
  /\ counter' = (counter + 1) % CounterRange
  /\ sent' = [sent EXCEPT ![p] = @ + 1]
  /\ pub' = [pub EXCEPT ![p] = PubIdle]
  /\ UNCHANGED <<elements, heapVars, sub, last, alive>>

(* Subscriber::get_message, Topic::read and Subscriber::spin_once *)

SubAt(s, place) == s \in alive /\ sub[s].pc = place

(* Mutant: the newest message is left for later. *)
PollLate(s) ==
  /\ SubAt(s, "idle")
  /\ counter > sub[s].pos + 1
  /\ sub' = [sub EXCEPT
       ![s].pc = "lock",
       ![s].pos = IF Lags(@) THEN Jumpahead(counter) ELSE @]
  /\ UNCHANGED <<counter, elements, heapVars, pub, sent, last, alive>>

(* There are new messages; if too many, the subscriber jumps ahead. *)
Poll(s) ==
  /\ SubAt(s, "idle")
  /\ counter > sub[s].pos
  /\ sub' = [sub EXCEPT
       ![s].pc = "lock",
       ![s].pos = IF Lags(@) THEN Jumpahead(counter) ELSE @]
  /\ UNCHANGED <<counter, elements, heapVars, pub, sent, last, alive>>

(* The shared lock of the element at pos is taken. *)
LockShared(s) ==
  LET q == sub[s].pos % QueueSize
  IN /\ SubAt(s, "lock")
     /\ ~ WriteLocked(q)
     /\ sub' = [sub EXCEPT ![s].pc = "lag", ![s].held = q]
     /\ UNCHANGED <<counter, elements, heapVars, pub, sent, last, alive>>

(* Mutant: an element nobody has written to is read. *)
LocateReadsEmpty(s) ==
  LET pos == IF Lags(sub[s].pos) THEN Jumpahead(counter) ELSE sub[s].pos
      q == pos % QueueSize
  IN /\ SubAt(s, "lag")
     /\ sub' = [sub EXCEPT ![s].pc = "size", ![s].pos = pos, ![s].from = q,
                           ![s].block = elements[q].address_handle]
     /\ UNCHANGED <<counter, elements, heapVars, pub, sent, last, alive>>

(* Fast path: the element is read.  Slow path: pos is outdated by now, and *)
(* another element is read, the lock being on the first.  An empty element *)
(* makes read return false, and the message is tried again.                *)
Locate(s) ==
  LET pos == IF Lags(sub[s].pos) THEN Jumpahead(counter) ELSE sub[s].pos
      q == pos % QueueSize
  IN /\ SubAt(s, "lag")
     /\ \/ /\ elements[q].empty
           /\ sub' = [sub EXCEPT ![s] = SubIdle(pos)]
        \/ /\ ~ elements[q].empty
           /\ sub' = [sub EXCEPT ![s].pc = "size", ![s].pos = pos, ![s].from = q,
                                 ![s].block = elements[q].address_handle]
     /\ UNCHANGED <<counter, elements, heapVars, pub, sent, last, alive>>

(* The size is read and the copying begins ... *)
ReadSize(s) ==
  /\ SubAt(s, "size")
  /\ sub' = [sub EXCEPT ![s].pc = "copy",
                        ![s].size = elements[sub[s].from].size,
                        ![s].part = memory[sub[s].block]]
  /\ UNCHANGED <<counter, elements, heapVars, pub, sent, last, alive>>

(* ... and ends; the lock is released, the callback called, counter_++. *)
Deliver(s) ==
  /\ SubAt(s, "copy")
  /\ LET whole == memory[sub[s].block] = sub[s].part /\ sub[s].part = sub[s].size
     IN last' = [last EXCEPT ![s] =
          [msg |-> IF whole THEN sub[s].part ELSE Torn,
           pos |-> sub[s].pos, locked |-> sub[s].from = sub[s].held]]
  /\ sub' = [sub EXCEPT ![s] = SubIdle((sub[s].pos + 1) % CounterRange)]
  /\ UNCHANGED <<counter, elements, heapVars, pub, sent, alive>>

(* A process dies; the locks it has stay locked. *)
Crash(x) ==
  /\ x \in alive \cap MayCrash
  /\ alive' = alive \ {x}
  /\ UNCHANGED <<counter, elements, heapVars, pub, sub, sent, last>>

Write(p) ==
  \/ AllocAndCopy(p) \/ AllocFails(p) \/ Lock(p) \/ StoreHandle(p)
  \/ StoreSize(p) \/ FreeOld(p) \/ IncCounter(p)

Read(s) ==
  Poll(s) \/ LockShared(s) \/ Locate(s) \/ ReadSize(s) \/ Deliver(s)

Next ==
  \/ \E p \in Publishers : Begin(p) \/ Write(p)
  \/ \E s \in Subscribers : Read(s)
  \/ \E x \in MayCrash : Crash(x)

Spec == Init /\ [][Next]_vars

(* A call of publish runs on until it returns; subscribers spin. *)
FairSpec ==
  /\ Spec
  /\ \A p \in Publishers : WF_vars(Write(p))
  /\ \A s \in Subscribers : WF_vars(Read(s))

-----------------------------------------------------------------------------
(* Properties *)

TypeOK ==
  /\ counter \in 0 .. CounterRange - 1
  /\ elements \in [Slots -> [empty : BOOLEAN,
                             address_handle : Blocks \cup {NoBlock},
                             size : Message \cup {NoMessage}]]
  /\ memory \in [Blocks -> Message \cup {NoMessage}]
  /\ live \in Seq(Blocks)
  /\ \A p \in Publishers :
       /\ pub[p].pc \in {"idle", "alloc", "lock", "handle", "size", "free", "inc"}
       /\ pub[p].slot \in Slots
       /\ {pub[p].new, pub[p].old} \subseteq Blocks \cup {NoBlock}
  /\ \A s \in Subscribers :
       /\ sub[s].pc \in {"idle", "lock", "lag", "size", "copy"}
       /\ sub[s].pos \in 0 .. CounterRange - 1
       /\ {sub[s].held, sub[s].from} \subseteq Slots
       /\ sub[s].pc \in {"size", "copy"} => sub[s].block \in Blocks

(* Who a block in use belongs to: an element, or a publisher that is about *)
(* to put it into an element or has taken it out of one.                   *)
Holders(b) ==
  { q \in Slots : elements[q].address_handle = b }
  \cup { p \in Publishers : pub[p].pc \in {"lock", "handle"} /\ pub[p].new = b }
  \cup { p \in Publishers : pub[p].pc \in {"size", "free"} /\ pub[p].old = b }

(* A block in use has one owner and a free block none: no two elements     *)
(* share a block, none points to freed memory and none is lost, however    *)
(* the writes of several publishers mix and whoever dies.                  *)
HeapAccounted ==
  \A b \in Blocks :
    Cardinality(Holders(b)) = IF \E i \in DOMAIN live : live[i] = b THEN 1 ELSE 0

(* A heap with room for the queue and for one message of each publisher    *)
(* never refuses a write for what is left in it: nothing that has dropped  *)
(* out of the queue piles up behind a publisher that is slow or dead.      *)
WriterFindsRoom ==
  Cardinality(Blocks) >= QueueSize + Cardinality(Publishers) =>
    \A p \in Publishers :
      pub[p].pc = "alloc" => \E b \in Blocks : \A i \in DOMAIN live : live[i] # b

(* While a subscriber reads the element it has locked, the element keeps   *)
(* its block and the block its message.                                    *)
LockedReadStable ==
  \A s \in Subscribers :
    sub[s].pc \in {"size", "copy"} /\ sub[s].from = sub[s].held =>
      /\ elements[sub[s].from].address_handle = sub[s].block
      /\ memory[sub[s].block] = elements[sub[s].from].size
      /\ sub[s].pc = "copy" => sub[s].size = sub[s].part

(* With one publisher, what a subscriber reads at position pos under the   *)
(* lock is the message written as number pos: never an older one that was  *)
(* left in the element, never a newer one that has replaced it.            *)
LockedReadExact ==
  \A s \in Subscribers :
    last[s].msg # NoMessage /\ last[s].locked => last[s].msg.n = last[s].pos

(* A subscriber never goes back, whatever overtakes it between its looks   *)
(* at the counter, and never runs past the messages written.               *)
SkipsForward ==
  [][\A s \in Subscribers : /\ sub[s].pos <= sub'[s].pos
                            /\ sub'[s].pos <= counter']_vars

(* With one publisher, message number pos can be found in its element, the *)
(* block as well as the size, until a whole queue of messages has followed *)
(* and the publisher begins the next: also while it is in the middle of a  *)
(* write, or dies there.                                                   *)
QueueHoldsLast ==
  \A pos \in 0 .. counter - 1 :
    \/ counter - pos < QueueSize
    \/ counter - pos = QueueSize /\ \A p \in Publishers : pub[p].pc = "idle"
    => LET q == pos % QueueSize
       IN /\ ~ elements[q].empty
          /\ elements[q].size.n = pos
          /\ memory[elements[q].address_handle].n = pos

(* When no publisher is writing, as many elements are filled as there have *)
(* been messages, or all of them: each message has gone to the next one.   *)
QueueFilled ==
  (\A p \in Publishers : pub[p].pc = "idle") =>
    Cardinality({ q \in Slots : ~ elements[q].empty }) =
      IF counter < QueueSize THEN counter ELSE QueueSize

(* No subscriber is given parts of two messages. *)
NoTornRead == \A s \in Subscribers : last[s].msg # Torn

(* A call of publish returns, unless the publisher dies. *)
PublishReturns ==
  \A p \in Publishers : pub[p].pc # "idle" ~> pub[p].pc = "idle" \/ p \notin alive

(* A live subscriber catches up with the publishers when they pause. *)
CatchesUp ==
  \A s \in Subscribers :
    sub[s].pos # counter ~> sub[s].pos = counter \/ s \notin alive

=============================================================================
