------------------------ MODULE SinglePublisherProofs ------------------------
(***************************************************************************)
(* Proofs about Topic with a single publisher, which is when the queue     *)
(* keeps the order of the messages: with any number of subscribers, any    *)
(* queue and any heap, as long as the counter does not wrap.               *)
(***************************************************************************)
EXTENDS TopicProofs

-----------------------------------------------------------------------------
(* The inductive invariant, which adds to TopicInv what is where.          *)

(* How many messages the publisher has put into the queue: the counter is  *)
(* incremented after the element has been unlocked.                        *)
Stored(p) == counter + IF pub[p].pc \in {"free", "inc"} THEN 1 ELSE 0

(* The counter counts the messages of the publisher, which writes them to  *)
(* the elements in turn; each element holds the last message that was for  *)
(* it.                                                                     *)
QueueInv(p) ==
  /\ counter = sent[p]
  /\ pub[p].pc # "idle" => pub[p].slot = counter % QueueSize
  /\ pub[p].pc \in {"lock", "handle", "size"} => memory[pub[p].new].n = counter
  /\ \A q \in Slots :
       /\ ~ elements[q].empty <=> q < Stored(p)
       /\ ~ elements[q].empty =>
            /\ elements[q].size.n \in Nat
            /\ elements[q].size.n % QueueSize = q
            /\ Stored(p) - QueueSize <= elements[q].size.n
            /\ elements[q].size.n < Stored(p)

(* A subscriber is not ahead of the counter, and under the lock it has the *)
(* message it is looking for.                                              *)
PositionInv(s) ==
  /\ sub[s].pos <= counter
  /\ sub[s].pc # "idle" => sub[s].pos < counter
  /\ sub[s].pc \in {"size", "copy"} /\ sub[s].from = sub[s].held =>
       /\ elements[sub[s].held].size.n = sub[s].pos
       /\ sub[s].pc = "copy" => sub[s].part = elements[sub[s].held].size

(* What a subscriber is given.                                             *)
Given == [msg : Message \cup {NoMessage, Torn}, pos : 0 .. CounterRange - 1,
          locked : BOOLEAN]

OrderInv(p) ==
  /\ TopicInv /\ QueueInv(p)
  /\ \A s \in Subscribers : PositionInv(s)
  /\ last \in [Subscribers -> Given]
  /\ LockedReadExact

-----------------------------------------------------------------------------
(* Lemmas                                                                  *)

(* Quotient and remainder.                                                 *)
LEMMA DivMod ==
  ASSUME NEW n \in Nat, NEW d \in Nat \ {0}
  PROVE  /\ n \div d \in Nat /\ n % d \in 0 .. d - 1
         /\ n = (n \div d) * d + (n % d)
  BY Z3

(* A multiple of d is no closer than d to the next one.                    *)
LEMMA NextMultiple ==
  ASSUME NEW a \in Nat, NEW b \in Nat, NEW d \in Nat \ {0}, a < b
  PROVE  a * d + d <= b * d
  BY Z3

(* Numbers closer than d have different remainders.                        *)
LEMMA SameRest ==
  ASSUME NEW a \in Nat, NEW b \in Nat, NEW d \in Nat \ {0},
         a % d = b % d, a < b + d, b < a + d
  PROVE  a = b
<1>. DEFINE i == a \div d
            j == b \div d
            r == a % d
<1>1. /\ i \in Nat /\ j \in Nat /\ r \in 0 .. d - 1
      /\ a = i * d + r /\ b = j * d + r
  <2>1. i \in Nat /\ r \in 0 .. d - 1 /\ a = i * d + r
    BY DivMod
  <2>2. j \in Nat /\ b = j * d + (b % d)
    BY DivMod
  <2>. QED
    BY <2>1, <2>2
<1>. HIDE DEF i, j, r
<1>2. i * d \in Nat /\ j * d \in Nat
  BY <1>1
<1>3. ~ i < j
  <2>1. i < j => i * d + d <= j * d
    BY <1>1, NextMultiple
  <2>. QED
    BY <2>1, <1>1, <1>2
<1>4. ~ j < i
  <2>1. j < i => j * d + d <= i * d
    BY <1>1, NextMultiple
  <2>. QED
    BY <2>1, <1>1, <1>2
<1>. QED
  BY <1>1, <1>3, <1>4

(* A number less than d is its own remainder, and adding d does not change *)
(* the remainder.                                                          *)
LEMMA SmallRest ==
  ASSUME NEW d \in Nat \ {0}, NEW n \in 0 .. d - 1
  PROVE  n % d = n
  BY Z3

LEMMA ShiftRest ==
  ASSUME NEW d \in Nat \ {0}, NEW n \in Nat
  PROVE  (n + d) % d = n % d
<1>. DEFINE i == n \div d
            j == (n + d) \div d
            r == n % d
            t == (n + d) % d
<1>1. i \in Nat /\ r \in 0 .. d - 1 /\ n = i * d + r
  BY DivMod
<1>2. j \in Nat /\ t \in 0 .. d - 1 /\ n + d = j * d + t
  <2>1. n + d \in Nat
    OBVIOUS
  <2>. QED
    BY <2>1, DivMod
<1>. HIDE DEF i, j, r, t
<1>3. i * d \in Nat /\ j * d \in Nat /\ (i + 1) * d = i * d + d
  BY <1>1, <1>2
<1>4. ~ i + 1 < j
  <2>1. i + 1 < j => (i + 1) * d + d <= j * d
    BY <1>1, <1>2, NextMultiple
  <2>. QED
    BY <2>1, <1>1, <1>2, <1>3
<1>5. ~ j < i + 1
  <2>1. j < i + 1 => j * d + d <= (i + 1) * d
    BY <1>1, <1>2, NextMultiple
  <2>. QED
    BY <2>1, <1>1, <1>2, <1>3
<1>6. j = i + 1
  BY <1>1, <1>2, <1>4, <1>5
<1>. QED
  BY <1>1, <1>2, <1>3, <1>6 DEF r, t

LEMMA Rest ==
  ASSUME NEW d \in Nat \ {0}, NEW n \in Nat
  PROVE  n % d \in 0 .. d - 1 /\ n % d <= n
<1>1. n \div d \in Nat /\ n % d \in 0 .. d - 1 /\ n = (n \div d) * d + (n % d)
  BY DivMod
<1>2. (n \div d) * d \in Nat
  BY <1>1
<1>. QED
  BY <1>1, <1>2

(* Where a subscriber at position pos goes on.                             *)
Fresh(pos) == IF Lags(pos) THEN Jumpahead(counter) ELSE pos

(* It goes on between its position and the counter, and less than a queue  *)
(* behind the counter.                                                     *)
LEMMA FreshFacts ==
  ASSUME counter \in 0 .. CounterRange - 1, NEW pos \in Nat, pos <= counter
  PROVE  /\ Fresh(pos) \in Nat /\ pos <= Fresh(pos) /\ Fresh(pos) <= counter
         /\ pos < counter => Fresh(pos) < counter
         /\ counter - Fresh(pos) < QueueSize
<1>1. /\ QueueSize \in Nat /\ CounterRange \in Nat \ {0}
      /\ QueueSize \div 2 \in Nat /\ 0 < QueueSize \div 2 /\ QueueSize \div 2 < QueueSize
  BY TopicAssumption
<1>2. \A n \in 0 .. CounterRange - 1 : n % CounterRange = n
  BY <1>1, SmallRest
<1>3. Lags(pos) <=> counter - pos >= QueueSize
  <2>1. counter - pos \in 0 .. CounterRange - 1
    BY <1>1
  <2>. QED
    BY <2>1, <1>2 DEF Lags, Minus
<1>4. CASE Lags(pos)
  <2>. DEFINE half == QueueSize \div 2
  <2>1. half \in Nat /\ 0 < half /\ half < QueueSize
    BY <1>1
  <2>2. Jumpahead(counter) = (counter - half) % CounterRange
    BY DEF Jumpahead, Minus
  <2>. HIDE DEF half
  <2>3. counter - half \in 0 .. CounterRange - 1
    BY <1>1, <1>3, <1>4, <2>1
  <2>4. Fresh(pos) = counter - half
    BY <1>2, <1>4, <2>2, <2>3 DEF Fresh
  <2>. QED
    BY <1>1, <1>3, <1>4, <2>1, <2>4
<1>5. CASE ~ Lags(pos)
  BY <1>1, <1>3, <1>5 DEF Fresh
<1>. QED
  BY <1>4, <1>5

(* The element of a message that is less than a queue behind the counter   *)
(* holds that message.                                                     *)
LEMMA MessageFound ==
  ASSUME NEW p \in Publishers, Types, QueueInv(p),
         NEW pos \in Nat, pos < counter, counter - pos < QueueSize
  PROVE  LET q == pos % QueueSize
         IN q \in Slots /\ ~ elements[q].empty /\ elements[q].size.n = pos
<1>. DEFINE q == pos % QueueSize
            n == elements[q].size.n
            stored == Stored(p)
<1>1. QueueSize \in Nat \ {0} /\ counter \in Nat
  BY TopicAssumption DEF Types
<1>2. q \in Slots /\ q \in Nat /\ q <= pos
  <2>1. q \in 0 .. QueueSize - 1 /\ q <= pos
    BY <1>1, Rest
  <2>. QED
    BY <1>1, <2>1 DEF Slots
<1>3. stored \in Nat /\ counter <= stored /\ stored <= counter + 1
  BY <1>1 DEF Stored
<1>4. /\ ~ elements[q].empty <=> q < stored
      /\ ~ elements[q].empty =>
           n \in Nat /\ n % QueueSize = q /\ stored - QueueSize <= n /\ n < stored
  BY <1>2 DEF QueueInv
<1>. HIDE DEF n, stored
<1>5. ~ elements[q].empty
  BY <1>1, <1>2, <1>3, <1>4
<1>6. n = pos
  <2>0. n \in Nat /\ stored - QueueSize <= n /\ n < stored
    BY <1>4, <1>5
  <2>1. n < pos + QueueSize /\ pos < n + QueueSize
    BY <1>1, <1>3, <2>0
  <2>2. n \in Nat /\ n % QueueSize = pos % QueueSize
    BY <1>4, <1>5
  <2>. QED
    BY <1>1, <2>1, <2>2, SameRest
<1>. QED
  BY <1>2, <1>5, <1>6 DEF n

-----------------------------------------------------------------------------
(* The invariant is inductive                                              *)

LEMMA InitOrder ==
  ASSUME NEW p \in Publishers, Init
  PROVE  OrderInv(p)
<1>1. TopicInv
  BY InitInv
<1>2. QueueInv(p)
  BY DEF QueueInv, Init, PubIdle, Stored, Slots
<1>3. \A s \in Subscribers : PositionInv(s)
  BY DEF PositionInv, Init, SubIdle
<1>4. LockedReadExact
  BY DEF LockedReadExact, Init
<1>5. last \in [Subscribers -> Given]
  <2>1. 0 \in 0 .. CounterRange - 1
    BY TopicAssumption
  <2>. QED
    BY <2>1 DEF Init, Given
<1>. QED
  BY <1>1, <1>2, <1>3, <1>4, <1>5 DEF OrderInv

(* The subscribers keep their positions while the publisher is at work, as *)
(* long as the sizes of the elements they have locked do not change.       *)
LEMMA PositionsKept ==
  ASSUME Types, \A s \in Subscribers : PositionInv(s), LockedReadExact,
         UNCHANGED sub, UNCHANGED last, counter' \in Nat, counter <= counter',
         \A s \in Subscribers : Reading(s) =>
           elements'[sub[s].held].size = elements[sub[s].held].size
  PROVE  (\A s \in Subscribers : PositionInv(s)') /\ LockedReadExact'
<1>1. LockedReadExact'
  BY DEF LockedReadExact
<1>2. ASSUME NEW s \in Subscribers PROVE PositionInv(s)'
  <2>1. sub[s].pos \in Nat /\ counter \in Nat
    BY DEF Types, SubState
  <2>. QED
    BY <2>1 DEF PositionInv, Reading
<1>. QED
  BY <1>1, <1>2

(* A write up to the point where the element is complete, and giving back  *)
(* the old block, leave counter and sizes alone.                           *)
LEMMA EarlyStepsOrder ==
  ASSUME NEW p \in Publishers, OrderInv(p),
         \/ Begin(p) \/ AllocAndCopy(p) \/ AllocFails(p) \/ Lock(p)
         \/ StoreHandle(p) \/ FreeOld(p)
  PROVE  QueueInv(p)' /\ (\A s \in Subscribers : PositionInv(s)') /\ LockedReadExact'
<1>. USE DEF OrderInv, TopicInv
<1>1. /\ UNCHANGED counter /\ UNCHANGED sub /\ UNCHANGED sent /\ UNCHANGED last
      /\ \A q \in Slots : /\ elements'[q].empty = elements[q].empty
                          /\ elements'[q].size = elements[q].size
  <2>1. /\ UNCHANGED counter /\ UNCHANGED sub /\ UNCHANGED sent /\ UNCHANGED last
        /\ UNCHANGED elements \/ StoreHandle(p)
    BY DEF Begin, AllocAndCopy, AllocFails, Lock, StoreHandle, FreeOld
  <2>2. StoreHandle(p) => \A q \in Slots : /\ elements'[q].empty = elements[q].empty
                                          /\ elements'[q].size = elements[q].size
    BY DEF StoreHandle, Types, Element, PubState
  <2>. QED
    BY <2>1, <2>2
<1>2. (\A s \in Subscribers : PositionInv(s)') /\ LockedReadExact'
  <2>1. \A s \in Subscribers : sub[s].held \in Slots
    BY DEF Types, SubState
  <2>2. counter' \in Nat /\ counter <= counter'
    BY <1>1 DEF Types
  <2>. QED
    BY <1>1, <2>1, <2>2, PositionsKept
<1>3. /\ UNCHANGED Stored(p)
      /\ pub'[p].pc # "idle" => pub'[p].slot = counter % QueueSize
      /\ pub'[p].pc \in {"lock", "handle", "size"} => memory'[pub'[p].new].n = counter
  <2>. USE DEF PubAt, Stored, QueueInv
  <2>1. CASE Begin(p)
    <3>. DEFINE q == counter % QueueSize
    <3>1. /\ pub' = [pub EXCEPT ![p].pc = "alloc", ![p].slot = q] /\ pub[p].pc = "idle"
          /\ UNCHANGED counter
      BY <2>1 DEF Begin
    <3>. HIDE DEF q
    <3>2. pub'[p].slot = q /\ pub'[p].pc = "alloc"
      BY <3>1 DEF Types, PubState
    <3>. QED
      BY <3>1, <3>2 DEF q
  <2>2. CASE AllocAndCopy(p)
    <3>1. PICK b \in Blocks :
            /\ memory' = [memory EXCEPT ![b] = [by |-> p, n |-> sent[p]]]
            /\ pub' = [pub EXCEPT ![p].pc = "lock", ![p].new = b]
      BY <2>2 DEF AllocAndCopy
    <3>2. pub[p].pc = "alloc" /\ UNCHANGED counter
      BY <2>2 DEF AllocAndCopy
    <3>3. pub'[p].pc = "lock" /\ pub'[p].new = b /\ pub'[p].slot = pub[p].slot
      BY <3>1 DEF Types, PubState
    <3>4. memory'[b].n = sent[p]
      BY <3>1 DEF Types
    <3>. QED
      BY <3>2, <3>3, <3>4
  <2>3. CASE AllocFails(p)
    BY <2>3 DEF AllocFails, Types, PubState, PubIdle, heapVars
  <2>4. CASE Lock(p)
    BY <2>4 DEF Lock, Types, PubState, heapVars
  <2>5. CASE StoreHandle(p)
    BY <2>5 DEF StoreHandle, Types, PubState, heapVars
  <2>6. CASE FreeOld(p)
    BY <2>6 DEF FreeOld, Types, PubState
  <2>. QED
    BY <2>1, <2>2, <2>3, <2>4, <2>5, <2>6
<1>4. QueueInv(p)'
  BY <1>1, <1>3 DEF QueueInv
<1>. QED
  BY <1>2, <1>4

(* The message is in its element: it takes the place of the one that was   *)
(* a whole queue before it.                                                *)
LEMMA StoreSizeOrder ==
  ASSUME NEW p \in Publishers, OrderInv(p), StoreSize(p)
  PROVE  QueueInv(p)' /\ (\A s \in Subscribers : PositionInv(s)') /\ LockedReadExact'
<1>. USE DEF OrderInv, TopicInv
<1>. DEFINE q == pub[p].slot
<1>1. /\ pub[p].pc = "size" /\ q \in Slots /\ q = counter % QueueSize
      /\ memory[pub[p].new].n = counter /\ counter = sent[p]
      /\ elements' = [elements EXCEPT ![q].size = memory[pub[p].new], ![q].empty = FALSE]
      /\ pub' = [pub EXCEPT ![p].pc = "free"]
      /\ UNCHANGED counter /\ UNCHANGED sub /\ UNCHANGED sent /\ UNCHANGED last
  BY DEF StoreSize, PubAt, QueueInv, Types, PubState
<1>2. /\ ~ elements'[q].empty
      /\ elements'[q].size.n = counter
      /\ \A r \in Slots \ {q} : elements'[r] = elements[r]
  BY <1>1 DEF Types, Element
<1>3. /\ QueueSize \in Nat \ {0} /\ counter \in Nat
      /\ Stored(p) = counter /\ Stored(p)' = counter + 1 /\ pub'[p].pc = "free"
      /\ pub'[p].slot = q
  BY <1>1, TopicAssumption DEF Types, PubState, Stored
<1>4. q \in Nat /\ q <= counter
  <2>1. q \in 0 .. QueueSize - 1 /\ q <= counter
    BY <1>1, <1>3, Rest
  <2>. QED
    BY <1>3, <2>1
<1>5. ASSUME NEW r \in Slots
      PROVE  /\ ~ elements'[r].empty <=> r < counter + 1
             /\ ~ elements'[r].empty =>
                  /\ elements'[r].size.n \in Nat
                  /\ elements'[r].size.n % QueueSize = r
                  /\ counter + 1 - QueueSize <= elements'[r].size.n
                  /\ elements'[r].size.n < counter + 1
  <2>1. CASE r = q
    <3>1. counter + 1 - QueueSize <= counter /\ counter < counter + 1 /\ q < counter + 1
      BY <1>3, <1>4
    <3>. QED
      BY <2>1, <3>1, <1>1, <1>2, <1>3
  <2>2. CASE r # q
    <3>. DEFINE n == elements[r].size.n
    <3>1. /\ ~ elements[r].empty <=> r < counter
          /\ ~ elements[r].empty => /\ n \in Nat /\ n % QueueSize = r
                                    /\ counter - QueueSize <= n /\ n < counter
      BY <1>3 DEF QueueInv
    <3>2. elements'[r] = elements[r]
      BY <1>2, <2>2
    <3>3. r \in Nat /\ r < QueueSize
      BY <1>3 DEF Slots
    <3>4. r # counter
      <4>1. counter < QueueSize => counter % QueueSize = counter
        BY <1>3, SmallRest
      <4>. QED
        BY <4>1, <3>3, <1>1, <2>2
    <3>5. ASSUME ~ elements[r].empty PROVE n # counter - QueueSize
      <4>1. n \in Nat /\ n % QueueSize = r
        BY <3>1, <3>5
      <4>. HIDE DEF n
      <4>2. SUFFICES ASSUME n = counter - QueueSize PROVE FALSE
        OBVIOUS
      <4>3. n + QueueSize = counter
        BY <4>2, <1>3
      <4>4. counter % QueueSize = r
        BY <4>1, <4>3, <1>3, ShiftRest
      <4>. QED
        BY <4>4, <1>1, <2>2
    <3>. HIDE DEF n
    <3>6. ~ elements[r].empty <=> r < counter + 1
      BY <3>1, <3>3, <3>4, <1>3
    <3>7. ~ elements[r].empty => counter + 1 - QueueSize <= n /\ n < counter + 1
      BY <3>1, <3>5, <1>3
    <3>. QED
      BY <3>1, <3>2, <3>6, <3>7 DEF n
  <2>. QED
    BY <2>1, <2>2
<1>6. QueueInv(p)'
  <2>1. counter' = sent'[p] /\ pub'[p].slot = counter' % QueueSize
    BY <1>1, <1>3
  <2>. QED
    BY <1>3, <1>5, <2>1 DEF QueueInv
<1>7. \A s \in Subscribers : Reading(s) => sub[s].held \in Slots \ {q}
  BY <1>1 DEF ReadersInv, Writing, Types, SubState
<1>8. (\A s \in Subscribers : PositionInv(s)') /\ LockedReadExact'
  <2>1. counter' \in Nat /\ counter <= counter'
    BY <1>1, <1>3
  <2>. QED
    BY <1>1, <1>2, <1>7, <2>1, PositionsKept
<1>. QED
  BY <1>6, <1>8

(* The message is counted.                                                 *)
LEMMA IncCounterOrder ==
  ASSUME NEW p \in Publishers, OrderInv(p), IncCounter(p), MaxMessages < CounterRange
  PROVE  QueueInv(p)' /\ (\A s \in Subscribers : PositionInv(s)') /\ LockedReadExact'
<1>. USE DEF OrderInv, TopicInv
<1>1. /\ pub[p].pc = "inc" /\ counter = sent[p]
      /\ counter' = (counter + 1) % CounterRange
      /\ sent' = [sent EXCEPT ![p] = @ + 1]
      /\ pub' = [pub EXCEPT ![p] = PubIdle]
      /\ UNCHANGED elements /\ UNCHANGED memory /\ UNCHANGED sub /\ UNCHANGED last
  BY DEF IncCounter, PubAt, QueueInv, heapVars
<1>2. counter \in Nat /\ counter' = counter + 1
  <2>1. sent[p] \in 0 .. MaxMessages /\ sent[p] < MaxMessages
    BY <1>1 DEF Types
  <2>2. MaxMessages \in Nat /\ CounterRange \in Nat \ {0}
    BY TopicAssumption
  <2>3. counter + 1 \in 0 .. CounterRange - 1 /\ counter \in Nat
    BY <1>1, <2>1, <2>2
  <2>. QED
    BY <1>1, <2>2, <2>3, SmallRest
<1>3. /\ Stored(p) = counter + 1 /\ Stored(p)' = counter + 1
      /\ pub'[p].pc = "idle" /\ sent'[p] = counter + 1
  BY <1>1, <1>2 DEF Stored, PubIdle, Types
<1>4. QueueInv(p)'
  BY <1>1, <1>2, <1>3 DEF QueueInv
<1>5. (\A s \in Subscribers : PositionInv(s)') /\ LockedReadExact'
  BY <1>1, <1>2, PositionsKept
<1>. QED
  BY <1>4, <1>5

(* What a step of a subscriber does to its position, and what it takes     *)
(* from the element it has locked.                                         *)
LEMMA ReadSteps ==
  ASSUME NEW p \in Publishers, OrderInv(p), NEW s \in Subscribers, Read(s)
  PROVE  /\ \A r \in Subscribers \ {s} : sub'[r] = sub[r] /\ last'[r] = last[r]
         /\ sub[s].pos <= sub'[s].pos
         /\ PositionInv(s)'
         /\ last' \in [Subscribers -> Given]
         /\ last'[s].locked => last'[s] = last[s] \/ last'[s].msg.n = last'[s].pos
<1>. USE DEF OrderInv, TopicInv, SubAt
<1>1. UNCHANGED counter /\ UNCHANGED elements /\ UNCHANGED memory
  BY DEF Read, Poll, LockShared, Locate, ReadSize, Deliver, heapVars
<1>2. /\ counter \in 0 .. CounterRange - 1 /\ counter \in Nat
      /\ sub[s].pos \in Nat /\ sub[s].pos <= counter
      /\ sub[s].pc # "idle" => sub[s].pos < counter
      /\ QueueSize \in Nat \ {0} /\ CounterRange \in Nat \ {0}
  BY TopicAssumption DEF Types, SubState, PositionInv
<1>. DEFINE pos == Fresh(sub[s].pos)
<1>3. /\ pos \in Nat /\ sub[s].pos <= pos /\ pos <= counter
      /\ sub[s].pos < counter => pos < counter
      /\ counter - pos < QueueSize
  BY <1>2, FreshFacts
<1>4. pos = IF Lags(sub[s].pos) THEN Jumpahead(counter) ELSE sub[s].pos
  BY DEF Fresh
<1>. HIDE DEF pos
<1>5. CASE Poll(s)
  <2>1. /\ sub' = [sub EXCEPT ![s].pc = "lock", ![s].pos = pos] /\ UNCHANGED last
        /\ counter > sub[s].pos
    BY <1>4, <1>5 DEF Poll
  <2>2. /\ \A r \in Subscribers \ {s} : sub'[r] = sub[r]
        /\ sub'[s].pc = "lock" /\ sub'[s].pos = pos
    BY <2>1 DEF Types, SubState
  <2>3. pos < counter
    BY <1>2, <1>3, <2>1
  <2>. QED
    BY <1>1, <1>2, <1>3, <2>1, <2>2, <2>3 DEF PositionInv
<1>6. CASE LockShared(s)
  <2>. DEFINE q == sub[s].pos % QueueSize
  <2>1. /\ sub' = [sub EXCEPT ![s].pc = "lag", ![s].held = q] /\ UNCHANGED last
        /\ sub[s].pc = "lock"
    BY <1>6 DEF LockShared
  <2>. HIDE DEF q
  <2>2. /\ \A r \in Subscribers \ {s} : sub'[r] = sub[r]
        /\ sub'[s].pc = "lag" /\ sub'[s].pos = sub[s].pos
    BY <2>1 DEF Types, SubState
  <2>3. sub[s].pos < counter
    BY <1>2, <2>1
  <2>4. PositionInv(s)'
    BY <1>1, <1>2, <2>2, <2>3 DEF PositionInv
  <2>5. /\ last' \in [Subscribers -> Given] /\ last'[s] = last[s]
        /\ \A r \in Subscribers \ {s} : last'[r] = last[r]
    BY <2>1
  <2>6. sub[s].pos <= sub'[s].pos
    BY <1>2, <2>2
  <2>. QED
    BY <2>2, <2>4, <2>5, <2>6
<1>7. CASE Locate(s)
  <2>. DEFINE q == pos % QueueSize
  <2>1. /\ sub[s].pc = "lag" /\ UNCHANGED last
        /\ \/ sub' = [sub EXCEPT ![s] = SubIdle(pos)]
           \/ sub' = [sub EXCEPT ![s].pc = "size", ![s].pos = pos, ![s].from = q,
                                 ![s].block = elements[q].address_handle]
    BY <1>4, <1>7 DEF Locate
  <2>2. q \in Slots /\ elements[q].size.n = pos
    BY <1>2, <1>3, <2>1, MessageFound
  <2>. HIDE DEF q
  <2>3. /\ \A r \in Subscribers \ {s} : sub'[r] = sub[r]
        /\ sub'[s].pos = pos
        /\ sub'[s].pc = "idle" \/ (sub'[s].pc = "size" /\ sub'[s].from = q)
    <3>1. CASE sub' = [sub EXCEPT ![s] = SubIdle(pos)]
      BY <3>1 DEF Types, SubIdle
    <3>2. CASE sub' = [sub EXCEPT ![s].pc = "size", ![s].pos = pos, ![s].from = q,
                                  ![s].block = elements[q].address_handle]
      BY <3>2 DEF Types, SubState
    <3>. QED
      BY <2>1, <3>1, <3>2
  <2>. QED
    BY <1>1, <1>2, <1>3, <2>1, <2>2, <2>3 DEF PositionInv
<1>8. CASE ReadSize(s)
  <2>1. /\ sub[s].pc = "size" /\ UNCHANGED last
        /\ sub' = [sub EXCEPT ![s].pc = "copy", ![s].size = elements[sub[s].from].size,
                              ![s].part = memory[sub[s].block]]
    BY <1>8 DEF ReadSize
  <2>2. /\ \A r \in Subscribers \ {s} : sub'[r] = sub[r]
        /\ sub'[s].pc = "copy" /\ sub'[s].pos = sub[s].pos
        /\ sub'[s].from = sub[s].from /\ sub'[s].held = sub[s].held
        /\ sub'[s].part = memory[sub[s].block]
    BY <2>1 DEF Types, SubState
  <2>3. sub[s].from = sub[s].held =>
          memory[sub[s].block] = elements[sub[s].held].size
    BY <2>1 DEF ReadersInv, ElementsInv, Reading, Writing, Types, SubState
  <2>4. sub[s].pos < counter
    BY <1>2, <2>1
  <2>5. sub[s].from = sub[s].held => elements[sub[s].held].size.n = sub[s].pos
    BY <2>1 DEF PositionInv
  <2>6. PositionInv(s)'
    BY <1>1, <1>2, <2>2, <2>3, <2>4, <2>5 DEF PositionInv
  <2>7. /\ last' \in [Subscribers -> Given] /\ last'[s] = last[s]
        /\ \A r \in Subscribers \ {s} : last'[r] = last[r]
    BY <2>1
  <2>8. sub[s].pos <= sub'[s].pos
    BY <1>2, <2>2
  <2>. QED
    BY <2>2, <2>6, <2>7, <2>8
<1>9. CASE Deliver(s)
  <2>. DEFINE whole == memory[sub[s].block] = sub[s].part /\ sub[s].part = sub[s].size
              given == IF whole THEN sub[s].part ELSE Torn
  <2>1. /\ sub[s].pc = "copy"
        /\ sub' = [sub EXCEPT ![s] = SubIdle((sub[s].pos + 1) % CounterRange)]
        /\ last' = [last EXCEPT ![s] = [msg |-> given, pos |-> sub[s].pos,
                                        locked |-> sub[s].from = sub[s].held]]
    BY <1>9 DEF Deliver
  <2>2. (sub[s].pos + 1) % CounterRange = sub[s].pos + 1 /\ sub[s].pos + 1 <= counter
    <3>1. sub[s].pos + 1 \in 0 .. CounterRange - 1 /\ sub[s].pos + 1 <= counter
      BY <1>2, <2>1
    <3>. QED
      BY <1>2, <3>1, SmallRest
  <2>3. sub[s].from = sub[s].held => given.n = sub[s].pos
    <3>1. sub[s].from = sub[s].held => 
            /\ memory[sub[s].block] = elements[sub[s].held].size
            /\ sub[s].size = sub[s].part
      BY <2>1 DEF ReadersInv, ElementsInv, Reading, Writing, Types, SubState
    <3>. QED
      BY <2>1, <3>1 DEF PositionInv
  <2>0. given \in Message \cup {NoMessage, Torn} /\ sub[s].pos \in 0 .. CounterRange - 1
    BY DEF Types, SubState
  <2>. HIDE DEF given
  <2>4. \A r \in Subscribers \ {s} : sub'[r] = sub[r] /\ last'[r] = last[r]
    BY <2>1 DEF Types
  <2>7. last' \in [Subscribers -> Given]
    BY <2>1, <2>0, <1>2 DEF Given
  <2>5. sub'[s] = SubIdle(sub[s].pos + 1)
    BY <2>1, <2>2 DEF Types
  <2>6. PositionInv(s)' /\ sub[s].pos <= sub'[s].pos
    BY <1>1, <1>2, <2>2, <2>5 DEF PositionInv, SubIdle
  <2>. QED
    BY <2>1, <2>3, <2>4, <2>6, <2>7
<1>. QED
  BY <1>5, <1>6, <1>7, <1>8, <1>9 DEF Read

(* A step of a subscriber.                                                 *)
LEMMA ReadOrder ==
  ASSUME NEW p \in Publishers, OrderInv(p), NEW s \in Subscribers, Read(s)
  PROVE  OrderInv(p)'
<1>1. /\ UNCHANGED counter /\ UNCHANGED elements /\ UNCHANGED memory
      /\ UNCHANGED pub /\ UNCHANGED sent
  BY DEF Read, Poll, LockShared, Locate, ReadSize, Deliver, heapVars
<1>2. TopicInv'
  BY ReadInv DEF OrderInv
<1>3. QueueInv(p)'
  BY <1>1 DEF OrderInv, QueueInv, Stored
<1>4. \A r \in Subscribers : PositionInv(r)'
  BY <1>1, ReadSteps DEF OrderInv, PositionInv
<1>5. last' \in [Subscribers -> Given] /\ LockedReadExact'
  <2>1. ASSUME NEW r \in Subscribers, last'[r].msg # NoMessage, last'[r].locked
        PROVE  last'[r].msg.n = last'[r].pos
    <3>1. last'[r] = last[r] \/ last'[r].msg.n = last'[r].pos
      BY <2>1, ReadSteps, Zenon
    <3>2. ASSUME last'[r] = last[r] PROVE last'[r].msg.n = last'[r].pos
      BY <2>1, <3>2, Zenon DEF OrderInv, LockedReadExact
    <3>. QED
      BY <3>1, <3>2
  <2>. QED
    BY <2>1, ReadSteps DEF LockedReadExact
<1>. QED
  BY <1>2, <1>3, <1>4, <1>5 DEF OrderInv

(* With one publisher and no wrap of the counter, OrderInv holds.          *)
THEOREM SinglePublisherInvariance ==
  ASSUME NEW p \in Publishers, Publishers = {p}, MaxMessages < CounterRange
  PROVE  Spec => []OrderInv(p)
<1>1. Init => OrderInv(p)
  BY InitOrder
<1>2. TopicInv' /\ OrderInv(p) /\ [Next]_vars => OrderInv(p)'
  <2>. SUFFICES ASSUME TopicInv', OrderInv(p), [Next]_vars PROVE OrderInv(p)'
    OBVIOUS
  <2>1. CASE Begin(p) \/ Write(p)
    <3>1. QueueInv(p)' /\ (\A s \in Subscribers : PositionInv(s)') /\ LockedReadExact'
      BY <2>1, EarlyStepsOrder, StoreSizeOrder, IncCounterOrder DEF Write
    <3>2. last' \in [Subscribers -> Given]
      BY <2>1 DEF OrderInv, Write, Begin, AllocAndCopy, AllocFails, Lock, StoreHandle,
                  StoreSize, FreeOld, IncCounter
    <3>. QED
      BY <3>1, <3>2 DEF OrderInv
  <2>2. ASSUME NEW s \in Subscribers, Read(s) PROVE OrderInv(p)'
    BY <2>2, ReadOrder
  <2>3. ASSUME UNCHANGED <<counter, elements, heapVars, pub, sub, sent, last>>
        PROVE  OrderInv(p)'
    BY <2>3 DEF heapVars, OrderInv, QueueInv, Stored, PositionInv, LockedReadExact
  <2>. QED
    BY <2>1, <2>2, <2>3 DEF Next, Crash, vars
<1>. QED
  BY <1>1, <1>2, Invariance, PTL DEF Spec

(* With one publisher, what a subscriber reads at position pos under the   *)
(* lock of its element is message number pos, however far the publisher    *)
(* has got in the meantime and whoever dies.                               *)
THEOREM LockedReadsAreExact ==
  ASSUME NEW p \in Publishers, Publishers = {p}, MaxMessages < CounterRange
  PROVE  Spec => []LockedReadExact
<1>1. OrderInv(p) => LockedReadExact
  BY DEF OrderInv
<1>. QED
  BY <1>1, SinglePublisherInvariance, PTL

(* With one publisher, the queue holds the last messages: each is in its   *)
(* element, with its block and its size, until the publisher begins to     *)
(* overwrite it.                                                           *)
THEOREM LastMessagesAreHeld ==
  ASSUME NEW p \in Publishers, Publishers = {p}, MaxMessages < CounterRange
  PROVE  Spec => []QueueHoldsLast
<1>1. OrderInv(p) => QueueHoldsLast
  <2>. SUFFICES ASSUME OrderInv(p), NEW pos \in 0 .. counter - 1,
                       \/ counter - pos < QueueSize
                       \/ counter - pos = QueueSize /\ \A r \in Publishers : pub[r].pc = "idle"
                PROVE  LET q == pos % QueueSize
                       IN /\ ~ elements[q].empty
                          /\ elements[q].size.n = pos
                          /\ memory[elements[q].address_handle].n = pos
    BY DEF QueueHoldsLast
  <2>. DEFINE q == pos % QueueSize
              n == elements[q].size.n
  <2>1. Types /\ QueueInv(p)
    BY DEF OrderInv, TopicInv
  <2>2. counter \in Nat /\ pos \in Nat /\ pos < counter /\ QueueSize \in Nat \ {0}
    BY <2>1, TopicAssumption DEF Types
  <2>3. q \in Slots /\ q \in Nat /\ q <= pos
    <3>1. q \in 0 .. QueueSize - 1 /\ q <= pos
      BY <2>2, Rest
    <3>. QED
      BY <2>2, <3>1 DEF Slots
  <2>4. ~ elements[q].empty /\ n = pos
    <3>1. CASE counter - pos < QueueSize
      BY <2>1, <2>2, <3>1, MessageFound
    <3>2. CASE counter - pos = QueueSize /\ pub[p].pc = "idle"
      <4>1. Stored(p) = counter
        BY <2>2, <3>2 DEF Stored
      <4>2. /\ ~ elements[q].empty <=> q < counter
            /\ ~ elements[q].empty =>
                 n \in Nat /\ n % QueueSize = q /\ counter - QueueSize <= n /\ n < counter
        BY <2>1, <2>3, <4>1 DEF QueueInv
      <4>. HIDE DEF n
      <4>3. ~ elements[q].empty
        BY <2>2, <2>3, <4>2
      <4>4. n \in Nat /\ n < pos + QueueSize /\ pos < n + QueueSize
        BY <2>2, <3>2, <4>2, <4>3
      <4>5. n % QueueSize = pos % QueueSize
        BY <4>2, <4>3
      <4>. QED
        BY <2>2, <4>3, <4>4, <4>5, SameRest
    <3>. QED
      BY <3>1, <3>2
  <2>5. \A r \in Publishers : pub[r].pc = "size" => pub[r].slot # q
    <3>1. SUFFICES ASSUME pub[p].pc = "size" PROVE pub[p].slot # q
      OBVIOUS
    <3>2. pub[p].slot = counter % QueueSize /\ counter - pos < QueueSize
      BY <2>1, <3>1 DEF QueueInv
    <3>3. counter < pos + QueueSize /\ pos < counter + QueueSize /\ counter # pos
      BY <2>2, <3>2
    <3>4. counter % QueueSize # pos % QueueSize
      BY <2>2, <3>3, SameRest
    <3>. QED
      BY <3>2, <3>4
  <2>6. memory[elements[q].address_handle] = elements[q].size
    BY <2>3, <2>4, <2>5 DEF OrderInv, TopicInv, ElementsInv
  <2>. QED
    BY <2>4, <2>6
<1>. QED
  BY <1>1, SinglePublisherInvariance, PTL

(* With one publisher, no step takes a subscriber back, or past the        *)
(* messages written.                                                       *)
THEOREM SubscribersSkipForward ==
  ASSUME NEW p \in Publishers, Publishers = {p}, MaxMessages < CounterRange
  PROVE  Spec => SkipsForward
<1>1. OrderInv(p) /\ OrderInv(p)' /\ [Next]_vars =>
        [\A s \in Subscribers : /\ sub[s].pos <= sub'[s].pos
                                /\ sub'[s].pos <= counter']_vars
  <2>. SUFFICES ASSUME OrderInv(p), OrderInv(p)', [Next]_vars, NEW s \in Subscribers
                PROVE  sub[s].pos <= sub'[s].pos /\ sub'[s].pos <= counter'
    OBVIOUS
  <2>1. sub'[s].pos <= counter'
    BY DEF OrderInv, PositionInv
  <2>2. sub[s].pos \in Nat
    BY DEF OrderInv, TopicInv, Types, SubState
  <2>3. sub[s].pos <= sub'[s].pos
    <3>1. CASE \E r \in Subscribers : Read(r)
      BY <2>2, <3>1, ReadSteps
    <3>2. CASE UNCHANGED sub
      BY <2>2, <3>2
    <3>. QED
      BY <3>1, <3>2 DEF Next, Write, Begin, AllocAndCopy, AllocFails, Lock, StoreHandle,
                        StoreSize, FreeOld, IncCounter, Crash, vars
  <2>. QED
    BY <2>1, <2>3
<1>. QED
  BY <1>1, SinglePublisherInvariance, PTL DEF Spec, SkipsForward

=============================================================================
