----------------------------- MODULE TopicProofs -----------------------------
(***************************************************************************)
(* Proofs about Topic, for any number of publishers and subscribers, any   *)
(* queue and any heap, whoever dies.                                       *)
(***************************************************************************)
EXTENDS Topic, ListLemmas, FiniteSetTheorems, TLAPS

-----------------------------------------------------------------------------
(* The inductive invariant *)

PubState == [pc : {"idle", "alloc", "lock", "handle", "size", "free", "inc"},
             slot : Slots, new : Blocks \cup {NoBlock}, old : Blocks \cup {NoBlock}]

SubState == [pc : {"idle", "lock", "lag", "size", "copy"},
             pos : 0 .. CounterRange - 1, held : Slots, from : Slots,
             block : Blocks \cup {NoBlock},
             size : Message \cup {NoMessage}, part : Message \cup {NoMessage}]

Element == [empty : BOOLEAN, address_handle : Blocks \cup {NoBlock},
            size : Message \cup {NoMessage}]

(* The types of the variables, fields and all.                             *)
Types ==
  /\ counter \in 0 .. CounterRange - 1
  /\ elements \in [Slots -> Element]
  /\ memory \in [Blocks -> Message \cup {NoMessage}]
  /\ live \in Seq(Blocks)
  /\ pub \in [Publishers -> PubState]
  /\ sub \in [Subscribers -> SubState]
  /\ sent \in [Publishers -> 0 .. MaxMessages]
  /\ \A p \in Publishers : pub[p].pc # "idle" => sent[p] < MaxMessages

Writing(p) == pub[p].pc \in {"handle", "size"}
Reading(s) == sub[s].pc \in {"lag", "size", "copy"}

(* A publisher inside an element is alone there, and knows its blocks.     *)
WritersInv ==
  /\ \A p, r \in Publishers :
       p # r /\ Writing(p) /\ Writing(r) => pub[p].slot # pub[r].slot
  /\ \A p \in Publishers :
       /\ pub[p].pc \in {"lock", "handle", "size"} => pub[p].new \in Blocks
       /\ pub[p].pc = "handle" =>
            pub[p].old = elements[pub[p].slot].address_handle
       /\ pub[p].pc = "size" =>
            pub[p].new = elements[pub[p].slot].address_handle

(* An element that is not being written is empty and without a block, or   *)
(* has a block that holds the message the element tells of.                *)
ElementsInv ==
  \A q \in Slots :
    /\ ~ elements[q].empty => elements[q].address_handle \in Blocks
    /\ (\A p \in Publishers : pub[p].pc = "size" => pub[p].slot # q) =>
         IF elements[q].empty
         THEN elements[q].address_handle = NoBlock
         ELSE memory[elements[q].address_handle] = elements[q].size

(* Readers and writers keep out of each other's way, and what a reader has *)
(* taken from the element it has locked is still there.                    *)
ReadersInv ==
  \A s \in Subscribers :
    /\ Reading(s) =>
         \A p \in Publishers : Writing(p) => pub[p].slot # sub[s].held
    /\ sub[s].pc \in {"size", "copy"} =>
         /\ sub[s].block \in Blocks
         /\ sub[s].from = sub[s].held =>
              /\ ~ elements[sub[s].held].empty
              /\ elements[sub[s].held].address_handle = sub[s].block
              /\ sub[s].pc = "copy" => sub[s].size = sub[s].part

(* The block a publisher has in its hands. *)
InHand(p) ==
  IF pub[p].pc \in {"lock", "handle"} THEN pub[p].new
  ELSE IF pub[p].pc \in {"size", "free"} THEN pub[p].old
  ELSE NoBlock

(* Elements and publishers hold different blocks, and those are in use.    *)
BlocksInv ==
  /\ NoDuplicates(live)
  /\ \A q, r \in Slots :
       q # r /\ elements[q].address_handle \in Blocks =>
         elements[q].address_handle # elements[r].address_handle
  /\ \A p, r \in Publishers : p # r /\ InHand(p) \in Blocks => InHand(p) # InHand(r)
  /\ \A p \in Publishers, q \in Slots :
       InHand(p) \in Blocks => InHand(p) # elements[q].address_handle
  /\ \A b \in Blocks :
       Listed(b, live) <=> \/ \E q \in Slots : elements[q].address_handle = b
                           \/ \E p \in Publishers : InHand(p) = b

TopicInv == Types /\ WritersInv /\ ElementsInv /\ ReadersInv /\ BlocksInv

-----------------------------------------------------------------------------
(* Lemmas                                                                  *)

(* Positions and counters stay in their ranges.                            *)
LEMMA Ranges ==
  /\ \A n \in Int : n % QueueSize \in Slots /\ n % CounterRange \in 0 .. CounterRange - 1
  /\ \A n \in Int : Jumpahead(n) \in 0 .. CounterRange - 1
<1>1. QueueSize \in Nat \ {0} /\ CounterRange \in Nat \ {0}
  BY TopicAssumption
<1>2. ASSUME NEW n \in Int, NEW d \in Nat \ {0} PROVE n % d \in 0 .. d - 1
  BY <1>2
<1>3. \A n \in Int : n % QueueSize \in Slots /\ n % CounterRange \in 0 .. CounterRange - 1
  BY <1>1, <1>2 DEF Slots
<1>4. ASSUME NEW n \in Int PROVE Jumpahead(n) \in 0 .. CounterRange - 1
  <2>1. n - (QueueSize \div 2) \in Int
    BY <1>1
  <2>. QED
    BY <1>3, <2>1 DEF Jumpahead, Minus
<1>. QED
  BY <1>3, <1>4

-----------------------------------------------------------------------------
(* The invariant is inductive                                              *)

LEMMA InitInv == Init => TopicInv
<1>. SUFFICES ASSUME Init PROVE TopicInv
  OBVIOUS
<1>. USE DEF Init, PubIdle, SubIdle, Heap!Init
<1>1. Types
  <2>1. 0 \in Slots /\ 0 \in 0 .. CounterRange - 1 /\ 0 \in 0 .. MaxMessages
    BY TopicAssumption DEF Slots
  <2>2. live \in Seq(Blocks)
    OBVIOUS
  <2>. QED
    BY <2>1, <2>2 DEF Types, Element, PubState, SubState
<1>2. WritersInv
  BY DEF WritersInv, Writing
<1>3. ElementsInv
  BY DEF ElementsInv
<1>4. ReadersInv
  BY DEF ReadersInv, Reading
<1>5. BlocksInv
  BY TopicAssumption DEF BlocksInv, InHand, NoDuplicates, Listed
<1>. QED
  BY <1>1, <1>2, <1>3, <1>4, <1>5 DEF TopicInv

(* A publisher begins.                                                     *)
LEMMA BeginInv ==
  ASSUME TopicInv, NEW p \in Publishers, Begin(p)
  PROVE  TopicInv'
<1>. USE DEF TopicInv, Begin, PubAt, heapVars
<1>1. counter % QueueSize \in Slots
  BY Ranges DEF Types
<1>2. Types'
  BY <1>1, ZenonT(30) DEF Types, PubState
<1>3. WritersInv'
  BY DEF Types, PubState, WritersInv, Writing
<1>4. ElementsInv'
  BY DEF Types, PubState, ElementsInv
<1>5. ReadersInv'
  BY DEF Types, PubState, ReadersInv, Reading, Writing
<1>6. \A r \in Publishers : InHand(r)' = InHand(r)
  BY DEF Types, PubState, InHand
<1>7. BlocksInv'
  BY <1>6 DEF BlocksInv
<1>. QED
  BY <1>2, <1>3, <1>4, <1>5, <1>7

(* A block that is not in use becomes the publisher's.                     *)
LEMMA AllocAndCopyInv ==
  ASSUME TopicInv, NEW p \in Publishers, AllocAndCopy(p)
  PROVE  TopicInv'
<1>. USE DEF TopicInv, PubAt
<1>1. PICK b \in Blocks :
        /\ Heap!Alloc(b)
        /\ memory' = [memory EXCEPT ![b] = [by |-> p, n |-> sent[p]]]
        /\ pub' = [pub EXCEPT ![p].pc = "lock", ![p].new = b]
  BY DEF AllocAndCopy
<1>2. UNCHANGED <<counter, elements, sub, sent, last, alive>> /\ pub[p].pc = "alloc"
  BY DEF AllocAndCopy
<1>3. live' = Append(live, b) /\ ~ Listed(b, live)
  BY <1>1 DEF Heap!Alloc, Same, Listed
<1>4. /\ live' \in Seq(Blocks)
      /\ \A x : Listed(x, live)' <=> Listed(x, live) \/ x = b
      /\ NoDuplicates(live)'
  BY <1>3, AppendListed DEF Types, BlocksInv
<1>5. [by |-> p, n |-> sent[p]] \in Message
  <2>1. sent[p] \in 0 .. MaxMessages /\ sent[p] < MaxMessages
    BY <1>2 DEF Types
  <2>. QED
    BY <2>1, TopicAssumption DEF Message
<1>6. Types'
  BY <1>1, <1>2, <1>4, <1>5, ZenonT(30) DEF Types, PubState
<1>7. WritersInv'
  BY <1>1, <1>2 DEF Types, PubState, WritersInv, Writing
<1>8. \A q \in Slots : elements[q].address_handle # b
  BY <1>3 DEF BlocksInv
<1>9. ElementsInv'
  BY <1>1, <1>2, <1>8 DEF Types, PubState, Element, ElementsInv
<1>10. ReadersInv'
  BY <1>1, <1>2 DEF Types, PubState, ReadersInv, Reading, Writing
<1>11. InHand(p) = NoBlock /\ InHand(p)' = b
       /\ \A r \in Publishers \ {p} : InHand(r)' = InHand(r)
  BY <1>1, <1>2 DEF Types, PubState, InHand
<1>12. \A r \in Publishers : InHand(r) # b
  BY <1>3 DEF BlocksInv
<1>13. BlocksInv'
  BY <1>2, <1>4, <1>8, <1>11, <1>12, TopicAssumption DEF BlocksInv
<1>. QED
  BY <1>6, <1>7, <1>9, <1>10, <1>13

(* No room: the publisher gives up.                                        *)
LEMMA AllocFailsInv ==
  ASSUME TopicInv, NEW p \in Publishers, AllocFails(p)
  PROVE  TopicInv'
<1>. USE DEF TopicInv, AllocFails, PubAt, heapVars
<1>1. 0 \in Slots
  BY TopicAssumption DEF Slots
<1>2. Types'
  BY <1>1 DEF Types, PubState, PubIdle
<1>3. WritersInv'
  BY DEF Types, PubState, PubIdle, WritersInv, Writing
<1>4. ElementsInv'
  BY DEF Types, PubState, PubIdle, ElementsInv
<1>5. ReadersInv'
  BY DEF Types, PubState, PubIdle, ReadersInv, Reading, Writing
<1>6. \A r \in Publishers : InHand(r)' = InHand(r)
  BY DEF Types, PubState, PubIdle, InHand
<1>7. BlocksInv'
  BY <1>6 DEF BlocksInv
<1>. QED
  BY <1>2, <1>3, <1>4, <1>5, <1>7

(* Nobody else is inside the element the publisher locks.                  *)
LEMMA LockInv ==
  ASSUME TopicInv, NEW p \in Publishers, Lock(p)
  PROVE  TopicInv'
<1>. USE DEF TopicInv, PubAt
<1>. DEFINE q == pub[p].slot
<1>1. /\ pub[p].pc = "lock" /\ q \in Slots
      /\ pub' = [pub EXCEPT ![p].pc = "handle",
           ![p].old = IF elements[q].empty THEN NoBlock ELSE elements[q].address_handle]
      /\ UNCHANGED <<counter, elements, memory, live, sub, sent, last, alive>>
  BY DEF Lock, Types, PubState, heapVars
<1>2. \A r \in Publishers : Writing(r) => pub[r].slot # q
  BY DEF Lock, WriteLocked, Writing
<1>3. \A s \in Subscribers : Reading(s) => sub[s].held # q
  BY DEF Lock, ReadLocked, Reading
<1>4. pub' = [pub EXCEPT ![p].pc = "handle", ![p].old = elements[q].address_handle]
  <2>1. (IF elements[q].empty THEN NoBlock ELSE elements[q].address_handle)
          = elements[q].address_handle
    BY <1>1, <1>2 DEF ElementsInv, Writing
  <2>. QED
    BY <1>1, <2>1
<1>5. Types'
  <2>1. elements[q].address_handle \in Blocks \cup {NoBlock}
    BY <1>1 DEF Types, Element
  <2>. HIDE DEF q
  <2>2. pub' \in [Publishers -> PubState]
    BY <1>4, <2>1, ZenonT(30) DEF Types, PubState
  <2>. QED
    BY <1>1, <1>4, <2>2 DEF Types, PubState
<1>6. WritersInv'
  BY <1>1, <1>2, <1>4 DEF Types, PubState, WritersInv, Writing
<1>7. ElementsInv'
  BY <1>1 DEF Types, PubState, ElementsInv
<1>8. ReadersInv'
  BY <1>1, <1>3 DEF Types, PubState, ReadersInv, Reading, Writing
<1>9. \A r \in Publishers : InHand(r)' = InHand(r)
  BY <1>1 DEF Types, PubState, InHand
<1>10. BlocksInv'
  BY <1>1, <1>9 DEF BlocksInv
<1>. QED
  BY <1>5, <1>6, <1>7, <1>8, <1>10

(* The publisher and the element exchange their blocks.                    *)
LEMMA StoreHandleInv ==
  ASSUME TopicInv, NEW p \in Publishers, StoreHandle(p)
  PROVE  TopicInv'
<1>. USE DEF TopicInv, PubAt
<1>. DEFINE q == pub[p].slot
<1>1. /\ pub[p].pc = "handle" /\ q \in Slots /\ pub[p].new \in Blocks
      /\ pub[p].old = elements[q].address_handle
      /\ elements' = [elements EXCEPT ![q].address_handle = pub[p].new]
      /\ pub' = [pub EXCEPT ![p].pc = "size"]
      /\ UNCHANGED <<counter, memory, live, sub, sent, last, alive>>
  BY DEF StoreHandle, Types, PubState, heapVars, WritersInv
<1>2. Types'
  BY <1>1, ZenonT(30) DEF Types, PubState, Element
<1>3. WritersInv'
  BY <1>1 DEF Types, PubState, Element, WritersInv, Writing
<1>4. ElementsInv'
  BY <1>1 DEF Types, PubState, Element, ElementsInv
<1>5. \A s \in Subscribers : Reading(s) => sub[s].held # q
  BY <1>1 DEF ReadersInv, Writing
<1>6. ReadersInv'
  BY <1>1, <1>5 DEF Types, PubState, SubState, Element, ReadersInv, Reading, Writing
<1>7. /\ elements'[q].address_handle = InHand(p)
      /\ InHand(p)' = elements[q].address_handle
      /\ \A r \in Slots \ {q} : elements'[r].address_handle = elements[r].address_handle
      /\ \A r \in Publishers \ {p} : InHand(r)' = InHand(r)
  BY <1>1 DEF Types, PubState, Element, InHand
<1>8. BlocksInv'
  BY <1>1, <1>7 DEF BlocksInv, Listed, NoDuplicates
<1>. QED
  BY <1>2, <1>3, <1>4, <1>6, <1>8

(* The element is complete.                                                *)
LEMMA StoreSizeInv ==
  ASSUME TopicInv, NEW p \in Publishers, StoreSize(p)
  PROVE  TopicInv'
<1>. USE DEF TopicInv, PubAt
<1>. DEFINE q == pub[p].slot
<1>1. /\ pub[p].pc = "size" /\ q \in Slots /\ pub[p].new \in Blocks
      /\ pub[p].new = elements[q].address_handle
      /\ elements' = [elements EXCEPT ![q].size = memory[pub[p].new], ![q].empty = FALSE]
      /\ pub' = [pub EXCEPT ![p].pc = "free"]
      /\ UNCHANGED <<counter, memory, live, sub, sent, last, alive>>
  BY DEF StoreSize, Types, PubState, heapVars, WritersInv
<1>2. Types'
  <2>1. memory[pub[p].new] \in Message \cup {NoMessage}
    BY <1>1 DEF Types
  <2>2. elements' \in [Slots -> Element]
    BY <1>1, <2>1 DEF Types, Element
  <2>3. pub' \in [Publishers -> PubState]
    BY <1>1 DEF Types, PubState
  <2>. QED
    BY <1>1, <2>2, <2>3 DEF Types
<1>3. WritersInv'
  BY <1>1 DEF Types, PubState, Element, WritersInv, Writing
<1>4. \A r \in Publishers \ {p} : pub[r].pc = "size" => pub[r].slot # q
  BY <1>1 DEF WritersInv, Writing
<1>5. ElementsInv'
  <2>1. /\ ~ elements'[q].empty
        /\ elements'[q].address_handle = pub[p].new
        /\ elements'[q].size = memory'[pub[p].new]
    BY <1>1 DEF Types, Element
  <2>2. ASSUME NEW r \in Slots \ {q}
        PROVE  /\ elements'[r] = elements[r]
               /\ (\A x \in Publishers : pub'[x].pc = "size" => pub'[x].slot # r)
                  => \A x \in Publishers : pub[x].pc = "size" => pub[x].slot # r
    BY <1>1, <2>2 DEF Types, PubState
  <2>3. pub[p].new \in Blocks /\ UNCHANGED memory
    BY <1>1
  <2>4. ASSUME NEW r \in Slots
        PROVE  /\ ~ elements'[r].empty => elements'[r].address_handle \in Blocks
               /\ (\A x \in Publishers : pub'[x].pc = "size" => pub'[x].slot # r) =>
                    IF elements'[r].empty
                    THEN elements'[r].address_handle = NoBlock
                    ELSE memory'[elements'[r].address_handle] = elements'[r].size
    <3>1. CASE r = q
      BY <3>1, <2>1, <2>3
    <3>2. CASE r # q
      BY <3>2, <2>2, <2>3 DEF ElementsInv
    <3>. QED
      BY <3>1, <3>2
  <2>. QED
    BY <2>4 DEF ElementsInv
<1>6. \A s \in Subscribers : Reading(s) => sub[s].held # q
  BY <1>1 DEF ReadersInv, Writing
<1>7. ReadersInv'
  BY <1>1, <1>6, ZenonT(30) DEF Types, PubState, SubState, Element, ReadersInv, Reading, Writing
<1>8. /\ \A r \in Slots : elements'[r].address_handle = elements[r].address_handle
      /\ \A r \in Publishers : InHand(r)' = InHand(r)
  BY <1>1 DEF Types, PubState, Element, InHand
<1>9. BlocksInv'
  <2>1. NoDuplicates(live)' /\ \A b \in Blocks : Listed(b, live)' <=> Listed(b, live)
    BY <1>1 DEF BlocksInv, NoDuplicates, Listed
  <2>. QED
    BY <1>8, <2>1 DEF BlocksInv
<1>. QED
  BY <1>2, <1>3, <1>5, <1>7, <1>9

(* The block the publisher has taken out of the element is given back.     *)
LEMMA FreeOldInv ==
  ASSUME TopicInv, NEW p \in Publishers, FreeOld(p)
  PROVE  TopicInv'
<1>. USE DEF TopicInv, PubAt
<1>1. /\ pub[p].pc = "free"
      /\ pub' = [pub EXCEPT ![p].pc = "inc"]
      /\ UNCHANGED <<counter, elements, memory, sub, sent, last, alive>>
  BY DEF FreeOld
<1>2. /\ InHand(p) = pub[p].old /\ InHand(p)' = NoBlock
      /\ \A r \in Publishers \ {p} : InHand(r)' = InHand(r)
  BY <1>1 DEF Types, PubState, InHand
<1>3. /\ live' \in Seq(Blocks) /\ NoDuplicates(live)'
      /\ \A b \in Blocks : Listed(b, live)' <=> Listed(b, live) /\ b # pub[p].old
  <2>1. CASE pub[p].old = NoBlock
    BY <2>1, TopicAssumption DEF FreeOld, Types, BlocksInv, NoDuplicates, Listed
  <2>2. CASE pub[p].old # NoBlock
    <3>1. live # <<>> /\ pub[p].old = Head(live) /\ live' = Tail(live)
      BY <2>2 DEF FreeOld, Heap!Free
    <3>. QED
      BY <3>1, TailListed DEF Types, BlocksInv
  <2>. QED
    BY <2>1, <2>2
<1>4. Types'
  BY <1>1, <1>3 DEF Types, PubState
<1>5. WritersInv'
  BY <1>1 DEF Types, PubState, WritersInv, Writing
<1>6. ElementsInv'
  BY <1>1 DEF Types, PubState, ElementsInv
<1>7. ReadersInv'
  BY <1>1 DEF Types, PubState, ReadersInv, Reading, Writing
<1>8. BlocksInv'
  BY <1>1, <1>2, <1>3, TopicAssumption DEF BlocksInv
<1>. QED
  BY <1>4, <1>5, <1>6, <1>7, <1>8

(* The write is counted.                                                   *)
LEMMA IncCounterInv ==
  ASSUME TopicInv, NEW p \in Publishers, IncCounter(p)
  PROVE  TopicInv'
<1>. USE DEF TopicInv, IncCounter, PubAt, heapVars
<1>1. 0 \in Slots /\ (counter + 1) % CounterRange \in 0 .. CounterRange - 1
  <2>1. counter + 1 \in Int /\ 0 \in Slots
    BY TopicAssumption DEF Types, Slots
  <2>. QED
    BY <2>1, Ranges
<1>2. sent[p] + 1 \in 0 .. MaxMessages
  <2>1. sent[p] \in 0 .. MaxMessages /\ sent[p] < MaxMessages
    BY DEF Types
  <2>. QED
    BY <2>1, TopicAssumption
<1>3. Types'
  BY <1>1, <1>2 DEF Types, PubState, PubIdle
<1>4. WritersInv'
  BY DEF Types, PubState, PubIdle, WritersInv, Writing
<1>5. ElementsInv'
  BY DEF Types, PubState, PubIdle, ElementsInv
<1>6. ReadersInv'
  BY DEF Types, PubState, PubIdle, ReadersInv, Reading, Writing
<1>7. \A r \in Publishers : InHand(r)' = InHand(r)
  BY DEF Types, PubState, PubIdle, InHand
<1>8. BlocksInv'
  BY <1>7 DEF BlocksInv
<1>. QED
  BY <1>3, <1>4, <1>5, <1>6, <1>8

(* Subscribers change nothing but their own state.                         *)
LEMMA ReadInv ==
  ASSUME TopicInv, NEW s \in Subscribers, Read(s)
  PROVE  TopicInv'
<1>. USE DEF TopicInv, SubAt
<1>1. UNCHANGED <<counter, elements, memory, live, pub, sent, alive>>
  BY DEF Read, Poll, LockShared, Locate, ReadSize, Deliver, heapVars
<1>2. /\ 0 \in Slots
      /\ \A n \in Int : n % QueueSize \in Slots /\ n % CounterRange \in 0 .. CounterRange - 1
      /\ Jumpahead(counter) \in 0 .. CounterRange - 1
      /\ sub[s].pos \in 0 .. CounterRange - 1 /\ sub[s].pos \in Int
      /\ sub[s] \in SubState
  <2>1. 0 \in Slots /\ sub[s] \in SubState /\ counter \in Int
    BY TopicAssumption DEF Slots, Types
  <2>2. sub[s].pos \in 0 .. CounterRange - 1
    BY <2>1 DEF SubState
  <2>. QED
    BY <2>1, <2>2, Ranges
<1>3. /\ sub' \in [Subscribers -> SubState]
      /\ \A r \in Subscribers \ {s} : sub'[r] = sub[r]
      /\ Reading(s)' => \/ Reading(s) /\ sub'[s].held = sub[s].held
                        \/ ~ WriteLocked(sub'[s].held)
      /\ sub'[s].pc \in {"size", "copy"} =>
           /\ sub'[s].block \in Blocks
           /\ sub'[s].from = sub'[s].held =>
                /\ ~ elements[sub'[s].held].empty
                /\ elements[sub'[s].held].address_handle = sub'[s].block
                /\ sub'[s].pc = "copy" => sub'[s].size = sub'[s].part
  <2>1. CASE Poll(s)
    <3>. DEFINE pos == IF Lags(sub[s].pos) THEN Jumpahead(counter) ELSE sub[s].pos
    <3>1. /\ sub' = [sub EXCEPT ![s].pc = "lock", ![s].pos = pos]
          /\ pos \in 0 .. CounterRange - 1
      BY <2>1, <1>2 DEF Poll
    <3>. HIDE DEF pos
    <3>. QED
      BY <3>1, <1>2 DEF Types, SubState, Reading
  <2>2. CASE LockShared(s)
    <3>. DEFINE q == sub[s].pos % QueueSize
    <3>1. /\ sub' = [sub EXCEPT ![s].pc = "lag", ![s].held = q]
          /\ q \in Slots /\ ~ WriteLocked(q)
      BY <2>2, <1>2 DEF LockShared
    <3>. HIDE DEF q
    <3>. QED
      BY <3>1, <1>2 DEF Types, SubState, Reading
  <2>3. CASE Locate(s)
    <3>. DEFINE pos == IF Lags(sub[s].pos) THEN Jumpahead(counter) ELSE sub[s].pos
                q == pos % QueueSize
    <3>1. pos \in 0 .. CounterRange - 1 /\ q \in Slots /\ sub[s].pc = "lag"
      BY <2>3, <1>2 DEF Locate
    <3>2. CASE elements[q].empty /\ sub' = [sub EXCEPT ![s] = SubIdle(pos)]
      BY <3>1, <3>2, <1>2 DEF SubIdle, Types, SubState, Reading
    <3>3. CASE /\ ~ elements[q].empty
               /\ sub' = [sub EXCEPT ![s].pc = "size", ![s].pos = pos, ![s].from = q,
                                     ![s].block = elements[q].address_handle]
      <4>1. elements[q].address_handle \in Blocks
        BY <3>1, <3>3 DEF ElementsInv
      <4>. HIDE DEF pos, q
      <4>2. sub'[s] = [sub[s] EXCEPT !.pc = "size", !.pos = pos, !.from = q,
                                     !.block = elements[q].address_handle]
            /\ \A r \in Subscribers \ {s} : sub'[r] = sub[r]
        BY <3>3 DEF Types
      <4>3. sub' \in [Subscribers -> SubState]
        BY <3>1, <3>3, <4>1, <1>2 DEF Types, SubState
      <4>. QED
        BY <3>1, <3>3, <4>1, <4>2, <4>3, <1>2 DEF SubState, Reading
    <3>. QED
      BY <2>3, <3>2, <3>3 DEF Locate
  <2>4. CASE ReadSize(s)
    <3>1. sub[s].pc = "size" /\ sub[s].block \in Blocks /\ sub[s].from \in Slots
      BY <2>4 DEF ReadSize, ReadersInv, Types, SubState
    <3>2. sub[s].from = sub[s].held => memory[sub[s].block] = elements[sub[s].from].size
      BY <3>1 DEF ReadersInv, ElementsInv, Reading, Writing
    <3>3. sub' = [sub EXCEPT ![s].pc = "copy", ![s].size = elements[sub[s].from].size,
                             ![s].part = memory[sub[s].block]]
      BY <2>4 DEF ReadSize
    <3>4. elements[sub[s].from].size \in Message \cup {NoMessage}
          /\ memory[sub[s].block] \in Message \cup {NoMessage}
      BY <3>1 DEF Types, Element
    <3>5. sub' \in [Subscribers -> SubState]
      BY <3>3, <3>4, <1>2 DEF Types, SubState
    <3>. QED
      BY <3>1, <3>2, <3>3, <3>5, <1>2 DEF Types, SubState, Reading, ReadersInv
  <2>5. CASE Deliver(s)
    <3>1. sub' = [sub EXCEPT ![s] = SubIdle((sub[s].pos + 1) % CounterRange)]
          /\ (sub[s].pos + 1) % CounterRange \in 0 .. CounterRange - 1
      BY <2>5, <1>2 DEF Deliver
    <3>. QED
      BY <3>1, <1>2 DEF SubIdle, Types, SubState, Reading
  <2>. QED
    BY <2>1, <2>2, <2>3, <2>4, <2>5 DEF Read
<1>4. Types' /\ WritersInv' /\ ElementsInv' /\ BlocksInv'
  BY <1>1, <1>3 DEF Types, WritersInv, Writing, ElementsInv, BlocksInv, InHand
<1>5. ReadersInv'
  BY <1>1, <1>3 DEF ReadersInv, Reading, Writing, WriteLocked
<1>. QED
  BY <1>4, <1>5

(* TopicInv holds throughout, whoever dies.                                *)
THEOREM Invariance == Spec => []TopicInv
<1>1. TopicInv /\ [Next]_vars => TopicInv'
  <2>. SUFFICES ASSUME TopicInv, [Next]_vars PROVE TopicInv'
    OBVIOUS
  <2>1. ASSUME NEW p \in Publishers, Begin(p) \/ Write(p) PROVE TopicInv'
    BY <2>1, BeginInv, AllocAndCopyInv, AllocFailsInv, LockInv, StoreHandleInv,
       StoreSizeInv, FreeOldInv, IncCounterInv DEF Write
  <2>2. ASSUME NEW s \in Subscribers, Read(s) PROVE TopicInv'
    BY <2>2, ReadInv
  <2>3. ASSUME UNCHANGED <<counter, elements, heapVars, pub, sub, sent, last>> PROVE TopicInv'
    BY <2>3 DEF heapVars, TopicInv, Types, WritersInv, Writing, ElementsInv,
                ReadersInv, Reading, BlocksInv, InHand
  <2>. QED
    BY <2>1, <2>2, <2>3 DEF Next, Crash, vars
<1>. QED
  BY InitInv, <1>1, PTL DEF Spec

(* The variables have their types, and a subscriber copies from a block.   *)
THEOREM TypeCorrect == Spec => []TypeOK
<1>1. TopicInv => TypeOK
  BY DEF TopicInv, Types, TypeOK, PubState, SubState, Element, ReadersInv
<1>. QED
  BY <1>1, Invariance, PTL

(* Every block of the heap in use belongs to one element of the queue or   *)
(* to one publisher that is exchanging it, and a free block to nobody.     *)
THEOREM BlocksAccounted == Spec => []HeapAccounted
<1>1. TopicInv => HeapAccounted
  <2>. SUFFICES ASSUME TopicInv, NEW b \in Blocks
                PROVE  Cardinality(Holders(b)) = IF Listed(b, live) THEN 1 ELSE 0
    BY DEF HeapAccounted, Listed
  <2>. USE DEF TopicInv
  <2>1. Holders(b) = { q \in Slots : elements[q].address_handle = b }
                     \cup { p \in Publishers : InHand(p) = b }
    BY TopicAssumption DEF Holders, InHand, Types, PubState
  <2>2. CASE ~ Listed(b, live)
    <3>1. Holders(b) = {}
      BY <2>1, <2>2 DEF BlocksInv
    <3>. QED
      BY <2>2, <3>1, FS_EmptySet
  <2>3. CASE \E q \in Slots : elements[q].address_handle = b
    <3>1. PICK q \in Slots : elements[q].address_handle = b
      BY <2>3
    <3>2. Holders(b) = {q} /\ Listed(b, live)
      BY <2>1, <3>1 DEF BlocksInv
    <3>. QED
      BY <3>2, FS_Singleton
  <2>4. CASE \E p \in Publishers : InHand(p) = b
    <3>1. PICK p \in Publishers : InHand(p) = b
      BY <2>4
    <3>2. Holders(b) = {p} /\ Listed(b, live)
      BY <2>1, <3>1 DEF BlocksInv
    <3>. QED
      BY <3>2, FS_Singleton
  <2>. QED
    BY <2>2, <2>3, <2>4 DEF BlocksInv
<1>. QED
  BY <1>1, Invariance, PTL

(* What a subscriber reads under the lock of its element does not change   *)
(* while it reads.                                                         *)
THEOREM LockedReadsAreStable == Spec => []LockedReadStable
<1>1. TopicInv => LockedReadStable
  BY DEF TopicInv, LockedReadStable, ReadersInv, ElementsInv, Reading, Writing, Types, SubState
<1>. QED
  BY <1>1, Invariance, PTL

(* With room for the queue and one message of each publisher, a write      *)
(* always finds a block.  Otherwise every block would have a holder, and   *)
(* two of them the same one, by the pigeonhole principle: the publisher    *)
(* that looks for a block holds none.                                      *)
THEOREM WritersFindRoom == Spec => []WriterFindsRoom
<1>1. TopicInv => WriterFindsRoom
  <2>. SUFFICES ASSUME TopicInv,
                       Cardinality(Blocks) >= QueueSize + Cardinality(Publishers),
                       NEW p \in Publishers, pub[p].pc = "alloc",
                       \A b \in Blocks : Listed(b, live)
                PROVE  FALSE
    BY DEF WriterFindsRoom, Listed
  <2>. DEFINE Others == Publishers \ {p}
              Holds(h, b) == \/ h \in Slots /\ elements[h].address_handle = b
                             \/ h \in Others /\ InHand(h) = b
              holder == [b \in Blocks |-> CHOOSE h \in Slots \cup Others : Holds(h, b)]
  <2>1. \A b \in Blocks : \E h \in Slots \cup Others : Holds(h, b)
    <3>1. InHand(p) \notin Blocks
      BY TopicAssumption DEF InHand
    <3>. QED
      BY <3>1 DEF TopicInv, BlocksInv
  <2>2. \A b \in Blocks : holder[b] \in Slots \cup Others /\ Holds(holder[b], b)
    BY <2>1
  <2>3. /\ IsFiniteSet(Slots) /\ Cardinality(Slots) = QueueSize
        /\ IsFiniteSet(Others) /\ Cardinality(Others) = Cardinality(Publishers) - 1
        /\ Cardinality(Publishers) \in Nat /\ QueueSize \in Nat \ {0}
    <3>1. IsFiniteSet(Slots) /\ Cardinality(Slots) = QueueSize
      <4>1. /\ 0 \in Int /\ QueueSize - 1 \in Int /\ ~ (0 > QueueSize - 1)
            /\ (QueueSize - 1) - 0 + 1 = QueueSize
        BY TopicAssumption
      <4>2. IsFiniteSet(Slots)
            /\ Cardinality(Slots)
                 = IF 0 > QueueSize - 1 THEN 0 ELSE (QueueSize - 1) - 0 + 1
        BY <4>1, FS_Interval DEF Slots
      <4>. QED
        BY <4>1, <4>2, Zenon
    <3>. QED
      BY <3>1, FS_RemoveElement, FS_CardinalityType, TopicAssumption
  <2>4. IsFiniteSet(Slots \cup Others) /\ Cardinality(Slots \cup Others) < Cardinality(Blocks)
    <3>1. Slots \cap Others = {} /\ Cardinality({}) = 0
      BY TopicAssumption, FS_EmptySet DEF Slots
    <3>2. IsFiniteSet(Slots \cup Others)
          /\ Cardinality(Slots \cup Others) = QueueSize + Cardinality(Publishers) - 1
      <4>1. /\ IsFiniteSet(Slots \cup Others)
            /\ Cardinality(Slots \cup Others)
                 = Cardinality(Slots) + Cardinality(Others) - Cardinality(Slots \cap Others)
        BY <2>3, FS_Union
      <4>2. Cardinality(Slots \cap Others) = 0
        BY <3>1, Zenon
      <4>. QED
        BY <2>3, <4>1, <4>2
    <3>3. Cardinality(Blocks) \in Nat
      BY FS_CardinalityType, TopicAssumption
    <3>. QED
      BY <2>3, <3>2, <3>3
  <2>5. holder \in [Blocks -> Slots \cup Others]
    BY <2>2
  <2>. HIDE DEF holder
  <2>6. PICK a, b \in Blocks : a # b /\ holder[a] = holder[b]
    BY <2>4, <2>5, FS_PigeonHole, TopicAssumption
  <2>7. Slots \cap Others = {}
    BY TopicAssumption DEF Slots
  <2>. QED
    BY <2>2, <2>6, <2>7
<1>. QED
  BY <1>1, Invariance, PTL

=============================================================================
