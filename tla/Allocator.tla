----------------------------- MODULE Allocator -----------------------------
(***************************************************************************)
(* The allocator of include/shadesmar/memory/allocator.h: a heap of words  *)
(* used as a ring.  A block is a header word, holding the size of its      *)
(* payload, followed by the payload; a payload that would run off the end  *)
(* of the heap is placed at word 0 instead, its header staying behind.     *)
(* alloc and free run under the exclusive lock of the allocator, so each   *)
(* is one step (what the lock promises is the business of RobustLock).     *)
(*                                                                         *)
(* `live` is a history variable: the blocks handed out and not yet given   *)
(* back, oldest first.  No action's guard or index reads it, except that   *)
(* callers only pass to free, and only write to, memory they were given.   *)
(***************************************************************************)
EXTENDS Integers, Sequences, SequencesExt

CONSTANTS Words,        \* size_ / sizeof(int): the length of the heap
          HeapBase,     \* the address heap_()
          UIntRange,    \* 2^32: the payload size is a uint32_t
          Bytes,        \* the request sizes callers use
          Alignments,   \* the alignments callers use
          UserWords     \* what callers store in their payloads

(* A caller asks for no more than get_free_memory reported (topic.h:94 and *)
(* channel.h:94,165), far below 2^32 bytes for the heaps in use.           *)
ASSUME AllocatorAssumption ==
  /\ Words \in Nat \ {0, 1}
  /\ HeapBase \in Nat
  /\ UIntRange \in Nat \ {0}
  /\ Bytes \subseteq Nat
  /\ Alignments \subseteq Nat \ {0}
  /\ UserWords \subseteq Nat
  /\ \A bytes \in Bytes, alignment \in Alignments : bytes + alignment < UIntRange

VARIABLES alloc_index_,   \* the word the next header goes to
          free_index_,    \* the word of the oldest outstanding header
          heap,           \* the words
          live            \* history: the outstanding blocks

vars == <<alloc_index_, free_index_, heap, live>>

WordSize == 4             \* sizeof(int)
Size == Words * WordSize  \* size_
Index == 0 .. Words - 1   \* the indices validate_index accepts

Block == [header : Index, index : Index, size : 1 .. Words,
          bytes : Bytes, ptr : Nat]

-----------------------------------------------------------------------------
(* Sizes and places *)

(* The next multiple of a at or above s (a being a power of two). *)
SHMALIGN(s, a) == ((s + a - 1) \div a) * a

(* The payload in bytes before rounding: bytes + alignment in 32 bits. *)
PayloadBytes(bytes, alignment) ==
  LET sum == (bytes + alignment) % UIntRange
  IN IF sum = 0 THEN WordSize ELSE sum

(* Mutant: the last, partly used word is cut off. *)
PayloadSizeTruncated(bytes, alignment) ==
  PayloadBytes(bytes, alignment) \div WordSize

(* The payload in words. *)
PayloadSize(bytes, alignment) ==
  (PayloadBytes(bytes, alignment) + WordSize - 1) \div WordSize

(* Mutant: a payload ending one word past the heap is not moved. *)
SuggestIndexLate(header, size) == IF header + size > Words THEN 0 ELSE header + 1

(* Where the payload of a header goes: behind it, or to the start. *)
SuggestIndex(header, size) ==
  IF header + size >= Words THEN 0 ELSE header + 1

(* Mutant: an index one past the end is not taken back to the start. *)
AfterPayloadNoWrap(index, size) == index + size

(* The index after a payload, one past the end being the start. *)
AfterPayload(index, size) ==
  IF index + size = Words THEN 0 ELSE index + size

(* Mutant: a block may end on the oldest block. *)
FitsUpToFree(bytes, alignment) ==
  LET size  == PayloadSize(bytes, alignment)
      index == SuggestIndex(alloc_index_, size)
      end   == index + size
  IN /\ PayloadBytes(bytes, alignment) < Size - 2 * WordSize
     /\ ~ (alloc_index_ < free_index_ /\ index = 0)
     /\ ~ (index <= free_index_ /\ free_index_ < end)
     /\ ~ (end = Words /\ free_index_ = 0)

(* Whether alloc succeeds rather than return nullptr. *)
Fits(bytes, alignment) ==
  LET size  == PayloadSize(bytes, alignment)
      index == SuggestIndex(alloc_index_, size)
      end   == index + size
  IN /\ PayloadBytes(bytes, alignment) < Size - 2 * WordSize
     /\ ~ (alloc_index_ < free_index_ /\ index = 0)
     /\ ~ (index <= free_index_ /\ free_index_ <= end)
     /\ ~ (end = Words /\ free_index_ = 0)

(* Mutant: an empty ring is taken for a full one. *)
GetFreeMemoryStrict ==
  WordSize * (IF free_index_ < alloc_index_
              THEN Words - alloc_index_ + free_index_
              ELSE free_index_ - alloc_index_)

(* What get_free_memory reports, in bytes. *)
GetFreeMemory ==
  WordSize * (IF free_index_ <= alloc_index_
              THEN Words - alloc_index_ + free_index_
              ELSE free_index_ - alloc_index_)

(* Mutant: free takes any pointer into the heap. *)
AcceptsAny(ptr) == ptr >= HeapBase

(* Mutant: free forgets that a payload may have wrapped. *)
AcceptsBehindHeader(ptr) == ptr = HeapBase + WordSize * (free_index_ + 1)

(* Whether free accepts a pointer: it must be that of the block whose     *)
(* header is at free_index_.                                              *)
Accepts(ptr) ==
  LET size == heap[free_index_]
  IN ptr = HeapBase + WordSize * SuggestIndex(free_index_, size)

-----------------------------------------------------------------------------
(* The operations *)

Init ==
  /\ alloc_index_ = 0
  /\ free_index_ = 0
  /\ heap = [w \in Index |-> 0]
  /\ live = <<>>

(* Mutant: the header is written after alloc_index_ has moved on. *)
AllocHeaderLate(bytes, alignment) ==
  LET size  == PayloadSize(bytes, alignment)
      index == SuggestIndex(alloc_index_, size)
  IN /\ Fits(bytes, alignment)
     /\ alloc_index_' = AfterPayload(index, size)
     /\ heap' = [heap EXCEPT ![alloc_index_'] = size]
     /\ live' = Append(live,
          [header |-> alloc_index_, index |-> index, size |-> size,
           bytes |-> bytes,
           ptr |-> SHMALIGN(HeapBase + WordSize * index, alignment)])
     /\ UNCHANGED free_index_

(* alloc(bytes, alignment); a nullptr result changes nothing. *)
Alloc(bytes, alignment) ==
  LET size  == PayloadSize(bytes, alignment)
      index == SuggestIndex(alloc_index_, size)
  IN /\ Fits(bytes, alignment)
     /\ heap' = [heap EXCEPT ![alloc_index_] = size]
     /\ alloc_index_' = AfterPayload(index, size)
     /\ live' = Append(live,
          [header |-> alloc_index_, index |-> index, size |-> size,
           bytes |-> bytes,
           ptr |-> SHMALIGN(HeapBase + WordSize * index, alignment)])
     /\ UNCHANGED free_index_

(* free(ptr) of an outstanding pointer; a false result changes nothing. *)
Free(i) ==
  LET size  == heap[free_index_]
      index == SuggestIndex(free_index_, size)
  IN /\ Accepts(live[i].ptr)
     /\ free_index_' = AfterPayload(index, size)
     /\ live' = RemoveAt(live, i)
     /\ UNCHANGED <<alloc_index_, heap>>

(* Mutant: alloc_index_ is left where it was. *)
ResetFreeIndexOnly ==
  /\ free_index_' = 0
  /\ live' = <<>>
  /\ UNCHANGED <<alloc_index_, heap>>

(* reset(): only called when no process that holds a pointer is left. *)
Reset ==
  /\ alloc_index_' = 0
  /\ free_index_' = 0
  /\ live' = <<>>
  /\ UNCHANGED heap

(* The words that the bytes of a request occupy, from its pointer on. *)
Written(b) ==
  { w \in Index : /\ b.ptr < HeapBase + WordSize * (w + 1)
                  /\ HeapBase + WordSize * w < b.ptr + b.bytes }

(* The caller fills its payload (copier_->user_to_shm). *)
UserWrite(i, word) ==
  /\ heap' = [w \in Index |-> IF w \in Written(live[i]) THEN word ELSE heap[w]]
  /\ UNCHANGED <<alloc_index_, free_index_, live>>

Next ==
  \/ \E bytes \in Bytes, alignment \in Alignments : Alloc(bytes, alignment)
  \/ \E i \in DOMAIN live : Free(i)
  \/ \E i \in DOMAIN live, word \in UserWords : UserWrite(i, word)
  \/ Reset

Spec == Init /\ [][Next]_vars

-----------------------------------------------------------------------------
(* Properties *)

(* The words of a block: its header and its payload. *)
Footprint(b) == {b.header} \cup (b.index .. b.index + b.size - 1)

(* Two blocks share a word. *)
Overlap(b, c) == Footprint(b) \cap Footprint(c) # {}

(* The indices stay inside the heap (validate_index), the heap keeps its   *)
(* length and the blocks are well-formed records.                          *)
TypeOK ==
  /\ alloc_index_ \in Index
  /\ free_index_ \in Index
  /\ heap \in [Index -> Nat]
  /\ live \in Seq(Block)

(* No two outstanding blocks share a word, header or payload, however the  *)
(* ring has wrapped: what alloc's comparisons with free_index_ are for.    *)
BlocksDisjoint ==
  \A i, j \in DOMAIN live : i # j => ~ Overlap(live[i], live[j])

(* The asserts of alloc, free and suggest_index hold: for every request,   *)
(* even one that is going to be refused, and for the header free reads,    *)
(* which callers that fill other blocks must have left alone.              *)
AssertsHold ==
  /\ \A bytes \in Bytes, alignment \in Alignments :
       LET size  == PayloadSize(bytes, alignment)
           index == SuggestIndex(alloc_index_, size)
       IN /\ PayloadBytes(bytes, alignment) < Size - 2 * WordSize
               => index + size - 1 < Words
          /\ Fits(bytes, alignment) => AfterPayload(index, size) # alloc_index_
  /\ live # <<>> =>
       LET size == heap[free_index_]
       IN size > 0 /\ SuggestIndex(free_index_, size) + size - 1 < Words

(* The oldest outstanding block can always be given back, as Topic::write  *)
(* needs when it spins on free(old_address).                               *)
OldestFreeable == live # <<>> => Accepts(Head(live).ptr)

(* The bytes a caller asked for, from the aligned pointer it got, lie in   *)
(* the payload that alloc set apart.                                       *)
BlockHoldsRequest ==
  \A i \in DOMAIN live :
    /\ live[i].ptr >= HeapBase + WordSize * live[i].index
    /\ live[i].ptr + live[i].bytes
         <= HeapBase + WordSize * (live[i].index + live[i].size)

(* get_free_memory never reports less than a request that alloc would      *)
(* serve: the early return of Topic::write and Channel::write_* on it      *)
(* refuses no message that fits.                                           *)
GuardRefusesNothing ==
  \A bytes \in Bytes, alignment \in Alignments :
    Fits(bytes, alignment) => bytes <= GetFreeMemory

(* An empty heap serves every request of less than half of it, wherever    *)
(* the two indices have met.                                               *)
EmptyServesHalf ==
  live = <<>> =>
    \A bytes \in Bytes, alignment \in Alignments :
      2 * PayloadSize(bytes, alignment) < Words => Fits(bytes, alignment)

(* The ring hands out disjoint blocks and takes them back oldest first.    *)
Fifo == INSTANCE FifoAllocator WITH Blocks <- Block
FifoSpec == Fifo!Spec

-----------------------------------------------------------------------------
(* The inductive invariant                                                 *)

(* How far the word x lies ahead of the word f, going round the ring.      *)
Distance(f, x) == IF x >= f THEN x - f ELSE x - f + Words

(* The ring words a block uses up, those skipped before a wrap included.   *)
Extent(b) == IF b.index = 0 THEN Words - b.header + b.size ELSE 1 + b.size

(* A block lies where its header says and holds what its caller writes.    *)
WellFormed(b) ==
  /\ b.index = SuggestIndex(b.header, b.size)
  /\ b.index + b.size <= Words
  /\ HeapBase + WordSize * b.index <= b.ptr
  /\ b.ptr < HeapBase + WordSize * (b.index + b.size)
  /\ b.ptr + b.bytes <= HeapBase + WordSize * (b.index + b.size)

(* Every header still says what alloc wrote.                               *)
HeadersIntact == \A i \in DOMAIN live : heap[live[i].header] = live[i].size

(* The outstanding blocks follow each other round the ring, from           *)
(* free_index_ to alloc_index_, and never use all of it up.                *)
Chained ==
  /\ live = <<>> => alloc_index_ = free_index_
  /\ \A i \in DOMAIN live :
       /\ i = 1 => live[i].header = free_index_
       /\ AfterPayload(live[i].index, live[i].size) =
            IF i = Len(live) THEN alloc_index_ ELSE live[i + 1].header
       /\ Distance(free_index_, live[i].header) + Extent(live[i])
            <= Distance(free_index_, alloc_index_)
       /\ \A j \in DOMAIN live : i < j =>
            Distance(free_index_, live[i].header) + Extent(live[i])
              <= Distance(free_index_, live[j].header)

(* The strengthening of TypeOK and BlocksDisjoint that every step keeps:   *)
(* alloc can only be known not to hit a block it cannot see by the order   *)
(* of the blocks round the ring, and free only moves on by the right       *)
(* amount if the headers are intact.                                       *)
RingInv ==
  /\ TypeOK
  /\ \A i \in DOMAIN live : WellFormed(live[i])
  /\ HeadersIntact
  /\ Chained

=============================================================================
