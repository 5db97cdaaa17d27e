-------------------------- MODULE AllocatorProofs --------------------------
(***************************************************************************)
(* Proofs about the ring of Allocator, for every heap length, base         *)
(* address, set of requests and set of alignments.                         *)
(***************************************************************************)
EXTENDS Allocator, SequenceTheorems, TLAPS

-----------------------------------------------------------------------------
(* Arithmetic of sizes                                                     *)

(* A request that passes the size check has a payload of at least a word,  *)
(* and the payload leaves two words of the heap unused.                    *)
LEMMA PayloadSizeBounds ==
  ASSUME NEW bytes \in Bytes, NEW alignment \in Alignments
  PROVE  /\ PayloadBytes(bytes, alignment) = bytes + alignment
         /\ PayloadSize(bytes, alignment) \in Nat \ {0}
         /\ bytes + alignment <= WordSize * PayloadSize(bytes, alignment)
         /\ PayloadBytes(bytes, alignment) < Size - 2 * WordSize
              => PayloadSize(bytes, alignment) <= Words - 2
<1>1. /\ bytes \in Nat /\ alignment \in Nat \ {0}
      /\ UIntRange \in Nat \ {0} /\ bytes + alignment < UIntRange
      /\ Words \in Nat
  BY AllocatorAssumption
<1>2. PayloadBytes(bytes, alignment) = bytes + alignment
  BY <1>1 DEF PayloadBytes
<1>3. PayloadSize(bytes, alignment) = (bytes + alignment + 3) \div 4
  BY <1>1, <1>2 DEF PayloadSize, WordSize
<1>. QED
  BY <1>1, <1>2, <1>3 DEF Size, WordSize

(* Moving an address up to its alignment moves it by less than that.       *)
LEMMA AlignBounds ==
  ASSUME NEW s \in Nat, NEW a \in Nat \ {0}
  PROVE  /\ SHMALIGN(s, a) \in Nat
         /\ s <= SHMALIGN(s, a)
         /\ SHMALIGN(s, a) < s + a
<1>. DEFINE q == (s + a - 1) \div a
<1>1. q \in Nat /\ q * a \in Nat
  OBVIOUS
<1>2. s + a - 1 = q * a + ((s + a - 1) % a) /\ (s + a - 1) % a \in 0 .. a - 1
  OBVIOUS
<1>. QED
  BY <1>1, <1>2 DEF SHMALIGN

-----------------------------------------------------------------------------
(* Arithmetic of the ring                                                  *)

(* Where a payload of a legal size goes: next to its header or at 0.       *)
LEMMA SuggestBounds ==
  ASSUME NEW h \in Index, NEW size \in 1 .. Words
  PROVE  /\ SuggestIndex(h, size) \in Index
         /\ SuggestIndex(h, size) + size <= Words
         /\ SuggestIndex(h, size) = 0 \/ SuggestIndex(h, size) = h + 1
         /\ SuggestIndex(h, size) = 0 <=> h + size >= Words
BY AllocatorAssumption DEF SuggestIndex, Index

(* The types of distances and extents.                                     *)
LEMMA DistanceType ==
  /\ \A f, x \in Index :
       /\ Distance(f, x) \in Index
       /\ Distance(f, x) \in Nat
       /\ Distance(f, x) < Words
  /\ \A b \in Block : Extent(b) \in Nat \ {0}
BY AllocatorAssumption DEF Index, Distance, Block, Extent

(* alloc's three tests on free_index_ let a block in only where it ends    *)
(* before the ring comes round to free_index_ again.                       *)
LEMMA AllocDistance ==
  ASSUME NEW f \in Index, NEW a \in Index, NEW size \in 1 .. Words - 2,
         NEW index, index = SuggestIndex(a, size),
         ~ (a < f /\ index = 0),
         ~ (index <= f /\ f <= index + size),
         ~ (index + size = Words /\ f = 0)
  PROVE  /\ AfterPayload(index, size) \in Index
         /\ AfterPayload(index, size) # a
         /\ Distance(f, AfterPayload(index, size)) =
              Distance(f, a) +
                (IF index = 0 THEN Words - a + size ELSE 1 + size)
         /\ Distance(f, AfterPayload(index, size)) \in 0 .. Words - 1
<1>1. index \in Index /\ index + size <= Words
      /\ (index = 0 \/ index = a + 1) /\ (index = 0 <=> a + size >= Words)
  <2>1. size \in 1 .. Words
    BY AllocatorAssumption
  <2>. QED
    BY <2>1, SuggestBounds
<1>. QED
  BY <1>1, AllocatorAssumption DEF Index, AfterPayload, Distance

(* The distances after free_index_ has moved on by one block.              *)
LEMMA FreeDistance ==
  ASSUME NEW f \in Index, NEW g \in Index, NEW x \in Index,
         Distance(f, g) <= Distance(f, x)
  PROVE  Distance(g, x) = Distance(f, x) - Distance(f, g)
BY AllocatorAssumption DEF Index, Distance

(* A block that ends before the ring is used up occupies the words from    *)
(* its header's distance on, and its payload does not reach its header.    *)
LEMMA FootprintDistance ==
  ASSUME NEW f \in Index, NEW b \in Block, WellFormed(b),
         Distance(f, b.header) + Extent(b) < Words,
         NEW w \in Footprint(b)
  PROVE  /\ w \in Index
         /\ Distance(f, b.header) <= Distance(f, w)
         /\ Distance(f, w) < Distance(f, b.header) + Extent(b)
         /\ w \in b.index .. b.index + b.size - 1 => w # b.header
<1>1. b.header \in Index /\ b.index \in Index /\ b.size \in 1 .. Words
  BY DEF Block
<1>2. /\ b.index + b.size <= Words
      /\ b.index = 0 \/ b.index = b.header + 1
      /\ b.index = 0 <=> b.header + b.size >= Words
  BY <1>1, SuggestBounds DEF WellFormed
<1>3. w = b.header \/ w \in b.index .. b.index + b.size - 1
  BY DEF Footprint
<1>. QED
  BY <1>1, <1>2, <1>3, AllocatorAssumption DEF Index, Distance, Extent

-----------------------------------------------------------------------------
(* The blocks of a ring that satisfies RingInv                             *)

(* Blocks of a ring occupy disjoint words, and no block's payload reaches  *)
(* a header.                                                               *)
LEMMA RingDisjoint ==
  ASSUME RingInv
  PROVE  /\ BlocksDisjoint
         /\ \A i, j \in DOMAIN live :
              live[j].header \notin live[i].index .. live[i].index + live[i].size - 1
<1>. USE DEF RingInv
<1>1. ASSUME NEW i \in DOMAIN live
      PROVE  /\ live[i] \in Block /\ WellFormed(live[i])
             /\ Distance(free_index_, live[i].header) + Extent(live[i]) < Words
             /\ live[i].header \in Index /\ Extent(live[i]) \in Int
  <2>1. live[i] \in Block
    BY DEF TypeOK
  <2>2. Distance(free_index_, live[i].header) + Extent(live[i])
          <= Distance(free_index_, alloc_index_)
    BY DEF Chained
  <2>3. Distance(free_index_, alloc_index_) < Words
    BY DistanceType DEF TypeOK
  <2>4. /\ live[i].header \in Index /\ Extent(live[i]) \in Nat
        /\ Distance(free_index_, live[i].header) \in Nat
        /\ Distance(free_index_, alloc_index_) \in Nat
    BY <2>1, DistanceType DEF TypeOK, Block
  <2>. QED
    BY <2>1, <2>2, <2>3, <2>4, AllocatorAssumption
<1>2. ASSUME NEW i \in DOMAIN live, NEW j \in DOMAIN live, i < j
      PROVE  Footprint(live[i]) \cap Footprint(live[j]) = {}
  <2>. SUFFICES ASSUME NEW w \in Footprint(live[i]), w \in Footprint(live[j])
                PROVE  FALSE
    OBVIOUS
  <2>1. /\ Distance(free_index_, w)
             < Distance(free_index_, live[i].header) + Extent(live[i])
        /\ Distance(free_index_, live[j].header) <= Distance(free_index_, w)
        /\ w \in Index
    BY <1>1, FootprintDistance DEF TypeOK
  <2>2. Distance(free_index_, live[i].header) + Extent(live[i])
          <= Distance(free_index_, live[j].header)
    BY <1>2 DEF Chained
  <2>3. /\ Distance(free_index_, w) \in Int
        /\ Distance(free_index_, live[i].header) \in Int
        /\ Distance(free_index_, live[j].header) \in Int
    BY <1>1, <2>1, DistanceType, SMTT(30) DEF TypeOK
  <2>. QED
    BY <1>1, <2>1, <2>2, <2>3
<1>3. BlocksDisjoint
  <2>. SUFFICES ASSUME NEW i \in DOMAIN live, NEW j \in DOMAIN live, i # j
                PROVE  Footprint(live[i]) \cap Footprint(live[j]) = {}
    BY DEF BlocksDisjoint, Overlap
  <2>1. i \in Nat /\ j \in Nat
    BY DEF TypeOK
  <2>2. CASE i < j
    BY <2>2, <1>2
  <2>3. CASE j < i
    BY <2>3, <1>2
  <2>. QED
    BY <2>1, <2>2, <2>3
<1>4. ASSUME NEW i \in DOMAIN live, NEW j \in DOMAIN live
      PROVE  live[j].header
               \notin live[i].index .. live[i].index + live[i].size - 1
  <2>1. CASE i = j
    <3>1. live[i].header \in Footprint(live[i])
      BY DEF Footprint
    <3>. QED
      BY <1>1, <2>1, <3>1, FootprintDistance DEF TypeOK
  <2>2. CASE i # j
    BY <1>3, <2>2 DEF BlocksDisjoint, Overlap, Footprint
  <2>. QED
    BY <2>1, <2>2
<1>. QED
  BY <1>3, <1>4

(* What free reads at free_index_ is the oldest block.                     *)
LEMMA OldestBlock ==
  ASSUME RingInv, live # <<>>
  PROVE  /\ 1 \in DOMAIN live
         /\ live[1] \in Block
         /\ live[1].header = free_index_
         /\ heap[free_index_] = live[1].size
         /\ SuggestIndex(free_index_, heap[free_index_]) = live[1].index
<1>1. 1 \in DOMAIN live /\ live[1] \in Block
  BY DEF RingInv, TypeOK
<1>. QED
  BY <1>1 DEF RingInv, HeadersIntact, Chained, WellFormed

-----------------------------------------------------------------------------
(* Every step keeps RingInv                                                *)

LEMMA InitInv == Init => RingInv
BY AllocatorAssumption
   DEF Init, RingInv, TypeOK, HeadersIntact, Chained, Index

(* The block that alloc makes is well-formed and its extent leads from     *)
(* alloc_index_ to the new alloc_index_.                                   *)
LEMMA NewBlock ==
  ASSUME TypeOK, NEW bytes \in Bytes, NEW alignment \in Alignments,
         Fits(bytes, alignment),
         NEW size, size = PayloadSize(bytes, alignment),
         NEW index, index = SuggestIndex(alloc_index_, size),
         NEW b,
         b = [header |-> alloc_index_, index |-> index, size |-> size,
              bytes |-> bytes,
              ptr |-> SHMALIGN(HeapBase + WordSize * index, alignment)]
  PROVE  /\ b \in Block
         /\ WellFormed(b)
         /\ AfterPayload(index, size) \in Index
         /\ AfterPayload(index, size) # alloc_index_
         /\ Distance(free_index_, AfterPayload(index, size)) =
              Distance(free_index_, alloc_index_) + Extent(b)
<1>1. size \in 1 .. Words - 2 /\ bytes + alignment <= 4 * size
  BY PayloadSizeBounds, AllocatorAssumption DEF Fits, WordSize
<1>2. /\ ~ (alloc_index_ < free_index_ /\ index = 0)
      /\ ~ (index <= free_index_ /\ free_index_ <= index + size)
      /\ ~ (index + size = Words /\ free_index_ = 0)
  BY DEF Fits
<1>3. /\ AfterPayload(index, size) \in Index
      /\ AfterPayload(index, size) # alloc_index_
      /\ Distance(free_index_, AfterPayload(index, size)) =
           Distance(free_index_, alloc_index_) +
             (IF index = 0 THEN Words - alloc_index_ + size ELSE 1 + size)
  BY <1>1, <1>2, AllocDistance DEF TypeOK
<1>4. size \in 1 .. Words /\ index \in Index /\ index + size <= Words
  BY <1>1, AllocatorAssumption, SuggestBounds DEF TypeOK
<1>5. /\ b.ptr \in Nat
      /\ HeapBase + 4 * index <= b.ptr
      /\ b.ptr < HeapBase + 4 * index + alignment
  <2>1. HeapBase + 4 * index \in Nat /\ alignment \in Nat \ {0}
    BY <1>4, AllocatorAssumption DEF Index
  <2>. QED
    BY <2>1, AlignBounds DEF WordSize
<1>6. bytes \in Nat /\ alignment \in Nat \ {0} /\ HeapBase \in Nat
      /\ size \in Nat /\ index \in Nat
  BY <1>1, <1>4, AllocatorAssumption DEF Index
<1>7. b.header = alloc_index_ /\ b.index = index /\ b.size = size
      /\ b.bytes = bytes
  OBVIOUS
<1>8. b \in Block
  BY <1>4, <1>5 DEF TypeOK, Block
<1>9. WellFormed(b)
  <2>1. b.ptr < HeapBase + 4 * (index + size)
        /\ b.ptr + bytes <= HeapBase + 4 * (index + size)
    BY <1>1, <1>5, <1>6
  <2>. QED
    BY <1>4, <1>5, <1>7, <2>1 DEF WellFormed, WordSize
<1>. QED
  BY <1>3, <1>7, <1>8, <1>9 DEF Extent

LEMMA AllocInv ==
  ASSUME RingInv, NEW bytes \in Bytes, NEW alignment \in Alignments,
         Alloc(bytes, alignment)
  PROVE  RingInv'
<1>. DEFINE size == PayloadSize(bytes, alignment)
            index == SuggestIndex(alloc_index_, size)
            b == [header |-> alloc_index_, index |-> index, size |-> size,
                  bytes |-> bytes,
                  ptr |-> SHMALIGN(HeapBase + WordSize * index, alignment)]
            L == Len(live)
<1>1. /\ b \in Block
      /\ WellFormed(b)
      /\ AfterPayload(index, size) \in Index
      /\ Distance(free_index_, AfterPayload(index, size)) =
           Distance(free_index_, alloc_index_) + Extent(b)
  BY NewBlock DEF RingInv, Alloc
<1>2. /\ heap' = [heap EXCEPT ![alloc_index_] = size]
      /\ alloc_index_' = AfterPayload(index, size)
      /\ free_index_' = free_index_
      /\ live' = Append(live, b)
  BY DEF Alloc
<1>3. b.header = alloc_index_ /\ b.index = index /\ b.size = size
  OBVIOUS
<1>. HIDE DEF b, index, size
<1>4. /\ live \in Seq(Block) /\ L \in Nat /\ DOMAIN live = 1 .. L
      /\ \A i \in 1 .. L : live[i] \in Block /\ live[i].header \in Index
  <2>1. live \in Seq(Block) /\ L \in Nat /\ DOMAIN live = 1 .. L
    BY DEF RingInv, TypeOK
  <2>2. \A i \in 1 .. L : live[i] \in Block
    BY <2>1
  <2>. QED
    BY <2>1, <2>2 DEF Block
<1>5. /\ DOMAIN live' = 1 .. L + 1 /\ Len(live') = L + 1
      /\ \A i \in 1 .. L : live'[i] = live[i]
      /\ live'[L + 1] = b
      /\ live' \in Seq(Block)
  BY <1>1, <1>2, <1>4
<1>6. size \in Nat
  BY <1>1, <1>3 DEF Block
<1>7. TypeOK'
  BY <1>1, <1>2, <1>5, <1>6 DEF RingInv, TypeOK
<1>8. \A i \in DOMAIN live' : WellFormed(live'[i])
  BY <1>1, <1>4, <1>5 DEF RingInv
<1>9. ASSUME NEW i \in 1 .. L
      PROVE  /\ live[i] \in Block
             /\ live[i].header # alloc_index_
             /\ Distance(free_index_, live[i].header) + Extent(live[i])
                  <= Distance(free_index_, alloc_index_)
             /\ Distance(free_index_, live[i].header) + Extent(live[i])
                  <= Distance(free_index_, alloc_index_')
  <2>1. live[i] \in Block /\ live[i].header \in Index
    BY <1>4
  <2>2. /\ Extent(live[i]) \in Nat \ {0} /\ Extent(b) \in Nat
        /\ Distance(free_index_, live[i].header) \in Nat
        /\ Distance(free_index_, alloc_index_) \in Nat
    BY <1>1, <2>1, DistanceType DEF RingInv, TypeOK
  <2>3. Distance(free_index_, live[i].header) + Extent(live[i])
          <= Distance(free_index_, alloc_index_)
    BY <1>4 DEF RingInv, Chained
  <2>. QED
    BY <1>1, <1>2, <2>1, <2>2, <2>3
<1>10. HeadersIntact'
  <2>. SUFFICES ASSUME NEW i \in 1 .. L + 1
                PROVE  heap'[live'[i].header] = live'[i].size
    BY <1>5 DEF HeadersIntact
  <2>1. CASE i \in 1 .. L
    <3>1. heap[live[i].header] = live[i].size
      BY <2>1, <1>4 DEF RingInv, HeadersIntact
    <3>2. live[i].header \in Index /\ live[i].header # alloc_index_
      BY <2>1, <1>9 DEF Block
    <3>. QED
      BY <2>1, <1>2, <1>5, <3>1, <3>2 DEF RingInv, TypeOK
  <2>2. CASE i = L + 1
    BY <2>2, <1>2, <1>3, <1>5 DEF RingInv, TypeOK
  <2>. QED
    BY <1>4, <2>1, <2>2
<1>11. Chained'
  <2>1. live' # <<>>
    BY <1>4, <1>5
  <2>2. live'[1].header = free_index_'
    <3>1. CASE L = 0
      BY <3>1, <1>2, <1>3, <1>4, <1>5 DEF RingInv, Chained
    <3>2. CASE L # 0
      <4>1. 1 \in 1 .. L
        BY <3>2, <1>4
      <4>. QED
        BY <4>1, <1>2, <1>4, <1>5 DEF RingInv, Chained
    <3>. QED
      BY <3>1, <3>2
  <2>3. ASSUME NEW i \in 1 .. L + 1
        PROVE  AfterPayload(live'[i].index, live'[i].size) =
                 IF i = L + 1 THEN alloc_index_' ELSE live'[i + 1].header
    <3>1. CASE i = L + 1
      BY <3>1, <1>2, <1>3, <1>5
    <3>2. CASE i \in 1 .. L
      <4>1. AfterPayload(live[i].index, live[i].size) =
              IF i = L THEN alloc_index_ ELSE live[i + 1].header
        BY <3>2, <1>4 DEF RingInv, Chained
      <4>2. L \in Nat /\ i # L + 1
        BY <3>2, <1>4
      <4>3. CASE i = L
        BY <4>1, <4>3, <3>2, <1>3, <1>5, <4>2
      <4>4. CASE i # L
        <5>1. i + 1 \in 1 .. L
          BY <3>2, <4>2, <4>4
        <5>. QED
          BY <5>1, <4>1, <4>4, <3>2, <1>5, <4>2
      <4>. QED
        BY <4>3, <4>4
    <3>. QED
      BY <1>4, <3>1, <3>2
  <2>4. ASSUME NEW i \in 1 .. L + 1
        PROVE  Distance(free_index_, live'[i].header) + Extent(live'[i])
                 <= Distance(free_index_, alloc_index_')
    <3>1. Distance(free_index_, alloc_index_') \in Nat
      BY <1>1, <1>2, DistanceType DEF RingInv, TypeOK
    <3>2. CASE i = L + 1
      BY <3>1, <3>2, <1>1, <1>2, <1>3, <1>5
    <3>3. CASE i \in 1 .. L
      BY <3>3, <1>5, <1>9
    <3>. QED
      BY <1>4, <3>2, <3>3
  <2>5. ASSUME NEW i \in 1 .. L + 1, NEW j \in 1 .. L + 1, i < j
        PROVE  Distance(free_index_, live'[i].header) + Extent(live'[i])
                 <= Distance(free_index_, live'[j].header)
    <3>1. i \in 1 .. L
      BY <2>5, <1>4
    <3>2. CASE j = L + 1
      BY <3>1, <3>2, <1>3, <1>5, <1>9
    <3>3. CASE j \in 1 .. L
      BY <2>5, <3>1, <3>3, <1>4, <1>5 DEF RingInv, Chained
    <3>. QED
      BY <1>4, <3>2, <3>3
  <2>. QED
    BY <1>2, <1>5, <2>1, <2>2, <2>3, <2>4, <2>5 DEF Chained
<1>. QED
  BY <1>7, <1>8, <1>10, <1>11 DEF RingInv

(* Removing the first element of a sequence leaves its tail.               *)
LEMMA RemoveAtOneIsTail ==
  ASSUME NEW S, NEW s \in Seq(S), s # <<>>
  PROVE  RemoveAt(s, 1) = Tail(s)
<1>1. RemoveAt(s, 1) = SubSeq(s, 1, 0) \o SubSeq(s, 2, Len(s))
  BY DEF RemoveAt
<1>2. SubSeq(s, 1, 0) = <<>>
  BY SubSeqEmpty
<1>3. SubSeq(s, 2, Len(s)) = Tail(s)
  BY TailIsSubSeq
<1>4. Tail(s) \in Seq(S)
  OBVIOUS
<1>. QED
  BY <1>1, <1>2, <1>3, <1>4

(* free accepts the pointer of the oldest block and of no other.           *)
LEMMA FreeIsOldest ==
  ASSUME RingInv, NEW i \in DOMAIN live, Accepts(live[i].ptr)
  PROVE  i = 1
<1>1. /\ 1 \in DOMAIN live /\ live[1] \in Block /\ live[i] \in Block
      /\ live \in Seq(Block) /\ live # <<>>
  BY DEF RingInv, TypeOK
<1>2. live[i].ptr = HeapBase + 4 * live[1].index
  BY <1>1, OldestBlock DEF Accepts, WordSize
<1>3. /\ HeapBase + 4 * live[i].index <= live[i].ptr
      /\ live[i].ptr < HeapBase + 4 * (live[i].index + live[i].size)
  BY DEF RingInv, WellFormed, WordSize
<1>4. /\ live[1].index \in Nat /\ live[i].index \in Nat
      /\ live[1].size \in Nat \ {0} /\ live[i].size \in Nat
      /\ HeapBase \in Nat
  BY <1>1, AllocatorAssumption, SMTT(30) DEF Block, Index
<1>5. live[1].index \in live[i].index .. live[i].index + live[i].size - 1
  BY <1>2, <1>3, <1>4
<1>6. live[1].index \in live[1].index .. live[1].index + live[1].size - 1
  BY <1>4
<1>. QED
  BY <1>1, <1>5, <1>6, RingDisjoint DEF BlocksDisjoint, Overlap, Footprint

(* What free does: it drops the oldest block and moves free_index_ to the  *)
(* header of the next.                                                     *)
LEMMA FreeEffect ==
  ASSUME RingInv, NEW i \in DOMAIN live, Free(i)
  PROVE  /\ live # <<>> /\ live' = Tail(live)
         /\ free_index_' = AfterPayload(live[1].index, live[1].size)
<1>1. i = 1 /\ live # <<>> /\ live \in Seq(Block)
  BY FreeIsOldest DEF Free, RingInv, TypeOK
<1>2. live' = Tail(live)
  BY <1>1, RemoveAtOneIsTail DEF Free
<1>. QED
  BY <1>1, <1>2, OldestBlock DEF Free

LEMMA FreeInv ==
  ASSUME RingInv, NEW k \in DOMAIN live, Free(k)
  PROVE  RingInv'
<1>. DEFINE L == Len(live)
            f == free_index_
            g == AfterPayload(live[1].index, live[1].size)
<1>1. /\ free_index_' = g
      /\ alloc_index_' = alloc_index_
      /\ heap' = heap
      /\ live' = Tail(live)
      /\ live # <<>>
  BY FreeEffect DEF Free
<1>2. /\ live \in Seq(Block) /\ L \in Nat \ {0} /\ DOMAIN live = 1 .. L
      /\ \A i \in 1 .. L : live[i] \in Block /\ live[i].header \in Index
  <2>1. live \in Seq(Block) /\ L \in Nat \ {0} /\ DOMAIN live = 1 .. L
    BY <1>1 DEF RingInv, TypeOK
  <2>2. \A i \in 1 .. L : live[i] \in Block
    BY <2>1
  <2>. QED
    BY <2>1, <2>2 DEF Block
<1>3. /\ live' \in Seq(Block) /\ Len(live') = L - 1
      /\ DOMAIN live' = 1 .. L - 1
      /\ \A i \in 1 .. L - 1 : live'[i] = live[i + 1]
  BY <1>1, <1>2
<1>4. \A i \in 1 .. L - 1 : i \in 1 .. L /\ i + 1 \in 1 .. L
  BY <1>2
<1>5. /\ live[1].header = f
      /\ g = IF L = 1 THEN alloc_index_ ELSE live[2].header
      /\ 1 \in 1 .. L /\ (L # 1 => 2 \in 1 .. L)
  BY <1>2 DEF RingInv, Chained
<1>6. g \in Index /\ f \in Index /\ alloc_index_ \in Index
  BY <1>2, <1>5 DEF RingInv, TypeOK
<1>7. /\ Distance(f, g) <= Distance(f, alloc_index_)
      /\ \A i \in 1 .. L - 1 : Distance(f, g) <= Distance(f, live[i + 1].header)
  <2>1. CASE L = 1
    BY <2>1, <1>5, <1>6, DistanceType
  <2>2. CASE L # 1
    <3>1. g = live[2].header /\ 2 \in 1 .. L
      BY <2>2, <1>5
    <3>2. \A j \in 1 .. L : /\ Extent(live[j]) \in Nat
                            /\ Distance(f, live[j].header) \in Nat
                            /\ Distance(f, live[j].header) + Extent(live[j])
                                 <= Distance(f, alloc_index_)
      BY <1>2, <1>6, DistanceType DEF RingInv, Chained
    <3>3. Distance(f, alloc_index_) \in Nat
      BY <1>6, DistanceType
    <3>4. Distance(f, g) <= Distance(f, alloc_index_)
      BY <3>1, <3>2, <3>3
    <3>5. ASSUME NEW i \in 1 .. L - 1
          PROVE  Distance(f, g) <= Distance(f, live[i + 1].header)
      <4>1. CASE i = 1
        BY <4>1, <3>1, <3>2
      <4>2. CASE i # 1
        <5>1. 2 < i + 1 /\ i + 1 \in 1 .. L
          BY <4>2, <1>4
        <5>2. Distance(f, live[2].header) + Extent(live[2])
                <= Distance(f, live[i + 1].header)
          BY <3>1, <5>1, <1>2 DEF RingInv, Chained
        <5>. QED
          BY <3>1, <3>2, <5>1, <5>2
      <4>. QED
        BY <4>1, <4>2
    <3>. QED
      BY <3>4, <3>5
  <2>. QED
    BY <2>1, <2>2
<1>8. /\ Distance(g, alloc_index_) = Distance(f, alloc_index_) - Distance(f, g)
      /\ \A i \in 1 .. L - 1 : Distance(g, live[i + 1].header)
                                = Distance(f, live[i + 1].header) - Distance(f, g)
  BY <1>2, <1>4, <1>6, <1>7, FreeDistance
<1>9. TypeOK'
  BY <1>1, <1>3, <1>6 DEF RingInv, TypeOK
<1>10. \A i \in DOMAIN live' : WellFormed(live'[i])
  BY <1>2, <1>3, <1>4 DEF RingInv
<1>11. HeadersIntact'
  BY <1>1, <1>2, <1>3, <1>4 DEF RingInv, HeadersIntact
<1>12. Chained'
  <2>1. live' = <<>> => alloc_index_' = free_index_'
    <3>1. live' = <<>> => L = 1
      <4>1. live' = <<>> => L - 1 = 0
        BY <1>3
      <4>. HIDE DEF L
      <4>. QED
        BY <4>1, <1>2
    <3>. QED
      BY <1>1, <1>5, <3>1
  <2>2. ASSUME NEW i \in 1 .. L - 1, i = 1
        PROVE  live'[i].header = free_index_'
    <3>1. L # 1
      BY <2>2, <1>2
    <3>. QED
      BY <2>2, <3>1, <1>1, <1>3, <1>5
  <2>3. ASSUME NEW i \in 1 .. L - 1
        PROVE  AfterPayload(live'[i].index, live'[i].size) =
                 IF i = L - 1 THEN alloc_index_' ELSE live'[i + 1].header
    <3>1. AfterPayload(live[i + 1].index, live[i + 1].size) =
            IF i + 1 = L THEN alloc_index_ ELSE live[i + 1 + 1].header
      BY <1>2, <1>4 DEF RingInv, Chained
    <3>2. CASE i = L - 1
      BY <3>1, <3>2, <1>1, <1>2, <1>3
    <3>3. CASE i # L - 1
      <4>1. i + 1 \in 1 .. L - 1 /\ i + 1 # L
        <5>1. L \in Nat /\ i \in 1 .. L - 1 /\ i # L - 1
          BY <3>3, <1>2
        <5>. HIDE DEF L
        <5>. QED
          BY <5>1
      <4>. QED
        BY <3>1, <3>3, <4>1, <1>3
    <3>. QED
      BY <3>2, <3>3
  <2>4. ASSUME NEW i \in 1 .. L
        PROVE  /\ Extent(live[i]) \in Nat
               /\ Distance(f, live[i].header) \in Nat
               /\ Distance(f, live[i].header) + Extent(live[i])
                    <= Distance(f, alloc_index_)
    BY <1>2, <1>6, DistanceType DEF RingInv, Chained
  <2>5. Distance(f, g) \in Nat /\ Distance(f, alloc_index_) \in Nat
    BY <1>6, DistanceType
  <2>6. ASSUME NEW i \in 1 .. L - 1
        PROVE  Distance(g, live'[i].header) + Extent(live'[i])
                 <= Distance(g, alloc_index_)
    <3>1. Distance(f, live[i + 1].header) + Extent(live[i + 1])
            <= Distance(f, alloc_index_)
          /\ Distance(f, live[i + 1].header) \in Nat
          /\ Extent(live[i + 1]) \in Nat
      BY <1>4, <2>4
    <3>2. /\ live'[i] = live[i + 1]
          /\ Distance(g, alloc_index_) = Distance(f, alloc_index_) - Distance(f, g)
          /\ Distance(g, live[i + 1].header)
               = Distance(f, live[i + 1].header) - Distance(f, g)
      BY <1>3, <1>8
    <3>. HIDE DEF L, f, g
    <3>. QED
      BY <3>1, <3>2, <2>5
  <2>7. ASSUME NEW i \in 1 .. L - 1, NEW j \in 1 .. L - 1, i < j
        PROVE  Distance(g, live'[i].header) + Extent(live'[i])
                 <= Distance(g, live'[j].header)
    <3>1. i + 1 \in 1 .. L /\ j + 1 \in 1 .. L /\ i + 1 < j + 1
      BY <1>4, <2>7
    <3>2. Distance(f, live[i + 1].header) + Extent(live[i + 1])
            <= Distance(f, live[j + 1].header)
      BY <3>1, <1>2 DEF RingInv, Chained
    <3>3. /\ Distance(f, live[i + 1].header) \in Nat
          /\ Distance(f, live[j + 1].header) \in Nat
          /\ Extent(live[i + 1]) \in Nat
      BY <3>1, <2>4
    <3>4. /\ live'[i] = live[i + 1] /\ live'[j] = live[j + 1]
          /\ Distance(g, live[i + 1].header)
               = Distance(f, live[i + 1].header) - Distance(f, g)
          /\ Distance(g, live[j + 1].header)
               = Distance(f, live[j + 1].header) - Distance(f, g)
      BY <1>3, <1>8
    <3>. HIDE DEF L, f, g
    <3>. QED
      BY <3>2, <3>3, <3>4, <2>5
  <2>. QED
    BY <1>1, <1>3, <2>1, <2>2, <2>3, <2>6, <2>7 DEF Chained
<1>. QED
  BY <1>9, <1>10, <1>11, <1>12 DEF RingInv

(* A caller's payload ends before any header.                              *)
LEMMA WrittenInPayload ==
  ASSUME NEW b \in Block, WellFormed(b)
  PROVE  Written(b) \subseteq b.index .. b.index + b.size - 1
<1>. SUFFICES ASSUME NEW w \in Written(b)
              PROVE  w \in b.index .. b.index + b.size - 1
  OBVIOUS
<1>1. /\ w \in Nat
      /\ b.ptr < HeapBase + 4 * (w + 1)
      /\ HeapBase + 4 * w < b.ptr + b.bytes
  BY AllocatorAssumption DEF Written, WordSize, Index
<1>2. /\ HeapBase + 4 * b.index <= b.ptr
      /\ b.ptr + b.bytes <= HeapBase + 4 * (b.index + b.size)
  BY DEF WellFormed, WordSize
<1>3. /\ b.index \in Nat /\ b.size \in Nat /\ b.ptr \in Nat
      /\ b.bytes \in Nat /\ HeapBase \in Nat
  <2>1. /\ b.index \in Index /\ b.size \in 1 .. Words
        /\ b.bytes \in Bytes /\ b.ptr \in Nat
    BY DEF Block
  <2>2. b.bytes \in Nat /\ HeapBase \in Nat /\ Words \in Nat
    BY <2>1, AllocatorAssumption
  <2>. QED
    BY <2>1, <2>2 DEF Index
<1>. QED
  BY <1>1, <1>2, <1>3

LEMMA UserWriteInv ==
  ASSUME RingInv, NEW i \in DOMAIN live, NEW word \in UserWords,
         UserWrite(i, word)
  PROVE  RingInv'
<1>1. /\ heap' = [w \in Index |-> IF w \in Written(live[i]) THEN word ELSE heap[w]]
      /\ UNCHANGED <<alloc_index_, free_index_, live>>
  BY DEF UserWrite
<1>2. word \in Nat
  BY AllocatorAssumption
<1>3. ASSUME NEW j \in DOMAIN live
      PROVE  live[j] \in Block /\ live[j].header \in Index
  <2>1. live[j] \in Block
    BY DEF RingInv, TypeOK
  <2>. QED
    BY <2>1 DEF Block
<1>4. HeadersIntact'
  <2>. SUFFICES ASSUME NEW j \in DOMAIN live
                PROVE  heap'[live[j].header] = heap[live[j].header]
    BY <1>1 DEF RingInv, HeadersIntact
  <2>1. live[j].header \notin Written(live[i])
    BY <1>3, RingDisjoint, WrittenInPayload DEF RingInv
  <2>. QED
    BY <1>1, <1>3, <2>1
<1>5. TypeOK'
  BY <1>1, <1>2 DEF RingInv, TypeOK
<1>6. Chained'
  BY <1>1 DEF RingInv, Chained
<1>. QED
  BY <1>1, <1>4, <1>5, <1>6 DEF RingInv

LEMMA ResetInv ==
  ASSUME RingInv, Reset
  PROVE  RingInv'
BY AllocatorAssumption
   DEF Reset, RingInv, TypeOK, HeadersIntact, Chained, Index

LEMMA NextInv == RingInv /\ [Next]_vars => RingInv'
<1>. SUFFICES ASSUME RingInv, [Next]_vars
              PROVE  RingInv'
  OBVIOUS
<1>1. ASSUME NEW bytes \in Bytes, NEW alignment \in Alignments,
             Alloc(bytes, alignment)
      PROVE  RingInv'
  BY <1>1, AllocInv
<1>2. ASSUME NEW i \in DOMAIN live, Free(i)
      PROVE  RingInv'
  BY <1>2, FreeInv
<1>3. ASSUME NEW i \in DOMAIN live, NEW word \in UserWords, UserWrite(i, word)
      PROVE  RingInv'
  BY <1>3, UserWriteInv
<1>4. CASE Reset
  BY <1>4, ResetInv
<1>5. CASE UNCHANGED vars
  BY <1>5 DEF vars, RingInv, TypeOK, HeadersIntact, Chained
<1>. QED
  BY <1>1, <1>2, <1>3, <1>4, <1>5 DEF Next

-----------------------------------------------------------------------------
(* What holds in every reachable state                                     *)

(* The ring's inductive invariant: the outstanding blocks follow each      *)
(* other from free_index_ to alloc_index_ and their headers are intact,    *)
(* whatever mix of alloc, free, reset and payload writes led there.        *)
THEOREM RingInvariance == Spec => []RingInv
BY InitInv, NextInv, PTL DEF Spec

(* The indices and the blocks stay well-typed: validate_index never fails  *)
(* on alloc_index_ or free_index_.                                         *)
THEOREM TypeCorrectness == Spec => []TypeOK
<1>1. RingInv => TypeOK
  BY DEF RingInv
<1>. QED
  BY <1>1, RingInvariance, PTL

(* alloc never hands out memory that overlaps an outstanding block.        *)
THEOREM Disjointness == Spec => []BlocksDisjoint
<1>1. RingInv => BlocksDisjoint
  BY RingDisjoint
<1>. QED
  BY <1>1, RingInvariance, PTL

(* What a caller may write lies in the payload set apart for it.           *)
THEOREM Containment == Spec => []BlockHoldsRequest
<1>1. RingInv => BlockHoldsRequest
  BY DEF RingInv, WellFormed, BlockHoldsRequest
<1>. QED
  BY <1>1, RingInvariance, PTL

(* None of the asserts of alloc, free and suggest_index can fail.          *)
THEOREM NoAssertFails == Spec => []AssertsHold
<1>1. ASSUME RingInv
      PROVE  AssertsHold
  <2>1. ASSUME NEW bytes \in Bytes, NEW alignment \in Alignments,
               NEW size, size = PayloadSize(bytes, alignment),
               NEW index, index = SuggestIndex(alloc_index_, size)
        PROVE  /\ PayloadBytes(bytes, alignment) < Size - 2 * WordSize
                    => index + size - 1 < Words
               /\ Fits(bytes, alignment)
                    => AfterPayload(index, size) # alloc_index_
    <3>1. ASSUME PayloadBytes(bytes, alignment) < Size - 2 * WordSize
          PROVE  index + size - 1 < Words
      <4>1. size \in 1 .. Words
        BY <2>1, <3>1, PayloadSizeBounds, AllocatorAssumption
      <4>2. index \in Index /\ index + size <= Words
        BY <1>1, <2>1, <4>1, SuggestBounds DEF RingInv, TypeOK
      <4>. QED
        BY <4>1, <4>2, AllocatorAssumption DEF Index
    <3>2. Fits(bytes, alignment) => AfterPayload(index, size) # alloc_index_
      BY <1>1, <2>1, NewBlock DEF RingInv
    <3>. QED
      BY <3>1, <3>2
  <2>2. ASSUME live # <<>>
        PROVE  /\ heap[free_index_] > 0
               /\ SuggestIndex(free_index_, heap[free_index_])
                    + heap[free_index_] - 1 < Words
    <3>1. /\ live[1] \in Block
          /\ heap[free_index_] = live[1].size
          /\ SuggestIndex(free_index_, heap[free_index_]) = live[1].index
          /\ live[1].index + live[1].size <= Words
      BY <1>1, <2>2, OldestBlock DEF RingInv, WellFormed
    <3>. QED
      BY <3>1, AllocatorAssumption DEF Block, Index
  <2>. QED
    BY <2>1, <2>2 DEF AssertsHold
<1>. QED
  BY <1>1, RingInvariance, PTL

(* get_free_memory never turns away a request that alloc would serve: the  *)
(* words it counts are those in which alloc looks for room.                *)
THEOREM GuardIsGenerous == Spec => []GuardRefusesNothing
<1>1. ASSUME RingInv, NEW bytes \in Bytes, NEW alignment \in Alignments,
             Fits(bytes, alignment)
      PROVE  bytes <= GetFreeMemory
  <2>. DEFINE size == PayloadSize(bytes, alignment)
              index == SuggestIndex(alloc_index_, size)
  <2>1. /\ size \in 1 .. Words - 2 /\ bytes <= 4 * size
        /\ bytes \in Nat /\ Words \in Nat
    BY <1>1, PayloadSizeBounds, AllocatorAssumption DEF Fits, WordSize
  <2>2. alloc_index_ \in 0 .. Words - 1 /\ free_index_ \in 0 .. Words - 1
    BY <1>1 DEF RingInv, TypeOK, Index
  <2>3. /\ ~ (alloc_index_ < free_index_ /\ index = 0)
        /\ ~ (index <= free_index_ /\ free_index_ <= index + size)
    BY <1>1 DEF Fits
  <2>4. index = IF alloc_index_ + size >= Words THEN 0 ELSE alloc_index_ + 1
    BY DEF SuggestIndex
  <2>. HIDE DEF size, index
  <2>5. size <= IF free_index_ <= alloc_index_
                THEN Words - alloc_index_ + free_index_
                ELSE free_index_ - alloc_index_
    BY <2>1, <2>2, <2>3, <2>4
  <2>. QED
    BY <2>1, <2>2, <2>5 DEF GetFreeMemory, WordSize
<1>2. RingInv => GuardRefusesNothing
  BY <1>1 DEF GuardRefusesNothing
<1>. QED
  BY <1>2, RingInvariance, PTL

(* A heap of more than three words that holds no block serves any request  *)
(* of less than half of it, wherever the indices have met.  In one of      *)
(* three words, alloc's margin of two words already refuses a full word.   *)
THEOREM EmptyHeapServes ==
  ASSUME Words > 3
  PROVE  Spec => []EmptyServesHalf
<1>1. ASSUME RingInv, live = <<>>,
             NEW bytes \in Bytes, NEW alignment \in Alignments,
             2 * PayloadSize(bytes, alignment) < Words
      PROVE  Fits(bytes, alignment)
  <2>. DEFINE size == PayloadSize(bytes, alignment)
              index == SuggestIndex(alloc_index_, size)
  <2>1. /\ size \in Nat \ {0} /\ 2 * size < Words /\ Words \in Nat
        /\ PayloadBytes(bytes, alignment) \in Nat
        /\ PayloadBytes(bytes, alignment) <= 4 * size
    BY <1>1, PayloadSizeBounds, AllocatorAssumption DEF WordSize
  <2>2. /\ alloc_index_ \in 0 .. Words - 1 /\ free_index_ = alloc_index_
    BY <1>1 DEF RingInv, TypeOK, Chained, Index
  <2>3. index = IF alloc_index_ + size >= Words THEN 0 ELSE alloc_index_ + 1
    BY DEF SuggestIndex
  <2>4. PayloadBytes(bytes, alignment) < Size - 2 * WordSize
    BY Words > 3, <2>1 DEF Size, WordSize
  <2>5. /\ ~ (alloc_index_ < free_index_ /\ index = 0)
        /\ ~ (index <= free_index_ /\ free_index_ <= index + size)
        /\ ~ (index + size = Words /\ free_index_ = 0)
    <3>. HIDE DEF size, index
    <3>. QED
      BY <2>1, <2>2, <2>3
  <2>. QED
    BY <2>4, <2>5 DEF Fits
<1>2. RingInv => EmptyServesHalf
  BY <1>1 DEF EmptyServesHalf
<1>. QED
  BY <1>2, RingInvariance, PTL

(* With alignment 1, the default and the only one the library uses, a      *)
(* pointer is the address of its payload.                                  *)
Unaligned ==
  \A i \in DOMAIN live : live[i].ptr = HeapBase + WordSize * live[i].index

LEMMA UnalignedInv ==
  ASSUME Alignments = {1}, RingInv, Unaligned, [Next]_vars
  PROVE  Unaligned'
<1>1. ASSUME NEW bytes \in Bytes, NEW alignment \in Alignments,
             Alloc(bytes, alignment)
      PROVE  Unaligned'
  <2>. DEFINE size == PayloadSize(bytes, alignment)
              index == SuggestIndex(alloc_index_, size)
              b == [header |-> alloc_index_, index |-> index, size |-> size,
                    bytes |-> bytes,
                    ptr |-> SHMALIGN(HeapBase + WordSize * index, alignment)]
  <2>1. live' = Append(live, b) /\ live \in Seq(Block)
    BY <1>1 DEF Alloc, RingInv, TypeOK
  <2>2. size \in 1 .. Words
    BY <1>1, PayloadSizeBounds, AllocatorAssumption DEF Alloc, Fits
  <2>3. index \in Nat
    <3>1. alloc_index_ \in Index
      BY DEF RingInv, TypeOK
    <3>2. index \in Index
      BY <2>2, <3>1, SuggestBounds
    <3>. HIDE DEF index
    <3>. QED
      BY <3>2 DEF Index
  <2>. HIDE DEF size, index
  <2>4. HeapBase + WordSize * index \in Nat
    BY <2>3, AllocatorAssumption DEF WordSize
  <2>5. \A s \in Nat : SHMALIGN(s, 1) = s
    BY DEF SHMALIGN
  <2>6. b.ptr = HeapBase + WordSize * b.index
    BY <2>4, <2>5
  <2>. HIDE DEF b
  <2>7. \A i \in DOMAIN live' :
          live'[i] = b \/ (i \in DOMAIN live /\ live'[i] = live[i])
    BY <2>1
  <2>. QED
    BY <2>6, <2>7 DEF Unaligned
<1>2. ASSUME NEW i \in DOMAIN live, Free(i)
      PROVE  Unaligned'
  <2>1. live' = Tail(live) /\ live \in Seq(Block) /\ live # <<>>
    BY <1>2, FreeEffect DEF RingInv, TypeOK
  <2>2. \A j \in DOMAIN live' : j + 1 \in DOMAIN live /\ live'[j] = live[j + 1]
    BY <2>1
  <2>. QED
    BY <2>2 DEF Unaligned
<1>3. ASSUME NEW i \in DOMAIN live, NEW word \in UserWords, UserWrite(i, word)
      PROVE  Unaligned'
  BY <1>3 DEF UserWrite, Unaligned
<1>4. CASE Reset
  BY <1>4 DEF Reset, Unaligned
<1>5. CASE UNCHANGED vars
  BY <1>5 DEF vars, Unaligned
<1>. QED
  BY <1>1, <1>2, <1>3, <1>4, <1>5 DEF Next

(* The oldest block can be given back whatever the callers have written:   *)
(* free finds its header intact and takes its pointer.                     *)
THEOREM OldestIsFreeable ==
  ASSUME Alignments = {1}
  PROVE  Spec => []OldestFreeable
<1>1. Init => Unaligned
  BY DEF Init, Unaligned
<1>2. RingInv /\ Unaligned /\ [Next]_vars => Unaligned'
  BY Alignments = {1}, UnalignedInv
<1>3. RingInv /\ Unaligned => OldestFreeable
  <2>. SUFFICES ASSUME RingInv, Unaligned, live # <<>>
                PROVE  Accepts(Head(live).ptr)
    BY DEF OldestFreeable
  <2>1. /\ 1 \in DOMAIN live
        /\ SuggestIndex(free_index_, heap[free_index_]) = live[1].index
    BY OldestBlock
  <2>2. Head(live) = live[1]
    BY DEF RingInv, TypeOK
  <2>. QED
    BY <2>1, <2>2 DEF Unaligned, Accepts
<1>. QED
  BY <1>1, <1>2, <1>3, RingInvariance, PTL DEF Spec

(* The ring implements the abstract allocator: blocks are disjoint and     *)
(* come back in the order they were handed out.                            *)
THEOREM Refinement == Spec => FifoSpec
<1>1. Init => Fifo!Init
  BY DEF Init, Fifo!Init
<1>2. RingInv => BlocksDisjoint
  BY RingDisjoint
<1>3. /\ RingInv /\ RingInv' /\ BlocksDisjoint'
      /\ [Next]_vars
      => [Fifo!Next]_live
  <2>. SUFFICES ASSUME RingInv, RingInv', BlocksDisjoint', [Next]_vars
                PROVE  Fifo!Next \/ live' = live
    OBVIOUS
  <2>1. ASSUME NEW bytes \in Bytes, NEW alignment \in Alignments,
               Alloc(bytes, alignment)
        PROVE  Fifo!Next
    <3>1. PICK b : live' = Append(live, b)
      BY <2>1 DEF Alloc
    <3>2. /\ live \in Seq(Block) /\ live' \in Seq(Block)
      BY DEF RingInv, TypeOK
    <3>3. /\ Len(live') = Len(live) + 1 /\ live'[Len(live')] = b
          /\ DOMAIN live' = 1 .. Len(live) + 1 /\ live' # <<>>
          /\ \A i \in DOMAIN live : /\ live'[i] = live[i] /\ i \in DOMAIN live'
                                   /\ i # Len(live')
          /\ Len(live') \in DOMAIN live'
      BY <3>1, <3>2
    <3>4. b \in Block
      BY <3>2, <3>3
    <3>5. \A i \in DOMAIN live : ~ Overlap(live[i], b)
      BY <3>3 DEF BlocksDisjoint, Overlap
    <3>. QED
      BY <3>1, <3>3, <3>4, <3>5 DEF Fifo!Next, Fifo!Alloc
  <2>2. ASSUME NEW i \in DOMAIN live, Free(i)
        PROVE  Fifo!Next
    BY <2>2, FreeEffect DEF Fifo!Next, Fifo!Free
  <2>3. ASSUME NEW i \in DOMAIN live, NEW word \in UserWords, UserWrite(i, word)
        PROVE  live' = live
    BY <2>3 DEF UserWrite
  <2>4. CASE Reset
    BY <2>4 DEF Reset, Fifo!Next, Fifo!Reset
  <2>5. CASE UNCHANGED vars
    BY <2>5 DEF vars
  <2>. QED
    BY <2>1, <2>2, <2>3, <2>4, <2>5 DEF Next
<1>. QED
  BY <1>1, <1>2, <1>3, RingInvariance, PTL DEF Spec, FifoSpec, Fifo!Spec

=============================================================================
