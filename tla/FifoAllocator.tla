--------------------------- MODULE FifoAllocator ---------------------------
(***************************************************************************)
(* What the users of a heap in shared memory rely on: blocks are handed    *)
(* out so that no two outstanding blocks overlap, and they are given back  *)
(* in the order they were handed out.  `Allocator` implements this         *)
(* specification with two indices into a ring of words; `Topic` uses it    *)
(* instead of the ring.                                                    *)
(***************************************************************************)
EXTENDS Integers, Sequences

CONSTANTS Blocks,         \* the blocks that may be handed out
          Overlap(_, _)   \* whether two blocks share memory

VARIABLE live             \* the outstanding blocks, oldest first

(* No block has been handed out. *)
Init == live = <<>>

(* Hand out a block that is disjoint from every outstanding one. *)
Alloc(block) ==
  /\ block \in Blocks
  /\ \A i \in DOMAIN live : ~ Overlap(live[i], block)
  /\ live' = Append(live, block)

(* Give a block back: only the oldest one is accepted. *)
Free(block) ==
  /\ live # <<>>
  /\ block = Head(live)
  /\ live' = Tail(live)

(* Forget every outstanding block. *)
Reset == live' = <<>>

(* The block handed out is read off the next state, so that no set of     *)
(* blocks needs to be enumerated.                                         *)
Next ==
  \/ live' # <<>> /\ Alloc(live'[Len(live')])
  \/ live # <<>> /\ Free(Head(live))
  \/ Reset

Spec == Init /\ [][Next]_live

=============================================================================
