---------------------------- MODULE MCAllocator ----------------------------
(* A small heap with requests from one byte to more than half of it.      *)
EXTENDS Allocator

=============================================================================
