--------------------------- MODULE MCSegmentLock ---------------------------
(* Three processes of one thread each that use the allocator's lock.       *)
EXTENDS SegmentLock

OneEach == [p \in Pids |-> p]

(* The places from which a process may be on the record of the lock.       *)
OnRecord == {"idle", "held"}

=============================================================================
