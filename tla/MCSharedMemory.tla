--------------------------- MODULE MCSharedMemory ---------------------------
(* Three processes of one thread each.                                     *)
EXTENDS SharedMemory

OneEach == [p \in Pids |-> p]

=============================================================================
