---------------------------- MODULE MCRobustLock ----------------------------
(* Two processes, of which one has two threads.                            *)
EXTENDS RobustLock, TLC

CONSTANTS t1, t2, t3, p1, p2

TwoInOne == (t1 :> p1) @@ (t2 :> p1) @@ (t3 :> p2)

AllOperations == {"lock", "try_lock", "lock_sharable", "try_lock_sharable"}

(* All places. *)
Anywhere == {"idle", "try", "last", "own", "insert", "insert_cas", "check",
             "recover", "release", "prune", "prune_unlock", "held",
             "remove", "remove_cas", "unlock"}

=============================================================================
