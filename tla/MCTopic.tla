------------------------------ MODULE MCTopic ------------------------------
(* One or two publishers and a subscriber.  Elements of the queue are      *)
(* numbers and publishers model values, so that Holders can mix them;      *)
(* blocks may be exchanged for each other, and so may publishers.          *)
EXTENDS Topic, TLC

Symmetry == Permutations(Blocks) \cup Permutations(Publishers)

=============================================================================
