----------------------------- MODULE MCChannel -----------------------------
(* One or two clients and a server. *)
EXTENDS Channel

CONSTANTS c1, c2

TwoAndOne == [c \in Clients |-> IF c = c1 THEN 2 ELSE 1]
TwoCalls == [c \in Clients |-> 2]
ThreeCalls == [c \in Clients |-> 3]

=============================================================================
