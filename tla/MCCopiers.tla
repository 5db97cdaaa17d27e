----------------------------- MODULE MCCopiers ------------------------------
(* All base copiers, with vectors of two bytes instead of 32. *)
EXTENDS Copiers

=============================================================================
