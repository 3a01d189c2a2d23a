------------------------------ MODULE MCResync ------------------------------
(* Small instances of Resync. *)
EXTENDS Resync

Symmetry == Permutations(Item)
=============================================================================
