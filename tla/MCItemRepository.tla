------------------------- MODULE MCItemRepository -------------------------
(* Small instances of ItemRepository. *)
EXTENDS ItemRepository, TLC

Symmetry == Permutations(Item) \cup Permutations(Request)
============================================================================
