------------------------- MODULE MCOutboxPublisher -------------------------
(* Small instances of OutboxPublisher. *)
EXTENDS OutboxPublisher, TLC

Symmetry == Permutations(Item) \cup Permutations(Worker)
============================================================================
