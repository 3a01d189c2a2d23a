------------------------- MODULE MCStreamDelivery -------------------------
(* Small instances of StreamDelivery. *)
EXTENDS StreamDelivery, TLC

CONSTANTS i1, i2

Unfiltered == [c \in Client |-> None]
Filtered   == [c \in Client |-> i1]

Symmetry == Permutations(Worker) \cup Permutations(Client)
============================================================================
