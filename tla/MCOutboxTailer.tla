--------------------------- MODULE MCOutboxTailer ---------------------------
(* Small instances of OutboxTailer. *)
EXTENDS OutboxTailer
=============================================================================
