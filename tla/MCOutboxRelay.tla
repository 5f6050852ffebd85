---------------------------- MODULE MCOutboxRelay ----------------------------
(* Small instances of OutboxRelay.  No symmetry: liveness is checked.       *)
EXTENDS OutboxRelay
=============================================================================
