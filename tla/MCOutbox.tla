------------------------------ MODULE MCOutbox ------------------------------
(* The outbox with a few rows and a few faults. *)
EXTENDS Outbox
=============================================================================
