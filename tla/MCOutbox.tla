------------------------------ MODULE MCOutbox ------------------------------
(* A row of each kind and small limits, so that batches, attempts and the cap  *)
(* of the table are all reached.                                               *)
EXTENDS Outbox
=============================================================================
