----------------------------- MODULE MCIngestion -----------------------------
(* A channel with a few messages, read in pages of one.                        *)
EXTENDS Ingestion
=============================================================================
