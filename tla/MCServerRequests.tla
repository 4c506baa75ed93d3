-------------------------- MODULE MCServerRequests --------------------------
(* The requests of one or two app-server processes, with as many ids, owner  *)
(* interactions and gateway sessions as each configuration bounds them to.   *)
EXTENDS ServerRequests
=============================================================================
