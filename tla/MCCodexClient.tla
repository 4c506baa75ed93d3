--------------------------- MODULE MCCodexClient ---------------------------
(* The connection of CodexClient with a few tasks: the configurations give   *)
(* every kind of task as model values and bound the processes and the ids.   *)
EXTENDS CodexClient
=============================================================================
