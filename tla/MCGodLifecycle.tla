--------------------------- MODULE MCGodLifecycle ---------------------------
(* Two tasks, one interaction of the owner at a time, and every thread of the  *)
(* relay; a single task and no failure where the end of a session is refuted.  *)
EXTENDS GodLifecycle
=============================================================================
