--------------------------- MODULE MCAnswerStreams ---------------------------
(* One or two threads; how many turns, messages and deltas is for each         *)
(* configuration to say.                                                       *)
EXTENDS AnswerStreams
=============================================================================
