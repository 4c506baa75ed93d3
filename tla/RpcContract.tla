---------------------------- MODULE RpcContract ----------------------------
(***************************************************************************)
(* What CodexClient::request promises its callers, with no connection,     *)
(* process, lock or id in sight: a call that returns Ok was carried out by *)
(* the app-server, once, for this call; a call that returns an error may   *)
(* or may not have been.                                                   *)
(***************************************************************************)
CONSTANT Callers

VARIABLES
    outcome,  \* of the last call: "none", "run" while it runs, "ok" or "error"
    handled   \* whether the app-server carried out the call that is running

vars == <<outcome, handled>>

Init == outcome = [c \in Callers |-> "none"] /\ handled = [c \in Callers |-> FALSE]

Call(c) ==
    /\ outcome[c] # "run"
    /\ outcome' = [outcome EXCEPT ![c] = "run"]
    /\ UNCHANGED handled

Handle(c) ==
    /\ outcome[c] = "run" /\ ~handled[c]
    /\ handled' = [handled EXCEPT ![c] = TRUE]
    /\ UNCHANGED outcome

ReturnOk(c) ==
    /\ outcome[c] = "run" /\ handled[c]
    /\ outcome' = [outcome EXCEPT ![c] = "ok"]
    /\ handled' = [handled EXCEPT ![c] = FALSE]

ReturnError(c) ==
    /\ outcome[c] = "run"
    /\ outcome' = [outcome EXCEPT ![c] = "error"]
    /\ handled' = [handled EXCEPT ![c] = FALSE]

Next == \E c \in Callers : Call(c) \/ Handle(c) \/ ReturnOk(c) \/ ReturnError(c)

Spec == Init /\ [][Next]_vars
=============================================================================
