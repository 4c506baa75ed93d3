------------------------------ MODULE Deletions -------------------------------
(***************************************************************************)
(* Messages that begin with !god are taken out of Discord                   *)
(* (handle_sensitive_god_message and spawn_sensitive_deletion_flusher in    *)
(* bot.rs, the table sensitive_deletions in state.rs): the handler of a     *)
(* message records that it is to be deleted and tries a few times, the      *)
(* flusher tries again whatever is still recorded, also after a restart.    *)
(*                                                                          *)
(* Discord refuses a deletion in passing, and some (Stuck) for good, as     *)
(* where the relay may not delete; so does the store, in passing.           *)
(***************************************************************************)
EXTENDS Naturals, FiniteSets

CONSTANTS
    Messages,    \* bound: the messages that are posted
    Stuck,       \* those that Discord never lets the relay delete
    Newest, Oldest, \* rows the flusher reads from each end (25 each)
    Tries,       \* attempts of the handler (5)
    MaxFaults,   \* bound: refusals in passing, of Discord and of the store
    MaxRestarts  \* bound: restarts of the relay

VARIABLES
    discord,     \* "unsent", "there" or "gone", each message
    row,         \* when it was recorded, 0 when it is not
    h,           \* its handler: [pc, queued, tries]
    told,        \* those the owner was told to delete himself
    flusher,     \* [todo, on]: the rows read, and the one that was deleted
    clock, faults, restarts,
    missed       \* observed: the relay stopped before one was recorded

vars == <<discord, row, h, told, flusher, clock, faults, restarts, missed>>

Idle  == [pc |-> "idle", queued |-> FALSE, tries |-> 0]
Asleep == [todo |-> {}, on |-> {}]

Init ==
    /\ discord = [m \in Messages |-> "unsent"] /\ row = [m \in Messages |-> 0]
    /\ h = [m \in Messages |-> Idle] /\ told = {} /\ flusher = Asleep
    /\ clock = 0 /\ faults = 0 /\ restarts = 0 /\ missed = {}

-----------------------------------------------------------------------------
Fault == faults < MaxFaults /\ faults' = faults + 1
Fine  == UNCHANGED faults

Recorded == {m \in Messages : row[m] # 0}

(* pending_sensitive_deletions: the newest and the oldest, however often    *)
(* they were tried.  The order within the batch tells nothing apart.        *)
AmongNewest(m) == Cardinality({n \in Recorded : row[n] > row[m]}) < Newest
AmongOldest(m) == Cardinality({n \in Recorded : row[n] < row[m]}) < Oldest
(* Mutant of Batch: the newest only.                                        *)
BatchOfNewest == {m \in Recorded : AmongNewest(m)}
Batch == {m \in Recorded : AmongNewest(m) \/ AmongOldest(m)}

(* A message that is gone already (404, 10008) is as good as deleted.       *)
Deletes(m) ==
    /\ m \notin Stuck \/ discord[m] = "gone"
    /\ discord' = [discord EXCEPT ![m] = "gone"]

(* queue_sensitive_deletion, finish_sensitive_deletion: or the store fails. *)
Queue(m) ==
    /\ row' = [row EXCEPT ![m] = IF @ = 0 THEN clock + 1 ELSE @]
    /\ clock' = clock + 1
Finish(m) == row' = [row EXCEPT ![m] = 0] /\ UNCHANGED clock

Post(m) ==
    /\ discord[m] = "unsent"
    /\ discord' = [discord EXCEPT ![m] = "there"]
    /\ h' = [h EXCEPT ![m].pc = "queue"]
    /\ UNCHANGED <<row, told, flusher, clock, faults, restarts, missed>>

HandlerQueues(m) ==
    /\ h[m].pc = "queue"
    /\ \/ Queue(m) /\ Fine /\ h' = [h EXCEPT ![m] = [@ EXCEPT !.pc = "delete", !.queued = TRUE]]
       \/ Fault /\ UNCHANGED <<row, clock>> /\ h' = [h EXCEPT ![m].pc = "delete"]
    /\ UNCHANGED <<discord, told, flusher, restarts, missed>>

(* delete_sensitive_discord_message.                                        *)
HandlerDeletes(m) ==
    /\ h[m].pc = "delete"
    /\ \/ /\ Deletes(m) /\ Fine
          /\ h' = [h EXCEPT ![m].pc = IF h[m].queued THEN "finish" ELSE "done"]
       \/ /\ IF m \in Stuck THEN Fine ELSE Fault
          /\ h' = [h EXCEPT ![m] = [@ EXCEPT !.tries = @ + 1,
                        !.pc = IF h[m].tries + 1 < Tries THEN "delete"
                               ELSE IF h[m].queued THEN "done" ELSE "report"]]
          /\ UNCHANGED discord
    /\ UNCHANGED <<row, told, flusher, clock, restarts, missed>>

HandlerFinishes(m) ==
    /\ h[m].pc = "finish"
    /\ (Finish(m) /\ Fine) \/ (Fault /\ UNCHANGED <<row, clock>>)
    /\ h' = [h EXCEPT ![m].pc = "done"]
    /\ UNCHANGED <<discord, told, flusher, restarts, missed>>

(* report_unrecoverable_sensitive_deletion: the log, the audit, the alert.  *)
Report(m) ==
    /\ h[m].pc = "report"
    /\ told' = told \cup {m}
    /\ h' = [h EXCEPT ![m].pc = "done"]
    /\ UNCHANGED <<discord, row, flusher, clock, faults, restarts, missed>>

(* spawn_sensitive_deletion_flusher: every five seconds, one row at a time. *)
Tick ==
    /\ flusher = Asleep /\ Batch # {}
    /\ (Fine /\ flusher' = [todo |-> Batch, on |-> {}]) \/ (Fault /\ UNCHANGED flusher)
    /\ UNCHANGED <<discord, row, h, told, clock, restarts, missed>>

Retry(m) ==
    /\ m \in flusher.todo /\ flusher.on = {}
    /\ \/ Deletes(m) /\ Fine /\ flusher' = [todo |-> flusher.todo \ {m}, on |-> {m}]
       \/ /\ IF m \in Stuck THEN Fine ELSE Fault
          /\ flusher' = [flusher EXCEPT !.todo = @ \ {m}]
          /\ UNCHANGED discord
    /\ UNCHANGED <<row, h, told, clock, restarts, missed>>

RetryFinishes(m) ==
    /\ m \in flusher.on
    /\ (Finish(m) /\ Fine) \/ (Fault /\ UNCHANGED <<row, clock>>)
    /\ flusher' = [flusher EXCEPT !.on = {}]
    /\ UNCHANGED <<discord, h, told, restarts, missed>>

(* The relay stops and starts again: only Discord and the table remain.     *)
Restart ==
    /\ restarts < MaxRestarts /\ restarts' = restarts + 1
    /\ missed' = missed \cup {m \in Messages : h[m].pc \in {"queue", "delete", "report"} /\ row[m] = 0}
    /\ h' = [m \in Messages |-> [h[m] EXCEPT !.pc = IF @ = "idle" THEN @ ELSE "done"]]
    /\ flusher' = Asleep
    /\ UNCHANGED <<discord, row, told, clock, faults>>

Handle(m) == HandlerQueues(m) \/ HandlerDeletes(m) \/ HandlerFinishes(m) \/ Report(m)
Flush     == Tick \/ \E m \in Messages : Retry(m) \/ RetryFinishes(m)

Next == Flush \/ Restart \/ \E m \in Messages : Post(m) \/ Handle(m)

Spec == Init /\ [][Next]_vars
(* The handler runs to its end, the flusher's timer never stops.            *)
FairSpec == Spec /\ WF_vars(Flush) /\ \A m \in Messages : WF_vars(Handle(m))

-----------------------------------------------------------------------------
(* A row that is no longer there stands for a message that is gone.         *)
TypeOK ==
    /\ \A m \in Messages : discord[m] \in {"unsent", "there", "gone"} /\ row[m] \in 0..clock
    /\ clock <= Cardinality(Messages) /\ flusher.on \subseteq Messages
    /\ \A m \in Messages : h[m].pc = "done" /\ discord[m] = "there"
         => row[m] # 0 \/ m \in told \/ m \in missed

(* A message posted is deleted in the end, through refusals, restarts and   *)
(* messages that cannot be deleted, as long as these do not fill an end of  *)
(* the batch; or the owner is told that it could be neither deleted nor     *)
(* recorded; or (observed) the relay stopped before it was recorded.  What  *)
(* is over stays so: that nothing is left again and again says it of each.  *)
Over(m) == discord[m] = "gone" \/ m \in told \/ m \in missed \/ m \in Stuck
Caught  == \A m \in Messages : discord[m] = "there" => Over(m)
DeletionHappens == []<>Caught
=============================================================================
