----------------------------- MODULE TaskMirror -----------------------------
(***************************************************************************)
(* The mirror of the Codex tasks in the relay (bot.rs, state.rs,            *)
(* provision.rs): one row and one channel a task.  Every handler works the  *)
(* same way: it reads the row, calls Codex or Discord, and writes the row   *)
(* back as a whole (StateStore::upsert_task), with nothing that keeps two   *)
(* handlers of a task apart.  The rows are written by the consumer of the   *)
(* notifications, by the interactions and messages of the owner, and by the *)
(* reconciliation when the gateway is ready.                                *)
(*                                                                          *)
(* A handler is at one of its steps (First, Then), which are in the order of *)
(* the code, with the place of the write among them.  Titles are numbers,   *)
(* and so are turns and channels.                                           *)
(***************************************************************************)
EXTENDS Naturals, FiniteSets, Sequences

CONSTANTS
    Tasks,
    Consumer, Boot, Owners,  \* the threads that write rows
    PruneAt,      \* prune_at_channels
    PruneTo,      \* prune_to_channels
    MaxTurns,     \* bound: turns of all tasks
    MaxCalls,     \* bound: handlers of the owner and reconciliations
    MaxChannels,  \* bound: channels created
    MaxFaults     \* bound: refusals of Discord, and events lost by a slow consumer

Threads == {Consumer, Boot} \cup Owners
None    == 0   \* no turn, no channel

VARIABLES
    codex,        \* Codex: [turn, title, archived] of every task
    events,       \* the notifications the consumer has not received
    rows,         \* task_mirrors: [exists, state, turn_id, title, channel_id]
    channels,     \* Discord: [task, category, alive] of every channel created
    th,           \* the handler each thread is in
    next,         \* turns started, calls made, faults met
    turnOff,      \* observed: tasks whose turn in the row was written amiss
    restOff       \* observed: tasks whose title or channel was

vars == <<codex, events, rows, channels, th, next, turnOff, restOff>>

NoRow == [exists |-> FALSE, state |-> "idle", turn_id |-> None, title |-> 0,
          channel_id |-> None]
Idle  == [at |-> "none"]

Alive(c) == c \in DOMAIN channels /\ channels[c].alive
Busy(p)  == th[p].at # "none"

(* Some tasks have a mirror from an earlier run, the others are only in     *)
(* Codex.  A turn of a mirrored task may have begun or ended since then.    *)
Init ==
    /\ events = <<>>
    /\ \E mirrored \in {{}} \cup {{t} : t \in Tasks},
          running, said \in {None, 1} \cap (0..MaxTurns) :
        /\ mirrored = {} => running = None /\ said = None
        /\ codex = [t \in Tasks |->
                      [turn |-> IF t \in mirrored THEN running ELSE None,
                       title |-> 0, archived |-> FALSE]]
        /\ rows = [t \in Tasks |->
                     IF t \in mirrored
                     THEN [NoRow EXCEPT !.exists = TRUE, !.channel_id = 1, !.turn_id = said,
                                        !.state = IF said = None THEN "idle" ELSE "running"]
                     ELSE NoRow]
        /\ channels = IF mirrored = {} THEN <<>>
                      ELSE <<[task |-> CHOOSE t \in mirrored : TRUE, alive |-> TRUE,
                              category |-> IF said = None THEN "done" ELSE "running"]>>
        /\ next = [turns |-> IF {running, said} = {None} THEN 0 ELSE 1,
                   calls |-> 0, faults |-> 0]
        /\ turnOff = IF running = said THEN {} ELSE mirrored
    /\ th = [p \in Threads |-> Idle]
    /\ restOff = {}

-----------------------------------------------------------------------------
(* What each handler does after it has read the row, step by step.          *)
Words == {"started", "completed", "closed"}   \* of a turn

First(job) ==
    CASE job \in Words \cup {"unarchived"} -> "place"
      [] job \in {"active", "inactive", "named", "touch"} -> "write"
      [] job \in {"dispatch", "rename", "archive", "open", "resume", "follow"} -> "call"
      [] job = "reconcile" -> "look"

Then(job, at) ==
    CASE at = "call" -> (CASE job = "open"   -> "look"
                           [] job = "rename" -> "retitle"
                           [] job = "follow" -> "place"
                           [] OTHER          -> "write")
      [] at = "look"    -> IF job = "open" THEN "forget" ELSE "call"
      [] at = "forget"  -> "prune"
      [] at = "prune"   -> "delete"
      [] at = "delete"  -> "create"
      [] at = "detach"  -> "delete"
      [] at \in {"create", "retitle"} -> "write"
      [] at = "write"   ->
            IF job \in {"active", "inactive", "dispatch", "archive", "resume"}
            THEN "place" ELSE "none"
      [] at = "place"   -> IF job \in Words \cup {"unarchived"} THEN "write" ELSE "none"

(* copy: the row as it was read.  fresh: nobody wrote the row since then,   *)
(* recent: nobody did since Codex was last asked.                           *)
Handler(job, t, arg) ==
    [at |-> First(job), job |-> job, task |-> t, copy |-> rows[t],
     arg |-> arg, fresh |-> TRUE, recent |-> TRUE, doomed |-> {}]

Here(p, step) == th[p].at = step
Left(p)       == [th[p] EXCEPT !.at = Then(th[p].job, @)]
Rested(h)     == IF h.at = "none" THEN Idle ELSE h
Go(p, h)      == th' = [th EXCEPT ![p] = Rested(h)]
Fault         == next.faults < MaxFaults /\ next' = [next EXCEPT !.faults = @ + 1]

(* The row the handler writes: its copy with what it has learned.           *)
Category(state) == IF state = "running" THEN "running" ELSE "done"
(* Mutant of Written: a turn that is over stays in the row.                 *)
WrittenWithTurn(h) ==
    LET row == h.copy
    IN  CASE h.job = "started"   -> [row EXCEPT !.state = "running", !.turn_id = h.arg]
          [] h.job \in {"completed", "closed"} -> [row EXCEPT !.state = "done"]
          [] h.job = "unarchived" -> [row EXCEPT !.state = "idle"]
          [] h.job = "active"    -> [row EXCEPT !.state = "running"]
          [] h.job = "inactive"  -> [row EXCEPT !.state = "idle"]
          [] h.job \in {"named", "rename"} -> [row EXCEPT !.title = h.arg]
          [] h.job = "touch"     -> row
          [] h.job \in {"dispatch", "resume", "follow"} ->
                                    [row EXCEPT !.state = "running", !.turn_id = h.arg]
          [] h.job = "archive"   -> [row EXCEPT !.state = "done"]
          [] h.job = "reconcile" ->
                [row EXCEPT !.turn_id = h.arg,
                            !.state = IF h.arg = None THEN "idle" ELSE "running"]
          [] h.job = "open"      -> [exists |-> TRUE, state |-> "idle",
                                     turn_id |-> None, title |-> h.copy.title,
                                     channel_id |-> h.arg]

Written(h) ==
    LET row == h.copy
    IN  CASE h.job = "started"   -> [row EXCEPT !.state = "running", !.turn_id = h.arg]
          [] h.job \in {"completed", "closed"} ->
                                    [row EXCEPT !.state = "done", !.turn_id = None]
          [] h.job = "unarchived" -> [row EXCEPT !.state = "idle"]
          [] h.job = "active"    -> [row EXCEPT !.state = "running"]
          [] h.job = "inactive"  -> [row EXCEPT !.state = "idle"]
          [] h.job \in {"named", "rename"} -> [row EXCEPT !.title = h.arg]
          [] h.job = "touch"     -> row
          [] h.job \in {"dispatch", "resume", "follow"} ->
                                    [row EXCEPT !.state = "running", !.turn_id = h.arg]
          [] h.job = "archive"   -> [row EXCEPT !.state = "done"]
          [] h.job = "open"      -> [exists |-> TRUE, state |-> "idle",
                                     turn_id |-> None, title |-> h.copy.title,
                                     channel_id |-> h.arg]
          [] h.job = "reconcile" ->
                [row EXCEPT !.turn_id = h.arg,
                            !.state = IF h.arg = None THEN "idle" ELSE "running"]

Turn(row) == <<row.turn_id, row.state = "running">>
Rest(row) == <<row.title, row.channel_id>>
(* The handlers that write a turn Codex has told them, not the one they read. *)
Asked == {"dispatch", "resume", "reconcile", "started", "completed", "closed"}

(* upsert_task, and what the observer makes of it: a part that another      *)
(* handler has written since this one looked, and that this one changes.    *)
Store(p, h, row) ==
    LET t == h.task
        current == IF h.job \in Asked THEN h.recent ELSE h.fresh
    IN  /\ rows' = [rows EXCEPT ![t] = row]
        /\ turnOff' = IF ~current /\ Turn(row) # Turn(rows[t]) THEN turnOff \cup {t}
                      ELSE IF h.job = "reconcile" /\ h.recent THEN turnOff \ {t}
                      ELSE IF h.job = "open" /\ codex[t].turn # None
                           THEN turnOff \cup {t}
                      ELSE turnOff
        /\ restOff' = IF ~h.fresh /\ Rest(row) # Rest(rows[t])
                      THEN restOff \cup {t} ELSE restOff

(* What the others know of the task is older than the task from now on.     *)
Aged(p, t, mine) ==
    [q \in Threads |->
        IF q = p THEN Rested(mine)
        ELSE IF Busy(q) /\ th[q].task = t
             THEN [th[q] EXCEPT !.fresh = FALSE, !.recent = FALSE]
             ELSE th[q]]

-----------------------------------------------------------------------------
(* Codex.                                                                   *)
Event(t, kind, arg) == [task |-> t, kind |-> kind, arg |-> arg]

TurnEnds(t) ==
    /\ codex[t].turn # None
    /\ codex' = [codex EXCEPT ![t].turn = None]
    /\ \E told \in {<<Event(t, "completed", None)>>,
                    <<Event(t, "completed", None), Event(t, "inactive", None)>>,
                    <<Event(t, "inactive", None), Event(t, "completed", None)>>} :
        events' = events \o told
    /\ UNCHANGED <<rows, channels, th, next, turnOff, restOff>>

(* The receiver lags: what it was too slow for is not delivered.            *)
Overrun ==
    /\ events # <<>> /\ Fault
    /\ events' = Tail(events)
    /\ turnOff' = turnOff \cup {Head(events).task}
    /\ restOff' = restOff \cup {Head(events).task}
    /\ th' = Aged(Consumer, Head(events).task, th[Consumer])
    /\ UNCHANGED <<codex, rows, channels>>

-----------------------------------------------------------------------------
(* handle_notification, apply_thread_status: nothing without a row, and     *)
(* nothing for a status the row has.                                        *)
Receive ==
    /\ ~Busy(Consumer) /\ events # <<>>
    /\ LET e == Head(events)
           same == \/ e.kind = "active" /\ rows[e.task].state = "running"
                   \/ e.kind = "inactive" /\ rows[e.task].state = "idle"
       IN  Go(Consumer, IF same \/ ~rows[e.task].exists THEN Idle ELSE Handler(e.kind, e.task, e.arg))
    /\ events' = Tail(events)
    /\ UNCHANGED <<codex, rows, channels, next, turnOff, restOff>>

(* ingestion_locks: a message and the reconciliation of its channel.        *)
LockFree(t) ==
    \A q \in Threads :
        Busy(q) /\ th[q].task = t =>
            \/ th[q].job \notin {"dispatch", "resume", "follow", "reconcile"}
            \/ th[q].job = "reconcile" /\ Here(q, "look")

Ask(p, job, t, arg) ==
    /\ ~Busy(p) /\ next.calls < MaxCalls
    /\ next' = [next EXCEPT !.calls = @ + 1]
    /\ Go(p, Handler(job, t, arg))
    /\ UNCHANGED <<codex, events, rows, channels, turnOff, restOff>>

(* task_for_channel: in the channel of the task.                            *)
InChannel(t) == rows[t].exists /\ Alive(rows[t].channel_id)

Message(p, t)  == InChannel(t) /\ LockFree(t) /\ Ask(p, "dispatch", t, None)
Rename(p, t)   == InChannel(t) /\ Ask(p, "rename", t, next.calls + 1)
Archive(p, t)  == InChannel(t) /\ Ask(p, "archive", t, None)
SetModel(p, t) == InChannel(t) /\ Ask(p, "touch", t, None)
Open(p, t)     == Ask(p, "open", t, None)
Ready(t)       == rows[t].exists /\ Ask(Boot, "reconcile", t, None)

-----------------------------------------------------------------------------
(* The calls of Codex, and what they are answered with.                     *)
Answered(p, arg) == Go(p, [Left(p) EXCEPT !.arg = arg, !.recent = TRUE])
Refused(p)       == Go(p, Idle)
Silent           == UNCHANGED <<codex, events>>

(* turn/steer wants the turn that is running; turn/start on a running task  *)
(* goes to that turn or is refused.                                         *)
Steer(p, t, expected) ==
    /\ Silent /\ UNCHANGED next
    /\ IF expected # None /\ codex[t].turn = expected
       THEN Answered(p, expected) ELSE Refused(p)
StartTurn(p, t) ==
    \/ /\ codex[t].archived \/ codex[t].turn # None
       /\ Refused(p) /\ Silent /\ UNCHANGED next
    \/ /\ codex[t].turn # None
       /\ Answered(p, codex[t].turn) /\ Silent /\ UNCHANGED next
    \/ /\ codex[t].turn = None /\ ~codex[t].archived /\ next.turns < MaxTurns
       /\ codex' = [codex EXCEPT ![t].turn = next.turns + 1]
       /\ next' = [next EXCEPT !.turns = @ + 1]
       /\ Answered(p, next.turns + 1)
       /\ \E told \in {<<>>, <<Event(t, "active", None)>>} :
            events' = events \o told \o <<Event(t, "started", next.turns + 1)>>

CallOf(p, h, t) ==
    \/ /\ h.job = "dispatch"
       /\ IF h.copy.state = "running" THEN Steer(p, t, h.copy.turn_id)
          ELSE StartTurn(p, t)
    \/ h.job = "follow" /\ Steer(p, t, h.arg)
    \/ h.job = "resume" /\ StartTurn(p, t)
    \/ /\ h.job = "rename"
       /\ codex' = [codex EXCEPT ![t].title = h.arg]
       /\ events' = Append(events, Event(t, "named", h.arg))
       /\ Answered(p, h.arg) /\ UNCHANGED next
    \/ /\ h.job = "archive"
       /\ codex' = [codex EXCEPT ![t].archived = TRUE, ![t].turn = None]
       /\ events' = Append(events, Event(t, "closed", None))
       /\ Answered(p, None) /\ UNCHANGED next
    \/ /\ h.job = "open"
       /\ codex' = [codex EXCEPT ![t].archived = FALSE]
       /\ events' = IF codex[t].archived
                    THEN Append(events, Event(t, "unarchived", None)) ELSE events
       /\ Answered(p, None) /\ UNCHANGED next
    \/ /\ h.job = "reconcile"
       /\ Answered(p, codex[t].turn) /\ Silent /\ UNCHANGED next

Call(p) ==
    /\ Here(p, "call") /\ CallOf(p, th[p], th[p].task)
    /\ UNCHANGED <<rows, channels, turnOff, restOff>>

-----------------------------------------------------------------------------
(* The row, written as a whole.                                             *)
Write(p) ==
    /\ Here(p, "write")
    /\ LET h == th[p]
           row == Written(h)
           after == [Left(p) EXCEPT !.copy = row]
       IN  /\ Store(p, h, row)
           /\ th' = Aged(p, h.task, after)
    /\ th[p].job # "reconcile"
    /\ UNCHANGED <<codex, events, channels, next>>

(* reconcile_task goes on with the messages that came meanwhile, if any.    *)
Reconciled(p) ==
    /\ Here(p, "write") /\ th[p].job = "reconcile"
    /\ LET h == th[p]
           row == Written(h)
           job == IF h.arg = None THEN "resume" ELSE "follow"
       IN  /\ Store(p, h, row)
           /\ \/ th' = Aged(p, h.task, Idle)
              \/ th' = Aged(p, h.task, [h EXCEPT !.job = job, !.at = First(job),
                                                 !.copy = row, !.fresh = TRUE])
    /\ UNCHANGED <<codex, events, channels, next>>

-----------------------------------------------------------------------------
(* Discord.  A handler returns at a refusal, whatever it has not written.   *)
GivenUp(p) ==
    LET h == th[p]
    IN  /\ turnOff' = IF h.job \in {"started", "completed", "closed"}
                      THEN turnOff \cup {h.task} ELSE turnOff
        /\ th' = Aged(p, h.task, Idle)

(* provision::move_task_to_state                                            *)
Place(p) ==
    /\ Here(p, "place")
    /\ LET c == th[p].copy.channel_id
       IN  IF c = None
           THEN Go(p, Left(p)) /\ UNCHANGED <<channels, turnOff, next>>
           ELSE \/ /\ Alive(c)
                   /\ channels' = [channels EXCEPT ![c].category =
                                     Category(Written(th[p]).state)]
                   /\ Go(p, Left(p)) /\ UNCHANGED <<turnOff, next>>
                \/ /\ IF Alive(c) THEN Fault ELSE UNCHANGED next
                   /\ GivenUp(p) /\ UNCHANGED channels
    /\ UNCHANGED <<codex, events, rows, restOff>>

(* provision::rename_task_channel, before the row of a renamed task.        *)
Retitle(p) ==
    /\ Here(p, "retitle")
    /\ \/ Alive(th[p].copy.channel_id) /\ Go(p, Left(p)) /\ UNCHANGED next
       \/ /\ IF Alive(th[p].copy.channel_id) THEN Fault ELSE UNCHANGED next
          /\ Go(p, Idle)
    /\ UNCHANGED <<codex, events, rows, channels, turnOff, restOff>>

(* Mutant of Detach: the row keeps the channel that was deleted.            *)
DetachNot(p, t, mine) ==
    /\ UNCHANGED rows
    /\ th' = Aged(p, t, mine)

(* detach_channel: the one column.                                          *)
Detach(p, t, mine) ==
    /\ rows' = [rows EXCEPT ![t].channel_id = None]
    /\ th' = Aged(p, t, mine)

(* to_channel: any error of it is taken for a channel that is not there.    *)
Missing(c) ==
    /\ c # None
    /\ IF Alive(c) THEN Fault ELSE UNCHANGED next

(* detach_channel, by the task: whatever channel the row has by now.        *)
DetachTask(p, c, mine) ==
    LET t == th[p].task
    IN  /\ Detach(p, t, mine)
        /\ restOff' = IF Alive(c) \/ rows[t].channel_id \notin {c, None}
                      THEN restOff \cup {t} ELSE restOff

(* open_selected_task reads the row, and then asks for its channel.         *)
LookOpen(p) ==
    /\ Here(p, "look") /\ th[p].job = "open"
    /\ Go(p, [Left(p) EXCEPT !.copy = rows[th[p].task], !.fresh = TRUE])
    /\ UNCHANGED <<codex, events, rows, channels, next, turnOff, restOff>>

Forget(p) ==
    /\ Here(p, "forget")
    /\ LET c == th[p].copy.channel_id
       IN  \/ Missing(c) /\ DetachTask(p, c, [Left(p) EXCEPT !.copy.channel_id = None])
          \/ /\ c = None \/ Alive(c)
             /\ Go(p, IF c = None THEN Left(p) ELSE Idle)
             /\ UNCHANGED <<rows, next, restOff>>
    /\ UNCHANGED <<codex, events, channels, turnOff>>

(* The reconciliation asks for the one in the row of its snapshot, under     *)
(* the lock of that channel.                                                *)
LookReconcile(p) ==
    /\ Here(p, "look") /\ th[p].job = "reconcile"
    /\ LockFree(th[p].task)
    /\ LET c == th[p].copy.channel_id
       IN  \/ Missing(c) /\ DetachTask(p, c, Idle)
          \/ /\ c = None \/ Alive(c)
             /\ Go(p, IF c = None THEN Idle ELSE Left(p))
             /\ UNCHANGED <<rows, next, restOff>>
    /\ UNCHANGED <<codex, events, channels, turnOff>>

(* prune_completed_mirrors: the oldest of the completed, as it lists them.  *)
Prune(p) ==
    /\ Here(p, "prune")
    /\ LET all  == {c \in DOMAIN channels : Alive(c)}
           done == {c \in all : channels[c].category = "done"}
           much == IF Cardinality(all) < PruneAt THEN 0 ELSE Cardinality(all) - PruneTo
       IN  Go(p, [Left(p) EXCEPT
                    !.copy.title = codex[th[p].task].title,
                    !.doomed = {c \in done : Cardinality({d \in done : d < c}) < much}])
    /\ UNCHANGED <<codex, events, rows, channels, next, turnOff, restOff>>

Delete(p) ==
    /\ Here(p, "delete")
    /\ \/ th[p].doomed = {} /\ Go(p, Left(p)) /\ UNCHANGED channels
       \/ \E c \in th[p].doomed :
            /\ \A d \in th[p].doomed : c <= d
            /\ IF ~Alive(c) THEN Go(p, Idle) /\ UNCHANGED channels
               ELSE /\ channels' = [channels EXCEPT ![c].alive = FALSE]
                    /\ Go(p, [th[p] EXCEPT !.at = "detach", !.arg = c,
                                           !.doomed = @ \ {c}])
    /\ UNCHANGED <<codex, events, rows, next, turnOff, restOff>>

(* detach_channel_id: whatever row has that channel by now; none has when    *)
(* the handler that created it has not written its row yet.                 *)
Detached(p) ==
    /\ Here(p, "detach")
    /\ LET c == th[p].arg
           owners == {t \in Tasks : rows[t].channel_id = c}
       IN  \/ \E t \in owners : Detach(p, t, Left(p)) /\ UNCHANGED restOff
           \/ /\ owners = {}
              /\ Go(p, Left(p)) /\ UNCHANGED rows
              /\ restOff' = restOff \cup {channels[c].task}
    /\ UNCHANGED <<codex, events, channels, next, turnOff>>

Create(p) ==
    /\ Here(p, "create")
    /\ \/ /\ Len(channels) < MaxChannels
          /\ channels' = Append(channels, [task |-> th[p].task, category |-> "done",
                                           alive |-> TRUE])
          /\ Go(p, [Left(p) EXCEPT !.arg = Len(channels) + 1])
          /\ UNCHANGED next
       \/ Fault /\ Go(p, Idle) /\ UNCHANGED channels
    /\ UNCHANGED <<codex, events, rows, turnOff, restOff>>

(* The owner deletes a channel: nobody tells the relay.                     *)
OwnerDeletes(c) ==
    /\ Alive(c) /\ Fault
    /\ channels' = [channels EXCEPT ![c].alive = FALSE]
    /\ restOff' = restOff \cup {channels[c].task}
    /\ UNCHANGED <<codex, events, rows, th, turnOff>>

Step(p) ==
    \/ Call(p) \/ Write(p) \/ Reconciled(p) \/ Place(p) \/ Retitle(p)
    \/ LookOpen(p) \/ Forget(p) \/ LookReconcile(p) \/ Prune(p) \/ Delete(p)
    \/ Detached(p) \/ Create(p)

Next ==
    \/ \E t \in Tasks : TurnEnds(t) \/ Ready(t)
    \/ Overrun \/ Receive
    \/ \E p \in Owners, t \in Tasks :
        Message(p, t) \/ Rename(p, t) \/ Archive(p, t) \/ SetModel(p, t) \/ Open(p, t)
    \/ \E p \in Threads : Step(p)
    \/ \E c \in DOMAIN channels : OwnerDeletes(c)

Spec == Init /\ [][Next]_vars

-----------------------------------------------------------------------------
TypeOK ==
    /\ \A t \in Tasks :
        /\ codex[t].turn \in 0..MaxTurns /\ codex[t].archived \in BOOLEAN
        /\ rows[t].turn_id \in 0..MaxTurns /\ rows[t].exists \in BOOLEAN
        /\ rows[t].state \in {"idle", "running", "done"}
        /\ rows[t].channel_id \in {None} \cup DOMAIN channels
    /\ \A p \in Threads : Busy(p) => th[p].task \in Tasks
    /\ Len(channels) <= MaxChannels
    /\ turnOff \cup restOff \subseteq Tasks

Quiet(t) ==
    /\ \A n \in DOMAIN events : events[n].task # t
    /\ \A p \in Threads : Busy(p) =>
        /\ th[p].task # t
        /\ Here(p, "detach") => rows[t].channel_id # th[p].arg

(* When nothing of a task is under way, its row has the turn Codex runs and *)
(* says so: whatever order the answers, the notifications and the           *)
(* reconciliation came in.  Except (observed) when a handler wrote over a    *)
(* turn that another had written since it looked, gave up before its write, *)
(* or never got the event; the next reconciliation on its own puts it right. *)
TurnAgrees ==
    \A t \in Tasks \ turnOff :
        Quiet(t) /\ rows[t].exists =>
            /\ rows[t].turn_id = codex[t].turn
            /\ rows[t].state = "running" <=> codex[t].turn # None

(* Then, too, its title is the one in Codex, and its channel is there, its   *)
(* own, and the only one: pruning takes row and channel apart together, and *)
(* an opened task gets one channel.  Except (observed) after a lost write,   *)
(* two openings at once, a channel pruned before its row was written, or one *)
(* its owner deleted.                                                       *)
RestAgrees ==
    \A t \in Tasks \ restOff :
        Quiet(t) /\ rows[t].exists =>
            /\ rows[t].title = codex[t].title
            /\ {c \in DOMAIN channels : channels[c].task = t /\ channels[c].alive}
                 = {rows[t].channel_id} \ {None}

-----------------------------------------------------------------------------
(* Why it is so: a part of a row that is not what Codex has is one of which  *)
(* a word is on its way, as long as nothing was written amiss.  A handler   *)
(* that is not stale writes what it has read or been told.                  *)
Kinds == Words \cup {"active", "inactive", "unarchived", "named"}
Jobs  == Kinds \cup {"touch", "dispatch", "rename", "archive", "open", "reconcile",
                     "resume", "follow"}

Row == [exists : BOOLEAN, state : {"idle", "running", "done"}, turn_id : 0..MaxTurns,
        title : Nat, channel_id : Nat]
Steps == {"place", "write", "call", "retitle", "look", "forget", "prune", "delete",
          "detach", "create"}
Handlers == [at : Steps, job : Jobs, task : Tasks, copy : Row, arg : Nat,
             fresh : BOOLEAN, recent : BOOLEAN, doomed : SUBSET Nat]

(* The steps of a handler.                                                  *)
Places(job) ==
    CASE job \in Words \cup {"unarchived", "active", "inactive"} -> {"place", "write"}
      [] job \in {"named", "touch"} -> {"write"}
      [] job \in {"dispatch", "archive", "resume"} -> {"call", "write", "place"}
      [] job = "rename" -> {"call", "retitle", "write"}
      [] job = "open" -> {"call", "look", "forget", "prune", "delete", "detach", "create", "write"}
      [] job = "reconcile" -> {"look", "call", "write"}
      [] job = "follow" -> {"call", "place"}

Creating(p) == Here(p, "write") /\ th[p].job = "open"

Fits(h, known) ==
    /\ h \in Handlers /\ h.at \in Places(h.job)
    /\ h.copy.channel_id \in {None} \cup known /\ h.doomed \subseteq known
    /\ h.job \in Asked => h.arg \in 0..MaxTurns
    /\ h.at = "detach" \/ (h.job = "open" /\ h.at = "write") => h.arg \in known
    /\ h.job \in Words => (h.arg = None <=> h.job # "started")
    /\ h.job \in {"dispatch", "resume"} /\ h.at = "write" => h.arg # None

Shape ==
    /\ codex \in [Tasks -> [turn : 0..MaxTurns, title : Nat, archived : BOOLEAN]]
    /\ events \in Seq([task : Tasks, kind : Kinds, arg : Nat])
    /\ rows \in [Tasks -> Row]
    /\ \A t \in Tasks : rows[t].channel_id \in {None} \cup DOMAIN channels
    /\ channels \in Seq([task : Tasks, category : {"running", "done"}, alive : BOOLEAN])
    /\ Len(channels) <= MaxChannels
    /\ DOMAIN th = Threads
    /\ \A p \in Threads : th[p] = Idle \/ Fits(th[p], DOMAIN channels)
    /\ \A p \in Threads : Busy(p) => (th[p].job \in Kinds <=> p = Consumer)
    /\ next \in [turns : 0..MaxTurns, calls : Nat, faults : Nat]
    /\ turnOff \subseteq Tasks /\ restOff \subseteq Tasks

(* The notifications of a task in a sequence, and that they end in what     *)
(* Codex has of it.                                                         *)
Among(told, t, kinds) == {n \in DOMAIN told : told[n].task = t /\ told[n].kind \in kinds}

EndsIn(told, t, c) ==
    /\ \A n \in Among(told, t, Words) :
        /\ told[n].arg \in 0..MaxTurns
        /\ told[n].arg = None <=> told[n].kind # "started"
        /\ (\A m \in Among(told, t, Words) : m <= n) => told[n].arg = c.turn
    /\ \A n \in Among(told, t, {"active"}) : \E m \in Among(told, t, {"started"}) : n < m
    /\ \A n \in Among(told, t, {"inactive", "unarchived"}) :
          (\A m \in Among(told, t, Words) : m < n) => c.turn = None
    /\ \A n \in Among(told, t, {"named"}) :
          (\A m \in Among(told, t, {"named"}) : m <= n) => told[n].arg = c.title

Hearing(t, kinds) ==
    Busy(Consumer) /\ th[Consumer].task = t /\ th[Consumer].job \in kinds
Spoken(t) ==
    \/ Among(events, t, Words) # {}
    \/ Hearing(t, Words) /\ th[Consumer].arg = codex[t].turn
Titled(t) == Among(events, t, {"named"}) # {} \/ Hearing(t, {"named"})

Known(t) ==
    /\ EndsIn(events, t, codex[t])
    /\ \/ Among(events, t, Kinds) # {} \/ codex[t].turn # None \/ codex[t].archived
       => rows[t].exists
    /\ codex[t].archived => codex[t].turn = None
    /\ rows[t].channel_id # None => rows[t].exists

(* The turn.                                                                *)
TurnFits(p) ==
    LET h == th[p]  t == th[p].task
    IN  Busy(p) =>
        /\ h.job # "open" => rows[t].exists /\ h.copy.exists
        /\ h.fresh /\ (h.job # "open" \/ h.at = "forget") => h.copy = rows[t]
        /\ h.at = "write" /\ h.job \in {"dispatch", "resume", "reconcile"} /\ h.recent =>
              Spoken(t) \/ h.arg = codex[t].turn
        /\ h.at = "write" /\ h.job = "archive" /\ h.fresh => Spoken(t)

TurnHeard(t) ==
    LET h == th[Consumer]
    IN  /\ Hearing(t, Words) /\ h.recent /\ Among(events, t, Words) = {} =>
              h.arg = codex[t].turn
        /\ Hearing(t, {"active"}) /\ h.fresh => Among(events, t, Words) # {}
        /\ Hearing(t, {"inactive", "unarchived"}) /\ h.fresh /\ Among(events, t, Words) = {} =>
              codex[t].turn = None

TurnSits(t) ==
    rows[t].exists /\ ~Spoken(t) =>
        /\ rows[t].turn_id = codex[t].turn
        /\ rows[t].state = "running" <=> codex[t].turn # None

TurnInv ==
    /\ \A t \in Tasks : Known(t)
    /\ \A p \in Threads : TurnFits(p)
    /\ \A t \in Tasks \ turnOff : TurnHeard(t) /\ TurnSits(t)

(* The title.                                                               *)
TitleFits(p) ==
    LET h == th[p]  t == th[p].task
    IN  Busy(p) /\ h.fresh /\ t \notin restOff =>
        /\ h.job = "rename" /\ h.at # "call" => Titled(t)
        /\ h.job = "open" /\ h.at \in {"delete", "detach", "create", "write"} =>
              Titled(t) \/ h.copy.title = codex[t].title

TitleSits(t) ==
    /\ rows[t].exists /\ ~Titled(t) => rows[t].title = codex[t].title
    /\ Hearing(t, {"named"}) /\ Among(events, t, {"named"}) = {} =>
          th[Consumer].arg = codex[t].title

TitleInv ==
    /\ \A p \in Threads : TitleFits(p)
    /\ \A t \in Tasks \ restOff : TitleSits(t)

(* The channel: a handler that creates one has it to itself.                *)
Going(c) == \E p \in Threads : Here(p, "detach") /\ th[p].arg = c
OfTask(c, t) == c # None => channels[c].task = t

ChannelFits(p) ==
    LET h == th[p]  t == th[p].task
    IN  Busy(p) =>
        /\ OfTask(h.copy.channel_id, t)
        /\ h.job = "open" /\ h.at \in {"prune", "delete", "detach", "create", "write"}
              /\ h.fresh /\ t \notin restOff => rows[t].channel_id = None
        /\ Here(p, "detach") => ~Alive(h.arg)
        /\ Creating(p) =>
            /\ OfTask(h.arg, t) /\ h.arg # None
            /\ \A u \in Tasks : rows[u].channel_id # h.arg
            /\ \A q \in Threads : Busy(q) =>
                /\ th[q].copy.channel_id # h.arg
                /\ q # p /\ Creating(q) => th[q].arg # h.arg
            /\ t \notin restOff => Alive(h.arg) \/ Going(h.arg)

ChannelSits(t) ==
    /\ \A c \in DOMAIN channels : channels[c].task = t /\ channels[c].alive =>
          c = rows[t].channel_id \/ \E p \in Threads : Creating(p) /\ th[p].arg = c
    /\ rows[t].channel_id # None => Alive(rows[t].channel_id) \/ Going(rows[t].channel_id)

ChannelInv ==
    /\ \A t \in Tasks : OfTask(rows[t].channel_id, t)
    /\ \A p \in Threads : ChannelFits(p)
    /\ \A t \in Tasks \ restOff : ChannelSits(t)

IInv == Shape /\ TurnInv /\ TitleInv /\ ChannelInv
=============================================================================
