---------------------------- MODULE GodLifecycle ----------------------------
(***************************************************************************)
(* GOD mode: src/src/discord/bot.rs (GodLifecycle, enable_god, god_off,    *)
(* dispatch_task_input, execute_action_inner, advanced, spawn_god_monitor, *)
(* cleanup_god_thread, normalize_completed_god_turn, reconcile) with the   *)
(* sessions of src/src/security/service.rs and sessions.rs.                *)
(*                                                                         *)
(* One session at most lets turns of one task run with full access.        *)
(* Dispatches hold the barrier for reading, changes of the session for     *)
(* writing.  When a session ends its task is blocked (quarantined, or with *)
(* cleanup required) and cleaned up under the task's lease: its turn is    *)
(* interrupted, its permissions are normalized, the fact is audited.  The  *)
(* dirty mark is all of this that a restart of the relay leaves.           *)
(***************************************************************************)
EXTENDS Naturals, FiniteSets

CONSTANTS
    Tasks, Owners, \* tasks; interactions of the owner that may go on at once
    Monitor,       \* spawn_god_monitor
    Consumer,      \* the consumer of notifications
    Startup,       \* the work on a ready event
    MaxFaults,     \* bound on failures of Codex, Discord and the database, and on restarts
    MaxCalls,      \* bound on the interactions of the owner
    None           \* no session, no task

Threads == Owners \cup {Monitor, Consumer, Startup}

ASSUME NamesAssumption ==
    /\ None \notin Tasks /\ MaxFaults \in Nat /\ MaxCalls \in Nat
    /\ Monitor \notin Owners \cup {Consumer, Startup}
    /\ Consumer \notin Owners \cup {Startup} /\ Startup \notin Owners

VARIABLES
    perm, turn,    \* Codex: a task's permissions; those its turn runs with, or "none"
    event,         \* tasks with a turn/completed that is still to be consumed
    running,       \* tasks whose row says Running
    dirty,         \* god_dirty_tasks
    session, lapsed, \* the session's task, and whether its time is over
    cleanup,       \* cleanup_required
    quarantined,   \* god_quarantined_tasks
    started,       \* startup_ready
    th,            \* the threads: where they are in which call, and its locals
    faults, calls, \* failures and interactions to come
    raced          \* observed: tasks declared clean while they were, or were about to be, elevated

codex  == <<perm, turn, event>>
grant  == <<session, lapsed>>
blocks == <<cleanup, quarantined>>
bounds == <<faults, calls>>
vars   == <<codex, running, dirty, grant, blocks, started, th, bounds, raced>>

\* at: the task worked on; new: the one to elevate; god: the session is for it;
\* aim: its row said Running; ok: the cleanup went well so far; todo: of a loop.
Idle == [pc |-> "idle", job |-> "none", at |-> None, new |-> None, god |-> FALSE,
         aim |-> FALSE, ok |-> FALSE, todo |-> {}]

Frames ==
    [pc : {"idle", "barrier", "check", "mark", "send", "row", "auth", "lease", "read",
           "normalize", "clear", "activate", "look", "revoke", "judge", "next", "replay"},
     job : {"none", "dispatch", "privileged", "enable", "off", "expired", "retry",
            "complete", "recover"},
     at : Tasks \cup {None}, new : Tasks \cup {None},
     god : BOOLEAN, aim : BOOLEAN, ok : BOOLEAN, todo : SUBSET Tasks]

TypeOK ==
    /\ perm \in [Tasks -> {"normal", "god"}]
    /\ turn \in [Tasks -> {"none", "normal", "god"}]
    /\ event \subseteq Tasks /\ running \subseteq Tasks /\ dirty \subseteq Tasks
    /\ cleanup \subseteq Tasks /\ quarantined \subseteq Tasks
    /\ session \in Tasks \cup {None} /\ lapsed \in BOOLEAN
    /\ started \in BOOLEAN
    /\ th \in [Threads -> Frames]
    /\ faults \in 0..MaxFaults /\ calls \in 0..MaxCalls /\ raced \subseteq Tasks

Init ==
    /\ perm = [t \in Tasks |-> "normal"] /\ turn = [t \in Tasks |-> "none"]
    /\ event = {} /\ running = {} /\ dirty = {} /\ cleanup = {} /\ quarantined = {}
    /\ session = None /\ lapsed = FALSE /\ started = FALSE
    /\ th = [p \in Threads |-> Idle]
    /\ faults = MaxFaults /\ calls = MaxCalls /\ raced = {}

Active(t)   == session = t /\ ~lapsed
Elevated(t) == "god" \in {perm[t], turn[t]}
Blocked(t)  == t \in quarantined \cup cleanup

-----------------------------------------------------------------------------
(* Steps all threads take                                                   *)

Calls == {"dispatch", "privileged"}
Is(p, what, l) == th[p].pc = l /\ th[p].job \in what
At(p, l)  == th[p].pc = l
Goto(p, l) == th' = [th EXCEPT ![p].pc = l]

\* The call returns: its locals are gone, and its hold on barrier and lease.
Return(p) == th' = [th EXCEPT ![p] = Idle]
Begin(p, what, t, l) ==
    th[p] = Idle /\ th' = [th EXCEPT ![p] = [Idle EXCEPT !.pc = l, !.job = what, !.at = t]]

\* dispatch_barrier: calls and dispatches hold it from its acquisition to their end.
Holds(p, what) == th[p].job \in what /\ th[p].pc # "barrier"
Readers == {p \in Threads : Holds(p, Calls)}
Writers == {p \in Threads : Holds(p, {"enable", "off"})}

\* cleanup_lease
Leased == {th[p].at : p \in {q \in Threads : th[q].pc \in {"read", "normalize", "clear"}}}

Fault == faults > 0 /\ faults' = faults - 1 /\ UNCHANGED calls
Call == calls > 0 /\ calls' = calls - 1 /\ UNCHANGED faults

\* active_session and active_global_session note a session whose time is over.
Lapsed == IF session # None /\ lapsed THEN {session} ELSE {}

\* mark_god_dirty
AfterMark(p) == CASE th[p].job \in Calls -> "send" [] th[p].job = "off" -> "revoke"
                  [] OTHER -> "lease"

Marked(p) == dirty \cup {th[p].at}

Mark(p) ==
    /\ At(p, "mark")
    /\ dirty' = Marked(p)
    /\ Goto(p, AfterMark(p))
    /\ UNCHANGED <<codex, running, grant, blocks, started, bounds, raced>>

\* Without the mark only the monitor goes on.
MarkFails(p) ==
    /\ At(p, "mark") /\ Fault
    /\ IF th[p].job = "expired" THEN Goto(p, "lease") ELSE Return(p)
    /\ UNCHANGED <<codex, running, dirty, grant, blocks, started, raced>>

-----------------------------------------------------------------------------
(* Dispatch of input, and of actions and methods that need GOD mode          *)

BeginDispatch(p, t) ==
    /\ started /\ Call
    /\ \E what \in Calls :
         /\ th[p] = Idle
         /\ th' = [th EXCEPT ![p] = [Idle EXCEPT !.pc = "barrier", !.job = what, !.at = t,
                                                  !.aim = what = "dispatch" /\ t \in running]]
    /\ UNCHANGED <<codex, running, dirty, grant, blocks, started, raced>>

\* Read and write guards exclude each other.
NoWriter == Writers = {}

Enter(p) ==
    /\ Is(p, Calls, "barrier") /\ NoWriter
    /\ Goto(p, "check")
    /\ UNCHANGED <<codex, running, dirty, grant, blocks, started, bounds, raced>>

\* ensure_task_not_god_quarantined, active_session and the former again. The
\* channel may not be found private, and then there is no session for it.
Check(p) ==
    LET t == th[p].at IN
    /\ At(p, "check")
    /\ \E private \in BOOLEAN :
        /\ IF private THEN UNCHANGED bounds ELSE Fault
        /\ cleanup' = IF private /\ ~Blocked(t) THEN cleanup \cup Lapsed ELSE cleanup
        /\ LET granted == private /\ Active(t) IN
           IF t \in quarantined \cup cleanup' \/ (th[p].job = "privileged" /\ ~granted)
           THEN Return(p)
           ELSE th' = [th EXCEPT ![p].god = granted,
                                 ![p].pc = IF granted THEN "mark" ELSE "send"]
    /\ UNCHANGED <<codex, running, dirty, grant, quarantined, started, raced>>

Policy(elevated) == IF elevated THEN "god" ELSE "normal"

\* What Codex makes of a request: input is steered into the turn or starts one; an
\* action or method with GOD mode may start one or change permissions by itself.
Accepted(p) ==
    LET t == th[p].at IN
    \/ th[p].aim /\ turn[t] # "none" /\ UNCHANGED <<perm, turn>>
    \/ /\ turn[t] = "none" /\ ~th[p].aim
       /\ turn' = [turn EXCEPT ![t] = Policy(th[p].god)]
       /\ perm' = [perm EXCEPT ![t] = Policy(th[p].god)]
    \/ /\ th[p].job = "privileged"
       /\ perm' = [perm EXCEPT ![t] = "god"] /\ UNCHANGED turn

Send(p) ==
    /\ At(p, "send")
    /\ Accepted(p)
    /\ IF th[p].job = "dispatch" THEN Goto(p, "row") ELSE Return(p)
    /\ UNCHANGED <<event, running, dirty, grant, blocks, started, bounds, raced>>

\* A turn to steer is over, or the task has a turn already.
Refused(p) == th[p].job = "dispatch" /\ (th[p].aim <=> turn[th[p].at] = "none")

\* Codex refuses, or its answer does not come, whatever it did.
SendFails(p) ==
    /\ At(p, "send")
    /\ \/ Refused(p) /\ UNCHANGED <<perm, turn, bounds>>
       \/ Fault /\ (Accepted(p) \/ UNCHANGED <<perm, turn>>)
    /\ Return(p)
    /\ UNCHANGED <<event, running, dirty, grant, blocks, started, raced>>

\* upsert_task, which may fail.
WriteRow(p) ==
    /\ At(p, "row")
    /\ \/ running' = running \cup {th[p].at} /\ UNCHANGED bounds
       \/ Fault /\ UNCHANGED running
    /\ Return(p)
    /\ UNCHANGED <<codex, dirty, grant, blocks, started, raced>>

-----------------------------------------------------------------------------
(* cleanup_god_thread, for a session that ended, a retry or a recovery; with   *)
(* all steps but the reading of the turn, normalize_completed_god_turn.       *)

Completing(p) == th[p].job = "complete"

\* The monitor's loop over the tasks that are left; the start-up's.
Loop(todo) ==
    IF todo = {} THEN Idle ELSE [Idle EXCEPT !.pc = "next", !.job = "retry", !.todo = todo]
Recovery(todo) ==
    IF todo = {} THEN [Idle EXCEPT !.pc = "replay", !.job = "recover", !.todo = Tasks]
                 ELSE [Idle EXCEPT !.pc = "next", !.job = "recover", !.todo = todo]

\* What awaits the cleanup goes on: q is quarantined then.
CleanupReturns(p, ok, q) ==
    th' = [th EXCEPT ![p] =
        CASE th[p].job = "enable" /\ ok -> [th[p] EXCEPT !.pc = "activate"]
          [] th[p].job = "expired"      -> Loop(q \ {th[p].at})
          [] th[p].job = "retry"        -> Loop(th[p].todo)
          [] th[p].job = "recover"      -> Recovery(th[p].todo)
          [] OTHER                      -> Idle]

Free(t) == t \notin Leased

Lease(p) ==
    /\ At(p, "lease") /\ Free(th[p].at)
    /\ quarantined' = quarantined \cup {th[p].at}
    /\ th' = [th EXCEPT ![p].ok = TRUE,
                        ![p].pc = IF Completing(p) THEN "normalize" ELSE "read"]
    /\ UNCHANGED <<codex, running, dirty, grant, cleanup, started, bounds, raced>>

LeaseTaken(p) ==
    /\ At(p, "lease") /\ ~Free(th[p].at)
    /\ CleanupReturns(p, FALSE, quarantined)
    /\ UNCHANGED <<codex, running, dirty, grant, blocks, started, bounds, raced>>

\* A turn ends, and turn/completed is queued, or lost to lag.
Ends(t) ==
    /\ turn' = [turn EXCEPT ![t] = "none"]
    /\ \/ event' = event \cup {t} /\ UNCHANGED bounds
       \/ Fault /\ UNCHANGED event

\* interrupt_god_turn: a running turn is interrupted and the stop confirmed; when
\* that is not confirmed the turn may have stopped or not.
Interrupt(p) ==
    LET t == th[p].at IN
    /\ At(p, "read")
    /\ \/ turn[t] = "none" /\ UNCHANGED <<turn, event, bounds>> /\ Goto(p, "normalize")
       \/ turn[t] # "none" /\ Ends(t) /\ Goto(p, "normalize")
       \/ /\ Fault
          /\ \/ turn[t] # "none" /\ turn' = [turn EXCEPT ![t] = "none"] /\ event' = event \cup {t}
             \/ UNCHANGED <<turn, event>>
          /\ th' = [th EXCEPT ![p].pc = "normalize", ![p].ok = FALSE]
    /\ UNCHANGED <<perm, running, dirty, grant, blocks, started, raced>>

\* normalize_thread_permissions and the audit row; either may fail.
Normalize(p) ==
    LET reset == [perm EXCEPT ![th[p].at] = "normal"] IN
    /\ At(p, "normalize")
    /\ \/ perm' = reset /\ Goto(p, "clear") /\ UNCHANGED bounds
       \/ /\ Fault /\ perm' \in {perm, reset}
          /\ th' = [th EXCEPT ![p].pc = "clear", ![p].ok = FALSE]
    /\ UNCHANGED <<turn, event, running, dirty, grant, blocks, started, raced>>

\* Mutants: the mark goes whatever failed; the quarantine stays.
CleanAlways(p) == TRUE
Clean(p) == th[p].ok
ReleasedNot(t) == quarantined
Released(t) == quarantined \ {t}

\* Dispatches on their way, past their check.
Underway(t) == \E p \in Readers : th[p].at = t /\ th[p].pc \in {"mark", "send"}

\* clear_god_dirty, cleanup_finished, and the quarantine is over. After a retry the
\* monitor asks for the session, for the sake of the warning.
Clear(p) ==
    LET t == th[p].at IN
    /\ At(p, "clear") /\ Clean(p)
    /\ dirty' = dirty \ {t}
    /\ cleanup' = (cleanup \ {t}) \cup IF th[p].job = "retry" THEN Lapsed ELSE {}
    /\ quarantined' = Released(t)
    /\ raced' = IF th[p].ok /\ (Elevated(t) \/ Underway(t)) THEN raced \cup {t} ELSE raced \ {t}
    /\ CleanupReturns(p, TRUE, quarantined')
    /\ UNCHANGED <<codex, running, grant, started, bounds>>

\* Something failed, the removal of the mark at the latest: the quarantine stays.
KeepBlocked(p) ==
    /\ At(p, "clear")
    /\ IF Clean(p) THEN Fault ELSE UNCHANGED bounds
    /\ CleanupReturns(p, FALSE, quarantined)
    /\ UNCHANGED <<codex, running, dirty, grant, blocks, started, raced>>

-----------------------------------------------------------------------------
(* enable_god                                                               *)

BeginEnable(p, t) ==
    /\ started /\ t \notin running /\ Call
    /\ th[p] = Idle
    /\ th' = [th EXCEPT ![p] = [Idle EXCEPT !.pc = "barrier", !.job = "enable", !.new = t]]
    /\ UNCHANGED <<codex, running, dirty, grant, blocks, started, raced>>

\* transition(). Mutant: it waits for other transitions only.
ExclusiveOfWriters == Writers = {}
Exclusive == Writers = {} /\ Readers = {}

Transition(p) ==
    /\ Is(p, {"enable", "off"}, "barrier") /\ Exclusive
    /\ Goto(p, IF th[p].job = "enable" THEN "auth" ELSE "look")
    /\ UNCHANGED <<codex, running, dirty, grant, blocks, started, bounds, raced>>

NoSession == session' = None /\ lapsed' = FALSE

\* The password is wrong, or the task blocked.
Denied(p) ==
    /\ At(p, "auth")
    /\ Return(p)
    /\ UNCHANGED <<codex, running, dirty, grant, blocks, started, bounds, raced>>

\* authenticate_pending. A session before this one expires or is revoked, and its
\* task is quarantined; if the revocation cannot be audited the call ends there.
Auth(p) ==
    /\ At(p, "auth") /\ ~Blocked(th[p].new)
    /\ \/ /\ session = None
          /\ Goto(p, "activate")
          /\ UNCHANGED <<grant, blocks, bounds>>
       \/ /\ session # None /\ NoSession
          /\ cleanup' = cleanup \cup {session}
          /\ \/ /\ quarantined' = quarantined \cup {session}
                /\ th' = [th EXCEPT ![p].at = session, ![p].pc = "mark"]
                /\ UNCHANGED bounds
             \/ ~lapsed /\ Fault /\ Return(p) /\ UNCHANGED quarantined
    /\ UNCHANGED <<codex, running, dirty, started, raced>>

\* The warning is posted, then activate_pending; a session whose start cannot be
\* audited is taken back.
Activate(p) ==
    /\ At(p, "activate")
    /\ \/ session' = th[p].new /\ lapsed' = FALSE /\ UNCHANGED bounds
       \/ Fault /\ UNCHANGED grant
    /\ Return(p)
    /\ UNCHANGED <<codex, running, dirty, blocks, started, raced>>

-----------------------------------------------------------------------------
(* god_off                                                                  *)

BeginOff(p) ==
    /\ started /\ Call /\ Begin(p, "off", None, "barrier")
    /\ UNCHANGED <<codex, running, dirty, grant, blocks, started, raced>>

\* active_global_session: one whose time is over counts as none.
Look(p) ==
    /\ At(p, "look")
    /\ cleanup' = cleanup \cup Lapsed
    /\ IF session # None /\ ~lapsed
       THEN /\ th' = [th EXCEPT ![p].at = session, ![p].pc = "mark"]
            /\ quarantined' = quarantined \cup {session}
       ELSE Goto(p, "revoke") /\ UNCHANGED quarantined
    /\ UNCHANGED <<codex, running, dirty, grant, started, bounds, raced>>

\* Mutant: what revoke_active took is noted when there was nothing to take.
TakenAny == {session}
Taken == {session} \ {None}

\* revoke_active takes any session, unless the channel is not found private. Only
\* one that Look has seen is cleaned up.
Revoke(p) ==
    /\ At(p, "revoke")
    /\ \/ NoSession /\ cleanup' = cleanup \cup Taken /\ UNCHANGED bounds
       \/ Fault /\ UNCHANGED grant /\ cleanup' = cleanup \cup Lapsed
    /\ IF th[p].at # None /\ (session' = None \/ lapsed)
       THEN Goto(p, "lease") ELSE Return(p)
    /\ UNCHANGED <<codex, running, dirty, quarantined, started, raced>>

-----------------------------------------------------------------------------
(* spawn_god_monitor                                                        *)

\* Mutant: the session goes, its task is not blocked before the barrier is free.
ExpiredLater(t) == UNCHANGED blocks
Expired(t) == cleanup' = cleanup \cup {t} /\ quarantined' = quarantined \cup {t}

\* Once a second: a session whose time is over is removed under the barrier and
\* its task quarantined; then what is quarantined is tried again.
Tick(p) ==
    /\ p = Monitor /\ At(p, "idle") /\ Exclusive
    /\ IF session # None /\ lapsed
       THEN /\ NoSession
            /\ Expired(session)
            /\ Begin(p, "expired", session, "mark")
       ELSE /\ quarantined # {}
            /\ th' = [th EXCEPT ![p] = Loop(quarantined)]
            /\ UNCHANGED <<grant, blocks>>
    /\ UNCHANGED <<codex, running, dirty, started, bounds, raced>>

\* The next task of the loop of the monitor or the start-up.
NextTask(p) ==
    /\ At(p, "next")
    /\ \E t \in th[p].todo :
        /\ th' = [th EXCEPT ![p].at = t, ![p].todo = @ \ {t}, ![p].pc = "lease"]
        /\ quarantined' = IF th[p].job = "recover" THEN quarantined \cup {t} ELSE quarantined
    /\ UNCHANGED <<codex, running, dirty, grant, cleanup, started, bounds, raced>>

-----------------------------------------------------------------------------
(* handle_notification, for turn/completed                                   *)

\* An error on the way to the row, or in writing it, ends the handling.
Completed(p, t) ==
    /\ p = Consumer
    /\ t \in event /\ event' = event \ {t}
    /\ \/ running' = running \ {t} /\ Begin(p, "complete", t, "judge") /\ UNCHANGED bounds
       \/ Fault /\ th[p] = Idle /\ UNCHANGED <<running, th>>
    /\ UNCHANGED <<perm, turn, dirty, grant, blocks, started, raced>>

Judge(p) ==
    /\ At(p, "judge")
    /\ cleanup' = cleanup \cup Lapsed
    /\ IF Active(th[p].at) \/ th[p].at \in cleanup' \cup quarantined
       THEN Goto(p, "lease") ELSE Return(p)
    /\ UNCHANGED <<codex, running, dirty, grant, quarantined, started, bounds, raced>>

-----------------------------------------------------------------------------
(* Handler::ready, Codex, time and restarts                                  *)

\* reconcile: the tasks with a mark are recovered first.
BeginStartup(p) ==
    /\ p = Startup /\ ~started /\ At(p, "idle")
    /\ th' = [th EXCEPT ![p] = Recovery(dirty)]
    /\ UNCHANGED <<codex, running, dirty, grant, blocks, started, bounds, raced>>

\* A new gateway session.
Reconnect ==
    /\ Fault /\ started /\ started' = FALSE
    /\ UNCHANGED <<codex, running, dirty, grant, blocks, th, raced>>

\* reconcile_task: the row follows Codex, and what the owner has written meanwhile
\* is steered in or starts a turn with normal permissions.
Replay(p) ==
    /\ At(p, "replay")
    /\ \E t \in th[p].todo :
        /\ th' = [th EXCEPT ![p].todo = @ \ {t}]
        /\ \/ /\ running' = IF turn[t] # "none" THEN running \cup {t} ELSE running \ {t}
              /\ UNCHANGED <<perm, turn, bounds>>
           \/ /\ turn[t] = "none" /\ Call
              /\ turn' = [turn EXCEPT ![t] = Policy(FALSE)]
              /\ perm' = [perm EXCEPT ![t] = Policy(FALSE)]
              /\ running' = running \cup {t}
           \/ Fault /\ UNCHANGED <<running, perm, turn>>
    /\ UNCHANGED <<event, dirty, grant, blocks, started, raced>>

Open(p) ==
    /\ At(p, "replay") /\ th[p].todo = {}
    /\ started' = TRUE
    /\ Return(p)
    /\ UNCHANGED <<codex, running, dirty, grant, blocks, bounds, raced>>

TurnEnds(t) ==
    /\ turn[t] # "none" /\ Ends(t)
    /\ UNCHANGED <<perm, running, dirty, grant, blocks, started, th, raced>>

Lapse ==
    /\ session # None /\ ~lapsed /\ lapsed' = TRUE
    /\ UNCHANGED <<codex, running, dirty, session, blocks, started, th, bounds, raced>>

\* The relay stops, and its app-server with it; rows and marks stay, and so do a
\* task's permissions.
Restart ==
    /\ Fault
    /\ turn' = [t \in Tasks |-> "none"] /\ event' = {}
    /\ NoSession /\ cleanup' = {} /\ quarantined' = {} /\ started' = FALSE
    /\ th' = [p \in Threads |-> Idle]
    /\ UNCHANGED <<perm, running, dirty, raced>>

\* A thread's next step.
Step(p) ==
    \/ Mark(p) \/ MarkFails(p) \/ Enter(p) \/ Check(p) \/ Send(p) \/ SendFails(p) \/ WriteRow(p)
    \/ Lease(p) \/ LeaseTaken(p) \/ Interrupt(p) \/ Normalize(p) \/ Clear(p) \/ KeepBlocked(p)
    \/ Transition(p) \/ Denied(p) \/ Auth(p) \/ Activate(p) \/ Look(p) \/ Revoke(p)
    \/ Tick(p) \/ NextTask(p) \/ (\E t \in Tasks : Completed(p, t)) \/ Judge(p)
    \/ BeginStartup(p) \/ Replay(p) \/ Open(p)

Next ==
    \/ \E p \in Threads : Step(p)
    \/ \E p \in Owners : BeginOff(p) \/ \E t \in Tasks : BeginDispatch(p, t) \/ BeginEnable(p, t)
    \/ \E t \in Tasks : TurnEnds(t)
    \/ Lapse \/ Reconnect \/ Restart

Spec == Init /\ [][Next]_vars

\* Every thread that can go on does: a task of the runtime is polled again, the
\* monitor ticks every second, and a gateway that connects sends ready.
Fairness == \A p \in Threads : WF_vars(Step(p))
FairSpec == Spec /\ Fairness

-----------------------------------------------------------------------------
(* Properties                                                               *)

\* Permissions rise only for the task of the session, whoever revokes, replaces or
\* expires it at that time.
GrantHeld == [][\A t \in Tasks : perm[t] # "god" /\ perm'[t] = "god" => session = t]_vars

\* A task with full access has the mark a restart finds, but for those in raced.
ElevatedIsMarked == \A t \in Tasks : Elevated(t) => t \in dirty \cup raced

\* A task that still has full access when its session has ended takes no input.
EndedIsBlocked ==
    \A t \in Tasks : started /\ Elevated(t) /\ session # t => Blocked(t) \/ t \in raced

\* A quarantine ends, through cleanups that give up and failures of each of their
\* steps. Failures and calls are finitely many: again and again no task is blocked.
QuarantineEnds == []<>(quarantined = {})

\* docs/SECURITY.md: a failed post-GOD normalization keeps the task quarantined and
\* retries cleanup. Then a task whose session is over gets its permissions back.
EndedIsNormalized ==
    \A t \in Tasks : (Elevated(t) /\ session # t) ~> (~Elevated(t) \/ session = t)
=============================================================================
