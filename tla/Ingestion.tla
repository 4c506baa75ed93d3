----------------------------- MODULE Ingestion ------------------------------
(***************************************************************************)
(* How the owner's messages in a task channel reach Codex:                 *)
(* src/src/discord/bot.rs, Handler::ready, Handler::message,               *)
(* forward_task_message and reconcile_task, with the channel's cursor of   *)
(* src/src/state.rs.                                                       *)
(*                                                                         *)
(* A message that arrives while the relay is on is forwarded by a task of  *)
(* its own.  After each ready event of the gateway the messages past the   *)
(* cursor are read from the history and handed to Codex together.  Both    *)
(* hold the channel's ingestion lock; the startup_ready flag keeps live    *)
(* messages out while the other goes on.  A message is its place in the    *)
(* history, the order of Discord's ids.                                    *)
(***************************************************************************)
EXTENDS Naturals, Sequences, FiniteSets, FiniteSetsExt

CONSTANTS
    Free,        \* nobody has the ingestion lock
    ScanLimit,   \* history_scan_limit, 1,000 by default
    PageSize,    \* 100
    MaxMessages, \* bound: messages in the channel
    MaxSessions, \* bound: gateway sessions
    MaxRestarts  \* bound: restarts of the relay

ASSUME BoundsAssumption ==
    /\ ScanLimit \in Nat \ {0} /\ PageSize \in Nat \ {0}
    /\ MaxMessages \in Nat /\ MaxSessions \in Nat /\ MaxRestarts \in Nat

Messages == 1..MaxMessages
Sessions == 1..MaxSessions
Live(m)   == <<"live", m>>
Replay(s) == <<"replay", s>>
ASSUME LockAssumption ==
    \A n \in Messages \cup Sessions : Free # Live(n) /\ Free # Replay(n)

VARIABLES
    history, gone, \* Discord: the kinds of the channel's messages, those deleted
    link,          \* "down" with the relay, "lost" while a session may be resumed, or "up"
    sessions,      \* gateway sessions so far
    ready,         \* startup_ready
    lock,          \* ingestion_locks, of this channel: its holder
    cursor,        \* channel_cursors, 0 for none
    live,          \* where the event of each message is
    replay,        \* where the ready event of each session is
    after, scanned, queued, \* locals of the ready event that has the lock
    handed,        \* observed: how often Codex got a message
    told,          \* observed: messages refused with an answer to the owner, or
                   \* put in the durable queue of messages to delete
    unclear,       \* observed: messages Codex may have got, with no cursor to tell
    raced,         \* observed: messages replayed while their event was on its way
    overtaken,     \* observed: messages that a later live one moved the cursor past
    restarts       \* counted for the bound

discord  == <<history, gone, link, sessions>>
replays  == <<replay, after, scanned, queued>>
observed == <<handed, told, unclear, raced, overtaken>>
vars     == <<discord, ready, lock, cursor, live, replays, observed, restarts>>

Posted == DOMAIN history

TypeOK ==
    /\ history \in Seq({"text", "god", "other"}) /\ Len(history) <= MaxMessages
    /\ gone \subseteq Posted
    /\ link \in {"down", "lost", "up"} /\ sessions \in 0..MaxSessions
    /\ ready \in BOOLEAN
    /\ lock \in {Free} \cup {Live(m) : m \in Messages} \cup {Replay(s) : s \in Sessions}
    /\ cursor \in 0..Len(history)
    /\ live \in [Messages -> {"no", "missed", "event", "lock", "dispatch", "cursor"}]
    /\ replay \in [Sessions -> {"no", "gate", "lock", "read", "scan", "dispatch", "cursor", "open"}]
    /\ after \in 0..Len(history) /\ scanned \in 0..ScanLimit
    /\ queued \subseteq Posted
    /\ handed \in [Messages -> 0..2]
    /\ told \subseteq Posted /\ unclear \subseteq Posted
    /\ raced \subseteq Posted /\ overtaken \subseteq Posted
    /\ restarts \in 0..MaxRestarts

Init ==
    /\ history = <<>> /\ gone = {}
    /\ link = "down" /\ sessions = 0 /\ ready = FALSE /\ lock = Free /\ cursor = 0
    /\ live = [m \in Messages |-> "no"]
    /\ replay = [s \in Sessions |-> "no"]
    /\ after = 0 /\ scanned = 0 /\ queued = {}
    /\ handed = [m \in Messages |-> 0]
    /\ told = {} /\ unclear = {} /\ raced = {} /\ overtaken = {}
    /\ restarts = 0

-----------------------------------------------------------------------------
(* Discord                                                                  *)

\* The owner posts a text or a message that begins with !god, or somebody else,
\* such as the relay, posts.
Post(kind) ==
    /\ Len(history) < MaxMessages
    /\ history' = Append(history, kind)
    /\ live' = [live EXCEPT ![Len(history) + 1] =
                    CASE kind = "other" \/ link = "down" -> "no"
                      [] link = "lost" -> "missed"
                      [] link = "up" -> "event"]
    /\ UNCHANGED <<gone, link, sessions, ready, lock, cursor, replays, observed, restarts>>

\* The gateway's connection is lost, and the session resumed: events come late.
Lose ==
    /\ link = "up" /\ link' = "lost"
    /\ UNCHANGED <<history, gone, sessions, ready, lock, cursor, live, replays, observed, restarts>>

Resume ==
    /\ link = "lost" /\ link' = "up"
    /\ live' = [m \in Messages |-> IF live[m] = "missed" THEN "event" ELSE live[m]]
    /\ UNCHANGED <<history, gone, sessions, ready, lock, cursor, replays, observed, restarts>>

\* Or a new session begins, which gets no event of before.
Connect ==
    /\ link # "up" /\ link' = "up"
    /\ sessions < MaxSessions /\ sessions' = sessions + 1
    /\ live' = [m \in Messages |-> IF live[m] = "missed" THEN "no" ELSE live[m]]
    /\ replay' = [replay EXCEPT ![sessions + 1] = "gate"]
    /\ UNCHANGED <<history, gone, ready, lock, cursor, after, scanned, queued, observed, restarts>>

\* A message in the queue of deletions is deleted.
Purge(m) ==
    /\ link # "down" /\ m \in told \ gone /\ history[m] = "god"
    /\ gone' = gone \cup {m}
    /\ UNCHANGED <<history, link, sessions, ready, lock, cursor, live, replays, observed, restarts>>

-----------------------------------------------------------------------------
(* Handler::ready                                                           *)

Goto(s, p) == replay' = [replay EXCEPT ![s] = p]

\* The flag is cleared; isolation, layout and stale requests are seen to. An
\* error there leaves the relay gated.
Gate(s) ==
    /\ replay[s] = "gate"
    /\ ready' = FALSE
    /\ Goto(s, "lock") \/ Goto(s, "no")
    /\ UNCHANGED <<discord, lock, cursor, live, after, scanned, queued, observed, restarts>>

\* reconcile_task. Mutant: it does not wait for the lock.
LockableAlways == TRUE
Lockable == lock = Free

LockReplay(s) ==
    /\ replay[s] = "lock" /\ Lockable
    /\ lock' = Replay(s)
    /\ Goto(s, "read")
    /\ UNCHANGED <<discord, ready, cursor, live, after, scanned, queued, observed, restarts>>

\* Any error ends the reconciliation of the task, not that of the others.
Leave(s) ==
    /\ lock' = Free
    /\ Goto(s, "open")
    /\ queued' = {} /\ after' = 0 /\ scanned' = 0

\* The channel is repaired, the thread read, its row written; then the cursor read.
ReadCursor(s) ==
    /\ replay[s] = "read"
    /\ after' = cursor /\ scanned' = 0 /\ queued' = {}
    /\ Goto(s, "scan")
    /\ UNCHANGED <<discord, ready, lock, cursor, live, observed, restarts>>

ReplayFails(s) ==
    /\ replay[s] \in {"read", "scan"}
    /\ Leave(s)
    /\ UNCHANGED <<discord, ready, cursor, live, observed, restarts>>

Past    == {m \in Posted \ gone : m > after}
PageMax == IF ScanLimit - scanned < PageSize THEN ScanLimit - scanned ELSE PageSize

\* The oldest messages past the last one seen.
Page == {m \in Past : Cardinality({x \in Past : x < m}) < PageMax}

Kind(set, k) == {m \in set : history[m] = k}

\* A message that begins with !god must be deleted before the cursor passes it.
\* Mutant: what cannot be deleted is passed over.
MayPassAny(deleted)  == TRUE
MayPass(deleted) == deleted = Kind(Page, "god")

Scan(s) ==
    /\ replay[s] = "scan"
    /\ \E deleted \in SUBSET Kind(Page, "god") :
        /\ gone' = gone \cup deleted
        /\ IF MayPass(deleted)
           THEN /\ queued' = queued \cup Kind(Page, "text")
                /\ after' = IF Page = {} THEN after ELSE Max(Page)
                /\ scanned' = scanned + Cardinality(Page)
                /\ Goto(s, IF Cardinality(Page) < PageMax \/ scanned' = ScanLimit
                           THEN "dispatch" ELSE "scan")
                /\ raced' = raced \cup {m \in queued' : live[m] \in {"missed", "event", "lock"}}
                /\ UNCHANGED lock
           ELSE Leave(s) /\ UNCHANGED raced
    /\ UNCHANGED <<history, link, sessions, ready, cursor, live, handed, told, unclear,
                   overtaken, restarts>>

\* Codex has got these messages.
Got(set) == handed' = [m \in Messages |-> IF m \in set /\ handed[m] < 2 THEN handed[m] + 1
                                           ELSE handed[m]]

\* The queued messages are steered into the active turn or start one.
HandOver(s) ==
    /\ replay[s] = "dispatch"
    /\ Got(queued)
    /\ Goto(s, "cursor")
    /\ UNCHANGED <<discord, ready, lock, cursor, live, after, scanned, queued, told, unclear,
                   raced, overtaken, restarts>>

\* Codex has not got them, or has and its answer or a step after it fails.
HandOverFails(s) ==
    /\ replay[s] = "dispatch" /\ queued # {}
    /\ \/ UNCHANGED <<handed, unclear>>
       \/ Got(queued) /\ unclear' = unclear \cup queued
    /\ Leave(s)
    /\ UNCHANGED <<discord, ready, cursor, live, told, raced, overtaken, restarts>>

\* set_cursor keeps the larger one.
SetCursor(m) == cursor' = IF m > cursor THEN m ELSE cursor

ReplayedTo == IF queued = {} THEN after ELSE Max(queued)

MoveCursor(s) ==
    /\ replay[s] = "cursor"
    /\ SetCursor(ReplayedTo)
    /\ Leave(s)
    /\ UNCHANGED <<discord, ready, live, observed, restarts>>

MoveFails(s) ==
    /\ replay[s] = "cursor"
    /\ unclear' = unclear \cup queued
    /\ Leave(s)
    /\ UNCHANGED <<discord, ready, cursor, live, handed, told, raced, overtaken, restarts>>

\* Whatever came of it, live messages are let in.
Open(s) ==
    /\ replay[s] = "open"
    /\ ready' = TRUE
    /\ Goto(s, "no")
    /\ UNCHANGED <<discord, lock, cursor, live, after, scanned, queued, observed, restarts>>

-----------------------------------------------------------------------------
(* Handler::message                                                         *)

Become(m, p) == live' = [live EXCEPT ![m] = p]
Tell(m) == told' = told \cup {m}

\* A message that begins with !god is deleted or queued for it. Others wait for
\* the lock, or are refused until the startup is over.
Receive(m) ==
    /\ live[m] = "event"
    /\ \/ history[m] = "text" /\ ready /\ Become(m, "lock") /\ UNCHANGED told
       \/ (history[m] = "god" \/ ~ready) /\ Tell(m) /\ Become(m, "no")
    /\ UNCHANGED <<discord, ready, lock, cursor, replays, handed, unclear, raced, overtaken, restarts>>

\* forward_task_message; the cursor is not looked at.
LockLive(m) ==
    /\ live[m] = "lock" /\ lock = Free
    /\ lock' = Live(m)
    /\ Become(m, "dispatch")
    /\ UNCHANGED <<discord, ready, cursor, replays, observed, restarts>>

\* dispatch_task_input
Forward(m) ==
    /\ live[m] = "dispatch"
    /\ Got({m})
    /\ Become(m, "cursor")
    /\ UNCHANGED <<discord, ready, lock, cursor, replays, told, unclear, raced, overtaken, restarts>>

Finish(m) == lock' = Free /\ Become(m, "no")

\* An error before Codex got it, or after that: the owner is told.
ForwardFails(m) ==
    /\ live[m] = "dispatch"
    /\ \/ UNCHANGED <<handed, unclear>>
       \/ Got({m}) /\ unclear' = unclear \cup {m}
    /\ Tell(m)
    /\ Finish(m)
    /\ UNCHANGED <<discord, ready, cursor, replays, raced, overtaken, restarts>>

Advance(m) ==
    /\ live[m] = "cursor"
    /\ SetCursor(m)
    /\ overtaken' = overtaken \cup {x \in Posted : cursor < x /\ x < m}
    /\ Finish(m)
    /\ UNCHANGED <<discord, ready, replays, handed, told, unclear, raced, restarts>>

AdvanceFails(m) ==
    /\ live[m] = "cursor"
    /\ unclear' = unclear \cup {m}
    /\ Tell(m)
    /\ Finish(m)
    /\ UNCHANGED <<discord, ready, cursor, replays, handed, raced, overtaken, restarts>>

-----------------------------------------------------------------------------

\* The relay stops, wherever it is; the cursor stays.
Restart ==
    /\ link # "down" /\ link' = "down"
    /\ restarts < MaxRestarts /\ restarts' = restarts + 1
    /\ unclear' = unclear \cup {m \in Posted : live[m] = "cursor"}
                          \cup (IF \E s \in Sessions : replay[s] = "cursor" THEN queued ELSE {})
    /\ live' = [m \in Messages |-> "no"] /\ replay' = [s \in Sessions |-> "no"]
    /\ ready' = FALSE /\ lock' = Free
    /\ queued' = {} /\ after' = 0 /\ scanned' = 0
    /\ UNCHANGED <<history, gone, sessions, cursor, handed, told, raced, overtaken>>

ReadyEvent(s) ==
    \/ Gate(s) \/ LockReplay(s) \/ ReadCursor(s) \/ ReplayFails(s) \/ Scan(s)
    \/ HandOver(s) \/ HandOverFails(s) \/ MoveCursor(s) \/ MoveFails(s) \/ Open(s)

MessageEvent(m) ==
    \/ Receive(m) \/ LockLive(m) \/ Forward(m) \/ ForwardFails(m) \/ Advance(m) \/ AdvanceFails(m)

Next ==
    \/ \E kind \in {"text", "god", "other"} : Post(kind)
    \/ \E m \in Messages : Purge(m) \/ MessageEvent(m)
    \/ \E s \in Sessions : ReadyEvent(s)
    \/ Lose \/ Resume \/ Connect \/ Restart

Spec == Init /\ [][Next]_vars

-----------------------------------------------------------------------------
(* Properties                                                               *)

\* Codex gets a message once, over live events and replays of overlapping gateway
\* sessions and restarts. Left out are messages of which the relay could not tell
\* or not write down that Codex had them, and those in raced.
HandedOnce == \A m \in Posted \ (unclear \cup raced) : handed[m] <= 1

\* Nobody has seen to a message: Codex has not got it, its owner got no answer, it
\* is not deleted, and no event of it is on its way.
Unseen(m) ==
    history[m] # "other" /\ handed[m] = 0 /\ m \notin told \cup gone /\ live[m] = "no"

\* No replay moves the cursor past a message that nobody has seen to, whatever its
\* pages, its limit and its errors: only a live message does, see overtaken.
ReplaySkipsNothing == \A m \in Posted : m <= cursor /\ Unseen(m) => m \in overtaken

\* docs/ARCHITECTURE.md: if the relay was offline, it scans from the stored channel
\* cursor and replays unprocessed owner messages. Then no message that nobody has
\* seen to is behind the cursor, where no scan finds it.
OfflineIsReplayed == \A m \in Posted : m <= cursor => ~Unseen(m)
=============================================================================
