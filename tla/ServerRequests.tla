--------------------------- MODULE ServerRequests ---------------------------
(***************************************************************************)
(* The requests Codex makes of its owner (approvals, questions,            *)
(* elicitations) and their Discord cards: src/src/discord/bot.rs from      *)
(* handle_server_request to the reply, the expiry, the resolution in       *)
(* another Codex client, or the retirement after a restart.                *)
(*                                                                         *)
(* A request <<g, i>> is asked by app-server process g with JSON-RPC id i; *)
(* every process counts its ids from the start again.  All requests are of *)
(* one Codex thread (the code never relates those of different threads).   *)
(* The threads of control are the handler of each request, named by the    *)
(* request itself, the button presses and modals of the owner (Clickers),  *)
(* the notification consumer, the expiry sweep and the gateway-ready       *)
(* reconciliation.  A step is what one of them does between two points     *)
(* where another may interfere: an await, or two operations on different   *)
(* concurrent maps when their order can be told apart.                     *)
(***************************************************************************)
EXTENDS Naturals, Sequences

CONSTANTS
    Ids,         \* JSON-RPC ids of one process's requests
    Clickers,    \* interactions of the owner that may run at the same time
    Consumer, Sweeper, Boot, \* the three background tasks
    NoRequest,
    MaxGen,      \* bound: app-server processes
    MaxClicks,   \* bound: interactions in all
    MaxReadies   \* bound: gateway-ready events, and restarts of the relay

ASSUME BoundsAssumption == MaxGen \in Nat /\ MaxClicks \in Nat /\ MaxReadies \in Nat

Gens     == 1..MaxGen
Requests == Gens \X Ids
Workers  == Clickers \cup {Consumer, Sweeper, Boot}
Threads  == Requests \cup Workers

ASSUME ThreadsAssumption ==
    /\ Clickers \cap {Consumer, Sweeper, Boot} = {}
    /\ Consumer # Sweeper /\ Sweeper # Boot /\ Boot # Consumer
    /\ Requests \cap Workers = {} /\ NoRequest \notin Requests

VARIABLES
    generation, up,     \* of the client: the latest process, and whether it is connected
    request,            \* each request as its process sees it
    replies,            \* how many answers of the relay the process was sent
    events,             \* serverRequest/resolved notifications not consumed yet
    pending,            \* pending_server_requests
    clock,              \* pending_request_started, and whether the TTL has passed
    messages,           \* pending_request_messages
    tombs,              \* resolved_request_tombstones
    row,                \* the SQLite row of each request
    card,               \* its Discord message
    task,               \* the mirrored state of the Codex thread
    pc, on, seen, due, stale, \* where the threads are, their request and their locals
    clicks, readies,    \* counted for the bounds
    crossed             \* observed: requests that were hit by another one's event

server == <<generation, up, request, replies, events>>
maps   == <<pending, clock, messages, tombs>>
shown  == <<row, card, task>>
locals == <<on, seen, due, stale>>
ghosts == <<clicks, readies, crossed>>
vars   == <<server, maps, shown, pc, locals, ghosts>>

RowStates == {"none", "saved", "located"}
SetupPCs  == {"none", "arrived", "save", "insert", "start", "check", "show", "send",
              "place", "verify", "locate", "done"}
WorkerPCs == {"idle", "reply", "restore", "restart", "repost", "tomb", "retire", "forget",
              "due", "expire", "expireblind", "ready", "boot"}
ReactPCs  == {"react", "reactwrite"}

TypeOK ==
    /\ generation \in 0..MaxGen /\ up \in BOOLEAN
    /\ request \in [Requests -> {"none", "waiting", "relay", "desktop"}]
    /\ replies \in [Requests -> 0..2]
    /\ events \in Seq(Requests)
    /\ pending \subseteq Requests /\ messages \subseteq Requests /\ tombs \subseteq Requests
    /\ clock \in [Requests -> {"none", "ticking", "elapsed"}]
    /\ row \in [Requests -> RowStates]
    /\ card \in [Requests -> {"none", "live", "retired"}]
    /\ task \in {"running", "needs"}
    /\ \A r \in Requests : pc[r] \in SetupPCs \cup ReactPCs
    /\ \A w \in Workers : pc[w] \in WorkerPCs \cup ReactPCs
    /\ DOMAIN pc = Threads
    /\ on \in [Workers -> Requests \cup {NoRequest}]
    /\ seen \in [Threads -> {"none", "running", "needs"}]
    /\ due \subseteq Requests /\ stale \in [Requests -> RowStates]
    /\ clicks \in 0..MaxClicks /\ readies \in 0..MaxReadies
    /\ crossed \subseteq Requests

Init ==
    /\ generation = 0 /\ up = FALSE
    /\ request = [r \in Requests |-> "none"] /\ replies = [r \in Requests |-> 0]
    /\ events = <<>>
    /\ pending = {} /\ messages = {} /\ tombs = {}
    /\ clock = [r \in Requests |-> "none"]
    /\ row = [r \in Requests |-> "none"] /\ card = [r \in Requests |-> "none"]
    /\ task = "running"
    /\ pc = [t \in Threads |-> IF t \in Workers THEN "idle" ELSE "none"]
    /\ on = [w \in Workers |-> NoRequest] /\ seen = [t \in Threads |-> "none"]
    /\ due = {} /\ stale = [r \in Requests |-> "none"]
    /\ clicks = 0 /\ readies = 0
    /\ crossed = {}

Goto(t, p) == pc' = [pc EXCEPT ![t] = p]

-----------------------------------------------------------------------------
(* The app-server and the connection, as CodexClient keeps it               *)

Reconnect ==
    /\ ~up /\ generation < MaxGen
    /\ generation' = generation + 1 /\ up' = TRUE
    /\ UNCHANGED <<request, replies, events, maps, shown, pc, locals, ghosts>>

Lose ==
    /\ up
    /\ up' = FALSE
    /\ UNCHANGED <<generation, request, replies, events, maps, shown, pc, locals, ghosts>>

Live(r) == up /\ r[1] = generation

\* Codex asks: the listener spawns a handler for the request.
Ask(r) ==
    /\ Live(r) /\ request[r] = "none"
    /\ request' = [request EXCEPT ![r] = "waiting"]
    /\ Goto(r, "arrived")
    /\ UNCHANGED <<generation, up, replies, events, maps, shown, locals, ghosts>>

\* serverRequest/resolved is broadcast, and lost if the consumer lags behind.
Announce(r) == events' \in {events, Append(events, r)}

\* It is answered in another Codex client, or withdrawn with its turn.
Desktop(r) ==
    /\ Live(r) /\ request[r] = "waiting"
    /\ request' = [request EXCEPT ![r] = "desktop"]
    /\ Announce(r)
    /\ UNCHANGED <<generation, up, replies, maps, shown, pc, locals, ghosts>>

\* The process reads a reply; the first one decides, and is announced.
Deliver(r) ==
    /\ replies' = [replies EXCEPT ![r] = IF @ < 2 THEN @ + 1 ELSE @]
    /\ IF request[r] = "waiting"
       THEN request' = [request EXCEPT ![r] = "relay"] /\ Announce(r)
       ELSE UNCHANGED <<request, events>>

\* send_server_reply is Ok: the process that asked was sent the answer.
Replied(r) == Live(r) /\ Deliver(r) /\ UNCHANGED <<generation, up>>

\* send_server_reply is an error: that process is gone, or is given up now, with
\* the answer delivered or not.
NotReplied(r) ==
    IF Live(r)
    THEN up' = FALSE /\ UNCHANGED generation
         /\ (Deliver(r) \/ UNCHANGED <<request, replies, events>>)
    ELSE UNCHANGED server

-----------------------------------------------------------------------------
(* handle_server_request                                                    *)

\* resolved_request_key
Key(r) == r

\* The handler answers by itself, which ends it, sent or not.
Reject(r) == (Replied(r) \/ NotReplied(r)) /\ Goto(r, "done")

\* A request that is not for the owner is answered at once: by the host broker,
\* by a fixed answer, or as unsupported.
AnswerAtOnce(r) ==
    /\ pc[r] = "arrived"
    /\ Reject(r)
    /\ UNCHANGED <<maps, shown, locals, ghosts>>

\* Resolved before its handler ran: the tombstone is consumed.
TakeTomb(r) ==
    /\ pc[r] = "arrived"
    /\ tombs' = tombs \ {Key(r)}
    /\ Goto(r, IF Key(r) \in tombs THEN "done" ELSE "save")
    /\ UNCHANGED <<server, pending, clock, messages, shown, locals, ghosts>>

\* The row is saved, or the task, its channel or the database is missing and
\* the request is rejected.
Save(r) ==
    /\ pc[r] = "save"
    /\ \/ row' = [row EXCEPT ![r] = "saved"] /\ Goto(r, "insert") /\ UNCHANGED server
       \/ UNCHANGED row /\ Reject(r)
    /\ UNCHANGED <<maps, card, task, locals, ghosts>>

Register(r) ==
    /\ pc[r] = "insert"
    /\ pending' = pending \cup {r}
    /\ Goto(r, "start")
    /\ UNCHANGED <<server, clock, messages, tombs, shown, locals, ghosts>>

StartClock(r) ==
    /\ pc[r] = "start"
    /\ clock' = [clock EXCEPT ![r] = "ticking"]
    /\ Goto(r, "check")
    /\ UNCHANGED <<server, pending, messages, tombs, shown, locals, ghosts>>

Unregister(r) ==
    /\ pending' = pending \ {r}
    /\ clock' = [clock EXCEPT ![r] = "none"]
    /\ row' = [row EXCEPT ![r] = "none"]

\* Resolved while it was being saved: a tombstone, or already taken out. All
\* that was registered is undone.
Check(r) ==
    /\ pc[r] = "check"
    /\ tombs' = tombs \ {Key(r)}
    /\ IF Key(r) \in tombs \/ r \notin pending
       THEN Unregister(r) /\ Goto(r, "done")
       ELSE Goto(r, "show") /\ UNCHANGED <<pending, clock, row>>
    /\ UNCHANGED <<server, messages, card, task, locals, ghosts>>

\* The task is mirrored as waiting for its owner, or that fails and goes on.
Show(r) ==
    /\ pc[r] = "show"
    /\ task' \in {"needs", task}
    /\ Goto(r, "send")
    /\ UNCHANGED <<server, maps, row, card, locals, ghosts>>

\* The card is posted, and can be used before the next step.
Send(r) ==
    /\ pc[r] = "send"
    /\ card' = [card EXCEPT ![r] = "live"]
    /\ Goto(r, "place")
    /\ UNCHANGED <<server, maps, row, task, locals, ghosts>>

\* Discord does not take it: the request is unregistered and rejected.
SendFails(r) ==
    /\ pc[r] = "send"
    /\ Unregister(r) /\ Reject(r)
    /\ UNCHANGED <<messages, tombs, card, task, locals, ghosts>>

Place(r) ==
    /\ pc[r] = "place"
    /\ messages' = messages \cup {r}
    /\ Goto(r, "verify")
    /\ UNCHANGED <<server, pending, clock, tombs, shown, locals, ghosts>>

\* Resolved while the card was being posted: the card is retired.
Verify(r) ==
    /\ pc[r] = "verify"
    /\ IF r \in pending
       THEN Goto(r, "locate") /\ UNCHANGED <<messages, row, card>>
       ELSE /\ Goto(r, "react")
            /\ messages' = messages \ {r}
            /\ row' = [row EXCEPT ![r] = "none"]
            /\ card' = [card EXCEPT ![r] = "retired"]
    /\ UNCHANGED <<server, pending, clock, tombs, task, locals, ghosts>>

\* set_pending_request_message updates the row, if it is still there.
Locate(r) ==
    /\ pc[r] = "locate"
    /\ row' = [row EXCEPT ![r] = IF @ = "none" THEN "none" ELSE "located"]
    /\ Goto(r, "done")
    /\ UNCHANGED <<server, maps, card, task, locals, ghosts>>

-----------------------------------------------------------------------------
(* reactivate_unblocked_task, which ends most of what follows               *)

\* The task is read, and has_pending_for_thread decides on the state that is
\* going to be written.
ReactCheck(t) ==
    /\ pc[t] = "react"
    /\ seen' = [seen EXCEPT ![t] = IF pending = {} THEN "running" ELSE task]
    /\ Goto(t, "reactwrite")
    /\ UNCHANGED <<server, maps, shown, on, due, stale, ghosts>>

\* What a thread does once it is through with its request.
Free(t, p) ==
    /\ Goto(t, p)
    /\ on' = IF t \in Workers THEN [on EXCEPT ![t] = NoRequest] ELSE on

ReactWrite(t) ==
    /\ pc[t] = "reactwrite"
    /\ task' = seen[t]
    /\ seen' = [seen EXCEPT ![t] = "none"]
    /\ Free(t, IF t \in Requests THEN "done" ELSE IF t = Sweeper THEN "due" ELSE "idle")
    /\ UNCHANGED <<server, maps, row, card, due, stale, ghosts>>

React(t) == ReactCheck(t) \/ ReactWrite(t)

-----------------------------------------------------------------------------
(* resolve_approval and answer_server_request                               *)

\* What is left in the map once an interaction has its request.
\* Mutant: it is read and left there.
TakenNot(r) == pending
Taken(r) == pending \ {r}

\* The owner uses a card (not while a reconciliation gates interactions): the
\* request is taken out, so that it is in this interaction's hands only. When
\* somebody else has it, or it is gone, nothing happens.
Click(k, r) ==
    /\ pc[k] = "idle" /\ pc[Boot] = "idle" /\ card[r] = "live" /\ clicks < MaxClicks
    /\ r \in pending
    /\ pending' = Taken(r)
    /\ clock' = [clock EXCEPT ![r] = "none"]
    /\ messages' = messages \ {r}
    /\ on' = [on EXCEPT ![k] = r]
    /\ Goto(k, "reply")
    /\ clicks' = clicks + 1
    /\ UNCHANGED <<server, tombs, shown, seen, due, stale, readies, crossed>>

\* The answer reaches the process; the row goes and the card is retired.
Answered(k) ==
    /\ pc[k] = "reply"
    /\ Replied(on[k])
    /\ row' = [row EXCEPT ![on[k]] = "none"]
    /\ card' = [card EXCEPT ![on[k]] = "retired"]
    /\ Goto(k, "react")
    /\ UNCHANGED <<maps, task, locals, ghosts>>

\* It does not, or the modal's answers are not what the request asks for.
NotAnswered(k) ==
    /\ pc[k] = "reply"
    /\ NotReplied(on[k]) \/ UNCHANGED server
    /\ Goto(k, "restore")
    /\ UNCHANGED <<maps, shown, locals, ghosts>>

\* restore_pending_request, a map at a time.
PutBack(r) == pending \cup {r}

RestorePending(k) ==
    /\ pc[k] = "restore"
    /\ pending' = PutBack(on[k])
    /\ Goto(k, "restart")
    /\ UNCHANGED <<server, clock, messages, tombs, shown, locals, ghosts>>

RestoreClock(k) ==
    /\ pc[k] = "restart"
    /\ clock' = [clock EXCEPT ![on[k]] = IF @ = "none" THEN "ticking" ELSE @]
    /\ Goto(k, "repost")
    /\ UNCHANGED <<server, pending, messages, tombs, shown, locals, ghosts>>

RestoreCard(k) ==
    /\ pc[k] = "repost"
    /\ messages' = messages \cup {on[k]}
    /\ Free(k, "idle")
    /\ UNCHANGED <<server, pending, clock, tombs, shown, seen, due, stale, ghosts>>

-----------------------------------------------------------------------------
(* retire_resolved_request                                                  *)

\* The pending request an event is taken to be about: its JSON-RPC id decides,
\* and the thread, but not the process.
Matches(e) == {r \in pending : r[2] = e[2]}

NextEvent ==
    /\ pc[Consumer] = "idle" /\ events # <<>>
    /\ LET e == Head(events) IN
       IF Matches(e) = {}
       THEN /\ on' = [on EXCEPT ![Consumer] = e]
            /\ Goto(Consumer, "tomb")
            /\ UNCHANGED crossed
       ELSE \E r \in Matches(e) :
            /\ on' = [on EXCEPT ![Consumer] = r]
            /\ Goto(Consumer, "retire")
            /\ crossed' = IF r = e THEN crossed ELSE crossed \cup {r}
    /\ events' = Tail(events)
    /\ UNCHANGED <<generation, up, request, replies, maps, shown, seen, due, stale, clicks,
                   readies>>

\* A tombstone for the handler that is still to come; those that nobody asked
\* for in five minutes go.
Tomb ==
    /\ pc[Consumer] = "tomb"
    /\ tombs' \in {tombs \cup {Key(on[Consumer])}, {Key(on[Consumer])}}
    /\ Free(Consumer, "idle")
    /\ UNCHANGED <<server, pending, clock, messages, shown, seen, due, stale, ghosts>>

Retire ==
    /\ pc[Consumer] = "retire"
    /\ pending' = pending \ {on[Consumer]}
    /\ Goto(Consumer, "forget")
    /\ UNCHANGED <<server, clock, messages, tombs, shown, locals, ghosts>>

\* A card is retired if its message is known.
RetireCard(r) ==
    card' = [card EXCEPT ![r] = IF r \in messages THEN "retired" ELSE @]

Forget ==
    /\ pc[Consumer] = "forget"
    /\ clock' = [clock EXCEPT ![on[Consumer]] = "none"]
    /\ messages' = messages \ {on[Consumer]}
    /\ row' = [row EXCEPT ![on[Consumer]] = "none"]
    /\ RetireCard(on[Consumer])
    /\ Goto(Consumer, "react")
    /\ UNCHANGED <<server, pending, tombs, task, locals, ghosts>>

-----------------------------------------------------------------------------
(* expire_live_pending_requests                                             *)

\* Fifteen minutes go by; a card is posted well within them.
Elapse(r) ==
    /\ clock[r] = "ticking" /\ pc[r] = "done"
    /\ clock' = [clock EXCEPT ![r] = "elapsed"]
    /\ UNCHANGED <<server, pending, messages, tombs, shown, pc, locals, ghosts>>

\* Every two seconds the sweep collects what is past its time.
Sweep ==
    /\ pc[Sweeper] = "idle"
    /\ \E r \in Requests : clock[r] = "elapsed"
    /\ due' = {r \in Requests : clock[r] = "elapsed"}
    /\ Goto(Sweeper, "due")
    /\ UNCHANGED <<server, maps, shown, on, seen, stale, ghosts>>

\* One of those: it is taken out, unless someone else has it in hand.
ExpireNext ==
    /\ pc[Sweeper] = "due"
    /\ \E r \in due :
        /\ due' = due \ {r}
        /\ clock' = [clock EXCEPT ![r] = "none"]
        /\ IF r \in pending
           THEN /\ pending' = pending \ {r}
                /\ messages' = messages \ {r}
                /\ on' = [on EXCEPT ![Sweeper] = r]
                /\ Goto(Sweeper, IF r \in messages THEN "expire" ELSE "expireblind")
           ELSE UNCHANGED <<pending, messages, on, pc>>
    /\ UNCHANGED <<server, tombs, shown, seen, stale, ghosts>>

\* It is answered with the outcome its kind has for this, as well as possible.
Expire ==
    /\ pc[Sweeper] \in {"expire", "expireblind"}
    /\ Replied(on[Sweeper]) \/ NotReplied(on[Sweeper])
    /\ row' = [row EXCEPT ![on[Sweeper]] = "none"]
    /\ card' = [card EXCEPT ![on[Sweeper]] = IF pc[Sweeper] = "expire" THEN "retired" ELSE @]
    /\ Goto(Sweeper, "react")
    /\ UNCHANGED <<maps, task, locals, ghosts>>

\* The end of the sweep drops the clocks of requests that are not pending.
\* Mutant: it drops those of requests that are.
OrphanClocksNot == pending
OrphanClocks == Requests \ pending

SweepEnds ==
    /\ pc[Sweeper] = "due" /\ due = {}
    /\ clock' = [r \in Requests |-> IF r \in OrphanClocks THEN "none" ELSE clock[r]]
    /\ Goto(Sweeper, "idle")
    /\ UNCHANGED <<server, pending, messages, tombs, shown, locals, ghosts>>

-----------------------------------------------------------------------------
(* expire_stale_pending_requests, on every gateway-ready event              *)

\* After a restart of the relay, or a new session with the Discord gateway.
Ready ==
    /\ \/ pc[Boot] = "idle" /\ readies < MaxReadies /\ readies' = readies + 1
       \/ pc[Boot] = "ready" /\ UNCHANGED readies
    /\ stale' = row
    /\ Goto(Boot, "boot")
    /\ UNCHANGED <<server, maps, shown, on, seen, due, clicks, crossed>>

\* A row without its request in memory is from an earlier run of the relay.
ReadyNext ==
    /\ pc[Boot] = "boot"
    /\ \E r \in Requests :
        /\ stale[r] # "none"
        /\ stale' = [stale EXCEPT ![r] = "none"]
        /\ IF r \in pending
           THEN UNCHANGED <<row, card>>
           ELSE /\ row' = [row EXCEPT ![r] = "none"]
                /\ card' = [card EXCEPT ![r] = IF stale[r] = "located" THEN "retired" ELSE @]
    /\ UNCHANGED <<server, maps, task, pc, on, seen, due, ghosts>>

ReadyEnds ==
    /\ pc[Boot] = "boot" /\ \A r \in Requests : stale[r] = "none"
    /\ Goto(Boot, "idle")
    /\ UNCHANGED <<server, maps, shown, locals, ghosts>>

\* The relay stops and starts again: its child goes with it, memory is lost,
\* rows and cards stay.
Restart ==
    /\ readies < MaxReadies
    /\ readies' = readies + 1
    /\ up' = FALSE
    /\ events' = <<>>
    /\ pending' = {} /\ messages' = {} /\ tombs' = {}
    /\ clock' = [r \in Requests |-> "none"]
    /\ pc' = [t \in Threads |-> IF t = Boot THEN "ready"
                                ELSE IF t \in Workers THEN "idle"
                                ELSE IF pc[t] = "none" THEN "none" ELSE "done"]
    /\ on' = [w \in Workers |-> NoRequest] /\ seen' = [t \in Threads |-> "none"]
    /\ due' = {} /\ stale' = [r \in Requests |-> "none"]
    /\ UNCHANGED <<generation, request, replies, shown, clicks, crossed>>

-----------------------------------------------------------------------------

SetUp(r) ==
    \/ AnswerAtOnce(r) \/ TakeTomb(r) \/ Save(r) \/ Register(r) \/ StartClock(r) \/ Check(r)
    \/ Show(r) \/ Send(r) \/ SendFails(r) \/ Place(r) \/ Verify(r) \/ Locate(r) \/ React(r)
Decide(k) ==
    Answered(k) \/ NotAnswered(k) \/ RestorePending(k) \/ RestoreClock(k) \/ RestoreCard(k)
        \/ React(k)
Consume  == NextEvent \/ Tomb \/ Retire \/ Forget \/ React(Consumer)
Expiring == Sweep \/ ExpireNext \/ Expire \/ SweepEnds \/ React(Sweeper)

Next ==
    \/ Reconnect \/ Lose \/ \E r \in Requests : Ask(r) \/ Desktop(r) \/ Elapse(r)
    \/ \E r \in Requests : SetUp(r)
    \/ \E k \in Clickers : Decide(k) \/ \E r \in Requests : Click(k, r)
    \/ Consume \/ Expiring
    \/ Ready \/ ReadyNext \/ ReadyEnds \/ Restart

Spec == Init /\ [][Next]_vars

\* The tasks that are running go on and time passes. Nothing is assumed of
\* Codex, of the connection or of the owner.
Fairness ==
    /\ \A r \in Requests : WF_vars(SetUp(r)) /\ WF_vars(Elapse(r))
    /\ \A k \in Clickers : WF_vars(Decide(k))
    /\ WF_vars(Expiring)

FairSpec == Spec /\ Fairness

-----------------------------------------------------------------------------
(* Properties                                                               *)

\* No request is answered twice, by whoever of its handler, the owner's
\* interactions and the expiry gets hold of it (the map's remove is the only
\* thing that decides between them, and a failed reply puts it back).
RepliedOnce == \A r \in Requests : replies[r] <= 1

\* A request is being handled, in somebody's hands, or pending with a clock that
\* will expire it.
InHand(r) ==
    \/ pc[r] \in {"arrived", "save", "insert"}
    \/ \E w \in Workers : on[w] = r /\ pc[w] \in {"reply", "restore", "expire", "expireblind"}
Waited(r) ==
    /\ r \in pending
    /\ \/ clock[r] # "none" \/ pc[r] = "start"
       \/ \E k \in Clickers : on[k] = r /\ pc[k] = "restart"
Kept(r) == request[r] = "waiting" /\ Live(r) => InHand(r) \/ Waited(r)

\* No request that its process still waits for is forgotten, whatever the
\* restores, expiries and resolutions that cross it. Requests that were taken
\* for another process's are left out: see NothingForgotten.
WaitingIsKept == \A r \in Requests \ crossed : Kept(r)

\* The same for every request: an event of one process says nothing about the
\* requests of another (the comment on respond_result_for_generation and
\* docs/ARCHITECTURE.md have ids and replies bound to one process).
NothingForgotten == \A r \in Requests : Kept(r)

\* Codex does not wait forever: a request is answered, by the owner or by its
\* expiry, or resolved elsewhere, or its process goes.
RequestSettles ==
    \A r \in Requests :
        request[r] = "waiting" /\ Live(r) ~> request[r] # "waiting" \/ ~Live(r) \/ r \in crossed

\* A request whose tombstone stands is not offered to its owner
\* (docs/COVERAGE.md: externally resolved requests are tombstoned across setup
\* races): either the handler finds the tombstone or the event finds the request.
\* It does not hold: each may look before the other has written.
ResolvedIsRetired == \A r \in tombs : pc[r] = "done" => r \notin pending
=============================================================================
