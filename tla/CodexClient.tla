---------------------------- MODULE CodexClient ----------------------------
(***************************************************************************)
(* The JSON-RPC connection of the relay to its `codex app-server` child    *)
(* process (src/src/codex/client.rs, type CodexClient and its Inner).      *)
(*                                                                         *)
(* Every tokio task that can be inside the client is a member of Tasks:    *)
(* callers of request, tasks that answer server requests, tasks that call  *)
(* connect/reconnect/close, and the reader of the child's stdout.  A step  *)
(* of a task is what it does between two points where another task can run:*)
(* an await, a lock, or two loads of different atomics.  pc says where the *)
(* task is, job what it is doing, gen the generation it loaded and id its  *)
(* JSON-RPC request id.                                                    *)
(***************************************************************************)
EXTENDS Naturals, FiniteSets

CONSTANTS
    Callers,   \* tasks that call request()
    Impatient, \* those that put a deadline of their own around the call
    Repliers,  \* tasks that call respond_*_for_generation()
    Admins,    \* tasks that call connect(), reconnect() or close()
    Reader,    \* the stdout reader task of the current child
    NoTask,    \* a free lock
    MaxGen,    \* bound: app-server processes spawned
    MaxId      \* bound: JSON-RPC ids handed out

Tasks == Callers \cup Repliers \cup Admins \cup {Reader}

ASSUME TasksAssumption ==
    /\ Callers \cap Repliers = {} /\ Callers \cap Admins = {} /\ Repliers \cap Admins = {}
    /\ Reader \notin Callers \cup Repliers \cup Admins
    /\ NoTask \notin Tasks /\ Impatient \subseteq Callers
ASSUME BoundsAssumption == MaxGen \in Nat /\ MaxId \in Nat

Gens == 1..MaxGen      \* generations, each one child process
Ids  == 1..MaxId

VARIABLES
    closed, connected, \* the two AtomicBools
    generation,        \* number of the latest child spawned
    initGen,           \* initialized_generation: 0 or the generation that shook hands
    stdin, child,      \* whose pipe and whose handle the client holds (0: None)
    connectLock, lifecycle, \* the two tokio mutexes: holder or NoTask
    pending,           \* ids in the map of oneshot senders
    nextId,
    slot,              \* what was sent down the oneshot of each id
    pc, job, gen, id, res, \* the tasks
    proc, hello, received, answered, stdout, asked, replies \* the app-servers

inner == <<closed, connected, generation, initGen, stdin, child>>
locks == <<connectLock, lifecycle>>
calls == <<pending, nextId, slot>>
peers == <<proc, hello, received, answered, stdout, asked, replies>>
vars  == <<inner, locks, calls, pc, job, gen, id, res, peers>>

Jobs == {"none", "ensure", "init", "initialized", "request", "reply", "close",
         "reconnect"}
PCs  == {"idle", "queued", "check", "initcheck", "spawn", "install", "raw", "wcheck",
         "wgen", "write", "wait", "storeinit", "rwrite", "rgen", "disc", "lose",
         "fail", "kill", "abandon", "reading"}

InnerOK ==
    /\ closed \in BOOLEAN /\ connected \in BOOLEAN
    /\ generation \in 0..MaxGen /\ initGen \in 0..MaxGen
    /\ stdin \in 0..MaxGen /\ child \in 0..MaxGen
    /\ connectLock \in Tasks \cup {NoTask} /\ lifecycle \in Tasks \cup {NoTask}
CallsOK ==
    /\ pending \subseteq Ids /\ nextId \in 1..(MaxId + 1)
    /\ slot \in [Ids -> {"none", "answer", "lost"}]
TasksOK ==
    /\ pc \in [Tasks -> PCs] /\ job \in [Tasks -> Jobs]
    /\ gen \in [Tasks -> 0..MaxGen] /\ id \in [Tasks -> 0..MaxId]
    /\ res \in [Callers -> {"none", "run", "ok", "error"}]
PeersOK ==
    /\ proc \in [Gens -> {"none", "live", "dead"}]
    /\ hello \in [Gens -> {"none", "initialize", "initialized"}]
    /\ received \in [Gens -> SUBSET Ids] /\ stdout \in [Gens -> SUBSET Ids]
    /\ answered \subseteq Ids
    /\ asked \subseteq Gens /\ replies \in [Gens -> SUBSET Gens]
TypeOK == InnerOK /\ CallsOK /\ TasksOK /\ PeersOK

Init ==
    /\ closed = FALSE /\ connected = FALSE
    /\ generation = 0 /\ initGen = 0 /\ stdin = 0 /\ child = 0
    /\ connectLock = NoTask /\ lifecycle = NoTask
    /\ pending = {} /\ nextId = 1 /\ slot = [i \in Ids |-> "none"]
    /\ pc = [t \in Tasks |-> "idle"] /\ job = [t \in Tasks |-> "none"]
    /\ gen = [t \in Tasks |-> 0] /\ id = [t \in Tasks |-> 0]
    /\ res = [t \in Callers |-> "none"]
    /\ proc = [g \in Gens |-> "none"] /\ hello = [g \in Gens |-> "none"]
    /\ received = [g \in Gens |-> {}] /\ stdout = [g \in Gens |-> {}]
    /\ answered = {}
    /\ asked = {} /\ replies = [g \in Gens |-> {}]

Goto(t, p) == pc' = [pc EXCEPT ![t] = p]

\* The task's call is over and its locals are gone; a caller has its result.
Done(t, r) ==
    /\ Goto(t, "idle")
    /\ job' = [job EXCEPT ![t] = "none"]
    /\ gen' = [gen EXCEPT ![t] = 0]
    /\ id' = [id EXCEPT ![t] = 0]
    /\ res' = IF t \in Callers THEN [res EXCEPT ![t] = r] ELSE res

-----------------------------------------------------------------------------
(* ensure_initialized                                                       *)

\* request(): the first load of `closed`, before queueing on connect_lock.
BeginRequest(t) ==
    /\ t \in Callers /\ pc[t] = "idle"
    /\ ~closed
    /\ Goto(t, "queued")
    /\ job' = [job EXCEPT ![t] = "ensure"]
    /\ res' = [res EXCEPT ![t] = "run"]
    /\ UNCHANGED <<inner, locks, calls, gen, id, peers>>

\* connect(): the same first load, by a task that only wants the connection.
BeginConnect(t) ==
    /\ t \in Admins /\ pc[t] = "idle"
    /\ ~closed
    /\ Goto(t, "queued")
    /\ job' = [job EXCEPT ![t] = "ensure"]
    /\ UNCHANGED <<inner, locks, calls, gen, id, res, peers>>

\* connect_lock is acquired and `closed` is read again.
Recheck(t) ==
    /\ pc[t] = "queued" /\ connectLock = NoTask
    /\ IF closed
       THEN Done(t, "error") /\ UNCHANGED connectLock
       ELSE Goto(t, "check") /\ connectLock' = t /\ UNCHANGED <<job, gen, id, res>>
    /\ UNCHANGED <<inner, lifecycle, calls, peers>>

\* `connected` decides between the running generation and a new child.
CheckConnected(t) ==
    /\ pc[t] = "check"
    /\ IF connected
       THEN Goto(t, "initcheck") /\ gen' = [gen EXCEPT ![t] = generation]
       ELSE Goto(t, "spawn") /\ UNCHANGED gen
    /\ UNCHANGED <<inner, locks, calls, job, id, res, peers>>

\* What follows ensure_initialized() = Ok: a caller sends its request.
Ensured(t) ==
    IF t \in Callers
    THEN /\ Goto(t, "raw") /\ job' = [job EXCEPT ![t] = "request"]
         /\ gen' = [gen EXCEPT ![t] = 0] /\ id' = [id EXCEPT ![t] = 0]
         /\ UNCHANGED res
    ELSE Done(t, "ok")

\* initialized_generation = generation: Ok, the guard of connect_lock is dropped.
CheckInitialized(t) ==
    /\ pc[t] = "initcheck"
    /\ IF initGen = gen[t]
       THEN Ensured(t) /\ connectLock' = NoTask
       ELSE /\ Goto(t, "raw") /\ job' = [job EXCEPT ![t] = "init"]
            /\ UNCHANGED <<gen, id, res, connectLock>>
    /\ UNCHANGED <<inner, lifecycle, calls, peers>>

\* The handshake is over.
StoreInitialized(t) ==
    /\ pc[t] = "storeinit"
    /\ initGen' = gen[t]
    /\ Ensured(t) /\ connectLock' = NoTask
    /\ UNCHANGED <<closed, connected, generation, stdin, child, lifecycle, calls, peers>>

-----------------------------------------------------------------------------
(* spawn_locked                                                             *)

\* terminate_child: the process is gone, whatever it was doing.
\* Mutant: the handle is dropped and the process left running.
KilledNot(g) == proc
Killed(g) == [p \in Gens |-> IF p = g /\ proc[p] = "live" THEN "dead" ELSE proc[p]]

\* fetch_add(1) + 1
NextGeneration == generation + 1

\* Under `lifecycle`: the previous child is reaped, its reader aborted and with
\* it what its pipes held; a new process is forked and the generation counted.
\* The new pipe is not published yet.
SpawnLocked(t) ==
    /\ pc[t] = "spawn" /\ lifecycle = NoTask /\ generation < MaxGen
    /\ lifecycle' = t
    /\ proc' = [Killed(child) EXCEPT ![NextGeneration] = "live"]
    /\ child' = 0
    /\ generation' = NextGeneration
    /\ gen' = [gen EXCEPT ![t] = NextGeneration, ![Reader] = 0]
    /\ pc' = [pc EXCEPT ![t] = "install", ![Reader] = "idle"]
    /\ received' = [g \in Gens |-> {}] /\ stdout' = [g \in Gens |-> {}]
    /\ UNCHANGED <<closed, connected, initGen, stdin, connectLock, calls, job, id, res,
                   hello, answered, asked, replies>>

\* The executable cannot be started: the child was reaped all the same.
SpawnFails(t) ==
    /\ pc[t] = "spawn" /\ lifecycle = NoTask
    /\ proc' = Killed(child)
    /\ child' = 0
    /\ pc' = [pc EXCEPT ![t] = "abandon", ![Reader] = "idle"]
    /\ gen' = [gen EXCEPT ![Reader] = 0]
    /\ UNCHANGED <<closed, connected, generation, initGen, stdin, connectLock, lifecycle,
                   calls, job, id, res, hello, received, answered, stdout, asked, replies>>

\* stdin, child and `connected` are published and the new reader starts.
Install(t) ==
    /\ pc[t] = "install"
    /\ stdin' = gen[t] /\ child' = gen[t] /\ connected' = TRUE
    /\ gen' = [gen EXCEPT ![Reader] = gen[t]]
    /\ pc' = [pc EXCEPT ![t] = "initcheck", ![Reader] = "reading"]
    /\ lifecycle' = NoTask
    /\ UNCHANGED <<closed, generation, initGen, connectLock, calls, job, id, res, peers>>

-----------------------------------------------------------------------------
(* request_raw and write_json                                               *)

\* A fresh id enters the pending map.
StartRaw(t) ==
    /\ pc[t] = "raw" /\ nextId <= MaxId
    /\ nextId' = nextId + 1
    /\ id' = [id EXCEPT ![t] = nextId]
    /\ pending' = pending \cup {nextId}
    /\ Goto(t, "wcheck")
    /\ UNCHANGED <<inner, locks, slot, job, gen, res, peers>>

\* write_json refuses at once when not connected.
WriteCheck(t) ==
    /\ pc[t] = "wcheck"
    /\ Goto(t, IF connected THEN "wgen" ELSE "abandon")
    /\ UNCHANGED <<inner, locks, calls, job, gen, id, res, peers>>

\* The generation to blame for a failed write is loaded before the write.
WriteLoadGeneration(t) ==
    /\ pc[t] = "wgen"
    /\ gen' = [gen EXCEPT ![t] = generation]
    /\ Goto(t, "write")
    /\ UNCHANGED <<inner, locks, calls, job, id, res, peers>>

\* What the child whose pipe was written gets to read.
\* Mutant: the notification is sent as if it were a request.
DeliverWithId(t, g) ==
    /\ hello' = [hello EXCEPT ![g] = IF job[t] = "request" THEN @ ELSE job[t]]
    /\ received' = [received EXCEPT ![g] = @ \cup {id[t]}]
Deliver(t, g) ==
    /\ hello' = [hello EXCEPT ![g] = CASE job[t] = "init" -> "initialize"
                                       [] job[t] = "initialized" -> "initialized"
                                       [] OTHER -> @]
    /\ received' = [received EXCEPT ![g] = IF job[t] = "initialized" THEN @ ELSE @ \cup {id[t]}]

\* write_frame: the frame goes into whichever pipe `stdin` holds by now.
WriteFrame(t) ==
    /\ pc[t] = "write" /\ stdin # 0 /\ proc[stdin] = "live"
    /\ Deliver(t, stdin)
    /\ Goto(t, IF job[t] = "initialized" THEN "storeinit" ELSE "wait")
    /\ UNCHANGED <<inner, locks, calls, job, gen, id, res, proc, answered, stdout, asked,
                   replies>>

\* write_frame: no pipe, a broken pipe, or a deadline that elapses in the write,
\* when nothing was delivered, or in the flush, when it may have been.
WriteFails(t) ==
    /\ pc[t] = "write"
    /\ \/ UNCHANGED <<hello, received>>
       \/ stdin # 0 /\ proc[stdin] = "live" /\ Deliver(t, stdin)
    /\ Goto(t, "lose")
    /\ UNCHANGED <<inner, locks, calls, job, gen, id, res, proc, answered, stdout, asked,
                   replies>>

\* What returning an error drops: the guard of connect_lock, if the task has it.
DropConnectLock(t) == connectLock' = IF connectLock = t THEN NoTask ELSE connectLock

\* Only a caller or a connecting task has an id (request_raw's), others have 0.
Forget(t) == pending' = pending \ {id[t]}

\* The write, the spawn or the teardown is over and failed: the id, if any,
\* leaves the map and the error is returned.
Abandon(t) ==
    /\ pc[t] = "abandon"
    /\ Forget(t)
    /\ slot' = [i \in Ids |-> IF i = id[t] THEN "none" ELSE slot[i]]
    /\ DropConnectLock(t)
    /\ Done(t, "error")
    /\ UNCHANGED <<inner, lifecycle, nextId, peers>>

\* `initialize` was answered; `initialized` is written next.
\* Mutant: the generation is taken as initialized at once.
AfterInitializeStored == "storeinit"
AfterInitialize == "wcheck"

\* The oneshot delivers: a result, or an error, which is what the app-server
\* answered or the loss of the connection.
Receive(t) ==
    /\ pc[t] = "wait" /\ slot[id[t]] # "none"
    /\ \/ /\ slot[id[t]] = "answer" /\ job[t] = "init"
          /\ Goto(t, AfterInitialize) /\ job' = [job EXCEPT ![t] = "initialized"]
          /\ id' = [id EXCEPT ![t] = 0]
          /\ UNCHANGED <<gen, res, connectLock>>
       \/ /\ slot[id[t]] = "answer" /\ job[t] = "request"
          /\ Done(t, "ok") /\ UNCHANGED connectLock
       \/ Done(t, "error") /\ DropConnectLock(t)
    /\ slot' = [slot EXCEPT ![id[t]] = "none"]
    /\ UNCHANGED <<inner, lifecycle, pending, nextId, peers>>

\* Nothing has come down the oneshot when request_timeout elapses.
\* Mutant: the receiver is awaited without a deadline.
ElapsesNever(t) == FALSE
Elapses(t) == slot[id[t]] = "none"

\* The id leaves the map, so that a late answer is nobody's.
Timeout(t) ==
    /\ pc[t] = "wait" /\ Elapses(t)
    /\ Forget(t)
    /\ DropConnectLock(t)
    /\ Done(t, "error")
    /\ UNCHANGED <<inner, lifecycle, nextId, slot, peers>>

-----------------------------------------------------------------------------
(* write_json_for_generation: the answer to a server request                *)

\* The check before the write. Mutant: any connection will do.
ReplyAllowedAny(t) == connected
ReplyAllowed(t) == connected /\ generation = gen[t]

\* The server request of generation g is answered (approval, refusal, expiry).
BeginReply(t, g) ==
    /\ t \in Repliers /\ pc[t] = "idle" /\ g \in asked
    /\ connected /\ generation = g
    /\ gen' = [gen EXCEPT ![t] = g]
    /\ job' = [job EXCEPT ![t] = "reply"]
    /\ Goto(t, "rwrite")
    /\ UNCHANGED <<inner, locks, calls, id, res, peers>>

\* With the pipe in hand the generation is compared again, then written to.
ReplyFrame(t) ==
    /\ pc[t] = "rwrite" /\ ReplyAllowed(t) /\ stdin # 0 /\ proc[stdin] = "live"
    /\ replies' = [replies EXCEPT ![stdin] = @ \cup {gen[t]}]
    /\ Done(t, "ok")
    /\ UNCHANGED <<inner, locks, calls, proc, hello, received, answered, stdout, asked>>

ReplyFails(t) ==
    /\ pc[t] = "rwrite"
    /\ Goto(t, "rgen")
    /\ UNCHANGED <<inner, locks, calls, job, gen, id, res, peers>>

\* Only the generation the reply was meant for may be torn down for it.
ReplyBlame(t) ==
    /\ pc[t] = "rgen"
    /\ Goto(t, IF generation = gen[t] THEN "lose" ELSE "abandon")
    /\ UNCHANGED <<inner, locks, calls, job, gen, id, res, peers>>

-----------------------------------------------------------------------------
(* lose_connection and disconnect                                           *)

\* The task that will not tear down anything returns its error.
LoseStale(t) ==
    /\ pc[t] = "lose" /\ lifecycle = NoTask /\ generation # gen[t]
    /\ Goto(t, "abandon")
    /\ UNCHANGED <<inner, locks, calls, job, gen, id, res, peers>>

\* Under `lifecycle`, for the current generation only: no longer connected.
LoseConnection(t) ==
    /\ pc[t] = "lose" /\ lifecycle = NoTask /\ generation = gen[t]
    /\ lifecycle' = t
    /\ connected' = FALSE /\ initGen' = 0
    /\ Goto(t, "fail")
    /\ UNCHANGED <<closed, generation, stdin, child, connectLock, calls, job, gen, id, res,
                   peers>>

\* close() stores `closed` before it disconnects; reconnect() does not.
BeginClose(t) ==
    /\ t \in Admins /\ pc[t] = "idle"
    /\ closed' = TRUE
    /\ job' = [job EXCEPT ![t] = "close"]
    /\ Goto(t, "disc")
    /\ UNCHANGED <<connected, generation, initGen, stdin, child, locks, calls, gen, id, res,
                   peers>>

BeginReconnect(t) ==
    /\ t \in Admins /\ pc[t] = "idle"
    /\ job' = [job EXCEPT ![t] = "reconnect"]
    /\ Goto(t, "disc")
    /\ UNCHANGED <<inner, locks, calls, gen, id, res, peers>>

\* disconnect does the same as lose_connection, whatever the generation.
Disconnect(t) ==
    /\ pc[t] = "disc" /\ lifecycle = NoTask
    /\ lifecycle' = t
    /\ connected' = FALSE /\ initGen' = 0
    /\ Goto(t, "fail")
    /\ UNCHANGED <<closed, generation, stdin, child, connectLock, calls, job, gen, id, res,
                   peers>>

\* The ids whose oneshot still has a receiver: to send down another does nothing.
Awaited == {id[t] : t \in Tasks}

\* What the oneshots hold once their waiters are failed.
\* Mutant: the map is emptied without sending anything.
FailedSlotsSilent == slot
FailedSlots == [i \in Ids |-> IF i \in pending \cap Awaited THEN "lost" ELSE slot[i]]

\* Every waiter is told that the connection is lost.
FailPending(t) ==
    /\ pc[t] = "fail"
    /\ slot' = FailedSlots
    /\ pending' = {}
    /\ Goto(t, "kill")
    /\ UNCHANGED <<inner, locks, nextId, job, gen, id, res, peers>>

Disconnecting(t) == job[t] \in {"close", "reconnect"}

\* The child is terminated and its pipe dropped (or left, when its mutex could
\* not be had in time); disconnect also aborts the reader. reconnect() goes on
\* to reopen the client and to connect.
KillChild(t) ==
    /\ pc[t] = "kill"
    /\ proc' = Killed(child)
    /\ child' = 0
    /\ stdin' \in {0, stdin}
    /\ lifecycle' = NoTask
    /\ LET next == CASE job[t] = "close" -> "idle"
                     [] job[t] = "reconnect" -> "queued"
                     [] OTHER -> "abandon"
       IN pc' = [x \in Tasks |-> IF x = t THEN next
                                 ELSE IF x = Reader /\ Disconnecting(t) THEN "idle"
                                 ELSE pc[x]]
    /\ gen' = IF Disconnecting(t) THEN [gen EXCEPT ![Reader] = 0] ELSE gen
    /\ closed' = (closed /\ job[t] # "reconnect")
    /\ job' = [job EXCEPT ![t] = CASE job[t] = "close" -> "none"
                                   [] job[t] = "reconnect" -> "ensure"
                                   [] OTHER -> @]
    /\ UNCHANGED <<connected, generation, initGen, connectLock, calls, id, res, hello,
                   received, answered, stdout, asked, replies>>

-----------------------------------------------------------------------------
(* A caller that does not wait any longer                                   *)

\* The host broker and the autocompletion put a deadline of their own around
\* their calls and drop the future at the await it is at: its guards go, a child
\* it was storing or terminating is killed on drop, and its id stays in the map
\* until an answer or a lost connection takes it out.
GiveUp(t) ==
    /\ t \in Impatient
    /\ pc[t] \in {"queued", "spawn", "install", "write", "wait", "lose", "kill"}
    /\ proc' = CASE pc[t] = "install" -> Killed(gen[t])
                 [] pc[t] = "kill" -> Killed(child)
                 [] OTHER -> proc
    /\ child' = IF pc[t] = "kill" THEN 0 ELSE child
    /\ lifecycle' = IF lifecycle = t THEN NoTask ELSE lifecycle
    /\ slot' = [i \in Ids |-> IF i = id[t] THEN "none" ELSE slot[i]]
    /\ DropConnectLock(t)
    /\ Done(t, "error")
    /\ UNCHANGED <<closed, connected, generation, initGen, stdin, pending, nextId, hello,
                   received, answered, stdout, asked, replies>>

-----------------------------------------------------------------------------
(* The reader task and handle_incoming                                      *)

\* The waiters a response with id i completes.
\* Mutant: whoever waits takes it.
CompletedByAny(i) == pending
CompletedBy(i) == pending \cap {i}

\* A response completes the waiter of its id, if the map still holds one.
ReadResponse ==
    /\ pc[Reader] = "reading"
    /\ \E i \in stdout[gen[Reader]] :
          /\ stdout' = [stdout EXCEPT ![gen[Reader]] = @ \ {i}]
          /\ pending' = pending \ CompletedBy(i)
          /\ slot' = [k \in Ids |-> IF k \in CompletedBy(i) \cap Awaited THEN "answer"
                                 ELSE slot[k]]
    /\ UNCHANGED <<inner, locks, nextId, pc, job, gen, id, res, proc, hello, received,
                   answered, asked, replies>>

\* A server request is stamped with the reader's generation and handed over.
ReadServerRequest ==
    /\ pc[Reader] = "reading" /\ hello[gen[Reader]] = "initialized"
    /\ asked' = asked \cup {gen[Reader]}
    /\ UNCHANGED <<inner, locks, calls, pc, job, gen, id, res, proc, hello, received,
                   answered, stdout, replies>>

\* End of file once the process is gone, or a frame that cannot be read.
ReadEof ==
    /\ pc[Reader] = "reading"
    /\ Goto(Reader, "lose")
    /\ UNCHANGED <<inner, locks, calls, job, gen, id, res, peers>>

-----------------------------------------------------------------------------
(* The app-server                                                           *)

\* It answers a request it has read, once and in any order.
Answer(g) ==
    /\ proc[g] = "live"
    /\ \E i \in received[g] :
          /\ received' = [received EXCEPT ![g] = @ \ {i}]
          /\ answered' = answered \cup {i}
          /\ stdout' = [stdout EXCEPT ![g] = @ \cup {i}]
    /\ UNCHANGED <<inner, locks, calls, pc, job, gen, id, res, proc, hello, asked, replies>>

\* It crashes.
Crash(g) ==
    /\ proc[g] = "live"
    /\ proc' = [proc EXCEPT ![g] = "dead"]
    /\ UNCHANGED <<inner, locks, calls, pc, job, gen, id, res, hello, received, answered,
                   stdout, asked, replies>>

-----------------------------------------------------------------------------

\* What a task does next once its call has begun.
Continue(t) ==
    \/ Recheck(t) \/ CheckConnected(t) \/ CheckInitialized(t) \/ StoreInitialized(t)
    \/ SpawnLocked(t) \/ SpawnFails(t) \/ Install(t)
    \/ StartRaw(t) \/ WriteCheck(t) \/ WriteLoadGeneration(t) \/ WriteFrame(t)
    \/ WriteFails(t) \/ Abandon(t) \/ Receive(t) \/ Timeout(t)
    \/ ReplyFrame(t) \/ ReplyFails(t) \/ ReplyBlame(t)
    \/ LoseStale(t) \/ LoseConnection(t) \/ Disconnect(t) \/ FailPending(t) \/ KillChild(t)

\* A caller may begin while the ids left suffice for the calls in progress.
Busy == {t \in Callers \cup Admins : pc[t] # "idle"}
IdsLeft == nextId + 2 * Cardinality(Busy) + 1 <= MaxId

Next ==
    \/ \E t \in Callers : IdsLeft /\ BeginRequest(t)
    \/ \E t \in Admins : IdsLeft /\ (BeginConnect(t) \/ BeginReconnect(t))
    \/ \E t \in Admins : BeginClose(t)
    \/ \E t \in Repliers, g \in Gens : BeginReply(t, g)
    \/ \E t \in Tasks : Continue(t)
    \/ \E t \in Impatient : GiveUp(t)
    \/ ReadResponse \/ ReadServerRequest \/ ReadEof
    \/ \E g \in Gens : Answer(g) \/ Crash(g)

Spec == Init /\ [][Next]_vars

\* A task that is inside the client goes on: its awaits end, because writes,
\* answers and process shutdown all have a deadline, and the two mutexes are
\* first-come first-served (tokio), so that a task queued on one that is free
\* again and again gets it: strong fairness. Nothing is assumed of the
\* app-server, of the reader's input or of who calls.
Fairness == \A t \in Tasks : SF_vars(Continue(t))

FairSpec == Spec /\ Fairness

-----------------------------------------------------------------------------
(* Properties                                                               *)

\* A task waiting on a oneshot that has not fired is still in the pending map,
\* its frame is with the current child or on its way back, the reader of that
\* child has not gone, and the connection is up or its waiters are about to be
\* failed (request_raw against lose_connection, disconnect and spawn_locked):
\* no waiter is left behind with a dead generation.
WaiterIsReachable ==
    \A t \in Callers \cup Admins :
        pc[t] = "wait" /\ slot[id[t]] = "none" =>
            /\ id[t] \in pending
            /\ id[t] \in received[generation] \cup stdout[generation]
            /\ \/ connected /\ pc[Reader] \in {"reading", "lose"} /\ gen[Reader] = generation
               \/ lifecycle # NoTask /\ pc[lifecycle] = "fail"

\* When the client believes its generation shook hands, that very process has
\* read `initialize` and then `initialized` (ensure_initialized stores the
\* generation outside the lifecycle lock, racing with lose_connection).
HandshakeDone ==
    connected /\ initGen = generation => hello[generation] = "initialized"

\* A process that is alive is the latest one spawned, and the client holds its
\* handle or is about to store it: no app-server is orphaned or doubled.
NoOrphanProcess ==
    \A g \in Gens : proc[g] = "live" =>
        /\ g = generation
        /\ child = g \/ \E t \in Tasks : pc[t] = "install" /\ gen[t] = g

\* An approval reaches only the process that asked for it, although JSON-RPC
\* ids repeat across processes (respond_*_for_generation).
RepliesReachTheirProcess == \A g \in Gens : replies[g] \subseteq {g}

\* The promise to callers: RpcContract, where a call is handled once the
\* app-server has answered the id of the caller's own request.
Handled(c) == job[c] = "request" /\ id[c] \in answered
Contract == INSTANCE RpcContract WITH
    outcome <- res,
    handled <- [c \in Callers |-> Handled(c)]
ImplementsContract == Contract!Spec

\* Every request() returns: a response, a timeout or a lost connection.
RequestReturns == \A c \in Callers : res[c] = "run" ~> res[c] # "run"

\* The claim of the test connect_queued_before_close_cannot_spawn_after_close
\* and of the comment in ensure_initialized: once close() has returned, no
\* child is spawned before a reconnect().  It does not hold: closed is read
\* before the spawn is awaited.
CloseReturned == closed /\ \A a \in Admins : ~Disconnecting(a)
NoSpawnAfterClose == [][generation' # generation => ~CloseReturned]_vars
=============================================================================
