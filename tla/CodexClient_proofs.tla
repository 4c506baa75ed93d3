------------------------ MODULE CodexClient_proofs -------------------------
(***************************************************************************)
(* Proofs about CodexClient, for every set of tasks and every bound.  The  *)
(* inductive invariant IInv says what the two mutexes protect: which steps *)
(* the holder of each may be in, and what a task that is past a check may  *)
(* still rely on when it is not holding the lock the check was made under. *)
(***************************************************************************)
EXTENDS CodexClient, TLAPS

\* Tasks between ensure_initialized's acquisition of connect_lock and its drop.
Connecting(t) ==
    \/ pc[t] \in {"check", "initcheck", "spawn", "install", "storeinit"}
    \/ job[t] \in {"init", "initialized"}
    \/ pc[t] = "abandon" /\ job[t] = "ensure"

\* The two locks are held by exactly the tasks in their critical sections.
LockInv ==
    /\ \A t \in Tasks : lifecycle = t <=> pc[t] \in {"install", "fail", "kill"}
    /\ \A t \in Tasks : connectLock = t <=> Connecting(t)

\* Which job a task has where, and that only request_raw has an id.
JobInv ==
    /\ \A t \in Tasks :
          /\ pc[t] \in {"check", "initcheck", "spawn", "install", "queued"} => job[t] = "ensure"
          /\ pc[t] \in {"raw", "wait"} => job[t] \in {"init", "request"}
          /\ pc[t] \in {"wcheck", "wgen", "write"} => job[t] \in {"init", "initialized", "request"}
          /\ pc[t] = "storeinit" => job[t] = "initialized"
          /\ pc[t] \in {"rwrite", "rgen"} => job[t] = "reply"
          /\ pc[t] \in {"idle", "reading"} => job[t] = "none"
          /\ pc[t] = "disc" => job[t] \in {"close", "reconnect"}
          /\ pc[t] = "lose" => job[t] \notin {"ensure", "close", "reconnect"}
          /\ pc[t] = "abandon" => job[t] \notin {"close", "reconnect"}
          /\ pc[t] \in {"fail", "kill"} => job[t] # "ensure"
          /\ pc[t] = "reading" => t = Reader
          /\ job[t] = "reply" => t \in Repliers
          /\ job[t] \in {"close", "reconnect"} => t \in Admins
          /\ pc[t] = "raw" \/ job[t] \notin {"init", "request"} => id[t] = 0
    /\ job[Reader] = "none"
    /\ \A t \in Callers : pc[t] # "idle" <=> res[t] = "run"

\* What the connection variables say of one another.
ConnInv ==
    /\ stdin <= generation /\ child <= generation /\ initGen <= generation
    /\ connected => /\ generation \in Gens /\ stdin = generation /\ child = generation
                    /\ pc[Reader] \in {"reading", "lose"} /\ gen[Reader] = generation
    /\ \A t \in Tasks : pc[t] \in {"spawn", "install", "fail", "kill"} => ~connected
    /\ \A t \in Tasks : pc[t] = "install" =>
          gen[t] = generation /\ generation \in Gens /\ initGen # generation
    /\ \A t \in Tasks : pc[t] = "initcheck" => gen[t] = generation /\ generation \in Gens
    /\ pc[Reader] = "reading" => gen[Reader] \in Gens

\* A connecting task knows its generation is the current one and not yet done.
HandshakeInv ==
    /\ \A t \in Tasks : job[t] \in {"init", "initialized"} =>
          gen[t] = generation /\ generation \in Gens /\ initGen # generation
    /\ \A t \in Tasks : pc[t] = "storeinit" => hello[generation] = "initialized"

\* A task that waits, or is about to write, is still known to its waker.
HasWaiter(t) == pc[t] \in {"wcheck", "wgen", "write", "wait"} /\ job[t] # "initialized"
Waking == connected \/ (lifecycle # NoTask /\ pc[lifecycle] = "fail")
WaiterInv ==
    /\ \A t \in Tasks : id[t] < nextId
    /\ \A t, u \in Tasks : id[t] = id[u] /\ id[t] # 0 => t = u
    /\ \A t \in Tasks : HasWaiter(t) => id[t] \in Ids
    /\ \A t \in Tasks : HasWaiter(t) /\ slot[id[t]] = "none" => id[t] \in pending
    /\ \A t \in Tasks :
          HasWaiter(t) /\ pc[t] # "wcheck" /\ slot[id[t]] = "none" => Waking
    /\ \A t \in Tasks : pc[t] = "wait" /\ slot[id[t]] = "none" =>
          /\ generation \in Gens
          /\ id[t] \in received[generation] \cup stdout[generation]

\* Only answers that the app-server gave to ids that were handed out travel back.
AnswerInv ==
    /\ \A i \in answered : i < nextId
    /\ \A g \in Gens : \A i \in received[g] : i < nextId
    /\ \A g \in Gens : stdout[g] \subseteq answered
    /\ \A i \in Ids : slot[i] = "answer" => i \in answered

IInv ==
    /\ TypeOK /\ LockInv /\ JobInv /\ ConnInv
    /\ NoOrphanProcess /\ RepliesReachTheirProcess
    /\ HandshakeInv /\ HandshakeDone /\ WaiterInv /\ AnswerInv

\* What the assumptions on the task sets give the provers.
LEMMA TaskFacts ==
    /\ Reader \in Tasks /\ NoTask \notin Tasks
    /\ Impatient \subseteq Callers /\ Callers \subseteq Tasks /\ Repliers \subseteq Tasks /\ Admins \subseteq Tasks
    /\ Reader \notin Callers /\ Reader \notin Repliers /\ Reader \notin Admins
    /\ Callers \cap Repliers = {} /\ Callers \cap Admins = {} /\ Repliers \cap Admins = {}
  BY TasksAssumption DEF Tasks

\* A task that goes to a place is at a place.
LEMMA GotoType ==
    ASSUME TasksOK, NEW t \in Tasks, NEW p \in PCs, Goto(t, p) PROVE pc' \in [Tasks -> PCs]
  BY DEF TasksOK, Goto

\* The end of a call leaves every task well typed.
LEMMA DoneType ==
    ASSUME TasksOK, NEW t \in Tasks, NEW r \in {"ok", "error"}, Done(t, r) PROVE TasksOK'
<1>1. pc' \in [Tasks -> PCs]
  <2>1. "idle" \in PCs  BY DEF PCs
  <2> QED BY <2>1 DEF TasksOK, Done, Goto
<1>2. job' \in [Tasks -> Jobs]
  <2>1. "none" \in Jobs  BY DEF Jobs
  <2> QED BY <2>1 DEF TasksOK, Done
<1>3. gen' \in [Tasks -> 0..MaxGen] /\ id' \in [Tasks -> 0..MaxId]
  BY BoundsAssumption DEF TasksOK, Done
<1>4. res' \in [Callers -> {"none", "run", "ok", "error"}]
  BY DEF TasksOK, Done
<1> QED BY <1>1, <1>2, <1>3, <1>4 DEF TasksOK

\* So does the end of ensure_initialized.
LEMMA EnsuredType ==
    ASSUME TasksOK, NEW t \in Tasks, Ensured(t) PROVE TasksOK'
<1>1. CASE t \in Callers
  <2>1. "raw" \in PCs /\ "request" \in Jobs  BY DEF PCs, Jobs
  <2> QED BY <1>1, <2>1, BoundsAssumption DEF TasksOK, Ensured, Goto
<1>2. CASE t \notin Callers
  BY <1>2, DoneType DEF Ensured
<1> QED BY <1>1, <1>2

\* Every step keeps the variables of the client in their types.
LEMMA TypeStep == IInv /\ [Next]_vars => TypeOK'
<1> SUFFICES ASSUME IInv, [Next]_vars PROVE TypeOK'
  OBVIOUS
<1> USE TaskFacts, BoundsAssumption DEF TypeOK, Gens, Ids
<1> TypeOK  BY DEF IInv
<1>1. ASSUME NEW t \in Tasks, Recheck(t) PROVE TypeOK'
  <2>1. InnerOK'  BY <1>1 DEF InnerOK, TasksOK, inner, locks, Recheck, Done
  <2>2. CallsOK'  BY <1>1 DEF CallsOK, TasksOK, calls, Recheck, Done
  <2>3. TasksOK'
    <3>1. CASE closed  BY <1>1, <3>1, DoneType DEF Recheck
    <3>2. CASE ~closed
      <4>1. "check" \in PCs  BY DEF PCs
      <4> QED BY <1>1, <3>2, <4>1 DEF Recheck, TasksOK, Goto
    <3> QED BY <3>1, <3>2
  <2>4. PeersOK'  BY <1>1 DEF InnerOK, TasksOK, PeersOK, peers, Recheck, Done
  <2> QED BY <2>1, <2>2, <2>3, <2>4
<1>2. ASSUME NEW t \in Tasks, CheckConnected(t) PROVE TypeOK'
  <2>1. InnerOK'  BY <1>2 DEF InnerOK, TasksOK, inner, locks, CheckConnected
  <2>2. CallsOK'  BY <1>2 DEF CallsOK, TasksOK, calls, CheckConnected
  <2>3. TasksOK'
    <3>1. "initcheck" \in PCs /\ "spawn" \in PCs  BY DEF PCs
    <3> QED BY <1>2, <3>1 DEF CheckConnected, InnerOK, TasksOK, Goto
  <2>4. PeersOK'  BY <1>2 DEF InnerOK, TasksOK, PeersOK, peers, CheckConnected
  <2> QED BY <2>1, <2>2, <2>3, <2>4
<1>3. ASSUME NEW t \in Tasks, CheckInitialized(t) PROVE TypeOK'
  <2>1. InnerOK'  BY <1>3 DEF InnerOK, TasksOK, inner, locks, CheckInitialized, Ensured, Done
  <2>2. CallsOK'  BY <1>3 DEF CallsOK, TasksOK, calls, CheckInitialized, Ensured, Done
  <2>3. TasksOK'
    <3>1. CASE initGen = gen[t]  BY <1>3, <3>1, EnsuredType DEF CheckInitialized
    <3>2. CASE initGen # gen[t]
      <4>1. "raw" \in PCs /\ "init" \in Jobs  BY DEF PCs, Jobs
      <4> QED BY <1>3, <3>2, <4>1 DEF CheckInitialized, TasksOK, Goto
    <3> QED BY <3>1, <3>2
  <2>4. PeersOK'  BY <1>3 DEF InnerOK, TasksOK, PeersOK, peers, CheckInitialized, Ensured, Done
  <2> QED BY <2>1, <2>2, <2>3, <2>4
<1>4. ASSUME NEW t \in Tasks, StoreInitialized(t) PROVE TypeOK'
  <2>1. InnerOK'  BY <1>4 DEF InnerOK, TasksOK, inner, locks, StoreInitialized, Ensured, Done
  <2>2. CallsOK'  BY <1>4 DEF CallsOK, TasksOK, calls, StoreInitialized, Ensured, Done
  <2>3. TasksOK'
    BY <1>4, EnsuredType DEF StoreInitialized
  <2>4. PeersOK'  BY <1>4 DEF InnerOK, TasksOK, PeersOK, peers, StoreInitialized, Ensured, Done
  <2> QED BY <2>1, <2>2, <2>3, <2>4
<1>5. ASSUME NEW t \in Tasks, SpawnLocked(t) PROVE TypeOK'
  <2>1. InnerOK'  BY <1>5 DEF InnerOK, TasksOK, inner, locks, SpawnLocked, NextGeneration,
       Killed
  <2>2. CallsOK'  BY <1>5 DEF CallsOK, TasksOK, calls, SpawnLocked, NextGeneration, Killed
  <2>3. TasksOK'
    <3>1. "install" \in PCs /\ "idle" \in PCs  BY DEF PCs
    <3>2. pc' \in [Tasks -> PCs]  BY <1>5, <3>1 DEF SpawnLocked, TasksOK
    <3>3. generation + 1 \in 0..MaxGen
      BY <1>5 DEF SpawnLocked, InnerOK
    <3>4. gen' \in [Tasks -> 0..MaxGen]
      BY <1>5, <3>3 DEF SpawnLocked, NextGeneration, TasksOK
    <3> QED BY <1>5, <3>2, <3>4 DEF SpawnLocked, TasksOK
  <2>4. PeersOK'  BY <1>5 DEF InnerOK, TasksOK, PeersOK, peers, SpawnLocked, NextGeneration,
       Killed
  <2> QED BY <2>1, <2>2, <2>3, <2>4
<1>6. ASSUME NEW t \in Tasks, SpawnFails(t) PROVE TypeOK'
  <2>1. InnerOK'  BY <1>6 DEF InnerOK, TasksOK, inner, locks, SpawnFails, Killed
  <2>2. CallsOK'  BY <1>6 DEF CallsOK, TasksOK, calls, SpawnFails, Killed
  <2>3. TasksOK'
    <3>1. "abandon" \in PCs /\ "idle" \in PCs  BY DEF PCs
    <3> QED BY <1>6, <3>1 DEF SpawnFails, TasksOK
  <2>4. PeersOK'  BY <1>6 DEF InnerOK, TasksOK, PeersOK, peers, SpawnFails, Killed
  <2> QED BY <2>1, <2>2, <2>3, <2>4
<1>7. ASSUME NEW t \in Tasks, Install(t) PROVE TypeOK'
  <2>1. InnerOK'  BY <1>7 DEF InnerOK, TasksOK, inner, locks, Install
  <2>2. CallsOK'  BY <1>7 DEF CallsOK, TasksOK, calls, Install
  <2>3. TasksOK'  BY <1>7 DEF InnerOK, CallsOK, TasksOK, PCs, Jobs, Goto, Install
  <2>4. PeersOK'  BY <1>7 DEF InnerOK, TasksOK, PeersOK, peers, Install
  <2> QED BY <2>1, <2>2, <2>3, <2>4
<1>8. ASSUME NEW t \in Tasks, StartRaw(t) PROVE TypeOK'
  <2>1. InnerOK'  BY <1>8 DEF InnerOK, TasksOK, inner, locks, StartRaw
  <2>2. CallsOK'  BY <1>8 DEF CallsOK, TasksOK, calls, StartRaw
  <2>3. TasksOK'  BY <1>8 DEF InnerOK, CallsOK, TasksOK, PCs, Jobs, Goto, StartRaw
  <2>4. PeersOK'  BY <1>8 DEF InnerOK, TasksOK, PeersOK, peers, StartRaw
  <2> QED BY <2>1, <2>2, <2>3, <2>4
<1>9. ASSUME NEW t \in Tasks, WriteCheck(t) PROVE TypeOK'
  <2>1. InnerOK'  BY <1>9 DEF InnerOK, TasksOK, inner, locks, WriteCheck
  <2>2. CallsOK'  BY <1>9 DEF CallsOK, TasksOK, calls, WriteCheck
  <2>3. TasksOK'  BY <1>9 DEF InnerOK, CallsOK, TasksOK, PCs, Jobs, Goto, WriteCheck
  <2>4. PeersOK'  BY <1>9 DEF InnerOK, TasksOK, PeersOK, peers, WriteCheck
  <2> QED BY <2>1, <2>2, <2>3, <2>4
<1>10. ASSUME NEW t \in Tasks, WriteLoadGeneration(t) PROVE TypeOK'
  <2>1. InnerOK'  BY <1>10 DEF InnerOK, TasksOK, inner, locks, WriteLoadGeneration
  <2>2. CallsOK'  BY <1>10 DEF CallsOK, TasksOK, calls, WriteLoadGeneration
  <2>3. TasksOK'  BY <1>10 DEF InnerOK, CallsOK, TasksOK, PCs, Jobs, Goto, WriteLoadGeneration
  <2>4. PeersOK'  BY <1>10 DEF InnerOK, TasksOK, PeersOK, peers, WriteLoadGeneration
  <2> QED BY <2>1, <2>2, <2>3, <2>4
<1>11. ASSUME NEW t \in Tasks, WriteFrame(t) PROVE TypeOK'
  <2>1. InnerOK'  BY <1>11 DEF InnerOK, TasksOK, inner, locks, WriteFrame, Deliver
  <2>2. CallsOK'  BY <1>11 DEF CallsOK, TasksOK, calls, WriteFrame, Deliver
  <2>3. TasksOK'  BY <1>11 DEF InnerOK, CallsOK, TasksOK, PCs, Jobs, Goto, WriteFrame, Deliver
  <2>4. PeersOK'
    <3>1. HasWaiter(t) \/ job[t] = "initialized"  BY <1>11 DEF HasWaiter, WriteFrame
    <3>2. job[t] # "initialized" => id[t] \in Ids  BY <3>1 DEF IInv, WaiterInv
    <3>3. stdin \in Gens  BY <1>11 DEF WriteFrame, InnerOK
    <3>4. hello' \in [Gens -> {"none", "initialize", "initialized"}]
      BY <1>11, <3>3 DEF WriteFrame, Deliver, PeersOK
    <3>5. received' \in [Gens -> SUBSET Ids]
      BY <1>11, <3>2, <3>3 DEF WriteFrame, Deliver, PeersOK
    <3> QED BY <1>11, <3>4, <3>5 DEF WriteFrame, PeersOK
  <2> QED BY <2>1, <2>2, <2>3, <2>4
<1>12. ASSUME NEW t \in Tasks, WriteFails(t) PROVE TypeOK'
  <2>1. InnerOK'  BY <1>12 DEF InnerOK, TasksOK, inner, locks, WriteFails, Deliver
  <2>2. CallsOK'  BY <1>12 DEF CallsOK, TasksOK, calls, WriteFails, Deliver
  <2>3. TasksOK'  BY <1>12 DEF InnerOK, CallsOK, TasksOK, PCs, Jobs, Goto, WriteFails, Deliver
  <2>4. PeersOK'
    <3>1. HasWaiter(t) \/ job[t] = "initialized"  BY <1>12 DEF HasWaiter, WriteFails
    <3>2. job[t] # "initialized" => id[t] \in Ids  BY <3>1 DEF IInv, WaiterInv
    <3>3. CASE UNCHANGED <<hello, received>>
      BY <1>12, <3>3 DEF WriteFails, PeersOK
    <3>4. CASE stdin # 0 /\ Deliver(t, stdin)
      <4>1. stdin \in Gens  BY <3>4 DEF InnerOK
      <4>2. hello' \in [Gens -> {"none", "initialize", "initialized"}]
        BY <3>4, <4>1 DEF Deliver, PeersOK
      <4>3. received' \in [Gens -> SUBSET Ids]
        BY <3>2, <3>4, <4>1 DEF Deliver, PeersOK
      <4> QED BY <1>12, <4>2, <4>3 DEF WriteFails, PeersOK
    <3> QED BY <1>12, <3>3, <3>4 DEF WriteFails
  <2> QED BY <2>1, <2>2, <2>3, <2>4
<1>13. ASSUME NEW t \in Tasks, Abandon(t) PROVE TypeOK'
  <2>1. InnerOK'  BY <1>13 DEF InnerOK, TasksOK, inner, locks, Abandon, Forget,
       DropConnectLock, Done
  <2>2. CallsOK'  BY <1>13 DEF CallsOK, TasksOK, calls, Abandon, Forget, DropConnectLock, Done
  <2>3. TasksOK'  BY <1>13 DEF InnerOK, CallsOK, TasksOK, PCs, Jobs, Goto, Abandon, Forget,
       DropConnectLock, Done
  <2>4. PeersOK'  BY <1>13 DEF InnerOK, TasksOK, PeersOK, peers, Abandon, Forget,
       DropConnectLock, Done
  <2> QED BY <2>1, <2>2, <2>3, <2>4
<1>14. ASSUME NEW t \in Tasks, Receive(t) PROVE TypeOK'
  <2>1. InnerOK'  BY <1>14 DEF InnerOK, TasksOK, inner, locks, Receive, AfterInitialize,
       DropConnectLock, Done
  <2>2. CallsOK'  BY <1>14 DEF CallsOK, TasksOK, calls, Receive, AfterInitialize,
       DropConnectLock, Done
  <2>3. TasksOK'
    <3>1. CASE Done(t, "ok") \/ Done(t, "error")  BY <3>1, DoneType
    <3>2. CASE ~(Done(t, "ok") \/ Done(t, "error"))
      <4>1. "wcheck" \in PCs /\ "initialized" \in Jobs  BY DEF PCs, Jobs
      <4> QED BY <1>14, <3>2, <4>1 DEF Receive, AfterInitialize, TasksOK, Goto
    <3> QED BY <3>1, <3>2
  <2>4. PeersOK'  BY <1>14 DEF InnerOK, TasksOK, PeersOK, peers, Receive, AfterInitialize,
       DropConnectLock, Done
  <2> QED BY <2>1, <2>2, <2>3, <2>4
<1>15. ASSUME NEW t \in Tasks, Timeout(t) PROVE TypeOK'
  <2>1. InnerOK'  BY <1>15 DEF InnerOK, TasksOK, inner, locks, Timeout, Elapses, Forget,
       DropConnectLock, Done
  <2>2. CallsOK'  BY <1>15 DEF CallsOK, TasksOK, calls, Timeout, Elapses, Forget,
       DropConnectLock, Done
  <2>3. TasksOK'  BY <1>15 DEF InnerOK, CallsOK, TasksOK, PCs, Jobs, Goto, Timeout, Elapses,
       Forget, DropConnectLock, Done
  <2>4. PeersOK'  BY <1>15 DEF InnerOK, TasksOK, PeersOK, peers, Timeout, Elapses, Forget,
       DropConnectLock, Done
  <2> QED BY <2>1, <2>2, <2>3, <2>4
<1>16. ASSUME NEW t \in Tasks, ReplyFrame(t) PROVE TypeOK'
  <2>1. InnerOK'  BY <1>16 DEF InnerOK, TasksOK, inner, locks, ReplyFrame, ReplyAllowed, Done
  <2>2. CallsOK'  BY <1>16 DEF CallsOK, TasksOK, calls, ReplyFrame, ReplyAllowed, Done
  <2>3. TasksOK'  BY <1>16 DEF InnerOK, CallsOK, TasksOK, PCs, Jobs, Goto, ReplyFrame,
       ReplyAllowed, Done
  <2>4. PeersOK'
    <3>1. gen[t] \in Gens /\ stdin \in Gens
      BY <1>16 DEF ReplyFrame, ReplyAllowed, IInv, ConnInv
    <3> QED BY <1>16, <3>1 DEF ReplyFrame, PeersOK
  <2> QED BY <2>1, <2>2, <2>3, <2>4
<1>17. ASSUME NEW t \in Tasks, ReplyFails(t) PROVE TypeOK'
  <2>1. InnerOK'  BY <1>17 DEF InnerOK, TasksOK, inner, locks, ReplyFails, ReplyAllowed
  <2>2. CallsOK'  BY <1>17 DEF CallsOK, TasksOK, calls, ReplyFails, ReplyAllowed
  <2>3. TasksOK'  BY <1>17 DEF InnerOK, CallsOK, TasksOK, PCs, Jobs, Goto, ReplyFails,
       ReplyAllowed
  <2>4. PeersOK'  BY <1>17 DEF InnerOK, TasksOK, PeersOK, peers, ReplyFails, ReplyAllowed
  <2> QED BY <2>1, <2>2, <2>3, <2>4
<1>18. ASSUME NEW t \in Tasks, ReplyBlame(t) PROVE TypeOK'
  <2>1. InnerOK'  BY <1>18 DEF InnerOK, TasksOK, inner, locks, ReplyBlame
  <2>2. CallsOK'  BY <1>18 DEF CallsOK, TasksOK, calls, ReplyBlame
  <2>3. TasksOK'  BY <1>18 DEF InnerOK, CallsOK, TasksOK, PCs, Jobs, Goto, ReplyBlame
  <2>4. PeersOK'  BY <1>18 DEF InnerOK, TasksOK, PeersOK, peers, ReplyBlame
  <2> QED BY <2>1, <2>2, <2>3, <2>4
<1>19. ASSUME NEW t \in Tasks, LoseStale(t) PROVE TypeOK'
  <2>1. InnerOK'  BY <1>19 DEF InnerOK, TasksOK, inner, locks, LoseStale
  <2>2. CallsOK'  BY <1>19 DEF CallsOK, TasksOK, calls, LoseStale
  <2>3. TasksOK'  BY <1>19 DEF InnerOK, CallsOK, TasksOK, PCs, Jobs, Goto, LoseStale
  <2>4. PeersOK'  BY <1>19 DEF InnerOK, TasksOK, PeersOK, peers, LoseStale
  <2> QED BY <2>1, <2>2, <2>3, <2>4
<1>20. ASSUME NEW t \in Tasks, LoseConnection(t) PROVE TypeOK'
  <2>1. InnerOK'
    <3>1. connected' = FALSE /\ initGen' = 0 /\ lifecycle' = t
      BY <1>20 DEF LoseConnection
    <3>2. /\ closed' = closed /\ generation' = generation /\ stdin' = stdin
          /\ child' = child /\ connectLock' = connectLock
      BY <1>20 DEF LoseConnection
    <3>3. connected' \in BOOLEAN /\ closed' \in BOOLEAN  BY <3>1, <3>2, Zenon DEF InnerOK
    <3>4. generation' \in 0..MaxGen /\ stdin' \in 0..MaxGen /\ child' \in 0..MaxGen  BY <3>2 DEF InnerOK
    <3>5. initGen' \in 0..MaxGen  BY <3>1
    <3>6. connectLock' \in Tasks \cup {NoTask} /\ lifecycle' \in Tasks \cup {NoTask}  BY <3>1,
         <3>2 DEF InnerOK
    <3> QED BY <3>3, <3>4, <3>5, <3>6 DEF InnerOK
  <2>2. CallsOK'  BY <1>20 DEF CallsOK, TasksOK, calls, LoseConnection
  <2>3. TasksOK'  BY <1>20 DEF InnerOK, CallsOK, TasksOK, PCs, Jobs, Goto, LoseConnection
  <2>4. PeersOK'  BY <1>20 DEF InnerOK, TasksOK, PeersOK, peers, LoseConnection
  <2> QED BY <2>1, <2>2, <2>3, <2>4
<1>21. ASSUME NEW t \in Tasks, Disconnect(t) PROVE TypeOK'
  <2>1. InnerOK'
    <3>1. connected' = FALSE /\ initGen' = 0 /\ lifecycle' = t
      BY <1>21 DEF Disconnect
    <3>2. /\ closed' = closed /\ generation' = generation /\ stdin' = stdin
          /\ child' = child /\ connectLock' = connectLock
      BY <1>21 DEF Disconnect
    <3>3. connected' \in BOOLEAN /\ closed' \in BOOLEAN  BY <3>1, <3>2, Zenon DEF InnerOK
    <3>4. generation' \in 0..MaxGen /\ stdin' \in 0..MaxGen /\ child' \in 0..MaxGen  BY <3>2 DEF InnerOK
    <3>5. initGen' \in 0..MaxGen  BY <3>1
    <3>6. connectLock' \in Tasks \cup {NoTask} /\ lifecycle' \in Tasks \cup {NoTask}  BY <3>1,
         <3>2 DEF InnerOK
    <3> QED BY <3>3, <3>4, <3>5, <3>6 DEF InnerOK
  <2>2. CallsOK'  BY <1>21 DEF CallsOK, TasksOK, calls, Disconnect
  <2>3. TasksOK'  BY <1>21 DEF InnerOK, CallsOK, TasksOK, PCs, Jobs, Goto, Disconnect
  <2>4. PeersOK'  BY <1>21 DEF InnerOK, TasksOK, PeersOK, peers, Disconnect
  <2> QED BY <2>1, <2>2, <2>3, <2>4
<1>22. ASSUME NEW t \in Tasks, FailPending(t) PROVE TypeOK'
  <2>1. InnerOK'  BY <1>22 DEF InnerOK, TasksOK, inner, locks, FailPending, FailedSlots, Awaited
  <2>2. CallsOK'  BY <1>22 DEF CallsOK, TasksOK, calls, FailPending, FailedSlots, Awaited
  <2>3. TasksOK'  BY <1>22 DEF InnerOK, CallsOK, TasksOK, PCs, Jobs, Goto, FailPending,
       FailedSlots, Awaited
  <2>4. PeersOK'  BY <1>22 DEF InnerOK, TasksOK, PeersOK, peers, FailPending, FailedSlots,
       Awaited
  <2> QED BY <2>1, <2>2, <2>3, <2>4
<1>23. ASSUME NEW t \in Tasks, KillChild(t) PROVE TypeOK'
  <2>1. InnerOK'  BY <1>23 DEF InnerOK, TasksOK, inner, locks, KillChild, Killed, Disconnecting
  <2>2. CallsOK'  BY <1>23 DEF CallsOK, TasksOK, calls, KillChild, Killed, Disconnecting
  <2>3. TasksOK'  BY <1>23 DEF InnerOK, CallsOK, TasksOK, PCs, Jobs, Goto, KillChild, Killed,
       Disconnecting
  <2>4. PeersOK'  BY <1>23 DEF InnerOK, TasksOK, PeersOK, peers, KillChild, Killed,
       Disconnecting
  <2> QED BY <2>1, <2>2, <2>3, <2>4
<1>24. ASSUME NEW t \in Callers, BeginRequest(t) PROVE TypeOK'
  <2>1. InnerOK'  BY <1>24 DEF InnerOK, TasksOK, inner, locks, BeginRequest
  <2>2. CallsOK'  BY <1>24 DEF CallsOK, TasksOK, calls, BeginRequest
  <2>3. TasksOK'
    <3>1. "queued" \in PCs /\ "ensure" \in Jobs  BY DEF PCs, Jobs
    <3> QED BY <1>24, <3>1 DEF BeginRequest, TasksOK, Goto
  <2>4. PeersOK'  BY <1>24 DEF InnerOK, TasksOK, PeersOK, peers, BeginRequest
  <2> QED BY <2>1, <2>2, <2>3, <2>4
<1>25. ASSUME NEW t \in Admins, BeginConnect(t) PROVE TypeOK'
  <2>1. InnerOK'  BY <1>25 DEF InnerOK, TasksOK, inner, locks, BeginConnect
  <2>2. CallsOK'  BY <1>25 DEF CallsOK, TasksOK, calls, BeginConnect
  <2>3. TasksOK'
    <3>1. "queued" \in PCs /\ "ensure" \in Jobs  BY DEF PCs, Jobs
    <3> QED BY <1>25, <3>1 DEF BeginConnect, TasksOK, Goto
  <2>4. PeersOK'  BY <1>25 DEF InnerOK, TasksOK, PeersOK, peers, BeginConnect
  <2> QED BY <2>1, <2>2, <2>3, <2>4
<1>26. ASSUME NEW t \in Admins, BeginReconnect(t) PROVE TypeOK'
  <2>1. InnerOK'  BY <1>26 DEF InnerOK, TasksOK, inner, locks, BeginReconnect
  <2>2. CallsOK'  BY <1>26 DEF CallsOK, TasksOK, calls, BeginReconnect
  <2>3. TasksOK'
    <3>1. "disc" \in PCs /\ "reconnect" \in Jobs  BY DEF PCs, Jobs
    <3> QED BY <1>26, <3>1 DEF BeginReconnect, TasksOK, Goto
  <2>4. PeersOK'  BY <1>26 DEF InnerOK, TasksOK, PeersOK, peers, BeginReconnect
  <2> QED BY <2>1, <2>2, <2>3, <2>4
<1>27. ASSUME NEW t \in Admins, BeginClose(t) PROVE TypeOK'
  <2>1. InnerOK'  BY <1>27 DEF InnerOK, TasksOK, inner, locks, BeginClose
  <2>2. CallsOK'  BY <1>27 DEF CallsOK, TasksOK, calls, BeginClose
  <2>3. TasksOK'
    <3>1. "disc" \in PCs /\ "close" \in Jobs  BY DEF PCs, Jobs
    <3> QED BY <1>27, <3>1 DEF BeginClose, TasksOK, Goto
  <2>4. PeersOK'  BY <1>27 DEF InnerOK, TasksOK, PeersOK, peers, BeginClose
  <2> QED BY <2>1, <2>2, <2>3, <2>4
<1>28. ASSUME NEW t \in Repliers, NEW g \in Gens, BeginReply(t, g) PROVE TypeOK'
  <2>1. InnerOK'  BY <1>28 DEF InnerOK, TasksOK, inner, locks, BeginReply
  <2>2. CallsOK'  BY <1>28 DEF CallsOK, TasksOK, calls, BeginReply
  <2>3. TasksOK'
    <3>1. "rwrite" \in PCs /\ "reply" \in Jobs  BY DEF PCs, Jobs
    <3> QED BY <1>28, <3>1 DEF BeginReply, TasksOK, Goto
  <2>4. PeersOK'  BY <1>28 DEF InnerOK, TasksOK, PeersOK, peers, IInv, ConnInv, BeginReply
  <2> QED BY <2>1, <2>2, <2>3, <2>4
<1>29. ASSUME NEW t \in Impatient, GiveUp(t) PROVE TypeOK'
  <2>1. InnerOK'  BY <1>29 DEF InnerOK, TasksOK, inner, locks, GiveUp, Killed, DropConnectLock,
       Done
  <2>2. CallsOK'  BY <1>29 DEF CallsOK, TasksOK, calls, GiveUp, Killed, DropConnectLock, Done
  <2>3. TasksOK'
    BY <1>29, DoneType DEF GiveUp
  <2>4. PeersOK'  BY <1>29 DEF InnerOK, TasksOK, PeersOK, peers, GiveUp, Killed,
       DropConnectLock, Done
  <2> QED BY <2>1, <2>2, <2>3, <2>4
<1>30. ASSUME ReadResponse PROVE TypeOK'
  <2>1. InnerOK'  BY <1>30 DEF InnerOK, TasksOK, inner, locks, ReadResponse, CompletedBy,
       Awaited
  <2>2. CallsOK'  BY <1>30 DEF CallsOK, TasksOK, calls, ReadResponse, CompletedBy, Awaited
  <2>3. TasksOK'  BY <1>30 DEF InnerOK, CallsOK, TasksOK, PCs, Jobs, Goto, ReadResponse,
       CompletedBy, Awaited
  <2>4. PeersOK'  BY <1>30 DEF InnerOK, TasksOK, PeersOK, peers, IInv, ConnInv, ReadResponse,
       CompletedBy, Awaited
  <2> QED BY <2>1, <2>2, <2>3, <2>4
<1>31. ASSUME ReadServerRequest PROVE TypeOK'
  <2>1. InnerOK'  BY <1>31 DEF InnerOK, TasksOK, inner, locks, ReadServerRequest
  <2>2. CallsOK'  BY <1>31 DEF CallsOK, TasksOK, calls, ReadServerRequest
  <2>3. TasksOK'  BY <1>31 DEF InnerOK, CallsOK, TasksOK, PCs, Jobs, Goto, ReadServerRequest
  <2>4. PeersOK'  BY <1>31 DEF InnerOK, TasksOK, PeersOK, peers, IInv, ConnInv,
       ReadServerRequest
  <2> QED BY <2>1, <2>2, <2>3, <2>4
<1>32. ASSUME ReadEof PROVE TypeOK'
  <2>1. InnerOK'  BY <1>32 DEF InnerOK, TasksOK, inner, locks, ReadEof
  <2>2. CallsOK'  BY <1>32 DEF CallsOK, TasksOK, calls, ReadEof
  <2>3. TasksOK'  BY <1>32 DEF InnerOK, CallsOK, TasksOK, PCs, Jobs, Goto, ReadEof
  <2>4. PeersOK'  BY <1>32 DEF InnerOK, TasksOK, PeersOK, peers, IInv, ConnInv, ReadEof
  <2> QED BY <2>1, <2>2, <2>3, <2>4
<1>33. ASSUME NEW g \in Gens, Answer(g) PROVE TypeOK'
  <2>1. InnerOK'  BY <1>33 DEF InnerOK, TasksOK, inner, locks, Answer
  <2>2. CallsOK'  BY <1>33 DEF CallsOK, TasksOK, calls, Answer
  <2>3. TasksOK'  BY <1>33 DEF InnerOK, CallsOK, TasksOK, PCs, Jobs, Goto, Answer
  <2>4. PeersOK'  BY <1>33 DEF InnerOK, TasksOK, PeersOK, peers, Answer
  <2> QED BY <2>1, <2>2, <2>3, <2>4
<1>34. ASSUME NEW g \in Gens, Crash(g) PROVE TypeOK'
  <2>1. InnerOK'  BY <1>34 DEF InnerOK, TasksOK, inner, locks, Crash
  <2>2. CallsOK'  BY <1>34 DEF CallsOK, TasksOK, calls, Crash
  <2>3. TasksOK'  BY <1>34 DEF InnerOK, CallsOK, TasksOK, PCs, Jobs, Goto, Crash
  <2>4. PeersOK'  BY <1>34 DEF InnerOK, TasksOK, PeersOK, peers, Crash
  <2> QED BY <2>1, <2>2, <2>3, <2>4
<1>35. ASSUME UNCHANGED vars PROVE TypeOK'
  BY <1>35 DEF vars, inner, locks, calls, peers, InnerOK, CallsOK, TasksOK, PeersOK
<1> QED
  BY <1>1, <1>2, <1>3, <1>4, <1>5, <1>6, <1>7, <1>8, <1>9, <1>10, <1>11, <1>12, <1>13, <1>14,
       <1>15, <1>16, <1>17, <1>18, <1>19, <1>20, <1>21, <1>22, <1>23, <1>24, <1>25, <1>26,
       <1>27, <1>28, <1>29, <1>30, <1>31, <1>32, <1>33, <1>34, <1>35 DEF Next, Continue

\* The two locks stay with the tasks in their critical sections.
LEMMA LockStep == IInv /\ [Next]_vars => LockInv'
<1> SUFFICES ASSUME IInv, [Next]_vars PROVE LockInv'
  OBVIOUS
<1> USE TaskFacts, BoundsAssumption
<1>1. ASSUME NEW t \in Tasks, Recheck(t) PROVE LockInv'
  BY <1>1 DEF IInv, LockInv, Connecting, JobInv, TypeOK, InnerOK, TasksOK, Goto, inner, locks,
       Recheck, Done
<1>2. ASSUME NEW t \in Tasks, CheckConnected(t) PROVE LockInv'
  BY <1>2 DEF IInv, LockInv, Connecting, JobInv, TypeOK, InnerOK, TasksOK, Goto, inner, locks,
       CheckConnected
<1>3. ASSUME NEW t \in Tasks, CheckInitialized(t) PROVE LockInv'
  BY <1>3 DEF IInv, LockInv, Connecting, JobInv, TypeOK, InnerOK, TasksOK, Goto, inner, locks,
       CheckInitialized, Ensured, Done
<1>4. ASSUME NEW t \in Tasks, StoreInitialized(t) PROVE LockInv'
  BY <1>4 DEF IInv, LockInv, Connecting, JobInv, TypeOK, InnerOK, TasksOK, Goto, inner, locks,
       StoreInitialized, Ensured, Done
<1>5. ASSUME NEW t \in Tasks, SpawnLocked(t) PROVE LockInv'
  BY <1>5 DEF IInv, LockInv, Connecting, JobInv, TypeOK, InnerOK, TasksOK, Goto, inner, locks,
       SpawnLocked, NextGeneration, Killed
<1>6. ASSUME NEW t \in Tasks, SpawnFails(t) PROVE LockInv'
  BY <1>6 DEF IInv, LockInv, Connecting, JobInv, TypeOK, InnerOK, TasksOK, Goto, inner, locks,
       SpawnFails, Killed
<1>7. ASSUME NEW t \in Tasks, Install(t) PROVE LockInv'
  BY <1>7 DEF IInv, LockInv, Connecting, JobInv, TypeOK, InnerOK, TasksOK, Goto, inner, locks,
       Install
<1>8. ASSUME NEW t \in Tasks, StartRaw(t) PROVE LockInv'
  BY <1>8 DEF IInv, LockInv, Connecting, JobInv, TypeOK, InnerOK, TasksOK, Goto, inner, locks,
       StartRaw
<1>9. ASSUME NEW t \in Tasks, WriteCheck(t) PROVE LockInv'
  BY <1>9 DEF IInv, LockInv, Connecting, JobInv, TypeOK, InnerOK, TasksOK, Goto, inner, locks,
       WriteCheck
<1>10. ASSUME NEW t \in Tasks, WriteLoadGeneration(t) PROVE LockInv'
  BY <1>10 DEF IInv, LockInv, Connecting, JobInv, TypeOK, InnerOK, TasksOK, Goto, inner, locks,
       WriteLoadGeneration
<1>11. ASSUME NEW t \in Tasks, WriteFrame(t) PROVE LockInv'
  BY <1>11 DEF IInv, LockInv, Connecting, JobInv, TypeOK, InnerOK, TasksOK, Goto, inner, locks,
       WriteFrame, Deliver
<1>12. ASSUME NEW t \in Tasks, WriteFails(t) PROVE LockInv'
  BY <1>12 DEF IInv, LockInv, Connecting, JobInv, TypeOK, InnerOK, TasksOK, Goto, inner, locks,
       WriteFails, Deliver
<1>13. ASSUME NEW t \in Tasks, Abandon(t) PROVE LockInv'
  BY <1>13 DEF IInv, LockInv, Connecting, JobInv, TypeOK, InnerOK, TasksOK, Goto, inner, locks,
       Abandon, Forget, DropConnectLock, Done
<1>14. ASSUME NEW t \in Tasks, Receive(t) PROVE LockInv'
  BY <1>14 DEF IInv, LockInv, Connecting, JobInv, TypeOK, InnerOK, TasksOK, Goto, inner, locks,
       Receive, AfterInitialize, DropConnectLock, Done
<1>15. ASSUME NEW t \in Tasks, Timeout(t) PROVE LockInv'
  BY <1>15 DEF IInv, LockInv, Connecting, JobInv, TypeOK, InnerOK, TasksOK, Goto, inner, locks,
       Timeout, Elapses, Forget, DropConnectLock, Done
<1>16. ASSUME NEW t \in Tasks, ReplyFrame(t) PROVE LockInv'
  BY <1>16 DEF IInv, LockInv, Connecting, JobInv, TypeOK, InnerOK, TasksOK, Goto, inner, locks,
       ReplyFrame, ReplyAllowed, Done
<1>17. ASSUME NEW t \in Tasks, ReplyFails(t) PROVE LockInv'
  BY <1>17 DEF IInv, LockInv, Connecting, JobInv, TypeOK, InnerOK, TasksOK, Goto, inner, locks,
       ReplyFails, ReplyAllowed
<1>18. ASSUME NEW t \in Tasks, ReplyBlame(t) PROVE LockInv'
  BY <1>18 DEF IInv, LockInv, Connecting, JobInv, TypeOK, InnerOK, TasksOK, Goto, inner, locks,
       ReplyBlame
<1>19. ASSUME NEW t \in Tasks, LoseStale(t) PROVE LockInv'
  BY <1>19 DEF IInv, LockInv, Connecting, JobInv, TypeOK, InnerOK, TasksOK, Goto, inner, locks,
       LoseStale
<1>20. ASSUME NEW t \in Tasks, LoseConnection(t) PROVE LockInv'
  BY <1>20 DEF IInv, LockInv, Connecting, JobInv, TypeOK, InnerOK, TasksOK, Goto, inner, locks,
       LoseConnection
<1>21. ASSUME NEW t \in Tasks, Disconnect(t) PROVE LockInv'
  BY <1>21 DEF IInv, LockInv, Connecting, JobInv, TypeOK, InnerOK, TasksOK, Goto, inner, locks,
       Disconnect
<1>22. ASSUME NEW t \in Tasks, FailPending(t) PROVE LockInv'
  BY <1>22 DEF IInv, LockInv, Connecting, JobInv, TypeOK, InnerOK, TasksOK, Goto, inner, locks,
       FailPending, FailedSlots, Awaited
<1>23. ASSUME NEW t \in Tasks, KillChild(t) PROVE LockInv'
  BY <1>23 DEF IInv, LockInv, Connecting, JobInv, TypeOK, InnerOK, TasksOK, Goto, inner, locks,
       KillChild, Killed, Disconnecting
<1>24. ASSUME NEW t \in Callers, BeginRequest(t) PROVE LockInv'
  BY <1>24 DEF IInv, LockInv, Connecting, JobInv, TypeOK, InnerOK, TasksOK, Goto, inner, locks,
       BeginRequest
<1>25. ASSUME NEW t \in Admins, BeginConnect(t) PROVE LockInv'
  BY <1>25 DEF IInv, LockInv, Connecting, JobInv, TypeOK, InnerOK, TasksOK, Goto, inner, locks,
       BeginConnect
<1>26. ASSUME NEW t \in Admins, BeginReconnect(t) PROVE LockInv'
  BY <1>26 DEF IInv, LockInv, Connecting, JobInv, TypeOK, InnerOK, TasksOK, Goto, inner, locks,
       BeginReconnect
<1>27. ASSUME NEW t \in Admins, BeginClose(t) PROVE LockInv'
  BY <1>27 DEF IInv, LockInv, Connecting, JobInv, TypeOK, InnerOK, TasksOK, Goto, inner, locks,
       BeginClose
<1>28. ASSUME NEW t \in Repliers, NEW g \in Gens, BeginReply(t, g) PROVE LockInv'
  BY <1>28 DEF IInv, LockInv, Connecting, JobInv, TypeOK, InnerOK, TasksOK, Goto, inner, locks,
       BeginReply
<1>29. ASSUME NEW t \in Impatient, GiveUp(t) PROVE LockInv'
  BY <1>29 DEF IInv, LockInv, Connecting, JobInv, TypeOK, InnerOK, TasksOK, Goto, inner, locks,
       GiveUp, Killed, DropConnectLock, Done
<1>30. ASSUME ReadResponse PROVE LockInv'
  BY <1>30 DEF IInv, LockInv, Connecting, JobInv, TypeOK, InnerOK, TasksOK, Goto, inner, locks,
       ReadResponse, CompletedBy, Awaited
<1>31. ASSUME ReadServerRequest PROVE LockInv'
  BY <1>31 DEF IInv, LockInv, Connecting, JobInv, TypeOK, InnerOK, TasksOK, Goto, inner, locks,
       ReadServerRequest
<1>32. ASSUME ReadEof PROVE LockInv'
  BY <1>32 DEF IInv, LockInv, Connecting, JobInv, TypeOK, InnerOK, TasksOK, Goto, inner, locks,
       ReadEof
<1>33. ASSUME NEW g \in Gens, Answer(g) PROVE LockInv'
  BY <1>33 DEF IInv, LockInv, Connecting, JobInv, TypeOK, InnerOK, TasksOK, Goto, inner, locks,
       Answer
<1>34. ASSUME NEW g \in Gens, Crash(g) PROVE LockInv'
  BY <1>34 DEF IInv, LockInv, Connecting, JobInv, TypeOK, InnerOK, TasksOK, Goto, inner, locks,
       Crash
<1>35. ASSUME UNCHANGED vars PROVE LockInv'
  BY <1>35 DEF IInv, LockInv, Connecting, JobInv, TypeOK, InnerOK, TasksOK, Goto, inner, locks,
       vars, inner, locks, calls, peers
<1> QED
  BY <1>1, <1>2, <1>3, <1>4, <1>5, <1>6, <1>7, <1>8, <1>9, <1>10, <1>11, <1>12, <1>13, <1>14,
       <1>15, <1>16, <1>17, <1>18, <1>19, <1>20, <1>21, <1>22, <1>23, <1>24, <1>25, <1>26,
       <1>27, <1>28, <1>29, <1>30, <1>31, <1>32, <1>33, <1>34, <1>35 DEF Next, Continue

\* Every task keeps to the jobs of the place it is at.
LEMMA JobStep == IInv /\ [Next]_vars => JobInv'
<1> SUFFICES ASSUME IInv, [Next]_vars PROVE JobInv'
  OBVIOUS
<1> USE TaskFacts, BoundsAssumption
<1>1. ASSUME NEW t \in Tasks, Recheck(t) PROVE JobInv'
  BY <1>1 DEF JobInv, IInv, TypeOK, InnerOK, TasksOK, Goto, inner, locks, calls, peers,
       Recheck, Done
<1>2. ASSUME NEW t \in Tasks, CheckConnected(t) PROVE JobInv'
  BY <1>2 DEF JobInv, IInv, TypeOK, InnerOK, TasksOK, Goto, inner, locks, calls, peers,
       CheckConnected
<1>3. ASSUME NEW t \in Tasks, CheckInitialized(t) PROVE JobInv'
  <2>1. CASE initGen # gen[t]
    BY <1>3, <2>1 DEF IInv, JobInv, TypeOK, TasksOK, Goto, CheckInitialized
  <2>2. CASE initGen = gen[t] /\ t \in Callers
    BY <1>3, <2>2 DEF IInv, JobInv, TypeOK, TasksOK, Goto, CheckInitialized, Ensured
  <2>3. CASE initGen = gen[t] /\ t \notin Callers
    BY <1>3, <2>3 DEF IInv, JobInv, TypeOK, TasksOK, Goto, CheckInitialized, Ensured, Done
  <2> QED BY <2>1, <2>2, <2>3
<1>4. ASSUME NEW t \in Tasks, StoreInitialized(t) PROVE JobInv'
  <2>1. CASE t \in Callers
    BY <1>4, <2>1 DEF IInv, JobInv, TypeOK, TasksOK, Goto, StoreInitialized, Ensured
  <2>2. CASE t \notin Callers
    BY <1>4, <2>2 DEF IInv, JobInv, TypeOK, TasksOK, Goto, StoreInitialized, Ensured, Done
  <2> QED BY <2>1, <2>2
<1>5. ASSUME NEW t \in Tasks, SpawnLocked(t) PROVE JobInv'
  BY <1>5 DEF JobInv, IInv, TypeOK, InnerOK, TasksOK, Goto, inner, locks, calls, peers,
       SpawnLocked, NextGeneration, Killed
<1>6. ASSUME NEW t \in Tasks, SpawnFails(t) PROVE JobInv'
  BY <1>6 DEF JobInv, IInv, TypeOK, InnerOK, TasksOK, Goto, inner, locks, calls, peers,
       SpawnFails, Killed
<1>7. ASSUME NEW t \in Tasks, Install(t) PROVE JobInv'
  BY <1>7 DEF JobInv, IInv, TypeOK, InnerOK, TasksOK, Goto, inner, locks, calls, peers, Install
<1>8. ASSUME NEW t \in Tasks, StartRaw(t) PROVE JobInv'
  BY <1>8 DEF JobInv, IInv, TypeOK, InnerOK, TasksOK, Goto, inner, locks, calls, peers, StartRaw
<1>9. ASSUME NEW t \in Tasks, WriteCheck(t) PROVE JobInv'
  BY <1>9 DEF JobInv, IInv, TypeOK, InnerOK, TasksOK, Goto, inner, locks, calls, peers,
       WriteCheck
<1>10. ASSUME NEW t \in Tasks, WriteLoadGeneration(t) PROVE JobInv'
  BY <1>10 DEF JobInv, IInv, TypeOK, InnerOK, TasksOK, Goto, inner, locks, calls, peers,
       WriteLoadGeneration
<1>11. ASSUME NEW t \in Tasks, WriteFrame(t) PROVE JobInv'
  BY <1>11 DEF JobInv, IInv, TypeOK, InnerOK, TasksOK, Goto, inner, locks, calls, peers,
       WriteFrame, Deliver
<1>12. ASSUME NEW t \in Tasks, WriteFails(t) PROVE JobInv'
  BY <1>12 DEF JobInv, IInv, TypeOK, InnerOK, TasksOK, Goto, inner, locks, calls, peers,
       WriteFails, Deliver
<1>13. ASSUME NEW t \in Tasks, Abandon(t) PROVE JobInv'
  BY <1>13 DEF JobInv, IInv, TypeOK, InnerOK, TasksOK, Goto, inner, locks, calls, peers,
       Abandon, Forget, DropConnectLock, Done
<1>14. ASSUME NEW t \in Tasks, Receive(t) PROVE JobInv'
  BY <1>14 DEF JobInv, IInv, TypeOK, InnerOK, TasksOK, Goto, inner, locks, calls, peers,
       Receive, AfterInitialize, DropConnectLock, Done
<1>15. ASSUME NEW t \in Tasks, Timeout(t) PROVE JobInv'
  BY <1>15 DEF JobInv, IInv, TypeOK, InnerOK, TasksOK, Goto, inner, locks, calls, peers,
       Timeout, Elapses, Forget, DropConnectLock, Done
<1>16. ASSUME NEW t \in Tasks, ReplyFrame(t) PROVE JobInv'
  BY <1>16 DEF JobInv, IInv, TypeOK, InnerOK, TasksOK, Goto, inner, locks, calls, peers,
       ReplyFrame, ReplyAllowed, Done
<1>17. ASSUME NEW t \in Tasks, ReplyFails(t) PROVE JobInv'
  BY <1>17 DEF JobInv, IInv, TypeOK, InnerOK, TasksOK, Goto, inner, locks, calls, peers,
       ReplyFails, ReplyAllowed
<1>18. ASSUME NEW t \in Tasks, ReplyBlame(t) PROVE JobInv'
  BY <1>18 DEF JobInv, IInv, TypeOK, InnerOK, TasksOK, Goto, inner, locks, calls, peers,
       ReplyBlame
<1>19. ASSUME NEW t \in Tasks, LoseStale(t) PROVE JobInv'
  BY <1>19 DEF JobInv, IInv, TypeOK, InnerOK, TasksOK, Goto, inner, locks, calls, peers,
       LoseStale
<1>20. ASSUME NEW t \in Tasks, LoseConnection(t) PROVE JobInv'
  BY <1>20 DEF JobInv, IInv, TypeOK, InnerOK, TasksOK, Goto, inner, locks, calls, peers,
       LoseConnection
<1>21. ASSUME NEW t \in Tasks, Disconnect(t) PROVE JobInv'
  BY <1>21 DEF JobInv, IInv, TypeOK, InnerOK, TasksOK, Goto, inner, locks, calls, peers,
       Disconnect
<1>22. ASSUME NEW t \in Tasks, FailPending(t) PROVE JobInv'
  BY <1>22 DEF JobInv, IInv, TypeOK, InnerOK, TasksOK, Goto, inner, locks, calls, peers,
       FailPending, FailedSlots, Awaited
<1>23. ASSUME NEW t \in Tasks, KillChild(t) PROVE JobInv'
  <2>1. (pc[t] = "kill" /\ t # Reader) \/ ~Disconnecting(t)
    BY <1>23 DEF KillChild, Disconnecting, IInv, JobInv
  <2>2. UNCHANGED <<id, res>>
    BY <1>23 DEF KillChild, calls
  <2>3. CASE job[t] = "close"
    BY <1>23, <2>1, <2>2, <2>3 DEF KillChild, Disconnecting, IInv, JobInv, TypeOK, TasksOK
  <2>4. CASE job[t] = "reconnect"
    BY <1>23, <2>1, <2>2, <2>4 DEF KillChild, Disconnecting, IInv, JobInv, TypeOK, TasksOK
  <2>5. CASE ~Disconnecting(t)
    BY <1>23, <2>2, <2>5 DEF KillChild, Disconnecting, IInv, JobInv, TypeOK, TasksOK
  <2> QED BY <2>3, <2>4, <2>5 DEF Disconnecting
<1>24. ASSUME NEW t \in Callers, BeginRequest(t) PROVE JobInv'
  BY <1>24 DEF JobInv, IInv, TypeOK, InnerOK, TasksOK, Goto, inner, locks, calls, peers,
       BeginRequest
<1>25. ASSUME NEW t \in Admins, BeginConnect(t) PROVE JobInv'
  BY <1>25 DEF JobInv, IInv, TypeOK, InnerOK, TasksOK, Goto, inner, locks, calls, peers,
       BeginConnect
<1>26. ASSUME NEW t \in Admins, BeginReconnect(t) PROVE JobInv'
  BY <1>26 DEF JobInv, IInv, TypeOK, InnerOK, TasksOK, Goto, inner, locks, calls, peers,
       BeginReconnect
<1>27. ASSUME NEW t \in Admins, BeginClose(t) PROVE JobInv'
  BY <1>27 DEF JobInv, IInv, TypeOK, InnerOK, TasksOK, Goto, inner, locks, calls, peers,
       BeginClose
<1>28. ASSUME NEW t \in Repliers, NEW g \in Gens, BeginReply(t, g) PROVE JobInv'
  BY <1>28 DEF JobInv, IInv, TypeOK, InnerOK, TasksOK, Goto, inner, locks, calls, peers,
       BeginReply
<1>29. ASSUME NEW t \in Impatient, GiveUp(t) PROVE JobInv'
  BY <1>29 DEF JobInv, IInv, TypeOK, InnerOK, TasksOK, Goto, inner, locks, calls, peers,
       GiveUp, Killed, DropConnectLock, Done
<1>30. ASSUME ReadResponse PROVE JobInv'
  BY <1>30 DEF JobInv, IInv, TypeOK, InnerOK, TasksOK, Goto, inner, locks, calls, peers,
       ReadResponse, CompletedBy, Awaited
<1>31. ASSUME ReadServerRequest PROVE JobInv'
  BY <1>31 DEF JobInv, IInv, TypeOK, InnerOK, TasksOK, Goto, inner, locks, calls, peers,
       ReadServerRequest
<1>32. ASSUME ReadEof PROVE JobInv'
  BY <1>32 DEF JobInv, IInv, TypeOK, InnerOK, TasksOK, Goto, inner, locks, calls, peers, ReadEof
<1>33. ASSUME NEW g \in Gens, Answer(g) PROVE JobInv'
  BY <1>33 DEF JobInv, IInv, TypeOK, InnerOK, TasksOK, Goto, inner, locks, calls, peers, Answer
<1>34. ASSUME NEW g \in Gens, Crash(g) PROVE JobInv'
  BY <1>34 DEF JobInv, IInv, TypeOK, InnerOK, TasksOK, Goto, inner, locks, calls, peers, Crash
<1>35. ASSUME UNCHANGED vars PROVE JobInv'
  BY <1>35 DEF JobInv, IInv, TypeOK, InnerOK, TasksOK, Goto, inner, locks, calls, peers, vars,
       inner, locks, calls, peers
<1> QED
  BY <1>1, <1>2, <1>3, <1>4, <1>5, <1>6, <1>7, <1>8, <1>9, <1>10, <1>11, <1>12, <1>13, <1>14,
       <1>15, <1>16, <1>17, <1>18, <1>19, <1>20, <1>21, <1>22, <1>23, <1>24, <1>25, <1>26,
       <1>27, <1>28, <1>29, <1>30, <1>31, <1>32, <1>33, <1>34, <1>35 DEF Next, Continue

\* The connection variables stay consistent.
LEMMA ConnStep == IInv /\ [Next]_vars => ConnInv'
<1> SUFFICES ASSUME IInv, [Next]_vars PROVE ConnInv'
  OBVIOUS
<1> USE TaskFacts, BoundsAssumption
<1>1. ASSUME NEW t \in Tasks, Recheck(t) PROVE ConnInv'
  BY <1>1 DEF ConnInv, LockInv, Connecting, JobInv, NoOrphanProcess, IInv, TypeOK, InnerOK,
       TasksOK, Goto, inner, locks, calls, peers, Gens, Recheck, Done
<1>2. ASSUME NEW t \in Tasks, CheckConnected(t) PROVE ConnInv'
  BY <1>2 DEF ConnInv, LockInv, Connecting, JobInv, NoOrphanProcess, IInv, TypeOK, InnerOK,
       TasksOK, Goto, inner, locks, calls, peers, Gens, CheckConnected
<1>3. ASSUME NEW t \in Tasks, CheckInitialized(t) PROVE ConnInv'
  BY <1>3 DEF ConnInv, LockInv, Connecting, JobInv, NoOrphanProcess, IInv, TypeOK, InnerOK,
       TasksOK, Goto, inner, locks, calls, peers, Gens, CheckInitialized, Ensured, Done
<1>4. ASSUME NEW t \in Tasks, StoreInitialized(t) PROVE ConnInv'
  <2>1. pc[t] = "storeinit" /\ initGen' = gen[t]  BY <1>4 DEF StoreInitialized
  <2>2. gen[t] = generation /\ Connecting(t) /\ ~(\E u \in Tasks : u # t /\ pc[u] = "install")
    BY <2>1 DEF IInv, JobInv, HandshakeInv, LockInv, Connecting
  <2>3. UNCHANGED <<stdin, child, generation, connected>>  BY <1>4 DEF StoreInitialized
  <2>4. pc' = [pc EXCEPT ![t] = pc'[t]] /\ pc'[t] \in {"raw", "idle"}
    BY <1>4 DEF StoreInitialized, Ensured, Done, Goto, IInv, TypeOK, TasksOK
  <2>5. gen' = [gen EXCEPT ![t] = 0] /\ t # Reader
    BY <1>4, <2>1 DEF StoreInitialized, Ensured, Done, IInv, JobInv
  <2> QED BY <2>1, <2>2, <2>3, <2>4, <2>5 DEF ConnInv, IInv, TypeOK, InnerOK, TasksOK, JobInv
<1>5. ASSUME NEW t \in Tasks, SpawnLocked(t) PROVE ConnInv'
  <2>1. lifecycle = NoTask /\ pc[t] = "spawn" /\ ~connected /\ generation \in 0..MaxGen
    BY <1>5 DEF SpawnLocked, IInv, ConnInv, TypeOK, InnerOK
  <2>2. \A u \in Tasks : pc[u] \notin {"install", "fail", "kill"}
    BY <2>1 DEF IInv, LockInv
  <2>3. \A u \in Tasks \ {t} : ~Connecting(u)
    BY <2>1 DEF IInv, LockInv, Connecting
  <2>4. generation' = generation + 1 /\ child' = 0 /\ stdin' = stdin /\ initGen' = initGen
        /\ connected' = connected /\ generation < MaxGen
    BY <1>5 DEF SpawnLocked, NextGeneration
  <2>5. /\ pc' = [pc EXCEPT ![t] = "install", ![Reader] = "idle"]
        /\ gen' = [gen EXCEPT ![t] = generation + 1, ![Reader] = 0]
    BY <1>5 DEF SpawnLocked, NextGeneration
  <2>6. t # Reader  BY <2>1 DEF IInv, JobInv
  <2>7. stdin \in Nat /\ initGen \in Nat /\ stdin <= generation /\ initGen <= generation
    BY DEF IInv, ConnInv, TypeOK, InnerOK
  <2>8. pc' \in [Tasks -> PCs] /\ gen' \in [Tasks -> Nat] /\ pc'[t] = "install"
        /\ gen'[t] = generation + 1 /\ pc'[Reader] = "idle"
        /\ \A u \in Tasks \ {t, Reader} : pc'[u] = pc[u] /\ gen'[u] = gen[u]
    BY <2>1, <2>5, <2>6 DEF IInv, TypeOK, TasksOK, PCs
  <2>9. \A u \in Tasks : u # t => pc'[u] \notin {"install", "initcheck", "fail", "kill"}
    BY <2>2, <2>3, <2>8 DEF Connecting
  <2> QED BY <2>1, <2>4, <2>6, <2>7, <2>8, <2>9 DEF ConnInv, Gens
<1>6. ASSUME NEW t \in Tasks, SpawnFails(t) PROVE ConnInv'
  BY <1>6 DEF ConnInv, LockInv, Connecting, JobInv, NoOrphanProcess, IInv, TypeOK, InnerOK,
       TasksOK, Goto, inner, locks, calls, peers, Gens, SpawnFails, Killed
<1>7. ASSUME NEW t \in Tasks, Install(t) PROVE ConnInv'
  BY <1>7 DEF ConnInv, LockInv, Connecting, JobInv, NoOrphanProcess, IInv, TypeOK, InnerOK,
       TasksOK, Goto, inner, locks, calls, peers, Gens, Install
<1>8. ASSUME NEW t \in Tasks, StartRaw(t) PROVE ConnInv'
  BY <1>8 DEF ConnInv, LockInv, Connecting, JobInv, NoOrphanProcess, IInv, TypeOK, InnerOK,
       TasksOK, Goto, inner, locks, calls, peers, Gens, StartRaw
<1>9. ASSUME NEW t \in Tasks, WriteCheck(t) PROVE ConnInv'
  BY <1>9 DEF ConnInv, LockInv, Connecting, JobInv, NoOrphanProcess, IInv, TypeOK, InnerOK,
       TasksOK, Goto, inner, locks, calls, peers, Gens, WriteCheck
<1>10. ASSUME NEW t \in Tasks, WriteLoadGeneration(t) PROVE ConnInv'
  BY <1>10 DEF ConnInv, LockInv, Connecting, JobInv, NoOrphanProcess, IInv, TypeOK, InnerOK,
       TasksOK, Goto, inner, locks, calls, peers, Gens, WriteLoadGeneration
<1>11. ASSUME NEW t \in Tasks, WriteFrame(t) PROVE ConnInv'
  BY <1>11 DEF ConnInv, LockInv, Connecting, JobInv, NoOrphanProcess, IInv, TypeOK, InnerOK,
       TasksOK, Goto, inner, locks, calls, peers, Gens, WriteFrame, Deliver
<1>12. ASSUME NEW t \in Tasks, WriteFails(t) PROVE ConnInv'
  BY <1>12 DEF ConnInv, LockInv, Connecting, JobInv, NoOrphanProcess, IInv, TypeOK, InnerOK,
       TasksOK, Goto, inner, locks, calls, peers, Gens, WriteFails, Deliver
<1>13. ASSUME NEW t \in Tasks, Abandon(t) PROVE ConnInv'
  BY <1>13 DEF ConnInv, LockInv, Connecting, JobInv, NoOrphanProcess, IInv, TypeOK, InnerOK,
       TasksOK, Goto, inner, locks, calls, peers, Gens, Abandon, Forget, DropConnectLock, Done
<1>14. ASSUME NEW t \in Tasks, Receive(t) PROVE ConnInv'
  BY <1>14 DEF ConnInv, LockInv, Connecting, JobInv, NoOrphanProcess, IInv, TypeOK, InnerOK,
       TasksOK, Goto, inner, locks, calls, peers, Gens, Receive, AfterInitialize,
       DropConnectLock, Done
<1>15. ASSUME NEW t \in Tasks, Timeout(t) PROVE ConnInv'
  BY <1>15 DEF ConnInv, LockInv, Connecting, JobInv, NoOrphanProcess, IInv, TypeOK, InnerOK,
       TasksOK, Goto, inner, locks, calls, peers, Gens, Timeout, Elapses, Forget,
       DropConnectLock, Done
<1>16. ASSUME NEW t \in Tasks, ReplyFrame(t) PROVE ConnInv'
  BY <1>16 DEF ConnInv, LockInv, Connecting, JobInv, NoOrphanProcess, IInv, TypeOK, InnerOK,
       TasksOK, Goto, inner, locks, calls, peers, Gens, ReplyFrame, ReplyAllowed, Done
<1>17. ASSUME NEW t \in Tasks, ReplyFails(t) PROVE ConnInv'
  BY <1>17 DEF ConnInv, LockInv, Connecting, JobInv, NoOrphanProcess, IInv, TypeOK, InnerOK,
       TasksOK, Goto, inner, locks, calls, peers, Gens, ReplyFails, ReplyAllowed
<1>18. ASSUME NEW t \in Tasks, ReplyBlame(t) PROVE ConnInv'
  BY <1>18 DEF ConnInv, LockInv, Connecting, JobInv, NoOrphanProcess, IInv, TypeOK, InnerOK,
       TasksOK, Goto, inner, locks, calls, peers, Gens, ReplyBlame
<1>19. ASSUME NEW t \in Tasks, LoseStale(t) PROVE ConnInv'
  BY <1>19 DEF ConnInv, LockInv, Connecting, JobInv, NoOrphanProcess, IInv, TypeOK, InnerOK,
       TasksOK, Goto, inner, locks, calls, peers, Gens, LoseStale
<1>20. ASSUME NEW t \in Tasks, LoseConnection(t) PROVE ConnInv'
  BY <1>20 DEF ConnInv, LockInv, Connecting, JobInv, NoOrphanProcess, IInv, TypeOK, InnerOK,
       TasksOK, Goto, inner, locks, calls, peers, Gens, LoseConnection
<1>21. ASSUME NEW t \in Tasks, Disconnect(t) PROVE ConnInv'
  BY <1>21 DEF ConnInv, LockInv, Connecting, JobInv, NoOrphanProcess, IInv, TypeOK, InnerOK,
       TasksOK, Goto, inner, locks, calls, peers, Gens, Disconnect
<1>22. ASSUME NEW t \in Tasks, FailPending(t) PROVE ConnInv'
  BY <1>22 DEF ConnInv, LockInv, Connecting, JobInv, NoOrphanProcess, IInv, TypeOK, InnerOK,
       TasksOK, Goto, inner, locks, calls, peers, Gens, FailPending, FailedSlots, Awaited
<1>23. ASSUME NEW t \in Tasks, KillChild(t) PROVE ConnInv'
  BY <1>23 DEF ConnInv, LockInv, Connecting, JobInv, NoOrphanProcess, IInv, TypeOK, InnerOK,
       TasksOK, Goto, inner, locks, calls, peers, Gens, KillChild, Killed, Disconnecting
<1>24. ASSUME NEW t \in Callers, BeginRequest(t) PROVE ConnInv'
  BY <1>24 DEF ConnInv, LockInv, Connecting, JobInv, NoOrphanProcess, IInv, TypeOK, InnerOK,
       TasksOK, Goto, inner, locks, calls, peers, Gens, BeginRequest
<1>25. ASSUME NEW t \in Admins, BeginConnect(t) PROVE ConnInv'
  BY <1>25 DEF ConnInv, LockInv, Connecting, JobInv, NoOrphanProcess, IInv, TypeOK, InnerOK,
       TasksOK, Goto, inner, locks, calls, peers, Gens, BeginConnect
<1>26. ASSUME NEW t \in Admins, BeginReconnect(t) PROVE ConnInv'
  BY <1>26 DEF ConnInv, LockInv, Connecting, JobInv, NoOrphanProcess, IInv, TypeOK, InnerOK,
       TasksOK, Goto, inner, locks, calls, peers, Gens, BeginReconnect
<1>27. ASSUME NEW t \in Admins, BeginClose(t) PROVE ConnInv'
  BY <1>27 DEF ConnInv, LockInv, Connecting, JobInv, NoOrphanProcess, IInv, TypeOK, InnerOK,
       TasksOK, Goto, inner, locks, calls, peers, Gens, BeginClose
<1>28. ASSUME NEW t \in Repliers, NEW g \in Gens, BeginReply(t, g) PROVE ConnInv'
  BY <1>28 DEF ConnInv, LockInv, Connecting, JobInv, NoOrphanProcess, IInv, TypeOK, InnerOK,
       TasksOK, Goto, inner, locks, calls, peers, Gens, BeginReply
<1>29. ASSUME NEW t \in Impatient, GiveUp(t) PROVE ConnInv'
  BY <1>29 DEF ConnInv, LockInv, Connecting, JobInv, NoOrphanProcess, IInv, TypeOK, InnerOK,
       TasksOK, Goto, inner, locks, calls, peers, Gens, GiveUp, Killed, DropConnectLock, Done
<1>30. ASSUME ReadResponse PROVE ConnInv'
  BY <1>30 DEF ConnInv, LockInv, Connecting, JobInv, NoOrphanProcess, IInv, TypeOK, InnerOK,
       TasksOK, Goto, inner, locks, calls, peers, Gens, ReadResponse, CompletedBy, Awaited
<1>31. ASSUME ReadServerRequest PROVE ConnInv'
  BY <1>31 DEF ConnInv, LockInv, Connecting, JobInv, NoOrphanProcess, IInv, TypeOK, InnerOK,
       TasksOK, Goto, inner, locks, calls, peers, Gens, ReadServerRequest
<1>32. ASSUME ReadEof PROVE ConnInv'
  BY <1>32 DEF ConnInv, LockInv, Connecting, JobInv, NoOrphanProcess, IInv, TypeOK, InnerOK,
       TasksOK, Goto, inner, locks, calls, peers, Gens, ReadEof
<1>33. ASSUME NEW g \in Gens, Answer(g) PROVE ConnInv'
  BY <1>33 DEF ConnInv, LockInv, Connecting, JobInv, NoOrphanProcess, IInv, TypeOK, InnerOK,
       TasksOK, Goto, inner, locks, calls, peers, Gens, Answer
<1>34. ASSUME NEW g \in Gens, Crash(g) PROVE ConnInv'
  BY <1>34 DEF ConnInv, LockInv, Connecting, JobInv, NoOrphanProcess, IInv, TypeOK, InnerOK,
       TasksOK, Goto, inner, locks, calls, peers, Gens, Crash
<1>35. ASSUME UNCHANGED vars PROVE ConnInv'
  BY <1>35 DEF ConnInv, LockInv, Connecting, JobInv, NoOrphanProcess, IInv, TypeOK, InnerOK,
       TasksOK, Goto, inner, locks, calls, peers, Gens, vars, inner, locks, calls, peers
<1> QED
  BY <1>1, <1>2, <1>3, <1>4, <1>5, <1>6, <1>7, <1>8, <1>9, <1>10, <1>11, <1>12, <1>13, <1>14,
       <1>15, <1>16, <1>17, <1>18, <1>19, <1>20, <1>21, <1>22, <1>23, <1>24, <1>25, <1>26,
       <1>27, <1>28, <1>29, <1>30, <1>31, <1>32, <1>33, <1>34, <1>35 DEF Next, Continue

\* No step leaves a process without its handle.
LEMMA OrphanStep == IInv /\ [Next]_vars => NoOrphanProcess'
<1> SUFFICES ASSUME IInv, [Next]_vars PROVE NoOrphanProcess'
  OBVIOUS
<1> USE TaskFacts, BoundsAssumption
<1>1. ASSUME NEW t \in Tasks, Recheck(t) PROVE NoOrphanProcess'
  BY <1>1 DEF ConnInv, LockInv, NoOrphanProcess, PeersOK, IInv, TypeOK, InnerOK, TasksOK, Goto,
       inner, locks, calls, peers, Gens, Recheck, Done
<1>2. ASSUME NEW t \in Tasks, CheckConnected(t) PROVE NoOrphanProcess'
  BY <1>2 DEF ConnInv, LockInv, NoOrphanProcess, PeersOK, IInv, TypeOK, InnerOK, TasksOK, Goto,
       inner, locks, calls, peers, Gens, CheckConnected
<1>3. ASSUME NEW t \in Tasks, CheckInitialized(t) PROVE NoOrphanProcess'
  BY <1>3 DEF ConnInv, LockInv, NoOrphanProcess, PeersOK, IInv, TypeOK, InnerOK, TasksOK, Goto,
       inner, locks, calls, peers, Gens, CheckInitialized, Ensured, Done
<1>4. ASSUME NEW t \in Tasks, StoreInitialized(t) PROVE NoOrphanProcess'
  <2>1. pc[t] = "storeinit" /\ UNCHANGED <<generation, child, proc>>
    BY <1>4 DEF StoreInitialized, peers
  <2>2. \A u \in Tasks : u # t => pc'[u] = pc[u] /\ gen'[u] = gen[u]
    BY <1>4 DEF StoreInitialized, Ensured, Done, Goto, IInv, TypeOK, TasksOK
  <2> QED BY <2>1, <2>2 DEF IInv, NoOrphanProcess
<1>5. ASSUME NEW t \in Tasks, SpawnLocked(t) PROVE NoOrphanProcess'
  <2>1. lifecycle = NoTask /\ generation' = generation + 1 /\ generation < MaxGen
        /\ proc' = [Killed(child) EXCEPT ![generation + 1] = "live"]
    BY <1>5 DEF SpawnLocked, NextGeneration
  <2>2. \A u \in Tasks : pc[u] # "install"
    BY <2>1 DEF IInv, LockInv
  <2>3. \A g \in Gens : g # generation + 1 => proc'[g] # "live"
    BY <2>1, <2>2 DEF IInv, NoOrphanProcess, Killed, TypeOK, PeersOK
  <2>4. t # Reader  BY <1>5 DEF SpawnLocked, IInv, JobInv
  <2>5. pc'[t] = "install" /\ gen'[t] = generation + 1
    BY <1>5, <2>4 DEF SpawnLocked, NextGeneration, IInv, TypeOK, TasksOK
  <2> QED BY <2>1, <2>3, <2>5 DEF NoOrphanProcess
<1>6. ASSUME NEW t \in Tasks, SpawnFails(t) PROVE NoOrphanProcess'
  BY <1>6 DEF ConnInv, LockInv, NoOrphanProcess, PeersOK, IInv, TypeOK, InnerOK, TasksOK, Goto,
       inner, locks, calls, peers, Gens, SpawnFails, Killed
<1>7. ASSUME NEW t \in Tasks, Install(t) PROVE NoOrphanProcess'
  BY <1>7 DEF ConnInv, LockInv, NoOrphanProcess, PeersOK, IInv, TypeOK, InnerOK, TasksOK, Goto,
       inner, locks, calls, peers, Gens, Install
<1>8. ASSUME NEW t \in Tasks, StartRaw(t) PROVE NoOrphanProcess'
  BY <1>8 DEF ConnInv, LockInv, NoOrphanProcess, PeersOK, IInv, TypeOK, InnerOK, TasksOK, Goto,
       inner, locks, calls, peers, Gens, StartRaw
<1>9. ASSUME NEW t \in Tasks, WriteCheck(t) PROVE NoOrphanProcess'
  BY <1>9 DEF ConnInv, LockInv, NoOrphanProcess, PeersOK, IInv, TypeOK, InnerOK, TasksOK, Goto,
       inner, locks, calls, peers, Gens, WriteCheck
<1>10. ASSUME NEW t \in Tasks, WriteLoadGeneration(t) PROVE NoOrphanProcess'
  BY <1>10 DEF ConnInv, LockInv, NoOrphanProcess, PeersOK, IInv, TypeOK, InnerOK, TasksOK,
       Goto, inner, locks, calls, peers, Gens, WriteLoadGeneration
<1>11. ASSUME NEW t \in Tasks, WriteFrame(t) PROVE NoOrphanProcess'
  BY <1>11 DEF ConnInv, LockInv, NoOrphanProcess, PeersOK, IInv, TypeOK, InnerOK, TasksOK,
       Goto, inner, locks, calls, peers, Gens, WriteFrame, Deliver
<1>12. ASSUME NEW t \in Tasks, WriteFails(t) PROVE NoOrphanProcess'
  BY <1>12 DEF ConnInv, LockInv, NoOrphanProcess, PeersOK, IInv, TypeOK, InnerOK, TasksOK,
       Goto, inner, locks, calls, peers, Gens, WriteFails, Deliver
<1>13. ASSUME NEW t \in Tasks, Abandon(t) PROVE NoOrphanProcess'
  BY <1>13 DEF ConnInv, LockInv, NoOrphanProcess, PeersOK, IInv, TypeOK, InnerOK, TasksOK,
       Goto, inner, locks, calls, peers, Gens, Abandon, Forget, DropConnectLock, Done
<1>14. ASSUME NEW t \in Tasks, Receive(t) PROVE NoOrphanProcess'
  BY <1>14 DEF ConnInv, LockInv, NoOrphanProcess, PeersOK, IInv, TypeOK, InnerOK, TasksOK,
       Goto, inner, locks, calls, peers, Gens, Receive, AfterInitialize, DropConnectLock, Done
<1>15. ASSUME NEW t \in Tasks, Timeout(t) PROVE NoOrphanProcess'
  BY <1>15 DEF ConnInv, LockInv, NoOrphanProcess, PeersOK, IInv, TypeOK, InnerOK, TasksOK,
       Goto, inner, locks, calls, peers, Gens, Timeout, Elapses, Forget, DropConnectLock, Done
<1>16. ASSUME NEW t \in Tasks, ReplyFrame(t) PROVE NoOrphanProcess'
  BY <1>16 DEF ConnInv, LockInv, NoOrphanProcess, PeersOK, IInv, TypeOK, InnerOK, TasksOK,
       Goto, inner, locks, calls, peers, Gens, ReplyFrame, ReplyAllowed, Done
<1>17. ASSUME NEW t \in Tasks, ReplyFails(t) PROVE NoOrphanProcess'
  BY <1>17 DEF ConnInv, LockInv, NoOrphanProcess, PeersOK, IInv, TypeOK, InnerOK, TasksOK,
       Goto, inner, locks, calls, peers, Gens, ReplyFails, ReplyAllowed
<1>18. ASSUME NEW t \in Tasks, ReplyBlame(t) PROVE NoOrphanProcess'
  BY <1>18 DEF ConnInv, LockInv, NoOrphanProcess, PeersOK, IInv, TypeOK, InnerOK, TasksOK,
       Goto, inner, locks, calls, peers, Gens, ReplyBlame
<1>19. ASSUME NEW t \in Tasks, LoseStale(t) PROVE NoOrphanProcess'
  BY <1>19 DEF ConnInv, LockInv, NoOrphanProcess, PeersOK, IInv, TypeOK, InnerOK, TasksOK,
       Goto, inner, locks, calls, peers, Gens, LoseStale
<1>20. ASSUME NEW t \in Tasks, LoseConnection(t) PROVE NoOrphanProcess'
  BY <1>20 DEF ConnInv, LockInv, NoOrphanProcess, PeersOK, IInv, TypeOK, InnerOK, TasksOK,
       Goto, inner, locks, calls, peers, Gens, LoseConnection
<1>21. ASSUME NEW t \in Tasks, Disconnect(t) PROVE NoOrphanProcess'
  BY <1>21 DEF ConnInv, LockInv, NoOrphanProcess, PeersOK, IInv, TypeOK, InnerOK, TasksOK,
       Goto, inner, locks, calls, peers, Gens, Disconnect
<1>22. ASSUME NEW t \in Tasks, FailPending(t) PROVE NoOrphanProcess'
  BY <1>22 DEF ConnInv, LockInv, NoOrphanProcess, PeersOK, IInv, TypeOK, InnerOK, TasksOK,
       Goto, inner, locks, calls, peers, Gens, FailPending, FailedSlots, Awaited
<1>23. ASSUME NEW t \in Tasks, KillChild(t) PROVE NoOrphanProcess'
  BY <1>23 DEF ConnInv, LockInv, NoOrphanProcess, PeersOK, IInv, TypeOK, InnerOK, TasksOK,
       Goto, inner, locks, calls, peers, Gens, KillChild, Killed, Disconnecting
<1>24. ASSUME NEW t \in Callers, BeginRequest(t) PROVE NoOrphanProcess'
  BY <1>24 DEF ConnInv, LockInv, NoOrphanProcess, PeersOK, IInv, TypeOK, InnerOK, TasksOK,
       Goto, inner, locks, calls, peers, Gens, BeginRequest
<1>25. ASSUME NEW t \in Admins, BeginConnect(t) PROVE NoOrphanProcess'
  BY <1>25 DEF ConnInv, LockInv, NoOrphanProcess, PeersOK, IInv, TypeOK, InnerOK, TasksOK,
       Goto, inner, locks, calls, peers, Gens, BeginConnect
<1>26. ASSUME NEW t \in Admins, BeginReconnect(t) PROVE NoOrphanProcess'
  BY <1>26 DEF ConnInv, LockInv, NoOrphanProcess, PeersOK, IInv, TypeOK, InnerOK, TasksOK,
       Goto, inner, locks, calls, peers, Gens, BeginReconnect
<1>27. ASSUME NEW t \in Admins, BeginClose(t) PROVE NoOrphanProcess'
  BY <1>27 DEF ConnInv, LockInv, NoOrphanProcess, PeersOK, IInv, TypeOK, InnerOK, TasksOK,
       Goto, inner, locks, calls, peers, Gens, BeginClose
<1>28. ASSUME NEW t \in Repliers, NEW g \in Gens, BeginReply(t, g) PROVE NoOrphanProcess'
  BY <1>28 DEF ConnInv, LockInv, NoOrphanProcess, PeersOK, IInv, TypeOK, InnerOK, TasksOK,
       Goto, inner, locks, calls, peers, Gens, BeginReply
<1>29. ASSUME NEW t \in Impatient, GiveUp(t) PROVE NoOrphanProcess'
  BY <1>29 DEF ConnInv, LockInv, NoOrphanProcess, PeersOK, IInv, TypeOK, InnerOK, TasksOK,
       Goto, inner, locks, calls, peers, Gens, GiveUp, Killed, DropConnectLock, Done
<1>30. ASSUME ReadResponse PROVE NoOrphanProcess'
  BY <1>30 DEF ConnInv, LockInv, NoOrphanProcess, PeersOK, IInv, TypeOK, InnerOK, TasksOK,
       Goto, inner, locks, calls, peers, Gens, ReadResponse, CompletedBy, Awaited
<1>31. ASSUME ReadServerRequest PROVE NoOrphanProcess'
  BY <1>31 DEF ConnInv, LockInv, NoOrphanProcess, PeersOK, IInv, TypeOK, InnerOK, TasksOK,
       Goto, inner, locks, calls, peers, Gens, ReadServerRequest
<1>32. ASSUME ReadEof PROVE NoOrphanProcess'
  BY <1>32 DEF ConnInv, LockInv, NoOrphanProcess, PeersOK, IInv, TypeOK, InnerOK, TasksOK,
       Goto, inner, locks, calls, peers, Gens, ReadEof
<1>33. ASSUME NEW g \in Gens, Answer(g) PROVE NoOrphanProcess'
  BY <1>33 DEF ConnInv, LockInv, NoOrphanProcess, PeersOK, IInv, TypeOK, InnerOK, TasksOK,
       Goto, inner, locks, calls, peers, Gens, Answer
<1>34. ASSUME NEW g \in Gens, Crash(g) PROVE NoOrphanProcess'
  BY <1>34 DEF ConnInv, LockInv, NoOrphanProcess, PeersOK, IInv, TypeOK, InnerOK, TasksOK,
       Goto, inner, locks, calls, peers, Gens, Crash
<1>35. ASSUME UNCHANGED vars PROVE NoOrphanProcess'
  BY <1>35 DEF ConnInv, LockInv, NoOrphanProcess, PeersOK, IInv, TypeOK, InnerOK, TasksOK,
       Goto, inner, locks, calls, peers, Gens, vars, inner, locks, calls, peers
<1> QED
  BY <1>1, <1>2, <1>3, <1>4, <1>5, <1>6, <1>7, <1>8, <1>9, <1>10, <1>11, <1>12, <1>13, <1>14,
       <1>15, <1>16, <1>17, <1>18, <1>19, <1>20, <1>21, <1>22, <1>23, <1>24, <1>25, <1>26,
       <1>27, <1>28, <1>29, <1>30, <1>31, <1>32, <1>33, <1>34, <1>35 DEF Next, Continue

\* A reply is only written to the process it is for.
LEMMA ReplyStep == IInv /\ [Next]_vars => RepliesReachTheirProcess'
<1> SUFFICES ASSUME IInv, [Next]_vars PROVE RepliesReachTheirProcess'
  OBVIOUS
<1> USE TaskFacts, BoundsAssumption
<1>1. ASSUME NEW t \in Tasks, Recheck(t) PROVE RepliesReachTheirProcess'
  BY <1>1 DEF ConnInv, RepliesReachTheirProcess, PeersOK, IInv, TypeOK, InnerOK, TasksOK, Goto,
       inner, locks, calls, peers, Gens, Recheck, Done
<1>2. ASSUME NEW t \in Tasks, CheckConnected(t) PROVE RepliesReachTheirProcess'
  BY <1>2 DEF ConnInv, RepliesReachTheirProcess, PeersOK, IInv, TypeOK, InnerOK, TasksOK, Goto,
       inner, locks, calls, peers, Gens, CheckConnected
<1>3. ASSUME NEW t \in Tasks, CheckInitialized(t) PROVE RepliesReachTheirProcess'
  BY <1>3 DEF ConnInv, RepliesReachTheirProcess, PeersOK, IInv, TypeOK, InnerOK, TasksOK, Goto,
       inner, locks, calls, peers, Gens, CheckInitialized, Ensured, Done
<1>4. ASSUME NEW t \in Tasks, StoreInitialized(t) PROVE RepliesReachTheirProcess'
  BY <1>4 DEF ConnInv, RepliesReachTheirProcess, PeersOK, IInv, TypeOK, InnerOK, TasksOK, Goto,
       inner, locks, calls, peers, Gens, StoreInitialized, Ensured, Done
<1>5. ASSUME NEW t \in Tasks, SpawnLocked(t) PROVE RepliesReachTheirProcess'
  BY <1>5 DEF ConnInv, RepliesReachTheirProcess, PeersOK, IInv, TypeOK, InnerOK, TasksOK, Goto,
       inner, locks, calls, peers, Gens, SpawnLocked, NextGeneration, Killed
<1>6. ASSUME NEW t \in Tasks, SpawnFails(t) PROVE RepliesReachTheirProcess'
  BY <1>6 DEF ConnInv, RepliesReachTheirProcess, PeersOK, IInv, TypeOK, InnerOK, TasksOK, Goto,
       inner, locks, calls, peers, Gens, SpawnFails, Killed
<1>7. ASSUME NEW t \in Tasks, Install(t) PROVE RepliesReachTheirProcess'
  BY <1>7 DEF ConnInv, RepliesReachTheirProcess, PeersOK, IInv, TypeOK, InnerOK, TasksOK, Goto,
       inner, locks, calls, peers, Gens, Install
<1>8. ASSUME NEW t \in Tasks, StartRaw(t) PROVE RepliesReachTheirProcess'
  BY <1>8 DEF ConnInv, RepliesReachTheirProcess, PeersOK, IInv, TypeOK, InnerOK, TasksOK, Goto,
       inner, locks, calls, peers, Gens, StartRaw
<1>9. ASSUME NEW t \in Tasks, WriteCheck(t) PROVE RepliesReachTheirProcess'
  BY <1>9 DEF ConnInv, RepliesReachTheirProcess, PeersOK, IInv, TypeOK, InnerOK, TasksOK, Goto,
       inner, locks, calls, peers, Gens, WriteCheck
<1>10. ASSUME NEW t \in Tasks, WriteLoadGeneration(t) PROVE RepliesReachTheirProcess'
  BY <1>10 DEF ConnInv, RepliesReachTheirProcess, PeersOK, IInv, TypeOK, InnerOK, TasksOK,
       Goto, inner, locks, calls, peers, Gens, WriteLoadGeneration
<1>11. ASSUME NEW t \in Tasks, WriteFrame(t) PROVE RepliesReachTheirProcess'
  BY <1>11 DEF ConnInv, RepliesReachTheirProcess, PeersOK, IInv, TypeOK, InnerOK, TasksOK,
       Goto, inner, locks, calls, peers, Gens, WriteFrame, Deliver
<1>12. ASSUME NEW t \in Tasks, WriteFails(t) PROVE RepliesReachTheirProcess'
  BY <1>12 DEF ConnInv, RepliesReachTheirProcess, PeersOK, IInv, TypeOK, InnerOK, TasksOK,
       Goto, inner, locks, calls, peers, Gens, WriteFails, Deliver
<1>13. ASSUME NEW t \in Tasks, Abandon(t) PROVE RepliesReachTheirProcess'
  BY <1>13 DEF ConnInv, RepliesReachTheirProcess, PeersOK, IInv, TypeOK, InnerOK, TasksOK,
       Goto, inner, locks, calls, peers, Gens, Abandon, Forget, DropConnectLock, Done
<1>14. ASSUME NEW t \in Tasks, Receive(t) PROVE RepliesReachTheirProcess'
  BY <1>14 DEF ConnInv, RepliesReachTheirProcess, PeersOK, IInv, TypeOK, InnerOK, TasksOK,
       Goto, inner, locks, calls, peers, Gens, Receive, AfterInitialize, DropConnectLock, Done
<1>15. ASSUME NEW t \in Tasks, Timeout(t) PROVE RepliesReachTheirProcess'
  BY <1>15 DEF ConnInv, RepliesReachTheirProcess, PeersOK, IInv, TypeOK, InnerOK, TasksOK,
       Goto, inner, locks, calls, peers, Gens, Timeout, Elapses, Forget, DropConnectLock, Done
<1>16. ASSUME NEW t \in Tasks, ReplyFrame(t) PROVE RepliesReachTheirProcess'
  BY <1>16 DEF ConnInv, RepliesReachTheirProcess, PeersOK, IInv, TypeOK, InnerOK, TasksOK,
       Goto, inner, locks, calls, peers, Gens, ReplyFrame, ReplyAllowed, Done
<1>17. ASSUME NEW t \in Tasks, ReplyFails(t) PROVE RepliesReachTheirProcess'
  BY <1>17 DEF ConnInv, RepliesReachTheirProcess, PeersOK, IInv, TypeOK, InnerOK, TasksOK,
       Goto, inner, locks, calls, peers, Gens, ReplyFails, ReplyAllowed
<1>18. ASSUME NEW t \in Tasks, ReplyBlame(t) PROVE RepliesReachTheirProcess'
  BY <1>18 DEF ConnInv, RepliesReachTheirProcess, PeersOK, IInv, TypeOK, InnerOK, TasksOK,
       Goto, inner, locks, calls, peers, Gens, ReplyBlame
<1>19. ASSUME NEW t \in Tasks, LoseStale(t) PROVE RepliesReachTheirProcess'
  BY <1>19 DEF ConnInv, RepliesReachTheirProcess, PeersOK, IInv, TypeOK, InnerOK, TasksOK,
       Goto, inner, locks, calls, peers, Gens, LoseStale
<1>20. ASSUME NEW t \in Tasks, LoseConnection(t) PROVE RepliesReachTheirProcess'
  BY <1>20 DEF ConnInv, RepliesReachTheirProcess, PeersOK, IInv, TypeOK, InnerOK, TasksOK,
       Goto, inner, locks, calls, peers, Gens, LoseConnection
<1>21. ASSUME NEW t \in Tasks, Disconnect(t) PROVE RepliesReachTheirProcess'
  BY <1>21 DEF ConnInv, RepliesReachTheirProcess, PeersOK, IInv, TypeOK, InnerOK, TasksOK,
       Goto, inner, locks, calls, peers, Gens, Disconnect
<1>22. ASSUME NEW t \in Tasks, FailPending(t) PROVE RepliesReachTheirProcess'
  BY <1>22 DEF ConnInv, RepliesReachTheirProcess, PeersOK, IInv, TypeOK, InnerOK, TasksOK,
       Goto, inner, locks, calls, peers, Gens, FailPending, FailedSlots, Awaited
<1>23. ASSUME NEW t \in Tasks, KillChild(t) PROVE RepliesReachTheirProcess'
  BY <1>23 DEF ConnInv, RepliesReachTheirProcess, PeersOK, IInv, TypeOK, InnerOK, TasksOK,
       Goto, inner, locks, calls, peers, Gens, KillChild, Killed, Disconnecting
<1>24. ASSUME NEW t \in Callers, BeginRequest(t) PROVE RepliesReachTheirProcess'
  BY <1>24 DEF ConnInv, RepliesReachTheirProcess, PeersOK, IInv, TypeOK, InnerOK, TasksOK,
       Goto, inner, locks, calls, peers, Gens, BeginRequest
<1>25. ASSUME NEW t \in Admins, BeginConnect(t) PROVE RepliesReachTheirProcess'
  BY <1>25 DEF ConnInv, RepliesReachTheirProcess, PeersOK, IInv, TypeOK, InnerOK, TasksOK,
       Goto, inner, locks, calls, peers, Gens, BeginConnect
<1>26. ASSUME NEW t \in Admins, BeginReconnect(t) PROVE RepliesReachTheirProcess'
  BY <1>26 DEF ConnInv, RepliesReachTheirProcess, PeersOK, IInv, TypeOK, InnerOK, TasksOK,
       Goto, inner, locks, calls, peers, Gens, BeginReconnect
<1>27. ASSUME NEW t \in Admins, BeginClose(t) PROVE RepliesReachTheirProcess'
  BY <1>27 DEF ConnInv, RepliesReachTheirProcess, PeersOK, IInv, TypeOK, InnerOK, TasksOK,
       Goto, inner, locks, calls, peers, Gens, BeginClose
<1>28. ASSUME NEW t \in Repliers, NEW g \in Gens, BeginReply(t,
     g) PROVE RepliesReachTheirProcess'
  BY <1>28 DEF ConnInv, RepliesReachTheirProcess, PeersOK, IInv, TypeOK, InnerOK, TasksOK,
       Goto, inner, locks, calls, peers, Gens, BeginReply
<1>29. ASSUME NEW t \in Impatient, GiveUp(t) PROVE RepliesReachTheirProcess'
  BY <1>29 DEF ConnInv, RepliesReachTheirProcess, PeersOK, IInv, TypeOK, InnerOK, TasksOK,
       Goto, inner, locks, calls, peers, Gens, GiveUp, Killed, DropConnectLock, Done
<1>30. ASSUME ReadResponse PROVE RepliesReachTheirProcess'
  BY <1>30 DEF ConnInv, RepliesReachTheirProcess, PeersOK, IInv, TypeOK, InnerOK, TasksOK,
       Goto, inner, locks, calls, peers, Gens, ReadResponse, CompletedBy, Awaited
<1>31. ASSUME ReadServerRequest PROVE RepliesReachTheirProcess'
  BY <1>31 DEF ConnInv, RepliesReachTheirProcess, PeersOK, IInv, TypeOK, InnerOK, TasksOK,
       Goto, inner, locks, calls, peers, Gens, ReadServerRequest
<1>32. ASSUME ReadEof PROVE RepliesReachTheirProcess'
  BY <1>32 DEF ConnInv, RepliesReachTheirProcess, PeersOK, IInv, TypeOK, InnerOK, TasksOK,
       Goto, inner, locks, calls, peers, Gens, ReadEof
<1>33. ASSUME NEW g \in Gens, Answer(g) PROVE RepliesReachTheirProcess'
  BY <1>33 DEF ConnInv, RepliesReachTheirProcess, PeersOK, IInv, TypeOK, InnerOK, TasksOK,
       Goto, inner, locks, calls, peers, Gens, Answer
<1>34. ASSUME NEW g \in Gens, Crash(g) PROVE RepliesReachTheirProcess'
  BY <1>34 DEF ConnInv, RepliesReachTheirProcess, PeersOK, IInv, TypeOK, InnerOK, TasksOK,
       Goto, inner, locks, calls, peers, Gens, Crash
<1>35. ASSUME UNCHANGED vars PROVE RepliesReachTheirProcess'
  BY <1>35 DEF ConnInv, RepliesReachTheirProcess, PeersOK, IInv, TypeOK, InnerOK, TasksOK,
       Goto, inner, locks, calls, peers, Gens, vars, inner, locks, calls, peers
<1> QED
  BY <1>1, <1>2, <1>3, <1>4, <1>5, <1>6, <1>7, <1>8, <1>9, <1>10, <1>11, <1>12, <1>13, <1>14,
       <1>15, <1>16, <1>17, <1>18, <1>19, <1>20, <1>21, <1>22, <1>23, <1>24, <1>25, <1>26,
       <1>27, <1>28, <1>29, <1>30, <1>31, <1>32, <1>33, <1>34, <1>35 DEF Next, Continue

\* A connecting task stays on the current, unfinished generation.
LEMMA HandshakeStep == IInv /\ [Next]_vars => HandshakeInv'
<1> SUFFICES ASSUME IInv, [Next]_vars PROVE HandshakeInv'
  OBVIOUS
<1> USE TaskFacts, BoundsAssumption
<1>1. ASSUME NEW t \in Tasks, Recheck(t) PROVE HandshakeInv'
  BY <1>1 DEF HandshakeInv, ConnInv, LockInv, Connecting, JobInv, NoOrphanProcess, PeersOK,
       IInv, TypeOK, InnerOK, TasksOK, Goto, inner, locks, calls, peers, Gens, Recheck, Done
<1>2. ASSUME NEW t \in Tasks, CheckConnected(t) PROVE HandshakeInv'
  BY <1>2 DEF HandshakeInv, ConnInv, LockInv, Connecting, JobInv, NoOrphanProcess, PeersOK,
       IInv, TypeOK, InnerOK, TasksOK, Goto, inner, locks, calls, peers, Gens, CheckConnected
<1>3. ASSUME NEW t \in Tasks, CheckInitialized(t) PROVE HandshakeInv'
  BY <1>3 DEF HandshakeInv, ConnInv, LockInv, Connecting, JobInv, NoOrphanProcess, PeersOK,
       IInv, TypeOK, InnerOK, TasksOK, Goto, inner, locks, calls, peers, Gens,
       CheckInitialized, Ensured, Done
<1>4. ASSUME NEW t \in Tasks, StoreInitialized(t) PROVE HandshakeInv'
  <2>1. pc[t] = "storeinit" /\ UNCHANGED <<generation, hello>>
    BY <1>4 DEF StoreInitialized, peers
  <2>2. \A u \in Tasks : u # t => job[u] \notin {"init", "initialized"} /\ pc[u] # "storeinit"
    BY <2>1 DEF IInv, LockInv, Connecting
  <2>3. /\ \A u \in Tasks : u # t => job'[u] = job[u] /\ pc'[u] = pc[u]
        /\ job'[t] \in {"request", "none"} /\ pc'[t] \in {"raw", "idle"}
    BY <1>4 DEF StoreInitialized, Ensured, Done, Goto, IInv, TypeOK, TasksOK
  <2> QED BY <2>2, <2>3 DEF HandshakeInv
<1>5. ASSUME NEW t \in Tasks, SpawnLocked(t) PROVE HandshakeInv'
  <2>1. pc[t] = "spawn" /\ job[t] = "ensure" /\ job' = job
    BY <1>5 DEF SpawnLocked, IInv, JobInv
  <2>2. \A u \in Tasks : u # t => job[u] \notin {"init", "initialized"} /\ pc[u] # "storeinit"
    BY <2>1 DEF IInv, LockInv, Connecting
  <2>3. \A u \in Tasks : pc'[u] # "storeinit"
    BY <1>5, <2>1, <2>2 DEF SpawnLocked, IInv, TypeOK, TasksOK
  <2>4. \A u \in Tasks : job'[u] \notin {"init", "initialized"}
    BY <2>1, <2>2
  <2> QED BY <2>3, <2>4 DEF HandshakeInv
<1>6. ASSUME NEW t \in Tasks, SpawnFails(t) PROVE HandshakeInv'
  BY <1>6 DEF HandshakeInv, ConnInv, LockInv, Connecting, JobInv, NoOrphanProcess, PeersOK,
       IInv, TypeOK, InnerOK, TasksOK, Goto, inner, locks, calls, peers, Gens, SpawnFails,
       Killed
<1>7. ASSUME NEW t \in Tasks, Install(t) PROVE HandshakeInv'
  BY <1>7 DEF HandshakeInv, ConnInv, LockInv, Connecting, JobInv, NoOrphanProcess, PeersOK,
       IInv, TypeOK, InnerOK, TasksOK, Goto, inner, locks, calls, peers, Gens, Install
<1>8. ASSUME NEW t \in Tasks, StartRaw(t) PROVE HandshakeInv'
  BY <1>8 DEF HandshakeInv, ConnInv, LockInv, Connecting, JobInv, NoOrphanProcess, PeersOK,
       IInv, TypeOK, InnerOK, TasksOK, Goto, inner, locks, calls, peers, Gens, StartRaw
<1>9. ASSUME NEW t \in Tasks, WriteCheck(t) PROVE HandshakeInv'
  BY <1>9 DEF HandshakeInv, ConnInv, LockInv, Connecting, JobInv, NoOrphanProcess, PeersOK,
       IInv, TypeOK, InnerOK, TasksOK, Goto, inner, locks, calls, peers, Gens, WriteCheck
<1>10. ASSUME NEW t \in Tasks, WriteLoadGeneration(t) PROVE HandshakeInv'
  BY <1>10 DEF HandshakeInv, ConnInv, LockInv, Connecting, JobInv, NoOrphanProcess, PeersOK,
       IInv, TypeOK, InnerOK, TasksOK, Goto, inner, locks, calls, peers, Gens,
       WriteLoadGeneration
<1>11. ASSUME NEW t \in Tasks, WriteFrame(t) PROVE HandshakeInv'
  BY <1>11 DEF HandshakeInv, ConnInv, LockInv, Connecting, JobInv, NoOrphanProcess, PeersOK,
       IInv, TypeOK, InnerOK, TasksOK, Goto, inner, locks, calls, peers, Gens, WriteFrame,
       Deliver
<1>12. ASSUME NEW t \in Tasks, WriteFails(t) PROVE HandshakeInv'
  BY <1>12 DEF HandshakeInv, ConnInv, LockInv, Connecting, JobInv, NoOrphanProcess, PeersOK,
       IInv, TypeOK, InnerOK, TasksOK, Goto, inner, locks, calls, peers, Gens, WriteFails,
       Deliver
<1>13. ASSUME NEW t \in Tasks, Abandon(t) PROVE HandshakeInv'
  BY <1>13 DEF HandshakeInv, ConnInv, LockInv, Connecting, JobInv, NoOrphanProcess, PeersOK,
       IInv, TypeOK, InnerOK, TasksOK, Goto, inner, locks, calls, peers, Gens, Abandon, Forget,
       DropConnectLock, Done
<1>14. ASSUME NEW t \in Tasks, Receive(t) PROVE HandshakeInv'
  <2>1. pc[t] = "wait" /\ UNCHANGED <<generation, initGen, hello>>
    BY <1>14 DEF Receive, inner, peers
  <2>2. \A u \in Tasks \ {t} : job'[u] = job[u] /\ pc'[u] = pc[u] /\ gen'[u] = gen[u]
    BY <1>14 DEF Receive, Done, Goto, IInv, TypeOK, TasksOK
  <2>3. \/ job[t] = "init" /\ gen'[t] = gen[t]
        \/ job'[t] = "none"
    BY <1>14 DEF Receive, Done, Goto, IInv, TypeOK, TasksOK
  <2>4. pc'[t] # "storeinit"
    BY <1>14 DEF Receive, AfterInitialize, Done, Goto, IInv, TypeOK, TasksOK
  <2> QED BY <2>1, <2>2, <2>3, <2>4 DEF IInv, HandshakeInv
<1>15. ASSUME NEW t \in Tasks, Timeout(t) PROVE HandshakeInv'
  BY <1>15 DEF HandshakeInv, ConnInv, LockInv, Connecting, JobInv, NoOrphanProcess, PeersOK,
       IInv, TypeOK, InnerOK, TasksOK, Goto, inner, locks, calls, peers, Gens, Timeout,
       Elapses, Forget, DropConnectLock, Done
<1>16. ASSUME NEW t \in Tasks, ReplyFrame(t) PROVE HandshakeInv'
  BY <1>16 DEF HandshakeInv, ConnInv, LockInv, Connecting, JobInv, NoOrphanProcess, PeersOK,
       IInv, TypeOK, InnerOK, TasksOK, Goto, inner, locks, calls, peers, Gens, ReplyFrame,
       ReplyAllowed, Done
<1>17. ASSUME NEW t \in Tasks, ReplyFails(t) PROVE HandshakeInv'
  BY <1>17 DEF HandshakeInv, ConnInv, LockInv, Connecting, JobInv, NoOrphanProcess, PeersOK,
       IInv, TypeOK, InnerOK, TasksOK, Goto, inner, locks, calls, peers, Gens, ReplyFails,
       ReplyAllowed
<1>18. ASSUME NEW t \in Tasks, ReplyBlame(t) PROVE HandshakeInv'
  BY <1>18 DEF HandshakeInv, ConnInv, LockInv, Connecting, JobInv, NoOrphanProcess, PeersOK,
       IInv, TypeOK, InnerOK, TasksOK, Goto, inner, locks, calls, peers, Gens, ReplyBlame
<1>19. ASSUME NEW t \in Tasks, LoseStale(t) PROVE HandshakeInv'
  BY <1>19 DEF HandshakeInv, ConnInv, LockInv, Connecting, JobInv, NoOrphanProcess, PeersOK,
       IInv, TypeOK, InnerOK, TasksOK, Goto, inner, locks, calls, peers, Gens, LoseStale
<1>20. ASSUME NEW t \in Tasks, LoseConnection(t) PROVE HandshakeInv'
  BY <1>20 DEF HandshakeInv, ConnInv, LockInv, Connecting, JobInv, NoOrphanProcess, PeersOK,
       IInv, TypeOK, InnerOK, TasksOK, Goto, inner, locks, calls, peers, Gens, LoseConnection
<1>21. ASSUME NEW t \in Tasks, Disconnect(t) PROVE HandshakeInv'
  BY <1>21 DEF HandshakeInv, ConnInv, LockInv, Connecting, JobInv, NoOrphanProcess, PeersOK,
       IInv, TypeOK, InnerOK, TasksOK, Goto, inner, locks, calls, peers, Gens, Disconnect
<1>22. ASSUME NEW t \in Tasks, FailPending(t) PROVE HandshakeInv'
  BY <1>22 DEF HandshakeInv, ConnInv, LockInv, Connecting, JobInv, NoOrphanProcess, PeersOK,
       IInv, TypeOK, InnerOK, TasksOK, Goto, inner, locks, calls, peers, Gens, FailPending,
       FailedSlots, Awaited
<1>23. ASSUME NEW t \in Tasks, KillChild(t) PROVE HandshakeInv'
  BY <1>23 DEF HandshakeInv, ConnInv, LockInv, Connecting, JobInv, NoOrphanProcess, PeersOK,
       IInv, TypeOK, InnerOK, TasksOK, Goto, inner, locks, calls, peers, Gens, KillChild,
       Killed, Disconnecting
<1>24. ASSUME NEW t \in Callers, BeginRequest(t) PROVE HandshakeInv'
  BY <1>24 DEF HandshakeInv, ConnInv, LockInv, Connecting, JobInv, NoOrphanProcess, PeersOK,
       IInv, TypeOK, InnerOK, TasksOK, Goto, inner, locks, calls, peers, Gens, BeginRequest
<1>25. ASSUME NEW t \in Admins, BeginConnect(t) PROVE HandshakeInv'
  BY <1>25 DEF HandshakeInv, ConnInv, LockInv, Connecting, JobInv, NoOrphanProcess, PeersOK,
       IInv, TypeOK, InnerOK, TasksOK, Goto, inner, locks, calls, peers, Gens, BeginConnect
<1>26. ASSUME NEW t \in Admins, BeginReconnect(t) PROVE HandshakeInv'
  BY <1>26 DEF HandshakeInv, ConnInv, LockInv, Connecting, JobInv, NoOrphanProcess, PeersOK,
       IInv, TypeOK, InnerOK, TasksOK, Goto, inner, locks, calls, peers, Gens, BeginReconnect
<1>27. ASSUME NEW t \in Admins, BeginClose(t) PROVE HandshakeInv'
  BY <1>27 DEF HandshakeInv, ConnInv, LockInv, Connecting, JobInv, NoOrphanProcess, PeersOK,
       IInv, TypeOK, InnerOK, TasksOK, Goto, inner, locks, calls, peers, Gens, BeginClose
<1>28. ASSUME NEW t \in Repliers, NEW g \in Gens, BeginReply(t, g) PROVE HandshakeInv'
  BY <1>28 DEF HandshakeInv, ConnInv, LockInv, Connecting, JobInv, NoOrphanProcess, PeersOK,
       IInv, TypeOK, InnerOK, TasksOK, Goto, inner, locks, calls, peers, Gens, BeginReply
<1>29. ASSUME NEW t \in Impatient, GiveUp(t) PROVE HandshakeInv'
  BY <1>29 DEF HandshakeInv, ConnInv, LockInv, Connecting, JobInv, NoOrphanProcess, PeersOK,
       IInv, TypeOK, InnerOK, TasksOK, Goto, inner, locks, calls, peers, Gens, GiveUp, Killed,
       DropConnectLock, Done
<1>30. ASSUME ReadResponse PROVE HandshakeInv'
  BY <1>30 DEF HandshakeInv, ConnInv, LockInv, Connecting, JobInv, NoOrphanProcess, PeersOK,
       IInv, TypeOK, InnerOK, TasksOK, Goto, inner, locks, calls, peers, Gens, ReadResponse,
       CompletedBy, Awaited
<1>31. ASSUME ReadServerRequest PROVE HandshakeInv'
  BY <1>31 DEF HandshakeInv, ConnInv, LockInv, Connecting, JobInv, NoOrphanProcess, PeersOK,
       IInv, TypeOK, InnerOK, TasksOK, Goto, inner, locks, calls, peers, Gens, ReadServerRequest
<1>32. ASSUME ReadEof PROVE HandshakeInv'
  BY <1>32 DEF HandshakeInv, ConnInv, LockInv, Connecting, JobInv, NoOrphanProcess, PeersOK,
       IInv, TypeOK, InnerOK, TasksOK, Goto, inner, locks, calls, peers, Gens, ReadEof
<1>33. ASSUME NEW g \in Gens, Answer(g) PROVE HandshakeInv'
  BY <1>33 DEF HandshakeInv, ConnInv, LockInv, Connecting, JobInv, NoOrphanProcess, PeersOK,
       IInv, TypeOK, InnerOK, TasksOK, Goto, inner, locks, calls, peers, Gens, Answer
<1>34. ASSUME NEW g \in Gens, Crash(g) PROVE HandshakeInv'
  BY <1>34 DEF HandshakeInv, ConnInv, LockInv, Connecting, JobInv, NoOrphanProcess, PeersOK,
       IInv, TypeOK, InnerOK, TasksOK, Goto, inner, locks, calls, peers, Gens, Crash
<1>35. ASSUME UNCHANGED vars PROVE HandshakeInv'
  BY <1>35 DEF HandshakeInv, ConnInv, LockInv, Connecting, JobInv, NoOrphanProcess, PeersOK,
       IInv, TypeOK, InnerOK, TasksOK, Goto, inner, locks, calls, peers, Gens, vars, inner,
       locks, calls, peers
<1> QED
  BY <1>1, <1>2, <1>3, <1>4, <1>5, <1>6, <1>7, <1>8, <1>9, <1>10, <1>11, <1>12, <1>13, <1>14,
       <1>15, <1>16, <1>17, <1>18, <1>19, <1>20, <1>21, <1>22, <1>23, <1>24, <1>25, <1>26,
       <1>27, <1>28, <1>29, <1>30, <1>31, <1>32, <1>33, <1>34, <1>35 DEF Next, Continue

\* A generation is only believed initialized once its process is.
LEMMA HandshakeDoneStep == IInv /\ [Next]_vars => HandshakeDone'
<1> SUFFICES ASSUME IInv, [Next]_vars PROVE HandshakeDone'
  OBVIOUS
<1> USE TaskFacts, BoundsAssumption
<1>1. ASSUME NEW t \in Tasks, Recheck(t) PROVE HandshakeDone'
  BY <1>1 DEF HandshakeDone, HandshakeInv, ConnInv, LockInv, Connecting, JobInv, PeersOK, IInv,
       TypeOK, InnerOK, TasksOK, Goto, inner, locks, calls, peers, Gens, Recheck, Done
<1>2. ASSUME NEW t \in Tasks, CheckConnected(t) PROVE HandshakeDone'
  BY <1>2 DEF HandshakeDone, HandshakeInv, ConnInv, LockInv, Connecting, JobInv, PeersOK, IInv,
       TypeOK, InnerOK, TasksOK, Goto, inner, locks, calls, peers, Gens, CheckConnected
<1>3. ASSUME NEW t \in Tasks, CheckInitialized(t) PROVE HandshakeDone'
  BY <1>3 DEF HandshakeDone, HandshakeInv, ConnInv, LockInv, Connecting, JobInv, PeersOK, IInv,
       TypeOK, InnerOK, TasksOK, Goto, inner, locks, calls, peers, Gens, CheckInitialized,
       Ensured, Done
<1>4. ASSUME NEW t \in Tasks, StoreInitialized(t) PROVE HandshakeDone'
  BY <1>4 DEF HandshakeDone, HandshakeInv, ConnInv, LockInv, Connecting, JobInv, PeersOK, IInv,
       TypeOK, InnerOK, TasksOK, Goto, inner, locks, calls, peers, Gens, StoreInitialized,
       Ensured, Done
<1>5. ASSUME NEW t \in Tasks, SpawnLocked(t) PROVE HandshakeDone'
  BY <1>5 DEF HandshakeDone, HandshakeInv, ConnInv, LockInv, Connecting, JobInv, PeersOK, IInv,
       TypeOK, InnerOK, TasksOK, Goto, inner, locks, calls, peers, Gens, SpawnLocked,
       NextGeneration, Killed
<1>6. ASSUME NEW t \in Tasks, SpawnFails(t) PROVE HandshakeDone'
  BY <1>6 DEF HandshakeDone, HandshakeInv, ConnInv, LockInv, Connecting, JobInv, PeersOK, IInv,
       TypeOK, InnerOK, TasksOK, Goto, inner, locks, calls, peers, Gens, SpawnFails, Killed
<1>7. ASSUME NEW t \in Tasks, Install(t) PROVE HandshakeDone'
  BY <1>7 DEF HandshakeDone, HandshakeInv, ConnInv, LockInv, Connecting, JobInv, PeersOK, IInv,
       TypeOK, InnerOK, TasksOK, Goto, inner, locks, calls, peers, Gens, Install
<1>8. ASSUME NEW t \in Tasks, StartRaw(t) PROVE HandshakeDone'
  BY <1>8 DEF HandshakeDone, HandshakeInv, ConnInv, LockInv, Connecting, JobInv, PeersOK, IInv,
       TypeOK, InnerOK, TasksOK, Goto, inner, locks, calls, peers, Gens, StartRaw
<1>9. ASSUME NEW t \in Tasks, WriteCheck(t) PROVE HandshakeDone'
  BY <1>9 DEF HandshakeDone, HandshakeInv, ConnInv, LockInv, Connecting, JobInv, PeersOK, IInv,
       TypeOK, InnerOK, TasksOK, Goto, inner, locks, calls, peers, Gens, WriteCheck
<1>10. ASSUME NEW t \in Tasks, WriteLoadGeneration(t) PROVE HandshakeDone'
  BY <1>10 DEF HandshakeDone, HandshakeInv, ConnInv, LockInv, Connecting, JobInv, PeersOK,
       IInv, TypeOK, InnerOK, TasksOK, Goto, inner, locks, calls, peers, Gens,
       WriteLoadGeneration
<1>11. ASSUME NEW t \in Tasks, WriteFrame(t) PROVE HandshakeDone'
  BY <1>11 DEF HandshakeDone, HandshakeInv, ConnInv, LockInv, Connecting, JobInv, PeersOK,
       IInv, TypeOK, InnerOK, TasksOK, Goto, inner, locks, calls, peers, Gens, WriteFrame,
       Deliver
<1>12. ASSUME NEW t \in Tasks, WriteFails(t) PROVE HandshakeDone'
  BY <1>12 DEF HandshakeDone, HandshakeInv, ConnInv, LockInv, Connecting, JobInv, PeersOK,
       IInv, TypeOK, InnerOK, TasksOK, Goto, inner, locks, calls, peers, Gens, WriteFails,
       Deliver
<1>13. ASSUME NEW t \in Tasks, Abandon(t) PROVE HandshakeDone'
  BY <1>13 DEF HandshakeDone, HandshakeInv, ConnInv, LockInv, Connecting, JobInv, PeersOK,
       IInv, TypeOK, InnerOK, TasksOK, Goto, inner, locks, calls, peers, Gens, Abandon, Forget,
       DropConnectLock, Done
<1>14. ASSUME NEW t \in Tasks, Receive(t) PROVE HandshakeDone'
  BY <1>14 DEF HandshakeDone, HandshakeInv, ConnInv, LockInv, Connecting, JobInv, PeersOK,
       IInv, TypeOK, InnerOK, TasksOK, Goto, inner, locks, calls, peers, Gens, Receive,
       AfterInitialize, DropConnectLock, Done
<1>15. ASSUME NEW t \in Tasks, Timeout(t) PROVE HandshakeDone'
  BY <1>15 DEF HandshakeDone, HandshakeInv, ConnInv, LockInv, Connecting, JobInv, PeersOK,
       IInv, TypeOK, InnerOK, TasksOK, Goto, inner, locks, calls, peers, Gens, Timeout,
       Elapses, Forget, DropConnectLock, Done
<1>16. ASSUME NEW t \in Tasks, ReplyFrame(t) PROVE HandshakeDone'
  BY <1>16 DEF HandshakeDone, HandshakeInv, ConnInv, LockInv, Connecting, JobInv, PeersOK,
       IInv, TypeOK, InnerOK, TasksOK, Goto, inner, locks, calls, peers, Gens, ReplyFrame,
       ReplyAllowed, Done
<1>17. ASSUME NEW t \in Tasks, ReplyFails(t) PROVE HandshakeDone'
  BY <1>17 DEF HandshakeDone, HandshakeInv, ConnInv, LockInv, Connecting, JobInv, PeersOK,
       IInv, TypeOK, InnerOK, TasksOK, Goto, inner, locks, calls, peers, Gens, ReplyFails,
       ReplyAllowed
<1>18. ASSUME NEW t \in Tasks, ReplyBlame(t) PROVE HandshakeDone'
  BY <1>18 DEF HandshakeDone, HandshakeInv, ConnInv, LockInv, Connecting, JobInv, PeersOK,
       IInv, TypeOK, InnerOK, TasksOK, Goto, inner, locks, calls, peers, Gens, ReplyBlame
<1>19. ASSUME NEW t \in Tasks, LoseStale(t) PROVE HandshakeDone'
  BY <1>19 DEF HandshakeDone, HandshakeInv, ConnInv, LockInv, Connecting, JobInv, PeersOK,
       IInv, TypeOK, InnerOK, TasksOK, Goto, inner, locks, calls, peers, Gens, LoseStale
<1>20. ASSUME NEW t \in Tasks, LoseConnection(t) PROVE HandshakeDone'
  BY <1>20 DEF HandshakeDone, HandshakeInv, ConnInv, LockInv, Connecting, JobInv, PeersOK,
       IInv, TypeOK, InnerOK, TasksOK, Goto, inner, locks, calls, peers, Gens, LoseConnection
<1>21. ASSUME NEW t \in Tasks, Disconnect(t) PROVE HandshakeDone'
  BY <1>21 DEF HandshakeDone, HandshakeInv, ConnInv, LockInv, Connecting, JobInv, PeersOK,
       IInv, TypeOK, InnerOK, TasksOK, Goto, inner, locks, calls, peers, Gens, Disconnect
<1>22. ASSUME NEW t \in Tasks, FailPending(t) PROVE HandshakeDone'
  BY <1>22 DEF HandshakeDone, HandshakeInv, ConnInv, LockInv, Connecting, JobInv, PeersOK,
       IInv, TypeOK, InnerOK, TasksOK, Goto, inner, locks, calls, peers, Gens, FailPending,
       FailedSlots, Awaited
<1>23. ASSUME NEW t \in Tasks, KillChild(t) PROVE HandshakeDone'
  BY <1>23 DEF HandshakeDone, HandshakeInv, ConnInv, LockInv, Connecting, JobInv, PeersOK,
       IInv, TypeOK, InnerOK, TasksOK, Goto, inner, locks, calls, peers, Gens, KillChild,
       Killed, Disconnecting
<1>24. ASSUME NEW t \in Callers, BeginRequest(t) PROVE HandshakeDone'
  BY <1>24 DEF HandshakeDone, HandshakeInv, ConnInv, LockInv, Connecting, JobInv, PeersOK,
       IInv, TypeOK, InnerOK, TasksOK, Goto, inner, locks, calls, peers, Gens, BeginRequest
<1>25. ASSUME NEW t \in Admins, BeginConnect(t) PROVE HandshakeDone'
  BY <1>25 DEF HandshakeDone, HandshakeInv, ConnInv, LockInv, Connecting, JobInv, PeersOK,
       IInv, TypeOK, InnerOK, TasksOK, Goto, inner, locks, calls, peers, Gens, BeginConnect
<1>26. ASSUME NEW t \in Admins, BeginReconnect(t) PROVE HandshakeDone'
  BY <1>26 DEF HandshakeDone, HandshakeInv, ConnInv, LockInv, Connecting, JobInv, PeersOK,
       IInv, TypeOK, InnerOK, TasksOK, Goto, inner, locks, calls, peers, Gens, BeginReconnect
<1>27. ASSUME NEW t \in Admins, BeginClose(t) PROVE HandshakeDone'
  BY <1>27 DEF HandshakeDone, HandshakeInv, ConnInv, LockInv, Connecting, JobInv, PeersOK,
       IInv, TypeOK, InnerOK, TasksOK, Goto, inner, locks, calls, peers, Gens, BeginClose
<1>28. ASSUME NEW t \in Repliers, NEW g \in Gens, BeginReply(t, g) PROVE HandshakeDone'
  BY <1>28 DEF HandshakeDone, HandshakeInv, ConnInv, LockInv, Connecting, JobInv, PeersOK,
       IInv, TypeOK, InnerOK, TasksOK, Goto, inner, locks, calls, peers, Gens, BeginReply
<1>29. ASSUME NEW t \in Impatient, GiveUp(t) PROVE HandshakeDone'
  BY <1>29 DEF HandshakeDone, HandshakeInv, ConnInv, LockInv, Connecting, JobInv, PeersOK,
       IInv, TypeOK, InnerOK, TasksOK, Goto, inner, locks, calls, peers, Gens, GiveUp, Killed,
       DropConnectLock, Done
<1>30. ASSUME ReadResponse PROVE HandshakeDone'
  BY <1>30 DEF HandshakeDone, HandshakeInv, ConnInv, LockInv, Connecting, JobInv, PeersOK,
       IInv, TypeOK, InnerOK, TasksOK, Goto, inner, locks, calls, peers, Gens, ReadResponse,
       CompletedBy, Awaited
<1>31. ASSUME ReadServerRequest PROVE HandshakeDone'
  BY <1>31 DEF HandshakeDone, HandshakeInv, ConnInv, LockInv, Connecting, JobInv, PeersOK,
       IInv, TypeOK, InnerOK, TasksOK, Goto, inner, locks, calls, peers, Gens, ReadServerRequest
<1>32. ASSUME ReadEof PROVE HandshakeDone'
  BY <1>32 DEF HandshakeDone, HandshakeInv, ConnInv, LockInv, Connecting, JobInv, PeersOK,
       IInv, TypeOK, InnerOK, TasksOK, Goto, inner, locks, calls, peers, Gens, ReadEof
<1>33. ASSUME NEW g \in Gens, Answer(g) PROVE HandshakeDone'
  BY <1>33 DEF HandshakeDone, HandshakeInv, ConnInv, LockInv, Connecting, JobInv, PeersOK,
       IInv, TypeOK, InnerOK, TasksOK, Goto, inner, locks, calls, peers, Gens, Answer
<1>34. ASSUME NEW g \in Gens, Crash(g) PROVE HandshakeDone'
  BY <1>34 DEF HandshakeDone, HandshakeInv, ConnInv, LockInv, Connecting, JobInv, PeersOK,
       IInv, TypeOK, InnerOK, TasksOK, Goto, inner, locks, calls, peers, Gens, Crash
<1>35. ASSUME UNCHANGED vars PROVE HandshakeDone'
  BY <1>35 DEF HandshakeDone, HandshakeInv, ConnInv, LockInv, Connecting, JobInv, PeersOK,
       IInv, TypeOK, InnerOK, TasksOK, Goto, inner, locks, calls, peers, Gens, vars, inner,
       locks, calls, peers
<1> QED
  BY <1>1, <1>2, <1>3, <1>4, <1>5, <1>6, <1>7, <1>8, <1>9, <1>10, <1>11, <1>12, <1>13, <1>14,
       <1>15, <1>16, <1>17, <1>18, <1>19, <1>20, <1>21, <1>22, <1>23, <1>24, <1>25, <1>26,
       <1>27, <1>28, <1>29, <1>30, <1>31, <1>32, <1>33, <1>34, <1>35 DEF Next, Continue

\* A step of t that leaves it no waiter, and every other waiter as it was.
LEMMA WaiterFrame ==
    ASSUME IInv, NEW t \in Tasks, ~HasWaiter(t)', pc'[t] # "wait", id' \in [Tasks -> Nat],
           id'[t] \in {0, id[t]}, nextId' = nextId, generation' = generation,
           \A u \in Tasks \ {t} : pc'[u] = pc[u] /\ job'[u] = job[u] /\ id'[u] = id[u],
           \A u \in Tasks \ {t} : HasWaiter(u) => slot'[id[u]] = slot[id[u]],
           \A u \in Tasks \ {t} : id[u] \in pending /\ id[u] # 0 => id[u] \in pending',
           received' = received, stdout' = stdout, Waking => Waking'
    PROVE  WaiterInv'
<1>1. \A u \in Tasks : id'[u] < nextId'
  BY DEF IInv, WaiterInv, TypeOK, CallsOK
<1>2. \A u, v \in Tasks : id'[u] = id'[v] /\ id'[u] # 0 => u = v
  BY DEF IInv, WaiterInv
<1>3. \A u \in Tasks : HasWaiter(u)' => u # t /\ HasWaiter(u) /\ id'[u] = id[u]
  BY DEF HasWaiter
<1>4. \A u \in Tasks : HasWaiter(u)' => id'[u] \in Ids
  BY <1>3 DEF IInv, WaiterInv
<1>5. \A u \in Tasks : HasWaiter(u)' /\ slot'[id'[u]] = "none" =>
         slot[id[u]] = "none" /\ id'[u] \in pending'
  BY <1>3, <1>4 DEF IInv, WaiterInv, Ids
<1>6. \A u \in Tasks : HasWaiter(u)' /\ pc'[u] # "wcheck" /\ slot'[id'[u]] = "none" => Waking'
  BY <1>3, <1>5 DEF IInv, WaiterInv
<1>7. \A u \in Tasks : pc'[u] = "wait" /\ slot'[id'[u]] = "none" =>
         generation \in Gens /\ id'[u] \in received[generation] \cup stdout[generation]
  <2>1. SUFFICES ASSUME NEW u \in Tasks, pc'[u] = "wait", slot'[id'[u]] = "none", u # t
                 PROVE  generation \in Gens /\ id[u] \in received[generation] \cup stdout[generation]
    OBVIOUS
  <2>2. HasWaiter(u)  BY <2>1 DEF HasWaiter, IInv, JobInv
  <2>3. pc[u] = "wait" /\ slot[id[u]] = "none"  BY <2>1, <2>2
  <2> QED BY <2>3 DEF IInv, WaiterInv
<1> QED BY <1>1, <1>2, <1>4, <1>5, <1>6, <1>7 DEF WaiterInv

\* No step leaves a waiter behind.
LEMMA WaiterStep == IInv /\ [Next]_vars => WaiterInv'
<1> SUFFICES ASSUME IInv, [Next]_vars PROVE WaiterInv'
  OBVIOUS
<1> USE TaskFacts, BoundsAssumption
<1>1. ASSUME NEW t \in Tasks, Recheck(t) PROVE WaiterInv'
  <2>1. pc[t] = "queued" /\ UNCHANGED <<nextId, generation, received, stdout, connected,
       lifecycle>>
    BY <1>1 DEF Recheck, inner, peers, locks, calls
  <2>2. ~HasWaiter(t)' /\ pc'[t] # "wait" /\ id'[t] \in {0, id[t]}
    BY <1>1, <2>1 DEF HasWaiter, Recheck, Done, IInv, TypeOK, TasksOK, Goto
  <2>3. \A u \in Tasks \ {t} : pc'[u] = pc[u] /\ job'[u] = job[u] /\ id'[u] = id[u]
    BY <1>1 DEF Recheck, Done, IInv, TypeOK, TasksOK, Goto
  <2>4. id' \in [Tasks -> Nat]
    BY <1>1, <2>2, <2>3, TypeStep DEF TypeOK, TasksOK
  <2>5. \A u \in Tasks \ {t} : HasWaiter(u) => slot'[id[u]] = slot[id[u]]
    <3>1. \A u \in Tasks \ {t} : HasWaiter(u) => id[u] \in Ids /\ id[u] # id[t]
      BY DEF IInv, WaiterInv, Ids
    <3> QED BY <1>1, <3>1 DEF Recheck, Done, calls, IInv, TypeOK, CallsOK
  <2>6. \A u \in Tasks \ {t} : id[u] \in pending /\ id[u] # 0 => id[u] \in pending'
    BY <1>1 DEF Recheck, Done, calls, IInv, WaiterInv
  <2>7. Waking => Waking'
    BY <2>1, <2>3 DEF Waking, IInv, TypeOK, InnerOK
  <2> QED BY <2>1, <2>2, <2>3, <2>4, <2>5, <2>6, <2>7, WaiterFrame
<1>2. ASSUME NEW t \in Tasks, CheckConnected(t) PROVE WaiterInv'
  <2>1. pc[t] = "check" /\ UNCHANGED <<nextId, generation, received, stdout, connected,
       lifecycle>>
    BY <1>2 DEF CheckConnected, inner, peers, locks, calls
  <2>2. ~HasWaiter(t)' /\ pc'[t] # "wait" /\ id'[t] \in {0, id[t]}
    BY <1>2, <2>1 DEF HasWaiter, CheckConnected, IInv, TypeOK, TasksOK, Goto
  <2>3. \A u \in Tasks \ {t} : pc'[u] = pc[u] /\ job'[u] = job[u] /\ id'[u] = id[u]
    BY <1>2 DEF CheckConnected, IInv, TypeOK, TasksOK, Goto
  <2>4. id' \in [Tasks -> Nat]
    BY <1>2, <2>2, <2>3, TypeStep DEF TypeOK, TasksOK
  <2>5. \A u \in Tasks \ {t} : HasWaiter(u) => slot'[id[u]] = slot[id[u]]
    <3>1. \A u \in Tasks \ {t} : HasWaiter(u) => id[u] \in Ids /\ id[u] # id[t]
      BY DEF IInv, WaiterInv, Ids
    <3> QED BY <1>2, <3>1 DEF CheckConnected, calls, IInv, TypeOK, CallsOK
  <2>6. \A u \in Tasks \ {t} : id[u] \in pending /\ id[u] # 0 => id[u] \in pending'
    BY <1>2 DEF CheckConnected, calls, IInv, WaiterInv
  <2>7. Waking => Waking'
    BY <2>1, <2>3 DEF Waking, IInv, TypeOK, InnerOK
  <2> QED BY <2>1, <2>2, <2>3, <2>4, <2>5, <2>6, <2>7, WaiterFrame
<1>3. ASSUME NEW t \in Tasks, CheckInitialized(t) PROVE WaiterInv'
  <2>1. pc[t] = "initcheck" /\ UNCHANGED <<nextId, generation, received, stdout, connected,
       lifecycle>>
    BY <1>3 DEF CheckInitialized, inner, peers, locks, calls
  <2>2. ~HasWaiter(t)' /\ pc'[t] # "wait" /\ id'[t] \in {0, id[t]}
    BY <1>3, <2>1 DEF HasWaiter, CheckInitialized, Ensured, Done, IInv, TypeOK, TasksOK, Goto
  <2>3. \A u \in Tasks \ {t} : pc'[u] = pc[u] /\ job'[u] = job[u] /\ id'[u] = id[u]
    BY <1>3 DEF CheckInitialized, Ensured, Done, IInv, TypeOK, TasksOK, Goto
  <2>4. id' \in [Tasks -> Nat]
    BY <1>3, <2>2, <2>3, TypeStep DEF TypeOK, TasksOK
  <2>5. \A u \in Tasks \ {t} : HasWaiter(u) => slot'[id[u]] = slot[id[u]]
    <3>1. \A u \in Tasks \ {t} : HasWaiter(u) => id[u] \in Ids /\ id[u] # id[t]
      BY DEF IInv, WaiterInv, Ids
    <3> QED BY <1>3, <3>1 DEF CheckInitialized, Ensured, Done, calls, IInv, TypeOK, CallsOK
  <2>6. \A u \in Tasks \ {t} : id[u] \in pending /\ id[u] # 0 => id[u] \in pending'
    BY <1>3 DEF CheckInitialized, Ensured, Done, calls, IInv, WaiterInv
  <2>7. Waking => Waking'
    BY <2>1, <2>3 DEF Waking, IInv, TypeOK, InnerOK
  <2> QED BY <2>1, <2>2, <2>3, <2>4, <2>5, <2>6, <2>7, WaiterFrame
<1>4. ASSUME NEW t \in Tasks, StoreInitialized(t) PROVE WaiterInv'
  <2>1. pc[t] = "storeinit" /\ UNCHANGED <<nextId, generation, received, stdout, connected,
       lifecycle>>
    BY <1>4 DEF StoreInitialized, inner, peers, locks, calls
  <2>2. ~HasWaiter(t)' /\ pc'[t] # "wait" /\ id'[t] \in {0, id[t]}
    BY <1>4, <2>1 DEF HasWaiter, StoreInitialized, Ensured, Done, IInv, TypeOK, TasksOK, Goto
  <2>3. \A u \in Tasks \ {t} : pc'[u] = pc[u] /\ job'[u] = job[u] /\ id'[u] = id[u]
    BY <1>4 DEF StoreInitialized, Ensured, Done, IInv, TypeOK, TasksOK, Goto
  <2>4. id' \in [Tasks -> Nat]
    BY <1>4, <2>2, <2>3, TypeStep DEF TypeOK, TasksOK
  <2>5. \A u \in Tasks \ {t} : HasWaiter(u) => slot'[id[u]] = slot[id[u]]
    <3>1. \A u \in Tasks \ {t} : HasWaiter(u) => id[u] \in Ids /\ id[u] # id[t]
      BY DEF IInv, WaiterInv, Ids
    <3> QED BY <1>4, <3>1 DEF StoreInitialized, Ensured, Done, calls, IInv, TypeOK, CallsOK
  <2>6. \A u \in Tasks \ {t} : id[u] \in pending /\ id[u] # 0 => id[u] \in pending'
    BY <1>4 DEF StoreInitialized, Ensured, Done, calls, IInv, WaiterInv
  <2>7. Waking => Waking'
    BY <2>1, <2>3 DEF Waking, IInv, TypeOK, InnerOK
  <2> QED BY <2>1, <2>2, <2>3, <2>4, <2>5, <2>6, <2>7, WaiterFrame
<1>5. ASSUME NEW t \in Tasks, SpawnLocked(t) PROVE WaiterInv'
  <2>1. pc[t] = "spawn" /\ lifecycle = NoTask /\ ~connected
        /\ UNCHANGED <<pending, nextId, slot, id, job>>
    BY <1>5 DEF SpawnLocked, calls, IInv, ConnInv
  <2>2. \A u \in Tasks : HasWaiter(u) /\ slot[id[u]] = "none" => pc[u] = "wcheck"
    BY <2>1 DEF IInv, WaiterInv, Waking
  <2>3. \A u \in Tasks : pc'[u] \in {"wcheck", "wgen", "write", "wait"} => pc'[u] = pc[u]
    BY <1>5 DEF SpawnLocked, IInv, TypeOK, TasksOK
  <2>4. \A u \in Tasks : HasWaiter(u)' => HasWaiter(u) /\ pc'[u] = pc[u]
    BY <2>1, <2>3 DEF HasWaiter
  <2>5. \A u \in Tasks : HasWaiter(u)' /\ slot[id[u]] = "none" => pc'[u] = "wcheck"
    BY <2>2, <2>4
  <2>6. \A u \in Tasks : pc'[u] = "wait" => slot[id[u]] # "none"
    BY <2>2, <2>3 DEF HasWaiter, IInv, JobInv
  <2> QED BY <2>1, <2>4, <2>5, <2>6 DEF IInv, WaiterInv
<1>6. ASSUME NEW t \in Tasks, SpawnFails(t) PROVE WaiterInv'
  BY <1>6 DEF WaiterInv, HasWaiter, Waking, CallsOK, PeersOK, ConnInv, LockInv, JobInv,
       NoOrphanProcess, Gens, Ids, IInv, TypeOK, InnerOK, TasksOK, Goto, inner, locks, calls,
       peers, SpawnFails, Killed
<1>7. ASSUME NEW t \in Tasks, Install(t) PROVE WaiterInv'
  BY <1>7 DEF WaiterInv, HasWaiter, Waking, CallsOK, PeersOK, ConnInv, LockInv, JobInv,
       NoOrphanProcess, Gens, Ids, IInv, TypeOK, InnerOK, TasksOK, Goto, inner, locks, calls,
       peers, Install
<1>8. ASSUME NEW t \in Tasks, StartRaw(t) PROVE WaiterInv'
  BY <1>8 DEF WaiterInv, HasWaiter, Waking, CallsOK, PeersOK, ConnInv, LockInv, JobInv,
       NoOrphanProcess, Gens, Ids, IInv, TypeOK, InnerOK, TasksOK, Goto, inner, locks, calls,
       peers, StartRaw
<1>9. ASSUME NEW t \in Tasks, WriteCheck(t) PROVE WaiterInv'
  BY <1>9 DEF WaiterInv, HasWaiter, Waking, CallsOK, PeersOK, ConnInv, LockInv, JobInv,
       NoOrphanProcess, Gens, Ids, IInv, TypeOK, InnerOK, TasksOK, Goto, inner, locks, calls,
       peers, WriteCheck
<1>10. ASSUME NEW t \in Tasks, WriteLoadGeneration(t) PROVE WaiterInv'
  BY <1>10 DEF WaiterInv, HasWaiter, Waking, CallsOK, PeersOK, ConnInv, LockInv, JobInv,
       NoOrphanProcess, Gens, Ids, IInv, TypeOK, InnerOK, TasksOK, Goto, inner, locks, calls,
       peers, WriteLoadGeneration
<1>11. ASSUME NEW t \in Tasks, WriteFrame(t) PROVE WaiterInv'
  BY <1>11 DEF WaiterInv, HasWaiter, Waking, CallsOK, PeersOK, ConnInv, LockInv, JobInv,
       NoOrphanProcess, Gens, Ids, IInv, TypeOK, InnerOK, TasksOK, Goto, inner, locks, calls,
       peers, WriteFrame, Deliver
<1>12. ASSUME NEW t \in Tasks, WriteFails(t) PROVE WaiterInv'
  <2>1. pc[t] = "write" /\ UNCHANGED <<nextId, slot, id, job, pending, connected, lifecycle,
       generation, stdout>>
    BY <1>12 DEF WriteFails, calls, inner, locks
  <2>2. \A u \in Tasks : pc'[u] \in {"wcheck", "wgen", "write", "wait"} => pc'[u] = pc[u]
    BY <1>12 DEF WriteFails, Goto, IInv, TypeOK, TasksOK
  <2>3. \A u \in Tasks : HasWaiter(u)' => HasWaiter(u) /\ pc'[u] = pc[u]
    BY <2>1, <2>2 DEF HasWaiter
  <2>4. \A g \in Gens : received[g] \subseteq received'[g]
    BY <1>12 DEF WriteFails, Deliver, IInv, TypeOK, PeersOK
  <2>5. Waking => Waking'
    BY <1>12, <2>1 DEF WriteFails, Waking, Goto, IInv, TypeOK, InnerOK, TasksOK
  <2>6. \A u \in Tasks : HasWaiter(u)' /\ pc'[u] # "wcheck" /\ slot[id[u]] = "none" => Waking'
    BY <2>3, <2>5 DEF IInv, WaiterInv
  <2>7. \A u \in Tasks : pc'[u] = "wait" /\ slot[id[u]] = "none" =>
           generation \in Gens /\ id[u] \in received'[generation] \cup stdout[generation]
    BY <2>2, <2>4 DEF IInv, WaiterInv
  <2> QED BY <2>1, <2>3, <2>6, <2>7 DEF IInv, WaiterInv
<1>13. ASSUME NEW t \in Tasks, Abandon(t) PROVE WaiterInv'
  <2>1. pc[t] = "abandon" /\ UNCHANGED <<nextId, generation, received, stdout, connected,
       lifecycle>>
    BY <1>13 DEF Abandon, inner, peers, locks, calls
  <2>2. ~HasWaiter(t)' /\ pc'[t] # "wait" /\ id'[t] \in {0, id[t]}
    BY <1>13, <2>1 DEF HasWaiter, Abandon, Forget, DropConnectLock, Done, IInv, TypeOK,
         TasksOK, Goto
  <2>3. \A u \in Tasks \ {t} : pc'[u] = pc[u] /\ job'[u] = job[u] /\ id'[u] = id[u]
    BY <1>13 DEF Abandon, Forget, DropConnectLock, Done, IInv, TypeOK, TasksOK, Goto
  <2>4. id' \in [Tasks -> Nat]
    BY <1>13, <2>2, <2>3, TypeStep DEF TypeOK, TasksOK
  <2>5. \A u \in Tasks \ {t} : HasWaiter(u) => slot'[id[u]] = slot[id[u]]
    <3>1. \A u \in Tasks \ {t} : HasWaiter(u) => id[u] \in Ids /\ id[u] # id[t]
      BY DEF IInv, WaiterInv, Ids
    <3> QED BY <1>13, <3>1 DEF Abandon, Forget, DropConnectLock, Done, calls, IInv, TypeOK,
         CallsOK
  <2>6. \A u \in Tasks \ {t} : id[u] \in pending /\ id[u] # 0 => id[u] \in pending'
    BY <1>13 DEF Abandon, Forget, DropConnectLock, Done, calls, IInv, WaiterInv
  <2>7. Waking => Waking'
    BY <2>1, <2>3 DEF Waking, IInv, TypeOK, InnerOK
  <2> QED BY <2>1, <2>2, <2>3, <2>4, <2>5, <2>6, <2>7, WaiterFrame
<1>14. ASSUME NEW t \in Tasks, Receive(t) PROVE WaiterInv'
  <2>1. pc[t] = "wait" /\ UNCHANGED <<nextId, generation, received, stdout, connected,
       lifecycle>>
    BY <1>14 DEF Receive, inner, peers, locks, calls
  <2>2. ~HasWaiter(t)' /\ pc'[t] # "wait" /\ id'[t] \in {0, id[t]}
    BY <1>14, <2>1 DEF HasWaiter, Receive, AfterInitialize, DropConnectLock, Done, IInv,
         TypeOK, TasksOK, Goto
  <2>3. \A u \in Tasks \ {t} : pc'[u] = pc[u] /\ job'[u] = job[u] /\ id'[u] = id[u]
    BY <1>14 DEF Receive, AfterInitialize, DropConnectLock, Done, IInv, TypeOK, TasksOK, Goto
  <2>4. id' \in [Tasks -> Nat]
    BY <1>14, <2>2, <2>3, TypeStep DEF TypeOK, TasksOK
  <2>5. \A u \in Tasks \ {t} : HasWaiter(u) => slot'[id[u]] = slot[id[u]]
    <3>1. \A u \in Tasks \ {t} : HasWaiter(u) => id[u] \in Ids /\ id[u] # id[t]
      BY DEF IInv, WaiterInv, Ids
    <3> QED BY <1>14, <3>1 DEF Receive, AfterInitialize, DropConnectLock, Done, calls, IInv,
         TypeOK, CallsOK
  <2>6. \A u \in Tasks \ {t} : id[u] \in pending /\ id[u] # 0 => id[u] \in pending'
    BY <1>14 DEF Receive, AfterInitialize, DropConnectLock, Done, calls, IInv, WaiterInv
  <2>7. Waking => Waking'
    BY <2>1, <2>3 DEF Waking, IInv, TypeOK, InnerOK
  <2> QED BY <2>1, <2>2, <2>3, <2>4, <2>5, <2>6, <2>7, WaiterFrame
<1>15. ASSUME NEW t \in Tasks, Timeout(t) PROVE WaiterInv'
  BY <1>15 DEF WaiterInv, HasWaiter, Waking, CallsOK, PeersOK, ConnInv, LockInv, JobInv,
       NoOrphanProcess, Gens, Ids, IInv, TypeOK, InnerOK, TasksOK, Goto, inner, locks, calls,
       peers, Timeout, Elapses, Forget, DropConnectLock, Done
<1>16. ASSUME NEW t \in Tasks, ReplyFrame(t) PROVE WaiterInv'
  BY <1>16 DEF WaiterInv, HasWaiter, Waking, CallsOK, PeersOK, ConnInv, LockInv, JobInv,
       NoOrphanProcess, Gens, Ids, IInv, TypeOK, InnerOK, TasksOK, Goto, inner, locks, calls,
       peers, ReplyFrame, ReplyAllowed, Done
<1>17. ASSUME NEW t \in Tasks, ReplyFails(t) PROVE WaiterInv'
  BY <1>17 DEF WaiterInv, HasWaiter, Waking, CallsOK, PeersOK, ConnInv, LockInv, JobInv,
       NoOrphanProcess, Gens, Ids, IInv, TypeOK, InnerOK, TasksOK, Goto, inner, locks, calls,
       peers, ReplyFails, ReplyAllowed
<1>18. ASSUME NEW t \in Tasks, ReplyBlame(t) PROVE WaiterInv'
  BY <1>18 DEF WaiterInv, HasWaiter, Waking, CallsOK, PeersOK, ConnInv, LockInv, JobInv,
       NoOrphanProcess, Gens, Ids, IInv, TypeOK, InnerOK, TasksOK, Goto, inner, locks, calls,
       peers, ReplyBlame
<1>19. ASSUME NEW t \in Tasks, LoseStale(t) PROVE WaiterInv'
  BY <1>19 DEF WaiterInv, HasWaiter, Waking, CallsOK, PeersOK, ConnInv, LockInv, JobInv,
       NoOrphanProcess, Gens, Ids, IInv, TypeOK, InnerOK, TasksOK, Goto, inner, locks, calls,
       peers, LoseStale
<1>20. ASSUME NEW t \in Tasks, LoseConnection(t) PROVE WaiterInv'
  BY <1>20 DEF WaiterInv, HasWaiter, Waking, CallsOK, PeersOK, ConnInv, LockInv, JobInv,
       NoOrphanProcess, Gens, Ids, IInv, TypeOK, InnerOK, TasksOK, Goto, inner, locks, calls,
       peers, LoseConnection
<1>21. ASSUME NEW t \in Tasks, Disconnect(t) PROVE WaiterInv'
  BY <1>21 DEF WaiterInv, HasWaiter, Waking, CallsOK, PeersOK, ConnInv, LockInv, JobInv,
       NoOrphanProcess, Gens, Ids, IInv, TypeOK, InnerOK, TasksOK, Goto, inner, locks, calls,
       peers, Disconnect
<1>22. ASSUME NEW t \in Tasks, FailPending(t) PROVE WaiterInv'
  <2>1. pending' = {} /\ UNCHANGED <<nextId, id, job, connected, lifecycle, generation,
       received, stdout>>
    BY <1>22 DEF FailPending, inner, locks, peers
  <2>2. slot' = [i \in Ids |-> IF i \in pending \cap Awaited THEN "lost" ELSE slot[i]]
    BY <1>22 DEF FailPending, FailedSlots
  <2>3. \A u \in Tasks : pc'[u] \in {"wcheck", "wgen", "write", "wait"} => pc'[u] = pc[u]
    BY <1>22 DEF FailPending, Goto, IInv, TypeOK, TasksOK
  <2>4. \A u \in Tasks : HasWaiter(u)' => HasWaiter(u) /\ slot'[id[u]] # "none"
    BY <2>1, <2>2, <2>3 DEF HasWaiter, Awaited, IInv, WaiterInv
  <2>5. \A u \in Tasks : pc'[u] = "wait" => slot'[id[u]] # "none"
    BY <2>1, <2>3, <2>4 DEF HasWaiter, IInv, JobInv
  <2> QED BY <2>1, <2>4, <2>5 DEF IInv, WaiterInv
<1>23. ASSUME NEW t \in Tasks, KillChild(t) PROVE WaiterInv'
  BY <1>23 DEF WaiterInv, HasWaiter, Waking, CallsOK, PeersOK, ConnInv, LockInv, JobInv,
       NoOrphanProcess, Gens, Ids, IInv, TypeOK, InnerOK, TasksOK, Goto, inner, locks, calls,
       peers, KillChild, Killed, Disconnecting
<1>24. ASSUME NEW t \in Callers, BeginRequest(t) PROVE WaiterInv'
  BY <1>24 DEF WaiterInv, HasWaiter, Waking, CallsOK, PeersOK, ConnInv, LockInv, JobInv,
       NoOrphanProcess, Gens, Ids, IInv, TypeOK, InnerOK, TasksOK, Goto, inner, locks, calls,
       peers, BeginRequest
<1>25. ASSUME NEW t \in Admins, BeginConnect(t) PROVE WaiterInv'
  BY <1>25 DEF WaiterInv, HasWaiter, Waking, CallsOK, PeersOK, ConnInv, LockInv, JobInv,
       NoOrphanProcess, Gens, Ids, IInv, TypeOK, InnerOK, TasksOK, Goto, inner, locks, calls,
       peers, BeginConnect
<1>26. ASSUME NEW t \in Admins, BeginReconnect(t) PROVE WaiterInv'
  BY <1>26 DEF WaiterInv, HasWaiter, Waking, CallsOK, PeersOK, ConnInv, LockInv, JobInv,
       NoOrphanProcess, Gens, Ids, IInv, TypeOK, InnerOK, TasksOK, Goto, inner, locks, calls,
       peers, BeginReconnect
<1>27. ASSUME NEW t \in Admins, BeginClose(t) PROVE WaiterInv'
  BY <1>27 DEF WaiterInv, HasWaiter, Waking, CallsOK, PeersOK, ConnInv, LockInv, JobInv,
       NoOrphanProcess, Gens, Ids, IInv, TypeOK, InnerOK, TasksOK, Goto, inner, locks, calls,
       peers, BeginClose
<1>28. ASSUME NEW t \in Repliers, NEW g \in Gens, BeginReply(t, g) PROVE WaiterInv'
  BY <1>28 DEF WaiterInv, HasWaiter, Waking, CallsOK, PeersOK, ConnInv, LockInv, JobInv,
       NoOrphanProcess, Gens, Ids, IInv, TypeOK, InnerOK, TasksOK, Goto, inner, locks, calls,
       peers, BeginReply
<1>29. ASSUME NEW t \in Impatient, GiveUp(t) PROVE WaiterInv'
  <2>1. t \in Tasks /\ UNCHANGED <<pending, nextId, generation, received, stdout, connected>>
    BY <1>29 DEF GiveUp
  <2>2. pc[t] # "fail" /\ ~HasWaiter(t)' /\ pc'[t] # "wait" /\ id'[t] = 0
    BY <1>29, <2>1 DEF GiveUp, Done, Goto, HasWaiter, IInv, TypeOK, TasksOK
  <2>3. \A u \in Tasks \ {t} : pc'[u] = pc[u] /\ job'[u] = job[u] /\ id'[u] = id[u]
    BY <1>29 DEF GiveUp, Done, Goto, IInv, TypeOK, TasksOK
  <2>4. id' \in [Tasks -> Nat]
    BY <2>2, <2>3, TypeStep DEF TypeOK, TasksOK
  <2>5. \A u \in Tasks \ {t} : HasWaiter(u) => slot'[id[u]] = slot[id[u]]
    <3>1. \A u \in Tasks \ {t} : HasWaiter(u) => id[u] \in Ids /\ id[u] # id[t]
      BY <2>1 DEF IInv, WaiterInv, Ids
    <3> QED BY <1>29, <3>1 DEF GiveUp, IInv, TypeOK, CallsOK
  <2>6. Waking => Waking'
    <3>1. lifecycle # NoTask /\ pc[lifecycle] = "fail" => lifecycle' = lifecycle /\ lifecycle \in Tasks \ {t}
      BY <1>29, <2>2 DEF GiveUp, IInv, TypeOK, InnerOK
    <3> QED BY <2>1, <2>3, <3>1 DEF Waking
  <2> QED BY <2>1, <2>2, <2>3, <2>4, <2>5, <2>6, WaiterFrame
<1>30. ASSUME ReadResponse PROVE WaiterInv'
  <2>1. PICK i \in stdout[gen[Reader]] :
           /\ stdout' = [stdout EXCEPT ![gen[Reader]] = @ \ {i}]
           /\ pending' = pending \ {i}
           /\ slot' = [k \in Ids |-> IF k \in (pending \cap {i}) \cap Awaited THEN "answer"
                                     ELSE slot[k]]
    BY <1>30 DEF ReadResponse, CompletedBy
  <2>2. UNCHANGED <<pc, id, job, nextId, connected, lifecycle, generation, received>>
    BY <1>30 DEF ReadResponse, inner, locks
  <2>3. \A u \in Tasks : HasWaiter(u) /\ slot'[id[u]] = "none" =>
           id[u] # i /\ id[u] \in pending /\ slot[id[u]] = "none"
    BY <2>1 DEF Awaited, IInv, WaiterInv
  <2>4. \A u \in Tasks : HasWaiter(u) /\ slot'[id[u]] = "none" => id[u] \in pending'
    BY <2>1, <2>3
  <2>5. \A u \in Tasks : pc[u] = "wait" /\ slot'[id[u]] = "none" =>
           /\ generation \in Gens
           /\ id[u] \in received[generation] \cup stdout'[generation]
    <3>1. \A u \in Tasks : pc[u] = "wait" => HasWaiter(u)  BY DEF HasWaiter, IInv, JobInv
    <3> QED BY <2>1, <2>3, <3>1 DEF IInv, WaiterInv, TypeOK, PeersOK
  <2>6. \A u \in Tasks : HasWaiter(u)' <=> HasWaiter(u)  BY <2>2 DEF HasWaiter
  <2>7. Waking' <=> Waking  BY <2>2 DEF Waking
  <2> QED BY <2>2, <2>3, <2>4, <2>5, <2>6, <2>7 DEF IInv, WaiterInv
<1>31. ASSUME ReadServerRequest PROVE WaiterInv'
  BY <1>31 DEF WaiterInv, HasWaiter, Waking, CallsOK, PeersOK, ConnInv, LockInv, JobInv,
       NoOrphanProcess, Gens, Ids, IInv, TypeOK, InnerOK, TasksOK, Goto, inner, locks, calls,
       peers, ReadServerRequest
<1>32. ASSUME ReadEof PROVE WaiterInv'
  BY <1>32 DEF WaiterInv, HasWaiter, Waking, CallsOK, PeersOK, ConnInv, LockInv, JobInv,
       NoOrphanProcess, Gens, Ids, IInv, TypeOK, InnerOK, TasksOK, Goto, inner, locks, calls,
       peers, ReadEof
<1>33. ASSUME NEW g \in Gens, Answer(g) PROVE WaiterInv'
  BY <1>33 DEF WaiterInv, HasWaiter, Waking, CallsOK, PeersOK, ConnInv, LockInv, JobInv,
       NoOrphanProcess, Gens, Ids, IInv, TypeOK, InnerOK, TasksOK, Goto, inner, locks, calls,
       peers, Answer
<1>34. ASSUME NEW g \in Gens, Crash(g) PROVE WaiterInv'
  BY <1>34 DEF WaiterInv, HasWaiter, Waking, CallsOK, PeersOK, ConnInv, LockInv, JobInv,
       NoOrphanProcess, Gens, Ids, IInv, TypeOK, InnerOK, TasksOK, Goto, inner, locks, calls,
       peers, Crash
<1>35. ASSUME UNCHANGED vars PROVE WaiterInv'
  BY <1>35 DEF WaiterInv, HasWaiter, Waking, CallsOK, PeersOK, ConnInv, LockInv, JobInv,
       NoOrphanProcess, Gens, Ids, IInv, TypeOK, InnerOK, TasksOK, Goto, inner, locks, calls,
       peers, vars, inner, locks, calls, peers
<1> QED
  BY <1>1, <1>2, <1>3, <1>4, <1>5, <1>6, <1>7, <1>8, <1>9, <1>10, <1>11, <1>12, <1>13, <1>14,
       <1>15, <1>16, <1>17, <1>18, <1>19, <1>20, <1>21, <1>22, <1>23, <1>24, <1>25, <1>26,
       <1>27, <1>28, <1>29, <1>30, <1>31, <1>32, <1>33, <1>34, <1>35 DEF Next, Continue

\* Answers travel back unchanged.
LEMMA AnswerStep == IInv /\ [Next]_vars => AnswerInv'
<1> SUFFICES ASSUME IInv, [Next]_vars PROVE AnswerInv'
  OBVIOUS
<1> USE TaskFacts, BoundsAssumption
<1>1. ASSUME NEW t \in Tasks, Recheck(t) PROVE AnswerInv'
  BY <1>1 DEF AnswerInv, WaiterInv, HasWaiter, CallsOK, PeersOK, IInv, TypeOK, InnerOK,
       TasksOK, Goto, inner, locks, calls, peers, Gens, Ids, Recheck, Done
<1>2. ASSUME NEW t \in Tasks, CheckConnected(t) PROVE AnswerInv'
  BY <1>2 DEF AnswerInv, WaiterInv, HasWaiter, CallsOK, PeersOK, IInv, TypeOK, InnerOK,
       TasksOK, Goto, inner, locks, calls, peers, Gens, Ids, CheckConnected
<1>3. ASSUME NEW t \in Tasks, CheckInitialized(t) PROVE AnswerInv'
  BY <1>3 DEF AnswerInv, WaiterInv, HasWaiter, CallsOK, PeersOK, IInv, TypeOK, InnerOK,
       TasksOK, Goto, inner, locks, calls, peers, Gens, Ids, CheckInitialized, Ensured, Done
<1>4. ASSUME NEW t \in Tasks, StoreInitialized(t) PROVE AnswerInv'
  BY <1>4 DEF AnswerInv, WaiterInv, HasWaiter, CallsOK, PeersOK, IInv, TypeOK, InnerOK,
       TasksOK, Goto, inner, locks, calls, peers, Gens, Ids, StoreInitialized, Ensured, Done
<1>5. ASSUME NEW t \in Tasks, SpawnLocked(t) PROVE AnswerInv'
  BY <1>5 DEF AnswerInv, WaiterInv, HasWaiter, CallsOK, PeersOK, IInv, TypeOK, InnerOK,
       TasksOK, Goto, inner, locks, calls, peers, Gens, Ids, SpawnLocked, NextGeneration, Killed
<1>6. ASSUME NEW t \in Tasks, SpawnFails(t) PROVE AnswerInv'
  BY <1>6 DEF AnswerInv, WaiterInv, HasWaiter, CallsOK, PeersOK, IInv, TypeOK, InnerOK,
       TasksOK, Goto, inner, locks, calls, peers, Gens, Ids, SpawnFails, Killed
<1>7. ASSUME NEW t \in Tasks, Install(t) PROVE AnswerInv'
  BY <1>7 DEF AnswerInv, WaiterInv, HasWaiter, CallsOK, PeersOK, IInv, TypeOK, InnerOK,
       TasksOK, Goto, inner, locks, calls, peers, Gens, Ids, Install
<1>8. ASSUME NEW t \in Tasks, StartRaw(t) PROVE AnswerInv'
  BY <1>8 DEF AnswerInv, WaiterInv, HasWaiter, CallsOK, PeersOK, IInv, TypeOK, InnerOK,
       TasksOK, Goto, inner, locks, calls, peers, Gens, Ids, StartRaw
<1>9. ASSUME NEW t \in Tasks, WriteCheck(t) PROVE AnswerInv'
  BY <1>9 DEF AnswerInv, WaiterInv, HasWaiter, CallsOK, PeersOK, IInv, TypeOK, InnerOK,
       TasksOK, Goto, inner, locks, calls, peers, Gens, Ids, WriteCheck
<1>10. ASSUME NEW t \in Tasks, WriteLoadGeneration(t) PROVE AnswerInv'
  BY <1>10 DEF AnswerInv, WaiterInv, HasWaiter, CallsOK, PeersOK, IInv, TypeOK, InnerOK,
       TasksOK, Goto, inner, locks, calls, peers, Gens, Ids, WriteLoadGeneration
<1>11. ASSUME NEW t \in Tasks, WriteFrame(t) PROVE AnswerInv'
  BY <1>11 DEF AnswerInv, WaiterInv, HasWaiter, CallsOK, PeersOK, IInv, TypeOK, InnerOK,
       TasksOK, Goto, inner, locks, calls, peers, Gens, Ids, WriteFrame, Deliver
<1>12. ASSUME NEW t \in Tasks, WriteFails(t) PROVE AnswerInv'
  <2>1. HasWaiter(t) \/ job[t] = "initialized"
    BY <1>12 DEF HasWaiter, WriteFails
  <2>2. \A g \in Gens : \A i \in received'[g] : i \in received[g] \/ i = id[t]
    BY <1>12 DEF WriteFails, Deliver, IInv, TypeOK, PeersOK
  <2>3. \A g \in Gens : \A i \in received'[g] : i < nextId
    BY <2>2 DEF IInv, AnswerInv, WaiterInv
  <2>4. UNCHANGED <<answered, nextId, stdout, slot>>
    BY <1>12 DEF WriteFails, calls
  <2> QED BY <2>3, <2>4 DEF IInv, AnswerInv
<1>13. ASSUME NEW t \in Tasks, Abandon(t) PROVE AnswerInv'
  BY <1>13 DEF AnswerInv, WaiterInv, HasWaiter, CallsOK, PeersOK, IInv, TypeOK, InnerOK,
       TasksOK, Goto, inner, locks, calls, peers, Gens, Ids, Abandon, Forget, DropConnectLock,
       Done
<1>14. ASSUME NEW t \in Tasks, Receive(t) PROVE AnswerInv'
  BY <1>14 DEF AnswerInv, WaiterInv, HasWaiter, CallsOK, PeersOK, IInv, TypeOK, InnerOK,
       TasksOK, Goto, inner, locks, calls, peers, Gens, Ids, Receive, AfterInitialize,
       DropConnectLock, Done
<1>15. ASSUME NEW t \in Tasks, Timeout(t) PROVE AnswerInv'
  BY <1>15 DEF AnswerInv, WaiterInv, HasWaiter, CallsOK, PeersOK, IInv, TypeOK, InnerOK,
       TasksOK, Goto, inner, locks, calls, peers, Gens, Ids, Timeout, Elapses, Forget,
       DropConnectLock, Done
<1>16. ASSUME NEW t \in Tasks, ReplyFrame(t) PROVE AnswerInv'
  BY <1>16 DEF AnswerInv, WaiterInv, HasWaiter, CallsOK, PeersOK, IInv, TypeOK, InnerOK,
       TasksOK, Goto, inner, locks, calls, peers, Gens, Ids, ReplyFrame, ReplyAllowed, Done
<1>17. ASSUME NEW t \in Tasks, ReplyFails(t) PROVE AnswerInv'
  BY <1>17 DEF AnswerInv, WaiterInv, HasWaiter, CallsOK, PeersOK, IInv, TypeOK, InnerOK,
       TasksOK, Goto, inner, locks, calls, peers, Gens, Ids, ReplyFails, ReplyAllowed
<1>18. ASSUME NEW t \in Tasks, ReplyBlame(t) PROVE AnswerInv'
  BY <1>18 DEF AnswerInv, WaiterInv, HasWaiter, CallsOK, PeersOK, IInv, TypeOK, InnerOK,
       TasksOK, Goto, inner, locks, calls, peers, Gens, Ids, ReplyBlame
<1>19. ASSUME NEW t \in Tasks, LoseStale(t) PROVE AnswerInv'
  BY <1>19 DEF AnswerInv, WaiterInv, HasWaiter, CallsOK, PeersOK, IInv, TypeOK, InnerOK,
       TasksOK, Goto, inner, locks, calls, peers, Gens, Ids, LoseStale
<1>20. ASSUME NEW t \in Tasks, LoseConnection(t) PROVE AnswerInv'
  BY <1>20 DEF AnswerInv, WaiterInv, HasWaiter, CallsOK, PeersOK, IInv, TypeOK, InnerOK,
       TasksOK, Goto, inner, locks, calls, peers, Gens, Ids, LoseConnection
<1>21. ASSUME NEW t \in Tasks, Disconnect(t) PROVE AnswerInv'
  BY <1>21 DEF AnswerInv, WaiterInv, HasWaiter, CallsOK, PeersOK, IInv, TypeOK, InnerOK,
       TasksOK, Goto, inner, locks, calls, peers, Gens, Ids, Disconnect
<1>22. ASSUME NEW t \in Tasks, FailPending(t) PROVE AnswerInv'
  BY <1>22 DEF AnswerInv, WaiterInv, HasWaiter, CallsOK, PeersOK, IInv, TypeOK, InnerOK,
       TasksOK, Goto, inner, locks, calls, peers, Gens, Ids, FailPending, FailedSlots, Awaited
<1>23. ASSUME NEW t \in Tasks, KillChild(t) PROVE AnswerInv'
  BY <1>23 DEF AnswerInv, WaiterInv, HasWaiter, CallsOK, PeersOK, IInv, TypeOK, InnerOK,
       TasksOK, Goto, inner, locks, calls, peers, Gens, Ids, KillChild, Killed, Disconnecting
<1>24. ASSUME NEW t \in Callers, BeginRequest(t) PROVE AnswerInv'
  BY <1>24 DEF AnswerInv, WaiterInv, HasWaiter, CallsOK, PeersOK, IInv, TypeOK, InnerOK,
       TasksOK, Goto, inner, locks, calls, peers, Gens, Ids, BeginRequest
<1>25. ASSUME NEW t \in Admins, BeginConnect(t) PROVE AnswerInv'
  BY <1>25 DEF AnswerInv, WaiterInv, HasWaiter, CallsOK, PeersOK, IInv, TypeOK, InnerOK,
       TasksOK, Goto, inner, locks, calls, peers, Gens, Ids, BeginConnect
<1>26. ASSUME NEW t \in Admins, BeginReconnect(t) PROVE AnswerInv'
  BY <1>26 DEF AnswerInv, WaiterInv, HasWaiter, CallsOK, PeersOK, IInv, TypeOK, InnerOK,
       TasksOK, Goto, inner, locks, calls, peers, Gens, Ids, BeginReconnect
<1>27. ASSUME NEW t \in Admins, BeginClose(t) PROVE AnswerInv'
  BY <1>27 DEF AnswerInv, WaiterInv, HasWaiter, CallsOK, PeersOK, IInv, TypeOK, InnerOK,
       TasksOK, Goto, inner, locks, calls, peers, Gens, Ids, BeginClose
<1>28. ASSUME NEW t \in Repliers, NEW g \in Gens, BeginReply(t, g) PROVE AnswerInv'
  BY <1>28 DEF AnswerInv, WaiterInv, HasWaiter, CallsOK, PeersOK, IInv, TypeOK, InnerOK,
       TasksOK, Goto, inner, locks, calls, peers, Gens, Ids, BeginReply
<1>29. ASSUME NEW t \in Impatient, GiveUp(t) PROVE AnswerInv'
  BY <1>29 DEF AnswerInv, WaiterInv, HasWaiter, CallsOK, PeersOK, IInv, TypeOK, InnerOK,
       TasksOK, Goto, inner, locks, calls, peers, Gens, Ids, GiveUp, Killed, DropConnectLock,
       Done
<1>30. ASSUME ReadResponse PROVE AnswerInv'
  <2>1. PICK i \in stdout[gen[Reader]] :
           /\ stdout' = [stdout EXCEPT ![gen[Reader]] = @ \ {i}]
           /\ slot' = [k \in Ids |-> IF k \in (pending \cap {i}) \cap Awaited THEN "answer"
                                     ELSE slot[k]]
    BY <1>30 DEF ReadResponse, CompletedBy
  <2>2. UNCHANGED <<answered, received, nextId>> /\ gen[Reader] \in Gens
    BY <1>30 DEF ReadResponse, IInv, ConnInv
  <2>3. i \in answered  BY <2>2 DEF IInv, AnswerInv
  <2>4. \A g \in Gens : stdout'[g] \subseteq stdout[g]
    BY <2>1, <2>2 DEF IInv, TypeOK, PeersOK
  <2>5. \A k \in Ids : slot'[k] = "answer" => k \in answered
    BY <2>1, <2>3 DEF IInv, AnswerInv
  <2> QED BY <2>2, <2>4, <2>5 DEF IInv, AnswerInv
<1>31. ASSUME ReadServerRequest PROVE AnswerInv'
  BY <1>31 DEF AnswerInv, WaiterInv, HasWaiter, CallsOK, PeersOK, IInv, TypeOK, InnerOK,
       TasksOK, Goto, inner, locks, calls, peers, Gens, Ids, ReadServerRequest
<1>32. ASSUME ReadEof PROVE AnswerInv'
  BY <1>32 DEF AnswerInv, WaiterInv, HasWaiter, CallsOK, PeersOK, IInv, TypeOK, InnerOK,
       TasksOK, Goto, inner, locks, calls, peers, Gens, Ids, ReadEof
<1>33. ASSUME NEW g \in Gens, Answer(g) PROVE AnswerInv'
  BY <1>33 DEF AnswerInv, WaiterInv, HasWaiter, CallsOK, PeersOK, IInv, TypeOK, InnerOK,
       TasksOK, Goto, inner, locks, calls, peers, Gens, Ids, Answer
<1>34. ASSUME NEW g \in Gens, Crash(g) PROVE AnswerInv'
  BY <1>34 DEF AnswerInv, WaiterInv, HasWaiter, CallsOK, PeersOK, IInv, TypeOK, InnerOK,
       TasksOK, Goto, inner, locks, calls, peers, Gens, Ids, Crash
<1>35. ASSUME UNCHANGED vars PROVE AnswerInv'
  BY <1>35 DEF AnswerInv, WaiterInv, HasWaiter, CallsOK, PeersOK, IInv, TypeOK, InnerOK,
       TasksOK, Goto, inner, locks, calls, peers, Gens, Ids, vars, inner, locks, calls, peers
<1> QED
  BY <1>1, <1>2, <1>3, <1>4, <1>5, <1>6, <1>7, <1>8, <1>9, <1>10, <1>11, <1>12, <1>13, <1>14,
       <1>15, <1>16, <1>17, <1>18, <1>19, <1>20, <1>21, <1>22, <1>23, <1>24, <1>25, <1>26,
       <1>27, <1>28, <1>29, <1>30, <1>31, <1>32, <1>33, <1>34, <1>35 DEF Next, Continue

\* The client starts with nothing connected and nobody inside.
LEMMA InitInv == Init => IInv
<1> SUFFICES ASSUME Init PROVE IInv
  OBVIOUS
<1> USE TaskFacts, BoundsAssumption
<1>1. TypeOK
  <2>1. InnerOK
    <3>1. closed \in BOOLEAN /\ connected \in BOOLEAN  BY Zenon DEF Init
    <3> QED BY <3>1 DEF Init, InnerOK
  <2>2. CallsOK  BY DEF Init, CallsOK, Ids
  <2>3. TasksOK
    <3>1. "idle" \in PCs /\ "none" \in Jobs  BY DEF PCs, Jobs
    <3> QED BY <3>1 DEF Init, TasksOK
  <2>4. PeersOK  BY DEF Init, PeersOK, Gens
  <2> QED BY <2>1, <2>2, <2>3, <2>4 DEF TypeOK
<1>2. LockInv  BY DEF Init, LockInv, Connecting
<1>3. JobInv  BY DEF Init, JobInv
<1>4. ConnInv /\ HandshakeInv /\ HandshakeDone
  BY DEF Init, ConnInv, HandshakeInv, HandshakeDone
<1>5. NoOrphanProcess /\ RepliesReachTheirProcess
  BY DEF Init, NoOrphanProcess, RepliesReachTheirProcess
<1>6. WaiterInv  BY DEF Init, WaiterInv, HasWaiter
<1>7. AnswerInv  BY DEF Init, AnswerInv
<1> QED BY <1>1, <1>2, <1>3, <1>4, <1>5, <1>6, <1>7 DEF IInv

\* IInv is inductive.
THEOREM Inductive == Spec => []IInv
<1>1. IInv /\ [Next]_vars => IInv'
  BY TypeStep, LockStep, JobStep, ConnStep, OrphanStep, ReplyStep, HandshakeStep,
     HandshakeDoneStep, WaiterStep, AnswerStep DEF IInv
<1> QED BY InitInv, <1>1, PTL DEF Spec

\* Every variable of the client keeps its type.
THEOREM TypeCorrect == Spec => []TypeOK
<1>1. IInv => TypeOK  BY DEF IInv
<1> QED BY Inductive, <1>1, PTL

\* Whatever the number of callers, closes, reconnects and crashes, a request
\* that waits can still be completed, failed or answered: request_raw,
\* lose_connection, disconnect and spawn_locked never strand a oneshot.
THEOREM WaitersReachable == Spec => []WaiterIsReachable
<1>1. IInv => WaiterIsReachable
  <2> SUFFICES ASSUME IInv, NEW t \in Callers \cup Admins, pc[t] = "wait", slot[id[t]] = "none"
               PROVE  /\ id[t] \in pending
                      /\ id[t] \in received[generation] \cup stdout[generation]
                      /\ \/ /\ connected /\ pc[Reader] \in {"reading", "lose"}
                            /\ gen[Reader] = generation
                         \/ lifecycle # NoTask /\ pc[lifecycle] = "fail"
    BY DEF WaiterIsReachable
  <2>1. t \in Tasks  BY TaskFacts
  <2>2. HasWaiter(t)  BY <2>1 DEF HasWaiter, IInv, JobInv
  <2>3. Waking  BY <2>1, <2>2 DEF IInv, WaiterInv
  <2> QED BY <2>1, <2>2, <2>3 DEF Waking, IInv, WaiterInv, ConnInv
<1> QED BY Inductive, <1>1, PTL

\* A generation that ensure_initialized treats as initialized is a process
\* that has read both frames of the handshake.
THEOREM HandshakeIsDone == Spec => []HandshakeDone
<1>1. IInv => HandshakeDone  BY DEF IInv
<1> QED BY Inductive, <1>1, PTL

\* spawn_locked, terminate_child and disconnect leave no app-server behind.
THEOREM NoOrphan == Spec => []NoOrphanProcess
<1>1. IInv => NoOrphanProcess  BY DEF IInv
<1> QED BY Inductive, <1>1, PTL

\* write_json_for_generation never writes an answer to another process than
\* the one that asked.
THEOREM RepliesStayHome == Spec => []RepliesReachTheirProcess
<1>1. IInv => RepliesReachTheirProcess  BY DEF IInv
<1> QED BY Inductive, <1>1, PTL

\* A step that changes no outcome and carries out no call is a stutter.
LEMMA ContractStutter ==
    ASSUME res' = res, \A c \in Callers : Handled(c)' = Handled(c)
    PROVE  UNCHANGED Contract!vars
<1>1. [c \in Callers |-> Handled(c)'] = [c \in Callers |-> Handled(c)]
  BY Zenon
<1> QED BY <1>1 DEF Contract!vars

\* A call that fails is a call that returns an error.
LEMMA ContractError ==
    ASSUME IInv, NEW t \in Tasks, pc[t] # "idle", Done(t, "error"), answered' = answered
    PROVE  [Contract!Next]_Contract!vars
<1>1. \A c \in Callers \ {t} : Handled(c)' = Handled(c)
  BY DEF Done, Handled, IInv, TypeOK, TasksOK
<1>2. CASE t \notin Callers
  BY <1>1, <1>2, ContractStutter DEF Done
<1>3. CASE t \in Callers
  <2>1. res[t] = "run" /\ res' = [res EXCEPT ![t] = "error"]
    BY <1>3 DEF IInv, JobInv, Done
  <2>2. Handled(t)' = FALSE
    BY DEF Done, Handled, IInv, TypeOK, TasksOK
  <2>3. [c \in Callers |-> Handled(c)'] = [[c \in Callers |-> Handled(c)] EXCEPT ![t] = FALSE]
    BY <1>1, <2>2, Zenon
  <2>4. Contract!ReturnError(t)
    BY <2>1, <2>3 DEF Contract!ReturnError
  <2> QED BY <1>3, <2>4 DEF Contract!Next
<1> QED BY <1>2, <1>3

\* Every step is a step of the contract, or none of its business.
LEMMA ContractStep == IInv /\ [Next]_vars => [Contract!Next]_Contract!vars
<1> SUFFICES ASSUME IInv, [Next]_vars PROVE [Contract!Next]_Contract!vars
  OBVIOUS
<1> USE TaskFacts, BoundsAssumption
<1>1. ASSUME NEW t \in Tasks, Recheck(t) PROVE [Contract!Next]_Contract!vars
  <2>1. CASE closed
    BY <1>1, <2>1, ContractError DEF Recheck, peers
  <2>2. CASE ~closed
    <3>1. res' = res /\ \A c \in Callers : Handled(c)' = Handled(c)
      BY <1>1, <2>2 DEF Recheck, Handled, peers
    <3> QED BY <3>1, ContractStutter
  <2> QED BY <2>1, <2>2
<1>2. ASSUME NEW t \in Tasks, CheckConnected(t) PROVE [Contract!Next]_Contract!vars
  <2>1. res' = res /\ \A c \in Callers : Handled(c)' = Handled(c)
    BY <1>2 DEF Handled, CheckConnected, inner, locks, calls, peers, IInv, TypeOK, CallsOK,
         TasksOK, PeersOK,
       JobInv, Ids
  <2> QED BY <2>1, ContractStutter
<1>3. ASSUME NEW t \in Tasks, CheckInitialized(t) PROVE [Contract!Next]_Contract!vars
  <2>1. answered' = answered /\ 0 \notin answered /\ job[t] # "request"
    BY <1>3 DEF CheckInitialized, peers, IInv, TypeOK, PeersOK, JobInv, Ids
  <2>2. res' = res
    BY <1>3, <2>1 DEF CheckInitialized, Ensured, Done
  <2>3. \A c \in Callers \ {t} : Handled(c)' = Handled(c)
    BY <1>3, <2>1 DEF CheckInitialized, Ensured, Done, Handled, IInv, TypeOK, TasksOK
  <2>4. t \in Callers => Handled(t)' = Handled(t)
    BY <1>3, <2>1 DEF CheckInitialized, Ensured, Done, Handled, IInv, TypeOK, TasksOK
  <2> QED BY <2>2, <2>3, <2>4, ContractStutter
<1>4. ASSUME NEW t \in Tasks, StoreInitialized(t) PROVE [Contract!Next]_Contract!vars
  <2>1. answered' = answered /\ 0 \notin answered /\ job[t] # "request"
    BY <1>4 DEF StoreInitialized, peers, IInv, TypeOK, PeersOK, JobInv, Ids
  <2>2. res' = res
    BY <1>4, <2>1 DEF StoreInitialized, Ensured, Done
  <2>3. \A c \in Callers \ {t} : Handled(c)' = Handled(c)
    BY <1>4, <2>1 DEF StoreInitialized, Ensured, Done, Handled, IInv, TypeOK, TasksOK
  <2>4. t \in Callers => Handled(t)' = Handled(t)
    BY <1>4, <2>1 DEF StoreInitialized, Ensured, Done, Handled, IInv, TypeOK, TasksOK
  <2> QED BY <2>2, <2>3, <2>4, ContractStutter
<1>5. ASSUME NEW t \in Tasks, SpawnLocked(t) PROVE [Contract!Next]_Contract!vars
  <2>1. res' = res /\ \A c \in Callers : Handled(c)' = Handled(c)
    BY <1>5 DEF Handled, SpawnLocked, NextGeneration, Killed, inner, locks, calls, peers, IInv,
         TypeOK, CallsOK, TasksOK, PeersOK,
       JobInv, Ids
  <2> QED BY <2>1, ContractStutter
<1>6. ASSUME NEW t \in Tasks, SpawnFails(t) PROVE [Contract!Next]_Contract!vars
  <2>1. res' = res /\ \A c \in Callers : Handled(c)' = Handled(c)
    BY <1>6 DEF Handled, SpawnFails, Killed, inner, locks, calls, peers, IInv, TypeOK, CallsOK,
         TasksOK, PeersOK,
       JobInv, Ids
  <2> QED BY <2>1, ContractStutter
<1>7. ASSUME NEW t \in Tasks, Install(t) PROVE [Contract!Next]_Contract!vars
  <2>1. res' = res /\ \A c \in Callers : Handled(c)' = Handled(c)
    BY <1>7 DEF Handled, Install, inner, locks, calls, peers, IInv, TypeOK, CallsOK, TasksOK,
         PeersOK,
       JobInv, Ids
  <2> QED BY <2>1, ContractStutter
<1>8. ASSUME NEW t \in Tasks, StartRaw(t) PROVE [Contract!Next]_Contract!vars
  <2>1. res' = res /\ \A c \in Callers : Handled(c)' = Handled(c)
    BY <1>8 DEF AnswerInv, Handled, StartRaw, inner, locks, calls, peers, IInv, TypeOK,
         CallsOK, TasksOK, PeersOK,
       JobInv, Ids
  <2> QED BY <2>1, ContractStutter
<1>9. ASSUME NEW t \in Tasks, WriteCheck(t) PROVE [Contract!Next]_Contract!vars
  <2>1. res' = res /\ \A c \in Callers : Handled(c)' = Handled(c)
    BY <1>9 DEF Handled, WriteCheck, inner, locks, calls, peers, IInv, TypeOK, CallsOK,
         TasksOK, PeersOK,
       JobInv, Ids
  <2> QED BY <2>1, ContractStutter
<1>10. ASSUME NEW t \in Tasks, WriteLoadGeneration(t) PROVE [Contract!Next]_Contract!vars
  <2>1. res' = res /\ \A c \in Callers : Handled(c)' = Handled(c)
    BY <1>10 DEF Handled, WriteLoadGeneration, inner, locks, calls, peers, IInv, TypeOK,
         CallsOK, TasksOK, PeersOK,
       JobInv, Ids
  <2> QED BY <2>1, ContractStutter
<1>11. ASSUME NEW t \in Tasks, WriteFrame(t) PROVE [Contract!Next]_Contract!vars
  <2>1. res' = res /\ \A c \in Callers : Handled(c)' = Handled(c)
    BY <1>11 DEF Handled, WriteFrame, Deliver, inner, locks, calls, peers, IInv, TypeOK,
         CallsOK, TasksOK, PeersOK,
       JobInv, Ids
  <2> QED BY <2>1, ContractStutter
<1>12. ASSUME NEW t \in Tasks, WriteFails(t) PROVE [Contract!Next]_Contract!vars
  <2>1. res' = res /\ \A c \in Callers : Handled(c)' = Handled(c)
    BY <1>12 DEF Handled, WriteFails, Deliver, inner, locks, calls, peers, IInv, TypeOK,
         CallsOK, TasksOK, PeersOK,
       JobInv, Ids
  <2> QED BY <2>1, ContractStutter
<1>13. ASSUME NEW t \in Tasks, Abandon(t) PROVE [Contract!Next]_Contract!vars
  BY <1>13, ContractError DEF Abandon, Forget, DropConnectLock, peers
<1>14. ASSUME NEW t \in Tasks, Receive(t) PROVE [Contract!Next]_Contract!vars
  <2>1. CASE Done(t, "error")
    BY <1>14, <2>1, ContractError DEF Receive, peers
  <2>2. CASE job[t] = "init" /\ job' = [job EXCEPT ![t] = "initialized"] /\ UNCHANGED res
    <3>1. answered' = answered /\ \A c \in Tasks \ {t} : id'[c] = id[c]
      BY <1>14 DEF Receive, Done, peers, IInv, TypeOK, TasksOK
    <3>2. \A c \in Callers : Handled(c)' = Handled(c)
      BY <2>2, <3>1, TaskFacts DEF Handled, IInv, TypeOK, TasksOK
    <3> QED BY <2>2, <3>2, ContractStutter
  <2>3. CASE slot[id[t]] = "answer" /\ job[t] = "request" /\ Done(t, "ok")
    <3>1. job[t] = "request" /\ Done(t, "ok") /\ answered' = answered /\ pc[t] = "wait"
      BY <1>14, <2>3 DEF Receive, peers
    <3>2. \A c \in Callers \ {t} : Handled(c)' = Handled(c)
      BY <3>1 DEF Done, Handled, IInv, TypeOK, TasksOK
    <3>3. Handled(t)' = FALSE
      BY <3>1 DEF Done, Handled, IInv, TypeOK, TasksOK
    <3>4. CASE t \notin Callers
      BY <3>1, <3>2, <3>4, ContractStutter DEF Done
    <3>5. CASE t \in Callers
      <4>1. HasWaiter(t)  BY <3>1 DEF HasWaiter
      <4>2. Handled(t)
        BY <2>3, <3>1, <4>1 DEF Handled, IInv, WaiterInv, AnswerInv
      <4>3. res[t] = "run" /\ res' = [res EXCEPT ![t] = "ok"]
        BY <3>1, <3>5 DEF Done, IInv, JobInv
      <4>4. [c \in Callers |-> Handled(c)'] = [[c \in Callers |-> Handled(c)] EXCEPT ![t] = FALSE]
        BY <3>2, <3>3, Zenon
      <4>5. Contract!ReturnOk(t)
        BY <3>5, <4>2, <4>3, <4>4 DEF Contract!ReturnOk
      <4> QED BY <3>5, <4>5 DEF Contract!Next
    <3> QED BY <3>4, <3>5
  <2> QED BY <1>14, <2>1, <2>2, <2>3 DEF Receive
<1>15. ASSUME NEW t \in Tasks, Timeout(t) PROVE [Contract!Next]_Contract!vars
  BY <1>15, ContractError DEF Timeout, Elapses, Forget, DropConnectLock, peers
<1>16. ASSUME NEW t \in Tasks, ReplyFrame(t) PROVE [Contract!Next]_Contract!vars
  <2>1. res' = res /\ \A c \in Callers : Handled(c)' = Handled(c)
    BY <1>16 DEF Handled, ReplyFrame, ReplyAllowed, Done, inner, locks, calls, peers, IInv,
         TypeOK, CallsOK, TasksOK, PeersOK,
       JobInv, Ids
  <2> QED BY <2>1, ContractStutter
<1>17. ASSUME NEW t \in Tasks, ReplyFails(t) PROVE [Contract!Next]_Contract!vars
  <2>1. res' = res /\ \A c \in Callers : Handled(c)' = Handled(c)
    BY <1>17 DEF Handled, ReplyFails, ReplyAllowed, inner, locks, calls, peers, IInv, TypeOK,
         CallsOK, TasksOK, PeersOK,
       JobInv, Ids
  <2> QED BY <2>1, ContractStutter
<1>18. ASSUME NEW t \in Tasks, ReplyBlame(t) PROVE [Contract!Next]_Contract!vars
  <2>1. res' = res /\ \A c \in Callers : Handled(c)' = Handled(c)
    BY <1>18 DEF Handled, ReplyBlame, inner, locks, calls, peers, IInv, TypeOK, CallsOK,
         TasksOK, PeersOK,
       JobInv, Ids
  <2> QED BY <2>1, ContractStutter
<1>19. ASSUME NEW t \in Tasks, LoseStale(t) PROVE [Contract!Next]_Contract!vars
  <2>1. res' = res /\ \A c \in Callers : Handled(c)' = Handled(c)
    BY <1>19 DEF Handled, LoseStale, inner, locks, calls, peers, IInv, TypeOK, CallsOK,
         TasksOK, PeersOK,
       JobInv, Ids
  <2> QED BY <2>1, ContractStutter
<1>20. ASSUME NEW t \in Tasks, LoseConnection(t) PROVE [Contract!Next]_Contract!vars
  <2>1. res' = res /\ \A c \in Callers : Handled(c)' = Handled(c)
    BY <1>20 DEF Handled, LoseConnection, inner, locks, calls, peers, IInv, TypeOK, CallsOK,
         TasksOK, PeersOK,
       JobInv, Ids
  <2> QED BY <2>1, ContractStutter
<1>21. ASSUME NEW t \in Tasks, Disconnect(t) PROVE [Contract!Next]_Contract!vars
  <2>1. res' = res /\ \A c \in Callers : Handled(c)' = Handled(c)
    BY <1>21 DEF Handled, Disconnect, inner, locks, calls, peers, IInv, TypeOK, CallsOK,
         TasksOK, PeersOK,
       JobInv, Ids
  <2> QED BY <2>1, ContractStutter
<1>22. ASSUME NEW t \in Tasks, FailPending(t) PROVE [Contract!Next]_Contract!vars
  <2>1. res' = res /\ \A c \in Callers : Handled(c)' = Handled(c)
    BY <1>22 DEF Handled, FailPending, FailedSlots, Awaited, inner, locks, calls, peers, IInv,
         TypeOK, CallsOK, TasksOK, PeersOK,
       JobInv, Ids
  <2> QED BY <2>1, ContractStutter
<1>23. ASSUME NEW t \in Tasks, KillChild(t) PROVE [Contract!Next]_Contract!vars
  <2>1. res' = res /\ \A c \in Callers : Handled(c)' = Handled(c)
    BY <1>23 DEF Handled, KillChild, Killed, Disconnecting, inner, locks, calls, peers, IInv,
         TypeOK, CallsOK, TasksOK, PeersOK,
       JobInv, Ids
  <2> QED BY <2>1, ContractStutter
<1>24. ASSUME NEW t \in Callers, BeginRequest(t) PROVE [Contract!Next]_Contract!vars
  <2>1. res[t] # "run" /\ res' = [res EXCEPT ![t] = "run"]
    BY <1>24 DEF BeginRequest, IInv, JobInv
  <2>2. \A c \in Callers : Handled(c)' = Handled(c)
    BY <1>24 DEF BeginRequest, Handled, peers, IInv, TypeOK, TasksOK, JobInv
  <2>3. [c \in Callers |-> Handled(c)'] = [c \in Callers |-> Handled(c)]
    BY <2>2, Zenon
  <2>4. Contract!Call(t)
    BY <2>1, <2>3 DEF Contract!Call
  <2> QED BY <1>24, <2>4 DEF Contract!Next
<1>25. ASSUME NEW t \in Admins, BeginConnect(t) PROVE [Contract!Next]_Contract!vars
  <2>1. res' = res /\ \A c \in Callers : Handled(c)' = Handled(c)
    BY <1>25 DEF Handled, BeginConnect, inner, locks, calls, peers, IInv, TypeOK, CallsOK,
         TasksOK, PeersOK,
       JobInv, Ids
  <2> QED BY <2>1, ContractStutter
<1>26. ASSUME NEW t \in Admins, BeginReconnect(t) PROVE [Contract!Next]_Contract!vars
  <2>1. res' = res /\ \A c \in Callers : Handled(c)' = Handled(c)
    BY <1>26 DEF Handled, BeginReconnect, inner, locks, calls, peers, IInv, TypeOK, CallsOK,
         TasksOK, PeersOK,
       JobInv, Ids
  <2> QED BY <2>1, ContractStutter
<1>27. ASSUME NEW t \in Admins, BeginClose(t) PROVE [Contract!Next]_Contract!vars
  <2>1. res' = res /\ \A c \in Callers : Handled(c)' = Handled(c)
    BY <1>27 DEF Handled, BeginClose, inner, locks, calls, peers, IInv, TypeOK, CallsOK,
         TasksOK, PeersOK,
       JobInv, Ids
  <2> QED BY <2>1, ContractStutter
<1>28. ASSUME NEW t \in Repliers, NEW g \in Gens, BeginReply(t,
     g) PROVE [Contract!Next]_Contract!vars
  <2>1. res' = res /\ \A c \in Callers : Handled(c)' = Handled(c)
    BY <1>28 DEF Handled, BeginReply, inner, locks, calls, peers, IInv, TypeOK, CallsOK,
         TasksOK, PeersOK,
       JobInv, Ids
  <2> QED BY <2>1, ContractStutter
<1>29. ASSUME NEW t \in Impatient, GiveUp(t) PROVE [Contract!Next]_Contract!vars
  <2>1. pc[t] # "idle" /\ Done(t, "error") /\ answered' = answered
    BY <1>29 DEF GiveUp
  <2> QED BY <2>1, ContractError
<1>30. ASSUME ReadResponse PROVE [Contract!Next]_Contract!vars
  <2>1. res' = res /\ \A c \in Callers : Handled(c)' = Handled(c)
    BY <1>30 DEF Handled, ReadResponse, CompletedBy, Awaited, inner, locks, calls, peers, IInv,
         TypeOK, CallsOK, TasksOK, PeersOK,
       JobInv, Ids
  <2> QED BY <2>1, ContractStutter
<1>31. ASSUME ReadServerRequest PROVE [Contract!Next]_Contract!vars
  <2>1. res' = res /\ \A c \in Callers : Handled(c)' = Handled(c)
    BY <1>31 DEF Handled, ReadServerRequest, inner, locks, calls, peers, IInv, TypeOK, CallsOK,
         TasksOK, PeersOK,
       JobInv, Ids
  <2> QED BY <2>1, ContractStutter
<1>32. ASSUME ReadEof PROVE [Contract!Next]_Contract!vars
  <2>1. res' = res /\ \A c \in Callers : Handled(c)' = Handled(c)
    BY <1>32 DEF Handled, ReadEof, inner, locks, calls, peers, IInv, TypeOK, CallsOK, TasksOK,
         PeersOK,
       JobInv, Ids
  <2> QED BY <2>1, ContractStutter
<1>33. ASSUME NEW g \in Gens, Answer(g) PROVE [Contract!Next]_Contract!vars
  <2>1. PICK i \in received[g] : answered' = answered \cup {i}
    BY <1>33 DEF Answer
  <2>2. UNCHANGED <<res, job, id>>
    BY <1>33 DEF Answer
  <2>3. CASE \E c \in Callers : Handled(c)' # Handled(c)
    <3>1. PICK c \in Callers : Handled(c)' # Handled(c)
      BY <2>3
    <3>2. id[c] = i /\ job[c] = "request" /\ ~Handled(c) /\ Handled(c)'
      BY <2>1, <2>2, <3>1 DEF Handled
    <3>3. res[c] = "run" /\ i # 0
      BY <2>1, <3>2 DEF IInv, JobInv, TypeOK, PeersOK, Ids
    <3>4. \A d \in Callers \ {c} : Handled(d)' = Handled(d)
      BY <2>1, <2>2, <3>2, <3>3 DEF Handled, IInv, WaiterInv
    <3>5. [d \in Callers |-> Handled(d)'] = [[d \in Callers |-> Handled(d)] EXCEPT ![c] = TRUE]
      BY <3>2, <3>4, Zenon
    <3>6. Contract!Handle(c)
      BY <2>2, <3>2, <3>3, <3>5 DEF Contract!Handle
    <3> QED BY <3>1, <3>6 DEF Contract!Next
  <2>4. CASE \A c \in Callers : Handled(c)' = Handled(c)
    BY <2>2, <2>4, ContractStutter
  <2> QED BY <2>3, <2>4
<1>34. ASSUME NEW g \in Gens, Crash(g) PROVE [Contract!Next]_Contract!vars
  <2>1. res' = res /\ \A c \in Callers : Handled(c)' = Handled(c)
    BY <1>34 DEF Handled, Crash, inner, locks, calls, peers, IInv, TypeOK, CallsOK, TasksOK,
         PeersOK,
       JobInv, Ids
  <2> QED BY <2>1, ContractStutter
<1>35. ASSUME UNCHANGED vars PROVE [Contract!Next]_Contract!vars
  <2>1. res' = res /\ \A c \in Callers : Handled(c)' = Handled(c)
    BY <1>35 DEF Handled, vars, inner, locks, calls, peers, IInv, TypeOK, CallsOK, TasksOK,
         PeersOK,
       JobInv, Ids
  <2> QED BY <2>1, ContractStutter
<1> QED
  BY <1>1, <1>2, <1>3, <1>4, <1>5, <1>6, <1>7, <1>8, <1>9, <1>10, <1>11, <1>12, <1>13, <1>14,
       <1>15, <1>16, <1>17, <1>18, <1>19, <1>20, <1>21, <1>22, <1>23, <1>24, <1>25, <1>26,
       <1>27, <1>28, <1>29, <1>30, <1>31, <1>32, <1>33, <1>34, <1>35 DEF Next, Continue

\* No call is running when the client starts.
LEMMA ContractInit == Init => Contract!Init
<1> SUFFICES ASSUME Init PROVE Contract!Init
  OBVIOUS
<1>1. \A c \in Callers : Handled(c) = FALSE  BY TaskFacts DEF Init, Handled
<1>2. [c \in Callers |-> Handled(c)] = [c \in Callers |-> FALSE]  BY <1>1, Zenon
<1> QED BY <1>2 DEF Init, Contract!Init

\* The client keeps the contract of request(): Ok only for a call the
\* app-server carried out for this very caller, through any interleaving of
\* timeouts, late answers, lost connections and restarts.
THEOREM ContractKept == Spec => ImplementsContract
<1> QED BY Inductive, ContractInit, ContractStep, PTL
        DEF Spec, ImplementsContract, Contract!Spec
=============================================================================
