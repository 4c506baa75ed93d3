------------------------- MODULE ServerRequests_proofs -------------------------
(***************************************************************************)
(* What holds of the requests of Codex for any number of processes, ids,    *)
(* interactions of the owner, ready events and restarts.                    *)
(***************************************************************************)
EXTENDS ServerRequests, TLAPS

\* Whose hands a request may be in, once it is out of the map.
Held(w, r)      == on[w] = r /\ pc[w] \in {"reply", "restore", "expire", "expireblind"}
Restoring(w, r) == on[w] = r /\ pc[w] = "restart"

\* A handler is not over before its card is posted; until then nobody else can take
\* its request, and before it is registered it is not pending.
Early    == {"none", "arrived", "save", "insert", "start", "check", "show", "send"}
Starting == {"none", "arrived", "save", "insert", "start"}
EarlyOf(r) ==
    /\ pc[r] \in Early => /\ replies[r] = 0 /\ card[r] # "live"
                          /\ r \notin due /\ clock[r] # "elapsed"
                          /\ \A w \in Workers : ~Held(w, r)
    /\ pc[r] \in Starting \ {"start"} => r \notin pending

\* What a process to come will ask is not there yet.
FreshOf(r) ==
    /\ pc[r] = "none" <=> request[r] = "none"
    /\ r[1] > generation => pc[r] = "none"

\* A request is pending or in one pair of hands.
HandOf(r) ==
    /\ r \in pending => \A w \in Workers : ~Held(w, r)
    /\ \A u, w \in Workers : Held(u, r) /\ Held(w, r) => u = w

\* One that was answered is out of everybody's reach, or its process is gone.
SpentOf(r) ==
    /\ replies[r] <= 1
    /\ replies[r] = 1 /\ Live(r) => r \notin pending /\ \A w \in Workers : ~Held(w, r)

KeptOf(r) == r \notin crossed => Kept(r)

RequestInv(r) == EarlyOf(r) /\ FreshOf(r) /\ HandOf(r) /\ SpentOf(r) /\ KeptOf(r)

\* Events and tombstones are of requests that are over, and so is what the consumer
\* has in hand, unless it took it for another.
Over == {"relay", "desktop"}
EventsInv == \A n \in 1..Len(events) : request[events[n]] \in Over
OverInv ==
    /\ EventsInv
    /\ \A r \in tombs : request[r] \in Over
    /\ pc[Consumer] = "tomb" => request[on[Consumer]] \in Over
    /\ pc[Consumer] \in {"retire", "forget"} =>
            on[Consumer] \in crossed \/ request[on[Consumer]] \in Over

\* The locals of the threads.
Handling == {"reply", "restore", "restart", "repost", "tomb", "retire", "forget", "expire",
             "expireblind"}
LocalInv ==
    /\ \A w \in Workers : pc[w] \in Handling => on[w] \in Requests
    /\ \A t \in Threads : pc[t] = "reactwrite" => seen[t] \in {"running", "needs"}

IInv == TypeOK /\ LocalInv /\ OverInv /\ \A r \in Requests : RequestInv(r)

-----------------------------------------------------------------------------
(* What a step has to leave alone                                           *)

LEMMA Names ==
    /\ Consumer \in Workers /\ Sweeper \in Workers /\ Boot \in Workers
    /\ Clickers \subseteq Workers \ {Consumer, Sweeper, Boot}
    /\ Consumer # Sweeper /\ Sweeper # Boot /\ Boot # Consumer
    /\ Requests \subseteq Threads \ Workers /\ Workers \subseteq Threads
    /\ NoRequest \notin Requests
BY ThreadsAssumption DEF Workers, Threads

\* The handler of a request goes on.
LEMMA SetUpMoves ==
    ASSUME TypeOK, NEW r \in Requests, NEW p, Goto(r, p), UNCHANGED on
    PROVE  /\ DOMAIN pc' = Threads /\ pc'[r] = p
           /\ \A x \in Requests \ {r} : pc'[x] = pc[x]
           /\ \A w \in Workers : pc'[w] = pc[w]
           /\ \A w \in Workers, x \in Requests :
                (Held(w, x)' <=> Held(w, x)) /\ (Restoring(w, x)' <=> Restoring(w, x))
<1>1. DOMAIN pc' = Threads /\ pc'[r] = p /\ \A t \in Threads \ {r} : pc'[t] = pc[t]
  BY Names DEF TypeOK, Goto
<1>2. \A w \in Workers : pc'[w] = pc[w]
  BY <1>1, Names
<1>3. \A x \in Requests \ {r} : pc'[x] = pc[x]
  BY <1>1, Names
<1> QED BY <1>1, <1>2, <1>3 DEF Held, Restoring

\* Another thread goes on.
LEMMA WorkerMoves ==
    ASSUME TypeOK, NEW w \in Workers, NEW p, Goto(w, p),
           \A u \in Workers \ {w} : on'[u] = on[u]
    PROVE  /\ DOMAIN pc' = Threads /\ pc'[w] = p
           /\ \A x \in Requests : pc'[x] = pc[x]
           /\ \A u \in Workers \ {w} : pc'[u] = pc[u]
           /\ \A u \in Workers \ {w}, x \in Requests :
                (Held(u, x)' <=> Held(u, x)) /\ (Restoring(u, x)' <=> Restoring(u, x))
<1>1. DOMAIN pc' = Threads /\ pc'[w] = p /\ \A t \in Threads \ {w} : pc'[t] = pc[t]
  BY Names DEF TypeOK, Goto
<1>2. \A u \in Workers \ {w} : pc'[u] = pc[u]
  BY <1>1, Names
<1>3. \A x \in Requests : pc'[x] = pc[x]
  BY <1>1, Names
<1> QED BY <1>1, <1>2, <1>3 DEF Held, Restoring

\* A step that is not about a request leaves what is true of it.
Aside(r) ==
    /\ generation' = generation /\ (Live(r)' => Live(r))
    /\ request'[r] = request[r] /\ replies'[r] = replies[r]
    /\ r \in pending' <=> r \in pending
    /\ clock'[r] = clock[r]
    /\ card'[r] = "live" => card[r] = "live"
    /\ r \in due' => r \in due \/ clock[r] = "elapsed"
    /\ \/ pc'[r] = pc[r]
       \/ /\ pc[r] \notin Starting /\ pc'[r] \notin Starting
          /\ pc'[r] \in Early => pc[r] \in Early
    /\ \A w \in Workers :
            (Held(w, r)' <=> Held(w, r)) /\ (Restoring(w, r) => Restoring(w, r)')
    /\ r \in crossed => r \in crossed'

LEMMA AsideStep ==
    ASSUME NEW r \in Requests, RequestInv(r), Aside(r)
    PROVE  RequestInv(r)'
<1> USE DEF RequestInv, Aside
<1>1. EarlyOf(r)'
  BY DEF EarlyOf, Early, Starting
<1>2. FreshOf(r)'
  BY DEF FreshOf, Starting
<1>3. HandOf(r)'
  BY DEF HandOf
<1>4. SpentOf(r)'
  BY DEF SpentOf
<1>5. KeptOf(r)'
  <2> SUFFICES ASSUME r \notin crossed', request'[r] = "waiting", Live(r)'
               PROVE  \/ pc'[r] \in {"arrived", "save", "insert"}
                      \/ \E w \in Workers : Held(w, r)'
                      \/ /\ r \in pending'
                         /\ \/ clock'[r] # "none" \/ pc'[r] = "start"
                            \/ \E k \in Clickers : Restoring(k, r)'
    BY DEF KeptOf, Kept, InHand, Waited, Held, Restoring
  <2>1. \/ pc[r] \in {"arrived", "save", "insert"}
        \/ \E w \in Workers : Held(w, r)
        \/ /\ r \in pending
           /\ \/ clock[r] # "none" \/ pc[r] = "start"
              \/ \E k \in Clickers : Restoring(k, r)
    BY DEF KeptOf, Kept, InHand, Waited, Held, Restoring
  <2>2. pc[r] \in {"arrived", "save", "insert", "start"} => pc'[r] = pc[r]
    BY DEF Starting
  <2> QED BY <2>1, <2>2, Names
<1> QED BY <1>1, <1>2, <1>3, <1>4, <1>5

LEMMA OverStep ==
    ASSUME TypeOK, LocalInv, OverInv, EventsInv', tombs' \subseteq tombs, crossed \subseteq crossed',
           pc'[Consumer] = pc[Consumer], on'[Consumer] = on[Consumer],
           \A x \in Requests : request[x] \in Over => request'[x] \in Over
    PROVE  OverInv'
<1>1. tombs \subseteq Requests
  BY DEF TypeOK
<1>2. pc[Consumer] \in {"tomb", "retire", "forget"} => on[Consumer] \in Requests
  BY Names DEF LocalInv, Handling
<1> QED BY <1>1, <1>2 DEF OverInv

LEMMA EventsKept ==
    ASSUME TypeOK, EventsInv, UNCHANGED events,
           \A x \in Requests : request[x] \in Over => request'[x] \in Over
    PROVE  EventsInv'
<1>1. \A n \in 1..Len(events) : events[n] \in Requests
  BY DEF TypeOK
<1> QED BY <1>1 DEF EventsInv

-----------------------------------------------------------------------------
(* An answer                                                                *)

LEMMA AnnounceFacts ==
    ASSUME TypeOK, EventsInv, NEW r \in Requests, Announce(r),
           \A x \in Requests : request[x] \in Over => request'[x] \in Over,
           request'[r] \in Over
    PROVE  events' \in Seq(Requests) /\ EventsInv'
<1>1. events \in Seq(Requests) /\ \A n \in 1..Len(events) : events[n] \in Requests
  BY DEF TypeOK
<1>2. CASE events' = events
  BY <1>1, <1>2, EventsKept
<1>3. CASE events' = Append(events, r)
  <2>1. events' \in Seq(Requests) /\ Len(events') = Len(events) + 1 /\ Len(events) \in Nat
    BY <1>1, <1>3
  <2>2. ASSUME NEW n \in 1..Len(events') PROVE request'[events'[n]] \in Over
    <3>1. CASE n = Len(events) + 1
      <4>1. events'[n] = r
        BY <1>1, <1>3, <3>1
      <4> QED BY <4>1
    <3>2. CASE n \in 1..Len(events)
      <4>1. events'[n] = events[n] /\ events[n] \in Requests
        BY <1>1, <1>3, <3>2
      <4> QED BY <3>2, <4>1 DEF EventsInv
    <3> QED BY <2>1, <3>1, <3>2
  <2> QED BY <2>1, <2>2 DEF EventsInv
<1> QED BY <1>2, <1>3 DEF Announce

LEMMA DeliverFacts ==
    ASSUME TypeOK, EventsInv, NEW r \in Requests, Deliver(r)
    PROVE  /\ request' \in [Requests -> {"none", "waiting", "relay", "desktop"}]
           /\ replies' \in [Requests -> 0..2] /\ events' \in Seq(Requests) /\ EventsInv'
           /\ \A x \in Requests \ {r} : request'[x] = request[x] /\ replies'[x] = replies[x]
           /\ request'[r] = request[r] \/ (request[r] = "waiting" /\ request'[r] = "relay")
           /\ request'[r] # "waiting" /\ (replies[r] = 0 => replies'[r] = 1)
<1>1. /\ replies' \in [Requests -> 0..2] /\ (replies[r] = 0 => replies'[r] = 1)
      /\ \A x \in Requests \ {r} : replies'[x] = replies[x]
  BY DEF Deliver, TypeOK
<1>2. CASE request[r] = "waiting"
  <2>1. request' = [request EXCEPT ![r] = "relay"] /\ Announce(r)
    BY <1>2 DEF Deliver
  <2>2. /\ request' \in [Requests -> {"none", "waiting", "relay", "desktop"}]
        /\ request'[r] = "relay" /\ \A x \in Requests \ {r} : request'[x] = request[x]
    BY <2>1 DEF TypeOK
  <2>3. \A x \in Requests : request[x] \in Over => request'[x] \in Over
    BY <1>2, <2>2 DEF Over
  <2>4. events' \in Seq(Requests) /\ EventsInv'
    BY <2>1, <2>2, <2>3, AnnounceFacts DEF Over
  <2> QED BY <1>1, <1>2, <2>2, <2>4
<1>3. CASE request[r] # "waiting"
  <2>1. UNCHANGED <<request, events>>
    BY <1>3 DEF Deliver
  <2>2. EventsInv'
    BY <2>1, EventsKept
  <2> QED BY <1>1, <1>3, <2>1, <2>2 DEF TypeOK
<1> QED BY <1>2, <1>3

LEMMA AnswerFacts ==
    ASSUME TypeOK, EventsInv, NEW r \in Requests, Replied(r) \/ NotReplied(r)
    PROVE  /\ generation' \in 0..MaxGen /\ up' \in BOOLEAN
           /\ request' \in [Requests -> {"none", "waiting", "relay", "desktop"}]
           /\ replies' \in [Requests -> 0..2] /\ events' \in Seq(Requests) /\ EventsInv'
           /\ \A x \in Requests \ {r} : request'[x] = request[x] /\ replies'[x] = replies[x]
           /\ request'[r] = request[r] \/ (request[r] = "waiting" /\ request'[r] = "relay")
           /\ \A x \in Requests : Live(x)' => Live(x)
           /\ generation' = generation /\ (Live(r)' => request'[r] # "waiting")
           /\ replies[r] = 0 => replies'[r] <= 1
           /\ ~Live(r) => replies'[r] = replies[r]
<1>1. CASE Replied(r)
  <2>1. Live(r) /\ Deliver(r) /\ UNCHANGED <<generation, up>>
    BY <1>1 DEF Replied
  <2>2. \A x : Live(x)' <=> Live(x)
    BY <2>1 DEF Live
  <2> QED BY <2>1, <2>2, DeliverFacts DEF TypeOK
<1>2. CASE NotReplied(r) /\ Live(r) /\ Deliver(r)
  <2>1. up' = FALSE /\ UNCHANGED generation
    BY <1>2 DEF NotReplied
  <2>2. \A x : ~Live(x)'
    BY <2>1 DEF Live
  <2>3. generation' \in 0..MaxGen /\ up' \in BOOLEAN
    BY <2>1 DEF TypeOK
  <2> QED BY <1>2, <2>1, <2>2, <2>3, DeliverFacts
<1>3. CASE NotReplied(r) /\ Live(r) /\ UNCHANGED <<request, replies, events>>
  <2>1. up' = FALSE /\ UNCHANGED generation
    BY <1>3 DEF NotReplied
  <2>2. \A x : ~Live(x)'
    BY <2>1 DEF Live
  <2>3. generation' \in 0..MaxGen /\ up' \in BOOLEAN
    BY <2>1 DEF TypeOK
  <2>4. EventsInv'
    BY <1>3, EventsKept
  <2> QED BY <1>3, <2>1, <2>2, <2>3, <2>4 DEF TypeOK
<1>4. CASE NotReplied(r) /\ ~Live(r)
  <2>1. UNCHANGED <<generation, up, request, replies, events>>
    BY <1>4 DEF NotReplied, server
  <2>2. \A x : Live(x)' <=> Live(x)
    BY <2>1 DEF Live
  <2>3. EventsInv'
    BY <2>1, EventsKept
  <2> QED BY <1>4, <2>1, <2>2, <2>3 DEF TypeOK
<1> QED BY <1>1, <1>2, <1>3, <1>4 DEF NotReplied

-----------------------------------------------------------------------------
(* The handler of a request                                                 *)

PcOK ==
    /\ \A r \in Requests : pc[r] \in SetupPCs \cup ReactPCs
    /\ \A w \in Workers : pc[w] \in WorkerPCs \cup ReactPCs
    /\ DOMAIN pc = Threads

LEMMA SetUpTypes ==
    ASSUME TypeOK, NEW r \in Requests, NEW p \in SetupPCs \cup ReactPCs, Goto(r, p), UNCHANGED on
    PROVE  PcOK'
BY SetUpMoves DEF PcOK, TypeOK

LEMMA SetUpStep ==
    ASSUME IInv, TypeOK', NEW r \in Requests, NEW p \in SetupPCs \cup {"react"}, Goto(r, p),
           UNCHANGED <<generation, up, request, replies, events, on, seen, due, crossed>>,
           tombs' \subseteq tombs,
           \A x \in Requests \ {r} : /\ x \in pending' <=> x \in pending
                                     /\ clock'[x] = clock[x] /\ card'[x] = card[x],
           Aside(r) \/ RequestInv(r)'
    PROVE  IInv'
<1> USE DEF IInv
<1>1. /\ pc'[r] = p /\ \A x \in Requests \ {r} : pc'[x] = pc[x]
      /\ \A w \in Workers : pc'[w] = pc[w]
      /\ \A w \in Workers, x \in Requests :
            (Held(w, x)' <=> Held(w, x)) /\ (Restoring(w, x)' <=> Restoring(w, x))
  BY SetUpMoves
<1>2. \A x \in Requests : Live(x)' <=> Live(x)
  BY DEF Live
<1>3. ASSUME NEW x \in Requests PROVE RequestInv(x)'
  <2>1. CASE x = r
    BY <2>1, AsideStep
  <2>2. CASE x # r
    <3>1. Aside(x)
      BY <1>1, <1>2, <2>2 DEF Aside
    <3> QED BY <3>1, AsideStep
  <2> QED BY <2>1, <2>2
<1>4. EventsInv'
  BY EventsKept DEF OverInv
<1>5. OverInv'
  BY <1>1, <1>4, Names, OverStep
<1>6. LocalInv'
  <2>1. \A t \in Threads : pc'[t] = "reactwrite" => pc[t] = "reactwrite"
    BY <1>1 DEF Threads, SetupPCs
  <2> QED BY <1>1, <2>1 DEF LocalInv
<1> QED BY <1>3, <1>5, <1>6

\* A step of the handler that decides nothing.
Between == {"show", "send", "place", "verify", "locate", "done", "react"}
LEMMA SetUpAside ==
    ASSUME TypeOK, NEW r \in Requests, pc[r] \in Between \ {"done"}, NEW p \in Between \ {"show"}, Goto(r, p),
           pc[r] \in Early \/ p \notin Early,
           UNCHANGED <<generation, up, request, replies, on, due, crossed>>,
           r \in pending' <=> r \in pending, clock'[r] = clock[r],
           card'[r] = "live" => card[r] = "live"
    PROVE  Aside(r)
<1>1. pc'[r] = p /\ \A w \in Workers :
            (Held(w, r)' <=> Held(w, r)) /\ (Restoring(w, r)' <=> Restoring(w, r))
  BY SetUpMoves
<1>2. Live(r)' <=> Live(r)
  BY DEF Live
<1> QED BY <1>1, <1>2 DEF Aside, Between, Starting

LEMMA QuietSetUp ==
    ASSUME IInv, NEW r \in Requests, Show(r) \/ Place(r) \/ Verify(r) \/ Locate(r)
    PROVE  IInv'
<1> USE DEF IInv
<1>1. PICK p \in Between \ {"show"} : Goto(r, p) /\ (pc[r] \in Early \/ p \notin Early)
  BY DEF Show, Place, Verify, Locate, Between, Early
<1>2. /\ UNCHANGED <<generation, up, request, replies, events, pending, clock, tombs, on, seen, due,
                      stale, clicks, readies, crossed>>
      /\ pc[r] \in Between \ {"done"} /\ messages' \subseteq messages \cup {r}
  BY DEF Show, Place, Verify, Locate, server, maps, locals, ghosts, Between, TypeOK
<1>3. /\ row' \in [Requests -> RowStates] /\ card' \in [Requests -> {"none", "live", "retired"}]
      /\ task' \in {"running", "needs"}
      /\ \A x \in Requests : card'[x] = "live" => card[x] = "live"
      /\ \A x \in Requests \ {r} : card'[x] = card[x]
  BY DEF Show, Place, Verify, Locate, TypeOK, RowStates, shown
<1>4. p \in SetupPCs \cup ReactPCs /\ p \in SetupPCs \cup {"react"}
  BY DEF Between, SetupPCs, ReactPCs
<1>5. TypeOK'
  BY <1>1, <1>2, <1>3, <1>4, SetUpTypes DEF TypeOK, PcOK
<1>6. Aside(r)
  BY <1>1, <1>2, <1>3, SetUpAside
<1> QED BY <1>1, <1>2, <1>3, <1>4, <1>5, <1>6, SetUpStep

LEMMA RegisterStep ==
    ASSUME IInv, NEW r \in Requests, Register(r)
    PROVE  IInv'
<1> USE DEF IInv
<1>1. pc[r] = "insert" /\ Goto(r, "start") /\ pending' = pending \cup {r}
  BY DEF Register
<1>2. UNCHANGED <<generation, up, request, replies, events, clock, messages, tombs, row, card, task,
                  on, seen, due, stale, clicks, readies, crossed>>
  BY DEF Register, server, shown, locals, ghosts
<1>3. TypeOK'
  BY <1>1, <1>2, SetUpTypes DEF TypeOK, PcOK, SetupPCs
<1>4. /\ pc'[r] = "start" /\ \A w \in Workers : Held(w, r)' <=> Held(w, r)
      /\ Live(r)' <=> Live(r)
  BY <1>1, <1>2, SetUpMoves DEF Live
<1>5. RequestInv(r)
  OBVIOUS
<1>6. replies[r] = 0 /\ card[r] # "live" /\ r \notin due /\ clock[r] # "elapsed"
      /\ \A w \in Workers : ~Held(w, r)
  BY <1>1, <1>5 DEF RequestInv, EarlyOf, Early
<1>7. RequestInv(r)'
  <2>1. EarlyOf(r)'
    BY <1>2, <1>4, <1>6 DEF EarlyOf
  <2>2. FreshOf(r)' /\ HandOf(r)' /\ SpentOf(r)'
    BY <1>1, <1>2, <1>4, <1>5, <1>6 DEF RequestInv, FreshOf, HandOf, SpentOf
  <2>3. KeptOf(r)'
    BY <1>1, <1>4 DEF KeptOf, Kept, Waited
  <2> QED BY <2>1, <2>2, <2>3 DEF RequestInv
<1> QED BY <1>1, <1>2, <1>3, <1>7, SetUpStep DEF SetupPCs

LEMMA StartClockStep ==
    ASSUME IInv, NEW r \in Requests, StartClock(r)
    PROVE  IInv'
<1> USE DEF IInv
<1>1. pc[r] = "start" /\ Goto(r, "check") /\ clock' = [clock EXCEPT ![r] = "ticking"]
  BY DEF StartClock
<1>2. UNCHANGED <<generation, up, request, replies, events, pending, messages, tombs, row, card, task,
                  on, seen, due, stale, clicks, readies, crossed>>
  BY DEF StartClock, server, shown, locals, ghosts
<1>3. TypeOK'
  <2>1. clock' \in [Requests -> {"none", "ticking", "elapsed"}]
    BY <1>1 DEF TypeOK
  <2> QED BY <1>1, <1>2, <2>1, SetUpTypes DEF TypeOK, PcOK, SetupPCs
<1>4. /\ pc'[r] = "check" /\ (\A w \in Workers : Held(w, r)' <=> Held(w, r))
      /\ (Live(r)' <=> Live(r)) /\ clock'[r] = "ticking"
      /\ \A x \in Requests \ {r} : clock'[x] = clock[x]
  BY <1>1, <1>2, SetUpMoves DEF Live, TypeOK
<1>5. RequestInv(r)
  OBVIOUS
<1>6. replies[r] = 0 /\ card[r] # "live" /\ r \notin due
      /\ \A w \in Workers : ~Held(w, r)
  BY <1>1, <1>5 DEF RequestInv, EarlyOf, Early
<1>7. RequestInv(r)'
  <2>1. EarlyOf(r)'
    BY <1>2, <1>4, <1>6 DEF EarlyOf, Starting
  <2>2. FreshOf(r)' /\ HandOf(r)' /\ SpentOf(r)'
    BY <1>1, <1>2, <1>4, <1>5, <1>6 DEF RequestInv, FreshOf, HandOf, SpentOf
  <2>3. KeptOf(r)'
    <3>1. r \notin crossed /\ request[r] = "waiting" /\ Live(r) => r \in pending
      BY <1>1, <1>5, <1>6 DEF RequestInv, KeptOf, Kept, InHand, Waited, Held
    <3> QED BY <1>2, <1>4, <3>1 DEF KeptOf, Kept, Waited
  <2> QED BY <2>1, <2>2, <2>3 DEF RequestInv
<1> QED BY <1>1, <1>2, <1>3, <1>4, <1>7, SetUpStep DEF SetupPCs

LEMMA TakeTombStep ==
    ASSUME IInv, NEW r \in Requests, TakeTomb(r)
    PROVE  IInv'
<1> USE DEF IInv
<1>1. /\ pc[r] = "arrived" /\ tombs' = tombs \ {r}
      /\ Goto(r, IF r \in tombs THEN "done" ELSE "save")
  BY DEF TakeTomb, Key
<1>2. UNCHANGED <<generation, up, request, replies, events, pending, clock, messages, row, card, task,
                  on, seen, due, stale, clicks, readies, crossed>>
  BY DEF TakeTomb, server, shown, locals, ghosts
<1>3. PICK p \in {"done", "save"} : Goto(r, p) /\ (p = "done" <=> r \in tombs)
  BY <1>1
<1>4. TypeOK'
  BY <1>1, <1>2, <1>3, SetUpTypes DEF TypeOK, PcOK, SetupPCs
<1>5. /\ pc'[r] = p /\ (\A w \in Workers : Held(w, r)' <=> Held(w, r))
      /\ (Live(r)' <=> Live(r))
  BY <1>2, <1>3, SetUpMoves DEF Live
<1>6. RequestInv(r)
  OBVIOUS
<1>7. RequestInv(r)'
  <2>1. EarlyOf(r)' /\ FreshOf(r)' /\ HandOf(r)' /\ SpentOf(r)'
    BY <1>1, <1>2, <1>5, <1>6 DEF RequestInv, FreshOf, HandOf, SpentOf, EarlyOf, Early, Starting
  <2>2. KeptOf(r)'
    <3>1. r \in tombs => request[r] # "waiting"
      BY DEF OverInv, Over
    <3> QED BY <1>2, <1>3, <1>5, <3>1 DEF KeptOf, Kept, InHand
  <2> QED BY <2>1, <2>2 DEF RequestInv
<1> QED BY <1>1, <1>2, <1>3, <1>4, <1>7, SetUpStep DEF SetupPCs

\* A request that is waited for is still pending when its handler looks again.
LEMMA CheckStep ==
    ASSUME IInv, NEW r \in Requests, Check(r)
    PROVE  IInv'
<1> USE DEF IInv
<1>1. pc[r] = "check" /\ tombs' = tombs \ {r} /\ pending' \subseteq pending
      /\ \A x \in Requests \ {r} : x \in pending' <=> x \in pending
  BY DEF Check, Key, Unregister
<1>2. UNCHANGED <<generation, up, request, replies, events, messages, card, task,
                  on, seen, due, stale, clicks, readies, crossed>>
  BY DEF Check, server, locals, ghosts
<1>3. /\ clock' \in [Requests -> {"none", "ticking", "elapsed"}] /\ row' \in [Requests -> RowStates]
      /\ \A x \in Requests \ {r} : clock'[x] = clock[x]
      /\ clock'[r] \in {clock[r], "none"}
  BY DEF Check, Unregister, TypeOK, RowStates
<1>4. PICK p \in {"done", "show"} :
        /\ Goto(r, p)
        /\ p = "done" => (r \in tombs \/ r \notin pending) /\ r \notin pending'
        /\ p = "show" => UNCHANGED <<pending, clock>>
  BY DEF Check, Key, Unregister
<1>5. TypeOK'
  BY <1>1, <1>2, <1>3, <1>4, SetUpTypes DEF TypeOK, PcOK, SetupPCs
<1>6. /\ pc'[r] = p /\ (\A w \in Workers : Held(w, r)' <=> Held(w, r))
      /\ (\A w \in Workers : Restoring(w, r)' <=> Restoring(w, r)) /\ (Live(r)' <=> Live(r))
  BY <1>2, <1>4, SetUpMoves DEF Live
<1>7. RequestInv(r)
  OBVIOUS
<1>8. replies[r] = 0 /\ card[r] # "live" /\ r \notin due /\ clock[r] # "elapsed"
      /\ \A w \in Workers : ~Held(w, r)
  BY <1>1, <1>7 DEF RequestInv, EarlyOf, Early
<1>9. RequestInv(r)'
  <2>1. EarlyOf(r)'
    BY <1>2, <1>3, <1>4, <1>6, <1>8 DEF EarlyOf, Starting
  <2>2. FreshOf(r)' /\ HandOf(r)' /\ SpentOf(r)'
    BY <1>1, <1>2, <1>4, <1>6, <1>7, <1>8 DEF RequestInv, FreshOf, HandOf, SpentOf
  <2>3. KeptOf(r)'
    <3>1. r \in tombs => request[r] # "waiting"
      BY DEF OverInv, Over
    <3>2. r \notin crossed /\ request[r] = "waiting" /\ Live(r)
            => r \in pending /\ (clock[r] # "none" \/ \E k \in Clickers : Restoring(k, r))
      BY <1>1, <1>7, <1>8 DEF RequestInv, KeptOf, Kept, InHand, Waited, Held, Restoring
    <3>3. CASE p = "done"
      BY <1>2, <1>4, <1>6, <3>1, <3>2, <3>3 DEF KeptOf, Kept
    <3>4. CASE p = "show"
      <4>1. ASSUME r \notin crossed', request'[r] = "waiting", Live(r)'
            PROVE  Waited(r)'
        <5>1. r \in pending' /\ (clock'[r] # "none" \/ \E k \in Clickers : Restoring(k, r))
          BY <1>2, <1>4, <1>6, <3>2, <3>4, <4>1
        <5>2. r \in pending' /\ (clock'[r] # "none" \/ \E k \in Clickers : Restoring(k, r)')
          BY <1>6, <5>1, Names
        <5> QED BY <5>2 DEF Waited, Restoring
      <4> QED BY <4>1 DEF KeptOf, Kept
    <3> QED BY <3>3, <3>4
  <2> QED BY <2>1, <2>2, <2>3 DEF RequestInv
<1> QED BY <1>1, <1>2, <1>3, <1>4, <1>5, <1>9, SetUpStep DEF SetupPCs

\* From here on the owner may use the card.
LEMMA SendStep ==
    ASSUME IInv, NEW r \in Requests, Send(r)
    PROVE  IInv'
<1> USE DEF IInv
<1>1. pc[r] = "send" /\ Goto(r, "place") /\ card' = [card EXCEPT ![r] = "live"]
  BY DEF Send
<1>2. UNCHANGED <<generation, up, request, replies, events, pending, clock, messages, tombs, row, task,
                  on, seen, due, stale, clicks, readies, crossed>>
  BY DEF Send, server, maps, locals, ghosts
<1>3. /\ card' \in [Requests -> {"none", "live", "retired"}]
      /\ \A x \in Requests \ {r} : card'[x] = card[x]
  BY <1>1 DEF TypeOK
<1>4. TypeOK'
  BY <1>1, <1>2, <1>3, SetUpTypes DEF TypeOK, PcOK, SetupPCs
<1>5. /\ pc'[r] = "place" /\ (\A w \in Workers : Held(w, r)' <=> Held(w, r))
      /\ (\A w \in Workers : Restoring(w, r)' <=> Restoring(w, r)) /\ (Live(r)' <=> Live(r))
  BY <1>1, <1>2, SetUpMoves DEF Live
<1>6. RequestInv(r)
  OBVIOUS
<1>7. RequestInv(r)'
  <2>1. EarlyOf(r)'
    BY <1>5 DEF EarlyOf, Early, Starting
  <2>2. FreshOf(r)' /\ HandOf(r)' /\ SpentOf(r)'
    BY <1>1, <1>2, <1>5, <1>6 DEF RequestInv, FreshOf, HandOf, SpentOf
  <2>3. KeptOf(r)'
    <3>1. r \notin crossed /\ request[r] = "waiting" /\ Live(r)
            => \/ \E w \in Workers : Held(w, r)
               \/ r \in pending /\ (clock[r] # "none" \/ \E k \in Clickers : Restoring(k, r))
      BY <1>1, <1>6 DEF RequestInv, KeptOf, Kept, InHand, Waited, Held, Restoring
    <3>2. r \notin crossed' /\ request'[r] = "waiting" /\ Live(r)'
            => \/ \E w \in Workers : Held(w, r)'
               \/ r \in pending' /\ (clock'[r] # "none" \/ \E k \in Clickers : Restoring(k, r)')
      BY <1>2, <1>5, <3>1, Names
    <3> QED BY <3>2 DEF KeptOf, Kept, InHand, Waited, Held, Restoring
  <2> QED BY <2>1, <2>2, <2>3 DEF RequestInv
<1> QED BY <1>1, <1>2, <1>3, <1>4, <1>7, SetUpStep DEF SetupPCs

\* The handler answers by itself, before anybody else can get at the request.
LEMMA RejectStep ==
    ASSUME IInv, NEW r \in Requests, pc[r] \in {"arrived", "save", "send"}, Reject(r),
           r \notin pending', pending' \subseteq pending,
           \A x \in Requests \ {r} : (x \in pending' <=> x \in pending) /\ clock'[x] = clock[x],
           clock' \in [Requests -> {"none", "ticking", "elapsed"}], row' \in [Requests -> RowStates],
           UNCHANGED <<messages, tombs, card, task, on, seen, due, stale, clicks, readies, crossed>>
    PROVE  IInv'
<1> USE DEF IInv
<1>1. Goto(r, "done") /\ (Replied(r) \/ NotReplied(r)) /\ EventsInv
  BY DEF Reject, OverInv
<1>2. /\ generation' \in 0..MaxGen /\ up' \in BOOLEAN
      /\ request' \in [Requests -> {"none", "waiting", "relay", "desktop"}]
      /\ replies' \in [Requests -> 0..2] /\ events' \in Seq(Requests) /\ EventsInv'
      /\ \A x \in Requests \ {r} : request'[x] = request[x] /\ replies'[x] = replies[x]
      /\ request'[r] = request[r] \/ (request[r] = "waiting" /\ request'[r] = "relay")
      /\ \A x \in Requests : Live(x)' => Live(x)
      /\ generation' = generation /\ (Live(r)' => request'[r] # "waiting")
      /\ replies[r] = 0 => replies'[r] <= 1
  BY <1>1, AnswerFacts
<1>3. /\ pc'[r] = "done" /\ \A x \in Requests \ {r} : pc'[x] = pc[x]
      /\ \A w \in Workers : pc'[w] = pc[w]
      /\ \A w \in Workers, x \in Requests :
            (Held(w, x)' <=> Held(w, x)) /\ (Restoring(w, x)' <=> Restoring(w, x))
  BY <1>1, SetUpMoves
<1>4. TypeOK'
  BY <1>1, <1>2, SetUpTypes DEF TypeOK, PcOK, SetupPCs
<1>5. RequestInv(r)'
  <2>1. RequestInv(r) /\ replies[r] = 0 /\ \A w \in Workers : ~Held(w, r)
    BY DEF RequestInv, EarlyOf, Early
  <2>2. EarlyOf(r)'
    BY <1>3 DEF EarlyOf, Early, Starting
  <2>3. FreshOf(r)' /\ HandOf(r)'
    BY <1>2, <1>3, <2>1 DEF RequestInv, FreshOf, HandOf
  <2>4. SpentOf(r)' /\ KeptOf(r)'
    BY <1>2, <1>3, <2>1 DEF SpentOf, KeptOf, Kept
  <2> QED BY <2>2, <2>3, <2>4 DEF RequestInv
<1>6. \A x \in Requests \ {r} : RequestInv(x)'
  <2> SUFFICES ASSUME NEW x \in Requests \ {r} PROVE RequestInv(x)'
    OBVIOUS
  <2>1. Aside(x)
    BY <1>2, <1>3 DEF Aside
  <2> QED BY <2>1, AsideStep
<1>7. OverInv'
  BY <1>2, <1>3, Names, OverStep DEF Over
<1>8. LocalInv'
  <2>1. \A t \in Threads : pc'[t] = "reactwrite" => pc[t] = "reactwrite"
    BY <1>3 DEF Threads
  <2> QED BY <1>3, <2>1 DEF LocalInv
<1> QED BY <1>4, <1>5, <1>6, <1>7, <1>8

LEMMA RejectSteps ==
    ASSUME IInv, NEW r \in Requests, AnswerAtOnce(r) \/ SendFails(r)
    PROVE  IInv'
<1> USE DEF IInv
<1>1. CASE AnswerAtOnce(r)
  <2>1. pc[r] = "arrived" /\ Reject(r)
    BY <1>1 DEF AnswerAtOnce
  <2>2. UNCHANGED <<pending, clock, row, messages, tombs, card, task, on, seen, due, stale, clicks,
                    readies, crossed>>
    BY <1>1 DEF AnswerAtOnce, maps, shown, locals, ghosts
  <2>3. r \notin pending
    BY <2>1 DEF RequestInv, EarlyOf, Starting
  <2> QED BY <2>1, <2>2, <2>3, RejectStep DEF TypeOK
<1>2. CASE SendFails(r)
  <2>1. /\ pc[r] = "send" /\ Reject(r) /\ pending' = pending \ {r}
        /\ clock' = [clock EXCEPT ![r] = "none"] /\ row' = [row EXCEPT ![r] = "none"]
    BY <1>2 DEF SendFails, Unregister
  <2>2. UNCHANGED <<messages, tombs, card, task, on, seen, due, stale, clicks, readies, crossed>>
    BY <1>2 DEF SendFails, locals, ghosts
  <2>3. /\ clock' \in [Requests -> {"none", "ticking", "elapsed"}] /\ row' \in [Requests -> RowStates]
        /\ \A x \in Requests \ {r} : clock'[x] = clock[x]
    BY <2>1 DEF TypeOK, RowStates
  <2> QED BY <2>1, <2>2, <2>3, RejectStep
<1> QED BY <1>1, <1>2

LEMMA SaveStep ==
    ASSUME IInv, NEW r \in Requests, Save(r)
    PROVE  IInv'
<1> USE DEF IInv
<1>1. pc[r] = "save" /\ r \notin pending
  BY DEF Save, RequestInv, EarlyOf, Starting
<1>2. UNCHANGED <<pending, clock, messages, tombs, card, task, on, seen, due, stale, clicks, readies,
                  crossed>>
  BY DEF Save, maps, locals, ghosts
<1>3. CASE UNCHANGED row /\ Reject(r)
  BY <1>1, <1>2, <1>3, RejectStep DEF TypeOK
<1>4. CASE row' = [row EXCEPT ![r] = "saved"] /\ Goto(r, "insert") /\ UNCHANGED server
  <2>1. UNCHANGED <<generation, up, request, replies, events>> /\ row' \in [Requests -> RowStates]
    BY <1>4 DEF server, TypeOK, RowStates
  <2>2. TypeOK'
    BY <1>2, <1>4, <2>1, SetUpTypes DEF TypeOK, PcOK, SetupPCs
  <2>3. /\ pc'[r] = "insert" /\ (\A w \in Workers : Held(w, r)' <=> Held(w, r))
        /\ (Live(r)' <=> Live(r))
    BY <1>2, <1>4, <2>1, SetUpMoves DEF Live
  <2>4. RequestInv(r)
    OBVIOUS
  <2>5. RequestInv(r)'
    <3>1. EarlyOf(r)' /\ FreshOf(r)' /\ HandOf(r)' /\ SpentOf(r)'
      BY <1>1, <1>2, <2>1, <2>3, <2>4 DEF RequestInv, FreshOf, HandOf, SpentOf, EarlyOf, Early, Starting
    <3>2. KeptOf(r)'
      BY <2>3 DEF KeptOf, Kept, InHand
    <3> QED BY <3>1, <3>2 DEF RequestInv
  <2> QED BY <1>1, <1>2, <1>4, <2>1, <2>2, <2>5, SetUpStep DEF SetupPCs
<1> QED BY <1>3, <1>4 DEF Save

-----------------------------------------------------------------------------
(* reactivate_unblocked_task                                                *)

\* It is about no request: it writes the task and frees its thread.
LEMMA ReactStep ==
    ASSUME IInv, NEW t \in Threads, React(t)
    PROVE  IInv'
<1> USE DEF IInv
<1>1. PICK p \in {"reactwrite", "done", "due", "idle"} :
        /\ Goto(t, p)
        /\ t \in Requests => p \in {"reactwrite", "done"}
        /\ t \in Workers => p \in {"reactwrite", "due", "idle"}
        /\ p = "reactwrite" => seen' = [seen EXCEPT ![t] = IF pending = {} THEN "running" ELSE task]
  <2>1. CASE ReactCheck(t)
    <3>1. Goto(t, "reactwrite")
          /\ seen' = [seen EXCEPT ![t] = IF pending = {} THEN "running" ELSE task]
      BY <2>1 DEF ReactCheck
    <3> QED BY <3>1
  <2>2. CASE ReactWrite(t) /\ t \in Requests
    <3>1. Goto(t, "done") /\ t \notin Workers
      BY <2>2, Names DEF ReactWrite, Free
    <3> QED BY <3>1
  <2>3. CASE ReactWrite(t) /\ t \notin Requests
    <3>1. Goto(t, "due") \/ Goto(t, "idle")
      BY <2>3 DEF ReactWrite, Free
    <3> QED BY <2>3, <3>1
  <2> QED BY <2>1, <2>2, <2>3 DEF React
<1>2. pc[t] \in {"react", "reactwrite"}
  BY DEF React, ReactCheck, ReactWrite
<1>3. UNCHANGED <<generation, up, request, replies, events, pending, clock, messages, tombs, row,
                  card, due, stale, clicks, readies, crossed>>
  BY DEF React, ReactCheck, ReactWrite, server, maps, shown, ghosts
<1>4. /\ on' \in [Workers -> Requests \cup {NoRequest}]
      /\ \A w \in Workers \ {t} : on'[w] = on[w]
  BY DEF React, ReactCheck, ReactWrite, Free, TypeOK
<1>5. task' \in {"running", "needs"}
  BY DEF React, ReactCheck, ReactWrite, TypeOK, LocalInv, shown
<1>6. /\ seen' \in [Threads -> {"none", "running", "needs"}]
      /\ \A u \in Threads \ {t} : seen'[u] = seen[u]
  BY DEF React, ReactCheck, ReactWrite, TypeOK
<1>7. p = "reactwrite" => seen'[t] \in {"running", "needs"}
  BY <1>1 DEF TypeOK
<1>8. /\ DOMAIN pc = Threads /\ DOMAIN pc' = Threads /\ pc'[t] = p
      /\ \A u \in Threads \ {t} : pc'[u] = pc[u]
  BY <1>1 DEF Goto, TypeOK
<1>9. PcOK'
  <2>1. \A r \in Requests : pc'[r] \in SetupPCs \cup ReactPCs
    BY <1>1, <1>8, Names DEF TypeOK, SetupPCs, ReactPCs
  <2>2. \A w \in Workers : pc'[w] \in WorkerPCs \cup ReactPCs
    BY <1>1, <1>8, Names DEF TypeOK, WorkerPCs, ReactPCs
  <2> QED BY <1>8, <2>1, <2>2 DEF PcOK
<1>10. TypeOK'
  BY <1>3, <1>4, <1>5, <1>6, <1>9 DEF TypeOK, PcOK
<1>11. \A w \in Workers, x \in Requests :
            (Held(w, x)' <=> Held(w, x)) /\ (Restoring(w, x)' <=> Restoring(w, x))
  <2> SUFFICES ASSUME NEW w \in Workers, NEW x \in Requests
               PROVE  (Held(w, x)' <=> Held(w, x)) /\ (Restoring(w, x)' <=> Restoring(w, x))
    OBVIOUS
  <2>1. CASE w = t
    BY <1>1, <1>2, <1>8, <2>1 DEF Held, Restoring
  <2>2. CASE w # t
    BY <1>4, <1>8, <2>2, Names DEF Held, Restoring
  <2> QED BY <2>1, <2>2
<1>12. ASSUME NEW x \in Requests PROVE RequestInv(x)'
  <2>1. \/ pc'[x] = pc[x]
        \/ pc[x] \notin Starting /\ pc'[x] \notin Starting /\ pc'[x] \notin Early
    BY <1>1, <1>2, <1>8, Names DEF Starting, Early
  <2>2. Aside(x)
    BY <1>3, <1>11, <2>1 DEF Aside, Live
  <2> QED BY <2>2, AsideStep
<1>13. LocalInv'
  <2>1. \A w \in Workers : pc'[w] \in Handling => on'[w] \in Requests
    <3> SUFFICES ASSUME NEW w \in Workers, pc'[w] \in Handling PROVE on'[w] \in Requests
      OBVIOUS
    <3>1. w # t
      BY <1>1, <1>8 DEF Handling
    <3> QED BY <1>4, <1>8, <3>1, Names DEF LocalInv
  <2>2. \A u \in Threads : pc'[u] = "reactwrite" => seen'[u] \in {"running", "needs"}
    BY <1>6, <1>7, <1>8 DEF LocalInv
  <2> QED BY <2>1, <2>2 DEF LocalInv
<1>14. OverInv'
  <2>1. EventsInv'
    BY <1>3, EventsKept DEF OverInv
  <2>2. CASE t = Consumer
    <3>1. pc'[Consumer] \notin {"tomb", "retire", "forget"}
      BY <1>1, <1>8, <2>2
    <3> QED BY <1>3, <2>1, <3>1 DEF OverInv
  <2>3. CASE t # Consumer
    <3>1. pc'[Consumer] = pc[Consumer] /\ on'[Consumer] = on[Consumer]
      BY <1>4, <1>8, <2>3, Names
    <3> QED BY <1>3, <2>1, <3>1, OverStep
  <2> QED BY <2>2, <2>3
<1> QED BY <1>10, <1>12, <1>13, <1>14

-----------------------------------------------------------------------------
(* The app-server and the clock                                             *)

\* A step outside the relay's threads leaves what they have in hand.
LEMMA OutsideStep ==
    ASSUME IInv, UNCHANGED <<on, seen, tombs, crossed>>, EventsInv',
           \A w \in Workers : pc'[w] = pc[w],
           \A x \in Requests : pc'[x] # pc[x] => pc'[x] # "reactwrite",
           \A x \in Requests : request[x] \in Over => request'[x] \in Over
    PROVE  LocalInv' /\ OverInv'
<1> USE DEF IInv
<1>1. OverInv'
  BY Names, OverStep
<1>2. \A t \in Threads : pc'[t] = "reactwrite" => pc[t] = "reactwrite"
  BY DEF Threads
<1>3. LocalInv'
  BY <1>2 DEF LocalInv
<1> QED BY <1>1, <1>3

LEMMA ReconnectStep ==
    ASSUME IInv, Reconnect
    PROVE  IInv'
<1> USE DEF IInv
<1>1. generation' = generation + 1 /\ up' = TRUE /\ generation < MaxGen
  BY DEF Reconnect
<1>2. UNCHANGED <<request, replies, events, pending, clock, messages, tombs, row, card, task, pc,
                  on, seen, due, stale, clicks, readies, crossed>>
  BY DEF Reconnect, maps, shown, locals, ghosts
<1>3. generation' \in 0..MaxGen /\ generation \in Nat /\ up' \in BOOLEAN
  BY <1>1, BoundsAssumption DEF TypeOK
<1>4. TypeOK'
  BY <1>2, <1>3 DEF TypeOK
<1>5. EventsInv'
  BY <1>2, EventsKept DEF OverInv
<1>6. LocalInv' /\ OverInv'
  BY <1>2, <1>5, OutsideStep
<1>7. ASSUME NEW x \in Requests PROVE RequestInv(x)'
  <2>1. RequestInv(x) /\ x[1] \in Nat
    BY BoundsAssumption DEF Requests, Gens
  <2>2. \A w \in Workers : Held(w, x)' <=> Held(w, x)
    BY <1>2 DEF Held
  <2>3. Live(x)' => pc[x] = "none"
    BY <1>1, <1>3, <2>1 DEF Live, RequestInv, FreshOf
  <2>4. EarlyOf(x)' /\ HandOf(x)'
    BY <1>2, <2>1, <2>2 DEF RequestInv, EarlyOf, HandOf
  <2>5. FreshOf(x)'
    BY <1>1, <1>2, <1>3, <2>1 DEF RequestInv, FreshOf
  <2>6. pc[x] = "none" => replies[x] = 0 /\ request[x] = "none"
    BY <2>1 DEF RequestInv, EarlyOf, FreshOf, Early
  <2>7. SpentOf(x)'
    BY <1>2, <2>1, <2>3, <2>6 DEF RequestInv, SpentOf
  <2>8. KeptOf(x)'
    BY <1>2, <2>3, <2>6 DEF KeptOf, Kept
  <2> QED BY <2>4, <2>5, <2>7, <2>8 DEF RequestInv
<1> QED BY <1>4, <1>6, <1>7

LEMMA LoseStep ==
    ASSUME IInv, Lose
    PROVE  IInv'
<1> USE DEF IInv
<1>1. up' = FALSE /\ UNCHANGED <<generation, request, replies, events, pending, clock, messages,
        tombs, row, card, task, pc, on, seen, due, stale, clicks, readies, crossed>>
  BY DEF Lose, maps, shown, locals, ghosts
<1>2. up' \in BOOLEAN
  BY <1>1
<1>3. TypeOK'
  BY <1>1, <1>2 DEF TypeOK
<1>4. EventsInv'
  BY <1>1, EventsKept DEF OverInv
<1>5. LocalInv' /\ OverInv'
  BY <1>1, <1>4, OutsideStep
<1>6. ASSUME NEW x \in Requests PROVE RequestInv(x)'
  <2>1. Aside(x)
    BY <1>1 DEF Aside, Live, Held, Restoring
  <2> QED BY <2>1, AsideStep
<1> QED BY <1>3, <1>5, <1>6

LEMMA AskStep ==
    ASSUME IInv, NEW r \in Requests, Ask(r)
    PROVE  IInv'
<1> USE DEF IInv
<1>1. Live(r) /\ request[r] = "none" /\ request' = [request EXCEPT ![r] = "waiting"]
      /\ Goto(r, "arrived")
  BY DEF Ask
<1>2. UNCHANGED <<generation, up, replies, events, pending, clock, messages, tombs, row, card, task,
                  on, seen, due, stale, clicks, readies, crossed>>
  BY DEF Ask, maps, shown, locals, ghosts
<1>3. /\ request' \in [Requests -> {"none", "waiting", "relay", "desktop"}]
      /\ request'[r] = "waiting" /\ \A x \in Requests \ {r} : request'[x] = request[x]
  BY <1>1 DEF TypeOK
<1>4. TypeOK'
  BY <1>1, <1>2, <1>3, SetUpTypes DEF TypeOK, PcOK, SetupPCs
<1>5. /\ pc'[r] = "arrived" /\ \A x \in Requests \ {r} : pc'[x] = pc[x]
      /\ \A w \in Workers : pc'[w] = pc[w]
      /\ \A w \in Workers, x \in Requests :
            (Held(w, x)' <=> Held(w, x)) /\ (Restoring(w, x)' <=> Restoring(w, x))
  BY <1>1, <1>2, SetUpMoves
<1>6. \A x \in Requests : request[x] \in Over => request'[x] \in Over
  BY <1>1, <1>3 DEF Over
<1>7. EventsInv'
  BY <1>2, <1>6, EventsKept DEF OverInv
<1>8. LocalInv' /\ OverInv'
  BY <1>2, <1>5, <1>6, <1>7, OutsideStep
<1>9. \A x \in Requests : Live(x)' <=> Live(x)
  BY <1>2 DEF Live
<1>10. RequestInv(r)'
  <2>1. RequestInv(r) /\ pc[r] = "none"
    BY <1>1 DEF RequestInv, FreshOf
  <2>2. EarlyOf(r)'
    BY <1>2, <1>5, <2>1 DEF RequestInv, EarlyOf, Early, Starting
  <2>3. FreshOf(r)'
    <3>1. generation \in Nat /\ r[1] = generation
      BY <1>1, BoundsAssumption DEF TypeOK, Live
    <3> QED BY <1>2, <1>3, <1>5, <3>1 DEF FreshOf
  <2>4. HandOf(r)' /\ SpentOf(r)'
    BY <1>2, <1>5, <1>9, <2>1 DEF RequestInv, HandOf, SpentOf
  <2>5. KeptOf(r)'
    BY <1>5 DEF KeptOf, Kept, InHand
  <2> QED BY <2>2, <2>3, <2>4, <2>5 DEF RequestInv
<1>11. \A x \in Requests \ {r} : RequestInv(x)'
  <2> SUFFICES ASSUME NEW x \in Requests \ {r} PROVE RequestInv(x)'
    OBVIOUS
  <2>1. Aside(x)
    BY <1>2, <1>3, <1>5, <1>9 DEF Aside
  <2> QED BY <2>1, AsideStep
<1> QED BY <1>4, <1>8, <1>10, <1>11

LEMMA DesktopStep ==
    ASSUME IInv, NEW r \in Requests, Desktop(r)
    PROVE  IInv'
<1> USE DEF IInv
<1>1. request[r] = "waiting" /\ request' = [request EXCEPT ![r] = "desktop"] /\ Announce(r)
  BY DEF Desktop
<1>2. UNCHANGED <<generation, up, replies, pending, clock, messages, tombs, row, card, task, pc,
                  on, seen, due, stale, clicks, readies, crossed>>
  BY DEF Desktop, maps, shown, locals, ghosts
<1>3. /\ request' \in [Requests -> {"none", "waiting", "relay", "desktop"}]
      /\ request'[r] = "desktop" /\ \A x \in Requests \ {r} : request'[x] = request[x]
  BY <1>1 DEF TypeOK
<1>4. \A x \in Requests : request[x] \in Over => request'[x] \in Over
  BY <1>1, <1>3 DEF Over
<1>5. events' \in Seq(Requests) /\ EventsInv'
  BY <1>1, <1>3, <1>4, AnnounceFacts DEF OverInv, Over
<1>6. TypeOK'
  BY <1>2, <1>3, <1>5 DEF TypeOK
<1>7. LocalInv' /\ OverInv'
  BY <1>2, <1>4, <1>5, OutsideStep
<1>8. \A x \in Requests : Live(x)' <=> Live(x)
  BY <1>2 DEF Live
<1>9. \A w \in Workers, x \in Requests :
            (Held(w, x)' <=> Held(w, x)) /\ (Restoring(w, x)' <=> Restoring(w, x))
  BY <1>2 DEF Held, Restoring
<1>10. RequestInv(r)'
  <2>1. RequestInv(r)
    OBVIOUS
  <2>2. EarlyOf(r)' /\ FreshOf(r)' /\ HandOf(r)' /\ SpentOf(r)'
    BY <1>1, <1>2, <1>3, <1>8, <1>9, <2>1 DEF RequestInv, EarlyOf, FreshOf, HandOf, SpentOf
  <2>3. KeptOf(r)'
    BY <1>3 DEF KeptOf, Kept
  <2> QED BY <2>2, <2>3 DEF RequestInv
<1>11. \A x \in Requests \ {r} : RequestInv(x)'
  <2> SUFFICES ASSUME NEW x \in Requests \ {r} PROVE RequestInv(x)'
    OBVIOUS
  <2>1. Aside(x)
    BY <1>2, <1>3, <1>8, <1>9 DEF Aside
  <2> QED BY <2>1, AsideStep
<1> QED BY <1>6, <1>7, <1>10, <1>11

LEMMA ElapseStep ==
    ASSUME IInv, NEW r \in Requests, Elapse(r)
    PROVE  IInv'
<1> USE DEF IInv
<1>1. pc[r] = "done" /\ clock' = [clock EXCEPT ![r] = "elapsed"]
  BY DEF Elapse
<1>2. UNCHANGED <<generation, up, request, replies, events, pending, messages, tombs, row, card, task,
                  pc, on, seen, due, stale, clicks, readies, crossed>>
  BY DEF Elapse, server, shown, locals, ghosts
<1>3. /\ clock' \in [Requests -> {"none", "ticking", "elapsed"}] /\ clock'[r] = "elapsed"
      /\ \A x \in Requests \ {r} : clock'[x] = clock[x]
  BY <1>1 DEF TypeOK
<1>4. TypeOK'
  BY <1>2, <1>3 DEF TypeOK
<1>5. EventsInv'
  BY <1>2, EventsKept DEF OverInv
<1>6. LocalInv' /\ OverInv'
  BY <1>2, <1>5, OutsideStep
<1>7. \A x \in Requests : Live(x)' <=> Live(x)
  BY <1>2 DEF Live
<1>8. \A w \in Workers, x \in Requests :
            (Held(w, x)' <=> Held(w, x)) /\ (Restoring(w, x)' <=> Restoring(w, x))
  BY <1>2 DEF Held, Restoring
<1>9. RequestInv(r)'
  <2>1. RequestInv(r)
    OBVIOUS
  <2>2. EarlyOf(r)'
    BY <1>1, <1>2 DEF EarlyOf, Early, Starting
  <2>3. FreshOf(r)' /\ HandOf(r)' /\ SpentOf(r)'
    BY <1>2, <1>7, <1>8, <2>1 DEF RequestInv, FreshOf, HandOf, SpentOf
  <2>4. KeptOf(r)'
    BY <1>2, <1>3, <1>7, <2>1 DEF RequestInv, KeptOf, Kept, InHand, Waited
  <2> QED BY <2>2, <2>3, <2>4 DEF RequestInv
<1>10. \A x \in Requests \ {r} : RequestInv(x)'
  <2> SUFFICES ASSUME NEW x \in Requests \ {r} PROVE RequestInv(x)'
    OBVIOUS
  <2>1. Aside(x)
    BY <1>2, <1>3, <1>7, <1>8 DEF Aside
  <2> QED BY <2>1, AsideStep
<1> QED BY <1>4, <1>6, <1>9, <1>10

-----------------------------------------------------------------------------
(* Another thread goes on                                                   *)

LEMMA WorkerTypes ==
    ASSUME TypeOK, NEW w \in Workers, NEW p \in WorkerPCs \cup ReactPCs, Goto(w, p)
    PROVE  PcOK'
<1>1. DOMAIN pc' = Threads /\ pc'[w] = p /\ \A t \in Threads \ {w} : pc'[t] = pc[t]
  BY Names DEF TypeOK, Goto
<1>2. \A r \in Requests : pc'[r] \in SetupPCs \cup ReactPCs
  BY <1>1, Names DEF TypeOK
<1>3. \A u \in Workers : pc'[u] \in WorkerPCs \cup ReactPCs
  BY <1>1, Names DEF TypeOK
<1> QED BY <1>1, <1>2, <1>3 DEF PcOK

\* What a step of thread w leaves of a request that it is not about.
Beside(w, r) ==
    /\ generation' = generation /\ (Live(r)' => Live(r))
    /\ request'[r] = request[r] /\ replies'[r] = replies[r]
    /\ r \in pending' <=> r \in pending
    /\ clock'[r] = clock[r]
    /\ card'[r] = "live" => card[r] = "live"
    /\ r \in due' => r \in due \/ clock[r] = "elapsed"
    /\ Held(w, r)' <=> Held(w, r)
    /\ Restoring(w, r) => Restoring(w, r)'
    /\ r \in crossed => r \in crossed'

LEMMA WorkerStep ==
    ASSUME IInv, TypeOK', OverInv', NEW w \in Workers, NEW p, Goto(w, p), p # "reactwrite",
           p \in Handling => on'[w] \in Requests,
           UNCHANGED seen, \A u \in Workers \ {w} : on'[u] = on[u],
           \A x \in Requests : Beside(w, x) \/ RequestInv(x)'
    PROVE  IInv'
<1> USE DEF IInv
<1>1. /\ pc'[w] = p /\ \A x \in Requests : pc'[x] = pc[x]
      /\ \A u \in Workers \ {w} : pc'[u] = pc[u]
      /\ \A u \in Workers \ {w}, x \in Requests :
            (Held(u, x)' <=> Held(u, x)) /\ (Restoring(u, x)' <=> Restoring(u, x))
  BY WorkerMoves
<1>2. ASSUME NEW x \in Requests PROVE RequestInv(x)'
  <2>1. CASE Beside(w, x)
    <3>1. \A u \in Workers :
            (Held(u, x)' <=> Held(u, x)) /\ (Restoring(u, x) => Restoring(u, x)')
      BY <1>1, <2>1 DEF Beside
    <3>2. Aside(x)
      BY <1>1, <2>1, <3>1 DEF Beside, Aside
    <3> QED BY <3>2, AsideStep
  <2> QED BY <2>1
<1>3. \A u \in Workers : pc'[u] \in Handling => on'[u] \in Requests
  BY <1>1 DEF LocalInv
<1>4. \A t \in Threads : pc'[t] = "reactwrite" => pc[t] = "reactwrite"
  BY <1>1 DEF Threads
<1>5. LocalInv'
  BY <1>3, <1>4 DEF LocalInv
<1> QED BY <1>2, <1>5

\* A thread that is not the consumer leaves the events and tombstones as they are.
LEMMA OtherOver ==
    ASSUME IInv, EventsInv', NEW w \in Workers \ {Consumer}, NEW p, Goto(w, p),
           UNCHANGED <<tombs, crossed>>, \A u \in Workers \ {w} : on'[u] = on[u],
           \A x \in Requests : request[x] \in Over => request'[x] \in Over
    PROVE  OverInv'
<1> USE DEF IInv
<1>1. pc'[Consumer] = pc[Consumer] /\ on'[Consumer] = on[Consumer]
  BY Names, WorkerMoves
<1> QED BY <1>1, OverStep

Hands == {"reply", "restore", "expire", "expireblind"}

\* A step that takes up, or lays down, nothing.
LEMMA IdleStep ==
    ASSUME IInv, NEW w \in Workers \ {Consumer}, NEW p \in WorkerPCs \ Handling, Goto(w, p),
           pc[w] \notin Hands \cup {"restart"},
           UNCHANGED <<server, pending, clock, tombs, seen, crossed>>,
           \A u \in Workers \ {w} : on'[u] = on[u],
           on' \in [Workers -> Requests \cup {NoRequest}],
           messages' \subseteq Requests, row' \in [Requests -> RowStates],
           card' \in [Requests -> {"none", "live", "retired"}],
           \A x \in Requests : card'[x] = "live" => card[x] = "live",
           UNCHANGED task, due' \subseteq Requests,
           \A x \in Requests : x \in due' => x \in due \/ clock[x] = "elapsed",
           stale' \in [Requests -> RowStates], clicks' = clicks, readies' \in 0..MaxReadies
    PROVE  IInv'
<1> USE DEF IInv
<1>1. UNCHANGED <<generation, up, request, replies, events>>
  BY DEF server
<1>2. TypeOK'
  BY <1>1, WorkerTypes DEF TypeOK, PcOK
<1>3. EventsInv'
  BY <1>1, EventsKept DEF OverInv
<1>4. OverInv'
  BY <1>1, <1>3, OtherOver
<1>5. pc'[w] = p
  BY WorkerMoves
<1>6. ASSUME NEW x \in Requests PROVE Beside(w, x)
  <2>1. ~Held(w, x) /\ ~Held(w, x)' /\ ~Restoring(w, x)
    BY <1>5 DEF Held, Restoring, Handling, Hands
  <2> QED BY <1>1, <2>1 DEF Beside, Live
<1>7. p # "reactwrite"
  BY DEF WorkerPCs
<1> QED BY <1>2, <1>4, <1>6, <1>7, WorkerStep

\* The step that takes a pending request out of the map.
LEMMA TakeStep ==
    ASSUME IInv, NEW w \in Workers \ {Consumer}, NEW r \in Requests,
           NEW p \in {"reply", "expire", "expireblind"}, Goto(w, p),
           pc[w] \notin Hands \cup {"restart"}, r \in pending, pc[r] \notin Early,
           pending' = pending \ {r}, clock' = [clock EXCEPT ![r] = "none"],
           messages' = messages \ {r}, on' = [on EXCEPT ![w] = r], due' \subseteq due,
           UNCHANGED <<server, tombs, shown, seen, stale, readies, crossed>>,
           clicks' \in 0..MaxClicks
    PROVE  IInv'
<1> USE DEF IInv
<1>1. UNCHANGED <<generation, up, request, replies, events, row, card, task>>
  BY DEF server, shown
<1>2. /\ on' \in [Workers -> Requests \cup {NoRequest}] /\ on'[w] = r
      /\ \A u \in Workers \ {w} : on'[u] = on[u]
      /\ clock' \in [Requests -> {"none", "ticking", "elapsed"}] /\ clock'[r] = "none"
      /\ \A x \in Requests \ {r} : clock'[x] = clock[x]
  BY DEF TypeOK
<1>3. p \in WorkerPCs /\ p # "reactwrite"
  BY DEF WorkerPCs
<1>4. TypeOK'
  BY <1>1, <1>2, <1>3, WorkerTypes DEF TypeOK, PcOK
<1>5. EventsInv'
  BY <1>1, EventsKept DEF OverInv
<1>6. OverInv'
  BY <1>1, <1>2, <1>5, OtherOver
<1>7. /\ pc'[w] = p /\ \A x \in Requests : pc'[x] = pc[x]
      /\ \A u \in Workers \ {w}, x \in Requests :
            (Held(u, x)' <=> Held(u, x)) /\ (Restoring(u, x)' <=> Restoring(u, x))
  BY <1>2, WorkerMoves
<1>8. ASSUME NEW x \in Requests PROVE Beside(w, x) \/ RequestInv(x)'
  <2>1. CASE x # r
    <3>1. ~Held(w, x) /\ ~Held(w, x)' /\ ~Restoring(w, x)
      BY <1>2, <2>1 DEF Held, Restoring, Hands
    <3> QED BY <1>1, <1>2, <2>1, <3>1 DEF Beside, Live
  <2>2. CASE x = r
    <3>1. RequestInv(r) /\ Held(w, r)'
      BY <1>2, <1>7 DEF Held
    <3>2. \A u \in Workers \ {w} : ~Held(u, r)'
      BY <1>7, <3>1 DEF RequestInv, HandOf
    <3>3. EarlyOf(r)'
      BY <1>7 DEF EarlyOf, Early, Starting
    <3>4. FreshOf(r)'
      BY <1>1, <1>7, <3>1 DEF RequestInv, FreshOf
    <3>5. HandOf(r)'
      BY <3>2 DEF HandOf
    <3>6. Live(r)' <=> Live(r)
      BY <1>1 DEF Live
    <3>7. SpentOf(r)'
      BY <1>1, <3>1, <3>6 DEF RequestInv, SpentOf
    <3>8. KeptOf(r)'
      BY <3>1 DEF KeptOf, Kept, InHand, Held
    <3> QED BY <2>2, <3>3, <3>4, <3>5, <3>7, <3>8 DEF RequestInv
  <2> QED BY <2>1, <2>2
<1> QED BY <1>2, <1>3, <1>4, <1>6, <1>8, WorkerStep

-----------------------------------------------------------------------------
(* A request in hand is answered                                            *)

\* Whoever has a request in hand is the only one, and it was not answered before
\* unless its process is gone.
LEMMA InHandFacts ==
    ASSUME IInv, NEW w \in Workers, pc[w] \in Hands
    PROVE  /\ on[w] \in Requests /\ Held(w, on[w]) /\ on[w] \notin pending
           /\ \A u \in Workers \ {w} : ~Held(u, on[w])
           /\ pc[on[w]] \notin Early
           /\ replies[on[w]] \in {0, 1} /\ (Live(on[w]) => replies[on[w]] = 0)
           /\ \A x \in Requests : Held(w, x) <=> x = on[w]
<1> USE DEF IInv
<1>1. on[w] \in Requests /\ Held(w, on[w])
  BY DEF LocalInv, Handling, Held, Hands
<1>2. RequestInv(on[w])
  BY <1>1
<1>3. on[w] \notin pending /\ (\A u \in Workers \ {w} : ~Held(u, on[w])) /\ pc[on[w]] \notin Early
  BY <1>1, <1>2 DEF RequestInv, HandOf, EarlyOf
<1>4. replies[on[w]] \in {0, 1}
  <2>1. replies[on[w]] \in 0..2
    BY <1>1 DEF TypeOK
  <2> QED BY <1>2, <2>1 DEF RequestInv, SpentOf
<1>5. Live(on[w]) => replies[on[w]] = 0
  BY <1>1, <1>2, <1>4 DEF RequestInv, SpentOf
<1>6. \A x \in Requests : Held(w, x) <=> x = on[w]
  BY <1>1 DEF Held
<1> QED BY <1>1, <1>3, <1>4, <1>5, <1>6

LEMMA AnswerStep ==
    ASSUME IInv, NEW w \in Workers \ {Consumer}, pc[w] \in Hands,
           Replied(on[w]) \/ NotReplied(on[w]), Goto(w, "react"),
           row' \in [Requests -> RowStates], card' \in [Requests -> {"none", "live", "retired"}],
           \A x \in Requests : card'[x] = "live" => card[x] = "live",
           UNCHANGED <<maps, task, locals, ghosts>>
    PROVE  IInv'
<1> USE DEF IInv
<1>1. UNCHANGED <<pending, clock, messages, tombs, task, on, seen, due, stale, clicks, readies, crossed>>
  BY DEF maps, locals, ghosts
<1>2. PICK r \in Requests : r = on[w]
  BY InHandFacts
<1>3. /\ Held(w, r) /\ r \notin pending /\ (\A u \in Workers \ {w} : ~Held(u, r))
      /\ pc[r] \notin Early /\ replies[r] \in {0, 1} /\ (Live(r) => replies[r] = 0)
      /\ \A x \in Requests : Held(w, x) <=> x = r
  BY <1>2, InHandFacts
<1>4. EventsInv /\ (Replied(r) \/ NotReplied(r))
  BY <1>2 DEF OverInv
<1>5. /\ generation' \in 0..MaxGen /\ up' \in BOOLEAN
      /\ request' \in [Requests -> {"none", "waiting", "relay", "desktop"}]
      /\ replies' \in [Requests -> 0..2] /\ events' \in Seq(Requests) /\ EventsInv'
      /\ \A x \in Requests \ {r} : request'[x] = request[x] /\ replies'[x] = replies[x]
      /\ request'[r] = request[r] \/ (request[r] = "waiting" /\ request'[r] = "relay")
      /\ \A x \in Requests : Live(x)' => Live(x)
      /\ generation' = generation /\ (Live(r)' => request'[r] # "waiting")
      /\ replies[r] = 0 => replies'[r] <= 1
      /\ ~Live(r) => replies'[r] = replies[r]
  BY <1>4, AnswerFacts
<1>6. "react" \in WorkerPCs \cup ReactPCs
  BY DEF ReactPCs
<1>7. TypeOK'
  BY <1>1, <1>5, <1>6, WorkerTypes DEF TypeOK, PcOK
<1>8. OverInv'
  BY <1>1, <1>5, OtherOver DEF Over
<1>9. /\ pc'[w] = "react" /\ \A x \in Requests : pc'[x] = pc[x]
      /\ \A u \in Workers \ {w}, x \in Requests :
            (Held(u, x)' <=> Held(u, x)) /\ (Restoring(u, x)' <=> Restoring(u, x))
  BY <1>1, WorkerMoves
<1>10. \A x \in Requests : ~Held(w, x)' /\ ~Restoring(w, x)
  BY <1>9 DEF Held, Restoring, Hands
<1>11. ASSUME NEW x \in Requests PROVE Beside(w, x) \/ RequestInv(x)'
  <2>1. CASE x # r
    BY <1>1, <1>3, <1>5, <1>10, <2>1 DEF Beside
  <2>2. CASE x = r
    <3>1. RequestInv(r)
      OBVIOUS
    <3>2. EarlyOf(r)'
      BY <1>3, <1>9 DEF EarlyOf, Early, Starting
    <3>3. FreshOf(r)'
      BY <1>5, <1>9, <3>1 DEF RequestInv, FreshOf
    <3>4. (\A u \in Workers : ~Held(u, r)') /\ r \notin pending'
      BY <1>1, <1>3, <1>9, <1>10
    <3>5. HandOf(r)'
      BY <3>4 DEF HandOf
    <3>6. replies'[r] <= 1
      BY <1>3, <1>5
    <3>7. SpentOf(r)'
      BY <3>4, <3>6 DEF SpentOf
    <3>8. KeptOf(r)'
      BY <1>5 DEF KeptOf, Kept
    <3> QED BY <2>2, <3>2, <3>3, <3>5, <3>7, <3>8 DEF RequestInv
  <2> QED BY <2>1, <2>2
<1>12. "react" \notin Handling
  BY DEF Handling
<1> QED BY <1>1, <1>7, <1>8, <1>11, <1>12, WorkerStep

LEMMA NotAnsweredStep ==
    ASSUME IInv, NEW k \in Clickers, NotAnswered(k)
    PROVE  IInv'
<1> USE DEF IInv
<1>1. /\ pc[k] = "reply" /\ Goto(k, "restore") /\ (NotReplied(on[k]) \/ UNCHANGED server)
      /\ UNCHANGED <<pending, clock, messages, tombs, row, card, task, on, seen, due, stale, clicks,
                     readies, crossed>>
  BY DEF NotAnswered, maps, shown, locals, ghosts
<1>2. k \in Workers \ {Consumer}
  BY Names
<1>3. pc[k] \in Hands
  BY <1>1 DEF Hands
<1>4. PICK r \in Requests : r = on[k]
  BY <1>2, <1>3, InHandFacts
<1>5. /\ Held(k, r) /\ r \notin pending /\ (\A u \in Workers \ {k} : ~Held(u, r))
      /\ pc[r] \notin Early /\ replies[r] \in {0, 1} /\ (Live(r) => replies[r] = 0)
      /\ \A x \in Requests : Held(k, x) <=> x = r
  BY <1>2, <1>3, <1>4, InHandFacts
<1>6. EventsInv
  BY DEF OverInv
<1>7. /\ generation' \in 0..MaxGen /\ up' \in BOOLEAN
      /\ request' \in [Requests -> {"none", "waiting", "relay", "desktop"}]
      /\ replies' \in [Requests -> 0..2] /\ events' \in Seq(Requests) /\ EventsInv'
      /\ \A x \in Requests \ {r} : request'[x] = request[x] /\ replies'[x] = replies[x]
      /\ request'[r] = request[r] \/ (request[r] = "waiting" /\ request'[r] = "relay")
      /\ \A x \in Requests : Live(x)' => Live(x)
      /\ generation' = generation /\ replies'[r] <= 1
  <2>1. CASE NotReplied(on[k])
    <3>1. NotReplied(r)
      BY <1>4, <2>1
    <3> QED BY <1>5, <1>6, <3>1, AnswerFacts
  <2>2. CASE UNCHANGED server
    <3>1. UNCHANGED <<generation, up, request, replies, events>>
      BY <2>2 DEF server
    <3>2. EventsInv'
      BY <1>6, <3>1, EventsKept
    <3>3. \A x \in Requests : Live(x)' <=> Live(x)
      BY <3>1 DEF Live
    <3> QED BY <1>5, <3>1, <3>2, <3>3 DEF TypeOK
  <2> QED BY <1>1, <2>1, <2>2
<1>8. Live(r)' => replies'[r] = 0
  <2>1. CASE NotReplied(on[k])
    <3>1. Live(r) => up' = FALSE
      BY <1>4, <2>1 DEF NotReplied
    <3>2. ~Live(r)'
      BY <1>7, <3>1 DEF Live
    <3> QED BY <3>2
  <2>2. CASE UNCHANGED server
    BY <1>5, <1>7, <2>2 DEF server
  <2> QED BY <1>1, <2>1, <2>2
<1>9. "restore" \in WorkerPCs \cup ReactPCs
  BY DEF WorkerPCs
<1>10. TypeOK'
  BY <1>1, <1>2, <1>7, <1>9, WorkerTypes DEF TypeOK, PcOK
<1>11. OverInv'
  BY <1>1, <1>2, <1>7, OtherOver DEF Over
<1>12. /\ pc'[k] = "restore" /\ \A x \in Requests : pc'[x] = pc[x]
       /\ \A u \in Workers \ {k}, x \in Requests :
            (Held(u, x)' <=> Held(u, x)) /\ (Restoring(u, x)' <=> Restoring(u, x))
  BY <1>1, <1>2, WorkerMoves
<1>13. \A x \in Requests : (Held(k, x)' <=> x = r) /\ ~Restoring(k, x)
  BY <1>1, <1>4, <1>12 DEF Held, Restoring
<1>14. ASSUME NEW x \in Requests PROVE Beside(k, x) \/ RequestInv(x)'
  <2>1. CASE x # r
    BY <1>1, <1>5, <1>7, <1>13, <2>1 DEF Beside
  <2>2. CASE x = r
    <3>1. RequestInv(r)
      OBVIOUS
    <3>2. EarlyOf(r)'
      BY <1>5, <1>12 DEF EarlyOf, Early, Starting
    <3>3. FreshOf(r)'
      BY <1>7, <1>12, <3>1 DEF RequestInv, FreshOf
    <3>4. Held(k, r)' /\ r \notin pending' /\ \A u \in Workers \ {k} : ~Held(u, r)'
      BY <1>1, <1>5, <1>12, <1>13
    <3>5. HandOf(r)'
      BY <3>4 DEF HandOf
    <3>6. SpentOf(r)'
      BY <1>7, <1>8 DEF SpentOf
    <3>7. KeptOf(r)'
      BY <1>2, <3>4 DEF KeptOf, Kept, InHand, Held
    <3> QED BY <2>2, <3>2, <3>3, <3>5, <3>6, <3>7 DEF RequestInv
  <2> QED BY <2>1, <2>2
<1>15. on'[k] \in Requests /\ \A u \in Workers \ {k} : on'[u] = on[u]
  BY <1>1, <1>4
<1> QED BY <1>1, <1>2, <1>10, <1>11, <1>14, <1>15, WorkerStep

-----------------------------------------------------------------------------
(* restore_pending_request                                                  *)

\* A map at a time: the request is pending again with its clock still to come.
LEMMA RestorePendingStep ==
    ASSUME IInv, NEW k \in Clickers, RestorePending(k)
    PROVE  IInv'
<1> USE DEF IInv
<1>1. /\ pc[k] = "restore" /\ Goto(k, "restart") /\ pending' = pending \cup {on[k]}
      /\ UNCHANGED <<generation, up, request, replies, events, clock, messages, tombs, row, card, task,
                     on, seen, due, stale, clicks, readies, crossed>>
  BY DEF RestorePending, PutBack, server, shown, locals, ghosts
<1>2. k \in Workers \ {Consumer}
  BY Names
<1>3. pc[k] \in Hands
  BY <1>1 DEF Hands
<1>4. PICK r \in Requests : r = on[k]
  BY <1>2, <1>3, InHandFacts
<1>5. /\ Held(k, r) /\ r \notin pending /\ (\A u \in Workers \ {k} : ~Held(u, r))
      /\ pc[r] \notin Early /\ replies[r] \in {0, 1} /\ (Live(r) => replies[r] = 0)
      /\ \A x \in Requests : Held(k, x) <=> x = r
  BY <1>2, <1>3, <1>4, InHandFacts
<1>6. TypeOK'
  BY <1>1, <1>2, <1>4, WorkerTypes DEF TypeOK, PcOK, WorkerPCs
<1>7. EventsInv'
  BY <1>1, EventsKept DEF OverInv
<1>8. OverInv'
  BY <1>1, <1>2, <1>7, OtherOver
<1>9. /\ pc'[k] = "restart" /\ \A x \in Requests : pc'[x] = pc[x]
      /\ \A u \in Workers \ {k}, x \in Requests :
            (Held(u, x)' <=> Held(u, x)) /\ (Restoring(u, x)' <=> Restoring(u, x))
  BY <1>1, <1>2, WorkerMoves
<1>10. /\ \A x \in Requests : ~Held(k, x)' /\ ~Restoring(k, x)
       /\ Restoring(k, r)'
  BY <1>1, <1>4, <1>9 DEF Held, Restoring
<1>11. \A x \in Requests : Live(x)' <=> Live(x)
  BY <1>1 DEF Live
<1>12. ASSUME NEW x \in Requests PROVE Beside(k, x) \/ RequestInv(x)'
  <2>1. CASE x # r
    BY <1>1, <1>4, <1>5, <1>10, <1>11, <2>1 DEF Beside
  <2>2. CASE x = r
    <3>1. RequestInv(r)
      OBVIOUS
    <3>2. EarlyOf(r)'
      BY <1>5, <1>9 DEF EarlyOf, Early, Starting
    <3>3. FreshOf(r)'
      BY <1>1, <1>9, <3>1 DEF RequestInv, FreshOf
    <3>4. \A u \in Workers : ~Held(u, r)'
      BY <1>5, <1>9, <1>10
    <3>5. HandOf(r)'
      BY <3>4 DEF HandOf
    <3>6. SpentOf(r)'
      BY <1>1, <1>5, <1>11 DEF SpentOf
    <3>7. KeptOf(r)'
      BY <1>1, <1>4, <1>10 DEF KeptOf, Kept, Waited, Restoring
    <3> QED BY <2>2, <3>2, <3>3, <3>5, <3>6, <3>7 DEF RequestInv
  <2> QED BY <2>1, <2>2
<1>13. on'[k] \in Requests /\ \A u \in Workers \ {k} : on'[u] = on[u]
  BY <1>1, <1>4
<1> QED BY <1>1, <1>2, <1>6, <1>8, <1>12, <1>13, WorkerStep

LEMMA RestoreClockStep ==
    ASSUME IInv, NEW k \in Clickers, RestoreClock(k)
    PROVE  IInv'
<1> USE DEF IInv
<1>1. /\ pc[k] = "restart" /\ Goto(k, "repost")
      /\ clock' = [clock EXCEPT ![on[k]] = IF @ = "none" THEN "ticking" ELSE @]
      /\ UNCHANGED <<generation, up, request, replies, events, pending, messages, tombs, row, card, task,
                     on, seen, due, stale, clicks, readies, crossed>>
  BY DEF RestoreClock, server, shown, locals, ghosts
<1>2. k \in Workers \ {Consumer}
  BY Names
<1>3. PICK r \in Requests : r = on[k]
  BY <1>1, <1>2 DEF LocalInv, Handling
<1>4. /\ clock' \in [Requests -> {"none", "ticking", "elapsed"}]
      /\ clock'[r] # "none" /\ (clock'[r] = "elapsed" => clock[r] = "elapsed")
      /\ \A x \in Requests \ {r} : clock'[x] = clock[x]
  BY <1>1, <1>3 DEF TypeOK
<1>5. TypeOK'
  BY <1>1, <1>2, <1>4, WorkerTypes DEF TypeOK, PcOK, WorkerPCs
<1>6. EventsInv'
  BY <1>1, EventsKept DEF OverInv
<1>7. OverInv'
  BY <1>1, <1>2, <1>6, OtherOver
<1>8. /\ pc'[k] = "repost" /\ \A x \in Requests : pc'[x] = pc[x]
      /\ \A u \in Workers \ {k}, x \in Requests :
            (Held(u, x)' <=> Held(u, x)) /\ (Restoring(u, x)' <=> Restoring(u, x))
  BY <1>1, <1>2, WorkerMoves
<1>9. /\ \A x \in Requests : ~Held(k, x)' /\ ~Held(k, x)
      /\ \A x \in Requests \ {r} : ~Restoring(k, x)
  BY <1>1, <1>3, <1>8 DEF Held, Restoring
<1>10. \A x \in Requests : Live(x)' <=> Live(x)
  BY <1>1 DEF Live
<1>11. ASSUME NEW x \in Requests PROVE Beside(k, x) \/ RequestInv(x)'
  <2>1. CASE x # r
    BY <1>1, <1>4, <1>9, <1>10, <2>1 DEF Beside
  <2>2. CASE x = r
    <3>1. RequestInv(r)
      OBVIOUS
    <3>2. \A u \in Workers : Held(u, r)' <=> Held(u, r)
      BY <1>8, <1>9
    <3>3. EarlyOf(r)' /\ FreshOf(r)' /\ HandOf(r)' /\ SpentOf(r)'
      BY <1>1, <1>4, <1>8, <1>10, <3>1, <3>2
         DEF RequestInv, EarlyOf, FreshOf, HandOf, SpentOf
    <3>4. KeptOf(r)'
      <4>1. r \notin crossed /\ request[r] = "waiting" /\ Live(r)
              => \/ pc[r] \in {"arrived", "save", "insert"}
                 \/ \E w \in Workers : Held(w, r)
                 \/ r \in pending
        BY <3>1 DEF RequestInv, KeptOf, Kept, InHand, Waited, Held
      <4>2. r \notin crossed' /\ request'[r] = "waiting" /\ Live(r)'
              => \/ pc'[r] \in {"arrived", "save", "insert"}
                 \/ \E w \in Workers : Held(w, r)'
                 \/ r \in pending'
        BY <1>1, <1>8, <1>10, <3>2, <4>1
      <4> QED BY <1>4, <4>2 DEF KeptOf, Kept, InHand, Waited, Held
    <3> QED BY <2>2, <3>3, <3>4 DEF RequestInv
  <2> QED BY <2>1, <2>2
<1>12. on'[k] \in Requests /\ \A u \in Workers \ {k} : on'[u] = on[u]
  BY <1>1, <1>3
<1> QED BY <1>1, <1>2, <1>5, <1>7, <1>11, <1>12, WorkerStep

LEMMA RestoreCardStep ==
    ASSUME IInv, NEW k \in Clickers, RestoreCard(k)
    PROVE  IInv'
<1> USE DEF IInv
<1>1. /\ pc[k] = "repost" /\ messages' = messages \cup {on[k]}
      /\ UNCHANGED <<server, pending, clock, tombs, row, card, task, seen, due, stale, clicks, readies,
                     crossed>>
  BY DEF RestoreCard, shown, ghosts
<1>2. k \in Workers \ {Consumer}
  BY Names
<1>3. Goto(k, "idle") /\ on' = [on EXCEPT ![k] = NoRequest]
  BY <1>1, <1>2 DEF RestoreCard, Free
<1>4. on[k] \in Requests
  BY <1>1, <1>2 DEF LocalInv, Handling
<1>5. /\ on' \in [Workers -> Requests \cup {NoRequest}]
      /\ \A u \in Workers \ {k} : on'[u] = on[u]
  BY <1>2, <1>3 DEF TypeOK
<1>6. "idle" \in WorkerPCs \ Handling /\ pc[k] \notin Hands \cup {"restart"}
  BY <1>1 DEF WorkerPCs, Handling, Hands
<1>7. messages' \subseteq Requests /\ due' \subseteq Requests /\ readies' \in 0..MaxReadies
      /\ row' \in [Requests -> RowStates] /\ card' \in [Requests -> {"none", "live", "retired"}]
      /\ stale' \in [Requests -> RowStates]
  BY <1>1, <1>4 DEF TypeOK
<1> QED BY <1>1, <1>2, <1>3, <1>5, <1>6, <1>7, IdleStep

-----------------------------------------------------------------------------
(* The interactions of the owner and the expiry                             *)

LEMMA ClickStep ==
    ASSUME IInv, NEW k \in Clickers, NEW r \in Requests, Click(k, r)
    PROVE  IInv'
<1> USE DEF IInv
<1>1. /\ pc[k] = "idle" /\ card[r] = "live" /\ r \in pending /\ clicks < MaxClicks
      /\ pending' = pending \ {r} /\ clock' = [clock EXCEPT ![r] = "none"]
      /\ messages' = messages \ {r} /\ on' = [on EXCEPT ![k] = r] /\ Goto(k, "reply")
      /\ clicks' = clicks + 1
      /\ UNCHANGED <<server, tombs, shown, seen, due, stale, readies, crossed>>
  BY DEF Click, Taken
<1>2. k \in Workers \ {Consumer}
  BY Names
<1>3. pc[r] \notin Early
  BY <1>1 DEF RequestInv, EarlyOf
<1>4. clicks' \in 0..MaxClicks
  BY <1>1, BoundsAssumption DEF TypeOK
<1>5. pc[k] \notin Hands \cup {"restart"}
  BY <1>1 DEF Hands
<1> QED BY <1>1, <1>2, <1>3, <1>4, <1>5, TakeStep

LEMMA DecideStep ==
    ASSUME IInv, NEW k \in Clickers, Decide(k)
    PROVE  IInv'
<1> USE DEF IInv
<1>1. k \in Workers \ {Consumer} /\ k \in Threads
  BY Names
<1>2. CASE Answered(k)
  <2>1. pc[k] = "reply" /\ Replied(on[k]) /\ Goto(k, "react")
        /\ UNCHANGED <<maps, task, locals, ghosts>>
    BY <1>2 DEF Answered
  <2>2. /\ row' \in [Requests -> RowStates] /\ card' \in [Requests -> {"none", "live", "retired"}]
        /\ \A x \in Requests : card'[x] = "live" => card[x] = "live"
    BY <1>2 DEF Answered, TypeOK, RowStates
  <2>3. pc[k] \in Hands
    BY <2>1 DEF Hands
  <2> QED BY <1>1, <2>1, <2>2, <2>3, AnswerStep
<1> QED BY <1>1, <1>2, NotAnsweredStep, RestorePendingStep, RestoreClockStep, RestoreCardStep,
           ReactStep DEF Decide

LEMMA ExpiringStep ==
    ASSUME IInv, Expiring
    PROVE  IInv'
<1> USE DEF IInv
<1>1. Sweeper \in Workers \ {Consumer} /\ Sweeper \in Threads
  BY Names
<1>2. CASE Sweep
  <2>1. /\ pc[Sweeper] = "idle" /\ Goto(Sweeper, "due")
        /\ due' = {r \in Requests : clock[r] = "elapsed"}
        /\ UNCHANGED <<server, pending, clock, messages, tombs, row, card, task, on, seen, stale, clicks,
                       readies, crossed>>
    BY <1>2 DEF Sweep, maps, shown, ghosts
  <2>2. "due" \in WorkerPCs \ Handling /\ pc[Sweeper] \notin Hands \cup {"restart"}
    BY <2>1 DEF WorkerPCs, Handling, Hands
  <2>3. /\ messages' \subseteq Requests /\ due' \subseteq Requests /\ readies' \in 0..MaxReadies
        /\ row' \in [Requests -> RowStates] /\ card' \in [Requests -> {"none", "live", "retired"}]
        /\ stale' \in [Requests -> RowStates] /\ on' \in [Workers -> Requests \cup {NoRequest}]
    BY <2>1 DEF TypeOK
  <2> QED BY <1>1, <2>1, <2>2, <2>3, IdleStep
<1>3. CASE ExpireNext
  <2>1. PICK r \in Requests :
            /\ r \in due /\ due' = due \ {r} /\ clock' = [clock EXCEPT ![r] = "none"]
            /\ IF r \in pending
               THEN /\ pending' = pending \ {r}
                    /\ messages' = messages \ {r}
                    /\ on' = [on EXCEPT ![Sweeper] = r]
                    /\ Goto(Sweeper, IF r \in messages THEN "expire" ELSE "expireblind")
               ELSE UNCHANGED <<pending, messages, on, pc>>
    BY <1>3 DEF ExpireNext, TypeOK
  <2>2. /\ pc[Sweeper] = "due"
        /\ UNCHANGED <<server, tombs, shown, seen, stale, clicks, readies, crossed>>
    BY <1>3 DEF ExpireNext, ghosts
  <2>3. pc[r] \notin Early
    BY <2>1 DEF RequestInv, EarlyOf
  <2>4. CASE r \in pending
    <3>1. PICK p \in {"reply", "expire", "expireblind"} : Goto(Sweeper, p)
      BY <2>1, <2>4
    <3>2. pc[Sweeper] \notin Hands \cup {"restart"} /\ due' \subseteq due /\ clicks' \in 0..MaxClicks
      BY <2>1, <2>2 DEF Hands, TypeOK
    <3> QED BY <1>1, <2>1, <2>2, <2>3, <2>4, <3>1, <3>2, TakeStep
  <2>5. CASE r \notin pending
    <3>1. UNCHANGED <<generation, up, request, replies, events, pending, messages, tombs, row, card, task,
                      pc, on, seen, stale, clicks, readies, crossed>>
      BY <2>1, <2>2, <2>5 DEF server, shown
    <3>2. /\ clock' \in [Requests -> {"none", "ticking", "elapsed"}] /\ clock'[r] = "none"
          /\ \A x \in Requests \ {r} : clock'[x] = clock[x]
      BY <2>1 DEF TypeOK
    <3>3. due' \subseteq due
      BY <2>1
    <3>4. TypeOK'
      BY <3>1, <3>2, <3>3 DEF TypeOK
    <3>5. EventsInv'
      BY <3>1, EventsKept DEF OverInv
    <3>6. LocalInv' /\ OverInv'
      BY <3>1, <3>5, OutsideStep
    <3>7. (\A x \in Requests : Live(x)' <=> Live(x)) /\ \A w \in Workers, x \in Requests :
              (Held(w, x)' <=> Held(w, x)) /\ (Restoring(w, x)' <=> Restoring(w, x))
      BY <3>1 DEF Live, Held, Restoring
    <3>8. RequestInv(r)'
      <4>1. RequestInv(r)
        OBVIOUS
      <4>2. EarlyOf(r)' /\ FreshOf(r)' /\ HandOf(r)' /\ SpentOf(r)'
        BY <2>3, <3>1, <3>7, <4>1
           DEF RequestInv, EarlyOf, FreshOf, HandOf, SpentOf, Early, Starting
      <4>3. KeptOf(r)'
        BY <2>5, <3>1, <3>7, <4>1 DEF RequestInv, KeptOf, Kept, InHand, Waited
      <4> QED BY <4>2, <4>3 DEF RequestInv
    <3>9. \A x \in Requests \ {r} : RequestInv(x)'
      <4> SUFFICES ASSUME NEW x \in Requests \ {r} PROVE RequestInv(x)'
        OBVIOUS
      <4>1. Aside(x)
        BY <3>1, <3>2, <3>3, <3>7 DEF Aside
      <4> QED BY <4>1, AsideStep
    <3> QED BY <3>4, <3>6, <3>8, <3>9
  <2> QED BY <2>4, <2>5
<1>4. CASE Expire
  <2>1. /\ pc[Sweeper] \in {"expire", "expireblind"} /\ Goto(Sweeper, "react")
        /\ Replied(on[Sweeper]) \/ NotReplied(on[Sweeper])
        /\ UNCHANGED <<maps, task, locals, ghosts>>
    BY <1>4 DEF Expire
  <2>2. /\ row' \in [Requests -> RowStates] /\ card' \in [Requests -> {"none", "live", "retired"}]
        /\ \A x \in Requests : card'[x] = "live" => card[x] = "live"
    BY <1>4 DEF Expire, TypeOK, RowStates
  <2>3. pc[Sweeper] \in Hands
    BY <2>1 DEF Hands
  <2> QED BY <1>1, <2>1, <2>2, <2>3, AnswerStep
<1>5. CASE SweepEnds
  <2>1. /\ pc[Sweeper] = "due" /\ Goto(Sweeper, "idle")
        /\ clock' = [r \in Requests |-> IF r \in Requests \ pending THEN "none" ELSE clock[r]]
        /\ UNCHANGED <<generation, up, request, replies, events, pending, messages, tombs, row, card, task,
                       on, seen, due, stale, clicks, readies, crossed>>
    BY <1>5 DEF SweepEnds, OrphanClocks, server, shown, locals, ghosts
  <2>2. /\ clock' \in [Requests -> {"none", "ticking", "elapsed"}]
        /\ \A x \in Requests : IF x \in pending THEN clock'[x] = clock[x] ELSE clock'[x] = "none"
    BY <2>1 DEF TypeOK
  <2>3. TypeOK'
    BY <1>1, <2>1, <2>2, WorkerTypes DEF TypeOK, PcOK, WorkerPCs
  <2>4. EventsInv'
    BY <2>1, EventsKept DEF OverInv
  <2>5. OverInv'
    BY <1>1, <2>1, <2>4, OtherOver
  <2>6. /\ pc'[Sweeper] = "idle" /\ \A x \in Requests : pc'[x] = pc[x]
        /\ \A u \in Workers \ {Sweeper}, x \in Requests :
              (Held(u, x)' <=> Held(u, x)) /\ (Restoring(u, x)' <=> Restoring(u, x))
    BY <1>1, <2>1, WorkerMoves
  <2>7. /\ \A x \in Requests : ~Held(Sweeper, x)' /\ ~Held(Sweeper, x) /\ ~Restoring(Sweeper, x)
        /\ \A x \in Requests : Live(x)' <=> Live(x)
    BY <2>1, <2>6 DEF Held, Restoring, Live
  <2>8. ASSUME NEW x \in Requests PROVE Beside(Sweeper, x) \/ RequestInv(x)'
    <3>1. CASE x \in pending
      BY <2>1, <2>2, <2>7, <3>1 DEF Beside
    <3>2. CASE x \notin pending
      <4>1. RequestInv(x) /\ \A u \in Workers : Held(u, x)' <=> Held(u, x)
        BY <2>6, <2>7
      <4>2. EarlyOf(x)' /\ FreshOf(x)' /\ HandOf(x)' /\ SpentOf(x)'
        BY <2>1, <2>2, <2>6, <2>7, <3>2, <4>1
           DEF RequestInv, EarlyOf, FreshOf, HandOf, SpentOf
      <4>3. x \notin crossed /\ request[x] = "waiting" /\ Live(x)
              => pc[x] \in {"arrived", "save", "insert"} \/ \E w \in Workers : Held(w, x)
        BY <3>2, <4>1 DEF RequestInv, KeptOf, Kept, InHand, Waited, Held
      <4>4. x \notin crossed' /\ request'[x] = "waiting" /\ Live(x)'
              => pc'[x] \in {"arrived", "save", "insert"} \/ \E w \in Workers : Held(w, x)'
        BY <2>1, <2>6, <2>7, <4>1, <4>3
      <4>5. KeptOf(x)'
        BY <4>4 DEF KeptOf, Kept, InHand, Held
      <4> QED BY <4>2, <4>5 DEF RequestInv
    <3> QED BY <3>1, <3>2
  <2> QED BY <1>1, <2>1, <2>3, <2>5, <2>8, WorkerStep DEF Handling
<1> QED BY <1>1, <1>2, <1>3, <1>4, <1>5, ReactStep DEF Expiring

-----------------------------------------------------------------------------
(* The notification consumer                                                *)

\* What it does to the request in its hand is allowed: that one is over, or was
\* taken for another.
LEMMA SettledStep ==
    ASSUME IInv, pc[Consumer] \in {"retire", "forget"}, NEW p \in {"forget", "react"},
           Goto(Consumer, p),
           pending' \subseteq pending, messages' \subseteq messages,
           \A x \in Requests \ {on[Consumer]} :
                (x \in pending' <=> x \in pending) /\ clock'[x] = clock[x],
           clock' \in [Requests -> {"none", "ticking", "elapsed"}],
           clock'[on[Consumer]] \in {clock[on[Consumer]], "none"},
           row' \in [Requests -> RowStates], card' \in [Requests -> {"none", "live", "retired"}],
           \A x \in Requests : card'[x] = "live" => card[x] = "live",
           UNCHANGED <<server, tombs, task, locals, ghosts>>
    PROVE  IInv'
<1> USE DEF IInv
<1>1. UNCHANGED <<generation, up, request, replies, events, on, seen, due, stale, clicks, readies, crossed>>
  BY DEF server, locals, ghosts
<1>2. Consumer \in Workers /\ p \in WorkerPCs \cup ReactPCs /\ p # "reactwrite"
  BY Names DEF WorkerPCs, ReactPCs
<1>3. TypeOK'
  BY <1>1, <1>2, WorkerTypes DEF TypeOK, PcOK
<1>4. PICK r \in Requests : r = on[Consumer]
  BY <1>2 DEF LocalInv, Handling
<1>5. r \in crossed \/ request[r] \in Over
  BY <1>4 DEF OverInv
<1>6. /\ pc'[Consumer] = p /\ \A x \in Requests : pc'[x] = pc[x]
      /\ \A u \in Workers \ {Consumer}, x \in Requests :
            (Held(u, x)' <=> Held(u, x)) /\ (Restoring(u, x)' <=> Restoring(u, x))
  BY <1>1, <1>2, WorkerMoves
<1>7. EventsInv'
  BY <1>1, EventsKept DEF OverInv
<1>8. OverInv'
  BY <1>1, <1>4, <1>5, <1>6, <1>7 DEF OverInv
<1>9. /\ \A x \in Requests : ~Held(Consumer, x)' /\ ~Held(Consumer, x) /\ ~Restoring(Consumer, x)
      /\ \A x \in Requests : Live(x)' <=> Live(x)
  BY <1>1, <1>6 DEF Held, Restoring, Live
<1>10. ASSUME NEW x \in Requests PROVE Beside(Consumer, x) \/ RequestInv(x)'
  <2>1. CASE x # r
    BY <1>1, <1>4, <1>9, <2>1 DEF Beside
  <2>2. CASE x = r
    <3>1. RequestInv(r) /\ \A u \in Workers : Held(u, r)' <=> Held(u, r)
      BY <1>6, <1>9
    <3>2. EarlyOf(r)' /\ FreshOf(r)' /\ HandOf(r)' /\ SpentOf(r)'
      BY <1>1, <1>4, <1>6, <1>9, <3>1 DEF RequestInv, EarlyOf, FreshOf, HandOf, SpentOf
    <3>3. KeptOf(r)'
      BY <1>1, <1>5 DEF KeptOf, Kept, Over
    <3> QED BY <2>2, <3>2, <3>3 DEF RequestInv
  <2> QED BY <2>1, <2>2
<1>11. p \in Handling => on'[Consumer] \in Requests
  BY <1>1, <1>4
<1> QED BY <1>1, <1>2, <1>3, <1>8, <1>10, <1>11, WorkerStep

LEMMA EventHead ==
    ASSUME TypeOK, EventsInv, events # <<>>, events' = Tail(events), UNCHANGED request
    PROVE  /\ Head(events) \in Requests /\ request[Head(events)] \in Over
           /\ events' \in Seq(Requests) /\ EventsInv'
<1>1. events \in Seq(Requests) /\ Len(events) \in Nat /\ Len(events) >= 1
  BY DEF TypeOK
<1>2. Head(events) = events[1] /\ 1 \in 1..Len(events) /\ events[1] \in Requests
  BY <1>1
<1>3. events' \in Seq(Requests) /\ Len(events') = Len(events) - 1
  BY <1>1
<1>4. ASSUME NEW n \in 1..Len(events') PROVE request'[events'[n]] \in Over
  <2>1. n + 1 \in 1..Len(events) /\ events'[n] = events[n + 1]
    BY <1>1, <1>3
  <2> QED BY <2>1 DEF EventsInv
<1> QED BY <1>2, <1>3, <1>4 DEF EventsInv

LEMMA NextEventStep ==
    ASSUME IInv, NextEvent
    PROVE  IInv'
<1> USE DEF IInv
<1>1. pc[Consumer] = "idle" /\ events # <<>> /\ events' = Tail(events)
      /\ UNCHANGED <<generation, up, request, replies, pending, clock, messages, tombs, row, card, task,
                     seen, due, stale, clicks, readies>>
  BY DEF NextEvent, maps, shown
<1>2. PICK e \in Requests : e = Head(events) /\ request[e] \in Over
  BY <1>1, EventHead DEF OverInv
<1>3. events' \in Seq(Requests) /\ EventsInv'
  BY <1>1, EventHead DEF OverInv
<1>4. PICK p \in {"tomb", "retire"}, r \in Requests :
        /\ Goto(Consumer, p) /\ on' = [on EXCEPT ![Consumer] = r]
        /\ p = "tomb" => r = e
        /\ crossed' = IF r = e THEN crossed ELSE crossed \cup {r}
  <2>1. CASE Matches(e) = {}
    <3>1. on' = [on EXCEPT ![Consumer] = e] /\ Goto(Consumer, "tomb") /\ UNCHANGED crossed
      BY <1>2, <2>1 DEF NextEvent
    <3> QED BY <3>1
  <2>2. CASE Matches(e) # {}
    <3>1. PICK r \in Matches(e) :
            /\ on' = [on EXCEPT ![Consumer] = r] /\ Goto(Consumer, "retire")
            /\ crossed' = IF r = e THEN crossed ELSE crossed \cup {r}
      BY <1>2, <2>2 DEF NextEvent
    <3>2. r \in Requests
      BY <3>1 DEF Matches, TypeOK
    <3> QED BY <3>1, <3>2
  <2> QED BY <2>1, <2>2
<1>5. /\ crossed' \subseteq Requests /\ crossed \subseteq crossed'
      /\ r \in crossed' \/ request[r] \in Over
      /\ on' \in [Workers -> Requests \cup {NoRequest}] /\ on'[Consumer] = r
      /\ \A u \in Workers \ {Consumer} : on'[u] = on[u]
  BY <1>2, <1>4, Names DEF TypeOK
<1>6. Consumer \in Workers /\ p \in WorkerPCs \cup ReactPCs /\ p # "reactwrite"
  BY Names DEF WorkerPCs
<1>7. TypeOK'
  BY <1>1, <1>3, <1>4, <1>5, <1>6, WorkerTypes DEF TypeOK, PcOK
<1>8. pc'[Consumer] = p
  BY <1>4, <1>5, <1>6, WorkerMoves
<1>9. OverInv'
  BY <1>1, <1>2, <1>3, <1>4, <1>5, <1>8 DEF OverInv
<1>10. ASSUME NEW x \in Requests PROVE Beside(Consumer, x)
  <2>1. ~Held(Consumer, x) /\ ~Held(Consumer, x)' /\ ~Restoring(Consumer, x)
    BY <1>1, <1>8 DEF Held, Restoring
  <2> QED BY <1>1, <1>5, <2>1 DEF Beside, Live
<1> QED BY <1>1, <1>4, <1>5, <1>6, <1>7, <1>9, <1>10, WorkerStep

LEMMA TombStep ==
    ASSUME IInv, Tomb
    PROVE  IInv'
<1> USE DEF IInv
<1>1. pc[Consumer] = "tomb" /\ tombs' \in {tombs \cup {on[Consumer]}, {on[Consumer]}}
      /\ UNCHANGED <<generation, up, request, replies, events, pending, clock, messages, row, card, task,
                     seen, due, stale, clicks, readies, crossed>>
  BY DEF Tomb, Key, server, shown, ghosts
<1>2. Consumer \in Workers /\ "idle" \in WorkerPCs \cup ReactPCs
  BY Names DEF WorkerPCs
<1>3. Goto(Consumer, "idle") /\ on' = [on EXCEPT ![Consumer] = NoRequest]
  BY <1>2 DEF Tomb, Free
<1>4. on[Consumer] \in Requests /\ request[on[Consumer]] \in Over
  BY <1>1, <1>2 DEF OverInv, LocalInv, Handling
<1>5. /\ tombs' \subseteq Requests /\ on' \in [Workers -> Requests \cup {NoRequest}]
      /\ \A u \in Workers \ {Consumer} : on'[u] = on[u]
      /\ \A x \in tombs' : request[x] \in Over
  BY <1>1, <1>2, <1>3, <1>4 DEF TypeOK, OverInv
<1>6. TypeOK'
  BY <1>1, <1>2, <1>3, <1>5, WorkerTypes DEF TypeOK, PcOK
<1>7. pc'[Consumer] = "idle"
  BY <1>2, <1>3, <1>5, WorkerMoves
<1>8. EventsInv'
  BY <1>1, EventsKept DEF OverInv
<1>9. OverInv'
  BY <1>1, <1>5, <1>7, <1>8 DEF OverInv
<1>10. ASSUME NEW x \in Requests PROVE Beside(Consumer, x)
  <2>1. ~Held(Consumer, x) /\ ~Held(Consumer, x)' /\ ~Restoring(Consumer, x)
    BY <1>1, <1>7 DEF Held, Restoring
  <2> QED BY <1>1, <2>1 DEF Beside, Live
<1> QED BY <1>1, <1>2, <1>3, <1>5, <1>6, <1>9, <1>10, WorkerStep DEF Handling

LEMMA ConsumeStep ==
    ASSUME IInv, Consume
    PROVE  IInv'
<1> USE DEF IInv
<1>1. Consumer \in Threads /\ Consumer \in Workers
  BY Names
<1>2. CASE Retire
  <2>1. /\ pc[Consumer] = "retire" /\ pending' = pending \ {on[Consumer]} /\ Goto(Consumer, "forget")
        /\ UNCHANGED <<server, clock, messages, tombs, row, card, task, locals, ghosts>>
    BY <1>2 DEF Retire, shown
  <2>2. /\ pending' \subseteq pending /\ messages' \subseteq messages
        /\ \A x \in Requests \ {on[Consumer]} :
              (x \in pending' <=> x \in pending) /\ clock'[x] = clock[x]
        /\ clock' \in [Requests -> {"none", "ticking", "elapsed"}]
        /\ clock'[on[Consumer]] \in {clock[on[Consumer]], "none"}
        /\ row' \in [Requests -> RowStates] /\ card' \in [Requests -> {"none", "live", "retired"}]
        /\ \A x \in Requests : card'[x] = "live" => card[x] = "live"
    BY <2>1 DEF TypeOK
  <2> QED BY <2>1, <2>2, SettledStep
<1>3. CASE Forget
  <2>1. /\ pc[Consumer] = "forget" /\ Goto(Consumer, "react")
        /\ clock' = [clock EXCEPT ![on[Consumer]] = "none"]
        /\ messages' = messages \ {on[Consumer]} /\ row' = [row EXCEPT ![on[Consumer]] = "none"]
        /\ card' = [card EXCEPT ![on[Consumer]] = IF on[Consumer] \in messages THEN "retired" ELSE @]
        /\ UNCHANGED <<server, pending, tombs, task, locals, ghosts>>
    BY <1>3 DEF Forget, RetireCard
  <2>2. on[Consumer] \in Requests
    BY <1>1, <2>1 DEF LocalInv, Handling
  <2>3. /\ pending' \subseteq pending /\ messages' \subseteq messages
        /\ \A x \in Requests \ {on[Consumer]} :
              (x \in pending' <=> x \in pending) /\ clock'[x] = clock[x]
        /\ clock' \in [Requests -> {"none", "ticking", "elapsed"}]
        /\ clock'[on[Consumer]] \in {clock[on[Consumer]], "none"}
        /\ row' \in [Requests -> RowStates] /\ card' \in [Requests -> {"none", "live", "retired"}]
        /\ \A x \in Requests : card'[x] = "live" => card[x] = "live"
    BY <2>1, <2>2 DEF TypeOK, RowStates
  <2> QED BY <2>1, <2>3, SettledStep
<1> QED BY <1>1, <1>2, <1>3, NextEventStep, TombStep, ReactStep DEF Consume

-----------------------------------------------------------------------------
(* Gateway-ready events and restarts                                        *)

LEMMA ReadyStep ==
    ASSUME IInv, Ready \/ ReadyEnds
    PROVE  IInv'
<1> USE DEF IInv
<1>1. Boot \in Workers \ {Consumer} /\ Boot \in Threads
  BY Names
<1>2. PICK p \in {"idle", "boot"} : Goto(Boot, p)
  BY DEF Ready, ReadyEnds
<1>3. /\ pc[Boot] \in {"idle", "ready", "boot"}
      /\ UNCHANGED <<server, pending, clock, messages, tombs, row, card, task, on, seen, due, clicks, crossed>>
  BY DEF Ready, ReadyEnds, maps, shown, locals, ghosts
<1>4. readies' \in 0..MaxReadies /\ stale' \in [Requests -> RowStates]
  <2>1. CASE Ready
    <3>1. stale' = row /\ (readies' = readies \/ (readies < MaxReadies /\ readies' = readies + 1))
      BY <2>1 DEF Ready
    <3> QED BY <3>1, BoundsAssumption DEF TypeOK
  <2>2. CASE ReadyEnds
    BY <2>2 DEF ReadyEnds, locals, ghosts, TypeOK
  <2> QED BY <2>1, <2>2
<1>5. p \in WorkerPCs \ Handling /\ pc[Boot] \notin Hands \cup {"restart"}
  BY <1>3 DEF WorkerPCs, Handling, Hands
<1>6. /\ messages' \subseteq Requests /\ due' \subseteq Requests
      /\ row' \in [Requests -> RowStates] /\ card' \in [Requests -> {"none", "live", "retired"}]
      /\ \A x \in Requests : card'[x] = "live" => card[x] = "live"
      /\ on' \in [Workers -> Requests \cup {NoRequest}]
      /\ \A x \in Requests : x \in due' => x \in due \/ clock[x] = "elapsed"
      /\ \A u \in Workers \ {Boot} : on'[u] = on[u]
  BY <1>3 DEF TypeOK
<1> QED BY <1>1, <1>2, <1>3, <1>4, <1>5, <1>6, IdleStep

LEMMA ReadyNextStep ==
    ASSUME IInv, ReadyNext
    PROVE  IInv'
<1> USE DEF IInv
<1>1. UNCHANGED <<generation, up, request, replies, events, pending, clock, messages, tombs, task, pc,
                  on, seen, due, clicks, readies, crossed>>
  BY DEF ReadyNext, server, maps, ghosts
<1>2. PICK r \in Requests :
        /\ stale' = [stale EXCEPT ![r] = "none"]
        /\ IF r \in pending
           THEN UNCHANGED <<row, card>>
           ELSE /\ row' = [row EXCEPT ![r] = "none"]
                /\ card' = [card EXCEPT ![r] = IF stale[r] = "located" THEN "retired" ELSE @]
  BY DEF ReadyNext
<1>3. /\ row' \in [Requests -> RowStates] /\ stale' \in [Requests -> RowStates]
      /\ card' \in [Requests -> {"none", "live", "retired"}]
      /\ \A x \in Requests : card'[x] = "live" => card[x] = "live"
  BY <1>2 DEF TypeOK, RowStates
<1>4. TypeOK'
  BY <1>1, <1>3 DEF TypeOK
<1>5. EventsInv'
  BY <1>1, EventsKept DEF OverInv
<1>6. LocalInv' /\ OverInv'
  BY <1>1, <1>5, OutsideStep
<1>7. ASSUME NEW x \in Requests PROVE RequestInv(x)'
  <2>1. Aside(x)
    BY <1>1, <1>3 DEF Aside, Live, Held, Restoring
  <2> QED BY <2>1, AsideStep
<1> QED BY <1>4, <1>6, <1>7

LEMMA RestartStep ==
    ASSUME IInv, Restart
    PROVE  IInv'
<1> USE DEF IInv
<1>1. /\ up' = FALSE /\ events' = <<>> /\ pending' = {} /\ messages' = {} /\ tombs' = {} /\ due' = {}
      /\ UNCHANGED <<generation, request, replies, row, card, task, clicks, crossed>>
  BY DEF Restart, shown
<1>2. /\ clock' \in [Requests -> {"none", "ticking", "elapsed"}]
      /\ \A x \in Requests : clock'[x] = "none"
  BY DEF Restart
<1>3. on' \in [Workers -> Requests \cup {NoRequest}]
  BY DEF Restart
<1>4. seen' \in [Threads -> {"none", "running", "needs"}] /\ stale' \in [Requests -> RowStates]
  BY DEF Restart, RowStates
<1>5. readies' \in 0..MaxReadies
  BY BoundsAssumption DEF Restart, TypeOK
<1>6. DOMAIN pc' = Threads /\ \A t \in Threads :
        pc'[t] = IF t = Boot THEN "ready" ELSE IF t \in Workers THEN "idle"
                 ELSE IF pc[t] = "none" THEN "none" ELSE "done"
  BY DEF Restart
<1>7. /\ \A x \in Requests : pc'[x] = IF pc[x] = "none" THEN "none" ELSE "done"
      /\ \A w \in Workers : pc'[w] \in {"ready", "idle"}
      /\ pc'[Consumer] = "idle"
  BY <1>6, Names
<1>8. PcOK'
  BY <1>6, <1>7 DEF PcOK, SetupPCs, WorkerPCs
<1>9. up' \in BOOLEAN /\ events' \in Seq(Requests) /\ Len(events') = 0
  <2>1. up' \in BOOLEAN
    BY <1>1
  <2>2. events' \in Seq(Requests) /\ Len(events') = 0
    BY <1>1
  <2> QED BY <2>1, <2>2
<1>10. TypeOK'
  BY <1>1, <1>2, <1>3, <1>4, <1>5, <1>8, <1>9 DEF TypeOK, PcOK
<1>11. LocalInv'
  BY <1>7 DEF LocalInv, Handling, Threads
<1>12. OverInv'
  BY <1>1, <1>7, <1>9 DEF OverInv, EventsInv
<1>13. ASSUME NEW x \in Requests PROVE RequestInv(x)'
  <2>1. RequestInv(x) /\ ~Live(x)' /\ \A w \in Workers : ~Held(w, x)'
    BY <1>1, <1>7 DEF Live, Held
  <2>2. EarlyOf(x)'
    BY <1>1, <1>2, <1>7, <2>1 DEF RequestInv, EarlyOf, Early, Starting
  <2>3. FreshOf(x)'
    BY <1>1, <1>7, <2>1 DEF RequestInv, FreshOf
  <2>4. HandOf(x)' /\ SpentOf(x)' /\ KeptOf(x)'
    BY <1>1, <2>1 DEF RequestInv, HandOf, SpentOf, KeptOf, Kept
  <2> QED BY <2>2, <2>3, <2>4 DEF RequestInv
<1> QED BY <1>10, <1>11, <1>12, <1>13

-----------------------------------------------------------------------------
(* The invariant                                                            *)

LEMMA SetUpInv ==
    ASSUME IInv, NEW r \in Requests, SetUp(r)
    PROVE  IInv'
<1>1. r \in Threads
  BY Names
<1> QED BY <1>1, RejectSteps, TakeTombStep, SaveStep, RegisterStep, StartClockStep, CheckStep,
           SendStep, QuietSetUp, ReactStep DEF SetUp

LEMMA StutterStep ==
    ASSUME IInv, UNCHANGED vars
    PROVE  IInv'
<1> USE DEF IInv
<1>1. UNCHANGED <<generation, up, request, replies, events, pending, clock, messages, tombs, row, card, task,
                  pc, on, seen, due, stale, clicks, readies, crossed>>
  BY DEF vars, server, maps, shown, locals, ghosts
<1>2. TypeOK'
  BY <1>1 DEF TypeOK
<1>3. EventsInv'
  BY <1>1, EventsKept DEF OverInv
<1>4. LocalInv' /\ OverInv'
  BY <1>1, <1>3, OutsideStep
<1>5. ASSUME NEW x \in Requests PROVE RequestInv(x)'
  <2>1. Aside(x)
    BY <1>1 DEF Aside, Live, Held, Restoring
  <2> QED BY <2>1, AsideStep
<1> QED BY <1>2, <1>4, <1>5

LEMMA InitInv == Init => IInv
<1> SUFFICES ASSUME Init PROVE IInv
  OBVIOUS
<1>1. /\ \A r \in Requests : pc[r] = "none"
      /\ \A w \in Workers : pc[w] = "idle"
      /\ DOMAIN pc = Threads
  BY Names DEF Init
<1>2. events = <<>> /\ events \in Seq(Requests) /\ Len(events) = 0
  BY DEF Init
<1>3. TypeOK
  <2>1. /\ \A r \in Requests : pc[r] \in SetupPCs \cup ReactPCs
        /\ \A w \in Workers : pc[w] \in WorkerPCs \cup ReactPCs
    BY <1>1 DEF SetupPCs, WorkerPCs
  <2>2. generation \in 0..MaxGen /\ clicks \in 0..MaxClicks /\ readies \in 0..MaxReadies
    BY BoundsAssumption DEF Init
  <2>3. /\ request \in [Requests -> {"none", "waiting", "relay", "desktop"}]
        /\ replies \in [Requests -> 0..2]
        /\ clock \in [Requests -> {"none", "ticking", "elapsed"}]
        /\ row \in [Requests -> RowStates] /\ stale \in [Requests -> RowStates]
        /\ card \in [Requests -> {"none", "live", "retired"}]
        /\ on \in [Workers -> Requests \cup {NoRequest}]
        /\ seen \in [Threads -> {"none", "running", "needs"}]
        /\ task \in {"running", "needs"}
    BY DEF Init, RowStates
  <2>4. pending = {} /\ messages = {} /\ tombs = {} /\ due = {} /\ crossed = {}
    BY DEF Init
  <2>5. up \in BOOLEAN
    BY DEF Init
  <2> QED BY <1>1, <1>2, <2>1, <2>2, <2>3, <2>4, <2>5 DEF TypeOK
<1>4. LocalInv
  BY <1>1 DEF LocalInv, Handling, Threads
<1>5. OverInv
  BY <1>1, <1>2, Names DEF Init, OverInv, EventsInv
<1>6. ASSUME NEW r \in Requests PROVE RequestInv(r)
  <2>1. /\ request[r] = "none" /\ replies[r] = 0 /\ clock[r] = "none" /\ card[r] = "none"
        /\ pending = {} /\ due = {} /\ ~up
    BY DEF Init
  <2>2. \A w \in Workers : ~Held(w, r)
    BY <1>1 DEF Held
  <2> QED BY <1>1, <2>1, <2>2
         DEF RequestInv, EarlyOf, FreshOf, HandOf, SpentOf, KeptOf, Kept, Live, Starting
<1> QED BY <1>3, <1>4, <1>5, <1>6 DEF IInv

LEMMA NextInv == IInv /\ [Next]_vars => IInv'
<1> SUFFICES ASSUME IInv, [Next]_vars PROVE IInv'
  OBVIOUS
<1>1. CASE \E r \in Requests : Ask(r) \/ Desktop(r) \/ Elapse(r)
  BY <1>1, AskStep, DesktopStep, ElapseStep
<1>2. CASE \E r \in Requests : SetUp(r)
  BY <1>2, SetUpInv
<1>3. CASE \E k \in Clickers : Decide(k) \/ \E r \in Requests : Click(k, r)
  BY <1>3, DecideStep, ClickStep
<1> QED BY <1>1, <1>2, <1>3, ReconnectStep, LoseStep, ConsumeStep, ExpiringStep, ReadyStep,
           ReadyNextStep, RestartStep, StutterStep DEF Next

\* The invariant: a request is pending or in one pair of hands, whoever has it in hand
\* has not answered it, and what events and tombstones are about is over.
THEOREM RequestsInductive == Spec => []IInv
<1> QED BY InitInv, NextInv, PTL DEF Spec

\* Every variable has its type: no thread is ever left in a state that its code does not
\* have, whatever crossed it.
THEOREM RequestsTypeCorrect == Spec => []TypeOK
<1>1. IInv => TypeOK
  BY DEF IInv
<1> QED BY <1>1, RequestsInductive, PTL

\* No process is sent two answers to one of its requests: respond_result_for_generation is
\* called by whoever took the request out of the map.
THEOREM AnsweredOnce == Spec => []RepliedOnce
<1>1. IInv => RepliedOnce
  BY DEF IInv, RequestInv, SpentOf, RepliedOnce
<1> QED BY <1>1, RequestsInductive, PTL

\* A request that its process waits for is being handled, in somebody's hands, or pending
\* with a clock, unless an event of another process was taken for its own.
THEOREM WaitingKept == Spec => []WaitingIsKept
<1>1. IInv => WaitingIsKept
  BY DEF IInv, RequestInv, KeptOf, WaitingIsKept
<1> QED BY <1>1, RequestsInductive, PTL
=============================================================================
