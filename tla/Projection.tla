----------------------------- MODULE Projection -----------------------------
(***************************************************************************)
(* The bounded projections of what Codex is running (projection.rs) and the *)
(* live-operations digest drawn from them (bot.rs).  The app-server sends   *)
(* output and completions of the items through a broadcast channel of       *)
(* bounded length; the consumer of the notifications applies them under the *)
(* lock of the projection and then writes the summary under the lock of the *)
(* digests.  The answer of a `command/exec` takes another way: it returns   *)
(* to the interaction that started it, which completes the projection of    *)
(* the process itself.                                                      *)
(*                                                                          *)
(* Output is abstracted to chunks: those of an item are numbered from 1.    *)
(* A chunk that cannot be decoded is a chunk that leaves no text.  Of the    *)
(* clocks of the entries only the order matters: they are kept as ranks.     *)
(***************************************************************************)
EXTENDS Naturals, FiniteSets, Sequences

CONSTANTS
    Commands,   \* commandExecution items: text on a tail, healed by the completion
    Tools,      \* mcpToolCall items: the last messages, healed by an error message
    Execs,      \* processes of command/exec: completed by the answer of the request
    Spawns,     \* processes of process/spawn: completed by process/exited
    MaxQueue,   \* length of the broadcast channel of the client
    MaxActive,  \* MAX_ACTIVE_THREAD_ITEMS, MAX_ACTIVE_PROCESSES
    MaxRecent,  \* MAX_RECENT_THREAD_ITEMS, MAX_RECENT_PROCESSES
    MaxTail,    \* chunks that MAX_COMMAND_TAIL_BYTES and its like keep
    MaxEntries, \* entries of an OperationsDigest (6 in the code)
    MaxChunks   \* bound: chunks the app-server sends of an item

VARIABLES
    sent,       \* app-server: the chunks sent of each item
    ended,      \* app-server: the items that are complete
    queue,      \* broadcast channel: what the consumer has not received
    behind,     \* broadcast channel: the events its receiver was too slow for
    projection, \* thread_items and processes of ProjectionCore
    touched,    \* their clocks: the places of their entries in the order of touch
    operations, \* the OperationsDigest of the task: its entries, oldest first
    bound,      \* standalone_process_tasks
    consumer,   \* the consumer of the notifications, between its two locks
    caller,     \* the interaction of every command/exec
    unseen,     \* observed: items that lost output and were not active to be marked
    crossed     \* observed: execs whose answer overtook some of their output

vars == <<sent, ended, queue, behind, projection, touched, operations, bound,
          consumer, caller, unseen, crossed>>

Processes   == Execs \cup Spawns
ThreadItems == Commands \cup Tools
Items       == ThreadItems \cup Processes
Marks       == {"truncated", "incomplete", "lagged"}

(* What is kept of an item: the chunks of its tail, whether it is running   *)
(* and has a completion, and what operation_markers says of the text.       *)
Fresh == [tail |-> <<>>, active |-> TRUE, done |-> FALSE, marks |-> {}]

Known  == DOMAIN projection
Of(i)  == IF i \in Known THEN projection[i] ELSE Fresh
Put(i, entry) ==
    [k \in Known \cup {i} |-> IF k = i THEN entry ELSE projection[k]]

Init ==
    /\ sent = [i \in Items |-> 0] /\ ended = {}
    /\ queue = <<>> /\ behind = {}
    /\ projection = <<>> /\ touched = <<>>
    /\ operations = <<>> /\ bound = {}
    /\ consumer = [pc |-> "idle"]
    /\ caller = [p \in Execs |-> [pc |-> "idle"]]
    /\ unseen = {} /\ crossed = {}

-----------------------------------------------------------------------------
(* prune_map: while a class of a map is over its limit, its least recently  *)
(* touched entry goes, active ones first.                                   *)
Class(map, entries, active) ==
    {i \in DOMAIN entries \cap map : entries[i].active = active}
Oldest(S, clock) == CHOOSE i \in S : \A k \in S : clock[i] <= clock[k]
(* Mutant of Excess: what is not running any more is kept.                  *)
ExcessActive(map, entries, clock) ==
    LET active == Class(map, entries, TRUE)
    IN  IF Cardinality(active) > MaxActive THEN {Oldest(active, clock)} ELSE {}

Excess(map, entries, clock) ==
    LET active == Class(map, entries, TRUE)
        recent == Class(map, entries, FALSE)
    IN  IF Cardinality(active) > MaxActive THEN {Oldest(active, clock)}
        ELSE IF Cardinality(recent) > MaxRecent THEN {Oldest(recent, clock)}
        ELSE {}
MapOf(i) == IF i \in Processes THEN Processes ELSE ThreadItems

(* Every operation stores one entry and prunes its map, which was within    *)
(* its limits: at most one entry of each class can be over.                 *)
Store(i, entry) ==
    LET entries == Put(i, entry)
        clock   == [k \in DOMAIN entries |->
                      IF k = i THEN Cardinality(Known) + 1 ELSE touched[k]]
        kept    == DOMAIN entries \ Excess(MapOf(i), entries, clock)
    IN  /\ projection' = [k \in kept |-> entries[k]]
        /\ touched' = [k \in kept |-> Cardinality({j \in kept : clock[j] <= clock[k]})]

Evicted == Known \ DOMAIN projection'

Trim(tail) == IF Len(tail) <= MaxTail THEN tail
              ELSE SubSeq(tail, Len(tail) - MaxTail + 1, Len(tail))
Cut(tail)  == IF Len(tail) <= MaxTail THEN {} ELSE {"truncated"}

(* append_output: the text goes to the end of the tail.                     *)
WithText(entry, n) ==
    [entry EXCEPT !.active = TRUE, !.tail = Trim(Append(@, n)),
                  !.marks = @ \cup Cut(Append(entry.tail, n))]
(* push_command_output and push_process_output on what decode_chunk refuses. *)
Undecoded(entry, large) ==
    [entry EXCEPT !.active = TRUE,
                  !.marks = @ \cup {"incomplete"}
                              \cup (IF large THEN {"truncated"} ELSE {})]
(* push_mcp_progress: only the last messages are kept, without a mark.      *)
WithMessage(entry, n) ==
    [entry EXCEPT !.active = TRUE, !.tail = Trim(Append(@, n))]

(* heal_output and its like: an authoritative text replaces the tail and    *)
(* takes back what was said of it.                                          *)
Healed(i, entry, total) ==
    LET whole == [n \in 1..total |-> n]
    IN  IF i \in Tools
        THEN [entry EXCEPT !.tail = Trim(Append(@, total)),
                           !.marks = @ \ {"incomplete", "lagged"}]
        ELSE [entry EXCEPT !.tail = Trim(whole), !.marks = Cut(whole)]
(* Mutant of Completed: one that brings no text leaves the item running.     *)
CompletedWithText(i, entry, ending, total) ==
    LET kept == [entry EXCEPT !.active = FALSE, !.done = TRUE]
    IN  CASE ending = "whole" -> Healed(i, kept, total)
          [] ending = "huge"  -> [kept EXCEPT !.marks = @ \cup {"incomplete", "truncated"}]
          [] ending = "bare"  -> entry

Completed(i, entry, ending, total) ==
    LET kept == [entry EXCEPT !.active = FALSE, !.done = TRUE]
    IN  CASE ending = "whole" -> Healed(i, kept, total)
          [] ending = "huge"  -> [kept EXCEPT !.marks = @ \cup {"incomplete", "truncated"}]
          [] ending = "bare"  -> kept

(* Mutant of MarkLagged: marks what is complete instead.                    *)
MarkCompleted(entry) ==
    IF entry.active THEN entry
    ELSE [entry EXCEPT !.marks = @ \cup {"incomplete", "lagged"}]

(* mark_all_threads_lagged and mark_connection_lagged: active ones only.    *)
MarkLagged(entry) ==
    IF entry.active
    THEN [entry EXCEPT !.marks = @ \cup {"incomplete", "lagged"}]
    ELSE entry

-----------------------------------------------------------------------------
(* OperationsDigest::upsert: the entry of the item, or a new last one.      *)
Upsert(i, summary) ==
    LET at == {n \in DOMAIN operations : operations[n].item = i}
        added == Append(operations, [item |-> i, summary |-> summary])
    IN  operations' =
            IF at # {}
            THEN [n \in DOMAIN operations |->
                    IF n \in at THEN [item |-> i, summary |-> summary]
                    ELSE operations[n]]
            ELSE IF Len(added) > MaxEntries THEN Tail(added) ELSE added

-----------------------------------------------------------------------------
(* The app-server and the channel: a send into a full channel overwrites    *)
(* the oldest event, and the receiver is told so when it asks.              *)
Send(e) ==
    IF Len(queue) < MaxQueue
    THEN /\ queue' = Append(queue, e)
         /\ UNCHANGED behind
    ELSE /\ queue' = Append(Tail(queue), e)
         /\ behind' = behind \cup {Head(queue)}

Relay == <<projection, touched, operations, bound, consumer, caller>>

(* What decode_chunk may refuse: too much text, or text that is not base64. *)
Chunks(i) == {"text"} \cup (IF i \in Tools THEN {} ELSE {"large"})
                      \cup (IF i \in Processes THEN {"bad"} ELSE {})

Output(i, chunk) ==
    /\ i \notin ended /\ sent[i] < MaxChunks
    /\ i \in Processes => i \in bound
    /\ sent' = [sent EXCEPT ![i] = @ + 1]
    /\ Send([item |-> i, kind |-> chunk, n |-> sent[i] + 1])
    /\ UNCHANGED <<ended, unseen, crossed, Relay>>

(* item/completed and process/exited: with the whole text, without it, or   *)
(* with more of it than heal_output takes.                                  *)
Endings == {"whole", "bare", "huge"}
Finish(i, ending) ==
    /\ i \notin ended \cup Execs
    /\ i \in Spawns => i \in bound
    /\ i \in Tools => ending # "huge"
    /\ ended' = ended \cup {i}
    /\ Send([item |-> i, kind |-> ending, n |-> sent[i]])
    /\ UNCHANGED <<sent, unseen, crossed, Relay>>

-----------------------------------------------------------------------------
(* execute_action_inner on a process: bound before the request is sent, and *)
(* for command/exec unbound again when its answer is drawn.                 *)
Start(p) ==
    /\ p \notin bound /\ p \notin ended
    /\ bound' = bound \cup {p}
    /\ caller' = [q \in Execs |-> IF q = p THEN [pc |-> "wait"] ELSE caller[q]]
    /\ UNCHANGED <<sent, ended, queue, behind, projection, touched, operations,
                   consumer, unseen, crossed>>

InFlight(p) ==
    \/ \E n \in DOMAIN queue : queue[n].item = p
    \/ \E e \in behind : e.item = p
    \/ consumer.pc = "upsert" /\ consumer.item = p

(* complete_bound_standalone_action: the projection, then the digest.       *)
Answered(p, ending) ==
    /\ caller[p].pc = "wait"
    /\ ended' = ended \cup {p}
    /\ Store(p, Completed(p, Of(p), ending, sent[p]))
    /\ caller' = [caller EXCEPT ![p] = [pc |-> "upsert", drawn |-> projection'[p]]]
    /\ crossed' = IF InFlight(p) THEN crossed \cup {p} ELSE crossed
    /\ UNCHANGED <<sent, queue, behind, operations, bound, consumer, unseen>>

AnswerShown(p) ==
    /\ caller[p].pc = "upsert"
    /\ Upsert(p, caller[p].drawn)
    /\ caller' = [caller EXCEPT ![p] = [pc |-> "unbind"]]
    /\ UNCHANGED <<sent, ended, queue, behind, projection, touched, bound,
                   consumer, unseen, crossed>>

Unbind(p) ==
    /\ caller[p].pc = "unbind"
    /\ bound' = bound \ {p}
    /\ caller' = [caller EXCEPT ![p] = [pc |-> "end"]]
    /\ UNCHANGED <<sent, ended, queue, behind, projection, touched, operations,
                   consumer, unseen, crossed>>

-----------------------------------------------------------------------------
(* The consumer.  It draws the summary while it holds the projection and    *)
(* looks for the binding of a process when it has let it go.                *)
Receive ==
    /\ consumer.pc = "idle" /\ behind = {} /\ queue # <<>>
    /\ queue' = Tail(queue)
    /\ UNCHANGED <<sent, ended, behind, operations, caller, crossed>>

Draw(i) == consumer' = [pc |-> "upsert", item |-> i, drawn |-> projection'[i]]

(* update_operation_progress, project_standalone_output.                    *)
Progress ==
    /\ Receive
    /\ LET e == Head(queue)
       IN  /\ e.kind \in {"text", "large", "bad"}
           /\ Store(e.item,
                IF e.kind # "text" THEN Undecoded(Of(e.item), e.kind = "large")
                ELSE IF e.item \in Tools THEN WithMessage(Of(e.item), e.n)
                ELSE WithText(Of(e.item), e.n))
           /\ Draw(e.item)
           /\ unseen' = unseen \cup Evicted
    /\ UNCHANGED bound

(* complete_operation_item, project_standalone_completion.                  *)
Completion ==
    /\ Receive
    /\ LET e == Head(queue)
       IN  /\ e.kind \in Endings
           /\ Store(e.item, Completed(e.item, Of(e.item), e.kind, e.n))
           /\ Draw(e.item)
           /\ unseen' = (unseen \cup Evicted)
                            \ (IF e.kind = "whole" THEN {e.item} ELSE {})
    /\ UNCHANGED bound

(* The binding of an exited process is taken with the look at it.           *)
Shown ==
    /\ consumer.pc = "upsert"
    /\ LET i == consumer.item
           exited == i \in Spawns /\ consumer.drawn.done
       IN  /\ IF i \in ThreadItems \cup bound
              THEN Upsert(i, consumer.drawn)
              ELSE UNCHANGED operations
           /\ bound' = IF exited THEN bound \ {i} ELSE bound
    /\ consumer' = [pc |-> "idle"]
    /\ UNCHANGED <<sent, ended, queue, behind, projection, touched, caller,
                   unseen, crossed>>

(* The answer to RecvError::Lagged, in the order of its locks.              *)
Lag ==
    /\ consumer.pc = "idle" /\ behind # {}
    /\ behind' = {}
    /\ projection' = [i \in Known |-> MarkLagged(projection[i])]
    /\ unseen' = unseen \cup {i \in Items :
                    /\ \E e \in behind : e.item = i
                    /\ ~(i \in Known /\ projection[i].active)}
    /\ consumer' = [pc |-> "lagged"]
    /\ UNCHANGED <<sent, ended, queue, touched, operations, bound, caller,
                   crossed>>

LagShown ==
    /\ consumer.pc = "lagged"
    /\ operations' = [n \in DOMAIN operations |->
                        [operations[n] EXCEPT !.summary.marks = @ \cup {"lagged"}]]
    /\ consumer' = [pc |-> "idle"]
    /\ UNCHANGED <<sent, ended, queue, behind, projection, touched, bound,
                   caller, unseen, crossed>>

Next ==
    \/ \E i \in Items : \E chunk \in Chunks(i) : Output(i, chunk)
    \/ \E i \in Items, ending \in Endings : Finish(i, ending)
    \/ \E p \in Processes : Start(p)
    \/ \E p \in Execs :
        \/ \E ending \in Endings : Answered(p, ending)
        \/ AnswerShown(p)
        \/ Unbind(p)
    \/ Progress \/ Completion \/ Shown
    \/ Lag \/ LagShown

Spec == Init /\ [][Next]_vars

-----------------------------------------------------------------------------
Event == [item : Items, kind : {"text", "large", "bad"} \cup Endings, n : Nat]
Entry == [tail : {tail \in Seq(Nat) : Len(tail) <= MaxTail},
          active : BOOLEAN, done : BOOLEAN, marks : SUBSET Marks]

(* Every value has its type, and the projections and the digest are within  *)
(* their limits whatever order the items come in.                           *)
TypeOK ==
    /\ sent \in [Items -> 0..MaxChunks] /\ ended \subseteq Items
    /\ queue \in Seq(Event) /\ Len(queue) <= MaxQueue /\ behind \subseteq Event
    /\ Known \subseteq Items /\ IsFiniteSet(Known)
    /\ \A i \in Known : projection[i] \in Entry
    /\ touched \in [Known -> 1..Cardinality(Known)]
    /\ \A map \in {ThreadItems, Processes} :
        /\ Cardinality(Class(map, projection, TRUE)) <= MaxActive
        /\ Cardinality(Class(map, projection, FALSE)) <= MaxRecent
    /\ operations \in Seq([item : Items, summary : Entry])
    /\ Len(operations) <= MaxEntries
    /\ \A m, n \in DOMAIN operations :
        operations[m].item = operations[n].item => m = n
    /\ bound \subseteq Processes
    /\ consumer \in [pc : {"idle", "lagged"}]
                      \cup [pc : {"upsert"}, item : Items, drawn : Entry]
    /\ caller \in [Execs -> [pc : {"idle", "wait", "unbind", "end"}]
                              \cup [pc : {"upsert"}, drawn : Entry]]

(* The output of an item that is on its way; what is before it has passed.  *)
Prints(e, i) == e.item = i /\ e.kind \notin Endings
Late(i)   == {e \in behind : Prints(e, i)}
Coming(i) == {n \in DOMAIN queue : Prints(queue[n], i)}
Due(i)    == {e.n : e \in Late(i)} \cup {queue[n].n : n \in Coming(i)}
Passed(i) == IF Due(i) = {} THEN sent[i]
             ELSE (CHOOSE k \in Due(i) : \A n \in Due(i) : k <= n) - 1

(* What the projection shows of an item without a mark is what the item has *)
(* printed up to where the consumer is: output that was lost in the channel, *)
(* could not be decoded or was cut off is never missing in silence.  Except *)
(* (observed) where the item had no active entry to be marked when it lost   *)
(* the output, or its entry had been evicted, and where the answer of a      *)
(* command/exec overtook the output it repeats.                             *)
GapIsSaid ==
    \A i \in Known \ (unseen \cup crossed) :
        projection[i].marks = {} =>
            LET tail == projection[i].tail
            IN  IF i \in Tools
                THEN tail # <<>> => tail[Len(tail)] = Passed(i)
                ELSE tail = [n \in 1..Passed(i) |-> n]

Quiet ==
    /\ queue = <<>> /\ behind = {} /\ consumer.pc = "idle"
    /\ \A p \in Execs : caller[p].pc \in {"idle", "wait", "end"}

(* Once everything sent is handled, no item that has ended is shown as still *)
(* running without the word that the stream lagged: not even when its       *)
(* completion was lost, or its projection evicted.  Except (observed) a      *)
(* command/exec whose answer overtook its output: the late output makes it   *)
(* active again, and nothing completes it a second time.                    *)
FinishedIsShown ==
    Quiet => \A n \in DOMAIN operations :
        LET i == operations[n].item
        IN  i \in ended \ crossed =>
                \/ ~operations[n].summary.active
                \/ "lagged" \in operations[n].summary.marks

(* Why it holds.  An item's completion comes after its output; an answer    *)
(* ends a command/exec.                                                     *)
Ends(n, i) == queue[n].item = i /\ queue[n].kind \in Endings
Ending(i)  == \E n \in DOMAIN queue : Ends(n, i)
EndIsLast ==
    \A m \in DOMAIN queue :
        LET i == queue[m].item
        IN  IF i \in Execs THEN ~Ends(m, i) /\ i \notin ended \ crossed
            ELSE IF Ends(m, i)
            THEN i \in ended /\ \A n \in DOMAIN queue : queue[n].item = i => n <= m
            ELSE i \in ended => \E n \in DOMAIN queue : m < n /\ Ends(n, i)
AnswerEnds ==
    \A p \in Execs :
        /\ p \in ended <=> caller[p].pc \in {"upsert", "unbind", "end"}
        /\ caller[p].pc = "upsert" => ~caller[p].drawn.active

(* What the consumer has drawn as running is, or there is more to come; what *)
(* it has drawn as ended is, and if it is a process still bound.            *)
DrawnInTime ==
    consumer.pc = "upsert" =>
        LET i == consumer.item
        IN  IF ~consumer.drawn.active THEN i \in ended \ Execs
            ELSE IF i \in Execs THEN i \notin ended \ crossed
            ELSE i \in ended => Ending(i) \/ behind # {}
BoundTillShown ==
    \A p \in Spawns :
        LET draws == consumer.pc = "upsert" /\ consumer.item = p
            asks  == \E n \in DOMAIN queue : queue[n].item = p
        IN  /\ asks \/ draws => p \in bound
            /\ (p \in Known /\ projection[p].done) \/ (draws /\ consumer.drawn.done)
                  => p \in ended /\ ~asks

(* What is shown as running although it has ended will be shown again.      *)
Again(i) ==
    \/ behind # {} \/ consumer.pc = "lagged" \/ Ending(i)
    \/ consumer.pc = "upsert" /\ consumer.item = i /\ ~consumer.drawn.active
    \/ i \in Execs /\ caller[i].pc = "upsert"
ShownAgain ==
    \A n \in DOMAIN operations :
        LET i == operations[n].item
        IN  i \in ended \ crossed /\ operations[n].summary.active
              /\ "lagged" \notin operations[n].summary.marks => Again(i)

ShowInv == TypeOK /\ EndIsLast /\ AnswerEnds /\ DrawnInTime /\ BoundTillShown
             /\ ShownAgain

(* What is on its way of an item's output is the last that was sent, in      *)
(* order, and the completion tells how much that is.                        *)
InOrder ==
    \A i \in Items :
        /\ Passed(i) \in 0..sent[i] /\ Due(i) = (Passed(i) + 1)..sent[i]
        /\ \A m, n \in Coming(i) : m < n => queue[m].n < queue[n].n
        /\ \A e \in Late(i), n \in Coming(i) : e.n < queue[n].n
        /\ \A n \in DOMAIN queue : Ends(n, i) => queue[n].n = sent[i]

(* What does not run any more has ended, and nothing of it is on its way.   *)
(* An item of which nothing is kept is such a one, or has printed nothing.  *)
Done(i) ==
    /\ i \in ended /\ \A n \in DOMAIN queue : queue[n].item # i
    /\ \A e \in behind : e.item # i
Rests == \A i \in Known \ crossed : ~projection[i].active => Done(i)
Unknown ==
    \A i \in Items \ (Known \cup unseen \cup crossed) : Passed(i) = 0 \/ Done(i)

IInv == ShowInv /\ InOrder /\ Rests /\ Unknown /\ GapIsSaid
=============================================================================
