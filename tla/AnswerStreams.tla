---------------------------- MODULE AnswerStreams ----------------------------
(***************************************************************************)
(* How an answer of Codex becomes a row of the delivery outbox:            *)
(* src/src/discord/bot.rs, StreamBuffer, the notifications that fill it,   *)
(* and flush_streams.                                                      *)
(*                                                                         *)
(* Two tasks work on the buffers: the notification consumer, which also    *)
(* flushes when a turn completes, and the stream flusher, which does every *)
(* two seconds.  The buffers are behind one mutex, held only for a look or *)
(* an update, never for the time a flush takes.  A message of Codex is     *)
(* <<n, i>>, the i-th of the n-th turn of its thread, and its text is how  *)
(* much of it has arrived: 0..Full.                                        *)
(***************************************************************************)
EXTENDS Naturals, FiniteSets

CONSTANTS
    Threads,     \* Codex threads with a task channel
    Consumer, Flusher,
    NoEntry,
    MaxTurns,    \* bound: turns of each thread
    TotalTurns,  \* bound: turns of all threads together
    MaxItems,    \* bound: agent messages of a turn
    Full         \* bound: deltas a message comes in

ASSUME BoundsAssumption ==
    /\ MaxTurns \in Nat /\ TotalTurns \in Nat /\ MaxItems \in Nat /\ Full \in Nat \ {0}
ASSUME WorkersAssumption == Consumer # Flusher

Workers  == {Consumer, Flusher}
Turns    == 1..MaxTurns
Messages == Turns \X (1..MaxItems)
Texts    == SUBSET (Messages \X (1..Full))

VARIABLES
    turn, active,  \* Codex: the latest turn of each thread, and whether it goes on
    told,          \* what item/completed said of each message: nothing, its text, or ""
    seg, whole,    \* StreamBuffer: the text of each segment, and which are completed
    dirty, final,  \* its flags; final is whether final_state is set
    taskTurn,      \* turn_id of the task row, 0 for none
    rows,          \* the outbox: keys <<thread, turn, text>> of its final answers
    pc, batch, entry, \* the two workers: where, their snapshot, and the entry in hand
    ending,        \* the thread whose turn/completed the consumer is handling
    stale          \* observed: messages a flush removed and had not in its snapshot

codex   == <<turn, active, told>>
buffers == <<seg, whole, dirty, final>>
flushes == <<pc, batch, entry>>
vars    == <<codex, buffers, taskTurn, rows, flushes, ending, stale>>

Entries == [thread : Threads, text : Texts, final : BOOLEAN]
InHand  == [thread : Threads, text : Texts, turn : 0..MaxTurns]

TypeOK ==
    /\ turn \in [Threads -> 0..MaxTurns] /\ active \in [Threads -> BOOLEAN]
    /\ told \in [Threads -> [Messages -> {"no", "text", "empty"}]]
    /\ seg \in [Threads -> [Messages -> 0..Full]]
    /\ whole \in [Threads -> SUBSET Messages]
    /\ dirty \in [Threads -> BOOLEAN] /\ final \in [Threads -> BOOLEAN]
    /\ taskTurn \in [Threads -> 0..MaxTurns]
    /\ rows \subseteq Threads \X (0..MaxTurns) \X Texts
    /\ pc \in [Workers -> {"idle", "snap", "pick", "enqueue", "remove", "live", "record"}]
    /\ batch \in [Workers -> SUBSET Entries]
    /\ entry \in [Workers -> InHand \cup {NoEntry}]
    /\ ending \in SUBSET Threads
    /\ stale \in [Threads -> SUBSET Messages]

Init ==
    /\ turn = [t \in Threads |-> 0] /\ active = [t \in Threads |-> FALSE]
    /\ told = [t \in Threads |-> [m \in Messages |-> "no"]]
    /\ seg = [t \in Threads |-> [m \in Messages |-> 0]]
    /\ whole = [t \in Threads |-> {}]
    /\ dirty = [t \in Threads |-> FALSE] /\ final = [t \in Threads |-> FALSE]
    /\ taskTurn = [t \in Threads |-> 0]
    /\ rows = {}
    /\ pc = [w \in Workers |-> "idle"] /\ batch = [w \in Workers |-> {}]
    /\ entry = [w \in Workers |-> NoEntry]
    /\ ending = {}
    /\ stale = [t \in Threads |-> {}]

Goto(w, p) == pc' = [pc EXCEPT ![w] = p]

\* StreamBuffer::text: what is there, without the empty segments.
Text(t) == {<<m, seg[t][m]>> : m \in {x \in Messages : seg[t][x] > 0}}

-----------------------------------------------------------------------------
(* Notifications, one at a time                                             *)

TurnsSoFar == Cardinality({x \in Threads \X Turns : x[2] <= turn[x[1]]})

\* turn/started: the task row takes the turn, unless the channel cannot be
\* moved, which ends the handler before the row is written. The buffer is left.
TurnStarted(t) ==
    /\ pc[Consumer] = "idle"
    /\ ~active[t] /\ turn[t] < MaxTurns /\ TurnsSoFar < TotalTurns
    /\ turn' = [turn EXCEPT ![t] = @ + 1]
    /\ active' = [active EXCEPT ![t] = TRUE]
    /\ \/ taskTurn' = [taskTurn EXCEPT ![t] = turn[t] + 1]
       \/ UNCHANGED taskTurn
    /\ UNCHANGED <<told, buffers, rows, flushes, ending, stale>>

\* The messages that item/completed is still to come for.
Current(t) == {m \in Messages : m[1] = turn[t] /\ told[t][m] = "no"}

\* append_delta: a segment that is completed is not touched by a delta that is
\* late or replayed. That deltas may be lost is that they need not happen.
\* Mutant: a late delta is appended.
AppendedAlways(t, m) == IF seg[t][m] = Full THEN Full - 1 ELSE seg[t][m] + 1
Appended(t, m) == IF m \in whole[t] THEN seg[t][m] ELSE seg[t][m] + 1

Delta(t) ==
    /\ pc[Consumer] = "idle" /\ active[t]
    /\ \E m \in Current(t) \cup whole[t] :
        /\ seg[t][m] < Full \/ m \in whole[t]
        /\ seg' = [seg EXCEPT ![t][m] = Appended(t, m)]
        /\ dirty' = [dirty EXCEPT ![t] = @ \/ m \notin whole[t]]
    /\ UNCHANGED <<codex, whole, final, taskTurn, rows, flushes, ending, stale>>

\* complete_item: item/completed carries the text, which may be empty, and
\* replaces what the deltas made of it.
ItemCompleted(t) ==
    /\ pc[Consumer] = "idle" /\ active[t]
    /\ \E m \in Current(t), text \in {0, Full} :
        /\ told' = [told EXCEPT ![t][m] = IF text = 0 THEN "empty" ELSE "text"]
        /\ seg' = [seg EXCEPT ![t][m] = text]
        /\ dirty' = [dirty EXCEPT ![t] = @ \/ seg[t][m] # text \/ text = 0]
        /\ whole' = [whole EXCEPT ![t] = @ \cup {m}]
    /\ UNCHANGED <<turn, active, final, taskTurn, rows, flushes, ending, stale>>

\* A thread has a buffer once something was said, until a flush removes it.
Buffered(t) == Text(t) # {} \/ whole[t] # {}

\* turn/completed: the buffer is marked as final, then all buffers are flushed.
TurnCompleted(t) ==
    /\ pc[Consumer] = "idle" /\ active[t]
    /\ active' = [active EXCEPT ![t] = FALSE]
    /\ final' = [final EXCEPT ![t] = @ \/ Buffered(t)]
    /\ dirty' = [dirty EXCEPT ![t] = @ \/ Buffered(t)]
    /\ ending' = {t}
    /\ Goto(Consumer, "snap")
    /\ UNCHANGED <<turn, told, seg, whole, taskTurn, rows, batch, entry, stale>>

\* The app-server goes away, and with it the turn: nothing is announced.
TurnVanishes(t) ==
    /\ active[t]
    /\ active' = [active EXCEPT ![t] = FALSE]
    /\ UNCHANGED <<turn, told, buffers, taskTurn, rows, flushes, ending, stale>>

-----------------------------------------------------------------------------
(* flush_streams                                                            *)

\* Mutant: a final buffer is left to the flush of its turn/completed.
FlushableLive(t) == dirty[t] /\ Text(t) # {} /\ ~final[t]
Flushable(t) == dirty[t] /\ Text(t) # {}

\* Under the mutex: what is dirty and not empty.
Snapshot(w) ==
    /\ pc[w] = IF w = Consumer THEN "snap" ELSE "idle"
    /\ batch' = [batch EXCEPT ![w] =
            {[thread |-> t, text |-> Text(t), final |-> final[t]] :
                t \in {x \in Threads : Flushable(x)}}]
    /\ w = Flusher => batch'[w] # {}
    /\ Goto(w, "pick")
    /\ UNCHANGED <<codex, buffers, taskTurn, rows, entry, ending, stale>>

\* Any error ends the flush, with what is left of its snapshot.
Abort(w) ==
    /\ batch' = [batch EXCEPT ![w] = {}]
    /\ entry' = [entry EXCEPT ![w] = NoEntry]
    /\ Goto(w, "idle")
    /\ ending' = IF w = Consumer THEN {} ELSE ending

\* The task row is read; entries come in the order of a hash map.
Pick(w, t) ==
    /\ pc[w] = "pick"
    /\ \E e \in batch[w] :
        /\ e.thread = t
        /\ entry' = [entry EXCEPT ![w] = [thread |-> t, text |-> e.text, turn |-> taskTurn[t]]]
        /\ batch' = [batch EXCEPT ![w] = @ \ {e}]
        /\ Goto(w, IF e.final THEN "enqueue" ELSE "live")
    /\ UNCHANGED <<codex, buffers, taskTurn, rows, ending, stale>>

PickFails(w) ==
    /\ pc[w] = "pick" /\ batch[w] # {}
    /\ Abort(w)
    /\ UNCHANGED <<codex, buffers, taskTurn, rows, stale>>

\* enqueue_outbox: final-answer:{thread}:{turn}:{hash of the text} is inserted,
\* and nothing is done for a key that is there.
\* Mutant: the text does not count.
SameTurn(r, e) == r[1] = e.thread /\ r[2] = e.turn
SameKey(r, e) == r = <<e.thread, e.turn, e.text>>

Enqueue(w) ==
    /\ pc[w] = "enqueue"
    /\ rows' = IF \E r \in rows : SameKey(r, entry[w]) THEN rows
               ELSE rows \cup {<<entry[w].thread, entry[w].turn, entry[w].text>>}
    /\ Goto(w, "remove")
    /\ UNCHANGED <<codex, buffers, taskTurn, batch, entry, ending, stale>>

EnqueueFails(w) ==
    /\ pc[w] = "enqueue"
    /\ Abort(w)
    /\ UNCHANGED <<codex, buffers, taskTurn, rows, stale>>

\* The buffer of the thread is removed, whatever it holds by now.
Remove(w) ==
    /\ pc[w] = "remove"
    /\ LET t == entry[w].thread IN
        /\ stale' = [stale EXCEPT ![t] = @ \cup {x[1] : x \in Text(t) \ entry[w].text}]
        /\ seg' = [seg EXCEPT ![t] = [m \in Messages |-> 0]]
        /\ whole' = [whole EXCEPT ![t] = {}]
        /\ dirty' = [dirty EXCEPT ![t] = FALSE]
        /\ final' = [final EXCEPT ![t] = FALSE]
    /\ entry' = [entry EXCEPT ![w] = NoEntry]
    /\ Goto(w, "pick")
    /\ UNCHANGED <<codex, taskTurn, rows, batch, ending>>

\* The live message is edited, or sent when there is none yet.
EditLive(w) ==
    /\ pc[w] = "live"
    /\ Goto(w, "record")
    /\ UNCHANGED <<codex, buffers, taskTurn, rows, batch, entry, ending, stale>>

EditFails(w) ==
    /\ pc[w] = "live"
    /\ Abort(w)
    /\ UNCHANGED <<codex, buffers, taskTurn, rows, stale>>

\* The buffer is clean if its text is still the one that was shown.
StillDirty(t, e) == Text(t) # e.text

Record(w) ==
    /\ pc[w] = "record"
    /\ LET t == entry[w].thread IN
        dirty' = [dirty EXCEPT ![t] = Buffered(t) /\ StillDirty(t, entry[w])]
    /\ entry' = [entry EXCEPT ![w] = NoEntry]
    /\ Goto(w, "pick")
    /\ UNCHANGED <<codex, seg, whole, final, taskTurn, rows, batch, ending, stale>>

\* After its flush the consumer writes the task row, without a turn, unless
\* something before that fails.
FlushEnds(w) ==
    /\ pc[w] = "pick" /\ batch[w] = {}
    /\ Goto(w, "idle")
    /\ IF w = Consumer
       THEN /\ taskTurn' \in {taskTurn, [t \in Threads |-> IF t \in ending THEN 0 ELSE taskTurn[t]]}
            /\ ending' = {}
       ELSE UNCHANGED <<taskTurn, ending>>
    /\ UNCHANGED <<codex, buffers, rows, batch, entry, stale>>

-----------------------------------------------------------------------------

Flush(w) ==
    \/ Snapshot(w) \/ PickFails(w) \/ Enqueue(w) \/ EnqueueFails(w) \/ Remove(w)
    \/ EditLive(w) \/ EditFails(w) \/ Record(w) \/ FlushEnds(w)
    \/ \E t \in Threads : Pick(w, t)

Notified(t) ==
    TurnStarted(t) \/ Delta(t) \/ ItemCompleted(t) \/ TurnCompleted(t)

Next ==
    \/ \E t \in Threads : Notified(t) \/ TurnVanishes(t)
    \/ \E w \in Workers : Flush(w)

Spec == Init /\ [][Next]_vars

\* The flusher goes on for ever; SQLite and Discord fail now and then, but not
\* every time. Nothing is assumed of the consumer, nor of Codex.
Fairness ==
    /\ WF_vars(Flush(Flusher))
    /\ \A t \in Threads : SF_vars(Pick(Flusher, t))
    /\ SF_vars(Enqueue(Flusher)) /\ SF_vars(EditLive(Flusher))

FairSpec == Spec /\ Fairness

-----------------------------------------------------------------------------
(* Properties                                                               *)

InBuffer(t, m) == seg[t][m] = Full
InRow(t, m) == \E r \in rows : r[1] = t /\ <<m, Full>> \in r[3]

\* A message of an answer, once item/completed has given its text, is in the
\* buffer of its thread or in a row of the outbox, whole, whichever deltas got
\* lost or came late, whatever failed and however the two flushes overlap. Left
\* out are messages that a flush removed and had not seen, those in stale.
AnswerKept ==
    \A t \in Threads, m \in Messages :
        told[t][m] = "text" /\ m \notin stale[t] => InBuffer(t, m) \/ InRow(t, m)

\* The buffer of a completed turn, with a text to deliver.
Due(t) == final[t] /\ \E m \in Messages : told[t][m] = "text" /\ InBuffer(t, m)

\* It does not stay where it is for ever, although the flush of other threads may
\* fail over and over before it is this one's turn: it goes to the outbox, or an
\* overlapping flush removes it or marks it as clean.
FinalIsFlushed == \A t \in Threads : Due(t) /\ dirty[t] ~> ~Due(t) \/ ~dirty[t]

\* The same without the last exception: docs/ARCHITECTURE.md has the final answer
\* written through the durable outbox, which no transient failure loses.  It does
\* not hold: a flush that overlaps with the end of the turn marks it as clean.
AnswerArrives == \A t \in Threads : Due(t) ~> ~Due(t)
=============================================================================
