------------------------- MODULE AnswerStreams_proofs -------------------------
(***************************************************************************)
(* What holds of the answer streams for any number of threads, of turns, of *)
(* messages and of deltas.                                                  *)
(***************************************************************************)
EXTENDS AnswerStreams, TLAPS

\* What a flush has in hand: an entry, and once it is enqueued, its row.
HandInv ==
    \A w \in Workers :
        /\ pc[w] \in {"enqueue", "remove", "live", "record"} => entry[w] \in InHand
        /\ pc[w] = "remove" => <<entry[w].thread, entry[w].turn, entry[w].text>> \in rows

IInv == TypeOK /\ HandInv /\ AnswerKept

-----------------------------------------------------------------------------

LEMMA TextType ==
    ASSUME TypeOK, NEW t \in Threads
    PROVE  Text(t) \in Texts
<1>1. SUFFICES ASSUME NEW m \in Messages, seg[t][m] > 0
               PROVE  <<m, seg[t][m]>> \in Messages \X (1..Full)
  BY DEF Text, Texts
<1>2. seg[t][m] \in 0..Full /\ Full \in Nat
  BY BoundsAssumption DEF TypeOK
<1> QED BY <1>1, <1>2

\* What a flush does to its own place, entry and batch, and nothing else.
LEMMA AbortStep ==
    ASSUME IInv, NEW w \in Workers, Abort(w),
           UNCHANGED <<codex, buffers, taskTurn, rows, stale>>
    PROVE  IInv'
<1> USE DEF IInv
<1>1. TypeOK'
  BY DEF TypeOK, Abort, Goto, codex, buffers
<1>2. HandInv'
  BY DEF HandInv, TypeOK, Abort, Goto
<1>3. AnswerKept'
  BY DEF AnswerKept, InBuffer, InRow, codex, buffers
<1> QED BY <1>1, <1>2, <1>3

LEMMA InitInv == Init => IInv
<1> SUFFICES ASSUME Init PROVE IInv
  OBVIOUS
<1>1. TypeOK
  BY BoundsAssumption DEF Init, TypeOK
<1>2. HandInv
  BY DEF Init, HandInv
<1>3. AnswerKept
  BY DEF Init, AnswerKept
<1> QED BY <1>1, <1>2, <1>3 DEF IInv

-----------------------------------------------------------------------------
(* The consumer's notifications                                             *)

LEMMA TurnStep ==
    ASSUME IInv, NEW t \in Threads, TurnStarted(t) \/ TurnCompleted(t) \/ TurnVanishes(t)
    PROVE  IInv'
<1> USE DEF IInv
<1>1. HandInv' /\ AnswerKept'
  BY DEF HandInv, AnswerKept, InBuffer, InRow, TypeOK, TurnStarted, TurnCompleted, TurnVanishes,
         Goto, codex, buffers, flushes
<1>2. TypeOK'
  <2>1. CASE TurnStarted(t)
    <3>1. turn[t] + 1 \in 0..MaxTurns
      BY <2>1, BoundsAssumption DEF TurnStarted, TypeOK
    <3> QED BY <2>1, <3>1 DEF TurnStarted, TypeOK, codex, buffers, flushes
  <2>2. CASE TurnCompleted(t)
    BY <2>2 DEF TurnCompleted, TypeOK, Goto, Buffered
  <2>3. CASE TurnVanishes(t)
    BY <2>3 DEF TurnVanishes, TypeOK, codex, buffers, flushes
  <2> QED BY <2>1, <2>2, <2>3
<1> QED BY <1>1, <1>2

\* A delta never changes a message that item/completed has told.
LEMMA DeltaStep ==
    ASSUME IInv, NEW t \in Threads, Delta(t)
    PROVE  IInv'
<1> USE DEF IInv
<1>1. PICK m \in Current(t) \cup whole[t] :
          /\ seg[t][m] < Full \/ m \in whole[t]
          /\ seg' = [seg EXCEPT ![t][m] = Appended(t, m)]
          /\ dirty' = [dirty EXCEPT ![t] = @ \/ m \notin whole[t]]
  BY DEF Delta
<1>2. m \in Messages /\ seg[t][m] \in 0..Full /\ Full \in Nat
  BY BoundsAssumption DEF TypeOK, Current
<1>3. Appended(t, m) \in 0..Full
  BY <1>1, <1>2 DEF Appended
<1>4. TypeOK'
  BY <1>1, <1>2, <1>3 DEF TypeOK, Delta, codex, flushes
<1>5. HandInv'
  BY DEF HandInv, Delta, flushes
<1>6. \A x \in Threads, y \in Messages : told[x][y] = "text" => seg'[x][y] = seg[x][y]
  BY <1>1, <1>2 DEF TypeOK, Appended, Current
<1>7. AnswerKept'
  BY <1>6 DEF AnswerKept, InBuffer, InRow, Delta, codex
<1> QED BY <1>4, <1>5, <1>7

LEMMA ItemStep ==
    ASSUME IInv, NEW t \in Threads, ItemCompleted(t)
    PROVE  IInv'
<1> USE DEF IInv
<1>1. PICK m \in Current(t), text \in {0, Full} :
          /\ told' = [told EXCEPT ![t][m] = IF text = 0 THEN "empty" ELSE "text"]
          /\ seg' = [seg EXCEPT ![t][m] = text]
          /\ dirty' = [dirty EXCEPT ![t] = @ \/ seg[t][m] # text \/ text = 0]
          /\ whole' = [whole EXCEPT ![t] = @ \cup {m}]
  BY DEF ItemCompleted
<1>2. m \in Messages /\ Full \in Nat /\ Full # 0 /\ text \in 0..Full
  BY BoundsAssumption DEF Current
<1>3. TypeOK'
  BY <1>1, <1>2 DEF TypeOK, ItemCompleted, flushes
<1>4. HandInv'
  BY DEF HandInv, ItemCompleted, flushes
<1>5. AnswerKept'
  <2> SUFFICES ASSUME NEW x \in Threads, NEW y \in Messages,
                      told'[x][y] = "text", y \notin stale'[x]
               PROVE  (InBuffer(x, y) \/ InRow(x, y))'
    BY DEF AnswerKept
  <2>1. CASE x = t /\ y = m
    BY <1>1, <1>2, <2>1 DEF InBuffer, TypeOK
  <2>2. CASE ~(x = t /\ y = m)
    <3>1. told[x][y] = "text" /\ seg'[x][y] = seg[x][y]
      BY <1>1, <1>2, <2>2 DEF TypeOK
    <3> QED BY <3>1 DEF AnswerKept, InBuffer, InRow, ItemCompleted
  <2> QED BY <2>1, <2>2
<1> QED BY <1>3, <1>4, <1>5

-----------------------------------------------------------------------------
(* The flushes                                                              *)

LEMMA SnapshotStep ==
    ASSUME IInv, NEW w \in Workers, Snapshot(w)
    PROVE  IInv'
<1> USE DEF IInv
<1>1. \A t \in Threads : [thread |-> t, text |-> Text(t), final |-> final[t]] \in Entries
  BY TextType DEF Entries, TypeOK
<1>2. TypeOK'
  BY <1>1 DEF TypeOK, Snapshot, Goto, codex, buffers
<1>3. HandInv' /\ AnswerKept'
  BY DEF HandInv, AnswerKept, InBuffer, InRow, TypeOK, Snapshot, Goto, codex, buffers
<1> QED BY <1>2, <1>3

LEMMA PickStep ==
    ASSUME IInv, NEW w \in Workers, NEW t \in Threads, Pick(w, t)
    PROVE  IInv'
<1> USE DEF IInv
<1>1. PICK e \in batch[w] :
          /\ entry' = [entry EXCEPT ![w] = [thread |-> t, text |-> e.text, turn |-> taskTurn[t]]]
          /\ batch' = [batch EXCEPT ![w] = @ \ {e}]
          /\ Goto(w, IF e.final THEN "enqueue" ELSE "live")
  BY DEF Pick
<1>2. [thread |-> t, text |-> e.text, turn |-> taskTurn[t]] \in InHand
  BY DEF InHand, Entries, TypeOK
<1>3. TypeOK'
  BY <1>1, <1>2 DEF TypeOK, Pick, Goto, codex, buffers
<1>4. HandInv'
  BY <1>1, <1>2 DEF HandInv, TypeOK, Pick, Goto
<1>5. AnswerKept'
  BY DEF AnswerKept, InBuffer, InRow, Pick, codex, buffers
<1> QED BY <1>3, <1>4, <1>5

LEMMA EnqueueStep ==
    ASSUME IInv, NEW w \in Workers, Enqueue(w)
    PROVE  IInv'
<1> USE DEF IInv
<1>1. entry[w] \in InHand
  BY DEF Enqueue, HandInv
<1>2. /\ rows \subseteq rows'
      /\ <<entry[w].thread, entry[w].turn, entry[w].text>> \in rows'
      /\ rows' \subseteq rows \cup {<<entry[w].thread, entry[w].turn, entry[w].text>>}
  BY DEF Enqueue, SameKey
<1>3. TypeOK'
  BY <1>1, <1>2 DEF TypeOK, Enqueue, Goto, InHand, codex, buffers
<1>4. HandInv'
  BY <1>1, <1>2 DEF HandInv, TypeOK, Enqueue, Goto
<1>5. AnswerKept'
  BY <1>2 DEF AnswerKept, InBuffer, InRow, Enqueue, codex, buffers
<1> QED BY <1>3, <1>4, <1>5

\* What the removed buffer held is in the row, or was not in the snapshot.
LEMMA RemoveStep ==
    ASSUME IInv, NEW w \in Workers, Remove(w)
    PROVE  IInv'
<1> USE DEF IInv
<1> DEFINE t == entry[w].thread
<1>1. entry[w] \in InHand /\ t \in Threads
  BY DEF Remove, HandInv, InHand
<1>2. <<t, entry[w].turn, entry[w].text>> \in rows
  BY DEF Remove, HandInv
<1>3. {x[1] : x \in Text(t) \ entry[w].text} \subseteq Messages
  BY <1>1, TextType DEF Texts
<1>4. TypeOK'
  <2>1. stale' \in [Threads -> SUBSET Messages]
    BY <1>1, <1>3 DEF TypeOK, Remove
  <2>2. seg' \in [Threads -> [Messages -> 0..Full]]
    BY <1>1, BoundsAssumption DEF TypeOK, Remove
  <2> QED BY <1>1, <2>1, <2>2 DEF TypeOK, Remove, Goto, codex
<1>5. HandInv'
  BY DEF HandInv, TypeOK, Remove, Goto
<1>6. AnswerKept'
  <2> SUFFICES ASSUME NEW x \in Threads, NEW y \in Messages,
                      told[x][y] = "text", y \notin stale'[x]
               PROVE  (InBuffer(x, y) \/ InRow(x, y))'
    BY DEF AnswerKept, Remove, codex
  <2>1. stale' = [stale EXCEPT ![t] = @ \cup {z[1] : z \in Text(t) \ entry[w].text}]
        /\ seg' = [seg EXCEPT ![t] = [m \in Messages |-> 0]] /\ rows' = rows
    BY DEF Remove
  <2>2. y \notin stale[x]
    BY <1>1, <2>1 DEF TypeOK
  <2>3. InBuffer(x, y) \/ InRow(x, y)
    BY <2>2 DEF AnswerKept
  <2>4. CASE InRow(x, y)
    BY <2>1, <2>4 DEF InRow
  <2>5. CASE InBuffer(x, y) /\ x # t
    BY <1>1, <2>1, <2>5 DEF InBuffer, TypeOK
  <2>6. CASE InBuffer(x, y) /\ x = t
    <3>1. <<y, Full>> \in Text(t)
      BY <2>6, BoundsAssumption DEF Text, InBuffer
    <3>2. <<y, Full>> \in entry[w].text
      <4>1. y \notin {z[1] : z \in Text(t) \ entry[w].text}
        BY <1>1, <2>1, <2>6 DEF TypeOK
      <4> QED BY <3>1, <4>1
    <3>3. \E r \in rows : r[1] = x /\ <<y, Full>> \in r[3]
      BY <1>2, <2>6, <3>2
    <3> QED BY <2>1, <3>3 DEF InRow
  <2> QED BY <2>3, <2>4, <2>5, <2>6
<1> QED BY <1>4, <1>5, <1>6

LEMMA LiveStep ==
    ASSUME IInv, NEW w \in Workers, EditLive(w) \/ Record(w)
    PROVE  IInv'
<1> USE DEF IInv
<1>1. entry[w] \in InHand
  BY DEF EditLive, Record, HandInv
<1>2. TypeOK'
  <2>1. CASE EditLive(w)
    BY <2>1 DEF TypeOK, EditLive, Goto, codex, buffers
  <2>2. CASE Record(w)
    BY <1>1, <2>2 DEF TypeOK, Record, Goto, InHand, Buffered, StillDirty, codex
  <2> QED BY <2>1, <2>2
<1>3. HandInv' /\ AnswerKept'
  BY <1>1 DEF HandInv, AnswerKept, InBuffer, InRow, TypeOK, EditLive, Record, Goto, codex, buffers
<1> QED BY <1>2, <1>3

LEMMA EndsStep ==
    ASSUME IInv, NEW w \in Workers, FlushEnds(w)
    PROVE  IInv'
<1> USE DEF IInv
<1>1. taskTurn' \in [Threads -> 0..MaxTurns] /\ ending' \in SUBSET Threads
  <2>1. [t \in Threads |-> IF t \in ending THEN 0 ELSE taskTurn[t]] \in [Threads -> 0..MaxTurns]
    BY BoundsAssumption DEF TypeOK
  <2>2. taskTurn' \in {taskTurn, [t \in Threads |-> IF t \in ending THEN 0 ELSE taskTurn[t]]}
    BY DEF FlushEnds
  <2>3. ending' = {} \/ ending' = ending
    BY DEF FlushEnds
  <2>4. taskTurn \in [Threads -> 0..MaxTurns] /\ ending \in SUBSET Threads
    BY DEF TypeOK
  <2> QED BY <2>1, <2>2, <2>3, <2>4
<1>2. TypeOK'
  BY <1>1 DEF TypeOK, FlushEnds, Goto, codex, buffers
<1>3. HandInv' /\ AnswerKept'
  BY DEF HandInv, AnswerKept, InBuffer, InRow, TypeOK, FlushEnds, Goto, codex, buffers
<1> QED BY <1>2, <1>3

-----------------------------------------------------------------------------

LEMMA NextInv == IInv /\ [Next]_vars => IInv'
<1> SUFFICES ASSUME IInv, [Next]_vars PROVE IInv'
  OBVIOUS
<1>1. CASE \E t \in Threads : Notified(t) \/ TurnVanishes(t)
  BY <1>1, TurnStep, DeltaStep, ItemStep DEF Notified
<1>2. ASSUME NEW w \in Workers, Flush(w) PROVE IInv'
  <2>1. CASE PickFails(w) \/ EnqueueFails(w) \/ EditFails(w)
    BY <2>1, AbortStep DEF PickFails, EnqueueFails, EditFails
  <2> QED BY <1>2, <2>1, SnapshotStep, PickStep, EnqueueStep, RemoveStep, LiveStep, EndsStep
          DEF Flush
<1>3. CASE UNCHANGED vars
  BY <1>3 DEF IInv, TypeOK, HandInv, AnswerKept, InBuffer, InRow, vars, codex, buffers, flushes
<1> QED BY <1>1, <1>2, <1>3 DEF Next

\* The inductive invariant of the streams.
THEOREM StreamsInductive == Spec => []IInv
<1> QED BY InitInv, NextInv, PTL DEF Spec

\* Every variable of the streams keeps its type, for any number of threads and turns.
THEOREM StreamsTypeCorrect == Spec => []TypeOK
<1> QED BY StreamsInductive, PTL DEF IInv

\* An answer that item/completed has told is in its buffer or in a row of the
\* outbox (flush_streams, StreamBuffer), for any number of threads and turns.
THEOREM AnswersKept == Spec => []AnswerKept
<1> QED BY StreamsInductive, PTL DEF IInv
=============================================================================
