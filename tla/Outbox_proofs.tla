---------------------------- MODULE Outbox_proofs ----------------------------
(***************************************************************************)
(* What holds of the delivery outbox for every set of keys, every number   *)
(* of attempts, every size of the batches and of the table, and any number *)
(* of restarts.                                                            *)
(***************************************************************************)
EXTENDS Outbox, TLAPS

\* Keys that had a row at some time.
Ever == InTable \cup past

\* What the flusher has in hand.
HandInv ==
    /\ pc \in {"idle", "post"} => current = NoKey
    /\ pc \in {"mark", "unspool"} => current \in Ever
    /\ pc = "unspool" => current \in Media /\ current \notin Pending
    /\ ok => pc \in {"mark", "unspool"} /\ posts[current] > 0
    /\ batch \subseteq Ever /\ current \notin batch

\* A key has one row in its life, and nothing is posted of it before.
LifeInv ==
    /\ saving \subseteq delivered /\ saving \cap Ever = {}
    /\ Media \cap Ever \subseteq delivered
    /\ \A k \in Keys \ Ever : posts[k] = 0

\* Rows in hand can take one more attempt.
AttemptsInv ==
    \A k \in InTable : k \in batch \/ (pc = "mark" /\ k = current) => attempts[k] < MaxAttempts

\* Content that is still to be posted was not, as far as the relay can tell.
OnceInv ==
    \A k \in Keys \ unclear :
        /\ k \in batch => posts[k] = 0
        /\ k \in Pending => posts[k] = 0 \/ (pc = "mark" /\ ok /\ current = k)

FileInv == saving \subseteq spool /\ FileKept

IInv ==
    /\ TypeOK /\ HandInv /\ LifeInv /\ AttemptsInv
    /\ AckedIsPosted /\ PostedOnce /\ OnceInv /\ FileInv

-----------------------------------------------------------------------------

\* A new row: fresh, and the only change of the table.
LEMMA InsertFacts ==
    ASSUME TypeOK, NEW k \in Keys, Insert(k)
    PROVE  /\ k \notin InTable
           /\ InTable' = InTable \cup {k} /\ past' = past
           /\ Ever' = Ever \cup {k}
           /\ Pending' = Pending \cup {k}
           /\ attempts' = [attempts EXCEPT ![k] = 0] /\ sent' = [sent EXCEPT ![k] = FALSE]
           /\ rowId' \in [Keys -> 0..MaxIds] /\ lastId' \in 0..MaxIds
           /\ expired' \in [Keys -> BOOLEAN]
<1>1. k \notin InTable /\ lastId < MaxIds /\ lastId \in Nat /\ MaxIds \in Nat
  BY BoundsAssumption DEF Insert, Insertable, TypeOK
<1>2. lastId + 1 \in 0..MaxIds /\ lastId + 1 # 0
  BY <1>1
<1>3. rowId' = [rowId EXCEPT ![k] = lastId + 1] /\ past' = past
  BY DEF Insert
<1>4. InTable' = InTable \cup {k}
  BY <1>2, <1>3 DEF InTable, TypeOK
<1>5. attempts' = [attempts EXCEPT ![k] = 0] /\ sent' = [sent EXCEPT ![k] = FALSE]
  BY DEF Insert
<1>6. Pending' = Pending \cup {k}
  BY <1>1, <1>4, <1>5, BoundsAssumption DEF Pending, TypeOK, InTable
<1>7. rowId' \in [Keys -> 0..MaxIds] /\ lastId' \in 0..MaxIds
  BY <1>2, <1>3 DEF Insert, TypeOK
<1>8. expired' \in [Keys -> BOOLEAN]
  BY DEF Insert, TypeOK
<1> QED BY <1>1, <1>3, <1>4, <1>5, <1>6, <1>7, <1>8 DEF Ever

\* A mark: rows may go, none comes, and only the row in hand changes.
LEMMA WriteFacts ==
    ASSUME TypeOK, HandInv, AttemptsInv, pc = "mark",
           NEW gone \in SUBSET InTable, Write(SentNow, AttemptsNow, gone)
    PROVE  /\ InTable' = InTable \ gone
           /\ Ever' = Ever
           /\ \A k \in Keys : sent'[k] => sent[k] \/ (ok /\ k = current)
           /\ \A k \in Pending' : k \in Pending /\ ~(ok /\ k = current)
           /\ \A k \in InTable' : k # current => attempts'[k] = attempts[k]
           /\ rowId' \in [Keys -> 0..MaxIds] /\ past' \subseteq Keys /\ lastId' = lastId
           /\ attempts' \in [Keys -> 0..MaxAttempts]
           /\ sent' \in [Keys -> BOOLEAN] /\ expired' \in [Keys -> BOOLEAN]
<1>1. InTable \subseteq Keys
  BY DEF InTable
<1>2. rowId' = [k \in Keys |-> IF k \in gone THEN 0 ELSE rowId[k]] /\ past' = past \cup gone
  BY DEF Write
<1>3. InTable' = InTable \ gone
  BY <1>2 DEF InTable
<1>4. Ever' = Ever
  BY <1>2, <1>3 DEF Ever
<1>5. sent' = [k \in Keys |-> k \notin gone /\ SentNow[k]]
  BY DEF Write
<1>6. \A k \in Keys : SentNow[k] = (sent[k] \/ (ok /\ k = current /\ k \in InTable))
  BY DEF SentNow
<1>7. \A k \in Keys : sent'[k] => sent[k] \/ (ok /\ k = current)
  BY <1>5, <1>6
<1>8. attempts' = [k \in Keys |-> IF k \in gone THEN 0 ELSE AttemptsNow[k]]
  BY DEF Write
<1>9. \A k \in Keys : AttemptsNow[k] = IF ~ok /\ k = current /\ k \in InTable
                                       THEN attempts[k] + 1 ELSE attempts[k]
  BY DEF AttemptsNow
<1>10. \A k \in Keys : AttemptsNow[k] \in 0..MaxAttempts /\ AttemptsNow[k] >= attempts[k]
  <2> SUFFICES ASSUME NEW k \in Keys
               PROVE AttemptsNow[k] \in 0..MaxAttempts /\ AttemptsNow[k] >= attempts[k]
    OBVIOUS
  <2>1. attempts[k] \in 0..MaxAttempts /\ MaxAttempts \in Nat
    BY BoundsAssumption DEF TypeOK
  <2>2. CASE ~ok /\ k = current /\ k \in InTable
    <3>1. attempts[k] < MaxAttempts  BY <2>2 DEF AttemptsInv
    <3> QED BY <1>9, <2>1, <2>2, <3>1
  <2>3. CASE ~(~ok /\ k = current /\ k \in InTable)
    BY <1>9, <2>1, <2>3
  <2> QED BY <2>2, <2>3
<1>11. \A k \in Pending' : k \in Pending /\ ~(ok /\ k = current)
  <2> SUFFICES ASSUME NEW k \in Pending'
               PROVE k \in Pending /\ ~(ok /\ k = current)
    OBVIOUS
  <2>1. k \in InTable /\ k \notin gone /\ k \in Keys /\ ~sent'[k] /\ attempts'[k] < MaxAttempts
    BY <1>1, <1>3 DEF Pending
  <2>2. ~sent[k] /\ ~(ok /\ k = current)
    BY <1>5, <1>6, <2>1
  <2>3. attempts'[k] = AttemptsNow[k]
    BY <1>8, <2>1
  <2>4. attempts[k] < MaxAttempts
    <3>1. attempts[k] \in Nat /\ MaxAttempts \in Nat  BY <2>1, BoundsAssumption DEF TypeOK
    <3> QED BY <1>10, <2>1, <2>3, <3>1
  <2> QED BY <2>1, <2>2, <2>4 DEF Pending
<1>12. \A k \in InTable' : k # current => attempts'[k] = attempts[k]
  BY <1>1, <1>3, <1>8, <1>9
<1>13. rowId' \in [Keys -> 0..MaxIds] /\ past' \subseteq Keys /\ lastId' = lastId
  BY <1>1, <1>2, BoundsAssumption DEF TypeOK, Write
<1>14. attempts' \in [Keys -> 0..MaxAttempts]
  BY <1>8, <1>10, BoundsAssumption
<1>15. sent' \in [Keys -> BOOLEAN]
  BY <1>5, Zenon
<1>16. expired' \in [Keys -> BOOLEAN]
  <2>1. expired' = [k \in Keys |-> k \notin gone /\ StillExpired(k, SentNow)]  BY DEF Write
  <2>2. \A k \in Keys : StillExpired(k, SentNow) \in BOOLEAN
    BY DEF StillExpired, TypeOK
  <2> QED BY <2>1, <2>2
<1> QED BY <1>3, <1>4, <1>7, <1>11, <1>12, <1>13, <1>14, <1>15, <1>16

\* Nothing said of the rows changes while the table does not.
LEMMA TableFacts ==
    ASSUME UNCHANGED table
    PROVE  /\ InTable' = InTable /\ Pending' = Pending /\ Ever' = Ever
           /\ rowId' = rowId /\ lastId' = lastId /\ attempts' = attempts
           /\ sent' = sent /\ expired' = expired /\ past' = past
  BY DEF table, InTable, Pending, Ever

\* What the keys are made of, and where the sets of them lie.
LEMMA KeyFacts ==
    ASSUME TypeOK
    PROVE  /\ InTable \subseteq Keys /\ Pending \subseteq InTable /\ Ever \subseteq Keys
           /\ Answers \subseteq Keys /\ Media \subseteq Keys /\ Unknown \subseteq Keys
           /\ Media \cap Answers = {} /\ Media \cap Unknown = {} /\ Answers \cap Unknown = {}
           /\ NoKey \notin Keys
           /\ MaxAttempts \in Nat \ {0}
  BY KeysAssumption, BoundsAssumption DEF TypeOK, InTable, Pending, Ever, Keys

\* Before the first step there is nothing.
LEMMA InitInv == Init => IInv
<1> SUFFICES ASSUME Init PROVE IInv
  OBVIOUS
<1>1. InTable = {} /\ Pending = {} /\ Ever = {}
  BY DEF Init, InTable, Pending, Ever
<1>2. TypeOK
  <2>1. rowId \in [Keys -> 0..MaxIds] /\ attempts \in [Keys -> 0..MaxAttempts]
    BY BoundsAssumption DEF Init
  <2>2. sent \in [Keys -> BOOLEAN] /\ expired \in [Keys -> BOOLEAN] /\ posts \in [Keys -> 0..2]
    BY DEF Init
  <2>3. lastId \in 0..MaxIds /\ restarts \in 0..MaxRestarts
    BY BoundsAssumption DEF Init
  <2> QED BY <2>1, <2>2, <2>3 DEF Init, TypeOK
<1>3. HandInv /\ LifeInv /\ AttemptsInv
  BY <1>1 DEF Init, HandInv, LifeInv, AttemptsInv
<1>4. AckedIsPosted /\ PostedOnce /\ OnceInv /\ FileInv
  BY <1>1 DEF Init, AckedIsPosted, PostedOnce, OnceInv, FileInv, FileKept
<1> QED BY <1>2, <1>3, <1>4 DEF IInv

\* A new row, if the key is one that had none before and a media row has its file.
LEMMA InsertStep ==
    ASSUME IInv, NEW k \in Keys, Insert(k), k \notin Ever,
           k \in Media => k \in saving,
           saving' = saving \ {k}, UNCHANGED <<spool, delivered, flusher, posts, unclear, restarts>>
    PROVE  IInv'
<1> TypeOK /\ HandInv /\ LifeInv /\ AttemptsInv /\ AckedIsPosted /\ PostedOnce /\ OnceInv /\ FileInv
  BY DEF IInv
<1>1. /\ InTable' = InTable \cup {k} /\ past' = past
      /\ Ever' = Ever \cup {k} /\ Pending' = Pending \cup {k}
      /\ attempts' = [attempts EXCEPT ![k] = 0] /\ sent' = [sent EXCEPT ![k] = FALSE]
      /\ rowId' \in [Keys -> 0..MaxIds] /\ lastId' \in 0..MaxIds
      /\ expired' \in [Keys -> BOOLEAN]
  BY InsertFacts
<1>2. /\ pc' = pc /\ batch' = batch /\ current' = current /\ ok' = ok
      /\ spool' = spool /\ delivered' = delivered /\ posts' = posts
      /\ unclear' = unclear /\ restarts' = restarts
  BY DEF flusher
<1>3. k \notin batch /\ k # current /\ posts[k] = 0
  <2>1. k \notin batch  BY DEF HandInv
  <2>2. k # current
    BY KeyFacts DEF HandInv, TypeOK
  <2> QED BY <2>1, <2>2 DEF LifeInv
<1>4. TypeOK'
  BY <1>1, <1>2, KeyFacts DEF TypeOK
<1>5. HandInv'
  BY <1>1, <1>2, <1>3 DEF HandInv
<1>6. LifeInv'
  BY <1>1, <1>2 DEF LifeInv
<1>7. AttemptsInv'
  BY <1>1, <1>2, <1>3, KeyFacts DEF AttemptsInv, TypeOK
<1>8. AckedIsPosted' /\ PostedOnce'
  BY <1>1, <1>2 DEF AckedIsPosted, PostedOnce, TypeOK
<1>9. OnceInv'
  BY <1>1, <1>2, <1>3 DEF OnceInv
<1>10. FileInv'
  BY <1>1, <1>2 DEF FileInv, FileKept
<1> QED BY <1>4, <1>5, <1>6, <1>7, <1>8, <1>9, <1>10 DEF IInv

\* enqueue_outbox for an answer or a row of another build.
LEMMA EnqueueStep == ASSUME IInv, NEW k \in Keys, Enqueue(k) PROVE IInv'
<1> TypeOK /\ HandInv /\ LifeInv  BY DEF IInv
<1>1. Insert(k) /\ k \notin Media /\ k \notin past
  BY KeyFacts DEF Enqueue
<1>2. k \notin Ever
  BY <1>1, InsertFacts DEF Ever
<1>3. saving' = saving \ {k} /\ UNCHANGED <<spool, delivered, flusher, posts, unclear, restarts>>
  BY <1>1 DEF Enqueue, TypeOK
<1> QED BY <1>1, <1>2, <1>3, InsertStep

\* enqueue_outbox for media whose file is in place.
LEMMA SaveRowStep == ASSUME IInv, NEW k \in Keys, SaveRow(k) PROVE IInv'
<1>1. k \in saving /\ k \notin Ever
  BY DEF IInv, LifeInv, SaveRow
<1> QED BY <1>1, InsertStep DEF SaveRow

\* The file of new media goes in place.
LEMMA SpoolStep == ASSUME IInv, NEW k \in Keys, SpoolFile(k) PROVE IInv'
<1> TypeOK /\ HandInv /\ LifeInv /\ AttemptsInv /\ AckedIsPosted /\ PostedOnce /\ OnceInv /\ FileInv
  BY DEF IInv
<1>1. /\ k \in Media /\ k \notin delivered
      /\ delivered' = delivered \cup {k} /\ spool' = spool \cup {k} /\ saving' = saving \cup {k}
      /\ UNCHANGED table
      /\ pc' = pc /\ batch' = batch /\ current' = current /\ ok' = ok
      /\ posts' = posts /\ unclear' = unclear /\ restarts' = restarts
  BY DEF SpoolFile, flusher
<1>2. k \notin Ever
  BY <1>1 DEF LifeInv
<1>3. TypeOK'
  BY <1>1, TableFacts DEF TypeOK
<1>4. HandInv' /\ AttemptsInv'
  BY <1>1, TableFacts DEF HandInv, AttemptsInv
<1>5. LifeInv'
  BY <1>1, <1>2, TableFacts DEF LifeInv
<1>6. AckedIsPosted' /\ PostedOnce' /\ OnceInv'
  BY <1>1, TableFacts DEF AckedIsPosted, PostedOnce, OnceInv
<1>7. FileInv'
  BY <1>1, TableFacts DEF FileInv, FileKept
<1> QED BY <1>3, <1>4, <1>5, <1>6, <1>7 DEF IInv

\* The row of new media could not be written and its file goes.
LEMMA SaveFailsStep == ASSUME IInv, NEW k \in Keys, SaveFails(k) PROVE IInv'
<1> TypeOK /\ HandInv /\ LifeInv /\ AttemptsInv /\ AckedIsPosted /\ PostedOnce /\ OnceInv /\ FileInv
  BY DEF IInv
<1>1. /\ k \in saving
      /\ delivered' = delivered \ {k} /\ spool' \in {spool, spool \ {k}} /\ saving' = saving \ {k}
      /\ UNCHANGED table
      /\ pc' = pc /\ batch' = batch /\ current' = current /\ ok' = ok
      /\ posts' = posts /\ unclear' = unclear /\ restarts' = restarts
  BY DEF SaveFails, Unlink, flusher
<1>2. k \notin Ever /\ k \notin Pending
  BY <1>1 DEF LifeInv, Ever, Pending
<1>3. TypeOK'
  BY <1>1, TableFacts DEF TypeOK
<1>4. HandInv' /\ AttemptsInv'
  BY <1>1, TableFacts DEF HandInv, AttemptsInv
<1>5. LifeInv'
  BY <1>1, <1>2, TableFacts DEF LifeInv
<1>6. AckedIsPosted' /\ PostedOnce' /\ OnceInv'
  BY <1>1, TableFacts DEF AckedIsPosted, PostedOnce, OnceInv
<1>7. FileInv'
  BY <1>1, <1>2, TableFacts DEF FileInv, FileKept
<1> QED BY <1>3, <1>4, <1>5, <1>6, <1>7 DEF IInv

\* The rows of a batch are pending ones, of which nothing was posted that is known.
LEMMA FetchStep == ASSUME IInv, Fetch PROVE IInv'
<1> TypeOK /\ HandInv /\ LifeInv /\ AttemptsInv /\ AckedIsPosted /\ PostedOnce /\ OnceInv /\ FileInv
  BY DEF IInv
<1>1. /\ pc = "idle" /\ pc' = "post" /\ batch' \subseteq Pending
      /\ UNCHANGED table
      /\ current' = current /\ ok' = ok /\ spool' = spool /\ delivered' = delivered
      /\ saving' = saving /\ posts' = posts /\ unclear' = unclear /\ restarts' = restarts
  BY DEF Fetch, Fetched
<1>2. Pending \subseteq Keys /\ Pending \subseteq Ever /\ current \notin Pending
  BY <1>1, KeyFacts DEF HandInv, Ever
<1>3. TypeOK'
  BY <1>1, <1>2, TableFacts DEF TypeOK
<1>4. HandInv'
  BY <1>1, <1>2, TableFacts DEF HandInv
<1>5. LifeInv'
  BY <1>1, TableFacts DEF LifeInv
<1>6. AttemptsInv'
  BY <1>1, TableFacts DEF AttemptsInv, Pending
<1>7. AckedIsPosted' /\ PostedOnce'
  BY <1>1, TableFacts DEF AckedIsPosted, PostedOnce
<1>8. OnceInv'
  BY <1>1, TableFacts DEF OnceInv
<1>9. FileInv'
  BY <1>1, TableFacts DEF FileInv, FileKept
<1> QED BY <1>3, <1>4, <1>5, <1>6, <1>7, <1>8, <1>9 DEF IInv

\* A row of the batch is taken in hand: whatever the attempt does, it counts a
\* post only of a row that can be delivered, and says so or is unclear.
LEMMA TakeStep ==
    ASSUME IInv, NEW k \in batch, pc = "post", Take(k),
           ok' \in BOOLEAN,
           ok' => Deliverable(k) /\ ((Counted(k) /\ unclear' = unclear) \/ EditedAndSent(k)),
           ~ok' => UNCHANGED <<posts, unclear>>
                   \/ (Deliverable(k) /\ Counted(k) /\ unclear' = unclear \cup {k}),
           UNCHANGED <<table, spool, delivered, saving, restarts>>
    PROVE  IInv'
<1> TypeOK /\ HandInv /\ LifeInv /\ AttemptsInv /\ AckedIsPosted /\ PostedOnce /\ OnceInv /\ FileInv
  BY DEF IInv
<1>1. /\ current' = k /\ batch' = batch \ {k} /\ pc' = "mark"
      /\ UNCHANGED table
      /\ spool' = spool /\ delivered' = delivered /\ saving' = saving /\ restarts' = restarts
  BY DEF Take
<1>2. k \in Keys /\ k \in Ever
  BY KeyFacts DEF HandInv
<1>3. ~ok
  BY DEF HandInv
<1>4. Deliverable(k) => k \notin Unknown
  BY KeyFacts DEF Deliverable
<1>5. \A x \in Keys \ {k} : posts'[x] = posts[x]
  BY DEF Counted, EditedAndSent, TypeOK
<1>6. posts' \in [Keys -> 0..2] /\ posts'[k] >= posts[k]
  <2>1. CASE posts' = posts  BY <1>2, <2>1 DEF TypeOK
  <2>2. CASE Counted(k)      BY <1>2, <2>2 DEF Counted, TypeOK
  <2>3. CASE EditedAndSent(k)  BY <1>2, <2>3 DEF EditedAndSent, TypeOK
  <2> QED BY <2>1, <2>2, <2>3
<1>7. ok' => posts'[k] > 0
  BY <1>2, <1>4 DEF Counted, EditedAndSent, TypeOK
<1>8. unclear' \subseteq unclear \cup {k} /\ unclear \subseteq unclear'
  BY DEF EditedAndSent
<1>9. k \notin unclear' =>
        /\ posts[k] = 0 /\ posts'[k] <= 1
        /\ posts'[k] = 0 \/ ok'
  <2>1. k \notin unclear' => posts[k] = 0
    BY <1>2, <1>8 DEF OnceInv
  <2>2. Counted(k) /\ posts[k] = 0 => posts'[k] <= 1
    BY <1>2 DEF Counted, TypeOK
  <2>3. EditedAndSent(k) => k \in unclear'
    BY DEF EditedAndSent
  <2> QED BY <2>1, <2>2, <2>3
<1>10. TypeOK'
  <2>1. current' \in Keys \cup {NoKey} /\ batch' \subseteq Keys /\ unclear' \subseteq Keys
    BY <1>1, <1>2, <1>8 DEF TypeOK
  <2> QED BY <1>1, <1>6, <2>1, TableFacts DEF TypeOK
<1>11. HandInv'
  BY <1>1, <1>2, <1>7, TableFacts DEF HandInv
<1>12. LifeInv'
  BY <1>1, <1>2, <1>5, TableFacts DEF LifeInv
<1>13. AttemptsInv'
  BY <1>1, TableFacts DEF AttemptsInv
<1>14. AckedIsPosted'
  <2> SUFFICES ASSUME NEW x \in Keys, sent'[x] PROVE posts'[x] > 0
    BY DEF AckedIsPosted
  <2>1. posts[x] > 0  BY TableFacts DEF AckedIsPosted
  <2> QED BY <1>2, <1>5, <1>6, <2>1 DEF TypeOK
<1>15. PostedOnce'
  BY <1>5, <1>8, <1>9 DEF PostedOnce
<1>16. OnceInv'
  <2> SUFFICES ASSUME NEW x \in Keys, x \notin unclear'
               PROVE  /\ x \in batch' => posts'[x] = 0
                      /\ x \in Pending' => posts'[x] = 0 \/ (pc' = "mark" /\ ok' /\ current' = x)
    BY DEF OnceInv
  <2>1. CASE x = k  BY <1>1, <1>9, <2>1
  <2>2. CASE x # k  BY <1>1, <1>5, <1>8, <2>2, TableFacts DEF OnceInv
  <2> QED BY <2>1, <2>2
<1>17. FileInv'
  BY <1>1, TableFacts DEF FileInv, FileKept
<1> QED BY <1>10, <1>11, <1>12, <1>13, <1>14, <1>15, <1>16, <1>17 DEF IInv

\* Discord takes the row, or does not, or may have.
LEMMA DeliverStep == ASSUME IInv, Deliver PROVE IInv'
<1>1. ASSUME NEW k \in Keys, Post(k) PROVE IInv'
  <2>1. k \in batch /\ pc = "post" /\ Take(k) /\ ok' /\ Deliverable(k)
    BY <1>1 DEF Post
  <2>2. /\ (Counted(k) /\ unclear' = unclear) \/ EditedAndSent(k)
        /\ UNCHANGED <<table, spool, delivered, saving, restarts>>
    BY <1>1 DEF Post
  <2>3. ok' \in BOOLEAN
    BY <1>1 DEF Post
  <2> QED BY <2>1, <2>2, <2>3, TakeStep
<1>2. ASSUME NEW k \in Keys, PostFails(k) PROVE IInv'
  <2>1. k \in batch /\ pc = "post" /\ Take(k) /\ ok' = FALSE
    BY <1>2 DEF PostFails
  <2>2. \/ UNCHANGED <<posts, unclear>>
        \/ Deliverable(k) /\ Counted(k) /\ unclear' = unclear \cup {k}
    BY <1>2 DEF PostFails
  <2>3. UNCHANGED <<table, spool, delivered, saving, restarts>>
    BY <1>2 DEF PostFails
  <2> QED BY <2>1, <2>2, <2>3, TakeStep
<1> QED BY <1>1, <1>2 DEF Deliver

\* The table may have been written for the row in hand, rows may have gone, and the
\* row is let go or, being media that were delivered, kept until its file is gone.
LEMMA MarkedStep ==
    ASSUME IInv, pc = "mark",
           InTable' \subseteq InTable, Ever' = Ever, Pending' \subseteq Pending,
           \A k \in Keys : sent'[k] => sent[k] \/ (ok /\ k = current),
           \A k \in InTable' : k # current => attempts'[k] = attempts[k],
           rowId' \in [Keys -> 0..MaxIds], past' \subseteq Keys, lastId' = lastId,
           attempts' \in [Keys -> 0..MaxAttempts],
           sent' \in [Keys -> BOOLEAN], expired' \in [Keys -> BOOLEAN],
           ok => current \in unclear' \/ current \notin Pending',
           unclear' = unclear \/ unclear' = unclear \cup {current},
           Release \/ (/\ current \in Media /\ current \notin Pending'
                       /\ pc' = "unspool" /\ current' = current /\ ok' = ok),
           UNCHANGED <<spool, delivered, saving, batch, posts, restarts>>
    PROVE  IInv'
<1> TypeOK /\ HandInv /\ LifeInv /\ AttemptsInv /\ AckedIsPosted /\ PostedOnce /\ OnceInv /\ FileInv
  BY DEF IInv
<1>1. /\ spool' = spool /\ delivered' = delivered /\ saving' = saving /\ batch' = batch
      /\ posts' = posts /\ restarts' = restarts
  OBVIOUS
<1>2. current \in Ever /\ current \in Keys /\ current \notin batch
  BY KeyFacts DEF HandInv
<1>3. \/ pc' \in {"idle", "post"} /\ current' = NoKey /\ ok' = FALSE
      \/ pc' = "unspool" /\ current' = current /\ ok' = ok
  BY DEF Release
<1>4. unclear \subseteq unclear' /\ unclear' \subseteq Keys
  BY <1>2 DEF TypeOK
<1>5. TypeOK'
  <2>1. pc' \in {"idle", "post", "mark", "unspool"} /\ current' \in Keys \cup {NoKey} /\ ok' \in BOOLEAN
    BY <1>2, <1>3 DEF TypeOK
  <2> QED BY <1>1, <1>4, <2>1 DEF TypeOK
<1>6. HandInv'
  <2>1. NoKey \notin batch  BY KeyFacts DEF TypeOK
  <2>2. CASE Release
    BY <1>1, <2>1, <2>2 DEF HandInv, Release
  <2>3. CASE ~Release
    BY <1>1, <1>2, <2>3 DEF HandInv
  <2> QED BY <2>2, <2>3
<1>7. LifeInv'
  BY <1>1 DEF LifeInv
<1>8. AttemptsInv'
  BY <1>1, <1>2, <1>3 DEF AttemptsInv
<1>9. AckedIsPosted'
  BY <1>1 DEF AckedIsPosted, HandInv
<1>10. PostedOnce'
  BY <1>1, <1>4 DEF PostedOnce
<1>11. OnceInv'
  BY <1>1, <1>4 DEF OnceInv
<1>12. FileInv'
  BY <1>1 DEF FileInv, FileKept
<1> QED BY <1>5, <1>6, <1>7, <1>8, <1>9, <1>10, <1>11, <1>12 DEF IInv

\* mark_outbox_sent, mark_outbox_attempt.
LEMMA MarkStep == ASSUME IInv, Mark PROVE IInv'
<1> TypeOK /\ HandInv /\ AttemptsInv  BY DEF IInv
<1> DEFINE gone == Pruned(SentNow, AttemptsNow)
<1>1. gone \in SUBSET InTable
  BY DEF Pruned
<1>2. pc = "mark" /\ Write(SentNow, AttemptsNow, gone)
  BY DEF Mark
<1> HIDE DEF gone
<1>3. /\ InTable' \subseteq InTable /\ Ever' = Ever
      /\ \A k \in Keys : sent'[k] => sent[k] \/ (ok /\ k = current)
      /\ \A k \in Pending' : k \in Pending /\ ~(ok /\ k = current)
      /\ \A k \in InTable' : k # current => attempts'[k] = attempts[k]
      /\ rowId' \in [Keys -> 0..MaxIds] /\ past' \subseteq Keys /\ lastId' = lastId
      /\ attempts' \in [Keys -> 0..MaxAttempts]
      /\ sent' \in [Keys -> BOOLEAN] /\ expired' \in [Keys -> BOOLEAN]
  BY <1>1, <1>2, WriteFacts
<1>4. Release \/ (/\ current \in Media /\ current \notin Pending'
                  /\ pc' = "unspool" /\ current' = current /\ ok' = ok)
  BY <1>3 DEF Mark
<1>5. unclear' = unclear /\ UNCHANGED <<spool, delivered, saving, batch, posts, restarts>>
  BY DEF Mark
<1> QED BY <1>2, <1>3, <1>4, <1>5, MarkedStep

\* The mark fails, before it is written or in the pruning after it.
LEMMA MarkFailsStep == ASSUME IInv, MarkFails PROVE IInv'
<1> TypeOK /\ HandInv /\ AttemptsInv  BY DEF IInv
<1>1. pc = "mark" /\ Release /\ UNCHANGED <<spool, delivered, saving, batch, posts, restarts>>
  BY DEF MarkFails, FilesLeft
<1>2. unclear' = unclear \/ unclear' = unclear \cup {current}
  BY DEF MarkFails
<1>3. ok => current \in unclear'
  BY DEF MarkFails
<1>4. CASE UNCHANGED table
  <2>1. /\ InTable' \subseteq InTable /\ Ever' = Ever /\ Pending' \subseteq Pending
        /\ \A k \in Keys : sent'[k] => sent[k]
        /\ \A k \in InTable' : attempts'[k] = attempts[k]
        /\ rowId' \in [Keys -> 0..MaxIds] /\ past' \subseteq Keys /\ lastId' = lastId
        /\ attempts' \in [Keys -> 0..MaxAttempts]
        /\ sent' \in [Keys -> BOOLEAN] /\ expired' \in [Keys -> BOOLEAN]
    BY <1>4, TableFacts DEF TypeOK
  <2> QED BY <1>1, <1>2, <1>3, <2>1, MarkedStep
<1>5. CASE Write(SentNow, AttemptsNow, {})
  <2>1. {} \in SUBSET InTable
    OBVIOUS
  <2>2. /\ InTable' \subseteq InTable /\ Ever' = Ever /\ Pending' \subseteq Pending
        /\ \A k \in Keys : sent'[k] => sent[k] \/ (ok /\ k = current)
        /\ \A k \in InTable' : k # current => attempts'[k] = attempts[k]
        /\ rowId' \in [Keys -> 0..MaxIds] /\ past' \subseteq Keys /\ lastId' = lastId
        /\ attempts' \in [Keys -> 0..MaxAttempts]
        /\ sent' \in [Keys -> BOOLEAN] /\ expired' \in [Keys -> BOOLEAN]
    BY <1>1, <1>5, <2>1, WriteFacts
  <2> QED BY <1>1, <1>2, <1>3, <2>2, MarkedStep
<1> QED BY <1>4, <1>5 DEF MarkFails

\* The file of delivered media goes: no pending row needs it, nor one to come.
LEMMA RemoveFileStep == ASSUME IInv, RemoveFile PROVE IInv'
<1> TypeOK /\ HandInv /\ LifeInv /\ AttemptsInv /\ AckedIsPosted /\ PostedOnce /\ OnceInv /\ FileInv
  BY DEF IInv
<1>1. /\ pc = "unspool" /\ spool' \in {spool, spool \ {current}}
      /\ pc' \in {"idle", "post"} /\ current' = NoKey /\ ok' = FALSE
      /\ UNCHANGED table
      /\ delivered' = delivered /\ saving' = saving /\ batch' = batch
      /\ posts' = posts /\ unclear' = unclear /\ restarts' = restarts
  BY DEF RemoveFile, Unlink, Release
<1>2. current \in Ever /\ current \notin Pending /\ current \notin saving
  BY <1>1 DEF HandInv, LifeInv
<1>3. TypeOK'
  BY <1>1, TableFacts DEF TypeOK
<1>4. HandInv' /\ AttemptsInv'
  BY <1>1, KeyFacts, TableFacts DEF HandInv, AttemptsInv
<1>5. LifeInv'
  BY <1>1, TableFacts DEF LifeInv
<1>6. AckedIsPosted' /\ PostedOnce' /\ OnceInv'
  BY <1>1, TableFacts DEF AckedIsPosted, PostedOnce, OnceInv
<1>7. FileInv'
  BY <1>1, <1>2, TableFacts DEF FileInv, FileKept
<1> QED BY <1>3, <1>4, <1>5, <1>6, <1>7 DEF IInv

\* A row gets past its retention.
LEMMA ExpireStep == ASSUME IInv, NEW k \in Keys, Expire(k) PROVE IInv'
<1> TypeOK /\ HandInv /\ LifeInv /\ AttemptsInv /\ AckedIsPosted /\ PostedOnce /\ OnceInv /\ FileInv
  BY DEF IInv
<1>1. /\ expired' \in [Keys -> BOOLEAN]
      /\ rowId' = rowId /\ attempts' = attempts /\ sent' = sent /\ lastId' = lastId /\ past' = past
      /\ spool' = spool /\ delivered' = delivered /\ saving' = saving
      /\ pc' = pc /\ batch' = batch /\ current' = current /\ ok' = ok
      /\ posts' = posts /\ unclear' = unclear /\ restarts' = restarts
  BY DEF Expire, flusher, TypeOK
<1>2. InTable' = InTable /\ Pending' = Pending /\ Ever' = Ever
  BY <1>1 DEF InTable, Pending, Ever
<1>3. TypeOK'
  BY <1>1 DEF TypeOK
<1>4. HandInv' /\ LifeInv' /\ AttemptsInv'
  BY <1>1, <1>2 DEF HandInv, LifeInv, AttemptsInv
<1>5. AckedIsPosted' /\ PostedOnce' /\ OnceInv' /\ FileInv'
  BY <1>1, <1>2 DEF AckedIsPosted, PostedOnce, OnceInv, FileInv, FileKept
<1> QED BY <1>3, <1>4, <1>5 DEF IInv

\* The relay starts again: what it had in hand is unclear if it was posted.
LEMMA RestartStep == ASSUME IInv, Restart PROVE IInv'
<1> TypeOK /\ HandInv /\ LifeInv /\ AttemptsInv /\ AckedIsPosted /\ PostedOnce /\ OnceInv /\ FileInv
  BY DEF IInv
<1>1. /\ saving' = {} /\ pc' = "idle" /\ batch' = {} /\ current' = NoKey /\ ok' = FALSE
      /\ unclear' = (IF pc = "mark" /\ ok THEN unclear \cup {current} ELSE unclear)
      /\ UNCHANGED table
      /\ spool' = spool /\ delivered' = delivered /\ posts' = posts
  BY DEF Restart
<1>2. restarts' \in 0..MaxRestarts
  BY BoundsAssumption DEF Restart, TypeOK
<1>3. unclear \subseteq unclear' /\ unclear' \subseteq Keys
  BY <1>1, KeyFacts DEF HandInv, TypeOK
<1>4. TypeOK'
  BY <1>1, <1>2, <1>3, TableFacts DEF TypeOK
<1>5. HandInv' /\ AttemptsInv'
  BY <1>1, TableFacts DEF HandInv, AttemptsInv
<1>6. LifeInv'
  BY <1>1, TableFacts DEF LifeInv
<1>7. AckedIsPosted' /\ PostedOnce'
  BY <1>1, <1>3, TableFacts DEF AckedIsPosted, PostedOnce
<1>8. OnceInv'
  BY <1>1, <1>3, TableFacts DEF OnceInv
<1>9. FileInv'
  BY <1>1, TableFacts DEF FileInv, FileKept
<1> QED BY <1>4, <1>5, <1>6, <1>7, <1>8, <1>9 DEF IInv

\* No step changes anything.
LEMMA StutterStep == ASSUME IInv, UNCHANGED vars PROVE IInv'
<1>1. /\ UNCHANGED table /\ spool' = spool /\ delivered' = delivered /\ saving' = saving
      /\ pc' = pc /\ batch' = batch /\ current' = current /\ ok' = ok
      /\ posts' = posts /\ unclear' = unclear /\ restarts' = restarts
  BY DEF vars, flusher
<1>2. TypeOK'
  BY <1>1, TableFacts DEF IInv, TypeOK
<1>3. HandInv' /\ LifeInv' /\ AttemptsInv'
  BY <1>1, TableFacts DEF IInv, HandInv, LifeInv, AttemptsInv
<1>4. AckedIsPosted' /\ PostedOnce' /\ OnceInv' /\ FileInv'
  BY <1>1, TableFacts DEF IInv, AckedIsPosted, PostedOnce, OnceInv, FileInv, FileKept
<1> QED BY <1>2, <1>3, <1>4 DEF IInv

-----------------------------------------------------------------------------

\* The invariant of the outbox is inductive.
THEOREM OutboxInductive == Spec => []IInv
<1>1. IInv /\ [Next]_vars => IInv'
  <2> SUFFICES ASSUME IInv, [Next]_vars PROVE IInv'
    OBVIOUS
  <2>1. ASSUME NEW k \in Keys, Enqueue(k) PROVE IInv'    BY <2>1, EnqueueStep
  <2>2. ASSUME NEW k \in Keys, SpoolFile(k) PROVE IInv'  BY <2>2, SpoolStep
  <2>3. ASSUME NEW k \in Keys, SaveRow(k) PROVE IInv'    BY <2>3, SaveRowStep
  <2>4. ASSUME NEW k \in Keys, SaveFails(k) PROVE IInv'  BY <2>4, SaveFailsStep
  <2>5. ASSUME NEW k \in Keys, Expire(k) PROVE IInv'     BY <2>5, ExpireStep
  <2>6. CASE Fetch          BY <2>6, FetchStep
  <2>7. CASE Deliver        BY <2>7, DeliverStep
  <2>8. CASE Mark           BY <2>8, MarkStep
  <2>9. CASE MarkFails      BY <2>9, MarkFailsStep
  <2>10. CASE RemoveFile    BY <2>10, RemoveFileStep
  <2>11. CASE Restart       BY <2>11, RestartStep
  <2>12. CASE UNCHANGED vars  BY <2>12, StutterStep
  <2> QED
    BY <2>1, <2>2, <2>3, <2>4, <2>5, <2>6, <2>7, <2>8, <2>9, <2>10, <2>11, <2>12 DEF Next
<1> QED BY <1>1, InitInv, PTL DEF Spec

\* The table, the spool and the flusher keep their types: in particular no row is
\* tried more than MaxAttempts times (spawn_outbox_flusher, mark_outbox_attempt).
THEOREM OutboxTypeCorrect == Spec => []TypeOK
<1>1. IInv => TypeOK  BY DEF IInv
<1> QED BY <1>1, OutboxInductive, PTL

\* Whatever the batches, failures and restarts, a row that counts as sent was
\* posted to Discord (mark_outbox_sent is reached only through a post).
THEOREM AckedPosted == Spec => []AckedIsPosted
<1>1. IInv => AckedIsPosted  BY DEF IInv
<1> QED BY <1>1, OutboxInductive, PTL

\* Content whose post was never unclear is posted at most once, however often it
\* is enqueued, batched and pruned (enqueue_outbox, pending_outbox).
THEOREM OncePosted == Spec => []PostedOnce
<1>1. IInv => PostedOnce  BY DEF IInv
<1> QED BY <1>1, OutboxInductive, PTL

\* Media with a row that is still to be delivered have their file in the spool
\* (enqueue_media_attachment, and the removals in spawn_outbox_flusher).
THEOREM FilesKept == Spec => []FileKept
<1>1. IInv => FileKept  BY DEF IInv, FileInv
<1> QED BY <1>1, OutboxInductive, PTL
=============================================================================
