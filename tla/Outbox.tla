------------------------------- MODULE Outbox -------------------------------
(***************************************************************************)
(* The durable delivery outbox: the table of src/src/state.rs, the spool   *)
(* of media files beside it, and the task that delivers its rows to        *)
(* Discord (src/src/discord/bot.rs, enqueue_media_attachment and           *)
(* spawn_outbox_flusher).                                                  *)
(*                                                                         *)
(* The dedupe key of a row is unique, so that rows are named by their      *)
(* keys.  Final answers come from flush_streams (see AnswerStreams), media *)
(* from the notification consumer; rows of a kind that this build does not *)
(* know were left by a newer one.  Delivery posts first and marks then.    *)
(***************************************************************************)
EXTENDS Naturals, FiniteSets

CONSTANTS
    Answers, Media, Unknown, \* dedupe keys, by the kind of their rows
    NoKey,
    MaxAttempts, \* 10 in the code
    BatchSize,   \* 25
    MaxRows,     \* 10,000
    MaxIds,      \* bound: rows ever inserted
    MaxRestarts  \* bound: restarts of the relay

Keys == Answers \cup Media \cup Unknown

ASSUME KeysAssumption ==
    /\ Answers \cap Media = {} /\ Answers \cap Unknown = {} /\ Media \cap Unknown = {}
    /\ NoKey \notin Keys
ASSUME BoundsAssumption ==
    /\ MaxAttempts \in Nat \ {0} /\ BatchSize \in Nat \ {0} /\ MaxRows \in Nat \ {0}
    /\ MaxIds \in Nat /\ MaxRestarts \in Nat

VARIABLES
    rowId,      \* the row of each key, 0 if there is none
    attempts, sent, \* its columns
    expired,    \* whether it is past the retention of what it is
    lastId,     \* AUTOINCREMENT
    past,       \* keys whose row was deleted
    spool,      \* media files in outbox-media
    delivered,  \* delivered_media, and the items of earlier runs of the relay
    saving,     \* the media whose file is in place and whose row is not
    pc, batch, current, ok, \* the flusher: where, its rows, the one in hand, its result
    posts,      \* observed: how often Discord got the content of a key
    unclear,    \* observed: keys with a post of unknown effect, or without its mark
    restarts    \* counted for the bound

table   == <<rowId, attempts, sent, expired, lastId, past>>
flusher == <<pc, batch, current, ok>>
vars    == <<table, spool, delivered, saving, flusher, posts, unclear, restarts>>

TypeOK ==
    /\ rowId \in [Keys -> 0..MaxIds] /\ lastId \in 0..MaxIds
    /\ attempts \in [Keys -> 0..MaxAttempts]
    /\ sent \in [Keys -> BOOLEAN] /\ expired \in [Keys -> BOOLEAN]
    /\ past \subseteq Keys
    /\ spool \subseteq Media /\ delivered \subseteq Media /\ saving \subseteq Media
    /\ pc \in {"idle", "post", "mark", "unspool"}
    /\ batch \subseteq Keys /\ current \in Keys \cup {NoKey} /\ ok \in BOOLEAN
    /\ posts \in [Keys -> 0..2] /\ unclear \subseteq Keys
    /\ restarts \in 0..MaxRestarts

Init ==
    /\ rowId = [k \in Keys |-> 0] /\ lastId = 0
    /\ attempts = [k \in Keys |-> 0]
    /\ sent = [k \in Keys |-> FALSE] /\ expired = [k \in Keys |-> FALSE]
    /\ past = {}
    /\ spool = {} /\ delivered = {} /\ saving = {}
    /\ pc = "idle" /\ batch = {} /\ current = NoKey /\ ok = FALSE
    /\ posts = [k \in Keys |-> 0] /\ unclear = {}
    /\ restarts = 0

InTable == {k \in Keys : rowId[k] # 0}

-----------------------------------------------------------------------------
(* Producers                                                                *)

\* enqueue_outbox: a key that is in the table is left alone (ON CONFLICT DO
\* NOTHING), which is no step. Mutant: its row is replaced by a new one.
InsertableAlways(k) == lastId < MaxIds
Insertable(k) == lastId < MaxIds /\ k \notin InTable

Insert(k) ==
    /\ Insertable(k)
    /\ lastId' = lastId + 1
    /\ rowId' = [rowId EXCEPT ![k] = lastId + 1]
    /\ attempts' = [attempts EXCEPT ![k] = 0]
    /\ sent' = [sent EXCEPT ![k] = FALSE]
    /\ expired' = [expired EXCEPT ![k] = FALSE]
    /\ UNCHANGED past

\* A final answer, or a row that another build of the relay left. A key does not
\* come again once its row was pruned, a day or 10,000 rows later: it names a turn.
Enqueue(k) ==
    /\ k \in (Answers \cup Unknown) \ past
    /\ Insert(k)
    /\ UNCHANGED <<spool, delivered, saving, flusher, posts, unclear, restarts>>

\* deliver_completed_media: each item once, its file being put in place first.
\* Codex does not complete an item again in a later run of the relay.
SpoolFile(k) ==
    /\ k \in Media \ delivered
    /\ delivered' = delivered \cup {k}
    /\ spool' = spool \cup {k}
    /\ saving' = saving \cup {k}
    /\ UNCHANGED <<table, flusher, posts, unclear, restarts>>

SaveRow(k) ==
    /\ k \in saving
    /\ Insert(k)
    /\ saving' = saving \ {k}
    /\ UNCHANGED <<spool, delivered, flusher, posts, unclear, restarts>>

\* The removal of a file, which may fail unnoticed.
Unlink(k) == spool' \in {spool, spool \ {k}}

\* The database fails: the file is removed and the item may come again.
SaveFails(k) ==
    /\ k \in saving
    /\ saving' = saving \ {k}
    /\ Unlink(k)
    /\ delivered' = delivered \ {k}
    /\ UNCHANGED <<table, flusher, posts, unclear, restarts>>

-----------------------------------------------------------------------------
(* The flusher                                                              *)

\* pending_outbox
Pending == {k \in InTable : ~sent[k] /\ attempts[k] < MaxAttempts}

\* The first rows in the order of their ids.
Fetched == {k \in Pending : Cardinality({x \in Pending : rowId[x] < rowId[k]}) < BatchSize}

Fetch ==
    /\ pc = "idle" /\ Pending # {}
    /\ batch' = Fetched
    /\ pc' = "post"
    /\ UNCHANGED <<table, spool, delivered, saving, current, ok, posts, unclear, restarts>>

\* Whether the row can be delivered at all: a kind this build knows and, for
\* media, a file. Mutant: a row of an unknown kind is passed over as done.
DeliverableAll(k) == k \in Media => k \in spool
Deliverable(k) == k \in Answers \/ k \in Media \cap spool

\* Discord has got the content; there is none in a row of an unknown kind.
Counted(k) == posts' = [posts EXCEPT ![k] = IF k \in Unknown \/ @ = 2 THEN @ ELSE @ + 1]

Take(k) == current' = k /\ batch' = batch \ {k} /\ pc' = "mark"

\* The live card of an answer is edited, it is not known whether with effect, and
\* the answer is sent in a message of its own.
EditedAndSent(k) ==
    k \in Answers /\ posts' = [posts EXCEPT ![k] = 2] /\ unclear' = unclear \cup {k}

\* Discord edits or sends the message.
Post(k) ==
    /\ pc = "post" /\ k \in batch /\ Deliverable(k)
    /\ Take(k) /\ ok' = TRUE
    /\ (Counted(k) /\ UNCHANGED unclear) \/ EditedAndSent(k)
    /\ UNCHANGED <<table, spool, delivered, saving, restarts>>

\* It cannot be delivered, or Discord fails, and it is not known whether the
\* message is there.
PostFails(k) ==
    /\ pc = "post" /\ k \in batch
    /\ Take(k) /\ ok' = FALSE
    /\ \/ UNCHANGED <<posts, unclear>>
       \/ Deliverable(k) /\ Counted(k) /\ unclear' = unclear \cup {k}
    /\ UNCHANGED <<table, spool, delivered, saving, restarts>>

\* On to the next row of the batch, or to the next interval.
Release == pc' = (IF batch = {} THEN "idle" ELSE "post") /\ current' = NoKey /\ ok' = FALSE

\* The retention of a row that is sent now starts again.
StillExpired(k, sent2) == expired[k] /\ sent2[k] = sent[k]

\* prune_outbox, given the columns it finds: sent or dead rows past their
\* retention go, and all but the newest MaxRows of the others.
Pruned(sent2, attempts2) ==
    LET old  == {k \in InTable : StillExpired(k, sent2)
                                 /\ (sent2[k] \/ attempts2[k] = MaxAttempts)}
        kept == InTable \ old
    IN  old \cup {k \in kept : Cardinality({x \in kept : rowId[x] > rowId[k]}) >= MaxRows}

\* The columns are written, and the rows in gone deleted.
Write(sent2, attempts2, gone) ==
    /\ rowId' = [k \in Keys |-> IF k \in gone THEN 0 ELSE rowId[k]]
    /\ sent' = [k \in Keys |-> k \notin gone /\ sent2[k]]
    /\ attempts' = [k \in Keys |-> IF k \in gone THEN 0 ELSE attempts2[k]]
    /\ expired' = [k \in Keys |-> k \notin gone /\ StillExpired(k, sent2)]
    /\ past' = past \cup gone
    /\ UNCHANGED lastId

\* What the mark writes: nothing for a row that was pruned since it was fetched.
SentNow == [k \in Keys |-> sent[k] \/ (ok /\ k = current /\ k \in InTable)]

\* Mutant: a failed post is not counted.
AttemptsBefore == attempts
AttemptsNow == [k \in Keys |-> IF ~ok /\ k = current /\ k \in InTable THEN attempts[k] + 1
                                ELSE attempts[k]]

\* mark_outbox_sent or mark_outbox_attempt, each of which prunes.
Mark ==
    /\ pc = "mark"
    /\ Write(SentNow, AttemptsNow, Pruned(SentNow, AttemptsNow))
    /\ IF ok /\ current \in Media
       THEN pc' = "unspool" /\ UNCHANGED <<current, ok>>
       ELSE Release
    /\ UNCHANGED <<spool, delivered, saving, batch, posts, unclear, restarts>>

\* The file of a row whose mark failed. Mutant: it goes all the same.
FilesGone == spool \ {current}
FilesLeft == spool

\* The database fails, before the mark or, with the mark written, in the pruning.
MarkFails ==
    /\ pc = "mark"
    /\ UNCHANGED table \/ Write(SentNow, AttemptsNow, {})
    /\ unclear' = IF ok THEN unclear \cup {current} ELSE unclear
    /\ spool' = FilesLeft
    /\ Release
    /\ UNCHANGED <<delivered, saving, batch, posts, restarts>>

\* The file of media that was delivered and marked goes.
RemoveFile ==
    /\ pc = "unspool"
    /\ Unlink(current)
    /\ Release
    /\ UNCHANGED <<table, delivered, saving, batch, posts, unclear, restarts>>

-----------------------------------------------------------------------------

\* A day since it was sent, or thirty since a dead one was created, go by.
Expire(k) ==
    /\ k \in InTable /\ ~expired[k] /\ (sent[k] \/ attempts[k] = MaxAttempts)
    /\ expired' = [expired EXCEPT ![k] = TRUE]
    /\ UNCHANGED <<rowId, attempts, sent, lastId, past, spool, delivered, saving, flusher,
                   posts, unclear, restarts>>

\* The relay stops, wherever it is, and starts again with table and spool.
Restart ==
    /\ restarts < MaxRestarts
    /\ restarts' = restarts + 1
    /\ saving' = {}
    /\ pc' = "idle" /\ batch' = {} /\ current' = NoKey /\ ok' = FALSE
    /\ unclear' = IF pc = "mark" /\ ok THEN unclear \cup {current} ELSE unclear
    /\ UNCHANGED <<table, spool, delivered, posts>>

Deliver == \E k \in Keys : Post(k) \/ PostFails(k)

Next ==
    \/ \E k \in Keys : Enqueue(k) \/ SpoolFile(k) \/ SaveRow(k) \/ SaveFails(k) \/ Expire(k)
    \/ Fetch \/ Deliver \/ Mark \/ MarkFails \/ RemoveFile \/ Restart

Spec == Init /\ [][Next]_vars

\* The flusher's task goes on; the database fails now and then, but not every
\* time. Nothing is assumed of Discord, nor of who enqueues.
FairSpec ==
    Spec /\ WF_vars(Fetch) /\ WF_vars(Deliver) /\ SF_vars(Mark) /\ WF_vars(RemoveFile)

-----------------------------------------------------------------------------
(* Properties                                                               *)

\* A row that counts as sent was posted, whatever its kind and whatever its file:
\* a row of a newer build must not be acknowledged by an older one.
AckedIsPosted == \A k \in Keys : sent[k] => posts[k] > 0

\* Content is posted once, unless the relay could not tell or could not write
\* down that it was posted: batches, marks, pruning and repeated keys do not make
\* Discord get it again.
PostedOnce == \A k \in Keys : k \notin unclear => posts[k] <= 1

\* Media that are still to be delivered have their file, across failed posts,
\* failed marks, restarts and the file's removal after another attempt.
FileKept == \A k \in Media \cap Pending : k \in spool

\* Every row is delivered, dead after its attempts or pruned in the end: a row
\* that fails every time does not keep later ones waiting (docs/ARCHITECTURE.md:
\* one poisoned destination cannot block later work).
RowSettles == \A k \in Keys : k \in Pending ~> k \notin Pending
=============================================================================
