------------------------------- MODULE Digests -------------------------------
(***************************************************************************)
(* The delivery of the coalesced cards (flush_digests in bot.rs): one       *)
(* digest a task, drawn to one message of its channel, edited when it is    *)
(* there.  The flusher loop delivers every kind of digest every two         *)
(* seconds; for activity, plans, goals and realtime the consumer of the     *)
(* notifications delivers too, from inside its handlers, and nothing keeps  *)
(* the two apart.  A flush takes what is dirty under the lock, talks to     *)
(* Discord without it, and writes down the message under it again.          *)
(*                                                                          *)
(* A digest is reduced to what its reader can tell: the turn it is of and   *)
(* how many changes it has seen.                                            *)
(***************************************************************************)
EXTENDS Naturals, FiniteSets, Sequences

CONSTANTS
    Tasks,
    Loop,         \* the flusher loop
    Handlers,     \* {the consumer} where its handlers flush too, {} where not
    None,         \* no message
    MaxChanges,   \* bound: changes of the digests
    MaxTurns,     \* bound: turns of a task
    MaxFaults     \* bound: failures of Discord and of the database

Flushers == {Loop} \cup Handlers

VARIABLES
    digest,       \* activity, plans, ...: [turn, version, dirty, message_id]
    work,         \* each flush: [pc, todo, now]
    posts,        \* Discord: the messages of a task, what each one shows
    channel,      \* the tasks whose row has a channel
    changes,      \* changes so far
    faults,       \* failures so far
    disturbed,    \* observed: the last flush of the digest was not left alone
    lost,         \* observed: a change was dropped with the rest of a failed flush
    inherits      \* observed: a turn started while the earlier card was delivered

vars == <<digest, work, posts, channel, changes, faults, disturbed, lost, inherits>>

Fresh(n) == [turn |-> n, version |-> 0, dirty |-> FALSE, message_id |-> None]
Idle     == [pc |-> "idle", todo |-> {}, now |-> None]

Exists(t)  == digest[t].version > 0
Content(t) == <<digest[t].turn, digest[t].version>>
(* The jobs of a flush that are not written down yet.                       *)
Jobs(f)    == work[f].todo \cup (IF work[f].now = None THEN {} ELSE {work[f].now})
Taken(t)   == {f \in Flushers : \E job \in Jobs(f) : job.task = t}

Init ==
    /\ digest = [t \in Tasks |-> Fresh(0)]
    /\ work = [f \in Flushers |-> Idle]
    /\ posts = [t \in Tasks |-> <<>>]
    /\ channel \in SUBSET Tasks
    /\ changes = 0 /\ faults = 0 /\ disturbed = {} /\ lost = {}
    /\ inherits = {}

-----------------------------------------------------------------------------
(* The consumer is one task: it handles nothing else while a handler of it  *)
(* flushes.                                                                 *)
ConsumerFree == \A f \in Handlers : work[f].pc = "idle"

(* A handler changes the digest, which is there from then on.               *)
Change(t) ==
    /\ ConsumerFree /\ changes < MaxChanges
    /\ changes' = changes + 1
    /\ digest' = [digest EXCEPT ![t].version = @ + 1, ![t].dirty = TRUE]
    /\ UNCHANGED <<work, posts, channel, faults, disturbed, lost, inherits>>

(* Mutant of TurnStarted: the digest is emptied and keeps its message.      *)
TurnStartedInPlace(t) ==
    /\ Handlers # {} /\ ConsumerFree /\ digest[t].turn < MaxTurns
    /\ digest' = [digest EXCEPT ![t].turn = @ + 1, ![t].dirty = FALSE]
    /\ disturbed' = IF Taken(t) # {} THEN disturbed \cup {t} ELSE disturbed \ {t}
    /\ inherits' = IF Taken(t) # {} THEN inherits \cup {t} ELSE inherits
    /\ lost' = lost \ {t}
    /\ UNCHANGED <<work, posts, channel, changes, faults>>

(* turn/started: the activity and the plan of the earlier turn go, and the  *)
(* next change begins a card of its own.                                    *)
TurnStarted(t) ==
    /\ Handlers # {} /\ ConsumerFree /\ digest[t].turn < MaxTurns
    /\ digest' = [digest EXCEPT ![t] = Fresh(digest[t].turn + 1)]
    /\ disturbed' = IF Taken(t) # {} THEN disturbed \cup {t} ELSE disturbed \ {t}
    /\ inherits' = IF Taken(t) # {} THEN inherits \cup {t} ELSE inherits
    /\ lost' = lost \ {t}
    /\ UNCHANGED <<work, posts, channel, changes, faults>>

(* The task gets a channel.                                                 *)
Provision(t) ==
    /\ t \notin channel
    /\ channel' = channel \cup {t}
    /\ UNCHANGED <<digest, work, posts, changes, faults, disturbed, lost, inherits>>

-----------------------------------------------------------------------------
(* take_dirty, on all digests at once: the render and the message it knew.  *)
Dirty == {t \in Tasks : Exists(t) /\ digest[t].dirty}
Job(t) == [task |-> t, render |-> Content(t), existing |-> digest[t].message_id]
Take(f) ==
    /\ work[f].pc = "idle" /\ Dirty # {}
    /\ work' = [work EXCEPT ![f] = [pc |-> "next", now |-> None,
                                    todo |-> {Job(t) : t \in Dirty}]]
    /\ digest' = [t \in Tasks |-> [digest[t] EXCEPT !.dirty = FALSE]]
    /\ disturbed' = (disturbed \ Dirty) \cup {t \in Dirty : Taken(t) # {}}
    /\ lost' = lost \ Dirty
    /\ UNCHANGED <<posts, channel, changes, faults, inherits>>

(* Without a row or a channel the digest stays dirty for a later flush.     *)
Skip(f) ==
    /\ work[f].pc = "next"
    /\ \E job \in work[f].todo :
        /\ job.task \notin channel
        /\ work' = [work EXCEPT ![f].todo = @ \ {job}]
        /\ digest' = IF Exists(job.task)
                     THEN [digest EXCEPT ![job.task].dirty = TRUE] ELSE digest
    /\ UNCHANGED <<posts, channel, changes, faults, disturbed, lost, inherits>>

(* The database refuses the read of one row: the flush returns, and what it *)
(* had taken of this and of the following digests is not dirty any more.    *)
ReadFails(f) ==
    /\ work[f].pc = "next" /\ work[f].todo # {} /\ faults < MaxFaults
    /\ faults' = faults + 1
    /\ work' = [work EXCEPT ![f] = Idle]
    /\ lost' = lost \cup {job.task : job \in work[f].todo}
    /\ UNCHANGED <<digest, posts, channel, changes, disturbed, inherits>>

Write(f, job, id, board) ==
    /\ work' = [work EXCEPT ![f].pc = "record", ![f].todo = @ \ {job},
                            ![f].now = [task |-> job.task, id |-> id]]
    /\ posts' = [posts EXCEPT ![job.task] = board]
    /\ UNCHANGED <<digest, channel, changes, disturbed, lost, inherits>>

Edit(f) ==
    /\ work[f].pc = "next"
    /\ \E job \in work[f].todo :
        /\ job.task \in channel /\ job.existing # None
        /\ Write(f, job, job.existing,
                 [posts[job.task] EXCEPT ![job.existing] = job.render])
    /\ UNCHANGED faults

(* No message yet, or the edit of it failed: a fresh one, remembered.       *)
Post(f) ==
    /\ work[f].pc = "next"
    /\ \E job \in work[f].todo :
        /\ job.task \in channel
        /\ \/ job.existing = None /\ UNCHANGED faults
           \/ job.existing # None /\ faults < MaxFaults /\ faults' = faults + 1
        /\ Write(f, job, Len(posts[job.task]) + 1,
                 Append(posts[job.task], job.render))

(* Discord did not take the message, or took it and did not say so.         *)
PostFails(f) ==
    /\ work[f].pc = "next" /\ faults < MaxFaults
    /\ faults' = faults + 1
    /\ \E job \in work[f].todo :
        /\ job.task \in channel
        /\ \/ Write(f, job, None, posts[job.task])
           \/ Write(f, job, None, Append(posts[job.task], job.render))

(* Mutant of Record: dirty is cleared when the message is written down.      *)
RecordClean(f) ==
    /\ work[f].pc = "record"
    /\ LET t == work[f].now.task
           id == work[f].now.id
       IN  digest' = IF ~Exists(t) THEN digest
                     ELSE IF id # None
                     THEN [digest EXCEPT ![t].message_id = id, ![t].dirty = FALSE]
                     ELSE [digest EXCEPT ![t].dirty = TRUE]
    /\ work' = [work EXCEPT ![f].pc = "next", ![f].now = None]
    /\ UNCHANGED <<posts, channel, changes, faults, disturbed, lost, inherits>>

(* Mutant of Record: a card that could not be posted is forgotten.          *)
RecordPosted(f) ==
    /\ work[f].pc = "record"
    /\ LET t == work[f].now.task
           id == work[f].now.id
       IN  digest' = IF Exists(t) /\ id # None
                     THEN [digest EXCEPT ![t].message_id = id] ELSE digest
    /\ work' = [work EXCEPT ![f].pc = "next", ![f].now = None]
    /\ UNCHANGED <<posts, channel, changes, faults, disturbed, lost, inherits>>

(* Under the lock again: the digest, if there is one, gets the message.     *)
Record(f) ==
    /\ work[f].pc = "record"
    /\ LET t == work[f].now.task
           id == work[f].now.id
       IN  digest' = IF ~Exists(t) THEN digest
                     ELSE IF id # None THEN [digest EXCEPT ![t].message_id = id]
                     ELSE [digest EXCEPT ![t].dirty = TRUE]
    /\ work' = [work EXCEPT ![f].pc = "next", ![f].now = None]
    /\ UNCHANGED <<posts, channel, changes, faults, disturbed, lost, inherits>>

Done(f) ==
    /\ work[f].pc = "next" /\ work[f].todo = {}
    /\ work' = [work EXCEPT ![f] = Idle]
    /\ UNCHANGED <<digest, posts, channel, changes, faults, disturbed, lost, inherits>>

Flush(f) ==
    \/ Take(f) \/ Skip(f) \/ ReadFails(f)
    \/ Edit(f) \/ Post(f) \/ PostFails(f)
    \/ Record(f) \/ Done(f)

Next ==
    \/ \E t \in Tasks : Change(t) \/ TurnStarted(t) \/ Provision(t)
    \/ \E f \in Flushers : Flush(f)

Spec == Init /\ [][Next]_vars

(* The loop ticks every two seconds, the handler runs to its end, and a     *)
(* call of Discord or of the database returns.                              *)
Fairness == \A f \in Flushers : WF_vars(Flush(f))
FairSpec == Spec /\ Fairness

-----------------------------------------------------------------------------
TypeOK ==
    /\ \A t \in Tasks :
        /\ digest[t].turn \in 0..MaxTurns /\ digest[t].version \in 0..MaxChanges
        /\ digest[t].dirty \in BOOLEAN
        /\ digest[t].message_id \in {None} \cup DOMAIN posts[t]
    /\ \A f \in Flushers : work[f].pc \in {"idle", "next", "record"}
    /\ channel \cup disturbed \cup lost \cup inherits \subseteq Tasks

Current(t) ==
    /\ digest[t].message_id # None
    /\ posts[t][digest[t].message_id] = Content(t)

(* A digest that is neither dirty nor being delivered is what its card      *)
(* shows: a change that comes between the render and the answer of Discord   *)
(* leaves it dirty, and a card is not replaced by an older render.  Except   *)
(* (observed) where two flushes delivered it at once, or a failed read gave  *)
(* up the rest of a flush.                                                  *)
CardIsCurrent ==
    \A t \in Tasks \ (disturbed \cup lost) :
        Exists(t) /\ ~digest[t].dirty /\ Taken(t) = {} => Current(t)

(* A card of one turn is never written over with another turn: each turn has *)
(* its own activity and plan.  Except (observed) when the turn started while *)
(* the card of the earlier one was being delivered: the flush hands its      *)
(* message to the new digest.                                               *)
KeepsItsTurn ==
    \A t \in Tasks \ inherits : \A n \in DOMAIN posts[t] :
        posts'[t][n][1] = posts[t][n][1]
CardKeepsItsTurn == [][KeepsItsTurn]_vars

(* A digest is delivered in the end, through failed edits, failed posts and  *)
(* a channel that comes late: as the changes are bounded, again and again   *)
(* there is nothing left to deliver.                                        *)
Settled(t) ==
    Current(t) \/ ~Exists(t) \/ t \notin channel \/ t \in disturbed \cup lost
AllSettled  == \A t \in Tasks : Settled(t)
CardSettles == []<>AllSettled

-----------------------------------------------------------------------------
(* Why the two hold.  The shape of the state, and the messages it names.    *)
Shape ==
    /\ digest \in [Tasks -> [turn : 0..MaxTurns, version : 0..MaxChanges, dirty : BOOLEAN,
                             message_id : {None} \cup Nat]]
    /\ work \in [Flushers ->
        [pc : {"idle", "next", "record"}, now : {None} \cup [task : Tasks, id : {None} \cup Nat],
         todo : SUBSET [task : Tasks, render : Nat \X Nat, existing : {None} \cup Nat]]]
    /\ posts \in [Tasks -> Seq(Nat \X Nat)]
    /\ channel \cup disturbed \cup lost \cup inherits \subseteq Tasks
    /\ changes \in Nat /\ \A t \in Tasks : digest[t].version <= changes
    /\ \A f \in Flushers : /\ work[f].pc = "record" <=> work[f].now # None
                           /\ work[f].pc = "idle" => work[f].todo = {}

Writing(f, t) == work[f].now # None /\ work[f].now.task = t
Known(t, id)  == id = None \/ id \in DOMAIN posts[t]
Messages ==
    /\ \A t \in Tasks : Known(t, digest[t].message_id)
    /\ \A f \in Flushers : \A job \in work[f].todo : Known(job.task, job.existing)
    /\ \A f \in Flushers : \A t \in Tasks : Writing(f, t) => Known(t, work[f].now.id)

(* A flush has one job of a task, and one flush has it, unless disturbed.   *)
OneJob ==
    \A f \in Flushers :
        /\ \A i, j \in work[f].todo : i.task = j.task => i = j
        /\ \A j \in work[f].todo : ~Writing(f, j.task)
Has(f, t) == Writing(f, t) \/ \E job \in work[f].todo : job.task = t
OneFlush ==
    \A t \in Tasks \ disturbed : \A f, g \in Flushers : Has(f, t) /\ Has(g, t) => f = g

(* What is being delivered is the digest, or the digest is dirty again.     *)
InDelivery ==
    \A t \in Tasks \ (disturbed \cup lost) : \A f \in Flushers :
        /\ Has(f, t) => Exists(t)
        /\ \A job \in work[f].todo :
            job.task = t /\ ~digest[t].dirty => job.render = Content(t)
        /\ Writing(f, t) /\ work[f].now.id # None /\ ~digest[t].dirty =>
            posts[t][work[f].now.id] = Content(t)

(* What is not being delivered and not dirty is what its card shows.        *)
Delivered ==
    \A t \in Tasks \ (disturbed \cup lost) :
        Exists(t) /\ ~digest[t].dirty /\ (\A f \in Flushers : ~Has(f, t)) => Current(t)

(* The messages that are still written to are those of the digest's turn.   *)
OfItsTurn(t, id) == id # None => posts[t][id][1] = digest[t].turn
OneTurn ==
    \A t \in Tasks \ inherits :
        /\ OfItsTurn(t, digest[t].message_id)
        /\ \A f \in Flushers :
            /\ \A job \in work[f].todo : job.task = t =>
                job.render[1] = digest[t].turn /\ OfItsTurn(t, job.existing)
            /\ Writing(f, t) => OfItsTurn(t, work[f].now.id)

IInv == Shape /\ Messages /\ OneJob /\ OneFlush /\ InDelivery /\ Delivered /\ OneTurn
=============================================================================
