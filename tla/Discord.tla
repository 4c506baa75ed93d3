------------------------------- MODULE Discord -------------------------------
(***************************************************************************)
(* The parts of the Discord side that share no state with each other, on    *)
(* any instances: a scope is a record of the constants of one, `part` is the *)
(* one that runs, and v1 to v12 are the variables of its module, in the     *)
(* order in which it declares them (0 where it has fewer).                  *)
(***************************************************************************)
EXTENDS Naturals

CONSTANTS
    none,      \* no message, no click
    ItemsScopes, CardsScopes, MirrorScopes, FormsScopes, GuildScopes, CallsScopes,
    PagesScopes, AsksScopes, GoneScopes, LimitScopes, MenusScopes

(* A channel and a class have room for one; items are of one kind.          *)
ASSUME ItemsAssumption ==
    \A s \in ItemsScopes :
        /\ {s.queue, s.active, s.recent} \subseteq Nat \ {0}
        /\ {s.tail, s.entries, s.chunks} \subseteq Nat
        /\ s.execs \cap s.spawns = {}
        /\ (s.commands \cup s.tools) \cap (s.execs \cup s.spawns) = {}

(* A window and a lockout, and the lockout is the longer of them.           *)
ASSUME LimitAssumption ==
    \A s \in LimitScopes :
        /\ {s.failures, s.window, s.lockout, s.time} \subseteq Nat \ {0}
        /\ s.window <= s.lockout

(* No message is neither a number nor what a flush writes down.             *)
ASSUME CardsAssumption ==
    \A s \in CardsScopes :
        /\ {s.changes, s.turns} \subseteq Nat
        /\ none \notin Nat \cup [task : s.tasks, id : {none} \cup Nat]

(* There is room for a channel, and the consumer of the notifications only   *)
(* does that.                                                               *)
ASSUME MirrorAssumption ==
    \A s \in MirrorScopes :
        /\ s.turns \in Nat /\ s.created \in Nat \ {0}
        /\ s.consumer \notin {s.boot} \cup s.owners

(* No click is no token and no click; a page of a form has a field.         *)
ASSUME FormsAssumption ==
    \A s \in FormsScopes :
        /\ {s.fields, s.most} \subseteq Nat /\ s.page \in Nat \ {0}
        /\ none \notin s.tokens \cup s.clicks

ASSUME GuildAssumption == \A s \in GuildScopes : s.room \in Nat

ASSUME CallsAssumption ==
    \A s \in CallsScopes : {s.limit, s.bytes, s.items, s.turns, s.calls} \subseteq Nat

(* A list has a page.                                                       *)
ASSUME PagesAssumption == \A s \in PagesScopes : s.pages \in Nat \ {0}

(* A page has an entry.                                                     *)
ASSUME MenusAssumption ==
    \A s \in MenusScopes : {s.entries, s.onscreen} \subseteq Nat /\ s.size \in Nat \ {0}

VARIABLES part, v1, v2, v3, v4, v5, v6, v7, v8, v9, v10, v11, v12

vars == <<part, v1, v2, v3, v4, v5, v6, v7, v8, v9, v10, v11, v12>>

Items(s) == INSTANCE Projection WITH
    Commands <- s.commands, Tools <- s.tools, Execs <- s.execs,
    Spawns <- s.spawns, MaxQueue <- s.queue, MaxActive <- s.active, MaxRecent <- s.recent,
    MaxTail <- s.tail, MaxEntries <- s.entries, MaxChunks <- s.chunks,
    sent <- v1, ended <- v2, queue <- v3, behind <- v4, projection <- v5,
    touched <- v6, operations <- v7, bound <- v8, consumer <- v9,
    caller <- v10, unseen <- v11, crossed <- v12

Cards(s) == INSTANCE Digests WITH
    Tasks <- s.tasks, Loop <- s.loop, Handlers <- s.handlers, None <- none,
    MaxChanges <- s.changes, MaxTurns <- s.turns, MaxFaults <- s.faults,
    digest <- v1, work <- v2, posts <- v3, channel <- v4, changes <- v5,
    faults <- v6, disturbed <- v7, lost <- v8, inherits <- v9

Mirror(s) == INSTANCE TaskMirror WITH
    Tasks <- s.tasks, Consumer <- s.consumer, Boot <- s.boot, Owners <- s.owners,
    PruneAt <- s.at, PruneTo <- s.to, MaxTurns <- s.turns, MaxCalls <- s.calls,
    MaxChannels <- s.created, MaxFaults <- s.refusals,
    codex <- v1, events <- v2, rows <- v3, channels <- v4, th <- v5,
    next <- v6, turnOff <- v7, restOff <- v8

Forms(s) == INSTANCE ActionDrafts WITH
    Tokens <- s.tokens, Clicks <- s.clicks, Workers <- s.workers, NFields <- s.fields,
    PerPage <- s.page, Required <- s.required, Nobody <- none, MaxClicks <- s.most,
    drafts <- v1, readers <- v2, writer <- v3, click <- v4, cards <- v5,
    sent <- v6, told <- v7, count <- v8, late <- v9, resubmitted <- v10

Guild(s) == INSTANCE Provision WITH
    Setups <- s.setups, Movers <- s.movers, Room <- s.room, MaxMonths <- s.months,
    MaxChannels <- s.channels, MaxFaults <- s.faults,
    channels <- v1, dashboards <- v2, month <- v3, h <- v4, faults <- v5,
    raced <- v6, gap <- v7

Calls(s) == INSTANCE ToolCalls WITH
    Limit <- s.limit, MaxBytes <- s.bytes, MaxItems <- s.items,
    MaxTurns <- s.turns, MaxCalls <- s.calls,
    turns <- v1, live <- v2, row <- v3, target <- v4, call <- v5,
    walk <- v6, calls <- v7

Pages(s) == INSTANCE Browsers WITH
    Clicks <- s.buttons, MaxPages <- s.pages, MaxClicks <- s.most,
    listed <- v1, browser <- v2, shown <- v3, click <- v4, count <- v5,
    crossed <- v6

Asks(s) == INSTANCE Replies WITH
    FormFields <- s.room, ButtonLimit <- s.buttons, MaxOffered <- s.offered, MaxFields <- s.fields,
    request <- v1, state <- v2, form <- v3, said <- v4, reply <- v5

Gone(s) == INSTANCE Deletions WITH
    Messages <- s.messages, Stuck <- s.stuck, Newest <- s.newest, Oldest <- s.oldest, Tries <- s.tries,
    MaxFaults <- s.failing, MaxRestarts <- s.restarts,
    discord <- v1, row <- v2, h <- v3, told <- v4, flusher <- v5,
    clock <- v6, faults <- v7, restarts <- v8, missed <- v9

Limit(s) == INSTANCE Attempts WITH
    MaxFailures <- s.failures, Window <- s.window, Lockout <- s.lockout, MaxNow <- s.time,
    MaxAttempts <- s.attempts,
    now <- v1, failures <- v2, lockedUntil <- v3, verdicts <- v4,
    refused <- v5

Menus(s) == INSTANCE Selections WITH
    Kinds <- s.kinds, Tokens <- s.tokens, MaxEntries <- s.entries, PageSize <- s.size,
    Threads <- s.threads, MaxCards <- s.onscreen, MaxChanges <- s.edits,
    listed <- v1, thread <- v2, menus <- v3, cards <- v4, sending <- v5,
    sent <- v6, changes <- v7

Is(kind, s) == part = <<kind, s>>

Init ==
    \/ \E s \in ItemsScopes : Is("items", s) /\ Items(s)!Init
    \/ \E s \in CardsScopes : Is("cards", s) /\ Cards(s)!Init
         /\ v10 = 0 /\ v11 = 0 /\ v12 = 0
    \/ \E s \in MirrorScopes : Is("mirror", s) /\ Mirror(s)!Init
         /\ v9 = 0 /\ v10 = 0 /\ v11 = 0 /\ v12 = 0
    \/ \E s \in FormsScopes : Is("forms", s) /\ Forms(s)!Init
         /\ v11 = 0 /\ v12 = 0
    \/ \E s \in GuildScopes : Is("guild", s) /\ Guild(s)!Init
         /\ v8 = 0 /\ v9 = 0 /\ v10 = 0 /\ v11 = 0 /\ v12 = 0
    \/ \E s \in CallsScopes : Is("calls", s) /\ Calls(s)!Init
         /\ v8 = 0 /\ v9 = 0 /\ v10 = 0 /\ v11 = 0 /\ v12 = 0
    \/ \E s \in PagesScopes : Is("pages", s) /\ Pages(s)!Init
         /\ v7 = 0 /\ v8 = 0 /\ v9 = 0 /\ v10 = 0 /\ v11 = 0 /\ v12 = 0
    \/ \E s \in AsksScopes : Is("asks", s) /\ Asks(s)!Init
         /\ v6 = 0 /\ v7 = 0 /\ v8 = 0 /\ v9 = 0 /\ v10 = 0 /\ v11 = 0 /\ v12 = 0
    \/ \E s \in GoneScopes : Is("gone", s) /\ Gone(s)!Init
         /\ v10 = 0 /\ v11 = 0 /\ v12 = 0
    \/ \E s \in LimitScopes : Is("limit", s) /\ Limit(s)!Init
         /\ v6 = 0 /\ v7 = 0 /\ v8 = 0 /\ v9 = 0 /\ v10 = 0 /\ v11 = 0 /\ v12 = 0
    \/ \E s \in MenusScopes : Is("menus", s) /\ Menus(s)!Init
         /\ v8 = 0 /\ v9 = 0 /\ v10 = 0 /\ v11 = 0 /\ v12 = 0

In(kind, s) == Is(kind, s) /\ UNCHANGED part

Next ==
    \/ \E s \in ItemsScopes : In("items", s) /\ Items(s)!Next
    \/ \E s \in CardsScopes : In("cards", s) /\ Cards(s)!Next
         /\ UNCHANGED <<v10, v11, v12>>
    \/ \E s \in MirrorScopes : In("mirror", s) /\ Mirror(s)!Next
         /\ UNCHANGED <<v9, v10, v11, v12>>
    \/ \E s \in FormsScopes : In("forms", s) /\ Forms(s)!Next
         /\ UNCHANGED <<v11, v12>>
    \/ \E s \in GuildScopes : In("guild", s) /\ Guild(s)!Next
         /\ UNCHANGED <<v8, v9, v10, v11, v12>>
    \/ \E s \in CallsScopes : In("calls", s) /\ Calls(s)!Next
         /\ UNCHANGED <<v8, v9, v10, v11, v12>>
    \/ \E s \in PagesScopes : In("pages", s) /\ Pages(s)!Next
         /\ UNCHANGED <<v7, v8, v9, v10, v11, v12>>
    \/ \E s \in AsksScopes : In("asks", s) /\ Asks(s)!Next
         /\ UNCHANGED <<v6, v7, v8, v9, v10, v11, v12>>
    \/ \E s \in GoneScopes : In("gone", s) /\ Gone(s)!Next
         /\ UNCHANGED <<v10, v11, v12>>
    \/ \E s \in LimitScopes : In("limit", s) /\ Limit(s)!Next
         /\ UNCHANGED <<v6, v7, v8, v9, v10, v11, v12>>
    \/ \E s \in MenusScopes : In("menus", s) /\ Menus(s)!Next
         /\ UNCHANGED <<v8, v9, v10, v11, v12>>

Spec == Init /\ [][Next]_vars
(* The fairness of Digests, ActionDrafts and Deletions.                     *)
FairSpec ==
    /\ Spec
    /\ \A s \in CardsScopes : \A f \in {s.loop} \cup s.handlers :
        WF_vars(In("cards", s) /\ Cards(s)!Flush(f) /\ UNCHANGED <<v10, v11, v12>>)
    /\ \A s \in FormsScopes : \A c \in s.clicks :
        WF_vars(In("forms", s) /\ Forms(s)!Handle(c) /\ UNCHANGED <<v11, v12>>)
    /\ \A s \in GoneScopes :
        /\ WF_vars(In("gone", s) /\ Gone(s)!Flush /\ UNCHANGED <<v10, v11, v12>>)
        /\ \A m \in s.messages :
            WF_vars(In("gone", s) /\ Gone(s)!Handle(m) /\ UNCHANGED <<v10, v11, v12>>)

-----------------------------------------------------------------------------
(* Every value of every part has its type, and what is bounded is bounded.  *)
TypeOK ==
    /\ \A s \in ItemsScopes : Is("items", s) => Items(s)!TypeOK
    /\ \A s \in CardsScopes : Is("cards", s) => Cards(s)!TypeOK
    /\ \A s \in MirrorScopes : Is("mirror", s) => Mirror(s)!TypeOK
    /\ \A s \in FormsScopes : Is("forms", s) => Forms(s)!TypeOK
    /\ \A s \in GuildScopes : Is("guild", s) => Guild(s)!TypeOK
    /\ \A s \in CallsScopes : Is("calls", s) => Calls(s)!TypeOK
    /\ \A s \in PagesScopes : Is("pages", s) => Pages(s)!TypeOK
    /\ \A s \in AsksScopes : Is("asks", s) => Asks(s)!TypeOK
    /\ \A s \in GoneScopes : Is("gone", s) => Gone(s)!TypeOK
    /\ \A s \in LimitScopes : Is("limit", s) => Limit(s)!TypeOK
    /\ \A s \in MenusScopes : Is("menus", s) => Menus(s)!TypeOK

(* What a card shows of an item has no silent gap (projection.rs). *)
GapIsSaid == \A s \in ItemsScopes : Is("items", s) => Items(s)!GapIsSaid

(* No finished item is shown as still running (bot.rs, OperationsDigest). *)
FinishedIsShown == \A s \in ItemsScopes : Is("items", s) => Items(s)!FinishedIsShown

(* A card that is not due shows its digest (flush_digests). *)
CardIsCurrent == \A s \in CardsScopes : Is("cards", s) => Cards(s)!CardIsCurrent

(* A card of one turn is not written over with another (flush_digests). *)
CardKeepsItsTurn ==
    [][\A s \in CardsScopes : Is("cards", s) => Cards(s)!KeepsItsTurn]_vars

(* A digest is delivered in the end (spawn_stream_flusher). *)
CardSettles ==
    []<>(\A s \in CardsScopes : Is("cards", s) => Cards(s)!AllSettled)

(* The row of a task at rest has its turn (handle_notification, reconcile_task). *)
TurnAgrees == \A s \in MirrorScopes : Is("mirror", s) => Mirror(s)!TurnAgrees

(* It has its title and its one channel too (open_selected_task, pruning). *)
RestAgrees == \A s \in MirrorScopes : Is("mirror", s) => Mirror(s)!RestAgrees

(* What runs is what the card showed, a form once (execute_action, the menus). *)
RunsWhatItShows ==
    /\ \A s \in FormsScopes : Is("forms", s) => Forms(s)!RunsWhatItShows
    /\ \A s \in MenusScopes : Is("menus", s) => Menus(s)!RunsWhatItShows

(* A form that is said to be cancelled does not run (cancel_action). *)
CancelIsTrue == \A s \in FormsScopes : Is("forms", s) => Forms(s)!CancelIsTrue

(* Every click on a form is handled to its end. *)
ClicksReturn ==
    []<>(\A s \in FormsScopes : Is("forms", s) => Forms(s)!NoneUnderWay)

(* Each category and control channel is there once (ensure_layout). *)
OneOfEach == \A s \in GuildScopes : Is("guild", s) => Guild(s)!OneOfEach

(* A walk through the pages misses no turn in silence (host_broker.rs). *)
CursorsSkipNothing == \A s \in CallsScopes : Is("calls", s) => Calls(s)!CursorsSkipNothing

(* The page on the screen is the one the entry is at (page_tasks, plugins). *)
PageAgrees ==
    /\ \A s \in PagesScopes : Is("pages", s) => Pages(s)!PageAgrees
    /\ \A s \in MenusScopes : Is("menus", s) => Menus(s)!PageAgrees

(* A request is answered with what the owner said, as it may be (requests.rs). *)
AnswersFit == \A s \in AsksScopes : Is("asks", s) => Asks(s)!AnswersFit

(* A message that is to be deleted is, in the end (sensitive_deletions). *)
DeletionHappens ==
    []<>(\A s \in GoneScopes : Is("gone", s) => Gone(s)!Caught)

(* A lock holds for its time, and only that (rate_limit.rs). *)
LockHolds == \A s \in LimitScopes : Is("limit", s) => Limit(s)!LockHolds
=============================================================================
