----------------------------- MODULE ActionDrafts -----------------------------
(***************************************************************************)
(* The forms of the action center (begin_action to cancel_action in bot.rs, *)
(* ActionDraft in actions.rs).  A draft is an entry of the concurrent map   *)
(* action_drafts; its cards carry nothing but its token, stay in the        *)
(* channel when they are out of date, and can be clicked at any time and    *)
(* from several devices.  A handler runs on one of the threads of the       *)
(* runtime.  Waiting for Discord gives the thread back; waiting for a lock  *)
(* of the map does not, and two handlers keep such a lock while they wait   *)
(* for Discord.                                                             *)
(*                                                                          *)
(* The value of a field is the number of the submission it came with.       *)
(***************************************************************************)
EXTENDS Naturals, FiniteSets, Sequences

CONSTANTS
    Tokens,      \* drafts
    Clicks,      \* interactions under way at once
    Workers,     \* the threads of the runtime
    NFields,     \* fields of the form
    PerPage,     \* FIELDS_PER_PAGE
    Required,    \* the fields that must have a value
    Nobody,      \* no click, no token
    MaxClicks    \* bound: interactions

Fields == 1..NFields

VARIABLES
    drafts,      \* action_drafts: [status, params] of every token
    readers,     \* the clicks that hold a reference to an entry
    writer,      \* the click that holds one it may write through
    click,       \* the handlers: [pc, kind, token, page, values, shows, params]
    cards,       \* Discord: the buttons and forms of each draft
    sent,        \* Codex: [params, shown] of each request
    told,        \* tokens whose owner has read "Action cancelled."
    count,       \* interactions so far
    late,        \* observed: drafts cancelled when they were already gone
    resubmitted  \* observed: drafts changed after a card had shown them

vars == <<drafts, readers, writer, click, cards, sent, told, count, late, resubmitted>>

Blank   == [f \in Fields |-> 0]
Resting == [pc |-> "idle", kind |-> "none", token |-> Nobody, page |-> 0,
            values |-> <<>>, shows |-> Blank, params |-> Blank]

Init ==
    /\ drafts = [t \in Tokens |-> [status |-> "new", params |-> Blank]]
    /\ readers = {} /\ writer = Nobody
    /\ click = [c \in Clicks |-> Resting]
    /\ cards = [t \in Tokens |-> {}]
    /\ sent = [t \in Tokens |-> <<>>]
    /\ told = {} /\ count = 0 /\ late = {} /\ resubmitted = {}

-----------------------------------------------------------------------------
(* ActionDraft: the pages of a form, and what a submitted page changes.     *)
(* Field after field until one is wrong; what came before it stays.         *)
PageCount == IF NFields = 0 THEN 1 ELSE (NFields + PerPage - 1) \div PerPage
PageFields(page) == {f \in Fields : (f - 1) \div PerPage = page}

Wrong(values)    == {f \in DOMAIN values :
                       \/ values[f] = "wrong"
                       \/ values[f] = "blank" /\ f \in Required}
Applied(params, values, n) ==
    [f \in Fields |->
        IF /\ f \in DOMAIN values /\ values[f] = "given"
           /\ \A g \in Wrong(values) : f < g
        THEN n ELSE params[f]]

(* The cards: the form of a page, the button for the next page, and the     *)
(* confirmation with the parameters it shows.                               *)
Form(page)     == [kind |-> "form", page |-> page, shows |-> Blank]
Continue(page) == [kind |-> "continue", page |-> page, shows |-> Blank]
Confirm(params) == [kind |-> "confirm", page |-> 0, shows |-> params]
Confirmed(t)   == \E card \in cards[t] : card.kind = "confirm"
FirstCard == IF NFields = 0 THEN Confirm(Blank) ELSE Form(0)

-----------------------------------------------------------------------------
(* The owner clicks what is there.  A form goes away when it is submitted.  *)
Clicked(c, kind, t, card, values) ==
    /\ click[c].pc = "idle" /\ count < MaxClicks
    /\ count' = count + 1
    /\ click' = [click EXCEPT ![c] = [Resting EXCEPT
                    !.pc = "come", !.kind = kind, !.token = t, !.page = card.page,
                    !.values = values, !.shows = card.shows]]
    /\ UNCHANGED <<drafts, readers, writer, sent, told, late, resubmitted>>

Pick(c, t) ==
    /\ drafts[t].status = "new"
    /\ \A d \in Clicks : click[d].token # t
    /\ \/ Clicked(c, "begin", t, FirstCard, <<>>)
       \/ Clicked(c, "mutate", t, FirstCard, <<>>)   \* begin_plugin_mutation: no form
    /\ UNCHANGED cards
Press(c, t) ==
    \E card \in cards[t] :
        /\ \/ card.kind = "continue" /\ Clicked(c, "open", t, card, <<>>)
           \/ card.kind = "confirm" /\ Clicked(c, "execute", t, card, <<>>)
           \/ card.kind \in {"continue", "confirm"} /\ Clicked(c, "cancel", t, card, <<>>)
        /\ UNCHANGED cards
Submit(c, t) ==
    \E card \in cards[t] :
        /\ card.kind = "form"
        /\ \E values \in [PageFields(card.page) -> {"blank", "given", "wrong"}] :
             Clicked(c, "save", t, card, values)
        /\ cards' = [cards EXCEPT ![t] = @ \ {card}]
(* show_action_categories drops every expired draft.                        *)
Browse(c) == Clicked(c, "sweep", Nobody, FirstCard, <<>>) /\ UNCHANGED cards

Expire(t) ==
    /\ drafts[t].status = "live"
    /\ drafts' = [drafts EXCEPT ![t].status = "expired"]
    /\ UNCHANGED <<readers, writer, click, cards, sent, told, count, late, resubmitted>>

-----------------------------------------------------------------------------
(* A handler at the map keeps its thread; the others need one to go on.     *)
AtMap      == {c \in Clicks : click[c].pc = "map"}
HasThread  == Cardinality(AtMap) < Workers
Ended(c)   == click' = [click EXCEPT ![c] = Resting]
To(c, pc)  == click' = [click EXCEPT ![c].pc = pc]

(* Up to the map: a reply put off, or a row read; either may fail.          *)
Come(c) ==
    /\ click[c].pc = "come" /\ HasThread
    /\ \/ To(c, "map")
       \/ click[c].kind \in {"begin", "mutate", "save", "execute", "sweep"} /\ Ended(c)
    /\ UNCHANGED <<drafts, readers, writer, cards, sent, told, count, late, resubmitted>>

AtLock(c, kind) ==
    /\ click[c].pc = "map" /\ click[c].kind = kind
    /\ writer = Nobody
    /\ kind # "open" => readers = {}

Insert(c) ==
    /\ AtLock(c, "begin") \/ AtLock(c, "mutate")
    /\ drafts' = [drafts EXCEPT ![click[c].token].status = "live"]
    /\ To(c, "reply")
    /\ UNCHANGED <<readers, writer, cards, sent, told, count, late, resubmitted>>

Sweep(c) ==
    /\ AtLock(c, "sweep")
    /\ drafts' = [t \in Tokens |->
                    IF drafts[t].status = "expired"
                    THEN [drafts[t] EXCEPT !.status = "gone"] ELSE drafts[t]]
    /\ Ended(c)
    /\ UNCHANGED <<readers, writer, cards, sent, told, count, late, resubmitted>>

(* open_action_form: the reference is kept to the end.                      *)
Get(c) ==
    /\ AtLock(c, "open")
    /\ IF drafts[click[c].token].status = "live"
       THEN To(c, "reply") /\ readers' = readers \cup {c}
       ELSE Ended(c) /\ UNCHANGED readers
    /\ UNCHANGED <<drafts, writer, cards, sent, told, count, late, resubmitted>>

(* save_action_form: so is this one, unless a value is wrong.               *)
Apply(c) ==
    /\ AtLock(c, "save")
    /\ LET t     == click[c].token
           after == Applied(drafts[t].params, click[c].values, count)
       IN  IF drafts[t].status # "live"
           THEN Ended(c) /\ UNCHANGED <<drafts, writer, resubmitted>>
           ELSE /\ drafts' = [drafts EXCEPT ![t].params = after]
                /\ resubmitted' = IF Confirmed(t) /\ after # drafts[t].params
                                  THEN resubmitted \cup {t} ELSE resubmitted
                /\ IF Wrong(click[c].values) # {}
                   THEN Ended(c) /\ UNCHANGED writer
                   ELSE To(c, "reply") /\ writer' = c
    /\ UNCHANGED <<readers, cards, sent, told, count, late>>

(* Mutant of Remove: the draft is read, and stays in the map.               *)
RemoveNot(c) ==
    /\ AtLock(c, "execute")
    /\ LET t == click[c].token
       IN  IF drafts[t].status = "live"
           THEN click' = [click EXCEPT ![c].pc = "run", ![c].params = drafts[t].params]
           ELSE Ended(c)
    /\ UNCHANGED <<drafts, readers, writer, cards, sent, told, count, late, resubmitted>>

(* execute_action takes the draft out before it looks at it.                *)
Remove(c) ==
    /\ AtLock(c, "execute")
    /\ LET t == click[c].token
       IN  /\ drafts' = [drafts EXCEPT ![t].status = "gone"]
           /\ IF drafts[t].status = "live"
              THEN click' = [click EXCEPT ![c].pc = "run", ![c].params = drafts[t].params]
              ELSE Ended(c)
    /\ UNCHANGED <<readers, writer, cards, sent, told, count, late, resubmitted>>

(* Mutant of Drop: the answer is given and the draft stays.                 *)
DropNot(c) ==
    /\ AtLock(c, "cancel")
    /\ LET t == click[c].token
       IN  late' = IF drafts[t].status = "gone" THEN late \cup {t} ELSE late
    /\ To(c, "reply")
    /\ UNCHANGED <<drafts, readers, writer, cards, sent, told, count, resubmitted>>

(* cancel_action answers the same whether there was a draft or not.         *)
Drop(c) ==
    /\ AtLock(c, "cancel")
    /\ LET t == click[c].token
       IN  /\ drafts' = [drafts EXCEPT ![t].status = "gone"]
           /\ late' = IF drafts[t].status = "gone" THEN late \cup {t} ELSE late
    /\ To(c, "reply")
    /\ UNCHANGED <<readers, writer, cards, sent, told, count, resubmitted>>

(* The card a reply shows, if Discord takes the reply.                      *)
Shown(c) ==
    LET t == click[c].token
    IN  CASE click[c].kind = "begin"  -> cards[t] \cup {FirstCard}
          [] click[c].kind = "mutate" -> cards[t] \cup {Confirm(drafts[t].params)}
          [] click[c].kind = "open"   -> cards[t] \cup {Form(click[c].page)}
          [] click[c].kind = "save"   ->
                cards[t] \cup {IF click[c].page + 1 < PageCount
                               THEN Continue(click[c].page + 1)
                               ELSE Confirm(drafts[t].params)}
          [] click[c].kind = "cancel" ->
                cards[t] \ {Continue(click[c].page), Confirm(click[c].shows)}

(* Mutant of Reply: a handler whose reply is refused keeps its lock.        *)
ReplyOrKeep(c) ==
    /\ click[c].pc = "reply" /\ HasThread
    /\ LET t == click[c].token
       IN  \/ /\ cards' = [cards EXCEPT ![t] = Shown(c)]
              /\ told' = IF click[c].kind = "cancel" THEN told \cup {t} ELSE told
              /\ readers' = readers \ {c}
              /\ writer' = IF writer = c THEN Nobody ELSE writer
           \/ UNCHANGED <<cards, told, readers, writer>>
    /\ Ended(c)
    /\ UNCHANGED <<drafts, sent, count, late, resubmitted>>

Reply(c) ==
    /\ click[c].pc = "reply" /\ HasThread
    /\ LET t == click[c].token
       IN  \/ /\ cards' = [cards EXCEPT ![t] = Shown(c)]
              /\ told' = IF click[c].kind = "cancel" THEN told \cup {t} ELSE told
           \/ UNCHANGED <<cards, told>>
    /\ readers' = readers \ {c}
    /\ writer' = IF writer = c THEN Nobody ELSE writer
    /\ Ended(c)
    /\ UNCHANGED <<drafts, sent, count, late, resubmitted>>

(* execute_action_inner: any of its checks may refuse.                      *)
Run(c) ==
    /\ click[c].pc = "run" /\ HasThread
    /\ \/ sent' = [sent EXCEPT ![click[c].token] =
                      Append(@, [params |-> click[c].params, shown |-> click[c].shows])]
       \/ UNCHANGED sent
    /\ Ended(c)
    /\ UNCHANGED <<drafts, readers, writer, cards, told, count, late, resubmitted>>

Handle(c) ==
    \/ Come(c) \/ Insert(c) \/ Sweep(c) \/ Get(c) \/ Apply(c) \/ Remove(c)
    \/ Drop(c) \/ Reply(c) \/ Run(c)

Next ==
    \/ \E c \in Clicks, t \in Tokens : Pick(c, t) \/ Press(c, t) \/ Submit(c, t)
    \/ \E c \in Clicks : Browse(c) \/ Handle(c)
    \/ \E t \in Tokens : Expire(t)

Spec == Init /\ [][Next]_vars
(* The runtime polls what is ready, and Discord answers or times out.       *)
FairSpec == Spec /\ \A c \in Clicks : WF_vars(Handle(c))

-----------------------------------------------------------------------------
TypeOK ==
    /\ \A t \in Tokens :
        /\ drafts[t].status \in {"new", "live", "expired", "gone"}
        /\ drafts[t].params \in [Fields -> 0..MaxClicks]
        /\ \A card \in cards[t] : card.page \in 0..(PageCount - 1)
    /\ \A c \in Clicks :
        /\ click[c].pc \in {"idle", "come", "map", "reply", "run"}
        /\ click[c].token \in Tokens \cup {Nobody}
    /\ writer \in Clicks \cup {Nobody} /\ readers \subseteq Clicks
    /\ writer # Nobody => readers = {}
    /\ told \cup late \cup resubmitted \subseteq Tokens

(* A draft runs once, with the parameters of the card whose button was      *)
(* pressed: however many cards of it are about, and however late they are   *)
(* clicked.  Except (observed) when a form of it was submitted again after  *)
(* a card had shown it: the card stays, and its button runs the new values, *)
(* those of a submission that was refused for a later field included.       *)
RunsWhatItShows ==
    \A t \in Tokens :
        /\ Len(sent[t]) <= 1
        /\ t \notin resubmitted =>
             \A n \in DOMAIN sent[t] : sent[t][n].params = sent[t][n].shown

(* An action whose owner reads that it was cancelled has not run and will   *)
(* not: the draft can be taken out of the map only once.  Except (observed)  *)
(* when it was gone before: the answer is the same then.                    *)
CancelIsTrue ==
    \A t \in told \ late :
        /\ sent[t] = <<>>
        /\ \A c \in Clicks : ~(click[c].pc = "run" /\ click[c].token = t)

(* Every click is handled to its end: the locks of the map are let go even  *)
(* by the handlers that wait for Discord with one in hand.  (As long as no  *)
(* more clicks are under way than there are threads.)  The clicks are       *)
(* bounded: again and again there is none under way.                        *)
NoneUnderWay == \A c \in Clicks : click[c].pc = "idle"
ClicksReturn == []<>NoneUnderWay

-----------------------------------------------------------------------------
(* The invariant that carries both, token by token: what the entry, its     *)
(* cards and the handlers that have its token know of each other.           *)
Kinds    == {"none", "begin", "mutate", "open", "save", "execute", "cancel", "sweep"}
Values   == {<<>>} \cup UNION {[PageFields(page) -> {"blank", "given", "wrong"}] :
                                 page \in 0..(PageCount - 1)}
Params   == [Fields -> 0..MaxClicks]
DraftSet == [status : {"new", "live", "expired", "gone"}, params : Params]
CardSet  == [kind : {"form", "continue", "confirm"}, page : 0..(PageCount - 1), shows : Params]
Handlers == [pc : {"idle", "come", "map", "reply", "run"}, kind : Kinds,
             token : Tokens \cup {Nobody}, page : 0..(PageCount - 1), values : Values,
             shows : Params, params : Params]
Shape ==
    /\ drafts \in [Tokens -> DraftSet] /\ count \in 0..MaxClicks
    /\ click \in [Clicks -> Handlers]
    /\ cards \in [Tokens -> SUBSET CardSet]
    /\ sent \in [Tokens -> Seq([params : Params, shown : Params])]
    /\ writer \in Clicks \cup {Nobody} /\ readers \subseteq Clicks
    /\ writer # Nobody => readers = {}
    /\ told \cup late \cup resubmitted \subseteq Tokens

(* A handler that is under way has its token, and gets where its kind does. *)
HandlersFit ==
    \A c \in Clicks :
        /\ click[c].pc = "idle" => click[c].token = Nobody
        /\ click[c].pc # "idle" /\ click[c].kind # "sweep" => click[c].token \in Tokens
        /\ click[c].pc = "reply" => click[c].kind \in {"begin", "mutate", "open", "save", "cancel"}
        /\ click[c].pc = "run" => click[c].kind = "execute"

Has(c, t)      == click[c].token = t
Before(c, kinds) == click[c].pc \in {"come", "map"} /\ click[c].kind \in kinds
Starts(c, t)   == Has(c, t) /\ Before(c, {"begin", "mutate"})
Executes(c, t) == Has(c, t) /\ Before(c, {"execute"})
Runs(c, t)     == Has(c, t) /\ click[c].pc = "run"
Cancels(c, t)  == Has(c, t) /\ click[c].pc = "reply" /\ click[c].kind = "cancel"

(* An entry that is not there yet has no card, and the handler that will    *)
(* make it is alone with the token.                                         *)
StartsAlone(t) ==
    /\ drafts[t].status = "new" =>
         /\ cards[t] = {} /\ sent[t] = <<>> /\ t \notin told
         /\ \A c \in Clicks : Has(c, t) => Starts(c, t)
    /\ \A c \in Clicks : Starts(c, t) =>
         drafts[t].status = "new" /\ \A d \in Clicks : Has(d, t) => d = c

(* It is taken out by the one handler that runs it.                         *)
RunsOnce(t) ==
    /\ Len(sent[t]) <= 1
    /\ sent[t] # <<>> => drafts[t].status = "gone" /\ \A c \in Clicks : ~Runs(c, t)
    /\ \A c \in Clicks : Runs(c, t) =>
         drafts[t].status = "gone" /\ \A d \in Clicks : Runs(d, t) => d = c

(* Or by one that cancels it.                                               *)
Unrun(t) == sent[t] = <<>> /\ \A c \in Clicks : ~Runs(c, t)
Cancelled(t) ==
    /\ t \in told => drafts[t].status = "gone"
    /\ t \in told \ late => Unrun(t)
    /\ \A c \in Clicks : Cancels(c, t) =>
         drafts[t].status = "gone" /\ (t \notin late => Unrun(t))

(* A confirmation shows what the entry has, and stays as long as it lives.  *)
ShowsParams(t) ==
    /\ drafts[t].status = "live" => \A c \in Clicks : Executes(c, t) => Confirmed(t)
    /\ t \notin resubmitted =>
         /\ \A card \in cards[t] : card.kind = "confirm" => card.shows = drafts[t].params
         /\ \A c \in Clicks : Executes(c, t) => click[c].shows = drafts[t].params
         /\ \A c \in Clicks : Runs(c, t) => click[c].params = click[c].shows
         /\ \A n \in DOMAIN sent[t] : sent[t][n].params = sent[t][n].shown

TokenAgrees(t) == StartsAlone(t) /\ RunsOnce(t) /\ Cancelled(t) /\ ShowsParams(t)

IInv == Shape /\ HandlersFit /\ \A t \in Tokens : TokenAgrees(t)
=============================================================================
