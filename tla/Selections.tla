------------------------------ MODULE Selections ------------------------------
(***************************************************************************)
(* Menus of what Codex offers (bot.rs): the skills, files and apps of       *)
(* /skills, /find and /apps (typed_input_controls), the plugins of /plugins *)
(* (plugin_browser_view) and the models of /model.  A menu is a list as it  *)
(* was read, behind a token; a card shows a page of it, and a click on a    *)
(* card carries the token and a place in the list (a model: its name).      *)
(* Cards stay on the screen while the lists change, the menus expire and    *)
(* other clicks are made.                                                   *)
(*                                                                          *)
(* The entries are numbers, in the order in which the code sorts them.      *)
(***************************************************************************)
EXTENDS Naturals, Sequences, FiniteSets

CONSTANTS
    Kinds,       \* of "skill", "app", "file", "plugin", "model": those explored
    Tokens,      \* menus (a new one each time: uuid)
    MaxEntries,  \* bound: the entries there can be
    PageSize,    \* entries of a page (25, or 10 plugins)
    Threads,     \* tasks the channel can be of
    MaxCards,    \* bound: cards on the screen
    MaxChanges   \* bound: changes of the lists and of the channel's task

Entries == 1..MaxEntries

VARIABLES
    listed,      \* Codex: each entry is "absent", "usable" or "unusable"
    thread,      \* the task of the channel
    menus,       \* typed_input_drafts, plugin_browsers: [status, kind, rows, usable, thread]
    cards,       \* Discord: the cards and open forms
    sending,     \* submitted forms under way: [pc, token, name, shown, thread]
    sent,        \* what was done: [token, kind, name, shown, thread]
    changes

vars == <<listed, thread, menus, cards, sending, sent, changes>>

NoMenu == [status |-> "none", kind |-> "none", rows |-> <<>>, usable |-> {}, thread |-> 0]

Init ==
    /\ listed \in [Entries -> {"absent", "usable", "unusable"}]
    /\ thread \in Threads
    /\ menus = [t \in Tokens |-> NoMenu]
    /\ cards = {} /\ sending = {} /\ sent = {} /\ changes = 0

-----------------------------------------------------------------------------
Sorted(S) ==
    CHOOSE f \in [1..Cardinality(S) -> S] : \A i, j \in DOMAIN f : i < j => f[i] < f[j]
Shown  == {n \in Entries : listed[n] # "absent"}
Usable == {n \in Entries : listed[n] = "usable"}

(* page_window: the page, between the first and the last.                   *)
Pages(total) == IF total = 0 THEN 1 ELSE (total + PageSize - 1) \div PageSize
Clamped(total, page) == IF page > Pages(total) THEN Pages(total) ELSE page
OnPage(rows, page) ==
    {i \in DOMAIN rows : i > (page - 1) * PageSize /\ i <= page * PageSize}

Option(index, name) == [index |-> index, name |-> name]
Options(rows, places) == {Option(i, rows[i]) : i \in places}

(* Mutant of Rows: the rows of a plugin list are read again for a page.     *)
RowsAgain(menu) == IF menu.kind = "plugin" THEN Sorted(Shown) ELSE menu.rows
(* The rows a place is looked up in.                                        *)
Rows(menu) == menu.rows

ListCard(token, kind, page, options) ==
    [view |-> "list", token |-> token, kind |-> kind, page |-> page, options |-> options,
     index |-> 0, name |-> 0]
EntryCard(view, card, option) ==
    [card EXCEPT !.view = view, !.options = {}, !.index = option.index, !.name = option.name]

PluginCard(token, rows, page) ==
    LET p == Clamped(Len(rows), page)
    IN  ListCard(token, "plugin", p, Options(rows, OnPage(rows, p)))

Post(card) ==
    /\ card \in cards \/ Cardinality(cards) < MaxCards
    /\ cards' = cards \cup {card}
Turn(old, card) == cards' = (cards \ {old}) \cup {card}

-----------------------------------------------------------------------------
(* The list, and with it the file that a place stands for, changes; or the  *)
(* channel gets another task.                                               *)
Change ==
    /\ changes < MaxChanges /\ changes' = changes + 1
    /\ \/ \E n \in Entries, s \in {"absent", "usable", "unusable"} :
            s # listed[n] /\ listed' = [listed EXCEPT ![n] = s] /\ UNCHANGED thread
       \/ thread' \in Threads \ {thread} /\ UNCHANGED listed
    /\ UNCHANGED <<menus, cards, sending, sent>>

Expire(token) ==
    /\ menus[token].status = "live"
    /\ menus' = [menus EXCEPT ![token].status = "expired"]
    /\ UNCHANGED <<listed, thread, cards, sending, sent, changes>>

Added(token, menu) ==
    [t \in Tokens |-> IF t = token THEN menu
                      ELSE IF menus[t].status = "expired" THEN [NoMenu EXCEPT !.status = "gone"]
                      ELSE menus[t]]

Menu(kind, rows) ==
    [status |-> "live", kind |-> kind, rows |-> rows, usable |-> Usable, thread |-> thread]

(* skills: a page of the usable ones; apps_directory, find_files: the       *)
(* usable ones of a page (of files, the first).  They are numbered from the *)
(* start of the page.                                                       *)
ListInputs(token, kind, page) ==
    /\ menus[token].status = "none" /\ (kind = "file" => page = 1)
    /\ LET all  == Sorted(IF kind = "skill" THEN Usable ELSE Shown)
           p    == Clamped(Len(all), page)
           rows == Sorted({all[i] : i \in OnPage(all, p)} \cap Usable)
       IN  /\ rows # <<>>
           /\ menus' = Added(token, Menu(kind, rows))
           /\ Post(ListCard(token, kind, p, Options(rows, DOMAIN rows)))
    /\ UNCHANGED <<listed, thread, sending, sent, changes>>

(* plugins: all of them, numbered from the start of the list.               *)
ListPlugins(token, page) ==
    /\ menus[token].status = "none"
    /\ LET rows == Sorted(Shown) IN
       /\ menus' = Added(token, Menu("plugin", rows))
       /\ Post(PluginCard(token, rows, page))
    /\ UNCHANGED <<listed, thread, sending, sent, changes>>

(* models: a place is the name itself.                                      *)
ListModels(token) ==
    /\ menus[token].status = "none" /\ Shown # {}
    /\ menus' = [menus EXCEPT ![token].status = "gone"]
    /\ Post(ListCard(token, "model", 1, {Option(n, n) : n \in Shown}))
    /\ UNCHANGED <<listed, thread, sending, sent, changes>>

Live(token) == menus[token].status = "live"

(* begin_typed_input, show_plugin_detail: the form, or the plugin's card,   *)
(* which names the row the place stands for.                                *)
Choose(card, option) ==
    /\ card.view = "list" /\ option \in card.options /\ card.kind # "model"
    /\ Live(card.token)
    /\ LET rows == Rows(menus[card.token]) IN
       /\ option.index \in DOMAIN rows
       /\ IF card.kind = "plugin"
          THEN Post(EntryCard("plugin", card, Option(option.index, rows[option.index])))
          ELSE Post(EntryCard("form", card, option))
    /\ UNCHANGED <<listed, thread, menus, sending, sent, changes>>

(* show_plugin_browser_page_number, from the buttons and from Back.         *)
TurnPage(card, page) ==
    /\ card.kind = "plugin" /\ Live(card.token)
    /\ IF card.view = "list"
       THEN page \in {card.page - 1, card.page + 1} \cap 1..Pages(Len(menus[card.token].rows))
       ELSE page = (card.index - 1) \div PageSize + 1
    /\ Turn(card, PluginCard(card.token, Rows(menus[card.token]), page))
    /\ UNCHANGED <<listed, thread, menus, sending, sent, changes>>

Effect(token, kind, name, shown, th) ==
    [token |-> token, kind |-> kind, name |-> name, shown |-> shown, thread |-> th]

(* begin_plugin_mutation: an action that names the row, when the list said  *)
(* that this may be done with it (plugin_available_mutation).               *)
Mutate(card) ==
    /\ card.view = "plugin" /\ Live(card.token)
    /\ LET rows == Rows(menus[card.token]) IN
       /\ card.index \in DOMAIN rows
       /\ rows[card.index] \in menus[card.token].usable
       /\ sent' = sent \cup {Effect(card.token, "plugin", rows[card.index], card.name, 0)}
    /\ UNCHANGED <<listed, thread, menus, cards, sending, changes>>

(* apply_model_selection: the list is read again.                           *)
PickModel(card, option) ==
    /\ card.kind = "model" /\ option \in card.options
    /\ option.index \in Shown
    /\ sent' = sent \cup {Effect(card.token, "model", option.index, option.name, 0)}
    /\ UNCHANGED <<listed, thread, menus, cards, sending, changes>>

(* dispatch_typed_input: the menu is taken, whatever comes after.           *)
Submit(card) ==
    /\ card.view = "form"
    /\ cards' = cards \ {card}
    /\ menus' = [menus EXCEPT ![card.token].status = IF @ = "none" THEN @ ELSE "gone"]
    /\ sending' = IF ~Live(card.token) THEN sending
                  ELSE sending \cup
                    {[pc |-> "task", token |-> card.token, thread |-> menus[card.token].thread,
                      name |-> Rows(menus[card.token])[card.index], shown |-> card.name]}
    /\ UNCHANGED <<listed, thread, sent, changes>>

(* After the reply to the form: is it still the task's channel?             *)
CheckTask(s) ==
    /\ s.pc = "task"
    /\ sending' = (sending \ {s}) \cup (IF thread = s.thread THEN {[s EXCEPT !.pc = "file"]} ELSE {})
    /\ UNCHANGED <<listed, thread, menus, cards, sent, changes>>

(* validate_workspace_file: is the file still there?  Then it is sent to    *)
(* the task that was read.                                                  *)
CheckFile(s) ==
    /\ s.pc = "file"
    /\ sending' = (sending \ {s}) \cup
         (IF menus[s.token].kind = "file" /\ listed[s.name] = "absent" THEN {}
          ELSE {[s EXCEPT !.pc = "send"]})
    /\ UNCHANGED <<listed, thread, menus, cards, sent, changes>>
Dispatch(s) ==
    /\ s.pc = "send"
    /\ sending' = sending \ {s}
    /\ sent' = sent \cup {Effect(s.token, menus[s.token].kind, s.name, s.shown, s.thread)}
    /\ UNCHANGED <<listed, thread, menus, cards, changes>>

Next ==
    \/ Change
    \/ \E t \in Tokens :
        \/ Expire(t)
        \/ \E p \in 1..MaxEntries :
            \/ "plugin" \in Kinds /\ ListPlugins(t, p)
            \/ \E k \in Kinds \cap {"skill", "app", "file"} : ListInputs(t, k, p)
        \/ "model" \in Kinds /\ ListModels(t)
    \/ \E card \in cards :
        \/ \E option \in card.options : Choose(card, option) \/ PickModel(card, option)
        \/ \E p \in 1..MaxEntries : TurnPage(card, p)
        \/ Mutate(card)
        \/ Submit(card)
    \/ \E s \in sending : CheckTask(s) \/ CheckFile(s) \/ Dispatch(s)

Spec == Init /\ [][Next]_vars

-----------------------------------------------------------------------------
TypeOK ==
    /\ \A n \in Entries : listed[n] \in {"absent", "usable", "unusable"}
    /\ \A t \in Tokens : menus[t].status \in {"none", "live", "expired", "gone"}
    /\ Cardinality(cards) <= MaxCards
    /\ \A s \in sending : s.pc \in {"task", "file", "send"}

(* What is done is what the card showed where it was clicked, for the task  *)
(* that the menu was made in; a menu of inputs is used at most once.        *)
RunsWhatItShows ==
    /\ \A e \in sent : e.name = e.shown
    /\ \A s \in sending : s.name = s.shown
    /\ \A e, f \in sent : e.token = f.token /\ e.kind \in {"skill", "app", "file"} => e = f
    /\ \A t \in Tokens : menus[t].status = "live" =>
         (\A e \in sent : e.token = t => e.kind = "plugin")

(* The card of a plugin is that of its row, and Back leads to the page that *)
(* has it; a page has the rows that a click on it would find.               *)
PageAgrees ==
    \A card \in cards : card.kind = "plugin" /\ Live(card.token) =>
        LET rows == menus[card.token].rows IN
        IF card.view = "list"
        THEN \A o \in card.options : rows[o.index] = o.name
        ELSE /\ rows[card.index] = card.name
             /\ Option(card.index, card.name) \in
                  PluginCard(card.token, rows, (card.index - 1) \div PageSize + 1).options
-----------------------------------------------------------------------------
(* The invariant that carries both: what the cards, the forms under way and *)
(* the menus know of each other.                                            *)
Inputs   == {"skill", "app", "file"}
MenuSet  == [status : {"none", "live", "expired", "gone"},
             kind : Inputs \cup {"plugin", "none"}, rows : Seq(Entries),
             usable : SUBSET Entries, thread : Threads \cup {0}]
CardSet  == [view : {"list", "plugin", "form"}, token : Tokens,
             kind : Inputs \cup {"plugin", "model"}, page : Nat,
             options : SUBSET [index : Nat, name : Entries],
             index : Nat, name : Nat]
Flights  == [pc : {"task", "file", "send"}, token : Tokens, thread : Threads \cup {0},
             name : Entries, shown : Nat]
Few(C) == IsFiniteSet(C) /\ Cardinality(C) <= MaxCards
Shape ==
    /\ listed \in [Entries -> {"absent", "usable", "unusable"}] /\ thread \in Threads
    /\ menus \in [Tokens -> MenuSet]
    /\ cards \subseteq CardSet /\ Few(cards)
    /\ sending \subseteq Flights

(* A card and the menu behind it: as long as the menu is there, its rows    *)
(* are those the card was made of.                                          *)
Backed(card) ==
    LET menu == menus[card.token]
    IN  /\ menu.status # "none"
        /\ card.view = "plugin" => card.kind = "plugin"
        /\ card.view = "form" => card.kind \in Inputs
        /\ card.kind = "model" =>
             /\ card.view = "list" /\ menu.status = "gone" /\ menu.kind = "none"
             /\ \A o \in card.options : o.index = o.name
        /\ menu.status = "live" =>
             /\ menu.kind = card.kind
             /\ IF card.view = "list"
                THEN \A o \in card.options :
                       o.index \in DOMAIN menu.rows /\ menu.rows[o.index] = o.name
                ELSE card.index \in DOMAIN menu.rows /\ menu.rows[card.index] = card.name
MenusFresh == \A t \in Tokens : menus[t].status = "none" => menus[t].kind = "none"
CardsAgree == \A card \in cards : Backed(card)

(* A form under way has taken its menu.                                     *)
Taken(s) ==
    /\ menus[s.token].status = "gone" /\ menus[s.token].kind \in Inputs
    /\ s.name = s.shown
FormsAgree == \A s \in sending : Taken(s)

(* What was done is what was shown; a menu of inputs is gone by then, one   *)
(* of models was never kept, and one of plugins stays.                      *)
Done(e) ==
    LET menu == menus[e.token]
    IN  /\ e.token \in Tokens /\ e.kind \in Inputs \cup {"plugin", "model"}
        /\ e.name = e.shown /\ menu.status # "none"
        /\ e.kind = "model" => menu.status = "gone" /\ menu.kind = "none"
        /\ e.kind \in Inputs => menu.status = "gone" /\ menu.kind \in Inputs
        /\ e.kind = "plugin" /\ menu.status = "live" => menu.kind = "plugin"
SentAgree == \A e \in sent : Done(e)

(* A menu of inputs is taken once.                                          *)
TakenOnce ==
    /\ \A r, s \in sending : r.token = s.token => r = s
    /\ \A r \in sending, e \in sent : r.token # e.token
    /\ \A e, f \in sent : e.token = f.token /\ e.kind \in Inputs => e = f

IInv == Shape /\ MenusFresh /\ CardsAgree /\ FormsAgree /\ SentAgree /\ TakenOnce
=============================================================================
