------------------------------- MODULE Browsers -------------------------------
(***************************************************************************)
(* The browser of the tasks (show_tasks, page_tasks in bot.rs): one message *)
(* with Previous and Next, and an entry of task_browsers that remembers the *)
(* page and the cursor of every page visited.  A click copies the entry,    *)
(* asks Codex for the page, writes the copy back as a whole and then edits  *)
(* the message, with nothing that keeps two clicks apart; the list that is  *)
(* browsed changes meanwhile.                                               *)
(*                                                                          *)
(* The cursor of a page is its number, so the cursors are as good as how    *)
(* many there are.                                                          *)
(***************************************************************************)
EXTENDS Naturals, FiniteSets

CONSTANTS
    Clicks,     \* interactions under way at once
    MaxPages,   \* bound: pages the list grows to
    MaxClicks   \* bound: clicks

VARIABLES
    listed,     \* Codex: the pages the list has now
    browser,    \* task_browsers: [status, cursors, page]
    shown,      \* Discord: [there, page, next] of the message
    click,      \* the handlers: [pc, copy, next, alone]
    count,      \* clicks so far
    crossed     \* observed: the last click was not alone, or not shown

vars == <<listed, browser, shown, click, count, crossed>>

Gone == [status |-> "gone", cursors |-> 1, page |-> 0]
At(pc, copy, alone) == [pc |-> pc, copy |-> copy, next |-> FALSE, alone |-> alone]
Idle == At("idle", Gone, TRUE)

Init ==
    /\ listed \in 1..MaxPages
    /\ browser = Gone
    /\ shown = [there |-> FALSE, page |-> 0, next |-> FALSE]
    /\ click = [c \in Clicks |-> Idle]
    /\ count = 0 /\ crossed = FALSE

-----------------------------------------------------------------------------
(* thread_list with the cursor of a page: is there a next one?              *)
HasNext(page) == page + 1 < listed

(* Mutant of Viewed: the cursor of the next page is not kept.               *)
ViewedWithout(copy) == copy

(* task_page_view, and the cursor it adds to those visited.                 *)
Viewed(copy) ==
    IF HasNext(copy.page) /\ copy.cursors = copy.page + 1
    THEN [copy EXCEPT !.cursors = @ + 1] ELSE copy

Alone(c) == \A d \in Clicks \ {c} : click[d].pc = "idle"
Known    == browser.status # "gone"

ListChanges ==
    /\ listed' \in (1..MaxPages) \ {listed}
    /\ UNCHANGED <<browser, shown, click, count, crossed>>

(* /tasks with a page: one page after the other from the first, as far as   *)
(* there is a next one, and the last one once more.                         *)
ShowTasks(c, wanted) ==
    /\ ~Known /\ ~shown.there /\ Alone(c) /\ click[c].pc = "idle"
    /\ click' = [click EXCEPT ![c] =
                    At("walk", [status |-> "live", cursors |-> 1, page |-> wanted], TRUE)]
    /\ UNCHANGED <<listed, browser, shown, count, crossed>>
Walk(c) ==
    /\ click[c].pc = "walk"
    /\ LET copy == click[c].copy
           wanted == copy.page
           at == copy.cursors - 1
       IN  IF at < wanted /\ HasNext(at)
           THEN click' = [click EXCEPT ![c].copy.cursors = @ + 1]
           ELSE click' = [click EXCEPT ![c].copy.page = at, ![c].pc = "view"]
    /\ UNCHANGED <<listed, browser, shown, count, crossed>>

(* page_tasks: what the message offers.                                     *)
Press(c, direction) ==
    /\ shown.there /\ click[c].pc = "idle" /\ count < MaxClicks
    /\ count' = count + 1
    /\ direction = "next" => shown.next
    /\ direction = "prev" => shown.page > 0
    /\ LET page == IF direction = "next" THEN browser.page + 1
                   ELSE IF browser.page > 0 THEN browser.page - 1 ELSE 0
       IN  IF browser.status # "live"
              \/ (direction = "next" /\ browser.page + 1 >= browser.cursors)
           THEN UNCHANGED <<click, crossed>>
           ELSE /\ click' = [d \in Clicks |->
                    IF d = c THEN At("view", [browser EXCEPT !.page = page], Alone(c))
                    ELSE [click[d] EXCEPT !.alone = FALSE]]
                /\ crossed' = (crossed \/ ~Alone(c))
    /\ UNCHANGED <<listed, browser, shown>>

(* Codex answers, and the entry is written; or it does not.                 *)
View(c) ==
    /\ click[c].pc = "view"
    /\ \/ LET copy == Viewed(click[c].copy)
          IN  /\ browser' = copy
              /\ click' = [click EXCEPT ![c] = [@ EXCEPT !.pc = "edit", !.copy = copy,
                                                         !.next = HasNext(copy.page)]]
       \/ click' = [click EXCEPT ![c] = Idle] /\ UNCHANGED browser
    /\ UNCHANGED <<listed, shown, count, crossed>>

(* Discord shows the page; or it does not.                                  *)
Edit(c) ==
    /\ click[c].pc = "edit"
    /\ click' = [click EXCEPT ![c] = Idle]
    /\ \/ /\ shown' = [there |-> TRUE, page |-> click[c].copy.page,
                       next |-> click[c].next]
          /\ crossed' = (crossed /\ ~click[c].alone)
       \/ crossed' = TRUE /\ UNCHANGED shown
    /\ UNCHANGED <<listed, browser, count>>

(* Twenty minutes; the next /tasks drops the entry.  A click under way puts *)
(* its copy back as it was.                                                 *)
Expire ==
    /\ browser.status = "live"
    /\ browser' = [browser EXCEPT !.status = "expired"]
    /\ click' = [c \in Clicks |-> [click[c] EXCEPT !.copy.status =
                    IF @ = "live" THEN "expired" ELSE @]]
    /\ UNCHANGED <<listed, shown, count, crossed>>
Sweep ==
    /\ browser.status = "expired"
    /\ browser' = [browser EXCEPT !.status = "gone"]
    /\ UNCHANGED <<listed, shown, click, count, crossed>>

Next ==
    \/ ListChanges \/ Expire \/ Sweep
    \/ \E c \in Clicks :
        \/ \E wanted \in 0..MaxPages : ShowTasks(c, wanted)
        \/ \E direction \in {"next", "prev"} : Press(c, direction)
        \/ Walk(c) \/ View(c) \/ Edit(c)

Spec == Init /\ [][Next]_vars

-----------------------------------------------------------------------------
TypeOK ==
    /\ browser.status \in {"live", "expired", "gone"}
    /\ browser.cursors \in 1..MaxPages /\ browser.page < browser.cursors
    /\ shown.page \in 0..(MaxPages - 1)
    /\ \A c \in Clicks : click[c].pc \in {"idle", "walk", "view", "edit"}

(* When no click is under way, the page on the screen is the one the entry  *)
(* is at, and Next leads to the page after it, though the list has grown or *)
(* shrunk between the clicks.  Except (observed) when the last click was     *)
(* made while another was under way, or its page could not be shown: until  *)
(* a click on its own, they count from a page nobody sees.  (As long as the entry  *)
(* has not expired.)                                                        *)
PageAgrees ==
    ~crossed /\ shown.there /\ browser.status = "live"
      /\ (\A c \in Clicks : click[c].pc = "idle") =>
        /\ shown.page = browser.page
        /\ shown.next => browser.page + 1 < browser.cursors

-----------------------------------------------------------------------------
(* Why it holds.  An entry, or a copy of one, is at a page it has a cursor  *)
(* of.                                                                      *)
Visited(b) == b.page < b.cursors
Entry   == [status : {"live", "expired", "gone"}, cursors : 1..MaxPages, page : Nat]
Handler == [pc : {"idle", "walk", "view", "edit"}, copy : Entry, next : BOOLEAN, alone : BOOLEAN]
Shape ==
    /\ listed \in 1..MaxPages
    /\ browser \in Entry /\ Visited(browser)
    /\ shown \in [there : BOOLEAN, page : 0..(MaxPages - 1), next : BOOLEAN]
    /\ click \in [Clicks -> Handler]
    /\ \A c \in Clicks : click[c].pc \in {"view", "edit"} => Visited(click[c].copy)
    /\ crossed \in BOOLEAN

(* A click that was alone is, and one that was not is known of.             *)
AloneIsAlone ==
    \A c \in Clicks : click[c].pc # "idle" =>
        IF click[c].alone THEN Alone(c) ELSE crossed

(* A page about to be shown is the entry's; else the one on the screen is.  *)
EditAgrees ==
    \A c \in Clicks : click[c].pc = "edit" /\ click[c].alone =>
        /\ browser.page = click[c].copy.page /\ browser.cursors = click[c].copy.cursors
        /\ click[c].next => browser.page + 1 < browser.cursors
ScreenAgrees ==
    ~crossed /\ shown.there /\ browser.status = "live"
      /\ (\A c \in Clicks : click[c].pc # "edit") =>
        /\ shown.page = browser.page
        /\ shown.next => browser.page + 1 < browser.cursors

IInv == Shape /\ AloneIsAlone /\ EditAgrees /\ ScreenAgrees
=============================================================================
