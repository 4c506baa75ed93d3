------------------------------- MODULE ToolCalls -------------------------------
(***************************************************************************)
(* The tools the relay offers to Codex (host_broker.rs): a turn asks for    *)
(* the turns of a task, page by page, with the cursor of the last answer.   *)
(* A call is checked against the turn of the calling task and against the   *)
(* task asked for, waits for Codex within a deadline, and its answer is cut *)
(* until it fits.  The task goes on meanwhile.                              *)
(*                                                                          *)
(* Turns are numbered; a turn is as long as the items it has, and so is an  *)
(* answer.                                                                  *)
(***************************************************************************)
EXTENDS Naturals, FiniteSets, Sequences

CONSTANTS
    Limit,      \* turnLimit of the calls
    MaxBytes,   \* max_output_bytes
    MaxItems,   \* bound: items of a turn
    MaxTurns,   \* bound: turns of the task
    MaxCalls    \* bound: calls

VARIABLES
    turns,      \* Codex: how many items each turn of the task has
    live,       \* Codex: whether the calling turn still runs
    row,        \* the row of the calling task: "current", "old" or "none"
    target,     \* the row of the task asked for: "clean", "dirty" or "none"
    call,       \* the call: [pc, cursor, value]
    walk,       \* the caller: [from, cursor, got, warned, done] of its walk
    calls       \* calls so far

vars == <<turns, live, row, target, call, walk, calls>>

None    == 0   \* no cursor
Nothing == [turns |-> <<>>, nextCursor |-> None, truncated |-> FALSE]
Idle    == [pc |-> "idle", cursor |-> None, value |-> Nothing]
Fresh   == [from |-> 0, cursor |-> None, got |-> {}, warned |-> FALSE, done |-> FALSE]

Init ==
    /\ \E n \in 0..MaxTurns : turns \in [1..n -> 0..MaxItems]
    /\ live = TRUE
    /\ row \in {"current", "old", "none"}
    /\ target \in {"clean", "dirty", "none"}
    /\ call = Idle /\ walk = Fresh /\ calls = 0

-----------------------------------------------------------------------------
(* thread/turns/list: the newest first, and where the next page starts.     *)
Page(cursor) ==
    LET first == IF cursor = None THEN Len(turns) ELSE cursor
        much  == IF first < Limit THEN first ELSE Limit
    IN  [turns |-> [n \in 1..much |-> [id |-> first - n + 1,
                                       items |-> turns[first - n + 1]]],
         nextCursor |-> first - much, truncated |-> FALSE]

(* bounded_json_text, pop_largest_array: half of the longest array goes,    *)
(* the list of turns before the items of one, until the text fits.          *)
Bytes(value) ==
    LET upTo[n \in 0..Len(value.turns)] ==
            IF n = 0 THEN 1 ELSE upTo[n - 1] + 1 + value.turns[n].items
    IN  upTo[Len(value.turns)] + (IF value.truncated THEN 1 ELSE 0)
Fits(value) == Bytes(value) <= MaxBytes
Longest(value) ==
    {n \in DOMAIN value.turns :
        /\ \A m \in DOMAIN value.turns : value.turns[m].items <= value.turns[n].items
        /\ \A m \in 1..(n - 1) : value.turns[m].items < value.turns[n].items}
(* Mutant of Cut: the answer does not say that it was cut.                  *)
CutSilently(value) ==
    LET list == value.turns
        n    == CHOOSE n \in Longest(value) : TRUE
    IN  [value EXCEPT
           !.turns = IF list[n].items <= Len(list)
                     THEN SubSeq(list, 1, Len(list) \div 2)
                     ELSE [list EXCEPT ![n].items = @ \div 2]]

Cut(value) ==
    LET list == value.turns
        n    == CHOOSE n \in Longest(value) : TRUE
    IN  [value EXCEPT
           !.truncated = TRUE,
           !.turns = IF list[n].items <= Len(list)
                     THEN SubSeq(list, 1, Len(list) \div 2)
                     ELSE [list EXCEPT ![n].items = @ \div 2]]

-----------------------------------------------------------------------------
(* The task goes on, and so does the calling one.                           *)
TurnBegins ==
    /\ Len(turns) < MaxTurns
    /\ \E items \in 0..MaxItems : turns' = Append(turns, items)
    /\ UNCHANGED <<live, row, target, call, walk, calls>>
TargetChanges ==
    /\ target' \in {"clean", "dirty", "none"} \ {target}
    /\ UNCHANGED <<turns, live, row, call, walk, calls>>
CallerEnds ==
    /\ live /\ live' = FALSE
    /\ UNCHANGED <<turns, row, target, call, walk, calls>>

(* item/tool/call, from where the caller stands in its walk.                *)
Ask ==
    /\ call.pc = "idle" /\ live /\ calls < MaxCalls
    /\ calls' = calls + 1
    /\ walk' = IF walk.done THEN Fresh ELSE walk
    /\ call' = [Idle EXCEPT !.pc = "origin", !.cursor = walk'.cursor]
    /\ UNCHANGED <<turns, live, row, target>>

Failed == call' = Idle /\ UNCHANGED walk

(* handle_request: a row of another turn is not the last word.              *)
Origin ==
    /\ call.pc = "origin"
    /\ \/ row = "current" /\ call' = [call EXCEPT !.pc = "target"] /\ UNCHANGED walk
       \/ row = "old" /\ live /\ call' = [call EXCEPT !.pc = "target"] /\ UNCHANGED walk
       \/ row # "current" /\ Failed
    /\ UNCHANGED <<turns, live, row, target, calls>>

(* execute: the task is mirrored and not dirty.                             *)
Target ==
    /\ call.pc = "target"
    /\ IF target = "clean" THEN call' = [call EXCEPT !.pc = "list"] /\ UNCHANGED walk
       ELSE Failed
    /\ UNCHANGED <<turns, live, row, target, calls>>

List ==
    /\ call.pc = "list"
    /\ \/ call' = [call EXCEPT !.pc = "bound", !.value = Page(call.cursor)]
          /\ UNCHANGED walk
       \/ Failed   \* refused by Codex, or after the deadline
    /\ UNCHANGED <<turns, live, row, target, calls>>

Shorten ==
    /\ call.pc = "bound" /\ ~Fits(call.value)
    /\ IF call.value.turns = <<>> THEN Failed
       ELSE call' = [call EXCEPT !.value = Cut(call.value)] /\ UNCHANGED walk
    /\ UNCHANGED <<turns, live, row, target, calls>>

(* The answer, and what the caller makes of it.                             *)
Answer ==
    /\ call.pc = "bound" /\ Fits(call.value)
    /\ call' = Idle
    /\ LET value == call.value
           newest == IF walk.cursor = None /\ walk.got = {} THEN
                       value.nextCursor + (IF value.truncated THEN 0 ELSE Len(value.turns))
                     ELSE walk.from
       IN  walk' = [from |-> newest, cursor |-> value.nextCursor,
                    got |-> walk.got \cup {value.turns[n].id : n \in DOMAIN value.turns},
                    warned |-> walk.warned \/ value.truncated,
                    done |-> value.nextCursor = None]
    /\ UNCHANGED <<turns, live, row, target, calls>>

Next ==
    \/ TurnBegins \/ TargetChanges \/ CallerEnds
    \/ Ask \/ Origin \/ Target \/ List \/ Shorten \/ Answer

Spec == Init /\ [][Next]_vars

-----------------------------------------------------------------------------
TypeOK ==
    /\ call.pc \in {"idle", "origin", "target", "list", "bound"}
    /\ call.cursor \in 0..MaxTurns /\ walk.cursor \in 0..MaxTurns
    /\ walk.got \subseteq DOMAIN turns
    /\ call.pc = "bound" => Len(call.value.turns) <= Limit

(* A caller that follows the cursors to the end has got every turn there    *)
(* was when it began, once for all pages together, though turns begin while *)
(* it reads: or one of the answers has said that it was cut.  (The cursor   *)
(* of a cut answer is that of the whole page: the turns cut off are behind  *)
(* it.)                                                                     *)
CursorsSkipNothing ==
    ~walk.warned =>
        {n \in DOMAIN turns : walk.cursor < n /\ n <= walk.from} \subseteq walk.got

-----------------------------------------------------------------------------
(* What every state of a walk keeps.                                        *)
Entry == [id : DOMAIN turns, items : Nat]
Value == [turns : Seq(Entry), nextCursor : 0..Len(turns), truncated : BOOLEAN]
Shape ==
    /\ turns \in Seq(Nat) /\ Len(turns) <= MaxTurns
    /\ call \in [pc : {"idle", "origin", "target", "list", "bound"},
                 cursor : 0..Len(turns), value : Value]
    /\ Len(call.value.turns) <= Limit
    /\ walk \in [from : 0..Len(turns), cursor : 0..Len(turns), got : SUBSET DOMAIN turns,
                 warned : BOOLEAN, done : BOOLEAN]

(* A call goes on where the walk stands, and a walk that has no cursor and  *)
(* is not done has not begun.                                               *)
CallFollows ==
    call.pc # "idle" => call.cursor = walk.cursor /\ ~walk.done
Begins ==
    walk.cursor = None /\ ~walk.done => walk.got = {}

(* A whole page ends where the call's cursor stands, or at a turn that was  *)
(* the newest, and begins after its own.                                    *)
Ids(value) == {value.turns[n].id : n \in DOMAIN value.turns}
WholePage ==
    call.pc = "bound" /\ ~call.value.truncated =>
        LET first == call.value.nextCursor + Len(call.value.turns)
        IN  /\ first <= Len(turns)
            /\ call.cursor # None => first = call.cursor
            /\ Ids(call.value) = {n \in 1..first : call.value.nextCursor < n}

IInv == Shape /\ CallFollows /\ Begins /\ WholePage /\ CursorsSkipNothing
=============================================================================
