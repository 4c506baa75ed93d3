------------------------------- MODULE Provision -------------------------------
(***************************************************************************)
(* The layout of the guild (provision.rs).  Nothing of it is stored: each   *)
(* time the gateway is ready the relay lists the channels, takes what has   *)
(* the right name and creates the rest, and each time a task changes its    *)
(* state it lists them again, looks for a category of that state with room  *)
(* and creates one when there is none.  A listing is old as soon as         *)
(* another handler creates something, and the relay may die between any     *)
(* two of the calls.                                                        *)
(***************************************************************************)
EXTENDS Naturals, FiniteSets, Sequences

CONSTANTS
    Setups,       \* handlers of a ready gateway
    Movers,       \* handlers that place a channel
    Room,         \* channels a category takes (50)
    MaxMonths,    \* bound: months that pass
    MaxChannels,  \* bound: channels ever created
    MaxFaults     \* bound: refusals, crashes and deletions by the owner

Handlers == Setups \cup Movers

VARIABLES
    channels,     \* Discord: [name, shard, parent, alive] of every channel
    dashboards,   \* Discord: the control cards in the new-task channel
    month,        \* the month a DONE category is named for
    h,            \* the handlers: [pc, step, seen, control, base, target]
    faults,       \* faults so far
    raced,        \* observed: names created twice from two old listings
    gap           \* observed: names whose categories the owner has thinned out

vars == <<channels, dashboards, month, h, faults, raced, gap>>

None == 0   \* no channel

(* The categories of the states; DONE has one for every month.              *)
Done(m)   == <<"done", m>>
Running   == <<"running", 0>>
Control   == <<"control", 0>>
NewTask   == <<"new-task", 0>>
Task      == <<"task", 0>>

Idle == [pc |-> "idle", step |-> 1, seen |-> {}, control |-> None,
         base |-> Task, target |-> None]

Init ==
    /\ channels = <<>> /\ dashboards = 0 /\ month = 1
    /\ h = [p \in Handlers |-> Idle]
    /\ faults = 0 /\ raced = {} /\ gap = {}

-----------------------------------------------------------------------------
Alive(c)    == c \in DOMAIN channels /\ channels[c].alive
(* What a handler knows: its listing, and what it has created itself.       *)
Listed(p)   == h[p].seen
(* Mutant of Named: only the channels that are in a category are looked at.  *)
NamedFresh(p, base, shard) ==
    {c \in {c \in Listed(p) : channels[c].name = base /\ channels[c].shard = shard} :
        channels[c].parent # None}

Named(p, base, shard) ==
    {c \in Listed(p) : channels[c].name = base /\ channels[c].shard = shard}
Of(p, base) == {c \in Listed(p) : channels[c].name = base}
Children(c) == {d \in DOMAIN channels : channels[d].alive /\ channels[d].parent = c}
HasRoom(p, c) == Cardinality(Children(c) \cap Listed(p)) < Room

(* ensure_layout, in its order: name, and whether it goes under CONTROL.    *)
Layout(m) == <<Control, Running, Done(m), NewTask>>

Same(base, shard) ==
    {c \in DOMAIN channels : channels[c].alive /\ channels[c].name = base
                             /\ channels[c].shard = shard}
Creates(p, base, shard, parent) ==
    /\ Len(channels) < MaxChannels
    /\ channels' = Append(channels, [name |-> base, shard |-> shard,
                                     parent |-> parent, alive |-> TRUE])
    /\ raced' = IF Same(base, shard) # {} /\ Same(base, shard) \cap Listed(p) = {}
                THEN raced \cup {base} ELSE raced
Fault == faults < MaxFaults /\ faults' = faults + 1
GiveUp(p) == h' = [h EXCEPT ![p] = Idle]

-----------------------------------------------------------------------------
(* guild.channels                                                           *)
Lists(p, base) ==
    /\ h[p].pc = "idle"
    /\ h' = [h EXCEPT ![p] = [Idle EXCEPT !.pc = "layout", !.base = base,
                                          !.seen = {c \in DOMAIN channels : Alive(c)}]]
    /\ UNCHANGED <<channels, dashboards, month, faults, raced, gap>>

Ready(p) == p \in Setups /\ Lists(p, Done(month))

(* ensure_channel, for the next name of the layout: one that has the name,  *)
(* put under its category again, or a new one.                              *)
EnsureChannel(p) ==
    /\ h[p].pc = "layout" /\ p \in Setups
    /\ LET base   == Layout(h[p].base[2])[h[p].step]
           parent == IF base = NewTask THEN h[p].control ELSE None
           Got(c) ==
             h' = [h EXCEPT
               ![p].step = IF base = NewTask THEN @ ELSE @ + 1,
               ![p].pc = IF base = NewTask THEN "dashboard" ELSE @,
               ![p].control = IF base = Control THEN c ELSE @,
               ![p].target = c,
               ![p].seen = @ \cup {c}]
       IN  \/ \E c \in Named(p, base, 1) :
                /\ UNCHANGED raced
                /\ IF ~Alive(c) \/ (parent # None /\ ~Alive(parent))
                   THEN GiveUp(p) /\ UNCHANGED channels
                   ELSE /\ channels' = [channels EXCEPT ![c].parent =
                                          IF parent = None THEN @ ELSE parent]
                        /\ Got(c)
           \/ /\ Named(p, base, 1) = {}
              /\ Creates(p, base, 1, parent) /\ Got(Len(channels) + 1)
    /\ UNCHANGED <<dashboards, month, faults, gap>>

(* ensure_control_dashboard: reads the last messages, edits or sends.       *)
ReadDashboard(p) ==
    /\ h[p].pc = "dashboard"
    /\ IF dashboards > 0 THEN GiveUp(p)
       ELSE h' = [h EXCEPT ![p].pc = "send"]
    /\ UNCHANGED <<channels, dashboards, month, faults, raced, gap>>
SendDashboard(p) ==
    /\ h[p].pc = "send" /\ GiveUp(p)
    /\ dashboards' = dashboards + 1
    /\ raced' = IF dashboards > 0 THEN raced \cup {NewTask} ELSE raced
    /\ UNCHANGED <<channels, month, faults, gap>>

-----------------------------------------------------------------------------
(* target_category_for_state: the first category of the state with room, or *)
(* one more, numbered by how many there are.                                *)
Move(p) ==
    /\ p \in Movers
    /\ \E base \in {Running, Done(month)} : Lists(p, base)

FindCategory(p) ==
    /\ h[p].pc = "layout" /\ p \in Movers
    /\ LET open == {c \in Of(p, h[p].base) : HasRoom(p, c)}
           first == {c \in open : \A d \in open : channels[c].shard <= channels[d].shard}
       IN  \/ \E c \in first :
                /\ h' = [h EXCEPT ![p].pc = "place", ![p].target = c]
                /\ UNCHANGED <<channels, raced>>
           \/ /\ open = {}
              /\ Creates(p, h[p].base, Cardinality(Of(p, h[p].base)) + 1, None)
              /\ h' = [h EXCEPT ![p].pc = "place", ![p].target = Len(channels) + 1]
    /\ UNCHANGED <<dashboards, month, faults, gap>>

(* A task channel, new or moved: refused by a category that is full or gone. *)
Place(p) ==
    /\ h[p].pc = "place" /\ GiveUp(p)
    /\ LET c == h[p].target
       IN  IF ~Alive(c) \/ Cardinality(Children(c)) >= Room
           THEN UNCHANGED channels
           ELSE \/ /\ Len(channels) < MaxChannels
                   /\ channels' = Append(channels, [name |-> Task, shard |-> 1,
                                                    parent |-> c, alive |-> TRUE])
                \/ \E d \in DOMAIN channels :
                     /\ Alive(d) /\ channels[d].name = Task
                     /\ channels' = [channels EXCEPT ![d].parent = c]
    /\ UNCHANGED <<dashboards, month, faults, raced, gap>>

-----------------------------------------------------------------------------
(* A call is refused, and the handler returns.                              *)
Refused(p) ==
    /\ h[p].pc # "idle" /\ Fault /\ GiveUp(p)
    /\ UNCHANGED <<channels, dashboards, month, raced, gap>>

Crash ==
    /\ \E p \in Handlers : h[p].pc # "idle"
    /\ Fault
    /\ h' = [p \in Handlers |-> Idle]
    /\ UNCHANGED <<channels, dashboards, month, raced, gap>>

(* The owner deletes a category; its channels stay, under none.             *)
OwnerDeletes(c) ==
    /\ Alive(c) /\ channels[c].name \in {Running, Done(month)} /\ Fault
    /\ channels' = [d \in DOMAIN channels |->
                      IF d = c THEN [channels[d] EXCEPT !.alive = FALSE]
                      ELSE IF channels[d].parent = c
                           THEN [channels[d] EXCEPT !.parent = None] ELSE channels[d]]
    /\ gap' = gap \cup {channels[c].name}
    /\ UNCHANGED <<dashboards, month, h, raced>>

MonthEnds ==
    /\ month < MaxMonths /\ month' = month + 1
    /\ UNCHANGED <<channels, dashboards, h, faults, raced, gap>>

Next ==
    \/ \E p \in Handlers :
        \/ Ready(p) \/ EnsureChannel(p) \/ ReadDashboard(p) \/ SendDashboard(p)
        \/ Move(p) \/ FindCategory(p) \/ Place(p) \/ Refused(p)
    \/ Crash \/ MonthEnds
    \/ \E c \in DOMAIN channels : OwnerDeletes(c)

Spec == Init /\ [][Next]_vars

-----------------------------------------------------------------------------
TypeOK ==
    /\ \A c \in DOMAIN channels :
        /\ channels[c].shard \in 1..MaxChannels
        /\ channels[c].parent \in {None} \cup DOMAIN channels
    /\ \A p \in Handlers : h[p].pc \in {"idle", "layout", "dashboard", "send", "place"}
    /\ \A p \in Handlers : h[p].seen \subseteq DOMAIN channels

(* However often the relay starts, is killed half way or loses a call, each *)
(* category and control channel is there once, none is created beside one   *)
(* that could have been taken, and no category is fuller than Discord lets  *)
(* it be.  Except (observed) when two handlers created it from listings     *)
(* that did not have it yet, or after the owner deleted a category: the     *)
(* next number is the number of those left.                                 *)
OneOfEach ==
    /\ dashboards <= 1 \/ NewTask \in raced
    /\ \A c \in {c \in DOMAIN channels : Alive(c) /\ channels[c].name # Task} :
        LET name == channels[c].name
        IN  /\ name \in {Running} \cup {Done(m) : m \in 1..month}
                  => Cardinality(Children(c)) <= Room
            /\ name \notin raced \cup gap =>
                 /\ Same(name, channels[c].shard) = {c}
                 /\ \A shard \in 1..channels[c].shard : Same(name, shard) # {}

(* Why it holds.  Names, and who is under what: nobody but a control        *)
(* category has children without its room being looked at.                  *)
Categories == {Running} \cup {Done(m) : m \in 0..month}
Names == {Control, NewTask} \cup Categories
Shape ==
    /\ channels \in Seq([name : Names \cup {Task}, shard : Nat, parent : Nat, alive : BOOLEAN])
    /\ \A c \in DOMAIN channels : channels[c].parent \in {None} \cup DOMAIN channels
    /\ dashboards \in Nat /\ month \in Nat
    /\ h \in [Handlers -> [pc : {"idle", "layout", "dashboard", "send", "place"},
                           step : 1..4, seen : SUBSET DOMAIN channels, base : Names \cup {Task},
                           control : {None} \cup DOMAIN channels, target : Nat]]
    /\ \A p \in Handlers :
        /\ h[p].pc = "layout" => h[p].base \in Categories
        /\ h[p].control # None => channels[h[p].control].name = Control

OneDashboard == dashboards <= 1 \/ NewTask \in raced
Roomy == \A c \in DOMAIN channels :
            channels[c].name # Control => Cardinality(Children(c)) <= Room

(* A set of channels whose numbers are one to as many as they are.          *)
Numbered(S) ==
    /\ \A c \in S : channels[c].shard \in 1..Cardinality(S)
    /\ \A c, d \in S : channels[c].shard = channels[d].shard => c = d
(* Those of a name are, and so are those in a listing: it may be old, but   *)
(* has none without those before it.                                        *)
AllOf(name) == {c \in DOMAIN channels : channels[c].name = name}
InOrder ==
    \A name \in Names \ (raced \cup gap) :
        /\ \A c \in AllOf(name) : channels[c].alive
        /\ Numbered(AllOf(name))
        /\ \A p \in Handlers : Numbered(Of(p, name))

IInv == Shape /\ OneDashboard /\ Roomy /\ InOrder
=============================================================================
