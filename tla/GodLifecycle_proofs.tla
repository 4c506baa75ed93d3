------------------------- MODULE GodLifecycle_proofs --------------------------
(***************************************************************************)
(* What holds of GOD mode for any number of tasks, of interactions of the   *)
(* owner, of failures and of restarts.                                      *)
(***************************************************************************)
EXTENDS GodLifecycle, TLAPS

Changes == {"enable", "off"}
Cleanups == {"enable", "off", "expired", "retry", "complete", "recover"}

\* Which call can be where, and when it has a task.
Placed(r) ==
    /\ r.pc = "barrier" => r.job \in Calls \cup Changes
    /\ r.pc \in {"check", "send", "row"} => r.job \in Calls
    /\ r.pc = "mark" => r.job \in Calls \cup {"enable", "off", "expired"}
    /\ r.pc \in {"auth", "activate"} => r.job = "enable"
    /\ r.pc \in {"look", "revoke"} => r.job = "off"
    /\ r.pc \in {"lease", "read", "normalize", "clear"} => r.job \in Cleanups
    /\ r.pc = "next" => r.job \in {"retry", "recover"}
    /\ r.pc = "judge" => r.job = "complete"
    /\ r.pc = "replay" => r.job = "recover"
    /\ r.pc \in {"mark", "lease", "read", "normalize", "clear"} => r.at \in Tasks
    /\ r.job \in Calls \/ r.pc = "judge" => r.at \in Tasks
    /\ r.job = "enable" => r.new \in Tasks
    /\ r.job = "none" <=> r.pc = "idle"
PlaceInv == \A p \in Threads : Placed(th[p])

\* The barrier: no dispatch is under way while the session changes, and one change
\* is made at a time.
BarrierInv ==
    /\ Readers = {} \/ Writers = {}
    /\ \A p, q \in Writers : p = q

\* Past the password there is no session until the new one is activated.
Entering(r) == r.job = "enable" /\ r.pc \notin {"barrier", "auth"}
SoleInv == \A p \in Threads : Entering(th[p]) => session = None

\* A dispatch past its check with GOD mode on has the session of its task.
Granted(r) ==
    /\ r.pc = "mark" => r.god
    /\ r.pc = "send" /\ r.job = "privileged" => r.god
    /\ r.pc \in {"mark", "send"} /\ r.god => session = r.at
GrantInv == \A p \in Readers : Granted(th[p])

\* What is about to be elevated has its mark, or is known as raced.
Ready(r) == r.pc = "send" /\ r.god => r.at \in dirty \cup raced
MarkInv == \A p \in Readers : Ready(th[p])

\* A task that still has full access and whose session is over; one that is known.
Leftover(t) == Elevated(t) /\ session # t
Known(t) == Blocked(t) \/ t \in raced

\* Tasks the start-up does not know of, or is done with, are blocked or raced.
Recovered(r) ==
    r.job = "recover" =>
        \A t \in Tasks : Leftover(t) => Known(t) \/ (r.pc # "replay" /\ t \in r.todo)
RecoverInv == \A p \in Threads : Recovered(th[p])

IInv ==
    /\ TypeOK /\ PlaceInv /\ BarrierInv /\ SoleInv /\ GrantInv /\ MarkInv
    /\ ElevatedIsMarked /\ EndedIsBlocked /\ RecoverInv

\* TypeOK but for the threads.
Types ==
    /\ perm \in [Tasks -> {"normal", "god"}]
    /\ turn \in [Tasks -> {"none", "normal", "god"}]
    /\ event \subseteq Tasks /\ running \subseteq Tasks /\ dirty \subseteq Tasks
    /\ cleanup \subseteq Tasks /\ quarantined \subseteq Tasks
    /\ session \in Tasks \cup {None} /\ lapsed \in BOOLEAN
    /\ started \in BOOLEAN
    /\ faults \in 0..MaxFaults /\ calls \in 0..MaxCalls /\ raced \subseteq Tasks

-----------------------------------------------------------------------------
(* A step of one thread                                                     *)

Reads(r)  == r.job \in Calls /\ r.pc # "barrier"
Writes(r) == r.job \in Changes /\ r.pc # "barrier"

\* Nothing that is known of a task is forgotten while it matters.
Remembered ==
    /\ session' = session \/ Readers = {}
    /\ \A t \in Tasks : t \in dirty \cup raced /\ t \notin dirty' \cup raced' => ~Underway(t)
    /\ \A t \in Tasks : Leftover(t)' => Known(t)' \/ (Leftover(t) /\ ~Known(t))

LEMMA Threaded ==
    ASSUME TypeOK, NEW p \in Threads, NEW r \in Frames, th' = [th EXCEPT ![p] = r]
    PROVE  /\ th' \in [Threads -> Frames] /\ th'[p] = r
           /\ \A q \in Threads \ {p} : th'[q] = th[q]
BY DEF TypeOK

\* One thread's frame becomes r: what has to be shown of the step.
LEMMA Moved ==
    ASSUME IInv, NEW p \in Threads, NEW r \in Frames, th' = [th EXCEPT ![p] = r],
           Placed(r), Types', Remembered,
           Reads(r)  => p \in Readers \/ Writers = {},
           Writes(r) => p \in Writers \/ Exclusive,
           Entering(r) => Entering(th[p]) \/ None \in {session, session'},
           session' \in {session, None} \/ (p \in Writers /\ ~Entering(r)),
           Reads(r)  => Granted(r)' /\ Ready(r)',
           Recovered(r)', ElevatedIsMarked',
           started' => started \/ \A t \in Tasks : Leftover(t) => Known(t)
    PROVE  IInv'
<1> USE DEF IInv
<1>1. /\ th' \in [Threads -> Frames] /\ th'[p] = r
      /\ \A q \in Threads \ {p} : th'[q] = th[q]
  BY Threaded
<1>2. TypeOK'
  BY <1>1 DEF TypeOK, Types
<1>3. PlaceInv'
  <2>1. \A q \in Threads : Placed(th'[q])
    BY <1>1 DEF PlaceInv
  <2> QED BY <2>1 DEF PlaceInv, Placed
<1>4. Readers = {q \in Threads : Reads(th[q])} /\ Writers = {q \in Threads : Writes(th[q])}
      /\ Readers' = {q \in Threads : Reads(th'[q])} /\ Writers' = {q \in Threads : Writes(th'[q])}
  BY DEF Readers, Writers, Holds, Reads, Writes, Changes
<1>5. BarrierInv'
  <2>1. ~(Reads(r) /\ Writes(r))
    BY DEF Reads, Writes, Calls, Changes
  <2>2. Readers' = {} \/ Writers' = {}
    BY <1>1, <1>4, <2>1 DEF BarrierInv, Exclusive
  <2>3. \A q, o \in Writers' : q = o
    BY <1>1, <1>4 DEF BarrierInv, Exclusive
  <2> QED BY <2>2, <2>3 DEF BarrierInv
<1>5a. SoleInv'
  <2> SUFFICES ASSUME NEW q \in Threads, Entering(th[q])' PROVE session' = None
    BY DEF SoleInv
  <2>1. CASE q = p
    BY <1>1, <2>1 DEF SoleInv, Entering
  <2>2. CASE q # p
    <3>1. Entering(th[q])
      BY <1>1, <2>2 DEF Entering
    <3>2. session = None /\ q \in Writers
      BY <3>1, <1>4 DEF SoleInv, Entering, Writes, Changes
    <3> QED BY <2>2, <3>2 DEF BarrierInv
  <2> QED BY <2>1, <2>2
<1>6. GrantInv' /\ MarkInv'
  <2> SUFFICES ASSUME NEW q \in Readers' PROVE Granted(th[q])' /\ Ready(th[q])'
    BY DEF GrantInv, MarkInv
  <2>1. q \in Threads
    BY <1>4
  <2>2. CASE q = p
    BY <1>1, <1>4, <2>2 DEF Granted, Ready
  <2>3. CASE q # p
    <3>1. q \in Readers /\ th'[q] = th[q]
      BY <1>1, <1>4, <2>1, <2>3
    <3>2. session' = session
      BY <3>1 DEF Remembered
    <3>3. Granted(th[q])'
      BY <3>1, <3>2 DEF GrantInv, Granted
    <3>4. ASSUME th[q].pc = "send", th[q].god PROVE th[q].at \in dirty' \cup raced'
      <4>1. th[q].at \in dirty \cup raced /\ th[q].at \in Tasks
        BY <3>1, <3>4, <2>1 DEF MarkInv, Ready, TypeOK
      <4>2. Underway(th[q].at)
        BY <3>1, <3>4 DEF Underway
      <4> QED BY <4>1, <4>2 DEF Remembered
    <3> QED BY <3>1, <3>3, <3>4 DEF Ready
  <2> QED BY <2>2, <2>3
<1>7. EndedIsBlocked'
  <2> SUFFICES ASSUME NEW t \in Tasks, started', Leftover(t)' PROVE Known(t)'
    BY DEF EndedIsBlocked, Leftover, Known
  <2>1. Leftover(t) => Known(t)
    BY DEF EndedIsBlocked, Leftover, Known
  <2> QED BY <2>1 DEF Remembered
<1>8. RecoverInv'
  <2> SUFFICES ASSUME NEW q \in Threads PROVE Recovered(th[q])'
    BY DEF RecoverInv
  <2>1. CASE q = p
    BY <1>1, <2>1 DEF Recovered
  <2>2. CASE q # p
    <3>1. th'[q] = th[q] /\ Recovered(th[q])
      BY <1>1, <2>2 DEF RecoverInv
    <3> QED BY <3>1 DEF Recovered, Remembered
  <2> QED BY <2>1, <2>2
<1> QED BY <1>2, <1>3, <1>5, <1>5a, <1>6, <1>7, <1>8

\* What is not elevated anew, released or forgotten.
LEMMA Calm ==
    ASSUME IInv, UNCHANGED <<session, raced>>, dirty \subseteq dirty',
           \A t \in Tasks : Elevated(t)' => Elevated(t),
           cleanup \subseteq cleanup', quarantined \subseteq quarantined'
    PROVE  Remembered /\ ElevatedIsMarked' /\ \A t \in Tasks : Known(t) => Known(t)'
<1>1. \A t \in Tasks : Known(t) => Known(t)'
  BY DEF Known, Blocked
<1>2. \A t \in Tasks : Leftover(t)' => Leftover(t)
  BY DEF Leftover
<1>3. Remembered
  BY <1>1, <1>2 DEF Remembered
<1>4. ElevatedIsMarked'
  BY DEF IInv, ElevatedIsMarked
<1> QED BY <1>1, <1>3, <1>4

\* A frame that was the start-up's and still is, on its way.
LEMMA StillRecovering ==
    ASSUME IInv, NEW p \in Threads, NEW r \in Frames,
           r.job = th[p].job, r.todo = th[p].todo, r.pc # "replay",
           \A t \in Tasks : Leftover(t)' => Leftover(t),
           \A t \in Tasks : Known(t) => Known(t)' \/ ~Leftover(t)'
    PROVE  Recovered(r)'
BY DEF IInv, RecoverInv, Recovered

-----------------------------------------------------------------------------
(* Dispatch                                                                 *)

LEMMA MarkStep ==
    ASSUME IInv, NEW p \in Threads, Mark(p)
    PROVE  IInv'
<1> USE DEF IInv
<1>1. th[p] \in Frames /\ Placed(th[p]) /\ th[p].pc = "mark" /\ th[p].at \in Tasks
  BY DEF TypeOK, PlaceInv, Mark, At, Placed
<1>2. AfterMark(p) \in {"send", "revoke", "lease"}
      /\ (AfterMark(p) = "send" <=> th[p].job \in Calls)
      /\ (AfterMark(p) = "revoke" => th[p].job = "off")
      /\ (AfterMark(p) = "lease" => th[p].job \in {"enable", "expired"})
  BY <1>1 DEF AfterMark, Placed, Calls, Changes
<1>3. PICK r \in Frames : r = [th[p] EXCEPT !.pc = AfterMark(p)] /\ th' = [th EXCEPT ![p] = r]
  BY <1>1, <1>2 DEF Mark, Goto, Frames, TypeOK
<1>4. r.pc = AfterMark(p) /\ r.job = th[p].job /\ r.at = th[p].at /\ r.god = th[p].god
      /\ r.todo = th[p].todo /\ r.new = th[p].new
  BY <1>1, <1>3 DEF Frames
<1>5. Placed(r)
  BY <1>1, <1>2, <1>4 DEF Placed, Calls, Changes, Cleanups
<1>6. /\ dirty' = dirty \cup {th[p].at}
      /\ UNCHANGED <<perm, turn, event, running, session, lapsed, cleanup, quarantined, started,
                     faults, calls, raced>>
  BY DEF Mark, Marked, codex, grant, blocks, bounds
<1>7. Types'
  BY <1>1, <1>6 DEF Types, TypeOK
<1>8. Remembered /\ ElevatedIsMarked' /\ \A t \in Tasks : Known(t) => Known(t)'
  BY <1>6, Calm DEF Elevated
<1>9. Reads(r) => p \in Readers
  BY <1>1, <1>4 DEF Reads, Readers, Holds
<1>10. Writes(r) => p \in Writers
  BY <1>1, <1>4 DEF Writes, Writers, Holds, Changes
<1>11. Reads(r) => Granted(r)' /\ Ready(r)'
  BY <1>1, <1>4, <1>6, <1>9 DEF GrantInv, Granted, Ready
<1>12. Recovered(r)'
  BY <1>1, <1>2, <1>4 DEF Recovered, Calls, Placed
<1>13. Entering(r) => Entering(th[p])
  BY <1>1, <1>4 DEF Entering
<1> QED BY <1>13, <1>3, <1>5, <1>6, <1>7, <1>8, <1>9, <1>10, <1>11, <1>12, Moved

\* A step that changes one frame only, but for what it adds to the blocks.
LEMMA QuietStep ==
    ASSUME IInv, NEW p \in Threads, NEW r \in Frames, th' = [th EXCEPT ![p] = r], Placed(r),
           Types', UNCHANGED <<perm, turn, dirty, session, raced, started>>,
           cleanup \subseteq cleanup', quarantined \subseteq quarantined',
           Reads(r)  => p \in Readers \/ Writers = {},
           Writes(r) => p \in Writers \/ Exclusive,
           Entering(r) => Entering(th[p]) \/ session = None,
           Reads(r)  => Granted(r) /\ Ready(r),
           Recovered(r)'
    PROVE  IInv'
<1>1. Remembered /\ ElevatedIsMarked'
  BY Calm DEF Elevated
<1>2. Reads(r) => Granted(r)' /\ Ready(r)'
  BY DEF Granted, Ready
<1> QED BY <1>1, <1>2, Moved

\* The call returns.
LEMMA ReturnStep ==
    ASSUME IInv, NEW p \in Threads, Return(p),
           Types', UNCHANGED <<perm, turn, dirty, session, raced, started>>,
           cleanup \subseteq cleanup', quarantined \subseteq quarantined'
    PROVE  IInv'
<1>1. Idle \in Frames /\ Placed(Idle) /\ ~Reads(Idle) /\ ~Writes(Idle) /\ Recovered(Idle)'
      /\ ~Entering(Idle)
  BY DEF Idle, Frames, Placed, Reads, Writes, Recovered, Entering, Calls, Changes, Cleanups
<1> QED BY <1>1, QuietStep DEF Return

LEMMA MarkFailsStep ==
    ASSUME IInv, NEW p \in Threads, MarkFails(p)
    PROVE  IInv'
<1>1. Types' /\ UNCHANGED <<perm, turn, dirty, session, raced, started, cleanup, quarantined>>
  BY NamesAssumption DEF IInv, TypeOK, Types, MarkFails, Fault, codex, grant, blocks
<1>2. CASE th[p].job # "expired"
  BY <1>1, <1>2, ReturnStep DEF MarkFails
<1>3. CASE th[p].job = "expired"
  <2>1. th[p] \in Frames /\ Placed(th[p]) /\ th[p].pc = "mark"
    BY DEF IInv, TypeOK, PlaceInv, MarkFails, At
  <2>2. PICK r \in Frames : th' = [th EXCEPT ![p] = r] /\ r.job = "expired" /\ r.pc = "lease"
        /\ r.at = th[p].at
    <3> DEFINE s == [th[p] EXCEPT !.pc = "lease"]
    <3>1. s \in Frames /\ th' = [th EXCEPT ![p] = s] /\ s.job = "expired" /\ s.pc = "lease"
          /\ s.at = th[p].at
      BY <1>3, <2>1 DEF MarkFails, Goto, Frames, IInv, TypeOK
    <3> QED BY <3>1
  <2>3. Placed(r) /\ ~Reads(r) /\ ~Writes(r) /\ Recovered(r)' /\ ~Entering(r)
    BY <2>1, <2>2 DEF Placed, Cleanups, Calls, Changes, Reads, Writes, Recovered, Entering
  <2> QED BY <1>1, <2>2, <2>3, QuietStep
<1> QED BY <1>2, <1>3

\* Goto, as the frame it leaves.
LEMMA Went ==
    ASSUME IInv, NEW p \in Threads, NEW l, Goto(p, l),
           l \in {"check", "mark", "lease", "read", "normalize", "clear", "auth", "activate",
                  "look", "revoke", "row"}
    PROVE  \E r \in Frames :
             /\ th' = [th EXCEPT ![p] = r] /\ r.pc = l
             /\ r.job = th[p].job /\ r.at = th[p].at /\ r.new = th[p].new
             /\ r.god = th[p].god /\ r.todo = th[p].todo /\ r.ok = th[p].ok
<1> DEFINE s == [th[p] EXCEPT !.pc = l]
<1>1. th[p] \in Frames
  BY DEF IInv, TypeOK
<1>2. s \in Frames /\ th' = [th EXCEPT ![p] = s]
  BY <1>1 DEF Goto, Frames, IInv, TypeOK
<1>3. /\ s.pc = l
      /\ s.job = th[p].job /\ s.at = th[p].at /\ s.new = th[p].new
      /\ s.god = th[p].god /\ s.todo = th[p].todo /\ s.ok = th[p].ok
  BY <1>1 DEF Frames
<1> HIDE DEF s
<1> QED BY <1>2, <1>3

LEMMA EnterStep ==
    ASSUME IInv, NEW p \in Threads, Enter(p)
    PROVE  IInv'
<1>1. PICK r \in Frames :
          /\ th' = [th EXCEPT ![p] = r] /\ r.pc = "check"
          /\ r.job = th[p].job /\ r.at = th[p].at /\ r.new = th[p].new
  BY Went DEF Enter
<1>2. th[p].job \in Calls /\ th[p].at \in Tasks /\ Writers = {}
  BY DEF Enter, Is, NoWriter, IInv, PlaceInv, Placed
<1>3. Placed(r) /\ ~Writes(r) /\ Granted(r) /\ Ready(r) /\ Recovered(r)' /\ ~Entering(r)
  BY <1>1, <1>2 DEF Entering, Placed, Writes, Granted, Ready, Recovered, Calls, Changes, Cleanups
<1>4. Types' /\ UNCHANGED <<perm, turn, dirty, session, raced, started, cleanup, quarantined>>
  BY DEF IInv, TypeOK, Types, Enter, codex, grant, blocks, bounds
<1> QED BY <1>1, <1>2, <1>3, <1>4, QuietStep

LEMMA CheckStep ==
    ASSUME IInv, NEW p \in Threads, Check(p)
    PROVE  IInv'
<1> DEFINE t == th[p].at
<1>1. th[p] \in Frames /\ Placed(th[p]) /\ th[p].pc = "check" /\ th[p].job \in Calls
      /\ t \in Tasks
  BY DEF IInv, TypeOK, PlaceInv, Check, At, Placed
<1>2. Lapsed \subseteq Tasks
  BY DEF IInv, TypeOK, Lapsed
<1>3. PICK private \in BOOLEAN :
        /\ IF private THEN UNCHANGED bounds ELSE Fault
        /\ cleanup' = IF private /\ ~Blocked(t) THEN cleanup \cup Lapsed ELSE cleanup
        /\ LET granted == private /\ Active(t) IN
           IF t \in quarantined \cup cleanup' \/ (th[p].job = "privileged" /\ ~granted)
           THEN Return(p)
           ELSE th' = [th EXCEPT ![p].god = granted,
                                 ![p].pc = IF granted THEN "mark" ELSE "send"]
  BY DEF Check
<1>4. UNCHANGED <<perm, turn, event, running, dirty, session, lapsed, quarantined, started, raced>>
  BY DEF Check, codex, grant
<1>5. Types'
  <2>1. cleanup' \subseteq Tasks
    BY <1>2, <1>3 DEF IInv, TypeOK
  <2>2. faults' \in 0..MaxFaults /\ calls' \in 0..MaxCalls
    BY <1>3, NamesAssumption DEF IInv, TypeOK, Fault, bounds
  <2> QED BY <1>4, <2>1, <2>2 DEF IInv, TypeOK, Types
<1>6. cleanup \subseteq cleanup'
  BY <1>3
<1>7. CASE Return(p)
  BY <1>4, <1>5, <1>6, <1>7, ReturnStep
<1>8. CASE ~Return(p)
  <2>1. PICK granted \in BOOLEAN :
          /\ granted = (private /\ Active(t))
          /\ th[p].job = "privileged" => granted
          /\ th' = [th EXCEPT ![p].god = granted,
                              ![p].pc = IF granted THEN "mark" ELSE "send"]
    BY <1>3, <1>8
  <2>2. PICK r \in Frames :
          /\ th' = [th EXCEPT ![p] = r] /\ r.pc = (IF granted THEN "mark" ELSE "send")
          /\ r.god = granted /\ r.job = th[p].job /\ r.at = t /\ r.new = th[p].new
    <3> DEFINE s == [th[p] EXCEPT !.god = granted, !.pc = IF granted THEN "mark" ELSE "send"]
    <3>1. s \in Frames /\ s.pc = (IF granted THEN "mark" ELSE "send")
          /\ s.god = granted /\ s.job = th[p].job /\ s.at = t /\ s.new = th[p].new
      BY <1>1 DEF Frames
    <3>2. th' = [th EXCEPT ![p] = s]
      BY <1>1, <2>1 DEF IInv, TypeOK
    <3> QED BY <3>1, <3>2
  <2>3. Placed(r) /\ ~Writes(r) /\ Recovered(r)' /\ ~Entering(r)
    BY <1>1, <2>2 DEF Entering, Placed, Writes, Recovered, Calls, Changes, Cleanups
  <2>4. granted => session = t
    BY <2>1 DEF Active
  <2>5. Granted(r) /\ Ready(r)
    BY <2>1, <2>2, <2>4 DEF Granted, Ready
  <2>6. p \in Readers
    BY <1>1 DEF Readers, Holds
  <2> QED BY <1>4, <1>5, <1>6, <2>2, <2>3, <2>5, <2>6, QuietStep
<1> QED BY <1>7, <1>8

\* What Codex accepts: full access rises only with the session, and with its mark.
LEMMA AcceptedFacts ==
    ASSUME IInv, NEW p \in Threads, th[p].pc = "send", Accepted(p)
    PROVE  /\ perm' \in [Tasks -> {"normal", "god"}] /\ turn' \in [Tasks -> {"none", "normal", "god"}]
           /\ \A t \in Tasks : Elevated(t)' =>
                Elevated(t) \/ (session = t /\ t \in dirty \cup raced)
           /\ \A t \in Tasks : perm[t] # "god" /\ perm'[t] = "god" => session = t
<1> DEFINE t == th[p].at
<1>1. Placed(th[p]) /\ p \in Readers /\ t \in Tasks /\ th[p].god \in BOOLEAN
  BY DEF IInv, PlaceInv, Placed, Readers, Holds, TypeOK, Frames
<1>2. Granted(th[p]) /\ Ready(th[p])
  BY <1>1 DEF IInv, GrantInv, MarkInv
<1>3. perm \in [Tasks -> {"normal", "god"}] /\ turn \in [Tasks -> {"none", "normal", "god"}]
  BY DEF IInv, TypeOK
<1>4. th[p].god => session = t /\ t \in dirty \cup raced
  BY <1>2 DEF Granted, Ready
<1>5. CASE UNCHANGED <<perm, turn>>
  BY <1>3, <1>5 DEF Elevated
<1>6. CASE turn' = [turn EXCEPT ![t] = Policy(th[p].god)]
           /\ perm' = [perm EXCEPT ![t] = Policy(th[p].god)]
  BY <1>1, <1>3, <1>4, <1>6 DEF Elevated, Policy
<1>7. CASE th[p].job = "privileged" /\ perm' = [perm EXCEPT ![t] = "god"] /\ UNCHANGED turn
  <2>1. th[p].god
    BY <1>2, <1>7 DEF Granted
  <2> QED BY <1>1, <1>3, <1>4, <1>7, <2>1 DEF Elevated
<1> QED BY <1>5, <1>6, <1>7 DEF Accepted

LEMMA SendStep ==
    ASSUME IInv, NEW p \in Threads, Send(p) \/ SendFails(p)
    PROVE  IInv' /\ \A t \in Tasks : perm[t] # "god" /\ perm'[t] = "god" => session = t
<1>1. th[p] \in Frames /\ Placed(th[p]) /\ th[p].pc = "send"
  BY DEF IInv, TypeOK, PlaceInv, Send, SendFails, At
<1>2. Accepted(p) \/ UNCHANGED <<perm, turn>>
  BY DEF Send, SendFails
<1>3. UNCHANGED <<event, running, dirty, session, lapsed, cleanup, quarantined, started, raced>>
  BY DEF Send, SendFails, grant, blocks
<1>4. perm' \in [Tasks -> {"normal", "god"}] /\ turn' \in [Tasks -> {"none", "normal", "god"}]
  BY <1>1, <1>2, AcceptedFacts DEF IInv, TypeOK
<1>5. \A t \in Tasks : Elevated(t)' => Elevated(t) \/ (session = t /\ t \in dirty \cup raced)
  BY <1>1, <1>2, AcceptedFacts DEF Elevated
<1>6. \A t \in Tasks : perm[t] # "god" /\ perm'[t] = "god" => session = t
  BY <1>1, <1>2, AcceptedFacts
<1>7. faults' \in 0..MaxFaults /\ calls' \in 0..MaxCalls
  BY NamesAssumption DEF IInv, TypeOK, Send, SendFails, Fault, bounds
<1>8. Types'
  BY <1>3, <1>4, <1>7 DEF IInv, TypeOK, Types
<1>9. ElevatedIsMarked'
  BY <1>3, <1>5 DEF IInv, ElevatedIsMarked
<1>10. \A t \in Tasks : Known(t)' <=> Known(t)
  BY <1>3 DEF Known, Blocked
<1>11. \A t \in Tasks : Leftover(t)' => Leftover(t)
  BY <1>3, <1>5 DEF Leftover
<1>12. Remembered
  BY <1>3, <1>10, <1>11 DEF Remembered
<1>13. CASE Return(p)
  <2>1. Idle \in Frames /\ Placed(Idle) /\ ~Reads(Idle) /\ ~Writes(Idle) /\ Recovered(Idle)'
        /\ ~Entering(Idle)
    BY DEF Entering, Idle, Frames, Placed, Reads, Writes, Recovered, Calls, Changes, Cleanups
  <2> QED BY <1>3, <1>6, <1>8, <1>9, <1>12, <1>13, <2>1, Moved DEF Return
<1>14. CASE Goto(p, "row")
  <2>1. PICK r \in Frames :
          /\ th' = [th EXCEPT ![p] = r] /\ r.pc = "row"
          /\ r.job = th[p].job /\ r.at = th[p].at /\ r.new = th[p].new
    BY <1>14, Went
  <2>2. Placed(r) /\ ~Writes(r) /\ Granted(r)' /\ Ready(r)' /\ Recovered(r)' /\ p \in Readers
        /\ ~Entering(r)
    BY <1>1, <2>1 DEF Entering, Placed, Writes, Granted, Ready, Recovered, Calls, Changes, Cleanups,
                      Readers, Holds
  <2> QED BY <1>3, <1>6, <1>8, <1>9, <1>12, <2>1, <2>2, Moved
<1> QED BY <1>13, <1>14 DEF Send, SendFails

LEMMA WriteRowStep ==
    ASSUME IInv, NEW p \in Threads, WriteRow(p)
    PROVE  IInv'
<1>1. th[p].at \in Tasks
  BY DEF IInv, PlaceInv, Placed, WriteRow, At
<1>2. Types' /\ UNCHANGED <<perm, turn, dirty, session, raced, started, cleanup, quarantined>>
  BY <1>1, NamesAssumption DEF IInv, TypeOK, Types, WriteRow, Fault, codex, grant, blocks, bounds
<1> QED BY <1>2, ReturnStep DEF WriteRow

-----------------------------------------------------------------------------
(* Cleanup                                                                  *)

\* A cleanup is no dispatch; one that changes the session still does.
LEMMA CleanupMoves ==
    ASSUME IInv, NEW p \in Threads, NEW r \in Frames, r.job = th[p].job, r.new = th[p].new,
           th[p].pc \in {"lease", "read", "normalize", "clear", "judge", "next"},
           r.pc \in {"lease", "read", "normalize", "clear"}, r.at \in Tasks
    PROVE  /\ Placed(r) /\ ~Reads(r) /\ (Writes(r) => p \in Writers)
           /\ Entering(r) => Entering(th[p])
<1>1. Placed(th[p])
  BY DEF IInv, PlaceInv
<1>2. th[p].job \in Cleanups
  <2>1. CASE th[p].pc = "judge"
    BY <1>1, <2>1 DEF Placed, Cleanups
  <2> QED BY <1>1, <2>1 DEF Placed, Cleanups
<1>3. r.job = "enable" => r.new \in Tasks
  BY <1>1 DEF Placed
<1>4. Placed(r)
  BY <1>2, <1>3 DEF Placed, Calls, Cleanups
<1>5. ~Reads(r)
  BY <1>2 DEF Reads, Calls, Cleanups
<1>6. Writes(r) => p \in Writers
  BY DEF Writes, Writers, Holds, Changes
<1>7. Entering(r) => Entering(th[p])
  BY DEF Entering
<1> QED BY <1>4, <1>5, <1>6, <1>7

LEMMA LoopFacts ==
    ASSUME NEW todo \in SUBSET Tasks
    PROVE  /\ Loop(todo) \in Frames /\ Placed(Loop(todo)) /\ ~Reads(Loop(todo))
           /\ ~Writes(Loop(todo)) /\ ~Entering(Loop(todo)) /\ Loop(todo).job # "recover"
<1>1. Idle \in Frames /\ Placed(Idle) /\ ~Reads(Idle) /\ ~Writes(Idle) /\ Idle.job # "recover"
      /\ ~Entering(Idle)
  BY DEF Entering, Idle, Frames, Placed, Reads, Writes, Calls, Changes, Cleanups
<1> DEFINE s == [Idle EXCEPT !.pc = "next", !.job = "retry", !.todo = todo]
<1>2. s \in Frames /\ Placed(s) /\ ~Reads(s) /\ ~Writes(s) /\ s.job # "recover" /\ ~Entering(s)
  BY DEF Entering, Idle, Frames, Placed, Reads, Writes, Calls, Changes, Cleanups
<1> QED BY <1>1, <1>2 DEF Loop

LEMMA RecoveryFacts ==
    ASSUME NEW todo \in SUBSET Tasks
    PROVE  /\ Recovery(todo) \in Frames /\ Placed(Recovery(todo)) /\ ~Reads(Recovery(todo))
           /\ ~Writes(Recovery(todo)) /\ ~Entering(Recovery(todo))
           /\ todo = {} \/ (Recovery(todo).pc # "replay" /\ Recovery(todo).todo = todo)
<1> DEFINE s == [Idle EXCEPT !.pc = "next", !.job = "recover", !.todo = todo]
           e == [Idle EXCEPT !.pc = "replay", !.job = "recover", !.todo = Tasks]
<1>1. s \in Frames /\ Placed(s) /\ ~Reads(s) /\ ~Writes(s) /\ s.pc # "replay" /\ s.todo = todo
      /\ ~Entering(s)
  BY DEF Entering, Idle, Frames, Placed, Reads, Writes, Calls, Changes, Cleanups
<1>2. e \in Frames /\ Placed(e) /\ ~Reads(e) /\ ~Writes(e) /\ ~Entering(e)
  BY DEF Entering, Idle, Frames, Placed, Reads, Writes, Calls, Changes, Cleanups
<1> QED BY <1>1, <1>2 DEF Recovery

\* What the cleanup returns to.
LEMMA CleanupReturnsStep ==
    ASSUME IInv, NEW p \in Threads, th[p].pc \in {"lease", "clear"},
           NEW ok \in BOOLEAN, NEW q \in SUBSET Tasks, CleanupReturns(p, ok, q),
           Types', Remembered, ElevatedIsMarked', UNCHANGED <<session, started>>,
           \A t \in Tasks : Leftover(t)' => Leftover(t),
           \A t \in Tasks : Known(t) => Known(t)' \/ ~Leftover(t)'
    PROVE  IInv'
<1>1. th[p] \in Frames /\ Placed(th[p]) /\ th[p].job \in Cleanups /\ Recovered(th[p])
  BY DEF IInv, TypeOK, PlaceInv, Placed, RecoverInv
<1>2. PICK r \in Frames : th' = [th EXCEPT ![p] = r]
  <2>1. [th[p] EXCEPT !.pc = "activate"] \in Frames /\ Idle \in Frames
    BY <1>1 DEF Idle, Frames
  <2>2. Loop(q \ {th[p].at}) \in Frames /\ Loop(th[p].todo) \in Frames
        /\ Recovery(th[p].todo) \in Frames
    BY <1>1, LoopFacts, RecoveryFacts DEF Frames
  <2> DEFINE s == CASE th[p].job = "enable" /\ ok -> [th[p] EXCEPT !.pc = "activate"]
                    [] th[p].job = "expired"      -> Loop(q \ {th[p].at})
                    [] th[p].job = "retry"        -> Loop(th[p].todo)
                    [] th[p].job = "recover"      -> Recovery(th[p].todo)
                    [] OTHER                      -> Idle
  <2>3. th' = [th EXCEPT ![p] = s]
    BY DEF CleanupReturns
  <2>4. s \in Frames
    BY <2>1, <2>2
  <2> HIDE DEF s
  <2> QED BY <2>3, <2>4
<1>3. th'[p] = r
  BY <1>2 DEF IInv, TypeOK
<1> DEFINE Done == Placed(r) /\ ~Reads(r) /\ (Writes(r) => p \in Writers) /\ Recovered(r)'
                   /\ (Entering(r) => Entering(th[p]))
<1>4. ASSUME th[p].job = "enable", ok PROVE Done
  <2>1. r = [th[p] EXCEPT !.pc = "activate"]
    BY <1>2, <1>3, <1>4 DEF CleanupReturns, IInv, TypeOK
  <2>2. r.pc = "activate" /\ r.job = "enable" /\ r.new = th[p].new /\ th[p].new \in Tasks
    BY <1>1, <1>4, <2>1 DEF Frames, Placed
  <2>3. p \in Writers /\ Entering(th[p])
    BY <1>4 DEF Writers, Holds, Entering
  <2> QED BY <2>2, <2>3 DEF Placed, Reads, Writes, Recovered, Calls, Changes, Cleanups
<1>5. ASSUME th[p].job \in {"expired", "retry"} PROVE Done
  <2>1. \E todo \in SUBSET Tasks : r = Loop(todo)
    BY <1>1, <1>3, <1>5 DEF CleanupReturns, IInv, TypeOK, Frames
  <2> QED BY <2>1, LoopFacts DEF Recovered
<1>6. ASSUME th[p].job = "recover" PROVE Done
  <2>1. r = Recovery(th[p].todo) /\ th[p].todo \in SUBSET Tasks
    BY <1>1, <1>3, <1>6 DEF CleanupReturns, IInv, TypeOK, Frames
  <2>2. \A t \in Tasks : Leftover(t) => Known(t) \/ t \in th[p].todo
    BY <1>1, <1>6 DEF Recovered
  <2>3. Recovered(r)'
    BY <2>1, <2>2, RecoveryFacts DEF Recovered
  <2> QED BY <2>1, <2>3, RecoveryFacts
<1>7. ASSUME ~(th[p].job = "enable" /\ ok), th[p].job \notin {"expired", "retry", "recover"}
      PROVE  Done
  <2>1. r = Idle
    BY <1>3, <1>7 DEF CleanupReturns, IInv, TypeOK
  <2> QED BY <2>1 DEF Entering, Idle, Placed, Reads, Writes, Recovered, Calls, Changes, Cleanups
<1>8. Done
  BY <1>4, <1>5, <1>6, <1>7
<1> QED BY <1>2, <1>8, Moved

LEMMA LeaseStep ==
    ASSUME IInv, NEW p \in Threads, Lease(p)
    PROVE  IInv'
<1>1. th[p] \in Frames /\ Placed(th[p]) /\ th[p].pc = "lease" /\ th[p].at \in Tasks
  BY DEF IInv, TypeOK, PlaceInv, Lease, At, Placed
<1>2. PICK r \in Frames :
        /\ th' = [th EXCEPT ![p] = r] /\ r.pc \in {"normalize", "read"}
        /\ r.job = th[p].job /\ r.at = th[p].at /\ r.new = th[p].new /\ r.todo = th[p].todo
  <2> DEFINE s == [th[p] EXCEPT !.ok = TRUE, !.pc = IF Completing(p) THEN "normalize" ELSE "read"]
  <2>1. s \in Frames /\ s.pc \in {"normalize", "read"}
        /\ s.job = th[p].job /\ s.at = th[p].at /\ s.new = th[p].new /\ s.todo = th[p].todo
    BY <1>1 DEF Frames
  <2>2. th' = [th EXCEPT ![p] = s]
    BY <1>1 DEF Lease, IInv, TypeOK
  <2> QED BY <2>1, <2>2
<1>3. Types' /\ UNCHANGED <<perm, turn, dirty, session, raced, started, cleanup>>
      /\ quarantined \subseteq quarantined'
  BY <1>1 DEF IInv, TypeOK, Types, Lease, codex, grant, bounds
<1>4. \A t \in Tasks : (Leftover(t)' => Leftover(t)) /\ (Known(t) => Known(t)')
  BY <1>3 DEF Leftover, Known, Blocked, Elevated
<1>5. Recovered(r)'
  BY <1>2, <1>4, StillRecovering
<1>6. Placed(r) /\ ~Reads(r) /\ (Writes(r) => p \in Writers) /\ (Entering(r) => Entering(th[p]))
  BY <1>1, <1>2, CleanupMoves
<1> QED BY <1>2, <1>3, <1>5, <1>6, QuietStep

LEMMA LeaseTakenStep ==
    ASSUME IInv, NEW p \in Threads, LeaseTaken(p) \/ KeepBlocked(p)
    PROVE  IInv'
<1>1. Types' /\ UNCHANGED <<perm, turn, dirty, session, raced, started, cleanup, quarantined>>
  <2>1. UNCHANGED bounds \/ Fault
    BY DEF LeaseTaken, KeepBlocked
  <2>2. faults' \in 0..MaxFaults /\ calls' \in 0..MaxCalls
    BY <2>1, NamesAssumption DEF IInv, TypeOK, Fault, bounds
  <2> QED BY <2>2 DEF IInv, TypeOK, Types, LeaseTaken, KeepBlocked, codex, grant, blocks
<1>2. Remembered /\ ElevatedIsMarked'
  BY <1>1, Calm DEF Elevated
<1>3. \A t \in Tasks : (Leftover(t)' => Leftover(t)) /\ (Known(t) => Known(t)')
  BY <1>1 DEF Leftover, Known, Blocked, Elevated
<1>4. quarantined \in SUBSET Tasks /\ th[p].pc \in {"lease", "clear"}
      /\ CleanupReturns(p, FALSE, quarantined)
  BY DEF IInv, TypeOK, LeaseTaken, KeepBlocked, At
<1> QED BY <1>1, <1>2, <1>3, <1>4, CleanupReturnsStep

LEMMA InterruptStep ==
    ASSUME IInv, NEW p \in Threads, Interrupt(p)
    PROVE  IInv'
<1> DEFINE t == th[p].at
<1>1. th[p] \in Frames /\ th[p].pc = "read" /\ t \in Tasks
  BY DEF IInv, TypeOK, PlaceInv, Placed, Interrupt, At
<1>2. PICK r \in Frames :
        /\ th' = [th EXCEPT ![p] = r] /\ r.pc = "normalize"
        /\ r.job = th[p].job /\ r.at = t /\ r.new = th[p].new /\ r.todo = th[p].todo
  <2>1. CASE Goto(p, "normalize")
    BY <2>1, Went
  <2>2. CASE th' = [th EXCEPT ![p].pc = "normalize", ![p].ok = FALSE]
    <3> DEFINE s == [th[p] EXCEPT !.pc = "normalize", !.ok = FALSE]
    <3>1. s \in Frames /\ s.pc = "normalize"
          /\ s.job = th[p].job /\ s.at = t /\ s.new = th[p].new /\ s.todo = th[p].todo
      BY <1>1 DEF Frames
    <3>2. th' = [th EXCEPT ![p] = s]
      BY <1>1, <2>2 DEF IInv, TypeOK
    <3> HIDE DEF s
    <3> QED BY <3>1, <3>2
  <2> QED BY <2>1, <2>2 DEF Interrupt
<1>3. /\ turn' \in {turn, [turn EXCEPT ![t] = "none"]}
      /\ event' \in {event, event \cup {t}}
      /\ UNCHANGED bounds \/ Fault
  BY DEF Interrupt, Ends
<1>4. UNCHANGED <<perm, running, dirty, session, lapsed, cleanup, quarantined, started, raced>>
  BY DEF Interrupt, grant, blocks
<1>5. Types'
  <2>1. faults' \in 0..MaxFaults /\ calls' \in 0..MaxCalls
    BY <1>3, NamesAssumption DEF IInv, TypeOK, Fault, bounds
  <2>2. turn' \in [Tasks -> {"none", "normal", "god"}] /\ event' \subseteq Tasks
    BY <1>1, <1>3 DEF IInv, TypeOK
  <2> QED BY <1>4, <2>1, <2>2 DEF IInv, TypeOK, Types
<1>6. \A u \in Tasks : Elevated(u)' => Elevated(u)
  BY <1>1, <1>3, <1>4 DEF Elevated, IInv, TypeOK
<1>7. Remembered /\ ElevatedIsMarked' /\ \A u \in Tasks : Known(u) => Known(u)'
  BY <1>4, <1>6, Calm
<1>8. \A u \in Tasks : Leftover(u)' => Leftover(u)
  BY <1>4, <1>6 DEF Leftover
<1>9. Recovered(r)'
  BY <1>2, <1>7, <1>8, StillRecovering
<1>10. Placed(r) /\ ~Reads(r) /\ (Writes(r) => p \in Writers) /\ (Entering(r) => Entering(th[p]))
  BY <1>1, <1>2, CleanupMoves
<1> QED BY <1>2, <1>4, <1>5, <1>7, <1>9, <1>10, Moved

LEMMA NormalizeStep ==
    ASSUME IInv, NEW p \in Threads, Normalize(p)
    PROVE  IInv' /\ \A t \in Tasks : perm'[t] = "god" => perm[t] = "god"
<1> DEFINE t == th[p].at
           reset == [perm EXCEPT ![t] = "normal"]
<1>1. th[p] \in Frames /\ th[p].pc = "normalize" /\ t \in Tasks
  BY DEF IInv, TypeOK, PlaceInv, Placed, Normalize, At
<1>2. PICK r \in Frames :
        /\ th' = [th EXCEPT ![p] = r] /\ r.pc = "clear"
        /\ r.job = th[p].job /\ r.at = t /\ r.new = th[p].new /\ r.todo = th[p].todo
  <2>1. CASE Goto(p, "clear")
    BY <2>1, Went
  <2>2. CASE th' = [th EXCEPT ![p].pc = "clear", ![p].ok = FALSE]
    <3> DEFINE s == [th[p] EXCEPT !.pc = "clear", !.ok = FALSE]
    <3>1. s \in Frames /\ s.pc = "clear"
          /\ s.job = th[p].job /\ s.at = t /\ s.new = th[p].new /\ s.todo = th[p].todo
      BY <1>1 DEF Frames
    <3>2. th' = [th EXCEPT ![p] = s]
      BY <1>1, <2>2 DEF IInv, TypeOK
    <3> HIDE DEF s
    <3> QED BY <3>1, <3>2
  <2> QED BY <2>1, <2>2 DEF Normalize
<1>3. perm' \in {perm, reset} /\ (UNCHANGED bounds \/ Fault)
  BY DEF Normalize
<1>4. UNCHANGED <<turn, event, running, dirty, session, lapsed, cleanup, quarantined, started, raced>>
  BY DEF Normalize, grant, blocks
<1>5. Types'
  <2>1. faults' \in 0..MaxFaults /\ calls' \in 0..MaxCalls
    BY <1>3, NamesAssumption DEF IInv, TypeOK, Fault, bounds
  <2>2. perm' \in [Tasks -> {"normal", "god"}]
    BY <1>1, <1>3 DEF IInv, TypeOK
  <2> QED BY <1>4, <2>1, <2>2 DEF IInv, TypeOK, Types
<1>6. \A u \in Tasks : perm'[u] = "god" => perm[u] = "god"
  BY <1>1, <1>3 DEF IInv, TypeOK
<1>7. \A u \in Tasks : Elevated(u)' => Elevated(u)
  BY <1>4, <1>6 DEF Elevated
<1>8. Remembered /\ ElevatedIsMarked' /\ \A u \in Tasks : Known(u) => Known(u)'
  BY <1>4, <1>7, Calm
<1>9. \A u \in Tasks : Leftover(u)' => Leftover(u)
  BY <1>4, <1>7 DEF Leftover
<1>10. Recovered(r)'
  BY <1>2, <1>8, <1>9, StillRecovering
<1>11. Placed(r) /\ ~Reads(r) /\ (Writes(r) => p \in Writers) /\ (Entering(r) => Entering(th[p]))
  BY <1>1, <1>2, CleanupMoves
<1>12. IInv'
  BY <1>2, <1>4, <1>5, <1>8, <1>10, <1>11, Moved
<1> QED BY <1>6, <1>12

\* The mark and the quarantine go, from a task that is normal or known as raced.
LEMMA ClearStep ==
    ASSUME IInv, NEW p \in Threads, Clear(p)
    PROVE  IInv'
<1>0. PICK t \in Tasks : t = th[p].at
  BY DEF IInv, PlaceInv, Placed, Clear, At
<1>1. th[p] \in Frames /\ th[p].pc = "clear" /\ th[p].ok
  BY DEF IInv, TypeOK, PlaceInv, Placed, Clear, Clean, At
<1>2. /\ dirty' = dirty \ {t} /\ quarantined' = quarantined \ {t}
      /\ raced' = IF Elevated(t) \/ Underway(t) THEN raced \cup {t} ELSE raced \ {t}
      /\ cleanup \ {t} \subseteq cleanup' /\ cleanup' \subseteq cleanup \cup Lapsed
      /\ UNCHANGED <<perm, turn, event, running, session, lapsed, started, faults, calls>>
  BY <1>0, <1>1 DEF Clear, Released, codex, grant, bounds
<1>3. Types'
  BY <1>1, <1>2 DEF IInv, TypeOK, Types, Lapsed
<1>4. \A u \in Tasks : Elevated(u)' <=> Elevated(u)
  BY <1>2 DEF Elevated
<1>5. \A u \in Tasks : Leftover(u)' <=> Leftover(u)
  BY <1>2, <1>4 DEF Leftover
<1>6. \A u \in Tasks : u # t => (Known(u) => Known(u)')
  BY <1>2 DEF Known, Blocked
<1>7. Leftover(t)' => Known(t)'
  BY <1>2, <1>4 DEF Known, Leftover
<1>8. \A u \in Tasks : u \in dirty \cup raced /\ u \notin dirty' \cup raced' => ~Underway(u)
  BY <1>2
<1>9. Remembered
  BY <1>2, <1>5, <1>6, <1>7, <1>8 DEF Remembered
<1>10. ElevatedIsMarked'
  BY <1>2, <1>4 DEF IInv, ElevatedIsMarked
<1>11. quarantined' \in SUBSET Tasks /\ CleanupReturns(p, TRUE, quarantined')
  BY <1>3 DEF Types, Clear
<1>12. PICK q \in SUBSET Tasks : CleanupReturns(p, TRUE, q)
  BY <1>11
<1> QED BY <1>1, <1>2, <1>3, <1>5, <1>6, <1>7, <1>9, <1>10, <1>12, CleanupReturnsStep

-----------------------------------------------------------------------------
(* The calls begin, and change the session                                   *)

LEMMA Bounded ==
    ASSUME IInv, UNCHANGED bounds \/ Fault \/ Call
    PROVE  faults' \in 0..MaxFaults /\ calls' \in 0..MaxCalls
BY NamesAssumption DEF IInv, TypeOK, bounds, Fault, Call

\* A call that waits for the barrier has done nothing yet.
LEMMA BeginStep ==
    ASSUME IInv, NEW p \in Threads, NEW r \in Frames, th' = [th EXCEPT ![p] = r],
           r.pc = "barrier", r.job \in Calls \cup Changes,
           r.job \in Calls => r.at \in Tasks, r.job = "enable" => r.new \in Tasks,
           Types', UNCHANGED <<perm, turn, dirty, session, raced, started, cleanup, quarantined>>
    PROVE  IInv'
<1>1. Placed(r) /\ ~Reads(r) /\ ~Writes(r) /\ ~Entering(r) /\ Recovered(r)'
  BY DEF Placed, Reads, Writes, Entering, Recovered, Calls, Changes
<1> QED BY <1>1, QuietStep

LEMMA BeginSteps ==
    ASSUME IInv, NEW p \in Owners,
           BeginOff(p) \/ \E t \in Tasks : BeginDispatch(p, t) \/ BeginEnable(p, t)
    PROVE  IInv'
<1> p \in Threads
  BY DEF Threads
<1>1. Types' /\ UNCHANGED <<perm, turn, dirty, session, raced, started, cleanup, quarantined>>
  <2>1. Call
    BY DEF BeginOff, BeginDispatch, BeginEnable
  <2>2. UNCHANGED <<codex, running, dirty, grant, blocks, started, raced>>
    BY DEF BeginOff, BeginDispatch, BeginEnable
  <2> QED BY <2>1, <2>2, Bounded DEF IInv, TypeOK, Types, codex, grant, blocks
<1>2. CASE BeginOff(p)
  <2> DEFINE s == [Idle EXCEPT !.pc = "barrier", !.job = "off", !.at = None]
  <2>1. s \in Frames /\ s.pc = "barrier" /\ s.job = "off"
    BY DEF Idle, Frames
  <2>2. th' = [th EXCEPT ![p] = s]
    BY <1>2 DEF BeginOff, Begin
  <2> HIDE DEF s
  <2>3. PICK r \in Frames : th' = [th EXCEPT ![p] = r] /\ r.pc = "barrier" /\ r.job = "off"
    BY <2>1, <2>2
  <2> QED BY <1>1, <2>3, BeginStep DEF Calls, Changes
<1>3. ASSUME NEW t \in Tasks, BeginDispatch(p, t) PROVE IInv'
  <2>1. PICK what \in Calls :
          th' = [th EXCEPT ![p] = [Idle EXCEPT !.pc = "barrier", !.job = what, !.at = t,
                                               !.aim = what = "dispatch" /\ t \in running]]
    BY <1>3 DEF BeginDispatch
  <2> DEFINE s == [Idle EXCEPT !.pc = "barrier", !.job = what, !.at = t,
                               !.aim = what = "dispatch" /\ t \in running]
  <2>2. s \in Frames /\ s.pc = "barrier" /\ s.job = what /\ s.at = t
    BY DEF Idle, Frames, Calls
  <2>3. th' = [th EXCEPT ![p] = s]
    BY <2>1
  <2> HIDE DEF s
  <2>4. PICK r \in Frames : /\ th' = [th EXCEPT ![p] = r]
                            /\ r.pc = "barrier" /\ r.job = what /\ r.at = t
    BY <2>2, <2>3
  <2> QED BY <1>1, <2>4, BeginStep DEF Calls
<1>4. ASSUME NEW t \in Tasks, BeginEnable(p, t) PROVE IInv'
  <2> DEFINE s == [Idle EXCEPT !.pc = "barrier", !.job = "enable", !.new = t]
  <2>1. s \in Frames /\ s.pc = "barrier" /\ s.job = "enable" /\ s.new = t
    BY DEF Idle, Frames
  <2>2. th' = [th EXCEPT ![p] = s]
    BY <1>4 DEF BeginEnable
  <2> HIDE DEF s
  <2>3. PICK r \in Frames : /\ th' = [th EXCEPT ![p] = r]
                            /\ r.pc = "barrier" /\ r.job = "enable" /\ r.new = t
    BY <2>1, <2>2
  <2> QED BY <1>1, <2>3, BeginStep DEF Calls, Changes
<1> QED BY <1>2, <1>3, <1>4

LEMMA TransitionStep ==
    ASSUME IInv, NEW p \in Threads, Transition(p)
    PROVE  IInv'
<1>1. th[p].job \in Changes /\ Placed(th[p]) /\ Exclusive
  BY DEF IInv, PlaceInv, Transition, Is, Changes
<1>2. PICK r \in Frames :
          /\ th' = [th EXCEPT ![p] = r]
          /\ r.pc = IF th[p].job = "enable" THEN "auth" ELSE "look"
          /\ r.job = th[p].job /\ r.at = th[p].at /\ r.new = th[p].new
  BY Went DEF Transition
<1>3. Placed(r) /\ ~Reads(r) /\ ~Entering(r) /\ Recovered(r)'
  BY <1>1, <1>2 DEF Placed, Reads, Entering, Recovered, Calls, Changes, Cleanups
<1>4. Types' /\ UNCHANGED <<perm, turn, dirty, session, raced, started, cleanup, quarantined>>
  BY DEF IInv, TypeOK, Types, Transition, codex, grant, blocks, bounds
<1> QED BY <1>1, <1>2, <1>3, <1>4, QuietStep

LEMMA DeniedStep ==
    ASSUME IInv, NEW p \in Threads, Denied(p)
    PROVE  IInv'
<1>1. Types' /\ UNCHANGED <<perm, turn, dirty, session, raced, started, cleanup, quarantined>>
  BY DEF IInv, TypeOK, Types, Denied, codex, grant, blocks, bounds
<1> QED BY <1>1, ReturnStep DEF Denied

\* A session that ends leaves its task blocked.
LEMMA Ended ==
    ASSUME IInv, session' = None, Readers = {}, {session} \ {None} \subseteq cleanup',
           cleanup \subseteq cleanup', quarantined \subseteq quarantined',
           UNCHANGED <<perm, turn, dirty, raced>>
    PROVE  Remembered /\ ElevatedIsMarked'
<1>1. \A t \in Tasks : Known(t) => Known(t)'
  BY DEF Known, Blocked
<1>2. \A t \in Tasks : Leftover(t)' => Leftover(t) \/ t \in {session} \ {None}
  BY NamesAssumption DEF Leftover, Elevated
<1>3. \A t \in {session} \ {None} : Known(t)'
  BY DEF Known, Blocked
<1>4. Remembered
  BY <1>1, <1>2, <1>3 DEF Remembered
<1>5. ElevatedIsMarked'
  BY DEF IInv, ElevatedIsMarked, Elevated
<1> QED BY <1>4, <1>5

LEMMA AuthStep ==
    ASSUME IInv, NEW p \in Threads, Auth(p)
    PROVE  IInv'
<1>1. th[p] \in Frames /\ Placed(th[p]) /\ th[p].job = "enable" /\ p \in Writers
      /\ th[p].new \in Tasks
  BY DEF IInv, TypeOK, PlaceInv, Placed, Auth, At, Writers, Holds
<1>2. UNCHANGED <<perm, turn, event, running, dirty, started, raced>>
  BY DEF Auth, codex
<1>3. Readers = {}
  BY <1>1 DEF IInv, BarrierInv
<1>4. CASE session = None /\ Goto(p, "activate") /\ UNCHANGED <<grant, blocks, bounds>>
  <2>1. PICK r \in Frames :
          /\ th' = [th EXCEPT ![p] = r] /\ r.pc = "activate"
          /\ r.job = "enable" /\ r.at = th[p].at /\ r.new = th[p].new
    BY <1>1, <1>4, Went
  <2>2. Placed(r) /\ ~Reads(r) /\ Recovered(r)'
    BY <1>1, <2>1 DEF Placed, Reads, Recovered, Calls, Changes, Cleanups
  <2>3. Types' /\ UNCHANGED <<session, cleanup, quarantined>>
    BY <1>2, <1>4 DEF IInv, TypeOK, Types, grant, blocks, bounds
  <2> QED BY <1>1, <1>2, <1>4, <2>1, <2>2, <2>3, QuietStep
<1>5. CASE /\ session # None /\ NoSession
           /\ cleanup' = cleanup \cup {session}
           /\ quarantined' \in {quarantined, quarantined \cup {session}}
           /\ UNCHANGED bounds \/ Fault
  <2>1. Types'
    <3>1. faults' \in 0..MaxFaults /\ calls' \in 0..MaxCalls
      BY <1>5, Bounded
    <3> QED BY <1>2, <1>5, <3>1 DEF IInv, TypeOK, Types, NoSession
  <2>2. Remembered /\ ElevatedIsMarked'
    BY <1>2, <1>3, <1>5, Ended DEF NoSession
  <2>3. PICK r \in Frames :
          /\ th' = [th EXCEPT ![p] = r] /\ Placed(r) /\ ~Reads(r) /\ Recovered(r)'
    <3>1. CASE Return(p)
      <4>1. Idle \in Frames /\ Placed(Idle) /\ ~Reads(Idle) /\ Recovered(Idle)'
        BY DEF Idle, Frames, Placed, Reads, Recovered, Calls, Cleanups
      <4> QED BY <3>1, <4>1 DEF Return
    <3>2. CASE th' = [th EXCEPT ![p].at = session, ![p].pc = "mark"]
      <4> DEFINE s == [th[p] EXCEPT !.at = session, !.pc = "mark"]
      <4>1. s \in Frames /\ s.pc = "mark" /\ s.job = "enable" /\ s.at \in Tasks
            /\ s.new = th[p].new
        BY <1>1, <1>5 DEF Frames, IInv, TypeOK
      <4>2. th' = [th EXCEPT ![p] = s]
        BY <1>1, <3>2 DEF IInv, TypeOK
      <4> HIDE DEF s
      <4>3. PICK r \in Frames :
              /\ th' = [th EXCEPT ![p] = r] /\ r.pc = "mark" /\ r.job = "enable"
              /\ r.at \in Tasks /\ r.new = th[p].new
        BY <4>1, <4>2
      <4>4. Placed(r) /\ ~Reads(r) /\ Recovered(r)'
        BY <1>1, <4>3 DEF Placed, Reads, Recovered, Calls, Cleanups
      <4> QED BY <4>3, <4>4
    <3> QED BY <1>4, <1>5, <3>1, <3>2 DEF Auth
  <2> QED BY <1>1, <1>2, <1>5, <2>1, <2>2, <2>3, Moved DEF NoSession
<1> QED BY <1>4, <1>5 DEF Auth

LEMMA ActivateStep ==
    ASSUME IInv, NEW p \in Threads, Activate(p)
    PROVE  IInv'
<1>1. th[p] \in Frames /\ Placed(th[p]) /\ th[p].job = "enable" /\ p \in Writers
      /\ th[p].new \in Tasks /\ session = None
  BY DEF IInv, TypeOK, PlaceInv, Placed, Activate, At, Writers, Holds, SoleInv, Entering
<1>2. UNCHANGED <<perm, turn, event, running, dirty, started, raced, cleanup, quarantined>>
  BY DEF Activate, codex, blocks
<1>3. Types'
  <2>1. faults' \in 0..MaxFaults /\ calls' \in 0..MaxCalls
    BY Bounded DEF Activate
  <2>2. session' \in Tasks \cup {None} /\ lapsed' \in BOOLEAN
    BY <1>1 DEF Activate, IInv, TypeOK, grant
  <2> QED BY <1>2, <2>1, <2>2 DEF IInv, TypeOK, Types
<1>4. Readers = {}
  BY <1>1 DEF IInv, BarrierInv
<1>5. \A t \in Tasks : (Leftover(t)' => Leftover(t)) /\ (Known(t) => Known(t)')
  BY <1>1, <1>2, NamesAssumption DEF Leftover, Known, Blocked, Elevated
<1>6. Remembered
  BY <1>2, <1>4, <1>5 DEF Remembered
<1>7. ElevatedIsMarked'
  BY <1>2 DEF IInv, ElevatedIsMarked, Elevated
<1>8. Idle \in Frames /\ Placed(Idle) /\ ~Reads(Idle) /\ ~Writes(Idle) /\ Recovered(Idle)'
      /\ ~Entering(Idle)
  BY DEF Entering, Idle, Frames, Placed, Reads, Writes, Recovered, Calls, Changes, Cleanups
<1>9. th' = [th EXCEPT ![p] = Idle]
  BY DEF Activate, Return
<1>10. PICK r \in Frames :
         /\ th' = [th EXCEPT ![p] = r] /\ Placed(r) /\ ~Reads(r) /\ ~Writes(r) /\ Recovered(r)'
         /\ ~Entering(r)
  BY <1>8, <1>9
<1> QED BY <1>1, <1>2, <1>3, <1>6, <1>7, <1>10, Moved

LEMMA LookStep ==
    ASSUME IInv, NEW p \in Threads, Look(p)
    PROVE  IInv'
<1>1. th[p] \in Frames /\ Placed(th[p]) /\ th[p].job = "off" /\ p \in Writers
  BY DEF IInv, TypeOK, PlaceInv, Placed, Look, At, Writers, Holds
<1>2. UNCHANGED <<perm, turn, event, running, dirty, session, lapsed, started, raced, faults, calls>>
      /\ cleanup' = cleanup \cup Lapsed
      /\ quarantined' \in {quarantined, quarantined \cup ({session} \ {None})}
  BY DEF Look, codex, grant, bounds
<1>3. Types'
  BY <1>2 DEF IInv, TypeOK, Types, Lapsed
<1>4. PICK r \in Frames :
        /\ th' = [th EXCEPT ![p] = r] /\ r.job = "off" /\ r.pc \in {"mark", "revoke"}
        /\ r.pc = "mark" => r.at \in Tasks
  <2>1. CASE Goto(p, "revoke")
    <3>1. PICK r \in Frames : /\ th' = [th EXCEPT ![p] = r] /\ r.pc = "revoke" /\ r.job = th[p].job
      BY <2>1, Went
    <3> QED BY <1>1, <3>1
  <2>2. CASE /\ session # None
             /\ th' = [th EXCEPT ![p].at = session, ![p].pc = "mark"]
    <3> DEFINE s == [th[p] EXCEPT !.at = session, !.pc = "mark"]
    <3>1. s \in Frames /\ s.job = "off" /\ s.pc = "mark" /\ s.at \in Tasks
      BY <1>1, <2>2 DEF Frames, IInv, TypeOK
    <3>2. th' = [th EXCEPT ![p] = s]
      BY <1>1, <2>2 DEF IInv, TypeOK
    <3> HIDE DEF s
    <3> QED BY <3>1, <3>2
  <2> QED BY <2>1, <2>2 DEF Look
<1>5. Placed(r) /\ ~Reads(r) /\ ~Entering(r) /\ Recovered(r)'
  BY <1>4 DEF Placed, Reads, Entering, Recovered, Calls, Changes, Cleanups
<1> QED BY <1>1, <1>2, <1>3, <1>4, <1>5, QuietStep

LEMMA RevokeStep ==
    ASSUME IInv, NEW p \in Threads, Revoke(p)
    PROVE  IInv'
<1>1. th[p] \in Frames /\ Placed(th[p]) /\ th[p].job = "off" /\ p \in Writers
  BY DEF IInv, TypeOK, PlaceInv, Placed, Revoke, At, Writers, Holds
<1>2. UNCHANGED <<perm, turn, event, running, dirty, started, raced, quarantined>>
  BY DEF Revoke, codex
<1>3. \/ NoSession /\ cleanup' = cleanup \cup Taken
      \/ UNCHANGED <<session, lapsed>> /\ cleanup' = cleanup \cup Lapsed
  BY DEF Revoke, grant
<1>4. Types'
  <2>1. faults' \in 0..MaxFaults /\ calls' \in 0..MaxCalls
    BY Bounded DEF Revoke
  <2> QED BY <1>2, <1>3, <2>1 DEF IInv, TypeOK, Types, NoSession, Taken, Lapsed
<1>5. Readers = {}
  BY <1>1 DEF IInv, BarrierInv
<1>6. Remembered /\ ElevatedIsMarked'
  <2>1. CASE NoSession /\ cleanup' = cleanup \cup Taken
    BY <1>2, <1>5, <2>1, Ended DEF NoSession, Taken
  <2>2. CASE UNCHANGED <<session, lapsed>> /\ cleanup' = cleanup \cup Lapsed
    BY <1>2, <2>2, Calm DEF Elevated
  <2> QED BY <1>3, <2>1, <2>2
<1>7. PICK r \in Frames :
        /\ th' = [th EXCEPT ![p] = r] /\ Placed(r) /\ ~Reads(r) /\ ~Entering(r) /\ Recovered(r)'
        /\ r.job \in {"none", "off"}
  <2>1. CASE Return(p)
    <3>1. Idle \in Frames /\ Placed(Idle) /\ ~Reads(Idle) /\ ~Entering(Idle) /\ Recovered(Idle)'
          /\ Idle.job = "none"
      BY DEF Idle, Frames, Placed, Reads, Entering, Recovered, Calls, Cleanups
    <3> QED BY <2>1, <3>1 DEF Return
  <2>2. CASE th[p].at # None /\ Goto(p, "lease")
    <3>1. PICK r \in Frames :
            /\ th' = [th EXCEPT ![p] = r] /\ r.pc = "lease" /\ r.job = th[p].job /\ r.at = th[p].at
      BY <2>2, Went
    <3>2. r.at \in Tasks /\ r.job = "off"
      BY <1>1, <2>2, <3>1 DEF Frames
    <3>3. Placed(r) /\ ~Reads(r) /\ ~Entering(r) /\ Recovered(r)'
      BY <3>1, <3>2 DEF Placed, Reads, Entering, Recovered, Calls, Cleanups
    <3> QED BY <3>1, <3>2, <3>3
  <2> QED BY <2>1, <2>2 DEF Revoke
<1>8. session' \in {session, None}
  BY <1>3 DEF NoSession
<1> QED BY <1>1, <1>2, <1>4, <1>6, <1>7, <1>8, Moved

LEMMA TickStep ==
    ASSUME IInv, NEW p \in Threads, Tick(p)
    PROVE  IInv'
<1>1. UNCHANGED <<perm, turn, event, running, dirty, started, raced, faults, calls>>
      /\ Readers = {} /\ Exclusive
  BY DEF Tick, codex, bounds, Exclusive
<1>2. CASE session # None /\ lapsed
  <2>1. /\ session' = None /\ lapsed' = FALSE /\ cleanup' = cleanup \cup {session}
        /\ quarantined' = quarantined \cup {session} /\ Begin(p, "expired", session, "mark")
    BY <1>2 DEF Tick, NoSession, Expired
  <2>2. Types' /\ session \in Tasks
    BY <1>1, <1>2, <2>1 DEF IInv, TypeOK, Types
  <2>3. Remembered /\ ElevatedIsMarked'
    BY <1>1, <2>1, Ended
  <2>4. PICK r \in Frames :
          /\ th' = [th EXCEPT ![p] = r] /\ r.pc = "mark" /\ r.job = "expired" /\ r.at \in Tasks
    <3> DEFINE s == [Idle EXCEPT !.pc = "mark", !.job = "expired", !.at = session]
    <3>1. s \in Frames /\ s.pc = "mark" /\ s.job = "expired" /\ s.at \in Tasks
      BY <2>2 DEF Idle, Frames
    <3>2. th' = [th EXCEPT ![p] = s]
      BY <2>1 DEF Begin
    <3> HIDE DEF s
    <3> QED BY <3>1, <3>2
  <2>5. Placed(r) /\ ~Reads(r) /\ ~Writes(r) /\ ~Entering(r) /\ Recovered(r)'
    BY <2>4 DEF Placed, Reads, Writes, Entering, Recovered, Calls, Changes, Cleanups
  <2> QED BY <1>1, <2>1, <2>2, <2>3, <2>4, <2>5, Moved
<1>3. CASE ~(session # None /\ lapsed)
  <2>1. UNCHANGED <<session, lapsed, cleanup, quarantined>> /\ th' = [th EXCEPT ![p] = Loop(quarantined)]
    BY <1>3 DEF Tick, grant, blocks
  <2>2. Types' /\ quarantined \in SUBSET Tasks
    BY <1>1, <2>1 DEF IInv, TypeOK, Types
  <2>3. PICK todo \in SUBSET Tasks : th' = [th EXCEPT ![p] = Loop(todo)]
    BY <2>1, <2>2
  <2>4. /\ Loop(todo) \in Frames /\ Placed(Loop(todo)) /\ ~Reads(Loop(todo))
        /\ ~Writes(Loop(todo)) /\ ~Entering(Loop(todo)) /\ Recovered(Loop(todo))'
    BY LoopFacts DEF Recovered
  <2> QED BY <1>1, <2>1, <2>2, <2>3, <2>4, QuietStep
<1> QED BY <1>2, <1>3

LEMMA NextTaskStep ==
    ASSUME IInv, NEW p \in Threads, NextTask(p)
    PROVE  IInv'
<1>1. th[p] \in Frames /\ Placed(th[p]) /\ th[p].pc = "next" /\ Recovered(th[p])
  BY DEF IInv, TypeOK, PlaceInv, NextTask, At, RecoverInv
<1>2. PICK t \in th[p].todo :
        /\ th' = [th EXCEPT ![p].at = t, ![p].todo = @ \ {t}, ![p].pc = "lease"]
        /\ quarantined' = IF th[p].job = "recover" THEN quarantined \cup {t} ELSE quarantined
  BY DEF NextTask
<1>3. t \in Tasks
  BY <1>1, <1>2 DEF Frames
<1>4. UNCHANGED <<perm, turn, event, running, dirty, session, lapsed, cleanup, started, raced,
                  faults, calls>>
  BY DEF NextTask, codex, grant, bounds
<1>5. Types' /\ quarantined \subseteq quarantined'
  BY <1>2, <1>3, <1>4 DEF IInv, TypeOK, Types
<1>6. PICK r \in Frames :
        /\ th' = [th EXCEPT ![p] = r] /\ r.pc = "lease" /\ r.at = t /\ r.job = th[p].job
        /\ r.new = th[p].new /\ r.todo = th[p].todo \ {t}
  <2> DEFINE s == [th[p] EXCEPT !.at = t, !.todo = @ \ {t}, !.pc = "lease"]
  <2>1. s \in Frames /\ s.pc = "lease" /\ s.at = t /\ s.job = th[p].job
        /\ s.new = th[p].new /\ s.todo = th[p].todo \ {t}
    BY <1>1, <1>3 DEF Frames
  <2>2. th' = [th EXCEPT ![p] = s]
    BY <1>1, <1>2 DEF IInv, TypeOK
  <2> HIDE DEF s
  <2> QED BY <2>1, <2>2
<1>7. Recovered(r)'
  <2> SUFFICES ASSUME th[p].job = "recover", NEW u \in Tasks, Leftover(u)'
               PROVE  Known(u)' \/ (r.pc # "replay" /\ u \in r.todo)
    BY <1>6 DEF Recovered
  <2>1. Known(u) \/ u \in th[p].todo
    BY <1>1, <1>4 DEF Recovered, Leftover, Elevated
  <2> QED BY <1>2, <1>4, <1>6, <2>1 DEF Known, Blocked
<1>8. /\ Placed(r) /\ ~Reads(r) /\ (Writes(r) => p \in Writers)
      /\ (Entering(r) => Entering(th[p]))
  BY <1>1, <1>3, <1>6, CleanupMoves
<1>9. ~Entering(r)
  BY <1>1, <1>6 DEF Entering, Placed
<1> QED BY <1>4, <1>5, <1>6, <1>7, <1>8, <1>9, QuietStep

-----------------------------------------------------------------------------
(* Turns that end, the start-up, and what no thread does                     *)

LEMMA CompletedStep ==
    ASSUME IInv, NEW p \in Threads, NEW t \in Tasks, Completed(p, t)
    PROVE  IInv'
<1>1. UNCHANGED <<perm, turn, dirty, session, lapsed, cleanup, quarantined, started, raced>>
      /\ event' = event \ {t} /\ running' \in {running, running \ {t}}
  BY DEF Completed, grant, blocks
<1>2. Types'
  <2>1. faults' \in 0..MaxFaults /\ calls' \in 0..MaxCalls
    BY Bounded DEF Completed
  <2> QED BY <1>1, <2>1 DEF IInv, TypeOK, Types
<1>3. CASE Begin(p, "complete", t, "judge")
  <2> DEFINE s == [Idle EXCEPT !.pc = "judge", !.job = "complete", !.at = t]
  <2>1. s \in Frames /\ s.pc = "judge" /\ s.job = "complete" /\ s.at = t
    BY DEF Idle, Frames
  <2>2. th' = [th EXCEPT ![p] = s]
    BY <1>3 DEF Begin
  <2> HIDE DEF s
  <2>3. PICK r \in Frames : /\ th' = [th EXCEPT ![p] = r] /\ r.pc = "judge"
                            /\ r.job = "complete" /\ r.at = t
    BY <2>1, <2>2
  <2>4. Placed(r) /\ ~Reads(r) /\ ~Writes(r) /\ ~Entering(r) /\ Recovered(r)'
    BY <2>3 DEF Placed, Reads, Writes, Entering, Recovered, Calls, Changes, Cleanups
  <2> QED BY <1>1, <1>2, <2>3, <2>4, QuietStep
<1>4. CASE th[p] = Idle /\ UNCHANGED th
  <2>1. Return(p)
    BY <1>4 DEF Return, IInv, TypeOK
  <2> QED BY <1>1, <1>2, <2>1, ReturnStep
<1> QED BY <1>3, <1>4 DEF Completed

LEMMA JudgeStep ==
    ASSUME IInv, NEW p \in Threads, Judge(p)
    PROVE  IInv'
<1>1. th[p] \in Frames /\ Placed(th[p]) /\ th[p].pc = "judge" /\ th[p].at \in Tasks
  BY DEF IInv, TypeOK, PlaceInv, Placed, Judge, At
<1>2. Types' /\ UNCHANGED <<perm, turn, dirty, session, quarantined, started, raced>>
      /\ cleanup \subseteq cleanup'
  BY DEF IInv, TypeOK, Types, Judge, Lapsed, codex, grant, bounds
<1>3. CASE Return(p)
  BY <1>2, <1>3, ReturnStep
<1>4. CASE Goto(p, "lease")
  <2>1. PICK r \in Frames :
          /\ th' = [th EXCEPT ![p] = r] /\ r.pc = "lease" /\ r.job = th[p].job
          /\ r.at = th[p].at /\ r.new = th[p].new
    BY <1>4, Went
  <2>2. /\ Placed(r) /\ ~Reads(r) /\ (Writes(r) => p \in Writers)
        /\ (Entering(r) => Entering(th[p]))
    BY <1>1, <2>1, CleanupMoves
  <2>3. Recovered(r)'
    BY <1>1, <2>1 DEF Placed, Recovered
  <2> QED BY <1>2, <2>1, <2>2, <2>3, QuietStep
<1> QED BY <1>3, <1>4 DEF Judge

\* The marks are all the start-up has to know.
LEMMA BeginStartupStep ==
    ASSUME IInv, NEW p \in Threads, BeginStartup(p)
    PROVE  IInv'
<1>1. th' = [th EXCEPT ![p] = Recovery(dirty)] /\ dirty \in SUBSET Tasks
  BY DEF BeginStartup, IInv, TypeOK
<1>2. PICK todo \in SUBSET Tasks : todo = dirty /\ th' = [th EXCEPT ![p] = Recovery(todo)]
  BY <1>1
<1>3. Types' /\ UNCHANGED <<perm, turn, dirty, session, raced, started, cleanup, quarantined>>
  BY DEF IInv, TypeOK, Types, BeginStartup, codex, grant, blocks, bounds
<1>4. \A t \in Tasks : Leftover(t)' => Known(t)' \/ t \in todo
  BY <1>2, <1>3 DEF IInv, ElevatedIsMarked, Leftover, Elevated, Known
<1>5. Recovered(Recovery(todo))'
  BY <1>4, RecoveryFacts DEF Recovered
<1>6. /\ Recovery(todo) \in Frames /\ Placed(Recovery(todo)) /\ ~Reads(Recovery(todo))
      /\ ~Writes(Recovery(todo)) /\ ~Entering(Recovery(todo))
  BY RecoveryFacts
<1> QED BY <1>2, <1>3, <1>5, <1>6, QuietStep

LEMMA ReplayStep ==
    ASSUME IInv, NEW p \in Threads, Replay(p)
    PROVE  IInv' /\ \A t \in Tasks : perm'[t] = "god" => perm[t] = "god"
<1>1. th[p] \in Frames /\ Placed(th[p]) /\ th[p].pc = "replay" /\ Recovered(th[p])
  BY DEF IInv, TypeOK, PlaceInv, Replay, At, RecoverInv
<1>2. PICK t \in th[p].todo :
        /\ th' = [th EXCEPT ![p].todo = @ \ {t}]
        /\ turn' \in {turn, [turn EXCEPT ![t] = "normal"]}
        /\ perm' \in {perm, [perm EXCEPT ![t] = "normal"]}
        /\ running' \in {running, running \cup {t}, running \ {t}}
  BY DEF Replay, Policy
<1>3. t \in Tasks
  BY <1>1, <1>2 DEF Frames
<1>4. UNCHANGED <<event, dirty, session, lapsed, cleanup, quarantined, started, raced>>
  BY DEF Replay, grant, blocks
<1>5. Types'
  <2>1. faults' \in 0..MaxFaults /\ calls' \in 0..MaxCalls
    BY Bounded DEF Replay
  <2> QED BY <1>2, <1>3, <1>4, <2>1 DEF IInv, TypeOK, Types
<1>6. \A u \in Tasks : perm'[u] = "god" => perm[u] = "god"
  BY <1>2, <1>3 DEF IInv, TypeOK
<1>7. \A u \in Tasks : Elevated(u)' => Elevated(u)
  BY <1>2, <1>3, <1>6 DEF Elevated, IInv, TypeOK
<1>8. Remembered /\ ElevatedIsMarked' /\ \A u \in Tasks : Known(u) => Known(u)'
  BY <1>4, <1>7, Calm
<1>9. PICK r \in Frames :
        /\ th' = [th EXCEPT ![p] = r] /\ r.pc = "replay" /\ r.job = th[p].job /\ r.at = th[p].at
        /\ r.new = th[p].new
  <2> DEFINE s == [th[p] EXCEPT !.todo = @ \ {t}]
  <2>1. s \in Frames /\ s.pc = "replay" /\ s.job = th[p].job /\ s.at = th[p].at
        /\ s.new = th[p].new
    BY <1>1, <1>3 DEF Frames
  <2>2. th' = [th EXCEPT ![p] = s]
    BY <1>1, <1>2 DEF IInv, TypeOK
  <2> HIDE DEF s
  <2> QED BY <2>1, <2>2
<1>10. Recovered(r)'
  <2>1. \A u \in Tasks : Leftover(u)' => Leftover(u)
    BY <1>4, <1>7 DEF Leftover
  <2>2. \A u \in Tasks : Leftover(u) => Known(u)
    BY <1>1 DEF Recovered, Placed
  <2> QED BY <1>8, <2>1, <2>2 DEF Recovered
<1>11. Placed(r) /\ ~Reads(r) /\ ~Writes(r) /\ ~Entering(r)
  BY <1>1, <1>9 DEF Placed, Reads, Writes, Entering, Calls, Changes, Cleanups
<1>12. IInv'
  BY <1>4, <1>5, <1>8, <1>9, <1>10, <1>11, Moved
<1> QED BY <1>6, <1>12

\* The relay opens when every task with a mark is blocked or clean.
LEMMA OpenStep ==
    ASSUME IInv, NEW p \in Threads, Open(p)
    PROVE  IInv'
<1>1. \A t \in Tasks : Leftover(t) => Known(t)
  BY DEF IInv, PlaceInv, RecoverInv, Placed, Recovered, Open, At
<1>2. UNCHANGED <<perm, turn, dirty, session, raced, cleanup, quarantined>> /\ Types'
  BY DEF IInv, TypeOK, Types, Open, codex, grant, blocks, bounds
<1>3. Remembered /\ ElevatedIsMarked'
  BY <1>2, Calm DEF Elevated
<1>4. Idle \in Frames /\ Placed(Idle) /\ ~Reads(Idle) /\ ~Writes(Idle) /\ Recovered(Idle)'
      /\ ~Entering(Idle)
  BY DEF Entering, Idle, Frames, Placed, Reads, Writes, Recovered, Calls, Changes, Cleanups
<1>5. PICK r \in Frames :
        /\ th' = [th EXCEPT ![p] = r] /\ Placed(r) /\ ~Reads(r) /\ ~Writes(r) /\ Recovered(r)'
        /\ ~Entering(r)
  BY <1>4 DEF Open, Return
<1> QED BY <1>1, <1>2, <1>3, <1>5, Moved

\* No thread moves.
LEMMA StayStep ==
    ASSUME IInv, UNCHANGED <<th, session, raced, dirty, cleanup, quarantined, perm>>,
           Types', started' => started, \A t \in Tasks : turn'[t] \in {"none", turn[t]}
    PROVE  IInv'
<1> Monitor \in Threads
  BY DEF Threads
<1>1. \A t \in Tasks : Elevated(t)' => Elevated(t)
  BY DEF Elevated
<1>2. Remembered /\ ElevatedIsMarked' /\ \A t \in Tasks : Known(t) => Known(t)'
  BY <1>1, Calm
<1>3. PICK r \in Frames : r = th[Monitor] /\ th' = [th EXCEPT ![Monitor] = r]
  BY DEF IInv, TypeOK
<1>4. Placed(r) /\ (Reads(r) => Monitor \in Readers) /\ (Writes(r) => Monitor \in Writers)
      /\ Recovered(r)
  BY <1>3 DEF IInv, PlaceInv, RecoverInv, Reads, Writes, Readers, Writers, Holds, Changes
<1>5. Reads(r) => Granted(r)' /\ Ready(r)'
  BY <1>3, <1>4 DEF IInv, GrantInv, MarkInv, Granted, Ready
<1>6. Recovered(r)'
  BY <1>1, <1>2, <1>4 DEF Recovered, Leftover
<1> QED BY <1>2, <1>3, <1>4, <1>5, <1>6, Moved DEF Entering

LEMMA OutsideSteps ==
    ASSUME IInv, Reconnect \/ Lapse \/ \E t \in Tasks : TurnEnds(t)
    PROVE  IInv'
<1>1. UNCHANGED <<th, session, raced, dirty, cleanup, quarantined, perm, running>>
      /\ started' \in {started, FALSE} /\ lapsed' \in BOOLEAN
  <2>1. CASE Reconnect
    BY <2>1 DEF IInv, TypeOK, Reconnect, codex, grant, blocks
  <2>2. CASE Lapse
    BY <2>2 DEF IInv, TypeOK, Lapse, codex, blocks
  <2>3. CASE \E t \in Tasks : TurnEnds(t)
    BY <2>3 DEF IInv, TypeOK, TurnEnds, grant, blocks
  <2> QED BY <2>1, <2>2, <2>3
<1>2. faults' \in 0..MaxFaults /\ calls' \in 0..MaxCalls
  <2>1. UNCHANGED bounds \/ Fault
    BY DEF Reconnect, Lapse, TurnEnds, Ends
  <2> QED BY <2>1, Bounded
<1>3. /\ turn' \in [Tasks -> {"none", "normal", "god"}] /\ event' \subseteq Tasks
      /\ \A t \in Tasks : turn'[t] \in {"none", turn[t]}
  <2>1. CASE Reconnect \/ Lapse
    BY <2>1 DEF IInv, TypeOK, Reconnect, Lapse, codex
  <2>2. ASSUME NEW t \in Tasks, TurnEnds(t)
        PROVE  turn' = [turn EXCEPT ![t] = "none"] /\ event' \in {event, event \cup {t}}
    BY <2>2 DEF TurnEnds, Ends
  <2>3. CASE \E t \in Tasks : TurnEnds(t)
    <3>1. PICK t \in Tasks : turn' = [turn EXCEPT ![t] = "none"] /\ event' \in {event, event \cup {t}}
      BY <2>2, <2>3
    <3>2. turn \in [Tasks -> {"none", "normal", "god"}] /\ event \subseteq Tasks
      BY DEF IInv, TypeOK
    <3> QED BY <3>1, <3>2
  <2> QED BY <2>1, <2>3
<1>4. Types'
  BY <1>1, <1>2, <1>3 DEF IInv, TypeOK, Types
<1>5. started' => started
  BY <1>1
<1> QED BY <1>1, <1>3, <1>4, <1>5, StayStep

\* A restart forgets the session, the blocks and the threads, and keeps the marks.
Fresh == Types /\ th = [p \in Threads |-> Idle] /\ started = FALSE /\ ElevatedIsMarked

LEMMA Afresh == Fresh => IInv
<1> SUFFICES ASSUME Fresh PROVE IInv
  OBVIOUS
<1> USE DEF Fresh
<1>1. Idle \in Frames /\ Placed(Idle) /\ ~Reads(Idle) /\ ~Writes(Idle) /\ Recovered(Idle)
      /\ ~Entering(Idle)
  BY DEF Entering, Idle, Frames, Placed, Reads, Writes, Recovered, Calls, Changes, Cleanups
<1>2. \A p \in Threads : th[p] = Idle
  OBVIOUS
<1>3. TypeOK
  BY <1>1 DEF Types, TypeOK
<1>4. Readers = {} /\ Writers = {}
  BY <1>1, <1>2 DEF Readers, Writers, Holds, Reads, Writes, Changes
<1>5. PlaceInv /\ BarrierInv /\ SoleInv /\ GrantInv /\ MarkInv /\ RecoverInv
  BY <1>1, <1>2, <1>4 DEF PlaceInv, BarrierInv, SoleInv, GrantInv, MarkInv, RecoverInv
<1>6. EndedIsBlocked
  BY DEF EndedIsBlocked
<1> QED BY <1>3, <1>5, <1>6 DEF IInv

LEMMA RestartStep ==
    ASSUME IInv, Restart
    PROVE  IInv'
<1>1. Types'
  <2>1. faults' \in 0..MaxFaults /\ calls' \in 0..MaxCalls
    BY Bounded DEF Restart
  <2> QED BY <2>1 DEF IInv, TypeOK, Types, Restart, NoSession
<1>2. ElevatedIsMarked'
  <2> SUFFICES ASSUME NEW t \in Tasks, Elevated(t)' PROVE t \in dirty' \cup raced'
    BY DEF ElevatedIsMarked
  <2>1. Elevated(t)
    BY DEF Restart, Elevated
  <2> QED BY <2>1 DEF Restart, IInv, ElevatedIsMarked
<1>3. Fresh'
  BY <1>1, <1>2 DEF Restart, Fresh
<1> QED BY <1>3, Afresh, PTL

LEMMA InitInv == Init => IInv
<1> SUFFICES ASSUME Init PROVE IInv
  OBVIOUS
<1>1. Types
  <2>1. faults \in 0..MaxFaults /\ calls \in 0..MaxCalls
    BY NamesAssumption DEF Init
  <2>2. /\ perm \in [Tasks -> {"normal", "god"}] /\ turn \in [Tasks -> {"none", "normal", "god"}]
        /\ session \in Tasks \cup {None} /\ lapsed \in BOOLEAN /\ started \in BOOLEAN
    BY DEF Init
  <2> QED BY <2>1, <2>2 DEF Init, Types
<1>2. ElevatedIsMarked
  BY DEF Init, ElevatedIsMarked, Elevated
<1> QED BY <1>1, <1>2, Afresh DEF Init, Fresh

-----------------------------------------------------------------------------
(* The theorems                                                             *)

\* Every step keeps the invariant, and permissions rise for the session's task only.
LEMMA NextInv ==
    ASSUME IInv, [Next]_vars
    PROVE  IInv' /\ \A t \in Tasks : perm[t] # "god" /\ perm'[t] = "god" => session = t
<1> DEFINE Rise == \A t \in Tasks : perm[t] # "god" /\ perm'[t] = "god" => session = t
<1>1. ASSUME NEW p \in Threads, Step(p) PROVE IInv' /\ Rise
  <2>1. CASE Send(p) \/ SendFails(p)
    BY <2>1, SendStep
  <2>2. CASE Normalize(p)
    BY <2>2, NormalizeStep
  <2>3. CASE Replay(p)
    BY <2>3, ReplayStep
  <2>4. CASE Mark(p) \/ MarkFails(p) \/ Enter(p) \/ Check(p) \/ WriteRow(p)
    <3>1. UNCHANGED perm
      BY <2>4 DEF Mark, MarkFails, Enter, Check, WriteRow, codex
    <3> QED BY <2>4, <3>1, MarkStep, MarkFailsStep, EnterStep, CheckStep, WriteRowStep
  <2>5. CASE Lease(p) \/ LeaseTaken(p) \/ Interrupt(p) \/ Clear(p) \/ KeepBlocked(p)
    <3>1. UNCHANGED perm
      BY <2>5 DEF Lease, LeaseTaken, Interrupt, Clear, KeepBlocked, codex
    <3> QED BY <2>5, <3>1, LeaseStep, LeaseTakenStep, InterruptStep, ClearStep
  <2>6. CASE Transition(p) \/ Denied(p) \/ Auth(p) \/ Activate(p) \/ Look(p) \/ Revoke(p)
    <3>1. UNCHANGED perm
      BY <2>6 DEF Transition, Denied, Auth, Activate, Look, Revoke, codex
    <3> QED BY <2>6, <3>1, TransitionStep, DeniedStep, AuthStep, ActivateStep, LookStep, RevokeStep
  <2>7. CASE Tick(p) \/ NextTask(p) \/ (\E t \in Tasks : Completed(p, t)) \/ Judge(p)
             \/ BeginStartup(p) \/ Open(p)
    <3>1. UNCHANGED perm
      BY <2>7 DEF Tick, NextTask, Completed, Judge, BeginStartup, Open, codex
    <3> QED BY <2>7, <3>1, TickStep, NextTaskStep, CompletedStep, JudgeStep, BeginStartupStep,
               OpenStep
  <2> QED BY <1>1, <2>1, <2>2, <2>3, <2>4, <2>5, <2>6, <2>7 DEF Step
<1>2. ASSUME NEW p \in Owners,
             BeginOff(p) \/ \E t \in Tasks : BeginDispatch(p, t) \/ BeginEnable(p, t)
      PROVE  IInv' /\ Rise
  <2>1. UNCHANGED perm
    BY <1>2 DEF BeginOff, BeginDispatch, BeginEnable, codex
  <2> QED BY <1>2, <2>1, BeginSteps
<1>3. CASE Reconnect \/ Lapse \/ \E t \in Tasks : TurnEnds(t)
  <2>1. UNCHANGED perm
    BY <1>3 DEF Reconnect, Lapse, TurnEnds, codex
  <2> QED BY <1>3, <2>1, OutsideSteps
<1>4. CASE Restart
  <2>1. UNCHANGED perm
    BY <1>4 DEF Restart
  <2> QED BY <1>4, <2>1, RestartStep
<1>5. CASE UNCHANGED vars
  <2>1. UNCHANGED <<th, session, raced, dirty, cleanup, quarantined, perm, turn, started, event,
                    running, lapsed, faults, calls>>
    BY <1>5 DEF vars, codex, grant, blocks, bounds
  <2>2. Types' /\ \A t \in Tasks : turn'[t] \in {"none", turn[t]}
    BY <2>1 DEF IInv, TypeOK, Types
  <2> QED BY <2>1, <2>2, StayStep
<1> QED BY <1>1, <1>2, <1>3, <1>4, <1>5 DEF Next

\* The invariant holds in every behaviour.
THEOREM GodInductive == Spec => []IInv
<1>1. Init => IInv
  BY InitInv
<1>2. IInv /\ [Next]_vars => IInv'
  BY NextInv
<1> QED BY <1>1, <1>2, PTL DEF Spec

\* The state has its type.
THEOREM GodTypeCorrect == Spec => []TypeOK
<1>1. IInv => TypeOK
  BY DEF IInv
<1> QED BY <1>1, GodInductive, PTL

\* Permissions rise only for the task of the session (bot.rs, dispatch_task_input under
\* the dispatch barrier, enable_god and god_off under its exclusive side).
THEOREM GrantsHeld == Spec => GrantHeld
<1>1. IInv /\ [Next]_vars =>
        [\A t \in Tasks : perm[t] # "god" /\ perm'[t] = "god" => session = t]_vars
  BY NextInv
<1> QED BY <1>1, GodInductive, PTL DEF Spec, GrantHeld

\* A task with full access has the mark a restart finds (mark_god_dirty before the
\* request, clear_god_dirty after the cleanup), but for the races observed.
THEOREM ElevatedMarked == Spec => []ElevatedIsMarked
<1>1. IInv => ElevatedIsMarked
  BY DEF IInv
<1> QED BY <1>1, GodInductive, PTL

\* When the relay takes input, a task that still has full access without a session is
\* blocked (quarantine and cleanup_required), but for the races observed.
THEOREM EndedBlocked == Spec => []EndedIsBlocked
<1>1. IInv => EndedIsBlocked
  BY DEF IInv
<1> QED BY <1>1, GodInductive, PTL
=============================================================================
