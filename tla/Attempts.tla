------------------------------- MODULE Attempts -------------------------------
(***************************************************************************)
(* The limit on passwords for GOD mode: rate_limit.rs, as                   *)
(* authenticate_pending (service.rs) uses it.  Attempts come one after the  *)
(* other: enable_god has the lifecycle to itself while it checks one.       *)
(* Times are whole steps of a clock that does not go back.                  *)
(***************************************************************************)
EXTENDS Naturals, Sequences

CONSTANTS
    MaxFailures, Window, Lockout, \* 5 failures, 5 minutes, 15 minutes
    MaxNow, MaxAttempts           \* bounds: the clock, and how often one tries

VARIABLES
    now,         \* the clock
    failures,    \* AttemptState: the times of the failures that count
    lockedUntil, \* AttemptState: 0 when it is not locked
    verdicts,    \* observed: [at, right] of each password that was compared
    refused      \* observed: the times at which one was not compared at all

vars == <<now, failures, lockedUntil, verdicts, refused>>

Init == now = 1 /\ failures = <<>> /\ lockedUntil = 0 /\ verdicts = <<>> /\ refused = <<>>

-----------------------------------------------------------------------------
Locked == now < lockedUntil

(* Mutant of Counting: one that is too old takes all with it.               *)
CountingAllOrNone(times) ==
    IF times # <<>> /\ times[1] + Window <= now THEN <<>> ELSE times
(* prune: from the front, as long as they are too old.                      *)
TooOld(t) == t + Window <= now
Stale(times) ==
    CHOOSE n \in 0..Len(times) :
        /\ \A k \in 1..n : TooOld(times[k])
        /\ n < Len(times) => ~TooOld(times[n + 1])
Counting(times) == SubSeq(times, Stale(times) + 1, Len(times))

(* A lock that is over takes the failures before it along.                  *)
Current == IF lockedUntil # 0 THEN <<>> ELSE Counting(failures)

Tick ==
    /\ now < MaxNow /\ now' = now + 1
    /\ UNCHANGED <<failures, lockedUntil, verdicts, refused>>

Left == Len(verdicts) + Len(refused) < MaxAttempts

(* status: it is locked, and the password is not looked at.                 *)
Refuse ==
    /\ Locked /\ Left
    /\ refused' = Append(refused, now)
    /\ UNCHANGED <<now, failures, lockedUntil, verdicts>>

(* status and record_failure: the audit comes after, so that one that       *)
(* cannot be written does not undo the count.                               *)
Wrong ==
    /\ ~Locked /\ Left
    /\ verdicts' = Append(verdicts, [at |-> now, right |-> FALSE])
    /\ LET all == Append(Current, now) IN
       IF Len(all) >= MaxFailures
       THEN failures' = <<>> /\ lockedUntil' = now + Lockout
       ELSE failures' = all /\ lockedUntil' = 0
    /\ UNCHANGED <<now, refused>>

(* status and reset.                                                        *)
Right ==
    /\ ~Locked /\ Left
    /\ verdicts' = Append(verdicts, [at |-> now, right |-> TRUE])
    /\ failures' = <<>> /\ lockedUntil' = 0
    /\ UNCHANGED <<now, refused>>

Next == Tick \/ Refuse \/ Wrong \/ Right

Spec == Init /\ [][Next]_vars

-----------------------------------------------------------------------------
TypeOK ==
    /\ now \in 1..MaxNow /\ lockedUntil \in 0..(MaxNow + Lockout)
    /\ Len(failures) < MaxFailures
    /\ \A i \in DOMAIN failures : failures[i] \in 1..now

(* The last failures up to the i-th verdict make a lock: so many of them    *)
(* within the window with no right one between.                             *)
Locks(i) ==
    /\ i >= MaxFailures
    /\ \A k \in (i - MaxFailures + 1)..i : ~verdicts[k].right
    /\ verdicts[i].at < verdicts[i - MaxFailures + 1].at + Window

(* No password is looked at within the lockout after a failure that makes a *)
(* lock; and none is refused but within such a lockout.                     *)
LockHolds ==
    /\ \A i \in DOMAIN verdicts : Locks(i) =>
         \A j \in DOMAIN verdicts : j > i => verdicts[j].at >= verdicts[i].at + Lockout
    /\ \A r \in DOMAIN refused : \E i \in DOMAIN verdicts :
         Locks(i) /\ verdicts[i].at <= refused[r] /\ refused[r] < verdicts[i].at + Lockout

-----------------------------------------------------------------------------
(* Why it holds.  Verdicts and refusals are recorded in the order of time.  *)
InOrder ==
    /\ now \in Nat /\ verdicts \in Seq([at : Nat, right : BOOLEAN])
    /\ refused \in Seq(Nat) /\ \A r \in DOMAIN refused : refused[r] <= now
    /\ \A i \in DOMAIN verdicts :
        /\ verdicts[i].at <= now
        /\ \A j \in DOMAIN verdicts : i <= j => verdicts[i].at <= verdicts[j].at

(* The failures that count are the last verdicts, all wrong; the one before *)
(* them was right, or is too old to count.                                  *)
FailuresAreLast ==
    LET n == Len(verdicts)
        f == Len(failures)
    IN  /\ failures \in Seq(Nat) /\ f < MaxFailures /\ f <= n
        /\ \A k \in 1..f : verdicts[n - f + k] = [at |-> failures[k], right |-> FALSE]
        /\ f < n /\ lockedUntil = 0 => verdicts[n - f].right \/ TooOld(verdicts[n - f].at)

(* There is a lock exactly where the last verdict makes one.                *)
LockIsLast ==
    /\ lockedUntil # 0 =>
        /\ verdicts # <<>> /\ failures = <<>> /\ Locks(Len(verdicts))
        /\ lockedUntil = verdicts[Len(verdicts)].at + Lockout
    /\ verdicts # <<>> /\ Locks(Len(verdicts)) =>
        lockedUntil = verdicts[Len(verdicts)].at + Lockout

IInv == TypeOK /\ InOrder /\ FailuresAreLast /\ LockIsLast /\ LockHolds
=============================================================================
