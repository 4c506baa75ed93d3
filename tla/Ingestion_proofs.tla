--------------------------- MODULE Ingestion_proofs ----------------------------
(***************************************************************************)
(* What holds of the ingestion of messages for any number of messages,      *)
(* gateway sessions and restarts, any page size and any scan limit.         *)
(***************************************************************************)
EXTENDS Ingestion, FiniteSetTheorems, WellFoundedInduction, TLAPS

\* The lock: who is past it holds it, so that only one of them is.
Locked == {"read", "scan", "dispatch", "cursor"}
LockInv ==
    /\ \A m \in Messages : live[m] \in {"dispatch", "cursor"} => lock = Live(m)
    /\ \A s \in Sessions : replay[s] \in Locked => lock = Replay(s)

\* What is not posted yet is unknown to everybody; a session to come does nothing.
FreshInv ==
    /\ \A m \in Messages \ Posted : handed[m] = 0 /\ live[m] = "no"
    /\ \A s \in Sessions : s > sessions => replay[s] = "no"

\* The scan that goes on has everything between the cursor and where it is.
Scanning(s) == replay[s] \in {"scan", "dispatch", "cursor"}
ScanInv ==
    \A s \in Sessions : Scanning(s) =>
        /\ cursor <= after
        /\ \A m \in queued : cursor < m /\ m <= after
        /\ \A m \in Posted : cursor < m /\ m <= after /\ history[m] # "other" => m \in gone \cup queued
        /\ replay[s] = "cursor" => \A m \in queued : handed[m] >= 1
EmptyInv == queued # {} => \E s \in Sessions : Scanning(s)
AloneInv == \A m \in queued \ raced : live[m] = "no"

\* Codex got a message once, and the cursor is past it or about to be.
Moving(m) == m \in queued /\ \E s \in Sessions : replay[s] = "cursor"
Once(m) ==
    /\ handed[m] <= 1
    /\ handed[m] = 1 => \/ live[m] = "cursor"
                        \/ live[m] = "no" /\ (m <= cursor \/ Moving(m))
HandInv ==
    /\ \A m \in Messages \ (unclear \cup raced) : Once(m)
    /\ \A m \in Messages : live[m] = "cursor" => handed[m] >= 1

\* What the cursor is past was seen to, or overtaken.
SkipInv ==
    \A m \in Posted : m <= cursor =>
        history[m] = "other" \/ handed[m] >= 1 \/ m \in told \cup gone \cup overtaken

IInv ==
    /\ TypeOK /\ LockInv /\ FreshInv /\ ScanInv /\ EmptyInv /\ AloneInv /\ HandInv /\ SkipInv

-----------------------------------------------------------------------------
(* Finite sets of messages                                                  *)

LEMMA MaxFacts ==
    ASSUME NEW S \in SUBSET Messages, S # {}
    PROVE  Max(S) \in S /\ \A x \in S : x <= Max(S)
<1> DEFINE T == {MaxMessages - x : x \in S}
<1>1. \A x \in S : x \in Nat /\ x <= MaxMessages /\ MaxMessages - x \in Nat
  BY BoundsAssumption DEF Messages
<1>2. T \subseteq Nat /\ T # {}
  BY <1>1
<1>3. PICK y \in T : \A z \in T : ~(<<z, y>> \in OpToRel(<, Nat))
  BY <1>2, NatLessThanWellFounded, WFMin
<1>4. \A z \in T : ~(z < y)
  BY <1>2, <1>3 DEF OpToRel
<1>5. PICK x \in S : y = MaxMessages - x
  OBVIOUS
<1>6. \A z \in S : x >= z
  <2> SUFFICES ASSUME NEW z \in S PROVE x >= z
    OBVIOUS
  <2>1. ~(MaxMessages - z < MaxMessages - x)
    BY <1>4, <1>5
  <2> QED BY <1>1, <2>1, BoundsAssumption
<1>7. Max(S) \in S /\ \A z \in S : Max(S) >= z
  BY <1>6 DEF Max
<1> QED BY <1>1, <1>7

LEMMA FiniteMessages == ASSUME NEW S \in SUBSET Messages PROVE IsFiniteSet(S) /\ Cardinality(S) \in Nat
<1>1. IsFiniteSet(Messages)
  BY BoundsAssumption, FS_Interval DEF Messages
<1> QED BY <1>1, FS_Subset, FS_CardinalityType

LEMMA PostedMessages ==
    ASSUME TypeOK
    PROVE  Posted = 1..Len(history) /\ Len(history) \in Nat /\ Posted \subseteq Messages
BY BoundsAssumption DEF TypeOK, Posted, Messages

\* One thread at most is past the lock.
LEMMA OneHolder ==
    ASSUME LockInv
    PROVE  /\ \A s \in Sessions : replay[s] \in Locked =>
                /\ \A m \in Messages : live[m] \notin {"dispatch", "cursor"}
                /\ \A u \in Sessions : replay[u] \in Locked => u = s
           /\ \A m \in Messages : live[m] \in {"dispatch", "cursor"} =>
                /\ \A s \in Sessions : replay[s] \notin Locked
                /\ \A x \in Messages : live[x] \in {"dispatch", "cursor"} => x = m
           /\ lock = Free => /\ \A s \in Sessions : replay[s] \notin Locked
                             /\ \A m \in Messages : live[m] \notin {"dispatch", "cursor"}
BY LockAssumption DEF LockInv, Live, Replay

LEMMA InitInv == Init => IInv
<1> SUFFICES ASSUME Init PROVE IInv
  OBVIOUS
<1>1. TypeOK
  <2>1. /\ history \in Seq({"text", "god", "other"}) /\ Len(history) = 0 /\ Posted = {}
    BY DEF Init, Posted
  <2>2. /\ lock \in {Free} \cup {Live(m) : m \in Messages} \cup {Replay(s) : s \in Sessions}
        /\ live \in [Messages -> {"no", "missed", "event", "lock", "dispatch", "cursor"}]
        /\ replay \in [Sessions -> {"no", "gate", "lock", "read", "scan", "dispatch", "cursor", "open"}]
        /\ handed \in [Messages -> 0..2]
    BY DEF Init
  <2>3. scanned \in 0..ScanLimit /\ sessions \in 0..MaxSessions /\ restarts \in 0..MaxRestarts
        /\ cursor \in 0..Len(history) /\ after \in 0..Len(history)
    BY <2>1, BoundsAssumption DEF Init
  <2>4. /\ gone = {} /\ link = "down" /\ ready \in BOOLEAN /\ queued = {} /\ told = {}
        /\ unclear = {} /\ raced = {} /\ overtaken = {}
    BY DEF Init
  <2>5. Len(history) <= MaxMessages
    BY <2>1, BoundsAssumption
  <2> QED BY <2>1, <2>2, <2>3, <2>4, <2>5 DEF TypeOK
<1>2. LockInv /\ FreshInv /\ ScanInv /\ EmptyInv /\ AloneInv /\ HandInv /\ SkipInv
  BY DEF Init, LockInv, FreshInv, ScanInv, Scanning, EmptyInv, AloneInv, HandInv, Once, SkipInv,
         Posted, Locked
<1> QED BY <1>1, <1>2 DEF IInv

-----------------------------------------------------------------------------
(* Discord                                                                  *)

\* Everything but Discord stays: what holds of the ingestion does too.
LEMMA QuietStep ==
    ASSUME IInv, TypeOK', UNCHANGED <<history, cursor, replay, after, queued, handed, lock, live,
                                      told, unclear, raced, overtaken, sessions>>, gone \subseteq gone'
    PROVE  IInv'
<1> USE DEF IInv
<1>1. Posted' = Posted
  BY DEF Posted
<1>2. LockInv' /\ FreshInv' /\ EmptyInv' /\ AloneInv'
  BY <1>1 DEF LockInv, FreshInv, EmptyInv, AloneInv, Scanning
<1>3. ScanInv'
  BY <1>1 DEF ScanInv, Scanning
<1>4. HandInv' /\ SkipInv'
  BY <1>1 DEF HandInv, Once, Moving, SkipInv
<1> QED BY <1>2, <1>3, <1>4

LEMMA LinkSteps ==
    ASSUME IInv, Lose \/ \E m \in Messages : Purge(m)
    PROVE  IInv'
<1>1. UNCHANGED <<history, cursor, replay, after, scanned, queued, handed, lock, live, told, unclear,
                  raced, overtaken, sessions, ready, restarts>> /\ gone \subseteq gone'
      /\ link' \in {link, "lost"} /\ gone' \subseteq gone \cup told
  BY DEF Lose, Purge, replays, observed
<1>2. TypeOK'
  BY <1>1 DEF IInv, TypeOK, Posted
<1> QED BY <1>1, <1>2, QuietStep

LEMMA PostStep ==
    ASSUME IInv, NEW kind \in {"text", "god", "other"}, Post(kind)
    PROVE  IInv'
<1> USE DEF IInv
<1> DEFINE n == Len(history) + 1
<1>1. /\ Posted = 1..Len(history) /\ Len(history) \in Nat /\ n \in Messages /\ n \notin Posted
      /\ Posted \subseteq Messages
  BY PostedMessages, BoundsAssumption DEF Post, Messages
<1>2. PICK l \in {"no", "missed", "event"} : live' = [live EXCEPT ![n] = l]
  <2>1. (CASE kind = "other" \/ link = "down" -> "no"
           [] link = "lost" -> "missed"
           [] link = "up" -> "event") \in {"no", "missed", "event"}
    BY DEF TypeOK
  <2> QED BY <2>1 DEF Post
<1>3. /\ history' = Append(history, kind)
      /\ UNCHANGED <<gone, link, sessions, ready, lock, cursor, replay, after, scanned, queued,
                     handed, told, unclear, raced, overtaken, restarts>>
  BY DEF Post, replays, observed
<1>4. /\ history' \in Seq({"text", "god", "other"}) /\ Len(history') = n
      /\ Posted' = Posted \cup {n} /\ \A m \in Posted : history'[m] = history[m]
  BY <1>1, <1>3 DEF TypeOK, Posted
<1>5. /\ live' \in [Messages -> {"no", "missed", "event", "lock", "dispatch", "cursor"}]
      /\ \A m \in Messages \ {n} : live'[m] = live[m]
      /\ live'[n] \in {"no", "missed", "event"}
  BY <1>1, <1>2 DEF TypeOK
<1>6. cursor \in 0..Len(history) /\ after \in 0..Len(history) /\ queued \subseteq Posted
  BY DEF TypeOK
<1>7. TypeOK'
  <2>1. n <= MaxMessages
    BY <1>1 DEF Messages
  <2>2. cursor' \in 0..Len(history') /\ after' \in 0..Len(history')
    BY <1>1, <1>3, <1>4, <1>6
  <2> HIDE DEF n
  <2> QED BY <1>3, <1>4, <1>5, <2>1, <2>2 DEF TypeOK
<1> HIDE DEF n
<1>8. LockInv'
  BY <1>3, <1>5 DEF LockInv
<1>9. FreshInv'
  BY <1>3, <1>4, <1>5 DEF FreshInv
<1>10. ScanInv'
  <2> SUFFICES ASSUME NEW s \in Sessions, Scanning(s)
               PROVE  \A m \in Posted' : cursor < m /\ m <= after /\ history'[m] # "other"
                        => m \in gone \cup queued
    BY <1>3 DEF ScanInv, Scanning
  <2>1. ~(n <= after)
    BY <1>1, <1>6 DEF n
  <2> QED BY <1>4, <2>1 DEF ScanInv
<1>11. EmptyInv'
  BY <1>3 DEF EmptyInv, Scanning
<1>12. AloneInv'
  BY <1>1, <1>3, <1>5, <1>6 DEF AloneInv
<1>13. HandInv'
  <2>1. handed[n] = 0
    BY <1>1 DEF FreshInv
  <2>2. \A m \in Messages \ (unclear \cup raced) : Once(m)'
    BY <1>3, <1>5, <2>1 DEF HandInv, Once, Moving
  <2>3. \A m \in Messages : live'[m] = "cursor" => handed'[m] >= 1
    BY <1>3, <1>5 DEF HandInv
  <2> QED BY <1>3, <2>2, <2>3 DEF HandInv
<1>14. SkipInv'
  <2>1. ~(n <= cursor)
    BY <1>1, <1>6 DEF n
  <2> QED BY <1>3, <1>4, <2>1 DEF SkipInv
<1> QED BY <1>7, <1>8, <1>9, <1>10, <1>11, <1>12, <1>13, <1>14

\* A resumed session brings the events that were missed, a new one does not.
Delivered ==
    \A m \in Messages : live'[m] = live[m] \/ (live[m] = "missed" /\ live'[m] \in {"event", "no"})
Connected ==
    /\ \A s \in Sessions :
            replay'[s] = replay[s] \/ (replay'[s] = "gate" /\ replay[s] \notin Locked)
    /\ \A s \in Sessions : s > sessions' => replay'[s] = "no"
LEMMA EventsStep ==
    ASSUME IInv, TypeOK', Delivered, Connected,
           UNCHANGED <<history, gone, cursor, after, queued, handed, lock, told, unclear, raced,
                       overtaken>>
    PROVE  IInv'
<1> USE DEF IInv, Delivered, Connected
<1>1. Posted' = Posted /\ \A s \in Sessions : Scanning(s)' <=> Scanning(s)
  BY DEF Posted, Scanning, Locked
<1>3. LockInv'
  <2>1. \A m \in Messages : live'[m] \in {"dispatch", "cursor"} => live[m] \in {"dispatch", "cursor"}
    OBVIOUS
  <2>2. \A s \in Sessions : replay'[s] \in Locked => replay[s] \in Locked
    BY DEF Locked
  <2> QED BY <2>1, <2>2 DEF LockInv
<1>4. FreshInv'
  BY <1>1 DEF FreshInv
<1>5. ScanInv' /\ EmptyInv'
  <2>1. \A s \in Sessions : replay'[s] = "cursor" => replay[s] = "cursor"
    OBVIOUS
  <2> QED BY <1>1, <2>1 DEF ScanInv, EmptyInv
<1>6. AloneInv'
  <2>1. queued \subseteq Messages
    BY PostedMessages DEF TypeOK
  <2> QED BY <2>1 DEF AloneInv
<1>7. HandInv'
  <2>1. \A m \in Messages : Moving(m) => Moving(m)'
    BY DEF Moving, Locked
  <2>2. \A m \in Messages : Once(m) => Once(m)'
    BY <2>1 DEF Once
  <2> QED BY <2>2 DEF HandInv
<1>8. SkipInv'
  BY <1>1 DEF SkipInv
<1> QED BY <1>3, <1>4, <1>5, <1>6, <1>7, <1>8

LEMMA ResumeStep ==
    ASSUME IInv, Resume
    PROVE  IInv'
<1>1. /\ live' = [m \in Messages |-> IF live[m] = "missed" THEN "event" ELSE live[m]]
      /\ link' = "up"
      /\ UNCHANGED <<history, gone, sessions, ready, lock, cursor, replay, after, scanned, queued,
                     handed, told, unclear, raced, overtaken, restarts>>
  BY DEF Resume, replays, observed
<1>2. TypeOK'
  <2>1. live' \in [Messages -> {"no", "missed", "event", "lock", "dispatch", "cursor"}]
    BY <1>1 DEF IInv, TypeOK
  <2> QED BY <1>1, <2>1 DEF IInv, TypeOK, Posted
<1>3. \A s \in Sessions : s > sessions' => replay'[s] = "no"
  BY <1>1 DEF IInv, FreshInv
<1>4. Delivered
  BY <1>1 DEF Delivered
<1>5. Connected
  BY <1>1, <1>3 DEF Connected
<1> QED BY <1>1, <1>2, <1>4, <1>5, EventsStep

LEMMA ConnectStep ==
    ASSUME IInv, Connect
    PROVE  IInv'
<1>1. /\ live' = [m \in Messages |-> IF live[m] = "missed" THEN "no" ELSE live[m]]
      /\ link' = "up" /\ sessions < MaxSessions /\ sessions' = sessions + 1
      /\ replay' = [replay EXCEPT ![sessions + 1] = "gate"]
      /\ UNCHANGED <<history, gone, ready, lock, cursor, after, scanned, queued,
                     handed, told, unclear, raced, overtaken, restarts>>
  BY DEF Connect, observed
<1>2. sessions' \in 0..MaxSessions /\ sessions + 1 \in Sessions
  BY <1>1, BoundsAssumption DEF IInv, TypeOK, Sessions
<1>3. TypeOK'
  <2>1. /\ live' \in [Messages -> {"no", "missed", "event", "lock", "dispatch", "cursor"}]
        /\ replay' \in [Sessions -> {"no", "gate", "lock", "read", "scan", "dispatch", "cursor", "open"}]
    BY <1>1, <1>2 DEF IInv, TypeOK
  <2> QED BY <1>1, <1>2, <2>1 DEF IInv, TypeOK, Posted
<1>4. replay[sessions + 1] \notin Locked
  <2>1. replay[sessions + 1] = "no"
    BY <1>2 DEF IInv, FreshInv, TypeOK
  <2> QED BY <2>1 DEF Locked
<1>5. \A s \in Sessions : replay'[s] = replay[s] \/ (replay'[s] = "gate" /\ replay[s] \notin Locked)
  <2>1. DOMAIN replay = Sessions
    BY DEF IInv, TypeOK
  <2> SUFFICES ASSUME NEW s \in Sessions, replay'[s] # replay[s]
               PROVE  replay'[s] = "gate" /\ replay[s] \notin Locked
    OBVIOUS
  <2>2. s = sessions + 1
    BY <1>1, <2>1
  <2> QED BY <1>1, <1>4, <2>1, <2>2
<1>6. \A s \in Sessions : s > sessions' => replay'[s] = "no"
  <2>1. \A s \in Sessions : s > sessions' => s > sessions /\ s # sessions + 1
    BY <1>1 DEF IInv, TypeOK, Sessions
  <2> QED BY <1>1, <2>1 DEF IInv, FreshInv, TypeOK
<1>7. Delivered
  BY <1>1 DEF Delivered
<1>8. Connected
  BY <1>5, <1>6 DEF Connected
<1> QED BY <1>1, <1>3, <1>7, <1>8, EventsStep

-----------------------------------------------------------------------------
(* The ready event                                                          *)

LEMMA GotoFacts ==
    ASSUME TypeOK, NEW s \in Sessions, NEW p, Goto(s, p)
    PROVE  replay'[s] = p /\ \A u \in Sessions \ {s} : replay'[u] = replay[u]
BY DEF TypeOK, Goto

\* Outside the lock.
LEMMA GateSteps ==
    ASSUME IInv, NEW s \in Sessions, Gate(s) \/ Open(s)
    PROVE  IInv'
<1> USE DEF IInv
<1>1. PICK p \in {"lock", "no"} : Goto(s, p)
  BY DEF Gate, Open
<1>2. replay[s] \notin Locked /\ replay[s] # "no"
  BY DEF Gate, Open, Locked
<1>3. replay'[s] = p /\ \A u \in Sessions \ {s} : replay'[u] = replay[u]
  BY <1>1, GotoFacts
<1>4. UNCHANGED <<history, gone, link, sessions, lock, cursor, live, after, scanned, queued,
                  handed, told, unclear, raced, overtaken, restarts>> /\ ready' \in BOOLEAN
  BY DEF Gate, Open, discord, observed
<1>5. TypeOK'
  <2>1. replay' \in [Sessions -> {"no", "gate", "lock", "read", "scan", "dispatch", "cursor", "open"}]
    BY <1>1 DEF Goto, TypeOK
  <2> QED BY <1>4, <2>1 DEF TypeOK, Posted
<1>6. Posted' = Posted /\ \A u \in Sessions : Scanning(u)' <=> Scanning(u)
  BY <1>2, <1>3, <1>4 DEF Posted, Scanning, Locked
<1>7. LockInv'
  BY <1>2, <1>3, <1>4 DEF LockInv, Locked
<1>8. FreshInv'
  BY <1>2, <1>3, <1>4, <1>6 DEF FreshInv
<1>9. ScanInv' /\ EmptyInv'
  BY <1>3, <1>4, <1>6 DEF ScanInv, EmptyInv
<1>10. AloneInv' /\ SkipInv'
  BY <1>4, <1>6 DEF AloneInv, SkipInv
<1>11. HandInv'
  <2>1. \A m \in Messages : Moving(m) => Moving(m)'
    BY <1>2, <1>3, <1>4 DEF Moving, Locked
  <2>2. \A m \in Messages : Once(m) => Once(m)'
    BY <1>4, <2>1 DEF Once
  <2> QED BY <1>4, <2>2 DEF HandInv
<1> QED BY <1>5, <1>7, <1>8, <1>9, <1>10, <1>11

LEMMA LockReplayStep ==
    ASSUME IInv, NEW s \in Sessions, LockReplay(s)
    PROVE  IInv'
<1> USE DEF IInv
<1>1. lock = Free /\ lock' = Replay(s) /\ Goto(s, "read") /\ replay[s] = "lock"
  BY DEF LockReplay, Lockable
<1>2. replay'[s] = "read" /\ \A u \in Sessions \ {s} : replay'[u] = replay[u]
  BY <1>1, GotoFacts
<1>3. UNCHANGED <<history, gone, link, sessions, ready, cursor, live, after, scanned, queued,
                  handed, told, unclear, raced, overtaken, restarts>>
  BY DEF LockReplay, discord, observed
<1>4. /\ \A u \in Sessions : replay[u] \notin Locked
      /\ \A m \in Messages : live[m] \notin {"dispatch", "cursor"}
  BY <1>1, OneHolder
<1>5. TypeOK'
  <2>1. replay' \in [Sessions -> {"no", "gate", "lock", "read", "scan", "dispatch", "cursor", "open"}]
    BY <1>1 DEF Goto, TypeOK
  <2>2. lock' \in {Free} \cup {Live(m) : m \in Messages} \cup {Replay(u) : u \in Sessions}
    BY <1>1
  <2> QED BY <1>3, <2>1, <2>2 DEF TypeOK, Posted
<1>6. \A u \in Sessions : ~Scanning(u) /\ ~Scanning(u)'
  BY <1>2, <1>4 DEF Scanning, Locked
<1>7. queued = {} /\ queued' = {}
  BY <1>3, <1>6 DEF EmptyInv
<1>8. LockInv'
  BY <1>1, <1>2, <1>3, <1>4 DEF LockInv
<1>9. FreshInv'
  BY <1>1, <1>2, <1>3 DEF FreshInv, Posted
<1>10. ScanInv' /\ EmptyInv' /\ AloneInv'
  BY <1>6, <1>7 DEF ScanInv, EmptyInv, AloneInv
<1>11. HandInv'
  BY <1>3, <1>7 DEF HandInv, Once, Moving
<1>12. SkipInv'
  BY <1>3 DEF SkipInv, Posted
<1> QED BY <1>5, <1>8, <1>9, <1>10, <1>11, <1>12

LEMMA ReadCursorStep ==
    ASSUME IInv, NEW s \in Sessions, ReadCursor(s)
    PROVE  IInv'
<1> USE DEF IInv
<1>1. after' = cursor /\ scanned' = 0 /\ queued' = {} /\ Goto(s, "scan") /\ replay[s] = "read"
  BY DEF ReadCursor
<1>2. replay'[s] = "scan" /\ \A u \in Sessions \ {s} : replay'[u] = replay[u]
  BY <1>1, GotoFacts
<1>3. UNCHANGED <<history, gone, link, sessions, ready, cursor, live, lock,
                  handed, told, unclear, raced, overtaken, restarts>>
  BY DEF ReadCursor, discord, observed
<1>4. /\ \A u \in Sessions \ {s} : replay[u] \notin Locked
      /\ \A m \in Messages : live[m] \notin {"dispatch", "cursor"}
  BY <1>1, OneHolder DEF Locked
<1>5. TypeOK'
  <2>1. replay' \in [Sessions -> {"no", "gate", "lock", "read", "scan", "dispatch", "cursor", "open"}]
    BY <1>1 DEF Goto, TypeOK
  <2>2. after' \in 0..Len(history') /\ scanned' \in 0..ScanLimit /\ queued' \subseteq Posted'
    BY <1>1, <1>3, BoundsAssumption DEF TypeOK
  <2> QED BY <1>3, <2>1, <2>2 DEF TypeOK, Posted
<1>6. LockInv'
  BY <1>1, <1>2, <1>3 DEF LockInv, Locked
<1>7. FreshInv'
  BY <1>1, <1>2, <1>3 DEF FreshInv, Posted
<1>8. ScanInv'
  <2> SUFFICES ASSUME NEW u \in Sessions, Scanning(u)'
               PROVE  /\ cursor' <= after' /\ replay'[u] # "cursor"
                      /\ ~\E m \in Posted : cursor < m /\ m <= after'
    BY <1>1, <1>3 DEF ScanInv, Posted
  <2>1. u = s
    BY <1>2, <1>4 DEF Scanning, Locked
  <2>2. cursor \in Nat /\ Posted \subseteq Nat
    BY PostedMessages DEF TypeOK, Messages
  <2>3. cursor' = cursor /\ after' = cursor /\ replay'[u] = "scan"
    BY <1>1, <1>2, <1>3, <2>1
  <2>4. \A m \in Posted : ~(cursor < m /\ m <= cursor)
    BY <2>2
  <2> QED BY <2>2, <2>3, <2>4
<1>9. EmptyInv' /\ AloneInv'
  BY <1>1 DEF EmptyInv, AloneInv
<1>10. HandInv'
  <2>1. \A m \in Messages : ~Moving(m)
    BY <1>1, <1>4 DEF Moving, Locked
  <2>2. \A m \in Messages : Once(m) => Once(m)'
    BY <1>3, <2>1 DEF Once
  <2> QED BY <1>3, <2>2 DEF HandInv
<1>11. SkipInv'
  BY <1>3 DEF SkipInv, Posted
<1> QED BY <1>5, <1>6, <1>7, <1>8, <1>9, <1>10, <1>11

LEMMA GotFacts ==
    ASSUME TypeOK, NEW S, Got(S)
    PROVE  /\ handed' \in [Messages -> 0..2]
           /\ \A m \in Messages :
                /\ handed[m] <= handed'[m]
                /\ m \notin S => handed'[m] = handed[m]
                /\ m \in S => handed'[m] >= 1
                /\ m \in S /\ handed[m] = 0 => handed'[m] = 1
BY DEF TypeOK, Got

\* The ready event gives the lock back, and its locals are gone.
LEMMA LeaveStep ==
    ASSUME IInv, NEW s \in Sessions, replay[s] \in Locked, Leave(s), TypeOK',
           UNCHANGED <<history, live, sessions>>, gone \subseteq gone', told \subseteq told',
           \A m \in Messages : handed[m] <= handed'[m],
           \A m \in Messages \ Posted : handed'[m] = handed[m],
           \A m \in Messages \ (unclear' \cup raced') : Once(m)',
           SkipInv'
    PROVE  IInv'
<1> USE DEF IInv
<1>1. replay'[s] = "open" /\ \A u \in Sessions \ {s} : replay'[u] = replay[u]
  BY GotoFacts DEF Leave
<1>2. /\ \A u \in Sessions \ {s} : replay[u] \notin Locked
      /\ \A m \in Messages : live[m] \notin {"dispatch", "cursor"}
  BY OneHolder
<1>3. \A u \in Sessions : replay'[u] \notin Locked
  BY <1>1, <1>2 DEF Locked
<1>4. LockInv'
  BY <1>2, <1>3 DEF LockInv
<1>5. FreshInv'
  <2>1. replay[s] # "no"
    BY DEF Locked
  <2> QED BY <1>1, <2>1 DEF FreshInv, Posted
<1>6. ScanInv' /\ EmptyInv' /\ AloneInv'
  BY <1>3 DEF Leave, ScanInv, EmptyInv, AloneInv, Scanning, Locked
<1>7. HandInv'
  BY <1>2 DEF HandInv
<1> QED BY <1>4, <1>5, <1>6, <1>7

\* Types of what Leave and Goto change.
LEMMA LeaveTypes ==
    ASSUME TypeOK, NEW s \in Sessions, Leave(s)
    PROVE  /\ replay' \in [Sessions -> {"no", "gate", "lock", "read", "scan", "dispatch", "cursor", "open"}]
           /\ lock' = Free /\ queued' = {} /\ after' = 0 /\ scanned' = 0
           /\ 0 \in 0..ScanLimit /\ 0 \in 0..Len(history)
BY BoundsAssumption DEF TypeOK, Leave, Goto

\* Nothing is in the hands of a ready event that has not handed it over.
LEMMA NotMoving ==
    ASSUME LockInv, NEW s \in Sessions, replay[s] \in Locked \ {"cursor"}
    PROVE  \A m \in Messages : ~Moving(m)
<1>1. \A u \in Sessions \ {s} : replay[u] \notin Locked
  BY OneHolder
<1>2. \A u \in Sessions : replay[u] # "cursor"
  BY <1>1 DEF Locked
<1> QED BY <1>2 DEF Moving

LEMMA ReplayFailsStep ==
    ASSUME IInv, NEW s \in Sessions, ReplayFails(s)
    PROVE  IInv'
<1> USE DEF IInv
<1>1. replay[s] \in Locked \ {"cursor"} /\ Leave(s)
  BY DEF ReplayFails, Locked
<1>2. UNCHANGED <<history, gone, link, sessions, ready, cursor, live,
                  handed, told, unclear, raced, overtaken, restarts>>
  BY DEF ReplayFails, discord, observed
<1>3. TypeOK'
  BY <1>1, <1>2, LeaveTypes DEF TypeOK, Posted
<1>4. \A m \in Messages : Once(m) => Once(m)'
  BY <1>1, <1>2, NotMoving DEF Once
<1>5. \A m \in Messages \ (unclear' \cup raced') : Once(m)'
  BY <1>2, <1>4 DEF HandInv
<1>6. SkipInv'
  BY <1>2 DEF SkipInv, Posted
<1>7. \A m \in Messages : handed[m] <= handed'[m]
  BY <1>2 DEF TypeOK
<1> QED BY <1>1, <1>2, <1>3, <1>5, <1>6, <1>7, LeaveStep

LEMMA HandOverStep ==
    ASSUME IInv, NEW s \in Sessions, HandOver(s)
    PROVE  IInv'
<1> USE DEF IInv
<1>1. replay[s] = "dispatch" /\ Got(queued) /\ Goto(s, "cursor")
  BY DEF HandOver
<1>2. UNCHANGED <<history, gone, link, sessions, ready, lock, cursor, live, after, scanned, queued,
                  told, unclear, raced, overtaken, restarts>>
  BY DEF HandOver, discord
<1>3. replay'[s] = "cursor" /\ \A u \in Sessions \ {s} : replay'[u] = replay[u]
  BY <1>1, GotoFacts
<1>4. /\ \A u \in Sessions \ {s} : replay[u] \notin Locked
      /\ \A m \in Messages : live[m] \notin {"dispatch", "cursor"}
      /\ \A m \in Messages : ~Moving(m)
  BY <1>1, OneHolder, NotMoving DEF Locked
<1>5. /\ handed' \in [Messages -> 0..2]
      /\ \A m \in Messages : handed[m] <= handed'[m]
      /\ \A m \in Messages : m \notin queued => handed'[m] = handed[m]
      /\ \A m \in Messages : m \in queued => handed'[m] >= 1
      /\ \A m \in Messages : m \in queued /\ handed[m] = 0 => handed'[m] = 1
  BY <1>1, GotFacts
<1>6. TypeOK'
  <2>1. replay' \in [Sessions -> {"no", "gate", "lock", "read", "scan", "dispatch", "cursor", "open"}]
    BY <1>1 DEF Goto, TypeOK
  <2> QED BY <1>2, <1>5, <2>1 DEF TypeOK, Posted
<1>7. Posted' = Posted /\ Posted \subseteq Messages /\ queued \subseteq Posted
  BY <1>2, PostedMessages DEF Posted, TypeOK
<1>8. \A u \in Sessions : Scanning(u)' <=> Scanning(u)
  BY <1>1, <1>3 DEF Scanning
<1>9. LockInv'
  BY <1>1, <1>2, <1>3 DEF LockInv, Locked
<1>10. FreshInv'
  BY <1>1, <1>2, <1>3, <1>5, <1>7 DEF FreshInv
<1>11. ScanInv'
  BY <1>2, <1>5, <1>7, <1>8 DEF ScanInv
<1>12. EmptyInv' /\ AloneInv'
  BY <1>2, <1>8 DEF EmptyInv, AloneInv
<1>13. HandInv'
  <2>1. ASSUME NEW m \in Messages \ (unclear \cup raced) PROVE Once(m)'
    <3>1. Once(m)
      BY DEF HandInv
    <3>2. CASE m \notin queued
      <4>1. handed'[m] = handed[m] /\ live'[m] = live[m]
        BY <1>2, <1>5, <3>2
      <4> QED BY <1>2, <1>4, <3>1, <4>1 DEF Once
    <3>3. CASE m \in queued
      <4>1. ~(m <= cursor)
        BY <1>1, <1>7, <3>3, PostedMessages DEF ScanInv, Scanning, TypeOK, Messages
      <4>2. live[m] = "no" /\ handed[m] = 0
        BY <1>4, <3>1, <3>3, <4>1 DEF AloneInv, Once, TypeOK
      <4>3. handed'[m] = 1 /\ live'[m] = "no" /\ Moving(m)'
        BY <1>2, <1>3, <1>5, <3>3, <4>2 DEF Moving
      <4> QED BY <4>3 DEF Once
    <3> QED BY <3>2, <3>3
  <2>2. \A m \in Messages : live'[m] = "cursor" => handed'[m] >= 1
    BY <1>2, <1>4
  <2> QED BY <1>2, <2>1, <2>2 DEF HandInv
<1>14. SkipInv'
  <2> SUFFICES ASSUME NEW m \in Posted, m <= cursor
               PROVE  history[m] = "other" \/ handed'[m] >= 1 \/ m \in told \cup gone \cup overtaken
    BY <1>2, <1>7 DEF SkipInv
  <2>1. handed[m] <= handed'[m] /\ handed[m] \in 0..2 /\ handed'[m] \in 0..2
    BY <1>5, <1>7 DEF TypeOK
  <2> QED BY <2>1 DEF SkipInv
<1> QED BY <1>6, <1>9, <1>10, <1>11, <1>12, <1>13, <1>14

LEMMA HandOverFailsStep ==
    ASSUME IInv, NEW s \in Sessions, HandOverFails(s)
    PROVE  IInv'
<1> USE DEF IInv
<1>1. replay[s] = "dispatch" /\ replay[s] \in Locked \ {"cursor"} /\ Leave(s)
  BY DEF HandOverFails, Locked
<1>2. UNCHANGED <<history, gone, link, sessions, ready, cursor, live, told, raced, overtaken, restarts>>
  BY DEF HandOverFails, discord
<1>3. Posted' = Posted /\ Posted \subseteq Messages /\ queued \subseteq Posted
  BY <1>2, PostedMessages DEF Posted, TypeOK
<1>4. /\ handed' \in [Messages -> 0..2]
      /\ \A m \in Messages : handed[m] <= handed'[m] /\ (m \notin queued => handed'[m] = handed[m])
      /\ unclear \subseteq unclear' /\ unclear' \subseteq unclear \cup queued
      /\ \A m \in Messages \ unclear' : handed'[m] = handed[m]
  <2>1. CASE UNCHANGED <<handed, unclear>>
    BY <2>1 DEF TypeOK
  <2>2. CASE Got(queued) /\ unclear' = unclear \cup queued
    BY <2>2, GotFacts
  <2> QED BY <2>1, <2>2 DEF HandOverFails
<1>5. TypeOK'
  BY <1>1, <1>2, <1>3, <1>4, LeaveTypes DEF TypeOK
<1>6. ASSUME NEW m \in Messages \ (unclear' \cup raced') PROVE Once(m)'
  <2>1. Once(m) /\ ~Moving(m) /\ handed'[m] = handed[m]
    BY <1>1, <1>2, <1>4, NotMoving DEF HandInv
  <2> QED BY <1>2, <2>1 DEF Once
<1>7. SkipInv'
  <2> SUFFICES ASSUME NEW m \in Posted, m <= cursor
               PROVE  history[m] = "other" \/ handed'[m] >= 1 \/ m \in told \cup gone \cup overtaken
    BY <1>2, <1>3 DEF SkipInv
  <2>1. handed[m] <= handed'[m] /\ handed[m] \in 0..2 /\ handed'[m] \in 0..2
    BY <1>3, <1>4 DEF TypeOK
  <2> QED BY <2>1 DEF SkipInv
<1>8. \A m \in Messages \ Posted : handed'[m] = handed[m]
  BY <1>3, <1>4
<1> QED BY <1>1, <1>2, <1>4, <1>5, <1>6, <1>7, <1>8, LeaveStep

LEMMA MoveFailsStep ==
    ASSUME IInv, NEW s \in Sessions, MoveFails(s)
    PROVE  IInv'
<1> USE DEF IInv
<1>1. replay[s] \in Locked /\ Leave(s) /\ unclear' = unclear \cup queued
  BY DEF MoveFails, Locked
<1>2. UNCHANGED <<history, gone, link, sessions, ready, cursor, live, handed, told, raced,
                  overtaken, restarts>>
  BY DEF MoveFails, discord
<1>3. Posted' = Posted /\ queued \subseteq Posted
  BY <1>2 DEF Posted, TypeOK
<1>4. TypeOK'
  BY <1>1, <1>2, <1>3, LeaveTypes DEF TypeOK
<1>5. ASSUME NEW m \in Messages \ (unclear' \cup raced') PROVE Once(m)'
  <2>1. Once(m) /\ ~Moving(m)
    BY <1>1, <1>2 DEF HandInv, Moving
  <2> QED BY <1>2, <2>1 DEF Once
<1>6. SkipInv'
  BY <1>2, <1>3 DEF SkipInv
<1>7. \A m \in Messages : handed[m] <= handed'[m] /\ handed'[m] = handed[m]
  BY <1>2 DEF TypeOK
<1> QED BY <1>1, <1>2, <1>4, <1>5, <1>6, <1>7, LeaveStep

\* How far a replay moves the cursor: past all it handed over, and no further than
\* it has read.
LEMMA ReplayedFacts ==
    ASSUME IInv, NEW s \in Sessions, replay[s] = "cursor", SetCursor(ReplayedTo)
    PROVE  /\ cursor' \in 0..Len(history) /\ cursor <= cursor' /\ cursor' <= after
           /\ \A m \in queued : m <= cursor'
<1> USE DEF IInv
<1>1. /\ cursor <= after /\ cursor \in 0..Len(history) /\ after \in 0..Len(history)
      /\ \A m \in queued : cursor < m /\ m <= after
      /\ queued \in SUBSET Messages /\ Len(history) \in Nat
  BY PostedMessages DEF TypeOK, ScanInv, Scanning
<1>2. CASE queued = {}
  BY <1>1, <1>2 DEF SetCursor, ReplayedTo
<1>3. CASE queued # {}
  <2>1. PICK p \in queued : p = Max(queued) /\ \A m \in queued : m <= p
    BY <1>1, <1>3, MaxFacts
  <2>2. p \in Nat /\ cursor < p /\ p <= after
    BY <1>1 DEF Messages
  <2>3. cursor' = p
    BY <1>1, <1>3, <2>1, <2>2 DEF SetCursor, ReplayedTo
  <2> QED BY <1>1, <2>1, <2>2, <2>3
<1> QED BY <1>2, <1>3

LEMMA MoveCursorStep ==
    ASSUME IInv, NEW s \in Sessions, MoveCursor(s)
    PROVE  IInv'
<1> USE DEF IInv
<1>1. replay[s] = "cursor" /\ replay[s] \in Locked /\ Leave(s)
  BY DEF MoveCursor, Locked
<1>2. UNCHANGED <<history, gone, link, sessions, ready, live, handed, told, unclear, raced,
                  overtaken, restarts>>
  BY DEF MoveCursor, discord, observed
<1>3. /\ cursor' \in 0..Len(history) /\ cursor <= cursor' /\ cursor' <= after
      /\ \A m \in queued : m <= cursor'
  BY <1>1, ReplayedFacts DEF MoveCursor
<1>4. Posted' = Posted /\ queued \subseteq Posted /\ Posted \subseteq Messages
  BY <1>2, PostedMessages DEF Posted, TypeOK
<1>5. cursor \in Nat /\ cursor' \in Nat /\ after \in Nat /\ \A m \in Messages : m \in Nat
  BY <1>3 DEF TypeOK, Messages
<1>6. TypeOK'
  BY <1>1, <1>2, <1>3, <1>4, LeaveTypes DEF TypeOK
<1>7. ASSUME NEW m \in Messages \ (unclear' \cup raced') PROVE Once(m)'
  <2>1. Once(m) /\ (m <= cursor => m <= cursor') /\ (Moving(m) => m <= cursor')
    BY <1>2, <1>3, <1>5 DEF HandInv, Moving
  <2> QED BY <1>2, <2>1 DEF Once
<1>8. SkipInv'
  <2> SUFFICES ASSUME NEW m \in Posted, m <= cursor', history[m] # "other"
               PROVE  handed[m] >= 1 \/ m \in told \cup gone \cup overtaken
    BY <1>2, <1>4 DEF SkipInv
  <2>1. CASE m <= cursor
    BY <2>1 DEF SkipInv
  <2>2. CASE cursor < m
    <3>1. m <= after
      BY <1>3, <1>4, <1>5
    <3>2. m \in gone \cup queued
      BY <1>1, <2>2, <3>1 DEF ScanInv, Scanning
    <3> QED BY <1>1, <3>2 DEF ScanInv, Scanning
  <2> QED BY <1>4, <1>5, <2>1, <2>2
<1>9. \A m \in Messages : handed[m] <= handed'[m] /\ handed'[m] = handed[m]
  BY <1>2 DEF TypeOK
<1> QED BY <1>1, <1>2, <1>6, <1>7, <1>8, <1>9, LeaveStep

\* A page has the oldest messages past the last one seen, and none between is left.
LEMMA PageFacts ==
    ASSUME TypeOK
    PROVE  /\ Page \subseteq Past /\ Past \subseteq Posted \ gone /\ Past \in SUBSET Messages
           /\ Page # {} => /\ Max(Page) \in Page
                           /\ \A x \in Past : x <= Max(Page) => x \in Page
                           /\ \A x \in Page : x <= Max(Page)
           /\ Cardinality(Page) \in Nat /\ scanned + Cardinality(Page) \in 0..ScanLimit
<1>1. Page \subseteq Past /\ Past \subseteq Posted \ gone /\ Past \in SUBSET Messages
  BY PostedMessages DEF Page, Past
<1>2. PageMax \in Nat /\ PageMax <= ScanLimit - scanned /\ scanned \in 0..ScanLimit
      /\ ScanLimit \in Nat
  BY BoundsAssumption DEF TypeOK, PageMax
<1> DEFINE Below(x) == {y \in Past : y < x}
<1>3. \A x : IsFiniteSet(Below(x)) /\ Cardinality(Below(x)) \in Nat
  BY <1>1, FiniteMessages
<1>4. \A x \in Page : Cardinality(Below(x)) < PageMax
  BY DEF Page
<1>5. IsFiniteSet(Page) /\ Cardinality(Page) \in Nat
  BY <1>1, FiniteMessages
<1>6. ASSUME Page # {}
      PROVE  /\ Max(Page) \in Page
             /\ \A x \in Past : x <= Max(Page) => x \in Page
             /\ \A x \in Page : x <= Max(Page)
             /\ Cardinality(Page) <= PageMax
  <2>1. Max(Page) \in Page /\ \A x \in Page : x <= Max(Page)
    BY <1>1, <1>6, MaxFacts
  <2>2. PICK p \in Page : p = Max(Page)
    BY <2>1
  <2>3. \A x \in Past : x \in Nat
    BY <1>1 DEF Messages
  <2>4. ASSUME NEW x \in Past, x <= p PROVE x \in Page
    <3>1. Below(x) \in SUBSET Below(p)
      BY <1>1, <2>3, <2>4
    <3>2. Cardinality(Below(x)) <= Cardinality(Below(p))
      BY <1>3, <3>1, FS_Subset
    <3>3. Cardinality(Below(x)) < PageMax
      BY <1>2, <1>3, <1>4, <3>2
    <3> QED BY <3>3 DEF Page
  <2>5. Cardinality(Page) <= PageMax
    <3>1. Page \ {p} \in SUBSET Below(p)
      BY <1>1, <2>1, <2>2, <2>3
    <3>2. Cardinality(Page \ {p}) <= Cardinality(Below(p))
      BY <1>3, <3>1, FS_Subset
    <3>3. Cardinality(Page \ {p}) = Cardinality(Page) - 1
      BY <1>5, FS_RemoveElement
    <3>4. Cardinality(Below(p)) < PageMax
      BY <1>4
    <3>5. Cardinality(Below(p)) \in Nat
      BY <1>3
    <3> HIDE DEF Below
    <3> QED BY <1>2, <1>5, <3>2, <3>3, <3>4, <3>5
  <2> QED BY <2>1, <2>2, <2>4, <2>5
<1>7. Cardinality(Page) <= PageMax
  <2>1. CASE Page = {}
    BY <1>2, <2>1, FS_EmptySet
  <2> QED BY <1>6, <2>1
<1>8. scanned + Cardinality(Page) \in 0..ScanLimit
  BY <1>2, <1>5, <1>7
<1> QED BY <1>1, <1>5, <1>6, <1>8

LEMMA ScanStep ==
    ASSUME IInv, NEW s \in Sessions, Scan(s)
    PROVE  IInv'
<1> USE DEF IInv
<1>1. replay[s] = "scan" /\ replay[s] \in Locked \ {"cursor"}
  BY DEF Scan, Locked
<1>2. UNCHANGED <<history, link, sessions, ready, cursor, live, handed, told, unclear,
                  overtaken, restarts>>
  BY DEF Scan
<1>3. PICK deleted \in SUBSET Kind(Page, "god") :
        /\ gone' = gone \cup deleted
        /\ IF MayPass(deleted)
           THEN /\ queued' = queued \cup Kind(Page, "text")
                /\ after' = IF Page = {} THEN after ELSE Max(Page)
                /\ scanned' = scanned + Cardinality(Page)
                /\ Goto(s, IF Cardinality(Page) < PageMax \/ scanned' = ScanLimit
                           THEN "dispatch" ELSE "scan")
                /\ raced' = raced \cup {m \in queued' : live[m] \in {"missed", "event", "lock"}}
                /\ UNCHANGED lock
           ELSE Leave(s) /\ UNCHANGED raced
  BY DEF Scan
<1>4. /\ Page \subseteq Past /\ Past \subseteq Posted \ gone /\ Past \in SUBSET Messages
      /\ Page # {} => /\ Max(Page) \in Page
                      /\ \A x \in Past : x <= Max(Page) => x \in Page
                      /\ \A x \in Page : x <= Max(Page)
      /\ scanned + Cardinality(Page) \in 0..ScanLimit
  BY PageFacts
<1>5. /\ Posted' = Posted /\ Posted \subseteq Messages /\ queued \subseteq Posted
      /\ gone \subseteq gone' /\ gone' \subseteq Posted
  BY <1>2, <1>3, <1>4, PostedMessages DEF Posted, TypeOK, Kind
<1>6. \A m \in Messages : ~Moving(m)
  BY <1>1, NotMoving
<1>7. SkipInv'
  BY <1>2, <1>5 DEF SkipInv
<1>8. CASE ~MayPass(deleted)
  <2>1. Leave(s) /\ UNCHANGED raced
    BY <1>3, <1>8
  <2>2. TypeOK'
    BY <1>2, <1>5, <2>1, LeaveTypes DEF TypeOK
  <2>3. ASSUME NEW m \in Messages \ (unclear' \cup raced') PROVE Once(m)'
    <3>1. Once(m) /\ ~Moving(m)
      BY <1>2, <1>6, <2>1 DEF HandInv
    <3> QED BY <1>2, <3>1 DEF Once
  <2>4. \A m \in Messages : handed[m] <= handed'[m] /\ handed'[m] = handed[m]
    BY <1>2 DEF TypeOK
  <2> QED BY <1>1, <1>2, <1>5, <1>7, <2>1, <2>2, <2>3, <2>4, LeaveStep
<1>9. CASE MayPass(deleted)
  <2>1. /\ queued' = queued \cup Kind(Page, "text")
        /\ after' = IF Page = {} THEN after ELSE Max(Page)
        /\ scanned' = scanned + Cardinality(Page)
        /\ raced' = raced \cup {m \in queued' : live[m] \in {"missed", "event", "lock"}}
        /\ UNCHANGED lock
        /\ deleted = Kind(Page, "god")
    BY <1>3, <1>9 DEF MayPass
  <2>2. PICK p \in {"dispatch", "scan"} : Goto(s, p)
    BY <1>3, <1>9
  <2>3. replay'[s] = p /\ \A u \in Sessions \ {s} : replay'[u] = replay[u]
    BY <2>2, GotoFacts
  <2>4. /\ \A u \in Sessions \ {s} : replay[u] \notin Locked
        /\ \A m \in Messages : live[m] \notin {"dispatch", "cursor"}
    BY <1>1, OneHolder DEF Locked
  <2>5. /\ cursor <= after /\ \A m \in queued : cursor < m /\ m <= after
        /\ \A m \in Posted : cursor < m /\ m <= after /\ history[m] # "other" => m \in gone \cup queued
    BY <1>1 DEF ScanInv, Scanning
  <2>6. cursor \in Nat /\ after \in 0..Len(history) /\ Posted = 1..Len(history) /\ Len(history) \in Nat
    BY PostedMessages DEF TypeOK
  <2>7. /\ after' \in 0..Len(history) /\ after <= after'
        /\ \A x \in Page : after < x /\ x <= after'
        /\ \A x \in Past : x <= after' => x \in Page
    <3>1. \A x \in Past : after < x /\ x \in 1..Len(history)
      BY <1>4, <2>6 DEF Past
    <3>2. CASE Page = {}
      BY <2>1, <2>6, <3>1, <3>2
    <3>3. CASE Page # {}
      <4>1. PICK q : q = Max(Page)
        OBVIOUS
      <4>2. after' = q
        BY <2>1, <3>3, <4>1
      <4>3. q \in Page
        BY <1>4, <3>3, <4>1, Zenon
      <4>4. \A x \in Past : x <= q => x \in Page
        BY <1>4, <3>3, <4>1, Zenon
      <4>5. \A x \in Page : x <= q
        BY <1>4, <3>3, <4>1, Zenon
      <4>6. \A x \in Page : x \in Past
        BY <1>4
      <4>7. after < q /\ q \in 1..Len(history) /\ after \in Nat
        BY <2>6, <3>1, <4>3, <4>6
      <4>8. q \in 0..Len(history) /\ after <= q
        BY <2>6, <4>7
      <4>9. \A x \in Page : after < x
        BY <3>1, <4>6
      <4>10. /\ after' \in 0..Len(history) /\ after <= after'
             /\ \A x \in Page : x <= after'
        BY <4>2, <4>5, <4>8
      <4>11. \A x \in Past : x <= after' => x \in Page
        BY <4>2, <4>4
      <4> QED BY <4>9, <4>10, <4>11
    <3> QED BY <3>2, <3>3
  <2>8. queued' \subseteq Posted
    BY <1>4, <1>5, <2>1 DEF Kind
  <2>9. TypeOK'
    <3>1. replay' \in [Sessions -> {"no", "gate", "lock", "read", "scan", "dispatch", "cursor", "open"}]
      BY <2>2 DEF Goto, TypeOK
    <3>2. raced' \subseteq Posted /\ scanned' \in 0..ScanLimit
      BY <1>4, <2>1, <2>8 DEF TypeOK
    <3> QED BY <1>2, <1>5, <2>1, <2>7, <2>8, <3>1, <3>2 DEF TypeOK
  <2>10. LockInv'
    BY <1>1, <1>2, <2>1, <2>3 DEF LockInv, Locked
  <2>11. FreshInv'
    BY <1>1, <1>2, <1>5, <2>3 DEF FreshInv
  <2>12. ScanInv'
    <3> SUFFICES ASSUME NEW u \in Sessions, Scanning(u)'
                 PROVE  /\ cursor <= after' /\ replay'[u] # "cursor"
                        /\ \A m \in queued' : cursor < m /\ m <= after'
                        /\ \A m \in Posted : cursor < m /\ m <= after' /\ history[m] # "other"
                                => m \in gone' \cup queued'
      BY <1>2, <1>5 DEF ScanInv
    <3>1. u = s
      BY <2>3, <2>4 DEF Scanning, Locked
    <3>2. cursor <= after' /\ replay'[u] # "cursor"
      BY <2>3, <2>5, <2>6, <2>7, <3>1
    <3>3. ASSUME NEW m \in queued' PROVE cursor < m /\ m <= after'
      <4>1. m \in Posted /\ (m \in queued \/ m \in Page)
        BY <2>1, <2>8 DEF Kind
      <4> QED BY <2>5, <2>6, <2>7, <4>1
    <3>4. ASSUME NEW m \in Posted, cursor < m, m <= after', history[m] # "other", m \notin gone
          PROVE  m \in gone' \cup queued'
      <4>1. CASE m <= after
        BY <2>1, <2>5, <3>4, <4>1
      <4>2. CASE m > after
        <5>1. m \in Page
          BY <2>7, <3>4, <4>2 DEF Past
        <5>2. history[m] \in {"text", "god"}
          BY <3>4 DEF TypeOK, Posted
        <5> QED BY <1>3, <2>1, <5>1, <5>2 DEF Kind
      <4> QED BY <2>6, <4>1, <4>2
    <3> QED BY <1>5, <3>2, <3>3, <3>4
  <2>13. EmptyInv'
    BY <2>3 DEF EmptyInv, Scanning
  <2>14. AloneInv'
    <3> SUFFICES ASSUME NEW m \in queued', m \notin raced' PROVE live[m] = "no"
      BY <1>2 DEF AloneInv
    <3> QED BY <1>5, <2>1, <2>4, <2>8 DEF TypeOK
  <2>15. HandInv'
    <3>1. ASSUME NEW m \in Messages \ (unclear' \cup raced') PROVE Once(m)'
      <4>1. Once(m) /\ ~Moving(m)
        BY <1>2, <1>6, <2>1 DEF HandInv
      <4> QED BY <1>2, <4>1 DEF Once
    <3> QED BY <1>2, <3>1 DEF HandInv
  <2> QED BY <1>7, <2>9, <2>10, <2>11, <2>12, <2>13, <2>14, <2>15
<1> QED BY <1>8, <1>9

-----------------------------------------------------------------------------
(* The event of a message                                                   *)

LEMMA BecomeFacts ==
    ASSUME TypeOK, NEW m \in Messages,
           NEW p \in {"no", "missed", "event", "lock", "dispatch", "cursor"}, Become(m, p)
    PROVE  /\ live' \in [Messages -> {"no", "missed", "event", "lock", "dispatch", "cursor"}]
           /\ live'[m] = p /\ \A x \in Messages \ {m} : live'[x] = live[x]
BY DEF TypeOK, Become

\* What the event of a message does to that message is all that changes; the cursor
\* moves when no ready event has the lock.
LEMMA LiveStep ==
    ASSUME IInv, NEW m \in Messages, live[m] # "no", TypeOK', LockInv', SkipInv',
           UNCHANGED <<history, gone, sessions, replay, after, queued, raced>>,
           \A x \in Messages \ {m} : live'[x] = live[x] /\ handed'[x] = handed[x],
           handed[m] <= handed'[m], live'[m] = "cursor" => handed'[m] >= 1,
           unclear \subseteq unclear', m \notin unclear' \cup raced => Once(m)',
           cursor' = cursor \/ (cursor <= cursor' /\ \A u \in Sessions : replay[u] \notin Locked)
    PROVE  IInv'
<1> USE DEF IInv
<1>1. /\ Posted' = Posted /\ Posted \subseteq Messages /\ queued \subseteq Posted /\ m \in Posted
      /\ cursor \in Nat /\ cursor' \in Nat /\ \A x \in Messages : x \in Nat
  BY PostedMessages DEF Posted, TypeOK, FreshInv, Messages
<1>2. FreshInv'
  BY <1>1 DEF FreshInv
<1>3. \A x \in Messages : handed[x] \in Nat /\ handed'[x] \in Nat /\ handed[x] <= handed'[x]
  BY DEF TypeOK
<1>4. ScanInv'
  <2> SUFFICES ASSUME NEW u \in Sessions, Scanning(u)
               PROVE  /\ cursor' <= after
                      /\ \A x \in queued : cursor' < x /\ x <= after
                      /\ \A x \in Posted : cursor' < x /\ x <= after /\ history[x] # "other"
                              => x \in gone \cup queued
                      /\ replay[u] = "cursor" => \A x \in queued : handed'[x] >= 1
    BY <1>1 DEF ScanInv, Scanning
  <2>1. cursor' = cursor
    BY DEF Scanning, Locked
  <2>2. replay[u] = "cursor" => \A x \in queued : handed'[x] >= 1
    BY <1>1, <1>3 DEF ScanInv
  <2> QED BY <2>1, <2>2 DEF ScanInv
<1>5. EmptyInv'
  BY DEF EmptyInv, Scanning
<1>6. AloneInv'
  BY <1>1 DEF AloneInv
<1>7. HandInv'
  <2>1. ASSUME NEW x \in Messages \ (unclear' \cup raced') PROVE Once(x)'
    <3>1. CASE x = m
      BY <3>1
    <3>2. CASE x # m
      <4>1. Once(x) /\ handed'[x] = handed[x] /\ live'[x] = live[x]
        BY <3>2 DEF HandInv
      <4>2. x <= cursor => x <= cursor'
        BY <1>1
      <4>3. Moving(x) => Moving(x)'
        BY DEF Moving
      <4> QED BY <4>1, <4>2, <4>3 DEF Once
    <3> QED BY <3>1, <3>2
  <2>2. \A x \in Messages : live'[x] = "cursor" => handed'[x] >= 1
    BY DEF HandInv
  <2> QED BY <2>1, <2>2 DEF HandInv
<1> QED BY <1>2, <1>4, <1>5, <1>6, <1>7

\* A step that leaves the cursor leaves what it is past.
LEMMA SkipKept ==
    ASSUME TypeOK, SkipInv, UNCHANGED <<history, gone, cursor, overtaken>>, told \subseteq told',
           \A m \in Messages : handed[m] <= handed'[m] /\ handed'[m] \in Nat
    PROVE  SkipInv'
<1>1. Posted' = Posted /\ Posted \subseteq Messages
  BY PostedMessages DEF Posted
<1> SUFFICES ASSUME NEW m \in Posted, m <= cursor
             PROVE  history[m] = "other" \/ handed'[m] >= 1 \/ m \in told' \cup gone \cup overtaken
  BY <1>1 DEF SkipInv
<1>2. handed[m] <= handed'[m] /\ handed[m] \in Nat /\ handed'[m] \in Nat
  BY <1>1 DEF TypeOK
<1> QED BY <1>2 DEF SkipInv

LEMMA ReceiveStep ==
    ASSUME IInv, NEW m \in Messages, Receive(m)
    PROVE  IInv'
<1> USE DEF IInv
<1>1. live[m] = "event" /\ m \in Posted
  BY DEF Receive, FreshInv
<1>2. UNCHANGED <<history, gone, link, sessions, ready, lock, cursor, replay, after, scanned, queued,
                  handed, unclear, raced, overtaken, restarts>>
  BY DEF Receive, discord, replays
<1>3. told \subseteq told' /\ told' \subseteq told \cup {m}
  BY <1>1 DEF Receive, Tell, TypeOK
<1>4. PICK p \in {"no", "lock"} : Become(m, p)
  BY DEF Receive
<1>5. /\ live' \in [Messages -> {"no", "missed", "event", "lock", "dispatch", "cursor"}]
      /\ live'[m] = p /\ \A x \in Messages \ {m} : live'[x] = live[x]
  BY <1>4, BecomeFacts
<1>6. TypeOK'
  BY <1>1, <1>2, <1>3, <1>5 DEF TypeOK, Posted
<1>7. LockInv'
  BY <1>2, <1>5 DEF LockInv
<1>8. \A x \in Messages : handed[x] <= handed'[x] /\ handed'[x] \in Nat /\ handed'[x] = handed[x]
  BY <1>2 DEF TypeOK
<1>9. SkipInv'
  BY <1>2, <1>3, <1>8, SkipKept
<1>10. m \notin unclear \cup raced => Once(m)'
  BY <1>1, <1>2 DEF HandInv, Once
<1> QED BY <1>1, <1>2, <1>5, <1>6, <1>7, <1>8, <1>9, <1>10, LiveStep

LEMMA LockLiveStep ==
    ASSUME IInv, NEW m \in Messages, LockLive(m)
    PROVE  IInv'
<1> USE DEF IInv
<1>1. live[m] = "lock" /\ lock = Free /\ lock' = Live(m) /\ Become(m, "dispatch")
  BY DEF LockLive
<1>2. UNCHANGED <<history, gone, link, sessions, ready, cursor, replay, after, scanned, queued,
                  handed, told, unclear, raced, overtaken, restarts>>
  BY DEF LockLive, discord, replays, observed
<1>3. /\ live' \in [Messages -> {"no", "missed", "event", "lock", "dispatch", "cursor"}]
      /\ live'[m] = "dispatch" /\ \A x \in Messages \ {m} : live'[x] = live[x]
  BY <1>1, BecomeFacts
<1>4. TypeOK'
  <2>1. lock' \in {Free} \cup {Live(x) : x \in Messages} \cup {Replay(u) : u \in Sessions}
    BY <1>1
  <2> QED BY <1>2, <1>3, <2>1 DEF TypeOK, Posted
<1>5. LockInv'
  <2>1. /\ \A u \in Sessions : replay[u] \notin Locked
        /\ \A x \in Messages : live[x] \notin {"dispatch", "cursor"}
    BY <1>1, OneHolder
  <2> QED BY <1>1, <1>2, <1>3, <2>1 DEF LockInv
<1>6. \A x \in Messages : handed[x] <= handed'[x] /\ handed'[x] \in Nat /\ handed'[x] = handed[x]
  BY <1>2 DEF TypeOK
<1>7. SkipInv'
  BY <1>2, <1>6, SkipKept
<1>8. m \notin unclear \cup raced => Once(m)'
  BY <1>1, <1>2 DEF HandInv, Once
<1> QED BY <1>1, <1>2, <1>3, <1>4, <1>5, <1>6, <1>7, <1>8, LiveStep

LEMMA ForwardStep ==
    ASSUME IInv, NEW m \in Messages, Forward(m)
    PROVE  IInv'
<1> USE DEF IInv
<1>1. live[m] = "dispatch" /\ Got({m}) /\ Become(m, "cursor")
  BY DEF Forward
<1>2. UNCHANGED <<history, gone, link, sessions, ready, lock, cursor, replay, after, scanned, queued,
                  told, unclear, raced, overtaken, restarts>>
  BY DEF Forward, discord, replays
<1>3. /\ live' \in [Messages -> {"no", "missed", "event", "lock", "dispatch", "cursor"}]
      /\ live'[m] = "cursor" /\ \A x \in Messages \ {m} : live'[x] = live[x]
  BY <1>1, BecomeFacts
<1>4. /\ handed' \in [Messages -> 0..2] /\ handed[m] <= handed'[m] /\ handed'[m] >= 1
      /\ handed[m] = 0 => handed'[m] = 1
      /\ \A x \in Messages : handed[x] <= handed'[x]
      /\ \A x \in Messages \ {m} : handed'[x] = handed[x]
  BY <1>1, GotFacts
<1>5. TypeOK'
  BY <1>2, <1>3, <1>4 DEF TypeOK, Posted
<1>6. LockInv'
  BY <1>1, <1>2, <1>3 DEF LockInv
<1>7. \A x \in Messages : handed[x] <= handed'[x] /\ handed'[x] \in Nat
  BY <1>4
<1>8. SkipInv'
  BY <1>2, <1>7, SkipKept
<1>9. m \notin unclear \cup raced => Once(m)'
  BY <1>1, <1>3, <1>4 DEF HandInv, Once, TypeOK
<1> QED BY <1>1, <1>2, <1>3, <1>4, <1>5, <1>6, <1>8, <1>9, LiveStep

\* The event gives the lock back.
LEMMA FinishFacts ==
    ASSUME TypeOK, LockInv, NEW m \in Messages, live[m] \in {"dispatch", "cursor"}, Finish(m),
           UNCHANGED replay
    PROVE  /\ live' \in [Messages -> {"no", "missed", "event", "lock", "dispatch", "cursor"}]
           /\ lock' = Free /\ live'[m] = "no" /\ \A x \in Messages \ {m} : live'[x] = live[x]
           /\ LockInv' /\ \A u \in Sessions : replay[u] \notin Locked
<1>1. /\ live' \in [Messages -> {"no", "missed", "event", "lock", "dispatch", "cursor"}]
      /\ live'[m] = "no" /\ \A x \in Messages \ {m} : live'[x] = live[x]
  BY BecomeFacts DEF Finish
<1>2. /\ \A u \in Sessions : replay[u] \notin Locked
      /\ \A x \in Messages \ {m} : live[x] \notin {"dispatch", "cursor"}
  BY OneHolder
<1>3. LockInv'
  BY <1>1, <1>2 DEF LockInv
<1> QED BY <1>1, <1>2, <1>3 DEF Finish

LEMMA ForwardFailsStep ==
    ASSUME IInv, NEW m \in Messages, ForwardFails(m)
    PROVE  IInv'
<1> USE DEF IInv
<1>1. live[m] = "dispatch" /\ Finish(m) /\ told' = told \cup {m} /\ m \in Posted
  BY DEF ForwardFails, Tell, FreshInv
<1>2. UNCHANGED <<history, gone, link, sessions, ready, cursor, replay, after, scanned, queued,
                  raced, overtaken, restarts>>
  BY DEF ForwardFails, discord, replays
<1>3. /\ live' \in [Messages -> {"no", "missed", "event", "lock", "dispatch", "cursor"}]
      /\ lock' = Free /\ live'[m] = "no" /\ \A x \in Messages \ {m} : live'[x] = live[x]
      /\ LockInv' /\ \A u \in Sessions : replay[u] \notin Locked
  BY <1>1, <1>2, FinishFacts
<1>4. /\ handed' \in [Messages -> 0..2]
      /\ \A x \in Messages : handed[x] <= handed'[x] /\ handed'[x] \in Nat
      /\ \A x \in Messages \ {m} : handed'[x] = handed[x]
      /\ unclear \subseteq unclear' /\ unclear' \subseteq unclear \cup {m}
      /\ m \notin unclear' => handed'[m] = handed[m]
  <2>1. CASE UNCHANGED <<handed, unclear>>
    BY <2>1 DEF TypeOK
  <2>2. CASE Got({m}) /\ unclear' = unclear \cup {m}
    BY <2>2, GotFacts
  <2> QED BY <2>1, <2>2 DEF ForwardFails
<1>5. TypeOK'
  BY <1>1, <1>2, <1>3, <1>4 DEF TypeOK, Posted
<1>6. SkipInv'
  BY <1>1, <1>2, <1>4, SkipKept
<1>7. m \notin unclear' \cup raced => Once(m)'
  BY <1>1, <1>4 DEF HandInv, Once
<1> QED BY <1>1, <1>2, <1>3, <1>4, <1>5, <1>6, <1>7, LiveStep

LEMMA AdvanceStep ==
    ASSUME IInv, NEW m \in Messages, Advance(m)
    PROVE  IInv'
<1> USE DEF IInv
<1>1. /\ live[m] = "cursor" /\ Finish(m) /\ m \in Posted
      /\ cursor' = (IF m > cursor THEN m ELSE cursor)
      /\ overtaken' = overtaken \cup {x \in Posted : cursor < x /\ x < m}
  BY DEF Advance, SetCursor, FreshInv
<1>2. UNCHANGED <<history, gone, link, sessions, ready, replay, after, scanned, queued,
                  handed, told, unclear, raced, restarts>>
  BY DEF Advance, discord, replays
<1>3. /\ live' \in [Messages -> {"no", "missed", "event", "lock", "dispatch", "cursor"}]
      /\ lock' = Free /\ live'[m] = "no" /\ \A x \in Messages \ {m} : live'[x] = live[x]
      /\ LockInv' /\ \A u \in Sessions : replay[u] \notin Locked
  BY <1>1, <1>2, FinishFacts
<1>4. /\ Posted' = Posted /\ Posted = 1..Len(history) /\ Len(history) \in Nat
      /\ Posted \subseteq Messages
  BY <1>2, PostedMessages DEF Posted
<1>5. cursor \in 0..Len(history) /\ cursor' \in 0..Len(history) /\ cursor <= cursor' /\ m <= cursor'
      /\ \A x \in Posted : x <= cursor' /\ cursor < x => x = m \/ x < m
  <2>1. cursor \in 0..Len(history) /\ m \in 1..Len(history)
    BY <1>1, <1>4 DEF TypeOK
  <2> QED BY <1>1, <1>4, <2>1
<1>6. TypeOK'
  <2>1. cursor' \in 0..Len(history') /\ overtaken' \subseteq Posted'
    BY <1>1, <1>2, <1>4, <1>5 DEF TypeOK
  <2> QED BY <1>2, <1>3, <1>4, <2>1 DEF TypeOK
<1>7. handed[m] >= 1 /\ \A x \in Messages : handed[x] <= handed'[x] /\ handed'[x] = handed[x]
  BY <1>1, <1>2 DEF HandInv, TypeOK
<1>8. SkipInv'
  <2> SUFFICES ASSUME NEW x \in Posted, x <= cursor'
               PROVE  history[x] = "other" \/ handed[x] >= 1 \/ x \in told \cup gone \cup overtaken'
    BY <1>2, <1>4 DEF SkipInv
  <2>1. CASE x <= cursor
    BY <1>1, <2>1 DEF SkipInv
  <2>2. CASE cursor < x
    BY <1>1, <1>5, <1>7, <2>2
  <2> QED BY <1>4, <1>5, <2>1, <2>2
<1>9. m \notin unclear' \cup raced => Once(m)'
  <2>1. m \notin unclear \cup raced => handed[m] <= 1
    BY DEF HandInv, Once
  <2> QED BY <1>2, <1>3, <1>5, <2>1 DEF Once
<1> QED BY <1>1, <1>2, <1>3, <1>5, <1>6, <1>7, <1>8, <1>9, LiveStep

LEMMA AdvanceFailsStep ==
    ASSUME IInv, NEW m \in Messages, AdvanceFails(m)
    PROVE  IInv'
<1> USE DEF IInv
<1>1. /\ live[m] = "cursor" /\ Finish(m) /\ m \in Posted
      /\ told' = told \cup {m} /\ unclear' = unclear \cup {m}
  BY DEF AdvanceFails, Tell, FreshInv
<1>2. UNCHANGED <<history, gone, link, sessions, ready, cursor, replay, after, scanned, queued,
                  handed, raced, overtaken, restarts>>
  BY DEF AdvanceFails, discord, replays
<1>3. /\ live' \in [Messages -> {"no", "missed", "event", "lock", "dispatch", "cursor"}]
      /\ lock' = Free /\ live'[m] = "no" /\ \A x \in Messages \ {m} : live'[x] = live[x]
      /\ LockInv' /\ \A u \in Sessions : replay[u] \notin Locked
  BY <1>1, <1>2, FinishFacts
<1>4. TypeOK'
  BY <1>1, <1>2, <1>3 DEF TypeOK, Posted
<1>5. \A x \in Messages : handed[x] <= handed'[x] /\ handed'[x] \in Nat /\ handed'[x] = handed[x]
  BY <1>2 DEF TypeOK
<1>6. SkipInv'
  BY <1>1, <1>2, <1>5, SkipKept
<1> QED BY <1>1, <1>2, <1>3, <1>4, <1>5, <1>6, LiveStep

-----------------------------------------------------------------------------

\* After a restart nobody has the lock, and what Codex had with no cursor to tell is
\* among the unclear messages.
LEMMA RestartStep ==
    ASSUME IInv, Restart
    PROVE  IInv'
<1> USE DEF IInv
<1>1. /\ link' = "down" /\ restarts < MaxRestarts /\ restarts' = restarts + 1
      /\ unclear' = unclear \cup {m \in Posted : live[m] = "cursor"}
                            \cup (IF \E s \in Sessions : replay[s] = "cursor" THEN queued ELSE {})
      /\ live' = [m \in Messages |-> "no"] /\ replay' = [s \in Sessions |-> "no"]
      /\ ready' = FALSE /\ lock' = Free /\ queued' = {} /\ after' = 0 /\ scanned' = 0
  BY DEF Restart
<1>2. UNCHANGED <<history, gone, sessions, cursor, handed, told, raced, overtaken>>
  BY DEF Restart
<1>3. Posted' = Posted /\ Len(history) \in Nat /\ queued \subseteq Posted
  BY <1>2, PostedMessages DEF Posted, TypeOK
<1>4. TypeOK'
  <2>1. /\ restarts' \in 0..MaxRestarts /\ after' \in 0..Len(history) /\ scanned' \in 0..ScanLimit
        /\ unclear' \subseteq Posted
    BY <1>1, <1>3, BoundsAssumption DEF TypeOK
  <2>2. /\ ready' \in BOOLEAN
        /\ live' \in [Messages -> {"no", "missed", "event", "lock", "dispatch", "cursor"}]
        /\ replay' \in [Sessions -> {"no", "gate", "lock", "read", "scan", "dispatch", "cursor", "open"}]
    BY <1>1
  <2> QED BY <1>1, <1>2, <1>3, <2>1, <2>2 DEF TypeOK
<1>5. LockInv' /\ ScanInv' /\ EmptyInv' /\ AloneInv'
  BY <1>1 DEF LockInv, ScanInv, EmptyInv, AloneInv, Scanning, Locked
<1>6. FreshInv'
  BY <1>1, <1>2, <1>3 DEF FreshInv
<1>7. HandInv'
  <2>1. ASSUME NEW m \in Messages \ (unclear' \cup raced') PROVE Once(m)'
    <3>1. Once(m) /\ m \notin unclear
      BY <1>1, <1>2 DEF HandInv
    <3>2. live[m] # "cursor"
      BY <1>1 DEF FreshInv
    <3>3. ~Moving(m)
      BY <1>1 DEF Moving
    <3> QED BY <1>1, <1>2, <3>1, <3>2, <3>3 DEF Once
  <2> QED BY <1>1, <2>1 DEF HandInv
<1>8. SkipInv'
  BY <1>2, <1>3 DEF SkipInv
<1> QED BY <1>4, <1>5, <1>6, <1>7, <1>8

LEMMA StutterStep ==
    ASSUME IInv, UNCHANGED vars
    PROVE  IInv'
<1>1. UNCHANGED <<history, gone, link, sessions, ready, lock, cursor, live, replay, after, scanned,
                  queued, handed, told, unclear, raced, overtaken, restarts>>
  BY DEF vars, discord, replays, observed
<1>2. TypeOK'
  BY <1>1 DEF IInv, TypeOK, Posted
<1> QED BY <1>1, <1>2, QuietStep

LEMMA NextInv ==
    ASSUME IInv, [Next]_vars
    PROVE  IInv'
<1>1. CASE \E kind \in {"text", "god", "other"} : Post(kind)
  BY <1>1, PostStep
<1>2. CASE \E m \in Messages : Purge(m)
  BY <1>2, LinkSteps
<1>3. CASE \E m \in Messages : MessageEvent(m)
  BY <1>3, ReceiveStep, LockLiveStep, ForwardStep, ForwardFailsStep, AdvanceStep, AdvanceFailsStep
     DEF MessageEvent
<1>4. CASE \E s \in Sessions : ReadyEvent(s)
  BY <1>4, GateSteps, LockReplayStep, ReadCursorStep, ReplayFailsStep, ScanStep, HandOverStep,
     HandOverFailsStep, MoveCursorStep, MoveFailsStep DEF ReadyEvent
<1>5. CASE Lose \/ Resume \/ Connect
  BY <1>5, LinkSteps, ResumeStep, ConnectStep
<1>6. CASE Restart
  BY <1>6, RestartStep
<1>7. CASE UNCHANGED vars
  BY <1>7, StutterStep
<1> QED BY <1>1, <1>2, <1>3, <1>4, <1>5, <1>6, <1>7 DEF Next

-----------------------------------------------------------------------------
(* Theorems                                                                 *)

\* The invariant is inductive: one thread has the channel's lock, the scan that goes
\* on has everything between the cursor and its place, and the cursor is past what
\* Codex got.
THEOREM IngestionInductive == Spec => []IInv
<1>1. Init => IInv
  BY InitInv
<1>2. IInv /\ [Next]_vars => IInv'
  BY NextInv
<1> QED BY <1>1, <1>2, PTL DEF Spec

\* The state of the ingestion, its lock and its cursors stay of their types.
THEOREM IngestionTypeCorrect == Spec => []TypeOK
<1>1. IInv => TypeOK
  BY DEF IInv
<1> QED BY <1>1, IngestionInductive, PTL

\* Codex gets a message once, whatever live events, replays of overlapping sessions
\* and restarts have to do with it, but for the unclear and the raced ones.
THEOREM MessagesHandedOnce == Spec => []HandedOnce
<1>1. IInv => HandedOnce
  <2> SUFFICES ASSUME IInv, NEW m \in Posted \ (unclear \cup raced) PROVE handed[m] <= 1
    BY DEF HandedOnce
  <2>1. m \in Messages
    BY PostedMessages DEF IInv
  <2> QED BY <2>1 DEF IInv, HandInv, Once
<1> QED BY <1>1, IngestionInductive, PTL

\* No replay moves the cursor past a message that nobody has seen to.
THEOREM ReplaysSkipNothing == Spec => []ReplaySkipsNothing
<1>1. IInv => ReplaySkipsNothing
  <2> SUFFICES ASSUME IInv, NEW m \in Posted, m <= cursor, Unseen(m) PROVE m \in overtaken
    BY DEF ReplaySkipsNothing
  <2> QED BY DEF IInv, SkipInv, Unseen
<1> QED BY <1>1, IngestionInductive, PTL
=============================================================================
