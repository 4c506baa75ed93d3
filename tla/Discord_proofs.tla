--------------------------- MODULE Discord_proofs ---------------------------
(***************************************************************************)
(* What holds of the parts of the Discord side that work on what the relay  *)
(* keeps - the mirror of the tasks, whose handlers nothing keeps apart, the *)
(* limit on passwords, the layout of the guild, the pages of the tools -    *)
(* for every set of tasks, threads, turns and handlers, every limit, and    *)
(* any number of steps.                                                     *)
(***************************************************************************)
EXTENDS Discord, FiniteSetTheorems, SequenceTheorems, WellFoundedInduction, TLAPS

-----------------------------------------------------------------------------
(* The mirror of the tasks                                                  *)

\* What a handler does next is one of its steps.
LEMMA MirrorThen ==
    ASSUME NEW s \in MirrorScopes, NEW job \in Mirror(s)!Jobs, NEW at \in Mirror(s)!Places(job)
    PROVE  /\ at \in Mirror(s)!Steps /\ at # "none" /\ "none" \notin Mirror(s)!Places(job)
           /\ Mirror(s)!Then(job, at) \in Mirror(s)!Places(job) \cup {"none"}
           /\ Mirror(s)!First(job) \in Mirror(s)!Places(job)
           /\ at = "call" => job \in {"dispatch", "rename", "archive", "open", "reconcile",
                                      "resume", "follow"}
           /\ at = "retitle" => job = "rename" /\ Mirror(s)!Then(job, at) = "write"
           /\ at = "look" => job \in {"open", "reconcile"}
           /\ at \in {"forget", "prune", "delete", "detach", "create"} => job = "open"
           /\ at = "call" => Mirror(s)!Then(job, at) =
                IF job = "open" THEN "look" ELSE IF job = "rename" THEN "retitle"
                ELSE IF job = "follow" THEN "place" ELSE "write"
           /\ at = "look" => Mirror(s)!Then(job, at) = IF job = "open" THEN "forget" ELSE "call"
           /\ at = "forget" => Mirror(s)!Then(job, at) = "prune"
           /\ at = "prune" => Mirror(s)!Then(job, at) = "delete"
           /\ at = "delete" => Mirror(s)!Then(job, at) = "create"
           /\ at = "detach" => Mirror(s)!Then(job, at) = "delete"
           /\ at = "create" => Mirror(s)!Then(job, at) = "write"
           /\ at = "write" => Mirror(s)!Then(job, at) =
                IF job \in {"active", "inactive", "dispatch", "archive", "resume"}
                THEN "place" ELSE "none"
           /\ at = "place" => Mirror(s)!Then(job, at) =
                IF job \in Mirror(s)!Words \cup {"unarchived"} THEN "write" ELSE "none"
           /\ job = "open" => Mirror(s)!Then(job, at) # "detach"
<1> USE DEF Mirror!Words, Mirror!Steps
<1>1. /\ at \in Mirror(s)!Steps /\ at # "none" /\ "none" \notin Mirror(s)!Places(job)
      /\ Mirror(s)!First(job) \in Mirror(s)!Places(job)
      /\ at = "call" => job \in {"dispatch", "rename", "archive", "open", "reconcile",
                                 "resume", "follow"}
      /\ at = "retitle" => job = "rename"
      /\ at = "look" => job \in {"open", "reconcile"}
      /\ at \in {"forget", "prune", "delete", "detach", "create"} => job = "open"
  <2>1. CASE job \in Mirror(s)!Words \cup {"unarchived"}
    <3>1. Mirror(s)!Places(job) = {"place", "write"} /\ Mirror(s)!First(job) = "place"
      BY <2>1 DEF Mirror!Places, Mirror!First
    <3> QED BY <2>1, <3>1
  <2>2. CASE job \in {"active", "inactive"}
    <3>1. Mirror(s)!Places(job) = {"place", "write"} /\ Mirror(s)!First(job) = "write"
      BY <2>2 DEF Mirror!Places, Mirror!First
    <3> QED BY <2>2, <3>1
  <2>3. CASE job \in {"named", "touch"}
    <3>1. Mirror(s)!Places(job) = {"write"} /\ Mirror(s)!First(job) = "write"
      BY <2>3 DEF Mirror!Places, Mirror!First
    <3> QED BY <2>3, <3>1
  <2>4. CASE job \in {"dispatch", "archive", "resume"}
    <3>1. Mirror(s)!Places(job) = {"call", "write", "place"} /\ Mirror(s)!First(job) = "call"
      BY <2>4 DEF Mirror!Places, Mirror!First
    <3> QED BY <2>4, <3>1
  <2>5. CASE job = "rename"
    <3>1. Mirror(s)!Places(job) = {"call", "retitle", "write"} /\ Mirror(s)!First(job) = "call"
      BY <2>5 DEF Mirror!Places, Mirror!First
    <3> QED BY <2>5, <3>1
  <2>6. CASE job = "open"
    <3>1. Mirror(s)!Places(job) = {"call", "look", "forget", "prune", "delete", "detach", "create", "write"} /\ Mirror(s)!First(job) = "call"
      BY <2>6 DEF Mirror!Places, Mirror!First
    <3> QED BY <2>6, <3>1
  <2>7. CASE job = "reconcile"
    <3>1. Mirror(s)!Places(job) = {"look", "call", "write"} /\ Mirror(s)!First(job) = "look"
      BY <2>7 DEF Mirror!Places, Mirror!First
    <3> QED BY <2>7, <3>1
  <2>8. CASE job = "follow"
    <3>1. Mirror(s)!Places(job) = {"call", "place"} /\ Mirror(s)!First(job) = "call"
      BY <2>8 DEF Mirror!Places, Mirror!First
    <3> QED BY <2>8, <3>1
  <2> QED BY <2>1, <2>2, <2>3, <2>4, <2>5, <2>6, <2>7, <2>8 DEF Mirror!Jobs, Mirror!Kinds
<1>2. /\ at = "retitle" => Mirror(s)!Then(job, at) = "write"
      /\ at = "call" => Mirror(s)!Then(job, at) =
           IF job = "open" THEN "look" ELSE IF job = "rename" THEN "retitle"
           ELSE IF job = "follow" THEN "place" ELSE "write"
  BY DEF Mirror!Then
<1>3. /\ at = "look" => Mirror(s)!Then(job, at) = IF job = "open" THEN "forget" ELSE "call"
      /\ at = "forget" => Mirror(s)!Then(job, at) = "prune"
      /\ at = "prune" => Mirror(s)!Then(job, at) = "delete"
      /\ at = "delete" => Mirror(s)!Then(job, at) = "create"
      /\ at = "detach" => Mirror(s)!Then(job, at) = "delete"
      /\ at = "create" => Mirror(s)!Then(job, at) = "write"
  BY DEF Mirror!Then
<1>4. /\ at = "write" => Mirror(s)!Then(job, at) =
           IF job \in {"active", "inactive", "dispatch", "archive", "resume"}
           THEN "place" ELSE "none"
      /\ at = "place" => Mirror(s)!Then(job, at) =
           IF job \in Mirror(s)!Words \cup {"unarchived"} THEN "write" ELSE "none"
  BY DEF Mirror!Then
<1>5. /\ Mirror(s)!Then(job, at) \in Mirror(s)!Places(job) \cup {"none"}
      /\ job = "open" => Mirror(s)!Then(job, at) # "detach"
  BY <1>1, <1>2, <1>3, <1>4 DEF Mirror!Places, Mirror!Jobs, Mirror!Kinds
<1> QED BY <1>1, <1>2, <1>3, <1>4, <1>5

\* The notifications: what is left of them when the first is taken.
Notice(s) == [task : s.tasks, kind : Mirror(s)!Kinds, arg : Nat]

LEMMA TaskOfFirst ==
    ASSUME NEW s \in MirrorScopes, NEW told \in Seq(Notice(s)), told # <<>>,
           NEW t \in s.tasks, NEW kinds
    PROVE  /\ Head(told) \in Notice(s) /\ Tail(told) \in Seq(Notice(s))
           /\ \A n \in Mirror(s)!Among(Tail(told), t, kinds) :
                n \in Nat /\ n + 1 \in Mirror(s)!Among(told, t, kinds)
           /\ \A n \in DOMAIN Tail(told) : n + 1 \in DOMAIN told /\ Tail(told)[n] = told[n + 1]
           /\ \A n \in Mirror(s)!Among(told, t, kinds) : n \in Nat /\
                \/ n = 1 /\ Head(told).task = t /\ Head(told).kind \in kinds
                \/ n > 1 /\ n - 1 \in Mirror(s)!Among(Tail(told), t, kinds)
           /\ Head(told).task = t /\ Head(told).kind \in kinds =>
                1 \in Mirror(s)!Among(told, t, kinds)
           /\ Head(told) = told[1]
<1> DEFINE E == Notice(s)
<1>1. told \in Seq(E)
  OBVIOUS
<1> HIDE DEF E
<1>2. /\ Head(told) \in E /\ Tail(told) \in Seq(E) /\ Head(told) = told[1]
      /\ Len(told) \in Nat /\ Len(told) > 0 /\ DOMAIN told = 1..Len(told)
      /\ Len(Tail(told)) = Len(told) - 1 /\ DOMAIN Tail(told) = 1..(Len(told) - 1)
      /\ \A n \in 1..(Len(told) - 1) : Tail(told)[n] = told[n + 1]
  BY <1>1
<1> QED BY <1>2 DEF Mirror!Among, E

LEMMA EndsWhenTaken ==
    ASSUME NEW s \in MirrorScopes, NEW told \in Seq(Notice(s)), told # <<>>,
           NEW t \in s.tasks, NEW c, Mirror(s)!EndsIn(told, t, c)
    PROVE  /\ Mirror(s)!EndsIn(Tail(told), t, c)
           /\ Head(told).task = t =>
                /\ Head(told).kind \in Mirror(s)!Words =>
                     /\ Head(told).arg \in 0..s.turns
                     /\ Head(told).arg = 0 <=> Head(told).kind # "started"
                     /\ Mirror(s)!Among(Tail(told), t, Mirror(s)!Words) = {} =>
                          Head(told).arg = c.turn
                /\ Head(told).kind = "active" =>
                     Mirror(s)!Among(Tail(told), t, Mirror(s)!Words) # {}
                /\ Head(told).kind \in {"inactive", "unarchived"}
                     /\ Mirror(s)!Among(Tail(told), t, Mirror(s)!Words) = {} => c.turn = 0
                /\ Head(told).kind = "named"
                     /\ Mirror(s)!Among(Tail(told), t, {"named"}) = {} =>
                          Head(told).arg = c.title
<1> DEFINE rest == Tail(told)
<1> DEFINE Shift(K) ==
      /\ \A n \in Mirror(s)!Among(rest, t, K) :
           n \in Nat /\ n + 1 \in Mirror(s)!Among(told, t, K) /\ rest[n] = told[n + 1]
      /\ \A n \in Mirror(s)!Among(told, t, K) : n \in Nat /\
           \/ n = 1 /\ Head(told).task = t /\ Head(told).kind \in K
           \/ n > 1 /\ n - 1 \in Mirror(s)!Among(rest, t, K)
      /\ Head(told).task = t /\ Head(told).kind \in K => 1 \in Mirror(s)!Among(told, t, K)
<1>1. \A K : Shift(K)
  <2> TAKE K
  <2> QED BY TaskOfFirst DEF Mirror!Among
<1>2. Head(told) = told[1] /\ s.turns \in Nat
  BY TaskOfFirst, MirrorAssumption
<1>w. Shift(Mirror(s)!Words)
  BY <1>1
<1>3. \A n \in Mirror(s)!Among(rest, t, Mirror(s)!Words) :
        /\ rest[n].arg \in 0..s.turns
        /\ rest[n].arg = 0 <=> rest[n].kind # "started"
        /\ (\A m \in Mirror(s)!Among(rest, t, Mirror(s)!Words) : m <= n) => rest[n].arg = c.turn
  <2> TAKE n \in Mirror(s)!Among(rest, t, Mirror(s)!Words)
  <2>1. n \in Nat /\ n + 1 \in Mirror(s)!Among(told, t, Mirror(s)!Words) /\ rest[n] = told[n + 1]
    BY <1>w
  <2>2. ASSUME \A m \in Mirror(s)!Among(rest, t, Mirror(s)!Words) : m <= n
        PROVE  \A m \in Mirror(s)!Among(told, t, Mirror(s)!Words) : m <= n + 1
    BY <1>w, <2>1, <2>2
  <2> QED BY <2>1, <2>2 DEF Mirror!EndsIn, Mirror!None
<1>4. \A n \in Mirror(s)!Among(rest, t, {"active"}) :
         \E m \in Mirror(s)!Among(rest, t, {"started"}) : n < m
  <2> TAKE n \in Mirror(s)!Among(rest, t, {"active"})
  <2>1. n \in Nat /\ n + 1 \in Mirror(s)!Among(told, t, {"active"})
    BY <1>1
  <2>2. PICK m \in Mirror(s)!Among(told, t, {"started"}) : n + 1 < m
    BY <2>1 DEF Mirror!EndsIn
  <2>s. Shift({"started"})
    BY <1>1
  <2>3. m \in Nat /\ m - 1 \in Mirror(s)!Among(rest, t, {"started"})
    BY <2>1, <2>2, <2>s
  <2> QED BY <2>1, <2>2, <2>3
<1>5. \A n \in Mirror(s)!Among(rest, t, {"inactive", "unarchived"}) :
         (\A m \in Mirror(s)!Among(rest, t, Mirror(s)!Words) : m < n) => c.turn = 0
  <2> TAKE n \in Mirror(s)!Among(rest, t, {"inactive", "unarchived"})
  <2>1. n \in Nat /\ n + 1 \in Mirror(s)!Among(told, t, {"inactive", "unarchived"})
    BY <1>1
  <2>2. ASSUME \A m \in Mirror(s)!Among(rest, t, Mirror(s)!Words) : m < n
        PROVE  \A m \in Mirror(s)!Among(told, t, Mirror(s)!Words) : m < n + 1
    <3> TAKE m \in Mirror(s)!Among(told, t, Mirror(s)!Words)
    <3>0. n # 0
      BY TaskOfFirst DEF Mirror!Among
    <3> QED BY <1>w, <2>1, <2>2, <3>0
  <2> QED BY <2>1, <2>2 DEF Mirror!EndsIn, Mirror!None
<1>6. \A n \in Mirror(s)!Among(rest, t, {"named"}) :
         (\A m \in Mirror(s)!Among(rest, t, {"named"}) : m <= n) => rest[n].arg = c.title
  <2> TAKE n \in Mirror(s)!Among(rest, t, {"named"})
  <2>n. Shift({"named"})
    BY <1>1
  <2>1. n \in Nat /\ n + 1 \in Mirror(s)!Among(told, t, {"named"}) /\ rest[n] = told[n + 1]
    BY <2>n
  <2>2. ASSUME \A m \in Mirror(s)!Among(rest, t, {"named"}) : m <= n
        PROVE  \A m \in Mirror(s)!Among(told, t, {"named"}) : m <= n + 1
    BY <2>n, <2>1, <2>2
  <2> QED BY <2>1, <2>2 DEF Mirror!EndsIn
<1>7. Mirror(s)!EndsIn(rest, t, c)
  BY <1>3, <1>4, <1>5, <1>6 DEF Mirror!EndsIn, Mirror!None
<1>8. ASSUME Head(told).task = t, Head(told).kind \in Mirror(s)!Words
      PROVE  /\ Head(told).arg \in 0..s.turns
             /\ Head(told).arg = 0 <=> Head(told).kind # "started"
             /\ Mirror(s)!Among(rest, t, Mirror(s)!Words) = {} => Head(told).arg = c.turn
  <2>1. 1 \in Mirror(s)!Among(told, t, Mirror(s)!Words)
    BY <1>w, <1>8
  <2>2. ASSUME Mirror(s)!Among(rest, t, Mirror(s)!Words) = {}
        PROVE  \A m \in Mirror(s)!Among(told, t, Mirror(s)!Words) : m <= 1
    BY <1>w, <2>2
  <2> QED BY <1>2, <2>1, <2>2 DEF Mirror!EndsIn, Mirror!None
<1>9. ASSUME Head(told).task = t, Head(told).kind = "active"
      PROVE  Mirror(s)!Among(rest, t, Mirror(s)!Words) # {}
  <2>1. Shift({"active"}) /\ Shift({"started"})
    BY <1>1
  <2>2. PICK m \in Mirror(s)!Among(told, t, {"started"}) : 1 < m
    BY <1>9, <2>1 DEF Mirror!EndsIn
  <2>3. m - 1 \in Mirror(s)!Among(rest, t, {"started"})
    BY <2>1, <2>2
  <2> QED BY <2>3 DEF Mirror!Among, Mirror!Words
<1>10. ASSUME Head(told).task = t, Head(told).kind \in {"inactive", "unarchived"},
              Mirror(s)!Among(rest, t, Mirror(s)!Words) = {}
       PROVE  c.turn = 0
  <2>1. Shift({"inactive", "unarchived"})
    BY <1>1
  <2>2. \A m \in Mirror(s)!Among(told, t, Mirror(s)!Words) : m < 1
    BY <1>w, <1>10 DEF Mirror!Words
  <2> QED BY <1>10, <2>1, <2>2 DEF Mirror!EndsIn, Mirror!None
<1>11. ASSUME Head(told).task = t, Head(told).kind = "named",
              Mirror(s)!Among(rest, t, {"named"}) = {}
       PROVE  Head(told).arg = c.title
  <2>1. Shift({"named"})
    BY <1>1
  <2>2. \A m \in Mirror(s)!Among(told, t, {"named"}) : m <= 1
    BY <2>1, <1>11
  <2> QED BY <1>2, <1>11, <2>1, <2>2 DEF Mirror!EndsIn
<1> QED BY <1>7, <1>8, <1>9, <1>10, <1>11

\* The notifications: one more of them.
LEMMA TaskOfLast ==
    ASSUME NEW s \in MirrorScopes, NEW told \in Seq(Notice(s)), NEW e \in Notice(s),
           NEW t \in s.tasks, NEW kinds
    PROVE  /\ Append(told, e) \in Seq(Notice(s)) /\ Len(told) \in Nat
           /\ Append(told, e)[Len(told) + 1] = e
           /\ \A n \in Mirror(s)!Among(told, t, kinds) :
                n \in Nat /\ n <= Len(told) /\ Append(told, e)[n] = told[n]
           /\ Mirror(s)!Among(told, t, kinds) \subseteq Mirror(s)!Among(Append(told, e), t, kinds)
           /\ e.task = t /\ e.kind \in kinds =>
                Mirror(s)!Among(Append(told, e), t, kinds)
                  = Mirror(s)!Among(told, t, kinds) \cup {Len(told) + 1}
           /\ ~(e.task = t /\ e.kind \in kinds) =>
                Mirror(s)!Among(Append(told, e), t, kinds) = Mirror(s)!Among(told, t, kinds)
<1> DEFINE E == Notice(s)
<1>1. told \in Seq(E) /\ e \in E
  OBVIOUS
<1> HIDE DEF E
<1>2. /\ Append(told, e) \in Seq(E) /\ Len(told) \in Nat /\ DOMAIN told = 1..Len(told)
      /\ DOMAIN Append(told, e) = 1..(Len(told) + 1)
      /\ \A n \in 1..Len(told) : Append(told, e)[n] = told[n]
      /\ Append(told, e)[Len(told) + 1] = e
  BY <1>1
<1> QED BY <1>2 DEF Mirror!Among, E

\* They still end in what Codex has when it says what it has come to.
LEMMA EndsWhenSaid ==
    ASSUME NEW s \in MirrorScopes, NEW told \in Seq(Notice(s)), NEW e \in Notice(s),
           NEW t \in s.tasks, NEW c, NEW d, Mirror(s)!EndsIn(told, t, c),
           \/ e.task # t /\ d.turn = c.turn /\ d.title = c.title
           \/ /\ e.task = t /\ e.kind \in Mirror(s)!Words
              /\ e.arg = d.turn /\ e.arg \in 0..s.turns /\ (e.arg = 0 <=> e.kind # "started")
              /\ d.title = c.title
           \/ /\ e.task = t /\ e.kind \in {"inactive", "unarchived"}
              /\ c.turn = 0 /\ d.turn = 0 /\ d.title = c.title
           \/ e.task = t /\ e.kind = "named" /\ e.arg = d.title /\ d.turn = c.turn
    PROVE  Mirror(s)!EndsIn(Append(told, e), t, d)
<1> DEFINE more == Append(told, e)
<1> DEFINE More(K) ==
      /\ \A n \in Mirror(s)!Among(told, t, K) :
           n \in Nat /\ n <= Len(told) /\ more[n] = told[n]
      /\ Mirror(s)!Among(told, t, K) \subseteq Mirror(s)!Among(more, t, K)
      /\ e.task = t /\ e.kind \in K =>
           Mirror(s)!Among(more, t, K) = Mirror(s)!Among(told, t, K) \cup {Len(told) + 1}
      /\ ~(e.task = t /\ e.kind \in K) =>
           Mirror(s)!Among(more, t, K) = Mirror(s)!Among(told, t, K)
<1>1. \A K : More(K)
  <2> TAKE K
  <2> QED BY TaskOfLast DEF Mirror!Among
<1>2. Len(told) \in Nat /\ more[Len(told) + 1] = e /\ s.turns \in Nat /\ e.arg \in Nat
  BY TaskOfLast, MirrorAssumption DEF Notice
<1>3. More(Mirror(s)!Words) /\ More({"active"}) /\ More({"started"}) /\ More({"named"})
      /\ More({"inactive", "unarchived"})
  BY <1>1
<1> HIDE DEF more
<1>4. ASSUME NEW n \in Mirror(s)!Among(more, t, Mirror(s)!Words)
      PROVE  /\ more[n].arg \in 0..s.turns
             /\ more[n].arg = 0 <=> more[n].kind # "started"
             /\ (\A m \in Mirror(s)!Among(more, t, Mirror(s)!Words) : m <= n) =>
                   more[n].arg = d.turn
  <2>1. CASE e.task = t /\ e.kind \in Mirror(s)!Words
    <3>1. e.arg = d.turn /\ e.arg \in 0..s.turns /\ (e.arg = 0 <=> e.kind # "started")
      BY <2>1 DEF Mirror!Words
    <3>2. CASE n = Len(told) + 1
      BY <1>2, <3>1, <3>2
    <3>3. CASE n \in Mirror(s)!Among(told, t, Mirror(s)!Words)
      BY <1>2, <1>3, <2>1, <3>3 DEF Mirror!EndsIn, Mirror!None
    <3> QED BY <1>3, <2>1, <3>2, <3>3
  <2>2. CASE ~(e.task = t /\ e.kind \in Mirror(s)!Words)
    <3>1. d.turn = c.turn
      BY <2>2 DEF Mirror!Words
    <3> QED BY <1>3, <2>2, <3>1 DEF Mirror!EndsIn, Mirror!None
  <2> QED BY <2>1, <2>2
<1>5. \A n \in Mirror(s)!Among(more, t, {"active"}) :
         \E m \in Mirror(s)!Among(more, t, {"started"}) : n < m
  <2>1. Mirror(s)!Among(more, t, {"active"}) = Mirror(s)!Among(told, t, {"active"})
    BY <1>3 DEF Mirror!Words
  <2> QED BY <1>3, <2>1 DEF Mirror!EndsIn
<1>6. ASSUME NEW n \in Mirror(s)!Among(more, t, {"inactive", "unarchived"}),
             \A m \in Mirror(s)!Among(more, t, Mirror(s)!Words) : m < n
      PROVE  d.turn = 0
  <2>1. CASE e.task = t /\ e.kind \in Mirror(s)!Words
    <3>1. n \in Mirror(s)!Among(told, t, {"inactive", "unarchived"})
      BY <1>3, <2>1 DEF Mirror!Words
    <3> QED BY <1>2, <1>3, <1>6, <2>1, <3>1
  <2>2. CASE ~(e.task = t /\ e.kind \in Mirror(s)!Words)
    <3>1. d.turn = c.turn
      BY <2>2 DEF Mirror!Words
    <3>2. CASE n \in Mirror(s)!Among(told, t, {"inactive", "unarchived"})
      BY <1>3, <1>6, <2>2, <3>1, <3>2 DEF Mirror!EndsIn, Mirror!None
    <3>3. CASE n \notin Mirror(s)!Among(told, t, {"inactive", "unarchived"})
      <4>1. e.task = t /\ e.kind \in {"inactive", "unarchived"}
        BY <1>3, <3>3
      <4> QED BY <4>1 DEF Mirror!Words
    <3> QED BY <3>2, <3>3
  <2> QED BY <2>1, <2>2
<1>7. ASSUME NEW n \in Mirror(s)!Among(more, t, {"named"}),
             \A m \in Mirror(s)!Among(more, t, {"named"}) : m <= n
      PROVE  more[n].arg = d.title
  <2>1. CASE e.task = t /\ e.kind = "named"
    <3>1. e.arg = d.title
      BY <2>1 DEF Mirror!Words
    <3>2. Len(told) + 1 \in Mirror(s)!Among(more, t, {"named"})
      BY <1>3, <2>1
    <3>3. n = Len(told) + 1
      BY <1>2, <1>3, <1>7, <2>1, <3>2
    <3> QED BY <1>2, <3>1, <3>3
  <2>2. CASE ~(e.task = t /\ e.kind = "named")
    <3>1. d.title = c.title
      BY <2>2
    <3> QED BY <1>3, <1>7, <2>2, <3>1 DEF Mirror!EndsIn
  <2> QED BY <2>1, <2>2
<1> QED BY <1>4, <1>5, <1>6, <1>7 DEF Mirror!EndsIn, Mirror!None, more

\* A status that comes with the word of a turn may come before it.
LEMMA EndsWhenBothAreSaid ==
    ASSUME NEW s \in MirrorScopes, NEW told \in Seq(Notice(s)),
           NEW x \in Notice(s), NEW e \in Notice(s),
           NEW t \in s.tasks, NEW c, NEW d, Mirror(s)!EndsIn(told, t, c),
           x.task = t, x.kind = "inactive" \/ (x.kind = "active" /\ e.kind = "started"),
           e.task = t, e.kind \in Mirror(s)!Words,
           e.arg = d.turn, e.arg \in 0..s.turns, e.arg = 0 <=> e.kind # "started",
           d.title = c.title
    PROVE  Mirror(s)!EndsIn(Append(Append(told, x), e), t, d)
<1> DEFINE some == Append(told, x)  more == Append(some, e)
<1> DEFINE More(K) ==
      /\ \A n \in Mirror(s)!Among(told, t, K) :
           n \in Nat /\ n <= Len(told) /\ more[n] = told[n]
      /\ Mirror(s)!Among(told, t, K) \subseteq Mirror(s)!Among(more, t, K)
      /\ Mirror(s)!Among(more, t, K) \subseteq
           Mirror(s)!Among(told, t, K) \cup (IF x.kind \in K THEN {Len(told) + 1} ELSE {})
             \cup (IF e.kind \in K THEN {Len(told) + 2} ELSE {})
      /\ e.kind \in K => Len(told) + 2 \in Mirror(s)!Among(more, t, K)
<1>1. some \in Seq(Notice(s)) /\ Len(told) \in Nat /\ Len(some) = Len(told) + 1
      /\ more[Len(told) + 2] = e
  <2> DEFINE E == Notice(s)
  <2>1. told \in Seq(E) /\ x \in E /\ e \in E
    OBVIOUS
  <2> HIDE DEF E
  <2>2. some \in Seq(E) /\ Len(told) \in Nat /\ Len(some) = Len(told) + 1
        /\ more[Len(told) + 2] = e
    BY <2>1
  <2> QED BY <2>2 DEF E
<1>2. \A K : More(K)
  <2> TAKE K
  <2> DEFINE old == Mirror(s)!Among(told, t, K)  one == Mirror(s)!Among(some, t, K)
             all == Mirror(s)!Among(more, t, K)
  <2>1. /\ \A n \in old : n \in Nat /\ n <= Len(told) /\ some[n] = told[n]
        /\ old \subseteq one
        /\ x.kind \in K => one = old \cup {Len(told) + 1}
        /\ x.kind \notin K => one = old
    BY TaskOfLast DEF Mirror!Among
  <2>2. /\ \A n \in one : n \in Nat /\ n <= Len(some) /\ more[n] = some[n]
        /\ one \subseteq all
        /\ e.kind \in K => all = one \cup {Len(some) + 1}
        /\ e.kind \notin K => all = one
    BY <1>1, TaskOfLast DEF Mirror!Among
  <2> HIDE DEF old, one, all, some, more
  <2>3. /\ \A n \in old : n \in Nat /\ n <= Len(told) /\ more[n] = told[n]
        /\ old \subseteq all
        /\ all \subseteq old \cup (IF x.kind \in K THEN {Len(told) + 1} ELSE {})
             \cup (IF e.kind \in K THEN {Len(told) + 2} ELSE {})
        /\ e.kind \in K => Len(told) + 2 \in all
    BY <1>1, <2>1, <2>2
  <2> QED BY <2>3 DEF old, all
<1>3. More(Mirror(s)!Words) /\ More({"active"}) /\ More({"started"}) /\ More({"named"})
      /\ More({"inactive", "unarchived"})
  BY <1>2
<1>4. s.turns \in Nat /\ x.kind \notin Mirror(s)!Words /\ x.kind # "named" /\ e.kind # "named"
      /\ e.kind \notin {"inactive", "unarchived", "active"}
  BY MirrorAssumption DEF Mirror!Words
<1> HIDE DEF more, some
<1>5. ASSUME NEW n \in Mirror(s)!Among(more, t, Mirror(s)!Words)
      PROVE  /\ more[n].arg \in 0..s.turns
             /\ more[n].arg = 0 <=> more[n].kind # "started"
             /\ (\A m \in Mirror(s)!Among(more, t, Mirror(s)!Words) : m <= n) =>
                   more[n].arg = d.turn
  <2>1. CASE n = Len(told) + 2
    BY <1>1, <2>1
  <2>2. CASE n \in Mirror(s)!Among(told, t, Mirror(s)!Words)
    BY <1>1, <1>3, <2>2 DEF Mirror!EndsIn, Mirror!None
  <2> QED BY <1>3, <1>4, <2>1, <2>2
<1>6. ASSUME NEW n \in Mirror(s)!Among(more, t, {"active"})
      PROVE  \E m \in Mirror(s)!Among(more, t, {"started"}) : n < m
  <2>1. CASE n \in Mirror(s)!Among(told, t, {"active"})
    BY <1>3, <2>1 DEF Mirror!EndsIn
  <2>2. CASE n \notin Mirror(s)!Among(told, t, {"active"})
    <3>1. x.kind = "active" /\ n = Len(told) + 1 /\ e.kind = "started"
      BY <1>3, <1>4, <2>2
    <3> QED BY <1>1, <1>3, <3>1
  <2> QED BY <2>1, <2>2
<1>7. ASSUME NEW n \in Mirror(s)!Among(more, t, {"inactive", "unarchived"})
      PROVE  ~(\A m \in Mirror(s)!Among(more, t, Mirror(s)!Words) : m < n)
  <2>1. n \in Nat /\ n <= Len(told) + 1
    BY <1>1, <1>3, <1>4
  <2> QED BY <1>1, <1>3, <2>1
<1>8. ASSUME NEW n \in Mirror(s)!Among(more, t, {"named"}),
             \A m \in Mirror(s)!Among(more, t, {"named"}) : m <= n
      PROVE  more[n].arg = d.title
  BY <1>3, <1>4, <1>8 DEF Mirror!EndsIn
<1> QED BY <1>5, <1>6, <1>7, <1>8 DEF Mirror!EndsIn, Mirror!None, more, some

\* A handler that fits, and what becomes of it.
Stale(h) == [h EXCEPT !.fresh = FALSE, !.recent = FALSE]

LEMMA FitsHas ==
    ASSUME NEW s \in MirrorScopes, NEW h, NEW known, Mirror(s)!Fits(h, known)
    PROVE  /\ h \in Mirror(s)!Handlers /\ h.at \in Mirror(s)!Places(h.job)
           /\ h.at # "none" /\ h.at \in Mirror(s)!Steps /\ h.job \in Mirror(s)!Jobs
           /\ h.task \in s.tasks /\ h.copy \in Mirror(s)!Row /\ h.arg \in Nat
           /\ h.fresh \in BOOLEAN /\ h.recent \in BOOLEAN /\ h.doomed \subseteq known
           /\ h.copy.channel_id \in {0} \cup known
           /\ h.job \in Mirror(s)!Asked => h.arg \in 0..s.turns
           /\ h.job \in Mirror(s)!Words => (h.arg = 0 <=> h.job # "started")
<1>1. h \in Mirror(s)!Handlers /\ h.at \in Mirror(s)!Places(h.job) /\ h.job \in Mirror(s)!Jobs
  BY DEF Mirror!Fits, Mirror!Handlers
<1>2. h.at # "none"
  BY <1>1, MirrorThen
<1> QED BY <1>1, <1>2 DEF Mirror!Fits, Mirror!Handlers, Mirror!None

LEMMA FitsLater ==
    ASSUME NEW s \in MirrorScopes, NEW h, NEW known, NEW more, known \subseteq more,
           Mirror(s)!Fits(h, known)
    PROVE  Mirror(s)!Fits(h, more) /\ Mirror(s)!Fits(Stale(h), more)
<1>1. Mirror(s)!Fits(h, more)
  BY DEF Mirror!Fits
<1>2. h \in Mirror(s)!Handlers
  BY DEF Mirror!Fits
<1> DEFINE k == Stale(h)
<1>3. /\ k \in Mirror(s)!Handlers /\ k.at = h.at /\ k.job = h.job /\ k.task = h.task
      /\ k.copy = h.copy /\ k.arg = h.arg /\ k.doomed = h.doomed
  BY <1>2 DEF Mirror!Handlers, Stale
<1> HIDE DEF k
<1>4. Mirror(s)!Fits(k, more)
  BY <1>1, <1>3 DEF Mirror!Fits
<1> QED BY <1>1, <1>4 DEF k

LEMMA StaleHas ==
    ASSUME NEW s \in MirrorScopes, NEW h \in Mirror(s)!Handlers
    PROVE  /\ Stale(h) \in Mirror(s)!Handlers /\ Stale(h).at = h.at /\ Stale(h).job = h.job
           /\ Stale(h).task = h.task /\ Stale(h).copy = h.copy /\ Stale(h).arg = h.arg
           /\ Stale(h).doomed = h.doomed /\ Stale(h).fresh = FALSE /\ Stale(h).recent = FALSE
BY DEF Mirror!Handlers, Stale

\* What a thread is doing.
LEMMA MirrorThreads ==
    ASSUME NEW s \in MirrorScopes, Mirror(s)!Shape, NEW p \in Mirror(s)!Threads
    PROVE  /\ v5[p].at = "none" => v5[p] = Mirror(s)!Idle
           /\ v5[p].at # "none" => Mirror(s)!Fits(v5[p], DOMAIN v4)
           /\ v5[p] = Mirror(s)!Idle \/ Mirror(s)!Fits(v5[p], DOMAIN v4)
           /\ Mirror(s)!Idle.at = "none" /\ s.consumer \in Mirror(s)!Threads
           /\ v5[p].at # "none" => (v5[p].job \in Mirror(s)!Kinds <=> p = s.consumer)
<1>1. v5[p] = Mirror(s)!Idle \/ Mirror(s)!Fits(v5[p], DOMAIN v4)
  BY DEF Mirror!Shape
<1>2. Mirror(s)!Idle.at = "none"
  BY DEF Mirror!Idle
<1>3. Mirror(s)!Fits(v5[p], DOMAIN v4) => v5[p].at # "none"
  BY FitsHas
<1> QED BY <1>1, <1>2, <1>3 DEF Mirror!Shape, Mirror!Busy, Mirror!Threads

\* A handler has moved on; of the others some know now that they are stale.
Moved(s, p) ==
    /\ DOMAIN v5' = Mirror(s)!Threads
    /\ \A q \in Mirror(s)!Threads \ {p} :
          v5'[q] = v5[q] \/ (v5[q].at # "none" /\ v5'[q] = Stale(v5[q]))

LEMMA MirrorGo ==
    ASSUME NEW s \in MirrorScopes, Mirror(s)!Shape, NEW p \in Mirror(s)!Threads, NEW k,
           Mirror(s)!Go(p, k)
    PROVE  Moved(s, p) /\ v5'[p] = Mirror(s)!Rested(k)
           /\ \A q \in Mirror(s)!Threads \ {p} : v5'[q] = v5[q]
BY DEF Mirror!Go, Moved, Mirror!Shape

LEMMA MirrorAged ==
    ASSUME NEW s \in MirrorScopes, Mirror(s)!Shape, NEW p \in Mirror(s)!Threads, NEW k,
           NEW t, v5' = Mirror(s)!Aged(p, t, k)
    PROVE  Moved(s, p) /\ v5'[p] = Mirror(s)!Rested(k)
           /\ \A q \in Mirror(s)!Threads \ {p} :
                IF v5[q].at # "none" /\ v5[q].task = t THEN v5'[q] = Stale(v5[q])
                ELSE v5'[q] = v5[q]
BY DEF Mirror!Aged, Moved, Mirror!Busy, Stale

\* The shape of the next state.
LEMMA MirrorShape ==
    ASSUME NEW s \in MirrorScopes, Mirror(s)!Shape, NEW p \in Mirror(s)!Threads, Moved(s, p),
           v1' \in [s.tasks -> [turn : 0..s.turns, title : Nat, archived : BOOLEAN]],
           v2' \in Seq(Notice(s)),
           v3' \in [s.tasks -> Mirror(s)!Row],
           \A t \in s.tasks : v3'[t].channel_id \in {0} \cup DOMAIN v4',
           v4' \in Seq([task : s.tasks, category : {"running", "done"}, alive : BOOLEAN]),
           Len(v4') <= s.created, DOMAIN v4 \subseteq DOMAIN v4',
           v5'[p] = Mirror(s)!Idle \/ Mirror(s)!Fits(v5'[p], DOMAIN v4'),
           v5'[p].at # "none" => (v5'[p].job \in Mirror(s)!Kinds <=> p = s.consumer),
           v6' \in [turns : 0..s.turns, calls : Nat, faults : Nat],
           v7' \subseteq s.tasks, v8' \subseteq s.tasks
    PROVE  Mirror(s)!Shape'
<1>1. \A q \in Mirror(s)!Threads :
         v5'[q] = Mirror(s)!Idle \/ Mirror(s)!Fits(v5'[q], DOMAIN v4')
  <2> TAKE q \in Mirror(s)!Threads
  <2>1. CASE q = p
    BY <2>1
  <2>2. CASE q # p
    <3>1. v5[q] = Mirror(s)!Idle \/ Mirror(s)!Fits(v5[q], DOMAIN v4)
      BY MirrorThreads
    <3>2. CASE v5'[q] = v5[q]
      BY <3>1, <3>2, FitsLater
    <3>3. CASE v5[q].at # "none" /\ v5'[q] = Stale(v5[q])
      BY <3>1, <3>3, FitsLater, MirrorThreads
    <3> QED BY <2>2, <3>2, <3>3 DEF Moved
  <2> QED BY <2>1, <2>2
<1>2. \A q \in Mirror(s)!Threads :
         v5'[q].at # "none" => (v5'[q].job \in Mirror(s)!Kinds <=> q = s.consumer)
  <2> TAKE q \in Mirror(s)!Threads
  <2>1. CASE q = p
    BY <2>1
  <2>2. CASE q # p
    <3>2. CASE v5'[q] = v5[q]
      BY <3>2, MirrorThreads
    <3>3. CASE v5[q].at # "none" /\ v5'[q] = Stale(v5[q])
      <4>1. v5[q] \in Mirror(s)!Handlers /\ (v5[q].job \in Mirror(s)!Kinds <=> q = s.consumer)
        BY <3>3, MirrorThreads, FitsHas
      <4>2. PICK g : g = v5[q]
        OBVIOUS
      <4>3. Stale(g).job = g.job
        BY <4>1, <4>2, StaleHas
      <4> QED BY <3>3, <4>1, <4>2, <4>3
    <3> QED BY <2>2, <3>2, <3>3 DEF Moved
  <2> QED BY <2>1, <2>2
<1>3. \A q \in Mirror(s)!Threads : (v5[q] = Mirror(s)!Idle \/ Mirror(s)!Fits(v5[q], DOMAIN v4))'
  BY <1>1 DEF Mirror!Fits, Mirror!Idle, Mirror!Handlers, Mirror!Steps, Mirror!Row,
              Mirror!Places, Mirror!Words, Mirror!Jobs, Mirror!Kinds, Mirror!Asked
<1> QED BY <1>2, <1>3 DEF Mirror!Shape, Moved, Mirror!Threads, Mirror!Busy, Notice,
           Mirror!None, Mirror!Kinds, Mirror!Words, Mirror!Row

\* The handler of the consumer after a step: as before as far as it hears of t.
Attends(s, t, kinds) ==
    LET h == v5[s.consumer]  k == v5'[s.consumer]
    IN  \/ k = h
        \/ h.at = "none" /\ (k.at = "none" \/ k.task # t)
        \/ k.at = "none" /\ ~Mirror(s)!Hearing(t, kinds)
        \/ /\ h.at # "none" /\ k.at # "none"
           /\ k.task = h.task /\ k.job = h.job /\ k.arg = h.arg
           /\ k.fresh => h.fresh
           /\ k.recent => h.recent

\* Nothing of task t is unsaid that was not before.
Grows(s, t) ==
    /\ \A kinds \in {Mirror(s)!Words, {"named"}} :
          Mirror(s)!Among(v2, t, kinds) # {} => Mirror(s)!Among(v2', t, kinds) # {}
    /\ v1'[t].turn = v1[t].turn \/ Mirror(s)!Among(v2', t, Mirror(s)!Words) # {}
    /\ v1'[t].title = v1[t].title \/ Mirror(s)!Among(v2', t, {"named"}) # {}

\* A word of it is still on its way, and is when Codex has something new.
TurnKept(s, t) ==
    /\ Mirror(s)!Spoken(t) => Mirror(s)!Spoken(t)'
    /\ v1'[t].turn = v1[t].turn \/ Mirror(s)!Spoken(t)'
TitleKept(s, t) ==
    /\ Mirror(s)!Titled(t) => Mirror(s)!Titled(t)'
    /\ v1'[t].title = v1[t].title \/ Mirror(s)!Titled(t)'

LEMMA MirrorSpoken ==
    ASSUME NEW s \in MirrorScopes, NEW t \in s.tasks, Grows(s, t)
    PROVE  /\ Attends(s, t, Mirror(s)!Words) => TurnKept(s, t)
           /\ Attends(s, t, {"named"}) => TitleKept(s, t)
<1> DEFINE W == Mirror(s)!Words
<1>2. \A kinds : Mirror(s)!Hearing(t, kinds) <=>
         v5[s.consumer].at # "none" /\ v5[s.consumer].task = t /\ v5[s.consumer].job \in kinds
  BY DEF Mirror!Hearing, Mirror!Busy
<1>4. ASSUME NEW kinds \in {W, {"named"}}, Mirror(s)!Hearing(t, kinds), Attends(s, t, kinds)
      PROVE  /\ v5'[s.consumer].at # "none" /\ v5'[s.consumer].task = t
             /\ v5'[s.consumer].job \in kinds /\ v5'[s.consumer].arg = v5[s.consumer].arg
  BY <1>2, <1>4 DEF Attends
<1>5. ASSUME Attends(s, t, W) PROVE TurnKept(s, t)
  <2>1. Mirror(s)!Hearing(t, W) =>
             /\ v5'[s.consumer].at # "none" /\ v5'[s.consumer].task = t
             /\ v5'[s.consumer].job \in W /\ v5'[s.consumer].arg = v5[s.consumer].arg
    BY <1>4, <1>5
  <2>2. /\ Mirror(s)!Among(v2, t, W) # {} => Mirror(s)!Among(v2', t, W) # {}
        /\ v1'[t].turn = v1[t].turn \/ Mirror(s)!Among(v2', t, W) # {}
    BY DEF Grows
  <2>3. Mirror(s)!Hearing(t, W) => Mirror(s)!Hearing(t, W)'
    BY <2>1 DEF Mirror!Hearing, Mirror!Busy, Mirror!Words
  <2> QED BY <2>1, <2>2, <2>3 DEF Mirror!Spoken, TurnKept, Mirror!Words
<1>6. ASSUME Attends(s, t, {"named"}) PROVE TitleKept(s, t)
  <2>1. Mirror(s)!Hearing(t, {"named"}) =>
             /\ v5'[s.consumer].at # "none" /\ v5'[s.consumer].task = t
             /\ v5'[s.consumer].job = "named"
    BY <1>4, <1>6
  <2>2. /\ Mirror(s)!Among(v2, t, {"named"}) # {} => Mirror(s)!Among(v2', t, {"named"}) # {}
        /\ v1'[t].title = v1[t].title \/ Mirror(s)!Among(v2', t, {"named"}) # {}
    BY DEF Grows
  <2>3. Mirror(s)!Hearing(t, {"named"}) => Mirror(s)!Hearing(t, {"named"})'
    BY <2>1 DEF Mirror!Hearing, Mirror!Busy
  <2> QED BY <2>2, <2>3 DEF Mirror!Titled, TitleKept
<1> QED BY <1>5, <1>6

\* A handler that does nothing is as good as it was, or known to be stale.
LEMMA TurnOfOther ==
    ASSUME NEW s \in MirrorScopes, Mirror(s)!Shape, NEW q \in Mirror(s)!Threads,
           Mirror(s)!TurnFits(q), NEW t, t = v5[q].task,
           \/ /\ v5'[q] = v5[q]
              /\ v5[q].at # "none" => v3'[t] = v3[t] /\ TurnKept(s, t)
           \/ /\ v5[q].at # "none" /\ v5'[q] = Stale(v5[q])
              /\ v3[t].exists => v3'[t].exists
    PROVE  Mirror(s)!TurnFits(q)'
<1>1. CASE v5[q].at = "none"
  <2>1. v5'[q].at = "none"
    BY <1>1
  <2> QED BY <2>1 DEF Mirror!TurnFits, Mirror!Busy
<1>2. CASE v5[q].at # "none"
  <2>1. v5[q] \in Mirror(s)!Handlers
    BY <1>2, MirrorThreads, FitsHas
  <2> DEFINE Apt(h, c, r, spoken) ==
        /\ h.job # "open" => r.exists /\ h.copy.exists
        /\ h.fresh /\ (h.job # "open" \/ h.at = "forget") => h.copy = r
        /\ h.at = "write" /\ h.job \in {"dispatch", "resume", "reconcile"} /\ h.recent =>
              spoken \/ h.arg = c.turn
        /\ h.at = "write" /\ h.job = "archive" /\ h.fresh => spoken
  <2>2. Apt(v5[q], v1[t], v3[t], Mirror(s)!Spoken(t))
    BY <1>2 DEF Mirror!TurnFits, Mirror!Busy
  <2>3. CASE v5'[q] = v5[q] /\ v3'[t] = v3[t] /\ TurnKept(s, t)
    <3>1. Apt(v5'[q], v1'[t], v3'[t], Mirror(s)!Spoken(t)')
      BY <2>2, <2>3 DEF TurnKept
    <3>2. v5'[q].task = t
      BY <2>3
    <3> QED BY <3>1, <3>2 DEF Mirror!TurnFits, Mirror!Busy
  <2>4. CASE v5'[q] = Stale(v5[q]) /\ (v3[t].exists => v3'[t].exists)
    <3> DEFINE old == Stale(v5[q])
    <3>0. /\ old.job = v5[q].job /\ old.task = v5[q].task /\ old.copy = v5[q].copy
          /\ old.fresh = FALSE /\ old.recent = FALSE
      BY <2>1, StaleHas
    <3> HIDE DEF old
    <3>a. v5'[q] = old
      BY <2>4 DEF old
    <3>1. /\ v5'[q].job = v5[q].job /\ v5'[q].task = t /\ v5'[q].copy = v5[q].copy
          /\ v5'[q].fresh = FALSE /\ v5'[q].recent = FALSE
      BY <3>0, <3>a
    <3>2. v5'[q].job # "open" => v3'[t].exists /\ v5'[q].copy.exists
      BY <2>2, <2>4, <3>1
    <3> QED BY <3>1, <3>2 DEF Mirror!TurnFits, Mirror!Busy
  <2> QED BY <1>2, <2>3, <2>4
<1> QED BY <1>1, <1>2

LEMMA TitleOfOther ==
    ASSUME NEW s \in MirrorScopes, Mirror(s)!Shape, NEW q \in Mirror(s)!Threads,
           Mirror(s)!TitleFits(q), NEW t, t = v5[q].task, v8 \subseteq v8',
           \/ v5'[q] = v5[q] /\ (v5[q].at # "none" => TitleKept(s, t))
           \/ v5[q].at # "none" /\ v5'[q] = Stale(v5[q])
    PROVE  Mirror(s)!TitleFits(q)'
<1>1. CASE v5[q].at = "none"
  <2>1. v5'[q].at = "none"
    BY <1>1
  <2> QED BY <2>1 DEF Mirror!TitleFits, Mirror!Busy
<1>2. CASE v5[q].at # "none"
  <2>1. v5[q] \in Mirror(s)!Handlers
    BY <1>2, MirrorThreads, FitsHas
  <2>3. CASE v5'[q] = v5[q] /\ TitleKept(s, t)
    <3> DEFINE Apt(h, c, titled) ==
          /\ h.job = "rename" /\ h.at # "call" => titled
          /\ h.job = "open" /\ h.at \in {"delete", "detach", "create", "write"} =>
                titled \/ h.copy.title = c.title
    <3>1. v5[q].fresh /\ t \notin v8 => Apt(v5[q], v1[t], Mirror(s)!Titled(t))
      BY <1>2 DEF Mirror!TitleFits, Mirror!Busy
    <3>2. v5'[q].fresh /\ t \notin v8' => Apt(v5'[q], v1'[t], Mirror(s)!Titled(t)')
      BY <3>1, <2>3 DEF TitleKept
    <3>3. v5'[q].task = t
      BY <2>3
    <3> QED BY <3>2, <3>3 DEF Mirror!TitleFits, Mirror!Busy
  <2>4. CASE v5'[q] = Stale(v5[q])
    <3> DEFINE old == Stale(v5[q])
    <3>0. old.fresh = FALSE
      BY <2>1, StaleHas
    <3> HIDE DEF old
    <3>a. v5'[q] = old
      BY <2>4 DEF old
    <3> QED BY <3>0, <3>a DEF Mirror!TitleFits, Mirror!Busy
  <2> QED BY <1>2, <2>3, <2>4
<1> QED BY <1>1, <1>2

\* A task whose row nobody writes.
LEMMA TurnHeardStill ==
    ASSUME NEW s \in MirrorScopes, NEW t \in s.tasks, NEW kinds,
           Mirror(s)!TurnHeard(t), Attends(s, t, kinds), Grows(s, t)
    PROVE  Mirror(s)!TurnHeard(t)'
<1> DEFINE W == Mirror(s)!Words  h == v5[s.consumer]  k == v5'[s.consumer]
           old == Mirror(s)!Among(v2, t, W)  new == Mirror(s)!Among(v2', t, W)
<1>0. (old # {} => new # {}) /\ (v1'[t].turn = v1[t].turn \/ new # {})
  BY DEF Grows
<1>1. CASE k.at = "none" \/ k.task # t
  BY <1>1 DEF Mirror!TurnHeard, Mirror!Hearing, Mirror!Busy
<1>2. CASE k.at # "none" /\ k.task = t
  <2>1. h.at # "none" /\ k.task = h.task /\ k.job = h.job /\ k.arg = h.arg
        /\ (k.fresh => h.fresh) /\ (k.recent => h.recent)
    BY <1>2 DEF Attends
  <2> HIDE DEF h, k, old, new
  <2>2. /\ h.task = t /\ h.job \in W /\ h.recent /\ old = {} => h.arg = v1[t].turn
        /\ h.task = t /\ h.job = "active" /\ h.fresh => old # {}
        /\ h.task = t /\ h.job \in {"inactive", "unarchived"} /\ h.fresh /\ old = {} =>
             v1[t].turn = 0
    BY <2>1 DEF Mirror!TurnHeard, Mirror!Hearing, Mirror!Busy, Mirror!None, h, old
  <2>3. /\ k.task = t /\ k.job \in W /\ k.recent /\ new = {} => k.arg = v1'[t].turn
        /\ k.task = t /\ k.job = "active" /\ k.fresh => new # {}
        /\ k.task = t /\ k.job \in {"inactive", "unarchived"} /\ k.fresh /\ new = {} =>
             v1'[t].turn = 0
    BY <1>0, <2>1, <2>2
  <2> QED BY <2>3 DEF Mirror!TurnHeard, Mirror!Hearing, Mirror!Busy, Mirror!None,
                      Mirror!Words, k, new
<1> QED BY <1>1, <1>2

LEMMA TurnSitsStill ==
    ASSUME NEW s \in MirrorScopes, NEW t \in s.tasks,
           Mirror(s)!TurnSits(t), TurnKept(s, t),
           v3'[t].exists = v3[t].exists, v3'[t].turn_id = v3[t].turn_id,
           v3'[t].state = v3[t].state
    PROVE  Mirror(s)!TurnSits(t)'
<1>1. /\ Mirror(s)!Spoken(t) => Mirror(s)!Spoken(t)'
      /\ v1'[t].turn = v1[t].turn \/ Mirror(s)!Spoken(t)'
  BY DEF TurnKept
<1>2. v3[t].exists /\ ~Mirror(s)!Spoken(t) =>
        /\ v3[t].turn_id = v1[t].turn
        /\ v3[t].state = "running" <=> v1[t].turn # 0
  BY DEF Mirror!TurnSits, Mirror!None
<1>3. v3'[t].exists /\ ~Mirror(s)!Spoken(t)' =>
        /\ v3'[t].turn_id = v1'[t].turn
        /\ v3'[t].state = "running" <=> v1'[t].turn # 0
  BY <1>1, <1>2
<1> QED BY <1>3 DEF Mirror!TurnSits, Mirror!None

LEMMA TitleOfTask ==
    ASSUME NEW s \in MirrorScopes, NEW t \in s.tasks, Mirror(s)!TitleSits(t),
           Attends(s, t, {"named"}), Grows(s, t),
           v3'[t].exists = v3[t].exists, v3'[t].title = v3[t].title
    PROVE  Mirror(s)!TitleSits(t)'
<1> DEFINE N == {"named"}  h == v5[s.consumer]  k == v5'[s.consumer]
           old == Mirror(s)!Among(v2, t, N)  new == Mirror(s)!Among(v2', t, N)
<1>1. (old # {} => new # {}) /\ (v1'[t].title = v1[t].title \/ new # {})
  BY DEF Grows
<1>2. TitleKept(s, t)
  BY MirrorSpoken
<1>3. k.at # "none" /\ k.task = t /\ k.job = "named" /\ new = {} => k.arg = v1'[t].title
  <2>1. h.at # "none" /\ h.task = t /\ h.job = "named" /\ old = {} => h.arg = v1[t].title
    BY DEF Mirror!TitleSits, Mirror!Hearing, Mirror!Busy
  <2>2. k.at # "none" /\ k.task = t =>
          h.at # "none" /\ k.task = h.task /\ k.job = h.job /\ k.arg = h.arg
    BY DEF Attends
  <2> HIDE DEF h, k, old, new
  <2> QED BY <1>1, <2>1, <2>2
<1>4. v3'[t].exists /\ ~Mirror(s)!Titled(t)' => v3'[t].title = v1'[t].title
  BY <1>2 DEF Mirror!TitleSits, TitleKept
<1> QED BY <1>3, <1>4 DEF Mirror!TitleSits, Mirror!Hearing, Mirror!Busy

\* What the others are doing is what they were doing.
LEMMA OtherHas ==
    ASSUME NEW s \in MirrorScopes, Mirror(s)!Shape, NEW p, Moved(s, p),
           NEW q \in Mirror(s)!Threads, q # p
    PROVE  /\ v5'[q].at = v5[q].at
           /\ v5[q].at # "none" =>
                /\ v5'[q].job = v5[q].job /\ v5'[q].task = v5[q].task
                /\ v5'[q].copy = v5[q].copy /\ v5'[q].arg = v5[q].arg
                /\ v5'[q].fresh => v5[q].fresh
                /\ v5'[q].recent => v5[q].recent
<1>1. CASE v5'[q] = v5[q]
  BY <1>1
<1>2. CASE v5[q].at # "none" /\ v5'[q] = Stale(v5[q])
  <2>1. v5[q] \in Mirror(s)!Handlers
    BY <1>2, MirrorThreads, FitsHas
  <2> DEFINE old == Stale(v5[q])
  <2>2. /\ old.at = v5[q].at /\ old.job = v5[q].job /\ old.task = v5[q].task
        /\ old.copy = v5[q].copy /\ old.arg = v5[q].arg
        /\ old.fresh = FALSE /\ old.recent = FALSE
    BY <2>1, StaleHas
  <2>3. v5'[q] = old
    BY <1>2
  <2> HIDE DEF old
  <2> QED BY <2>2, <2>3
<1> QED BY <1>1, <1>2 DEF Moved

LEMMA AttendsOther ==
    ASSUME NEW s \in MirrorScopes, Mirror(s)!Shape, NEW p, p # s.consumer, Moved(s, p),
           NEW t, NEW kinds
    PROVE  Attends(s, t, kinds)
<1>1. s.consumer \in Mirror(s)!Threads
  BY DEF Mirror!Threads
<1> QED BY <1>1, OtherHas DEF Attends, Moved

\* What a step has to see to.
LEMMA MirrorKeeps ==
    ASSUME NEW s \in MirrorScopes, Mirror(s)!Shape, Mirror(s)!TurnInv, Mirror(s)!TitleInv,
           NEW p \in Mirror(s)!Threads, Moved(s, p), v8 \subseteq v8',
           \A t \in s.tasks : v3[t].exists => v3'[t].exists,
           \A q \in Mirror(s)!Threads \ {p} : v5'[q] = v5[q] /\ v5[q] # Stale(v5[q]) /\ v5[q].at # "none" =>
              /\ v3'[v5[q].task] = v3[v5[q].task]
              /\ TurnKept(s, v5[q].task) /\ TitleKept(s, v5[q].task),
           \A t \in s.tasks : Mirror(s)!Known(t)',
           Mirror(s)!TurnFits(p)', Mirror(s)!TitleFits(p)',
           \A t \in s.tasks \ v7' : Mirror(s)!TurnHeard(t)' /\ Mirror(s)!TurnSits(t)',
           \A t \in s.tasks \ v8' : Mirror(s)!TitleSits(t)'
    PROVE  Mirror(s)!TurnInv' /\ Mirror(s)!TitleInv'
<1>1. ASSUME NEW q \in Mirror(s)!Threads
      PROVE  Mirror(s)!TurnFits(q)' /\ Mirror(s)!TitleFits(q)'
  <2>1. CASE q = p
    BY <2>1
  <2>2. CASE q # p
    <3>1. Mirror(s)!TurnFits(q) /\ Mirror(s)!TitleFits(q)
      BY DEF Mirror!TurnInv, Mirror!TitleInv
    <3> DEFINE t == v5[q].task
    <3>2. v5'[q] = v5[q] \/ (v5[q].at # "none" /\ v5'[q] = Stale(v5[q]))
      BY <2>2 DEF Moved
    <3>3. v5[q].at # "none" => t \in s.tasks
      BY MirrorThreads, FitsHas
    <3>4. v5'[q] = v5[q] /\ v5[q] # Stale(v5[q]) /\ v5[q].at # "none" =>
             v3'[t] = v3[t] /\ TurnKept(s, t) /\ TitleKept(s, t)
      BY <2>2
    <3>5. v5[q].at # "none" => (v3[t].exists => v3'[t].exists)
      BY <3>3
    <3> QED BY <3>1, <3>2, <3>4, <3>5, TurnOfOther, TitleOfOther
  <2> QED BY <2>1, <2>2
<1>2. Mirror(s)!TurnInv'
  BY <1>1 DEF Mirror!TurnInv, Mirror!Threads
<1>3. Mirror(s)!TitleInv'
  BY <1>1 DEF Mirror!TitleInv, Mirror!Threads
<1> QED BY <1>2, <1>3

\* A step that writes nothing but a channel.
LEMMA MirrorStill ==
    ASSUME NEW s \in MirrorScopes, Mirror(s)!Shape, Mirror(s)!TurnInv, Mirror(s)!TitleInv,
           NEW p \in Mirror(s)!Threads, Moved(s, p), v7 \subseteq v7', v8 \subseteq v8',
           \A t \in s.tasks : Mirror(s)!Known(t)' /\ Grows(s, t) /\
              Attends(s, t, Mirror(s)!Words) /\ Attends(s, t, {"named"}),
           \A t \in s.tasks :
              /\ v3'[t].exists = v3[t].exists /\ v3'[t].turn_id = v3[t].turn_id
              /\ v3'[t].state = v3[t].state /\ v3'[t].title = v3[t].title,
           \A q \in Mirror(s)!Threads \ {p} : v5'[q] = v5[q] /\ v5[q] # Stale(v5[q]) /\ v5[q].at # "none" =>
              v3'[v5[q].task] = v3[v5[q].task],
           Mirror(s)!TurnFits(p)', Mirror(s)!TitleFits(p)'
    PROVE  Mirror(s)!TurnInv' /\ Mirror(s)!TitleInv'
<1>1. \A t \in s.tasks : TurnKept(s, t) /\ TitleKept(s, t)
  BY MirrorSpoken
<1>2. \A q \in Mirror(s)!Threads : v5[q].at # "none" => v5[q].task \in s.tasks
  BY MirrorThreads, FitsHas
<1>3. ASSUME NEW t \in s.tasks \ v7' PROVE Mirror(s)!TurnHeard(t)' /\ Mirror(s)!TurnSits(t)'
  <2>1. Mirror(s)!TurnHeard(t) /\ Mirror(s)!TurnSits(t)
    BY DEF Mirror!TurnInv
  <2> QED BY <1>1, <2>1, TurnHeardStill, TurnSitsStill
<1>4. ASSUME NEW t \in s.tasks \ v8' PROVE Mirror(s)!TitleSits(t)'
  <2>1. Mirror(s)!TitleSits(t)
    BY DEF Mirror!TitleInv
  <2> QED BY <2>1, TitleOfTask
<1>5. \A q \in Mirror(s)!Threads \ {p} : v5'[q] = v5[q] /\ v5[q] # Stale(v5[q]) /\ v5[q].at # "none" =>
              /\ v3'[v5[q].task] = v3[v5[q].task]
              /\ TurnKept(s, v5[q].task) /\ TitleKept(s, v5[q].task)
  BY <1>1, <1>2
<1> QED BY <1>3, <1>4, <1>5, MirrorKeeps

\* Codex and the notifications as they were.
LEMMA MirrorMute ==
    ASSUME NEW s \in MirrorScopes, Mirror(s)!TurnInv, v1' = v1, v2' = v2, NEW t \in s.tasks,
           v3[t].exists => v3'[t].exists,
           v3'[t].channel_id # 0 => v3'[t].exists
    PROVE  Mirror(s)!Known(t)' /\ Grows(s, t)
<1>1. Mirror(s)!Known(t)
  BY DEF Mirror!TurnInv
<1>2. Mirror(s)!Known(t)'
  BY <1>1 DEF Mirror!Known, Mirror!None, Mirror!Among, Mirror!EndsIn, Mirror!Kinds, Mirror!Words
<1> QED BY <1>2 DEF Grows

\* Who has created a channel, and who takes one apart.
LEMMA CreatingStays ==
    ASSUME NEW s \in MirrorScopes, Mirror(s)!Shape, NEW p, Moved(s, p),
           NEW q \in Mirror(s)!Threads, q # p
    PROVE  /\ Mirror(s)!Creating(q)' <=> Mirror(s)!Creating(q)
           /\ Mirror(s)!Creating(q) => /\ v5[q].at # "none" /\ v5'[q].arg = v5[q].arg
                                       /\ v5'[q].task = v5[q].task
<1>1. "write" # "none"
  OBVIOUS
<1> QED BY <1>1, OtherHas DEF Mirror!Creating, Mirror!Here

LEMMA GoingStays ==
    ASSUME NEW s \in MirrorScopes, Mirror(s)!Shape, NEW p, Moved(s, p), NEW c,
           Mirror(s)!Going(c), v5[p].at = "detach" => v5[p].arg # c
    PROVE  Mirror(s)!Going(c)'
<1>1. PICK q \in Mirror(s)!Threads : v5[q].at = "detach" /\ v5[q].arg = c
  BY DEF Mirror!Going, Mirror!Here
<1>2. q # p
  BY <1>1
<1>3. v5'[q].at = "detach" /\ v5'[q].arg = c
  BY <1>1, <1>2, OtherHas
<1> QED BY <1>3 DEF Mirror!Going, Mirror!Here, Mirror!Threads

\* What a step has to see to for the channels.
LEMMA ChannelKeeps ==
    ASSUME NEW s \in MirrorScopes, Mirror(s)!Shape, Mirror(s)!ChannelInv,
           NEW p \in Mirror(s)!Threads, Moved(s, p), v8 \subseteq v8',
           DOMAIN v4 \subseteq DOMAIN v4',
           \A c \in DOMAIN v4 : v4'[c].task = v4[c].task /\ (v4'[c].alive => v4[c].alive),
           \A t \in s.tasks : Mirror(s)!OfTask(v3[t].channel_id, t)',
           Mirror(s)!ChannelFits(p)',
           \A q \in Mirror(s)!Threads \ {p} : v5'[q] = v5[q] /\ v5[q] # Stale(v5[q]) /\ v5[q].at # "none" =>
              v3'[v5[q].task].channel_id \in {v3[v5[q].task].channel_id, 0},
           \A q \in Mirror(s)!Threads \ {p} : Mirror(s)!Creating(q) =>
              /\ \A u \in s.tasks : v3'[u].channel_id # v5[q].arg
              /\ v5'[p].at # "none" =>
                   /\ v5'[p].copy.channel_id # v5[q].arg
                   /\ Mirror(s)!Creating(p)' => v5'[p].arg # v5[q].arg
              /\ v5[q].task \notin v8' => Mirror(s)!Alive(v5[q].arg)' \/ Mirror(s)!Going(v5[q].arg)',
           \A t \in s.tasks \ v8' : Mirror(s)!ChannelSits(t)'
    PROVE  Mirror(s)!ChannelInv'
<1>1. ASSUME NEW q \in Mirror(s)!Threads, q # p PROVE Mirror(s)!ChannelFits(q)'
  <2>1. CASE v5[q].at = "none"
    <3>1. v5'[q].at = "none"
      BY <1>1, <2>1, OtherHas
    <3> QED BY <3>1 DEF Mirror!ChannelFits, Mirror!Busy
  <2>2. CASE v5[q].at # "none"
    <3>1. /\ v5'[q].at = v5[q].at
          /\ v5'[q].job = v5[q].job /\ v5'[q].task = v5[q].task
          /\ v5'[q].copy = v5[q].copy /\ v5'[q].arg = v5[q].arg
          /\ v5'[q].fresh => v5[q].fresh
      BY <1>1, <2>2, OtherHas
    <3>2. /\ v5[q].copy.channel_id \in {0} \cup DOMAIN v4 /\ v5[q] \in Mirror(s)!Handlers
          /\ v5[q].at = "detach" \/ Mirror(s)!Creating(q) => v5[q].arg \in DOMAIN v4
      BY <2>2, MirrorThreads DEF Mirror!Fits, Mirror!None, Mirror!Creating, Mirror!Here
    <3>3. Mirror(s)!ChannelFits(q)
      BY DEF Mirror!ChannelInv
    <3>4. Mirror(s)!OfTask(v5[q].copy.channel_id, v5[q].task)'
      <4>1. Mirror(s)!OfTask(v5[q].copy.channel_id, v5[q].task)
        BY <2>2, <3>3 DEF Mirror!ChannelFits, Mirror!Busy
      <4> QED BY <3>1, <3>2, <4>1 DEF Mirror!OfTask, Mirror!None
    <3>5. v5'[q].job = "open" /\ v5'[q].at \in {"prune", "delete", "detach", "create", "write"}
            /\ v5'[q].fresh /\ v5'[q].task \notin v8' => v3'[v5'[q].task].channel_id = 0
      <4>1. CASE v5'[q] = v5[q] /\ v5[q] # Stale(v5[q])
        <5>1. v5[q].job = "open" /\ v5[q].at \in {"prune", "delete", "detach", "create", "write"}
                /\ v5[q].fresh /\ v5[q].task \notin v8 => v3[v5[q].task].channel_id = 0
          BY <2>2, <3>3 DEF Mirror!ChannelFits, Mirror!Busy, Mirror!None
        <5>2. v3'[v5[q].task].channel_id \in {v3[v5[q].task].channel_id, 0}
          BY <1>1, <2>2, <4>1
        <5> QED BY <4>1, <5>1, <5>2
      <4>2. CASE v5'[q] = Stale(v5[q])
        <5> DEFINE old == Stale(v5[q])
        <5>1. old.fresh = FALSE
          BY <3>2, StaleHas
        <5>2. v5'[q] = old
          BY <4>2
        <5> HIDE DEF old
        <5> QED BY <5>1, <5>2
      <4> QED BY <1>1, <4>1, <4>2 DEF Moved
    <3>6. v5'[q].at = "detach" => ~Mirror(s)!Alive(v5[q].arg)'
      <4>1. v5[q].at = "detach" => ~Mirror(s)!Alive(v5[q].arg)
        BY <2>2, <3>3 DEF Mirror!ChannelFits, Mirror!Busy, Mirror!Here
      <4> QED BY <3>1, <3>2, <4>1 DEF Mirror!Alive
    <3>7. ASSUME Mirror(s)!Creating(q)'
          PROVE  /\ Mirror(s)!OfTask(v5[q].arg, v5[q].task)' /\ v5'[q].arg # 0
                 /\ \A u \in s.tasks : v3'[u].channel_id # v5'[q].arg
                 /\ \A r \in Mirror(s)!Threads : v5'[r].at # "none" =>
                      /\ v5'[r].copy.channel_id # v5'[q].arg
                      /\ r # q /\ Mirror(s)!Creating(r)' => v5'[r].arg # v5'[q].arg
                 /\ v5'[q].task \notin v8' => Mirror(s)!Alive(v5[q].arg)' \/ Mirror(s)!Going(v5[q].arg)'
      <4>1. Mirror(s)!Creating(q)
        BY <1>1, <3>7, CreatingStays
      <4>2. /\ Mirror(s)!OfTask(v5[q].arg, v5[q].task) /\ v5[q].arg # 0
            /\ \A r \in Mirror(s)!Threads : v5[r].at # "none" =>
                 /\ v5[r].copy.channel_id # v5[q].arg
                 /\ r # q /\ Mirror(s)!Creating(r) => v5[r].arg # v5[q].arg
        BY <2>2, <3>3, <4>1 DEF Mirror!ChannelFits, Mirror!Busy, Mirror!None
      <4>3. Mirror(s)!OfTask(v5[q].arg, v5[q].task)'
        BY <3>1, <3>2, <4>1, <4>2 DEF Mirror!OfTask, Mirror!None
      <4>4. ASSUME NEW r \in Mirror(s)!Threads, v5'[r].at # "none"
            PROVE  /\ v5'[r].copy.channel_id # v5'[q].arg
                   /\ r # q /\ Mirror(s)!Creating(r)' => v5'[r].arg # v5'[q].arg
        <5>1. CASE r = p
          BY <1>1, <3>1, <4>1, <4>4, <5>1
        <5>2. CASE r # p
          <6>1. v5[r].at # "none" /\ v5'[r].copy = v5[r].copy
            BY <4>4, <5>2, OtherHas
          <6>2. Mirror(s)!Creating(r)' => Mirror(s)!Creating(r) /\ v5'[r].arg = v5[r].arg
            BY <5>2, CreatingStays
          <6> QED BY <3>1, <4>2, <6>1, <6>2
        <5> QED BY <5>1, <5>2
      <4>5. /\ \A u \in s.tasks : v3'[u].channel_id # v5'[q].arg
            /\ v5'[q].task \notin v8' => Mirror(s)!Alive(v5[q].arg)' \/ Mirror(s)!Going(v5[q].arg)'
        BY <1>1, <3>1, <4>1
      <4> QED BY <3>1, <4>2, <4>3, <4>4, <4>5
    <3> QED BY <3>1, <3>4, <3>5, <3>6, <3>7 DEF Mirror!ChannelFits, Mirror!Busy, Mirror!None,
               Mirror!Here, Mirror!Threads
  <2> QED BY <2>1, <2>2
<1>2. \A q \in Mirror(s)!Threads : Mirror(s)!ChannelFits(q)'
  BY <1>1
<1> QED BY <1>2 DEF Mirror!ChannelInv, Mirror!Threads

\* A step that leaves the rows and channels alone.
LEMMA ChannelStill ==
    ASSUME NEW s \in MirrorScopes, Mirror(s)!Shape, Mirror(s)!ChannelInv,
           NEW p \in Mirror(s)!Threads, Moved(s, p), v8 \subseteq v8', v3' = v3,
           DOMAIN v4' = DOMAIN v4,
           \A c \in DOMAIN v4 : v4'[c].task = v4[c].task /\ v4'[c].alive = v4[c].alive,
           ~Mirror(s)!Creating(p), ~Mirror(s)!Creating(p)',
           v5[p].at # "detach", v5'[p].at # "detach",
           v5'[p].at # "none" =>
             /\ v5'[p].task \in s.tasks
             /\ \/ v5'[p].copy.channel_id \in {0, v3[v5'[p].task].channel_id}
                \/ /\ v5[p].at # "none" /\ v5'[p].task = v5[p].task
                   /\ v5'[p].copy.channel_id = v5[p].copy.channel_id
             /\ v5'[p].job = "open" /\ v5'[p].at \in {"prune", "delete", "create", "write"}
                  /\ v5'[p].fresh /\ v5'[p].task \notin v8' => v3[v5'[p].task].channel_id = 0
    PROVE  Mirror(s)!ChannelInv'
<1>1. \A t \in s.tasks : v3[t].channel_id \in {0} \cup DOMAIN v4
  BY DEF Mirror!Shape, Mirror!None
<1>2. \A c, t : c \in {0} \cup DOMAIN v4 =>
         (Mirror(s)!OfTask(c, t) => (c # 0 => v4'[c].task = t))
  BY DEF Mirror!OfTask, Mirror!None
<1>3. \A t \in s.tasks : Mirror(s)!OfTask(v3[t].channel_id, t) /\ Mirror(s)!OfTask(v3[t].channel_id, t)'
  <2> TAKE t \in s.tasks
  <2>1. Mirror(s)!OfTask(v3[t].channel_id, t)
    BY DEF Mirror!ChannelInv
  <2> QED BY <1>1, <1>2, <2>1 DEF Mirror!OfTask, Mirror!None
<1>4. Mirror(s)!ChannelFits(p)'
  <2>1. CASE v5'[p].at = "none"
    BY <2>1 DEF Mirror!ChannelFits, Mirror!Busy
  <2>2. CASE v5'[p].at # "none"
    <3> DEFINE c == v5'[p].copy.channel_id  t == v5'[p].task
    <3>0. t \in s.tasks
      BY <2>2
    <3>1. c # 0 => v4'[c].task = t
      <4>1. CASE c \in {0, v3[t].channel_id}
        <5>1. v3[t].channel_id # 0 => v4[v3[t].channel_id].task = t
          BY <1>3, <3>0 DEF Mirror!OfTask, Mirror!None
        <5>2. v3[t].channel_id \in {0} \cup DOMAIN v4
          BY <1>1, <3>0
        <5> HIDE DEF c, t
        <5> QED BY <4>1, <5>1, <5>2
      <4>2. CASE v5[p].at # "none" /\ t = v5[p].task /\ c = v5[p].copy.channel_id
        <5>1. v5[p].copy.channel_id # 0 => v4[v5[p].copy.channel_id].task = v5[p].task
          BY <4>2 DEF Mirror!ChannelInv, Mirror!ChannelFits, Mirror!Busy, Mirror!OfTask, Mirror!None
        <5>2. v5[p].copy.channel_id \in {0} \cup DOMAIN v4
          BY <4>2, MirrorThreads, FitsHas
        <5> HIDE DEF c, t
        <5> QED BY <4>2, <5>1, <5>2
      <4> QED BY <2>2, <4>1, <4>2
    <3>2. Mirror(s)!OfTask(v5[p].copy.channel_id, v5[p].task)'
      BY <3>1 DEF Mirror!OfTask, Mirror!None
    <3> QED BY <2>2, <3>2 DEF Mirror!ChannelFits, Mirror!Busy, Mirror!Here, Mirror!None
  <2> QED BY <2>1, <2>2
<1>5. ASSUME NEW q \in Mirror(s)!Threads, q # p, Mirror(s)!Creating(q)
      PROVE  /\ \A u \in s.tasks : v3'[u].channel_id # v5[q].arg
             /\ v5'[p].at # "none" =>
                  /\ v5'[p].copy.channel_id # v5[q].arg
                  /\ Mirror(s)!Creating(p)' => v5'[p].arg # v5[q].arg
             /\ v5[q].task \notin v8' => Mirror(s)!Alive(v5[q].arg)' \/ Mirror(s)!Going(v5[q].arg)'
  <2>1. v5[q].at # "none" /\ v5[q].arg \in DOMAIN v4
    <3>1. v5[q].at # "none"
      BY <1>5, CreatingStays
    <3> QED BY <1>5, <3>1, MirrorThreads DEF Mirror!Fits, Mirror!Creating, Mirror!Here
  <2>2. /\ v5[q].arg # 0 /\ \A u \in s.tasks : v3[u].channel_id # v5[q].arg
        /\ v5[p].at # "none" => v5[p].copy.channel_id # v5[q].arg
        /\ v5[q].task \notin v8 => Mirror(s)!Alive(v5[q].arg) \/ Mirror(s)!Going(v5[q].arg)
    BY <1>5, <2>1 DEF Mirror!ChannelInv, Mirror!ChannelFits, Mirror!Busy, Mirror!None
  <2>3. v5'[p].at # "none" => v5'[p].copy.channel_id # v5[q].arg
    BY <2>2
  <2>4. PICK c : c = v5[q].arg
    OBVIOUS
  <2>5. v5'[q].arg = c
    BY <1>5, <2>4, CreatingStays
  <2>6. Mirror(s)!Alive(c) => Mirror(s)!Alive(c)'
    BY <2>1, <2>4 DEF Mirror!Alive
  <2>7. Mirror(s)!Going(c) => Mirror(s)!Going(c)'
    BY GoingStays
  <2>8. v5[q].task \notin v8' => Mirror(s)!Alive(c)' \/ Mirror(s)!Going(c)'
    BY <2>2, <2>4, <2>6, <2>7
  <2>9. v5[q].task \notin v8' => Mirror(s)!Alive(v5[q].arg)' \/ Mirror(s)!Going(v5[q].arg)'
    BY <2>5, <2>8 DEF Mirror!Alive, Mirror!Going
  <2> QED BY <2>2, <2>3, <2>9
<1>6. ASSUME NEW t \in s.tasks \ v8' PROVE Mirror(s)!ChannelSits(t)'
  <2>1. Mirror(s)!ChannelSits(t)
    BY DEF Mirror!ChannelInv
  <2>2. ASSUME NEW c \in DOMAIN v4, v4'[c].task = t, v4'[c].alive
        PROVE  c = v3'[t].channel_id \/ \E q \in Mirror(s)!Threads : Mirror(s)!Creating(q)' /\ v5'[q].arg = c
    <3>1. CASE c = v3[t].channel_id
      BY <3>1
    <3>2. CASE c # v3[t].channel_id
      <4>1. PICK q \in Mirror(s)!Threads : Mirror(s)!Creating(q) /\ v5[q].arg = c
        BY <2>1, <2>2, <3>2 DEF Mirror!ChannelSits
      <4> QED BY <4>1, CreatingStays
    <3> QED BY <3>1, <3>2
  <2>3. v3'[t].channel_id # 0 => Mirror(s)!Alive(v3[t].channel_id)' \/ Mirror(s)!Going(v3[t].channel_id)'
    <3>1. v3[t].channel_id # 0 => Mirror(s)!Alive(v3[t].channel_id) \/ Mirror(s)!Going(v3[t].channel_id)
      BY <2>1 DEF Mirror!ChannelSits, Mirror!None
    <3> QED BY <3>1, GoingStays DEF Mirror!Alive
  <2> QED BY <2>2, <2>3 DEF Mirror!ChannelSits, Mirror!None, Mirror!Threads
<1> QED BY <1>3, <1>4, <1>5, <1>6, ChannelKeeps

\* What no notification starts.
LEMMA NotHeard ==
    ASSUME NEW s \in MirrorScopes,
           NEW job \in {"dispatch", "rename", "archive", "touch", "open", "reconcile", "resume",
                       "follow"}
    PROVE  job \notin Mirror(s)!Kinds
BY DEF Mirror!Kinds, Mirror!Words

\* What a handler may hold after a step, with the rows as they are.
MayHold(s, p, k) ==
    LET t == k.task
    IN  /\ Mirror(s)!Fits(k, DOMAIN v4) /\ (k.job \in Mirror(s)!Kinds <=> p = s.consumer)
        /\ k.at # "detach" /\ ~(k.job = "open" /\ k.at = "write")
        /\ k.job # "open" => v3[t].exists /\ k.copy.exists
        /\ k.fresh /\ (k.job # "open" \/ k.at = "forget") => k.copy = v3[t]
        /\ k.at = "write" /\ k.job \in {"dispatch", "resume", "reconcile"} /\ k.recent =>
              Mirror(s)!Spoken(t)' \/ k.arg = v1'[t].turn
        /\ k.at = "write" /\ k.job = "archive" /\ k.fresh => Mirror(s)!Spoken(t)'
        /\ k.fresh /\ t \notin v8 =>
             /\ k.job = "rename" /\ k.at # "call" => Mirror(s)!Titled(t)'
             /\ k.job = "open" /\ k.at \in {"delete", "create"} =>
                  Mirror(s)!Titled(t)' \/ k.copy.title = v1'[t].title
             /\ k.job = "open" /\ k.at \in {"prune", "delete", "create"} => v3[t].channel_id = 0
        /\ \/ k.copy.channel_id \in {0, v3[t].channel_id}
           \/ v5[p].at # "none" /\ t = v5[p].task /\ k.copy.channel_id = v5[p].copy.channel_id

LEMMA MirrorGoesOn ==
    ASSUME NEW s \in MirrorScopes, Mirror(s)!IInv, NEW p \in Mirror(s)!Threads, NEW k,
           Moved(s, p), v5'[p] = Mirror(s)!Rested(k), k.at = "none" \/ MayHold(s, p, k),
           v5[p].at # "detach", ~Mirror(s)!Creating(p),
           v1' \in [s.tasks -> [turn : 0..s.turns, title : Nat, archived : BOOLEAN]],
           v2' \in Seq(Notice(s)), v3' = v3,
           v4' \in Seq([task : s.tasks, category : {"running", "done"}, alive : BOOLEAN]),
           DOMAIN v4' = DOMAIN v4, Len(v4') <= s.created,
           \A c \in DOMAIN v4 : v4'[c].task = v4[c].task /\ v4'[c].alive = v4[c].alive,
           v6' \in [turns : 0..s.turns, calls : Nat, faults : Nat],
           v7 \subseteq v7', v8 \subseteq v8', v7' \subseteq s.tasks, v8' \subseteq s.tasks,
           \A t \in s.tasks : Mirror(s)!Known(t)' /\ Grows(s, t) /\
              Attends(s, t, Mirror(s)!Words) /\ Attends(s, t, {"named"})
    PROVE  Mirror(s)!IInv'
<1>1. Mirror(s)!Shape /\ Mirror(s)!TurnInv /\ Mirror(s)!TitleInv /\ Mirror(s)!ChannelInv
  BY DEF Mirror!IInv
<1> DEFINE h == v5'[p]
<1>2. /\ k.at = "none" => h.at = "none" /\ h = Mirror(s)!Idle
      /\ k.at # "none" => h = k
  BY DEF Mirror!Rested, Mirror!Idle
<1>3. CASE h.at = "none"
  <2>1. Mirror(s)!TurnFits(p)' /\ Mirror(s)!TitleFits(p)' /\ ~Mirror(s)!Creating(p)'
    BY <1>3 DEF Mirror!TurnFits, Mirror!TitleFits, Mirror!Creating, Mirror!Busy, Mirror!Here
  <2>2. Mirror(s)!TurnInv' /\ Mirror(s)!TitleInv'
    BY <1>1, <2>1, MirrorStill
  <2>3. Mirror(s)!ChannelInv'
    BY <1>1, <1>3, <2>1, ChannelStill
  <2>4. h = Mirror(s)!Idle
    <3>1. k.at = "none"
      <4>1. MayHold(s, p, k) => k.at # "none"
        BY FitsHas DEF MayHold
      <4> QED BY <1>2, <1>3, <4>1
    <3> QED BY <1>2, <3>1
  <2>5. \A t \in s.tasks : v3'[t].channel_id \in {0} \cup DOMAIN v4'
    BY <1>1 DEF Mirror!Shape, Mirror!None
  <2>6. v3' \in [s.tasks -> Mirror(s)!Row]
    BY <1>1 DEF Mirror!Shape
  <2>7. Mirror(s)!Shape'
    BY <1>1, <1>3, <2>4, <2>5, <2>6, MirrorShape
  <2> QED BY <2>2, <2>3, <2>7 DEF Mirror!IInv
<1>4. CASE h.at # "none"
  <2>1. h = k /\ MayHold(s, p, k)
    BY <1>2, <1>4
  <2>a. v5'[p] = k
    BY <2>1
  <2>b. /\ Mirror(s)!Spoken(k.task)' <=> Mirror(s)!Spoken(v5[p].task)'
        /\ Mirror(s)!Titled(k.task)' <=> Mirror(s)!Titled(v5[p].task)'
    BY <2>a DEF Mirror!Spoken, Mirror!Titled, Mirror!Among, Mirror!Hearing, Mirror!Busy,
                Mirror!Words
  <2>2. Mirror(s)!TurnFits(p)'
    <3>1. /\ k.job # "open" => v3[k.task].exists /\ k.copy.exists
          /\ k.fresh /\ (k.job # "open" \/ k.at = "forget") => k.copy = v3[k.task]
          /\ k.at = "write" /\ k.job \in {"dispatch", "resume", "reconcile"} /\ k.recent =>
                Mirror(s)!Spoken(v5[p].task)' \/ k.arg = v1'[k.task].turn
          /\ k.at = "write" /\ k.job = "archive" /\ k.fresh => Mirror(s)!Spoken(v5[p].task)'
      BY <2>1, <2>b DEF MayHold
    <3> QED BY <2>a, <3>1 DEF Mirror!TurnFits
  <2>3. Mirror(s)!TitleFits(p)'
    <3>1. k.fresh /\ k.task \notin v8' =>
             /\ k.job = "rename" /\ k.at # "call" => Mirror(s)!Titled(v5[p].task)'
             /\ k.job = "open" /\ k.at \in {"delete", "detach", "create", "write"} =>
                  Mirror(s)!Titled(v5[p].task)' \/ k.copy.title = v1'[k.task].title
      BY <2>1, <2>b DEF MayHold
    <3> QED BY <2>a, <3>1 DEF Mirror!TitleFits
  <2>4. ~Mirror(s)!Creating(p)' /\ h.at # "detach" /\ h.task \in s.tasks
    BY <2>1, FitsHas DEF MayHold, Mirror!Creating, Mirror!Here
  <2>5. Mirror(s)!TurnInv' /\ Mirror(s)!TitleInv'
    BY <1>1, <2>2, <2>3, MirrorStill
  <2>6. Mirror(s)!ChannelInv'
    <3>1. /\ \/ h.copy.channel_id \in {0, v3[h.task].channel_id}
             \/ v5[p].at # "none" /\ h.task = v5[p].task /\ h.copy.channel_id = v5[p].copy.channel_id
          /\ h.job = "open" /\ h.at \in {"prune", "delete", "create", "write"}
                  /\ h.fresh /\ h.task \notin v8' => v3[h.task].channel_id = 0
      BY <2>1 DEF MayHold
    <3> HIDE DEF h
    <3>2. /\ \/ v5'[p].copy.channel_id \in {0, v3[v5'[p].task].channel_id}
             \/ v5[p].at # "none" /\ v5'[p].task = v5[p].task /\ v5'[p].copy.channel_id = v5[p].copy.channel_id
          /\ v5'[p].job = "open" /\ v5'[p].at \in {"prune", "delete", "create", "write"}
                  /\ v5'[p].fresh /\ v5'[p].task \notin v8' => v3[v5'[p].task].channel_id = 0
          /\ v5'[p].at # "detach" /\ v5'[p].task \in s.tasks
      BY <2>4, <3>1 DEF h
    <3> QED BY <1>1, <2>4, <3>2, ChannelStill
  <2>7. Mirror(s)!Fits(h, DOMAIN v4') /\ (h.job \in Mirror(s)!Kinds <=> p = s.consumer)
    BY <2>1 DEF MayHold
  <2>8. \A t \in s.tasks : v3'[t].channel_id \in {0} \cup DOMAIN v4'
    BY <1>1 DEF Mirror!Shape, Mirror!None
  <2>9. v3' \in [s.tasks -> Mirror(s)!Row]
    BY <1>1 DEF Mirror!Shape
  <2>10. Mirror(s)!Shape'
    BY <1>1, <2>7, <2>8, <2>9, MirrorShape
  <2> QED BY <2>5, <2>6, <2>10 DEF Mirror!IInv
<1> QED BY <1>3, <1>4

\* What is known of a handler.
LEMMA HandlerHas ==
    ASSUME NEW s \in MirrorScopes, Mirror(s)!IInv, NEW p \in Mirror(s)!Threads,
           NEW h, h = v5[p], h.at # "none"
    PROVE  /\ Mirror(s)!Fits(h, DOMAIN v4) /\ h \in Mirror(s)!Handlers
           /\ h.job \in Mirror(s)!Jobs /\ h.at \in Mirror(s)!Places(h.job)
           /\ h.task \in s.tasks /\ h.copy \in Mirror(s)!Row /\ h.doomed \subseteq DOMAIN v4
           /\ h.copy.channel_id \in {0} \cup DOMAIN v4
           /\ (h.job \in Mirror(s)!Kinds <=> p = s.consumer)
           /\ h.job # "open" => v3[h.task].exists /\ h.copy.exists
           /\ h.fresh /\ (h.job # "open" \/ h.at = "forget") => h.copy = v3[h.task]
           /\ h.at = "write" /\ h.job \in {"dispatch", "resume", "reconcile"} /\ h.recent =>
                Mirror(s)!Spoken(h.task) \/ h.arg = v1[h.task].turn
           /\ h.at = "write" /\ h.job = "archive" /\ h.fresh => Mirror(s)!Spoken(h.task)
           /\ h.fresh /\ h.task \notin v8 =>
             /\ h.job = "rename" /\ h.at # "call" => Mirror(s)!Titled(h.task)
             /\ h.job = "open" /\ h.at \in {"delete", "detach", "create", "write"} =>
                  Mirror(s)!Titled(h.task) \/ h.copy.title = v1[h.task].title
             /\ h.job = "open" /\ h.at \in {"prune", "delete", "detach", "create", "write"} =>
                  v3[h.task].channel_id = 0
           /\ h.copy.channel_id # 0 => v4[h.copy.channel_id].task = h.task
           /\ h.at = "detach" => ~Mirror(s)!Alive(h.arg) /\ h.arg \in DOMAIN v4
<1>1. Mirror(s)!Fits(h, DOMAIN v4)
  BY MirrorThreads DEF Mirror!IInv
<1>2. /\ h \in Mirror(s)!Handlers /\ h.task \in s.tasks /\ h.copy \in Mirror(s)!Row
      /\ h.job \in Mirror(s)!Jobs /\ h.at \in Mirror(s)!Places(h.job)
      /\ h.doomed \subseteq DOMAIN v4 /\ h.copy.channel_id \in {0} \cup DOMAIN v4
  BY <1>1, FitsHas
<1>3. (h.job \in Mirror(s)!Kinds <=> p = s.consumer)
  BY MirrorThreads DEF Mirror!IInv
<1>4. Mirror(s)!TurnFits(p) /\ Mirror(s)!TitleFits(p) /\ Mirror(s)!ChannelFits(p)
  BY DEF Mirror!IInv, Mirror!TurnInv, Mirror!TitleInv, Mirror!ChannelInv
<1>5. /\ h.job # "open" => v3[h.task].exists /\ h.copy.exists
      /\ h.fresh /\ (h.job # "open" \/ h.at = "forget") => h.copy = v3[h.task]
      /\ h.at = "write" /\ h.job \in {"dispatch", "resume", "reconcile"} /\ h.recent =>
           Mirror(s)!Spoken(h.task) \/ h.arg = v1[h.task].turn
      /\ h.at = "write" /\ h.job = "archive" /\ h.fresh => Mirror(s)!Spoken(h.task)
  BY <1>4 DEF Mirror!TurnFits, Mirror!Busy
<1>6. h.fresh /\ h.task \notin v8 =>
        /\ h.job = "rename" /\ h.at # "call" => Mirror(s)!Titled(h.task)
        /\ h.job = "open" /\ h.at \in {"delete", "detach", "create", "write"} =>
             Mirror(s)!Titled(h.task) \/ h.copy.title = v1[h.task].title
  BY <1>4 DEF Mirror!TitleFits, Mirror!Busy
<1>7. /\ h.fresh /\ h.task \notin v8 /\ h.job = "open"
           /\ h.at \in {"prune", "delete", "detach", "create", "write"} => v3[h.task].channel_id = 0
      /\ h.copy.channel_id # 0 => v4[h.copy.channel_id].task = h.task
      /\ h.at = "detach" => ~Mirror(s)!Alive(h.arg)
  BY <1>4 DEF Mirror!ChannelFits, Mirror!Busy, Mirror!None, Mirror!Here, Mirror!OfTask
<1>8. h.at = "detach" => h.arg \in DOMAIN v4
  BY <1>1 DEF Mirror!Fits
<1> QED BY <1>1, <1>2, <1>3, <1>5, <1>6, <1>7, <1>8

\* A step of which only the handler is seen.
LEMMA MirrorPasses ==
    ASSUME NEW s \in MirrorScopes, Mirror(s)!IInv, NEW p \in Mirror(s)!Threads, NEW k,
           p # s.consumer, Moved(s, p), v5'[p] = Mirror(s)!Rested(k),
           k.at = "none" \/ MayHold(s, p, k),
           v5[p].at # "detach", ~Mirror(s)!Creating(p),
           UNCHANGED <<v1, v2, v3, v4, v7, v8>>,
           v6' \in [turns : 0..s.turns, calls : Nat, faults : Nat]
    PROVE  Mirror(s)!IInv'
<1>1. Mirror(s)!Shape /\ Mirror(s)!TurnInv
  BY DEF Mirror!IInv
<1>2. \A t \in s.tasks : v3[t].channel_id # 0 => v3[t].exists
  BY <1>1 DEF Mirror!TurnInv, Mirror!Known, Mirror!None
<1>3. UNCHANGED v1 /\ UNCHANGED v2 /\ UNCHANGED v3 /\ UNCHANGED v4 /\ UNCHANGED v7 /\ UNCHANGED v8
  OBVIOUS
<1>4. \A t \in s.tasks : Mirror(s)!Known(t)' /\ Grows(s, t)
  BY <1>1, <1>2, <1>3, MirrorMute
<1>5. \A t \in s.tasks : Attends(s, t, Mirror(s)!Words) /\ Attends(s, t, {"named"})
  BY <1>1, AttendsOther
<1>6. /\ v1' \in [s.tasks -> [turn : 0..s.turns, title : Nat, archived : BOOLEAN]]
      /\ v2' \in Seq(Notice(s))
      /\ v4' \in Seq([task : s.tasks, category : {"running", "done"}, alive : BOOLEAN])
      /\ Len(v4') <= s.created /\ v7' \subseteq s.tasks /\ v8' \subseteq s.tasks
  BY <1>1, <1>3 DEF Mirror!Shape, Notice
<1> QED BY <1>3, <1>4, <1>5, <1>6, MirrorGoesOn

\* Nothing is said, and nothing new to say, while another thread than the
\* consumer does something.
LEMMA KeptWhenMute ==
    ASSUME NEW s \in MirrorScopes, Mirror(s)!Shape, NEW p, p # s.consumer, Moved(s, p),
           UNCHANGED <<v1, v2>>, NEW t \in s.tasks
    PROVE  /\ Mirror(s)!Titled(t) => Mirror(s)!Titled(t)'
           /\ Mirror(s)!Spoken(t) => Mirror(s)!Spoken(t)'
<1>1. Grows(s, t)
  BY DEF Grows
<1>2. Attends(s, t, Mirror(s)!Words) /\ Attends(s, t, {"named"})
  BY AttendsOther
<1> QED BY <1>1, <1>2, MirrorSpoken DEF TurnKept, TitleKept

\* The steps that only the handler notices: it begins, or learns something.
LEMMA MirrorAsks ==
    ASSUME NEW s \in MirrorScopes, Mirror(s)!IInv, NEW p \in Mirror(s)!Threads, p # s.consumer,
           NEW job \in {"dispatch", "rename", "archive", "touch", "open", "reconcile"},
           NEW t \in s.tasks, NEW arg \in Nat, job # "rename" => arg = 0,
           job # "open" => v3[t].exists, Mirror(s)!Ask(p, job, t, arg)
    PROVE  Mirror(s)!IInv'
<1>1. /\ Mirror(s)!Shape /\ v3[t] \in Mirror(s)!Row /\ s.turns \in Nat
      /\ v3[t].channel_id \in {0} \cup DOMAIN v4
      /\ v6 \in [turns : 0..s.turns, calls : Nat, faults : Nat]
  BY MirrorAssumption DEF Mirror!IInv, Mirror!Shape, Mirror!None
<1>2. PICK k : k = Mirror(s)!Handler(job, t, arg)
  OBVIOUS
<1>3. /\ Mirror(s)!First(job) \in Mirror(s)!Places(job) /\ job \in Mirror(s)!Jobs
      /\ Mirror(s)!First(job) \in Mirror(s)!Steps
      /\ Mirror(s)!First(job) \in {"write", "call", "look"}
      /\ Mirror(s)!First(job) = "write" => job = "touch"
      /\ job \in {"rename", "open"} => Mirror(s)!First(job) = "call"
  BY DEF Mirror!First, Mirror!Places, Mirror!Jobs, Mirror!Steps, Mirror!Words
<1>4. /\ k \in Mirror(s)!Handlers /\ k.at = Mirror(s)!First(job) /\ k.job = job /\ k.task = t
      /\ k.copy = v3[t] /\ k.arg = arg /\ k.fresh = TRUE /\ k.recent = TRUE /\ k.doomed = {}
  BY <1>1, <1>2, <1>3 DEF Mirror!Handler, Mirror!Handlers
<1>5. /\ v5[p].at = "none" /\ Mirror(s)!Go(p, k) /\ v6' = [v6 EXCEPT !.calls = @ + 1]
      /\ UNCHANGED <<v1, v2, v3, v4, v7, v8>>
  BY <1>2 DEF Mirror!Ask, Mirror!Busy
<1>6. v6' \in [turns : 0..s.turns, calls : Nat, faults : Nat]
  BY <1>1, <1>5
<1>7. Moved(s, p) /\ v5'[p] = Mirror(s)!Rested(k)
  BY <1>1, <1>5, MirrorGo
<1>8. MayHold(s, p, k)
  <2>1. Mirror(s)!Fits(k, DOMAIN v4)
    BY <1>1, <1>3, <1>4 DEF Mirror!Fits, Mirror!None, Mirror!Words, Mirror!Asked
  <2>2. k.job \in Mirror(s)!Kinds <=> p = s.consumer
    BY <1>4, NotHeard
  <2> QED BY <1>3, <1>4, <2>1, <2>2 DEF MayHold
<1>9. ~Mirror(s)!Creating(p)
  BY <1>5 DEF Mirror!Creating, Mirror!Here
<1> QED BY <1>5, <1>6, <1>7, <1>8, <1>9, MirrorPasses

LEMMA MirrorFault ==
    ASSUME NEW s \in MirrorScopes, Mirror(s)!IInv, Mirror(s)!Fault \/ v6' = v6
    PROVE  v6' \in [turns : 0..s.turns, calls : Nat, faults : Nat]
<1>1. v6 \in [turns : 0..s.turns, calls : Nat, faults : Nat]
  BY DEF Mirror!IInv, Mirror!Shape
<1> QED BY <1>1 DEF Mirror!Fault

LEMMA MirrorLeaves ==
    ASSUME NEW s \in MirrorScopes, Mirror(s)!IInv, NEW p \in Mirror(s)!Threads, p # s.consumer,
           v5[p].at # "detach", ~Mirror(s)!Creating(p), Mirror(s)!Go(p, Mirror(s)!Idle),
           UNCHANGED <<v1, v2, v3, v4, v7, v8>>, Mirror(s)!Fault \/ v6' = v6
    PROVE  Mirror(s)!IInv'
<1>1. v6' \in [turns : 0..s.turns, calls : Nat, faults : Nat]
  BY MirrorFault
<1>2. PICK k : k = Mirror(s)!Idle
  OBVIOUS
<1>3. k.at = "none"
  BY <1>2 DEF Mirror!Idle
<1>4. Moved(s, p) /\ v5'[p] = Mirror(s)!Rested(k)
  BY <1>2, MirrorGo DEF Mirror!IInv
<1> QED BY <1>1, <1>3, <1>4, MirrorPasses

\* A handler that is at a step of its own.
LEMMA MirrorStepHas ==
    ASSUME NEW s \in MirrorScopes, Mirror(s)!IInv, NEW p \in Mirror(s)!Threads,
           v5[p].at \in {"look", "forget", "prune", "delete", "create", "retitle", "detach", "call"}
    PROVE  /\ p # s.consumer /\ v5[p].at # "none" /\ ~Mirror(s)!Creating(p)
           /\ v5[p].at \in {"forget", "prune", "delete", "create", "detach"} => v5[p].job = "open"
           /\ v5[p].at = "retitle" => v5[p].job = "rename"
           /\ v5[p].at = "look" => v5[p].job \in {"open", "reconcile"}
<1>1. v5[p].at # "none"
  OBVIOUS
<1>2. /\ v5[p].job \in Mirror(s)!Jobs /\ v5[p].at \in Mirror(s)!Places(v5[p].job)
      /\ (v5[p].job \in Mirror(s)!Kinds <=> p = s.consumer)
  BY <1>1, HandlerHas
<1>3. /\ v5[p].at \in {"forget", "prune", "delete", "create", "detach"} => v5[p].job = "open"
      /\ v5[p].at = "retitle" => v5[p].job = "rename"
      /\ v5[p].at = "look" => v5[p].job \in {"open", "reconcile"}
      /\ v5[p].at = "call" => v5[p].job \in {"dispatch", "rename", "archive", "open", "reconcile",
                                      "resume", "follow"}
  BY <1>2, MirrorThen
<1>4. p # s.consumer
  BY <1>2, <1>3 DEF Mirror!Kinds, Mirror!Words
<1> QED BY <1>1, <1>3, <1>4 DEF Mirror!Creating, Mirror!Here

LEMMA MirrorRetitles ==
    ASSUME NEW s \in MirrorScopes, Mirror(s)!IInv, NEW p \in Mirror(s)!Threads,
           Mirror(s)!Retitle(p)
    PROVE  Mirror(s)!IInv'
<1>1. v5[p].at = "retitle" /\ UNCHANGED <<v1, v2, v3, v4, v7, v8>>
  BY DEF Mirror!Retitle, Mirror!Here
<1>2. p # s.consumer /\ ~Mirror(s)!Creating(p) /\ v5[p].job = "rename"
  BY <1>1, MirrorStepHas
<1>3. CASE Mirror(s)!Go(p, Mirror(s)!Left(p)) /\ v6' = v6
  <2>1. PICK h : h = v5[p]
    OBVIOUS
  <2>2. PICK k : k = Mirror(s)!Left(p)
    OBVIOUS
  <2>3. /\ Mirror(s)!Fits(h, DOMAIN v4) /\ h \in Mirror(s)!Handlers /\ h.at = "retitle"
        /\ h.job = "rename" /\ h.task \in s.tasks
        /\ v3[h.task].exists /\ h.copy.exists
        /\ h.fresh => h.copy = v3[h.task]
        /\ h.fresh /\ h.task \notin v8 => Mirror(s)!Titled(h.task)
    BY <1>1, <1>2, <2>1, HandlerHas
  <2>4. Mirror(s)!Then("rename", "retitle") = "write"
    BY DEF Mirror!Then
  <2>5. /\ k \in Mirror(s)!Handlers /\ k.at = "write" /\ k.job = "rename" /\ k.task = h.task
        /\ k.copy = h.copy /\ k.arg = h.arg /\ k.fresh = h.fresh /\ k.doomed = h.doomed
    BY <2>1, <2>2, <2>3, <2>4 DEF Mirror!Left, Mirror!Handlers, Mirror!Steps
  <2>6. Moved(s, p) /\ v5'[p] = Mirror(s)!Rested(k)
    BY <1>3, <2>2, MirrorGo DEF Mirror!IInv
  <2>7. Mirror(s)!Titled(h.task) => Mirror(s)!Titled(h.task)'
    BY <1>1, <1>2, <2>3, <2>6, KeptWhenMute DEF Mirror!IInv
  <2>8. Mirror(s)!Fits(k, DOMAIN v4)
    BY <2>3, <2>5 DEF Mirror!Fits, Mirror!Places, Mirror!Words, Mirror!Asked
  <2>a. k.job \in Mirror(s)!Kinds <=> p = s.consumer
    BY <1>2, <2>5, NotHeard
  <2>9. MayHold(s, p, k)
    BY <1>1, <1>2, <2>1, <2>3, <2>5, <2>7, <2>8, <2>a DEF MayHold
  <2>10. v6' \in [turns : 0..s.turns, calls : Nat, faults : Nat]
    BY <1>3, MirrorFault
  <2> QED BY <1>1, <1>2, <2>6, <2>9, <2>10, MirrorPasses
<1>4. CASE Mirror(s)!Go(p, Mirror(s)!Idle) /\ (Mirror(s)!Fault \/ v6' = v6)
  BY <1>1, <1>2, <1>4, MirrorLeaves
<1> QED BY <1>3, <1>4 DEF Mirror!Retitle

\* Opening reads the row.
LEMMA MirrorLooks ==
    ASSUME NEW s \in MirrorScopes, Mirror(s)!IInv, NEW p \in Mirror(s)!Threads,
           Mirror(s)!LookOpen(p)
    PROVE  Mirror(s)!IInv'
<1>1. /\ v5[p].at = "look" /\ v5[p].job = "open" /\ UNCHANGED <<v1, v2, v3, v4, v7, v8>>
      /\ v6' = v6
  BY DEF Mirror!LookOpen, Mirror!Here
<1>2. p # s.consumer /\ ~Mirror(s)!Creating(p)
  BY <1>1, MirrorStepHas
<1>3. PICK h : h = v5[p]
  OBVIOUS
<1>4. PICK k : k = [Mirror(s)!Left(p) EXCEPT !.copy = v3[v5[p].task], !.fresh = TRUE]
  OBVIOUS
<1>5. /\ Mirror(s)!Fits(h, DOMAIN v4) /\ h \in Mirror(s)!Handlers /\ h.at = "look"
      /\ h.job = "open" /\ h.task \in s.tasks
  BY <1>1, <1>3, HandlerHas
<1>6. Mirror(s)!Then("open", "look") = "forget"
  BY DEF Mirror!Then
<1>7. v3[h.task] \in Mirror(s)!Row /\ v3[h.task].channel_id \in {0} \cup DOMAIN v4
  BY <1>5 DEF Mirror!IInv, Mirror!Shape, Mirror!None
<1>8. /\ k \in Mirror(s)!Handlers /\ k.at = "forget" /\ k.job = "open" /\ k.task = h.task
      /\ k.copy = v3[h.task] /\ k.arg = h.arg /\ k.fresh = TRUE /\ k.doomed = h.doomed
  BY <1>3, <1>4, <1>5, <1>6, <1>7 DEF Mirror!Left, Mirror!Handlers, Mirror!Steps
<1>9. Moved(s, p) /\ v5'[p] = Mirror(s)!Rested(k)
  <2>1. Mirror(s)!Go(p, k)
    BY <1>4 DEF Mirror!LookOpen
  <2> QED BY <2>1, MirrorGo DEF Mirror!IInv
<1>10. Mirror(s)!Fits(k, DOMAIN v4)
  BY <1>5, <1>7, <1>8 DEF Mirror!Fits, Mirror!Places, Mirror!Words, Mirror!Asked, Mirror!None
<1>a. k.job \in Mirror(s)!Kinds <=> p = s.consumer
  BY <1>2, <1>8, NotHeard
<1>11. MayHold(s, p, k)
  BY <1>1, <1>2, <1>8, <1>10, <1>a DEF MayHold
<1> QED BY <1>1, <1>2, <1>9, <1>11, MirrorFault, MirrorPasses

\* A handler that goes on with what it has.
LEMMA MirrorLeft ==
    ASSUME NEW s \in MirrorScopes, Mirror(s)!IInv, NEW p \in Mirror(s)!Threads, NEW h,
           h = v5[p], h.at \in {"look", "forget", "prune", "delete"}, NEW k,
           k = Mirror(s)!Left(p)
    PROVE  /\ h \in Mirror(s)!Handlers /\ h.job \in {"open", "reconcile"}
           /\ h.at # "look" => h.job = "open"
           /\ k \in Mirror(s)!Handlers /\ k.job = h.job /\ k.task = h.task
           /\ k.at = IF h.at = "look" THEN (IF h.job = "open" THEN "forget" ELSE "call")
                     ELSE IF h.at = "forget" THEN "prune"
                     ELSE IF h.at = "prune" THEN "delete" ELSE "create"
           /\ k.copy = h.copy /\ k.arg = h.arg /\ k.fresh = h.fresh /\ k.doomed = h.doomed
           /\ Mirror(s)!Fits(k, DOMAIN v4)
<1>1. h.at # "none"
  OBVIOUS
<1>2. /\ Mirror(s)!Fits(h, DOMAIN v4) /\ h \in Mirror(s)!Handlers
      /\ h.job \in Mirror(s)!Jobs /\ h.at \in Mirror(s)!Places(h.job)
  BY <1>1, HandlerHas
<1>3. /\ h.job \in {"open", "reconcile"} /\ (h.at # "look" => h.job = "open")
      /\ Mirror(s)!Then(h.job, h.at) =
           IF h.at = "look" THEN (IF h.job = "open" THEN "forget" ELSE "call")
           ELSE IF h.at = "forget" THEN "prune"
           ELSE IF h.at = "prune" THEN "delete" ELSE "create"
  BY <1>2, MirrorThen
<1>4. /\ k \in Mirror(s)!Handlers /\ k.job = h.job /\ k.task = h.task
      /\ k.at = Mirror(s)!Then(h.job, h.at)
      /\ k.copy = h.copy /\ k.arg = h.arg /\ k.fresh = h.fresh /\ k.doomed = h.doomed
  BY <1>2, <1>3 DEF Mirror!Left, Mirror!Handlers, Mirror!Steps
<1>5. Mirror(s)!Fits(k, DOMAIN v4)
  BY <1>2, <1>3, <1>4 DEF Mirror!Fits, Mirror!Places, Mirror!Words, Mirror!Asked
<1> QED BY <1>2, <1>3, <1>4, <1>5

LEMMA MirrorForgets ==
    ASSUME NEW s \in MirrorScopes, Mirror(s)!IInv, NEW p \in Mirror(s)!Threads,
           v5[p].at = "forget" \/ (v5[p].at = "look" /\ v5[p].job = "reconcile"),
           NEW c, c = v5[p].copy.channel_id,
           Mirror(s)!Go(p, IF c # 0 <=> v5[p].at = "look" THEN Mirror(s)!Left(p)
                           ELSE Mirror(s)!Idle),
           UNCHANGED <<v1, v2, v3, v4, v6, v7, v8>>
    PROVE  Mirror(s)!IInv'
<1>1. p # s.consumer /\ ~Mirror(s)!Creating(p) /\ UNCHANGED <<v1, v2, v3, v4, v7, v8>> /\ v6' = v6
      /\ (v5[p].at # "look" => v5[p].job = "open")
  BY MirrorStepHas
<1>2. CASE c # 0 <=> v5[p].at = "look"
  <2>1. PICK h : h = v5[p]
    OBVIOUS
  <2>2. PICK k : k = Mirror(s)!Left(p)
    OBVIOUS
  <2>3. /\ h.at # "none" /\ h.at \in {"look", "forget", "prune", "delete"}
        /\ h.job # "open" => v3[h.task].exists /\ h.copy.exists
        /\ h.fresh /\ (h.job # "open" \/ h.at = "forget") => h.copy = v3[h.task]
    BY <1>1, <2>1, HandlerHas
  <2>4. /\ h.job \in {"open", "reconcile"} /\ (h.at # "look" => h.job = "open")
        /\ k \in Mirror(s)!Handlers /\ k.job = h.job /\ k.task = h.task
        /\ h.at = "look" /\ h.job = "reconcile" => k.at = "call"
        /\ h.at = "forget" => k.at = "prune"
        /\ k.copy = h.copy /\ k.fresh = h.fresh
        /\ Mirror(s)!Fits(k, DOMAIN v4)
    BY <2>1, <2>2, <2>3, MirrorLeft
  <2>5. h.at = "forget" => h.copy.channel_id = 0
    BY <1>2, <2>1
  <2>a. k.job \in Mirror(s)!Kinds <=> p = s.consumer
    BY <1>1, <2>4, NotHeard
  <2>6. MayHold(s, p, k)
    BY <1>1, <2>1, <2>3, <2>4, <2>5, <2>a DEF MayHold
  <2>7. Moved(s, p) /\ v5'[p] = Mirror(s)!Rested(k)
    <3>1. Mirror(s)!Go(p, k)
      BY <1>2, <2>2
    <3> QED BY <3>1, MirrorGo DEF Mirror!IInv
  <2> QED BY <1>1, <2>6, <2>7, MirrorFault, MirrorPasses
<1>3. CASE ~(c # 0 <=> v5[p].at = "look")
  <2>1. Mirror(s)!Go(p, Mirror(s)!Idle)
    BY <1>3
  <2> QED BY <1>1, <2>1, MirrorLeaves
<1> QED BY <1>2, <1>3

\* The channels it will take apart are listed.
LEMMA MirrorPrunes ==
    ASSUME NEW s \in MirrorScopes, Mirror(s)!IInv, NEW p \in Mirror(s)!Threads,
           Mirror(s)!Prune(p)
    PROVE  Mirror(s)!IInv'
<1>1. v5[p].at = "prune" /\ UNCHANGED <<v1, v2, v3, v4, v7, v8>> /\ v6' = v6
  BY DEF Mirror!Prune, Mirror!Here
<1>2. p # s.consumer /\ ~Mirror(s)!Creating(p)
  BY <1>1, MirrorStepHas
<1>3. PICK h : h = v5[p]
  OBVIOUS
<1>4. PICK j : j = Mirror(s)!Left(p)
  OBVIOUS
<1>5. PICK D : D \subseteq DOMAIN v4 /\
         Mirror(s)!Go(p, [j EXCEPT !.copy.title = v1[h.task].title, !.doomed = D])
  BY <1>3, <1>4 DEF Mirror!Prune
<1>6. PICK k : k = [j EXCEPT !.copy.title = v1[h.task].title, !.doomed = D]
  OBVIOUS
<1>7. h.at # "none" /\ h.at \in {"look", "forget", "prune", "delete"} /\ h.at = "prune"
  BY <1>1, <1>3
<1>8. /\ h.task \in s.tasks /\ h.copy \in Mirror(s)!Row
      /\ h.fresh /\ h.task \notin v8 /\ h.job = "open" => v3[h.task].channel_id = 0
  BY <1>3, <1>7, HandlerHas
<1>9. /\ h.job = "open" /\ j \in Mirror(s)!Handlers /\ j.job = "open" /\ j.task = h.task
      /\ j.at = "delete" /\ j.copy = h.copy /\ j.fresh = h.fresh
      /\ Mirror(s)!Fits(j, DOMAIN v4)
  BY <1>3, <1>4, <1>7, MirrorLeft
<1>10. v1[h.task].title \in Nat /\ DOMAIN v4 \subseteq Nat
  <2>1. v1[h.task].title \in Nat
    BY <1>8 DEF Mirror!IInv, Mirror!Shape
  <2>2. DOMAIN v4 \subseteq Nat
    <3> DEFINE E == [task : s.tasks, category : {"running", "done"}, alive : BOOLEAN]
    <3>1. v4 \in Seq(E)
      BY DEF Mirror!IInv, Mirror!Shape
    <3> HIDE DEF E
    <3> QED BY <3>1
  <2> QED BY <2>1, <2>2
<1>11. PICK copy : copy = [h.copy EXCEPT !.title = v1[h.task].title]
  OBVIOUS
<1>12. copy \in Mirror(s)!Row /\ copy.title = v1[h.task].title
       /\ copy.channel_id = h.copy.channel_id
  BY <1>8, <1>10, <1>11 DEF Mirror!Row
<1>13. k = [j EXCEPT !.copy = copy, !.doomed = D]
  BY <1>6, <1>9, <1>11 DEF Mirror!Handlers
<1>14. /\ k \in Mirror(s)!Handlers /\ k.job = "open" /\ k.task = h.task /\ k.at = "delete"
       /\ k.copy = copy /\ k.fresh = h.fresh /\ k.doomed = D /\ k.arg = j.arg
  BY <1>5, <1>9, <1>10, <1>12, <1>13 DEF Mirror!Handlers
<1>15. Mirror(s)!Fits(k, DOMAIN v4)
  BY <1>5, <1>9, <1>12, <1>14 DEF Mirror!Fits, Mirror!Words, Mirror!Asked
<1>a. k.job \in Mirror(s)!Kinds <=> p = s.consumer
  BY <1>2, <1>14, NotHeard
<1>16. MayHold(s, p, k)
  BY <1>1, <1>2, <1>3, <1>7, <1>8, <1>9, <1>12, <1>14, <1>15, <1>a DEF MayHold
<1>17. Moved(s, p) /\ v5'[p] = Mirror(s)!Rested(k)
  BY <1>5, <1>6, MirrorGo DEF Mirror!IInv
<1> QED BY <1>1, <1>2, <1>16, <1>17, MirrorFault, MirrorPasses

\* None is left to be taken apart.
LEMMA MirrorPruned ==
    ASSUME NEW s \in MirrorScopes, Mirror(s)!IInv, NEW p \in Mirror(s)!Threads,
           v5[p].at = "delete", Mirror(s)!Go(p, Mirror(s)!Left(p)),
           UNCHANGED <<v1, v2, v3, v4, v6, v7, v8>>
    PROVE  Mirror(s)!IInv'
<1>1. p # s.consumer /\ ~Mirror(s)!Creating(p) /\ UNCHANGED <<v1, v2, v3, v4, v7, v8>> /\ v6' = v6
  BY MirrorStepHas
<1>2. PICK h : h = v5[p]
  OBVIOUS
<1>3. PICK k : k = Mirror(s)!Left(p)
  OBVIOUS
<1>4. /\ h.at # "none" /\ h.at = "delete" /\ h.at \in {"look", "forget", "prune", "delete"}
  BY <1>2
<1>5. /\ h.task \in s.tasks
      /\ h.fresh /\ h.task \notin v8 /\ h.job = "open" => v3[h.task].channel_id = 0
      /\ h.fresh /\ h.task \notin v8 /\ h.job = "open" =>
           Mirror(s)!Titled(h.task) \/ h.copy.title = v1[h.task].title
  BY <1>2, <1>4, HandlerHas
<1>6. /\ h.job = "open" /\ k \in Mirror(s)!Handlers /\ k.job = h.job /\ k.task = h.task
      /\ k.at = "create" /\ k.copy = h.copy /\ k.fresh = h.fresh
      /\ Mirror(s)!Fits(k, DOMAIN v4)
  BY <1>2, <1>3, <1>4, MirrorLeft
<1>7. Moved(s, p) /\ v5'[p] = Mirror(s)!Rested(k)
  BY <1>3, MirrorGo DEF Mirror!IInv
<1>8. Mirror(s)!Titled(h.task) => Mirror(s)!Titled(h.task)'
  BY <1>1, <1>5, <1>7, KeptWhenMute DEF Mirror!IInv
<1>a. k.job \in Mirror(s)!Kinds <=> p = s.consumer
  BY <1>1, <1>6, NotHeard
<1>9. MayHold(s, p, k)
  BY <1>1, <1>2, <1>4, <1>5, <1>6, <1>8, <1>a DEF MayHold
<1> QED BY <1>1, <1>7, <1>9, MirrorFault, MirrorPasses

\* A sequence with one element replaced.
LEMMA SeqWith ==
    ASSUME NEW E, NEW q \in Seq(E), NEW c \in DOMAIN q, NEW e \in E, NEW r,
           r = [q EXCEPT ![c] = e]
    PROVE  /\ r \in Seq(E) /\ Len(r) = Len(q) /\ DOMAIN r = DOMAIN q /\ r[c] = e
           /\ \A d \in DOMAIN q \ {c} : r[d] = q[d]
OBVIOUS

\* A channel is moved.
LEMMA MirrorMoves ==
    ASSUME NEW s \in MirrorScopes, Mirror(s)!IInv, NEW p \in Mirror(s)!Threads,
           v5[p].at = "place", Mirror(s)!Go(p, Mirror(s)!Left(p)),
           \/ v4' = v4
           \/ \E c \in DOMAIN v4, category \in {"running", "done"} :
                v4' = [v4 EXCEPT ![c].category = category],
           UNCHANGED <<v1, v2, v3, v6, v7, v8>>
    PROVE  Mirror(s)!IInv'
<1> DEFINE E == [task : s.tasks, category : {"running", "done"}, alive : BOOLEAN]
<1>1. v4 \in Seq(E) /\ Len(v4) <= s.created /\ Mirror(s)!Shape /\ Mirror(s)!TurnInv
  BY DEF Mirror!IInv, Mirror!Shape
<1>2. /\ v4' \in Seq(E) /\ Len(v4') <= s.created /\ DOMAIN v4' = DOMAIN v4
      /\ \A c \in DOMAIN v4 : v4'[c].task = v4[c].task /\ v4'[c].alive = v4[c].alive
  <2>1. CASE v4' = v4
    BY <1>1, <2>1
  <2>2. ASSUME NEW c \in DOMAIN v4, NEW category \in {"running", "done"},
               v4' = [v4 EXCEPT ![c].category = category]
        PROVE  /\ v4' \in Seq(E) /\ Len(v4') <= s.created /\ DOMAIN v4' = DOMAIN v4
               /\ \A d \in DOMAIN v4 : v4'[d].task = v4[d].task /\ v4'[d].alive = v4[d].alive
    <3> HIDE DEF E
    <3>1. v4[c] \in E
      BY <1>1
    <3>2. PICK e : e = [v4[c] EXCEPT !.category = category]
      OBVIOUS
    <3>3. e \in E /\ e.task = v4[c].task /\ e.alive = v4[c].alive
      BY <3>1, <3>2 DEF E
    <3>4. v4' = [v4 EXCEPT ![c] = e]
      BY <2>2, <3>2
    <3>5. /\ v4' \in Seq(E) /\ Len(v4') = Len(v4) /\ DOMAIN v4' = DOMAIN v4 /\ v4'[c] = e
          /\ \A d \in DOMAIN v4 \ {c} : v4'[d] = v4[d]
      BY <1>1, <3>3, <3>4, SeqWith
    <3> QED BY <1>1, <3>3, <3>5
  <2> QED BY <2>1, <2>2
<1>3. PICK h : h = v5[p]
  OBVIOUS
<1>4. PICK k : k = Mirror(s)!Left(p)
  OBVIOUS
<1>5. /\ h.at = "place" /\ h.at # "none"
  BY <1>3
<1>6. /\ Mirror(s)!Fits(h, DOMAIN v4) /\ h \in Mirror(s)!Handlers
      /\ h.job \in Mirror(s)!Jobs /\ h.at \in Mirror(s)!Places(h.job) /\ h.task \in s.tasks
      /\ (h.job \in Mirror(s)!Kinds <=> p = s.consumer)
      /\ h.job # "open" => v3[h.task].exists /\ h.copy.exists
      /\ h.fresh /\ h.job # "open" => h.copy = v3[h.task]
  BY <1>3, <1>5, HandlerHas
<1>7. /\ Mirror(s)!Then(h.job, "place") =
           IF h.job \in Mirror(s)!Words \cup {"unarchived"} THEN "write" ELSE "none"
      /\ h.job # "open" /\ h.job # "named"
  <2>1. Mirror(s)!Then(h.job, "place") =
           IF h.job \in Mirror(s)!Words \cup {"unarchived"} THEN "write" ELSE "none"
    BY DEF Mirror!Then
  <2>2. h.job # "open" /\ h.job # "named"
    BY <1>5, <1>6 DEF Mirror!Places, Mirror!Words
  <2> QED BY <2>1, <2>2
<1>8. Moved(s, p) /\ v5'[p] = Mirror(s)!Rested(k)
      /\ \A q \in Mirror(s)!Threads \ {p} : v5'[q] = v5[q]
  BY <1>1, <1>4, MirrorGo
<1>9. CASE h.job \in Mirror(s)!Words \cup {"unarchived"}
  <2>1. /\ k \in Mirror(s)!Handlers /\ k.at = "write" /\ k.job = h.job /\ k.task = h.task
        /\ k.copy = h.copy /\ k.arg = h.arg /\ k.fresh = h.fresh /\ k.recent = h.recent
        /\ k.doomed = h.doomed
    BY <1>3, <1>4, <1>5, <1>6, <1>7, <1>9 DEF Mirror!Left, Mirror!Handlers, Mirror!Steps
  <2>2. Mirror(s)!Fits(k, DOMAIN v4)
    BY <1>6, <1>9, <2>1 DEF Mirror!Fits, Mirror!Places, Mirror!Words, Mirror!Asked
  <2>3. MayHold(s, p, k)
    BY <1>3, <1>5, <1>6, <1>7, <1>9, <2>1, <2>2 DEF MayHold, Mirror!Words
  <2>4. v5'[p] = k
    BY <1>8, <2>1 DEF Mirror!Rested
  <2>5. \A t, kinds : Attends(s, t, kinds)
    <3>1. CASE p = s.consumer
      BY <1>3, <1>5, <2>1, <2>4, <3>1 DEF Attends
    <3>2. CASE p # s.consumer
      BY <1>1, <1>8, <3>2, AttendsOther
    <3> QED BY <3>1, <3>2
  <2>6. \A t \in s.tasks : Mirror(s)!Known(t)' /\ Grows(s, t)
    BY <1>1, MirrorMute DEF Mirror!TurnInv, Mirror!Known, Mirror!None
  <2>7. ~Mirror(s)!Creating(p) /\ v5[p].at # "detach"
    BY DEF Mirror!Creating, Mirror!Here
  <2>8. /\ v1' \in [s.tasks -> [turn : 0..s.turns, title : Nat, archived : BOOLEAN]]
        /\ v2' \in Seq(Notice(s)) /\ v7' \subseteq s.tasks /\ v8' \subseteq s.tasks
        /\ v6' \in [turns : 0..s.turns, calls : Nat, faults : Nat]
    BY <1>1 DEF Mirror!Shape, Notice
  <2> QED BY <1>2, <1>8, <2>3, <2>5, <2>6, <2>7, <2>8, MirrorGoesOn
<1>10. CASE h.job \notin Mirror(s)!Words \cup {"unarchived"}
  <2>1. k.at = "none"
    BY <1>3, <1>4, <1>5, <1>6, <1>7, <1>10 DEF Mirror!Left, Mirror!Handlers
  <2>2. v5'[p].at = "none"
    BY <1>8, <2>1 DEF Mirror!Rested, Mirror!Idle
  <2>3. \A t : Attends(s, t, Mirror(s)!Words) /\ Attends(s, t, {"named"})
    <3>1. CASE p = s.consumer
      BY <1>3, <1>7, <1>10, <2>2, <3>1 DEF Attends, Mirror!Hearing
    <3>2. CASE p # s.consumer
      BY <1>1, <1>8, <3>2, AttendsOther
    <3> QED BY <3>1, <3>2
  <2>6. \A t \in s.tasks : Mirror(s)!Known(t)' /\ Grows(s, t)
    BY <1>1, MirrorMute DEF Mirror!TurnInv, Mirror!Known, Mirror!None
  <2>7. ~Mirror(s)!Creating(p) /\ v5[p].at # "detach"
    BY DEF Mirror!Creating, Mirror!Here
  <2>8. /\ v1' \in [s.tasks -> [turn : 0..s.turns, title : Nat, archived : BOOLEAN]]
        /\ v2' \in Seq(Notice(s)) /\ v7' \subseteq s.tasks /\ v8' \subseteq s.tasks
        /\ v6' \in [turns : 0..s.turns, calls : Nat, faults : Nat]
    BY <1>1 DEF Mirror!Shape, Notice
  <2> QED BY <1>2, <1>8, <2>1, <2>3, <2>6, <2>7, <2>8, MirrorGoesOn
<1> QED BY <1>9, <1>10

\* A handler returns before its write.
LEMMA MirrorGivesUp ==
    ASSUME NEW s \in MirrorScopes, Mirror(s)!IInv, NEW p \in Mirror(s)!Threads,
           v5[p].at = "place", Mirror(s)!GivenUp(p),
           UNCHANGED <<v1, v2, v3, v4, v8>>, Mirror(s)!Fault \/ v6' = v6
    PROVE  Mirror(s)!IInv'
<1>1. Mirror(s)!Shape /\ Mirror(s)!TurnInv /\ Mirror(s)!TitleInv /\ Mirror(s)!ChannelInv
      /\ v1' = v1 /\ v2' = v2 /\ v3' = v3 /\ v4' = v4 /\ v8' = v8
  BY DEF Mirror!IInv
<1>3. PICK h : h = v5[p]
  OBVIOUS
<1>5. h.at = "place" /\ h.at # "none"
  BY <1>3
<1>6. h.job \in Mirror(s)!Jobs /\ h.at \in Mirror(s)!Places(h.job) /\ h.task \in s.tasks
      /\ (h.job \in Mirror(s)!Kinds <=> p = s.consumer)
  BY <1>3, <1>5, HandlerHas
<1>7. h.job # "named"
  BY <1>5, <1>6 DEF Mirror!Places, Mirror!Words
<1>8. /\ v7' = IF h.job \in Mirror(s)!Words THEN v7 \cup {h.task} ELSE v7
      /\ v5' = Mirror(s)!Aged(p, h.task, Mirror(s)!Idle)
  BY <1>3 DEF Mirror!GivenUp, Mirror!Words
<1>9. /\ Moved(s, p) /\ v5'[p] = Mirror(s)!Idle /\ v5'[p].at = "none"
      /\ \A q \in Mirror(s)!Threads \ {p} :
           v5'[q] = v5[q] /\ v5[q] # Stale(v5[q]) /\ v5[q].at # "none" => v5[q].task # h.task
  BY <1>1, <1>8, MirrorAged DEF Mirror!Rested, Mirror!Idle
<1>10. \A t \in s.tasks : Mirror(s)!Known(t)' /\ Grows(s, t)
  BY <1>1, MirrorMute DEF Mirror!TurnInv, Mirror!Known, Mirror!None
<1>11. ASSUME NEW t \in s.tasks
       PROVE  /\ Attends(s, t, {"named"}) /\ TitleKept(s, t)
              /\ t # h.task \/ h.job \notin Mirror(s)!Words =>
                   Attends(s, t, Mirror(s)!Words) /\ TurnKept(s, t)
  <2>1. Attends(s, t, {"named"})
    <3>1. CASE p = s.consumer
      BY <1>3, <1>7, <1>9, <3>1 DEF Attends, Mirror!Hearing
    <3>2. CASE p # s.consumer
      BY <1>1, <1>9, <3>2, AttendsOther
    <3> QED BY <3>1, <3>2
  <2>2. t # h.task \/ h.job \notin Mirror(s)!Words => Attends(s, t, Mirror(s)!Words)
    <3>1. CASE p = s.consumer
      BY <1>3, <1>7, <1>9, <3>1 DEF Attends, Mirror!Hearing
    <3>2. CASE p # s.consumer
      BY <1>1, <1>9, <3>2, AttendsOther
    <3> QED BY <3>1, <3>2
  <2>3. Grows(s, t)
    BY <1>10
  <2> QED BY <2>1, <2>2, <2>3, MirrorSpoken
<1>13. ASSUME NEW t \in s.tasks \ v7' PROVE Mirror(s)!TurnHeard(t)' /\ Mirror(s)!TurnSits(t)'
  <2>1. t \notin v7 /\ (t # h.task \/ h.job \notin Mirror(s)!Words)
    BY <1>8
  <2>2. Mirror(s)!TurnHeard(t) /\ Mirror(s)!TurnSits(t)
    BY <1>1, <2>1 DEF Mirror!TurnInv
  <2>3. Grows(s, t) /\ Attends(s, t, Mirror(s)!Words) /\ TurnKept(s, t)
    BY <1>10, <1>11, <2>1
  <2>4. Mirror(s)!TurnHeard(t)'
    BY <2>2, <2>3, TurnHeardStill
  <2> QED BY <1>1, <2>2, <2>3, <2>4, TurnSitsStill
<1>14. ASSUME NEW t \in s.tasks \ v8' PROVE Mirror(s)!TitleSits(t)'
  <2>1. Mirror(s)!TitleSits(t)
    BY <1>1 DEF Mirror!TitleInv
  <2>2. Grows(s, t) /\ Attends(s, t, {"named"})
    BY <1>10, <1>11
  <2> QED BY <1>1, <2>1, <2>2, TitleOfTask
<1>15. \A q \in Mirror(s)!Threads : v5[q].at # "none" => v5[q].task \in s.tasks
  BY <1>1, MirrorThreads, FitsHas
<1>16. \A q \in Mirror(s)!Threads \ {p} :
           v5'[q] = v5[q] /\ v5[q] # Stale(v5[q]) /\ v5[q].at # "none" =>
              /\ v3'[v5[q].task] = v3[v5[q].task]
              /\ TurnKept(s, v5[q].task) /\ TitleKept(s, v5[q].task)
  <2> SUFFICES ASSUME NEW q \in Mirror(s)!Threads \ {p},
                      v5'[q] = v5[q], v5[q] # Stale(v5[q]), v5[q].at # "none"
               PROVE  /\ v3'[v5[q].task] = v3[v5[q].task]
                      /\ TurnKept(s, v5[q].task) /\ TitleKept(s, v5[q].task)
    OBVIOUS
  <2>1. PICK t : t = v5[q].task
    OBVIOUS
  <2>2. t \in s.tasks /\ t # h.task
    BY <1>9, <1>15, <2>1
  <2>3. TurnKept(s, t) /\ TitleKept(s, t)
    BY <1>11, <2>2
  <2> QED BY <1>1, <2>1, <2>3
<1>17. Mirror(s)!TurnFits(p)' /\ Mirror(s)!TitleFits(p)' /\ ~Mirror(s)!Creating(p)'
  BY <1>9 DEF Mirror!TurnFits, Mirror!TitleFits, Mirror!Creating, Mirror!Busy, Mirror!Here
<1>18. Mirror(s)!TurnInv' /\ Mirror(s)!TitleInv'
  BY <1>1, <1>9, <1>10, <1>13, <1>14, <1>16, <1>17, MirrorKeeps
<1>19. Mirror(s)!ChannelInv'
  BY <1>1, <1>3, <1>5, <1>9, <1>17, ChannelStill DEF Mirror!Creating, Mirror!Here
<1>20. Mirror(s)!Shape'
  <2>1. v6' \in [turns : 0..s.turns, calls : Nat, faults : Nat]
    BY MirrorFault
  <2>2. /\ v1' \in [s.tasks -> [turn : 0..s.turns, title : Nat, archived : BOOLEAN]]
        /\ v2' \in Seq(Notice(s)) /\ v3' \in [s.tasks -> Mirror(s)!Row]
        /\ \A t \in s.tasks : v3'[t].channel_id \in {0} \cup DOMAIN v4'
        /\ v4' \in Seq([task : s.tasks, category : {"running", "done"}, alive : BOOLEAN])
        /\ Len(v4') <= s.created /\ v7' \subseteq s.tasks /\ v8' \subseteq s.tasks
    BY <1>1, <1>6, <1>8 DEF Mirror!Shape, Notice, Mirror!None
  <2> QED BY <1>1, <1>9, <2>1, <2>2, MirrorShape
<1> QED BY <1>18, <1>19, <1>20 DEF Mirror!IInv

\* More has been said of task t, and of no other.
Says(s, told, more, t) ==
    /\ more \in Seq(Notice(s))
    /\ \A kinds \in {Mirror(s)!Words, {"named"}, Mirror(s)!Kinds} :
         /\ Mirror(s)!Among(told, t, kinds) # {} => Mirror(s)!Among(more, t, kinds) # {}
         /\ \A u \in s.tasks \ {t} :
              Mirror(s)!Among(more, u, kinds) = Mirror(s)!Among(told, u, kinds)
    /\ \A u \in s.tasks \ {t} : \A c :
         Mirror(s)!EndsIn(told, u, c) => Mirror(s)!EndsIn(more, u, c)

LEMMA SaysOne ==
    ASSUME NEW s \in MirrorScopes, NEW told \in Seq(Notice(s)), NEW e \in Notice(s),
           NEW t \in s.tasks, e.task = t
    PROVE  /\ Says(s, told, Append(told, e), t)
           /\ e.kind \in Mirror(s)!Words =>
                Mirror(s)!Among(Append(told, e), t, Mirror(s)!Words) # {}
           /\ e.kind = "named" => Mirror(s)!Among(Append(told, e), t, {"named"}) # {}
<1>1. ASSUME NEW kinds
      PROVE  /\ Mirror(s)!Among(told, t, kinds) # {} =>
                  Mirror(s)!Among(Append(told, e), t, kinds) # {}
             /\ e.kind \in kinds => Mirror(s)!Among(Append(told, e), t, kinds) # {}
             /\ \A u \in s.tasks \ {t} :
                  Mirror(s)!Among(Append(told, e), u, kinds) = Mirror(s)!Among(told, u, kinds)
  <2>1. /\ Mirror(s)!Among(told, t, kinds) # {} =>
                  Mirror(s)!Among(Append(told, e), t, kinds) # {}
        /\ e.kind \in kinds => Mirror(s)!Among(Append(told, e), t, kinds) # {}
    BY TaskOfLast
  <2>2. ASSUME NEW u \in s.tasks \ {t}
        PROVE  Mirror(s)!Among(Append(told, e), u, kinds) = Mirror(s)!Among(told, u, kinds)
    BY TaskOfLast
  <2> QED BY <2>1, <2>2
<1>2. ASSUME NEW u \in s.tasks \ {t}, NEW c, Mirror(s)!EndsIn(told, u, c)
      PROVE  Mirror(s)!EndsIn(Append(told, e), u, c)
  BY <1>2, EndsWhenSaid
<1>3. Append(told, e) \in Seq(Notice(s))
  BY TaskOfLast
<1>4. ASSUME NEW kinds \in {Mirror(s)!Words, {"named"}, Mirror(s)!Kinds}
      PROVE  /\ Mirror(s)!Among(told, t, kinds) # {} =>
                  Mirror(s)!Among(Append(told, e), t, kinds) # {}
             /\ \A u \in s.tasks \ {t} :
                  Mirror(s)!Among(Append(told, e), u, kinds) = Mirror(s)!Among(told, u, kinds)
  BY <1>1
<1>5. Says(s, told, Append(told, e), t)
  BY <1>2, <1>3, <1>4 DEF Says
<1> QED BY <1>1, <1>5

LEMMA SaysBoth ==
    ASSUME NEW s \in MirrorScopes, NEW told, NEW more, NEW most, NEW t \in s.tasks,
           Says(s, told, more, t), Says(s, more, most, t)
    PROVE  Says(s, told, most, t)
BY DEF Says

\* Codex has something new of a task, and has said it.
LEMMA MirrorTells ==
    ASSUME NEW s \in MirrorScopes, Mirror(s)!IInv, NEW t \in s.tasks, NEW d,
           v1' = [v1 EXCEPT ![t] = d], d.archived => d.turn = 0,
           Says(s, v2, v2', t), Mirror(s)!EndsIn(v2', t, d), v3' = v3, v3[t].exists,
           d.turn = v1[t].turn \/ Mirror(s)!Among(v2', t, Mirror(s)!Words) # {},
           d.title = v1[t].title \/ Mirror(s)!Among(v2', t, {"named"}) # {}
    PROVE  \A u \in s.tasks : Mirror(s)!Known(u)' /\ Grows(s, u)
<1>1. /\ v1'[t] = d /\ \A u \in s.tasks \ {t} : v1'[u] = v1[u]
      /\ \A u \in s.tasks : Mirror(s)!Known(u)
  BY DEF Mirror!IInv, Mirror!Shape, Mirror!TurnInv
<1>2. ASSUME NEW u \in s.tasks PROVE Mirror(s)!Known(u)'
  <2>1. CASE u = t
    <3>1. /\ Mirror(s)!EndsIn(v2', u, v1'[u]) /\ v3'[u].exists
          /\ v1'[u].archived => v1'[u].turn = 0
      BY <1>1, <2>1
    <3> QED BY <3>1 DEF Mirror!Known, Mirror!None
  <2>2. CASE u # t
    <3>1. /\ Mirror(s)!EndsIn(v2', u, v1'[u]) /\ v1'[u] = v1[u] /\ v3'[u] = v3[u]
          /\ Mirror(s)!Among(v2', u, Mirror(s)!Kinds) = Mirror(s)!Among(v2, u, Mirror(s)!Kinds)
      BY <1>1, <2>2 DEF Says, Mirror!Known
    <3>2. Mirror(s)!Known(u)
      BY <1>1
    <3> QED BY <3>1, <3>2 DEF Mirror!Known, Mirror!None
  <2> QED BY <2>1, <2>2
<1>3. ASSUME NEW u \in s.tasks PROVE Grows(s, u)
  <2>1. CASE u = t
    <3>1. \A kinds \in {Mirror(s)!Words, {"named"}} :
             Mirror(s)!Among(v2, u, kinds) # {} => Mirror(s)!Among(v2', u, kinds) # {}
      BY <2>1 DEF Says
    <3> QED BY <1>1, <2>1, <3>1 DEF Grows
  <2>2. CASE u # t
    <3>1. \A kinds \in {Mirror(s)!Words, {"named"}} :
             Mirror(s)!Among(v2', u, kinds) = Mirror(s)!Among(v2, u, kinds)
      BY <2>2 DEF Says
    <3>2. v1'[u] = v1[u]
      BY <1>1, <2>2
    <3> QED BY <3>1, <3>2 DEF Grows
  <2> QED BY <2>1, <2>2
<1> QED BY <1>2, <1>3

\* A handler has its answer, or a refusal.
LEMMA MirrorAnswers ==
    ASSUME NEW s \in MirrorScopes, Mirror(s)!IInv, NEW p \in Mirror(s)!Threads,
           v5[p].at = "call", NEW h, h = v5[p], NEW t, t = h.task, NEW arg \in Nat,
           v1' \in [s.tasks -> [turn : 0..s.turns, title : Nat, archived : BOOLEAN]],
           v2' \in Seq(Notice(s)), UNCHANGED <<v3, v4, v7, v8>>,
           v6' \in [turns : 0..s.turns, calls : Nat, faults : Nat],
           \A u \in s.tasks : Mirror(s)!Known(u)' /\ Grows(s, u),
           \/ Mirror(s)!Refused(p)
           \/ /\ Mirror(s)!Answered(p, arg)
              /\ h.job \in Mirror(s)!Asked => arg \in 0..s.turns
              /\ h.job \in {"dispatch", "resume"} => arg # 0
              /\ h.job \in {"dispatch", "resume", "reconcile"} =>
                   Mirror(s)!Spoken(t)' \/ arg = v1'[t].turn
              /\ h.job = "archive" => Mirror(s)!Spoken(t)'
              /\ h.job = "rename" => Mirror(s)!Titled(t)'
    PROVE  Mirror(s)!IInv'
<1>1. /\ Mirror(s)!Shape /\ h.at = "call" /\ h.at # "none" /\ p # s.consumer
      /\ ~Mirror(s)!Creating(p) /\ v5[p].at # "detach"
  BY MirrorStepHas DEF Mirror!IInv
<1>2. /\ Mirror(s)!Fits(h, DOMAIN v4) /\ h \in Mirror(s)!Handlers
      /\ h.job \in Mirror(s)!Jobs /\ h.at \in Mirror(s)!Places(h.job) /\ h.task \in s.tasks
      /\ h.job # "open" => v3[h.task].exists /\ h.copy.exists
      /\ h.fresh /\ h.job # "open" => h.copy = v3[h.task]
  BY <1>1, HandlerHas
<1>3. PICK k : k = IF Mirror(s)!Refused(p) THEN Mirror(s)!Idle
                   ELSE [Mirror(s)!Left(p) EXCEPT !.arg = arg, !.recent = TRUE]
  OBVIOUS
<1>4. Mirror(s)!Go(p, k)
  BY <1>3 DEF Mirror!Refused, Mirror!Answered
<1>5. Moved(s, p) /\ v5'[p] = Mirror(s)!Rested(k)
  BY <1>1, <1>4, MirrorGo
<1>6. k.at = "none" \/ MayHold(s, p, k)
  <2>1. CASE Mirror(s)!Refused(p)
    BY <1>3, <2>1 DEF Mirror!Idle
  <2>2. CASE ~Mirror(s)!Refused(p)
    <3>1. /\ h.job \in {"dispatch", "rename", "archive", "open", "reconcile", "resume", "follow"}
          /\ Mirror(s)!Then(h.job, "call") =
                IF h.job = "open" THEN "look" ELSE IF h.job = "rename" THEN "retitle"
                ELSE IF h.job = "follow" THEN "place" ELSE "write"
          /\ Mirror(s)!Then(h.job, "call") \in Mirror(s)!Places(h.job) \cup {"none"}
      BY <1>1, <1>2, MirrorThen
    <3>2. /\ k \in Mirror(s)!Handlers /\ k.at = Mirror(s)!Then(h.job, "call")
          /\ k.job = h.job /\ k.task = h.task /\ k.copy = h.copy /\ k.arg = arg
          /\ k.fresh = h.fresh /\ k.recent = TRUE /\ k.doomed = h.doomed
      BY <1>1, <1>2, <1>3, <2>2, <3>1 DEF Mirror!Left, Mirror!Handlers, Mirror!Steps
    <3>3. Mirror(s)!Fits(k, DOMAIN v4)
      <4>1. /\ k.at \in Mirror(s)!Places(k.job)
            /\ k.copy.channel_id \in {0} \cup DOMAIN v4 /\ k.doomed \subseteq DOMAIN v4
        BY <1>2, <3>1, <3>2 DEF Mirror!Fits, Mirror!None
      <4>2. k.job \in Mirror(s)!Asked => k.arg \in 0..s.turns
        BY <2>2, <3>2
      <4>3. k.job \notin Mirror(s)!Words /\ k.at # "detach" /\ ~(k.job = "open" /\ k.at = "write")
        BY <3>1, <3>2 DEF Mirror!Words
      <4>4. k.job \in {"dispatch", "resume"} => k.arg # 0
        BY <2>2, <3>2
      <4> QED BY <3>2, <4>1, <4>2, <4>3, <4>4 DEF Mirror!Fits, Mirror!None
    <3>4. /\ k.at # "detach" /\ ~(k.job = "open" /\ k.at = "write")
          /\ k.job # "open" => v3[k.task].exists /\ k.copy.exists
          /\ k.fresh /\ (k.job # "open" \/ k.at = "forget") => k.copy = v3[k.task]
          /\ k.task = v5[p].task /\ k.copy.channel_id = v5[p].copy.channel_id
      BY <1>2, <3>1, <3>2
    <3>5. /\ k.job \in {"dispatch", "resume", "reconcile"} =>
               Mirror(s)!Spoken(t)' \/ k.arg = v1'[t].turn
          /\ k.job = "archive" => Mirror(s)!Spoken(t)'
          /\ k.job = "rename" => Mirror(s)!Titled(t)'
          /\ k.task = t
      BY <2>2, <3>2
    <3>6. k.job = "open" => k.at = "look"
      BY <3>1, <3>2
    <3>7. k.job \in Mirror(s)!Kinds <=> p = s.consumer
      BY <1>1, <3>1, <3>2, NotHeard
    <3> QED BY <1>1, <3>3, <3>4, <3>5, <3>6, <3>7 DEF MayHold
  <2> QED BY <2>1, <2>2
<1>7. \A u \in s.tasks : Attends(s, u, Mirror(s)!Words) /\ Attends(s, u, {"named"})
  BY <1>1, <1>5, AttendsOther
<1>8. /\ v4' \in Seq([task : s.tasks, category : {"running", "done"}, alive : BOOLEAN])
      /\ DOMAIN v4' = DOMAIN v4 /\ Len(v4') <= s.created
      /\ v7' \subseteq s.tasks /\ v8' \subseteq s.tasks
  BY <1>1 DEF Mirror!Shape
<1> QED BY <1>1, <1>5, <1>6, <1>7, <1>8, MirrorGoesOn

LEMMA SaidAfter ==
    ASSUME NEW E, NEW q \in Seq(E), NEW x \in E, NEW e \in E
    PROVE  /\ q \o <<>> \o <<e>> = Append(q, e)
           /\ q \o <<x>> \o <<e>> = Append(Append(q, x), e)
           /\ q \o <<e>> = Append(q, e)
           /\ q \o <<x, e>> = Append(Append(q, x), e)
           /\ Append(q, x) \in Seq(E)
OBVIOUS

\* A turn is begun.
LEMMA MirrorStarts ==
    ASSUME NEW s \in MirrorScopes, Mirror(s)!IInv, NEW p \in Mirror(s)!Threads,
           v5[p].at = "call", NEW t, t = v5[p].task,
           v5[p].job \in {"dispatch", "resume"},
           Mirror(s)!StartTurn(p, t), UNCHANGED <<v3, v4, v7, v8>>
    PROVE  Mirror(s)!IInv'
<1> DEFINE Short == /\ v1' = v1 /\ v2' = v2 /\ v6' = v6
                    /\ \/ Mirror(s)!Refused(p)
                       \/ v1[t].turn # 0 /\ Mirror(s)!Answered(p, v1[t].turn)
<1> DEFINE Begun == /\ v1[t].turn = 0 /\ ~v1[t].archived /\ v6.turns < s.turns
                    /\ v1' = [v1 EXCEPT ![t].turn = v6.turns + 1]
                    /\ v6' = [v6 EXCEPT !.turns = @ + 1]
                    /\ Mirror(s)!Answered(p, v6.turns + 1)
                    /\ \E told \in {<<>>, <<Mirror(s)!Event(t, "active", 0)>>} :
                         v2' = v2 \o told \o <<Mirror(s)!Event(t, "started", v6.turns + 1)>>
<1>1. /\ Mirror(s)!Shape /\ Mirror(s)!TurnInv /\ v5[p].at # "none"
      /\ v1 \in [s.tasks -> [turn : 0..s.turns, title : Nat, archived : BOOLEAN]]
      /\ v2 \in Seq(Notice(s)) /\ v6 \in [turns : 0..s.turns, calls : Nat, faults : Nat]
      /\ s.turns \in Nat
  BY MirrorAssumption DEF Mirror!IInv, Mirror!Shape, Notice
<1>2. t \in s.tasks /\ v3[t].exists
  BY <1>1, HandlerHas
<1>3. v1[t].turn \in 0..s.turns /\ Mirror(s)!EndsIn(v2, t, v1[t])
  BY <1>1, <1>2 DEF Mirror!TurnInv, Mirror!Known
<1>4. CASE Short
  <2>1. \A u \in s.tasks : Mirror(s)!Known(u)' /\ Grows(s, u)
    BY <1>1, <1>4, MirrorMute DEF Mirror!TurnInv, Mirror!Known, Mirror!None
  <2>2. v1[t].turn \in Nat /\ v1'[t].turn = v1[t].turn
    BY <1>3, <1>4
  <2> QED BY <1>1, <1>3, <1>4, <2>1, <2>2, MirrorAnswers
<1>5. CASE Begun
  <2>1. PICK n : n = v6.turns + 1
    OBVIOUS
  <2>2. PICK e : e = Mirror(s)!Event(t, "started", n)
    OBVIOUS
  <2>3. PICK x : x = Mirror(s)!Event(t, "active", 0)
    OBVIOUS
  <2>4. n \in 0..s.turns /\ n # 0 /\ n \in Nat
    BY <1>1, <1>5, <2>1
  <2>5. /\ e \in Notice(s) /\ e.task = t /\ e.kind = "started" /\ e.arg = n
        /\ x \in Notice(s) /\ x.task = t /\ x.kind = "active"
    BY <1>2, <2>2, <2>3, <2>4 DEF Notice, Mirror!Event, Mirror!Kinds, Mirror!Words
  <2>6. PICK d : d = [v1[t] EXCEPT !.turn = n]
    OBVIOUS
  <2>7. /\ d.turn = n /\ d.title = v1[t].title /\ d.archived = FALSE
        /\ v1' = [v1 EXCEPT ![t] = d]
        /\ d \in [turn : 0..s.turns, title : Nat, archived : BOOLEAN]
    BY <1>1, <1>2, <1>5, <2>1, <2>4, <2>6
  <2>8. "started" \in Mirror(s)!Words
    BY DEF Mirror!Words
  <2>9. v2' = Append(v2, e) \/ v2' = Append(Append(v2, x), e)
    <3>1. v2' = v2 \o <<>> \o <<e>> \/ v2' = v2 \o <<x>> \o <<e>>
      BY <1>5, <2>1, <2>2, <2>3
    <3>2. PICK E : E = Notice(s)
      OBVIOUS
    <3> QED BY <1>1, <2>5, <3>1, <3>2, SaidAfter
  <2>10. /\ Says(s, v2, v2', t) /\ Mirror(s)!EndsIn(v2', t, d)
         /\ Mirror(s)!Among(v2', t, Mirror(s)!Words) # {}
    <3>1. CASE v2' = Append(v2, e)
      <4>1. Mirror(s)!EndsIn(Append(v2, e), t, d)
        BY <1>1, <1>2, <1>3, <2>4, <2>5, <2>7, <2>8, EndsWhenSaid
      <4> QED BY <1>1, <1>2, <2>5, <2>8, <3>1, <4>1, SaysOne
    <3>2. CASE v2' = Append(Append(v2, x), e)
      <4>1. Mirror(s)!EndsIn(Append(Append(v2, x), e), t, d)
        BY <1>1, <1>2, <1>3, <2>4, <2>5, <2>7, <2>8, EndsWhenBothAreSaid
      <4>5. Says(s, v2, Append(v2, x), t)
        BY <1>1, <1>2, <2>5, SaysOne
      <4>2. Append(v2, x) \in Seq(Notice(s)) /\ Says(s, v2, Append(v2, x), t)
        BY <4>5 DEF Says
      <4>3. /\ Says(s, Append(v2, x), Append(Append(v2, x), e), t)
            /\ Mirror(s)!Among(Append(Append(v2, x), e), t, Mirror(s)!Words) # {}
        BY <1>2, <2>5, <2>8, <4>2, SaysOne
      <4> QED BY <1>2, <3>2, <4>1, <4>2, <4>3, SaysBoth
    <3> QED BY <2>9, <3>1, <3>2
  <2>11. \A u \in s.tasks : Mirror(s)!Known(u)' /\ Grows(s, u)
    BY <1>2, <2>7, <2>10, MirrorTells
  <2>12. /\ v1' \in [s.tasks -> [turn : 0..s.turns, title : Nat, archived : BOOLEAN]]
         /\ v1'[t].turn = n /\ v2' \in Seq(Notice(s))
    BY <1>1, <1>2, <2>7, <2>10 DEF Says
  <2>13. v6' \in [turns : 0..s.turns, calls : Nat, faults : Nat]
    BY <1>1, <1>5, <2>1, <2>4
  <2>14. Mirror(s)!Answered(p, n)
    BY <1>5, <2>1
  <2> QED BY <2>4, <2>11, <2>12, <2>13, <2>14, MirrorAnswers
<1>6. Short \/ Begun
  BY Zenon DEF Mirror!StartTurn, Mirror!Silent, Mirror!None
<1> HIDE DEF Begun, Short
<1> QED BY <1>4, <1>5, <1>6

\* Codex is told something, and says so.
LEMMA MirrorOrders ==
    ASSUME NEW s \in MirrorScopes, Mirror(s)!IInv, NEW p \in Mirror(s)!Threads,
           v5[p].at = "call", NEW t, t = v5[p].task, NEW arg \in Nat,
           NEW d \in [turn : 0..s.turns, title : Nat, archived : BOOLEAN], NEW e,
           e = Mirror(s)!Event(t, e.kind, e.arg), v3[t].exists,
           v1' = [v1 EXCEPT ![t] = d], v2' = Append(v2, e),
           UNCHANGED <<v3, v4, v6, v7, v8>>, Mirror(s)!Answered(p, arg),
           \/ /\ v5[p].job = "rename" /\ e.kind = "named" /\ e.arg = d.title /\ arg = d.title
              /\ d.turn = v1[t].turn /\ d.archived = v1[t].archived
           \/ /\ v5[p].job = "archive" /\ e.kind = "closed" /\ e.arg = 0 /\ d.turn = 0
              /\ d.title = v1[t].title
           \/ /\ v5[p].job = "open" /\ e.kind = "unarchived" /\ e.arg = 0 /\ v1[t].turn = 0
              /\ d.turn = 0 /\ d.title = v1[t].title
    PROVE  Mirror(s)!IInv'
<1>1. /\ Mirror(s)!Shape /\ Mirror(s)!TurnInv /\ v5[p].at # "none"
      /\ v1 \in [s.tasks -> [turn : 0..s.turns, title : Nat, archived : BOOLEAN]]
      /\ v2 \in Seq(Notice(s)) /\ v6 \in [turns : 0..s.turns, calls : Nat, faults : Nat]
      /\ s.turns \in Nat
  BY MirrorAssumption DEF Mirror!IInv, Mirror!Shape, Notice
<1>2. t \in s.tasks
  BY <1>1, HandlerHas
<1>3. /\ v1[t].turn \in 0..s.turns /\ Mirror(s)!EndsIn(v2, t, v1[t])
      /\ v1[t].archived => v1[t].turn = 0
  BY <1>1, <1>2 DEF Mirror!TurnInv, Mirror!Known, Mirror!None
<1>4. e \in Notice(s) /\ e.task = t
  <2>1. e.kind \in Mirror(s)!Kinds /\ e.arg \in Nat
    BY DEF Mirror!Kinds, Mirror!Words
  <2>2. PICK kind, more : e = [task |-> t, kind |-> kind, arg |-> more]
    BY DEF Mirror!Event
  <2> QED BY <1>2, <2>1, <2>2 DEF Notice
<1>5. "closed" \in Mirror(s)!Words /\ "named" \notin Mirror(s)!Words
  BY DEF Mirror!Words
<1>6. Mirror(s)!EndsIn(Append(v2, e), t, d)
  <2>1. 0 \in 0..s.turns
    BY <1>1
  <2>2. PICK c : c = v1[t]
    OBVIOUS
  <2>3. /\ Mirror(s)!EndsIn(v2, t, c)
        /\ \/ /\ e.task = t /\ e.kind \in Mirror(s)!Words
              /\ e.arg = d.turn /\ e.arg \in 0..s.turns /\ (e.arg = 0 <=> e.kind # "started")
              /\ d.title = c.title
           \/ /\ e.task = t /\ e.kind \in {"inactive", "unarchived"}
              /\ c.turn = 0 /\ d.turn = 0 /\ d.title = c.title
           \/ e.task = t /\ e.kind = "named" /\ e.arg = d.title /\ d.turn = c.turn
    BY <1>3, <1>4, <1>5, <2>1, <2>2
  <2> QED BY <1>1, <1>2, <1>4, <2>3, EndsWhenSaid
<1>7. /\ Says(s, v2, v2', t)
      /\ e.kind = "closed" => Mirror(s)!Among(v2', t, Mirror(s)!Words) # {}
      /\ e.kind = "named" => Mirror(s)!Among(v2', t, {"named"}) # {}
  <2>1. /\ Says(s, v2, Append(v2, e), t)
        /\ e.kind \in Mirror(s)!Words =>
             Mirror(s)!Among(Append(v2, e), t, Mirror(s)!Words) # {}
        /\ e.kind = "named" => Mirror(s)!Among(Append(v2, e), t, {"named"}) # {}
    BY <1>1, <1>2, <1>4, SaysOne
  <2>2. v2' = Append(v2, e)
    OBVIOUS
  <2> QED BY <1>5, <2>1, <2>2
<1>8. d.archived => d.turn = 0
  BY <1>3
<1>9. \A u \in s.tasks : Mirror(s)!Known(u)' /\ Grows(s, u)
  <2>1. /\ d.turn = v1[t].turn \/ Mirror(s)!Among(v2', t, Mirror(s)!Words) # {}
        /\ d.title = v1[t].title \/ Mirror(s)!Among(v2', t, {"named"}) # {}
        /\ v3' = v3 /\ Mirror(s)!EndsIn(v2', t, d)
    BY <1>6, <1>7
  <2> QED BY <1>2, <1>7, <1>8, <2>1, MirrorTells
<1>10. /\ v1' \in [s.tasks -> [turn : 0..s.turns, title : Nat, archived : BOOLEAN]]
       /\ v2' \in Seq(Notice(s)) /\ v6' \in [turns : 0..s.turns, calls : Nat, faults : Nat]
  BY <1>1, <1>2, <1>7 DEF Says
<1>11. /\ v5[p].job = "archive" => Mirror(s)!Spoken(t)'
       /\ v5[p].job = "rename" => Mirror(s)!Titled(t)'
  BY <1>7 DEF Mirror!Spoken, Mirror!Titled
<1>12. /\ v5[p].job \notin Mirror(s)!Asked
       /\ v5[p].job \notin {"dispatch", "resume", "reconcile"}
  BY DEF Mirror!Asked
<1>13. PICK h : h = v5[p]
  OBVIOUS
<1>14. /\ h.job \in Mirror(s)!Asked => arg \in 0..s.turns
       /\ h.job \in {"dispatch", "resume"} => arg # 0
       /\ h.job \in {"dispatch", "resume", "reconcile"} =>
            Mirror(s)!Spoken(t)' \/ arg = v1'[t].turn
       /\ h.job = "archive" => Mirror(s)!Spoken(t)'
       /\ h.job = "rename" => Mirror(s)!Titled(t)'
       /\ t = h.task /\ UNCHANGED <<v3, v4, v7, v8>>
  BY <1>11, <1>12, <1>13
<1> QED BY <1>1, <1>9, <1>10, <1>13, <1>14, MirrorAnswers

LEMMA MirrorCalls ==
    ASSUME NEW s \in MirrorScopes, Mirror(s)!IInv, NEW p \in Mirror(s)!Threads,
           Mirror(s)!Call(p)
    PROVE  Mirror(s)!IInv'
<1>1. PICK t : t = v5[p].task
  OBVIOUS
<1>2. /\ v5[p].at = "call" /\ v5[p].at # "none" /\ Mirror(s)!CallOf(p, v5[p], t)
      /\ v3' = v3 /\ v4' = v4 /\ v7' = v7 /\ v8' = v8
  BY <1>1 DEF Mirror!Call, Mirror!Here
<1>3. /\ Mirror(s)!Shape /\ Mirror(s)!TurnInv
      /\ v1 \in [s.tasks -> [turn : 0..s.turns, title : Nat, archived : BOOLEAN]]
      /\ v2 \in Seq(Notice(s)) /\ v6 \in [turns : 0..s.turns, calls : Nat, faults : Nat]
      /\ s.turns \in Nat
  BY MirrorAssumption DEF Mirror!IInv, Mirror!Shape, Notice
<1>4. /\ t \in s.tasks /\ (v5[p].job # "open" => v3[t].exists)
      /\ v5[p] \in Mirror(s)!Handlers /\ Mirror(s)!Fits(v5[p], DOMAIN v4)
  BY <1>1, <1>2, HandlerHas
<1>5. /\ v1[t].turn \in 0..s.turns /\ v1[t].turn \in Nat /\ v1[t].archived \in BOOLEAN
      /\ v1[t].title \in Nat /\ v1[t] \in [turn : 0..s.turns, title : Nat, archived : BOOLEAN]
      /\ v1[t].archived => v1[t].turn = 0 /\ v3[t].exists
  BY <1>3, <1>4 DEF Mirror!TurnInv, Mirror!Known, Mirror!None
<1>6. ASSUME v1' = v1, v2' = v2, v6' = v6, NEW arg \in Nat,
             \/ Mirror(s)!Refused(p)
             \/ /\ Mirror(s)!Answered(p, arg)
                /\ v5[p].job \in Mirror(s)!Asked => arg \in 0..s.turns
                /\ v5[p].job \in {"dispatch", "resume"} => arg # 0
                /\ v5[p].job \in {"dispatch", "resume", "reconcile"} => arg = v1[t].turn
                /\ v5[p].job \notin {"archive", "rename"}
      PROVE  Mirror(s)!IInv'
  <2>1. \A u \in s.tasks : Mirror(s)!Known(u)' /\ Grows(s, u)
    BY <1>2, <1>3, <1>6, MirrorMute DEF Mirror!TurnInv, Mirror!Known, Mirror!None
  <2> QED BY <1>1, <1>2, <1>3, <1>6, <2>1, MirrorAnswers
<1>7. ASSUME NEW expected, Mirror(s)!Steer(p, t, expected),
             v5[p].job \in {"dispatch", "follow"}
      PROVE  Mirror(s)!IInv'
  <2>1. CASE expected # 0 /\ v1[t].turn = expected
    BY <1>5, <1>6, <1>7, <2>1 DEF Mirror!Steer, Mirror!Silent, Mirror!None
  <2>2. CASE ~(expected # 0 /\ v1[t].turn = expected)
    BY <1>5, <1>6, <1>7, <2>2 DEF Mirror!Steer, Mirror!Silent, Mirror!None
  <2> QED BY <2>1, <2>2
<1>8. ASSUME v5[p].job \in {"dispatch", "resume"}, Mirror(s)!StartTurn(p, t)
      PROVE  Mirror(s)!IInv'
  BY <1>1, <1>2, <1>8, MirrorStarts
<1>9. CASE v5[p].job = "reconcile" /\ Mirror(s)!Answered(p, v1[t].turn) /\ Mirror(s)!Silent
           /\ UNCHANGED v6
  BY <1>5, <1>6, <1>9 DEF Mirror!Silent
<1>10. CASE /\ v5[p].job = "rename" /\ v1' = [v1 EXCEPT ![t].title = v5[p].arg]
            /\ v2' = Append(v2, Mirror(s)!Event(t, "named", v5[p].arg))
            /\ Mirror(s)!Answered(p, v5[p].arg) /\ UNCHANGED v6
  <2>1. PICK d : d = [v1[t] EXCEPT !.title = v5[p].arg]
    OBVIOUS
  <2>2. PICK e : e = Mirror(s)!Event(t, "named", v5[p].arg)
    OBVIOUS
  <2>3. v5[p].arg \in Nat
    BY <1>4 DEF Mirror!Handlers
  <2>4. /\ d \in [turn : 0..s.turns, title : Nat, archived : BOOLEAN]
        /\ d.title = v5[p].arg /\ d.turn = v1[t].turn /\ d.archived = v1[t].archived
        /\ v1' = [v1 EXCEPT ![t] = d]
    BY <1>5, <1>10, <2>1, <2>3
  <2>5. e.kind = "named" /\ e.arg = v5[p].arg /\ e = Mirror(s)!Event(t, e.kind, e.arg)
    BY <2>2 DEF Mirror!Event
  <2>6. v2' = Append(v2, e)
    BY <1>10, <2>2
  <2>8. /\ v5[p].job = "rename" /\ e.kind = "named" /\ e.arg = d.title /\ v5[p].arg = d.title
         /\ d.turn = v1[t].turn /\ d.archived = v1[t].archived
    BY <1>10, <2>3, <2>4, <2>5, <2>6
  <2>9. /\ UNCHANGED <<v3, v4, v6, v7, v8>> /\ Mirror(s)!Answered(p, v5[p].arg)
         /\ v3[t].exists /\ v5[p].arg \in Nat /\ v1' = [v1 EXCEPT ![t] = d]
    BY <1>2, <1>4, <1>10, <2>3, <2>4, <2>5, <2>6
  <2> QED BY <1>1, <1>2, <2>3, <2>4, <2>5, <2>6, <2>8, <2>9, MirrorOrders
<1>11. CASE /\ v5[p].job = "archive"
            /\ v1' = [v1 EXCEPT ![t].archived = TRUE, ![t].turn = 0]
            /\ v2' = Append(v2, Mirror(s)!Event(t, "closed", 0))
            /\ Mirror(s)!Answered(p, 0) /\ UNCHANGED v6
  <2>1. PICK d : d = [v1[t] EXCEPT !.archived = TRUE, !.turn = 0]
    OBVIOUS
  <2>2. PICK e : e = Mirror(s)!Event(t, "closed", 0)
    OBVIOUS
  <2>4. /\ d \in [turn : 0..s.turns, title : Nat, archived : BOOLEAN]
        /\ d.title = v1[t].title /\ d.turn = 0
    <3>1. PICK c : c = v1[t]
      OBVIOUS
    <3>2. c \in [turn : 0..s.turns, title : Nat, archived : BOOLEAN] /\ 0 \in 0..s.turns
      BY <1>3, <1>5, <3>1
    <3>3. d = [c EXCEPT !.archived = TRUE, !.turn = 0]
      BY <2>1, <3>1
    <3> QED BY <3>1, <3>2, <3>3
  <2>7. v1' = [v1 EXCEPT ![t] = d]
    BY <1>3, <1>4, <1>11, <2>1
  <2>5. e.kind = "closed" /\ e.arg = 0 /\ e = Mirror(s)!Event(t, e.kind, e.arg)
    BY <2>2 DEF Mirror!Event
  <2>6. v2' = Append(v2, e)
    BY <1>11, <2>2
  <2>8. /\ v5[p].job = "archive" /\ e.kind = "closed" /\ e.arg = 0 /\ d.turn = 0
         /\ d.title = v1[t].title
    BY <1>11, <2>4, <2>5, <2>6, <2>7
  <2>9. /\ UNCHANGED <<v3, v4, v6, v7, v8>> /\ Mirror(s)!Answered(p, 0)
         /\ v3[t].exists /\ 0 \in Nat /\ v1' = [v1 EXCEPT ![t] = d]
    BY <1>2, <1>4, <1>11, <2>4, <2>5, <2>6, <2>7
  <2> QED BY <1>1, <1>2, <2>4, <2>5, <2>6, <2>7, <2>8, <2>9, MirrorOrders
<1>12. CASE /\ v5[p].job = "open" /\ v1' = [v1 EXCEPT ![t].archived = FALSE]
            /\ v2' = IF v1[t].archived
                     THEN Append(v2, Mirror(s)!Event(t, "unarchived", 0)) ELSE v2
            /\ Mirror(s)!Answered(p, 0) /\ UNCHANGED v6
  <2>1. CASE v1[t].archived
    <3>1. PICK d : d = [v1[t] EXCEPT !.archived = FALSE]
      OBVIOUS
    <3>2. PICK e : e = Mirror(s)!Event(t, "unarchived", 0)
      OBVIOUS
    <3>3. /\ d \in [turn : 0..s.turns, title : Nat, archived : BOOLEAN]
          /\ d.title = v1[t].title /\ d.turn = v1[t].turn
          /\ v1' = [v1 EXCEPT ![t] = d]
      BY <1>5, <1>12, <3>1
    <3>4. e.kind = "unarchived" /\ e.arg = 0 /\ e = Mirror(s)!Event(t, e.kind, e.arg)
      BY <3>2 DEF Mirror!Event
    <3>5. v2' = Append(v2, e)
      BY <1>12, <2>1, <3>2
    <3>6. v1[t].turn = 0 /\ v3[t].exists
      BY <1>5, <2>1
    <3>8. /\ v5[p].job = "open" /\ e.kind = "unarchived" /\ e.arg = 0 /\ v1[t].turn = 0
           /\ d.turn = 0 /\ d.title = v1[t].title
      BY <1>12, <3>3, <3>4, <3>5, <3>6
    <3>9. /\ UNCHANGED <<v3, v4, v6, v7, v8>> /\ Mirror(s)!Answered(p, 0)
           /\ v3[t].exists /\ 0 \in Nat /\ v1' = [v1 EXCEPT ![t] = d]
      BY <1>2, <1>4, <1>12, <3>3, <3>4, <3>5, <3>6
    <3> QED BY <1>1, <1>2, <3>3, <3>4, <3>5, <3>6, <3>8, <3>9, MirrorOrders
  <2>2. CASE ~v1[t].archived
    <3>1. [v1[t] EXCEPT !.archived = FALSE] = v1[t]
      BY <1>5, <2>2
    <3>2. v1' = v1
      BY <1>3, <1>4, <1>12, <3>1
    <3>3. v5[p].job \notin Mirror(s)!Asked
      BY <1>12 DEF Mirror!Asked
    <3> QED BY <1>6, <1>12, <2>2, <3>2, <3>3
  <2> QED BY <2>1, <2>2
<1> QED
  <2>1. \/ v5[p].job \in {"dispatch", "follow"} /\ \E expected : Mirror(s)!Steer(p, t, expected)
        \/ v5[p].job \in {"dispatch", "resume"} /\ Mirror(s)!StartTurn(p, t)
        \/ v5[p].job \in {"rename", "archive", "open", "reconcile"}
    BY <1>2, Zenon DEF Mirror!CallOf
  <2>2. CASE v5[p].job \in {"rename", "archive", "open", "reconcile"}
    <3>1. CASE v5[p].job = "rename"
      BY <1>2, <1>10, <3>1 DEF Mirror!CallOf
    <3>2. CASE v5[p].job = "archive"
      BY <1>2, <1>11, <3>2 DEF Mirror!CallOf, Mirror!None
    <3>3. CASE v5[p].job = "open"
      BY <1>2, <1>12, <3>3 DEF Mirror!CallOf, Mirror!None
    <3>4. CASE v5[p].job = "reconcile"
      BY <1>2, <1>9, <3>4 DEF Mirror!CallOf
    <3> QED BY <2>2, <3>1, <3>2, <3>3, <3>4
  <2> QED BY <1>7, <1>8, <2>1, <2>2

\* The consumer places and writes, and creates nothing.
LEMMA ConsumerHas ==
    ASSUME NEW s \in MirrorScopes, NEW h, h.job \in Mirror(s)!Kinds,
           h.at \in Mirror(s)!Places(h.job)
    PROVE  /\ h.at \in {"place", "write"}
           /\ h.job \notin {"open", "rename", "archive", "dispatch", "resume", "reconcile"}
BY DEF Mirror!Kinds, Mirror!Words, Mirror!Places

\* A turn is over.
LEMMA MirrorEnds ==
    ASSUME NEW s \in MirrorScopes, Mirror(s)!IInv, NEW t \in s.tasks, Mirror(s)!TurnEnds(t)
    PROVE  Mirror(s)!IInv'
<1>1. /\ Mirror(s)!Shape /\ Mirror(s)!TurnInv /\ Mirror(s)!TitleInv /\ Mirror(s)!ChannelInv
      /\ v3' = v3 /\ v4' = v4 /\ v5' = v5 /\ v6' = v6 /\ v7' = v7 /\ v8' = v8
      /\ v1 \in [s.tasks -> [turn : 0..s.turns, title : Nat, archived : BOOLEAN]]
      /\ v2 \in Seq(Notice(s)) /\ s.turns \in Nat
  BY MirrorAssumption DEF Mirror!IInv, Mirror!Shape, Mirror!TurnEnds, Notice
<1>2. /\ Mirror(s)!EndsIn(v2, t, v1[t]) /\ v3[t].exists /\ v1[t].archived = FALSE
      /\ v1[t] \in [turn : 0..s.turns, title : Nat, archived : BOOLEAN] /\ v1[t].turn # 0
  BY <1>1 DEF Mirror!TurnInv, Mirror!Known, Mirror!None, Mirror!TurnEnds
<1>3. PICK d : d = [v1[t] EXCEPT !.turn = 0]
  OBVIOUS
<1>4. /\ d \in [turn : 0..s.turns, title : Nat, archived : BOOLEAN]
      /\ d.turn = 0 /\ d.title = v1[t].title /\ v1' = [v1 EXCEPT ![t] = d]
  <2>1. 0 \in 0..s.turns
    BY <1>1
  <2>2. v1' = [v1 EXCEPT ![t].turn = 0]
    BY DEF Mirror!TurnEnds, Mirror!None
  <2> QED BY <1>1, <1>2, <1>3, <2>1, <2>2
<1>5. PICK x : x = Mirror(s)!Event(t, "completed", 0)
  OBVIOUS
<1>6. PICK y : y = Mirror(s)!Event(t, "inactive", 0)
  OBVIOUS
<1>7. /\ x \in Notice(s) /\ x.task = t /\ x.kind = "completed" /\ x.arg = 0
      /\ y \in Notice(s) /\ y.task = t /\ y.kind = "inactive" /\ y.arg = 0
  BY <1>5, <1>6 DEF Notice, Mirror!Event, Mirror!Kinds, Mirror!Words
<1>8. \/ v2' = Append(v2, x) \/ v2' = Append(Append(v2, x), y)
      \/ v2' = Append(Append(v2, y), x)
  <2>1. v2' = v2 \o <<x>> \/ v2' = v2 \o <<x, y>> \/ v2' = v2 \o <<y, x>>
    BY <1>5, <1>6 DEF Mirror!TurnEnds, Mirror!None
  <2>2. PICK E : E = Notice(s)
    OBVIOUS
  <2> QED BY <1>1, <1>7, <2>1, <2>2, SaidAfter
<1>9. "completed" \in Mirror(s)!Words /\ 0 \in 0..s.turns
  BY <1>1 DEF Mirror!Words
<1>10. /\ Says(s, v2, v2', t) /\ Mirror(s)!EndsIn(v2', t, d)
       /\ Mirror(s)!Among(v2', t, Mirror(s)!Words) # {}
  <2>1. /\ Says(s, v2, Append(v2, x), t) /\ Mirror(s)!EndsIn(Append(v2, x), t, d)
        /\ Mirror(s)!Among(Append(v2, x), t, Mirror(s)!Words) # {}
    <3>1. Mirror(s)!EndsIn(Append(v2, x), t, d)
      BY <1>1, <1>2, <1>4, <1>7, <1>9, EndsWhenSaid
    <3> QED BY <1>1, <1>7, <1>9, <3>1, SaysOne
  <2>2. CASE v2' = Append(v2, x)
    BY <2>1, <2>2
  <2>3. CASE v2' = Append(Append(v2, x), y)
    <3>1. Append(v2, x) \in Seq(Notice(s))
      BY <2>1 DEF Says
    <3>2. /\ Says(s, Append(v2, x), v2', t)
          /\ Mirror(s)!EndsIn(v2', t, d)
      <4>1. Mirror(s)!EndsIn(Append(Append(v2, x), y), t, d)
        BY <1>4, <1>7, <2>1, <3>1, EndsWhenSaid
      <4>2. Says(s, Append(v2, x), Append(Append(v2, x), y), t)
        BY <1>7, <3>1, SaysOne
      <4> QED BY <2>3, <4>1, <4>2
    <3>3. Mirror(s)!Among(v2', t, Mirror(s)!Words) # {}
      BY <2>1, <3>2 DEF Says
    <3> QED BY <2>1, <3>2, <3>3, SaysBoth
  <2>4. CASE v2' = Append(Append(v2, y), x)
    <3>1. Says(s, v2, Append(v2, y), t)
      BY <1>1, <1>7, SaysOne
    <3>2. Append(v2, y) \in Seq(Notice(s))
      BY <3>1 DEF Says
    <3>3. /\ Says(s, Append(v2, y), Append(Append(v2, y), x), t)
          /\ Mirror(s)!Among(Append(Append(v2, y), x), t, Mirror(s)!Words) # {}
      BY <1>7, <1>9, <3>2, SaysOne
    <3>4. Mirror(s)!EndsIn(Append(Append(v2, y), x), t, d)
      BY <1>1, <1>2, <1>4, <1>7, <1>9, EndsWhenBothAreSaid
    <3> QED BY <2>4, <3>1, <3>3, <3>4, SaysBoth
  <2> QED BY <1>8, <2>2, <2>3, <2>4
<1>11. \A u \in s.tasks : Mirror(s)!Known(u)' /\ Grows(s, u)
  <2>1. /\ d.turn = v1[t].turn \/ Mirror(s)!Among(v2', t, Mirror(s)!Words) # {}
        /\ d.title = v1[t].title \/ Mirror(s)!Among(v2', t, {"named"}) # {}
        /\ d.archived => d.turn = 0
    BY <1>4, <1>10
  <2> QED BY <1>1, <1>2, <1>4, <1>10, <2>1, MirrorTells
<1>12. /\ v1' \in [s.tasks -> [turn : 0..s.turns, title : Nat, archived : BOOLEAN]]
       /\ v2' \in Seq(Notice(s))
  BY <1>1, <1>4, <1>10 DEF Says
<1>13. \A u \in s.tasks : Attends(s, u, Mirror(s)!Words) /\ Attends(s, u, {"named"})
  BY <1>1 DEF Attends
<1>14. PICK p : p = s.consumer
  OBVIOUS
<1>15. p \in Mirror(s)!Threads /\ Moved(s, p)
  BY <1>1, <1>14 DEF Moved, Mirror!Threads, Mirror!Shape
<1>16. Mirror(s)!TurnFits(p)' /\ Mirror(s)!TitleFits(p)'
  <2>1. Mirror(s)!TurnFits(p) /\ Mirror(s)!TitleFits(p)
    BY <1>1, <1>15 DEF Mirror!TurnInv, Mirror!TitleInv
  <2>2. PICK u : u = v5[p].task
    OBVIOUS
  <2>3. v5[p].at # "none" => TurnKept(s, u) /\ TitleKept(s, u)
    <3>1. v5[p].at # "none" => u \in s.tasks
      BY <1>15, <2>2, HandlerHas
    <3> QED BY <1>11, <1>13, <3>1, MirrorSpoken
  <2>4. v3'[u] = v3[u] /\ v8 \subseteq v8' /\ v5'[p] = v5[p]
    BY <1>1
  <2>5. Mirror(s)!TurnFits(p)'
    BY <1>1, <1>15, <2>1, <2>2, <2>3, <2>4, TurnOfOther
  <2> QED BY <1>1, <1>15, <2>1, <2>2, <2>3, <2>4, <2>5, TitleOfOther
<1>17. Mirror(s)!TurnInv' /\ Mirror(s)!TitleInv'
  BY <1>1, <1>11, <1>13, <1>15, <1>16, MirrorStill
<1>18. Mirror(s)!ChannelInv'
  BY <1>1 DEF Mirror!ChannelInv, Mirror!ChannelFits, Mirror!ChannelSits, Mirror!OfTask,
              Mirror!Creating, Mirror!Going, Mirror!Alive, Mirror!Busy, Mirror!Here
<1>19. Mirror(s)!Shape'
  BY <1>1, <1>12 DEF Mirror!Shape, Notice, Mirror!Busy
<1> QED BY <1>17, <1>18, <1>19 DEF Mirror!IInv

\* A notification leaves the queue.
LEMMA MirrorTaken ==
    ASSUME NEW s \in MirrorScopes, Mirror(s)!IInv, v2 # <<>>, v2' = Tail(v2),
           v1' = v1, v3' = v3, NEW e, e = Head(v2), NEW t \in s.tasks
    PROVE  /\ e \in Notice(s) /\ Tail(v2) \in Seq(Notice(s)) /\ v3[e.task].exists
           /\ Mirror(s)!Known(t)'
           /\ \A kinds \in {Mirror(s)!Words, {"named"}} :
                Mirror(s)!Among(v2, t, kinds) # {} =>
                   Mirror(s)!Among(v2', t, kinds) # {} \/ (e.task = t /\ e.kind \in kinds)
           /\ e.task # t => Grows(s, t)
<1>1. v2 \in Seq(Notice(s)) /\ \A u \in s.tasks : Mirror(s)!Known(u)
  BY DEF Mirror!IInv, Mirror!Shape, Mirror!TurnInv, Notice
<1>2. e \in Notice(s) /\ Tail(v2) \in Seq(Notice(s)) /\ e.task \in s.tasks
  <2>1. e \in Notice(s) /\ Tail(v2) \in Seq(Notice(s))
    BY <1>1, TaskOfFirst
  <2> QED BY <2>1 DEF Notice
<1>3. v3[e.task].exists
  <2>1. e.kind \in Mirror(s)!Kinds
    BY <1>2 DEF Notice
  <2>2. Mirror(s)!Among(v2, e.task, Mirror(s)!Kinds) # {}
    BY <1>1, <1>2, <2>1, TaskOfFirst
  <2> QED BY <1>1, <1>2, <2>2 DEF Mirror!Known
<1>4. Mirror(s)!EndsIn(Tail(v2), t, v1[t])
  BY <1>1, EndsWhenTaken DEF Mirror!Known
<1>5. \A n \in Mirror(s)!Among(v2', t, Mirror(s)!Kinds) :
         n + 1 \in Mirror(s)!Among(v2, t, Mirror(s)!Kinds)
  BY <1>1, TaskOfFirst
<1>6. Mirror(s)!Known(t)'
  <2>1. Mirror(s)!Known(t) /\ Mirror(s)!EndsIn(v2', t, v1'[t])
    BY <1>1, <1>4
  <2> QED BY <1>5, <2>1 DEF Mirror!Known
<1>7. ASSUME NEW kinds \in {Mirror(s)!Words, {"named"}},
             Mirror(s)!Among(v2, t, kinds) # {}
      PROVE  Mirror(s)!Among(v2', t, kinds) # {} \/ (e.task = t /\ e.kind \in kinds)
  BY <1>1, <1>7, TaskOfFirst
<1>8. e.task # t => Grows(s, t)
  BY <1>7 DEF Grows
<1> QED BY <1>2, <1>3, <1>6, <1>7, <1>8

\* What the consumer was too slow for is lost.
LEMMA MirrorLoses ==
    ASSUME NEW s \in MirrorScopes, Mirror(s)!IInv, Mirror(s)!Overrun
    PROVE  Mirror(s)!IInv'
<1>1. /\ Mirror(s)!Shape /\ Mirror(s)!TurnInv /\ Mirror(s)!TitleInv /\ Mirror(s)!ChannelInv
      /\ v1' = v1 /\ v3' = v3 /\ v4' = v4 /\ v2 # <<>> /\ v2' = Tail(v2)
  BY DEF Mirror!IInv, Mirror!Overrun
<1>2. PICK e : e = Head(v2)
  OBVIOUS
<1>3. PICK p : p = s.consumer
  OBVIOUS
<1>4. p \in Mirror(s)!Threads
  BY <1>3 DEF Mirror!Threads
<1>5. /\ v7' = v7 \cup {e.task} /\ v8' = v8 \cup {e.task}
      /\ v5' = Mirror(s)!Aged(p, e.task, v5[p])
  BY <1>2, <1>3 DEF Mirror!Overrun
<1>6. /\ Moved(s, p) /\ v5'[p] = v5[p]
      /\ \A q \in Mirror(s)!Threads \ {p} :
           v5'[q] = v5[q] /\ v5[q] # Stale(v5[q]) /\ v5[q].at # "none" => v5[q].task # e.task
  <2>1. Mirror(s)!Rested(v5[p]) = v5[p]
    BY <1>1, <1>4, MirrorThreads DEF Mirror!Rested
  <2> QED BY <1>1, <1>4, <1>5, <2>1, MirrorAged
<1>7. \A t \in s.tasks : e \in Notice(s) /\ v3[e.task].exists /\ Mirror(s)!Known(t)' /\
            (e.task # t => Grows(s, t)) /\ Tail(v2) \in Seq(Notice(s))
  BY <1>1, <1>2, MirrorTaken
<1>8. \A t \in s.tasks : Attends(s, t, Mirror(s)!Words) /\ Attends(s, t, {"named"})
  BY <1>3, <1>6 DEF Attends
<1>9. \A t \in s.tasks : e.task # t => TurnKept(s, t) /\ TitleKept(s, t)
  BY <1>7, <1>8, MirrorSpoken
<1>10. ASSUME NEW t \in s.tasks \ v7' PROVE Mirror(s)!TurnHeard(t)' /\ Mirror(s)!TurnSits(t)'
  <2>1. Mirror(s)!TurnHeard(t) /\ Mirror(s)!TurnSits(t) /\ e.task # t
    BY <1>1, <1>5 DEF Mirror!TurnInv
  <2>2. Grows(s, t) /\ Attends(s, t, Mirror(s)!Words) /\ TurnKept(s, t)
    BY <1>7, <1>8, <1>9, <2>1
  <2>3. Mirror(s)!TurnHeard(t)'
    BY <2>1, <2>2, TurnHeardStill
  <2> QED BY <1>1, <2>1, <2>2, <2>3, TurnSitsStill
<1>11. ASSUME NEW t \in s.tasks \ v8' PROVE Mirror(s)!TitleSits(t)'
  <2>1. Mirror(s)!TitleSits(t) /\ e.task # t
    BY <1>1, <1>5 DEF Mirror!TitleInv
  <2>2. Grows(s, t) /\ Attends(s, t, {"named"})
    BY <1>7, <1>8, <2>1
  <2> QED BY <1>1, <2>1, <2>2, TitleOfTask
<1>12. \A q \in Mirror(s)!Threads : v5[q].at # "none" => v5[q].task \in s.tasks
  BY <1>1, MirrorThreads, FitsHas
<1>13. \A q \in Mirror(s)!Threads \ {p} :
           v5'[q] = v5[q] /\ v5[q] # Stale(v5[q]) /\ v5[q].at # "none" =>
              /\ v3'[v5[q].task] = v3[v5[q].task]
              /\ TurnKept(s, v5[q].task) /\ TitleKept(s, v5[q].task)
  <2> SUFFICES ASSUME NEW q \in Mirror(s)!Threads \ {p},
                      v5'[q] = v5[q], v5[q] # Stale(v5[q]), v5[q].at # "none"
               PROVE  /\ v3'[v5[q].task] = v3[v5[q].task]
                      /\ TurnKept(s, v5[q].task) /\ TitleKept(s, v5[q].task)
    OBVIOUS
  <2>1. PICK t : t = v5[q].task
    OBVIOUS
  <2>2. t \in s.tasks /\ t # e.task
    BY <1>6, <1>12, <2>1
  <2>3. TurnKept(s, t) /\ TitleKept(s, t)
    BY <1>9, <2>2
  <2> QED BY <1>1, <2>1, <2>3
<1>14. PICK h : h = v5[p]
  OBVIOUS
<1>15. h.at # "none" =>
          /\ h.job \in Mirror(s)!Kinds /\ h.at \in Mirror(s)!Places(h.job) /\ h.task \in s.tasks
          /\ h.at \in {"place", "write"}
          /\ h.job \notin {"open", "rename", "archive", "dispatch", "resume", "reconcile"}
  <2>1. h.at # "none" =>
          h.job \in Mirror(s)!Kinds /\ h.at \in Mirror(s)!Places(h.job) /\ h.task \in s.tasks
    BY <1>3, <1>4, <1>14, HandlerHas
  <2> QED BY <2>1, ConsumerHas
<1>16. Mirror(s)!TurnFits(p)' /\ Mirror(s)!TitleFits(p)'
  <2>1. Mirror(s)!TurnFits(p)
    BY <1>1, <1>4 DEF Mirror!TurnInv
  <2>2. Mirror(s)!TitleFits(p)'
    BY <1>6, <1>14, <1>15 DEF Mirror!TitleFits, Mirror!Busy
  <2>3. Mirror(s)!TurnFits(p)'
    BY <1>1, <1>6, <1>14, <1>15, <2>1 DEF Mirror!TurnFits, Mirror!Busy
  <2> QED BY <2>2, <2>3
<1>17. v8 \subseteq v8' /\ v7 \subseteq v7'
  BY <1>5
<1>18. Mirror(s)!TurnInv' /\ Mirror(s)!TitleInv'
  BY <1>1, <1>4, <1>6, <1>7, <1>10, <1>11, <1>13, <1>16, <1>17, MirrorKeeps
<1>19. Mirror(s)!ChannelInv'
  <2>1. /\ ~Mirror(s)!Creating(p) /\ ~Mirror(s)!Creating(p)'
        /\ v5[p].at # "detach" /\ v5'[p].at # "detach"
        /\ v5'[p].at # "none" => v5[p].at # "none" /\ v5'[p].task = v5[p].task
             /\ v5'[p].copy.channel_id = v5[p].copy.channel_id /\ v5'[p].task \in s.tasks
             /\ v5'[p].job # "open"
    BY <1>6, <1>14, <1>15 DEF Mirror!Creating, Mirror!Here
  <2> QED BY <1>1, <1>4, <1>6, <1>17, <2>1, ChannelStill
<1>20. Mirror(s)!Shape'
  <2>1. v6' \in [turns : 0..s.turns, calls : Nat, faults : Nat]
    BY MirrorFault DEF Mirror!Overrun
  <2>2. e.task \in s.tasks /\ Tail(v2) \in Seq(Notice(s))
    <3>1. v2 \in Seq(Notice(s))
      BY <1>1 DEF Mirror!Shape, Notice
    <3>2. e \in Notice(s) /\ Tail(v2) \in Seq(Notice(s))
      BY <1>1, <1>2, <3>1
    <3> QED BY <3>2 DEF Notice
  <2>3. /\ v1' \in [s.tasks -> [turn : 0..s.turns, title : Nat, archived : BOOLEAN]]
        /\ v3' \in [s.tasks -> Mirror(s)!Row]
        /\ \A t \in s.tasks : v3'[t].channel_id \in {0} \cup DOMAIN v4'
        /\ v4' \in Seq([task : s.tasks, category : {"running", "done"}, alive : BOOLEAN])
        /\ Len(v4') <= s.created
    BY <1>1 DEF Mirror!Shape, Mirror!None
  <2>4. v7' \subseteq s.tasks /\ v8' \subseteq s.tasks
    BY <1>1, <1>5, <2>2 DEF Mirror!Shape
  <2>5. /\ v5'[p] = Mirror(s)!Idle \/ Mirror(s)!Fits(v5'[p], DOMAIN v4')
        /\ v5'[p].at # "none" => (v5'[p].job \in Mirror(s)!Kinds <=> p = s.consumer)
    BY <1>1, <1>4, <1>6, MirrorThreads
  <2> QED BY <1>1, <1>4, <1>6, <2>1, <2>2, <2>3, <2>4, <2>5, MirrorShape
<1> QED BY <1>18, <1>19, <1>20 DEF Mirror!IInv

\* The consumer takes a notification.
LEMMA MirrorReceives ==
    ASSUME NEW s \in MirrorScopes, Mirror(s)!IInv, Mirror(s)!Receive
    PROVE  Mirror(s)!IInv'
<1>1. /\ Mirror(s)!Shape /\ Mirror(s)!TurnInv /\ Mirror(s)!TitleInv /\ Mirror(s)!ChannelInv
      /\ v1' = v1 /\ v3' = v3 /\ v4' = v4 /\ v6' = v6 /\ v7' = v7 /\ v8' = v8
      /\ v2 # <<>> /\ v2' = Tail(v2) /\ v2 \in Seq(Notice(s))
  BY DEF Mirror!IInv, Mirror!Receive, Mirror!Shape, Notice
<1>2. PICK e : e = Head(v2)
  OBVIOUS
<1>3. PICK p : p = s.consumer
  OBVIOUS
<1>4. p \in Mirror(s)!Threads /\ v5[p].at = "none"
  BY <1>3 DEF Mirror!Threads, Mirror!Receive, Mirror!Busy
<1>5. e \in Notice(s) /\ e.task \in s.tasks /\ e.kind \in Mirror(s)!Kinds /\ e.arg \in Nat
      /\ Tail(v2) \in Seq(Notice(s))
  <2>1. e \in Notice(s) /\ Tail(v2) \in Seq(Notice(s))
    BY <1>1, <1>2
  <2> QED BY <2>1 DEF Notice
<1>6. \A t \in s.tasks : /\ Mirror(s)!Known(t)' /\ v3[e.task].exists
            /\ \A kinds \in {Mirror(s)!Words, {"named"}} :
                Mirror(s)!Among(v2, t, kinds) # {} =>
                   Mirror(s)!Among(v2', t, kinds) # {} \/ (e.task = t /\ e.kind \in kinds)
  BY <1>1, <1>2, MirrorTaken
<1>7. PICK k : k = Mirror(s)!Handler(e.kind, e.task, e.arg)
  OBVIOUS
<1>8. /\ k.at = Mirror(s)!First(e.kind) /\ k.job = e.kind /\ k.task = e.task
      /\ k.copy = v3[e.task] /\ k.arg = e.arg /\ k.fresh = TRUE /\ k.recent = TRUE
      /\ k.doomed = {}
  BY <1>7 DEF Mirror!Handler
<1>9. e.kind \in Mirror(s)!Words \cup {"named"} => Mirror(s)!Go(p, k)
  BY <1>2, <1>3, <1>5, <1>6, <1>7 DEF Mirror!Receive, Mirror!Words
<1>10. Mirror(s)!Go(p, k) \/ Mirror(s)!Go(p, Mirror(s)!Idle)
  BY <1>2, <1>3, <1>7 DEF Mirror!Receive
<1>11. /\ k.at \in Mirror(s)!Places(e.kind) /\ k.at # "none" /\ k.at \in Mirror(s)!Steps
       /\ e.kind \in Mirror(s)!Jobs
  <2>1. e.kind \in Mirror(s)!Jobs /\ Mirror(s)!Places(e.kind) # {}
    BY <1>5 DEF Mirror!Kinds, Mirror!Words, Mirror!Jobs, Mirror!Places
  <2>2. PICK at : at \in Mirror(s)!Places(e.kind)
    BY <2>1
  <2>3. Mirror(s)!First(e.kind) \in Mirror(s)!Places(e.kind)
    BY <2>1, <2>2, MirrorThen
  <2> QED BY <1>8, <2>1, <2>3, MirrorThen
<1>12. /\ k.at \in {"place", "write"}
       /\ k.job \notin {"open", "rename", "archive", "dispatch", "resume", "reconcile"}
  BY <1>5, <1>8, <1>11, ConsumerHas
<1>13. ASSUME NEW t \in s.tasks
       PROVE  e.task = t =>
                /\ e.kind \in Mirror(s)!Words =>
                     /\ e.arg \in 0..s.turns
                     /\ e.arg = 0 <=> e.kind # "started"
                     /\ Mirror(s)!Among(v2', t, Mirror(s)!Words) = {} => e.arg = v1'[t].turn
                /\ e.kind = "active" => Mirror(s)!Among(v2', t, Mirror(s)!Words) # {}
                /\ e.kind \in {"inactive", "unarchived"}
                     /\ Mirror(s)!Among(v2', t, Mirror(s)!Words) = {} => v1'[t].turn = 0
                /\ e.kind = "named" /\ Mirror(s)!Among(v2', t, {"named"}) = {} =>
                     e.arg = v1'[t].title
  <2>1. Mirror(s)!EndsIn(v2, t, v1[t])
    BY <1>1 DEF Mirror!TurnInv, Mirror!Known
  <2> QED BY <1>1, <1>2, <2>1, EndsWhenTaken
<1>14. /\ Moved(s, p) /\ \A q \in Mirror(s)!Threads \ {p} : v5'[q] = v5[q]
       /\ v5'[p] = k \/ v5'[p] = Mirror(s)!Idle
       /\ e.kind \in Mirror(s)!Words \cup {"named"} => v5'[p] = k
  <2>1. Mirror(s)!Rested(k) = k /\ Mirror(s)!Rested(Mirror(s)!Idle) = Mirror(s)!Idle
    BY <1>11 DEF Mirror!Rested, Mirror!Idle
  <2>2. ASSUME Mirror(s)!Go(p, k)
        PROVE  Moved(s, p) /\ v5'[p] = k /\ \A q \in Mirror(s)!Threads \ {p} : v5'[q] = v5[q]
    BY <1>1, <1>4, <2>1, <2>2, MirrorGo
  <2>3. ASSUME Mirror(s)!Go(p, Mirror(s)!Idle)
        PROVE  /\ Moved(s, p) /\ v5'[p] = Mirror(s)!Idle
               /\ \A q \in Mirror(s)!Threads \ {p} : v5'[q] = v5[q]
    BY <1>1, <1>4, <2>1, <2>3, MirrorGo
  <2> QED BY <1>9, <1>10, <2>2, <2>3
<1>15. ASSUME NEW t \in s.tasks PROVE TurnKept(s, t) /\ TitleKept(s, t)
  <2>1. Mirror(s)!Spoken(t) => Mirror(s)!Spoken(t)'
    <3> SUFFICES ASSUME Mirror(s)!Spoken(t) PROVE Mirror(s)!Spoken(t)'
      OBVIOUS
    <3>1. Mirror(s)!Among(v2, t, Mirror(s)!Words) # {}
      BY <1>3, <1>4 DEF Mirror!Spoken, Mirror!Hearing, Mirror!Busy
    <3>2. CASE Mirror(s)!Among(v2', t, Mirror(s)!Words) # {}
      BY <3>2 DEF Mirror!Spoken
    <3>3. CASE Mirror(s)!Among(v2', t, Mirror(s)!Words) = {}
      <4>1. e.task = t /\ e.kind \in Mirror(s)!Words
        BY <1>6, <3>1, <3>3
      <4>2. v5'[s.consumer] = k /\ k.arg = v1'[t].turn
        BY <1>3, <1>8, <1>13, <1>14, <3>3, <4>1
      <4> QED BY <1>8, <1>11, <4>1, <4>2 DEF Mirror!Spoken, Mirror!Hearing, Mirror!Busy
    <3> QED BY <3>2, <3>3
  <2>2. Mirror(s)!Titled(t) => Mirror(s)!Titled(t)'
    <3> SUFFICES ASSUME Mirror(s)!Titled(t) PROVE Mirror(s)!Titled(t)'
      OBVIOUS
    <3>1. Mirror(s)!Among(v2, t, {"named"}) # {}
      BY <1>3, <1>4 DEF Mirror!Titled, Mirror!Hearing, Mirror!Busy
    <3>2. CASE Mirror(s)!Among(v2', t, {"named"}) # {}
      BY <3>2 DEF Mirror!Titled
    <3>3. CASE Mirror(s)!Among(v2', t, {"named"}) = {}
      <4>1. e.task = t /\ e.kind = "named"
        BY <1>6, <3>1, <3>3
      <4>2. v5'[s.consumer] = k
        BY <1>3, <1>14, <4>1
      <4> QED BY <1>8, <1>11, <4>1, <4>2 DEF Mirror!Titled, Mirror!Hearing, Mirror!Busy
    <3> QED BY <3>2, <3>3
  <2> QED BY <1>1, <2>1, <2>2 DEF TurnKept, TitleKept
<1>16. ASSUME NEW t \in s.tasks \ v7' PROVE Mirror(s)!TurnHeard(t)' /\ Mirror(s)!TurnSits(t)'
  <2>1. Mirror(s)!TurnSits(t) /\ TurnKept(s, t)
    BY <1>1, <1>15 DEF Mirror!TurnInv
  <2>2. Mirror(s)!TurnSits(t)'
    BY <1>1, <2>1, TurnSitsStill
  <2>3. Mirror(s)!TurnHeard(t)'
    <3>1. CASE v5'[p] = Mirror(s)!Idle
      BY <1>3, <3>1 DEF Mirror!TurnHeard, Mirror!Hearing, Mirror!Busy, Mirror!Idle
    <3>2. CASE v5'[p] = k /\ k.task # t
      BY <1>3, <3>2 DEF Mirror!TurnHeard, Mirror!Hearing
    <3>3. CASE v5'[p] = k /\ e.task = t
      <4>1. /\ e.kind \in Mirror(s)!Words /\ Mirror(s)!Among(v2', t, Mirror(s)!Words) = {} =>
                 e.arg = v1'[t].turn
            /\ e.kind \in {"active"} => Mirror(s)!Among(v2', t, Mirror(s)!Words) # {}
            /\ e.kind \in {"inactive", "unarchived"}
                 /\ Mirror(s)!Among(v2', t, Mirror(s)!Words) = {} => v1'[t].turn = 0
        BY <1>13, <3>3
      <4>2. v5'[s.consumer].job = e.kind /\ v5'[s.consumer].arg = e.arg
        BY <1>3, <1>8, <3>3
      <4> QED BY <4>1, <4>2, Zenon DEF Mirror!TurnHeard, Mirror!Hearing, Mirror!None
    <3> QED BY <1>8, <1>14, <3>1, <3>2, <3>3
  <2> QED BY <2>2, <2>3
<1>17. ASSUME NEW t \in s.tasks \ v8' PROVE Mirror(s)!TitleSits(t)'
  <2>1. Mirror(s)!TitleSits(t) /\ TitleKept(s, t)
    BY <1>1, <1>15 DEF Mirror!TitleInv
  <2>2. v3'[t].exists /\ ~Mirror(s)!Titled(t)' => v3'[t].title = v1'[t].title
    BY <1>1, <2>1 DEF Mirror!TitleSits, TitleKept
  <2>3. Mirror(s)!Hearing(t, {"named"})' /\ Mirror(s)!Among(v2', t, {"named"}) = {} =>
           v5'[p].arg = v1'[t].title
    BY <1>3, <1>8, <1>13, <1>14 DEF Mirror!Hearing, Mirror!Busy, Mirror!Idle
  <2> QED BY <1>3, <2>2, <2>3 DEF Mirror!TitleSits
<1>18. \A q \in Mirror(s)!Threads : v5[q].at # "none" => v5[q].task \in s.tasks
  BY <1>1, MirrorThreads, FitsHas
<1>19. \A q \in Mirror(s)!Threads \ {p} :
           v5'[q] = v5[q] /\ v5[q] # Stale(v5[q]) /\ v5[q].at # "none" =>
              /\ v3'[v5[q].task] = v3[v5[q].task]
              /\ TurnKept(s, v5[q].task) /\ TitleKept(s, v5[q].task)
  BY <1>1, <1>15, <1>18
<1>20. Mirror(s)!TurnFits(p)' /\ Mirror(s)!TitleFits(p)' /\ ~Mirror(s)!Creating(p)'
  <2>1. CASE v5'[p] = Mirror(s)!Idle
    BY <2>1 DEF Mirror!TurnFits, Mirror!TitleFits, Mirror!Creating, Mirror!Busy, Mirror!Here,
                Mirror!Idle
  <2>2. CASE v5'[p] = k
    <3>1. k.job # "open" => v3'[k.task].exists /\ k.copy.exists
      BY <1>1, <1>5, <1>6, <1>8
    <3>2. k.copy = v3'[k.task]
      BY <1>1, <1>8
    <3>3. Mirror(s)!TurnFits(p)'
      BY <1>12, <2>2, <3>1, <3>2 DEF Mirror!TurnFits
    <3> QED BY <1>12, <2>2, <3>3 DEF Mirror!TitleFits, Mirror!Creating, Mirror!Here
  <2> QED BY <1>14, <2>1, <2>2
<1>21. Mirror(s)!TurnInv' /\ Mirror(s)!TitleInv'
  BY <1>1, <1>4, <1>6, <1>14, <1>16, <1>17, <1>19, <1>20, MirrorKeeps
<1>22. Mirror(s)!ChannelInv'
  <2>1. /\ ~Mirror(s)!Creating(p) /\ v5[p].at # "detach" /\ v5'[p].at # "detach"
        /\ v5'[p].at # "none" => v5'[p].copy.channel_id \in {0, v3[v5'[p].task].channel_id}
             /\ v5'[p].job # "open" /\ v5'[p].task \in s.tasks
    BY <1>4, <1>5, <1>8, <1>12, <1>14 DEF Mirror!Creating, Mirror!Here, Mirror!Idle
  <2> QED BY <1>1, <1>4, <1>14, <1>20, <2>1, ChannelStill
<1>23. Mirror(s)!Shape'
  <2>1. /\ v1' \in [s.tasks -> [turn : 0..s.turns, title : Nat, archived : BOOLEAN]]
        /\ v3' \in [s.tasks -> Mirror(s)!Row]
        /\ \A t \in s.tasks : v3'[t].channel_id \in {0} \cup DOMAIN v4'
        /\ v4' \in Seq([task : s.tasks, category : {"running", "done"}, alive : BOOLEAN])
        /\ Len(v4') <= s.created /\ v7' \subseteq s.tasks /\ v8' \subseteq s.tasks
        /\ v6' \in [turns : 0..s.turns, calls : Nat, faults : Nat]
    BY <1>1 DEF Mirror!Shape, Mirror!None
  <2>2. k \in Mirror(s)!Handlers
    BY <1>5, <1>7, <1>11, <2>1, <1>1 DEF Mirror!Handler, Mirror!Handlers
  <2>3. e.kind \in Mirror(s)!Asked => e.kind \in Mirror(s)!Words
    BY <1>8, <1>12 DEF Mirror!Asked, Mirror!Words
  <2>4. Mirror(s)!Fits(k, DOMAIN v4')
    BY <1>1, <1>5, <1>8, <1>11, <1>12, <1>13, <2>1, <2>2, <2>3 DEF Mirror!Fits, Mirror!None
  <2>5. /\ v5'[p] = Mirror(s)!Idle \/ Mirror(s)!Fits(v5'[p], DOMAIN v4')
        /\ v5'[p].at # "none" => (v5'[p].job \in Mirror(s)!Kinds <=> p = s.consumer)
    BY <1>3, <1>5, <1>8, <1>14, <2>4 DEF Mirror!Idle
  <2> QED BY <1>1, <1>4, <1>5, <1>14, <2>1, <2>5, MirrorShape
<1> QED BY <1>21, <1>22, <1>23 DEF Mirror!IInv

\* Channels that go, and rows that no longer have one.
LEMMA MirrorCuts ==
    ASSUME NEW s \in MirrorScopes, Mirror(s)!IInv, NEW p \in Mirror(s)!Threads, Moved(s, p),
           v1' = v1, v2' = v2, v7' = v7, v8 \subseteq v8', v8' \subseteq s.tasks,
           v3' \in [s.tasks -> Mirror(s)!Row],
           v4' \in Seq([task : s.tasks, category : {"running", "done"}, alive : BOOLEAN]),
           Len(v4') <= s.created, DOMAIN v4' = DOMAIN v4,
           v6' \in [turns : 0..s.turns, calls : Nat, faults : Nat],
           \A t \in s.tasks :
              /\ v3'[t].exists = v3[t].exists /\ v3'[t].turn_id = v3[t].turn_id
              /\ v3'[t].state = v3[t].state /\ v3'[t].title = v3[t].title
              /\ v3'[t].channel_id \in {v3[t].channel_id, 0},
           \A q \in Mirror(s)!Threads \ {p} :
              v5'[q] = v5[q] /\ v5[q] # Stale(v5[q]) /\ v5[q].at # "none" =>
                 v3'[v5[q].task] = v3[v5[q].task],
           \A c \in DOMAIN v4 : v4'[c].task = v4[c].task /\ (v4'[c].alive => v4[c].alive),
           ~Mirror(s)!Creating(p), ~Mirror(s)!Creating(p)',
           \A t \in s.tasks : Attends(s, t, Mirror(s)!Words) /\ Attends(s, t, {"named"}),
           Mirror(s)!TurnFits(p)', Mirror(s)!TitleFits(p)', Mirror(s)!ChannelFits(p)',
           v5'[p] = Mirror(s)!Idle \/ Mirror(s)!Fits(v5'[p], DOMAIN v4),
           v5'[p].at # "none" => (v5'[p].job \in Mirror(s)!Kinds <=> p = s.consumer),
           v5'[p].at # "none" =>
              v5[p].at # "none" /\ v5'[p].copy.channel_id \in {v5[p].copy.channel_id, 0},
           \A c \in DOMAIN v4 :
              v4[c].task \notin v8' /\ (Mirror(s)!Alive(c) \/ Mirror(s)!Going(c)) =>
                 \/ Mirror(s)!Alive(c)' \/ Mirror(s)!Going(c)'
                 \/ /\ \A u \in s.tasks : v3'[u].channel_id # c
                    /\ \A q \in Mirror(s)!Threads : Mirror(s)!Creating(q) => v5[q].arg # c,
           \A u \in s.tasks \ v8' :
              v3'[u].channel_id = v3[u].channel_id \/ ~v4'[v3[u].channel_id].alive
    PROVE  Mirror(s)!IInv'
<1>1. /\ Mirror(s)!Shape /\ Mirror(s)!TurnInv /\ Mirror(s)!TitleInv /\ Mirror(s)!ChannelInv
      /\ \A t \in s.tasks : v3[t].channel_id \in {0} \cup DOMAIN v4
  BY DEF Mirror!IInv, Mirror!Shape, Mirror!None
<1>2. \A t \in s.tasks : Mirror(s)!Known(t)' /\ Grows(s, t)
  BY <1>1, MirrorMute DEF Mirror!TurnInv, Mirror!Known, Mirror!None
<1>3. Mirror(s)!TurnInv' /\ Mirror(s)!TitleInv'
  BY <1>1, <1>2, MirrorStill
<1>4. \A t \in s.tasks : Mirror(s)!OfTask(v3[t].channel_id, t)'
  <2> SUFFICES ASSUME NEW t \in s.tasks
               PROVE  v3'[t].channel_id # 0 => v4'[v3'[t].channel_id].task = t
    BY DEF Mirror!OfTask, Mirror!None
  <2>1. v3[t].channel_id # 0 => v4[v3[t].channel_id].task = t
    BY <1>1 DEF Mirror!ChannelInv, Mirror!OfTask, Mirror!None
  <2> QED BY <1>1, <2>1
<1>5. ASSUME NEW q \in Mirror(s)!Threads \ {p}, Mirror(s)!Creating(q), NEW c, c = v5[q].arg
      PROVE  /\ c \in DOMAIN v4 /\ v4[c].task = v5[q].task /\ c # 0
             /\ \A u \in s.tasks : v3[u].channel_id # c
             /\ v5[p].at # "none" => v5[p].copy.channel_id # c
             /\ v5[q].task \notin v8 => Mirror(s)!Alive(c) \/ Mirror(s)!Going(c)
  <2>1. v5[q].at = "write" /\ v5[q].job = "open" /\ v5[q].at # "none"
    BY <1>5 DEF Mirror!Creating, Mirror!Here
  <2>2. Mirror(s)!Fits(v5[q], DOMAIN v4)
    BY <1>1, <2>1, MirrorThreads
  <2>3. c \in DOMAIN v4
    BY <1>5, <2>1, <2>2 DEF Mirror!Fits
  <2>4. Mirror(s)!ChannelFits(q)
    BY <1>1 DEF Mirror!ChannelInv
  <2>5. /\ Mirror(s)!OfTask(c, v5[q].task) /\ c # 0
        /\ \A u \in s.tasks : v3[u].channel_id # c
        /\ v5[p].at # "none" => v5[p].copy.channel_id # c
        /\ v5[q].task \notin v8 => Mirror(s)!Alive(c) \/ Mirror(s)!Going(c)
    BY <1>5, <2>1, <2>4 DEF Mirror!ChannelFits, Mirror!Busy, Mirror!None
  <2> QED BY <2>3, <2>5 DEF Mirror!OfTask, Mirror!None
<1>6. ASSUME NEW q \in Mirror(s)!Threads \ {p}, Mirror(s)!Creating(q)
      PROVE  /\ \A u \in s.tasks : v3'[u].channel_id # v5[q].arg
             /\ v5'[p].at # "none" =>
                  /\ v5'[p].copy.channel_id # v5[q].arg
                  /\ Mirror(s)!Creating(p)' => v5'[p].arg # v5[q].arg
             /\ v5[q].task \notin v8' =>
                  Mirror(s)!Alive(v5[q].arg)' \/ Mirror(s)!Going(v5[q].arg)'
  <2>1. PICK c : c = v5[q].arg
    OBVIOUS
  <2>2. /\ c \in DOMAIN v4 /\ v4[c].task = v5[q].task /\ c # 0
        /\ \A u \in s.tasks : v3[u].channel_id # c
        /\ v5[p].at # "none" => v5[p].copy.channel_id # c
        /\ v5[q].task \notin v8 => Mirror(s)!Alive(c) \/ Mirror(s)!Going(c)
    BY <1>5, <1>6, <2>1
  <2>3. v5'[q].arg = c
    BY <1>1, <1>6, <2>1, CreatingStays
  <2>4. v5[q].task \notin v8' => Mirror(s)!Alive(c)' \/ Mirror(s)!Going(c)'
    BY <1>6, <2>1, <2>2
  <2>5. v5[q].task \notin v8' =>
           Mirror(s)!Alive(v5[q].arg)' \/ Mirror(s)!Going(v5[q].arg)'
    BY <2>3, <2>4 DEF Mirror!Alive, Mirror!Going
  <2>6. /\ \A u \in s.tasks : v3'[u].channel_id # c
        /\ v5'[p].at # "none" => v5'[p].copy.channel_id # c
    BY <2>2
  <2> QED BY <2>1, <2>5, <2>6
<1>7. ASSUME NEW t \in s.tasks \ v8' PROVE Mirror(s)!ChannelSits(t)'
  <2>1. Mirror(s)!ChannelSits(t) /\ v3[t].channel_id \in {0} \cup DOMAIN v4
    BY <1>1 DEF Mirror!ChannelInv
  <2>2. ASSUME NEW c \in DOMAIN v4', v4'[c].task = t, v4'[c].alive
        PROVE  c = v3'[t].channel_id \/
               \E q \in Mirror(s)!Threads : Mirror(s)!Creating(q)' /\ v5'[q].arg = c
    <3>1. \/ c = v3[t].channel_id
          \/ \E q \in Mirror(s)!Threads : Mirror(s)!Creating(q) /\ v5[q].arg = c
      BY <2>1, <2>2 DEF Mirror!ChannelSits
    <3>2. CASE c = v3[t].channel_id
      BY <2>2, <3>2
    <3>3. ASSUME NEW q \in Mirror(s)!Threads, Mirror(s)!Creating(q), v5[q].arg = c
          PROVE  Mirror(s)!Creating(q)' /\ v5'[q].arg = c
      BY <1>1, <3>3, CreatingStays
    <3> QED BY <3>1, <3>2, <3>3
  <2>3. PICK c : c = v3[t].channel_id
    OBVIOUS
  <2>4. v3'[t].channel_id # 0 => Mirror(s)!Alive(v3[t].channel_id)' \/
                                 Mirror(s)!Going(v3[t].channel_id)'
    <3> SUFFICES ASSUME v3'[t].channel_id # 0
                 PROVE  Mirror(s)!Alive(v3[t].channel_id)' \/ Mirror(s)!Going(v3[t].channel_id)'
      OBVIOUS
    <3>1. v3'[t].channel_id = c /\ c \in DOMAIN v4 /\ c # 0
      BY <2>1, <2>3
    <3>2. v4[c].task = t
      BY <1>1, <2>3, <3>1 DEF Mirror!ChannelInv, Mirror!OfTask, Mirror!None
    <3>3. Mirror(s)!Alive(c) \/ Mirror(s)!Going(c)
      BY <2>1, <2>3, <3>1 DEF Mirror!ChannelSits, Mirror!None
    <3>4. Mirror(s)!Alive(c)' \/ Mirror(s)!Going(c)'
      BY <3>1, <3>2, <3>3
    <3> QED BY <3>1, <3>4 DEF Mirror!Alive, Mirror!Going
  <2> QED BY <2>2, <2>4 DEF Mirror!ChannelSits, Mirror!None
<1>8. \A q \in Mirror(s)!Threads \ {p} :
         v5'[q] = v5[q] /\ v5[q] # Stale(v5[q]) /\ v5[q].at # "none" =>
            v3'[v5[q].task].channel_id \in {v3[v5[q].task].channel_id, 0}
  OBVIOUS
<1>9. Mirror(s)!ChannelInv'
  BY <1>1, <1>4, <1>6, <1>7, <1>8, ChannelKeeps
<1>10. Mirror(s)!Shape'
  <2>1. /\ v1' \in [s.tasks -> [turn : 0..s.turns, title : Nat, archived : BOOLEAN]]
        /\ v2' \in Seq(Notice(s)) /\ v7' \subseteq s.tasks
    BY <1>1 DEF Mirror!Shape, Notice
  <2>2. \A t \in s.tasks : v3'[t].channel_id \in {0} \cup DOMAIN v4'
    BY <1>1
  <2> QED BY <1>1, <2>1, <2>2, MirrorShape
<1> QED BY <1>3, <1>9, <1>10 DEF Mirror!IInv

LEMMA ChannelHas ==
    ASSUME NEW s \in MirrorScopes, Mirror(s)!Shape, NEW c \in DOMAIN v4
    PROVE  /\ v4[c] \in [task : s.tasks, category : {"running", "done"}, alive : BOOLEAN]
           /\ v4[c].task \in s.tasks /\ c \in Nat /\ c # 0
<1> DEFINE E == [task : s.tasks, category : {"running", "done"}, alive : BOOLEAN]
<1>1. v4 \in Seq(E)
  BY DEF Mirror!Shape
<1> HIDE DEF E
<1>2. v4[c] \in E /\ c \in Nat /\ c # 0
  BY <1>1
<1> QED BY <1>2 DEF E

\* A channel is deleted: the rest is as it was.
LEMMA ChannelGone ==
    ASSUME NEW s \in MirrorScopes, Mirror(s)!Shape, NEW c \in DOMAIN v4,
           v4' = [v4 EXCEPT ![c].alive = FALSE]
    PROVE  /\ v4' \in Seq([task : s.tasks, category : {"running", "done"}, alive : BOOLEAN])
           /\ Len(v4') <= s.created /\ DOMAIN v4' = DOMAIN v4 /\ v4'[c].alive = FALSE
           /\ \A d \in DOMAIN v4 : v4'[d].task = v4[d].task /\ (v4'[d].alive => v4[d].alive)
           /\ \A d \in DOMAIN v4 \ {c} : v4'[d].alive = v4[d].alive
<1> DEFINE E == [task : s.tasks, category : {"running", "done"}, alive : BOOLEAN]
<1>1. v4 \in Seq(E) /\ Len(v4) <= s.created
  BY DEF Mirror!Shape
<1> HIDE DEF E
<1>2. v4[c] \in E
  BY <1>1
<1>3. PICK e : e = [v4[c] EXCEPT !.alive = FALSE]
  OBVIOUS
<1>4. e \in E /\ e.task = v4[c].task /\ e.alive = FALSE
  BY <1>2, <1>3 DEF E
<1>5. v4' = [v4 EXCEPT ![c] = e]
  BY <1>3
<1>6. /\ v4' \in Seq(E) /\ Len(v4') = Len(v4) /\ DOMAIN v4' = DOMAIN v4 /\ v4'[c] = e
      /\ \A d \in DOMAIN v4 \ {c} : v4'[d] = v4[d]
  <2>1. PICK r : r = v4'
    OBVIOUS
  <2>2. r = [v4 EXCEPT ![c] = e] /\ v4 \in Seq(E) /\ e \in E /\ c \in DOMAIN v4
    BY <1>1, <1>4, <1>5, <2>1
  <2>3. /\ r \in Seq(E) /\ Len(r) = Len(v4) /\ DOMAIN r = DOMAIN v4 /\ r[c] = e
        /\ \A d \in DOMAIN v4 \ {c} : r[d] = v4[d]
    BY ONLY <2>2, SeqWith
  <2> QED BY <2>1, <2>3
<1>7. v4' \in Seq([task : s.tasks, category : {"running", "done"}, alive : BOOLEAN])
  BY <1>6 DEF E
<1> QED BY <1>1, <1>4, <1>6, <1>7

\* The owner deletes one.
LEMMA MirrorOwnerDeletes ==
    ASSUME NEW s \in MirrorScopes, Mirror(s)!IInv, NEW c \in DOMAIN v4, Mirror(s)!OwnerDeletes(c)
    PROVE  Mirror(s)!IInv'
<1>1. /\ Mirror(s)!Shape /\ Mirror(s)!TurnInv /\ Mirror(s)!TitleInv /\ Mirror(s)!ChannelInv
      /\ v1' = v1 /\ v2' = v2 /\ v3' = v3 /\ v5' = v5 /\ v7' = v7
      /\ v8' = v8 \cup {v4[c].task} /\ v4' = [v4 EXCEPT ![c].alive = FALSE]
      /\ v6' \in [turns : 0..s.turns, calls : Nat, faults : Nat]
  BY MirrorFault DEF Mirror!IInv, Mirror!OwnerDeletes
<1>2. /\ v4' \in Seq([task : s.tasks, category : {"running", "done"}, alive : BOOLEAN])
      /\ Len(v4') <= s.created /\ DOMAIN v4' = DOMAIN v4
      /\ \A d \in DOMAIN v4 : v4'[d].task = v4[d].task /\ (v4'[d].alive => v4[d].alive)
      /\ \A d \in DOMAIN v4 \ {c} : v4'[d].alive = v4[d].alive
  BY <1>1, ChannelGone
<1>3. PICK p : p = s.consumer
  OBVIOUS
<1>4. p \in Mirror(s)!Threads /\ Moved(s, p)
  BY <1>1, <1>3 DEF Moved, Mirror!Threads, Mirror!Shape
<1>5. PICK h : h = v5[p]
  OBVIOUS
<1>6. h.at # "none" =>
          /\ h.at \in {"place", "write"} /\ h.job \in Mirror(s)!Kinds
          /\ h.job \notin {"open", "rename", "archive", "dispatch", "resume", "reconcile"}
  <2>1. h.at # "none" => h.job \in Mirror(s)!Kinds /\ h.at \in Mirror(s)!Places(h.job)
    BY <1>3, <1>4, <1>5, HandlerHas
  <2> QED BY <2>1, ConsumerHas
<1>7. ~Mirror(s)!Creating(p) /\ ~Mirror(s)!Creating(p)'
  BY <1>1, <1>5, <1>6 DEF Mirror!Creating, Mirror!Here
<1>8. Mirror(s)!TurnFits(p)' /\ Mirror(s)!TitleFits(p)' /\ Mirror(s)!ChannelFits(p)'
  <2>1. Mirror(s)!TurnFits(p)'
    <3>1. Mirror(s)!TurnFits(p)
      BY <1>1, <1>4 DEF Mirror!TurnInv
    <3> QED BY <1>1, <1>5, <1>6, <3>1 DEF Mirror!TurnFits, Mirror!Busy
  <2>2. Mirror(s)!TitleFits(p)'
    BY <1>1, <1>5, <1>6 DEF Mirror!TitleFits, Mirror!Busy
  <2>3. Mirror(s)!ChannelFits(p)'
    <3>1. h.at # "none" /\ h.copy.channel_id # 0 => v4[h.copy.channel_id].task = h.task
                              /\ h.copy.channel_id \in DOMAIN v4
      BY <1>4, <1>5, HandlerHas
    <3>2. h.at # "none" /\ h.copy.channel_id # 0 => v4'[h.copy.channel_id].task = h.task
      BY <1>2, <3>1
    <3> QED BY <1>1, <1>5, <1>6, <1>7, <3>2
          DEF Mirror!ChannelFits, Mirror!Busy, Mirror!Here, Mirror!OfTask, Mirror!None
  <2> QED BY <2>1, <2>2, <2>3
<1>9. /\ v5'[p] = Mirror(s)!Idle \/ Mirror(s)!Fits(v5'[p], DOMAIN v4)
      /\ v5'[p].at # "none" => (v5'[p].job \in Mirror(s)!Kinds <=> p = s.consumer)
      /\ v5'[p].at # "none" =>
           v5[p].at # "none" /\ v5'[p].copy.channel_id \in {v5[p].copy.channel_id, 0}
  BY <1>1, <1>4, <1>5, <1>6, MirrorThreads
<1>10. \A t \in s.tasks : Attends(s, t, Mirror(s)!Words) /\ Attends(s, t, {"named"})
  BY <1>1 DEF Attends
<1>11. v4[c].task \in s.tasks /\ v8' \subseteq s.tasks /\ v8 \subseteq v8'
       /\ v3' \in [s.tasks -> Mirror(s)!Row]
  <2>1. /\ v8 \subseteq s.tasks /\ v3 \in [s.tasks -> Mirror(s)!Row]
    BY <1>1 DEF Mirror!Shape
  <2>2. v4[c].task \in s.tasks
    BY <1>1, ChannelHas
  <2> QED BY <1>1, <2>1, <2>2
<1>12. \A d \in DOMAIN v4 :
          v4[d].task \notin v8' /\ (Mirror(s)!Alive(d) \/ Mirror(s)!Going(d)) =>
             Mirror(s)!Alive(d)' \/ Mirror(s)!Going(d)'
  BY <1>1, <1>2 DEF Mirror!Alive, Mirror!Going, Mirror!Here
<1>13. /\ \A t \in s.tasks :
              /\ v3'[t].exists = v3[t].exists /\ v3'[t].turn_id = v3[t].turn_id
              /\ v3'[t].state = v3[t].state /\ v3'[t].title = v3[t].title
              /\ v3'[t].channel_id \in {v3[t].channel_id, 0}
       /\ \A u \in s.tasks \ v8' :
              v3'[u].channel_id = v3[u].channel_id \/ ~v4'[v3[u].channel_id].alive
       /\ \A q \in Mirror(s)!Threads \ {p} :
              v5'[q] = v5[q] /\ v5[q] # Stale(v5[q]) /\ v5[q].at # "none" =>
                 v3'[v5[q].task] = v3[v5[q].task]
  BY <1>1
<1> QED BY <1>1, <1>2, <1>4, <1>7, <1>8, <1>9, <1>10, <1>11, <1>12, <1>13, MirrorCuts

\* Pruning deletes one.
LEMMA MirrorDeletes ==
    ASSUME NEW s \in MirrorScopes, Mirror(s)!IInv, NEW p \in Mirror(s)!Threads,
           v5[p].at = "delete", NEW c \in v5[p].doomed,
           v4' = [v4 EXCEPT ![c].alive = FALSE],
           Mirror(s)!Go(p, [v5[p] EXCEPT !.at = "detach", !.arg = c, !.doomed = @ \ {c}]),
           UNCHANGED <<v1, v2, v3, v6, v7, v8>>
    PROVE  Mirror(s)!IInv'
<1>1. /\ Mirror(s)!Shape /\ Mirror(s)!TurnInv /\ Mirror(s)!TitleInv /\ Mirror(s)!ChannelInv
      /\ v1' = v1 /\ v2' = v2 /\ v3' = v3 /\ v6' = v6 /\ v7' = v7 /\ v8' = v8
      /\ v6' \in [turns : 0..s.turns, calls : Nat, faults : Nat]
      /\ v8' \subseteq s.tasks /\ v3' \in [s.tasks -> Mirror(s)!Row] /\ DOMAIN v4 \subseteq Nat
  BY DEF Mirror!IInv, Mirror!Shape
<1>2. PICK h : h = v5[p]
  OBVIOUS
<1>3. h.at = "delete" /\ h.at # "none" /\ p # s.consumer /\ h.job = "open" /\ ~Mirror(s)!Creating(p)
  BY <1>2, MirrorStepHas
<1>4. /\ Mirror(s)!Fits(h, DOMAIN v4) /\ h \in Mirror(s)!Handlers /\ h.task \in s.tasks
      /\ h.doomed \subseteq DOMAIN v4
      /\ h.fresh /\ h.task \notin v8 =>
           /\ Mirror(s)!Titled(h.task) \/ h.copy.title = v1[h.task].title
           /\ v3[h.task].channel_id = 0
      /\ h.copy.channel_id # 0 => v4[h.copy.channel_id].task = h.task
      /\ h.copy.channel_id \in {0} \cup DOMAIN v4
  BY <1>2, <1>3, HandlerHas
<1>5. c \in DOMAIN v4 /\ c \in Nat
  BY <1>1, <1>2, <1>4
<1>6. /\ v4' \in Seq([task : s.tasks, category : {"running", "done"}, alive : BOOLEAN])
      /\ Len(v4') <= s.created /\ DOMAIN v4' = DOMAIN v4 /\ v4'[c].alive = FALSE
      /\ \A d \in DOMAIN v4 : v4'[d].task = v4[d].task /\ (v4'[d].alive => v4[d].alive)
      /\ \A d \in DOMAIN v4 \ {c} : v4'[d].alive = v4[d].alive
  BY <1>1, <1>5, ChannelGone
<1>7. PICK k : k = [h EXCEPT !.at = "detach", !.arg = c, !.doomed = @ \ {c}]
  OBVIOUS
<1>8. /\ k \in Mirror(s)!Handlers /\ k.at = "detach" /\ k.at # "none" /\ k.job = "open"
      /\ k.task = h.task /\ k.copy = h.copy /\ k.arg = c /\ k.fresh = h.fresh
      /\ k.doomed \subseteq DOMAIN v4
  BY <1>3, <1>4, <1>5, <1>7 DEF Mirror!Handlers, Mirror!Steps
<1>9. Mirror(s)!Fits(k, DOMAIN v4)
  BY <1>4, <1>5, <1>8 DEF Mirror!Fits, Mirror!Places, Mirror!Words, Mirror!Asked, Mirror!None
<1>10. /\ Moved(s, p) /\ v5'[p] = k /\ \A q \in Mirror(s)!Threads \ {p} : v5'[q] = v5[q]
  <2>1. Mirror(s)!Rested(k) = k /\ Mirror(s)!Go(p, k)
    BY <1>2, <1>7, <1>8 DEF Mirror!Rested
  <2> QED BY <1>1, <2>1, MirrorGo
<1>11. \A t \in s.tasks : Attends(s, t, Mirror(s)!Words) /\ Attends(s, t, {"named"})
  BY <1>1, <1>3, <1>10, AttendsOther
<1>12. /\ ~Mirror(s)!Creating(p)' /\ Mirror(s)!TurnFits(p)' /\ Mirror(s)!TitleFits(p)'
       /\ Mirror(s)!ChannelFits(p)'
  <2>1. ~Mirror(s)!Creating(p)' /\ Mirror(s)!TurnFits(p)'
    BY <1>8, <1>10 DEF Mirror!Creating, Mirror!Here, Mirror!TurnFits
  <2>2. Mirror(s)!Titled(h.task) => Mirror(s)!Titled(h.task)'
    BY <1>1, <1>3, <1>4, <1>10, KeptWhenMute
  <2>3. h.fresh /\ h.task \notin v8 =>
           Mirror(s)!Titled(h.task)' \/ h.copy.title = v1'[h.task].title
    BY <1>1, <1>4, <2>2
  <2>4. PICK t : t = h.task
    OBVIOUS
  <2>5. Mirror(s)!Titled(v5[p].task)' <=> Mirror(s)!Titled(t)'
    BY <1>8, <1>10, <2>4 DEF Mirror!Titled, Mirror!Hearing
  <2>6. k.fresh /\ t \notin v8' => Mirror(s)!Titled(v5[p].task)' \/ k.copy.title = v1'[k.task].title
    <3>1. k.task = t /\ k.copy = h.copy /\ k.fresh = h.fresh /\ v8' = v8
      BY <1>1, <1>8, <2>4
    <3>2. h.fresh /\ t \notin v8 => Mirror(s)!Titled(t)' \/ h.copy.title = v1'[t].title
      BY <2>3, <2>4
    <3> QED BY <2>5, <3>1, <3>2
  <2>7. Mirror(s)!TitleFits(p)'
    BY <1>8, <1>10, <2>4, <2>6 DEF Mirror!TitleFits
  <2>8. Mirror(s)!ChannelFits(p)'
    <3>1. k.copy.channel_id # 0 => v4'[k.copy.channel_id].task = k.task
      BY <1>4, <1>6, <1>8
    <3>2. k.fresh /\ k.task \notin v8' => v3'[k.task].channel_id = 0
      BY <1>1, <1>4, <1>8
    <3>3. ~(k.arg \in DOMAIN v4' /\ v4'[k.arg].alive)
      BY <1>6, <1>8
    <3> QED BY <1>8, <1>10, <2>1, <3>1, <3>2, <3>3
         DEF Mirror!ChannelFits, Mirror!OfTask, Mirror!None, Mirror!Alive
  <2> QED BY <2>1, <2>7, <2>8
<1>13. \A d \in DOMAIN v4 :
          v4[d].task \notin v8' /\ (Mirror(s)!Alive(d) \/ Mirror(s)!Going(d)) =>
             Mirror(s)!Alive(d)' \/ Mirror(s)!Going(d)'
  <2> SUFFICES ASSUME NEW d \in DOMAIN v4, Mirror(s)!Alive(d) \/ Mirror(s)!Going(d)
               PROVE  Mirror(s)!Alive(d)' \/ Mirror(s)!Going(d)'
    OBVIOUS
  <2>1. CASE d = c
    BY <1>8, <1>10, <2>1 DEF Mirror!Going, Mirror!Here
  <2>2. CASE d # c /\ Mirror(s)!Alive(d)
    BY <1>6, <2>2 DEF Mirror!Alive
  <2>3. CASE Mirror(s)!Going(d)
    BY <1>1, <1>2, <1>3, <1>10, <2>3, GoingStays
  <2> QED BY <2>1, <2>2, <2>3
<1>14. /\ \A t \in s.tasks :
              /\ v3'[t].exists = v3[t].exists /\ v3'[t].turn_id = v3[t].turn_id
              /\ v3'[t].state = v3[t].state /\ v3'[t].title = v3[t].title
              /\ v3'[t].channel_id \in {v3[t].channel_id, 0}
       /\ \A u \in s.tasks \ v8' :
              v3'[u].channel_id = v3[u].channel_id \/ ~v4'[v3[u].channel_id].alive
       /\ \A q \in Mirror(s)!Threads \ {p} :
              v5'[q] = v5[q] /\ v5[q] # Stale(v5[q]) /\ v5[q].at # "none" =>
                 v3'[v5[q].task] = v3[v5[q].task]
       /\ v8 \subseteq v8'
  BY <1>1
<1>15. v5'[p].at # "none" =>
              v5[p].at # "none" /\ v5'[p].copy.channel_id \in {v5[p].copy.channel_id, 0}
  BY <1>2, <1>3, <1>8, <1>10
<1>16. v5'[p].at # "none" => (v5'[p].job \in Mirror(s)!Kinds <=> p = s.consumer)
  BY <1>3, <1>8, <1>10, NotHeard
<1> QED BY <1>1, <1>3, <1>6, <1>9, <1>10, <1>11, <1>12, <1>13, <1>14, <1>15, <1>16, MirrorCuts

\* A row loses its channel.
LEMMA RowCut ==
    ASSUME NEW s \in MirrorScopes, Mirror(s)!Shape, NEW t \in s.tasks,
           v3' = [v3 EXCEPT ![t].channel_id = 0]
    PROVE  /\ v3' \in [s.tasks -> Mirror(s)!Row] /\ v3'[t].channel_id = 0
           /\ \A u \in s.tasks :
              /\ v3'[u].exists = v3[u].exists /\ v3'[u].turn_id = v3[u].turn_id
              /\ v3'[u].state = v3[u].state /\ v3'[u].title = v3[u].title
              /\ v3'[u].channel_id \in {v3[u].channel_id, 0}
              /\ u # t => v3'[u] = v3[u]
<1>1. v3 \in [s.tasks -> Mirror(s)!Row] /\ v3[t] \in Mirror(s)!Row
  BY DEF Mirror!Shape
<1>2. PICK r : r = v3[t]
  OBVIOUS
<1>3. PICK e : e = [r EXCEPT !.channel_id = 0]
  OBVIOUS
<1>4. /\ e \in Mirror(s)!Row /\ e.exists = r.exists /\ e.turn_id = r.turn_id
      /\ e.state = r.state /\ e.title = r.title /\ e.channel_id = 0
  BY <1>1, <1>2, <1>3 DEF Mirror!Row
<1>5. v3' = [v3 EXCEPT ![t] = e]
  BY <1>2, <1>3
<1>6. /\ v3' \in [s.tasks -> Mirror(s)!Row] /\ v3'[t] = e
      /\ \A u \in s.tasks \ {t} : v3'[u] = v3[u]
  BY <1>1, <1>4, <1>5
<1> QED BY <1>2, <1>4, <1>6

\* The row of a deleted channel gives it up.
LEMMA MirrorDetached ==
    ASSUME NEW s \in MirrorScopes, Mirror(s)!IInv, NEW p \in Mirror(s)!Threads,
           Mirror(s)!Detached(p)
    PROVE  Mirror(s)!IInv'
<1>1. /\ Mirror(s)!Shape /\ Mirror(s)!TurnInv /\ Mirror(s)!TitleInv /\ Mirror(s)!ChannelInv
      /\ v1' = v1 /\ v2' = v2 /\ v4' = v4 /\ v6' = v6 /\ v7' = v7
      /\ v6' \in [turns : 0..s.turns, calls : Nat, faults : Nat] /\ v8 \subseteq s.tasks
      /\ v4 \in Seq([task : s.tasks, category : {"running", "done"}, alive : BOOLEAN])
      /\ Len(v4) <= s.created /\ \A t \in s.tasks : v3[t].channel_id \in {0} \cup DOMAIN v4
      /\ v3 \in [s.tasks -> Mirror(s)!Row]
  BY DEF Mirror!IInv, Mirror!Shape, Mirror!Detached, Mirror!None
<1>2. PICK h : h = v5[p]
  OBVIOUS
<1>3. /\ v5[p].at = "detach" /\ h.at = "detach" /\ h.at # "none" /\ p # s.consumer
      /\ h.job = "open" /\ ~Mirror(s)!Creating(p)
  BY <1>2, MirrorStepHas DEF Mirror!Detached, Mirror!Here
<1>4. /\ Mirror(s)!Fits(h, DOMAIN v4) /\ h \in Mirror(s)!Handlers /\ h.task \in s.tasks
      /\ h.job \in Mirror(s)!Jobs /\ h.at \in Mirror(s)!Places(h.job)
      /\ h.doomed \subseteq DOMAIN v4 /\ h.copy.channel_id \in {0} \cup DOMAIN v4
      /\ h.fresh /\ h.task \notin v8 =>
           /\ Mirror(s)!Titled(h.task) \/ h.copy.title = v1[h.task].title
           /\ v3[h.task].channel_id = 0
      /\ h.copy.channel_id # 0 => v4[h.copy.channel_id].task = h.task
      /\ ~Mirror(s)!Alive(h.arg) /\ h.arg \in DOMAIN v4
  BY <1>2, <1>3, HandlerHas
<1>5. PICK c : c = h.arg
  OBVIOUS
<1>6. PICK k : k = Mirror(s)!Left(p)
  OBVIOUS
<1>7. /\ k \in Mirror(s)!Handlers /\ k.at = "delete" /\ k.at # "none" /\ k.job = "open"
      /\ k.task = h.task /\ k.copy = h.copy /\ k.arg = c /\ k.fresh = h.fresh
      /\ k.doomed = h.doomed
  <2>1. Mirror(s)!Then(h.job, "detach") = "delete"
    BY <1>3, <1>4, MirrorThen
  <2> QED BY <1>2, <1>3, <1>4, <1>5, <1>6, <2>1 DEF Mirror!Left, Mirror!Handlers, Mirror!Steps
<1>8. Mirror(s)!Fits(k, DOMAIN v4) /\ Mirror(s)!Rested(k) = k
  BY <1>4, <1>7 DEF Mirror!Fits, Mirror!Places, Mirror!Words, Mirror!Asked, Mirror!None,
                    Mirror!Rested
<1>9. c \in DOMAIN v4 /\ ~Mirror(s)!Alive(c) /\ v4[c].task \in s.tasks /\ c # 0
      /\ v4[c].alive = FALSE
  <2>1. /\ v4[c].task \in s.tasks /\ c # 0
        /\ v4[c] \in [task : s.tasks, category : {"running", "done"}, alive : BOOLEAN]
    BY <1>1, <1>4, <1>5, ChannelHas
  <2> QED BY <1>4, <1>5, <2>1 DEF Mirror!Alive
<1>10. ASSUME Moved(s, p), v5'[p] = k, v8 \subseteq v8', v8' \subseteq s.tasks,
              v3' \in [s.tasks -> Mirror(s)!Row],
              \A t \in s.tasks :
                /\ v3'[t].exists = v3[t].exists /\ v3'[t].turn_id = v3[t].turn_id
                /\ v3'[t].state = v3[t].state /\ v3'[t].title = v3[t].title
                /\ v3'[t].channel_id \in {v3[t].channel_id, 0},
              \A q \in Mirror(s)!Threads \ {p} :
                v5'[q] = v5[q] /\ v5[q] # Stale(v5[q]) /\ v5[q].at # "none" =>
                   v3'[v5[q].task] = v3[v5[q].task],
              \/ v4[c].task \in v8'
              \/ /\ \A u \in s.tasks : v3'[u].channel_id # c
                 /\ \A q \in Mirror(s)!Threads : Mirror(s)!Creating(q) => v5[q].arg # c,
              \A u \in s.tasks : v3'[u].channel_id = v3[u].channel_id \/ v3[u].channel_id = c
       PROVE  Mirror(s)!IInv'
  <2>1. \A t \in s.tasks : Attends(s, t, Mirror(s)!Words) /\ Attends(s, t, {"named"})
    BY <1>1, <1>3, <1>10, AttendsOther
  <2>2. ~Mirror(s)!Creating(p)' /\ Mirror(s)!TurnFits(p)'
    BY <1>7, <1>10 DEF Mirror!Creating, Mirror!Here, Mirror!TurnFits
  <2>3. Mirror(s)!TitleFits(p)'
    <3>1. Mirror(s)!Titled(h.task) => Mirror(s)!Titled(h.task)'
      BY <1>1, <1>3, <1>4, <1>10, KeptWhenMute
    <3>2. PICK t : t = h.task
      OBVIOUS
    <3>3. Mirror(s)!Titled(v5[p].task)' <=> Mirror(s)!Titled(t)'
      BY <1>7, <1>10, <3>2 DEF Mirror!Titled, Mirror!Hearing
    <3>4. k.fresh /\ t \notin v8' =>
             Mirror(s)!Titled(v5[p].task)' \/ k.copy.title = v1'[k.task].title
      <4>1. k.task = t /\ k.copy = h.copy /\ k.fresh = h.fresh
        BY <1>7, <3>2
      <4>2. h.fresh /\ t \notin v8 => Mirror(s)!Titled(t)' \/ h.copy.title = v1'[t].title
        BY <1>1, <1>4, <3>1, <3>2
      <4> QED BY <1>10, <3>3, <4>1, <4>2
    <3> QED BY <1>7, <1>10, <3>2, <3>4 DEF Mirror!TitleFits
  <2>4. Mirror(s)!ChannelFits(p)'
    <3>1. k.copy.channel_id # 0 => v4'[k.copy.channel_id].task = k.task
      BY <1>1, <1>4, <1>7
    <3>2. k.fresh /\ k.task \notin v8' => v3'[k.task].channel_id = 0
      BY <1>4, <1>7, <1>10
    <3> QED BY <1>7, <1>10, <2>2, <3>1, <3>2
         DEF Mirror!ChannelFits, Mirror!OfTask, Mirror!None, Mirror!Here
  <2>5. \A d \in DOMAIN v4 :
           v4[d].task \notin v8' /\ (Mirror(s)!Alive(d) \/ Mirror(s)!Going(d)) =>
              \/ Mirror(s)!Alive(d)' \/ Mirror(s)!Going(d)'
              \/ /\ \A u \in s.tasks : v3'[u].channel_id # d
                 /\ \A q \in Mirror(s)!Threads : Mirror(s)!Creating(q) => v5[q].arg # d
    <3> SUFFICES ASSUME NEW d \in DOMAIN v4, v4[d].task \notin v8', d # c,
                        Mirror(s)!Alive(d) \/ Mirror(s)!Going(d)
                 PROVE  Mirror(s)!Alive(d)' \/ Mirror(s)!Going(d)'
      BY <1>10
    <3>1. CASE Mirror(s)!Alive(d)
      BY <1>1, <3>1 DEF Mirror!Alive
    <3>2. CASE Mirror(s)!Going(d)
      BY <1>1, <1>2, <1>5, <1>10, <3>2, GoingStays
    <3> QED BY <3>1, <3>2
  <2>6. /\ \A u \in s.tasks \ v8' :
              v3'[u].channel_id = v3[u].channel_id \/ ~v4'[v3[u].channel_id].alive
        /\ \A d \in DOMAIN v4 : v4'[d].task = v4[d].task /\ (v4'[d].alive => v4[d].alive)
        /\ v4' \in Seq([task : s.tasks, category : {"running", "done"}, alive : BOOLEAN])
        /\ Len(v4') <= s.created /\ DOMAIN v4' = DOMAIN v4
    BY <1>1, <1>9, <1>10
  <2>7. /\ v5'[p] = Mirror(s)!Idle \/ Mirror(s)!Fits(v5'[p], DOMAIN v4)
        /\ v5'[p].at # "none" => (v5'[p].job \in Mirror(s)!Kinds <=> p = s.consumer)
        /\ v5'[p].at # "none" =>
              v5[p].at # "none" /\ v5'[p].copy.channel_id \in {v5[p].copy.channel_id, 0}
    BY <1>2, <1>3, <1>7, <1>8, <1>10, NotHeard
  <2> QED BY <1>1, <1>3, <1>10, <2>1, <2>2, <2>3, <2>4, <2>5, <2>6, <2>7, MirrorCuts
<1>11. CASE \E t \in s.tasks : /\ v3[t].channel_id = c /\ Mirror(s)!Detach(p, t, k)
                              /\ v8' = v8
  <2>1. PICK t \in s.tasks : v3[t].channel_id = c /\ Mirror(s)!Detach(p, t, k) /\ v8' = v8
    BY <1>11
  <2>2. v3' = [v3 EXCEPT ![t].channel_id = 0] /\ v5' = Mirror(s)!Aged(p, t, k)
    BY <2>1 DEF Mirror!Detach, Mirror!None
  <2>3. /\ Moved(s, p) /\ v5'[p] = k
        /\ \A q \in Mirror(s)!Threads \ {p} :
             v5'[q] = v5[q] /\ v5[q] # Stale(v5[q]) /\ v5[q].at # "none" => v5[q].task # t
    BY <1>1, <1>8, <2>2, MirrorAged
  <2>4. /\ v3' \in [s.tasks -> Mirror(s)!Row] /\ v3'[t].channel_id = 0
        /\ \A u \in s.tasks :
              /\ v3'[u].exists = v3[u].exists /\ v3'[u].turn_id = v3[u].turn_id
              /\ v3'[u].state = v3[u].state /\ v3'[u].title = v3[u].title
              /\ v3'[u].channel_id \in {v3[u].channel_id, 0}
              /\ u # t => v3'[u] = v3[u]
    BY <1>1, <2>2, RowCut
  <2>5. \A q \in Mirror(s)!Threads : v5[q].at # "none" => v5[q].task \in s.tasks
    BY <1>1, MirrorThreads, FitsHas
  <2>6. \A u \in s.tasks : v3'[u].channel_id # c
    <3>1. \A u \in s.tasks : v3[u].channel_id = c => v4[c].task = u
      BY <1>1, <1>9 DEF Mirror!ChannelInv, Mirror!OfTask, Mirror!None
    <3> QED BY <1>9, <2>1, <2>4, <3>1
  <2>7. \A q \in Mirror(s)!Threads : Mirror(s)!Creating(q) => v5[q].arg # c
    BY <1>1, <2>1 DEF Mirror!ChannelInv, Mirror!ChannelFits, Mirror!Creating, Mirror!Here,
                      Mirror!Busy
  <2>8. \A u \in s.tasks : v3'[u].channel_id = v3[u].channel_id \/ v3[u].channel_id = c
    BY <2>1, <2>4
  <2>9. \A q \in Mirror(s)!Threads \ {p} :
             v5'[q] = v5[q] /\ v5[q] # Stale(v5[q]) /\ v5[q].at # "none" =>
                v3'[v5[q].task] = v3[v5[q].task]
    BY <2>3, <2>4, <2>5
  <2>10. v8 \subseteq v8' /\ v8' \subseteq s.tasks
    BY <1>1, <2>1
  <2> QED BY <1>10, <2>3, <2>4, <2>6, <2>7, <2>8, <2>9, <2>10
<1>12. CASE /\ \A t \in s.tasks : v3[t].channel_id # c
            /\ Mirror(s)!Go(p, k) /\ v3' = v3 /\ v8' = v8 \cup {v4[c].task}
  <2>1. Moved(s, p) /\ v5'[p] = k
    BY <1>1, <1>8, <1>12, MirrorGo
  <2> QED BY <1>1, <1>9, <1>10, <1>12, <2>1
<1> QED
  <2>1. \/ \E t \in {u \in s.tasks : v3[u].channel_id = c} : Mirror(s)!Detach(p, t, k) /\ v8' = v8
        \/ /\ {u \in s.tasks : v3[u].channel_id = c} = {}
           /\ Mirror(s)!Go(p, k) /\ v3' = v3 /\ v8' = v8 \cup {v4[c].task}
    BY <1>2, <1>5, <1>6 DEF Mirror!Detached
  <2> QED BY <1>11, <1>12, <2>1

\* The row of a task gives up its channel, for one that is not there.
LEMMA MirrorForgotten ==
    ASSUME NEW s \in MirrorScopes, Mirror(s)!IInv, NEW p \in Mirror(s)!Threads,
           v5[p].at = "forget" \/ (v5[p].at = "look" /\ v5[p].job = "reconcile"),
           NEW c, c = v5[p].copy.channel_id, Mirror(s)!Missing(c),
           Mirror(s)!DetachTask(p, c, IF v5[p].at = "look" THEN Mirror(s)!Idle
                               ELSE [Mirror(s)!Left(p) EXCEPT !.copy.channel_id = 0]),
           UNCHANGED <<v1, v2, v4, v7>>
    PROVE  Mirror(s)!IInv'
<1>1. /\ Mirror(s)!Shape /\ Mirror(s)!TurnInv /\ Mirror(s)!TitleInv /\ Mirror(s)!ChannelInv
      /\ v1' = v1 /\ v2' = v2 /\ v4' = v4 /\ v7' = v7
      /\ v6' \in [turns : 0..s.turns, calls : Nat, faults : Nat] /\ v8 \subseteq s.tasks
      /\ v4 \in Seq([task : s.tasks, category : {"running", "done"}, alive : BOOLEAN])
      /\ Len(v4) <= s.created /\ \A t \in s.tasks : v3[t].channel_id \in {0} \cup DOMAIN v4
      /\ v3 \in [s.tasks -> Mirror(s)!Row] /\ c # 0
  <2>1. Mirror(s)!Fault \/ v6' = v6
    BY DEF Mirror!Missing
  <2>2. v6' \in [turns : 0..s.turns, calls : Nat, faults : Nat]
    BY <2>1, MirrorFault
  <2> QED BY <2>2 DEF Mirror!IInv, Mirror!Shape, Mirror!Missing, Mirror!None
<1>2. PICK h : h = v5[p]
  OBVIOUS
<1>3. /\ h.at \in {"forget", "look"} /\ h.at # "none" /\ p # s.consumer
      /\ ~Mirror(s)!Creating(p) /\ (h.at = "forget" => h.job = "open")
  BY <1>2, MirrorStepHas
<1>4. /\ h \in Mirror(s)!Handlers /\ h.task \in s.tasks
      /\ h.doomed \subseteq DOMAIN v4 /\ h.copy.channel_id \in {0} \cup DOMAIN v4
      /\ h.copy \in Mirror(s)!Row
  BY <1>2, <1>3, HandlerHas
<1>5. PICK t : t = h.task
  OBVIOUS
<1>6. PICK m : m = IF h.at = "look" THEN Mirror(s)!Idle
                   ELSE [Mirror(s)!Left(p) EXCEPT !.copy.channel_id = 0]
  OBVIOUS
<1>7. /\ v3' = [v3 EXCEPT ![t].channel_id = 0] /\ v5' = Mirror(s)!Aged(p, t, m)
      /\ v8' = IF Mirror(s)!Alive(c) \/ v3[t].channel_id \notin {c, 0}
               THEN v8 \cup {t} ELSE v8
  BY <1>2, <1>5, <1>6 DEF Mirror!DetachTask, Mirror!Detach, Mirror!None
<1>8. h.at = "look" => m = Mirror(s)!Idle
  BY <1>6
<1>9. h.at = "forget" =>
        /\ m \in Mirror(s)!Handlers /\ m.at = "prune" /\ m.at # "none" /\ m.job = "open"
        /\ m.task = t /\ m.copy.channel_id = 0 /\ m.doomed = h.doomed
        /\ Mirror(s)!Fits(m, DOMAIN v4)
  <2> SUFFICES ASSUME h.at = "forget"
               PROVE  /\ m \in Mirror(s)!Handlers /\ m.at = "prune" /\ m.at # "none"
                      /\ m.job = "open" /\ m.task = t /\ m.copy.channel_id = 0
                      /\ m.doomed = h.doomed /\ Mirror(s)!Fits(m, DOMAIN v4)
    OBVIOUS
  <2>1. PICK k : k = Mirror(s)!Left(p)
    OBVIOUS
  <2>2. /\ k \in Mirror(s)!Handlers /\ k.job = "open" /\ k.task = t /\ k.at = "prune"
        /\ k.copy = h.copy /\ k.doomed = h.doomed
    BY <1>2, <1>3, <1>5, <2>1, MirrorLeft
  <2>3. m = [k EXCEPT !.copy.channel_id = 0]
    BY <1>6, <2>1
  <2>4. PICK r : r = [k.copy EXCEPT !.channel_id = 0]
    OBVIOUS
  <2>5. r \in Mirror(s)!Row /\ r.channel_id = 0
    BY <1>4, <2>2, <2>4 DEF Mirror!Row
  <2>6. m = [k EXCEPT !.copy = r]
    BY <2>2, <2>3, <2>4
  <2>7. /\ m \in Mirror(s)!Handlers /\ m.at = k.at /\ m.job = k.job /\ m.task = k.task
        /\ m.copy = r /\ m.doomed = k.doomed
    BY <2>2, <2>5, <2>6 DEF Mirror!Handlers
  <2>8. Mirror(s)!Fits(m, DOMAIN v4)
    BY <1>4, <2>2, <2>5, <2>7 DEF Mirror!Fits, Mirror!Places, Mirror!Words, Mirror!Asked,
                                  Mirror!None
  <2> QED BY <2>2, <2>5, <2>7, <2>8
<1>10. /\ Moved(s, p) /\ v5'[p] = m
       /\ \A q \in Mirror(s)!Threads \ {p} :
             v5'[q] = v5[q] /\ v5[q] # Stale(v5[q]) /\ v5[q].at # "none" => v5[q].task # t
  <2>1. Mirror(s)!Rested(m) = m
    BY <1>3, <1>8, <1>9 DEF Mirror!Rested, Mirror!Idle
  <2> QED BY <1>1, <1>7, <2>1, MirrorAged
<1>11. /\ v3' \in [s.tasks -> Mirror(s)!Row] /\ v3'[t].channel_id = 0
       /\ \A u \in s.tasks :
              /\ v3'[u].exists = v3[u].exists /\ v3'[u].turn_id = v3[u].turn_id
              /\ v3'[u].state = v3[u].state /\ v3'[u].title = v3[u].title
              /\ v3'[u].channel_id \in {v3[u].channel_id, 0}
              /\ u # t => v3'[u] = v3[u]
  <2>1. Mirror(s)!Shape /\ t \in s.tasks /\ v3' = [v3 EXCEPT ![t].channel_id = 0]
    BY <1>1, <1>4, <1>5, <1>7
  <2> QED BY <2>1, RowCut
<1>12. \A q \in Mirror(s)!Threads : v5[q].at # "none" => v5[q].task \in s.tasks
  BY <1>1, MirrorThreads, FitsHas
<1>13. \A q \in Mirror(s)!Threads \ {p} :
             v5'[q] = v5[q] /\ v5[q] # Stale(v5[q]) /\ v5[q].at # "none" =>
                v3'[v5[q].task] = v3[v5[q].task]
  BY <1>10, <1>11, <1>12
<1>14. \A u \in s.tasks : Attends(s, u, Mirror(s)!Words) /\ Attends(s, u, {"named"})
  BY <1>1, <1>3, <1>10, AttendsOther
<1>15. m.at = "none" \/ m.at = "prune"
  BY <1>3, <1>8, <1>9 DEF Mirror!Idle
<1>16. ~Mirror(s)!Creating(p)' /\ Mirror(s)!TurnFits(p)' /\ Mirror(s)!TitleFits(p)'
       /\ Mirror(s)!ChannelFits(p)'
  <2>1. CASE m.at = "none"
    BY <1>10, <2>1 DEF Mirror!Creating, Mirror!Here, Mirror!TurnFits, Mirror!TitleFits,
                       Mirror!ChannelFits, Mirror!Busy
  <2>2. CASE m.at = "prune"
    <3>1. m.job = "open" /\ m.task = t /\ m.copy.channel_id = 0
      BY <1>3, <1>8, <1>9, <2>2 DEF Mirror!Idle
    <3>2. ~Mirror(s)!Creating(p)' /\ Mirror(s)!TurnFits(p)' /\ Mirror(s)!TitleFits(p)'
      BY <1>10, <2>2, <3>1 DEF Mirror!Creating, Mirror!Here, Mirror!TurnFits, Mirror!TitleFits
    <3> QED BY <1>10, <1>11, <2>2, <3>1, <3>2
          DEF Mirror!ChannelFits, Mirror!OfTask, Mirror!None, Mirror!Here
  <2> QED BY <1>15, <2>1, <2>2
<1>17. /\ v5'[p] = Mirror(s)!Idle \/ Mirror(s)!Fits(v5'[p], DOMAIN v4)
       /\ v5'[p].at # "none" => (v5'[p].job \in Mirror(s)!Kinds <=> p = s.consumer)
       /\ v5'[p].at # "none" =>
             v5[p].at # "none" /\ v5'[p].copy.channel_id \in {v5[p].copy.channel_id, 0}
  BY <1>2, <1>3, <1>8, <1>9, <1>10, NotHeard DEF Mirror!Idle
<1>18. \A d \in DOMAIN v4 :
           v4[d].task \notin v8' /\ (Mirror(s)!Alive(d) \/ Mirror(s)!Going(d)) =>
              Mirror(s)!Alive(d)' \/ Mirror(s)!Going(d)'
  <2> SUFFICES ASSUME NEW d \in DOMAIN v4, Mirror(s)!Alive(d) \/ Mirror(s)!Going(d)
               PROVE  Mirror(s)!Alive(d)' \/ Mirror(s)!Going(d)'
    OBVIOUS
  <2>1. CASE Mirror(s)!Alive(d)
    BY <1>1, <2>1 DEF Mirror!Alive
  <2>2. CASE Mirror(s)!Going(d)
    BY <1>1, <1>2, <1>3, <1>10, <2>2, GoingStays
  <2> QED BY <2>1, <2>2
<1>19. \A u \in s.tasks \ v8' :
              v3'[u].channel_id = v3[u].channel_id \/ ~v4'[v3[u].channel_id].alive
  <2> SUFFICES ASSUME NEW u \in s.tasks \ v8', v3'[u].channel_id # v3[u].channel_id
               PROVE  ~v4'[v3[u].channel_id].alive
    OBVIOUS
  <2>1. u = t /\ v3[u].channel_id # 0 /\ v3[u].channel_id \in DOMAIN v4
    BY <1>1, <1>11
  <2>2. ~Mirror(s)!Alive(c) /\ v3[u].channel_id = c
    BY <1>7, <2>1
  <2> QED BY <1>1, <2>1, <2>2 DEF Mirror!Alive
<1>20. /\ v8 \subseteq v8' /\ v8' \subseteq s.tasks /\ DOMAIN v4' = DOMAIN v4
       /\ v4' \in Seq([task : s.tasks, category : {"running", "done"}, alive : BOOLEAN])
       /\ Len(v4') <= s.created
       /\ \A d \in DOMAIN v4 : v4'[d].task = v4[d].task /\ (v4'[d].alive => v4[d].alive)
  BY <1>1, <1>4, <1>5, <1>7
<1>21. /\ v1' = v1 /\ v2' = v2 /\ v7' = v7 /\ ~Mirror(s)!Creating(p) /\ Moved(s, p)
       /\ v6' \in [turns : 0..s.turns, calls : Nat, faults : Nat]
       /\ v3' \in [s.tasks -> Mirror(s)!Row]
       /\ \A u \in s.tasks :
              /\ v3'[u].exists = v3[u].exists /\ v3'[u].turn_id = v3[u].turn_id
              /\ v3'[u].state = v3[u].state /\ v3'[u].title = v3[u].title
              /\ v3'[u].channel_id \in {v3[u].channel_id, 0}
  BY <1>1, <1>3, <1>10, <1>11
<1> QED BY <1>13, <1>14, <1>16, <1>17, <1>18, <1>19, <1>20, <1>21, MirrorCuts

LEMMA MirrorForget ==
    ASSUME NEW s \in MirrorScopes, Mirror(s)!IInv, NEW p \in Mirror(s)!Threads,
           Mirror(s)!Forget(p) \/ Mirror(s)!LookReconcile(p)
    PROVE  Mirror(s)!IInv'
<1>1. PICK c : c = v5[p].copy.channel_id
  OBVIOUS
<1>2. CASE Mirror(s)!Forget(p)
  <2>1. v5[p].at = "forget" /\ v1' = v1 /\ v2' = v2 /\ v4' = v4 /\ v7' = v7
    BY <1>2 DEF Mirror!Forget, Mirror!Here
  <2>2. \/ /\ Mirror(s)!Missing(c)
           /\ Mirror(s)!DetachTask(p, c, [Mirror(s)!Left(p) EXCEPT !.copy.channel_id = 0])
        \/ /\ Mirror(s)!Go(p, IF c = 0 THEN Mirror(s)!Left(p) ELSE Mirror(s)!Idle)
           /\ v3' = v3 /\ v6' = v6 /\ v8' = v8
    BY <1>1, <1>2 DEF Mirror!Forget, Mirror!None
  <2>3. CASE /\ Mirror(s)!Missing(c)
             /\ Mirror(s)!DetachTask(p, c, [Mirror(s)!Left(p) EXCEPT !.copy.channel_id = 0])
    BY <1>1, <2>1, <2>3, MirrorForgotten
  <2>4. CASE /\ Mirror(s)!Go(p, IF c = 0 THEN Mirror(s)!Left(p) ELSE Mirror(s)!Idle)
             /\ v3' = v3 /\ v6' = v6 /\ v8' = v8
    <3>1. Mirror(s)!Go(p, IF c # 0 <=> v5[p].at = "look" THEN Mirror(s)!Left(p)
                          ELSE Mirror(s)!Idle)
      BY <2>1, <2>4
    <3> QED BY <1>1, <2>1, <2>4, <3>1, MirrorForgets
  <2> QED BY <2>2, <2>3, <2>4
<1>3. CASE Mirror(s)!LookReconcile(p)
  <2>1. /\ v5[p].at = "look" /\ v5[p].job = "reconcile"
        /\ v1' = v1 /\ v2' = v2 /\ v4' = v4 /\ v7' = v7
    BY <1>3 DEF Mirror!LookReconcile, Mirror!Here
  <2>2. \/ Mirror(s)!Missing(c) /\ Mirror(s)!DetachTask(p, c, Mirror(s)!Idle)
        \/ /\ Mirror(s)!Go(p, IF c = 0 THEN Mirror(s)!Idle ELSE Mirror(s)!Left(p))
           /\ v3' = v3 /\ v6' = v6 /\ v8' = v8
    BY <1>1, <1>3 DEF Mirror!LookReconcile, Mirror!None
  <2>3. CASE Mirror(s)!Missing(c) /\ Mirror(s)!DetachTask(p, c, Mirror(s)!Idle)
    BY <1>1, <2>1, <2>3, MirrorForgotten
  <2>4. CASE /\ Mirror(s)!Go(p, IF c = 0 THEN Mirror(s)!Idle ELSE Mirror(s)!Left(p))
             /\ v3' = v3 /\ v6' = v6 /\ v8' = v8
    <3>1. Mirror(s)!Go(p, IF c # 0 <=> v5[p].at = "look" THEN Mirror(s)!Left(p)
                          ELSE Mirror(s)!Idle)
      BY <2>1, <2>4
    <3> QED BY <1>1, <2>1, <2>4, <3>1, MirrorForgets
  <2> QED BY <2>2, <2>3, <2>4
<1> QED BY <1>2, <1>3

LEMMA SeqAlso ==
    ASSUME NEW E, NEW q \in Seq(E), NEW e \in E, NEW r, r = Append(q, e)
    PROVE  /\ r \in Seq(E) /\ Len(r) = Len(q) + 1 /\ Len(q) \in Nat
           /\ r[Len(q) + 1] = e /\ DOMAIN r = DOMAIN q \cup {Len(q) + 1}
           /\ Len(q) + 1 \notin DOMAIN q /\ \A n \in DOMAIN q : r[n] = q[n]
OBVIOUS

\* An opened task has a channel of its own.
LEMMA MirrorCreates ==
    ASSUME NEW s \in MirrorScopes, Mirror(s)!IInv, NEW p \in Mirror(s)!Threads,
           Mirror(s)!Create(p), v4' # v4
    PROVE  Mirror(s)!IInv'
<1> DEFINE E == [task : s.tasks, category : {"running", "done"}, alive : BOOLEAN]
<1>1. /\ Mirror(s)!Shape /\ Mirror(s)!TurnInv /\ Mirror(s)!TitleInv /\ Mirror(s)!ChannelInv
      /\ v1' = v1 /\ v2' = v2 /\ v3' = v3 /\ v6' = v6 /\ v7' = v7 /\ v8' = v8
      /\ v6' \in [turns : 0..s.turns, calls : Nat, faults : Nat]
      /\ v4 \in Seq(E) /\ \A t \in s.tasks : v3[t].channel_id \in {0} \cup DOMAIN v4
      /\ Len(v4) < s.created /\ s.created \in Nat
  BY MirrorAssumption DEF Mirror!IInv, Mirror!Shape, Mirror!Create, Mirror!None
<1>2. PICK h : h = v5[p]
  OBVIOUS
<1>3. /\ h.at = "create" /\ h.at # "none" /\ v5[p].at = "create" /\ p # s.consumer
      /\ h.job = "open" /\ ~Mirror(s)!Creating(p)
  BY <1>2, MirrorStepHas DEF Mirror!Create, Mirror!Here
<1>4. /\ Mirror(s)!Fits(h, DOMAIN v4) /\ h \in Mirror(s)!Handlers /\ h.task \in s.tasks
      /\ h.job \in Mirror(s)!Jobs /\ h.at \in Mirror(s)!Places(h.job)
      /\ h.doomed \subseteq DOMAIN v4 /\ h.copy.channel_id \in {0} \cup DOMAIN v4
      /\ h.fresh /\ h.task \notin v8 =>
           /\ Mirror(s)!Titled(h.task) \/ h.copy.title = v1[h.task].title
           /\ v3[h.task].channel_id = 0
      /\ h.copy.channel_id # 0 => v4[h.copy.channel_id].task = h.task
  BY <1>2, <1>3, HandlerHas
<1>5. PICK c : c = Len(v4) + 1
  OBVIOUS
<1>6. PICK e : e = [task |-> h.task, category |-> "done", alive |-> TRUE]
  OBVIOUS
<1>7. e \in E /\ e.task = h.task /\ e.alive = TRUE
  BY <1>4, <1>6
<1>8. /\ v4' \in Seq(E) /\ Len(v4') = c /\ Len(v4') <= s.created /\ c \in Nat /\ c # 0
      /\ v4'[c] = e /\ DOMAIN v4' = DOMAIN v4 \cup {c} /\ c \notin DOMAIN v4
      /\ \A d \in DOMAIN v4 : v4'[d] = v4[d]
  <2> HIDE DEF E
  <2>1. v4' = Append(v4, e)
    BY <1>2, <1>6 DEF Mirror!Create
  <2>2. PICK r : r = v4'
    OBVIOUS
  <2>3. /\ r \in Seq(E) /\ Len(r) = Len(v4) + 1 /\ Len(v4) \in Nat
        /\ r[Len(v4) + 1] = e /\ DOMAIN r = DOMAIN v4 \cup {Len(v4) + 1}
        /\ Len(v4) + 1 \notin DOMAIN v4 /\ \A n \in DOMAIN v4 : r[n] = v4[n]
    BY <1>1, <1>7, <2>1, <2>2, SeqAlso
  <2> QED BY <1>1, <1>5, <2>2, <2>3
<1>9. PICK k : k = [Mirror(s)!Left(p) EXCEPT !.arg = c]
  OBVIOUS
<1>10. /\ k \in Mirror(s)!Handlers /\ k.at = "write" /\ k.at # "none" /\ k.job = "open"
       /\ k.task = h.task /\ k.copy = h.copy /\ k.arg = c /\ k.fresh = h.fresh
       /\ k.doomed = h.doomed
  <2>1. Mirror(s)!Then(h.job, "create") = "write"
    BY <1>3, <1>4, MirrorThen
  <2>2. PICK l : l = Mirror(s)!Left(p)
    OBVIOUS
  <2>3. /\ l \in Mirror(s)!Handlers /\ l.at = "write" /\ l.job = "open" /\ l.task = h.task
        /\ l.copy = h.copy /\ l.fresh = h.fresh /\ l.doomed = h.doomed
    BY <1>2, <1>3, <1>4, <2>1, <2>2 DEF Mirror!Left, Mirror!Handlers, Mirror!Steps
  <2>4. k = [l EXCEPT !.arg = c]
    BY <1>9, <2>2
  <2> QED BY <1>8, <2>3, <2>4 DEF Mirror!Handlers
<1>11. Mirror(s)!Fits(k, DOMAIN v4') /\ Mirror(s)!Rested(k) = k
  <2>1. Mirror(s)!Rested(k) = k
    BY <1>10 DEF Mirror!Rested
  <2>2. /\ k.doomed \subseteq DOMAIN v4' /\ k.copy.channel_id \in {0} \cup DOMAIN v4'
        /\ k.arg \in DOMAIN v4'
    BY <1>4, <1>8, <1>10
  <2>3. k.at \in Mirror(s)!Places(k.job)
    BY <1>10 DEF Mirror!Places, Mirror!Words
  <2> QED BY <1>10, <2>1, <2>2, <2>3 DEF Mirror!Fits, Mirror!Words, Mirror!Asked, Mirror!None
<1>12. /\ Moved(s, p) /\ v5'[p] = k /\ \A q \in Mirror(s)!Threads \ {p} : v5'[q] = v5[q]
  <2>1. Mirror(s)!Go(p, k)
    BY <1>1, <1>2, <1>5, <1>9 DEF Mirror!Create
  <2> QED BY <1>1, <1>11, <2>1, MirrorGo
<1>13. \A t \in s.tasks : Attends(s, t, Mirror(s)!Words) /\ Attends(s, t, {"named"})
  BY <1>1, <1>3, <1>12, AttendsOther
<1>14. \A t \in s.tasks : Mirror(s)!Known(t)' /\ Grows(s, t)
  BY <1>1, MirrorMute DEF Mirror!TurnInv, Mirror!Known, Mirror!None
<1>15. Mirror(s)!TurnFits(p)' /\ Mirror(s)!TitleFits(p)'
  <2>1. Mirror(s)!TurnFits(p)'
    BY <1>10, <1>12 DEF Mirror!TurnFits
  <2>2. Mirror(s)!Titled(h.task) => Mirror(s)!Titled(h.task)'
    BY <1>1, <1>3, <1>4, <1>12, KeptWhenMute
  <2>3. PICK t : t = h.task
    OBVIOUS
  <2>4. Mirror(s)!Titled(v5[p].task)' <=> Mirror(s)!Titled(t)'
    BY <1>10, <1>12, <2>3 DEF Mirror!Titled, Mirror!Hearing
  <2>5. k.fresh /\ t \notin v8' => Mirror(s)!Titled(v5[p].task)' \/ k.copy.title = v1'[k.task].title
    <3>1. k.task = t /\ k.copy = h.copy /\ k.fresh = h.fresh
      BY <1>10, <2>3
    <3>2. h.fresh /\ t \notin v8' => Mirror(s)!Titled(t)' \/ h.copy.title = v1'[t].title
      BY <1>1, <1>4, <2>2, <2>3
    <3> QED BY <2>4, <3>1, <3>2
  <2> QED BY <1>10, <1>12, <2>1, <2>3, <2>5 DEF Mirror!TitleFits
<1>16. Mirror(s)!TurnInv' /\ Mirror(s)!TitleInv'
  BY <1>1, <1>12, <1>13, <1>14, <1>15, MirrorStill
<1>17. \A t \in s.tasks : v3'[t].channel_id # c
  BY <1>1, <1>8
<1>18. \A q \in Mirror(s)!Threads : v5[q].at # "none" =>
          /\ v5[q].copy.channel_id # c
          /\ Mirror(s)!Creating(q) => v5[q].arg \in DOMAIN v4 /\ v5[q].arg # c
  <2> SUFFICES ASSUME NEW q \in Mirror(s)!Threads, v5[q].at # "none"
               PROVE  /\ v5[q].copy.channel_id # c
                      /\ Mirror(s)!Creating(q) => v5[q].arg \in DOMAIN v4 /\ v5[q].arg # c
    OBVIOUS
  <2>1. Mirror(s)!Fits(v5[q], DOMAIN v4)
    BY <1>1, MirrorThreads
  <2> QED BY <1>8, <2>1 DEF Mirror!Fits, Mirror!Creating, Mirror!Here, Mirror!None
<1>19. Mirror(s)!ChannelFits(p)'
  <2>1. k.copy.channel_id # 0 => v4'[k.copy.channel_id].task = k.task
    BY <1>4, <1>8, <1>10
  <2>2. k.fresh /\ k.task \notin v8' => v3'[k.task].channel_id = 0
    BY <1>1, <1>4, <1>10
  <2>3. v4'[k.arg].task = k.task /\ k.arg # 0 /\ k.arg \in DOMAIN v4' /\ v4'[k.arg].alive
    BY <1>7, <1>8, <1>10
  <2>4. \A q \in Mirror(s)!Threads : v5'[q].at # "none" =>
           /\ v5'[q].copy.channel_id # k.arg
           /\ q # p /\ Mirror(s)!Creating(q)' => v5'[q].arg # k.arg
    <3> SUFFICES ASSUME NEW q \in Mirror(s)!Threads, v5'[q].at # "none"
                 PROVE  /\ v5'[q].copy.channel_id # k.arg
                        /\ q # p /\ Mirror(s)!Creating(q)' => v5'[q].arg # k.arg
      OBVIOUS
    <3>1. CASE q = p
      BY <1>2, <1>3, <1>10, <1>12, <1>18, <3>1
    <3>2. CASE q # p
      BY <1>10, <1>12, <1>18, <3>2 DEF Mirror!Creating, Mirror!Here
    <3> QED BY <3>1, <3>2
  <2>5. k.at # "detach"
    BY <1>10
  <2>6. v5'[p] = k
    BY <1>12
  <2>7. k.arg = c
    BY <1>10
  <2>8. \A u \in s.tasks : v3'[u].channel_id # k.arg
    BY <1>17, <2>7
  <2> QED BY <2>1, <2>2, <2>3, <2>4, <2>5, <2>6, <2>8
       DEF Mirror!ChannelFits, Mirror!OfTask, Mirror!None, Mirror!Alive, Mirror!Busy, Mirror!Here
<1>20. \A t \in s.tasks : Mirror(s)!OfTask(v3[t].channel_id, t)'
  <2>1. \A t \in s.tasks : v3[t].channel_id # 0 => v4[v3[t].channel_id].task = t
    BY <1>1 DEF Mirror!ChannelInv, Mirror!OfTask, Mirror!None
  <2> QED BY <1>1, <1>8, <2>1 DEF Mirror!OfTask, Mirror!None
<1>21. \A d \in DOMAIN v4 : Mirror(s)!Alive(d) \/ Mirror(s)!Going(d) =>
           Mirror(s)!Alive(d)' \/ Mirror(s)!Going(d)'
  <2> SUFFICES ASSUME NEW d \in DOMAIN v4, Mirror(s)!Alive(d) \/ Mirror(s)!Going(d)
               PROVE  Mirror(s)!Alive(d)' \/ Mirror(s)!Going(d)'
    OBVIOUS
  <2>1. CASE Mirror(s)!Alive(d)
    BY <1>8, <2>1 DEF Mirror!Alive
  <2>2. CASE Mirror(s)!Going(d)
    BY <1>1, <1>3, <1>12, <2>2, GoingStays
  <2> QED BY <2>1, <2>2
<1>22. ASSUME NEW q \in Mirror(s)!Threads \ {p}, Mirror(s)!Creating(q)
       PROVE  /\ \A u \in s.tasks : v3'[u].channel_id # v5[q].arg
              /\ v5'[p].at # "none" =>
                   /\ v5'[p].copy.channel_id # v5[q].arg
                   /\ Mirror(s)!Creating(p)' => v5'[p].arg # v5[q].arg
              /\ v5[q].task \notin v8' =>
                   Mirror(s)!Alive(v5[q].arg)' \/ Mirror(s)!Going(v5[q].arg)'
  <2>1. PICK d : d = v5[q].arg
    OBVIOUS
  <2>2. v5[q].at # "none" /\ Mirror(s)!ChannelFits(q)
    BY <1>1, <1>22 DEF Mirror!Creating, Mirror!Here, Mirror!ChannelInv
  <2>3. d \in DOMAIN v4 /\ d # c
    BY <1>18, <1>22, <2>1, <2>2
  <2>4. /\ \A u \in s.tasks : v3[u].channel_id # d
        /\ v5[p].copy.channel_id # d
        /\ v5[q].task \notin v8 => Mirror(s)!Alive(d) \/ Mirror(s)!Going(d)
    BY <1>2, <1>3, <1>22, <2>1, <2>2 DEF Mirror!ChannelFits, Mirror!Busy
  <2>5. v5[q].task \notin v8' => Mirror(s)!Alive(d)' \/ Mirror(s)!Going(d)'
    BY <1>1, <1>21, <2>3, <2>4
  <2>6. v5'[q].arg = d
    BY <1>12, <2>1
  <2>7. v5[q].task \notin v8' =>
           Mirror(s)!Alive(v5[q].arg)' \/ Mirror(s)!Going(v5[q].arg)'
    BY <2>5, <2>6 DEF Mirror!Alive, Mirror!Going
  <2> QED BY <1>1, <1>2, <1>10, <1>12, <2>1, <2>3, <2>4, <2>7
<1>23. ASSUME NEW t \in s.tasks \ v8' PROVE Mirror(s)!ChannelSits(t)'
  <2>1. Mirror(s)!ChannelSits(t)
    BY <1>1 DEF Mirror!ChannelInv
  <2>2. ASSUME NEW d \in DOMAIN v4', v4'[d].task = t, v4'[d].alive
        PROVE  d = v3'[t].channel_id \/
               \E q \in Mirror(s)!Threads : Mirror(s)!Creating(q)' /\ v5'[q].arg = d
    <3>1. CASE d = c
      BY <1>10, <1>12, <3>1 DEF Mirror!Creating, Mirror!Here
    <3>2. CASE d # c
      <4>1. \/ d = v3[t].channel_id
            \/ \E q \in Mirror(s)!Threads : Mirror(s)!Creating(q) /\ v5[q].arg = d
        BY <1>8, <2>1, <2>2, <3>2 DEF Mirror!ChannelSits
      <4>2. ASSUME NEW q \in Mirror(s)!Threads, Mirror(s)!Creating(q), v5[q].arg = d
            PROVE  Mirror(s)!Creating(q)' /\ v5'[q].arg = d
        BY <1>1, <1>3, <1>12, <4>2, CreatingStays
      <4> QED BY <1>1, <4>1, <4>2
    <3> QED BY <3>1, <3>2
  <2>3. PICK d : d = v3[t].channel_id
    OBVIOUS
  <2>4. v3'[t].channel_id # 0 => Mirror(s)!Alive(v3[t].channel_id)' \/
                                 Mirror(s)!Going(v3[t].channel_id)'
    <3> SUFFICES ASSUME v3'[t].channel_id # 0
                 PROVE  Mirror(s)!Alive(v3[t].channel_id)' \/ Mirror(s)!Going(v3[t].channel_id)'
      OBVIOUS
    <3>1. v3'[t].channel_id = d /\ d \in DOMAIN v4 /\ d # 0
      BY <1>1, <2>3
    <3>2. Mirror(s)!Alive(d) \/ Mirror(s)!Going(d)
      BY <2>1, <2>3, <3>1 DEF Mirror!ChannelSits, Mirror!None
    <3>3. Mirror(s)!Alive(d)' \/ Mirror(s)!Going(d)'
      BY <1>21, <3>1, <3>2
    <3> QED BY <3>1, <3>3 DEF Mirror!Alive, Mirror!Going
  <2> QED BY <2>2, <2>4 DEF Mirror!ChannelSits, Mirror!None
<1>24. Mirror(s)!ChannelInv'
  <2>1. DOMAIN v4 \subseteq DOMAIN v4' /\
          \A d \in DOMAIN v4 : v4'[d].task = v4[d].task /\ (v4'[d].alive => v4[d].alive)
    BY <1>8
  <2>2. \A q \in Mirror(s)!Threads \ {p} :
         v5'[q] = v5[q] /\ v5[q] # Stale(v5[q]) /\ v5[q].at # "none" =>
            v3'[v5[q].task].channel_id \in {v3[v5[q].task].channel_id, 0}
    BY <1>1
  <2> QED BY <1>1, <1>12, <1>19, <1>20, <1>22, <1>23, <2>1, <2>2, ChannelKeeps
<1>25. Mirror(s)!Shape'
  <2>1. /\ v1' \in [s.tasks -> [turn : 0..s.turns, title : Nat, archived : BOOLEAN]]
        /\ v2' \in Seq(Notice(s)) /\ v7' \subseteq s.tasks /\ v8' \subseteq s.tasks
        /\ v3' \in [s.tasks -> Mirror(s)!Row]
    BY <1>1 DEF Mirror!Shape, Notice
  <2>2. \A t \in s.tasks : v3'[t].channel_id \in {0} \cup DOMAIN v4'
    BY <1>1, <1>8
  <2>3. k.job \notin Mirror(s)!Kinds
    BY <1>10, NotHeard
  <2> QED BY <1>1, <1>3, <1>8, <1>10, <1>11, <1>12, <2>1, <2>2, <2>3, MirrorShape
<1> QED BY <1>16, <1>24, <1>25 DEF Mirror!IInv

\* What a handler writes.
Wrote(s, h, r) ==
    /\ r \in Mirror(s)!Row
    /\ h.job # "open" => r.exists = h.copy.exists /\ r.channel_id = h.copy.channel_id
    /\ h.job = "open" => /\ r.exists = TRUE /\ r.channel_id = h.arg
                         /\ r.turn_id = 0 /\ r.state = "idle"
    /\ h.job \notin {"named", "rename"} => r.title = h.copy.title
    /\ h.job \in {"named", "rename"} => r.title = h.arg
    /\ h.job \in {"touch", "named", "rename"} =>
         r.turn_id = h.copy.turn_id /\ r.state = h.copy.state
    /\ h.job \in {"started", "dispatch", "resume"} =>
         r.turn_id = h.arg /\ r.state = "running" /\ h.arg # 0
    /\ h.job \in {"completed", "closed"} =>
         r.turn_id = 0 /\ r.state = "done" /\ h.arg = 0
    /\ h.job \in {"inactive", "unarchived"} =>
         r.turn_id = h.copy.turn_id /\ r.state = "idle"
    /\ h.job = "reconcile" =>
         r.turn_id = h.arg /\ r.state = (IF h.arg = 0 THEN "idle" ELSE "running")
    /\ h.job \in {"started", "completed", "closed", "unarchived", "active", "inactive",
                  "named", "rename", "touch", "dispatch", "resume", "archive", "open",
                  "reconcile"}

LEMMA WrittenHas ==
    ASSUME NEW s \in MirrorScopes, NEW h, NEW known, Mirror(s)!Fits(h, known), h.at = "write",
           NEW r, r = Mirror(s)!Written(h)
    PROVE  Wrote(s, h, r)
<1> USE DEF Wrote
<1>1. /\ h \in Mirror(s)!Handlers /\ h.job \in Mirror(s)!Jobs /\ h.copy \in Mirror(s)!Row
      /\ h.arg \in Nat /\ h.at \in Mirror(s)!Places(h.job)
      /\ h.job \in Mirror(s)!Asked => h.arg \in 0..s.turns
      /\ h.job \in Mirror(s)!Words => (h.arg = 0 <=> h.job # "started")
  BY FitsHas
<1>2. h.job \in {"dispatch", "resume"} => h.arg # 0
  BY DEF Mirror!Fits, Mirror!None
<1>3. h.job \in {"started", "completed", "closed", "unarchived", "active", "inactive",
                 "named", "rename", "touch", "dispatch", "resume", "archive", "open",
                 "reconcile"}
  BY <1>1 DEF Mirror!Jobs, Mirror!Kinds, Mirror!Words, Mirror!Places
<1>4. PICK c : c = h.copy
  OBVIOUS
<1>5. /\ c \in Mirror(s)!Row /\ c.exists \in BOOLEAN /\ c.turn_id \in 0..s.turns
      /\ c.title \in Nat /\ c.channel_id \in Nat /\ c.state \in {"idle", "running", "done"}
  BY <1>1, <1>4 DEF Mirror!Row
<1>6. CASE h.job = "started"
  <2>1. r = [c EXCEPT !.state = "running", !.turn_id = h.arg]
    BY <1>4, <1>6 DEF Mirror!Written
  <2>2. h.arg \in 0..s.turns /\ h.arg # 0
    BY <1>1, <1>6 DEF Mirror!Asked, Mirror!Words
  <2> QED BY <1>4, <1>5, <1>6, <2>1, <2>2 DEF Mirror!Row
<1>7. CASE h.job \in {"completed", "closed"}
  <2>1. r = [c EXCEPT !.state = "done", !.turn_id = 0]
    BY <1>4, <1>7 DEF Mirror!Written, Mirror!None
  <2>2. h.arg = 0 /\ 0 \in 0..s.turns
    BY <1>1, <1>7 DEF Mirror!Asked, Mirror!Words
  <2> QED BY <1>4, <1>5, <1>7, <2>1, <2>2 DEF Mirror!Row
<1>8. CASE h.job \in {"unarchived", "inactive"}
  <2>1. r = [c EXCEPT !.state = "idle"]
    BY <1>4, <1>8 DEF Mirror!Written
  <2> QED BY <1>4, <1>5, <1>8, <2>1 DEF Mirror!Row
<1>9. CASE h.job = "active"
  <2>1. r = [c EXCEPT !.state = "running"]
    BY <1>4, <1>9 DEF Mirror!Written
  <2> QED BY <1>4, <1>5, <1>9, <2>1 DEF Mirror!Row
<1>10. CASE h.job \in {"named", "rename"}
  <2>1. r = [c EXCEPT !.title = h.arg]
    BY <1>4, <1>10 DEF Mirror!Written
  <2> QED BY <1>1, <1>4, <1>5, <1>10, <2>1 DEF Mirror!Row
<1>11. CASE h.job = "touch"
  <2>1. r = c
    BY <1>4, <1>11 DEF Mirror!Written
  <2> QED BY <1>4, <1>5, <1>11, <2>1
<1>12. CASE h.job \in {"dispatch", "resume"}
  <2>1. r = [c EXCEPT !.state = "running", !.turn_id = h.arg]
    BY <1>4, <1>12 DEF Mirror!Written
  <2>2. h.arg \in 0..s.turns /\ h.arg # 0
    BY <1>1, <1>2, <1>12 DEF Mirror!Asked
  <2> QED BY <1>4, <1>5, <1>12, <2>1, <2>2 DEF Mirror!Row
<1>13. CASE h.job = "archive"
  <2>1. r = [c EXCEPT !.state = "done"]
    BY <1>4, <1>13 DEF Mirror!Written
  <2> QED BY <1>4, <1>5, <1>13, <2>1 DEF Mirror!Row
<1>14. CASE h.job = "open"
  <2>1. r = [exists |-> TRUE, state |-> "idle", turn_id |-> 0, title |-> c.title,
             channel_id |-> h.arg]
    BY <1>4, <1>14 DEF Mirror!Written, Mirror!None
  <2>2. 0 \in 0..s.turns
    BY MirrorAssumption
  <2> QED BY <1>1, <1>4, <1>5, <1>14, <2>1, <2>2 DEF Mirror!Row
<1>15. CASE h.job = "reconcile"
  <2>1. r = [c EXCEPT !.turn_id = h.arg, !.state = IF h.arg = 0 THEN "idle" ELSE "running"]
    BY <1>4, <1>15 DEF Mirror!Written, Mirror!None
  <2>2. h.arg \in 0..s.turns
    BY <1>1, <1>15 DEF Mirror!Asked
  <2> QED BY <1>4, <1>5, <1>15, <2>1, <2>2 DEF Mirror!Row
<1> QED BY <1>3, <1>6, <1>7, <1>8, <1>9, <1>10, <1>11, <1>12, <1>13, <1>14, <1>15

\* Handler h writes row r, and goes on with k.
Stores(s, p, h, r, k) ==
    /\ h = v5[p] /\ h.at = "write" /\ r = Mirror(s)!Written(h) /\ Mirror(s)!Store(p, h, r)
    /\ v5' = Mirror(s)!Aged(p, h.task, k) /\ UNCHANGED <<v1, v2, v4, v6>>
    /\ \/ k = Mirror(s)!Idle
       \/ /\ Mirror(s)!Fits(k, DOMAIN v4) /\ k.at \in {"place", "call"}
          /\ k.task = h.task /\ k.copy = r /\ k.job \notin {"open", "rename"}
          /\ p # s.consumer => k.job \notin Mirror(s)!Kinds
          /\ p = s.consumer => /\ k.job = h.job /\ k.job \in {"active", "inactive"}
                               /\ k.arg = h.arg /\ k.fresh = h.fresh /\ k.recent = h.recent

LEMMA StoresHas ==
    ASSUME NEW s \in MirrorScopes, Mirror(s)!IInv, NEW p \in Mirror(s)!Threads,
           NEW h, NEW r, NEW k, Stores(s, p, h, r, k), NEW t, t = h.task
    PROVE  /\ t \in s.tasks /\ v3'[t] = r /\ r \in Mirror(s)!Row /\ r.exists
           /\ v3' \in [s.tasks -> Mirror(s)!Row]
           /\ \A u \in s.tasks \ {t} : v3'[u] = v3[u]
           /\ Moved(s, p) /\ v5'[p] = k /\ v1' = v1 /\ v2' = v2 /\ v4' = v4 /\ v6' = v6
           /\ \A q \in Mirror(s)!Threads \ {p} :
                IF v5[q].at # "none" /\ v5[q].task = t THEN v5'[q] = Stale(v5[q])
                ELSE v5'[q] = v5[q]
           /\ h.at # "none" /\ h.job # "open" => v3[t].exists
           /\ h.job # "open" /\ h.fresh => h.copy = v3[t]
           /\ k.at = "none" \/ (k.at # "none" /\ k.task = t)
           /\ \A u \in s.tasks : Mirror(s)!Known(u)' /\ Grows(s, u)
           /\ \A u \in s.tasks \ {t} :
                Attends(s, u, Mirror(s)!Words) /\ Attends(s, u, {"named"})
<1>1. Mirror(s)!Shape /\ Mirror(s)!TurnInv /\ v3 \in [s.tasks -> Mirror(s)!Row]
  BY DEF Mirror!IInv, Mirror!Shape
<1>2. /\ h = v5[p] /\ h.at = "write" /\ h.at # "none" /\ r = Mirror(s)!Written(h)
      /\ v5' = Mirror(s)!Aged(p, h.task, k)
      /\ v1' = v1 /\ v2' = v2 /\ v4' = v4 /\ v6' = v6
      /\ v3' = [v3 EXCEPT ![t] = r]
  BY DEF Stores, Mirror!Store
<1>3. /\ Mirror(s)!Fits(h, DOMAIN v4) /\ t \in s.tasks
      /\ h.job # "open" => v3[t].exists /\ h.copy.exists
      /\ h.job # "open" /\ h.fresh => h.copy = v3[t]
      /\ (h.job \in Mirror(s)!Kinds <=> p = s.consumer)
  BY <1>2, HandlerHas
<1>4. r \in Mirror(s)!Row /\ r.exists
  <2>1. PICK known : known = DOMAIN v4
    OBVIOUS
  <2>2. Mirror(s)!Fits(h, known)
    BY <1>3, <2>1
  <2>3. /\ r \in Mirror(s)!Row
        /\ h.job # "open" => r.exists = h.copy.exists
        /\ h.job = "open" => r.exists = TRUE
    <3>1. Wrote(s, h, r)
      BY <1>2, <2>2, WrittenHas
    <3> QED BY <3>1 DEF Wrote
  <2> QED BY <1>3, <2>3
<1>5. k = Mirror(s)!Idle \/ (k.at # "none" /\ k.task = t)
  BY DEF Stores
<1>6. /\ Moved(s, p) /\ v5'[p] = k
      /\ \A q \in Mirror(s)!Threads \ {p} :
                IF v5[q].at # "none" /\ v5[q].task = t THEN v5'[q] = Stale(v5[q])
                ELSE v5'[q] = v5[q]
  <2>1. Mirror(s)!Rested(k) = k
    BY <1>5 DEF Mirror!Rested, Mirror!Idle
  <2>2. v5' = Mirror(s)!Aged(p, t, k)
    BY <1>2
  <2> QED BY <1>1, <2>1, <2>2, MirrorAged
<1>7. /\ v3'[t] = r /\ v3' \in [s.tasks -> Mirror(s)!Row]
      /\ \A u \in s.tasks \ {t} : v3'[u] = v3[u]
  BY <1>1, <1>2, <1>3, <1>4
<1>8. \A u \in s.tasks : Mirror(s)!Known(u)' /\ Grows(s, u)
  <2> SUFFICES ASSUME NEW u \in s.tasks PROVE Mirror(s)!Known(u)' /\ Grows(s, u)
    OBVIOUS
  <2>1. /\ v3[u].exists => v3'[u].exists
        /\ v3'[u].channel_id # 0 => v3'[u].exists
    BY <1>1, <1>4, <1>7 DEF Mirror!TurnInv, Mirror!Known, Mirror!None
  <2> QED BY <1>1, <1>2, <2>1, MirrorMute
<1>9. \A u \in s.tasks \ {t} : Attends(s, u, Mirror(s)!Words) /\ Attends(s, u, {"named"})
  <2>1. CASE p # s.consumer
    BY <1>1, <1>6, <2>1, AttendsOther
  <2>2. CASE p = s.consumer
    <3>1. k.at = "none" \/ /\ k.at # "none" /\ k.task = h.task /\ k.job = h.job /\ k.arg = h.arg
                           /\ k.fresh = h.fresh /\ k.recent = h.recent
      BY <1>5, <2>2 DEF Stores, Mirror!Idle
    <3> QED BY <1>2, <1>6, <2>2, <3>1 DEF Attends, Mirror!Hearing
  <2> QED BY <2>1, <2>2
<1>10. k.at = "none" \/ (k.at # "none" /\ k.task = t)
  BY <1>5 DEF Mirror!Idle
<1> QED BY <1>2, <1>3, <1>4, <1>6, <1>7, <1>8, <1>9, <1>10

\* What the write makes of the turn.
LEMMA StoresTurn ==
    ASSUME NEW s \in MirrorScopes, Mirror(s)!IInv, NEW p \in Mirror(s)!Threads,
           NEW h, NEW r, NEW k, Stores(s, p, h, r, k), NEW t, t = h.task, t \notin v7'
    PROVE  Mirror(s)!TurnSits(t)'
<1>1. /\ Mirror(s)!Shape /\ Mirror(s)!TurnInv
      /\ h = v5[p] /\ h.at = "write" /\ h.at # "none" /\ r = Mirror(s)!Written(h)
  BY DEF Mirror!IInv, Stores
<1>2. /\ t \in s.tasks /\ v3'[t] = r /\ v5'[p] = k /\ v1' = v1 /\ v2' = v2 /\ v4' = v4
      /\ h.job # "open" => v3[t].exists
      /\ h.job # "open" /\ h.fresh => h.copy = v3[t]
      /\ k.at = "none" \/ (k.at # "none" /\ k.task = t)
      /\ Moved(s, p)
  BY <1>1, StoresHas
<1>3. PICK c : c = v1[t].turn
  OBVIOUS
<1>4. /\ (h.job \in Mirror(s)!Kinds <=> p = s.consumer)
      /\ h.at = "write" /\ h.job \in {"dispatch", "resume", "reconcile"} /\ h.recent =>
           Mirror(s)!Spoken(t) \/ h.arg = c
      /\ h.at = "write" /\ h.job = "archive" /\ h.fresh => Mirror(s)!Spoken(t)
      /\ Mirror(s)!Fits(h, DOMAIN v4)
  BY <1>1, <1>3, HandlerHas
<1>5. /\ h.job = "open" => r.turn_id = 0 /\ r.state = "idle"
      /\ h.job \in {"touch", "named", "rename"} =>
           r.turn_id = h.copy.turn_id /\ r.state = h.copy.state
      /\ h.job \in {"started", "dispatch", "resume"} =>
           r.turn_id = h.arg /\ r.state = "running" /\ h.arg # 0
      /\ h.job \in {"completed", "closed"} => r.turn_id = 0 /\ r.state = "done" /\ h.arg = 0
      /\ h.job \in {"inactive", "unarchived"} => r.turn_id = h.copy.turn_id /\ r.state = "idle"
      /\ h.job = "reconcile" =>
           r.turn_id = h.arg /\ r.state = (IF h.arg = 0 THEN "idle" ELSE "running")
      /\ h.job \in {"started", "completed", "closed", "unarchived", "active", "inactive",
                    "named", "rename", "touch", "dispatch", "resume", "archive", "open",
                    "reconcile"}
  <2>1. PICK known : known = DOMAIN v4
    OBVIOUS
  <2>2. Mirror(s)!Fits(h, known) /\ h.at = "write" /\ r = Mirror(s)!Written(h)
    BY <1>1, <1>4, <2>1
  <2>3. Wrote(s, h, r)
    BY <2>2, WrittenHas
  <2> QED BY <2>3 DEF Wrote
\* What a task not observed has of it.
<1>6. /\ t \in v7 => h.job = "reconcile" /\ h.recent
      /\ h.job \in Mirror(s)!Asked /\ ~h.recent =>
           r.turn_id = v3[t].turn_id /\ (r.state = "running" <=> v3[t].state = "running")
      /\ h.job \notin Mirror(s)!Asked /\ ~h.fresh =>
           r.turn_id = v3[t].turn_id /\ (r.state = "running" <=> v3[t].state = "running")
      /\ h.job = "open" => c = 0
  <2>1. v7' = IF ~(IF h.job \in Mirror(s)!Asked THEN h.recent ELSE h.fresh)
                  /\ Mirror(s)!Turn(r) # Mirror(s)!Turn(v3[t]) THEN v7 \cup {t}
              ELSE IF h.job = "reconcile" /\ h.recent THEN v7 \ {t}
              ELSE IF h.job = "open" /\ v1[t].turn # 0 THEN v7 \cup {t}
              ELSE v7
    BY DEF Stores, Mirror!Store, Mirror!None
  <2>2. /\ t \in v7 => h.job = "reconcile" /\ h.recent
        /\ h.job = "open" => c = 0
        /\ ~(IF h.job \in Mirror(s)!Asked THEN h.recent ELSE h.fresh) =>
             Mirror(s)!Turn(r) = Mirror(s)!Turn(v3[t])
    BY <1>3, <2>1
  <2>3. Mirror(s)!Turn(r) = Mirror(s)!Turn(v3[t]) =>
           r.turn_id = v3[t].turn_id /\ (r.state = "running" <=> v3[t].state = "running")
    BY DEF Mirror!Turn
  <2> QED BY <2>2, <2>3
<1>7. t \notin v7 => Mirror(s)!TurnHeard(t) /\ Mirror(s)!TurnSits(t)
  BY <1>1, <1>2 DEF Mirror!TurnInv
<1>8. SUFFICES ASSUME ~Mirror(s)!Spoken(t)'
               PROVE  r.turn_id = c /\ (r.state = "running" <=> c # 0)
  BY <1>2, <1>3 DEF Mirror!TurnSits, Mirror!None
<1>9. Mirror(s)!Among(v2, t, Mirror(s)!Words) = {}
  BY <1>2, <1>8 DEF Mirror!Spoken
<1>10. t \notin v7 /\ v3[t].exists /\ ~Mirror(s)!Spoken(t) =>
          v3[t].turn_id = c /\ (v3[t].state = "running" <=> c # 0)
  BY <1>3, <1>7 DEF Mirror!TurnSits, Mirror!None
<1>11. CASE p # s.consumer
  <2>1. ~Mirror(s)!Spoken(t)
    <3>1. Attends(s, t, Mirror(s)!Words)
      BY <1>1, <1>2, <1>11, StoresHas, AttendsOther
    <3>2. Grows(s, t)
      BY <1>2, StoresHas
    <3>3. TurnKept(s, t)
      BY <1>2, <3>1, <3>2, MirrorSpoken
    <3> QED BY <1>8, <3>3 DEF TurnKept
  <2>2. CASE h.job \in {"dispatch", "resume"}
    <3>1. h.job \in Mirror(s)!Asked
      BY <2>2 DEF Mirror!Asked
    <3>2. CASE h.recent
      BY <1>1, <1>4, <1>5, <2>1, <2>2, <3>2
    <3>3. CASE ~h.recent
      BY <1>2, <1>6, <1>10, <2>1, <2>2, <3>1, <3>3
    <3> QED BY <3>2, <3>3
  <2>3. CASE h.job = "reconcile"
    <3>1. h.job \in Mirror(s)!Asked
      BY <2>3 DEF Mirror!Asked
    <3>2. CASE h.recent
      BY <1>1, <1>4, <1>5, <2>1, <2>3, <3>2
    <3>3. CASE ~h.recent
      BY <1>2, <1>6, <1>10, <2>1, <2>3, <3>1, <3>3
    <3> QED BY <3>2, <3>3
  <2>4. CASE h.job \notin {"dispatch", "resume", "reconcile", "open"}
    <3>1. CASE h.job \notin Mirror(s)!Asked
      <4>1. CASE ~h.fresh
        BY <1>2, <1>6, <1>10, <2>1, <2>4, <3>1, <4>1
      <4>2. CASE h.fresh /\ h.job \in {"touch", "named", "rename"}
        BY <1>2, <1>5, <1>6, <1>10, <2>1, <4>2
      <4>3. CASE h.fresh /\ h.job = "archive"
        BY <1>1, <1>4, <2>1, <4>3
      <4>4. CASE h.fresh /\ h.job \in {"inactive", "unarchived", "active"}
        BY <1>4, <1>11, <4>4 DEF Mirror!Kinds, Mirror!Words
      <4> QED BY <1>5, <2>4, <3>1, <4>1, <4>2, <4>3, <4>4 DEF Mirror!Asked
    <3>2. CASE h.job \in Mirror(s)!Asked
      BY <1>4, <1>11, <2>4, <3>2 DEF Mirror!Asked, Mirror!Kinds, Mirror!Words
    <3> QED BY <3>1, <3>2
  <2>5. CASE h.job = "open"
    BY <1>5, <1>6, <2>5
  <2> QED BY <2>2, <2>3, <2>4, <2>5
<1>12. CASE p = s.consumer
  <2>1. /\ h.job \in {"started", "completed", "closed", "active", "inactive", "unarchived", "named"}
        /\ t \notin v7
    BY <1>4, <1>6, <1>12 DEF Mirror!Kinds, Mirror!Words
  <2>2. \A kinds : Mirror(s)!Hearing(t, kinds) <=> h.job \in kinds
    BY <1>1, <1>12 DEF Mirror!Hearing, Mirror!Busy
  <2>3. /\ h.job \in Mirror(s)!Words /\ h.recent => h.arg = c
        /\ ~(h.job = "active" /\ h.fresh)
        /\ h.job \in {"inactive", "unarchived"} /\ h.fresh => c = 0
    BY <1>1, <1>3, <1>7, <1>9, <1>12, <2>1, <2>2 DEF Mirror!TurnHeard, Mirror!None
  <2>4. CASE h.job \in Mirror(s)!Words
    <3>1. h.job \in {"started", "completed", "closed"} /\ h.job \in Mirror(s)!Asked
      BY <2>4 DEF Mirror!Words, Mirror!Asked
    <3>2. CASE h.arg = c
      BY <1>5, <3>1, <3>2
    <3>3. CASE h.arg # c
      <4>1. ~Mirror(s)!Spoken(t) /\ ~h.recent
        BY <1>1, <1>3, <1>9, <1>12, <2>3, <2>4, <3>3 DEF Mirror!Spoken
      <4> QED BY <1>2, <1>6, <1>10, <2>1, <3>1, <4>1
    <3> QED BY <3>2, <3>3
  <2>5. CASE h.job \notin Mirror(s)!Words
    <3>1. ~Mirror(s)!Spoken(t)
      BY <1>9, <2>2, <2>5 DEF Mirror!Spoken
    <3>2. h.job \in {"active", "inactive", "unarchived", "named"} /\ h.job \notin Mirror(s)!Asked
      BY <2>1, <2>5 DEF Mirror!Words, Mirror!Asked
    <3>3. v3[t].turn_id = c /\ (v3[t].state = "running" <=> c # 0) /\ h.job # "open"
      BY <1>2, <1>10, <2>1, <3>1, <3>2
    <3>4. CASE ~h.fresh
      BY <1>6, <3>2, <3>3, <3>4
    <3>5. CASE h.fresh
      BY <1>2, <1>5, <2>3, <3>2, <3>3, <3>5
    <3> QED BY <3>4, <3>5
  <2> QED BY <2>4, <2>5
<1> QED BY <1>11, <1>12

\* What is observed of the write.
LEMMA StoresOff ==
    ASSUME NEW s \in MirrorScopes, Mirror(s)!IInv, NEW p \in Mirror(s)!Threads,
           NEW h, NEW r, NEW k, Stores(s, p, h, r, k), NEW t, t = h.task
    PROVE  /\ t \in v7 /\ t \notin v7' => h.job = "reconcile" /\ h.recent
           /\ v7 \subseteq v7' \cup {t} /\ v7' \subseteq s.tasks
           /\ v8 \subseteq v8' /\ v8' \subseteq s.tasks
           /\ t \notin v8' /\ ~h.fresh => r.title = v3[t].title /\ r.channel_id = v3[t].channel_id
<1>1. t \in s.tasks
  BY StoresHas
<1>2. v7 \subseteq s.tasks /\ v8 \subseteq s.tasks
  BY DEF Mirror!IInv, Mirror!Shape
<1>3. v7' = IF ~(IF h.job \in Mirror(s)!Asked THEN h.recent ELSE h.fresh)
                  /\ Mirror(s)!Turn(r) # Mirror(s)!Turn(v3[t]) THEN v7 \cup {t}
              ELSE IF h.job = "reconcile" /\ h.recent THEN v7 \ {t}
              ELSE IF h.job = "open" /\ v1[t].turn # 0 THEN v7 \cup {t}
              ELSE v7
  BY DEF Stores, Mirror!Store, Mirror!None
<1>4. v8' = IF ~h.fresh /\ Mirror(s)!Rest(r) # Mirror(s)!Rest(v3[t]) THEN v8 \cup {t} ELSE v8
  BY DEF Stores, Mirror!Store
<1>5. Mirror(s)!Rest(r) = Mirror(s)!Rest(v3[t]) =>
         r.title = v3[t].title /\ r.channel_id = v3[t].channel_id
  BY DEF Mirror!Rest
<1> QED BY <1>1, <1>2, <1>3, <1>4, <1>5

\* The turns of the tasks after the write.
LEMMA StoresTurns ==
    ASSUME NEW s \in MirrorScopes, Mirror(s)!IInv, NEW p \in Mirror(s)!Threads,
           NEW h, NEW r, NEW k, Stores(s, p, h, r, k),
           NEW u \in s.tasks \ v7'
    PROVE  Mirror(s)!TurnHeard(u)' /\ Mirror(s)!TurnSits(u)'
<1>1. PICK t : t = h.task
  OBVIOUS
<1>2. /\ Mirror(s)!Shape /\ Mirror(s)!TurnInv
      /\ h = v5[p] /\ h.at = "write" /\ h.at # "none"
  BY DEF Mirror!IInv, Stores
<1>3. /\ t \in s.tasks /\ v5'[p] = k /\ v1' = v1 /\ v2' = v2 /\ Moved(s, p)
      /\ \A q \in Mirror(s)!Threads \ {p} :
            IF v5[q].at # "none" /\ v5[q].task = t THEN v5'[q] = Stale(v5[q])
            ELSE v5'[q] = v5[q]
      /\ \A w \in s.tasks : Grows(s, w)
      /\ \A w \in s.tasks \ {t} : v3'[w] = v3[w] /\ Attends(s, w, Mirror(s)!Words)
  BY <1>1, StoresHas
<1>4. /\ u = t /\ t \in v7 => h.job = "reconcile"
      /\ u # t => u \notin v7
  <2>1. /\ t \in v7 /\ t \notin v7' => h.job = "reconcile" /\ h.recent
        /\ v7 \subseteq v7' \cup {t}
    BY <1>1, StoresOff
  <2> QED BY <2>1
<1>5. CASE u # t
  <2>1. Mirror(s)!TurnHeard(u) /\ Mirror(s)!TurnSits(u)
    BY <1>2, <1>4, <1>5 DEF Mirror!TurnInv
  <2>2. Attends(s, u, Mirror(s)!Words) /\ Grows(s, u) /\ v3'[u] = v3[u]
    BY <1>3, <1>5
  <2>3. TurnKept(s, u)
    BY <2>2, MirrorSpoken
  <2>4. Mirror(s)!TurnHeard(u)'
    BY <2>1, <2>2, TurnHeardStill
  <2>5. Mirror(s)!TurnSits(u)'
    BY <2>1, <2>2, <2>3, TurnSitsStill
  <2> QED BY <2>4, <2>5
<1>6. CASE u = t
  <2>1. Mirror(s)!TurnSits(u)'
    BY <1>1, <1>6, StoresTurn
  <2>2. CASE p # s.consumer
    <3>1. /\ s.consumer \in Mirror(s)!Threads
          /\ v5[s.consumer].at # "none" => v5[s.consumer] \in Mirror(s)!Handlers
      BY <1>2, MirrorThreads, FitsHas
    <3>2. \/ v5'[s.consumer].at = "none" \/ v5'[s.consumer].task # t
          \/ v5'[s.consumer].fresh = FALSE /\ v5'[s.consumer].recent = FALSE
      <4>1. PICK g : g = v5[s.consumer]
        OBVIOUS
      <4>2. IF g.at # "none" /\ g.task = t THEN v5'[s.consumer] = Stale(g)
            ELSE v5'[s.consumer] = g
        BY <1>3, <2>2, <3>1, <4>1
      <4>3. g.at # "none" => Stale(g).fresh = FALSE /\ Stale(g).recent = FALSE
        BY <3>1, <4>1, StaleHas
      <4> QED BY <4>2, <4>3
    <3> QED BY <1>6, <2>1, <3>2 DEF Mirror!TurnHeard, Mirror!Hearing, Mirror!Busy
  <2>3. CASE p = s.consumer
    <3>1. h.job \in Mirror(s)!Kinds
      BY <1>2, <2>3, HandlerHas
    <3>2. Mirror(s)!TurnHeard(t)
      BY <1>2, <1>3, <1>4, <1>6, <3>1 DEF Mirror!TurnInv, Mirror!Kinds, Mirror!Words
    <3>3. \/ k.at = "none"
          \/ /\ k.at # "none" /\ k.task = h.task /\ k.job = h.job /\ k.arg = h.arg
             /\ k.fresh = h.fresh /\ k.recent = h.recent
      BY <1>2, <2>3 DEF Stores, Mirror!Idle
    <3>4. Attends(s, t, {})
      BY <1>2, <1>3, <2>3, <3>3 DEF Attends, Mirror!Hearing
    <3>5. Mirror(s)!TurnHeard(t)'
      BY <1>3, <3>2, <3>4, TurnHeardStill
    <3> QED BY <1>6, <2>1, <3>5
  <2> QED BY <2>2, <2>3
<1> QED BY <1>5, <1>6

\* One that has created a channel has it to itself.
LEMMA CreatingHas ==
    ASSUME NEW s \in MirrorScopes, Mirror(s)!IInv, NEW p \in Mirror(s)!Threads,
           NEW h, h = v5[p], h.at = "write", h.job = "open"
    PROVE  /\ Mirror(s)!Creating(p) /\ h.arg # 0 /\ h.arg \in DOMAIN v4
           /\ v4[h.arg].task = h.task
           /\ \A u \in s.tasks : v3[u].channel_id # h.arg
           /\ \A q \in Mirror(s)!Threads : v5[q].at # "none" =>
                /\ v5[q].copy.channel_id # h.arg
                /\ q # p /\ Mirror(s)!Creating(q) => v5[q].arg # h.arg
           /\ h.task \notin v8 => Mirror(s)!Alive(h.arg) \/ Mirror(s)!Going(h.arg)
           /\ h.fresh /\ h.task \notin v8 => v3[h.task].channel_id = 0
<1>1. Mirror(s)!ChannelFits(p) /\ Mirror(s)!Creating(p) /\ h.at # "none"
  BY DEF Mirror!IInv, Mirror!ChannelInv, Mirror!Creating, Mirror!Here
<1>2. Mirror(s)!Fits(h, DOMAIN v4)
  BY <1>1, HandlerHas
<1>3. h.arg \in DOMAIN v4
  BY <1>2 DEF Mirror!Fits
<1> QED BY <1>1, <1>3 DEF Mirror!ChannelFits, Mirror!Busy, Mirror!OfTask, Mirror!None

\* What the write makes of the title.
LEMMA StoresTitles ==
    ASSUME NEW s \in MirrorScopes, Mirror(s)!IInv, NEW p \in Mirror(s)!Threads,
           NEW h, NEW r, NEW k, Stores(s, p, h, r, k), NEW u \in s.tasks \ v8'
    PROVE  Mirror(s)!TitleSits(u)'
<1>1. PICK t : t = h.task
  OBVIOUS
<1>2. /\ Mirror(s)!Shape /\ Mirror(s)!TitleInv
      /\ h = v5[p] /\ h.at = "write" /\ h.at # "none" /\ r = Mirror(s)!Written(h)
  BY DEF Mirror!IInv, Stores
<1>3. /\ t \in s.tasks /\ v5'[p] = k /\ v1' = v1 /\ v2' = v2 /\ Moved(s, p) /\ v3'[t] = r
      /\ h.job # "open" => v3[t].exists
      /\ h.job # "open" /\ h.fresh => h.copy = v3[t]
      /\ \A w \in s.tasks : Grows(s, w)
      /\ \A w \in s.tasks \ {t} : v3'[w] = v3[w] /\ Attends(s, w, {"named"})
  BY <1>1, <1>2, StoresHas
<1>4. /\ v8 \subseteq v8'
      /\ t \notin v8' /\ ~h.fresh => r.title = v3[t].title /\ r.channel_id = v3[t].channel_id
  BY <1>1, StoresOff
<1>5. Mirror(s)!TitleSits(u)
  BY <1>2, <1>4 DEF Mirror!TitleInv
<1>6. CASE u # t
  <2>1. Attends(s, u, {"named"}) /\ Grows(s, u) /\ v3'[u] = v3[u]
    BY <1>3, <1>6
  <2> QED BY <1>5, <2>1, TitleOfTask
<1>7. CASE u = t
  <2>1. PICK c : c = v1[t].title
    OBVIOUS
  <2>2. /\ v3[t].exists /\ ~Mirror(s)!Titled(t) => v3[t].title = c
        /\ Mirror(s)!Hearing(t, {"named"}) /\ Mirror(s)!Among(v2, t, {"named"}) = {} =>
             v5[s.consumer].arg = c
    BY <1>5, <1>7, <2>1 DEF Mirror!TitleSits
  <2>3. /\ Mirror(s)!Fits(h, DOMAIN v4) /\ (h.job \in Mirror(s)!Kinds <=> p = s.consumer)
        /\ h.fresh /\ t \notin v8 /\ h.job = "rename" => Mirror(s)!Titled(t)
        /\ h.fresh /\ t \notin v8 /\ h.job = "open" => Mirror(s)!Titled(t) \/ h.copy.title = c
    BY <1>1, <1>2, <2>1, HandlerHas
  <2>4. /\ h.job \notin {"named", "rename"} => r.title = h.copy.title
        /\ h.job \in {"named", "rename"} => r.title = h.arg
        /\ h.job = "open" => r.channel_id = h.arg
    <3>1. PICK known : known = DOMAIN v4
      OBVIOUS
    <3>2. Mirror(s)!Fits(h, known) /\ h.at = "write" /\ r = Mirror(s)!Written(h)
      BY <1>2, <2>3, <3>1
    <3>3. Wrote(s, h, r)
      BY <3>2, WrittenHas
    <3> QED BY <3>3 DEF Wrote
  <2>5. \/ k.at = "none"
        \/ k.at # "none" /\ (p = s.consumer => k.job \in {"active", "inactive"})
    BY DEF Stores, Mirror!Idle
  <2>6. Mirror(s)!Hearing(t, {"named"})' =>
           p # s.consumer /\ Mirror(s)!Hearing(t, {"named"}) /\ v5'[s.consumer].arg = v5[s.consumer].arg
    <3>1. CASE p = s.consumer
      BY <1>3, <2>5, <3>1 DEF Mirror!Hearing, Mirror!Busy
    <3>2. CASE p # s.consumer
      <4>1. s.consumer \in Mirror(s)!Threads
        BY <1>2, MirrorThreads
      <4>2. /\ v5'[s.consumer].at = v5[s.consumer].at
            /\ v5[s.consumer].at # "none" =>
                 /\ v5'[s.consumer].job = v5[s.consumer].job
                 /\ v5'[s.consumer].task = v5[s.consumer].task
                 /\ v5'[s.consumer].arg = v5[s.consumer].arg
        BY <1>2, <1>3, <3>2, <4>1, OtherHas
      <4> QED BY <3>2, <4>2 DEF Mirror!Hearing, Mirror!Busy
    <3> QED BY <3>1, <3>2
  <2>7. Mirror(s)!Hearing(t, {"named"})' /\ Mirror(s)!Among(v2', t, {"named"}) = {} =>
           v5'[s.consumer].arg = v1'[t].title
    BY <1>3, <2>1, <2>2, <2>6
  <2>8. ASSUME ~Mirror(s)!Titled(t)'
        PROVE  r.title = c
    <3>1. Mirror(s)!Among(v2, t, {"named"}) = {}
      BY <1>3, <2>8 DEF Mirror!Titled
    <3>2. CASE p = s.consumer /\ h.job = "named"
      <4>1. Mirror(s)!Hearing(t, {"named"})
        BY <1>1, <1>2, <3>2 DEF Mirror!Hearing, Mirror!Busy
      <4> QED BY <1>2, <2>2, <2>4, <3>1, <3>2, <4>1
    <3>3. CASE ~(p = s.consumer /\ h.job = "named")
      <4>1. ~Mirror(s)!Titled(t)
        <5>1. CASE p = s.consumer
          BY <1>2, <3>1, <3>3, <5>1 DEF Mirror!Titled, Mirror!Hearing
        <5>2. CASE p # s.consumer
          <6>1. Attends(s, t, {"named"}) /\ Grows(s, t)
            BY <1>2, <1>3, <5>2, AttendsOther
          <6>2. TitleKept(s, t)
            BY <1>3, <6>1, MirrorSpoken
          <6> QED BY <2>8, <6>2 DEF TitleKept
        <5> QED BY <5>1, <5>2
      <4>2. h.job # "named"
        BY <2>3, <3>3 DEF Mirror!Kinds
      <4>3. t \notin v8 /\ t \notin v8'
        BY <1>4, <1>7
      <4>4. CASE h.job # "open"
        BY <1>3, <1>4, <2>2, <2>3, <2>4, <4>1, <4>2, <4>3, <4>4
      <4>5. CASE h.job = "open"
        <5>1. CASE h.fresh
          BY <2>3, <2>4, <4>1, <4>3, <4>5, <5>1
        <5>2. CASE ~h.fresh
          <6>1. v3[t].channel_id # h.arg
            BY <1>2, <1>3, <4>5, CreatingHas
          <6> QED BY <1>4, <2>4, <4>3, <4>5, <5>2, <6>1
        <5> QED BY <5>1, <5>2
      <4> QED BY <4>4, <4>5
    <3> QED BY <3>2, <3>3
  <2> QED BY <1>3, <1>7, <2>1, <2>7, <2>8 DEF Mirror!TitleSits
<1> QED BY <1>6, <1>7

\* The channel in the row that is written.
LEMMA StoresChannel ==
    ASSUME NEW s \in MirrorScopes, Mirror(s)!IInv, NEW p \in Mirror(s)!Threads,
           NEW h, NEW r, NEW k, Stores(s, p, h, r, k), NEW t, t = h.task
    PROVE  /\ r.channel_id # 0 => v4[r.channel_id].task = t /\ r.channel_id \in DOMAIN v4
           /\ h.job # "open" => r.channel_id = h.copy.channel_id
           /\ h.job = "open" => r.channel_id = h.arg
           /\ t \notin v8' => IF h.job = "open" THEN h.fresh /\ v3[t].channel_id = 0
                              ELSE r.channel_id = v3[t].channel_id
           /\ \A q \in Mirror(s)!Threads \ {p} : Mirror(s)!Creating(q) => r.channel_id # v5[q].arg
<1>1. h = v5[p] /\ h.at = "write" /\ h.at # "none" /\ r = Mirror(s)!Written(h)
  BY DEF Stores
<1>2. /\ h.copy.channel_id # 0 => v4[h.copy.channel_id].task = t
      /\ Mirror(s)!Fits(h, DOMAIN v4) /\ t \in s.tasks
      /\ h.copy.channel_id \in {0} \cup DOMAIN v4
  BY <1>1, HandlerHas
<1>3. h.job # "open" /\ h.fresh => h.copy = v3[t]
  BY <1>1, StoresHas
<1>4. h.job = "open" =>
        /\ Mirror(s)!Creating(p) /\ h.arg # 0 /\ v4[h.arg].task = t /\ h.arg \in DOMAIN v4
        /\ v3[t].channel_id # h.arg
        /\ h.fresh /\ t \notin v8 => v3[t].channel_id = 0
  BY <1>1, <1>2, CreatingHas
<1>5. /\ h.job # "open" => r.channel_id = h.copy.channel_id
      /\ h.job = "open" => r.channel_id = h.arg
  <2>1. PICK known : known = DOMAIN v4
    OBVIOUS
  <2>2. Mirror(s)!Fits(h, known) /\ h.at = "write" /\ r = Mirror(s)!Written(h)
    BY <1>1, <1>2, <2>1
  <2>3. Wrote(s, h, r)
    BY <2>2, WrittenHas
  <2> QED BY <2>3 DEF Wrote
<1>6. /\ v8 \subseteq v8'
      /\ t \notin v8' /\ ~h.fresh => r.channel_id = v3[t].channel_id
  BY StoresOff
<1>7. ASSUME NEW q \in Mirror(s)!Threads \ {p}, Mirror(s)!Creating(q)
      PROVE  r.channel_id # v5[q].arg
  <2>1. v5[q].at = "write" /\ v5[q].job = "open"
    BY <1>7 DEF Mirror!Creating, Mirror!Here
  <2>2. /\ v5[p].copy.channel_id # v5[q].arg
        /\ Mirror(s)!Creating(p) => v5[p].arg # v5[q].arg
    BY <1>1, <2>1, CreatingHas
  <2> QED BY <1>1, <1>4, <1>5, <2>2
<1> QED BY <1>2, <1>3, <1>4, <1>5, <1>6, <1>7

LEMMA StoresSits ==
    ASSUME NEW s \in MirrorScopes, Mirror(s)!IInv, NEW p \in Mirror(s)!Threads,
           NEW h, NEW r, NEW k, Stores(s, p, h, r, k), NEW u \in s.tasks \ v8'
    PROVE  Mirror(s)!ChannelSits(u)'
<1>1. PICK t : t = h.task
  OBVIOUS
<1>2. /\ Mirror(s)!Shape /\ Mirror(s)!ChannelInv
      /\ h = v5[p] /\ h.at = "write" /\ h.at # "none" /\ p \in Mirror(s)!Threads
      /\ v4 \in Seq([task : s.tasks, category : {"running", "done"}, alive : BOOLEAN])
  BY DEF Mirror!IInv, Stores, Mirror!Shape
<1>3. /\ t \in s.tasks /\ v4' = v4 /\ Moved(s, p) /\ v3'[t] = r
      /\ \A w \in s.tasks \ {t} : v3'[w] = v3[w]
  BY <1>1, StoresHas
<1>4. v8 \subseteq v8'
  BY <1>1, StoresOff
<1>5. /\ \A c \in DOMAIN v4 : v4[c].task = u /\ v4[c].alive =>
           c = v3[u].channel_id \/ \E q \in Mirror(s)!Threads : Mirror(s)!Creating(q) /\ v5[q].arg = c
      /\ v3[u].channel_id # 0 => Mirror(s)!Alive(v3[u].channel_id) \/ Mirror(s)!Going(v3[u].channel_id)
  BY <1>2, <1>4 DEF Mirror!ChannelInv, Mirror!ChannelSits, Mirror!None
<1>6. \A c : Mirror(s)!Alive(c) \/ Mirror(s)!Going(c) => Mirror(s)!Alive(c)' \/ Mirror(s)!Going(c)'
  <2> SUFFICES ASSUME NEW c, Mirror(s)!Alive(c) \/ Mirror(s)!Going(c)
               PROVE  Mirror(s)!Alive(c)' \/ Mirror(s)!Going(c)'
    OBVIOUS
  <2>1. CASE Mirror(s)!Alive(c)
    BY <1>3, <2>1 DEF Mirror!Alive
  <2>2. CASE Mirror(s)!Going(c)
    BY <1>2, <1>3, <2>2, GoingStays
  <2> QED BY <2>1, <2>2
<1>7. \A q \in Mirror(s)!Threads \ {p} : Mirror(s)!Creating(q) =>
         Mirror(s)!Creating(q)' /\ v5'[q].arg = v5[q].arg
  BY <1>2, <1>3, CreatingStays
<1>8. Mirror(s)!Creating(p) => h.job = "open"
  BY <1>2 DEF Mirror!Creating
<1>9. h.job = "open" => v4[h.arg].task = t
  BY <1>1, <1>2, CreatingHas
<1>10. PICK d : d = v3'[u].channel_id
  OBVIOUS
<1>11. /\ \A c \in DOMAIN v4 : v4[c].task = u /\ v4[c].alive =>
            c = d \/ \E q \in Mirror(s)!Threads : Mirror(s)!Creating(q)' /\ v5'[q].arg = c
       /\ d # 0 => Mirror(s)!Alive(d)' \/ Mirror(s)!Going(d)'
  <2>1. CASE ~(u = t /\ h.job = "open")
    <3>1. d = v3[u].channel_id
      <4>1. u = t => r.channel_id = v3[t].channel_id
        BY <1>1, <2>1, StoresChannel
      <4> QED BY <1>3, <1>10, <4>1
    <3>2. ASSUME NEW c \in DOMAIN v4, v4[c].task = u, v4[c].alive, c # d
          PROVE  \E q \in Mirror(s)!Threads : Mirror(s)!Creating(q)' /\ v5'[q].arg = c
      <4>1. PICK q \in Mirror(s)!Threads : Mirror(s)!Creating(q) /\ v5[q].arg = c
        BY <1>5, <3>1, <3>2
      <4>2. q # p
        BY <1>2, <1>8, <1>9, <2>1, <3>2, <4>1
      <4> QED BY <1>7, <4>1, <4>2
    <3> QED BY <1>5, <1>6, <3>1, <3>2
  <2>2. CASE u = t /\ h.job = "open"
    <3>1. v3[t].channel_id = 0 /\ r.channel_id = h.arg
      BY <1>1, <2>2, StoresChannel
    <3>2. d = h.arg
      BY <1>3, <1>10, <2>2, <3>1
    <3>3. ASSUME NEW c \in DOMAIN v4, v4[c].task = u, v4[c].alive, c # d
          PROVE  \E q \in Mirror(s)!Threads : Mirror(s)!Creating(q)' /\ v5'[q].arg = c
      <4>1. c # 0
        BY <1>2, ChannelHas
      <4>2. PICK q \in Mirror(s)!Threads : Mirror(s)!Creating(q) /\ v5[q].arg = c
        BY <1>5, <2>2, <3>1, <3>3, <4>1
      <4>3. q # p
        BY <1>2, <3>2, <3>3, <4>2
      <4> QED BY <1>7, <4>2, <4>3
    <3>4. Mirror(s)!Alive(d) \/ Mirror(s)!Going(d)
      BY <1>1, <1>2, <1>4, <2>2, <3>2, CreatingHas
    <3> QED BY <1>6, <3>3, <3>4
  <2> QED BY <2>1, <2>2
<1>12. \A c \in DOMAIN v4' : v4'[c].task = u /\ v4'[c].alive =>
            c = d \/ \E q \in Mirror(s)!Threads : Mirror(s)!Creating(q)' /\ v5'[q].arg = c
  BY <1>3, <1>11
<1> QED BY <1>10, <1>11, <1>12
       DEF Mirror!ChannelSits, Mirror!Alive, Mirror!Going, Mirror!Here, Mirror!None,
           Mirror!Creating, Mirror!Threads

\* The channels after the write.
LEMMA StoresChannels ==
    ASSUME NEW s \in MirrorScopes, Mirror(s)!IInv, NEW p \in Mirror(s)!Threads,
           NEW h, NEW r, NEW k, Stores(s, p, h, r, k)
    PROVE  Mirror(s)!ChannelInv'
<1>1. PICK t : t = h.task
  OBVIOUS
<1>2. /\ Mirror(s)!Shape /\ Mirror(s)!ChannelInv
      /\ h = v5[p] /\ h.at = "write" /\ h.at # "none"
      /\ \A u \in s.tasks : v3[u].channel_id # 0 => v4[v3[u].channel_id].task = u
  BY DEF Mirror!IInv, Stores, Mirror!ChannelInv, Mirror!OfTask, Mirror!None
<1>3. /\ t \in s.tasks /\ v4' = v4 /\ Moved(s, p) /\ v3'[t] = r /\ v5'[p] = k
      /\ \A w \in s.tasks \ {t} : v3'[w] = v3[w]
      /\ \A q \in Mirror(s)!Threads \ {p} :
            IF v5[q].at # "none" /\ v5[q].task = t THEN v5'[q] = Stale(v5[q])
            ELSE v5'[q] = v5[q]
  BY <1>1, StoresHas
<1>4. v8 \subseteq v8'
  BY <1>1, StoresOff
<1>5. /\ r.channel_id # 0 => v4[r.channel_id].task = t
      /\ \A q \in Mirror(s)!Threads \ {p} : Mirror(s)!Creating(q) => r.channel_id # v5[q].arg
  BY <1>1, StoresChannel
<1>6. k.at = "none" \/ /\ k.at \in {"place", "call"} /\ k.task = t /\ k.copy = r
                       /\ k.job # "open"
  BY <1>1 DEF Stores, Mirror!Idle
<1>7. \A u \in s.tasks : Mirror(s)!OfTask(v3[u].channel_id, u)'
  BY <1>2, <1>3, <1>5 DEF Mirror!OfTask, Mirror!None
<1>8. ~Mirror(s)!Creating(p)'
  BY <1>3, <1>6 DEF Mirror!Creating, Mirror!Here
<1>9. Mirror(s)!ChannelFits(p)'
  BY <1>3, <1>5, <1>6, <1>8
     DEF Mirror!ChannelFits, Mirror!Busy, Mirror!Here, Mirror!OfTask, Mirror!None
<1>10. \A q \in Mirror(s)!Threads : v5[q].at # "none" => v5[q].task \in s.tasks
  BY <1>2, MirrorThreads, FitsHas
<1>11. \A q \in Mirror(s)!Threads \ {p} : v5'[q] = v5[q] /\ v5[q] # Stale(v5[q]) /\ v5[q].at # "none" =>
              v3'[v5[q].task].channel_id \in {v3[v5[q].task].channel_id, 0}
  BY <1>3, <1>10
<1>12. ASSUME NEW q \in Mirror(s)!Threads \ {p}, Mirror(s)!Creating(q)
       PROVE  /\ \A u \in s.tasks : v3'[u].channel_id # v5[q].arg
              /\ v5'[p].at # "none" =>
                   /\ v5'[p].copy.channel_id # v5[q].arg
                   /\ Mirror(s)!Creating(p)' => v5'[p].arg # v5[q].arg
              /\ v5[q].task \notin v8' => Mirror(s)!Alive(v5[q].arg)' \/ Mirror(s)!Going(v5[q].arg)'
  <2>1. v5[q].at = "write" /\ v5[q].job = "open"
    BY <1>12 DEF Mirror!Creating, Mirror!Here
  <2>2. PICK c : c = v5[q].arg
    OBVIOUS
  <2>3. /\ \A u \in s.tasks : v3[u].channel_id # c
        /\ v5[q].task \notin v8 => Mirror(s)!Alive(c) \/ Mirror(s)!Going(c)
    BY <2>1, <2>2, CreatingHas
  <2>4. \A u \in s.tasks : v3'[u].channel_id # v5[q].arg
    BY <1>3, <1>5, <1>12, <2>2, <2>3
  <2>5. Mirror(s)!Alive(c) => Mirror(s)!Alive(c)'
    BY <1>3 DEF Mirror!Alive
  <2>6. Mirror(s)!Going(c) => Mirror(s)!Going(c)'
    BY <1>2, <1>3, GoingStays
  <2>7. PICK d : d = v5[q].task
    OBVIOUS
  <2>8. d \notin v8' => Mirror(s)!Alive(c)' \/ Mirror(s)!Going(c)'
    BY <1>4, <2>3, <2>5, <2>6, <2>7
  <2>9. Mirror(s)!Alive(c)' \/ Mirror(s)!Going(c)' =>
           Mirror(s)!Alive(v5[q].arg)' \/ Mirror(s)!Going(v5[q].arg)'
    <3>1. v5'[q].arg = c
      BY <1>2, <1>3, <1>12, <2>2, CreatingStays
    <3> QED BY <3>1
  <2> QED BY <1>3, <1>5, <1>6, <1>8, <1>12, <2>4, <2>7, <2>8, <2>9
<1>13. \A u \in s.tasks \ v8' : Mirror(s)!ChannelSits(u)'
  BY StoresSits
<1> QED BY <1>2, <1>3, <1>4, <1>7, <1>9, <1>11, <1>12, <1>13, ChannelKeeps

\* A write keeps the invariant.
LEMMA StoresKeeps ==
    ASSUME NEW s \in MirrorScopes, Mirror(s)!IInv, NEW p \in Mirror(s)!Threads,
           NEW h, NEW r, NEW k, Stores(s, p, h, r, k)
    PROVE  Mirror(s)!IInv'
<1>1. PICK t : t = h.task
  OBVIOUS
<1>2. /\ Mirror(s)!Shape /\ Mirror(s)!TurnInv /\ Mirror(s)!TitleInv
      /\ h = v5[p] /\ h.at = "write" /\ h.at # "none"
  BY DEF Mirror!IInv, Stores
<1>3. /\ t \in s.tasks /\ v5'[p] = k /\ v1' = v1 /\ v2' = v2 /\ v4' = v4 /\ v6' = v6
      /\ Moved(s, p) /\ v3'[t] = r /\ r.exists /\ v3' \in [s.tasks -> Mirror(s)!Row]
      /\ \A w \in s.tasks \ {t} : v3'[w] = v3[w]
      /\ \A q \in Mirror(s)!Threads \ {p} :
            IF v5[q].at # "none" /\ v5[q].task = t THEN v5'[q] = Stale(v5[q])
            ELSE v5'[q] = v5[q]
      /\ \A u \in s.tasks : Mirror(s)!Known(u)' /\ Grows(s, u)
      /\ \A u \in s.tasks \ {t} :
            Attends(s, u, Mirror(s)!Words) /\ Attends(s, u, {"named"})
  BY <1>1, <1>2, StoresHas
<1>4. /\ v8 \subseteq v8' /\ v8' \subseteq s.tasks /\ v7' \subseteq s.tasks
  BY <1>1, StoresOff
<1>5. \/ k = Mirror(s)!Idle /\ k.at = "none"
      \/ /\ Mirror(s)!Fits(k, DOMAIN v4) /\ k.at \in {"place", "call"}
         /\ k.task = t /\ k.copy = r /\ k.job \notin {"open", "rename"}
         /\ p # s.consumer => k.job \notin Mirror(s)!Kinds
         /\ p = s.consumer => k.job \in {"active", "inactive"}
  BY <1>1 DEF Stores, Mirror!Idle
<1>6. Mirror(s)!TurnFits(p)'
  BY <1>3, <1>5 DEF Mirror!TurnFits, Mirror!Busy
<1>7. Mirror(s)!TitleFits(p)'
  BY <1>3, <1>5 DEF Mirror!TitleFits, Mirror!Busy
<1>8. \A u \in s.tasks : v3[u].exists => v3'[u].exists
  BY <1>3
<1>9. \A q \in Mirror(s)!Threads \ {p} : v5'[q] = v5[q] /\ v5[q] # Stale(v5[q]) /\ v5[q].at # "none" =>
              /\ v3'[v5[q].task] = v3[v5[q].task]
              /\ TurnKept(s, v5[q].task) /\ TitleKept(s, v5[q].task)
  <2> SUFFICES ASSUME NEW q \in Mirror(s)!Threads \ {p}, v5'[q] = v5[q], v5[q] # Stale(v5[q]),
                      v5[q].at # "none", NEW u, u = v5[q].task
               PROVE  v3'[u] = v3[u] /\ TurnKept(s, u) /\ TitleKept(s, u)
    OBVIOUS
  <2>1. u \in s.tasks \ {t}
    BY <1>2, <1>3, MirrorThreads, FitsHas
  <2> QED BY <1>3, <2>1, MirrorSpoken
<1>10. \A u \in s.tasks \ v7' : Mirror(s)!TurnHeard(u)' /\ Mirror(s)!TurnSits(u)'
  BY StoresTurns
<1>11. \A u \in s.tasks \ v8' : Mirror(s)!TitleSits(u)'
  BY StoresTitles
<1>12. Mirror(s)!TurnInv' /\ Mirror(s)!TitleInv'
  BY <1>2, <1>3, <1>4, <1>6, <1>7, <1>8, <1>9, <1>10, <1>11, MirrorKeeps
<1>13. Mirror(s)!Shape'
  <2>1. /\ v1' \in [s.tasks -> [turn : 0..s.turns, title : Nat, archived : BOOLEAN]]
        /\ v2' \in Seq(Notice(s))
        /\ v4' \in Seq([task : s.tasks, category : {"running", "done"}, alive : BOOLEAN])
        /\ Len(v4') <= s.created /\ DOMAIN v4 \subseteq DOMAIN v4'
        /\ v6' \in [turns : 0..s.turns, calls : Nat, faults : Nat]
    BY <1>2, <1>3 DEF Mirror!Shape, Notice
  <2>2. \A u \in s.tasks : v3'[u].channel_id \in {0} \cup DOMAIN v4'
    <3>1. \A u \in s.tasks : v3[u].channel_id \in {0} \cup DOMAIN v4
      BY <1>2 DEF Mirror!Shape, Mirror!None
    <3>2. r.channel_id \in {0} \cup DOMAIN v4
      BY <1>1, StoresChannel
    <3> QED BY <1>3, <3>1, <3>2
  <2>3. v5'[p] = Mirror(s)!Idle \/ Mirror(s)!Fits(v5'[p], DOMAIN v4')
    BY <1>3, <1>5
  <2>4. v5'[p].at # "none" => (v5'[p].job \in Mirror(s)!Kinds <=> p = s.consumer)
    BY <1>3, <1>5 DEF Mirror!Kinds
  <2> QED BY <1>2, <1>3, <1>4, <2>1, <2>2, <2>3, <2>4, MirrorShape
<1> QED BY <1>12, <1>13, StoresChannels DEF Mirror!IInv

LEMMA MirrorWrites ==
    ASSUME NEW s \in MirrorScopes, Mirror(s)!IInv, NEW p \in Mirror(s)!Threads,
           Mirror(s)!Write(p)
    PROVE  Mirror(s)!IInv'
<1>1. PICK h : h = v5[p]
  OBVIOUS
<1>2. PICK r : r = Mirror(s)!Written(h)
  OBVIOUS
<1>3. PICK j : j = Mirror(s)!Left(p)
  OBVIOUS
<1>4. PICK m : m = [j EXCEPT !.copy = r]
  OBVIOUS
<1>5. PICK k : k = Mirror(s)!Rested(m)
  OBVIOUS
<1>6. /\ h.at = "write" /\ h.at # "none" /\ Mirror(s)!Store(p, h, r)
      /\ v5' = Mirror(s)!Aged(p, h.task, m) /\ h.job # "reconcile"
      /\ UNCHANGED <<v1, v2, v4, v6>>
  BY <1>1, <1>2, <1>3, <1>4 DEF Mirror!Write, Mirror!Here
<1>7. /\ Mirror(s)!Fits(h, DOMAIN v4) /\ h \in Mirror(s)!Handlers
      /\ h.job \in Mirror(s)!Jobs /\ h.at \in Mirror(s)!Places(h.job)
      /\ (h.job \in Mirror(s)!Kinds <=> p = s.consumer)
  BY <1>1, <1>6, HandlerHas
<1>8. /\ r \in Mirror(s)!Row
      /\ h.job # "open" => r.channel_id = h.copy.channel_id
  <2>1. PICK known : known = DOMAIN v4
    OBVIOUS
  <2>2. Mirror(s)!Fits(h, known) /\ h.at = "write" /\ r = Mirror(s)!Written(h)
    BY <1>2, <1>6, <1>7, <2>1
  <2>3. Wrote(s, h, r)
    BY <2>2, WrittenHas
  <2> QED BY <2>3 DEF Wrote
<1>9. Mirror(s)!Then(h.job, "write") =
         IF h.job \in {"active", "inactive", "dispatch", "archive", "resume"}
         THEN "place" ELSE "none"
  BY <1>6, <1>7, MirrorThen
<1>10. Mirror(s)!Aged(p, h.task, m) = Mirror(s)!Aged(p, h.task, k)
  BY <1>5 DEF Mirror!Aged, Mirror!Rested, Mirror!Idle
<1>11. CASE h.job \in {"active", "inactive", "dispatch", "archive", "resume"}
  <2>1. /\ j.at = "place" /\ j.job = h.job /\ j.task = h.task /\ j.arg = h.arg
        /\ j.fresh = h.fresh /\ j.recent = h.recent /\ j.doomed = h.doomed
        /\ j \in Mirror(s)!Handlers
    BY <1>1, <1>3, <1>6, <1>7, <1>9, <1>11 DEF Mirror!Left, Mirror!Handlers, Mirror!Steps
  <2>2. /\ m.at = "place" /\ m.job = h.job /\ m.task = h.task /\ m.arg = h.arg
        /\ m.fresh = h.fresh /\ m.recent = h.recent /\ m.doomed = h.doomed /\ m.copy = r
        /\ m \in Mirror(s)!Handlers
    BY <1>4, <1>8, <2>1 DEF Mirror!Handlers
  <2>3. k = m
    BY <1>5, <2>2 DEF Mirror!Rested
  <2>4. Mirror(s)!Fits(m, DOMAIN v4)
    BY <1>7, <1>8, <1>11, <2>2
       DEF Mirror!Fits, Mirror!Places, Mirror!Words, Mirror!Asked, Mirror!None
  <2>5. Stores(s, p, h, r, k)
    BY <1>1, <1>2, <1>6, <1>7, <1>10, <1>11, <2>2, <2>3, <2>4 DEF Stores, Mirror!Kinds, Mirror!Words
  <2> QED BY <2>5, StoresKeeps
<1>12. CASE h.job \notin {"active", "inactive", "dispatch", "archive", "resume"}
  <2>1. j.at = "none" /\ m.at = "none"
    BY <1>1, <1>3, <1>4, <1>6, <1>7, <1>9, <1>12 DEF Mirror!Left, Mirror!Handlers
  <2>2. k = Mirror(s)!Idle
    BY <1>5, <2>1 DEF Mirror!Rested
  <2>3. Stores(s, p, h, r, k)
    BY <1>1, <1>2, <1>6, <1>10, <2>2 DEF Stores
  <2> QED BY <2>3, StoresKeeps
<1> QED BY <1>11, <1>12

LEMMA MirrorReconciled ==
    ASSUME NEW s \in MirrorScopes, Mirror(s)!IInv, NEW p \in Mirror(s)!Threads,
           Mirror(s)!Reconciled(p)
    PROVE  Mirror(s)!IInv'
<1>1. PICK h : h = v5[p]
  OBVIOUS
<1>2. PICK r : r = Mirror(s)!Written(h)
  OBVIOUS
<1>3. PICK job : job = IF h.arg = 0 THEN "resume" ELSE "follow"
  OBVIOUS
<1>4. PICK k : k = [h EXCEPT !.job = job, !.at = Mirror(s)!First(job), !.copy = r, !.fresh = TRUE]
  OBVIOUS
<1>5. /\ h.at = "write" /\ h.at # "none" /\ Mirror(s)!Store(p, h, r)
      /\ \/ v5' = Mirror(s)!Aged(p, h.task, Mirror(s)!Idle)
         \/ v5' = Mirror(s)!Aged(p, h.task, k)
      /\ h.job = "reconcile" /\ UNCHANGED <<v1, v2, v4, v6>>
  BY <1>1, <1>2, <1>3, <1>4 DEF Mirror!Reconciled, Mirror!Here, Mirror!None
<1>6. /\ Mirror(s)!Fits(h, DOMAIN v4) /\ h \in Mirror(s)!Handlers
      /\ p # s.consumer
  BY <1>1, <1>5, HandlerHas, NotHeard
<1>7. /\ r \in Mirror(s)!Row
      /\ r.channel_id = h.copy.channel_id
  <2>1. PICK known : known = DOMAIN v4
    OBVIOUS
  <2>2. Mirror(s)!Fits(h, known) /\ h.at = "write" /\ r = Mirror(s)!Written(h)
    BY <1>2, <1>5, <1>6, <2>1
  <2>3. r \in Mirror(s)!Row /\ (h.job # "open" => r.channel_id = h.copy.channel_id)
    <3>1. Wrote(s, h, r)
      BY <2>2, WrittenHas
    <3> QED BY <3>1 DEF Wrote
  <2> QED BY <1>5, <2>3
<1>8. /\ job \in {"resume", "follow"} /\ Mirror(s)!First(job) = "call"
  BY <1>3 DEF Mirror!First, Mirror!Words
<1>9. /\ k \in Mirror(s)!Handlers /\ k.at = "call" /\ k.job = job /\ k.task = h.task
      /\ k.copy = r /\ k.arg = h.arg /\ k.doomed = h.doomed
  BY <1>4, <1>6, <1>7, <1>8 DEF Mirror!Handlers, Mirror!Steps, Mirror!Jobs
<1>10. Mirror(s)!Fits(k, DOMAIN v4)
  BY <1>5, <1>6, <1>7, <1>8, <1>9
     DEF Mirror!Fits, Mirror!Places, Mirror!Words, Mirror!Asked, Mirror!None
<1>11. job \notin Mirror(s)!Kinds
  BY <1>8, NotHeard
<1>12. \/ Stores(s, p, h, r, Mirror(s)!Idle)
       \/ Stores(s, p, h, r, k)
  BY <1>1, <1>2, <1>5, <1>6, <1>8, <1>9, <1>10, <1>11 DEF Stores
<1> QED BY <1>12, StoresKeeps

\* A handler moves a channel, or gives up.
LEMMA MirrorPlaces ==
    ASSUME NEW s \in MirrorScopes, Mirror(s)!IInv, NEW p \in Mirror(s)!Threads,
           Mirror(s)!Place(p)
    PROVE  Mirror(s)!IInv'
<1> PICK c : c = v5[p].copy.channel_id
  OBVIOUS
<1>1. v5[p].at = "place" /\ UNCHANGED <<v1, v2, v3, v8>>
  BY DEF Mirror!Place, Mirror!Here
<1>2. CASE c = 0
  <2>1. Mirror(s)!Go(p, Mirror(s)!Left(p)) /\ UNCHANGED <<v4, v6, v7>>
    BY <1>2 DEF Mirror!Place, Mirror!None
  <2> QED BY <1>1, <2>1, MirrorMoves
<1>3. CASE c # 0
  <2>1. CASE /\ Mirror(s)!Alive(c) /\ Mirror(s)!Go(p, Mirror(s)!Left(p)) /\ UNCHANGED <<v6, v7>>
             /\ \E category \in {"running", "done"} : v4' = [v4 EXCEPT ![c].category = category]
    <3>1. c \in DOMAIN v4
      BY <2>1 DEF Mirror!Alive
    <3> QED BY <1>1, <2>1, <3>1, MirrorMoves
  <2>2. CASE /\ (IF Mirror(s)!Alive(c) THEN Mirror(s)!Fault ELSE UNCHANGED v6)
             /\ Mirror(s)!GivenUp(p) /\ UNCHANGED v4
    BY <1>1, <2>2, MirrorGivesUp
  <2>3. \A state : Mirror(s)!Category(state) \in {"running", "done"}
    BY DEF Mirror!Category
  <2> QED BY <1>3, <2>1, <2>2, <2>3 DEF Mirror!Place, Mirror!None
<1> QED BY <1>2, <1>3

\* A channel is pruned, or none is left to be.
LEMMA MirrorDeleted ==
    ASSUME NEW s \in MirrorScopes, Mirror(s)!IInv, NEW p \in Mirror(s)!Threads,
           Mirror(s)!Delete(p)
    PROVE  Mirror(s)!IInv'
<1>1. v5[p].at = "delete" /\ UNCHANGED <<v1, v2, v3, v6, v7, v8>>
  BY DEF Mirror!Delete, Mirror!Here
<1>2. CASE Mirror(s)!Go(p, Mirror(s)!Left(p)) /\ UNCHANGED v4
  BY <1>1, <1>2, MirrorPruned
<1>3. CASE Mirror(s)!Go(p, Mirror(s)!Idle) /\ UNCHANGED v4
  <2>1. p # s.consumer /\ ~Mirror(s)!Creating(p)
    BY <1>1, MirrorStepHas
  <2> QED BY <1>1, <1>3, <2>1, MirrorLeaves
<1>4. ASSUME NEW c \in v5[p].doomed, v4' = [v4 EXCEPT ![c].alive = FALSE],
             Mirror(s)!Go(p, [v5[p] EXCEPT !.at = "detach", !.arg = c, !.doomed = @ \ {c}])
      PROVE  Mirror(s)!IInv'
  BY <1>1, <1>4, MirrorDeletes
<1> QED BY <1>2, <1>3, <1>4 DEF Mirror!Delete

\* The channel of an opened task is created, or is not.
LEMMA MirrorCreated ==
    ASSUME NEW s \in MirrorScopes, Mirror(s)!IInv, NEW p \in Mirror(s)!Threads,
           Mirror(s)!Create(p)
    PROVE  Mirror(s)!IInv'
<1>1. CASE v4' # v4
  BY <1>1, MirrorCreates
<1>2. CASE v4' = v4
  <2>1. v5[p].at = "create" /\ UNCHANGED <<v1, v2, v3, v4, v7, v8>>
    BY <1>2 DEF Mirror!Create, Mirror!Here
  <2>2. p # s.consumer /\ ~Mirror(s)!Creating(p)
    BY <2>1, MirrorStepHas
  <2>3. v4 \in Seq([task : s.tasks, category : {"running", "done"}, alive : BOOLEAN])
    BY DEF Mirror!IInv, Mirror!Shape
  <2>4. CASE v4' = Append(v4, [task |-> v5[p].task, category |-> "done", alive |-> TRUE])
    <3>1. Len(v4) \in Nat /\ Len(v4') = Len(v4) + 1
      BY <2>3, <2>4
    <3> QED BY <1>2, <3>1
  <2>5. CASE Mirror(s)!Fault /\ Mirror(s)!Go(p, Mirror(s)!Idle)
    BY <2>1, <2>2, <2>5, MirrorLeaves
  <2> QED BY <2>4, <2>5 DEF Mirror!Create
<1> QED BY <1>1, <1>2

\* A step of a handler keeps the invariant.
LEMMA MirrorSteps ==
    ASSUME NEW s \in MirrorScopes, Mirror(s)!IInv, NEW p \in Mirror(s)!Threads,
           Mirror(s)!Step(p)
    PROVE  Mirror(s)!IInv'
BY MirrorCalls, MirrorWrites, MirrorReconciled, MirrorPlaces, MirrorRetitles, MirrorLooks,
   MirrorForget, MirrorPrunes, MirrorDeleted, MirrorDetached, MirrorCreated DEF Mirror!Step

\* A handler of the owner begins.
LEMMA MirrorOwners ==
    ASSUME NEW s \in MirrorScopes, Mirror(s)!IInv, NEW p \in s.owners, NEW t \in s.tasks,
           \/ Mirror(s)!Message(p, t) \/ Mirror(s)!Rename(p, t) \/ Mirror(s)!Archive(p, t)
           \/ Mirror(s)!SetModel(p, t) \/ Mirror(s)!Open(p, t)
    PROVE  Mirror(s)!IInv'
<1>1. p \in Mirror(s)!Threads /\ p # s.consumer
  BY MirrorAssumption DEF Mirror!Threads
<1>2. v6.calls + 1 \in Nat
  BY DEF Mirror!IInv, Mirror!Shape
<1>3. CASE Mirror(s)!Message(p, t)
  BY <1>1, <1>3, MirrorAsks DEF Mirror!Message, Mirror!InChannel, Mirror!None
<1>4. CASE Mirror(s)!Rename(p, t)
  <2>1. v3[t].exists /\ Mirror(s)!Ask(p, "rename", t, v6.calls + 1)
    BY <1>4 DEF Mirror!Rename, Mirror!InChannel
  <2> QED BY <1>1, <1>2, <2>1, MirrorAsks
<1>5. CASE Mirror(s)!Archive(p, t)
  BY <1>1, <1>5, MirrorAsks DEF Mirror!Archive, Mirror!InChannel, Mirror!None
<1>6. CASE Mirror(s)!SetModel(p, t)
  BY <1>1, <1>6, MirrorAsks DEF Mirror!SetModel, Mirror!InChannel, Mirror!None
<1>7. CASE Mirror(s)!Open(p, t)
  BY <1>1, <1>7, MirrorAsks DEF Mirror!Open, Mirror!None
<1> QED BY <1>3, <1>4, <1>5, <1>6, <1>7

LEMMA MirrorReady ==
    ASSUME NEW s \in MirrorScopes, Mirror(s)!IInv, NEW t \in s.tasks, Mirror(s)!Ready(t)
    PROVE  Mirror(s)!IInv'
<1>1. s.boot \in Mirror(s)!Threads /\ s.boot # s.consumer
  BY MirrorAssumption DEF Mirror!Threads
<1> QED BY <1>1, MirrorAsks DEF Mirror!Ready, Mirror!None

LEMMA MirrorNext ==
    ASSUME NEW s \in MirrorScopes, Mirror(s)!IInv, Mirror(s)!Next
    PROVE  Mirror(s)!IInv'
<1>1. ASSUME NEW t \in s.tasks, Mirror(s)!TurnEnds(t) \/ Mirror(s)!Ready(t)
      PROVE  Mirror(s)!IInv'
  BY <1>1, MirrorEnds, MirrorReady
<1>2. ASSUME NEW p \in s.owners, NEW t \in s.tasks,
             \/ Mirror(s)!Message(p, t) \/ Mirror(s)!Rename(p, t) \/ Mirror(s)!Archive(p, t)
             \/ Mirror(s)!SetModel(p, t) \/ Mirror(s)!Open(p, t)
      PROVE  Mirror(s)!IInv'
  BY <1>2, MirrorOwners
<1>3. ASSUME NEW p \in Mirror(s)!Threads, Mirror(s)!Step(p) PROVE Mirror(s)!IInv'
  BY <1>3, MirrorSteps
<1>4. ASSUME NEW c \in DOMAIN v4, Mirror(s)!OwnerDeletes(c) PROVE Mirror(s)!IInv'
  BY <1>4, MirrorOwnerDeletes
<1> QED BY <1>1, <1>2, <1>3, <1>4, MirrorLoses, MirrorReceives DEF Mirror!Next

\* Nothing happens.
LEMMA MirrorSame ==
    ASSUME NEW s \in MirrorScopes, Mirror(s)!IInv, UNCHANGED <<v1, v2, v3, v4, v5, v6, v7, v8>>
    PROVE  Mirror(s)!IInv'
<1>1. Mirror(s)!Shape'
  BY DEF Mirror!IInv, Mirror!Shape, Mirror!Busy
<1>2. Mirror(s)!TurnInv'
  <2>1. \A t \in s.tasks : Mirror(s)!Known(t)'
    BY DEF Mirror!IInv, Mirror!TurnInv, Mirror!Known
  <2>2. \A t : Mirror(s)!Spoken(t)' <=> Mirror(s)!Spoken(t)
    BY DEF Mirror!Spoken, Mirror!Hearing, Mirror!Busy
  <2>3. \A p \in Mirror(s)!Threads : Mirror(s)!TurnFits(p)'
    BY <2>2 DEF Mirror!IInv, Mirror!TurnInv, Mirror!TurnFits, Mirror!Busy
  <2>4. \A t \in s.tasks \ v7' : Mirror(s)!TurnHeard(t)' /\ Mirror(s)!TurnSits(t)'
    BY <2>2 DEF Mirror!IInv, Mirror!TurnInv, Mirror!TurnHeard, Mirror!TurnSits,
                Mirror!Hearing, Mirror!Busy
  <2> QED BY <2>1, <2>3, <2>4 DEF Mirror!TurnInv
<1>3. Mirror(s)!TitleInv'
  <2>1. \A t : Mirror(s)!Titled(t)' <=> Mirror(s)!Titled(t)
    BY DEF Mirror!Titled, Mirror!Hearing, Mirror!Busy
  <2>2. \A p \in Mirror(s)!Threads : Mirror(s)!TitleFits(p)'
    BY <2>1 DEF Mirror!IInv, Mirror!TitleInv, Mirror!TitleFits, Mirror!Busy
  <2>3. \A t \in s.tasks \ v8' : Mirror(s)!TitleSits(t)'
    BY <2>1 DEF Mirror!IInv, Mirror!TitleInv, Mirror!TitleSits, Mirror!Hearing, Mirror!Busy
  <2> QED BY <2>2, <2>3 DEF Mirror!TitleInv
<1>4. Mirror(s)!ChannelInv'
  <2>1. /\ \A p : Mirror(s)!Creating(p)' <=> Mirror(s)!Creating(p)
        /\ \A c : /\ Mirror(s)!Going(c)' <=> Mirror(s)!Going(c)
                  /\ Mirror(s)!Alive(c)' <=> Mirror(s)!Alive(c)
                  /\ \A t : Mirror(s)!OfTask(c, t)' <=> Mirror(s)!OfTask(c, t)
    BY DEF Mirror!Creating, Mirror!Going, Mirror!Alive, Mirror!OfTask, Mirror!Here
  <2>2. \A p \in Mirror(s)!Threads : Mirror(s)!ChannelFits(p)'
    BY <2>1 DEF Mirror!IInv, Mirror!ChannelInv, Mirror!ChannelFits, Mirror!Busy, Mirror!Here
  <2>3. \A t \in s.tasks \ v8' : Mirror(s)!ChannelSits(t)'
    BY <2>1 DEF Mirror!IInv, Mirror!ChannelInv, Mirror!ChannelSits
  <2>4. \A t \in s.tasks : Mirror(s)!OfTask(v3[t].channel_id, t)'
    BY <2>1 DEF Mirror!IInv, Mirror!ChannelInv
  <2> QED BY <2>2, <2>3, <2>4 DEF Mirror!ChannelInv
<1> QED BY <1>1, <1>2, <1>3, <1>4 DEF Mirror!IInv

\* It holds when the relay starts.
LEMMA MirrorBegins ==
    ASSUME NEW s \in MirrorScopes, Mirror(s)!Init
    PROVE  Mirror(s)!IInv
<1>1. PICK mirrored \in {{}} \cup {{t} : t \in s.tasks},
           running \in {0, 1} \cap (0..s.turns), said \in {0, 1} \cap (0..s.turns) :
        /\ mirrored = {} => running = 0 /\ said = 0
        /\ v1 = [t \in s.tasks |-> [turn |-> IF t \in mirrored THEN running ELSE 0,
                                    title |-> 0, archived |-> FALSE]]
        /\ v3 = [t \in s.tasks |->
                   IF t \in mirrored
                   THEN [Mirror(s)!NoRow EXCEPT !.exists = TRUE, !.channel_id = 1, !.turn_id = said,
                                      !.state = IF said = 0 THEN "idle" ELSE "running"]
                   ELSE Mirror(s)!NoRow]
        /\ v4 = IF mirrored = {} THEN <<>>
                ELSE <<[task |-> CHOOSE t \in mirrored : TRUE, alive |-> TRUE,
                        category |-> IF said = 0 THEN "done" ELSE "running"]>>
        /\ v6 = [turns |-> IF {running, said} = {0} THEN 0 ELSE 1, calls |-> 0, faults |-> 0]
        /\ v7 = IF running = said THEN {} ELSE mirrored
  BY DEF Mirror!Init, Mirror!None
<1>2. v2 = <<>> /\ v8 = {} /\ v5 = [p \in Mirror(s)!Threads |-> Mirror(s)!Idle]
  BY DEF Mirror!Init
<1>3. s.turns \in Nat /\ s.created \in Nat /\ s.created >= 1
  BY MirrorAssumption
<1>4. \A p \in Mirror(s)!Threads : v5[p] = Mirror(s)!Idle /\ ~Mirror(s)!Busy(p)
  BY <1>2 DEF Mirror!Busy, Mirror!Idle
<1>5. \A t \in s.tasks :
        /\ v1[t].turn = IF t \in mirrored THEN running ELSE 0
        /\ v1[t].title = 0 /\ v1[t].archived = FALSE
        /\ t \in mirrored => v3[t] = [exists |-> TRUE, title |-> 0, channel_id |-> 1,
                state |-> IF said = 0 THEN "idle" ELSE "running", turn_id |-> said]
        /\ t \notin mirrored => v3[t] = [exists |-> FALSE, title |-> 0, channel_id |-> 0,
                state |-> "idle", turn_id |-> 0]
  BY <1>1 DEF Mirror!NoRow, Mirror!None
<1>f. \A t \in s.tasks :
        /\ v3[t].title = 0
        /\ v3[t].exists <=> t \in mirrored
        /\ v3[t].channel_id = IF t \in mirrored THEN 1 ELSE 0
        /\ t \in mirrored => v3[t].turn_id = said /\ (v3[t].state = "running" <=> said # 0)
  BY <1>5
<1>6. \A c \in DOMAIN v4 : c = 1 /\ v4[c].alive /\ mirrored # {} /\ v4[c].task \in mirrored
                           /\ v4[c].category \in {"running", "done"}
  <2>1. CASE mirrored = {}
    BY <1>1, <2>1
  <2>2. CASE mirrored # {}
    <3>1. PICK u : mirrored = {u}
      BY <2>2, <1>1
    <3>2. (CHOOSE t \in mirrored : TRUE) \in mirrored
      BY <3>1
    <3> QED BY <1>1, <2>2, <3>2
  <2> QED BY <2>1, <2>2
<1>7. \A t \in mirrored : 1 \in DOMAIN v4 /\ v4[1].task = t
  BY <1>1, <1>6
<1>s. Mirror(s)!Shape
  <2>1. v4 \in Seq([task : s.tasks, category : {"running", "done"}, alive : BOOLEAN])
    <3>1. CASE mirrored = {}
      BY <1>1, <3>1
    <3>2. CASE mirrored # {}
      <4>1. PICK e : v4 = <<e>> /\ e = [task |-> CHOOSE t \in mirrored : TRUE, alive |-> TRUE,
                        category |-> IF said = 0 THEN "done" ELSE "running"]
        BY <1>1, <3>2
      <4>2. e.task \in s.tasks
        <5>1. mirrored \subseteq s.tasks
          BY <1>1
        <5>2. 1 \in DOMAIN v4 /\ v4[1] = e
          BY <4>1
        <5> QED BY <1>6, <5>1, <5>2
      <4>3. e \in [task : s.tasks, category : {"running", "done"}, alive : BOOLEAN]
        BY <4>1, <4>2
      <4> QED BY <4>1, <4>3
    <3> QED BY <3>1, <3>2
  <2>2. Len(v4) <= s.created
    BY <1>1, <1>3
  <2>3. v1 \in [s.tasks -> [turn : 0..s.turns, title : Nat, archived : BOOLEAN]]
    BY <1>1, <1>3
  <2>4. v3 \in [s.tasks -> Mirror(s)!Row]
    <3>1. \A t \in s.tasks : v3[t] \in Mirror(s)!Row
      <4> TAKE t \in s.tasks
      <4>1. said \in 0..s.turns /\ (IF said = 0 THEN "idle" ELSE "running") \in {"idle", "running", "done"}
        OBVIOUS
      <4>2. CASE t \in mirrored
        <5>1. v3[t] = [exists |-> TRUE, title |-> 0, channel_id |-> 1,
                state |-> IF said = 0 THEN "idle" ELSE "running", turn_id |-> said]
          BY <1>5, <4>2
        <5> QED BY <4>1, <5>1 DEF Mirror!Row
      <4>3. CASE t \notin mirrored
        <5>1. v3[t] = [exists |-> FALSE, title |-> 0, channel_id |-> 0,
                state |-> "idle", turn_id |-> 0]
          BY <1>5, <4>3
        <5> QED BY <1>3, <5>1 DEF Mirror!Row
      <4> QED BY <4>2, <4>3
    <3> QED BY <1>1, <3>1
  <2>5. \A t \in s.tasks : v3[t].channel_id \in {0} \cup DOMAIN v4
    BY <1>5, <1>7
  <2>6. v6 \in [turns : 0..s.turns, calls : Nat, faults : Nat]
    BY <1>1, <1>3
  <2>7. v7 \subseteq s.tasks /\ v8 \subseteq s.tasks
    BY <1>1, <1>2
  <2>8. v2 \in Seq([task : s.tasks, kind : Mirror(s)!Kinds, arg : Nat])
    BY <1>2
  <2> QED BY <1>2, <1>4, <2>1, <2>2, <2>3, <2>4, <2>5, <2>6, <2>7, <2>8
          DEF Mirror!Shape, Mirror!None
<1>t. \A t, kinds : Mirror(s)!Among(v2, t, kinds) = {} /\ ~Mirror(s)!Hearing(t, kinds)
  <2>1. s.consumer \in Mirror(s)!Threads
    BY DEF Mirror!Threads
  <2> QED BY <1>2, <1>4, <2>1 DEF Mirror!Among, Mirror!Hearing
<1>8. Mirror(s)!TurnInv
  <2>1. ASSUME NEW t \in s.tasks PROVE Mirror(s)!Known(t)
    <3>1. Mirror(s)!EndsIn(v2, t, v1[t])
      BY <1>t DEF Mirror!EndsIn
    <3>2. ~v1[t].archived /\ Mirror(s)!Among(v2, t, Mirror(s)!Kinds) = {}
      BY <1>5, <1>t
    <3>3. (v1[t].turn # 0 => t \in mirrored) /\ (v3[t].channel_id # 0 => t \in mirrored)
      BY <1>5, <1>f
    <3> QED BY <1>f, <3>1, <3>2, <3>3 DEF Mirror!Known, Mirror!None
  <2>2. ASSUME NEW t \in s.tasks \ v7 PROVE Mirror(s)!TurnHeard(t) /\ Mirror(s)!TurnSits(t)
    <3>1. Mirror(s)!TurnHeard(t)
      BY <1>t DEF Mirror!TurnHeard
    <3>2. t \in mirrored => running = said
      BY <1>1
    <3>3. t \in mirrored => v1[t].turn = said
      BY <1>5, <3>2
    <3> QED BY <1>f, <3>1, <3>3 DEF Mirror!TurnSits, Mirror!None
  <2>3. ASSUME NEW p \in Mirror(s)!Threads PROVE Mirror(s)!TurnFits(p)
    BY <1>4 DEF Mirror!TurnFits
  <2> QED BY <2>1, <2>2, <2>3 DEF Mirror!TurnInv
<1>9. Mirror(s)!TitleInv
  <2>1. ASSUME NEW t \in s.tasks PROVE Mirror(s)!TitleSits(t)
    BY <1>5, <1>t DEF Mirror!TitleSits
  <2> QED BY <1>4, <2>1 DEF Mirror!TitleInv, Mirror!TitleFits
<1>10. Mirror(s)!ChannelInv
  <2>1. ASSUME NEW t \in s.tasks PROVE Mirror(s)!OfTask(v3[t].channel_id, t)
    BY <1>5, <1>7 DEF Mirror!OfTask, Mirror!None
  <2>2. ASSUME NEW t \in s.tasks PROVE Mirror(s)!ChannelSits(t)
    <3>1. \A c \in DOMAIN v4 : v4[c].task = t => c = v3[t].channel_id
      BY <1>5, <1>6
    <3>2. v3[t].channel_id # 0 => Mirror(s)!Alive(v3[t].channel_id)
      BY <1>5, <1>6, <1>7 DEF Mirror!Alive
    <3> QED BY <3>1, <3>2 DEF Mirror!ChannelSits, Mirror!None
  <2> QED BY <1>4, <2>1, <2>2 DEF Mirror!ChannelInv, Mirror!ChannelFits
<1> QED BY <1>s, <1>8, <1>9, <1>10 DEF Mirror!IInv

\* What a quiet task shows follows.
LEMMA MirrorAgrees ==
    ASSUME NEW s \in MirrorScopes, Mirror(s)!IInv
    PROVE  Mirror(s)!TurnAgrees /\ Mirror(s)!RestAgrees
<1>1. s.consumer \in Mirror(s)!Threads
  BY DEF Mirror!Threads
<1>2. ASSUME NEW t \in s.tasks, Mirror(s)!Quiet(t), NEW kinds
      PROVE  Mirror(s)!Among(v2, t, kinds) = {} /\ ~Mirror(s)!Hearing(t, kinds)
  BY <1>1, <1>2 DEF Mirror!Quiet, Mirror!Among, Mirror!Hearing
<1>3. ASSUME NEW t \in s.tasks \ v7, Mirror(s)!Quiet(t), v3[t].exists
      PROVE  /\ v3[t].turn_id = v1[t].turn
             /\ v3[t].state = "running" <=> v1[t].turn # 0
  <2>1. ~Mirror(s)!Spoken(t)
    BY <1>2, <1>3 DEF Mirror!Spoken
  <2>2. Mirror(s)!TurnSits(t)
    BY <1>3 DEF Mirror!IInv, Mirror!TurnInv
  <2> QED BY <1>3, <2>1, <2>2 DEF Mirror!TurnSits, Mirror!None
<1>4. ASSUME NEW t \in s.tasks \ v8, Mirror(s)!Quiet(t), v3[t].exists
      PROVE  /\ v3[t].title = v1[t].title
             /\ {c \in DOMAIN v4 : v4[c].task = t /\ v4[c].alive} = {v3[t].channel_id} \ {0}
  <2>1. v3[t].title = v1[t].title
    <3>1. ~Mirror(s)!Titled(t)
      BY <1>2, <1>4 DEF Mirror!Titled
    <3> QED BY <1>4, <3>1 DEF Mirror!IInv, Mirror!TitleInv, Mirror!TitleSits
  <2>2. Mirror(s)!ChannelSits(t) /\ Mirror(s)!OfTask(v3[t].channel_id, t)
    BY <1>4 DEF Mirror!IInv, Mirror!ChannelInv
  <2>3. \A c \in DOMAIN v4 : c # 0
    BY ChannelHas DEF Mirror!IInv
  <2>4. ASSUME NEW c \in DOMAIN v4, v4[c].task = t, v4[c].alive
        PROVE  c = v3[t].channel_id
    <3>1. ASSUME NEW p \in Mirror(s)!Threads, Mirror(s)!Creating(p), v5[p].arg = c
          PROVE  FALSE
      <4>1. v5[p].at = "write" /\ v5[p].job = "open" /\ Mirror(s)!Busy(p)
        BY <3>1 DEF Mirror!Creating, Mirror!Here, Mirror!Busy
      <4>2. v4[c].task = v5[p].task
        BY <3>1, <4>1, CreatingHas
      <4> QED BY <1>4, <2>4, <4>1, <4>2 DEF Mirror!Quiet
    <3> QED BY <2>2, <2>4, <3>1 DEF Mirror!ChannelSits
  <2>5. ASSUME v3[t].channel_id # 0
        PROVE  v3[t].channel_id \in {c \in DOMAIN v4 : v4[c].task = t /\ v4[c].alive}
    <3>1. ~Mirror(s)!Going(v3[t].channel_id)
      <4>1. ASSUME NEW p \in Mirror(s)!Threads, v5[p].at = "detach", v5[p].arg = v3[t].channel_id
            PROVE  FALSE
        BY <1>4, <4>1 DEF Mirror!Quiet, Mirror!Busy, Mirror!Here
      <4> QED BY <4>1 DEF Mirror!Going, Mirror!Here
    <3> QED BY <2>2, <2>5, <3>1 DEF Mirror!ChannelSits, Mirror!OfTask, Mirror!Alive, Mirror!None
  <2> QED BY <2>1, <2>3, <2>4, <2>5
<1> QED BY <1>3, <1>4 DEF Mirror!TurnAgrees, Mirror!RestAgrees, Mirror!None

\* The invariant of the mirror: a part of a row that is not what Codex has is one of which a word
\* is on its way, as long as nothing was written amiss.
LEMMA MirrorInvariant ==
    Spec => [](\A s \in MirrorScopes : Is("mirror", s) => Mirror(s)!IInv)
<1> DEFINE I == \A s \in MirrorScopes : Is("mirror", s) => Mirror(s)!IInv
<1>1. Init => I
  BY MirrorBegins DEF Init, Is
<1>2. I /\ [Next]_vars => I'
  <2> SUFFICES ASSUME I, [Next]_vars, NEW s \in MirrorScopes, Is("mirror", s)'
               PROVE  Mirror(s)!IInv'
    OBVIOUS
  <2>1. CASE UNCHANGED vars
    <3>1. Mirror(s)!IInv /\ UNCHANGED <<v1, v2, v3, v4, v5, v6, v7, v8>>
      BY <2>1 DEF vars, Is
    <3> QED BY <3>1, MirrorSame
  <2>2. CASE Next
    <3>1. Is("mirror", s)
      BY <2>2 DEF Next, In, Is
    <3>2. Mirror(s)!Next /\ Mirror(s)!IInv
      BY <2>2, <3>1 DEF Next, In, Is
    <3> QED BY <3>2, MirrorNext
  <2> QED BY <2>1, <2>2
<1> QED BY <1>1, <1>2, PTL DEF Spec

\* When nothing of a task is under way, its row has the turn Codex runs and says so, unless a
\* handler wrote over what another had written, gave up, or never got the event: whatever order
\* the answers, the notifications and the reconciliation came in (bot.rs, handle_notification,
\* reconcile_task and the handlers of the owner, each through upsert_task).
THEOREM TurnsAgree == Spec => []TurnAgrees
<1>1. (\A s \in MirrorScopes : Is("mirror", s) => Mirror(s)!IInv) => TurnAgrees
  BY MirrorAgrees DEF TurnAgrees
<1> QED BY <1>1, MirrorInvariant, PTL

\* Then it has its title too, and its channel is there, its own, and the only one: pruning takes
\* row and channel apart together, and an opened task gets one channel (open_selected_task,
\* prune_completed_mirrors, detach_channel), with the exceptions RestAgrees names.
THEOREM RestsAgree == Spec => []RestAgrees
<1>1. (\A s \in MirrorScopes : Is("mirror", s) => Mirror(s)!IInv) => RestAgrees
  BY MirrorAgrees DEF RestAgrees
<1> QED BY <1>1, MirrorInvariant, PTL

-----------------------------------------------------------------------------
(* The limit on passwords                                                   *)

\* Where pruning stops there is one: the first failure that is not too old.
LEMMA StaleExists ==
    ASSUME NEW s \in LimitScopes, NEW f \in Seq(Nat), v1 \in Nat
    PROVE  LET n == Limit(s)!Stale(f)
           IN  /\ n \in 0..Len(f)
               /\ \A k \in 1..n : Limit(s)!TooOld(f[k])
               /\ n < Len(f) => ~Limit(s)!TooOld(f[n + 1])
<1> DEFINE T == {m \in 0..Len(f) : m < Len(f) => ~Limit(s)!TooOld(f[m + 1])}
<1>1. T \subseteq Nat /\ Len(f) \in T
  OBVIOUS
<1>2. PICK n \in T : \A m \in T : ~(<<m, n>> \in OpToRel(<, Nat))
  <2> HIDE DEF T
  <2> QED BY <1>1, NatLessThanWellFounded, WFMin
<1>3. \A m \in T : ~(m < n)
  BY <1>1, <1>2 DEF OpToRel
<1>4. \A m \in 0..Len(f) : m < n => m < Len(f) /\ Limit(s)!TooOld(f[m + 1])
  BY <1>3
<1>5. n \in 0..Len(f) /\ (n < Len(f) => ~Limit(s)!TooOld(f[n + 1]))
  OBVIOUS
<1> HIDE DEF T
<1>6. ASSUME NEW k \in 1..n PROVE Limit(s)!TooOld(f[k])
  <2>1. k - 1 \in 0..Len(f) /\ k - 1 < n /\ (k - 1) + 1 = k
    BY <1>5
  <2> QED BY <2>1, <1>4
<1> QED BY <1>5, <1>6 DEF Limit!Stale

\* What still counts is the end of the failures; what was before is too old.
LEMMA CountingIsEnd ==
    ASSUME NEW s \in LimitScopes, NEW f \in Seq(Nat), v1 \in Nat
    PROVE  \E n \in 0..Len(f) :
             /\ Limit(s)!Counting(f) \in Seq(Nat)
             /\ Len(Limit(s)!Counting(f)) = Len(f) - n
             /\ \A k \in 1..(Len(f) - n) : Limit(s)!Counting(f)[k] = f[n + k]
             /\ n > 0 => Limit(s)!TooOld(f[n])
             /\ n < Len(f) => ~Limit(s)!TooOld(Limit(s)!Counting(f)[1])
<1> DEFINE n == Limit(s)!Stale(f)
<1>1. /\ n \in 0..Len(f) /\ \A k \in 1..n : Limit(s)!TooOld(f[k])
      /\ n < Len(f) => ~Limit(s)!TooOld(f[n + 1])
  BY StaleExists
<1> HIDE DEF n
<1>2. \A i \in (n + 1)..Len(f) : f[i] \in Nat
  BY <1>1
<1>3. /\ SubSeq(f, n + 1, Len(f)) \in Seq(Nat)
      /\ Len(SubSeq(f, n + 1, Len(f))) = Len(f) - n
      /\ \A k \in 1..(Len(f) - n) : SubSeq(f, n + 1, Len(f))[k] = f[n + k]
  <2>1. /\ n + 1 \in Int /\ Len(f) \in Int /\ Len(f) - (n + 1) + 1 = Len(f) - n
        /\ ~(n + 1 <= Len(f)) => Len(f) - n = 0
    BY <1>1
  <2>2. /\ SubSeq(f, n + 1, Len(f)) \in Seq(Nat)
        /\ Len(SubSeq(f, n + 1, Len(f))) = IF n + 1 <= Len(f) THEN Len(f) - (n + 1) + 1 ELSE 0
        /\ \A k \in 1..(Len(f) - (n + 1) + 1) :
             SubSeq(f, n + 1, Len(f))[k] = f[n + 1 + k - 1]
    BY <2>1, <1>2, SubSeqProperties
  <2>3. Len(SubSeq(f, n + 1, Len(f))) = Len(f) - n
    <3> QED BY <2>1, <2>2
  <2>4. \A k \in 1..(Len(f) - n) : n + 1 + k - 1 = n + k
    BY <1>1
  <2> QED BY <2>1, <2>2, <2>3, <2>4
<1>4. Limit(s)!Counting(f) = SubSeq(f, n + 1, Len(f))
  BY DEF Limit!Counting, n
<1>5. n > 0 => Limit(s)!TooOld(f[n])
  BY <1>1
<1>6. n < Len(f) => ~Limit(s)!TooOld(SubSeq(f, n + 1, Len(f))[1])
  <2>1. n < Len(f) => SubSeq(f, n + 1, Len(f))[1] = f[n + 1]
    BY <1>1, <1>3
  <2> QED BY <2>1, <1>1
<1> QED BY <1>1, <1>3, <1>4, <1>5, <1>6

\* What the next verdict finds: the wrong ones that still count come last.
LEMMA CurrentIsLast ==
    ASSUME NEW s \in LimitScopes, Limit(s)!IInv, ~Limit(s)!Locked
    PROVE  LET cur == Limit(s)!Current
               n == Len(v4)
               c == Len(cur)
           IN  /\ cur \in Seq(Nat) /\ c < s.failures /\ c <= n
               /\ \A k \in 1..c : v4[n - c + k] = [at |-> cur[k], right |-> FALSE]
               /\ \A k \in 1..c : cur[k] \in 1..v1
               /\ c < n => v4[n - c].right \/ Limit(s)!TooOld(v4[n - c].at)
               /\ c > 0 => ~Limit(s)!TooOld(cur[1])
<1>1. /\ v1 \in Nat /\ v2 \in Seq(Nat) /\ v3 \in Nat /\ Len(v2) < s.failures
      /\ v4 \in Seq([at : Nat, right : BOOLEAN]) /\ Len(v2) <= Len(v4)
      /\ \A k \in 1..Len(v2) : v2[k] \in 1..v1
      /\ \A k \in 1..Len(v2) : v4[Len(v4) - Len(v2) + k] = [at |-> v2[k], right |-> FALSE]
  BY DEF Limit!IInv, Limit!TypeOK, Limit!InOrder, Limit!FailuresAreLast
<1>2. s.failures \in Nat \ {0} /\ s.window \in Nat /\ s.lockout \in Nat /\ s.window <= s.lockout
  BY LimitAssumption
<1>3. CASE v3 # 0
  <2>1. Limit(s)!Current = <<>>
    BY <1>3 DEF Limit!Current
  <2>2. v4 # <<>> /\ v3 = v4[Len(v4)].at + s.lockout /\ v3 <= v1
    BY <1>3, <1>1 DEF Limit!IInv, Limit!LockIsLast, Limit!Locked
  <2>3. Len(v4) \in 1..Len(v4)
    BY <2>2, <1>1
  <2>4. v4[Len(v4)].at \in Nat
    <3>1. v4[Len(v4)] \in [at : Nat, right : BOOLEAN]
      BY <2>3, <1>1, ElementOfSeq
    <3> QED BY <3>1
  <2>5. v4[Len(v4)].at + s.window <= v1
    BY <2>2, <2>4, <1>1, <1>2
  <2>6. Limit(s)!TooOld(v4[Len(v4)].at)
    BY <2>5 DEF Limit!TooOld
  <2>7. Len(<<>>) = 0 /\ <<>> \in Seq(Nat) /\ Len(v4) - 0 = Len(v4) /\ 1..0 = {}
    BY <1>1
  <2> QED BY <2>1, <2>6, <2>7, <1>1, <1>2
<1>4. CASE v3 = 0
  <2>1. PICK m \in 0..Len(v2) :
          /\ Limit(s)!Counting(v2) \in Seq(Nat)
          /\ Len(Limit(s)!Counting(v2)) = Len(v2) - m
          /\ \A k \in 1..(Len(v2) - m) : Limit(s)!Counting(v2)[k] = v2[m + k]
          /\ m > 0 => Limit(s)!TooOld(v2[m])
          /\ m < Len(v2) => ~Limit(s)!TooOld(Limit(s)!Counting(v2)[1])
    BY <1>1, CountingIsEnd
  <2> DEFINE r == Limit(s)!Counting(v2)
             d == Len(v4)
             e == Len(v2)
  <2>2. Limit(s)!Current = r
    BY <1>4 DEF Limit!Current
  <2>3. Len(r) = e - m /\ e \in Nat /\ d \in Nat /\ e <= d /\ m \in 0..e /\ r \in Seq(Nat)
    BY SMTT(40), <2>1, <1>1
  <2>4. \A k \in 1..Len(r) : /\ v4[d - Len(r) + k] = [at |-> r[k], right |-> FALSE]
                              /\ r[k] \in 1..v1
    <3> SUFFICES ASSUME NEW k \in 1..Len(r)
                 PROVE  /\ v4[d - Len(r) + k] = [at |-> r[k], right |-> FALSE]
                        /\ r[k] \in 1..v1
      OBVIOUS
    <3>1. m + k \in 1..e /\ d - Len(r) + k = d - e + (m + k) /\ k \in 1..(e - m)
      BY <2>3
    <3>2. r[k] = v2[m + k]
      BY <3>1, <2>1
    <3> QED BY <3>1, <3>2, <1>1
  <2>5. ASSUME Len(r) < d
        PROVE  v4[d - Len(r)].right \/ Limit(s)!TooOld(v4[d - Len(r)].at)
    <3>1. CASE m = 0
      <4>1. Len(r) = e /\ e < d
        BY <3>1, <2>5, <2>3
      <4> QED BY <4>1, <1>4 DEF Limit!IInv, Limit!FailuresAreLast
    <3>2. CASE m > 0
      <4>1. m \in 1..e /\ d - Len(r) = d - e + m
        BY <3>2, <2>3
      <4>2. v4[d - e + m] = [at |-> v2[m], right |-> FALSE]
        BY <4>1, <1>1
      <4> QED BY <4>1, <4>2, <3>2, <2>1
    <3> QED BY <3>1, <3>2, <2>3
  <2>6. Len(r) > 0 => ~Limit(s)!TooOld(r[1])
    BY <2>1, <2>3
  <2>7. Len(r) < s.failures /\ Len(r) <= d
    BY <2>3, <1>1, <1>2
  <2> HIDE DEF r
  <2> QED BY <2>2, <2>3, <2>4, <2>5, <2>6, <2>7
<1> QED BY <1>3, <1>4, <1>1

\* A verdict keeps the order, the earlier locks and what they forbid.
LEMMA VerdictKeepsLocks ==
    ASSUME NEW s \in LimitScopes, Limit(s)!IInv, ~Limit(s)!Locked, NEW b \in BOOLEAN,
           v4' = Append(v4, [at |-> v1, right |-> b]), UNCHANGED <<v1, v5>>
    PROVE  /\ Limit(s)!InOrder' /\ Limit(s)!LockHolds'
           /\ Len(v4') = Len(v4) + 1 /\ v4'[Len(v4) + 1] = [at |-> v1, right |-> b]
           /\ \A i \in 1..Len(v4) : v4'[i] = v4[i]
<1> DEFINE n == Len(v4)
<1>1. /\ v1 \in Nat /\ v4 \in Seq([at : Nat, right : BOOLEAN]) /\ n \in Nat
      /\ v5 \in Seq(Nat) /\ \A r \in DOMAIN v5 : v5[r] <= v1
      /\ \A i \in DOMAIN v4 : /\ v4[i].at <= v1
                             /\ \A j \in DOMAIN v4 : i <= j => v4[i].at <= v4[j].at
  BY DEF Limit!IInv, Limit!InOrder
<1>2. s.failures \in Nat \ {0} /\ s.window \in Nat /\ s.lockout \in Nat
  BY LimitAssumption
<1>3. [at |-> v1, right |-> b] \in [at : Nat, right : BOOLEAN]
  BY <1>1
<1>4. /\ v4' \in Seq([at : Nat, right : BOOLEAN]) /\ Len(v4') = n + 1
      /\ v4'[n + 1] = [at |-> v1, right |-> b] /\ \A i \in 1..n : v4'[i] = v4[i]
  BY <1>1, <1>3, AppendProperties
<1>5. DOMAIN v4 = 1..n /\ DOMAIN v4' = 1..(n + 1)
  BY <1>1, <1>4, LenProperties
<1>6. \A i \in 1..n : v4[i].at \in Nat /\ v4'[i].at = v4[i].at
  <2> SUFFICES ASSUME NEW i \in 1..n PROVE v4[i].at \in Nat /\ v4'[i].at = v4[i].at
    OBVIOUS
  <2>1. v4[i] \in [at : Nat, right : BOOLEAN]
    BY <1>1, ElementOfSeq
  <2> QED BY <2>1, <1>4
<1>7. v4'[n + 1].at = v1
  BY <1>4
<1> HIDE DEF n
<1>8. Limit(s)!InOrder'
  <2>1. \A i \in 1..(n + 1) : i \in 1..n \/ i = n + 1
    BY <1>1
  <2>2. ASSUME NEW i \in 1..(n + 1)
        PROVE  /\ v4'[i].at <= v1
               /\ \A j \in 1..(n + 1) : i <= j => v4'[i].at <= v4'[j].at
    <3>1. v4'[i].at <= v1
      BY <2>1, <1>1, <1>5, <1>6, <1>7
    <3>2. ASSUME NEW j \in 1..(n + 1), i <= j PROVE v4'[i].at <= v4'[j].at
      <4>1. CASE j = n + 1
        BY <4>1, <3>1, <1>7
      <4>2. CASE j \in 1..n
        <5>1. i \in 1..n
          BY <4>2, <3>2, <1>1
        <5> QED BY <5>1, <4>2, <3>2, <1>1, <1>5, <1>6
      <4> QED BY <4>1, <4>2, <2>1
    <3> QED BY <3>1, <3>2
  <2> QED BY <2>2, <1>1, <1>4, <1>5 DEF Limit!InOrder
<1>9. \A i \in 1..n : Limit(s)!Locks(i) <=> Limit(s)!Locks(i)'
  <2> SUFFICES ASSUME NEW i \in 1..n PROVE Limit(s)!Locks(i) <=> Limit(s)!Locks(i)'
    OBVIOUS
  <2>1. i >= s.failures => /\ (i - s.failures + 1)..i \subseteq 1..n
                           /\ i - s.failures + 1 \in 1..n
    BY <1>1, <1>2
  <2>2. i >= s.failures => \A k \in (i - s.failures + 1)..i : v4'[k] = v4[k]
    BY <2>1, <1>4
  <2> QED BY <2>1, <2>2, <1>6 DEF Limit!Locks
<1>10. Limit(s)!LockHolds'
  <2>1. ASSUME NEW i \in 1..n, Limit(s)!Locks(i) PROVE v1 >= v4[i].at + s.lockout
    <3>1. CASE i = n
      <4>1. v4 # <<>> /\ Limit(s)!Locks(Len(v4))
        BY <3>1, <2>1, <1>1 DEF n
      <4>2. v3 = v4[n].at + s.lockout
        BY <4>1 DEF Limit!IInv, Limit!LockIsLast, n
      <4>3. ~(v1 < v3)
        BY DEF Limit!Locked
      <4> QED BY <3>1, <4>2, <4>3, <1>1, <1>2, <1>6
    <3>2. CASE i < n
      <4>1. n \in 1..n /\ n > i
        BY <3>2, <1>1
      <4>2. v4[n].at >= v4[i].at + s.lockout
        BY <4>1, <2>1, <1>5 DEF Limit!IInv, Limit!LockHolds
      <4>3. v4[n].at <= v1 /\ v4[n].at \in Nat /\ v4[i].at \in Nat
        BY <4>1, <1>1, <1>5, <1>6
      <4> QED BY SMTT(40), <4>2, <4>3, <1>1, <1>2
    <3>3. i = n \/ i < n
      BY <1>1
    <3> QED BY <3>1, <3>2, <3>3
  <2>2. ASSUME NEW i \in 1..(n + 1), Limit(s)!Locks(i)', NEW j \in 1..(n + 1), j > i
        PROVE  v4'[j].at >= v4'[i].at + s.lockout
    <3>1. i \in 1..n
      BY <2>2, <1>1
    <3>2. CASE j = n + 1
      BY <3>1, <3>2, <2>1, <2>2, <1>6, <1>7, <1>9
    <3>3. CASE j \in 1..n
      <4>1. v4[j].at >= v4[i].at + s.lockout
        BY <3>1, <3>3, <2>2, <1>5, <1>9 DEF Limit!IInv, Limit!LockHolds
      <4> QED BY <4>1, <3>1, <3>3, <1>6
    <3>4. n \in Nat /\ (j = n + 1 \/ j \in 1..n)
      <4>1. n \in Nat
        BY <1>1
      <4> QED BY <4>1
    <3> QED BY <3>2, <3>3, <3>4
  <2>3. ASSUME NEW r \in DOMAIN v5
        PROVE  \E i \in 1..(n + 1) : /\ Limit(s)!Locks(i)' /\ v4'[i].at <= v5[r]
                                    /\ v5[r] < v4'[i].at + s.lockout
    <3>1. PICK i \in 1..n : /\ Limit(s)!Locks(i) /\ v4[i].at <= v5[r]
                            /\ v5[r] < v4[i].at + s.lockout
      BY <1>5 DEF Limit!IInv, Limit!LockHolds
    <3>2. i \in 1..(n + 1)
      BY <1>1
    <3> QED BY <3>1, <3>2, <1>6, <1>9
  <2> QED BY <2>2, <2>3, <1>5 DEF Limit!LockHolds
<1> QED BY <1>4, <1>8, <1>10 DEF n

\* A lock keeps what is known of it while nothing else changes.
LEMMA LimitTick ==
    ASSUME NEW s \in LimitScopes, Limit(s)!IInv, Limit(s)!Tick
    PROVE  Limit(s)!IInv'
<1>1. /\ v1 \in 1..s.time /\ v1' = v1 + 1 /\ v1' \in 1..s.time
      /\ v2' = v2 /\ v3' = v3 /\ v4' = v4 /\ v5' = v5
  BY LimitAssumption DEF Limit!IInv, Limit!TypeOK, Limit!Tick
<1>2. s.window \in Nat /\ s.lockout \in Nat
  BY LimitAssumption
<1>3. Limit(s)!TypeOK'
  <2>1. \A i \in DOMAIN v2 : v2[i] \in 1..v1 => v2[i] \in 1..v1'
    BY <1>1
  <2> QED BY <1>1, <2>1 DEF Limit!IInv, Limit!TypeOK
<1>4. Limit(s)!InOrder'
  <2>1. /\ v1 \in Nat /\ v4 \in Seq([at : Nat, right : BOOLEAN])
        /\ v5 \in Seq(Nat) /\ \A r \in DOMAIN v5 : v5[r] <= v1
        /\ \A i \in DOMAIN v4 : /\ v4[i].at <= v1
                               /\ \A j \in DOMAIN v4 : i <= j => v4[i].at <= v4[j].at
    BY DEF Limit!IInv, Limit!InOrder
  <2>2. \A r \in DOMAIN v5 : v5[r] <= v1'
    <3>1. \A r \in DOMAIN v5 : v5[r] \in Nat
      BY <2>1, ElementOfSeq, LenProperties
    <3> QED BY <3>1, <2>1, <1>1
  <2>3. \A i \in DOMAIN v4 : v4[i].at <= v1'
    <3>1. \A i \in DOMAIN v4 : v4[i] \in [at : Nat, right : BOOLEAN]
      BY <2>1, ElementOfSeq, LenProperties
    <3>2. \A i \in DOMAIN v4 : v4[i].at \in Nat
      BY <3>1
    <3> QED BY <3>2, <2>1, <1>1
  <2> QED BY <1>1, <2>1, <2>2, <2>3 DEF Limit!InOrder
<1>5. Limit(s)!FailuresAreLast'
  <2>1. \A t \in Nat : Limit(s)!TooOld(t) => Limit(s)!TooOld(t)'
    BY <1>1, <1>2 DEF Limit!TooOld
  <2>2. /\ v4 \in Seq([at : Nat, right : BOOLEAN]) /\ v2 \in Seq(Nat)
        /\ Len(v2) <= Len(v4)
    BY DEF Limit!IInv, Limit!InOrder, Limit!FailuresAreLast
  <2>3. Len(v2) < Len(v4) => v4[Len(v4) - Len(v2)].at \in Nat
    <3>1. Len(v2) < Len(v4) => Len(v4) - Len(v2) \in 1..Len(v4)
      BY <2>2
    <3>2. Len(v2) < Len(v4) => v4[Len(v4) - Len(v2)] \in [at : Nat, right : BOOLEAN]
      BY <3>1, <2>2, ElementOfSeq
    <3> QED BY <3>2
  <2> QED BY <1>1, <2>1, <2>3 DEF Limit!IInv, Limit!FailuresAreLast
<1>6. Limit(s)!LockIsLast' /\ Limit(s)!LockHolds'
  BY <1>1 DEF Limit!IInv, Limit!LockIsLast, Limit!LockHolds, Limit!Locks
<1> QED BY <1>3, <1>4, <1>5, <1>6 DEF Limit!IInv

\* What is refused is refused within the lockout of the last verdict.
LEMMA LimitRefuse ==
    ASSUME NEW s \in LimitScopes, Limit(s)!IInv, Limit(s)!Refuse
    PROVE  Limit(s)!IInv'
<1>1. /\ v1 < v3 /\ v5' = Append(v5, v1)
      /\ v1' = v1 /\ v2' = v2 /\ v3' = v3 /\ v4' = v4
  BY DEF Limit!Refuse, Limit!Locked
<1>2. /\ v1 \in Nat /\ v5 \in Seq(Nat) /\ \A r \in DOMAIN v5 : v5[r] <= v1
      /\ v4 \in Seq([at : Nat, right : BOOLEAN]) /\ v3 \in Nat
      /\ \A i \in DOMAIN v4 : v4[i].at <= v1
  BY LimitAssumption DEF Limit!IInv, Limit!InOrder, Limit!TypeOK
<1>3. /\ v5' \in Seq(Nat) /\ DOMAIN v5' = 1..(Len(v5) + 1) /\ DOMAIN v5 = 1..Len(v5)
      /\ \A r \in 1..Len(v5) : v5'[r] = v5[r]
      /\ v5'[Len(v5) + 1] = v1
  BY <1>1, <1>2, AppendProperties, LenProperties
<1>4. \A r \in DOMAIN v5' : r \in DOMAIN v5 \/ r = Len(v5) + 1
  BY <1>2, <1>3
<1>5. Limit(s)!InOrder'
  BY <1>1, <1>2, <1>3, <1>4 DEF Limit!IInv, Limit!InOrder
<1>6. Limit(s)!TypeOK' /\ Limit(s)!FailuresAreLast' /\ Limit(s)!LockIsLast'
  BY <1>1 DEF Limit!IInv, Limit!TypeOK, Limit!FailuresAreLast, Limit!LockIsLast, Limit!Locks,
              Limit!TooOld
<1>7. Limit(s)!LockHolds'
  <2>1. v3 # 0
    BY <1>1, <1>2
  <2>2. /\ v4 # <<>> /\ Limit(s)!Locks(Len(v4)) /\ v3 = v4[Len(v4)].at + s.lockout
    BY <2>1 DEF Limit!IInv, Limit!LockIsLast
  <2>3. Len(v4) \in DOMAIN v4
    BY <2>2, <1>2, EmptySeq, LenProperties
  <2>4. /\ Limit(s)!Locks(Len(v4)) /\ v4[Len(v4)].at <= v1 /\ v1 < v4[Len(v4)].at + s.lockout
    BY <2>2, <2>3, <1>1, <1>2
  <2>5. \A i : Limit(s)!Locks(i)' <=> Limit(s)!Locks(i)
    BY <1>1 DEF Limit!Locks
  <2> QED BY <2>3, <2>4, <2>5, <1>1, <1>3, <1>4 DEF Limit!IInv, Limit!LockHolds
<1> QED BY <1>5, <1>6, <1>7 DEF Limit!IInv

\* A wrong password: the last failures in a row, with this one, make a lock
\* exactly where one is set.
LEMMA LimitWrong ==
    ASSUME NEW s \in LimitScopes, Limit(s)!IInv, Limit(s)!Wrong
    PROVE  Limit(s)!IInv'
<1> SUFFICES ASSUME NEW cur, cur = Limit(s)!Current, NEW c, c = Len(cur),
                    NEW n, n = Len(v4), NEW last, last = n + 1,
                    NEW first, first = last - s.failures + 1
             PROVE  Limit(s)!IInv'
  OBVIOUS
<1>1. /\ ~Limit(s)!Locked /\ v4' = Append(v4, [at |-> v1, right |-> FALSE])
      /\ v1' = v1 /\ v5' = v5
      /\ IF Len(Append(cur, v1)) >= s.failures
          THEN v2' = <<>> /\ v3' = v1 + s.lockout
          ELSE v2' = Append(cur, v1) /\ v3' = 0
  BY DEF Limit!Wrong
<1>2. /\ cur \in Seq(Nat) /\ c < s.failures /\ c <= n
      /\ \A k \in 1..c : v4[n - c + k] = [at |-> cur[k], right |-> FALSE]
      /\ \A k \in 1..c : cur[k] \in 1..v1
      /\ c < n => v4[n - c].right \/ Limit(s)!TooOld(v4[n - c].at)
      /\ c > 0 => ~Limit(s)!TooOld(cur[1])
  BY <1>1, CurrentIsLast
<1>3. /\ Limit(s)!InOrder' /\ Limit(s)!LockHolds'
      /\ Len(v4') = n + 1 /\ v4'[n + 1] = [at |-> v1, right |-> FALSE]
      /\ \A i \in 1..n : v4'[i] = v4[i]
  BY <1>1, VerdictKeepsLocks
<1>4. /\ v1 \in Nat /\ v1 \in 1..s.time /\ n \in Nat /\ c \in Nat
      /\ v4 \in Seq([at : Nat, right : BOOLEAN])
  BY <1>2 DEF Limit!IInv, Limit!InOrder, Limit!TypeOK
<1>5. /\ s.failures \in Nat \ {0} /\ s.window \in Nat \ {0} /\ s.lockout \in Nat \ {0}
      /\ s.time \in Nat
  BY LimitAssumption
<1>6. /\ Append(cur, v1) \in Seq(Nat) /\ Len(Append(cur, v1)) = c + 1
      /\ \A k \in 1..c : Append(cur, v1)[k] = cur[k]
      /\ Append(cur, v1)[c + 1] = v1
  BY <1>2, <1>4, AppendProperties
<1>7. last \in DOMAIN v4' /\ DOMAIN v4' = 1..last /\ v4' # <<>> /\ Len(v4') = last
  <2>1. v4' \in Seq([at : Nat, right : BOOLEAN])
    BY <1>3 DEF Limit!InOrder
  <2>2. Len(v4') = last /\ last \in 1..last /\ last # 0
    BY <1>3, <1>4
  <2> QED BY <2>1, <2>2, LenProperties, EmptySeq
<1>8. \A i \in 1..last : v4'[i].at \in Nat
  <2>1. v4' \in Seq([at : Nat, right : BOOLEAN])
    BY <1>3 DEF Limit!InOrder
  <2>2. \A i \in 1..last : v4'[i] \in [at : Nat, right : BOOLEAN]
    BY <2>1, <1>7, ElementOfSeq
  <2> QED BY <2>2
<1>9. \A k \in (n - c + 1)..last : ~v4'[k].right
  <2> SUFFICES ASSUME NEW k \in (n - c + 1)..last PROVE ~v4'[k].right
    OBVIOUS
  <2>1. CASE k = last
    BY <2>1, <1>3
  <2>2. CASE k # last
    <3>1. k \in 1..n /\ k - (n - c) \in 1..c /\ n - c + (k - (n - c)) = k
      BY <2>2, <1>2, <1>4
    <3>2. v4[k] = [at |-> cur[k - (n - c)], right |-> FALSE]
      BY <3>1, <1>2
    <3> QED BY <3>1, <3>2, <1>3
  <2> QED BY <2>1, <2>2
<1>10. CASE c + 1 >= s.failures
  <2>1. v2' = <<>> /\ v3' = v1 + s.lockout /\ c + 1 = s.failures /\ first = n - c + 1
    BY SMTT(40), <1>10, <1>1, <1>2, <1>4, <1>5, <1>6
  <2>2. Limit(s)!TypeOK'
    <3>1. v3' \in 0..(s.time + s.lockout) /\ 0 < s.failures
      <4>1. \A x \in 1..s.time : x + s.lockout \in 0..(s.time + s.lockout)
        BY SMTT(40), <1>5
      <4>2. v1 \in 1..s.time /\ v3' = v1 + s.lockout
        BY <2>1, <1>4
      <4> QED BY <4>1, <4>2, <1>5
    <3>2. Len(<<>>) = 0 /\ DOMAIN <<>> = {}
      OBVIOUS
    <3> QED BY <3>1, <3>2, <2>1, <1>1, <1>4 DEF Limit!TypeOK
  <2>3. Limit(s)!FailuresAreLast'
    <3>1. v3' # 0 /\ Len(<<>>) = 0 /\ 1..0 = {} /\ <<>> \in Seq(Nat)
      BY <2>1, <1>4, <1>5
    <3>2. 0 <= Len(v4') /\ 0 < s.failures
      BY <1>3, <1>4, <1>5
    <3> QED BY <3>1, <3>2, <2>1 DEF Limit!FailuresAreLast
  <2>4. Limit(s)!Locks(last)'
    <3>1. last >= s.failures /\ \A k \in first..last : ~v4'[k].right
      <4>1. c <= n
        BY <1>2
      <4>2. last >= s.failures
        BY <4>1, <2>1, <1>4
      <4> QED BY <4>2, <2>1, <1>9
    <3>2. v1 < v4'[first].at + s.window
      <4>1. CASE c = 0
        BY <4>1, <2>1, <1>3, <1>4, <1>5
      <4>2. CASE c > 0
        <5>1. first \in 1..n /\ 1 \in 1..c /\ n - c + 1 = first
          BY SMTT(40), <4>2, <2>1, <1>2, <1>4
        <5>2. v4'[first].at = cur[1] /\ cur[1] \in Nat
          <6>1. v4[first] = [at |-> cur[1], right |-> FALSE] /\ cur[1] \in 1..v1
            BY <5>1, <1>2
          <6>2. v4'[first] = v4[first]
            BY <5>1, <1>3
          <6> QED BY <6>1, <6>2, <1>4
        <5>3. ~(cur[1] + s.window <= v1)
          BY <4>2, <1>2 DEF Limit!TooOld
        <5> QED BY <5>2, <5>3, <1>4, <1>5
      <4> QED BY <4>1, <4>2, <1>4
    <3> QED BY <3>1, <3>2, <1>3 DEF Limit!Locks
  <2>5. Limit(s)!LockIsLast'
    <3>1. v4'[last].at = v1
      BY <1>3
    <3> QED BY <3>1, <2>1, <2>4, <1>7 DEF Limit!LockIsLast
  <2> QED BY <2>2, <2>3, <2>5, <1>3 DEF Limit!IInv
<1>11. CASE ~(c + 1 >= s.failures)
  <2>1. v2' = Append(cur, v1) /\ v3' = 0
    BY <1>11, <1>1, <1>6
  <2>2. Limit(s)!TypeOK'
    <3>1. DOMAIN v2' = 1..(c + 1) /\ Len(v2') < s.failures
      BY <2>1, <1>6, <1>11, <1>4, <1>5, LenProperties
    <3>2. \A i \in 1..(c + 1) : v2'[i] \in 1..v1
      <4>1. \A i \in 1..(c + 1) : i \in 1..c \/ i = c + 1
        BY <1>4
      <4>2. v1 \in 1..v1
        BY <1>4
      <4> QED BY <4>1, <4>2, <2>1, <1>2, <1>6
    <3> QED BY <3>1, <3>2, <2>1, <1>1, <1>4, <1>5 DEF Limit!TypeOK
  <2>3. Limit(s)!FailuresAreLast'
    <3>1. Len(v2') = c + 1 /\ Len(v4') = n + 1 /\ (n + 1) - (c + 1) = n - c
      BY <2>1, <1>3, <1>4, <1>6
    <3>2. \A k \in 1..(c + 1) : v4'[n - c + k] = [at |-> v2'[k], right |-> FALSE]
      <4> SUFFICES ASSUME NEW k \in 1..(c + 1)
                   PROVE  v4'[n - c + k] = [at |-> v2'[k], right |-> FALSE]
        OBVIOUS
      <4>1. CASE k = c + 1
        <5>1. n - c + k = n + 1
          BY <4>1, <1>4
        <5> QED BY <5>1, <4>1, <2>1, <1>3, <1>6
      <4>2. CASE k \in 1..c
        <5>1. n - c + k \in 1..n
          BY SMTT(40), <4>2, <1>2, <1>4
        <5> QED BY <5>1, <4>2, <2>1, <1>2, <1>3, <1>6
      <4> QED BY <4>1, <4>2, <1>4
    <3>3. c + 1 < n + 1 => v4'[n - c].right \/ v4'[n - c].at + s.window <= v1'
      <4> SUFFICES ASSUME c + 1 < n + 1
                   PROVE  v4'[n - c].right \/ v4'[n - c].at + s.window <= v1'
        OBVIOUS
      <4>1. c < n /\ n - c \in 1..n
        BY <1>4
      <4>2. v4[n - c].right \/ v4[n - c].at + s.window <= v1
        BY <4>1, <1>2 DEF Limit!TooOld
      <4> QED BY <4>1, <4>2, <1>1, <1>3
    <3>4. v2' \in Seq(Nat) /\ c + 1 < s.failures /\ c + 1 <= n + 1
      BY <2>1, <1>2, <1>4, <1>5, <1>6, <1>11
    <3> QED BY <3>1, <3>2, <3>3, <3>4 DEF Limit!FailuresAreLast, Limit!TooOld
  <2>4. ~Limit(s)!Locks(last)'
    <3> SUFFICES ASSUME Limit(s)!Locks(last)' PROVE FALSE
      OBVIOUS
    <3>1. /\ last >= s.failures /\ \A k \in first..last : ~v4'[k].right
          /\ v1 < v4'[first].at + s.window
      BY <1>3 DEF Limit!Locks
    <3>2. c < n /\ n - c \in first..last /\ n - c \in 1..n /\ first \in 1..last
          /\ n - c \in 1..last /\ first <= n - c
      <4>1. last >= s.failures /\ c + 1 < s.failures /\ s.failures \in Nat \ {0}
        BY <3>1, <1>11, <1>4, <1>5
      <4> HIDE <1>11
      <4> QED BY SMTT(40), <4>1, <1>4
    <3>3. Limit(s)!TooOld(v4[n - c].at)
      BY <3>1, <3>2, <1>2, <1>3
    <3>4. v4'[n - c].at + s.window <= v1
      BY <3>2, <3>3, <1>3 DEF Limit!TooOld
    <3>5. v4'[first].at <= v4'[n - c].at
      BY <3>2, <1>3, <1>7 DEF Limit!InOrder
    <3>6. v4'[first].at \in Nat /\ v4'[n - c].at \in Nat
      BY <3>2, <1>8
    <3>7. \A a, b \in Nat : a <= b /\ b + s.window <= v1 => ~(v1 < a + s.window)
      BY <1>4, <1>5
    <3> QED BY <3>1, <3>4, <3>5, <3>6, <3>7
  <2>5. Limit(s)!LockIsLast'
    BY <2>1, <2>4, <1>7 DEF Limit!LockIsLast
  <2> QED BY <2>2, <2>3, <2>5, <1>3 DEF Limit!IInv
<1> QED BY <1>10, <1>11

\* The right password ends what counts.
LEMMA LimitRight ==
    ASSUME NEW s \in LimitScopes, Limit(s)!IInv, Limit(s)!Right
    PROVE  Limit(s)!IInv'
<1> SUFFICES ASSUME NEW last, last = Len(v4) + 1 PROVE Limit(s)!IInv'
  OBVIOUS
<1>1. /\ ~Limit(s)!Locked /\ v4' = Append(v4, [at |-> v1, right |-> TRUE])
      /\ v1' = v1 /\ v5' = v5 /\ v2' = <<>> /\ v3' = 0
  BY DEF Limit!Right
<1>2. /\ Limit(s)!InOrder' /\ Limit(s)!LockHolds'
      /\ Len(v4') = Len(v4) + 1 /\ v4'[Len(v4) + 1] = [at |-> v1, right |-> TRUE]
  BY <1>1, VerdictKeepsLocks
<1>3. /\ v1 \in 1..s.time /\ Len(v4) \in Nat
  BY DEF Limit!IInv, Limit!InOrder, Limit!TypeOK
<1>4. s.failures \in Nat \ {0} /\ s.lockout \in Nat /\ s.time \in Nat
  BY LimitAssumption
<1>5. Len(<<>>) = 0 /\ DOMAIN <<>> = {} /\ <<>> \in Seq(Nat) /\ 1..0 = {}
  OBVIOUS
<1>6. Limit(s)!TypeOK'
  BY <1>1, <1>3, <1>4, <1>5 DEF Limit!TypeOK
<1>7. Limit(s)!FailuresAreLast'
  <2>1. 0 <= Len(v4') /\ 0 < s.failures /\ Len(v4') - 0 = Len(v4) + 1
    BY <1>2, <1>3, <1>4
  <2> QED BY <2>1, <1>1, <1>2, <1>5 DEF Limit!FailuresAreLast
<1>8. ~Limit(s)!Locks(last)'
  <2>1. last \in (last - s.failures + 1)..last
    BY <1>3, <1>4
  <2> QED BY <2>1, <1>2 DEF Limit!Locks
<1>9. Limit(s)!LockIsLast'
  BY <1>1, <1>2, <1>8 DEF Limit!LockIsLast
<1> QED BY <1>2, <1>6, <1>7, <1>9 DEF Limit!IInv

\* The limit starts in its invariant,
LEMMA LimitInit ==
    ASSUME NEW s \in LimitScopes, Limit(s)!Init
    PROVE  Limit(s)!IInv
<1>1. s.failures \in Nat \ {0} /\ s.lockout \in Nat /\ s.time \in Nat \ {0}
  BY LimitAssumption
<1>2. v1 = 1 /\ v2 = <<>> /\ v3 = 0 /\ v4 = <<>> /\ v5 = <<>>
  BY DEF Limit!Init
<1>3. Len(<<>>) = 0 /\ DOMAIN <<>> = {} /\ <<>> \in Seq(Nat) /\ 1..0 = {}
      /\ <<>> \in Seq([at : Nat, right : BOOLEAN])
  OBVIOUS
<1>4. 1 \in 1..s.time /\ 0 \in 0..(s.time + s.lockout) /\ 0 < s.failures
  BY <1>1
<1> QED BY <1>2, <1>3, <1>4 DEF Limit!IInv, Limit!TypeOK, Limit!InOrder, Limit!FailuresAreLast,
                                Limit!LockIsLast, Limit!LockHolds

\* and keeps it.
LEMMA LimitStep ==
    ASSUME NEW s \in LimitScopes, Limit(s)!IInv, Limit(s)!Next \/ UNCHANGED <<v1, v2, v3, v4, v5>>
    PROVE  Limit(s)!IInv'
<1>1. CASE UNCHANGED <<v1, v2, v3, v4, v5>>
  BY <1>1 DEF Limit!IInv, Limit!TypeOK, Limit!InOrder, Limit!FailuresAreLast, Limit!LockIsLast,
              Limit!LockHolds, Limit!Locks, Limit!TooOld
<1>2. CASE Limit(s)!Next
  BY <1>2, LimitTick, LimitRefuse, LimitWrong, LimitRight DEF Limit!Next
<1> QED BY <1>1, <1>2

\* LockHolds: with the lock of rate_limit.rs no password is compared within the
\* lockout after failures that make a lock, and none is refused at another
\* time, for every window and every lockout that is no shorter.
THEOREM LocksHold == Spec => []LockHolds
<1> DEFINE I == \A s \in LimitScopes : Is("limit", s) => Limit(s)!IInv
<1>1. Init => I
  BY LimitInit DEF Init, Is
<1>2. I /\ [Next]_vars => I'
  <2> SUFFICES ASSUME I, [Next]_vars, NEW s \in LimitScopes, Is("limit", s)'
               PROVE  Limit(s)!IInv'
    OBVIOUS
  <2>1. CASE UNCHANGED vars
    BY <2>1, LimitStep DEF vars, Is
  <2>2. CASE Next
    <3>1. Is("limit", s)
      BY <2>2 DEF Next, In, Is
    <3>2. In("limit", s) /\ Limit(s)!Next
      BY <2>2, <3>1 DEF Next, In, Is
    <3> QED BY <3>1, <3>2, LimitStep
  <2> QED BY <2>1, <2>2
<1>3. I => LockHolds
  BY DEF LockHolds, Limit!IInv
<1> QED BY <1>1, <1>2, <1>3, PTL DEF Spec

-----------------------------------------------------------------------------
(* The layout of the guild                                                  *)

\* The names are told apart.
LEMMA GuildNames ==
    ASSUME NEW s \in GuildScopes
    PROVE  /\ Guild(s)!Task \notin Guild(s)!Names /\ Guild(s)!Task \notin Guild(s)!Names'
           /\ Guild(s)!Control \notin Guild(s)!Categories
           /\ Guild(s)!NewTask \notin Guild(s)!Categories
           /\ Guild(s)!NewTask # Guild(s)!Control
           /\ Guild(s)!Task # Guild(s)!Control /\ Guild(s)!Task # Guild(s)!NewTask
<1>1. /\ Guild(s)!Task[1] = "task" /\ Guild(s)!Control[1] = "control"
      /\ Guild(s)!Running[1] = "running" /\ Guild(s)!NewTask[1] = "new-task"
      /\ \A m : Guild(s)!Done(m)[1] = "done"
  BY DEF Guild!Task, Guild!Control, Guild!Running, Guild!NewTask, Guild!Done
<1>2. \A name \in Guild(s)!Categories : name[1] \in {"running", "done"}
  BY <1>1 DEF Guild!Categories
<1>3. \A name \in Guild(s)!Categories' : name[1] \in {"running", "done"}
  BY <1>1 DEF Guild!Categories
<1>4. \A name \in Guild(s)!Names : name[1] # "task"
  BY <1>1, <1>2 DEF Guild!Names
<1>5. \A name \in Guild(s)!Names' : name[1] # "task"
  BY <1>1, <1>3 DEF Guild!Names
<1> QED BY <1>1, <1>2, <1>4, <1>5

\* Its sets are counted as everywhere.
LEMMA GuildCounts ==
    ASSUME NEW s \in GuildScopes, NEW S
    PROVE  Guild(s)!Cardinality(S) = Cardinality(S)
BY DEF Cardinality, Guild!Cardinality, IsFiniteSet, Guild!IsFiniteSet

\* The types that the proofs about the guild use.
Channel(s) == [name : Guild(s)!Names \cup {Guild(s)!Task}, shard : Nat, parent : Nat,
               alive : BOOLEAN]

LEMMA GuildTyped ==
    ASSUME NEW s \in GuildScopes, Guild(s)!Shape
    PROVE  /\ v1 \in Seq(Channel(s)) /\ Len(v1) \in Nat /\ DOMAIN v1 = 1..Len(v1)
           /\ IsFiniteSet(DOMAIN v1) /\ s.room \in Nat /\ v2 \in Nat /\ v3 \in Nat
           /\ \A c \in DOMAIN v1 : v1[c] \in Channel(s)
           /\ \A p \in Guild(s)!Handlers : v4[p].seen \subseteq DOMAIN v1
<1>1. v1 \in Seq(Channel(s)) /\ v2 \in Nat /\ v3 \in Nat
  BY DEF Guild!Shape, Channel
<1>2. Len(v1) \in Nat /\ DOMAIN v1 = 1..Len(v1)
  BY <1>1, LenProperties
<1>3. IsFiniteSet(DOMAIN v1)
  BY <1>2, FS_Interval
<1>4. \A c \in DOMAIN v1 : v1[c] \in Channel(s)
  BY <1>1, <1>2, ElementOfSeq
<1>5. \A p \in Guild(s)!Handlers : v4[p].seen \subseteq DOMAIN v1
  BY DEF Guild!Shape
<1> QED BY <1>1, <1>2, <1>3, <1>4, <1>5, GuildAssumption

\* Numbers in a list of channels.
NumberedIn(list, S) ==
    /\ \A c \in S : list[c].shard \in 1..Cardinality(S)
    /\ \A c, d \in S : list[c].shard = list[d].shard => c = d

\* None of the numbers is missing.
LEMMA NumbersUsed ==
    ASSUME NEW list, NEW S, IsFiniteSet(S), NumberedIn(list, S), NEW n \in 1..Cardinality(S)
    PROVE  \E c \in S : list[c].shard = n
<1> DEFINE f == [c \in S |-> list[c].shard]
           T == 1..Cardinality(S)
<1>1. f \in Injection(S, T)
  BY DEF NumberedIn, Injection, IsInjective
<1>2. Cardinality(S) \in Nat
  BY FS_CardinalityType
<1>3. IsFiniteSet(T) /\ Cardinality(T) = Cardinality(S)
  BY <1>2, FS_Interval
<1>4. f \in Surjection(S, T)
  BY <1>1, <1>3, FS_Injection
<1>5. \A t \in T : \E c \in S : f[c] = t
  BY <1>4 DEF Surjection
<1> QED BY <1>5

\* Nothing is numbered.
LEMMA NumberedNone ==
    ASSUME NEW list PROVE NumberedIn(list, {})
BY DEF NumberedIn

\* One more gets the next number.
LEMMA NumberedNext ==
    ASSUME NEW list, NEW S, NEW other, NEW c, IsFiniteSet(S), NumberedIn(list, S), c \notin S,
           \A d \in S : other[d].shard = list[d].shard, other[c].shard = Cardinality(S) + 1
    PROVE  NumberedIn(other, S \cup {c})
<1>1. Cardinality(S) \in Nat /\ Cardinality(S \cup {c}) = Cardinality(S) + 1
  BY FS_CardinalityType, FS_AddElement
<1>2. \A d \in S : other[d].shard \in 1..Cardinality(S)
  BY DEF NumberedIn
<1> QED BY <1>1, <1>2 DEF NumberedIn

\* The numbers stay when the list changes elsewhere.
LEMMA NumberedStays ==
    ASSUME NEW list, NEW S, NEW other, NumberedIn(list, S),
           \A d \in S : other[d].shard = list[d].shard
    PROVE  NumberedIn(other, S)
BY DEF NumberedIn

\* The order of a name.
Called(list, S, name) == {c \in S : list[c].name = name}

LEMMA GuildOrder ==
    ASSUME NEW s \in GuildScopes
    PROVE  Guild(s)!InOrder <=>
             \A name \in Guild(s)!Names \ (v6 \cup v7) :
                /\ \A c \in Called(v1, DOMAIN v1, name) : v1[c].alive
                /\ NumberedIn(v1, Called(v1, DOMAIN v1, name))
                /\ \A p \in Guild(s)!Handlers : NumberedIn(v1, Called(v1, v4[p].seen, name))
<1>1. \A S : Guild(s)!Numbered(S) <=> NumberedIn(v1, S)
  BY GuildCounts DEF Guild!Numbered, NumberedIn
<1>2. \A name : Guild(s)!AllOf(name) = Called(v1, DOMAIN v1, name)
  BY DEF Guild!AllOf, Called
<1>3. \A p, name : Guild(s)!Of(p, name) = Called(v1, v4[p].seen, name)
  BY DEF Guild!Of, Guild!Listed, Called
<1>4. Guild(s)!InOrder <=>
        \A name \in Guild(s)!Names \ (v6 \cup v7) :
          /\ \A c \in Guild(s)!AllOf(name) : v1[c].alive
          /\ NumberedIn(v1, Guild(s)!AllOf(name))
          /\ \A p \in Guild(s)!Handlers : NumberedIn(v1, Guild(s)!Of(p, name))
  BY <1>1 DEF Guild!InOrder
<1> QED BY <1>2, <1>3, <1>4

LEMMA GuildOrderNext ==
    ASSUME NEW s \in GuildScopes
    PROVE  Guild(s)!InOrder' <=>
             \A name \in Guild(s)!Names' \ (v6' \cup v7') :
                /\ \A c \in Called(v1', DOMAIN v1', name) : v1'[c].alive
                /\ NumberedIn(v1', Called(v1', DOMAIN v1', name))
                /\ \A p \in Guild(s)!Handlers : NumberedIn(v1', Called(v1', v4'[p].seen, name))
<1>1. \A S : Guild(s)!Numbered(S)' <=> NumberedIn(v1', S)
  BY GuildCounts DEF Guild!Numbered, NumberedIn
<1>2. \A name : Guild(s)!AllOf(name)' = Called(v1', DOMAIN v1', name)
  BY DEF Guild!AllOf, Called
<1>3. \A p, name : Guild(s)!Of(p, name)' = Called(v1', v4'[p].seen, name)
  BY DEF Guild!Of, Guild!Listed, Called
<1>4. Guild(s)!InOrder' <=>
        \A name \in Guild(s)!Names' \ (v6' \cup v7') :
          /\ \A c \in Guild(s)!AllOf(name)' : v1'[c].alive
          /\ NumberedIn(v1', Guild(s)!AllOf(name)')
          /\ \A p \in Guild(s)!Handlers : NumberedIn(v1', Guild(s)!Of(p, name)')
  BY <1>1 DEF Guild!InOrder, Guild!Handlers
<1> QED BY <1>2, <1>3, <1>4

\* The order of the channels stays as long as none of the layout is created.
LEMMA GuildOrderKept ==
    ASSUME NEW s \in GuildScopes, Guild(s)!Shape, Guild(s)!InOrder, DOMAIN v1 \subseteq DOMAIN v1',
           \A c \in DOMAIN v1' \ DOMAIN v1 : v1'[c].name = Guild(s)!Task,
           v3' \in Nat, v6 \subseteq v6', v7 \subseteq v7',
           \A c \in DOMAIN v1 : /\ v1'[c].name = v1[c].name /\ v1'[c].shard = v1[c].shard
                                /\ v1[c].alive => v1'[c].alive \/ v1[c].name \in v7',
           \A p \in Guild(s)!Handlers :
              v4'[p].seen \in {v4[p].seen, {}, {c \in DOMAIN v1 : v1[c].alive}}
    PROVE  Guild(s)!InOrder'
<1> SUFFICES ASSUME NEW name \in Guild(s)!Names' \ (v6' \cup v7')
             PROVE  /\ \A c \in Called(v1', DOMAIN v1', name) : v1'[c].alive
                    /\ NumberedIn(v1', Called(v1', DOMAIN v1', name))
                    /\ \A p \in Guild(s)!Handlers : NumberedIn(v1', Called(v1', v4'[p].seen, name))
  BY GuildOrderNext
<1>1. \A S : S \subseteq DOMAIN v1 => Called(v1', S, name) = Called(v1, S, name)
  BY DEF Called
<1>2. \A p \in Guild(s)!Handlers : v4'[p].seen \subseteq DOMAIN v1
  BY GuildTyped
<1>3. Called(v1', DOMAIN v1', name) = Called(v1', DOMAIN v1, name)
  BY GuildNames DEF Called
<1>4. CASE name \in Guild(s)!Names
  <2>1. /\ \A c \in Called(v1, DOMAIN v1, name) : v1[c].alive
        /\ NumberedIn(v1, Called(v1, DOMAIN v1, name))
        /\ \A p \in Guild(s)!Handlers : NumberedIn(v1, Called(v1, v4[p].seen, name))
    BY <1>4, GuildOrder
  <2>2. \A S : S \subseteq DOMAIN v1 /\ NumberedIn(v1, Called(v1, S, name))
                 => NumberedIn(v1', Called(v1', S, name))
    <3>1. ASSUME NEW S, S \subseteq DOMAIN v1, NumberedIn(v1, Called(v1, S, name))
          PROVE  NumberedIn(v1', Called(v1', S, name))
      <4>1. \A d \in Called(v1, S, name) : v1'[d].shard = v1[d].shard
        BY <3>1 DEF Called
      <4> QED BY <4>1, <3>1, <1>1, NumberedStays
    <3> QED BY <3>1
  <2>3. \A c \in Called(v1', DOMAIN v1', name) : v1'[c].alive
    BY <2>1, <1>3 DEF Called
  <2>4. NumberedIn(v1, Called(v1, {c \in DOMAIN v1 : v1[c].alive}, name))
    <3>1. Called(v1, {c \in DOMAIN v1 : v1[c].alive}, name) = Called(v1, DOMAIN v1, name)
      BY <2>1 DEF Called
    <3> QED BY <3>1, <2>1
  <2>5. NumberedIn(v1, Called(v1, {}, name))
    BY NumberedNone DEF Called
  <2>6. ASSUME NEW p \in Guild(s)!Handlers
        PROVE  NumberedIn(v1, Called(v1, v4'[p].seen, name))
    BY <2>1, <2>4, <2>5
  <2>7. \A p \in Guild(s)!Handlers : NumberedIn(v1', Called(v1', v4'[p].seen, name))
    BY <1>2, <2>2, <2>6
  <2>8. NumberedIn(v1', Called(v1', DOMAIN v1', name))
    BY <2>1, <2>2, <1>3
  <2> QED BY <2>3, <2>7, <2>8
<1>5. CASE name \notin Guild(s)!Names
  <2>1. \A c \in DOMAIN v1 : v1[c].name # name
    <3>1. \A c \in DOMAIN v1 : v1[c].name \in Guild(s)!Names \cup {Guild(s)!Task}
      BY GuildTyped DEF Channel
    <3> QED BY <3>1, <1>5, GuildNames
  <2>2. \A S : S \subseteq DOMAIN v1 => Called(v1', S, name) = {}
    BY <2>1 DEF Called
  <2> QED BY <1>2, <1>3, <2>2, NumberedNone DEF Called
<1> QED BY <1>4, <1>5

\* A new channel gets the next number of its name, or its name is raced.
LEMMA GuildOrderGrows ==
    ASSUME NEW s \in GuildScopes, Guild(s)!Shape, Guild(s)!InOrder,
           NEW p \in Guild(s)!Handlers, NEW base, NEW shard, NEW parent,
           Guild(s)!Creates(p, base, shard, parent), UNCHANGED <<v3, v7>>,
           base \in Guild(s)!Names,
           base \notin v6' \cup v7' => shard = Cardinality(Called(v1, v4[p].seen, base)) + 1,
           \A q \in Guild(s)!Handlers :
              \/ v4'[q].seen = v4[q].seen
              \/ q = p /\ v4'[q].seen = v4[q].seen \cup {Len(v1) + 1}
                 /\ (base \notin v6' \cup v7' => Called(v1, v4[p].seen, base) = {})
    PROVE  Guild(s)!InOrder'
<1> DEFINE new == Len(v1) + 1
           channel == [name |-> base, shard |-> shard, parent |-> parent, alive |-> TRUE]
<1>1. v1' = Append(v1, channel) /\ v6 \subseteq v6'
  BY DEF Guild!Creates
<1>2. /\ DOMAIN v1' = DOMAIN v1 \cup {new} /\ v1'[new] = channel /\ new \notin DOMAIN v1
      /\ \A c \in DOMAIN v1 : v1'[c] = v1[c]
  <2> HIDE DEF channel
  <2>1. v1 \in Seq(Channel(s)) /\ Len(v1) \in Nat /\ DOMAIN v1 = 1..Len(v1)
    BY GuildTyped
  <2>2. /\ DOMAIN Append(v1, channel) = 1..new
        /\ \A c \in 1..Len(v1) : Append(v1, channel)[c] = v1[c]
        /\ Append(v1, channel)[new] = channel
    BY <2>1
  <2> QED BY <2>1, <2>2, <1>1
<1>3. Guild(s)!Names' = Guild(s)!Names
  BY DEF Guild!Names, Guild!Categories
<1> SUFFICES ASSUME NEW name \in Guild(s)!Names \ (v6' \cup v7')
             PROVE  /\ \A c \in Called(v1', DOMAIN v1', name) : v1'[c].alive
                    /\ NumberedIn(v1', Called(v1', DOMAIN v1', name))
                    /\ \A q \in Guild(s)!Handlers : NumberedIn(v1', Called(v1', v4'[q].seen, name))
  BY <1>3, GuildOrderNext
<1>4. /\ \A c \in Called(v1, DOMAIN v1, name) : v1[c].alive
      /\ NumberedIn(v1, Called(v1, DOMAIN v1, name))
      /\ \A q \in Guild(s)!Handlers : NumberedIn(v1, Called(v1, v4[q].seen, name))
  BY <1>1, GuildOrder
<1>5. \A q \in Guild(s)!Handlers : v4[q].seen \subseteq DOMAIN v1
  BY GuildTyped
<1>6. \A S : S \subseteq DOMAIN v1 /\ NumberedIn(v1, Called(v1, S, name))
               => /\ NumberedIn(v1', Called(v1', S, name))
                  /\ Called(v1', S, name) = Called(v1, S, name)
  <2>1. ASSUME NEW S, S \subseteq DOMAIN v1, NumberedIn(v1, Called(v1, S, name))
        PROVE  /\ NumberedIn(v1', Called(v1', S, name))
               /\ Called(v1', S, name) = Called(v1, S, name)
    <3>1. Called(v1', S, name) = Called(v1, S, name)
      BY <2>1, <1>2 DEF Called
    <3>2. \A d \in Called(v1, S, name) : v1'[d].shard = v1[d].shard
      BY <2>1, <1>2 DEF Called
    <3> QED BY <3>1, <3>2, <2>1, NumberedStays
  <2> QED BY <2>1
<1>7. CASE name # base
  <2>1. \A S : S \subseteq DOMAIN v1 =>
           Called(v1', S \cup {new}, name) = Called(v1', S, name)
    BY <1>2, <1>7 DEF Called
  <2>2. \A q \in Guild(s)!Handlers : Called(v1', v4'[q].seen, name) = Called(v1', v4[q].seen, name)
    BY <2>1, <1>5
  <2>3. Called(v1', DOMAIN v1', name) = Called(v1', DOMAIN v1, name)
    BY <2>1, <1>2
  <2>4. \A c \in Called(v1', DOMAIN v1, name) : v1'[c].alive
    BY <1>2, <1>4 DEF Called
  <2> QED BY <2>2, <2>3, <2>4, <1>4, <1>5, <1>6
<1>8. CASE name = base
  <2> DEFINE all == Called(v1, DOMAIN v1, base)
             mine == Called(v1, v4[p].seen, base)
  <2>0. shard = Cardinality(mine) + 1
    BY <1>8
  <2>1. /\ all \subseteq DOMAIN v1 /\ IsFiniteSet(all) /\ Cardinality(all) \in Nat
        /\ mine \subseteq all /\ IsFiniteSet(mine) /\ Cardinality(mine) \in Nat
        /\ Cardinality(mine) <= Cardinality(all)
        /\ Cardinality(all) = Cardinality(mine) => mine = all
    <3>1. all \in SUBSET DOMAIN v1 /\ mine \in SUBSET all
      BY <1>5 DEF Called
    <3>2. IsFiniteSet(all)
      BY <3>1, FS_Subset, GuildTyped
    <3>3. /\ IsFiniteSet(mine) /\ Cardinality(mine) <= Cardinality(all)
          /\ Cardinality(all) = Cardinality(mine) => all = mine
      BY <3>1, <3>2, FS_Subset
    <3> HIDE DEF all, mine
    <3> QED BY <3>1, <3>2, <3>3, FS_CardinalityType
  <2>2. mine = all
    <3> SUFFICES ASSUME mine # all PROVE FALSE
      OBVIOUS
    <3>1. Cardinality(mine) + 1 \in 1..Cardinality(all)
      <4> HIDE DEF mine, all
      <4> QED BY <2>1
    <3>2. NumberedIn(v1, all) /\ NumberedIn(v1, mine)
      BY <1>4, <1>8
    <3>3. PICK c \in all : v1[c].shard = Cardinality(mine) + 1
      <4> HIDE DEF mine, all
      <4> QED BY <3>1, <3>2, <2>1, NumbersUsed
    <3>4. c \in Guild(s)!Same(base, shard)
      BY <2>0, <3>3, <1>4, <1>8 DEF Guild!Same, Called
    <3>5. Guild(s)!Same(base, shard) \cap v4[p].seen = {}
      <4> SUFFICES ASSUME NEW d \in Guild(s)!Same(base, shard), d \in v4[p].seen PROVE FALSE
        OBVIOUS
      <4>1. d \in mine /\ v1[d].shard = Cardinality(mine) + 1
        BY <2>0 DEF Guild!Same, Called
      <4>2. v1[d].shard \in 1..Cardinality(mine)
        BY <4>1, <3>2 DEF NumberedIn
      <4> HIDE DEF mine
      <4> QED BY <4>1, <4>2, <2>1
    <3>6. base \in v6'
      BY <3>4, <3>5 DEF Guild!Creates, Guild!Listed
    <3> QED BY <3>6, <1>8
  <2>3. Called(v1', DOMAIN v1', base) = all \cup {new}
    BY <1>2 DEF Called
  <2>4. NumberedIn(v1', all \cup {new})
    <3>1. \A d \in all : v1'[d].shard = v1[d].shard
      BY <1>2 DEF Called
    <3>2. v1'[new].shard = Cardinality(all) + 1 /\ new \notin all
      <4>1. v1'[new].shard = Cardinality(mine) + 1
        BY <1>2, <2>0
      <4>2. new \notin all
        BY <1>2, <2>1
      <4> HIDE DEF all, mine, new
      <4> QED BY <4>1, <4>2, <2>2
    <3>3. NumberedIn(v1, all)
      BY <1>4, <1>8
    <3> HIDE DEF all, new
    <3> QED BY <3>1, <3>2, <3>3, <2>1, NumberedNext
  <2>5. \A c \in all \cup {new} : v1'[c].alive
    BY <1>2, <1>4, <1>8 DEF Called
  <2>6. ASSUME NEW q \in Guild(s)!Handlers
        PROVE  NumberedIn(v1', Called(v1', v4'[q].seen, base))
    <3>1. CASE v4'[q].seen = v4[q].seen
      BY <3>1, <1>4, <1>5, <1>6, <1>8
    <3>2. CASE v4'[q].seen # v4[q].seen
      <4>1. q = p /\ v4'[q].seen = v4[p].seen \cup {new} /\ mine = {}
        BY <3>2, <1>8
      <4>2. Called(v1', v4'[q].seen, base) = {new}
        BY <4>1, <1>2, <1>5 DEF Called
      <4>3. all = {}
        BY <4>1, <2>2
      <4> QED BY <4>2, <4>3, <2>4
    <3> QED BY <3>1, <3>2
  <2> QED BY <1>8, <2>3, <2>4, <2>5, <2>6
<1> QED BY <1>7, <1>8

-----------------------------------------------------------------------------
\* What a handler knows, of any list of channels.
Fit(s, k, list, categories) ==
    LET names == {Guild(s)!Control, Guild(s)!NewTask} \cup categories
    IN  /\ k \in [pc : {"idle", "layout", "dashboard", "send", "place"}, step : 1..4,
                  seen : SUBSET DOMAIN list, base : names \cup {Guild(s)!Task},
                  control : {0} \cup DOMAIN list, target : Nat]
        /\ k.pc = "layout" => k.base \in categories
        /\ k.control # 0 => list[k.control].name = Guild(s)!Control

LEMMA GuildShape ==
    ASSUME NEW s \in GuildScopes
    PROVE  Guild(s)!Shape <=>
             /\ v1 \in Seq(Channel(s)) /\ v2 \in Nat /\ v3 \in Nat
             /\ \A c \in DOMAIN v1 : v1[c].parent \in {0} \cup DOMAIN v1
             /\ v4 = [p \in Guild(s)!Handlers |-> v4[p]]
             /\ \A p \in Guild(s)!Handlers : Fit(s, v4[p], v1, Guild(s)!Categories)
BY DEF Guild!Shape, Channel, Fit, Guild!Names, Guild!None

LEMMA GuildShapeNext ==
    ASSUME NEW s \in GuildScopes
    PROVE  Guild(s)!Shape' <=>
             /\ v1' \in Seq(Channel(s)') /\ v2' \in Nat /\ v3' \in Nat
             /\ \A c \in DOMAIN v1' : v1'[c].parent \in {0} \cup DOMAIN v1'
             /\ v4' = [p \in Guild(s)!Handlers |-> v4'[p]]
             /\ \A p \in Guild(s)!Handlers : Fit(s, v4'[p], v1', Guild(s)!Categories')
BY DEF Guild!Shape, Channel, Fit, Guild!Names, Guild!None, Guild!Handlers, Guild!Control,
       Guild!NewTask, Guild!Task

\* It goes on knowing it, and one that has returned knows nothing.
LEMMA FitGrows ==
    ASSUME NEW s \in GuildScopes, NEW k, NEW list, NEW longer, NEW categories, NEW more,
           Fit(s, k, list, categories), categories \subseteq more, DOMAIN list \subseteq DOMAIN longer,
           \A c \in DOMAIN list : longer[c].name = list[c].name
    PROVE  Fit(s, k, longer, more)
BY DEF Fit

LEMMA FitIdle ==
    ASSUME NEW s \in GuildScopes, NEW list, NEW categories
    PROVE  Fit(s, Guild(s)!Idle, list, categories) /\ Guild(s)!Idle.seen = {}
BY DEF Fit, Guild!Idle, Guild!None

\* The shape, when channels may be new and what handlers know fits.
LEMMA GuildShapeKept ==
    ASSUME NEW s \in GuildScopes, Guild(s)!Shape,
           v1' \in Seq(Channel(s)), DOMAIN v1 \subseteq DOMAIN v1',
           \A c \in DOMAIN v1 : v1'[c].name = v1[c].name,
           \A c \in DOMAIN v1' : v1'[c].parent \in {0} \cup DOMAIN v1',
           v2' \in Nat, v3' \in Nat, v3 <= v3',
           v4' = [p \in Guild(s)!Handlers |-> v4'[p]],
           \A p \in Guild(s)!Handlers :
              v4'[p] = v4[p] \/ Fit(s, v4'[p], v1', Guild(s)!Categories)
    PROVE  Guild(s)!Shape'
<1>1. Guild(s)!Categories \subseteq Guild(s)!Categories' /\ v3 \in Nat
  BY GuildShape DEF Guild!Categories, Guild!Running, Guild!Done
<1>2. Channel(s) \subseteq Channel(s)'
  BY <1>1 DEF Channel, Guild!Names, Guild!Control, Guild!NewTask, Guild!Task
<1>3. v1' \in Seq(Channel(s)')
  BY <1>2, SeqMonotonic
<1>4. ASSUME NEW p \in Guild(s)!Handlers PROVE Fit(s, v4'[p], v1', Guild(s)!Categories')
  <2>1. Fit(s, v4[p], v1, Guild(s)!Categories)
    BY GuildShape
  <2>2. \A k : Fit(s, k, v1, Guild(s)!Categories) => Fit(s, k, v1', Guild(s)!Categories')
    BY <1>1, FitGrows
  <2>3. \A k : Fit(s, k, v1', Guild(s)!Categories) => Fit(s, k, v1', Guild(s)!Categories')
    BY <1>1, FitGrows
  <2> QED BY <2>1, <2>2, <2>3
<1> QED BY <1>3, <1>4, GuildShapeNext

\* The children of a channel, in a list.
Kids(list, c) == {d \in DOMAIN list : list[d].alive /\ list[d].parent = c}

LEMMA GuildRoom ==
    ASSUME NEW s \in GuildScopes
    PROVE  /\ Guild(s)!Roomy <=> \A c \in DOMAIN v1 :
                v1[c].name # Guild(s)!Control => Cardinality(Kids(v1, c)) <= s.room
           /\ Guild(s)!Roomy' <=> \A c \in DOMAIN v1' :
                v1'[c].name # Guild(s)!Control => Cardinality(Kids(v1', c)) <= s.room
<1>1. \A c : Guild(s)!Children(c) = Kids(v1, c)
  BY DEF Guild!Children, Kids
<1>2. \A c : Guild(s)!Children(c)' = Kids(v1', c)
  BY DEF Guild!Children, Kids
<1>3. \A c : /\ Guild(s)!Cardinality(Kids(v1, c)) = Cardinality(Kids(v1, c))
             /\ Guild(s)!Cardinality(Kids(v1', c)) = Cardinality(Kids(v1', c))
  BY GuildCounts
<1>4. Guild(s)!Roomy <=> \A c \in DOMAIN v1 :
         v1[c].name # Guild(s)!Control => Guild(s)!Cardinality(Kids(v1, c)) <= s.room
  BY <1>1 DEF Guild!Roomy
<1>5. Guild(s)!Roomy' <=> \A c \in DOMAIN v1' :
         v1'[c].name # Guild(s)!Control => Guild(s)!Cardinality(Kids(v1', c)) <= s.room
  BY <1>2 DEF Guild!Roomy, Guild!Control
<1> QED BY <1>3, <1>4, <1>5

\* No category gets a child without a look at its room.
LEMMA GuildRoomKept ==
    ASSUME NEW s \in GuildScopes, Guild(s)!Shape, Guild(s)!Roomy,
           \A c \in DOMAIN v1' : v1'[c].name # Guild(s)!Control =>
              \/ /\ c \in DOMAIN v1 /\ v1[c].name # Guild(s)!Control
                 /\ Kids(v1', c) \subseteq Kids(v1, c)
              \/ Kids(v1', c) = {}
              \/ /\ c \in DOMAIN v1 /\ Cardinality(Kids(v1, c)) < s.room
                 /\ \E d : Kids(v1', c) \subseteq Kids(v1, c) \cup {d}
    PROVE  Guild(s)!Roomy'
<1> SUFFICES ASSUME NEW c \in DOMAIN v1', v1'[c].name # Guild(s)!Control
             PROVE  Cardinality(Kids(v1', c)) <= s.room
  BY GuildRoom
<1>1. IsFiniteSet(Kids(v1, c)) /\ Cardinality(Kids(v1, c)) \in Nat /\ s.room \in Nat
  <2>1. Kids(v1, c) \in SUBSET DOMAIN v1
    BY DEF Kids
  <2> QED BY <2>1, FS_Subset, FS_CardinalityType, GuildTyped
<1>2. CASE Kids(v1', c) = {}
  BY <1>1, <1>2, FS_EmptySet
<1>3. CASE /\ c \in DOMAIN v1 /\ v1[c].name # Guild(s)!Control
           /\ Kids(v1', c) \subseteq Kids(v1, c)
  <2>1. Cardinality(Kids(v1, c)) <= s.room
    BY <1>3, GuildRoom
  <2>2. IsFiniteSet(Kids(v1', c)) /\ Cardinality(Kids(v1', c)) <= Cardinality(Kids(v1, c))
    BY <1>1, <1>3, FS_Subset
  <2>3. Cardinality(Kids(v1', c)) \in Nat
    BY <2>2, FS_CardinalityType
  <2> QED BY <1>1, <2>1, <2>2, <2>3
<1>4. CASE /\ Cardinality(Kids(v1, c)) < s.room
           /\ \E d : Kids(v1', c) \subseteq Kids(v1, c) \cup {d}
  <2>1. PICK d : Kids(v1', c) \subseteq Kids(v1, c) \cup {d}
    BY <1>4
  <2>2. /\ IsFiniteSet(Kids(v1, c) \cup {d})
        /\ Cardinality(Kids(v1, c) \cup {d}) \in {Cardinality(Kids(v1, c)), Cardinality(Kids(v1, c)) + 1}
    BY <1>1, FS_AddElement
  <2>3. IsFiniteSet(Kids(v1', c)) /\ Cardinality(Kids(v1', c)) <= Cardinality(Kids(v1, c) \cup {d})
    BY <2>1, <2>2, FS_Subset
  <2>4. Cardinality(Kids(v1', c)) \in Nat
    BY <2>3, FS_CardinalityType
  <2> QED BY <1>1, <1>4, <2>2, <2>3, <2>4
<1> QED BY <1>2, <1>3, <1>4

\* Steps after which the channels are the same, and one handler is elsewhere.
LEMMA GuildQuiet ==
    ASSUME NEW s \in GuildScopes, Guild(s)!IInv, v1' = v1, v3' = v3, v7' = v7, v6 \subseteq v6',
           v2' \in Nat, Guild(s)!OneDashboard', NEW p \in Guild(s)!Handlers, NEW k,
           Fit(s, k, v1, Guild(s)!Categories),
           k.seen \in {v4[p].seen, {}, {c \in DOMAIN v1 : v1[c].alive}},
           v4' = [v4 EXCEPT ![p] = k]
    PROVE  Guild(s)!IInv'
<1>1. Guild(s)!Shape /\ Guild(s)!Roomy /\ Guild(s)!InOrder
  BY DEF Guild!IInv
<1>2. v4' = [q \in Guild(s)!Handlers |-> IF q = p THEN k ELSE v4[q]]
  BY <1>1, GuildShape
<1>3. Guild(s)!Shape'
  <2>1. v4' = [q \in Guild(s)!Handlers |-> v4'[q]]
    BY <1>2
  <2>2. \A q \in Guild(s)!Handlers :
           v4'[q] = v4[q] \/ Fit(s, v4'[q], v1', Guild(s)!Categories)
    BY <1>2
  <2>3. /\ v1 \in Seq(Channel(s)) /\ v3 \in Nat
        /\ \A c \in DOMAIN v1 : v1[c].parent \in {0} \cup DOMAIN v1
    BY <1>1, GuildShape
  <2>4. v3 <= v3' /\ v3' \in Nat
    BY <2>3
  <2> QED BY <1>1, <2>1, <2>2, <2>3, <2>4, GuildShapeKept
<1>4. Guild(s)!Roomy'
  BY <1>1, GuildRoomKept
<1>5. Guild(s)!InOrder'
  BY <1>1, <1>2, GuildTyped, GuildOrderKept
<1> QED BY <1>3, <1>4, <1>5 DEF Guild!IInv

\* A list of the channels.
LEMMA GuildLists ==
    ASSUME NEW s \in GuildScopes, Guild(s)!IInv, NEW p \in Guild(s)!Handlers,
           Guild(s)!Ready(p) \/ Guild(s)!Move(p)
    PROVE  Guild(s)!IInv'
<1>1. v3 \in Nat /\ v2 \in Nat
  BY GuildTyped DEF Guild!IInv
<1>2. PICK base \in Guild(s)!Categories : Guild(s)!Lists(p, base)
  BY <1>1 DEF Guild!Ready, Guild!Move, Guild!Categories
<1> DEFINE alive == {c \in DOMAIN v1 : v1[c].alive}
<1>3. {c \in DOMAIN v1 : Guild(s)!Alive(c)} = alive
  BY DEF Guild!Alive
<1>4. PICK k : k = [pc |-> "layout", step |-> 1, seen |-> alive, control |-> 0, base |-> base,
                    target |-> 0]
  OBVIOUS
<1>5. v4' = [v4 EXCEPT ![p] = k] /\ UNCHANGED <<v1, v2, v3, v6, v7>>
  <2>1. /\ v4' = [v4 EXCEPT ![p] = [Guild(s)!Idle EXCEPT !.pc = "layout", !.base = base,
                                      !.seen = {c \in DOMAIN v1 : Guild(s)!Alive(c)}]]
        /\ UNCHANGED <<v1, v2, v3, v6, v7>>
    BY <1>2 DEF Guild!Lists
  <2> HIDE DEF alive
  <2>2. k = [Guild(s)!Idle EXCEPT !.pc = "layout", !.base = base, !.seen = alive]
    <3>1. PICK i : i = Guild(s)!Idle
      OBVIOUS
    <3>2. /\ i \in [pc : {"idle", "layout"}, step : {1}, seen : {{}, alive}, control : {0},
                    base : {Guild(s)!Task, base}, target : {0}]
      BY <3>1 DEF Guild!Idle, Guild!None
    <3>3. [i EXCEPT !.pc = "layout", !.base = base, !.seen = alive]
             \in [pc : {"idle", "layout"}, step : {1}, seen : {{}, alive}, control : {0},
                  base : {Guild(s)!Task, base}, target : {0}]
      BY <3>2
    <3>4. PICK r : r = [i EXCEPT !.pc = "layout", !.base = base, !.seen = alive]
      OBVIOUS
    <3>5. r.pc = "layout" /\ r.base = base /\ r.seen = alive
      BY <3>2, <3>4
    <3>6. r \in [pc : {"idle", "layout"}, step : {1}, seen : {{}, alive}, control : {0},
                 base : {Guild(s)!Task, base}, target : {0}]
      BY <3>3, <3>4
    <3>7. r = k
      BY <1>4, <3>5, <3>6
    <3> QED BY <3>1, <3>4, <3>7
  <2> QED BY <1>3, <2>1, <2>2
<1>6. Fit(s, k, v1, Guild(s)!Categories)
  BY <1>4 DEF Fit
<1>7. Guild(s)!OneDashboard'
  BY <1>5 DEF Guild!IInv, Guild!OneDashboard, Guild!NewTask
<1> QED BY <1>1, <1>4, <1>5, <1>6, <1>7, GuildQuiet

\* The card of the dashboard, and calls that are refused.
LEMMA GuildReturns ==
    ASSUME NEW s \in GuildScopes, Guild(s)!IInv, NEW p \in Guild(s)!Handlers,
           Guild(s)!GiveUp(p), UNCHANGED <<v1, v3, v7>>, v6 \subseteq v6', v2' \in Nat,
           Guild(s)!OneDashboard'
    PROVE  Guild(s)!IInv'
<1>1. PICK k : k = Guild(s)!Idle
  OBVIOUS
<1>2. v4' = [v4 EXCEPT ![p] = k]
  BY <1>1 DEF Guild!GiveUp
<1>3. Fit(s, k, v1, Guild(s)!Categories) /\ k.seen = {}
  BY <1>1, FitIdle
<1> QED BY <1>2, <1>3, GuildQuiet

LEMMA GuildDashboard ==
    ASSUME NEW s \in GuildScopes, Guild(s)!IInv, NEW p \in Guild(s)!Handlers,
           Guild(s)!ReadDashboard(p) \/ Guild(s)!SendDashboard(p) \/ Guild(s)!Refused(p)
    PROVE  Guild(s)!IInv'
<1>1. v2 \in Nat /\ Fit(s, v4[p], v1, Guild(s)!Categories)
  BY GuildTyped, GuildShape DEF Guild!IInv
<1>2. CASE Guild(s)!GiveUp(p) /\ ~Guild(s)!SendDashboard(p)
  <2>1. UNCHANGED <<v1, v2, v3, v6, v7>>
    BY <1>2 DEF Guild!ReadDashboard, Guild!Refused
  <2>2. Guild(s)!OneDashboard'
    BY <2>1 DEF Guild!IInv, Guild!OneDashboard, Guild!NewTask
  <2> QED BY <1>1, <1>2, <2>1, <2>2, GuildReturns
<1>3. CASE Guild(s)!SendDashboard(p)
  <2>1. /\ UNCHANGED <<v1, v3, v7>> /\ v2' = v2 + 1 /\ Guild(s)!GiveUp(p)
        /\ v6' = IF v2 > 0 THEN v6 \cup {Guild(s)!NewTask} ELSE v6
    BY <1>3 DEF Guild!SendDashboard
  <2>2. Guild(s)!OneDashboard'
    BY <1>1, <2>1 DEF Guild!IInv, Guild!OneDashboard, Guild!NewTask
  <2> QED BY <1>1, <2>1, <2>2, GuildReturns
<1>4. CASE Guild(s)!ReadDashboard(p) /\ ~Guild(s)!GiveUp(p)
  <2>1. UNCHANGED <<v1, v2, v3, v6, v7>> /\ v4' = [v4 EXCEPT ![p].pc = "send"]
    BY <1>4 DEF Guild!ReadDashboard
  <2>2. PICK k : k = [v4[p] EXCEPT !.pc = "send"]
    OBVIOUS
  <2>3. v4' = [v4 EXCEPT ![p] = k]
    BY <2>1, <2>2
  <2>4. Fit(s, k, v1, Guild(s)!Categories) /\ k.seen = v4[p].seen
    BY <1>1, <2>2 DEF Fit
  <2>5. Guild(s)!OneDashboard'
    BY <2>1 DEF Guild!IInv, Guild!OneDashboard, Guild!NewTask
  <2> QED BY <1>1, <2>1, <2>3, <2>4, <2>5, GuildQuiet
<1> QED BY <1>2, <1>3, <1>4 DEF Guild!Refused

\* A channel that is created in order.
LEMMA GuildCreated ==
    ASSUME NEW s \in GuildScopes, Guild(s)!IInv, NEW p \in Guild(s)!Handlers,
           NEW base \in Guild(s)!Names, NEW shard, NEW parent, NEW k,
           Guild(s)!Creates(p, base, shard, parent), UNCHANGED <<v2, v3, v7>>,
           shard \in Nat,
           base \notin v6' \cup v7' => shard = Cardinality(Called(v1, v4[p].seen, base)) + 1,
           parent = 0 \/ (parent \in DOMAIN v1 /\ v1[parent].name = Guild(s)!Control),
           v4' = [v4 EXCEPT ![p] = k], Fit(s, k, v1', Guild(s)!Categories),
           \/ k.seen = v4[p].seen
           \/ /\ k.seen = v4[p].seen \cup {Len(v1) + 1}
              /\ base \notin v6' \cup v7' => Called(v1, v4[p].seen, base) = {}
    PROVE  Guild(s)!IInv'
<1> DEFINE new == Len(v1) + 1
<1>1. Guild(s)!Shape /\ Guild(s)!Roomy /\ Guild(s)!InOrder /\ Guild(s)!OneDashboard
  BY DEF Guild!IInv
<1>2. PICK channel : /\ channel = [name |-> base, shard |-> shard, parent |-> parent, alive |-> TRUE]
                     /\ v1' = Append(v1, channel)
  BY DEF Guild!Creates
<1>3. v6 \subseteq v6'
  BY DEF Guild!Creates
<1>5. channel \in Channel(s) /\ parent \in {0} \cup DOMAIN v1
  <2>1. parent \in Nat
    BY <1>1, GuildTyped
  <2> QED BY <1>2, <2>1 DEF Channel
<1>6. /\ v1 \in Seq(Channel(s)) /\ Len(v1) \in Nat /\ DOMAIN v1 = 1..Len(v1)
      /\ \A c \in DOMAIN v1 : v1[c] \in Channel(s)
      /\ \A c \in DOMAIN v1 : v1[c].parent \in {0} \cup DOMAIN v1
      /\ v4 = [q \in Guild(s)!Handlers |-> v4[q]]
      /\ v2 \in Nat /\ v3 \in Nat
  BY <1>1, GuildTyped, GuildShape
<1>7. /\ v1' \in Seq(Channel(s)) /\ DOMAIN v1' = DOMAIN v1 \cup {new} /\ new \notin DOMAIN v1
      /\ v1'[new] = channel /\ \A c \in DOMAIN v1 : v1'[c] = v1[c]
  <2>1. Append(v1, channel) \in Seq(Channel(s))
    BY <1>5, <1>6
  <2>2. /\ DOMAIN Append(v1, channel) = 1..new /\ Append(v1, channel)[new] = channel
        /\ \A c \in 1..Len(v1) : Append(v1, channel)[c] = v1[c]
    BY <1>6
  <2> QED BY <1>2, <1>6, <2>1, <2>2
<1>8. v4' = [q \in Guild(s)!Handlers |-> IF q = p THEN k ELSE v4[q]]
  BY <1>6
<1> HIDE DEF new
<1>9. Guild(s)!Shape'
  <2>1. v4' = [q \in Guild(s)!Handlers |-> v4'[q]]
    BY <1>8
  <2>2. \A q \in Guild(s)!Handlers :
           v4'[q] = v4[q] \/ Fit(s, v4'[q], v1', Guild(s)!Categories)
    BY <1>8
  <2>3. \A c \in DOMAIN v1' : v1'[c].parent \in {0} \cup DOMAIN v1'
    BY <1>2, <1>5, <1>6, <1>7
  <2>4. v2' \in Nat /\ v3' \in Nat /\ v3 <= v3'
    BY <1>6
  <2> QED BY <1>1, <1>7, <2>1, <2>2, <2>3, <2>4, GuildShapeKept
<1>10. Guild(s)!Roomy'
  <2> SUFFICES ASSUME NEW c \in DOMAIN v1', v1'[c].name # Guild(s)!Control
               PROVE  \/ /\ c \in DOMAIN v1 /\ v1[c].name # Guild(s)!Control
                         /\ Kids(v1', c) \subseteq Kids(v1, c)
                      \/ Kids(v1', c) = {}
    BY <1>1, GuildRoomKept
  <2>1. channel.parent # c
    BY <1>2, <1>5, <1>6, <1>7
  <2>2. Kids(v1', c) = Kids(v1, c)
    BY <1>7, <2>1 DEF Kids
  <2>3. c = new => Kids(v1, c) = {}
    <3>1. new \notin {0} \cup DOMAIN v1
      BY <1>6, <1>7 DEF new
    <3>2. \A d \in DOMAIN v1 : v1[d].parent # new
      BY <1>6, <3>1
    <3> QED BY <3>2 DEF Kids
  <2> QED BY <1>7, <2>2, <2>3
<1>11. Guild(s)!InOrder'
  <2>1. \A q \in Guild(s)!Handlers :
           \/ v4'[q].seen = v4[q].seen
           \/ /\ q = p /\ v4'[q].seen = v4[q].seen \cup {Len(v1) + 1}
              /\ base \notin v6' \cup v7' => Called(v1, v4[p].seen, base) = {}
    BY <1>8
  <2> QED BY <1>1, <2>1, GuildOrderGrows
<1>12. Guild(s)!OneDashboard'
  BY <1>1, <1>3 DEF Guild!OneDashboard, Guild!NewTask
<1> QED BY <1>9, <1>10, <1>11, <1>12 DEF Guild!IInv

\* Channels that are moved to another parent.
LEMMA GuildMoved ==
    ASSUME NEW s \in GuildScopes, Guild(s)!IInv, NEW p \in Guild(s)!Handlers, NEW k,
           NEW c \in DOMAIN v1, NEW parent \in {0} \cup DOMAIN v1,
           v1' = [v1 EXCEPT ![c].parent = parent], UNCHANGED <<v2, v3, v6, v7>>,
           v4' = [v4 EXCEPT ![p] = k], Fit(s, k, v1, Guild(s)!Categories),
           k.seen \in {v4[p].seen, {}},
           \/ parent \in {0, v1[c].parent}
           \/ v1[parent].name = Guild(s)!Control
           \/ Cardinality(Kids(v1, parent)) < s.room
    PROVE  Guild(s)!IInv'
<1>1. Guild(s)!Shape /\ Guild(s)!Roomy /\ Guild(s)!InOrder /\ Guild(s)!OneDashboard
  BY DEF Guild!IInv
<1>2. /\ v1 \in Seq(Channel(s)) /\ Len(v1) \in Nat /\ DOMAIN v1 = 1..Len(v1)
      /\ \A d \in DOMAIN v1 : v1[d] \in Channel(s)
      /\ \A d \in DOMAIN v1 : v1[d].parent \in {0} \cup DOMAIN v1
      /\ v4 = [q \in Guild(s)!Handlers |-> v4[q]]
      /\ v2 \in Nat /\ v3 \in Nat
  BY <1>1, GuildTyped, GuildShape
<1>3. /\ DOMAIN v1' = DOMAIN v1
      /\ \A d \in DOMAIN v1 : /\ v1'[d] \in Channel(s)
                              /\ v1'[d].name = v1[d].name /\ v1'[d].shard = v1[d].shard
                              /\ v1'[d].alive = v1[d].alive
                              /\ v1'[d].parent = IF d = c THEN parent ELSE v1[d].parent
  <2>1. parent \in Nat
    BY <1>2
  <2>2. v1' = [d \in DOMAIN v1 |-> IF d = c THEN [v1[c] EXCEPT !.parent = parent] ELSE v1[d]]
    BY <1>2
  <2>3. \A d \in DOMAIN v1 :
           v1'[d] = IF d = c THEN [v1[c] EXCEPT !.parent = parent] ELSE v1[d]
    BY <2>2
  <2>4. PICK x : x = [v1[c] EXCEPT !.parent = parent]
    OBVIOUS
  <2>5. /\ x \in Channel(s) /\ x.parent = parent
        /\ x.name = v1[c].name /\ x.shard = v1[c].shard /\ x.alive = v1[c].alive
    <3>1. v1[c] \in Channel(s)
      BY <1>2
    <3> QED BY <2>1, <2>4, <3>1 DEF Channel
  <2>6. DOMAIN v1' = DOMAIN v1
    BY <2>2
  <2> QED BY <1>2, <2>3, <2>4, <2>5, <2>6
<1>4. v1' \in Seq(Channel(s))
  <2>1. v1' \in [1..Len(v1) -> Channel(s)]
    <3>1. v1' = [d \in DOMAIN v1 |-> v1'[d]]
      BY <1>2
    <3> QED BY <1>2, <1>3, <3>1
  <2> QED BY <1>2, <2>1, SeqDef
<1>5. v4' = [q \in Guild(s)!Handlers |-> IF q = p THEN k ELSE v4[q]]
  BY <1>2
<1>6. Guild(s)!Shape'
  <2>1. v4' = [q \in Guild(s)!Handlers |-> v4'[q]]
    BY <1>5
  <2>2. \A d : Fit(s, d, v1, Guild(s)!Categories) => Fit(s, d, v1', Guild(s)!Categories)
    BY <1>3, FitGrows
  <2>3. \A q \in Guild(s)!Handlers :
           v4'[q] = v4[q] \/ Fit(s, v4'[q], v1', Guild(s)!Categories)
    BY <1>5, <2>2
  <2>4. \A d \in DOMAIN v1' : v1'[d].parent \in {0} \cup DOMAIN v1'
    BY <1>2, <1>3
  <2>5. v2' \in Nat /\ v3' \in Nat /\ v3 <= v3'
    BY <1>2
  <2> QED BY <1>1, <1>3, <1>4, <2>1, <2>3, <2>4, <2>5, GuildShapeKept
<1>7. Guild(s)!Roomy'
  <2> SUFFICES ASSUME NEW e \in DOMAIN v1, v1[e].name # Guild(s)!Control
               PROVE  \/ Kids(v1', e) \subseteq Kids(v1, e)
                      \/ /\ Cardinality(Kids(v1, e)) < s.room
                         /\ \E d : Kids(v1', e) \subseteq Kids(v1, e) \cup {d}
    BY <1>1, <1>3, GuildRoomKept
  <2>1. CASE e = parent /\ parent # v1[c].parent
    <3>1. Cardinality(Kids(v1, e)) < s.room
      BY <1>2, <2>1
    <3>2. Kids(v1', e) \subseteq Kids(v1, e) \cup {c}
      BY <1>3 DEF Kids
    <3> QED BY <3>1, <3>2
  <2>2. CASE ~(e = parent /\ parent # v1[c].parent)
    <3>1. Kids(v1', e) \subseteq Kids(v1, e)
      BY <1>3, <2>2 DEF Kids
    <3> QED BY <3>1
  <2> QED BY <2>1, <2>2
<1>8. Guild(s)!InOrder'
  <2>1. \A q \in Guild(s)!Handlers : v4'[q].seen \in {v4[q].seen, {}, {d \in DOMAIN v1 : v1[d].alive}}
    BY <1>5
  <2> QED BY <1>1, <1>2, <1>3, <2>1, GuildOrderKept
<1>9. Guild(s)!OneDashboard'
  BY <1>1 DEF Guild!OneDashboard, Guild!NewTask
<1> QED BY <1>6, <1>7, <1>8, <1>9 DEF Guild!IInv

\* A channel of the layout is taken or created.
LEMMA GuildEnsures ==
    ASSUME NEW s \in GuildScopes, Guild(s)!IInv, NEW p \in Guild(s)!Handlers,
           Guild(s)!EnsureChannel(p)
    PROVE  Guild(s)!IInv'
<1> DEFINE base == Guild(s)!Layout(v4[p].base[2])[v4[p].step]
           last == base = Guild(s)!NewTask
           parent == IF last THEN v4[p].control ELSE 0
<1>1. Guild(s)!Shape /\ Guild(s)!Roomy /\ Guild(s)!InOrder /\ Guild(s)!OneDashboard
  BY DEF Guild!IInv
<1>2. v4[p].pc = "layout" /\ UNCHANGED <<v2, v3, v7>>
  BY DEF Guild!EnsureChannel
<1>3. /\ Fit(s, v4[p], v1, Guild(s)!Categories) /\ v2 \in Nat /\ v3 \in Nat
      /\ v4 = [q \in Guild(s)!Handlers |-> v4[q]]
  BY <1>1, GuildShape
<1>4. v4[p].base \in Guild(s)!Categories /\ v4[p].step \in 1..4
  BY <1>2, <1>3 DEF Fit
<1>5. /\ base \in {Guild(s)!Control, Guild(s)!Running, Guild(s)!Done(v4[p].base[2]), Guild(s)!NewTask}
      /\ last \/ v4[p].step + 1 \in 1..4
  <2>1. Guild(s)!Layout(v4[p].base[2]) =
          <<Guild(s)!Control, Guild(s)!Running, Guild(s)!Done(v4[p].base[2]), Guild(s)!NewTask>>
    BY DEF Guild!Layout
  <2> QED BY <1>4, <2>1
<1>6. base \in Guild(s)!Names
  <2>1. v4[p].base[2] \in 0..v3
    BY <1>3, <1>4 DEF Guild!Categories, Guild!Running, Guild!Done
  <2> HIDE DEF base
  <2> QED BY <1>5, <2>1 DEF Guild!Names, Guild!Categories
<1>7. parent = 0 \/ (parent \in DOMAIN v1 /\ v1[parent].name = Guild(s)!Control)
  BY <1>3 DEF Fit
<1> DEFINE Got(c) ==
             [pc |-> IF last THEN "dashboard" ELSE v4[p].pc,
              step |-> IF last THEN v4[p].step ELSE v4[p].step + 1,
              seen |-> v4[p].seen \cup {c}, base |-> v4[p].base,
              control |-> IF base = Guild(s)!Control THEN c ELSE v4[p].control, target |-> c]
           Found(c) ==
             /\ c \in Guild(s)!Named(p, base, 1) /\ v6' = v6
             /\ \/ Guild(s)!GiveUp(p) /\ v1' = v1
                \/ /\ v1' = [v1 EXCEPT ![c].parent = IF parent = 0 THEN @ ELSE parent]
                   /\ v4' = [v4 EXCEPT ![p] = Got(c)]
           Made ==
             /\ Guild(s)!Named(p, base, 1) = {} /\ Guild(s)!Creates(p, base, 1, parent)
             /\ v4' = [v4 EXCEPT ![p] = Got(Len(v1) + 1)]
<1>8. (\E c : Found(c)) \/ Made
  <2>1. \A c : v4' = [v4 EXCEPT
               ![p].step = IF base = Guild(s)!NewTask THEN @ ELSE @ + 1,
               ![p].pc = IF base = Guild(s)!NewTask THEN "dashboard" ELSE @,
               ![p].control = IF base = Guild(s)!Control THEN c ELSE @,
               ![p].target = c,
               ![p].seen = @ \cup {c}]
           => v4' = [v4 EXCEPT ![p] = Got(c)]
    <3> TAKE c
    <3> DEFINE step == IF last THEN v4[p].step ELSE v4[p].step + 1
               pc == IF last THEN "dashboard" ELSE v4[p].pc
               control == IF base = Guild(s)!Control THEN c ELSE v4[p].control
               seen == v4[p].seen \cup {c}
    <3>1. v4[p] = [pc |-> v4[p].pc, step |-> v4[p].step, seen |-> v4[p].seen,
                   base |-> v4[p].base, control |-> v4[p].control, target |-> v4[p].target]
      BY <1>3 DEF Fit
    <3>3. [v4[p] EXCEPT !.step = step, !.pc = pc, !.control = control, !.target = c, !.seen = seen,
                        !.base = v4[p].base] = Got(c)
      <4>2. PICK k : k = v4[p]
        OBVIOUS
      <4> HIDE DEF base, seen
      <4>3. [k EXCEPT !.step = step, !.pc = pc, !.control = control, !.target = c, !.seen = seen,
                      !.base = v4[p].base]
              = [pc |-> pc, step |-> step, seen |-> seen, base |-> v4[p].base, control |-> control,
                 target |-> c]
        <5> HIDE DEF step, pc, control
        <5>1. k = [pc |-> k.pc, step |-> k.step, seen |-> k.seen, base |-> k.base,
                   control |-> k.control, target |-> k.target]
          BY <3>1, <4>2
        <5>2. PICK b : b = v4[p].base
          OBVIOUS
        <5>3. PICK r : r = [k EXCEPT !.step = step, !.pc = pc, !.control = control, !.target = c,
                                     !.seen = seen, !.base = b]
          OBVIOUS
        <5>4. r \in [pc : {pc}, step : {step}, seen : {seen}, base : {b}, control : {control},
                     target : {c}]
          BY <5>1, <5>3
        <5>5. r = [pc |-> pc, step |-> step, seen |-> seen, base |-> b, control |-> control,
                   target |-> c]
          BY <5>4
        <5> QED BY <5>2, <5>3, <5>5
      <4> QED BY <4>2, <4>3 DEF seen
    <3>4. [v4[p] EXCEPT !.step = step, !.pc = pc, !.control = control, !.target = c, !.seen = seen]
           = [v4[p] EXCEPT !.step = step, !.pc = pc, !.control = control, !.target = c, !.seen = seen,
                        !.base = v4[p].base]
      <4> HIDE DEF base, step, pc, control, seen
      <4> QED BY <3>1
    <3>5. [v4 EXCEPT ![p].step = IF last THEN @ ELSE @ + 1,
                     ![p].pc = IF last THEN "dashboard" ELSE @,
                     ![p].control = IF base = Guild(s)!Control THEN c ELSE @,
                     ![p].target = c,
                     ![p].seen = @ \cup {c}]
           = [v4 EXCEPT ![p] = [v4[p] EXCEPT !.step = step, !.pc = pc, !.control = control,
                                             !.target = c, !.seen = seen]]
      <4> HIDE DEF base
      <4> QED BY <1>3
    <3> HIDE DEF base, Got, step, pc, control, seen
    <3> QED BY <3>3, <3>4, <3>5
  <2> HIDE DEF Got
  <2> QED BY <2>1 DEF Guild!EnsureChannel, Guild!None
<1> HIDE DEF base
<1>9. ASSUME NEW c, c \in DOMAIN v1', c # 0, v4[p].seen \subseteq DOMAIN v1', v1'[c].name = base,
             DOMAIN v1 \subseteq DOMAIN v1', \A d \in DOMAIN v1 : v1'[d].name = v1[d].name, c \in Nat
      PROVE  Fit(s, Got(c), v1', Guild(s)!Categories)
  <2>1. Fit(s, v4[p], v1', Guild(s)!Categories)
    BY <1>3, <1>9, FitGrows
  <2>2. PICK k : k = Got(c)
    OBVIOUS
  <2> HIDE DEF Got
  <2>3. /\ k.pc \in {v4[p].pc, "dashboard"} /\ k.step \in 1..4 /\ k.seen = v4[p].seen \cup {c}
        /\ k.base = v4[p].base /\ k.target = c
        /\ k.control = IF base = Guild(s)!Control THEN c ELSE v4[p].control
        /\ k = [pc |-> k.pc, step |-> k.step, seen |-> k.seen, base |-> k.base,
                control |-> k.control, target |-> k.target]
    BY <2>2, <1>4, <1>5 DEF Got
  <2>4. Fit(s, k, v1', Guild(s)!Categories)
    BY <2>1, <2>3, <1>4, <1>9 DEF Fit
  <2> QED BY <2>2, <2>4
<1>10. CASE \E c : Found(c)
  <2>1. PICK c : Found(c)
    BY <1>10
  <2>2. c \in v4[p].seen /\ c \in DOMAIN v1 /\ v1[c].name = base
    BY <2>1, <1>1, GuildTyped DEF Guild!Named, Guild!Listed
  <2>3. CASE Guild(s)!GiveUp(p) /\ v1' = v1
    <3>1. Guild(s)!OneDashboard'
      BY <2>1, <1>1, <1>2 DEF Guild!OneDashboard, Guild!NewTask
    <3> QED BY <2>1, <2>3, <1>2, <1>3, <3>1, GuildReturns
  <2>4. CASE ~(Guild(s)!GiveUp(p) /\ v1' = v1)
    <3> DEFINE above == IF parent = 0 THEN v1[c].parent ELSE parent
    <3>1. v1' = [v1 EXCEPT ![c].parent = above] /\ v4' = [v4 EXCEPT ![p] = Got(c)] /\ v6' = v6
      BY <2>1, <2>2, <2>4
    <3>2. above \in {0} \cup DOMAIN v1
      BY <1>1, <1>7, <2>2, GuildShape
    <3>3. \/ above \in {0, v1[c].parent}
          \/ v1[above].name = Guild(s)!Control
      BY <1>7
    <3>4. PICK k : k = Got(c)
      OBVIOUS
    <3>5. Got(c).seen = v4[p].seen
      BY <2>2
    <3>6. Fit(s, k, v1, Guild(s)!Categories)
      <4>1. /\ DOMAIN v1' = DOMAIN v1 /\ v4[p].seen \subseteq DOMAIN v1
            /\ \A d \in DOMAIN v1 : v1'[d].name = v1[d].name
        <5>1. v1' = [d \in DOMAIN v1 |-> IF d = c THEN [v1[c] EXCEPT !.parent = above] ELSE v1[d]]
          BY <3>1, <1>1, GuildTyped
        <5>2. [v1[c] EXCEPT !.parent = above].name = v1[c].name
          BY <1>1, <2>2, GuildTyped DEF Channel
        <5> HIDE DEF above
        <5> QED BY <5>1, <5>2, <1>1, GuildTyped
      <4>2. c # 0 /\ c \in Nat
        BY <2>2, <1>1, GuildTyped
      <4>3. Fit(s, Got(c), v1', Guild(s)!Categories)
        <5> HIDE DEF Got, above
        <5> QED BY <1>9, <2>2, <4>1, <4>2
      <4>4. \A d \in DOMAIN v1' : v1[d].name = v1'[d].name
        BY <4>1
      <4> HIDE DEF Got, above
      <4> QED BY <3>4, <4>1, <4>3, <4>4, FitGrows
    <3> HIDE DEF Got, above
    <3> QED BY <3>1, <3>2, <3>3, <3>4, <3>5, <3>6, <2>2, <1>2, GuildMoved
  <2> QED BY <2>3, <2>4
<1>11. CASE Made
  <2> DEFINE new == Len(v1) + 1
             mine == Called(v1, v4[p].seen, base)
  <2>1. /\ DOMAIN v1' = DOMAIN v1 \cup {new} /\ new \in Nat /\ new # 0 /\ v1'[new].name = base
        /\ \A c \in DOMAIN v1 : v1'[c] = v1[c]
    <3>1. PICK x : x.name = base /\ v1' = Append(v1, x)
      BY <1>11 DEF Guild!Creates
    <3>2. v1 \in Seq(Channel(s)) /\ Len(v1) \in Nat /\ DOMAIN v1 = 1..Len(v1)
      BY <1>1, GuildTyped
    <3> QED BY <3>1, <3>2
  <2>2. Fit(s, Got(new), v1', Guild(s)!Categories)
    <3>1. v4[p].seen \subseteq DOMAIN v1
      BY <1>1, GuildTyped
    <3> HIDE DEF Got, new
    <3> QED BY <2>1, <3>1, <1>9
  <2>3. base \notin v6' \cup v7' => mine = {}
    <3> SUFFICES ASSUME base \notin v6 \cup v7, mine # {} PROVE FALSE
      BY <1>2, <1>11 DEF Guild!Creates
    <3>1. NumberedIn(v1, mine)
      BY <1>1, <1>6, GuildOrder
    <3>2. IsFiniteSet(mine)
      <4>1. mine \in SUBSET DOMAIN v1
        BY <1>1, GuildTyped DEF Called
      <4> QED BY <4>1, <1>1, GuildTyped, FS_Subset
    <3>3. 1 \in 1..Cardinality(mine)
      <4>1. Cardinality(mine) \in Nat /\ Cardinality(mine) # 0
        <5> HIDE DEF mine
        <5> QED BY <3>2, FS_CardinalityType, FS_EmptySet
      <4> HIDE DEF mine
      <4> QED BY <4>1
    <3>4. PICK c \in mine : v1[c].shard = 1
      <4> HIDE DEF mine
      <4> QED BY <3>1, <3>2, <3>3, NumbersUsed
    <3>5. c \in Guild(s)!Named(p, base, 1)
      BY <3>4 DEF Guild!Named, Guild!Listed, Called
    <3> QED BY <3>5, <1>11
  <2>4. base \notin v6' \cup v7' => 1 = Cardinality(mine) + 1
    BY <2>3, FS_EmptySet
  <2>5. PICK k : k = Got(new)
    OBVIOUS
  <2>6. v4' = [v4 EXCEPT ![p] = k] /\ k.seen = v4[p].seen \cup {Len(v1) + 1}
    BY <1>11, <2>5
  <2>7. Guild(s)!Creates(p, base, 1, parent)
    BY <1>11
  <2> HIDE DEF Got, Made, parent
  <2> QED BY <2>2, <2>3, <2>4, <2>5, <2>6, <2>7, <1>2, <1>6, <1>7, GuildCreated
<1> QED BY <1>8, <1>10, <1>11

\* A category is found or created.
LEMMA GuildFinds ==
    ASSUME NEW s \in GuildScopes, Guild(s)!IInv, NEW p \in Guild(s)!Handlers,
           Guild(s)!FindCategory(p)
    PROVE  Guild(s)!IInv'
<1> DEFINE base == v4[p].base
           mine == Called(v1, v4[p].seen, base)
           Got(c) == [v4[p] EXCEPT !.pc = "place", !.target = c]
<1>1. Guild(s)!Shape /\ Guild(s)!OneDashboard
  BY DEF Guild!IInv
<1>2. v4[p].pc = "layout" /\ UNCHANGED <<v2, v3, v7>>
  BY DEF Guild!FindCategory
<1>3. /\ Fit(s, v4[p], v1, Guild(s)!Categories) /\ v2 \in Nat
      /\ v4 = [q \in Guild(s)!Handlers |-> v4[q]]
  BY <1>1, GuildShape
<1>4. base \in Guild(s)!Names
  BY <1>2, <1>3 DEF Fit, Guild!Names
<1>5. Guild(s)!Of(p, base) = mine
  BY DEF Guild!Of, Guild!Listed, Called
<1>6. IsFiniteSet(mine) /\ Cardinality(mine) \in Nat /\ v4[p].seen \subseteq DOMAIN v1
  <2>1. mine \in SUBSET DOMAIN v1
    BY <1>1, GuildTyped DEF Called
  <2> QED BY <2>1, <1>1, GuildTyped, FS_Subset, FS_CardinalityType
<1>7. \A c : v4' = [v4 EXCEPT ![p].pc = "place", ![p].target = c]
               => v4' = [v4 EXCEPT ![p] = Got(c)]
  BY <1>3
<1>8. \/ \E c \in v4[p].seen : v4' = [v4 EXCEPT ![p] = Got(c)] /\ v1' = v1 /\ v6' = v6
      \/ /\ Guild(s)!Creates(p, base, Cardinality(mine) + 1, 0)
         /\ v4' = [v4 EXCEPT ![p] = Got(Len(v1) + 1)]
  <2>1. Guild(s)!Cardinality(mine) = Cardinality(mine)
    BY GuildCounts
  <2>2. mine \subseteq v4[p].seen
    BY DEF Called
  <2> HIDE DEF Got, mine
  <2> QED BY <1>5, <1>7, <2>1, <2>2 DEF Guild!FindCategory, Guild!None
<1>9. \A c \in Nat : Fit(s, Got(c), v1, Guild(s)!Categories) /\ Got(c).seen = v4[p].seen
  BY <1>3 DEF Fit
<1> HIDE DEF Got, mine, base
<1>10. CASE \E c \in v4[p].seen : v4' = [v4 EXCEPT ![p] = Got(c)] /\ v1' = v1 /\ v6' = v6
  <2>1. PICK c \in v4[p].seen : v4' = [v4 EXCEPT ![p] = Got(c)] /\ v1' = v1 /\ v6' = v6
    BY <1>10
  <2>2. c \in Nat
    BY <1>1, <1>6, GuildTyped
  <2>3. Guild(s)!OneDashboard'
    BY <2>1, <1>1, <1>2 DEF Guild!OneDashboard, Guild!NewTask
  <2>4. PICK k : k = Got(c)
    OBVIOUS
  <2> QED BY <2>1, <2>2, <2>3, <2>4, <1>2, <1>3, <1>9, GuildQuiet
<1>11. CASE /\ Guild(s)!Creates(p, base, Cardinality(mine) + 1, 0)
            /\ v4' = [v4 EXCEPT ![p] = Got(Len(v1) + 1)]
  <2>1. PICK k : k = Got(Len(v1) + 1)
    OBVIOUS
  <2>2. Fit(s, k, v1', Guild(s)!Categories) /\ k.seen = v4[p].seen
    <3>1. Len(v1) + 1 \in Nat /\ DOMAIN v1 = 1..Len(v1) /\ v1 \in Seq(Channel(s))
      BY <1>1, GuildTyped
    <3>2. PICK x : v1' = Append(v1, x)
      BY <1>11 DEF Guild!Creates
    <3>3. DOMAIN v1 \subseteq DOMAIN v1' /\ \A c \in DOMAIN v1 : v1'[c].name = v1[c].name
      BY <3>1, <3>2
    <3>4. Fit(s, k, v1, Guild(s)!Categories) /\ k.seen = v4[p].seen
      BY <1>9, <2>1, <3>1
    <3> QED BY <3>3, <3>4, FitGrows
  <2>3. Cardinality(mine) + 1 = Cardinality(Called(v1, v4[p].seen, base)) + 1
    BY DEF mine
  <2>4. Cardinality(mine) + 1 \in Nat
    BY <1>6
  <2> QED BY <1>2, <1>4, <1>11, <2>1, <2>2, <2>3, <2>4, GuildCreated
<1> QED BY <1>8, <1>10, <1>11

\* Steps of all handlers, or of none: a crash, a month that ends, a deletion.
LEMMA GuildCrashes ==
    ASSUME NEW s \in GuildScopes, Guild(s)!IInv, Guild(s)!Crash
    PROVE  Guild(s)!IInv'
<1>1. Guild(s)!Shape /\ Guild(s)!Roomy /\ Guild(s)!InOrder /\ Guild(s)!OneDashboard
  BY DEF Guild!IInv
<1>2. UNCHANGED <<v1, v2, v3, v6, v7>> /\ v4' = [p \in Guild(s)!Handlers |-> Guild(s)!Idle]
  BY DEF Guild!Crash
<1>3. /\ v1 \in Seq(Channel(s)) /\ v2 \in Nat /\ v3 \in Nat
      /\ \A c \in DOMAIN v1 : v1[c].parent \in {0} \cup DOMAIN v1
  BY <1>1, GuildShape
<1>4. \A p \in Guild(s)!Handlers :
        Fit(s, v4'[p], v1, Guild(s)!Categories) /\ v4'[p].seen = {}
  BY <1>2, FitIdle
<1>5. Guild(s)!Shape'
  <2>1. v4' = [p \in Guild(s)!Handlers |-> v4'[p]]
    BY <1>2
  <2>2. v3 <= v3'
    BY <1>2, <1>3
  <2> QED BY <1>1, <1>2, <1>3, <1>4, <2>1, <2>2, GuildShapeKept
<1>6. Guild(s)!Roomy'
  BY <1>1, <1>2, GuildRoomKept
<1>7. Guild(s)!InOrder'
  BY <1>1, <1>2, <1>3, <1>4, GuildOrderKept
<1>8. Guild(s)!OneDashboard'
  BY <1>1, <1>2 DEF Guild!OneDashboard, Guild!NewTask
<1> QED BY <1>5, <1>6, <1>7, <1>8 DEF Guild!IInv

LEMMA GuildMonth ==
    ASSUME NEW s \in GuildScopes, Guild(s)!IInv, Guild(s)!MonthEnds
    PROVE  Guild(s)!IInv'
<1>1. Guild(s)!Shape /\ Guild(s)!Roomy /\ Guild(s)!InOrder /\ Guild(s)!OneDashboard
  BY DEF Guild!IInv
<1>2. UNCHANGED <<v1, v2, v4, v6, v7>> /\ v3' = v3 + 1
  BY DEF Guild!MonthEnds
<1>3. /\ v1 \in Seq(Channel(s)) /\ v2 \in Nat /\ v3 \in Nat
      /\ \A c \in DOMAIN v1 : v1[c].parent \in {0} \cup DOMAIN v1
      /\ v4 = [p \in Guild(s)!Handlers |-> v4[p]]
  BY <1>1, GuildShape
<1>4. v3' \in Nat /\ v3 <= v3'
  BY <1>2, <1>3
<1>5. Guild(s)!Shape'
  BY <1>1, <1>2, <1>3, <1>4, GuildShapeKept
<1>6. Guild(s)!Roomy'
  BY <1>1, <1>2, GuildRoomKept
<1>7. Guild(s)!InOrder'
  BY <1>1, <1>2, <1>4, GuildOrderKept
<1>8. Guild(s)!OneDashboard'
  BY <1>1, <1>2 DEF Guild!OneDashboard, Guild!NewTask
<1> QED BY <1>5, <1>6, <1>7, <1>8 DEF Guild!IInv

LEMMA GuildDeletion ==
    ASSUME NEW s \in GuildScopes, Guild(s)!IInv, NEW c \in DOMAIN v1, Guild(s)!OwnerDeletes(c)
    PROVE  Guild(s)!IInv'
<1>1. Guild(s)!Shape /\ Guild(s)!Roomy /\ Guild(s)!InOrder /\ Guild(s)!OneDashboard
  BY DEF Guild!IInv
<1>2. /\ UNCHANGED <<v2, v3, v4, v6>> /\ v7' = v7 \cup {v1[c].name}
      /\ v1' = [d \in DOMAIN v1 |-> IF d = c THEN [v1[d] EXCEPT !.alive = FALSE]
                                    ELSE IF v1[d].parent = c
                                         THEN [v1[d] EXCEPT !.parent = 0] ELSE v1[d]]
  BY DEF Guild!OwnerDeletes, Guild!None
<1>3. /\ v1 \in Seq(Channel(s)) /\ Len(v1) \in Nat /\ DOMAIN v1 = 1..Len(v1)
      /\ \A d \in DOMAIN v1 : v1[d] \in Channel(s)
      /\ \A d \in DOMAIN v1 : v1[d].parent \in {0} \cup DOMAIN v1
      /\ v4 = [q \in Guild(s)!Handlers |-> v4[q]]
      /\ v2 \in Nat /\ v3 \in Nat /\ v3 <= v3
  BY <1>1, GuildTyped, GuildShape
<1>4. /\ DOMAIN v1' = DOMAIN v1
      /\ \A d \in DOMAIN v1 :
           /\ v1'[d] \in Channel(s)
           /\ v1'[d].name = v1[d].name /\ v1'[d].shard = v1[d].shard
           /\ v1'[d].parent \in {0, v1[d].parent}
           /\ v1'[d].alive => v1[d].alive
           /\ v1[d].alive => v1'[d].alive \/ d = c
  <2>1. DOMAIN v1' = DOMAIN v1
    BY <1>2
  <2>2. ASSUME NEW d \in DOMAIN v1
        PROVE  /\ v1'[d] \in Channel(s)
               /\ v1'[d].name = v1[d].name /\ v1'[d].shard = v1[d].shard
               /\ v1'[d].parent \in {0, v1[d].parent}
               /\ v1'[d].alive => v1[d].alive
               /\ v1[d].alive => v1'[d].alive \/ d = c
    <3>1. PICK x : x = v1[d]
      OBVIOUS
    <3>2. x \in Channel(s) /\ x.alive \in BOOLEAN
      BY <1>3, <3>1 DEF Channel
    <3>3. CASE d = c
      <4>1. v1'[d] = [x EXCEPT !.alive = FALSE]
        BY <1>2, <3>1, <3>3
      <4> QED BY <3>1, <3>2, <3>3, <4>1 DEF Channel
    <3>4. CASE d # c /\ x.parent = c
      <4>1. v1'[d] = [x EXCEPT !.parent = 0]
        BY <1>2, <3>1, <3>4
      <4> QED BY <3>1, <3>2, <4>1 DEF Channel
    <3>5. CASE d # c /\ x.parent # c
      <4>1. v1'[d] = x
        BY <1>2, <3>1, <3>5
      <4> QED BY <3>1, <3>2, <4>1
    <3> QED BY <3>3, <3>4, <3>5
  <2> QED BY <2>1, <2>2
<1>5. v1' \in Seq(Channel(s))
  <2>1. v1' = [d \in DOMAIN v1 |-> v1'[d]]
    BY <1>2
  <2>2. v1' \in [1..Len(v1) -> Channel(s)]
    BY <1>3, <1>4, <2>1
  <2> QED BY <1>3, <2>2, SeqDef
<1>6. Guild(s)!Shape'
  BY <1>1, <1>2, <1>3, <1>4, <1>5, GuildShapeKept
<1>7. Guild(s)!Roomy'
  <2>1. \A e \in DOMAIN v1 : Kids(v1', e) \subseteq Kids(v1, e)
    <3>1. \A e \in DOMAIN v1 : e # 0
      BY <1>3
    <3> QED BY <3>1, <1>4 DEF Kids
  <2> QED BY <1>1, <1>4, <2>1, GuildRoomKept
<1>8. Guild(s)!InOrder'
  <2>1. \A d \in DOMAIN v1 : v1[d].alive => v1'[d].alive \/ v1[d].name \in v7'
    BY <1>2, <1>4
  <2> QED BY <1>1, <1>2, <1>3, <1>4, <2>1, GuildOrderKept
<1>9. Guild(s)!OneDashboard'
  BY <1>1, <1>2 DEF Guild!OneDashboard, Guild!NewTask
<1> QED BY <1>6, <1>7, <1>8, <1>9 DEF Guild!IInv

\* A task channel is placed.
LEMMA GuildTask ==
    ASSUME NEW s \in GuildScopes, Guild(s)!IInv, NEW p \in Guild(s)!Handlers,
           Guild(s)!GiveUp(p), UNCHANGED <<v2, v3, v6, v7>>, NEW c \in DOMAIN v1,
           Cardinality(Kids(v1, c)) < s.room,
           v1' = Append(v1, [name |-> Guild(s)!Task, shard |-> 1, parent |-> c, alive |-> TRUE])
    PROVE  Guild(s)!IInv'
<1> DEFINE new == Len(v1) + 1
<1>1. Guild(s)!Shape /\ Guild(s)!Roomy /\ Guild(s)!InOrder /\ Guild(s)!OneDashboard
  BY DEF Guild!IInv
<1>2. /\ v1 \in Seq(Channel(s)) /\ Len(v1) \in Nat /\ DOMAIN v1 = 1..Len(v1)
      /\ \A d \in DOMAIN v1 : v1[d].parent \in {0} \cup DOMAIN v1
      /\ v4 = [q \in Guild(s)!Handlers |-> v4[q]]
      /\ v2 \in Nat /\ v3 \in Nat /\ v3 <= v3
  BY <1>1, GuildTyped, GuildShape
<1>3. PICK x : x = [name |-> Guild(s)!Task, shard |-> 1, parent |-> c, alive |-> TRUE]
  OBVIOUS
<1>4. x \in Channel(s) /\ x.name = Guild(s)!Task /\ x.parent = c
  BY <1>2, <1>3 DEF Channel
<1>5. /\ v1' \in Seq(Channel(s)) /\ DOMAIN v1' = DOMAIN v1 \cup {new} /\ new \notin {0} \cup DOMAIN v1
      /\ v1'[new] = x /\ \A d \in DOMAIN v1 : v1'[d] = v1[d]
  <2>1. Append(v1, x) \in Seq(Channel(s))
    BY <1>2, <1>4
  <2>2. /\ DOMAIN Append(v1, x) = 1..new /\ Append(v1, x)[new] = x
        /\ \A d \in 1..Len(v1) : Append(v1, x)[d] = v1[d]
    BY <1>2
  <2> QED BY <1>2, <1>3, <2>1, <2>2
<1> HIDE DEF new
<1>6. PICK k : k = Guild(s)!Idle
  OBVIOUS
<1>7. v4' = [q \in Guild(s)!Handlers |-> IF q = p THEN k ELSE v4[q]]
  BY <1>2, <1>6 DEF Guild!GiveUp
<1>8. Fit(s, k, v1', Guild(s)!Categories) /\ k.seen = {}
  BY <1>6, FitIdle
<1>9. Guild(s)!Shape'
  <2>1. v4' = [q \in Guild(s)!Handlers |-> v4'[q]]
    BY <1>7
  <2>2. \A q \in Guild(s)!Handlers :
           v4'[q] = v4[q] \/ Fit(s, v4'[q], v1', Guild(s)!Categories)
    BY <1>7, <1>8
  <2>3. \A d \in DOMAIN v1' : v1'[d].parent \in {0} \cup DOMAIN v1'
    BY <1>2, <1>4, <1>5
  <2> QED BY <1>1, <1>2, <1>5, <2>1, <2>2, <2>3, GuildShapeKept
<1>10. Guild(s)!Roomy'
  <2> SUFFICES ASSUME NEW e \in DOMAIN v1', v1'[e].name # Guild(s)!Control
               PROVE  \/ /\ e \in DOMAIN v1 /\ v1[e].name # Guild(s)!Control
                         /\ Kids(v1', e) \subseteq Kids(v1, e)
                      \/ Kids(v1', e) = {}
                      \/ /\ e \in DOMAIN v1 /\ Cardinality(Kids(v1, e)) < s.room
                         /\ \E d : Kids(v1', e) \subseteq Kids(v1, e) \cup {d}
    BY <1>1, GuildRoomKept
  <2>1. CASE e = new
    <3>1. \A d \in DOMAIN v1' : v1'[d].parent # new
      BY <1>2, <1>4, <1>5
    <3> QED BY <2>1, <3>1 DEF Kids
  <2>2. CASE e = c
    <3>1. Kids(v1', e) \subseteq Kids(v1, e) \cup {new}
      BY <1>5 DEF Kids
    <3> QED BY <2>2, <3>1
  <2>3. CASE e \in DOMAIN v1 /\ e # c
    <3>1. Kids(v1', e) \subseteq Kids(v1, e)
      BY <1>4, <1>5, <2>3 DEF Kids
    <3> QED BY <1>5, <2>3, <3>1
  <2> QED BY <1>5, <2>1, <2>2, <2>3
<1>11. Guild(s)!InOrder'
  <2>1. \A q \in Guild(s)!Handlers :
           v4'[q].seen \in {v4[q].seen, {}, {d \in DOMAIN v1 : v1[d].alive}}
    BY <1>7, <1>8
  <2>2. \A d \in DOMAIN v1 : /\ v1'[d].name = v1[d].name /\ v1'[d].shard = v1[d].shard
                              /\ v1[d].alive => v1'[d].alive
    BY <1>5
  <2>3. \A d \in DOMAIN v1' \ DOMAIN v1 : v1'[d].name = Guild(s)!Task
    BY <1>4, <1>5
  <2> QED BY <1>1, <1>2, <1>5, <2>1, <2>2, <2>3, GuildOrderKept
<1>12. Guild(s)!OneDashboard'
  BY <1>1 DEF Guild!OneDashboard, Guild!NewTask
<1> QED BY <1>9, <1>10, <1>11, <1>12 DEF Guild!IInv

LEMMA GuildPlaces ==
    ASSUME NEW s \in GuildScopes, Guild(s)!IInv, NEW p \in Guild(s)!Handlers, Guild(s)!Place(p)
    PROVE  Guild(s)!IInv'
<1> DEFINE c == v4[p].target
<1>1. Guild(s)!Shape /\ Guild(s)!OneDashboard
  BY DEF Guild!IInv
<1>2. Guild(s)!GiveUp(p) /\ UNCHANGED <<v2, v3, v6, v7>> /\ v2 \in Nat /\ v3 \in Nat
  BY <1>1, GuildTyped DEF Guild!Place
<1>3. /\ v1 \in Seq(Channel(s)) /\ Len(v1) \in Nat /\ DOMAIN v1 = 1..Len(v1)
      /\ IsFiniteSet(DOMAIN v1) /\ s.room \in Nat
  BY <1>1, GuildTyped
<1>4. CASE UNCHANGED v1
  <2>1. Guild(s)!OneDashboard'
    BY <1>1, <1>2 DEF Guild!OneDashboard, Guild!NewTask
  <2> QED BY <1>2, <1>4, <2>1, GuildReturns
<1>5. CASE ~UNCHANGED v1
  <2>1. c \in DOMAIN v1 /\ ~(Guild(s)!Cardinality(Guild(s)!Children(c)) >= s.room)
    BY <1>5 DEF Guild!Place, Guild!Alive
  <2>2. Cardinality(Kids(v1, c)) < s.room
    <3>1. Guild(s)!Children(c) = Kids(v1, c)
      BY DEF Guild!Children, Kids
    <3>2. Kids(v1, c) \in SUBSET DOMAIN v1
      BY DEF Kids
    <3>3. Cardinality(Kids(v1, c)) \in Nat
      BY <1>3, <3>2, FS_Subset, FS_CardinalityType
    <3>4. ~(Cardinality(Kids(v1, c)) >= s.room)
      BY <2>1, <3>1, GuildCounts
    <3> QED BY <1>3, <3>3, <3>4
  <2>3. CASE v1' = Append(v1, [name |-> Guild(s)!Task, shard |-> 1, parent |-> c, alive |-> TRUE])
    <3> HIDE DEF c
    <3> QED BY <1>2, <2>1, <2>2, <2>3, GuildTask
  <2>4. CASE \E d \in DOMAIN v1 : v1' = [v1 EXCEPT ![d].parent = c]
    <3>1. PICK d \in DOMAIN v1 : v1' = [v1 EXCEPT ![d].parent = c]
      BY <2>4
    <3>2. PICK k : k = Guild(s)!Idle
      OBVIOUS
    <3>3. v4' = [v4 EXCEPT ![p] = k]
      BY <1>2, <3>2 DEF Guild!GiveUp
    <3>4. Fit(s, k, v1, Guild(s)!Categories) /\ k.seen = {}
      BY <3>2, FitIdle
    <3> HIDE DEF c
    <3> QED BY <1>2, <2>1, <2>2, <3>1, <3>3, <3>4, GuildMoved
  <2> QED BY <1>5, <2>3, <2>4 DEF Guild!Place
<1> QED BY <1>4, <1>5

\* Nothing happens.
LEMMA GuildSame ==
    ASSUME NEW s \in GuildScopes, Guild(s)!IInv, UNCHANGED <<v1, v2, v3, v4, v6, v7>>
    PROVE  Guild(s)!IInv'
<1>1. Guild(s)!Shape /\ Guild(s)!Roomy /\ Guild(s)!InOrder /\ Guild(s)!OneDashboard
  BY DEF Guild!IInv
<1>2. /\ v1 \in Seq(Channel(s)) /\ v2 \in Nat /\ v3 \in Nat /\ v3 <= v3
      /\ \A c \in DOMAIN v1 : v1[c].parent \in {0} \cup DOMAIN v1
      /\ v4 = [p \in Guild(s)!Handlers |-> v4[p]]
  BY <1>1, GuildShape
<1>3. Guild(s)!Shape'
  BY <1>1, <1>2, GuildShapeKept
<1>4. Guild(s)!Roomy'
  BY <1>1, GuildRoomKept
<1>5. Guild(s)!InOrder'
  BY <1>1, <1>2, GuildOrderKept
<1>6. Guild(s)!OneDashboard'
  BY <1>1 DEF Guild!OneDashboard, Guild!NewTask
<1> QED BY <1>3, <1>4, <1>5, <1>6 DEF Guild!IInv

\* The invariant of the guild.
LEMMA GuildInvariant ==
    Spec => [](\A s \in GuildScopes : Is("guild", s) => Guild(s)!IInv)
<1> DEFINE I == \A s \in GuildScopes : Is("guild", s) => Guild(s)!IInv
<1>1. Init => I
  <2> SUFFICES ASSUME Init, NEW s \in GuildScopes, Is("guild", s) PROVE Guild(s)!IInv
    OBVIOUS
  <2>1. /\ v1 = <<>> /\ v2 = 0 /\ v3 = 1 /\ v6 = {} /\ v7 = {}
        /\ v4 = [p \in Guild(s)!Handlers |-> Guild(s)!Idle]
    BY DEF Init, Is, Guild!Init
  <2>2. \A p \in Guild(s)!Handlers :
           Fit(s, v4[p], v1, Guild(s)!Categories) /\ v4[p].seen = {}
    BY <2>1, FitIdle
  <2>3. v1 \in Seq(Channel(s)) /\ DOMAIN v1 = {}
    BY <2>1
  <2>4. Guild(s)!Shape
    BY <2>1, <2>2, <2>3, GuildShape
  <2>5. Guild(s)!OneDashboard
    BY <2>1 DEF Guild!OneDashboard
  <2>6. Guild(s)!Roomy
    BY <2>3, GuildRoom
  <2>7. Guild(s)!InOrder
    <3>1. \A name : Called(v1, DOMAIN v1, name) = {} /\ Called(v1, {}, name) = {}
      BY <2>3 DEF Called
    <3> QED BY <2>2, <3>1, NumberedNone, GuildOrder
  <2> QED BY <2>4, <2>5, <2>6, <2>7 DEF Guild!IInv
<1>2. I /\ [Next]_vars => I'
  <2> SUFFICES ASSUME I, [Next]_vars, NEW s \in GuildScopes, Is("guild", s)'
               PROVE  Guild(s)!IInv'
    OBVIOUS
  <2>1. CASE UNCHANGED vars
    <3>1. Guild(s)!IInv /\ UNCHANGED <<v1, v2, v3, v4, v5, v6, v7>>
      BY <2>1 DEF vars, Is
    <3>2. UNCHANGED <<v1, v2, v3, v4, v6, v7>>
      BY <3>1
    <3> QED BY <3>1, <3>2, GuildSame
  <2>2. CASE Next
    <3>1. Is("guild", s)
      BY <2>2 DEF Next, In, Is
    <3>2. In("guild", s) /\ Guild(s)!Next
      BY <2>2, <3>1 DEF Next, In, Is
    <3>3. Guild(s)!IInv
      BY <3>1
    <3>4. ASSUME NEW p \in Guild(s)!Handlers,
                 \/ Guild(s)!Ready(p) \/ Guild(s)!EnsureChannel(p) \/ Guild(s)!ReadDashboard(p)
                 \/ Guild(s)!SendDashboard(p) \/ Guild(s)!Move(p) \/ Guild(s)!FindCategory(p)
                 \/ Guild(s)!Place(p) \/ Guild(s)!Refused(p)
          PROVE  Guild(s)!IInv'
      BY <3>3, <3>4, GuildLists, GuildEnsures, GuildDashboard, GuildFinds, GuildPlaces
    <3>5. ASSUME NEW c \in DOMAIN v1, Guild(s)!OwnerDeletes(c) PROVE Guild(s)!IInv'
      BY <3>3, <3>5, GuildDeletion
    <3> QED BY <3>2, <3>3, <3>4, <3>5, GuildCrashes, GuildMonth DEF Guild!Next
  <2> QED BY <2>1, <2>2
<1> QED BY <1>1, <1>2, PTL DEF Spec

\* The numbers of a name say that there is one of each.
LEMMA GuildOneOfEach ==
    ASSUME NEW s \in GuildScopes, Guild(s)!IInv
    PROVE  Guild(s)!OneOfEach
<1>1. Guild(s)!Shape /\ Guild(s)!Roomy /\ Guild(s)!InOrder /\ Guild(s)!OneDashboard
  BY DEF Guild!IInv
<1>2. /\ IsFiniteSet(DOMAIN v1) /\ \A c \in DOMAIN v1 : v1[c] \in Channel(s)
      /\ v3 \in Nat
  BY <1>1, GuildTyped
<1> SUFFICES ASSUME NEW c \in DOMAIN v1, v1[c].alive, v1[c].name # Guild(s)!Task
             PROVE  /\ v1[c].name \in {Guild(s)!Running} \cup {Guild(s)!Done(m) : m \in 1..v3}
                          => Guild(s)!Cardinality(Guild(s)!Children(c)) <= s.room
                    /\ v1[c].name \notin v6 \cup v7 =>
                         /\ Guild(s)!Same(v1[c].name, v1[c].shard) = {c}
                         /\ \A shard \in 1..v1[c].shard : Guild(s)!Same(v1[c].name, shard) # {}
  BY <1>1 DEF Guild!OneOfEach, Guild!OneDashboard, Guild!Alive
<1>3. v1[c].name \in Guild(s)!Names /\ v1[c].shard \in Nat
  BY <1>2 DEF Channel
<1>4. ASSUME v1[c].name \in {Guild(s)!Running} \cup {Guild(s)!Done(m) : m \in 1..v3}
      PROVE  Guild(s)!Cardinality(Guild(s)!Children(c)) <= s.room
  <2>1. v1[c].name \in Guild(s)!Categories
    BY <1>2, <1>4 DEF Guild!Categories
  <2>2. v1[c].name # Guild(s)!Control
    BY <2>1, GuildNames
  <2>3. Guild(s)!Children(c) = Kids(v1, c)
    BY DEF Guild!Children, Kids
  <2> QED BY <1>1, <2>2, <2>3, GuildRoom, GuildCounts
<1>5. ASSUME v1[c].name \notin v6 \cup v7
      PROVE  /\ Guild(s)!Same(v1[c].name, v1[c].shard) = {c}
             /\ \A shard \in 1..v1[c].shard : Guild(s)!Same(v1[c].name, shard) # {}
  <2>1. PICK name \in Guild(s)!Names : name = v1[c].name
    BY <1>3
  <2> DEFINE all == Called(v1, DOMAIN v1, name)
  <2>2. NumberedIn(v1, all) /\ \A d \in all : v1[d].alive
    BY <1>1, <1>5, <2>1, GuildOrder
  <2>3. c \in all /\ IsFiniteSet(all) /\ Cardinality(all) \in Nat
    <3>1. all \in SUBSET DOMAIN v1 /\ c \in all
      BY <2>1 DEF Called
    <3> HIDE DEF all
    <3> QED BY <1>2, <3>1, FS_Subset, FS_CardinalityType
  <2>4. \A shard : Guild(s)!Same(name, shard) = {d \in all : v1[d].shard = shard}
    BY <2>2 DEF Guild!Same, Called
  <2>5. Guild(s)!Same(name, v1[c].shard) = {c}
    <3> HIDE DEF all
    <3> QED BY <2>2, <2>3, <2>4 DEF NumberedIn
  <2>6. ASSUME NEW shard \in 1..v1[c].shard PROVE Guild(s)!Same(name, shard) # {}
    <3> HIDE DEF all
    <3>1. shard \in 1..Cardinality(all)
      BY <1>3, <2>2, <2>3, <2>6 DEF NumberedIn
    <3>2. PICK d \in all : v1[d].shard = shard
      BY <2>2, <2>3, <3>1, NumbersUsed
    <3> QED BY <2>4, <3>2
  <2> QED BY <2>1, <2>5, <2>6
<1> QED BY <1>4, <1>5

\* OneOfEach: of each category, of each channel of control and of the card
\* there is one, the numbers of a category have no gap, and none is fuller
\* than Discord allows, however many handlers provision the guild at a time and
\* wherever they stop (provision.rs); what is excused is what was created from
\* two old listings, and the categories the owner has thinned out.
THEOREM EachIsThereOnce == Spec => []OneOfEach
<1>1. (\A s \in GuildScopes : Is("guild", s) => Guild(s)!IInv) => OneOfEach
  BY GuildOneOfEach DEF OneOfEach
<1> QED BY <1>1, GuildInvariant, PTL

-----------------------------------------------------------------------------
(* The tools                                                                *)

\* A page: as many turns as are asked for, from the cursor down.
LEMMA CallsPage ==
    ASSUME NEW s \in CallsScopes, v1 \in Seq(Nat), NEW cursor \in 0..Len(v1)
    PROVE  \E first \in 0..Len(v1), much \in 0..s.limit :
             /\ much <= first /\ (cursor # 0 => first = cursor)
             /\ Calls(s)!Page(cursor).nextCursor = first - much
             /\ Calls(s)!Page(cursor).truncated = FALSE
             /\ Calls(s)!Page(cursor).turns
                  = [n \in 1..much |-> [id |-> first - n + 1, items |-> v1[first - n + 1]]]
<1> DEFINE first == IF cursor = 0 THEN Len(v1) ELSE cursor
           much == IF first < s.limit THEN first ELSE s.limit
           list == [n \in 1..much |-> [id |-> first - n + 1, items |-> v1[first - n + 1]]]
<1>1. Calls(s)!Page(cursor) = [turns |-> list, nextCursor |-> first - much, truncated |-> FALSE]
  BY Zenon DEF Calls!Page, Calls!None
<1>2. /\ Calls(s)!Page(cursor).nextCursor = first - much
      /\ Calls(s)!Page(cursor).truncated = FALSE
      /\ Calls(s)!Page(cursor).turns = list
  <2> HIDE DEF list, first, much
  <2> QED BY <1>1
<1>3. Len(v1) \in Nat /\ s.limit \in Nat
  BY CallsAssumption, LenProperties
<1>4. first \in 0..Len(v1) /\ much \in 0..s.limit /\ much <= first /\ (cursor # 0 => first = cursor)
  BY <1>3
<1> HIDE DEF first, much
<1> QED BY <1>2, <1>4

\* What a page holds.
LEMMA CallsPageHolds ==
    ASSUME NEW s \in CallsScopes, v1 \in Seq(Nat), NEW cursor \in 0..Len(v1),
           NEW value, value = Calls(s)!Page(cursor)
    PROVE  /\ value.turns \in Seq(Calls(s)!Entry) /\ Len(value.turns) <= s.limit
           /\ value.nextCursor \in 0..Len(v1)
           /\ value.nextCursor + Len(value.turns) <= Len(v1)
           /\ cursor # 0 => value.nextCursor + Len(value.turns) = cursor
           /\ Calls(s)!Ids(value)
                = {n \in 1..(value.nextCursor + Len(value.turns)) : value.nextCursor < n}
<1>1. PICK first \in 0..Len(v1), much \in 0..s.limit :
        /\ much <= first /\ (cursor # 0 => first = cursor)
        /\ value.nextCursor = first - much
        /\ value.turns = [n \in 1..much |-> [id |-> first - n + 1, items |-> v1[first - n + 1]]]
  BY ZenonT(40), CallsPage
<1>2. Len(v1) \in Nat /\ s.limit \in Nat /\ DOMAIN v1 = 1..Len(v1)
  BY CallsAssumption, LenProperties
<1>3. ASSUME NEW n \in 1..much
      PROVE  /\ first - n + 1 \in 1..Len(v1) /\ v1[first - n + 1] \in Nat
             /\ value.turns[n] = [id |-> first - n + 1, items |-> v1[first - n + 1]]
             /\ value.turns[n] \in Calls(s)!Entry /\ value.turns[n].id = first - n + 1
  <2>1. first - n + 1 \in 1..Len(v1)
    BY SMTT(40), <1>1, <1>2
  <2>2. v1[first - n + 1] \in Nat
    BY <2>1, <1>2, ElementOfSeq
  <2>3. value.turns[n] = [id |-> first - n + 1, items |-> v1[first - n + 1]]
    BY <1>1
  <2> QED BY <2>1, <2>2, <2>3, <1>2 DEF Calls!Entry
<1>4. value.turns \in [1..much -> Calls(s)!Entry]
  <2>1. value.turns = [n \in 1..much |-> value.turns[n]]
    BY <1>1
  <2> QED BY <2>1, <1>3
<1>5. value.turns \in Seq(Calls(s)!Entry) /\ Len(value.turns) = much /\ DOMAIN value.turns = 1..much
  <2>1. much \in Nat
    BY <1>1, <1>2
  <2>2. value.turns \in Seq(Calls(s)!Entry)
    BY <1>4, <2>1, SeqDef
  <2>3. Len(value.turns) \in Nat /\ DOMAIN value.turns = 1..Len(value.turns)
    BY <2>2, LenProperties
  <2>4. DOMAIN value.turns = 1..much
    BY <1>4
  <2> QED BY <2>1, <2>2, <2>3, <2>4
<1>6. ASSUME NEW id \in 1..first, value.nextCursor < id
      PROVE  \E n \in 1..much : value.turns[n].id = id
  <2>1. first - id + 1 \in 1..much /\ first - (first - id + 1) + 1 = id
    BY <1>6, <1>1
  <2> QED BY <2>1, <1>3
<1>7. value.nextCursor + Len(value.turns) = first
  BY <1>1, <1>5
<1>8. Calls(s)!Ids(value) = {n \in 1..first : value.nextCursor < n}
  <2>1. Calls(s)!Ids(value) = {value.turns[n].id : n \in 1..much}
    BY <1>5 DEF Calls!Ids
  <2>2. ASSUME NEW n \in 1..much
        PROVE  value.turns[n].id \in 1..first /\ value.nextCursor < value.turns[n].id
    BY <1>3, <1>1
  <2> QED BY <2>1, <2>2, <1>6
<1>9. Calls(s)!Ids(value)
        = {n \in 1..(value.nextCursor + Len(value.turns)) : value.nextCursor < n}
  BY <1>7, <1>8
<1>10. /\ Len(value.turns) <= s.limit /\ value.nextCursor \in 0..Len(v1)
       /\ value.nextCursor + Len(value.turns) <= Len(v1)
       /\ cursor # 0 => value.nextCursor + Len(value.turns) = cursor
  BY <1>1, <1>2, <1>5, <1>7
<1> QED BY <1>5, <1>9, <1>10

\* A cut answer says that it was cut, and is no longer.
LEMMA CallsCut ==
    ASSUME NEW s \in CallsScopes, NEW E, NEW value, value.turns \in Seq(E),
           DOMAIN value = {"turns", "nextCursor", "truncated"},
           \A e \in E : [e EXCEPT !.items = @ \div 2] \in E
    PROVE  /\ Calls(s)!Cut(value).truncated = TRUE
           /\ Calls(s)!Cut(value).nextCursor = value.nextCursor
           /\ DOMAIN Calls(s)!Cut(value) = {"turns", "nextCursor", "truncated"}
           /\ Calls(s)!Cut(value).turns \in Seq(E)
           /\ Len(Calls(s)!Cut(value).turns) <= Len(value.turns)
<1> DEFINE list == value.turns
           n == CHOOSE n \in Calls(s)!Longest(value) : TRUE
           new == IF list[n].items <= Len(list) THEN SubSeq(list, 1, Len(list) \div 2)
                  ELSE [list EXCEPT ![n].items = @ \div 2]
<1>1. Calls(s)!Cut(value) = [value EXCEPT !.truncated = TRUE, !.turns = new]
  BY DEF Calls!Cut
<1>2. new \in Seq(E) /\ Len(new) <= Len(list)
  <2> HIDE DEF n
  <2>1. list \in Seq(E) /\ Len(list) \in Nat /\ DOMAIN list = 1..Len(list)
    BY LenProperties
  <2>0. /\ list[n].items <= Len(list) => new = SubSeq(list, 1, Len(list) \div 2)
        /\ ~(list[n].items <= Len(list)) => new = [list EXCEPT ![n].items = @ \div 2]
    OBVIOUS
  <2> HIDE DEF new
  <2>2. CASE list[n].items <= Len(list)
    <3>1. Len(list) \div 2 \in 0..Len(list)
      BY <2>1
    <3>2. new = SubSeq(list, 1, Len(list) \div 2)
      BY <2>2, <2>0
    <3>3. /\ SubSeq(list, 1, Len(list) \div 2) \in Seq(E)
          /\ Len(SubSeq(list, 1, Len(list) \div 2)) = Len(list) \div 2
      <4>1. \A i \in 1..(Len(list) \div 2) : list[i] \in E
        BY <3>1, <2>1, ElementOfSeq
      <4> QED BY <3>1, <4>1, <2>1, SubSeqProperties
    <3> QED BY <3>1, <3>2, <3>3, <2>1
  <2>3. CASE ~(list[n].items <= Len(list))
    <3>1. new = [list EXCEPT ![n].items = @ \div 2]
      BY <2>3, <2>0
    <3>2. CASE n \in DOMAIN list
      <4>1. list[n] \in E
        BY <3>2, <2>1, ElementOfSeq
      <4>2. [list[n] EXCEPT !.items = @ \div 2] \in E
        BY <4>1
      <4>3. new = [list EXCEPT ![n] = [list[n] EXCEPT !.items = @ \div 2]]
        BY <3>1, <3>2
      <4> QED BY <4>2, <4>3, <3>2, <2>1, ExceptSeq
    <3>3. CASE n \notin DOMAIN list
      <4>1. new = list
        BY <3>1, <3>3, <2>1
      <4> QED BY <4>1, <2>1
    <3> QED BY <3>2, <3>3
  <2> QED BY <2>2, <2>3
<1> HIDE DEF new
<1> QED BY <1>1, <1>2

\* A list of more is a list.
LEMMA CallsSequences ==
    ASSUME NEW A, NEW B, A \subseteq B
    PROVE  Seq(A) \subseteq Seq(B)
<1> SUFFICES ASSUME NEW seq \in Seq(A) PROVE seq \in Seq(B)
  OBVIOUS
<1>1. PICK n \in Nat : seq \in [1..n -> A]
  BY SeqDef
<1>2. seq \in [1..n -> B]
  BY <1>1
<1> QED BY <1>2, SeqDef

\* A typed call of an idle caller, and a walk not begun.
LEMMA CallsNothing ==
    ASSUME NEW s \in CallsScopes, v1 \in Seq(Nat)
    PROVE  /\ Calls(s)!Idle \in [pc : {"idle", "origin", "target", "list", "bound"},
                                cursor : 0..Len(v1), value : Calls(s)!Value]
           /\ Calls(s)!Idle.pc = "idle" /\ Calls(s)!Idle.cursor = 0
           /\ Len(Calls(s)!Idle.value.turns) <= s.limit
           /\ Calls(s)!Fresh \in [from : 0..Len(v1), cursor : 0..Len(v1), got : SUBSET DOMAIN v1,
                                 warned : BOOLEAN, done : BOOLEAN]
           /\ Calls(s)!Fresh.cursor = 0 /\ Calls(s)!Fresh.from = 0
           /\ Calls(s)!Fresh.got = {} /\ Calls(s)!Fresh.done = FALSE
<1>1. Len(v1) \in Nat /\ s.limit \in Nat
  BY CallsAssumption, LenProperties
<1>2. <<>> \in Seq(Calls(s)!Entry) /\ Len(<<>>) = 0
  BY EmptySeq
<1>3. Calls(s)!Nothing \in Calls(s)!Value /\ Calls(s)!Nothing.turns = <<>>
  BY <1>1, <1>2 DEF Calls!Nothing, Calls!Value, Calls!None
<1>4. Calls(s)!Idle = [pc |-> "idle", cursor |-> 0, value |-> Calls(s)!Nothing]
  BY DEF Calls!Idle, Calls!None
<1>5. Calls(s)!Fresh = [from |-> 0, cursor |-> 0, got |-> {}, warned |-> FALSE, done |-> FALSE]
  BY DEF Calls!Fresh, Calls!None
<1>6. /\ Calls(s)!Fresh.cursor = 0 /\ Calls(s)!Fresh.from = 0
      /\ Calls(s)!Fresh.got = {} /\ Calls(s)!Fresh.done = FALSE
  BY <1>5
<1>7. /\ Calls(s)!Idle.pc = "idle" /\ Calls(s)!Idle.cursor = 0
      /\ Len(Calls(s)!Idle.value.turns) <= s.limit
  BY <1>1, <1>2, <1>3, <1>4
<1>8. Calls(s)!Idle \in [pc : {"idle", "origin", "target", "list", "bound"},
                        cursor : 0..Len(v1), value : Calls(s)!Value]
  BY <1>1, <1>3, <1>4
<1>9. Calls(s)!Fresh \in [from : 0..Len(v1), cursor : 0..Len(v1), got : SUBSET DOMAIN v1,
                         warned : BOOLEAN, done : BOOLEAN]
  BY <1>1, <1>5
<1> QED BY <1>6, <1>7, <1>8, <1>9

\* The task goes on: a walk covers what it has covered.
LEMMA CallsTurnBegins ==
    ASSUME NEW s \in CallsScopes, Calls(s)!IInv, Calls(s)!TurnBegins
    PROVE  Calls(s)!IInv'
<1>1. PICK items \in 0..s.items : v1' = Append(v1, items)
  BY DEF Calls!TurnBegins
<1>2. /\ v1 \in Seq(Nat) /\ Len(v1) \in Nat /\ Len(v1) < s.turns /\ s.turns \in Nat
      /\ items \in Nat /\ DOMAIN v1 = 1..Len(v1)
      /\ v5' = v5 /\ v6' = v6
  BY CallsAssumption, LenProperties DEF Calls!IInv, Calls!Shape, Calls!TurnBegins
<1>3. v1' \in Seq(Nat) /\ Len(v1') = Len(v1) + 1
  BY <1>1, <1>2, AppendProperties
<1>4. DOMAIN v1' = 1..(Len(v1) + 1)
  BY <1>3, LenProperties
<1>5. /\ Calls(s)!Entry \subseteq Calls(s)!Entry' /\ 0..Len(v1) \subseteq 0..Len(v1')
      /\ DOMAIN v1 \subseteq DOMAIN v1'
  BY <1>2, <1>3, <1>4 DEF Calls!Entry
<1>6. Seq(Calls(s)!Entry) \subseteq Seq(Calls(s)!Entry')
  BY <1>5, CallsSequences
<1>7. Calls(s)!Value \subseteq Calls(s)!Value'
  BY <1>5, <1>6 DEF Calls!Value
<1>8. Calls(s)!Shape'
  <2>1. Calls(s)!Shape
    BY DEF Calls!IInv
  <2> QED BY <2>1, <1>2, <1>3, <1>5, <1>7 DEF Calls!Shape
<1>9. Calls(s)!CallFollows' /\ Calls(s)!Begins'
  BY <1>2 DEF Calls!IInv, Calls!CallFollows, Calls!Begins
<1>10. Calls(s)!WholePage'
  <2>1. Calls(s)!WholePage /\ v5 \in [pc : {"idle", "origin", "target", "list", "bound"},
                                      cursor : 0..Len(v1), value : Calls(s)!Value]
    BY DEF Calls!IInv, Calls!Shape
  <2>2. v5.value.nextCursor \in Nat /\ Len(v5.value.turns) \in Nat
    BY <2>1, <1>2, LenProperties DEF Calls!Value
  <2> QED BY <2>1, <2>2, <1>2, <1>3 DEF Calls!WholePage, Calls!Ids
<1>11. Calls(s)!CursorsSkipNothing'
  <2>1. v6.from <= Len(v1) /\ v6.from \in Nat /\ Calls(s)!CursorsSkipNothing
    BY <1>2 DEF Calls!IInv, Calls!Shape
  <2> QED BY <2>1, <1>2, <1>3, <1>4 DEF Calls!CursorsSkipNothing
<1> QED BY <1>8, <1>9, <1>10, <1>11 DEF Calls!IInv

\* A call that does not get as far as an answer leaves the walk as it is.
LEMMA CallsElsewhere ==
    ASSUME NEW s \in CallsScopes, Calls(s)!IInv, v1' = v1, v6' = v6,
           v5' \in [pc : {"idle", "origin", "target", "list", "bound"},
                    cursor : 0..Len(v1), value : Calls(s)!Value],
           Len(v5'.value.turns) <= s.limit,
           v5'.pc = "idle" \/ (v5.pc # "idle" /\ v5'.cursor = v5.cursor),
           v5'.pc = "bound" => v5'.value.truncated \/ v5' = v5
    PROVE  Calls(s)!IInv'
<1>1. Calls(s)!Value' = Calls(s)!Value
  BY DEF Calls!Value, Calls!Entry
<1>2. Calls(s)!Shape'
  BY <1>1 DEF Calls!IInv, Calls!Shape
<1>3. /\ Calls(s)!CallFollows' /\ Calls(s)!Begins' /\ Calls(s)!WholePage'
      /\ Calls(s)!CursorsSkipNothing'
  BY DEF Calls!IInv, Calls!CallFollows, Calls!Begins, Calls!WholePage, Calls!CursorsSkipNothing,
         Calls!Ids
<1> QED BY <1>2, <1>3 DEF Calls!IInv

\* The walk is what the call says.
LEMMA CallsTyped ==
    ASSUME NEW s \in CallsScopes, Calls(s)!IInv
    PROVE  /\ v1 \in Seq(Nat) /\ Len(v1) \in Nat /\ DOMAIN v1 = 1..Len(v1) /\ s.limit \in Nat
           /\ v5 \in [pc : {"idle", "origin", "target", "list", "bound"},
                      cursor : 0..Len(v1), value : Calls(s)!Value]
           /\ v5.value \in Calls(s)!Value /\ Len(v5.value.turns) <= s.limit
           /\ v6 \in [from : 0..Len(v1), cursor : 0..Len(v1), got : SUBSET DOMAIN v1,
                      warned : BOOLEAN, done : BOOLEAN]
BY CallsAssumption, LenProperties DEF Calls!IInv, Calls!Shape

\* The calling task, and the one asked for, are looked up; or the call fails.
LEMMA CallsLookUp ==
    ASSUME NEW s \in CallsScopes, Calls(s)!IInv, Calls(s)!Origin \/ Calls(s)!Target
    PROVE  Calls(s)!IInv'
<1>1. /\ v5.pc # "idle" /\ v1' = v1 /\ v6' = v6
      /\ \/ v5' = [v5 EXCEPT !.pc = "target"] \/ v5' = [v5 EXCEPT !.pc = "list"]
         \/ v5' = Calls(s)!Idle
  BY DEF Calls!Origin, Calls!Target, Calls!Failed
<1>2. /\ v5' \in [pc : {"idle", "origin", "target", "list", "bound"},
                  cursor : 0..Len(v1), value : Calls(s)!Value]
      /\ v5'.pc # "bound" /\ Len(v5'.value.turns) <= s.limit
      /\ v5'.pc = "idle" \/ v5'.cursor = v5.cursor
  BY <1>1, CallsTyped, CallsNothing
<1> QED BY <1>1, <1>2, CallsElsewhere

\* A call begins where the walk stands.
LEMMA CallsAsk ==
    ASSUME NEW s \in CallsScopes, Calls(s)!IInv, Calls(s)!Ask
    PROVE  Calls(s)!IInv'
<1>1. /\ v5.pc = "idle" /\ v1' = v1
      /\ v6' = (IF v6.done THEN Calls(s)!Fresh ELSE v6)
      /\ v5' = [Calls(s)!Idle EXCEPT !.pc = "origin", !.cursor = v6'.cursor]
  BY DEF Calls!Ask
<1>2. /\ v6' \in [from : 0..Len(v1), cursor : 0..Len(v1), got : SUBSET DOMAIN v1,
                  warned : BOOLEAN, done : BOOLEAN]
      /\ v6' = v6 \/ (v6'.cursor = 0 /\ v6'.from = 0 /\ v6'.got = {})
      /\ ~v6'.done
  BY <1>1, CallsTyped, CallsNothing
<1>3. /\ v5' \in [pc : {"idle", "origin", "target", "list", "bound"},
                  cursor : 0..Len(v1), value : Calls(s)!Value]
      /\ v5'.pc = "origin" /\ v5'.cursor = v6'.cursor /\ Len(v5'.value.turns) <= s.limit
  BY <1>1, <1>2, CallsTyped, CallsNothing
<1>4. Calls(s)!Value' = Calls(s)!Value
  BY <1>1 DEF Calls!Value, Calls!Entry
<1>5. Calls(s)!Shape'
  BY <1>1, <1>2, <1>3, <1>4 DEF Calls!IInv, Calls!Shape
<1>6. Calls(s)!CallFollows' /\ Calls(s)!WholePage'
  BY <1>2, <1>3 DEF Calls!CallFollows, Calls!WholePage
<1>7. Calls(s)!Begins' /\ Calls(s)!CursorsSkipNothing'
  BY <1>1, <1>2, CallsTyped DEF Calls!IInv, Calls!Begins, Calls!CursorsSkipNothing
<1> QED BY <1>5, <1>6, <1>7 DEF Calls!IInv

\* Codex answers with a page, or does not.
LEMMA CallsList ==
    ASSUME NEW s \in CallsScopes, Calls(s)!IInv, Calls(s)!List
    PROVE  Calls(s)!IInv'
<1>1. v5.pc = "list" /\ v1' = v1 /\ v6' = v6
  BY DEF Calls!List, Calls!Failed
<1>2. CASE v5' = Calls(s)!Idle
  BY <1>1, <1>2, CallsNothing, CallsTyped, CallsElsewhere
<1>3. CASE v5' = [v5 EXCEPT !.pc = "bound", !.value = Calls(s)!Page(v5.cursor)]
  <2>1. PICK value : value = Calls(s)!Page(v5.cursor)
    OBVIOUS
  <2>2. /\ value.turns \in Seq(Calls(s)!Entry) /\ Len(value.turns) <= s.limit
        /\ value.nextCursor \in 0..Len(v1)
        /\ value.nextCursor + Len(value.turns) <= Len(v1)
        /\ v5.cursor # 0 => value.nextCursor + Len(value.turns) = v5.cursor
        /\ Calls(s)!Ids(value)
             = {n \in 1..(value.nextCursor + Len(value.turns)) : value.nextCursor < n}
    <3>1. v1 \in Seq(Nat) /\ v5.cursor \in 0..Len(v1)
      BY CallsTyped
    <3> QED BY <2>1, <3>1, CallsPageHolds
  <2>3. value \in Calls(s)!Value
    <3>1. value = [turns |-> value.turns, nextCursor |-> value.nextCursor, truncated |-> FALSE]
      BY <2>1 DEF Calls!Page
    <3>2. value.truncated = FALSE
      BY <2>1 DEF Calls!Page
    <3> QED BY <3>1, <3>2, <2>2 DEF Calls!Value
  <2>4. /\ v5' \in [pc : {"idle", "origin", "target", "list", "bound"},
                    cursor : 0..Len(v1), value : Calls(s)!Value]
        /\ v5'.value = value /\ v5'.cursor = v5.cursor /\ v5'.pc = "bound"
    BY <1>3, <2>1, <2>3, CallsTyped
  <2>5. Calls(s)!Value' = Calls(s)!Value
    BY <1>1 DEF Calls!Value, Calls!Entry
  <2>6. Calls(s)!Shape'
    BY <1>1, <2>2, <2>4, <2>5 DEF Calls!IInv, Calls!Shape
  <2>7. Calls(s)!WholePage'
    BY <1>1, <2>2, <2>4 DEF Calls!WholePage, Calls!Ids, Calls!None
  <2>8. Calls(s)!CallFollows' /\ Calls(s)!Begins' /\ Calls(s)!CursorsSkipNothing'
    BY <1>1, <2>4 DEF Calls!IInv, Calls!CallFollows, Calls!Begins, Calls!CursorsSkipNothing
  <2> QED BY <2>6, <2>7, <2>8 DEF Calls!IInv
<1> QED BY <1>2, <1>3 DEF Calls!List, Calls!Failed

\* An answer too long is cut, or refused when nothing is left of it.
LEMMA CallsShorten ==
    ASSUME NEW s \in CallsScopes, Calls(s)!IInv, Calls(s)!Shorten
    PROVE  Calls(s)!IInv'
<1>1. v5.pc = "bound" /\ v1' = v1 /\ v6' = v6
  BY DEF Calls!Shorten, Calls!Failed
<1>2. CASE v5' = Calls(s)!Idle
  BY <1>1, <1>2, CallsNothing, CallsTyped, CallsElsewhere
<1>3. CASE v5' = [v5 EXCEPT !.value = Calls(s)!Cut(v5.value)]
  <2>1. v5.value \in Calls(s)!Value
    BY CallsTyped
  <2>2. /\ v5.value.turns \in Seq(Calls(s)!Entry) /\ v5.value.nextCursor \in 0..Len(v1)
        /\ DOMAIN v5.value = {"turns", "nextCursor", "truncated"}
    BY <2>1 DEF Calls!Value
  <2>3. \A e \in Calls(s)!Entry : [e EXCEPT !.items = @ \div 2] \in Calls(s)!Entry
    BY DEF Calls!Entry
  <2>4. PICK value : value = Calls(s)!Cut(v5.value)
    OBVIOUS
  <2>5. /\ value.truncated = TRUE /\ value.nextCursor \in 0..Len(v1)
        /\ DOMAIN value = {"turns", "nextCursor", "truncated"}
        /\ value.turns \in Seq(Calls(s)!Entry) /\ Len(value.turns) <= Len(v5.value.turns)
    BY ZenonT(40), <2>2, <2>3, <2>4, CallsCut
  <2>6. value \in Calls(s)!Value
    <3>1. value = [turns |-> value.turns, nextCursor |-> value.nextCursor, truncated |-> TRUE]
      BY <2>4, <2>5 DEF Calls!Cut
    <3> QED BY <3>1, <2>5 DEF Calls!Value
  <2>7. Len(value.turns) <= s.limit
    BY <2>2, <2>5, CallsTyped, LenProperties
  <2>8. /\ v5' \in [pc : {"idle", "origin", "target", "list", "bound"},
                    cursor : 0..Len(v1), value : Calls(s)!Value]
        /\ v5'.value = value /\ v5'.cursor = v5.cursor /\ v5'.pc = "bound"
    BY <1>1, <1>3, <2>4, <2>6, CallsTyped
  <2> QED BY <1>1, <2>5, <2>7, <2>8, CallsElsewhere
<1> QED BY <1>2, <1>3 DEF Calls!Shorten, Calls!Failed

\* An answer: what it holds joins what the walk has got.
LEMMA CallsAnswer ==
    ASSUME NEW s \in CallsScopes, Calls(s)!IInv, Calls(s)!Answer
    PROVE  Calls(s)!IInv'
<1> DEFINE value == v5.value
           newest == IF v6.cursor = 0 /\ v6.got = {} THEN
                       value.nextCursor + (IF value.truncated THEN 0 ELSE Len(value.turns))
                     ELSE v6.from
<1>1. /\ v5.pc = "bound" /\ v1' = v1 /\ v5' = Calls(s)!Idle
      /\ v6' = [from |-> newest, cursor |-> value.nextCursor,
                got |-> v6.got \cup Calls(s)!Ids(value),
                warned |-> v6.warned \/ value.truncated, done |-> value.nextCursor = 0]
  BY DEF Calls!Answer, Calls!None, Calls!Ids
<1>2. /\ v6'.from = newest /\ v6'.cursor = value.nextCursor
      /\ v6'.got = v6.got \cup Calls(s)!Ids(value)
      /\ v6'.warned = (v6.warned \/ value.truncated)
      /\ v6'.done = (value.nextCursor = 0)
  <2> HIDE DEF value, newest
  <2> QED BY <1>1
<1>3. /\ value.turns \in Seq(Calls(s)!Entry) /\ value.nextCursor \in 0..Len(v1)
      /\ Len(value.turns) \in Nat /\ value.truncated \in BOOLEAN
      /\ DOMAIN value.turns = 1..Len(value.turns)
  BY CallsTyped, LenProperties DEF Calls!Value
<1>4. Calls(s)!Ids(value) \subseteq DOMAIN v1
  <2>1. \A n \in DOMAIN value.turns : value.turns[n] \in Calls(s)!Entry
    BY <1>3, ElementOfSeq
  <2> QED BY <2>1 DEF Calls!Ids, Calls!Entry
<1>5. /\ v5.cursor = v6.cursor /\ ~v6.done /\ (v6.cursor = 0 => v6.got = {})
      /\ ~value.truncated =>
           /\ value.nextCursor + Len(value.turns) <= Len(v1)
           /\ v6.cursor # 0 => value.nextCursor + Len(value.turns) = v6.cursor
           /\ Calls(s)!Ids(value)
                = {n \in 1..(value.nextCursor + Len(value.turns)) : value.nextCursor < n}
  BY <1>1 DEF Calls!IInv, Calls!CallFollows, Calls!Begins, Calls!WholePage, Calls!None
<1>6. newest \in 0..Len(v1)
  BY <1>3, <1>5, CallsTyped
<1>7. v6' \in [from : 0..Len(v1), cursor : 0..Len(v1), got : SUBSET DOMAIN v1,
               warned : BOOLEAN, done : BOOLEAN]
  <2>1. v6.got \cup Calls(s)!Ids(value) \in SUBSET DOMAIN v1
    BY <1>4, CallsTyped
  <2> HIDE DEF value, newest
  <2> QED BY <2>1, <1>1, <1>3, <1>6
<1>8. Calls(s)!Value' = Calls(s)!Value
  BY <1>1 DEF Calls!Value, Calls!Entry
<1>9. Calls(s)!Shape'
  BY <1>1, <1>7, <1>8, CallsTyped, CallsNothing DEF Calls!IInv, Calls!Shape
<1>10. Calls(s)!CallFollows' /\ Calls(s)!WholePage' /\ Calls(s)!Begins'
  BY <1>1, <1>2, CallsTyped, CallsNothing
     DEF Calls!CallFollows, Calls!WholePage, Calls!Begins, Calls!None
<1>11. Calls(s)!CursorsSkipNothing'
  <2> SUFFICES ASSUME ~v6'.warned, NEW n \in DOMAIN v1, v6'.cursor < n, n <= v6'.from
               PROVE  n \in v6'.got
    BY <1>1 DEF Calls!CursorsSkipNothing
  <2>1. ~v6.warned /\ ~value.truncated /\ value.nextCursor < n /\ n <= newest
    BY <1>2, <1>3
  <2>2. n \in Nat \ {0} /\ v6.cursor \in Nat /\ v6.from \in Nat
    BY CallsTyped
  <2>3. CASE v6.cursor = 0
    <3>1. n <= value.nextCursor + Len(value.turns)
      BY <2>1, <2>3, <1>5
    <3> QED BY <3>1, <2>1, <2>2, <1>2, <1>3, <1>5
  <2>4. CASE v6.cursor # 0 /\ n <= v6.cursor
    BY <2>1, <2>2, <2>4, <1>2, <1>3, <1>5
  <2>5. CASE v6.cursor # 0 /\ v6.cursor < n
    <3>1. n <= v6.from
      BY <2>1, <2>5
    <3>2. n \in v6.got
      BY <3>1, <2>1, <2>5 DEF Calls!IInv, Calls!CursorsSkipNothing
    <3> QED BY <3>2, <1>2
  <2> QED BY <2>2, <2>3, <2>4, <2>5
<1> QED BY <1>9, <1>10, <1>11 DEF Calls!IInv

\* The invariant of the walks.
LEMMA CallsInvariant ==
    Spec => [](\A s \in CallsScopes : Is("calls", s) => Calls(s)!IInv)
<1> DEFINE I == \A s \in CallsScopes : Is("calls", s) => Calls(s)!IInv
<1>1. Init => I
  <2> SUFFICES ASSUME Init, NEW s \in CallsScopes, Is("calls", s) PROVE Calls(s)!IInv
    OBVIOUS
  <2>1. Calls(s)!Init
    BY DEF Init, Is
  <2>2. PICK n \in 0..s.turns : v1 \in [1..n -> 0..s.items]
    BY <2>1 DEF Calls!Init
  <2>3. v5 = Calls(s)!Idle /\ v6 = Calls(s)!Fresh
    BY <2>1 DEF Calls!Init
  <2>4. v1 \in Seq(Nat) /\ Len(v1) = n /\ s.turns \in Nat
    <3>1. v1 \in [1..n -> Nat] /\ n \in Nat
      BY <2>2
    <3>2. v1 \in Seq(Nat)
      BY <3>1, SeqDef
    <3>3. DOMAIN v1 = 1..n /\ DOMAIN v1 = 1..Len(v1) /\ Len(v1) \in Nat
      BY <3>1, <3>2, LenProperties
    <3> QED BY <3>1, <3>2, <3>3, CallsAssumption
  <2>5. Calls(s)!Shape
    <3>1. Len(v1) <= s.turns /\ Len(v1) \in Nat
      BY <2>2, <2>4
    <3> QED BY <3>1, <2>3, <2>4, CallsNothing DEF Calls!Shape
  <2>6. Calls(s)!CallFollows /\ Calls(s)!Begins /\ Calls(s)!WholePage
    BY <2>3, <2>4, CallsNothing DEF Calls!CallFollows, Calls!Begins, Calls!WholePage
  <2>7. Calls(s)!CursorsSkipNothing
    <3>1. v6.from = 0 /\ DOMAIN v1 = 1..Len(v1) /\ Len(v1) \in Nat
      BY <2>3, <2>4, CallsNothing, LenProperties
    <3> QED BY <3>1 DEF Calls!CursorsSkipNothing
  <2> QED BY <2>5, <2>6, <2>7 DEF Calls!IInv
<1>2. I /\ [Next]_vars => I'
  <2> SUFFICES ASSUME I, [Next]_vars, NEW s \in CallsScopes, Is("calls", s)'
               PROVE  Calls(s)!IInv'
    OBVIOUS
  <2>1. CASE UNCHANGED vars
    <3>1. v1' = v1 /\ v5' = v5 /\ v6' = v6 /\ Calls(s)!IInv
      BY <2>1 DEF vars, Is
    <3> QED BY <3>1, CallsTyped, CallsElsewhere
  <2>2. CASE Next
    <3>1. In("calls", s) /\ Calls(s)!Next
      BY <2>2 DEF Next, In, Is
    <3>2. Calls(s)!IInv
      BY <3>1 DEF In
    <3>3. CASE Calls(s)!TargetChanges \/ Calls(s)!CallerEnds
      <4>1. v1' = v1 /\ v5' = v5 /\ v6' = v6
        BY <3>3 DEF Calls!TargetChanges, Calls!CallerEnds
      <4> QED BY <4>1, <3>2, CallsTyped, CallsElsewhere
    <3> QED BY <3>1, <3>2, <3>3, CallsTurnBegins, CallsAsk, CallsLookUp, CallsList,
               CallsShorten, CallsAnswer DEF Calls!Next
  <2> QED BY <2>1, <2>2
<1> QED BY <1>1, <1>2, PTL DEF Spec

\* CursorsSkipNothing, on every instance: a caller that follows the cursors
\* of tool_list_turns to the end has got every turn there was when it began,
\* or has been told that an answer was cut.
THEOREM CursorsLoseNothing == Spec => []CursorsSkipNothing
<1> DEFINE I == \A s \in CallsScopes : Is("calls", s) => Calls(s)!IInv
<1>1. Spec => []I
  BY CallsInvariant
<1>2. I => CursorsSkipNothing
  BY DEF CursorsSkipNothing, Calls!IInv
<1> HIDE DEF I
<1> QED BY <1>1, <1>2, PTL
=============================================================================
