--------------------------- MODULE Screens_proofs ---------------------------
(***************************************************************************)
(* What holds of what Discord shows - the coalesced cards, the digests of   *)
(* operations, the replies to requests, the browser of the tasks, the menus *)
(* and the forms of the action center - for every set of tasks, items,      *)
(* tokens and clicks, every number of pages, entries, questions and fields, *)
(* every limit of the projection, and any number of steps.                  *)
(***************************************************************************)
EXTENDS Discord, FiniteSetTheorems, SequenceTheorems, WellFoundedInduction, TLAPS

-----------------------------------------------------------------------------
(* The coalesced cards                                                      *)

\* The types that the proofs about the cards use.
LEMMA CardsTypes ==
    ASSUME NEW s \in CardsScopes, Cards(s)!IInv
    PROVE  /\ s.changes \in Nat /\ s.turns \in Nat /\ none \notin Nat
           /\ \A t \in s.tasks : \A i \in {none} \cup Nat : [task |-> t, id |-> i] # none
           /\ v1 \in [s.tasks -> [turn : 0..s.turns, version : 0..s.changes, dirty : BOOLEAN,
                                  message_id : {none} \cup Nat]]
           /\ v2 \in [Cards(s)!Flushers ->
                [pc : {"idle", "next", "record"},
                 now : {none} \cup [task : s.tasks, id : {none} \cup Nat],
                 todo : SUBSET [task : s.tasks, render : Nat \X Nat, existing : {none} \cup Nat]]]
           /\ v3 \in [s.tasks -> Seq(Nat \X Nat)]
           /\ \A f \in Cards(s)!Flushers :
                /\ v2[f].now = none <=> v2[f].pc # "record"
                /\ v2[f].now # none => v2[f].now.task \in s.tasks /\ v2[f].now.id \in {none} \cup Nat
                /\ \A job \in v2[f].todo : /\ job.task \in s.tasks /\ job.existing \in {none} \cup Nat
                                           /\ job.render \in Nat \X Nat
<1>1. none \notin Nat /\ none \notin [task : s.tasks, id : {none} \cup Nat]
      /\ s.changes \in Nat /\ s.turns \in Nat
  BY CardsAssumption
<1>2. \A t \in s.tasks : \A i \in {none} \cup Nat : [task |-> t, id |-> i] # none
  BY <1>1
<1>3. /\ v1 \in [s.tasks -> [turn : 0..s.turns, version : 0..s.changes, dirty : BOOLEAN,
                                  message_id : {none} \cup Nat]]
      /\ v2 \in [Cards(s)!Flushers ->
                [pc : {"idle", "next", "record"},
                 now : {none} \cup [task : s.tasks, id : {none} \cup Nat],
                 todo : SUBSET [task : s.tasks, render : Nat \X Nat, existing : {none} \cup Nat]]]
      /\ v3 \in [s.tasks -> Seq(Nat \X Nat)]
      /\ \A f \in Cards(s)!Flushers : v2[f].pc = "record" <=> v2[f].now # none
  BY DEF Cards!IInv, Cards!Shape
<1>4. ASSUME NEW f \in Cards(s)!Flushers
      PROVE  /\ v2[f].now # none => v2[f].now.task \in s.tasks /\ v2[f].now.id \in {none} \cup Nat
             /\ \A job \in v2[f].todo : /\ job.task \in s.tasks /\ job.existing \in {none} \cup Nat
                                        /\ job.render \in Nat \X Nat
  <2>1. /\ v2[f].now \in {none} \cup [task : s.tasks, id : {none} \cup Nat]
        /\ v2[f].todo \subseteq [task : s.tasks, render : Nat \X Nat, existing : {none} \cup Nat]
    BY <1>3
  <2> QED BY <2>1
<1> QED BY <1>1, <1>2, <1>3, <1>4

\* The flushes that have taken a task are those that have a job of it.
LEMMA TakenIsHas ==
    ASSUME NEW s \in CardsScopes, NEW t
    PROVE  Cards(s)!Taken(t) = {f \in Cards(s)!Flushers : Cards(s)!Has(f, t)}
BY DEF Cards!Taken, Cards!Jobs, Cards!Has, Cards!Writing

\* A digest that changes is dirty, so that nothing is promised of its card.
LEMMA CardsChange ==
    ASSUME NEW s \in CardsScopes, Cards(s)!IInv, NEW t \in s.tasks, Cards(s)!Change(t)
    PROVE  Cards(s)!IInv'
<1>1. /\ v5 \in Nat /\ v5 < s.changes /\ v5' = v5 + 1 /\ UNCHANGED <<v2, v3, v4, v6, v7, v8, v9>>
      /\ v1' = [v1 EXCEPT ![t].version = @ + 1, ![t].dirty = TRUE]
      /\ s.changes \in Nat /\ s.turns \in Nat
  BY CardsAssumption DEF Cards!IInv, Cards!Shape, Cards!Change
<1>2. /\ v1 \in [s.tasks -> [turn : 0..s.turns, version : 0..s.changes, dirty : BOOLEAN,
                             message_id : {none} \cup Nat]]
      /\ \A u \in s.tasks : v1[u].version <= v5
  BY DEF Cards!IInv, Cards!Shape
<1>3. /\ v1[t].turn \in 0..s.turns /\ v1[t].version \in 0..s.changes
      /\ v1[t].message_id \in {none} \cup Nat
  BY <1>2
<1>4. /\ v1'[t] = [turn |-> v1[t].turn, version |-> v1[t].version + 1, dirty |-> TRUE,
                   message_id |-> v1[t].message_id]
      /\ \A u \in s.tasks : u # t => v1'[u] = v1[u]
      /\ DOMAIN v1' = s.tasks
  BY <1>1, <1>2
<1>5. v1[t].version <= v5 /\ v1[t].version + 1 \in 0..s.changes /\ v1[t].version + 1 <= v5 + 1
  BY <1>1, <1>2, <1>3
<1>6. /\ v1'[t].turn = v1[t].turn /\ v1'[t].version = v1[t].version + 1 /\ v1'[t].dirty = TRUE
      /\ v1'[t].message_id = v1[t].message_id
  BY <1>4
<1>7. Cards(s)!Shape'
  <2>1. v1' \in [s.tasks -> [turn : 0..s.turns, version : 0..s.changes, dirty : BOOLEAN,
                             message_id : {none} \cup Nat]]
    BY ZenonT(40), <1>1, <1>2, <1>3, <1>5
  <2>2. \A u \in s.tasks : v1'[u].version <= v5'
    BY <1>1, <1>2, <1>4, <1>5, <1>6
  <2> QED BY SMTT(40), <2>1, <2>2, <1>1 DEF Cards!IInv, Cards!Shape, Cards!Flushers
<1>8. Cards(s)!Messages'
  BY <1>1, <1>4, <1>6 DEF Cards!IInv, Cards!Messages, Cards!Known, Cards!Writing, Cards!Flushers
<1>9. Cards(s)!OneJob' /\ Cards(s)!OneFlush'
  BY <1>1 DEF Cards!IInv, Cards!OneJob, Cards!OneFlush, Cards!Writing, Cards!Has, Cards!Flushers
<1>10. Cards(s)!InDelivery'
  <2> SUFFICES ASSUME NEW u \in s.tasks \ (v7 \cup v8), NEW f \in Cards(s)!Flushers
               PROVE  /\ Cards(s)!Has(f, u)' => Cards(s)!Exists(u)'
                      /\ \A job \in v2[f].todo :
                          job.task = u /\ ~v1'[u].dirty => job.render = Cards(s)!Content(u)'
                      /\ Cards(s)!Writing(f, u)' /\ v2[f].now.id # none /\ ~v1'[u].dirty =>
                          v3[u][v2[f].now.id] = Cards(s)!Content(u)'
    BY <1>1 DEF Cards!InDelivery, Cards!Flushers
  <2>1. CASE u = t
    BY <2>1, <1>3, <1>6 DEF Cards!Exists
  <2>2. CASE u # t
    BY <2>2, <1>1, <1>4 DEF Cards!IInv, Cards!InDelivery, Cards!Exists, Cards!Content, Cards!Has,
                            Cards!Writing
  <2> QED BY <2>1, <2>2
<1>11. Cards(s)!Delivered'
  BY SMTT(40), <1>1, <1>4, <1>6 DEF Cards!IInv, Cards!Delivered, Cards!Exists, Cards!Content, Cards!Current,
                    Cards!Has, Cards!Writing, Cards!Flushers
<1>12. Cards(s)!OneTurn'
  BY SMTT(40), <1>1, <1>4, <1>6 DEF Cards!IInv, Cards!OneTurn, Cards!OfItsTurn, Cards!Writing, Cards!Flushers
<1> QED BY <1>7, <1>8, <1>9, <1>10, <1>11, <1>12 DEF Cards!IInv

\* A turn that starts takes the digest away, or disturbs its delivery.
LEMMA CardsTurn ==
    ASSUME NEW s \in CardsScopes, Cards(s)!IInv, NEW t \in s.tasks, Cards(s)!TurnStarted(t)
    PROVE  Cards(s)!IInv'
<1>1. /\ v1[t].turn < s.turns /\ UNCHANGED <<v2, v3, v4, v5, v6>>
      /\ v1' = [v1 EXCEPT ![t] = [turn |-> v1[t].turn + 1, version |-> 0, dirty |-> FALSE,
                                  message_id |-> none]]
      /\ v8' = v8 \ {t}
  BY DEF Cards!TurnStarted, Cards!Fresh
<1>2. /\ v7' = IF \E f \in Cards(s)!Flushers : Cards(s)!Has(f, t) THEN v7 \cup {t} ELSE v7 \ {t}
      /\ v9' = IF \E f \in Cards(s)!Flushers : Cards(s)!Has(f, t) THEN v9 \cup {t} ELSE v9
  BY TakenIsHas DEF Cards!TurnStarted
<1>3. /\ s.turns \in Nat /\ s.changes \in Nat /\ v5 \in Nat
      /\ v1 \in [s.tasks -> [turn : 0..s.turns, version : 0..s.changes, dirty : BOOLEAN,
                             message_id : {none} \cup Nat]]
  BY CardsTypes DEF Cards!IInv, Cards!Shape
<1>4. /\ v1'[t] = [turn |-> v1[t].turn + 1, version |-> 0, dirty |-> FALSE, message_id |-> none]
      /\ \A u \in s.tasks : u # t => v1'[u] = v1[u]
  BY <1>1, <1>3
<1>5. /\ v1'[t].turn = v1[t].turn + 1 /\ v1'[t].version = 0 /\ v1'[t].dirty = FALSE
      /\ v1'[t].message_id = none
  BY <1>4
<1>6. v1[t].turn + 1 \in 0..s.turns
  BY <1>1, <1>3
<1>7. Cards(s)!Shape'
  <2>1. v1' \in [s.tasks -> [turn : 0..s.turns, version : 0..s.changes, dirty : BOOLEAN,
                             message_id : {none} \cup Nat]]
    BY <1>1, <1>3, <1>6
  <2>2. \A u \in s.tasks : v1'[u].version <= v5'
    BY <1>1, <1>3, <1>4, <1>5 DEF Cards!IInv, Cards!Shape
  <2>3. (v4 \cup v7 \cup v8 \cup v9 \subseteq s.tasks)'
    BY <1>1, <1>2 DEF Cards!IInv, Cards!Shape
  <2> QED BY <2>1, <2>2, <2>3, <1>1 DEF Cards!IInv, Cards!Shape, Cards!Flushers
<1>8. Cards(s)!Messages'
  BY <1>1, <1>4, <1>5 DEF Cards!IInv, Cards!Messages, Cards!Known, Cards!Writing, Cards!Flushers
<1>9. \A f \in Cards(s)!Flushers : \A u \in s.tasks :
        (Cards(s)!Has(f, u)' <=> Cards(s)!Has(f, u)) /\ (Cards(s)!Writing(f, u)' <=> Cards(s)!Writing(f, u))
  BY <1>1 DEF Cards!Has, Cards!Writing
<1>10. Cards(s)!OneJob' /\ Cards(s)!OneFlush'
  <2>1. Cards(s)!OneJob'
    BY <1>1 DEF Cards!IInv, Cards!OneJob, Cards!Writing, Cards!Flushers
  <2>2. Cards(s)!OneFlush'
    BY <1>2, <1>9 DEF Cards!IInv, Cards!OneFlush, Cards!Flushers
  <2> QED BY <2>1, <2>2
<1>11. Cards(s)!InDelivery'
  <2> SUFFICES ASSUME NEW u \in s.tasks \ (v7' \cup v8'), NEW f \in Cards(s)!Flushers
               PROVE  /\ Cards(s)!Has(f, u)' => Cards(s)!Exists(u)'
                      /\ \A job \in v2[f].todo :
                          job.task = u /\ ~v1'[u].dirty => job.render = Cards(s)!Content(u)'
                      /\ Cards(s)!Writing(f, u)' /\ v2[f].now.id # none /\ ~v1'[u].dirty =>
                          v3[u][v2[f].now.id] = Cards(s)!Content(u)'
    BY <1>1 DEF Cards!InDelivery, Cards!Flushers
  <2>1. CASE u = t
    <3>1. ~Cards(s)!Has(f, t)
      BY <2>1, <1>2
    <3> QED BY <2>1, <3>1, <1>9 DEF Cards!Has
  <2>2. CASE u # t
    BY <2>2, <1>1, <1>2, <1>4, <1>9 DEF Cards!IInv, Cards!InDelivery, Cards!Exists, Cards!Content
  <2> QED BY <2>1, <2>2
<1>12. Cards(s)!Delivered'
  BY SMTT(40), <1>1, <1>2, <1>4, <1>5, <1>9 DEF Cards!IInv, Cards!Delivered, Cards!Exists, Cards!Content,
        Cards!Current, Cards!Flushers
<1>13. Cards(s)!OneTurn'
  <2> DEFINE Of(u, id) == id # none => v3[u][id][1] = v1'[u].turn
  <2> SUFFICES ASSUME NEW u \in s.tasks \ v9'
               PROVE  /\ Of(u, v1'[u].message_id)
                      /\ \A f \in Cards(s)!Flushers :
                          /\ \A job \in v2[f].todo : job.task = u =>
                              job.render[1] = v1'[u].turn /\ Of(u, job.existing)
                          /\ Cards(s)!Writing(f, u) => Of(u, v2[f].now.id)
    BY <1>1, <1>9 DEF Cards!OneTurn, Cards!Flushers, Cards!OfItsTurn
  <2>1. CASE u = t
    <3>1. \A f \in Cards(s)!Flushers : ~Cards(s)!Has(f, t)
      BY <2>1, <1>2
    <3> QED BY <2>1, <3>1, <1>5 DEF Cards!Has
  <2>2. CASE u # t
    BY <2>2, <1>1, <1>2, <1>4 DEF Cards!IInv, Cards!OneTurn, Cards!OfItsTurn
  <2> QED BY <2>1, <2>2
<1> QED BY <1>7, <1>8, <1>10, <1>11, <1>12, <1>13 DEF Cards!IInv

\* A channel changes nothing that is kept.
LEMMA CardsProvision ==
    ASSUME NEW s \in CardsScopes, Cards(s)!IInv, NEW t \in s.tasks, Cards(s)!Provision(t)
    PROVE  Cards(s)!IInv'
<1>1. v4' = v4 \cup {t} /\ UNCHANGED <<v1, v2, v3, v5, v6, v7, v8, v9>>
  BY DEF Cards!Provision
<1>2. Cards(s)!Shape'
  BY <1>1 DEF Cards!IInv, Cards!Shape, Cards!Flushers
<1>3. Cards(s)!Messages' /\ Cards(s)!OneJob' /\ Cards(s)!OneFlush'
  BY <1>1 DEF Cards!IInv, Cards!Messages, Cards!OneJob, Cards!OneFlush, Cards!Known, Cards!Writing,
              Cards!Has, Cards!Flushers
<1>4. Cards(s)!InDelivery' /\ Cards(s)!Delivered' /\ Cards(s)!OneTurn'
  BY <1>1 DEF Cards!IInv, Cards!InDelivery, Cards!Delivered, Cards!OneTurn, Cards!OfItsTurn,
              Cards!Writing, Cards!Has, Cards!Flushers, Cards!Exists, Cards!Content, Cards!Current
<1> QED BY <1>2, <1>3, <1>4 DEF Cards!IInv

\* A flush takes what is dirty: of an undisturbed digest it is the only one.
LEMMA CardsTake ==
    ASSUME NEW s \in CardsScopes, Cards(s)!IInv, NEW f \in Cards(s)!Flushers, Cards(s)!Take(f)
    PROVE  Cards(s)!IInv'
<1> DEFINE D == {t \in s.tasks : v1[t].version > 0 /\ v1[t].dirty}
           Job(t) == [task |-> t, render |-> <<v1[t].turn, v1[t].version>>,
                      existing |-> v1[t].message_id]
<1> USE DEF Cards!Flushers
<1>1. /\ v2[f].pc = "idle" /\ UNCHANGED <<v3, v4, v5, v6, v9>>
      /\ v2' = [v2 EXCEPT ![f] = [pc |-> "next", now |-> none, todo |-> {Job(t) : t \in D}]]
      /\ v1' = [t \in s.tasks |-> [v1[t] EXCEPT !.dirty = FALSE]]
      /\ v8' = v8 \ D
  BY DEF Cards!Take, Cards!Dirty, Cards!Exists, Cards!Job, Cards!Content
<1>2. v7' = (v7 \ D) \cup {t \in D : \E g \in Cards(s)!Flushers : Cards(s)!Has(g, t)}
  BY TakenIsHas DEF Cards!Take, Cards!Dirty, Cards!Exists
<1>3. /\ s.turns \in Nat /\ s.changes \in Nat /\ none \notin Nat
      /\ v1 \in [s.tasks -> [turn : 0..s.turns, version : 0..s.changes, dirty : BOOLEAN,
                             message_id : {none} \cup Nat]]
      /\ v2 \in [Cards(s)!Flushers ->
                [pc : {"idle", "next", "record"},
                 now : {none} \cup [task : s.tasks, id : {none} \cup Nat],
                 todo : SUBSET [task : s.tasks, render : Nat \X Nat, existing : {none} \cup Nat]]]
  BY CardsTypes
<1>4. \A t \in s.tasks : /\ v1'[t].turn = v1[t].turn /\ v1'[t].version = v1[t].version
                         /\ v1'[t].message_id = v1[t].message_id /\ v1'[t].dirty = FALSE
                         /\ v1'[t] \in [turn : 0..s.turns, version : 0..s.changes, dirty : BOOLEAN,
                                        message_id : {none} \cup Nat]
  <2> SUFFICES ASSUME NEW t \in s.tasks
               PROVE  /\ v1'[t].turn = v1[t].turn /\ v1'[t].version = v1[t].version
                      /\ v1'[t].message_id = v1[t].message_id /\ v1'[t].dirty = FALSE
                      /\ v1'[t] \in [turn : 0..s.turns, version : 0..s.changes, dirty : BOOLEAN,
                                     message_id : {none} \cup Nat]
    OBVIOUS
  <2>1. v1[t] \in [turn : 0..s.turns, version : 0..s.changes, dirty : BOOLEAN,
                   message_id : {none} \cup Nat]
    BY <1>3
  <2>2. v1'[t] = [v1[t] EXCEPT !.dirty = FALSE]
    BY <1>1
  <2> QED BY <2>1, <2>2
<1>5. \A t \in D : Job(t) \in [task : s.tasks, render : Nat \X Nat, existing : {none} \cup Nat]
  BY <1>3
<1>6. /\ v2'[f].pc = "next" /\ v2'[f].now = none /\ v2'[f].todo = {Job(t) : t \in D}
      /\ \A g \in Cards(s)!Flushers : g # f => v2'[g] = v2[g]
  BY <1>1, <1>3
<1>7. v2[f].todo = {} /\ v2[f].now = none
  BY <1>1, CardsTypes DEF Cards!IInv, Cards!Shape
<1>8. /\ \A j \in v2'[f].todo : /\ j.task \in D /\ j.render = <<v1[j.task].turn, v1[j.task].version>>
                               /\ j.existing = v1[j.task].message_id /\ j = Job(j.task)
      /\ D \subseteq s.tasks
  BY <1>6
<1>9. \A t \in s.tasks :
        /\ Cards(s)!Has(f, t)' <=> t \in D
        /\ ~Cards(s)!Has(f, t) /\ ~Cards(s)!Writing(f, t)'
        /\ \A g \in Cards(s)!Flushers \ {f} :
             /\ Cards(s)!Has(g, t)' <=> Cards(s)!Has(g, t)
             /\ Cards(s)!Writing(g, t)' <=> Cards(s)!Writing(g, t)
  <2> SUFFICES ASSUME NEW t \in s.tasks
               PROVE  /\ Cards(s)!Has(f, t)' <=> t \in D
                      /\ ~Cards(s)!Has(f, t) /\ ~Cards(s)!Writing(f, t)'
                      /\ \A g \in Cards(s)!Flushers \ {f} :
                          /\ Cards(s)!Has(g, t)' <=> Cards(s)!Has(g, t)
                          /\ Cards(s)!Writing(g, t)' <=> Cards(s)!Writing(g, t)
    OBVIOUS
  <2>1. t \in D => Job(t) \in v2'[f].todo /\ Job(t).task = t
    BY <1>6
  <2> HIDE DEF D, Job
  <2> QED BY <2>1, <1>6, <1>7, <1>8 DEF Cards!Has, Cards!Writing
<1>10. Cards(s)!Shape'
  <2>1. v1' \in [s.tasks -> [turn : 0..s.turns, version : 0..s.changes, dirty : BOOLEAN,
                             message_id : {none} \cup Nat]]
    BY <1>1, <1>4
  <2>2. \A u \in s.tasks : v1'[u].version <= v5'
    BY <1>1, <1>4 DEF Cards!IInv, Cards!Shape
  <2>3. v2' \in [Cards(s)!Flushers ->
                [pc : {"idle", "next", "record"},
                 now : {none} \cup [task : s.tasks, id : {none} \cup Nat],
                 todo : SUBSET [task : s.tasks, render : Nat \X Nat, existing : {none} \cup Nat]]]
    <3>1. {Job(t) : t \in D} \in SUBSET [task : s.tasks, render : Nat \X Nat, existing : {none} \cup Nat]
      BY <1>5
    <3> DEFINE todo == {Job(t) : t \in D}
    <3> HIDE DEF todo
    <3>2. v2' = [v2 EXCEPT ![f] = [pc |-> "next", now |-> none, todo |-> todo]]
      BY <1>1 DEF todo
    <3>3. todo \in SUBSET [task : s.tasks, render : Nat \X Nat, existing : {none} \cup Nat]
      BY <3>1 DEF todo
    <3> QED BY <3>2, <3>3, <1>3
  <2>4. (v4 \cup v7 \cup v8 \cup v9 \subseteq s.tasks)'
    BY <1>1, <1>2, <1>8 DEF Cards!IInv, Cards!Shape
  <2>5. \A g \in Cards(s)!Flushers : (v2[g].pc = "record" <=> v2[g].now # none)'
                                     /\ (v2[g].pc = "idle" => v2[g].todo = {})'
    BY <1>6 DEF Cards!IInv, Cards!Shape
  <2>6. v3' \in [s.tasks -> Seq(Nat \X Nat)] /\ v5' \in Nat
    BY <1>1 DEF Cards!IInv, Cards!Shape
  <2> QED BY <2>1, <2>2, <2>3, <2>4, <2>5, <2>6 DEF Cards!Shape
<1> HIDE DEF D, Job
<1>11. Cards(s)!Messages'
  <2>1. \A t \in s.tasks : Cards(s)!Known(t, v1'[t].message_id)
    BY <1>4 DEF Cards!IInv, Cards!Messages, Cards!Known
  <2>2. \A g \in Cards(s)!Flushers : \A job \in v2'[g].todo : Cards(s)!Known(job.task, job.existing)
    BY <1>6, <1>8 DEF Cards!IInv, Cards!Messages
  <2>3. \A g \in Cards(s)!Flushers : \A t \in s.tasks :
          Cards(s)!Writing(g, t)' => Cards(s)!Known(t, v2'[g].now.id)
    BY <1>6, <1>9 DEF Cards!IInv, Cards!Messages
  <2> QED BY <2>1, <2>2, <2>3, <1>1 DEF Cards!Messages, Cards!Known
<1>12. Cards(s)!OneJob'
  <2> SUFFICES ASSUME NEW g \in Cards(s)!Flushers
               PROVE  /\ \A i, j \in v2'[g].todo : i.task = j.task => i = j
                      /\ \A j \in v2'[g].todo : ~(v2'[g].now # none /\ v2'[g].now.task = j.task)
    BY DEF Cards!OneJob, Cards!Writing
  <2>1. CASE g = f
    BY <2>1, <1>6, <1>8
  <2>2. CASE g # f
    BY <2>2, <1>6 DEF Cards!IInv, Cards!OneJob, Cards!Writing
  <2> QED BY <2>1, <2>2
<1>13. Cards(s)!OneFlush'
  <2> SUFFICES ASSUME NEW t \in s.tasks \ v7', NEW g \in Cards(s)!Flushers, NEW h \in Cards(s)!Flushers,
                      Cards(s)!Has(g, t)', Cards(s)!Has(h, t)'
               PROVE  g = h
    BY DEF Cards!OneFlush
  <2>1. CASE t \in D
    BY <2>1, <1>2, <1>9
  <2>2. CASE t \notin D
    BY <2>2, <1>2, <1>9 DEF Cards!IInv, Cards!OneFlush
  <2> QED BY <2>1, <2>2
<1>14. Cards(s)!InDelivery'
  <2> SUFFICES ASSUME NEW t \in s.tasks \ (v7' \cup v8'), NEW g \in Cards(s)!Flushers
               PROVE  /\ Cards(s)!Has(g, t)' => v1'[t].version > 0
                      /\ \A job \in v2'[g].todo : job.task = t /\ ~v1'[t].dirty =>
                           job.render = <<v1'[t].turn, v1'[t].version>>
                      /\ Cards(s)!Writing(g, t)' /\ v2'[g].now.id # none /\ ~v1'[t].dirty =>
                          v3'[t][v2'[g].now.id] = <<v1'[t].turn, v1'[t].version>>
    BY DEF Cards!InDelivery, Cards!Exists, Cards!Content
  <2>1. CASE t \in D
    <3>1. ~Cards(s)!Has(g, t)
      BY <2>1, <1>2
    <3>2. v1'[t].version > 0
      BY <2>1, <1>4 DEF D
    <3>3. CASE g = f
      BY <3>2, <3>3, <1>4, <1>8, <1>9
    <3>4. CASE g # f
      BY <3>1, <3>2, <3>4, <1>6, <1>9 DEF Cards!Has
    <3> QED BY <3>3, <3>4
  <2>2. CASE t \notin D
    <3>1. t \notin v7 \cup v8
      BY <2>2, <1>1, <1>2
    <3>2. CASE g = f
      BY <3>2, <2>2, <1>8, <1>9
    <3>3. CASE g # f
      <4>1. Cards(s)!Has(g, t) => v1[t].version > 0
        BY <3>1 DEF Cards!IInv, Cards!InDelivery, Cards!Exists
      <4>2. v1[t].version > 0 => ~v1[t].dirty
        BY <2>2 DEF D
      <4>3. \A job \in v2[g].todo : job.task = t => Cards(s)!Has(g, t)
        BY DEF Cards!Has
      <4>4. Cards(s)!Writing(g, t) => Cards(s)!Has(g, t)
        BY DEF Cards!Has
      <4> QED BY <4>1, <4>2, <4>3, <4>4, <3>1, <3>3, <1>1, <1>4, <1>6, <1>9
              DEF Cards!IInv, Cards!InDelivery, Cards!Content
    <3> QED BY <3>2, <3>3
  <2> QED BY <2>1, <2>2
<1>15. Cards(s)!Delivered'
  <2> SUFFICES ASSUME NEW t \in s.tasks \ (v7' \cup v8'), v1'[t].version > 0,
                      \A g \in Cards(s)!Flushers : ~Cards(s)!Has(g, t)'
               PROVE  v1'[t].message_id # none
                      /\ v3'[t][v1'[t].message_id] = <<v1'[t].turn, v1'[t].version>>
    BY DEF Cards!Delivered, Cards!Exists, Cards!Content, Cards!Current
  <2>1. t \notin D /\ t \notin v7 \cup v8 /\ ~v1[t].dirty
    BY <1>1, <1>2, <1>4, <1>9 DEF D
  <2>2. \A g \in Cards(s)!Flushers : ~Cards(s)!Has(g, t)
    BY <1>9
  <2> QED BY <2>1, <2>2, <1>1, <1>4
          DEF Cards!IInv, Cards!Delivered, Cards!Exists, Cards!Content, Cards!Current
<1>16. Cards(s)!OneTurn'
  <2> DEFINE Of(t, id) == id # none => v3'[t][id][1] = v1'[t].turn
  <2> SUFFICES ASSUME NEW t \in s.tasks \ v9'
               PROVE  /\ Of(t, v1'[t].message_id)
                      /\ \A g \in Cards(s)!Flushers :
                          /\ \A job \in v2'[g].todo : job.task = t =>
                              job.render[1] = v1'[t].turn /\ Of(t, job.existing)
                          /\ Cards(s)!Writing(g, t)' => Of(t, v2'[g].now.id)
    BY DEF Cards!OneTurn, Cards!OfItsTurn
  <2>1. Of(t, v1'[t].message_id)
    BY <1>1, <1>4 DEF Cards!IInv, Cards!OneTurn, Cards!OfItsTurn
  <2>2. ASSUME NEW job \in v2'[f].todo, job.task = t
        PROVE  job.render[1] = v1'[t].turn /\ Of(t, job.existing)
    BY <2>1, <2>2, <1>4, <1>8
  <2>3. ASSUME NEW g \in Cards(s)!Flushers \ {f}
        PROVE  /\ \A job \in v2'[g].todo : job.task = t =>
                              job.render[1] = v1'[t].turn /\ Of(t, job.existing)
               /\ Cards(s)!Writing(g, t)' => Of(t, v2'[g].now.id)
    BY <2>3, <1>1, <1>4, <1>6, <1>9 DEF Cards!IInv, Cards!OneTurn, Cards!OfItsTurn
  <2>4. ~Cards(s)!Writing(f, t)'
    BY <1>9
  <2> QED BY <2>1, <2>2, <2>3, <2>4
<1> QED BY <1>10, <1>11, <1>12, <1>13, <1>14, <1>15, <1>16 DEF Cards!IInv

\* What the messages of a task show after a job of it: all they did, and the
\* message id, where there is one, shows what the job was to show.
Shown(job, id, board) ==
    /\ DOMAIN v3[job.task] \subseteq DOMAIN board
    /\ id # none => id \in DOMAIN board /\ board[id] = job.render
    /\ \A n \in DOMAIN v3[job.task] :
        board[n] = v3[job.task][n] \/ (n = id /\ n = job.existing)

\* What a flush that writes of a job changes: the job is what it writes down
\* next, and the message, if it has one, shows what the job was to show.
LEMMA CardsWrite ==
    ASSUME NEW s \in CardsScopes, Cards(s)!IInv, NEW f \in Cards(s)!Flushers,
           v2[f].pc = "next", NEW job \in v2[f].todo, NEW id \in {none} \cup Nat,
           NEW board \in Seq(Nat \X Nat), Cards(s)!Write(f, job, id, board),
           Shown(job, id, board)
    PROVE  Cards(s)!IInv' /\ Cards(s)!KeepsItsTurn
<1> USE DEF Cards!Flushers
<1> DEFINE t == job.task
<1>1. /\ v3' = [v3 EXCEPT ![t] = board] /\ UNCHANGED <<v1, v4, v5, v7, v8, v9>>
      /\ v2' = [v2 EXCEPT ![f].pc = "record", ![f].todo = @ \ {job},
                          ![f].now = [task |-> t, id |-> id]]
  BY DEF Cards!Write
<1>2. /\ t \in s.tasks /\ job.existing \in {none} \cup Nat /\ job.render \in Nat \X Nat
      /\ [task |-> t, id |-> id] # none
      /\ v2 \in [Cards(s)!Flushers ->
                [pc : {"idle", "next", "record"},
                 now : {none} \cup [task : s.tasks, id : {none} \cup Nat],
                 todo : SUBSET [task : s.tasks, render : Nat \X Nat, existing : {none} \cup Nat]]]
      /\ v3 \in [s.tasks -> Seq(Nat \X Nat)] /\ v2[f].now = none /\ none \notin Nat
  BY CardsTypes
<1>3. /\ v2'[f].pc = "record" /\ v2'[f].todo = v2[f].todo \ {job}
      /\ v2'[f].now = [task |-> t, id |-> id]
      /\ \A g \in Cards(s)!Flushers : g # f => v2'[g] = v2[g]
      /\ v3'[t] = board /\ \A u \in s.tasks : u # t => v3'[u] = v3[u]
  BY <1>1, <1>2
<1> HIDE DEF t
<1>4. /\ v2'[f].now # none /\ v2'[f].now.task = t /\ v2'[f].now.id = id
      /\ \A u \in s.tasks : DOMAIN v3[u] \subseteq DOMAIN v3'[u]
  <2>1. v2'[f].now # none /\ v2'[f].now.task = t /\ v2'[f].now.id = id
    BY <1>2, <1>3 DEF t
  <2>2. \A u \in s.tasks : DOMAIN v3[u] \subseteq DOMAIN v3'[u]
    BY <1>2, <1>3 DEF t, Shown
  <2> QED BY <2>1, <2>2
<1>5. \A u \in s.tasks :
        /\ Cards(s)!Writing(f, u)' <=> u = t
        /\ ~Cards(s)!Writing(f, u)
        /\ Cards(s)!Has(f, u)' <=> Cards(s)!Has(f, u)
        /\ \A g \in Cards(s)!Flushers \ {f} :
             /\ Cards(s)!Has(g, u)' <=> Cards(s)!Has(g, u)
             /\ Cards(s)!Writing(g, u)' <=> Cards(s)!Writing(g, u)
  BY <1>2, <1>3, <1>4 DEF Cards!Has, Cards!Writing, t
<1>6. Cards(s)!Has(f, t)
  BY DEF Cards!Has, t
<1>7. Cards(s)!Shape'
  <2>1. v2' \in [Cards(s)!Flushers ->
                [pc : {"idle", "next", "record"},
                 now : {none} \cup [task : s.tasks, id : {none} \cup Nat],
                 todo : SUBSET [task : s.tasks, render : Nat \X Nat, existing : {none} \cup Nat]]]
    <3>1. v2[f].todo \ {job} \in
            SUBSET [task : s.tasks, render : Nat \X Nat, existing : {none} \cup Nat]
      BY <1>2
    <3>2. [task |-> t, id |-> id] \in [task : s.tasks, id : {none} \cup Nat]
      BY <1>2 DEF t
    <3>3. v2' = [v2 EXCEPT ![f] = v2'[f]]
      BY <1>1, <1>2
    <3>4. v2[f] \in [pc : {"idle", "next", "record"},
                     now : {none} \cup [task : s.tasks, id : {none} \cup Nat],
                     todo : SUBSET [task : s.tasks, render : Nat \X Nat, existing : {none} \cup Nat]]
      BY <1>2
    <3>5. v2'[f] = [v2[f] EXCEPT !.pc = "record", !.todo = @ \ {job},
                                 !.now = [task |-> t, id |-> id]]
      BY <1>1, <1>2
    <3>6. v2'[f] \in [pc : {"idle", "next", "record"},
                      now : {none} \cup [task : s.tasks, id : {none} \cup Nat],
                      todo : SUBSET [task : s.tasks, render : Nat \X Nat, existing : {none} \cup Nat]]
      BY <3>1, <3>2, <3>4, <3>5
    <3> HIDE <3>5
    <3> QED BY <3>3, <3>6, <1>2
  <2>2. v3' \in [s.tasks -> Seq(Nat \X Nat)]
    BY <1>1, <1>2
  <2>3. \A g \in Cards(s)!Flushers : (v2[g].pc = "record" <=> v2[g].now # none)'
                                     /\ (v2[g].pc = "idle" => v2[g].todo = {})'
    <3> SUFFICES ASSUME NEW g \in Cards(s)!Flushers
                 PROVE  /\ v2'[g].pc = "record" <=> v2'[g].now # none
                        /\ v2'[g].pc = "idle" => v2'[g].todo = {}
      OBVIOUS
    <3>1. CASE g = f
      BY <3>1, <1>3, <1>4
    <3>2. CASE g # f
      BY <3>2, <1>3 DEF Cards!IInv, Cards!Shape
    <3> QED BY <3>1, <3>2
  <2> QED BY <2>1, <2>2, <2>3, <1>1 DEF Cards!IInv, Cards!Shape
<1>8. Cards(s)!Messages'
  <2>1. \A u \in s.tasks : Cards(s)!Known(u, v1[u].message_id)
    BY DEF Cards!IInv, Cards!Messages
  <2>2. \A g \in Cards(s)!Flushers : \A j \in v2'[g].todo :
          j.task \in s.tasks /\ Cards(s)!Known(j.task, j.existing)
    BY <1>3, CardsTypes DEF Cards!IInv, Cards!Messages
  <2>3. \A g \in Cards(s)!Flushers \ {f} : \A u \in s.tasks :
          Cards(s)!Writing(g, u)' => Cards(s)!Known(u, v2'[g].now.id)
    BY <1>3, <1>5 DEF Cards!IInv, Cards!Messages
  <2>4. \A u \in s.tasks : Cards(s)!Writing(f, u)' => id = none \/ id \in DOMAIN v3'[u]
    BY <1>3, <1>5 DEF Shown
  <2> QED BY <2>1, <2>2, <2>3, <2>4, <1>1, <1>4 DEF Cards!Messages, Cards!Known
<1>9. Cards(s)!OneJob'
  <2> SUFFICES ASSUME NEW g \in Cards(s)!Flushers
               PROVE  /\ \A i, j \in v2'[g].todo : i.task = j.task => i = j
                      /\ \A j \in v2'[g].todo : ~(v2'[g].now # none /\ v2'[g].now.task = j.task)
    BY DEF Cards!OneJob, Cards!Writing
  <2>1. CASE g = f
    BY <2>1, <1>3, <1>4 DEF Cards!IInv, Cards!OneJob, t
  <2>2. CASE g # f
    BY <2>2, <1>3 DEF Cards!IInv, Cards!OneJob, Cards!Writing
  <2> QED BY <2>1, <2>2
<1>10. Cards(s)!OneFlush'
  BY <1>1, <1>5 DEF Cards!IInv, Cards!OneFlush
<1>11. Cards(s)!InDelivery'
  <2> SUFFICES ASSUME NEW u \in s.tasks \ (v7 \cup v8), NEW g \in Cards(s)!Flushers
               PROVE  /\ Cards(s)!Has(g, u)' => v1'[u].version > 0
                      /\ \A j \in v2'[g].todo : j.task = u /\ ~v1'[u].dirty =>
                           j.render = <<v1'[u].turn, v1'[u].version>>
                      /\ Cards(s)!Writing(g, u)' /\ v2'[g].now.id # none /\ ~v1'[u].dirty =>
                          v3'[u][v2'[g].now.id] = <<v1'[u].turn, v1'[u].version>>
    BY <1>1 DEF Cards!InDelivery, Cards!Exists, Cards!Content
  <2>1. Cards(s)!Has(g, u)' => v1[u].version > 0
    BY <1>5 DEF Cards!IInv, Cards!InDelivery, Cards!Exists
  <2>2. \A j \in v2[g].todo : j.task = u /\ ~v1[u].dirty =>
                           j.render = <<v1[u].turn, v1[u].version>>
    BY DEF Cards!IInv, Cards!InDelivery, Cards!Content
  <2>3. Cards(s)!Writing(g, u)' /\ v2'[g].now.id # none /\ ~v1[u].dirty =>
                          v3'[u][v2'[g].now.id] = <<v1[u].turn, v1[u].version>>
    <3>1. CASE g = f
      <4>1. u = t /\ id # none /\ ~v1[u].dirty => job.render = <<v1[u].turn, v1[u].version>>
        BY <3>1, <2>2 DEF t
      <4>2. id # none => v3'[t][id] = job.render
        BY <1>3 DEF Shown
      <4> QED BY <4>1, <4>2, <3>1, <1>4, <1>5
    <3>2. CASE g # f /\ u = t
      <4>1. ~Cards(s)!Has(g, u)
        BY <3>2, <1>6 DEF Cards!IInv, Cards!OneFlush
      <4> QED BY <4>1, <3>2, <1>5 DEF Cards!Has
    <3>3. CASE g # f /\ u # t
      <4>1. v2'[g] = v2[g] /\ v3'[u] = v3[u] /\ (Cards(s)!Writing(g, u)' <=> Cards(s)!Writing(g, u))
        BY <3>3, <1>3, <1>5
      <4>2. Cards(s)!Writing(g, u) /\ v2[g].now.id # none /\ ~v1[u].dirty =>
              v3[u][v2[g].now.id] = <<v1[u].turn, v1[u].version>>
        BY DEF Cards!IInv, Cards!InDelivery, Cards!Content
      <4> QED BY <4>1, <4>2
    <3> QED BY <3>1, <3>2, <3>3
  <2>4. v2'[g].todo \subseteq v2[g].todo
    BY <1>3
  <2> QED BY <2>1, <2>2, <2>3, <2>4, <1>1
<1>12. Cards(s)!Delivered'
  <2> SUFFICES ASSUME NEW u \in s.tasks \ (v7 \cup v8), v1[u].version > 0, ~v1[u].dirty,
                      \A g \in Cards(s)!Flushers : ~Cards(s)!Has(g, u)
               PROVE  v1[u].message_id # none
                      /\ v3'[u][v1[u].message_id] = <<v1[u].turn, v1[u].version>>
    BY <1>1, <1>5 DEF Cards!Delivered, Cards!Exists, Cards!Content, Cards!Current
  <2>1. u # t
    BY <1>6
  <2> QED BY <2>1, <1>3
          DEF Cards!IInv, Cards!Delivered, Cards!Exists, Cards!Content, Cards!Current
<1>13. job.task \notin v9 => job.render[1] = v1[t].turn
                             /\ (job.existing # none => v3[t][job.existing][1] = v1[t].turn)
  BY <1>2 DEF Cards!IInv, Cards!OneTurn, Cards!OfItsTurn, t
<1>14. \A u \in s.tasks \ v9 : \A n \in DOMAIN v3[u] : v3'[u][n][1] = v3[u][n][1]
  <2> SUFFICES ASSUME NEW u \in s.tasks \ v9, NEW n \in DOMAIN v3[u]
               PROVE  v3'[u][n][1] = v3[u][n][1]
    OBVIOUS
  <2>1. CASE u # t
    BY <2>1, <1>3
  <2>2. CASE u = t
    <3>1. n = id /\ n = job.existing => n # none
      <4>1. none \notin Nat /\ DOMAIN v3[u] \subseteq Nat
        <5>1. v3[u] \in Seq(Nat \X Nat)
          BY <1>2
        <5>2. DOMAIN v3[u] = 1..Len(v3[u])
          BY <5>1, LenProperties
        <5> QED BY <5>1, <5>2, <1>2
      <4> QED BY <4>1
    <3>2. n = id /\ n = job.existing => v3'[u][n] = job.render
      BY <3>1, <2>2, <1>3 DEF t, Shown
    <3> QED BY <3>1, <3>2, <2>2, <1>3, <1>13 DEF t, Shown
  <2> QED BY <2>1, <2>2
<1>15. Cards(s)!OneTurn'
  <2> DEFINE Of(u, i) == i # none => v3'[u][i][1] = v1'[u].turn
  <2> SUFFICES ASSUME NEW u \in s.tasks \ v9'
               PROVE  /\ Of(u, v1'[u].message_id)
                      /\ \A g \in Cards(s)!Flushers :
                          /\ \A j \in v2'[g].todo : j.task = u =>
                              j.render[1] = v1'[u].turn /\ Of(u, j.existing)
                          /\ Cards(s)!Writing(g, u)' => Of(u, v2'[g].now.id)
    BY DEF Cards!OneTurn, Cards!OfItsTurn
  <2>1. \A i : Cards(s)!Known(u, i) /\ Cards(s)!OfItsTurn(u, i) => Of(u, i)
    BY <1>1, <1>14 DEF Cards!Known, Cards!OfItsTurn
  <2>2. Of(u, v1'[u].message_id)
    BY <2>1, <1>1 DEF Cards!IInv, Cards!OneTurn, Cards!Messages
  <2>3. ASSUME NEW g \in Cards(s)!Flushers, NEW j \in v2'[g].todo, j.task = u
        PROVE  j.render[1] = v1'[u].turn /\ Of(u, j.existing)
    <3>1. j \in v2[g].todo
      BY <1>3
    <3>2. Cards(s)!Known(u, j.existing)
      BY <3>1, <2>3 DEF Cards!IInv, Cards!Messages
    <3>3. j.render[1] = v1[u].turn /\ Cards(s)!OfItsTurn(u, j.existing)
      BY <3>1, <2>3, <1>1 DEF Cards!IInv, Cards!OneTurn
    <3> QED BY <3>2, <3>3, <2>1, <1>1
  <2>4. ASSUME NEW g \in Cards(s)!Flushers, Cards(s)!Writing(g, u)' PROVE Of(u, v2'[g].now.id)
    <3>1. CASE g = f
      <4>1. u = t /\ (id # none => v3'[t][id] = job.render)
        BY <3>1, <2>4, <1>3, <1>5 DEF Shown
      <4>2. v1'[u].turn = v1[t].turn /\ t \notin v9
        BY <4>1, <1>1
      <4> QED BY <4>1, <4>2, <3>1, <1>4, <1>13 DEF t
    <3>2. CASE g # f
      <4>1. Cards(s)!Writing(g, u) /\ v2'[g] = v2[g]
        BY <3>2, <2>4, <1>3, <1>5
      <4>2. Cards(s)!Known(u, v2[g].now.id)
        BY <4>1 DEF Cards!IInv, Cards!Messages
      <4>3. Cards(s)!OfItsTurn(u, v2[g].now.id)
        BY <4>1, <1>1 DEF Cards!IInv, Cards!OneTurn
      <4> QED BY <4>1, <4>2, <4>3, <2>1
    <3> QED BY <3>1, <3>2
  <2> QED BY <2>2, <2>3, <2>4
<1>16. Cards(s)!KeepsItsTurn
  BY <1>14 DEF Cards!KeepsItsTurn
<1> QED BY <1>7, <1>8, <1>9, <1>10, <1>11, <1>12, <1>15, <1>16 DEF Cards!IInv

\* An edit shows the job in the message that the digest had when it was taken.
LEMMA CardsEdit ==
    ASSUME NEW s \in CardsScopes, Cards(s)!IInv, NEW f \in Cards(s)!Flushers, Cards(s)!Edit(f)
    PROVE  Cards(s)!IInv' /\ Cards(s)!KeepsItsTurn
<1>1. PICK job \in v2[f].todo :
        /\ v2[f].pc = "next" /\ job.existing # none
        /\ Cards(s)!Write(f, job, job.existing,
                          [v3[job.task] EXCEPT ![job.existing] = job.render])
  BY DEF Cards!Edit
<1>2. /\ job.task \in s.tasks /\ job.existing \in {none} \cup Nat /\ job.render \in Nat \X Nat
      /\ v3[job.task] \in Seq(Nat \X Nat)
  BY CardsTypes
<1>3. job.existing \in DOMAIN v3[job.task]
  BY <1>1 DEF Cards!IInv, Cards!Messages, Cards!Known
<1> DEFINE board == [v3[job.task] EXCEPT ![job.existing] = job.render]
<1>4. board \in Seq(Nat \X Nat)
  BY SMTT(40), <1>2, <1>3, LenProperties, ExceptSeq
<1>5. Shown(job, job.existing, board)
  BY <1>3 DEF Shown
<1> HIDE DEF board
<1> QED BY <1>1, <1>2, <1>4, <1>5, CardsWrite DEF board

\* A message that is posted shows the job, after those that were there.
LEMMA CardsPost ==
    ASSUME NEW s \in CardsScopes, Cards(s)!IInv, NEW f \in Cards(s)!Flushers,
           Cards(s)!Post(f) \/ Cards(s)!PostFails(f)
    PROVE  Cards(s)!IInv' /\ Cards(s)!KeepsItsTurn
<1>1. PICK job \in v2[f].todo :
        /\ v2[f].pc = "next"
        /\ \/ Cards(s)!Write(f, job, Len(v3[job.task]) + 1, Append(v3[job.task], job.render))
           \/ Cards(s)!Write(f, job, none, v3[job.task])
           \/ Cards(s)!Write(f, job, none, Append(v3[job.task], job.render))
  BY DEF Cards!Post, Cards!PostFails
<1>2. /\ job.task \in s.tasks /\ job.render \in Nat \X Nat /\ none \notin Nat
      /\ v3[job.task] \in Seq(Nat \X Nat)
  BY CardsTypes
<1> DEFINE old == v3[job.task]
           n == Len(old) + 1
           board == Append(old, job.render)
<1>3. /\ board \in Seq(Nat \X Nat) /\ n \in Nat /\ DOMAIN board = 1..n /\ DOMAIN old = 1..(n - 1)
      /\ board[n] = job.render /\ \A i \in 1..(n - 1) : board[i] = old[i]
  BY <1>2, AppendProperties, LenProperties
<1> HIDE DEF n, board
<1>4. DOMAIN old \subseteq DOMAIN board /\ n \in DOMAIN board /\ n - 1 \in Nat
  <2>1. n \in Nat /\ n \in 1..n /\ 1..(n - 1) \subseteq 1..n /\ n - 1 \in Nat
    BY <1>2 DEF n
  <2> QED BY <2>1, <1>3
<1>5. Shown(job, n, board) /\ Shown(job, none, board) /\ Shown(job, none, old)
  BY <1>3, <1>4 DEF Shown
<1>6. /\ v2[f].pc = "next" /\ n \in {none} \cup Nat /\ none \in {none} \cup Nat
      /\ \/ Cards(s)!Write(f, job, n, board)
         \/ Cards(s)!Write(f, job, none, old)
         \/ Cards(s)!Write(f, job, none, board)
  BY <1>1, <1>3 DEF n, board
<1> HIDE DEF old
<1>7. old \in Seq(Nat \X Nat)
  BY <1>2 DEF old
<1>8. CASE Cards(s)!Write(f, job, n, board)
  BY <1>3, <1>5, <1>6, <1>8, CardsWrite
<1>9. CASE Cards(s)!Write(f, job, none, old)
  BY <1>5, <1>6, <1>7, <1>9, CardsWrite
<1>10. CASE Cards(s)!Write(f, job, none, board)
  BY <1>3, <1>5, <1>6, <1>10, CardsWrite
<1> QED BY <1>6, <1>8, <1>9, <1>10

\* What a step of a flush that drops jobs of it leaves as it was.
LEMMA CardsFewerJobs ==
    ASSUME NEW s \in CardsScopes, Cards(s)!IInv, NEW f \in Cards(s)!Flushers,
           NEW pc \in {"idle", "next"}, NEW todo \in SUBSET v2[f].todo,
           v2' = [v2 EXCEPT ![f] = [pc |-> pc, todo |-> todo, now |-> none]],
           pc = "idle" => todo = {}
    PROVE  /\ v2' \in [Cards(s)!Flushers ->
                [pc : {"idle", "next", "record"},
                 now : {none} \cup [task : s.tasks, id : {none} \cup Nat],
                 todo : SUBSET [task : s.tasks, render : Nat \X Nat, existing : {none} \cup Nat]]]
           /\ \A g \in Cards(s)!Flushers :
                /\ v2'[g].pc = "record" <=> v2'[g].now # none
                /\ v2'[g].pc = "idle" => v2'[g].todo = {}
                /\ v2'[g].todo \subseteq v2[g].todo
                /\ g # f => v2'[g] = v2[g]
                /\ \A t \in s.tasks : /\ Cards(s)!Writing(g, t)' => g # f /\ Cards(s)!Writing(g, t)
                                      /\ Cards(s)!Has(g, t)' => Cards(s)!Has(g, t)
                                      /\ g # f => (Cards(s)!Has(g, t)' <=> Cards(s)!Has(g, t))
           /\ v2'[f].todo = todo
           /\ Cards(s)!OneJob'
<1>1. /\ v2 \in [Cards(s)!Flushers ->
                [pc : {"idle", "next", "record"},
                 now : {none} \cup [task : s.tasks, id : {none} \cup Nat],
                 todo : SUBSET [task : s.tasks, render : Nat \X Nat, existing : {none} \cup Nat]]]
      /\ \A g \in Cards(s)!Flushers : v2[g].pc = "record" <=> v2[g].now # none
      /\ \A g \in Cards(s)!Flushers : v2[g].pc = "idle" => v2[g].todo = {}
  BY DEF Cards!IInv, Cards!Shape
<1>2. v2[f].todo \in SUBSET [task : s.tasks, render : Nat \X Nat, existing : {none} \cup Nat]
  BY <1>1
<1>3. [pc |-> pc, todo |-> todo, now |-> none] \in [pc : {"idle", "next", "record"},
                 now : {none} \cup [task : s.tasks, id : {none} \cup Nat],
                 todo : SUBSET [task : s.tasks, render : Nat \X Nat, existing : {none} \cup Nat]]
  BY <1>2
<1>4. v2' \in [Cards(s)!Flushers ->
                [pc : {"idle", "next", "record"},
                 now : {none} \cup [task : s.tasks, id : {none} \cup Nat],
                 todo : SUBSET [task : s.tasks, render : Nat \X Nat, existing : {none} \cup Nat]]]
  BY <1>1, <1>3
<1>5. /\ v2'[f].pc = pc /\ v2'[f].todo = todo /\ v2'[f].now = none
      /\ \A g \in Cards(s)!Flushers : g # f => v2'[g] = v2[g]
  BY <1>1
<1>6. ASSUME NEW g \in Cards(s)!Flushers
      PROVE  /\ v2'[g].pc = "record" <=> v2'[g].now # none
             /\ v2'[g].pc = "idle" => v2'[g].todo = {}
             /\ v2'[g].todo \subseteq v2[g].todo
             /\ g # f => v2'[g] = v2[g]
             /\ \A t \in s.tasks : /\ Cards(s)!Writing(g, t)' => g # f /\ Cards(s)!Writing(g, t)
                                   /\ Cards(s)!Has(g, t)' => Cards(s)!Has(g, t)
                                   /\ g # f => (Cards(s)!Has(g, t)' <=> Cards(s)!Has(g, t))
  <2>1. CASE g = f
    BY <2>1, <1>5 DEF Cards!Has, Cards!Writing
  <2>2. CASE g # f
    BY <2>2, <1>1, <1>5 DEF Cards!Has, Cards!Writing
  <2> QED BY <2>1, <2>2
<1>7. Cards(s)!OneJob'
  <2> SUFFICES ASSUME NEW g \in Cards(s)!Flushers
               PROVE  /\ \A i, j \in v2'[g].todo : i.task = j.task => i = j
                      /\ \A j \in v2'[g].todo : ~(v2'[g].now # none /\ v2'[g].now.task = j.task)
    BY DEF Cards!OneJob, Cards!Writing, Cards!Flushers
  <2>1. CASE g = f
    BY <2>1, <1>5 DEF Cards!IInv, Cards!OneJob
  <2>2. CASE g # f
    BY <2>2, <1>5 DEF Cards!IInv, Cards!OneJob, Cards!Writing
  <2> QED BY <2>1, <2>2
<1> QED BY <1>4, <1>5, <1>6, <1>7

\* How a digest may change when a flush drops jobs: it gets dirty, or gets the
\* message that the flush wrote; one that is neither keeps its job, or is lost.
Redrawn(s, f) ==
    /\ v1' \in [s.tasks -> [turn : 0..s.turns, version : 0..s.changes, dirty : BOOLEAN,
                            message_id : {none} \cup Nat]]
    /\ \A u \in s.tasks :
        /\ v1'[u].turn = v1[u].turn /\ v1'[u].version = v1[u].version
        /\ v1[u].dirty => v1'[u].dirty
        /\ \/ v1'[u].message_id = v1[u].message_id
           \/ /\ Cards(s)!Writing(f, u) /\ v2[f].now.id # none
              /\ v1'[u].message_id = v2[f].now.id
    /\ \A u \in s.tasks \ (v7 \cup v8') :
        Cards(s)!Has(f, u) /\ ~Cards(s)!Has(f, u)' /\ v1[u].version > 0 =>
            \/ v1'[u].dirty
            \/ /\ Cards(s)!Writing(f, u) /\ v2[f].now.id # none
               /\ v1'[u].message_id = v2[f].now.id

\* Jobs that are dropped that way leave the invariant.
LEMMA CardsDrop ==
    ASSUME NEW s \in CardsScopes, Cards(s)!IInv, NEW f \in Cards(s)!Flushers,
           NEW pc \in {"idle", "next"}, NEW todo \in SUBSET v2[f].todo,
           v2' = [v2 EXCEPT ![f] = [pc |-> pc, todo |-> todo, now |-> none]],
           pc = "idle" => todo = {}, UNCHANGED <<v3, v4, v5, v7, v9>>,
           v8 \subseteq v8', v8' \subseteq s.tasks, Redrawn(s, f)
    PROVE  Cards(s)!IInv' /\ Cards(s)!KeepsItsTurn
<1>1. /\ v2' \in [Cards(s)!Flushers ->
                [pc : {"idle", "next", "record"},
                 now : {none} \cup [task : s.tasks, id : {none} \cup Nat],
                 todo : SUBSET [task : s.tasks, render : Nat \X Nat, existing : {none} \cup Nat]]]
      /\ \A g \in Cards(s)!Flushers :
                /\ v2'[g].pc = "record" <=> v2'[g].now # none
                /\ v2'[g].pc = "idle" => v2'[g].todo = {}
                /\ v2'[g].todo \subseteq v2[g].todo
                /\ g # f => v2'[g] = v2[g]
                /\ \A t \in s.tasks : /\ Cards(s)!Writing(g, t)' => g # f /\ Cards(s)!Writing(g, t)
                                      /\ Cards(s)!Has(g, t)' => Cards(s)!Has(g, t)
                                      /\ g # f => (Cards(s)!Has(g, t)' <=> Cards(s)!Has(g, t))
      /\ Cards(s)!OneJob'
  BY CardsFewerJobs
<1>2. /\ v1' \in [s.tasks -> [turn : 0..s.turns, version : 0..s.changes, dirty : BOOLEAN,
                              message_id : {none} \cup Nat]]
      /\ \A u \in s.tasks :
          /\ v1'[u].turn = v1[u].turn /\ v1'[u].version = v1[u].version
          /\ v1[u].dirty => v1'[u].dirty
          /\ \/ v1'[u].message_id = v1[u].message_id
             \/ /\ Cards(s)!Writing(f, u) /\ v2[f].now.id # none
                /\ v1'[u].message_id = v2[f].now.id
  BY DEF Redrawn
<1>3. Cards(s)!Shape'
  <2>1. v3' \in [s.tasks -> Seq(Nat \X Nat)] /\ v5' \in Nat
    BY DEF Cards!IInv, Cards!Shape
  <2>2. \A u \in s.tasks : v1'[u].version <= v5'
    BY <1>2 DEF Cards!IInv, Cards!Shape
  <2>3. (v4 \cup v7 \cup v8 \cup v9 \subseteq s.tasks)'
    BY DEF Cards!IInv, Cards!Shape
  <2> QED BY <2>1, <2>2, <2>3, <1>1, <1>2 DEF Cards!Shape, Cards!Flushers
<1>4. Cards(s)!Messages'
  <2>1. \A u \in s.tasks : Cards(s)!Known(u, v1'[u].message_id)
    BY <1>2 DEF Cards!IInv, Cards!Messages
  <2>2. \A g \in Cards(s)!Flushers : \A j \in v2'[g].todo : Cards(s)!Known(j.task, j.existing)
    BY <1>1 DEF Cards!IInv, Cards!Messages
  <2>3. \A g \in Cards(s)!Flushers : \A u \in s.tasks :
          Cards(s)!Writing(g, u)' => Cards(s)!Known(u, v2'[g].now.id)
    BY <1>1 DEF Cards!IInv, Cards!Messages
  <2> QED BY <2>1, <2>2, <2>3 DEF Cards!Messages, Cards!Known, Cards!Flushers
<1>5. Cards(s)!OneFlush'
  BY <1>1 DEF Cards!IInv, Cards!OneFlush, Cards!Flushers
<1>6. Cards(s)!InDelivery'
  <2> SUFFICES ASSUME NEW u \in s.tasks \ (v7' \cup v8'), NEW g \in Cards(s)!Flushers
               PROVE  /\ Cards(s)!Has(g, u)' => v1'[u].version > 0
                      /\ \A j \in v2'[g].todo : j.task = u /\ ~v1'[u].dirty =>
                           j.render = <<v1'[u].turn, v1'[u].version>>
                      /\ Cards(s)!Writing(g, u)' /\ v2'[g].now.id # none /\ ~v1'[u].dirty =>
                          v3'[u][v2'[g].now.id] = <<v1'[u].turn, v1'[u].version>>
    BY DEF Cards!InDelivery, Cards!Exists, Cards!Content, Cards!Flushers
  <2>1. u \in s.tasks \ (v7 \cup v8)
    OBVIOUS
  <2>2. /\ Cards(s)!Has(g, u) => v1[u].version > 0
        /\ \A j \in v2[g].todo : j.task = u /\ ~v1[u].dirty => j.render = <<v1[u].turn, v1[u].version>>
        /\ Cards(s)!Writing(g, u) /\ v2[g].now.id # none /\ ~v1[u].dirty =>
             v3[u][v2[g].now.id] = <<v1[u].turn, v1[u].version>>
    BY <2>1 DEF Cards!IInv, Cards!InDelivery, Cards!Exists, Cards!Content
  <2>3. /\ v1'[u].turn = v1[u].turn /\ v1'[u].version = v1[u].version
        /\ v1[u].dirty => v1'[u].dirty
    BY <1>2
  <2>4. Cards(s)!Writing(g, u)' => v2'[g] = v2[g] /\ Cards(s)!Writing(g, u)
    BY <1>1
  <2>5. v2'[g].todo \subseteq v2[g].todo /\ (Cards(s)!Has(g, u)' => Cards(s)!Has(g, u))
    BY <1>1
  <2> QED BY <2>2, <2>3, <2>4, <2>5
<1>7. Cards(s)!Delivered'
  <2> SUFFICES ASSUME NEW u \in s.tasks \ (v7' \cup v8'), v1'[u].version > 0, ~v1'[u].dirty,
                      \A g \in Cards(s)!Flushers : ~Cards(s)!Has(g, u)'
               PROVE  v1'[u].message_id # none
                      /\ v3'[u][v1'[u].message_id] = <<v1'[u].turn, v1'[u].version>>
    BY DEF Cards!Delivered, Cards!Exists, Cards!Content, Cards!Current, Cards!Flushers
  <2>1. u \in s.tasks \ (v7 \cup v8) /\ v1[u].version > 0 /\ ~v1[u].dirty
    BY <1>2
  <2>2. CASE Cards(s)!Has(f, u)
    <3>1. /\ Cards(s)!Writing(f, u) /\ v2[f].now.id # none
          /\ v1'[u].message_id = v2[f].now.id
      BY <2>1, <2>2 DEF Redrawn
    <3>2. v3[u][v2[f].now.id] = <<v1[u].turn, v1[u].version>>
      BY <3>1, <2>1 DEF Cards!IInv, Cards!InDelivery, Cards!Content
    <3> QED BY <3>1, <3>2, <1>2
  <2>3. CASE ~Cards(s)!Has(f, u)
    <3>1. \A g \in Cards(s)!Flushers : ~Cards(s)!Has(g, u)
      BY <2>3, <1>1
    <3>2. v1'[u].message_id = v1[u].message_id
      BY <2>3, <1>2 DEF Cards!Has
    <3> QED BY <3>1, <3>2, <2>1, <1>2
            DEF Cards!IInv, Cards!Delivered, Cards!Exists, Cards!Content, Cards!Current
  <2> QED BY <2>2, <2>3
<1>8. Cards(s)!OneTurn'
  <2> DEFINE Of(u, i) == i # none => v3'[u][i][1] = v1'[u].turn
  <2> SUFFICES ASSUME NEW u \in s.tasks \ v9'
               PROVE  /\ Of(u, v1'[u].message_id)
                      /\ \A g \in Cards(s)!Flushers :
                          /\ \A j \in v2'[g].todo : j.task = u =>
                              j.render[1] = v1'[u].turn /\ Of(u, j.existing)
                          /\ Cards(s)!Writing(g, u)' => Of(u, v2'[g].now.id)
    BY DEF Cards!OneTurn, Cards!OfItsTurn, Cards!Flushers
  <2>1. Of(u, v1'[u].message_id)
    BY <1>2 DEF Cards!IInv, Cards!OneTurn, Cards!OfItsTurn
  <2>2. ASSUME NEW g \in Cards(s)!Flushers
        PROVE  /\ \A j \in v2'[g].todo : j.task = u =>
                              j.render[1] = v1'[u].turn /\ Of(u, j.existing)
               /\ Cards(s)!Writing(g, u)' => Of(u, v2'[g].now.id)
    BY <1>1, <1>2 DEF Cards!IInv, Cards!OneTurn, Cards!OfItsTurn
  <2> QED BY <2>1, <2>2
<1>9. Cards(s)!KeepsItsTurn
  BY DEF Cards!KeepsItsTurn
<1> QED BY <1>1, <1>3, <1>4, <1>5, <1>6, <1>7, <1>8, <1>9 DEF Cards!IInv

\* Without a channel the job is dropped and the digest is dirty again.
LEMMA CardsSkip ==
    ASSUME NEW s \in CardsScopes, Cards(s)!IInv, NEW f \in Cards(s)!Flushers, Cards(s)!Skip(f)
    PROVE  Cards(s)!IInv' /\ Cards(s)!KeepsItsTurn
<1>1. PICK job \in v2[f].todo :
        /\ v2[f].pc = "next" /\ v2' = [v2 EXCEPT ![f].todo = @ \ {job}]
        /\ v1' = IF v1[job.task].version > 0 THEN [v1 EXCEPT ![job.task].dirty = TRUE] ELSE v1
        /\ UNCHANGED <<v3, v4, v5, v6, v7, v8, v9>>
  BY DEF Cards!Skip, Cards!Exists
<1>2. /\ job.task \in s.tasks /\ v2[f].now = none
      /\ v1 \in [s.tasks -> [turn : 0..s.turns, version : 0..s.changes, dirty : BOOLEAN,
                             message_id : {none} \cup Nat]]
      /\ v2 \in [Cards(s)!Flushers ->
                [pc : {"idle", "next", "record"},
                 now : {none} \cup [task : s.tasks, id : {none} \cup Nat],
                 todo : SUBSET [task : s.tasks, render : Nat \X Nat, existing : {none} \cup Nat]]]
  BY <1>1, CardsTypes
<1>3. v2' = [v2 EXCEPT ![f] = [pc |-> "next", todo |-> v2[f].todo \ {job}, now |-> none]]
  <2>1. v2[f] \in [pc : {"idle", "next", "record"},
                   now : {none} \cup [task : s.tasks, id : {none} \cup Nat],
                   todo : SUBSET [task : s.tasks, render : Nat \X Nat, existing : {none} \cup Nat]]
    BY <1>2
  <2>2. [v2[f] EXCEPT !.todo = @ \ {job}] = [pc |-> "next", todo |-> v2[f].todo \ {job}, now |-> none]
    <3>1. v2[f] = [pc |-> "next", todo |-> v2[f].todo, now |-> none]
      BY <2>1, <1>1, <1>2
    <3> DEFINE todo == v2[f].todo
    <3> HIDE DEF todo
    <3>2. v2[f] = [pc |-> "next", todo |-> todo, now |-> none]
      BY <3>1 DEF todo
    <3>3. [v2[f] EXCEPT !.todo = todo \ {job}] = [pc |-> "next", todo |-> todo \ {job}, now |-> none]
      BY <3>2
    <3> QED BY <3>3 DEF todo
  <2>3. v2' = [v2 EXCEPT ![f] = [v2[f] EXCEPT !.todo = @ \ {job}]]
    BY <1>1
  <2> QED BY <2>2, <2>3
<1>4. v1' \in [s.tasks -> [turn : 0..s.turns, version : 0..s.changes, dirty : BOOLEAN,
                           message_id : {none} \cup Nat]]
  <2> DEFINE t == job.task
  <2>1. /\ v1' = IF v1[t].version > 0 THEN [v1 EXCEPT ![t].dirty = TRUE] ELSE v1
        /\ t \in s.tasks
    BY <1>1, <1>2
  <2> HIDE DEF t
  <2>2. v1 \in [s.tasks -> [turn : 0..s.turns, version : 0..s.changes, dirty : BOOLEAN,
                             message_id : {none} \cup Nat]]
    BY <1>2
  <2> HIDE <1>1, <1>2
  <2> QED BY <2>1, <2>2
<1>5. \A u \in s.tasks : v1'[u].turn = v1[u].turn /\ v1'[u].version = v1[u].version
                         /\ (v1[u].dirty => v1'[u].dirty) /\ v1'[u].message_id = v1[u].message_id
  <2> SUFFICES ASSUME NEW u \in s.tasks
               PROVE  v1'[u].turn = v1[u].turn /\ v1'[u].version = v1[u].version
                      /\ (v1[u].dirty => v1'[u].dirty) /\ v1'[u].message_id = v1[u].message_id
    OBVIOUS
  <2>1. CASE u = job.task
    BY <2>1, <1>1, <1>2
  <2>2. CASE u # job.task
    BY <2>2, <1>1, <1>2
  <2> QED BY <2>1, <2>2
<1>6. v1[job.task].version > 0 => v1'[job.task].dirty
  BY <1>1, <1>2
<1>7. \A u \in s.tasks : Cards(s)!Has(f, u) /\ ~Cards(s)!Has(f, u)' => u = job.task
  <2>1. v2'[f].todo = v2[f].todo \ {job} /\ v2'[f].now = none
    BY <1>2, <1>3
  <2> QED BY <2>1, <1>2 DEF Cards!Has, Cards!Writing
<1>8. Redrawn(s, f)
  BY <1>4, <1>5, <1>6, <1>7 DEF Redrawn
<1>9. v8' \subseteq s.tasks /\ v8 \subseteq v8' /\ v2[f].todo \ {job} \in SUBSET v2[f].todo
      /\ "next" \in {"idle", "next"} /\ "next" # "idle"
  BY <1>1 DEF Cards!IInv, Cards!Shape
<1>10. UNCHANGED <<v3, v4, v5, v7, v9>>
  BY <1>1
<1> HIDE <1>1
<1> QED BY <1>3, <1>8, <1>9, <1>10, CardsDrop

\* A flush whose read fails gives up all its jobs, and their tasks are lost.
LEMMA CardsReadFails ==
    ASSUME NEW s \in CardsScopes, Cards(s)!IInv, NEW f \in Cards(s)!Flushers, Cards(s)!ReadFails(f)
    PROVE  Cards(s)!IInv' /\ Cards(s)!KeepsItsTurn
<1>1. /\ v2[f].pc = "next" /\ v2' = [v2 EXCEPT ![f] = [pc |-> "idle", todo |-> {}, now |-> none]]
      /\ v8' = v8 \cup {job.task : job \in v2[f].todo}
      /\ UNCHANGED <<v1, v3, v4, v5, v7, v9>>
  BY DEF Cards!ReadFails, Cards!Idle
<1>2. v8' \subseteq s.tasks /\ v8 \subseteq v8'
  BY <1>1, CardsTypes DEF Cards!IInv, Cards!Shape
<1>3. \A u \in s.tasks : Cards(s)!Has(f, u) => u \in v8'
  <2>1. v2[f].now = none
    BY <1>1, CardsTypes
  <2> QED BY <2>1, <1>1 DEF Cards!Has, Cards!Writing
<1>4. Redrawn(s, f)
  BY <1>1, <1>3, CardsTypes DEF Redrawn
<1>5. {} \in SUBSET v2[f].todo /\ "idle" \in {"idle", "next"} /\ UNCHANGED <<v3, v4, v5, v7, v9>>
  BY <1>1
<1> QED BY <1>1, <1>2, <1>4, <1>5, CardsDrop

\* What is written down: the digest gets the message, or is dirty again.
LEMMA CardsRecord ==
    ASSUME NEW s \in CardsScopes, Cards(s)!IInv, NEW f \in Cards(s)!Flushers, Cards(s)!Record(f)
    PROVE  Cards(s)!IInv' /\ Cards(s)!KeepsItsTurn
<1> DEFINE t == v2[f].now.task
           id == v2[f].now.id
<1>1. /\ v2[f].pc = "record" /\ v2' = [v2 EXCEPT ![f].pc = "next", ![f].now = none]
      /\ v1' = IF ~(v1[t].version > 0) THEN v1
               ELSE IF id # none THEN [v1 EXCEPT ![t].message_id = id]
               ELSE [v1 EXCEPT ![t].dirty = TRUE]
      /\ UNCHANGED <<v3, v4, v5, v6, v7, v8, v9>>
  BY DEF Cards!Record, Cards!Exists
<1>2. /\ v2[f].now # none /\ t \in s.tasks /\ id \in {none} \cup Nat
      /\ v1 \in [s.tasks -> [turn : 0..s.turns, version : 0..s.changes, dirty : BOOLEAN,
                             message_id : {none} \cup Nat]]
      /\ v2 \in [Cards(s)!Flushers ->
                [pc : {"idle", "next", "record"},
                 now : {none} \cup [task : s.tasks, id : {none} \cup Nat],
                 todo : SUBSET [task : s.tasks, render : Nat \X Nat, existing : {none} \cup Nat]]]
  BY <1>1, CardsTypes
<1>3. v2' = [v2 EXCEPT ![f] = [pc |-> "next", todo |-> v2[f].todo, now |-> none]]
  BY <1>1, <1>2
<1>4. /\ v2'[f].todo = v2[f].todo /\ \A u : Cards(s)!Writing(f, u) <=> u = t
  BY <1>2, <1>3 DEF Cards!Writing
<1>5. \A u \in s.tasks : Cards(s)!Has(f, u) /\ ~Cards(s)!Has(f, u)' => u = t
  BY <1>4 DEF Cards!Has
<1> HIDE DEF t, id
<1>6. v1' \in [s.tasks -> [turn : 0..s.turns, version : 0..s.changes, dirty : BOOLEAN,
                           message_id : {none} \cup Nat]]
  BY <1>1, <1>2
<1>7. \A u \in s.tasks : /\ v1'[u].turn = v1[u].turn /\ v1'[u].version = v1[u].version
                         /\ v1[u].dirty => v1'[u].dirty
                         /\ \/ v1'[u].message_id = v1[u].message_id
                            \/ u = t /\ id # none /\ v1'[u].message_id = id
  <2> SUFFICES ASSUME NEW u \in s.tasks
               PROVE  /\ v1'[u].turn = v1[u].turn /\ v1'[u].version = v1[u].version
                      /\ v1[u].dirty => v1'[u].dirty
                      /\ \/ v1'[u].message_id = v1[u].message_id
                         \/ u = t /\ id # none /\ v1'[u].message_id = id
    OBVIOUS
  <2>1. CASE u = t
    BY <2>1, <1>1, <1>2
  <2>2. CASE u # t
    BY <2>2, <1>1, <1>2
  <2> QED BY <2>1, <2>2
<1>8. v1[t].version > 0 => v1'[t].dirty \/ (id # none /\ v1'[t].message_id = id)
  BY <1>1, <1>2
<1>9. Redrawn(s, f)
  BY <1>4, <1>5, <1>6, <1>7, <1>8 DEF Redrawn, id
<1>10. /\ v8' \subseteq s.tasks /\ v8 \subseteq v8' /\ v2[f].todo \in SUBSET v2[f].todo
       /\ "next" \in {"idle", "next"} /\ "next" # "idle"
  BY <1>1 DEF Cards!IInv, Cards!Shape
<1>11. UNCHANGED <<v3, v4, v5, v7, v9>>
  BY <1>1
<1> HIDE <1>1
<1> QED BY <1>3, <1>9, <1>10, <1>11, CardsDrop

\* A flush that is done has no jobs left.
LEMMA CardsDone ==
    ASSUME NEW s \in CardsScopes, Cards(s)!IInv, NEW f \in Cards(s)!Flushers, Cards(s)!Done(f)
    PROVE  Cards(s)!IInv' /\ Cards(s)!KeepsItsTurn
<1>1. /\ v2[f].pc = "next" /\ v2' = [v2 EXCEPT ![f] = [pc |-> "idle", todo |-> {}, now |-> none]]
      /\ v2[f].todo = {} /\ UNCHANGED <<v1, v3, v4, v5, v7, v8, v9>>
  BY DEF Cards!Done, Cards!Idle
<1>2. \A u : ~Cards(s)!Has(f, u)
  BY <1>1, CardsTypes DEF Cards!Has, Cards!Writing
<1>3. Redrawn(s, f)
  BY <1>1, <1>2, CardsTypes DEF Redrawn
<1>4. {} \in SUBSET v2[f].todo /\ "idle" \in {"idle", "next"} /\ v8 \subseteq v8' /\ v8' \subseteq s.tasks
      /\ UNCHANGED <<v3, v4, v5, v7, v9>>
  BY <1>1 DEF Cards!IInv, Cards!Shape
<1> QED BY <1>1, <1>3, <1>4, CardsDrop

\* The cards start in their invariant,
LEMMA CardsInit ==
    ASSUME NEW s \in CardsScopes, Cards(s)!Init
    PROVE  Cards(s)!IInv
<1>1. /\ v1 = [t \in s.tasks |-> [turn |-> 0, version |-> 0, dirty |-> FALSE, message_id |-> none]]
      /\ v2 = [f \in Cards(s)!Flushers |-> [pc |-> "idle", todo |-> {}, now |-> none]]
      /\ v3 = [t \in s.tasks |-> <<>>] /\ v4 \subseteq s.tasks
      /\ v5 = 0 /\ v7 = {} /\ v8 = {} /\ v9 = {}
  BY DEF Cards!Init, Cards!Fresh, Cards!Idle
<1>2. s.changes \in Nat /\ s.turns \in Nat
  BY CardsAssumption
<1>3. \A t \in s.tasks : /\ v1[t].version = 0 /\ v1[t].message_id = none /\ v1[t].dirty = FALSE
  BY <1>1
<1>4. \A f \in Cards(s)!Flushers : v2[f].now = none /\ v2[f].todo = {} /\ v2[f].pc = "idle"
  BY <1>1
<1>5. Cards(s)!Shape
  <2>1. v1 \in [s.tasks -> [turn : 0..s.turns, version : 0..s.changes, dirty : BOOLEAN,
                            message_id : {none} \cup Nat]]
    BY <1>1, <1>2
  <2>2. v2 \in [Cards(s)!Flushers ->
                [pc : {"idle", "next", "record"},
                 now : {none} \cup [task : s.tasks, id : {none} \cup Nat],
                 todo : SUBSET [task : s.tasks, render : Nat \X Nat, existing : {none} \cup Nat]]]
    BY <1>1
  <2>3. v3 \in [s.tasks -> Seq(Nat \X Nat)]
    BY <1>1
  <2> QED BY <2>1, <2>2, <2>3, <1>1, <1>3, <1>4 DEF Cards!Shape
<1>6. \A f \in Cards(s)!Flushers : \A t : ~Cards(s)!Has(f, t) /\ ~Cards(s)!Writing(f, t)
  BY <1>4 DEF Cards!Has, Cards!Writing
<1>7. Cards(s)!Messages /\ Cards(s)!OneJob /\ Cards(s)!OneFlush
  BY <1>3, <1>4, <1>6 DEF Cards!Messages, Cards!Known, Cards!OneJob, Cards!OneFlush
<1>8. Cards(s)!InDelivery /\ Cards(s)!Delivered /\ Cards(s)!OneTurn
  BY <1>3, <1>4, <1>6 DEF Cards!InDelivery, Cards!Delivered, Cards!Exists, Cards!OneTurn, Cards!OfItsTurn
<1> QED BY <1>5, <1>7, <1>8 DEF Cards!IInv

\* and keep it, and each card its turn.
LEMMA CardsStep ==
    ASSUME NEW s \in CardsScopes, Cards(s)!IInv,
           Cards(s)!Next \/ UNCHANGED <<v1, v2, v3, v4, v5, v6, v7, v8, v9>>
    PROVE  Cards(s)!IInv' /\ Cards(s)!KeepsItsTurn
<1>1. CASE UNCHANGED <<v1, v2, v3, v4, v5, v6, v7, v8, v9>>
  <2>1. Cards(s)!Shape' /\ Cards(s)!Messages' /\ Cards(s)!OneJob' /\ Cards(s)!OneFlush'
    BY <1>1 DEF Cards!IInv, Cards!Shape, Cards!Messages, Cards!OneJob, Cards!OneFlush, Cards!Known,
                Cards!Writing, Cards!Has, Cards!Flushers
  <2>2. Cards(s)!InDelivery' /\ Cards(s)!Delivered' /\ Cards(s)!OneTurn'
    <3>1. Cards(s)!InDelivery'
      BY <1>1 DEF Cards!IInv, Cards!InDelivery, Cards!Writing, Cards!Has, Cards!Flushers,
                  Cards!Exists, Cards!Content
    <3>2. Cards(s)!Delivered'
      BY <1>1 DEF Cards!IInv, Cards!Delivered, Cards!Writing, Cards!Has, Cards!Flushers,
                  Cards!Exists, Cards!Content, Cards!Current
    <3>3. Cards(s)!OneTurn'
      BY <1>1 DEF Cards!IInv, Cards!OneTurn, Cards!OfItsTurn, Cards!Writing, Cards!Flushers
    <3> QED BY <3>1, <3>2, <3>3
  <2>3. Cards(s)!KeepsItsTurn
    BY <1>1 DEF Cards!KeepsItsTurn
  <2> QED BY <2>1, <2>2, <2>3 DEF Cards!IInv
<1>2. CASE \E t \in s.tasks : Cards(s)!Change(t) \/ Cards(s)!TurnStarted(t) \/ Cards(s)!Provision(t)
  <2>1. Cards(s)!IInv'
    BY <1>2, CardsChange, CardsTurn, CardsProvision
  <2>2. v3' = v3
    BY <1>2 DEF Cards!Change, Cards!TurnStarted, Cards!Provision
  <2> QED BY <2>1, <2>2 DEF Cards!KeepsItsTurn
<1>3. CASE \E f \in Cards(s)!Flushers : Cards(s)!Flush(f)
  <2> SUFFICES ASSUME NEW f \in Cards(s)!Flushers, Cards(s)!Flush(f)
               PROVE  Cards(s)!IInv' /\ Cards(s)!KeepsItsTurn
    BY <1>3
  <2>1. CASE Cards(s)!Take(f)
    <3>1. v3' = v3
      BY <2>1 DEF Cards!Take
    <3> QED BY <3>1, <2>1, CardsTake DEF Cards!KeepsItsTurn
  <2> QED BY <2>1, CardsSkip, CardsReadFails, CardsEdit, CardsPost, CardsRecord, CardsDone DEF Cards!Flush
<1> QED BY <1>1, <1>2, <1>3 DEF Cards!Next

\* What the invariant says of the cards that are not due.
LEMMA CardsAreCurrent ==
    ASSUME NEW s \in CardsScopes, Cards(s)!IInv
    PROVE  Cards(s)!CardIsCurrent
<1> SUFFICES ASSUME NEW t \in s.tasks \ (v7 \cup v8), Cards(s)!Exists(t), ~v1[t].dirty,
                    Cards(s)!Taken(t) = {}
             PROVE  Cards(s)!Current(t)
  BY DEF Cards!CardIsCurrent
<1>1. \A f \in Cards(s)!Flushers : ~Cards(s)!Has(f, t)
  BY TakenIsHas
<1> QED BY <1>1 DEF Cards!IInv, Cards!Delivered

\* The states of the cards, in every behaviour.
LEMMA CardsInvariant == Spec => [](\A s \in CardsScopes : Is("cards", s) => Cards(s)!IInv)
<1> DEFINE I == \A s \in CardsScopes : Is("cards", s) => Cards(s)!IInv
<1>1. Init => I
  BY CardsInit DEF Init, Is
<1>2. I /\ [Next]_vars => I'
  <2> SUFFICES ASSUME I, [Next]_vars, NEW s \in CardsScopes, Is("cards", s)'
               PROVE  Cards(s)!IInv'
    OBVIOUS
  <2>1. CASE UNCHANGED vars
    BY <2>1, CardsStep DEF vars, Is
  <2>2. CASE Next
    <3>1. In("cards", s) /\ Cards(s)!Next
      BY <2>2 DEF Next, In, Is
    <3> QED BY <3>1, CardsStep DEF In
  <2> QED BY <2>1, <2>2
<1> QED BY <1>1, <1>2, PTL DEF Spec

\* CardIsCurrent: for any tasks and flushes, a digest that is neither dirty nor
\* being delivered is what its card in Discord shows, but where two flushes met
\* or a failed read dropped it (flush_digests).
THEOREM CardsStayCurrent == Spec => []CardIsCurrent
<1>1. (\A s \in CardsScopes : Is("cards", s) => Cards(s)!IInv) => CardIsCurrent
  BY CardsAreCurrent DEF CardIsCurrent
<1> QED BY <1>1, CardsInvariant, PTL

\* CardKeepsItsTurn: no step of any flush writes another turn over a card, but
\* where a turn started during its delivery (flush_digests, turn/started).
THEOREM CardsKeepTheirTurn == Spec => CardKeepsItsTurn
<1> DEFINE I == \A s \in CardsScopes : Is("cards", s) => Cards(s)!IInv
           K == \A s \in CardsScopes : Is("cards", s) => Cards(s)!KeepsItsTurn
<1>1. I /\ [Next]_vars => K
  <2> SUFFICES ASSUME I, [Next]_vars, NEW s \in CardsScopes, Is("cards", s)
               PROVE  Cards(s)!KeepsItsTurn
    OBVIOUS
  <2>1. CASE UNCHANGED vars
    BY <2>1, CardsStep DEF vars, Is
  <2>2. CASE Next
    <3>1. Cards(s)!Next
      BY <2>2 DEF Next, In, Is
    <3> QED BY <3>1, CardsStep
  <2> QED BY <2>1, <2>2
<1>2. [Next]_vars /\ I => [K]_vars
  BY <1>1
<1> HIDE DEF I, K
<1>3. Spec => []I
  BY CardsInvariant DEF I
<1>4. Spec => [][K]_vars
  BY <1>2, <1>3, PTL DEF Spec
<1> QED BY <1>4 DEF K, CardKeepsItsTurn

-----------------------------------------------------------------------------
(* What runs, and what is shown of it                                       *)

\* An event is of an item: its output, or its completion.
Finals == {"whole", "bare", "huge"}
Final(e, i) == e.item = i /\ e.kind \in Finals

\* The completion of an item is the last of it.
Mentions(q, i) == \E n \in DOMAIN q : q[n].item = i
HasFinal(q, i) == \E n \in DOMAIN q : Final(q[n], i)
Closed(q, i, over) ==
    \A m \in DOMAIN q : q[m].item = i =>
        IF Final(q[m], i) THEN over /\ \A n \in DOMAIN q : q[n].item = i => n <= m
        ELSE over => \E n \in DOMAIN q : m < n /\ Final(q[n], i)

\* The next queue.
LEMMA QueueAppend ==
    ASSUME NEW E, NEW q \in Seq(E), NEW e \in E
    PROVE  /\ Append(q, e) \in Seq(E) /\ Len(q) \in Nat /\ DOMAIN q = 1..Len(q)
           /\ DOMAIN Append(q, e) = 1..(Len(q) + 1) /\ Append(q, e)[Len(q) + 1] = e
           /\ \A n \in 1..Len(q) : Append(q, e)[n] = q[n]
           /\ Len(Append(q, e)) = Len(q) + 1
OBVIOUS

LEMMA QueueTail ==
    ASSUME NEW E, NEW q \in Seq(E), q # <<>>
    PROVE  /\ Tail(q) \in Seq(E) /\ Len(q) \in Nat \ {0} /\ DOMAIN q = 1..Len(q)
           /\ DOMAIN Tail(q) = 1..(Len(q) - 1) /\ Len(Tail(q)) = Len(q) - 1
           /\ \A n \in 1..(Len(q) - 1) : Tail(q)[n] = q[n + 1]
           /\ Head(q) = q[1] /\ Head(q) \in E
<1>1. /\ Tail(q) \in Seq(E) /\ Len(Tail(q)) = Len(q) - 1 /\ Len(q) \in Nat
      /\ \A n \in 1..Len(Tail(q)) : Tail(q)[n] = q[n + 1]
  BY HeadTailProperties
<1>2. Len(q) # 0
  BY EmptySeq
<1>3. DOMAIN q = 1..Len(q) /\ DOMAIN Tail(q) = 1..Len(Tail(q))
  BY <1>1, LenProperties
<1>4. Head(q) = q[1] /\ Head(q) \in E
  BY HeadTailProperties
<1> QED BY <1>1, <1>2, <1>3, <1>4

LEMMA SeqOf ==
    ASSUME NEW E, NEW n \in Nat, NEW f \in [1..n -> E]
    PROVE  f \in Seq(E) /\ Len(f) = n
<1>1. f \in Seq(E)
  BY IsASeq
<1>2. DOMAIN f = 1..n /\ DOMAIN f = 1..Len(f) /\ Len(f) \in Nat
  BY <1>1, LenProperties
<1> QED BY <1>1, <1>2

\* An event enters the queue.
LEMMA AppendMentions ==
    ASSUME NEW E, NEW q \in Seq(E), NEW e \in E, NEW i
    PROVE  /\ Mentions(Append(q, e), i) <=> Mentions(q, i) \/ e.item = i
           /\ HasFinal(Append(q, e), i) <=> HasFinal(q, i) \/ Final(e, i)
<1> DEFINE r == Append(q, e)
           new == Len(q) + 1
<1>1. /\ DOMAIN q = 1..Len(q) /\ DOMAIN r = 1..new /\ Len(q) \in Nat
      /\ \A n \in 1..Len(q) : r[n] = q[n]
      /\ r[new] = e
  BY QueueAppend
<1> HIDE DEF r
<1>2. DOMAIN r = DOMAIN q \cup {new} /\ \A n \in DOMAIN q : r[n] = q[n]
  BY <1>1
<1> HIDE DEF new
<1>3. Mentions(r, i) <=> Mentions(q, i) \/ e.item = i
  BY <1>1, <1>2 DEF Mentions
<1>4. HasFinal(r, i) <=> HasFinal(q, i) \/ Final(e, i)
  BY <1>1, <1>2 DEF HasFinal
<1> QED BY <1>3, <1>4 DEF r

LEMMA AppendClosed ==
    ASSUME NEW E, NEW q \in Seq(E), NEW e \in E, NEW i, NEW over \in BOOLEAN,
           Closed(q, i, over), e.item = i => ~over
    PROVE  Closed(Append(q, e), i, over \/ Final(e, i))
<1> DEFINE r == Append(q, e)
           new == Len(q) + 1
           over1 == over \/ Final(e, i)
<1>1. /\ DOMAIN q = 1..Len(q) /\ DOMAIN r = 1..new /\ Len(q) \in Nat
      /\ \A n \in 1..Len(q) : r[n] = q[n]
      /\ r[new] = e
  BY QueueAppend
<1> HIDE DEF r
<1>2. /\ DOMAIN r = DOMAIN q \cup {new} /\ \A n \in DOMAIN q : r[n] = q[n] /\ n < new
      /\ \A n \in DOMAIN r : n <= new
  BY <1>1
<1> HIDE DEF new
<1> SUFFICES ASSUME NEW m \in DOMAIN r, r[m].item = i
             PROVE  IF Final(r[m], i) THEN over1 /\ \A n \in DOMAIN r : r[n].item = i => n <= m
                    ELSE over1 => \E n \in DOMAIN r : m < n /\ Final(r[n], i)
  BY DEF Closed, r
<1>3. CASE m = new
  BY <1>1, <1>2, <1>3 DEF Final
<1>4. CASE m # new
  <2>1. m \in DOMAIN q /\ r[m] = q[m]
    BY <1>2, <1>4
  <2>2. CASE e.item = i
    <3>1. ~Final(r[m], i)
      BY <2>1, <2>2 DEF Closed
    <3> QED BY <1>1, <1>2, <2>1, <2>2, <3>1
  <2>3. CASE e.item # i
    <3>1. over1 = over /\ r[new].item # i
      BY <1>1, <2>3 DEF Final
    <3>2. IF Final(q[m], i) THEN over /\ \A n \in DOMAIN q : q[n].item = i => n <= m
          ELSE over => \E n \in DOMAIN q : m < n /\ Final(q[n], i)
      BY <2>1 DEF Closed
    <3> QED BY <1>2, <2>1, <3>1, <3>2
  <2> QED BY <2>2, <2>3
<1> QED BY <1>3, <1>4

\* An event leaves the queue.
LEMMA TailClosed ==
    ASSUME NEW E, NEW q \in Seq(E), q # <<>>, NEW i, NEW over
    PROVE  /\ Mentions(q, i) <=> Mentions(Tail(q), i) \/ Head(q).item = i
           /\ HasFinal(q, i) <=> HasFinal(Tail(q), i) \/ Final(Head(q), i)
           /\ Closed(q, i, over) =>
                /\ Closed(Tail(q), i, over)
                /\ Final(Head(q), i) => over /\ ~Mentions(Tail(q), i)
                /\ Head(q).item = i /\ ~Final(Head(q), i) /\ over => HasFinal(Tail(q), i)
<1> DEFINE r == Tail(q)
           e == Head(q)
<1>1. /\ DOMAIN q = 1..Len(q) /\ DOMAIN r = 1..(Len(q) - 1) /\ Len(q) \in Nat \ {0}
      /\ \A n \in 1..(Len(q) - 1) : r[n] = q[n + 1]
      /\ e = q[1]
  BY QueueTail
<1> HIDE DEF r, e
<1>2. \A n \in DOMAIN r : n \in Nat \ {0} /\ n + 1 \in DOMAIN q /\ r[n] = q[n + 1]
  BY <1>1
<1>3. \A n \in DOMAIN q : n = 1 \/ \E k \in DOMAIN r : n = k + 1 /\ r[k] = q[n]
  <2> SUFFICES ASSUME NEW n \in DOMAIN q, n # 1
               PROVE  \E k \in DOMAIN r : n = k + 1 /\ r[k] = q[n]
    OBVIOUS
  <2>1. n - 1 \in DOMAIN r /\ n = (n - 1) + 1
    BY <1>1
  <2> QED BY <1>2, <2>1
<1>4. 1 \in DOMAIN q /\ q[1] = e
  BY <1>1
<1>5. Mentions(q, i) <=> Mentions(r, i) \/ e.item = i
  <2> HIDE <1>1
  <2> QED BY <1>2, <1>3, <1>4 DEF Mentions
<1>6. HasFinal(q, i) <=> HasFinal(r, i) \/ Final(e, i)
  BY <1>2, <1>3, <1>4 DEF HasFinal
<1>7. ASSUME Closed(q, i, over)
      PROVE  /\ Closed(r, i, over)
             /\ Final(e, i) => over /\ ~Mentions(r, i)
             /\ e.item = i /\ ~Final(e, i) /\ over => HasFinal(r, i)
  <2>1. ASSUME NEW m \in DOMAIN r, r[m].item = i
        PROVE  IF Final(r[m], i) THEN over /\ \A n \in DOMAIN r : r[n].item = i => n <= m
               ELSE over => \E n \in DOMAIN r : m < n /\ Final(r[n], i)
    <3>1. m + 1 \in DOMAIN q /\ r[m] = q[m + 1] /\ m \in Nat
      BY <1>2
    <3>2. CASE Final(r[m], i)
      <4>1. over /\ \A n \in DOMAIN q : q[n].item = i => n <= m + 1
        BY <1>7, <2>1, <3>1, <3>2 DEF Closed
      <4>2. ASSUME NEW n \in DOMAIN r, r[n].item = i PROVE n <= m
        <5>1. n \in Nat /\ n + 1 <= m + 1
          BY <1>2, <4>1, <4>2
        <5> QED BY <3>1, <5>1
      <4> QED BY <3>2, <4>1, <4>2
    <3>3. CASE ~Final(r[m], i) /\ over
      <4>1. PICK n \in DOMAIN q : m + 1 < n /\ Final(q[n], i)
        BY <1>7, <2>1, <3>1, <3>3 DEF Closed
      <4>2. n # 1
        BY <3>1, <4>1
      <4>3. PICK k \in DOMAIN r : n = k + 1 /\ r[k] = q[n]
        BY <1>3, <4>2
      <4>4. m < k
        BY <1>2, <3>1, <4>1, <4>3
      <4> QED BY <3>3, <4>1, <4>3, <4>4
    <3> QED BY <3>2, <3>3
  <2>2. ASSUME Final(e, i) PROVE over /\ ~Mentions(r, i)
    <3>1. over /\ \A n \in DOMAIN q : q[n].item = i => n <= 1
      BY <1>4, <1>7, <2>2 DEF Closed, Final
    <3>2. \A n \in DOMAIN r : r[n].item # i
      <4> SUFFICES ASSUME NEW n \in DOMAIN r, r[n].item = i PROVE FALSE
        OBVIOUS
      <4>1. n \in Nat \ {0} /\ n + 1 <= 1
        BY <1>2, <3>1
      <4> QED BY <4>1
    <3> QED BY <3>1, <3>2 DEF Mentions
  <2>3. ASSUME e.item = i, ~Final(e, i), over PROVE HasFinal(r, i)
    <3>1. PICK n \in DOMAIN q : 1 < n /\ Final(q[n], i)
      BY <1>4, <1>7, <2>3 DEF Closed
    <3> QED BY <1>3, <3>1 DEF HasFinal
  <2> QED BY <2>1, <2>2, <2>3 DEF Closed
<1> QED BY <1>5, <1>6, <1>7 DEF r, e

\* Its sets are counted as everywhere.
LEMMA ItemsCounts ==
    ASSUME NEW s \in ItemsScopes, NEW S
    PROVE  /\ Items(s)!Cardinality(S) = Cardinality(S)
           /\ Items(s)!IsFiniteSet(S) <=> IsFiniteSet(S)
BY DEF Cardinality, Items!Cardinality, IsFiniteSet, Items!IsFiniteSet

LEMMA ItemsBounds ==
    ASSUME NEW s \in ItemsScopes
    PROVE  /\ s.queue \in Nat \ {0} /\ s.active \in Nat \ {0} /\ s.recent \in Nat \ {0}
           /\ s.tail \in Nat /\ s.entries \in Nat /\ s.chunks \in Nat
           /\ s.execs \cap s.spawns = {}
           /\ Items(s)!ThreadItems \cap Items(s)!Processes = {}
BY ItemsAssumption DEF Items!ThreadItems, Items!Processes

\* One of a set was touched first.
LEMMA ItemsOldest ==
    ASSUME NEW s \in ItemsScopes, NEW S, S # {}, NEW clock, \A k \in S : clock[k] \in Nat
    PROVE  /\ Items(s)!Oldest(S, clock) \in S
           /\ \A k \in S : clock[Items(s)!Oldest(S, clock)] <= clock[k]
<1>1. PICK ticks : ticks = {clock[k] : k \in S}
  OBVIOUS
<1>2. ticks \subseteq Nat /\ ticks # {}
  BY <1>1
<1>3. PICK x \in ticks : \A y \in ticks : ~(<<y, x>> \in OpToRel(<, Nat))
  <2> HIDE <1>1
  <2> QED BY <1>2, NatLessThanWellFounded, WFMin
<1>4. \A y \in ticks : x <= y
  <2>1. \A y \in Nat : x \in Nat /\ y < x => <<y, x>> \in OpToRel(<, Nat)
    BY DEF OpToRel
  <2>2. \A y \in ticks : ~(y < x)
    BY <1>2, <1>3, <2>1
  <2> HIDE <1>1
  <2> QED BY <1>2, <2>2
<1>5. \E i \in S : \A k \in S : clock[i] <= clock[k]
  BY <1>1, <1>4
<1> QED BY <1>5 DEF Items!Oldest

\* One more in a set.
LEMMA OneMore ==
    ASSUME NEW S, NEW x, IsFiniteSet(S), Cardinality(S) \in Nat
    PROVE  IsFiniteSet(S \cup {x}) /\ Cardinality(S \cup {x}) <= Cardinality(S) + 1
<1>1. /\ IsFiniteSet(S \cup {x})
      /\ Cardinality(S \cup {x}) = Cardinality(S) \/ Cardinality(S \cup {x}) = Cardinality(S) + 1
  BY FS_AddElement
<1> QED BY <1>1

\* A map is within its limits; an entry of it is the newest.
InLimits(s, map, entries) ==
    /\ Cardinality({k \in map \cap DOMAIN entries : entries[k].active = TRUE}) <= s.active
    /\ Cardinality({k \in map \cap DOMAIN entries : entries[k].active = FALSE}) <= s.recent
Newest(i, keys, clock) == \A k \in keys : clock[k] \in Nat /\ (k # i => clock[k] < clock[i])

\* What is pruned of a map with a new entry: the map stays within its limits,
\* and the entry in it.
LEMMA ItemsPruned ==
    ASSUME NEW s \in ItemsScopes, NEW map, NEW old, IsFiniteSet(DOMAIN old), InLimits(s, map, old),
           NEW i, NEW entry, entry.active \in BOOLEAN,
           NEW entries, entries = [k \in DOMAIN old \cup {i} |-> IF k = i THEN entry ELSE old[k]],
           NEW clock, Newest(i, DOMAIN entries, clock),
           NEW kept, kept = DOMAIN entries \ Items(s)!Excess(map, entries, clock)
    PROVE  i \in kept /\ InLimits(s, map, [k \in kept |-> entries[k]])
<1> DEFINE active == Items(s)!Class(map, entries, TRUE)
           recent == Items(s)!Class(map, entries, FALSE)
           runs == {k \in map \cap kept : entries[k].active = TRUE}
           rests == {k \in map \cap kept : entries[k].active = FALSE}
           running == {k \in map \cap DOMAIN old : old[k].active = TRUE}
           resting == {k \in map \cap DOMAIN old : old[k].active = FALSE}
<1>0. /\ DOMAIN entries = DOMAIN old \cup {i} /\ IsFiniteSet(DOMAIN entries)
      /\ \A k \in DOMAIN old \ {i} : entries[k] = old[k]
      /\ \A k \in DOMAIN entries : clock[k] \in Nat /\ (k # i => clock[k] < clock[i])
      /\ running \in SUBSET DOMAIN entries /\ resting \in SUBSET DOMAIN entries
      /\ Cardinality(running) <= s.active /\ Cardinality(resting) <= s.recent
  <2>1. DOMAIN entries = DOMAIN old \cup {i} /\ \A k \in DOMAIN old \ {i} : entries[k] = old[k]
    OBVIOUS
  <2>2. IsFiniteSet(DOMAIN entries)
    BY <2>1, FS_AddElement
  <2>3. Cardinality(running) <= s.active /\ Cardinality(resting) <= s.recent
    BY DEF InLimits
  <2> QED BY <2>1, <2>2, <2>3 DEF Newest
<1>1. /\ s.active \in Nat \ {0} /\ s.recent \in Nat \ {0}
  BY ItemsBounds
<1>2. \A S \in SUBSET DOMAIN entries : IsFiniteSet(S) /\ Cardinality(S) \in Nat
  BY <1>0, FS_Subset, FS_CardinalityType
<1>3. /\ active \in SUBSET DOMAIN entries /\ recent \in SUBSET DOMAIN entries
      /\ running \in SUBSET DOMAIN entries /\ resting \in SUBSET DOMAIN entries
  BY <1>0 DEF Items!Class
<1>4. Items(s)!Excess(map, entries, clock) =
        IF Cardinality(active) > s.active THEN {Items(s)!Oldest(active, clock)}
        ELSE IF Cardinality(recent) > s.recent THEN {Items(s)!Oldest(recent, clock)}
        ELSE {}
  BY ItemsCounts DEF Items!Excess
<1>5. /\ runs = active \ Items(s)!Excess(map, entries, clock)
      /\ rests = recent \ Items(s)!Excess(map, entries, clock)
  BY DEF Items!Class
<1>6. /\ active \cap recent = {}
      /\ i \notin active \/ i \notin recent
      /\ active \subseteq running \cup {i} /\ recent \subseteq resting \cup {i}
  BY <1>0 DEF Items!Class
<1> HIDE DEF active, recent, runs, rests, running, resting
\* A class over its limit loses one that is not the newest.
<1>7. ASSUME NEW S \in SUBSET DOMAIN entries, NEW before \in SUBSET DOMAIN entries, NEW limit \in Nat \ {0},
             S \subseteq before \cup {i}, Cardinality(before) <= limit, Cardinality(S) > limit
      PROVE  /\ Items(s)!Oldest(S, clock) \in S /\ Items(s)!Oldest(S, clock) # i
             /\ Cardinality(S \ {Items(s)!Oldest(S, clock)}) <= limit
  <2>1. IsFiniteSet(S) /\ IsFiniteSet(before) /\ Cardinality(S) \in Nat /\ Cardinality(before) \in Nat
    BY <1>2
  <2>2. Cardinality(S) > 1
    BY <1>7, <2>1
  <2>3. \E k \in S : k # i
    <3> SUFFICES ASSUME S \subseteq {i} PROVE FALSE
      OBVIOUS
    <3>1. IsFiniteSet({i}) /\ Cardinality({i}) = 1
      BY FS_Singleton
    <3>2. Cardinality(S) <= 1
      BY <3>1, FS_Subset
    <3> QED BY <2>1, <2>2, <3>2
  <2>4. PICK o : o = Items(s)!Oldest(S, clock)
    OBVIOUS
  <2>5. o \in S /\ \A k \in S : clock[o] <= clock[k]
    <3>1. \A k \in S : clock[k] \in Nat
      BY <1>0
    <3> QED BY <2>3, <2>4, <3>1, ItemsOldest
  <2>6. o # i
    <3>1. PICK k \in S : k # i
      BY <2>3
    <3>2. clock[k] < clock[i] /\ clock[o] <= clock[k] /\ clock[k] \in Nat /\ clock[i] \in Nat
      BY <1>0, <1>7, <2>5, <3>1
    <3> QED BY <3>2
  <2>7. Cardinality(S \ {o}) = Cardinality(S) - 1
    BY <2>1, <2>5, FS_RemoveElement
  <2>8. Cardinality(S) <= Cardinality(before) + 1
    <3>1. IsFiniteSet(before \cup {i}) /\ Cardinality(before \cup {i}) <= Cardinality(before) + 1
      BY <2>1, OneMore
    <3>2. Cardinality(S) <= Cardinality(before \cup {i})
      BY <1>7, <3>1, FS_Subset
    <3>3. Cardinality(before \cup {i}) \in Nat
      BY <3>1, FS_CardinalityType
    <3> QED BY <2>1, <3>1, <3>2, <3>3
  <2> QED BY <1>7, <2>1, <2>4, <2>5, <2>6, <2>7, <2>8
\* A class that did not gain an entry is within its limit.
<1>8. ASSUME NEW S \in SUBSET DOMAIN entries, NEW T \in SUBSET DOMAIN entries, S \subseteq T
      PROVE  Cardinality(S) <= Cardinality(T)
  BY <1>2, <1>8, FS_Subset
<1>9. \A S \in SUBSET DOMAIN entries : \A o : Cardinality(S \ {o}) <= Cardinality(S)
  <2> SUFFICES ASSUME NEW S \in SUBSET DOMAIN entries, NEW o
               PROVE  Cardinality(S \ {o}) <= Cardinality(S)
    OBVIOUS
  <2>1. S \ {o} \in SUBSET DOMAIN entries
    OBVIOUS
  <2> QED BY <1>8, <2>1
<1>10. Cardinality(active) \in Nat /\ Cardinality(recent) \in Nat
       /\ Cardinality(running) \in Nat /\ Cardinality(resting) \in Nat
  BY <1>2, <1>3
<1> SUFFICES i \in kept /\ Cardinality(runs) <= s.active /\ Cardinality(rests) <= s.recent
  BY DEF InLimits, runs, rests
<1>11. CASE Cardinality(active) > s.active
  <2>1. i \in active
    <3> SUFFICES ASSUME i \notin active PROVE FALSE
      OBVIOUS
    <3>1. active \subseteq running
      BY <1>6
    <3> QED BY <1>0, <1>1, <1>3, <1>8, <1>10, <1>11, <3>1
  <2>2. active \subseteq running \cup {i} /\ recent \subseteq resting
    BY <1>6, <2>1
  <2>3. PICK o : o = Items(s)!Oldest(active, clock)
    OBVIOUS
  <2>4. o \in active /\ o # i /\ Cardinality(active \ {o}) <= s.active
    BY <1>0, <1>1, <1>3, <1>7, <1>11, <2>2, <2>3
  <2>5. Items(s)!Excess(map, entries, clock) = {o}
    BY <1>4, <1>11, <2>3
  <2>6. recent \ {o} = recent /\ Cardinality(recent) <= s.recent
    <3>1. Cardinality(recent) <= Cardinality(resting)
      BY <1>3, <1>8, <2>2
    <3> QED BY <1>0, <1>1, <1>6, <1>10, <2>4, <3>1
  <2> QED BY <1>0, <1>5, <2>1, <2>4, <2>5, <2>6
<1>12. CASE ~(Cardinality(active) > s.active) /\ Cardinality(recent) > s.recent
  <2>1. i \in recent
    <3> SUFFICES ASSUME i \notin recent PROVE FALSE
      OBVIOUS
    <3>1. recent \subseteq resting
      BY <1>6
    <3> QED BY <1>0, <1>1, <1>3, <1>8, <1>10, <1>12, <3>1
  <2>2. recent \subseteq resting \cup {i}
    BY <1>6, <2>1
  <2>3. PICK o : o = Items(s)!Oldest(recent, clock)
    OBVIOUS
  <2>4. o \in recent /\ o # i /\ Cardinality(recent \ {o}) <= s.recent
    BY <1>0, <1>1, <1>3, <1>7, <1>12, <2>2, <2>3
  <2>5. Items(s)!Excess(map, entries, clock) = {o}
    BY <1>4, <1>12, <2>3
  <2>6. active \ {o} = active /\ Cardinality(active) <= s.active
    BY <1>1, <1>6, <1>10, <1>12, <2>4
  <2> QED BY <1>0, <1>5, <2>1, <2>4, <2>5, <2>6
<1>13. CASE ~(Cardinality(active) > s.active) /\ ~(Cardinality(recent) > s.recent)
  <2>1. Items(s)!Excess(map, entries, clock) = {}
    BY <1>4, <1>13
  <2>2. runs = active /\ rests = recent /\ i \in kept
    BY <1>0, <1>5, <2>1
  <2>3. Cardinality(runs) <= s.active /\ Cardinality(rests) <= s.recent
    BY <1>1, <1>10, <1>13, <2>2
  <2> QED BY <2>2, <2>3
<1> QED BY <1>11, <1>12, <1>13

\* A mark more in the summary of an entry of the digest.
LEMMA MarkAdded ==
    ASSUME NEW I, NEW T, NEW B, NEW M,
           NEW r \in [item : I, summary : [tail : T, active : B, done : B, marks : SUBSET M]],
           NEW m \in M, NEW x, x = [r EXCEPT !.summary.marks = @ \cup {m}]
    PROVE  /\ x \in [item : I, summary : [tail : T, active : B, done : B, marks : SUBSET M]]
           /\ x.item = r.item /\ m \in x.summary.marks
<1>1. x = [r EXCEPT !.summary = [r.summary EXCEPT !.marks = r.summary.marks \cup {m}]]
  OBVIOUS
<1>2. r.summary \in [tail : T, active : B, done : B, marks : SUBSET M] /\ r.item \in I
  OBVIOUS
<1>3. PICK R : R = [tail : T, active : B, done : B, marks : SUBSET M]
  OBVIOUS
<1>4. PICK y : y = [r.summary EXCEPT !.marks = r.summary.marks \cup {m}]
  OBVIOUS
<1>5. y \in R /\ m \in y.marks
  <2>1. r.summary.marks \cup {m} \in SUBSET M
    BY <1>2
  <2>2. PICK z \in [tail : T, active : B, done : B, marks : SUBSET M] : z = r.summary
    BY <1>2
  <2>3. PICK marks \in SUBSET M : marks = r.summary.marks \cup {m}
    BY <2>1
  <2>4. y = [z EXCEPT !.marks = marks]
    BY <1>4, <2>2, <2>3
  <2>5. y \in [tail : T, active : B, done : B, marks : SUBSET M] /\ y.marks = marks
    BY <2>4
  <2> QED BY <1>3, <2>3, <2>5
<1>6. x = [r EXCEPT !.summary = y]
  BY <1>1, <1>4
<1>7. r \in [item : I, summary : R]
  BY <1>3
<1>8. x \in [item : I, summary : R] /\ x.item = r.item /\ x.summary = y
  BY <1>5, <1>6, <1>7
<1> QED BY <1>3, <1>5, <1>8

\* What is kept of an item after each of its events.
ItemsPrinted(s, entry, n) ==
    {Items(s)!WithText(entry, n), Items(s)!WithMessage(entry, n),
     Items(s)!Undecoded(entry, TRUE), Items(s)!Undecoded(entry, FALSE)}

LEMMA ItemsTrim ==
    ASSUME NEW s \in ItemsScopes, NEW tail \in Seq(Nat)
    PROVE  Items(s)!Trim(tail) \in {t \in Seq(Nat) : Len(t) <= s.tail}
<1>1. s.tail \in Nat /\ Len(tail) \in Nat
  BY ItemsBounds, LenProperties
<1>2. CASE Len(tail) <= s.tail
  BY <1>2 DEF Items!Trim
<1>3. CASE ~(Len(tail) <= s.tail)
  <2>1. PICK m \in Nat, n \in Nat : m = Len(tail) - s.tail + 1 /\ n = Len(tail)
    BY <1>1, <1>3
  <2>2. m \in 1..(Len(tail) + 1) /\ n \in (m - 1)..Len(tail) /\ n - m + 1 = s.tail
    BY <1>1, <1>3, <2>1
  <2>3. SubSeq(tail, m, n) \in Seq(Nat) /\ Len(SubSeq(tail, m, n)) = s.tail
    <3>1. /\ SubSeq(tail, m, n) \in Seq(Nat)
          /\ Len(SubSeq(tail, m, n)) = IF m <= n THEN n - m + 1 ELSE 0
      BY <2>2, SubSeqProperties
    <3> QED BY <1>1, <2>2, <3>1
  <2>4. Items(s)!Trim(tail) = SubSeq(tail, m, n)
    BY <1>3, <2>1 DEF Items!Trim
  <2> QED BY <1>1, <2>3, <2>4
<1> QED BY <1>2, <1>3

LEMMA ItemsEntries ==
    ASSUME NEW s \in ItemsScopes, NEW entry \in Items(s)!Entry, NEW n \in Nat
    PROVE  /\ entry.active \in BOOLEAN /\ entry.done \in BOOLEAN /\ entry.tail \in Seq(Nat)
           /\ entry.marks \subseteq Items(s)!Marks
           /\ \A kept \in ItemsPrinted(s, entry, n) :
                kept \in Items(s)!Entry /\ kept.active = TRUE /\ kept.done = entry.done
           /\ \A i : \A ending \in Items(s)!Endings :
                LET kept == Items(s)!Completed(i, entry, ending, n)
                IN  kept \in Items(s)!Entry /\ kept.active = FALSE /\ kept.done = TRUE
           /\ LET kept == Items(s)!MarkLagged(entry)
              IN  /\ kept \in Items(s)!Entry /\ kept.active = entry.active
                  /\ kept.done = entry.done
<1> DEFINE T == {t \in Seq(Nat) : Len(t) <= s.tail}
           M == Items(s)!Marks
           R == [tail : T, active : BOOLEAN, done : BOOLEAN, marks : SUBSET M]
<1>1. Items(s)!Entry = R
  BY DEF Items!Entry
<1>2. \A t \in Seq(Nat) : Items(s)!Trim(t) \in T /\ Items(s)!Cut(t) \in SUBSET M
  BY ItemsTrim DEF Items!Cut, Items!Marks
<1>3. T \subseteq Seq(Nat) /\ {"truncated"} \subseteq M /\ {"incomplete"} \subseteq M
      /\ {"lagged"} \subseteq M
  BY DEF Items!Marks
<1>4. Append(entry.tail, n) \in Seq(Nat) /\ [k \in 1..n |-> k] \in Seq(Nat)
  <2>1. entry.tail \in Seq(Nat)
    BY <1>1
  <2>2. Append(entry.tail, n) \in Seq(Nat)
    BY <2>1
  <2>3. [k \in 1..n |-> k] \in Seq(Nat)
    BY IsASeq
  <2> QED BY <2>2, <2>3
<1> HIDE DEF T, M
<1>5. PICK added, all, cut, less :
        /\ added = Items(s)!Trim(Append(entry.tail, n)) /\ all = Items(s)!Trim([k \in 1..n |-> k])
        /\ cut = Items(s)!Cut(Append(entry.tail, n)) /\ less = Items(s)!Cut([k \in 1..n |-> k])
  OBVIOUS
<1>6. added \in T /\ all \in T /\ cut \subseteq M /\ less \subseteq M
  BY <1>2, <1>4, <1>5
<1>7. entry \in R /\ entry.active \in BOOLEAN /\ entry.done \in BOOLEAN /\ entry.tail \in Seq(Nat)
      /\ entry.marks \subseteq M
  BY <1>1, <1>3
<1>9. \A kept \in ItemsPrinted(s, entry, n) :
        kept \in R /\ kept.active = TRUE /\ kept.done = entry.done
  <2>1. PICK text : text = Items(s)!WithText(entry, n)
    OBVIOUS
  <2>2. text = [entry EXCEPT !.active = TRUE, !.tail = added, !.marks = entry.marks \cup cut]
    BY <1>7, <1>5, <2>1 DEF Items!WithText
  <2>3. text \in R /\ text.active = TRUE /\ text.done = entry.done
    <3>1. entry.marks \cup cut \in SUBSET M
      BY <1>6, <1>7
    <3> QED BY <1>6, <1>7, <2>2, <3>1
  <2>4. PICK message : message = Items(s)!WithMessage(entry, n)
    OBVIOUS
  <2>5. message = [entry EXCEPT !.active = TRUE, !.tail = added]
    BY <1>7, <1>5, <2>4 DEF Items!WithMessage
  <2>6. message \in R /\ message.active = TRUE /\ message.done = entry.done
    BY <1>6, <1>7, <2>5
  <2>7. ASSUME NEW large \in BOOLEAN
        PROVE  /\ Items(s)!Undecoded(entry, large) \in R
               /\ Items(s)!Undecoded(entry, large).active = TRUE
               /\ Items(s)!Undecoded(entry, large).done = entry.done
    <3>1. PICK marks \in SUBSET M : marks = entry.marks \cup {"incomplete"}
                                          \cup (IF large THEN {"truncated"} ELSE {})
      BY <1>3, <1>7
    <3>2. PICK kept : kept = Items(s)!Undecoded(entry, large)
      OBVIOUS
    <3>3. kept = [entry EXCEPT !.active = TRUE, !.marks = marks]
      BY <1>7, <3>1, <3>2 DEF Items!Undecoded
    <3>4. kept \in R /\ kept.active = TRUE /\ kept.done = entry.done
      BY <1>7, <3>3
    <3> QED BY <3>2, <3>4
  <2> QED BY <2>1, <2>3, <2>4, <2>6, <2>7 DEF ItemsPrinted
<1>10. ASSUME NEW i, NEW ending \in Items(s)!Endings
       PROVE  LET kept == Items(s)!Completed(i, entry, ending, n)
              IN  kept \in R /\ kept.active = FALSE /\ kept.done = TRUE
  <2>1. PICK kept : kept = Items(s)!Completed(i, entry, ending, n)
    OBVIOUS
  <2>2. PICK base : base = [entry EXCEPT !.active = FALSE, !.done = TRUE]
    OBVIOUS
  <2>3. /\ base \in R /\ base.active = FALSE /\ base.done = TRUE
        /\ base.tail = entry.tail /\ base.marks = entry.marks
    BY <1>7, <2>2
  <2>4. CASE ending = "whole"
    <3>1. PICK marks \in SUBSET M : marks = entry.marks \ {"incomplete", "lagged"}
      BY <1>7
    <3>2. kept = IF i \in s.tools
                 THEN [base EXCEPT !.tail = added, !.marks = marks]
                 ELSE [base EXCEPT !.tail = all, !.marks = less]
      BY <1>7, <1>5, <2>1, <2>2, <2>3, <2>4, <3>1 DEF Items!Completed, Items!Healed
    <3>3. kept \in R /\ kept.active = FALSE /\ kept.done = TRUE
      <4>1. CASE i \in s.tools
        BY <1>6, <2>3, <3>2, <4>1
      <4>2. CASE i \notin s.tools
        BY <1>6, <2>3, <3>2, <4>2
      <4> QED BY <4>1, <4>2
    <3> QED BY <2>1, <3>3
  <2>5. CASE ending = "huge"
    <3>1. PICK marks \in SUBSET M : marks = entry.marks \cup {"incomplete", "truncated"}
      BY <1>3, <1>7
    <3>2. kept = [base EXCEPT !.marks = marks]
      BY <1>7, <2>1, <2>2, <2>3, <2>5, <3>1 DEF Items!Completed
    <3>3. kept \in R /\ kept.active = FALSE /\ kept.done = TRUE
      BY <2>3, <3>2
    <3> QED BY <2>1, <3>3
  <2>6. CASE ending = "bare"
    BY <2>1, <2>2, <2>3, <2>6 DEF Items!Completed
  <2> QED BY <2>4, <2>5, <2>6 DEF Items!Endings
<1>11. LET kept == Items(s)!MarkLagged(entry)
       IN  kept \in R /\ kept.active = entry.active /\ kept.done = entry.done
  <2>1. PICK marks \in SUBSET M : marks = entry.marks \cup {"incomplete", "lagged"}
    BY <1>3, <1>7
  <2>2. PICK kept : kept = Items(s)!MarkLagged(entry)
    OBVIOUS
  <2>3. kept = IF entry.active THEN [entry EXCEPT !.marks = marks] ELSE entry
    BY <1>7, <2>1, <2>2 DEF Items!MarkLagged
  <2>4. kept \in R /\ kept.active = entry.active /\ kept.done = entry.done
    BY <1>7, <2>3
  <2> QED BY <2>2, <2>4
<1>12. /\ entry.active \in BOOLEAN /\ entry.done \in BOOLEAN /\ entry.tail \in Seq(Nat)
       /\ entry.marks \subseteq Items(s)!Marks
  BY <1>7 DEF M
<1> HIDE DEF R
<1> QED BY <1>1, <1>9, <1>10, <1>11, <1>12

LEMMA ItemsCompletes ==
    ASSUME NEW s \in ItemsScopes, NEW entry \in Items(s)!Entry, NEW n \in Nat, NEW i,
           NEW ending \in Items(s)!Endings
    PROVE  LET kept == Items(s)!Completed(i, entry, ending, n)
           IN  kept \in Items(s)!Entry /\ kept.active = FALSE /\ kept.done = TRUE
BY ItemsEntries

\* The projections are typed, and within their limits.
ItemsKept(s) ==
    /\ DOMAIN v5 \subseteq Items(s)!Items /\ IsFiniteSet(DOMAIN v5)
    /\ \A i \in DOMAIN v5 : v5[i] \in Items(s)!Entry
    /\ v6 \in [DOMAIN v5 -> 1..Cardinality(DOMAIN v5)]
    /\ InLimits(s, Items(s)!ThreadItems, v5) /\ InLimits(s, Items(s)!Processes, v5)

LEMMA ItemsStored ==
    ASSUME NEW s \in ItemsScopes, ItemsKept(s), NEW i \in Items(s)!Items,
           NEW entry \in Items(s)!Entry, Items(s)!Store(i, entry)
    PROVE  /\ i \in DOMAIN v5' /\ v5'[i] = entry
           /\ DOMAIN v5' \subseteq DOMAIN v5 \cup {i}
           /\ \A k \in DOMAIN v5' \ {i} : k \in DOMAIN v5 /\ v5'[k] = v5[k]
           /\ ItemsKept(s)'
<1>1. PICK entries : entries = [k \in DOMAIN v5 \cup {i} |-> IF k = i THEN entry ELSE v5[k]]
  OBVIOUS
<1>2. PICK clock : clock = [k \in DOMAIN entries |->
                              IF k = i THEN Cardinality(DOMAIN v5) + 1 ELSE v6[k]]
  OBVIOUS
<1>3. PICK map : map = Items(s)!MapOf(i)
  OBVIOUS
<1>4. PICK kept : kept = DOMAIN entries \ Items(s)!Excess(map, entries, clock)
  OBVIOUS
<1>5. /\ v5' = [k \in kept |-> entries[k]]
      /\ v6' = [k \in kept |-> Cardinality({j \in kept : clock[j] <= clock[k]})]
  <2>1. Items(s)!Put(i, entry) = entries
    BY <1>1 DEF Items!Put, Items!Known
  <2>2. clock = [k \in DOMAIN entries |->
                   IF k = i THEN Items(s)!Cardinality(DOMAIN v5) + 1 ELSE v6[k]]
    BY <1>2, ItemsCounts
  <2>3. /\ v5' = [k \in kept |-> entries[k]]
        /\ v6' = [k \in kept |-> Items(s)!Cardinality({j \in kept : clock[j] <= clock[k]})]
    <3> HIDE <1>1, <1>2
    <3> QED BY <1>3, <1>4, <2>1, <2>2 DEF Items!Store, Items!Known
  <2> QED BY <2>3, ItemsCounts
<1>6. /\ DOMAIN entries = DOMAIN v5 \cup {i} /\ entries[i] = entry
      /\ \A k \in DOMAIN v5 \ {i} : entries[k] = v5[k]
  BY <1>1
<1>7. IsFiniteSet(DOMAIN entries) /\ Cardinality(DOMAIN v5) \in Nat
  BY <1>6, FS_AddElement, FS_CardinalityType DEF ItemsKept
<1>8. /\ clock[i] = Cardinality(DOMAIN v5) + 1
      /\ \A k \in DOMAIN v5 \ {i} : clock[k] = v6[k]
  BY <1>2, <1>6
<1>9. Newest(i, DOMAIN entries, clock)
  <2> SUFFICES ASSUME NEW k \in DOMAIN entries
               PROVE  clock[k] \in Nat /\ (k # i => clock[k] < clock[i])
    BY DEF Newest
  <2>1. CASE k = i
    BY <1>7, <1>8, <2>1
  <2>2. CASE k # i
    <3>1. clock[k] \in 1..Cardinality(DOMAIN v5)
      BY <1>6, <1>8, <2>2 DEF ItemsKept
    <3> QED BY <1>7, <1>8, <3>1
  <2> QED BY <2>1, <2>2
<1>10. /\ map \in {Items(s)!ThreadItems, Items(s)!Processes}
       /\ i \in map
       /\ \A other \in {Items(s)!ThreadItems, Items(s)!Processes} : other # map => i \notin other
  BY <1>3, ItemsBounds DEF Items!MapOf, Items!Items
<1>11. i \in kept /\ InLimits(s, map, [k \in kept |-> entries[k]])
  <2>1. InLimits(s, map, v5) /\ IsFiniteSet(DOMAIN v5)
    BY <1>10 DEF ItemsKept
  <2>2. entry.active \in BOOLEAN
    BY ItemsEntries
  <2> QED BY <1>1, <1>4, <1>9, <2>1, <2>2, ItemsPruned
<1>12. kept \subseteq DOMAIN entries
  BY <1>4
<1>13. /\ DOMAIN v5' = kept /\ \A k \in kept : v5'[k] = entries[k]
  BY <1>5
<1>14. \A k \in kept \ {i} : k \in DOMAIN v5 /\ v5'[k] = v5[k]
  BY <1>6, <1>12, <1>13
<1>15. \A m \in {Items(s)!ThreadItems, Items(s)!Processes} : InLimits(s, m, v5')
  <2> SUFFICES ASSUME NEW m \in {Items(s)!ThreadItems, Items(s)!Processes}, m # map
               PROVE  InLimits(s, m, v5')
    BY <1>5, <1>11
  <2> DEFINE runs == {k \in m \cap DOMAIN v5 : v5[k].active = TRUE}
             rests == {k \in m \cap DOMAIN v5 : v5[k].active = FALSE}
             runs1 == {k \in m \cap DOMAIN v5' : v5'[k].active = TRUE}
             rests1 == {k \in m \cap DOMAIN v5' : v5'[k].active = FALSE}
  <2>1. runs1 \subseteq runs /\ rests1 \subseteq rests
    BY <1>10, <1>13, <1>14
  <2>2. IsFiniteSet(runs) /\ IsFiniteSet(rests)
    <3>1. runs \in SUBSET DOMAIN v5 /\ rests \in SUBSET DOMAIN v5
      OBVIOUS
    <3> HIDE DEF runs, rests
    <3> QED BY <3>1, FS_Subset DEF ItemsKept
  <2>3. Cardinality(runs) <= s.active /\ Cardinality(rests) <= s.recent
    BY DEF ItemsKept, InLimits
  <2>4. Cardinality(runs1) <= s.active /\ Cardinality(rests1) <= s.recent
    <3> HIDE DEF runs, rests, runs1, rests1
    <3>1. /\ Cardinality(runs1) <= Cardinality(runs) /\ Cardinality(runs1) \in Nat
          /\ Cardinality(rests1) <= Cardinality(rests) /\ Cardinality(rests1) \in Nat
          /\ Cardinality(runs) \in Nat /\ Cardinality(rests) \in Nat
      BY <2>1, <2>2, FS_Subset, FS_CardinalityType
    <3> QED BY <2>3, <3>1, ItemsBounds
  <2> QED BY <2>4 DEF InLimits
<1>16. v6' \in [kept -> 1..Cardinality(kept)]
  <2>1. IsFiniteSet(kept) /\ Cardinality(kept) \in Nat
    BY <1>7, <1>12, FS_Subset, FS_CardinalityType
  <2>2. ASSUME NEW k \in kept
        PROVE  Cardinality({j \in kept : clock[j] <= clock[k]}) \in 1..Cardinality(kept)
    <3>1. PICK upto : upto = {j \in kept : clock[j] <= clock[k]}
      OBVIOUS
    <3>2. upto \subseteq kept /\ k \in upto
      BY <1>9, <1>12, <3>1 DEF Newest
    <3>3. IsFiniteSet(upto) /\ Cardinality(upto) <= Cardinality(kept) /\ Cardinality(upto) \in Nat
      BY <2>1, <3>2, FS_Subset, FS_CardinalityType
    <3>4. Cardinality(upto) # 0
      BY <3>2, <3>3, FS_EmptySet
    <3> QED BY <2>1, <3>1, <3>3, <3>4
  <2> QED BY <1>5, <2>2
<1>17. ItemsKept(s)'
  <2>1. kept \subseteq Items(s)!Items /\ IsFiniteSet(kept)
    BY <1>6, <1>7, <1>12, FS_Subset DEF ItemsKept
  <2>2. \A k \in kept : v5'[k] \in Items(s)!Entry
    BY <1>6, <1>12, <1>13 DEF ItemsKept
  <2> QED BY <1>13, <1>15, <1>16, <2>1, <2>2 DEF ItemsKept
<1> QED BY <1>6, <1>11, <1>12, <1>13, <1>14, <1>17

\* What is kept of an item is an entry, if only a fresh one.
LEMMA ItemsFresh ==
    ASSUME NEW s \in ItemsScopes, ItemsKept(s), NEW i
    PROVE  /\ Items(s)!Of(i) \in Items(s)!Entry
           /\ Items(s)!Of(i).done => i \in DOMAIN v5 /\ v5[i].done
<1>1. Items(s)!Fresh \in Items(s)!Entry /\ Items(s)!Fresh.done = FALSE
  <2>1. <<>> \in {t \in Seq(Nat) : Len(t) <= s.tail}
    BY ItemsBounds
  <2> QED BY <2>1 DEF Items!Fresh, Items!Entry
<1> QED BY <1>1 DEF Items!Of, Items!Known, ItemsKept

\* The types, part by part.
ItemsDrawn(s)  == [pc : {"idle", "lagged"}]
                    \cup [pc : {"upsert"}, item : Items(s)!Items, drawn : Items(s)!Entry]
ItemsCaller(s) == [pc : {"idle", "wait", "unbind", "end"}]
                    \cup [pc : {"upsert"}, drawn : Items(s)!Entry]
ItemsSent(s) ==
    /\ v1 \in [Items(s)!Items -> 0..s.chunks] /\ v2 \subseteq Items(s)!Items
    /\ v3 \in Seq(Items(s)!Event) /\ Len(v3) <= s.queue /\ v4 \subseteq Items(s)!Event
ItemsListed(s, list) ==
    /\ list \in Seq([item : Items(s)!Items, summary : Items(s)!Entry])
    /\ Len(list) <= s.entries
    /\ \A m, n \in DOMAIN list : list[m].item = list[n].item => m = n
ItemsAct(s) ==
    /\ v8 \subseteq Items(s)!Processes
    /\ v9 \in ItemsDrawn(s) /\ v10 \in [s.execs -> ItemsCaller(s)]

LEMMA ItemsType ==
    ASSUME NEW s \in ItemsScopes
    PROVE  /\ Items(s)!TypeOK <=> ItemsSent(s) /\ ItemsKept(s) /\ ItemsListed(s, v7) /\ ItemsAct(s)
           /\ Items(s)!TypeOK' <=> /\ ItemsSent(s)' /\ ItemsKept(s)'
                                   /\ ItemsListed(s, v7)' /\ ItemsAct(s)'
<1>1. Items(s)!TypeOK <=> ItemsSent(s) /\ ItemsKept(s) /\ ItemsListed(s, v7) /\ ItemsAct(s)
  <2>1. \A map : InLimits(s, map, v5) <=>
           /\ Items(s)!Cardinality(Items(s)!Class(map, v5, TRUE)) <= s.active
           /\ Items(s)!Cardinality(Items(s)!Class(map, v5, FALSE)) <= s.recent
    <3> SUFFICES ASSUME NEW map
                 PROVE  InLimits(s, map, v5) <=>
                          /\ Items(s)!Cardinality(Items(s)!Class(map, v5, TRUE)) <= s.active
                          /\ Items(s)!Cardinality(Items(s)!Class(map, v5, FALSE)) <= s.recent
      OBVIOUS
    <3>1. /\ Items(s)!Class(map, v5, TRUE) = {k \in map \cap DOMAIN v5 : v5[k].active = TRUE}
          /\ Items(s)!Class(map, v5, FALSE) = {k \in map \cap DOMAIN v5 : v5[k].active = FALSE}
      BY DEF Items!Class
    <3> QED BY <3>1, ItemsCounts DEF InLimits
  <2>2. Items(s)!Cardinality(DOMAIN v5) = Cardinality(DOMAIN v5)
        /\ (Items(s)!IsFiniteSet(DOMAIN v5) <=> IsFiniteSet(DOMAIN v5))
    BY ItemsCounts
  <2> QED BY <2>1, <2>2 DEF Items!TypeOK, ItemsSent, ItemsKept, ItemsListed, ItemsAct, Items!Known,
                        ItemsDrawn, ItemsCaller
<1>2. Items(s)!TypeOK' <=> ItemsSent(s)' /\ ItemsKept(s)' /\ ItemsListed(s, v7)' /\ ItemsAct(s)'
  <2>1. \A map : InLimits(s, map, v5') <=>
           /\ Items(s)!Cardinality(Items(s)!Class(map, v5', TRUE)) <= s.active
           /\ Items(s)!Cardinality(Items(s)!Class(map, v5', FALSE)) <= s.recent
    <3> SUFFICES ASSUME NEW map
                 PROVE  InLimits(s, map, v5') <=>
                          /\ Items(s)!Cardinality(Items(s)!Class(map, v5', TRUE)) <= s.active
                          /\ Items(s)!Cardinality(Items(s)!Class(map, v5', FALSE)) <= s.recent
      OBVIOUS
    <3>1. /\ Items(s)!Class(map, v5', TRUE) = {k \in map \cap DOMAIN v5' : v5'[k].active = TRUE}
          /\ Items(s)!Class(map, v5', FALSE) = {k \in map \cap DOMAIN v5' : v5'[k].active = FALSE}
      BY DEF Items!Class
    <3> QED BY <3>1, ItemsCounts DEF InLimits
  <2>2. Items(s)!Cardinality(DOMAIN v5') = Cardinality(DOMAIN v5')
        /\ (Items(s)!IsFiniteSet(DOMAIN v5') <=> IsFiniteSet(DOMAIN v5'))
    BY ItemsCounts
  <2> QED BY <2>1, <2>2 DEF Items!TypeOK, ItemsSent, ItemsKept, ItemsListed, ItemsAct, Items!Known,
                        ItemsDrawn, ItemsCaller
<1> QED BY <1>1, <1>2

\* The end of an item, item by item.
ItemsEnd(s, i, q, ended, crossed) ==
    IF i \in s.execs THEN Mentions(q, i) => ~HasFinal(q, i) /\ i \notin ended \ crossed
    ELSE Closed(q, i, i \in ended)

LEMMA ItemsEnds ==
    ASSUME NEW s \in ItemsScopes
    PROVE  /\ Items(s)!EndIsLast <=> \A i : ItemsEnd(s, i, v3, v2, v12)
           /\ Items(s)!EndIsLast' <=> \A i : ItemsEnd(s, i, v3', v2', v12')
<1>1. Items(s)!EndIsLast <=> \A i : ItemsEnd(s, i, v3, v2, v12)
  BY DEF Items!EndIsLast, Items!Ends, Items!Endings, ItemsEnd, Mentions, HasFinal, Closed, Final, Finals
<1>2. Items(s)!EndIsLast' <=> \A i : ItemsEnd(s, i, v3', v2', v12')
  BY DEF Items!EndIsLast, Items!Ends, Items!Endings, ItemsEnd, Mentions, HasFinal, Closed, Final, Finals
<1> QED BY <1>1, <1>2

\* The invariant, unfolded: what the consumer has drawn, what is bound, and
\* what is shown again.
ItemsAgain(s, i, q, b, consumer, caller) ==
    \/ b # {} \/ consumer.pc = "lagged" \/ HasFinal(q, i)
    \/ consumer.pc = "upsert" /\ consumer.item = i /\ ~consumer.drawn.active
    \/ i \in s.execs /\ caller[i].pc = "upsert"
ItemsAnswers(s, ended, caller) ==
    \A p \in s.execs : /\ p \in ended <=> caller[p].pc \in {"upsert", "unbind", "end"}
                       /\ caller[p].pc = "upsert" => ~caller[p].drawn.active
ItemsInTime(s, ended, q, b, consumer, crossed) ==
    consumer.pc = "upsert" =>
      LET i == consumer.item
      IN  IF ~consumer.drawn.active THEN i \in ended \ s.execs
          ELSE IF i \in s.execs THEN i \notin ended \ crossed
          ELSE i \in ended => HasFinal(q, i) \/ b # {}
ItemsBoundTill(s, ended, q, kept, bound, consumer) ==
    \A p \in s.spawns :
      LET draws == consumer.pc = "upsert" /\ consumer.item = p
      IN  /\ Mentions(q, p) \/ draws => p \in bound
          /\ (p \in DOMAIN kept /\ kept[p].done) \/ (draws /\ consumer.drawn.done)
                => p \in ended /\ ~Mentions(q, p)
ItemsShown(s, ended, q, b, list, consumer, caller, crossed) ==
    \A n \in DOMAIN list :
      LET i == list[n].item
      IN  i \in ended \ crossed /\ list[n].summary.active /\ "lagged" \notin list[n].summary.marks
            => ItemsAgain(s, i, q, b, consumer, caller)
ItemsInv(s, ended, q, b, kept, list, bound, consumer, caller, crossed) ==
    /\ \A i : ItemsEnd(s, i, q, ended, crossed)
    /\ ItemsAnswers(s, ended, caller) /\ ItemsInTime(s, ended, q, b, consumer, crossed)
    /\ ItemsBoundTill(s, ended, q, kept, bound, consumer)
    /\ ItemsShown(s, ended, q, b, list, consumer, caller, crossed)

LEMMA ItemsUnfold ==
    ASSUME NEW s \in ItemsScopes
    PROVE  /\ Items(s)!ShowInv <=>
                /\ ItemsSent(s) /\ ItemsKept(s) /\ ItemsListed(s, v7) /\ ItemsAct(s)
                /\ ItemsInv(s, v2, v3, v4, v5, v7, v8, v9, v10, v12)
           /\ Items(s)!ShowInv' <=>
                /\ ItemsSent(s)' /\ ItemsKept(s)' /\ ItemsListed(s, v7)' /\ ItemsAct(s)'
                /\ ItemsInv(s, v2', v3', v4', v5', v7', v8', v9', v10', v12')
<1>1. (Items(s)!AnswerEnds /\ Items(s)!DrawnInTime /\ Items(s)!BoundTillShown /\ Items(s)!ShownAgain
         /\ \A i : ItemsEnd(s, i, v3, v2, v12))
        <=> ItemsInv(s, v2, v3, v4, v5, v7, v8, v9, v10, v12)
  BY DEF Items!AnswerEnds, Items!DrawnInTime, Items!BoundTillShown, Items!ShownAgain, Items!Again,
         Items!Ending, Items!Ends, Items!Endings, Items!Known, ItemsInv, ItemsAgain, ItemsAnswers,
         ItemsInTime, ItemsBoundTill, ItemsShown, HasFinal, Mentions, Final, Finals
<1>2. (Items(s)!AnswerEnds' /\ Items(s)!DrawnInTime' /\ Items(s)!BoundTillShown' /\ Items(s)!ShownAgain'
         /\ \A i : ItemsEnd(s, i, v3', v2', v12'))
        <=> ItemsInv(s, v2', v3', v4', v5', v7', v8', v9', v10', v12')
  BY DEF Items!AnswerEnds, Items!DrawnInTime, Items!BoundTillShown, Items!ShownAgain, Items!Again,
         Items!Ending, Items!Ends, Items!Endings, Items!Known, ItemsInv, ItemsAgain, ItemsAnswers,
         ItemsInTime, ItemsBoundTill, ItemsShown, HasFinal, Mentions, Final, Finals
<1> QED BY <1>1, <1>2, ItemsEnds, ItemsType DEF Items!ShowInv

\* An event is sent.
LEMMA ItemsSend ==
    ASSUME NEW s \in ItemsScopes, Items(s)!ShowInv, NEW e \in Items(s)!Event, Items(s)!Send(e),
           e.item \notin v2, e.item \in s.spawns => e.item \in v8,
           v1' \in [Items(s)!Items -> 0..s.chunks],
           IF e.kind \in Finals THEN v2' = v2 \cup {e.item} /\ e.item \notin s.execs ELSE v2' = v2,
           UNCHANGED <<v5, v6, v7, v8, v9, v10, v12>>
    PROVE  Items(s)!ShowInv'
<1> DEFINE i == e.item
           E == Items(s)!Event
<1>1. /\ ItemsSent(s) /\ ItemsKept(s) /\ ItemsListed(s, v7) /\ ItemsAct(s)
      /\ ItemsInv(s, v2, v3, v4, v5, v7, v8, v9, v10, v12)
  BY ItemsUnfold
<1>2. i \in Items(s)!Items /\ v3 \in Seq(E) /\ v4 \subseteq E /\ s.queue \in Nat \ {0}
  BY <1>1, ItemsBounds DEF Items!Event, ItemsSent
\* The queue without its oldest event, if that had to go.
<1>3. PICK q \in Seq(E) : /\ v3' = Append(q, e) /\ v4 \subseteq v4' /\ v4' \subseteq E
                          /\ Len(q) < s.queue
                          /\ q = v3 \/ (v3 # <<>> /\ q = Tail(v3) /\ v4' # {})
  <2>1. CASE Len(v3) < s.queue
    <3>1. v3' = Append(v3, e) /\ v4' = v4
      BY <2>1 DEF Items!Send
    <3> QED BY <1>2, <2>1, <3>1
  <2>2. CASE ~(Len(v3) < s.queue)
    <3>1. v3' = Append(Tail(v3), e) /\ v4' = v4 \cup {Head(v3)}
      BY <2>2 DEF Items!Send
    <3>2. v3 # <<>>
      <4>1. Len(v3) \in Nat
        BY <1>2, LenProperties
      <4> QED BY <1>2, <2>2, <4>1, EmptySeq
    <3>3. Tail(v3) \in Seq(E) /\ Len(Tail(v3)) = Len(v3) - 1 /\ Head(v3) \in E /\ Len(v3) \in Nat
      BY <1>2, <3>2, QueueTail
    <3>4. Len(Tail(v3)) < s.queue
      BY <1>1, <1>2, <3>3 DEF ItemsSent
    <3> QED BY <1>2, <3>1, <3>2, <3>3, <3>4
  <2> QED BY <2>1, <2>2
<1> HIDE DEF E
<1>4. /\ v3' \in Seq(E) /\ Len(v3') <= s.queue /\ e \in E
      /\ \A j : /\ Mentions(v3', j) <=> Mentions(q, j) \/ i = j
                /\ HasFinal(v3', j) <=> HasFinal(q, j) \/ Final(e, j)
                /\ Mentions(q, j) => Mentions(v3, j)
                /\ HasFinal(q, j) => HasFinal(v3, j)
                /\ HasFinal(v3, j) => HasFinal(q, j) \/ v4' # {}
                /\ \A over \in BOOLEAN : Closed(v3, j, over) => Closed(q, j, over)
  <2>1. e \in E
    BY DEF E
  <2>2. v3' \in Seq(E) /\ Len(v3') <= s.queue
    <3>1. Append(q, e) \in Seq(E) /\ Len(Append(q, e)) = Len(q) + 1 /\ Len(q) \in Nat
      BY <2>1, QueueAppend
    <3> QED BY <1>2, <1>3, <3>1
  <2>3. ASSUME NEW j
        PROVE  /\ Mentions(v3', j) <=> Mentions(q, j) \/ i = j
               /\ HasFinal(v3', j) <=> HasFinal(q, j) \/ Final(e, j)
    BY <1>3, <2>1, AppendMentions
  <2>4. ASSUME NEW j
        PROVE  /\ Mentions(q, j) => Mentions(v3, j)
               /\ HasFinal(q, j) => HasFinal(v3, j)
               /\ HasFinal(v3, j) => HasFinal(q, j) \/ v4' # {}
               /\ \A over \in BOOLEAN : Closed(v3, j, over) => Closed(q, j, over)
    <3>1. CASE q = v3
      BY <3>1
    <3>2. CASE v3 # <<>> /\ q = Tail(v3) /\ v4' # {}
      <4>1. /\ Mentions(v3, j) <=> Mentions(Tail(v3), j) \/ Head(v3).item = j
            /\ HasFinal(v3, j) <=> HasFinal(Tail(v3), j) \/ Final(Head(v3), j)
            /\ \A over : Closed(v3, j, over) => Closed(Tail(v3), j, over)
        BY <1>2, <3>2, TailClosed
      <4> QED BY <3>2, <4>1
    <3> QED BY <1>3, <3>1, <3>2
  <2> QED BY <2>1, <2>2, <2>3, <2>4
<1>5. /\ v2 \subseteq v2' /\ \A j : j # i => (j \in v2 <=> j \in v2')
      /\ i \notin v2 /\ (i \in v2' <=> Final(e, i)) /\ (i \in s.execs => ~Final(e, i))
      /\ \A j : j # i => ~Final(e, j)
  BY DEF Final
<1> HIDE DEF i
<1>6. ASSUME NEW j PROVE ItemsEnd(s, j, v3', v2', v12')
  <2>1. ItemsEnd(s, j, v3, v2, v12)
    BY <1>1 DEF ItemsInv
  <2>2. CASE j \in s.execs
    <3>1. ~HasFinal(v3', j)
      <4>1. Mentions(v3, j) => ~HasFinal(v3, j)
        BY <2>1, <2>2 DEF ItemsEnd
      <4>2. HasFinal(q, j) => Mentions(q, j)
        BY DEF HasFinal, Mentions, Final
      <4>3. ~Final(e, j)
        BY <1>5, <2>2
      <4> QED BY <1>4, <4>1, <4>2, <4>3
    <3>2. j \in v2 <=> j \in v2'
      BY <1>5, <2>2
    <3>3. Mentions(v3', j) => j \notin v2 \ v12
      BY <1>4, <1>5, <2>1, <2>2 DEF ItemsEnd
    <3>4. v12' = v12
      OBVIOUS
    <3> QED BY <2>2, <3>1, <3>2, <3>3, <3>4 DEF ItemsEnd
  <2>3. CASE j \notin s.execs
    <3>1. PICK over \in BOOLEAN : over <=> j \in v2
      OBVIOUS
    <3>2. Closed(q, j, over)
      <4>1. (j \in v2) \in BOOLEAN /\ Closed(v3, j, j \in v2)
        BY <2>1, <2>3 DEF ItemsEnd
      <4> QED BY <1>4, <3>1, <4>1 DEF Closed
    <3>3. Closed(v3', j, over \/ Final(e, j))
      BY <1>3, <1>4, <1>5, <3>1, <3>2, AppendClosed DEF i
    <3>4. (over \/ Final(e, j)) <=> j \in v2'
      BY <1>5, <3>1
    <3> QED BY <2>3, <3>3, <3>4 DEF ItemsEnd, Closed
  <2> QED BY <2>2, <2>3
<1>7. ItemsAnswers(s, v2', v10')
  <2>1. \A p \in s.execs : p \in v2 <=> p \in v2'
    BY <1>5
  <2> QED BY <1>1, <2>1 DEF ItemsInv, ItemsAnswers
<1>8. ItemsInTime(s, v2', v3', v4', v9', v12')
  <2>1. \A p \in s.execs : p \in v2 <=> p \in v2'
    BY <1>5
  <2>2. \A j : (j \in v2 => HasFinal(v3, j) \/ v4 # {}) => (j \in v2' => HasFinal(v3', j) \/ v4' # {})
    BY <1>3, <1>4, <1>5
  <2> QED BY <1>1, <1>5, <2>1, <2>2 DEF ItemsInv, ItemsInTime
<1>9. ItemsBoundTill(s, v2', v3', v5', v8', v9')
  <2> SUFFICES ASSUME NEW p \in s.spawns
               PROVE  LET draws == v9.pc = "upsert" /\ v9.item = p
                      IN  /\ Mentions(v3', p) \/ draws => p \in v8
                          /\ (p \in DOMAIN v5 /\ v5[p].done) \/ (draws /\ v9.drawn.done)
                                => p \in v2' /\ ~Mentions(v3', p)
    BY DEF ItemsBoundTill
  <2>1. Mentions(v3', p) => Mentions(v3, p) \/ p = i
    BY <1>4
  <2>2. i \in s.spawns => i \in v8
    BY DEF i
  <2> QED BY <1>1, <1>5, <2>1, <2>2 DEF ItemsInv, ItemsBoundTill
<1>10. ItemsShown(s, v2', v3', v4', v7', v9', v10', v12')
  <2>1. \A j : j \in v2 /\ ItemsAgain(s, j, v3, v4, v9, v10) => ItemsAgain(s, j, v3', v4', v9, v10)
    BY <1>3, <1>4 DEF ItemsAgain
  <2>2. \A j : j \in v2' /\ j \notin v2 => ItemsAgain(s, j, v3', v4', v9, v10)
    BY <1>4, <1>5 DEF ItemsAgain
  <2> QED BY <1>1, <2>1, <2>2 DEF ItemsInv, ItemsShown
<1>11. ItemsSent(s)'
  <2>1. v2' \subseteq Items(s)!Items
    BY <1>1, <1>2 DEF ItemsSent, i
  <2> QED BY <1>3, <1>4, <2>1 DEF ItemsSent, E, Items!Event, Items!Items
<1>12. ItemsKept(s)' /\ ItemsListed(s, v7)' /\ ItemsAct(s)'
  BY <1>1 DEF ItemsKept, ItemsListed, ItemsAct
<1> QED BY <1>6, <1>7, <1>8, <1>9, <1>10, <1>11, <1>12, ItemsUnfold DEF ItemsInv

LEMMA ItemsOutput ==
    ASSUME NEW s \in ItemsScopes, Items(s)!ShowInv, NEW i \in Items(s)!Items,
           NEW chunk \in Items(s)!Chunks(i), Items(s)!Output(i, chunk)
    PROVE  Items(s)!ShowInv'
<1>1. PICK e : e = [item |-> i, kind |-> chunk, n |-> v1[i] + 1]
  OBVIOUS
<1>2. /\ i \notin v2 /\ v1[i] < s.chunks /\ (i \in Items(s)!Processes => i \in v8)
      /\ v1' = [v1 EXCEPT ![i] = @ + 1] /\ Items(s)!Send(e)
      /\ UNCHANGED <<v2, v5, v6, v7, v8, v9, v10, v12>>
  BY <1>1 DEF Items!Output, Items!Relay
<1>3. v1 \in [Items(s)!Items -> 0..s.chunks] /\ s.chunks \in Nat
  BY ItemsUnfold, ItemsBounds DEF ItemsSent
<1>4. chunk \in {"text", "large", "bad"}
  BY DEF Items!Chunks
<1>5. e \in Items(s)!Event /\ e.item = i /\ e.kind \notin Finals
  BY <1>1, <1>3, <1>4 DEF Items!Event, Finals
<1>6. v1' \in [Items(s)!Items -> 0..s.chunks]
  BY <1>2, <1>3
<1>7. i \in s.spawns => i \in v8
  BY <1>2 DEF Items!Processes
<1> QED BY <1>2, <1>5, <1>6, <1>7, ItemsSend

LEMMA ItemsFinish ==
    ASSUME NEW s \in ItemsScopes, Items(s)!ShowInv, NEW i \in Items(s)!Items,
           NEW ending \in Items(s)!Endings, Items(s)!Finish(i, ending)
    PROVE  Items(s)!ShowInv'
<1>1. PICK e : e = [item |-> i, kind |-> ending, n |-> v1[i]]
  OBVIOUS
<1>2. /\ i \notin v2 /\ i \notin s.execs /\ (i \in s.spawns => i \in v8)
      /\ v2' = v2 \cup {i} /\ Items(s)!Send(e)
      /\ UNCHANGED <<v1, v5, v6, v7, v8, v9, v10, v12>>
  BY <1>1 DEF Items!Finish, Items!Relay
<1>3. v1 \in [Items(s)!Items -> 0..s.chunks] /\ s.chunks \in Nat
  BY ItemsUnfold, ItemsBounds DEF ItemsSent
<1>4. e \in Items(s)!Event /\ e.item = i /\ e.kind \in Finals
  BY <1>1, <1>3 DEF Items!Event, Finals, Items!Endings
<1> QED BY <1>2, <1>3, <1>4, ItemsSend

\* An entry of the digest is written: the item is in it once, as it was drawn,
\* or has been dropped; every other entry was there before.
LEMMA ItemsUpsert ==
    ASSUME NEW s \in ItemsScopes, ItemsListed(s, v7), NEW i \in Items(s)!Items,
           NEW summary \in Items(s)!Entry, Items(s)!Upsert(i, summary)
    PROVE  /\ ItemsListed(s, v7')
           /\ \A n \in DOMAIN v7' : IF v7'[n].item = i THEN v7'[n].summary = summary
                                    ELSE \E m \in DOMAIN v7 : v7'[n] = v7[m]
<1>1. PICK entry : entry = [item |-> i, summary |-> summary]
  OBVIOUS
<1>2. PICK E : E = [item : Items(s)!Items, summary : Items(s)!Entry]
  OBVIOUS
<1>3. /\ entry \in E /\ entry.item = i /\ entry.summary = summary
      /\ v7 \in Seq(E) /\ Len(v7) <= s.entries /\ s.entries \in Nat
      /\ \A m, n \in DOMAIN v7 : v7[m].item = v7[n].item => m = n
  BY <1>1, <1>2, ItemsBounds DEF ItemsListed
<1>4. /\ Len(v7) \in Nat /\ DOMAIN v7 = 1..Len(v7)
      /\ \A n \in DOMAIN v7 : v7[n] \in E
  BY <1>3, LenProperties, ElementOfSeq
<1>5. CASE \E n \in DOMAIN v7 : v7[n].item = i
  <2>1. v7' = [n \in DOMAIN v7 |-> IF v7[n].item = i THEN entry ELSE v7[n]]
    <3>1. {n \in DOMAIN v7 : v7[n].item = i} # {}
      BY <1>5
    <3>2. v7' = [n \in DOMAIN v7 |-> IF n \in {m \in DOMAIN v7 : v7[m].item = i} THEN entry ELSE v7[n]]
      BY <1>1, <3>1 DEF Items!Upsert
    <3> QED BY <3>2
  <2>2. /\ DOMAIN v7' = DOMAIN v7
        /\ \A n \in DOMAIN v7 : v7'[n] = IF v7[n].item = i THEN entry ELSE v7[n]
    BY <2>1
  <2>3. v7' \in Seq(E) /\ Len(v7') = Len(v7)
    <3>1. v7' \in [1..Len(v7) -> E]
      BY <1>3, <1>4, <2>1
    <3> QED BY <1>4, <3>1, IsASeq, LenProperties
  <2>4. \A n \in DOMAIN v7' : v7'[n].item = v7[n].item
    BY <1>3, <2>2
  <2>5. \A m, n \in DOMAIN v7' : v7'[m].item = v7'[n].item => m = n
    BY <1>3, <2>2, <2>4
  <2> QED BY <1>2, <1>3, <2>2, <2>3, <2>5 DEF ItemsListed
<1>6. CASE ~(\E n \in DOMAIN v7 : v7[n].item = i)
  <2> DEFINE new == Len(v7) + 1
  <2>1. PICK added : added = Append(v7, entry)
    OBVIOUS
  <2>2. v7' = IF Len(added) > s.entries THEN Tail(added) ELSE added
    <3>1. {n \in DOMAIN v7 : v7[n].item = i} = {}
      BY <1>6
    <3> QED BY <1>1, <2>1, <3>1 DEF Items!Upsert
  <2>3. /\ added \in Seq(E) /\ DOMAIN added = 1..new /\ added[new] = entry
        /\ Len(added) = new /\ \A n \in 1..Len(v7) : added[n] = v7[n]
    BY <1>3, <2>1, QueueAppend
  <2>4. \A m, n \in DOMAIN added : added[m].item = added[n].item => m = n
    <3> SUFFICES ASSUME NEW m \in 1..new, NEW n \in 1..new, added[m].item = added[n].item
                 PROVE  m = n
      BY <2>3
    <3>1. \A k \in 1..new : k = new \/ (k \in DOMAIN v7 /\ added[k] = v7[k])
      BY <1>4, <2>3
    <3> HIDE DEF new
    <3>2. \A k \in DOMAIN v7 : v7[k].item # i
      BY <1>6
    <3> QED BY <1>3, <2>3, <3>1, <3>2
  <2>5. \A n \in DOMAIN added : IF added[n].item = i THEN added[n].summary = summary
                                ELSE \E m \in DOMAIN v7 : added[n] = v7[m]
    <3>1. \A k \in DOMAIN added : added[k] = entry \/ (k \in DOMAIN v7 /\ added[k] = v7[k])
      BY <1>4, <2>3
    <3>2. \A k \in DOMAIN v7 : v7[k].item # i
      BY <1>6
    <3> QED BY <1>3, <3>1, <3>2
  <2>6. CASE ~(Len(added) > s.entries)
    <3>1. v7' = added /\ Len(added) <= s.entries
      BY <1>3, <1>4, <2>2, <2>3, <2>6
    <3> QED BY <1>2, <2>3, <2>4, <2>5, <3>1 DEF ItemsListed
  <2>7. CASE Len(added) > s.entries
    <3>1. added # <<>>
      BY <1>4, <2>3, EmptySeq
    <3>2. /\ v7' = Tail(added) /\ v7' \in Seq(E) /\ Len(v7') = Len(v7) /\ DOMAIN v7' = 1..Len(v7)
          /\ \A n \in 1..Len(v7) : v7'[n] = added[n + 1]
      <4>1. /\ Tail(added) \in Seq(E) /\ DOMAIN Tail(added) = 1..(Len(added) - 1)
            /\ Len(Tail(added)) = Len(added) - 1
            /\ \A n \in 1..(Len(added) - 1) : Tail(added)[n] = added[n + 1]
        BY <2>3, <3>1, QueueTail
      <4>2. Len(added) - 1 = Len(v7)
        BY <1>4, <2>3
      <4> QED BY <2>2, <2>7, <4>1, <4>2
    <3>3. \A n \in 1..Len(v7) : n + 1 \in DOMAIN added /\ n \in Int
      BY <1>4, <2>3
    <3>4. \A m, n \in DOMAIN v7' : v7'[m].item = v7'[n].item => m = n
      <4> SUFFICES ASSUME NEW m \in 1..Len(v7), NEW n \in 1..Len(v7), v7'[m].item = v7'[n].item
                   PROVE  m = n
        BY <3>2
      <4>1. m + 1 = n + 1
        BY <2>4, <3>2, <3>3
      <4> QED BY <3>3, <4>1
    <3>5. \A n \in DOMAIN v7' : IF v7'[n].item = i THEN v7'[n].summary = summary
                                ELSE \E m \in DOMAIN v7 : v7'[n] = v7[m]
      BY <2>5, <3>2, <3>3
    <3> QED BY <1>2, <1>3, <3>2, <3>4, <3>5 DEF ItemsListed
  <2> QED BY <2>6, <2>7
<1> QED BY <1>5, <1>6

\* A process is started: it is bound, and none of what is shown has ended of it.
LEMMA ItemsStart ==
    ASSUME NEW s \in ItemsScopes, Items(s)!ShowInv, NEW p \in Items(s)!Processes, Items(s)!Start(p)
    PROVE  Items(s)!ShowInv'
<1>1. /\ ItemsSent(s) /\ ItemsKept(s) /\ ItemsListed(s, v7) /\ ItemsAct(s)
      /\ ItemsInv(s, v2, v3, v4, v5, v7, v8, v9, v10, v12)
  BY ItemsUnfold
<1>2. /\ p \notin v2 /\ v8' = v8 \cup {p}
      /\ v10' = [q \in s.execs |-> IF q = p THEN [pc |-> "wait"] ELSE v10[q]]
      /\ UNCHANGED <<v1, v2, v3, v4, v5, v6, v7, v9, v11, v12>>
  BY DEF Items!Start
<1>3. /\ \A q \in s.execs : v10'[q].pc = (IF q = p THEN "wait" ELSE v10[q].pc)
      /\ \A q \in s.execs : q # p => v10'[q] = v10[q]
      /\ v10' \in [s.execs -> ItemsCaller(s)]
  <2>1. [pc |-> "wait"] \in ItemsCaller(s)
    BY DEF ItemsCaller
  <2>2. v10 \in [s.execs -> ItemsCaller(s)]
    BY <1>1 DEF ItemsAct
  <2> QED BY <1>2, <2>1, <2>2
<1>4. \A i : ItemsEnd(s, i, v3', v2', v12')
  BY <1>1, <1>2 DEF ItemsInv
<1>5. ItemsAnswers(s, v2', v10')
  BY <1>1, <1>2, <1>3 DEF ItemsInv, ItemsAnswers
<1>6. ItemsInTime(s, v2', v3', v4', v9', v12')
  BY <1>1, <1>2 DEF ItemsInv
<1>7. ItemsBoundTill(s, v2', v3', v5', v8', v9')
  BY <1>1, <1>2 DEF ItemsInv, ItemsBoundTill
<1>8. ItemsShown(s, v2', v3', v4', v7', v9', v10', v12')
  <2>1. \A i : i # p /\ ItemsAgain(s, i, v3, v4, v9, v10) => ItemsAgain(s, i, v3, v4, v9, v10')
    BY <1>3 DEF ItemsAgain
  <2> QED BY <1>1, <1>2, <2>1 DEF ItemsInv, ItemsShown
<1>9. ItemsSent(s)' /\ ItemsKept(s)' /\ ItemsListed(s, v7)' /\ ItemsAct(s)'
  <2>1. v8' \subseteq Items(s)!Processes
    BY <1>1, <1>2 DEF ItemsAct
  <2> QED BY <1>1, <1>2, <1>3, <2>1 DEF ItemsSent, ItemsKept, ItemsListed, ItemsAct
<1> QED BY <1>4, <1>5, <1>6, <1>7, <1>8, <1>9, ItemsUnfold DEF ItemsInv

\* The answer of a command/exec is drawn as the end of it; if some of its
\* output is still on its way, it has overtaken that.
LEMMA ItemsAnswered ==
    ASSUME NEW s \in ItemsScopes, Items(s)!ShowInv, NEW p \in s.execs,
           NEW ending \in Items(s)!Endings, Items(s)!Answered(p, ending)
    PROVE  Items(s)!ShowInv'
<1>1. /\ ItemsSent(s) /\ ItemsKept(s) /\ ItemsListed(s, v7) /\ ItemsAct(s)
      /\ ItemsInv(s, v2, v3, v4, v5, v7, v8, v9, v10, v12)
  BY ItemsUnfold
<1>2. p \in Items(s)!Items /\ p \notin s.spawns /\ v1[p] \in Nat
  BY <1>1, ItemsBounds DEF Items!Items, Items!Processes, ItemsSent
<1>3. PICK entry : entry = Items(s)!Completed(p, Items(s)!Of(p), ending, v1[p])
  OBVIOUS
<1>4. /\ v10[p].pc = "wait" /\ v2' = v2 \cup {p} /\ Items(s)!Store(p, entry)
      /\ v10' = [v10 EXCEPT ![p] = [pc |-> "upsert", drawn |-> v5'[p]]]
      /\ v12' = IF Items(s)!InFlight(p) THEN v12 \cup {p} ELSE v12
      /\ UNCHANGED <<v1, v3, v4, v7, v8, v9, v11>>
  BY <1>3 DEF Items!Answered
<1>5. entry \in Items(s)!Entry /\ entry.active = FALSE
  <2>1. Items(s)!Of(p) \in Items(s)!Entry
    BY <1>1, ItemsFresh
  <2>2. PICK before \in Items(s)!Entry : before = Items(s)!Of(p)
    BY <2>1
  <2>3. LET kept == Items(s)!Completed(p, before, ending, v1[p])
        IN  kept \in Items(s)!Entry /\ kept.active = FALSE
    <3>1. PICK n \in Nat : n = v1[p]
      BY <1>2
    <3> QED BY <3>1, ItemsCompletes
  <2> QED BY <1>3, <2>2, <2>3
<1>6. /\ p \in DOMAIN v5' /\ v5'[p] = entry /\ DOMAIN v5' \subseteq DOMAIN v5 \cup {p}
      /\ \A k \in DOMAIN v5' \ {p} : k \in DOMAIN v5 /\ v5'[k] = v5[k]
      /\ ItemsKept(s)'
  BY <1>1, <1>2, <1>4, <1>5, ItemsStored
<1>7. /\ v10'[p] = [pc |-> "upsert", drawn |-> entry]
      /\ \A q \in s.execs : q # p => v10'[q] = v10[q]
      /\ v10' \in [s.execs -> ItemsCaller(s)]
  <2>1. v10 \in [s.execs -> ItemsCaller(s)]
    BY <1>1 DEF ItemsAct
  <2>2. [pc |-> "upsert", drawn |-> entry] \in ItemsCaller(s)
    BY <1>5 DEF ItemsCaller
  <2> QED BY <1>4, <1>6, <2>1, <2>2
<1>8. v10'[p].pc = "upsert" /\ v10'[p].drawn = entry
  BY <1>7
<1>9. /\ p \notin v2
      /\ p \in v12' \/ (/\ ~Mentions(v3, p)
                        /\ ~(v9.pc = "upsert" /\ v9.item = p))
      /\ v12 \subseteq v12' /\ \A i : i # p => (i \in v12' <=> i \in v12) /\ (i \in v2' <=> i \in v2)
  <2>1. p \notin v2
    BY <1>1, <1>4 DEF ItemsInv, ItemsAnswers
  <2>2. Items(s)!InFlight(p) \/ (~Mentions(v3, p) /\ ~(v9.pc = "upsert" /\ v9.item = p))
    BY DEF Items!InFlight, Mentions
  <2> QED BY <1>4, <2>1, <2>2
<1>10. ASSUME NEW i PROVE ItemsEnd(s, i, v3', v2', v12')
  <2>1. ItemsEnd(s, i, v3, v2, v12) /\ v3' = v3
    BY <1>1, <1>4 DEF ItemsInv
  <2>2. CASE i \in s.execs
    BY <1>9, <2>1, <2>2 DEF ItemsEnd
  <2>3. CASE i \notin s.execs
    <3>1. i \in v2' <=> i \in v2
      BY <1>9, <2>3
    <3> QED BY <2>1, <2>3, <3>1 DEF ItemsEnd, Closed
  <2> QED BY <2>2, <2>3
<1>11. ItemsAnswers(s, v2', v10')
  BY <1>1, <1>4, <1>5, <1>7, <1>8, <1>9 DEF ItemsInv, ItemsAnswers
<1>12. ItemsInTime(s, v2', v3', v4', v9', v12')
  BY <1>1, <1>4, <1>9 DEF ItemsInv, ItemsInTime
<1>13. ItemsBoundTill(s, v2', v3', v5', v8', v9')
  <2>1. \A q \in s.spawns : (q \in v2 => q \in v2') /\ (q \in DOMAIN v5' => q \in DOMAIN v5 /\ v5'[q] = v5[q])
    BY <1>2, <1>4, <1>6
  <2> QED BY <1>1, <1>4, <2>1 DEF ItemsInv, ItemsBoundTill
<1>14. ItemsShown(s, v2', v3', v4', v7', v9', v10', v12')
  <2>1. \A i : i # p /\ ItemsAgain(s, i, v3, v4, v9, v10) => ItemsAgain(s, i, v3, v4, v9, v10')
    BY <1>7 DEF ItemsAgain
  <2>2. ItemsAgain(s, p, v3, v4, v9, v10')
    BY <1>8 DEF ItemsAgain
  <2> QED BY <1>1, <1>4, <1>9, <2>1, <2>2 DEF ItemsInv, ItemsShown
<1>15. ItemsSent(s)' /\ ItemsListed(s, v7)' /\ ItemsAct(s)'
  <2>1. v2' \subseteq Items(s)!Items
    BY <1>1, <1>2, <1>4 DEF ItemsSent
  <2> QED BY <1>1, <1>4, <1>7, <2>1 DEF ItemsSent, ItemsListed, ItemsAct
<1> QED BY <1>6, <1>10, <1>11, <1>12, <1>13, <1>14, <1>15, ItemsUnfold DEF ItemsInv

\* The digest shows the answer.
LEMMA ItemsAnswerShown ==
    ASSUME NEW s \in ItemsScopes, Items(s)!ShowInv, NEW p \in s.execs, Items(s)!AnswerShown(p)
    PROVE  Items(s)!ShowInv'
<1>1. /\ ItemsSent(s) /\ ItemsKept(s) /\ ItemsListed(s, v7) /\ ItemsAct(s)
      /\ ItemsInv(s, v2, v3, v4, v5, v7, v8, v9, v10, v12)
  BY ItemsUnfold
<1>2. /\ v10[p].pc = "upsert" /\ Items(s)!Upsert(p, v10[p].drawn)
      /\ v10' = [v10 EXCEPT ![p] = [pc |-> "unbind"]]
      /\ UNCHANGED <<v1, v2, v3, v4, v5, v6, v8, v9, v11, v12>>
  BY DEF Items!AnswerShown
<1>3. p \in Items(s)!Items /\ v10[p].drawn \in Items(s)!Entry /\ ~v10[p].drawn.active
  <2>1. v10[p] \in ItemsCaller(s)
    BY <1>1 DEF ItemsAct
  <2>2. v10[p].drawn \in Items(s)!Entry
    BY <1>2, <2>1 DEF ItemsCaller
  <2> QED BY <1>1, <1>2, <2>2 DEF ItemsInv, ItemsAnswers, Items!Items, Items!Processes
<1>4. /\ ItemsListed(s, v7')
      /\ \A n \in DOMAIN v7' : IF v7'[n].item = p THEN v7'[n].summary = v10[p].drawn
                               ELSE \E m \in DOMAIN v7 : v7'[n] = v7[m]
  BY <1>1, <1>2, <1>3, ItemsUpsert
<1>5. /\ v10'[p] = [pc |-> "unbind"] /\ v10'[p].pc = "unbind"
      /\ \A q \in s.execs : q # p => v10'[q] = v10[q]
      /\ v10' \in [s.execs -> ItemsCaller(s)]
  <2>1. v10 \in [s.execs -> ItemsCaller(s)]
    BY <1>1 DEF ItemsAct
  <2>2. [pc |-> "unbind"] \in ItemsCaller(s)
    BY DEF ItemsCaller
  <2> QED BY <1>2, <2>1, <2>2
<1>6. \A i : ItemsEnd(s, i, v3', v2', v12')
  BY <1>1, <1>2 DEF ItemsInv
<1>7. ItemsAnswers(s, v2', v10')
  BY <1>1, <1>2, <1>5 DEF ItemsInv, ItemsAnswers
<1>8. ItemsInTime(s, v2', v3', v4', v9', v12') /\ ItemsBoundTill(s, v2', v3', v5', v8', v9')
  BY <1>1, <1>2 DEF ItemsInv
<1>9. ItemsShown(s, v2', v3', v4', v7', v9', v10', v12')
  <2> SUFFICES ASSUME NEW n \in DOMAIN v7', v7'[n].item \in v2 \ v12, v7'[n].summary.active,
                      "lagged" \notin v7'[n].summary.marks
               PROVE  ItemsAgain(s, v7'[n].item, v3, v4, v9, v10')
    BY <1>2 DEF ItemsShown
  <2>1. v7'[n].item # p
    BY <1>3, <1>4
  <2>2. PICK m \in DOMAIN v7 : v7'[n] = v7[m]
    BY <1>4, <2>1
  <2>3. ItemsAgain(s, v7'[n].item, v3, v4, v9, v10)
    BY <1>1, <2>2 DEF ItemsInv, ItemsShown
  <2> QED BY <1>5, <2>1, <2>3 DEF ItemsAgain
<1>10. ItemsSent(s)' /\ ItemsKept(s)' /\ ItemsListed(s, v7)' /\ ItemsAct(s)'
  BY <1>1, <1>2, <1>4, <1>5 DEF ItemsSent, ItemsKept, ItemsListed, ItemsAct
<1> QED BY <1>6, <1>7, <1>8, <1>9, <1>10, ItemsUnfold DEF ItemsInv

\* The process is unbound.
LEMMA ItemsUnbind ==
    ASSUME NEW s \in ItemsScopes, Items(s)!ShowInv, NEW p \in s.execs, Items(s)!Unbind(p)
    PROVE  Items(s)!ShowInv'
<1>1. /\ ItemsSent(s) /\ ItemsKept(s) /\ ItemsListed(s, v7) /\ ItemsAct(s)
      /\ ItemsInv(s, v2, v3, v4, v5, v7, v8, v9, v10, v12)
  BY ItemsUnfold
<1>2. /\ v10[p].pc = "unbind" /\ v8' = v8 \ {p}
      /\ v10' = [v10 EXCEPT ![p] = [pc |-> "end"]]
      /\ UNCHANGED <<v1, v2, v3, v4, v5, v6, v7, v9, v11, v12>>
  BY DEF Items!Unbind
<1>3. /\ v10'[p].pc = "end"
      /\ \A q \in s.execs : q # p => v10'[q] = v10[q]
      /\ v10' \in [s.execs -> ItemsCaller(s)]
  <2>1. v10 \in [s.execs -> ItemsCaller(s)]
    BY <1>1 DEF ItemsAct
  <2>2. [pc |-> "end"] \in ItemsCaller(s)
    BY DEF ItemsCaller
  <2> QED BY <1>2, <2>1, <2>2
<1>4. \A i : ItemsEnd(s, i, v3', v2', v12')
  BY <1>1, <1>2 DEF ItemsInv
<1>5. ItemsAnswers(s, v2', v10')
  BY <1>1, <1>2, <1>3 DEF ItemsInv, ItemsAnswers
<1>6. ItemsInTime(s, v2', v3', v4', v9', v12')
  BY <1>1, <1>2 DEF ItemsInv
<1>7. ItemsBoundTill(s, v2', v3', v5', v8', v9')
  <2>1. p \notin s.spawns
    BY ItemsBounds
  <2> QED BY <1>1, <1>2, <2>1 DEF ItemsInv, ItemsBoundTill
<1>8. ItemsShown(s, v2', v3', v4', v7', v9', v10', v12')
  <2>1. \A i : ItemsAgain(s, i, v3, v4, v9, v10) => ItemsAgain(s, i, v3, v4, v9, v10')
    BY <1>2, <1>3 DEF ItemsAgain
  <2> QED BY <1>1, <1>2, <2>1 DEF ItemsInv, ItemsShown
<1>9. ItemsSent(s)' /\ ItemsKept(s)' /\ ItemsListed(s, v7)' /\ ItemsAct(s)'
  <2>1. v8' \subseteq Items(s)!Processes
    BY <1>1, <1>2 DEF ItemsAct
  <2> QED BY <1>1, <1>2, <1>3, <2>1 DEF ItemsSent, ItemsKept, ItemsListed, ItemsAct
<1> QED BY <1>4, <1>5, <1>6, <1>7, <1>8, <1>9, ItemsUnfold DEF ItemsInv

\* The consumer applies an event.  Of one that ends its item there is no more to
\* come; of any other the end, if it has ended, is still in the queue.
LEMMA ItemsApply ==
    ASSUME NEW s \in ItemsScopes, Items(s)!ShowInv, NEW entry \in Items(s)!Entry,
           v9.pc = "idle", v4 = {}, v3 # <<>>, v3' = Tail(v3),
           Items(s)!Store(Head(v3).item, entry),
           v9' = [pc |-> "upsert", item |-> Head(v3).item, drawn |-> v5'[Head(v3).item]],
           IF Head(v3).kind \in Finals THEN entry.active = FALSE
           ELSE entry.active = TRUE /\ (entry.done => Items(s)!Of(Head(v3).item).done),
           UNCHANGED <<v1, v2, v4, v7, v8, v10, v12>>
    PROVE  Items(s)!ShowInv'
<1> DEFINE E == Items(s)!Event
<1>1. /\ ItemsSent(s) /\ ItemsKept(s) /\ ItemsListed(s, v7) /\ ItemsAct(s)
      /\ ItemsInv(s, v2, v3, v4, v5, v7, v8, v9, v10, v12)
  BY ItemsUnfold
<1>2. v3 \in Seq(E) /\ v4 \subseteq E /\ Len(v3) <= s.queue
  BY <1>1 DEF ItemsSent
<1>3. PICK e : e = Head(v3)
  OBVIOUS
<1>4. PICK i : i = e.item
  OBVIOUS
<1>5. e \in E /\ i \in Items(s)!Items /\ v3' \in Seq(E) /\ Len(v3') <= s.queue
  <2>1. Tail(v3) \in Seq(E) /\ Len(Tail(v3)) = Len(v3) - 1 /\ Head(v3) \in E /\ Len(v3) \in Nat
    BY <1>2, QueueTail
  <2>2. Len(Tail(v3)) <= s.queue
    BY <1>2, <2>1, ItemsBounds
  <2> QED BY <1>3, <1>4, <2>1, <2>2 DEF Items!Event
<1>6. /\ i \in DOMAIN v5' /\ v5'[i] = entry /\ DOMAIN v5' \subseteq DOMAIN v5 \cup {i}
      /\ \A k \in DOMAIN v5' \ {i} : k \in DOMAIN v5 /\ v5'[k] = v5[k]
      /\ ItemsKept(s)'
  BY <1>1, <1>3, <1>4, <1>5, ItemsStored
<1>7. v9'.pc = "upsert" /\ v9'.item = i /\ v9'.drawn = entry /\ v9' \in ItemsDrawn(s)
  <2>1. v9' = [pc |-> "upsert", item |-> i, drawn |-> entry]
    BY <1>3, <1>4, <1>6
  <2>2. v9' \in ItemsDrawn(s)
    BY <1>5, <2>1 DEF ItemsDrawn
  <2> QED BY <2>1, <2>2
<1>8. IF Final(e, i) THEN entry.active = FALSE
      ELSE entry.active = TRUE /\ (entry.done => i \in DOMAIN v5 /\ v5[i].done)
  <2>1. Items(s)!Of(i).done => i \in DOMAIN v5 /\ v5[i].done
    BY <1>1, ItemsFresh
  <2> QED BY <1>3, <1>4, <2>1 DEF Final
<1>9. \A j : /\ Mentions(v3, j) <=> Mentions(v3', j) \/ i = j
             /\ HasFinal(v3, j) <=> HasFinal(v3', j) \/ Final(e, j)
  BY <1>2, <1>3, <1>4, TailClosed
<1>10. ASSUME NEW j, Closed(v3, j, j \in v2)
       PROVE  /\ Closed(v3', j, j \in v2)
              /\ Final(e, j) => j \in v2 /\ ~Mentions(v3', j)
              /\ i = j /\ ~Final(e, j) /\ j \in v2 => HasFinal(v3', j)
  <2>1. PICK over \in BOOLEAN : over <=> j \in v2
    OBVIOUS
  <2>2. Closed(v3, j, over)
    BY <1>10, <2>1 DEF Closed
  <2>3. /\ Closed(v3', j, over)
        /\ Final(e, j) => over /\ ~Mentions(v3', j)
        /\ i = j /\ ~Final(e, j) /\ over => HasFinal(v3', j)
    BY <1>2, <1>3, <1>4, <2>2, TailClosed
  <2>4. Closed(v3', j, j \in v2)
    BY <2>1, <2>3 DEF Closed
  <2> QED BY <2>1, <2>3, <2>4
<1>11. \A j : ItemsEnd(s, j, v3, v2, v12)
  BY <1>1 DEF ItemsInv
<1>12. \A j : Final(e, j) => j = i
  BY <1>4 DEF Final
<1>13. ASSUME NEW j PROVE ItemsEnd(s, j, v3', v2', v12')
  BY <1>9, <1>10, <1>11 DEF ItemsEnd
<1>14. IF Final(e, i) THEN i \in v2 /\ i \notin s.execs /\ ~Mentions(v3', i)
       ELSE IF i \in s.execs THEN i \notin v2 \ v12
       ELSE i \in v2 => HasFinal(v3', i)
  BY <1>9, <1>10, <1>11 DEF ItemsEnd
<1>15. ItemsAnswers(s, v2', v10')
  BY <1>1 DEF ItemsInv
<1>16. ItemsInTime(s, v2', v3', v4', v9', v12')
  BY <1>7, <1>8, <1>14 DEF ItemsInTime
<1>17. ItemsBoundTill(s, v2', v3', v5', v8', v9')
  <2> SUFFICES ASSUME NEW p \in s.spawns
               PROVE  LET draws == v9'.pc = "upsert" /\ v9'.item = p
                      IN  /\ Mentions(v3', p) \/ draws => p \in v8
                          /\ (p \in DOMAIN v5' /\ v5'[p].done) \/ (draws /\ v9'.drawn.done)
                                => p \in v2 /\ ~Mentions(v3', p)
    BY DEF ItemsBoundTill
  <2>1. /\ Mentions(v3, p) => p \in v8
        /\ p \in DOMAIN v5 /\ v5[p].done => p \in v2 /\ ~Mentions(v3, p)
    BY <1>1 DEF ItemsInv, ItemsBoundTill
  <2>2. CASE p = i
    BY <1>6, <1>7, <1>8, <1>9, <1>14, <2>1, <2>2
  <2>3. CASE p # i
    BY <1>6, <1>7, <1>9, <2>1, <2>3
  <2> QED BY <2>2, <2>3
<1>18. ItemsShown(s, v2', v3', v4', v7', v9', v10', v12')
  <2>1. \A j : ItemsAgain(s, j, v3, v4, v9, v10) => ItemsAgain(s, j, v3', v4', v9', v10')
    BY <1>7, <1>8, <1>9, <1>12 DEF ItemsAgain
  <2> QED BY <1>1, <2>1 DEF ItemsInv, ItemsShown
<1>19. ItemsSent(s)' /\ ItemsListed(s, v7)' /\ ItemsAct(s)'
  <2>1. v4' \subseteq E
    BY <1>2
  <2>2. ItemsSent(s)'
    BY <1>1, <1>5, <2>1 DEF ItemsSent, Items!Event, Items!Items
  <2> QED BY <1>1, <1>7, <2>2 DEF ItemsListed, ItemsAct
<1> QED BY <1>6, <1>13, <1>15, <1>16, <1>17, <1>18, <1>19, ItemsUnfold DEF ItemsInv

LEMMA ItemsProgress ==
    ASSUME NEW s \in ItemsScopes, Items(s)!ShowInv, Items(s)!Progress
    PROVE  Items(s)!ShowInv'
<1>1. ItemsSent(s) /\ ItemsKept(s)
  BY ItemsUnfold
<1>2. PICK e : e = Head(v3)
  OBVIOUS
<1>3. PICK before : before = Items(s)!Of(e.item)
  OBVIOUS
<1>4. PICK entry : entry = IF e.kind # "text" THEN Items(s)!Undecoded(before, e.kind = "large")
                           ELSE IF e.item \in s.tools THEN Items(s)!WithMessage(before, e.n)
                           ELSE Items(s)!WithText(before, e.n)
  OBVIOUS
<1>5. /\ v9.pc = "idle" /\ v4 = {} /\ v3 # <<>> /\ v3' = Tail(v3)
      /\ e.kind \in {"text", "large", "bad"}
      /\ Items(s)!Store(e.item, entry)
      /\ v9' = [pc |-> "upsert", item |-> e.item, drawn |-> v5'[e.item]]
      /\ UNCHANGED <<v1, v2, v4, v7, v8, v10, v12>>
  BY <1>2, <1>3, <1>4 DEF Items!Progress, Items!Receive, Items!Draw
<1>6. e \in Items(s)!Event /\ e.n \in Nat
  <2>1. e \in Items(s)!Event
    BY <1>1, <1>2, <1>5, QueueTail DEF ItemsSent
  <2> QED BY <2>1 DEF Items!Event
<1>7. before \in Items(s)!Entry
  BY <1>1, <1>3, ItemsFresh
<1>8. entry \in Items(s)!Entry /\ entry.active = TRUE /\ entry.done = before.done
  <2>1. \A kept \in ItemsPrinted(s, before, e.n) :
          kept \in Items(s)!Entry /\ kept.active = TRUE /\ kept.done = before.done
    BY <1>6, <1>7, ItemsEntries
  <2>2. (e.kind = "large") = TRUE \/ (e.kind = "large") = FALSE
    OBVIOUS
  <2>3. entry \in ItemsPrinted(s, before, e.n)
    BY <1>4, <2>2 DEF ItemsPrinted
  <2> HIDE <1>4
  <2> QED BY <2>1, <2>3
<1>9. e.kind \notin Finals
  BY <1>5 DEF Finals
<1> QED BY <1>2, <1>3, <1>5, <1>8, <1>9, ItemsApply

LEMMA ItemsCompletion ==
    ASSUME NEW s \in ItemsScopes, Items(s)!ShowInv, Items(s)!Completion
    PROVE  Items(s)!ShowInv'
<1>1. ItemsSent(s) /\ ItemsKept(s)
  BY ItemsUnfold
<1>2. PICK e : e = Head(v3)
  OBVIOUS
<1>3. PICK before : before = Items(s)!Of(e.item)
  OBVIOUS
<1>4. PICK entry : entry = Items(s)!Completed(e.item, before, e.kind, e.n)
  OBVIOUS
<1>5. /\ v9.pc = "idle" /\ v4 = {} /\ v3 # <<>> /\ v3' = Tail(v3)
      /\ e.kind \in Items(s)!Endings
      /\ Items(s)!Store(e.item, entry)
      /\ v9' = [pc |-> "upsert", item |-> e.item, drawn |-> v5'[e.item]]
      /\ UNCHANGED <<v1, v2, v4, v7, v8, v10, v12>>
  BY <1>2, <1>3, <1>4 DEF Items!Completion, Items!Receive, Items!Draw
<1>6. e \in Items(s)!Event /\ e.n \in Nat
  <2>1. e \in Items(s)!Event
    BY <1>1, <1>2, <1>5, QueueTail DEF ItemsSent
  <2> QED BY <2>1 DEF Items!Event
<1>7. before \in Items(s)!Entry
  BY <1>1, <1>3, ItemsFresh
<1>8. entry \in Items(s)!Entry /\ entry.active = FALSE
  <2>1. LET kept == Items(s)!Completed(e.item, before, e.kind, e.n)
        IN  kept \in Items(s)!Entry /\ kept.active = FALSE
    <3>1. PICK n \in Nat, ending \in Items(s)!Endings : n = e.n /\ ending = e.kind
      BY <1>5, <1>6
    <3> QED BY <1>7, <3>1, ItemsCompletes
  <2> QED BY <1>4, <2>1
<1>9. e.kind \in Finals
  BY <1>5 DEF Finals, Items!Endings
<1> QED BY <1>2, <1>5, <1>8, <1>9, ItemsApply

\* The digest shows what the consumer has drawn.
LEMMA ItemsShows ==
    ASSUME NEW s \in ItemsScopes, Items(s)!ShowInv, Items(s)!Shown
    PROVE  Items(s)!ShowInv'
<1>1. /\ ItemsSent(s) /\ ItemsKept(s) /\ ItemsListed(s, v7) /\ ItemsAct(s)
      /\ ItemsInv(s, v2, v3, v4, v5, v7, v8, v9, v10, v12)
  BY ItemsUnfold
<1>2. PICK i, drawn : i = v9.item /\ drawn = v9.drawn
  OBVIOUS
<1>3. /\ v9.pc = "upsert"
      /\ IF i \in Items(s)!ThreadItems \cup v8 THEN Items(s)!Upsert(i, drawn) ELSE v7' = v7
      /\ v8' = IF i \in s.spawns /\ drawn.done THEN v8 \ {i} ELSE v8
      /\ v9' = [pc |-> "idle"]
      /\ UNCHANGED <<v1, v2, v3, v4, v5, v6, v10, v11, v12>>
  BY <1>2 DEF Items!Shown
<1>4. i \in Items(s)!Items /\ drawn \in Items(s)!Entry
  <2>1. v9 \in ItemsDrawn(s)
    BY <1>1 DEF ItemsAct
  <2> QED BY <1>2, <1>3, <2>1 DEF ItemsDrawn
<1>5. /\ drawn.active \in BOOLEAN
      /\ IF ~drawn.active THEN i \in v2 \ s.execs
         ELSE IF i \in s.execs THEN i \notin v2 \ v12
         ELSE i \in v2 => HasFinal(v3, i) \/ v4 # {}
      /\ i \in s.spawns => i \in v8
      /\ i \in s.spawns /\ drawn.done => ~Mentions(v3, i)
  <2>1. drawn.active \in BOOLEAN
    BY <1>4, ItemsEntries
  <2>2. IF ~drawn.active THEN i \in v2 \ s.execs
        ELSE IF i \in s.execs THEN i \notin v2 \ v12
        ELSE i \in v2 => HasFinal(v3, i) \/ v4 # {}
    BY <1>1, <1>2, <1>3 DEF ItemsInv, ItemsInTime
  <2>3. /\ i \in s.spawns => i \in v8
        /\ i \in s.spawns /\ drawn.done => ~Mentions(v3, i)
    BY <1>1, <1>2, <1>3 DEF ItemsInv, ItemsBoundTill
  <2> QED BY <2>1, <2>2, <2>3
<1>6. /\ ItemsListed(s, v7')
      /\ \A n \in DOMAIN v7' : \/ v7'[n].item = i /\ v7'[n].summary = drawn
                               \/ /\ \E m \in DOMAIN v7 : v7'[n] = v7[m]
                                  /\ v7'[n].item # i \/ i \notin Items(s)!ThreadItems \cup v8
  <2>1. CASE i \in Items(s)!ThreadItems \cup v8
    <3>1. /\ ItemsListed(s, v7')
          /\ \A n \in DOMAIN v7' : IF v7'[n].item = i THEN v7'[n].summary = drawn
                                   ELSE \E m \in DOMAIN v7 : v7'[n] = v7[m]
      BY <1>1, <1>3, <1>4, <2>1, ItemsUpsert
    <3> QED BY <3>1
  <2>2. CASE i \notin Items(s)!ThreadItems \cup v8
    <3>1. v7' = v7
      BY <1>3, <2>2
    <3> QED BY <1>1, <2>2, <3>1
  <2> QED BY <2>1, <2>2
<1>7. v9'.pc = "idle"
  BY <1>3
<1>8. \A j : ItemsEnd(s, j, v3', v2', v12')
  BY <1>1, <1>3 DEF ItemsInv
<1>9. ItemsAnswers(s, v2', v10')
  BY <1>1, <1>3 DEF ItemsInv
<1>10. ItemsInTime(s, v2', v3', v4', v9', v12')
  BY <1>7 DEF ItemsInTime
<1>11. ItemsBoundTill(s, v2', v3', v5', v8', v9')
  BY <1>1, <1>3, <1>5, <1>7 DEF ItemsInv, ItemsBoundTill
<1>12. ItemsShown(s, v2', v3', v4', v7', v9', v10', v12')
  <2> SUFFICES ASSUME NEW n \in DOMAIN v7', v7'[n].item \in v2 \ v12, v7'[n].summary.active,
                      "lagged" \notin v7'[n].summary.marks
               PROVE  ItemsAgain(s, v7'[n].item, v3, v4, v9', v10)
    BY <1>3 DEF ItemsShown
  <2>1. CASE v7'[n].item = i /\ v7'[n].summary = drawn
    BY <1>5, <2>1 DEF ItemsAgain
  <2>2. CASE /\ \E m \in DOMAIN v7 : v7'[n] = v7[m]
             /\ v7'[n].item # i \/ i \notin Items(s)!ThreadItems \cup v8
    <3>1. ItemsAgain(s, v7'[n].item, v3, v4, v9, v10)
      BY <1>1, <2>2 DEF ItemsInv, ItemsShown
    <3>2. ~(v9.item = v7'[n].item /\ ~v9.drawn.active)
      <4>1. i \notin Items(s)!ThreadItems \cup v8 => i \in s.execs
        BY <1>4, <1>5 DEF Items!Items, Items!Processes
      <4> QED BY <1>2, <1>5, <2>2, <4>1
    <3> QED BY <1>3, <3>1, <3>2 DEF ItemsAgain
  <2> QED BY <1>6, <2>1, <2>2
<1>13. ItemsSent(s)' /\ ItemsKept(s)' /\ ItemsListed(s, v7)' /\ ItemsAct(s)'
  <2>1. v8' \subseteq Items(s)!Processes
    BY <1>1, <1>3 DEF ItemsAct
  <2>2. v9' \in ItemsDrawn(s)
    BY <1>3 DEF ItemsDrawn
  <2>3. ItemsAct(s)'
    BY <1>1, <1>3, <2>1, <2>2 DEF ItemsAct
  <2>4. ItemsSent(s)' /\ ItemsKept(s)'
    BY <1>1, <1>3 DEF ItemsSent, ItemsKept
  <2> QED BY <1>6, <2>3, <2>4 DEF ItemsListed
<1> QED BY <1>8, <1>9, <1>10, <1>11, <1>12, <1>13, ItemsUnfold DEF ItemsInv

\* The consumer lags: what is running is marked, and so is the digest after it.
LEMMA ItemsLag ==
    ASSUME NEW s \in ItemsScopes, Items(s)!ShowInv, Items(s)!Lag
    PROVE  Items(s)!ShowInv'
<1>1. /\ ItemsSent(s) /\ ItemsKept(s) /\ ItemsListed(s, v7) /\ ItemsAct(s)
      /\ ItemsInv(s, v2, v3, v4, v5, v7, v8, v9, v10, v12)
  BY ItemsUnfold
<1>2. /\ v9.pc = "idle" /\ v4' = {} /\ v9' = [pc |-> "lagged"]
      /\ v5' = [i \in DOMAIN v5 |-> Items(s)!MarkLagged(v5[i])]
      /\ UNCHANGED <<v1, v2, v3, v6, v7, v8, v10, v12>>
  BY DEF Items!Lag, Items!Known
<1>3. v9'.pc = "lagged"
  BY <1>2
<1>4. /\ DOMAIN v5' = DOMAIN v5
      /\ \A k \in DOMAIN v5 : /\ v5'[k] \in Items(s)!Entry /\ v5'[k].active = v5[k].active
                              /\ v5'[k].done = v5[k].done
  <2>1. DOMAIN v5' = DOMAIN v5
    BY <1>2
  <2>2. ASSUME NEW k \in DOMAIN v5
        PROVE  /\ v5'[k] \in Items(s)!Entry /\ v5'[k].active = v5[k].active
               /\ v5'[k].done = v5[k].done
    <3>1. PICK entry \in Items(s)!Entry : entry = v5[k]
      BY <1>1 DEF ItemsKept
    <3>2. LET kept == Items(s)!MarkLagged(entry)
          IN  kept \in Items(s)!Entry /\ kept.active = entry.active /\ kept.done = entry.done
      <4>1. 0 \in Nat
        OBVIOUS
      <4> QED BY <4>1, ItemsEntries
    <3> QED BY <1>2, <3>1, <3>2
  <2> QED BY <2>1, <2>2
<1>5. ItemsKept(s)'
  <2>1. \A map : InLimits(s, map, v5) => InLimits(s, map, v5')
    <3> SUFFICES ASSUME NEW map, InLimits(s, map, v5) PROVE InLimits(s, map, v5')
      OBVIOUS
    <3>1. \A b \in BOOLEAN : {k \in map \cap DOMAIN v5' : v5'[k].active = b}
                               = {k \in map \cap DOMAIN v5 : v5[k].active = b}
      BY <1>4
    <3>2. /\ {k \in map \cap DOMAIN v5' : v5'[k].active = TRUE}
               = {k \in map \cap DOMAIN v5 : v5[k].active = TRUE}
          /\ {k \in map \cap DOMAIN v5' : v5'[k].active = FALSE}
               = {k \in map \cap DOMAIN v5 : v5[k].active = FALSE}
      BY <3>1
    <3> QED BY <3>2 DEF InLimits
  <2>2. DOMAIN v5' = DOMAIN v5 /\ v6' = v6 /\ \A k \in DOMAIN v5' : v5'[k] \in Items(s)!Entry
    BY <1>2, <1>4
  <2> HIDE <1>2, <1>4
  <2> QED BY <1>1, <2>1, <2>2 DEF ItemsKept
<1>6. \A i : ItemsEnd(s, i, v3', v2', v12')
  BY <1>1, <1>2 DEF ItemsInv
<1>7. ItemsAnswers(s, v2', v10')
  BY <1>1, <1>2 DEF ItemsInv
<1>8. ItemsInTime(s, v2', v3', v4', v9', v12')
  BY <1>3 DEF ItemsInTime
<1>9. ItemsBoundTill(s, v2', v3', v5', v8', v9')
  BY <1>1, <1>2, <1>3, <1>4 DEF ItemsInv, ItemsBoundTill
<1>10. ItemsShown(s, v2', v3', v4', v7', v9', v10', v12')
  BY <1>3 DEF ItemsShown, ItemsAgain
<1>11. ItemsSent(s)' /\ ItemsListed(s, v7)' /\ ItemsAct(s)'
  <2>1. v9' \in ItemsDrawn(s)
    BY <1>2 DEF ItemsDrawn
  <2>2. v4' \subseteq Items(s)!Event
    BY <1>2
  <2> QED BY <1>1, <1>2, <2>1, <2>2 DEF ItemsSent, ItemsListed, ItemsAct
<1> QED BY <1>5, <1>6, <1>7, <1>8, <1>9, <1>10, <1>11, ItemsUnfold DEF ItemsInv

LEMMA ItemsLagShown ==
    ASSUME NEW s \in ItemsScopes, Items(s)!ShowInv, Items(s)!LagShown
    PROVE  Items(s)!ShowInv'
<1>1. /\ ItemsSent(s) /\ ItemsKept(s) /\ ItemsListed(s, v7) /\ ItemsAct(s)
      /\ ItemsInv(s, v2, v3, v4, v5, v7, v8, v9, v10, v12)
  BY ItemsUnfold
<1>2. /\ v9.pc = "lagged" /\ v9' = [pc |-> "idle"]
      /\ v7' = [n \in DOMAIN v7 |-> [v7[n] EXCEPT !.summary.marks = @ \cup {"lagged"}]]
      /\ UNCHANGED <<v1, v2, v3, v4, v5, v6, v8, v10, v11, v12>>
  BY DEF Items!LagShown
<1>3. v9'.pc = "idle"
  BY <1>2
<1>4. v7 \in Seq([item : Items(s)!Items, summary : Items(s)!Entry]) /\ Len(v7) <= s.entries
      /\ \A m, n \in DOMAIN v7 : v7[m].item = v7[n].item => m = n
  BY <1>1 DEF ItemsListed
<1>5. /\ Len(v7) \in Nat /\ DOMAIN v7 = 1..Len(v7)
      /\ \A n \in DOMAIN v7 : v7[n] \in [item : Items(s)!Items, summary : Items(s)!Entry]
  <2>1. PICK E : E = [item : Items(s)!Items, summary : Items(s)!Entry]
    OBVIOUS
  <2>2. v7 \in Seq(E)
    BY <1>4, <2>1
  <2>3. Len(v7) \in Nat /\ DOMAIN v7 = 1..Len(v7) /\ \A n \in DOMAIN v7 : v7[n] \in E
    BY <2>2, LenProperties, ElementOfSeq
  <2> QED BY <2>1, <2>3
<1>6. DOMAIN v7' = DOMAIN v7
  BY <1>2
<1>7. ASSUME NEW n \in DOMAIN v7
      PROVE  /\ v7'[n] \in [item : Items(s)!Items, summary : Items(s)!Entry]
             /\ v7'[n].item = v7[n].item /\ "lagged" \in v7'[n].summary.marks
  <2> DEFINE T == {t \in Seq(Nat) : Len(t) <= s.tail}
             M == Items(s)!Marks
             R == [tail : T, active : BOOLEAN, done : BOOLEAN, marks : SUBSET M]
  <2>1. Items(s)!Entry = R /\ "lagged" \in M
    BY DEF Items!Entry, Items!Marks
  <2> HIDE DEF T, M
  <2>2. PICK x : x = v7'[n]
    OBVIOUS
  <2>3. PICK r : r = v7[n]
    OBVIOUS
  <2>4. r \in [item : Items(s)!Items, summary : R]
    <3> HIDE DEF R
    <3> QED BY <1>5, <2>1, <2>3
  <2>5. x = [r EXCEPT !.summary.marks = @ \cup {"lagged"}]
    BY <1>2, <2>2, <2>3
  <2>6. x \in [item : Items(s)!Items, summary : R] /\ x.item = r.item /\ "lagged" \in x.summary.marks
    <3> HIDE <1>2
    <3> QED BY <2>1, <2>4, <2>5, MarkAdded
  <2> HIDE DEF R
  <2> QED BY <2>1, <2>2, <2>3, <2>6
<1>8. ItemsListed(s, v7')
  <2>1. v7' \in Seq([item : Items(s)!Items, summary : Items(s)!Entry]) /\ Len(v7') = Len(v7)
    <3>1. v7' \in [1..Len(v7) -> [item : Items(s)!Items, summary : Items(s)!Entry]]
      <4>1. v7' = [n \in 1..Len(v7) |-> v7'[n]]
        BY <1>2, <1>5
      <4>2. \A n \in 1..Len(v7) : v7'[n] \in [item : Items(s)!Items, summary : Items(s)!Entry]
        BY <1>5, <1>7
      <4> HIDE <1>2
      <4> QED BY <4>1, <4>2
    <3>2. PICK E : E = [item : Items(s)!Items, summary : Items(s)!Entry]
      OBVIOUS
    <3>3. v7' \in [1..Len(v7) -> E] /\ Len(v7) \in Nat
      BY <1>5, <3>1, <3>2
    <3>4. v7' \in Seq(E) /\ Len(v7') = Len(v7)
      <4> HIDE <1>2
      <4> QED BY <3>3, SeqOf
    <3> QED BY <3>2, <3>4
  <2>2. \A m, n \in DOMAIN v7' : v7'[m].item = v7'[n].item => m = n
    BY <1>4, <1>6, <1>7
  <2> QED BY <1>4, <2>1, <2>2 DEF ItemsListed
<1>9. \A i : ItemsEnd(s, i, v3', v2', v12')
  BY <1>1, <1>2 DEF ItemsInv
<1>10. ItemsAnswers(s, v2', v10')
  BY <1>1, <1>2 DEF ItemsInv
<1>11. ItemsInTime(s, v2', v3', v4', v9', v12')
  BY <1>3 DEF ItemsInTime
<1>12. ItemsBoundTill(s, v2', v3', v5', v8', v9')
  BY <1>1, <1>2, <1>3 DEF ItemsInv, ItemsBoundTill
<1>13. ItemsShown(s, v2', v3', v4', v7', v9', v10', v12')
  BY <1>6, <1>7 DEF ItemsShown
<1>14. ItemsSent(s)' /\ ItemsKept(s)' /\ ItemsListed(s, v7)' /\ ItemsAct(s)'
  <2>1. v9' \in ItemsDrawn(s)
    BY <1>2 DEF ItemsDrawn
  <2>2. ItemsSent(s)' /\ ItemsKept(s)' /\ ItemsAct(s)'
    BY <1>1, <1>2, <2>1 DEF ItemsSent, ItemsKept, ItemsAct
  <2>3. ItemsListed(s, v7)'
    BY <1>8
  <2> QED BY <2>2, <2>3
<1> QED BY <1>9, <1>10, <1>11, <1>12, <1>13, <1>14, ItemsUnfold DEF ItemsInv

\* Nothing happens.
LEMMA ItemsSame ==
    ASSUME NEW s \in ItemsScopes, Items(s)!ShowInv,
           UNCHANGED <<v1, v2, v3, v4, v5, v6, v7, v8, v9, v10, v12>>
    PROVE  Items(s)!ShowInv'
<1>1. /\ ItemsSent(s) /\ ItemsKept(s) /\ ItemsListed(s, v7) /\ ItemsAct(s)
      /\ ItemsInv(s, v2, v3, v4, v5, v7, v8, v9, v10, v12)
  BY ItemsUnfold
<1>2. ItemsSent(s)' /\ ItemsKept(s)' /\ ItemsListed(s, v7)' /\ ItemsAct(s)'
  BY <1>1 DEF ItemsSent, ItemsKept, ItemsListed, ItemsAct
<1> QED BY <1>1, <1>2, ItemsUnfold

\* The invariant of the items that run.
LEMMA ItemsInvariant ==
    Spec => [](\A s \in ItemsScopes : Is("items", s) => Items(s)!ShowInv)
<1> DEFINE I == \A s \in ItemsScopes : Is("items", s) => Items(s)!ShowInv
<1>1. Init => I
  <2> SUFFICES ASSUME Init, NEW s \in ItemsScopes, Is("items", s) PROVE Items(s)!ShowInv
    OBVIOUS
  <2>1. /\ v1 = [i \in Items(s)!Items |-> 0] /\ v2 = {} /\ v3 = <<>> /\ v4 = {}
        /\ v5 = <<>> /\ v6 = <<>> /\ v7 = <<>> /\ v8 = {} /\ v9 = [pc |-> "idle"]
        /\ v10 = [p \in s.execs |-> [pc |-> "idle"]] /\ v12 = {}
    BY DEF Init, Is, Items!Init
  <2>2. v9.pc = "idle" /\ \A p \in s.execs : v10[p].pc = "idle"
    BY <2>1
  <2>3. DOMAIN v3 = {} /\ DOMAIN v5 = {} /\ DOMAIN v7 = {}
    BY <2>1
  <2>4. ItemsInv(s, v2, v3, v4, v5, v7, v8, v9, v10, v12)
    BY <2>1, <2>2, <2>3 DEF ItemsInv, ItemsEnd, ItemsAnswers, ItemsInTime, ItemsBoundTill, ItemsShown,
          Mentions, HasFinal, Closed
  <2>5. ItemsSent(s)
    BY <2>1, ItemsBounds DEF ItemsSent
  <2>6. ItemsKept(s)
    <3>1. IsFiniteSet({}) /\ Cardinality({}) = 0
      BY FS_EmptySet
    <3>2. \A map : InLimits(s, map, v5)
      <4> SUFFICES ASSUME NEW map PROVE InLimits(s, map, v5)
        OBVIOUS
      <4>1. /\ {k \in map \cap DOMAIN v5 : v5[k].active = TRUE} = {}
            /\ {k \in map \cap DOMAIN v5 : v5[k].active = FALSE} = {}
        BY <2>3
      <4>2. 0 <= s.active /\ 0 <= s.recent
        BY ItemsBounds
      <4> QED BY <3>1, <4>1, <4>2 DEF InLimits
    <3>3. v6 \in [DOMAIN v5 -> 1..Cardinality(DOMAIN v5)]
      BY <2>1
    <3> QED BY <2>3, <3>1, <3>2, <3>3 DEF ItemsKept
  <2>7. ItemsListed(s, v7)
    BY <2>1, ItemsBounds DEF ItemsListed
  <2>8. ItemsAct(s)
    <3>1. [pc |-> "idle"] \in ItemsCaller(s) /\ [pc |-> "idle"] \in ItemsDrawn(s)
      BY DEF ItemsCaller, ItemsDrawn
    <3> QED BY <2>1, <3>1 DEF ItemsAct
  <2> QED BY <2>4, <2>5, <2>6, <2>7, <2>8, ItemsUnfold
<1>2. I /\ [Next]_vars => I'
  <2> SUFFICES ASSUME I, [Next]_vars, NEW s \in ItemsScopes, Is("items", s)'
               PROVE  Items(s)!ShowInv'
    OBVIOUS
  <2>1. CASE UNCHANGED vars
    <3>1. Items(s)!ShowInv /\ UNCHANGED <<v1, v2, v3, v4, v5, v6, v7, v8, v9, v10, v12>>
      BY <2>1 DEF vars, Is
    <3> QED BY <3>1, ItemsSame
  <2>2. CASE Next
    <3>1. Is("items", s)
      BY <2>2 DEF Next, In, Is
    <3>2. In("items", s) /\ Items(s)!Next
      BY <2>2, <3>1 DEF Next, In, Is
    <3>3. Items(s)!ShowInv
      BY <3>1
    <3> QED BY <3>2, <3>3, ItemsOutput, ItemsFinish, ItemsStart, ItemsAnswered, ItemsAnswerShown,
            ItemsUnbind, ItemsProgress, ItemsCompletion, ItemsShows, ItemsLag, ItemsLagShown
            DEF Items!Next
  <2> QED BY <2>1, <2>2
<1> QED BY <1>1, <1>2, PTL DEF Spec

\* When all is handled, what is shown as running without a mark has not ended.
LEMMA ItemsFinished ==
    ASSUME NEW s \in ItemsScopes, Items(s)!ShowInv
    PROVE  Items(s)!FinishedIsShown
<1>1. ItemsInv(s, v2, v3, v4, v5, v7, v8, v9, v10, v12)
  BY ItemsUnfold
<1> SUFFICES ASSUME Items(s)!Quiet, NEW n \in DOMAIN v7, v7[n].item \in v2 \ v12,
                    v7[n].summary.active, "lagged" \notin v7[n].summary.marks
             PROVE  FALSE
  BY DEF Items!FinishedIsShown
<1>2. ItemsAgain(s, v7[n].item, v3, v4, v9, v10)
  BY <1>1 DEF ItemsInv, ItemsShown
<1>3. /\ v3 = <<>> /\ v4 = {} /\ v9.pc = "idle"
      /\ \A p \in s.execs : v10[p].pc \in {"idle", "wait", "end"}
  BY DEF Items!Quiet
<1>4. DOMAIN v3 = {}
  BY <1>3
<1> QED BY <1>2, <1>3, <1>4 DEF ItemsAgain, HasFinal

\* FinishedIsShown: once everything sent is handled, no item that has ended is
\* shown as running without the word that the stream lagged, whatever was lost
\* in the channel or evicted from the projection (projection.rs and the
\* consumer of bot.rs); what is excused is a command/exec whose answer overtook
\* its output.
THEOREM TheEndIsShown == Spec => []FinishedIsShown
<1>1. (\A s \in ItemsScopes : Is("items", s) => Items(s)!ShowInv) => FinishedIsShown
  BY ItemsFinished DEF FinishedIsShown
<1> QED BY <1>1, ItemsInvariant, PTL

-----------------------------------------------------------------------------
(* What of the output is on its way                                         *)

\* The output of an item that has been sent, after what has passed.
Prints(e, i) == e.item = i /\ e.kind \notin Finals
Flow(q, b, i, passed, sent) ==
    LET late   == {e \in b : Prints(e, i)}
        coming == {n \in DOMAIN q : Prints(q[n], i)}
    IN  /\ passed \in 0..sent
        /\ \A e \in late : e.n \in (passed + 1)..sent
        /\ \A n \in coming : q[n].n \in (passed + 1)..sent
        /\ \A k \in (passed + 1)..sent : \/ \E e \in late : e.n = k
                                         \/ \E n \in coming : q[n].n = k
        /\ \A m, n \in coming : m < n => q[m].n < q[n].n
        /\ \A e \in late, n \in coming : e.n < q[n].n
        /\ \A n \in DOMAIN q : Final(q[n], i) => q[n].n = sent

\* A set of numbers has a least one.
LEMMA LeastOf ==
    ASSUME NEW S \in SUBSET Nat, S # {}
    PROVE  \E x \in S : \A y \in S : x <= y
<1>1. PICK x \in S : \A y \in S : ~(<<y, x>> \in OpToRel(<, Nat))
  BY NatLessThanWellFounded, WFMin
<1>2. \A y \in Nat : x \in Nat /\ y < x => <<y, x>> \in OpToRel(<, Nat)
  BY DEF OpToRel
<1>3. x \in Nat /\ \A y \in S : y \in Nat /\ ~(y < x)
  BY <1>1, <1>2
<1>4. \A y \in S : x <= y
  BY <1>3
<1> QED BY <1>4

LEMMA FlowAppend ==
    ASSUME NEW E, NEW q \in Seq(E), NEW b, NEW e \in E, NEW i, NEW a \in Nat, NEW z \in Nat,
           Flow(q, b, i, a, z),
           Prints(e, i) => e.n = z + 1 /\ ~HasFinal(q, i),
           Final(e, i) => e.n = z
    PROVE  Flow(Append(q, e), b, i, a, IF Prints(e, i) THEN z + 1 ELSE z)
<1> DEFINE r == Append(q, e)
           new == Len(q) + 1
           z1 == IF Prints(e, i) THEN z + 1 ELSE z
           late == {d \in b : Prints(d, i)}
           coming == {n \in DOMAIN q : Prints(q[n], i)}
           coming1 == {n \in DOMAIN r : Prints(r[n], i)}
<1>1. /\ DOMAIN q = 1..Len(q) /\ DOMAIN r = 1..new /\ Len(q) \in Nat
      /\ \A n \in 1..Len(q) : r[n] = q[n]
      /\ r[new] = e
  BY QueueAppend
<1>2. coming1 = IF Prints(e, i) THEN coming \cup {new} ELSE coming
  <2> HIDE DEF r
  <2>1. DOMAIN r = DOMAIN q \cup {new} /\ new \notin DOMAIN q
    BY <1>1
  <2> HIDE DEF new
  <2> QED BY <1>1, <2>1
<1>3. /\ a \in 0..z
      /\ \A d \in late : d.n \in (a + 1)..z
      /\ \A n \in coming : q[n].n \in (a + 1)..z
      /\ \A k \in (a + 1)..z : (\E d \in late : d.n = k) \/ (\E n \in coming : q[n].n = k)
      /\ \A m, n \in coming : m < n => q[m].n < q[n].n
      /\ \A d \in late, n \in coming : d.n < q[n].n
      /\ \A n \in DOMAIN q : Final(q[n], i) => q[n].n = z
  BY DEF Flow
<1>4. \A n \in coming : n \in 1..Len(q) /\ r[n] = q[n]
  BY <1>1
<1>5. \A n \in DOMAIN r : Final(r[n], i) => r[n].n = z1
  <2> SUFFICES ASSUME NEW n \in DOMAIN r, Final(r[n], i) PROVE r[n].n = z1
    OBVIOUS
  <2>1. CASE n \in 1..Len(q)
    <3>1. Final(q[n], i) /\ n \in DOMAIN q
      BY <1>1, <2>1
    <3>2. ~Prints(e, i)
      BY <3>1 DEF HasFinal
    <3> QED BY <1>1, <1>3, <2>1, <3>1, <3>2
  <2>2. CASE n = new
    BY <1>1, <2>2 DEF Final, Prints
  <2> QED BY <1>1, <2>1, <2>2
<1>6. CASE ~Prints(e, i)
  <2>1. coming1 = coming /\ z1 = z
    BY <1>2, <1>6
  <2>2. Flow(r, b, i, a, z)
    <3> HIDE DEF r, new
    <3> QED BY <1>3, <1>4, <1>5, <2>1 DEF Flow
  <2> QED BY <2>1, <2>2
<1>7. CASE Prints(e, i)
  <2>1. coming1 = coming \cup {new} /\ z1 = z + 1 /\ r[new].n = z + 1
    BY <1>1, <1>2, <1>7
  <2> HIDE DEF r, late, coming, coming1, z1, new
  <2>2. a \in 0..z1 /\ (\A d \in late : d.n \in (a + 1)..z1)
    BY <1>3, <2>1
  <2>3. \A n \in coming1 : r[n].n \in (a + 1)..z1
    BY <1>3, <1>4, <2>1
  <2>4. \A k \in (a + 1)..z1 : (\E d \in late : d.n = k) \/ (\E n \in coming1 : r[n].n = k)
    <3> SUFFICES ASSUME NEW k \in (a + 1)..z1
                 PROVE  (\E d \in late : d.n = k) \/ (\E n \in coming1 : r[n].n = k)
      OBVIOUS
    <3>1. k = z + 1 \/ k \in (a + 1)..z
      BY <2>1
    <3> QED BY <1>3, <1>4, <2>1, <3>1
  <2>5. \A m, n \in coming1 : m < n => r[m].n < r[n].n
    <3> SUFFICES ASSUME NEW m \in coming1, NEW n \in coming1, m < n PROVE r[m].n < r[n].n
      OBVIOUS
    <3>1. m \in coming
      BY <1>1, <1>4, <2>1 DEF new
    <3>2. r[m].n \in (a + 1)..z /\ r[m] = q[m]
      BY <1>3, <1>4, <3>1
    <3> QED BY <1>3, <1>4, <2>1, <3>1, <3>2
  <2>6. \A d \in late, n \in coming1 : d.n < r[n].n
    <3> SUFFICES ASSUME NEW d \in late, NEW n \in coming1 PROVE d.n < r[n].n
      OBVIOUS
    <3>1. d.n \in (a + 1)..z
      BY <1>3
    <3> QED BY <1>3, <1>4, <2>1, <3>1
  <2>7. Flow(r, b, i, a, z1)
    BY <1>3, <1>5, <2>2, <2>3, <2>4, <2>5, <2>6 DEF Flow, late, coming1
  <2> QED BY <2>7 DEF r, z1
<1> QED BY <1>6, <1>7

\* An event is passed, by the consumer or unseen.
LEMMA FlowTail ==
    ASSUME NEW E, NEW q \in Seq(E), q # <<>>, NEW b, NEW i, NEW a \in Nat, NEW z \in Nat,
           Flow(q, b, i, a, z)
    PROVE  /\ Flow(Tail(q), b \cup {Head(q)}, i, a, z)
           /\ b = {} => /\ Prints(Head(q), i) => Head(q).n = a + 1
                        /\ Flow(Tail(q), {}, i, IF Prints(Head(q), i) THEN a + 1 ELSE a, z)
<1> DEFINE r == Tail(q)
           e == Head(q)
           late == {d \in b : Prints(d, i)}
           coming == {n \in DOMAIN q : Prints(q[n], i)}
           late1 == {d \in b \cup {e} : Prints(d, i)}
           coming1 == {n \in DOMAIN r : Prints(r[n], i)}
<1>1. /\ DOMAIN q = 1..Len(q) /\ DOMAIN r = 1..(Len(q) - 1) /\ Len(q) \in Nat \ {0}
      /\ \A n \in 1..(Len(q) - 1) : r[n] = q[n + 1]
      /\ e = q[1]
  BY QueueTail
<1>2. /\ a \in 0..z
      /\ \A d \in late : d.n \in (a + 1)..z
      /\ \A n \in coming : q[n].n \in (a + 1)..z
      /\ \A k \in (a + 1)..z : (\E d \in late : d.n = k) \/ (\E n \in coming : q[n].n = k)
      /\ \A m, n \in coming : m < n => q[m].n < q[n].n
      /\ \A d \in late, n \in coming : d.n < q[n].n
      /\ \A n \in DOMAIN q : Final(q[n], i) => q[n].n = z
  BY DEF Flow
<1> HIDE DEF r, e
<1>3. /\ \A n \in coming1 : n + 1 \in coming /\ r[n] = q[n + 1] /\ n \in Nat
      /\ \A n \in coming : n = 1 \/ (n \in Nat /\ n - 1 \in coming1 /\ r[n - 1] = q[n])
      /\ 1 \in coming <=> Prints(e, i)
  <2>1. \A n \in coming1 : n + 1 \in coming /\ r[n] = q[n + 1] /\ n \in Nat
    BY <1>1
  <2>2. ASSUME NEW n \in coming, n # 1
        PROVE  n \in Nat /\ n - 1 \in coming1 /\ r[n - 1] = q[n]
    <3>1. n - 1 \in 1..(Len(q) - 1) /\ n \in Nat
      BY <1>1, <2>2
    <3>2. r[n - 1] = q[n]
      BY <1>1, <3>1
    <3> QED BY <1>1, <3>1, <3>2
  <2> QED BY <1>1, <2>1, <2>2
<1>4. \A n \in DOMAIN r : Final(r[n], i) => r[n].n = z
  BY <1>1, <1>2
<1>5. \A m, n \in coming1 : m < n => r[m].n < r[n].n
  <2> SUFFICES ASSUME NEW m \in coming1, NEW n \in coming1, m < n PROVE r[m].n < r[n].n
    OBVIOUS
  <2>1. m + 1 \in coming /\ n + 1 \in coming /\ m + 1 < n + 1
    BY <1>3
  <2> HIDE DEF coming, coming1
  <2> QED BY <1>2, <1>3, <2>1
<1>6. Prints(e, i) => /\ e.n \in (a + 1)..z
                      /\ \A n \in coming1 : e.n < r[n].n
                      /\ \A d \in late : d.n < e.n
  <2> SUFFICES ASSUME Prints(e, i)
               PROVE  /\ e.n \in (a + 1)..z /\ \A n \in coming1 : e.n < r[n].n
                      /\ \A d \in late : d.n < e.n
    OBVIOUS
  <2>1. 1 \in coming /\ q[1] = e
    BY <1>1, <1>3
  <2>2. ASSUME NEW n \in coming1 PROVE e.n < r[n].n
    <3>1. n + 1 \in coming /\ 1 < n + 1 /\ r[n] = q[n + 1]
      <4>1. n \in 1..(Len(q) - 1)
        BY <1>1
      <4> HIDE DEF coming, coming1
      <4> QED BY <1>1, <1>3, <4>1
    <3> HIDE DEF coming, coming1
    <3> QED BY <1>2, <2>1, <3>1
  <2> HIDE DEF coming, coming1, late
  <2> QED BY <1>2, <2>1, <2>2
<1>7. late1 = IF Prints(e, i) THEN late \cup {e} ELSE late
  OBVIOUS
<1>8. Flow(r, b \cup {e}, i, a, z)
  <2> HIDE DEF late, coming, late1, coming1
  <2>1. \A d \in late1 : d.n \in (a + 1)..z
    BY <1>2, <1>6, <1>7
  <2>2. \A n \in coming1 : r[n].n \in (a + 1)..z
    BY <1>2, <1>3
  <2>3. ASSUME NEW k \in (a + 1)..z
        PROVE  (\E d \in late1 : d.n = k) \/ (\E n \in coming1 : r[n].n = k)
    <3>1. CASE \E d \in late : d.n = k
      BY <1>7, <3>1
    <3>2. CASE \E n \in coming : q[n].n = k
      <4>1. PICK n \in coming : q[n].n = k
        BY <3>2
      <4>2. CASE n = 1
        BY <1>1, <1>3, <1>7, <4>1, <4>2
      <4>3. CASE n # 1
        BY <1>3, <4>1, <4>3
      <4> QED BY <4>2, <4>3
    <3> QED BY <1>2, <3>1, <3>2
  <2>4. \A d \in late1, n \in coming1 : d.n < r[n].n
    <3> SUFFICES ASSUME NEW d \in late1, NEW n \in coming1 PROVE d.n < r[n].n
      OBVIOUS
    <3>1. CASE d \in late
      <4>1. n + 1 \in coming /\ r[n] = q[n + 1]
        BY <1>3
      <4> QED BY <1>2, <3>1, <4>1
    <3>2. CASE d \notin late
      BY <1>6, <1>7, <3>2
    <3> QED BY <3>1, <3>2
  <2> QED BY <1>2, <1>4, <1>5, <2>1, <2>2, <2>3, <2>4 DEF Flow, late1, coming1
<1>9. ASSUME b = {}
      PROVE  /\ Prints(e, i) => e.n = a + 1
             /\ Flow(r, {}, i, IF Prints(e, i) THEN a + 1 ELSE a, z)
  <2>1. late = {} /\ {d \in {} : Prints(d, i)} = {}
    BY <1>9
  <2>2. CASE Prints(e, i)
    <3>1. e.n = a + 1
      <4>1. a + 1 \in (a + 1)..z
        BY <1>6, <2>2
      <4>2. PICK n \in coming : q[n].n = a + 1
        BY <1>2, <2>1, <4>1
      <4>3. CASE n = 1
        BY <1>1, <4>2, <4>3
      <4>4. CASE n # 1
        <5>1. n - 1 \in coming1 /\ r[n - 1] = q[n]
          BY <1>3, <4>4
        <5>2. e.n < a + 1 /\ e.n \in (a + 1)..z
          BY <1>6, <2>2, <4>2, <5>1
        <5> QED BY <5>2
      <4> QED BY <4>3, <4>4
    <3> HIDE DEF late, coming, coming1
    <3>2. a + 1 \in 0..z
      BY <1>6, <2>2, <3>1
    <3>3. \A n \in coming1 : r[n].n \in (a + 1 + 1)..z
      <4> SUFFICES ASSUME NEW n \in coming1 PROVE r[n].n \in (a + 1 + 1)..z
        OBVIOUS
      <4>1. r[n].n \in (a + 1)..z /\ e.n < r[n].n
        BY <1>2, <1>3, <1>6, <2>2
      <4> QED BY <3>1, <4>1
    <3>4. ASSUME NEW k \in (a + 1 + 1)..z PROVE \E n \in coming1 : r[n].n = k
      <4>1. PICK n \in coming : q[n].n = k
        BY <1>2, <2>1
      <4>2. n # 1
        BY <1>1, <3>1, <4>1
      <4> QED BY <1>3, <4>1, <4>2
    <3>5. Flow(r, {}, i, a + 1, z)
      BY <1>4, <1>5, <2>1, <3>2, <3>3, <3>4 DEF Flow, coming1
    <3> QED BY <2>2, <3>1, <3>5
  <2>3. CASE ~Prints(e, i)
    <3>1. b \cup {e} = {e}
      BY <1>9
    <3>2. {d \in b \cup {e} : Prints(d, i)} = {}
      BY <2>3, <3>1
    <3>3. Flow(r, {}, i, a, z)
      BY <1>8, <2>1, <3>2 DEF Flow
    <3> QED BY <2>3, <3>3
  <2> QED BY <2>2, <2>3
<1> QED BY <1>8, <1>9 DEF r, e

\* What the receiver was too slow for is passed.
LEMMA FlowLag ==
    ASSUME NEW E, NEW q \in Seq(E), NEW b, NEW i, NEW a \in Nat, NEW z \in Nat,
           Flow(q, b, i, a, z)
    PROVE  \E c \in a..z : /\ Flow(q, {}, i, c, z)
                           /\ (\A e \in b : ~Prints(e, i)) => c = a
<1> DEFINE late == {d \in b : Prints(d, i)}
           coming == {n \in DOMAIN q : Prints(q[n], i)}
<1>1. /\ a \in 0..z
      /\ \A d \in late : d.n \in (a + 1)..z
      /\ \A n \in coming : q[n].n \in (a + 1)..z
      /\ \A k \in (a + 1)..z : (\E d \in late : d.n = k) \/ (\E n \in coming : q[n].n = k)
      /\ \A m, n \in coming : m < n => q[m].n < q[n].n
      /\ \A d \in late, n \in coming : d.n < q[n].n
      /\ \A n \in DOMAIN q : Final(q[n], i) => q[n].n = z
  BY DEF Flow
<1>2. coming \subseteq Nat
  BY LenProperties
<1>3. {d \in {} : Prints(d, i)} = {}
  OBVIOUS
<1>4. CASE \A e \in b : ~Prints(e, i)
  <2>1. Flow(q, {}, i, a, z)
    BY <1>3, <1>4 DEF Flow
  <2> QED BY <1>1, <2>1
<1>5. CASE ~(\A e \in b : ~Prints(e, i))
  <2>1. CASE coming = {}
    <3>1. Flow(q, {}, i, z, z)
      <4>1. \A k \in (z + 1)..z : FALSE
        OBVIOUS
      <4> QED BY <1>1, <1>3, <2>1, <4>1 DEF Flow
    <3> QED BY <1>1, <1>5, <3>1
  <2>2. CASE coming # {}
    <3> HIDE DEF coming
    <3>1. PICK m \in coming : \A n \in coming : m <= n
      BY <1>2, <2>2, LeastOf
    <3> DEFINE c == q[m].n - 1
    <3>2. c \in a..z /\ q[m].n = c + 1 /\ c + 1 \in (a + 1)..z
      BY <1>1
    <3> HIDE DEF c
    <3>3. \A n \in coming : q[n].n \in (c + 1)..z
      <4> SUFFICES ASSUME NEW n \in coming PROVE q[n].n \in (c + 1)..z
        OBVIOUS
      <4>1. q[n].n \in (a + 1)..z /\ (n = m \/ q[m].n < q[n].n)
        BY <1>1, <1>2, <3>1
      <4> QED BY <3>2, <4>1
    <3>4. ASSUME NEW k \in (c + 1)..z PROVE \E n \in coming : q[n].n = k
      <4>1. k \in (a + 1)..z
        BY <3>2
      <4>2. \A d \in late : d.n # k
        <5>1. \A d \in late : d.n < c + 1 /\ d.n \in Int
          BY <1>1, <3>1, <3>2
        <5> HIDE DEF late
        <5> QED BY <3>2, <5>1
      <4> QED BY <1>1, <4>1, <4>2
    <3>5. Flow(q, {}, i, c, z)
      BY <1>1, <1>3, <3>2, <3>3, <3>4 DEF Flow, coming
    <3> QED BY <1>5, <3>2, <3>5
  <2> QED BY <2>1, <2>2
<1> QED BY <1>4, <1>5

\* What has passed is what is before the first on its way.
PassedOf(q, b, i, sent) ==
    LET due == {e.n : e \in {e \in b : Prints(e, i)}}
                 \cup {q[n].n : n \in {n \in DOMAIN q : Prints(q[n], i)}}
    IN  IF due = {} THEN sent ELSE (CHOOSE k \in due : \A n \in due : k <= n) - 1
LEMMA FlowPassed ==
    ASSUME NEW q, NEW b, NEW i, NEW a \in Nat, NEW z \in Nat, Flow(q, b, i, a, z)
    PROVE  PassedOf(q, b, i, z) = a
<1> DEFINE due == {e.n : e \in {e \in b : Prints(e, i)}}
                    \cup {q[n].n : n \in {n \in DOMAIN q : Prints(q[n], i)}}
<1>1. due = (a + 1)..z /\ a \in 0..z
  BY DEF Flow
<1> HIDE DEF due
<1>2. PICK x : x = CHOOSE k \in due : \A n \in due : k <= n
  OBVIOUS
<1>3. PassedOf(q, b, i, z) = IF due = {} THEN z ELSE x - 1
  <2>1. PassedOf(q, b, i, z) = IF due = {} THEN z ELSE (CHOOSE k \in due : \A n \in due : k <= n) - 1
    BY Zenon DEF PassedOf, due
  <2> QED BY <1>2, <2>1
<1>4. CASE due = {}
  <2>1. a = z
    <3> SUFFICES ASSUME a # z PROVE FALSE
      OBVIOUS
    <3>1. a + 1 \in (a + 1)..z
      BY <1>1
    <3> QED BY <1>1, <1>4, <3>1
  <2> QED BY <1>4, <1>3, <2>1
<1>5. CASE due # {}
  <2>1. a + 1 \in due /\ \A n \in due : a + 1 <= n
    BY <1>1, <1>5
  <2>2. x \in due /\ \A n \in due : x <= n
    BY <1>2, <2>1
  <2>3. x = a + 1
    BY <1>1, <2>1, <2>2
  <2> QED BY <1>1, <1>5, <1>3, <2>3
<1> QED BY <1>4, <1>5

\* An event is sent; if the channel is full, its oldest goes.
LEMMA FlowSend ==
    ASSUME NEW E, NEW q \in Seq(E), NEW b, NEW e \in E, NEW i, NEW a \in Nat, NEW z \in Nat,
           Flow(q, b, i, a, z),
           Prints(e, i) => e.n = z + 1 /\ ~HasFinal(q, i),
           Final(e, i) => e.n = z,
           NEW q1, NEW b1,
           \/ q1 = Append(q, e) /\ b1 = b
           \/ q # <<>> /\ q1 = Append(Tail(q), e) /\ b1 = b \cup {Head(q)}
    PROVE  Flow(q1, b1, i, a, IF Prints(e, i) THEN z + 1 ELSE z)
<1>1. CASE q1 = Append(q, e) /\ b1 = b
  BY <1>1, FlowAppend
<1>2. CASE q # <<>> /\ q1 = Append(Tail(q), e) /\ b1 = b \cup {Head(q)}
  <2>1. PICK r \in Seq(E) : r = Tail(q)
    BY <1>2, QueueTail
  <2>2. Flow(r, b1, i, a, z)
    BY <1>2, <2>1, FlowTail
  <2>3. HasFinal(r, i) => HasFinal(q, i)
    BY <1>2, <2>1, TailClosed
  <2>4. q1 = Append(r, e)
    BY <1>2, <2>1
  <2> QED BY <2>2, <2>3, <2>4, FlowAppend
<1> QED BY <1>1, <1>2

\* What has been kept of an item without a mark is what has passed of it.
ItemsGap(s, i, entry, passed) ==
    entry.marks = {} =>
        IF i \in s.tools
        THEN entry.tail # <<>> => entry.tail[Len(entry.tail)] = passed
        ELSE entry.tail = [n \in 1..passed |-> n]

\* An item has ended, and nothing of it is on its way.
Over(i, ended, q, b) == i \in ended /\ ~Mentions(q, i) /\ \A e \in b : e.item # i
ItemsTold(s, i, ended, q, b, kept, unseen, crossed, passed) ==
    /\ i \in DOMAIN kept /\ i \notin unseen /\ i \notin crossed => ItemsGap(s, i, kept[i], passed)
    /\ i \in DOMAIN kept /\ i \notin crossed /\ ~kept[i].active => Over(i, ended, q, b)
    /\ i \notin DOMAIN kept /\ i \notin unseen /\ i \notin crossed
         => passed = 0 \/ Over(i, ended, q, b)
ItemsFlow(s, i, sent, ended, q, b, kept, unseen, crossed) ==
    /\ Flow(q, b, i, PassedOf(q, b, i, sent[i]), sent[i])
    /\ ItemsTold(s, i, ended, q, b, kept, unseen, crossed, PassedOf(q, b, i, sent[i]))
LEMMA ItemsFlowOf ==
    ASSUME NEW s, NEW i, NEW a \in Nat, NEW sent, sent[i] \in Nat, NEW ended, NEW q, NEW b, NEW kept,
           NEW unseen, NEW crossed, Flow(q, b, i, a, sent[i]),
           ItemsTold(s, i, ended, q, b, kept, unseen, crossed, a)
    PROVE  ItemsFlow(s, i, sent, ended, q, b, kept, unseen, crossed)
<1>1. PassedOf(q, b, i, sent[i]) = a
  BY FlowPassed
<1> QED BY <1>1 DEF ItemsFlow

\* The invariant, item by item.
InOrderOf(q, b, i, z) ==
    LET late   == {e \in b : Prints(e, i)}
        coming == {n \in DOMAIN q : Prints(q[n], i)}
        a      == PassedOf(q, b, i, z)
    IN  /\ a \in 0..z /\ {e.n : e \in late} \cup {q[n].n : n \in coming} = (a + 1)..z
        /\ \A m, n \in coming : m < n => q[m].n < q[n].n
        /\ \A e \in late, n \in coming : e.n < q[n].n
        /\ \A n \in DOMAIN q : Final(q[n], i) => q[n].n = z
LEMMA FlowInOrder ==
    ASSUME NEW q, NEW b, NEW i, NEW z \in Nat
    PROVE  InOrderOf(q, b, i, z) <=> Flow(q, b, i, PassedOf(q, b, i, z), z)
<1>1. PICK a : a = PassedOf(q, b, i, z)
  OBVIOUS
<1> DEFINE late == {e \in b : Prints(e, i)}
           coming == {n \in DOMAIN q : Prints(q[n], i)}
<1>2. {e.n : e \in late} \cup {q[n].n : n \in coming} = (a + 1)..z <=>
        /\ \A e \in late : e.n \in (a + 1)..z
        /\ \A n \in coming : q[n].n \in (a + 1)..z
        /\ \A k \in (a + 1)..z : (\E e \in late : e.n = k) \/ (\E n \in coming : q[n].n = k)
  <2> HIDE DEF late, coming
  <2> DEFINE S == (a + 1)..z
  <2> HIDE DEF S
  <2>1. {e.n : e \in late} \cup {q[n].n : n \in coming} = S <=>
          /\ \A e \in late : e.n \in S
          /\ \A n \in coming : q[n].n \in S
          /\ \A k \in S : (\E e \in late : e.n = k) \/ (\E n \in coming : q[n].n = k)
    OBVIOUS
  <2> QED BY <2>1 DEF S
<1> QED BY <1>1, <1>2 DEF InOrderOf, Flow

LEMMA ItemsInOrder ==
    ASSUME NEW s \in ItemsScopes
    PROVE  /\ \A i : Items(s)!Passed(i) = PassedOf(v3, v4, i, v1[i])
           /\ Items(s)!InOrder <=> \A i \in Items(s)!Items : InOrderOf(v3, v4, i, v1[i])
<1>1. \A i : Items(s)!Passed(i) = PassedOf(v3, v4, i, v1[i])
  BY Zenon DEF Items!Passed, PassedOf, Items!Due, Items!Late, Items!Coming, Items!Prints, Items!Endings, Prints, Finals
<1>2. Items(s)!InOrder <=> \A i \in Items(s)!Items : InOrderOf(v3, v4, i, v1[i])
  BY <1>1, Zenon DEF Items!InOrder, InOrderOf, Items!Due, Items!Late, Items!Coming, Items!Prints,
     Items!Ends, Items!Endings, Prints, Final, Finals
<1> QED BY <1>1, <1>2

ItemsFlowInv(s) ==
    \A i \in Items(s)!Items : ItemsFlow(s, i, v1, v2, v3, v4, v5, v11, v12)
LEMMA ItemsFlowUnfold ==
    ASSUME NEW s \in ItemsScopes, ItemsSent(s), ItemsKept(s)
    PROVE  Items(s)!InOrder /\ Items(s)!Rests /\ Items(s)!Unknown /\ Items(s)!GapIsSaid
             <=> ItemsFlowInv(s)
<1>1. \A i : Items(s)!Done(i) <=> Over(i, v2, v3, v4)
  BY DEF Items!Done, Over, Mentions
<1>2. \A i \in Items(s)!Items : v1[i] \in Nat
  BY DEF ItemsSent
<1>3. DOMAIN v5 \subseteq Items(s)!Items
  BY DEF ItemsKept
<1>4. Items(s)!InOrder <=> \A i \in Items(s)!Items : Flow(v3, v4, i, PassedOf(v3, v4, i, v1[i]), v1[i])
  BY <1>2, ItemsInOrder, FlowInOrder
<1>5. Items(s)!Rests <=> \A i \in DOMAIN v5 \ v12 : ~v5[i].active => Over(i, v2, v3, v4)
  BY <1>1 DEF Items!Rests, Items!Known
<1>6. Items(s)!Unknown <=>
        \A i \in Items(s)!Items \ (DOMAIN v5 \cup v11 \cup v12) :
            PassedOf(v3, v4, i, v1[i]) = 0 \/ Over(i, v2, v3, v4)
  BY <1>1, ItemsInOrder DEF Items!Unknown, Items!Known
<1>7. Items(s)!GapIsSaid <=>
        \A i \in DOMAIN v5 \ (v11 \cup v12) : ItemsGap(s, i, v5[i], PassedOf(v3, v4, i, v1[i]))
  BY ItemsInOrder DEF Items!GapIsSaid, Items!Known, ItemsGap
<1> QED BY <1>3, <1>4, <1>5, <1>6, <1>7 DEF ItemsFlowInv, ItemsFlow, ItemsTold

\* What the end of a text is, and what is kept of one.
LEMMA ItemsLast ==
    ASSUME NEW s \in ItemsScopes, NEW tail \in Seq(Nat), NEW n \in Nat
    PROVE  LET t == Items(s)!Trim(Append(tail, n)) IN t # <<>> => t[Len(t)] = n
<1> DEFINE whole == Append(tail, n)
<1>1. whole \in Seq(Nat) /\ whole[Len(whole)] = n /\ Len(whole) \in Nat \ {0}
  <2>1. /\ whole \in Seq(Nat) /\ Len(tail) \in Nat
        /\ whole[Len(tail) + 1] = n /\ Len(whole) = Len(tail) + 1
    BY QueueAppend
  <2> QED BY <2>1
<1> HIDE DEF whole
<1>2. PICK t : t = Items(s)!Trim(whole)
  OBVIOUS
<1>3. t # <<>> => t[Len(t)] = n
  <2>1. CASE Len(whole) <= s.tail
    BY <1>1, <1>2, <2>1 DEF Items!Trim
  <2>2. CASE ~(Len(whole) <= s.tail)
    <3>1. PICK from : from = Len(whole) - s.tail + 1
      OBVIOUS
    <3>2. PICK m \in Nat : m = Len(whole)
      BY <1>1
    <3>3. from \in 1..(m + 1) /\ s.tail \in Nat
      BY <1>1, <2>2, <3>1, <3>2, ItemsBounds
    <3>4. t = SubSeq(whole, from, m)
      BY <1>2, <2>2, <3>1, <3>2 DEF Items!Trim
    <3>5. \A k \in from..m : whole[k] \in Nat
      BY <1>1, <3>2, <3>3, LenProperties
    <3>6. /\ Len(t) = IF from <= m THEN m - from + 1 ELSE 0
          /\ \A k \in 1..(m - from + 1) : t[k] = whole[from + k - 1]
          /\ t \in Seq(Nat)
      BY <3>3, <3>4, <3>5, SubSeqProperties
    <3>7. CASE from <= m
      <4>1. m - from + 1 \in 1..(m - from + 1) /\ from + (m - from + 1) - 1 = m
        BY <3>3, <3>7
      <4> QED BY <1>1, <3>2, <3>6, <3>7, <4>1
    <3>8. CASE ~(from <= m)
      BY <3>6, <3>8, EmptySeq
    <3> QED BY <3>7, <3>8
  <2> QED BY <2>1, <2>2
<1> QED BY <1>2, <1>3 DEF whole

\* What has passed of an item with the next output, or with its end.
LEMMA ItemsTells ==
    ASSUME NEW s \in ItemsScopes, NEW i, NEW entry \in Items(s)!Entry, NEW n \in Nat
    PROVE  /\ i \in s.tools => ItemsGap(s, i, Items(s)!WithMessage(entry, n), n)
           /\ i \notin s.tools /\ n > 0 /\ ItemsGap(s, i, entry, n - 1)
                => ItemsGap(s, i, Items(s)!WithText(entry, n), n)
           /\ \A large : ItemsGap(s, i, Items(s)!Undecoded(entry, large), n)
           /\ \A ending \in Finals : ending = "whole" \/ ItemsGap(s, i, entry, n)
                => ItemsGap(s, i, Items(s)!Completed(i, entry, ending, n), n)
<1>1. /\ entry \in [tail : Seq(Nat), active : BOOLEAN, done : BOOLEAN, marks : SUBSET Items(s)!Marks]
      /\ entry.tail \in Seq(Nat)
  BY ItemsEntries DEF Items!Entry
<1>2. \A tail \in Seq(Nat) : LET t == Items(s)!Trim(Append(tail, n)) IN t # <<>> => t[Len(t)] = n
  BY ItemsLast
<1>3. i \in s.tools => ItemsGap(s, i, Items(s)!WithMessage(entry, n), n)
  BY <1>1, <1>2 DEF ItemsGap, Items!WithMessage
<1>4. ASSUME i \notin s.tools, n > 0, ItemsGap(s, i, entry, n - 1)
      PROVE  ItemsGap(s, i, Items(s)!WithText(entry, n), n)
  <2>1. PICK longer : longer = Append(entry.tail, n)
    OBVIOUS
  <2>2. PICK kept : kept = Items(s)!WithText(entry, n)
    OBVIOUS
  <2>3. kept.tail = Items(s)!Trim(longer) /\ kept.marks = entry.marks \cup Items(s)!Cut(longer)
    BY <1>1, <2>1, <2>2 DEF Items!WithText
  <2>4. ASSUME kept.marks = {} PROVE kept.tail = [m \in 1..n |-> m]
    <3>1. entry.marks = {} /\ Items(s)!Cut(longer) = {}
      BY <2>3, <2>4
    <3>2. kept.tail = longer
      BY <2>3, <3>1 DEF Items!Trim, Items!Cut
    <3>3. entry.tail = [m \in 1..(n - 1) |-> m]
      BY <1>4, <3>1 DEF ItemsGap
    <3>4. Len(entry.tail) = n - 1
      BY <1>1, <1>4, <3>3, LenProperties
    <3>5. longer = [m \in 1..n |-> m]
      BY <1>1, <1>4, <2>1, <3>3, <3>4
    <3> QED BY <3>2, <3>5
  <2> QED BY <1>4, <2>2, <2>4 DEF ItemsGap
<1>5. \A large : ItemsGap(s, i, Items(s)!Undecoded(entry, large), n)
  BY <1>1 DEF ItemsGap, Items!Undecoded
<1>6. ASSUME NEW ending \in Finals, ending = "whole" \/ ItemsGap(s, i, entry, n)
      PROVE  ItemsGap(s, i, Items(s)!Completed(i, entry, ending, n), n)
  <2>1. PICK kept : kept = [entry EXCEPT !.active = FALSE, !.done = TRUE]
    OBVIOUS
  <2>2. /\ kept \in [tail : Seq(Nat), active : BOOLEAN, done : BOOLEAN, marks : SUBSET Items(s)!Marks]
        /\ kept.tail = entry.tail /\ kept.marks = entry.marks
    BY <1>1, <2>1
  <2>3. CASE ending = "bare"
    <3>1. Items(s)!Completed(i, entry, ending, n) = kept
      BY <2>1, <2>3 DEF Items!Completed
    <3> QED BY <1>6, <2>2, <2>3, <3>1 DEF ItemsGap
  <2>4. CASE ending = "huge"
    <3>1. Items(s)!Completed(i, entry, ending, n)
            = [kept EXCEPT !.marks = @ \cup {"incomplete", "truncated"}]
      BY <2>1, <2>4 DEF Items!Completed
    <3>2. Items(s)!Completed(i, entry, ending, n).marks # {}
      BY <2>2, <3>1
    <3> QED BY <3>2 DEF ItemsGap
  <2>5. CASE ending = "whole"
    <3>1. Items(s)!Completed(i, entry, ending, n) = Items(s)!Healed(i, kept, n)
      BY <2>1, <2>5 DEF Items!Completed
    <3>2. CASE i \in s.tools
      <4>1. Items(s)!Healed(i, kept, n).tail = Items(s)!Trim(Append(kept.tail, n))
        BY <2>2, <3>2 DEF Items!Healed
      <4> QED BY <1>2, <2>2, <3>1, <3>2, <4>1 DEF ItemsGap
    <3>3. CASE i \notin s.tools
      <4>1. PICK whole : whole = [m \in 1..n |-> m]
        OBVIOUS
      <4>2. /\ Items(s)!Healed(i, kept, n).tail = Items(s)!Trim(whole)
            /\ Items(s)!Healed(i, kept, n).marks = Items(s)!Cut(whole)
        BY <2>2, <3>3, <4>1 DEF Items!Healed
      <4>3. Items(s)!Cut(whole) = {} => Items(s)!Trim(whole) = whole
        BY DEF Items!Cut, Items!Trim
      <4> QED BY <3>1, <3>3, <4>1, <4>2, <4>3 DEF ItemsGap
    <3> QED BY <3>2, <3>3
  <2> QED BY <2>3, <2>4, <2>5 DEF Finals
<1> QED BY <1>3, <1>4, <1>5, <1>6

\* An entry that does not run takes the place of none that does.
LEMMA ItemsEvicts ==
    ASSUME NEW s \in ItemsScopes, ItemsKept(s), NEW i \in Items(s)!Items,
           NEW entry \in Items(s)!Entry, entry.active = FALSE, Items(s)!Store(i, entry)
    PROVE  \A k \in DOMAIN v5 \ DOMAIN v5' : v5[k].active = FALSE
<1>1. PICK entries : entries = [k \in DOMAIN v5 \cup {i} |-> IF k = i THEN entry ELSE v5[k]]
  OBVIOUS
<1>2. PICK clock : clock = [k \in DOMAIN entries |->
                              IF k = i THEN Items(s)!Cardinality(DOMAIN v5) + 1 ELSE v6[k]]
  OBVIOUS
<1>3. PICK map : map = Items(s)!MapOf(i)
  OBVIOUS
<1>4. PICK gone : gone = Items(s)!Excess(map, entries, clock)
  OBVIOUS
<1>5. DOMAIN v5' = DOMAIN entries \ gone
  <2>1. Items(s)!Put(i, entry) = entries
    BY <1>1 DEF Items!Put, Items!Known
  <2>2. v5' = [k \in DOMAIN entries \ gone |-> entries[k]]
    <3> HIDE <1>1, <1>2
    <3> QED BY <1>2, <1>3, <1>4, <2>1 DEF Items!Store, Items!Known
  <2> QED BY <2>2
<1>6. /\ DOMAIN entries = DOMAIN v5 \cup {i} /\ entries[i] = entry
      /\ \A k \in DOMAIN v5 \ {i} : entries[k] = v5[k]
  BY <1>1
<1>7. i \in DOMAIN v5'
  BY ItemsStored
<1> DEFINE active == Items(s)!Class(map, entries, TRUE)
           recent == Items(s)!Class(map, entries, FALSE)
           running == {k \in map \cap DOMAIN v5 : v5[k].active = TRUE}
<1>8. active \subseteq running /\ \A k \in recent : k \in DOMAIN entries /\ entries[k].active = FALSE
  BY <1>6 DEF Items!Class
<1>9. ~(Cardinality(active) > s.active)
  <2>1. map \in {Items(s)!ThreadItems, Items(s)!Processes}
    BY <1>3 DEF Items!MapOf
  <2>2. Cardinality(running) <= s.active
    BY <2>1 DEF ItemsKept, InLimits
  <2>3. running \in SUBSET DOMAIN v5
    OBVIOUS
  <2> HIDE DEF active, running
  <2>4. IsFiniteSet(running)
    BY <2>3, FS_Subset DEF ItemsKept
  <2>5. /\ Cardinality(active) <= Cardinality(running)
        /\ Cardinality(active) \in Nat /\ Cardinality(running) \in Nat
    BY <1>8, <2>4, FS_Subset, FS_CardinalityType
  <2> QED BY <2>2, <2>5, ItemsBounds
<1>10. gone = IF Cardinality(recent) > s.recent THEN {Items(s)!Oldest(recent, clock)} ELSE {}
  BY <1>4, <1>9, ItemsCounts DEF Items!Excess
<1>11. gone \subseteq recent
  <2>1. CASE Cardinality(recent) > s.recent
    <3>1. recent # {}
      <4> HIDE DEF recent
      <4> SUFFICES ASSUME recent = {} PROVE FALSE
        OBVIOUS
      <4> QED BY <2>1, FS_EmptySet, ItemsBounds
    <3>2. \A k \in recent : clock[k] \in Nat
      <4>1. Items(s)!Cardinality(DOMAIN v5) \in Nat
        BY ItemsCounts, FS_CardinalityType DEF ItemsKept
      <4>2. \A k \in DOMAIN v5 : v6[k] \in Nat
        BY FS_CardinalityType DEF ItemsKept
      <4>3. \A k \in DOMAIN entries : clock[k] \in Nat
        BY <1>2, <1>6, <4>1, <4>2
      <4> QED BY <1>8, <4>3
    <3>3. Items(s)!Oldest(recent, clock) \in recent
      <4> HIDE DEF recent
      <4> QED BY <3>1, <3>2, ItemsOldest
    <3> QED BY <1>10, <2>1, <3>3
  <2>2. CASE ~(Cardinality(recent) > s.recent)
    BY <1>10, <2>2
  <2> QED BY <2>1, <2>2
<1> QED BY <1>5, <1>6, <1>7, <1>8, <1>11

\* When nothing of an item is on its way, all of it has passed.
LEMMA FlowOver ==
    ASSUME NEW q, NEW b, NEW i, NEW a \in Nat, NEW z \in Nat, Flow(q, b, i, a, z),
           ~Mentions(q, i), \A e \in b : e.item # i
    PROVE  a = z
<1>1. /\ a \in 0..z
      /\ \A k \in (a + 1)..z : \/ \E e \in b : e.item = i
                               \/ \E n \in DOMAIN q : q[n].item = i
  BY DEF Flow, Prints
<1>2. \A k \in (a + 1)..z : FALSE
  BY <1>1 DEF Mentions
<1> SUFFICES ASSUME a # z PROVE FALSE
  OBVIOUS
<1>3. a + 1 \in (a + 1)..z
  BY <1>1
<1> QED BY <1>2, <1>3

\* What is known of an item, with what has passed of it.
LEMMA ItemsPassing ==
    ASSUME NEW s \in ItemsScopes, ItemsSent(s), ItemsFlowInv(s), NEW i \in Items(s)!Items
    PROVE  \E a \in Nat : /\ v1[i] \in Nat /\ Flow(v3, v4, i, a, v1[i])
                          /\ ItemsTold(s, i, v2, v3, v4, v5, v11, v12, a)
<1>1. v1[i] \in Nat
  BY DEF ItemsSent
<1>2. PICK a : a = PassedOf(v3, v4, i, v1[i])
  OBVIOUS
<1>3. Flow(v3, v4, i, a, v1[i]) /\ ItemsTold(s, i, v2, v3, v4, v5, v11, v12, a)
  BY <1>2 DEF ItemsFlowInv, ItemsFlow
<1>4. a \in Nat
  BY <1>1, <1>3 DEF Flow
<1> QED BY <1>1, <1>3, <1>4

\* What is kept of an item, if only a fresh entry, tells what has passed of it.
LEMMA ItemsOf ==
    ASSUME NEW s \in ItemsScopes, NEW i, NEW a, ItemsTold(s, i, v2, v3, v4, v5, v11, v12, a),
           i \notin v11, i \notin v12, ~Over(i, v2, v3, v4)
    PROVE  ItemsGap(s, i, Items(s)!Of(i), a)
<1>1. CASE i \in DOMAIN v5
  <2>1. Items(s)!Of(i) = v5[i]
    BY <1>1 DEF Items!Of, Items!Known
  <2> QED BY <1>1, <2>1 DEF ItemsTold
<1>2. CASE i \notin DOMAIN v5
  <2>1. Items(s)!Of(i).tail = <<>>
    BY <1>2 DEF Items!Of, Items!Known, Items!Fresh
  <2>2. a = 0
    BY <1>2 DEF ItemsTold
  <2>3. <<>> = [n \in 1..0 |-> n]
    OBVIOUS
  <2> QED BY <2>1, <2>2, <2>3 DEF ItemsGap
<1> QED BY <1>1, <1>2

\* An event is sent: nothing has passed by that.
LEMMA ItemsFlowSent ==
    ASSUME NEW s \in ItemsScopes, Items(s)!ShowInv, ItemsFlowInv(s),
           NEW e \in Items(s)!Event, Items(s)!Send(e), e.item \notin v2,
           IF e.kind \in Finals THEN v1' = v1 /\ v2' = v2 \cup {e.item} /\ e.n = v1[e.item]
           ELSE v1' = [v1 EXCEPT ![e.item] = @ + 1] /\ v2' = v2 /\ e.n = v1[e.item] + 1,
           UNCHANGED <<v5, v11, v12>>
    PROVE  ItemsFlowInv(s)'
<1> DEFINE E == Items(s)!Event
<1>1. ItemsSent(s) /\ \A j : ItemsEnd(s, j, v3, v2, v12)
  BY ItemsUnfold DEF ItemsInv
<1>2. e \in E /\ e.item \in Items(s)!Items /\ v3 \in Seq(E) /\ s.queue \in Nat \ {0}
  BY <1>1, ItemsBounds DEF Items!Event, ItemsSent
<1>3. \/ v3' = Append(v3, e) /\ v4' = v4
      \/ v3 # <<>> /\ v3' = Append(Tail(v3), e) /\ v4' = v4 \cup {Head(v3)}
  <2>1. CASE Len(v3) < s.queue
    BY <2>1 DEF Items!Send
  <2>2. CASE ~(Len(v3) < s.queue)
    <3>1. v3' = Append(Tail(v3), e) /\ v4' = v4 \cup {Head(v3)}
      BY <2>2 DEF Items!Send
    <3>2. v3 # <<>>
      <4>1. Len(v3) \in Nat
        BY <1>2, LenProperties
      <4> QED BY <1>2, <2>2, <4>1, EmptySeq
    <3> QED BY <3>1, <3>2
  <2> QED BY <2>1, <2>2
<1> HIDE DEF E
<1>4. ~HasFinal(v3, e.item)
  <2>1. ItemsEnd(s, e.item, v3, v2, v12)
    BY <1>1
  <2>2. HasFinal(v3, e.item) => Mentions(v3, e.item)
    BY DEF HasFinal, Mentions, Final
  <2> QED BY <2>1, <2>2 DEF ItemsEnd, Closed, HasFinal, Final
<1>5. ASSUME NEW j, Over(j, v2, v3, v4)
      PROVE  Over(j, v2', v3', v4')
  <2>1. j \in v2 /\ j \in v2' /\ j # e.item /\ ~Mentions(v3, j) /\ \A d \in v4 : d.item # j
    BY <1>5 DEF Over
  <2>2. CASE v3' = Append(v3, e) /\ v4' = v4
    BY <1>2, <2>1, <2>2, AppendMentions DEF Over
  <2>3. CASE v3 # <<>> /\ v3' = Append(Tail(v3), e) /\ v4' = v4 \cup {Head(v3)}
    <3>1. PICK r \in Seq(E) : r = Tail(v3)
      BY <1>2, <2>3, QueueTail
    <3>2. Mentions(v3, j) <=> Mentions(r, j) \/ Head(v3).item = j
      BY <1>2, <2>3, <3>1, TailClosed
    <3>3. Mentions(v3', j) <=> Mentions(r, j) \/ e.item = j
      BY <1>2, <2>3, <3>1, AppendMentions
    <3> QED BY <2>1, <2>3, <3>2, <3>3 DEF Over
  <2> QED BY <1>3, <2>2, <2>3
<1>6. ASSUME NEW i \in Items(s)!Items
      PROVE  ItemsFlow(s, i, v1', v2', v3', v4', v5', v11', v12')
  <2>1. PICK a \in Nat : /\ v1[i] \in Nat /\ Flow(v3, v4, i, a, v1[i])
                         /\ ItemsTold(s, i, v2, v3, v4, v5, v11, v12, a)
    BY <1>1, ItemsPassing
  <2>2. /\ Prints(e, i) => e.n = v1[i] + 1 /\ ~HasFinal(v3, i)
        /\ Final(e, i) => e.n = v1[i]
    BY <1>4 DEF Prints, Final
  <2>3. Flow(v3', v4', i, a, IF Prints(e, i) THEN v1[i] + 1 ELSE v1[i])
    BY <1>2, <1>3, <2>1, <2>2, FlowSend
  <2>4. v1'[i] = IF Prints(e, i) THEN v1[i] + 1 ELSE v1[i]
    <3>1. v1 = [k \in Items(s)!Items |-> v1[k]]
      BY <1>1 DEF ItemsSent
    <3> QED BY <3>1 DEF Prints
  <2>5. ItemsTold(s, i, v2', v3', v4', v5', v11', v12', a)
    BY <1>5, <2>1 DEF ItemsTold
  <2>6. v1'[i] \in Nat
    BY <2>1, <2>4
  <2> QED BY <2>1, <2>3, <2>4, <2>5, <2>6, ItemsFlowOf
<1>7. Items(s)!Items' = Items(s)!Items
  BY DEF Items!Items, Items!ThreadItems, Items!Processes
<1> QED BY <1>6, <1>7 DEF ItemsFlowInv

LEMMA ItemsFlowOutput ==
    ASSUME NEW s \in ItemsScopes, Items(s)!ShowInv, ItemsFlowInv(s), NEW i \in Items(s)!Items,
           NEW chunk \in Items(s)!Chunks(i), Items(s)!Output(i, chunk)
    PROVE  ItemsFlowInv(s)'
<1>1. PICK e : e = [item |-> i, kind |-> chunk, n |-> v1[i] + 1]
  OBVIOUS
<1>2. /\ i \notin v2 /\ v1' = [v1 EXCEPT ![i] = @ + 1] /\ Items(s)!Send(e)
      /\ UNCHANGED <<v2, v5, v11, v12>>
  BY <1>1 DEF Items!Output, Items!Relay
<1>3. chunk \in {"text", "large", "bad"}
  BY DEF Items!Chunks
<1>4. v1[i] + 1 \in Nat
  BY ItemsUnfold DEF ItemsSent
<1>5. e \in Items(s)!Event /\ e.kind \notin Finals
  BY <1>1, <1>3, <1>4 DEF Items!Event, Finals
<1> QED BY <1>1, <1>2, <1>5, ItemsFlowSent

LEMMA ItemsFlowFinish ==
    ASSUME NEW s \in ItemsScopes, Items(s)!ShowInv, ItemsFlowInv(s), NEW i \in Items(s)!Items,
           NEW ending \in Items(s)!Endings, Items(s)!Finish(i, ending)
    PROVE  ItemsFlowInv(s)'
<1>1. PICK e : e = [item |-> i, kind |-> ending, n |-> v1[i]]
  OBVIOUS
<1>2. /\ i \notin v2 /\ v2' = v2 \cup {i} /\ Items(s)!Send(e)
      /\ UNCHANGED <<v1, v5, v11, v12>>
  BY <1>1 DEF Items!Finish, Items!Relay
<1>3. v1[i] \in Nat
  BY ItemsUnfold DEF ItemsSent
<1>4. e \in Items(s)!Event /\ e.kind \in Finals
  BY <1>1, <1>3 DEF Items!Event, Items!Endings, Finals
<1> QED BY <1>1, <1>2, <1>4, ItemsFlowSent

\* Nothing passes, nothing is sent.
LEMMA ItemsFlowSame ==
    ASSUME NEW s \in ItemsScopes, ItemsFlowInv(s), UNCHANGED <<v1, v2, v3, v4, v5, v11, v12>>
    PROVE  ItemsFlowInv(s)'
BY DEF ItemsFlowInv, Items!Items, Items!ThreadItems, Items!Processes

\* The answer of a command/exec overtakes what is on its way of the process, or
\* all of it has passed.
LEMMA ItemsFlowAnswered ==
    ASSUME NEW s \in ItemsScopes, Items(s)!ShowInv, ItemsFlowInv(s), NEW p \in s.execs,
           NEW ending \in Items(s)!Endings, Items(s)!Answered(p, ending)
    PROVE  ItemsFlowInv(s)'
<1>1. /\ ItemsSent(s) /\ ItemsKept(s)
      /\ ItemsAnswers(s, v2, v10)
  BY ItemsUnfold DEF ItemsInv
<1>2. PICK entry : entry = Items(s)!Completed(p, Items(s)!Of(p), ending, v1[p])
  OBVIOUS
<1>3. /\ v10[p].pc = "wait" /\ v2' = v2 \cup {p} /\ Items(s)!Store(p, entry)
      /\ v12' = (IF Items(s)!InFlight(p) THEN v12 \cup {p} ELSE v12)
      /\ UNCHANGED <<v1, v3, v4, v11>>
  BY <1>2 DEF Items!Answered
<1>4. p \in Items(s)!Items /\ v1[p] \in Nat
  BY <1>1 DEF Items!Items, Items!Processes, ItemsSent
<1>5. p \notin v2
  BY <1>1, <1>3 DEF ItemsAnswers
<1>6. entry \in Items(s)!Entry /\ entry.active = FALSE
  <2>1. Items(s)!Of(p) \in Items(s)!Entry
    BY <1>1, ItemsFresh
  <2>2. LET kept == Items(s)!Completed(p, Items(s)!Of(p), ending, v1[p])
        IN  kept \in Items(s)!Entry /\ kept.active = FALSE
    BY <1>4, <2>1, ItemsCompletes
  <2> QED BY <1>2, <2>2
<1>7. /\ p \in DOMAIN v5' /\ v5'[p] = entry
      /\ \A k \in DOMAIN v5' \ {p} : k \in DOMAIN v5 /\ v5'[k] = v5[k]
      /\ \A k \in DOMAIN v5 \ DOMAIN v5' : v5[k].active = FALSE
  BY <1>1, <1>3, <1>4, <1>6, ItemsStored, ItemsEvicts
<1>8. ASSUME NEW j, Over(j, v2, v3, v4)
      PROVE  Over(j, v2', v3', v4')
  BY <1>3, <1>8 DEF Over, Mentions
<1>9. ASSUME NEW i \in Items(s)!Items
      PROVE  ItemsFlow(s, i, v1', v2', v3', v4', v5', v11', v12')
  <2>1. PICK a \in Nat : /\ v1[i] \in Nat /\ Flow(v3, v4, i, a, v1[i])
                         /\ ItemsTold(s, i, v2, v3, v4, v5, v11, v12, a)
    BY <1>1, ItemsPassing
  <2>2. CASE i # p
    <3>1. i \in v12 <=> i \in v12'
      BY <1>3, <2>2
    <3>2. ItemsTold(s, i, v2', v3', v4', v5', v11', v12', a)
      BY <1>3, <1>7, <1>8, <2>1, <2>2, <3>1 DEF ItemsTold
    <3> QED BY <1>3, <2>1, <3>2, ItemsFlowOf
  <2>3. CASE i = p /\ i \in v12'
    <3>1. ItemsTold(s, i, v2', v3', v4', v5', v11', v12', a)
      BY <2>3 DEF ItemsTold
    <3> QED BY <1>3, <2>1, <3>1, ItemsFlowOf
  <2>4. CASE i = p /\ i \notin v12'
    <3>1. i \notin v12 /\ ~Mentions(v3, i) /\ \A e \in v4 : e.item # i
      BY <1>3, <2>4 DEF Items!InFlight, Mentions
    <3>2. a = v1[i]
      BY <2>1, <3>1, FlowOver
    <3>3. Over(i, v2', v3', v4')
      BY <1>3, <2>4, <3>1 DEF Over
    <3>4. i \notin v11 => ItemsGap(s, i, v5'[i], a)
      <4> SUFFICES ASSUME i \notin v11 PROVE ItemsGap(s, i, v5'[i], a)
        OBVIOUS
      <4>1. ItemsGap(s, i, Items(s)!Of(i), a)
        BY <1>5, <2>1, <2>4, <3>1, ItemsOf DEF Over
      <4>2. Items(s)!Of(i) \in Items(s)!Entry
        BY <1>1, ItemsFresh
      <4>3. ending \in Finals
        BY DEF Items!Endings, Finals
      <4>4. ItemsGap(s, i, Items(s)!Completed(i, Items(s)!Of(i), ending, a), a)
        BY <2>1, <4>1, <4>2, <4>3, ItemsTells
      <4> QED BY <1>2, <1>7, <2>4, <3>2, <4>4
    <3>5. ItemsTold(s, i, v2', v3', v4', v5', v11', v12', a)
      BY <1>3, <1>7, <2>4, <3>3, <3>4 DEF ItemsTold
    <3> QED BY <1>3, <2>1, <3>5, ItemsFlowOf
  <2> QED BY <2>2, <2>3, <2>4
<1>10. Items(s)!Items' = Items(s)!Items
  BY DEF Items!Items, Items!ThreadItems, Items!Processes
<1> QED BY <1>9, <1>10 DEF ItemsFlowInv

\* The consumer applies an event: the item's output has passed up to it.
LEMMA ItemsFlowApply ==
    ASSUME NEW s \in ItemsScopes, Items(s)!ShowInv, ItemsFlowInv(s), NEW entry \in Items(s)!Entry,
           v4 = {}, v3 # <<>>, v3' = Tail(v3), Items(s)!Store(Head(v3).item, entry),
           IF Head(v3).kind \in Finals THEN TRUE ELSE entry.active = TRUE,
           \A j : j # Head(v3).item /\ j \notin v11' => j \notin v11 /\ (j \in DOMAIN v5 => j \in DOMAIN v5'),
           LET e == Head(v3)
               i == e.item
           IN  /\ i \notin v11' /\ e.n \in Nat
               /\ i \in v11 \/ ItemsGap(s, i, Items(s)!Of(i), IF e.kind \in Finals THEN e.n ELSE e.n - 1)
               /\ e.kind \in Finals \/ e.n > 0
               => ItemsGap(s, i, entry, e.n),
           UNCHANGED <<v1, v2, v4, v12>>
    PROVE  ItemsFlowInv(s)'
<1> DEFINE E == Items(s)!Event
<1>1. /\ ItemsSent(s) /\ ItemsKept(s) /\ \A j : ItemsEnd(s, j, v3, v2, v12)
  BY ItemsUnfold DEF ItemsInv
<1>2. v3 \in Seq(E)
  BY <1>1 DEF ItemsSent
<1> HIDE DEF E
<1>3. PICK e : e = Head(v3)
  OBVIOUS
<1>4. e \in E /\ e.item \in Items(s)!Items
  <2>1. e \in E
    BY <1>2, <1>3, QueueTail
  <2> QED BY <2>1 DEF E, Items!Event
<1>5. /\ e.item \in DOMAIN v5' /\ v5'[e.item] = entry
      /\ \A k \in DOMAIN v5' \ {e.item} : k \in DOMAIN v5 /\ v5'[k] = v5[k]
  BY <1>1, <1>3, <1>4, ItemsStored
<1>6. \A j : Mentions(v3, j) <=> Mentions(v3', j) \/ e.item = j
  BY <1>2, <1>3, TailClosed
<1>7. ASSUME NEW j, Over(j, v2, v3, v4)
      PROVE  Over(j, v2', v3', v4')
  BY <1>6, <1>7 DEF Over
<1>8. ASSUME NEW i \in Items(s)!Items
      PROVE  ItemsFlow(s, i, v1', v2', v3', v4', v5', v11', v12')
  <2>1. PICK a \in Nat : /\ v1[i] \in Nat /\ Flow(v3, v4, i, a, v1[i])
                         /\ ItemsTold(s, i, v2, v3, v4, v5, v11, v12, a)
    BY <1>1, ItemsPassing
  <2>2. /\ Prints(e, i) => e.n = a + 1
        /\ Flow(v3', v4', i, IF Prints(e, i) THEN a + 1 ELSE a, v1[i])
    BY <1>2, <1>3, <2>1, FlowTail
  <2>3. CASE i # e.item
    <3>1. Flow(v3', v4', i, a, v1[i])
      BY <2>2, <2>3 DEF Prints
    <3>2. i \notin v11' => i \notin v11 /\ (i \in DOMAIN v5 => i \in DOMAIN v5')
      BY <1>3, <2>3
    <3>3. ItemsTold(s, i, v2', v3', v4', v5', v11', v12', a)
      BY <1>5, <1>7, <2>1, <2>3, <3>2 DEF ItemsTold
    <3> QED BY <2>1, <3>1, <3>3, ItemsFlowOf
  <2>4. CASE i = e.item
    <3>1. ~Over(i, v2, v3, v4)
      BY <1>6, <2>4 DEF Over
    <3>2. CASE e.kind \notin Finals
      <4>1. e.n = a + 1 /\ Flow(v3', v4', i, a + 1, v1[i])
        BY <2>2, <2>4, <3>2 DEF Prints
      <4>2. i \notin v11' /\ i \notin v12 => ItemsGap(s, i, entry, a + 1)
        <5> SUFFICES ASSUME i \notin v11', i \notin v12 PROVE ItemsGap(s, i, entry, a + 1)
          OBVIOUS
        <5>1. i \in v11 \/ ItemsGap(s, i, Items(s)!Of(i), a)
          BY <2>1, <3>1, ItemsOf
        <5>2. e.n \in Nat /\ e.n > 0 /\ e.n - 1 = a
          BY <4>1
        <5> QED BY <1>3, <2>4, <3>2, <4>1, <5>1, <5>2
      <4>3. entry.active = TRUE
        BY <1>3, <3>2
      <4>4. ItemsTold(s, i, v2', v3', v4', v5', v11', v12', a + 1)
        BY <1>5, <2>4, <4>2, <4>3 DEF ItemsTold
      <4> QED BY <2>1, <4>1, <4>4, ItemsFlowOf
    <3>3. CASE e.kind \in Finals
      <4>1. Final(e, i) /\ ~Prints(e, i)
        BY <2>4, <3>3 DEF Final, Prints
      <4>2. HasFinal(v3, i) /\ e.n = v1[i]
        <5>1. 1 \in DOMAIN v3 /\ v3[1] = e
          BY <1>2, <1>3, QueueTail
        <5> QED BY <2>1, <4>1, <5>1 DEF HasFinal, Flow
      <4>3. i \in v2 /\ ~Mentions(v3', i)
        <5>1. i \notin s.execs /\ Closed(v3, i, i \in v2)
          BY <1>1, <4>2 DEF ItemsEnd, HasFinal, Mentions, Final
        <5>2. PICK over \in BOOLEAN : over <=> i \in v2
          OBVIOUS
        <5>3. Closed(v3, i, over)
          BY <5>1, <5>2 DEF Closed
        <5>4. over /\ ~Mentions(v3', i)
          BY <1>2, <1>3, <4>1, <5>3, TailClosed
        <5> QED BY <5>2, <5>4
      <4>4. Over(i, v2', v3', v4')
        BY <4>3 DEF Over
      <4>5. Flow(v3', v4', i, a, v1[i]) /\ a = v1[i]
        <5>1. Flow(v3', v4', i, a, v1[i])
          BY <2>2, <4>1
        <5>2. \A d \in v4' : d.item # i
          OBVIOUS
        <5>3. a = v1[i]
          BY <2>1, <4>3, <5>1, <5>2, FlowOver
        <5> QED BY <5>1, <5>3
      <4>6. i \notin v11' /\ i \notin v12 => ItemsGap(s, i, entry, a)
        <5> SUFFICES ASSUME i \notin v11', i \notin v12 PROVE ItemsGap(s, i, entry, a)
          OBVIOUS
        <5>1. i \in v11 \/ ItemsGap(s, i, Items(s)!Of(i), a)
          BY <2>1, <3>1, ItemsOf
        <5>2. e.n = a /\ e.n \in Nat
          BY <4>2, <4>5
        <5> QED BY <1>3, <2>4, <3>3, <5>1, <5>2
      <4>7. ItemsTold(s, i, v2', v3', v4', v5', v11', v12', a)
        BY <1>5, <2>4, <4>4, <4>6 DEF ItemsTold
      <4> QED BY <2>1, <4>5, <4>7, ItemsFlowOf
    <3> QED BY <3>2, <3>3
  <2> QED BY <2>3, <2>4
<1>9. Items(s)!Items' = Items(s)!Items
  BY DEF Items!Items, Items!ThreadItems, Items!Processes
<1> QED BY <1>8, <1>9 DEF ItemsFlowInv

LEMMA ItemsFlowProgress ==
    ASSUME NEW s \in ItemsScopes, Items(s)!ShowInv, ItemsFlowInv(s), Items(s)!Progress
    PROVE  ItemsFlowInv(s)'
<1>1. ItemsSent(s) /\ ItemsKept(s)
  BY ItemsUnfold
<1>2. PICK e : e = Head(v3)
  OBVIOUS
<1>3. PICK before : before = Items(s)!Of(e.item)
  OBVIOUS
<1>4. PICK entry : entry = IF e.kind # "text" THEN Items(s)!Undecoded(before, e.kind = "large")
                           ELSE IF e.item \in s.tools THEN Items(s)!WithMessage(before, e.n)
                           ELSE Items(s)!WithText(before, e.n)
  OBVIOUS
<1>5. /\ v4 = {} /\ v3 # <<>> /\ v3' = Tail(v3)
      /\ e.kind \in {"text", "large", "bad"}
      /\ Items(s)!Store(e.item, entry)
      /\ v11' = v11 \cup (DOMAIN v5 \ DOMAIN v5')
      /\ UNCHANGED <<v1, v2, v4, v12>>
  BY <1>2, <1>3, <1>4 DEF Items!Progress, Items!Receive, Items!Evicted, Items!Known
<1>6. e.n \in Nat /\ before \in Items(s)!Entry
  <2>1. e \in Items(s)!Event
    BY <1>1, <1>2, <1>5, QueueTail DEF ItemsSent
  <2> QED BY <1>1, <1>3, <2>1, ItemsFresh DEF Items!Event
<1>7. entry \in Items(s)!Entry /\ entry.active = TRUE
  <2>1. \A kept \in ItemsPrinted(s, before, e.n) : kept \in Items(s)!Entry /\ kept.active = TRUE
    BY <1>6, ItemsEntries
  <2>2. (e.kind = "large") = TRUE \/ (e.kind = "large") = FALSE
    OBVIOUS
  <2>3. entry \in ItemsPrinted(s, before, e.n)
    BY <1>4, <2>2 DEF ItemsPrinted
  <2> HIDE <1>4
  <2> QED BY <2>1, <2>3
<1>8. e.kind \notin Finals
  BY <1>5 DEF Finals
<1>9. e.item \notin v11' => e.item \notin v11
  BY <1>5
<1>10. e.n > 0 /\ ItemsGap(s, e.item, before, e.n - 1) => ItemsGap(s, e.item, entry, e.n)
  <2>1. CASE e.kind # "text"
    <3>1. \A large : ItemsGap(s, e.item, Items(s)!Undecoded(before, large), e.n)
      BY <1>6, ItemsTells
    <3> QED BY <1>4, <2>1, <3>1
  <2>2. CASE e.kind = "text"
    BY <1>4, <1>6, <2>2, ItemsTells
  <2> QED BY <2>1, <2>2
<1>11. \A j : j # e.item /\ j \notin v11' => j \notin v11 /\ (j \in DOMAIN v5 => j \in DOMAIN v5')
  BY <1>5
<1> HIDE <1>4
<1> QED BY <1>2, <1>3, <1>5, <1>7, <1>8, <1>9, <1>10, <1>11, ItemsFlowApply

LEMMA ItemsFlowCompletion ==
    ASSUME NEW s \in ItemsScopes, Items(s)!ShowInv, ItemsFlowInv(s), Items(s)!Completion
    PROVE  ItemsFlowInv(s)'
<1>1. ItemsSent(s) /\ ItemsKept(s)
  BY ItemsUnfold
<1>2. PICK e : e = Head(v3)
  OBVIOUS
<1>3. PICK before : before = Items(s)!Of(e.item)
  OBVIOUS
<1>4. PICK entry : entry = Items(s)!Completed(e.item, before, e.kind, e.n)
  OBVIOUS
<1>5. /\ v4 = {} /\ v3 # <<>> /\ v3' = Tail(v3) /\ e.kind \in Items(s)!Endings
      /\ Items(s)!Store(e.item, entry)
      /\ v11' = (v11 \cup (DOMAIN v5 \ DOMAIN v5')) \ (IF e.kind = "whole" THEN {e.item} ELSE {})
      /\ UNCHANGED <<v1, v2, v4, v12>>
  BY <1>2, <1>3, <1>4 DEF Items!Completion, Items!Receive, Items!Evicted, Items!Known
<1>6. e.n \in Nat /\ before \in Items(s)!Entry
  <2>1. e \in Items(s)!Event
    BY <1>1, <1>2, <1>5, QueueTail DEF ItemsSent
  <2> QED BY <1>1, <1>3, <2>1, ItemsFresh DEF Items!Event
<1>7. entry \in Items(s)!Entry
  <2>1. PICK n \in Nat, ending \in Items(s)!Endings : n = e.n /\ ending = e.kind
    BY <1>5, <1>6
  <2>2. Items(s)!Completed(e.item, before, ending, n) \in Items(s)!Entry
    BY <1>6, <2>1, ItemsCompletes
  <2> QED BY <1>4, <2>1, <2>2
<1>8. e.kind \in Finals
  BY <1>5 DEF Finals, Items!Endings
<1>9. /\ e.item \notin v11' => e.kind = "whole" \/ e.item \notin v11
      /\ \A j : j # e.item /\ j \notin v11' => j \notin v11 /\ (j \in DOMAIN v5 => j \in DOMAIN v5')
  BY <1>5
<1>10. e.kind = "whole" \/ ItemsGap(s, e.item, before, e.n) => ItemsGap(s, e.item, entry, e.n)
  BY <1>4, <1>6, <1>8, ItemsTells
<1> HIDE <1>4
<1> QED BY <1>2, <1>3, <1>5, <1>6, <1>7, <1>8, <1>9, <1>10, ItemsFlowApply

\* What the receiver was too slow for has passed: what runs is marked, and what
\* does not is named.
LEMMA ItemsFlowLag ==
    ASSUME NEW s \in ItemsScopes, Items(s)!ShowInv, ItemsFlowInv(s), Items(s)!Lag
    PROVE  ItemsFlowInv(s)'
<1>1. ItemsSent(s) /\ ItemsKept(s)
  BY ItemsUnfold
<1>2. /\ v4' = {} /\ v5' = [i \in DOMAIN v5 |-> Items(s)!MarkLagged(v5[i])]
      /\ v11' = v11 \cup {i \in Items(s)!Items :
                            (\E e \in v4 : e.item = i) /\ ~(i \in DOMAIN v5 /\ v5[i].active)}
      /\ UNCHANGED <<v1, v2, v3, v12>>
  BY DEF Items!Lag, Items!Known
<1>3. DOMAIN v5' = DOMAIN v5 /\ \A i \in DOMAIN v5 : v5'[i] = Items(s)!MarkLagged(v5[i])
  BY <1>2
<1>4. ASSUME NEW i \in DOMAIN v5
      PROVE  /\ v5[i].active => v5'[i].active /\ v5'[i].marks # {}
             /\ ~v5[i].active => v5'[i] = v5[i]
  <2>1. v5[i] \in [tail : Seq(Nat), active : BOOLEAN, done : BOOLEAN, marks : SUBSET Items(s)!Marks]
    BY <1>1 DEF ItemsKept, Items!Entry
  <2> QED BY <1>3, <2>1 DEF Items!MarkLagged
<1>5. ASSUME NEW j, Over(j, v2, v3, v4)
      PROVE  Over(j, v2', v3', v4')
  BY <1>2, <1>5 DEF Over
<1>6. ASSUME NEW i \in Items(s)!Items
      PROVE  ItemsFlow(s, i, v1', v2', v3', v4', v5', v11', v12')
  <2>1. PICK a \in Nat : /\ v1[i] \in Nat /\ Flow(v3, v4, i, a, v1[i])
                         /\ ItemsTold(s, i, v2, v3, v4, v5, v11, v12, a)
    BY <1>1, ItemsPassing
  <2>2. PICK c \in a..v1[i] : /\ Flow(v3', v4', i, c, v1[i])
                              /\ (\A e \in v4 : ~Prints(e, i)) => c = a
    <3>1. v3 \in Seq(Items(s)!Event)
      BY <1>1 DEF ItemsSent
    <3> QED BY <1>2, <2>1, <3>1, FlowLag
  <2>3. i \notin v11' => i \notin v11 /\ ((i \in DOMAIN v5 /\ v5[i].active) \/ c = a)
    BY <1>2, <2>2 DEF Prints
  <2>4. ItemsTold(s, i, v2', v3', v4', v5', v11', v12', c)
    <3>1. i \in DOMAIN v5' /\ i \notin v11' /\ i \notin v12' => ItemsGap(s, i, v5'[i], c)
      BY <1>2, <1>3, <1>4, <2>1, <2>3 DEF ItemsTold, ItemsGap
    <3>2. i \in DOMAIN v5' /\ i \notin v12' /\ ~v5'[i].active => Over(i, v2', v3', v4')
      BY <1>2, <1>3, <1>4, <1>5, <2>1 DEF ItemsTold
    <3>3. i \notin DOMAIN v5' /\ i \notin v11' /\ i \notin v12' => c = 0 \/ Over(i, v2', v3', v4')
      BY <1>2, <1>3, <1>5, <2>1, <2>3 DEF ItemsTold
    <3> QED BY <3>1, <3>2, <3>3 DEF ItemsTold
  <2>5. c \in Nat
    BY <2>1
  <2> QED BY <1>2, <2>1, <2>2, <2>4, <2>5, ItemsFlowOf
<1>7. Items(s)!Items' = Items(s)!Items
  BY DEF Items!Items, Items!ThreadItems, Items!Processes
<1> QED BY <1>6, <1>7 DEF ItemsFlowInv

\* The invariant of what is told of the items.
LEMMA ItemsToldInvariant ==
    Spec => [](\A s \in ItemsScopes : Is("items", s) => Items(s)!IInv)
<1> DEFINE I == \A s \in ItemsScopes : Is("items", s) => Items(s)!ShowInv
           J == \A s \in ItemsScopes : Is("items", s) => ItemsFlowInv(s)
<1>1. Init => J
  <2> SUFFICES ASSUME Init, NEW s \in ItemsScopes, Is("items", s), NEW i \in Items(s)!Items
               PROVE  ItemsFlow(s, i, v1, v2, v3, v4, v5, v11, v12)
    BY DEF ItemsFlowInv
  <2>1. v1[i] = 0 /\ v2 = {} /\ DOMAIN v3 = {} /\ v4 = {} /\ DOMAIN v5 = {} /\ v11 = {} /\ v12 = {}
    BY DEF Init, Is, Items!Init
  <2>2. Flow(v3, v4, i, 0, v1[i])
    <3>1. 0 \in 0..0 /\ \A k \in (0 + 1)..0 : FALSE
      OBVIOUS
    <3> QED BY <2>1, <3>1 DEF Flow
  <2>3. ItemsTold(s, i, v2, v3, v4, v5, v11, v12, 0)
    BY <2>1 DEF ItemsTold
  <2> QED BY <2>1, <2>2, <2>3, ItemsFlowOf
<1>2. I /\ J /\ [Next]_vars => J'
  <2> SUFFICES ASSUME I, J, [Next]_vars, NEW s \in ItemsScopes, Is("items", s)'
               PROVE  ItemsFlowInv(s)'
    OBVIOUS
  <2>1. CASE UNCHANGED vars
    <3>1. ItemsFlowInv(s) /\ UNCHANGED <<v1, v2, v3, v4, v5, v11, v12>>
      BY <2>1 DEF vars, Is
    <3> QED BY <3>1, ItemsFlowSame
  <2>2. CASE Next
    <3>1. Is("items", s)
      BY <2>2 DEF Next, In, Is
    <3>2. In("items", s) /\ Items(s)!Next
      BY <2>2, <3>1 DEF Next, In, Is
    <3>3. Items(s)!ShowInv /\ ItemsFlowInv(s)
      BY <3>1
    <3>4. ASSUME \/ \E p \in Items(s)!Processes : Items(s)!Start(p)
                 \/ \E p \in s.execs : Items(s)!AnswerShown(p) \/ Items(s)!Unbind(p)
                 \/ Items(s)!Shown \/ Items(s)!LagShown
          PROVE  ItemsFlowInv(s)'
      <4>1. UNCHANGED <<v1, v2, v3, v4, v5, v11, v12>>
        BY <3>4 DEF Items!Start, Items!AnswerShown, Items!Unbind, Items!Shown, Items!LagShown
      <4> QED BY <3>3, <4>1, ItemsFlowSame
    <3> QED BY <3>2, <3>3, <3>4, ItemsFlowOutput, ItemsFlowFinish, ItemsFlowAnswered,
            ItemsFlowProgress, ItemsFlowCompletion, ItemsFlowLag DEF Items!Next
  <2> QED BY <2>1, <2>2
<1>3. I /\ J => \A s \in ItemsScopes : Is("items", s) => Items(s)!IInv
  <2> SUFFICES ASSUME I, J, NEW s \in ItemsScopes, Is("items", s)
               PROVE  Items(s)!IInv
    OBVIOUS
  <2>1. Items(s)!ShowInv /\ ItemsFlowInv(s)
    OBVIOUS
  <2>2. ItemsSent(s) /\ ItemsKept(s)
    BY <2>1, ItemsUnfold
  <2> QED BY <2>1, <2>2, ItemsFlowUnfold DEF Items!IInv
<1> QED BY <1>1, <1>2, <1>3, ItemsInvariant, PTL DEF Spec

\* GapIsSaid: what the projection shows of an item without a mark is all that
\* the item has printed up to where the consumer is: what was lost in the
\* channel, could not be decoded or was cut off (projection.rs) is never missing
\* in silence, whatever the limits of the channel, the maps and the tails.
THEOREM GapsAreSaid == Spec => []GapIsSaid
<1>1. (\A s \in ItemsScopes : Is("items", s) => Items(s)!IInv) => GapIsSaid
  BY DEF GapIsSaid, Items!IInv
<1> QED BY <1>1, ItemsToldInvariant, PTL

-----------------------------------------------------------------------------
(* The replies                                                              *)

\* What a request is made of.
LEMMA AsksRequests ==
    ASSUME NEW s \in AsksScopes, NEW r \in Asks(s)!Requests
    PROVE  /\ r.method \in {"command", "file", "legacy", "permissions", "time", "unsupported",
                            "input", "mcp"}
           /\ r.listed \in BOOLEAN /\ (r.listed => r.method \in {"command", "file"})
           /\ r.listed => \E k \in Nat : r.offered \in [1..k -> Asks(s)!Decisions]
           /\ r.method = "input" => \E k \in Nat : r.fields \in [1..k -> Asks(s)!Questions]
           /\ r.method = "mcp" => \E k \in Nat : r.fields \in [1..k -> Asks(s)!Fields]
           /\ r.method = "mcp" => r.url \in BOOLEAN /\ r.schema \in BOOLEAN
<1> USE DEF Asks!Asked
<1>1. CASE \E m \in {"command", "file", "legacy", "permissions", "time", "unsupported"} :
             r = Asks(s)!Plain(m)
  BY <1>1 DEF Asks!Plain
<1>2. CASE \E m \in {"command", "file"}, l \in Asks(s)!UpTo(Asks(s)!Decisions, s.offered) :
             r = Asks(s)!Asked(m, TRUE, l, FALSE, FALSE, Asks(s)!Nothing)
  BY <1>2 DEF Asks!UpTo
<1>3. CASE \E f \in Asks(s)!UpTo(Asks(s)!Questions, s.fields) :
             r = Asks(s)!Asked("input", FALSE, Asks(s)!Nothing, FALSE, TRUE, f)
  BY <1>3 DEF Asks!UpTo
<1>4. CASE \E u, w \in BOOLEAN :
             r = Asks(s)!Asked("mcp", FALSE, Asks(s)!Nothing, u, w, Asks(s)!Nothing)
  <2>1. Asks(s)!Nothing \in [1..0 -> Asks(s)!Fields]
    BY DEF Asks!Nothing
  <2> QED BY <1>4, <2>1
<1>5. CASE \E f \in Asks(s)!UpTo(Asks(s)!Fields, s.fields) :
             r = Asks(s)!Asked("mcp", FALSE, Asks(s)!Nothing, FALSE, TRUE, f)
  BY <1>5 DEF Asks!UpTo
<1> HIDE DEF Asks!Asked
<1> DEFINE S1 == {Asks(s)!Plain(m) :
                    m \in Asks(s)!Modern \cup {"legacy", "permissions", "time", "unsupported"}}
           S2 == UNION {{Asks(s)!Asked(m, TRUE, l, FALSE, FALSE, Asks(s)!Nothing) :
                           l \in Asks(s)!UpTo(Asks(s)!Decisions, s.offered)} :
                          m \in Asks(s)!Modern}
           S3 == {Asks(s)!Asked("input", FALSE, Asks(s)!Nothing, FALSE, TRUE, f) :
                    f \in Asks(s)!UpTo(Asks(s)!Questions, s.fields) \ {Asks(s)!Nothing}}
           S4 == UNION {{Asks(s)!Asked("mcp", FALSE, Asks(s)!Nothing, u, w, Asks(s)!Nothing) :
                           w \in BOOLEAN} : u \in BOOLEAN}
           S5 == {Asks(s)!Asked("mcp", FALSE, Asks(s)!Nothing, FALSE, TRUE, f) :
                    f \in Asks(s)!UpTo(Asks(s)!Fields, s.fields)}
<1>6. r \in S1 => \E m \in {"command", "file", "legacy", "permissions", "time", "unsupported"} :
                     r = Asks(s)!Plain(m)
  BY DEF Asks!Modern
<1>7. r \in S2 => \E m \in {"command", "file"}, l \in Asks(s)!UpTo(Asks(s)!Decisions, s.offered) :
                     r = Asks(s)!Asked(m, TRUE, l, FALSE, FALSE, Asks(s)!Nothing)
  BY DEF Asks!Modern
<1>8. r \in S3 => \E f \in Asks(s)!UpTo(Asks(s)!Questions, s.fields) :
                     r = Asks(s)!Asked("input", FALSE, Asks(s)!Nothing, FALSE, TRUE, f)
  OBVIOUS
<1>9. r \in S4 => \E u, w \in BOOLEAN :
                     r = Asks(s)!Asked("mcp", FALSE, Asks(s)!Nothing, u, w, Asks(s)!Nothing)
  OBVIOUS
<1>10. r \in S5 => \E f \in Asks(s)!UpTo(Asks(s)!Fields, s.fields) :
                     r = Asks(s)!Asked("mcp", FALSE, Asks(s)!Nothing, FALSE, TRUE, f)
  OBVIOUS
<1>11. r \in S1 \cup S2 \cup S3 \cup S4 \cup S5
  BY DEF Asks!Requests
<1> HIDE DEF S1, S2, S3, S4, S5
<1>12. r \in S1 \/ r \in S2 \/ r \in S3 \/ r \in S4 \/ r \in S5
  BY <1>11
<1> QED BY <1>1, <1>2, <1>3, <1>4, <1>5, <1>6, <1>7, <1>8, <1>9, <1>10, <1>12

\* A form has content and a link has none.
LEMMA AsksElicitation ==
    ASSUME NEW s \in AsksScopes, NEW r, r.url \in BOOLEAN, NEW action, NEW fields
    PROVE  /\ action # "accept" \/ r.url =>
                Asks(s)!Elicitation(r, action, Asks(s)!NoContent)
                  = [as |-> "elicitation", action |-> action, content |-> Asks(s)!Nothing]
           /\ action = "accept" /\ ~r.url =>
                Asks(s)!Elicitation(r, action, Asks(s)!Given(fields))
                  = [as |-> "elicitation", action |-> action, content |-> fields]
<1>1. Asks(s)!NoContent.given = FALSE /\ Asks(s)!NoContent.fields = Asks(s)!Nothing
  BY DEF Asks!NoContent
<1>2. Asks(s)!Given(fields).given = TRUE /\ Asks(s)!Given(fields).fields = fields
  BY DEF Asks!Given
<1> QED BY <1>1, <1>2 DEF Asks!Elicitation

\* What pressing a button is to lead to.
PressFits(s, r, button) ==
    LET sent == Asks(s)!Approval(r, button)
    IN  /\ sent # Asks(s)!Refused /\ sent # Asks(s)!None
        /\ Asks(s)!Allows(sent) = Asks(s)!Permitted(button.label)
        /\ Asks(s)!ForSession(sent) = (button.label = "acceptForSession")
        /\ r.listed => sent = Asks(s)!Decision(button.label)

\* A decision of the request's own list.
LEMMA AsksListed ==
    ASSUME NEW s \in AsksScopes, NEW r \in Asks(s)!Requests, r.listed,
           NEW button \in Asks(s)!Controls(r)
    PROVE  PressFits(s, r, button)
<1>1. r.method \in {"command", "file"}
  BY AsksRequests
<1>2. button \in Asks(s)!Choices(r)
  BY <1>1 DEF Asks!Controls, Asks!Modern, Asks!EmptyForm
<1>3. PICK i \in Asks(s)!Supported(r) : button = [index |-> i, label |-> r.offered[i]]
  BY <1>2 DEF Asks!Choices
<1>4. PICK k \in Nat : r.offered \in [1..k -> Asks(s)!Decisions]
  BY AsksRequests
<1>5. i # 0 /\ r.offered[i] \in {"accept", "acceptForSession", "decline", "cancel", "amendment"}
  BY <1>4 DEF Asks!Supported, Asks!Decisions
<1>6. button.index = i /\ button.label = r.offered[i]
  BY <1>3
<1>7. Asks(s)!Approval(r, button) = Asks(s)!Decision(button.label)
  BY <1>1, <1>5, <1>6 DEF Asks!Approval, Asks!Modern
<1> QED BY <1>5, <1>6, <1>7 DEF PressFits, Asks!Decision, Asks!Allows, Asks!ForSession,
           Asks!Permitted, Asks!Refused, Asks!None

\* The four decisions of a request without a list.
LEMMA AsksPlain ==
    ASSUME NEW s \in AsksScopes, NEW r \in Asks(s)!Requests, ~r.listed,
           r.method \in {"command", "file", "legacy", "permissions"},
           NEW button \in Asks(s)!Controls(r)
    PROVE  PressFits(s, r, button)
<1>1. PICK d \in {"accept", "acceptForSession", "decline", "cancel"} : button = Asks(s)!Button(d)
  BY DEF Asks!Controls, Asks!EmptyForm
<1>2. button.index = 0 /\ button.label = d
  BY <1>1 DEF Asks!Button
<1>3. CASE r.method \in {"command", "file"}
  <2>1. Asks(s)!Approval(r, button) = Asks(s)!Decision(d)
    BY <1>2, <1>3 DEF Asks!Approval, Asks!Modern
  <2> QED BY <1>2, <2>1 DEF PressFits, Asks!Decision, Asks!Allows, Asks!ForSession,
             Asks!Permitted, Asks!Refused, Asks!None
<1>4. CASE r.method = "legacy"
  <2>1. Asks(s)!Approval(r, button) = Asks(s)!Decision(Asks(s)!LegacyDecision(d))
    BY <1>2, <1>4 DEF Asks!Approval, Asks!Modern
  <2> QED BY <1>2, <2>1 DEF PressFits, Asks!Decision, Asks!LegacyDecision, Asks!Allows,
             Asks!ForSession, Asks!Permitted, Asks!Refused, Asks!None
<1>5. CASE r.method = "permissions"
  <2>1. Asks(s)!Approval(r, button)
          = IF d \in {"decline", "cancel"} THEN Asks(s)!Grant("nothing", "turn")
            ELSE Asks(s)!Grant("asked", IF d = "accept" THEN "turn" ELSE "session")
    BY <1>2, <1>5 DEF Asks!Approval, Asks!Modern
  <2> QED BY <1>2, <2>1 DEF PressFits, Asks!Grant, Asks!Allows, Asks!ForSession,
             Asks!Permitted, Asks!Refused, Asks!None
<1> QED BY <1>3, <1>4, <1>5

\* A link or an empty form, and the button beside a form.
LEMMA AsksForms ==
    ASSUME NEW s \in AsksScopes, NEW r \in Asks(s)!Requests, ~r.listed,
           r.method \in {"input", "mcp"},
           NEW button \in Asks(s)!Controls(r), button.label # "answer"
    PROVE  PressFits(s, r, button)
<1>1. CASE r.method = "input"
  <2>1. button = Asks(s)!Button("decline")
    BY <1>1 DEF Asks!Controls, Asks!EmptyForm, Asks!Button
  <2>2. Asks(s)!Approval(r, button) = Asks(s)!Error("declined") /\ button.label = "decline"
    BY <1>1, <2>1 DEF Asks!Approval, Asks!Modern, Asks!Button
  <2>3. PICK sent : sent = Asks(s)!Error("declined")
    OBVIOUS
  <2>4. sent.as = "error"
    BY <2>3 DEF Asks!Error
  <2>5. /\ Asks(s)!Allows(sent) = FALSE /\ ~Asks(s)!ForSession(sent)
        /\ Asks(s)!Permitted(button.label) = FALSE
    BY <2>2, <2>4 DEF Asks!Allows, Asks!ForSession, Asks!Permitted
  <2>6. sent # Asks(s)!Refused /\ sent # Asks(s)!None
    BY <2>4 DEF Asks!Refused, Asks!None
  <2>7. Asks(s)!Allows(sent) = Asks(s)!Permitted(button.label)
    BY <2>5
  <2>8. Asks(s)!ForSession(sent) = (button.label = "acceptForSession")
    BY <2>2, <2>5 DEF Asks!ForSession
  <2> QED BY <2>2, <2>3, <2>6, <2>7, <2>8 DEF PressFits
<1>2. CASE r.method = "mcp"
  <2>1. r.url \in BOOLEAN
    BY <1>2, AsksRequests
  <2>2. PICK d \in {"accept", "cancel", "decline"} :
          button = Asks(s)!Button(d) /\ (d = "accept" => r.url \/ Asks(s)!EmptyForm(r))
    BY <1>2, <2>1 DEF Asks!Controls, Asks!EmptyForm, Asks!Button
  <2>3. button.index = 0 /\ button.label = d
    BY <2>2 DEF Asks!Button
  <2>4. \E c : Asks(s)!Approval(r, button) = [as |-> "elicitation", action |-> d, content |-> c]
    <3>1. CASE d = "accept" /\ ~r.url
      <4>1. Asks(s)!Approval(r, button)
              = Asks(s)!Elicitation(r, d, Asks(s)!Given(Asks(s)!Nothing))
        BY <1>2, <2>2, <2>3, <3>1 DEF Asks!Approval, Asks!Modern
      <4> QED BY <2>1, <3>1, <4>1, AsksElicitation
    <3>2. CASE d # "accept" \/ r.url
      <4>1. Asks(s)!Approval(r, button) = Asks(s)!Elicitation(r, d, Asks(s)!NoContent)
        BY <1>2, <2>2, <2>3, <3>2 DEF Asks!Approval, Asks!Modern
      <4> QED BY SMTT(40), <2>1, <3>2, <4>1, AsksElicitation
    <3> QED BY <2>1, <3>1, <3>2
  <2> QED BY <2>3, <2>4 DEF PressFits, Asks!Allows, Asks!ForSession,
             Asks!Permitted, Asks!Refused, Asks!None
<1> QED BY <1>1, <1>2

\* A button leads to a reply that says what it says.
LEMMA AsksPress ==
    ASSUME NEW s \in AsksScopes, NEW r \in Asks(s)!Requests, Asks(s)!Answerable(r),
           NEW button \in Asks(s)!Controls(r), button.label # "answer"
    PROVE  PressFits(s, r, button)
<1>1. /\ r.method \in {"command", "file", "legacy", "permissions", "input", "mcp"}
      /\ r.listed \in BOOLEAN
  BY AsksRequests DEF Asks!Answerable
<1> QED BY <1>1, AsksListed, AsksPlain, AsksForms

\* The end of a request allows nothing.
LEMMA AsksExpire ==
    ASSUME NEW s \in AsksScopes, NEW r \in Asks(s)!Requests
    PROVE  /\ Asks(s)!Expired(r) # Asks(s)!Refused /\ Asks(s)!Expired(r) # Asks(s)!None
           /\ ~Asks(s)!Allows(Asks(s)!Expired(r))
<1> USE DEF Asks!Refused, Asks!None, Asks!Allows
<1>1. CASE r.method = "mcp"
  <2>1. r.url \in BOOLEAN
    BY <1>1, AsksRequests
  <2>2. Asks(s)!Expired(r) = Asks(s)!Elicitation(r, "cancel", Asks(s)!NoContent)
    BY <1>1 DEF Asks!Expired, Asks!Modern
  <2>3. Asks(s)!Expired(r)
          = [as |-> "elicitation", action |-> "cancel", content |-> Asks(s)!Nothing]
    BY <2>1, <2>2, AsksElicitation
  <2> QED BY <2>3
<1>2. CASE r.method \in {"command", "file"}
  <2>1. Asks(s)!Expired(r) = Asks(s)!Decision("cancel")
    BY <1>2 DEF Asks!Expired, Asks!Modern
  <2> QED BY <2>1 DEF Asks!Decision
<1>3. CASE r.method = "legacy"
  <2>1. Asks(s)!Expired(r) = Asks(s)!Decision("timedOut")
    BY <1>3 DEF Asks!Expired, Asks!Modern
  <2> QED BY <2>1 DEF Asks!Decision
<1>4. CASE r.method = "permissions"
  <2>1. Asks(s)!Expired(r) = Asks(s)!Grant("nothing", "turn")
    BY <1>4 DEF Asks!Expired, Asks!Modern
  <2> QED BY <2>1 DEF Asks!Grant
<1>5. CASE r.method \in {"input", "time", "unsupported"}
  <2>1. \E code : Asks(s)!Expired(r) = Asks(s)!Error(code)
    BY <1>5 DEF Asks!Expired, Asks!Modern
  <2> QED BY <2>1 DEF Asks!Error
<1> QED BY <1>1, <1>2, <1>3, <1>4, <1>5, AsksRequests

\* What a submitted form is to lead to, when it is not refused.
SubmitFits(s, r, texts) ==
    LET sent == Asks(s)!Submitted(r, texts)
    IN  /\ sent # Asks(s)!None
        /\ r.method = "input" =>
            /\ DOMAIN sent.values = DOMAIN r.fields
            /\ \A i \in DOMAIN r.fields :
                /\ sent.values[i] # <<>>
                /\ r.fields[i].options = {} \/ r.fields[i].other
                   \/ \A k \in DOMAIN sent.values[i] : sent.values[i][k] \in r.fields[i].options
        /\ r.method = "mcp" /\ ~Asks(s)!Single(r) =>
            \A i \in DOMAIN r.fields :
                /\ i \in DOMAIN sent.content
                     <=> (\E k \in DOMAIN texts[i] : texts[i][k] # Asks(s)!Blank)
                /\ i \in DOMAIN sent.content => sent.content[i].type = r.fields[i].type

\* The answers to questions: one for each, from its own list.
LEMMA AsksAnswers ==
    ASSUME NEW s \in AsksScopes, NEW r, r.method = "input", NEW texts,
           Asks(s)!Submitted(r, texts) # Asks(s)!Refused
    PROVE  SubmitFits(s, r, texts)
<1> DEFINE values == [i \in DOMAIN r.fields |-> Asks(s)!Values(r, texts[i])]
<1>1. Asks(s)!Submitted(r, texts) = Asks(s)!Answers(r, texts)
  BY DEF Asks!Submitted
<1>2. /\ \A i \in DOMAIN r.fields : Asks(s)!Valid(r.fields[i], Asks(s)!Values(r, texts[i]))
      /\ Asks(s)!Answers(r, texts) = [as |-> "answers", values |-> values]
  BY <1>1 DEF Asks!Answers
<1>3. DOMAIN values = DOMAIN r.fields
  OBVIOUS
<1>4. ASSUME NEW i \in DOMAIN r.fields
      PROVE  /\ values[i] # <<>>
             /\ r.fields[i].options = {} \/ r.fields[i].other
                \/ \A k \in DOMAIN values[i] : values[i][k] \in r.fields[i].options
  BY <1>2 DEF Asks!Valid
<1> HIDE DEF values
<1>5. PICK sent : sent = Asks(s)!Submitted(r, texts)
  OBVIOUS
<1>6. sent.values = values /\ sent # Asks(s)!None
  BY <1>1, <1>2, <1>5 DEF Asks!None
<1> QED BY <1>3, <1>4, <1>5, <1>6 DEF SubmitFits

\* The content of a form: what was filled in, each as its property says.
LEMMA AsksContent ==
    ASSUME NEW s \in AsksScopes, NEW r \in Asks(s)!Requests, r.method = "mcp", ~r.url,
           NEW texts, ~Asks(s)!Single(r) => DOMAIN r.fields = DOMAIN texts,
           Asks(s)!Submitted(r, texts) # Asks(s)!Refused
    PROVE  SubmitFits(s, r, texts)
<1>1. /\ Asks(s)!Submitted(r, texts) = Asks(s)!Content(r, texts) /\ r.url \in BOOLEAN
  BY AsksRequests DEF Asks!Submitted
<1>2. CASE Asks(s)!Single(r)
  <2>1. \E c : Asks(s)!Content(r, texts) = Asks(s)!Elicitation(r, "accept", Asks(s)!Given(c))
    BY <1>2, Zenon DEF Asks!Content
  <2>2. \E c : Asks(s)!Content(r, texts)
                 = [as |-> "elicitation", action |-> "accept", content |-> c]
    BY <1>1, <2>1, AsksElicitation
  <2> QED BY <1>1, <1>2, <2>2 DEF SubmitFits, Asks!None
<1>3. CASE ~Asks(s)!Single(r)
  <2> DEFINE content == [i \in Asks(s)!Kept(texts) |-> Asks(s)!Typed(r.fields[i].type, texts[i])]
  <2>1. Asks(s)!Content(r, texts)
          = Asks(s)!Elicitation(r, "accept", Asks(s)!Given(content))
    BY <1>1, <1>3 DEF Asks!Content
  <2>2. /\ DOMAIN content = Asks(s)!Kept(texts)
        /\ \A i \in DOMAIN content : content[i] = Asks(s)!Typed(r.fields[i].type, texts[i])
    OBVIOUS
  <2> HIDE DEF content
  <2>3. Asks(s)!Content(r, texts)
          = [as |-> "elicitation", action |-> "accept", content |-> content]
    BY <1>1, <2>1, AsksElicitation
  <2>4. PICK sent : sent = Asks(s)!Submitted(r, texts)
    OBVIOUS
  <2>5. sent.content = content /\ sent # Asks(s)!None
    BY <1>1, <2>3, <2>4 DEF Asks!None
  <2>6. ASSUME NEW i \in DOMAIN r.fields
        PROVE  /\ i \in DOMAIN content
                     <=> (\E k \in DOMAIN texts[i] : texts[i][k] # Asks(s)!Blank)
               /\ i \in DOMAIN content => content[i].type = r.fields[i].type
    <3>1. i \in DOMAIN content <=> (\E k \in DOMAIN texts[i] : texts[i][k] # Asks(s)!Blank)
      BY <1>3, <2>2 DEF Asks!Kept
    <3>2. r.fields[i].type \in {"flag", "list", "text"}
      <4>1. PICK k \in Nat : r.fields \in [1..k -> Asks(s)!Fields]
        BY AsksRequests
      <4> QED BY <4>1 DEF Asks!Fields
    <3>3. Asks(s)!Typed(r.fields[i].type, texts[i]).type = r.fields[i].type
      BY <3>2 DEF Asks!Typed
    <3> QED BY <3>1, <3>3, <2>2
  <2> QED BY <2>4, <2>5, <2>6 DEF SubmitFits
<1> QED BY <1>2, <1>3

\* A form belongs to questions, or to a schema of properties.
LEMMA AsksSubmit ==
    ASSUME NEW s \in AsksScopes, NEW r \in Asks(s)!Requests,
           Asks(s)!Button("answer") \in Asks(s)!Controls(r), NEW texts \in Asks(s)!Inputs(r),
           Asks(s)!Submitted(r, texts) # Asks(s)!Refused
    PROVE  r.method \in {"input", "mcp"} /\ SubmitFits(s, r, texts)
<1>1. ~r.listed
  <2> SUFFICES ASSUME r.listed PROVE FALSE
    BY AsksRequests
  <2>1. r.method \in {"command", "file"}
    BY AsksRequests
  <2>2. Asks(s)!Button("answer") \in Asks(s)!Choices(r)
    BY <2>1 DEF Asks!Controls, Asks!Modern, Asks!EmptyForm
  <2>3. PICK i \in Asks(s)!Supported(r) : Asks(s)!Button("answer") = [index |-> i, label |-> r.offered[i]]
    BY <2>2 DEF Asks!Choices
  <2>4. PICK k \in Nat : r.offered \in [1..k -> Asks(s)!Decisions]
    BY AsksRequests
  <2>5. r.offered[i] = "answer"
    BY <2>3 DEF Asks!Button
  <2> QED BY <2>4, <2>5 DEF Asks!Supported, Asks!Decisions
<1>2. r.method = "input" \/ (r.method = "mcp" /\ ~r.url)
  <2>1. r.method = "mcp" => r.url \in BOOLEAN
    BY AsksRequests
  <2>2. \A d \in {"accept", "acceptForSession", "decline", "cancel"} :
          Asks(s)!Button("answer") # Asks(s)!Button(d)
    BY DEF Asks!Button
  <2> QED BY <1>1, <2>1, <2>2 DEF Asks!Controls
<1>3. CASE r.method = "input"
  BY <1>3, AsksAnswers
<1>4. CASE r.method = "mcp" /\ ~r.url
  <2>1. PICK k \in Nat : r.fields \in [1..k -> Asks(s)!Fields]
    BY <1>4, AsksRequests
  <2>2. ~Asks(s)!Single(r) => DOMAIN r.fields = DOMAIN texts
    <3> SUFFICES ASSUME ~Asks(s)!Single(r) PROVE DOMAIN r.fields = DOMAIN texts
      OBVIOUS
    <3>1. r.fields \in Seq(Asks(s)!Fields)
      BY <2>1, SeqDef
    <3>2. Len(r.fields) \in Nat /\ DOMAIN r.fields = 1..Len(r.fields) /\ Len(r.fields) # 0
      BY <3>1, LenProperties DEF Asks!Single
    <3>3. r.fields # Asks(s)!Nothing
      BY <3>2 DEF Asks!Nothing
    <3> QED BY <3>2, <3>3 DEF Asks!Inputs
  <2> QED BY <1>4, <2>2, AsksContent
<1> QED BY <1>2, <1>3, <1>4

\* A step that sends nothing keeps what has been sent.
LEMMA AsksElsewhere ==
    ASSUME NEW s \in AsksScopes, Asks(s)!IInv, UNCHANGED <<v1, v4, v5>>,
           v2' = v2 \/ (v2 # "answered" /\ v2' \in {"new", "open"}),
           v2' = "open" => Asks(s)!Answerable(v1),
           v3' => Asks(s)!Button("answer") \in Asks(s)!Controls(v1)
    PROVE  Asks(s)!IInv'
<1>1. Asks(s)!Shape'
  <2>1. Asks(s)!Shape
    BY DEF Asks!IInv
  <2>2. v1' = v1 /\ v4' = v4 /\ v5' = v5
    OBVIOUS
  <2>3. Asks(s)!Requests' = Asks(s)!Requests /\ Asks(s)!None' = Asks(s)!None
        /\ Asks(s)!Refused' = Asks(s)!Refused
        /\ Asks(s)!Answerable(v1)' = Asks(s)!Answerable(v1)
        /\ Asks(s)!Controls(v1)' = Asks(s)!Controls(v1)
        /\ Asks(s)!Button("answer")' = Asks(s)!Button("answer")
    BY <2>2
  <2>4. (v5 # Asks(s)!None) = (v2' = "answered")
    BY <2>1 DEF Asks!Shape
  <2> QED BY <2>1, <2>2, <2>3, <2>4 DEF Asks!Shape
<1>2. Asks(s)!AnswersFit'
  <2>1. CASE v2' = v2
    BY <2>1 DEF Asks!IInv, Asks!AnswersFit
  <2>2. CASE v2' \in {"new", "open"}
    BY <2>2 DEF Asks!AnswersFit
  <2> QED BY <2>1, <2>2
<1> QED BY <1>1, <1>2 DEF Asks!IInv

\* What is sent is what was said.
SaidFits(s, r, words, sent) ==
    /\ words.as = "pressed" =>
        /\ Asks(s)!Allows(sent) = Asks(s)!Permitted(words.button.label)
        /\ Asks(s)!ForSession(sent) = (words.button.label = "acceptForSession")
        /\ r.listed => sent = Asks(s)!Decision(words.button.label)
    /\ words.as = "silence" => ~Asks(s)!Allows(sent)
    /\ words.as = "typed" /\ r.method = "input" =>
        /\ DOMAIN sent.values = DOMAIN r.fields
        /\ \A i \in DOMAIN r.fields :
            /\ sent.values[i] # <<>>
            /\ r.fields[i].options = {} \/ r.fields[i].other
               \/ \A k \in DOMAIN sent.values[i] : sent.values[i][k] \in r.fields[i].options
    /\ words.as = "typed" /\ r.method = "mcp" /\ ~Asks(s)!Single(r) =>
        \A i \in DOMAIN r.fields :
            /\ i \in DOMAIN sent.content
                 <=> (\E k \in DOMAIN words.texts[i] : words.texts[i][k] # Asks(s)!Blank)
            /\ i \in DOMAIN sent.content => sent.content[i].type = r.fields[i].type

\* A reply is sent.
LEMMA AsksSend ==
    ASSUME NEW s \in AsksScopes, Asks(s)!IInv, NEW sent, NEW words,
           v5' = sent, v4' = words, v2' = "answered", v1' = v1,
           v3' => Asks(s)!Button("answer") \in Asks(s)!Controls(v1),
           sent # Asks(s)!None, sent # Asks(s)!Refused, SaidFits(s, v1, words, sent)
    PROVE  Asks(s)!IInv'
<1>1. Asks(s)!Requests' = Asks(s)!Requests /\ Asks(s)!None' = Asks(s)!None
      /\ Asks(s)!Refused' = Asks(s)!Refused
      /\ Asks(s)!Controls(v1)' = Asks(s)!Controls(v1)
      /\ Asks(s)!Button("answer")' = Asks(s)!Button("answer")
  OBVIOUS
<1>2. Asks(s)!Shape'
  BY <1>1 DEF Asks!IInv, Asks!Shape
<1>3. Asks(s)!AnswersFit'
  BY DEF SaidFits, Asks!AnswersFit, Asks!Allows, Asks!ForSession, Asks!Permitted, Asks!Single,
         Asks!Decision, Asks!Blank
<1> QED BY <1>2, <1>3 DEF Asks!IInv

\* What is needed of the invariant.
LEMMA AsksOpen ==
    ASSUME NEW s \in AsksScopes, Asks(s)!IInv
    PROVE  /\ v1 \in Asks(s)!Requests /\ (v2 = "open" => Asks(s)!Answerable(v1))
           /\ v3 => Asks(s)!Button("answer") \in Asks(s)!Controls(v1)
BY DEF Asks!IInv, Asks!Shape

\* A request comes: it is answered at once, or opened.
LEMMA AsksHandle ==
    ASSUME NEW s \in AsksScopes, Asks(s)!IInv, Asks(s)!Handle
    PROVE  Asks(s)!IInv'
<1>1. v2 = "new" /\ v1' = v1 /\ v3' = v3
  BY DEF Asks!Handle
<1>2. CASE \E sent \in {[as |-> "time"], Asks(s)!Error("unsupported"),
                        Asks(s)!Error("no supported decision")} :
             Asks(s)!Send(sent, Asks(s)!None)
  <2>1. PICK sent \in {[as |-> "time"], Asks(s)!Error("unsupported"),
                       Asks(s)!Error("no supported decision")} :
          v5' = sent /\ v4' = Asks(s)!None /\ v2' = "answered"
    BY <1>2 DEF Asks!Send
  <2>2. sent # Asks(s)!None /\ sent # Asks(s)!Refused
    <3>1. sent.as \in {"time", "error"}
      <4>1. [as |-> "time"].as = "time"
        OBVIOUS
      <4>2. \A code : Asks(s)!Error(code).as = "error"
        BY DEF Asks!Error
      <4> QED BY <4>1, <4>2, <2>1
    <3>2. Asks(s)!None.as = "none" /\ Asks(s)!Refused.as = "refused"
      BY DEF Asks!None, Asks!Refused
    <3> QED BY <3>1, <3>2
  <2>3. Asks(s)!None.as = "none"
    BY DEF Asks!None
  <2>4. SaidFits(s, v1, Asks(s)!None, sent)
    BY <2>3 DEF SaidFits
  <2>5. PICK words : words = Asks(s)!None
    OBVIOUS
  <2>6. v4' = words /\ SaidFits(s, v1, words, sent)
    BY <2>1, <2>4, <2>5
  <2> QED BY <1>1, <2>1, <2>2, <2>6, AsksOpen, AsksSend
<1>3. CASE v2' = "open" /\ UNCHANGED <<v4, v5>> /\ Asks(s)!Answerable(v1)
  BY <1>1, <1>3, AsksOpen, AsksElsewhere
<1>4. \/ \E sent \in {[as |-> "time"], Asks(s)!Error("unsupported"),
                      Asks(s)!Error("no supported decision")} :
             Asks(s)!Send(sent, Asks(s)!None)
      \/ v2' = "open" /\ UNCHANGED <<v4, v5>> /\ Asks(s)!Answerable(v1)
  <2>1. v1.listed => v1.method \in {"command", "file"}
    BY AsksOpen, AsksRequests
  <2> QED BY <2>1 DEF Asks!Handle, Asks!Answerable, Asks!Modern
<1> QED BY <1>2, <1>3, <1>4

\* A button is pressed.
LEMMA AsksButton ==
    ASSUME NEW s \in AsksScopes, Asks(s)!IInv, NEW button \in Asks(s)!Controls(v1),
           Asks(s)!Press(button)
    PROVE  Asks(s)!IInv'
<1>1. /\ v2 = "open" /\ button.label # "answer" /\ v1' = v1 /\ v3' = v3
  BY DEF Asks!Press
<1>2. PICK sent : sent = Asks(s)!Approval(v1, button)
  OBVIOUS
<1>3. /\ sent # Asks(s)!Refused /\ sent # Asks(s)!None
      /\ Asks(s)!Allows(sent) = Asks(s)!Permitted(button.label)
      /\ Asks(s)!ForSession(sent) = (button.label = "acceptForSession")
      /\ v1.listed => sent = Asks(s)!Decision(button.label)
  BY <1>1, <1>2, AsksOpen, AsksPress DEF PressFits
<1>4. CASE UNCHANGED <<v2, v4, v5>>
  BY <1>1, <1>4, AsksOpen, AsksElsewhere
<1>5. CASE Asks(s)!Send(sent, [as |-> "pressed", button |-> button])
  <2>1. PICK words : words = [as |-> "pressed", button |-> button]
    OBVIOUS
  <2>2. words.as = "pressed" /\ words.button = button
    BY <2>1
  <2>3. SaidFits(s, v1, words, sent)
    BY <1>3, <2>2 DEF SaidFits
  <2>4. v5' = sent /\ v4' = words /\ v2' = "answered"
    BY <1>5, <2>1 DEF Asks!Send
  <2> QED BY <1>1, <1>3, <2>3, <2>4, AsksOpen, AsksSend
<1> QED BY <1>2, <1>3, <1>4, <1>5 DEF Asks!Press, Asks!Deliver

\* A form is submitted.
LEMMA AsksType ==
    ASSUME NEW s \in AsksScopes, Asks(s)!IInv, NEW texts \in Asks(s)!Inputs(v1),
           Asks(s)!Submit(texts)
    PROVE  Asks(s)!IInv'
<1>1. v2 = "open" /\ v3 /\ v1' = v1 /\ v3' = v3
  BY DEF Asks!Submit
<1>2. PICK sent : sent = Asks(s)!Submitted(v1, texts)
  OBVIOUS
<1>3. CASE UNCHANGED <<v2, v4, v5>>
  BY <1>1, <1>3, AsksOpen, AsksElsewhere
<1>4. CASE sent # Asks(s)!Refused /\ Asks(s)!Send(sent, [as |-> "typed", texts |-> texts])
  <2>1. SubmitFits(s, v1, texts)
    BY <1>1, <1>2, <1>4, AsksOpen, AsksSubmit
  <2>2. PICK words : words = [as |-> "typed", texts |-> texts]
    OBVIOUS
  <2>3. words.as = "typed" /\ words.texts = texts
    BY <2>2
  <2>4. SaidFits(s, v1, words, sent) /\ sent # Asks(s)!None
    BY <1>2, <2>1, <2>3 DEF SaidFits, SubmitFits
  <2>5. v5' = sent /\ v4' = words /\ v2' = "answered"
    BY <1>4, <2>2 DEF Asks!Send
  <2> QED BY <1>1, <1>4, <2>4, <2>5, AsksOpen, AsksSend
<1> QED BY <1>2, <1>3, <1>4 DEF Asks!Submit, Asks!Deliver

\* Nobody answers.
LEMMA AsksSilence ==
    ASSUME NEW s \in AsksScopes, Asks(s)!IInv, Asks(s)!Expire
    PROVE  Asks(s)!IInv'
<1>1. v2 = "open" /\ v1' = v1 /\ v3' = v3
  BY DEF Asks!Expire
<1>2. CASE UNCHANGED <<v2, v4, v5>>
  BY <1>1, <1>2, AsksOpen, AsksElsewhere
<1>3. CASE Asks(s)!Send(Asks(s)!Expired(v1), [as |-> "silence"])
  <2>1. PICK sent : sent = Asks(s)!Expired(v1)
    OBVIOUS
  <2>2. sent # Asks(s)!Refused /\ sent # Asks(s)!None /\ ~Asks(s)!Allows(sent)
    BY <2>1, AsksOpen, AsksExpire
  <2>3. PICK words : words = [as |-> "silence"]
    OBVIOUS
  <2>4. words.as = "silence"
    BY <2>3
  <2>5. SaidFits(s, v1, words, sent)
    BY <2>2, <2>4 DEF SaidFits
  <2>6. v5' = sent /\ v4' = words /\ v2' = "answered"
    BY <1>3, <2>1, <2>3 DEF Asks!Send
  <2> QED BY <1>1, <2>2, <2>5, <2>6, AsksOpen, AsksSend
<1> QED BY <1>2, <1>3 DEF Asks!Expire, Asks!Deliver

\* The invariant of the replies.
LEMMA AsksInvariant ==
    Spec => [](\A s \in AsksScopes : Is("asks", s) => Asks(s)!IInv)
<1> DEFINE I == \A s \in AsksScopes : Is("asks", s) => Asks(s)!IInv
<1>1. Init => I
  <2> SUFFICES ASSUME Init, NEW s \in AsksScopes, Is("asks", s) PROVE Asks(s)!IInv
    OBVIOUS
  <2>1. Asks(s)!Init
    BY DEF Init, Is
  <2>2. Asks(s)!None # Asks(s)!Refused
    BY DEF Asks!None, Asks!Refused
  <2> QED BY <2>1, <2>2 DEF Asks!Init, Asks!IInv, Asks!Shape, Asks!AnswersFit
<1>2. I /\ [Next]_vars => I'
  <2> SUFFICES ASSUME I, [Next]_vars, NEW s \in AsksScopes, Is("asks", s)'
               PROVE  Asks(s)!IInv'
    OBVIOUS
  <2>1. CASE UNCHANGED vars
    <3>1. UNCHANGED <<v1, v2, v3, v4, v5>> /\ Asks(s)!IInv
      BY <2>1 DEF vars, Is
    <3> QED BY <3>1, AsksOpen, AsksElsewhere
  <2>2. CASE Next
    <3>1. In("asks", s) /\ Asks(s)!Next
      BY <2>2 DEF Next, In, Is
    <3>2. Asks(s)!IInv
      BY <3>1 DEF In
    <3>3. CASE Asks(s)!OpenForm
      <4>1. /\ UNCHANGED <<v1, v2, v4, v5>>
            /\ Asks(s)!Button("answer") \in Asks(s)!Controls(v1)
        BY <3>3 DEF Asks!OpenForm
      <4> QED BY <4>1, <3>2, AsksOpen, AsksElsewhere
    <3> QED BY <3>1, <3>2, <3>3, AsksHandle, AsksButton, AsksType, AsksSilence DEF Asks!Next
  <2> QED BY <2>1, <2>2
<1> QED BY <1>1, <1>2, PTL DEF Spec

\* AnswersFit, on every instance: no button loses a request, and what Codex
\* is sent says what the owner pressed or typed, in the request's own terms.
THEOREM AnswersFitTheRequest == Spec => []AnswersFit
<1> DEFINE I == \A s \in AsksScopes : Is("asks", s) => Asks(s)!IInv
<1>1. Spec => []I
  BY AsksInvariant
<1>2. I => AnswersFit
  BY DEF AnswersFit, Asks!IInv
<1> HIDE DEF I
<1> QED BY <1>1, <1>2, PTL

-----------------------------------------------------------------------------
(* The browser of the tasks                                                 *)

\* A step that changes the handler of one click, or of none, keeps who is alone
\* if it does not start one.
LEMMA PagesAlone ==
    ASSUME NEW s \in PagesScopes, Pages(s)!IInv, NEW c \in s.buttons,
           v6' = v6, \A d \in s.buttons \ {c} : v4'[d] = v4[d],
           v4'[c].pc = "idle" \/ (v4[c].pc # "idle" /\ v4'[c].alone = v4[c].alone)
    PROVE  Pages(s)!AloneIsAlone'
BY DEF Pages!IInv, Pages!AloneIsAlone, Pages!Alone

\* The list changes by itself.
LEMMA PagesListChanges ==
    ASSUME NEW s \in PagesScopes, Pages(s)!IInv, Pages(s)!ListChanges
    PROVE  Pages(s)!IInv'
BY DEF Pages!ListChanges, Pages!IInv, Pages!Shape, Pages!Visited, Pages!AloneIsAlone, Pages!Alone,
       Pages!EditAgrees, Pages!ScreenAgrees, Pages!Entry, Pages!Handler

\* A walk begins on its own.
LEMMA PagesShowTasks ==
    ASSUME NEW s \in PagesScopes, Pages(s)!IInv, NEW c \in s.buttons, NEW wanted \in 0..s.pages,
           Pages(s)!ShowTasks(c, wanted)
    PROVE  Pages(s)!IInv'
<1> DEFINE h == [pc |-> "walk", copy |-> [status |-> "live", cursors |-> 1, page |-> wanted],
                 next |-> FALSE, alone |-> TRUE]
<1>1. /\ v4' = [v4 EXCEPT ![c] = h] /\ v4[c].pc = "idle" /\ UNCHANGED <<v1, v2, v3, v5, v6>>
      /\ \A d \in s.buttons \ {c} : v4[d].pc = "idle"
  BY DEF Pages!ShowTasks, Pages!At, Pages!Alone
<1>2. s.pages \in Nat \ {0}
  BY PagesAssumption
<1>3. h \in Pages(s)!Handler
  BY <1>2 DEF Pages!Handler, Pages!Entry
<1>4. v4 \in [s.buttons -> Pages(s)!Handler]
  BY DEF Pages!IInv, Pages!Shape
<1>5. /\ v4' \in [s.buttons -> Pages(s)!Handler]
      /\ v4'[c].pc = "walk" /\ v4'[c].alone = TRUE /\ \A d \in s.buttons \ {c} : v4'[d] = v4[d]
  BY <1>1, <1>3, <1>4
<1> HIDE DEF h
<1>6. Pages(s)!Shape'
  BY <1>1, <1>5 DEF Pages!IInv, Pages!Shape, Pages!Visited, Pages!Entry, Pages!Handler
<1>7. Pages(s)!AloneIsAlone'
  BY <1>1, <1>5 DEF Pages!AloneIsAlone, Pages!Alone
<1>8. Pages(s)!EditAgrees' /\ Pages(s)!ScreenAgrees'
  BY <1>1, <1>5 DEF Pages!IInv, Pages!EditAgrees, Pages!ScreenAgrees
<1> QED BY <1>6, <1>7, <1>8 DEF Pages!IInv

\* A walk keeps a cursor of every page it passes.
LEMMA PagesWalk ==
    ASSUME NEW s \in PagesScopes, Pages(s)!IInv, NEW c \in s.buttons, Pages(s)!Walk(c)
    PROVE  Pages(s)!IInv'
<1> DEFINE at == v4[c].copy.cursors - 1
<1>1. /\ v4[c].pc = "walk" /\ UNCHANGED <<v1, v2, v3, v5, v6>>
      /\ \/ v4' = [v4 EXCEPT ![c].copy.cursors = @ + 1] /\ at + 1 < v1
         \/ v4' = [v4 EXCEPT ![c].copy.page = at, ![c].pc = "view"]
  BY DEF Pages!Walk, Pages!HasNext
<1>2. /\ v4 \in [s.buttons -> Pages(s)!Handler] /\ v4[c] \in Pages(s)!Handler
      /\ v1 \in 1..s.pages /\ s.pages \in Nat \ {0}
  BY PagesAssumption DEF Pages!IInv, Pages!Shape
<1>3. v4[c].copy.cursors \in 1..s.pages /\ at \in Nat
  BY <1>2 DEF Pages!Handler, Pages!Entry
<1>4. /\ v4' \in [s.buttons -> Pages(s)!Handler]
      /\ v4'[c].pc = "walk" \/ (v4'[c].pc = "view" /\ Pages(s)!Visited(v4'[c].copy))
      /\ v4'[c].alone = v4[c].alone /\ \A d \in s.buttons \ {c} : v4'[d] = v4[d]
  <2>1. CASE v4' = [v4 EXCEPT ![c].copy.cursors = @ + 1] /\ at + 1 < v1
    <3>1. v4[c].copy.cursors + 1 \in 1..s.pages
      BY <2>1, <1>2, <1>3
    <3> QED BY <3>1, <2>1, <1>1, <1>2 DEF Pages!Handler, Pages!Entry
  <2>2. CASE v4' = [v4 EXCEPT ![c].copy.page = at, ![c].pc = "view"]
    BY <2>2, <1>1, <1>2, <1>3 DEF Pages!Handler, Pages!Entry, Pages!Visited
  <2> QED BY <2>1, <2>2, <1>1
<1>5. Pages(s)!Shape'
  BY <1>1, <1>4 DEF Pages!IInv, Pages!Shape, Pages!Visited, Pages!Entry, Pages!Handler
<1>6. Pages(s)!AloneIsAlone'
  BY <1>1, <1>4, PagesAlone
<1>7. Pages(s)!EditAgrees' /\ Pages(s)!ScreenAgrees'
  BY <1>1, <1>4 DEF Pages!IInv, Pages!EditAgrees, Pages!ScreenAgrees
<1> QED BY <1>5, <1>6, <1>7 DEF Pages!IInv

\* A click that is pressed while another is under way is known of; one that is
\* not changes nothing yet.
LEMMA PagesPress ==
    ASSUME NEW s \in PagesScopes, Pages(s)!IInv, NEW c \in s.buttons,
           NEW direction \in {"next", "prev"}, Pages(s)!Press(c, direction)
    PROVE  Pages(s)!IInv'
<1> DEFINE page == IF direction = "next" THEN v2.page + 1
                   ELSE IF v2.page > 0 THEN v2.page - 1 ELSE 0
           copy == [v2 EXCEPT !.page = page]
           alone == \A d \in s.buttons \ {c} : v4[d].pc = "idle"
           h == [pc |-> "view", copy |-> copy, next |-> FALSE, alone |-> alone]
<1>1. /\ v4[c].pc = "idle" /\ UNCHANGED <<v1, v2, v3>>
      /\ \/ UNCHANGED <<v4, v6>>
         \/ /\ ~(direction = "next" /\ v2.page + 1 >= v2.cursors)
            /\ v4' = [d \in s.buttons |-> IF d = c THEN h ELSE [v4[d] EXCEPT !.alone = FALSE]]
            /\ v6' = (v6 \/ ~alone)
  BY DEF Pages!Press, Pages!At, Pages!Alone
<1>2. CASE UNCHANGED <<v4, v6>>
  BY <1>1, <1>2 DEF Pages!IInv, Pages!Shape, Pages!Visited, Pages!AloneIsAlone, Pages!Alone,
       Pages!EditAgrees, Pages!ScreenAgrees, Pages!Entry, Pages!Handler
<1>3. CASE /\ ~(direction = "next" /\ v2.page + 1 >= v2.cursors)
           /\ v4' = [d \in s.buttons |-> IF d = c THEN h ELSE [v4[d] EXCEPT !.alone = FALSE]]
           /\ v6' = (v6 \/ ~alone)
  <2>1. /\ v4 \in [s.buttons -> Pages(s)!Handler] /\ v2 \in Pages(s)!Entry /\ v2.page < v2.cursors
        /\ v6 \in BOOLEAN
    BY DEF Pages!IInv, Pages!Shape, Pages!Visited
  <2>2. page \in Nat /\ page < v2.cursors
    BY <2>1, <1>3, PagesAssumption DEF Pages!Entry
  <2> HIDE DEF page
  <2>3. copy \in Pages(s)!Entry /\ Pages(s)!Visited(copy)
    BY <2>1, <2>2 DEF Pages!Entry, Pages!Visited
  <2> HIDE DEF copy
  <2>4. alone \in BOOLEAN
    OBVIOUS
  <2>5. h \in Pages(s)!Handler
    BY <2>3, <2>4 DEF Pages!Handler
  <2>6. \A d \in s.buttons : /\ [v4[d] EXCEPT !.alone = FALSE] \in Pages(s)!Handler
                             /\ [v4[d] EXCEPT !.alone = FALSE].pc = v4[d].pc
                             /\ [v4[d] EXCEPT !.alone = FALSE].copy = v4[d].copy
                             /\ [v4[d] EXCEPT !.alone = FALSE].alone = FALSE
    BY <2>1 DEF Pages!Handler
  <2>7. v4' \in [s.buttons -> Pages(s)!Handler]
    BY <2>5, <2>6, <1>3
  <2>8. /\ v4'[c].pc = "view" /\ v4'[c].copy = copy /\ v4'[c].alone = alone
        /\ \A d \in s.buttons \ {c} : /\ v4'[d].pc = v4[d].pc /\ v4'[d].copy = v4[d].copy
                                      /\ ~v4'[d].alone
    BY <2>6, <1>3
  <2> HIDE DEF h
  <2>9. Pages(s)!Shape'
    <3>1. \A d \in s.buttons : v4'[d].pc \in {"view", "edit"} => Pages(s)!Visited(v4'[d].copy)
      BY <2>3, <2>8 DEF Pages!IInv, Pages!Shape
    <3>2. v6' \in BOOLEAN
      BY <1>3
    <3> QED BY <3>1, <3>2, <2>7, <1>1 DEF Pages!IInv, Pages!Shape, Pages!Visited, Pages!Entry, Pages!Handler
  <2>10. Pages(s)!AloneIsAlone'
    <3> SUFFICES ASSUME NEW d \in s.buttons, v4'[d].pc # "idle"
                 PROVE  IF v4'[d].alone THEN \A e \in s.buttons \ {d} : v4'[e].pc = "idle" ELSE v6'
      BY DEF Pages!AloneIsAlone, Pages!Alone
    <3>1. CASE d = c
      BY ZenonT(40), <3>1, <2>8, <1>3
    <3>2. CASE d # c
      BY <3>2, <2>8, <1>3
    <3> QED BY <3>1, <3>2
  <2>11. Pages(s)!EditAgrees'
    BY <2>8, <1>1 DEF Pages!EditAgrees
  <2>12. Pages(s)!ScreenAgrees'
    BY <2>8, <1>1, <1>3 DEF Pages!IInv, Pages!ScreenAgrees
  <2> QED BY <2>9, <2>10, <2>11, <2>12 DEF Pages!IInv
<1> QED BY <1>1, <1>2, <1>3

\* The answer of Codex is written to the entry and to the click alike.
LEMMA PagesView ==
    ASSUME NEW s \in PagesScopes, Pages(s)!IInv, NEW c \in s.buttons, Pages(s)!View(c)
    PROVE  Pages(s)!IInv'
<1> DEFINE copy == Pages(s)!Viewed(v4[c].copy)
           next == Pages(s)!HasNext(copy.page)
<1>1. /\ v4[c].pc = "view" /\ UNCHANGED <<v1, v3, v5, v6>>
      /\ \/ v2' = copy /\ v4' = [v4 EXCEPT ![c] = [@ EXCEPT !.pc = "edit", !.copy = copy, !.next = next]]
         \/ v2' = v2 /\ v4' = [v4 EXCEPT ![c] = Pages(s)!Idle]
  BY DEF Pages!View
<1>2. /\ v4 \in [s.buttons -> Pages(s)!Handler] /\ v4[c] \in Pages(s)!Handler
      /\ v1 \in 1..s.pages /\ s.pages \in Nat \ {0} /\ v4[c].copy.page < v4[c].copy.cursors
  BY <1>1, PagesAssumption DEF Pages!IInv, Pages!Shape, Pages!Visited
<1>3. CASE v2' = v2 /\ v4' = [v4 EXCEPT ![c] = Pages(s)!Idle]
  <2>1. Pages(s)!Idle \in Pages(s)!Handler /\ Pages(s)!Idle.pc = "idle"
    BY <1>2 DEF Pages!Idle, Pages!At, Pages!Gone, Pages!Handler, Pages!Entry
  <2>2. /\ v4' \in [s.buttons -> Pages(s)!Handler] /\ v4'[c].pc = "idle"
        /\ \A d \in s.buttons \ {c} : v4'[d] = v4[d]
    BY <2>1, <1>2, <1>3
  <2>3. Pages(s)!Shape'
    BY <2>2, <1>1, <1>3 DEF Pages!IInv, Pages!Shape, Pages!Visited, Pages!Entry, Pages!Handler
  <2>4. Pages(s)!AloneIsAlone'
    BY <2>2, <1>1, PagesAlone
  <2>5. Pages(s)!EditAgrees' /\ Pages(s)!ScreenAgrees'
    BY <2>2, <1>1, <1>3 DEF Pages!IInv, Pages!EditAgrees, Pages!ScreenAgrees
  <2> QED BY <2>3, <2>4, <2>5 DEF Pages!IInv
<1>4. CASE v2' = copy /\ v4' = [v4 EXCEPT ![c] = [@ EXCEPT !.pc = "edit", !.copy = copy, !.next = next]]
  <2>1. /\ v4[c].copy \in Pages(s)!Entry /\ v4[c].copy.page \in Nat
        /\ v4[c].copy.cursors \in 1..s.pages
    BY <1>2 DEF Pages!Handler, Pages!Entry
  <2>2. /\ copy \in Pages(s)!Entry /\ Pages(s)!Visited(copy) /\ copy.page = v4[c].copy.page
        /\ next => copy.page + 1 < copy.cursors
    <3>1. CASE Pages(s)!HasNext(v4[c].copy.page) /\ v4[c].copy.cursors = v4[c].copy.page + 1
      <4>1. copy = [v4[c].copy EXCEPT !.cursors = v4[c].copy.cursors + 1]
        BY <3>1 DEF Pages!Viewed
      <4>2. v4[c].copy.cursors + 1 \in 1..s.pages
        BY <3>1, <2>1, <1>2 DEF Pages!HasNext
      <4>3. copy.page = v4[c].copy.page /\ copy.cursors = v4[c].copy.cursors + 1
            /\ copy \in Pages(s)!Entry
        BY <4>1, <4>2, <2>1 DEF Pages!Entry
      <4> HIDE DEF copy
      <4> QED BY <4>3, <3>1, <2>1, <1>2 DEF Pages!Visited
    <3>2. CASE ~(Pages(s)!HasNext(v4[c].copy.page) /\ v4[c].copy.cursors = v4[c].copy.page + 1)
      <4>1. copy = v4[c].copy
        BY <3>2 DEF Pages!Viewed
      <4> HIDE DEF copy
      <4> QED BY <4>1, <3>2, <2>1, <1>2 DEF Pages!Visited
    <3> QED BY <3>1, <3>2
  <2>3. next \in BOOLEAN
    BY DEF Pages!HasNext
  <2> HIDE DEF copy, next
  <2>4. /\ v4' \in [s.buttons -> Pages(s)!Handler]
        /\ v4'[c].pc = "edit" /\ v4'[c].copy = copy /\ v4'[c].next = next /\ v4'[c].alone = v4[c].alone
        /\ \A d \in s.buttons \ {c} : v4'[d] = v4[d]
    BY <2>2, <2>3, <1>2, <1>4 DEF Pages!Handler
  <2>5. Pages(s)!Shape'
    BY <2>2, <2>4, <1>1, <1>4 DEF Pages!IInv, Pages!Shape, Pages!Visited, Pages!Entry, Pages!Handler
  <2>6. Pages(s)!AloneIsAlone'
    BY <2>4, <1>1, PagesAlone
  <2>7. Pages(s)!EditAgrees'
    <3> SUFFICES ASSUME NEW d \in s.buttons, v4'[d].pc = "edit", v4'[d].alone
                 PROVE  /\ v2'.page = v4'[d].copy.page /\ v2'.cursors = v4'[d].copy.cursors
                        /\ v4'[d].next => v2'.page + 1 < v2'.cursors
      BY DEF Pages!EditAgrees
    <3>1. d = c
      BY <2>4, <1>1 DEF Pages!IInv, Pages!AloneIsAlone, Pages!Alone
    <3> QED BY <3>1, <2>2, <2>4, <1>4
  <2>8. Pages(s)!ScreenAgrees'
    BY <2>4 DEF Pages!ScreenAgrees
  <2> QED BY <2>5, <2>6, <2>7, <2>8 DEF Pages!IInv
<1> QED BY <1>1, <1>3, <1>4

\* A page that is shown is the entry's, if its click was alone.
LEMMA PagesEdit ==
    ASSUME NEW s \in PagesScopes, Pages(s)!IInv, NEW c \in s.buttons, Pages(s)!Edit(c)
    PROVE  Pages(s)!IInv'
<1> DEFINE card == [there |-> TRUE, page |-> v4[c].copy.page, next |-> v4[c].next]
<1>1. /\ v4[c].pc = "edit" /\ v4' = [v4 EXCEPT ![c] = Pages(s)!Idle] /\ UNCHANGED <<v1, v2, v5>>
      /\ \/ v3' = card /\ v6' = (v6 /\ ~v4[c].alone)
         \/ v3' = v3 /\ v6' = TRUE
  BY DEF Pages!Edit
<1>2. /\ v4 \in [s.buttons -> Pages(s)!Handler] /\ v4[c] \in Pages(s)!Handler
      /\ s.pages \in Nat \ {0} /\ v4[c].copy.page < v4[c].copy.cursors
  BY <1>1, PagesAssumption DEF Pages!IInv, Pages!Shape, Pages!Visited
<1>3. /\ v4[c].copy.page \in 0..(s.pages - 1) /\ v4[c].next \in BOOLEAN /\ v4[c].alone \in BOOLEAN
  BY <1>2 DEF Pages!Handler, Pages!Entry
<1>4. Pages(s)!Idle \in Pages(s)!Handler /\ Pages(s)!Idle.pc = "idle"
  BY <1>2 DEF Pages!Idle, Pages!At, Pages!Gone, Pages!Handler, Pages!Entry
<1>5. /\ v4' \in [s.buttons -> Pages(s)!Handler] /\ v4'[c].pc = "idle"
      /\ \A d \in s.buttons \ {c} : v4'[d] = v4[d]
  BY <1>1, <1>2, <1>4
<1>6. /\ card \in [there : BOOLEAN, page : 0..(s.pages - 1), next : BOOLEAN]
      /\ card.page = v4[c].copy.page /\ card.next = v4[c].next
  BY <1>3
<1> HIDE DEF card
<1>7. v6' \in BOOLEAN
  BY <1>1, <1>3 DEF Pages!IInv, Pages!Shape
<1>8. Pages(s)!Shape'
  BY <1>1, <1>5, <1>6, <1>7 DEF Pages!IInv, Pages!Shape, Pages!Visited, Pages!Entry, Pages!Handler
<1>9. Pages(s)!AloneIsAlone'
  <2> SUFFICES ASSUME NEW d \in s.buttons, v4'[d].pc # "idle"
               PROVE  IF v4'[d].alone THEN \A e \in s.buttons \ {d} : v4'[e].pc = "idle" ELSE v6'
    BY DEF Pages!AloneIsAlone, Pages!Alone
  <2>1. d # c /\ v4'[d] = v4[d] /\ v4[d].pc # "idle"
    BY <1>5
  <2>2. ~v4[c].alone /\ ~v4[d].alone /\ v6
    BY <2>1, <1>1 DEF Pages!IInv, Pages!AloneIsAlone, Pages!Alone
  <2> QED BY <2>1, <2>2, <1>1
<1>10. Pages(s)!EditAgrees'
  BY <1>1, <1>5 DEF Pages!IInv, Pages!EditAgrees
<1>11. Pages(s)!ScreenAgrees'
  <2>1. CASE v3' = card /\ v6' = (v6 /\ ~v4[c].alone)
    <3>1. CASE v4[c].alone
      BY <3>1, <2>1, <1>1, <1>6 DEF Pages!IInv, Pages!EditAgrees, Pages!ScreenAgrees
    <3>2. CASE ~v4[c].alone
      BY <3>2, <2>1, <1>1 DEF Pages!IInv, Pages!AloneIsAlone, Pages!ScreenAgrees
    <3> QED BY <3>1, <3>2
  <2>2. CASE v3' = v3 /\ v6' = TRUE
    BY <2>2 DEF Pages!ScreenAgrees
  <2> QED BY <2>1, <2>2, <1>1
<1> QED BY <1>8, <1>9, <1>10, <1>11 DEF Pages!IInv

\* An entry expires in the map and in the copies that are put back.
LEMMA PagesExpire ==
    ASSUME NEW s \in PagesScopes, Pages(s)!IInv, Pages(s)!Expire \/ Pages(s)!Sweep
    PROVE  Pages(s)!IInv'
<1>1. /\ v4 \in [s.buttons -> Pages(s)!Handler] /\ v2 \in Pages(s)!Entry
  BY DEF Pages!IInv, Pages!Shape
<1>2. /\ v2' \in Pages(s)!Entry /\ v2'.page = v2.page /\ v2'.cursors = v2.cursors
      /\ v2'.status # "live" /\ UNCHANGED <<v1, v3, v5, v6>>
  BY <1>1 DEF Pages!Expire, Pages!Sweep, Pages!Entry
<1>3. \A c \in s.buttons : /\ v4'[c].pc = v4[c].pc /\ v4'[c].next = v4[c].next
                           /\ v4'[c].alone = v4[c].alone /\ v4'[c] \in Pages(s)!Handler
                           /\ v4'[c].copy.page = v4[c].copy.page
                           /\ v4'[c].copy.cursors = v4[c].copy.cursors
  <2> SUFFICES ASSUME NEW c \in s.buttons
               PROVE  /\ v4'[c].pc = v4[c].pc /\ v4'[c].next = v4[c].next
                      /\ v4'[c].alone = v4[c].alone /\ v4'[c] \in Pages(s)!Handler
                      /\ v4'[c].copy.page = v4[c].copy.page
                      /\ v4'[c].copy.cursors = v4[c].copy.cursors
    OBVIOUS
  <2>1. v4[c] \in Pages(s)!Handler
    BY <1>1
  <2>2. CASE Pages(s)!Sweep
    BY <2>1, <2>2 DEF Pages!Sweep
  <2>3. CASE Pages(s)!Expire
    <3>1. v4'[c] = [v4[c] EXCEPT !.copy.status = IF @ = "live" THEN "expired" ELSE @]
      BY <2>3 DEF Pages!Expire
    <3> QED BY <3>1, <2>1 DEF Pages!Handler, Pages!Entry
  <2> QED BY <2>2, <2>3
<1>4. v4' \in [s.buttons -> Pages(s)!Handler]
  <2>1. v4' = [c \in s.buttons |-> v4'[c]]
    BY <1>1 DEF Pages!Expire, Pages!Sweep
  <2> QED BY <2>1, <1>3
<1>5. Pages(s)!Shape'
  BY <1>2, <1>3, <1>4 DEF Pages!IInv, Pages!Shape, Pages!Visited, Pages!Entry, Pages!Handler
<1>6. Pages(s)!AloneIsAlone'
  BY <1>2, <1>3 DEF Pages!IInv, Pages!AloneIsAlone, Pages!Alone
<1>7. Pages(s)!EditAgrees' /\ Pages(s)!ScreenAgrees'
  BY <1>2, <1>3 DEF Pages!IInv, Pages!EditAgrees, Pages!ScreenAgrees
<1> QED BY <1>5, <1>6, <1>7 DEF Pages!IInv

\* The browser starts in its invariant,
LEMMA PagesInit ==
    ASSUME NEW s \in PagesScopes, Pages(s)!Init
    PROVE  Pages(s)!IInv
<1>1. s.pages \in Nat \ {0}
  BY PagesAssumption
<1>2. /\ v1 \in 1..s.pages /\ v2 = [status |-> "gone", cursors |-> 1, page |-> 0]
      /\ v3 = [there |-> FALSE, page |-> 0, next |-> FALSE]
      /\ v4 = [c \in s.buttons |-> Pages(s)!Idle] /\ v6 = FALSE
  BY DEF Pages!Init, Pages!Gone
<1>3. Pages(s)!Idle \in Pages(s)!Handler /\ Pages(s)!Idle.pc = "idle"
  BY <1>1 DEF Pages!Idle, Pages!At, Pages!Gone, Pages!Handler, Pages!Entry
<1>4. v2 \in Pages(s)!Entry /\ Pages(s)!Visited(v2) /\ v2.status = "gone"
  BY <1>1, <1>2 DEF Pages!Entry, Pages!Visited
<1>5. v3 \in [there : BOOLEAN, page : 0..(s.pages - 1), next : BOOLEAN]
  BY <1>1, <1>2
<1>6. v4 \in [s.buttons -> Pages(s)!Handler] /\ \A c \in s.buttons : v4[c].pc = "idle"
  BY <1>2, <1>3
<1> QED BY <1>2, <1>4, <1>5, <1>6 DEF Pages!IInv, Pages!Shape, Pages!AloneIsAlone, Pages!EditAgrees,
           Pages!ScreenAgrees

\* and keeps it.
LEMMA PagesStep ==
    ASSUME NEW s \in PagesScopes, Pages(s)!IInv,
           Pages(s)!Next \/ UNCHANGED <<v1, v2, v3, v4, v5, v6>>
    PROVE  Pages(s)!IInv'
<1>1. CASE UNCHANGED <<v1, v2, v3, v4, v5, v6>>
  BY <1>1 DEF Pages!IInv, Pages!Shape, Pages!Visited, Pages!AloneIsAlone, Pages!Alone,
       Pages!EditAgrees, Pages!ScreenAgrees, Pages!Entry, Pages!Handler
<1>2. CASE Pages(s)!Next
  BY <1>2, PagesListChanges, PagesExpire, PagesShowTasks, PagesPress, PagesWalk, PagesView, PagesEdit
     DEF Pages!Next
<1> QED BY <1>1, <1>2

\* The states of the browser, in every behaviour.
LEMMA PagesInvariant == Spec => [](\A s \in PagesScopes : Is("pages", s) => Pages(s)!IInv)
<1> DEFINE I == \A s \in PagesScopes : Is("pages", s) => Pages(s)!IInv
<1>1. Init => I
  BY PagesInit DEF Init, Is
<1>2. I /\ [Next]_vars => I'
  <2> SUFFICES ASSUME I, [Next]_vars, NEW s \in PagesScopes, Is("pages", s)'
               PROVE  Pages(s)!IInv'
    OBVIOUS
  <2>1. CASE UNCHANGED vars
    BY <2>1, PagesStep DEF vars, Is
  <2>2. CASE Next
    <3>1. In("pages", s) /\ Pages(s)!Next
      BY <2>2 DEF Next, In, Is
    <3> QED BY <3>1, PagesStep DEF In
  <2> QED BY <2>1, <2>2
<1> QED BY <1>1, <1>2, PTL DEF Spec

\* What the invariant says of the page on the screen.
LEMMA PagesAgreeOnScreen ==
    ASSUME NEW s \in PagesScopes, Pages(s)!IInv
    PROVE  Pages(s)!PageAgrees
BY DEF Pages!IInv, Pages!ScreenAgrees, Pages!PageAgrees

-----------------------------------------------------------------------------
(* The menus                                                                *)

\* What division leaves is less than the divisor.
LEMMA DivisionRemainder ==
    ASSUME NEW a \in Nat, NEW b \in Nat \ {0}
    PROVE  /\ a \div b \in Nat /\ (a \div b) * b <= a /\ a < (a \div b) * b + b
OBVIOUS

\* Division keeps the order.
LEMMA DivisionOrder ==
    ASSUME NEW a \in Nat, NEW b \in Nat \ {0}, NEW c \in Nat, a <= c
    PROVE  a \div b <= c \div b
<1> DEFINE p == a \div b
           q == c \div b
<1>1. p \in Nat /\ q \in Nat /\ p * b <= a /\ c < q * b + b
  BY DivisionRemainder
<1> HIDE DEF p, q
<1>2. p * b < (q + 1) * b
  BY <1>1
<1>3. p < q + 1
  BY <1>1, <1>2
<1> QED BY <1>1, <1>3 DEF p, q

Increasing(f) == \A i, j \in DOMAIN f : i < j => f[i] < f[j]

\* A finite set of numbers with a least element before an ordered rest is ordered.
LEMMA LeastBefore ==
    ASSUME NEW S \in SUBSET Nat, IsFiniteSet(S), NEW m \in S, \A x \in S : m <= x,
           NEW g \in [1..Cardinality(S \ {m}) -> S \ {m}], Increasing(g)
    PROVE  \E f \in [1..Cardinality(S) -> S] : Increasing(f)
<1> DEFINE n == Cardinality(S)
           f == [i \in 1..n |-> IF i = 1 THEN m ELSE g[i - 1]]
<1>1. n \in Nat /\ Cardinality(S \ {m}) = n - 1 /\ Cardinality(S \ {m}) \in Nat
  BY FS_RemoveElement, FS_CardinalityType
<1>10. g \in [1..(n - 1) -> S \ {m}]
  BY <1>1
<1> HIDE DEF n
<1>2. \A i \in 1..n : i # 1 => i - 1 \in 1..(n - 1) /\ f[i] = g[i - 1] /\ f[i] \in S \ {m}
  <2> SUFFICES ASSUME NEW i \in 1..n, i # 1
               PROVE  i - 1 \in 1..(n - 1) /\ f[i] = g[i - 1] /\ f[i] \in S \ {m}
    OBVIOUS
  <2>1. i - 1 \in 1..(n - 1)
    BY <1>1
  <2>2. f[i] = g[i - 1]
    OBVIOUS
  <2> HIDE DEF f
  <2> QED BY <2>1, <2>2, <1>10
<1>3. f \in [1..n -> S]
  BY <1>2
<1>4. Increasing(f)
  <2> SUFFICES ASSUME NEW i \in 1..n, NEW j \in 1..n, i < j
               PROVE  f[i] < f[j]
    BY <1>3 DEF Increasing
  <2>1. j # 1
    BY <1>1
  <2>2. f[j] = g[j - 1] /\ f[j] \in S \ {m} /\ j - 1 \in 1..(n - 1)
    BY <2>1, <1>2
  <2>3. CASE i = 1
    <3>1. f[i] = m
      BY <2>3
    <3>2. m <= f[j] /\ m # f[j] /\ m \in Nat /\ f[j] \in Nat
      BY <2>2
    <3> HIDE DEF f
    <3> QED BY <3>1, <3>2
  <2>4. CASE i # 1
    <3>1. i - 1 \in 1..(n - 1) /\ f[i] = g[i - 1]
      BY <2>4, <1>2
    <3>2. DOMAIN g = 1..(n - 1) /\ i - 1 < j - 1
      BY <1>1
    <3> HIDE DEF f
    <3> QED BY <3>1, <3>2, <2>2 DEF Increasing
  <2> QED BY <2>3, <2>4
<1> HIDE DEF f
<1> QED BY <1>3, <1>4 DEF n

\* A finite set of numbers can be put in order.
LEMMA OrderExists ==
    ASSUME NEW S \in SUBSET Nat, IsFiniteSet(S)
    PROVE  \E f \in [1..Cardinality(S) -> S] : Increasing(f)
<1> DEFINE Without(n) ==
             \E U \in SUBSET Nat : /\ IsFiniteSet(U) /\ Cardinality(U) = n
                                   /\ ~ \E f \in [1..Cardinality(U) -> U] : Increasing(f)
           Bad == {n \in Nat : Without(n)}
<1>1. SUFFICES ASSUME ~ \E f \in [1..Cardinality(S) -> S] : Increasing(f)
               PROVE  FALSE
  OBVIOUS
<1>2. Bad \subseteq Nat /\ Cardinality(S) \in Bad
  BY <1>1, FS_CardinalityType
<1>3. PICK n \in Bad : \A k \in Bad : ~(<<k, n>> \in OpToRel(<, Nat))
  <2> HIDE DEF Bad
  <2> QED BY <1>2, NatLessThanWellFounded, WFMin
<1>4. n \in Nat /\ \A k \in Bad : ~(k < n)
  BY <1>2, <1>3 DEF OpToRel
<1>5. PICK U \in SUBSET Nat : /\ IsFiniteSet(U) /\ Cardinality(U) = n
                              /\ ~ \E f \in [1..Cardinality(U) -> U] : Increasing(f)
  BY <1>3
<1>6. CASE U = {}
  <2>1. Cardinality(U) = 0
    BY <1>6, FS_EmptySet
  <2>2. [i \in 1..0 |-> 0] \in [1..0 -> U] /\ Increasing([i \in 1..0 |-> 0])
    BY DEF Increasing
  <2> QED BY <2>1, <2>2, <1>5
<1>7. CASE U # {}
  <2>1. PICK m \in U : \A x \in U : ~(<<x, m>> \in OpToRel(<, Nat))
    BY <1>7, NatLessThanWellFounded, WFMin
  <2>10. \A x \in U : x \in Nat /\ m \in Nat /\ ~(x < m)
    BY <2>1 DEF OpToRel
  <2>2. \A x \in U : m <= x
    BY <2>10
  <2>11. IsFiniteSet(U) /\ Cardinality(U) = n
    BY <1>5
  <2>12. IsFiniteSet(U \ {m}) /\ Cardinality(U \ {m}) = n - 1
    BY <2>11, FS_RemoveElement
  <2>13. Cardinality(U \ {m}) \in Nat
    BY <2>12, FS_CardinalityType
  <2>3. IsFiniteSet(U \ {m}) /\ Cardinality(U \ {m}) = n - 1 /\ n - 1 \in Nat
    BY <2>12, <2>13
  <2>4. ~Without(n - 1)
    BY <2>3, <1>4
  <2>5. PICK g \in [1..Cardinality(U \ {m}) -> U \ {m}] : Increasing(g)
    BY <2>3, <2>4
  <2> QED BY <2>2, <2>5, <1>5, LeastBefore
<1> QED BY <1>6, <1>7

\* The parts count as every module does.
LEMMA MenusCardinality ==
    ASSUME NEW s \in MenusScopes, NEW S
    PROVE  /\ Menus(s)!Cardinality(S) = Cardinality(S)
           /\ Menus(s)!IsFiniteSet(S) <=> IsFiniteSet(S)
BY DEF Cardinality, Menus!Cardinality, IsFiniteSet, Menus!IsFiniteSet

\* A list of entries in order is a sequence of them.
LEMMA MenusSorted ==
    ASSUME NEW s \in MenusScopes, NEW S \in SUBSET Menus(s)!Entries
    PROVE  /\ IsFiniteSet(S) /\ Menus(s)!Sorted(S) \in Seq(Menus(s)!Entries)
           /\ Menus(s)!Sorted(S) \in [1..Cardinality(S) -> S]
<1>1. S \subseteq Nat /\ IsFiniteSet(S)
  <2>1. s.entries \in Nat
    BY MenusAssumption
  <2>2. IsFiniteSet(1..s.entries) /\ 1..s.entries \subseteq Nat
    BY <2>1, FS_Interval
  <2> QED BY <2>2, FS_Subset DEF Menus!Entries
<1>2. \E f \in [1..Cardinality(S) -> S] : \A i, j \in DOMAIN f : i < j => f[i] < f[j]
  BY <1>1, OrderExists DEF Increasing
<1> DEFINE A == [1..Cardinality(S) -> S]
           P(f) == \A i, j \in DOMAIN f : i < j => f[i] < f[j]
<1>7. Menus(s)!Sorted(S) = CHOOSE f \in A : P(f)
  BY MenusCardinality DEF Menus!Sorted
<1>8. \E f \in A : P(f)
  BY <1>2
<1>3. Menus(s)!Sorted(S) \in [1..Cardinality(S) -> S]
  <2> HIDE DEF P
  <2>1. Menus(s)!Sorted(S) \in A
    BY <1>7, <1>8, Zenon
  <2> QED BY <2>1
<1>4. Cardinality(S) \in Nat
  BY <1>1, FS_CardinalityType
<1>5. \A f, n, E : n \in Nat /\ f \in [1..n -> E] => f \in Seq(E)
  OBVIOUS
<1>6. Menus(s)!Sorted(S) \in [1..Cardinality(S) -> Menus(s)!Entries]
  BY <1>3
<1> QED BY <1>1, <1>3, <1>4, <1>5, <1>6

\* A card more, while there is room for it; one in the place of another; one less.
LEMMA MenusFew ==
    ASSUME NEW s \in MenusScopes, NEW C, Menus(s)!Few(C), NEW x, NEW y
    PROVE  /\ x \in C \/ Menus(s)!Cardinality(C) < s.onscreen => Menus(s)!Few(C \cup {x})
           /\ y \in C => Menus(s)!Few((C \ {y}) \cup {x})
           /\ Menus(s)!Few(C \ {y})
<1>1. /\ IsFiniteSet(C) /\ Cardinality(C) <= s.onscreen /\ s.onscreen \in Nat
      /\ Menus(s)!Cardinality(C) = Cardinality(C)
  BY MenusAssumption, MenusCardinality DEF Menus!Few
<1>2. /\ IsFiniteSet(C \cup {x}) /\ IsFiniteSet(C \ {y}) /\ IsFiniteSet((C \ {y}) \cup {x})
  BY <1>1, FS_AddElement, FS_RemoveElement
<1>3. /\ Cardinality(C \cup {x}) = IF x \in C THEN Cardinality(C) ELSE Cardinality(C) + 1
      /\ Cardinality(C \ {y}) = IF y \in C THEN Cardinality(C) - 1 ELSE Cardinality(C)
  BY <1>1, FS_AddElement, FS_RemoveElement
<1>4. Cardinality((C \ {y}) \cup {x})
        = IF x \in C \ {y} THEN Cardinality(C \ {y}) ELSE Cardinality(C \ {y}) + 1
  BY <1>2, FS_AddElement
<1>5. /\ Cardinality(C) \in Nat /\ Cardinality(C \ {y}) \in Nat
  BY <1>1, <1>2, FS_CardinalityType
<1>6. \A D : IsFiniteSet(D) /\ Cardinality(D) <= s.onscreen => Menus(s)!Few(D)
  BY MenusCardinality DEF Menus!Few
<1>7. x \in C \/ Menus(s)!Cardinality(C) < s.onscreen => Cardinality(C \cup {x}) <= s.onscreen
  BY <1>1, <1>3, <1>5
<1>8. y \in C => Cardinality((C \ {y}) \cup {x}) <= s.onscreen
  BY <1>1, <1>3, <1>4, <1>5
<1>9. Cardinality(C \ {y}) <= s.onscreen
  BY <1>1, <1>3, <1>5
<1> QED BY <1>2, <1>6, <1>7, <1>8, <1>9

\* What becomes of a menu once it is there: it stays, or it goes.
Later(m, n) ==
    /\ m.status # "none" => n.status # "none" /\ (n.status = "live" => n = m)
    /\ m.status = "gone" \/ n.status = "none" => n = m

\* What the cards, the forms and the results know of their menus they know of
\* what becomes of them.
LEMMA MenusLater ==
    ASSUME NEW s \in MenusScopes, \A t \in s.tokens : Later(v3[t], v3'[t])
    PROVE  /\ \A c : c.token \in s.tokens /\ Menus(s)!Backed(c) => Menus(s)!Backed(c)'
           /\ \A f : f.token \in s.tokens /\ Menus(s)!Taken(f) => Menus(s)!Taken(f)'
           /\ \A e : Menus(s)!Done(e) => Menus(s)!Done(e)'
<1>1. ASSUME NEW c, c.token \in s.tokens, Menus(s)!Backed(c)
      PROVE  Menus(s)!Backed(c)'
  <2>1. Later(v3[c.token], v3'[c.token])
    BY <1>1
  <2>2. v3[c.token].status # "none"
    BY <1>1 DEF Menus!Backed
  <2>3. CASE v3'[c.token] = v3[c.token]
    BY <2>3, <1>1 DEF Menus!Backed
  <2>4. CASE v3'[c.token] # v3[c.token]
    BY <2>1, <2>2, <2>4, <1>1 DEF Menus!Backed, Later
  <2> QED BY <2>3, <2>4
<1>2. ASSUME NEW f, f.token \in s.tokens, Menus(s)!Taken(f)
      PROVE  Menus(s)!Taken(f)'
  BY <1>2 DEF Menus!Taken, Later
<1>3. ASSUME NEW e, Menus(s)!Done(e)
      PROVE  Menus(s)!Done(e)'
  <2>1. Later(v3[e.token], v3'[e.token])
    BY <1>3 DEF Menus!Done
  <2>2. v3[e.token].status # "none"
    BY <1>3 DEF Menus!Done
  <2>3. CASE v3'[e.token] = v3[e.token]
    BY <2>3, <1>3 DEF Menus!Done
  <2>4. CASE v3'[e.token] # v3[e.token]
    BY <2>1, <2>2, <2>4, <1>3 DEF Menus!Done, Later
  <2> QED BY <2>3, <2>4
<1> QED BY <1>1, <1>2, <1>3

\* The parts of the invariant when nothing but the menus changes.
LEMMA MenusKept ==
    ASSUME NEW s \in MenusScopes, Menus(s)!IInv, \A t \in s.tokens : Later(v3[t], v3'[t])
    PROVE  /\ v4' = v4 => Menus(s)!CardsAgree'
           /\ v5' = v5 => Menus(s)!FormsAgree'
           /\ v6' = v6 => Menus(s)!SentAgree'
           /\ v5' = v5 /\ v6' = v6 => Menus(s)!TakenOnce'
           /\ Menus(s)!MenusFresh'
<1>1. /\ \A c \in v4 : c.token \in s.tokens
      /\ \A f \in v5 : f.token \in s.tokens
  BY DEF Menus!IInv, Menus!Shape, Menus!CardSet, Menus!Flights
<1>2. v4' = v4 => Menus(s)!CardsAgree'
  BY <1>1, MenusLater DEF Menus!IInv, Menus!CardsAgree
<1>3. v5' = v5 => Menus(s)!FormsAgree'
  BY <1>1, MenusLater DEF Menus!IInv, Menus!FormsAgree
<1>4. v6' = v6 => Menus(s)!SentAgree'
  BY <1>1, MenusLater DEF Menus!IInv, Menus!SentAgree
<1>5. v5' = v5 /\ v6' = v6 => Menus(s)!TakenOnce'
  BY DEF Menus!IInv, Menus!TakenOnce
<1>6. Menus(s)!MenusFresh'
  BY DEF Menus!IInv, Menus!MenusFresh, Later
<1> QED BY <1>2, <1>3, <1>4, <1>5, <1>6

\* The list or the channel's task changes by itself.
LEMMA MenusChange ==
    ASSUME NEW s \in MenusScopes, Menus(s)!IInv, Menus(s)!Change
    PROVE  Menus(s)!IInv'
<1>1. UNCHANGED <<v3, v4, v5, v6>>
  BY DEF Menus!Change
<1>2. /\ v1' \in [Menus(s)!Entries -> {"absent", "usable", "unusable"}] /\ v2' \in s.threads
  BY DEF Menus!Change, Menus!IInv, Menus!Shape
<1>3. Menus(s)!Shape'
  BY <1>1, <1>2 DEF Menus!IInv, Menus!Shape, Menus!Few
<1>4. \A t \in s.tokens : Later(v3[t], v3'[t])
  BY <1>1 DEF Later
<1> QED BY <1>1, <1>3, <1>4, MenusKept DEF Menus!IInv

\* A menu expires.
LEMMA MenusExpire ==
    ASSUME NEW s \in MenusScopes, Menus(s)!IInv, NEW t \in s.tokens, Menus(s)!Expire(t)
    PROVE  Menus(s)!IInv'
<1>1. /\ v3[t].status = "live" /\ v3' = [v3 EXCEPT ![t].status = "expired"]
      /\ UNCHANGED <<v1, v2, v4, v5, v6>>
  BY DEF Menus!Expire
<1>2. v3 \in [s.tokens -> Menus(s)!MenuSet]
  BY DEF Menus!IInv, Menus!Shape
<1>3. /\ v3' \in [s.tokens -> Menus(s)!MenuSet] /\ v3'[t].status = "expired"
      /\ \A u \in s.tokens \ {t} : v3'[u] = v3[u]
  BY <1>1, <1>2 DEF Menus!MenuSet
<1>4. Menus(s)!Shape'
  BY <1>1, <1>3 DEF Menus!IInv, Menus!Shape, Menus!Few
<1>5. \A u \in s.tokens : Later(v3[u], v3'[u])
  BY <1>1, <1>3 DEF Later
<1> QED BY <1>1, <1>4, <1>5, MenusKept DEF Menus!IInv

\* A card that is added or takes the place of another.
LEMMA MenusCardPut ==
    ASSUME NEW s \in MenusScopes, Menus(s)!IInv, NEW card \in Menus(s)!CardSet,
           \A t \in s.tokens : Later(v3[t], v3'[t]), Menus(s)!Backed(card)',
           v3' \in [s.tokens -> Menus(s)!MenuSet], UNCHANGED <<v1, v2, v5, v6>>,
           Menus(s)!Post(card) \/ \E old \in v4 : Menus(s)!Turn(old, card)
    PROVE  Menus(s)!IInv'
<1>1. v4 \subseteq Menus(s)!CardSet /\ Menus(s)!Few(v4)
  BY DEF Menus!IInv, Menus!Shape
<1>2. /\ v4' \subseteq v4 \cup {card}
      /\ IsFiniteSet(v4') /\ Cardinality(v4') <= s.onscreen
  <2>1. CASE Menus(s)!Post(card)
    <3>1. v4' = v4 \cup {card} /\ (card \in v4 \/ Menus(s)!Cardinality(v4) < s.onscreen)
      BY <2>1 DEF Menus!Post
    <3>2. Menus(s)!Few(v4 \cup {card})
      BY <3>1, <1>1, MenusFew
    <3> QED BY <3>1, <3>2, MenusCardinality DEF Menus!Few
  <2>2. CASE \E old \in v4 : Menus(s)!Turn(old, card)
    <3>1. PICK old \in v4 : v4' = (v4 \ {old}) \cup {card}
      BY <2>2 DEF Menus!Turn
    <3>2. Menus(s)!Few((v4 \ {old}) \cup {card})
      BY <1>1, MenusFew
    <3> QED BY <3>1, <3>2, MenusCardinality DEF Menus!Few
  <2> QED BY <2>1, <2>2
<1>3. Menus(s)!Cardinality(v4') = Cardinality(v4') /\ Menus(s)!IsFiniteSet(v4')
  BY <1>2, MenusCardinality
<1>4. Menus(s)!Shape'
  BY <1>1, <1>2, <1>3 DEF Menus!IInv, Menus!Shape, Menus!Few
<1>5. Menus(s)!CardsAgree'
  <2> SUFFICES ASSUME NEW c \in v4'
               PROVE  Menus(s)!Backed(c)'
    BY DEF Menus!CardsAgree
  <2>1. CASE c = card
    BY <2>1
  <2>2. CASE c \in v4
    <3>1. c.token \in s.tokens /\ Menus(s)!Backed(c)
      BY <2>2, <1>1 DEF Menus!IInv, Menus!CardsAgree, Menus!CardSet
    <3> QED BY <3>1, MenusLater
  <2> QED BY <2>1, <2>2, <1>2
<1> QED BY <1>4, <1>5, MenusKept DEF Menus!IInv

\* The pages of a list, and where a page number is clamped to.
LEMMA MenusPages ==
    ASSUME NEW s \in MenusScopes, NEW n \in Nat, NEW page \in Nat \ {0}
    PROVE  /\ Menus(s)!Pages(n) \in Nat \ {0} /\ Menus(s)!Clamped(n, page) \in Nat \ {0}
           /\ page <= Menus(s)!Pages(n) => Menus(s)!Clamped(n, page) = page
<1>1. s.size \in Nat \ {0}
  BY MenusAssumption
<1>2. Menus(s)!Pages(n) \in Nat \ {0}
  <2>1. CASE n = 0
    BY <2>1 DEF Menus!Pages
  <2>2. CASE n # 0
    <3>1. n + s.size - 1 \in Nat /\ s.size <= n + s.size - 1
      BY <1>1, <2>2
    <3>2. s.size \div s.size = 1
      BY <1>1
    <3>3. 1 <= (n + s.size - 1) \div s.size /\ (n + s.size - 1) \div s.size \in Nat
      BY <1>1, <3>1, <3>2, DivisionOrder, DivisionRemainder
    <3> QED BY <3>3, <2>2 DEF Menus!Pages
  <2> QED BY <2>1, <2>2
<1>3. Menus(s)!Clamped(n, page) \in Nat \ {0}
      /\ (page <= Menus(s)!Pages(n) => Menus(s)!Clamped(n, page) = page)
  BY <1>2 DEF Menus!Clamped
<1> QED BY <1>2, <1>3

\* A card of a list, which offers rows of it at their places.
Offers(s, card, token, kind, rows) ==
    /\ card \in Menus(s)!CardSet
    /\ card.token = token /\ card.view = "list" /\ card.kind = kind
    /\ \A o \in card.options : o.index \in DOMAIN rows /\ rows[o.index] = o.name

\* The cards of the lists are such cards.
LEMMA MenusListCard ==
    ASSUME NEW s \in MenusScopes, NEW token \in s.tokens, NEW page \in Nat,
           NEW kind \in Menus(s)!Inputs \cup {"plugin"},
           NEW rows \in Seq(Menus(s)!Entries), NEW places \in SUBSET DOMAIN rows
    PROVE  Offers(s, Menus(s)!ListCard(token, kind, page, Menus(s)!Options(rows, places)),
                  token, kind, rows)
<1> DEFINE card == Menus(s)!ListCard(token, kind, page, Menus(s)!Options(rows, places))
           options == Menus(s)!Options(rows, places)
<1>1. \A o \in options : \E i \in places : o = [index |-> i, name |-> rows[i]]
  BY DEF Menus!Options, Menus!Option
<1>2. \A i \in places : i \in DOMAIN rows /\ i \in Nat /\ rows[i] \in Menus(s)!Entries
  BY LenProperties, ElementOfSeq
<1>3. \A o \in options : /\ o \in [index : Nat, name : Menus(s)!Entries]
                         /\ o.index \in DOMAIN rows /\ rows[o.index] = o.name
  BY <1>1, <1>2
<1>4. options \in SUBSET [index : Nat, name : Menus(s)!Entries]
  BY <1>3
<1> HIDE DEF options
<1>5. card = [view |-> "list", token |-> token, kind |-> kind, page |-> page,
              options |-> options, index |-> 0, name |-> 0]
  BY DEF options, Menus!ListCard
<1> HIDE DEF card
<1>6. Offers(s, card, token, kind, rows)
  BY <1>3, <1>4, <1>5 DEF Menus!CardSet, Offers
<1> QED BY <1>6 DEF card

\* A menu that is added is there, and what has expired goes.
LEMMA MenusAdded ==
    ASSUME NEW s \in MenusScopes, Menus(s)!IInv, NEW token \in s.tokens,
           v3[token].status = "none", NEW menu \in Menus(s)!MenuSet, menu.status = "live",
           v3' = Menus(s)!Added(token, menu)
    PROVE  /\ v3' \in [s.tokens -> Menus(s)!MenuSet] /\ v3'[token] = menu
           /\ \A t \in s.tokens : Later(v3[t], v3'[t])
<1> DEFINE gone == [Menus(s)!NoMenu EXCEPT !.status = "gone"]
<1>1. v3 \in [s.tokens -> Menus(s)!MenuSet]
  BY DEF Menus!IInv, Menus!Shape
<1>2. gone \in Menus(s)!MenuSet /\ gone.status = "gone"
  <2>1. <<>> \in Seq(Menus(s)!Entries)
    BY EmptySeq
  <2>2. Menus(s)!NoMenu \in Menus(s)!MenuSet
    BY <2>1 DEF Menus!NoMenu, Menus!MenuSet
  <2> QED BY <2>2 DEF Menus!MenuSet
<1>3. v3' = [t \in s.tokens |-> IF t = token THEN menu
                               ELSE IF v3[t].status = "expired" THEN gone ELSE v3[t]]
  BY DEF Menus!Added
<1> HIDE DEF gone
<1>4. v3' \in [s.tokens -> Menus(s)!MenuSet] /\ v3'[token] = menu
  BY <1>1, <1>2, <1>3
<1>5. \A t \in s.tokens : Later(v3[t], v3'[t])
  BY <1>2, <1>3 DEF Later
<1> QED BY <1>4, <1>5

\* What is on the list, and what can be used of it, are entries.
LEMMA MenusEntries ==
    ASSUME NEW s \in MenusScopes, Menus(s)!IInv
    PROVE  /\ Menus(s)!Shown \in SUBSET Menus(s)!Entries
           /\ Menus(s)!Usable \in SUBSET Menus(s)!Entries
           /\ \A kind \in Menus(s)!Inputs \cup {"plugin"}, rows \in Seq(Menus(s)!Entries) :
                LET menu == Menus(s)!Menu(kind, rows)
                IN  /\ menu \in Menus(s)!MenuSet /\ menu.status = "live"
                    /\ menu.kind = kind /\ menu.rows = rows
BY DEF Menus!Shown, Menus!Usable, Menus!Menu, Menus!MenuSet, Menus!IInv, Menus!Shape

\* A new menu and its card.
LEMMA MenusListed ==
    ASSUME NEW s \in MenusScopes, Menus(s)!IInv, NEW token \in s.tokens, NEW page \in Nat,
           v3[token].status = "none", NEW kind \in Menus(s)!Inputs \cup {"plugin"},
           NEW rows \in Seq(Menus(s)!Entries), NEW places \in SUBSET DOMAIN rows,
           v3' = Menus(s)!Added(token, Menus(s)!Menu(kind, rows)),
           Menus(s)!Post(Menus(s)!ListCard(token, kind, page, Menus(s)!Options(rows, places))),
           UNCHANGED <<v1, v2, v5, v6>>
    PROVE  Menus(s)!IInv'
<1> SUFFICES ASSUME NEW card,
                    card = Menus(s)!ListCard(token, kind, page, Menus(s)!Options(rows, places)),
                    NEW menu, menu = Menus(s)!Menu(kind, rows)
             PROVE  Menus(s)!IInv'
  OBVIOUS
<1>1. /\ menu \in Menus(s)!MenuSet /\ menu.status = "live"
      /\ menu.kind = kind /\ menu.rows = rows
  BY MenusEntries
<1>2. /\ v3' \in [s.tokens -> Menus(s)!MenuSet] /\ v3'[token] = menu
      /\ \A t \in s.tokens : Later(v3[t], v3'[t])
  BY <1>1, MenusAdded
<1>3. /\ card \in Menus(s)!CardSet
      /\ card.token = token /\ card.view = "list" /\ card.kind = kind
      /\ \A o \in card.options : o.index \in DOMAIN rows /\ rows[o.index] = o.name
  <2>1. Offers(s, card, token, kind, rows)
    BY MenusListCard
  <2> QED BY <2>1 DEF Offers
<1>4. Menus(s)!Backed(card)'
  BY <1>1, <1>2, <1>3 DEF Menus!Backed, Menus!Inputs
<1>5. Menus(s)!Post(card)
  OBVIOUS
<1> QED BY <1>2, <1>3, <1>4, <1>5, MenusCardPut

\* A list of skills, apps or files is made.
LEMMA MenusListInputs ==
    ASSUME NEW s \in MenusScopes, Menus(s)!IInv, NEW token \in s.tokens,
           NEW kind \in {"skill", "app", "file"}, NEW page \in 1..s.entries,
           Menus(s)!ListInputs(token, kind, page)
    PROVE  Menus(s)!IInv'
<1> DEFINE of   == IF kind = "skill" THEN Menus(s)!Usable ELSE Menus(s)!Shown
           all  == Menus(s)!Sorted(of)
           p    == Menus(s)!Clamped(Len(all), page)
           on   == {all[i] : i \in Menus(s)!OnPage(all, p)} \cap Menus(s)!Usable
           rows == Menus(s)!Sorted(on)
<1>1. /\ v3[token].status = "none"
      /\ v3' = Menus(s)!Added(token, Menus(s)!Menu(kind, rows))
      /\ Menus(s)!Post(Menus(s)!ListCard(token, kind, p, Menus(s)!Options(rows, DOMAIN rows)))
      /\ UNCHANGED <<v1, v2, v5, v6>>
  BY DEF Menus!ListInputs
<1>2. of \in SUBSET Menus(s)!Entries /\ on \in SUBSET Menus(s)!Entries
  BY MenusEntries
<1> HIDE DEF of, on
<1>3. all \in Seq(Menus(s)!Entries) /\ rows \in Seq(Menus(s)!Entries)
  BY <1>2, MenusSorted
<1>4. p \in Nat
  <2>1. page \in Nat \ {0} /\ Len(all) \in Nat
    BY <1>3, MenusAssumption
  <2> HIDE DEF all
  <2> QED BY <2>1, MenusPages
<1>5. kind \in Menus(s)!Inputs \cup {"plugin"} /\ DOMAIN rows \in SUBSET DOMAIN rows
  BY DEF Menus!Inputs
<1> HIDE DEF all, rows, p
<1> QED BY <1>1, <1>3, <1>4, <1>5, MenusListed

\* A list of plugins is made.
LEMMA MenusListPlugins ==
    ASSUME NEW s \in MenusScopes, Menus(s)!IInv, NEW token \in s.tokens,
           NEW page \in 1..s.entries, Menus(s)!ListPlugins(token, page)
    PROVE  Menus(s)!IInv'
<1> DEFINE rows == Menus(s)!Sorted(Menus(s)!Shown)
           p    == Menus(s)!Clamped(Len(rows), page)
           on   == Menus(s)!OnPage(rows, p)
<1>1. /\ v3[token].status = "none"
      /\ v3' = Menus(s)!Added(token, Menus(s)!Menu("plugin", rows))
      /\ Menus(s)!Post(Menus(s)!ListCard(token, "plugin", p, Menus(s)!Options(rows, on)))
      /\ UNCHANGED <<v1, v2, v5, v6>>
  BY DEF Menus!ListPlugins, Menus!PluginCard
<1>2. rows \in Seq(Menus(s)!Entries)
  BY MenusEntries, MenusSorted
<1>3. p \in Nat
  <2>1. page \in Nat \ {0} /\ Len(rows) \in Nat
    BY <1>2, MenusAssumption
  <2> HIDE DEF rows
  <2> QED BY <2>1, MenusPages
<1>4. on \in SUBSET DOMAIN rows
  BY DEF Menus!OnPage
<1> HIDE DEF rows, p, on
<1> QED BY <1>1, <1>2, <1>3, <1>4, MenusListed

\* The card of a list, whatever it offers.
LEMMA MenusModelCard ==
    ASSUME NEW s \in MenusScopes, NEW token \in s.tokens,
           NEW options \in SUBSET [index : Nat, name : Menus(s)!Entries],
           NEW card, card = Menus(s)!ListCard(token, "model", 1, options)
    PROVE  /\ card \in Menus(s)!CardSet /\ card.token = token /\ card.view = "list"
           /\ card.kind = "model" /\ card.options = options
<1>1. card = [view |-> "list", token |-> token, kind |-> "model", page |-> 1,
              options |-> options, index |-> 0, name |-> 0]
  BY DEF Menus!ListCard
<1> QED BY <1>1 DEF Menus!CardSet

\* A list of models is made.
LEMMA MenusListModels ==
    ASSUME NEW s \in MenusScopes, Menus(s)!IInv, NEW token \in s.tokens, Menus(s)!ListModels(token)
    PROVE  Menus(s)!IInv'
<1> SUFFICES ASSUME NEW options, options = {Menus(s)!Option(n, n) : n \in Menus(s)!Shown},
                    NEW card, card = Menus(s)!ListCard(token, "model", 1, options)
             PROVE  Menus(s)!IInv'
  OBVIOUS
<1>1. /\ v3[token].status = "none" /\ v3' = [v3 EXCEPT ![token].status = "gone"]
      /\ Menus(s)!Post(card) /\ UNCHANGED <<v1, v2, v5, v6>>
  BY DEF Menus!ListModels
<1>2. v3 \in [s.tokens -> Menus(s)!MenuSet]
  BY DEF Menus!IInv, Menus!Shape
<1>3. /\ v3' \in [s.tokens -> Menus(s)!MenuSet] /\ v3'[token].status = "gone"
      /\ v3'[token].kind = v3[token].kind /\ \A t \in s.tokens \ {token} : v3'[t] = v3[t]
  BY <1>1, <1>2 DEF Menus!MenuSet
<1>4. \A t \in s.tokens : Later(v3[t], v3'[t])
  BY <1>1, <1>3 DEF Later
<1>5. \A o \in options : o \in [index : Nat, name : Menus(s)!Entries] /\ o.index = o.name
  <2> SUFFICES ASSUME NEW n \in Menus(s)!Entries
               PROVE  /\ Menus(s)!Option(n, n) \in [index : Nat, name : Menus(s)!Entries]
                      /\ Menus(s)!Option(n, n).index = Menus(s)!Option(n, n).name
    BY MenusEntries
  <2> QED BY MenusAssumption DEF Menus!Option, Menus!Entries
<1>7. options \in SUBSET [index : Nat, name : Menus(s)!Entries]
  BY <1>5
<1>8. card \in Menus(s)!CardSet /\ card.token = token /\ card.view = "list"
      /\ card.kind = "model" /\ card.options = options
  BY <1>7, MenusModelCard
<1>10. v3[token].kind = "none"
  BY <1>1 DEF Menus!IInv, Menus!MenusFresh
<1>9. Menus(s)!Backed(card)'
  BY <1>10, <1>3, <1>5, <1>8 DEF Menus!Backed, Menus!Inputs
<1> QED BY <1>1, <1>3, <1>4, <1>8, <1>9, MenusCardPut

\* The card of an entry has the token and the kind of the one it was chosen from.
EntryOf(s, new, view, card, option) ==
    /\ new \in Menus(s)!CardSet /\ new.view = view /\ new.token = card.token
    /\ new.kind = card.kind /\ new.index = option.index /\ new.name = option.name

\* The form and the card of a plugin are such cards.
LEMMA MenusEntryCard ==
    ASSUME NEW s \in MenusScopes, NEW view \in {"plugin", "form"}, NEW card \in Menus(s)!CardSet,
           NEW option, option.index \in Nat, option.name \in Nat
    PROVE  EntryOf(s, Menus(s)!EntryCard(view, card, option), view, card, option)
<1> DEFINE new == Menus(s)!EntryCard(view, card, option)
<1>1. new = [card EXCEPT !.view = view, !.options = {}, !.index = option.index, !.name = option.name]
  BY DEF Menus!EntryCard
<1> HIDE DEF new
<1>2. EntryOf(s, new, view, card, option)
  BY <1>1 DEF Menus!CardSet, EntryOf
<1> QED BY <1>2 DEF new

\* What a card knows of a menu that is there.
LEMMA MenusOfCard ==
    ASSUME NEW s \in MenusScopes, Menus(s)!IInv, NEW card \in v4
    PROVE  /\ card \in Menus(s)!CardSet /\ card.token \in s.tokens /\ Menus(s)!Backed(card)
           /\ v3[card.token] \in Menus(s)!MenuSet
           /\ v3[card.token].rows \in Seq(Menus(s)!Entries)
           /\ \A i \in DOMAIN v3[card.token].rows :
                i \in Nat \ {0} /\ v3[card.token].rows[i] \in Menus(s)!Entries
           /\ Menus(s)!Entries \subseteq Nat
<1>1. card \in Menus(s)!CardSet /\ card.token \in s.tokens /\ Menus(s)!Backed(card)
  BY DEF Menus!IInv, Menus!Shape, Menus!CardsAgree, Menus!CardSet
<1>2. v3[card.token] \in Menus(s)!MenuSet
  BY <1>1 DEF Menus!IInv, Menus!Shape
<1>3. v3[card.token].rows \in Seq(Menus(s)!Entries)
  BY <1>2 DEF Menus!MenuSet
<1> QED BY <1>1, <1>2, <1>3, LenProperties, ElementOfSeq, MenusAssumption DEF Menus!Entries

\* A menu that does not change is what becomes of it.
LEMMA MenusSame ==
    ASSUME NEW s \in MenusScopes, Menus(s)!IInv, v3' = v3
    PROVE  /\ \A t \in s.tokens : Later(v3[t], v3'[t])
           /\ v3' \in [s.tokens -> Menus(s)!MenuSet]
BY DEF Later, Menus!IInv, Menus!Shape

\* An entry is chosen.
LEMMA MenusChoose ==
    ASSUME NEW s \in MenusScopes, Menus(s)!IInv, NEW card \in v4, NEW option \in card.options,
           Menus(s)!Choose(card, option)
    PROVE  Menus(s)!IInv'
<1> DEFINE rows == v3[card.token].rows
<1>1. /\ card.view = "list" /\ card.kind # "model" /\ v3[card.token].status = "live"
      /\ option.index \in DOMAIN rows /\ UNCHANGED <<v1, v2, v3, v5, v6>>
      /\ IF card.kind = "plugin"
         THEN Menus(s)!Post(Menus(s)!EntryCard("plugin", card, Menus(s)!Option(option.index, rows[option.index])))
         ELSE Menus(s)!Post(Menus(s)!EntryCard("form", card, option))
  BY DEF Menus!Choose, Menus!Live, Menus!Rows
<1>2. /\ card \in Menus(s)!CardSet /\ card.token \in s.tokens /\ Menus(s)!Backed(card)
      /\ option.index \in Nat /\ rows[option.index] \in Nat
  BY <1>1, MenusOfCard
<1>3. option.name = rows[option.index] /\ v3[card.token].kind = card.kind
  BY <1>1, <1>2 DEF Menus!Backed
<1>4. PICK view, o :
        /\ view \in {"plugin", "form"}
        /\ o.index = option.index /\ o.name = option.name
        /\ view = "plugin" <=> card.kind = "plugin"
        /\ Menus(s)!Post(Menus(s)!EntryCard(view, card, o))
  <2>1. CASE card.kind = "plugin"
    <3>1. /\ Menus(s)!Option(option.index, rows[option.index]).index = option.index
          /\ Menus(s)!Option(option.index, rows[option.index]).name = option.name
      BY <1>3 DEF Menus!Option
    <3> QED BY <2>1, <3>1, <1>1
  <2>2. CASE card.kind # "plugin"
    BY <2>2, <1>1
  <2> QED BY <2>1, <2>2
<1> SUFFICES ASSUME NEW new, new = Menus(s)!EntryCard(view, card, o)
             PROVE  Menus(s)!IInv'
  OBVIOUS
<1>5. /\ new \in Menus(s)!CardSet /\ new.view = view /\ new.token = card.token
      /\ new.kind = card.kind /\ new.index = option.index /\ new.name = option.name
  <2>1. o.index \in Nat /\ o.name \in Nat
    BY <1>2, <1>3, <1>4
  <2>2. card \in Menus(s)!CardSet
    BY <1>2
  <2>3. EntryOf(s, new, view, card, o)
    BY <1>4, <2>1, <2>2, MenusEntryCard
  <2> QED BY <2>3, <1>4 DEF EntryOf
<1>6. card.kind \in Menus(s)!Inputs \cup {"plugin"}
  BY <1>1, <1>2 DEF Menus!CardSet
<1>7. Menus(s)!Backed(new)'
  BY <1>1, <1>3, <1>4, <1>5, <1>6 DEF Menus!Backed, Menus!Inputs
<1>8. Menus(s)!Post(new)
  BY <1>4
<1> QED BY <1>1, <1>5, <1>7, <1>8, MenusSame, MenusCardPut

\* Another page is turned to.
LEMMA MenusTurnPage ==
    ASSUME NEW s \in MenusScopes, Menus(s)!IInv, NEW card \in v4, NEW page \in 1..s.entries,
           Menus(s)!TurnPage(card, page)
    PROVE  Menus(s)!IInv'
<1> DEFINE rows == v3[card.token].rows
           p    == Menus(s)!Clamped(Len(rows), page)
           on   == Menus(s)!OnPage(rows, p)
<1> SUFFICES ASSUME NEW new,
                    new = Menus(s)!ListCard(card.token, "plugin", p, Menus(s)!Options(rows, on))
             PROVE  Menus(s)!IInv'
  OBVIOUS
<1>1. /\ card.kind = "plugin" /\ v3[card.token].status = "live"
      /\ Menus(s)!Turn(card, new) /\ UNCHANGED <<v1, v2, v3, v5, v6>>
  BY DEF Menus!TurnPage, Menus!Live, Menus!Rows, Menus!PluginCard
<1>2. /\ card \in Menus(s)!CardSet /\ card.token \in s.tokens /\ Menus(s)!Backed(card)
      /\ rows \in Seq(Menus(s)!Entries)
  BY MenusOfCard
<1>3. p \in Nat
  <2>1. page \in Nat \ {0} /\ Len(rows) \in Nat
    BY <1>2, MenusAssumption
  <2> HIDE DEF rows
  <2> QED BY <2>1, MenusPages
<1>4. on \in SUBSET DOMAIN rows
  BY DEF Menus!OnPage
<1>5. Offers(s, new, card.token, "plugin", rows)
  <2> HIDE DEF on, rows, p
  <2> QED BY <1>2, <1>3, <1>4, MenusListCard
<1>6. Menus(s)!Backed(new)'
  BY <1>1, <1>2, <1>5 DEF Offers, Menus!Backed, Menus!Inputs
<1>7. new \in Menus(s)!CardSet
  BY <1>5 DEF Offers
<1> HIDE DEF rows, p, on
<1> QED BY <1>1, <1>6, <1>7, MenusSame, MenusCardPut

\* A result of what was done, on the screen and in the menu.
LEMMA MenusSent ==
    ASSUME NEW s \in MenusScopes, Menus(s)!IInv, NEW e, v6' = v6 \cup {e},
           v3' = v3, v5' \subseteq v5,
           Menus(s)!Done(e), \A r \in v5' : r.token # e.token,
           \A f \in v6 : f.token = e.token => f.kind \notin Menus(s)!Inputs,
           e.kind \in Menus(s)!Inputs => \A f \in v6 : f.token # e.token
    PROVE  Menus(s)!SentAgree' /\ Menus(s)!FormsAgree' /\ Menus(s)!TakenOnce'
<1>1. \A t \in s.tokens : Later(v3[t], v3'[t])
  BY MenusSame
<1>2. Menus(s)!Done(e)' /\ \A f \in v6 : Menus(s)!Done(f)'
  BY <1>1, MenusLater DEF Menus!IInv, Menus!SentAgree
<1>3. \A f \in v6' : f \in v6 \/ f = e
  OBVIOUS
<1>4. Menus(s)!SentAgree'
  BY <1>2, <1>3 DEF Menus!SentAgree
<1>5. Menus(s)!FormsAgree'
  <2> SUFFICES ASSUME NEW f \in v5'
               PROVE  Menus(s)!Taken(f)'
    BY DEF Menus!FormsAgree
  <2>1. f \in v5 /\ f.token \in s.tokens /\ Menus(s)!Taken(f)
    BY DEF Menus!IInv, Menus!Shape, Menus!Flights, Menus!FormsAgree
  <2> QED BY <2>1, <1>1, MenusLater
<1>6. Menus(s)!TakenOnce'
  BY <1>3 DEF Menus!IInv, Menus!TakenOnce
<1> QED BY <1>4, <1>5, <1>6

\* The shape of the rest when nothing is posted.
LEMMA MenusQuiet ==
    ASSUME NEW s \in MenusScopes, Menus(s)!IInv, UNCHANGED <<v1, v2, v3, v4>>,
           v5' \subseteq Menus(s)!Flights
    PROVE  Menus(s)!Shape' /\ Menus(s)!MenusFresh' /\ Menus(s)!CardsAgree'
<1>1. Menus(s)!Shape'
  BY DEF Menus!IInv, Menus!Shape, Menus!Few
<1> QED BY <1>1, MenusSame, MenusKept

\* What is done with a plugin is done with the one on the card.
LEMMA MenusMutate ==
    ASSUME NEW s \in MenusScopes, Menus(s)!IInv, NEW card \in v4, Menus(s)!Mutate(card)
    PROVE  Menus(s)!IInv'
<1> DEFINE rows == v3[card.token].rows
<1> SUFFICES ASSUME NEW e, e = Menus(s)!Effect(card.token, "plugin", rows[card.index], card.name, 0)
             PROVE  Menus(s)!IInv'
  OBVIOUS
<1>1. /\ card.view = "plugin" /\ v3[card.token].status = "live"
      /\ v6' = v6 \cup {e} /\ UNCHANGED <<v1, v2, v3, v4, v5>>
  BY DEF Menus!Mutate, Menus!Live, Menus!Rows
<1>2. card.token \in s.tokens /\ Menus(s)!Backed(card)
  BY MenusOfCard
<1>3. /\ e.token = card.token /\ e.kind = "plugin" /\ e.name = rows[card.index]
      /\ e.shown = card.name
  BY DEF Menus!Effect
<1>4. rows[card.index] = card.name /\ v3[card.token].kind = "plugin"
  BY <1>1, <1>2 DEF Menus!Backed
<1>5. Menus(s)!Done(e)
  BY <1>1, <1>2, <1>3, <1>4 DEF Menus!Done, Menus!Inputs
<1>6. /\ \A r \in v5 : r.token # e.token
      /\ \A f \in v6 : f.token = e.token => f.kind \notin Menus(s)!Inputs
  BY SMTT(40), <1>1, <1>3 DEF Menus!IInv, Menus!FormsAgree, Menus!Taken, Menus!SentAgree, Menus!Done
<1>7. e.kind \notin Menus(s)!Inputs
  BY <1>3 DEF Menus!Inputs
<1>8. v5' \subseteq Menus(s)!Flights /\ v5' \subseteq v5
  BY <1>1 DEF Menus!IInv, Menus!Shape
<1>9. Menus(s)!SentAgree' /\ Menus(s)!FormsAgree' /\ Menus(s)!TakenOnce'
  BY <1>1, <1>5, <1>6, <1>7, <1>8, MenusSent
<1> QED BY <1>1, <1>8, <1>9, MenusQuiet DEF Menus!IInv

\* The model that is set is the one that was picked.
LEMMA MenusPickModel ==
    ASSUME NEW s \in MenusScopes, Menus(s)!IInv, NEW card \in v4, NEW option \in card.options,
           Menus(s)!PickModel(card, option)
    PROVE  Menus(s)!IInv'
<1> SUFFICES ASSUME NEW e, e = Menus(s)!Effect(card.token, "model", option.index, option.name, 0)
             PROVE  Menus(s)!IInv'
  OBVIOUS
<1>1. /\ card.kind = "model" /\ v6' = v6 \cup {e} /\ UNCHANGED <<v1, v2, v3, v4, v5>>
  BY DEF Menus!PickModel
<1>2. card.token \in s.tokens /\ Menus(s)!Backed(card)
  BY MenusOfCard
<1>3. /\ e.token = card.token /\ e.kind = "model" /\ e.name = option.index
      /\ e.shown = option.name
  BY DEF Menus!Effect
<1>4. /\ option.index = option.name /\ v3[card.token].kind = "none"
      /\ v3[card.token].status = "gone"
  BY <1>1, <1>2 DEF Menus!Backed
<1>5. Menus(s)!Done(e)
  BY <1>1, <1>2, <1>3, <1>4 DEF Menus!Done, Menus!Inputs
<1>6. /\ \A r \in v5 : r.token # e.token
      /\ \A f \in v6 : f.token = e.token => f.kind \notin Menus(s)!Inputs
  BY <1>3, <1>4 DEF Menus!IInv, Menus!FormsAgree, Menus!Taken, Menus!SentAgree, Menus!Done, Menus!Inputs
<1>7. e.kind \notin Menus(s)!Inputs
  BY <1>3 DEF Menus!Inputs
<1>8. v5' \subseteq Menus(s)!Flights /\ v5' \subseteq v5
  BY <1>1 DEF Menus!IInv, Menus!Shape
<1>9. Menus(s)!SentAgree' /\ Menus(s)!FormsAgree' /\ Menus(s)!TakenOnce'
  BY <1>1, <1>5, <1>6, <1>7, <1>8, MenusSent
<1> QED BY <1>1, <1>8, <1>9, MenusQuiet DEF Menus!IInv

\* A form that is submitted takes its menu, if it is there.
LEMMA MenusSubmit ==
    ASSUME NEW s \in MenusScopes, Menus(s)!IInv, NEW card \in v4, Menus(s)!Submit(card)
    PROVE  Menus(s)!IInv'
<1> DEFINE token == card.token
           rows == v3[token].rows
           r == [pc |-> "task", token |-> token, thread |-> v3[token].thread,
                 name |-> rows[card.index], shown |-> card.name]
<1>1. /\ card.view = "form" /\ v4' = v4 \ {card}
      /\ v3' = [v3 EXCEPT ![token].status = IF @ = "none" THEN @ ELSE "gone"]
      /\ v5' = IF v3[token].status # "live" THEN v5 ELSE v5 \cup {r}
      /\ UNCHANGED <<v1, v2, v6>>
  BY DEF Menus!Submit, Menus!Live, Menus!Rows
<1>2. /\ card \in Menus(s)!CardSet /\ token \in s.tokens /\ Menus(s)!Backed(card)
      /\ v3[token] \in Menus(s)!MenuSet /\ rows \in Seq(Menus(s)!Entries)
      /\ v3 \in [s.tokens -> Menus(s)!MenuSet]
  BY MenusOfCard DEF Menus!IInv, Menus!Shape
<1>3. v3[token].status # "none"
  BY <1>2 DEF Menus!Backed
<1>4. /\ v3' \in [s.tokens -> Menus(s)!MenuSet] /\ v3'[token].status = "gone"
      /\ v3'[token].kind = v3[token].kind
      /\ \A t \in s.tokens \ {token} : v3'[t] = v3[t]
  BY <1>1, <1>2, <1>3 DEF Menus!MenuSet
<1>5. \A t \in s.tokens : Later(v3[t], v3'[t])
  <2>1. v3[token].status = "gone" => v3'[token] = v3[token]
    BY <1>1, <1>2 DEF Menus!MenuSet
  <2> QED BY <2>1, <1>3, <1>4 DEF Later
<1>6. Menus(s)!Few(v4 \ {card}) /\ v4' \subseteq Menus(s)!CardSet
  BY <1>1, MenusFew DEF Menus!IInv, Menus!Shape
<1>7. Menus(s)!IsFiniteSet(v4') /\ Menus(s)!Cardinality(v4') <= s.onscreen
  BY <1>1, <1>6 DEF Menus!Few
<1>8. Menus(s)!CardsAgree'
  <2> SUFFICES ASSUME NEW c \in v4'
               PROVE  Menus(s)!Backed(c)'
    BY DEF Menus!CardsAgree
  <2>1. c.token \in s.tokens /\ Menus(s)!Backed(c)
    BY <1>1, MenusOfCard
  <2> QED BY <2>1, <1>5, MenusLater
<1>9. Menus(s)!SentAgree' /\ Menus(s)!MenusFresh'
  BY <1>1, <1>5, MenusKept
<1>10. v5 \subseteq Menus(s)!Flights
  BY DEF Menus!IInv, Menus!Shape
<1>11. CASE v3[token].status # "live"
  <2>1. v5' = v5
    BY <1>1, <1>11
  <2>2. Menus(s)!Shape'
    BY <2>1, <1>1, <1>4, <1>6, <1>7, <1>10 DEF Menus!IInv, Menus!Shape, Menus!Few
  <2> QED BY <2>1, <2>2, <1>1, <1>5, <1>8, <1>9, MenusKept DEF Menus!IInv
<1>12. CASE v3[token].status = "live"
  <2>1. /\ v3[token].kind \in Menus(s)!Inputs /\ card.index \in DOMAIN rows
        /\ rows[card.index] = card.name
    BY <1>1, <1>2, <1>12 DEF Menus!Backed
  <2>2. rows[card.index] \in Menus(s)!Entries /\ card.name \in Nat
    BY <2>1, <1>2, ElementOfSeq, LenProperties DEF Menus!CardSet
  <2>3. v3[token].thread \in s.threads \cup {0}
    BY <1>2 DEF Menus!MenuSet
  <2>4. r \in Menus(s)!Flights /\ r.token = token /\ r.name = r.shown
    BY <2>1, <2>2, <2>3, <1>2 DEF Menus!Flights
  <2>5. v5' = v5 \cup {r}
    BY <1>1, <1>12
  <2> HIDE DEF r
  <2>6. Menus(s)!Shape'
    BY <2>4, <2>5, <1>1, <1>4, <1>6, <1>7, <1>10 DEF Menus!IInv, Menus!Shape, Menus!Few
  <2>7. Menus(s)!FormsAgree'
    <3> SUFFICES ASSUME NEW f \in v5'
                 PROVE  Menus(s)!Taken(f)'
      BY DEF Menus!FormsAgree
    <3>1. CASE f = r
      BY <3>1, <2>1, <2>4, <1>4 DEF Menus!Taken, Menus!Inputs
    <3>2. CASE f \in v5
      <4>1. f.token \in s.tokens /\ Menus(s)!Taken(f)
        BY <3>2 DEF Menus!IInv, Menus!Shape, Menus!Flights, Menus!FormsAgree
      <4> QED BY <4>1, <1>5, MenusLater
    <3> QED BY <3>1, <3>2, <2>5
  <2>8. (\A f \in v5 : f.token # token) /\ (\A e \in v6 : e.token # token)
    <3>1. \A f \in v5 : f.token # token
      BY <1>12 DEF Menus!IInv, Menus!FormsAgree, Menus!Taken
    <3>2. \A e \in v6 : e.token # token
      BY <2>1, <1>12 DEF Menus!IInv, Menus!SentAgree, Menus!Done, Menus!Inputs
    <3> QED BY <3>1, <3>2
  <2>9. Menus(s)!TakenOnce'
    BY <2>4, <2>5, <2>8, <1>1 DEF Menus!IInv, Menus!TakenOnce
  <2> QED BY <2>6, <2>7, <2>9, <1>8, <1>9 DEF Menus!IInv
<1> QED BY <1>11, <1>12

\* A form under way comes further, or is refused.
LEMMA MenusCheck ==
    ASSUME NEW s \in MenusScopes, Menus(s)!IInv, NEW f \in v5,
           Menus(s)!CheckTask(f) \/ Menus(s)!CheckFile(f)
    PROVE  Menus(s)!IInv'
<1>1. PICK pc \in {"file", "send"} :
        v5' = v5 \ {f} \/ v5' = (v5 \ {f}) \cup {[f EXCEPT !.pc = pc]}
  BY DEF Menus!CheckTask, Menus!CheckFile
<1>2. UNCHANGED <<v1, v2, v3, v4, v6>>
  BY DEF Menus!CheckTask, Menus!CheckFile
<1> DEFINE g == [f EXCEPT !.pc = pc]
<1>3. f \in Menus(s)!Flights /\ v5 \subseteq Menus(s)!Flights
  BY DEF Menus!IInv, Menus!Shape
<1>4. g \in Menus(s)!Flights /\ g.token = f.token /\ g.name = f.name /\ g.shown = f.shown
  BY <1>3 DEF Menus!Flights
<1>5. v5' = v5 \ {f} \/ v5' = (v5 \ {f}) \cup {g}
  BY <1>1
<1> HIDE DEF g
<1>6. v5' \subseteq Menus(s)!Flights /\ \A h \in v5' : h = g \/ h \in v5 \ {f}
  BY <1>3, <1>4, <1>5
<1>7. Menus(s)!FormsAgree'
  <2>1. Menus(s)!Taken(f) /\ \A h \in v5 : Menus(s)!Taken(h)
    BY DEF Menus!IInv, Menus!FormsAgree
  <2> QED BY <2>1, <1>2, <1>4, <1>6 DEF Menus!FormsAgree, Menus!Taken
<1>8. Menus(s)!TakenOnce'
  BY <1>2, <1>4, <1>6 DEF Menus!IInv, Menus!TakenOnce
<1>9. Menus(s)!SentAgree'
  BY <1>2, MenusSame, MenusKept
<1> QED BY <1>2, <1>6, <1>7, <1>8, <1>9, MenusQuiet DEF Menus!IInv

\* A form under way is sent.
LEMMA MenusDispatch ==
    ASSUME NEW s \in MenusScopes, Menus(s)!IInv, NEW f \in v5, Menus(s)!Dispatch(f)
    PROVE  Menus(s)!IInv'
<1> SUFFICES ASSUME NEW e, e = Menus(s)!Effect(f.token, v3[f.token].kind, f.name, f.shown, f.thread)
             PROVE  Menus(s)!IInv'
  OBVIOUS
<1>1. v5' = v5 \ {f} /\ v6' = v6 \cup {e} /\ UNCHANGED <<v1, v2, v3, v4>>
  BY DEF Menus!Dispatch
<1>2. f.token \in s.tokens /\ Menus(s)!Taken(f)
  BY DEF Menus!IInv, Menus!Shape, Menus!Flights, Menus!FormsAgree
<1>3. /\ e.token = f.token /\ e.kind = v3[f.token].kind /\ e.name = f.name /\ e.shown = f.shown
  BY DEF Menus!Effect
<1>4. Menus(s)!Done(e)
  BY <1>2, <1>3 DEF Menus!Done, Menus!Taken, Menus!Inputs
<1>5. /\ \A r \in v5' : r.token # e.token
      /\ \A h \in v6 : h.token # e.token
  BY <1>1, <1>3 DEF Menus!IInv, Menus!TakenOnce
<1>6. v5' \subseteq Menus(s)!Flights /\ v5' \subseteq v5
  BY <1>1 DEF Menus!IInv, Menus!Shape
<1>7. Menus(s)!SentAgree' /\ Menus(s)!FormsAgree' /\ Menus(s)!TakenOnce'
  BY <1>1, <1>4, <1>5, <1>6, MenusSent
<1> QED BY <1>1, <1>6, <1>7, MenusQuiet DEF Menus!IInv

\* The menus start in their invariant,
LEMMA MenusInit ==
    ASSUME NEW s \in MenusScopes, Menus(s)!Init
    PROVE  Menus(s)!IInv
<1>1. /\ v1 \in [Menus(s)!Entries -> {"absent", "usable", "unusable"}] /\ v2 \in s.threads
      /\ v3 = [t \in s.tokens |-> Menus(s)!NoMenu] /\ v4 = {} /\ v5 = {} /\ v6 = {}
  BY DEF Menus!Init
<1>2. Menus(s)!NoMenu \in Menus(s)!MenuSet /\ Menus(s)!NoMenu.kind = "none"
  <2>1. <<>> \in Seq(Menus(s)!Entries)
    BY EmptySeq
  <2> QED BY <2>1 DEF Menus!NoMenu, Menus!MenuSet
<1>3. Menus(s)!Few(v4)
  BY <1>1, FS_EmptySet, MenusCardinality, MenusAssumption DEF Menus!Few
<1>4. v3 \in [s.tokens -> Menus(s)!MenuSet] /\ \A t \in s.tokens : v3[t].kind = "none"
  BY <1>1, <1>2
<1> QED BY <1>1, <1>3, <1>4 DEF Menus!IInv, Menus!Shape, Menus!MenusFresh, Menus!CardsAgree,
           Menus!FormsAgree, Menus!SentAgree, Menus!TakenOnce

\* and keep it.
LEMMA MenusStep ==
    ASSUME NEW s \in MenusScopes, Menus(s)!IInv,
           Menus(s)!Next \/ UNCHANGED <<v1, v2, v3, v4, v5, v6, v7>>
    PROVE  Menus(s)!IInv'
<1>1. CASE UNCHANGED <<v1, v2, v3, v4, v5, v6, v7>>
  <2>1. v5' \subseteq Menus(s)!Flights
    BY <1>1 DEF Menus!IInv, Menus!Shape
  <2> QED BY <1>1, <2>1, MenusQuiet, MenusSame, MenusKept DEF Menus!IInv
<1>2. CASE Menus(s)!Next
  BY <1>2, MenusChange, MenusExpire, MenusListPlugins, MenusListInputs, MenusListModels, MenusChoose,
     MenusPickModel, MenusTurnPage, MenusMutate, MenusSubmit, MenusCheck, MenusDispatch
     DEF Menus!Next
<1> QED BY <1>1, <1>2

\* The states of the menus, in every behaviour.
LEMMA MenusInvariant == Spec => [](\A s \in MenusScopes : Is("menus", s) => Menus(s)!IInv)
<1> DEFINE I == \A s \in MenusScopes : Is("menus", s) => Menus(s)!IInv
<1>1. Init => I
  BY MenusInit DEF Init, Is
<1>2. I /\ [Next]_vars => I'
  <2> SUFFICES ASSUME I, [Next]_vars, NEW s \in MenusScopes, Is("menus", s)'
               PROVE  Menus(s)!IInv'
    OBVIOUS
  <2>1. CASE UNCHANGED vars
    BY <2>1, MenusStep DEF vars, Is
  <2>2. CASE Next
    <3>1. In("menus", s) /\ Menus(s)!Next
      BY <2>2 DEF Next, In, Is
    <3> QED BY <3>1, MenusStep DEF In
  <2> QED BY <2>1, <2>2
<1> QED BY <1>1, <1>2, PTL DEF Spec

\* What the invariant says of what is done, and of a page.
LEMMA MenusRunWhatTheyShow ==
    ASSUME NEW s \in MenusScopes, Menus(s)!IInv
    PROVE  Menus(s)!RunsWhatItShows
BY DEF Menus!IInv, Menus!SentAgree, Menus!Done, Menus!FormsAgree, Menus!Taken, Menus!TakenOnce,
       Menus!Inputs, Menus!RunsWhatItShows

\* The page of a place in a list: it is one of its pages, and has the place.
LEMMA PageOfPlace ==
    ASSUME NEW b \in Nat \ {0}, NEW n \in Nat, NEW i \in 1..n, NEW q, q = (i - 1) \div b
    PROVE  /\ q \in Nat /\ q + 1 <= (n + b - 1) \div b
           /\ i > (q + 1 - 1) * b /\ i <= (q + 1) * b
<1>1. i - 1 \in Nat /\ i - 1 + b \in Nat /\ n + b - 1 \in Nat /\ i - 1 + b <= n + b - 1
  OBVIOUS
<1>2. q \in Nat /\ q * b <= i - 1 /\ i - 1 < q * b + b
  BY <1>1, DivisionRemainder
<1>3. (i - 1 + b) \div b <= (n + b - 1) \div b
  BY <1>1, DivisionOrder
<1>4. PICK z \in Nat : z = (i - 1 + b) \div b /\ i - 1 + b < z * b + b
  BY <1>1, DivisionRemainder
<1>5. q * b < z * b
  BY <1>1, <1>2, <1>4
<1>6. q < z
  BY <1>2, <1>4, <1>5
<1>7. (n + b - 1) \div b \in Nat
  BY <1>1, DivisionRemainder
<1>8. q + 1 <= (n + b - 1) \div b
  BY <1>2, <1>3, <1>4, <1>6, <1>7
<1>9. q + 1 - 1 = q /\ (q + 1) * b = q * b + b
  BY <1>2
<1>10. i > (q + 1 - 1) * b /\ i <= (q + 1) * b
  BY <1>1, <1>2, <1>9
<1> QED BY <1>2, <1>8, <1>10

\* The page that Back leads to has the entry on it.
LEMMA MenusAgreeOnScreen ==
    ASSUME NEW s \in MenusScopes, Menus(s)!IInv
    PROVE  Menus(s)!PageAgrees
<1> SUFFICES ASSUME NEW card \in v4, card.kind = "plugin", v3[card.token].status = "live",
                    NEW rows, rows = v3[card.token].rows
             PROVE  IF card.view = "list"
                    THEN \A o \in card.options : rows[o.index] = o.name
                    ELSE /\ rows[card.index] = card.name
                         /\ Menus(s)!Option(card.index, card.name) \in
                              Menus(s)!PluginCard(card.token, rows,
                                (card.index - 1) \div s.size + 1).options
  BY DEF Menus!PageAgrees, Menus!Live
<1>1. /\ card.token \in s.tokens /\ Menus(s)!Backed(card) /\ rows \in Seq(Menus(s)!Entries)
  BY MenusOfCard
<1>2. CASE card.view = "list"
  BY <1>1, <1>2 DEF Menus!Backed
<1>3. CASE card.view # "list"
  <2>1. card.index \in DOMAIN rows /\ rows[card.index] = card.name
    BY <1>1, <1>3 DEF Menus!Backed
  <2>2. PICK i, n, q : /\ i = card.index /\ n = Len(rows) /\ q = (i - 1) \div s.size
    OBVIOUS
  <2>3. n \in Nat /\ i \in 1..n /\ s.size \in Nat \ {0}
    BY <1>1, <2>1, <2>2, LenProperties, MenusAssumption
  <2>4. /\ q \in Nat /\ q + 1 <= (n + s.size - 1) \div s.size
        /\ i > (q + 1 - 1) * s.size /\ i <= (q + 1) * s.size
    BY <2>2, <2>3, PageOfPlace
  <2>5. Menus(s)!Pages(n) = (n + s.size - 1) \div s.size
    BY <2>3 DEF Menus!Pages
  <2>6. Menus(s)!Clamped(n, q + 1) = q + 1
    <3>1. q + 1 \in Nat \ {0} /\ q + 1 <= Menus(s)!Pages(n)
      BY <2>4, <2>5
    <3> QED BY <3>1, <2>3, MenusPages
  <2>7. i \in Menus(s)!OnPage(rows, q + 1)
    BY <2>1, <2>2, <2>4 DEF Menus!OnPage
  <2>8. Menus(s)!PluginCard(card.token, rows, q + 1).options
          = Menus(s)!Options(rows, Menus(s)!OnPage(rows, q + 1))
    BY <2>2, <2>6 DEF Menus!PluginCard, Menus!ListCard
  <2>9. Menus(s)!Option(i, rows[i]) \in Menus(s)!Options(rows, Menus(s)!OnPage(rows, q + 1))
    BY <2>7 DEF Menus!Options
  <2> QED BY <2>1, <2>2, <2>8, <2>9, <1>3
<1> QED BY <1>2, <1>3

-----------------------------------------------------------------------------
(* The forms of the action center                                           *)

\* The parameters, cards and handlers that a form can have.
LEMMA FormsTypes ==
    ASSUME NEW s \in FormsScopes
    PROVE  /\ Forms(s)!PageCount \in Nat \ {0} /\ s.most \in Nat
           /\ Forms(s)!Blank \in Forms(s)!Params
           /\ \A page \in 0..(Forms(s)!PageCount - 1) :
                /\ Forms(s)!Form(page) \in Forms(s)!CardSet
                /\ Forms(s)!Continue(page) \in Forms(s)!CardSet
                /\ Forms(s)!Form(page).kind = "form" /\ Forms(s)!Continue(page).kind = "continue"
           /\ \A params \in Forms(s)!Params :
                /\ Forms(s)!Confirm(params) \in Forms(s)!CardSet
                /\ Forms(s)!Confirm(params).shows = params
           /\ Forms(s)!FirstCard \in Forms(s)!CardSet
<1>1. s.fields \in Nat /\ s.most \in Nat /\ s.page \in Nat \ {0}
  BY FormsAssumption
<1>2. Forms(s)!PageCount \in Nat \ {0}
  <2>1. CASE s.fields = 0
    BY <2>1 DEF Forms!PageCount
  <2>2. CASE s.fields # 0
    <3>1. s.fields + s.page - 1 \in Nat /\ s.page <= s.fields + s.page - 1
      BY <1>1, <2>2
    <3>2. s.page \div s.page = 1
      BY <1>1
    <3>3. 1 <= (s.fields + s.page - 1) \div s.page /\ (s.fields + s.page - 1) \div s.page \in Nat
      BY <1>1, <3>1, <3>2, DivisionOrder, DivisionRemainder
    <3> QED BY <3>3, <2>2 DEF Forms!PageCount
  <2> QED BY <2>1, <2>2
<1>3. Forms(s)!Blank \in Forms(s)!Params
  BY <1>1 DEF Forms!Blank, Forms!Params
<1>4. \A page \in 0..(Forms(s)!PageCount - 1) :
        /\ Forms(s)!Form(page) \in Forms(s)!CardSet
        /\ Forms(s)!Continue(page) \in Forms(s)!CardSet
        /\ Forms(s)!Form(page).kind = "form" /\ Forms(s)!Continue(page).kind = "continue"
  BY <1>3 DEF Forms!Form, Forms!Continue, Forms!CardSet
<1>5. \A params \in Forms(s)!Params :
        /\ Forms(s)!Confirm(params) \in Forms(s)!CardSet
        /\ Forms(s)!Confirm(params).shows = params
  BY <1>2 DEF Forms!Confirm, Forms!CardSet
<1>6. Forms(s)!FirstCard \in Forms(s)!CardSet
  BY <1>2, <1>3, <1>4, <1>5 DEF Forms!FirstCard
<1> QED BY <1>1, <1>2, <1>3, <1>4, <1>5, <1>6

\* A handler at rest.
LEMMA FormsResting ==
    ASSUME NEW s \in FormsScopes
    PROVE  /\ Forms(s)!Resting \in Forms(s)!Handlers
           /\ Forms(s)!Resting.pc = "idle" /\ Forms(s)!Resting.token = none
BY FormsTypes DEF Forms!Resting, Forms!Handlers, Forms!Kinds, Forms!Values

\* A step of one handler: where it is, and that the others stay where they are.
LEMMA FormsTo ==
    ASSUME NEW s \in FormsScopes, Forms(s)!Shape, NEW c \in s.clicks,
           NEW pc \in {"idle", "come", "map", "reply", "run"}, Forms(s)!To(c, pc)
    PROVE  /\ v4' \in [s.clicks -> Forms(s)!Handlers]
           /\ v4'[c].pc = pc /\ v4'[c].kind = v4[c].kind /\ v4'[c].token = v4[c].token
           /\ v4'[c].shows = v4[c].shows /\ v4'[c].params = v4[c].params
           /\ \A d \in s.clicks \ {c} : v4'[d] = v4[d]
BY ZenonT(40) DEF Forms!To, Forms!Shape, Forms!Handlers

\* The end of one.
LEMMA FormsEnded ==
    ASSUME NEW s \in FormsScopes, Forms(s)!Shape, NEW c \in s.clicks, Forms(s)!Ended(c)
    PROVE  /\ v4' \in [s.clicks -> Forms(s)!Handlers]
           /\ v4'[c].pc = "idle" /\ v4'[c].token = none
           /\ \A d \in s.clicks \ {c} : v4'[d] = v4[d]
BY FormsResting DEF Forms!Ended, Forms!Shape

\* What holds of a token holds on while its entry, its cards and what was done stay
\* and no handler gets its token.
LEMMA FormsFrame ==
    ASSUME NEW s \in FormsScopes, NEW u \in s.tokens, Forms(s)!TokenAgrees(u),
           v1'[u] = v1[u], v5'[u] = v5[u], v6'[u] = v6[u], u \in v7' => u \in v7,
           u \in v9 => u \in v9', u \in v10 => u \in v10',
           \A d \in s.clicks : v4'[d] = v4[d] \/ v4'[d].token # u
    PROVE  Forms(s)!TokenAgrees(u)'
<1>1. Forms(s)!StartsAlone(u)'
  BY DEF Forms!TokenAgrees, Forms!StartsAlone, Forms!Has, Forms!Starts, Forms!Before
<1>2. Forms(s)!RunsOnce(u)'
  BY DEF Forms!TokenAgrees, Forms!RunsOnce, Forms!Has, Forms!Runs
<1>3. Forms(s)!Cancelled(u)'
  BY DEF Forms!TokenAgrees, Forms!Cancelled, Forms!Has, Forms!Runs, Forms!Unrun, Forms!Cancels
<1>4. Forms(s)!ShowsParams(u)'
  BY DEF Forms!TokenAgrees, Forms!ShowsParams, Forms!Has, Forms!Runs, Forms!Executes, Forms!Before,
     Forms!Confirmed
<1> QED BY <1>1, <1>2, <1>3, <1>4 DEF Forms!TokenAgrees

\* A handler that is under way goes on in the same place of the order.
LEMMA FormsFit ==
    ASSUME NEW s \in FormsScopes, Forms(s)!HandlersFit, NEW c \in s.clicks,
           \A d \in s.clicks \ {c} : v4'[d] = v4[d],
           \/ v4'[c].pc = "idle" /\ v4'[c].token = none
           \/ /\ v4[c].pc # "idle" /\ v4'[c].pc # "idle"
              /\ v4'[c].kind = v4[c].kind /\ v4'[c].token = v4[c].token
              /\ v4'[c].pc = "reply" => v4[c].kind \in {"begin", "mutate", "open", "save", "cancel"}
              /\ v4'[c].pc = "run" => v4[c].kind = "execute"
    PROVE  Forms(s)!HandlersFit'
BY DEF Forms!HandlersFit

\* A click: what its handler starts with.
LEMMA FormsClicked ==
    ASSUME NEW s \in FormsScopes, Forms(s)!IInv, NEW c \in s.clicks, NEW kind \in Forms(s)!Kinds,
           NEW t \in s.tokens \cup {none}, kind # "sweep" => t \in s.tokens,
           NEW card \in Forms(s)!CardSet, NEW values \in Forms(s)!Values,
           Forms(s)!Clicked(c, kind, t, card, values),
           v5' \in [s.tokens -> SUBSET Forms(s)!CardSet]
    PROVE  /\ Forms(s)!Shape' /\ Forms(s)!HandlersFit'
           /\ v4[c].pc = "idle" /\ v4[c].token = none
           /\ v4'[c].pc = "come" /\ v4'[c].kind = kind /\ v4'[c].token = t
           /\ v4'[c].shows = card.shows
           /\ \A d \in s.clicks \ {c} : v4'[d] = v4[d]
           /\ UNCHANGED <<v1, v2, v3, v6, v7, v9, v10>>
<1> DEFINE h == [Forms(s)!Resting EXCEPT !.pc = "come", !.kind = kind, !.token = t,
                   !.page = card.page, !.values = values, !.shows = card.shows]
<1>1. /\ v4[c].pc = "idle" /\ v8 < s.most /\ v8' = v8 + 1 /\ v4' = [v4 EXCEPT ![c] = h]
      /\ UNCHANGED <<v1, v2, v3, v6, v7, v9, v10>>
  BY DEF Forms!Clicked
<1>2. /\ h \in Forms(s)!Handlers /\ h.pc = "come" /\ h.kind = kind /\ h.token = t
      /\ h.shows = card.shows
  <2>1. Forms(s)!Resting \in Forms(s)!Handlers
    BY FormsResting
  <2>2. card.page \in 0..(Forms(s)!PageCount - 1) /\ card.shows \in Forms(s)!Params
    BY DEF Forms!CardSet
  <2> QED BY <2>1, <2>2 DEF Forms!Handlers
<1> HIDE DEF h
<1>3. Forms(s)!Shape /\ v4 \in [s.clicks -> Forms(s)!Handlers]
  BY DEF Forms!IInv, Forms!Shape
<1>4. /\ v4' \in [s.clicks -> Forms(s)!Handlers] /\ v4'[c] = h
      /\ \A d \in s.clicks \ {c} : v4'[d] = v4[d]
  BY <1>1, <1>2, <1>3
<1>5. v8' \in 0..s.most
  BY <1>1, <1>3, FormsTypes DEF Forms!Shape
<1>6. Forms(s)!Shape'
  BY <1>1, <1>3, <1>4, <1>5 DEF Forms!Shape
<1>7. Forms(s)!HandlersFit'
  BY <1>2, <1>4 DEF Forms!IInv, Forms!HandlersFit
<1>8. v4[c].token = none
  BY <1>1 DEF Forms!IInv, Forms!HandlersFit
<1> QED BY <1>1, <1>2, <1>4, <1>6, <1>7, <1>8

\* What the invariant says of one token.
LEMMA FormsOfToken ==
    ASSUME NEW s \in FormsScopes, Forms(s)!IInv, NEW t \in s.tokens
    PROVE  /\ Forms(s)!Shape /\ Forms(s)!HandlersFit /\ Forms(s)!TokenAgrees(t)
           /\ Forms(s)!StartsAlone(t) /\ Forms(s)!RunsOnce(t) /\ Forms(s)!Cancelled(t)
           /\ Forms(s)!ShowsParams(t) /\ t # none
BY FormsAssumption DEF Forms!IInv, Forms!TokenAgrees

\* A new action is picked: its token is new to every handler.
LEMMA FormsPick ==
    ASSUME NEW s \in FormsScopes, Forms(s)!IInv, NEW c \in s.clicks, NEW t \in s.tokens,
           Forms(s)!Pick(c, t)
    PROVE  Forms(s)!IInv'
<1>1. PICK kind \in {"begin", "mutate"} : Forms(s)!Clicked(c, kind, t, Forms(s)!FirstCard, <<>>)
  BY DEF Forms!Pick
<1>2. v1[t].status = "new" /\ v5' = v5 /\ \A d \in s.clicks : v4[d].token # t
  BY DEF Forms!Pick
<1>3. /\ Forms(s)!Shape' /\ Forms(s)!HandlersFit'
      /\ v4'[c].pc = "come" /\ v4'[c].kind = kind /\ v4'[c].token = t
      /\ \A d \in s.clicks \ {c} : v4'[d] = v4[d]
      /\ UNCHANGED <<v1, v2, v3, v6, v7, v9, v10>>
  <2>1. kind \in Forms(s)!Kinds /\ kind # "sweep" /\ <<>> \in Forms(s)!Values
    BY DEF Forms!Kinds, Forms!Values
  <2>2. v5' \in [s.tokens -> SUBSET Forms(s)!CardSet]
    BY <1>2 DEF Forms!IInv, Forms!Shape
  <2> QED BY <1>1, <2>1, <2>2, FormsTypes, FormsClicked
<1>4. ASSUME NEW u \in s.tokens
      PROVE  Forms(s)!TokenAgrees(u)'
  <2>1. CASE u # t
    BY <2>1, <1>2, <1>3, FormsOfToken, FormsFrame
  <2>2. CASE u = t
    <3>1. Forms(s)!StartsAlone(u)'
      BY <2>2, <1>2, <1>3, FormsOfToken
         DEF Forms!StartsAlone, Forms!Has, Forms!Starts, Forms!Before
    <3>2. Forms(s)!RunsOnce(u)'
      BY <2>2, <1>2, <1>3, FormsOfToken DEF Forms!RunsOnce, Forms!Has, Forms!Runs
    <3>3. Forms(s)!Cancelled(u)'
      BY <2>2, <1>2, <1>3, FormsOfToken
         DEF Forms!StartsAlone, Forms!Cancelled, Forms!Has, Forms!Runs, Forms!Unrun, Forms!Cancels
    <3>4. Forms(s)!ShowsParams(u)'
      BY <2>2, <1>2, <1>3, FormsOfToken
         DEF Forms!ShowsParams, Forms!Has, Forms!Runs, Forms!Executes, Forms!Before, Forms!Confirmed
    <3> QED BY <3>1, <3>2, <3>3, <3>4 DEF Forms!TokenAgrees
  <2> QED BY <2>1, <2>2
<1> QED BY <1>3, <1>4 DEF Forms!IInv

\* A button of a card is pressed, or a form of it submitted.
LEMMA FormsOnCard ==
    ASSUME NEW s \in FormsScopes, Forms(s)!IInv, NEW c \in s.clicks, NEW t \in s.tokens,
           NEW card \in v5[t], NEW kind \in {"open", "execute", "cancel", "save"},
           NEW values \in Forms(s)!Values, Forms(s)!Clicked(c, kind, t, card, values),
           kind = "execute" => card.kind = "confirm",
           \/ v5' = v5
           \/ card.kind = "form" /\ v5' = [v5 EXCEPT ![t] = @ \ {card}]
    PROVE  Forms(s)!IInv'
<1>1. v5 \in [s.tokens -> SUBSET Forms(s)!CardSet] /\ card \in Forms(s)!CardSet
  BY DEF Forms!IInv, Forms!Shape
<1>2. /\ v5' \in [s.tokens -> SUBSET Forms(s)!CardSet]
      /\ \A u \in s.tokens \ {t} : v5'[u] = v5[u]
      /\ v5'[t] \subseteq v5[t] /\ \A k \in v5[t] : k.kind = "confirm" => k \in v5'[t]
  BY <1>1
<1>3. /\ Forms(s)!Shape' /\ Forms(s)!HandlersFit'
      /\ v4[c].token = none
      /\ v4'[c].pc = "come" /\ v4'[c].kind = kind /\ v4'[c].token = t
      /\ v4'[c].shows = card.shows
      /\ \A d \in s.clicks \ {c} : v4'[d] = v4[d]
      /\ UNCHANGED <<v1, v2, v3, v6, v7, v9, v10>>
  <2>1. kind \in Forms(s)!Kinds /\ kind # "sweep"
    BY DEF Forms!Kinds
  <2> QED BY <1>1, <1>2, <2>1, FormsClicked
<1>4. ASSUME NEW u \in s.tokens
      PROVE  Forms(s)!TokenAgrees(u)'
  <2>1. CASE u # t
    BY <2>1, <1>2, <1>3, FormsOfToken, FormsFrame
  <2>2. CASE u = t
    <3>1. v1[t].status # "new"
      BY FormsOfToken DEF Forms!StartsAlone
    <3>2. Forms(s)!StartsAlone(u)'
      BY <2>2, <3>1, <1>2, <1>3, FormsOfToken
         DEF Forms!StartsAlone, Forms!Has, Forms!Starts, Forms!Before
    <3>3. Forms(s)!RunsOnce(u)'
      BY <2>2, <1>2, <1>3, FormsOfToken DEF Forms!RunsOnce, Forms!Has, Forms!Runs
    <3>4. Forms(s)!Cancelled(u)'
      BY <2>2, <1>2, <1>3, FormsOfToken
         DEF Forms!Cancelled, Forms!Has, Forms!Runs, Forms!Unrun, Forms!Cancels
    <3>5. Forms(s)!ShowsParams(u)'
      BY <2>2, <1>2, <1>3, FormsOfToken
         DEF Forms!ShowsParams, Forms!Has, Forms!Runs, Forms!Executes, Forms!Before, Forms!Confirmed
    <3> QED BY <3>2, <3>3, <3>4, <3>5 DEF Forms!TokenAgrees
  <2> QED BY <2>1, <2>2
<1> QED BY <1>3, <1>4 DEF Forms!IInv

\* The buttons.
LEMMA FormsPress ==
    ASSUME NEW s \in FormsScopes, Forms(s)!IInv, NEW c \in s.clicks, NEW t \in s.tokens,
           Forms(s)!Press(c, t)
    PROVE  Forms(s)!IInv'
<1>1. <<>> \in Forms(s)!Values
  BY DEF Forms!Values
<1>2. PICK card \in v5[t], kind \in {"open", "execute", "cancel"} :
        /\ kind = "execute" => card.kind = "confirm"
        /\ Forms(s)!Clicked(c, kind, t, card, <<>>) /\ v5' = v5
  BY DEF Forms!Press
<1> QED BY <1>1, <1>2, FormsOnCard

\* The forms.
LEMMA FormsSubmit ==
    ASSUME NEW s \in FormsScopes, Forms(s)!IInv, NEW c \in s.clicks, NEW t \in s.tokens,
           Forms(s)!Submit(c, t)
    PROVE  Forms(s)!IInv'
<1>1. PICK card \in v5[t] :
        /\ card.kind = "form" /\ v5' = [v5 EXCEPT ![t] = @ \ {card}]
        /\ \E values \in [Forms(s)!PageFields(card.page) -> {"blank", "given", "wrong"}] :
             Forms(s)!Clicked(c, "save", t, card, values)
  BY DEF Forms!Submit
<1>2. card.page \in 0..(Forms(s)!PageCount - 1)
  BY DEF Forms!IInv, Forms!Shape, Forms!CardSet
<1>3. PICK values \in [Forms(s)!PageFields(card.page) -> {"blank", "given", "wrong"}] :
        Forms(s)!Clicked(c, "save", t, card, values)
  BY <1>1
<1>4. values \in Forms(s)!Values
  BY <1>2, <1>3 DEF Forms!Values
<1> QED BY <1>1, <1>3, <1>4, FormsOnCard

\* A look at the categories.
LEMMA FormsBrowse ==
    ASSUME NEW s \in FormsScopes, Forms(s)!IInv, NEW c \in s.clicks, Forms(s)!Browse(c)
    PROVE  Forms(s)!IInv'
<1>1. PICK kind \in Forms(s)!Kinds, t \in s.tokens \cup {none} :
        /\ Forms(s)!Clicked(c, kind, t, Forms(s)!FirstCard, <<>>)
        /\ v5' = v5 /\ t = none /\ kind = "sweep"
  BY DEF Forms!Browse, Forms!Kinds
<1>2. /\ Forms(s)!Shape' /\ Forms(s)!HandlersFit' /\ v4'[c].token = none
      /\ \A d \in s.clicks \ {c} : v4'[d] = v4[d]
      /\ UNCHANGED <<v1, v2, v3, v6, v7, v9, v10>>
  <2>1. (kind # "sweep" => t \in s.tokens) /\ <<>> \in Forms(s)!Values
    BY <1>1 DEF Forms!Values
  <2>2. v5' \in [s.tokens -> SUBSET Forms(s)!CardSet]
    BY <1>1 DEF Forms!IInv, Forms!Shape
  <2>3. Forms(s)!Clicked(c, kind, t, Forms(s)!FirstCard, <<>>) /\ Forms(s)!FirstCard \in Forms(s)!CardSet
    BY <1>1, FormsTypes
  <2>4. /\ Forms(s)!Shape' /\ Forms(s)!HandlersFit' /\ v4'[c].token = t
        /\ \A d \in s.clicks \ {c} : v4'[d] = v4[d]
        /\ UNCHANGED <<v1, v2, v3, v6, v7, v9, v10>>
    BY <2>1, <2>2, <2>3, FormsClicked
  <2> QED BY <1>1, <2>4
<1>3. ASSUME NEW u \in s.tokens
      PROVE  Forms(s)!TokenAgrees(u)'
  BY <1>1, <1>2, FormsOfToken, FormsFrame
<1> QED BY <1>2, <1>3 DEF Forms!IInv

\* An entry grows older: its parameters stay.
LEMMA FormsOlder ==
    ASSUME NEW s \in FormsScopes, NEW u \in s.tokens, Forms(s)!TokenAgrees(u),
           v1[u].status \in {"live", "expired"}, v1'[u].status \in {"expired", "gone"},
           v1'[u].params = v1[u].params, UNCHANGED <<v5, v6, v7, v9, v10>>,
           \A d \in s.clicks : v4'[d] = v4[d] \/ v4'[d].token # u
    PROVE  Forms(s)!TokenAgrees(u)'
<1>1. Forms(s)!StartsAlone(u)'
  BY DEF Forms!TokenAgrees, Forms!StartsAlone, Forms!Has, Forms!Starts, Forms!Before
<1>2. Forms(s)!RunsOnce(u)'
  BY DEF Forms!TokenAgrees, Forms!RunsOnce, Forms!Has, Forms!Runs
<1>3. Forms(s)!Cancelled(u)'
  BY DEF Forms!TokenAgrees, Forms!Cancelled, Forms!Has, Forms!Runs, Forms!Unrun, Forms!Cancels
<1>4. Forms(s)!ShowsParams(u)'
  BY DEF Forms!TokenAgrees, Forms!ShowsParams, Forms!Has, Forms!Runs, Forms!Executes, Forms!Before,
     Forms!Confirmed
<1> QED BY <1>1, <1>2, <1>3, <1>4 DEF Forms!TokenAgrees

\* A draft expires.
LEMMA FormsExpire ==
    ASSUME NEW s \in FormsScopes, Forms(s)!IInv, NEW t \in s.tokens, Forms(s)!Expire(t)
    PROVE  Forms(s)!IInv'
<1>1. /\ v1[t].status = "live" /\ v1' = [v1 EXCEPT ![t].status = "expired"]
      /\ UNCHANGED <<v2, v3, v4, v5, v6, v7, v8, v9, v10>>
  BY DEF Forms!Expire
<1>2. v1 \in [s.tokens -> Forms(s)!DraftSet]
  BY DEF Forms!IInv, Forms!Shape
<1>3. /\ v1' \in [s.tokens -> Forms(s)!DraftSet] /\ v1'[t].status = "expired"
      /\ v1'[t].params = v1[t].params /\ \A u \in s.tokens \ {t} : v1'[u] = v1[u]
  BY <1>1, <1>2 DEF Forms!DraftSet
<1>4. Forms(s)!Shape' /\ Forms(s)!HandlersFit'
  BY <1>1, <1>3 DEF Forms!IInv, Forms!Shape, Forms!HandlersFit
<1>5. ASSUME NEW u \in s.tokens
      PROVE  Forms(s)!TokenAgrees(u)'
  BY <1>1, <1>3, FormsOfToken, FormsOlder, FormsFrame
<1> QED BY <1>4, <1>5 DEF Forms!IInv

\* A handler comes to the map, or gives up on the way.
LEMMA FormsCome ==
    ASSUME NEW s \in FormsScopes, Forms(s)!IInv, NEW c \in s.clicks, Forms(s)!Come(c)
    PROVE  Forms(s)!IInv'
<1>1. /\ v4[c].pc = "come"
      /\ Forms(s)!To(c, "map") \/ Forms(s)!Ended(c)
      /\ UNCHANGED <<v1, v2, v3, v5, v6, v7, v8, v9, v10>>
  BY DEF Forms!Come
<1>2. Forms(s)!Shape /\ Forms(s)!HandlersFit
  BY DEF Forms!IInv
<1>3. CASE Forms(s)!Ended(c)
  <2>1. /\ v4' \in [s.clicks -> Forms(s)!Handlers] /\ v4'[c].pc = "idle" /\ v4'[c].token = none
        /\ \A d \in s.clicks \ {c} : v4'[d] = v4[d]
    BY <1>2, <1>3, FormsEnded
  <2>2. Forms(s)!Shape'
    BY <1>1, <1>2, <2>1 DEF Forms!Shape
  <2>3. Forms(s)!HandlersFit'
    BY <1>2, <2>1, FormsFit
  <2>4. ASSUME NEW u \in s.tokens
        PROVE  Forms(s)!TokenAgrees(u)'
    BY <1>1, <2>1, FormsOfToken, FormsFrame
  <2> QED BY <2>2, <2>3, <2>4 DEF Forms!IInv
<1>4. CASE Forms(s)!To(c, "map")
  <2>1. /\ v4' \in [s.clicks -> Forms(s)!Handlers]
        /\ v4'[c].pc = "map" /\ v4'[c].kind = v4[c].kind /\ v4'[c].token = v4[c].token
        /\ v4'[c].shows = v4[c].shows
        /\ \A d \in s.clicks \ {c} : v4'[d] = v4[d]
    BY <1>2, <1>4, FormsTo
  <2>2. Forms(s)!Shape'
    BY <1>1, <1>2, <2>1 DEF Forms!Shape
  <2>3. Forms(s)!HandlersFit'
    BY <1>1, <1>2, <2>1, FormsFit
  <2>4. ASSUME NEW u \in s.tokens
        PROVE  Forms(s)!TokenAgrees(u)'
    <3>0. v4[c].pc = "come"
      BY <1>1
    <3>1. Forms(s)!StartsAlone(u)'
      BY <1>1, <2>1, <3>0, FormsOfToken DEF Forms!StartsAlone, Forms!Has, Forms!Starts, Forms!Before
    <3>2. Forms(s)!RunsOnce(u)'
      BY <1>1, <2>1, <3>0, FormsOfToken DEF Forms!RunsOnce, Forms!Has, Forms!Runs
    <3>3. Forms(s)!Cancelled(u)'
      BY <1>1, <2>1, <3>0, FormsOfToken
         DEF Forms!Cancelled, Forms!Has, Forms!Runs, Forms!Unrun, Forms!Cancels
    <3>4. Forms(s)!ShowsParams(u)'
      BY <1>1, <2>1, <3>0, FormsOfToken
         DEF Forms!ShowsParams, Forms!Has, Forms!Runs, Forms!Executes, Forms!Before, Forms!Confirmed
    <3> QED BY <3>1, <3>2, <3>3, <3>4 DEF Forms!TokenAgrees
  <2> QED BY <2>2, <2>3, <2>4 DEF Forms!IInv
<1> QED BY <1>1, <1>3, <1>4

\* What a handler at the map knows.
LEMMA FormsAtLock ==
    ASSUME NEW s \in FormsScopes, Forms(s)!IInv, NEW c \in s.clicks, NEW kind,
           Forms(s)!AtLock(c, kind)
    PROVE  /\ v4[c].pc = "map" /\ v4[c].kind = kind /\ v3 = none
           /\ kind # "open" => v2 = {}
           /\ kind # "sweep" => v4[c].token \in s.tokens
BY DEF Forms!AtLock, Forms!IInv, Forms!HandlersFit

\* A draft is put into the map.
LEMMA FormsInsert ==
    ASSUME NEW s \in FormsScopes, Forms(s)!IInv, NEW c \in s.clicks, Forms(s)!Insert(c)
    PROVE  Forms(s)!IInv'
<1> SUFFICES ASSUME NEW t, t = v4[c].token
             PROVE  Forms(s)!IInv'
  OBVIOUS
<1>1. /\ v1' = [v1 EXCEPT ![t].status = "live"] /\ Forms(s)!To(c, "reply")
      /\ UNCHANGED <<v2, v3, v5, v6, v7, v8, v9, v10>>
  BY DEF Forms!Insert
<1>2. /\ v4[c].pc = "map" /\ v4[c].kind \in {"begin", "mutate"} /\ t \in s.tokens
  BY FormsAtLock DEF Forms!Insert
<1>3. Forms(s)!Shape /\ Forms(s)!HandlersFit /\ v1 \in [s.tokens -> Forms(s)!DraftSet]
  BY DEF Forms!IInv, Forms!Shape
<1>4. /\ v1' \in [s.tokens -> Forms(s)!DraftSet] /\ v1'[t].status = "live"
      /\ v1'[t].params = v1[t].params /\ \A u \in s.tokens \ {t} : v1'[u] = v1[u]
  BY <1>1, <1>2, <1>3 DEF Forms!DraftSet
<1>5. /\ v4' \in [s.clicks -> Forms(s)!Handlers]
      /\ v4'[c].pc = "reply" /\ v4'[c].kind = v4[c].kind /\ v4'[c].token = t
      /\ \A d \in s.clicks \ {c} : v4'[d] = v4[d]
  BY <1>1, <1>3, FormsTo
<1>6. Forms(s)!Shape'
  BY <1>1, <1>3, <1>4, <1>5 DEF Forms!Shape
<1>7. Forms(s)!HandlersFit'
  BY <1>2, <1>3, <1>5, FormsFit
<1>8. ASSUME NEW u \in s.tokens
      PROVE  Forms(s)!TokenAgrees(u)'
  <2>1. CASE u # t
    BY <2>1, <1>1, <1>4, <1>5, FormsOfToken, FormsFrame
  <2>2. CASE u = t
    <3>1. Forms(s)!Starts(c, t)
      BY <1>2 DEF Forms!Starts, Forms!Has, Forms!Before
    <3>2. /\ v1[t].status = "new" /\ \A d \in s.clicks : v4[d].token = t => d = c
      BY <1>2, <3>1, FormsOfToken DEF Forms!StartsAlone, Forms!Has
    <3>3. v5[t] = {} /\ v6[t] = <<>> /\ t \notin v7
      BY <1>2, <3>2, FormsOfToken DEF Forms!StartsAlone
    <3>4. Forms(s)!StartsAlone(u)'
      BY <2>2, <1>4, <1>5, <3>2 DEF Forms!StartsAlone, Forms!Has, Forms!Starts, Forms!Before
    <3>5. Forms(s)!RunsOnce(u)'
      BY <2>2, <1>1, <1>5, <3>2, <3>3, LenProperties DEF Forms!RunsOnce, Forms!Has, Forms!Runs
    <3>6. Forms(s)!Cancelled(u)'
      BY <2>2, <1>1, <1>2, <1>5, <3>2, <3>3
         DEF Forms!Cancelled, Forms!Has, Forms!Runs, Forms!Unrun, Forms!Cancels
    <3>7. Forms(s)!ShowsParams(u)'
      BY <2>2, <1>1, <1>4, <1>5, <3>2, <3>3
         DEF Forms!ShowsParams, Forms!Has, Forms!Runs, Forms!Executes, Forms!Before, Forms!Confirmed
    <3> QED BY <3>4, <3>5, <3>6, <3>7 DEF Forms!TokenAgrees
  <2> QED BY <2>1, <2>2
<1> QED BY <1>6, <1>7, <1>8 DEF Forms!IInv

\* A handler that ends and leaves everything as it is.
LEMMA FormsQuits ==
    ASSUME NEW s \in FormsScopes, Forms(s)!IInv, NEW c \in s.clicks, Forms(s)!Ended(c),
           UNCHANGED <<v1, v2, v3, v5, v6, v7, v8, v9, v10>>
    PROVE  Forms(s)!IInv'
<1>1. Forms(s)!Shape /\ Forms(s)!HandlersFit
  BY DEF Forms!IInv
<1>2. /\ v4' \in [s.clicks -> Forms(s)!Handlers] /\ v4'[c].pc = "idle" /\ v4'[c].token = none
      /\ \A d \in s.clicks \ {c} : v4'[d] = v4[d]
  BY <1>1, FormsEnded
<1>3. Forms(s)!Shape'
  BY <1>1, <1>2 DEF Forms!Shape
<1>4. Forms(s)!HandlersFit'
  BY <1>1, <1>2, FormsFit
<1>5. ASSUME NEW u \in s.tokens
      PROVE  Forms(s)!TokenAgrees(u)'
  BY <1>2, FormsOfToken, FormsFrame
<1> QED BY <1>3, <1>4, <1>5 DEF Forms!IInv

\* What has expired is dropped.
LEMMA FormsSweep ==
    ASSUME NEW s \in FormsScopes, Forms(s)!IInv, NEW c \in s.clicks, Forms(s)!Sweep(c)
    PROVE  Forms(s)!IInv'
<1>1. /\ v1' = [t \in s.tokens |-> IF v1[t].status = "expired"
                                  THEN [v1[t] EXCEPT !.status = "gone"] ELSE v1[t]]
      /\ Forms(s)!Ended(c) /\ UNCHANGED <<v2, v3, v5, v6, v7, v8, v9, v10>>
  BY DEF Forms!Sweep
<1>2. Forms(s)!Shape /\ Forms(s)!HandlersFit /\ v1 \in [s.tokens -> Forms(s)!DraftSet]
  BY DEF Forms!IInv, Forms!Shape
<1>3. \A t \in s.tokens :
        /\ v1'[t] \in Forms(s)!DraftSet /\ v1'[t].params = v1[t].params
        /\ IF v1[t].status = "expired" THEN v1'[t].status = "gone" ELSE v1'[t] = v1[t]
  BY <1>1, <1>2 DEF Forms!DraftSet
<1>4. v1' \in [s.tokens -> Forms(s)!DraftSet]
  BY <1>1, <1>3
<1>5. /\ v4' \in [s.clicks -> Forms(s)!Handlers] /\ v4'[c].pc = "idle" /\ v4'[c].token = none
      /\ \A d \in s.clicks \ {c} : v4'[d] = v4[d]
  BY <1>1, <1>2, FormsEnded
<1>6. Forms(s)!Shape'
  BY <1>1, <1>2, <1>4, <1>5 DEF Forms!Shape
<1>7. Forms(s)!HandlersFit'
  BY <1>2, <1>5, FormsFit
<1>8. ASSUME NEW u \in s.tokens
      PROVE  Forms(s)!TokenAgrees(u)'
  <2>1. \A d \in s.clicks : v4'[d] = v4[d] \/ v4'[d].token # u
    BY <1>5, FormsOfToken
  <2>2. CASE v1[u].status = "expired"
    BY <2>1, <2>2, <1>1, <1>3, FormsOfToken, FormsOlder
  <2>3. CASE v1[u].status # "expired"
    BY <2>1, <2>3, <1>1, <1>3, FormsOfToken, FormsFrame
  <2> QED BY <2>2, <2>3
<1> QED BY <1>6, <1>7, <1>8 DEF Forms!IInv

\* A form is opened: the entry is referred to until the reply.
LEMMA FormsGet ==
    ASSUME NEW s \in FormsScopes, Forms(s)!IInv, NEW c \in s.clicks, Forms(s)!Get(c)
    PROVE  Forms(s)!IInv'
<1>1. /\ v4[c].pc = "map" /\ v4[c].kind = "open" /\ v3 = none
  BY FormsAtLock DEF Forms!Get
<1>2. /\ \/ Forms(s)!To(c, "reply") /\ v2' = v2 \cup {c}
         \/ Forms(s)!Ended(c) /\ v2' = v2
      /\ UNCHANGED <<v1, v3, v5, v6, v7, v8, v9, v10>>
  BY DEF Forms!Get
<1>3. CASE Forms(s)!Ended(c) /\ v2' = v2
  BY <1>2, <1>3, FormsQuits
<1>4. CASE Forms(s)!To(c, "reply") /\ v2' = v2 \cup {c}
  <2>1. Forms(s)!Shape /\ Forms(s)!HandlersFit
    BY DEF Forms!IInv
  <2>2. /\ v4' \in [s.clicks -> Forms(s)!Handlers]
        /\ v4'[c].pc = "reply" /\ v4'[c].kind = "open" /\ v4'[c].token = v4[c].token
        /\ \A d \in s.clicks \ {c} : v4'[d] = v4[d]
    BY <1>1, <1>4, <2>1, FormsTo
  <2>3. Forms(s)!Shape'
    BY <1>1, <1>2, <1>4, <2>1, <2>2 DEF Forms!Shape
  <2>4. Forms(s)!HandlersFit'
    BY <1>1, <2>1, <2>2, FormsFit
  <2>5. ASSUME NEW u \in s.tokens
        PROVE  Forms(s)!TokenAgrees(u)'
    <3>1. Forms(s)!StartsAlone(u)'
      BY <1>1, <1>2, <2>2, FormsOfToken DEF Forms!StartsAlone, Forms!Has, Forms!Starts, Forms!Before
    <3>2. Forms(s)!RunsOnce(u)'
      BY <1>1, <1>2, <2>2, FormsOfToken DEF Forms!RunsOnce, Forms!Has, Forms!Runs
    <3>3. Forms(s)!Cancelled(u)'
      BY <1>1, <1>2, <2>2, FormsOfToken
         DEF Forms!Cancelled, Forms!Has, Forms!Runs, Forms!Unrun, Forms!Cancels
    <3>4. Forms(s)!ShowsParams(u)'
      BY <1>1, <1>2, <2>2, FormsOfToken
         DEF Forms!ShowsParams, Forms!Has, Forms!Runs, Forms!Executes, Forms!Before, Forms!Confirmed
    <3> QED BY <3>1, <3>2, <3>3, <3>4 DEF Forms!TokenAgrees
  <2> QED BY <2>3, <2>4, <2>5 DEF Forms!IInv
<1> QED BY <1>2, <1>3, <1>4

\* A page of a form is saved: what a card has shown is written down, if it changes.
LEMMA FormsApply ==
    ASSUME NEW s \in FormsScopes, Forms(s)!IInv, NEW c \in s.clicks, Forms(s)!Apply(c)
    PROVE  Forms(s)!IInv'
<1> DEFINE after == Forms(s)!Applied(v1[v4[c].token].params, v4[c].values, v8)
<1> SUFFICES ASSUME NEW t, t = v4[c].token
             PROVE  Forms(s)!IInv'
  OBVIOUS
<1>1. /\ v4[c].pc = "map" /\ v4[c].kind = "save" /\ v3 = none /\ v2 = {} /\ t \in s.tokens
  BY FormsAtLock DEF Forms!Apply
<1>2. /\ UNCHANGED <<v2, v5, v6, v7, v8, v9>>
      /\ IF v1[t].status # "live"
         THEN Forms(s)!Ended(c) /\ UNCHANGED <<v1, v3, v10>>
         ELSE /\ v1' = [v1 EXCEPT ![t].params = after]
              /\ v10' = IF Forms(s)!Confirmed(t) /\ after # v1[t].params THEN v10 \cup {t} ELSE v10
              /\ \/ Forms(s)!Ended(c) /\ v3' = v3
                 \/ Forms(s)!To(c, "reply") /\ v3' = c
  BY DEF Forms!Apply
<1>3. CASE v1[t].status # "live"
  BY <1>2, <1>3, FormsQuits
<1>4. CASE v1[t].status = "live"
  <2>1. Forms(s)!Shape /\ Forms(s)!HandlersFit /\ v1 \in [s.tokens -> Forms(s)!DraftSet]
    BY DEF Forms!IInv, Forms!Shape
  <2>2. after \in Forms(s)!Params
    <3>1. v1[t].params \in Forms(s)!Params /\ v8 \in 0..s.most
      BY <1>1, <2>1 DEF Forms!DraftSet, Forms!Shape
    <3> QED BY <3>1 DEF Forms!Applied, Forms!Params
  <2> HIDE DEF after
  <2>3. /\ v1' \in [s.tokens -> Forms(s)!DraftSet] /\ v1'[t].status = "live"
        /\ v1'[t].params = after /\ \A u \in s.tokens \ {t} : v1'[u] = v1[u]
    BY <1>1, <1>2, <1>4, <2>1, <2>2 DEF Forms!DraftSet
  <2>4. /\ v4' \in [s.clicks -> Forms(s)!Handlers]
        /\ \/ v4'[c].pc = "idle" /\ v4'[c].token = none
           \/ v4'[c].pc = "reply" /\ v4'[c].kind = "save" /\ v4'[c].token = t
        /\ \A d \in s.clicks \ {c} : v4'[d] = v4[d]
    BY <1>1, <1>2, <1>4, <2>1, FormsTo, FormsEnded
  <2>5. v3' \in s.clicks \cup {none} /\ v2' = {} /\ v10' \subseteq v10 \cup {t}
    BY <1>1, <1>2, <1>4, <2>1 DEF Forms!Shape
  <2>6. Forms(s)!Shape'
    BY <1>1, <1>2, <2>1, <2>3, <2>4, <2>5 DEF Forms!Shape
  <2>7. Forms(s)!HandlersFit'
    BY <1>1, <2>1, <2>4, FormsFit
  <2>8. ASSUME NEW u \in s.tokens
        PROVE  Forms(s)!TokenAgrees(u)'
    <3>0. u \in v10 => u \in v10'
      BY <1>2, <1>4
    <3>1. CASE u # t
      <4>1. \A d \in s.clicks : v4'[d] = v4[d] \/ v4'[d].token # u
        BY <3>1, <2>4, FormsOfToken
      <4> QED BY <3>0, <3>1, <4>1, <1>2, <2>3, FormsOfToken, FormsFrame
    <3>2. CASE u = t
      <4>1. Forms(s)!StartsAlone(u)'
        BY <3>2, <1>1, <1>2, <1>4, <2>3, <2>4, FormsOfToken
           DEF Forms!StartsAlone, Forms!Has, Forms!Starts, Forms!Before
      <4>2. Forms(s)!RunsOnce(u)'
        BY <3>2, <1>2, <1>4, <2>3, <2>4, FormsOfToken DEF Forms!RunsOnce, Forms!Has, Forms!Runs
      <4>3. Forms(s)!Cancelled(u)'
        BY <3>2, <1>2, <1>4, <2>3, <2>4, FormsOfToken
           DEF Forms!Cancelled, Forms!Has, Forms!Runs, Forms!Unrun, Forms!Cancels
      <4>4. Forms(s)!ShowsParams(u)'
        <5>1. \A d \in s.clicks : /\ Forms(s)!Executes(d, t)' => Forms(s)!Executes(d, t) /\ v4'[d] = v4[d]
                                  /\ ~Forms(s)!Runs(d, t)'
          BY <1>1, <1>4, <2>4, FormsOfToken
             DEF Forms!RunsOnce, Forms!Executes, Forms!Runs, Forms!Has, Forms!Before
        <5>2. v6[t] = <<>>
          BY <1>1, <1>4, FormsOfToken DEF Forms!RunsOnce
        <5>3. Forms(s)!Confirmed(t)' <=> Forms(s)!Confirmed(t)
          BY <1>2 DEF Forms!Confirmed
        <5>4. \A d \in s.clicks : Forms(s)!Executes(d, t)' => Forms(s)!Confirmed(t)'
          BY <5>1, <5>3, <1>1, <1>4, FormsOfToken DEF Forms!ShowsParams
        <5>5. CASE t \in v10'
          BY <3>2, <5>4, <5>5 DEF Forms!ShowsParams
        <5>6. CASE t \notin v10'
          <6>1. t \notin v10 /\ (Forms(s)!Confirmed(t) => after = v1[t].params)
            BY <5>6, <1>2, <1>4
          <6>2. \A card \in v5'[t] : card.kind = "confirm" => card.shows = v1'[t].params
            BY <6>1, <1>1, <1>2, <2>3, FormsOfToken DEF Forms!ShowsParams, Forms!Confirmed
          <6>3. \A d \in s.clicks : Forms(s)!Executes(d, t)' => v4'[d].shows = v1'[t].params
            BY <6>1, <5>1, <1>1, <1>4, <2>3, FormsOfToken DEF Forms!ShowsParams
          <6>4. v6'[t] = <<>>
            BY <5>2, <1>2
          <6> QED BY <3>2, <5>1, <5>4, <6>2, <6>3, <6>4, LenProperties DEF Forms!ShowsParams
        <5> QED BY <5>5, <5>6
      <4> QED BY <4>1, <4>2, <4>3, <4>4 DEF Forms!TokenAgrees
    <3> QED BY <3>1, <3>2
  <2> QED BY <2>6, <2>7, <2>8 DEF Forms!IInv
<1> QED BY <1>3, <1>4

\* A draft is taken out to be run.
LEMMA FormsRemove ==
    ASSUME NEW s \in FormsScopes, Forms(s)!IInv, NEW c \in s.clicks, Forms(s)!Remove(c)
    PROVE  Forms(s)!IInv'
<1> SUFFICES ASSUME NEW t, t = v4[c].token
             PROVE  Forms(s)!IInv'
  OBVIOUS
<1>1. /\ v4[c].pc = "map" /\ v4[c].kind = "execute" /\ t \in s.tokens
  BY FormsAtLock DEF Forms!Remove
<1>2. /\ UNCHANGED <<v2, v3, v5, v6, v7, v8, v9, v10>>
      /\ v1' = [v1 EXCEPT ![t].status = "gone"]
      /\ IF v1[t].status = "live"
         THEN v4' = [v4 EXCEPT ![c].pc = "run", ![c].params = v1[t].params]
         ELSE Forms(s)!Ended(c)
  BY DEF Forms!Remove
<1>3. /\ Forms(s)!Shape /\ Forms(s)!HandlersFit /\ v1 \in [s.tokens -> Forms(s)!DraftSet]
      /\ v4 \in [s.clicks -> Forms(s)!Handlers]
  BY DEF Forms!IInv, Forms!Shape
<1>4. /\ v1' \in [s.tokens -> Forms(s)!DraftSet] /\ v1'[t].status = "gone"
      /\ v1'[t].params = v1[t].params /\ \A u \in s.tokens \ {t} : v1'[u] = v1[u]
      /\ v1[t].params \in Forms(s)!Params
  BY <1>1, <1>2, <1>3 DEF Forms!DraftSet
<1>5. /\ v4' \in [s.clicks -> Forms(s)!Handlers] /\ \A d \in s.clicks \ {c} : v4'[d] = v4[d]
      /\ \/ v4'[c].pc = "idle" /\ v4'[c].token = none
         \/ /\ v1[t].status = "live" /\ v4'[c].pc = "run" /\ v4'[c].kind = "execute"
            /\ v4'[c].token = t /\ v4'[c].params = v1[t].params /\ v4'[c].shows = v4[c].shows
  <2>1. CASE v1[t].status = "live"
    BY <2>1, <1>1, <1>2, <1>3, <1>4 DEF Forms!Handlers
  <2>2. CASE v1[t].status # "live"
    BY <2>2, <1>2, <1>3, FormsEnded
  <2> QED BY <2>1, <2>2
<1>6. Forms(s)!Shape'
  BY <1>2, <1>3, <1>4, <1>5 DEF Forms!Shape
<1>7. Forms(s)!HandlersFit'
  BY <1>1, <1>3, <1>5, FormsFit
<1>8. ASSUME NEW u \in s.tokens
      PROVE  Forms(s)!TokenAgrees(u)'
  <2>1. CASE u # t
    <3>1. \A d \in s.clicks : v4'[d] = v4[d] \/ v4'[d].token # u
      BY <2>1, <1>5, FormsOfToken
    <3> QED BY <2>1, <3>1, <1>2, <1>4, FormsOfToken, FormsFrame
  <2>2. CASE u = t
    <3>1. v1[t].status # "new" /\ Forms(s)!Executes(c, t) /\ v4'[c].pc \in {"idle", "run"}
      BY <1>1, <1>5, FormsOfToken
         DEF Forms!StartsAlone, Forms!Has, Forms!Starts, Forms!Before, Forms!Executes
    <3>2. v1[t].status = "live" =>
            v6[t] = <<>> /\ t \notin v7 /\ \A d \in s.clicks : ~Forms(s)!Runs(d, t) /\ ~Forms(s)!Cancels(d, t)
      BY <1>1, FormsOfToken DEF Forms!RunsOnce, Forms!Cancelled
    <3>3. Forms(s)!StartsAlone(u)'
      BY <2>2, <3>1, <1>1, <1>4, <1>5, FormsOfToken
         DEF Forms!StartsAlone, Forms!Has, Forms!Starts, Forms!Before
    <3>4. Forms(s)!RunsOnce(u)'
      BY <2>2, <3>2, <1>2, <1>4, <1>5, FormsOfToken DEF Forms!RunsOnce, Forms!Has, Forms!Runs
    <3>5. Forms(s)!Cancelled(u)'
      BY <2>2, <3>1, <3>2, <1>2, <1>4, <1>5, FormsOfToken
         DEF Forms!Cancelled, Forms!Has, Forms!Runs, Forms!Unrun, Forms!Cancels
    <3>6. Forms(s)!ShowsParams(u)'
      BY <2>2, <3>1, <1>2, <1>4, <1>5, FormsOfToken
         DEF Forms!ShowsParams, Forms!Has, Forms!Runs, Forms!Executes, Forms!Before, Forms!Confirmed
    <3> QED BY <3>3, <3>4, <3>5, <3>6 DEF Forms!TokenAgrees
  <2> QED BY <2>1, <2>2
<1> QED BY <1>6, <1>7, <1>8 DEF Forms!IInv

\* A draft is taken out to be forgotten.
LEMMA FormsDrop ==
    ASSUME NEW s \in FormsScopes, Forms(s)!IInv, NEW c \in s.clicks, Forms(s)!Drop(c)
    PROVE  Forms(s)!IInv'
<1> SUFFICES ASSUME NEW t, t = v4[c].token
             PROVE  Forms(s)!IInv'
  OBVIOUS
<1>1. /\ v4[c].pc = "map" /\ v4[c].kind = "cancel" /\ t \in s.tokens
  BY FormsAtLock DEF Forms!Drop
<1>2. /\ UNCHANGED <<v2, v3, v5, v6, v7, v8, v10>>
      /\ v1' = [v1 EXCEPT ![t].status = "gone"] /\ Forms(s)!To(c, "reply")
      /\ v9' = IF v1[t].status = "gone" THEN v9 \cup {t} ELSE v9
  BY DEF Forms!Drop
<1>3. /\ Forms(s)!Shape /\ Forms(s)!HandlersFit /\ v1 \in [s.tokens -> Forms(s)!DraftSet]
  BY DEF Forms!IInv, Forms!Shape
<1>4. /\ v1' \in [s.tokens -> Forms(s)!DraftSet] /\ v1'[t].status = "gone"
      /\ v1'[t].params = v1[t].params /\ \A u \in s.tokens \ {t} : v1'[u] = v1[u]
  BY <1>1, <1>2, <1>3 DEF Forms!DraftSet
<1>5. /\ v4' \in [s.clicks -> Forms(s)!Handlers] /\ \A d \in s.clicks \ {c} : v4'[d] = v4[d]
      /\ v4'[c].pc = "reply" /\ v4'[c].kind = "cancel" /\ v4'[c].token = t
  BY <1>1, <1>2, <1>3, FormsTo
<1>6. v9' \subseteq v9 \cup {t} /\ \A u \in s.tokens : u \in v9 => u \in v9'
  BY <1>2
<1>7. Forms(s)!Shape'
  BY <1>1, <1>2, <1>3, <1>4, <1>5, <1>6 DEF Forms!Shape
<1>8. Forms(s)!HandlersFit'
  BY <1>1, <1>3, <1>5, FormsFit
<1>9. ASSUME NEW u \in s.tokens
      PROVE  Forms(s)!TokenAgrees(u)'
  <2>1. CASE u # t
    BY <2>1, <1>2, <1>4, <1>5, <1>6, FormsOfToken, FormsFrame
  <2>2. CASE u = t
    <3>1. v1[t].status # "new"
      BY <1>1, FormsOfToken DEF Forms!StartsAlone, Forms!Has, Forms!Starts, Forms!Before
    <3>2. v1[t].status # "gone" =>
            v6[t] = <<>> /\ t \notin v7 /\ \A d \in s.clicks : ~Forms(s)!Runs(d, t) /\ ~Forms(s)!Cancels(d, t)
      BY <1>1, FormsOfToken DEF Forms!RunsOnce, Forms!Cancelled
    <3>3. Forms(s)!StartsAlone(u)'
      BY <2>2, <3>1, <1>1, <1>4, <1>5, FormsOfToken
         DEF Forms!StartsAlone, Forms!Has, Forms!Starts, Forms!Before
    <3>4. Forms(s)!RunsOnce(u)'
      BY <2>2, <1>2, <1>4, <1>5, FormsOfToken DEF Forms!RunsOnce, Forms!Has, Forms!Runs
    <3>5. Forms(s)!Cancelled(u)'
      BY <2>2, <3>2, <1>2, <1>4, <1>5, FormsOfToken
         DEF Forms!Cancelled, Forms!Has, Forms!Runs, Forms!Unrun, Forms!Cancels
    <3>6. Forms(s)!ShowsParams(u)'
      BY <2>2, <1>1, <1>2, <1>4, <1>5, FormsOfToken
         DEF Forms!ShowsParams, Forms!Has, Forms!Runs, Forms!Executes, Forms!Before, Forms!Confirmed
    <3> QED BY <3>3, <3>4, <3>5, <3>6 DEF Forms!TokenAgrees
  <2> QED BY <2>1, <2>2
<1> QED BY <1>7, <1>8, <1>9 DEF Forms!IInv

\* The cards after a reply: a new one shows the parameters of the entry; only the
\* reply to a cancellation takes one away.
LEMMA FormsShown ==
    ASSUME NEW s \in FormsScopes, Forms(s)!IInv, NEW c \in s.clicks, v4[c].pc = "reply",
           NEW t \in s.tokens, t = v4[c].token
    PROVE  /\ Forms(s)!Shown(c) \subseteq Forms(s)!CardSet
           /\ \A card \in Forms(s)!Shown(c) :
                card \in v5[t] \/ (card.kind = "confirm" => card.shows = v1[t].params)
           /\ v4[c].kind # "cancel" => v5[t] \subseteq Forms(s)!Shown(c)
<1>1. /\ v4[c].kind \in {"begin", "mutate", "open", "save", "cancel"}
      /\ v5[t] \subseteq Forms(s)!CardSet /\ v4[c].page \in 0..(Forms(s)!PageCount - 1)
      /\ v1[t].params \in Forms(s)!Params
  BY DEF Forms!IInv, Forms!HandlersFit, Forms!Shape, Forms!Handlers, Forms!DraftSet
<1>2. CASE v4[c].kind = "begin"
  <2>1. Forms(s)!Shown(c) = v5[t] \cup {Forms(s)!FirstCard}
    BY <1>2 DEF Forms!Shown
  <2>2. Forms(s)!FirstCard \in Forms(s)!CardSet
    BY FormsTypes
  <2>3. Forms(s)!FirstCard.kind = "confirm" => Forms(s)!FirstCard.shows = v1[t].params
    <3>1. CASE s.fields = 0
      <4>1. Forms(s)!Fields = {}
        BY <3>1 DEF Forms!Fields
      <4>2. Forms(s)!Blank = v1[t].params
        BY <4>1, <1>1 DEF Forms!Blank, Forms!Params
      <4>3. Forms(s)!FirstCard = Forms(s)!Confirm(Forms(s)!Blank)
        BY <3>1 DEF Forms!FirstCard
      <4> QED BY <4>2, <4>3, FormsTypes
    <3>2. CASE s.fields # 0
      <4>1. Forms(s)!FirstCard = Forms(s)!Form(0) /\ 0 \in 0..(Forms(s)!PageCount - 1)
        BY <3>2, FormsTypes DEF Forms!FirstCard
      <4> QED BY <4>1, FormsTypes
    <3> QED BY <3>1, <3>2
  <2> QED BY <2>1, <2>2, <2>3, <1>1
<1>3. CASE v4[c].kind = "mutate"
  <2>1. Forms(s)!Shown(c) = v5[t] \cup {Forms(s)!Confirm(v1[t].params)}
    BY <1>3 DEF Forms!Shown
  <2> QED BY <2>1, <1>1, FormsTypes
<1>4. CASE v4[c].kind = "open"
  <2>1. Forms(s)!Shown(c) = v5[t] \cup {Forms(s)!Form(v4[c].page)}
    BY <1>4 DEF Forms!Shown
  <2> QED BY <2>1, <1>1, FormsTypes
<1>5. CASE v4[c].kind = "save"
  <2>1. CASE v4[c].page + 1 < Forms(s)!PageCount
    <3>1. Forms(s)!Shown(c) = v5[t] \cup {Forms(s)!Continue(v4[c].page + 1)}
      BY <1>5, <2>1 DEF Forms!Shown
    <3>2. v4[c].page + 1 \in 0..(Forms(s)!PageCount - 1)
      BY <1>1, <2>1, FormsTypes
    <3> QED BY <3>1, <3>2, <1>1, FormsTypes
  <2>2. CASE ~(v4[c].page + 1 < Forms(s)!PageCount)
    <3>1. Forms(s)!Shown(c) = v5[t] \cup {Forms(s)!Confirm(v1[t].params)}
      BY <1>5, <2>2 DEF Forms!Shown
    <3> QED BY <3>1, <1>1, FormsTypes
  <2> QED BY <2>1, <2>2
<1>6. CASE v4[c].kind = "cancel"
  <2>1. Forms(s)!Shown(c) \subseteq v5[t]
    BY <1>6 DEF Forms!Shown
  <2> QED BY <2>1, <1>1, <1>6
<1> QED BY <1>1, <1>2, <1>3, <1>4, <1>5, <1>6

\* A reply.
LEMMA FormsReply ==
    ASSUME NEW s \in FormsScopes, Forms(s)!IInv, NEW c \in s.clicks, Forms(s)!Reply(c)
    PROVE  Forms(s)!IInv'
<1> SUFFICES ASSUME NEW t, t = v4[c].token
             PROVE  Forms(s)!IInv'
  OBVIOUS
<1>1. /\ v4[c].pc = "reply" /\ Forms(s)!Ended(c) /\ UNCHANGED <<v1, v6, v8, v9, v10>>
      /\ v2' = v2 \ {c} /\ v3' = IF v3 = c THEN none ELSE v3
      /\ \/ /\ v5' = [v5 EXCEPT ![t] = Forms(s)!Shown(c)]
            /\ v7' = IF v4[c].kind = "cancel" THEN v7 \cup {t} ELSE v7
         \/ v5' = v5 /\ v7' = v7
  BY DEF Forms!Reply
<1>2. /\ Forms(s)!Shape /\ Forms(s)!HandlersFit /\ v5 \in [s.tokens -> SUBSET Forms(s)!CardSet]
  BY DEF Forms!IInv, Forms!Shape
<1>3. v4[c].kind \in {"begin", "mutate", "open", "save", "cancel"} /\ t \in s.tokens
  BY <1>1, <1>2 DEF Forms!HandlersFit
<1>4. /\ Forms(s)!Shown(c) \subseteq Forms(s)!CardSet
      /\ \A card \in Forms(s)!Shown(c) :
           card \in v5[t] \/ (card.kind = "confirm" => card.shows = v1[t].params)
      /\ v4[c].kind # "cancel" => v5[t] \subseteq Forms(s)!Shown(c)
  BY <1>1, <1>3, FormsShown
<1>5. /\ v4' \in [s.clicks -> Forms(s)!Handlers] /\ \A d \in s.clicks \ {c} : v4'[d] = v4[d]
      /\ v4'[c].pc = "idle" /\ v4'[c].token = none
  BY <1>1, <1>2, FormsEnded
<1>6. /\ v5' \in [s.tokens -> SUBSET Forms(s)!CardSet]
      /\ \A u \in s.tokens \ {t} : v5'[u] = v5[u]
      /\ \A card \in v5'[t] :
           card \in v5[t] \/ (card.kind = "confirm" => card.shows = v1[t].params)
      /\ v4[c].kind # "cancel" => v5[t] \subseteq v5'[t]
  BY <1>1, <1>2, <1>3, <1>4
<1>7. /\ v7' \subseteq v7 \cup {t}
      /\ t \in v7' => t \in v7 \/ v4[c].kind = "cancel"
      /\ v3' \in s.clicks \cup {none} /\ v2' \subseteq s.clicks /\ (v3' # none => v2' = {})
  BY <1>1, <1>2 DEF Forms!Shape
<1>8. Forms(s)!Shape'
  BY <1>1, <1>2, <1>3, <1>5, <1>6, <1>7 DEF Forms!Shape
<1>9. Forms(s)!HandlersFit'
  BY <1>2, <1>5, FormsFit
<1>10. ASSUME NEW u \in s.tokens
       PROVE  Forms(s)!TokenAgrees(u)'
  <2>1. \A d \in s.clicks : v4'[d] = v4[d] \/ v4'[d].token # u
    BY <1>5, FormsOfToken
  <2>2. CASE u # t
    BY <2>1, <2>2, <1>1, <1>6, <1>7, FormsOfToken, FormsFrame
  <2>3. CASE u = t
    <3>1. v1[t].status # "new"
      BY <1>1, <1>3, FormsOfToken DEF Forms!StartsAlone, Forms!Has, Forms!Starts, Forms!Before
    <3>2. v4[c].kind = "cancel" => Forms(s)!Cancels(c, t)
      BY <1>1 DEF Forms!Cancels, Forms!Has
    <3>3. Forms(s)!StartsAlone(u)'
      BY <2>3, <2>1, <3>1, <1>1, FormsOfToken
         DEF Forms!StartsAlone, Forms!Has, Forms!Starts, Forms!Before
    <3>4. Forms(s)!RunsOnce(u)'
      BY <2>3, <2>1, <1>1, FormsOfToken DEF Forms!RunsOnce, Forms!Has, Forms!Runs
    <3>5. Forms(s)!Cancelled(u)'
      BY <2>3, <2>1, <3>2, <1>1, <1>7, FormsOfToken
         DEF Forms!Cancelled, Forms!Has, Forms!Runs, Forms!Unrun, Forms!Cancels
    <3>6. Forms(s)!ShowsParams(u)'
      <4>1. v1[t].status = "live" => v5[t] \subseteq v5'[t]
        BY <2>3, <3>2, <1>6, FormsOfToken DEF Forms!Cancelled
      <4>2. v1[t].status = "live" => (Forms(s)!Confirmed(t) => Forms(s)!Confirmed(t)')
        BY <4>1 DEF Forms!Confirmed
      <4> QED BY <2>3, <2>1, <4>2, <1>1, <1>6, FormsOfToken
              DEF Forms!ShowsParams, Forms!Has, Forms!Runs, Forms!Executes, Forms!Before
    <3> QED BY <3>3, <3>4, <3>5, <3>6 DEF Forms!TokenAgrees
  <2> QED BY <2>2, <2>3
<1> QED BY <1>8, <1>9, <1>10 DEF Forms!IInv

\* A draft that was taken out is run, or refused.
LEMMA FormsRun ==
    ASSUME NEW s \in FormsScopes, Forms(s)!IInv, NEW c \in s.clicks, Forms(s)!Run(c)
    PROVE  Forms(s)!IInv'
<1> DEFINE e == [params |-> v4[c].params, shown |-> v4[c].shows]
<1> SUFFICES ASSUME NEW t, t = v4[c].token
             PROVE  Forms(s)!IInv'
  OBVIOUS
<1>1. /\ v4[c].pc = "run" /\ Forms(s)!Ended(c) /\ UNCHANGED <<v1, v2, v3, v5, v7, v8, v9, v10>>
      /\ v6' = [v6 EXCEPT ![t] = Append(@, e)] \/ v6' = v6
  BY DEF Forms!Run
<1>2. CASE v6' = v6
  BY <1>1, <1>2, FormsQuits
<1>3. CASE v6' = [v6 EXCEPT ![t] = Append(@, e)]
  <2>1. /\ Forms(s)!Shape /\ Forms(s)!HandlersFit /\ t \in s.tokens
        /\ v4[c] \in Forms(s)!Handlers
    BY <1>1 DEF Forms!IInv, Forms!HandlersFit, Forms!Shape
  <2>2. /\ e \in [params : Forms(s)!Params, shown : Forms(s)!Params]
        /\ e.params = v4[c].params /\ e.shown = v4[c].shows
    BY <2>1 DEF Forms!Handlers
  <2>3. Forms(s)!Runs(c, t)
    BY <1>1 DEF Forms!Runs, Forms!Has
  <2>4. /\ v6[t] = <<>> /\ v1[t].status = "gone"
        /\ \A d \in s.clicks : Forms(s)!Runs(d, t) => d = c
    BY <2>1, <2>3, FormsOfToken DEF Forms!RunsOnce
  <2> HIDE DEF e
  <2>5. /\ v6' \in [s.tokens -> Seq([params : Forms(s)!Params, shown : Forms(s)!Params])]
        /\ v6'[t] = <<e>> /\ \A u \in s.tokens \ {t} : v6'[u] = v6[u]
    <3>1. /\ v6 \in [s.tokens -> Seq([params : Forms(s)!Params, shown : Forms(s)!Params])]
          /\ v6[t] \in Seq([params : Forms(s)!Params, shown : Forms(s)!Params])
      BY <2>1 DEF Forms!Shape
    <3>2. Append(v6[t], e) \in Seq([params : Forms(s)!Params, shown : Forms(s)!Params])
          /\ Append(v6[t], e) = <<e>>
      BY <2>2, <2>4, <3>1, AppendProperties
    <3> QED BY <3>1, <3>2, <2>1, <1>3
  <2>6. /\ v4' \in [s.clicks -> Forms(s)!Handlers] /\ \A d \in s.clicks \ {c} : v4'[d] = v4[d]
        /\ v4'[c].pc = "idle" /\ v4'[c].token = none
    BY <1>1, <2>1, FormsEnded
  <2>7. Forms(s)!Shape'
    BY <1>1, <2>1, <2>5, <2>6 DEF Forms!Shape
  <2>8. Forms(s)!HandlersFit'
    BY <2>1, <2>6, FormsFit
  <2>9. ASSUME NEW u \in s.tokens
        PROVE  Forms(s)!TokenAgrees(u)'
    <3>1. \A d \in s.clicks : v4'[d] = v4[d] \/ v4'[d].token # u
      BY <2>6, FormsOfToken
    <3>2. CASE u # t
      BY <3>1, <3>2, <1>1, <2>5, FormsOfToken, FormsFrame
    <3>3. CASE u = t
      <4>1. Forms(s)!StartsAlone(u)'
        BY <3>3, <3>1, <1>1, <2>4, FormsOfToken
           DEF Forms!StartsAlone, Forms!Has, Forms!Starts, Forms!Before
      <4>2. /\ Len(v6'[t]) = 1 /\ DOMAIN v6'[t] = {1} /\ v6'[t][1] = e
        BY <2>5
      <4>3. \A d \in s.clicks : ~Forms(s)!Runs(d, t)'
        BY <2>1, <2>4, <2>6, FormsOfToken DEF Forms!Runs, Forms!Has
      <4>4. Forms(s)!RunsOnce(u)'
        BY <3>3, <4>2, <4>3, <1>1, <2>4 DEF Forms!RunsOnce
      <4>5. Forms(s)!Cancelled(u)'
        <5>1. /\ t \in v7 => t \in v9
              /\ \A d \in s.clicks : Forms(s)!Cancels(d, t) => t \in v9
          BY <2>1, <2>3, FormsOfToken DEF Forms!Cancelled, Forms!Unrun
        <5> QED BY <3>3, <3>1, <5>1, <1>1, <2>4
                DEF Forms!Cancelled, Forms!Has, Forms!Cancels
      <4>6. Forms(s)!ShowsParams(u)'
        <5>1. t \notin v10 => e.params = e.shown
          BY <2>1, <2>2, <2>3, FormsOfToken DEF Forms!ShowsParams
        <5> QED BY <3>3, <3>1, <4>2, <4>3, <5>1, <1>1, <2>4, FormsOfToken
                DEF Forms!ShowsParams, Forms!Has, Forms!Executes, Forms!Before, Forms!Confirmed
      <4> QED BY <4>1, <4>4, <4>5, <4>6 DEF Forms!TokenAgrees
    <3> QED BY <3>2, <3>3
  <2> QED BY <2>7, <2>8, <2>9 DEF Forms!IInv
<1> QED BY <1>1, <1>2, <1>3

\* The forms start in their invariant,
LEMMA FormsInit ==
    ASSUME NEW s \in FormsScopes, Forms(s)!Init
    PROVE  Forms(s)!IInv
<1> DEFINE new == [status |-> "new", params |-> Forms(s)!Blank]
<1>1. /\ v1 = [t \in s.tokens |-> new] /\ v2 = {} /\ v3 = none
      /\ v4 = [c \in s.clicks |-> Forms(s)!Resting] /\ v5 = [t \in s.tokens |-> {}]
      /\ v6 = [t \in s.tokens |-> <<>>] /\ v7 = {} /\ v8 = 0 /\ v9 = {} /\ v10 = {}
  BY DEF Forms!Init
<1>2. new \in Forms(s)!DraftSet /\ new.status = "new"
  BY FormsTypes DEF Forms!DraftSet
<1> HIDE DEF new
<1>3. /\ v1 \in [s.tokens -> Forms(s)!DraftSet] /\ \A t \in s.tokens : v1[t].status = "new"
  BY <1>1, <1>2
<1>4. /\ v4 \in [s.clicks -> Forms(s)!Handlers]
      /\ \A c \in s.clicks : v4[c].pc = "idle" /\ v4[c].token = none
  BY <1>1, FormsResting
<1>5. /\ v6 \in [s.tokens -> Seq([params : Forms(s)!Params, shown : Forms(s)!Params])]
      /\ \A t \in s.tokens : v6[t] = <<>> /\ Len(v6[t]) = 0
  BY <1>1, EmptySeq
<1>6. v5 \in [s.tokens -> SUBSET Forms(s)!CardSet] /\ v8 \in 0..s.most
  BY <1>1, FormsTypes
<1>7. Forms(s)!Shape
  BY <1>1, <1>3, <1>4, <1>5, <1>6 DEF Forms!Shape
<1>8. Forms(s)!HandlersFit
  BY <1>4 DEF Forms!HandlersFit
<1>9. ASSUME NEW t \in s.tokens
      PROVE  Forms(s)!TokenAgrees(t)
  <2>1. Forms(s)!StartsAlone(t)
    BY <1>1, <1>4, FormsAssumption DEF Forms!StartsAlone, Forms!Has, Forms!Starts, Forms!Before
  <2>2. Forms(s)!RunsOnce(t)
    BY <1>4, <1>5 DEF Forms!RunsOnce, Forms!Runs
  <2>3. Forms(s)!Cancelled(t)
    BY <1>1, <1>4 DEF Forms!Cancelled, Forms!Cancels
  <2>4. Forms(s)!ShowsParams(t)
    BY <1>1, <1>3, <1>4 DEF Forms!ShowsParams, Forms!Executes, Forms!Before, Forms!Runs
  <2> QED BY <2>1, <2>2, <2>3, <2>4 DEF Forms!TokenAgrees
<1> QED BY <1>7, <1>8, <1>9 DEF Forms!IInv

\* and keep it.
LEMMA FormsStep ==
    ASSUME NEW s \in FormsScopes, Forms(s)!IInv,
           Forms(s)!Next \/ UNCHANGED <<v1, v2, v3, v4, v5, v6, v7, v8, v9, v10>>
    PROVE  Forms(s)!IInv'
<1>1. CASE UNCHANGED <<v1, v2, v3, v4, v5, v6, v7, v8, v9, v10>>
  <2>1. Forms(s)!Shape' /\ Forms(s)!HandlersFit'
    BY <1>1 DEF Forms!IInv, Forms!Shape, Forms!HandlersFit
  <2>2. ASSUME NEW u \in s.tokens
        PROVE  Forms(s)!TokenAgrees(u)'
    BY <1>1, FormsOfToken, FormsFrame
  <2> QED BY <2>1, <2>2 DEF Forms!IInv
<1>2. CASE Forms(s)!Next
  BY <1>2, FormsPick, FormsPress, FormsSubmit, FormsBrowse, FormsExpire, FormsCome, FormsInsert,
     FormsSweep, FormsGet, FormsApply, FormsRemove, FormsDrop, FormsReply, FormsRun
     DEF Forms!Next, Forms!Handle
<1> QED BY <1>1, <1>2

\* The states of the forms, in every behaviour.
LEMMA FormsInvariant == Spec => [](\A s \in FormsScopes : Is("forms", s) => Forms(s)!IInv)
<1> DEFINE I == \A s \in FormsScopes : Is("forms", s) => Forms(s)!IInv
<1>1. Init => I
  BY FormsInit DEF Init, Is
<1>2. I /\ [Next]_vars => I'
  <2> SUFFICES ASSUME I, [Next]_vars, NEW s \in FormsScopes, Is("forms", s)'
               PROVE  Forms(s)!IInv'
    OBVIOUS
  <2>1. CASE UNCHANGED vars
    BY <2>1, FormsStep DEF vars, Is
  <2>2. CASE Next
    <3>1. In("forms", s) /\ Forms(s)!Next
      BY <2>2 DEF Next, In, Is
    <3> QED BY <3>1, FormsStep DEF In
  <2> QED BY <2>1, <2>2
<1> QED BY <1>1, <1>2, PTL DEF Spec

\* What the invariant says of what is run.
LEMMA FormsRunWhatTheyShow ==
    ASSUME NEW s \in FormsScopes, Forms(s)!IInv
    PROVE  Forms(s)!RunsWhatItShows
BY FormsOfToken DEF Forms!RunsWhatItShows, Forms!RunsOnce, Forms!ShowsParams

\* What it says of what is cancelled.
LEMMA FormsCancelTruly ==
    ASSUME NEW s \in FormsScopes, Forms(s)!IInv
    PROVE  Forms(s)!CancelIsTrue
<1>1. v7 \subseteq s.tokens
  BY DEF Forms!IInv, Forms!Shape
<1>2. ASSUME NEW t \in v7 \ v9
      PROVE  /\ v6[t] = <<>>
             /\ \A c \in s.clicks : ~(v4[c].pc = "run" /\ v4[c].token = t)
  <2>1. t \in s.tokens /\ Forms(s)!Cancelled(t)
    BY <1>1, FormsOfToken
  <2> QED BY <2>1 DEF Forms!Cancelled, Forms!Unrun, Forms!Runs, Forms!Has
<1> QED BY <1>2 DEF Forms!CancelIsTrue

\* A form that is said to be cancelled does not run (cancel_action, execute_action).
THEOREM CancelsAreTrue == Spec => []CancelIsTrue
<1> DEFINE I == \A s \in FormsScopes : Is("forms", s) => Forms(s)!IInv
<1>1. I => CancelIsTrue
  BY FormsCancelTruly DEF CancelIsTrue
<1> HIDE DEF I
<1>2. Spec => []I
  BY FormsInvariant DEF I
<1> QED BY <1>1, <1>2, PTL

-----------------------------------------------------------------------------
(* What the pages, the menus and the forms promise together                 *)

\* The page on the screen is the one the entry is at (page_tasks, plugins).
THEOREM PagesAgree == Spec => []PageAgrees
<1> DEFINE I == \A s \in PagesScopes : Is("pages", s) => Pages(s)!IInv
           J == \A s \in MenusScopes : Is("menus", s) => Menus(s)!IInv
<1>1. I /\ J => PageAgrees
  BY PagesAgreeOnScreen, MenusAgreeOnScreen DEF PageAgrees
<1> HIDE DEF I, J
<1>2. Spec => []I
  BY PagesInvariant DEF I
<1>3. Spec => []J
  BY MenusInvariant DEF J
<1> QED BY <1>1, <1>2, <1>3, PTL

\* What runs is what the card showed, a form once (execute_action, the menus).
THEOREM RunsAreShown == Spec => []RunsWhatItShows
<1> DEFINE I == \A s \in FormsScopes : Is("forms", s) => Forms(s)!IInv
           J == \A s \in MenusScopes : Is("menus", s) => Menus(s)!IInv
<1>1. I /\ J => RunsWhatItShows
  BY FormsRunWhatTheyShow, MenusRunWhatTheyShow DEF RunsWhatItShows
<1> HIDE DEF I, J
<1>2. Spec => []I
  BY FormsInvariant DEF I
<1>3. Spec => []J
  BY MenusInvariant DEF J
<1> QED BY <1>1, <1>2, <1>3, PTL
=============================================================================
