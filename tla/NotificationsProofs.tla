------------------------- MODULE NotificationsProofs -------------------------
(***************************************************************************)
(* Proofs about Notifications, for any number of notifications, users and  *)
(* requests: type correctness, Forward, Announced, Coherence, and that the *)
(* cache of unread counts implements ReadThrough.                          *)
(***************************************************************************)
EXTENDS Notifications, FiniteSetTheorems, TLAPS

-----------------------------------------------------------------------------
(* Type correctness *)

\* Which requests are at which stage, and when they hold a count.
ShapeOf(p) ==
  /\ pc[p] # "idle" =>
       job[p] \in Job /\ (job[p].kind = "count" <=> pc[p] \in {"look", "count", "fill"})
  /\ pc[p] \in {"insert", "announce"} => job[p].kind = "create"
  /\ pc[p] \in {"guard", "find"} => job[p].kind \in {"read", "delete"}
  /\ pc[p] \in {"findOne", "save"} => job[p].kind = "read"
  /\ pc[p] = "remove" => job[p].kind = "delete"
  /\ pc[p] \in {"match", "mark", "collect"} => job[p].kind = "readAll"
  /\ loc[p].count # None <=> pc[p] = "fill"

Shape == \A p \in Handlers : ShapeOf(p)

\* n is the id of a notification there is or was, of u while there is one.
Of(n, u) == n \in Notes \ fresh /\ (Exists(n) => note[n].user = u)

\* A request names a notification of the user it is about.
RefersTo(p) ==
  /\ pc[p] # "idle" /\ job[p].kind \in {"read", "delete"} => Of(job[p].id, job[p].user)
  /\ pc[p] # "idle" /\ pc[p] # "insert" /\ job[p].kind = "create"
       => Of(job[p].id, job[p].user)
  /\ pc[p] = "mark" => \A n \in loc[p].todo : Of(n, job[p].user)

References == \A p \in Handlers : RefersTo(p)

\* A fresh id has no notification.
Blank == \A n \in fresh : ~Exists(n)

TInv == TypeOK /\ Shape /\ References /\ Blank

LEMMA NoLocalsType == NoLocals \in Locals /\ NoLocals.count = None
  BY DEF NoLocals, Locals

LEMMA CardinalityCounts ==
  ASSUME NEW S \in SUBSET Notes PROVE Cardinality(S) \in Counts /\ Cardinality(S) # None
<1>1. IsFiniteSet(S) /\ Cardinality(S) <= Cardinality(Notes)
  BY ConstantsAssumption, FS_Subset
<1>2. Cardinality(S) \in Nat /\ Cardinality(Notes) \in Nat
  BY <1>1, ConstantsAssumption, FS_CardinalityType
<1> QED
  BY <1>1, <1>2, ConstantsAssumption DEF Counts

LEMMA CountType == ASSUME NEW u \in Users PROVE Unread(u) \in Counts /\ Unread(u) # None
<1>1. {n \in NotesOf(u) : ~note[n].read} \in SUBSET Notes
  BY DEF NotesOf
<1> QED
  BY <1>1, CardinalityCounts DEF Unread

\* What p does to its own control state, with the others left alone.
Others(p) ==
  \A q \in Handlers \ {p} : pc'[q] = pc[q] /\ job'[q] = job[q] /\ loc'[q] = loc[q]

\* No id becomes fresh, and a notification only goes forward.
Advances(n) ==
  /\ ~Exists(n) => ~Exists(n)'
  /\ (Exists(n) /\ Exists(n)') =>
       note'[n].user = note[n].user /\ (note[n].read => note'[n].read)

Advance == fresh' \subseteq fresh /\ \A n \in Notes \ fresh : Advances(n)

LEMMA AdvanceSame == TypeOK /\ UNCHANGED <<note, fresh>> => Advance
  BY DEF Advance, Advances, Exists

LEMMA ArriveKeeps ==
  ASSUME NEW p \in Handlers, Arrive(p)
  PROVE  UNCHANGED <<note, fresh, cache, loc, sent, silent>>
  BY DEF Arrive, GetUnreadCount, Create, MarkAsReadAll, Request, Enter

LEMMA StepAdvances == ASSUME TypeOK, Shape, [Next]_vars PROVE Advance
<1>1. ASSUME NEW p \in Handlers, Arrive(p) PROVE Advance
  BY <1>1, ArriveKeeps, AdvanceSame
<1>2. ASSUME NEW p \in Handlers, Step(p) PROVE Advance
  <2>1. CASE Insert(p)
    BY <2>1 DEF Insert, TypeOK, Advance, Advances, Exists
  <2>2. CASE Save(p)
    <3>1. CASE Exists(job[p].id)
      <4>1. /\ note[job[p].id] # None
            /\ note' = [note EXCEPT ![job[p].id].read = TRUE] /\ fresh' = fresh
        BY <2>2, <3>1 DEF Save, Exists
      <4> QED
        BY <4>1 DEF TypeOK, Note, Advance, Advances, Exists
    <3>2. CASE ~Exists(job[p].id)
      BY <2>2, <3>2, AdvanceSame DEF Save
    <3> QED
      BY <3>1, <3>2
  <2>3. CASE Mark(p)
    <3>1. CASE UNCHANGED note
      BY <2>3, <3>1, AdvanceSame DEF Mark
    <3>2. ASSUME NEW n \in loc[p].todo, Exists(n), note' = [note EXCEPT ![n].read = TRUE]
          PROVE  Advance
      BY <2>3, <3>2 DEF Mark, TypeOK, Note, Advance, Advances, Exists
    <3> QED
      BY <2>3, <3>1, <3>2 DEF Mark
  <2>4. CASE Remove(p)
    BY <2>4 DEF Remove, TypeOK, Advance, Advances, Exists
  <2>5. CASE Look(p) \/ Count(p) \/ Fill(p) \/ Announce(p) \/ Guard(p) \/ Find(p)
             \/ Drop(p) \/ FindOne(p) \/ Match(p) \/ Collect(p)
    BY <2>5, AdvanceSame
       DEF Look, Count, Fill, Announce, Guard, Find, Drop, FindOne, Match, Collect
  <2> QED
    BY <1>2, <2>1, <2>2, <2>3, <2>4, <2>5 DEF Step
<1>3. ASSUME NEW p \in Handlers, Abort(p) PROVE Advance
  BY <1>3, AdvanceSame DEF Abort
<1>4. ASSUME NEW u \in Users, Expire(u) PROVE Advance
  BY <1>4, AdvanceSame DEF Expire
<1>5. CASE UNCHANGED vars
  BY <1>5, AdvanceSame DEF vars
<1> QED
  BY <1>1, <1>2, <1>3, <1>4, <1>5 DEF Next

LEMMA OfKept ==
  ASSUME Advance, NEW n, NEW u, Of(n, u) PROVE Of(n, u)'
  BY DEF Advance, Advances, Of, Exists

LEMMA ShapeFrame ==
  ASSUME TInv, Advance, NEW p \in Handlers, Others(p), ShapeOf(p)', RefersTo(p)'
  PROVE  Shape' /\ References'
<1>1. Shape'
  BY DEF TInv, Shape, ShapeOf, Others
<1>2. ASSUME NEW q \in Handlers \ {p} PROVE RefersTo(q)'
  <2>1. RefersTo(q) /\ pc'[q] = pc[q] /\ job'[q] = job[q] /\ loc'[q] = loc[q]
    BY DEF TInv, References, Others
  <2> QED
    BY <2>1, OfKept DEF RefersTo
<1> QED
  BY <1>1, <1>2 DEF References

LEMMA FinishType ==
  ASSUME TInv, Advance, NEW p \in Handlers, Finish(p)
  PROVE  /\ pc' \in [Handlers -> Stages] /\ job' \in [Handlers -> Job \cup {None}]
         /\ loc' \in [Handlers -> Locals] /\ Shape' /\ References'
         /\ Others(p) /\ pc'[p] = "idle" /\ loc'[p] = NoLocals
<1>1. /\ pc' \in [Handlers -> Stages] /\ job' \in [Handlers -> Job \cup {None}]
      /\ loc' \in [Handlers -> Locals]
      /\ Others(p) /\ pc'[p] = "idle" /\ loc'[p] = NoLocals
  BY NoLocalsType DEF TInv, TypeOK, Finish, Goto, Stages, Others
<1>2. ShapeOf(p)' /\ RefersTo(p)'
  BY <1>1, NoLocalsType DEF ShapeOf, RefersTo
<1> QED
  BY <1>1, <1>2, ShapeFrame

\* A request that goes to another stage with the same job and locals.
LEMMA GotoType ==
  ASSUME TInv, NEW p \in Handlers, NEW stage \in Stages, Goto(p, stage), UNCHANGED <<job, loc>>
  PROVE  /\ pc' \in [Handlers -> Stages] /\ job' \in [Handlers -> Job \cup {None}]
         /\ loc' \in [Handlers -> Locals]
         /\ Others(p) /\ pc'[p] = stage /\ job'[p] = job[p] /\ loc'[p] = loc[p]
  BY DEF TInv, TypeOK, Goto, Others

LEMMA EnterType ==
  ASSUME TInv, NEW p \in Handlers, NEW j \in Job, NEW stage \in Stages, Enter(p, j, stage)
  PROVE  /\ pc[p] = "idle" /\ pc' \in [Handlers -> Stages]
         /\ job' \in [Handlers -> Job \cup {None}]
         /\ loc' \in [Handlers -> Locals] /\ dirty' \in [Users -> BOOLEAN]
         /\ Others(p) /\ pc'[p] = stage /\ job'[p] = j /\ loc'[p].count = None
         /\ UNCHANGED <<note, fresh, cache, sent, silent>>
<1>1. /\ pc' \in [Handlers -> Stages] /\ job' \in [Handlers -> Job \cup {None}]
      /\ loc' \in [Handlers -> Locals] /\ Others(p) /\ pc'[p] = stage /\ job'[p] = j
      /\ pc[p] = "idle" /\ loc' = loc /\ UNCHANGED <<note, fresh, cache, sent, silent>>
  BY DEF TInv, TypeOK, Enter, Goto, Others
<1>2. loc'[p].count = None
  BY <1>1 DEF TInv, Shape, ShapeOf
<1>3. dirty' \in [Users -> BOOLEAN]
  BY DEF Enter, TInv, TypeOK, Collides, Busy, WorksFor
<1> QED
  BY <1>1, <1>2, <1>3

\* The job and the first stage of a request that arrives.
Begins(p, j, stage) ==
  /\ Enter(p, j, stage) /\ j \in Job
  /\ \/ j.kind = "count" /\ stage = "look"
     \/ j.kind = "create" /\ stage = "insert"
     \/ j.kind = "readAll" /\ stage = "drop"
     \/ j.kind \in {"read", "delete"} /\ stage = "guard" /\ Of(j.id, j.user)

LEMMA ArriveBegins ==
  ASSUME TInv, NEW p \in Handlers, Arrive(p)
  PROVE  \E j \in Job, stage \in Stages : Begins(p, j, stage)
<1>1. ASSUME NEW u \in Users, GetUnreadCount(p, u)
      PROVE  \E j \in Job, stage \in Stages : Begins(p, j, stage)
  BY <1>1 DEF GetUnreadCount, Begins, Job, Kinds, Stages
<1>2. ASSUME NEW u \in Users, Create(p, u)
      PROVE  \E j \in Job, stage \in Stages : Begins(p, j, stage)
  BY <1>2 DEF Create, Begins, Job, Kinds, Stages
<1>3. ASSUME NEW u \in Users, MarkAsReadAll(p, u)
      PROVE  \E j \in Job, stage \in Stages : Begins(p, j, stage)
  BY <1>3 DEF MarkAsReadAll, Begins, Job, Kinds, Stages
<1>4. ASSUME NEW u \in Users, NEW n \in Notes, NEW kind \in Kinds, Request(p, kind, n, u)
      PROVE  \E j \in Job, stage \in Stages : Begins(p, j, stage)
  <2> DEFINE v == IF Exists(n) THEN note[n].user ELSE u
             j == [kind |-> kind, id |-> n, by |-> u, user |-> v]
  <2>1. v \in Users
    BY DEF Exists, TInv, TypeOK, Note
  <2>2. j \in Job /\ j.kind \in {"read", "delete"} /\ j.id = n /\ j.user = v
    BY <1>4, <2>1 DEF Job, Request
  <2>3. Of(j.id, j.user)
    BY <1>4, <2>2 DEF Of, Request
  <2>4. Enter(p, j, "guard")
    BY <1>4 DEF Request
  <2> HIDE DEF j
  <2> QED
    BY <2>2, <2>3, <2>4 DEF Begins, Stages
<1> QED
  BY <1>1, <1>2, <1>3, <1>4 DEF Arrive

LEMMA TypeInit == Init => TInv
<1> SUFFICES ASSUME Init PROVE TInv
  OBVIOUS
<1>1. TypeOK
  BY NoLocalsType DEF Init, TypeOK, Stages
<1>2. Shape /\ References /\ Blank
  BY DEF Init, Shape, ShapeOf, NoLocals, References, RefersTo, Blank, Exists
<1> QED
  BY <1>1, <1>2 DEF TInv

\* Every step keeps the types: one step of the proof per action.
LEMMA TypeStep == TInv /\ [Next]_vars => TInv'
<1> SUFFICES ASSUME TInv, [Next]_vars PROVE TInv'
  OBVIOUS
<1>0. Advance
  BY StepAdvances DEF TInv
<1> USE DEF TInv
<1>1. ASSUME NEW p \in Handlers, Arrive(p) PROVE TInv'
  <2>1. PICK j \in Job, stage \in Stages : Begins(p, j, stage)
    BY <1>1, ArriveBegins
  <2>2. /\ pc[p] = "idle" /\ pc' \in [Handlers -> Stages]
        /\ job' \in [Handlers -> Job \cup {None}]
        /\ loc' \in [Handlers -> Locals] /\ dirty' \in [Users -> BOOLEAN]
        /\ Others(p) /\ pc'[p] = stage /\ job'[p] = j /\ loc'[p].count = None
        /\ UNCHANGED <<note, fresh, cache, sent, silent>>
    BY <2>1, EnterType DEF Begins
  <2>3. ShapeOf(p)' /\ RefersTo(p)'
    BY <2>1, <2>2 DEF Begins, ShapeOf, RefersTo, Of, Exists
  <2> QED
    BY <1>0, <2>2, <2>3, ShapeFrame DEF TypeOK, Blank, Exists
<1>2. ASSUME NEW p \in Handlers, Step(p) PROVE TInv'
  <2>0. /\ pc[p] # "idle" => job[p] \in Job /\ job[p].user \in Users /\ ShapeOf(p)
        /\ RefersTo(p) /\ loc[p] \in Locals
    BY DEF Shape, ShapeOf, References, Job, TypeOK
  \* The request is answered and the stores of notifications stay.
  <2>1. CASE Finish(p) /\ UNCHANGED <<note, fresh, silent, dirty>>
             /\ cache' \in [Users -> Counts \cup {None}] /\ sent' \subseteq Events \X Notes
    BY <1>0, <2>1, FinishType DEF TypeOK, Blank, Exists
  \* The request goes on with what it has.
  <2>2. ASSUME NEW stage \in Stages, Goto(p, stage), UNCHANGED <<job, loc>>, stage # "idle",
               UNCHANGED <<note, fresh, silent, dirty>>,
               cache' \in [Users -> Counts \cup {None}], sent' \subseteq Events \X Notes,
               ShapeOf(p)', RefersTo(p)'
        PROVE  TInv'
    BY <1>0, <2>2, GotoType, ShapeFrame DEF TypeOK, Blank, Exists
  <2>3. CASE Look(p)
    <3>1. CASE Finish(p)
      BY <2>1, <2>3, <3>1 DEF Look, TypeOK
    <3>2. CASE Goto(p, "count") /\ UNCHANGED <<job, loc>>
      <4>1. ShapeOf(p)' /\ RefersTo(p)'
        BY <2>0, <2>3, <3>2, GotoType DEF Look, ShapeOf, RefersTo, Stages
      <4> QED
        BY <2>2, <2>3, <3>2, <4>1 DEF Look, TypeOK, Stages
    <3> QED
      BY <2>3, <3>1, <3>2 DEF Look
  <2>4. CASE Count(p)
    <3> DEFINE c == Unread(job[p].user)
    <3>1. c \in Counts /\ c # None
      BY <2>0, <2>4, CountType DEF Count
    <3> HIDE DEF c
    <3>2. loc' = [loc EXCEPT ![p].count = c]
      BY <2>4 DEF Count, c
    <3>3. loc' \in [Handlers -> Locals] /\ loc'[p].count = c
      BY <3>1, <3>2 DEF TypeOK, Locals
    <3>4. /\ pc' \in [Handlers -> Stages] /\ Others(p) /\ pc'[p] = "fill" /\ job' = job
          /\ UNCHANGED <<note, fresh, cache, sent, silent, dirty>>
      BY <2>4, <3>2 DEF Count, Goto, TypeOK, Stages, Others
    <3>5. ShapeOf(p)' /\ RefersTo(p)'
      BY <2>0, <2>4, <3>1, <3>3, <3>4 DEF Count, ShapeOf, RefersTo
    <3> QED
      BY <1>0, <3>3, <3>4, <3>5, ShapeFrame DEF TypeOK, Blank, Exists
  <2>5. CASE Fill(p)
    <3>1. loc[p].count \in Counts \cup {None}
      BY <2>0 DEF Locals
    <3> QED
      BY <2>0, <2>1, <2>5, <3>1 DEF Fill, TypeOK
  <2>6. CASE Insert(p)
    <3>1. PICK n \in fresh :
            /\ note' = [note EXCEPT ![n] = [user |-> job[p].user, read |-> FALSE]]
            /\ fresh' = fresh \ {n}
            /\ job' = [job EXCEPT ![p].id = n]
      BY <2>6 DEF Insert
    <3>2. job[p] \in Job /\ job[p].user \in Users /\ job[p].kind = "create"
      BY <2>0, <2>6 DEF Insert, ShapeOf
    <3>3. n \in Notes /\ [user |-> job[p].user, read |-> FALSE] \in Note
      BY <3>2 DEF TypeOK, Note
    <3>4. /\ [job[p] EXCEPT !.id = n] \in Job /\ [job[p] EXCEPT !.id = n].id = n
          /\ [job[p] EXCEPT !.id = n].kind = "create"
          /\ [job[p] EXCEPT !.id = n].user = job[p].user
      BY <3>2, <3>3 DEF Job
    <3>5. job' = [job EXCEPT ![p] = [job[p] EXCEPT !.id = n]]
      BY <3>1 DEF TypeOK
    <3>6. /\ job' \in [Handlers -> Job \cup {None}] /\ job'[p] = [job[p] EXCEPT !.id = n]
          /\ pc' \in [Handlers -> Stages] /\ Others(p) /\ pc'[p] = "announce" /\ loc' = loc
          /\ UNCHANGED <<cache, sent, silent, dirty>>
      BY <2>6, <3>4, <3>5 DEF Insert, Goto, TypeOK, Stages, Others
    <3>7. /\ note' \in [Notes -> Note \cup {None}] /\ fresh' \subseteq Notes /\ n \notin fresh'
          /\ note'[n] = [user |-> job[p].user, read |-> FALSE]
          /\ \A m \in fresh' : note'[m] = note[m]
      BY <3>1, <3>3 DEF TypeOK
    <3>8. Blank'
      BY <3>1, <3>7 DEF Blank, Exists
    <3>9. ShapeOf(p)'
      BY <2>0, <2>6, <3>4, <3>6 DEF Insert, ShapeOf
    <3>10. RefersTo(p)'
      BY <3>3, <3>4, <3>6, <3>7 DEF RefersTo, Of
    <3> QED
      BY <1>0, <3>6, <3>7, <3>8, <3>9, <3>10, ShapeFrame DEF TypeOK
  <2>7. CASE Announce(p)
    <3>1. job[p].id \in Notes /\ job[p].kind = "create"
      BY <2>0, <2>7 DEF Announce, ShapeOf, RefersTo, Of
    <3>2. ShapeOf(p)' /\ RefersTo(p)'
      BY <2>0, <2>7, <3>1, GotoType DEF Announce, ShapeOf, RefersTo, Stages, Of, Exists
    <3> QED
      BY <2>2, <2>7, <3>1, <3>2 DEF Announce, TypeOK, Stages, Events
  <2>8. CASE Guard(p)
    <3>1. CASE Finish(p)
      BY <2>1, <2>8, <3>1 DEF Guard, TypeOK
    <3>2. CASE Goto(p, "find") /\ UNCHANGED <<job, loc>>
      <4>1. ShapeOf(p)' /\ RefersTo(p)'
        BY <2>0, <2>8, <3>2, GotoType DEF Guard, ShapeOf, RefersTo, Stages, Of, Exists
      <4> QED
        BY <2>2, <2>8, <3>2, <4>1 DEF Guard, TypeOK, Stages
    <3> QED
      BY <2>8, <3>1, <3>2 DEF Guard
  <2>9. CASE Find(p)
    <3>1. /\ job[p].id \in Notes /\ job[p].kind \in {"read", "delete"}
          /\ UNCHANGED <<note, fresh, cache, job, loc, silent, dirty>>
      BY <2>0, <2>9 DEF Find, ShapeOf, RefersTo, Of
    <3>2. sent' \subseteq Events \X Notes
      BY <2>9, <3>1 DEF Find, TypeOK, Events
    <3>3. PICK stage \in {"findOne", "remove", "drop"} :
            /\ Goto(p, stage) /\ (stage = "findOne" => job[p].kind = "read")
            /\ (stage = "remove" => job[p].kind = "delete")
      BY <2>9 DEF Find
    <3>4. ShapeOf(p)' /\ RefersTo(p)'
      BY <2>0, <2>9, <3>1, <3>3, GotoType DEF Find, ShapeOf, RefersTo, Stages, Of, Exists
    <3> QED
      BY <2>2, <3>1, <3>2, <3>3, <3>4 DEF TypeOK, Stages
  <2>10. CASE Drop(p)
    <3>1. cache' \in [Users -> Counts \cup {None}] /\ UNCHANGED <<note, fresh, silent, dirty>>
      BY <2>10 DEF Drop, TypeOK
    <3>2. job[p].kind \in {"read", "delete"} => job[p].id \in Notes
      BY <2>0, <2>10 DEF Drop, RefersTo, Of
    <3>3. sent' \subseteq Events \X Notes
      BY <2>10, <3>2 DEF Drop, TypeOK, Events
    <3>4. CASE Finish(p)
      BY <2>1, <3>1, <3>3, <3>4
    <3>5. ASSUME NEW stage \in {"findOne", "remove", "match"}, Goto(p, stage),
                 UNCHANGED <<job, loc>>, stage = "findOne" => job[p].kind = "read",
                 stage = "remove" => job[p].kind = "delete",
                 stage = "match" => job[p].kind = "readAll"
          PROVE  TInv'
      <4>1. ShapeOf(p)' /\ RefersTo(p)'
        BY <2>0, <2>10, <3>1, <3>5, GotoType DEF Drop, ShapeOf, RefersTo, Stages, Of, Exists
      <4> QED
        BY <2>2, <3>1, <3>3, <3>5, <4>1 DEF Stages
    <3> QED
      BY <2>10, <3>4, <3>5 DEF Drop
  <2>11. CASE FindOne(p)
    <3>1. CASE Finish(p)
      BY <2>1, <2>11, <3>1 DEF FindOne, TypeOK
    <3>2. CASE Goto(p, "save") /\ UNCHANGED <<job, loc>>
      <4>1. ShapeOf(p)' /\ RefersTo(p)'
        BY <2>0, <2>11, <3>2, GotoType DEF FindOne, ShapeOf, RefersTo, Stages, Of, Exists
      <4> QED
        BY <2>2, <2>11, <3>2, <4>1 DEF FindOne, TypeOK, Stages
    <3> QED
      BY <2>11, <3>1, <3>2 DEF FindOne
  <2>12. CASE Save(p)
    <3>1. note' \in [Notes -> Note \cup {None}]
      BY <2>12 DEF Save, TypeOK, Note, Exists
    <3>2. Finish(p) /\ UNCHANGED <<fresh, cache, sent, silent, dirty>>
      BY <2>12 DEF Save
    <3>3. \A n \in fresh : note'[n] = note[n]
      BY <2>0, <2>12 DEF Save, ShapeOf, RefersTo, Of, TypeOK
    <3> QED
      BY <1>0, <3>1, <3>2, <3>3, FinishType DEF TypeOK, Blank, Exists
  <2>13. CASE Match(p)
    <3>1. NotesOf(job[p].user) \subseteq Notes
      BY DEF NotesOf
    <3>2. \A n \in NotesOf(job[p].user) : Of(n, job[p].user)
      BY DEF NotesOf, Of, Blank
    <3> DEFINE todo == NotesOf(job[p].user)
    <3> HIDE DEF todo
    <3>3. loc' = [loc EXCEPT ![p].todo = todo]
      BY <2>13 DEF Match, todo
    <3>4. loc' \in [Handlers -> Locals] /\ loc'[p].count = loc[p].count /\ loc'[p].todo = todo
      BY <3>1, <3>3 DEF TypeOK, Locals, todo
    <3>5. /\ pc' \in [Handlers -> Stages] /\ Others(p) /\ pc'[p] = "mark" /\ job' = job
          /\ UNCHANGED <<note, fresh, cache, sent, silent, dirty>>
      BY <2>13, <3>3 DEF Match, Goto, TypeOK, Stages, Others
    <3>6. ShapeOf(p)' /\ RefersTo(p)'
      BY <2>0, <2>13, <3>2, <3>4, <3>5 DEF Match, ShapeOf, RefersTo, Of, Exists, todo
    <3> QED
      BY <1>0, <3>4, <3>5, <3>6, ShapeFrame DEF TypeOK, Blank, Exists
  <2>14. CASE Mark(p)
    <3>1. CASE loc[p].todo = {} /\ Goto(p, "collect") /\ UNCHANGED <<note, loc>>
      <4>1. UNCHANGED <<job, fresh, cache, sent, silent, dirty>>
        BY <2>14 DEF Mark
      <4>2. ShapeOf(p)' /\ RefersTo(p)'
        BY <2>0, <2>14, <3>1, <4>1, GotoType DEF Mark, ShapeOf, RefersTo, Stages
      <4> QED
        BY <2>2, <3>1, <4>1, <4>2 DEF TypeOK, Stages
    <3>2. ASSUME NEW n \in loc[p].todo, pc' = pc,
                 loc' = [loc EXCEPT ![p].todo = @ \ {n}],
                 \/ Exists(n) /\ note' = [note EXCEPT ![n].read = TRUE]
                 \/ ~Exists(n) /\ UNCHANGED note
          PROVE  TInv'
      <4>1. /\ loc' \in [Handlers -> Locals] /\ loc'[p].count = loc[p].count
            /\ loc'[p].todo = loc[p].todo \ {n}
        BY <3>2 DEF TypeOK, Locals
      <4>2. /\ Others(p) /\ pc'[p] = pc[p] /\ job' = job
            /\ UNCHANGED <<fresh, cache, sent, silent, dirty>> /\ pc[p] = "mark"
        BY <2>14, <3>2 DEF Mark, Others, TypeOK
      <4>3. n \in Notes \ fresh
        BY <2>0, <4>2 DEF RefersTo, Of
      <4>4. note' \in [Notes -> Note \cup {None}] /\ \A m \in fresh : note'[m] = note[m]
        BY <3>2, <4>3 DEF TypeOK, Note, Exists
      <4>5. RefersTo(p)'
        <5>1. job[p].kind = "readAll" /\ \A m \in loc[p].todo : Of(m, job[p].user)
          BY <2>0, <4>2 DEF RefersTo, ShapeOf
        <5>2. \A m \in loc[p].todo : Of(m, job[p].user)'
          BY <1>0, <4>2, <5>1 DEF Advance, Advances, Of, Exists
        <5> QED
          BY <4>1, <4>2, <5>1, <5>2 DEF RefersTo
      <4>6. ShapeOf(p)'
        BY <2>0, <4>1, <4>2 DEF ShapeOf
      <4> QED
        BY <1>0, <3>2, <4>1, <4>2, <4>4, <4>5, <4>6, ShapeFrame DEF TypeOK, Blank, Exists
    <3> QED
      BY <2>14, <3>1, <3>2 DEF Mark
  <2>15. CASE Collect(p)
    <3>1. {"updated"} \X NotesOf(job[p].user) \subseteq Events \X Notes
      BY DEF NotesOf, Events
    <3> QED
      BY <2>1, <2>15, <3>1 DEF Collect, TypeOK
  <2>16. CASE Remove(p)
    <3>1. note' \in [Notes -> Note \cup {None}]
      BY <2>16 DEF Remove, TypeOK
    <3>2. Finish(p) /\ UNCHANGED <<fresh, cache, sent, silent, dirty>>
      BY <2>16 DEF Remove
    <3>3. \A n \in fresh : note'[n] = note[n]
      BY <2>0, <2>16 DEF Remove, ShapeOf, RefersTo, Of, TypeOK
    <3> QED
      BY <1>0, <3>1, <3>2, <3>3, FinishType DEF TypeOK, Blank, Exists
  <2> QED
    BY <1>2, <2>3, <2>4, <2>5, <2>6, <2>7, <2>8, <2>9, <2>10, <2>11, <2>12, <2>13, <2>14,
       <2>15, <2>16 DEF Step
<1>3. ASSUME NEW p \in Handlers, Abort(p) PROVE TInv'
  <2>1. Owes(p) \subseteq Notes
    BY <1>3 DEF Abort, Owes, NotesOf, Shape, ShapeOf, References, RefersTo, Of
  <2>2. dirty' \in [Users -> BOOLEAN]
    BY <1>3 DEF Abort, TypeOK
  <2> QED
    BY <1>0, <1>3, <2>1, <2>2, FinishType DEF Abort, TypeOK, Blank, Exists
<1>4. ASSUME NEW u \in Users, Expire(u) PROVE TInv'
  BY <1>4 DEF Expire, TypeOK, Shape, ShapeOf, References, RefersTo, Of, Exists, Blank
<1>5. CASE UNCHANGED vars
  BY <1>5 DEF vars, TypeOK, Shape, ShapeOf, References, RefersTo, Of, Exists, Blank
<1> QED
  BY <1>1, <1>2, <1>3, <1>4, <1>5 DEF Next

LEMMA Typed == Spec => []TInv
  BY TypeInit, TypeStep, PTL DEF Spec

\* Every reachable state is well typed: whatever requests arrive about whatever
\* notifications, documents, counts, local variables and events stay what the
\* code declares them to be.
THEOREM TypeCorrect == Spec => []TypeOK
<1>1. TInv => TypeOK
  BY DEF TInv
<1> QED
  BY <1>1, Typed, PTL

-----------------------------------------------------------------------------
(* Forward *)

\* A notification only goes forward, whatever requests for it are in flight:
\* the find and the update of updateIsRead are two queries, and neither brings
\* back what was deleted between them.
THEOREM OnlyForward == Spec => Forward
<1> DEFINE Goes ==
      \A n \in Notes \ fresh :
        /\ ~Exists(n) => ~Exists(n)'
        /\ (Exists(n) /\ Exists(n)') =>
             note'[n].user = note[n].user /\ (note[n].read => note'[n].read)
<1>1. TInv /\ [Next]_vars => [Goes]_vars
  BY StepAdvances DEF TInv, Advance, Advances
<1>2. Forward <=> [][Goes]_vars
  BY DEF Forward
<1> QED
  BY <1>1, <1>2, Typed, PTL DEF Spec

-----------------------------------------------------------------------------
(* Announced *)

Told(event, n) == <<event, n>> \in sent

\* A request has changed n and still has to announce it.
Due(event, n) ==
  \E p \in Handlers : n \in Owes(p) /\ ((event = "created") <=> (job[p].kind = "create"))

Covered(event, n) == Told(event, n) \/ Due(event, n) \/ n \in silent

TellsOf(n) ==
  /\ ~Exists(n) => Told("deleted", n)
  /\ Exists(n) => Covered("created", n)
  /\ Exists(n) /\ note[n].read => Covered("updated", n)

\* An update or a deletion was announced before it is made.
Foretold(p) ==
  /\ pc[p] \in {"findOne", "save"} => Told("updated", job[p].id) \/ ~Exists(job[p].id)
  /\ pc[p] = "remove" => Told("deleted", job[p].id) \/ ~Exists(job[p].id)

AInv ==
  /\ \A n \in Notes \ fresh : TellsOf(n)
  /\ \A p \in Handlers : Foretold(p)

\* A notification that is read stays one of its user.
LEMMA NoteRead ==
  ASSUME TypeOK, NEW n \in Notes, Exists(n), note' = [note EXCEPT ![n].read = TRUE]
  PROVE  /\ Exists(n)' /\ note'[n].read = TRUE /\ note'[n].user = note[n].user
         /\ \A m \in Notes : m # n => note'[m] = note[m]
<1>1. note[n] \in Note
  BY DEF TypeOK, Exists
<1>2. [note[n] EXCEPT !.read = TRUE] \in Note
  BY <1>1 DEF Note
<1>3. note' = [note EXCEPT ![n] = [note[n] EXCEPT !.read = TRUE]]
  BY DEF TypeOK
<1>4. note'[n] = [note[n] EXCEPT !.read = TRUE]
  BY <1>3 DEF TypeOK
<1>5. note'[n] \in Note
  BY <1>2, <1>4
<1>6. Exists(n)'
  BY <1>5, ConstantsAssumption DEF Exists, Note
<1>7. note'[n].read = TRUE /\ note'[n].user = note[n].user
  BY <1>1, <1>4 DEF Note
<1> QED
  BY <1>3, <1>6, <1>7 DEF TypeOK

LEMMA TellsInit == Init => AInv
  BY DEF Init, AInv, Foretold

\* What others owe, they still owe.
LEMMA OwesFrame ==
  ASSUME Advance, NEW p \in Handlers, Others(p), NEW q \in Handlers \ {p},
         NEW n \in Notes \ fresh, n \in Owes(q), Exists(n)'
  PROVE  n \in Owes(q)' /\ job'[q] = job[q]
<1>1. pc'[q] = pc[q] /\ job'[q] = job[q] /\ loc'[q] = loc[q]
  BY DEF Others
<1>2. Exists(n) /\ note'[n].user = note[n].user
  BY DEF Advance, Advances
<1> QED
  BY <1>1, <1>2 DEF Owes, NotesOf

\* What p has announced, owes or leaves behind silently stays covered.
LEMMA CoveredFrame ==
  ASSUME Advance, NEW p \in Handlers, Others(p), sent \subseteq sent', silent \subseteq silent',
         NEW n \in Notes \ fresh, NEW event \in {"created", "updated"}, Covered(event, n), Exists(n)',
         n \in Owes(p) /\ ((event = "created") <=> (job[p].kind = "create"))
           => Covered(event, n)'
  PROVE  Covered(event, n)'
<1>1. CASE Told(event, n) \/ n \in silent
  BY <1>1 DEF Covered, Told
<1>2. ASSUME NEW q \in Handlers, n \in Owes(q),
             (event = "created") <=> (job[q].kind = "create")
      PROVE  Covered(event, n)'
  <2>1. CASE q = p
    BY <1>2, <2>1
  <2>2. CASE q # p
    BY <1>2, <2>2, OwesFrame DEF Covered, Due
  <2> QED
    BY <2>1, <2>2
<1> QED
  BY <1>1, <1>2 DEF Covered, Due

LEMMA ForetoldFrame ==
  ASSUME TInv, Advance, NEW p \in Handlers, Others(p), sent \subseteq sent', AInv,
         NEW q \in Handlers \ {p}
  PROVE  Foretold(q)'
<1>1. pc'[q] = pc[q] /\ job'[q] = job[q] /\ Foretold(q) /\ RefersTo(q) /\ ShapeOf(q)
  BY DEF Others, AInv, TInv, References, Shape
<1>2. pc[q] \in {"findOne", "save", "remove"} => job[q].id \in Notes \ fresh
  BY <1>1 DEF RefersTo, Of, ShapeOf
<1>3. \A n \in Notes \ fresh : note[n] = None => note'[n] = None
  BY DEF Advance, Advances, Exists
<1> QED
  BY <1>1, <1>2, <1>3 DEF Foretold, Told, Exists

\* A step of p keeps AInv if it leaves covered what p owed, announces what it
\* reads or deletes, and creates nothing.
LEMMA TellsFrame ==
  ASSUME TInv, TInv', Advance, AInv, NEW p \in Handlers, Others(p),
         sent \subseteq sent', silent \subseteq silent', fresh' = fresh, Foretold(p)',
         \A n \in Notes \ fresh, event \in {"created", "updated"} :
           n \in Owes(p) /\ Exists(n)' /\ ((event = "created") <=> (job[p].kind = "create"))
             => Covered(event, n)',
         \A n \in Notes \ fresh :
           /\ Exists(n) /\ ~Exists(n)' => Told("deleted", n)'
           /\ Exists(n)' /\ ~note[n].read /\ note'[n].read => Covered("updated", n)'
  PROVE  AInv'
<1>1. ASSUME NEW n \in Notes \ fresh PROVE TellsOf(n)'
  <2>1. TellsOf(n)
    BY DEF AInv
  <2>2. ~Exists(n)' => Told("deleted", n)'
    BY <2>1 DEF TellsOf, Told
  <2>3. Exists(n)' => Exists(n)
    BY DEF Advance, Advances
  <2>4. Exists(n)' => Covered("created", n)'
    BY <2>1, <2>3, CoveredFrame DEF TellsOf
  <2>5. Exists(n)' /\ note'[n].read => Covered("updated", n)'
    <3> SUFFICES ASSUME Exists(n)', note'[n].read PROVE Covered("updated", n)'
      OBVIOUS
    <3>1. CASE ~note[n].read
      BY <3>1
    <3>2. CASE note[n].read
      BY <2>1, <2>3, <3>2, CoveredFrame DEF TellsOf
    <3> QED
      BY <3>1, <3>2
  <2> QED
    BY <2>2, <2>4, <2>5 DEF TellsOf
<1> QED
  BY <1>1, ForetoldFrame DEF AInv

\* Where p owes nothing and the notifications stay, only its own
\* announcements matter.
LEMMA TellsQuiet ==
  ASSUME TInv, TInv', Advance, AInv, NEW p \in Handlers, Others(p),
         sent \subseteq sent', silent \subseteq silent', UNCHANGED <<note, fresh>>,
         Owes(p) = {}, Foretold(p)'
  PROVE  AInv'
<1>1. \A n \in Notes \ fresh : (Exists(n) <=> Exists(n)') /\ note'[n] = note[n]
  BY DEF Exists
<1> QED
  BY <1>1, TellsFrame

LEMMA TellsStep == TInv /\ TInv' /\ AInv /\ [Next]_vars => AInv'
<1> SUFFICES ASSUME TInv, TInv', AInv, [Next]_vars PROVE AInv'
  OBVIOUS
<1>0. Advance
  BY StepAdvances DEF TInv
<1>1. ASSUME NEW p \in Handlers, Arrive(p) PROVE AInv'
  <2>1. PICK j \in Job, stage \in Stages : Begins(p, j, stage)
    BY <1>1, ArriveBegins
  <2>2. /\ pc[p] = "idle" /\ Others(p) /\ pc'[p] \in {"look", "insert", "drop", "guard"}
        /\ UNCHANGED <<note, fresh, sent, silent>>
    BY <2>1, EnterType DEF Begins
  <2>3. Owes(p) = {} /\ Foretold(p)'
    BY <2>2 DEF Owes, Foretold
  <2> QED
    BY <1>0, <2>2, <2>3, TellsQuiet
<1>2. ASSUME NEW p \in Handlers, Step(p) PROVE AInv'
  <2>0. ShapeOf(p) /\ RefersTo(p) /\ Foretold(p) /\ p \in DOMAIN pc
    BY DEF TInv, TypeOK, Shape, References, AInv
  <2>1. CASE Look(p) \/ Count(p) \/ Fill(p) \/ Guard(p) \/ FindOne(p)
    <3>1. /\ UNCHANGED <<note, fresh, sent, silent>> /\ Owes(p) = {}
          /\ pc'[p] \in {"idle", "count", "fill", "find", "save"}
          /\ pc'[p] = "save" => pc[p] = "findOne" /\ job' = job
      BY <2>0, <2>1 DEF Look, Count, Fill, Guard, FindOne, Goto, Finish, Owes
    <3>2. Others(p)
      BY <2>1, <1>0 DEF Look, Count, Fill, Guard, FindOne, Goto, Finish, Others, TInv, TypeOK
    <3>3. Foretold(p)'
      BY <2>0, <3>1 DEF Foretold, Told, Exists
    <3> QED
      BY <1>0, <3>1, <3>2, <3>3, TellsQuiet
  <2>2. CASE Insert(p)
    <3>1. PICK n \in fresh :
            /\ note' = [note EXCEPT ![n] = [user |-> job[p].user, read |-> FALSE]]
            /\ fresh' = fresh \ {n} /\ job' = [job EXCEPT ![p].id = n]
      BY <2>2 DEF Insert
    <3>2. /\ Others(p) /\ pc'[p] = "announce" /\ UNCHANGED <<sent, silent>>
          /\ Owes(p) = {} /\ n \in Notes /\ job[p] \in Job /\ job[p].kind = "create"
      BY <2>0, <2>2, <3>1 DEF Insert, Goto, Others, Owes, TInv, TypeOK, ShapeOf
    <3>3. job'[p].id = n /\ job'[p].kind = "create"
      BY <3>1, <3>2 DEF Job, TInv, TypeOK
    <3>4. n \in Owes(p)'
      BY <3>2, <3>3 DEF Owes
    <3>5. note'[n].read = FALSE /\ Exists(n)'
      <4>1. note'[n] = [user |-> job[p].user, read |-> FALSE]
        BY <3>1, <3>2 DEF TInv, TypeOK
      <4>2. note'[n] \in Note
        BY <3>2, <4>1 DEF Note, Job
      <4>3. Exists(n)'
        BY <4>2, ConstantsAssumption DEF Exists, Note
      <4>4. note'[n].read = FALSE
        BY <4>1
      <4> QED
        BY <4>3, <4>4
    <3>6. TellsOf(n)'
      BY <3>3, <3>4, <3>5 DEF TellsOf, Covered, Due
    <3>7. ASSUME NEW m \in Notes \ fresh PROVE TellsOf(m)'
      <4>1. note'[m] = note[m] /\ (Exists(m)' <=> Exists(m)) /\ TellsOf(m)
        BY <3>1, <3>7 DEF TInv, TypeOK, Exists, AInv
      <4>2. \A event \in {"created", "updated"} : Covered(event, m) /\ Exists(m) => Covered(event, m)'
        BY <1>0, <3>2, <4>1, CoveredFrame
      <4> QED
        BY <3>2, <4>1, <4>2 DEF TellsOf, Told
    <3>8. Foretold(p)'
      BY <3>2 DEF Foretold
    <3>9. \A q \in Handlers \ {p} : Foretold(q)'
      BY <1>0, <3>2, ForetoldFrame
    <3> QED
      BY <3>1, <3>6, <3>7, <3>8, <3>9 DEF AInv
  <2>3. CASE Announce(p)
    <3>1. /\ Others(p) /\ pc'[p] = "drop" /\ UNCHANGED <<note, fresh, job, silent>>
          /\ sent' = sent \cup {<<"created", job[p].id>>}
          /\ Owes(p) = {job[p].id} /\ job[p].kind = "create"
      BY <2>0, <2>3 DEF Announce, Goto, Others, Owes, ShapeOf, TInv, TypeOK
    <3>2. \A n \in Notes \ fresh, event \in {"created", "updated"} :
            n \in Owes(p) /\ ((event = "created") <=> (job[p].kind = "create"))
              => Covered(event, n)'
      BY <3>1 DEF Covered, Told
    <3>3. Foretold(p)'
      BY <3>1 DEF Foretold
    <3>4. \A n \in Notes \ fresh : (Exists(n) <=> Exists(n)') /\ note'[n] = note[n]
      BY <3>1 DEF Exists
    <3> QED
      BY <1>0, <3>1, <3>2, <3>3, <3>4, TellsFrame
  <2>4. CASE Find(p)
    <3>1. /\ Others(p) /\ UNCHANGED <<note, fresh, job, silent>> /\ sent \subseteq sent'
          /\ Owes(p) = {}
      BY <2>0, <2>4 DEF Find, Goto, Others, Owes, TInv, TypeOK
    <3>2. Foretold(p)'
      <4>1. CASE ~Exists(job[p].id)
        BY <3>1, <4>1 DEF Foretold, Exists
      <4>2. CASE pc'[p] = "drop"
        BY <4>2 DEF Foretold
      <4>3. CASE sent' = sent \cup {<<"deleted", job[p].id>>} /\ pc'[p] = "remove"
        BY <3>1, <4>3 DEF Foretold, Told
      <4> QED
        BY <2>0, <2>4, <4>1, <4>2, <4>3 DEF Find, Goto
    <3> QED
      BY <1>0, <3>1, <3>2, TellsQuiet
  <2>5. CASE Drop(p)
    <3>1. /\ Others(p) /\ UNCHANGED <<note, fresh, silent>> /\ sent \subseteq sent'
          /\ Owes(p) = {}
      BY <2>0, <2>5 DEF Drop, Goto, Finish, Others, Owes, TInv, TypeOK
    <3>2. \/ pc'[p] \in {"idle", "match"}
          \/ /\ pc'[p] = "findOne" /\ job' = job
             /\ sent' = sent \cup {<<"updated", job[p].id>>}
          \/ /\ pc'[p] = "remove" /\ job' = job
             /\ sent' = sent \cup {<<"deleted", job[p].id>>}
      BY <2>0, <2>5 DEF Drop, Goto, Finish
    <3>3. Foretold(p)'
      BY <3>2 DEF Foretold, Told
    <3> QED
      BY <1>0, <3>1, <3>3, TellsQuiet
  <2>6. CASE Save(p)
    <3>1. /\ Others(p) /\ pc'[p] = "idle" /\ UNCHANGED <<fresh, sent, silent>>
          /\ Owes(p) = {} /\ job[p].id \in Notes
      BY <2>0, <2>6 DEF Save, Finish, Goto, Others, Owes, TInv, TypeOK, ShapeOf, RefersTo, Of
    <3>2. PICK m \in Notes : m = job[p].id
      BY <3>1
    <3>3. CASE Exists(m) /\ note' = [note EXCEPT ![m].read = TRUE]
      <4>1. Told("updated", m)'
        BY <2>0, <2>6, <3>1, <3>2, <3>3 DEF Save, Foretold, Told
      <4>2. Exists(m)' /\ \A n \in Notes : n # m => note'[n] = note[n]
        BY <3>3, NoteRead DEF TInv
      <4>3. Foretold(p)'
        BY <3>1 DEF Foretold
      <4>4. \A n \in Notes \ fresh :
              /\ Exists(n) /\ ~Exists(n)' => Told("deleted", n)'
              /\ Exists(n)' /\ ~note[n].read /\ note'[n].read => Covered("updated", n)'
        BY <4>1, <4>2 DEF Covered, Exists
      <4> QED
        BY <1>0, <3>1, <4>3, <4>4, TellsFrame
    <3>4. CASE UNCHANGED note
      BY <1>0, <3>1, <3>4, TellsQuiet DEF Foretold
    <3> QED
      BY <2>6, <3>2, <3>3, <3>4 DEF Save
  <2>7. CASE Match(p)
    <3>1. /\ Others(p) /\ pc'[p] = "mark" /\ UNCHANGED <<note, fresh, sent, silent>>
          /\ Owes(p) = {}
      BY <2>0, <2>7 DEF Match, Goto, Others, Owes, TInv, TypeOK
    <3>2. Foretold(p)'
      BY <3>1 DEF Foretold
    <3> QED
      BY <1>0, <3>1, <3>2, TellsQuiet
  <2>8. CASE Mark(p)
    <3>1. /\ UNCHANGED <<fresh, job, sent, silent>> /\ pc[p] = "mark"
          /\ Owes(p) = NotesOf(job[p].user) \ loc[p].todo /\ job[p].kind = "readAll"
      BY <2>0, <2>8 DEF Mark, Owes, ShapeOf
    <3>2. /\ Others(p) /\ pc'[p] \in {"mark", "collect"}
          /\ loc'[p].todo \subseteq loc[p].todo
      BY <2>8 DEF Mark, Goto, Others, TInv, TypeOK, Locals
    <3>3. Owes(p)' = (NotesOf(job[p].user) \ loc[p].todo)' /\ Foretold(p)'
      BY <3>1, <3>2 DEF Owes, Foretold
    \* What p owed, it owes.
    <3>4. ASSUME NEW n \in Notes \ fresh, n \in Owes(p), Exists(n)'
          PROVE  n \in Owes(p)'
      BY <1>0, <3>1, <3>2, <3>3, <3>4 DEF NotesOf, Advance, Advances
    <3>5. \A n \in Notes \ fresh, event \in {"created", "updated"} :
            n \in Owes(p) /\ Exists(n)' /\ ((event = "created") <=> (job[p].kind = "create"))
              => Covered(event, n)'
      BY <3>1, <3>4 DEF Covered, Due
    <3>6. ASSUME NEW n \in Notes \ fresh, Exists(n)', ~note[n].read, note'[n].read
          PROVE  Covered("updated", n)'
      <4>1. PICK m \in loc[p].todo :
              /\ note' = [note EXCEPT ![m].read = TRUE]
              /\ loc' = [loc EXCEPT ![p].todo = @ \ {m}]
        BY <2>8, <3>6 DEF Mark
      <4>2. m = n /\ loc'[p].todo = loc[p].todo \ {m}
        BY <3>6, <4>1 DEF TInv, TypeOK, Locals
      <4>3. Of(n, job[p].user)
        BY <2>0, <3>1, <4>1, <4>2 DEF RefersTo
      <4>4. n \in Owes(p)'
        BY <1>0, <3>1, <3>3, <3>6, <4>2, <4>3 DEF Of, NotesOf, Advance, Advances
      <4> QED
        BY <3>1, <4>4 DEF Covered, Due
    <3>7. \A n \in Notes \ fresh : Exists(n) => Exists(n)'
      <4> SUFFICES ASSUME NEW n \in Notes \ fresh, Exists(n) PROVE Exists(n)'
        OBVIOUS
      <4>1. CASE UNCHANGED note
        BY <4>1 DEF Exists
      <4>2. ASSUME NEW m \in loc[p].todo, Exists(m), note' = [note EXCEPT ![m].read = TRUE]
            PROVE  Exists(n)'
        <5>1. m \in Notes
          BY DEF TInv, TypeOK, Locals
        <5> QED
          BY <4>2, <5>1, NoteRead DEF TInv, Exists
      <4> QED
        BY <2>8, <4>1, <4>2 DEF Mark
    <3> QED
      BY <1>0, <3>1, <3>2, <3>3, <3>5, <3>6, <3>7, TellsFrame
  <2>9. CASE Collect(p)
    <3>1. /\ Others(p) /\ pc'[p] = "idle" /\ UNCHANGED <<note, fresh, silent>>
          /\ sent' = sent \cup ({"updated"} \X NotesOf(job[p].user))
          /\ Owes(p) = NotesOf(job[p].user) \ loc[p].todo /\ job[p].kind = "readAll"
      BY <2>0, <2>9 DEF Collect, Finish, Goto, Others, Owes, ShapeOf, TInv, TypeOK
    <3>2. \A n \in Notes \ fresh, event \in {"created", "updated"} :
            n \in Owes(p) /\ ((event = "created") <=> (job[p].kind = "create"))
              => Covered(event, n)'
      <4> SUFFICES ASSUME NEW n \in Notes \ fresh, n \in Owes(p), NEW event \in {"created", "updated"},
                          event # "created"
                   PROVE  Covered(event, n)'
        BY <3>1
      <4> QED
        BY <1>0, <3>1 DEF Covered, Told
    <3>3. Foretold(p)'
      BY <3>1 DEF Foretold
    <3>4. \A n \in Notes \ fresh : (Exists(n) <=> Exists(n)') /\ note'[n] = note[n]
      BY <3>1 DEF Exists
    <3> QED
      BY <1>0, <3>1, <3>2, <3>3, <3>4, TellsFrame
  <2>10. CASE Remove(p)
    <3>1. PICK m \in Notes : m = job[p].id
      BY <2>0, <2>10 DEF Remove, ShapeOf, RefersTo, Of
    <3>2. /\ Others(p) /\ pc'[p] = "idle" /\ UNCHANGED <<fresh, sent, silent>>
          /\ Owes(p) = {} /\ note' = [note EXCEPT ![m] = None]
      BY <2>0, <2>10, <3>1 DEF Remove, Finish, Goto, Others, Owes, TInv, TypeOK
    <3>3. \A n \in Notes : IF n = m THEN note'[n] = None ELSE note'[n] = note[n]
      BY <3>2 DEF TInv, TypeOK
    <3>4. Exists(m) => Told("deleted", m)'
      BY <2>0, <2>10, <3>1, <3>2 DEF Remove, Foretold, Told
    <3>5. Foretold(p)'
      BY <3>2 DEF Foretold
    <3>6. \A n \in Notes \ fresh :
            /\ Exists(n) /\ ~Exists(n)' => Told("deleted", n)'
            /\ Exists(n)' /\ ~note[n].read /\ note'[n].read => Covered("updated", n)'
      BY <3>3, <3>4 DEF Exists
    <3> QED
      BY <1>0, <3>2, <3>5, <3>6, TellsFrame
  <2> QED
    BY <1>2, <2>1, <2>2, <2>3, <2>4, <2>5, <2>6, <2>7, <2>8, <2>9, <2>10 DEF Step
<1>3. ASSUME NEW p \in Handlers, Abort(p) PROVE AInv'
  <2>1. /\ Others(p) /\ pc'[p] = "idle" /\ UNCHANGED <<note, fresh, sent>>
        /\ silent' = silent \cup Owes(p)
    BY <1>3 DEF Abort, Finish, Goto, Others, TInv, TypeOK
  <2>2. \A n \in Notes \ fresh, event \in {"created", "updated"} : n \in Owes(p) => Covered(event, n)'
    BY <2>1 DEF Covered
  <2>3. Foretold(p)'
    BY <2>1 DEF Foretold
  <2>4. \A n \in Notes \ fresh : (Exists(n) <=> Exists(n)') /\ note'[n] = note[n]
    BY <2>1 DEF Exists
  <2> QED
    BY <1>0, <2>1, <2>2, <2>3, <2>4, TellsFrame
<1>4. CASE UNCHANGED <<note, fresh, pc, job, loc, sent, silent>>
  BY <1>4 DEF AInv, TellsOf, Covered, Told, Due, Owes, NotesOf, Foretold, Exists
<1> QED
  BY <1>1, <1>2, <1>3, <1>4 DEF Next, Expire, vars

\* Clients are told of everything: a notification leaves the collection only
\* after its deletion was announced, and its creation and its reading are
\* announced, or will be, unless the request broke off before it could.
THEOREM AllAnnounced == Spec => []Announced
<1>1. AInv => Announced
  BY DEF AInv, TellsOf, Covered, Told, Due, Announced
<1>2. Init => TInv /\ AInv
  BY TypeInit, TellsInit
<1>3. TInv /\ AInv /\ [Next]_vars => (TInv /\ AInv)'
  BY TypeStep, TellsStep
<1> QED
  BY <1>1, <1>2, <1>3, PTL DEF Spec

-----------------------------------------------------------------------------
(* Coherence *)

Waits(n, u) == Exists(n) /\ note[n].user = u /\ ~note[n].read

LEMMA UnreadSame ==
  ASSUME NEW u \in Users, \A n \in Notes : Waits(n, u)' <=> Waits(n, u)
  PROVE  Unread(u)' = Unread(u)
<1>1. {n \in NotesOf(u) : ~note[n].read} = {n \in Notes : Waits(n, u)}
  BY DEF NotesOf, Waits
<1>2. {n \in NotesOf(u) : ~note[n].read}' = {n \in Notes : Waits(n, u)'}
  BY DEF NotesOf, Waits
<1>3. {n \in NotesOf(u) : ~note[n].read}' = {n \in NotesOf(u) : ~note[n].read}
  BY <1>1, <1>2
<1> QED
  BY <1>3 DEF Unread

LEMMA UnreadKept == ASSUME UNCHANGED note, NEW u \in Users PROVE Unread(u)' = Unread(u)
  BY UnreadSame DEF Waits, Exists

\* A step changes the unread notifications of the user it is about only.
LEMMA OtherCounts ==
  ASSUME TInv, NEW p \in Handlers, Step(p), NEW u \in Users, u # job[p].user
  PROVE  Unread(u)' = Unread(u)
<1>0. ShapeOf(p) /\ RefersTo(p)
  BY DEF TInv, Shape, References
<1>1. CASE UNCHANGED note
  BY <1>1, UnreadKept
<1>2. CASE Insert(p)
  <2>1. PICK n \in fresh : note' = [note EXCEPT ![n] = [user |-> job[p].user, read |-> FALSE]]
    BY <1>2 DEF Insert
  <2>2. n \in Notes /\ ~Exists(n) /\ note'[n].user # u
    BY <2>1 DEF TInv, TypeOK, Blank
  <2>3. \A m \in Notes : m # n => note'[m] = note[m]
    BY <2>1 DEF TInv, TypeOK
  <2> QED
    BY <2>2, <2>3, UnreadSame DEF Waits, Exists
<1>3. ASSUME NEW n \in Notes \ fresh, Of(n, job[p].user), Exists(n),
             note' = [note EXCEPT ![n].read = TRUE]
      PROVE  Unread(u)' = Unread(u)
  <2>1. note'[n].user # u /\ note[n].user # u /\ \A m \in Notes : m # n => note'[m] = note[m]
    BY <1>3, NoteRead DEF Of, TInv
  <2> QED
    BY <2>1, UnreadSame DEF Waits, Exists
<1>4. CASE Save(p)
  BY <1>0, <1>1, <1>3, <1>4 DEF Save, ShapeOf, RefersTo, Of
<1>5. CASE Mark(p)
  BY <1>0, <1>1, <1>3, <1>5 DEF Mark, ShapeOf, RefersTo, Of
<1>6. CASE Remove(p)
  <2>1. PICK n \in Notes \ fresh : n = job[p].id /\ Of(n, job[p].user)
    BY <1>0, <1>6 DEF Remove, ShapeOf, RefersTo, Of
  <2>2. \A m \in Notes : IF m = n THEN note'[m] = None ELSE note'[m] = note[m]
    BY <1>6, <2>1 DEF Remove, TInv, TypeOK
  <2> QED
    BY <2>1, <2>2, UnreadSame DEF Waits, Exists, Of
<1> QED
  BY <1>1, <1>2, <1>4, <1>5, <1>6
     DEF Step, Look, Count, Fill, Announce, Guard, Find, Drop, FindOne, Match, Collect

\* What holds of a user since the count was last uncached, as long as no change
\* of the notifications overlapped another request or broke off: a change is
\* alone; the entry is the count but between an insert and its invalidation;
\* what a request holds is the count, and whoever is about to lower it has
\* dropped the entry, or will change nothing that counts.
Alone(u) ==
  \A p, q \in Handlers : p # q /\ WorksFor(p, u) /\ WorksFor(q, u) => ~Changes(job[p])

Owing(p) == job[p].kind = "create" /\ pc[p] \in {"announce", "drop"}

Agrees(u) ==
  (\A p \in Handlers : WorksFor(p, u) => ~Owing(p)) => cache[u] \in {None, Unread(u)}

Fits(p, u) ==
  WorksFor(p, u) =>
    /\ loc[p].count \in {None, Unread(u)}
    /\ pc[p] \in {"match", "mark", "collect"} => cache[u] = None
    /\ pc[p] \in {"findOne", "save"} => cache[u] = None \/ ~Exists(job[p].id)
    /\ pc[p] = "remove" =>
         cache[u] = None \/ ~Exists(job[p].id) \/ note[job[p].id].read

Clean(u) == Alone(u) /\ Agrees(u) /\ \A p \in Handlers : Fits(p, u)

CInv == \A u \in Users : ~dirty[u] => Clean(u)

LEMMA CleanInit == Init => CInv
  BY DEF Init, CInv, Clean, Alone, Agrees, Fits, WorksFor

\* A step of p for somebody else leaves u as it is.
LEMMA CleanFrame ==
  ASSUME TInv, Advance, NEW p \in Handlers, Others(p), NEW u \in Users, Clean(u),
         ~WorksFor(p, u), ~WorksFor(p, u)', Unread(u)' = Unread(u), cache'[u] \in {None, cache[u]}
  PROVE  Clean(u)'
<1>1. \A q \in Handlers : WorksFor(q, u)' <=> WorksFor(q, u)
  BY DEF Others, WorksFor
<1>2. \A q \in Handlers :
        WorksFor(q, u) => pc'[q] = pc[q] /\ job'[q] = job[q] /\ loc'[q] = loc[q]
  BY DEF Others
<1>3. Alone(u)'
  BY <1>1, <1>2 DEF Clean, Alone, Changes
<1>4. Agrees(u)'
  BY <1>1, <1>2 DEF Clean, Agrees, Owing
<1>5. ASSUME NEW q \in Handlers, WorksFor(q, u)' PROVE Fits(q, u)'
  <2>1. WorksFor(q, u) /\ Fits(q, u) /\ ShapeOf(q) /\ RefersTo(q)
        /\ pc'[q] = pc[q] /\ job'[q] = job[q] /\ loc'[q] = loc[q]
    BY <1>1, <1>2, <1>5 DEF Clean, TInv, Shape, References
  <2>2. pc[q] \in {"findOne", "save", "remove"} => job[q].id \in Notes \ fresh
    BY <2>1 DEF ShapeOf, RefersTo, Of
  <2>3. \A n \in Notes \ fresh :
          /\ note[n] = None => note'[n] = None
          /\ note[n].read => note'[n] = None \/ note[n] = None \/ note'[n].read
    BY DEF Advance, Advances, Exists
  <2> QED
    BY <2>1, <2>2, <2>3 DEF Fits, Exists
<1> QED
  BY <1>3, <1>4, <1>5 DEF Clean, Fits

\* Nobody else is at work for a user whose notifications are being changed.
LEMMA OnlyWorker ==
  ASSUME NEW p \in Handlers, NEW u \in Users, Clean(u), WorksFor(p, u), Changes(job[p])
  PROVE  /\ \A q \in Handlers \ {p} : ~WorksFor(q, u)
         /\ ~Owing(p) => cache[u] \in {None, Unread(u)}
  BY DEF Clean, Alone, Agrees

\* A step of the only request at work for u.
LEMMA CleanOnly ==
  ASSUME NEW p \in Handlers, Others(p), NEW u \in Users,
         \A q \in Handlers \ {p} : ~WorksFor(q, u), pc'[p] = "idle" \/ WorksFor(p, u)',
         ~Owing(p)' => cache'[u] \in {None, Unread(u)'}, Fits(p, u)'
  PROVE  Clean(u)'
<1>1. \A q \in Handlers \ {p} : ~WorksFor(q, u)'
  BY DEF Others, WorksFor
<1>2. Alone(u)'
  BY <1>1 DEF Alone
<1>3. Agrees(u)'
  BY DEF Agrees, Owing
<1>4. \A q \in Handlers : Fits(q, u)'
  BY <1>1 DEF Fits
<1> QED
  BY <1>2, <1>3, <1>4 DEF Clean

\* A step of a request that only reads the count of u.
LEMMA CleanReader ==
  ASSUME TInv, NEW p \in Handlers, Others(p), NEW u \in Users, Clean(u), WorksFor(p, u),
         job[p].kind = "count", UNCHANGED note, cache'[u] \in {cache[u], Unread(u)},
         pc'[p] = "idle" \/ (job'[p] = job[p] /\ pc'[p] \in {"look", "count", "fill"}),
         pc'[p] # "idle" => loc'[p].count \in {None, Unread(u)}
  PROVE  Clean(u)'
<1>1. /\ \A q \in Handlers \ {p} : /\ WorksFor(q, u)' <=> WorksFor(q, u)
                                   /\ pc'[q] = pc[q] /\ job'[q] = job[q] /\ loc'[q] = loc[q]
      /\ WorksFor(p, u)' => job'[p] = job[p]
  BY DEF Others, WorksFor
<1>2. Unread(u)' = Unread(u)
  BY UnreadKept
<1>3. Alone(u)'
  BY <1>1 DEF Clean, Alone, Changes, WorksFor
<1>4. ~Owing(p)
  BY DEF Owing
<1>5. Agrees(u)'
  BY <1>1, <1>2, <1>4 DEF Clean, Agrees, Owing
<1>6. ASSUME NEW q \in Handlers \ {p}, WorksFor(q, u) PROVE Fits(q, u)'
  <2>1. job[q].kind = "count"
    BY <1>6 DEF Clean, Alone, Changes
  <2>2. pc[q] \in {"look", "count", "fill"} /\ Fits(q, u)
    BY <1>6, <2>1 DEF TInv, Shape, ShapeOf, WorksFor, Clean
  <2> QED
    BY <1>1, <1>2, <1>6, <2>2 DEF Fits
<1>7. Fits(p, u)'
  BY <1>1, <1>2 DEF Fits, WorksFor
<1> QED
  BY <1>1, <1>3, <1>5, <1>6, <1>7 DEF Clean, Fits

LEMMA CleanEnter ==
  ASSUME TInv, CInv, Advance, NEW p \in Handlers, NEW j \in Job, NEW stage \in Stages,
         Begins(p, j, stage)
  PROVE  CInv'
<1>0. /\ pc[p] = "idle" /\ Others(p) /\ pc'[p] = stage /\ job'[p] = j /\ loc'[p].count = None
      /\ UNCHANGED <<note, fresh, cache>> /\ j.user \in Users
  BY EnterType DEF Begins, Job
<1> SUFFICES ASSUME NEW u \in Users, ~dirty'[u] PROVE Clean(u)'
  BY DEF CInv
<1>1. Unread(u)' = Unread(u)
  BY <1>0, UnreadKept
<1>2. CASE u # j.user
  <2>1. ~dirty[u]
    BY <1>2 DEF Begins, Enter, TInv, TypeOK
  <2>2. ~WorksFor(p, u) /\ ~WorksFor(p, u)'
    BY <1>0, <1>2 DEF WorksFor
  <2> QED
    BY <1>0, <1>1, <2>1, <2>2, CleanFrame DEF CInv
<1>3. CASE u = j.user
  <2>1. ~Collides(j) /\ (~dirty[u] \/ (~Busy(u) /\ cache[u] = None))
    BY <1>0, <1>3 DEF Begins, Enter, TInv, TypeOK
  <2>2. Clean(u)
    <3>1. CASE ~dirty[u]
      BY <3>1 DEF CInv
    <3>2. CASE ~Busy(u) /\ cache[u] = None
      BY <3>2 DEF Busy, Clean, Alone, Agrees, Fits
    <3> QED
      BY <2>1, <3>1, <3>2
  <2>3. \A q \in Handlers : WorksFor(q, u) => ~Changes(j) /\ ~Changes(job[q])
    BY <1>3, <2>1 DEF Collides
  <2>4. cache[u] \in {None, Unread(u)}
    BY <2>2, <2>3 DEF Clean, Agrees, Owing, Changes
  <2>5. WorksFor(p, u)' /\ Fits(p, u)'
    BY <1>0, <1>3 DEF Begins, WorksFor, Fits, Stages
  <2>6. CASE Changes(j)
    BY <1>0, <1>1, <2>3, <2>4, <2>5, <2>6, CleanOnly
  <2>7. CASE ~Changes(j)
    <3>1. /\ \A q \in Handlers \ {p} : /\ WorksFor(q, u)' <=> WorksFor(q, u)
                                       /\ pc'[q] = pc[q] /\ job'[q] = job[q] /\ loc'[q] = loc[q]
          /\ ~WorksFor(p, u)
      BY <1>0 DEF Others, WorksFor
    <3>2. Alone(u)'
      BY <1>0, <2>3, <2>7, <3>1 DEF Alone, Changes
    <3>3. Agrees(u)'
      BY <1>0, <1>1, <2>4 DEF Agrees
    <3>4. \A q \in Handlers \ {p} : Fits(q, u)'
      BY <1>0, <1>1, <2>2, <3>1 DEF Clean, Fits, Exists
    <3> QED
      BY <2>5, <3>2, <3>3, <3>4 DEF Clean
  <2> QED
    BY <2>6, <2>7
<1> QED
  BY <1>2, <1>3

\* A step keeps to the request it is a step of, and to the entry of its user.
LEMMA StepLocal ==
  ASSUME TInv, NEW p \in Handlers, Step(p)
  PROVE  /\ Others(p) /\ dirty' = dirty /\ pc[p] # "idle"
         /\ pc'[p] = "idle" \/ job'[p].user = job[p].user
         /\ \A u \in Users : u # job[p].user => cache'[u] = cache[u]
<1>1. CASE Insert(p)
  <2>1. PICK n \in fresh : job' = [job EXCEPT ![p].id = n]
    BY <1>1 DEF Insert
  <2>2. job[p] \in Job
    BY <1>1 DEF Insert, TInv, Shape, ShapeOf
  <2>3. job'[p].user = job[p].user /\ \A q \in Handlers \ {p} : job'[q] = job[q]
    BY <2>1, <2>2 DEF TInv, TypeOK, Job
  <2> QED
    BY <1>1, <2>3 DEF Insert, Goto, TInv, TypeOK, Others
<1>2. CASE Mark(p) \/ Match(p) \/ Count(p)
  BY <1>2 DEF Mark, Match, Count, Goto, TInv, TypeOK, Others
<1>3. CASE Look(p) \/ Fill(p) \/ Announce(p) \/ Guard(p) \/ Find(p) \/ FindOne(p)
  BY <1>3 DEF Look, Fill, Announce, Guard, Find, FindOne, Finish, Goto, TInv, TypeOK, Others
<1>4. CASE Drop(p)
  BY <1>4 DEF Drop, Finish, Goto, TInv, TypeOK, Others
<1>5. CASE Save(p) \/ Remove(p) \/ Collect(p)
  BY <1>5 DEF Save, Remove, Collect, Finish, Goto, TInv, TypeOK, Others
<1> QED
  BY <1>1, <1>2, <1>3, <1>4, <1>5 DEF Step

\* A step of a change, which works alone for its user.
LEMMA CleanChange ==
  ASSUME TInv, TInv', NEW p \in Handlers, Step(p), NEW u \in Users, u = job[p].user,
         Clean(u), job[p].kind # "count"
  PROVE  Clean(u)'
<1>0. /\ Others(p) /\ pc[p] # "idle" /\ WorksFor(p, u) /\ ShapeOf(p) /\ RefersTo(p)
      /\ pc'[p] = "idle" \/ WorksFor(p, u)'
  BY StepLocal DEF WorksFor, TInv, Shape, References
<1>1. /\ \A q \in Handlers \ {p} : ~WorksFor(q, u)
      /\ ~Owing(p) => cache[u] \in {None, Unread(u)}
      /\ Fits(p, u)
  BY <1>0, OnlyWorker DEF Changes, Clean
<1> SUFFICES /\ ~Owing(p)' => cache'[u] \in {None, Unread(u)'}
             /\ Fits(p, u)'
  BY <1>0, <1>1, CleanOnly
<1>2. loc'[p].count = None \/ pc'[p] = "fill"
  BY DEF TInv, Shape, ShapeOf
<1>3. UNCHANGED note => Unread(u)' = Unread(u)
  BY UnreadKept
\* The request is answered.
<1>4. ASSUME Finish(p), cache'[u] \in {None, Unread(u)'}
      PROVE  (~Owing(p)' => cache'[u] \in {None, Unread(u)'}) /\ Fits(p, u)'
  BY <1>4 DEF Finish, Goto, Fits, WorksFor, TInv, TypeOK
<1>5. CASE Insert(p)
  <2>1. PICK n \in fresh : job' = [job EXCEPT ![p].id = n]
    BY <1>5 DEF Insert
  <2>2. job[p] \in Job /\ job[p].kind = "create"
    BY <1>0, <1>5 DEF Insert, ShapeOf
  <2>3. job'[p].kind = "create" /\ pc'[p] = "announce"
    BY <1>5, <2>1, <2>2 DEF Insert, Goto, TInv, TypeOK, Job
  <2> QED
    BY <1>2, <2>3 DEF Owing, Fits
<1>6. CASE Announce(p)
  BY <1>0, <1>2, <1>6 DEF Announce, Goto, ShapeOf, Owing, Fits, TInv, TypeOK
<1>7. CASE Guard(p)
  <2>1. ~Owing(p) /\ UNCHANGED <<note, cache>>
    BY <1>7 DEF Guard, Owing
  <2>2. cache'[u] \in {None, Unread(u)'}
    BY <1>1, <1>3, <2>1
  <2>3. Finish(p) \/ pc'[p] = "find"
    BY <1>7 DEF Guard, Goto, TInv, TypeOK
  <2> QED
    BY <1>2, <1>4, <2>2, <2>3 DEF Fits
<1>8. CASE Find(p)
  <2>1. ~Owing(p) /\ UNCHANGED <<note, cache, job>>
    BY <1>8 DEF Find, Owing
  <2>2. cache'[u] \in {None, Unread(u)'}
    BY <1>1, <1>3, <2>1
  <2>3. \/ pc'[p] \in {"findOne", "remove"} /\ ~Exists(job[p].id)
        \/ pc'[p] = "drop"
        \/ pc'[p] = "remove" /\ note[job[p].id].read
    BY <1>8 DEF Find, Goto, TInv, TypeOK
  <2> QED
    BY <1>2, <2>1, <2>2, <2>3 DEF Fits, Exists
<1>9. CASE Drop(p)
  <2>1. cache'[u] = None /\ pc'[p] # "fill"
    BY <1>9 DEF Drop, Finish, Goto, TInv, TypeOK
  <2> QED
    BY <1>2, <2>1 DEF Fits
<1>10. CASE FindOne(p)
  <2>1. ~Owing(p) /\ UNCHANGED <<note, cache>> /\ pc[p] = "findOne"
    BY <1>10 DEF FindOne, Owing
  <2>2. cache'[u] \in {None, Unread(u)'}
    BY <1>1, <1>3, <2>1
  <2>3. Finish(p) \/ (pc'[p] = "save" /\ job' = job)
    BY <1>10 DEF FindOne, Goto, TInv, TypeOK
  <2>4. cache[u] = None \/ ~Exists(job[p].id)
    BY <1>0, <1>1, <2>1 DEF Fits
  <2> QED
    BY <1>2, <1>4, <2>1, <2>2, <2>3, <2>4 DEF Fits, Exists
<1>11. CASE Save(p)
  <2>1. ~Owing(p) /\ cache' = cache /\ Finish(p) /\ (cache[u] = None \/ ~Exists(job[p].id))
    BY <1>0, <1>1, <1>11 DEF Save, Owing, Fits
  <2>2. ~Exists(job[p].id) => UNCHANGED note
    BY <1>11 DEF Save
  <2> QED
    BY <1>1, <1>3, <1>4, <2>1, <2>2
<1>12. CASE Remove(p)
  <2>1. PICK m \in Notes : m = job[p].id
    BY <1>0, <1>12 DEF Remove, ShapeOf, RefersTo, Of
  <2>2. /\ ~Owing(p) /\ cache' = cache /\ Finish(p)
        /\ cache[u] = None \/ ~Exists(m) \/ note[m].read
    BY <1>0, <1>1, <1>12, <2>1 DEF Remove, Owing, Fits
  <2>3. \A n \in Notes : IF n = m THEN note'[n] = None ELSE note'[n] = note[n]
    BY <1>12, <2>1 DEF Remove, TInv, TypeOK
  <2>4. ~Exists(m) \/ note[m].read => Unread(u)' = Unread(u)
    BY <2>3, UnreadSame DEF Waits, Exists
  <2> QED
    BY <1>1, <1>4, <2>2, <2>4
<1>13. CASE Match(p) \/ Mark(p) \/ Collect(p)
  <2>1. cache'[u] = None
    BY <1>0, <1>1, <1>13 DEF Match, Mark, Collect, Fits
  <2>2. pc'[p] # "fill"
    BY <1>13 DEF Match, Mark, Collect, Finish, Goto, TInv, TypeOK
  <2> QED
    BY <1>2, <2>1, <2>2 DEF Fits
<1>14. ~Look(p) /\ ~Count(p) /\ ~Fill(p)
  BY <1>0 DEF Look, Count, Fill, ShapeOf
<1> QED
  BY <1>5, <1>6, <1>7, <1>8, <1>9, <1>10, <1>11, <1>12, <1>13, <1>14 DEF Step

\* A step of a request that reads the count of its user.
LEMMA CleanRead ==
  ASSUME TInv, NEW p \in Handlers, Step(p), NEW u \in Users, u = job[p].user,
         Clean(u), job[p].kind = "count"
  PROVE  Clean(u)'
<1>0. /\ Others(p) /\ pc[p] # "idle" /\ WorksFor(p, u) /\ ShapeOf(p) /\ Fits(p, u)
      /\ pc[p] \in {"look", "count", "fill"} /\ loc[p] \in Locals
  BY StepLocal DEF WorksFor, TInv, TypeOK, Shape, ShapeOf, Clean
<1>1. CASE Look(p)
  <2>1. /\ UNCHANGED <<note, cache>>
        /\ pc'[p] = "idle" \/ (job'[p] = job[p] /\ pc'[p] = "count" /\ loc'[p] = loc[p])
    BY <1>1 DEF Look, Finish, Goto, TInv, TypeOK
  <2> QED
    BY <1>0, <2>1, CleanReader DEF Fits
<1>2. CASE Count(p)
  <2>1. UNCHANGED <<note, cache, job>> /\ pc'[p] = "fill" /\ loc'[p].count = Unread(u)
    BY <1>0, <1>2 DEF Count, Goto, TInv, TypeOK, Locals
  <2> QED
    BY <1>0, <2>1, CleanReader
<1>3. CASE Fill(p)
  <2>1. loc[p].count = Unread(u)
    BY <1>0, <1>3 DEF Fill, Fits, ShapeOf
  <2>2. UNCHANGED note /\ pc'[p] = "idle" /\ cache'[u] = loc[p].count
    BY <1>3 DEF Fill, Finish, Goto, TInv, TypeOK
  <2> QED
    BY <1>0, <2>1, <2>2, CleanReader
<1>4. Look(p) \/ Count(p) \/ Fill(p)
  BY <1>0 DEF Step, Look, Count, Fill, Insert, Announce, Guard, Find, Drop, FindOne, Save,
              Remove, Match, Mark, Collect
<1> QED
  BY <1>1, <1>2, <1>3, <1>4

LEMMA CleanStep == TInv /\ TInv' /\ CInv /\ [Next]_vars => CInv'
<1> SUFFICES ASSUME TInv, TInv', CInv, [Next]_vars PROVE CInv'
  OBVIOUS
<1>0. Advance
  BY StepAdvances DEF TInv
<1>1. ASSUME NEW p \in Handlers, Arrive(p) PROVE CInv'
  <2>1. PICK j \in Job, stage \in Stages : Begins(p, j, stage)
    BY <1>1, ArriveBegins
  <2> QED
    BY <1>0, <2>1, CleanEnter
<1>2. ASSUME NEW p \in Handlers, Step(p), NEW u \in Users, ~dirty'[u] PROVE Clean(u)'
  <2>1. /\ Others(p) /\ dirty' = dirty /\ pc[p] # "idle"
        /\ pc'[p] = "idle" \/ job'[p].user = job[p].user
        /\ u # job[p].user => cache'[u] = cache[u]
    BY <1>2, StepLocal
  <2>2. Clean(u)
    BY <1>2, <2>1 DEF CInv
  <2>3. CASE u # job[p].user
    <3>1. ~WorksFor(p, u) /\ ~WorksFor(p, u)'
      BY <2>1, <2>3 DEF WorksFor
    <3>2. Unread(u)' = Unread(u)
      BY <1>2, <2>3, OtherCounts
    <3> QED
      BY <1>0, <2>1, <2>2, <2>3, <3>1, <3>2, CleanFrame
  <2>4. CASE u = job[p].user
    BY <1>2, <2>2, <2>4, CleanChange, CleanRead
  <2> QED
    BY <2>3, <2>4
<1>3. ASSUME NEW p \in Handlers, Abort(p), NEW u \in Users, ~dirty'[u] PROVE Clean(u)'
  <2>1. Others(p) /\ pc'[p] = "idle" /\ UNCHANGED <<note, cache>> /\ pc[p] # "idle"
    BY <1>3 DEF Abort, Finish, Goto, Others, TInv, TypeOK
  <2>2. Clean(u) /\ (u = job[p].user => ~Owing(p))
    BY <1>3 DEF Abort, Owing, CInv, TInv, TypeOK
  <2>3. Unread(u)' = Unread(u)
    BY <2>1, UnreadKept
  <2>4. \A q \in Handlers : WorksFor(q, u)' =>
          WorksFor(q, u) /\ pc'[q] = pc[q] /\ job'[q] = job[q] /\ loc'[q] = loc[q]
    BY <2>1 DEF Others, WorksFor
  <2>5. Alone(u)'
    BY <2>2, <2>4 DEF Clean, Alone, Changes
  <2>6. \A q \in Handlers \ {p} : WorksFor(q, u) =>
          WorksFor(q, u)' /\ pc'[q] = pc[q] /\ job'[q] = job[q]
    BY <2>1 DEF Others, WorksFor
  <2>7. Agrees(u)'
    <3>1. WorksFor(p, u) => ~Owing(p)
      BY <2>2 DEF WorksFor
    <3> QED
      BY <2>1, <2>2, <2>3, <2>6, <3>1 DEF Clean, Agrees, Owing
  <2>8. \A q \in Handlers : Fits(q, u)'
    BY <2>1, <2>2, <2>3, <2>4 DEF Clean, Fits, Exists
  <2> QED
    BY <2>5, <2>7, <2>8 DEF Clean
<1>4. ASSUME NEW v \in Users, Expire(v), NEW u \in Users, ~dirty'[u] PROVE Clean(u)'
  <2>1. UNCHANGED <<note, pc, job, loc, dirty>> /\ cache'[u] \in {None, cache[u]}
    BY <1>4 DEF Expire, TInv, TypeOK
  <2>2. Unread(u)' = Unread(u) /\ Clean(u)
    BY <1>4, <2>1, UnreadKept DEF CInv
  <2> QED
    BY <2>1, <2>2 DEF Clean, Alone, Agrees, Fits, WorksFor, Changes, Owing, Exists
<1>5. ASSUME UNCHANGED vars, NEW u \in Users, ~dirty'[u] PROVE Clean(u)'
  <2>1. Unread(u)' = Unread(u) /\ Clean(u)
    BY <1>5, UnreadKept DEF vars, CInv
  <2> QED
    BY <1>5, <2>1 DEF vars, Clean, Alone, Agrees, Fits, WorksFor, Changes, Owing, Exists
<1> QED
  BY <1>1, <1>2, <1>3, <1>4, <1>5 DEF Next, CInv

\* The cached count of a user whose changes have not overlapped is the number of
\* unread notifications: each change drops the entry exactly when it must.
THEOREM CacheCoherent == Spec => []Coherence
<1>1. CInv => Coherence
  BY DEF CInv, Clean, Agrees, Owing, Coherence, Changes
<1>2. Init => TInv /\ CInv
  BY TypeInit, CleanInit
<1>3. TInv /\ CInv /\ [Next]_vars => (TInv /\ CInv)'
  BY TypeStep, CleanStep
<1> QED
  BY <1>1, <1>2, <1>3, PTL DEF Spec

-----------------------------------------------------------------------------
(* The cache implements ReadThrough *)

\* What a step does to Held and to the counts, from what it does to the locals
\* and to the notifications.
LEMMA HeldType == TInv => Held \in [Handlers -> [Users -> Counts \cup {None}]]
  BY DEF TInv, TypeOK, Locals, Held

LEMMA HeldSame ==
  ASSUME TInv, NEW p \in Handlers, Others(p),
         loc'[p].count = loc[p].count, loc[p].count # None => job'[p].user = job[p].user
  PROVE  Held' = Held
  BY DEF Held, Others

LEMMA HeldSet ==
  ASSUME TInv, NEW p \in Handlers, Others(p), NEW u \in Users, NEW v \in Counts \cup {None},
         loc'[p].count = v, v # None => job'[p].user = u,
         loc[p].count # None => job[p].user = u
  PROVE  Held' = [Held EXCEPT ![p][u] = v]
<1>1. \A q \in Handlers \ {p} : Held'[q] = Held[q]
  BY DEF Held, Others
<1>2. Held'[p] = [w \in Users |-> IF v # None /\ w = u THEN v ELSE None]
  BY DEF Held
<1>3. Held[p] = [w \in Users |-> IF loc[p].count # None /\ w = u THEN loc[p].count ELSE None]
  BY DEF Held
<1>4. Held'[p] = [Held[p] EXCEPT ![u] = v]
  BY <1>2, <1>3
<1>5. Held \in [Handlers -> [Users -> Counts \cup {None}]] /\ DOMAIN Held' = Handlers
  BY HeldType DEF Held
<1>6. Held' = [q \in Handlers |-> Held'[q]]
  BY DEF Held
<1> QED
  BY <1>1, <1>4, <1>5, <1>6

Counted == [u \in Users |-> Unread(u)]

LEMMA CountedSame == ASSUME UNCHANGED note PROVE Counted' = Counted
  BY UnreadKept DEF Counted

LEMMA CountedSet ==
  ASSUME TInv, NEW p \in Handlers, Step(p), NEW u \in Users, u = job[p].user
  PROVE  \E c \in Counts : Counted' = [Counted EXCEPT ![u] = c]
<1>1. \A w \in Users : w # u => Unread(w)' = Unread(w)
  BY OtherCounts
<1>2. {n \in NotesOf(u) : ~note[n].read}' \in SUBSET Notes
  BY DEF NotesOf
<1>3. PICK c \in Counts : c = Unread(u)'
  BY <1>2, CardinalityCounts DEF Unread
<1>4. \A w \in Users : w = u => Unread(w)' = c
  BY <1>3
<1>5. Counted' = [w \in Users |-> Unread(w)']
  BY DEF Counted
<1> QED
  BY <1>1, <1>4, <1>5 DEF Counted

LEMMA ContractInit == Init /\ TInv => ReadThroughCache!Init
<1> SUFFICES ASSUME Init, TInv PROVE ReadThroughCache!Init
  OBVIOUS
<1>1. Counted \in [Users -> Counts \cup {None}]
  BY CountType DEF Counted
<1>2. Held = [p \in Handlers |-> [u \in Users |-> None]]
  BY NoLocalsType DEF Init, Held
<1> QED
  BY <1>1, <1>2 DEF Init, ReadThroughCache!Init, Counted

\* A count, its caching, an invalidation, a change of the notifications and a
\* request that breaks off are Load, Cache, Drop, Store and Forget; every other
\* step is one the contract does not see.
LEMMA ContractStep ==
  TInv /\ TInv' /\ [Next]_vars => [ReadThroughCache!Next]_(ReadThroughCache!vars)
<1> SUFFICES ASSUME TInv, TInv', [Next]_vars
             PROVE  ReadThroughCache!Next \/ UNCHANGED ReadThroughCache!vars
  OBVIOUS
<1>1. ASSUME NEW p \in Handlers, Arrive(p) PROVE UNCHANGED ReadThroughCache!vars
  <2>1. PICK j \in Job, stage \in Stages : Begins(p, j, stage)
    BY <1>1, ArriveBegins
  <2>2. Others(p) /\ loc'[p].count = None /\ UNCHANGED <<note, cache>> /\ pc[p] = "idle"
    BY <2>1, EnterType DEF Begins
  <2>3. loc[p].count = None
    BY <2>2 DEF TInv, Shape, ShapeOf
  <2>4. Held' = Held
    BY <2>2, <2>3, HeldSame
  <2> QED
    BY <2>2, <2>4, CountedSame DEF ReadThroughCache!vars, Counted
<1>2. ASSUME NEW p \in Handlers, Step(p)
      PROVE  ReadThroughCache!Next \/ UNCHANGED ReadThroughCache!vars
  <2>0. PICK u \in Users : /\ u = job[p].user /\ Others(p) /\ ShapeOf(p) /\ loc[p] \in Locals
                           /\ pc'[p] = "idle" \/ job'[p].user = u
    BY <1>2, StepLocal DEF TInv, TypeOK, Shape, ShapeOf, Job
  <2>1. loc'[p].count = None \/ pc'[p] = "fill"
    BY DEF TInv, Shape, ShapeOf
  \* Neither before nor after the step p holds a count.
  <2>2. ASSUME pc[p] # "fill", pc'[p] # "fill" PROVE Held' = Held
    BY <2>0, <2>1, <2>2, HeldSame DEF ShapeOf
  <2>3. ASSUME Held' = Held, UNCHANGED <<note, cache>> PROVE UNCHANGED ReadThroughCache!vars
    BY <2>3, CountedSame DEF ReadThroughCache!vars, Counted
  <2>4. CASE Count(p)
    <3> DEFINE c == Unread(u)
    <3>1. c \in Counts \cup {None}
      BY CountType
    <3>2. /\ loc'[p].count = c /\ job'[p].user = u /\ pc[p] = "count"
          /\ UNCHANGED <<note, cache>>
      BY <2>0, <2>4 DEF Count, Goto, TInv, TypeOK, Locals
    <3>3. loc[p].count = None
      BY <2>0, <3>2 DEF ShapeOf
    <3> HIDE DEF c
    <3>4. Held' = [Held EXCEPT ![p][u] = c]
      BY <2>0, <3>1, <3>2, <3>3, HeldSet
    <3>5. ReadThroughCache!Load(p, u)
      BY <3>2, <3>4, CountedSame DEF ReadThroughCache!Load, Counted, c
    <3> QED
      BY <3>5 DEF ReadThroughCache!Next
  <2>5. CASE Fill(p)
    <3>1. /\ pc[p] = "fill" /\ pc'[p] = "idle" /\ UNCHANGED note
          /\ cache' = [cache EXCEPT ![u] = loc[p].count]
      BY <2>0, <2>5 DEF Fill, Finish, Goto, TInv, TypeOK
    <3>2. loc[p].count # None /\ loc'[p].count = None
      BY <2>0, <2>1, <3>1 DEF ShapeOf
    <3>3. Held' = [Held EXCEPT ![p][u] = None]
      BY <2>0, <3>2, HeldSet
    <3>4. Held[p][u] = loc[p].count
      BY <2>0, <3>2 DEF Held
    <3>5. ReadThroughCache!Cache(p, u)
      BY <3>1, <3>2, <3>3, <3>4, CountedSame DEF ReadThroughCache!Cache, Counted
    <3> QED
      BY <3>5 DEF ReadThroughCache!Next
  <2>6. CASE Drop(p)
    <3>1. /\ pc[p] = "drop" /\ pc'[p] # "fill" /\ UNCHANGED note
          /\ cache' = [cache EXCEPT ![u] = None]
      BY <2>0, <2>6 DEF Drop, Finish, Goto, TInv, TypeOK
    <3>2. ReadThroughCache!Drop(u)
      BY <2>2, <3>1, CountedSame DEF ReadThroughCache!Drop, Counted
    <3> QED
      BY <3>2 DEF ReadThroughCache!Next
  <2>7. CASE Insert(p) \/ Save(p) \/ Mark(p) \/ Remove(p)
    <3>1. pc[p] # "fill" /\ pc'[p] # "fill" /\ UNCHANGED cache
      BY <2>7 DEF Insert, Save, Mark, Remove, Finish, Goto, TInv, TypeOK
    <3>2. PICK c \in Counts : Counted' = [Counted EXCEPT ![u] = c]
      BY <1>2, <2>0, CountedSet
    <3>3. ReadThroughCache!Store(p, u, c)
      BY <2>2, <3>1, <3>2 DEF ReadThroughCache!Store, Counted
    <3> QED
      BY <3>3 DEF ReadThroughCache!Next
  <2>8. CASE Look(p) \/ Announce(p) \/ Guard(p) \/ Find(p) \/ FindOne(p) \/ Collect(p)
    <3>1. pc[p] # "fill" /\ pc'[p] # "fill" /\ UNCHANGED <<note, cache>>
      BY <2>8 DEF Look, Announce, Guard, Find, FindOne, Collect, Finish, Goto, TInv, TypeOK
    <3> QED
      BY <2>2, <2>3, <3>1
  <2>9. CASE Match(p)
    <3>1. pc[p] # "fill" /\ pc'[p] # "fill" /\ UNCHANGED <<note, cache>>
      BY <2>9 DEF Match, Goto, TInv, TypeOK
    <3> QED
      BY <2>2, <2>3, <3>1
  <2> QED
    BY <1>2, <2>4, <2>5, <2>6, <2>7, <2>8, <2>9 DEF Step
<1>3. ASSUME NEW p \in Handlers, Abort(p) PROVE ReadThroughCache!Next
  <2>1. PICK u \in Users : u = job[p].user
    BY <1>3 DEF Abort, TInv, Shape, ShapeOf, Job
  <2>2. Others(p) /\ loc'[p].count = None /\ UNCHANGED <<note, cache>>
    BY <1>3, NoLocalsType DEF Abort, Finish, Goto, Others, TInv, TypeOK
  <2>3. Held' = [Held EXCEPT ![p][u] = None]
    BY <2>1, <2>2, HeldSet
  <2>4. ReadThroughCache!Forget(p, u)
    BY <2>2, <2>3, CountedSame DEF ReadThroughCache!Forget, Counted
  <2> QED
    BY <2>4 DEF ReadThroughCache!Next
<1>4. ASSUME NEW u \in Users, Expire(u) PROVE ReadThroughCache!Next
  <2>1. Held' = Held
    BY <1>4 DEF Expire, Held
  <2>2. ReadThroughCache!Drop(u)
    BY <1>4, <2>1, CountedSame DEF Expire, ReadThroughCache!Drop, Counted
  <2> QED
    BY <2>2 DEF ReadThroughCache!Next
<1>5. CASE UNCHANGED vars
  <2>1. Held' = Held
    BY <1>5 DEF vars, Held
  <2> QED
    BY <1>5, <2>1, CountedSame DEF vars, ReadThroughCache!vars, Counted
<1> QED
  BY <1>1, <1>2, <1>3, <1>4, <1>5 DEF Next

\* The cache of unread counts implements the read-through cache, for any number
\* of notifications, users and requests.
THEOREM CacheIsReadThrough == Spec => CacheContract
<1>1. Init /\ TInv => ReadThroughCache!Init
  BY ContractInit
<1>2. TInv /\ TInv' /\ [Next]_vars => [ReadThroughCache!Next]_(ReadThroughCache!vars)
  BY ContractStep
<1> QED
  BY <1>1, <1>2, TypeInit, Typed, PTL DEF Spec, CacheContract, ReadThroughCache!Spec

====
