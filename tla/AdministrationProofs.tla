------------------------- MODULE AdministrationProofs -------------------------
(***************************************************************************)
(* Proofs about Administration, for any number of accounts, statuses and   *)
(* requests in flight.                                                     *)
(***************************************************************************)
EXTENDS Administration, TLAPS

\* The stages of requests for an account after its row was loaded, and those of
\* requests for a status.
Storing == {"save", "remove", "hash", "upload"}
StatusStages == {"last", "insert", "find", "rename", "erase"}

\* What is known of a request at each of its stages.
ShapeOf(h) ==
  /\ pc[h] = "idle" => job[h] = None
  /\ pc[h] # "idle" => job[h] \in Job
  /\ pc[h] \in Storing \cup {"load"} => job[h].kind \in UserKinds /\ job[h].user \in Users
  /\ pc[h] = "load" /\ job[h].kind = "password" => job[h].password \in Passwords
  /\ pc[h] \in Storing => Exists(job[h].user)
  /\ pc[h] = "save" => job[h].kind = "patch"
  /\ pc[h] = "hash" => job[h].kind = "password" /\ job[h].password \in Passwords
  /\ pc[h] = "upload" => job[h].kind = "avatar"
  /\ pc[h] \in StatusStages => job[h].kind \in StatusKinds
  /\ pc[h] = "insert" => loc[h].id \in Ids
  /\ pc[h] \in {"find", "rename", "erase"} => job[h].id \in Ids
  /\ pc[h] = "rename" => loc[h].row \in Rows
  /\ loc[h].password = None

Shape == \A h \in Handlers : ShapeOf(h)

TInv == TypeOK /\ Shape

-----------------------------------------------------------------------------
LEMMA JobFacts ==
  /\ None \notin Passwords /\ None \notin Rows /\ None \notin Ids /\ 0 \notin Ids
  /\ None \notin User /\ None \notin Secret /\ Ids \subseteq Nat /\ None # 0
  /\ NoLocals \in Locals /\ NoLocals.password = None
BY ConstantsAssumption, NoneAssumption DEF Ids, NoLocals, Locals

\* What holds of the three variables of requests after a step of h.
Handling == /\ pc \in [Handlers -> Stages] /\ job \in [Handlers -> Job \cup {None}]
            /\ loc \in [Handlers -> Locals]

\* The other requests keep their shape: accounts do not vanish.
LEMMA OthersKeep ==
  ASSUME TInv, NEW h \in Handlers,
         \A g \in Handlers \ {h} : pc'[g] = pc[g] /\ job'[g] = job[g] /\ loc'[g] = loc[g],
         \A u \in Users : Exists(u) => Exists(u)',
         ShapeOf(h)'
  PROVE  Shape'
<1> SUFFICES ASSUME NEW g \in Handlers \ {h} PROVE ShapeOf(g)'
  BY DEF Shape
<1>1. ShapeOf(g)
  BY DEF TInv, Shape
<1> QED
  BY <1>1 DEF ShapeOf

LEMMA FinishEffect ==
  ASSUME TInv, NEW h \in Handlers, Finish(h)
  PROVE  /\ Handling' /\ ShapeOf(h)'
         /\ \A g \in Handlers \ {h} : pc'[g] = pc[g] /\ job'[g] = job[g] /\ loc'[g] = loc[g]
         /\ pc'[h] = "idle" /\ job'[h] = None /\ loc'[h] = NoLocals
<1>1. /\ pc' = [pc EXCEPT ![h] = "idle"] /\ job' = [job EXCEPT ![h] = None]
      /\ loc' = [loc EXCEPT ![h] = NoLocals] /\ Handling
  BY DEF Finish, Goto, TInv, TypeOK, Handling
<1>2. /\ pc'[h] = "idle" /\ job'[h] = None /\ loc'[h] = NoLocals
      /\ \A g \in Handlers \ {h} : pc'[g] = pc[g] /\ job'[g] = job[g] /\ loc'[g] = loc[g]
  BY <1>1 DEF Handling
<1>3. Handling'
  BY <1>1, JobFacts DEF Handling, Stages
<1>4. ShapeOf(h)'
  BY <1>2, JobFacts DEF ShapeOf, Storing, StatusStages
<1> QED
  BY <1>2, <1>3, <1>4

\* A step within a request: the stage and perhaps the locals change.
LEMMA GotoEffect ==
  ASSUME TInv, NEW h \in Handlers, NEW stage \in Stages, NEW l \in Locals,
         Goto(h, stage), loc' = [loc EXCEPT ![h] = l], UNCHANGED job
  PROVE  /\ Handling' /\ pc'[h] = stage /\ loc'[h] = l
         /\ \A g \in Handlers \ {h} : pc'[g] = pc[g] /\ job'[g] = job[g] /\ loc'[g] = loc[g]
BY DEF Goto, TInv, TypeOK, Handling

LEMMA EnterEffect ==
  ASSUME TInv, NEW h \in Handlers, NEW j \in Job, NEW stage \in Stages, Enter(h, j, stage)
  PROVE  /\ Handling' /\ pc[h] = "idle" /\ pc'[h] = stage /\ job'[h] = j /\ loc'[h] = loc[h]
         /\ \A g \in Handlers \ {h} : pc'[g] = pc[g] /\ job'[g] = job[g] /\ loc'[g] = loc[g]
BY DEF Enter, Goto, TInv, TypeOK, Handling

\* What a user change starts with.
LEMMA ChangeUserEffect ==
  ASSUME TInv, NEW h \in Handlers, NEW u \in Users, NEW kind \in UserKinds,
         NEW p \in Passwords \cup {None}, NEW s \in Ids \cup {None}, NEW own \in BOOLEAN,
         ChangeUser(h, u, kind, p, s, own)
  PROVE  /\ Handling' /\ pc[h] = "idle" /\ pc'[h] = "load" /\ loc'[h] = loc[h]
         /\ job'[h] \in Job /\ job'[h].kind = kind /\ job'[h].user = u
         /\ kind = "password" => job'[h].password \in Passwords
         /\ \A g \in Handlers \ {h} : pc'[g] = pc[g] /\ job'[g] = job[g] /\ loc'[g] = loc[g]
<1> DEFINE j == [kind |-> kind, user |-> u, password |-> p, id |-> s, own |-> own]
<1>1. j \in Job /\ "load" \in Stages
  BY DEF Job, Stages
<1>2. Enter(h, j, "load") /\ (kind = "password" => p # None)
  BY DEF ChangeUser
<1>3. j.kind = kind /\ j.user = u /\ j.password = p
  OBVIOUS
<1> HIDE DEF j
<1> QED
  BY <1>1, <1>2, <1>3, EnterEffect

LEMMA ChangeStatusEffect ==
  ASSUME TInv, NEW h \in Handlers, NEW kind \in StatusKinds, NEW s \in Ids \cup {None},
         ChangeStatus(h, kind, s)
  PROVE  /\ Handling' /\ pc[h] = "idle" /\ pc'[h] \in {"last", "find"} /\ loc'[h] = loc[h]
         /\ job'[h] \in Job /\ job'[h].kind = kind /\ job'[h].user = None
         /\ pc'[h] = "find" => job'[h].id \in Ids
         /\ \A g \in Handlers \ {h} : pc'[g] = pc[g] /\ job'[g] = job[g] /\ loc'[g] = loc[g]
<1> DEFINE j == [kind |-> kind, user |-> None, password |-> None, id |-> s, own |-> FALSE]
           stage == IF kind = "addStatus" THEN "last" ELSE "find"
<1>1. j \in Job /\ stage \in Stages
  BY DEF Job, Stages
<1>2. Enter(h, j, stage) /\ (kind = "addStatus" <=> s = None)
  BY DEF ChangeStatus
<1>3. j.kind = kind /\ j.user = None /\ j.id = s /\ stage \in {"last", "find"}
      /\ (stage = "find" => s \in Ids)
  BY <1>2
<1> HIDE DEF j, stage
<1> QED
  BY <1>1, <1>2, <1>3, EnterEffect

LEMMA LoadEffect ==
  ASSUME TInv, NEW h \in Handlers, LoadUser(h), ~Finish(h)
  PROVE  /\ pc[h] = "load" /\ pc'[h] \in Storing /\ job' = job
         /\ job[h].user \in Users /\ Live(job[h].user)
         /\ loc'[h] = Loaded(job[h].user) /\ Handling' /\ ShapeOf(h)'
         /\ \A g \in Handlers \ {h} : pc'[g] = pc[g] /\ job'[g] = job[g] /\ loc'[g] = loc[g]
         /\ UNCHANGED <<users, statuses, unused, given, dirty, tangled>>
<1> DEFINE u == job[h].user
           stage == CASE job[h].kind = "patch"    -> "save"
                      [] job[h].kind = "delete"   -> "remove"
                      [] job[h].kind = "password" -> "hash"
                      [] job[h].kind = "avatar"   -> "upload"
<1>1. /\ pc[h] = "load" /\ job[h].kind \in UserKinds /\ u \in Users /\ job[h] \in Job
      /\ job[h].kind = "password" => job[h].password \in Passwords
  BY DEF LoadUser, TInv, Shape, ShapeOf
<1>2. /\ Findable(u) /\ Goto(h, stage) /\ loc' = [loc EXCEPT ![h] = Loaded(u)] /\ job' = job
      /\ UNCHANGED <<users, statuses, unused, given, dirty, tangled>>
  BY DEF LoadUser
<1>3. /\ stage \in Storing /\ stage \in Stages /\ (stage = "save" => job[h].kind = "patch")
      /\ (stage = "hash" => job[h].kind = "password") /\ (stage = "upload" => job[h].kind = "avatar")
  BY <1>1 DEF Storing, Stages, UserKinds
<1>4. users[u] \in User /\ Live(u)
  BY <1>1, <1>2 DEF Findable, Live, Exists, TInv, TypeOK
<1>5. Loaded(u) \in Locals /\ Loaded(u).password = None
  BY <1>4, JobFacts DEF Loaded, NoLocals, Locals, User
<1> HIDE DEF u, stage
<1>6. /\ Handling' /\ pc'[h] = stage /\ loc'[h] = Loaded(u)
      /\ \A g \in Handlers \ {h} : pc'[g] = pc[g] /\ job'[g] = job[g] /\ loc'[g] = loc[g]
  BY <1>2, <1>3, <1>5, GotoEffect
<1>7. ShapeOf(h)'
  BY <1>1, <1>2, <1>3, <1>4, <1>5, <1>6 DEF ShapeOf, Storing, StatusStages, Live, Exists, u
<1> QED
  BY <1>1, <1>2, <1>3, <1>4, <1>6, <1>7 DEF u

\* What a PATCH stores is a row; its password comes from the request or stays.
LEMMA MergedEffect ==
  ASSUME TInv, NEW h \in Handlers, pc[h] = "save"
  PROVE  /\ job[h].user \in Users /\ users[job[h].user] \in User
         /\ job[h].id \in Ids \cup {None} /\ job[h].password \in Passwords \cup {None}
         /\ Merged(h) \in User /\ ~Merged(h).deleted
         /\ Merged(h).password = IF job[h].password # None THEN PlainSecret(job[h].password)
                                 ELSE users[job[h].user].password
         /\ Merged(h).avatar = loc[h].avatar
         /\ Merged(h).status = IF job[h].id = None THEN loc[h].status ELSE job[h].id
<1>1. /\ job[h] \in Job /\ job[h].user \in Users /\ Exists(job[h].user)
      /\ loc[h].password = None /\ loc[h] \in Locals
  BY DEF TInv, TypeOK, Shape, ShapeOf, Storing
<1>2. /\ users[job[h].user] \in User /\ job[h].id \in Ids \cup {None}
      /\ job[h].password \in Passwords \cup {None}
  BY <1>1 DEF TInv, TypeOK, Exists, Job
<1>3. /\ users[job[h].user].password \in Secret /\ loc[h].avatar \in Avatars \cup {None}
      /\ loc[h].status \in Ids \cup {0}
  BY <1>1, <1>2 DEF User, Locals
<1>4. job[h].password # None => PlainSecret(job[h].password) \in Secret
  BY <1>2 DEF PlainSecret, Secret
<1>5. /\ ~Merged(h).deleted
      /\ Merged(h).password = IF job[h].password # None THEN PlainSecret(job[h].password)
                              ELSE users[job[h].user].password
      /\ Merged(h).avatar = loc[h].avatar
      /\ Merged(h).status = IF job[h].id = None THEN loc[h].status ELSE job[h].id
  BY <1>1 DEF Merged, Or
<1>6. Merged(h) \in User
  BY <1>1, <1>2, <1>3, <1>4 DEF Merged, Or, User
<1> QED
  BY <1>1, <1>2, <1>5, <1>6

LEMMA TypeNext == TInv /\ [Next]_vars => TInv'
<1> SUFFICES ASSUME TInv, [Next]_vars PROVE TInv'
  OBVIOUS
<1>t. /\ users \in [Users -> User \cup {None}] /\ statuses \in [Ids -> Rows \cup {None}]
      /\ given \in [Users -> Rows \cup {None}] /\ unused \subseteq Rows /\ dirty \subseteq Users
      /\ tangled \in BOOLEAN /\ Handling
  BY DEF TInv, TypeOK, Handling
<1>q. ASSUME Handling', Shape', UNCHANGED <<users, statuses, unused, given>>, dirty' \subseteq Users,
             tangled' \in BOOLEAN
      PROVE  TInv'
  BY <1>q, <1>t DEF TInv, TypeOK, Handling
<1>1. ASSUME NEW h \in Handlers, Arrive(h) PROVE TInv'
  <2>1. CASE \E u \in Users, kind \in UserKinds, p \in Passwords \cup {None},
                s \in Ids \cup {None}, own \in BOOLEAN : ChangeUser(h, u, kind, p, s, own)
    <3>1. PICK u \in Users, kind \in UserKinds, p \in Passwords \cup {None},
               s \in Ids \cup {None}, own \in BOOLEAN : ChangeUser(h, u, kind, p, s, own)
      BY <2>1
    <3>2. /\ Handling' /\ pc[h] = "idle" /\ pc'[h] = "load" /\ loc'[h] = loc[h]
          /\ job'[h] \in Job /\ job'[h].kind = kind /\ job'[h].user = u
          /\ kind = "password" => job'[h].password \in Passwords
          /\ \A g \in Handlers \ {h} : pc'[g] = pc[g] /\ job'[g] = job[g] /\ loc'[g] = loc[g]
      BY <3>1, ChangeUserEffect
    <3>3. /\ UNCHANGED <<users, statuses, unused, given, tangled>>
          /\ dirty' \in {dirty, dirty \cup {u}}
      BY <3>1 DEF ChangeUser, Enter
    <3>4. ShapeOf(h)'
      BY <3>2 DEF ShapeOf, Storing, StatusStages, TInv, Shape
    <3>5. Shape'
      BY <3>2, <3>3, <3>4, OthersKeep DEF Exists
    <3> QED
      BY <1>q, <1>t, <3>2, <3>3, <3>5
  <2>2. CASE \E kind \in StatusKinds, s \in Ids \cup {None} : ChangeStatus(h, kind, s)
    <3>1. PICK kind \in StatusKinds, s \in Ids \cup {None} : ChangeStatus(h, kind, s)
      BY <2>2
    <3>2. /\ Handling' /\ pc[h] = "idle" /\ pc'[h] \in {"last", "find"} /\ loc'[h] = loc[h]
          /\ job'[h] \in Job /\ job'[h].kind = kind
          /\ pc'[h] = "find" => job'[h].id \in Ids
          /\ \A g \in Handlers \ {h} : pc'[g] = pc[g] /\ job'[g] = job[g] /\ loc'[g] = loc[g]
      BY <3>1, ChangeStatusEffect
    <3>3. UNCHANGED <<users, statuses, unused, given, dirty>> /\ tangled' \in BOOLEAN
      BY <3>1, <1>t DEF ChangeStatus, Enter
    <3>4. ShapeOf(h)'
      BY <3>2 DEF ShapeOf, Storing, StatusStages, TInv, Shape
    <3>5. Shape'
      BY <3>2, <3>3, <3>4, OthersKeep DEF Exists
    <3> QED
      BY <1>q, <1>t, <3>2, <3>3, <3>5
  <2> QED
    BY <1>1, <2>1, <2>2 DEF Arrive
<1>2. ASSUME NEW h \in Handlers, Finish(h), UNCHANGED <<users, statuses, unused, given, dirty, tangled>>
      PROVE  TInv'
  <2>1. Shape'
    BY <1>2, FinishEffect, OthersKeep DEF Exists
  <2> QED
    BY <1>2, <1>q, <1>t, <2>1, FinishEffect
<1>3. ASSUME NEW h \in Handlers, LoadUser(h) PROVE TInv'
  <2>1. CASE Finish(h)
    BY <1>2, <1>3, <2>1 DEF LoadUser
  <2>2. CASE ~Finish(h)
    <3>1. Shape'
      BY <1>3, <2>2, LoadEffect, OthersKeep DEF Exists
    <3> QED
      BY <1>3, <1>q, <1>t, <2>2, <3>1, LoadEffect
  <2> QED
    BY <2>1, <2>2
<1>4. ASSUME NEW h \in Handlers, Finish(h), users' \in [Users -> User \cup {None}],
             \A u \in Users : Exists(u) => Exists(u)', given' \in [Users -> Rows \cup {None}],
             statuses' \in [Ids -> Rows \cup {None}], unused' \subseteq Rows, UNCHANGED <<dirty, tangled>>
      PROVE  TInv'
  <2>1. Shape'
    BY <1>4, FinishEffect, OthersKeep
  <2>2. Handling'
    BY <1>4, FinishEffect
  <2> QED
    BY <1>4, <1>t, <2>1, <2>2 DEF TInv, TypeOK, Handling
<1>5. ASSUME NEW h \in Handlers, SaveUser(h) PROVE TInv'
  <2>1. CASE UNCHANGED <<users, given>>
    BY <1>2, <1>5, <2>1 DEF SaveUser
  <2>2. CASE ~UNCHANGED <<users, given>>
    <3>1. /\ pc[h] = "save" /\ Finish(h) /\ UNCHANGED <<statuses, unused, dirty, tangled>>
          /\ users' = [users EXCEPT ![job[h].user] = Merged(h)]
          /\ given' = [given EXCEPT ![job[h].user] = IF job[h].id = None THEN @ ELSE statuses[job[h].id]]
      BY <1>5, <2>2 DEF SaveUser
    <3>2. job[h].user \in Users /\ Merged(h) \in User /\ job[h].id \in Ids \cup {None}
      BY <3>1, MergedEffect
    <3>3. users' \in [Users -> User \cup {None}] /\ given' \in [Users -> Rows \cup {None}]
      BY <1>t, <3>1, <3>2
    <3>4. \A u \in Users : Exists(u) => Exists(u)'
      BY <1>t, <3>1, <3>2, JobFacts DEF Exists
    <3> QED
      BY <1>4, <1>t, <3>1, <3>3, <3>4
  <2> QED
    BY <2>1, <2>2
<1>6. ASSUME NEW h \in Handlers, RemoveUser(h) \/ UpdatePassword(h) \/ UpdateAvatar(h) PROVE TInv'
  <2>1. /\ pc[h] \in Storing /\ Finish(h) /\ UNCHANGED <<statuses, unused, given, dirty, tangled>>
        /\ job[h].user \in Users /\ users[job[h].user] \in User
        /\ pc[h] = "hash" => job[h].password \in Passwords
    BY <1>6, <1>t DEF RemoveUser, UpdatePassword, UpdateAvatar, Storing, TInv, Shape, ShapeOf, Exists
  <2>2. PICK new \in User : users' = [users EXCEPT ![job[h].user] = new]
    <3>1. CASE RemoveUser(h)
      <4>1. [users[job[h].user] EXCEPT !.deleted = TRUE] \in User
        BY <2>1 DEF User
      <4> QED
        BY <3>1, <4>1, <1>t, <2>1 DEF RemoveUser
    <3>2. CASE UpdatePassword(h)
      <4>1. [users[job[h].user] EXCEPT !.password = [form |-> "hash", of |-> job[h].password]] \in User
        BY <2>1, <3>2 DEF User, Secret, UpdatePassword
      <4> QED
        BY <3>2, <4>1, <1>t, <2>1 DEF UpdatePassword
    <3>3. CASE UpdateAvatar(h)
      <4>1. PICK a \in Avatars : users' = [users EXCEPT ![job[h].user].avatar = a]
        BY <3>3 DEF UpdateAvatar
      <4>2. [users[job[h].user] EXCEPT !.avatar = a] \in User
        BY <2>1 DEF User
      <4> QED
        BY <4>1, <4>2, <1>t, <2>1
    <3> QED
      BY <1>6, <3>1, <3>2, <3>3
  <2>3. users' \in [Users -> User \cup {None}] /\ \A u \in Users : Exists(u) => Exists(u)'
    BY <1>t, <2>1, <2>2, JobFacts DEF Exists
  <2> QED
    BY <1>4, <1>t, <2>1, <2>3
<1>7. ASSUME NEW h \in Handlers, ReadLast(h) PROVE TInv'
  <2>1. PICK s \in 0..LastId : IsNext(s) /\ loc' = [loc EXCEPT ![h].id = s]
    BY <1>7 DEF ReadLast
  <2>2. s \in Ids
    BY <2>1, ConstantsAssumption DEF IsNext, Ids, Taken
  <2>3. [loc[h] EXCEPT !.id = s] \in Locals /\ [loc[h] EXCEPT !.id = s].password = None
        /\ [loc[h] EXCEPT !.id = s].id = s /\ loc' = [loc EXCEPT ![h] = [loc[h] EXCEPT !.id = s]]
    BY <1>t, <2>1, <2>2 DEF Locals, Handling, TInv, Shape, ShapeOf
  <2>4. /\ pc[h] = "last" /\ Goto(h, "insert") /\ "insert" \in Stages
        /\ UNCHANGED <<users, statuses, unused, job, given, dirty, tangled>>
    BY <1>7 DEF ReadLast, Stages
  <2>5. /\ Handling' /\ pc'[h] = "insert" /\ loc'[h] = [loc[h] EXCEPT !.id = s]
        /\ \A g \in Handlers \ {h} : pc'[g] = pc[g] /\ job'[g] = job[g] /\ loc'[g] = loc[g]
    BY <2>3, <2>4, GotoEffect
  <2>6. ShapeOf(h)'
    BY <2>2, <2>3, <2>4, <2>5 DEF ShapeOf, Storing, StatusStages, TInv, Shape
  <2>7. Shape'
    BY <2>4, <2>5, <2>6, OthersKeep DEF Exists
  <2> QED
    BY <1>q, <1>t, <2>4, <2>5, <2>7
<1>8. ASSUME NEW h \in Handlers, FindStatus(h) PROVE TInv'
  <2>1. CASE Finish(h)
    BY <1>2, <1>8, <2>1 DEF FindStatus
  <2>2. CASE ~Finish(h)
    <3> DEFINE row == statuses[job[h].id]
               stage == IF job[h].kind = "patchStatus" THEN "rename" ELSE "erase"
    <3>1. /\ pc[h] = "find" /\ row # None /\ loc' = [loc EXCEPT ![h].row = row] /\ Goto(h, stage)
          /\ UNCHANGED <<users, statuses, unused, job, given, dirty, tangled>>
      BY <1>8, <2>2 DEF FindStatus
    <3>2. stage \in Stages /\ stage \in {"rename", "erase"} /\ job[h].id \in Ids /\ row \in Rows
      BY <1>t, <3>1 DEF Stages, TInv, Shape, ShapeOf
    <3> HIDE DEF row, stage
    <3>3. [loc[h] EXCEPT !.row = row] \in Locals /\ [loc[h] EXCEPT !.row = row].password = None
          /\ [loc[h] EXCEPT !.row = row].row = row /\ loc' = [loc EXCEPT ![h] = [loc[h] EXCEPT !.row = row]]
      BY <1>t, <3>1, <3>2 DEF Locals, Handling, TInv, Shape, ShapeOf
    <3>4. /\ Handling' /\ pc'[h] = stage /\ loc'[h] = [loc[h] EXCEPT !.row = row]
          /\ \A g \in Handlers \ {h} : pc'[g] = pc[g] /\ job'[g] = job[g] /\ loc'[g] = loc[g]
      BY <3>1, <3>2, <3>3, GotoEffect
    <3>5. ShapeOf(h)'
      BY <3>1, <3>2, <3>3, <3>4 DEF ShapeOf, Storing, StatusStages, TInv, Shape
    <3>6. Shape'
      BY <3>1, <3>4, <3>5, OthersKeep DEF Exists
    <3> QED
      BY <1>q, <1>t, <3>1, <3>4, <3>6
  <2> QED
    BY <2>1, <2>2
<1>9. ASSUME NEW h \in Handlers, InsertStatus(h) \/ RenameStatus(h) \/ EraseStatus(h) PROVE TInv'
  <2>1. /\ Finish(h) /\ UNCHANGED <<users, given, dirty, tangled>> /\ unused' \subseteq Rows
        /\ pc[h] = "rename" => job[h].id \in Ids /\ loc[h].row \in Rows
    BY <1>9, <1>t DEF InsertStatus, RenameStatus, EraseStatus, TInv, Shape, ShapeOf
  <2>2. statuses' \in [Ids -> Rows \cup {None}]
    BY <1>9, <1>t, <2>1 DEF InsertStatus, RenameStatus, EraseStatus
  <2>3. \A u \in Users : Exists(u) => Exists(u)'
    BY <2>1 DEF Exists
  <2> QED
    BY <1>4, <1>t, <2>1, <2>2, <2>3
<1>10. ASSUME NEW u \in Users, NEW p \in Passwords, NEW s \in Ids \cup {0}, CreateUser(u, p, s) PROVE TInv'
  <2>1. [password |-> PlainSecret(p), avatar |-> None, status |-> s, deleted |-> FALSE] \in User
    BY DEF User, PlainSecret, Secret
  <2>2. users' \in [Users -> User \cup {None}] /\ given' \in [Users -> Rows \cup {None}]
    BY <1>10, <1>t, <2>1 DEF CreateUser
  <2>3. \A v \in Users : Exists(v) => Exists(v)'
    BY <1>10, <1>t DEF CreateUser, Exists
  <2>4. UNCHANGED <<statuses, unused, pc, job, loc, dirty, tangled>>
    BY <1>10 DEF CreateUser
  <2>5. Shape'
    BY <2>3, <2>4 DEF TInv, Shape, ShapeOf
  <2> QED
    BY <1>t, <2>2, <2>4, <2>5 DEF TInv, TypeOK, Handling
<1>11. CASE UNCHANGED vars
  BY <1>11 DEF vars, TInv, TypeOK, Shape, ShapeOf, Exists
<1>12. ASSUME NEW h \in Handlers, Step(h) \/ Abort(h) PROVE TInv'
  BY <1>12, <1>2, <1>3, <1>5, <1>6, <1>7, <1>8, <1>9 DEF Step, Abort
<1> QED
  BY <1>1, <1>10, <1>11, <1>12 DEF Next

LEMMA InitTypes == Init => TInv
<1> SUFFICES ASSUME Init PROVE TInv
  OBVIOUS
<1>1. users \in [Users -> User \cup {None}]
  <2>1. [password : [form : {"hash"}, of : Passwords], avatar : {None}, status : {1},
         deleted : {FALSE}] \subseteq User
    <3>1. [form : {"hash"}, of : Passwords] \subseteq Secret
      BY DEF Secret
    <3>2. 1 \in Ids
      BY ConstantsAssumption DEF Ids
    <3> QED
      BY <3>1, <3>2 DEF User
  <2> QED
    BY <2>1 DEF Init
<1>2. statuses \in [Ids -> Rows \cup {None}] /\ unused \subseteq Rows /\ given \in [Users -> Rows \cup {None}]
  BY DEF Init
<1>3. Handling
  BY JobFacts DEF Init, Handling, Stages
<1>4. Shape
  BY JobFacts DEF Init, Shape, ShapeOf, Storing, StatusStages
<1> QED
  BY <1>1, <1>2, <1>3, <1>4 DEF Init, TInv, TypeOK, Handling

\* The tables and the requests keep their types.
THEOREM TypeCorrect == Spec => []TypeOK
<1>1. TInv => TypeOK
  BY DEF TInv
<1> QED
  BY <1>1, InitTypes, TypeNext, PTL DEF Spec

-----------------------------------------------------------------------------
\* Only the request that stores a password carries it.
LEMMA PasswordStep == TInv /\ [Next]_vars => StoresCarried
<1> SUFFICES ASSUME TInv, [Next]_vars, NEW u \in Users, Exists(u),
                    users'[u].password # users[u].password
             PROVE  \E h \in Handlers : /\ pc[h] # "idle" /\ pc'[h] = "idle" /\ job[h].user = u
                                        /\ job[h].password = users'[u].password.of
  BY DEF StoresCarried
<1>t. users \in [Users -> User \cup {None}] /\ users[u] \in User
  BY DEF TInv, TypeOK, Exists
<1>1. ASSUME NEW h \in Handlers, SaveUser(h)
      PROVE  /\ pc[h] # "idle" /\ pc'[h] = "idle" /\ job[h].user = u
             /\ job[h].password = users'[u].password.of
  <2>1. /\ pc[h] = "save" /\ Finish(h) /\ users' = [users EXCEPT ![job[h].user] = Merged(h)]
    BY <1>1 DEF SaveUser
  <2>2. job[h].user = u /\ users'[u] = Merged(h)
    BY <1>t, <2>1
  <2>3. users'[u].password = PlainSecret(job[h].password)
    BY <2>1, <2>2, MergedEffect
  <2> QED
    BY <2>1, <2>2, <2>3, FinishEffect DEF PlainSecret
<1>2. ASSUME NEW h \in Handlers, UpdatePassword(h)
      PROVE  /\ pc[h] # "idle" /\ pc'[h] = "idle" /\ job[h].user = u
             /\ job[h].password = users'[u].password.of
  <2>1. /\ pc[h] = "hash" /\ Finish(h)
        /\ users' = [users EXCEPT ![job[h].user].password = [form |-> "hash", of |-> job[h].password]]
    BY <1>2 DEF UpdatePassword
  <2>2. job[h].user = u /\ users'[u].password = [form |-> "hash", of |-> job[h].password]
    BY <1>t, <2>1 DEF User
  <2> QED
    BY <2>1, <2>2, FinishEffect
<1>3. ASSUME NEW h \in Handlers, RemoveUser(h) \/ UpdateAvatar(h) PROVE FALSE
  <2>1. CASE RemoveUser(h)
    BY <2>1, <1>t DEF RemoveUser, User
  <2>2. CASE UpdateAvatar(h)
    <3>1. PICK a \in Avatars : users' = [users EXCEPT ![job[h].user].avatar = a]
      BY <2>2 DEF UpdateAvatar
    <3> QED
      BY <3>1, <1>t DEF User
  <2> QED
    BY <1>3, <2>1, <2>2
<1>4. ASSUME NEW v \in Users, NEW p \in Passwords, NEW s \in Ids \cup {0}, CreateUser(v, p, s) PROVE FALSE
  BY <1>4, <1>t DEF CreateUser, Exists
<1>5. ASSUME UNCHANGED users PROVE FALSE
  BY <1>5
<1> QED
  BY <1>1, <1>2, <1>3, <1>4, <1>5 DEF Next, Arrive, ChangeUser, ChangeStatus, Enter, Step, Abort,
     LoadUser, ReadLast, InsertStatus, FindStatus, RenameStatus, EraseStatus, vars

\* However PATCH, password and avatar requests of one account interleave, no
\* password is stored that its request does not carry.
THEOREM PasswordCarried == Spec => PasswordOnlyCarried
<1> QED
  BY InitTypes, TypeNext, PasswordStep, PTL DEF Spec, PasswordOnlyCarried

-----------------------------------------------------------------------------
\* Of an account without overlaps one request at most is in flight, and what
\* a PATCH has loaded of it is what is stored.
Alone ==
  \A g, h \in Handlers :
    /\ pc[g] # "idle" /\ pc[h] # "idle" /\ job[g].user = job[h].user
    /\ job[g].user \in Users \ dirty
    => g = h

LoadedNow(h) ==
  /\ loc[h].avatar = users[job[h].user].avatar
  /\ loc[h].status = users[job[h].user].status
  /\ ~users[job[h].user].deleted

Current == \A h \in Handlers : pc[h] = "save" /\ job[h].user \notin dirty => LoadedNow(h)

AInv == TInv /\ Alone /\ Current

\* A step of h in the middle of its request leaves nobody less alone.
LEMMA AloneKept ==
  ASSUME TInv, Alone, NEW h \in Handlers, pc[h] # "idle", dirty' = dirty,
         \A g \in Handlers \ {h} : pc'[g] = pc[g] /\ job'[g] = job[g],
         pc'[h] # "idle" => job'[h] = job[h]
  PROVE  Alone'
BY DEF Alone

\* A step of h that changes at most the row of its own account leaves what the
\* others have loaded.
LEMMA OthersCurrent ==
  ASSUME AInv, NEW h \in Handlers, pc[h] # "idle", pc[h] \notin StatusStages, dirty' = dirty,
         \A g \in Handlers \ {h} : pc'[g] = pc[g] /\ job'[g] = job[g] /\ loc'[g] = loc[g],
         \A u \in Users \ {job[h].user} : users'[u] = users[u],
         pc'[h] # "save"
  PROVE  Current'
<1> SUFFICES ASSUME NEW g \in Handlers, pc'[g] = "save", job'[g].user \notin dirty'
             PROVE  LoadedNow(g)'
  BY DEF Current
<1>1. g # h /\ pc[g] = "save" /\ job'[g] = job[g] /\ loc'[g] = loc[g] /\ job[g].user \notin dirty
  OBVIOUS
<1>2. job[g].user \in Users /\ LoadedNow(g)
  BY <1>1 DEF AInv, TInv, Shape, ShapeOf, Storing, Current
<1>3. job[g].user # job[h].user
  BY <1>1, <1>2 DEF AInv, Alone
<1> QED
  BY <1>1, <1>2, <1>3 DEF LoadedNow

LEMMA AInvNext == AInv /\ [Next]_vars => AInv'
<1> SUFFICES ASSUME AInv, [Next]_vars PROVE Alone' /\ Current'
  BY TypeNext DEF AInv
<1>t. TInv /\ Alone /\ Current /\ users \in [Users -> User \cup {None}]
  BY DEF AInv, TInv, TypeOK
<1>1. ASSUME NEW h \in Handlers, NEW u \in Users, NEW kind \in UserKinds,
             NEW p \in Passwords \cup {None}, NEW s \in Ids \cup {None}, NEW own \in BOOLEAN,
             ChangeUser(h, u, kind, p, s, own)
      PROVE  Alone' /\ Current'
  <2>1. /\ pc[h] = "idle" /\ pc'[h] = "load" /\ job'[h].user = u
        /\ \A g \in Handlers \ {h} : pc'[g] = pc[g] /\ job'[g] = job[g] /\ loc'[g] = loc[g]
    BY <1>1, <1>t, ChangeUserEffect
  <2>2. /\ users' = users
        /\ dirty' = IF \E g \in Handlers : pc[g] # "idle" /\ job[g].user = u THEN dirty \cup {u} ELSE dirty
    BY <1>1 DEF ChangeUser, Enter
  <2>3. Alone'
    BY <1>t, <2>1, <2>2 DEF Alone
  <2>4. Current'
    BY <1>t, <2>1, <2>2 DEF Current, LoadedNow
  <2> QED
    BY <2>3, <2>4
<1>2. ASSUME NEW h \in Handlers, NEW kind \in StatusKinds, NEW s \in Ids \cup {None}, ChangeStatus(h, kind, s)
      PROVE  Alone' /\ Current'
  <2>1. /\ pc[h] = "idle" /\ pc'[h] \in {"last", "find"} /\ job'[h].user = None
        /\ \A g \in Handlers \ {h} : pc'[g] = pc[g] /\ job'[g] = job[g] /\ loc'[g] = loc[g]
    BY <1>2, <1>t, ChangeStatusEffect
  <2>2. users' = users /\ dirty' = dirty
    BY <1>2 DEF ChangeStatus, Enter
  <2>3. Current'
    BY <1>t, <2>1, <2>2 DEF Current, LoadedNow
  <2>4. Alone'
    BY <1>t, <2>1, <2>2, ConstantsAssumption DEF Alone
  <2> QED
    BY <2>3, <2>4
<1>3. ASSUME NEW h \in Handlers, LoadUser(h), ~Finish(h) PROVE Alone' /\ Current'
  <2>1. /\ pc[h] = "load" /\ pc'[h] \in Storing /\ job' = job /\ users' = users /\ dirty' = dirty
        /\ job[h].user \in Users /\ Live(job[h].user) /\ loc'[h] = Loaded(job[h].user)
        /\ \A g \in Handlers \ {h} : pc'[g] = pc[g] /\ job'[g] = job[g] /\ loc'[g] = loc[g]
    BY <1>3, <1>t, LoadEffect
  <2>2. Alone'
    BY <1>t, <2>1, AloneKept
  <2>3. LoadedNow(h)'
    BY <2>1 DEF LoadedNow, Loaded, NoLocals, Live
  <2>4. Current'
    BY <1>t, <2>1, <2>3 DEF Current, LoadedNow
  <2> QED
    BY <2>2, <2>4
<1>4. ASSUME NEW h \in Handlers, Finish(h), pc[h] # "idle", UNCHANGED <<users, dirty>>
      PROVE  Alone' /\ Current'
  <2>1. Alone'
    BY <1>4, <1>t, FinishEffect, AloneKept
  <2>2. Current'
    BY <1>4, <1>t, FinishEffect DEF Current, LoadedNow
  <2> QED
    BY <2>1, <2>2
<1>5. ASSUME NEW h \in Handlers, SaveUser(h) \/ RemoveUser(h) \/ UpdatePassword(h) \/ UpdateAvatar(h)
      PROVE  Alone' /\ Current'
  <2>1. /\ pc[h] \in Storing /\ Finish(h) /\ dirty' = dirty
        /\ \A u \in Users \ {job[h].user} : users'[u] = users[u]
    <3>1. CASE SaveUser(h)
      BY <3>1, <1>t DEF SaveUser, Storing
    <3>2. CASE RemoveUser(h)
      BY <3>2, <1>t DEF RemoveUser, Storing
    <3>3. CASE UpdatePassword(h)
      BY <3>3, <1>t DEF UpdatePassword, Storing
    <3>4. CASE UpdateAvatar(h)
      BY <3>4, <1>t DEF UpdateAvatar, Storing
    <3> QED
      BY <1>5, <3>1, <3>2, <3>3, <3>4
  <2>2. Alone'
    BY <2>1, <1>t, FinishEffect, AloneKept DEF Storing
  <2>3. Current'
    BY <2>1, <1>t, FinishEffect, OthersCurrent DEF Storing, StatusStages
  <2> QED
    BY <2>2, <2>3
<1>6. ASSUME NEW h \in Handlers, ReadLast(h) \/ FindStatus(h), ~Finish(h) PROVE Alone' /\ Current'
  <2>1. /\ pc[h] \in {"last", "find"} /\ pc'[h] \in {"insert", "rename", "erase"}
        /\ job' = job /\ users' = users /\ dirty' = dirty
        /\ \A g \in Handlers \ {h} : pc'[g] = pc[g] /\ loc'[g] = loc[g]
    BY <1>6, <1>t DEF ReadLast, FindStatus, Goto, TInv, TypeOK
  <2>2. Alone'
    BY <1>t, <2>1, AloneKept
  <2>3. Current'
    BY <1>t, <2>1 DEF Current, LoadedNow
  <2> QED
    BY <2>2, <2>3
<1>7. ASSUME NEW u \in Users, NEW p \in Passwords, NEW s \in Ids \cup {0}, CreateUser(u, p, s)
      PROVE  Alone' /\ Current'
  <2>1. /\ ~Exists(u) /\ UNCHANGED <<pc, job, loc, dirty>> /\ \A v \in Users \ {u} : users'[v] = users[v]
    BY <1>7, <1>t DEF CreateUser
  <2>2. \A h \in Handlers : pc[h] = "save" => job[h].user \in Users \ {u}
    BY <1>t, <2>1 DEF TInv, Shape, ShapeOf, Storing
  <2>3. Current'
    BY <1>t, <2>1, <2>2 DEF Current, LoadedNow
  <2> QED
    BY <1>t, <2>1, <2>3 DEF Alone
<1>8. CASE UNCHANGED vars
  BY <1>8, <1>t DEF vars, Alone, Current, LoadedNow
<1> QED
  BY <1>1, <1>2, <1>3, <1>4, <1>5, <1>6, <1>7, <1>8 DEF Next, Arrive, Step, Abort,
     LoadUser, ReadLast, InsertStatus, FindStatus, RenameStatus, EraseStatus

LEMMA AInvAlways == Spec => []AInv
<1>1. Init => AInv
  BY InitTypes DEF Init, AInv, Alone, Current
<1> QED
  BY <1>1, AInvNext, PTL DEF Spec

\* What each action does to the avatar and the deletion of one account.
LEMMA RowStep ==
  ASSUME AInv, [Next]_vars, NEW u \in Users \ dirty, Exists(u)
  PROVE  /\ users[u].deleted => users'[u].deleted
         /\ users'[u].avatar # users[u].avatar
              => \E h \in Handlers : /\ pc[h] # "idle" /\ pc'[h] = "idle"
                                     /\ job[h].kind = "avatar" /\ job[h].user = u
<1> DEFINE Uploaded == \E h \in Handlers : /\ pc[h] # "idle" /\ pc'[h] = "idle"
                                           /\ job[h].kind = "avatar" /\ job[h].user = u
           Goal == /\ users[u].deleted => users'[u].deleted
                   /\ users'[u].avatar # users[u].avatar => Uploaded
<1>t. TInv /\ users \in [Users -> User \cup {None}] /\ users[u] \in User
  BY DEF AInv, TInv, TypeOK, Exists
<1>1. ASSUME NEW h \in Handlers, SaveUser(h) PROVE Goal
  <2>1. CASE users' = [users EXCEPT ![job[h].user] = Merged(h)] /\ job[h].user = u
    <3>1. pc[h] = "save"
      BY <1>1 DEF SaveUser
    <3>2. LoadedNow(h)
      BY <2>1, <3>1 DEF AInv, Current
    <3>3. Merged(h).avatar = loc[h].avatar /\ users'[u] = Merged(h)
      BY <1>t, <2>1, <3>1, MergedEffect
    <3> QED
      BY <2>1, <3>2, <3>3 DEF LoadedNow
  <2>2. CASE ~(users' = [users EXCEPT ![job[h].user] = Merged(h)] /\ job[h].user = u)
    BY <1>1, <1>t, <2>2 DEF SaveUser
  <2> QED
    BY <2>1, <2>2
<1>2. ASSUME NEW h \in Handlers, RemoveUser(h) PROVE Goal
  BY <1>2, <1>t DEF RemoveUser, User
<1>3. ASSUME NEW h \in Handlers, UpdatePassword(h) PROVE Goal
  BY <1>3, <1>t DEF UpdatePassword, User
<1>4. ASSUME NEW h \in Handlers, UpdateAvatar(h) PROVE Goal
  <2>1. PICK a \in Avatars : users' = [users EXCEPT ![job[h].user].avatar = a]
    BY <1>4 DEF UpdateAvatar
  <2>2. pc[h] = "upload" /\ Finish(h) /\ job[h].kind = "avatar"
    BY <1>4, <1>t DEF UpdateAvatar, TInv, Shape, ShapeOf
  <2>3. pc'[h] = "idle"
    BY <1>t, <2>2, FinishEffect
  <2>4. users'[u].deleted = users[u].deleted /\ (users'[u].avatar # users[u].avatar => job[h].user = u)
    BY <1>t, <2>1 DEF User
  <2> QED
    BY <2>2, <2>3, <2>4
<1>5. ASSUME NEW v \in Users, NEW p \in Passwords, NEW s \in Ids \cup {0}, CreateUser(v, p, s) PROVE Goal
  BY <1>5, <1>t DEF CreateUser, Exists
<1>6. ASSUME UNCHANGED users PROVE Goal
  BY <1>6
<1> QED
  BY <1>1, <1>2, <1>3, <1>4, <1>5, <1>6 DEF Next, Arrive, ChangeUser, ChangeStatus, Enter, Step, Abort,
     LoadUser, ReadLast, InsertStatus, FindStatus, RenameStatus, EraseStatus, vars

\* No PATCH brings back an older avatar, unless it overlapped the upload.
THEOREM AvatarUploaded == Spec => AvatarOnlyUploaded
<1>1. AInv /\ [Next]_vars => StoresUploaded
  BY RowStep DEF StoresUploaded
<1> QED
  BY <1>1, AInvAlways, PTL DEF Spec, AvatarOnlyUploaded

\* No PATCH brings a deleted account back, unless it overlapped the deletion.
THEOREM RemovalStays == Spec => RemovalLasts
<1>1. AInv /\ [Next]_vars => StaysRemoved
  BY RowStep DEF StaysRemoved
<1> QED
  BY <1>1, AInvAlways, PTL DEF Spec, RemovalLasts

-----------------------------------------------------------------------------
\* Without overlaps one request at most is about the status table, and what it
\* has read there is what is stored.
StatusAlone ==
  ~tangled => \A g, h \in Handlers :
    /\ pc[g] # "idle" /\ pc[h] # "idle"
    /\ job[g].kind \in StatusKinds /\ job[h].kind \in StatusKinds
    => g = h

StatusCurrent ==
  ~tangled => \A h \in Handlers :
    /\ pc[h] = "rename" => loc[h].row = statuses[job[h].id]
    /\ pc[h] = "insert" => statuses[loc[h].id] = None

\* What the foreign key keeps.
References ==
  \A u \in Users : Exists(u) /\ users[u].status # 0 => statuses[users[u].status] # None

SInv == StatusAlone /\ StatusCurrent

MInv == AInv /\ SInv /\ References /\ StatusMeant

\* A step that leaves the status table alone, of a request h that is under way
\* or about to be.
LEMMA SInvKept ==
  ASSUME TInv, SInv, UNCHANGED <<statuses, tangled>>, NEW h \in Handlers,
         \A g \in Handlers \ {h} : pc'[g] = pc[g] /\ job'[g] = job[g] /\ loc'[g] = loc[g],
         pc'[h] \notin {"rename", "insert"},
         pc'[h] # "idle" => (job'[h].kind \in StatusKinds => pc[h] # "idle" /\ job[h].kind \in StatusKinds)
  PROVE  SInv'
<1>1. StatusAlone'
  BY DEF SInv, StatusAlone
<1>2. StatusCurrent'
  BY DEF SInv, StatusCurrent
<1> QED
  BY <1>1, <1>2 DEF SInv

\* A finished request that changed the status table: alone, unless tangled.
LEMMA SInvFinished ==
  ASSUME TInv, SInv, NEW h \in Handlers, Finish(h), tangled' = tangled, pc[h] \in StatusStages
  PROVE  SInv'
<1>1. /\ pc'[h] = "idle"
      /\ \A g \in Handlers \ {h} : pc'[g] = pc[g] /\ job'[g] = job[g] /\ loc'[g] = loc[g]
  BY FinishEffect
<1>2. StatusAlone'
  BY <1>1 DEF SInv, StatusAlone
<1>3. ~tangled => \A g \in Handlers \ {h} : pc[g] \notin {"rename", "insert"}
  BY DEF SInv, StatusAlone, TInv, Shape, ShapeOf, StatusStages
<1>4. StatusCurrent'
  BY <1>1, <1>3 DEF StatusCurrent
<1> QED
  BY <1>2, <1>4 DEF SInv

LEMMA SInvNext == TInv /\ SInv /\ [Next]_vars => SInv'
<1> SUFFICES ASSUME TInv, SInv, [Next]_vars PROVE SInv'
  OBVIOUS
<1>1. ASSUME NEW h \in Handlers, NEW u \in Users, NEW kind \in UserKinds,
             NEW p \in Passwords \cup {None}, NEW s \in Ids \cup {None}, NEW own \in BOOLEAN,
             ChangeUser(h, u, kind, p, s, own)
      PROVE  SInv'
  <2>1. UNCHANGED <<statuses, tangled>> /\ kind \notin StatusKinds
    BY <1>1 DEF ChangeUser, Enter, UserKinds, StatusKinds
  <2> QED
    BY <1>1, <2>1, ChangeUserEffect, SInvKept
<1>2. ASSUME NEW h \in Handlers, NEW kind \in StatusKinds, NEW s \in Ids \cup {None}, ChangeStatus(h, kind, s)
      PROVE  SInv'
  <2>1. /\ pc[h] = "idle" /\ pc'[h] \in {"last", "find"}
        /\ \A g \in Handlers \ {h} : pc'[g] = pc[g] /\ job'[g] = job[g] /\ loc'[g] = loc[g]
    BY <1>2, ChangeStatusEffect
  <2>2. /\ statuses' = statuses
        /\ tangled' = (tangled \/ \E g \in Handlers : pc[g] # "idle" /\ job[g].kind \in StatusKinds)
    BY <1>2 DEF ChangeStatus, Enter
  <2>3. StatusAlone'
    BY <2>1, <2>2 DEF StatusAlone
  <2>4. StatusCurrent'
    BY <2>1, <2>2 DEF SInv, StatusCurrent
  <2> QED
    BY <2>3, <2>4 DEF SInv
<1>3. ASSUME NEW h \in Handlers, LoadUser(h), ~Finish(h) PROVE SInv'
  <2>1. pc[h] = "load" /\ pc'[h] \in Storing /\ job' = job /\ UNCHANGED <<statuses, tangled>>
        /\ \A g \in Handlers \ {h} : pc'[g] = pc[g] /\ job'[g] = job[g] /\ loc'[g] = loc[g]
    BY <1>3, LoadEffect
  <2> QED
    BY <2>1, SInvKept DEF Storing
<1>4. ASSUME NEW h \in Handlers, Finish(h), UNCHANGED <<statuses, tangled>> PROVE SInv'
  <2>1. /\ pc'[h] = "idle"
        /\ \A g \in Handlers \ {h} : pc'[g] = pc[g] /\ job'[g] = job[g] /\ loc'[g] = loc[g]
    BY <1>4, FinishEffect
  <2> QED
    BY <1>4, <2>1, SInvKept
<1>5. ASSUME NEW h \in Handlers, ReadLast(h) PROVE SInv'
  <2>1. PICK s \in 0..LastId : IsNext(s) /\ loc' = [loc EXCEPT ![h].id = s]
    BY <1>5 DEF ReadLast
  <2>2. s \in Ids /\ statuses[s] = None
    BY <2>1, ConstantsAssumption DEF IsNext, Ids, Taken
  <2>3. /\ pc[h] = "last" /\ pc'[h] = "insert" /\ job' = job /\ UNCHANGED <<statuses, tangled>>
        /\ loc'[h].id = s
        /\ \A g \in Handlers \ {h} : pc'[g] = pc[g] /\ loc'[g] = loc[g]
    BY <1>5, <2>1 DEF ReadLast, Goto, TInv, TypeOK, Locals
  <2>4. StatusAlone'
    BY <2>3 DEF SInv, StatusAlone
  <2>5. StatusCurrent'
    BY <2>2, <2>3 DEF SInv, StatusCurrent
  <2> QED
    BY <2>4, <2>5 DEF SInv
<1>6. ASSUME NEW h \in Handlers, FindStatus(h), ~Finish(h) PROVE SInv'
  <2>1. /\ pc[h] = "find" /\ pc'[h] \in {"rename", "erase"} /\ job' = job /\ UNCHANGED <<statuses, tangled>>
        /\ loc'[h].row = statuses[job[h].id]
        /\ \A g \in Handlers \ {h} : pc'[g] = pc[g] /\ loc'[g] = loc[g]
    BY <1>6 DEF FindStatus, Goto, TInv, TypeOK, Locals
  <2>2. StatusAlone'
    BY <2>1 DEF SInv, StatusAlone
  <2>3. StatusCurrent'
    BY <2>1 DEF SInv, StatusCurrent
  <2> QED
    BY <2>2, <2>3 DEF SInv
<1>7. ASSUME NEW h \in Handlers, InsertStatus(h) \/ RenameStatus(h) \/ EraseStatus(h) PROVE SInv'
  <2>1. Finish(h) /\ tangled' = tangled /\ pc[h] \in StatusStages
    BY <1>7 DEF InsertStatus, RenameStatus, EraseStatus, StatusStages
  <2> QED
    BY <2>1, SInvFinished
<1>8. ASSUME NEW u \in Users, NEW p \in Passwords, NEW s \in Ids \cup {0}, CreateUser(u, p, s) PROVE SInv'
  BY <1>8 DEF CreateUser, SInv, StatusAlone, StatusCurrent
<1>9. CASE UNCHANGED vars
  BY <1>9 DEF vars, SInv, StatusAlone, StatusCurrent
<1>10. ASSUME NEW h \in Handlers, \/ SaveUser(h) \/ RemoveUser(h) \/ UpdatePassword(h)
                                  \/ UpdateAvatar(h) \/ Abort(h)
       PROVE  Finish(h) /\ UNCHANGED <<statuses, tangled>>
  BY <1>10 DEF SaveUser, RemoveUser, UpdatePassword, UpdateAvatar, Abort
<1>11. ASSUME NEW h \in Handlers, LoadUser(h) \/ FindStatus(h) PROVE UNCHANGED <<statuses, tangled>>
  BY <1>11 DEF LoadUser, FindStatus
<1> QED
  BY <1>1, <1>2, <1>3, <1>4, <1>5, <1>6, <1>7, <1>8, <1>9, <1>10, <1>11 DEF Next, Arrive, Step

\* The account a request stores, and the row its status is.
LEMMA MeantNext == MInv /\ [Next]_vars => References' /\ StatusMeant'
<1> SUFFICES ASSUME MInv, [Next]_vars PROVE References' /\ StatusMeant'
  OBVIOUS
<1>t. /\ TInv /\ users \in [Users -> User \cup {None}] /\ statuses \in [Ids -> Rows \cup {None}]
      /\ given \in [Users -> Rows \cup {None}]
  BY DEF MInv, AInv, TInv, TypeOK
<1>i. References /\ StatusMeant
  BY DEF MInv
<1>s. \A u \in Users : Exists(u) => users[u] \in User /\ users[u].status \in Ids \cup {0}
  BY <1>t DEF Exists, User
<1>1. ASSUME UNCHANGED <<users, statuses, given>>, dirty \subseteq dirty', tangled => tangled'
      PROVE  References' /\ StatusMeant'
  BY <1>1, <1>i DEF References, StatusMeant, Exists
<1>2. ASSUME NEW h \in Handlers, SaveUser(h), ~UNCHANGED <<users, given>>
      PROVE  References' /\ StatusMeant'
  <2> DEFINE v == job[h].user
             new == Merged(h)
  <2>1. /\ pc[h] = "save" /\ Referable(new.status) /\ UNCHANGED <<statuses, dirty, tangled>>
        /\ users' = [users EXCEPT ![v] = new]
        /\ given' = [given EXCEPT ![v] = IF job[h].id = None THEN @ ELSE statuses[job[h].id]]
    BY <1>2 DEF SaveUser
  <2>2. /\ v \in Users /\ users[v] \in User /\ new.status = IF job[h].id = None THEN loc[h].status ELSE job[h].id
        /\ job[h].id \in Ids \cup {None}
    BY <1>t, <2>1, MergedEffect
  <2>3. v \notin dirty => loc[h].status = users[v].status
    BY <2>1 DEF MInv, AInv, Current, LoadedNow
  <2>4. Exists(v) 
    BY <1>t, <2>2, JobFacts DEF Exists
  <2> HIDE DEF v, new
  <2>5. /\ users'[v] = new /\ given'[v] = IF job[h].id = None THEN given[v] ELSE statuses[job[h].id]
        /\ \A u \in Users \ {v} : users'[u] = users[u] /\ given'[u] = given[u]
    BY <1>t, <2>1, <2>2
  <2>6. References'
    BY <1>i, <2>1, <2>5 DEF References, Referable, Exists
  <2>7. ~tangled /\ v \notin dirty /\ new.status # 0 => statuses[new.status] = given'[v]
    BY <1>i, <2>2, <2>3, <2>4, <2>5 DEF StatusMeant
  <2>8. StatusMeant'
    BY <1>i, <2>1, <2>5, <2>7 DEF StatusMeant, Exists
  <2> QED
    BY <2>6, <2>8
<1>3. ASSUME NEW h \in Handlers, RemoveUser(h) \/ UpdatePassword(h) \/ UpdateAvatar(h)
      PROVE  References' /\ StatusMeant'
  <2>1. UNCHANGED <<statuses, given, dirty, tangled>>
    BY <1>3 DEF RemoveUser, UpdatePassword, UpdateAvatar
  <2>2. \A u \in Users : /\ Exists(u)' => Exists(u)
                         /\ Exists(u) => users'[u].status = users[u].status
    <3>1. CASE RemoveUser(h)
      BY <3>1, <1>t, <1>s DEF RemoveUser, User, TInv, Shape, ShapeOf, Storing, Exists
    <3>2. CASE UpdatePassword(h)
      BY <3>2, <1>t, <1>s DEF UpdatePassword, User, TInv, Shape, ShapeOf, Storing, Exists
    <3>3. CASE UpdateAvatar(h)
      <4>1. PICK a \in Avatars : users' = [users EXCEPT ![job[h].user].avatar = a]
        BY <3>3 DEF UpdateAvatar
      <4>2. Exists(job[h].user)
        BY <3>3, <1>t DEF UpdateAvatar, TInv, Shape, ShapeOf, Storing
      <4> QED
        BY <4>1, <4>2, <1>t, <1>s DEF User, Exists
    <3> QED
      BY <1>3, <3>1, <3>2, <3>3
  <2>3. References'
    BY <1>i, <2>1, <2>2 DEF References
  <2>4. StatusMeant'
    <3> SUFFICES ASSUME ~tangled', NEW u \in Users \ dirty', Exists(u)', users'[u].status # 0
                 PROVE  statuses'[users'[u].status] = given'[u]
      BY DEF StatusMeant
    <3>1. ~tangled /\ u \notin dirty /\ Exists(u) /\ users'[u].status = users[u].status
      BY <2>1, <2>2
    <3> QED
      BY <1>i, <2>1, <3>1 DEF StatusMeant
  <2> QED
    BY <2>3, <2>4
<1>4. ASSUME NEW h \in Handlers, InsertStatus(h) PROVE References' /\ StatusMeant'
  <2>1. PICK r \in Rows : statuses' = [statuses EXCEPT ![loc[h].id] = r]
    BY <1>4, <1>t DEF InsertStatus, TInv, TypeOK
  <2>2. /\ loc[h].id \in Ids /\ UNCHANGED <<users, given, dirty, tangled>> /\ r # None
        /\ ~tangled => statuses[loc[h].id] = None
    BY <1>4, <1>t, JobFacts DEF InsertStatus, TInv, Shape, ShapeOf, MInv, SInv, StatusCurrent
  <2>3. References'
    BY <1>i, <1>t, <1>s, <2>1, <2>2 DEF References, Exists
  <2>4. StatusMeant'
    BY <1>i, <1>t, <1>s, <2>1, <2>2 DEF References, StatusMeant, Exists
  <2> QED
    BY <2>3, <2>4
<1>5. ASSUME NEW h \in Handlers, RenameStatus(h) PROVE References' /\ StatusMeant'
  <2>1. /\ job[h].id \in Ids /\ loc[h].row \in Rows /\ UNCHANGED <<users, given, dirty, tangled>>
        /\ statuses' = [statuses EXCEPT ![job[h].id] = loc[h].row]
        /\ ~tangled => statuses[job[h].id] = loc[h].row
    BY <1>5, <1>t DEF RenameStatus, TInv, Shape, ShapeOf, MInv, SInv, StatusCurrent
  <2>2. References'
    BY <1>i, <1>t, <1>s, <2>1, JobFacts DEF References, Exists
  <2>3. StatusMeant'
    BY <1>i, <1>t, <1>s, <2>1 DEF StatusMeant, Exists
  <2> QED
    BY <2>2, <2>3
<1>6. ASSUME NEW h \in Handlers, EraseStatus(h) PROVE References' /\ StatusMeant'
  <2>1. CASE UNCHANGED statuses
    BY <1>1, <1>6, <2>1 DEF EraseStatus
  <2>2. CASE ~UNCHANGED statuses
    <3>1. /\ ~Referred(job[h].id) /\ statuses' = [statuses EXCEPT ![job[h].id] = None]
          /\ UNCHANGED <<users, given, dirty, tangled>>
      BY <1>6, <2>2 DEF EraseStatus
    <3>2. \A u \in Users : Exists(u) /\ users[u].status # 0 => statuses'[users[u].status] = statuses[users[u].status]
      BY <1>t, <1>s, <3>1 DEF Referred
    <3> QED
      BY <1>i, <3>1, <3>2 DEF References, StatusMeant, Exists
  <2> QED
    BY <2>1, <2>2
<1>7. ASSUME NEW u \in Users, NEW p \in Passwords, NEW s \in Ids \cup {0}, CreateUser(u, p, s)
      PROVE  References' /\ StatusMeant'
  <2>1. /\ Referable(s) /\ UNCHANGED <<statuses, dirty, tangled>>
        /\ users'[u].status = s /\ given'[u] = IF s = 0 THEN None ELSE statuses[s]
        /\ \A v \in Users \ {u} : users'[v] = users[v] /\ given'[v] = given[v]
    BY <1>7, <1>t DEF CreateUser
  <2> QED
    BY <1>i, <2>1 DEF References, StatusMeant, Referable, Exists
<1>8. ASSUME NEW h \in Handlers, \/ Arrive(h) \/ LoadUser(h) \/ ReadLast(h) \/ FindStatus(h) \/ Abort(h)
      PROVE  UNCHANGED <<users, statuses, given>> /\ dirty \subseteq dirty' /\ (tangled => tangled')
  <2>1. CASE Arrive(h)
    <3>1. UNCHANGED <<users, statuses, given>> /\ dirty \subseteq dirty'
      BY <2>1 DEF Arrive, ChangeUser, ChangeStatus, Enter
    <3>2. tangled => tangled'
      BY <2>1 DEF Arrive, ChangeUser, ChangeStatus
    <3> QED
      BY <3>1, <3>2
  <2>2. CASE LoadUser(h) \/ ReadLast(h) \/ FindStatus(h) \/ Abort(h)
    BY <2>2 DEF LoadUser, ReadLast, FindStatus, Abort
  <2> QED
    BY <1>8, <2>1, <2>2
<1>9. ASSUME NEW h \in Handlers, SaveUser(h), UNCHANGED <<users, given>> PROVE References' /\ StatusMeant'
  BY <1>1, <1>9 DEF SaveUser
<1>10. CASE UNCHANGED vars
  BY <1>1, <1>10 DEF vars
<1> QED
  BY <1>1, <1>2, <1>3, <1>4, <1>5, <1>6, <1>7, <1>8, <1>9, <1>10 DEF Next, Step

\* An account's status is the row it was given as, for any number of statuses
\* and requests, unless requests for the account or for statuses overlapped.
THEOREM StatusKept == Spec => []StatusMeant
<1>1. Init => References /\ StatusMeant /\ SInv
  <2> SUFFICES ASSUME Init PROVE References /\ StatusMeant /\ SInv
    OBVIOUS
  <2>1. PICK first \in Rows : /\ statuses = [s \in Ids |-> IF s = 1 THEN first ELSE None]
                              /\ given = [u \in Users |-> first]
    BY DEF Init
  <2>2. \A u \in Users : Exists(u) => users[u].status = 1
    BY DEF Init, Exists
  <2>3. 1 \in Ids /\ \A r \in Rows : r # None
    BY ConstantsAssumption DEF Ids
  <2>4. References /\ StatusMeant
    BY <2>1, <2>2, <2>3 DEF References, StatusMeant
  <2>5. SInv
    BY DEF Init, SInv, StatusAlone, StatusCurrent
  <2> QED
    BY <2>4, <2>5
<1>2. MInv /\ [Next]_vars => MInv'
  BY AInvNext, SInvNext, MeantNext DEF MInv, AInv
<1>3. Init => MInv
  BY <1>1, InitTypes DEF Init, MInv, AInv, Alone, Current
<1>4. MInv => StatusMeant
  BY DEF MInv
<1> QED
  BY <1>2, <1>3, <1>4, PTL DEF Spec

=============================================================================
