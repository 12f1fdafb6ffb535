---------------------------- MODULE Administration ----------------------------
(***************************************************************************)
(* The administrators' routes: UsersController with UsersCrudService, and  *)
(* StatusesController, with the users' own PATCH /auth/avatar.  PATCH and  *)
(* DELETE load their row and store it in a later query; POST /statuses     *)
(* reads the highest id before it stores the next one.  Addresses, names   *)
(* and roles are left out: a store the database refuses because of them is *)
(* a request that breaks off.                                              *)
(***************************************************************************)
EXTENDS FiniteSets, Integers

CONSTANTS
  Users,      \* account ids
  Passwords,
  Avatars,    \* uploaded images
  Rows,       \* status rows, told apart by the POST they come from
  LastId,     \* bound: the status ids are 1..LastId
  Handlers,   \* requests in flight
  None

ASSUME ConstantsAssumption ==
  /\ LastId \in Nat \ {0}
  /\ None \notin Users \cup Passwords \cup Rows \cup Nat

VARIABLES
  users,     \* the user table, soft deleted accounts included
  statuses,  \* the status table
  unused,    \* rows no POST has made yet
  pc,        \* where each request waits
  job,       \* what it was asked to do
  loc,       \* what it has read
  given,     \* history: the row an account's status was when it was given
  dirty,     \* history: accounts with requests that overlapped
  tangled    \* history: requests that change the status table overlapped

vars == <<users, statuses, unused, pc, job, loc, given, dirty, tangled>>

Ids == 1..LastId

\* The password column; 0 stands for an account without a status.
Secret == [form : {"plain", "hash"}, of : Passwords]
User == [password : Secret, avatar : Avatars \cup {None}, status : Ids \cup {0},
         deleted : BOOLEAN]

ASSUME NoneAssumption == None \notin User \cup Secret

UserKinds == {"patch", "delete", "password", "avatar"}
StatusKinds == {"addStatus", "patchStatus", "deleteStatus"}

\* id is a status: the one to give to the account, or the one to change.
\* own: an administrator changes the password they log in with.
Job == [kind : UserKinds \cup StatusKinds, user : Users \cup {None},
        password : Passwords \cup {None}, id : Ids \cup {None}, own : BOOLEAN]

\* Of the loaded account the password, if it is selected, the avatar and the
\* status; the id for a new status; the loaded status row.
Locals == [password : Secret \cup {None}, avatar : Avatars \cup {None},
           status : Ids \cup {0}, id : Ids \cup {None}, row : Rows \cup {None}]
NoLocals == [password |-> None, avatar |-> None, status |-> 0, id |-> None, row |-> None]

Stages == {"idle", "load", "save", "remove", "hash", "upload", "last", "insert",
           "find", "rename", "erase"}

Exists(u) == users[u] # None
Live(u) == Exists(u) /\ ~users[u].deleted
Or(v, default) == IF v = None THEN default ELSE v

\* The foreign key of the user table.
Referable(s) == s = 0 \/ (s \in Ids /\ statuses[s] # None)
Referred(s) == \E u \in Users : Exists(u) /\ users[u].status = s

TypeOK ==
  /\ users \in [Users -> User \cup {None}]
  /\ statuses \in [Ids -> Rows \cup {None}]
  /\ unused \subseteq Rows
  /\ pc \in [Handlers -> Stages]
  /\ job \in [Handlers -> Job \cup {None}]
  /\ loc \in [Handlers -> Locals]
  /\ given \in [Users -> Rows \cup {None}]
  /\ dirty \subseteq Users /\ tangled \in BOOLEAN

\* The seeded statuses, and accounts that registered or were seeded.
Init ==
  /\ \E first \in Rows :
       /\ statuses = [s \in Ids |-> IF s = 1 THEN first ELSE None]
       /\ unused = Rows \ {first}
       /\ given = [u \in Users |-> first]
  /\ users \in [Users -> {None} \cup
                  [password : [form : {"hash"}, of : Passwords], avatar : {None},
                   status : {1}, deleted : {FALSE}]]
  /\ pc = [h \in Handlers |-> "idle"]
  /\ job = [h \in Handlers |-> None]
  /\ loc = [h \in Handlers |-> NoLocals]
  /\ dirty = {} /\ tangled = FALSE

-----------------------------------------------------------------------------
(* Requests *)

Goto(h, stage) == pc' = [pc EXCEPT ![h] = stage]

\* The request is answered, with a result or an error.
Finish(h) ==
  /\ Goto(h, "idle")
  /\ job' = [job EXCEPT ![h] = None]
  /\ loc' = [loc EXCEPT ![h] = NoLocals]

Enter(h, j, stage) ==
  /\ pc[h] = "idle"
  /\ Goto(h, stage)
  /\ job' = [job EXCEPT ![h] = j]
  /\ UNCHANGED <<users, statuses, unused, loc, given>>

\* PATCH and DELETE /users/:id, PATCH /users/:id/password, PATCH /auth/avatar
ChangeUser(h, u, kind, password, s, own) ==
  /\ kind # "patch" => s = None
  /\ own => kind = "password"
  /\ (kind = "password") => password # None
  /\ (kind \in {"delete", "avatar"}) => password = None
  /\ Enter(h, [kind |-> kind, user |-> u, password |-> password, id |-> s, own |-> own], "load")
  /\ dirty' = IF \E g \in Handlers : pc[g] # "idle" /\ job[g].user = u
              THEN dirty \cup {u} ELSE dirty
  /\ UNCHANGED tangled

\* POST, PATCH and DELETE of /statuses
ChangeStatus(h, kind, s) ==
  /\ (kind = "addStatus") <=> (s = None)
  /\ Enter(h, [kind |-> kind, user |-> None, password |-> None, id |-> s, own |-> FALSE],
           IF kind = "addStatus" THEN "last" ELSE "find")
  /\ tangled' = (tangled \/ \E g \in Handlers : pc[g] # "idle" /\ job[g].kind \in StatusKinds)
  /\ UNCHANGED dirty

-----------------------------------------------------------------------------
(* UsersController *)

\* createOneBase: the body is stored as it is, its password included.
PlainSecret(p) == [form |-> "plain", of |-> p]

\* POST /users, one insert.
CreateUser(u, p, s) ==
  /\ ~Exists(u) /\ Referable(s)
  /\ users' = [users EXCEPT ![u] =
        [password |-> PlainSecret(p), avatar |-> None, status |-> s, deleted |-> FALSE]]
  /\ given' = [given EXCEPT ![u] = IF s = 0 THEN None ELSE statuses[s]]
  /\ UNCHANGED <<statuses, unused, pc, job, loc, dirty, tangled>>

\* Mutant: deleted accounts are found as well.
FindableDeleted(u) == Exists(u)

\* What a query of the service finds.
Findable(u) == Live(u)

\* Mutant: the password is selected with the other columns.
LoadedWhole(u) ==
  [NoLocals EXCEPT !.password = users[u].password, !.avatar = users[u].avatar,
                   !.status = users[u].status]

\* Mutant: the large avatar column is left out of queries too.
LoadedSmall(u) == [NoLocals EXCEPT !.status = users[u].status]

\* The row without the columns the controller excludes.
Loaded(u) == [NoLocals EXCEPT !.avatar = users[u].avatar, !.status = users[u].status]

\* getOneOrFail of PATCH and DELETE, findOne of updatePassword and
\* updateAvatar.  When administrators change their own password, the previous
\* one is compared with a hash made just then, with a salt of its own, so the
\* comparison fails.
LoadUser(h) ==
  /\ pc[h] = "load"
  /\ LET j == job[h]
         served == Findable(j.user) /\ ~j.own
     IN \/ ~served /\ Finish(h)
        \/ /\ served
           /\ Goto(h, CASE j.kind = "patch"    -> "save"
                        [] j.kind = "delete"   -> "remove"
                        [] j.kind = "password" -> "hash"
                        [] j.kind = "avatar"   -> "upload")
           /\ loc' = [loc EXCEPT ![h] = Loaded(j.user)]
           /\ UNCHANGED job
  /\ UNCHANGED <<users, statuses, unused, given, dirty, tangled>>

\* What a PATCH stores: the body over the row as it was loaded.
Merged(h) ==
  LET j == job[h] IN
    [password |-> IF j.password # None THEN PlainSecret(j.password)
                  ELSE Or(loc[h].password, users[j.user].password),
     avatar   |-> loc[h].avatar,
     status   |-> Or(j.id, loc[h].status),
     deleted  |-> FALSE]

SaveUser(h) ==
  /\ pc[h] = "save"
  /\ LET j == job[h]
         new == Merged(h)
     IN \/ /\ Referable(new.status)
           /\ users' = [users EXCEPT ![j.user] = new]
           /\ given' = [given EXCEPT ![j.user] = IF j.id = None THEN @ ELSE statuses[j.id]]
        \/ ~Referable(new.status) /\ UNCHANGED <<users, given>>
  /\ Finish(h)
  /\ UNCHANGED <<statuses, unused, dirty, tangled>>

\* softRemove
RemoveUser(h) ==
  /\ pc[h] = "remove"
  /\ users' = [users EXCEPT ![job[h].user].deleted = TRUE]
  /\ Finish(h)
  /\ UNCHANGED <<statuses, unused, given, dirty, tangled>>

\* updatePassword, after bcrypt: an UPDATE of the one column.
UpdatePassword(h) ==
  /\ pc[h] = "hash"
  /\ users' = [users EXCEPT ![job[h].user].password =
                 [form |-> "hash", of |-> job[h].password]]
  /\ Finish(h)
  /\ UNCHANGED <<statuses, unused, given, dirty, tangled>>

\* updateAvatar: an UPDATE of the one column.
UpdateAvatar(h) ==
  /\ pc[h] = "upload"
  /\ \E a \in Avatars : users' = [users EXCEPT ![job[h].user].avatar = a]
  /\ Finish(h)
  /\ UNCHANGED <<statuses, unused, given, dirty, tangled>>

-----------------------------------------------------------------------------
(* StatusesController *)

Taken == {s \in Ids : statuses[s] # None}

\* Mutant: the next id is the number of rows plus one.
IsNextCounted(s) == s = Cardinality(Taken) + 1

\* Mutant: the first id is zero.
IsNextFromZero(s) ==
  IF Taken = {} THEN s = 0 ELSE s - 1 \in Taken /\ \A t \in Taken : t < s

\* The highest id plus one, or one.
IsNext(s) ==
  IF Taken = {} THEN s = 1 ELSE s - 1 \in Taken /\ \A t \in Taken : t < s

\* The id column is an integer.
ReadLast(h) ==
  /\ pc[h] = "last"
  /\ \E s \in 0..LastId : IsNext(s) /\ loc' = [loc EXCEPT ![h].id = s]
  /\ Goto(h, "insert")
  /\ UNCHANGED <<users, statuses, unused, job, given, dirty, tangled>>

\* save inserts the row, or overwrites the one that has the id by now.
InsertStatus(h) ==
  /\ pc[h] = "insert"
  /\ \E r \in unused :
       /\ statuses' = [statuses EXCEPT ![loc[h].id] = r]
       /\ unused' = unused \ {r}
  /\ Finish(h)
  /\ UNCHANGED <<users, given, dirty, tangled>>

FindStatus(h) ==
  /\ pc[h] = "find"
  /\ LET row == statuses[job[h].id] IN
       \/ row = None /\ Finish(h)
       \/ /\ row # None
          /\ loc' = [loc EXCEPT ![h].row = row]
          /\ Goto(h, IF job[h].kind = "patchStatus" THEN "rename" ELSE "erase")
          /\ UNCHANGED job
  /\ UNCHANGED <<users, statuses, unused, given, dirty, tangled>>

\* save updates the name, or inserts the row again if it is gone.
RenameStatus(h) ==
  /\ pc[h] = "rename"
  /\ statuses' = [statuses EXCEPT ![job[h].id] = loc[h].row]
  /\ Finish(h)
  /\ UNCHANGED <<users, unused, given, dirty, tangled>>

\* DELETE, which the foreign key refuses while an account has the status.
EraseStatus(h) ==
  /\ pc[h] = "erase"
  /\ \/ ~Referred(job[h].id) /\ statuses' = [statuses EXCEPT ![job[h].id] = None]
     \/ Referred(job[h].id) /\ UNCHANGED statuses
  /\ Finish(h)
  /\ UNCHANGED <<users, unused, given, dirty, tangled>>

-----------------------------------------------------------------------------
\* The awaited call rejects, or the process dies there.
Abort(h) ==
  /\ pc[h] # "idle"
  /\ Finish(h)
  /\ UNCHANGED <<users, statuses, unused, given, dirty, tangled>>

Arrive(h) ==
  \/ \E u \in Users, kind \in UserKinds, p \in Passwords \cup {None},
        s \in Ids \cup {None}, own \in BOOLEAN : ChangeUser(h, u, kind, p, s, own)
  \/ \E kind \in StatusKinds, s \in Ids \cup {None} : ChangeStatus(h, kind, s)

Step(h) ==
  \/ LoadUser(h) \/ SaveUser(h) \/ RemoveUser(h) \/ UpdatePassword(h) \/ UpdateAvatar(h)
  \/ ReadLast(h) \/ InsertStatus(h) \/ FindStatus(h) \/ RenameStatus(h) \/ EraseStatus(h)

Next ==
  \/ \E u \in Users, p \in Passwords, s \in Ids \cup {0} : CreateUser(u, p, s)
  \/ \E h \in Handlers : Arrive(h) \/ Step(h) \/ Abort(h)

Spec == Init /\ [][Next]_vars

-----------------------------------------------------------------------------
(* Properties *)

\* An account's status stays the one it was given, although a PATCH writes a
\* loaded status back, ids are used again after the highest is deleted, and a
\* POST stores under an id it read before: unless requests for the account, or
\* requests that change the status table, overlapped.
StatusMeant ==
  ~tangled =>
    \A u \in Users \ dirty :
      Exists(u) /\ users[u].status # 0 => statuses[users[u].status] = given[u]

\* A step that changes a password stores the one its request carries.
StoresCarried ==
  \A u \in Users :
    Exists(u) /\ users'[u].password # users[u].password
      => \E h \in Handlers : /\ pc[h] # "idle" /\ pc'[h] = "idle" /\ job[h].user = u
                             /\ job[h].password = users'[u].password.of

\* A PATCH writes back every column it loaded, yet no interleaving makes a
\* stored password anything but one that the request served just then carries.
PasswordOnlyCarried == [][StoresCarried]_vars

\* A step that changes an avatar is the upload of its owner.
StoresUploaded ==
  \A u \in Users \ dirty :
    Exists(u) /\ users'[u].avatar # users[u].avatar
      => \E h \in Handlers : /\ pc[h] # "idle" /\ pc'[h] = "idle"
                             /\ job[h].kind = "avatar" /\ job[h].user = u

\* An avatar changes only when its owner uploads one, although every PATCH writes
\* the loaded one back, unless the two overlapped.
AvatarOnlyUploaded == [][StoresUploaded]_vars

StaysRemoved ==
  \A u \in Users \ dirty : Exists(u) /\ users[u].deleted => users'[u].deleted

\* A deleted account stays deleted, unless its deletion overlapped a PATCH.
RemovalLasts == [][StaysRemoved]_vars

\* validateLogin compares what is sent with a bcrypt hash.
Matches(p, secret) == secret = [form |-> "hash", of |-> p]

\* test/admin/users.e2e-spec.ts logs in with the password an administrator
\* gave: every account can log in with some password.
SomePasswordLogsIn ==
  \A u \in Users : Live(u) => \E p \in Passwords : Matches(p, users[u].password)

=============================================================================
