-------------------------------- MODULE Auth --------------------------------
(***************************************************************************)
(* AuthService with UsersService and SessionService: registration, e-mail  *)
(* confirmation, login, refresh, logout, profile update and deletion over  *)
(* the user and session tables.  Requests interleave at every query; the   *)
(* first query of a request is part of the action that starts it, and a    *)
(* request refused there changes nothing and is no action.                 *)
(***************************************************************************)
EXTENDS Naturals

CONSTANTS
  Users,      \* user ids
  Emails,     \* e-mail addresses
  Passwords,  \* plain passwords
  Sessions,   \* session ids
  Hashes,     \* random session hashes: bounds the refreshes
  Handlers,   \* requests in flight
  Kinds,      \* the kinds of request that clients send
  None

ASSUME ConstantsAssumption ==
  /\ None \notin Users \cup Emails \cup Passwords \cup Sessions \cup Hashes
  /\ Kinds \subseteq {"register", "confirm", "login", "refresh", "logout", "update", "delete"}

VARIABLES
  user,     \* the user table, None for a free id
  session,  \* the session table
  mails,    \* the confirmation links sent: a user and perhaps a new address
  tokens,   \* the refresh tokens clients have received
  pc, job,  \* where each request waits, and what it works with
  last,     \* history: the last password set for each user
  proof,    \* history: the password last shown in each session
  ended,    \* history: sessions ended while nobody was refreshing them
  lost,     \* history: sessions whose latest token never reached a client
  mixed     \* history: users whose requests overlapped an account change

tables == <<user, session>>
history == <<last, proof, ended, lost, mixed>>
vars == <<tables, mails, tokens, pc, job, history>>

\* What the password column holds: bcrypt of a password, or, when a hash was
\* taken for a password, bcrypt of a hash, which no password matches.
Stored == [of : Passwords, twice : BOOLEAN]
Hash(password) == [of |-> password, twice |-> FALSE]
HashAgain(stored) == [stored EXCEPT !.twice = TRUE]

User == [email : Emails, password : Stored, active : BOOLEAN, deleted : BOOLEAN]
Session == [user : Users, hash : Hashes, deleted : BOOLEAN]
Token == [id : Sessions, hash : Hashes]
Mail == [user : Users, email : Emails \cup {None}]

ASSUME NoneAssumption == None \notin User \cup Session \cup Stored

\* plain: the password a request carries; password, email: the columns its
\* update will write; token: the refresh token it came with; hash: a new hash.
Job == [kind : Kinds, user : Users \cup {None}, id : Sessions \cup {None},
        token : Token \cup {None}, hash : Hashes \cup {None}, plain : Passwords \cup {None},
        password : Stored \cup {None}, email : Emails \cup {None}]
NewJob(kind, u) == [kind |-> kind, user |-> u, id |-> None, token |-> None, hash |-> None,
                    plain |-> None, password |-> None, email |-> None]

Stages == {"idle", "insert", "open", "owner", "load", "save", "answer",
           "revoke", "mail", "rehash", "taken", "fetch", "write"}

TypeOK ==
  /\ user \in [Users -> User \cup {None}]
  /\ session \in [Sessions -> Session \cup {None}]
  /\ mails \subseteq Mail
  /\ tokens \subseteq Token
  /\ pc \in [Handlers -> Stages]
  /\ job \in [Handlers -> Job \cup {None}]
  /\ last \in [Users -> Passwords \cup {None}]
  /\ proof \in [Sessions -> Passwords \cup {None}]
  /\ ended \subseteq Sessions
  /\ lost \subseteq Sessions
  /\ mixed \subseteq Users

\* Mutant: the query also finds soft-deleted rows.
FoundDeleted(row) == row # None

\* A row that findOne returns: there, and not soft-deleted.
Found(row) == row # None /\ ~row.deleted

Fresh(h) ==
  /\ \A s \in Sessions : session[s] # None => session[s].hash # h
  /\ \A t \in tokens : t.hash # h
  /\ \A p \in Handlers : job[p] # None => job[p].hash # h /\
                           (job[p].token # None => job[p].token.hash # h)

Busy(h) == pc[h] # "idle"
On(u) == {h \in Handlers : Busy(h) /\ job[h].user = u}
Refreshing(s) == \E h \in Handlers : Busy(h) /\ job[h].kind = "refresh" /\ job[h].id = s

\* The requests that change an account; its row or all of its sessions.
Changing == {"confirm", "update", "delete"}
Mixes(kind, u) == \E h \in On(u) : kind \in Changing \/ job[h].kind \in Changing

Init ==
  /\ user = [u \in Users |-> None]
  /\ session = [s \in Sessions |-> None]
  /\ mails = {} /\ tokens = {}
  /\ pc = [h \in Handlers |-> "idle"]
  /\ job = [h \in Handlers |-> None]
  /\ last = [u \in Users |-> None]
  /\ proof = [s \in Sessions |-> None]
  /\ ended = {} /\ lost = {} /\ mixed = {}

Start(h, stage, j) ==
  /\ ~Busy(h) /\ j.kind \in Kinds
  /\ pc' = [pc EXCEPT ![h] = stage]
  /\ job' = [job EXCEPT ![h] = j]
  /\ mixed' = IF Mixes(j.kind, j.user) THEN mixed \cup {j.user} ELSE mixed
  /\ UNCHANGED <<last, proof, ended, lost>>

Go(h, stage) == pc' = [pc EXCEPT ![h] = stage]

Finish(h) ==
  /\ pc' = [pc EXCEPT ![h] = "idle"]
  /\ job' = [job EXCEPT ![h] = None]

-----------------------------------------------------------------------------
(* register, and the confirmation links *)

\* users.create looks for the address among the accounts not deleted.
Register(h, e, p) ==
  /\ \A u \in Users : Found(user[u]) => user[u].email # e
  /\ Start(h, "insert", [NewJob("register", None) EXCEPT !.email = e, !.plain = p])
  /\ UNCHANGED <<tables, mails, tokens>>

\* The unique index counts deleted accounts too.
Unique(u, e) == \A v \in Users \ {u} : user[v] # None => user[v].email # e

\* userSignUp mails a link with a signed user id.
SignUpLink(u) == [user |-> u, email |-> None]

\* The row stays if the mail after it fails.
Insert(h, u) ==
  /\ pc[h] = "insert" /\ user[u] = None
  /\ LET j == job[h] IN
       \/ ~Unique(u, j.email) /\ UNCHANGED <<user, mails, last>>
       \/ /\ Unique(u, j.email)
          /\ user' = [user EXCEPT ![u] = [email |-> j.email, password |-> Hash(j.plain),
                                          active |-> FALSE, deleted |-> FALSE]]
          /\ mails' \in {mails, mails \cup {SignUpLink(u)}}
          /\ last' = [last EXCEPT ![u] = j.plain]
  /\ Finish(h)
  /\ UNCHANGED <<session, tokens, proof, ended, lost, mixed>>

\* The whole user that was read goes to users.update, its hashed password
\* and its address with it.
Confirming(h, u, e) ==
  /\ Start(h, "rehash", [NewJob("confirm", u) EXCEPT !.password = user[u].password, !.email = e])
  /\ UNCHANGED <<tables, mails, tokens>>

\* confirmEmail and confirmNewEmail take either kind of link.
ConfirmEmail(h, m) ==
  /\ m \in mails /\ Found(user[m.user]) /\ ~user[m.user].active
  /\ Confirming(h, m.user, user[m.user].email)

ConfirmNewEmail(h, m) ==
  /\ m \in mails /\ Found(user[m.user])
  /\ Confirming(h, m.user, m.email)

-----------------------------------------------------------------------------
(* Sessions *)

\* Mutant: the comparison is not awaited, and a promise is always true.
LoginUnawaited(h, u, p) ==
  /\ Found(user[u])
  /\ Start(h, "open", [NewJob("login", u) EXCEPT !.plain = p])
  /\ UNCHANGED <<tables, mails, tokens>>

\* validateLogin compares with the row it read; the session comes later.
Login(h, u, p) ==
  /\ Found(user[u]) /\ user[u].password = Hash(p)
  /\ Start(h, "open", [NewJob("login", u) EXCEPT !.plain = p])
  /\ UNCHANGED <<tables, mails, tokens>>

Open(h, s, x) ==
  /\ pc[h] = "open" /\ session[s] = None /\ Fresh(x)
  /\ session' = [session EXCEPT ![s] = [user |-> job[h].user, hash |-> x, deleted |-> FALSE]]
  /\ proof' = [proof EXCEPT ![s] = job[h].plain]
  /\ job' = [job EXCEPT ![h].id = s, ![h].hash = x]
  /\ Go(h, "answer")
  /\ UNCHANGED <<user, mails, tokens, last, ended, lost, mixed>>

\* Mutant: the answer carries the hash that was presented.
AnswerStale(h) ==
  /\ pc[h] = "answer"
  /\ tokens' = tokens \cup {IF job[h].token = None THEN [id |-> job[h].id, hash |-> job[h].hash]
                            ELSE job[h].token}
  /\ Finish(h)
  /\ UNCHANGED <<tables, mails, history>>

\* getTokensData signs the new hash; the client receives it.
Answer(h) ==
  /\ pc[h] = "answer"
  /\ tokens' = tokens \cup {[id |-> job[h].id, hash |-> job[h].hash]}
  /\ Finish(h)
  /\ UNCHANGED <<tables, mails, history>>

\* The session joined with its user: a deleted user leaves it without one,
\* and the handler throws.
WithUser(s) == Found(session[s]) /\ Found(user[session[s].user])

Refresh(h, t) ==
  /\ t \in tokens /\ WithUser(t.id) /\ session[t.id].hash = t.hash
  /\ Start(h, "owner", [NewJob("refresh", session[t.id].user) EXCEPT !.id = t.id, !.token = t])
  /\ UNCHANGED <<tables, mails, tokens>>

\* users.findById, then sessionService.update: find the session ...
FindOwner(h) ==
  /\ pc[h] = "owner"
  /\ IF Found(user[job[h].user]) THEN Go(h, "load") /\ UNCHANGED job ELSE Finish(h)
  /\ UNCHANGED <<tables, mails, tokens, history>>

LoadSession(h) ==
  /\ pc[h] = "load"
  /\ IF WithUser(job[h].id) THEN Go(h, "save") /\ UNCHANGED job ELSE Finish(h)
  /\ UNCHANGED <<tables, mails, tokens, history>>

\* ... and save it with the new hash and the deletedAt it was found with.
SaveSession(h, x) ==
  /\ pc[h] = "save" /\ Fresh(x)
  /\ session' = [session EXCEPT ![job[h].id].hash = x, ![job[h].id].deleted = FALSE]
  /\ job' = [job EXCEPT ![h].hash = x]
  /\ Go(h, "answer")
  /\ UNCHANGED <<user, mails, tokens, history>>

End(S) == session' = [s \in Sessions |-> IF s \in S THEN [session[s] EXCEPT !.deleted = TRUE]
                                         ELSE session[s]]
EndedNow(S) == ended' = ended \cup {s \in S : ~Refreshing(s)}

\* One statement; any access token of the session will do.
Logout(t) ==
  /\ "logout" \in Kinds /\ t \in tokens
  /\ End({t.id}) /\ EndedNow({t.id})
  /\ UNCHANGED <<user, mails, tokens, pc, job, last, proof, lost, mixed>>

-----------------------------------------------------------------------------
(* PATCH and DELETE of /auth/me *)

\* The access token names the user.  A new password comes with the old one,
\* a new address other than the present one is only mailed a link.
UpdateMe(h, t, p, e) ==
  /\ t \in tokens
  /\ LET u == session[t.id].user
         address == IF e = user[u].email THEN None ELSE e
     IN /\ Found(user[u]) /\ (p # None => ~user[u].password.twice)
        /\ Start(h, IF p # None THEN "revoke" ELSE IF address # None THEN "mail" ELSE "fetch",
                 [NewJob("update", u) EXCEPT !.id = t.id, !.plain = p, !.email = address])
  /\ UNCHANGED <<tables, mails, tokens>>

OthersOf(u, s) == {r \in Sessions \ {s} : session[r] # None /\ session[r].user = u}

\* Mutant: only the caller's session is ended.
RevokeOwn(h) ==
  /\ pc[h] = "revoke"
  /\ End({job[h].id}) /\ EndedNow({job[h].id})
  /\ Go(h, IF job[h].email = None THEN "rehash" ELSE "mail")
  /\ UNCHANGED <<user, mails, tokens, job, last, proof, lost, mixed>>

\* The other sessions end before the password changes.
Revoke(h) ==
  /\ pc[h] = "revoke"
  /\ LET S == OthersOf(job[h].user, job[h].id) IN End(S) /\ EndedNow(S)
  /\ Go(h, IF job[h].email = None THEN "rehash" ELSE "mail")
  /\ UNCHANGED <<user, mails, tokens, job, last, proof, lost, mixed>>

\* confirmNewEmail mails a link with a signed user id and the new address.
NewEmailLink(u, e) == [user |-> u, email |-> e]

SendMail(h) ==
  /\ pc[h] = "mail"
  /\ LET j == job[h]
         others == {u \in Users \ {j.user} : Found(user[u]) /\ user[u].email = j.email}
     IN IF others # {} THEN Finish(h) /\ UNCHANGED mails
        ELSE /\ mails' = mails \cup {NewEmailLink(j.user, j.email)}
             /\ job' = [job EXCEPT ![h].email = None]
             /\ Go(h, IF j.plain = None THEN "fetch" ELSE "rehash")
  /\ UNCHANGED <<tables, tokens, history>>

\* Mutant: whatever arrives as a password is hashed.
NewPasswordAlways(j, row) == IF j.plain # None THEN Hash(j.plain) ELSE HashAgain(j.password)

\* users.update hashes a password unless it is the stored hash.
NewPassword(j, row) ==
  IF j.plain # None THEN Hash(j.plain)
  ELSE IF j.password = row.password THEN None ELSE HashAgain(j.password)

Rehash(h) ==
  /\ pc[h] = "rehash"
  /\ LET j == job[h] IN
       job' = [job EXCEPT ![h].password = IF Found(user[j.user])
                                          THEN NewPassword(j, user[j.user]) ELSE None]
  /\ Go(h, IF job[h].email = None THEN "fetch" ELSE "taken")
  /\ UNCHANGED <<tables, mails, tokens, history>>

CheckTaken(h) ==
  /\ pc[h] = "taken"
  /\ IF \E u \in Users \ {job[h].user} : Found(user[u]) /\ user[u].email = job[h].email
     THEN Finish(h) ELSE Go(h, "fetch") /\ UNCHANGED job
  /\ UNCHANGED <<tables, mails, tokens, history>>

\* The repository's update: find the row ...
Fetch(h) ==
  /\ pc[h] = "fetch"
  /\ IF Found(user[job[h].user]) THEN Go(h, "write") /\ UNCHANGED job ELSE Finish(h)
  /\ UNCHANGED <<tables, mails, tokens, history>>

\* Mutant: what the request does not carry is written too.
UpdatedWhole(row, j) ==
  [email |-> j.email, password |-> j.password, active |-> row.active \/ j.kind = "confirm",
   deleted |-> FALSE]

\* What is undefined is not written; deletedAt is, as it was found.
Updated(row, j) ==
  [email |-> IF j.email = None THEN row.email ELSE j.email,
   password |-> IF j.password = None THEN row.password ELSE j.password,
   active |-> row.active \/ j.kind = "confirm",
   deleted |-> FALSE]

\* ... and save it; the unique index may refuse.
Write(h) ==
  /\ pc[h] = "write"
  /\ LET j == job[h] IN
       IF j.email # None /\ ~Unique(j.user, j.email)
       THEN UNCHANGED <<user, last, proof>>
       ELSE /\ user' = [user EXCEPT ![j.user] = Updated(@, j)]
            /\ last' = IF j.plain = None THEN last ELSE [last EXCEPT ![j.user] = j.plain]
            /\ proof' = IF j.plain = None THEN proof ELSE [proof EXCEPT ![j.id] = j.plain]
  /\ Finish(h)
  /\ UNCHANGED <<session, mails, tokens, ended, lost, mixed>>

\* One statement; sessions stay.
Delete(t) ==
  /\ "delete" \in Kinds /\ t \in tokens
  /\ LET u == session[t.id].user IN
       /\ user' = [user EXCEPT ![u].deleted = TRUE]
       /\ mixed' = IF Mixes("delete", u) THEN mixed \cup {u} ELSE mixed
  /\ UNCHANGED <<session, mails, tokens, pc, job, last, proof, ended, lost>>

-----------------------------------------------------------------------------
\* A query rejects, the process dies, or the answer does not arrive.
Abort(h) ==
  /\ Busy(h)
  /\ lost' = IF pc[h] = "answer" THEN lost \cup {job[h].id} ELSE lost
  /\ Finish(h)
  /\ UNCHANGED <<tables, mails, tokens, last, proof, ended, mixed>>

Arrive(h) ==
  \/ \E e \in Emails, p \in Passwords : Register(h, e, p)
  \/ \E m \in Mail : ConfirmEmail(h, m) \/ ConfirmNewEmail(h, m)
  \/ \E u \in Users, p \in Passwords : Login(h, u, p)
  \/ \E t \in Token : Refresh(h, t)
  \/ \E t \in Token, p \in Passwords \cup {None}, e \in Emails \cup {None} : UpdateMe(h, t, p, e)

Step(h) ==
  \/ \E u \in Users : Insert(h, u)
  \/ \E s \in Sessions, x \in Hashes : Open(h, s, x)
  \/ Answer(h) \/ FindOwner(h) \/ LoadSession(h) \/ \E x \in Hashes : SaveSession(h, x)
  \/ Revoke(h) \/ SendMail(h) \/ Rehash(h) \/ CheckTaken(h) \/ Fetch(h) \/ Write(h)

Next ==
  \/ \E h \in Handlers : Arrive(h) \/ Step(h) \/ Abort(h)
  \/ \E t \in Token : Logout(t) \/ Delete(t)

Spec == Init /\ [][Next]_vars

-----------------------------------------------------------------------------
(* Properties *)

\* The password column holds the hash of the password the user last chose,
\* once, through registration, confirmation, profile updates and deletion,
\* for every user whose account changes did not overlap other requests.
PasswordIsLast ==
  \A u \in Users \ mixed : user[u] # None => user[u].password = Hash(last[u])

\* A session that was ended while nobody was refreshing it stays ended,
\* whatever tokens are still presented: update saves the deletedAt it found.
EndedStaysEnded == \A s \in ended : session[s].deleted

\* Rotation never leaves a client without a working token: the hash of a
\* live session is in a token that was delivered, concurrent refreshes of
\* the session included, unless an answer was lost or is on its way.
CurrentTokenHeld ==
  \A s \in Sessions \ lost :
    Found(session[s]) /\ (\A h \in Handlers : ~(pc[h] = "answer" /\ job[h].id = s))
      => [id |-> s, hash |-> session[s].hash] \in tokens

\* When no request of a user is being handled, every live session of the user
\* was opened with, or has itself set, the password that is valid now: a
\* password change ended the others, whether or not it was completed.
RevokedByPassword ==
  \A s \in Sessions :
    Found(session[s]) /\ session[s].user \notin mixed /\ On(session[s].user) = {}
      => proof[s] = last[session[s].user]

\* A step leaves a deleted account deleted, and its sessions without a token.
StaysDeleted ==
  \A u \in Users \ mixed' :
    user[u] # None /\ user[u].deleted
      => user'[u].deleted /\ \A t \in tokens' \ tokens : session[t.id].user # u

\* A deleted account stays deleted, and no session of it gets another token,
\* unless its deletion overlapped a request of the same user.
DeletedIsFinal == [][StaysDeleted]_vars

\* What the tables say of accounts and sessions, with passwords as stored.
Secret == [u \in Users |-> IF user[u] = None THEN None ELSE user[u].password]
Shown == [s \in Sessions |-> IF proof[s] = None THEN None ELSE Hash(proof[s])]
Closed == {u \in Users : user[u] # None /\ user[u].deleted}
Owner == [s \in Sessions |-> IF session[s] = None THEN None ELSE session[s].user]

Accountable ==
  INSTANCE Credentials WITH
    Passwords <- Stored, Tokens <- Token, secret <- Secret, closed <- Closed, owner <- Owner,
    shown <- Shown, crossed <- mixed

\* The handlers, each of several queries that interleave, keep the contract
\* of Credentials: each step of theirs is one step of it or none.
AccountContract == Accountable!Spec

\* The claim of the end-to-end test that the password set last logs in.  A
\* confirmation that read the user before the change takes the old hash for a
\* new password and hashes it.
LastPasswordLogsIn ==
  (\A h \in Handlers : ~Busy(h))
    => \A u \in Users : Found(user[u]) => user[u].password = Hash(last[u])

=============================================================================
