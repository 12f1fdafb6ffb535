----------------------------- MODULE AuthProofs -----------------------------
(***************************************************************************)
(* Proofs about Auth, for any number of users, addresses, passwords,       *)
(* sessions and requests: types, PasswordIsLast, EndedStaysEnded,          *)
(* DeletedIsFinal, CurrentTokenHeld, RevokedByPassword, and that Auth      *)
(* implements Credentials.                                                 *)
(***************************************************************************)
EXTENDS Auth, TLAPS

-----------------------------------------------------------------------------
(* Type correctness *)

\* What the types alone leave out: what a request j has at each stage.
Fits(stage, j) ==
  /\ j \in Job
  /\ stage = "insert" =>
       j.kind = "register" /\ j.user = None /\ j.email \in Emails /\ j.plain \in Passwords
  /\ stage # "insert" => j.user \in Users /\ user[j.user] \in User
  /\ stage \in {"open", "revoke"} => j.plain \in Passwords
  /\ stage \in {"owner", "load", "save", "answer"} =>
       j.id \in Sessions /\ session[j.id] \in Session /\ session[j.id].user = j.user
  /\ stage = "answer" => j.hash \in Hashes
  /\ stage = "mail" => j.email \in Emails
  /\ stage = "rehash" => j.plain \in Passwords \/ j.password \in Stored
  /\ stage = "open" => j.kind = "login"
  /\ stage \in {"owner", "load", "save"} => j.kind = "refresh"
  /\ stage = "answer" => j.kind \in {"login", "refresh"}
  /\ stage \in {"revoke", "mail"} => j.kind = "update"
  /\ stage \in {"rehash", "taken", "fetch", "write"} => j.kind \in {"confirm", "update"}

ShapeOf(h) == Busy(h) => Fits(pc[h], job[h])
Shape == \A h \in Handlers : ShapeOf(h)

\* Tokens name sessions that exist, and sessions name users that exist.
References ==
  /\ \A t \in tokens : session[t.id] \in Session
  /\ \A s \in Sessions : session[s] # None => user[session[s].user] \in User

TInv == TypeOK /\ Shape /\ References

LEMMA HashType ==
  /\ \A p \in Passwords : Hash(p) \in Stored
  /\ \A x \in Stored : HashAgain(x) \in Stored
  BY DEF Hash, HashAgain, Stored

\* A step that changes only h's job, and keeps rows, keeps the other shapes.
LEMMA ShapeFrame ==
  ASSUME TInv, NEW h \in Handlers,
         \A g \in Handlers \ {h} : pc'[g] = pc[g] /\ job'[g] = job[g],
         \A u \in Users : user[u] \in User => user'[u] \in User,
         \A s \in Sessions : session[s] \in Session
           => session'[s] \in Session /\ session'[s].user = session[s].user,
         ShapeOf(h)'
  PROVE  Shape'
<1> SUFFICES ASSUME NEW g \in Handlers \ {h} PROVE ShapeOf(g)'
  BY DEF Shape
<1>1. ShapeOf(g)
  BY DEF TInv, Shape
<1> QED
  BY <1>1 DEF ShapeOf, Fits, Busy

\* The references survive a step that adds no token and keeps rows.
LEMMA ReferencesFrame ==
  ASSUME TInv, tokens' \subseteq tokens, TypeOK',
         \A u \in Users : user[u] \in User => user'[u] \in User,
         \A s \in Sessions : session[s] # None
           => session'[s] \in Session /\ session'[s].user = session[s].user,
         \A s \in Sessions : session[s] = None => session'[s] = None
  PROVE  References'
<1>1. \A s \in Sessions : session[s] \in Session => session[s].user \in Users /\ session[s] # None
  BY NoneAssumption DEF Session
<1>2. \A t \in tokens : t.id \in Sessions
  BY DEF TInv, TypeOK, Token
<1>3. \A s \in Sessions : session[s] # None => session[s] \in Session
  BY DEF TInv, TypeOK
<1> QED
  BY <1>1, <1>2, <1>3 DEF TInv, References

\* A request that starts is typed when what it takes along is.
LEMMA StartType ==
  ASSUME TInv, NEW h \in Handlers, NEW stage \in Stages \ {"idle"}, NEW j,
         Fits(stage, j), stage = "insert" => ~Mixes(j.kind, j.user),
         Start(h, stage, j), UNCHANGED <<tables, mails, tokens>>
  PROVE  TInv'
<1>1. TypeOK'
  BY DEF TInv, TypeOK, Start, tables, Fits
<1>2. /\ \A g \in Handlers \ {h} : pc'[g] = pc[g] /\ job'[g] = job[g]
      /\ pc'[h] = stage /\ job'[h] = j
  BY DEF TInv, TypeOK, Start
<1>a. Fits(stage, j)'
  BY DEF Fits, tables
<1>5. ShapeOf(h)'
  BY <1>a, <1>2 DEF ShapeOf
<1>3. Shape'
  BY <1>2, <1>5, ShapeFrame DEF tables
<1>4. References'
  BY DEF TInv, References, tables
<1> QED
  BY <1>1, <1>3, <1>4 DEF TInv

LEMMA ArriveType ==
  ASSUME TInv, NEW h \in Handlers, Arrive(h)
  PROVE  TInv'
<1>1. ASSUME NEW e \in Emails, NEW p \in Passwords, Register(h, e, p) PROVE TInv'
  <2> DEFINE j == [NewJob("register", None) EXCEPT !.email = e, !.plain = p]
  <2>1. Start(h, "insert", j) /\ UNCHANGED <<tables, mails, tokens>>
    BY <1>1 DEF Register
  <2>2. "register" \in Kinds
    BY <2>1 DEF Start, NewJob
  <2>3. /\ j \in Job /\ j.kind = "register" /\ j.user = None /\ j.email = e /\ j.plain = p
    BY <2>2 DEF NewJob, Job
  <2> HIDE DEF j
  <2>4. ~Mixes(j.kind, j.user)
    BY <2>3, ConstantsAssumption DEF Mixes, On, Changing, TInv, Shape, ShapeOf, Fits
  <2>5. Fits("insert", j)
    BY <2>3 DEF Fits
  <2> QED
    BY <2>1, <2>4, <2>5, StartType DEF Stages
<1>2. ASSUME NEW m \in Mail, ConfirmEmail(h, m) \/ ConfirmNewEmail(h, m) PROVE TInv'
  <2>1. m.user \in Users /\ user[m.user] \in User /\ m.email \in Emails \cup {None}
    BY <1>2 DEF ConfirmEmail, ConfirmNewEmail, Found, Mail, TInv, TypeOK
  <2>2. user[m.user].password \in Stored /\ user[m.user].email \in Emails
    BY <2>1 DEF User
  <2>3. PICK e \in Emails \cup {None} : Confirming(h, m.user, e)
    BY <1>2, <2>1, <2>2 DEF ConfirmEmail, ConfirmNewEmail
  <2> DEFINE j == [NewJob("confirm", m.user) EXCEPT !.password = user[m.user].password, !.email = e]
  <2>4. Start(h, "rehash", j) /\ UNCHANGED <<tables, mails, tokens>>
    BY <2>3 DEF Confirming
  <2>5. "confirm" \in Kinds
    BY <2>4 DEF Start, NewJob
  <2>6. j \in Job /\ j.kind = "confirm" /\ j.user = m.user /\ j.password = user[m.user].password
    BY <2>1, <2>2, <2>5 DEF NewJob, Job
  <2> HIDE DEF j
  <2>7. Fits("rehash", j)
    BY <2>1, <2>2, <2>6 DEF Fits
  <2> QED
    BY <2>4, <2>7, StartType DEF Stages
<1>3. ASSUME NEW u \in Users, NEW p \in Passwords, Login(h, u, p) PROVE TInv'
  <2> DEFINE j == [NewJob("login", u) EXCEPT !.plain = p]
  <2>1. Start(h, "open", j) /\ UNCHANGED <<tables, mails, tokens>> /\ user[u] \in User
    BY <1>3 DEF Login, Found, TInv, TypeOK
  <2>2. "login" \in Kinds
    BY <2>1 DEF Start, NewJob
  <2>3. j \in Job /\ j.kind = "login" /\ j.user = u /\ j.plain = p
    BY <2>2 DEF NewJob, Job
  <2> HIDE DEF j
  <2>4. Fits("open", j)
    BY <2>1, <2>3 DEF Fits
  <2> QED
    BY <2>1, <2>4, StartType DEF Stages
<1>4. ASSUME NEW t \in Token, Refresh(h, t) PROVE TInv'
  <2> DEFINE u == session[t.id].user
             j == [NewJob("refresh", u) EXCEPT !.id = t.id, !.token = t]
  <2>1. t.id \in Sessions /\ session[t.id] \in Session
    BY <1>4 DEF Refresh, WithUser, Found, TInv, TypeOK, Token
  <2>2. u \in Users /\ user[u] \in User
    BY <1>4, <2>1 DEF Refresh, WithUser, Found, TInv, TypeOK, Session
  <2>3. Start(h, "owner", j) /\ UNCHANGED <<tables, mails, tokens>>
    BY <1>4 DEF Refresh
  <2>4. "refresh" \in Kinds
    BY <2>3 DEF Start, NewJob
  <2>5. j \in Job /\ j.kind = "refresh" /\ j.user = u /\ j.id = t.id
    BY <2>1, <2>2, <2>4 DEF NewJob, Job
  <2> HIDE DEF j
  <2>6. Fits("owner", j)
    BY <2>1, <2>2, <2>5 DEF Fits
  <2> QED
    BY <2>3, <2>6, StartType DEF Stages
<1>5. ASSUME NEW t \in Token, NEW p \in Passwords \cup {None}, NEW e \in Emails \cup {None},
             UpdateMe(h, t, p, e)
      PROVE  TInv'
  <2> DEFINE u == session[t.id].user
             address == IF e = user[u].email THEN None ELSE e
             j == [NewJob("update", u) EXCEPT !.id = t.id, !.plain = p, !.email = address]
             stage == IF p # None THEN "revoke" ELSE IF address # None THEN "mail" ELSE "fetch"
  <2>1. t.id \in Sessions /\ session[t.id] \in Session
    BY <1>5 DEF UpdateMe, TInv, TypeOK, References, Token
  <2>2. u \in Users /\ user[u] \in User
    BY <1>5, <2>1 DEF UpdateMe, Found, TInv, TypeOK, Session
  <2>3. Start(h, stage, j) /\ UNCHANGED <<tables, mails, tokens>>
    BY <1>5 DEF UpdateMe
  <2>4. "update" \in Kinds
    BY <2>3 DEF Start, NewJob
  <2>5. /\ address \in Emails \cup {None}
        /\ stage \in {"revoke", "mail", "fetch"}
        /\ stage = "mail" => address \in Emails
        /\ stage = "revoke" => p \in Passwords
    OBVIOUS
  <2> HIDE DEF address, stage
  <2>6. j \in Job /\ j.kind = "update" /\ j.user = u /\ j.email = address /\ j.plain = p
    BY <2>1, <2>2, <2>4, <2>5 DEF NewJob, Job
  <2> HIDE DEF j
  <2>7. Fits(stage, j)
    BY <2>2, <2>5, <2>6 DEF Fits
  <2>8. stage \in Stages \ {"idle"} /\ stage # "insert"
    BY <2>5 DEF Stages
  <2> QED
    BY <2>3, <2>7, <2>8, StartType
<1> QED
  BY <1>1, <1>2, <1>3, <1>4, <1>5 DEF Arrive


\* Rows that are there stay, and stay typed; sessions keep their user.
Keeps ==
  /\ \A u \in Users : user[u] \in User => user'[u] \in User
  /\ \A s \in Sessions : session[s] \in Session
       => session'[s] \in Session /\ session'[s].user = session[s].user

\* A request that goes on to a stage, or is over.
LEMMA GoOnType ==
  ASSUME TInv, NEW h \in Handlers, NEW stage, Keeps, Go(h, stage),
         \A g \in Handlers \ {h} : job'[g] = job[g],
         Fits(stage, job[h])'
  PROVE  Shape'
<1>1. (\A g \in Handlers \ {h} : pc'[g] = pc[g]) /\ pc'[h] = stage
  BY DEF TInv, TypeOK, Go
<1>2. ShapeOf(h)'
  BY <1>1 DEF ShapeOf
<1> QED
  BY <1>1, <1>2, ShapeFrame DEF Keeps

LEMMA FinishType ==
  ASSUME TInv, NEW h \in Handlers, Keeps, Finish(h)
  PROVE  Shape'
<1>1. /\ \A g \in Handlers \ {h} : pc'[g] = pc[g] /\ job'[g] = job[g]
      /\ pc'[h] = "idle"
  BY DEF TInv, TypeOK, Finish
<1>2. ShapeOf(h)'
  BY <1>1 DEF ShapeOf, Busy
<1> QED
  BY <1>1, <1>2, ShapeFrame DEF Keeps

LEMMA KeepsTables == UNCHANGED tables => Keeps
  BY DEF Keeps, tables

\* What a request in flight has, by its stage.
LEMMA OwnShape ==
  ASSUME TInv, NEW h \in Handlers, NEW stage \in Stages \ {"idle"}, pc[h] = stage
  PROVE  Fits(stage, job[h]) /\ Busy(h)
  BY DEF TInv, Shape, ShapeOf, Busy

LEMMA InsertType ==
  ASSUME TInv, NEW h \in Handlers, NEW u \in Users, Insert(h, u)
  PROVE  TInv'
<1>1. Fits("insert", job[h])
  BY OwnShape DEF Insert, SignUpLink, Stages
<1>2. Hash(job[h].plain) \in Stored
  BY <1>1, HashType DEF Fits
<1> DEFINE new == [email |-> job[h].email, password |-> Hash(job[h].plain),
                   active |-> FALSE, deleted |-> FALSE]
           m == [user |-> u, email |-> None]
<1>3. new \in User /\ m \in Mail
  BY <1>1, <1>2 DEF Fits, User, Mail
<1>4. user' = user \/ user' = [user EXCEPT ![u] = new]
  BY DEF Insert, SignUpLink
<1>5. mails' \subseteq mails \cup {m} /\ (last' = last \/ last' = [last EXCEPT ![u] = job[h].plain])
  BY DEF Insert, SignUpLink
<1>6. Finish(h) /\ UNCHANGED <<session, tokens, proof, ended, lost, mixed>>
  BY DEF Insert, SignUpLink
<1> HIDE DEF new, m
<1>7. TypeOK'
  BY <1>1, <1>3, <1>4, <1>5, <1>6 DEF TInv, TypeOK, Finish, Fits, Stages
<1>8. Keeps
  BY <1>3, <1>4, <1>6 DEF Keeps, TInv, TypeOK
<1>9. References'
  BY <1>6, <1>7, <1>8 DEF Keeps, References, TInv, TypeOK, Session
<1> QED
  BY <1>6, <1>7, <1>8, <1>9, FinishType DEF TInv

LEMMA OpenType ==
  ASSUME TInv, NEW h \in Handlers, NEW s \in Sessions, NEW x \in Hashes, Open(h, s, x)
  PROVE  TInv'
<1>1. Fits("open", job[h])
  BY OwnShape DEF Open, Stages
<1> DEFINE new == [user |-> job[h].user, hash |-> x, deleted |-> FALSE]
           j == [job[h] EXCEPT !.id = s, !.hash = x]
<1>2. new \in Session /\ new.user = job[h].user
  BY <1>1 DEF Fits, Session
<1>3. j \in Job /\ j.id = s /\ j.hash = x /\ j.user = job[h].user /\ j.kind = job[h].kind
  BY <1>1 DEF Fits, Job
<1>4. session' = [session EXCEPT ![s] = new] /\ session[s] = None /\ UNCHANGED user
  BY DEF Open
<1>5. Go(h, "answer") /\ job' = [job EXCEPT ![h] = j]
  BY DEF Open, TInv, TypeOK
<1>6. proof' = [proof EXCEPT ![s] = job[h].plain]
      /\ UNCHANGED <<user, mails, tokens, last, ended, lost, mixed>>
  BY DEF Open
<1> HIDE DEF new, j
<1>7. TypeOK'
  BY <1>1, <1>2, <1>3, <1>4, <1>5, <1>6 DEF TInv, TypeOK, Fits, Stages, Go
<1>8. Keeps
  BY <1>2, <1>4, NoneAssumption DEF Keeps, TInv, TypeOK
<1>9. /\ session'[s] = new /\ user' = user
      /\ \A g \in Handlers : job'[g] = IF g = h THEN j ELSE job[g]
  BY <1>4, <1>5 DEF TInv, TypeOK
<1>10. Fits("answer", job[h])'
  BY <1>1, <1>2, <1>3, <1>9 DEF Fits
<1>11. References'
  BY <1>1, <1>2, <1>4, <1>6, <1>9 DEF TInv, TypeOK, References, Token, Fits
<1> QED
  BY <1>5, <1>7, <1>8, <1>9, <1>10, <1>11, GoOnType DEF TInv

LEMMA AnswerType ==
  ASSUME TInv, NEW h \in Handlers, Answer(h)
  PROVE  TInv'
<1>1. Fits("answer", job[h])
  BY OwnShape DEF Answer, Stages
<1> DEFINE t == [id |-> job[h].id, hash |-> job[h].hash]
<1>2. t \in Token /\ t.id = job[h].id /\ session[t.id] \in Session
  BY <1>1 DEF Fits, Token
<1>3. tokens' = tokens \cup {t} /\ Finish(h) /\ UNCHANGED <<tables, mails, history>>
  BY DEF Answer
<1> HIDE DEF t
<1>4. TypeOK' /\ References'
  BY <1>2, <1>3 DEF TInv, TypeOK, References, Finish, Stages, tables, history
<1> QED
  BY <1>3, <1>4, FinishType, KeepsTables DEF TInv

\* Lookups: the request finishes, or goes on with the same job.
LEMMA LookupType ==
  ASSUME TInv, NEW h \in Handlers, FindOwner(h) \/ LoadSession(h) \/ CheckTaken(h) \/ Fetch(h)
  PROVE  TInv'
<1>1. PICK from \in Stages : pc[h] = from /\ from \in {"owner", "load", "taken", "fetch"}
  BY DEF FindOwner, LoadSession, CheckTaken, Fetch, Stages
<1>2. Fits(from, job[h])
  BY <1>1, OwnShape
<1>3. UNCHANGED <<tables, mails, tokens, history>>
  BY DEF FindOwner, LoadSession, CheckTaken, Fetch
<1>4. \/ Finish(h)
      \/ \E to \in Stages : /\ Go(h, to) /\ UNCHANGED job
                            /\ \/ from \in {"owner", "load"} /\ to \in {"load", "save"}
                               \/ to \in {"fetch", "write"} /\ from \in {"taken", "fetch"}
  BY <1>1 DEF FindOwner, LoadSession, CheckTaken, Fetch, Stages
<1>5. References'
  BY <1>3 DEF TInv, References, tables
<1>6. CASE Finish(h)
  <2>1. TypeOK'
    BY <1>3, <1>6 DEF TInv, TypeOK, Finish, Stages, tables, history
  <2> QED
    BY <1>3, <1>5, <1>6, <2>1, FinishType, KeepsTables DEF TInv
<1>7. ASSUME NEW to \in Stages, Go(h, to), UNCHANGED job,
             \/ from \in {"owner", "load"} /\ to \in {"load", "save"}
             \/ to \in {"fetch", "write"} /\ from \in {"taken", "fetch"}
      PROVE  TInv'
  <2>1. TypeOK'
    BY <1>3, <1>7 DEF TInv, TypeOK, Go, tables, history
  <2>2. Fits(to, job[h])'
    BY <1>2, <1>3, <1>7 DEF Fits, tables
  <2> QED
    BY <1>3, <1>5, <1>7, <2>1, <2>2, GoOnType, KeepsTables DEF TInv
<1> QED
  BY <1>4, <1>6, <1>7

\* The end of a set of sessions that exist keeps them, and their users.
LEMMA EndKeeps ==
  ASSUME TInv, NEW S \in SUBSET Sessions, \A s \in S : session[s] \in Session,
         End(S), UNCHANGED user
  PROVE  /\ Keeps
         /\ session' \in [Sessions -> Session \cup {None}]
         /\ \A s \in Sessions : session[s] = None => session'[s] = None
<1>1. \A s \in S : LET new == [session[s] EXCEPT !.deleted = TRUE]
                  IN new \in Session /\ new.user = session[s].user
  BY DEF Session
<1>2. \A s \in Sessions : session'[s] = IF s \in S THEN [session[s] EXCEPT !.deleted = TRUE]
                                      ELSE session[s]
  BY DEF End
<1>3. session' \in [Sessions -> Session \cup {None}]
  BY <1>1 DEF End, TInv, TypeOK
<1>4. \A s \in S : session[s] # None
  BY NoneAssumption
<1> QED
  BY <1>1, <1>2, <1>3, <1>4 DEF Keeps

LEMMA KeepsReferences ==
  ASSUME TInv, TypeOK', Keeps, tokens' \subseteq tokens,
         \A s \in Sessions : session[s] = None => session'[s] = None
  PROVE  References'
  BY ReferencesFrame DEF Keeps, TInv, TypeOK

LEMMA SaveSessionType ==
  ASSUME TInv, NEW h \in Handlers, NEW x \in Hashes, SaveSession(h, x)
  PROVE  TInv'
<1> DEFINE s == job[h].id
           new == [session[s] EXCEPT !.hash = x, !.deleted = FALSE]
           j == [job[h] EXCEPT !.hash = x]
<1>1. Fits("save", job[h])
  BY OwnShape DEF SaveSession, Stages
<1>2. s \in Sessions /\ session[s] \in Session /\ new \in Session /\ new.user = session[s].user
  BY <1>1 DEF Fits, Session
<1>3. /\ j \in Job /\ j.hash = x /\ j.id = s /\ j.user = job[h].user /\ j.kind = job[h].kind
  BY <1>1 DEF Fits, Job
<1>4. session' = [session EXCEPT ![s] = new] /\ job' = [job EXCEPT ![h] = j]
  BY <1>2 DEF SaveSession, TInv, TypeOK
<1>5. Go(h, "answer") /\ UNCHANGED <<user, mails, tokens, history>>
  BY DEF SaveSession
<1> HIDE DEF new, j
<1>6. TypeOK'
  BY <1>2, <1>3, <1>4, <1>5 DEF TInv, TypeOK, Go, Stages, history
<1>7. /\ \A r \in Sessions : session'[r] = IF r = s THEN new ELSE session[r]
      /\ \A g \in Handlers : job'[g] = IF g = h THEN j ELSE job[g]
  BY <1>4 DEF TInv, TypeOK
<1>8. Keeps /\ \A r \in Sessions : session[r] = None => session'[r] = None
  BY <1>2, <1>5, <1>7, NoneAssumption DEF Keeps
<1>9. Fits("answer", job[h])'
  BY <1>1, <1>2, <1>3, <1>5, <1>7 DEF Fits
<1>10. References'
  BY <1>5, <1>6, <1>8, KeepsReferences
<1> QED
  BY <1>5, <1>6, <1>7, <1>8, <1>9, <1>10, GoOnType DEF TInv

LEMMA LogoutType ==
  ASSUME TInv, NEW t \in Token, Logout(t)
  PROVE  TInv'
<1>1. t.id \in Sessions /\ session[t.id] \in Session /\ End({t.id}) /\ EndedNow({t.id})
      /\ UNCHANGED <<user, mails, tokens, pc, job, last, proof, lost, mixed>>
  BY DEF Logout, TInv, References, Token
<1>2. /\ Keeps /\ session' \in [Sessions -> Session \cup {None}]
      /\ \A s \in Sessions : session[s] = None => session'[s] = None
  BY <1>1, EndKeeps
<1>3. TypeOK'
  BY <1>1, <1>2 DEF TInv, TypeOK, EndedNow
<1>4. Shape'
  BY <1>1, <1>2 DEF TInv, Shape, ShapeOf, Busy, Fits, Keeps
<1>5. References'
  BY <1>1, <1>2, <1>3, KeepsReferences
<1> QED
  BY <1>3, <1>4, <1>5 DEF TInv

LEMMA RevokeType ==
  ASSUME TInv, NEW h \in Handlers, Revoke(h)
  PROVE  TInv'
<1> DEFINE S == OthersOf(job[h].user, job[h].id)
<1>1. Fits("revoke", job[h]) /\ pc[h] = "revoke"
  BY OwnShape DEF Revoke, Stages
<1>2. S \subseteq Sessions /\ \A s \in S : session[s] \in Session
  BY DEF OthersOf, TInv, TypeOK
<1>3. /\ End(S) /\ EndedNow(S) /\ Go(h, IF job[h].email = None THEN "rehash" ELSE "mail")
      /\ UNCHANGED <<user, mails, tokens, job, last, proof, lost, mixed>>
  BY DEF Revoke
<1> HIDE DEF S
<1>4. /\ Keeps /\ session' \in [Sessions -> Session \cup {None}]
      /\ \A s \in Sessions : session[s] = None => session'[s] = None
  BY <1>2, <1>3, EndKeeps
<1>5. TypeOK'
  BY <1>2, <1>3, <1>4 DEF TInv, TypeOK, EndedNow, Go, Stages
<1>6. References'
  BY <1>3, <1>4, <1>5, KeepsReferences
<1>7. Fits(IF job[h].email = None THEN "rehash" ELSE "mail", job[h])'
  BY <1>1, <1>3, <1>4 DEF Fits, Job, Keeps
<1> QED
  BY <1>3, <1>4, <1>5, <1>6, <1>7, GoOnType DEF TInv

LEMMA SendMailType ==
  ASSUME TInv, NEW h \in Handlers, SendMail(h)
  PROVE  TInv'
<1> DEFINE m == [user |-> job[h].user, email |-> job[h].email]
           j == [job[h] EXCEPT !.email = None]
<1>1. Fits("mail", job[h])
  BY OwnShape DEF SendMail, NewEmailLink, Stages
<1>2. m \in Mail /\ j \in Job /\ j.kind = job[h].kind /\ j.user = job[h].user
      /\ j.plain = job[h].plain
  BY <1>1 DEF Fits, Mail, Job
<1>3. job[h].plain # None => job[h].plain \in Passwords
  BY <1>1 DEF Fits, Job
<1>4. UNCHANGED <<tables, tokens, history>>
  BY DEF SendMail, NewEmailLink
<1>5. References'
  BY <1>4 DEF TInv, References, tables
<1>6. CASE Finish(h) /\ UNCHANGED mails
  <2>1. TypeOK'
    BY <1>4, <1>6 DEF TInv, TypeOK, Finish, Stages, tables, history
  <2> QED
    BY <1>4, <1>5, <1>6, <2>1, FinishType, KeepsTables DEF TInv
<1>7. CASE /\ mails' = mails \cup {m} /\ job' = [job EXCEPT ![h] = j]
           /\ Go(h, IF job[h].plain = None THEN "fetch" ELSE "rehash")
  <2>1. PICK stage \in {"fetch", "rehash"} :
          Go(h, stage) /\ (stage = "rehash" => job[h].plain \in Passwords)
    BY <1>3, <1>7
  <2> HIDE DEF m, j
  <2>2. TypeOK'
    BY <1>2, <1>4, <1>7, <2>1 DEF TInv, TypeOK, Go, Stages, tables, history
  <2>3. \A g \in Handlers : job'[g] = IF g = h THEN j ELSE job[g]
    BY <1>7 DEF TInv, TypeOK
  <2>4. Fits(stage, job[h])'
    BY <1>1, <1>2, <1>4, <2>1, <2>3 DEF Fits, tables
  <2> QED
    BY <1>4, <1>5, <2>1, <2>2, <2>3, <2>4, GoOnType, KeepsTables DEF TInv
<1> QED
  BY <1>6, <1>7 DEF SendMail, NewEmailLink

LEMMA RehashType ==
  ASSUME TInv, NEW h \in Handlers, Rehash(h)
  PROVE  TInv'
<1> DEFINE v == IF Found(user[job[h].user]) THEN NewPassword(job[h], user[job[h].user]) ELSE None
           j == [job[h] EXCEPT !.password = v]
<1>1. Fits("rehash", job[h])
  BY OwnShape DEF Rehash, Stages
<1>2. v \in Stored \cup {None}
  BY <1>1, HashType, ConstantsAssumption DEF Fits, Job, NewPassword
<1>3. job' = [job EXCEPT ![h] = j] /\ UNCHANGED <<tables, mails, tokens, history>>
  BY DEF Rehash, TInv, TypeOK
<1> HIDE DEF v
<1>4. j \in Job /\ j.kind = job[h].kind /\ j.user = job[h].user /\ j.email = job[h].email
  BY <1>1, <1>2 DEF Fits, Job
<1>5. PICK stage \in {"fetch", "taken"} : Go(h, stage)
  BY DEF Rehash
<1> HIDE DEF j
<1>6. TypeOK'
  BY <1>3, <1>4, <1>5 DEF TInv, TypeOK, Go, Stages, tables, history
<1>7. References'
  BY <1>3 DEF TInv, References, tables
<1>8. \A g \in Handlers : job'[g] = IF g = h THEN j ELSE job[g]
  BY <1>3 DEF TInv, TypeOK
<1>9. Fits(stage, job[h])'
  BY <1>1, <1>3, <1>4, <1>5, <1>8 DEF Fits, tables
<1> QED
  BY <1>3, <1>5, <1>6, <1>7, <1>8, <1>9, GoOnType, KeepsTables DEF TInv

LEMMA UpdatedType ==
  ASSUME NEW row \in User, NEW j \in Job
  PROVE  Updated(row, j) \in User
  BY DEF Updated, User, Job

LEMMA WriteType ==
  ASSUME TInv, NEW h \in Handlers, Write(h)
  PROVE  TInv'
<1> DEFINE u == job[h].user
<1>1. Fits("write", job[h])
  BY OwnShape DEF Write, Stages
<1>2. u \in Users /\ user[u] \in User /\ job[h] \in Job /\ Updated(user[u], job[h]) \in User
  BY <1>1, UpdatedType DEF Fits
<1>3. /\ user' = user \/ user' = [user EXCEPT ![u] = Updated(user[u], job[h])]
      /\ last' = last \/ (last' = [last EXCEPT ![u] = job[h].plain] /\ job[h].plain # None)
      /\ proof' = proof \/ (proof' = [proof EXCEPT ![job[h].id] = job[h].plain] /\ job[h].plain # None)
      /\ Finish(h) /\ UNCHANGED <<session, mails, tokens, ended, lost, mixed>>
  BY <1>2 DEF Write, TInv, TypeOK
<1>4. job[h].plain \in Passwords \cup {None}
  BY <1>2 DEF Job
<1>5. TypeOK'
  BY <1>2, <1>3, <1>4 DEF TInv, TypeOK, Finish, Stages
<1>6. Keeps
  BY <1>2, <1>3 DEF Keeps, TInv, TypeOK
<1>7. References'
  BY <1>3, <1>5, <1>6, KeepsReferences
<1> QED
  BY <1>3, <1>5, <1>6, <1>7, FinishType DEF TInv

LEMMA DeleteType ==
  ASSUME TInv, NEW t \in Token, Delete(t)
  PROVE  TInv'
<1> DEFINE u == session[t.id].user
           new == [user[u] EXCEPT !.deleted = TRUE]
<1>1. t.id \in Sessions /\ session[t.id] \in Session
  BY DEF Delete, TInv, References, Token
<1>2. u \in Users /\ user[u] \in User /\ new \in User
  BY <1>1, NoneAssumption DEF TInv, References, Session, User
<1>3. user' = [user EXCEPT ![u] = new] /\ mixed' \in {mixed, mixed \cup {u}}
      /\ UNCHANGED <<session, mails, tokens, pc, job, last, proof, ended, lost>>
  BY <1>2 DEF Delete, TInv, TypeOK
<1> HIDE DEF new
<1>4. TypeOK'
  BY <1>2, <1>3 DEF TInv, TypeOK
<1>5. Keeps
  BY <1>2, <1>3 DEF Keeps, TInv, TypeOK
<1>6. Shape'
  BY <1>3, <1>5 DEF TInv, Shape, ShapeOf, Busy, Fits, Keeps
<1>7. References'
  BY <1>3, <1>4, <1>5, KeepsReferences
<1> QED
  BY <1>4, <1>6, <1>7 DEF TInv

LEMMA AbortType ==
  ASSUME TInv, NEW h \in Handlers, Abort(h)
  PROVE  TInv'
<1>1. job[h].id \in Sessions \/ lost' = lost
  BY DEF Abort, TInv, Shape, ShapeOf, Fits
<1>2. Finish(h) /\ UNCHANGED <<tables, mails, tokens, last, proof, ended, mixed>>
      /\ (lost' = lost \/ lost' = lost \cup {job[h].id})
  BY DEF Abort
<1>3. TypeOK'
  BY <1>1, <1>2 DEF TInv, TypeOK, Finish, Stages, tables
<1>4. References'
  BY <1>2 DEF TInv, References, tables
<1> QED
  BY <1>2, <1>3, <1>4, FinishType, KeepsTables DEF TInv

LEMMA TypeInit == Init => TInv
  BY NoneAssumption DEF Init, TInv, TypeOK, Shape, ShapeOf, Busy, References, Stages, Mail, Token

LEMMA TypeStep == TInv /\ [Next]_vars => TInv'
<1> SUFFICES ASSUME TInv, [Next]_vars PROVE TInv'
  OBVIOUS
<1>1. CASE UNCHANGED vars
  BY <1>1 DEF vars, tables, history, TInv, TypeOK, Shape, ShapeOf, Busy, Fits, References
<1>2. CASE Next
  BY <1>2, ArriveType, InsertType, OpenType, AnswerType, LookupType, SaveSessionType,
     RevokeType, SendMailType, RehashType, WriteType, AbortType, LogoutType, DeleteType
     DEF Next, Step
<1> QED
  BY <1>1, <1>2

\* Every reachable state is typed, in particular every request carries what
\* its next query needs, however requests of authentication interleave.
THEOREM TypeCorrect == Spec => []TypeOK
<1>1. TInv => TypeOK
  BY DEF TInv
<1> QED
  BY <1>1, TypeInit, TypeStep, PTL DEF Spec

-----------------------------------------------------------------------------
(* Passwords and deletion *)

\* What the password column of the update under way holds, by its stage.
Ready(stage, j) ==
  /\ stage \in {"revoke", "mail"} => j.password = None
  /\ stage = "rehash" => j.plain # None \/ j.password = user[j.user].password
  /\ stage \in {"taken", "fetch", "write"}
       => j.password = IF j.plain = None THEN None ELSE Hash(j.plain)

\* An account whose requests did not mix: the stored password is the last
\* one, while a request is at work the account is not deleted, and a request
\* that changes it is alone.
Account(u) ==
  /\ user[u] # None => user[u].password = Hash(last[u])
  /\ On(u) # {} => ~user[u].deleted
  /\ \A g, h \in On(u) : g # h => job[g].kind \notin Changing
  /\ \A h \in On(u) : Ready(pc[h], job[h])

Accounts == \A u \in Users \ mixed : Account(u)

\* h starts a request on an account that is there.
LEMMA StartAccount ==
  ASSUME TInv, Accounts, NEW h \in Handlers, NEW stage \in Stages \ {"idle"}, NEW j,
         j.user \in Users => Found(user[j.user]), Ready(stage, j),
         Start(h, stage, j), UNCHANGED user
  PROVE  Accounts'
<1> SUFFICES ASSUME NEW u \in Users, u \notin mixed' PROVE Account(u)'
  BY DEF Accounts
<1>1. /\ \A g \in Handlers : /\ pc'[g] = IF g = h THEN stage ELSE pc[g]
                             /\ job'[g] = IF g = h THEN j ELSE job[g]
      /\ UNCHANGED <<user, last>> /\ ~Busy(h)
      /\ u \notin mixed /\ (j.user = u => ~Mixes(j.kind, u))
  BY DEF Start, TInv, TypeOK
<1>2. Account(u)
  BY <1>1 DEF Accounts
<1>3. On(u)' = IF j.user = u THEN On(u) \cup {h} ELSE On(u)
  BY <1>1 DEF On, Busy
<1>4. On(u)' # {} => ~user'[u].deleted
  BY <1>1, <1>2, <1>3 DEF Account, Found
<1>5. \A g \in On(u)' : Ready(pc[g], job[g])'
  BY <1>1, <1>2, <1>3 DEF Account, Ready, On
<1>6. ASSUME NEW f \in On(u)', NEW g \in On(u)', f # g PROVE job'[f].kind \notin Changing
  <2>1. CASE j.user = u
    BY <1>1, <1>2, <1>3, <1>6, <2>1 DEF Account, Mixes, On
  <2>2. CASE j.user # u
    BY <1>1, <1>2, <1>3, <1>6, <2>2 DEF Account, On
  <2> QED
    BY <2>1, <2>2
<1> QED
  BY <1>1, <1>2, <1>4, <1>5, <1>6 DEF Account

\* h goes on with its request, or is over; the accounts stay as they are.
LEMMA GoAccount ==
  ASSUME TInv, Accounts, NEW h \in Handlers, UNCHANGED <<user, last, mixed>>,
         \A g \in Handlers \ {h} : pc'[g] = pc[g] /\ job'[g] = job[g],
         Busy(h)' => /\ Busy(h) /\ job'[h].user = job[h].user /\ job'[h].kind = job[h].kind
                     /\ Ready(pc[h], job[h]) => Ready(pc[h], job[h])'
  PROVE  Accounts'
<1> SUFFICES ASSUME NEW u \in Users, u \notin mixed' PROVE Account(u)'
  BY DEF Accounts
<1>1. Account(u)
  BY DEF Accounts
<1>2. On(u)' \subseteq On(u) /\ \A g \in On(u)' : job'[g].kind = job[g].kind
  BY DEF On, Busy
<1>3. \A g \in On(u)' : Ready(pc[g], job[g])'
  BY <1>1, <1>2 DEF Account, Ready, On
<1> QED
  BY <1>1, <1>2, <1>3 DEF Account

LEMMA ArriveAccount ==
  ASSUME TInv, Accounts, NEW h \in Handlers, Arrive(h)
  PROVE  Accounts'
<1>1. ASSUME NEW e \in Emails, NEW p \in Passwords, Register(h, e, p) PROVE Accounts'
  <2> DEFINE j == [NewJob("register", None) EXCEPT !.email = e, !.plain = p]
  <2>1. j.user = None /\ Ready("insert", j)
    BY DEF NewJob, Ready
  <2>2. Start(h, "insert", j) /\ UNCHANGED user
    BY <1>1 DEF Register, tables
  <2> QED
    BY <2>1, <2>2, StartAccount, ConstantsAssumption DEF Stages
<1>2. ASSUME NEW m \in Mail, ConfirmEmail(h, m) \/ ConfirmNewEmail(h, m) PROVE Accounts'
  <2>1. PICK e : Confirming(h, m.user, e)
    BY <1>2 DEF ConfirmEmail, ConfirmNewEmail
  <2> DEFINE j == [NewJob("confirm", m.user) EXCEPT !.password = user[m.user].password, !.email = e]
  <2>2. j.user = m.user /\ Ready("rehash", j)
    BY DEF NewJob, Ready
  <2>3. Start(h, "rehash", j) /\ UNCHANGED user /\ Found(user[m.user])
    BY <1>2, <2>1 DEF Confirming, ConfirmEmail, ConfirmNewEmail, tables
  <2> QED
    BY <2>2, <2>3, StartAccount DEF Stages
<1>3. ASSUME NEW u \in Users, NEW p \in Passwords, Login(h, u, p) PROVE Accounts'
  <2> DEFINE j == [NewJob("login", u) EXCEPT !.plain = p]
  <2>1. j.user = u /\ Ready("open", j)
    BY DEF NewJob, Ready
  <2>2. Start(h, "open", j) /\ UNCHANGED user /\ Found(user[u])
    BY <1>3 DEF Login, tables
  <2> QED
    BY <2>1, <2>2, StartAccount DEF Stages
<1>4. ASSUME NEW t \in Token, Refresh(h, t) PROVE Accounts'
  <2> DEFINE u == session[t.id].user
             j == [NewJob("refresh", u) EXCEPT !.id = t.id, !.token = t]
  <2>1. j.user = u /\ Ready("owner", j)
    BY DEF NewJob, Ready
  <2>2. Start(h, "owner", j) /\ UNCHANGED user /\ Found(user[u])
    BY <1>4 DEF Refresh, WithUser, tables
  <2> QED
    BY <2>1, <2>2, StartAccount DEF Stages
<1>5. ASSUME NEW t \in Token, NEW p \in Passwords \cup {None}, NEW e \in Emails \cup {None},
             UpdateMe(h, t, p, e)
      PROVE  Accounts'
  <2> DEFINE u == session[t.id].user
             address == IF e = user[u].email THEN None ELSE e
             j == [NewJob("update", u) EXCEPT !.id = t.id, !.plain = p, !.email = address]
             stage == IF p # None THEN "revoke" ELSE IF address # None THEN "mail" ELSE "fetch"
  <2>1. j.user = u /\ j.plain = p /\ j.password = None
    BY DEF NewJob
  <2>2. Start(h, stage, j) /\ UNCHANGED user /\ Found(user[u])
    BY <1>5 DEF UpdateMe, tables
  <2>3. stage \in {"revoke", "mail", "fetch"} /\ (stage = "fetch" => p = None)
    OBVIOUS
  <2> HIDE DEF stage, j
  <2>4. Ready(stage, j) /\ stage \in Stages \ {"idle"}
    BY <2>1, <2>3 DEF Ready, Stages
  <2> QED
    BY <2>1, <2>2, <2>4, StartAccount
<1> QED
  BY <1>1, <1>2, <1>3, <1>4, <1>5 DEF Arrive

\* Finishing, or going on with a job that is still ready.
LEMMA FinishAccount ==
  ASSUME TInv, Accounts, NEW h \in Handlers, UNCHANGED <<user, last, mixed>>, Finish(h)
  PROVE  Accounts'
<1>1. /\ \A g \in Handlers \ {h} : pc'[g] = pc[g] /\ job'[g] = job[g]
      /\ ~Busy(h)'
  BY DEF Finish, Busy, TInv, TypeOK
<1> QED
  BY <1>1, GoAccount

LEMMA InsertAccount ==
  ASSUME TInv, Accounts, NEW h \in Handlers, NEW u \in Users, Insert(h, u)
  PROVE  Accounts'
<1>1. Finish(h) /\ UNCHANGED mixed /\ user[u] = None
  BY DEF Insert, SignUpLink
<1>2. CASE UNCHANGED <<user, last>>
  BY <1>1, <1>2, FinishAccount
<1>3. CASE /\ user' = [user EXCEPT ![u] = [email |-> job[h].email, password |-> Hash(job[h].plain),
                                          active |-> FALSE, deleted |-> FALSE]]
           /\ last' = [last EXCEPT ![u] = job[h].plain]
  <2> SUFFICES ASSUME NEW v \in Users, v \notin mixed PROVE Account(v)'
    BY <1>1 DEF Accounts
  <2>1. Account(v)
    BY DEF Accounts
  <2>2. On(v)' \subseteq On(v) /\ \A g \in On(v)' : pc'[g] = pc[g] /\ job'[g] = job[g]
    BY <1>1 DEF On, Busy, Finish, TInv, TypeOK
  <2>3. CASE v = u
    <3>1. On(u) = {}
      BY <1>1, NoneAssumption, ConstantsAssumption DEF On, Busy, TInv, Shape, ShapeOf, Fits
    <3>2. user'[u].password = Hash(last'[u])
      BY <1>3 DEF TInv, TypeOK
    <3> QED
      BY <2>2, <2>3, <3>1, <3>2 DEF Account
  <2>4. CASE v # u
    <3>1. user'[v] = user[v] /\ last'[v] = last[v]
      BY <1>3, <2>4 DEF TInv, TypeOK
    <3>2. \A g \in On(v)' : job[g].user = v
      BY <2>2 DEF On
    <3>3. \A g \in On(v)' : Ready(pc[g], job[g])'
      BY <2>1, <2>2, <3>1, <3>2 DEF Account, Ready
    <3> QED
      BY <2>1, <2>2, <3>1, <3>3 DEF Account
  <2> QED
    BY <2>3, <2>4
<1> QED
  BY <1>2, <1>3 DEF Insert, SignUpLink

\* A step of h that only replaces fields of its job which Ready does not read.
LEMMA OtherAccount ==
  ASSUME TInv, Accounts, NEW h \in Handlers,
         \/ \E s \in Sessions, x \in Hashes : Open(h, s, x)
         \/ Answer(h) \/ FindOwner(h) \/ LoadSession(h)
         \/ \E x \in Hashes : SaveSession(h, x)
         \/ Abort(h)
  PROVE  Accounts'
<1>1. /\ UNCHANGED <<user, last, mixed>>
      /\ \/ Finish(h)
         \/ /\ pc[h] # "idle" /\ pc' \in {[pc EXCEPT ![h] = st] : st \in {"answer", "load", "save"}}
            /\ \/ UNCHANGED job
               \/ \E s \in Sessions, x \in Hashes : job' = [job EXCEPT ![h].id = s, ![h].hash = x]
               \/ \E x \in Hashes : job' = [job EXCEPT ![h].hash = x]
  BY DEF Open, Answer, FindOwner, LoadSession, SaveSession, Abort, Go, tables, history
<1>2. CASE Finish(h)
  BY <1>1, <1>2, FinishAccount
<1>3. CASE ~Finish(h)
  <2>1. /\ Busy(h) /\ \A g \in Handlers \ {h} : pc'[g] = pc[g] /\ job'[g] = job[g]
        /\ pc'[h] \in {"answer", "load", "save"}
    BY <1>1, <1>3 DEF TInv, TypeOK, Busy
  <2>2. job[h] \in Job
    BY <2>1 DEF TInv, Shape, ShapeOf, Fits
  <2>3. job'[h].user = job[h].user /\ job'[h].kind = job[h].kind
    BY <1>1, <1>3, <2>2 DEF TInv, TypeOK, Job
  <2>4. Ready(pc[h], job[h])'
    BY <2>1 DEF Ready
  <2> QED
    BY <1>1, <2>1, <2>3, <2>4, GoAccount
<1> QED
  BY <1>2, <1>3

LEMMA RevokeAccount ==
  ASSUME TInv, Accounts, NEW h \in Handlers, Revoke(h)
  PROVE  Accounts'
<1>1. Fits("revoke", job[h]) /\ pc[h] = "revoke" /\ Busy(h)
  BY OwnShape DEF Revoke, Stages
<1>2. UNCHANGED <<user, last, mixed, job>>
      /\ pc'[h] = (IF job[h].email = None THEN "rehash" ELSE "mail")
      /\ \A g \in Handlers \ {h} : pc'[g] = pc[g]
  BY DEF Revoke, Go, TInv, TypeOK
<1>3. job[h].plain # None
  BY <1>1, ConstantsAssumption DEF Fits
<1>4. Ready(pc[h], job[h]) => Ready(pc[h], job[h])'
  BY <1>1, <1>2, <1>3 DEF Ready
<1> QED
  BY <1>1, <1>2, <1>4, GoAccount

LEMMA SendMailAccount ==
  ASSUME TInv, Accounts, NEW h \in Handlers, SendMail(h)
  PROVE  Accounts'
<1>1. Fits("mail", job[h]) /\ pc[h] = "mail" /\ Busy(h)
  BY OwnShape DEF SendMail, NewEmailLink, Stages
<1>2. UNCHANGED <<user, last, mixed>>
  BY DEF SendMail, NewEmailLink, tables, history
<1>3. CASE Finish(h)
  BY <1>2, <1>3, FinishAccount
<1>4. CASE /\ job' = [job EXCEPT ![h].email = None]
           /\ Go(h, IF job[h].plain = None THEN "fetch" ELSE "rehash")
  <2>1. /\ \A g \in Handlers \ {h} : pc'[g] = pc[g] /\ job'[g] = job[g]
        /\ pc'[h] = (IF job[h].plain = None THEN "fetch" ELSE "rehash")
        /\ job'[h] = [job[h] EXCEPT !.email = None]
    BY <1>4 DEF TInv, TypeOK, Go
  <2>2. /\ job'[h].user = job[h].user /\ job'[h].kind = job[h].kind
        /\ job'[h].plain = job[h].plain /\ job'[h].password = job[h].password
    BY <1>1, <2>1 DEF Fits, Job
  <2>3. Ready(pc[h], job[h]) => Ready(pc[h], job[h])'
    BY <1>1, <2>1, <2>2 DEF Ready
  <2> QED
    BY <1>1, <1>2, <2>1, <2>2, <2>3, GoAccount
<1> QED
  BY <1>3, <1>4 DEF SendMail, NewEmailLink

LEMMA RehashAccount ==
  ASSUME TInv, Accounts, NEW h \in Handlers, Rehash(h)
  PROVE  Accounts'
<1> DEFINE u == job[h].user
           v == IF Found(user[u]) THEN NewPassword(job[h], user[u]) ELSE None
<1>1. Fits("rehash", job[h]) /\ pc[h] = "rehash" /\ Busy(h)
  BY OwnShape DEF Rehash, Stages
<1>2. UNCHANGED <<user, last, mixed>>
  BY DEF Rehash, tables, history
<1>3. /\ \A g \in Handlers \ {h} : pc'[g] = pc[g] /\ job'[g] = job[g]
      /\ pc'[h] \in {"fetch", "taken"}
      /\ job'[h] = [job[h] EXCEPT !.password = v]
  BY DEF Rehash, Go, TInv, TypeOK
<1>4. /\ job'[h].user = u /\ job'[h].kind = job[h].kind
      /\ job'[h].plain = job[h].plain /\ job'[h].password = v
  BY <1>1, <1>3 DEF Fits, Job
<1>5. ASSUME NEW w \in Users, w \notin mixed PROVE Account(w)'
  <2>1. Account(w)
    BY <1>5 DEF Accounts
  <2>4. \A g \in Handlers : /\ Busy(g)' = Busy(g) /\ job'[g].user = job[g].user
                           /\ job'[g].kind = job[g].kind
    BY <1>1, <1>3, <1>4 DEF Busy
  <2>2. On(w)' = On(w) /\ \A g \in On(w) : job'[g].kind = job[g].kind
    BY <2>4 DEF On
  <2>3. ASSUME NEW g \in On(w)' PROVE Ready(pc[g], job[g])'
    <3>1. CASE g # h
      BY <1>2, <1>3, <2>1, <2>2, <2>3, <3>1 DEF Account, On, Ready
    <3>2. CASE g = h
      <4>1. u = w /\ Found(user[u]) /\ Ready("rehash", job[h])
        BY <1>1, <2>1, <2>2, <2>3, <3>2, NoneAssumption DEF On, Account, Found, Fits
      <4>2. v = IF job[h].plain = None THEN None ELSE Hash(job[h].plain)
        BY <4>1 DEF Ready, NewPassword
      <4> QED
        BY <1>3, <1>4, <3>2, <4>2 DEF Ready
    <3> QED
      BY <3>1, <3>2
  <2> QED
    BY <1>2, <2>1, <2>2, <2>3 DEF Account
<1> QED
  BY <1>2, <1>5 DEF Accounts

LEMMA CheckAccount ==
  ASSUME TInv, Accounts, NEW h \in Handlers, CheckTaken(h) \/ Fetch(h)
  PROVE  Accounts'
<1>1. pc[h] \in {"taken", "fetch"} /\ Busy(h) /\ UNCHANGED <<user, last, mixed>>
  BY DEF CheckTaken, Fetch, Busy, tables, history
<1>2. CASE Finish(h)
  BY <1>1, <1>2, FinishAccount
<1>3. CASE UNCHANGED job /\ (Go(h, "fetch") \/ Go(h, "write"))
  <2>1. (\A g \in Handlers \ {h} : pc'[g] = pc[g]) /\ pc'[h] \in {"fetch", "write"}
    BY <1>3 DEF Go, TInv, TypeOK
  <2>2. Ready(pc[h], job[h]) => Ready(pc[h], job[h])'
    BY <1>1, <1>3, <2>1 DEF Ready
  <2> QED
    BY <1>1, <1>3, <2>1, <2>2, GoAccount
<1> QED
  BY <1>2, <1>3 DEF CheckTaken, Fetch

\* h is the only request on an account that it writes.
LEMMA Alone ==
  ASSUME TInv, Accounts, NEW h \in Handlers, pc[h] = "write", job[h].user \notin mixed
  PROVE  /\ job[h].user \in Users /\ On(job[h].user) = {h}
         /\ Account(job[h].user) /\ Ready("write", job[h])
<1>1. Fits("write", job[h]) /\ Busy(h)
  BY OwnShape DEF Stages
<1>2. job[h].user \in Users /\ h \in On(job[h].user) /\ job[h].kind \in Changing
  BY <1>1 DEF Fits, On, Changing
<1> QED
  BY <1>2 DEF Accounts, Account

LEMMA WriteAccount ==
  ASSUME TInv, Accounts, NEW h \in Handlers, Write(h)
  PROVE  Accounts'
<1> DEFINE u == job[h].user
<1>1. Finish(h) /\ UNCHANGED mixed /\ pc[h] = "write"
  BY DEF Write
<1>2. CASE UNCHANGED <<user, last>>
  BY <1>1, <1>2, FinishAccount
<1>3. CASE /\ user' = [user EXCEPT ![u] = Updated(@, job[h])]
           /\ last' = IF job[h].plain = None THEN last ELSE [last EXCEPT ![u] = job[h].plain]
  <2> SUFFICES ASSUME NEW v \in Users, v \notin mixed PROVE Account(v)'
    BY <1>1 DEF Accounts
  <2>1. Account(v)
    BY DEF Accounts
  <2>2. On(v)' \subseteq On(v) \ {h} /\ \A g \in On(v)' : pc'[g] = pc[g] /\ job'[g] = job[g]
    BY <1>1 DEF On, Busy, Finish, TInv, TypeOK
  <2>3. CASE v = u
    <3>1. On(v)' = {} /\ Ready("write", job[h])
      BY <1>1, <2>2, <2>3, Alone
    <3>a. job[h] \in Job
      BY <1>1, OwnShape DEF Fits, Stages
    <3>2. user[u] \in User /\ user'[u] = Updated(user[u], job[h])
      BY <1>1, <1>3, <2>3, OwnShape DEF TInv, TypeOK, Fits, Stages
    <3>3. user'[u].password = IF job[h].password = None THEN user[u].password ELSE job[h].password
      BY <3>2 DEF Updated
    <3>4. last'[u] = IF job[h].plain = None THEN last[u] ELSE job[h].plain
      BY <1>3, <2>3 DEF TInv, TypeOK
    <3>5. user[u].password = Hash(last[u])
      BY <2>1, <2>3, <3>2, NoneAssumption DEF Account
    <3>6. job[h].plain # None => Hash(job[h].plain) # None
      BY <3>a, HashType, NoneAssumption DEF Job
    <3>7. user'[u].password = Hash(last'[u])
      BY <3>1, <3>3, <3>4, <3>5, <3>6 DEF Ready
    <3> QED
      BY <2>3, <3>1, <3>7 DEF Account
  <2>4. CASE v # u
    <3>1. user'[v] = user[v] /\ last'[v] = last[v]
      BY <1>3, <2>4 DEF TInv, TypeOK
    <3>2. \A g \in On(v)' : job[g].user = v
      BY <2>2 DEF On
    <3>3. \A g \in On(v)' : Ready(pc[g], job[g])'
      BY <2>1, <2>2, <3>1, <3>2 DEF Account, Ready
    <3> QED
      BY <2>1, <2>2, <3>1, <3>3 DEF Account
  <2> QED
    BY <2>3, <2>4
<1> QED
  BY <1>2, <1>3 DEF Write

LEMMA LogoutAccount ==
  ASSUME TInv, Accounts, NEW t \in Token, Logout(t)
  PROVE  Accounts'
  BY DEF Logout, Accounts, Account, On, Busy, Ready

LEMMA DeleteAccount ==
  ASSUME TInv, Accounts, NEW t \in Token, Delete(t)
  PROVE  Accounts'
<1> DEFINE u == session[t.id].user
<1> SUFFICES ASSUME NEW v \in Users, v \notin mixed' PROVE Account(v)'
  BY DEF Accounts
<1>1. /\ user' = [user EXCEPT ![u].deleted = TRUE] /\ UNCHANGED <<pc, job, last>>
      /\ v \notin mixed /\ (v = u => ~Mixes("delete", u))
  BY DEF Delete
<1>2. Account(v)
  BY <1>1 DEF Accounts
<1>3. On(v)' = On(v)
  BY <1>1 DEF On, Busy
<1>4. CASE v = u
  <2>1. On(v) = {}
    BY <1>1, <1>4 DEF Mixes, Changing
  <2>2. user[u] \in User
    BY NoneAssumption DEF Delete, TInv, References, Token
  <2>3. user'[v].password = user[v].password
    BY <1>1, <1>4, <2>2 DEF TInv, TypeOK, User
  <2> QED
    BY <1>1, <1>2, <1>3, <1>4, <2>1, <2>2, <2>3, NoneAssumption DEF Account
<1>5. CASE v # u
  <2>1. user'[v] = user[v]
    BY <1>1, <1>5 DEF TInv, TypeOK
  <2>2. \A h \in On(v) : Ready(pc[h], job[h])' <=> Ready(pc[h], job[h])
    BY <1>1, <2>1 DEF On, Ready
  <2> QED
    BY <1>1, <1>2, <1>3, <2>1, <2>2 DEF Account
<1> QED
  BY <1>4, <1>5

LEMMA AccountsInit == Init => Accounts
  BY DEF Init, Accounts, Account, On, Busy

LEMMA AccountsStep == TInv /\ Accounts /\ [Next]_vars => Accounts'
<1> SUFFICES ASSUME TInv, Accounts, [Next]_vars PROVE Accounts'
  OBVIOUS
<1>1. CASE UNCHANGED vars
  BY <1>1 DEF vars, tables, history, Accounts, Account, On, Busy, Ready
<1>2. CASE Next
  <2>1. ASSUME NEW h \in Handlers, Step(h) PROVE Accounts'
    BY <2>1, InsertAccount, OtherAccount, RevokeAccount, SendMailAccount, RehashAccount,
       CheckAccount, WriteAccount DEF Step
  <2>2. ASSUME NEW h \in Handlers, Abort(h) PROVE Accounts'
    BY <2>2, OtherAccount
  <2> QED
    BY <1>2, <2>1, <2>2, ArriveAccount, LogoutAccount, DeleteAccount DEF Next
<1> QED
  BY <1>1, <1>2

\* Registration, confirmation, profile updates and deletion leave in the
\* password column the hash of the password chosen last, hashed once, for
\* every user whose account changes did not overlap other requests.
THEOREM PasswordKept == Spec => []PasswordIsLast
<1>1. Accounts => PasswordIsLast
  BY DEF Accounts, Account, PasswordIsLast
<1> QED
  BY <1>1, TypeInit, TypeStep, AccountsInit, AccountsStep, PTL DEF Spec

LEMMA MixedGrows == Next => mixed \subseteq mixed'
<1>1. ASSUME NEW h \in Handlers, NEW stage, NEW j, Start(h, stage, j)
      PROVE  mixed \subseteq mixed'
  BY <1>1 DEF Start
<1>2. ASSUME NEW h \in Handlers, Arrive(h) PROVE mixed \subseteq mixed'
  BY <1>1, <1>2 DEF Arrive, Register, ConfirmEmail, ConfirmNewEmail, Confirming, Login, Refresh,
     UpdateMe
<1>3. ASSUME NEW h \in Handlers, Step(h) \/ Abort(h) PROVE mixed' = mixed
  BY <1>3 DEF Step, Insert, Open, Answer, FindOwner, LoadSession, SaveSession, Revoke, SendMail,
     Rehash, CheckTaken, Fetch, Write, Abort, history
<1>4. ASSUME NEW t \in Token, Logout(t) \/ Delete(t) PROVE mixed \subseteq mixed'
  BY <1>4 DEF Logout, Delete
<1> QED
  BY <1>2, <1>3, <1>4 DEF Next

LEMMA DeletedStep == TInv /\ Accounts /\ [Next]_vars => StaysDeleted \/ UNCHANGED vars
<1> SUFFICES ASSUME TInv, Accounts, Next, NEW u \in Users, u \notin mixed',
                    user[u] # None, user[u].deleted
             PROVE  user'[u].deleted /\ \A t \in tokens' \ tokens : session[t.id].user # u
  BY DEF StaysDeleted
<1>1. u \notin mixed
  BY MixedGrows
<1>2. On(u) = {}
  BY <1>1 DEF Accounts, Account
<1>3. ASSUME NEW h \in Handlers, Write(h) PROVE user'[u] = user[u] /\ tokens' = tokens
  <2>1. job[h].user # u
    BY <1>1, <1>2, <1>3, Alone DEF Write
  <2> QED
    BY <1>3, <2>1 DEF Write, TInv, TypeOK
<1>4. ASSUME NEW h \in Handlers, Answer(h) PROVE user' = user /\ \A t \in tokens' \ tokens : session[t.id].user # u
  <2>1. Fits("answer", job[h]) /\ h \notin On(u) /\ Busy(h)
    BY <1>2, <1>4, OwnShape DEF Answer, Stages
  <2>2. session[job[h].id].user # u
    BY <2>1 DEF Fits, On
  <2> QED
    BY <1>4, <2>2 DEF Answer, tables
<1>5. ASSUME NEW h \in Handlers, NEW v \in Users, Insert(h, v)
      PROVE  user'[u] = user[u] /\ tokens' = tokens
  BY <1>5 DEF Insert, SignUpLink, TInv, TypeOK
<1>6. ASSUME NEW t \in Token, Delete(t) PROVE user'[u].deleted /\ tokens' = tokens
  <2>1. user[u] \in User
    BY DEF TInv, TypeOK
  <2> QED
    BY <1>6, <2>1 DEF Delete, TInv, TypeOK, User
<1>7. ASSUME NEW h \in Handlers,
             Arrive(h) \/ Abort(h) \/ FindOwner(h) \/ LoadSession(h) \/ Revoke(h) \/ SendMail(h)
               \/ Rehash(h) \/ CheckTaken(h) \/ Fetch(h)
               \/ (\E s \in Sessions, x \in Hashes : Open(h, s, x))
               \/ (\E x \in Hashes : SaveSession(h, x))
      PROVE  user' = user /\ tokens' = tokens
  BY <1>7 DEF Arrive, Register, ConfirmEmail, ConfirmNewEmail, Confirming, Login, Refresh, UpdateMe,
     Abort, FindOwner, LoadSession, Revoke, SendMail, Rehash, CheckTaken, Fetch, Open, SaveSession,
     tables
<1>8. ASSUME NEW t \in Token, Logout(t) PROVE user' = user /\ tokens' = tokens
  BY <1>8 DEF Logout
<1> QED
  BY <1>3, <1>4, <1>5, <1>6, <1>7, <1>8 DEF Next, Step

\* A deleted account stays deleted and its sessions get no token, unless its
\* deletion overlapped a request of the same user.
THEOREM DeletionFinal == Spec => DeletedIsFinal
<1>1. TInv /\ Accounts /\ [Next]_vars => [StaysDeleted]_vars
  BY DeletedStep
<1> QED
  BY <1>1, TypeInit, TypeStep, AccountsInit, AccountsStep, PTL DEF Spec, DeletedIsFinal

-----------------------------------------------------------------------------
(* Ended sessions *)

\* An ended session is deleted, and nobody is refreshing it: a refresh starts
\* by finding it, and one under way keeps it out of ended.
Ended == \A s \in ended : session[s] \in Session /\ session[s].deleted /\ ~Refreshing(s)

\* A step that keeps the sessions in ended, or ends more that nobody refreshes.
LEMMA EndMore ==
  ASSUME TInv, Ended, NEW S \in SUBSET Sessions, \A s \in S : session[s] \in Session,
         End(S), EndedNow(S), UNCHANGED job,
         \A h \in Handlers : Busy(h)' = Busy(h)
  PROVE  Ended'
<1>1. \A s \in S : LET new == [session[s] EXCEPT !.deleted = TRUE]
                  IN new \in Session /\ new.deleted
  BY DEF Session
<1>2. \A s \in Sessions : session'[s] = IF s \in S THEN [session[s] EXCEPT !.deleted = TRUE]
                                      ELSE session[s]
  BY DEF End
<1>3. \A s : Refreshing(s)' = Refreshing(s)
  BY DEF Refreshing
<1>4. ended' \subseteq ended \cup S /\ \A s \in ended' : s \in ended \/ ~Refreshing(s)
  BY DEF EndedNow
<1>5. ended \subseteq Sessions
  BY DEF TInv, TypeOK
<1> QED
  BY <1>1, <1>2, <1>3, <1>4, <1>5 DEF Ended

\* A step that leaves ended alone, and refreshes only sessions found alive.
LEMMA EndedFrame ==
  ASSUME TInv, Ended, UNCHANGED ended,
         \A s \in ended : session'[s] = session[s],
         \A s \in ended : Refreshing(s)' => Refreshing(s)
  PROVE  Ended'
  BY DEF Ended

\* A step of h's own request that keeps its kind and its session.
LEMMA EndedOwn ==
  ASSUME TInv, Ended, NEW h \in Handlers, UNCHANGED ended,
         \A s \in ended : session'[s] = session[s],
         \A g \in Handlers \ {h} : pc'[g] = pc[g] /\ job'[g] = job[g],
         Busy(h)' /\ job'[h].kind = "refresh"
           => Busy(h) /\ job[h].kind = "refresh" /\ job'[h].id = job[h].id
  PROVE  Ended'
<1>1. \A s \in ended : Refreshing(s)' => Refreshing(s)
  BY DEF Refreshing, Busy
<1> QED
  BY <1>1, EndedFrame

LEMMA ArriveEnded ==
  ASSUME TInv, Ended, NEW h \in Handlers, Arrive(h)
  PROVE  Ended'
<1>1. ASSUME NEW stage, NEW j, Start(h, stage, j), UNCHANGED tables, j.kind # "refresh"
      PROVE  Ended'
  <2>1. /\ \A g \in Handlers \ {h} : pc'[g] = pc[g] /\ job'[g] = job[g]
        /\ job'[h] = j /\ UNCHANGED <<ended, session>>
    BY <1>1 DEF Start, TInv, TypeOK, tables
  <2> QED
    BY <1>1, <2>1, EndedOwn
<1>2. ASSUME NEW t \in Token, Refresh(h, t) PROVE Ended'
  <2> DEFINE j == [NewJob("refresh", session[t.id].user) EXCEPT !.id = t.id, !.token = t]
  <2>1. Start(h, "owner", j) /\ UNCHANGED tables /\ Found(session[t.id]) /\ j.id = t.id
    BY <1>2 DEF Refresh, WithUser, NewJob
  <2>2. t.id \notin ended
    BY <2>1 DEF Ended, Found
  <2> HIDE DEF j
  <2>3. /\ \A g \in Handlers \ {h} : pc'[g] = pc[g] /\ job'[g] = job[g]
        /\ job'[h] = j /\ UNCHANGED <<ended, session>>
    BY <2>1 DEF Start, TInv, TypeOK, tables
  <2>4. \A s \in ended : Refreshing(s)' => Refreshing(s)
    BY <2>1, <2>2, <2>3 DEF Refreshing, Busy
  <2> QED
    BY <2>3, <2>4, EndedFrame
<1>3. ASSUME NEW e \in Emails, NEW p \in Passwords, Register(h, e, p) PROVE Ended'
  BY <1>1, <1>3 DEF Register, NewJob
<1>4. ASSUME NEW m \in Mail, ConfirmEmail(h, m) \/ ConfirmNewEmail(h, m) PROVE Ended'
  BY <1>1, <1>4 DEF ConfirmEmail, ConfirmNewEmail, Confirming, NewJob
<1>5. ASSUME NEW u \in Users, NEW p \in Passwords, Login(h, u, p) PROVE Ended'
  BY <1>1, <1>5 DEF Login, NewJob
<1>6. ASSUME NEW t \in Token, NEW p \in Passwords \cup {None}, NEW e \in Emails \cup {None},
             UpdateMe(h, t, p, e)
      PROVE  Ended'
  <2> DEFINE u == session[t.id].user
             address == IF e = user[u].email THEN None ELSE e
             j == [NewJob("update", u) EXCEPT !.id = t.id, !.plain = p, !.email = address]
             stage == IF p # None THEN "revoke" ELSE IF address # None THEN "mail" ELSE "fetch"
  <2>1. Start(h, stage, j) /\ UNCHANGED tables
    BY <1>6 DEF UpdateMe
  <2>2. j.kind = "update"
    BY DEF NewJob
  <2> HIDE DEF stage, j
  <2> QED
    BY <1>1, <2>1, <2>2
<1> QED
  BY <1>2, <1>3, <1>4, <1>5, <1>6 DEF Arrive

\* What the step of a request leaves of its job, and of the other requests.
LEMMA OwnStep ==
  ASSUME TInv, NEW h \in Handlers, Step(h) \/ Abort(h)
  PROVE  /\ \A g \in Handlers \ {h} : pc'[g] = pc[g] /\ job'[g] = job[g]
         /\ Busy(h) /\ job[h] \in Job
         /\ \/ ~Busy(h)'
            \/ /\ job'[h].kind = job[h].kind /\ job'[h].user = job[h].user
               /\ job'[h].plain = job[h].plain
               /\ job'[h].id = job[h].id \/ pc[h] = "open"
<1>1. Busy(h)
  BY DEF Step, Insert, Open, Answer, FindOwner, LoadSession, SaveSession, Revoke, SendMail, Rehash,
     CheckTaken, Fetch, Write, Abort, Busy
<1>2. job[h] \in Job
  BY <1>1 DEF TInv, Shape, ShapeOf, Fits
<1>3. \/ Finish(h)
      \/ /\ \E st \in Stages \ {"idle"} : pc' = [pc EXCEPT ![h] = st]
         /\ \/ UNCHANGED job
            \/ \E x : job' = [job EXCEPT ![h].hash = x]
            \/ \E x : job' = [job EXCEPT ![h].email = x]
            \/ \E x : job' = [job EXCEPT ![h].password = x]
            \/ pc[h] = "open" /\ \E s, x : job' = [job EXCEPT ![h].id = s, ![h].hash = x]
  BY DEF Step, Insert, Open, Answer, FindOwner, LoadSession, SaveSession, Revoke, SendMail, Rehash,
     CheckTaken, Fetch, Write, Abort, Go, Stages
<1>4. CASE Finish(h)
  BY <1>1, <1>2, <1>4 DEF Finish, Busy, TInv, TypeOK
<1>5. CASE ~Finish(h)
  <2>0. job \in [Handlers -> Job \cup {None}]
    BY DEF TInv, TypeOK
  <2>1. \A g \in Handlers \ {h} : pc'[g] = pc[g]
    BY <1>3, <1>5 DEF TInv, TypeOK
  <2>3. ASSUME NEW x, job' = [job EXCEPT ![h].hash = x]
        PROVE  /\ job'[h].kind = job[h].kind /\ job'[h].user = job[h].user /\ job'[h].id = job[h].id
               /\ job'[h].plain = job[h].plain
               /\ \A g \in Handlers \ {h} : job'[g] = job[g]
    <3>1. job'[h] = [job[h] EXCEPT !.hash = x]
      BY <2>0, <2>3
    <3> QED
      BY <1>2, <2>0, <2>3, <3>1 DEF Job
  <2>4. ASSUME NEW x, job' = [job EXCEPT ![h].email = x]
        PROVE  /\ job'[h].kind = job[h].kind /\ job'[h].user = job[h].user /\ job'[h].id = job[h].id
               /\ job'[h].plain = job[h].plain
               /\ \A g \in Handlers \ {h} : job'[g] = job[g]
    <3>1. job'[h] = [job[h] EXCEPT !.email = x]
      BY <2>0, <2>4
    <3> QED
      BY <1>2, <2>0, <2>4, <3>1 DEF Job
  <2>5. ASSUME NEW x, job' = [job EXCEPT ![h].password = x]
        PROVE  /\ job'[h].kind = job[h].kind /\ job'[h].user = job[h].user /\ job'[h].id = job[h].id
               /\ job'[h].plain = job[h].plain
               /\ \A g \in Handlers \ {h} : job'[g] = job[g]
    <3>1. job'[h] = [job[h] EXCEPT !.password = x]
      BY <2>0, <2>5
    <3> QED
      BY <1>2, <2>0, <2>5, <3>1 DEF Job
  <2>6. ASSUME NEW s, NEW x, job' = [job EXCEPT ![h].id = s, ![h].hash = x]
        PROVE  /\ job'[h].kind = job[h].kind /\ job'[h].user = job[h].user
               /\ job'[h].plain = job[h].plain
               /\ \A g \in Handlers \ {h} : job'[g] = job[g]
    <3>1. job'[h] = [job[h] EXCEPT !.id = s, !.hash = x]
      BY <2>0, <2>6
    <3> QED
      BY <1>2, <2>0, <2>6, <3>1 DEF Job
  <2>7. \A g \in Handlers \ {h} : job'[g] = job[g]
    BY <1>3, <1>5, <2>3, <2>4, <2>5, <2>6, Zenon
  <2>8. /\ job'[h].kind = job[h].kind /\ job'[h].user = job[h].user
        /\ job'[h].plain = job[h].plain
        /\ job'[h].id = job[h].id \/ pc[h] = "open"
    BY <1>3, <1>5, <2>3, <2>4, <2>5, <2>6, Zenon
  <2> QED
    BY <1>1, <1>2, <2>1, <2>7, <2>8
<1> QED
  BY <1>4, <1>5

LEMMA StepEnded ==
  ASSUME TInv, Ended, NEW h \in Handlers, Step(h) \/ Abort(h)
  PROVE  Ended'
<1>1. CASE Revoke(h)
  <2> DEFINE S == OthersOf(job[h].user, job[h].id)
  <2>1. S \in SUBSET Sessions /\ \A s \in S : session[s] \in Session
    BY DEF OthersOf, TInv, TypeOK
  <2>2. End(S) /\ EndedNow(S) /\ UNCHANGED job
    BY <1>1 DEF Revoke
  <2>3. \A g \in Handlers : Busy(g)' = Busy(g)
    BY <1>1 DEF Revoke, Go, Busy, TInv, TypeOK
  <2> HIDE DEF S
  <2> QED
    BY <2>1, <2>2, <2>3, EndMore
<1>2. CASE ~Revoke(h)
  <2>1. UNCHANGED ended
    BY <1>2 DEF Step, Insert, Open, Answer, FindOwner, LoadSession, SaveSession, SendMail,
       Rehash, CheckTaken, Fetch, Write, Abort, history
  <2>2. ASSUME NEW s \in ended PROVE session'[s] = session[s]
    <3>1. session[s] \in Session /\ ~Refreshing(s)
      BY DEF Ended
    <3>2. ASSUME NEW r \in Sessions, NEW x \in Hashes, Open(h, r, x) PROVE session'[s] = session[s]
      BY <3>1, <3>2, NoneAssumption DEF Open, TInv, TypeOK
    <3>3. ASSUME NEW x \in Hashes, SaveSession(h, x) PROVE session'[s] = session[s]
      <4>1. Fits("save", job[h]) /\ Busy(h)
        BY <3>3, OwnShape DEF SaveSession, Stages
      <4>2. job[h].id # s
        BY <3>1, <4>1 DEF Fits, Refreshing
      <4> QED
        BY <3>3, <4>2 DEF SaveSession, TInv, TypeOK
    <3>4. CASE session' = session
      BY <3>4
    <3> QED
      BY <1>2, <3>2, <3>3, <3>4 DEF Step, Insert, Answer, FindOwner, LoadSession, SendMail,
         Rehash, CheckTaken, Fetch, Write, Abort, tables
  <2>3. pc[h] = "open" => job[h].kind = "login"
    BY OwnShape DEF Fits, Stages
  <2> QED
    BY <2>1, <2>2, <2>3, OwnStep, EndedOwn
<1> QED
  BY <1>1, <1>2

LEMMA TokenStepEnded ==
  ASSUME TInv, Ended, NEW t \in Token, Logout(t) \/ Delete(t)
  PROVE  Ended'
<1>1. t.id \in Sessions /\ session[t.id] \in Session
  BY DEF Logout, Delete, TInv, References, Token
<1>2. CASE Logout(t)
  BY <1>1, <1>2, EndMore DEF Logout, Busy
<1>3. CASE Delete(t)
  BY <1>3 DEF Delete, Ended, Refreshing, Busy
<1> QED
  BY <1>2, <1>3

LEMMA EndedInit == Init => Ended
  BY DEF Init, Ended

LEMMA EndedStep == TInv /\ Ended /\ [Next]_vars => Ended'
<1> SUFFICES ASSUME TInv, Ended, [Next]_vars PROVE Ended'
  OBVIOUS
<1>1. CASE UNCHANGED vars
  BY <1>1 DEF vars, tables, history, Ended, Refreshing, Busy
<1> QED
  BY <1>1, ArriveEnded, StepEnded, TokenStepEnded DEF Next

\* A session that a logout or a password change ended, while nobody was
\* refreshing it, stays ended: no refresh of any of its tokens revives it.
THEOREM EndedStays == Spec => []EndedStaysEnded
<1>1. Ended => EndedStaysEnded
  BY DEF Ended, EndedStaysEnded
<1> QED
  BY <1>1, TypeInit, TypeStep, EndedInit, EndedStep, PTL DEF Spec

-----------------------------------------------------------------------------
(* Tokens in the clients' hands *)

\* A request is about to answer with the hash that the session holds.
Answering(s) ==
  \E h \in Handlers : pc[h] = "answer" /\ job[h].id = s /\ job[h].hash = session[s].hash

\* Unless an answer was lost, the token of a session's hash is delivered or
\* on its way, whether or not the session has ended.
HeldOf(s) == session[s] # None => [id |-> s, hash |-> session[s].hash] \in tokens \/ Answering(s)
Held == \A s \in Sessions \ lost : HeldOf(s)

\* A step that keeps the hash of s, and every answer about s that is due.
LEMMA HeldFrame ==
  ASSUME NEW s \in Sessions, HeldOf(s), tokens \subseteq tokens',
         session'[s] # None => session[s] # None /\ session'[s].hash = session[s].hash,
         \A g \in Handlers : pc[g] = "answer" /\ job[g].id = s
           => pc'[g] = "answer" /\ job'[g] = job[g]
  PROVE  HeldOf(s)'
<1>1. ASSUME session'[s] # None, Answering(s) PROVE Answering(s)'
  <2>1. PICK g \in Handlers : pc[g] = "answer" /\ job[g].id = s /\ job[g].hash = session[s].hash
    BY <1>1 DEF Answering
  <2>2. pc'[g] = "answer" /\ job'[g].id = s /\ job'[g].hash = session'[s].hash
    BY <1>1, <2>1
  <2> QED
    BY <2>2 DEF Answering
<1> QED
  BY <1>1 DEF HeldOf

\* The end of sessions keeps their hashes.
LEMMA EndHashes ==
  ASSUME TInv, NEW S \in SUBSET Sessions, \A s \in S : session[s] \in Session, End(S),
         NEW s \in Sessions
  PROVE  session'[s] # None => session[s] # None /\ session'[s].hash = session[s].hash
<1>1. s \in S => LET new == [session[s] EXCEPT !.deleted = TRUE] IN new.hash = session[s].hash
  BY DEF Session
<1> QED
  BY <1>1, NoneAssumption DEF End

\* What a request does to the hashes, by the step it takes.
LEMMA StepHeld ==
  ASSUME TInv, Held, NEW h \in Handlers, Step(h) \/ Abort(h)
  PROVE  Held'
<1> SUFFICES ASSUME NEW s \in Sessions, s \notin lost' PROVE HeldOf(s)'
  BY DEF Held
<1>1. /\ \A g \in Handlers \ {h} : pc'[g] = pc[g] /\ job'[g] = job[g]
      /\ Busy(h) /\ job[h] \in Job
  BY OwnStep
<1>2. lost \subseteq lost' /\ tokens \subseteq tokens'
  BY DEF Step, Insert, Open, Answer, FindOwner, LoadSession, SaveSession, Revoke, SendMail, Rehash,
     CheckTaken, Fetch, Write, Abort, history
<1>3. HeldOf(s)
  BY <1>2 DEF Held
<1>4. ASSUME NEW r \in Sessions, NEW x \in Hashes, Open(h, r, x) PROVE HeldOf(s)'
  <2>1. /\ pc[h] = "open" /\ session[r] = None /\ pc'[h] = "answer"
        /\ job'[h].id = r /\ job'[h].hash = x
    BY <1>1, <1>4 DEF Open, Go, TInv, TypeOK, Job
  <2>2. CASE s = r
    <3>1. session'[s].hash = x
      BY <1>4, <2>2 DEF Open, TInv, TypeOK
    <3> QED
      BY <2>1, <2>2, <3>1 DEF HeldOf, Answering
  <2>3. CASE s # r
    <3>1. session'[s] = session[s]
      BY <1>4, <2>3 DEF Open, TInv, TypeOK
    <3> QED
      BY <1>1, <1>2, <1>3, <2>1, <3>1, HeldFrame
  <2> QED
    BY <2>2, <2>3
<1>5. ASSUME NEW x \in Hashes, SaveSession(h, x) PROVE HeldOf(s)'
  <2>1. /\ pc[h] = "save" /\ pc'[h] = "answer"
        /\ job'[h].id = job[h].id /\ job'[h].hash = x
    BY <1>1, <1>5 DEF SaveSession, Go, TInv, TypeOK, Job
  <2>2. Fits("save", job[h])
    BY <2>1, OwnShape DEF Stages
  <2>3. CASE s = job[h].id
    <3>1. session'[s] = [session[s] EXCEPT !.hash = x, !.deleted = FALSE]
      BY <1>5, <2>2, <2>3 DEF SaveSession, Fits, TInv, TypeOK
    <3>2. session'[s].hash = x
      BY <2>2, <2>3, <3>1 DEF Fits, Session
    <3> QED
      BY <2>1, <2>3, <3>2 DEF HeldOf, Answering
  <2>4. CASE s # job[h].id
    <3>1. session'[s] = session[s]
      BY <1>5, <2>4 DEF SaveSession, TInv, TypeOK
    <3> QED
      BY <1>1, <1>2, <1>3, <2>1, <3>1, HeldFrame
  <2> QED
    BY <2>3, <2>4
<1>6. CASE Answer(h)
  <2>1. session' = session /\ [id |-> job[h].id, hash |-> job[h].hash] \in tokens'
    BY <1>6 DEF Answer, tables
  <2>2. CASE pc[h] = "answer" /\ job[h].id = s /\ job[h].hash = session[s].hash
    BY <2>1, <2>2 DEF HeldOf
  <2>3. CASE ~(pc[h] = "answer" /\ job[h].id = s /\ job[h].hash = session[s].hash)
    <3>1. Answering(s) => Answering(s)'
      BY <1>1, <2>1, <2>3 DEF Answering
    <3> QED
      BY <1>2, <1>3, <2>1, <3>1 DEF HeldOf
  <2> QED
    BY <2>2, <2>3
<1>7. CASE Abort(h)
  <2>1. session' = session /\ (pc[h] = "answer" => job[h].id # s)
    BY <1>7 DEF Abort, tables
  <2> QED
    BY <1>1, <1>2, <1>3, <2>1, HeldFrame
<1>8. CASE Revoke(h)
  <2> DEFINE S == OthersOf(job[h].user, job[h].id)
  <2>1. S \in SUBSET Sessions /\ \A r \in S : session[r] \in Session
    BY DEF OthersOf, TInv, TypeOK
  <2>2. End(S) /\ pc[h] = "revoke"
    BY <1>8 DEF Revoke
  <2> HIDE DEF S
  <2>3. session'[s] # None => session[s] # None /\ session'[s].hash = session[s].hash
    BY <2>1, <2>2, EndHashes
  <2> QED
    BY <1>1, <1>2, <1>3, <2>2, <2>3, HeldFrame
<1>9. CASE \/ \E u \in Users : Insert(h, u)
           \/ FindOwner(h) \/ LoadSession(h) \/ SendMail(h) \/ Rehash(h) \/ CheckTaken(h)
           \/ Fetch(h) \/ Write(h)
  <2>1. session' = session /\ pc[h] # "answer"
    BY <1>9 DEF Insert, FindOwner, LoadSession, SendMail, Rehash, CheckTaken, Fetch, Write, tables
  <2> QED
    BY <1>1, <1>2, <1>3, <2>1, HeldFrame
<1> QED
  BY <1>4, <1>5, <1>6, <1>7, <1>8, <1>9 DEF Step

\* A request that arrives finds the tables as they are, and leaves them so.
LEMMA ArriveTables ==
  ASSUME TInv, NEW h \in Handlers, Arrive(h)
  PROVE  /\ \A g \in Handlers \ {h} : pc'[g] = pc[g] /\ job'[g] = job[g]
         /\ ~Busy(h)
         /\ UNCHANGED <<tables, mails, tokens, last, proof, ended, lost>>
<1>1. ASSUME NEW stage, NEW j, Start(h, stage, j)
      PROVE  /\ \A g \in Handlers \ {h} : pc'[g] = pc[g] /\ job'[g] = job[g]
             /\ ~Busy(h) /\ UNCHANGED <<last, proof, ended, lost>>
  BY <1>1 DEF Start, TInv, TypeOK
<1>2. ASSUME NEW e \in Emails, NEW p \in Passwords, Register(h, e, p)
      PROVE  UNCHANGED <<tables, mails, tokens>> /\ \E stage, j : Start(h, stage, j)
  BY <1>2 DEF Register
<1>3. ASSUME NEW m \in Mail, ConfirmEmail(h, m) \/ ConfirmNewEmail(h, m)
      PROVE  UNCHANGED <<tables, mails, tokens>> /\ \E stage, j : Start(h, stage, j)
  BY <1>3 DEF ConfirmEmail, ConfirmNewEmail, Confirming
<1>4. ASSUME NEW u \in Users, NEW p \in Passwords, Login(h, u, p)
      PROVE  UNCHANGED <<tables, mails, tokens>> /\ \E stage, j : Start(h, stage, j)
  BY <1>4 DEF Login
<1>5. ASSUME NEW t \in Token, Refresh(h, t)
      PROVE  UNCHANGED <<tables, mails, tokens>> /\ \E stage, j : Start(h, stage, j)
  BY <1>5 DEF Refresh
<1>6. ASSUME NEW t \in Token, NEW p \in Passwords \cup {None}, NEW e \in Emails \cup {None},
             UpdateMe(h, t, p, e)
      PROVE  UNCHANGED <<tables, mails, tokens>> /\ \E stage, j : Start(h, stage, j)
  BY <1>6 DEF UpdateMe
<1>7. UNCHANGED <<tables, mails, tokens>> /\ \E stage, j : Start(h, stage, j)
  BY <1>2, <1>3, <1>4, <1>5, <1>6 DEF Arrive
<1> QED
  BY <1>1, <1>7

LEMMA HeldInit == Init => Held
  BY DEF Init, Held, HeldOf

LEMMA HeldStep == TInv /\ Held /\ [Next]_vars => Held'
<1> SUFFICES ASSUME TInv, Held, [Next]_vars PROVE Held'
  OBVIOUS
<1>1. CASE UNCHANGED vars
  BY <1>1 DEF vars, tables, history, Held, HeldOf, Answering
<1>2. ASSUME NEW h \in Handlers, Arrive(h) PROVE Held'
  <2> SUFFICES ASSUME NEW s \in Sessions, s \notin lost' PROVE HeldOf(s)'
    BY DEF Held
  <2>1. /\ \A g \in Handlers \ {h} : pc'[g] = pc[g] /\ job'[g] = job[g]
        /\ ~Busy(h) /\ UNCHANGED <<session, tokens, lost>>
    BY <1>2, ArriveTables DEF tables
  <2> QED
    BY <2>1, HeldFrame DEF Held, Busy
<1>3. ASSUME NEW t \in Token, Logout(t) PROVE Held'
  <2> SUFFICES ASSUME NEW s \in Sessions, s \notin lost' PROVE HeldOf(s)'
    BY DEF Held
  <2>1. t.id \in Sessions /\ session[t.id] \in Session /\ End({t.id})
    BY <1>3 DEF Logout, TInv, References, Token
  <2>2. session'[s] # None => session[s] # None /\ session'[s].hash = session[s].hash
    BY <2>1, EndHashes
  <2> QED
    BY <1>3, <2>2, HeldFrame DEF Logout, Held
<1>4. ASSUME NEW t \in Token, Delete(t) PROVE Held'
  BY <1>4 DEF Delete, Held, HeldOf, Answering
<1> QED
  BY <1>1, <1>2, <1>3, <1>4, StepHeld DEF Next

\* Rotation leaves no client without a working token: the hash of a session is
\* in a token that was delivered or is about to be, however many refreshes of
\* it run at once, unless an answer was lost.
THEOREM TokenHeld == Spec => []CurrentTokenHeld
<1>1. Held => CurrentTokenHeld
  BY DEF Held, HeldOf, Answering, CurrentTokenHeld, Found
<1> QED
  BY <1>1, TypeInit, TypeStep, HeldInit, HeldStep, PTL DEF Spec

-----------------------------------------------------------------------------
(* Sessions and the password *)

\* s is a session of u that has not ended.
Live(s, u) == Found(session[s]) /\ session[s].user = u

\* A profile update names a session of its user; a confirmation no password.
CallerOf(h) ==
  Busy(h) => /\ job[h].kind = "confirm" => job[h].plain = None
             /\ job[h].kind = "update" => /\ job[h].id \in Sessions
                                          /\ session[job[h].id] \in Session
                                          /\ session[job[h].id].user = job[h].user
Callers == \A h \in Handlers : CallerOf(h)

\* A login under way has shown the last password, so has the session that is
\* being refreshed, and an update past its revocation has ended the others.
Showed(stage, j) ==
  /\ stage = "open" => j.plain = last[j.user]
  /\ stage \in {"owner", "load", "save"} => proof[j.id] = last[j.user]
  /\ j.kind = "update" /\ j.plain # None /\ stage # "revoke"
       => OthersOf(j.user, j.id) \subseteq ended

ProvenOf(u) ==
  /\ \A s \in Sessions : Live(s, u) => proof[s] = last[u]
  /\ \A h \in On(u) : Showed(pc[h], job[h])
Proven == \A u \in Users \ mixed : ProvenOf(u)

\* Equal hashes are hashes of equal passwords.
LEMMA HashInjective == \A p, q : Hash(p) = Hash(q) => p = q
<1> SUFFICES ASSUME NEW p, NEW q, Hash(p) = Hash(q) PROVE p = q
  OBVIOUS
<1>1. Hash(p).of = p /\ Hash(q).of = q
  BY DEF Hash
<1> QED
  BY <1>1

\* h starts a request, having shown what it must.
LEMMA StartProven ==
  ASSUME TInv, Callers, Proven, NEW h \in Handlers, NEW stage \in Stages \ {"idle"}, NEW j,
         Start(h, stage, j), UNCHANGED tables,
         j.kind = "confirm" => j.plain = None,
         j.kind = "update" => /\ j.id \in Sessions /\ session[j.id] \in Session
                              /\ session[j.id].user = j.user,
         j.user \in Users \ mixed => Showed(stage, j)
  PROVE  Callers' /\ Proven'
<1>1. /\ \A g \in Handlers : /\ pc'[g] = IF g = h THEN stage ELSE pc[g]
                             /\ job'[g] = IF g = h THEN j ELSE job[g]
      /\ UNCHANGED <<session, last, proof, ended>> /\ mixed \subseteq mixed' /\ ~Busy(h)
  BY DEF Start, TInv, TypeOK, tables
<1>2. Callers'
  BY <1>1 DEF Callers, CallerOf, Busy
<1>3. ASSUME NEW u \in Users, u \notin mixed' PROVE ProvenOf(u)'
  <2>1. ProvenOf(u) /\ u \notin mixed
    BY <1>1, <1>3 DEF Proven
  <2>2. \A s \in Sessions : Live(s, u)' => proof'[s] = last'[u]
    BY <1>1, <2>1 DEF ProvenOf, Live, Found
  <2>3. ASSUME NEW g \in On(u)' PROVE Showed(pc[g], job[g])'
    <3>1. Showed(pc'[g], job'[g])
      BY <1>1, <2>1, <2>3 DEF ProvenOf, On, Busy
    <3> QED
      BY <1>1, <3>1 DEF Showed, OthersOf
  <2> QED
    BY <2>2, <2>3 DEF ProvenOf
<1> QED
  BY <1>2, <1>3 DEF Proven

LEMMA ArriveProven ==
  ASSUME TInv, Accounts, Callers, Proven, NEW h \in Handlers, Arrive(h)
  PROVE  Callers' /\ Proven'
<1>1. ASSUME NEW e \in Emails, NEW p \in Passwords, Register(h, e, p) PROVE Callers' /\ Proven'
  <2> DEFINE j == [NewJob("register", None) EXCEPT !.email = e, !.plain = p]
  <2>1. j.user = None /\ j.kind = "register"
    BY DEF NewJob
  <2>2. Start(h, "insert", j) /\ UNCHANGED tables
    BY <1>1 DEF Register
  <2> HIDE DEF j
  <2> QED
    BY <2>1, <2>2, StartProven, ConstantsAssumption DEF Stages
<1>2. ASSUME NEW m \in Mail, ConfirmEmail(h, m) \/ ConfirmNewEmail(h, m) PROVE Callers' /\ Proven'
  <2>1. PICK e : Confirming(h, m.user, e)
    BY <1>2 DEF ConfirmEmail, ConfirmNewEmail
  <2> DEFINE j == [NewJob("confirm", m.user) EXCEPT !.password = user[m.user].password, !.email = e]
  <2>2. j.kind = "confirm" /\ j.plain = None
    BY DEF NewJob
  <2>3. Start(h, "rehash", j) /\ UNCHANGED tables
    BY <1>2, <2>1 DEF Confirming
  <2> HIDE DEF j
  <2>4. Showed("rehash", j)
    BY <2>2 DEF Showed
  <2> QED
    BY <2>2, <2>3, <2>4, StartProven DEF Stages
<1>3. ASSUME NEW u \in Users, NEW p \in Passwords, Login(h, u, p) PROVE Callers' /\ Proven'
  <2> DEFINE j == [NewJob("login", u) EXCEPT !.plain = p]
  <2>1. j.user = u /\ j.kind = "login" /\ j.plain = p
    BY DEF NewJob
  <2>2. Start(h, "open", j) /\ UNCHANGED tables /\ user[u] # None /\ user[u].password = Hash(p)
    BY <1>3 DEF Login, Found
  <2>3. u \notin mixed => p = last[u]
    BY <2>2, HashInjective DEF Accounts, Account
  <2> HIDE DEF j
  <2>4. u \notin mixed => Showed("open", j)
    BY <2>1, <2>3 DEF Showed
  <2> QED
    BY <2>1, <2>2, <2>4, StartProven DEF Stages
<1>4. ASSUME NEW t \in Token, Refresh(h, t) PROVE Callers' /\ Proven'
  <2> DEFINE u == session[t.id].user
             j == [NewJob("refresh", u) EXCEPT !.id = t.id, !.token = t]
  <2>1. j.user = u /\ j.kind = "refresh" /\ j.id = t.id
    BY DEF NewJob
  <2>2. Start(h, "owner", j) /\ UNCHANGED tables /\ Live(t.id, u) /\ t.id \in Sessions
    BY <1>4 DEF Refresh, WithUser, Live, Token
  <2> HIDE DEF j
  <2>3. u \in Users \ mixed => Showed("owner", j)
    BY <2>1, <2>2 DEF Showed, Proven, ProvenOf
  <2> QED
    BY <2>1, <2>2, <2>3, StartProven DEF Stages
<1>5. ASSUME NEW t \in Token, NEW p \in Passwords \cup {None}, NEW e \in Emails \cup {None},
             UpdateMe(h, t, p, e)
      PROVE  Callers' /\ Proven'
  <2> DEFINE u == session[t.id].user
             address == IF e = user[u].email THEN None ELSE e
             j == [NewJob("update", u) EXCEPT !.id = t.id, !.plain = p, !.email = address]
             stage == IF p # None THEN "revoke" ELSE IF address # None THEN "mail" ELSE "fetch"
  <2>1. j.user = u /\ j.kind = "update" /\ j.plain = p /\ j.id = t.id
    BY DEF NewJob
  <2>2. Start(h, stage, j) /\ UNCHANGED tables
    BY <1>5 DEF UpdateMe
  <2>3. t.id \in Sessions /\ session[t.id] \in Session
    BY <1>5 DEF UpdateMe, TInv, References, Token
  <2>4. stage \in {"revoke", "mail", "fetch"} /\ (stage # "revoke" => p = None)
    OBVIOUS
  <2> HIDE DEF stage, j
  <2>5. Showed(stage, j)
    BY <2>1, <2>4 DEF Showed
  <2>6. stage \in Stages \ {"idle"}
    BY <2>4 DEF Stages
  <2> QED
    BY <2>1, <2>2, <2>3, <2>5, <2>6, StartProven
<1> QED
  BY <1>1, <1>2, <1>3, <1>4, <1>5 DEF Arrive

\* A step keeps the sessions that are there, with their users.
LEMMA StepSessions ==
  ASSUME TInv, NEW h \in Handlers, Step(h) \/ Abort(h)
  PROVE  \A s \in Sessions : session[s] \in Session
           => session'[s] \in Session /\ session'[s].user = session[s].user
<1>1. ASSUME NEW r \in Sessions, NEW x \in Hashes, Open(h, r, x), NEW s \in Sessions,
             session[s] \in Session
      PROVE  session'[s] = session[s]
  BY <1>1, NoneAssumption DEF Open, TInv, TypeOK
<1>2. ASSUME NEW x \in Hashes, SaveSession(h, x), NEW s \in Sessions, session[s] \in Session
      PROVE  session'[s] \in Session /\ session'[s].user = session[s].user
  <2>1. [session[s] EXCEPT !.hash = x, !.deleted = FALSE] \in Session
    BY <1>2 DEF Session
  <2>2. [session[s] EXCEPT !.hash = x, !.deleted = FALSE].user = session[s].user
    BY <1>2 DEF Session
  <2>3. session'[s] = session[s] \/ session'[s] = [session[s] EXCEPT !.hash = x, !.deleted = FALSE]
    BY <1>2 DEF SaveSession, TInv, TypeOK
  <2> QED
    BY <1>2, <2>1, <2>2, <2>3
<1>3. ASSUME Revoke(h), NEW s \in Sessions, session[s] \in Session
      PROVE  session'[s] \in Session /\ session'[s].user = session[s].user
  <2> DEFINE S == OthersOf(job[h].user, job[h].id)
  <2>1. S \in SUBSET Sessions /\ \A r \in S : session[r] \in Session
    BY DEF OthersOf, TInv, TypeOK
  <2>2. End(S) /\ UNCHANGED user
    BY <1>3 DEF Revoke
  <2> HIDE DEF S
  <2> QED
    BY <1>3, <2>1, <2>2, EndKeeps DEF Keeps
<1>4. CASE session' = session
  BY <1>4
<1> QED
  BY <1>1, <1>2, <1>3, <1>4 DEF Step, Insert, Answer, FindOwner, LoadSession, SendMail, Rehash,
     CheckTaken, Fetch, Write, Abort, tables

LEMMA StepCallers ==
  ASSUME TInv, Callers, NEW h \in Handlers, Step(h) \/ Abort(h)
  PROVE  Callers'
<1>1. pc[h] = "open" => job[h].kind = "login"
  BY OwnShape DEF Fits, Stages
<1>2. CallerOf(h)'
  BY <1>1, OwnStep, StepSessions DEF Callers, CallerOf
<1>3. ASSUME NEW g \in Handlers \ {h} PROVE CallerOf(g)'
  BY OwnStep, StepSessions DEF Callers, CallerOf, Busy
<1> QED
  BY <1>2, <1>3 DEF Callers

\* Sessions opened for u, or revived, are no others.
LEMMA OthersStay ==
  ASSUME \A s \in Sessions : session'[s] # None => session[s] # None /\ session'[s].user = session[s].user
  PROVE  \A u, s : OthersOf(u, s)' \subseteq OthersOf(u, s)
  BY DEF OthersOf

\* A step of h that opens no session, revives none, and leaves the passwords
\* alone.
LEMMA CalmProven ==
  ASSUME TInv, Proven, NEW h \in Handlers, Step(h) \/ Abort(h),
         UNCHANGED <<last, proof, mixed>>, ended \subseteq ended',
         \A s \in Sessions : session[s] = None => session'[s] = None,
         \A s \in Sessions, u \in Users : Live(s, u)' => Live(s, u),
         Busy(h)' /\ job[h].user \notin mixed
           => (Showed(pc[h], job[h]) => Showed(pc[h], job[h])')
  PROVE  Proven'
<1> SUFFICES ASSUME NEW u \in Users, u \notin mixed' PROVE ProvenOf(u)'
  BY DEF Proven
<1>1. ProvenOf(u)
  BY DEF Proven
<1>2. \A s \in Sessions : Live(s, u)' => proof'[s] = last'[u]
  BY <1>1 DEF ProvenOf
<1>3. \A v, s : OthersOf(v, s)' \subseteq OthersOf(v, s)
  BY StepSessions, OthersStay DEF TInv, TypeOK
<1>4. ASSUME NEW g \in On(u)' PROVE Showed(pc[g], job[g])'
  <2>1. g \in On(u) /\ (g # h => pc'[g] = pc[g] /\ job'[g] = job[g])
    BY <1>3, OwnStep DEF On, Busy
  <2>2. Showed(pc[g], job[g])
    BY <1>1, <2>1 DEF ProvenOf
  <2>3. CASE g = h
    BY <2>1, <2>2, <2>3 DEF On
  <2>4. CASE g # h
    BY <1>3, <2>1, <2>2, <2>4 DEF Showed, On
  <2> QED
    BY <2>3, <2>4
<1> QED
  BY <1>2, <1>4 DEF ProvenOf

\* Steps of h that leave the session table alone.
LEMMA LookProven ==
  ASSUME TInv, Proven, NEW h \in Handlers,
         \/ Answer(h) \/ FindOwner(h) \/ LoadSession(h) \/ SendMail(h) \/ Rehash(h)
         \/ CheckTaken(h) \/ Fetch(h) \/ Abort(h)
  PROVE  Proven'
<1>1. Step(h) \/ Abort(h)
  BY DEF Step
<1>2. UNCHANGED <<session, last, proof, mixed, ended>>
  BY DEF Answer, FindOwner, LoadSession, SendMail, Rehash, CheckTaken, Fetch, Abort, tables, history
<1>3. \A s \in Sessions, u \in Users : Live(s, u)' <=> Live(s, u)
  BY <1>2 DEF Live, Found
<1>4. Busy(h)' => /\ pc'[h] \in {"load", "save"} => pc[h] \in {"owner", "load"}
                  /\ pc[h] # "revoke" /\ pc'[h] \notin {"open", "owner"}
  BY DEF Answer, FindOwner, LoadSession, SendMail, Rehash, CheckTaken, Fetch, Abort, Finish, Go, Busy,
     TInv, TypeOK
<1>5. Busy(h)' => pc[h] # "open"
  BY DEF Answer, FindOwner, LoadSession, SendMail, Rehash, CheckTaken, Fetch, Abort, Finish, Busy,
     TInv, TypeOK
<1>6. Busy(h)' => /\ job'[h].kind = job[h].kind /\ job'[h].user = job[h].user
                  /\ job'[h].plain = job[h].plain /\ job'[h].id = job[h].id
  BY <1>1, <1>5, OwnStep
<1>7. Busy(h)' => (Showed(pc[h], job[h]) => Showed(pc[h], job[h])')
  BY <1>2, <1>4, <1>6 DEF Showed, OthersOf
<1> QED
  BY <1>1, <1>2, <1>3, <1>7, CalmProven


LEMMA RevokeProven ==
  ASSUME TInv, Accounts, Callers, Proven, NEW h \in Handlers, Revoke(h)
  PROVE  Proven'
<1> DEFINE S == OthersOf(job[h].user, job[h].id)
<1>1. /\ pc[h] = "revoke" /\ End(S) /\ UNCHANGED <<user, job, last, proof, mixed>>
      /\ pc' = [pc EXCEPT ![h] = IF job[h].email = None THEN "rehash" ELSE "mail"]
  BY DEF Revoke, Go
<1>2. Fits("revoke", job[h]) /\ Busy(h)
  BY <1>1, OwnShape DEF Stages
<1>3. S \subseteq Sessions /\ \A s \in S : session[s] \in Session
  BY DEF OthersOf, TInv, TypeOK
<1>4. \A s \in S : LET new == [session[s] EXCEPT !.deleted = TRUE] IN new.deleted
  BY <1>3 DEF Session
<1>5. \A s \in Sessions : session'[s] = IF s \in S THEN [session[s] EXCEPT !.deleted = TRUE]
                                      ELSE session[s]
  BY <1>1 DEF End
<1>6. \A s \in Sessions, u \in Users : Live(s, u)' => Live(s, u) /\ s \notin S
  BY <1>4, <1>5 DEF Live, Found
<1>7. ASSUME job[h].user \notin mixed PROVE S \subseteq ended'
  <2>1. Account(job[h].user) /\ h \in On(job[h].user) /\ job[h].kind = "update"
    BY <1>2, <1>7 DEF Accounts, Fits, On
  <2>2. ASSUME NEW s \in S, Refreshing(s) PROVE FALSE
    <3>1. PICK g \in Handlers : Busy(g) /\ job[g].kind = "refresh" /\ job[g].id = s
      BY <2>2 DEF Refreshing
    <3>2. pc[g] \in {"owner", "load", "save", "answer"}
      BY <3>1 DEF TInv, TypeOK, Shape, ShapeOf, Fits, Busy, Stages
    <3>3. job[g].user = session[s].user
      BY <3>1, <3>2, OwnShape DEF Fits, Stages
    <3>4. g \in On(job[h].user)
      BY <3>1, <3>3 DEF OthersOf, On
    <3> QED
      BY <2>1, <3>1, <3>4 DEF Account, Changing
  <2>3. EndedNow(S)
    BY DEF Revoke
  <2> QED
    BY <2>2, <2>3 DEF EndedNow
<1>8. ended \subseteq ended' /\ \A s \in Sessions : session[s] = None => session'[s] = None
  BY <1>3, <1>5, NoneAssumption DEF Revoke, EndedNow
<1>9. job[h].user \notin mixed => Showed(pc[h], job[h])'
  <2>1. pc'[h] \in {"rehash", "mail"}
    BY <1>1 DEF TInv, TypeOK
  <2>2. \A u, s : OthersOf(u, s)' \subseteq OthersOf(u, s)
    BY <1>8, StepSessions, OthersStay DEF Step, TInv, TypeOK
  <2>3. job[h].user \notin mixed => OthersOf(job[h].user, job[h].id)' \subseteq ended'
    BY <1>1, <1>7, <2>2 DEF OthersOf
  <2> HIDE DEF S
  <2> QED
    BY <1>1, <2>1, <2>3 DEF Showed
<1> HIDE DEF S
<1> QED
  BY <1>1, <1>6, <1>8, <1>9, CalmProven DEF Step

\* A refresh writes the session it found: the password shown in it is the last
\* one still, and no update of the user is under way.
LEMMA SaveProven ==
  ASSUME TInv, Accounts, Proven, NEW h \in Handlers, NEW x \in Hashes, SaveSession(h, x)
  PROVE  Proven'
<1> SUFFICES ASSUME NEW u \in Users, u \notin mixed' PROVE ProvenOf(u)'
  BY DEF Proven
<1>1. /\ pc[h] = "save" /\ pc' = [pc EXCEPT ![h] = "answer"]
      /\ UNCHANGED <<user, last, proof, ended, mixed>>
  BY DEF SaveSession, Go, history
<1>2. Fits("save", job[h]) /\ Busy(h)
  BY <1>1, OwnShape DEF Stages
<1>3. ProvenOf(u) /\ Account(u)
  BY <1>1 DEF Proven, Accounts
<1>4. /\ \A g \in Handlers \ {h} : pc'[g] = pc[g] /\ job'[g] = job[g]
      /\ pc'[h] = "answer" /\ job'[h].user = job[h].user /\ job'[h].kind = job[h].kind
  BY <1>1, OwnStep DEF Step, TInv, TypeOK, Busy
<1>5. \A s \in Sessions : s # job[h].id => session'[s] = session[s]
  BY DEF SaveSession, TInv, TypeOK
<1>6. session'[job[h].id].user = job[h].user
  BY <1>2, StepSessions DEF Fits, Step
<1>7. \A s \in Sessions : Live(s, u)' => Live(s, u) \/ (s = job[h].id /\ h \in On(u))
  BY <1>2, <1>5, <1>6 DEF Live, Found, On
<1>8. h \in On(u) => proof[job[h].id] = last[u]
  BY <1>1, <1>3 DEF ProvenOf, Showed, On
<1>a. \A v, s : OthersOf(v, s)' \subseteq OthersOf(v, s)
  <2>1. \A s \in Sessions : session'[s] # None
          => session[s] # None /\ session'[s].user = session[s].user
    BY <1>2, <1>5, <1>6, NoneAssumption DEF Fits
  <2> QED
    BY <2>1, OthersStay
<1>9. \A s \in Sessions : Live(s, u)' => proof'[s] = last'[u]
  BY <1>1, <1>3, <1>7, <1>8 DEF ProvenOf
<1>10. ASSUME NEW g \in On(u)' PROVE Showed(pc[g], job[g])'
  <2>1. CASE g = h
    BY <1>2, <1>4, <2>1 DEF Showed, Fits
  <2>2. CASE g # h
    <3>1. g \in On(u) /\ pc'[g] = pc[g] /\ job'[g] = job[g] /\ job[g].user = u
      BY <1>4, <1>10, <2>2 DEF On, Busy
    <3>2. Showed(pc[g], job[g])
      BY <1>3, <3>1 DEF ProvenOf
    <3> QED
      BY <1>1, <1>a, <3>1, <3>2 DEF Showed
  <2> QED
    BY <2>1, <2>2
<1> QED
  BY <1>9, <1>10 DEF ProvenOf

\* A login opens a session with the password it compared, which is the last.
LEMMA OpenProven ==
  ASSUME TInv, Accounts, Proven, NEW h \in Handlers, NEW r \in Sessions, NEW x \in Hashes,
         Open(h, r, x)
  PROVE  Proven'
<1> SUFFICES ASSUME NEW u \in Users, u \notin mixed' PROVE ProvenOf(u)'
  BY DEF Proven
<1>1. /\ pc[h] = "open" /\ pc' = [pc EXCEPT ![h] = "answer"] /\ session[r] = None
      /\ UNCHANGED <<user, last, ended, mixed>>
  BY DEF Open, Go
<1>2. Fits("open", job[h]) /\ Busy(h)
  BY <1>1, OwnShape DEF Stages
<1>3. ProvenOf(u) /\ Account(u)
  BY <1>1 DEF Proven, Accounts
<1>4. /\ \A g \in Handlers \ {h} : pc'[g] = pc[g] /\ job'[g] = job[g]
      /\ pc'[h] = "answer" /\ job'[h].user = job[h].user /\ job'[h].kind = job[h].kind
  BY <1>1, OwnStep DEF Step, TInv, TypeOK, Busy
<1>5. /\ \A s \in Sessions : s # r => session'[s] = session[s] /\ proof'[s] = proof[s]
      /\ session'[r].user = job[h].user /\ proof'[r] = job[h].plain
  BY DEF Open, TInv, TypeOK
<1>6. \A s \in Sessions : Live(s, u)' => (s # r /\ Live(s, u)) \/ (s = r /\ h \in On(u))
  BY <1>2, <1>5 DEF Live, Found, On
<1>7. h \in On(u) => job[h].plain = last[u]
  BY <1>1, <1>3 DEF ProvenOf, Showed, On
<1>8. \A s \in Sessions : Live(s, u)' => proof'[s] = last'[u]
  BY <1>1, <1>3, <1>5, <1>6, <1>7 DEF ProvenOf
<1>9. ASSUME NEW g \in On(u)' PROVE Showed(pc[g], job[g])'
  <2>1. CASE g = h
    BY <1>2, <1>4, <2>1 DEF Showed, Fits
  <2>2. CASE g # h
    <3>1. /\ g \in On(u) /\ pc'[g] = pc[g] /\ job'[g] = job[g] /\ job[g].user = u
          /\ pc[g] \in Stages \ {"idle"}
      BY <1>4, <1>9, <2>2 DEF On, Busy, TInv, TypeOK
    <3>2. Showed(pc[g], job[g])
      BY <1>3, <3>1 DEF ProvenOf
    <3>3. job[g].kind = "update" => h \notin On(u)
      BY <1>3, <2>2, <3>1 DEF Account, Changing
    <3>4. pc[g] \in {"owner", "load", "save"} => proof'[job[g].id] = proof[job[g].id]
      <4>1. pc[g] \in {"owner", "load", "save"}
              => job[g].id \in Sessions /\ session[job[g].id] \in Session
        BY <3>1, OwnShape DEF Fits, On
      <4> QED
        BY <1>1, <1>5, <4>1, NoneAssumption
    <3>5. h \notin On(u) => \A s : OthersOf(u, s)' \subseteq OthersOf(u, s)
      BY <1>2, <1>5 DEF OthersOf, On, Fits
    <3> QED
      BY <1>1, <3>1, <3>2, <3>3, <3>4, <3>5 DEF Showed
  <2> QED
    BY <2>1, <2>2
<1> QED
  BY <1>8, <1>9 DEF ProvenOf

\* A new user has no session yet, and nobody works for it.
LEMMA InsertProven ==
  ASSUME TInv, Proven, NEW h \in Handlers, NEW v \in Users, Insert(h, v)
  PROVE  Proven'
<1> SUFFICES ASSUME NEW u \in Users, u \notin mixed' PROVE ProvenOf(u)'
  BY DEF Proven
<1>1. /\ user[v] = None /\ UNCHANGED <<session, proof, ended, mixed>>
      /\ \A w \in Users : w # v => last'[w] = last[w]
  BY DEF Insert, TInv, TypeOK
<1>2. ProvenOf(u)
  BY <1>1 DEF Proven
<1>3. On(u)' \subseteq On(u) /\ \A g \in On(u)' : pc'[g] = pc[g] /\ job'[g] = job[g]
  BY DEF Insert, On, Busy, Finish, TInv, TypeOK
<1>4. CASE u = v
  <2>1. On(u) = {}
    BY <1>1, <1>4, NoneAssumption, ConstantsAssumption DEF On, Busy, TInv, Shape, ShapeOf, Fits
  <2>2. \A s \in Sessions : ~Live(s, u)'
    BY <1>1, <1>4, NoneAssumption DEF Live, Found, TInv, References
  <2> QED
    BY <1>3, <2>1, <2>2 DEF ProvenOf
<1>5. CASE u # v
  <2>1. UNCHANGED <<session, proof>> /\ last'[u] = last[u]
    BY <1>1, <1>5
  <2>2. \A s \in Sessions : Live(s, u)' <=> Live(s, u)
    BY <1>1 DEF Live, Found
  <2>3. ASSUME NEW g \in On(u)' PROVE Showed(pc[g], job[g])'
    <3>1. Showed(pc[g], job[g]) /\ pc'[g] = pc[g] /\ job'[g] = job[g] /\ job[g].user = u
      BY <1>2, <1>3, <2>3 DEF ProvenOf, On
    <3> QED
      BY <1>1, <2>1, <3>1 DEF Showed, OthersOf
  <2> QED
    BY <1>2, <2>1, <2>2, <2>3 DEF ProvenOf
<1> QED
  BY <1>4, <1>5

\* The update of a password is alone on its account, and only its own session
\* is left, in which the new password counts as shown.
LEMMA WriteProven ==
  ASSUME TInv, Accounts, Ended, Callers, Proven, NEW h \in Handlers, Write(h)
  PROVE  Proven'
<1> DEFINE v == job[h].user
           id == job[h].id
<1>1. Fits("write", job[h]) /\ Busy(h) /\ pc[h] = "write"
  BY OwnShape DEF Write, Stages
<1>2. UNCHANGED <<session, ended, mixed>> /\ Finish(h)
  BY DEF Write
<1>3. \A s \in Sessions, u \in Users : Live(s, u)' <=> Live(s, u)
  BY <1>2 DEF Live, Found
<1>4. CASE UNCHANGED <<last, proof>>
  <2>1. ~Busy(h)'
    BY <1>2 DEF Finish, Busy, TInv, TypeOK
  <2> QED
    BY <1>2, <1>3, <1>4, <2>1, CalmProven DEF Step
<1>5. CASE /\ job[h].plain # None /\ last' = [last EXCEPT ![v] = job[h].plain]
           /\ proof' = [proof EXCEPT ![id] = job[h].plain]
  <2>1. job[h].kind = "update" /\ id \in Sessions /\ session[id].user = v /\ v \in Users
    BY <1>1, <1>5 DEF Fits, Callers, CallerOf
  <2>2. /\ \A w \in Users : last'[w] = IF w = v THEN job[h].plain ELSE last[w]
        /\ \A s \in Sessions : proof'[s] = IF s = id THEN job[h].plain ELSE proof[s]
    BY <1>5 DEF TInv, TypeOK
  <2> SUFFICES ASSUME NEW u \in Users, u \notin mixed' PROVE ProvenOf(u)'
    BY DEF Proven
  <2>3. ProvenOf(u)
    BY <1>2 DEF Proven
  <2>4. On(u)' \subseteq On(u) \ {h} /\ \A g \in On(u)' : pc'[g] = pc[g] /\ job'[g] = job[g]
    BY <1>2 DEF On, Busy, Finish, TInv, TypeOK
  <2>5. CASE u = v
    <3>1. On(u) = {h}
      BY <1>1, <1>2, <2>5, Alone
    <3>2. \A s \in Sessions : Live(s, u) => s = id
      <4>1. OthersOf(u, id) \subseteq ended
        BY <1>1, <1>5, <2>1, <2>3, <2>5, <3>1 DEF ProvenOf, Showed
      <4> QED
        BY <4>1 DEF Live, Found, OthersOf, Ended
    <3> QED
      BY <1>3, <2>2, <2>4, <2>5, <3>1, <3>2 DEF ProvenOf
  <2>6. CASE u # v
    <3>1. \A s \in Sessions : Live(s, u) => s # id
      BY <2>1, <2>6 DEF Live
    <3>2. ASSUME NEW g \in On(u)' PROVE Showed(pc[g], job[g])'
      <4>1. /\ g \in On(u) /\ Showed(pc[g], job[g]) /\ pc'[g] = pc[g] /\ job'[g] = job[g]
            /\ job[g].user = u /\ pc[g] \in Stages \ {"idle"}
        BY <2>3, <2>4, <3>2 DEF ProvenOf, On, Busy, TInv, TypeOK
      <4>2. pc[g] \in {"owner", "load", "save"} => proof'[job[g].id] = proof[job[g].id]
        <5>1. pc[g] \in {"owner", "load", "save"}
                => job[g].id \in Sessions /\ session[job[g].id].user = u
          BY <4>1, OwnShape DEF Fits, On
        <5> QED
          BY <2>1, <2>2, <2>6, <5>1
      <4>3. last'[u] = last[u]
        BY <2>2, <2>6
      <4> QED
        BY <1>2, <4>1, <4>2, <4>3 DEF Showed, OthersOf
    <3> QED
      BY <1>3, <2>2, <2>3, <2>6, <3>1, <3>2 DEF ProvenOf
  <2> QED
    BY <2>5, <2>6
<1> QED
  BY <1>4, <1>5 DEF Write

\* Statements that tokens ask for: sessions only end, and accounts only mix.
LEMMA TokenProven ==
  ASSUME TInv, Callers, Proven, NEW t \in Token, Logout(t) \/ Delete(t)
  PROVE  Callers' /\ Proven'
<1>1. t.id \in Sessions /\ session[t.id] \in Session
  BY DEF Logout, Delete, TInv, References, Token
<1>2. UNCHANGED <<pc, job, last, proof>> /\ mixed \subseteq mixed' /\ ended \subseteq ended'
  BY DEF Logout, Delete, EndedNow
<1>3. session' = session \/ (End({t.id}) /\ UNCHANGED user)
  BY DEF Logout, Delete
<1>4. \A s \in Sessions : session[s] \in Session
        => session'[s] \in Session /\ session'[s].user = session[s].user
  BY <1>1, <1>3, EndKeeps DEF Keeps
<1>5. \A s \in Sessions : session'[s] # None /\ ~session'[s].deleted
        => session[s] # None /\ ~session[s].deleted /\ session'[s].user = session[s].user
  <2>1. [session[t.id] EXCEPT !.deleted = TRUE].deleted
    BY <1>1 DEF Session
  <2> QED
    BY <1>3, <2>1 DEF End
<1>6. \A s \in Sessions, u \in Users : Live(s, u)' => Live(s, u)
  BY <1>5 DEF Live, Found
<1>a. \A v, s : OthersOf(v, s)' \subseteq OthersOf(v, s)
  <2>1. \A s \in Sessions : session[s] = None => session'[s] = None
    BY <1>1, <1>3, EndKeeps
  <2> QED
    BY <1>4, <2>1, OthersStay DEF TInv, TypeOK
<1>7. Callers'
  BY <1>2, <1>4 DEF Callers, CallerOf, Busy
<1>8. ASSUME NEW u \in Users, u \notin mixed' PROVE ProvenOf(u)'
  <2>1. ProvenOf(u)
    BY <1>2, <1>8 DEF Proven
  <2>2. ASSUME NEW g \in On(u)' PROVE Showed(pc[g], job[g])'
    <3>1. g \in On(u) /\ Showed(pc[g], job[g]) /\ job[g].user = u
      BY <1>2, <2>1, <2>2 DEF ProvenOf, On, Busy
    <3> QED
      BY <1>2, <1>a, <3>1 DEF Showed
  <2> QED
    BY <1>2, <1>6, <2>1, <2>2 DEF ProvenOf
<1> QED
  BY <1>7, <1>8 DEF Proven

LEMMA ProvenInit == Init => Callers /\ Proven
  BY DEF Init, Callers, CallerOf, Proven, ProvenOf, Live, Found, On, Busy

LEMMA ProvenStep ==
  TInv /\ Accounts /\ Ended /\ Callers /\ Proven /\ [Next]_vars => Callers' /\ Proven'
<1> SUFFICES ASSUME TInv, Accounts, Ended, Callers, Proven, [Next]_vars PROVE Callers' /\ Proven'
  OBVIOUS
<1>1. CASE UNCHANGED vars
  BY <1>1 DEF vars, tables, history, Callers, CallerOf, Proven, ProvenOf, Live, Found, Showed,
     OthersOf, On, Busy
<1>2. ASSUME NEW h \in Handlers, Step(h) \/ Abort(h) PROVE Callers' /\ Proven'
  <2>1. Proven'
    BY <1>2, LookProven, RevokeProven, SaveProven, OpenProven, InsertProven, WriteProven DEF Step
  <2> QED
    BY <1>2, <2>1, StepCallers
<1> QED
  BY <1>1, <1>2, ArriveProven, TokenProven DEF Next

\* While no request of a user is handled, every session of the user that is
\* live was opened with the password valid now or has set it itself: changing
\* a password shuts the other sessions out, even when it fails halfway, unless
\* requests of the user overlapped the change.
THEOREM PasswordRevokes == Spec => []RevokedByPassword
<1>1. TInv /\ Proven => RevokedByPassword
  BY DEF TInv, TypeOK, Session, Proven, ProvenOf, Live, Found, RevokedByPassword
<1> QED
  BY <1>1, TypeInit, TypeStep, AccountsInit, AccountsStep, EndedInit, EndedStep, ProvenInit,
     ProvenStep, PTL DEF Spec

-----------------------------------------------------------------------------
(* Auth implements Credentials *)

\* What rows say of accounts and sessions, when they change.
LEMMA SecretSet ==
  ASSUME TInv, NEW u \in Users, NEW row \in User, user' = [user EXCEPT ![u] = row]
  PROVE  /\ Secret' = [Secret EXCEPT ![u] = row.password]
         /\ Closed' = IF row.deleted THEN Closed \cup {u} ELSE Closed \ {u}
<1>1. \A v \in Users : user'[v] = IF v = u THEN row ELSE user[v]
  BY DEF TInv, TypeOK
<1>2. row # None
  BY NoneAssumption
<1>3. Secret' = [Secret EXCEPT ![u] = row.password]
  <2>1. \A v \in Users : Secret'[v] = IF v = u THEN row.password ELSE Secret[v]
    BY <1>1, <1>2 DEF Secret
  <2> QED
    BY <2>1 DEF Secret
<1>4. Closed' = IF row.deleted THEN Closed \cup {u} ELSE Closed \ {u}
  BY <1>1, <1>2 DEF Closed
<1> QED
  BY <1>3, <1>4

LEMMA ShownSet ==
  ASSUME TInv, NEW s \in Sessions, NEW p \in Passwords, proof' = [proof EXCEPT ![s] = p]
  PROVE  Shown' = [Shown EXCEPT ![s] = Hash(p)]
<1>1. \A r \in Sessions : proof'[r] = IF r = s THEN p ELSE proof[r]
  BY DEF TInv, TypeOK
<1>2. \A r \in Sessions : Shown'[r] = IF r = s THEN Hash(p) ELSE Shown[r]
  BY <1>1, ConstantsAssumption DEF Shown
<1> QED
  BY <1>2 DEF Shown

LEMMA OwnerSame ==
  ASSUME \A s \in Sessions : /\ session'[s] = None <=> session[s] = None
                             /\ session[s] # None => session'[s].user = session[s].user
  PROVE  Owner' = Owner
  BY DEF Owner

LEMMA OwnersOf ==
  ASSUME TInv, NEW u \in Users, NEW s \in Sessions
  PROVE  Owner[s] = u <=> session[s] # None /\ session[s].user = u
  BY ConstantsAssumption DEF Owner

\* What a step changes of the tables is what the mapping sees.
LEMMA Unseen ==
  /\ UNCHANGED user => UNCHANGED <<Secret, Closed>>
  /\ UNCHANGED session => UNCHANGED Owner
  /\ UNCHANGED proof => UNCHANGED Shown
  BY DEF Secret, Closed, Owner, Shown

LEMMA ContractInit == Init => Accountable!Init
  BY DEF Init, Accountable!Init, Secret, Closed, Owner, Shown

\* Requests that arrive are no step of the contract, or cross others.
LEMMA ArriveContract ==
  ASSUME TInv, NEW h \in Handlers, Arrive(h)
  PROVE  Accountable!Next \/ UNCHANGED Accountable!vars
<1>1. UNCHANGED <<user, session, tokens, proof, ended>>
  BY ArriveTables DEF tables
<1>2. ASSUME NEW stage, NEW j, Start(h, stage, j)
      PROVE  mixed' = mixed \/ \E u : mixed' = mixed \cup {u}
  BY <1>2 DEF Start
<1>3. mixed' = mixed \/ \E u : mixed' = mixed \cup {u}
  BY <1>2 DEF Arrive, Register, ConfirmEmail, ConfirmNewEmail, Confirming, Login, Refresh, UpdateMe
<1>4. mixed' \subseteq Users
  BY ArriveType DEF TInv, TypeOK
<1>5. CASE mixed' = mixed
  BY <1>1, <1>5, Unseen DEF Accountable!vars
<1>6. ASSUME NEW u, mixed' = mixed \cup {u} PROVE Accountable!Next
  <2>1. u \in Users
    BY <1>4, <1>6
  <2>2. Accountable!Cross(u)
    BY <1>1, <1>6, Unseen DEF Accountable!Cross
  <2> QED
    BY <2>1, <2>2 DEF Accountable!Next
<1> QED
  BY <1>3, <1>5, <1>6

LEMMA InsertContract ==
  ASSUME TInv, NEW h \in Handlers, NEW u \in Users, Insert(h, u)
  PROVE  Accountable!Next \/ UNCHANGED Accountable!vars
<1>1. UNCHANGED <<session, tokens, proof, ended, mixed>> /\ user[u] = None /\ pc[h] = "insert"
  BY DEF Insert
<1>2. CASE UNCHANGED user
  BY <1>1, <1>2, Unseen DEF Accountable!vars
<1>3. CASE user' # user
  <2> DEFINE row == [email |-> job[h].email, password |-> Hash(job[h].plain),
                     active |-> FALSE, deleted |-> FALSE]
  <2>1. user' = [user EXCEPT ![u] = row]
    BY <1>3 DEF Insert
  <2>2. Fits("insert", job[h])
    BY <1>1, OwnShape DEF Stages
  <2>3. PICK p \in Stored : p = Hash(job[h].plain)
    BY <2>2, HashType DEF Fits
  <2>4. row \in User /\ row.password = p /\ ~row.deleted
    BY <2>2, <2>3 DEF User, Fits
  <2> HIDE DEF row
  <2>5. Secret' = [Secret EXCEPT ![u] = p] /\ Closed' = Closed \ {u}
    BY <2>1, <2>4, SecretSet
  <2>6. u \notin Closed /\ Secret[u] = None
    BY <1>1 DEF Closed, Secret
  <2>7. Accountable!SignUp(u, p)
    BY <1>1, <2>5, <2>6, Unseen DEF Accountable!SignUp
  <2> QED
    BY <2>7 DEF Accountable!Next
<1> QED
  BY <1>2, <1>3

\* A login compared with the password that the account still has, and the
\* account is still there, unless requests overlapped.
LEMMA OpenContract ==
  ASSUME TInv, Accounts, Proven, NEW h \in Handlers, NEW s \in Sessions, NEW x \in Hashes,
         Open(h, s, x)
  PROVE  Accountable!Next
<1>1. pc[h] = "open" /\ session[s] = None /\ UNCHANGED <<user, tokens, ended, mixed>>
  BY DEF Open
<1>2. Fits("open", job[h]) /\ Busy(h)
  BY <1>1, OwnShape DEF Stages
<1>3. PICK u \in Users : u = job[h].user /\ user[u] \in User /\ h \in On(u)
  BY <1>2 DEF Fits, On
<1>4. PICK p \in Passwords : p = job[h].plain
  BY <1>2 DEF Fits
<1>5. Hash(p) \in Stored
  BY HashType
<1>6. \A r \in Sessions : r # s => session'[r] = session[r]
  BY DEF Open, TInv, TypeOK
<1>7. session'[s] = [user |-> u, hash |-> x, deleted |-> FALSE] /\ session'[s] # None
  <2>1. [user |-> u, hash |-> x, deleted |-> FALSE] \in Session
    BY DEF Session
  <2> QED
    BY <1>3, <2>1, NoneAssumption DEF Open, TInv, TypeOK
<1>8. Owner' = [Owner EXCEPT ![s] = u] /\ Owner[s] = None
  <2>1. \A r \in Sessions : Owner'[r] = IF r = s THEN u ELSE Owner[r]
    BY <1>6, <1>7 DEF Owner
  <2> QED
    BY <1>1, <2>1 DEF Owner
<1>9. Shown' = [Shown EXCEPT ![s] = Hash(p)]
  <2>1. proof' = [proof EXCEPT ![s] = p]
    BY <1>4 DEF Open
  <2> QED
    BY <2>1, ShownSet
<1>10. u \in mixed \/ (Secret[u] = Hash(p) /\ u \notin Closed)
  <2> SUFFICES ASSUME u \notin mixed PROVE Secret[u] = Hash(p) /\ u \notin Closed
    OBVIOUS
  <2>1. user[u].password = Hash(last[u]) /\ ~user[u].deleted /\ user[u] # None
    BY <1>3, NoneAssumption DEF Accounts, Account
  <2>2. p = last[u]
    BY <1>1, <1>3, <1>4 DEF Proven, ProvenOf, Showed
  <2> QED
    BY <2>1, <2>2 DEF Secret, Closed
<1>11. Accountable!SignIn(u, s, Hash(p))
  BY <1>1, <1>8, <1>9, <1>10, Unseen DEF Accountable!SignIn
<1> QED
  BY <1>5, <1>11 DEF Accountable!Next

LEMMA AnswerContract ==
  ASSUME TInv, Accounts, NEW h \in Handlers, Answer(h)
  PROVE  Accountable!Next
<1>1. pc[h] = "answer" /\ UNCHANGED <<user, session, proof, ended, mixed>>
  BY DEF Answer, tables, history
<1>2. Fits("answer", job[h]) /\ Busy(h)
  BY <1>1, OwnShape DEF Stages
<1>3. PICK u \in Users : u = job[h].user /\ h \in On(u)
  BY <1>2 DEF Fits, On
<1>4. PICK t \in Token : t = [id |-> job[h].id, hash |-> job[h].hash]
  BY <1>2 DEF Fits, Token
<1>5. t.id \in Sessions /\ Owner[t.id] = u
  BY <1>2, <1>3, <1>4, NoneAssumption DEF Owner, Fits
<1>6. u \in mixed \/ u \notin Closed
  BY <1>3 DEF Accounts, Account, Closed
<1>7. tokens' = tokens \cup {t}
  BY <1>4 DEF Answer
<1>8. Accountable!Issue(u, t)
  BY <1>1, <1>5, <1>6, <1>7, Unseen DEF Accountable!Issue
<1> QED
  BY <1>8 DEF Accountable!Next

\* Sessions of one user end.
LEMMA EndContract ==
  ASSUME TInv, NEW u \in Users, NEW S \in SUBSET Sessions,
         \A s \in S : session[s] \in Session /\ session[s].user = u,
         End(S), EndedNow(S), UNCHANGED <<user, tokens, proof, mixed>>
  PROVE  Accountable!Next
<1> DEFINE R == {s \in S : ~Refreshing(s)}
<1>1. ended' = ended \cup R /\ R \subseteq S
  BY DEF EndedNow
<1>2. \A s \in S : session[s] # None
  BY NoneAssumption
<1> HIDE DEF R
<1>3. R \subseteq Accountable!SessionsOf(u)
  BY <1>1, <1>2, OwnersOf DEF Accountable!SessionsOf
<1>4. Owner' = Owner
  <2>1. \A s \in Sessions : session[s] \in Session
          => session'[s] \in Session /\ session'[s].user = session[s].user
    BY EndKeeps DEF Keeps
  <2>2. \A s \in Sessions : session[s] = None => session'[s] = None
    BY EndKeeps
  <2> QED
    BY <2>1, <2>2, OwnerSame, NoneAssumption DEF TInv, TypeOK
<1>5. Accountable!SignOut(u, R)
  BY <1>1, <1>3, <1>4, Unseen DEF Accountable!SignOut
<1>6. R \in SUBSET Sessions
  BY <1>1
<1> QED
  BY <1>5, <1>6 DEF Accountable!Next

\* Steps between queries, and the save of a refresh, are none of the contract.
LEMMA QuietContract ==
  ASSUME TInv, NEW h \in Handlers,
         \/ FindOwner(h) \/ LoadSession(h) \/ SendMail(h) \/ Rehash(h) \/ CheckTaken(h) \/ Fetch(h)
         \/ Abort(h) \/ \E x \in Hashes : SaveSession(h, x)
  PROVE  UNCHANGED Accountable!vars
<1>1. UNCHANGED <<user, tokens, proof, ended, mixed>>
  BY DEF FindOwner, LoadSession, SendMail, Rehash, CheckTaken, Fetch, Abort, SaveSession, tables,
     history
<1>2. CASE UNCHANGED session
  BY <1>1, <1>2, Unseen DEF Accountable!vars
<1>3. ASSUME NEW x \in Hashes, SaveSession(h, x) PROVE Owner' = Owner
  <2>1. pc[h] = "save" /\ Step(h)
    BY <1>3 DEF SaveSession, Step
  <2>2. Fits("save", job[h])
    BY <2>1, OwnShape DEF Stages
  <2>3. \A s \in Sessions : s # job[h].id => session'[s] = session[s]
    BY <1>3 DEF SaveSession, TInv, TypeOK
  <2>4. \A s \in Sessions : session[s] \in Session
          => session'[s] \in Session /\ session'[s].user = session[s].user
    BY <2>1, StepSessions
  <2> QED
    BY <2>2, <2>3, <2>4, OwnerSame, NoneAssumption DEF Fits, TInv, TypeOK
<1> QED
  BY <1>1, <1>2, <1>3, Unseen DEF FindOwner, LoadSession, SendMail, Rehash, CheckTaken, Fetch, Abort,
     tables, Accountable!vars

\* A password is written when the other sessions have ended; a write without
\* one changes nothing that the contract tells apart.
LEMMA WriteContract ==
  ASSUME TInv, Accounts, Callers, Proven, NEW h \in Handlers, Write(h)
  PROVE  Accountable!Next \/ UNCHANGED Accountable!vars
<1>1. pc[h] = "write" /\ UNCHANGED <<session, tokens, ended, mixed>>
  BY DEF Write
<1>2. Fits("write", job[h]) /\ Busy(h)
  BY <1>1, OwnShape DEF Stages
<1>3. PICK u \in Users : u = job[h].user /\ user[u] \in User
  BY <1>2 DEF Fits
<1> DEFINE row == Updated(user[u], job[h])
<1>4. row \in User /\ ~row.deleted
  BY <1>2, <1>3, UpdatedType DEF Fits, Updated
<1>5. \/ UNCHANGED <<user, proof>>
      \/ /\ user' = [user EXCEPT ![u] = row]
         /\ \/ job[h].plain = None /\ UNCHANGED proof
            \/ /\ job[h].plain # None
               /\ proof' = [proof EXCEPT ![job[h].id] = job[h].plain]
  BY <1>3 DEF Write, TInv, TypeOK
<1>6. job[h].password = None => row.password = user[u].password
  BY DEF Updated
<1>7. job[h].password # None => row.password = job[h].password
  BY DEF Updated
<1>8. u \notin mixed => /\ On(u) = {h} /\ ~user[u].deleted
                        /\ job[h].password = IF job[h].plain = None THEN None ELSE Hash(job[h].plain)
  BY <1>1, <1>3, Alone DEF Account, Ready
<1> HIDE DEF row
<1>9. CASE UNCHANGED <<user, proof>>
  BY <1>1, <1>9, Unseen DEF Accountable!vars
<1>10. CASE user' = [user EXCEPT ![u] = row]
  <2>1. Secret' = [Secret EXCEPT ![u] = row.password] /\ Closed' = Closed \ {u}
    BY <1>4, <1>10, SecretSet
  <2>2. row.password \in Stored
    BY <1>4 DEF User
  <2>3. CASE job[h].plain = None /\ UNCHANGED proof
    <3>1. CASE u \in mixed
      <4>1. Accountable!Upset(u)
        BY <1>1, <2>1, <2>2, <2>3, <3>1, Unseen DEF Accountable!Upset
      <4> QED
        BY <4>1 DEF Accountable!Next
    <3>2. CASE u \notin mixed
      <4>1. row.password = user[u].password /\ u \notin Closed
        BY <1>6, <1>8, <2>3, <3>2 DEF Closed
      <4>2. Secret[u] = user[u].password
        BY <1>3, NoneAssumption DEF Secret
      <4>3. Secret' = Secret /\ Closed' = Closed
        BY <2>1, <4>1, <4>2 DEF Secret
      <4> QED
        BY <1>1, <2>3, <4>3, Unseen DEF Accountable!vars
    <3> QED
      BY <3>1, <3>2
  <2>4. CASE job[h].plain # None /\ proof' = [proof EXCEPT ![job[h].id] = job[h].plain]
    <3>1. job[h].kind = "update" /\ job[h].plain \in Passwords
      BY <1>2, <2>4 DEF Fits, Job, Callers, CallerOf
    <3>2. PICK s \in Sessions, p \in Passwords :
            /\ s = job[h].id /\ p = job[h].plain
            /\ session[s] \in Session /\ session[s].user = u
      BY <1>2, <1>3, <3>1 DEF Callers, CallerOf
    <3>3. Shown' = [Shown EXCEPT ![s] = Hash(p)] /\ Hash(p) \in Stored
      BY <2>4, <3>2, ShownSet, HashType
    <3>4. Owner[s] = u
      BY <3>2, OwnersOf, NoneAssumption
    <3>5. CASE u \in mixed
      <4>1. s \in Accountable!SessionsOf(u)
        BY <3>4 DEF Accountable!SessionsOf
      <4>2. Accountable!Upset(u)
        BY <1>1, <2>1, <2>2, <3>3, <3>5, <4>1, Unseen DEF Accountable!Upset
      <4> QED
        BY <4>2 DEF Accountable!Next
    <3>6. CASE u \notin mixed
      <4>1. row.password = Hash(p) /\ u \notin Closed
        <5>1. Hash(p) # None
          BY <3>3, NoneAssumption
        <5> QED
          BY <1>7, <1>8, <2>4, <3>2, <3>6, <5>1 DEF Closed
      <4>2. OthersOf(u, s) \subseteq ended
        BY <1>1, <1>3, <1>8, <2>4, <3>1, <3>2, <3>6 DEF Proven, ProvenOf, Showed
      <4>3. Accountable!SessionsOf(u) \ {s} \subseteq ended
        BY <4>2, OwnersOf DEF Accountable!SessionsOf, OthersOf
      <4>4. Accountable!Renew(u, s, Hash(p))
        BY <1>1, <2>1, <3>3, <3>4, <4>1, <4>3, Unseen DEF Accountable!Renew
      <4> QED
        BY <3>3, <4>4 DEF Accountable!Next
    <3> QED
      BY <3>5, <3>6
  <2> QED
    BY <1>5, <1>9, <2>3, <2>4
<1> QED
  BY <1>5, <1>9, <1>10

LEMMA DeleteContract ==
  ASSUME TInv, NEW t \in Token, Delete(t)
  PROVE  Accountable!Next
<1>1. t.id \in Sessions /\ session[t.id] \in Session
  BY DEF Delete, TInv, References, Token
<1>2. PICK u \in Users : u = session[t.id].user /\ user[u] \in User
  BY <1>1, NoneAssumption DEF TInv, References, Session
<1> DEFINE row == [user[u] EXCEPT !.deleted = TRUE]
<1>3. row \in User /\ row.deleted /\ row.password = user[u].password
  BY <1>2 DEF User
<1>4. user' = [user EXCEPT ![u] = row]
  BY <1>2 DEF Delete, TInv, TypeOK
<1> HIDE DEF row
<1>5. Secret[u] = user[u].password /\ Secret[u] # None
  BY <1>2, NoneAssumption DEF Secret, User
<1>6. Secret' = Secret /\ Closed' = Closed \cup {u}
  <2>1. Secret' = [Secret EXCEPT ![u] = row.password] /\ Closed' = Closed \cup {u}
    BY <1>3, <1>4, SecretSet
  <2> QED
    BY <1>3, <1>5, <2>1 DEF Secret
<1>7. UNCHANGED <<session, tokens, proof, ended>> /\ mixed' \in {mixed, mixed \cup {u}}
  BY <1>2 DEF Delete
<1>8. Accountable!Close(u)
  BY <1>5, <1>6, <1>7, Unseen DEF Accountable!Close
<1> QED
  BY <1>8 DEF Accountable!Next

LEMMA ContractStep ==
  TInv /\ Accounts /\ Callers /\ Proven /\ [Next]_vars
    => [Accountable!Next]_Accountable!vars
<1> SUFFICES ASSUME TInv, Accounts, Callers, Proven, [Next]_vars
             PROVE  Accountable!Next \/ UNCHANGED Accountable!vars
  OBVIOUS
<1>1. CASE UNCHANGED vars
  BY <1>1, Unseen DEF vars, tables, history, Accountable!vars
<1>2. ASSUME NEW h \in Handlers, Revoke(h) PROVE Accountable!Next
  <2>1. pc[h] = "revoke"
    BY <1>2 DEF Revoke
  <2>2. PICK u \in Users : u = job[h].user
    BY <2>1, OwnShape DEF Fits, Stages
  <2>3. PICK S \in SUBSET Sessions : S = OthersOf(u, job[h].id)
    BY DEF OthersOf
  <2>4. \A s \in S : session[s] \in Session /\ session[s].user = u
    BY <2>3 DEF OthersOf, TInv, TypeOK
  <2>5. End(S) /\ EndedNow(S) /\ UNCHANGED <<user, tokens, proof, mixed>>
    BY <1>2, <2>2, <2>3 DEF Revoke
  <2> QED
    BY <2>4, <2>5, EndContract
<1>3. ASSUME NEW t \in Token, Logout(t) PROVE Accountable!Next
  <2>1. t.id \in Sessions /\ session[t.id] \in Session
    BY <1>3 DEF Logout, TInv, References, Token
  <2>2. PICK u \in Users : u = session[t.id].user
    BY <2>1 DEF Session
  <2> QED
    BY <1>3, <2>1, <2>2, EndContract DEF Logout
<1>4. ASSUME NEW h \in Handlers, Step(h) \/ Abort(h)
      PROVE  Accountable!Next \/ UNCHANGED Accountable!vars
  BY <1>2, <1>4, InsertContract, OpenContract, AnswerContract, QuietContract, WriteContract DEF Step
<1> QED
  BY <1>1, <1>3, <1>4, ArriveContract, DeleteContract DEF Next

\* The handlers of authentication, each of several queries that interleave
\* with any others and may break off, keep the contract that an account and
\* its sessions promise as if every operation were one step.
THEOREM ContractKept == Spec => AccountContract
<1> QED
  BY TypeInit, TypeStep, AccountsInit, AccountsStep, EndedInit, EndedStep, ProvenInit, ProvenStep,
     ContractInit, ContractStep, PTL DEF Spec, AccountContract, Accountable!Spec

-----------------------------------------------------------------------------
(* What follows from the contract *)

\* A session has an owner who has an account.
Owned == \A u \in Users \ mixed : \A s \in Accountable!SessionsOf(u) : Secret[u] # None

VInv == Owned /\ Accountable!Vouched

LEMMA MapTypes ==
  TypeOK => /\ Secret \in [Users -> Stored \cup {None}]
            /\ Owner \in [Sessions -> Users \cup {None}]
            /\ Shown \in [Sessions -> Stored \cup {None}]
<1> SUFFICES ASSUME TypeOK
             PROVE  /\ Secret \in [Users -> Stored \cup {None}]
                    /\ Owner \in [Sessions -> Users \cup {None}]
                    /\ Shown \in [Sessions -> Stored \cup {None}]
  OBVIOUS
<1>1. Secret \in [Users -> Stored \cup {None}]
  BY DEF TypeOK, User, Secret
<1>2. Owner \in [Sessions -> Users \cup {None}]
  BY DEF TypeOK, Session, Owner
<1>3. Shown \in [Sessions -> Stored \cup {None}]
  BY HashType DEF TypeOK, Shown
<1> QED
  BY <1>1, <1>2, <1>3

LEMMA VouchedStep == TypeOK /\ VInv /\ [Accountable!Next]_Accountable!vars => VInv'
<1> SUFFICES ASSUME TypeOK, VInv, [Accountable!Next]_Accountable!vars,
                    NEW u \in Users, u \notin mixed', NEW s \in Sessions, Owner'[s] = u
             PROVE  Secret'[u] # None /\ (s \notin ended' => Shown'[s] = Secret'[u])
  BY DEF VInv, Owned, Accountable!Vouched, Accountable!SessionsOf
<1> DEFINE Goal == Secret'[u] # None /\ (s \notin ended' => Shown'[s] = Secret'[u])
<1>1. /\ Secret \in [Users -> Stored \cup {None}]
      /\ Owner \in [Sessions -> Users \cup {None}]
      /\ Shown \in [Sessions -> Stored \cup {None}]
  BY MapTypes
<1>2. Owner[s] = u /\ u \notin mixed
        => Secret[u] # None /\ (s \notin ended => Shown[s] = Secret[u])
  BY DEF VInv, Owned, Accountable!Vouched, Accountable!SessionsOf
<1>3. ASSUME NEW v \in Users, NEW p \in Stored, Accountable!SignUp(v, p) PROVE Goal
  BY <1>1, <1>2, <1>3 DEF Accountable!SignUp
<1>4. ASSUME NEW v \in Users, NEW p \in Stored, NEW r \in Sessions, Accountable!SignIn(v, r, p)
      PROVE  Goal
  <2>1. Secret' = Secret /\ ended' = ended /\ mixed' = mixed
    BY <1>4 DEF Accountable!SignIn
  <2>2. CASE r = s
    <3>1. v = u /\ Shown'[s] = p
      BY <1>1, <1>4, <2>2 DEF Accountable!SignIn
    <3> QED
      BY <1>4, <2>1, <3>1, NoneAssumption DEF Accountable!SignIn
  <2>3. CASE r # s
    <3>1. Owner[s] = u /\ Shown'[s] = Shown[s]
      BY <1>1, <1>4, <2>3 DEF Accountable!SignIn
    <3> QED
      BY <1>2, <2>1, <3>1
  <2> QED
    BY <2>2, <2>3
<1>5. ASSUME NEW v \in Users, NEW p \in Stored, NEW r \in Sessions, Accountable!Renew(v, r, p)
      PROVE  Goal
  <2>1. Owner[s] = u /\ u \notin mixed /\ ended' = ended /\ Owner[r] = v
    BY <1>5 DEF Accountable!Renew
  <2>2. CASE u = v
    <3>1. Secret'[u] = p
      BY <1>1, <1>5, <2>2 DEF Accountable!Renew
    <3>2. s = r \/ s \in ended
      BY <1>5, <2>1, <2>2 DEF Accountable!Renew, Accountable!SessionsOf
    <3>3. s = r => Shown'[s] = p
      BY <1>1, <1>5 DEF Accountable!Renew
    <3> QED
      BY <2>1, <3>1, <3>2, <3>3, NoneAssumption
  <2>3. CASE u # v
    <3>1. Secret'[u] = Secret[u] /\ Shown'[s] = Shown[s]
      BY <1>1, <1>5, <2>1, <2>3 DEF Accountable!Renew
    <3> QED
      BY <1>2, <2>1, <3>1
  <2> QED
    BY <2>2, <2>3
<1>6. ASSUME NEW v \in Users, Accountable!Upset(v) PROVE Goal
  <2>1. Owner[s] = u /\ u \notin mixed /\ ended' = ended /\ v \in mixed
    BY <1>6 DEF Accountable!Upset
  <2>2. Secret'[u] = Secret[u]
    BY <1>1, <1>6, <2>1 DEF Accountable!Upset
  <2>3. Shown'[s] = Shown[s]
    BY <1>1, <1>6, <2>1 DEF Accountable!Upset, Accountable!SessionsOf
  <2> QED
    BY <1>2, <2>1, <2>2, <2>3
<1>7. ASSUME NEW v \in Users,
             \/ \E t \in Token : Accountable!Issue(v, t)
             \/ \E S \in SUBSET Sessions : Accountable!SignOut(v, S)
             \/ Accountable!Close(v) \/ Accountable!Cross(v)
      PROVE  Goal
  <2>1. /\ Secret' = Secret /\ Owner' = Owner /\ Shown' = Shown
        /\ ended \subseteq ended' /\ mixed \subseteq mixed'
    BY <1>7 DEF Accountable!Issue, Accountable!SignOut, Accountable!Close, Accountable!Cross
  <2> QED
    BY <1>2, <2>1
<1>8. CASE UNCHANGED Accountable!vars
  BY <1>2, <1>8 DEF Accountable!vars
<1> QED
  BY <1>3, <1>4, <1>5, <1>6, <1>7, <1>8 DEF Accountable!Next

\* At every moment, and while requests are handled, whoever has a session that
\* has not ended has shown the password the account has now, unless requests
\* of the user overlapped a change of the account.
THEOREM SessionsVouched == Spec => []Accountable!Vouched
<1>1. Accountable!Init => VInv
  BY ConstantsAssumption
     DEF Accountable!Init, VInv, Owned, Accountable!Vouched, Accountable!SessionsOf
<1>2. VInv => Accountable!Vouched
  BY DEF VInv
<1>3. Accountable!Spec => Accountable!Init /\ [][Accountable!Next]_Accountable!vars
  BY DEF Accountable!Spec
<1>4. Spec => Accountable!Spec
  BY ContractKept DEF AccountContract
<1> QED
  BY <1>1, <1>2, <1>3, <1>4, TypeCorrect, VouchedStep, PTL

=============================================================================
