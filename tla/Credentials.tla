---------------------------- MODULE Credentials ----------------------------
(***************************************************************************)
(* What authentication promises of accounts and their sessions, a step at  *)
(* a time: a password opens sessions only while it is the account's, a new *)
(* one is set only once all sessions but one have ended, what has ended    *)
(* stays ended, and a closed account stays closed and gets no token.  Of   *)
(* an account on which requests overlapped it promises the third only.     *)
(***************************************************************************)

CONSTANTS
  Users,
  Passwords,  \* in the form they are stored in
  Sessions,
  Tokens,     \* refresh tokens, each with the id of its session
  None

VARIABLES
  secret,  \* the password of each account, None before there is one
  closed,  \* users whose account was deleted
  owner,   \* the user of each session, None before it is opened
  shown,   \* the password last shown in each session
  ended,   \* sessions that are over
  tokens,  \* the tokens issued
  crossed  \* users on whose account requests overlapped

vars == <<secret, closed, owner, shown, ended, tokens, crossed>>

Init ==
  /\ secret = [u \in Users |-> None]
  /\ owner = [s \in Sessions |-> None]
  /\ shown = [s \in Sessions |-> None]
  /\ closed = {} /\ ended = {} /\ tokens = {} /\ crossed = {}

SessionsOf(u) == {s \in Sessions : owner[s] = u}

SignUp(u, p) ==
  /\ secret[u] = None
  /\ secret' = [secret EXCEPT ![u] = p]
  /\ UNCHANGED <<closed, owner, shown, ended, tokens, crossed>>

SignIn(u, s, p) ==
  /\ owner[s] = None
  /\ u \in crossed \/ (secret[u] = p /\ u \notin closed)
  /\ owner' = [owner EXCEPT ![s] = u]
  /\ shown' = [shown EXCEPT ![s] = p]
  /\ UNCHANGED <<secret, closed, ended, tokens, crossed>>

Issue(u, t) ==
  /\ owner[t.id] = u
  /\ u \in crossed \/ u \notin closed
  /\ tokens' = tokens \cup {t}
  /\ UNCHANGED <<secret, closed, owner, shown, ended, crossed>>

SignOut(u, S) ==
  /\ S \subseteq SessionsOf(u)
  /\ ended' = ended \cup S
  /\ UNCHANGED <<secret, closed, owner, shown, tokens, crossed>>

\* The session in which the password changes is the one that may go on.
Renew(u, s, p) ==
  /\ u \notin closed /\ owner[s] = u /\ SessionsOf(u) \ {s} \subseteq ended
  /\ secret' = [secret EXCEPT ![u] = p]
  /\ shown' = [shown EXCEPT ![s] = p]
  /\ UNCHANGED <<closed, owner, ended, tokens, crossed>>

Close(u) ==
  /\ secret[u] # None
  /\ closed' = closed \cup {u}
  /\ crossed' \in {crossed, crossed \cup {u}}
  /\ UNCHANGED <<secret, owner, shown, ended, tokens>>

\* Requests of u overlap; from then on its account may change in any way.
Cross(u) ==
  /\ crossed' = crossed \cup {u}
  /\ UNCHANGED <<secret, closed, owner, shown, ended, tokens>>

Upset(u) ==
  /\ u \in crossed
  /\ \E p \in Passwords : secret' = [secret EXCEPT ![u] = p]
  /\ closed' \in {closed, closed \ {u}}
  /\ \/ UNCHANGED shown
     \/ \E s \in SessionsOf(u), p \in Passwords : shown' = [shown EXCEPT ![s] = p]
  /\ UNCHANGED <<owner, ended, tokens, crossed>>

Next ==
  \E u \in Users :
    \/ \E p \in Passwords :
         SignUp(u, p) \/ \E s \in Sessions : SignIn(u, s, p) \/ Renew(u, s, p)
    \/ \E t \in Tokens : Issue(u, t)
    \/ \E S \in SUBSET Sessions : SignOut(u, S)
    \/ Close(u) \/ Cross(u) \/ Upset(u)

Spec == Init /\ [][Next]_vars

-----------------------------------------------------------------------------
\* Whoever has a session that is not over has shown the password that the
\* account has now, at every moment, while requests are handled included.
Vouched ==
  \A u \in Users \ crossed : \A s \in SessionsOf(u) \ ended : shown[s] = secret[u]

=============================================================================
