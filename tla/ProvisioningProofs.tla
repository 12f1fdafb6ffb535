-------------------------- MODULE ProvisioningProofs --------------------------
(***************************************************************************)
(* Proofs about Provisioning.  The inductive invariant follows the seed    *)
(* from step to step: what the tables hold at each stage, and that the     *)
(* flag is not there while it runs.                                        *)
(***************************************************************************)
EXTENDS Provisioning, FiniteSetTheorems, TLAPS

\* The stages of the seed, and those after parts of it.
Seeding == {"roles", "statuses", "endSessions", "dropDevices", "dropUsers", "admin",
            "user", "dropTemplates", "template", "clearDevices", "mqttAdmin", "devices",
            "touch"}
SignedOut == Seeding \ {"roles", "statuses", "endSessions"}
Staffed == {"dropTemplates", "template", "clearDevices", "mqttAdmin", "devices", "touch"}
Templated == {"clearDevices", "mqttAdmin", "devices", "touch"}

\* The accounts of the seed, once both are in.
TheTwo ==
  \E a, b \in Ids : /\ a # b /\ Accounts = {a, b}
                    /\ users[a].role = "admin" /\ users[b].role = "user"

\* What the seed has done so far.
Progress ==
  /\ stage \in Seeding => ~flag /\ migrated
  /\ stage \in Seeding \ {"roles"} => roles = Roles
  /\ stage \in SignedOut => sessions = {}
  /\ stage = "admin" => Accounts = {}
  /\ stage = "user" => /\ Active \in statuses
                       /\ \E a \in Ids : Accounts = {a} /\ users[a].role = "admin"
  /\ stage \in Staffed => Active \in statuses /\ TheTwo
  /\ stage \in Templated => template \in Accounts
  /\ stage = "mqttAdmin" => devices = {}
  /\ stage = "devices" => devices = {Nobody}
  /\ stage = "touch" => /\ Nobody \in devices /\ devices # {Nobody}
                        /\ devices \subseteq Accounts \cup {Nobody}

\* What holds of the tables once the flag is there.
Flagged ==
  /\ stage = "serve" => flag
  /\ entered # {} => flag
  /\ flag => /\ sessions \subseteq Accounts /\ template \in Accounts
             /\ devices \ {Nobody} \subseteq Accounts

\* The id sequence is ahead of every account.
Ahead == \A u \in Ids : u >= nextId => users[u] = None

IInv == TypeOK /\ Progress /\ Flagged /\ Ahead /\ EnteredIsKept

-----------------------------------------------------------------------------
LEMMA StageSet == Stages = {"down", "serve", "migrate"} \cup Seeding
<1>1. /\ DOMAIN Boot = 1..14
      /\ Boot[1] = "migrate" /\ Boot[2] = "roles" /\ Boot[3] = "statuses"
      /\ Boot[4] = "endSessions" /\ Boot[5] = "dropDevices" /\ Boot[6] = "dropUsers"
      /\ Boot[7] = "admin" /\ Boot[8] = "user" /\ Boot[9] = "dropTemplates"
      /\ Boot[10] = "template" /\ Boot[11] = "clearDevices" /\ Boot[12] = "mqttAdmin"
      /\ Boot[13] = "devices" /\ Boot[14] = "touch"
  BY DEF Boot
<1>2. 1..14 = {1, 2, 3, 4, 5, 6, 7, 8, 9, 10, 11, 12, 13, 14}
  OBVIOUS
<1>3. {Boot[i] : i \in DOMAIN Boot} = {"migrate"} \cup Seeding
  BY <1>1, <1>2 DEF Seeding
<1> QED
  BY <1>3 DEF Stages

LEMMA IdFacts == Nobody \notin Ids /\ Owners = Ids \cup {Nobody} /\ Ids \subseteq Nat
BY ConstantsAssumption DEF Ids, Owners, Nobody

\* An account is no None.
LEMMA UserFacts ==
  /\ None \notin User
  /\ \A role \in Roles, status \in Statuses : [role |-> role, status |-> status] \in User
  /\ Active \in Statuses /\ Inactive \in Statuses
  /\ "admin" \in Roles /\ "user" \in Roles
BY ConstantsAssumption DEF User, Roles, Statuses, Active, Inactive

LEMMA InsertEffect ==
  ASSUME TypeOK, Ahead, NEW role \in Roles, NEW status \in Statuses, Insert(role, status)
  PROVE  /\ nextId \in Ids /\ nextId \notin Accounts /\ nextId' \in 1..(LastId + 1)
         /\ users' \in [Ids -> User \cup {None}]
         /\ Accounts' = Accounts \cup {nextId} /\ Ahead'
         /\ users'[nextId] = [role |-> role, status |-> status]
         /\ \A u \in Accounts : users'[u] = users[u]
         /\ status \in statuses
<1>1. /\ nextId \in Ids /\ users \in [Ids -> User \cup {None}]
      /\ users' = [users EXCEPT ![nextId] = [role |-> role, status |-> status]]
      /\ nextId' = nextId + 1 /\ nextId \in Nat /\ status \in statuses
  BY IdFacts DEF TypeOK, Insert, Referable
<1>2. nextId \notin Accounts
  BY <1>1 DEF Ahead, Accounts
<1>3. nextId' \in 1..(LastId + 1)
  BY <1>1, ConstantsAssumption DEF Ids
<1>4. users' \in [Ids -> User \cup {None}] /\ users'[nextId] = [role |-> role, status |-> status]
  BY <1>1, UserFacts
<1>5. \A u \in Ids \ {nextId} : users'[u] = users[u]
  BY <1>1
<1>6. Accounts' = Accounts \cup {nextId}
  BY <1>1, <1>4, <1>5, UserFacts DEF Accounts
<1>7. Ahead'
  BY <1>1, <1>5, ConstantsAssumption DEF Ahead, Ids
<1> QED
  BY <1>1, <1>2, <1>3, <1>4, <1>5, <1>6, <1>7 DEF Accounts

LEMMA SeedAccountTypes ==
  ASSUME TypeOK, Ahead, NEW role \in Roles, NEW next \in Stages, SeedAccount(role, next)
  PROVE  TypeOK' /\ Ahead'
<1>1. users' \in [Ids -> User \cup {None}] /\ nextId' \in 1..(LastId + 1) /\ Ahead'
  <2>1. CASE Insert(role, Active)
    BY <2>1, InsertEffect, UserFacts
  <2>2. CASE UNCHANGED <<users, nextId>>
    BY <2>2 DEF TypeOK, Ahead
  <2> QED
    BY <2>1, <2>2 DEF SeedAccount
<1> QED
  BY <1>1 DEF SeedAccount, TypeOK

LEMMA TypeNext == TypeOK /\ Ahead /\ [Next]_vars => TypeOK' /\ Ahead'
<1> SUFFICES ASSUME TypeOK, Ahead, [Next]_vars PROVE TypeOK' /\ Ahead'
  OBVIOUS
<1> USE IdFacts, UserFacts, StageSet
<1>1. CASE Start \/ Migrate \/ SeedRole \/ RolesSeeded \/ EndSessions \/ DropDevices
  BY <1>1 DEF Start, Migrate, SeedRole, RolesSeeded, EndSessions, DropDevices, TypeOK, Ahead,
     Seeding
<1>2. CASE SeedStatuses
  BY <1>2, ConstantsAssumption DEF SeedStatuses, TypeOK, Ahead, Seeding, Active, Inactive, Statuses
<1>3. CASE DropUsers
  BY <1>3 DEF DropUsers, Cascade, TypeOK, Ahead, Seeding
<1>4. CASE SeedAdmin
  BY <1>4, SeedAccountTypes DEF SeedAdmin, Seeding
<1>5. CASE SeedUser
  BY <1>5, SeedAccountTypes DEF SeedUser, Seeding
<1>6. CASE DropTemplates \/ SeedTemplate \/ ClearDevices \/ SeedMqttAdmin \/ SeedDevices \/ Touch
  BY <1>6 DEF DropTemplates, SeedTemplate, ClearDevices, SeedMqttAdmin, SeedDevices, Touch,
     TypeOK, Ahead, Seeding, Accounts
<1>7. CASE Refused \/ Fail \/ Recreate
  <2>1. failures' \in 0..MaxFailures
    BY <1>7, ConstantsAssumption DEF Refused, Fail, Recreate, TypeOK
  <2> QED
    BY <1>7, <2>1 DEF Refused, Fail, Recreate, TypeOK, Ahead
<1>8. CASE Register
  <2>1. Insert("user", Inactive)
    BY <1>8 DEF Register
  <2>2. /\ users' \in [Ids -> User \cup {None}] /\ nextId' \in 1..(LastId + 1) /\ Ahead'
        /\ nextId \in Ids
    BY <2>1, InsertEffect
  <2> QED
    BY <1>8, <2>2 DEF Register, TypeOK
<1>9. CASE \E u \in Ids : SignIn(u) \/ AddDevice(u)
  BY <1>9 DEF SignIn, AddDevice, TypeOK, Ahead
<1>10. CASE \E u \in Ids, role \in Roles, s \in Statuses : PatchUser(u, role, s)
  <2>1. PICK u \in Ids, role \in Roles, s \in Statuses : PatchUser(u, role, s)
    BY <1>10
  <2>2. users' = [users EXCEPT ![u] = [role |-> role, status |-> s]] /\ u \in Accounts
    BY <2>1 DEF PatchUser
  <2>3. users' \in [Ids -> User \cup {None}]
    BY <2>2 DEF TypeOK
  <2>4. \A v \in Ids : users[v] = None => users'[v] = None
    BY <2>2 DEF Accounts, TypeOK
  <2> QED
    BY <2>1, <2>3, <2>4 DEF PatchUser, TypeOK, Ahead
<1>11. CASE AddStatus \/ \E s \in Statuses : DeleteStatus(s)
  BY <1>11 DEF AddStatus, DeleteStatus, TypeOK, Ahead
<1>12. CASE UNCHANGED vars
  BY <1>12 DEF vars, TypeOK, Ahead
<1> QED
  BY <1>1, <1>2, <1>3, <1>4, <1>5, <1>6, <1>7, <1>8, <1>9, <1>10, <1>11, <1>12
     DEF Next, Startup, Requests

LEMMA InitTypes == Init => TypeOK /\ Ahead
<1> SUFFICES ASSUME Init PROVE TypeOK /\ Ahead
  OBVIOUS
<1>1. nextId \in 1..(LastId + 1) /\ failures \in 0..MaxFailures /\ stage \in Stages
  BY ConstantsAssumption, StageSet DEF Init
<1>2. users \in [Ids -> User \cup {None}] /\ Ahead
  BY DEF Init, Ahead
<1> QED
  BY <1>1, <1>2 DEF Init, TypeOK

\* Every state of an installation is typed, whatever fails and however often.
THEOREM TypeCorrect == Spec => []TypeOK
<1> QED
  BY InitTypes, TypeNext, PTL DEF Spec

-----------------------------------------------------------------------------
LEMMA FlaggedNext ==
  ASSUME IInv, [Next]_vars
  PROVE  Flagged' /\ EnteredIsKept'
<1> USE DEF IInv, Flagged, EnteredIsKept
<1>t. users \in [Ids -> User \cup {None}] /\ sessions \subseteq Ids /\ devices \subseteq Owners
  BY DEF TypeOK
<1>1. CASE stage \in Seeding /\ Startup /\ stage' # "serve"
  <2>1. UNCHANGED <<flag, entered>>
    BY <1>1 DEF Startup, Start, Migrate, SeedRole, RolesSeeded, SeedStatuses, EndSessions,
       DropDevices, DropUsers, SeedAdmin, SeedUser, SeedAccount, DropTemplates, SeedTemplate,
       ClearDevices, SeedMqttAdmin, SeedDevices, Touch
  <2>2. ~flag /\ entered = {}
    BY <1>1 DEF Progress
  <2> QED
    BY <1>1, <2>1, <2>2
<1>2. CASE Touch
  BY <1>2, IdFacts DEF Touch, Progress, Seeding, SignedOut, Templated, Accounts, Nobody
<1>3. CASE Start \/ Migrate \/ Fail \/ Refused
  BY <1>3 DEF Start, Migrate, Fail, Refused, Accounts
<1>4. CASE Recreate
  BY <1>4 DEF Recreate
<1>5. CASE Register
  <2>1. Accounts' = Accounts \cup {nextId}
    BY <1>5, InsertEffect, UserFacts DEF Register
  <2> QED
    BY <1>5, <2>1 DEF Register
<1>6. CASE \E u \in Ids : SignIn(u) \/ AddDevice(u)
  BY <1>6 DEF SignIn, AddDevice, Accounts
<1>7. CASE \E u \in Ids, role \in Roles, s \in Statuses : PatchUser(u, role, s)
  <2>1. PICK u \in Ids, role \in Roles, s \in Statuses : PatchUser(u, role, s)
    BY <1>7
  <2>2. Accounts' = Accounts
    BY <2>1, <1>t, UserFacts DEF PatchUser, Accounts
  <2> QED
    BY <2>1, <2>2 DEF PatchUser
<1>8. CASE AddStatus \/ \E s \in Statuses : DeleteStatus(s)
  BY <1>8 DEF AddStatus, DeleteStatus, Accounts
<1>9. CASE UNCHANGED vars
  BY <1>9 DEF vars, Accounts
<1>10. Startup => \/ stage \in Seeding /\ stage' # "serve"
                  \/ Touch \/ Start \/ Migrate
  BY DEF Startup, Start, Migrate, SeedRole, RolesSeeded, SeedStatuses, EndSessions,
     DropDevices, DropUsers, SeedAdmin, SeedUser, SeedAccount, DropTemplates, SeedTemplate,
     ClearDevices, SeedMqttAdmin, SeedDevices, Touch, Seeding
<1> QED
  BY <1>1, <1>2, <1>3, <1>4, <1>5, <1>6, <1>7, <1>8, <1>9, <1>10 DEF Next, Requests

\* Stages of the seed in which the accounts stay as they are.
LEMMA AccountsStay ==
  ASSUME TypeOK, UNCHANGED users
  PROVE  Accounts' = Accounts /\ (TheTwo <=> TheTwo')
BY DEF Accounts, TheTwo

LEMMA ProgressNext ==
  ASSUME IInv, [Next]_vars
  PROVE  Progress'
<1> USE DEF IInv, Progress, Seeding, SignedOut, Staffed, Templated
<1>t. TypeOK /\ Ahead /\ users \in [Ids -> User \cup {None}]
  BY DEF TypeOK
<1>1. CASE Start \/ Fail \/ Refused \/ Recreate
  BY <1>1 DEF Start, Fail, Refused, Recreate
<1>2. CASE Migrate \/ SeedRole \/ RolesSeeded \/ SeedStatuses \/ EndSessions \/ DropDevices
  BY <1>2 DEF Migrate, SeedRole, RolesSeeded, SeedStatuses, EndSessions, DropDevices
<1>3. CASE DropUsers
  <2>1. Accounts' = {}
    BY <1>3 DEF DropUsers, Accounts
  <2> QED
    BY <1>3, <2>1 DEF DropUsers
<1>4. CASE SeedAdmin
  <2>1. stage = "admin" /\ Accounts = {} /\ SeedAccount("admin", "user")
    BY <1>4 DEF SeedAdmin
  <2>2. Insert("admin", Active)
    BY <2>1 DEF SeedAccount, With
  <2>3. /\ nextId \in Ids /\ Accounts' = {nextId} /\ Active \in statuses
        /\ users'[nextId] = [role |-> "admin", status |-> Active]
    BY <1>t, <2>1, <2>2, InsertEffect, UserFacts
  <2>4. /\ Active \in statuses'
        /\ \E a \in Ids : Accounts' = {a} /\ users'[a].role = "admin"
    BY <2>1, <2>3 DEF SeedAccount
  <2> QED
    BY <2>1, <2>4 DEF SeedAccount
<1>5. CASE SeedUser
  <2>1. /\ stage = "user" /\ Active \in statuses /\ SeedAccount("user", "dropTemplates")
        /\ \E a \in Ids : Accounts = {a} /\ users[a].role = "admin"
    BY <1>5 DEF SeedUser
  <2>2. PICK a \in Ids : Accounts = {a} /\ users[a].role = "admin"
    BY <2>1
  <2>3. With("user") = {}
    BY <2>2 DEF With
  <2>4. Insert("user", Active)
    BY <2>1, <2>3 DEF SeedAccount
  <2>5. /\ nextId \in Ids /\ nextId # a /\ Accounts' = {a, nextId} /\ users'[a] = users[a]
        /\ users'[nextId] = [role |-> "user", status |-> Active]
    BY <1>t, <2>2, <2>4, InsertEffect, UserFacts
  <2>6. TheTwo'
    BY <2>2, <2>5 DEF TheTwo
  <2>7. stage' = "dropTemplates" /\ statuses' = statuses /\ roles' = roles /\ sessions' = sessions
        /\ flag' = flag /\ migrated' = migrated
    BY <2>1 DEF SeedAccount
  <2> QED
    BY <2>1, <2>6, <2>7
<1>6. CASE DropTemplates \/ SeedTemplate \/ ClearDevices \/ SeedMqttAdmin
  <2>1. UNCHANGED users
    BY <1>6 DEF DropTemplates, SeedTemplate, ClearDevices, SeedMqttAdmin
  <2>2. Accounts' = Accounts /\ (TheTwo <=> TheTwo')
    BY <1>t, <2>1, AccountsStay
  <2> QED
    BY <1>6, <2>2 DEF DropTemplates, SeedTemplate, ClearDevices, SeedMqttAdmin
<1>7. CASE SeedDevices
  <2>1. Accounts' = Accounts /\ (TheTwo <=> TheTwo')
    BY <1>7, <1>t, AccountsStay DEF SeedDevices
  <2>2. PICK owners \in SUBSET Accounts : owners # {} /\ devices' = devices \cup owners
    BY <1>7 DEF SeedDevices
  <2>3. Accounts \subseteq Ids
    BY DEF Accounts
  <2>4. Nobody \in devices' /\ devices' # {Nobody} /\ devices' \subseteq Accounts \cup {Nobody}
    BY <1>7, <2>2, <2>3, IdFacts DEF SeedDevices
  <2> QED
    BY <1>7, <2>1, <2>4 DEF SeedDevices
<1>8. CASE Touch \/ Requests
  <2>1. stage' = "serve"
    BY <1>8 DEF Touch, Requests, Register, SignIn, AddDevice, PatchUser, AddStatus, DeleteStatus, AdminIn
  <2> QED
    BY <2>1
<1>9. CASE UNCHANGED vars
  BY <1>9, <1>t, AccountsStay DEF vars
<1> QED
  BY <1>1, <1>2, <1>3, <1>4, <1>5, <1>6, <1>7, <1>8, <1>9 DEF Next, Startup

LEMMA IInvAlways == Spec => []IInv
<1>1. Init => IInv
  BY InitTypes
     DEF Init, IInv, Progress, Flagged, EnteredIsKept, Seeding, SignedOut, Staffed, Templated
<1>2. IInv /\ [Next]_vars => IInv'
  BY TypeNext, FlaggedNext, ProgressNext DEF IInv
<1> QED
  BY <1>1, <1>2, PTL DEF Spec

-----------------------------------------------------------------------------
\* What users entered after the seed survives every failure and every restart
\* of the container: the seed, which clears the tables, runs only without the
\* flag, and nobody is served without it.
THEOREM EnteredKept == Spec => []EnteredIsKept
<1>1. IInv => EnteredIsKept
  BY DEF IInv
<1> QED
  BY <1>1, IInvAlways, PTL

\* The server never runs on references to accounts that a seed has removed.
THEOREM NoOrphans == Spec => []NoOrphansServed
<1>1. IInv => NoOrphansServed
  BY DEF IInv, Flagged, NoOrphansServed
<1> QED
  BY <1>1, IInvAlways, PTL

LEMMA OneWithRole ==
  ASSUME TypeOK, TheTwo
  PROVE  /\ Cardinality(With("admin")) = 1 /\ Cardinality(With("user")) = 1
         /\ Cardinality(Accounts) = 2
<1>1. PICK a, b \in Ids : /\ a # b /\ Accounts = {a, b}
                          /\ users[a].role = "admin" /\ users[b].role = "user"
  BY DEF TheTwo
<1>2. With("admin") = {a} /\ With("user") = {b}
  BY <1>1 DEF With
<1>3. Cardinality({a}) = 1 /\ Cardinality({b}) = 1 /\ IsFiniteSet({a})
  BY FS_Singleton
<1>4. Cardinality({a} \cup {b}) = 2
  <2>1. b \notin {a}
    BY <1>1
  <2>2. Cardinality({a} \cup {b}) = Cardinality({a}) + 1
    BY <1>3, <2>1, FS_AddElement
  <2> QED
    BY <1>3, <2>2
<1>5. {a} \cup {b} = Accounts
  BY <1>1
<1> QED
  BY <1>2, <1>3, <1>4, <1>5

\* The flag is set on a complete database only, whatever earlier starts left
\* half done.
THEOREM FlagComplete == Spec => FlagMeansComplete
<1>1. IInv /\ [Next]_vars => (~flag /\ flag' => Complete')
  <2> SUFFICES ASSUME IInv, [Next]_vars, ~flag, flag' PROVE Complete'
    OBVIOUS
  <2>1. Touch
    BY DEF Next, Startup, Start, Migrate, SeedRole, RolesSeeded, SeedStatuses, EndSessions,
       DropDevices, DropUsers, SeedAdmin, SeedUser, SeedAccount, DropTemplates, SeedTemplate,
       ClearDevices, SeedMqttAdmin, SeedDevices, Refused, Fail, Recreate, Requests, Register, SignIn,
       AddDevice, PatchUser, AddStatus, DeleteStatus, vars
  <2>2. Complete
    BY <2>1, OneWithRole DEF IInv, Progress, Seeding, SignedOut, Staffed, Templated, Touch, Complete
  <2> QED
    BY <2>1, <2>2 DEF Touch, Complete, Accounts, With
<1> QED
  BY <1>1, IInvAlways, PTL DEF Spec, FlagMeansComplete

=============================================================================
