----------------------------- MODULE Provisioning ----------------------------
(***************************************************************************)
(* How an installation comes up: startup.sh runs the migrations, seeds the *)
(* databases unless its flag file is there, and starts the server.  The    *)
(* flag lives in the container, the databases in volumes that outlive it;  *)
(* any step may fail or be killed, and the operator starts the container   *)
(* again or makes a new one.  While the server is up, requests change the  *)
(* rows the next seed will find.                                           *)
(***************************************************************************)
EXTENDS FiniteSets, Naturals

CONSTANTS
  LastId,       \* bound: the account ids in use are 1..LastId
  LastStatus,   \* bound: the status ids in use are 1..LastStatus
  MaxSessions,  \* bound: users signed in at a time
  MaxFailures,  \* bound: failures, kills and new containers
  None

ASSUME ConstantsAssumption ==
  /\ LastId \in Nat /\ LastStatus \in Nat \ {0, 1}
  /\ MaxSessions \in Nat /\ MaxFailures \in Nat
  /\ None \notin [role : {"user", "admin"}, status : 1..LastStatus]

\* RoleEnum and StatusEnum
Roles == {"user", "admin"}
Active == 1
Inactive == 2
Statuses == 1..LastStatus

Ids == 1..LastId

VARIABLES
  stage,     \* where the container is
  flag,      \* whether its layer holds .seed_completed
  failures,
  migrated,
  roles,     \* ids of the role table
  statuses,  \* ids of the status table
  users,     \* the user table, deleted accounts included
  nextId,    \* the id sequence of the user table
  sessions,  \* the users of the rows of the session table
  devices,   \* the owners of the rows of the device table
  template,  \* the owner in the template collection, 0 if it is empty
  entered    \* history: accounts registered since the container was made

vars == <<stage, flag, failures, migrated, roles, statuses, users, nextId,
          sessions, devices, template, entered>>

User == [role : Roles, status : Statuses]
Accounts == {u \in Ids : users[u] # None}
With(role) == {u \in Accounts : users[u].role = role}

\* A device refers to its owner, or to nobody: the broker's own row.
Nobody == 0
Owners == Ids \cup {Nobody}

Boot == <<"migrate", "roles", "statuses", "endSessions", "dropDevices", "dropUsers",
          "admin", "user", "dropTemplates", "template", "clearDevices", "mqttAdmin",
          "devices", "touch">>
Stages == {"down", "serve"} \cup {Boot[i] : i \in DOMAIN Boot}

TypeOK ==
  /\ stage \in Stages /\ flag \in BOOLEAN /\ failures \in 0..MaxFailures
  /\ migrated \in BOOLEAN /\ roles \subseteq Roles /\ statuses \subseteq Statuses
  /\ users \in [Ids -> User \cup {None}] /\ nextId \in 1..(LastId + 1)
  /\ sessions \subseteq Ids /\ devices \subseteq Owners
  /\ template \in Ids \cup {0} /\ entered \subseteq Ids

Init ==
  /\ stage = "down" /\ flag = FALSE /\ failures = 0
  /\ migrated = FALSE /\ roles = {} /\ statuses = {}
  /\ users = [u \in Ids |-> None] /\ nextId = 1
  /\ sessions = {} /\ devices = {} /\ template = 0 /\ entered = {}

-----------------------------------------------------------------------------
(* startup.sh *)

Start ==
  /\ stage = "down"
  /\ stage' = "migrate"
  /\ UNCHANGED <<flag, failures, migrated, roles, statuses, users, nextId,
                 sessions, devices, template, entered>>

\* Mutant: a database that has accounts counts as seeded.
MigrateByAccounts ==
  /\ stage = "migrate"
  /\ migrated' = TRUE
  /\ stage' = IF flag \/ Accounts # {} THEN "serve" ELSE "roles"
  /\ UNCHANGED <<flag, failures, roles, statuses, users, nextId,
                 sessions, devices, template, entered>>

\* Mutant: the flag is not looked at.
MigrateAndSeed ==
  /\ stage = "migrate"
  /\ migrated' = TRUE
  /\ stage' = "roles"
  /\ UNCHANGED <<flag, failures, roles, statuses, users, nextId,
                 sessions, devices, template, entered>>

\* migration:run applies what is pending in one transaction; then the flag file
\* decides about the seed.
Migrate ==
  /\ stage = "migrate"
  /\ migrated' = TRUE
  /\ stage' = IF flag THEN "serve" ELSE "roles"
  /\ UNCHANGED <<flag, failures, roles, statuses, users, nextId,
                 sessions, devices, template, entered>>

\* Each role is counted and inserted on its own.
SeedRole ==
  /\ stage = "roles"
  /\ \E role \in Roles :
       /\ role \notin roles /\ (role = "admin" => "user" \in roles)
       /\ roles' = roles \cup {role}
  /\ UNCHANGED <<stage, flag, failures, migrated, statuses, users, nextId,
                 sessions, devices, template, entered>>

RolesSeeded ==
  /\ stage = "roles" /\ roles = Roles
  /\ stage' = "statuses"
  /\ UNCHANGED <<flag, failures, migrated, roles, statuses, users, nextId,
                 sessions, devices, template, entered>>

\* Mutant: the ids start at zero.
SeedStatusesFromZero ==
  /\ stage = "statuses"
  /\ statuses' = IF statuses = {} THEN {0, 1} ELSE statuses
  /\ stage' = "endSessions"
  /\ UNCHANGED <<flag, failures, migrated, roles, users, nextId,
                 sessions, devices, template, entered>>

\* Both statuses in one transaction, if the table is empty.
SeedStatuses ==
  /\ stage = "statuses"
  /\ statuses' = IF statuses = {} THEN {Active, Inactive} ELSE statuses
  /\ stage' = "endSessions"
  /\ UNCHANGED <<flag, failures, migrated, roles, users, nextId,
                 sessions, devices, template, entered>>

\* Mutant: the seed forgets the sessions.
SkipSessions ==
  /\ stage = "endSessions"
  /\ stage' = "dropDevices"
  /\ UNCHANGED <<flag, failures, migrated, roles, statuses, users, nextId,
                 sessions, devices, template, entered>>

EndSessions ==
  /\ stage = "endSessions"
  /\ sessions' = {}
  /\ stage' = "dropDevices"
  /\ UNCHANGED <<flag, failures, migrated, roles, statuses, users, nextId,
                 devices, template, entered>>

DropDevices ==
  /\ stage = "dropDevices"
  /\ devices' = {}
  /\ stage' = "dropUsers"
  /\ UNCHANGED <<flag, failures, migrated, roles, statuses, users, nextId,
                 sessions, template, entered>>

\* Mutant: the admins stay.
DropOthers ==
  /\ stage = "dropUsers" /\ sessions = {}
  /\ users' = [u \in Ids |-> IF u \in With("admin") THEN users[u] ELSE None]
  /\ devices' = devices \cap ({Nobody} \cup With("admin"))
  /\ stage' = "admin"
  /\ UNCHANGED <<flag, failures, migrated, roles, statuses, nextId,
                 sessions, template, entered>>

\* The devices of the accounts gone go with them.
Cascade(gone) == devices' = devices \ gone

\* DELETE of every account: refused while a session refers to one.
DropUsers ==
  /\ stage = "dropUsers" /\ sessions = {}
  /\ users' = [u \in Ids |-> None]
  /\ Cascade(Ids)
  /\ stage' = "admin"
  /\ UNCHANGED <<flag, failures, migrated, roles, statuses, nextId,
                 sessions, template, entered>>

\* Whether an account may refer to the role and the status.
Referable(role, status) == role \in roles /\ status \in statuses

Insert(role, status) ==
  /\ Referable(role, status) /\ nextId \in Ids
  /\ users' = [users EXCEPT ![nextId] = [role |-> role, status |-> status]]
  /\ nextId' = nextId + 1

\* An account of the role, unless there is one.
SeedAccount(role, next) ==
  /\ \/ With(role) = {} /\ Insert(role, Active)
     \/ With(role) # {} /\ UNCHANGED <<users, nextId>>
  /\ stage' = next
  /\ UNCHANGED <<flag, failures, migrated, roles, statuses, sessions, devices,
                 template, entered>>

SeedAdmin == stage = "admin" /\ SeedAccount("admin", "user")
SeedUser  == stage = "user" /\ SeedAccount("user", "dropTemplates")

DropTemplates ==
  /\ stage = "dropTemplates"
  /\ template' = 0
  /\ stage' = "template"
  /\ UNCHANGED <<flag, failures, migrated, roles, statuses, users, nextId,
                 sessions, devices, entered>>

\* One template of any account that is there.
SeedTemplate ==
  /\ stage = "template"
  /\ template' \in Accounts
  /\ stage' = "clearDevices"
  /\ UNCHANGED <<flag, failures, migrated, roles, statuses, users, nextId,
                 sessions, devices, entered>>

ClearDevices ==
  /\ stage = "clearDevices"
  /\ devices' = {}
  /\ stage' = "mqttAdmin"
  /\ UNCHANGED <<flag, failures, migrated, roles, statuses, users, nextId,
                 sessions, template, entered>>

SeedMqttAdmin ==
  /\ stage = "mqttAdmin"
  /\ devices' = devices \cup {Nobody}
  /\ stage' = "devices"
  /\ UNCHANGED <<flag, failures, migrated, roles, statuses, users, nextId,
                 sessions, template, entered>>

\* Thirty devices in one transaction, each of any account; their positions,
\* written one by one after it, are left out.
SeedDevices ==
  /\ stage = "devices"
  /\ \E owners \in SUBSET Accounts : owners # {} /\ devices' = devices \cup owners
  /\ stage' = "touch"
  /\ UNCHANGED <<flag, failures, migrated, roles, statuses, users, nextId,
                 sessions, template, entered>>

Touch ==
  /\ stage = "touch"
  /\ flag' = TRUE
  /\ stage' = "serve"
  /\ UNCHANGED <<failures, migrated, roles, statuses, users, nextId,
                 sessions, devices, template, entered>>

-----------------------------------------------------------------------------
(* The operator and the environment *)

\* A command fails or the process is killed: set -e ends the container.
Fail ==
  /\ stage # "down" /\ failures < MaxFailures
  /\ failures' = failures + 1
  /\ stage' = "down"
  /\ UNCHANGED <<flag, migrated, roles, statuses, users, nextId,
                 sessions, devices, template, entered>>

\* An insert of the seed violates a foreign key.
Refused ==
  /\ \/ stage = "admin" /\ With("admin") = {} /\ ~Referable("admin", Active)
     \/ stage = "user" /\ With("user") = {} /\ ~Referable("user", Active)
  /\ stage' = "down"
  /\ UNCHANGED <<flag, failures, migrated, roles, statuses, users, nextId,
                 sessions, devices, template, entered>>

\* The container is replaced: the compose files mount its volume at /app, not
\* where the flag is, so the flag is gone and the databases stay.
Recreate ==
  /\ stage = "down" /\ failures < MaxFailures
  /\ failures' = failures + 1
  /\ flag' = FALSE /\ entered' = {}
  /\ UNCHANGED <<stage, migrated, roles, statuses, users, nextId,
                 sessions, devices, template>>

-----------------------------------------------------------------------------
(* Requests to the server *)

\* POST /auth/email/register; the bound leaves ids for the seeds to come.
Register ==
  /\ stage = "serve" /\ nextId + 2 * (MaxFailures - failures) <= LastId
  /\ Insert("user", Inactive)
  /\ entered' = entered \cup {nextId}
  /\ UNCHANGED <<stage, flag, failures, migrated, roles, statuses, sessions,
                 devices, template>>

SignIn(u) ==
  /\ stage = "serve" /\ u \in Accounts /\ Cardinality(sessions) < MaxSessions
  /\ sessions' = sessions \cup {u}
  /\ UNCHANGED <<stage, flag, failures, migrated, roles, statuses, users, nextId,
                 devices, template, entered>>

\* POST /devices, by an account that is signed in.
AddDevice(u) ==
  /\ stage = "serve" /\ u \in sessions
  /\ devices' = devices \cup {u}
  /\ UNCHANGED <<stage, flag, failures, migrated, roles, statuses, users, nextId,
                 sessions, template, entered>>

AdminIn == stage = "serve" /\ sessions \cap With("admin") # {}

\* PATCH /users/:id with a role or a status.
PatchUser(u, role, status) ==
  /\ AdminIn /\ u \in Accounts /\ Referable(role, status)
  /\ users' = [users EXCEPT ![u] = [role |-> role, status |-> status]]
  /\ UNCHANGED <<stage, flag, failures, migrated, roles, statuses, nextId,
                 sessions, devices, template, entered>>

\* POST /statuses: the highest id plus one.
AddStatus ==
  /\ AdminIn
  /\ \E s \in Statuses :
       /\ \A t \in statuses : t < s
       /\ s = 1 \/ s - 1 \in statuses
       /\ statuses' = statuses \cup {s}
  /\ UNCHANGED <<stage, flag, failures, migrated, roles, users, nextId,
                 sessions, devices, template, entered>>

\* DELETE /statuses/:id: refused while an account has the status.
DeleteStatus(s) ==
  /\ AdminIn /\ s \in statuses
  /\ \A u \in Accounts : users[u].status # s
  /\ statuses' = statuses \ {s}
  /\ UNCHANGED <<stage, flag, failures, migrated, roles, users, nextId,
                 sessions, devices, template, entered>>

Startup ==
  \/ Start \/ Migrate \/ SeedRole \/ RolesSeeded \/ SeedStatuses
  \/ EndSessions \/ DropDevices \/ DropUsers \/ SeedAdmin \/ SeedUser
  \/ DropTemplates \/ SeedTemplate \/ ClearDevices \/ SeedMqttAdmin \/ SeedDevices
  \/ Touch

Requests ==
  \/ Register \/ AddStatus
  \/ \E u \in Ids : \/ SignIn(u) \/ AddDevice(u)
                    \/ \E role \in Roles, s \in Statuses : PatchUser(u, role, s)
  \/ \E s \in Statuses : DeleteStatus(s)

Next == Startup \/ Refused \/ Fail \/ Recreate \/ Requests

Spec == Init /\ [][Next]_vars

\* The operator starts a container that is down, and the script goes on.
FairSpec == Spec /\ WF_vars(Startup)

-----------------------------------------------------------------------------
(* Properties *)

\* What one undisturbed seed leaves behind.
Complete ==
  /\ migrated /\ roles = Roles
  /\ Cardinality(With("admin")) = 1 /\ Cardinality(With("user")) = 1
  /\ Cardinality(Accounts) = 2 /\ Active \in statuses
  /\ sessions = {} /\ template \in Accounts
  /\ Nobody \in devices /\ devices # {Nobody} /\ devices \subseteq Accounts \cup {Nobody}

\* The flag is set on a complete database only: whatever an earlier start left
\* half done, or the server's users entered, the seed ends with one admin and one
\* user, nobody signed in, and a template and devices of accounts that exist.
FlagMeansComplete == [][~flag /\ flag' => Complete']_vars

\* The server never runs on references to accounts a seed has removed: neither
\* a session nor a device, which the database guards, nor the template, which it
\* does not.
NoOrphansServed ==
  stage = "serve" =>
    sessions \subseteq Accounts /\ devices \ {Nobody} \subseteq Accounts /\ template \in Accounts

\* What users entered survives every failure and every start of the container.
EnteredIsKept == entered \subseteq Accounts

\* However often the start fails, and whatever the server's users did, the
\* installation comes up again, unless an admin has removed the status the seed
\* gives its accounts and left another.
ComesUp == []<>(stage = "serve" \/ (Active \notin statuses /\ statuses # {}))

=============================================================================
