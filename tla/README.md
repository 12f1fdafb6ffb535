# Verification of the fast-iot-be server

fast-iot-be is a NestJS back end for IoT devices: devices publish over MQTT, dashboards
listen and send commands over Socket.IO, people manage accounts, devices, templates and
notifications over HTTP. Rows are in PostgreSQL (TypeORM), channels, templates and
notifications in MongoDB (Mongoose), copies in Redis (cache-manager). This directory holds
TLA+ models of it, the TLC configurations that check them, and TLAPS proofs. `PROJECT.json`
maps every definition to the lines it models; paths below are relative to `src/src/`.

One Node.js process runs all of the server, so statements between two `await`s are atomic and
everything else interleaves: a request that is waiting for a query, a message handler, a tick
of the timer. No handler takes a lock and none uses a transaction of its own (a TypeORM
`save` is one transaction). Most errors are caught by the framework or by an empty `catch`:
a handler that fails stops where it is and keeps what it has stored so far. The models
therefore make **every store access one action**, let every handler **break off** at each of
them (`Abort`), and let any number of handlers be at work.

## Inventory

| Component | State | Operations | Talks to | Modelled in |
|---|---|---|---|---|
| Device pipeline (`devices/`) | table `device`; cache entries `device:<id>` | `mqttUpdate`, `socketUpdate`, cached read, CRUD routes behind `DeviceOwnershipGuard`, position scan | channel store, cache, templates, gateway, MQTT client | `Devices` |
| Channel store (`channels/`) | one document per (device, channel) | read, checked bulk upsert, create | called by the device pipeline | `Devices` |
| Offline sweep (`cron/`) | none of its own; ticks in flight | `handleEvery5Minutes` | device table, then `mqttUpdate` per device | `Devices`, its effect on rooms in `Delivery` |
| MQTT client (`mqtt/`) | connection, subscription | connect, subscribe, message dispatch, publish | device pipeline both ways | `Delivery` |
| Socket.IO gateway (`socket-io/`) | connections, rooms | connect, join, leave, `device/update`, events | device pipeline both ways, notifications | `Delivery`, `Notifications` |
| Authentication (`auth/`) | none (tokens are signed) | register, confirm, login, refresh, logout, update and delete the own account, avatar | users, sessions, mail | `Auth`, avatar in `Administration` |
| Users (`users/`) | table `user` | create, find, update (with rehash and uniqueness checks), remove; the administrators' routes | called by authentication and notifications | `Auth`, `Administration` |
| Sessions (`session/`) | table `session` | create, find with user, update, end one, end all others | called by authentication | `Auth` |
| Templates (`templates/`) | collection; cache `template:<id>` | CRUD, cached read, ownership guard | device pipeline | `Templates` |
| Notifications (`notifications/`) | collection; cache `unread_notifications:<user>` | create, mark read, mark all, delete, unread count | users, gateway, Firebase | `Notifications` |
| Statuses (`statuses/`) | table `status` | create with a computed id, rename, delete | accounts refer to its rows | `Administration`, seeded in `Provisioning` |
| Provisioning (`startup.sh`, `database/seeds/`) | flag file in the container, every table | migrations, five seeds, start | all stores | `Provisioning` |
| Roles and access (`roles/`, the guards) | role table | route guards | caches, tables | as guards of the routes they protect |
| Mail, push, files, positions, configuration | external or read once | - | - | not modelled, except a mail as the link it carries |

Hard behaviours, and what should be true in spite of them:

* **Three copies of a device.** A row, its channel documents and a cache entry that is *merged*
  into (read, override, write) and never dropped by the code. Concurrent handlers, expiry at
  any moment and failures between the stores all work on it. Correct: what the cache holds
  and what is sent to browsers and devices is what is stored, as far as the code can promise it.
* **Messages need no device.** The broker delivers updates for any id, also before creation
  and after deletion. Correct: nothing is stored for a device that was never created.
* **The sweep against everyone.** It finds, marks and reports in separate steps, its report
  runs the handler of a real message (which renews `lastUpdate`), PATCH writes old rows back.
  Correct: a silent device ends up offline.
* **Links that come and go.** Commands are dropped while the broker is away, sessions start
  without a subscription, a client joins a room while a reading overtakes it, readings and
  commands write the same channels. Correct: a room shows the stored status, the value
  exchanged last is the one stored, readings come back.
* **Read-then-save on accounts and sessions.** `save` writes the `deletedAt` it loaded, a
  confirmation hands the stored hash to a function that also takes plain passwords, a refresh
  compares, waits and stores, an administrator's PATCH writes back every column. Correct:
  ended sessions stay ended, deleted accounts stay deleted, the password someone chose is the
  one that is stored, a client that gets its answers can always go on.
* **Caches refreshed after, or dropped before or after the write** (templates, unread
  counts). Correct: without overlaps a cached value is the stored one, and a stale one does
  not last.
* **A start that fails half way.** The seed deletes and inserts in separate statements in
  three databases; a flag file in the container, which is not where the databases are, says that
  it is done. Correct: the flag is set on complete data only, what users entered survives a
  restart, the server comes up.

`PROJECT.json` lists each hazard at its line, with the properties that cover it. Where the
code itself goes wrong in an overlap no property can cover the overlap: the hazard has a note that names
the history variable marking it, and the properties state what holds otherwise.

## The modules

| Module | Models | Instances | Proofs |
|---|---|---|---|
| `Devices` | the device pipeline, the channel store as it uses it, the sweep, and the ends of MQTT and Socket.IO that touch it | `MCDevices` | `DevicesProofs` |
| `Delivery` | the connection to the broker, the rooms, and the order in which readings and commands are stored, announced and published | `MCDelivery` | `DeliveryProofs` |
| `Auth` | authentication, users and sessions | `MCAuth` | `AuthProofs` |
| `Administration` | the administrators' routes for accounts and statuses, the avatar | `MCAdministration` | `AdministrationProofs` |
| `Templates` | templates and their cache | `MCTemplates` | `TemplatesProofs` |
| `Notifications` | notifications, the cache of unread counts, the events to a user | `MCNotifications` | `NotificationsProofs` |
| `ReadThrough` | *abstract*: what a read-through cache promises | through `Templates` and `Notifications` | `ReadThroughProofs` |
| `Credentials` | *abstract*: what accounts and their sessions promise | through `Auth` | in `AuthProofs` |
| `Provisioning` | `startup.sh`, the seeds, and requests that change what a later seed finds | `MCProvisioning` | `ProvisioningProofs` |

The variables `pc`, `job` and `loc` of most modules say for every handler (an HTTP request, a
message, a tick) where it waits, what it was asked, and its local variables. `Arrive` starts
a handler, `Step` takes it on, `Abort` ends it with an error wherever it is. **History
variables** (`dirty`, `blurred`, `crossed`, `tangled`, `mixed`, ...) occur in no guard. The code
takes no lock, so almost nothing holds when two changes of one thing overlap; each history
variable records exactly the overlaps or failures that code is not written for, and the
properties state what is guaranteed without them. Where the overlap contradicts a document
or test of the repository, it is a finding.

### Devices

`row`, `chan` and `cache` are the three stores; `todo` is the rest of a tick's loop; `linked`
is `mqttClient.connected`; `sent` is what the last step emitted.

* `Message`, `Press`, `Request`, `Create` start a handler: an MQTT message, a socket
  command, a guarded GET/PATCH/DELETE, a POST. A message may name any device id.
* `CacheHit`, `CacheMiss`, `FindRow`, `FindChannels`, `Fill` are `getDeviceDataFromCache`;
  all callers share them, and `Deliver` goes on with the caller. `Touch`, `BulkWrite`,
  `Reread`, `SetCache` (twice for an MQTT message with channels, once otherwise) and `Emit`
  are the rest of the two update handlers.
* `FindOne`, `Save`, `SoftRemove`, `FindTemplate`, `SeedChannel` are the CRUD routes: a PATCH
  saves every column it loaded; a POST inserts the row, then looks up the template, then
  inserts one document per channel.
* `SweepFind`, `SweepMark`, `SweepNext` are `handleEvery5Minutes`; the report runs `Touch` ...
  `Emit` with the tick itself as the process.
* `Abort` (a rejected call or a dead process; a bulk write may be done in part), `Expire`,
  `Age` (five minutes pass since `lastUpdate`) and `Relink` are the environment.

Data is abstracted: a row keeps status, owner, template, deletion and whether `lastUpdate` is
recent; a channel's value is a member of a small set; a template is the set of channels it
declares. Cache entries may disappear whenever they are there: the code's time to live is a
number the comment calls seconds and cache-manager 6 takes for milliseconds, and eviction is Redis's
choice, so no property relies on an entry lasting.

`dirty[d]`: a channel write overlapped another handler of `d`, or broke off between store and
cache (nothing invalidates the entry); it is reset when nobody works on `d` and nothing of it
is cached. `Coherence` and `AnnouncesStored` are the strongest statements about cache and
events that hold.

### Delivery

`broker` and `link` are the MQTT connection (closed, subscribing, listening, or deaf after a
refused subscription), `online`, `rooms` and `view` the sockets, their rooms and the status
each was last sent in a room, `row` and `channel` the stored status and value of a device,
`latest` the last value published to it or received from it. `Messages` are the bodies that
devices and clients may send.

* `BrokerUp`, `BrokerDown`, `Connect`, `Suback`, `SubscribeError` are `onModuleInit` with the
  client's own reconnection, `Restart` a restart of the server.
* `Reading`, `Store`, `Record`, `Notify` are `mqttUpdate`: the row first, then, for a reading
  with channels, their values, of which nothing is published, and the event after the cache
  has been refreshed. `Sweep` changes the row and announces no status.
* `Patch`, `Load`, `Save` are PATCH /devices/:id, which writes back the status it loaded and
  announces nothing.
* `Message`, `Load`, `Join`, `Leave` are `join_device_room` and `leave_device_room` behind
  `WsDeviceGuard`. The guard looks for `data.deviceId`: a message that is the bare id has
  none, and the query without it returns any device (`Lookup`), so that the answer may be about
  a device other than the room's; a message that is an object
  names the device but enters the room `device/[object Object]` (`Room`).
* `Command`, `Write`, `Reread`, `Publish` are `device/update`: stored, read back, announced,
  then handed to the client, which drops it while disconnected.

The cache between a store and its announcement is the subject of `Devices`; here it is the
time between two steps, and the status a command announces, which comes from it, is any.

Two histories say where the code promises nothing. `blurred` are the devices whose stored
status was overwritten without an announcement (by `Sweep`, or by a `Save` that had loaded another), or
announced while another announcement or a join was under way, by a handler that broke off, or from
an outdated cache. `crossed` are the devices with a value received and not stored, or stored and
not published, because the handler broke off or the client was disconnected, and those with a
value that overlapped another: the store may then keep the older of the two. The next
undisturbed announcement, or exchange of a value, takes the device out again, so `RoomShowsRow` and
`StoresLatest` also say that the code recovers by itself.

### Auth

`user` and `session` are the tables, `mails` the confirmation links sent, `tokens` the refresh
tokens that reached a client. The first query of a
request belongs to the action that starts it (`Register`, `ConfirmEmail`, `ConfirmNewEmail`,
`Login`, `Refresh`, `UpdateMe`); a request refused there changes nothing and is no action.
`Logout` and `Delete` are single statements. Details that matter:

* TypeORM `save` leaves out undefined fields and writes `deletedAt` as it was loaded, so
  `SaveSession` and `Write` revive a row that was soft-deleted after it was found.
* `findByEmail` does not see deleted accounts, the unique index does (`Found`, `Unique`).
* `users.update` tells a hash from a plain password by comparing with the stored hash
  (`NewPassword`); bcrypt is modelled by what was hashed and whether that was a hash.
* Both confirmation routes accept both kinds of link, and links are never used up.
* Ending the other sessions (`Revoke`) precedes storing the new password.
* A session is loaded joined with its user; deleting an account ends no session, so the join
  is all that stops its refreshes (`WithUser`).

History: `last` (the password last set), `proof` (the password last shown in a
session), `ended` (sessions ended while nobody was refreshing them), `lost` (sessions whose
latest answer was lost) and `mixed` (users of whom an account change overlapped another
request).

### Administration

`users` has password, avatar, status and deletion of an account, `statuses` the status table:
the row under each id, rows told apart by the POST they come from. `CreateUser` is POST /users,
which stores its body; `LoadUser`, `SaveUser` and `RemoveUser` are the generated PATCH and
DELETE, which load in one query and store in another, the password column excluded from the
load (`Loaded`); `UpdatePassword` is the route that hashes, `UpdateAvatar` the owner's upload.
`ReadLast` and `InsertStatus` are POST /statuses with its computed id, `FindStatus`,
`RenameStatus` and `EraseStatus` the other two; the foreign key refuses to delete a row that
accounts refer to, deleted accounts included. `given` remembers which row an account's status
was when it was given; `dirty` are accounts with overlapping requests, `tangled` says that
requests for the status table overlapped.

### Templates

`doc` is the collection, `cache` the entries. Every request loads the template in
`TemplateOwnershipGuard`, GET and PATCH load it again (`calls` counts the loads left), through
`Look`, `Load` and `Fill`, which are `findById`; `Proceed` goes on with the caller. `Find`,
`Save`, `SetCache` are the update, `Remove` and `DropCache` the removal, `Post` the creation.
`NewDoc` and `Updated` are what the mapper makes of a body: it stores neither `userId` nor
`description`, so only seeded documents have an owner, and a PATCH without a visibility
writes back the one of the template it looked up (`Visibility`). `Lookup` is the device
pipeline's read.

### Notifications

`note` is the collection, `cache` the counts, `sent` the events sent to rooms of users.
`Look`, `Count`, `Fill` are `getUnreadCount`; `Insert`, `Announce`, `Drop` are `create`, which the
module exports and no other calls yet, so that notifications appear by it in the model;
`Guard`, `Find`, `Drop`, `FindOne`, `Save` and `Remove` the requests for one notification,
which are announced and drop the count *before* they write; `Drop`, `Match`, `Mark` (one document at a time),
`Collect` are `updateIsReadAll`. `Owes` is what a request has changed and not announced;
`silent` what was owed when one broke off.

### ReadThrough, and how the caches implement it

`ReadThrough` knows stored values, cache entries and what an operation `held`: read or written, and may
still cache. Operations load, store, cache what they hold, forget it; entries may drop. Its
theorem: only a change of the store outdates a fresh key (`StaleOnlyByStore`). `Templates`
and `Notifications` instantiate it (`INSTANCE ReadThrough WITH`): the stored value of a template id is the
document, of a user the number of unread notifications (which is computed and stored
nowhere), the held value is the local variable between the query and the `set`.
`CacheContract` is its specification under that mapping, checked by TLC and proved by TLAPS:
load, fill, drop, changes and a request that breaks off are steps of the abstract cache, all
others stutter.

### Credentials, and how authentication implements it

`Credentials` says what authentication promises, one atomic step per operation: `SignUp`,
`SignIn`, `Issue` (of a token), `SignOut`, `Renew` (a new password), `Close`. Its state is the password of each
account, who owns each session, which password was shown in it, what has ended and what was
closed. `Cross` records that requests on an account overlapped, after which `Upset` may change
that account; it is what the code needs, because of the stale writes of `SaveSession` and
`Write`. `Auth` instantiates it with the rows themselves (`Secret`, `Closed`, `Owner` are read off
the two tables, `Shown` and `ended` off the history). `AccountContract` is its specification under that
mapping: `Insert` is `SignUp`, `Open` is `SignIn`, `Answer` is `Issue`, `Logout` and `Revoke` are
`SignOut`, `Write` is `Renew`, `Upset` or nothing, and the queries in between stutter. So a login,
four queries long, behaves as if it compared the password when the session is opened. `Vouched`
follows from the contract alone: whoever has a session that has not ended has shown the present
password, while requests are handled included.

### Provisioning

`stage` is the line of `startup.sh` or the statement of a seed the container has reached,
`flag` the file `.seed_completed`, the other variables the tables as far as the seeds read
them. `Start`, `Migrate`, `SeedRole` ... `SeedDevices`, `Touch` are the script, with the order of the seeds from `run-seed.ts`;
`Fail` kills it anywhere, `Refused` is an insert that violates a foreign key, `Recreate` makes a new
container: the compose files put the volumes where the databases are and mount `/app`, while the flag is
written elsewhere, so the databases stay and the flag goes. `Register`, `SignIn`, `AddDevice`,
`PatchUser`, `AddStatus`, `DeleteStatus` are what users of a served installation do to those tables.

## Runs

| Run | Checks | Shows |
|---|---|---|
| `devices_rows` | `TypeOK`, `NothingWithoutRow`, `Coherence`, `AnnouncesStored`, `CreateIsComplete` | two handlers of any kind around one device, starting without it: cache and events agree with the store unless `dirty`, nothing is left of a device that never was, a POST completes its template |
| `devices_sweep` | `SilentGoesOffline` (liveness) | a handler and a tick, either of which may break off: a device that stops sending, and is no longer patched, ends up offline for good |
| `devices_alert` | violates `OfflineIsAnnounced` | finding 1 |
| `delivery` | `TypeOK`, `RoomShowsRow`, `StoresLatest`, `Resumes` (liveness) | readings with and without a value, a command, a PATCH, joins that load this device or another, the sweep, outages, disconnections and restarts |
| `auth_sessions` | `EndedStaysEnded`, `CurrentTokenHeld`, `RevokedByPassword`, `DeletedIsFinal`, `AccountContract` | one user, two sessions, two concurrent requests of every kind but confirmation |
| `auth_accounts` | `TypeOK`, `PasswordIsLast`, `AccountContract` | two users compete for two addresses: register, confirm, log in, change, delete |
| `auth_password_lost` | violates `LastPasswordLogsIn` | finding 2 |
| `administration` | `TypeOK`, `StatusMeant`, `PasswordOnlyCarried`, `AvatarOnlyUploaded`, `RemovalLasts` | two concurrent requests for an account and the status table |
| `admin_login` | violates `SomePasswordLogsIn` | finding 3 |
| `templates` | `TypeOK`, `Coherence`, `VisibilityKept`, `RemovalFinal`, `CacheContract`, `FreshAgain` (liveness) | two requests for a template, seeded or new, with hits, misses, expiry, failures |
| `notifications` | `TypeOK`, `Coherence`, `Announced`, `Forward`, `CacheContract`, `FreshAgain` (liveness) | a user and an administrator, two requests at a time |
| `provisioning` | `TypeOK`, `NoOrphansServed`, `EnteredIsKept`, `FlagMeansComplete`, `ComesUp` (liveness) | starts, failures, new containers, and users in between |

**Bounds.** Two handlers (or a handler and a tick) cover every overlap of two, and overlaps
are what the hazards are made of; the theorems cover any number. One device, template,
notification or account is enough where the code never relates two: devices meet only in the
loop of a sweep (`devices_alert` has two) and in the lookup of a guard (`delivery` has two, one of
which reports, is commanded, patched and joined, while the other is what the guard may find), templates and accounts nowhere but at the
unique address (`auth_accounts` has two users and two addresses). Two channels tell a merge
from a replacement and a complete template from half of one; two values, names or passwords tell old from
new. One notification makes counts 0 and 1, enough for a count to be wrong; its run has an ordinary user
and an administrator, so that the guard admits somebody else. `Hashes` bounds how often
sessions are opened and refreshed: three suffice for a login of each of two sessions and a refresh. Three `Rows` and ids up to `LastId = 2` let the highest id be
deleted and used again. In `provisioning`, two failures or new containers, account ids up to 7 (three
seeds of two accounts each, and one registration), one session and two statuses. `CONSTRAINT LinkedAndRecent` of `devices_rows` keeps
the broker connected (disconnected, fewer packets are sent and nothing else changes; `delivery` has
outages) and rows recent where no sweep runs, so that nothing reads their age.
Symmetry is over identifiers that nothing tells apart and only in runs that check safety.
Deadlock is not checked where no client has to send anything and the constants that bound the
runs are used up; `delivery` checks it.

**Fairness.** Only what the code's scheduling gives:

* `Devices!FairSpec`: a handler that can take a step does (`WF` of `Step`: promises settle, the
  event loop is fair), the timer fires (`WF` of `SweepFind`), its loop goes on (`WF` of
  `SweepNext`), five minutes pass (`WF` of `Age`), and the sweep's UPDATE does not fail every time it is
  tried (`SF` of `SweepMark`). The last is an assumption on the database; without it the
  property is false and nothing in the code could make it true.
* `Templates` and `Notifications`: `WF` of each handler's `Step`, and of `Expire`, because every
  `set` passes a time to live.
* `Delivery`: `WF` of `Connect` (the client's reconnect timer) and of `Suback \/ SubscribeError`
  (the broker answers a subscription). `Resumes` assumes in its premise that refusals stop.
* `Provisioning`: `WF` of `Startup`: the operator starts a container that is down and the script
  goes on; failures are bounded by `MaxFailures`.

Nothing is assumed of `Abort`, of `Expire` in `Devices`, of connections or of any client.

**Mutants.** Each property of each passing run has a definition in its module marked
"Mutant": a plausible bug under which TLC finds the property violated (a refresh that forgets
the channels, a merge the wrong way round, a query that finds deleted rows, an update that
inserts what is gone, an event sent ahead of the store, a seed ordered the wrong way, and so on).

## What is proved

For every value of the constants, under the named assumptions of the modules:
`ConstantsAssumption` (`None` is no id or value, the administrators are users, the bounds are
numbers, the notifications finitely many), `NoneAssumption` and `DataAssumption` (`None` is no
row, no entry, no document; the bodies are bodies).

| Module | Theorems |
|---|---|
| `DevicesProofs` | `TypeCorrect` (`[]TypeOK`), `CacheCoherent` (`[]Coherence`), `RowComesFirst` (`[]NothingWithoutRow`), `StoredIsAnnounced` (`[]AnnouncesStored`), `CreationComplete` (`CreateIsComplete`) |
| `DeliveryProofs` | `TypeCorrect`, `RoomsFollowRows` (`[]RoomShowsRow`), `LatestIsStored` (`[]StoresLatest`) |
| `AuthProofs` | `TypeCorrect`, `PasswordKept` (`[]PasswordIsLast`), `DeletionFinal` (`DeletedIsFinal`), `EndedStays` (`[]EndedStaysEnded`), `TokenHeld` (`[]CurrentTokenHeld`), `PasswordRevokes` (`[]RevokedByPassword`), `ContractKept` (refinement), `SessionsVouched` (`[]Vouched`) |
| `AdministrationProofs` | `TypeCorrect`, `PasswordCarried`, `AvatarUploaded`, `RemovalStays` (action properties), `StatusKept` (`[]StatusMeant`) |
| `TemplatesProofs` | `TypeCorrect`, `CacheCoherent`, `VisibilityIsKept`, `RemovalIsFinal`, `CacheIsReadThrough` (refinement) |
| `NotificationsProofs` | `TypeCorrect`, `OnlyForward`, `AllAnnounced`, `CacheCoherent`, `CacheIsReadThrough` (refinement) |
| `ReadThroughProofs` | `StaleOnlyByChange` |
| `ProvisioningProofs` | `TypeCorrect`, `EnteredKept`, `NoOrphans`, `FlagComplete` |

*Types.* `TypeOK` alone is never inductive: that a save writes a row needs the locals of its
handler. `TInv` adds which locals are filled in at which stage (`Shape`) and, where rows refer
to rows, that what a handler refers to exists or existed (`References`, `Blank`).

*Caches (`Devices`, `Templates`, `Notifications`).* The invariant says what holds of everything
not `dirty`: the request that changes it is alone; the cache agrees with the store but for
what that request has stored and not yet cached or dropped (`Pending` channels of a device,
the document held before `SetCache`, `Owing` between the insert of a notification and its
invalidation); and every copy a handler carries agrees as well. For counts there is one
more conjunct (`Fits`): whoever is about to lower the count has already dropped the entry, or
will change nothing that counts. The proofs first show what a step does to the handlers it is
not a step of, and to the keys it is not about (`CleanFrame`, `OtherCounts`), then take the steps of one
undisturbed key.

*Rows first.* `NothingWithoutRow` alone is not inductive: a handler past its lookup could store
channels or fill an entry for a device that has no row. `AnchoredOf` adds that a handler of such
a device gets no further than the lookup, and nothing ever takes a row away (`StepRows`: deletion is soft).

*Creation.* `SeededOf` says that what a POST has no longer on its list is in the collection, put
there by the POST or, meanwhile, by a message; no step takes a channel document away (`NamesStay`).

*Announcements of devices.* `Coherence` says that what an entry names agrees with the store, not
that it names everything. `Complete` adds, for a writer that found its device and whose device still
exists, that the entry it reads again has the row's fields and hence all the channels, and for a
heartbeat that it refreshes with exactly the stored channels; `HeldOf` says at which stages a
handler has found its device (`held`). `WhoWrites` and `OthersComplete` show that while one handler
works on a device undisturbed no step of another spoils this.

*Refinement of caches.* The mapping needs only `TInv`; one lemma per kind of change of the held values
(`HeldSame`, `HeldSet`) and of the counts (`CountedSame`, `CountedSet`).

*Announcements of notifications.* `TellsOf` is the property for one notification, `Foretold` that a request about to remove a
notification has announced its deletion; a step either covers what it changes or takes over what it owed.

*Rooms.* `Announced` says who carries the stored status of a device that is not `blurred`: a
handler about to tell the room, every join that has loaded it, or else every view; `NoView` that
outside a room nothing was sent. A handler moves either from carrying to told, or is not on its way
to the room at all (`OthersStay`).

*Values.* `Orderly` says of a device that is not `crossed` that one handler at most is half way
with a value of it, that `latest` is the value of a reading not yet stored and the store has the value of a command not
yet published (`Done`), and that without such a handler the two are equal. The four ways a step can touch this
are lemmas (`OrderlyStays`, `OrderlyBeside`, `OrderlyBegun`, `OrderlyEnded`).

*Accounts.* `Accounts` says of every user outside `mixed`: the stored password is the last
one; while a request is at work the account is not deleted; a request that changes the account
is alone; and the password column of its pending update is what it should be at its stage.
`DeletionFinal` follows from the same invariant. In `Administration`, `Alone` and `Current`:
what a PATCH has loaded of an account without overlaps is what is stored; `SInv` says the same
of the status table, `References` is the foreign key.

*Sessions.* `Ended` says that an ended session is marked so and nobody is refreshing it: a
refresh begins with finding the session alive, so none can begin afterwards. `Held` says where
the hash of each session is: in a delivered token, or in the job of a request about to answer; it
is needed for ended sessions too, because `SaveSession` may revive one. `RevokedByPassword`
speaks of users without requests, so its invariant says what requests carry: `Proven` that a login has compared with the
last password, that a session being refreshed has shown it, and that an update past `Revoke` has
ended all other sessions; `Callers` that an update names a session of its user. Each uses that, outside
`mixed`, a request that changes an account is alone (`Accounts`).

*Contract of accounts.* `ContractKept` maps each action under `Accounts`, `Ended`, `Callers` and
`Proven`: these say precisely why the late queries of a handler still see what its first one
checked. `SessionsVouched` is proved from the abstract steps alone (`VouchedStep`).

*Provisioning.* `Progress` states what each stage of the seed has established, `Flagged` what
holds once the flag is there, `Ahead` that the id sequence is ahead of every account.

**Model-checked only:** `SilentGoesOffline`, `Resumes`, `FreshAgain` (twice) and `ComesUp`:
liveness under fairness, and `ENABLED`, are beyond the proof system's back ends. Every invariant,
action property and refinement that a passing run checks is also stated by a theorem. The three violated
properties are claims of documents that the code does not keep, and nothing is proved of them.

## Findings

1. `mqttUpdate` uses the status it is given as a *key* of `DeviceStatusStr`; the sweep passes
   the *value* `'offline'`, so the event that should announce an offline device has no status
   (`devices/devices.service.ts:246`, `cron/check-device.service.ts:42`).
2. A confirmation link followed while the password changes makes `users.update` hash the old
   hash: no password logs in any more (`users/users.service.ts:173`).
3. POST and PATCH /users store the password as it is in the body; an account created that way
   cannot log in, which the end-to-end test expects it to (`users/users.controller.ts:23`).

Read in the code, modelled as it is, and contradicted by no document:

* `mqttUpdate` updates the row and then reads the device from the cache, which has the copy
  from before (`devices/devices.service.ts:239-240`); PATCH writes back a status stored by a
  message in between (`devices/devices.controller.ts:193`).
* Two concurrent refreshes with one token both succeed (`auth/auth.service.ts:517`); no client
  is locked out by it (`CurrentTokenHeld`).
* A new container repeats the seed, which removes every account registered so far
  (`startup.sh`, `database/seeds/user/user-seed.service.ts:25`): `EnteredIsKept` is about accounts registered since.
* The socket guard loads a device other than the one whose room is entered, see Delivery.
* `NotificationsService.create` has no caller; the user mapper omits `firebaseToken`, so its
  push message would never be sent; the template mapper omits `userId` and `description`.
* The end-to-end test of the password change sends `oldPassword` where the DTO has
  `previousPassword`.

## Not modelled, and why

Positions and nearby devices (floating point and PostGIS, read only); the checks of a channel
value against its template (a pure function; the models let it pass or fail); wording, mail
templates, SMTP, Firebase and file storage (external or stateless); token signatures and
expiry (a token is what it says; nothing in the properties depends on time); validation of
DTOs by decorators; lists, searches and pagination (read only); the device password route (a
column nothing reads); start-up and dependency injection. Code without a caller:
`validateSocialLogin`, `forgotPassword` and `resetPassword` (their routes are commented out),
`deleteByUserId`, `findByIds`, `findManyWithPagination`, part of the channel repository. The
generators under `.hygen/` write source code and are no part of the server.

## Plan

1. `Devices` and `Delivery` composed: the statuses and values `Delivery` chooses are those the
   cache of `Devices` holds; `Delivery` as what `Devices` implements.
2. The channel checks and defaults (`utils/channel.ts`) as operators, compared with a
   reference definition over bounded inputs.
