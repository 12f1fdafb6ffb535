------------------------------ MODULE Devices ------------------------------
(***************************************************************************)
(* The device pipeline: DevicesService with its read-through cache, the    *)
(* MQTT, Socket.IO and HTTP handlers that call it, and the five-minute     *)
(* sweep.  A device lives in three stores: its row (PostgreSQL), one       *)
(* document per channel (MongoDB) and a cached copy of both.  Every await  *)
(* of the code ends a step, so handlers interleave at every store access.  *)
(***************************************************************************)
EXTENDS Naturals

CONSTANTS
  Devices,    \* device ids
  Seeded,     \* the devices that exist at the start
  Channels,   \* channel names
  Values,     \* channel values
  Default,    \* the value a new channel starts with
  Users,      \* non-admin callers and owners
  Admin,      \* an admin caller
  Templates,  \* template ids
  Declares,   \* the channel names each template declares
  Handlers,   \* requests and messages in flight
  Sweeps,     \* ticks of the five-minute job in flight
  Kinds,      \* the kinds of request the environment sends
  Writes,     \* the channel updates that messages carry
  Reports,    \* the status fields that MQTT messages carry
  None

ASSUME ConstantsAssumption ==
  /\ Seeded \subseteq Devices
  /\ Default \in Values
  /\ None \notin Values \cup Users \cup Templates
  /\ Declares \in [Templates -> SUBSET Channels]
  /\ Handlers \cap Sweeps = {}
  /\ Kinds \subseteq {"mqtt", "socket", "read", "patch", "delete", "create"}
  /\ Writes \subseteq [Channels -> Values \cup {None}]

VARIABLES
  row,      \* the device table
  chan,     \* the channel collection: None where there is no document
  cache,    \* the cache entries device:<id>
  sent,     \* what the last step sent to a device's room or MQTT topic
  linked,   \* mqttClient.connected
  pc,       \* where each handler or sweep waits
  job,      \* what it was asked to do
  loc,      \* its local variables
  todo,     \* the devices a sweep has still to report
  dirty     \* history: a channel write overlapped another handler or broke off

stores == <<row, chan, cache>>
vars == <<row, chan, cache, sent, linked, pc, job, loc, todo, dirty>>

Procs == Handlers \cup Sweeps
Statuses == {"online", "offline"}
ChannelMap == [Channels -> Values \cup {None}]
NoChannels == [c \in Channels |-> None]

\* lastUpdate only matters against "five minutes ago": recent or not.
Row == [status : Statuses, recent : BOOLEAN, owner : Users,
        template : Templates, deleted : BOOLEAN]

\* What the cache copies of a row; an entry written while the row could not
\* be read has no such part.
Info == [status : Statuses, owner : Users, template : Templates]
Entry == [info : Info \cup {None}, channels : ChannelMap]

\* null is neither a row nor an entry.
ASSUME NoneAssumption == None \notin Row \cup Info \cup Entry

InfoOf(r) == [status |-> r.status, owner |-> r.owner, template |-> r.template]

Dto == [owner : Users \cup {None}, template : Templates \cup {None}]
NoDto == [owner |-> None, template |-> None]
Job == [kind : Kinds \cup {"mqtt"}, dev : Devices, write : Writes \cup {NoChannels},
        report : Reports \cup {None, "offline"}, by : Users \cup {Admin}, dto : Dto]

\* held: the fields of the deviceData a handler works with; got: what the cache read in
\* progress has so far; upd: the channels argument of updateDeviceCache;
\* rounds: its calls still to make; found: the row a PATCH or DELETE loaded;
\* left: the template channels a POST has still to create.
Locals == [held : Info \cup {None}, got : Entry \cup {None}, upd : ChannelMap,
           rounds : 0..2, found : Row \cup {None}, left : SUBSET Channels]
NoLocals == [held |-> None, got |-> None, upd |-> NoChannels,
             rounds |-> 0, found |-> None, left |-> {}]

\* A device_data event to the room of a device, or values on its topic.  The
\* event of an MQTT message has no id when the handler's deviceData has none.
Packet == [to : {"room", "topic"}, dev : Devices, id : Devices \cup {None}, status : Statuses \cup {None},
           channels : ChannelMap]

Stages == {"idle", "touch", "get", "findRow", "findChannels", "fill", "write",
           "reread", "set", "emit", "find", "save", "template", "seed", "mark",
           "sweep"}

Over(new, old) == [c \in Channels |-> IF new[c] # None THEN new[c] ELSE old[c]]
Only(m, S) == [c \in Channels |-> IF c \in S THEN m[c] ELSE None]
Named(m) == {c \in Channels : m[c] # None}
Defaults(t) == Only([c \in Channels |-> Default], Declares[t])

\* Mutant: a string that is no key counts as ONLINE too.
StatusOfDefaulted(report) == IF report = "OFFLINE" THEN "offline" ELSE "online"

\* DeviceStatusStr[status] looks the enum up by key; a message without a
\* status counts as ONLINE, any other string gives undefined.
StatusOf(report) ==
  IF report \in {None, "ONLINE"} THEN "online"
  ELSE IF report = "OFFLINE" THEN "offline" ELSE None

Exists(d) == row[d] # None
Live(d) == row[d] # None /\ ~row[d].deleted
NewRow(u, t) == [status |-> "offline", recent |-> TRUE, owner |-> u,
                 template |-> t, deleted |-> FALSE]

Working(p) == pc[p] \notin {"idle", "mark", "sweep"}
WorksOn(p, d) == Working(p) /\ job[p].dev = d
Busy(d) == \E p \in Procs : WorksOn(p, d)
ChangesChannels(j) == j.kind = "create" \/ j.write # NoChannels
NewJob(kind, d) == [kind |-> kind, dev |-> d, write |-> NoChannels,
                    report |-> None, by |-> Admin, dto |-> NoDto]

TypeOK ==
  /\ row \in [Devices -> Row \cup {None}]
  /\ chan \in [Devices -> ChannelMap]
  /\ cache \in [Devices -> Entry \cup {None}]
  /\ sent \subseteq Packet
  /\ linked \in BOOLEAN
  /\ pc \in [Procs -> Stages]
  /\ job \in [Procs -> Job \cup {None}]
  /\ loc \in [Procs -> Locals]
  /\ todo \in [Procs -> SUBSET Devices]
  /\ dirty \in [Devices -> BOOLEAN]

Init ==
  /\ row \in {r \in [Devices -> {NewRow(u, t) : u \in Users, t \in Templates} \cup {None}] :
                \A d \in Devices : r[d] # None <=> d \in Seeded}
  /\ chan = [d \in Devices |-> IF Exists(d) THEN Defaults(row[d].template) ELSE NoChannels]
  /\ cache = [d \in Devices |-> None]
  /\ sent = {}
  /\ linked = TRUE
  /\ pc = [p \in Procs |-> "idle"]
  /\ job = [p \in Procs |-> None]
  /\ loc = [p \in Procs |-> NoLocals]
  /\ todo = [p \in Procs |-> {}]
  /\ dirty = [d \in Devices |-> FALSE]

-----------------------------------------------------------------------------
(* Entering and leaving a handler *)

\* Job j would overlap a handler of its device, and one of them writes channels.
Collides(j) ==
  \E q \in Procs : WorksOn(q, j.dev) /\ (ChangesChannels(j) \/ ChangesChannels(job[q]))

\* p enters the handler of job j.  The undisturbed history of a device starts
\* again when nobody works on it and nothing of it is cached.
Enter(p, j, stage) ==
  /\ pc' = [pc EXCEPT ![p] = stage]
  /\ job' = [job EXCEPT ![p] = j]
  /\ dirty' = [dirty EXCEPT ![j.dev] = Collides(j) \/ (@ /\ (Busy(j.dev) \/ cache[j.dev] # None))]

\* The handler returns; a sweep goes on with its next device.
Finish(p) ==
  /\ pc' = [pc EXCEPT ![p] = IF todo[p] = {} THEN "idle" ELSE "sweep"]
  /\ job' = [job EXCEPT ![p] = None]
  /\ loc' = [loc EXCEPT ![p] = NoLocals]
  /\ UNCHANGED todo

\* The handler throws: the caller swallows the error, which also ends the
\* loop of a sweep.
Throw(p) ==
  /\ pc' = [pc EXCEPT ![p] = "idle"]
  /\ job' = [job EXCEPT ![p] = None]
  /\ loc' = [loc EXCEPT ![p] = NoLocals]
  /\ todo' = [todo EXCEPT ![p] = {}]

\* handleDeviceUpdate: a message on device/+/update starts mqttUpdate.
Message(h, d, w, r) ==
  /\ pc[h] = "idle" /\ "mqtt" \in Kinds
  /\ Enter(h, [NewJob("mqtt", d) EXCEPT !.write = w, !.report = r], "touch")
  /\ sent' = {} /\ UNCHANGED <<stores, linked, loc, todo>>

\* The guard looks up the device that a message names as deviceId, any device
\* when it names none, whatever it names as id.  Somebody owns what it finds.
WsDeviceGuard == \E d \in Devices : Live(d)

\* handleUpdateDevice: socketUpdate takes the device the message names as id;
\* without channels it throws at once.
Press(h, d, w) ==
  /\ pc[h] = "idle" /\ "socket" \in Kinds
  /\ WsDeviceGuard
  /\ w # NoChannels
  /\ Enter(h, [NewJob("socket", d) EXCEPT !.write = w], "get")
  /\ sent' = {} /\ UNCHANGED <<stores, linked, loc, todo>>

\* GET, PATCH and DELETE of /devices/:id enter through DeviceOwnershipGuard.
Request(h, d, kind, u, dto) ==
  /\ pc[h] = "idle" /\ kind \in Kinds \cap {"read", "patch", "delete"}
  /\ kind # "patch" => dto = NoDto
  /\ Enter(h, [NewJob(kind, d) EXCEPT !.by = u, !.dto = dto], "get")
  /\ sent' = {} /\ UNCHANGED <<stores, linked, loc, todo>>

\* ovCreateOneBase: the row is inserted first, under a fresh id.
Create(h, d, u, t) ==
  /\ pc[h] = "idle" /\ "create" \in Kinds
  /\ ~Exists(d)
  /\ row' = [row EXCEPT ![d] = NewRow(u, t)]
  /\ pc' = [pc EXCEPT ![h] = "template"]
  /\ job' = [job EXCEPT ![h] = [NewJob("create", d) EXCEPT !.dto = [owner |-> u, template |-> t]]]
  /\ dirty' = [dirty EXCEPT ![d] = Busy(d) \/ cache[d] # None \/ @]
  /\ sent' = {} /\ UNCHANGED <<chan, cache, linked, loc, todo>>

-----------------------------------------------------------------------------
(* getDeviceDataFromCache and what its callers do with the result *)

\* A device was found and, for DeviceOwnershipGuard (whose findById needs the
\* template of the cached device), the cached owner is the caller.
Serves(j, v) ==
  /\ v # None
  /\ j.kind \in {"read", "patch", "delete"} =>
       /\ v.info # None
       /\ j.by \in {Admin, v.info.owner}

\* The first call gives the handler its deviceData: null throws, a refused
\* request ends, the others go on with v.
Proceed(p, v) ==
  LET j == job[p] IN
  \/ ~Serves(j, v) /\ Throw(p)
  \/ /\ Serves(j, v) /\ j.kind = "read"
     /\ Finish(p)
  \/ /\ Serves(j, v) /\ j.kind \in {"patch", "delete"}
     /\ pc' = [pc EXCEPT ![p] = "find"]
     /\ loc' = [loc EXCEPT ![p].got = None]
     /\ UNCHANGED <<job, todo>>
  \/ /\ Serves(j, v) /\ j.kind \in {"mqtt", "socket"} /\ j.write # NoChannels
     /\ pc' = [pc EXCEPT ![p] = "write"]
     /\ loc' = [loc EXCEPT ![p].got = None, ![p].held = v.info]
     /\ UNCHANGED <<job, todo>>
  \/ \* an MQTT message without channels refreshes the cache from its own copy
     /\ Serves(j, v) /\ j.kind = "mqtt" /\ j.write = NoChannels
     /\ pc' = [pc EXCEPT ![p] = "get"]
     /\ loc' = [loc EXCEPT ![p].got = None, ![p].held = v.info,
                           ![p].upd = v.channels, ![p].rounds = 1]
     /\ UNCHANGED <<job, todo>>

\* Later calls are made by updateDeviceCache, which accepts null.
Deliver(p, v) ==
  \/ loc[p].rounds = 0 /\ Proceed(p, v)
  \/ /\ loc[p].rounds > 0
     /\ pc' = [pc EXCEPT ![p] = "set"]
     /\ loc' = [loc EXCEPT ![p].got = v]
     /\ UNCHANGED <<job, todo>>

CacheHit(p) ==
  /\ pc[p] = "get" /\ cache[job[p].dev] # None
  /\ Deliver(p, cache[job[p].dev])
  /\ sent' = {} /\ UNCHANGED <<stores, linked, dirty>>

CacheMiss(p) ==
  /\ pc[p] = "get" /\ cache[job[p].dev] = None
  /\ pc' = [pc EXCEPT ![p] = "findRow"]
  /\ sent' = {} /\ UNCHANGED <<stores, linked, job, loc, todo, dirty>>

\* Mutant: the missing row is not reported as null.
FindRowUnchecked(p) ==
  /\ pc[p] = "findRow"
  /\ pc' = [pc EXCEPT ![p] = "findChannels"]
  /\ loc' = [loc EXCEPT ![p].got =
        [info |-> IF Live(job[p].dev) THEN InfoOf(row[job[p].dev]) ELSE None, channels |-> NoChannels]]
  /\ sent' = {} /\ UNCHANGED <<stores, linked, job, todo, dirty>>

\* repo.findOne skips soft-deleted rows.
FindRow(p) ==
  /\ pc[p] = "findRow"
  /\ LET d == job[p].dev IN
       \/ ~Live(d) /\ Deliver(p, None)
       \/ /\ Live(d)
          /\ pc' = [pc EXCEPT ![p] = "findChannels"]
          /\ loc' = [loc EXCEPT ![p].got = [info |-> InfoOf(row[d]), channels |-> NoChannels]]
          /\ UNCHANGED <<job, todo>>
  /\ sent' = {} /\ UNCHANGED <<stores, linked, dirty>>

FindChannels(p) ==
  /\ pc[p] = "findChannels"
  /\ pc' = [pc EXCEPT ![p] = "fill"]
  /\ loc' = [loc EXCEPT ![p].got.channels = chan[job[p].dev]]
  /\ sent' = {} /\ UNCHANGED <<stores, linked, job, todo, dirty>>

Fill(p) ==
  /\ pc[p] = "fill"
  /\ cache' = [cache EXCEPT ![job[p].dev] = loc[p].got]
  /\ Deliver(p, loc[p].got)
  /\ sent' = {} /\ UNCHANGED <<row, chan, linked, dirty>>

-----------------------------------------------------------------------------
(* mqttUpdate and socketUpdate *)

\* updateDeviceStatusAndPosition: an UPDATE by id, soft-deleted or not; an
\* undefined status leaves the column alone.
Touch(p) ==
  /\ pc[p] = "touch"
  /\ LET d == job[p].dev
         s == StatusOf(job[p].report)
     IN row' = IF ~Exists(d) THEN row
               ELSE [row EXCEPT ![d].recent = TRUE, ![d].status = IF s = None THEN @ ELSE s]
  /\ pc' = [pc EXCEPT ![p] = "get"]
  /\ sent' = {} /\ UNCHANGED <<chan, cache, linked, job, loc, todo, dirty>>

\* bulkUpdateDeviceChannels: every named channel must be declared by the
\* template of the device at hand; then one upsert per channel.
BulkWrite(p) ==
  /\ pc[p] = "write"
  /\ LET j == job[p]
         valid == /\ loc[p].held # None
                  /\ Named(j.write) \subseteq Declares[loc[p].held.template]
     IN \/ ~valid /\ Throw(p) /\ UNCHANGED chan
        \/ /\ valid
           /\ chan' = [chan EXCEPT ![j.dev] = Over(j.write, @)]
           /\ pc' = [pc EXCEPT ![p] = "reread"]
           /\ UNCHANGED <<job, loc, todo>>
  /\ sent' = {} /\ UNCHANGED <<row, cache, linked, dirty>>

\* Mutant: updateDeviceCache is called without the channels.
RereadForgotten(p) ==
  /\ pc[p] = "reread"
  /\ loc' = [loc EXCEPT ![p].rounds = IF job[p].kind = "mqtt" THEN 2 ELSE 1]
  /\ pc' = [pc EXCEPT ![p] = "get"]
  /\ sent' = {} /\ UNCHANGED <<stores, linked, job, todo, dirty>>

\* The named channels are read back; mqttUpdate then refreshes the cache twice.
Reread(p) ==
  /\ pc[p] = "reread"
  /\ LET j == job[p] IN
       loc' = [loc EXCEPT ![p].upd = Only(chan[j.dev], Named(j.write)),
                          ![p].rounds = IF j.kind = "mqtt" THEN 2 ELSE 1]
  /\ pc' = [pc EXCEPT ![p] = "get"]
  /\ sent' = {} /\ UNCHANGED <<stores, linked, job, todo, dirty>>

\* Mutant: the entry just read overrides the channels.
MergeIntoReversed(existing, upd) ==
  IF existing = None THEN [info |-> None, channels |-> upd]
  ELSE [existing EXCEPT !.channels = Over(@, upd)]

\* updateDeviceCache: the channels override those of the entry just read; the
\* other fields stay those of that entry.
MergeInto(existing, upd) ==
  IF existing = None THEN [info |-> None, channels |-> upd]
  ELSE [existing EXCEPT !.channels = Over(upd, @)]

SetCache(p) ==
  /\ pc[p] = "set"
  /\ cache' = [cache EXCEPT ![job[p].dev] = MergeInto(loc[p].got, loc[p].upd)]
  /\ \/ /\ loc[p].rounds > 1
        /\ pc' = [pc EXCEPT ![p] = "get"]
        /\ loc' = [loc EXCEPT ![p].got = None, ![p].rounds = @ - 1]
     \/ /\ loc[p].rounds = 1
        /\ pc' = [pc EXCEPT ![p] = "emit"]
        /\ UNCHANGED loc
  /\ sent' = {} /\ UNCHANGED <<row, chan, linked, job, todo, dirty>>

\* notifyClients, and for a socket update publicMessage, which drops the
\* command when the client is not connected.
Emit(p) ==
  /\ pc[p] = "emit"
  /\ LET j == job[p]
         status == IF j.kind = "mqtt" THEN StatusOf(j.report)
                   ELSE IF loc[p].held = None THEN None ELSE loc[p].held.status
         event == [to |-> "room", dev |-> j.dev,
                   id |-> IF loc[p].held = None THEN None ELSE j.dev, status |-> status,
                   channels |-> MergeInto(loc[p].got, loc[p].upd).channels]
         values == [to |-> "topic", dev |-> j.dev, id |-> None, status |-> None,
                    channels |-> loc[p].upd]
     IN sent' = {event} \cup (IF j.kind = "socket" /\ linked THEN {values} ELSE {})
  /\ Finish(p)
  /\ UNCHANGED <<stores, linked, dirty>>

-----------------------------------------------------------------------------
(* The CRUD routes *)

\* updateOne and deleteOne load the row themselves, 404 when it is gone.
FindOne(p) ==
  /\ pc[p] = "find"
  /\ LET d == job[p].dev IN
       \/ ~Live(d) /\ Throw(p)
       \/ /\ Live(d)
          /\ pc' = [pc EXCEPT ![p] = "save"]
          /\ loc' = [loc EXCEPT ![p].found = row[d]]
          /\ UNCHANGED <<job, todo>>
  /\ sent' = {} /\ UNCHANGED <<stores, linked, dirty>>

\* Mutant: fields that the body leaves out are cleared.
PatchedWhole(found, dto, now) ==
  [found EXCEPT !.owner = dto.owner, !.template = dto.template, !.recent = @ /\ now.recent]

\* PATCH: save() writes every column of the loaded row with the body on top.
\* A lastUpdate that was recent when loaded is no newer than the stored one.
Patched(found, dto, now) ==
  [found EXCEPT !.owner = IF dto.owner = None THEN @ ELSE dto.owner,
                !.template = IF dto.template = None THEN @ ELSE dto.template,
                !.recent = @ /\ now.recent]

Save(p) ==
  /\ pc[p] = "save" /\ job[p].kind = "patch"
  /\ LET d == job[p].dev IN
       row' = [row EXCEPT ![d] = Patched(loc[p].found, job[p].dto, @)]
  /\ Finish(p)
  /\ sent' = {} /\ UNCHANGED <<chan, cache, linked, dirty>>

\* DELETE: softRemove sets deletedAt; row, channels and cache entry stay.
SoftRemove(p) ==
  /\ pc[p] = "save" /\ job[p].kind = "delete"
  /\ row' = [row EXCEPT ![job[p].dev].deleted = TRUE]
  /\ Finish(p)
  /\ sent' = {} /\ UNCHANGED <<chan, cache, linked, dirty>>

\* POST: the template is looked up after the insert.
FindTemplate(p) ==
  /\ pc[p] = "template"
  /\ LET names == Declares[job[p].dto.template] IN
       \/ names = {} /\ Finish(p)
       \/ /\ names # {}
          /\ pc' = [pc EXCEPT ![p] = "seed"]
          /\ loc' = [loc EXCEPT ![p].left = names]
          /\ UNCHANGED <<job, todo>>
  /\ sent' = {} /\ UNCHANGED <<stores, linked, dirty>>

\* Mutant: the handler returns after the first insert.
SeedChannelOnce(p, c) ==
  /\ pc[p] = "seed" /\ c \in loc[p].left
  /\ chan[job[p].dev][c] = None
  /\ chan' = [chan EXCEPT ![job[p].dev][c] = Default]
  /\ Finish(p)
  /\ sent' = {} /\ UNCHANGED <<row, cache, linked, dirty>>

\* POST: one insert per template channel; the unique index on
\* (deviceId, name) rejects one that is already there.
SeedChannel(p, c) ==
  /\ pc[p] = "seed" /\ c \in loc[p].left
  /\ LET d == job[p].dev IN
       \/ chan[d][c] # None /\ Throw(p) /\ UNCHANGED chan
       \/ /\ chan[d][c] = None
          /\ chan' = [chan EXCEPT ![d][c] = Default]
          /\ \/ loc[p].left = {c} /\ Finish(p)
             \/ /\ loc[p].left # {c}
                /\ loc' = [loc EXCEPT ![p].left = @ \ {c}]
                /\ UNCHANGED <<pc, job, todo>>
  /\ sent' = {} /\ UNCHANGED <<row, cache, linked, dirty>>

-----------------------------------------------------------------------------
(* handleEvery5Minutes *)

Silent(d) == Live(d) /\ row[d].status = "online" /\ ~row[d].recent

SweepFind(s) ==
  /\ pc[s] = "idle"
  /\ \E d \in Devices : Silent(d)
  /\ todo' = [todo EXCEPT ![s] = {d \in Devices : Silent(d)}]
  /\ pc' = [pc EXCEPT ![s] = "mark"]
  /\ sent' = {} /\ UNCHANGED <<stores, linked, job, loc, dirty>>

\* One UPDATE of the ids found, whatever happened to their rows since.
SweepMark(s) ==
  /\ pc[s] = "mark"
  /\ row' = [d \in Devices |-> IF d \in todo[s] THEN [row[d] EXCEPT !.status = "offline"]
                               ELSE row[d]]
  /\ pc' = [pc EXCEPT ![s] = "sweep"]
  /\ sent' = {} /\ UNCHANGED <<chan, cache, linked, job, loc, todo, dirty>>

\* The loop awaits mqttUpdate with status 'offline' for each device.
SweepNext(s, d) ==
  /\ pc[s] = "sweep" /\ d \in todo[s]
  /\ Enter(s, [NewJob("mqtt", d) EXCEPT !.report = "offline"], "touch")
  /\ todo' = [todo EXCEPT ![s] = @ \ {d}]
  /\ sent' = {} /\ UNCHANGED <<stores, linked, loc>>

-----------------------------------------------------------------------------
(* The environment *)

\* The awaited call rejects, or the process dies there.  A bulk write may have
\* applied any part of its upserts; a create may have found no template.
Abort(p, S) ==
  /\ pc[p] \notin {"idle", "sweep"}
  /\ \/ pc[p] = "write" /\ chan' = [chan EXCEPT ![job[p].dev] = Over(Only(job[p].write, S), @)]
     \/ S = {} /\ UNCHANGED chan
  /\ dirty' = IF ~Working(p) THEN dirty
              ELSE [dirty EXCEPT ![job[p].dev] = @ \/ pc[p] \in {"write", "reread"}
                                                   \/ loc[p].rounds > 0]
  /\ Throw(p)
  /\ sent' = {} /\ UNCHANGED <<row, cache, linked>>

\* The entry reaches its time to live, or the cache drops it.
Expire(d) ==
  /\ cache[d] # None
  /\ cache' = [cache EXCEPT ![d] = None]
  /\ sent' = {} /\ UNCHANGED <<row, chan, linked, pc, job, loc, todo, dirty>>

\* Five minutes pass since the row's lastUpdate.
Age(d) ==
  /\ Exists(d) /\ row[d].recent
  /\ row' = [row EXCEPT ![d].recent = FALSE]
  /\ sent' = {} /\ UNCHANGED <<chan, cache, linked, pc, job, loc, todo, dirty>>

\* The broker connection drops and comes back; only commands depend on it.
Relink ==
  /\ "socket" \in Kinds
  /\ linked' = ~linked
  /\ sent' = {} /\ UNCHANGED <<stores, pc, job, loc, todo, dirty>>

-----------------------------------------------------------------------------
Arrive(h) ==
  \E d \in Devices :
    \/ \E w \in Writes, r \in Reports : Message(h, d, w, r)
    \/ \E w \in Writes : Press(h, d, w)
    \/ \E kind \in Kinds, u \in Users \cup {Admin}, dto \in Dto : Request(h, d, kind, u, dto)
    \/ \E u \in Users, t \in Templates : Create(h, d, u, t)

Step(p) ==
  \/ Touch(p)
  \/ CacheHit(p) \/ CacheMiss(p) \/ FindRow(p) \/ FindChannels(p) \/ Fill(p)
  \/ BulkWrite(p) \/ Reread(p) \/ SetCache(p) \/ Emit(p)
  \/ FindOne(p) \/ Save(p) \/ SoftRemove(p)
  \/ FindTemplate(p) \/ \E c \in Channels : SeedChannel(p, c)

Next ==
  \/ \E h \in Handlers : Arrive(h)
  \/ \E p \in Procs : Step(p)
  \/ \E s \in Sweeps : SweepFind(s) \/ SweepMark(s) \/ \E d \in Devices : SweepNext(s, d)
  \/ \E p \in Procs, S \in SUBSET Channels : Abort(p, S)
  \/ \E d \in Devices : Expire(d) \/ Age(d)
  \/ Relink

Spec == Init /\ [][Next]_vars

\* Handlers run to their end unless a call rejects; the timer ticks; time
\* passes; and the sweep's UPDATE does not fail for ever.
Fairness ==
  /\ \A p \in Procs : WF_vars(Step(p))
  /\ \A s \in Sweeps : /\ WF_vars(SweepFind(s))
                      /\ SF_vars(SweepMark(s))
                      /\ WF_vars(\E d \in Devices : SweepNext(s, d))
  /\ \A d \in Devices : WF_vars(Age(d))

FairSpec == Spec /\ Fairness

-----------------------------------------------------------------------------
(* Properties *)

Agrees(e, d) ==
  \A c \in Channels : \/ e.channels[c] = chan[d][c]
                     \/ (e.info = None /\ e.channels[c] = None)

\* A device is settled when no handler that writes its channels is on it.
Settled(d) == \A p \in Procs : WorksOn(p, d) => ~ChangesChannels(job[p])

\* As long as no channel write overlapped another handler of the device or
\* broke off since the device was last uncached, its cache entry holds the
\* stored channel values whenever no write is under way: the refreshes of
\* updateDeviceCache, also from a heartbeat's own old copy and around expiry,
\* make up for the missing invalidation.
Coherence ==
  \A d \in Devices : cache[d] # None /\ ~dirty[d] /\ Settled(d) => Agrees(cache[d], d)

\* Under the same condition nothing stale leaves the server: every value in an
\* event or a command is the stored one, and the event of a known, existing
\* device names every channel.
AnnouncesStored ==
  \A m \in sent : ~dirty[m.dev] =>
    /\ \A c \in Channels : m.channels[c] \in {None, chan[m.dev][c]}
    /\ m.id # None /\ Live(m.dev) => m.channels = chan[m.dev]

\* Neither a channel document nor a cache entry ever belongs to a device that
\* was never created, whatever ids messages name and whenever they arrive.
NothingWithoutRow ==
  \A d \in Devices : ~Exists(d) => cache[d] = None /\ chan[d] = NoChannels

\* A POST that returns leaves a document for every channel its template
\* declares, although messages may write channels of the new device meanwhile.
CreateIsComplete ==
  [][\A p \in Procs :
       pc[p] = "seed" /\ pc'[p] = "idle" /\ chan' # chan =>
         Declares[job[p].dto.template] \subseteq Named(chan'[job[p].dev])]_vars

\* A device that stops sending, and whose row is no longer patched, ends up
\* offline for good, whatever a PATCH in flight wrote back, whichever sweeps
\* broke off, and although the sweep's own mqttUpdate renews lastUpdate.
SilentGoesOffline ==
  \A d \in Devices :
    <>[](\A h \in Handlers : ~(WorksOn(h, d) /\ job[h].kind \in {"mqtt", "patch"}))
      => <>[](Exists(d) => row[d].status = "offline")

\* What the documentation says and the code does not do; PROJECT.json quotes it.
\* "alerts like device offline": the event that a sweep causes says offline.
OfflineIsAnnounced ==
  [][\A s \in Sweeps : pc[s] = "emit" /\ sent' # {} =>
       \A m \in sent' : m.status = "offline"]_vars

=============================================================================
