------------------------------ MODULE Delivery ------------------------------
(***************************************************************************)
(* How readings and commands travel: MqttService with its connection to    *)
(* the broker, SocketIoGateway with its rooms, the guards of its messages, *)
(* and the order in which DevicesService stores, announces and publishes.  *)
(* What it does in between, the cache above all, is the subject of         *)
(* Devices; here it is time that passes.  A handler follows its last guard *)
(* in the same turn of the event loop, so the two are one step.            *)
(***************************************************************************)
CONSTANTS
  Devices,   \* device ids
  Values,    \* values of a device's channel
  Default,   \* the value a new channel starts with
  Sockets,   \* Socket.IO connections
  Handlers,  \* messages and requests in flight in the service
  Messages,  \* the messages and requests that devices and clients send
  None

\* report is the status field of a reading; value is what a reading or a
\* command carries for the channel; named: the body is an object with a deviceId.
Kinds == {"reading", "command", "join", "leave", "patch"}
Body == [kind : Kinds, dev : Devices, report : {"absent", "ONLINE", "OFFLINE", "online"},
         value : Values \cup {None}, named : BOOLEAN]

ASSUME ConstantsAssumption ==
  /\ Messages \subseteq Body
  /\ Default \in Values
  /\ None \notin Devices \cup Values \cup Sockets \cup {"online", "offline"}
  /\ "stray" \notin Devices

VARIABLES
  broker,    \* the broker is reachable
  link,      \* the MQTT client's connection to it
  row,       \* the status of each device in the device table
  channel,   \* the stored value of each device's channel
  latest,    \* the value last published to each device or received from it
  online,    \* the sockets that are connected
  rooms,     \* the rooms each socket is in
  view,      \* the status a socket was last sent since it joined a device's room
  pc,        \* where each handler waits
  job,       \* the message or request it handles
  found,     \* the device it has loaded
  blurred,   \* history: devices with a status stored and not cleanly announced
  crossed    \* history: devices with a value stored and not cleanly published,
             \* or received and not cleanly stored

stores == <<row, channel>>
linkage == <<broker, link>>
sockets == <<online, rooms, view>>
handling == <<pc, job, found>>
history == <<blurred, crossed>>
vars == <<linkage, stores, latest, sockets, handling, history>>

Statuses == {"online", "offline"}
Links == {"closed", "subscribing", "listening", "deaf"}

\* A join whose body is an object and not an id enters the room "stray",
\* "device/[object Object]" in the code.
Rooms == Devices \cup {"stray"}

Stages == {"idle", "store", "record", "notify", "guard", "found", "write", "reread", "publish"}

\* status is what a reading reports, or the cached one a command announces.
Job == [kind : Kinds, dev : Devices, status : Statuses \cup {None},
        value : Values \cup {None}, socket : Sockets \cup {None}, named : BOOLEAN]

Found == [dev : Devices, status : Statuses]

TypeOK ==
  /\ broker \in BOOLEAN /\ link \in Links
  /\ row \in [Devices -> Statuses]
  /\ channel \in [Devices -> Values] /\ latest \in [Devices -> Values]
  /\ online \subseteq Sockets
  /\ rooms \in [Sockets -> SUBSET Rooms]
  /\ view \in [Sockets -> [Devices -> Statuses \cup {None}]]
  /\ pc \in [Handlers -> Stages]
  /\ job \in [Handlers -> Job \cup {None}]
  /\ found \in [Handlers -> Found \cup {None}]
  /\ blurred \subseteq Devices /\ crossed \subseteq Devices

\* The devices are registered with their channels; nothing is connected.
Init ==
  /\ broker = FALSE /\ link = "closed"
  /\ row = [d \in Devices |-> "offline"]
  /\ channel = [d \in Devices |-> Default] /\ latest = channel
  /\ online = {}
  /\ rooms = [s \in Sockets |-> {}]
  /\ view = [s \in Sockets |-> [d \in Devices |-> None]]
  /\ pc = [h \in Handlers |-> "idle"]
  /\ job = [h \in Handlers |-> None]
  /\ found = [h \in Handlers |-> None]
  /\ blurred = {} /\ crossed = {}

------------------------------------------------------------------------------
(* The connection to the broker *)

BrokerUp ==
  /\ ~broker
  /\ broker' = TRUE
  /\ UNCHANGED <<link, stores, latest, sockets, handling, history>>

BrokerDown ==
  /\ broker
  /\ broker' = FALSE /\ link' = "closed"
  /\ UNCHANGED <<stores, latest, sockets, handling, history>>

\* Mutant: the subscription is not made by the 'connect' callback, so that a
\* new, clean session has none.
OnConnectMute == "mute"

\* on('connect') subscribes, every time: a clean session starts without.
OnConnect == "subscribing"

\* The first connect and, every second from a loss on, the next.
Connect ==
  /\ broker /\ link = "closed"
  /\ link' = OnConnect
  /\ UNCHANGED <<broker, stores, latest, sockets, handling, history>>

Suback ==
  /\ link = "subscribing"
  /\ link' = "listening"
  /\ UNCHANGED <<broker, stores, latest, sockets, handling, history>>

\* A refused subscription is logged and not tried again on this connection.
SubscribeError ==
  /\ link = "subscribing"
  /\ link' = "deaf"
  /\ UNCHANGED <<broker, stores, latest, sockets, handling, history>>

------------------------------------------------------------------------------
(* Handlers *)

Enter(h, j, stage) ==
  /\ pc[h] = "idle"
  /\ pc' = [pc EXCEPT ![h] = stage]
  /\ job' = [job EXCEPT ![h] = j]
  /\ UNCHANGED found

Finish(h) ==
  /\ pc' = [pc EXCEPT ![h] = "idle"]
  /\ job' = [job EXCEPT ![h] = None]
  /\ found' = [found EXCEPT ![h] = None]

To(h, stage) ==
  /\ pc' = [pc EXCEPT ![h] = stage]
  /\ UNCHANGED <<job, found>>

With(set, d, in) == IF in THEN set \cup {d} ELSE set \ {d}

\* h has stored a status of d and not told the room yet.
Telling(h, d) == pc[h] \in {"record", "notify"} /\ job[h].dev = d

\* h has loaded d for a join and not answered yet.
Joining(h, d) == pc[h] = "found" /\ job[h].kind = "join" /\ found[h].dev = d

\* h has received a value from d and not stored it yet, or stored one and not
\* published it yet.
HalfWay(h, d) ==
  /\ pc[h] \in {"store", "record", "reread", "publish"}
  /\ job[h].dev = d /\ job[h].value # None

\* Mutant: an event without a status says online.
ToldOnline(d, status) ==
  [s \in Sockets |->
     IF d \in rooms[s]
     THEN [view[s] EXCEPT ![d] = IF status = None THEN "online" ELSE status]
     ELSE view[s]]

\* The room of d is sent a device_data event.  Without a status the event
\* leaves the clients with what they have.
Told(d, status) ==
  IF status = None THEN view
  ELSE [s \in Sockets |-> IF d \in rooms[s] THEN [view[s] EXCEPT ![d] = status]
                                            ELSE view[s]]

------------------------------------------------------------------------------
(* A reading: device/<id>/update *)

\* A message without a status means online; otherwise the status is looked up
\* as a key of DeviceStatusStr, where only the upper-case names are found.
Reported(report) ==
  CASE report = "absent"  -> "online"
    [] report = "ONLINE"  -> "online"
    [] report = "OFFLINE" -> "offline"
    [] report = "online"  -> None

JobOf(m, s) ==
  [kind |-> m.kind, dev |-> m.dev, value |-> m.value, socket |-> s, named |-> m.named,
   status |-> IF m.kind = "reading" THEN Reported(m.report) ELSE None]

\* What is published while the service does not listen is lost.
Reading(h) ==
  /\ link = "listening"
  /\ \E m \in Messages :
       /\ m.kind = "reading"
       /\ Enter(h, JobOf(m, None), "store")
       /\ IF m.value = None THEN UNCHANGED <<latest, crossed>>
          ELSE /\ latest' = [latest EXCEPT ![m.dev] = m.value]
               /\ crossed' = With(crossed, m.dev, \E i \in Handlers : HalfWay(i, m.dev))
  /\ UNCHANGED <<linkage, stores, sockets, blurred>>

\* Mutant: an undefined status is stored as it is.
ColumnAsGiven(old, status) == status

\* An UPDATE leaves a column alone whose new value is undefined.
Column(old, status) == IF status = None THEN old ELSE status

\* updateDeviceStatusAndPosition.
Store(h) ==
  /\ pc[h] = "store"
  /\ LET d == job[h].dev
         status == job[h].status
     IN /\ row' = [row EXCEPT ![d] = Column(@, status)]
        /\ blurred' = IF status = None THEN blurred
                      ELSE With(blurred, d, \E i \in Handlers : Telling(i, d) \/ Joining(i, d))
        /\ To(h, IF job[h].value = None THEN "notify" ELSE "record")
  /\ UNCHANGED <<linkage, channel, latest, sockets, crossed>>

\* The reading's channels: bulkUpdateDeviceChannels.  Nothing is published:
\* the device knows what it has sent.
Record(h) ==
  /\ pc[h] = "record"
  /\ channel' = [channel EXCEPT ![job[h].dev] = job[h].value]
  /\ To(h, "notify")
  /\ UNCHANGED <<linkage, row, latest, sockets, history>>

Notify(h) ==
  /\ pc[h] = "notify"
  /\ view' = Told(job[h].dev, job[h].status)
  /\ Finish(h)
  /\ UNCHANGED <<linkage, stores, latest, online, rooms, history>>

\* The five-minute job marks a device it found silent, whatever it has sent
\* since.  The event that follows has no status: "offline" is no key of
\* DeviceStatusStr.
Sweep(d) ==
  /\ row[d] = "online"
  /\ row' = [row EXCEPT ![d] = "offline"]
  /\ blurred' = blurred \cup {d}
  /\ UNCHANGED <<linkage, channel, latest, sockets, handling, crossed>>

------------------------------------------------------------------------------
(* Sockets *)

\* handleConnection: a valid token opens the connection; the user's own room
\* is the subject of Notifications.
Open(s) ==
  /\ online' = online \cup {s}
  /\ s \notin online
  /\ UNCHANGED <<linkage, stores, latest, rooms, view, handling, history>>

\* A socket that goes leaves its rooms; when the client comes back it is a
\* new socket, which the joins still under way do not know.
Close(s) ==
  /\ s \in online
  /\ online' = online \ {s}
  /\ rooms' = [rooms EXCEPT ![s] = {}]
  /\ view' = [view EXCEPT ![s] = [d \in Devices |-> None]]
  /\ LET gone == {h \in Handlers : /\ pc[h] \in {"guard", "found"}
                                   /\ job[h].socket = s /\ job[h].kind # "command"}
     IN /\ pc' = [h \in Handlers |-> IF h \in gone THEN "idle" ELSE pc[h]]
        /\ job' = [h \in Handlers |-> IF h \in gone THEN None ELSE job[h]]
        /\ found' = [h \in Handlers |-> IF h \in gone THEN None ELSE found[h]]
  /\ UNCHANGED <<linkage, stores, latest, history>>

\* join_device_room, leave_device_room, and device/update, which needs channels.
Message(h) ==
  /\ \E s \in online, m \in Messages :
       /\ m.kind \in {"join", "leave"} \/ (m.kind = "command" /\ m.value # None)
       /\ Enter(h, JobOf(m, s), "guard")
  /\ UNCHANGED <<linkage, stores, latest, sockets, history>>

\* WsDeviceGuard looks for data.deviceId; a body that is the id itself has
\* none, and without it the query returns whichever device comes first.
Lookup(j) == IF j.named \/ j.kind = "patch" THEN {j.dev} ELSE Devices

\* WsAuthGuard and WsDeviceGuard load the user and the device; a PATCH, behind
\* DeviceOwnershipGuard, loads the row in updateOne.  Commands and leaves do
\* not look at the device loaded.
Load(h) ==
  /\ pc[h] = "guard"
  /\ IF job[h].kind \in {"join", "patch"}
     THEN \E d \in Lookup(job[h]) :
            found' = [found EXCEPT ![h] = [dev |-> d, status |-> row[d]]]
     ELSE UNCHANGED found
  /\ pc' = [pc EXCEPT ![h] = "found"]
  /\ UNCHANGED <<linkage, stores, latest, sockets, job, history>>

Room(j) == IF j.named THEN "stray" ELSE j.dev

\* onJoinDeviceRoom: a socket that is in the room already gets no answer.  The
\* answer is about the device the guard has loaded, whichever the room is.
Join(h) ==
  /\ pc[h] = "found" /\ job[h].kind = "join"
  /\ LET s == job[h].socket
         room == Room(job[h])
         d == found[h].dev
     IN IF room \in rooms[s] THEN UNCHANGED <<rooms, view>>
        ELSE /\ rooms' = [rooms EXCEPT ![s] = @ \cup {room}]
             /\ view' = IF d \in rooms'[s]
                        THEN [view EXCEPT ![s][d] = found[h].status] ELSE view
  /\ Finish(h)
  /\ UNCHANGED <<linkage, stores, latest, online, history>>

\* onLeaveDeviceRoom.
Leave(h) ==
  /\ pc[h] = "found" /\ job[h].kind = "leave"
  /\ LET s == job[h].socket
         d == Room(job[h])
     IN /\ rooms' = [rooms EXCEPT ![s] = @ \ {d}]
        /\ view' = IF d \in Devices THEN [view EXCEPT ![s][d] = None] ELSE view
  /\ Finish(h)
  /\ UNCHANGED <<linkage, stores, latest, online, history>>

------------------------------------------------------------------------------
(* A request: PATCH /devices/<id> *)

\* ovUpdateOneBase; the body has no status.
Patch(h) ==
  /\ \E m \in Messages : m.kind = "patch" /\ Enter(h, JobOf(m, None), "guard")
  /\ UNCHANGED <<linkage, stores, latest, sockets, history>>

\* Every column is saved as it was loaded, the status too, which a reading or
\* the sweep may have changed since; nobody is told.
Save(h) ==
  /\ pc[h] = "found" /\ job[h].kind = "patch"
  /\ LET d == found[h].dev
     IN /\ row' = [row EXCEPT ![d] = found[h].status]
        /\ blurred' = IF found[h].status = row[d] THEN blurred ELSE blurred \cup {d}
  /\ Finish(h)
  /\ UNCHANGED <<linkage, channel, latest, sockets, crossed>>

------------------------------------------------------------------------------
(* A command: device/update *)

\* Mutant: the value is published before it is stored.
CommandAhead(h) ==
  /\ pc[h] = "found" /\ job[h].kind = "command"
  /\ \E status \in Statuses :
       job' = [job EXCEPT ![h].status = status]
  /\ pc' = [pc EXCEPT ![h] = "write"]
  /\ latest' = IF link = "closed" THEN latest ELSE [latest EXCEPT ![job[h].dev] = job[h].value]
  /\ UNCHANGED <<linkage, stores, sockets, found, history>>

\* handleUpdateDevice calls socketUpdate, which takes the status it will
\* announce from the cache, where it may be outdated.
Command(h) ==
  /\ pc[h] = "found" /\ job[h].kind = "command"
  /\ \E status \in Statuses :
       job' = [job EXCEPT ![h].status = status]
  /\ pc' = [pc EXCEPT ![h] = "write"]
  /\ UNCHANGED <<linkage, stores, latest, sockets, found, history>>

\* bulkUpdateDeviceChannels stores the value ...
Write(h) ==
  /\ pc[h] = "write"
  /\ LET d == job[h].dev
     IN /\ channel' = [channel EXCEPT ![d] = job[h].value]
        /\ crossed' = With(crossed, d, \E i \in Handlers : HalfWay(i, d))
  /\ To(h, "reread")
  /\ UNCHANGED <<linkage, row, latest, sockets, blurred>>

\* ... and reads back what is to be published.
Reread(h) ==
  /\ pc[h] = "reread"
  /\ job' = [job EXCEPT ![h].value = channel[job[h].dev]]
  /\ pc' = [pc EXCEPT ![h] = "publish"]
  /\ UNCHANGED <<linkage, stores, latest, sockets, found, history>>

\* The room is told, then publicMessage hands the value to the client, which
\* drops it while it is not connected.
Publish(h) ==
  /\ pc[h] = "publish"
  /\ LET d == job[h].dev
     IN /\ view' = Told(d, job[h].status)
        /\ blurred' = IF job[h].status = row[d] THEN blurred ELSE blurred \cup {d}
        /\ IF link = "closed"
           THEN crossed' = crossed \cup {d} /\ UNCHANGED latest
           ELSE latest' = [latest EXCEPT ![d] = job[h].value] /\ UNCHANGED crossed
  /\ Finish(h)
  /\ UNCHANGED <<linkage, stores, online, rooms>>

------------------------------------------------------------------------------
(* What breaks off *)

\* A guard refuses, a check or a query fails; what was stored stays stored.
Abort(h) ==
  /\ pc[h] # "idle"
  /\ blurred' = blurred \cup {d \in Devices : Telling(h, d)}
  /\ crossed' = crossed \cup {d \in Devices : HalfWay(h, d)}
  /\ Finish(h)
  /\ UNCHANGED <<linkage, stores, latest, sockets>>

\* The service stops and starts again: only the tables are left.
Restart ==
  /\ link' = "closed"
  /\ online' = {}
  /\ rooms' = [s \in Sockets |-> {}]
  /\ view' = [s \in Sockets |-> [d \in Devices |-> None]]
  /\ pc' = [h \in Handlers |-> "idle"]
  /\ job' = [h \in Handlers |-> None]
  /\ found' = [h \in Handlers |-> None]
  /\ crossed' = crossed \cup {d \in Devices : \E h \in Handlers : HalfWay(h, d)}
  /\ UNCHANGED <<broker, stores, latest, blurred>>

------------------------------------------------------------------------------

Step(h) == \/ Store(h) \/ Record(h) \/ Notify(h) \/ Load(h) \/ Join(h) \/ Leave(h)
           \/ Save(h) \/ Command(h) \/ Write(h) \/ Reread(h) \/ Publish(h)

Next ==
  \/ BrokerUp \/ BrokerDown \/ Connect \/ Suback \/ SubscribeError
  \/ \E d \in Devices : Sweep(d)
  \/ \E s \in Sockets : Open(s) \/ Close(s)
  \/ \E h \in Handlers : Reading(h) \/ Message(h) \/ Patch(h) \/ Step(h) \/ Abort(h)
  \/ Restart

Spec == Init /\ [][Next]_vars

\* The client's timer fires and the broker answers a subscription.
FairSpec == Spec /\ WF_vars(Connect) /\ WF_vars(Suback \/ SubscribeError)

------------------------------------------------------------------------------
(* Properties *)

\* A client in the room of a device that was sent a status of it sees the one
\* stored, once its reading is announced.  Joins that read before a reading is
\* stored, or are answered with another device than the room's, readings that
\* overtake each other, restarts and reconnections are included; blurred
\* are the devices whose stored status was overwritten without an announcement
\* (by the sweep, or by a PATCH that had loaded another), or whose
\* announcement broke off, overlapped another or came from an outdated cache.
\* (mqttUpdate, onJoinDeviceRoom)
RoomShowsRow ==
  \A d \in Devices \ blurred, s \in Sockets :
    (d \in rooms[s] /\ ~\E h \in Handlers : Telling(h, d))
      => view[s][d] \in {None, row[d]}

\* The stored value of a device is the latest one exchanged with it, received
\* in a reading, which is stored and not published, or published for a command:
\* unless that command was dropped while the client was disconnected, either
\* broke off half way, or it overlapped another.  (mqttUpdate, socketUpdate,
\* publicMessage)
StoresLatest ==
  \A d \in Devices \ crossed :
    (~\E h \in Handlers : HalfWay(h, d)) => channel[d] = latest[d]

\* Once the broker stays reachable, the service stays restarted and no
\* subscription is refused any more, readings arrive again.  (onModuleInit)
Resumes ==
  (<>[]broker /\ <>[][~Restart]_vars /\ <>[](link # "deaf"))
    => <>[](link = "listening")

=============================================================================
