--------------------------- MODULE DeliveryProofs ---------------------------
(***************************************************************************)
(* Type correctness of Delivery, that clients in a room see the stored     *)
(* status, and that the stored value is the latest one exchanged with its  *)
(* device.                                                                 *)
(***************************************************************************)
EXTENDS Delivery, TLAPS

\* The locals that a stage goes with.
Shape ==
  \A h \in Handlers :
    /\ pc[h] # "idle" => job[h] \in Job
    /\ pc[h] \in {"store", "record", "notify"} => job[h].kind = "reading"
    /\ pc[h] = "record" => job[h].value \in Values
    /\ pc[h] \in {"write", "reread", "publish"} => job[h].kind = "command"
    /\ pc[h] \in {"guard", "found"} => /\ job[h].kind # "reading"
                                       /\ job[h].kind # "patch" => job[h].socket \in Sockets
    /\ (pc[h] # "idle" /\ job[h].kind = "command") => job[h].value \in Values
    /\ (pc[h] = "found" /\ job[h].kind \in {"join", "patch"}) => found[h] \in Found

TInv == TypeOK /\ Shape

\* Handlers on their way to the room of d carry the stored status or none;
\* and if none carries it, the room has it.
Announced(d) ==
  /\ \A h \in Handlers : Telling(h, d) => job[h].status \in {None, row[d]}
  /\ \A h \in Handlers : Joining(h, d) => found[h].status = row[d]
  /\ \/ \E h \in Handlers : Telling(h, d) /\ job[h].status = row[d]
     \/ \A s \in Sockets : view[s][d] \in {None, row[d]}

RInv == \A d \in Devices \ blurred : Announced(d)

\* Outside its room a socket has been sent nothing of d.
NoView == \A s \in Sockets, d \in Devices : d \notin rooms[s] => view[s][d] = None

\* What a handler half way through with a value of d has already done with it.
Done(h, d) ==
  IF job[h].kind = "reading" THEN latest[d] = job[h].value ELSE channel[d] = job[h].value

\* One handler at most is half way through with a value of d; without any,
\* the stored value is the latest one exchanged.
Orderly(d) ==
  /\ \A h, i \in Handlers : HalfWay(h, d) /\ HalfWay(i, d) => h = i
  /\ \A h \in Handlers : HalfWay(h, d) => Done(h, d)
  /\ (\A h \in Handlers : ~HalfWay(h, d)) => channel[d] = latest[d]

CInv == \A d \in Devices \ crossed : Orderly(d)

-----------------------------------------------------------------------------
(* Type correctness *)

LEMMA TInit == Init => TInv
<1> SUFFICES ASSUME Init PROVE TInv
  OBVIOUS
<1>1. TypeOK
  <2>1. rooms \in [Sockets -> SUBSET Rooms] /\ blurred \subseteq Devices /\ crossed \subseteq Devices
    BY DEF Init
  <2>2. view \in [Sockets -> [Devices -> Statuses \cup {None}]]
    BY DEF Init
  <2>3. job \in [Handlers -> Job \cup {None}] /\ found \in [Handlers -> Found \cup {None}]
    BY DEF Init
  <2>4. pc \in [Handlers -> Stages] /\ row \in [Devices -> Statuses] /\ link \in Links
    BY DEF Init, Stages, Statuses, Links
  <2>5. broker \in BOOLEAN /\ channel \in [Devices -> Values] /\ latest \in [Devices -> Values]
        /\ online \subseteq Sockets
    BY ConstantsAssumption DEF Init
  <2> QED
    BY <2>1, <2>2, <2>3, <2>4, <2>5 DEF TypeOK
<1>2. Shape
  BY DEF Init, Shape
<1> QED
  BY <1>1, <1>2 DEF TInv

LEMMA ToldType ==
  ASSUME TypeOK, NEW d \in Devices, NEW t \in Statuses \cup {None}
  PROVE  Told(d, t) \in [Sockets -> [Devices -> Statuses \cup {None}]]
  BY DEF TypeOK, Told

LEMMA FinishType ==
  ASSUME TInv, NEW h \in Handlers, Finish(h)
  PROVE  /\ pc' \in [Handlers -> Stages]
         /\ job' \in [Handlers -> Job \cup {None}]
         /\ found' \in [Handlers -> Found \cup {None}]
         /\ Shape'
  BY DEF TInv, TypeOK, Shape, Finish, Stages

\* The job made of a message.
LEMMA JobType ==
  ASSUME NEW m \in Messages, NEW s \in Sockets \cup {None}
  PROVE  /\ m \in Body /\ JobOf(m, s) \in Job
         /\ JobOf(m, s).kind = m.kind /\ JobOf(m, s).dev = m.dev
         /\ JobOf(m, s).value = m.value /\ JobOf(m, s).socket = s
<1>1. m \in Body
  BY ConstantsAssumption
<1>2. m.kind = "reading" => Reported(m.report) \in Statuses
        \cup {None}
  BY <1>1 DEF Body, Reported, Statuses
<1> QED
  BY <1>1, <1>2 DEF Body, JobOf, Job

LEMMA TNext == TInv /\ [Next]_vars => TInv'
<1> SUFFICES ASSUME TInv, [Next]_vars PROVE TInv'
  OBVIOUS
<1> USE DEF TInv
<1>1. CASE BrokerUp \/ BrokerDown \/ Connect \/ Suback \/ SubscribeError
  BY <1>1 DEF BrokerUp, BrokerDown, Connect, OnConnect, Suback, SubscribeError, TypeOK, Shape,
     Links, stores, sockets, handling, history
<1>2. ASSUME NEW d \in Devices, Sweep(d) PROVE TInv'
  BY <1>2 DEF Sweep, TypeOK, Shape, Statuses, linkage, sockets, handling
<1>3. ASSUME NEW s \in Sockets, Open(s) PROVE TInv'
  BY <1>3 DEF Open, TypeOK, Shape, linkage, stores, handling, history
<1>4. ASSUME NEW s \in Sockets, Close(s) PROVE TInv'
  BY <1>4 DEF Close, TypeOK, Shape, Rooms, Stages, linkage, stores, history
<1>5. ASSUME NEW h \in Handlers, Reading(h) PROVE TInv'
  <2>1. PICK m \in Messages :
          /\ m.kind = "reading" /\ Enter(h, JobOf(m, None), "store")
          /\ IF m.value = None THEN UNCHANGED <<latest, crossed>>
             ELSE /\ latest' = [latest EXCEPT ![m.dev] = m.value]
                  /\ crossed' = With(crossed, m.dev, \E i \in Handlers : HalfWay(i, m.dev))
    BY <1>5 DEF Reading
  <2>2. /\ JobOf(m, None) \in Job /\ JobOf(m, None).kind = "reading"
        /\ m.dev \in Devices /\ m.value \in Values \cup {None}
    BY <2>1, JobType DEF Body
  <2>3. latest' \in [Devices -> Values] /\ crossed' \subseteq Devices
    BY <2>1, <2>2 DEF With, TypeOK
  <2> HIDE DEF Job
  <2> QED
    BY <1>5, <2>1, <2>2, <2>3 DEF Reading, Enter, TypeOK, Shape, Stages, linkage, stores, sockets
<1>6. ASSUME NEW h \in Handlers, Message(h) \/ Patch(h) PROVE TInv'
  <2>1. PICK s \in Sockets \cup {None}, m \in Messages :
          /\ Enter(h, JobOf(m, s), "guard")
          /\ m.kind \in {"join", "leave", "command", "patch"}
          /\ m.kind # "patch" => s \in Sockets
          /\ m.kind = "command" => m.value # None
    BY <1>6 DEF Message, Patch, TypeOK
  <2>2. /\ JobOf(m, s) \in Job /\ JobOf(m, s).kind = m.kind /\ JobOf(m, s).value = m.value
        /\ JobOf(m, s).socket = s /\ m.value \in Values \cup {None}
    BY <2>1, JobType DEF Body
  <2> HIDE DEF Job
  <2> QED
    BY <1>6, <2>1, <2>2 DEF Message, Patch, Enter, TypeOK, Shape, Stages, linkage, stores, sockets, history
<1>7. ASSUME NEW h \in Handlers, Step(h) PROVE TInv'
  <2> job[h] = None \/ job[h] \in Job
    BY DEF TypeOK
  <2>1. CASE Store(h)
    <3>1. job[h] \in Job /\ job[h].dev \in Devices /\ job[h].status \in Statuses \cup {None}
      BY <2>1 DEF Store, Shape, Job
    <3>2. row' \in [Devices -> Statuses]
      BY <2>1, <3>1 DEF Store, Column, TypeOK
    <3>3. blurred' \subseteq Devices
      BY <2>1, <3>1 DEF Store, With, TypeOK
    <3>4. job[h].value \in Values \cup {None}
      BY <3>1 DEF Job
    <3> HIDE DEF Job
    <3> QED
      BY <2>1, <3>1, <3>2, <3>3, <3>4 DEF Store, To, TypeOK, Shape, Stages, linkage, sockets
  <2>9. CASE Record(h)
    <3>1. job[h] \in Job /\ job[h].dev \in Devices /\ job[h].value \in Values
      BY <2>9 DEF Record, Shape, Job
    <3> HIDE DEF Job
    <3> QED
      BY <2>9, <3>1 DEF Record, To, TypeOK, Shape, Stages, linkage, sockets, history
  <2>2. CASE Notify(h)
    <3>1. job[h].dev \in Devices /\ job[h].status \in Statuses \cup {None}
      BY <2>2 DEF Notify, Shape, Job
    <3>2. view' \in [Sockets -> [Devices -> Statuses \cup {None}]]
      BY <2>2, <3>1, ToldType DEF Notify
    <3> QED
      BY <2>2, <3>2, FinishType DEF Notify, TypeOK, linkage, stores, history
  <2>3. CASE Load(h)
    <3>1. job[h] \in Job /\ Lookup(job[h]) \subseteq Devices
      BY <2>3 DEF Load, Shape, Lookup, Job
    <3>2. CASE job[h].kind \in {"join", "patch"}
      <4>1. PICK d \in Devices : found' = [found EXCEPT ![h] = [dev |-> d, status |-> row[d]]]
        BY <2>3, <3>1, <3>2 DEF Load
      <4>2. [dev |-> d, status |-> row[d]] \in Found
        BY DEF TypeOK, Found
      <4> QED
        BY <2>3, <3>1, <4>1, <4>2 DEF Load, TypeOK, Shape, Stages, linkage, stores, sockets, history
    <3>3. CASE job[h].kind \notin {"join", "patch"}
      BY <2>3, <3>1, <3>3 DEF Load, TypeOK, Shape, Stages, linkage, stores, sockets, history
    <3> QED
      BY <3>2, <3>3
  <2>4. CASE Join(h)
    <3>1. /\ job[h] \in Job /\ job[h].dev \in Devices /\ job[h].socket \in Sockets
          /\ found[h].dev \in Devices /\ found[h].status \in Statuses
      BY <2>4 DEF Join, Shape, Job, Found
    <3>2. rooms' \in [Sockets -> SUBSET Rooms] /\ view' \in [Sockets -> [Devices -> Statuses \cup {None}]]
      <4> DEFINE s == job[h].socket
                 room == Room(job[h])
                 d == found[h].dev
      <4>1. room \in Rooms
        BY <3>1 DEF Room, Rooms
      <4>2. CASE room \in rooms[s]
        BY <2>4, <4>2 DEF Join, TypeOK
      <4>3. CASE room \notin rooms[s]
        <5>1. /\ rooms' = [rooms EXCEPT ![s] = @ \cup {room}]
              /\ view' = IF d \in rooms'[s]
                         THEN [view EXCEPT ![s][d] = found[h].status] ELSE view
          BY <2>4, <4>3 DEF Join
        <5> HIDE DEF room
        <5>2. rooms' \in [Sockets -> SUBSET Rooms]
          BY <3>1, <4>1, <5>1 DEF TypeOK
        <5>3. view' \in [Sockets -> [Devices -> Statuses \cup {None}]]
          BY <3>1, <5>1 DEF TypeOK
        <5> QED
          BY <5>2, <5>3
      <4> QED
        BY <4>2, <4>3
    <3> QED
      BY <2>4, <3>2, FinishType DEF Join, TypeOK, linkage, stores, history
  <2>5. CASE Leave(h)
    <3>1. job[h] \in Job /\ job[h].dev \in Devices /\ job[h].socket \in Sockets
      BY <2>5 DEF Leave, Shape, Job
    <3>2. rooms' \in [Sockets -> SUBSET Rooms] /\ view' \in [Sockets -> [Devices -> Statuses \cup {None}]]
      BY <2>5, <3>1 DEF Leave, Room, Rooms, TypeOK
    <3> QED
      BY <2>5, <3>2, FinishType DEF Leave, TypeOK, linkage, stores, history
  <2>6. CASE Command(h)
    <3>1. PICK status \in Statuses : job' = [job EXCEPT ![h].status = status]
      BY <2>6 DEF Command
    <3>2. job[h] \in Job /\ job[h].kind = "command" /\ job[h].value \in Values
      BY <2>6 DEF Command, Shape
    <3>3. /\ [job[h] EXCEPT !.status = status] \in Job
          /\ [job[h] EXCEPT !.status = status].kind = "command"
          /\ [job[h] EXCEPT !.status = status].value \in Values
      BY <3>2 DEF Job
    <3>4. job' = [job EXCEPT ![h] = [job[h] EXCEPT !.status = status]]
      BY <3>1 DEF TypeOK
    <3> HIDE DEF Job
    <3> QED
      BY <2>6, <3>3, <3>4 DEF Command, TypeOK, Shape, Stages, linkage, stores, sockets, history
  <2>7. CASE Write(h)
    <3>1. job[h] \in Job /\ job[h].dev \in Devices /\ job[h].value \in Values
      BY <2>7 DEF Write, Shape, Job
    <3>2. crossed' \subseteq Devices
      BY <2>7, <3>1 DEF Write, With, TypeOK
    <3> HIDE DEF Job
    <3> QED
      BY <2>7, <3>1, <3>2 DEF Write, To, TypeOK, Shape, Stages, linkage, sockets
  <2>10. CASE Reread(h)
    <3>1. job[h] \in Job /\ job[h].kind = "command" /\ channel[job[h].dev] \in Values
      BY <2>10 DEF Reread, Shape, Job, TypeOK
    <3>2. /\ [job[h] EXCEPT !.value = channel[job[h].dev]] \in Job
          /\ [job[h] EXCEPT !.value = channel[job[h].dev]].kind = "command"
          /\ [job[h] EXCEPT !.value = channel[job[h].dev]].value \in Values
      BY <3>1 DEF Job
    <3>3. job' = [job EXCEPT ![h] = [job[h] EXCEPT !.value = channel[job[h].dev]]]
      BY <2>10 DEF Reread, TypeOK
    <3> HIDE DEF Job
    <3> QED
      BY <2>10, <3>2, <3>3 DEF Reread, TypeOK, Shape, Stages, linkage, stores, sockets, history
  <2>11. CASE Save(h)
    <3>1. found[h].dev \in Devices /\ found[h].status \in Statuses
      BY <2>11 DEF Save, Shape, Found
    <3>2. row' \in [Devices -> Statuses] /\ blurred' \subseteq Devices
      BY <2>11, <3>1 DEF Save, TypeOK
    <3> QED
      BY <2>11, <3>2, FinishType DEF Save, TypeOK, linkage, sockets
  <2>8. CASE Publish(h)
    <3>1. /\ job[h].dev \in Devices /\ job[h].value \in Values
          /\ job[h].status \in Statuses \cup {None}
      BY <2>8 DEF Publish, Shape, Job
    <3>2. view' \in [Sockets -> [Devices -> Statuses \cup {None}]]
      BY <2>8, <3>1, ToldType DEF Publish
    <3>3. latest' \in [Devices -> Values] /\ crossed' \subseteq Devices /\ blurred' \subseteq Devices
      BY <2>8, <3>1 DEF Publish, TypeOK
    <3> QED
      BY <2>8, <3>2, <3>3, FinishType DEF Publish, TypeOK, linkage, stores
  <2> QED
    BY <1>7, <2>1, <2>2, <2>3, <2>4, <2>5, <2>6, <2>7, <2>8, <2>9, <2>10, <2>11 DEF Step
<1>8. ASSUME NEW h \in Handlers, Abort(h) PROVE TInv'
  <2>1. crossed' \subseteq Devices /\ blurred' \subseteq Devices
    BY <1>8 DEF Abort, TypeOK
  <2> QED
    BY <1>8, <2>1, FinishType DEF Abort, TypeOK, linkage, stores, sockets
<1>9. CASE Restart
  BY <1>9 DEF Restart, TypeOK, Shape, Stages, Links, Rooms, stores
<1>10. CASE UNCHANGED vars
  BY <1>10 DEF vars, TypeOK, Shape, linkage, stores, sockets, handling, history
<1> QED
  BY <1>1, <1>2, <1>3, <1>4, <1>5, <1>6, <1>7, <1>8, <1>9, <1>10 DEF Next

\* The state is of the types declared, in every instance.
THEOREM TypeCorrect == Spec => []TypeOK
<1>1. TInv => TypeOK
  BY DEF TInv
<1> QED
  BY TInit, TNext, <1>1, PTL DEF Spec

-----------------------------------------------------------------------------
(* Values *)

\* What Finish does to the other handlers, and to its own.
LEMMA FinishEffect ==
  ASSUME TInv, NEW h \in Handlers, Finish(h)
  PROVE  /\ pc'[h] = "idle"
         /\ \A i \in Handlers \ {h} : pc'[i] = pc[i] /\ job'[i] = job[i] /\ found'[i] = found[i]
  BY DEF TInv, TypeOK, Finish

\* What an arrival does to the other handlers, and to its own.
LEMMA EnterEffect ==
  ASSUME TInv, NEW h \in Handlers, Reading(h) \/ Message(h) \/ Patch(h)
  PROVE  /\ pc[h] = "idle" /\ pc'[h] \in {"store", "guard"}
         /\ pc'[h] = "store" => Reading(h)
         /\ \A i \in Handlers \ {h} : pc'[i] = pc[i] /\ job'[i] = job[i] /\ found'[i] = found[i]
<1>1. CASE Reading(h)
  BY <1>1 DEF Reading, Enter, TInv, TypeOK
<1>2. CASE Message(h) \/ Patch(h)
  BY <1>2 DEF Message, Patch, Enter, TInv, TypeOK
<1> QED
  BY <1>1, <1>2

\* What a step of a handler does to the other handlers.
LEMMA StepEffect ==
  ASSUME TInv, NEW h \in Handlers, Step(h)
  PROVE  \A i \in Handlers \ {h} : pc'[i] = pc[i] /\ job'[i] = job[i] /\ found'[i] = found[i]
<1>1. CASE Notify(h) \/ Join(h) \/ Leave(h) \/ Save(h) \/ Publish(h)
  BY <1>1, FinishEffect DEF Notify, Join, Leave, Save, Publish
<1>2. CASE Store(h) \/ Record(h) \/ Write(h)
  BY <1>2 DEF Store, Record, Write, To, TInv, TypeOK
<1>3. CASE Load(h) \/ Command(h) \/ Reread(h)
  BY <1>3 DEF Load, Command, Reread, TInv, TypeOK
<1> QED
  BY <1>1, <1>2, <1>3 DEF Step

\* Nothing happens that concerns the value of d.
LEMMA OrderlyStays ==
  ASSUME CInv, NEW d \in Devices, d \notin crossed,
         channel'[d] = channel[d], latest'[d] = latest[d],
         \A i \in Handlers : /\ HalfWay(i, d)' <=> HalfWay(i, d)
                             /\ HalfWay(i, d) => /\ job'[i].kind = job[i].kind
                                                 /\ job'[i].value = job[i].value
  PROVE  Orderly(d)'
<1>1. Orderly(d)
  BY DEF CInv
<1>2. \A i \in Handlers : HalfWay(i, d)' => Done(i, d)'
  BY <1>1 DEF Orderly, Done
<1> QED
  BY <1>1, <1>2 DEF Orderly

\* The same, when only handler h moves and is not half way with a value of d.
LEMMA OrderlyBeside ==
  ASSUME CInv, NEW d \in Devices, d \notin crossed, NEW h \in Handlers,
         channel'[d] = channel[d], latest'[d] = latest[d],
         \A i \in Handlers \ {h} : pc'[i] = pc[i] /\ job'[i] = job[i],
         ~HalfWay(h, d), ~HalfWay(h, d)'
  PROVE  Orderly(d)'
<1>1. \A i \in Handlers : /\ HalfWay(i, d)' <=> HalfWay(i, d)
                          /\ HalfWay(i, d) => job'[i].kind = job[i].kind /\ job'[i].value = job[i].value
  BY DEF HalfWay
<1> QED
  BY <1>1, OrderlyStays

\* Handler h takes a value of d half way, and no other handler is.
LEMMA OrderlyBegun ==
  ASSUME NEW d \in Devices, NEW h \in Handlers,
         \A i \in Handlers \ {h} : pc'[i] = pc[i] /\ job'[i] = job[i] /\ ~HalfWay(i, d),
         HalfWay(h, d)', Done(h, d)'
  PROVE  Orderly(d)'
<1>1. \A i \in Handlers : HalfWay(i, d)' => i = h
  BY DEF HalfWay
<1> QED
  BY <1>1 DEF Orderly

\* Handler h, the only one half way with a value of d, completes it.
LEMMA OrderlyEnded ==
  ASSUME CInv, NEW d \in Devices, d \notin crossed, NEW h \in Handlers, HalfWay(h, d),
         \A i \in Handlers \ {h} : pc'[i] = pc[i] /\ job'[i] = job[i],
         ~HalfWay(h, d)', channel'[d] = latest'[d]
  PROVE  Orderly(d)'
<1>1. \A i \in Handlers \ {h} : ~HalfWay(i, d)
  BY DEF CInv, Orderly
<1>2. \A i \in Handlers : ~HalfWay(i, d)'
  BY <1>1 DEF HalfWay
<1> QED
  BY <1>2 DEF Orderly

LEMMA CNext == TInv /\ CInv /\ [Next]_vars => CInv'
<1> SUFFICES ASSUME TInv, CInv, [Next]_vars, NEW d \in Devices, d \notin crossed'
             PROVE  Orderly(d)'
  BY DEF CInv
<1>t. pc \in [Handlers -> Stages] /\ job \in [Handlers -> Job \cup {None}] /\ channel \in [Devices -> Values]
      /\ latest \in [Devices -> Values] /\ crossed \subseteq Devices
  BY DEF TInv, TypeOK
<1>1. CASE UNCHANGED <<channel, latest, crossed, pc, job>>
  BY <1>1, OrderlyStays DEF HalfWay
<1>2. ASSUME NEW s \in Sockets, Close(s) PROVE Orderly(d)'
  <2>1. UNCHANGED <<channel, latest, crossed>>
    BY <1>2 DEF Close, stores, history
  <2>2. \A i \in Handlers : /\ HalfWay(i, d)' <=> HalfWay(i, d)
                            /\ HalfWay(i, d) => job'[i] = job[i]
    BY <1>2 DEF Close, HalfWay
  <2> QED
    BY <2>1, <2>2, OrderlyStays
<1>3. ASSUME NEW h \in Handlers, Reading(h) PROVE Orderly(d)'
  <2>1. PICK m \in Messages :
          /\ m.kind = "reading" /\ Enter(h, JobOf(m, None), "store")
          /\ IF m.value = None THEN UNCHANGED <<latest, crossed>>
             ELSE /\ latest' = [latest EXCEPT ![m.dev] = m.value]
                  /\ crossed' = With(crossed, m.dev, \E i \in Handlers : HalfWay(i, m.dev))
    BY <1>3 DEF Reading
  <2>2. /\ m.dev \in Devices /\ JobOf(m, None).kind = "reading"
        /\ JobOf(m, None).dev = m.dev /\ JobOf(m, None).value = m.value
    BY <2>1, JobType DEF Body
  <2>3. /\ pc[h] = "idle" /\ pc'[h] = "store" /\ job'[h] = JobOf(m, None) /\ channel' = channel
        /\ \A i \in Handlers \ {h} : pc'[i] = pc[i] /\ job'[i] = job[i]
    BY <1>3, <1>t, <2>1 DEF Reading, Enter, stores
  <2>4. ~HalfWay(h, d) /\ (HalfWay(h, d)' <=> m.dev = d /\ m.value # None)
    BY <2>2, <2>3 DEF HalfWay
  <2>5. CASE m.dev = d /\ m.value # None
    <3>1. \A i \in Handlers : ~HalfWay(i, d)
      BY <2>1, <2>5 DEF With
    <3>2. latest'[d] = m.value
      BY <1>t, <2>1, <2>5
    <3> QED
      BY <2>2, <2>3, <2>4, <2>5, <3>1, <3>2, OrderlyBegun DEF Done
  <2>6. CASE ~(m.dev = d /\ m.value # None)
    <3>1. d \notin crossed /\ latest'[d] = latest[d]
      BY <1>t, <2>1, <2>2, <2>6 DEF With
    <3> QED
      BY <2>3, <2>4, <2>6, <3>1, OrderlyBeside
  <2> QED
    BY <2>5, <2>6
<1>4. ASSUME NEW h \in Handlers, Message(h) \/ Patch(h) PROVE Orderly(d)'
  <2>1. UNCHANGED <<channel, latest, crossed>>
    BY <1>4 DEF Message, Patch, stores, history
  <2>2. pc[h] = "idle" /\ pc'[h] = "guard"
    BY <1>4, <1>t DEF Message, Patch, Enter
  <2>3. \A i \in Handlers \ {h} : pc'[i] = pc[i] /\ job'[i] = job[i]
    BY <1>4, EnterEffect
  <2> QED
    BY <2>1, <2>2, <2>3, OrderlyBeside DEF HalfWay
<1>5. ASSUME NEW h \in Handlers, Notify(h) \/ Load(h) \/ Join(h) \/ Leave(h) \/ Save(h) \/ Command(h)
      PROVE Orderly(d)'
  <2>1. UNCHANGED <<channel, latest, crossed>>
    BY <1>5 DEF Notify, Load, Join, Leave, Save, Command, stores, history
  <2>2. pc[h] \in {"notify", "guard", "found"} /\ pc'[h] \in {"idle", "found", "write"}
    BY <1>5, <1>t DEF Notify, Load, Join, Leave, Save, Command, Finish
  <2>3. \A i \in Handlers \ {h} : pc'[i] = pc[i] /\ job'[i] = job[i]
    BY <1>5, StepEffect DEF Step
  <2> QED
    BY <2>1, <2>2, <2>3, OrderlyBeside DEF HalfWay
<1>6. ASSUME NEW h \in Handlers, Store(h) PROVE Orderly(d)'
  <2>1. /\ UNCHANGED <<channel, latest, crossed, job>>
        /\ pc[h] = "store" /\ pc' = [pc EXCEPT ![h] = IF job[h].value = None THEN "notify" ELSE "record"]
    BY <1>6 DEF Store, To
  <2>2. \A i \in Handlers : HalfWay(i, d)' <=> HalfWay(i, d)
    BY <1>t, <2>1 DEF HalfWay
  <2> QED
    BY <2>1, <2>2, OrderlyStays
<1>7. ASSUME NEW h \in Handlers, Record(h) PROVE Orderly(d)'
  <2>1. /\ pc[h] = "record" /\ job[h].kind = "reading" /\ job[h].dev \in Devices
        /\ job[h].value \in Values
    BY <1>7 DEF Record, TInv, Shape, Job
  <2>2. /\ pc' = [pc EXCEPT ![h] = "notify"] /\ UNCHANGED <<latest, crossed, job>>
        /\ channel' = [channel EXCEPT ![job[h].dev] = job[h].value]
    BY <1>7 DEF Record, To, history
  <2>3. ~HalfWay(h, d)' /\ \A i \in Handlers \ {h} : pc'[i] = pc[i] /\ job'[i] = job[i]
    BY <1>t, <2>2 DEF HalfWay
  <2>4. CASE job[h].dev = d
    <3>1. HalfWay(h, d)
      BY <2>1, <2>4, ConstantsAssumption DEF HalfWay
    <3>2. latest[d] = job[h].value
      BY <2>1, <2>2, <3>1 DEF CInv, Orderly, Done
    <3>3. channel'[d] = latest'[d]
      BY <1>t, <2>2, <2>4, <3>2
    <3> QED
      BY <2>2, <2>3, <3>1, <3>3, OrderlyEnded
  <2>5. CASE job[h].dev # d
    <3>1. channel'[d] = channel[d] /\ ~HalfWay(h, d)
      BY <1>t, <2>1, <2>2, <2>5 DEF HalfWay
    <3> QED
      BY <2>2, <2>3, <3>1, OrderlyBeside
  <2> QED
    BY <2>4, <2>5
<1>8. ASSUME NEW h \in Handlers, Write(h) PROVE Orderly(d)'
  <2>1. /\ pc[h] = "write" /\ job[h].kind = "command" /\ job[h].dev \in Devices
        /\ job[h].value \in Values /\ job[h].value # None
    BY <1>8, ConstantsAssumption DEF Write, TInv, Shape, Job
  <2>2. /\ pc' = [pc EXCEPT ![h] = "reread"] /\ UNCHANGED <<latest, job>>
        /\ channel' = [channel EXCEPT ![job[h].dev] = job[h].value]
        /\ crossed' = With(crossed, job[h].dev, \E i \in Handlers : HalfWay(i, job[h].dev))
    BY <1>8 DEF Write, To
  <2>3. /\ ~HalfWay(h, d) /\ (HalfWay(h, d)' <=> job[h].dev = d)
        /\ \A i \in Handlers \ {h} : pc'[i] = pc[i] /\ job'[i] = job[i]
    BY <1>t, <2>1, <2>2 DEF HalfWay
  <2>4. CASE job[h].dev = d
    <3>1. \A i \in Handlers : ~HalfWay(i, d)
      BY <2>2, <2>4 DEF With
    <3>2. Done(h, d)'
      BY <1>t, <2>1, <2>2, <2>4 DEF Done
    <3> QED
      BY <2>3, <2>4, <3>1, <3>2, OrderlyBegun
  <2>5. CASE job[h].dev # d
    <3>1. d \notin crossed /\ channel'[d] = channel[d]
      BY <1>t, <2>1, <2>2, <2>5 DEF With
    <3> QED
      BY <2>2, <2>3, <2>5, <3>1, OrderlyBeside
  <2> QED
    BY <2>4, <2>5
<1>9. ASSUME NEW h \in Handlers, Reread(h) PROVE Orderly(d)'
  <2>1. /\ pc[h] = "reread" /\ job[h] \in Job /\ job[h].kind = "command"
        /\ job[h].value # None /\ channel[job[h].dev] # None
    BY <1>9, <1>t, ConstantsAssumption DEF Reread, TInv, Shape, Job
  <2>2. /\ UNCHANGED <<channel, latest, crossed>>
        /\ pc'[h] = "publish" /\ job'[h] = [job[h] EXCEPT !.value = channel[job[h].dev]]
        /\ \A i \in Handlers \ {h} : pc'[i] = pc[i] /\ job'[i] = job[i]
    BY <1>9, <1>t DEF Reread, stores, history
  <2>3. /\ job'[h].kind = "command" /\ job'[h].dev = job[h].dev
        /\ job'[h].value = channel[job[h].dev]
    BY <2>1, <2>2 DEF Job
  <2>4. HalfWay(h, d)' <=> HalfWay(h, d)
    BY <2>1, <2>2, <2>3 DEF HalfWay
  <2>5. HalfWay(h, d) => job'[h].value = job[h].value
    BY <2>1, <2>2, <2>3 DEF CInv, Orderly, Done, HalfWay
  <2>6. \A i \in Handlers : /\ HalfWay(i, d)' <=> HalfWay(i, d)
                            /\ HalfWay(i, d) => /\ job'[i].kind = job[i].kind
                                                /\ job'[i].value = job[i].value
    BY <2>1, <2>2, <2>3, <2>4, <2>5 DEF HalfWay
  <2> QED
    BY <2>2, <2>6, OrderlyStays
<1>10. ASSUME NEW h \in Handlers, Publish(h) PROVE Orderly(d)'
  <2>1. /\ pc[h] = "publish" /\ job[h].kind = "command" /\ job[h].dev \in Devices
        /\ job[h].value # None
    BY <1>10, ConstantsAssumption DEF Publish, TInv, Shape, Job
  <2>2. /\ channel' = channel
        /\ \/ crossed' = crossed \cup {job[h].dev} /\ latest' = latest
           \/ latest' = [latest EXCEPT ![job[h].dev] = job[h].value] /\ crossed' = crossed
    BY <1>10 DEF Publish, stores
  <2>3. /\ pc'[h] = "idle" /\ ~HalfWay(h, d)' /\ d \notin crossed
        /\ \A i \in Handlers \ {h} : pc'[i] = pc[i] /\ job'[i] = job[i]
    BY <1>10, <2>2, FinishEffect DEF Publish, HalfWay
  <2>4. CASE job[h].dev = d
    <3>1. HalfWay(h, d)
      BY <2>1, <2>4 DEF HalfWay
    <3>2. channel[d] = job[h].value
      BY <2>1, <2>3, <3>1 DEF CInv, Orderly, Done
    <3>3. channel'[d] = latest'[d]
      BY <1>t, <2>2, <2>4, <3>2
    <3> QED
      BY <2>3, <3>1, <3>3, OrderlyEnded
  <2>5. CASE job[h].dev # d
    <3>1. latest'[d] = latest[d] /\ ~HalfWay(h, d)
      BY <1>t, <2>1, <2>2, <2>5 DEF HalfWay
    <3> QED
      BY <2>2, <2>3, <3>1, OrderlyBeside
  <2> QED
    BY <2>4, <2>5
<1>11. ASSUME NEW h \in Handlers, Abort(h) PROVE Orderly(d)'
  <2>1. /\ UNCHANGED <<channel, latest>> /\ d \notin crossed /\ ~HalfWay(h, d)
    BY <1>11 DEF Abort, stores
  <2>2. /\ pc'[h] = "idle"
        /\ \A i \in Handlers \ {h} : pc'[i] = pc[i] /\ job'[i] = job[i]
    BY <1>11, FinishEffect DEF Abort
  <2> QED
    BY <2>1, <2>2, OrderlyBeside DEF HalfWay
<1>12. CASE Restart
  <2>1. UNCHANGED <<channel, latest>> /\ d \notin crossed /\ \A i \in Handlers : ~HalfWay(i, d)
    BY <1>12 DEF Restart, stores
  <2>2. \A i \in Handlers : ~HalfWay(i, d)'
    BY <1>12 DEF Restart, HalfWay
  <2> QED
    BY <2>1, <2>2, OrderlyStays
<1>13. CASE UNCHANGED vars
  BY <1>1, <1>13 DEF vars, stores, handling, history
<1>14. CASE BrokerUp \/ BrokerDown \/ Connect \/ Suback \/ SubscribeError
  BY <1>1, <1>14 DEF BrokerUp, BrokerDown, Connect, Suback, SubscribeError, stores, handling, history
<1>15. ASSUME NEW e \in Devices, Sweep(e) PROVE Orderly(d)'
  BY <1>1, <1>15 DEF Sweep, handling
<1>16. ASSUME NEW s \in Sockets, Open(s) PROVE Orderly(d)'
  BY <1>1, <1>16 DEF Open, stores, handling, history
<1> QED
  BY <1>2, <1>3, <1>4, <1>5, <1>6, <1>7, <1>8, <1>9, <1>10, <1>11, <1>12, <1>13, <1>14, <1>15, <1>16
     DEF Next, Step

\* The stored value of a device is the latest one received from it or published
\* to it, unless a command was dropped, or values broke off half way or
\* overlapped each other: for any number of devices, sockets and messages.
THEOREM LatestIsStored == Spec => []StoresLatest
<1>1. Init => CInv
  BY DEF Init, CInv, Orderly, HalfWay
<1>2. CInv => StoresLatest
  BY DEF CInv, Orderly, StoresLatest
<1> QED
  BY TInit, TNext, CNext, <1>1, <1>2, PTL DEF Spec

-----------------------------------------------------------------------------
(* Rooms *)

\* What Told does to the sockets in the room, and to no other.
LEMMA ToldEffect ==
  ASSUME TInv, NEW e \in Devices, NEW t \in Statuses \cup {None}, NEW s \in Sockets, NEW d \in Devices
  PROVE  /\ d # e => Told(e, t)[s][d] = view[s][d]
         /\ Told(e, t)[s][d] \in {view[s][d], t}
         /\ d \notin rooms[s] => Told(e, t)[s][d] = view[s][d]
         /\ (t # None /\ e \in rooms[s]) => Told(e, t)[s][e] = t
         /\ t = None => Told(e, t)[s][d] = view[s][d]
  BY DEF Told, TInv, TypeOK

\* What a join or a leave does to the rooms and the views.
LEMMA JoinEffect ==
  ASSUME TInv, NEW h \in Handlers, Join(h), NEW s \in Sockets, NEW d \in Devices
  PROVE  /\ rooms[s] \subseteq rooms'[s]
         /\ \/ view'[s][d] = view[s][d]
            \/ /\ d \in rooms'[s]
               /\ found[h].dev = d /\ view'[s][d] = found[h].status
<1> DEFINE t == job[h].socket
           room == Room(job[h])
           e == found[h].dev
<1>1. t \in Sockets /\ rooms \in [Sockets -> SUBSET Rooms] /\ view \in [Sockets -> [Devices -> Statuses \cup {None}]]
  BY DEF Join, TInv, TypeOK, Shape
<1>2. CASE room \in rooms[t]
  BY <1>2 DEF Join
<1>3. CASE room \notin rooms[t]
  <2>1. /\ rooms' = [rooms EXCEPT ![t] = @ \cup {room}]
        /\ view' = IF e \in rooms'[t] THEN [view EXCEPT ![t][e] = found[h].status] ELSE view
    BY <1>3 DEF Join
  <2> HIDE DEF room
  <2>2. rooms[s] \subseteq rooms'[s]
    BY <1>1, <2>1
  <2>3. CASE e \in rooms'[t] /\ s = t /\ d = e
    BY <1>1, <2>1, <2>2, <2>3
  <2>4. CASE ~(e \in rooms'[t] /\ s = t /\ d = e)
    BY <1>1, <2>1, <2>2, <2>4
  <2> QED
    BY <2>3, <2>4
<1> QED
  BY <1>2, <1>3

LEMMA LeaveEffect ==
  ASSUME TInv, NEW h \in Handlers, Leave(h), NEW s \in Sockets, NEW d \in Devices
  PROVE  /\ view'[s][d] \in {view[s][d], None}
         /\ (d \in rooms[s] /\ d \notin rooms'[s]) => view'[s][d] = None
<1> DEFINE t == job[h].socket
           e == Room(job[h])
<1>1. t \in Sockets /\ rooms \in [Sockets -> SUBSET Rooms] /\ view \in [Sockets -> [Devices -> Statuses \cup {None}]]
  BY DEF Leave, TInv, TypeOK, Shape
<1>2. /\ rooms' = [rooms EXCEPT ![t] = @ \ {e}]
      /\ view' = IF e \in Devices THEN [view EXCEPT ![t][e] = None] ELSE view
  BY DEF Leave
<1> HIDE DEF t, e
<1>3. CASE s = t /\ d = e
  BY <1>1, <1>2, <1>3
<1>4. CASE ~(s = t /\ d = e)
  BY <1>1, <1>2, <1>4
<1> QED
  BY <1>3, <1>4

LEMMA NoViewNext == TInv /\ NoView /\ [Next]_vars => NoView'
<1> SUFFICES ASSUME TInv, NoView, [Next]_vars, NEW s \in Sockets, NEW d \in Devices, d \notin rooms'[s]
             PROVE  view'[s][d] = None
  BY DEF NoView
<1>t. rooms \in [Sockets -> SUBSET Rooms] /\ view \in [Sockets -> [Devices -> Statuses \cup {None}]]
  BY DEF TInv, TypeOK
<1>n. d \notin rooms[s] => view[s][d] = None
  BY DEF NoView
<1>1. CASE UNCHANGED <<rooms, view>>
  BY <1>1, <1>n
<1>2. ASSUME NEW r \in Sockets, Close(r) PROVE view'[s][d] = None
  BY <1>2, <1>t, <1>n DEF Close
<1>3. ASSUME NEW h \in Handlers, Notify(h) \/ Publish(h) PROVE view'[s][d] = None
  <2>1. job[h].dev \in Devices /\ job[h].status \in Statuses \cup {None}
    BY <1>3 DEF Notify, Publish, TInv, Shape, Job
  <2>2. rooms' = rooms /\ view' = Told(job[h].dev, job[h].status)
    BY <1>3 DEF Notify, Publish
  <2> QED
    BY <1>n, <2>1, <2>2, ToldEffect
<1>4. ASSUME NEW h \in Handlers, Join(h) PROVE view'[s][d] = None
  <2>1. d \notin rooms[s]
    BY <1>4, JoinEffect
  <2> QED
    BY <1>4, <1>n, <2>1, JoinEffect
<1>5. ASSUME NEW h \in Handlers, Leave(h) PROVE view'[s][d] = None
  BY <1>5, <1>n, LeaveEffect
<1>6. CASE Restart
  BY <1>6 DEF Restart
<1>7. CASE UNCHANGED vars
  BY <1>1, <1>7 DEF vars, sockets
<1> QED
  BY <1>1, <1>2, <1>3, <1>4, <1>5, <1>6, <1>7 DEF Next, Step, BrokerUp, BrokerDown, Connect, Suback,
     SubscribeError, Sweep, Open, Reading, Message, Patch, Store, Record, Load, Save, Command, Write, Reread,
     Abort, sockets

LEMMA Preserved ==
  ASSUME RInv, NEW d \in Devices, d \notin blurred, row'[d] = row[d],
         \A i \in Handlers : /\ Telling(i, d)' <=> Telling(i, d)
                             /\ Telling(i, d) => job'[i].status = job[i].status
                             /\ Joining(i, d)' => found'[i].status = row[d],
         \A s \in Sockets : view'[s][d] \in {view[s][d], None, row[d]}
  PROVE  Announced(d)'
<1>1. Announced(d)
  BY DEF RInv
<1>2. \A i \in Handlers : Telling(i, d)' => job'[i].status \in {None, row'[d]}
  BY <1>1 DEF Announced
<1>3. \A i \in Handlers : Joining(i, d)' => found'[i].status = row'[d]
  OBVIOUS
<1>4. \/ \E i \in Handlers : Telling(i, d)' /\ job'[i].status = row'[d]
      \/ \A s \in Sockets : view'[s][d] \in {None, row'[d]}
  BY <1>1 DEF Announced
<1> QED
  BY <1>2, <1>3, <1>4 DEF Announced

LEMMA Carried ==
  ASSUME RInv, NEW d \in Devices, d \notin blurred, NEW i \in Handlers
  PROVE  /\ Joining(i, d) => found[i].status = row[d]
         /\ Telling(i, d) => job[i].status \in {None, row[d]}
  BY DEF RInv, Announced, Joining

\* Handlers other than h stay as they are, and h is not on its way to a room.
LEMMA OthersStay ==
  ASSUME RInv, NEW d \in Devices, d \notin blurred, row'[d] = row[d], NEW h \in Handlers,
         \A i \in Handlers \ {h} : pc'[i] = pc[i] /\ job'[i] = job[i] /\ found'[i] = found[i],
         ~Telling(h, d), ~Telling(h, d)',
         Joining(h, d)' => found'[h].status = row[d],
         \A s \in Sockets : view'[s][d] \in {view[s][d], None, row[d]}
  PROVE  Announced(d)'
<1>1. \A i \in Handlers : /\ Telling(i, d)' <=> Telling(i, d)
                          /\ Telling(i, d) => job'[i].status = job[i].status
  BY DEF Telling
<1>2. ASSUME NEW i \in Handlers, Joining(i, d)' PROVE found'[i].status = row[d]
  <2>1. CASE i = h
    BY <1>2, <2>1
  <2>2. CASE i # h
    BY <1>2, <2>2, Carried DEF Joining
  <2> QED
    BY <2>1, <2>2
<1> QED
  BY <1>1, <1>2, Preserved

LEMMA RNext == TInv /\ NoView /\ RInv /\ [Next]_vars => RInv'
<1> SUFFICES ASSUME TInv, NoView, RInv, [Next]_vars, NEW d \in Devices, d \notin blurred'
             PROVE  Announced(d)'
  BY DEF RInv
<1>t. /\ row \in [Devices -> Statuses] /\ pc \in [Handlers -> Stages] /\ blurred \subseteq Devices
      /\ job \in [Handlers -> Job \cup {None}] /\ found \in [Handlers -> Found \cup {None}]
      /\ view \in [Sockets -> [Devices -> Statuses \cup {None}]]
  BY DEF TInv, TypeOK
<1>1. CASE UNCHANGED <<row, view, pc, job, found, blurred>>
  <2>1. \A i \in Handlers : /\ Telling(i, d)' <=> Telling(i, d)
                            /\ Telling(i, d) => job'[i].status = job[i].status
                            /\ Joining(i, d)' => found'[i].status = row[d]
    BY <1>1, Carried DEF Telling, Joining
  <2> QED
    BY <1>1, <2>1, Preserved
<1>2. ASSUME NEW e \in Devices, Sweep(e) PROVE Announced(d)'
  <2>1. d \notin blurred /\ d # e /\ row'[d] = row[d] /\ UNCHANGED <<view, pc, job, found>>
    BY <1>2, <1>t DEF Sweep, sockets, handling
  <2>2. \A i \in Handlers : /\ Telling(i, d)' <=> Telling(i, d)
                            /\ Telling(i, d) => job'[i].status = job[i].status
                            /\ Joining(i, d)' => found'[i].status = row[d]
    BY <2>1, Carried DEF Telling, Joining
  <2> QED
    BY <2>1, <2>2, Preserved
<1>3. ASSUME NEW s \in Sockets, Close(s) PROVE Announced(d)'
  <2>1. d \notin blurred /\ row'[d] = row[d]
    BY <1>3 DEF Close, stores, history
  <2>2. \A i \in Handlers : /\ pc[i] \in {"record", "notify"} <=> pc'[i] \in {"record", "notify"}
                            /\ pc[i] \in {"record", "notify"} => job'[i] = job[i]
                            /\ pc'[i] = "found" => pc[i] = "found" /\ job'[i] = job[i] /\ found'[i] = found[i]
    BY <1>3, <1>t DEF Close
  <2>3. \A i \in Handlers : /\ Telling(i, d)' <=> Telling(i, d)
                            /\ Telling(i, d) => job'[i].status = job[i].status
                            /\ Joining(i, d)' => found'[i].status = row[d]
    BY <2>1, <2>2, Carried DEF Telling, Joining
  <2>4. \A r \in Sockets : view'[r][d] \in {view[r][d], None}
    BY <1>3, <1>t DEF Close
  <2> QED
    BY <2>1, <2>3, <2>4, Preserved
<1>4. ASSUME NEW h \in Handlers, Reading(h) \/ Message(h) \/ Patch(h) PROVE Announced(d)'
  <2>1. d \notin blurred /\ row' = row /\ view' = view
    BY <1>4 DEF Reading, Message, Patch, stores, sockets, history
  <2>2. /\ \A i \in Handlers \ {h} : pc'[i] = pc[i] /\ job'[i] = job[i] /\ found'[i] = found[i]
        /\ ~Telling(h, d) /\ ~Telling(h, d)' /\ ~Joining(h, d)'
    BY <1>4, EnterEffect DEF Telling, Joining
  <2> QED
    BY <2>1, <2>2, OthersStay
<1>5. ASSUME NEW h \in Handlers, Store(h) PROVE Announced(d)'
  <2>1. PICK e \in Devices : e = job[h].dev
    BY <1>5 DEF Store, TInv, Shape, Job
  <2>2. /\ pc[h] = "store" /\ UNCHANGED <<job, found, view>>
        /\ row' = [row EXCEPT ![e] = Column(@, job[h].status)]
        /\ blurred' = IF job[h].status = None THEN blurred
                      ELSE With(blurred, e, \E i \in Handlers : Telling(i, e) \/ Joining(i, e))
    BY <1>5, <2>1 DEF Store, To, sockets
  <2>6. pc'[h] \in {"record", "notify"} /\ \A i \in Handlers \ {h} : pc'[i] = pc[i]
    BY <1>5, <1>t DEF Store, To
  <2>3. CASE d # e
    <3>1. d \notin blurred /\ row'[d] = row[d]
      BY <1>t, <2>2, <2>3 DEF With
    <3>2. /\ \A i \in Handlers \ {h} : pc'[i] = pc[i] /\ job'[i] = job[i] /\ found'[i] = found[i]
          /\ ~Telling(h, d) /\ ~Telling(h, d)' /\ ~Joining(h, d)'
      BY <2>1, <2>2, <2>3, <2>6 DEF Telling, Joining
    <3> QED
      BY <2>2, <3>1, <3>2, OthersStay
  <2>4. CASE d = e /\ job[h].status = None
    <3>1. d \notin blurred /\ row'[d] = row[d]
      BY <1>t, <2>2, <2>4 DEF Column
    <3>2. Announced(d)
      BY <3>1 DEF RInv
    <3>3. \A i \in Handlers : Telling(i, d)' => job'[i].status \in {None, row'[d]}
      BY <2>2, <2>4, <2>6, <3>1, <3>2 DEF Telling, Announced
    <3>4. \A i \in Handlers : Joining(i, d)' => found'[i].status = row'[d]
      BY <2>2, <2>6, <3>1, <3>2 DEF Joining, Announced
    <3>5. \A i \in Handlers : Telling(i, d) => Telling(i, d)'
      BY <2>2, <2>6 DEF Telling
    <3>6. \/ \E i \in Handlers : Telling(i, d)' /\ job'[i].status = row'[d]
          \/ \A s \in Sockets : view'[s][d] \in {None, row'[d]}
      BY <2>2, <3>1, <3>2, <3>5 DEF Announced
    <3> QED
      BY <3>3, <3>4, <3>6 DEF Announced
  <2>5. CASE d = e /\ job[h].status # None
    <3>1. \A i \in Handlers : ~Telling(i, d) /\ ~Joining(i, d)
      BY <2>2, <2>5 DEF With
    <3>2. row'[d] = job[h].status
      BY <1>t, <2>2, <2>5 DEF Column
    <3>3. \A i \in Handlers : Telling(i, d)' <=> i = h
      BY <2>1, <2>2, <2>5, <2>6, <3>1 DEF Telling
    <3>4. \A i \in Handlers : ~Joining(i, d)'
      BY <2>2, <2>6, <3>1 DEF Joining
    <3> QED
      BY <2>2, <3>2, <3>3, <3>4 DEF Announced
  <2> QED
    BY <2>3, <2>4, <2>5
<1>16. ASSUME NEW h \in Handlers, Record(h) PROVE Announced(d)'
  <2>1. d \notin blurred /\ row' = row /\ view' = view /\ UNCHANGED <<job, found>>
    BY <1>16 DEF Record, To, sockets, history
  <2>2. pc[h] = "record" /\ pc'[h] = "notify" /\ \A i \in Handlers \ {h} : pc'[i] = pc[i]
    BY <1>16, <1>t DEF Record, To
  <2>3. \A i \in Handlers : /\ Telling(i, d)' <=> Telling(i, d)
                            /\ Telling(i, d) => job'[i].status = job[i].status
                            /\ Joining(i, d)' => found'[i].status = row[d]
    BY <2>1, <2>2, Carried DEF Telling, Joining
  <2> QED
    BY <2>1, <2>3, Preserved
<1>6. ASSUME NEW h \in Handlers, Notify(h) PROVE Announced(d)'
  <2>1. PICK e \in Devices : e = job[h].dev /\ job[h].status \in Statuses \cup {None}
    BY <1>6 DEF Notify, TInv, Shape, Job
  <2>2. /\ d \notin blurred /\ row' = row /\ pc[h] = "notify" /\ view' = Told(e, job[h].status)
    BY <1>6, <2>1 DEF Notify, stores, history
  <2>3. /\ pc'[h] = "idle"
        /\ \A i \in Handlers \ {h} : pc'[i] = pc[i] /\ job'[i] = job[i] /\ found'[i] = found[i]
    BY <1>6, FinishEffect DEF Notify
  <2>4. CASE d # e
    <3>1. ~Telling(h, d) /\ ~Telling(h, d)' /\ ~Joining(h, d)'
      BY <2>1, <2>3, <2>4 DEF Telling, Joining
    <3>2. \A s \in Sockets : view'[s][d] = view[s][d]
      BY <2>1, <2>2, <2>4, ToldEffect
    <3> QED
      BY <2>2, <2>3, <3>1, <3>2, OthersStay
  <2>5. CASE d = e
    <3>1. Announced(d)
      BY <2>2 DEF RInv
    <3>2. job[h].status \in {None, row[d]}
      BY <2>1, <2>2, <2>5, <3>1 DEF Announced, Telling
    <3>3. \A i \in Handlers : Telling(i, d)' => job'[i].status \in {None, row'[d]}
      BY <2>2, <2>3, <3>1 DEF Announced, Telling
    <3>4. \A i \in Handlers : Joining(i, d)' => found'[i].status = row'[d]
      BY <2>2, <2>3, <3>1 DEF Announced, Joining
    <3>5. CASE job[h].status = None
      <4>1. \A s \in Sockets : view'[s][d] = view[s][d]
        BY <2>1, <2>2, <3>5, ToldEffect
      <4>2. row[d] # None
        BY <1>t, ConstantsAssumption DEF Statuses
      <4>3. \/ \E i \in Handlers : Telling(i, d)' /\ job'[i].status = row'[d]
            \/ \A s \in Sockets : view'[s][d] \in {None, row'[d]}
        BY <2>2, <2>3, <3>1, <3>5, <4>1, <4>2 DEF Announced, Telling
      <4> QED
        BY <3>3, <3>4, <4>3 DEF Announced
    <3>6. CASE job[h].status # None
      <4>1. ASSUME NEW s \in Sockets PROVE view'[s][d] \in {None, row'[d]}
        <5>1. CASE d \in rooms[s]
          BY <2>1, <2>2, <2>5, <3>2, <3>6, <5>1, ToldEffect
        <5>2. CASE d \notin rooms[s]
          BY <2>1, <2>2, <5>2, ToldEffect DEF NoView
        <5> QED
          BY <5>1, <5>2
      <4> QED
        BY <3>3, <3>4, <4>1 DEF Announced
    <3> QED
      BY <3>5, <3>6
  <2> QED
    BY <2>4, <2>5
<1>7. ASSUME NEW h \in Handlers, Load(h) PROVE Announced(d)'
  <2>1. /\ d \notin blurred /\ row' = row /\ view' = view /\ pc[h] = "guard" /\ job' = job
        /\ pc' = [pc EXCEPT ![h] = "found"]
    BY <1>7 DEF Load, stores, sockets, history
  <2>2. /\ \A i \in Handlers \ {h} : pc'[i] = pc[i] /\ job'[i] = job[i] /\ found'[i] = found[i]
        /\ pc'[h] = "found"
    BY <1>7, <1>t, <2>1, StepEffect DEF Step
  <2>3. ASSUME Joining(h, d)' PROVE found'[h].status = row[d]
    <3>1. Lookup(job[h]) \subseteq Devices
      BY <1>7 DEF Load, Lookup, TInv, Shape, Job
    <3>2. PICK e \in Devices : found' = [found EXCEPT ![h] = [dev |-> e, status |-> row[e]]]
      BY <1>7, <2>1, <2>3, <3>1 DEF Load, Joining
    <3>3. found'[h] = [dev |-> e, status |-> row[e]]
      BY <1>t, <3>2
    <3> QED
      BY <2>3, <3>3 DEF Joining
  <2>4. ~Telling(h, d) /\ ~Telling(h, d)'
    BY <2>1, <2>2 DEF Telling
  <2> QED
    BY <2>1, <2>2, <2>3, <2>4, OthersStay
<1>8. ASSUME NEW h \in Handlers, Join(h) \/ Leave(h) PROVE Announced(d)'
  <2>1. d \notin blurred /\ row' = row /\ pc[h] = "found"
    BY <1>8 DEF Join, Leave, stores, history
  <2>2. /\ pc'[h] = "idle"
        /\ \A i \in Handlers \ {h} : pc'[i] = pc[i] /\ job'[i] = job[i] /\ found'[i] = found[i]
    BY <1>8, FinishEffect DEF Join, Leave
  <2>3. ~Telling(h, d) /\ ~Telling(h, d)' /\ ~Joining(h, d)'
    BY <2>1, <2>2 DEF Telling, Joining
  <2>4. ASSUME NEW s \in Sockets PROVE view'[s][d] \in {view[s][d], None, row[d]}
    <3>1. CASE Leave(h)
      BY <3>1, LeaveEffect
    <3>2. CASE Join(h)
      <4>1. job[h].kind = "join"
        BY <3>2 DEF Join
      <4>2. found[h].dev = d => found[h].status = row[d]
        BY <2>1, <4>1, Carried DEF Joining
      <4> QED
        BY <3>2, <4>2, JoinEffect
    <3> QED
      BY <1>8, <3>1, <3>2
  <2> QED
    BY <2>1, <2>2, <2>3, <2>4, OthersStay
<1>9. ASSUME NEW h \in Handlers, Command(h) \/ Write(h) \/ Reread(h) PROVE Announced(d)'
  <2>1. d \notin blurred /\ row' = row /\ view' = view /\ pc[h] \in {"found", "write", "reread"}
    BY <1>9 DEF Command, Write, Reread, stores, sockets, history
  <2>2. pc'[h] \in {"write", "reread", "publish"}
    BY <1>9, <1>t DEF Command, Write, Reread, To
  <2>3. \A i \in Handlers \ {h} : pc'[i] = pc[i] /\ job'[i] = job[i] /\ found'[i] = found[i]
    BY <1>9, StepEffect DEF Step
  <2>4. ~Telling(h, d) /\ ~Telling(h, d)' /\ ~Joining(h, d)'
    BY <2>1, <2>2 DEF Telling, Joining
  <2> QED
    BY <2>1, <2>3, <2>4, OthersStay
<1>17. ASSUME NEW h \in Handlers, Save(h) PROVE Announced(d)'
  <2>1. /\ view' = view /\ pc[h] = "found" /\ row' = [row EXCEPT ![found[h].dev] = found[h].status]
        /\ blurred' = IF found[h].status = row[found[h].dev] THEN blurred
                      ELSE blurred \cup {found[h].dev}
    BY <1>17 DEF Save, sockets
  <2>2. d \notin blurred /\ row'[d] = row[d]
    BY <1>t, <2>1
  <2>3. /\ pc'[h] = "idle"
        /\ \A i \in Handlers \ {h} : pc'[i] = pc[i] /\ job'[i] = job[i] /\ found'[i] = found[i]
    BY <1>17, FinishEffect DEF Save
  <2>4. ~Telling(h, d) /\ ~Telling(h, d)' /\ ~Joining(h, d)'
    BY <2>1, <2>3 DEF Telling, Joining
  <2> QED
    BY <2>1, <2>2, <2>3, <2>4, OthersStay
<1>10. ASSUME NEW h \in Handlers, Publish(h) PROVE Announced(d)'
  <2>1. PICK e \in Devices : e = job[h].dev /\ job[h].status \in Statuses \cup {None}
    BY <1>10 DEF Publish, TInv, Shape, Job
  <2>2. /\ d \notin blurred /\ (d = e => job[h].status = row[d])
        /\ row' = row /\ pc[h] = "publish" /\ view' = Told(e, job[h].status)
    BY <1>10, <2>1 DEF Publish, stores
  <2>3. /\ pc'[h] = "idle"
        /\ \A i \in Handlers \ {h} : pc'[i] = pc[i] /\ job'[i] = job[i] /\ found'[i] = found[i]
    BY <1>10, FinishEffect DEF Publish
  <2>4. ~Telling(h, d) /\ ~Telling(h, d)' /\ ~Joining(h, d)'
    BY <2>2, <2>3 DEF Telling, Joining
  <2>5. \A s \in Sockets : view'[s][d] \in {view[s][d], row[d]}
    BY <2>1, <2>2, ToldEffect
  <2> QED
    BY <2>2, <2>3, <2>4, <2>5, OthersStay
<1>11. ASSUME NEW h \in Handlers, Abort(h) PROVE Announced(d)'
  <2>1. /\ d \notin blurred /\ row' = row /\ view' = view
        /\ ~Telling(h, d)
    BY <1>11 DEF Abort, stores, sockets
  <2>2. /\ pc'[h] = "idle"
        /\ \A i \in Handlers \ {h} : pc'[i] = pc[i] /\ job'[i] = job[i] /\ found'[i] = found[i]
    BY <1>11, FinishEffect DEF Abort
  <2>3. ~Telling(h, d) /\ ~Telling(h, d)' /\ ~Joining(h, d)'
    BY <2>1, <2>2 DEF Telling, Joining
  <2> QED
    BY <2>1, <2>2, <2>3, OthersStay
<1>12. CASE Restart
  BY <1>12 DEF Restart, Announced, Telling, Joining
<1>13. CASE UNCHANGED vars
  BY <1>1, <1>13 DEF vars, stores, sockets, handling, history
<1>14. CASE BrokerUp \/ BrokerDown \/ Connect \/ Suback \/ SubscribeError
  BY <1>1, <1>14 DEF BrokerUp, BrokerDown, Connect, Suback, SubscribeError, stores, sockets, handling, history
<1>15. ASSUME NEW s \in Sockets, Open(s) PROVE Announced(d)'
  BY <1>1, <1>15 DEF Open, stores, handling, history
<1> QED
  BY <1>2, <1>3, <1>4, <1>5, <1>6, <1>7, <1>8, <1>9, <1>10, <1>11, <1>12, <1>13, <1>14, <1>15, <1>16,
     <1>17 DEF Next, Step

\* A client in the room of a device sees the stored status, if it was sent one,
\* when no announcement is under way and the device is not blurred: for any
\* number of devices, sockets and messages.
THEOREM RoomsFollowRows == Spec => []RoomShowsRow
<1>1. Init => NoView /\ RInv
  BY DEF Init, NoView, RInv, Announced, Telling, Joining
<1>2. RInv => RoomShowsRow
  BY DEF RInv, Announced, Telling, RoomShowsRow
<1> QED
  BY TInit, TNext, NoViewNext, RNext, <1>1, <1>2, PTL DEF Spec

=============================================================================
