--------------------------- MODULE DevicesProofs ---------------------------
(***************************************************************************)
(* Proofs about Devices, for any number of devices, channels, values,      *)
(* handlers and sweeps: types, Coherence, NothingWithoutRow,               *)
(* CreateIsComplete and AnnouncesStored.                                   *)
(***************************************************************************)
EXTENDS Devices, TLAPS

-----------------------------------------------------------------------------
(* Type correctness *)

\* What the types alone leave out: which locals are filled in at which stage.
ShapeOf(p) ==
  /\ Working(p) => job[p] \in Job
  /\ pc[p] \in {"findChannels", "fill"} => loc[p].got \in Entry
  /\ pc[p] = "set" => loc[p].rounds \in {1, 2}
  /\ pc[p] \in {"template", "seed"} => job[p].dto.template \in Templates
  /\ pc[p] = "save" => loc[p].found \in Row /\ row[job[p].dev] \in Row
  /\ \A d \in todo[p] : row[d] \in Row

Shape == \A p \in Procs : ShapeOf(p)

TInv == TypeOK /\ Shape

\* The channel maps the model builds are channel maps.
LEMMA ChannelMaps ==
  /\ NoChannels \in ChannelMap
  /\ \A m, n \in ChannelMap : Over(m, n) \in ChannelMap
  /\ \A m \in ChannelMap : \A S : Only(m, S) \in ChannelMap
  /\ \A m \in Writes : m \in ChannelMap
  /\ \A t : Defaults(t) \in ChannelMap
  BY ConstantsAssumption DEF ChannelMap, NoChannels, Over, Only, Defaults

LEMMA LocalsType == NoLocals \in Locals
  BY ChannelMaps DEF NoLocals, Locals

LEMMA LocalsUpdate ==
  ASSUME NEW l \in Locals
  PROVE  /\ \A v \in Info \cup {None} : [l EXCEPT !.held = v] \in Locals
         /\ \A v \in Entry \cup {None} : [l EXCEPT !.got = v] \in Locals
         /\ \A v \in ChannelMap : [l EXCEPT !.upd = v] \in Locals
         /\ \A v \in 0..2 : [l EXCEPT !.rounds = v] \in Locals
         /\ \A v \in Row \cup {None} : [l EXCEPT !.found = v] \in Locals
         /\ \A v \in SUBSET Channels : [l EXCEPT !.left = v] \in Locals
  BY DEF Locals

\* Changing one local leaves the others.
LEMMA LocalsFields ==
  ASSUME NEW l \in Locals, NEW v
  PROVE  /\ [l EXCEPT !.got = v].got = v
         /\ [l EXCEPT !.got = v].rounds = l.rounds
         /\ [l EXCEPT !.got = v].upd = l.upd
         /\ [l EXCEPT !.found = v].found = v
         /\ [l EXCEPT !.found = v].rounds = l.rounds
         /\ [l EXCEPT !.found = v].got = l.got
         /\ [l EXCEPT !.left = v].rounds = l.rounds
         /\ [l EXCEPT !.left = v].got = l.got
         /\ [l EXCEPT !.left = v].found = l.found
  BY DEF Locals

LEMMA JobType ==
  ASSUME NEW kind \in Kinds \cup {"mqtt"}, NEW d \in Devices
  PROVE  /\ NewJob(kind, d) \in Job
         /\ \A w \in Writes : \A r \in Reports \cup {None} :
              [NewJob(kind, d) EXCEPT !.write = w, !.report = r] \in Job
         /\ \A w \in Writes : [NewJob(kind, d) EXCEPT !.write = w] \in Job
         /\ \A u \in Users \cup {Admin} : \A dto \in Dto :
              [NewJob(kind, d) EXCEPT !.by = u, !.dto = dto] \in Job
         /\ \A dto \in Dto : [NewJob(kind, d) EXCEPT !.dto = dto] \in Job
         /\ [NewJob(kind, d) EXCEPT !.report = "offline"] \in Job
<1>1. NoDto \in Dto
  BY DEF NoDto, Dto
<1>2. NewJob(kind, d) \in Job
  BY <1>1 DEF NewJob, Job
<1>3. \A j \in Job :
        /\ \A w \in Writes : [j EXCEPT !.write = w] \in Job
        /\ \A r \in Reports \cup {None, "offline"} : [j EXCEPT !.report = r] \in Job
        /\ \A u \in Users \cup {Admin} : [j EXCEPT !.by = u] \in Job
        /\ \A dto \in Dto : [j EXCEPT !.dto = dto] \in Job
  BY DEF Job
<1> QED
  BY <1>2, <1>3

LEMMA RowType == \A u \in Users : \A t \in Templates : NewRow(u, t) \in Row
  BY DEF NewRow, Row, Statuses

\* A step of p that keeps the rows keeps the shape of the others.
LEMMA ShapeFrame ==
  ASSUME TInv, NEW p \in Procs,
         \A q \in Procs \ {p} : /\ pc'[q] = pc[q] /\ job'[q] = job[q]
                               /\ loc'[q] = loc[q] /\ todo'[q] = todo[q],
         \A d \in Devices : row[d] \in Row => row'[d] \in Row,
         ShapeOf(p)'
  PROVE  Shape'
<1> SUFFICES ASSUME NEW q \in Procs \ {p} PROVE ShapeOf(q)'
  BY DEF Shape
<1>1. ShapeOf(q) /\ (Working(q) => job[q].dev \in Devices) /\ todo[q] \subseteq Devices
  BY DEF TInv, TypeOK, Shape, ShapeOf, Job
<1>2. pc[q] = "save" => Working(q)
  BY DEF Working
<1> QED
  BY <1>1, <1>2 DEF ShapeOf, Working

\* Leaving a handler, whether it returns or throws, keeps the types.
LEMMA LeaveType ==
  ASSUME TInv, NEW p \in Procs, Finish(p) \/ Throw(p),
         \A d \in Devices : row[d] \in Row => row'[d] \in Row
  PROVE  /\ pc' \in [Procs -> Stages] /\ job' \in [Procs -> Job \cup {None}]
         /\ loc' \in [Procs -> Locals] /\ todo' \in [Procs -> SUBSET Devices]
         /\ Shape'
<1>1. /\ pc' \in [Procs -> Stages] /\ job' \in [Procs -> Job \cup {None}]
      /\ loc' \in [Procs -> Locals] /\ todo' \in [Procs -> SUBSET Devices]
  BY LocalsType DEF TInv, TypeOK, Finish, Throw, Stages
<1>2. /\ \A q \in Procs \ {p} : /\ pc'[q] = pc[q] /\ job'[q] = job[q]
                               /\ loc'[q] = loc[q] /\ todo'[q] = todo[q]
      /\ pc'[p] \in {"idle", "sweep"} /\ todo'[p] \subseteq todo[p]
  BY DEF TInv, TypeOK, Finish, Throw
<1>3. \A q \in Procs : Working(q) => job[q].dev \in Devices
  BY DEF TInv, Shape, ShapeOf, Job
<1> QED
  BY <1>1, <1>2, <1>3 DEF TInv, TypeOK, Shape, ShapeOf, Working

LEMMA EnterType ==
  ASSUME TInv, NEW p \in Procs, NEW j \in Job, NEW stage \in {"touch", "get"},
         Enter(p, j, stage), ~Working(p),
         UNCHANGED <<stores, linked, loc>>, sent' = {},
         \/ UNCHANGED todo
         \/ \E d \in Devices : todo' = [todo EXCEPT ![p] = @ \ {d}]
  PROVE  TInv'
<1>1. TypeOK'
  BY DEF TInv, TypeOK, Enter, stores, Stages, Collides, Busy, WorksOn, Packet
<1>2. /\ \A q \in Procs \ {p} : pc'[q] = pc[q] /\ job'[q] = job[q]
      /\ pc'[p] = stage /\ job'[p] = j
      /\ \A q \in Procs : todo'[q] \subseteq todo[q]
  BY DEF TInv, TypeOK, Enter
<1> QED
  BY <1>1, <1>2 DEF TInv, TypeOK, Shape, ShapeOf, Working, stores

\* What getDeviceDataFromCache returns takes its caller to a typed state.
LEMMA DeliverType ==
  ASSUME TInv, NEW p \in Procs, NEW v \in Entry \cup {None}, Working(p),
         Deliver(p, v), UNCHANGED row
  PROVE  /\ pc' \in [Procs -> Stages] /\ job' \in [Procs -> Job \cup {None}]
         /\ loc' \in [Procs -> Locals] /\ todo' \in [Procs -> SUBSET Devices]
         /\ Shape'
<1>1. CASE Finish(p) \/ Throw(p)
  BY <1>1, LeaveType
<1>2. CASE /\ \E stage \in {"find", "write", "get", "set"} : pc' = [pc EXCEPT ![p] = stage]
           /\ loc' \in [Procs -> Locals]
           /\ \A q \in Procs \ {p} : loc'[q] = loc[q]
           /\ pc'[p] = "set" => loc'[p].rounds \in {1, 2}
           /\ UNCHANGED <<job, todo>>
  <2>1. pc' \in [Procs -> Stages]
    BY <1>2 DEF TInv, TypeOK, Stages
  <2>2. pc'[p] \in {"find", "write", "get", "set"} /\ \A q \in Procs \ {p} : pc'[q] = pc[q]
    BY <1>2 DEF TInv, TypeOK
  <2>3. ShapeOf(p)'
    BY <1>2, <2>2 DEF TInv, Shape, ShapeOf, Working
  <2> QED
    BY <1>2, <2>1, <2>2, <2>3, ShapeFrame DEF TInv, TypeOK
<1>3. CASE Serves(job[p], v) /\ job[p].kind \in {"patch", "delete"}
           /\ pc' = [pc EXCEPT ![p] = "find"]
           /\ loc' = [loc EXCEPT ![p].got = None] /\ UNCHANGED <<job, todo>>
  <2>1. loc' \in [Procs -> Locals]
    BY <1>3 DEF TInv, TypeOK, Locals
  <2> QED BY <2>1, <1>2, <1>3 DEF TInv, TypeOK
<1>4. CASE Serves(job[p], v)
           /\ pc' = [pc EXCEPT ![p] = "write"]
           /\ loc' = [loc EXCEPT ![p].got = None, ![p].held = v.info]
           /\ UNCHANGED <<job, todo>>
  <2>1. v.info \in Info \cup {None}
    BY <1>4 DEF Serves, Entry
  <2>2. [loc[p] EXCEPT !.got = None, !.held = v.info] \in Locals
    BY <2>1 DEF TInv, TypeOK, Locals
  <2>3. loc' = [loc EXCEPT ![p] = [loc[p] EXCEPT !.got = None, !.held = v.info]]
    BY <1>4 DEF TInv, TypeOK
  <2>4. loc' \in [Procs -> Locals]
    BY <2>2, <2>3 DEF TInv, TypeOK
  <2> QED BY <2>3, <2>4, <1>2, <1>4 DEF TInv, TypeOK
<1>5. CASE Serves(job[p], v)
           /\ pc' = [pc EXCEPT ![p] = "get"]
           /\ loc' = [loc EXCEPT ![p].got = None, ![p].held = v.info,
                                 ![p].upd = v.channels, ![p].rounds = 1]
           /\ UNCHANGED <<job, todo>>
  <2>1. v.info \in Info \cup {None} /\ v.channels \in ChannelMap
    BY <1>5 DEF Serves, Entry
  <2> DEFINE new == [loc[p] EXCEPT !.got = None, !.held = v.info,
                                   !.upd = v.channels, !.rounds = 1]
  <2>2. new \in Locals
    <3>1. loc[p] \in Locals
      BY DEF TInv, TypeOK
    <3>2. [loc[p] EXCEPT !.got = None] \in Locals
      BY <3>1, LocalsUpdate
    <3>3. [loc[p] EXCEPT !.got = None, !.held = v.info] \in Locals
      BY <2>1, <3>2, LocalsUpdate
    <3>4. [loc[p] EXCEPT !.got = None, !.held = v.info, !.upd = v.channels] \in Locals
      BY <2>1, <3>3, LocalsUpdate
    <3> QED
      BY <3>4, 1 \in 0..2, LocalsUpdate, Zenon
  <2>3. loc' = [loc EXCEPT ![p] = new]
    BY <1>5 DEF TInv, TypeOK
  <2>4. loc' \in [Procs -> Locals]
    BY <2>2, <2>3 DEF TInv, TypeOK
  <2> QED BY <2>3, <2>4, <1>2, <1>5 DEF TInv, TypeOK
<1>6. CASE loc[p].rounds > 0
           /\ pc' = [pc EXCEPT ![p] = "set"]
           /\ loc' = [loc EXCEPT ![p].got = v] /\ UNCHANGED <<job, todo>>
  <2>1. loc' \in [Procs -> Locals]
    BY <1>6 DEF TInv, TypeOK, Locals
  <2>2. loc'[p].rounds \in {1, 2}
    BY <1>6 DEF TInv, TypeOK, Locals
  <2> QED BY <2>1, <2>2, <1>2, <1>6 DEF TInv, TypeOK
<1> QED
  BY <1>1, <1>3, <1>4, <1>5, <1>6 DEF Deliver, Proceed

LEMMA MergeType ==
  \A e \in Entry \cup {None} : \A m \in ChannelMap : MergeInto(e, m) \in Entry
  BY ChannelMaps DEF MergeInto, Entry

LEMMA TypeInit == Init => TInv
<1> SUFFICES ASSUME Init PROVE TInv
  OBVIOUS
<1>1. row \in [Devices -> Row \cup {None}]
  BY RowType DEF Init
<1>2. chan \in [Devices -> ChannelMap]
  BY ChannelMaps DEF Init
<1> QED
  BY <1>1, <1>2, LocalsType DEF Init, TInv, TypeOK, Shape, ShapeOf, Working, Stages, Packet

\* Every step keeps the types: one step of the proof per action.
LEMMA TypeStep == TInv /\ [Next]_vars => TInv'
<1> SUFFICES ASSUME TInv, [Next]_vars PROVE TInv'
  OBVIOUS
<1> USE DEF TInv
<1>1. ASSUME NEW h \in Handlers, Arrive(h) PROVE TInv'
  <2>0. h \in Procs
    BY DEF Procs
  <2>1. ASSUME NEW d \in Devices, NEW w \in Writes, NEW r \in Reports, Message(h, d, w, r)
        PROVE  TInv'
    BY <2>0, <2>1, JobType, EnterType DEF Message, Working
  <2>2. ASSUME NEW d \in Devices, NEW w \in Writes, Press(h, d, w) PROVE TInv'
    <3>1. [NewJob("socket", d) EXCEPT !.write = w] \in Job
      BY <2>2, JobType DEF Press
    <3> QED
      BY <2>0, <2>2, <3>1, EnterType DEF Press, Working
  <2>3. ASSUME NEW d \in Devices, NEW kind \in Kinds, NEW u \in Users \cup {Admin},
               NEW dto \in Dto, Request(h, d, kind, u, dto)
        PROVE  TInv'
    BY <2>0, <2>3, JobType, EnterType DEF Request, Working
  <2>4. ASSUME NEW d \in Devices, NEW u \in Users, NEW t \in Templates, Create(h, d, u, t)
        PROVE  TInv'
    <3>1. NewRow(u, t) \in Row
      BY RowType
    <3>2. [NewJob("create", d) EXCEPT !.dto = [owner |-> u, template |-> t]] \in Job
      <4>1. [owner |-> u, template |-> t] \in Dto
        BY DEF Dto
      <4> QED BY <2>4, <4>1, JobType DEF Create
    <3>3. TypeOK'
      BY <2>0, <2>4, <3>1, <3>2 DEF Create, TypeOK, Stages, Packet, Busy, WorksOn
    <3>4. \A q \in Procs : q # h => pc'[q] = pc[q] /\ job'[q] = job[q]
      BY <2>0, <2>4 DEF Create, TypeOK
    <3>5. /\ pc'[h] = "template" /\ job'[h] \in Job /\ UNCHANGED <<loc, todo>>
          /\ job'[h].dto.template = t
      BY <2>0, <2>4, <3>2 DEF Create, TypeOK, NewJob
    <3>6. \A e \in Devices : row[e] \in Row => row'[e] \in Row
      BY <2>4, <3>1 DEF Create, TypeOK
    <3>7. \A q \in Procs : Working(q) => job[q].dev \in Devices
      BY DEF Shape, ShapeOf, Job
    <3>8. ShapeOf(h)'
      BY <2>0, <3>5, <3>6, <3>7 DEF Shape, ShapeOf, TypeOK
    <3> QED
      BY <2>0, <3>3, <3>4, <3>5, <3>6, <3>8, ShapeFrame
  <2> QED
    BY <1>1, <2>1, <2>2, <2>3, <2>4 DEF Arrive
<1>2. ASSUME NEW p \in Procs, Step(p) PROVE TInv'
  <2>1. CASE Touch(p)
    <3>1. Working(p) /\ job[p].dev \in Devices
      BY <2>1 DEF Touch, Working, Shape, ShapeOf, Job
    <3>2. row' \in [Devices -> Row \cup {None}]
          /\ \A d \in Devices : row[d] \in Row => row'[d] \in Row
      <4>1. StatusOf(job[p].report) # None => StatusOf(job[p].report) \in Statuses
        BY DEF StatusOf, Statuses
      <4>2. CASE ~Exists(job[p].dev)
        BY <2>1, <4>2 DEF Touch, TypeOK
      <4>3. CASE Exists(job[p].dev)
        <5> DEFINE r == row[job[p].dev]
                   t == StatusOf(job[p].report)
                   new == [r EXCEPT !.recent = TRUE, !.status = IF t = None THEN @ ELSE t]
        <5>1. r \in Row
          BY <3>1, <4>3 DEF Exists, TypeOK
        <5>2. new \in Row
          BY <4>1, <5>1 DEF Row
        <5>3. row' = [row EXCEPT ![job[p].dev] = new]
          BY <2>1, <4>3 DEF Touch, TypeOK
        <5> QED
          BY <3>1, <5>2, <5>3 DEF TypeOK
      <4> QED
        BY <4>2, <4>3
    <3>3. TypeOK'
      BY <2>1, <3>2 DEF Touch, TypeOK, Stages, Packet
    <3>4. ShapeOf(p)'
      BY <2>1, <3>1, <3>2 DEF Touch, TypeOK, Shape, ShapeOf, Working
    <3> QED
      BY <2>1, <3>2, <3>3, <3>4, ShapeFrame DEF Touch, TypeOK
  <2>2. CASE CacheHit(p)
    <3>1. Working(p) /\ job[p] \in Job /\ cache[job[p].dev] \in Entry
      BY <2>2 DEF CacheHit, Working, Shape, ShapeOf, TypeOK, Job
    <3> QED
      BY <2>2, <3>1, DeliverType DEF CacheHit, TypeOK, stores, Packet
  <2>3. CASE CacheMiss(p)
    BY <2>3 DEF CacheMiss, TypeOK, Shape, ShapeOf, Working, Stages, Packet, stores
  <2>4. CASE FindRow(p)
    <3> DEFINE d == job[p].dev
    <3>1. Working(p) /\ d \in Devices
      BY <2>4 DEF FindRow, Working, Shape, ShapeOf, Job
    <3>2. CASE Deliver(p, None)
      BY <2>4, <3>1, <3>2, DeliverType DEF FindRow, TypeOK, stores, Packet
    <3>3. CASE /\ Live(d)
               /\ pc' = [pc EXCEPT ![p] = "findChannels"]
               /\ loc' = [loc EXCEPT ![p].got = [info |-> InfoOf(row[d]), channels |-> NoChannels]]
               /\ UNCHANGED <<job, todo>>
      <4> DEFINE e == [info |-> InfoOf(row[d]), channels |-> NoChannels]
      <4>1. e \in Entry
        <5>1. InfoOf(row[d]) \in Info
          BY <3>1, <3>3 DEF Live, TypeOK, Row, Info, InfoOf
        <5> QED
          BY <5>1, ChannelMaps DEF Entry
      <4> HIDE DEF e
      <4>2. [loc[p] EXCEPT !.got = e] \in Locals /\ [loc[p] EXCEPT !.got = e].got = e
        <5>1. loc[p] \in Locals
          BY DEF TypeOK
        <5> QED
          BY <4>1, <5>1, LocalsUpdate, LocalsFields
      <4>3. loc' = [loc EXCEPT ![p] = [loc[p] EXCEPT !.got = e]]
        BY <3>3 DEF TypeOK, e
      <4> QED
        BY <2>4, <3>3, <4>1, <4>2, <4>3 DEF FindRow, TypeOK, Shape, ShapeOf, Working, Stages, Packet, stores
    <3> QED
      BY <2>4, <3>2, <3>3 DEF FindRow
  <2>5. CASE FindChannels(p)
    <3> DEFINE e == [loc[p].got EXCEPT !.channels = chan[job[p].dev]]
    <3>1. job[p].dev \in Devices /\ loc[p].got \in Entry
      BY <2>5 DEF FindChannels, Working, Shape, ShapeOf, Job
    <3>2. e \in Entry
      BY <3>1 DEF Entry, TypeOK
    <3>4. loc' = [loc EXCEPT ![p] = [loc[p] EXCEPT !.got = e]]
      BY <2>5 DEF FindChannels, TypeOK
    <3> HIDE DEF e
    <3>3. [loc[p] EXCEPT !.got = e] \in Locals /\ [loc[p] EXCEPT !.got = e].got = e
      <4>1. loc[p] \in Locals
        BY DEF TypeOK
      <4> QED
        BY <3>2, <4>1, LocalsUpdate, LocalsFields
    <3> QED
      BY <2>5, <3>2, <3>3, <3>4 DEF FindChannels, TypeOK, Shape, ShapeOf, Working, Stages, Packet, stores
  <2>6. CASE Fill(p)
    <3>1. Working(p) /\ job[p].dev \in Devices /\ loc[p].got \in Entry
      BY <2>6 DEF Fill, Working, Shape, ShapeOf, Job
    <3>2. cache' \in [Devices -> Entry \cup {None}]
      BY <2>6, <3>1 DEF Fill, TypeOK
    <3> QED
      BY <2>6, <3>1, <3>2, DeliverType DEF Fill, TypeOK, Packet
  <2>7. CASE BulkWrite(p)
    <3>1. job[p] \in Job
      BY <2>7 DEF BulkWrite, Working, Shape, ShapeOf
    <3>2. job[p].dev \in Devices /\ job[p].write \in ChannelMap
      BY <3>1, ChannelMaps DEF Job
    <3>3. CASE Throw(p) /\ UNCHANGED chan
      BY <2>7, <3>3, LeaveType DEF BulkWrite, TypeOK, Packet
    <3>4. CASE /\ chan' = [chan EXCEPT ![job[p].dev] = Over(job[p].write, @)]
               /\ pc' = [pc EXCEPT ![p] = "reread"]
               /\ UNCHANGED <<job, loc, todo>>
      <4>1. chan' \in [Devices -> ChannelMap]
        BY <3>2, <3>4, ChannelMaps DEF TypeOK
      <4> QED
        BY <2>7, <3>4, <4>1 DEF BulkWrite, TypeOK, Shape, ShapeOf, Working, Stages, Packet
    <3> QED
      BY <2>7, <3>3, <3>4 DEF BulkWrite
  <2>8. CASE Reread(p)
    <3> DEFINE m == Only(chan[job[p].dev], Named(job[p].write))
               n == IF job[p].kind = "mqtt" THEN 2 ELSE 1
    <3>1. m \in ChannelMap /\ n \in 0..2
      BY <2>8, ChannelMaps DEF Reread, Working, Shape, ShapeOf, Job, TypeOK
    <3>2. loc' = [loc EXCEPT ![p] = [loc[p] EXCEPT !.upd = m, !.rounds = n]]
      BY <2>8 DEF Reread, TypeOK
    <3> HIDE DEF m, n
    <3>3. [loc[p] EXCEPT !.upd = m] \in Locals
      BY <3>1, LocalsUpdate DEF TypeOK
    <3>4. [loc[p] EXCEPT !.upd = m, !.rounds = n] \in Locals
      BY <3>1, <3>3, LocalsUpdate, Zenon
    <3>5. loc' \in [Procs -> Locals] /\ \A q \in Procs \ {p} : loc'[q] = loc[q]
      BY <3>2, <3>4 DEF TypeOK
    <3>6. pc' = [pc EXCEPT ![p] = "get"] /\ pc[p] = "reread" /\ sent' = {}
          /\ UNCHANGED <<stores, linked, job, todo, dirty>>
      BY <2>8 DEF Reread
    <3> QED
      BY <3>5, <3>6 DEF TypeOK, Shape, ShapeOf, Working, Stages, Packet, stores
  <2>9. CASE SetCache(p)
    <3>1. job[p].dev \in Devices /\ loc[p] \in Locals
      BY <2>9 DEF SetCache, Working, Shape, ShapeOf, Job, TypeOK
    <3>2. cache' \in [Devices -> Entry \cup {None}]
      BY <2>9, <3>1, MergeType DEF SetCache, TypeOK, Locals
    <3>3. CASE /\ loc[p].rounds > 1
               /\ pc' = [pc EXCEPT ![p] = "get"]
               /\ loc' = [loc EXCEPT ![p].got = None, ![p].rounds = @ - 1]
      <4>1. loc[p].rounds - 1 \in 0..2
        BY <3>1, <3>3 DEF Locals
      <4>2. loc' = [loc EXCEPT ![p] = [loc[p] EXCEPT !.got = None, !.rounds = loc[p].rounds - 1]]
        BY <3>3 DEF TypeOK
      <4>3. [loc[p] EXCEPT !.got = None] \in Locals
        BY <3>1, LocalsUpdate
      <4>4. [loc[p] EXCEPT !.got = None, !.rounds = loc[p].rounds - 1] \in Locals
        BY <4>1, <4>3, LocalsUpdate, Zenon
      <4> QED
        BY <2>9, <3>2, <3>3, <4>2, <4>4 DEF SetCache, TypeOK, Shape, ShapeOf, Working, Stages, Packet
    <3>4. CASE pc' = [pc EXCEPT ![p] = "emit"] /\ UNCHANGED loc
      BY <2>9, <3>2, <3>4 DEF SetCache, TypeOK, Shape, ShapeOf, Working, Stages, Packet
    <3> QED
      BY <2>9, <3>3, <3>4 DEF SetCache
  <2>10. CASE Emit(p)
    <3> DEFINE j == job[p]
               m == MergeInto(loc[p].got, loc[p].upd)
               id == IF loc[p].held = None THEN None ELSE j.dev
               status == IF j.kind = "mqtt" THEN StatusOf(j.report)
                         ELSE IF loc[p].held = None THEN None ELSE loc[p].held.status
    <3>1. sent' \subseteq Packet
      <4>1. j \in Job /\ loc[p].got \in Entry \cup {None} /\ loc[p].upd \in ChannelMap
            /\ loc[p].held \in Info \cup {None}
        BY <2>10 DEF Emit, Working, Shape, ShapeOf, TypeOK, Locals
      <4>2. j.dev \in Devices /\ id \in Devices \cup {None} /\ m.channels \in ChannelMap
        BY <4>1, MergeType DEF Job, Entry
      <4>3. status \in Statuses \cup {None}
        BY <4>1 DEF StatusOf, Statuses, Info
      <4>4. [to |-> "room", dev |-> j.dev, id |-> id, status |-> status,
             channels |-> m.channels] \in Packet
        BY <4>2, <4>3 DEF Packet
      <4>5. [to |-> "topic", dev |-> j.dev, id |-> None, status |-> None,
             channels |-> loc[p].upd] \in Packet
        BY <4>1, <4>2 DEF Packet
      <4> QED
        BY <2>10, <4>4, <4>5 DEF Emit
    <3> QED
      BY <2>10, <3>1, LeaveType DEF Emit, TypeOK, stores
  <2>11. CASE FindOne(p)
    <3> DEFINE d == job[p].dev
    <3>1. d \in Devices
      BY <2>11 DEF FindOne, Working, Shape, ShapeOf, Job
    <3>2. CASE Throw(p)
      BY <2>11, <3>2, LeaveType DEF FindOne, TypeOK, stores, Packet
    <3>3. CASE /\ Live(d) /\ pc' = [pc EXCEPT ![p] = "save"]
               /\ loc' = [loc EXCEPT ![p].found = row[d]] /\ UNCHANGED <<job, todo>>
      <4>1. row[d] \in Row
        BY <3>1, <3>3 DEF Live, TypeOK
      <4>2. loc' \in [Procs -> Locals] /\ loc'[p].found = row[d]
            /\ \A q \in Procs \ {p} : loc'[q] = loc[q]
            /\ loc'[p].rounds = loc[p].rounds /\ loc'[p].got = loc[p].got
        <5> DEFINE f == row[d]
        <5>1. loc' = [loc EXCEPT ![p] = [loc[p] EXCEPT !.found = f]] /\ f \in Row
          BY <3>3, <4>1 DEF TypeOK
        <5> HIDE DEF f
        <5>2. [loc[p] EXCEPT !.found = f] \in Locals /\ [loc[p] EXCEPT !.found = f].found = f
              /\ [loc[p] EXCEPT !.found = f].rounds = loc[p].rounds
              /\ [loc[p] EXCEPT !.found = f].got = loc[p].got
          <6>1. loc[p] \in Locals
            BY DEF TypeOK
          <6> QED
            BY <5>1, <6>1, LocalsUpdate, LocalsFields
        <5>3. f = row[d]
          BY DEF f
        <5> QED
          BY <5>1, <5>2, <5>3 DEF TypeOK
      <4> QED
        BY <2>11, <3>3, <4>1, <4>2 DEF FindOne, TypeOK, Shape, ShapeOf, Working, Stages, Packet, stores
    <3> QED
      BY <2>11, <3>2, <3>3 DEF FindOne
  <2>12. CASE Save(p)
    <3>1. job[p] \in Job /\ loc[p].found \in Row /\ row[job[p].dev] \in Row
      BY <2>12 DEF Save, Working, Shape, ShapeOf
    <3>2. job[p].dev \in Devices /\ job[p].dto \in Dto
      BY <3>1 DEF Job
    <3>3. Patched(loc[p].found, job[p].dto, row[job[p].dev]) \in Row
      BY <3>1, <3>2 DEF Patched, Row, Dto
    <3>4. row' \in [Devices -> Row \cup {None}]
          /\ \A d \in Devices : row[d] \in Row => row'[d] \in Row
      BY <2>12, <3>2, <3>3 DEF Save, TypeOK
    <3> QED
      BY <2>12, <3>4, LeaveType DEF Save, TypeOK, Packet
  <2>13. CASE SoftRemove(p)
    <3>1. job[p].dev \in Devices /\ row[job[p].dev] \in Row
      BY <2>13 DEF SoftRemove, Working, Shape, ShapeOf, Job
    <3>2. row' \in [Devices -> Row \cup {None}]
          /\ \A d \in Devices : row[d] \in Row => row'[d] \in Row
      BY <2>13, <3>1 DEF SoftRemove, TypeOK, Row
    <3> QED
      BY <2>13, <3>2, LeaveType DEF SoftRemove, TypeOK, Packet
  <2>14. CASE FindTemplate(p)
    <3> DEFINE names == Declares[job[p].dto.template]
    <3>1. CASE Finish(p)
      BY <2>14, <3>1, LeaveType DEF FindTemplate, TypeOK, stores, Packet
    <3>2. CASE /\ pc' = [pc EXCEPT ![p] = "seed"]
               /\ loc' = [loc EXCEPT ![p].left = names] /\ UNCHANGED <<job, todo>>
      <4>1. names \subseteq Channels
        BY <2>14, ConstantsAssumption DEF FindTemplate, Shape, ShapeOf
      <4>2. loc' \in [Procs -> Locals] /\ \A q \in Procs \ {p} : loc'[q] = loc[q]
        BY <3>2, <4>1, LocalsUpdate DEF TypeOK
      <4> QED
        BY <2>14, <3>2, <4>2 DEF FindTemplate, TypeOK, Shape, ShapeOf, Working, Stages, Packet, stores
    <3> QED
      BY <2>14, <3>1, <3>2 DEF FindTemplate
  <2>15. ASSUME NEW c \in Channels, SeedChannel(p, c) PROVE TInv'
    <3> DEFINE d == job[p].dev
    <3>1. d \in Devices
      BY <2>15 DEF SeedChannel, Working, Shape, ShapeOf, Job
    <3>2. chan' \in [Devices -> ChannelMap]
      <4>1. CASE UNCHANGED chan
        BY <4>1 DEF TypeOK
      <4>2. CASE chan' = [chan EXCEPT ![d][c] = Default]
        <5>1. [chan[d] EXCEPT ![c] = Default] \in ChannelMap
          BY <3>1, ConstantsAssumption DEF TypeOK, ChannelMap
        <5>2. chan' = [chan EXCEPT ![d] = [chan[d] EXCEPT ![c] = Default]]
          BY <4>2 DEF TypeOK
        <5> QED
          BY <3>1, <5>1, <5>2 DEF TypeOK
      <4> QED
        BY <2>15, <4>1, <4>2 DEF SeedChannel
    <3>3. CASE Finish(p) \/ Throw(p)
      BY <2>15, <3>2, <3>3, LeaveType DEF SeedChannel, TypeOK, Packet
    <3>4. CASE loc' = [loc EXCEPT ![p].left = @ \ {c}] /\ UNCHANGED <<pc, job, todo>>
      <4>1. loc[p].left \ {c} \in SUBSET Channels
        BY DEF TypeOK, Locals
      <4>2. /\ loc' \in [Procs -> Locals]
            /\ \A q \in Procs : /\ loc'[q].got = loc[q].got /\ loc'[q].found = loc[q].found
                              /\ loc'[q].rounds = loc[q].rounds
        <5> DEFINE f == loc[p].left \ {c}
        <5>1. loc' = [loc EXCEPT ![p] = [loc[p] EXCEPT !.left = f]]
          BY <3>4 DEF TypeOK
        <5> HIDE DEF f
        <5>2. [loc[p] EXCEPT !.left = f] \in Locals
          BY <4>1, LocalsUpdate DEF TypeOK, f
        <5> QED
          BY <5>1, <5>2, LocalsFields DEF TypeOK
      <4> QED
        BY <2>15, <3>2, <3>4, <4>2 DEF SeedChannel, TypeOK, Shape, ShapeOf, Working, Packet
    <3> QED
      BY <2>15, <3>3, <3>4 DEF SeedChannel
  <2> QED
    BY <1>2, <2>1, <2>2, <2>3, <2>4, <2>5, <2>6, <2>7, <2>8, <2>9, <2>10, <2>11,
       <2>12, <2>13, <2>14, <2>15 DEF Step
<1>3. ASSUME NEW s \in Sweeps, SweepFind(s) PROVE TInv'
  <2>1. \A d \in Devices : Silent(d) => row[d] \in Row
    BY DEF Silent, Live, TypeOK
  <2> QED
    BY <1>3, <2>1 DEF SweepFind, TypeOK, Shape, ShapeOf, Working, Stages, Packet, Procs, stores
<1>4. ASSUME NEW s \in Sweeps, SweepMark(s) PROVE TInv'
  <2>0. s \in Procs
    BY DEF Procs
  <2>1. \A r \in Row : [r EXCEPT !.status = "offline"] \in Row
    BY DEF Row, Statuses
  <2>2. row' \in [Devices -> Row \cup {None}]
        /\ \A d \in Devices : row[d] \in Row => row'[d] \in Row
    BY <1>4, <2>0, <2>1 DEF SweepMark, TypeOK, Shape, ShapeOf
  <2> QED
    BY <1>4, <2>0, <2>2 DEF SweepMark, TypeOK, Shape, ShapeOf, Working, Stages, Packet, Job
<1>5. ASSUME NEW s \in Sweeps, NEW d \in Devices, SweepNext(s, d) PROVE TInv'
  <2>1. s \in Procs /\ ~Working(s)
    BY <1>5 DEF Procs, SweepNext, Working
  <2>2. [NewJob("mqtt", d) EXCEPT !.report = "offline"] \in Job
    BY JobType
  <2> QED
    BY <1>5, <2>1, <2>2, EnterType DEF SweepNext
<1>6. ASSUME NEW p \in Procs, NEW S \in SUBSET Channels, Abort(p, S) PROVE TInv'
  <2>1. chan' \in [Devices -> ChannelMap]
    <3>1. CASE UNCHANGED chan
      BY <3>1 DEF TypeOK
    <3>2. CASE pc[p] = "write" /\ chan' = [chan EXCEPT ![job[p].dev] = Over(Only(job[p].write, S), @)]
      <4>1. job[p].dev \in Devices /\ job[p].write \in ChannelMap
        BY <3>2, ChannelMaps DEF Shape, ShapeOf, Working, Job
      <4> QED
        BY <3>2, <4>1, ChannelMaps DEF TypeOK
    <3> QED
      BY <1>6, <3>1, <3>2 DEF Abort
  <2>2. dirty' \in [Devices -> BOOLEAN]
    BY <1>6 DEF Abort, TypeOK
  <2> QED
    BY <1>6, <2>1, <2>2, LeaveType DEF Abort, TypeOK, Packet
<1>7. ASSUME NEW d \in Devices, Expire(d) \/ Age(d) PROVE TInv'
  <2>1. CASE Expire(d)
    BY <2>1 DEF Expire, TypeOK, Shape, ShapeOf, Working, Packet
  <2>2. CASE Age(d)
    <3>1. row' \in [Devices -> Row \cup {None}]
          /\ \A e \in Devices : row[e] \in Row => row'[e] \in Row
      <4>1. row[d] \in Row
        BY <2>2 DEF Age, Exists, TypeOK
      <4>2. [row[d] EXCEPT !.recent = FALSE] \in Row
        BY <4>1 DEF Row
      <4> QED
        BY <2>2, <4>1, <4>2 DEF Age, TypeOK
    <3> QED
      BY <2>2, <3>1 DEF Age, TypeOK, Shape, ShapeOf, Working, Packet, Job
  <2> QED
    BY <1>7, <2>1, <2>2
<1>8. CASE Relink
  BY <1>8 DEF Relink, TypeOK, Shape, ShapeOf, Working, stores, Packet
<1>9. CASE UNCHANGED vars
  BY <1>9 DEF vars, TypeOK, Shape, ShapeOf, Working
<1> QED
  BY <1>1, <1>2, <1>3, <1>4, <1>5, <1>6, <1>7, <1>8, <1>9 DEF Next

\* Every reachable state is typed: what the four kinds of handler, the CRUD
\* routes and the sweep leave in the stores and in their locals.
THEOREM TypeCorrect == Spec => []TypeOK
<1>1. Init => TInv
  BY TypeInit
<1>2. TInv /\ [Next]_vars => TInv'
  BY TypeStep
<1>3. TInv => TypeOK
  BY DEF TInv
<1> QED
  BY <1>1, <1>2, <1>3, PTL DEF Spec

-----------------------------------------------------------------------------
(* Coherence *)

Good(e, d, W) ==
  e = None \/ \A c \in Channels \ W : \/ e.channels[c] = chan[d][c]
                                      \/ (e.info = None /\ e.channels[c] = None)

\* The channels that a writer has stored and not yet put in the cache.
Pending(p) ==
  IF pc[p] = "reread" THEN Named(job[p].write)
  ELSE IF pc[p] # "emit" /\ loc[p].rounds > 0 THEN Named(loc[p].upd) ELSE {}

\* Who is where: an idle process has no refresh to make, one that writes
\* channels has channels to write, and a POST does nothing but create.
ControlOf(p) ==
  /\ ~Working(p) => loc[p].rounds = 0
  /\ pc[p] \in {"write", "reread"} => ChangesChannels(job[p])
  /\ Working(p) => (job[p].kind = "create" <=> pc[p] \in {"template", "seed"})
  /\ pc[p] \in {"touch", "find", "save", "write", "reread", "template", "seed"} =>
       loc[p].rounds = 0

Control == \A p \in Procs : ControlOf(p)

\* The writer of an undisturbed device is alone on it.
Alone(d) ==
  \A p, q \in Procs :
    WorksOn(p, d) /\ WorksOn(q, d) /\ ChangesChannels(job[p]) => p = q

\* What handler p knows and has done agrees with the store.
InStep(p, d) ==
  /\ job[p].kind = "create" => cache[d] = None
  /\ ChangesChannels(job[p]) => Good(cache[d], d, Pending(p))
  /\ pc[p] = "reread" => \A c \in Named(job[p].write) : chan[d][c] # None
  /\ loc[p].rounds > 0 => \A c \in Channels : loc[p].upd[c] \in {None, chan[d][c]}
  /\ pc[p] = "fill" => Good(loc[p].got, d, {})
  /\ pc[p] \in {"set", "emit"} => Good(loc[p].got, d, Named(loc[p].upd))

Undisturbed(d) ==
  /\ Alone(d)
  /\ Settled(d) => Good(cache[d], d, {})
  /\ \A p \in Procs : WorksOn(p, d) => InStep(p, d)

IInv ==
  /\ TInv
  /\ Control
  /\ \A d \in Devices : ~dirty[d] => Undisturbed(d)

\* The kind, the device and the channels of a request are those it came with.
LEMMA JobKind ==
  ASSUME NEW kind, NEW d
  PROVE  /\ NewJob(kind, d).kind = kind
         /\ \A w, r : LET j == [NewJob(kind, d) EXCEPT !.write = w, !.report = r] IN
                       j.kind = kind /\ j.dev = d /\ j.write = w
         /\ \A w : LET j == [NewJob(kind, d) EXCEPT !.write = w] IN
                    j.kind = kind /\ j.dev = d /\ j.write = w
         /\ \A u, dto : LET j == [NewJob(kind, d) EXCEPT !.by = u, !.dto = dto] IN
                         j.kind = kind /\ j.dev = d /\ j.write = NoChannels
         /\ \A dto : LET j == [NewJob(kind, d) EXCEPT !.dto = dto] IN
                      j.kind = kind /\ j.dev = d
         /\ LET j == [NewJob(kind, d) EXCEPT !.report = "offline"] IN
              j.kind = kind /\ j.dev = d /\ j.write = NoChannels
  BY DEF NewJob

\* Leaving a handler resets its control state.
LEMMA LeaveControl ==
  ASSUME TInv, Control, NEW p \in Procs, Finish(p) \/ Throw(p)
  PROVE  Control'
<1>1. /\ \A q \in Procs \ {p} : pc'[q] = pc[q] /\ job'[q] = job[q] /\ loc'[q] = loc[q]
      /\ pc'[p] \in {"idle", "sweep"} /\ loc'[p] = NoLocals
  BY DEF TInv, TypeOK, Finish, Throw
<1> QED
  BY <1>1 DEF Control, ControlOf, Working, NoLocals, ChangesChannels

\* So does moving on, for a process that obeys the rules afterwards.
LEMMA ControlFrame ==
  ASSUME Control, NEW p \in Procs, ControlOf(p)',
         \A q \in Procs \ {p} : pc'[q] = pc[q] /\ job'[q] = job[q] /\ loc'[q] = loc[q]
  PROVE  Control'
<1> SUFFICES ASSUME NEW q \in Procs \ {p} PROVE ControlOf(q)'
  BY DEF Control
<1> QED
  BY DEF Control, ControlOf, Working, ChangesChannels

LEMMA DeliverControl ==
  ASSUME TInv, Control, NEW p \in Procs, NEW v, Working(p),
         pc[p] \in {"get", "findRow", "fill"}, Deliver(p, v)
  PROVE  Control'
<1>1. job[p].kind # "create"
  BY DEF Control, ControlOf
<1>2. CASE Finish(p) \/ Throw(p)
  BY <1>2, LeaveControl
<1>3. CASE /\ loc[p].rounds = 0 /\ UNCHANGED job
           /\ \/ pc' = [pc EXCEPT ![p] = "find"] /\ loc' = [loc EXCEPT ![p].got = None]
              \/ /\ pc' = [pc EXCEPT ![p] = "write"] /\ job[p].write # NoChannels
                 /\ loc' = [loc EXCEPT ![p].got = None, ![p].held = v.info]
  <2>1. loc'[p].rounds = 0 /\ \A q \in Procs \ {p} : loc'[q] = loc[q]
    BY <1>3 DEF TInv, TypeOK, Locals
  <2> QED
    BY <1>1, <1>3, <2>1, ControlFrame DEF ControlOf, Working, ChangesChannels, TInv, TypeOK
<1>4. CASE /\ UNCHANGED job
           /\ \/ /\ pc' = [pc EXCEPT ![p] = "get"]
                 /\ loc' = [loc EXCEPT ![p].got = None, ![p].held = v.info,
                                       ![p].upd = v.channels, ![p].rounds = 1]
              \/ pc' = [pc EXCEPT ![p] = "set"] /\ loc' = [loc EXCEPT ![p].got = v]
  <2>1. \A q \in Procs \ {p} : loc'[q] = loc[q]
    BY <1>4 DEF TInv, TypeOK
  <2> QED
    BY <1>1, <1>4, <2>1, ControlFrame DEF ControlOf, Working, TInv, TypeOK
<1> QED
  BY <1>2, <1>3, <1>4 DEF Deliver, Proceed

LEMMA ControlStep == TInv /\ Control /\ [Next]_vars => Control'
<1> SUFFICES ASSUME TInv, Control, [Next]_vars PROVE Control'
  OBVIOUS
<1>1. ASSUME NEW h \in Handlers, Arrive(h) PROVE Control'
  <2>1. /\ h \in Procs /\ loc[h].rounds = 0 /\ UNCHANGED loc
        /\ \A q \in Procs \ {h} : pc'[q] = pc[q] /\ job'[q] = job[q]
        /\ \/ pc'[h] \in {"touch", "get"} /\ job'[h].kind # "create"
           \/ pc'[h] = "template" /\ job'[h].kind = "create"
    <3>1. h \in Procs /\ ~Working(h) /\ loc[h].rounds = 0
      BY <1>1 DEF Arrive, Message, Press, Request, Create, Procs, Control, ControlOf, Working
    <3>2. PICK d \in Devices :
            \/ \E w \in Writes, r \in Reports : Message(h, d, w, r)
            \/ \E w \in Writes : Press(h, d, w)
            \/ \E kind \in Kinds, u \in Users \cup {Admin}, dto \in Dto : Request(h, d, kind, u, dto)
            \/ \E u \in Users, t \in Templates : Create(h, d, u, t)
      BY <1>1 DEF Arrive
    <3>3. CASE \E w \in Writes, r \in Reports : Message(h, d, w, r)
      BY <3>1, <3>3, JobKind DEF Message, Enter, TInv, TypeOK
    <3>4. CASE \E w \in Writes : Press(h, d, w)
      BY <3>1, <3>4, JobKind DEF Press, Enter, TInv, TypeOK
    <3>5. CASE \E kind \in Kinds, u \in Users \cup {Admin}, dto \in Dto : Request(h, d, kind, u, dto)
      BY <3>1, <3>5, JobKind DEF Request, Enter, TInv, TypeOK
    <3>6. CASE \E u \in Users, t \in Templates : Create(h, d, u, t)
      BY <3>1, <3>6, JobKind DEF Create, TInv, TypeOK
    <3> QED
      BY <3>2, <3>3, <3>4, <3>5, <3>6
  <2> QED
    BY <2>1, ControlFrame DEF ControlOf, Working
<1>2. ASSUME NEW p \in Procs, Step(p) PROVE Control'
  <2>1. CASE CacheHit(p) \/ Fill(p) \/ (FindRow(p) /\ Deliver(p, None))
    BY <2>1, DeliverControl DEF CacheHit, Fill, FindRow, Working
  <2>2. CASE Finish(p) \/ Throw(p)
    BY <2>2, LeaveControl
  <2>3. CASE /\ UNCHANGED job /\ UNCHANGED loc
             /\ \/ pc[p] = "touch" /\ pc' = [pc EXCEPT ![p] = "get"]
                \/ pc[p] = "get" /\ pc' = [pc EXCEPT ![p] = "findRow"]
                \/ pc[p] = "write" /\ pc' = [pc EXCEPT ![p] = "reread"]
                \/ pc[p] = "set" /\ pc' = [pc EXCEPT ![p] = "emit"]
    BY <2>3, ControlFrame DEF Control, ControlOf, Working, TInv, TypeOK
  <2>4. CASE FindRow(p) /\ pc' = [pc EXCEPT ![p] = "findChannels"]
    <3>1. \A q \in Procs \ {p} : pc'[q] = pc[q] /\ job'[q] = job[q] /\ loc'[q] = loc[q]
      BY <2>4 DEF FindRow, TInv, TypeOK, Deliver, Proceed, Finish, Throw
    <3>2. job'[p] = job[p] /\ pc'[p] = "findChannels" /\ job[p].kind # "create"
      BY <2>4 DEF FindRow, TInv, TypeOK, Control, ControlOf, Working, Deliver, Proceed, Finish, Throw
    <3> QED
      BY <3>1, <3>2, ControlFrame DEF ControlOf, Working
  <2>5. CASE FindChannels(p) \/ Reread(p)
    <3>1. \A q \in Procs \ {p} : pc'[q] = pc[q] /\ job'[q] = job[q] /\ loc'[q] = loc[q]
      BY <2>5 DEF FindChannels, Reread, TInv, TypeOK
    <3>2. job'[p] = job[p] /\ pc'[p] \in {"fill", "get"} /\ job[p].kind # "create"
      BY <2>5 DEF FindChannels, Reread, TInv, TypeOK, Control, ControlOf, Working
    <3> QED
      BY <3>1, <3>2, ControlFrame DEF ControlOf, Working
  <2>6. CASE SetCache(p) /\ pc' = [pc EXCEPT ![p] = "get"]
    BY <2>6, ControlFrame DEF SetCache, Control, ControlOf, Working, TInv, TypeOK
  <2>7. CASE /\ UNCHANGED job /\ ControlOf(p)
             /\ \/ pc[p] = "find" /\ pc' = [pc EXCEPT ![p] = "save"]
                \/ pc[p] = "template" /\ pc' = [pc EXCEPT ![p] = "seed"]
                \/ pc[p] = "seed" /\ UNCHANGED pc
             /\ \/ \E f : loc' = [loc EXCEPT ![p].found = f]
                \/ \E S : loc' = [loc EXCEPT ![p].left = S]
    <3>1. loc[p] \in Locals
      BY DEF TInv, TypeOK
    <3>2. loc'[p].rounds = loc[p].rounds /\ \A q \in Procs \ {p} : loc'[q] = loc[q]
      <4>1. CASE \E f : loc' = [loc EXCEPT ![p].found = f]
        <5>1. PICK f : loc' = [loc EXCEPT ![p] = [loc[p] EXCEPT !.found = f]]
          BY <4>1 DEF TInv, TypeOK
        <5> QED
          BY <5>1, <3>1, LocalsFields DEF TInv, TypeOK
      <4>2. CASE \E S : loc' = [loc EXCEPT ![p].left = S]
        <5>1. PICK S : loc' = [loc EXCEPT ![p] = [loc[p] EXCEPT !.left = S]]
          BY <4>2 DEF TInv, TypeOK
        <5> QED
          BY <5>1, <3>1, LocalsFields DEF TInv, TypeOK
      <4> QED
        BY <2>7, <4>1, <4>2
    <3> QED
      BY <2>7, <3>2, ControlFrame DEF ControlOf, Working, TInv, TypeOK
  <2>8. ControlOf(p)
    BY DEF Control
  <2> QED
    BY <1>2, <2>1, <2>2, <2>3, <2>4, <2>5, <2>6, <2>7, <2>8
    DEF Step, Touch, CacheMiss, FindRow, BulkWrite, SetCache, Emit, FindOne, Save,
        SoftRemove, FindTemplate, SeedChannel
<1>3. ASSUME NEW s \in Sweeps, SweepFind(s) \/ SweepMark(s) PROVE Control'
  BY <1>3, ControlFrame DEF SweepFind, SweepMark, Control, ControlOf, Working, Procs, TInv, TypeOK
<1>4. ASSUME NEW s \in Sweeps, NEW d \in Devices, SweepNext(s, d) PROVE Control'
  <2>1. /\ s \in Procs /\ loc[s].rounds = 0 /\ UNCHANGED loc
        /\ \A q \in Procs \ {s} : pc'[q] = pc[q] /\ job'[q] = job[q]
        /\ pc'[s] = "touch" /\ job'[s].kind = "mqtt"
    BY <1>4 DEF SweepNext, Enter, NewJob, Procs, Control, ControlOf, Working, TInv, TypeOK
  <2> QED
    BY <2>1, ControlFrame DEF ControlOf, Working
<1>5. ASSUME NEW p \in Procs, NEW S \in SUBSET Channels, Abort(p, S) PROVE Control'
  BY <1>5, LeaveControl DEF Abort
<1>6. ASSUME NEW d \in Devices, Expire(d) \/ Age(d) PROVE Control'
  BY <1>6 DEF Expire, Age, Control, ControlOf, Working
<1>7. CASE Relink \/ UNCHANGED vars
  BY <1>7 DEF Relink, vars, Control, ControlOf, Working
<1> QED
  BY <1>1, <1>2, <1>3, <1>4, <1>5, <1>6, <1>7 DEF Next

\* Nothing happens on device d but, perhaps, that its cache entry goes.
LEMMA Still ==
  ASSUME NEW d, Undisturbed(d), UNCHANGED <<pc, job, loc>>,
         chan'[d] = chan[d], cache'[d] = cache[d] \/ cache'[d] = None
  PROVE  Undisturbed(d)'
<1>1. \A p \in Procs : WorksOn(p, d)' <=> WorksOn(p, d)
  BY DEF WorksOn, Working
<1>2. Alone(d)'
  BY <1>1 DEF Undisturbed, Alone, ChangesChannels
<1>3. Settled(d)' => Good(cache[d], d, {})'
  BY <1>1 DEF Undisturbed, Settled, Good, ChangesChannels
<1>4. ASSUME NEW p \in Procs, WorksOn(p, d)' PROVE InStep(p, d)'
  BY <1>1, <1>4 DEF Undisturbed, InStep, Good, Pending, ChangesChannels
<1> QED
  BY <1>2, <1>3, <1>4 DEF Undisturbed

\* Only p moves: it is off the device, or it stays on its request, leaves what
\* it knows in step, and the other handlers of the device only read channels.
LEMMA Moves ==
  ASSUME NEW d, Undisturbed(d), NEW p \in Procs,
         \A q \in Procs \ {p} : pc'[q] = pc[q] /\ job'[q] = job[q] /\ loc'[q] = loc[q],
         WorksOn(p, d)' => WorksOn(p, d) /\ job'[p] = job[p] /\ InStep(p, d)',
         chan'[d] = chan[d] \/ (WorksOn(p, d) /\ ChangesChannels(job[p])),
         cache'[d] = cache[d] \/ WorksOn(p, d),
         Settled(d)' => Good(cache[d], d, {})'
  PROVE  Undisturbed(d)'
<1>1. \A q \in Procs \ {p} : WorksOn(q, d)' <=> WorksOn(q, d)
  BY DEF WorksOn, Working
<1>2. Alone(d)'
  <2> SUFFICES ASSUME NEW q \in Procs, NEW r \in Procs,
                      WorksOn(q, d)', WorksOn(r, d)', ChangesChannels(job[q])'
               PROVE  q = r
    BY DEF Alone
  <2>1. WorksOn(q, d) /\ WorksOn(r, d) /\ job'[q] = job[q]
    BY <1>1
  <2> QED
    BY <2>1 DEF Undisturbed, Alone, ChangesChannels
<1>3. ASSUME NEW q \in Procs \ {p}, WorksOn(q, d)' PROVE InStep(q, d)'
  <2>1. WorksOn(q, d) /\ InStep(q, d)
    BY <1>1, <1>3 DEF Undisturbed
  <2>2. ~(WorksOn(p, d) /\ ChangesChannels(job[p])) /\ chan'[d] = chan[d]
    BY <2>1 DEF Undisturbed, Alone
  <2>3. ChangesChannels(job[q]) => cache'[d] = cache[d]
    BY <2>1 DEF Undisturbed, Alone
  <2>4. pc'[q] = pc[q] /\ job'[q] = job[q] /\ loc'[q] = loc[q]
    BY <1>3
  <2>5. (Pending(q) = Pending(q)') /\ (ChangesChannels(job[q]) <=> ChangesChannels(job[q])')
    BY <2>4 DEF Pending, ChangesChannels
  <2>6. \A e, W : Good(e, d, W) => (e = None \/ \A c \in Channels \ W :
                     e.channels[c] = chan'[d][c] \/ (e.info = None /\ e.channels[c] = None))
    BY <2>2 DEF Good
  <2>7. job'[q].kind = "create" => cache'[d] = None
    BY <2>1, <2>3, <2>4 DEF InStep, ChangesChannels
  <2>8. ChangesChannels(job[q])' => Good(cache[d], d, Pending(q))'
    BY <2>1, <2>2, <2>3, <2>5 DEF InStep, Good
  <2>9. /\ (pc[q] = "reread" => \A c \in Named(job[q].write) : chan[d][c] # None)'
        /\ (loc[q].rounds > 0 => \A c \in Channels : loc[q].upd[c] \in {None, chan[d][c]})'
        /\ (pc[q] = "fill" => Good(loc[q].got, d, {}))'
        /\ (pc[q] \in {"set", "emit"} => Good(loc[q].got, d, Named(loc[q].upd)))'
    BY <2>1, <2>2, <2>4 DEF InStep, Good, Named
  <2> QED
    BY <2>7, <2>8, <2>9 DEF InStep
<1> QED
  BY <1>2, <1>3 DEF Undisturbed

\* What a handler finds in the cache lacks at most the channels it has itself
\* still to put there.
LEMMA Known ==
  ASSUME NEW d, Undisturbed(d), NEW p \in Procs, WorksOn(p, d)
  PROVE  Good(cache[d], d, Pending(p))
<1>1. CASE ChangesChannels(job[p])
  BY <1>1 DEF Undisturbed, InStep
<1>2. CASE ~ChangesChannels(job[p])
  <2>1. Settled(d)
    BY <1>2 DEF Undisturbed, Alone, Settled
  <2> QED
    BY <2>1 DEF Undisturbed, Good
<1> QED
  BY <1>1, <1>2

\* A step of a handler that stays: the writer's device is not settled, and the
\* others keep the entry good.
LEMMA Stays ==
  ASSUME NEW d, Undisturbed(d), NEW p \in Procs, WorksOn(p, d), WorksOn(p, d)', job'[p] = job[p],
         \A q \in Procs \ {p} : pc'[q] = pc[q] /\ job'[q] = job[q] /\ loc'[q] = loc[q],
         InStep(p, d)',
         \/ ChangesChannels(job[p])
         \/ chan'[d] = chan[d] /\ (cache'[d] = cache[d] \/ Good(cache[d], d, {})')
  PROVE  Undisturbed(d)'
<1>1. Settled(d)' => ~ChangesChannels(job[p])
  BY DEF Settled, ChangesChannels
<1>2. Settled(d)' => Settled(d)
  <2> SUFFICES ASSUME Settled(d)', NEW q \in Procs, WorksOn(q, d) PROVE ~ChangesChannels(job[q])
    BY DEF Settled
  <2>1. WorksOn(q, d)' /\ job'[q] = job[q]
    BY DEF WorksOn, Working
  <2> QED
    BY <2>1 DEF Settled, ChangesChannels
<1>3. Settled(d)' => Good(cache[d], d, {})'
  BY <1>1, <1>2 DEF Undisturbed, Good
<1> QED
  BY <1>3, Moves

\* A handler leaves a good entry behind.
LEMMA Leaves ==
  ASSUME TInv, NEW d, Undisturbed(d), NEW p \in Procs, WorksOn(p, d), Finish(p) \/ Throw(p),
         Good(cache[d], d, {})', chan'[d] = chan[d] \/ ChangesChannels(job[p])
  PROVE  Undisturbed(d)'
<1>1. \A q \in Procs \ {p} : pc'[q] = pc[q] /\ job'[q] = job[q] /\ loc'[q] = loc[q]
  BY DEF TInv, TypeOK, Finish, Throw
<1>2. ~WorksOn(p, d)'
  BY DEF TInv, TypeOK, Finish, Throw, WorksOn, Working
<1> QED
  BY <1>1, <1>2, Moves

\* Whatever handler gets it, what getDeviceDataFromCache returns leaves its
\* device undisturbed.
LEMMA DeliverCoherent ==
  ASSUME TInv, Control, NEW d, Undisturbed(d), NEW p \in Procs, WorksOn(p, d),
         pc[p] \in {"get", "findRow", "fill"}, NEW v \in Entry \cup {None}, Deliver(p, v),
         Good(v, d, Pending(p)), chan' = chan,
         cache'[d] = cache[d] \/ (cache'[d] = v /\ Good(v, d, {}))
  PROVE  Undisturbed(d)'
<1>1. /\ job[p].kind # "create" /\ loc[p] \in Locals
      /\ \A q \in Procs \ {p} : pc'[q] = pc[q] /\ job'[q] = job[q] /\ loc'[q] = loc[q]
  BY DEF Control, ControlOf, WorksOn, TInv, TypeOK, Deliver, Proceed, Finish, Throw
<1>2. Good(cache'[d], d, Pending(p))
  BY Known
<1>3. \A e, W : Good(e, d, W)' <=> Good(e, d, W)
  BY DEF Good
<1>4. CASE Finish(p) \/ Throw(p)
  <2>1. loc[p].rounds = 0
    BY <1>4 DEF Deliver, Finish, Throw, TInv, TypeOK
  <2>2. Pending(p) = {}
    BY <2>1 DEF Pending
  <2> QED
    BY <1>2, <1>3, <1>4, <2>2, Leaves
<1>5. CASE /\ loc[p].rounds = 0 /\ UNCHANGED job
           /\ \E stage \in {"find", "write"} : pc' = [pc EXCEPT ![p] = stage]
           /\ loc'[p].rounds = 0
  <2>1. pc'[p] \in {"find", "write"} /\ job'[p] = job[p] /\ WorksOn(p, d)'
    BY <1>5 DEF TInv, TypeOK, WorksOn, Working
  <2>2. Pending(p) = {} /\ Pending(p)' = {}
    BY <1>5, <2>1 DEF Pending
  <2>3. InStep(p, d)'
    BY <1>1, <1>2, <1>3, <1>5, <2>1, <2>2 DEF InStep
  <2> QED
    BY <1>1, <1>2, <1>3, <2>1, <2>2, <2>3, Stays
<1>6. CASE /\ Serves(job[p], v) /\ UNCHANGED job /\ ~ChangesChannels(job[p])
           /\ loc[p].rounds = 0 /\ pc' = [pc EXCEPT ![p] = "get"]
           /\ loc'[p].rounds = 1 /\ loc'[p].upd = v.channels
  <2>1. pc'[p] = "get" /\ job'[p] = job[p] /\ WorksOn(p, d)'
    BY <1>6 DEF TInv, TypeOK, WorksOn, Working
  <2>2. Pending(p) = {} /\ ~ChangesChannels(job[p])'
    BY <1>6, <2>1 DEF Pending, ChangesChannels
  <2>3. \A c \in Channels : v.channels[c] \in {None, chan'[d][c]}
    BY <1>6, <2>2 DEF Good, Serves
  <2>4. InStep(p, d)'
    BY <1>1, <1>6, <2>1, <2>2, <2>3 DEF InStep
  <2> QED
    BY <1>1, <1>2, <1>3, <2>1, <2>2, <2>4, Stays
<1>7. CASE /\ loc[p].rounds > 0 /\ UNCHANGED job
           /\ pc' = [pc EXCEPT ![p] = "set"]
           /\ loc' = [loc EXCEPT ![p].got = v]
  <2>1. pc'[p] = "set" /\ job'[p] = job[p] /\ WorksOn(p, d)'
    BY <1>7 DEF TInv, TypeOK, WorksOn, Working
  <2>2. loc'[p].got = v /\ loc'[p].rounds = loc[p].rounds /\ loc'[p].upd = loc[p].upd
    BY <1>1, <1>7, LocalsFields DEF TInv, TypeOK
  <2>3. Pending(p) = Named(loc[p].upd) /\ Pending(p)' = Named(loc'[p].upd)
    BY <1>7, <2>1, <2>2 DEF Pending
  <2>4. InStep(p, d)'
    BY <1>1, <1>2, <1>3, <1>7, <2>1, <2>2, <2>3 DEF InStep, Undisturbed
  <2>5. Good(cache[d], d, {})' \/ cache'[d] = cache[d]
    BY DEF Good
  <2> QED
    BY <1>1, <2>1, <2>4, <2>5, Stays
<1>8. ASSUME NEW i, NEW u
      PROVE  /\ [loc[p] EXCEPT !.got = None, !.held = i].rounds = loc[p].rounds
             /\ LET l == [loc[p] EXCEPT !.got = None, !.held = i, !.upd = u, !.rounds = 1] IN
                  l.rounds = 1 /\ l.upd = u
  BY <1>1 DEF Locals
<1>9. CASE loc[p].rounds = 0 /\ Proceed(p, v)
  <2>1. CASE /\ pc' = [pc EXCEPT ![p] = "find"]
             /\ loc' = [loc EXCEPT ![p].got = None] /\ UNCHANGED <<job, todo>>
    <3>1. loc' = [loc EXCEPT ![p] = [loc[p] EXCEPT !.got = None]]
      BY <2>1 DEF TInv, TypeOK
    <3>2. loc'[p].rounds = 0
      BY <1>1, <1>9, <3>1, LocalsFields DEF TInv, TypeOK
    <3> QED
      BY <1>5, <1>9, <2>1, <3>2
  <2>2. CASE /\ pc' = [pc EXCEPT ![p] = "write"]
             /\ loc' = [loc EXCEPT ![p].got = None, ![p].held = v.info]
             /\ UNCHANGED <<job, todo>>
    <3>1. loc' = [loc EXCEPT ![p] = [loc[p] EXCEPT !.got = None, !.held = v.info]]
      BY <2>2 DEF TInv, TypeOK
    <3>2. loc'[p].rounds = 0
      BY <1>8, <1>9, <3>1 DEF TInv, TypeOK
    <3> QED
      BY <1>5, <1>9, <2>2, <3>2
  <2>3. CASE /\ Serves(job[p], v) /\ job[p].kind = "mqtt" /\ job[p].write = NoChannels
             /\ pc' = [pc EXCEPT ![p] = "get"]
             /\ loc' = [loc EXCEPT ![p].got = None, ![p].held = v.info,
                                   ![p].upd = v.channels, ![p].rounds = 1]
             /\ UNCHANGED <<job, todo>>
    <3>1. loc' = [loc EXCEPT ![p] = [loc[p] EXCEPT !.got = None, !.held = v.info,
                                                  !.upd = v.channels, !.rounds = 1]]
      BY <2>3 DEF TInv, TypeOK
    <3>2. loc'[p].rounds = 1 /\ loc'[p].upd = v.channels
      BY <1>8, <3>1 DEF TInv, TypeOK
    <3> QED
      BY <1>6, <1>9, <2>3, <3>2 DEF ChangesChannels
  <2> QED
    BY <1>4, <1>9, <2>1, <2>2, <2>3 DEF Proceed
<1> QED
  BY <1>7, <1>9 DEF Deliver

\* A step of p concerns one device only.
LEMMA StepLocal ==
  ASSUME TInv, NEW p \in Procs, Step(p)
  PROVE  /\ Working(p) /\ job[p] \in Job /\ dirty' = dirty
         /\ \A q \in Procs \ {p} : pc'[q] = pc[q] /\ job'[q] = job[q] /\ loc'[q] = loc[q]
         /\ Working(p)' => job'[p] = job[p]
         /\ \A d \in Devices \ {job[p].dev} : chan'[d] = chan[d] /\ cache'[d] = cache[d]
<1>1. Working(p)
  BY DEF Step, Touch, CacheHit, CacheMiss, FindRow, FindChannels, Fill, BulkWrite, Reread,
         SetCache, Emit, FindOne, Save, SoftRemove, FindTemplate, SeedChannel, Working
<1>2. job[p] \in Job
  BY <1>1 DEF TInv, Shape, ShapeOf
<1>3. dirty' = dirty
  BY DEF Step, Touch, CacheHit, CacheMiss, FindRow, FindChannels, Fill, BulkWrite, Reread,
         SetCache, Emit, FindOne, Save, SoftRemove, FindTemplate, SeedChannel, stores
<1>4. ASSUME Finish(p) \/ Throw(p)
      PROVE  /\ \A q \in Procs \ {p} : pc'[q] = pc[q] /\ job'[q] = job[q] /\ loc'[q] = loc[q]
             /\ ~Working(p)'
  BY <1>4 DEF Finish, Throw, TInv, TypeOK, Working
<1>5. ASSUME NEW v, Deliver(p, v)
      PROVE  /\ \A q \in Procs \ {p} : pc'[q] = pc[q] /\ job'[q] = job[q] /\ loc'[q] = loc[q]
             /\ Working(p)' => job'[p] = job[p]
  <2>1. CASE Finish(p) \/ Throw(p)
    BY <1>4, <2>1
  <2>2. CASE ~(Finish(p) \/ Throw(p))
    BY <1>5, <2>2 DEF Deliver, Proceed, TInv, TypeOK
  <2> QED
    BY <2>1, <2>2
<1>6. /\ \A q \in Procs \ {p} : pc'[q] = pc[q] /\ job'[q] = job[q] /\ loc'[q] = loc[q]
      /\ Working(p)' => job'[p] = job[p]
  <2>1. CASE Finish(p) \/ Throw(p) \/ \E v : Deliver(p, v)
    BY <1>4, <1>5, <2>1
  <2>2. CASE ~(Finish(p) \/ Throw(p) \/ \E v : Deliver(p, v))
    BY <2>2 DEF Step, Touch, CacheHit, CacheMiss, FindRow, FindChannels, Fill, BulkWrite, Reread,
         SetCache, Emit, FindOne, Save, SoftRemove, FindTemplate, SeedChannel, stores, TInv, TypeOK
  <2> QED
    BY <2>1, <2>2
<1>7. \A d \in Devices \ {job[p].dev} : chan'[d] = chan[d] /\ cache'[d] = cache[d]
  <2>1. \/ UNCHANGED chan
        \/ \E v : chan' = [chan EXCEPT ![job[p].dev] = v]
    BY <1>2 DEF Step, Touch, CacheHit, CacheMiss, FindRow, FindChannels, Fill, BulkWrite, Reread,
         SetCache, Emit, FindOne, Save, SoftRemove, FindTemplate, SeedChannel, stores, TInv, TypeOK
  <2>2. \/ UNCHANGED cache
        \/ \E v : cache' = [cache EXCEPT ![job[p].dev] = v]
    BY DEF Step, Touch, CacheHit, CacheMiss, FindRow, FindChannels, Fill, BulkWrite, Reread,
         SetCache, Emit, FindOne, Save, SoftRemove, FindTemplate, SeedChannel, stores
  <2> QED
    BY <2>1, <2>2 DEF TInv, TypeOK
<1> QED
  BY <1>1, <1>2, <1>3, <1>6, <1>7

\* mqttUpdate and socketUpdate around their channel write.
LEMMA WriteCoherent ==
  ASSUME TInv, Control, NEW p \in Procs, NEW d, Undisturbed(d), WorksOn(p, d),
         Step(p), BulkWrite(p) \/ Reread(p)
  PROVE  Undisturbed(d)'
<1>1. /\ \A q \in Procs \ {p} : pc'[q] = pc[q] /\ job'[q] = job[q] /\ loc'[q] = loc[q]
      /\ job[p] \in Job /\ d = job[p].dev /\ d \in Devices /\ loc[p] \in Locals
  BY StepLocal DEF WorksOn, Job, TInv, TypeOK
<1>2. loc[p].rounds = 0 /\ ChangesChannels(job[p]) /\ job[p].kind # "create"
  BY DEF BulkWrite, Reread, Control, ControlOf, WorksOn
<1>3. Good(cache[d], d, Pending(p))
  BY Known
<1>4. CASE BulkWrite(p) /\ Throw(p)
  <2>1. Pending(p) = {} /\ cache' = cache /\ chan' = chan
    BY <1>2, <1>4 DEF Pending, BulkWrite, Throw, TInv, TypeOK
  <2> QED
    BY <1>3, <1>4, <2>1, Leaves DEF Good
<1>5. CASE BulkWrite(p) /\ pc' = [pc EXCEPT ![p] = "reread"] /\ UNCHANGED <<job, loc>>
           /\ chan' = [chan EXCEPT ![d] = Over(job[p].write, @)]
  <2>1. pc'[p] = "reread" /\ job'[p] = job[p] /\ loc'[p] = loc[p] /\ cache' = cache
        /\ WorksOn(p, d)'
    BY <1>1, <1>5 DEF BulkWrite, TInv, TypeOK, WorksOn, Working
  <2>2. Pending(p) = {} /\ Pending(p)' = Named(job[p].write)
    BY <1>2, <1>5, <2>1 DEF Pending, BulkWrite
  <2>3. \A c \in Channels : chan'[d][c] = IF job[p].write[c] # None THEN job[p].write[c]
                                         ELSE chan[d][c]
    BY <1>1, <1>5 DEF Over, TInv, TypeOK
  <2>4. Good(cache[d], d, Pending(p))'
    BY <1>3, <2>1, <2>2, <2>3 DEF Good, Named
  <2>5. InStep(p, d)'
    BY <1>2, <2>1, <2>3, <2>4 DEF InStep, Named
  <2> QED
    BY <1>1, <1>2, <2>1, <2>5, Stays
<1>6. CASE Reread(p)
  <2> DEFINE w == job[p].write
             u == Only(chan[d], Named(w))
             n == IF job[p].kind = "mqtt" THEN 2 ELSE 1
  <2>1. pc[p] = "reread" /\ pc'[p] = "get" /\ job' = job /\ cache' = cache /\ chan' = chan
        /\ WorksOn(p, d)'
    BY <1>6, <1>1 DEF Reread, TInv, TypeOK, WorksOn, Working, stores
  <2>2. loc'[p].upd = u /\ loc'[p].rounds > 0
    <3>1. loc' = [loc EXCEPT ![p] = [loc[p] EXCEPT !.upd = u, !.rounds = n]]
      BY <1>1, <1>6 DEF Reread, TInv, TypeOK
    <3>2. n > 0
      OBVIOUS
    <3> HIDE DEF u, n
    <3>3. [loc[p] EXCEPT !.upd = u, !.rounds = n].upd = u
          /\ [loc[p] EXCEPT !.upd = u, !.rounds = n].rounds = n
      BY <1>1 DEF Locals
    <3> QED
      BY <3>1, <3>2, <3>3 DEF TInv, TypeOK
  <2>3. \A c \in Named(w) : chan[d][c] # None
    BY <2>1 DEF Undisturbed, InStep
  <2>4. \A c \in Channels : u[c] = IF c \in Named(w) THEN chan[d][c] ELSE None
    BY DEF Only
  <2>5. Named(u) = Named(w)
    BY <2>3, <2>4 DEF Named
  <2>6. Pending(p) = Named(w) /\ Pending(p)' = Named(u)
    BY <2>1, <2>2 DEF Pending
  <2>7. Good(cache[d], d, Pending(p))'
    BY <1>3, <2>1, <2>5, <2>6 DEF Good
  <2>8. \A c \in Channels : loc'[p].upd[c] \in {None, chan'[d][c]}
    BY <2>1, <2>2, <2>4
  <2>9. InStep(p, d)'
    BY <1>2, <2>1, <2>7, <2>8 DEF InStep
  <2> QED
    BY <1>1, <1>2, <2>1, <2>9, Stays
<1> QED
  BY <1>1, <1>4, <1>5, <1>6 DEF BulkWrite

\* updateDeviceCache puts the last missing channels in place.
LEMMA SetCoherent ==
  ASSUME TInv, Control, NEW p \in Procs, NEW d, Undisturbed(d), WorksOn(p, d),
         Step(p), SetCache(p)
  PROVE  Undisturbed(d)'
<1> DEFINE m == MergeInto(loc[p].got, loc[p].upd)
<1>1. /\ \A q \in Procs \ {p} : pc'[q] = pc[q] /\ job'[q] = job[q] /\ loc'[q] = loc[q]
      /\ job[p] \in Job /\ d = job[p].dev /\ d \in Devices /\ loc[p] \in Locals
  BY StepLocal DEF WorksOn, Job, TInv, TypeOK
<1>2. /\ pc[p] = "set" /\ chan' = chan /\ job' = job /\ cache'[d] = m
      /\ loc[p].rounds > 0 /\ pc'[p] \in {"get", "emit"}
  BY <1>1 DEF SetCache, TInv, TypeOK, Locals
<1>3. Good(m, d, {})
  <2>1. /\ Good(loc[p].got, d, Named(loc[p].upd))
        /\ \A c \in Channels : loc[p].upd[c] \in {None, chan[d][c]}
    BY <1>2 DEF Undisturbed, InStep
  <2>2. CASE loc[p].got = None
    BY <2>1, <2>2 DEF MergeInto, Good
  <2>3. CASE loc[p].got # None
    <3>1. loc[p].got \in Entry
      BY <1>1, <2>3 DEF Locals
    <3>2. m.info = loc[p].got.info /\ m.channels = Over(loc[p].upd, loc[p].got.channels)
      BY <2>3, <3>1 DEF MergeInto, Entry
    <3> QED
      BY <2>1, <2>3, <3>2 DEF Good, Over, Named
  <2> QED
    BY <2>2, <2>3
<1> HIDE DEF m
<1>4. WorksOn(p, d)' /\ job'[p] = job[p] /\ job[p].kind # "create"
  BY <1>1, <1>2 DEF WorksOn, Working, Control, ControlOf
<1>5. \A W : Good(cache[d], d, W)'
  BY <1>2, <1>3 DEF Good
<1>6. loc'[p].upd = loc[p].upd /\ (pc'[p] = "emit" => loc'[p] = loc[p])
  <2>1. CASE UNCHANGED loc
    BY <2>1
  <2>2. CASE pc'[p] = "get" /\ loc' = [loc EXCEPT ![p].got = None, ![p].rounds = @ - 1]
    <3>1. loc' = [loc EXCEPT ![p] = [loc[p] EXCEPT !.got = None, !.rounds = loc[p].rounds - 1]]
      BY <1>1, <2>2 DEF TInv, TypeOK, Locals
    <3>2. \A n : [loc[p] EXCEPT !.got = None, !.rounds = n].upd = loc[p].upd
      BY <1>1 DEF Locals
    <3> QED
      BY <2>2, <3>1, <3>2 DEF TInv, TypeOK
  <2> QED
    BY <1>1, <2>1, <2>2 DEF SetCache, TInv, TypeOK
<1>7. InStep(p, d)'
  <2>1. \A c \in Channels : loc'[p].upd[c] \in {None, chan'[d][c]}
    BY <1>2, <1>6 DEF Undisturbed, InStep
  <2>2. pc'[p] = "emit" => Good(loc[p].got, d, Named(loc[p].upd))'
    BY <1>2, <1>6 DEF Undisturbed, InStep, Good, Named
  <2> QED
    BY <1>2, <1>4, <1>5, <2>1, <2>2 DEF InStep
<1> QED
  BY <1>1, <1>2, <1>4, <1>5, <1>7, Stays

\* The remaining steps on a device.
LEMMA StepHere ==
  ASSUME TInv, Control, NEW p \in Procs, NEW d, Undisturbed(d), WorksOn(p, d), Step(p)
  PROVE  Undisturbed(d)'
<1>1. /\ \A q \in Procs \ {p} : pc'[q] = pc[q] /\ job'[q] = job[q] /\ loc'[q] = loc[q]
      /\ job[p] \in Job /\ d = job[p].dev /\ d \in Devices /\ loc[p] \in Locals
  BY StepLocal DEF WorksOn, Job, TInv, TypeOK
<1>2. Good(cache[d], d, Pending(p))
  BY Known
<1>3. CASE \E v \in Entry \cup {None} :
             /\ pc[p] \in {"get", "findRow", "fill"} /\ chan' = chan /\ Deliver(p, v)
             /\ \/ v \in {cache[d], None} /\ cache' = cache
                \/ pc[p] = "fill" /\ v = loc[p].got /\ cache'[d] = v
  <2> PICK v \in Entry \cup {None} :
             /\ pc[p] \in {"get", "findRow", "fill"} /\ chan' = chan /\ Deliver(p, v)
             /\ \/ v \in {cache[d], None} /\ cache' = cache
                \/ pc[p] = "fill" /\ v = loc[p].got /\ cache'[d] = v
    BY <1>3
  <2>1. Good(None, d, Pending(p))
    BY DEF Good
  <2>2. pc[p] = "fill" => Good(loc[p].got, d, {}) /\ Good(loc[p].got, d, Pending(p))
    BY DEF Undisturbed, InStep, Good
  <2> QED
    BY <1>2, <2>1, <2>2, DeliverCoherent
<1>4. CASE /\ \/ pc[p] = "touch" /\ pc' = [pc EXCEPT ![p] = "get"]
              \/ pc[p] = "get" /\ pc' = [pc EXCEPT ![p] = "findRow"]
           /\ UNCHANGED <<chan, cache, job, loc>>
  <2>1. /\ pc'[p] \in {"get", "findRow"} /\ WorksOn(p, d)' /\ job[p].kind # "create"
        /\ pc[p] \in {"touch", "get"}
    BY <1>1, <1>4 DEF WorksOn, Working, Control, ControlOf, TInv, TypeOK
  <2>2. Pending(p)' = Pending(p)
    BY <1>4, <2>1 DEF Pending
  <2>3. InStep(p, d)'
    BY <1>2, <1>4, <2>1, <2>2 DEF InStep, Good, ChangesChannels, Undisturbed
  <2> QED
    BY <1>1, <1>4, <2>1, <2>3, Stays
<1>5. CASE /\ \/ pc[p] = "findRow" /\ pc' = [pc EXCEPT ![p] = "findChannels"]
                 /\ \E v : loc' = [loc EXCEPT ![p].got = v]
              \/ FindChannels(p)
           /\ UNCHANGED <<chan, cache, job>>
  <2>1. /\ pc'[p] \in {"findChannels", "fill"} /\ WorksOn(p, d)' /\ job[p].kind # "create"
        /\ pc[p] \in {"findRow", "findChannels"}
    BY <1>1, <1>5 DEF WorksOn, Working, Control, ControlOf, TInv, TypeOK, FindChannels
  <2>2. PICK v : loc' = [loc EXCEPT ![p] = [loc[p] EXCEPT !.got = v]]
                 /\ (pc'[p] = "fill" => v.channels = chan[d])
    <3>1. CASE FindChannels(p)
      <4> DEFINE v == [loc[p].got EXCEPT !.channels = chan[d]]
      <4>1. loc' = [loc EXCEPT ![p] = [loc[p] EXCEPT !.got = v]]
        BY <1>1, <3>1 DEF FindChannels, TInv, TypeOK
      <4>2. v.channels = chan[d]
        BY <3>1 DEF FindChannels, TInv, Shape, ShapeOf, Entry
      <4> QED
        BY <4>1, <4>2
    <3>2. CASE /\ pc[p] = "findRow" /\ pc' = [pc EXCEPT ![p] = "findChannels"]
               /\ \E v : loc' = [loc EXCEPT ![p].got = v]
      BY <3>2 DEF TInv, TypeOK
    <3> QED
      BY <1>5, <3>1, <3>2
  <2>3. loc'[p].got = v /\ loc'[p].upd = loc[p].upd /\ loc'[p].rounds = loc[p].rounds
    BY <1>1, <2>2, LocalsFields DEF TInv, TypeOK
  <2>4. Pending(p)' = Pending(p)
    BY <2>1, <2>3 DEF Pending
  <2>5. pc'[p] = "fill" => Good(loc[p].got, d, {})'
    BY <1>5, <2>2, <2>3 DEF Good
  <2>6. InStep(p, d)'
    BY <1>2, <1>5, <2>1, <2>3, <2>4, <2>5 DEF InStep, Good, ChangesChannels, Undisturbed
  <2> QED
    BY <1>1, <1>5, <2>1, <2>6, Stays
<1>6. CASE BulkWrite(p) \/ Reread(p) \/ SetCache(p)
  BY <1>6, WriteCoherent, SetCoherent
<1>7. CASE /\ Finish(p) \/ Throw(p)
           /\ pc[p] \in {"emit", "find", "save"} /\ UNCHANGED <<chan, cache>>
  <2>1. Pending(p) = {}
    BY <1>7 DEF Pending, Control, ControlOf
  <2> QED
    BY <1>2, <1>7, <2>1, Leaves DEF Good
<1>8. CASE pc[p] \in {"template", "seed"} /\ UNCHANGED cache
  <2>1. job[p].kind = "create" /\ cache[d] = None /\ ChangesChannels(job[p]) /\ cache'[d] = None
    BY <1>8 DEF WorksOn, Control, ControlOf, Undisturbed, InStep, ChangesChannels
  <2>2. CASE Finish(p) \/ Throw(p)
    BY <2>1, <2>2, Leaves DEF Good
  <2>3. CASE ~(Finish(p) \/ Throw(p))
    <3>1. /\ pc'[p] = "seed" /\ job' = job /\ \E S : loc' = [loc EXCEPT ![p].left = S]
      BY <1>8, <2>3 DEF Step, Touch, CacheHit, CacheMiss, FindRow, FindChannels, Fill, BulkWrite,
         Reread, SetCache, Emit, FindOne, Save, SoftRemove, FindTemplate, SeedChannel, TInv, TypeOK
    <3>2. PICK S : loc' = [loc EXCEPT ![p] = [loc[p] EXCEPT !.left = S]]
      BY <3>1 DEF TInv, TypeOK
    <3>3. loc'[p].rounds = 0
      BY <1>1, <1>8, <3>2, LocalsFields DEF TInv, TypeOK, Control, ControlOf
    <3>4. InStep(p, d)' /\ WorksOn(p, d)'
      BY <1>1, <2>1, <3>1, <3>3 DEF InStep, Good, WorksOn, Working
    <3> QED
      BY <1>1, <2>1, <3>1, <3>4, Stays
  <2> QED
    BY <2>2, <2>3
<1>9. CASE pc[p] = "find" /\ FindOne(p) /\ ~Throw(p)
  <2>1. /\ pc'[p] = "save" /\ job' = job /\ chan' = chan /\ cache' = cache
        /\ loc' = [loc EXCEPT ![p].found = row[d]] /\ job[p].kind # "create"
        /\ loc[p].rounds = 0 /\ WorksOn(p, d)'
    BY <1>1, <1>9 DEF FindOne, TInv, TypeOK, stores, Control, ControlOf, WorksOn, Working
  <2>2. PICK f : loc' = [loc EXCEPT ![p] = [loc[p] EXCEPT !.found = f]]
    BY <2>1 DEF TInv, TypeOK
  <2>3. loc'[p].rounds = 0
    BY <1>1, <2>1, <2>2, LocalsFields DEF TInv, TypeOK
  <2>4. Pending(p) = {}
    BY <1>9, <2>1 DEF Pending
  <2>5. InStep(p, d)'
    BY <1>2, <2>1, <2>3, <2>4 DEF InStep, Good
  <2> QED
    BY <1>1, <2>1, <2>5, Stays
<1>10. CASE CacheHit(p) \/ Fill(p) \/ (FindRow(p) /\ Deliver(p, None))
  <2>1. CASE CacheHit(p)
    BY <1>1, <1>3, <2>1 DEF CacheHit, stores, TInv, TypeOK
  <2>2. CASE Fill(p)
    <3>1. loc[p].got \in Entry /\ cache'[d] = loc[p].got
      BY <1>1, <2>2 DEF Fill, TInv, TypeOK, Shape, ShapeOf
    <3> QED
      BY <1>3, <2>2, <3>1 DEF Fill
  <2>3. CASE FindRow(p) /\ Deliver(p, None)
    <3>1. None \in Entry \cup {None} /\ pc[p] = "findRow" /\ chan' = chan /\ cache' = cache
      BY <2>3 DEF FindRow, stores
    <3> QED
      BY <1>3, <2>3, <3>1, Zenon
  <2> QED
    BY <1>10, <2>1, <2>2, <2>3
<1>11. CASE Touch(p) \/ CacheMiss(p) \/ FindChannels(p) \/ (FindRow(p) /\ ~Deliver(p, None))
  BY <1>4, <1>5, <1>11 DEF Touch, CacheMiss, FindChannels, FindRow, stores
<1>12. CASE Emit(p) \/ Save(p) \/ SoftRemove(p) \/ FindOne(p)
  BY <1>7, <1>9, <1>12 DEF Emit, Save, SoftRemove, FindOne, stores
<1>13. CASE FindTemplate(p) \/ \E c \in Channels : SeedChannel(p, c)
  BY <1>8, <1>13 DEF FindTemplate, SeedChannel, stores
<1> QED
  BY <1>6, <1>10, <1>11, <1>12, <1>13 DEF Step

\* Entering a handler that does not collide.
LEMMA EnterCoherent ==
  ASSUME TInv, Control, NEW p \in Procs, NEW j, j.dev \in Devices, NEW stage \in {"touch", "get"},
         j.kind # "create", Enter(p, j, stage), ~Working(p), UNCHANGED <<stores, loc>>,
         NEW d \in Devices, ~dirty'[d], ~dirty[d] => Undisturbed(d)
  PROVE  Undisturbed(d)'
<1>1. /\ \A q \in Procs \ {p} : pc'[q] = pc[q] /\ job'[q] = job[q] /\ loc'[q] = loc[q]
      /\ pc'[p] = stage /\ job'[p] = j /\ loc'[p] = loc[p] /\ loc[p].rounds = 0
      /\ chan' = chan /\ cache' = cache /\ ~WorksOn(p, d)
  BY DEF Enter, TInv, TypeOK, stores, Control, ControlOf, WorksOn
<1>2. CASE d # j.dev
  <2>1. ~dirty[d] /\ ~WorksOn(p, d)'
    BY <1>1, <1>2 DEF Enter, TInv, TypeOK, WorksOn
  <2>2. Settled(d)' => Settled(d)
    BY <1>1, <2>1 DEF Settled, WorksOn, Working, ChangesChannels
  <2>3. Settled(d)' => Good(cache[d], d, {})'
    BY <1>1, <2>1, <2>2 DEF Undisturbed, Good
  <2> QED
    BY <1>1, <2>1, <2>3, Moves
<1>3. CASE d = j.dev
  <2>1. /\ ~Collides(j)
        /\ ~dirty[d] \/ (~Busy(d) /\ cache[d] = None)
    BY <1>3 DEF Enter, TInv, TypeOK
  <2>2. \A q \in Procs \ {p} : WorksOn(q, d)' <=> WorksOn(q, d)
    BY <1>1 DEF WorksOn, Working
  <2>3. \A q \in Procs \ {p} : WorksOn(q, d) => ~ChangesChannels(job[q]) /\ ~ChangesChannels(j)
    BY <1>3, <2>1 DEF Collides
  <2>4. \A q \in Procs : WorksOn(q, d) => ~dirty[d] /\ InStep(q, d)
    BY <2>1 DEF Busy, Undisturbed
  <2>5. \A W : Good(cache[d], d, W)'
    <3>1. CASE cache[d] = None
      BY <1>1, <3>1 DEF Good
    <3>2. CASE cache[d] # None
      <4>1. Settled(d)
        BY <1>1, <2>3 DEF Settled
      <4>2. Good(cache[d], d, {})
        BY <2>1, <3>2, <4>1 DEF Undisturbed
      <4> QED
        BY <1>1, <4>2 DEF Good
    <3> QED
      BY <3>1, <3>2
  <2>6. Alone(d)'
    BY <1>1, <2>2, <2>3 DEF Alone, ChangesChannels
  <2>7. InStep(p, d)'
    BY <1>1, <2>5 DEF InStep
  <2>8. ASSUME NEW q \in Procs \ {p}, WorksOn(q, d)' PROVE InStep(q, d)'
    <3>1. InStep(q, d) /\ pc'[q] = pc[q] /\ job'[q] = job[q] /\ loc'[q] = loc[q]
      BY <1>1, <2>2, <2>4, <2>8
    <3> QED
      BY <1>1, <3>1 DEF InStep, Good, Pending, ChangesChannels
  <2> QED
    BY <2>5, <2>6, <2>7, <2>8 DEF Undisturbed
<1> QED
  BY <1>2, <1>3

LEMMA CreateCoherent ==
  ASSUME TInv, Control, NEW h \in Procs, NEW e \in Devices, NEW u \in Users, NEW t \in Templates,
         Create(h, e, u, t), NEW d \in Devices, ~dirty'[d], ~dirty[d] => Undisturbed(d)
  PROVE  Undisturbed(d)'
<1>1. /\ \A q \in Procs \ {h} : pc'[q] = pc[q] /\ job'[q] = job[q] /\ loc'[q] = loc[q]
      /\ pc'[h] = "template" /\ job'[h].dev = e /\ loc'[h] = loc[h] /\ loc[h].rounds = 0
      /\ chan' = chan /\ cache' = cache /\ ~WorksOn(h, d) /\ job'[h].kind = "create"
      /\ ~dirty[d]
  BY JobKind DEF Create, TInv, TypeOK, Control, ControlOf, WorksOn, Working
<1>2. CASE d # e
  <2>1. ~WorksOn(h, d)'
    BY <1>1, <1>2 DEF WorksOn
  <2>2. Settled(d)' => Settled(d)
    BY <1>1, <2>1 DEF Settled, WorksOn, Working, ChangesChannels
  <2>3. Settled(d)' => Good(cache[d], d, {})'
    BY <1>1, <2>2 DEF Undisturbed, Good
  <2> QED
    BY <1>1, <2>1, <2>3, Moves
<1>3. CASE d = e
  <2>1. cache[d] = None /\ \A q \in Procs : ~WorksOn(q, d)
    BY <1>3 DEF Create, TInv, TypeOK, Busy
  <2>2. \A q \in Procs : WorksOn(q, d)' => q = h
    BY <1>1, <2>1 DEF WorksOn, Working
  <2>3. InStep(h, d)'
    BY <1>1, <2>1 DEF InStep, Good
  <2> QED
    BY <1>1, <2>1, <2>2, <2>3 DEF Undisturbed, Alone, Good
<1> QED
  BY <1>2, <1>3

LEMMA AbortCoherent ==
  ASSUME TInv, Control, NEW p \in Procs, NEW S \in SUBSET Channels, Abort(p, S),
         NEW d \in Devices, ~dirty'[d], ~dirty[d] => Undisturbed(d)
  PROVE  Undisturbed(d)'
<1>1. /\ \A q \in Procs \ {p} : pc'[q] = pc[q] /\ job'[q] = job[q] /\ loc'[q] = loc[q]
      /\ ~WorksOn(p, d)' /\ cache' = cache /\ Throw(p)
  BY DEF Abort, Throw, TInv, TypeOK, WorksOn, Working
<1>2. /\ ~dirty[d]
      /\ WorksOn(p, d) => pc[p] \notin {"write", "reread"} /\ loc[p].rounds = 0
  <2>1. CASE ~Working(p)
    BY <2>1 DEF Abort, WorksOn
  <2>2. CASE Working(p)
    <3>1. job[p].dev \in Devices /\ loc[p].rounds \in 0..2
      BY <2>2 DEF TInv, TypeOK, Shape, ShapeOf, Job, Locals
    <3> DEFINE broken == pc[p] \in {"write", "reread"} \/ loc[p].rounds > 0
    <3>2. dirty' = [dirty EXCEPT ![job[p].dev] = @ \/ broken]
      BY <2>2 DEF Abort
    <3> HIDE DEF broken
    <3>3. ~dirty[d] /\ (d = job[p].dev => ~broken)
      <4>1. dirty \in [Devices -> BOOLEAN]
        BY DEF TInv, TypeOK
      <4>2. CASE d = job[p].dev
        BY <3>1, <3>2, <4>1, <4>2, Zenon
      <4>3. CASE d # job[p].dev
        BY <3>1, <3>2, <4>1, <4>3, Zenon
      <4> QED
        BY <4>2, <4>3
    <3> QED
      BY <3>1, <3>3 DEF WorksOn, broken
  <2> QED
    BY <2>1, <2>2
<1>3. CASE WorksOn(p, d)
  <2>1. Pending(p) = {} /\ chan' = chan
    BY <1>2, <1>3 DEF Pending, Abort
  <2>2. Good(cache[d], d, {})
    BY <1>2, <1>3, <2>1, Known
  <2> QED
    BY <1>1, <1>2, <1>3, <2>1, <2>2, Leaves DEF Good
<1>4. CASE ~WorksOn(p, d)
  <2>1. chan'[d] = chan[d]
    BY <1>4 DEF Abort, TInv, TypeOK, WorksOn, Working
  <2>2. Settled(d)' => Settled(d)
    BY <1>1, <1>4 DEF Settled, WorksOn, Working, ChangesChannels
  <2>3. Settled(d)' => Good(cache[d], d, {})'
    BY <1>1, <1>2, <2>1, <2>2 DEF Undisturbed, Good
  <2> QED
    BY <1>1, <1>2, <2>1, <2>3, Moves
<1> QED
  BY <1>3, <1>4

LEMMA CoherentInit == Init => IInv
<1> SUFFICES ASSUME Init PROVE IInv
  OBVIOUS
<1>1. TInv
  BY TypeInit
<1>2. \A p \in Procs : ~Working(p) /\ pc[p] = "idle" /\ loc[p].rounds = 0
  BY DEF Init, Working, NoLocals
<1>3. Control
  BY <1>2 DEF Control, ControlOf
<1>4. \A d \in Devices : Undisturbed(d)
  BY <1>2 DEF Init, Undisturbed, Alone, WorksOn, Good
<1> QED
  BY <1>1, <1>3, <1>4 DEF IInv

LEMMA CoherentStep == IInv /\ [Next]_vars => IInv'
<1> SUFFICES ASSUME IInv, [Next]_vars PROVE IInv'
  OBVIOUS
<1>1. TInv /\ Control
  BY DEF IInv
<1>2. TInv' /\ Control'
  BY <1>1, TypeStep, ControlStep
<1> SUFFICES ASSUME NEW d \in Devices, ~dirty'[d] PROVE Undisturbed(d)'
  BY <1>2 DEF IInv
<1>3. ~dirty[d] => Undisturbed(d)
  BY DEF IInv
<1>4. ASSUME NEW h \in Handlers, Arrive(h) PROVE Undisturbed(d)'
  <2>1. PICK e \in Devices :
          \/ \E w \in Writes, r \in Reports : Message(h, e, w, r)
          \/ \E w \in Writes : Press(h, e, w)
          \/ \E kind \in Kinds, u \in Users \cup {Admin}, dto \in Dto : Request(h, e, kind, u, dto)
          \/ \E u \in Users, t \in Templates : Create(h, e, u, t)
    BY <1>4 DEF Arrive
  <2>2. h \in Procs
    BY DEF Procs
  <2>3. CASE \E w \in Writes, r \in Reports : Message(h, e, w, r)
    <3> PICK w \in Writes, r \in Reports : Message(h, e, w, r)
      BY <2>3
    <3> DEFINE j == [NewJob("mqtt", e) EXCEPT !.write = w, !.report = r]
    <3>1. Enter(h, j, "touch") /\ ~Working(h) /\ UNCHANGED <<stores, loc>>
      BY DEF Message, Working
    <3>2. j.kind = "mqtt" /\ j.dev = e
      BY JobKind
    <3> HIDE DEF j
    <3> QED
      BY <1>1, <1>3, <2>2, <3>1, <3>2, EnterCoherent
  <2>4. CASE \E w \in Writes : Press(h, e, w)
    <3> PICK w \in Writes : Press(h, e, w)
      BY <2>4
    <3> DEFINE j == [NewJob("socket", e) EXCEPT !.write = w]
    <3>1. Enter(h, j, "get") /\ ~Working(h) /\ UNCHANGED <<stores, loc>>
      BY DEF Press, Working
    <3>2. j.kind = "socket" /\ j.dev = e
      BY JobKind
    <3> HIDE DEF j
    <3> QED
      BY <1>1, <1>3, <2>2, <3>1, <3>2, EnterCoherent
  <2>5. CASE \E kind \in Kinds, u \in Users \cup {Admin}, dto \in Dto : Request(h, e, kind, u, dto)
    <3> PICK kind \in Kinds, u \in Users \cup {Admin}, dto \in Dto : Request(h, e, kind, u, dto)
      BY <2>5
    <3> DEFINE j == [NewJob(kind, e) EXCEPT !.by = u, !.dto = dto]
    <3>1. Enter(h, j, "get") /\ ~Working(h) /\ UNCHANGED <<stores, loc>>
          /\ kind \in {"read", "patch", "delete"}
      BY DEF Request, Working
    <3>2. j.kind = kind /\ j.dev = e
      BY JobKind
    <3> HIDE DEF j
    <3> QED
      BY <1>1, <1>3, <2>2, <3>1, <3>2, EnterCoherent
  <2>6. CASE \E u \in Users, t \in Templates : Create(h, e, u, t)
    BY <1>1, <1>3, <2>2, <2>6, CreateCoherent
  <2> QED
    BY <2>1, <2>3, <2>4, <2>5, <2>6
<1>5. ASSUME NEW p \in Procs, Step(p) PROVE Undisturbed(d)'
  <2>1. Undisturbed(d)
    BY <1>1, <1>3, <1>5, StepLocal
  <2>2. CASE WorksOn(p, d)
    BY <1>1, <1>5, <2>1, <2>2, StepHere
  <2>3. CASE ~WorksOn(p, d)
    <3>1. /\ \A q \in Procs \ {p} : pc'[q] = pc[q] /\ job'[q] = job[q] /\ loc'[q] = loc[q]
          /\ ~WorksOn(p, d)' /\ chan'[d] = chan[d] /\ cache'[d] = cache[d]
      BY <1>1, <1>5, <2>3, StepLocal DEF WorksOn
    <3>2. Settled(d)' => Settled(d)
      BY <2>3, <3>1 DEF Settled, WorksOn, Working, ChangesChannels
    <3>3. Settled(d)' => Good(cache[d], d, {})'
      BY <2>1, <3>1, <3>2 DEF Undisturbed, Good
    <3> QED
      BY <2>1, <3>1, <3>3, Moves
  <2> QED
    BY <2>2, <2>3
<1>6. ASSUME NEW s \in Sweeps, SweepFind(s) \/ SweepMark(s) PROVE Undisturbed(d)'
  <2>1. /\ s \in Procs /\ ~WorksOn(s, d) /\ ~WorksOn(s, d)' /\ ~dirty[d]
        /\ \A q \in Procs \ {s} : pc'[q] = pc[q] /\ job'[q] = job[q] /\ loc'[q] = loc[q]
        /\ chan' = chan /\ cache' = cache
    BY <1>1, <1>6 DEF SweepFind, SweepMark, Procs, WorksOn, Working, TInv, TypeOK, stores
  <2>2. Settled(d)' => Settled(d)
    BY <2>1 DEF Settled, WorksOn, Working, ChangesChannels
  <2>3. Settled(d)' => Good(cache[d], d, {})'
    BY <1>3, <2>1, <2>2 DEF Undisturbed, Good
  <2> QED
    BY <1>3, <2>1, <2>3, Moves
<1>7. ASSUME NEW s \in Sweeps, NEW e \in Devices, SweepNext(s, e) PROVE Undisturbed(d)'
  <2> DEFINE j == [NewJob("mqtt", e) EXCEPT !.report = "offline"]
  <2>1. Enter(s, j, "touch") /\ ~Working(s) /\ UNCHANGED <<stores, loc>> /\ s \in Procs
    BY <1>7 DEF SweepNext, Working, Procs
  <2>2. j.kind = "mqtt" /\ j.dev = e
    BY JobKind
  <2> HIDE DEF j
  <2> QED
    BY <1>1, <1>3, <2>1, <2>2, EnterCoherent
<1>8. ASSUME NEW p \in Procs, NEW S \in SUBSET Channels, Abort(p, S) PROVE Undisturbed(d)'
  BY <1>1, <1>3, <1>8, AbortCoherent
<1>9. CASE (\E e \in Devices : Expire(e) \/ Age(e)) \/ Relink \/ UNCHANGED vars
  <2>1. /\ UNCHANGED <<pc, job, loc, chan, dirty>>
        /\ cache'[d] = cache[d] \/ cache'[d] = None
    BY <1>1, <1>9 DEF Expire, Age, Relink, vars, stores, TInv, TypeOK
  <2> QED
    BY <1>3, <2>1, Still
<1> QED
  BY <1>4, <1>5, <1>6, <1>7, <1>8, <1>9 DEF Next

\* Between writes, the cached channels of every undisturbed device are the
\* stored ones, for any number of handlers, sweeps, devices and channels.
THEOREM CacheCoherent == Spec => []Coherence
<1>1. Init => IInv
  BY CoherentInit
<1>2. IInv /\ [Next]_vars => IInv'
  BY CoherentStep
<1>3. IInv => Coherence
  BY DEF IInv, Coherence, Undisturbed, Good, Agrees
<1> QED
  BY <1>1, <1>2, <1>3, PTL DEF Spec

-----------------------------------------------------------------------------
(* Rows and channel documents stay, and nothing belongs to a missing row *)

\* A handler of a device without a row gets no further than the lookup.
AnchoredOf(p) ==
  Working(p) /\ ~Exists(job[p].dev) =>
    pc[p] \in {"touch", "get", "findRow"} /\ loc[p].rounds = 0

RInv ==
  /\ TInv
  /\ Control
  /\ \A p \in Procs : AnchoredOf(p)
  /\ NothingWithoutRow

LEMMA RowIsThere == \A d \in Devices : TypeOK => (Exists(d) <=> row[d] \in Row)
  BY NoneAssumption DEF Exists, TypeOK

\* A step of p changes the row of its own device only, and deletes none.
LEMMA StepRows ==
  ASSUME TInv, NEW p \in Procs, Step(p)
  PROVE  /\ \A d \in Devices \ {job[p].dev} : row'[d] = row[d]
         /\ \A d \in Devices : row[d] \in Row => row'[d] \in Row
         /\ row' # row => pc[p] \in {"touch", "save"}
<1>1. job[p] \in Job /\ job[p].dev \in Devices
  BY StepLocal DEF Job
<1>2. CASE row' = row
  BY <1>2
<1>3. CASE Touch(p)
  <2> DEFINE d == job[p].dev
             s == StatusOf(job[p].report)
             new == [row[d] EXCEPT !.recent = TRUE, !.status = IF s = None THEN @ ELSE s]
  <2>1. CASE ~Exists(d)
    BY <1>2, <1>3, <2>1 DEF Touch
  <2>2. CASE Exists(d)
    <3>1. row[d] \in Row
      BY <1>1, <2>2, RowIsThere DEF TInv
    <3>2. s # None => s \in Statuses
      BY DEF StatusOf, Statuses
    <3>3. new \in Row
      BY <3>1, <3>2 DEF Row
    <3>4. row' = [row EXCEPT ![d] = new]
      BY <1>1, <1>3, <2>2 DEF Touch, TInv, TypeOK
    <3> HIDE DEF new
    <3> QED
      BY <1>1, <1>3, <3>3, <3>4 DEF Touch, TInv, TypeOK
  <2> QED
    BY <2>1, <2>2
<1>4. CASE Save(p)
  <2>1. loc[p].found \in Row /\ row[job[p].dev] \in Row /\ job[p].dto \in Dto
    BY <1>1, <1>4 DEF Save, TInv, Shape, ShapeOf, Job
  <2>2. Patched(loc[p].found, job[p].dto, row[job[p].dev]) \in Row
    BY <2>1 DEF Patched, Row, Dto
  <2> QED
    BY <1>1, <1>4, <2>2 DEF Save, TInv, TypeOK
<1>5. CASE SoftRemove(p)
  <2>1. row[job[p].dev] \in Row
    BY <1>5 DEF SoftRemove, TInv, Shape, ShapeOf
  <2>2. [row[job[p].dev] EXCEPT !.deleted = TRUE] \in Row
    BY <2>1 DEF Row
  <2>3. row' = [row EXCEPT ![job[p].dev] = [row[job[p].dev] EXCEPT !.deleted = TRUE]]
    BY <1>5 DEF SoftRemove
  <2> QED
    BY <1>1, <1>5, <2>2, <2>3 DEF SoftRemove, TInv, TypeOK
<1> QED
  BY <1>2, <1>3, <1>4, <1>5 DEF Step, CacheHit, CacheMiss, FindRow, FindChannels, Fill,
     BulkWrite, Reread, SetCache, Emit, FindOne, FindTemplate, SeedChannel, stores

\* What arrives is a POST or enters a handler, and a handler only.
LEMMA Arrives ==
  ASSUME NEW h \in Handlers, Arrive(h)
  PROVE  \/ \E d \in Devices, u \in Users, t \in Templates : Create(h, d, u, t)
         \/ /\ UNCHANGED <<stores, loc>> /\ ~Working(h) /\ sent' = {}
            /\ \E j, stage : /\ Enter(h, j, stage) /\ stage \in {"touch", "get"}
                            /\ j.dev \in Devices /\ j.kind # "create"
<1>1. CASE \E d \in Devices, w \in Writes, r \in Reports : Message(h, d, w, r)
  <2> PICK d \in Devices, w \in Writes, r \in Reports : Message(h, d, w, r)
    BY <1>1
  <2> DEFINE j == [NewJob("mqtt", d) EXCEPT !.write = w, !.report = r]
  <2>1. Enter(h, j, "touch") /\ UNCHANGED <<stores, loc>> /\ ~Working(h) /\ sent' = {}
    BY DEF Message, Working
  <2>2. j.kind = "mqtt" /\ j.dev = d
    BY JobKind
  <2> HIDE DEF j
  <2> QED
    BY <2>1, <2>2
<1>2. CASE \E d \in Devices, w \in Writes : Press(h, d, w)
  <2> PICK d \in Devices, w \in Writes : Press(h, d, w)
    BY <1>2
  <2> DEFINE j == [NewJob("socket", d) EXCEPT !.write = w]
  <2>1. Enter(h, j, "get") /\ UNCHANGED <<stores, loc>> /\ ~Working(h) /\ sent' = {}
    BY DEF Press, Working
  <2>2. j.kind = "socket" /\ j.dev = d
    BY JobKind
  <2> HIDE DEF j
  <2> QED
    BY <2>1, <2>2
<1>3. CASE \E d \in Devices, kind \in Kinds, u \in Users \cup {Admin}, dto \in Dto : Request(h, d, kind, u, dto)
  <2> PICK d \in Devices, kind \in Kinds, u \in Users \cup {Admin}, dto \in Dto : Request(h, d, kind, u, dto)
    BY <1>3
  <2> DEFINE j == [NewJob(kind, d) EXCEPT !.by = u, !.dto = dto]
  <2>1. Enter(h, j, "get") /\ UNCHANGED <<stores, loc>> /\ ~Working(h) /\ sent' = {} /\ kind # "create"
    BY DEF Request, Working
  <2>2. j.kind = kind /\ j.dev = d
    BY JobKind
  <2> HIDE DEF j
  <2> QED
    BY <2>1, <2>2
<1> QED
  BY <1>1, <1>2, <1>3 DEF Arrive

\* No step deletes a row from the table.
LEMMA RowsStay ==
  ASSUME TInv, [Next]_vars
  PROVE  \A d \in Devices : Exists(d) => Exists(d)'
<1> SUFFICES ASSUME NEW d \in Devices, row[d] \in Row PROVE row'[d] \in Row
  BY TypeStep, RowIsThere, NoneAssumption DEF TInv, TypeOK, Exists
<1>1. ASSUME NEW h \in Handlers, Arrive(h) PROVE row'[d] \in Row
  <2>1. CASE UNCHANGED stores
    BY <2>1 DEF stores
  <2>2. CASE \E e \in Devices, u \in Users, t \in Templates : Create(h, e, u, t)
    BY <2>2, RowType DEF Create, TInv, TypeOK
  <2> QED
    BY <1>1, <2>1, <2>2, Arrives
<1>2. ASSUME NEW p \in Procs, Step(p) PROVE row'[d] \in Row
  BY <1>2, StepRows
<1>3. ASSUME NEW s \in Sweeps, SweepMark(s) PROVE row'[d] \in Row
  BY <1>3 DEF SweepMark, Row, Statuses
<1>4. ASSUME NEW e \in Devices, Age(e) PROVE row'[d] \in Row
  <2>1. \A r \in Row : [r EXCEPT !.recent = FALSE] \in Row
    BY DEF Row
  <2>2. row' = [row EXCEPT ![e] = [row[e] EXCEPT !.recent = FALSE]]
    BY <1>4 DEF Age
  <2> QED
    BY <2>1, <2>2 DEF TInv, TypeOK
<1>5. CASE row' = row
  BY <1>5
<1> QED
  BY <1>1, <1>2, <1>3, <1>4, <1>5
  DEF Next, vars, stores, SweepFind, SweepNext, Abort, Expire, Relink

\* Entering a handler leaves every device without a row bare.
LEMMA EnterAnchored ==
  ASSUME TInv, Control, NEW p \in Procs, ~Working(p), UNCHANGED <<stores, loc>>,
         NEW j, NEW stage \in {"touch", "get"}, Enter(p, j, stage),
         \A q \in Procs : AnchoredOf(q)
  PROVE  \A q \in Procs : AnchoredOf(q)'
<1>1. /\ \A q \in Procs \ {p} : pc'[q] = pc[q] /\ job'[q] = job[q] /\ loc'[q] = loc[q]
      /\ pc'[p] = stage /\ loc'[p].rounds = 0 /\ row' = row
  BY DEF Enter, TInv, TypeOK, stores, Control, ControlOf
<1> QED
  BY <1>1 DEF AnchoredOf, Working, Exists

\* A handler that finds no row throws before it touches another store.
LEMMA StepAnchored ==
  ASSUME RInv, NEW p \in Procs, Step(p), ~Exists(job[p].dev)
  PROVE  /\ cache' = cache /\ chan' = chan
         /\ Working(p)' => pc'[p] \in {"get", "findRow"} /\ loc'[p] = loc[p]
<1>1. /\ Working(p) /\ job[p].dev \in Devices
      /\ pc[p] \in {"touch", "get", "findRow"} /\ loc[p].rounds = 0 /\ cache[job[p].dev] = None
  BY StepLocal DEF RInv, AnchoredOf, NothingWithoutRow, Job
<1>2. Touch(p) \/ CacheMiss(p) \/ FindRow(p)
  BY <1>1 DEF Step, CacheHit, FindChannels, Fill, BulkWrite, Reread,
     SetCache, Emit, FindOne, Save, SoftRemove, FindTemplate, SeedChannel
<1>3. CASE Touch(p) \/ CacheMiss(p)
  BY <1>3 DEF Touch, CacheMiss, stores, RInv, TInv, TypeOK
<1>4. CASE FindRow(p)
  <2>1. ~Live(job[p].dev)
    BY DEF Live, Exists
  <2>2. Proceed(p, None) /\ cache' = cache /\ chan' = chan
    BY <1>1, <1>4, <2>1 DEF FindRow, Deliver, stores
  <2>3. Throw(p)
    BY <2>2 DEF Proceed, Serves
  <2> QED
    BY <2>2, <2>3 DEF Throw, RInv, TInv, TypeOK, Working
<1> QED
  BY <1>2, <1>3, <1>4

LEMMA RowsInit == Init => RInv
<1> SUFFICES ASSUME Init PROVE RInv
  OBVIOUS
<1>1. TInv /\ Control
  BY TypeInit, CoherentInit DEF IInv
<1>2. \A p \in Procs : AnchoredOf(p)
  BY DEF Init, AnchoredOf, Working
<1>3. NothingWithoutRow
  BY DEF Init, NothingWithoutRow, Exists
<1> QED
  BY <1>1, <1>2, <1>3 DEF RInv

LEMMA RowsStep == RInv /\ [Next]_vars => RInv'
<1> SUFFICES ASSUME RInv, [Next]_vars PROVE RInv'
  OBVIOUS
<1>1. TInv /\ Control /\ (\A p \in Procs : AnchoredOf(p)) /\ NothingWithoutRow
  BY DEF RInv
<1>2. TInv' /\ Control' /\ \A d \in Devices : Exists(d) => Exists(d)'
  BY <1>1, TypeStep, ControlStep, RowsStay
<1> SUFFICES (\A p \in Procs : AnchoredOf(p)') /\ NothingWithoutRow'
  BY <1>2 DEF RInv
<1>3. ASSUME cache' = cache, chan' = chan PROVE NothingWithoutRow'
  BY <1>1, <1>2, <1>3 DEF NothingWithoutRow
<1>4. ASSUME NEW h \in Handlers, Arrive(h)
      PROVE  (\A p \in Procs : AnchoredOf(p)') /\ NothingWithoutRow'
  <2>1. cache' = cache /\ chan' = chan /\ h \in Procs
    BY <1>4, Arrives DEF Create, stores, Procs
  <2>2. CASE /\ UNCHANGED <<stores, loc>> /\ ~Working(h)
             /\ \E j, stage : Enter(h, j, stage) /\ stage \in {"touch", "get"}
    BY <1>1, <1>3, <2>1, <2>2, EnterAnchored
  <2>3. CASE \E d \in Devices, u \in Users, t \in Templates : Create(h, d, u, t)
    <3> PICK d \in Devices, u \in Users, t \in Templates : Create(h, d, u, t)
      BY <2>3
    <3>1. Exists(d)' /\ job'[h].dev = d /\ loc' = loc
          /\ \A q \in Procs \ {h} : pc'[q] = pc[q] /\ job'[q] = job[q]
      BY <1>1, <2>1, RowType, NoneAssumption, JobKind DEF Create, TInv, TypeOK, Exists
    <3>2. ASSUME NEW q \in Procs, Working(q) PROVE job[q].dev \in Devices
      BY <1>1, <3>2 DEF TInv, Shape, ShapeOf, Job
    <3>3. AnchoredOf(h)'
      BY <3>1 DEF AnchoredOf, Exists
    <3>4. \A q \in Procs \ {h} : AnchoredOf(q)'
      BY <1>1, <1>2, <3>1, <3>2 DEF AnchoredOf, Working
    <3> QED
      BY <1>3, <2>1, <3>3, <3>4
  <2> QED
    BY <1>4, <2>2, <2>3, Arrives
<1>5. ASSUME NEW p \in Procs, Step(p)
      PROVE  (\A q \in Procs : AnchoredOf(q)') /\ NothingWithoutRow'
  <2>1. /\ Working(p) /\ job[p].dev \in Devices
        /\ \A q \in Procs \ {p} : pc'[q] = pc[q] /\ job'[q] = job[q] /\ loc'[q] = loc[q]
        /\ Working(p)' => job'[p] = job[p]
        /\ \A d \in Devices \ {job[p].dev} : chan'[d] = chan[d] /\ cache'[d] = cache[d]
    BY <1>1, <1>5, StepLocal DEF Job
  <2>2. ASSUME NEW q \in Procs, Working(q) PROVE job[q].dev \in Devices
    BY <1>1, <2>2 DEF TInv, Shape, ShapeOf, Job
  <2>3. AnchoredOf(p)'
    BY <1>1, <1>2, <1>5, <2>1, StepAnchored DEF AnchoredOf
  <2>4. \A q \in Procs \ {p} : AnchoredOf(q)'
    BY <1>1, <1>2, <2>1, <2>2 DEF AnchoredOf, Working
  <2>5. NothingWithoutRow'
    <3> SUFFICES ASSUME NEW d \in Devices, ~Exists(d)' PROVE (cache[d] = None /\ chan[d] = NoChannels)'
      BY DEF NothingWithoutRow
    <3>1. ~Exists(d) /\ cache[d] = None /\ chan[d] = NoChannels
      BY <1>1, <1>2 DEF NothingWithoutRow
    <3> QED
      BY <1>5, <2>1, <3>1, StepAnchored
  <2> QED
    BY <2>3, <2>4, <2>5
<1>6. ASSUME NEW s \in Sweeps, SweepFind(s) \/ SweepMark(s)
      PROVE  (\A p \in Procs : AnchoredOf(p)') /\ NothingWithoutRow'
  <2>1. /\ s \in Procs /\ ~Working(s)' /\ UNCHANGED <<cache, chan, job, loc>>
        /\ \A q \in Procs \ {s} : pc'[q] = pc[q]
    BY <1>1, <1>6 DEF SweepFind, SweepMark, Procs, Working, stores, TInv, TypeOK
  <2>2. ASSUME NEW q \in Procs, Working(q) PROVE job[q].dev \in Devices
    BY <1>1, <2>2 DEF TInv, Shape, ShapeOf, Job
  <2> QED
    BY <1>1, <1>2, <1>3, <2>1, <2>2 DEF AnchoredOf, Working
<1>7. ASSUME NEW s \in Sweeps, NEW d \in Devices, SweepNext(s, d)
      PROVE  (\A p \in Procs : AnchoredOf(p)') /\ NothingWithoutRow'
  <2>1. /\ s \in Procs /\ ~Working(s) /\ UNCHANGED <<stores, loc>>
        /\ Enter(s, [NewJob("mqtt", d) EXCEPT !.report = "offline"], "touch")
    BY <1>7 DEF SweepNext, Procs, Working
  <2> QED
    BY <1>1, <1>3, <2>1, EnterAnchored DEF stores
<1>8. ASSUME NEW p \in Procs, NEW S \in SUBSET Channels, Abort(p, S)
      PROVE  (\A q \in Procs : AnchoredOf(q)') /\ NothingWithoutRow'
  <2>1. /\ ~Working(p)' /\ cache' = cache
        /\ \A q \in Procs \ {p} : pc'[q] = pc[q] /\ job'[q] = job[q] /\ loc'[q] = loc[q]
    BY <1>1, <1>8 DEF Abort, Throw, Working, TInv, TypeOK
  <2>2. ASSUME NEW q \in Procs, Working(q) PROVE job[q].dev \in Devices
    BY <1>1, <2>2 DEF TInv, Shape, ShapeOf, Job
  <2>3. \A d \in Devices : ~Exists(d) => chan'[d] = chan[d]
    <3>1. CASE UNCHANGED chan
      BY <3>1
    <3>2. CASE pc[p] = "write" /\ chan' = [chan EXCEPT ![job[p].dev] = Over(Only(job[p].write, S), @)]
      <4>1. Exists(job[p].dev)
        BY <1>1, <3>2 DEF AnchoredOf, Working
      <4> QED
        BY <1>1, <3>2, <4>1 DEF TInv, TypeOK
    <3> QED
      BY <1>8, <3>1, <3>2 DEF Abort
  <2> QED
    BY <1>1, <1>2, <2>1, <2>2, <2>3 DEF AnchoredOf, Working, NothingWithoutRow
<1>9. CASE (\E d \in Devices : Expire(d) \/ Age(d)) \/ Relink \/ UNCHANGED vars
  <2>1. UNCHANGED <<pc, job, loc, chan>> /\ \A d \in Devices : cache'[d] \in {cache[d], None}
    BY <1>1, <1>9 DEF Expire, Age, Relink, vars, stores, TInv, TypeOK
  <2>2. ASSUME NEW q \in Procs, Working(q) PROVE job[q].dev \in Devices
    BY <1>1, <2>2 DEF TInv, Shape, ShapeOf, Job
  <2> QED
    BY <1>1, <1>2, <2>1, <2>2 DEF AnchoredOf, Working, NothingWithoutRow
<1> QED
  BY <1>4, <1>5, <1>6, <1>7, <1>8, <1>9 DEF Next

\* No channel document and no cache entry without a row, for any ids that
\* messages name: a lookup that finds nothing ends the handler first.
THEOREM RowComesFirst == Spec => []NothingWithoutRow
<1>1. Init => RInv
  BY RowsInit
<1>2. RInv /\ [Next]_vars => RInv'
  BY RowsStep
<1>3. RInv => NothingWithoutRow
  BY DEF RInv
<1> QED
  BY <1>1, <1>2, <1>3, PTL DEF Spec

-----------------------------------------------------------------------------
(* A POST that returns has made every channel *)

\* What a POST has no longer to create is there.
SeededOf(p) ==
  pc[p] = "seed" =>
    Declares[job[p].dto.template] \ loc[p].left \subseteq Named(chan[job[p].dev])

SInv == TInv /\ \A p \in Procs : SeededOf(p)

LEMMA OverNames ==
  \A m, n \in ChannelMap : Named(n) \subseteq Named(Over(m, n))
  BY DEF Named, Over

\* No step takes a channel document away.
LEMMA NamesStay ==
  ASSUME TInv, [Next]_vars
  PROVE  \A d \in Devices : Named(chan[d]) \subseteq Named(chan'[d])
<1> SUFFICES ASSUME NEW d \in Devices PROVE Named(chan[d]) \subseteq Named(chan'[d])
  OBVIOUS
<1>1. CASE chan' = chan
  BY <1>1
<1>2. ASSUME NEW p \in Procs, BulkWrite(p) PROVE Named(chan[d]) \subseteq Named(chan'[d])
  <2>1. job[p].dev \in Devices /\ job[p].write \in ChannelMap
    BY <1>2, ChannelMaps DEF BulkWrite, Working, TInv, Shape, ShapeOf, Job
  <2>2. chan' = chan \/ chan' = [chan EXCEPT ![job[p].dev] = Over(job[p].write, chan[job[p].dev])]
    BY <1>2 DEF BulkWrite
  <2> QED
    BY <2>1, <2>2, OverNames DEF TInv, TypeOK
<1>3. ASSUME NEW p \in Procs, NEW c \in Channels, SeedChannel(p, c)
      PROVE  Named(chan[d]) \subseteq Named(chan'[d])
  <2>1. job[p].dev \in Devices
    BY <1>3 DEF SeedChannel, Working, TInv, Shape, ShapeOf, Job
  <2>2. CASE chan' = [chan EXCEPT ![job[p].dev][c] = Default]
    <3>1. chan' = [chan EXCEPT ![job[p].dev] = [chan[job[p].dev] EXCEPT ![c] = Default]]
      BY <2>2 DEF TInv, TypeOK
    <3> QED
      BY <2>1, <3>1, ConstantsAssumption DEF TInv, TypeOK, Named, ChannelMap
  <2> QED
    BY <1>1, <1>3, <2>2 DEF SeedChannel
<1>4. ASSUME NEW p \in Procs, NEW S \in SUBSET Channels, Abort(p, S)
      PROVE  Named(chan[d]) \subseteq Named(chan'[d])
  <2>1. CASE /\ pc[p] = "write"
             /\ chan' = [chan EXCEPT ![job[p].dev] = Over(Only(job[p].write, S), chan[job[p].dev])]
    <3>1. job[p].dev \in Devices /\ Only(job[p].write, S) \in ChannelMap
      BY <2>1, ChannelMaps DEF Working, TInv, Shape, ShapeOf, Job
    <3> QED
      BY <2>1, <3>1, OverNames DEF TInv, TypeOK
  <2> QED
    BY <1>1, <1>4, <2>1 DEF Abort
<1>5. ASSUME NEW h \in Handlers, Arrive(h) PROVE chan' = chan
  BY <1>5, Arrives DEF Create, stores
<1> QED
  <2>1. ASSUME NEW p \in Procs, Step(p) PROVE Named(chan[d]) \subseteq Named(chan'[d])
    BY <1>1, <1>2, <1>3, <2>1
    DEF Step, Touch, CacheHit, CacheMiss, FindRow, FindChannels, Fill, Reread, SetCache,
        Emit, FindOne, Save, SoftRemove, FindTemplate, stores
  <2>2. ASSUME NEW s \in Sweeps, \/ SweepFind(s) \/ SweepMark(s)
                                \/ \E e \in Devices : SweepNext(s, e)
        PROVE  chan' = chan
    BY <2>2 DEF SweepFind, SweepMark, SweepNext, stores
  <2>3. CASE (\E e \in Devices : Expire(e) \/ Age(e)) \/ Relink \/ UNCHANGED vars
    BY <1>1, <2>3 DEF Expire, Age, Relink, vars, stores
  <2> QED
    BY <1>1, <1>4, <1>5, <2>1, <2>2, <2>3 DEF Next

\* The others' POSTs keep what they have made.
LEMMA SeededFrame ==
  ASSUME TInv, [Next]_vars, NEW q \in Procs, SeededOf(q),
         pc'[q] = pc[q], job'[q] = job[q], loc'[q] = loc[q]
  PROVE  SeededOf(q)'
<1>1. pc[q] = "seed" => job[q].dev \in Devices
  BY DEF TInv, Shape, ShapeOf, Working, Job
<1> QED
  BY <1>1, NamesStay DEF SeededOf

\* One channel more is there, and one fewer left.
LEMMA SeedMakes ==
  ASSUME TInv, NEW p \in Procs, NEW c \in Channels, SeedChannel(p, c), chan' # chan
  PROVE  Named(chan'[job[p].dev]) = Named(chan[job[p].dev]) \cup {c}
<1> DEFINE d == job[p].dev
<1>1. d \in Devices
  BY DEF SeedChannel, Working, TInv, Shape, ShapeOf, Job
<1>2. chan' = [chan EXCEPT ![d] = [chan[d] EXCEPT ![c] = Default]]
  BY DEF SeedChannel, TInv, TypeOK
<1>3. Default # None /\ chan[d] \in ChannelMap
  BY <1>1, ConstantsAssumption DEF TInv, TypeOK
<1> QED
  BY <1>1, <1>2, <1>3 DEF TInv, TypeOK, Named, ChannelMap

LEMMA SeededInit == Init => SInv
  BY TypeInit DEF Init, SInv, SeededOf

LEMMA SeededStep == SInv /\ [Next]_vars => SInv'
<1> SUFFICES ASSUME TInv, [Next]_vars, NEW p \in Procs, \A q \in Procs : SeededOf(q)
             PROVE  SeededOf(p)'
  BY TypeStep DEF SInv
<1>0. SeededOf(p) /\ loc[p] \in Locals
  BY DEF TInv, TypeOK
<1>1. CASE pc'[p] = pc[p] /\ job'[p] = job[p] /\ loc'[p] = loc[p]
  BY <1>1, SeededFrame
<1>2. CASE pc'[p] # "seed"
  BY <1>2 DEF SeededOf
<1>3. ASSUME NEW q \in Procs, Step(q) PROVE SeededOf(p)'
  <2>1. CASE q # p
    BY <1>1, <1>3, <2>1, StepLocal
  <2>2. CASE FindTemplate(p)
    <3>1. CASE loc' = [loc EXCEPT ![p].left = Declares[job[p].dto.template]] /\ job' = job
      <4> DEFINE names == Declares[job[p].dto.template]
      <4>1. loc' = [loc EXCEPT ![p] = [loc[p] EXCEPT !.left = names]]
        BY <3>1 DEF TInv, TypeOK
      <4>2. loc'[p].left = names
        BY <1>0, <4>1 DEF TInv, TypeOK, Locals
      <4> QED
        BY <3>1, <4>2 DEF SeededOf
    <3> QED
      BY <1>2, <2>2, <3>1 DEF FindTemplate, Finish, TInv, TypeOK
  <2>3. ASSUME NEW c \in Channels, SeedChannel(p, c) PROVE SeededOf(p)'
    <3>1. CASE Finish(p) \/ Throw(p)
      BY <1>2, <3>1 DEF Finish, Throw, TInv, TypeOK
    <3>2. CASE /\ loc' = [loc EXCEPT ![p].left = @ \ {c}] /\ UNCHANGED <<pc, job>>
               /\ chan' = [chan EXCEPT ![job[p].dev][c] = Default] /\ chan[job[p].dev][c] = None
      <4> DEFINE f == loc[p].left \ {c}
      <4>1. loc' = [loc EXCEPT ![p] = [loc[p] EXCEPT !.left = f]]
        BY <3>2 DEF TInv, TypeOK
      <4>2. loc'[p].left = f
        BY <1>0, <4>1 DEF TInv, TypeOK, Locals
      <4>3. chan' # chan
        <5>1. job[p].dev \in Devices
          BY <2>3 DEF SeedChannel, Working, TInv, Shape, ShapeOf, Job
        <5>2. chan'[job[p].dev][c] = Default
          BY <3>2, <5>1 DEF TInv, TypeOK, ChannelMap
        <5> QED
          BY <3>2, <5>2, ConstantsAssumption
      <4> QED
        <5>1. /\ Named(chan'[job[p].dev]) = Named(chan[job[p].dev]) \cup {c}
              /\ pc[p] = "seed" /\ job' = job
          BY <2>3, <3>2, <4>3, SeedMakes DEF SeedChannel
        <5> QED
          BY <1>0, <4>2, <5>1 DEF SeededOf
    <3> QED
      BY <2>3, <3>1, <3>2 DEF SeedChannel
  <2>4. CASE q = p /\ ~FindTemplate(p) /\ \A c \in Channels : ~SeedChannel(p, c)
    <3>1. CASE Finish(p) \/ Throw(p)
      BY <1>2, <3>1 DEF Finish, Throw, TInv, TypeOK
    <3>2. CASE \E v : Deliver(p, v) /\ ~(Finish(p) \/ Throw(p))
      BY <1>2, <3>2 DEF Deliver, Proceed, TInv, TypeOK
    <3>3. CASE /\ ~(Finish(p) \/ Throw(p)) /\ ~\E v : Deliver(p, v)
      BY <1>2, <1>3, <2>4, <3>3 DEF Step, Touch, CacheHit, CacheMiss, FindRow, FindChannels,
         Fill, BulkWrite, Reread, SetCache, Emit, FindOne, Save, SoftRemove, TInv, TypeOK
    <3> QED
      BY <3>1, <3>2, <3>3
  <2> QED
    BY <1>3, <2>1, <2>2, <2>3, <2>4
<1>4. ASSUME NEW h \in Handlers, Arrive(h) PROVE SeededOf(p)'
  <2>1. h \in Procs /\ loc' = loc /\ (h # p => pc'[p] = pc[p] /\ job'[p] = job[p]) /\ pc'[h] # "seed"
    BY <1>4, Arrives DEF Procs, Create, Enter, TInv, TypeOK
  <2> QED
    BY <1>1, <1>2, <2>1
<1>5. ASSUME NEW s \in Sweeps, \/ SweepFind(s) \/ SweepMark(s)
                              \/ \E d \in Devices : SweepNext(s, d)
      PROVE  SeededOf(p)'
  <2>1. s \in Procs /\ loc' = loc /\ (s # p => pc'[p] = pc[p] /\ job'[p] = job[p]) /\ pc'[s] # "seed"
    BY <1>5 DEF Procs, SweepFind, SweepMark, SweepNext, Enter, TInv, TypeOK
  <2> QED
    BY <1>1, <1>2, <2>1
<1>6. ASSUME NEW q \in Procs, NEW S \in SUBSET Channels, Abort(q, S) PROVE SeededOf(p)'
  BY <1>1, <1>2, <1>6 DEF Abort, Throw, TInv, TypeOK
<1>7. CASE (\E d \in Devices : Expire(d) \/ Age(d)) \/ Relink \/ UNCHANGED vars
  BY <1>1, <1>7 DEF Expire, Age, Relink, vars
<1> QED
  BY <1>3, <1>4, <1>5, <1>6, <1>7 DEF Next

\* The last insert of a POST is the step that returns and still writes.
LEMMA CreateStep ==
  ASSUME SInv, [Next]_vars, NEW p \in Procs, pc[p] = "seed", pc'[p] = "idle", chan' # chan
  PROVE  Declares[job[p].dto.template] \subseteq Named(chan'[job[p].dev])
<1>1. TInv /\ SeededOf(p)
  BY DEF SInv
<1>2. PICK q \in Procs : Step(q) \/ \E S \in SUBSET Channels : Abort(q, S)
  <2>1. \A h \in Handlers : ~Arrive(h)
    BY Arrives DEF Create, stores
  <2>2. \A s \in Sweeps : ~SweepFind(s) /\ ~SweepMark(s) /\ \A d \in Devices : ~SweepNext(s, d)
    BY DEF SweepFind, SweepMark, SweepNext, stores
  <2>3. (\A d \in Devices : ~Expire(d) /\ ~Age(d)) /\ ~Relink /\ ~UNCHANGED vars
    BY DEF Expire, Age, Relink, vars, stores
  <2> QED
    BY <2>1, <2>2, <2>3 DEF Next
<1>3. q = p
  BY <1>1, <1>2, StepLocal DEF Abort, Throw, TInv, TypeOK
<1>4. PICK c \in Channels : SeedChannel(p, c)
  BY <1>2, <1>3 DEF Abort, Step, Touch, CacheHit, CacheMiss, FindRow, FindChannels, Fill,
     BulkWrite, Reread, SetCache, Emit, FindOne, Save, SoftRemove, FindTemplate
<1>5. loc[p].left = {c}
  BY <1>4 DEF SeedChannel
<1>6. Named(chan'[job[p].dev]) = Named(chan[job[p].dev]) \cup {c}
  BY <1>1, <1>4, SeedMakes
<1> QED
  BY <1>1, <1>5, <1>6 DEF SeededOf

\* A POST that returns leaves every channel its template declares, whatever
\* messages, expiries and failed writes happen on the device meanwhile.
THEOREM CreationComplete == Spec => CreateIsComplete
<1>1. Init => SInv
  BY SeededInit
<1>2. SInv /\ [Next]_vars => SInv'
  BY SeededStep
<1>3. SInv /\ [Next]_vars =>
        [\A p \in Procs :
           pc[p] = "seed" /\ pc'[p] = "idle" /\ chan' # chan =>
             Declares[job[p].dto.template] \subseteq Named(chan'[job[p].dev])]_vars
  BY CreateStep
<1> QED
  BY <1>1, <1>2, <1>3, PTL DEF Spec, CreateIsComplete

-----------------------------------------------------------------------------
(* What leaves the server is what is stored *)

\* A handler holds deviceData from its first lookup to the event it sends.
HeldOf(p) ==
  /\ loc[p].held # None => pc[p] \in {"write", "reread"} \/ loc[p].rounds > 0
  /\ pc[p] = "emit" => loc[p].rounds > 0

Full(e) == e = None \/ e.info # None

\* A writer that knows its device, and still finds it, reads whole entries;
\* a heartbeat that knows it refreshes with all the stored channels.
Complete(p, d) ==
  /\ loc[p].held # None /\ ChangesChannels(job[p]) /\ Live(d) =>
       /\ Full(cache[d])
       /\ pc[p] \in {"findChannels", "fill", "set", "emit"} =>
            loc[p].got # None /\ loc[p].got.info # None
  /\ loc[p].held # None /\ ~ChangesChannels(job[p]) => loc[p].upd = chan[d]

AInv ==
  /\ IInv
  /\ \A p \in Procs : HeldOf(p)
  /\ \A d \in Devices : ~dirty[d] => \A p \in Procs : WorksOn(p, d) => Complete(p, d)

\* How the handlers change their locals, field by field.
LEMMA LocalsSteps ==
  ASSUME NEW l \in Locals, NEW u, NEW v, NEW n
  PROVE  /\ [l EXCEPT !.got = v].held = l.held
         /\ LET m == [l EXCEPT !.got = v] IN
              m.got = v /\ m.upd = l.upd /\ m.rounds = l.rounds
         /\ LET m == [l EXCEPT !.got = None, !.held = v] IN
              m.held = v /\ m.upd = l.upd /\ m.rounds = l.rounds
         /\ LET m == [l EXCEPT !.got = None, !.held = v, !.upd = u, !.rounds = n] IN
              m.held = v /\ m.upd = u /\ m.rounds = n
         /\ LET m == [l EXCEPT !.upd = u, !.rounds = n] IN
              m.held = l.held /\ m.upd = u /\ m.rounds = n
         /\ LET m == [l EXCEPT !.got = None, !.rounds = n] IN
              m.held = l.held /\ m.upd = l.upd /\ m.rounds = n
         /\ [l EXCEPT !.found = v].held = l.held
         /\ [l EXCEPT !.left = v].held = l.held
  BY DEF Locals

\* The first lookup gives a handler its deviceData, and the last refresh comes
\* before the event.
LEMMA OwnHeld ==
  ASSUME TInv, Control, NEW p \in Procs, Step(p), HeldOf(p)
  PROVE  HeldOf(p)'
<1>1. loc[p] \in Locals /\ job[p] \in Job /\ ControlOf(p)
  BY StepLocal DEF TInv, TypeOK, Control
<1>2. CASE Finish(p) \/ Throw(p)
  <2>1. loc'[p] = NoLocals /\ pc'[p] \in {"idle", "sweep"}
    BY <1>2 DEF Finish, Throw, TInv, TypeOK
  <2> QED
    BY <2>1 DEF HeldOf, NoLocals
<1>3. CASE /\ \E v : loc' = [loc EXCEPT ![p].got = v] \/ loc' = [loc EXCEPT ![p].found = v]
                    \/ loc' = [loc EXCEPT ![p].left = v]
           /\ pc[p] \notin {"write", "reread"} /\ pc'[p] # "emit"
  <2>1. PICK v : \/ loc' = [loc EXCEPT ![p] = [loc[p] EXCEPT !.got = v]]
                 \/ loc' = [loc EXCEPT ![p] = [loc[p] EXCEPT !.found = v]]
                 \/ loc' = [loc EXCEPT ![p] = [loc[p] EXCEPT !.left = v]]
    BY <1>3 DEF TInv, TypeOK
  <2>2. loc'[p].held = loc[p].held /\ loc'[p].rounds = loc[p].rounds
    <3>1. \A f \in {[loc[p] EXCEPT !.got = v], [loc[p] EXCEPT !.found = v], [loc[p] EXCEPT !.left = v]} :
            f.held = loc[p].held /\ f.rounds = loc[p].rounds
      BY <1>1 DEF Locals
    <3> QED
      BY <2>1, <3>1 DEF TInv, TypeOK
  <2> QED
    BY <1>3, <2>2 DEF HeldOf
<1>4. ASSUME NEW v, Deliver(p, v), pc[p] \notin {"write", "reread"} PROVE HeldOf(p)'
  <2>1. CASE /\ pc' = [pc EXCEPT ![p] = "get"]
             /\ loc' = [loc EXCEPT ![p].got = None, ![p].held = v.info,
                                   ![p].upd = v.channels, ![p].rounds = 1]
    <3>1. loc' = [loc EXCEPT ![p] = [loc[p] EXCEPT !.got = None, !.held = v.info,
                                                  !.upd = v.channels, !.rounds = 1]]
      BY <2>1 DEF TInv, TypeOK
    <3>2. loc'[p].rounds = 1
      BY <1>1, <3>1, LocalsSteps DEF TInv, TypeOK
    <3> QED
      BY <2>1, <3>2 DEF HeldOf, TInv, TypeOK
  <2>2. CASE pc' = [pc EXCEPT ![p] = "write"]
    BY <2>2 DEF HeldOf, TInv, TypeOK
  <2>3. CASE pc' = [pc EXCEPT ![p] = "find"] \/ pc' = [pc EXCEPT ![p] = "set"]
    <3>1. pc'[p] # "emit" /\ \E x : loc' = [loc EXCEPT ![p].got = x]
      BY <1>4, <2>3 DEF Deliver, Proceed, Finish, Throw, TInv, TypeOK
    <3> QED
      BY <1>3, <1>4, <3>1
  <2> QED
    BY <1>2, <1>4, <2>1, <2>2, <2>3 DEF Deliver, Proceed
<1>5. CASE CacheHit(p) \/ Fill(p) \/ (FindRow(p) /\ Deliver(p, None))
  BY <1>4, <1>5 DEF CacheHit, Fill, FindRow
<1>6. CASE \/ Touch(p) \/ CacheMiss(p)
           \/ BulkWrite(p) /\ pc' = [pc EXCEPT ![p] = "reread"] /\ UNCHANGED loc
  BY <1>1, <1>6 DEF Touch, CacheMiss, BulkWrite, HeldOf, ControlOf, TInv, TypeOK
<1>7. CASE \/ FindRow(p) /\ ~Deliver(p, None)
           \/ FindChannels(p)
           \/ FindOne(p) /\ ~Throw(p)
           \/ FindTemplate(p) /\ ~Finish(p)
           \/ ~(Finish(p) \/ Throw(p)) /\ \E c \in Channels : SeedChannel(p, c)
  <2>1. /\ \E v : loc' = [loc EXCEPT ![p].got = v] \/ loc' = [loc EXCEPT ![p].found = v]
                   \/ loc' = [loc EXCEPT ![p].left = v]
        /\ pc[p] \notin {"write", "reread"} /\ pc'[p] # "emit"
    <3>1. CASE FindChannels(p)
      <4>1. loc' = [loc EXCEPT ![p].got = [loc[p].got EXCEPT !.channels = chan[job[p].dev]]]
        BY <3>1 DEF FindChannels, TInv, TypeOK
      <4> QED
        BY <3>1, <4>1 DEF FindChannels, TInv, TypeOK
    <3>2. CASE ~FindChannels(p)
      BY <1>7, <3>2 DEF FindRow, FindOne, FindTemplate, SeedChannel, TInv, TypeOK
    <3> QED
      BY <3>1, <3>2
  <2> QED
    BY <1>3, <2>1
<1>8. CASE Reread(p)
  <2> DEFINE u == Only(chan[job[p].dev], Named(job[p].write))
             n == IF job[p].kind = "mqtt" THEN 2 ELSE 1
  <2>1. n > 0 /\ pc'[p] = "get"
    BY <1>8 DEF Reread, TInv, TypeOK
  <2>2. loc' = [loc EXCEPT ![p] = [loc[p] EXCEPT !.upd = u, !.rounds = n]]
    BY <1>8 DEF Reread, TInv, TypeOK
  <2> HIDE DEF u, n
  <2>3. loc'[p].rounds = n
    BY <1>1, <2>2, LocalsSteps DEF TInv, TypeOK
  <2> QED
    BY <2>1, <2>3 DEF HeldOf
<1>9. CASE SetCache(p)
  <2>1. loc[p].rounds > 0 /\ loc[p].rounds \in Nat
    BY <1>1, <1>9 DEF SetCache, TInv, Shape, ShapeOf, Locals
  <2>2. CASE UNCHANGED loc
    BY <2>1, <2>2 DEF HeldOf
  <2>3. CASE /\ loc[p].rounds > 1 /\ pc' = [pc EXCEPT ![p] = "get"]
             /\ loc' = [loc EXCEPT ![p].got = None, ![p].rounds = @ - 1]
    <3> DEFINE n == loc[p].rounds - 1
    <3>1. n > 0 /\ loc' = [loc EXCEPT ![p] = [loc[p] EXCEPT !.got = None, !.rounds = n]]
      BY <1>1, <2>3 DEF TInv, TypeOK, Locals
    <3> HIDE DEF n
    <3>2. loc'[p].rounds = n
      BY <1>1, <3>1, LocalsSteps DEF TInv, TypeOK
    <3> QED
      BY <2>3, <3>1, <3>2 DEF HeldOf, TInv, TypeOK
  <2> QED
    BY <1>9, <2>2, <2>3 DEF SetCache
<1>10. CASE FindRow(p) \/ FindOne(p) \/ FindTemplate(p) \/ \E c \in Channels : SeedChannel(p, c)
  BY <1>2, <1>5, <1>7, <1>10
<1>11. CASE BulkWrite(p)
  BY <1>2, <1>6, <1>11 DEF BulkWrite
<1> QED
  BY <1>2, <1>5, <1>6, <1>7, <1>8, <1>9, <1>10, <1>11 DEF Step, Emit, Save, SoftRemove

\* Whoever does not move keeps what it knows: its device may lose its cache
\* entry, and while it writes, nobody else changes its row or its channels.
LEMMA CompleteFrame ==
  ASSUME NEW d, NEW q \in Procs, Complete(q, d),
         pc'[q] = pc[q], job'[q] = job[q], loc'[q] = loc[q],
         ~ChangesChannels(job[q]) => chan'[d] = chan[d],
         ChangesChannels(job[q]) => cache'[d] \in {cache[d], None} /\ (Live(d)' => Live(d))
  PROVE  Complete(q, d)'
  BY DEF Complete, Full, ChangesChannels

\* What getDeviceDataFromCache returns to p.
LEMMA DeliverComplete ==
  ASSUME TInv, Control, NEW p \in Procs, NEW d \in Devices, NEW v \in Entry \cup {None},
         WorksOn(p, d), Deliver(p, v), pc[p] \in {"get", "findRow", "fill"},
         HeldOf(p), Complete(p, d), UNCHANGED <<row, chan>>,
         v # None => cache'[d] = v,
         v = None => cache'[d] = cache[d] /\ ~Live(d),
         v # None /\ ~ChangesChannels(job[p]) /\ loc[p].rounds = 0 => Good(v, d, {}),
         loc[p].held # None /\ ChangesChannels(job[p]) /\ Live(d) => v # None /\ v.info # None
  PROVE  WorksOn(p, d)' => Complete(p, d)'
<1>1. loc[p] \in Locals /\ job[p] \in Job
  BY DEF TInv, TypeOK, Shape, ShapeOf, WorksOn
<1>2. CASE Finish(p) \/ Throw(p)
  BY <1>2 DEF Finish, Throw, TInv, TypeOK, WorksOn, Working
<1>3. CASE /\ loc[p].rounds = 0 /\ pc' = [pc EXCEPT ![p] = "find"]
           /\ loc' = [loc EXCEPT ![p].got = None] /\ UNCHANGED job
  <2>1. loc' = [loc EXCEPT ![p] = [loc[p] EXCEPT !.got = None]]
    BY <1>3 DEF TInv, TypeOK
  <2>2. loc'[p].held = loc[p].held /\ pc'[p] = "find"
    BY <1>1, <1>3, <2>1, LocalsSteps DEF TInv, TypeOK
  <2>3. loc[p].held = None
    BY <1>3 DEF HeldOf
  <2> QED
    BY <2>2, <2>3 DEF Complete
<1>4. CASE /\ Serves(job[p], v) /\ job[p].write # NoChannels
           /\ pc' = [pc EXCEPT ![p] = "write"]
           /\ loc' = [loc EXCEPT ![p].got = None, ![p].held = v.info] /\ UNCHANGED job
  <2>1. loc' = [loc EXCEPT ![p] = [loc[p] EXCEPT !.got = None, !.held = v.info]]
    BY <1>4 DEF TInv, TypeOK
  <2>2. loc'[p].held = v.info /\ pc'[p] = "write"
    BY <1>1, <1>4, <2>1, LocalsSteps DEF TInv, TypeOK
  <2>3. v # None /\ cache'[d] = v /\ ChangesChannels(job[p])'
    BY <1>4 DEF Serves, ChangesChannels
  <2> QED
    BY <2>2, <2>3 DEF Complete, Full
<1>5. CASE /\ Serves(job[p], v) /\ job[p].kind = "mqtt" /\ job[p].write = NoChannels
           /\ loc[p].rounds = 0 /\ pc' = [pc EXCEPT ![p] = "get"] /\ UNCHANGED job
           /\ loc' = [loc EXCEPT ![p].got = None, ![p].held = v.info,
                                 ![p].upd = v.channels, ![p].rounds = 1]
  <2>1. loc' = [loc EXCEPT ![p] = [loc[p] EXCEPT !.got = None, !.held = v.info,
                                                !.upd = v.channels, !.rounds = 1]]
    BY <1>5 DEF TInv, TypeOK
  <2>2. loc'[p].held = v.info /\ loc'[p].upd = v.channels /\ loc'[p].rounds = 1 /\ pc'[p] = "get"
    BY <1>1, <1>5, <2>1, LocalsSteps DEF TInv, TypeOK
  <2>3. v \in Entry /\ ~ChangesChannels(job[p]) /\ ~ChangesChannels(job[p])' /\ Good(v, d, {})
    BY <1>5 DEF Serves, ChangesChannels
  <2>4. v # None /\ v.channels \in ChannelMap /\ chan[d] \in ChannelMap
    BY <1>5, <2>3 DEF Serves, Entry, TInv, TypeOK
  <2>5. v.info # None => v.channels = chan[d]
    BY <2>3, <2>4 DEF Good, ChannelMap
  <2> QED
    BY <2>2, <2>3, <2>5 DEF Complete
<1>6. CASE /\ loc[p].rounds > 0 /\ pc' = [pc EXCEPT ![p] = "set"]
           /\ loc' = [loc EXCEPT ![p].got = v] /\ UNCHANGED job
  <2>1. loc' = [loc EXCEPT ![p] = [loc[p] EXCEPT !.got = v]]
    BY <1>6 DEF TInv, TypeOK
  <2>2. /\ loc'[p].held = loc[p].held /\ loc'[p].upd = loc[p].upd /\ loc'[p].got = v
        /\ loc'[p].rounds = loc[p].rounds /\ pc'[p] = "set" /\ job'[p] = job[p]
    BY <1>1, <1>6, <2>1, LocalsSteps DEF TInv, TypeOK
  <2>3. Live(d)' <=> Live(d)
    BY DEF Live
  <2>4. loc[p].held # None /\ ChangesChannels(job[p]) /\ Live(d) => Full(cache'[d])
    BY DEF Full
  <2> QED
    BY <1>6, <2>2, <2>3, <2>4 DEF Complete, Full, ChangesChannels
<1> QED
  BY <1>2, <1>3, <1>4, <1>5, <1>6 DEF Deliver, Proceed

\* The steps of p itself.
LEMMA OwnComplete ==
  ASSUME TInv, Control, NEW p \in Procs, NEW d \in Devices, WorksOn(p, d), Step(p),
         HeldOf(p), ~dirty[d], Undisturbed(d), Complete(p, d)
  PROVE  WorksOn(p, d)' => Complete(p, d)'
<1>1. /\ loc[p] \in Locals /\ job[p] \in Job /\ job[p].dev = d /\ InStep(p, d) /\ ControlOf(p)
      /\ Good(cache[d], d, Pending(p))
  BY Known DEF TInv, TypeOK, Shape, ShapeOf, WorksOn, Undisturbed, Control
<1>2. CASE Finish(p) \/ Throw(p)
  BY <1>2 DEF Finish, Throw, TInv, TypeOK, WorksOn, Working
<1>3. ASSUME loc'[p].held = None PROVE WorksOn(p, d)' => Complete(p, d)'
  BY <1>3 DEF Complete
<1>4. CASE Touch(p)
  <2>1. loc[p].held = None /\ loc' = loc /\ pc'[p] = "get"
    BY <1>1, <1>4 DEF Touch, HeldOf, ControlOf, TInv, TypeOK
  <2> QED
    BY <1>3, <2>1
<1>5. CASE CacheHit(p)
  <2>1. cache[d] \in Entry /\ cache[d] # None /\ Deliver(p, cache[d]) /\ pc[p] = "get"
        /\ UNCHANGED <<row, chan, cache>>
    BY <1>1, <1>5 DEF CacheHit, stores, TInv, TypeOK
  <2>2. loc[p].rounds = 0 => Good(cache[d], d, {})
    BY <1>1, <2>1 DEF Pending
  <2>3. loc[p].held # None /\ ChangesChannels(job[p]) /\ Live(d) => cache[d].info # None
    BY <2>1 DEF Complete, Full
  <2> QED
    BY <2>1, <2>2, <2>3, DeliverComplete
<1>6. CASE CacheMiss(p)
  <2>1. /\ pc[p] = "get" /\ pc'[p] = "findRow" /\ job' = job /\ loc' = loc
        /\ UNCHANGED <<row, chan, cache>>
    BY <1>6 DEF CacheMiss, stores, TInv, TypeOK
  <2> QED
    BY <2>1 DEF Complete, Full, ChangesChannels, Live
<1>7. CASE FindRow(p) /\ ~Live(d) /\ Deliver(p, None)
  <2>1. None \in Entry \cup {None} /\ pc[p] = "findRow" /\ UNCHANGED <<row, chan, cache>>
    BY <1>7 DEF FindRow, stores
  <2> QED
    BY <1>7, <2>1, DeliverComplete
<1>8. CASE FindRow(p) /\ Live(d) /\ pc' = [pc EXCEPT ![p] = "findChannels"] /\ UNCHANGED job
           /\ loc' = [loc EXCEPT ![p].got = [info |-> InfoOf(row[d]), channels |-> NoChannels]]
  <2> DEFINE e == [info |-> InfoOf(row[d]), channels |-> NoChannels]
  <2>1. pc[p] = "findRow" /\ UNCHANGED <<row, chan, cache>> /\ pc'[p] = "findChannels" /\ job' = job
    BY <1>8 DEF FindRow, stores, TInv, TypeOK
  <2>2. e # None /\ e.info # None
    <3>1. row[d] \in Row
      BY <1>8 DEF Live, TInv, TypeOK
    <3>2. InfoOf(row[d]) \in Info
      BY <3>1 DEF Row, Info, InfoOf
    <3>3. e \in Entry
      BY <3>2, ChannelMaps DEF Entry
    <3> QED
      BY <3>2, <3>3, NoneAssumption
  <2> HIDE DEF e
  <2>3. loc' = [loc EXCEPT ![p] = [loc[p] EXCEPT !.got = e]]
    BY <1>8 DEF TInv, TypeOK, e
  <2>4. /\ loc'[p].held = loc[p].held /\ loc'[p].upd = loc[p].upd /\ loc'[p].got = e
        /\ loc'[p].rounds = loc[p].rounds
    BY <1>1, <2>3, LocalsSteps DEF TInv, TypeOK
  <2> QED
    BY <2>1, <2>2, <2>4 DEF Complete, Full, ChangesChannels, Live
<1>9. CASE FindChannels(p)
  <2> DEFINE e == [loc[p].got EXCEPT !.channels = chan[d]]
  <2>1. /\ pc[p] = "findChannels" /\ UNCHANGED <<row, chan, cache>> /\ pc'[p] = "fill" /\ job' = job
        /\ loc[p].got \in Entry
    BY <1>9 DEF FindChannels, stores, TInv, TypeOK, Shape, ShapeOf
  <2>2. e \in Entry /\ e.info = loc[p].got.info /\ e # None
    BY <2>1, NoneAssumption DEF Entry, TInv, TypeOK
  <2>3. loc' = [loc EXCEPT ![p] = [loc[p] EXCEPT !.got = e]]
    BY <1>1, <1>9 DEF FindChannels, TInv, TypeOK
  <2> HIDE DEF e
  <2>4. /\ loc'[p].held = loc[p].held /\ loc'[p].upd = loc[p].upd /\ loc'[p].got = e
        /\ loc'[p].rounds = loc[p].rounds
    BY <1>1, <2>3, LocalsSteps DEF TInv, TypeOK
  <2> QED
    BY <2>1, <2>2, <2>4 DEF Complete, Full, ChangesChannels, Live
<1>10. CASE Fill(p)
  <2>1. /\ pc[p] = "fill" /\ UNCHANGED <<row, chan>> /\ loc[p].got \in Entry
        /\ Deliver(p, loc[p].got) /\ cache'[d] = loc[p].got /\ loc[p].got # None
    BY <1>1, <1>10, NoneAssumption DEF Fill, TInv, TypeOK, Shape, ShapeOf
  <2>2. Good(loc[p].got, d, {})
    BY <1>1, <2>1 DEF InStep
  <2>3. loc[p].held # None /\ ChangesChannels(job[p]) /\ Live(d) => loc[p].got.info # None
    BY <2>1 DEF Complete
  <2> QED
    BY <2>1, <2>2, <2>3, DeliverComplete
<1>11. CASE BulkWrite(p) /\ pc' = [pc EXCEPT ![p] = "reread"] /\ UNCHANGED <<job, loc>>
  <2>1. /\ pc[p] = "write" /\ pc'[p] = "reread" /\ job' = job /\ loc' = loc
        /\ UNCHANGED <<row, cache>> /\ ChangesChannels(job[p])
    BY <1>1, <1>11 DEF BulkWrite, TInv, TypeOK, ControlOf
  <2> QED
    BY <2>1 DEF Complete, Full, ChangesChannels, Live
<1>12. CASE Reread(p)
  <2> DEFINE u == Only(chan[d], Named(job[p].write))
             n == IF job[p].kind = "mqtt" THEN 2 ELSE 1
  <2>1. /\ pc'[p] = "get" /\ job' = job /\ UNCHANGED <<row, chan, cache>> /\ ChangesChannels(job[p])
        /\ n > 0
    BY <1>1, <1>12 DEF Reread, TInv, TypeOK, ControlOf, stores
  <2>2. loc' = [loc EXCEPT ![p] = [loc[p] EXCEPT !.upd = u, !.rounds = n]]
    BY <1>1, <1>12 DEF Reread, TInv, TypeOK
  <2> HIDE DEF u, n
  <2>3. loc'[p].held = loc[p].held /\ loc'[p].rounds = n
    BY <1>1, <2>2, LocalsSteps DEF TInv, TypeOK
  <2> QED
    BY <2>1, <2>3 DEF Complete, Full, ChangesChannels, Live
<1>13. CASE SetCache(p)
  <2> DEFINE m == MergeInto(loc[p].got, loc[p].upd)
  <2>1. pc[p] = "set" /\ cache'[d] = m /\ UNCHANGED <<row, chan>> /\ job' = job /\ loc[p].rounds > 0
    BY <1>1, <1>13 DEF SetCache, TInv, TypeOK, Shape, ShapeOf
  <2>2. loc[p].got # None => m.info = loc[p].got.info
    BY <1>1 DEF MergeInto, Locals, Entry
  <2> HIDE DEF m
  <2>3. CASE pc' = [pc EXCEPT ![p] = "emit"] /\ UNCHANGED loc
    BY <2>1, <2>2, <2>3 DEF Complete, Full, ChangesChannels, Live, TInv, TypeOK
  <2>4. CASE /\ loc[p].rounds > 1 /\ pc' = [pc EXCEPT ![p] = "get"]
             /\ loc' = [loc EXCEPT ![p].got = None, ![p].rounds = @ - 1]
    <3> DEFINE n == loc[p].rounds - 1
    <3>1. n > 0 /\ loc' = [loc EXCEPT ![p] = [loc[p] EXCEPT !.got = None, !.rounds = n]]
      BY <1>1, <2>4 DEF TInv, TypeOK, Locals
    <3> HIDE DEF n
    <3>2. loc'[p].held = loc[p].held /\ loc'[p].upd = loc[p].upd /\ loc'[p].rounds = n
      BY <1>1, <3>1, LocalsSteps DEF TInv, TypeOK
    <3>3. pc'[p] = "get"
      BY <2>4 DEF TInv, TypeOK
    <3> QED
      BY <2>1, <2>2, <3>2, <3>3 DEF Complete, Full, ChangesChannels, Live
  <2> QED
    BY <1>13, <2>3, <2>4 DEF SetCache
<1>14. CASE FindOne(p) /\ pc' = [pc EXCEPT ![p] = "save"] /\ loc' = [loc EXCEPT ![p].found = row[d]]
  <2>1. loc' = [loc EXCEPT ![p] = [loc[p] EXCEPT !.found = row[d]]]
    BY <1>14 DEF TInv, TypeOK
  <2>2. loc'[p].held = loc[p].held /\ pc'[p] = "save"
    BY <1>1, <1>14, <2>1, LocalsSteps DEF TInv, TypeOK
  <2>3. loc[p].held = None
    BY <1>1, <1>14 DEF FindOne, HeldOf, ControlOf
  <2> QED
    BY <1>3, <2>2, <2>3
<1>15. CASE /\ pc[p] \in {"template", "seed"} /\ pc'[p] = "seed"
            /\ \E S : loc' = [loc EXCEPT ![p].left = S]
  <2>1. PICK S : loc' = [loc EXCEPT ![p] = [loc[p] EXCEPT !.left = S]]
    BY <1>15 DEF TInv, TypeOK
  <2>2. loc'[p].held = loc[p].held
    BY <1>1, <2>1, LocalsSteps DEF TInv, TypeOK
  <2>3. loc[p].held = None
    BY <1>1, <1>15 DEF HeldOf, ControlOf
  <2> QED
    BY <1>3, <1>15, <2>2, <2>3
<1>16. CASE FindRow(p) \/ BulkWrite(p) \/ FindOne(p)
  BY <1>1, <1>2, <1>7, <1>8, <1>11, <1>14, <1>16 DEF FindRow, BulkWrite, FindOne
<1>17. CASE FindTemplate(p) \/ \E c \in Channels : SeedChannel(p, c)
  BY <1>2, <1>15, <1>17 DEF FindTemplate, SeedChannel, TInv, TypeOK
<1> QED
  BY <1>2, <1>4, <1>5, <1>6, <1>9, <1>10, <1>12, <1>13, <1>16, <1>17
  DEF Step, Emit, Save, SoftRemove

\* Only handlers that write channels change channel documents.
LEMMA WhoWrites ==
  ASSUME TInv, Control, NEW p \in Procs,
         Step(p) \/ \E S \in SUBSET Channels : Abort(p, S), chan' # chan
  PROVE  Working(p) /\ ChangesChannels(job[p])
<1>1. pc[p] \in {"write", "seed"}
  <2>1. CASE BulkWrite(p) \/ (\E c \in Channels : SeedChannel(p, c)) \/ \E S \in SUBSET Channels : Abort(p, S)
    BY <2>1 DEF BulkWrite, SeedChannel, Abort
  <2>2. \/ Touch(p) \/ CacheHit(p) \/ CacheMiss(p) \/ FindRow(p) \/ FindChannels(p) \/ Fill(p)
        \/ Reread(p) \/ SetCache(p) \/ Emit(p) \/ FindOne(p) \/ Save(p) \/ SoftRemove(p)
        \/ FindTemplate(p)
        => chan' = chan
    BY DEF Touch, CacheHit, CacheMiss, FindRow, FindChannels, Fill, Reread,
       SetCache, Emit, FindOne, Save, SoftRemove, FindTemplate, stores
  <2> QED
    BY <2>1, <2>2 DEF Step
<1> QED
  BY <1>1 DEF Control, ControlOf, Working, ChangesChannels

\* A step of p, finished or broken off, does not disturb what another handler
\* q of an undisturbed device knows.
LEMMA OthersComplete ==
  ASSUME TInv, Control, NEW p \in Procs, NEW q \in Procs \ {p}, NEW d \in Devices,
         Undisturbed(d), WorksOn(q, d), Complete(q, d),
         Step(p) \/ \E S \in SUBSET Channels : Abort(p, S)
  PROVE  Complete(q, d)'
<1>1. pc'[q] = pc[q] /\ job'[q] = job[q] /\ loc'[q] = loc[q]
  BY StepLocal DEF Abort, Throw, TInv, TypeOK
<1>2. CASE WorksOn(p, d)
  <2>1. ~ChangesChannels(job[p]) /\ ~ChangesChannels(job[q])
    BY <1>2 DEF Undisturbed, Alone
  <2>2. chan' = chan
    BY <2>1, WhoWrites
  <2> QED
    BY <1>1, <2>1, <2>2, CompleteFrame
<1>3. CASE ~WorksOn(p, d)
  <2>1. chan'[d] = chan[d] /\ cache'[d] = cache[d] /\ row'[d] = row[d]
    <3>1. CASE Step(p)
      BY <1>3, <3>1, StepLocal, StepRows DEF WorksOn
    <3>2. CASE \E S \in SUBSET Channels : Abort(p, S)
      BY <1>3, <3>2 DEF Abort, WorksOn, Working, TInv, TypeOK
    <3> QED
      BY <3>1, <3>2
  <2> QED
    BY <1>1, <2>1, CompleteFrame DEF Live
<1> QED
  BY <1>2, <1>3

LEMMA AnnounceInit == Init => AInv
<1> SUFFICES ASSUME Init PROVE AInv
  OBVIOUS
<1>1. \A p \in Procs : pc[p] = "idle" /\ loc[p].held = None
  BY DEF Init, NoLocals
<1> QED
  BY <1>1, CoherentInit DEF AInv, HeldOf, WorksOn, Working

LEMMA HeldStep ==
  ASSUME AInv, [Next]_vars, NEW p \in Procs
  PROVE  HeldOf(p)'
<1>1. TInv /\ Control /\ HeldOf(p) /\ ControlOf(p)
  BY DEF AInv, IInv, Control
<1>2. CASE pc'[p] = pc[p] /\ loc'[p] = loc[p]
  BY <1>1, <1>2 DEF HeldOf
<1>3. CASE ~Working(p) /\ loc'[p] = loc[p] /\ pc'[p] # "emit"
  BY <1>1, <1>3 DEF HeldOf, ControlOf, Working
<1>4. ASSUME NEW q \in Procs, Step(q) PROVE HeldOf(p)'
  BY <1>1, <1>2, <1>4, StepLocal, OwnHeld
<1>5. ASSUME NEW h \in Handlers, Arrive(h) PROVE HeldOf(p)'
  <2>1. h \in Procs /\ loc' = loc /\ (h # p => pc'[p] = pc[p]) /\ ~Working(h) /\ pc'[h] # "emit"
    BY <1>1, <1>5, Arrives DEF Procs, Create, Enter, Working, TInv, TypeOK, stores
  <2> QED
    BY <1>2, <1>3, <2>1
<1>6. ASSUME NEW s \in Sweeps, \/ SweepFind(s) \/ SweepMark(s)
                              \/ \E d \in Devices : SweepNext(s, d)
      PROVE  HeldOf(p)'
  <2>1. s \in Procs /\ loc' = loc /\ (s # p => pc'[p] = pc[p]) /\ ~Working(s) /\ pc'[s] # "emit"
    BY <1>1, <1>6 DEF Procs, SweepFind, SweepMark, SweepNext, Enter, Working, TInv, TypeOK
  <2> QED
    BY <1>2, <1>3, <2>1
<1>7. ASSUME NEW q \in Procs, NEW S \in SUBSET Channels, Abort(q, S) PROVE HeldOf(p)'
  <2>1. CASE q = p
    <3>1. loc'[p] = NoLocals /\ pc'[p] = "idle"
      BY <1>1, <1>7, <2>1 DEF Abort, Throw, TInv, TypeOK
    <3> QED
      BY <3>1 DEF HeldOf, NoLocals
  <2>2. CASE q # p
    BY <1>1, <1>2, <1>7, <2>2 DEF Abort, Throw, TInv, TypeOK
  <2> QED
    BY <2>1, <2>2
<1>8. CASE (\E d \in Devices : Expire(d) \/ Age(d)) \/ Relink \/ UNCHANGED vars
  BY <1>2, <1>8 DEF Expire, Age, Relink, vars
<1> QED
  BY <1>4, <1>5, <1>6, <1>7, <1>8 DEF Next

LEMMA AnnounceStep == AInv /\ [Next]_vars => AInv'
<1> SUFFICES ASSUME AInv, [Next]_vars PROVE AInv'
  OBVIOUS
<1>1. TInv /\ Control /\ IInv /\ \A q \in Procs : HeldOf(q) /\ ControlOf(q)
  BY DEF AInv, IInv, Control
<1>2. IInv' /\ \A q \in Procs : HeldOf(q)'
  BY <1>1, CoherentStep, HeldStep
<1> SUFFICES ASSUME NEW d \in Devices, ~dirty'[d], NEW q \in Procs, WorksOn(q, d)'
             PROVE  Complete(q, d)'
  BY <1>2 DEF AInv
<1>3. ASSUME ~dirty[d], NEW r \in Procs, WorksOn(r, d)
      PROVE  Undisturbed(d) /\ Complete(r, d)
  BY <1>3 DEF AInv, IInv
<1>4. CASE loc'[q].held = None
  BY <1>4 DEF Complete
<1>5. \A r \in Procs : ~Working(r) => loc[r].held = None
  BY <1>1 DEF HeldOf, ControlOf, Working
<1>6. CASE /\ ~dirty[d] /\ WorksOn(q, d) /\ UNCHANGED chan
           /\ pc'[q] = pc[q] /\ job'[q] = job[q] /\ loc'[q] = loc[q]
           /\ cache'[d] \in {cache[d], None} /\ (Live(d)' => Live(d))
  BY <1>3, <1>6, CompleteFrame
<1>7. ASSUME NEW p \in Procs, ~Working(p), NEW j, j.dev \in Devices, NEW stage,
             Enter(p, j, stage), UNCHANGED <<stores, loc>>
      PROVE  Complete(q, d)'
  <2>1. CASE q = p
    BY <1>4, <1>5, <1>7, <2>1
  <2>2. CASE q # p
    <3>1. pc'[q] = pc[q] /\ job'[q] = job[q] /\ loc'[q] = loc[q] /\ WorksOn(q, d)
      BY <1>1, <1>7, <2>2 DEF Enter, TInv, TypeOK, WorksOn, Working
    <3>2. ~dirty[d]
      BY <1>1, <1>7, <3>1 DEF Enter, Busy, TInv, TypeOK
    <3> QED
      BY <1>6, <1>7, <3>1, <3>2 DEF stores, Live
  <2> QED
    BY <2>1, <2>2
<1>8. ASSUME NEW h \in Handlers, Arrive(h) PROVE Complete(q, d)'
  <2>0. h \in Procs
    BY DEF Procs
  <2>1. CASE \E e \in Devices, u \in Users, t \in Templates : Create(h, e, u, t)
    <3> PICK e \in Devices, u \in Users, t \in Templates : Create(h, e, u, t)
      BY <2>1
    <3>1. /\ ~Working(h) /\ UNCHANGED <<chan, cache, loc>>
          /\ \A r \in Procs \ {h} : pc'[r] = pc[r] /\ job'[r] = job[r]
      BY <1>1 DEF Create, Working, TInv, TypeOK
    <3>2. CASE q = h
      BY <1>4, <1>5, <3>1, <3>2
    <3>3. CASE q # h
      <4>1. WorksOn(q, d) /\ pc'[q] = pc[q] /\ job'[q] = job[q]
        BY <3>1, <3>3 DEF WorksOn, Working
      <4>2. ~dirty[d] /\ d # e
        BY <1>1, <4>1 DEF Create, Busy, TInv, TypeOK
      <4>3. row'[d] = row[d]
        BY <1>1, <4>2 DEF Create, TInv, TypeOK
      <4> QED
        BY <1>6, <3>1, <4>1, <4>2, <4>3 DEF Live
    <3> QED
      BY <3>2, <3>3
  <2> QED
    BY <1>7, <1>8, <2>0, <2>1, Arrives
<1>9. ASSUME NEW p \in Procs, Step(p) PROVE Complete(q, d)'
  <2>1. ~dirty[d] /\ WorksOn(q, d)
    BY <1>1, <1>9, StepLocal DEF WorksOn, Working
  <2> QED
    BY <1>1, <1>3, <1>9, <2>1, OwnComplete, OthersComplete
<1>10. ASSUME NEW p \in Procs, NEW S \in SUBSET Channels, Abort(p, S) PROVE Complete(q, d)'
  <2>1. q # p /\ WorksOn(q, d)
    BY <1>1, <1>10 DEF Abort, Throw, WorksOn, Working, TInv, TypeOK
  <2>2. ~dirty[d]
    <3>1. CASE ~Working(p)
      BY <1>10, <3>1 DEF Abort
    <3>2. CASE Working(p)
      <4> DEFINE broken == pc[p] \in {"write", "reread"} \/ loc[p].rounds > 0
      <4>1. dirty' = [dirty EXCEPT ![job[p].dev] = @ \/ broken]
        BY <1>10, <3>2 DEF Abort
      <4> HIDE DEF broken
      <4>2. dirty \in [Devices -> BOOLEAN]
        BY <1>1 DEF TInv, TypeOK
      <4> QED
        BY <4>1, <4>2, Zenon
    <3> QED
      BY <3>1, <3>2
  <2> QED
    BY <1>1, <1>3, <1>10, <2>1, <2>2, OthersComplete
<1>11. ASSUME NEW s \in Sweeps, SweepFind(s) \/ SweepMark(s) PROVE Complete(q, d)'
  <2>1. /\ UNCHANGED <<chan, cache, job, loc, dirty>> /\ s \in Procs
        /\ \A r \in Procs \ {s} : pc'[r] = pc[r]
        /\ ~Working(s)'
    BY <1>1, <1>11 DEF SweepFind, SweepMark, Procs, Working, TInv, TypeOK, stores
  <2>2. pc'[q] = pc[q] /\ WorksOn(q, d)
    BY <2>1 DEF WorksOn, Working
  <2>3. Live(d)' => Live(d)
    <3>1. CASE SweepFind(s)
      BY <3>1 DEF SweepFind, stores, Live
    <3>2. CASE SweepMark(s)
      <4>1. d \in todo[s] => row[d] \in Row
        BY <1>1, <2>1 DEF TInv, Shape, ShapeOf
      <4>2. row'[d] = IF d \in todo[s] THEN [row[d] EXCEPT !.status = "offline"] ELSE row[d]
        BY <3>2 DEF SweepMark
      <4> QED
        BY <4>1, <4>2, NoneAssumption DEF Live, Row
    <3> QED
      BY <1>11, <3>1, <3>2
  <2> QED
    BY <1>6, <2>1, <2>2, <2>3
<1>12. ASSUME NEW s \in Sweeps, NEW e \in Devices, SweepNext(s, e) PROVE Complete(q, d)'
  <2> DEFINE j == [NewJob("mqtt", e) EXCEPT !.report = "offline"]
  <2>1. /\ s \in Procs /\ ~Working(s) /\ UNCHANGED <<stores, loc>> /\ Enter(s, j, "touch")
        /\ j.dev \in Devices
    BY <1>12, JobKind DEF SweepNext, Procs, Working
  <2> HIDE DEF j
  <2> QED
    BY <1>7, <2>1
<1>13. CASE (\E e \in Devices : Expire(e) \/ Age(e)) \/ Relink \/ UNCHANGED vars
  <2>1. UNCHANGED <<pc, job, loc, chan, dirty>> /\ cache'[d] \in {cache[d], None}
    BY <1>1, <1>13 DEF Expire, Age, Relink, vars, stores, TInv, TypeOK
  <2>2. Live(d)' => Live(d)
    <3>1. CASE row' = row
      BY <3>1 DEF Live
    <3>2. ASSUME NEW e \in Devices, Age(e) PROVE Live(d)' => Live(d)
      <4>1. row' = [row EXCEPT ![e] = [row[e] EXCEPT !.recent = FALSE]] /\ row[e] \in Row
        BY <1>1, <3>2, RowIsThere DEF Age, TInv, TypeOK
      <4> QED
        BY <1>1, <4>1, NoneAssumption DEF Live, Row, TInv, TypeOK
    <3> QED
      BY <1>13, <3>1, <3>2 DEF Expire, Relink, vars, stores
  <2> QED
    BY <1>6, <2>1, <2>2 DEF WorksOn, Working
<1> QED
  BY <1>8, <1>9, <1>10, <1>11, <1>12, <1>13 DEF Next

\* What Emit sends, from what its handler knows of an undisturbed device.
LEMMA EmitStored ==
  ASSUME AInv, NEW p \in Procs, Emit(p)
  PROVE  AnnouncesStored'
<1> DEFINE d == job[p].dev
           l == loc[p]
           x == MergeInto(l.got, l.upd).channels
<1>1. /\ job[p] \in Job /\ d \in Devices /\ l \in Locals /\ pc[p] = "emit" /\ WorksOn(p, d)
      /\ l.rounds > 0 /\ UNCHANGED <<row, chan, dirty>> /\ chan[d] \in ChannelMap
  BY DEF AInv, IInv, TInv, TypeOK, Shape, ShapeOf, Job, HeldOf, Emit, WorksOn, Working, stores
<1>2. ASSUME NEW m \in sent'
      PROVE  /\ m.dev = d
             /\ \/ m.channels = x /\ (m.id # None => l.held # None)
                \/ m.channels = l.upd /\ m.id = None
  BY <1>2 DEF Emit
<1>3. ASSUME ~dirty[d]
      PROVE  /\ \A c \in Channels : x[c] \in {None, chan[d][c]} /\ l.upd[c] \in {None, chan[d][c]}
             /\ l.held # None /\ Live(d) => x = chan[d]
  <2>1. /\ Good(l.got, d, Named(l.upd)) /\ (\A c \in Channels : l.upd[c] \in {None, chan[d][c]})
        /\ Complete(p, d)
    BY <1>1, <1>3 DEF AInv, IInv, Undisturbed, InStep
  <2>2. CASE l.got = None
    <3>1. x = l.upd
      BY <2>2 DEF MergeInto
    <3> QED
      BY <1>1, <2>1, <2>2, <3>1 DEF Complete
  <2>3. CASE l.got # None
    <3>1. l.got \in Entry /\ l.upd \in ChannelMap
      BY <1>1, <2>3 DEF Locals
    <3>2. x = Over(l.upd, l.got.channels)
      BY <2>3, <3>1 DEF MergeInto, Entry
    <3>3. \A c \in Channels : x[c] = IF l.upd[c] # None THEN l.upd[c] ELSE l.got.channels[c]
      BY <3>2 DEF Over
    <3>4. \A c \in Channels : l.upd[c] = None =>
            l.got.channels[c] = chan[d][c] \/ (l.got.info = None /\ l.got.channels[c] = None)
      BY <2>1, <2>3 DEF Good, Named
    <3>5. \A c \in Channels : x[c] \in {None, chan[d][c]}
      BY <2>1, <3>3, <3>4
    <3>6. ASSUME l.held # None, Live(d) PROVE x = chan[d]
      <4>1. \A c \in Channels : x[c] = chan[d][c]
        <5>1. CASE ChangesChannels(job[p])
          BY <1>1, <2>1, <3>3, <3>4, <3>6, <5>1 DEF Complete
        <5>2. CASE ~ChangesChannels(job[p])
          BY <1>1, <2>1, <3>3, <3>4, <3>6, <5>2 DEF Complete
        <5> QED
          BY <5>1, <5>2
      <4> QED
        BY <1>1, <3>2, <4>1 DEF Over, ChannelMap
    <3> QED
      BY <2>1, <3>5, <3>6
  <2> QED
    BY <2>2, <2>3
<1> HIDE DEF x, l, d
<1> QED
  BY <1>1, <1>2, <1>3 DEF AnnouncesStored, Live

\* Whatever leaves the server for a device whose writes did not overlap is the
\* stored state of its channels, and all of it when the device is known.
THEOREM StoredIsAnnounced == Spec => []AnnouncesStored
<1>1. Init => AInv /\ AnnouncesStored
  BY AnnounceInit DEF Init, AnnouncesStored
<1>2. AInv /\ AnnouncesStored /\ [Next]_vars => AInv' /\ AnnouncesStored'
  <2> SUFFICES ASSUME AInv, AnnouncesStored, [Next]_vars PROVE AnnouncesStored'
    BY AnnounceStep
  <2>1. CASE sent' = {}
    BY <2>1 DEF AnnouncesStored
  <2>2. ASSUME NEW p \in Procs, Step(p) PROVE AnnouncesStored'
    <3>1. \/ Touch(p) \/ CacheHit(p) \/ CacheMiss(p) \/ FindRow(p) \/ FindChannels(p) \/ Fill(p)
          \/ BulkWrite(p) \/ Reread(p) \/ SetCache(p) \/ FindOne(p) \/ Save(p) \/ SoftRemove(p)
          \/ FindTemplate(p)
          => sent' = {}
      BY DEF Touch, CacheHit, CacheMiss, FindRow, FindChannels, Fill, BulkWrite, Reread,
         SetCache, FindOne, Save, SoftRemove, FindTemplate
    <3>2. \A c \in Channels : SeedChannel(p, c) => sent' = {}
      BY DEF SeedChannel
    <3> QED
      BY <2>1, <2>2, <3>1, <3>2, EmitStored DEF Step
  <2>3. CASE UNCHANGED vars
    BY <2>3 DEF vars, stores, AnnouncesStored, Live
  <2>4. ASSUME NEW h \in Handlers, Arrive(h) PROVE sent' = {}
    BY <2>4, Arrives DEF Create
  <2>5. ASSUME NEW s \in Sweeps, \/ SweepFind(s) \/ SweepMark(s)
                                \/ \E d \in Devices : SweepNext(s, d)
        PROVE  sent' = {}
    BY <2>5 DEF SweepFind, SweepMark, SweepNext
  <2> QED
    BY <2>1, <2>2, <2>3, <2>4, <2>5 DEF Next, Abort, Expire, Age, Relink
<1>3. AInv /\ AnnouncesStored => AnnouncesStored
  OBVIOUS
<1> QED
  BY <1>1, <1>2, <1>3, PTL DEF Spec

=============================================================================
