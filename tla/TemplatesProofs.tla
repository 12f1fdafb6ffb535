--------------------------- MODULE TemplatesProofs ---------------------------
(***************************************************************************)
(* Proofs about Templates, for any number of templates, callers and        *)
(* requests: type correctness, Coherence, VisibilityKept, RemovalFinal,    *)
(* and that the cache implements ReadThrough.                              *)
(***************************************************************************)
EXTENDS Templates, TLAPS

-----------------------------------------------------------------------------
(* Type correctness *)

\* What the types alone leave out: which locals are filled in at which stage.
ShapeOf(p) ==
  /\ pc[p] # "idle" => job[p] \in Job
  /\ pc[p] \in {"look", "load", "fill"} =>
       job[p].kind # "post" /\ loc[p].calls \in {1, 2}
  /\ pc[p] \in {"find", "save"} => job[p].kind = "patch" /\ loc[p].public \in BOOLEAN
  /\ pc[p] = "save" => job[p].dto.channels \in Kits
  /\ pc[p] = "set" => job[p].kind \in {"patch", "post"}
  /\ pc[p] \in {"remove", "drop"} => job[p].kind = "delete"
  /\ loc[p].held # None <=> pc[p] \in {"fill", "set"}

Shape == \A p \in Handlers : ShapeOf(p)

TInv == TypeOK /\ Shape


LEMMA LocalsType == NoLocals \in Locals
  BY DEF NoLocals, Locals

LEMMA LocalsUpdate ==
  ASSUME NEW l \in Locals
  PROVE  /\ \A v \in Doc \cup {None} : /\ [l EXCEPT !.held = v] \in Locals
                                       /\ [l EXCEPT !.held = v].held = v
                                       /\ [l EXCEPT !.held = v].calls = l.calls
                                       /\ [l EXCEPT !.held = v].public = l.public
         /\ \A v \in 0..2 : /\ [l EXCEPT !.calls = v, !.held = None] \in Locals
                            /\ [l EXCEPT !.calls = v, !.held = None].held = None
                            /\ [l EXCEPT !.calls = v, !.held = None].calls = v
  BY DEF Locals

LEMMA HoldUpdate ==
  ASSUME NEW f \in [Handlers -> Locals], NEW p \in Handlers, NEW v \in Doc \cup {None}
  PROVE  /\ [f EXCEPT ![p].held = v] \in [Handlers -> Locals]
         /\ [f EXCEPT ![p].held = v][p].held = v
         /\ [f EXCEPT ![p].held = v][p].calls = f[p].calls
         /\ [f EXCEPT ![p].held = v][p].public = f[p].public
         /\ \A q \in Handlers \ {p} : [f EXCEPT ![p].held = v][q] = f[q]
<1> DEFINE l == [f[p] EXCEPT !.held = v]
<1>1. f[p] \in Locals
  OBVIOUS
<1>2. l \in Locals /\ l.held = v /\ l.calls = f[p].calls /\ l.public = f[p].public
  BY <1>1, LocalsUpdate
<1>3. [f EXCEPT ![p].held = v] = [f EXCEPT ![p] = l]
  OBVIOUS
<1> HIDE DEF l
<1> QED
  BY <1>2, <1>3

\* The documents the model builds are documents.
LEMMA DocTypes ==
  /\ \A dto \in Bodies : dto.name # None /\ dto.channels # None => NewDoc(dto) \in Doc
  /\ \A d \in Doc, dto \in Dto, b \in BOOLEAN :
       dto.channels \in Kits => Updated(d, dto, b) \in Doc
  /\ \A d \in Doc, dto \in Dto : Visibility(dto, d) \in BOOLEAN
<1>1. \A dto \in Bodies : dto.name # None /\ dto.channels # None => NewDoc(dto) \in Doc
  <2> SUFFICES ASSUME NEW dto \in Bodies, dto.name # None, dto.channels # None
               PROVE  NewDoc(dto) \in Doc
    OBVIOUS
  <2>1. dto \in Dto
    BY DataAssumption
  <2>2. dto.name \in Names /\ dto.channels \in Kits /\ dto.public \in BOOLEAN \cup {None}
    BY <2>1 DEF Dto
  <2>3. Or(dto.public, FALSE) \in BOOLEAN
    BY <2>2 DEF Or
  <2> QED
    BY <2>2, <2>3 DEF NewDoc, Doc
<1>2. \A d \in Doc, dto \in Dto, b \in BOOLEAN :
        dto.channels \in Kits => Updated(d, dto, b) \in Doc
  <2> SUFFICES ASSUME NEW d \in Doc, NEW dto \in Dto, NEW b \in BOOLEAN, dto.channels \in Kits
               PROVE  Updated(d, dto, b) \in Doc
    OBVIOUS
  <2>1. Or(dto.name, d.name) \in Names
    BY DEF Or, Doc, Dto
  <2>2. Updated(d, dto, b) = [d EXCEPT !.name = Or(dto.name, d.name), !.channels = dto.channels, !.public = b]
    BY DEF Updated, Doc
  <2> QED
    BY <2>1, <2>2 DEF Doc
<1>3. \A d \in Doc, dto \in Dto : Visibility(dto, d) \in BOOLEAN
  BY DEF Visibility, Or, Doc, Dto
<1> QED
  BY <1>1, <1>2, <1>3

LEMMA TypeInit == Init => TInv
<1> SUFFICES ASSUME Init PROVE TInv
  OBVIOUS
<1>1. SeedDoc \subseteq Doc
  BY DEF SeedDoc, Doc
<1>2. doc \in [Templates -> Doc \cup {None}]
  <2>1. doc \in [Templates -> SeedDoc \cup {None}]
    BY DEF Init
  <2>2. SeedDoc \cup {None} \subseteq Doc \cup {None}
    BY <1>1
  <2> QED
    BY <2>1, <2>2
<1>3. fresh \subseteq Templates /\ cache \in [Templates -> Doc \cup {None}]
  BY DEF Init
<1>4. /\ pc \in [Handlers -> Stages] /\ job \in [Handlers -> Job \cup {None}]
      /\ loc \in [Handlers -> Locals] /\ dirty \in [Templates -> BOOLEAN]
  BY LocalsType DEF Init, Stages
<1>5. Shape
  BY DEF Init, Shape, ShapeOf, NoLocals
<1> QED
  BY <1>2, <1>3, <1>4, <1>5 DEF TInv, TypeOK

\* What p does to its own control state, with the others left alone.
Others(p) ==
  \A q \in Handlers \ {p} : pc'[q] = pc[q] /\ job'[q] = job[q] /\ loc'[q] = loc[q]

LEMMA ShapeFrame ==
  ASSUME TInv, NEW p \in Handlers, Others(p), ShapeOf(p)' PROVE Shape'
  BY DEF TInv, Shape, ShapeOf, Others

LEMMA FinishType ==
  ASSUME TInv, NEW p \in Handlers, Finish(p)
  PROVE  /\ pc' \in [Handlers -> Stages] /\ job' \in [Handlers -> Job \cup {None}]
         /\ loc' \in [Handlers -> Locals] /\ Shape'
         /\ Others(p) /\ pc'[p] = "idle" /\ loc'[p] = NoLocals
<1>1. /\ pc' \in [Handlers -> Stages] /\ job' \in [Handlers -> Job \cup {None}]
      /\ loc' \in [Handlers -> Locals]
      /\ Others(p) /\ pc'[p] = "idle" /\ loc'[p] = NoLocals
  BY LocalsType DEF TInv, TypeOK, Finish, Stages, Others
<1>2. ShapeOf(p)'
  BY <1>1 DEF ShapeOf, NoLocals
<1> QED
  BY <1>1, <1>2, ShapeFrame

LEMMA EnterType ==
  ASSUME TInv, NEW p \in Handlers, NEW j \in Job, NEW stage \in {"look", "set"},
         NEW calls \in 0..2, NEW held \in Doc \cup {None}, Enter(p, j, stage, calls, held),
         stage = "look" => j.kind # "post" /\ calls # 0 /\ held = None,
         stage = "set" => j.kind = "post" /\ held # None
  PROVE  /\ pc' \in [Handlers -> Stages] /\ job' \in [Handlers -> Job \cup {None}]
         /\ loc' \in [Handlers -> Locals] /\ dirty' \in [Templates -> BOOLEAN] /\ Shape'
         /\ Others(p) /\ pc'[p] = stage /\ job'[p] = j /\ loc'[p].held = held
<1> DEFINE new == [loc[p] EXCEPT !.calls = calls, !.held = held]
<1>1. new \in Locals /\ new.calls = calls /\ new.held = held
  BY DEF TInv, TypeOK, Locals
<1>2. loc' = [loc EXCEPT ![p] = new]
  BY DEF Enter, TInv, TypeOK
<1>3. /\ pc' \in [Handlers -> Stages] /\ job' \in [Handlers -> Job \cup {None}]
      /\ pc'[p] = stage /\ job'[p] = j
  BY DEF TInv, TypeOK, Enter, Stages
<1>4. loc' \in [Handlers -> Locals] /\ loc'[p] = new
  BY <1>1, <1>2 DEF TInv, TypeOK
<1>5. Others(p)
  BY <1>2 DEF Others, Enter, TInv, TypeOK
<1>6. dirty' \in [Templates -> BOOLEAN]
  BY DEF Enter, TInv, TypeOK, Collides, Busy, WorksOn
<1>7. ShapeOf(p)'
  BY <1>1, <1>3, <1>4 DEF ShapeOf
<1> QED
  BY <1>1, <1>3, <1>4, <1>5, <1>6, <1>7, ShapeFrame

LEMMA ArriveEnters ==
  ASSUME NEW p \in Handlers, Arrive(p)
  PROVE  pc[p] = "idle" /\ \E stage : pc' = [pc EXCEPT ![p] = stage]
<1>1. ASSUME NEW t \in Templates, Lookup(p, t)
      PROVE  pc[p] = "idle" /\ \E stage : pc' = [pc EXCEPT ![p] = stage]
  BY <1>1 DEF Lookup, Enter
<1>2. ASSUME NEW t \in Templates, NEW dto \in Bodies, Post(p, t, dto)
      PROVE  pc[p] = "idle" /\ \E stage : pc' = [pc EXCEPT ![p] = stage]
  BY <1>2 DEF Post, Enter
<1>3. ASSUME NEW t \in Templates, NEW kind \in Kinds, NEW u \in Users \cup {Admin},
             NEW dto \in Bodies \cup {NoDto}, Request(p, t, kind, u, dto)
      PROVE  pc[p] = "idle" /\ \E stage : pc' = [pc EXCEPT ![p] = stage]
  BY <1>3 DEF Request, Enter
<1> QED
  BY <1>1, <1>2, <1>3 DEF Arrive

\* What findById returns takes its caller to a typed state.
LEMMA ProceedType ==
  ASSUME TInv, NEW p \in Handlers, NEW d \in Doc, pc[p] \in {"look", "fill"}, Proceed(p, d)
  PROVE  /\ pc' \in [Handlers -> Stages] /\ job' \in [Handlers -> Job \cup {None}]
         /\ loc' \in [Handlers -> Locals] /\ Shape'
         /\ Others(p) /\ loc'[p].held = None
         /\ \/ pc'[p] = "idle"
            \/ pc'[p] \in {"look", "remove"} /\ UNCHANGED job
            \/ /\ pc'[p] = "find" /\ UNCHANGED job
               /\ loc'[p].public = Visibility(job[p].dto, d)
<1> DEFINE j == job[p]
<1>0. /\ j \in Job /\ j.kind # "post" /\ loc[p].calls \in {1, 2} /\ loc[p] \in Locals
      /\ j.dto \in Dto
  BY DEF TInv, TypeOK, Shape, ShapeOf, Job
<1>1. CASE Finish(p)
  BY <1>1, FinishType DEF NoLocals
<1>2. CASE /\ InGuard(p)
           /\ pc' = [pc EXCEPT ![p] = IF j.kind = "delete" THEN "remove" ELSE "look"]
           /\ loc' = [loc EXCEPT ![p].calls = @ - 1, ![p].held = None]
           /\ UNCHANGED job
  <2> DEFINE new == [loc[p] EXCEPT !.calls = loc[p].calls - 1, !.held = None]
  <2>1. loc[p].calls - 1 \in 0..2
    BY <1>0
  <2>2. new \in Locals /\ new.held = None /\ new.calls = loc[p].calls - 1
    BY <1>0, <2>1, LocalsUpdate
  <2>3. loc' = [loc EXCEPT ![p] = new]
    BY <1>2 DEF TInv, TypeOK
  <2>4. loc' \in [Handlers -> Locals] /\ loc'[p] = new
    BY <2>2, <2>3 DEF TInv, TypeOK
  <2>5. /\ pc' \in [Handlers -> Stages] /\ job' \in [Handlers -> Job \cup {None}]
        /\ pc'[p] \in {"look", "remove"} /\ (pc'[p] = "remove" <=> j.kind = "delete")
    BY <1>2 DEF TInv, TypeOK, Stages
  <2>6. j.kind # "delete" => loc[p].calls = 2
    BY <1>2 DEF InGuard
  <2>7. Others(p)
    BY <1>2, <2>3 DEF Others, TInv, TypeOK
  <2>8. ShapeOf(p)'
    BY <1>0, <1>2, <2>2, <2>4, <2>5, <2>6 DEF ShapeOf
  <2> QED
    BY <1>2, <2>2, <2>4, <2>5, <2>7, <2>8, ShapeFrame
<1>3. CASE /\ j.kind = "patch"
           /\ pc' = [pc EXCEPT ![p] = "find"]
           /\ loc' = [loc EXCEPT ![p] = [calls |-> 0, held |-> None,
                                         public |-> Visibility(j.dto, d)]]
           /\ UNCHANGED job
  <2>1. Visibility(j.dto, d) \in BOOLEAN
    BY <1>0, DocTypes
  <2>2. [calls |-> 0, held |-> None, public |-> Visibility(j.dto, d)] \in Locals
    BY <2>1 DEF Locals
  <2>3. /\ pc' \in [Handlers -> Stages] /\ job' \in [Handlers -> Job \cup {None}]
        /\ loc' \in [Handlers -> Locals] /\ Others(p)
        /\ pc'[p] = "find" /\ loc'[p].held = None
        /\ loc'[p].public = Visibility(j.dto, d)
    BY <1>3, <2>2 DEF TInv, TypeOK, Stages, Others
  <2>4. ShapeOf(p)'
    BY <1>0, <1>3, <2>1, <2>3 DEF ShapeOf
  <2> QED
    BY <1>3, <2>3, <2>4, ShapeFrame
<1> QED
  BY <1>1, <1>2, <1>3 DEF Proceed


\* Every step keeps the types: one step of the proof per action.
LEMMA TypeStep == TInv /\ [Next]_vars => TInv'
<1> SUFFICES ASSUME TInv, [Next]_vars PROVE TInv'
  OBVIOUS
<1> USE DEF TInv
<1>0. NoDto \in Dto
  BY DEF NoDto, Dto
<1>1. ASSUME NEW p \in Handlers, Arrive(p) PROVE TInv'
  <2>1. ASSUME NEW t \in Templates, Lookup(p, t) PROVE TInv'
    <3> DEFINE j == [kind |-> "lookup", tpl |-> t, by |-> Admin, dto |-> NoDto]
    <3>1. j \in Job
      BY <1>0 DEF Job, Kinds
    <3> QED
      BY <2>1, <3>1, EnterType DEF Lookup, TypeOK
  <2>2. ASSUME NEW t \in Templates, NEW dto \in Bodies, Post(p, t, dto) PROVE TInv'
    <3> DEFINE j == [kind |-> "post", tpl |-> t, by |-> Admin, dto |-> dto]
    <3>1. j \in Job
      BY DataAssumption DEF Job, Kinds
    <3>2. NewDoc(dto) \in Doc
      BY <2>2, DocTypes DEF Post
    <3>3. Enter(p, j, "set", 0, NewDoc(dto)) /\ NewDoc(dto) # None
      BY <2>2, <3>2, DataAssumption DEF Post
    <3> HIDE DEF j
    <3> QED
      BY <2>2, <3>1, <3>2, <3>3, EnterType DEF Post, TypeOK, j
  <2>3. ASSUME NEW t \in Templates, NEW kind \in Kinds, NEW u \in Users \cup {Admin},
               NEW dto \in Bodies \cup {NoDto}, Request(p, t, kind, u, dto)
        PROVE  TInv'
    <3> DEFINE j == [kind |-> kind, tpl |-> t, by |-> u, dto |-> dto]
    <3>1. j \in Job /\ kind # "post"
      BY <1>0, <2>3, DataAssumption DEF Job, Request
    <3>2. \E calls \in 1..2 : Enter(p, j, "look", calls, None)
      BY <2>3 DEF Request
    <3> QED
      BY <2>3, <3>1, <3>2, EnterType DEF Request, TypeOK
  <2> QED
    BY <1>1, <2>1, <2>2, <2>3 DEF Arrive
<1>2. ASSUME NEW p \in Handlers, Step(p) PROVE TInv'
  <2> DEFINE t == job[p].tpl
  <2>0. pc[p] # "idle" => job[p] \in Job /\ t \in Templates /\ job[p].dto \in Dto
    BY DEF Shape, ShapeOf, Job
  <2>1. CASE Look(p)
    <3>1. CASE cache[t] # None /\ Proceed(p, cache[t])
      <4>1. cache[t] \in Doc
        BY <2>0, <2>1, <3>1 DEF TypeOK, Look
      <4> QED
        BY <2>1, <3>1, <4>1, ProceedType DEF Look, TypeOK
    <3>2. CASE pc' = [pc EXCEPT ![p] = "load"] /\ UNCHANGED <<job, loc>>
      <4>1. ShapeOf(p)' /\ Others(p)
        BY <2>1, <3>2 DEF Look, Shape, ShapeOf, TypeOK, Others
      <4> QED
        BY <2>1, <3>2, <4>1, ShapeFrame DEF Look, TypeOK, Stages
    <3> QED
      BY <2>1, <3>1, <3>2 DEF Look
  <2>2. CASE Load(p)
    <3>1. CASE Finish(p)
      BY <2>2, <3>1, FinishType DEF Load, TypeOK
    <3>2. CASE /\ doc[t] # None
               /\ pc' = [pc EXCEPT ![p] = "fill"]
               /\ loc' = [loc EXCEPT ![p].held = doc[t]]
               /\ UNCHANGED job
      <4>1. doc[t] \in Doc
        BY <2>0, <2>2, <3>2 DEF TypeOK, Load
      <4>2. /\ loc' \in [Handlers -> Locals] /\ loc'[p].held = doc[t]
            /\ loc'[p].calls = loc[p].calls
            /\ \A q \in Handlers \ {p} : loc'[q] = loc[q]
        BY <3>2, <4>1, HoldUpdate DEF TypeOK
      <4>3. ShapeOf(p)' /\ Others(p)
        BY <2>2, <3>2, <4>2 DEF Load, Shape, ShapeOf, TypeOK, Others
      <4> QED
        BY <2>2, <3>2, <4>2, <4>3, ShapeFrame DEF Load, TypeOK, Stages
    <3> QED
      BY <2>2, <3>1, <3>2 DEF Load, Exists
  <2>3. CASE Fill(p)
    <3>1. loc[p].held \in Doc
      BY <2>3 DEF Fill, TypeOK, Shape, ShapeOf, Locals
    <3> QED
      BY <2>0, <2>3, <3>1, ProceedType DEF Fill, TypeOK
  <2>4. CASE Find(p)
    <3>1. CASE Finish(p)
      BY <2>4, <3>1, FinishType DEF Find, TypeOK
    <3>2. CASE /\ job[p].dto.channels # None
               /\ pc' = [pc EXCEPT ![p] = "save"] /\ UNCHANGED <<job, loc>>
      <4>1. job[p].dto.channels \in Kits
        BY <2>0, <2>4, <3>2 DEF Find, Dto
      <4>2. ShapeOf(p)' /\ Others(p)
        BY <2>4, <3>2, <4>1 DEF Find, Shape, ShapeOf, TypeOK, Others
      <4> QED
        BY <2>4, <3>2, <4>2, ShapeFrame DEF Find, TypeOK, Stages
    <3> QED
      BY <2>4, <3>1, <3>2 DEF Find
  <2>5. CASE Save(p)
    <3> DEFINE new == Updated(doc[t], job[p].dto, loc[p].public)
    <3>1. CASE Finish(p) /\ UNCHANGED doc
      BY <2>5, <3>1, FinishType DEF Save, TypeOK
    <3>2. CASE /\ doc[t] # None
               /\ doc' = [doc EXCEPT ![t] = new]
               /\ pc' = [pc EXCEPT ![p] = "set"]
               /\ loc' = [loc EXCEPT ![p].held = new]
               /\ UNCHANGED job
      <4>1. doc[t] \in Doc /\ job[p].dto.channels \in Kits /\ loc[p].public \in BOOLEAN
        BY <2>0, <2>5, <3>2 DEF Save, TypeOK, Shape, ShapeOf
      <4>2. new \in Doc /\ new # None
        BY <2>0, <2>5, <4>1, DocTypes, DataAssumption DEF Save
      <4> HIDE DEF new
      <4>3. /\ loc' \in [Handlers -> Locals] /\ loc'[p].held = new
            /\ \A q \in Handlers \ {p} : loc'[q] = loc[q]
        BY <3>2, <4>2, HoldUpdate DEF TypeOK
      <4>4. ShapeOf(p)' /\ Others(p)
        BY <2>5, <3>2, <4>2, <4>3 DEF Save, Shape, ShapeOf, TypeOK, Others
      <4> QED
        BY <2>0, <2>5, <3>2, <4>2, <4>3, <4>4, ShapeFrame DEF Save, TypeOK, Stages
    <3> QED
      BY <2>5, <3>1, <3>2 DEF Save, Exists
  <2>6. CASE SetCache(p)
    <3>1. loc[p].held \in Doc
      BY <2>6 DEF SetCache, TypeOK, Shape, ShapeOf, Locals
    <3> QED
      BY <2>0, <2>6, <3>1, FinishType DEF SetCache, TypeOK
  <2>7. CASE Remove(p)
    <3>1. ShapeOf(p)' /\ Others(p)
      BY <2>7 DEF Remove, Shape, ShapeOf, TypeOK, Others
    <3> QED
      BY <2>7, <3>1, ShapeFrame DEF Remove, TypeOK, Stages
  <2>8. CASE DropCache(p)
    BY <2>8, FinishType DEF DropCache, TypeOK
  <2> QED
    BY <1>2, <2>1, <2>2, <2>3, <2>4, <2>5, <2>6, <2>7, <2>8 DEF Step
<1>3. ASSUME NEW p \in Handlers, Abort(p) PROVE TInv'
  BY <1>3, FinishType DEF Abort, TypeOK
<1>4. ASSUME NEW t \in Templates, Expire(t) PROVE TInv'
  BY <1>4 DEF Expire, TypeOK, Shape, ShapeOf
<1>5. CASE UNCHANGED vars
  BY <1>5 DEF vars, TypeOK, Shape, ShapeOf
<1> QED
  BY <1>1, <1>2, <1>3, <1>4, <1>5 DEF Next

\* Every reachable state is well typed: whatever requests arrive for whatever
\* templates, documents, entries and local variables stay what the code
\* declares them to be.
THEOREM TypeCorrect == Spec => []TypeOK
<1>1. Spec => []TInv
  BY TypeInit, TypeStep, PTL DEF Spec
<1> QED
  BY <1>1, PTL DEF TInv

-----------------------------------------------------------------------------
(* Coherence, VisibilityKept, RemovalFinal *)

\* What holds of a template since it was last uncached, as long as no change
\* of it overlapped another request or broke off: a change is alone; the entry
\* agrees with the store except between a change and its write to the cache;
\* and what a request holds of the template is what is stored.
Alone(t) ==
  \A p, q \in Handlers : p # q /\ WorksOn(p, t) /\ WorksOn(q, t) => ~Changes(job[p])

Agrees(t) ==
  (\A p \in Handlers : WorksOn(p, t) => pc[p] \notin {"set", "drop"})
    => cache[t] \in {None, doc[t]}

Holds(p, t) ==
  WorksOn(p, t) =>
    /\ loc[p].held \in {None, doc[t]}
    /\ pc[p] = "drop" => doc[t] = None
    /\ pc[p] \in {"find", "save"} /\ job[p].dto.public = None /\ doc[t] # None
         => loc[p].public = doc[t].public

Clean(t) == Alone(t) /\ Agrees(t) /\ \A p \in Handlers : Holds(p, t)

CInv == \A t \in Templates : ~dirty[t] => Clean(t)

LEMMA CleanInit == Init => CInv
  BY DEF Init, CInv, Clean, Alone, Agrees, Holds, WorksOn

\* A step of p on a template leaves the others as they are.
LEMMA CleanFrame ==
  ASSUME TInv, NEW p \in Handlers, Others(p), NEW t \in Templates, Clean(t),
         ~WorksOn(p, t), ~WorksOn(p, t)', doc'[t] = doc[t], cache'[t] \in {None, cache[t]}
  PROVE  Clean(t)'
<1>1. \A q \in Handlers : WorksOn(q, t)' <=> WorksOn(q, t)
  BY DEF Others, WorksOn
<1>2. \A q \in Handlers : WorksOn(q, t) => pc'[q] = pc[q] /\ job'[q] = job[q] /\ loc'[q] = loc[q]
  BY DEF Others
<1>3. Alone(t)'
  BY <1>1, <1>2 DEF Clean, Alone, Changes
<1>4. Agrees(t)'
  BY <1>1, <1>2 DEF Clean, Agrees
<1>5. \A q \in Handlers : Holds(q, t)'
  BY <1>1, <1>2 DEF Clean, Holds
<1> QED
  BY <1>3, <1>4, <1>5 DEF Clean

\* A request that goes on with the template it works on, or ends, keeps the
\* template clean if the store stays, it holds what is stored, and it neither
\* reaches nor leaves a write to the cache without making it.
LEMMA CleanStay ==
  ASSUME TInv, TInv', NEW p \in Handlers, Others(p), NEW t \in Templates, Clean(t),
         WorksOn(p, t), doc'[t] = doc[t], cache'[t] \in {None, cache[t], doc[t]},
         pc'[p] = "idle" \/ (job'[p] = job[p] /\ pc'[p] \notin {"set", "drop"}),
         pc[p] \in {"set", "drop"} => cache'[t] \in {None, doc[t]},
         Holds(p, t)'
  PROVE  Clean(t)'
<1>1. \A q \in Handlers : WorksOn(q, t)' => WorksOn(q, t)
  BY DEF Others, WorksOn
<1>2. \A q \in Handlers \ {p} :
        /\ WorksOn(q, t)' <=> WorksOn(q, t)
        /\ pc'[q] = pc[q] /\ job'[q] = job[q] /\ loc'[q] = loc[q]
  BY DEF Others, WorksOn
<1>3. WorksOn(p, t)' => job'[p] = job[p]
  BY DEF WorksOn
<1>4. Alone(t)'
  BY <1>1, <1>2, <1>3 DEF Clean, Alone, Changes
<1>5. Agrees(t)'
  BY <1>2 DEF Clean, Agrees
<1>6. \A q \in Handlers : Holds(q, t)'
  BY <1>2 DEF Clean, Holds
<1> QED
  BY <1>4, <1>5, <1>6 DEF Clean

\* A change of the document that was alone keeps the template clean if its
\* request stays and holds the new document, or none after a removal.
LEMMA CleanChange ==
  ASSUME TInv, TInv', NEW p \in Handlers, Others(p), NEW t \in Templates,
         \A q \in Handlers \ {p} : ~WorksOn(q, t),
         pc'[p] \in {"set", "drop"}, WorksOn(p, t)', Holds(p, t)'
  PROVE  Clean(t)'
<1>1. \A q \in Handlers \ {p} : ~WorksOn(q, t)'
  BY DEF Others, WorksOn
<1> QED
  BY <1>1 DEF Clean, Alone, Agrees, Holds

LEMMA CleanEnter ==
  ASSUME TInv, TInv', CInv, NEW p \in Handlers, NEW j \in Job, NEW stage \in {"look", "set"},
         NEW calls \in 0..2, NEW held \in Doc \cup {None}, Enter(p, j, stage, calls, held),
         Others(p), pc'[p] = stage, job'[p] = j, loc'[p].held = held, cache' = cache,
         \A t \in Templates : t # j.tpl => doc'[t] = doc[t],
         held = None => doc' = doc /\ stage = "look",
         held # None => doc'[j.tpl] = held /\ stage = "set" /\ Changes(j)
  PROVE  CInv'
<1> SUFFICES ASSUME NEW t \in Templates, ~dirty'[t] PROVE Clean(t)'
  BY DEF CInv
<1>0. pc[p] = "idle" /\ j.tpl \in Templates
  BY DEF Enter, Job
<1>1. CASE t # j.tpl
  <2>1. ~dirty[t]
    BY <1>1 DEF Enter, TInv, TypeOK
  <2>2. ~WorksOn(p, t) /\ ~WorksOn(p, t)'
    BY <1>0, <1>1 DEF WorksOn
  <2> QED
    BY <1>1, <2>1, <2>2, CleanFrame DEF CInv
<1>2. CASE t = j.tpl
  <2>1. ~Collides(j) /\ (~dirty[t] \/ (~Busy(t) /\ cache[t] = None))
    BY <1>0, <1>2 DEF Enter, TInv, TypeOK
  <2>2. Clean(t)
    <3>1. CASE ~dirty[t]
      BY <3>1 DEF CInv
    <3>2. CASE ~Busy(t) /\ cache[t] = None
      BY <3>2 DEF Busy, Clean, Alone, Agrees, Holds
    <3> QED
      BY <2>1, <3>1, <3>2
  <2>3. /\ \A q \in Handlers \ {p} : /\ WorksOn(q, t)' <=> WorksOn(q, t)
                                     /\ pc'[q] = pc[q] /\ job'[q] = job[q] /\ loc'[q] = loc[q]
        /\ WorksOn(p, t)' /\ ~WorksOn(p, t)
    BY <1>0, <1>2 DEF Others, WorksOn
  <2>4. \A q \in Handlers : WorksOn(q, t) => ~Changes(j) /\ ~Changes(job[q])
    BY <1>2, <2>1 DEF Collides
  <2>5. Alone(t)'
    BY <2>2, <2>3, <2>4 DEF Clean, Alone, Changes
  <2>6. CASE held # None
    <3>1. \A q \in Handlers \ {p} : ~WorksOn(q, t)
      BY <2>4, <2>6
    <3>2. Holds(p, t)'
      BY <1>2, <2>6 DEF Holds
    <3> QED
      BY <2>3, <2>6, <3>1, <3>2, CleanChange
  <2>7. CASE held = None
    <3>1. Agrees(t)'
      BY <2>2, <2>3, <2>7 DEF Clean, Agrees
    <3>2. \A q \in Handlers : Holds(q, t)'
      BY <2>2, <2>3, <2>7 DEF Clean, Holds
    <3> QED
      BY <2>5, <3>1, <3>2 DEF Clean
  <2> QED
    BY <2>6, <2>7
<1> QED
  BY <1>1, <1>2

\* The stages of a request alone with its change exclude other requests.
LEMMA OnlyWorker ==
  ASSUME TInv, NEW p \in Handlers, NEW t \in Templates, Clean(t), WorksOn(p, t),
         pc[p] \in {"find", "save", "set", "remove", "drop"} \/ job[p].kind = "patch"
  PROVE  \A q \in Handlers \ {p} : ~WorksOn(q, t)
<1>1. Changes(job[p])
  BY DEF TInv, Shape, ShapeOf, Changes, WorksOn
<1> QED
  BY <1>1 DEF Clean, Alone

\* What findById returned is the stored document, or none, if nobody else
\* changes the template.
LEMMA FoundStored ==
  ASSUME TInv, NEW p \in Handlers, NEW t \in Templates, Clean(t), WorksOn(p, t),
         pc[p] = "look", job[p].kind = "patch"
  PROVE  cache[t] \in {None, doc[t]}
<1>1. \A q \in Handlers \ {p} : ~WorksOn(q, t)
  BY OnlyWorker
<1> QED
  BY <1>1 DEF Clean, Agrees

LEMMA CleanStep == TInv /\ TInv' /\ CInv /\ [Next]_vars => CInv'
<1> SUFFICES ASSUME TInv, TInv', CInv, [Next]_vars PROVE CInv'
  OBVIOUS
<1>0. NoDto \in Dto
  BY DEF NoDto, Dto
<1>1. ASSUME NEW p \in Handlers, Arrive(p) PROVE CInv'
  <2>1. ASSUME NEW t \in Templates, Lookup(p, t) PROVE CInv'
    <3> DEFINE j == [kind |-> "lookup", tpl |-> t, by |-> Admin, dto |-> NoDto]
    <3>1. j \in Job /\ j.kind = "lookup"
      BY <1>0 DEF Job, Kinds
    <3>2. Enter(p, j, "look", 1, None)
      BY <2>1 DEF Lookup
    <3> HIDE DEF j
    <3>3. Others(p) /\ pc'[p] = "look" /\ job'[p] = j /\ loc'[p].held = None
      BY <3>1, <3>2, EnterType
    <3> QED
      BY <2>1, <3>1, <3>2, <3>3, CleanEnter DEF Lookup
  <2>2. ASSUME NEW t \in Templates, NEW dto \in Bodies, Post(p, t, dto) PROVE CInv'
    <3> DEFINE j == [kind |-> "post", tpl |-> t, by |-> Admin, dto |-> dto]
    <3>1. j \in Job /\ j.kind = "post" /\ j.tpl = t
      BY DataAssumption DEF Job, Kinds
    <3>2. NewDoc(dto) \in Doc
      BY <2>2, DocTypes DEF Post
    <3>3. Enter(p, j, "set", 0, NewDoc(dto)) /\ NewDoc(dto) # None
      BY <2>2, <3>2, DataAssumption DEF Post
    <3> HIDE DEF j
    <3>4. Others(p) /\ pc'[p] = "set" /\ job'[p] = j /\ loc'[p].held = NewDoc(dto)
      BY <3>1, <3>2, <3>3, EnterType
    <3>5. /\ doc'[t] = NewDoc(dto) /\ \A u \in Templates : u # t => doc'[u] = doc[u]
          /\ cache' = cache /\ Changes(j)
      BY <2>2, <3>1 DEF Post, TInv, TypeOK, Changes
    <3> QED
      BY <3>1, <3>2, <3>3, <3>4, <3>5, CleanEnter
  <2>3. ASSUME NEW t \in Templates, NEW kind \in Kinds, NEW u \in Users \cup {Admin},
               NEW dto \in Bodies \cup {NoDto}, Request(p, t, kind, u, dto)
        PROVE  CInv'
    <3> DEFINE j == [kind |-> kind, tpl |-> t, by |-> u, dto |-> dto]
    <3>1. j \in Job /\ j.kind # "post"
      BY <1>0, <2>3, DataAssumption DEF Job, Request
    <3>2. PICK calls \in 1..2 : Enter(p, j, "look", calls, None)
      BY <2>3 DEF Request
    <3> HIDE DEF j
    <3>3. Others(p) /\ pc'[p] = "look" /\ job'[p] = j /\ loc'[p].held = None
      BY <3>1, <3>2, EnterType
    <3> QED
      BY <2>3, <3>1, <3>2, <3>3, CleanEnter DEF Request
  <2> QED
    BY <1>1, <2>1, <2>2, <2>3 DEF Arrive
<1>2. ASSUME NEW p \in Handlers, Step(p) PROVE CInv'
  <2>0. PICK t \in Templates :
          /\ t = job[p].tpl /\ pc[p] # "idle" /\ job[p] \in Job /\ WorksOn(p, t)
          /\ \A u \in Templates : u # t => ~WorksOn(p, u)
    BY <1>2 DEF Step, Look, Load, Fill, Find, Save, SetCache, Remove, DropCache,
                TInv, Shape, ShapeOf, Job, WorksOn
  \* The other templates do not change, so only t is left to show.
  <2>1. ASSUME Others(p), pc'[p] = "idle" \/ job'[p] = job[p], dirty' = dirty,
               \A u \in Templates : u # t => doc'[u] = doc[u] /\ cache'[u] = cache[u],
               ~dirty[t] /\ Clean(t) => Clean(t)'
        PROVE  CInv'
    <3>1. \A u \in Templates : u # t => ~WorksOn(p, u) /\ ~WorksOn(p, u)'
      BY <2>0, <2>1 DEF WorksOn
    <3>2. \A u \in Templates : u # t /\ ~dirty'[u] => Clean(u)'
      BY <2>1, <3>1, CleanFrame DEF CInv
    <3> QED
      BY <2>0, <2>1, <3>2 DEF CInv
  \* The request ends where there was nothing left to write.
  <2>2. CASE Finish(p) /\ UNCHANGED <<doc, cache, dirty>> /\ pc[p] \notin {"set", "drop"}
    <3>1. Others(p) /\ pc'[p] = "idle"
      BY <2>2, FinishType
    <3>2. Holds(p, t)'
      BY <3>1 DEF Holds, WorksOn
    <3> QED
      BY <2>0, <2>1, <2>2, <3>1, <3>2, CleanStay
  <2>3. CASE Look(p)
    <3>1. CASE cache[t] # None /\ Proceed(p, cache[t])
      <4>1. cache[t] \in Doc
        BY <2>0, <2>3, <3>1 DEF TInv, TypeOK, Look
      <4>2. /\ Others(p) /\ loc'[p].held = None
            /\ \/ pc'[p] = "idle"
               \/ pc'[p] \in {"look", "remove"} /\ UNCHANGED job
               \/ /\ pc'[p] = "find" /\ UNCHANGED job
                  /\ loc'[p].public = Visibility(job[p].dto, cache[t])
        BY <2>3, <3>1, <4>1, ProceedType DEF Look
      <4>3. pc'[p] = "find" => job'[p].kind = "patch"
        BY DEF TInv, Shape, ShapeOf
      <4>4. ASSUME Clean(t) PROVE Holds(p, t)'
        BY <2>0, <2>3, <3>1, <4>2, <4>3, <4>4, FoundStored DEF Look, Holds, Visibility, Or
      <4>5. UNCHANGED <<doc, cache, dirty>> /\ pc[p] \notin {"set", "drop"}
        BY <2>3 DEF Look
      <4> QED
        BY <2>0, <2>1, <4>2, <4>4, <4>5, CleanStay
    <3>2. CASE pc' = [pc EXCEPT ![p] = "load"] /\ UNCHANGED <<job, loc>>
      <4>1. Others(p) /\ pc'[p] = "load"
        BY <3>2 DEF Others, TInv, TypeOK
      <4>2. ASSUME Clean(t) PROVE Holds(p, t)'
        BY <2>0, <2>3, <3>2, <4>1, <4>2 DEF Clean, Holds, Look
      <4> QED
        BY <2>0, <2>1, <2>3, <3>2, <4>1, <4>2, CleanStay DEF Look
    <3> QED
      BY <2>0, <2>3, <3>1, <3>2 DEF Look
  <2>4. CASE Load(p)
    <3>1. CASE Finish(p)
      BY <2>2, <2>4, <3>1 DEF Load
    <3>2. CASE /\ doc[t] # None
               /\ pc' = [pc EXCEPT ![p] = "fill"]
               /\ loc' = [loc EXCEPT ![p].held = doc[t]]
               /\ UNCHANGED job
      <4>1. doc[t] \in Doc
        BY <2>0, <3>2 DEF TInv, TypeOK
      <4>2. /\ loc'[p].held = doc[t] /\ pc'[p] = "fill" /\ Others(p)
        BY <3>2, <4>1, HoldUpdate DEF TInv, TypeOK, Others
      <4>3. Holds(p, t)'
        BY <2>4, <4>2 DEF Load, Holds
      <4> QED
        BY <2>0, <2>1, <2>4, <3>2, <4>2, <4>3, CleanStay DEF Load
    <3> QED
      BY <2>0, <2>4, <3>1, <3>2 DEF Load, Exists
  <2>5. CASE Fill(p)
    <3>1. loc[p].held \in Doc
      BY <2>5 DEF Fill, TInv, TypeOK, Shape, ShapeOf, Locals
    <3>2. /\ Others(p) /\ loc'[p].held = None
          /\ \/ pc'[p] = "idle"
             \/ pc'[p] \in {"look", "remove"} /\ UNCHANGED job
             \/ /\ pc'[p] = "find" /\ UNCHANGED job
                /\ loc'[p].public = Visibility(job[p].dto, loc[p].held)
      BY <2>5, <3>1, ProceedType DEF Fill
    <3>3. ASSUME Clean(t) PROVE loc[p].held = doc[t]
      BY <2>0, <3>1, <3>3, DataAssumption DEF Clean, Holds
    <3>4. ASSUME Clean(t) PROVE Holds(p, t)'
      BY <2>5, <3>2, <3>3, <3>4 DEF Fill, Holds, Visibility, Or
    <3>5. /\ cache'[t] = loc[p].held /\ \A u \in Templates : u # t => cache'[u] = cache[u]
          /\ UNCHANGED <<doc, dirty>> /\ pc[p] = "fill"
      BY <2>0, <2>5 DEF Fill, TInv, TypeOK
    <3> QED
      BY <2>0, <2>1, <3>2, <3>3, <3>4, <3>5, CleanStay
  <2>6. CASE Find(p)
    <3>1. CASE Finish(p)
      BY <2>2, <2>6, <3>1 DEF Find
    <3>2. CASE pc' = [pc EXCEPT ![p] = "save"] /\ UNCHANGED <<job, loc>>
      <4>1. Others(p) /\ pc'[p] = "save"
        BY <3>2 DEF Others, TInv, TypeOK
      <4>2. ASSUME Clean(t) PROVE Holds(p, t)'
        BY <2>0, <2>6, <3>2, <4>1, <4>2 DEF Clean, Holds, Find
      <4> QED
        BY <2>0, <2>1, <2>6, <3>2, <4>1, <4>2, CleanStay DEF Find
    <3> QED
      BY <2>6, <3>1, <3>2 DEF Find
  <2>7. CASE Save(p)
    <3> DEFINE new == Updated(doc[t], job[p].dto, loc[p].public)
    <3>1. CASE Finish(p) /\ UNCHANGED doc
      BY <2>2, <2>7, <3>1 DEF Save
    <3>2. CASE /\ doc[t] # None
               /\ doc' = [doc EXCEPT ![t] = new]
               /\ pc' = [pc EXCEPT ![p] = "set"]
               /\ loc' = [loc EXCEPT ![p].held = new]
               /\ UNCHANGED job
      <4>0. new \in Doc
        BY <2>0, <2>7, <3>2, DocTypes DEF Save, TInv, TypeOK, Shape, ShapeOf, Job
      <4> HIDE DEF new
      <4>1. loc'[p].held = new /\ pc'[p] = "set" /\ job'[p] = job[p] /\ Others(p)
        BY <3>2, <4>0, HoldUpdate DEF TInv, TypeOK, Others
      <4>2. doc'[t] = new /\ \A u \in Templates : u # t => doc'[u] = doc[u]
        BY <2>0, <3>2 DEF TInv, TypeOK
      <4>3. Holds(p, t)' /\ WorksOn(p, t)'
        BY <2>0, <4>1, <4>2 DEF Holds, WorksOn
      <4>4. ASSUME Clean(t) PROVE Clean(t)'
        BY <2>0, <2>7, <4>1, <4>3, <4>4, OnlyWorker, CleanChange DEF Save
      <4> QED
        BY <2>1, <2>7, <4>1, <4>2, <4>4 DEF Save
    <3> QED
      BY <2>0, <2>7, <3>1, <3>2 DEF Save, Exists
  <2>8. CASE SetCache(p)
    <3>1. Others(p) /\ pc'[p] = "idle"
      BY <2>8, FinishType DEF SetCache
    <3>2. /\ cache'[t] = loc[p].held /\ \A u \in Templates : u # t => cache'[u] = cache[u]
          /\ UNCHANGED <<doc, dirty>>
      BY <2>0, <2>8 DEF SetCache, TInv, TypeOK
    <3>3. ASSUME Clean(t) PROVE cache'[t] \in {None, doc[t]}
      BY <2>0, <3>2, <3>3 DEF Clean, Holds
    <3>4. Holds(p, t)'
      BY <3>1 DEF Holds, WorksOn
    <3> QED
      BY <2>0, <2>1, <3>1, <3>2, <3>3, <3>4, CleanStay
  <2>9. CASE Remove(p)
    <3>1. /\ Others(p) /\ pc'[p] = "drop" /\ job'[p] = job[p] /\ loc'[p] = loc[p]
          /\ doc'[t] = None /\ \A u \in Templates : u # t => doc'[u] = doc[u]
          /\ UNCHANGED <<cache, dirty>> /\ loc[p].held = None
      BY <2>0, <2>9 DEF Remove, TInv, TypeOK, Others, Shape, ShapeOf
    <3>2. Holds(p, t)' /\ WorksOn(p, t)'
      BY <2>0, <3>1 DEF Holds, WorksOn
    <3>3. ASSUME Clean(t) PROVE Clean(t)'
      BY <2>0, <2>9, <3>1, <3>2, <3>3, OnlyWorker, CleanChange DEF Remove
    <3> QED
      BY <2>1, <3>1, <3>3
  <2>10. CASE DropCache(p)
    <3>1. Others(p) /\ pc'[p] = "idle"
      BY <2>10, FinishType DEF DropCache
    <3>2. /\ cache'[t] = None /\ \A u \in Templates : u # t => cache'[u] = cache[u]
          /\ UNCHANGED <<doc, dirty>>
      BY <2>0, <2>10 DEF DropCache, TInv, TypeOK
    <3>3. Holds(p, t)'
      BY <3>1 DEF Holds, WorksOn
    <3> QED
      BY <2>0, <2>1, <3>1, <3>2, <3>3, CleanStay
  <2> QED
    BY <1>2, <2>3, <2>4, <2>5, <2>6, <2>7, <2>8, <2>9, <2>10 DEF Step
<1>3. ASSUME NEW p \in Handlers, Abort(p) PROVE CInv'
  <2>1. Others(p) /\ pc'[p] = "idle"
    BY <1>3, FinishType DEF Abort
  <2>2. PICK t \in Templates :
        /\ t = job[p].tpl /\ WorksOn(p, t) /\ UNCHANGED <<doc, cache>>
        /\ \A u \in Templates : u # t => ~WorksOn(p, u) /\ ~WorksOn(p, u)' /\ dirty'[u] = dirty[u]
        /\ ~dirty'[t] => ~dirty[t] /\ pc[p] \notin {"set", "drop"}
    BY <1>3, <2>1 DEF Abort, TInv, TypeOK, Shape, ShapeOf, Job, WorksOn
  <2>3. Holds(p, t)'
    BY <2>1 DEF Holds, WorksOn
  <2>4. ASSUME ~dirty'[t] PROVE Clean(t)'
    BY <2>1, <2>2, <2>3, <2>4, CleanStay DEF CInv
  <2>5. ASSUME NEW u \in Templates, u # t, ~dirty'[u] PROVE Clean(u)'
    BY <2>1, <2>2, <2>5, CleanFrame DEF CInv
  <2> QED
    BY <2>4, <2>5 DEF CInv
<1>4. ASSUME NEW t \in Templates, Expire(t) PROVE CInv'
  <2> SUFFICES ASSUME NEW u \in Templates, ~dirty'[u] PROVE Clean(u)'
    BY DEF CInv
  <2>1. Clean(u) /\ cache'[u] \in {None, cache[u]} /\ UNCHANGED <<doc, pc, job, loc>>
    BY <1>4 DEF Expire, CInv, TInv, TypeOK
  <2> QED
    BY <2>1 DEF Clean, Alone, Agrees, Holds, WorksOn, Changes
<1>5. CASE UNCHANGED vars
  BY <1>5 DEF vars, CInv, Clean, Alone, Agrees, Holds, WorksOn, Changes
<1> QED
  BY <1>1, <1>2, <1>3, <1>4, <1>5 DEF Next

LEMMA Invariants == Spec => [](TInv /\ CInv)
<1>1. Init => TInv /\ CInv
  BY TypeInit, CleanInit
<1>2. TInv /\ CInv /\ [Next]_vars => (TInv /\ CInv)'
  BY TypeStep, CleanStep
<1> QED
  BY <1>1, <1>2, PTL DEF Spec

\* Whatever requests interleave: while no change of a template is under way and
\* none overlapped another request or broke off, its cache entry is the stored
\* document and a removed template is not cached.
THEOREM CacheCoherent == Spec => []Coherence
<1>1. TInv /\ CInv => Coherence
  BY DEF CInv, Clean, Agrees, Coherence, WorksOn, TInv, Shape, ShapeOf, Changes
<1> QED
  BY <1>1, Invariants, PTL

\* Under the same condition a PATCH without a visibility leaves it alone.
THEOREM VisibilityIsKept == Spec => VisibilityKept
<1> DEFINE Kept ==
      \A p \in Handlers :
        pc[p] = "save" /\ doc' # doc /\ pc'[p] # pc[p]
          /\ job[p].dto.public = None /\ ~dirty[job[p].tpl]
        => doc'[job[p].tpl].public = doc[job[p].tpl].public
<1>1. TInv /\ CInv /\ TInv' /\ [Next]_vars => [Kept]_vars
  <2> SUFFICES ASSUME TInv, CInv, TInv', Next, NEW p \in Handlers,
                      pc[p] = "save", doc' # doc, pc'[p] # pc[p],
                      job[p].dto.public = None, ~dirty[job[p].tpl]
               PROVE  doc'[job[p].tpl].public = doc[job[p].tpl].public
    OBVIOUS
  <2>1. \A q \in Handlers \ {p} : Arrive(q) \/ Step(q) \/ Abort(q) => pc'[p] = pc[p]
    <3> SUFFICES ASSUME NEW q \in Handlers \ {p} PROVE Arrive(q) \/ Step(q) \/ Abort(q) => pc'[p] = pc[p]
      OBVIOUS
    <3>1. Arrive(q) => pc'[p] = pc[p]
      BY ArriveEnters DEF TInv, TypeOK
    <3>2. Step(q) => pc'[p] = pc[p]
      BY DEF Step, Look, Load, Fill, Proceed, Find, Save, SetCache, Remove, DropCache,
             Finish, TInv, TypeOK
    <3>3. Abort(q) => pc'[p] = pc[p]
      BY DEF Abort, Finish, TInv, TypeOK
    <3> QED
      BY <3>1, <3>2, <3>3
  <2>2. Step(p)
    <3>1. ~Arrive(p)
      BY ArriveEnters
    <3>2. ~Abort(p)
      BY DEF Abort
    <3>3. \A t \in Templates : ~Expire(t)
      BY DEF Expire
    <3> QED
      BY <2>1, <3>1, <3>2, <3>3 DEF Next
  <2>3. Save(p)
    BY <2>2 DEF Step, Look, Load, Fill, Find, SetCache, Remove, DropCache
  <2>4. PICK t \in Templates :
          t = job[p].tpl /\ doc[t] \in Doc /\ Holds(p, t) /\ WorksOn(p, t)
    BY <2>3 DEF Save, Exists, TInv, TypeOK, Shape, ShapeOf, Job, CInv, Clean, WorksOn
  <2>5. doc'[t] = Updated(doc[t], job[p].dto, loc[p].public)
    BY <2>3, <2>4 DEF Save, TInv, TypeOK
  <2>6. Updated(doc[t], job[p].dto, loc[p].public).public = loc[p].public
    BY <2>4 DEF Updated, Doc
  <2> QED
    BY <2>4, <2>5, <2>6, DataAssumption DEF Holds
<1>2. VisibilityKept <=> [][Kept]_vars
  BY DEF VisibilityKept
<1> QED
  BY <1>1, <1>2, Invariants, PTL DEF Spec

\* A removed template stays removed, whatever requests for it are in flight.
THEOREM RemovalIsFinal == Spec => RemovalFinal
<1> DEFINE Final == \A t \in Templates \ fresh : doc[t] = None => doc'[t] = None
<1>1. TInv /\ [Next]_vars => [Final]_vars
  <2> SUFFICES ASSUME TInv, Next, NEW t \in Templates \ fresh, doc[t] = None
               PROVE  doc'[t] = None
    OBVIOUS
  <2>1. ASSUME NEW p \in Handlers, Arrive(p) PROVE doc'[t] = None
    BY <2>1 DEF Arrive, Lookup, Post, Request, TInv, TypeOK
  <2>2. ASSUME NEW p \in Handlers, Step(p) PROVE doc'[t] = None
    BY <2>2 DEF Step, Look, Load, Fill, Find, Save, SetCache, Remove, DropCache,
                TInv, TypeOK, Exists
  <2>3. ASSUME NEW p \in Handlers, Abort(p) PROVE doc'[t] = None
    BY <2>3 DEF Abort
  <2>4. ASSUME NEW u \in Templates, Expire(u) PROVE doc'[t] = None
    BY <2>4 DEF Expire
  <2> QED
    BY <2>1, <2>2, <2>3, <2>4 DEF Next
<1>2. RemovalFinal <=> [][Final]_vars
  BY DEF RemovalFinal
<1> QED
  BY <1>1, <1>2, Invariants, PTL DEF Spec

-----------------------------------------------------------------------------
(* The cache implements ReadThrough *)

\* What a step does to Held, from what it does to the locals.
LEMMA HeldType == TInv => Held \in [Handlers -> [Templates -> Doc \cup {None}]]
  BY DEF TInv, TypeOK, Locals, Held

LEMMA HeldSame ==
  ASSUME TInv, NEW p \in Handlers, Others(p),
         loc'[p].held = loc[p].held, loc[p].held # None => job'[p].tpl = job[p].tpl
  PROVE  Held' = Held
  BY DEF Held, Others

LEMMA HeldSet ==
  ASSUME TInv, NEW p \in Handlers, Others(p), NEW t \in Templates, NEW v \in Doc \cup {None},
         loc'[p].held = v, v # None => job'[p].tpl = t,
         loc[p].held # None => job[p].tpl = t
  PROVE  Held' = [Held EXCEPT ![p][t] = v]
<1>1. \A q \in Handlers \ {p} : Held'[q] = Held[q]
  BY DEF Held, Others
<1>2. Held'[p] = [u \in Templates |-> IF v # None /\ u = t THEN v ELSE None]
  BY DEF Held
<1>3. Held[p] = [u \in Templates |-> IF loc[p].held # None /\ u = t THEN loc[p].held ELSE None]
  BY DEF Held
<1>4. Held'[p] = [Held[p] EXCEPT ![t] = v]
  BY <1>2, <1>3
<1>5. Held \in [Handlers -> [Templates -> Doc \cup {None}]] /\ DOMAIN Held' = Handlers
  BY HeldType DEF Held
<1>6. Held' = [q \in Handlers |-> Held'[q]]
  BY DEF Held
<1> QED
  BY <1>1, <1>4, <1>5, <1>6

LEMMA ContractInit == Init /\ TInv => ReadThroughCache!Init
  BY DEF Init, TInv, TypeOK, ReadThroughCache!Init, Held, NoLocals

\* A request that arrives, and one that only reads or answers, is a step the
\* contract does not see; a load, a change, a write to the cache and a request
\* that breaks off are its Load, Store, Cache, Drop and Forget.
LEMMA ContractStep == TInv /\ TInv' /\ [Next]_vars => [ReadThroughCache!Next]_(ReadThroughCache!vars)
<1> SUFFICES ASSUME TInv, TInv', [Next]_vars PROVE ReadThroughCache!Next \/ UNCHANGED ReadThroughCache!vars
  OBVIOUS
<1>1. ASSUME NEW p \in Handlers, Arrive(p) PROVE ReadThroughCache!Next \/ UNCHANGED ReadThroughCache!vars
  <2>0. pc[p] = "idle" /\ loc[p].held = None /\ NoDto \in Dto
    BY <1>1, ArriveEnters DEF TInv, Shape, ShapeOf, NoDto, Dto
  <2>1. ASSUME NEW t \in Templates, NEW dto \in Bodies, Post(p, t, dto)
        PROVE  ReadThroughCache!Store(p, t, NewDoc(dto)) /\ NewDoc(dto) \in Doc
    <3> DEFINE j == [kind |-> "post", tpl |-> t, by |-> Admin, dto |-> dto]
    <3>1. j \in Job /\ j.kind = "post" /\ j.tpl = t
      BY DataAssumption DEF Job, Kinds
    <3>2. NewDoc(dto) \in Doc
      BY <2>1, DocTypes DEF Post
    <3>3. Enter(p, j, "set", 0, NewDoc(dto)) /\ NewDoc(dto) # None
      BY <2>1, <3>2, DataAssumption DEF Post
    <3> HIDE DEF j
    <3>4. Others(p) /\ job'[p].tpl = t /\ loc'[p].held = NewDoc(dto)
      BY <3>1, <3>2, <3>3, EnterType
    <3>5. Held' = [Held EXCEPT ![p][t] = NewDoc(dto)]
      BY <2>0, <3>2, <3>4, HeldSet
    <3> QED
      BY <2>1, <3>2, <3>5 DEF Post, ReadThroughCache!Store
  <2>2. ASSUME NEW t \in Templates, Lookup(p, t) PROVE UNCHANGED ReadThroughCache!vars
    <3> DEFINE j == [kind |-> "lookup", tpl |-> t, by |-> Admin, dto |-> NoDto]
    <3>1. j \in Job /\ j.kind = "lookup"
      BY <2>0 DEF Job, Kinds
    <3>2. Enter(p, j, "look", 1, None)
      BY <2>2 DEF Lookup
    <3> HIDE DEF j
    <3>3. Others(p) /\ loc'[p].held = None
      BY <3>1, <3>2, EnterType
    <3> QED
      BY <2>0, <2>2, <3>3, HeldSame DEF Lookup, ReadThroughCache!vars
  <2>3. ASSUME NEW t \in Templates, NEW kind \in Kinds, NEW u \in Users \cup {Admin},
               NEW dto \in Bodies \cup {NoDto}, Request(p, t, kind, u, dto)
        PROVE  UNCHANGED ReadThroughCache!vars
    <3> DEFINE j == [kind |-> kind, tpl |-> t, by |-> u, dto |-> dto]
    <3>1. j \in Job /\ j.kind # "post"
      BY <2>0, <2>3, DataAssumption DEF Job, Request
    <3>2. PICK calls \in 1..2 : Enter(p, j, "look", calls, None)
      BY <2>3 DEF Request
    <3> HIDE DEF j
    <3>3. Others(p) /\ loc'[p].held = None
      BY <3>1, <3>2, EnterType
    <3> QED
      BY <2>0, <2>3, <3>3, HeldSame DEF Request, ReadThroughCache!vars
  <2> QED
    BY <1>1, <2>1, <2>2, <2>3 DEF Arrive, ReadThroughCache!Next
<1>2. ASSUME NEW p \in Handlers, Step(p) PROVE ReadThroughCache!Next \/ UNCHANGED ReadThroughCache!vars
  <2>0. PICK t \in Templates :
          t = job[p].tpl /\ pc[p] # "idle" /\ job[p] \in Job
    BY <1>2 DEF Step, Look, Load, Fill, Find, Save, SetCache, Remove, DropCache,
                TInv, Shape, ShapeOf, Job
  <2>1. CASE Finish(p) /\ UNCHANGED <<doc, cache>> /\ loc[p].held = None
    BY <2>1, FinishType, HeldSame DEF NoLocals, ReadThroughCache!vars
  <2>2. CASE Look(p)
    <3>1. loc[p].held = None /\ UNCHANGED <<doc, cache>> /\ pc[p] = "look"
      BY <2>2 DEF Look, TInv, Shape, ShapeOf
    <3>2. CASE cache[t] # None /\ Proceed(p, cache[t])
      <4>1. cache[t] \in Doc
        BY <3>2 DEF TInv, TypeOK
      <4>2. Others(p) /\ loc'[p].held = None
        BY <3>1, <3>2, <4>1, ProceedType
      <4> QED
        BY <3>1, <4>2, HeldSame DEF ReadThroughCache!vars
    <3>3. CASE UNCHANGED <<job, loc>>
      BY <3>1, <3>3, HeldSame DEF ReadThroughCache!vars, Held
    <3> QED
      BY <2>0, <2>2, <3>2, <3>3 DEF Look
  <2>3. CASE Load(p)
    <3>1. CASE Finish(p)
      BY <2>1, <2>3, <3>1 DEF Load, TInv, Shape, ShapeOf
    <3>2. CASE /\ doc[t] # None
               /\ pc' = [pc EXCEPT ![p] = "fill"]
               /\ loc' = [loc EXCEPT ![p].held = doc[t]]
               /\ UNCHANGED job
      <4>1. doc[t] \in Doc
        BY <3>2 DEF TInv, TypeOK
      <4>2. loc'[p].held = doc[t] /\ Others(p) /\ job'[p].tpl = t
        BY <2>0, <3>2, <4>1, HoldUpdate DEF TInv, TypeOK, Others
      <4>3. Held' = [Held EXCEPT ![p][t] = doc[t]]
        BY <2>0, <4>1, <4>2, HeldSet
      <4> QED
        BY <2>3, <4>3 DEF Load, ReadThroughCache!Load, ReadThroughCache!Next
    <3> QED
      BY <2>0, <2>3, <3>1, <3>2 DEF Load, Exists
  <2>4. CASE Fill(p)
    <3>1. loc[p].held \in Doc /\ loc[p].held # None
      BY <2>4 DEF Fill, TInv, TypeOK, Shape, ShapeOf, Locals
    <3>2. Others(p) /\ loc'[p].held = None
      BY <2>4, <3>1, ProceedType DEF Fill
    <3>3. Held' = [Held EXCEPT ![p][t] = None]
      BY <2>0, <3>2, HeldSet
    <3>4. Held[p][t] = loc[p].held
      BY <2>0, <3>1 DEF Held
    <3> QED
      BY <2>0, <2>4, <3>1, <3>3, <3>4 DEF Fill, ReadThroughCache!Cache, ReadThroughCache!Next
  <2>5. CASE Find(p)
    BY <2>1, <2>5, HeldSame DEF Find, TInv, Shape, ShapeOf, ReadThroughCache!vars, Held
  <2>6. CASE Save(p)
    <3> DEFINE new == Updated(doc[t], job[p].dto, loc[p].public)
    <3>1. CASE Finish(p) /\ UNCHANGED doc
      BY <2>1, <2>6, <3>1 DEF Save, TInv, Shape, ShapeOf
    <3>2. CASE /\ doc[t] # None
               /\ doc' = [doc EXCEPT ![t] = new]
               /\ pc' = [pc EXCEPT ![p] = "set"]
               /\ loc' = [loc EXCEPT ![p].held = new]
               /\ UNCHANGED job
      <4>1. new \in Doc
        BY <2>0, <2>6, <3>2, DocTypes DEF Save, TInv, TypeOK, Shape, ShapeOf, Job
      <4> HIDE DEF new
      <4>2. loc'[p].held = new /\ Others(p) /\ job'[p].tpl = t
        BY <2>0, <3>2, <4>1, HoldUpdate DEF TInv, TypeOK, Others
      <4>3. Held' = [Held EXCEPT ![p][t] = new]
        BY <2>0, <4>1, <4>2, HeldSet
      <4> QED
        BY <2>6, <3>2, <4>1, <4>3 DEF Save, ReadThroughCache!Store, ReadThroughCache!Next
    <3> QED
      BY <2>0, <2>6, <3>1, <3>2 DEF Save, Exists
  <2>7. CASE SetCache(p)
    <3>1. loc[p].held \in Doc /\ loc[p].held # None
      BY <2>7 DEF SetCache, TInv, TypeOK, Shape, ShapeOf, Locals
    <3>2. Others(p) /\ loc'[p].held = None
      BY <2>7, FinishType DEF SetCache, NoLocals
    <3>3. Held' = [Held EXCEPT ![p][t] = None]
      BY <2>0, <3>2, HeldSet
    <3>4. Held[p][t] = loc[p].held
      BY <2>0, <3>1 DEF Held
    <3> QED
      BY <2>0, <2>7, <3>1, <3>3, <3>4 DEF SetCache, ReadThroughCache!Cache, ReadThroughCache!Next
  <2>8. CASE Remove(p)
    <3>1. Held' = Held
      BY <2>8 DEF Remove, Held
    <3>2. ReadThroughCache!Store(p, t, None)
      BY <2>0, <2>8, <3>1 DEF Remove, ReadThroughCache!Store
    <3> QED
      BY <3>2 DEF ReadThroughCache!Next
  <2>9. CASE DropCache(p)
    <3>1. loc[p].held = None
      BY <2>9 DEF DropCache, TInv, Shape, ShapeOf
    <3>2. Held' = Held
      BY <2>9, <3>1, FinishType, HeldSame DEF DropCache, NoLocals
    <3> QED
      BY <2>0, <2>9, <3>2 DEF DropCache, ReadThroughCache!Drop, ReadThroughCache!Next
  <2> QED
    BY <1>2, <2>2, <2>3, <2>4, <2>5, <2>6, <2>7, <2>8, <2>9 DEF Step
<1>3. ASSUME NEW p \in Handlers, Abort(p) PROVE ReadThroughCache!Next \/ UNCHANGED ReadThroughCache!vars
  <2>0. PICK t \in Templates : t = job[p].tpl
    BY <1>3 DEF Abort, TInv, Shape, ShapeOf, Job
  <2>1. Others(p) /\ loc'[p].held = None
    BY <1>3, FinishType DEF Abort, NoLocals
  <2>2. Held' = [Held EXCEPT ![p][t] = None]
    BY <2>0, <2>1, HeldSet
  <2> QED
    BY <1>3, <2>2 DEF Abort, ReadThroughCache!Forget, ReadThroughCache!Next
<1>4. ASSUME NEW t \in Templates, Expire(t) PROVE ReadThroughCache!Next
  BY <1>4 DEF Expire, ReadThroughCache!Drop, ReadThroughCache!Next, Held
<1>5. CASE UNCHANGED vars
  BY <1>5 DEF vars, ReadThroughCache!vars, Held
<1> QED
  BY <1>1, <1>2, <1>3, <1>4, <1>5 DEF Next

\* The cache of templates implements the read-through cache, for any number of
\* templates and requests.
THEOREM CacheIsReadThrough == Spec => CacheContract
<1>2. Init /\ TInv => ReadThroughCache!Init
  BY ContractInit
<1>3. TInv /\ TInv' /\ [Next]_vars => [ReadThroughCache!Next]_(ReadThroughCache!vars)
  BY ContractStep
<1>4. Init => TInv
  BY TypeInit
<1> QED
  BY <1>2, <1>3, <1>4, Invariants, PTL DEF Spec, CacheContract, ReadThroughCache!Spec

====
