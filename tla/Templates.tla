------------------------------ MODULE Templates ------------------------------
(***************************************************************************)
(* Device templates: TemplatesController, TemplateOwnershipGuard,          *)
(* TemplatesService with its read-through cache, and the document          *)
(* repository with its mapper.  Every request first loads the template in  *)
(* its guard, GET and PATCH load it a second time, and every await ends a  *)
(* step, so requests interleave at every access of the store or the cache. *)
(***************************************************************************)
EXTENDS Naturals

CONSTANTS
  Templates,  \* template ids
  Users,      \* non-admin callers
  Admin,      \* an admin caller
  Names,      \* what a body may leave out: the name, the prototypes
  Kits,       \* lists of channel definitions
  Bodies,     \* the bodies requests carry
  Handlers,   \* requests in flight
  None

ASSUME ConstantsAssumption ==
  /\ None \notin Users \cup Names \cup Kits
  /\ Admin \notin Users \cup {None}

VARIABLES
  doc,    \* the template collection
  fresh,  \* ids no document ever had
  cache,  \* the cache entries template:<id>
  pc,     \* where each request waits
  job,    \* what it was asked to do
  loc,    \* its local variables
  dirty   \* history: a change overlapped another request or broke off

vars == <<doc, fresh, cache, pc, job, loc, dirty>>

\* The mapper stores neither userId nor description: only seeded documents
\* have an owner.
Doc == [owner : Users \cup {None}, public : BOOLEAN, name : Names, channels : Kits]

\* A body; channels = None stands for every body toPersistence cannot map: one
\* without channels, or with a prototype that has no viewport.
Dto == [name : Names \cup {None}, channels : Kits \cup {None}, public : BOOLEAN \cup {None}]
NoDto == [name |-> None, channels |-> None, public |-> None]

ASSUME DataAssumption == Bodies \subseteq Dto /\ None \notin Doc

Kinds == {"get", "patch", "delete", "lookup", "post"}
Job == [kind : Kinds, tpl : Templates, by : Users \cup {Admin}, dto : Dto]

\* calls: the calls of findById still to make; held: the document at hand that
\* goes into the cache next; public: the visibility a PATCH will write.
Locals == [calls : 0..2, held : Doc \cup {None}, public : BOOLEAN \cup {None}]
NoLocals == [calls |-> 0, held |-> None, public |-> None]

Stages == {"idle", "look", "load", "fill", "find", "save", "set", "remove", "drop"}

Exists(t) == doc[t] # None
Or(v, default) == IF v = None THEN default ELSE v

WorksOn(p, t) == pc[p] # "idle" /\ job[p].tpl = t
Busy(t) == \E p \in Handlers : WorksOn(p, t)
Changes(j) == j.kind \in {"patch", "delete", "post"}

TypeOK ==
  /\ doc \in [Templates -> Doc \cup {None}]
  /\ fresh \subseteq Templates
  /\ cache \in [Templates -> Doc \cup {None}]
  /\ pc \in [Handlers -> Stages]
  /\ job \in [Handlers -> Job \cup {None}]
  /\ loc \in [Handlers -> Locals]
  /\ dirty \in [Templates -> BOOLEAN]

\* The seed inserts public documents of users; the other ids are unused.
SeedDoc == [owner : Users, public : {TRUE}, name : Names, channels : Kits]

Init ==
  /\ doc \in [Templates -> SeedDoc \cup {None}]
  /\ fresh = {t \in Templates : doc[t] = None}
  /\ cache = [t \in Templates |-> None]
  /\ pc = [p \in Handlers |-> "idle"]
  /\ job = [p \in Handlers |-> None]
  /\ loc = [p \in Handlers |-> NoLocals]
  /\ dirty = [t \in Templates |-> FALSE]

-----------------------------------------------------------------------------
(* Requests *)

Collides(j) ==
  \E q \in Handlers : WorksOn(q, j.tpl) /\ (Changes(j) \/ Changes(job[q]))

\* The undisturbed history of a template starts again when nobody works on it
\* and it is not cached.
Enter(p, j, stage, calls, held) ==
  /\ pc[p] = "idle"
  /\ pc' = [pc EXCEPT ![p] = stage]
  /\ job' = [job EXCEPT ![p] = j]
  /\ loc' = [loc EXCEPT ![p].calls = calls, ![p].held = held]
  /\ dirty' = [dirty EXCEPT ![j.tpl] =
        Collides(j) \/ (@ /\ (Busy(j.tpl) \/ cache[j.tpl] # None))]

\* The request is answered, with a result or an error.
Finish(p) ==
  /\ pc' = [pc EXCEPT ![p] = "idle"]
  /\ job' = [job EXCEPT ![p] = None]
  /\ loc' = [loc EXCEPT ![p] = NoLocals]

\* Mutant: the visibility is stored as the body has it.
NewDocAsGiven(dto) ==
  [owner |-> None, public |-> dto.public, name |-> dto.name, channels |-> dto.channels]

\* create: the owner passed to the repository is not mapped; private by default.
NewDoc(dto) ==
  [owner |-> None, public |-> Or(dto.public, FALSE), name |-> dto.name,
   channels |-> dto.channels]

\* POST /templates: the document is stored under a new id; caching it follows.
\* Nothing depends on who creates it.
Post(p, t, dto) ==
  /\ t \in fresh /\ dto.name # None /\ dto.channels # None
  /\ Enter(p, [kind |-> "post", tpl |-> t, by |-> Admin, dto |-> dto], "set", 0, NewDoc(dto))
  /\ doc' = [doc EXCEPT ![t] = NewDoc(dto)]
  /\ fresh' = fresh \ {t}
  /\ UNCHANGED cache

\* GET, PATCH and DELETE of /templates/:id.  The guard's findById is one more
\* call before those of the handler.
Request(p, t, kind, u, dto) ==
  /\ kind \in {"get", "patch", "delete"}
  /\ kind # "patch" => dto = NoDto
  /\ Enter(p, [kind |-> kind, tpl |-> t, by |-> u, dto |-> dto], "look",
           IF kind = "delete" THEN 1 ELSE 2, None)
  /\ UNCHANGED <<doc, fresh, cache>>

\* DevicesService.findById and validateChannelValue look a template up for
\* somebody who need not be allowed to read it.
Lookup(p, t) ==
  /\ Enter(p, [kind |-> "lookup", tpl |-> t, by |-> Admin, dto |-> NoDto], "look", 1, None)
  /\ UNCHANGED <<doc, fresh, cache>>

-----------------------------------------------------------------------------
(* findById, in the guard and in the handlers *)

\* TemplateOwnershipGuard: own, public, or any template for an admin.
Permitted(j, tpl) == j.by = Admin \/ tpl.owner = j.by \/ tpl.public

\* Whether the call that returns now is the guard's.
InGuard(p) == loc[p].calls = IF job[p].kind = "delete" THEN 1 ELSE 2

\* Mutant: without a visibility in the body the template becomes private.
VisibilityReset(dto, tpl) == Or(dto.public, FALSE)

\* update: the body's visibility, or that of the template findById gave.
Visibility(dto, tpl) == Or(dto.public, tpl.public)

\* findById returns tpl.
Proceed(p, tpl) ==
  LET j == job[p] IN
  \/ /\ InGuard(p) /\ ~Permitted(j, tpl)
     /\ Finish(p)
  \/ /\ InGuard(p) /\ Permitted(j, tpl)
     /\ pc' = [pc EXCEPT ![p] = IF j.kind = "delete" THEN "remove" ELSE "look"]
     /\ loc' = [loc EXCEPT ![p].calls = @ - 1, ![p].held = None]
     /\ UNCHANGED job
  \/ /\ ~InGuard(p) /\ j.kind = "patch"
     /\ pc' = [pc EXCEPT ![p] = "find"]
     /\ loc' = [loc EXCEPT ![p] = [calls |-> 0, held |-> None,
                                   public |-> Visibility(j.dto, tpl)]]
     /\ UNCHANGED job
  \/ /\ ~InGuard(p) /\ j.kind # "patch"
     /\ Finish(p)

\* Mutant: a hit renews the entry.
LookRenewing(p) ==
  /\ pc[p] = "look"
  /\ LET t == job[p].tpl IN
       \/ /\ cache[t] # None
          /\ pc' = [pc EXCEPT ![p] = "fill"]
          /\ loc' = [loc EXCEPT ![p].held = cache[t]]
       \/ /\ cache[t] = None
          /\ pc' = [pc EXCEPT ![p] = "load"]
          /\ UNCHANGED loc
  /\ UNCHANGED <<doc, fresh, cache, job, dirty>>

Look(p) ==
  /\ pc[p] = "look"
  /\ LET t == job[p].tpl IN
       \/ cache[t] # None /\ Proceed(p, cache[t])
       \/ /\ cache[t] = None
          /\ pc' = [pc EXCEPT ![p] = "load"]
          /\ UNCHANGED <<job, loc>>
  /\ UNCHANGED <<doc, fresh, cache, dirty>>

Load(p) ==
  /\ pc[p] = "load"
  /\ LET t == job[p].tpl IN
       \/ ~Exists(t) /\ Finish(p)
       \/ /\ Exists(t)
          /\ pc' = [pc EXCEPT ![p] = "fill"]
          /\ loc' = [loc EXCEPT ![p].held = doc[t]]
          /\ UNCHANGED job
  /\ UNCHANGED <<doc, fresh, cache, dirty>>

Fill(p) ==
  /\ pc[p] = "fill"
  /\ cache' = [cache EXCEPT ![job[p].tpl] = loc[p].held]
  /\ Proceed(p, loc[p].held)
  /\ UNCHANGED <<doc, fresh, dirty>>

-----------------------------------------------------------------------------
(* update and remove *)

\* Repository.update: findOne; then the mapper throws on a body it cannot map.
Find(p) ==
  /\ pc[p] = "find"
  /\ LET mapped == Exists(job[p].tpl) /\ job[p].dto.channels # None IN
       \/ ~mapped /\ Finish(p)
       \/ /\ mapped
          /\ pc' = [pc EXCEPT ![p] = "save"]
          /\ UNCHANGED <<job, loc>>
  /\ UNCHANGED <<doc, fresh, cache, dirty>>

\* $set of the mapped payload: an undefined name or prototype is left alone.
Updated(old, dto, public) ==
  [old EXCEPT !.name = Or(dto.name, @), !.channels = dto.channels, !.public = public]

\* Mutant: findOneAndUpdate answers with the document before the update.
SaveReturningOld(p) ==
  /\ pc[p] = "save"
  /\ LET t == job[p].tpl
         new == Updated(doc[t], job[p].dto, loc[p].public)
     IN \/ ~Exists(t) /\ Finish(p) /\ UNCHANGED doc
        \/ /\ Exists(t)
           /\ doc' = [doc EXCEPT ![t] = new]
           /\ pc' = [pc EXCEPT ![p] = "set"]
           /\ loc' = [loc EXCEPT ![p].held = doc[t]]
           /\ UNCHANGED job
  /\ UNCHANGED <<fresh, cache, dirty>>

\* Mutant: a template that is gone is inserted again.
SaveUpserting(p) ==
  /\ pc[p] = "save"
  /\ LET t == job[p].tpl
         new == IF Exists(t) THEN Updated(doc[t], job[p].dto, loc[p].public)
                ELSE NewDoc([job[p].dto EXCEPT !.name = CHOOSE n \in Names : TRUE])
     IN /\ doc' = [doc EXCEPT ![t] = new]
        /\ pc' = [pc EXCEPT ![p] = "set"]
        /\ loc' = [loc EXCEPT ![p].held = new]
        /\ UNCHANGED job
  /\ UNCHANGED <<fresh, cache, dirty>>

\* findOneAndUpdate; null when the template is gone.
Save(p) ==
  /\ pc[p] = "save"
  /\ LET t == job[p].tpl
         new == Updated(doc[t], job[p].dto, loc[p].public)
     IN \/ ~Exists(t) /\ Finish(p) /\ UNCHANGED doc
        \/ /\ Exists(t)
           /\ doc' = [doc EXCEPT ![t] = new]
           /\ pc' = [pc EXCEPT ![p] = "set"]
           /\ loc' = [loc EXCEPT ![p].held = new]
           /\ UNCHANGED job
  /\ UNCHANGED <<fresh, cache, dirty>>

\* create and update cache their result and return it.
SetCache(p) ==
  /\ pc[p] = "set"
  /\ cache' = [cache EXCEPT ![job[p].tpl] = loc[p].held]
  /\ Finish(p)
  /\ UNCHANGED <<doc, fresh, dirty>>

\* Mutant: the cache entry survives the template.
RemoveOnly(p) ==
  /\ pc[p] = "remove"
  /\ doc' = [doc EXCEPT ![job[p].tpl] = None]
  /\ Finish(p)
  /\ UNCHANGED <<fresh, cache, dirty>>

\* deleteOne, whether or not there is a document.
Remove(p) ==
  /\ pc[p] = "remove"
  /\ doc' = [doc EXCEPT ![job[p].tpl] = None]
  /\ pc' = [pc EXCEPT ![p] = "drop"]
  /\ UNCHANGED <<fresh, cache, job, loc, dirty>>

DropCache(p) ==
  /\ pc[p] = "drop"
  /\ cache' = [cache EXCEPT ![job[p].tpl] = None]
  /\ Finish(p)
  /\ UNCHANGED <<doc, fresh, dirty>>

-----------------------------------------------------------------------------
(* The environment *)

\* The awaited call rejects, or the process dies there.
Abort(p) ==
  /\ pc[p] # "idle"
  /\ Finish(p)
  /\ dirty' = [dirty EXCEPT ![job[p].tpl] = @ \/ pc[p] \in {"set", "drop"}]
  /\ UNCHANGED <<doc, fresh, cache>>

\* The entry reaches its time to live, or the cache drops it.
Expire(t) ==
  /\ cache[t] # None
  /\ cache' = [cache EXCEPT ![t] = None]
  /\ UNCHANGED <<doc, fresh, pc, job, loc, dirty>>

Arrive(p) ==
  \E t \in Templates :
    \/ Lookup(p, t)
    \/ \E dto \in Bodies : Post(p, t, dto)
    \/ \E kind \in Kinds, u \in Users \cup {Admin}, dto \in Bodies \cup {NoDto} : Request(p, t, kind, u, dto)

Step(p) ==
  \/ Look(p) \/ Load(p) \/ Fill(p)
  \/ Find(p) \/ Save(p) \/ SetCache(p)
  \/ Remove(p) \/ DropCache(p)

Next ==
  \/ \E p \in Handlers : Arrive(p) \/ Step(p) \/ Abort(p)
  \/ \E t \in Templates : Expire(t)

Spec == Init /\ [][Next]_vars

\* Requests run to their end unless a call rejects, and entries expire.
Fairness ==
  /\ \A p \in Handlers : WF_vars(Step(p))
  /\ \A t \in Templates : WF_vars(Expire(t))

FairSpec == Spec /\ Fairness

-----------------------------------------------------------------------------
(* Properties *)

\* As long as no change of a template overlapped another request for it or
\* broke off since it was last uncached, its entry is the stored document
\* whenever no change is under way, and a removed template is not cached:
\* create, update, remove and the fills of findById together keep the entry
\* true although nobody invalidates it on update.
Coherence ==
  \A t \in Templates :
    ~dirty[t] /\ (\A p \in Handlers : WorksOn(p, t) => ~Changes(job[p]))
      => cache[t] \in {None, doc[t]}

\* A PATCH whose body has no visibility writes back the one of the template
\* it looked up, perhaps in the cache: under the same condition that is the
\* stored one, so a PATCH never publishes or hides a template by itself.
VisibilityKept ==
  [][\A p \in Handlers :
       pc[p] = "save" /\ doc' # doc /\ pc'[p] # pc[p]
         /\ job[p].dto.public = None /\ ~dirty[job[p].tpl]
       => doc'[job[p].tpl].public = doc[job[p].tpl].public]_vars

\* No PATCH in flight brings a removed template back into the collection.
RemovalFinal ==
  [][\A t \in Templates \ fresh : doc[t] = None => doc'[t] = None]_vars

\* What each request may still put into the cache, by template.
Held ==
  [p \in Handlers |-> [t \in Templates |->
     IF loc[p].held # None /\ job[p].tpl = t THEN loc[p].held ELSE None]]

\* The cache of templates is a read-through cache: whatever goes into it was
\* the stored document at some moment of the request that put it there.
ReadThroughCache ==
  INSTANCE ReadThrough WITH
    Keys <- Templates, Values <- Doc, Procs <- Handlers,
    value <- doc, entry <- cache, held <- Held

CacheContract == ReadThroughCache!Spec

\* A stale entry does not last: once a template is no longer changed, the
\* fills in flight end and the entry they left expires, so that from some
\* moment on the cache agrees with the collection, however often it is read.
FreshAgain ==
  \A t \in Templates :
    <>[](\A p \in Handlers : WorksOn(p, t) => ~Changes(job[p]))
      => <>[](cache[t] \in {None, doc[t]})

=============================================================================
