---------------------------- MODULE Notifications ----------------------------
(***************************************************************************)
(* Notifications: NotificationsController, NotificationOwnershipGuard,     *)
(* NotificationsService with its cache of unread counts, the document      *)
(* repository, and the events the gateway sends to the room of a user.     *)
(* Every await ends a step; what the requests only read or answer is left  *)
(* out.                                                                    *)
(***************************************************************************)
EXTENDS FiniteSets, Integers

CONSTANTS
  Notes,     \* notification ids
  Users,
  Admins,    \* the users who may touch the notifications of others
  Handlers,  \* requests in flight
  None

ASSUME ConstantsAssumption ==
  /\ Admins \subseteq Users
  /\ IsFiniteSet(Notes)
  /\ None \notin Nat /\ None \notin [user : Users, read : BOOLEAN]

VARIABLES
  note,    \* the notification collection
  fresh,   \* ids no notification ever had
  cache,   \* the cache entries unread_notifications:<user>
  pc,      \* where each request waits
  job,     \* what it was asked to do
  loc,     \* its local variables
  sent,    \* history: the events sent, with their notification
  silent,  \* history: notifications whose event a broken off request owes
  dirty    \* history: a change overlapped another request or broke off

vars == <<note, fresh, cache, pc, job, loc, sent, silent, dirty>>

Note == [user : Users, read : BOOLEAN]

Kinds == {"count", "create", "read", "readAll", "delete"}

\* The notification a request names or has created, and the user it is about.
Job == [kind : Kinds, id : Notes \cup {None}, user : Users, by : Users]

\* count: the unread count to cache; todo: what updateMany has still to write.
Counts == 0..Cardinality(Notes)
Locals == [count : Counts \cup {None}, todo : SUBSET Notes]
NoLocals == [count |-> None, todo |-> {}]

Stages == {"idle", "look", "count", "fill", "insert", "announce", "guard", "find",
           "drop", "findOne", "save", "match", "mark", "collect", "remove"}

Events == {"created", "updated", "deleted"}

Exists(n) == note[n] # None
NotesOf(u) == {n \in Notes : Exists(n) /\ note[n].user = u}

\* countUnread
Unread(u) == Cardinality({n \in NotesOf(u) : ~note[n].read})

WorksFor(p, u) == pc[p] # "idle" /\ job[p].user = u
Busy(u) == \E p \in Handlers : WorksFor(p, u)
Changes(j) == j.kind # "count"

TypeOK ==
  /\ note \in [Notes -> Note \cup {None}]
  /\ fresh \subseteq Notes
  /\ cache \in [Users -> Counts \cup {None}]
  /\ pc \in [Handlers -> Stages]
  /\ job \in [Handlers -> Job \cup {None}]
  /\ loc \in [Handlers -> Locals]
  /\ sent \subseteq Events \X Notes
  /\ silent \subseteq Notes
  /\ dirty \in [Users -> BOOLEAN]

Init ==
  /\ note = [n \in Notes |-> None]
  /\ fresh = Notes
  /\ cache = [u \in Users |-> None]
  /\ pc = [p \in Handlers |-> "idle"]
  /\ job = [p \in Handlers |-> None]
  /\ loc = [p \in Handlers |-> NoLocals]
  /\ sent = {} /\ silent = {}
  /\ dirty = [u \in Users |-> FALSE]

-----------------------------------------------------------------------------
(* Requests *)

Goto(p, stage) == pc' = [pc EXCEPT ![p] = stage]

\* The request is answered, with a result or an error.
Finish(p) ==
  /\ Goto(p, "idle")
  /\ job' = [job EXCEPT ![p] = None]
  /\ loc' = [loc EXCEPT ![p] = NoLocals]

Collides(j) ==
  \E q \in Handlers : WorksFor(q, j.user) /\ (Changes(j) \/ Changes(job[q]))

\* The undisturbed history of a user starts again when no request is about the
\* user and the count is not cached.
Enter(p, j, stage) ==
  /\ pc[p] = "idle"
  /\ Goto(p, stage)
  /\ job' = [job EXCEPT ![p] = j]
  /\ dirty' = [dirty EXCEPT ![j.user] =
        Collides(j) \/ (@ /\ (Busy(j.user) \/ cache[j.user] # None))]
  /\ UNCHANGED <<note, fresh, cache, loc, sent, silent>>

\* GET /notifications/unread
GetUnreadCount(p, u) ==
  Enter(p, [kind |-> "count", id |-> None, user |-> u, by |-> u], "look")

\* NotificationsService.create, for a user users.findById found: the module
\* exports it for others, and none calls it yet.
Create(p, u) ==
  Enter(p, [kind |-> "create", id |-> None, user |-> u, by |-> u], "insert")

\* PATCH /notifications/:id/read and DELETE /notifications/:id
Request(p, kind, n, u) ==
  /\ n \notin fresh /\ kind \in {"read", "delete"}
  /\ Enter(p, [kind |-> kind, id |-> n, by |-> u,
               user |-> IF Exists(n) THEN note[n].user ELSE u], "guard")

\* PATCH /notifications/read
MarkAsReadAll(p, u) ==
  Enter(p, [kind |-> "readAll", id |-> None, user |-> u, by |-> u], "drop")

-----------------------------------------------------------------------------
(* getUnreadCount *)

\* Mutant: a cached count is cached again.
LookRenewing(p) ==
  /\ pc[p] = "look"
  /\ LET count == cache[job[p].user] IN
       \/ /\ count # None
          /\ Goto(p, "fill") /\ loc' = [loc EXCEPT ![p].count = count]
          /\ UNCHANGED job
       \/ /\ count = None
          /\ Goto(p, "count") /\ UNCHANGED <<job, loc>>
  /\ UNCHANGED <<note, fresh, cache, sent, silent, dirty>>

Look(p) ==
  /\ pc[p] = "look"
  /\ \/ cache[job[p].user] # None /\ Finish(p)
     \/ /\ cache[job[p].user] = None
        /\ Goto(p, "count") /\ UNCHANGED <<job, loc>>
  /\ UNCHANGED <<note, fresh, cache, sent, silent, dirty>>

Count(p) ==
  /\ pc[p] = "count"
  /\ loc' = [loc EXCEPT ![p].count = Unread(job[p].user)]
  /\ Goto(p, "fill")
  /\ UNCHANGED <<note, fresh, cache, job, sent, silent, dirty>>

Fill(p) ==
  /\ pc[p] = "fill"
  /\ cache' = [cache EXCEPT ![job[p].user] = loc[p].count]
  /\ Finish(p)
  /\ UNCHANGED <<note, fresh, sent, silent, dirty>>

-----------------------------------------------------------------------------
(* create *)

Insert(p) ==
  /\ pc[p] = "insert"
  /\ \E n \in fresh :
       /\ note' = [note EXCEPT ![n] = [user |-> job[p].user, read |-> FALSE]]
       /\ fresh' = fresh \ {n}
       /\ job' = [job EXCEPT ![p].id = n]
  /\ Goto(p, "announce")
  /\ UNCHANGED <<cache, loc, sent, silent, dirty>>

\* onNewNotification, once the insert has returned.
Announce(p) ==
  /\ pc[p] = "announce"
  /\ sent' = sent \cup {<<"created", job[p].id>>}
  /\ Goto(p, "drop")
  /\ UNCHANGED <<note, fresh, cache, job, loc, silent, dirty>>

-----------------------------------------------------------------------------
(* The requests for one notification *)

\* NotificationOwnershipGuard: one's own, or any for an admin.
Permitted(j) == Exists(j.id) /\ (j.by \in Admins \/ note[j.id].user = j.by)

Guard(p) ==
  /\ pc[p] = "guard"
  /\ \/ ~Permitted(job[p]) /\ Finish(p)
     \/ Permitted(job[p]) /\ Goto(p, "find") /\ UNCHANGED <<job, loc>>
  /\ UNCHANGED <<note, fresh, cache, sent, silent, dirty>>

\* Mutant: the count is dropped for readings only, not for the deletion of an
\* unread notification.
FindDeleting(p) ==
  /\ pc[p] = "find"
  /\ LET j == job[p] IN
       \/ /\ j.kind = "read" /\ UNCHANGED sent
          /\ Goto(p, IF Exists(j.id) THEN "drop" ELSE "findOne")
       \/ /\ j.kind = "delete" /\ Goto(p, "remove")
          /\ sent' = sent \cup IF Exists(j.id) THEN {<<"deleted", j.id>>} ELSE {}
  /\ UNCHANGED <<note, fresh, cache, job, loc, silent, dirty>>

\* findById in updateIsRead and delete: a notification that is gone goes on to
\* the repository, which finds that out for itself; a read one that is deleted
\* is announced at once, because the unread count stays.
Find(p) ==
  /\ pc[p] = "find"
  /\ LET j == job[p] IN
       \/ ~Exists(j.id) /\ j.kind = "read" /\ Goto(p, "findOne") /\ UNCHANGED sent
       \/ ~Exists(j.id) /\ j.kind = "delete" /\ Goto(p, "remove") /\ UNCHANGED sent
       \/ /\ Exists(j.id) /\ (j.kind = "read" \/ ~note[j.id].read)
          /\ Goto(p, "drop") /\ UNCHANGED sent
       \/ /\ Exists(j.id) /\ j.kind = "delete" /\ note[j.id].read
          /\ sent' = sent \cup {<<"deleted", j.id>>}
          /\ Goto(p, "remove")
  /\ UNCHANGED <<note, fresh, cache, job, loc, silent, dirty>>

\* Mutant: reading or deleting one notification lowers a cached count by one.
DropCounting(p) ==
  /\ pc[p] = "drop"
  /\ LET j == job[p] IN
       /\ cache' = [cache EXCEPT ![j.user] =
             IF @ # None /\ j.kind \in {"read", "delete"} THEN @ - 1 ELSE None]
       /\ \/ j.kind = "create" /\ Finish(p) /\ UNCHANGED sent
          \/ /\ j.kind = "read" /\ sent' = sent \cup {<<"updated", j.id>>}
             /\ Goto(p, "findOne") /\ UNCHANGED <<job, loc>>
          \/ /\ j.kind = "delete" /\ sent' = sent \cup {<<"deleted", j.id>>}
             /\ Goto(p, "remove") /\ UNCHANGED <<job, loc>>
          \/ /\ j.kind = "readAll"
             /\ Goto(p, "match") /\ UNCHANGED <<job, loc, sent>>
  /\ UNCHANGED <<note, fresh, silent, dirty>>

\* invalidateUnreadCache, and the event that follows it in updateIsRead, with
\* the notification as it was before the update, and in delete.
Drop(p) ==
  /\ pc[p] = "drop"
  /\ cache' = [cache EXCEPT ![job[p].user] = None]
  /\ LET j == job[p] IN
       \/ j.kind = "create" /\ Finish(p) /\ UNCHANGED sent
       \/ /\ j.kind = "read" /\ sent' = sent \cup {<<"updated", j.id>>}
          /\ Goto(p, "findOne") /\ UNCHANGED <<job, loc>>
       \/ /\ j.kind = "delete" /\ sent' = sent \cup {<<"deleted", j.id>>}
          /\ Goto(p, "remove") /\ UNCHANGED <<job, loc>>
       \/ /\ j.kind = "readAll"
          /\ Goto(p, "match") /\ UNCHANGED <<job, loc, sent>>
  /\ UNCHANGED <<note, fresh, silent, dirty>>

\* Repository.update: findOne, or 'Record not found'.
FindOne(p) ==
  /\ pc[p] = "findOne"
  /\ \/ ~Exists(job[p].id) /\ Finish(p)
     \/ Exists(job[p].id) /\ Goto(p, "save") /\ UNCHANGED <<job, loc>>
  /\ UNCHANGED <<note, fresh, cache, sent, silent, dirty>>

\* Mutant: the update inserts a notification that is gone.
SaveUpserting(p) ==
  /\ pc[p] = "save"
  /\ note' = [note EXCEPT ![job[p].id] = [user |-> job[p].user, read |-> TRUE]]
  /\ Finish(p)
  /\ UNCHANGED <<fresh, cache, sent, silent, dirty>>

\* findOneAndUpdate writes the document back with isRead set.
Save(p) ==
  /\ pc[p] = "save"
  /\ \/ Exists(job[p].id) /\ note' = [note EXCEPT ![job[p].id].read = TRUE]
     \/ ~Exists(job[p].id) /\ UNCHANGED note
  /\ Finish(p)
  /\ UNCHANGED <<fresh, cache, sent, silent, dirty>>

\* deleteOne
Remove(p) ==
  /\ pc[p] = "remove"
  /\ note' = [note EXCEPT ![job[p].id] = None]
  /\ Finish(p)
  /\ UNCHANGED <<fresh, cache, sent, silent, dirty>>

-----------------------------------------------------------------------------
(* bulkUpdate *)

\* updateMany finds the notifications of the user and writes them one by one.
Match(p) ==
  /\ pc[p] = "match"
  /\ loc' = [loc EXCEPT ![p].todo = NotesOf(job[p].user)]
  /\ Goto(p, "mark")
  /\ UNCHANGED <<note, fresh, cache, job, sent, silent, dirty>>

Mark(p) ==
  /\ pc[p] = "mark"
  /\ \/ \E n \in loc[p].todo :
          /\ \/ Exists(n) /\ note' = [note EXCEPT ![n].read = TRUE]
             \/ ~Exists(n) /\ UNCHANGED note
          /\ loc' = [loc EXCEPT ![p].todo = @ \ {n}]
          /\ UNCHANGED pc
     \/ loc[p].todo = {} /\ Goto(p, "collect") /\ UNCHANGED <<note, loc>>
  /\ UNCHANGED <<fresh, cache, job, sent, silent, dirty>>

\* Mutant: only what is still unread is announced.
CollectUnread(p) ==
  /\ pc[p] = "collect"
  /\ sent' = sent \cup ({"updated"} \X {n \in NotesOf(job[p].user) : ~note[n].read})
  /\ Finish(p)
  /\ UNCHANGED <<note, fresh, cache, silent, dirty>>

\* find, and one event with what it returns.
Collect(p) ==
  /\ pc[p] = "collect"
  /\ sent' = sent \cup ({"updated"} \X NotesOf(job[p].user))
  /\ Finish(p)
  /\ UNCHANGED <<note, fresh, cache, silent, dirty>>

-----------------------------------------------------------------------------
(* The environment *)

\* What the request p has changed and not yet announced.
Owes(p) ==
  CASE pc[p] = "announce"            -> {job[p].id}
    [] pc[p] \in {"mark", "collect"} -> NotesOf(job[p].user) \ loc[p].todo
    [] OTHER                          -> {}

\* The awaited call rejects, or the process dies there.
Abort(p) ==
  /\ pc[p] # "idle"
  /\ Finish(p)
  /\ silent' = silent \cup Owes(p)
  /\ dirty' = [dirty EXCEPT ![job[p].user] =
        @ \/ (job[p].kind = "create" /\ pc[p] \in {"announce", "drop"})]
  /\ UNCHANGED <<note, fresh, cache, sent>>

\* The entry reaches its time to live, or the cache drops it.
Expire(u) ==
  /\ cache[u] # None
  /\ cache' = [cache EXCEPT ![u] = None]
  /\ UNCHANGED <<note, fresh, pc, job, loc, sent, silent, dirty>>

Arrive(p) ==
  \E u \in Users :
    \/ GetUnreadCount(p, u) \/ Create(p, u) \/ MarkAsReadAll(p, u)
    \/ \E n \in Notes, kind \in Kinds : Request(p, kind, n, u)

Step(p) ==
  \/ Look(p) \/ Count(p) \/ Fill(p) \/ Insert(p) \/ Announce(p)
  \/ Guard(p) \/ Find(p) \/ Drop(p) \/ FindOne(p) \/ Save(p) \/ Remove(p)
  \/ Match(p) \/ Mark(p) \/ Collect(p)

Next ==
  \/ \E p \in Handlers : Arrive(p) \/ Step(p) \/ Abort(p)
  \/ \E u \in Users : Expire(u)

Spec == Init /\ [][Next]_vars

\* Requests run to their end unless a call rejects, and entries expire.
Fairness ==
  /\ \A p \in Handlers : WF_vars(Step(p))
  /\ \A u \in Users : WF_vars(Expire(u))

FairSpec == Spec /\ Fairness

-----------------------------------------------------------------------------
(* Properties *)

\* As long as no change of a user's notifications overlapped another request
\* about them or broke off before its invalidation since the count was last
\* uncached, the cached count is the number of unread notifications whenever no
\* change is under way: each of create, updateIsRead, updateIsReadAll and delete
\* drops the entry exactly when it must, before or after its change.
Coherence ==
  \A u \in Users :
    ~dirty[u] /\ (\A p \in Handlers : WorksFor(p, u) => ~Changes(job[p]))
      => cache[u] \in {None, Unread(u)}

\* The clients of a user are told of everything: a notification leaves the
\* collection only after its deletion was announced, and one that is there, or
\* is read, was announced as created, or updated, or a request that will do so
\* is under way, or broke off before it could, however requests interleave.
Announced ==
  \A n \in Notes \ fresh :
    LET Told(event) == <<event, n>> \in sent
        Due(event) == \E p \in Handlers :
                        /\ n \in Owes(p)
                        /\ (event = "created") <=> (job[p].kind = "create")
    IN /\ ~Exists(n) => Told("deleted")
       /\ Exists(n) => Told("created") \/ Due("created") \/ n \in silent
       /\ Exists(n) /\ note[n].read => Told("updated") \/ Due("updated") \/ n \in silent

\* A notification only goes forward: it is created unread, is read at most once
\* and for good, keeps its user, and no update in flight brings it back once it
\* is deleted.
Forward ==
  [][\A n \in Notes \ fresh :
       /\ ~Exists(n) => ~Exists(n)'
       /\ (Exists(n) /\ Exists(n)') =>
            note'[n].user = note[n].user /\ (note[n].read => note'[n].read)]_vars

\* What each request may still put into the cache, by user.
Held ==
  [p \in Handlers |-> [u \in Users |->
     IF loc[p].count # None /\ job[p].user = u THEN loc[p].count ELSE None]]

\* The cache of unread counts is a read-through cache: a count in it was the
\* number of unread notifications at some moment of the request that put it there.
ReadThroughCache ==
  INSTANCE ReadThrough WITH
    Keys <- Users, Values <- Counts, Procs <- Handlers,
    value <- [u \in Users |-> Unread(u)], entry <- cache, held <- Held

CacheContract == ReadThroughCache!Spec

\* A stale count does not last: once a user's notifications no longer change,
\* the cached count agrees with them from some moment on, however often it is
\* asked for.
FreshAgain ==
  \A u \in Users :
    <>[](\A p \in Handlers : WorksFor(p, u) => ~Changes(job[p]))
      => <>[](cache[u] \in {None, Unread(u)})

=============================================================================
