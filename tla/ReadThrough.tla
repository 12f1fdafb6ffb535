----------------------------- MODULE ReadThrough -----------------------------
(***************************************************************************)
(* What a read-through cache in front of a document store promises,        *)
(* whatever operation uses it: an operation caches only a value that was   *)
(* the stored one at some moment while the operation was under way, and    *)
(* entries may vanish at any time.  The caches template:<id> and           *)
(* unread_notifications:<user> implement it.                               *)
(***************************************************************************)

CONSTANTS
  Keys,    \* what is cached
  Values,  \* what may be stored
  Procs,   \* operations under way
  None

VARIABLES
  value,  \* the stored values, None where there is none
  entry,  \* the cache entries
  held    \* what each operation has read or written and may still cache

vars == <<value, entry, held>>

TypeOK ==
  /\ value \in [Keys -> Values \cup {None}]
  /\ entry \in [Keys -> Values \cup {None}]
  /\ held \in [Procs -> [Keys -> Values \cup {None}]]

Init ==
  /\ value \in [Keys -> Values \cup {None}]
  /\ entry = [k \in Keys |-> None]
  /\ held = [p \in Procs |-> [k \in Keys |-> None]]

\* p reads what is stored under k and may cache it later.
Load(p, k) ==
  /\ held' = [held EXCEPT ![p][k] = value[k]]
  /\ UNCHANGED <<value, entry>>

\* p changes what is stored under k, and may keep the result to cache it.
Store(p, k, v) ==
  /\ value' = [value EXCEPT ![k] = v]
  /\ held' \in {held, [held EXCEPT ![p][k] = v]}
  /\ UNCHANGED entry

Cache(p, k) ==
  /\ held[p][k] # None
  /\ entry' = [entry EXCEPT ![k] = held[p][k]]
  /\ held' = [held EXCEPT ![p][k] = None]
  /\ UNCHANGED value

\* p ends without caching what it holds.
Forget(p, k) ==
  /\ held' = [held EXCEPT ![p][k] = None]
  /\ UNCHANGED <<value, entry>>

\* An entry is dropped or reaches its time to live.
Drop(k) ==
  /\ entry' = [entry EXCEPT ![k] = None]
  /\ UNCHANGED <<value, held>>

Next ==
  \/ \E p \in Procs, k \in Keys :
       \/ Load(p, k) \/ Cache(p, k) \/ Forget(p, k)
       \/ \E v \in Values \cup {None} : Store(p, k, v)
  \/ \E k \in Keys : Drop(k)

Spec == Init /\ [][Next]_vars

-----------------------------------------------------------------------------
\* Neither the entry nor an operation under way has an outdated value of k.
Fresh(k) ==
  /\ entry[k] \in {None, value[k]}
  /\ \A p \in Procs : held[p][k] \in {None, value[k]}

\* Only a change of the store makes a cache stale: while the stored value
\* stays, no interleaving of readers, expiry and aborted operations outdates
\* a fresh key.
StaleOnlyByStore ==
  [][\A k \in Keys : Fresh(k) /\ value'[k] = value[k] => Fresh(k)']_vars

=============================================================================
