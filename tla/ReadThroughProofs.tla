-------------------------- MODULE ReadThroughProofs --------------------------
(***************************************************************************)
(* What follows from the contract alone, for every cache that implements   *)
(* it.                                                                     *)
(***************************************************************************)
EXTENDS ReadThrough, TLAPS

LEMMA TypeStep == TypeOK /\ [Next]_vars => TypeOK'
<1> SUFFICES ASSUME TypeOK, [Next]_vars PROVE TypeOK'
  OBVIOUS
<1>1. ASSUME NEW p \in Procs, NEW k \in Keys, Load(p, k) PROVE TypeOK'
  BY <1>1 DEF TypeOK, Load
<1>2. ASSUME NEW p \in Procs, NEW k \in Keys, Cache(p, k) PROVE TypeOK'
  BY <1>2 DEF TypeOK, Cache
<1>3. ASSUME NEW p \in Procs, NEW k \in Keys, Forget(p, k) PROVE TypeOK'
  BY <1>3 DEF TypeOK, Forget
<1>4. ASSUME NEW p \in Procs, NEW k \in Keys, NEW v \in Values \cup {None}, Store(p, k, v)
      PROVE  TypeOK'
  <2>1. [held EXCEPT ![p][k] = v] \in [Procs -> [Keys -> Values \cup {None}]]
    BY DEF TypeOK
  <2> QED
    BY <1>4, <2>1 DEF TypeOK, Store
<1>5. ASSUME NEW k \in Keys, Drop(k) PROVE TypeOK'
  BY <1>5 DEF TypeOK, Drop
<1>6. CASE UNCHANGED vars
  BY <1>6 DEF TypeOK, vars
<1> QED
  BY <1>1, <1>2, <1>3, <1>4, <1>5, <1>6 DEF Next

LEMMA TypeCorrect == Spec => []TypeOK
<1>1. Init => TypeOK
  BY DEF Init, TypeOK
<1> QED
  BY <1>1, TypeStep, PTL DEF Spec

\* A read-through cache goes stale only through a change of the store: no
\* interleaving of readers, of entries that end and of operations that break
\* off outdates a key whose entry and operations under way are fresh.
THEOREM StaleOnlyByChange == Spec => StaleOnlyByStore
<1> DEFINE Keeps == \A k \in Keys : Fresh(k) /\ value'[k] = value[k] => Fresh(k)'
<1>1. TypeOK /\ [Next]_vars => [Keeps]_vars
  <2> SUFFICES ASSUME TypeOK, Next, NEW k \in Keys, Fresh(k), value'[k] = value[k]
               PROVE  Fresh(k)'
    OBVIOUS
  <2>1. ASSUME NEW p \in Procs, NEW l \in Keys, Load(p, l) PROVE Fresh(k)'
    BY <2>1 DEF TypeOK, Load, Fresh
  <2>2. ASSUME NEW p \in Procs, NEW l \in Keys, Cache(p, l) PROVE Fresh(k)'
    BY <2>2 DEF TypeOK, Cache, Fresh
  <2>3. ASSUME NEW p \in Procs, NEW l \in Keys, Forget(p, l) PROVE Fresh(k)'
    BY <2>3 DEF TypeOK, Forget, Fresh
  <2>4. ASSUME NEW p \in Procs, NEW l \in Keys, NEW v \in Values \cup {None}, Store(p, l, v)
        PROVE  Fresh(k)'
    <3>1. entry'[k] \in {None, value'[k]}
      BY <2>4 DEF Store, Fresh
    <3>2. \A q \in Procs : held'[q][k] = held[q][k] \/ (l = k /\ held'[q][k] = v)
      BY <2>4 DEF TypeOK, Store
    <3>3. l = k => value'[k] = v
      BY <2>4 DEF TypeOK, Store
    <3> QED
      BY <3>1, <3>2, <3>3 DEF Fresh
  <2>5. ASSUME NEW l \in Keys, Drop(l) PROVE Fresh(k)'
    BY <2>5 DEF TypeOK, Drop, Fresh
  <2> QED
    BY <2>1, <2>2, <2>3, <2>4, <2>5 DEF Next
<1>2. StaleOnlyByStore <=> [][Keeps]_vars
  BY DEF StaleOnlyByStore
<1> QED
  BY <1>1, <1>2, TypeCorrect, PTL DEF Spec
==============================================================================
