---------------------------- MODULE StoreProofs ----------------------------
(***************************************************************************)
(* Theorems about Store, for every set of keys and of things to store.     *)
(* TypeOK and StampsDistinct are inductive as they stand; the order of     *)
(* events follows from the actions and the type invariant.                 *)
(***************************************************************************)
EXTENDS Store, TLAPS

USE StoreAssumption

\* What a call of bumpAndStampLocked followed by the assignment does to the
\* map: the key gets a new object or, if the data has no metadata, nothing.
LEMMA WriteEffect ==
  ASSUME TypeOK, NEW k \in Keys, NEW d \in Data, Write(k, d)
  PROVE  /\ rv' = rv + 1
         /\ items' \in [Keys -> Objects \cup {Absent}]
         /\ \A l \in Keys : \/ items'[l] = items[l]
                            \/ l = k /\ items'[l].rv = rv + 1
<1>1. rv' = rv + 1
  BY DEF Write
<1>2. [rv |-> rv + 1, data |-> d] \in Objects
  BY DEF TypeOK, Objects
<1>3. CASE d \in Opaque
  BY <1>1, <1>2, <1>3 DEF Write, TypeOK
<1>4. CASE d \notin Opaque
  BY <1>1, <1>2, <1>4 DEF Write, TypeOK
<1>5. QED
  BY <1>3, <1>4

LEMMA DeleteEffect ==
  ASSUME TypeOK, NEW k \in Keys, Delete(k)
  PROVE  /\ rv' = rv + 1
         /\ items' \in [Keys -> Objects \cup {Absent}]
         /\ \A l \in Keys : items'[l] \in {items[l], Absent}
BY DEF Delete, TypeOK

\* The type of the Store's state is kept by every method.
THEOREM StoreTypeCorrect == Spec => []TypeOK
<1>1. Init => TypeOK
  BY DEF Init, TypeOK
<1>2. TypeOK /\ [Next]_vars => TypeOK'
  <2> SUFFICES ASSUME TypeOK, [Next]_vars PROVE TypeOK'
    OBVIOUS
  <2>1. CASE New
    BY <2>1 DEF New, TypeOK
  <2>2. ASSUME NEW k \in Keys, NEW d \in Data, Write(k, d)
        PROVE  TypeOK'
    <3>1. rv' = rv + 1 /\ items' \in [Keys -> Objects \cup {Absent}]
      BY <2>2, WriteEffect
    <3>2. QED
      BY <3>1 DEF TypeOK
  <2>3. ASSUME NEW k \in Keys, Delete(k)
        PROVE  TypeOK'
    <3>1. rv' = rv + 1 /\ items' \in [Keys -> Objects \cup {Absent}]
      BY <2>3, DeleteEffect
    <3>2. QED
      BY <3>1 DEF TypeOK
  <2>4. CASE UNCHANGED vars
    BY <2>4 DEF vars, TypeOK
  <2>5. QED
    BY <2>1, <2>2, <2>3, <2>4 DEF Next, Create, Update
<1>3. QED
  BY <1>1, <1>2, PTL DEF Spec

\* No two stored objects have the same resourceVersion and none is ahead of
\* the counter: every write of the Store takes a number of its own.
THEOREM StoreStampsDistinct == Spec => []StampsDistinct
<1>1. Init => StampsDistinct
  BY DEF Init, StampsDistinct, Stored
<1>2. TypeOK /\ StampsDistinct /\ [Next]_vars => StampsDistinct'
  <2> SUFFICES ASSUME TypeOK, StampsDistinct, [Next]_vars
               PROVE  StampsDistinct'
    OBVIOUS
  <2>1. CASE New
    BY <2>1 DEF New, StampsDistinct, Stored
  <2>2. ASSUME NEW k \in Keys, NEW d \in Data, Write(k, d)
        PROVE  StampsDistinct'
    <3>1. rv' = rv + 1 /\ rv \in Nat
      BY <2>2, WriteEffect DEF TypeOK
    <3>2. \A l \in Keys : items'[l] # Absent =>
            \/ items[l] # Absent /\ items'[l] = items[l]
            \/ l = k /\ items'[l].rv = rv + 1
      BY <2>2, WriteEffect
    <3>3. \A l \in Keys : items[l] # Absent => items[l].rv \in Nat
      BY DEF TypeOK, Objects
    <3>4. QED
      BY <3>1, <3>2, <3>3 DEF StampsDistinct, Stored
  <2>3. ASSUME NEW k \in Keys, Delete(k)
        PROVE  StampsDistinct'
    <3>1. rv' = rv + 1 /\ rv \in Nat
      BY <2>3, DeleteEffect DEF TypeOK
    <3>2. \A l \in Keys : items'[l] # Absent =>
            items[l] # Absent /\ items'[l] = items[l]
      BY <2>3, DeleteEffect
    <3>3. \A l \in Keys : items[l] # Absent => items[l].rv \in Nat
      BY DEF TypeOK, Objects
    <3>4. QED
      BY <3>1, <3>2, <3>3 DEF StampsDistinct, Stored
  <2>4. CASE UNCHANGED vars
    BY <2>4 DEF vars, StampsDistinct, Stored
  <2>5. QED
    BY <2>1, <2>2, <2>3, <2>4 DEF Next, Create, Update
<1>3. QED
  BY <1>1, <1>2, StoreTypeCorrect, PTL DEF Spec

\* A resourceVersion orders all events of a Store: no change without a higher
\* counter, deletions included, and nothing is stored with an earlier number.
THEOREM StoreVersionsOrderEvents == Spec => VersionsOrderEvents
<1> DEFINE Ordered ==
      \/ rv' = 0 /\ \A k \in Keys : items'[k] = Absent
      \/ /\ rv' > rv
         /\ \A k \in Keys :
              items'[k] \notin {items[k], Absent} => items'[k].rv > rv
<1>1. TypeOK /\ [Next]_vars => [Ordered]_vars
  <2> SUFFICES ASSUME TypeOK, Next PROVE Ordered
    OBVIOUS
  <2>1. CASE New
    BY <2>1 DEF New
  <2>2. ASSUME NEW k \in Keys, NEW d \in Data, Write(k, d)
        PROVE  Ordered
    <3>1. rv' = rv + 1 /\ rv \in Nat
      BY <2>2, WriteEffect DEF TypeOK
    <3>2. \A l \in Keys : \/ items'[l] = items[l]
                          \/ items'[l].rv = rv + 1
      BY <2>2, WriteEffect
    <3>3. QED
      BY <3>1, <3>2
  <2>3. ASSUME NEW k \in Keys, Delete(k)
        PROVE  Ordered
    BY <2>3, DeleteEffect DEF TypeOK
  <2>4. QED
    BY <2>1, <2>2, <2>3 DEF Next, Create, Update
<1>2. QED
  BY <1>1, StoreTypeCorrect, PTL DEF Spec, VersionsOrderEvents
=============================================================================
