------------------------------- MODULE Store -------------------------------
(***************************************************************************)
(* pkg/storage/inmemory/store.go: the map from keys to objects and the     *)
(* resourceVersion counter that every REST view of the server shares.      *)
(*                                                                         *)
(* Every method of Store holds s.mu from its first line to its return, so  *)
(* each one is a single action here (or a state function, for the          *)
(* methods that hold the read lock).  A stored object is a pair of what    *)
(* the caller passed (data) and the resourceVersion stamped on it (rv);    *)
(* numbers stand for the decimal strings strconv.FormatUint writes.        *)
(***************************************************************************)
EXTENDS Naturals

CONSTANTS
  Keys,    \* namespace/name pairs
  Data,    \* what callers store, resourceVersion apart
  Opaque,  \* the Data without ObjectMeta, which meta.Accessor refuses
  Absent   \* "no entry for this key"

VARIABLES
  items,   \* s.items
  rv       \* s.rv

vars == <<items, rv>>

Objects == [rv : Nat, data : Data]

ASSUME StoreAssumption ==
  /\ Opaque \subseteq Data
  /\ Absent \notin Objects

TypeOK ==
  /\ items \in [Keys -> Objects \cup {Absent}]
  /\ rv \in Nat

-----------------------------------------------------------------------------
(* What the methods read *)

Stored == {k \in Keys : items[k] # Absent}

\* Get(k) is items[k] when Has(k) and NotFound otherwise.
Has(k) == items[k] # Absent

\* What List returns, as keys; inNamespace is the keys its argument selects.
List(inNamespace) == Stored \cap inNamespace

CurrentResourceVersion == rv

-----------------------------------------------------------------------------
(* The methods that write *)

New ==
  /\ items' = [k \in Keys |-> Absent]
  /\ rv' = 0

\* Slips the properties below must notice; no action uses them.
WriteUnstamped(k, d) == rv' = rv + 1 /\ items' = [items EXCEPT ![k] = d]

WriteStampsThenBumps(k, d) ==
  rv' = rv + 1 /\ items' = [items EXCEPT ![k] = [rv |-> rv, data |-> d]]

DeleteKeepsVersion(k) ==
  Has(k) /\ items' = [items EXCEPT ![k] = Absent] /\ rv' = rv

\* bumpAndStampLocked, then the assignment to s.items[k].  The counter moves
\* before meta.Accessor can fail, and stays moved when it does.
Write(k, d) ==
  /\ rv' = rv + 1
  /\ items' = IF d \in Opaque
                THEN items
                ELSE [items EXCEPT ![k] = [rv |-> rv + 1, data |-> d]]

\* Slip: an update keeps the version of what it replaces.
UpdateInPlace(k, d) ==
  /\ Has(k)
  /\ items' = [items EXCEPT ![k] = [rv |-> items[k].rv, data |-> d]]
  /\ rv' = rv

\* AlreadyExists unless the key is free.
Create(k, d) == ~Has(k) /\ Write(k, d)

\* NotFound unless the key is taken.  No version is compared here.
Update(k, d) == Has(k) /\ Write(k, d)

\* A delete consumes a version of its own.
Delete(k) ==
  /\ Has(k)
  /\ items' = [items EXCEPT ![k] = Absent]
  /\ rv' = rv + 1

-----------------------------------------------------------------------------
Init ==
  /\ items = [k \in Keys |-> Absent]
  /\ rv = 0

\* A new server process builds a new Store, at any time.
Next ==
  \/ New
  \/ \E k \in Keys, d \in Data : Create(k, d)
  \/ \E k \in Keys, d \in Data : Update(k, d)
  \/ \E k \in Keys : Delete(k)

Spec == Init /\ [][Next]_vars

-----------------------------------------------------------------------------
(* Properties *)

\* The resourceVersions in the map are positive, pairwise distinct and never
\* ahead of the counter: bumpAndStampLocked gives each write its own number.
StampsDistinct ==
  /\ \A k \in Stored : items[k].rv \in 1 .. rv
  /\ \A k, l \in Stored : items[k].rv = items[l].rv => k = l

\* Within the life of one Store the content never changes under an unchanged
\* counter, deletions included, and what a step stores carries a version above
\* every earlier one: a resourceVersion orders all events of the store, the
\* promise the comments of Delete and bumpAndStampLocked make to a future
\* watch.  (A new Store starts empty, from 0.)
VersionsOrderEvents ==
  [][ \/ rv' = 0 /\ \A k \in Keys : items'[k] = Absent
      \/ /\ rv' > rv
         /\ \A k \in Keys :
              items'[k] \notin {items[k], Absent} => items'[k].rv > rv
    ]_vars
=============================================================================
