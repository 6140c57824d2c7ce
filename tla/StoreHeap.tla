----------------------------- MODULE StoreHeap -----------------------------
(***************************************************************************)
(* The inside of pkg/storage/inmemory/store.go, which Store.tla takes for  *)
(* granted: goroutines that call the methods, the sync.RWMutex they take,  *)
(* the statements between Lock and Unlock, and the pointers that deep      *)
(* copies are to keep apart.                                               *)
(*                                                                         *)
(* An object takes two cells: the struct, which holds its resourceVersion, *)
(* and what its slices point to.  `*out = *in` alone copies the first and  *)
(* shares the second.  A cell that nothing points to can be allocated      *)
(* again.  Each goroutine keeps one object: the one it made or the one a   *)
(* method returned, which it changes at will between calls, and passes to  *)
(* Create and Update.                                                      *)
(***************************************************************************)
EXTENDS Naturals

CONSTANTS
  Goroutines, Keys, Data, Opaque, Absent,
  Addresses,
  Nil  \* no goroutine; no address

VARIABLES
  items, rv,  \* the fields of the Store; items maps keys to addresses
  structs,    \* address -> [rv, slices], slices an address
  slices,     \* address -> Data
  writer,     \* who called mu.Lock: it waits for the readers, then is alone
  readers,    \* who holds mu.RLock
  call,       \* what each goroutine is doing
  held        \* the object each goroutine keeps, if any

vars == <<items, rv, structs, slices, writer, readers, call, held>>
heap == <<structs, slices>>
fields == <<items, rv>>

Objects == [rv : Nat, data : Data]

ASSUME StoreHeapAssumption ==
  /\ Opaque \subseteq Data
  /\ Absent \notin Addresses \cup Objects
  /\ Nil \notin Addresses \cup Goroutines \cup Objects \cup {Absent}

\* obj: the local variable stored (or obj, in Delete); todo and out: the keys
\* a read has yet to visit, and the copies it has made (Nil for the others).
NoCall == [at |-> "idle"]
Writes == [op : {"create", "update", "delete"}, key : Keys, obj : Addresses \cup {Nil},
           at : {"lock", "wait", "check", "stamp", "put", "bump", "copy"}]
Reads == [todo : SUBSET Keys, at : {"rlock", "read"},
          out : [Keys -> Objects \cup {Absent, Nil}]]

TypeOK ==
  /\ items \in [Keys -> Addresses \cup {Absent}]
  /\ rv \in Nat
  /\ structs \in [Addresses -> [rv : Nat, slices : Addresses]]
  /\ slices \in [Addresses -> Data]
  /\ writer \in Goroutines \cup {Nil}
  /\ readers \subseteq Goroutines
  /\ call \in [Goroutines -> {NoCall} \cup Writes \cup Reads]
  /\ held \in [Goroutines -> Addresses \cup {Nil}]

-----------------------------------------------------------------------------
At(g, place) == call[g].at = place

Go(g, place) == call' = [call EXCEPT ![g].at = place]

\* A step that concerns nobody else.
Local == UNCHANGED <<fields, heap, writer, readers, held>>

Object(a) == [rv |-> structs[a].rv, data |-> slices[structs[a].slices]]

\* What Get would find.
Content(k) == IF items[k] = Absent THEN Absent ELSE Object(items[k])

Pointers ==
  {items[k] : k \in Keys} \cup {held[g] : g \in Goroutines} \cup
  {call[g].obj : g \in {h \in Goroutines : call[h].at \in {"stamp", "put", "bump", "copy"}}}

Free == Addresses \ Pointers
FreeSlices == Addresses \ {structs[a].slices : a \in Addresses \cap Pointers}

\* Free addresses are alike: whichever the allocator takes will do.
AnyOf(free) == IF free = {} THEN {} ELSE {CHOOSE a \in free : TRUE}

New(a, s, d) ==
  /\ structs' = [structs EXCEPT ![a] = [rv |-> 0, slices |-> s]]
  /\ slices' = [slices EXCEPT ![s] = d]

\* Slip: `*out = *in` and nothing else.
ShallowCopy(from, a, s) ==
  /\ structs' = [structs EXCEPT ![a] = structs[from]]
  /\ slices' = slices

\* DeepCopyObject, into a new struct and new slices.
DeepCopy(from, a, s) ==
  /\ structs' = [structs EXCEPT ![a] = [structs[from] EXCEPT !.slices = s]]
  /\ slices' = [slices EXCEPT ![s] = slices[structs[from].slices]]

-----------------------------------------------------------------------------
(* Callers, between two calls *)

Make(g) ==
  /\ At(g, "idle")
  /\ \E a \in AnyOf(Free), s \in AnyOf(FreeSlices), d \in Data :
       New(a, s, d) /\ held' = [held EXCEPT ![g] = a]
  /\ UNCHANGED <<fields, writer, readers, call>>

\* "Callers may freely mutate objects passed to Create/Update", and those they
\* got back.
Mutate(g) ==
  /\ At(g, "idle")
  /\ held[g] # Nil
  /\ Object(held[g]).data \notin Opaque
  /\ \E d \in Data \ Opaque :
       slices' = [slices EXCEPT ![structs[held[g]].slices] = d]
  /\ UNCHANGED <<fields, structs, writer, readers, call, held>>

CallWrite(g, op, k) ==
  /\ At(g, "idle")
  /\ op = "delete" \/ held[g] # Nil
  /\ call' = [call EXCEPT ![g] = [op |-> op, key |-> k, obj |-> Nil, at |-> "lock"]]
  /\ Local

\* Get visits one key, List those of a namespace (an empty one shows nothing).
CallRead(g, K) ==
  /\ At(g, "idle")
  /\ call' = [call EXCEPT ![g] = [todo |-> K, out |-> [k \in Keys |-> Nil], at |-> "rlock"]]
  /\ Local

-----------------------------------------------------------------------------
(* sync.RWMutex: a waiting writer keeps new readers out *)

Lock(g) ==
  /\ At(g, "lock") /\ writer = Nil
  /\ writer' = g
  /\ Go(g, "wait")
  /\ UNCHANGED <<fields, heap, readers, held>>

Locked(g) ==
  /\ At(g, "wait") /\ readers = {}
  /\ Go(g, "check")
  /\ Local

RLock(g) ==
  /\ At(g, "rlock") /\ writer = Nil
  /\ readers' = readers \cup {g}
  /\ Go(g, "read")
  /\ UNCHANGED <<fields, heap, writer, held>>

-----------------------------------------------------------------------------
(* Create, Update, Delete *)

\* Slip: an early return that forgets the lock.
ReturnLocked(g) ==
  /\ call' = [call EXCEPT ![g] = NoCall]
  /\ UNCHANGED <<writer, held>>

\* A return with an error, and the deferred Unlock.
ReturnError(g) ==
  /\ call' = [call EXCEPT ![g] = NoCall]
  /\ writer' = Nil
  /\ UNCHANGED held

Occupied(g) == items[call[g].key] # Absent

\* AlreadyExists, or NotFound.
CheckFails(g) ==
  /\ At(g, "check")
  /\ Occupied(g) = (call[g].op = "create")
  /\ ReturnError(g)
  /\ UNCHANGED <<fields, heap, readers>>

\* stored := obj.DeepCopyObject()
CopyIn(g) ==
  /\ At(g, "check")
  /\ call[g].op = IF Occupied(g) THEN "update" ELSE "create"
  /\ \E a \in AnyOf(Free), s \in AnyOf(FreeSlices) :
       /\ DeepCopy(held[g], a, s)
       /\ call' = [call EXCEPT ![g].obj = a, ![g].at = "stamp"]
  /\ UNCHANGED <<fields, writer, readers, held>>

\* bumpAndStampLocked: the counter moves whether the stamp succeeds or not.
BumpAndStamp(g) ==
  /\ At(g, "stamp")
  /\ rv' = rv + 1
  /\ IF Object(call[g].obj).data \in Opaque
       THEN ReturnError(g) /\ UNCHANGED structs
       ELSE /\ Go(g, "put") /\ UNCHANGED <<writer, held>>
            /\ structs' = [structs EXCEPT ![call[g].obj].rv = rv + 1]
  /\ UNCHANGED <<items, slices, readers>>

Put(g) ==
  /\ At(g, "put")
  /\ items' = [items EXCEPT ![call[g].key] = call[g].obj]
  /\ Go(g, "copy")
  /\ UNCHANGED <<rv, heap, writer, readers, held>>

\* Slip: nobody looks whether the object is there.
RemoveUnchecked(g) ==
  /\ At(g, "check") /\ call[g].op = "delete"
  /\ items' = [items EXCEPT ![call[g].key] = Absent]
  /\ call' = [call EXCEPT ![g].obj = items[call[g].key], ![g].at = "bump"]
  /\ UNCHANGED <<rv, heap, writer, readers, held>>

Remove(g) ==
  /\ At(g, "check") /\ call[g].op = "delete" /\ Occupied(g)
  /\ items' = [items EXCEPT ![call[g].key] = Absent]
  /\ call' = [call EXCEPT ![g].obj = items[call[g].key], ![g].at = "bump"]
  /\ UNCHANGED <<rv, heap, writer, readers, held>>

BumpOnDelete(g) ==
  /\ At(g, "bump")
  /\ rv' = rv + 1
  /\ Go(g, "copy")
  /\ UNCHANGED <<items, heap, writer, readers, held>>

\* Slip: the stored pointer itself is returned.
ReturnStored(g) ==
  /\ At(g, "copy")
  /\ writer' = Nil
  /\ call' = [call EXCEPT ![g] = NoCall]
  /\ held' = [held EXCEPT ![g] = call[g].obj]
  /\ UNCHANGED <<fields, heap, readers>>

\* return stored.DeepCopyObject(), then Unlock; the caller keeps what it had
\* passed or what it gets.
ReturnCopy(g) ==
  /\ At(g, "copy")
  /\ writer' = Nil
  /\ call' = [call EXCEPT ![g] = NoCall]
  /\ \/ UNCHANGED <<heap, held>>
     \/ \E a \in AnyOf(Free), s \in AnyOf(FreeSlices) :
          DeepCopy(call[g].obj, a, s) /\ held' = [held EXCEPT ![g] = a]
  /\ UNCHANGED <<fields, readers>>

-----------------------------------------------------------------------------
(* Get, List *)

Visited(g, k) ==
  call' = [call EXCEPT ![g].todo = @ \ {k}, ![g].out[k] = Content(k)]

\* Slip: the lock is given back before the last key is visited.
VisitThenRelease(g, k) ==
  /\ At(g, "read") /\ k \in call[g].todo
  /\ Visited(g, k)
  /\ readers' = readers \ {g}
  /\ UNCHANGED <<fields, heap, writer, held>>

\* In the order of Go's map iteration, which is any; of the copies it makes,
\* the caller keeps one at most.
Visit(g, k) ==
  /\ At(g, "read") /\ k \in call[g].todo
  /\ Visited(g, k)
  /\ \/ UNCHANGED <<heap, held>>
     \/ /\ items[k] # Absent
        /\ \E a \in AnyOf(Free), s \in AnyOf(FreeSlices) :
             DeepCopy(items[k], a, s) /\ held' = [held EXCEPT ![g] = a]
  /\ UNCHANGED <<fields, writer, readers>>

RUnlock(g) ==
  /\ At(g, "read") /\ call[g].todo = {}
  /\ readers' = readers \ {g}
  /\ call' = [call EXCEPT ![g] = NoCall]
  /\ UNCHANGED <<fields, heap, writer, held>>

-----------------------------------------------------------------------------
Init ==
  /\ items = [k \in Keys |-> Absent]
  /\ rv = 0
  /\ structs \in [Addresses -> [rv : {0}, slices : Addresses]]
  /\ slices \in [Addresses -> Data]
  /\ writer = Nil
  /\ readers = {}
  /\ call = [g \in Goroutines |-> NoCall]
  /\ held = [g \in Goroutines |-> Nil]

Begin(g) ==
  \/ Make(g)
  \/ Mutate(g)
  \/ \E op \in {"create", "update", "delete"}, k \in Keys : CallWrite(g, op, k)
  \/ \E K \in SUBSET Keys \ {{}} : CallRead(g, K)

TakeLock(g) == Lock(g) \/ Locked(g) \/ RLock(g)

Proceed(g) ==
  \/ CheckFails(g)
  \/ CopyIn(g) \/ BumpAndStamp(g) \/ Put(g)
  \/ Remove(g) \/ BumpOnDelete(g) \/ ReturnCopy(g)
  \/ (\E k \in Keys : Visit(g, k)) \/ RUnlock(g)

Next == \E g \in Goroutines : Begin(g) \/ TakeLock(g) \/ Proceed(g)

Spec == Init /\ [][Next]_vars

\* A goroutine that can run does; and sync.RWMutex passes over nobody for ever
\* (a blocked Lock keeps new readers out, and Unlock lets the waiting readers
\* in before the next writer).
FairSpec ==
  Spec /\ \A g \in Goroutines : WF_vars(Proceed(g)) /\ SF_vars(TakeLock(g))

-----------------------------------------------------------------------------
(* Properties *)

\* DeepCopyObject on the way in and on the way out: nothing a caller holds is
\* part of a stored object, nor do two stored objects share a part.
NoAliasing ==
  \A k \in Keys : items[k] # Absent =>
    /\ \A g \in Goroutines : held[g] # Nil =>
         /\ held[g] # items[k]
         /\ structs[held[g]].slices # structs[items[k]].slices
    /\ \A l \in Keys \ {k} : items[l] # Absent =>
         /\ items[l] # items[k]
         /\ structs[items[l]].slices # structs[items[k]].slices

\* List holds the read lock over the whole iteration: what it has copied so
\* far and what it has yet to copy are parts of one state of the map.
ListIsSnapshot ==
  \A g \in Goroutines : At(g, "read") =>
    \A k \in Keys : call[g].out[k] \in {Nil, Content(k)}

\* defer s.mu.Unlock(): every method returns, on every path, and leaves the
\* lock to the others.
CallsReturn == \A g \in Goroutines : ~At(g, "idle") ~> At(g, "idle")

\* A write happens at the assignment to s.items, a delete at delete(s.items):
\* until then, or from then on, the counter is one off.
Ahead == \E g \in Goroutines : At(g, "put")
Behind == \E g \in Goroutines : At(g, "bump")

Abstract == INSTANCE Store WITH
  items <- [k \in Keys |-> Content(k)],
  rv <- IF Ahead THEN rv - 1 ELSE IF Behind THEN rv + 1 ELSE rv

\* Whatever goroutines and callers do, the map and the counter change as if
\* each method were one step on a map of values.
ImplementsStore == Abstract!Spec
=============================================================================
