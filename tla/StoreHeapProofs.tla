-------------------------- MODULE StoreHeapProofs --------------------------
(***************************************************************************)
(* The inside of the store, for any goroutines, keys and addresses: no     *)
(* caller holds a part of the map, a list shows one state of it, and the   *)
(* methods implement the single steps of Store.                            *)
(***************************************************************************)
EXTENDS StoreHeap, TLAPS

StepOf(g) == Begin(g) \/ TakeLock(g) \/ Proceed(g)

WriteOps == {"create", "update", "delete"}
WritePlaces == {"lock", "wait", "check", "stamp", "put", "bump", "copy"}
ReadPlaces == {"rlock", "read"}

\* The places of a writer that has a new or a removed object in hand.
ObjPlaces == {"stamp", "put", "bump", "copy"}

-----------------------------------------------------------------------------
(* Types *)

\* Where a goroutine is tells which kind of call it is in.
LEMMA CallKinds ==
  ASSUME TypeOK, NEW g \in Goroutines
  PROVE  /\ call[g].at \in WritePlaces => call[g] \in Writes
         /\ call[g].at \in ReadPlaces => call[g] \in Reads
         /\ call[g].at \in {"idle"} \cup WritePlaces \cup ReadPlaces
<1>1. call[g] \in {NoCall} \cup Writes \cup Reads
  BY DEF TypeOK
<1> QED BY <1>1 DEF NoCall, Writes, Reads, WritePlaces, ReadPlaces

LEMMA WriteFields ==
  ASSUME NEW w \in Writes
  PROVE  /\ w.key \in Keys /\ w.op \in WriteOps /\ w.at \in WritePlaces
         /\ \A place \in WritePlaces : [w EXCEPT !.at = place] \in Writes
         /\ \A a \in Addresses, place \in WritePlaces :
              [w EXCEPT !.obj = a, !.at = place] \in Writes
BY DEF Writes, WriteOps, WritePlaces

LEMMA SetCallType ==
  ASSUME TypeOK, NEW g \in Goroutines, NEW c \in {NoCall} \cup Writes \cup Reads,
         call' = [call EXCEPT ![g] = c]
  PROVE  call' \in [Goroutines -> {NoCall} \cup Writes \cup Reads]
BY DEF TypeOK

LEMMA GoType ==
  ASSUME TypeOK, NEW g \in Goroutines, call[g].at \in WritePlaces,
         NEW place \in WritePlaces, Go(g, place)
  PROVE  call' \in [Goroutines -> {NoCall} \cup Writes \cup Reads]
<1>1. [call[g] EXCEPT !.at = place] \in Writes
  BY CallKinds, WriteFields
<1>2. call' = [call EXCEPT ![g] = [call[g] EXCEPT !.at = place]]
  BY DEF Go
<1> QED BY <1>1, <1>2, SetCallType

\* A pointer that leads somewhere.
Live(p) == p \in Addresses /\ p \in Pointers

LEMMA LiveRoots ==
  ASSUME TypeOK
  PROVE  /\ \A k \in Keys : items[k] # Absent => Live(items[k])
         /\ \A g \in Goroutines : held[g] # Nil => Live(held[g])
         /\ \A g \in Goroutines :
              call[g].at \in ObjPlaces /\ call[g].obj \in Addresses => Live(call[g].obj)
<1>1. \A k \in Keys : items[k] # Absent => Live(items[k])
  BY DEF TypeOK, Live, Pointers
<1>2. \A g \in Goroutines : held[g] # Nil => Live(held[g])
  BY DEF TypeOK, Live, Pointers
<1>3. \A g \in Goroutines :
        call[g].at \in ObjPlaces /\ call[g].obj \in Addresses => Live(call[g].obj)
  BY DEF ObjPlaces, Live, Pointers
<1> QED BY <1>1, <1>2, <1>3

\* What the allocator returns is free.
LEMMA AnyOfIsFree ==
  ASSUME NEW free, NEW a \in AnyOf(free)
  PROVE  a \in free
<1>1. CASE free = {}
  BY <1>1 DEF AnyOf
<1>2. CASE free # {}
  <2>1. a = CHOOSE b \in free : TRUE
    BY <1>2 DEF AnyOf
  <2>2. (CHOOSE b \in free : TRUE) \in free
    BY <1>2
  <2> QED BY <2>1, <2>2
<1> QED BY <1>1, <1>2

\* A new object in free cells.
Allocates(a, s) ==
  /\ a \in Free /\ s \in FreeSlices
  /\ \E n \in Nat, d \in Data :
       /\ structs' = [structs EXCEPT ![a] = [rv |-> n, slices |-> s]]
       /\ slices' = [slices EXCEPT ![s] = d]

LEMMA NewAllocates ==
  ASSUME TypeOK, NEW a \in AnyOf(Free), NEW s \in AnyOf(FreeSlices), NEW d \in Data,
         New(a, s, d)
  PROVE  Allocates(a, s)
<1>1. a \in Free /\ s \in FreeSlices
  BY AnyOfIsFree
<1> QED BY <1>1 DEF New, Allocates

LEMMA DeepCopyAllocates ==
  ASSUME TypeOK, NEW from \in Addresses,
         NEW a \in AnyOf(Free), NEW s \in AnyOf(FreeSlices), DeepCopy(from, a, s)
  PROVE  Allocates(a, s)
<1>1. a \in Free /\ s \in FreeSlices
  BY AnyOfIsFree
<1>2. structs[from] \in [rv : Nat, slices : Addresses]
  BY DEF TypeOK
<1>3. [structs[from] EXCEPT !.slices = s] = [rv |-> structs[from].rv, slices |-> s]
  BY <1>2
<1>4. structs[from].rv \in Nat /\ slices[structs[from].slices] \in Data
  BY <1>2 DEF TypeOK
<1> QED BY <1>1, <1>3, <1>4 DEF DeepCopy, Allocates

Apart(a, b) == a # b /\ structs[a].slices # structs[b].slices

\* It touches nothing that a pointer leads to, and is apart from all of it.
LEMMA AllocationIsFresh ==
  ASSUME TypeOK, NEW a, NEW s, Allocates(a, s)
  PROVE  /\ a \in Addresses
         /\ structs' \in [Addresses -> [rv : Nat, slices : Addresses]]
         /\ slices' \in [Addresses -> Data]
         /\ \A p : Live(p) =>
              /\ structs'[p] = structs[p]
              /\ slices'[structs[p].slices] = slices[structs[p].slices]
              /\ a # p /\ structs'[a].slices # structs'[p].slices
<1>1. a \in Addresses /\ a \notin Pointers
  BY DEF Allocates, Free
<1>2. s \in Addresses /\ \A p \in Addresses \cap Pointers : s # structs[p].slices
  BY DEF Allocates, FreeSlices
<1>3. PICK n \in Nat, d \in Data :
        /\ structs' = [structs EXCEPT ![a] = [rv |-> n, slices |-> s]]
        /\ slices' = [slices EXCEPT ![s] = d]
  BY DEF Allocates
<1>4. structs' \in [Addresses -> [rv : Nat, slices : Addresses]]
  BY <1>2, <1>3 DEF TypeOK
<1>5. slices' \in [Addresses -> Data]
  BY <1>3 DEF TypeOK
<1>6. structs'[a].slices = s
  BY <1>1, <1>3 DEF TypeOK
<1>7. ASSUME NEW p, Live(p)
      PROVE  /\ structs'[p] = structs[p]
             /\ slices'[structs[p].slices] = slices[structs[p].slices]
             /\ a # p /\ structs'[a].slices # structs'[p].slices
  <2>1. p \in Addresses /\ a # p /\ s # structs[p].slices
    BY <1>1, <1>2, <1>7 DEF Live
  <2>2. structs[p].slices \in Addresses
    BY <2>1 DEF TypeOK
  <2>3. structs'[p] = structs[p]
    BY <2>1, <1>3 DEF TypeOK
  <2>4. slices'[structs[p].slices] = slices[structs[p].slices]
    BY <2>1, <2>2, <1>3 DEF TypeOK
  <2> QED BY <2>1, <2>3, <2>4, <1>6
<1> QED BY <1>1, <1>4, <1>5, <1>7

-----------------------------------------------------------------------------
(* The invariant *)

Exclusive == {"check", "stamp", "put", "bump", "copy"}

\* Mutual exclusion: a writer past the lock is alone.
LockOf(g) ==
  /\ call[g].at \in Exclusive => writer = g /\ readers = {}
  /\ At(g, "wait") => writer = g
  /\ At(g, "read") <=> g \in readers

\* What a goroutine has in hand.
CallOf(g) ==
  /\ call[g].at \in {"lock", "wait", "check"} /\ call[g].op # "delete" => held[g] # Nil
  /\ At(g, "rlock") => call[g].out = [k \in Keys |-> Nil]
  /\ call[g].at \in ObjPlaces => call[g].obj \in Addresses
  /\ At(g, "put") => /\ Object(call[g].obj).data \notin Opaque
                     /\ structs[call[g].obj].rv = rv

\* The object to be stored is not yet anybody else's.
Private(g) ==
  call[g].at \in {"stamp", "put"} =>
    /\ \A k \in Keys : items[k] # Absent => Apart(call[g].obj, items[k])
    /\ \A h \in Goroutines : held[h] # Nil => Apart(call[g].obj, held[h])

LockInv == \A g \in Goroutines : LockOf(g)
CallInv == \A g \in Goroutines : CallOf(g)
PrivateInv == \A g \in Goroutines : Private(g)

HeapInv == TypeOK /\ LockInv /\ CallInv /\ NoAliasing /\ PrivateInv /\ ListIsSnapshot

-----------------------------------------------------------------------------
(* What the steps do to the calls *)

LEMMA GoMoves ==
  ASSUME TypeOK, NEW g \in Goroutines, NEW place, Go(g, place)
  PROVE  /\ call'[g] = [call[g] EXCEPT !.at = place]
         /\ \A h \in Goroutines \ {g} : call'[h] = call[h]
BY DEF TypeOK, Go

\* Moving on in a method changes the place and nothing else.
LEMMA GoWriter ==
  ASSUME TypeOK, NEW g \in Goroutines, call[g].at \in WritePlaces, NEW place, Go(g, place)
  PROVE  /\ call'[g].at = place /\ call'[g].op = call[g].op
         /\ call'[g].key = call[g].key /\ call'[g].obj = call[g].obj
<1>1. call[g] \in Writes
  BY CallKinds
<1>2. call'[g] = [call[g] EXCEPT !.at = place]
  BY GoMoves
<1> QED BY <1>1, <1>2 DEF Writes

LEMMA GoReader ==
  ASSUME TypeOK, NEW g \in Goroutines, call[g].at \in ReadPlaces, NEW place, Go(g, place)
  PROVE  call'[g].at = place /\ call'[g].todo = call[g].todo /\ call'[g].out = call[g].out
<1>1. call[g] \in Reads
  BY CallKinds
<1>2. call'[g] = [call[g] EXCEPT !.at = place]
  BY GoMoves
<1> QED BY <1>1, <1>2 DEF Reads

\* An object in hand.
InHand(g, a, place) ==
  /\ call'[g].at = place /\ call'[g].obj = a
  /\ call'[g].op = call[g].op /\ call'[g].key = call[g].key
  /\ \A h \in Goroutines \ {g} : call'[h] = call[h]
  /\ call' \in [Goroutines -> {NoCall} \cup Writes \cup Reads]

LEMMA CopyInTakes ==
  ASSUME TypeOK, NEW g \in Goroutines, CopyIn(g)
  PROVE  \E a \in AnyOf(Free), s \in AnyOf(FreeSlices) :
           DeepCopy(held[g], a, s) /\ InHand(g, a, "stamp")
<1>1. call[g] \in Writes
  BY CallKinds DEF CopyIn, At, WritePlaces
<1>2. PICK a \in AnyOf(Free), s \in AnyOf(FreeSlices) :
        /\ DeepCopy(held[g], a, s)
        /\ call' = [call EXCEPT ![g].obj = a, ![g].at = "stamp"]
  BY DEF CopyIn
<1>3. /\ call'[g] = [call[g] EXCEPT !.obj = a, !.at = "stamp"]
      /\ call' = [call EXCEPT ![g] = call'[g]]
      /\ \A h \in Goroutines \ {g} : call'[h] = call[h]
  BY <1>2 DEF TypeOK
<1>4. a \in Addresses
  BY AnyOfIsFree DEF Free
<1>5. /\ call'[g] \in Writes /\ call'[g].at = "stamp" /\ call'[g].obj = a
      /\ call'[g].op = call[g].op /\ call'[g].key = call[g].key
  BY <1>1, <1>3, <1>4 DEF Writes
<1>6. call' \in [Goroutines -> {NoCall} \cup Writes \cup Reads]
  BY <1>3, <1>5, SetCallType
<1> QED BY <1>2, <1>3, <1>5, <1>6 DEF InHand

LEMMA RemoveTakes ==
  ASSUME TypeOK, NEW g \in Goroutines, Remove(g)
  PROVE  InHand(g, items[call[g].key], "bump")
<1>1. call[g] \in Writes
  BY CallKinds DEF Remove, At, WritePlaces
<1>2. call' = [call EXCEPT ![g].obj = items[call[g].key], ![g].at = "bump"]
  BY DEF Remove
<1>3. /\ call'[g] = [call[g] EXCEPT !.obj = items[call[g].key], !.at = "bump"]
      /\ call' = [call EXCEPT ![g] = call'[g]]
      /\ \A h \in Goroutines \ {g} : call'[h] = call[h]
  BY <1>2 DEF TypeOK
<1>4. items[call[g].key] \in Addresses
  BY <1>1, WriteFields DEF Remove, Occupied, TypeOK
<1>5. /\ call'[g] \in Writes /\ call'[g].at = "bump" /\ call'[g].obj = items[call[g].key]
      /\ call'[g].op = call[g].op /\ call'[g].key = call[g].key
  BY <1>1, <1>3, <1>4 DEF Writes
<1>6. call' \in [Goroutines -> {NoCall} \cup Writes \cup Reads]
  BY <1>3, <1>5, SetCallType
<1> QED BY <1>3, <1>5, <1>6 DEF InHand

LEMMA ReturnMoves ==
  ASSUME TypeOK, NEW g \in Goroutines, call' = [call EXCEPT ![g] = NoCall]
  PROVE  /\ call'[g] = NoCall /\ call'[g].at = "idle"
         /\ \A h \in Goroutines \ {g} : call'[h] = call[h]
         /\ call' \in [Goroutines -> {NoCall} \cup Writes \cup Reads]
BY DEF TypeOK, NoCall

LEMMA ContentType ==
  ASSUME TypeOK, NEW k \in Keys
  PROVE  Content(k) \in Objects \cup {Absent}
BY DEF TypeOK, Content, Object, Objects

LEMMA VisitMoves ==
  ASSUME TypeOK, NEW g \in Goroutines, At(g, "read"), NEW k \in Keys, Visited(g, k)
  PROVE  /\ call'[g] \in Reads /\ call'[g].at = "read"
         /\ call'[g].out[k] = Content(k)
         /\ \A l \in Keys \ {k} : call'[g].out[l] = call[g].out[l]
         /\ \A h \in Goroutines \ {g} : call'[h] = call[h]
         /\ call' \in [Goroutines -> {NoCall} \cup Writes \cup Reads]
<1>1. call[g] \in Reads
  BY CallKinds DEF At, ReadPlaces
<1> DEFINE todo == call[g].todo \ {k}
           out == [call[g].out EXCEPT ![k] = Content(k)]
<1>2. /\ call'[g] = [call[g] EXCEPT !.todo = todo, !.out = out]
      /\ \A h \in Goroutines \ {g} : call'[h] = call[h]
  BY DEF TypeOK, Visited
<1>3. todo \in SUBSET Keys /\ out \in [Keys -> Objects \cup {Absent, Nil}]
  BY <1>1, ContentType DEF Reads
<1>4. /\ [call[g] EXCEPT !.todo = todo, !.out = out] \in Reads
      /\ [call[g] EXCEPT !.todo = todo, !.out = out].out = out
      /\ [call[g] EXCEPT !.todo = todo, !.out = out].at = call[g].at
  <2> HIDE DEF todo, out
  <2> QED BY <1>1, <1>3 DEF Reads
<1>5. call'[g].out = out /\ call'[g].at = "read" /\ call'[g] \in Reads
  BY <1>2, <1>4 DEF At
<1>6. /\ out[k] = Content(k)
      /\ \A l \in Keys \ {k} : out[l] = call[g].out[l]
  BY <1>1 DEF Reads
<1>7. call' = [call EXCEPT ![g] = call'[g]]
  BY DEF TypeOK, Visited
<1>8. call' \in [Goroutines -> {NoCall} \cup Writes \cup Reads]
  BY <1>5, <1>7, SetCallType
<1> QED BY <1>2, <1>5, <1>6, <1>8

-----------------------------------------------------------------------------
(* Type correctness *)

LEMMA TypeInit == Init => TypeOK
BY StoreHeapAssumption DEF Init, TypeOK, NoCall

\* Steps that allocate nothing: the rest of the state, if the call is typed.
LEMMA CallStepType ==
  ASSUME TypeOK, call' \in [Goroutines -> {NoCall} \cup Writes \cup Reads],
         UNCHANGED <<items, heap, held>>, rv' \in Nat,
         writer' \in Goroutines \cup {Nil}, readers' \subseteq Goroutines
  PROVE  TypeOK'
BY DEF TypeOK, heap

LEMMA KeepType ==
  ASSUME TypeOK, NEW g \in Goroutines, NEW a, NEW s, Allocates(a, s),
         held' = [held EXCEPT ![g] = a]
  PROVE  /\ held' \in [Goroutines -> Addresses \cup {Nil}]
         /\ structs' \in [Addresses -> [rv : Nat, slices : Addresses]]
         /\ slices' \in [Addresses -> Data]
BY AllocationIsFresh DEF TypeOK

LEMMA StampType ==
  ASSUME TypeOK, NEW a \in Addresses, NEW n \in Nat
  PROVE  [structs EXCEPT ![a].rv = n] \in [Addresses -> [rv : Nat, slices : Addresses]]
<1>1. structs[a] \in [rv : Nat, slices : Addresses]
  BY DEF TypeOK
<1>2. [structs[a] EXCEPT !.rv = n] \in [rv : Nat, slices : Addresses]
  BY <1>1
<1>3. [structs EXCEPT ![a].rv = n] = [structs EXCEPT ![a] = [structs[a] EXCEPT !.rv = n]]
  OBVIOUS
<1> QED BY <1>2, <1>3 DEF TypeOK

LEMMA BeginType ==
  ASSUME TypeOK, NEW g \in Goroutines, Begin(g)
  PROVE  TypeOK'
<1>1. CASE Make(g)
  <2>1. PICK a \in AnyOf(Free), s \in AnyOf(FreeSlices), d \in Data :
          New(a, s, d) /\ held' = [held EXCEPT ![g] = a]
    BY <1>1 DEF Make
  <2>2. Allocates(a, s)
    BY <2>1, NewAllocates
  <2>3. UNCHANGED <<items, rv, writer, readers, call>>
    BY <1>1 DEF Make, fields
  <2> QED BY <2>1, <2>2, <2>3, KeepType DEF TypeOK
<1>2. CASE Mutate(g)
  <2>1. PICK d \in Data : slices' = [slices EXCEPT ![structs[held[g]].slices] = d]
    BY <1>2 DEF Mutate
  <2>2. slices' \in [Addresses -> Data]
    BY <2>1 DEF TypeOK
  <2> QED BY <1>2, <2>2 DEF Mutate, fields, TypeOK
<1>3. ASSUME NEW op \in WriteOps, NEW k \in Keys, CallWrite(g, op, k)
      PROVE  TypeOK'
  <2>1. [op |-> op, key |-> k, obj |-> Nil, at |-> "lock"] \in Writes
    BY DEF Writes, WriteOps
  <2>2. call' \in [Goroutines -> {NoCall} \cup Writes \cup Reads]
    BY <1>3, <2>1, SetCallType DEF CallWrite
  <2> QED BY <1>3, <2>2, CallStepType DEF CallWrite, Local, fields, TypeOK
<1>4. ASSUME NEW K \in SUBSET Keys, CallRead(g, K)
      PROVE  TypeOK'
  <2>1. [todo |-> K, out |-> [k \in Keys |-> Nil], at |-> "rlock"] \in Reads
    BY DEF Reads
  <2>2. call' \in [Goroutines -> {NoCall} \cup Writes \cup Reads]
    BY <1>4, <2>1, SetCallType DEF CallRead
  <2> QED BY <1>4, <2>2, CallStepType DEF CallRead, Local, fields, TypeOK
<1> QED BY <1>1, <1>2, <1>3, <1>4 DEF Begin, WriteOps

LEMMA TakeLockType ==
  ASSUME TypeOK, NEW g \in Goroutines, TakeLock(g)
  PROVE  TypeOK'
<1>1. CASE Lock(g)
  <2>1. call' \in [Goroutines -> {NoCall} \cup Writes \cup Reads]
    BY <1>1, GoType DEF Lock, At, WritePlaces
  <2> QED BY <1>1, <2>1, CallStepType DEF Lock, fields, TypeOK
<1>2. CASE Locked(g)
  <2>1. call' \in [Goroutines -> {NoCall} \cup Writes \cup Reads]
    BY <1>2, GoType DEF Locked, At, WritePlaces
  <2> QED BY <1>2, <2>1, CallStepType DEF Locked, Local, fields, TypeOK
<1>3. CASE RLock(g)
  <2>1. call[g] \in Reads
    BY <1>3, CallKinds DEF RLock, At, ReadPlaces
  <2>2. [call[g] EXCEPT !.at = "read"] \in Reads
    BY <2>1 DEF Reads
  <2>3. call' = [call EXCEPT ![g] = [call[g] EXCEPT !.at = "read"]]
    BY <1>3 DEF RLock, Go
  <2>4. call' \in [Goroutines -> {NoCall} \cup Writes \cup Reads]
    BY <2>2, <2>3, SetCallType
  <2> QED BY <1>3, <2>4, CallStepType DEF RLock, fields, TypeOK
<1> QED BY <1>1, <1>2, <1>3 DEF TakeLock

LEMMA ProceedType ==
  ASSUME TypeOK, CallInv, NEW g \in Goroutines, Proceed(g)
  PROVE  TypeOK'
<1> USE DEF At
<1>1. CASE CheckFails(g)
  BY <1>1, ReturnMoves, CallStepType DEF CheckFails, ReturnError, fields, TypeOK
<1>2. CASE CopyIn(g)
  <2>1. PICK a \in AnyOf(Free), s \in AnyOf(FreeSlices) :
          DeepCopy(held[g], a, s) /\ InHand(g, a, "stamp")
    BY <1>2, CopyInTakes
  <2>2. held[g] \in Addresses
    BY <1>2 DEF CopyIn, CallInv, CallOf, TypeOK
  <2>3. Allocates(a, s)
    BY <2>1, <2>2, DeepCopyAllocates
  <2> QED BY <1>2, <2>1, <2>3, AllocationIsFresh DEF CopyIn, InHand, fields, TypeOK
<1>3. CASE BumpAndStamp(g)
  <2>1. call[g].at \in WritePlaces /\ call[g].obj \in Addresses
    BY <1>3 DEF BumpAndStamp, WritePlaces, ObjPlaces, CallInv, CallOf
  <2>2. rv' \in Nat /\ UNCHANGED <<items, slices, readers>>
    BY <1>3 DEF BumpAndStamp, TypeOK
  <2>3. CASE ReturnError(g) /\ UNCHANGED structs
    BY <2>2, <2>3, ReturnMoves, CallStepType DEF ReturnError, heap, TypeOK
  <2>4. CASE /\ Go(g, "put") /\ UNCHANGED <<writer, held>>
             /\ structs' = [structs EXCEPT ![call[g].obj].rv = rv + 1]
    <3>1. structs' \in [Addresses -> [rv : Nat, slices : Addresses]]
      BY <2>1, <2>4, StampType DEF TypeOK
    <3>2. call' \in [Goroutines -> {NoCall} \cup Writes \cup Reads]
      BY <2>1, <2>4, GoType DEF WritePlaces
    <3> QED BY <2>2, <2>4, <3>1, <3>2 DEF TypeOK
  <2> QED BY <1>3, <2>3, <2>4 DEF BumpAndStamp
<1>4. CASE Put(g)
  <2>1. call[g].at \in WritePlaces /\ call[g].obj \in Addresses
    BY <1>4 DEF Put, WritePlaces, ObjPlaces, CallInv, CallOf
  <2>2. call' \in [Goroutines -> {NoCall} \cup Writes \cup Reads]
    BY <1>4, <2>1, GoType DEF Put, WritePlaces
  <2>3. items' \in [Keys -> Addresses \cup {Absent}]
    BY <1>4, <2>1 DEF Put, TypeOK
  <2> QED BY <1>4, <2>2, <2>3 DEF Put, heap, TypeOK
<1>5. CASE Remove(g)
  <2>1. call' \in [Goroutines -> {NoCall} \cup Writes \cup Reads]
    BY <1>5, RemoveTakes DEF InHand
  <2>2. items' \in [Keys -> Addresses \cup {Absent}]
    BY <1>5 DEF Remove, TypeOK
  <2> QED BY <1>5, <2>1, <2>2 DEF Remove, heap, TypeOK
<1>6. CASE BumpOnDelete(g)
  <2>1. call' \in [Goroutines -> {NoCall} \cup Writes \cup Reads]
    BY <1>6, GoType DEF BumpOnDelete, WritePlaces
  <2> QED BY <1>6, <2>1, CallStepType DEF BumpOnDelete, TypeOK
<1>7. CASE ReturnCopy(g)
  <2>1. call' \in [Goroutines -> {NoCall} \cup Writes \cup Reads]
    BY <1>7, ReturnMoves DEF ReturnCopy
  <2>2. CASE UNCHANGED <<heap, held>>
    BY <1>7, <2>1, <2>2, CallStepType DEF ReturnCopy, fields, TypeOK
  <2>3. ASSUME NEW a \in AnyOf(Free), NEW s \in AnyOf(FreeSlices),
               DeepCopy(call[g].obj, a, s), held' = [held EXCEPT ![g] = a]
        PROVE  TypeOK'
    <3>1. call[g].obj \in Addresses
      BY <1>7 DEF ReturnCopy, ObjPlaces, CallInv, CallOf
    <3>2. Allocates(a, s)
      BY <2>3, <3>1, DeepCopyAllocates
    <3> QED BY <1>7, <2>1, <2>3, <3>2, KeepType DEF ReturnCopy, fields, TypeOK
  <2> QED BY <1>7, <2>2, <2>3 DEF ReturnCopy
<1>8. ASSUME NEW k \in Keys, Visit(g, k)
      PROVE  TypeOK'
  <2>1. call' \in [Goroutines -> {NoCall} \cup Writes \cup Reads]
    BY <1>8, VisitMoves DEF Visit
  <2>2. CASE UNCHANGED <<heap, held>>
    BY <1>8, <2>1, <2>2, CallStepType DEF Visit, fields, TypeOK
  <2>3. ASSUME items[k] # Absent, NEW a \in AnyOf(Free), NEW s \in AnyOf(FreeSlices),
               DeepCopy(items[k], a, s), held' = [held EXCEPT ![g] = a]
        PROVE  TypeOK'
    <3>1. items[k] \in Addresses
      BY <2>3 DEF TypeOK
    <3>2. Allocates(a, s)
      BY <2>3, <3>1, DeepCopyAllocates
    <3> QED BY <1>8, <2>1, <2>3, <3>2, KeepType DEF Visit, fields, TypeOK
  <2> QED BY <1>8, <2>2, <2>3 DEF Visit
<1>9. CASE RUnlock(g)
  BY <1>9, ReturnMoves, CallStepType DEF RUnlock, fields, TypeOK
<1> QED BY <1>1, <1>2, <1>3, <1>4, <1>5, <1>6, <1>7, <1>8, <1>9 DEF Proceed

\* The invariant of the type and of what is in hand keeps the types.
LEMMA TypeStep ==
  ASSUME TypeOK, CallInv, [Next]_vars
  PROVE  TypeOK'
<1>1. CASE UNCHANGED vars
  BY <1>1 DEF vars, fields, heap, TypeOK
<1>2. CASE Next
  BY <1>2, BeginType, TakeLockType, ProceedType DEF Next
<1> QED BY <1>1, <1>2

-----------------------------------------------------------------------------
(* Mutual exclusion *)

\* What one goroutine may do to the lock without breaking into another's
\* critical section.
LockMove(g) ==
  \/ UNCHANGED <<writer, readers>>
  \/ writer = Nil /\ writer' = g /\ UNCHANGED readers
  \/ writer = g /\ writer' = Nil /\ UNCHANGED readers
  \/ writer = Nil /\ writer' = Nil /\ readers' = readers \cup {g}
  \/ UNCHANGED writer /\ readers' = readers \ {g}

LEMMA LockOfOthers ==
  ASSUME LockInv, NEW g \in Goroutines, NEW h \in Goroutines \ {g},
         call'[h].at = call[h].at, LockMove(g)
  PROVE  LockOf(h)'
<1>1. LockOf(h) /\ Nil # h
  BY StoreHeapAssumption DEF LockInv
<1> QED BY <1>1 DEF LockMove, LockOf, At

LEMMA LockStep ==
  ASSUME TypeOK, LockInv, [Next]_vars
  PROVE  LockInv'
<1> USE DEF At
<1>1. CASE UNCHANGED vars
  BY <1>1 DEF vars, LockInv, LockOf
<1>2. CASE Next
  <2>1. PICK g \in Goroutines : StepOf(g)
    BY <1>2 DEF Next, StepOf
  <2>2. LockOf(g) /\ g # Nil
    BY StoreHeapAssumption DEF LockInv
  <2> SUFFICES /\ \A h \in Goroutines \ {g} : call'[h].at = call[h].at
               /\ LockMove(g)
               /\ LockOf(g)'
    BY LockOfOthers DEF LockInv
  <2>3. CASE Make(g) \/ Mutate(g)
    BY <2>2, <2>3 DEF Make, Mutate, LockMove, LockOf
  <2>4. ASSUME NEW op \in WriteOps, NEW k \in Keys, CallWrite(g, op, k)
        PROVE  /\ \A h \in Goroutines \ {g} : call'[h].at = call[h].at
               /\ LockMove(g)
               /\ LockOf(g)'
    <3>1. /\ call'[g].at = "lock"
          /\ \A h \in Goroutines \ {g} : call'[h] = call[h]
      BY <2>4 DEF CallWrite, TypeOK
    <3> QED BY <2>2, <2>4, <3>1 DEF CallWrite, Local, LockMove, LockOf, Exclusive
  <2>5. ASSUME NEW K \in SUBSET Keys, CallRead(g, K)
        PROVE  /\ \A h \in Goroutines \ {g} : call'[h].at = call[h].at
               /\ LockMove(g)
               /\ LockOf(g)'
    <3>1. /\ call'[g].at = "rlock"
          /\ \A h \in Goroutines \ {g} : call'[h] = call[h]
      BY <2>5 DEF CallRead, TypeOK
    <3> QED BY <2>2, <2>5, <3>1 DEF CallRead, Local, LockMove, LockOf, Exclusive
  <2>6. CASE Lock(g)
    <3>1. call[g].at = "lock" /\ Go(g, "wait")
      BY <2>6 DEF Lock
    <3>2. call'[g].at = "wait" /\ \A h \in Goroutines \ {g} : call'[h] = call[h]
      BY <3>1, GoMoves, GoWriter DEF WritePlaces
    <3> QED BY <2>2, <2>6, <3>1, <3>2 DEF Lock, LockMove, LockOf, Exclusive
  <2>7. CASE Locked(g)
    <3>1. call[g].at = "wait" /\ Go(g, "check")
      BY <2>7 DEF Locked
    <3>2. call'[g].at = "check" /\ \A h \in Goroutines \ {g} : call'[h] = call[h]
      BY <3>1, GoMoves, GoWriter DEF WritePlaces
    <3> QED BY <2>2, <2>7, <3>1, <3>2 DEF Locked, Local, LockMove, LockOf, Exclusive
  <2>8. CASE RLock(g)
    <3>1. call[g].at = "rlock" /\ Go(g, "read")
      BY <2>8 DEF RLock
    <3>2. call'[g].at = "read" /\ \A h \in Goroutines \ {g} : call'[h] = call[h]
      BY <3>1, GoMoves, GoReader DEF ReadPlaces
    <3> QED BY <2>2, <2>8, <3>1, <3>2 DEF RLock, LockMove, LockOf, Exclusive
  <2>9. ASSUME call[g].at \in Exclusive, writer' = Nil, UNCHANGED readers,
               call' = [call EXCEPT ![g] = NoCall]
        PROVE  /\ \A h \in Goroutines \ {g} : call'[h].at = call[h].at
               /\ LockMove(g)
               /\ LockOf(g)'
    BY <2>2, <2>9, ReturnMoves DEF LockMove, LockOf, Exclusive
  <2>10. CASE CheckFails(g)
    BY <2>9, <2>10 DEF CheckFails, ReturnError, Exclusive
  <2>11. CASE ReturnCopy(g)
    BY <2>9, <2>11 DEF ReturnCopy, Exclusive
  <2>12. CASE BumpAndStamp(g) /\ ReturnError(g)
    BY <2>9, <2>12 DEF BumpAndStamp, ReturnError, Exclusive
  <2>13. ASSUME call[g].at \in Exclusive, call'[g].at \in Exclusive,
                UNCHANGED <<writer, readers>>,
                \A h \in Goroutines \ {g} : call'[h] = call[h]
         PROVE  /\ \A h \in Goroutines \ {g} : call'[h].at = call[h].at
                /\ LockMove(g)
                /\ LockOf(g)'
    BY <2>2, <2>13 DEF LockMove, LockOf, Exclusive
  <2>14. ASSUME NEW place \in Exclusive, call[g].at \in Exclusive, Go(g, place),
                UNCHANGED <<writer, readers>>
         PROVE  /\ \A h \in Goroutines \ {g} : call'[h].at = call[h].at
                /\ LockMove(g)
                /\ LockOf(g)'
    BY <2>13, <2>14, GoMoves, GoWriter DEF Exclusive, WritePlaces
  <2>15. CASE CopyIn(g)
    <3>1. PICK a : InHand(g, a, "stamp")
      BY <2>15, CopyInTakes
    <3>2. call[g].at \in Exclusive /\ UNCHANGED <<writer, readers>>
      BY <2>15 DEF CopyIn, Exclusive
    <3>3. call'[g].at = "stamp" /\ \A h \in Goroutines \ {g} : call'[h] = call[h]
      BY <3>1 DEF InHand
    <3> QED BY <3>2, <3>3, <2>13 DEF Exclusive
  <2>16. CASE Remove(g)
    <3>1. InHand(g, items[call[g].key], "bump")
      BY <2>16, RemoveTakes
    <3>2. call[g].at \in Exclusive /\ UNCHANGED <<writer, readers>>
      BY <2>16 DEF Remove, Exclusive
    <3>3. call'[g].at = "bump" /\ \A h \in Goroutines \ {g} : call'[h] = call[h]
      BY <3>1 DEF InHand
    <3> QED BY <3>2, <3>3, <2>13 DEF Exclusive
  <2>17. CASE BumpAndStamp(g) /\ ~ReturnError(g)
    BY <2>14, <2>17 DEF BumpAndStamp, Exclusive
  <2>18. CASE Put(g)
    BY <2>14, <2>18 DEF Put, Exclusive
  <2>19. CASE BumpOnDelete(g)
    BY <2>14, <2>19 DEF BumpOnDelete, Exclusive
  <2>20. ASSUME NEW k \in Keys, Visit(g, k)
         PROVE  /\ \A h \in Goroutines \ {g} : call'[h].at = call[h].at
                /\ LockMove(g)
                /\ LockOf(g)'
    BY <2>2, <2>20, VisitMoves DEF Visit, LockMove, LockOf, Exclusive
  <2>21. CASE RUnlock(g)
    BY <2>2, <2>21, ReturnMoves DEF RUnlock, LockMove, LockOf, Exclusive
  <2> QED BY <2>1, <2>3, <2>4, <2>5, <2>6, <2>7, <2>8, <2>10, <2>11, <2>12, <2>15, <2>16,
             <2>17, <2>18, <2>19, <2>20, <2>21
          DEF StepOf, Begin, TakeLock, Proceed, WriteOps
<1> QED BY <1>1, <1>2

-----------------------------------------------------------------------------
(* What one step does to the heap, and to whom *)

\* A goroutine moves itself and what it keeps.
LEMMA OthersKeep ==
  ASSUME TypeOK, NEW g \in Goroutines, StepOf(g)
  PROVE  \A h \in Goroutines \ {g} : call'[h] = call[h] /\ held'[h] = held[h]
<1>1. CASE Make(g) \/ Mutate(g)
  BY <1>1 DEF Make, Mutate, TypeOK
<1>2. CASE (\E op \in WriteOps, k \in Keys : CallWrite(g, op, k))
           \/ \E K \in SUBSET Keys : CallRead(g, K)
  BY <1>2 DEF CallWrite, CallRead, Local, TypeOK
<1>3. CASE TakeLock(g)
  BY <1>3, GoMoves DEF TakeLock, Lock, Locked, RLock, Local
<1>4. CASE CheckFails(g) \/ RUnlock(g)
  BY <1>4, ReturnMoves DEF CheckFails, ReturnError, RUnlock
<1>5. CASE CopyIn(g)
  BY <1>5, CopyInTakes DEF CopyIn, InHand
<1>6. CASE BumpAndStamp(g)
  <2>1. CASE ReturnError(g)
    BY <2>1, ReturnMoves DEF ReturnError
  <2>2. CASE Go(g, "put") /\ UNCHANGED held
    BY <2>2, GoMoves
  <2> QED BY <1>6, <2>1, <2>2 DEF BumpAndStamp
<1>7. CASE Put(g) \/ BumpOnDelete(g)
  BY <1>7, GoMoves DEF Put, BumpOnDelete
<1>8. CASE Remove(g)
  BY <1>8, RemoveTakes DEF Remove, InHand
<1>9. CASE ReturnCopy(g)
  <2>1. \A h \in Goroutines \ {g} : call'[h] = call[h]
    BY <1>9, ReturnMoves DEF ReturnCopy
  <2>2. \A h \in Goroutines \ {g} : held'[h] = held[h]
    BY <1>9 DEF ReturnCopy, TypeOK
  <2> QED BY <2>1, <2>2
<1>10. ASSUME NEW k \in Keys, Visit(g, k)
       PROVE  \A h \in Goroutines \ {g} : call'[h] = call[h] /\ held'[h] = held[h]
  <2>1. \A h \in Goroutines \ {g} : call'[h] = call[h]
    BY <1>10, VisitMoves DEF Visit
  <2>2. \A h \in Goroutines \ {g} : held'[h] = held[h]
    BY <1>10 DEF Visit, TypeOK
  <2> QED BY <2>1, <2>2
<1> QED BY <1>1, <1>2, <1>3, <1>4, <1>5, <1>6, <1>7, <1>8, <1>9, <1>10
        DEF StepOf, Begin, Proceed, WriteOps

Rewrites(g) ==
  /\ At(g, "idle") /\ held[g] # Nil
  /\ UNCHANGED structs
  /\ \E d \in Data : slices' = [slices EXCEPT ![structs[held[g]].slices] = d]

Stamps(g) ==
  /\ At(g, "stamp")
  /\ UNCHANGED slices
  /\ structs' = [structs EXCEPT ![call[g].obj].rv = rv + 1]

HeapMove(g) ==
  UNCHANGED heap \/ (\E a, s : Allocates(a, s)) \/ Rewrites(g) \/ Stamps(g)

LEMMA HeapMoves ==
  ASSUME TypeOK, CallInv, NEW g \in Goroutines, StepOf(g)
  PROVE  HeapMove(g)
<1>1. CASE Make(g)
  BY <1>1, NewAllocates DEF Make, HeapMove
<1>2. CASE Mutate(g)
  BY <1>2 DEF Mutate, HeapMove, Rewrites
<1>3. CASE (\E op \in WriteOps, k \in Keys : CallWrite(g, op, k))
           \/ \E K \in SUBSET Keys : CallRead(g, K)
  BY <1>3 DEF CallWrite, CallRead, Local, HeapMove
<1>4. CASE TakeLock(g)
  BY <1>4 DEF TakeLock, Lock, Locked, RLock, Local, HeapMove
<1>5. CASE CheckFails(g) \/ Put(g) \/ Remove(g) \/ BumpOnDelete(g) \/ RUnlock(g)
  BY <1>5 DEF CheckFails, Put, Remove, BumpOnDelete, RUnlock, HeapMove
<1>6. CASE CopyIn(g)
  <2>1. held[g] \in Addresses
    BY <1>6 DEF CopyIn, CallInv, CallOf, At, TypeOK
  <2> QED BY <1>6, <2>1, CopyInTakes, DeepCopyAllocates DEF HeapMove
<1>7. CASE BumpAndStamp(g)
  BY <1>7 DEF BumpAndStamp, HeapMove, heap, Stamps
<1>8. CASE ReturnCopy(g)
  <2>1. call[g].obj \in Addresses
    BY <1>8 DEF ReturnCopy, CallInv, CallOf, At, ObjPlaces
  <2> QED BY <1>8, <2>1, DeepCopyAllocates DEF ReturnCopy, HeapMove
<1>9. ASSUME NEW k \in Keys, Visit(g, k)
      PROVE  HeapMove(g)
  <2>1. items[k] # Absent => items[k] \in Addresses
    BY DEF TypeOK
  <2> QED BY <1>9, <2>1, DeepCopyAllocates DEF Visit, HeapMove
<1> QED BY <1>1, <1>2, <1>3, <1>4, <1>5, <1>6, <1>7, <1>8, <1>9
        DEF StepOf, Begin, Proceed, WriteOps

\* Nothing that somebody points to gets other slices.
LEMMA SlicesStay ==
  ASSUME TypeOK, CallInv, NEW g \in Goroutines, HeapMove(g), NEW p, Live(p)
  PROVE  structs'[p].slices = structs[p].slices
<1>1. CASE UNCHANGED heap \/ Rewrites(g)
  BY <1>1 DEF heap, Rewrites
<1>2. CASE \E a, s : Allocates(a, s)
  BY <1>2, AllocationIsFresh
<1>3. CASE Stamps(g)
  <2>1. p \in Addresses /\ structs[p] \in [rv : Nat, slices : Addresses]
    BY DEF TypeOK, Live
  <2>2. CASE p = call[g].obj
    <3>1. structs'[p] = [structs[p] EXCEPT !.rv = rv + 1]
      BY <1>3, <2>1, <2>2 DEF Stamps, TypeOK
    <3> QED BY <2>1, <3>1
  <2>3. CASE p # call[g].obj
    BY <1>3, <2>1, <2>3 DEF Stamps, TypeOK
  <2> QED BY <2>2, <2>3
<1> QED BY <1>1, <1>2, <1>3 DEF HeapMove

\* The object p leads to is what it was.
Kept(p) ==
  structs'[p] = structs[p] /\ slices'[structs[p].slices] = slices[structs[p].slices]

\* An object that neither the caller who changes its own nor the writer who
\* stamps its copy shares a part of.
LEMMA ApartIsKept ==
  ASSUME TypeOK, CallInv, NEW g \in Goroutines, HeapMove(g), NEW p, Live(p),
         held[g] # Nil => Apart(p, held[g]),
         At(g, "stamp") => Apart(p, call[g].obj)
  PROVE  Kept(p)
<1>1. p \in Addresses /\ structs[p] \in [rv : Nat, slices : Addresses]
  BY DEF TypeOK, Live
<1>2. CASE UNCHANGED heap
  BY <1>2 DEF heap, Kept
<1>3. CASE \E a, s : Allocates(a, s)
  BY <1>3, AllocationIsFresh DEF Kept
<1>4. CASE Rewrites(g)
  BY <1>1, <1>4 DEF Rewrites, Apart, Kept, TypeOK
<1>5. CASE Stamps(g)
  BY <1>1, <1>5 DEF Stamps, Apart, Kept, TypeOK
<1> QED BY <1>2, <1>3, <1>4, <1>5 DEF HeapMove

\* Whatever is done to the heap, what the map leads to stays.
LEMMA StoredIsKept ==
  ASSUME TypeOK, CallInv, NoAliasing, PrivateInv,
         NEW g \in Goroutines, HeapMove(g), NEW k \in Keys, items[k] # Absent
  PROVE  Live(items[k]) /\ Kept(items[k])
<1>1. Live(items[k])
  BY LiveRoots
<1>2. held[g] # Nil => Apart(items[k], held[g])
  BY DEF NoAliasing, Apart
<1>3. At(g, "stamp") => Apart(items[k], call[g].obj)
  BY DEF PrivateInv, Private, Apart, At
<1> QED BY <1>1, <1>2, <1>3, ApartIsKept

-----------------------------------------------------------------------------
(* What a goroutine has in hand *)

\* While a goroutine is in its critical section the others can only begin
\* calls and queue for the lock.
LEMMA OthersWait ==
  ASSUME LockInv, NEW g \in Goroutines, StepOf(g),
         NEW h \in Goroutines \ {g}, call[h].at \in Exclusive
  PROVE  Begin(g) \/ TakeLock(g)
<1>1. writer = h /\ readers = {}
  BY DEF LockInv, LockOf
<1>2. call[g].at \notin Exclusive /\ call[g].at # "read"
  BY <1>1 DEF LockInv, LockOf, At
<1>3. ~Proceed(g)
  BY <1>2 DEF Proceed, CheckFails, CopyIn, BumpAndStamp, Put, Remove, BumpOnDelete,
              ReturnCopy, Visit, RUnlock, At, Exclusive
<1> QED BY <1>3 DEF StepOf

LEMMA CallOfOthers ==
  ASSUME TypeOK, LockInv, CallInv, PrivateInv, NEW g \in Goroutines, StepOf(g),
         NEW h \in Goroutines \ {g}
  PROVE  CallOf(h)'
<1>1. call'[h] = call[h] /\ held'[h] = held[h]
  BY OthersKeep
<1>2. CallOf(h)
  BY DEF CallInv
<1>3. ASSUME At(h, "put")
      PROVE  rv' = rv /\ Kept(call[h].obj)
  <2>1. Begin(g) \/ TakeLock(g)
    BY <1>3, OthersWait DEF At, Exclusive
  <2>2. rv' = rv
    BY <2>1 DEF Begin, Make, Mutate, CallWrite, CallRead, TakeLock, Lock, Locked, RLock,
                Local, fields
  <2>3. ~At(g, "stamp")
    BY <1>3, <2>1 DEF Begin, Make, Mutate, CallWrite, CallRead, TakeLock, Lock, Locked,
                      RLock, At
  <2>4. held[g] # Nil => Apart(call[h].obj, held[g])
    BY <1>3 DEF PrivateInv, Private, At
  <2>5. Live(call[h].obj)
    BY <1>3, LiveRoots DEF CallInv, CallOf, At, ObjPlaces
  <2> QED BY <2>2, <2>3, <2>4, <2>5, HeapMoves, ApartIsKept
<1> QED BY <1>1, <1>2, <1>3 DEF CallOf, At, Object, Kept

\* The stamp succeeds: the object in hand has the counter's new value.
LEMMA Stamped ==
  ASSUME TypeOK, CallInv, NEW g \in Goroutines, BumpAndStamp(g), ~ReturnError(g)
  PROVE  /\ call'[g].at = "put" /\ call'[g].obj = call[g].obj
         /\ call'[g].key = call[g].key /\ call'[g].op = call[g].op
         /\ call[g].obj \in Addresses
         /\ Object(call[g].obj).data \notin Opaque
         /\ slices' = slices /\ UNCHANGED items /\ rv' = rv + 1
         /\ structs'[call[g].obj].rv = rv'
         /\ structs'[call[g].obj].slices = structs[call[g].obj].slices
<1>1. /\ Go(g, "put") /\ rv' = rv + 1 /\ UNCHANGED <<items, slices>>
      /\ structs' = [structs EXCEPT ![call[g].obj].rv = rv + 1]
      /\ Object(call[g].obj).data \notin Opaque
  BY DEF BumpAndStamp
<1>2. call[g].obj \in Addresses /\ call[g].at \in WritePlaces
  BY DEF BumpAndStamp, CallInv, CallOf, At, ObjPlaces, WritePlaces
<1>3. structs[call[g].obj] \in [rv : Nat, slices : Addresses]
  BY <1>2 DEF TypeOK
<1>4. structs'[call[g].obj] = [structs[call[g].obj] EXCEPT !.rv = rv + 1]
  BY <1>1, <1>2 DEF TypeOK
<1>5. /\ structs'[call[g].obj].rv = rv + 1
      /\ structs'[call[g].obj].slices = structs[call[g].obj].slices
  BY <1>3, <1>4
<1> QED BY <1>1, <1>2, <1>5, GoWriter

LEMMA CallOfMover ==
  ASSUME TypeOK, LockInv, CallInv, PrivateInv, NEW g \in Goroutines, StepOf(g)
  PROVE  CallOf(g)'
<1> USE DEF At, ObjPlaces
<1>1. CallOf(g)
  BY DEF CallInv
<1>2. ASSUME call'[g].at \in {"idle", "read"}
      PROVE  CallOf(g)'
  BY <1>2 DEF CallOf
<1>3. CASE Make(g) \/ Mutate(g)
  BY <1>2, <1>3 DEF Make, Mutate
<1>4. ASSUME NEW op \in WriteOps, NEW k \in Keys, CallWrite(g, op, k)
      PROVE  CallOf(g)'
  <2>1. call'[g].at = "lock" /\ call'[g].op = op
    BY <1>4 DEF CallWrite, TypeOK
  <2> QED BY <1>4, <2>1 DEF CallWrite, Local, CallOf
<1>5. ASSUME NEW K \in SUBSET Keys, CallRead(g, K)
      PROVE  CallOf(g)'
  <2>1. call'[g].at = "rlock" /\ call'[g].out = [k \in Keys |-> Nil]
    BY <1>5 DEF CallRead, TypeOK
  <2> QED BY <2>1 DEF CallOf
<1>6. CASE Lock(g) \/ Locked(g)
  <2>1. call'[g].at \in {"wait", "check"} /\ call'[g].op = call[g].op
    BY <1>6, GoWriter DEF Lock, Locked, WritePlaces
  <2>2. held' = held
    BY <1>6 DEF Lock, Locked, Local
  <2> QED BY <1>1, <1>6, <2>1, <2>2 DEF Lock, Locked, CallOf
<1>7. CASE RLock(g)
  BY <1>2, <1>7, GoReader DEF RLock, ReadPlaces
<1>8. CASE CheckFails(g) \/ ReturnCopy(g) \/ RUnlock(g)
  BY <1>2, <1>8, ReturnMoves DEF CheckFails, ReturnError, ReturnCopy, RUnlock
<1>9. CASE CopyIn(g)
  <2>1. PICK a \in AnyOf(Free) : InHand(g, a, "stamp")
    BY <1>9, CopyInTakes
  <2>2. a \in Addresses
    BY AnyOfIsFree DEF Free
  <2> QED BY <2>1, <2>2 DEF InHand, CallOf
<1>10. CASE BumpAndStamp(g)
  <2>1. CASE ReturnError(g)
    BY <1>2, <2>1, ReturnMoves DEF ReturnError
  <2>2. CASE ~ReturnError(g)
    BY <1>10, <2>2, Stamped DEF CallOf, Object
  <2> QED BY <2>1, <2>2
<1>11. CASE Put(g) \/ BumpOnDelete(g)
  <2>1. call'[g].at = "copy" /\ call'[g].obj = call[g].obj
    BY <1>11, GoWriter DEF Put, BumpOnDelete, WritePlaces
  <2> QED BY <1>1, <1>11, <2>1 DEF Put, BumpOnDelete, CallOf
<1>12. CASE Remove(g)
  <2>1. items[call[g].key] \in Addresses
    BY <1>12, CallKinds, WriteFields DEF Remove, Occupied, TypeOK, WritePlaces
  <2> QED BY <1>12, <2>1, RemoveTakes DEF InHand, CallOf
<1>13. ASSUME NEW k \in Keys, Visit(g, k)
       PROVE  CallOf(g)'
  BY <1>2, <1>13, VisitMoves DEF Visit
<1> QED BY <1>3, <1>4, <1>5, <1>6, <1>7, <1>8, <1>9, <1>10, <1>11, <1>12, <1>13
        DEF StepOf, Begin, TakeLock, Proceed, WriteOps

LEMMA CallStep ==
  ASSUME TypeOK, LockInv, CallInv, PrivateInv, [Next]_vars
  PROVE  CallInv'
<1>1. CASE UNCHANGED vars
  BY <1>1 DEF vars, fields, heap, CallInv, CallOf, At, Object
<1>2. CASE Next
  <2>1. PICK g \in Goroutines : StepOf(g)
    BY <1>2 DEF Next, StepOf
  <2> QED BY <2>1, CallOfOthers, CallOfMover DEF CallInv
<1> QED BY <1>1, <1>2

-----------------------------------------------------------------------------
(* Aliasing *)

\* The places of a writer whose object is to be stored.
OwnPlaces == {"stamp", "put"}

\* The ways a step changes the pointers.
Rests(g) ==
  /\ UNCHANGED <<items, held>>
  /\ call'[g].at \in OwnPlaces => call[g].at \in OwnPlaces /\ call'[g].obj = call[g].obj

Keeps(g) ==
  /\ \E a, s : Allocates(a, s) /\ held' = [held EXCEPT ![g] = a]
  /\ UNCHANGED items
  /\ call'[g].at \notin OwnPlaces

Takes(g) ==
  /\ \E a, s : Allocates(a, s) /\ InHand(g, a, "stamp")
  /\ UNCHANGED <<items, held>>
  /\ call[g].at \in Exclusive

PointerMove(g) == Rests(g) \/ Keeps(g) \/ Takes(g) \/ Put(g) \/ Remove(g)

LEMMA PointerMoves ==
  ASSUME TypeOK, CallInv, NEW g \in Goroutines, StepOf(g)
  PROVE  PointerMove(g)
<1> USE DEF At, OwnPlaces
<1>1. CASE Make(g)
  BY <1>1, NewAllocates DEF Make, fields, PointerMove, Keeps
<1>2. CASE Mutate(g)
  BY <1>2 DEF Mutate, fields, PointerMove, Rests
<1>3. ASSUME NEW op \in WriteOps, NEW k \in Keys, CallWrite(g, op, k)
      PROVE  PointerMove(g)
  <2>1. call'[g].at = "lock"
    BY <1>3 DEF CallWrite, TypeOK
  <2> QED BY <1>3, <2>1 DEF CallWrite, Local, fields, PointerMove, Rests
<1>4. ASSUME NEW K \in SUBSET Keys, CallRead(g, K)
      PROVE  PointerMove(g)
  <2>1. call'[g].at = "rlock"
    BY <1>4 DEF CallRead, TypeOK
  <2> QED BY <1>4, <2>1 DEF CallRead, Local, fields, PointerMove, Rests
<1>5. CASE Lock(g) \/ Locked(g)
  <2>1. call'[g].at \in {"wait", "check"}
    BY <1>5, GoWriter DEF Lock, Locked, WritePlaces
  <2> QED BY <1>5, <2>1 DEF Lock, Locked, Local, fields, PointerMove, Rests
<1>6. CASE RLock(g)
  <2>1. call'[g].at = "read"
    BY <1>6, GoReader DEF RLock, ReadPlaces
  <2> QED BY <1>6, <2>1 DEF RLock, fields, PointerMove, Rests
<1>7. CASE CheckFails(g) \/ RUnlock(g)
  <2>1. call'[g].at = "idle"
    BY <1>7, ReturnMoves DEF CheckFails, ReturnError, RUnlock
  <2> QED BY <1>7, <2>1 DEF CheckFails, ReturnError, RUnlock, fields, PointerMove, Rests
<1>8. CASE CopyIn(g)
  <2>1. held[g] \in Addresses
    BY <1>8 DEF CopyIn, CallInv, CallOf, TypeOK
  <2>2. \E a, s : Allocates(a, s) /\ InHand(g, a, "stamp")
    BY <1>8, <2>1, CopyInTakes, DeepCopyAllocates
  <2> QED BY <1>8, <2>2 DEF CopyIn, fields, PointerMove, Takes, Exclusive
<1>9. CASE BumpAndStamp(g)
  <2>1. CASE ReturnError(g)
    BY <1>9, <2>1, ReturnMoves DEF BumpAndStamp, ReturnError, PointerMove, Rests
  <2>2. CASE ~ReturnError(g)
    BY <1>9, <2>2, Stamped DEF BumpAndStamp, PointerMove, Rests
  <2> QED BY <2>1, <2>2
<1>10. CASE BumpOnDelete(g)
  <2>1. call'[g].at = "copy"
    BY <1>10, GoWriter DEF BumpOnDelete, WritePlaces
  <2> QED BY <1>10, <2>1 DEF BumpOnDelete, PointerMove, Rests
<1>11. CASE ReturnCopy(g)
  <2>1. call'[g].at = "idle" /\ call[g].obj \in Addresses
    BY <1>11, ReturnMoves DEF ReturnCopy, CallInv, CallOf, ObjPlaces
  <2> QED BY <1>11, <2>1, DeepCopyAllocates
          DEF ReturnCopy, fields, PointerMove, Rests, Keeps
<1>12. ASSUME NEW k \in Keys, Visit(g, k)
       PROVE  PointerMove(g)
  <2>1. call'[g].at = "read"
    BY <1>12, VisitMoves DEF Visit
  <2>2. items[k] # Absent => items[k] \in Addresses
    BY DEF TypeOK
  <2> QED BY <1>12, <2>1, <2>2, DeepCopyAllocates
          DEF Visit, fields, PointerMove, Rests, Keeps
<1> QED BY <1>1, <1>2, <1>3, <1>4, <1>5, <1>6, <1>7, <1>8, <1>9, <1>10, <1>11, <1>12
        DEF StepOf, Begin, TakeLock, Proceed, PointerMove, WriteOps

ApartInv == NoAliasing /\ PrivateInv

\* The pairs of pointers that are to be apart.
LEMMA ApartPairs ==
  ApartInv <=>
    /\ \A k, l \in Keys : k # l /\ items[k] # Absent /\ items[l] # Absent
                            => Apart(items[k], items[l])
    /\ \A k \in Keys, g \in Goroutines : items[k] # Absent /\ held[g] # Nil
                                           => Apart(items[k], held[g])
    /\ \A k \in Keys, g \in Goroutines : items[k] # Absent /\ call[g].at \in OwnPlaces
                                           => Apart(items[k], call[g].obj)
    /\ \A g, h \in Goroutines : held[h] # Nil /\ call[g].at \in OwnPlaces
                                           => Apart(held[h], call[g].obj)
BY DEF ApartInv, NoAliasing, PrivateInv, Private, Apart, OwnPlaces

ApartNext(p, q) == p # q /\ structs'[p].slices # structs'[q].slices

LEMMA ApartPairsNext ==
  ASSUME /\ \A k, l \in Keys : k # l /\ items'[k] # Absent /\ items'[l] # Absent
                                 => ApartNext(items'[k], items'[l])
         /\ \A k \in Keys, g \in Goroutines : items'[k] # Absent /\ held'[g] # Nil
                                                => ApartNext(items'[k], held'[g])
         /\ \A k \in Keys, g \in Goroutines : items'[k] # Absent /\ call'[g].at \in OwnPlaces
                                                => ApartNext(items'[k], call'[g].obj)
         /\ \A g, h \in Goroutines : held'[h] # Nil /\ call'[g].at \in OwnPlaces
                                                => ApartNext(held'[h], call'[g].obj)
  PROVE  ApartInv'
BY DEF ApartInv, NoAliasing, PrivateInv, Private, Apart, ApartNext, OwnPlaces

LEMMA ApartStays ==
  ASSUME TypeOK, CallInv, NEW g \in Goroutines, HeapMove(g),
         NEW p, NEW q, Live(p), Live(q), Apart(p, q)
  PROVE  ApartNext(p, q)
BY SlicesStay DEF Apart, ApartNext

\* A fresh object is apart from whatever somebody points to, either way round.
LEMMA FreshApart ==
  ASSUME TypeOK, NEW a, NEW s, Allocates(a, s), NEW p, Live(p)
  PROVE  ApartNext(a, p) /\ ApartNext(p, a)
BY AllocationIsFresh DEF ApartNext

LEMMA ApartStep ==
  ASSUME TypeOK, LockInv, CallInv, ApartInv, NEW g \in Goroutines, StepOf(g)
  PROVE  ApartInv'
<1>1. HeapMove(g) /\ PointerMove(g)
  BY HeapMoves, PointerMoves
<1>2. \A h \in Goroutines \ {g} : call'[h] = call[h] /\ held'[h] = held[h]
  BY OthersKeep
<1>3. /\ \A k \in Keys : items[k] # Absent => Live(items[k])
      /\ \A h \in Goroutines : held[h] # Nil => Live(held[h])
      /\ \A h \in Goroutines : call[h].at \in OwnPlaces => Live(call[h].obj)
  BY LiveRoots DEF CallInv, CallOf, OwnPlaces, ObjPlaces
<1>4. /\ \A k, l \in Keys : k # l /\ items[k] # Absent /\ items[l] # Absent
                              => ApartNext(items[k], items[l])
      /\ \A k \in Keys, h \in Goroutines : items[k] # Absent /\ held[h] # Nil
                                             => ApartNext(items[k], held[h])
      /\ \A k \in Keys, h \in Goroutines : items[k] # Absent /\ call[h].at \in OwnPlaces
                                             => ApartNext(items[k], call[h].obj)
      /\ \A f, h \in Goroutines : held[h] # Nil /\ call[f].at \in OwnPlaces
                                             => ApartNext(held[h], call[f].obj)
  BY <1>1, <1>3, ApartPairs, ApartStays
<1>5. ASSUME call[g].at \in Exclusive
      PROVE  \A h \in Goroutines \ {g} : call[h].at \notin OwnPlaces
  BY <1>5 DEF LockInv, LockOf, Exclusive, OwnPlaces
<1>6. CASE Rests(g)
  <2>1. \A h \in Goroutines : call'[h].at \in OwnPlaces =>
          call[h].at \in OwnPlaces /\ call'[h].obj = call[h].obj
    BY <1>2, <1>6 DEF Rests
  <2> QED BY <1>4, <1>6, <2>1, ApartPairsNext DEF Rests
<1>7. CASE Keeps(g)
  <2>1. PICK a, s : Allocates(a, s) /\ held' = [held EXCEPT ![g] = a]
    BY <1>7 DEF Keeps
  <2>2. held'[g] = a /\ items' = items /\ call'[g].at \notin OwnPlaces
    BY <1>7, <2>1 DEF Keeps, TypeOK
  <2>3. /\ \A k \in Keys : items[k] # Absent => ApartNext(items[k], a)
        /\ \A h \in Goroutines : call[h].at \in OwnPlaces => ApartNext(a, call[h].obj)
    BY <1>3, <2>1, FreshApart
  <2> QED BY <1>2, <1>4, <2>2, <2>3, ApartPairsNext
<1>8. CASE Takes(g)
  <2>1. PICK a, s : Allocates(a, s) /\ InHand(g, a, "stamp")
    BY <1>8 DEF Takes
  <2>2. /\ call'[g].obj = a /\ items' = items /\ held' = held
        /\ \A h \in Goroutines \ {g} : call'[h].at \notin OwnPlaces
    BY <1>2, <1>5, <1>8, <2>1 DEF Takes, InHand
  <2>3. /\ \A k \in Keys : items[k] # Absent => ApartNext(items[k], a)
        /\ \A h \in Goroutines : held[h] # Nil => ApartNext(held[h], a)
    BY <1>3, <2>1, FreshApart
  <2> QED BY <1>4, <2>2, <2>3, ApartPairsNext
<1>9. CASE Put(g)
  <2>1. /\ call[g].at \in Exclusive /\ call[g].at \in OwnPlaces /\ call[g].at \in WritePlaces
        /\ Go(g, "copy") /\ held' = held
    BY <1>9 DEF Put, At, Exclusive, OwnPlaces, WritePlaces
  <2>2. call'[g].at \notin OwnPlaces
    BY <2>1, GoWriter DEF OwnPlaces
  <2>3. \A h \in Goroutines : call'[h].at \notin OwnPlaces
    BY <1>2, <1>5, <2>1, <2>2
  <2>4. \A k \in Keys : items'[k] = items[k] \/ items'[k] = call[g].obj
    BY <1>9 DEF Put, TypeOK
  <2>5. \A k, l \in Keys : k # l => items'[k] = items[k] \/ items'[l] = items[l]
    BY <1>9 DEF Put, TypeOK
  <2>6. \A k, l \in Keys : k # l /\ items'[k] # Absent /\ items'[l] # Absent
                             => ApartNext(items'[k], items'[l])
    BY <1>4, <2>1, <2>4, <2>5 DEF ApartNext
  <2>7. \A k \in Keys, h \in Goroutines : items'[k] # Absent /\ held'[h] # Nil
                             => ApartNext(items'[k], held'[h])
    BY <1>4, <2>1, <2>4 DEF ApartNext
  <2> QED BY <2>3, <2>6, <2>7, ApartPairsNext
<1>10. CASE Remove(g)
  <2>1. call[g].at \in Exclusive /\ held' = held /\ call'[g].at \notin OwnPlaces
    BY <1>10, RemoveTakes DEF Remove, InHand, At, Exclusive, OwnPlaces
  <2>2. \A h \in Goroutines : call'[h].at \notin OwnPlaces
    BY <1>2, <1>5, <2>1
  <2>3. \A k \in Keys : items'[k] = items[k] \/ items'[k] = Absent
    BY <1>10 DEF Remove, TypeOK
  <2> QED BY <1>4, <2>1, <2>2, <2>3, ApartPairsNext
<1> QED BY <1>1, <1>6, <1>7, <1>8, <1>9, <1>10 DEF PointerMove

-----------------------------------------------------------------------------
(* Snapshots *)

\* What the map shows for a key changes only where the map is assigned.
LEMMA ContentStays ==
  ASSUME TypeOK, CallInv, ApartInv, NEW g \in Goroutines, StepOf(g),
         NEW k \in Keys, items'[k] = items[k]
  PROVE  Content(k)' = Content(k)
<1>1. items[k] # Absent => Kept(items[k])
  BY HeapMoves, StoredIsKept DEF ApartInv
<1> QED BY <1>1 DEF Content, Object, Kept

\* The map is assigned by Put and Remove, in a critical section.
LEMMA MapMoves ==
  ASSUME TypeOK, CallInv, NEW g \in Goroutines, StepOf(g), ~Put(g), ~Remove(g)
  PROVE  UNCHANGED items
BY PointerMoves DEF PointerMove, Rests, Keeps, Takes

LEMMA ReaderMoves ==
  ASSUME TypeOK, LockInv, NEW g \in Goroutines, StepOf(g), LockOf(g)', At(g, "read")'
  PROVE  RLock(g) \/ \E k \in Keys : Visit(g, k)
<1>1. CASE At(g, "read")
  <2>1. RUnlock(g) \/ \E k \in Keys : Visit(g, k)
    BY <1>1 DEF StepOf, Begin, Make, Mutate, CallWrite, CallRead, TakeLock, Lock, Locked,
                RLock, Proceed, CheckFails, CopyIn, BumpAndStamp, Put, Remove, BumpOnDelete,
                ReturnCopy, At
  <2>2. ~RUnlock(g)
    BY ReturnMoves DEF RUnlock, At
  <2> QED BY <2>1, <2>2
<1>2. CASE ~At(g, "read")
  <2>1. g \notin readers /\ g \in readers'
    BY <1>2 DEF LockInv, LockOf
  <2> QED BY <1>2, <2>1
          DEF StepOf, Begin, Make, Mutate, CallWrite, CallRead, Local, TakeLock, Lock, Locked,
              Proceed, CheckFails, CopyIn, BumpAndStamp, Put, Remove, BumpOnDelete,
              ReturnCopy, RUnlock, At
<1> QED BY <1>1, <1>2

LEMMA SnapshotStep ==
  ASSUME TypeOK, LockInv, CallInv, ApartInv, ListIsSnapshot,
         NEW g \in Goroutines, StepOf(g), LockInv'
  PROVE  ListIsSnapshot'
<1>1. CASE Put(g) \/ Remove(g)
  <2>1. readers = {} /\ UNCHANGED readers
    BY <1>1 DEF Put, Remove, LockInv, LockOf, At, Exclusive
  <2> QED BY <2>1 DEF LockInv, LockOf, ListIsSnapshot
<1>2. CASE ~Put(g) /\ ~Remove(g)
  <2>1. \A k \in Keys : Content(k)' = Content(k)
    BY <1>2, MapMoves, ContentStays
  <2>2. ASSUME NEW h \in Goroutines \ {g}, At(h, "read")', NEW k \in Keys
        PROVE  call'[h].out[k] \in {Nil, Content(k)'}
    <3>1. call'[h] = call[h]
      BY OthersKeep
    <3> QED BY <2>1, <2>2, <3>1 DEF ListIsSnapshot, At
  <2>3. ASSUME At(g, "read")', NEW k \in Keys
        PROVE  call'[g].out[k] \in {Nil, Content(k)'}
    <3>1. CASE RLock(g)
      <4>1. call[g].out = [l \in Keys |-> Nil]
        BY <3>1 DEF RLock, CallInv, CallOf
      <4>2. call'[g].out = call[g].out
        BY <3>1, GoReader DEF RLock, At, ReadPlaces
      <4> QED BY <4>1, <4>2
    <3>2. ASSUME NEW l \in Keys, Visit(g, l)
          PROVE  call'[g].out[k] \in {Nil, Content(k)'}
      <4>1. At(g, "read") /\ Visited(g, l)
        BY <3>2 DEF Visit
      <4>2. CASE k = l
        BY <2>1, <4>1, <4>2, VisitMoves
      <4>3. CASE k # l
        <5>1. call'[g].out[k] = call[g].out[k]
          BY <4>1, <4>3, VisitMoves
        <5> QED BY <2>1, <4>1, <5>1 DEF ListIsSnapshot
      <4> QED BY <4>2, <4>3
    <3>3. LockOf(g)'
      BY DEF LockInv
    <3> QED BY <2>3, <3>1, <3>2, <3>3, ReaderMoves
  <2> QED BY <2>2, <2>3 DEF ListIsSnapshot, At
<1> QED BY <1>1, <1>2

-----------------------------------------------------------------------------
(* The invariant is inductive *)

LEMMA HeapInit == Init => HeapInv
<1> SUFFICES ASSUME Init PROVE HeapInv
  OBVIOUS
<1>1. TypeOK
  BY TypeInit
<1>2. LockInv /\ CallInv /\ PrivateInv
  BY DEF Init, NoCall, LockInv, LockOf, CallInv, CallOf, PrivateInv, Private, At,
         Exclusive, ObjPlaces
<1>3. NoAliasing /\ ListIsSnapshot
  BY DEF Init, NoCall, NoAliasing, ListIsSnapshot, At
<1> QED BY <1>1, <1>2, <1>3 DEF HeapInv

LEMMA HeapStep == HeapInv /\ [Next]_vars => HeapInv'
<1> SUFFICES ASSUME HeapInv, [Next]_vars PROVE HeapInv'
  OBVIOUS
<1>1. TypeOK' /\ LockInv' /\ CallInv'
  BY TypeStep, LockStep, CallStep DEF HeapInv
<1>2. CASE UNCHANGED vars
  <2>1. NoAliasing' /\ PrivateInv' /\ ListIsSnapshot'
    BY <1>2 DEF HeapInv, vars, fields, heap, NoAliasing, PrivateInv, Private, Apart,
                ListIsSnapshot, Content, Object, At
  <2> QED BY <1>1, <2>1 DEF HeapInv
<1>3. CASE Next
  <2>1. PICK g \in Goroutines : StepOf(g)
    BY <1>3 DEF Next, StepOf
  <2>2. ApartInv'
    BY <2>1, ApartStep DEF HeapInv, ApartInv
  <2>3. ListIsSnapshot'
    BY <1>1, <2>1, SnapshotStep DEF HeapInv, ApartInv
  <2> QED BY <1>1, <2>2, <2>3 DEF HeapInv, ApartInv
<1> QED BY <1>2, <1>3

LEMMA HeapInvariant == Spec => []HeapInv
BY HeapInit, HeapStep, PTL DEF Spec

-----------------------------------------------------------------------------
(* The methods implement the steps of Store *)

AItems == [k \in Keys |-> Content(k)]
ARv == IF Ahead THEN rv - 1 ELSE IF Behind THEN rv + 1 ELSE rv

LEMMA AbstractInit == Init => Abstract!Init
<1> SUFFICES ASSUME Init PROVE Abstract!Init
  OBVIOUS
<1>1. ~Ahead /\ ~Behind
  BY DEF Init, NoCall, Ahead, Behind, At
<1>2. \A k \in Keys : Content(k) = Absent
  BY DEF Init, Content
<1> QED BY <1>1, <1>2 DEF Init, Abstract!Init

LEMMA AbstractStutters ==
  ASSUME AItems' = AItems, ARv' = ARv
  PROVE  UNCHANGED Abstract!vars
BY DEF AItems, ARv, Abstract!vars

LEMMA AbstractWrites ==
  ASSUME NEW k \in Keys, NEW d \in Data, ARv' = ARv + 1,
         AItems' = IF d \in Opaque THEN AItems
                                   ELSE [AItems EXCEPT ![k] = [rv |-> ARv + 1, data |-> d]]
  PROVE  Abstract!Next
<1>1. Abstract!Write(k, d)
  BY DEF AItems, ARv, Abstract!Write
<1>2. Abstract!Create(k, d) \/ Abstract!Update(k, d)
  BY <1>1 DEF Abstract!Create, Abstract!Update
<1> QED BY <1>2 DEF Abstract!Next

LEMMA AbstractDeletes ==
  ASSUME NEW k \in Keys, AItems[k] # Absent, ARv' = ARv + 1,
         AItems' = [AItems EXCEPT ![k] = Absent]
  PROVE  Abstract!Next
<1>1. Abstract!Delete(k)
  BY DEF AItems, ARv, Abstract!Delete, Abstract!Has
<1> QED BY <1>1 DEF Abstract!Next

\* A stored object is one.
LEMMA StoredIsThere ==
  ASSUME TypeOK, NEW k \in Keys, items[k] # Absent
  PROVE  AItems[k] # Absent
<1>1. Object(items[k]) \in Objects
  BY DEF TypeOK, Object, Objects
<1>2. Absent \notin Objects
  BY StoreHeapAssumption
<1> QED BY <1>1, <1>2 DEF AItems, Content

\* In a critical section the counter is corrected for nobody else.
LEMMA CorrectionAlone ==
  ASSUME LockInv, NEW g \in Goroutines, call[g].at \in Exclusive
  PROVE  /\ \A h \in Goroutines \ {g} : call[h].at \notin Exclusive
         /\ Ahead <=> At(g, "put")
         /\ Behind <=> At(g, "bump")
BY DEF LockInv, LockOf, Exclusive, Ahead, Behind, At

\* After its step too.
LEMMA CorrectionAfter ==
  ASSUME TypeOK, LockInv, NEW g \in Goroutines, StepOf(g), call[g].at \in Exclusive
  PROVE  /\ Ahead' <=> call'[g].at = "put"
         /\ Behind' <=> call'[g].at = "bump"
BY CorrectionAlone, OthersKeep DEF Ahead, Behind, At, Exclusive

LEMMA CorrectionStays ==
  ASSUME TypeOK, NEW g \in Goroutines, StepOf(g), rv' = rv,
         call[g].at \notin {"put", "bump"}, call'[g].at \notin {"put", "bump"}
  PROVE  ARv' = ARv
<1>1. Ahead' <=> Ahead
  BY OthersKeep DEF Ahead, At
<1>2. Behind' <=> Behind
  BY OthersKeep DEF Behind, At
<1> QED BY <1>1, <1>2 DEF ARv

LEMMA ItemsStay ==
  ASSUME TypeOK, CallInv, ApartInv, NEW g \in Goroutines, StepOf(g), ~Put(g), ~Remove(g)
  PROVE  AItems' = AItems
BY MapMoves, ContentStays DEF AItems

\* All other steps leave the counter, and what is to be corrected of it, alone.
LEMMA QuietSteps ==
  ASSUME TypeOK, NEW g \in Goroutines, StepOf(g),
         ~BumpAndStamp(g), ~Put(g), ~Remove(g), ~BumpOnDelete(g)
  PROVE  ARv' = ARv
<1> USE DEF At
<1> SUFFICES rv' = rv /\ call[g].at \notin {"put", "bump"} /\ call'[g].at \notin {"put", "bump"}
  BY CorrectionStays
<1>1. CASE Make(g) \/ Mutate(g)
  BY <1>1 DEF Make, Mutate, fields
<1>2. ASSUME NEW op \in WriteOps, NEW k \in Keys, CallWrite(g, op, k)
      PROVE  /\ rv' = rv
             /\ call[g].at \notin {"put", "bump"} /\ call'[g].at \notin {"put", "bump"}
  <2>1. call'[g].at = "lock"
    BY <1>2 DEF CallWrite, TypeOK
  <2> QED BY <1>2, <2>1 DEF CallWrite, Local, fields
<1>3. ASSUME NEW K \in SUBSET Keys, CallRead(g, K)
      PROVE  /\ rv' = rv
             /\ call[g].at \notin {"put", "bump"} /\ call'[g].at \notin {"put", "bump"}
  <2>1. call'[g].at = "rlock"
    BY <1>3 DEF CallRead, TypeOK
  <2> QED BY <1>3, <2>1 DEF CallRead, Local, fields
<1>4. CASE Lock(g) \/ Locked(g)
  <2>1. call'[g].at \in {"wait", "check"}
    BY <1>4, GoWriter DEF Lock, Locked, WritePlaces
  <2> QED BY <1>4, <2>1 DEF Lock, Locked, Local, fields
<1>5. CASE RLock(g)
  <2>1. call'[g].at = "read"
    BY <1>5, GoReader DEF RLock, ReadPlaces
  <2> QED BY <1>5, <2>1 DEF RLock, fields
<1>6. CASE CheckFails(g) \/ ReturnCopy(g) \/ RUnlock(g)
  <2>1. call'[g].at = "idle"
    BY <1>6, ReturnMoves DEF CheckFails, ReturnError, ReturnCopy, RUnlock
  <2> QED BY <1>6, <2>1 DEF CheckFails, ReturnCopy, RUnlock, fields
<1>7. CASE CopyIn(g)
  <2>1. call'[g].at = "stamp"
    BY <1>7, CopyInTakes DEF InHand
  <2> QED BY <1>7, <2>1 DEF CopyIn, fields
<1>8. ASSUME NEW k \in Keys, Visit(g, k)
      PROVE  /\ rv' = rv
             /\ call[g].at \notin {"put", "bump"} /\ call'[g].at \notin {"put", "bump"}
  <2>1. call'[g].at = "read"
    BY <1>8, VisitMoves DEF Visit
  <2> QED BY <1>8, <2>1 DEF Visit, fields
<1> QED BY <1>1, <1>2, <1>3, <1>4, <1>5, <1>6, <1>7, <1>8
        DEF StepOf, Begin, TakeLock, Proceed, WriteOps

LEMMA AbstractStep ==
  ASSUME HeapInv, [Next]_vars
  PROVE  [Abstract!Next]_(Abstract!vars)
<1> USE DEF At
<1>1. CASE UNCHANGED vars
  <2>1. AItems' = AItems /\ ARv' = ARv
    BY <1>1 DEF vars, fields, heap, AItems, ARv, Content, Object, Ahead, Behind
  <2> QED BY <2>1, AbstractStutters
<1>2. CASE Next
  <2>1. PICK g \in Goroutines : StepOf(g)
    BY <1>2 DEF Next, StepOf
  <2>2. TypeOK /\ LockInv /\ CallInv /\ ApartInv /\ rv \in Nat
    BY DEF HeapInv, ApartInv, TypeOK
  <2>3. call[g].at \in Exclusive =>
          /\ Ahead <=> call[g].at = "put"
          /\ Behind <=> call[g].at = "bump"
          /\ Ahead' <=> call'[g].at = "put"
          /\ Behind' <=> call'[g].at = "bump"
    BY <2>1, <2>2, CorrectionAlone, CorrectionAfter
  <2>4. call[g].at \in WritePlaces => call[g].key \in Keys
    BY <2>2, CallKinds, WriteFields
  <2>5. CASE BumpAndStamp(g)
    <3>1. /\ call[g].at = "stamp" /\ call[g].at \in Exclusive /\ call[g].at \in WritePlaces
          /\ rv' = rv + 1
      BY <2>5 DEF BumpAndStamp, Exclusive, WritePlaces
    <3>2. AItems' = AItems
      BY <2>1, <2>2, <3>1, ItemsStay DEF Put, Remove
    <3>3. CASE ReturnError(g)
      <4>1. call'[g].at = "idle"
        BY <2>2, <3>3, ReturnMoves DEF ReturnError
      <4>2. ARv' = ARv + 1
        BY <2>3, <3>1, <4>1 DEF ARv
      <4>3. call[g].obj \in Addresses
        BY <2>2, <3>1 DEF CallInv, CallOf, ObjPlaces
      <4>4. Object(call[g].obj).data \in Data
        BY <2>2, <4>3 DEF TypeOK, Object
      <4>5. Object(call[g].obj).data \in Opaque
        <5>1. ~Go(g, "put")
          BY <2>2, <3>1, <4>1, GoWriter
        <5> QED BY <2>5, <5>1 DEF BumpAndStamp
      <4> QED BY <2>4, <3>1, <3>2, <4>2, <4>4, <4>5, AbstractWrites
    <3>4. CASE ~ReturnError(g)
      <4>1. call'[g].at = "put"
        BY <2>2, <2>5, <3>4, Stamped
      <4>2. ARv' = ARv
        BY <2>2, <2>3, <3>1, <4>1 DEF ARv
      <4> QED BY <3>2, <4>2, AbstractStutters
    <3> QED BY <3>3, <3>4
  <2>6. CASE Put(g)
    <3>1. /\ call[g].at = "put" /\ call[g].at \in Exclusive /\ call[g].at \in WritePlaces
          /\ Go(g, "copy") /\ UNCHANGED <<rv, heap>>
      BY <2>6 DEF Put, Exclusive, WritePlaces
    <3>2. call'[g].at = "copy"
      BY <2>2, <3>1, GoWriter
    <3>3. ARv = rv - 1 /\ ARv' = rv /\ ARv' = ARv + 1
      BY <2>2, <2>3, <3>1, <3>2 DEF ARv
    <3> DEFINE k == call[g].key
               a == call[g].obj
    <3>4. k \in Keys /\ a \in Addresses /\ Object(a).data \notin Opaque /\ Object(a).rv = rv
      BY <2>2, <2>4, <3>1 DEF CallInv, CallOf, ObjPlaces, Object
    <3>5. Object(a).data \in Data /\ Object(a) = [rv |-> rv, data |-> Object(a).data]
      BY <2>2, <3>4 DEF TypeOK, Object
    <3>6. items' = [items EXCEPT ![k] = a] /\ a # Absent
      BY <2>6, <3>4, StoreHeapAssumption DEF Put
    <3>7. \A l \in Keys : Content(l)' = IF l = k THEN Object(a) ELSE Content(l)
      BY <2>2, <3>1, <3>6 DEF Content, Object, heap, TypeOK
    <3>8. AItems' = [AItems EXCEPT ![k] = Object(a)]
      BY <3>4, <3>7 DEF AItems
    <3>9. AItems' = [AItems EXCEPT ![k] = [rv |-> ARv + 1, data |-> Object(a).data]]
      BY <3>3, <3>5, <3>8
    <3> HIDE DEF k, a
    <3> QED BY <3>3, <3>4, <3>5, <3>9, AbstractWrites
  <2>7. CASE Remove(g)
    <3>1. /\ call[g].at = "check" /\ call[g].at \in Exclusive /\ call[g].at \in WritePlaces
          /\ UNCHANGED <<rv, heap>>
      BY <2>7 DEF Remove, Exclusive, WritePlaces
    <3>2. call'[g].at = "bump"
      BY <2>2, <2>7, RemoveTakes DEF InHand
    <3>3. ARv' = ARv + 1
      BY <2>2, <2>3, <3>1, <3>2 DEF ARv
    <3> DEFINE k == call[g].key
    <3>4. k \in Keys /\ AItems[k] # Absent
      BY <2>2, <2>4, <2>7, <3>1, StoredIsThere DEF Remove, Occupied
    <3>5. items' = [items EXCEPT ![k] = Absent]
      BY <2>7 DEF Remove
    <3>6. \A l \in Keys : Content(l)' = IF l = k THEN Absent ELSE Content(l)
      BY <2>2, <3>1, <3>5 DEF Content, Object, heap, TypeOK
    <3>7. AItems' = [AItems EXCEPT ![k] = Absent]
      BY <3>4, <3>6 DEF AItems
    <3> HIDE DEF k
    <3> QED BY <3>3, <3>4, <3>7, AbstractDeletes
  <2>8. CASE BumpOnDelete(g)
    <3>1. /\ call[g].at = "bump" /\ call[g].at \in Exclusive /\ call[g].at \in WritePlaces
          /\ rv' = rv + 1 /\ Go(g, "copy")
      BY <2>8 DEF BumpOnDelete, Exclusive, WritePlaces
    <3>2. call'[g].at = "copy"
      BY <2>2, <3>1, GoWriter
    <3>3. ARv' = ARv
      BY <2>3, <3>1, <3>2 DEF ARv
    <3>4. AItems' = AItems
      BY <2>1, <2>2, <3>1, ItemsStay DEF Put, Remove
    <3> QED BY <3>3, <3>4, AbstractStutters
  <2>9. CASE ~BumpAndStamp(g) /\ ~Put(g) /\ ~Remove(g) /\ ~BumpOnDelete(g)
    BY <2>1, <2>2, <2>9, ItemsStay, QuietSteps, AbstractStutters
  <2> QED BY <2>5, <2>6, <2>7, <2>8, <2>9
<1> QED BY <1>1, <1>2

-----------------------------------------------------------------------------
(* Theorems *)

\* store.go, all methods: goroutines, locks and addresses are always what
\* Store's fields and Go's types say, and every object in hand is allocated.
THEOREM HeapTypeCorrect == Spec => []TypeOK
BY HeapInvariant, PTL DEF HeapInv

\* store.go, DeepCopyObject on the way in and on the way out: whatever the
\* number of goroutines, keys and addresses, nothing a caller keeps, and may
\* change without the lock, is part of a stored object.
THEOREM HeapNoAliasing == Spec => []NoAliasing
BY HeapInvariant, PTL DEF HeapInv

\* store.go, List under RLock: what an iteration has copied and what it has
\* yet to copy are parts of one state of the map.
THEOREM HeapListIsSnapshot == Spec => []ListIsSnapshot
BY HeapInvariant, PTL DEF HeapInv

\* store.go, Lock and defer Unlock in every method: with all goroutines
\* interleaved statement by statement, the map and the counter change as
\* Store, whose methods are single steps, says.
THEOREM HeapImplementsStore == Spec => ImplementsStore
<1>1. Init => Abstract!Init
  BY AbstractInit
<1>2. HeapInv /\ [Next]_vars => [Abstract!Next]_(Abstract!vars)
  BY AbstractStep
<1> QED BY <1>1, <1>2, HeapInvariant, PTL DEF Spec, ImplementsStore, Abstract!Spec
=============================================================================
