------------------------- MODULE TaskRegistryProofs -------------------------
(***************************************************************************)
(* Theorems about TaskRegistry, for every set of clients, keys and bodies  *)
(* and without the bounds of the checked instances.                        *)
(***************************************************************************)
EXTENDS TaskRegistry, TLAPS

USE TaskStrategyAssumption, TaskRegistryAssumption

-----------------------------------------------------------------------------
(* What the strategy makes of a task is a task *)

LEMMA FilledIsTask ==
  ASSUME NEW t \in Tasks, NEW u \in Nat
  PROVE  /\ FillObjectMetaSystemFields(t, u) \in Tasks
         /\ FillObjectMetaSystemFields(t, u).uid = u
BY DEF FillObjectMetaSystemFields, Tasks

LEMMA EmptyStatusIsStatus == EmptyStatus \in Statuses
BY DEF EmptyStatus, Statuses

\* Field by field: replacing the status and the generation leaves the rest.
LEMMA ServerFields ==
  ASSUME NEW t \in Tasks, NEW s \in Statuses, NEW n \in Int
  PROVE  /\ WithServerFields(t, s, n) \in Tasks
         /\ WithServerFields(t, s, n).uid = t.uid
         /\ WithServerFields(t, s, n).label = t.label
         /\ WithServerFields(t, s, n).spec = t.spec
         /\ WithServerFields(t, s, n).gen = n
         /\ WithServerFields(t, s, n).status = s
<1> DEFINE q == [t EXCEPT !.status = s]
           r == [q EXCEPT !.gen = n]
<1>1. /\ q \in Tasks
      /\ q.uid = t.uid /\ q.label = t.label /\ q.spec = t.spec /\ q.status = s
  BY DEF Tasks
<1>2. /\ r \in Tasks /\ r.gen = n
      /\ r.uid = q.uid /\ r.label = q.label /\ r.spec = q.spec /\ r.status = q.status
  BY <1>1 DEF Tasks
<1>3. QED
  BY <1>1, <1>2 DEF WithServerFields

LEMMA CreatedIsTask ==
  ASSUME NEW t \in Tasks
  PROVE  /\ BeforeCreate(t) \in Tasks
         /\ BeforeCreate(t).uid = t.uid
         /\ BeforeCreate(t).label = t.label
         /\ BeforeCreate(t).spec = t.spec
         /\ BeforeCreate(t).gen = 1
         /\ BeforeCreate(t).status = EmptyStatus
BY EmptyStatusIsStatus, ServerFields DEF BeforeCreate, PrepareForCreate

LEMMA UpdatedIsTask ==
  ASSUME NEW view, NEW new \in Tasks, NEW old \in Tasks
  PROVE  BeforeUpdate(view, new, old) \in Tasks
<1>1. StatusPrepareForUpdate(new, old) \in Tasks
  BY DEF StatusPrepareForUpdate, Tasks
<1>2. PrepareForUpdate(new, old) \in Tasks
  <2>1. old.status \in Statuses /\ old.gen \in Int /\ old.gen + 1 \in Int
    BY DEF Tasks
  <2>2. QED
    BY <2>1, ServerFields DEF PrepareForUpdate
<1>3. ASSUME NEW t \in Tasks
      PROVE  KeepUID(t, old) \in Tasks
  BY DEF KeepUID, Tasks
<1>4. QED
  BY <1>1, <1>2, <1>3 DEF BeforeUpdate

LEMMA UpdatedObjectIsTask ==
  ASSUME NEW method, NEW old \in Tasks, NEW t \in Tasks
  PROVE  UpdatedObject(method, old, t) \in Tasks
BY DEF UpdatedObject, Tasks

LEMMA StoredIsTask ==
  ASSUME TypeOK, NEW k \in Keys, S!Has(k)
  PROVE  items[k].data \in Tasks /\ items[k].rv \in Nat
BY DEF TypeOK, S!TypeOK, S!Objects, S!Has

-----------------------------------------------------------------------------
(* Types *)

LEMMA AnswerType ==
  ASSUME NEW code \in Codes, Answer(code)
  PROVE  reply' \in [code : Codes, rv : Nat, keys : SUBSET Keys]
BY DEF Answer, NoReply

LEMMA AnswerOnlyType ==
  ASSUME TypeOK, NEW code \in Codes, AnswerOnly(code)
  PROVE  TypeOK'
<1>1. reply' \in [code : Codes, rv : Nat, keys : SUBSET Keys]
  BY AnswerType DEF AnswerOnly
<1>2. QED
  BY <1>1 DEF AnswerOnly, TypeOK, S!TypeOK

LEMMA SuspendType ==
  ASSUME TypeOK, NEW c \in Clients, NEW j \in Jobs, Suspend(c, j), uids' \in Nat
  PROVE  TypeOK'
<1>1. reply' \in [code : Codes, rv : Nat, keys : SUBSET Keys]
  BY DEF Suspend, NoReply, Codes
<1>2. job' \in [Clients -> Jobs]
  BY DEF Suspend, TypeOK
<1>3. QED
  BY <1>1, <1>2 DEF Suspend, TypeOK, S!TypeOK

LEMMA ReturnType ==
  ASSUME TypeOK, NEW c \in Clients, NEW code \in Codes, Return(c, code), S!TypeOK'
  PROVE  TypeOK'
<1>1. reply' \in [code : Codes, rv : Nat, keys : SUBSET Keys]
  BY AnswerType DEF Return
<1>2. job' \in [Clients -> Jobs]
  BY DEF Return, TypeOK, Jobs
<1>3. QED
  BY <1>1, <1>2 DEF Return, TypeOK

LEMMA StoreWriteType ==
  ASSUME S!TypeOK, NEW k \in Keys, NEW t \in Tasks, S!Write(k, t)
  PROVE  S!TypeOK'
<1>1. [rv |-> rv + 1, data |-> t] \in S!Objects
  BY DEF S!TypeOK, S!Objects
<1>2. QED
  BY <1>1 DEF S!TypeOK, S!Write

LEMMA StoreDeleteType ==
  ASSUME S!TypeOK, NEW k \in Keys, S!Delete(k)
  PROVE  S!TypeOK'
BY DEF S!TypeOK, S!Delete

\* The op of a job tells which fields it has.
LEMMA JobKinds ==
  ASSUME TypeOK, NEW c \in Clients
  PROVE  /\ job[c].op = "update" => job[c] \in UpdateJobs
         /\ job[c].op = "create" => job[c] \in CreateJobs
         /\ job[c].op = "delete" => job[c] \in DeleteJobs
<1>1. job[c] \in Jobs
  BY DEF TypeOK
<1>2. QED
  BY <1>1 DEF Jobs, NoJob, UpdateJobs, CreateJobs, DeleteJobs, ListJobs

LEMMA UpdateJobFields ==
  ASSUME NEW j \in UpdateJobs
  PROVE  j.key \in Keys /\ j.task \in Tasks /\ j.view \in Views
BY DEF UpdateJobs

LEMMA CreateJobFields ==
  ASSUME NEW j \in CreateJobs
  PROVE  j.key \in Keys /\ j.task \in Tasks /\ j.view \in Views
BY DEF CreateJobs

LEMMA DeleteJobFields ==
  ASSUME NEW j \in DeleteJobs
  PROVE  j.key \in Keys
BY DEF DeleteJobs

\* The actions, with the types of their arguments: requests that clients may
\* send, whether or not they are among Bodies.
AnyNext ==
  \/ Restart
  \/ \E c \in Clients, k \in Keys : Get(c, k)
  \/ \E c \in Clients : \E ns, selector : List(c, ns, selector)
  \/ \E c \in Clients : ListCurrentResourceVersion(c)
  \/ \E c \in Clients : Refuse(c)
  \/ \E c \in Clients, k \in Keys, t \in Tasks : Create(c, k, t)
  \/ \E c \in Clients, view \in Views, method \in Methods, k \in Keys,
        t \in Tasks : UpdateMissing(c, view, method, k, t)
  \/ \E c \in Clients : CreateOnUpdate(c)
  \/ \E c \in Clients, view \in Views, method \in Methods, k \in Keys,
        t \in Tasks, v \in Nat : UpdateExisting(c, view, method, k, t, v)
  \/ \E c \in Clients : UpdateStore(c)
  \/ \E c \in Clients, k \in Keys, v \in Nat, uid \in Nat : Delete(c, k, v, uid)
  \/ \E c \in Clients : DeleteFromStore(c)

LEMMA WriteIsAny ==
  ASSUME TypeOK, NEW c \in Clients, NEW views \in SUBSET Views, WriteThrough(c, views)
  PROVE  AnyNext
<1>1. \A t \in Bodies : t \in Tasks
  BY TaskRegistryAssumption
<1>2. \A t \in Bodies, uid \in 0 .. uids : [t EXCEPT !.uid = uid] \in Tasks
  BY <1>1 DEF TypeOK, Tasks
<1>3. 0 .. rv \subseteq Nat /\ 0 .. uids \subseteq Nat
  BY DEF TypeOK, S!TypeOK
<1>4. "put" \in Methods
  BY DEF Methods
<1>5. QED
  BY <1>1, <1>2, <1>3, <1>4 DEF WriteThrough, AnyNext

LEMMA NextIsAny ==
  ASSUME TypeOK, Next
  PROVE  AnyNext
<1>1. ASSUME NEW c \in Clients, Read(c)
      PROVE  AnyNext
  BY <1>1 DEF Read, AnyNext
<1>2. ASSUME NEW c \in Clients, Write(c)
      PROVE  AnyNext
  BY <1>2, WriteIsAny DEF Write
<1>3. ASSUME NEW c \in Clients, Proceed(c)
      PROVE  AnyNext
  BY <1>3 DEF Proceed, AnyNext
<1>4. CASE Restart
  BY <1>4 DEF AnyNext
<1>5. QED
  BY <1>1, <1>2, <1>3, <1>4 DEF Next

LEMMA TypeStep ==
  ASSUME TypeOK, [AnyNext]_vars
  PROVE  TypeOK'
<1>1. CASE Restart
  <2>1. S!TypeOK'
    BY <1>1 DEF Restart, S!New, S!TypeOK
  <2>2. reply' \in [code : Codes, rv : Nat, keys : SUBSET Keys]
    BY <1>1 DEF Restart, NoReply, Codes
  <2>3. QED
    BY <1>1, <2>1, <2>2 DEF Restart, TypeOK, Jobs
<1>2. ASSUME NEW c \in Clients, NEW k \in Keys, Get(c, k)
      PROVE  TypeOK'
  BY <1>2, AnswerOnlyType DEF Get, Codes
<1>3. ASSUME NEW c \in Clients, NEW ns, NEW selector, List(c, ns, selector)
      PROVE  TypeOK'
  <2> DEFINE matched == Matches(ns, selector)
  <2>1. CASE Suspend(c, [op |-> "list"]) /\ UNCHANGED uids
    <3>1. [op |-> "list"] \in Jobs /\ uids' \in Nat
      BY <2>1 DEF Jobs, ListJobs, TypeOK
    <3>2. QED
      BY <2>1, <3>1, SuspendType
  <2>2. ASSUME NEW newest \in matched,
               reply' = [code |-> "OK", rv |-> items[newest].rv, keys |-> matched],
               UNCHANGED <<items, rv, uids, job, epoch>>
        PROVE  TypeOK'
    <3>1. newest \in Keys /\ S!Has(newest) /\ matched \subseteq Keys
      BY DEF Matches, S!List, S!Stored, S!Has
    <3>2. items[newest].rv \in Nat
      BY <3>1, StoredIsTask
    <3>3. reply' \in [code : Codes, rv : Nat, keys : SUBSET Keys]
      BY <2>2, <3>1, <3>2 DEF Codes
    <3>4. QED
      BY <2>2, <3>3 DEF TypeOK, S!TypeOK
  <2>3. QED
    BY <1>3, <2>1, <2>2 DEF List
<1>4. ASSUME NEW c \in Clients, ListCurrentResourceVersion(c)
      PROVE  TypeOK'
  <2>1. reply' \in [code : Codes, rv : Nat, keys : SUBSET Keys]
    BY <1>4 DEF ListCurrentResourceVersion, S!CurrentResourceVersion, TypeOK,
                S!TypeOK, Codes
  <2>2. job' \in [Clients -> Jobs]
    BY <1>4 DEF ListCurrentResourceVersion, TypeOK, Jobs
  <2>3. QED
    BY <1>4, <2>1, <2>2 DEF ListCurrentResourceVersion, TypeOK, S!TypeOK
<1>5. ASSUME NEW c \in Clients, Refuse(c)
      PROVE  TypeOK'
  BY <1>5, AnswerOnlyType DEF Refuse, Codes
<1>6. ASSUME NEW c \in Clients, NEW k \in Keys, NEW t \in Tasks, Create(c, k, t)
      PROVE  TypeOK'
  <2> DEFINE new == FillObjectMetaSystemFields(t, uids + 1)
  <2>1. BeforeCreate(new) \in Tasks
    BY FilledIsTask, CreatedIsTask DEF TypeOK
  <2>2. ASSUME NEW code \in Codes, AnswerOnly(code)
        PROVE  TypeOK'
    BY <2>2, AnswerOnlyType
  <2>3. CASE /\ S!Create(k, BeforeCreate(new))
             /\ uids' = uids + 1
             /\ Answer("Created")
             /\ UNCHANGED <<job, epoch>>
    <3>1. S!TypeOK'
      BY <2>1, <2>3, StoreWriteType DEF S!Create, TypeOK
    <3>2. reply' \in [code : Codes, rv : Nat, keys : SUBSET Keys]
      BY <2>3, AnswerType DEF Codes
    <3>3. QED
      BY <2>3, <3>1, <3>2 DEF TypeOK
  <2>4. QED
    BY <1>6, <2>2, <2>3 DEF Create, Codes
<1>7. ASSUME NEW c \in Clients, NEW view \in Views, NEW method \in Methods,
             NEW k \in Keys, NEW t \in Tasks, UpdateMissing(c, view, method, k, t)
      PROVE  TypeOK'
  <2> DEFINE new == FillObjectMetaSystemFields(t, uids + 1)
             j == [op |-> "create", view |-> view, key |-> k,
                   task |-> BeforeCreate(new)]
  <2>1. BeforeCreate(new) \in Tasks
    BY FilledIsTask, CreatedIsTask DEF TypeOK
  <2>2. ASSUME NEW code \in Codes, AnswerOnly(code)
        PROVE  TypeOK'
    BY <2>2, AnswerOnlyType
  <2>3. CASE uids' = uids + 1 /\ Suspend(c, j)
    <3>1. j \in Jobs /\ uids' \in Nat
      BY <2>1, <2>3 DEF Jobs, CreateJobs, TypeOK
    <3>2. QED
      BY <2>3, <3>1, SuspendType
  <2>4. QED
    BY <1>7, <2>2, <2>3 DEF UpdateMissing, Codes
<1>8. ASSUME NEW c \in Clients, CreateOnUpdate(c)
      PROVE  TypeOK'
  <2>1. job[c].key \in Keys /\ job[c].task \in Tasks
    BY <1>8, JobKinds, CreateJobFields DEF CreateOnUpdate
  <2>2. S!TypeOK'
    BY <1>8, <2>1, StoreWriteType DEF CreateOnUpdate, S!Create, TypeOK, S!TypeOK
  <2>3. QED
    BY <1>8, <2>2, ReturnType DEF CreateOnUpdate, Codes
<1>9. ASSUME NEW c \in Clients, NEW view \in Views, NEW method \in Methods,
             NEW k \in Keys, NEW t \in Tasks, NEW v \in Nat,
             UpdateExisting(c, view, method, k, t, v)
      PROVE  TypeOK'
  <2> DEFINE old == items[k].data
             new == UpdatedObject(method, old, t)
             uid == PreconditionUID(method, t)
             j == [op |-> "update", view |-> view, key |-> k,
                   task |-> BeforeUpdate(view, new, old), rv |-> v, uid |-> uid]
  <2>1. old \in Tasks
    BY <1>9, StoredIsTask DEF UpdateExisting
  <2>2. BeforeUpdate(view, new, old) \in Tasks
    BY <2>1, UpdatedObjectIsTask, UpdatedIsTask
  <2>3. uid \in Nat
    BY DEF PreconditionUID, NoUID, Tasks
  <2>4. ASSUME NEW code \in Codes, AnswerOnly(code)
        PROVE  TypeOK'
    BY <2>4, AnswerOnlyType
  <2>5. CASE UNCHANGED uids /\ Suspend(c, j)
    <3>1. j \in Jobs /\ uids' \in Nat
      BY <2>2, <2>3, <2>5 DEF Jobs, UpdateJobs, TypeOK
    <3>2. QED
      BY <2>5, <3>1, SuspendType
  <2>6. QED
    BY <1>9, <2>4, <2>5 DEF UpdateExisting, Codes
<1>10. ASSUME NEW c \in Clients, UpdateStore(c)
       PROVE  TypeOK'
  <2>1. job[c].key \in Keys /\ job[c].task \in Tasks
    BY <1>10, JobKinds, UpdateJobFields DEF UpdateStore
  <2>2. S!TypeOK'
    BY <1>10, <2>1, StoreWriteType DEF UpdateStore, S!Update, TypeOK, S!TypeOK
  <2>3. QED
    BY <1>10, <2>2, ReturnType DEF UpdateStore, Codes
<1>11. ASSUME NEW c \in Clients, NEW k \in Keys, NEW v \in Nat, NEW uid \in Nat,
              Delete(c, k, v, uid)
       PROVE  TypeOK'
  <2> DEFINE j == [op |-> "delete", key |-> k, rv |-> v, uid |-> uid]
  <2>1. ASSUME NEW code \in Codes, AnswerOnly(code)
        PROVE  TypeOK'
    BY <2>1, AnswerOnlyType
  <2>2. CASE UNCHANGED uids /\ Suspend(c, j)
    <3>1. j \in Jobs /\ uids' \in Nat
      BY <2>2 DEF Jobs, DeleteJobs, TypeOK
    <3>2. QED
      BY <2>2, <3>1, SuspendType
  <2>3. QED
    BY <1>11, <2>1, <2>2 DEF Delete, Codes
<1>12. ASSUME NEW c \in Clients, DeleteFromStore(c)
       PROVE  TypeOK'
  <2>1. job[c].key \in Keys
    BY <1>12, JobKinds, DeleteJobFields DEF DeleteFromStore
  <2>2. S!TypeOK'
    BY <1>12, <2>1, StoreDeleteType DEF DeleteFromStore, TypeOK, S!TypeOK
  <2>3. QED
    BY <1>12, <2>2, ReturnType DEF DeleteFromStore, Codes
<1>13. CASE UNCHANGED vars
  BY <1>13 DEF vars, TypeOK, S!TypeOK
<1>14. QED
  BY <1>1, <1>2, <1>3, <1>4, <1>5, <1>6, <1>7, <1>8, <1>9, <1>10, <1>11, <1>12,
     <1>13 DEF AnyNext

\* The state of the registry stays well typed, whatever requests arrive.
THEOREM RegistryTypeCorrect == Spec => []TypeOK
<1>1. Init => TypeOK
  BY DEF Init, TypeOK, S!Init, S!TypeOK, Jobs, NoReply, Codes
<1>2. TypeOK /\ [Next]_vars => TypeOK'
  BY TypeStep, NextIsAny
<1>3. QED
  BY <1>1, <1>2, PTL DEF Spec

-----------------------------------------------------------------------------
(* The steps sorted by their effect on the Store and on the jobs *)

SetJob(c, j) == job' = [job EXCEPT ![c] = j]

\* Nothing moves but the reply.
NoEffect == UNCHANGED <<items, rv, uids, job>>

\* What a request asks of the object it is to change holds of the one stored.
Met(j) ==
  /\ S!Has(j.key)
  /\ j.rv \in {NoRV, items[j.key].rv}
  /\ j.uid \in {NoUID, items[j.key].data.uid}

\* A handler stops that carries no task: a list or a delete.
SuspendBare ==
  \E c \in Clients, j \in ListJobs \cup DeleteJobs :
    /\ j.op = "delete" => Met(j)
    /\ SetJob(c, j)
    /\ UNCHANGED <<items, rv, uids>>

\* A handler stops with a new task in its hands.
SuspendCreate ==
  \E c \in Clients, j \in CreateJobs, t \in Tasks :
    /\ t.uid = uids + 1
    /\ BeforeCreateAccepts(t)
    /\ j.task = BeforeCreate(t)
    /\ SetJob(c, j)
    /\ uids' = uids + 1
    /\ UNCHANGED <<items, rv>>

\* A handler stops with an updated task in its hands.
SuspendUpdate ==
  \E c \in Clients, j \in UpdateJobs, new \in Tasks :
    /\ Met(j)
    /\ BeforeUpdateAccepts(j.view, new, items[j.key].data)
    /\ j.task = BeforeUpdate(j.view, new, items[j.key].data)
    /\ SetJob(c, j)
    /\ UNCHANGED <<items, rv, uids>>

\* REST.Create stores a task.
StoreNew ==
  \E k \in Keys, t \in Tasks :
    /\ t.uid = uids + 1
    /\ BeforeCreateAccepts(t)
    /\ S!Create(k, BeforeCreate(t))
    /\ uids' = uids + 1
    /\ UNCHANGED job

\* A suspended handler stores the task it carries, deletes, or gives up.
StoreCarried ==
  \E c \in Clients :
    /\ \/ job[c].op = "create" /\ S!Create(job[c].key, job[c].task)
       \/ job[c].op = "update" /\ S!Update(job[c].key, job[c].task)
    /\ SetJob(c, NoJob)
    /\ UNCHANGED uids

StoreDelete ==
  \E c \in Clients :
    /\ job[c].op = "delete" /\ job[c].key \in Keys
    /\ S!Delete(job[c].key)
    /\ SetJob(c, NoJob)
    /\ UNCHANGED uids

GiveUp ==
  \E c \in Clients :
    /\ SetJob(c, NoJob)
    /\ job[c].op = "update" => reply'.code # "OK"
    /\ UNCHANGED <<items, rv, uids>>

LEMMA CarriedTask ==
  ASSUME TypeOK, NEW c \in Clients, Carries(c)
  PROVE  job[c].key \in Keys /\ job[c].task \in Tasks
BY JobKinds, UpdateJobFields, CreateJobFields DEF Carries

LEMMA StepEffects ==
  ASSUME TypeOK, [AnyNext]_vars
  PROVE  \/ NoEffect \/ Restart
         \/ SuspendBare \/ SuspendCreate \/ SuspendUpdate
         \/ StoreNew \/ StoreCarried \/ StoreDelete \/ GiveUp
<1>1. ASSUME NEW code, AnswerOnly(code)
      PROVE  NoEffect
  BY <1>1 DEF AnswerOnly, NoEffect
<1>2. ASSUME NEW c \in Clients, NEW k \in Keys, Get(c, k)
      PROVE  NoEffect
  BY <1>1, <1>2 DEF Get
<1>3. ASSUME NEW c \in Clients, NEW ns, NEW selector, List(c, ns, selector)
      PROVE  NoEffect \/ SuspendBare
  <2>1. CASE Suspend(c, [op |-> "list"]) /\ UNCHANGED uids
    <3>1. [op |-> "list"] \in ListJobs /\ [op |-> "list"].op # "delete"
      BY DEF ListJobs
    <3>2. QED
      BY <2>1, <3>1 DEF Suspend, SuspendBare, SetJob
  <2>2. CASE UNCHANGED <<items, rv, uids, job, epoch>>
    BY <2>2 DEF NoEffect
  <2>3. QED
    BY <1>3, <2>1, <2>2 DEF List
<1>4. ASSUME NEW c \in Clients, ListCurrentResourceVersion(c)
      PROVE  GiveUp
  BY <1>4 DEF ListCurrentResourceVersion, GiveUp, SetJob
<1>5. ASSUME NEW c \in Clients, Refuse(c)
      PROVE  NoEffect
  BY <1>1, <1>5 DEF Refuse
<1>6. ASSUME NEW c \in Clients, NEW k \in Keys, NEW t \in Tasks, Create(c, k, t)
      PROVE  NoEffect \/ StoreNew
  <2> DEFINE new == FillObjectMetaSystemFields(t, uids + 1)
  <2>1. new \in Tasks /\ new.uid = uids + 1
    BY FilledIsTask DEF TypeOK
  <2>2. CASE /\ BeforeCreateAccepts(new)
             /\ S!Create(k, BeforeCreate(new))
             /\ uids' = uids + 1
             /\ UNCHANGED <<job, epoch>>
    BY <2>1, <2>2 DEF StoreNew
  <2>3. QED
    BY <1>1, <1>6, <2>2 DEF Create
<1>7. ASSUME NEW c \in Clients, NEW view \in Views, NEW method \in Methods,
             NEW k \in Keys, NEW t \in Tasks, UpdateMissing(c, view, method, k, t)
      PROVE  NoEffect \/ SuspendCreate
  <2> DEFINE new == FillObjectMetaSystemFields(t, uids + 1)
             j == [op |-> "create", view |-> view, key |-> k,
                   task |-> BeforeCreate(new)]
  <2>1. new \in Tasks /\ new.uid = uids + 1
    BY FilledIsTask DEF TypeOK
  <2>2. j \in CreateJobs /\ j.task = BeforeCreate(new)
    BY <2>1, CreatedIsTask DEF CreateJobs
  <2>3. CASE BeforeCreateAccepts(new) /\ uids' = uids + 1 /\ Suspend(c, j)
    BY <2>1, <2>2, <2>3 DEF SuspendCreate, Suspend, SetJob
  <2>4. QED
    BY <1>1, <1>7, <2>3 DEF UpdateMissing
<1>8. ASSUME NEW c \in Clients, CreateOnUpdate(c)
      PROVE  StoreCarried \/ GiveUp
  <2>1. SetJob(c, NoJob) /\ UNCHANGED uids
    BY <1>8 DEF CreateOnUpdate, Return, SetJob
  <2>2. QED
    BY <1>8, <2>1 DEF CreateOnUpdate, StoreCarried, GiveUp
<1>9. ASSUME NEW c \in Clients, NEW view \in Views, NEW method \in Methods,
             NEW k \in Keys, NEW t \in Tasks, NEW v \in Nat,
             UpdateExisting(c, view, method, k, t, v)
      PROVE  NoEffect \/ SuspendUpdate
  <2> DEFINE old == items[k].data
             new == UpdatedObject(method, old, t)
             uid == PreconditionUID(method, t)
             j == [op |-> "update", view |-> view, key |-> k,
                   task |-> BeforeUpdate(view, new, old), rv |-> v, uid |-> uid]
  <2>1. S!Has(k) /\ old \in Tasks
    BY <1>9, StoredIsTask DEF UpdateExisting
  <2>2. new \in Tasks
    BY <2>1, UpdatedObjectIsTask
  <2>3. BeforeUpdate(view, new, old) \in Tasks
    BY <2>1, <2>2, UpdatedIsTask
  <2>4. uid \in Nat
    BY DEF PreconditionUID, NoUID, Tasks
  <2>5. /\ j \in UpdateJobs
        /\ j.view = view /\ j.key = k /\ j.task = BeforeUpdate(view, new, old)
    BY <2>3, <2>4 DEF UpdateJobs
  <2>6. CASE /\ checkPreconditions(items[k], NoRV, uid)
             /\ checkResourceVersion(items[k], UpdatedVersion(method, items[k], v))
             /\ BeforeUpdateAccepts(view, new, old)
             /\ UNCHANGED uids
             /\ Suspend(c, j)
    <3>1. SetJob(c, j) /\ UNCHANGED <<items, rv, uids>>
      BY <2>6 DEF Suspend, SetJob
    <3>2. BeforeUpdateAccepts(j.view, new, items[j.key].data)
      BY <2>5, <2>6
    <3>3. uid \in {NoUID, old.uid} /\ v \in {NoRV, items[k].rv}
      <4> HIDE DEF uid
      <4> QED BY <2>6 DEF checkPreconditions, checkResourceVersion, UpdatedVersion,
                          AllowUnconditionalUpdate
    <3>4. Met(j)
      BY <2>1, <3>3 DEF Met
    <3> HIDE DEF j
    <3>5. QED
      BY <2>2, <2>5, <3>1, <3>2, <3>4 DEF SuspendUpdate
  <2>7. QED
    BY <1>1, <1>9, <2>6 DEF UpdateExisting
<1>10. ASSUME NEW c \in Clients, UpdateStore(c)
       PROVE  StoreCarried \/ GiveUp
  <2>1. SetJob(c, NoJob) /\ UNCHANGED uids
    BY <1>10 DEF UpdateStore, Return, SetJob
  <2>2. Answer("NotFound") => reply'.code # "OK"
    BY DEF Answer, NoReply
  <2>3. QED
    BY <1>10, <2>1, <2>2 DEF UpdateStore, Return, StoreCarried, GiveUp
<1>11. ASSUME NEW c \in Clients, NEW k \in Keys, NEW v \in Nat, NEW uid \in Nat,
              Delete(c, k, v, uid)
       PROVE  NoEffect \/ SuspendBare
  <2> DEFINE j == [op |-> "delete", key |-> k, rv |-> v, uid |-> uid]
  <2>1. j \in DeleteJobs
    BY DEF DeleteJobs
  <2>2. CASE S!Has(k) /\ checkPreconditions(items[k], v, uid) /\ UNCHANGED uids /\ Suspend(c, j)
    <3>1. Met(j)
      BY <2>2 DEF Met, checkPreconditions
    <3>2. QED
      BY <2>1, <2>2, <3>1 DEF SuspendBare, Suspend, SetJob
  <2>3. QED
    BY <1>1, <1>11, <2>2 DEF Delete
<1>12. ASSUME NEW c \in Clients, DeleteFromStore(c)
       PROVE  StoreDelete \/ GiveUp
  <2>1. SetJob(c, NoJob) /\ UNCHANGED uids
    BY <1>12 DEF DeleteFromStore, Return, SetJob
  <2>2. job[c].key \in Keys
    BY <1>12, JobKinds, DeleteJobFields DEF DeleteFromStore
  <2>3. QED
    BY <1>12, <2>1, <2>2 DEF DeleteFromStore, StoreDelete, GiveUp
<1>13. CASE UNCHANGED vars
  BY <1>13 DEF vars, NoEffect
<1>14. QED
  BY <1>2, <1>3, <1>4, <1>5, <1>6, <1>7, <1>8, <1>9, <1>10, <1>11, <1>12, <1>13
     DEF AnyNext

-----------------------------------------------------------------------------
(* The registry uses the Store only through its methods *)

\* Every step of the handlers is a call of one method of the Store or leaves it
\* alone, so whatever holds of every use of a Store holds here.
THEOREM RegistryImplementsStore == Spec => S!Spec
<1>1. Init => S!Init
  BY DEF Init
<1>2. TypeOK /\ [Next]_vars => [S!Next]_(S!vars)
  <2> SUFFICES ASSUME TypeOK, [Next]_vars
               PROVE  [S!Next]_(S!vars)
    OBVIOUS
  <2>1. CASE Restart
    BY <2>1 DEF Restart, S!Next
  <2>2. CASE StoreNew
    <3>1. PICK k \in Keys, t \in Tasks : S!Create(k, BeforeCreate(t))
      BY <2>2 DEF StoreNew
    <3>2. BeforeCreate(t) \in Tasks
      BY CreatedIsTask
    <3>3. QED
      BY <3>1, <3>2 DEF S!Next
  <2>3. CASE StoreCarried
    BY <2>3, CarriedTask DEF StoreCarried, Carries, S!Next
  <2>4. CASE StoreDelete
    BY <2>4 DEF StoreDelete, S!Next
  <2>5. CASE NoEffect \/ SuspendBare \/ SuspendCreate \/ SuspendUpdate \/ GiveUp
    BY <2>5 DEF NoEffect, SuspendBare, SuspendCreate, SuspendUpdate, GiveUp, S!vars
  <2>6. QED
    BY <2>1, <2>2, <2>3, <2>4, <2>5, StepEffects, NextIsAny
<1>3. QED
  BY <1>1, <1>2, RegistryTypeCorrect, PTL DEF Spec, S!Spec

-----------------------------------------------------------------------------
(* Stored tasks are valid *)

\* What passes BeforeCreate may be stored.
LEMMA CreatedIsAcceptable ==
  ASSUME NEW t \in Tasks, BeforeCreateAccepts(t)
  PROVE  Acceptable(BeforeCreate(t))
<1> DEFINE r == BeforeCreate(t)
<1>1. r.gen = 1 /\ r.status = EmptyStatus
  BY CreatedIsTask
<1>2. r.label \in ValidLabels /\ r.spec.image # ""
  BY DEF BeforeCreateAccepts, validateTask, ValidMeta
<1>3. EmptyStatus.og = 0 /\ EmptyStatus.report \in ValidReports
  BY DEF EmptyStatus
<1> HIDE DEF r
<1>4. r.gen >= 1 /\ r.status.og \in 0 .. r.gen /\ r.status.report \in ValidReports
  BY <1>1, <1>3
<1>5. QED
  BY <1>2, <1>4 DEF Acceptable, r

LEMMA KeepUIDKeepsRest ==
  ASSUME NEW t \in Tasks, NEW old
  PROVE  LET r == KeepUID(t, old)
         IN  /\ r.gen = t.gen /\ r.label = t.label
             /\ r.spec = t.spec /\ r.status = t.status
BY DEF KeepUID, Tasks

\* What passes BeforeUpdate on an acceptable task may be stored: each view
\* validates its own half and takes the other one from the old task.
LEMMA UpdatedIsAcceptable ==
  ASSUME NEW view, NEW new \in Tasks, NEW old \in Tasks, Acceptable(old),
         BeforeUpdateAccepts(view, new, old)
  PROVE  Acceptable(BeforeUpdate(view, new, old))
<1> DEFINE r == BeforeUpdate(view, new, old)
<1>1. r.label \in ValidLabels
  BY DEF BeforeUpdateAccepts, ValidMeta
<1>2. old.gen \in Int /\ old.status \in Statuses /\ old.status.og \in Int
  BY DEF Tasks, Statuses
<1>3. CASE view = "status"
  <2> DEFINE p == StatusPrepareForUpdate(new, old)
  <2>1. p \in Tasks /\ p.spec = old.spec /\ p.gen = old.gen
    BY DEF StatusPrepareForUpdate, Tasks
  <2>2. r.spec = old.spec /\ r.gen = old.gen
    <3>1. r = KeepUID(p, old)
      BY <1>3 DEF BeforeUpdate
    <3>2. QED
      BY <2>1, <3>1, KeepUIDKeepsRest
  <2>3. 0 <= r.status.og /\ r.status.og <= r.gen /\ r.status.report \in ValidReports
    BY <1>3 DEF BeforeUpdateAccepts, validateStatusUpdate
  <2>4. r.status.og \in Int
    BY UpdatedIsTask DEF Tasks, Statuses
  <2> HIDE DEF r, p
  <2>5. r.status.og \in 0 .. r.gen
    BY <1>2, <2>2, <2>3, <2>4
  <2>6. QED
    BY <1>1, <2>2, <2>3, <2>5 DEF Acceptable, r
<1>4. CASE view # "status"
  <2> DEFINE n == IF specEqual(new.spec, old.spec) THEN old.gen ELSE old.gen + 1
             p == WithServerFields(new, old.status, n)
  <2>1. n \in Int /\ old.gen <= n
    BY <1>2
  <2>2. p \in Tasks /\ p.status = old.status /\ p.gen = n
    BY <1>2, <2>1, ServerFields
  <2>3. r.status = old.status /\ r.gen = n
    <3>1. r = KeepUID(p, old)
      BY <1>4 DEF BeforeUpdate, PrepareForUpdate
    <3> HIDE DEF n, p, r
    <3>2. QED
      BY <2>2, <3>1, KeepUIDKeepsRest
  <2>4. r.spec.image # ""
    BY <1>4 DEF BeforeUpdateAccepts, validateTask
  <2>5. old.gen >= 1 /\ old.status.og \in 0 .. old.gen
        /\ old.status.report \in ValidReports
    BY DEF Acceptable
  <2> HIDE DEF n, p, r
  <2>6. r.gen >= 1 /\ r.status.og \in 0 .. r.gen
    BY <1>2, <2>1, <2>3, <2>5
  <2>7. QED
    BY <1>1, <2>3, <2>4, <2>5, <2>6 DEF Acceptable, r
<1>5. QED
  BY <1>3, <1>4

\* Storing an acceptable task keeps the stored tasks acceptable.
LEMMA WriteKeepsValid ==
  ASSUME TypeOK, StoredTasksValid, NEW k \in Keys, NEW t \in Tasks,
         Acceptable(t), S!Create(k, t) \/ S!Update(k, t)
  PROVE  StoredTasksValid'
<1>1. items' = [items EXCEPT ![k] = [rv |-> rv + 1, data |-> t]]
  BY DEF S!Create, S!Update, S!Write
<1>2. \A l \in Keys : items'[l] = items[l] \/ items'[l].data = t
  BY <1>1 DEF TypeOK, S!TypeOK
<1>3. QED
  BY <1>2 DEF StoredTasksValid, S!Stored

LEMMA ValidStep ==
  ASSUME TypeOK, AllTasksValid, [AnyNext]_vars
  PROVE  AllTasksValid'
<1>1. CASE NoEffect
  BY <1>1 DEF NoEffect, AllTasksValid, StoredTasksValid, S!Stored, Carries
<1>2. CASE Restart
  BY <1>2 DEF Restart, S!New, AllTasksValid, StoredTasksValid, S!Stored,
              Carries, NoJob
<1>3. ASSUME NEW c \in Clients, NEW j, SetJob(c, j),
             j.op \in {"create", "update"} => Acceptable(j.task)
      PROVE  \A d \in Clients : Carries(d)' => Acceptable(job'[d].task)
  BY <1>3 DEF SetJob, TypeOK, AllTasksValid, Carries
<1>4. ASSUME UNCHANGED items
      PROVE  StoredTasksValid'
  BY <1>4 DEF AllTasksValid, StoredTasksValid, S!Stored
<1>5. CASE SuspendBare
  <2>1. \A j \in ListJobs \cup DeleteJobs : j.op \notin {"create", "update"}
    BY DEF ListJobs, DeleteJobs
  <2>2. QED
    BY <1>3, <1>4, <1>5, <2>1 DEF SuspendBare, AllTasksValid
<1>6. CASE SuspendCreate
  BY <1>3, <1>4, <1>6, CreatedIsAcceptable DEF SuspendCreate, AllTasksValid
<1>7. CASE SuspendUpdate
  <2>1. PICK c \in Clients, j \in UpdateJobs, new \in Tasks :
          /\ S!Has(j.key)
          /\ BeforeUpdateAccepts(j.view, new, items[j.key].data)
          /\ j.task = BeforeUpdate(j.view, new, items[j.key].data)
          /\ SetJob(c, j)
          /\ UNCHANGED <<items, rv, uids>>
    BY <1>7 DEF SuspendUpdate, Met
  <2>2. j.key \in Keys
    BY UpdateJobFields
  <2>3. items[j.key].data \in Tasks /\ Acceptable(items[j.key].data)
    BY <2>1, <2>2, StoredIsTask
       DEF AllTasksValid, StoredTasksValid, S!Stored, S!Has
  <2>4. Acceptable(j.task)
    BY <2>1, <2>3, UpdatedIsAcceptable
  <2>5. QED
    BY <1>3, <1>4, <2>1, <2>4 DEF AllTasksValid
<1>8. CASE StoreNew
  <2>1. PICK k \in Keys, t \in Tasks :
          BeforeCreateAccepts(t) /\ S!Create(k, BeforeCreate(t))
    BY <1>8 DEF StoreNew
  <2>2. StoredTasksValid'
    BY <2>1, CreatedIsTask, CreatedIsAcceptable, WriteKeepsValid DEF AllTasksValid
  <2>3. QED
    BY <1>8, <2>2 DEF StoreNew, AllTasksValid, Carries
<1>9. ASSUME NEW c \in Clients, SetJob(c, NoJob)
      PROVE  \A d \in Clients : Carries(d)' => Acceptable(job'[d].task)
  BY <1>3, <1>9 DEF NoJob
<1>10. CASE StoreCarried
  <2>1. PICK c \in Clients :
          /\ Carries(c)
          /\ S!Create(job[c].key, job[c].task) \/ S!Update(job[c].key, job[c].task)
          /\ SetJob(c, NoJob)
    BY <1>10 DEF StoreCarried, Carries
  <2>2. StoredTasksValid'
    BY <2>1, CarriedTask, WriteKeepsValid DEF AllTasksValid
  <2>3. QED
    BY <1>9, <2>1, <2>2 DEF AllTasksValid
<1>11. CASE StoreDelete
  <2>1. PICK c \in Clients, k \in Keys : S!Delete(k) /\ SetJob(c, NoJob)
    BY <1>11 DEF StoreDelete
  <2>2. \A l \in Keys : items'[l] \in {items[l], Absent}
    BY <2>1 DEF S!Delete, TypeOK, S!TypeOK
  <2>3. StoredTasksValid'
    BY <2>2 DEF AllTasksValid, StoredTasksValid, S!Stored
  <2>4. QED
    BY <1>9, <2>1, <2>3 DEF AllTasksValid
<1>12. CASE GiveUp
  BY <1>4, <1>9, <1>12 DEF GiveUp, AllTasksValid
<1>13. QED
  BY <1>1, <1>2, <1>5, <1>6, <1>7, <1>8, <1>10, <1>11, <1>12, StepEffects

\* No interleaving stores a task that a validator would refuse: in particular
\* no stored status observes a generation that the stored spec has not reached.
THEOREM RegistryTasksValid == Spec => []AllTasksValid
<1>1. Init => AllTasksValid
  BY DEF Init, S!Init, AllTasksValid, StoredTasksValid, S!Stored, Carries, NoJob
<1>2. TypeOK /\ AllTasksValid /\ [Next]_vars => AllTasksValid'
  BY ValidStep, NextIsAny
<1>3. QED
  BY <1>1, <1>2, RegistryTypeCorrect, PTL DEF Spec

\* The part of it that speaks of the Store alone.
COROLLARY RegistryStoredTasksValid == Spec => []StoredTasksValid
<1>1. AllTasksValid => StoredTasksValid
  BY DEF AllTasksValid
<1>2. QED
  BY <1>1, RegistryTasksValid, PTL

-----------------------------------------------------------------------------
(* No two tasks share a UID *)

LEMMA HeldType ==
  ASSUME TypeOK, UIDsHaveOneKey
  PROVE  /\ \A k \in S!Stored : items[k].data.uid \in 1 .. uids
         /\ \A c \in Clients : Carries(c) => job[c].task.uid \in 1 .. uids
<1>1. \A k \in S!Stored : <<k, items[k].data.uid>> \in Held
  BY DEF Held
<1>2. \A c \in Clients : Carries(c) => <<job[c].key, job[c].task.uid>> \in Held
  BY DEF Held
<1>3. QED
  BY <1>1, <1>2 DEF UIDsHaveOneKey

\* A step that hands nothing new out keeps the invariant ...
LEMMA HeldShrinks ==
  ASSUME UIDsHaveOneKey, Held' \subseteq Held, uids' = uids
  PROVE  UIDsHaveOneKey'
BY DEF UIDsHaveOneKey

\* ... and so does one that hands out the next UID, to one key.
LEMMA HeldGrows ==
  ASSUME TypeOK, UIDsHaveOneKey, NEW k,
         Held' \subseteq Held \cup {<<k, uids + 1>>}, uids' = uids + 1
  PROVE  UIDsHaveOneKey'
<1>1. uids \in Nat
  BY DEF TypeOK
<1>2. \A p \in Held : p[2] \in 1 .. uids /\ p[2] # uids + 1
  BY <1>1 DEF UIDsHaveOneKey
<1>3. ASSUME NEW p \in Held', NEW q \in Held', p[2] = q[2]
      PROVE  p[1] = q[1]
  BY <1>2, <1>3 DEF UIDsHaveOneKey
<1>4. ASSUME NEW p \in Held'
      PROVE  p[2] \in 1 .. uids'
  <2>1. CASE p \in Held
    BY <1>1, <1>2, <2>1
  <2>2. CASE p = <<k, uids + 1>>
    BY <1>1, <2>2
  <2>3. QED
    BY <2>1, <2>2
<1>5. QED
  BY <1>3, <1>4 DEF UIDsHaveOneKey

\* What a write and a change of one job add to Held.
LEMMA HeldAfterWrite ==
  ASSUME TypeOK, NEW k \in Keys, NEW t \in Tasks,
         S!Create(k, t) \/ S!Update(k, t)
  PROVE  \A l \in Keys : l \in S!Stored' =>
           <<l, items'[l].data.uid>> \in
             {<<m, items[m].data.uid>> : m \in S!Stored} \cup {<<k, t.uid>>}
<1>1. items' = [items EXCEPT ![k] = [rv |-> rv + 1, data |-> t]]
  BY DEF S!Create, S!Update, S!Write
<1>2. \A l \in Keys : IF l = k THEN items'[l].data = t ELSE items'[l] = items[l]
  BY <1>1 DEF TypeOK, S!TypeOK
<1>3. QED
  BY <1>2 DEF S!Stored

LEMMA UIDStep ==
  ASSUME TypeOK, UIDsHaveOneKey, [AnyNext]_vars
  PROVE  UIDsHaveOneKey'
<1> DEFINE StoredHeld == {<<k, items[k].data.uid>> : k \in S!Stored}
           JobHeld == {<<job[c].key, job[c].task.uid>> :
                         c \in {d \in Clients : Carries(d)}}
<1>1. ASSUME UNCHANGED items
      PROVE  StoredHeld' = StoredHeld
  BY <1>1 DEF S!Stored
<1>2. ASSUME NEW c \in Clients, NEW j, SetJob(c, j)
      PROVE  JobHeld' \subseteq JobHeld \cup
               (IF j.op \in {"create", "update"} THEN {<<j.key, j.task.uid>>} ELSE {})
  <2>1. \A d \in Clients : IF d = c THEN job'[d] = j ELSE job'[d] = job[d]
    BY <1>2 DEF SetJob, TypeOK
  <2>2. QED
    BY <2>1 DEF Carries
<1>3. ASSUME NEW c \in Clients, NEW j, SetJob(c, j),
             j.op \notin {"create", "update"}
      PROVE  JobHeld' \subseteq JobHeld
  BY <1>2, <1>3
<1>4. NoJob.op \notin {"create", "update"}
  BY DEF NoJob
<1>5. CASE NoEffect
  BY <1>5 DEF NoEffect, UIDsHaveOneKey, Held, S!Stored, Carries
<1>6. CASE Restart
  <2>1. Held' = {}
    BY <1>6 DEF Restart, S!New, Held, S!Stored, Carries, NoJob
  <2>2. QED
    BY <2>1 DEF UIDsHaveOneKey
<1>7. CASE SuspendBare
  <2>1. \A j \in ListJobs \cup DeleteJobs : j.op \notin {"create", "update"}
    BY DEF ListJobs, DeleteJobs
  <2>2. Held' \subseteq Held
    BY <1>1, <1>3, <1>7, <2>1 DEF SuspendBare, Held
  <2>3. QED
    BY <1>7, <2>2, HeldShrinks DEF SuspendBare
<1>8. CASE SuspendCreate
  <2>1. PICK c \in Clients, j \in CreateJobs, t \in Tasks :
          /\ t.uid = uids + 1
          /\ j.task = BeforeCreate(t)
          /\ SetJob(c, j)
          /\ uids' = uids + 1
          /\ UNCHANGED <<items, rv>>
    BY <1>8 DEF SuspendCreate
  <2>2. j.task.uid = uids + 1
    BY <2>1, CreatedIsTask
  <2>3. Held' \subseteq Held \cup {<<j.key, uids + 1>>}
    BY <1>1, <1>2, <2>1, <2>2 DEF Held
  <2>4. QED
    BY <2>1, <2>3, HeldGrows
<1>9. CASE SuspendUpdate
  <2>1. PICK c \in Clients, j \in UpdateJobs, new \in Tasks :
          /\ S!Has(j.key)
          /\ BeforeUpdateAccepts(j.view, new, items[j.key].data)
          /\ j.task = BeforeUpdate(j.view, new, items[j.key].data)
          /\ SetJob(c, j)
          /\ UNCHANGED <<items, rv, uids>>
    BY <1>9 DEF SuspendUpdate, Met
  <2>2. j.key \in S!Stored /\ j.task.uid = items[j.key].data.uid
    BY <2>1, UpdateJobFields DEF BeforeUpdateAccepts, S!Stored, S!Has
  <2>3. <<j.key, j.task.uid>> \in StoredHeld
    BY <2>2
  <2>4. Held' \subseteq Held
    BY <1>1, <1>2, <2>1, <2>3 DEF Held
  <2>5. QED
    BY <2>1, <2>4, HeldShrinks
<1>10. CASE StoreNew
  <2>1. PICK k \in Keys, t \in Tasks :
          /\ t.uid = uids + 1
          /\ S!Create(k, BeforeCreate(t))
          /\ uids' = uids + 1
          /\ UNCHANGED job
    BY <1>10 DEF StoreNew
  <2>2. BeforeCreate(t) \in Tasks /\ BeforeCreate(t).uid = uids + 1
    BY <2>1, CreatedIsTask
  <2>3. StoredHeld' \subseteq StoredHeld \cup {<<k, uids + 1>>}
    BY <2>1, <2>2, HeldAfterWrite DEF S!Stored
  <2>4. JobHeld' = JobHeld
    BY <2>1 DEF Carries
  <2>5. Held' \subseteq Held \cup {<<k, uids + 1>>}
    BY <2>3, <2>4 DEF Held
  <2>6. QED
    BY <2>1, <2>5, HeldGrows
<1>11. CASE StoreCarried
  <2>1. PICK c \in Clients :
          /\ Carries(c)
          /\ S!Create(job[c].key, job[c].task) \/ S!Update(job[c].key, job[c].task)
          /\ SetJob(c, NoJob)
          /\ UNCHANGED uids
    BY <1>11 DEF StoreCarried, Carries
  <2>2. <<job[c].key, job[c].task.uid>> \in JobHeld
    BY <2>1
  <2>3. StoredHeld' \subseteq StoredHeld \cup {<<job[c].key, job[c].task.uid>>}
    BY <2>1, CarriedTask, HeldAfterWrite DEF S!Stored
  <2>4. Held' \subseteq Held
    BY <1>3, <1>4, <2>1, <2>2, <2>3 DEF Held
  <2>5. QED
    BY <2>1, <2>4, HeldShrinks
<1>12. CASE StoreDelete
  <2>1. PICK c \in Clients, k \in Keys :
          S!Delete(k) /\ SetJob(c, NoJob) /\ UNCHANGED uids
    BY <1>12 DEF StoreDelete
  <2>2. \A l \in Keys : items'[l] \in {items[l], Absent}
    BY <2>1 DEF S!Delete, TypeOK, S!TypeOK
  <2>3. StoredHeld' \subseteq StoredHeld
    BY <2>2 DEF S!Stored
  <2>4. Held' \subseteq Held
    BY <1>3, <1>4, <2>1, <2>3 DEF Held
  <2>5. QED
    BY <2>1, <2>4, HeldShrinks
<1>13. CASE GiveUp
  <2>1. Held' \subseteq Held
    BY <1>1, <1>3, <1>4, <1>13 DEF GiveUp, Held
  <2>2. QED
    BY <1>13, <2>1, HeldShrinks DEF GiveUp
<1>14. QED
  BY <1>5, <1>6, <1>7, <1>8, <1>9, <1>10, <1>11, <1>12, <1>13, StepEffects

\* A UID belongs to one key for ever, so no two stored tasks share one: random
\* UIDs are issued once, and no race moves a task to another key.
THEOREM RegistryUIDsHaveOneKey == Spec => []UIDsHaveOneKey
<1>1. Init => UIDsHaveOneKey
  BY DEF Init, S!Init, UIDsHaveOneKey, Held, S!Stored, Carries, NoJob
<1>2. TypeOK /\ UIDsHaveOneKey /\ [Next]_vars => UIDsHaveOneKey'
  BY UIDStep, NextIsAny
<1>3. QED
  BY <1>1, <1>2, RegistryTypeCorrect, PTL DEF Spec

\* The part of it that speaks of the Store alone.
COROLLARY RegistryUIDsDistinct == Spec => []UIDsDistinct
<1>1. UIDsHaveOneKey => UIDsDistinct
  <2>1. \A k \in S!Stored : <<k, items[k].data.uid>> \in Held
    BY DEF Held
  <2>2. QED
    BY <2>1 DEF UIDsHaveOneKey, UIDsDistinct
<1>2. QED
  BY <1>1, RegistryUIDsHaveOneKey, PTL

-----------------------------------------------------------------------------
(* Requests that do not overlap keep the promises *)

\* What is needed for it: no two handlers have an update or a delete of the
\* same task suspended.  Creations, reads and writes of other tasks may
\* overlap as they like, in any number.
Changes(c) == job[c].op \in {"update", "delete"}

WritesApart ==
  \A c, d \in Clients : c # d /\ Changes(c) /\ Changes(d) => job[c].key # job[d].key

\* A single client always keeps to it.
LEMMA OneClientWritesApart ==
  ASSUME \A c, d \in Clients : c = d
  PROVE  WritesApart
BY DEF WritesApart

FitsNew(t) == validateTask(t) /\ t.gen = 1 /\ t.status = EmptyStatus

\* t is a legal successor of the task old.
FitsOld(view, t, old) ==
  /\ t.uid = old.uid
  /\ IF view = "status"
       THEN t.spec = old.spec /\ t.gen = old.gen /\ validateStatusUpdate(t)
       ELSE /\ t.status = old.status /\ validateTask(t)
            /\ t.gen = IF specEqual(t.spec, old.spec) THEN old.gen ELSE old.gen + 1

\* What a suspended handler found, and what it made of it, is still up to date.
UpToDate(c) ==
  /\ Changes(c) => Met(job[c])
  /\ job[c].op = "update" => FitsOld(job[c].view, job[c].task, items[job[c].key].data)
  /\ job[c].op = "create" => FitsNew(job[c].task)

ApartInv == \A c \in Clients : UpToDate(c)

LEMMA CreatedFits ==
  ASSUME NEW t \in Tasks, BeforeCreateAccepts(t)
  PROVE  FitsNew(BeforeCreate(t))
BY CreatedIsTask DEF BeforeCreateAccepts, FitsNew

LEMMA UpdatedFits ==
  ASSUME NEW view, NEW new \in Tasks, NEW old \in Tasks, BeforeUpdateAccepts(view, new, old)
  PROVE  FitsOld(view, BeforeUpdate(view, new, old), old)
<1> DEFINE r == BeforeUpdate(view, new, old)
<1>1. r.uid = old.uid
  BY DEF BeforeUpdateAccepts
<1>2. CASE view = "status"
  <2> DEFINE p == StatusPrepareForUpdate(new, old)
  <2>1. p \in Tasks /\ p.spec = old.spec /\ p.gen = old.gen
    BY DEF StatusPrepareForUpdate, Tasks
  <2>2. r = KeepUID(p, old)
    BY <1>2 DEF BeforeUpdate
  <2>3. r.spec = old.spec /\ r.gen = old.gen
    BY <2>1, <2>2, KeepUIDKeepsRest
  <2>4. validateStatusUpdate(r)
    BY <1>2 DEF BeforeUpdateAccepts
  <2> HIDE DEF r
  <2> QED BY <1>1, <1>2, <2>3, <2>4 DEF FitsOld, r
<1>3. CASE view # "status"
  <2> DEFINE n == IF specEqual(new.spec, old.spec) THEN old.gen ELSE old.gen + 1
             p == WithServerFields(new, old.status, n)
  <2>1. n \in Int /\ old.status \in Statuses
    BY DEF Tasks
  <2>2. p \in Tasks /\ p.status = old.status /\ p.gen = n /\ p.spec = new.spec
    BY <2>1, ServerFields
  <2>3. r = KeepUID(p, old)
    BY <1>3 DEF BeforeUpdate, PrepareForUpdate
  <2>4. r.status = old.status /\ r.gen = n /\ r.spec = new.spec
    <3> HIDE DEF n, p, r
    <3> QED BY <2>2, <2>3, KeepUIDKeepsRest
  <2>5. validateTask(r)
    BY <1>3 DEF BeforeUpdateAccepts, validateTask
  <2> HIDE DEF r
  <2> QED BY <1>1, <1>3, <2>4, <2>5 DEF FitsOld, r
<1> QED BY <1>2, <1>3

\* A job stays up to date as long as the object it found is not replaced ...
LEMMA StaysUpToDate ==
  ASSUME ApartInv, NEW d \in Clients, job'[d] = job[d],
         Changes(d) => items'[job[d].key] = items[job[d].key]
  PROVE  UpToDate(d)'
BY DEF ApartInv, UpToDate, Changes, Met, S!Has

LEMMA NothingLeftToDo ==
  ASSUME NEW d \in Clients, job'[d] = NoJob
  PROVE  UpToDate(d)'
BY DEF UpToDate, Changes, NoJob

\* ... which a creation cannot do, ...
LEMMA CreateElsewhere ==
  ASSUME TypeOK, ApartInv, NEW k \in Keys, NEW t, S!Create(k, t),
         NEW d \in Clients, Changes(d)
  PROVE  items'[job[d].key] = items[job[d].key]
<1>1. S!Has(job[d].key) /\ ~S!Has(k)
  BY DEF ApartInv, UpToDate, Met, S!Create
<1>2. job[d].key # k
  BY <1>1
<1> QED BY <1>2 DEF S!Create, S!Write

\* ... and other writes only if they overlap.
LEMMA WriteElsewhere ==
  ASSUME TypeOK, WritesApart, NEW c \in Clients, NEW d \in Clients \ {c},
         Changes(c), Changes(d),
         (\E t : S!Update(job[c].key, t)) \/ S!Delete(job[c].key)
  PROVE  items'[job[d].key] = items[job[d].key]
<1>1. job[d].key # job[c].key
  BY DEF WritesApart
<1>2. job[d].key \in Keys
  BY JobKinds, UpdateJobFields, DeleteJobFields DEF Changes
<1> QED BY <1>1, <1>2 DEF S!Update, S!Write, S!Delete, TypeOK, S!TypeOK

LEMMA ApartStep ==
  ASSUME TypeOK, ApartInv, WritesApart, [AnyNext]_vars
  PROVE  ApartInv'
<1> SUFFICES ASSUME NEW d \in Clients PROVE UpToDate(d)'
  BY DEF ApartInv
<1>1. ASSUME NEW c \in Clients, NEW j, SetJob(c, j)
      PROVE  /\ c = d => job'[d] = j
             /\ c # d => job'[d] = job[d]
  BY <1>1 DEF SetJob, TypeOK
<1>2. CASE NoEffect
  BY <1>2, StaysUpToDate DEF NoEffect
<1>3. CASE Restart
  BY <1>3, NothingLeftToDo DEF Restart
<1>4. CASE SuspendBare
  <2>1. PICK c \in Clients, j \in ListJobs \cup DeleteJobs :
          /\ j.op = "delete" => Met(j)
          /\ SetJob(c, j)
          /\ UNCHANGED <<items, rv, uids>>
    BY <1>4 DEF SuspendBare
  <2>2. CASE c = d
    <3>1. j.op \in {"list", "delete"} /\ job'[d] = j
      BY <1>1, <2>1, <2>2 DEF ListJobs, DeleteJobs
    <3> QED BY <2>1, <3>1 DEF UpToDate, Changes, Met, S!Has
  <2>3. CASE c # d
    BY <1>1, <2>1, <2>3, StaysUpToDate
  <2> QED BY <2>2, <2>3
<1>5. CASE SuspendCreate
  <2>1. PICK c \in Clients, j \in CreateJobs, t \in Tasks :
          /\ BeforeCreateAccepts(t)
          /\ j.task = BeforeCreate(t)
          /\ SetJob(c, j)
          /\ UNCHANGED <<items, rv>>
    BY <1>5 DEF SuspendCreate
  <2>2. CASE c = d
    <3>1. j.op = "create" /\ job'[d] = j /\ FitsNew(j.task)
      BY <1>1, <2>1, <2>2, CreatedFits DEF CreateJobs
    <3> QED BY <3>1 DEF UpToDate, Changes
  <2>3. CASE c # d
    BY <1>1, <2>1, <2>3, StaysUpToDate
  <2> QED BY <2>2, <2>3
<1>6. CASE SuspendUpdate
  <2>1. PICK c \in Clients, j \in UpdateJobs, new \in Tasks :
          /\ Met(j)
          /\ BeforeUpdateAccepts(j.view, new, items[j.key].data)
          /\ j.task = BeforeUpdate(j.view, new, items[j.key].data)
          /\ SetJob(c, j)
          /\ UNCHANGED <<items, rv, uids>>
    BY <1>6 DEF SuspendUpdate
  <2>2. CASE c = d
    <3>1. j.op = "update" /\ j.key \in Keys /\ job'[d] = j
      BY <1>1, <2>1, <2>2 DEF UpdateJobs
    <3>2. items[j.key].data \in Tasks
      BY <2>1, <3>1, StoredIsTask DEF Met
    <3>3. FitsOld(j.view, j.task, items[j.key].data)
      BY <2>1, <3>2, UpdatedFits
    <3> QED BY <2>1, <3>1, <3>3 DEF UpToDate, Changes, Met, S!Has
  <2>3. CASE c # d
    BY <1>1, <2>1, <2>3, StaysUpToDate
  <2> QED BY <2>2, <2>3
<1>7. CASE StoreNew
  BY <1>7, CreateElsewhere, StaysUpToDate DEF StoreNew
<1>8. CASE StoreCarried
  <2>1. PICK c \in Clients :
          /\ \/ job[c].op = "create" /\ S!Create(job[c].key, job[c].task)
             \/ job[c].op = "update" /\ S!Update(job[c].key, job[c].task)
          /\ SetJob(c, NoJob)
    BY <1>8 DEF StoreCarried
  <2>2. job[c].key \in Keys
    BY <2>1, CarriedTask DEF Carries
  <2>3. CASE c = d
    BY <1>1, <2>1, <2>3, NothingLeftToDo
  <2>4. CASE c # d
    <3>1. Changes(d) => items'[job[d].key] = items[job[d].key]
      BY <2>1, <2>2, <2>4, CreateElsewhere, WriteElsewhere DEF Changes
    <3> QED BY <1>1, <2>1, <2>4, <3>1, StaysUpToDate
  <2> QED BY <2>3, <2>4
<1>9. CASE StoreDelete
  <2>1. PICK c \in Clients :
          job[c].op = "delete" /\ S!Delete(job[c].key) /\ SetJob(c, NoJob)
    BY <1>9 DEF StoreDelete
  <2>2. CASE c = d
    BY <1>1, <2>1, <2>2, NothingLeftToDo
  <2>3. CASE c # d
    <3>1. Changes(d) => items'[job[d].key] = items[job[d].key]
      BY <2>1, <2>3, WriteElsewhere DEF Changes
    <3> QED BY <1>1, <2>1, <2>3, <3>1, StaysUpToDate
  <2> QED BY <2>2, <2>3
<1>10. CASE GiveUp
  <2>1. PICK c \in Clients : SetJob(c, NoJob) /\ UNCHANGED items
    BY <1>10 DEF GiveUp
  <2> QED BY <1>1, <2>1, StaysUpToDate, NothingLeftToDo
<1> QED BY <1>2, <1>3, <1>4, <1>5, <1>6, <1>7, <1>8, <1>9, <1>10, StepEffects

LEMMA ApartInvariant == Spec /\ []WritesApart => []ApartInv
<1>1. Init => ApartInv
  BY NothingLeftToDo DEF Init, ApartInv, UpToDate, Changes, NoJob
<1>2. TypeOK /\ ApartInv /\ WritesApart /\ [Next]_vars => ApartInv'
  BY ApartStep, NextIsAny
<1> QED BY <1>1, <1>2, RegistryTypeCorrect, PTL DEF Spec

\* The update that is answered with OK stores the task it carries.
LEMMA WroteStores ==
  ASSUME TypeOK, ApartInv, [AnyNext]_vars, NEW c \in Clients, Wrote(c)
  PROVE  After(c).data = job[c].task
<1>1. job[c].op = "update" /\ job'[c].op = "idle" /\ reply'.code = "OK"
  BY DEF Wrote, NoJob
<1>2. ASSUME NEW d \in Clients, NEW j, SetJob(d, j)
      PROVE  d = c /\ j.op = "idle"
  BY <1>1, <1>2 DEF SetJob, TypeOK
<1>3. ~NoEffect /\ ~StoreNew
  BY <1>1 DEF NoEffect, StoreNew
<1>4. ~Restart
  BY <1>1 DEF Restart, NoReply
<1>5. ~SuspendBare /\ ~SuspendCreate /\ ~SuspendUpdate
  BY <1>2 DEF SuspendBare, SuspendCreate, SuspendUpdate, ListJobs, DeleteJobs, CreateJobs,
              UpdateJobs
<1>6. ~StoreDelete /\ ~GiveUp
  BY <1>1, <1>2 DEF StoreDelete, GiveUp
<1>7. StoreCarried
  BY <1>3, <1>4, <1>5, <1>6, StepEffects
<1>8. S!Update(job[c].key, job[c].task)
  BY <1>1, <1>2, <1>7 DEF StoreCarried
<1>9. job[c].key \in Keys
  BY <1>1, CarriedTask DEF Carries
<1>10. items' = [items EXCEPT ![job[c].key] = [rv |-> rv + 1, data |-> job[c].task]]
  BY <1>8 DEF S!Update, S!Write
<1> QED BY <1>9, <1>10 DEF After, TypeOK, S!TypeOK

\* checkResourceVersion and checkPreconditions in updateOnStore: for any number
\* of clients, an update replaces the version and the object it named, as long
\* as no other update or delete of that task is between its two calls.
THEOREM ApartUpdateHonoursConditions == Spec /\ []WritesApart => UpdateHonoursConditions
<1>1. ApartInv => \A c \in Clients : Wrote(c) =>
                    /\ job[c].rv \in {NoRV, Before(c).rv}
                    /\ job[c].uid \in {NoUID, Before(c).data.uid}
  BY DEF ApartInv, UpToDate, Changes, Met, Wrote, Before
<1> QED BY <1>1, ApartInvariant, PTL DEF UpdateHonoursConditions

\* checkPreconditions in Delete: under the same condition, what is deleted has
\* the version and the UID that were named.
THEOREM ApartDeleteHonoursPreconditions ==
  Spec /\ []WritesApart => DeleteHonoursPreconditions
<1>1. ApartInv => \A c \in Clients : Deleted(c) =>
                    /\ job[c].rv \in {NoRV, Before(c).rv}
                    /\ job[c].uid \in {NoUID, Before(c).data.uid}
  BY DEF ApartInv, UpToDate, Changes, Met, Deleted, Before
<1> QED BY <1>1, ApartInvariant, PTL DEF DeleteHonoursPreconditions

\* Both PrepareForUpdate: under the same condition, each view leaves the other
\* one's half of the stored task alone.
THEOREM ApartViewsKeepApart == Spec /\ []WritesApart => ViewsKeepApart
<1>1. ASSUME TypeOK, ApartInv, [Next]_vars, NEW c \in Clients, Wrote(c)
      PROVE  IF job[c].view = "status"
               THEN /\ After(c).data.spec = Before(c).data.spec
                    /\ After(c).data.gen = Before(c).data.gen
               ELSE After(c).data.status = Before(c).data.status
  <2>1. After(c).data = job[c].task
    BY <1>1, WroteStores, NextIsAny
  <2>2. FitsOld(job[c].view, job[c].task, Before(c).data)
    BY <1>1 DEF ApartInv, UpToDate, Wrote, Before
  <2> QED BY <2>1, <2>2 DEF FitsOld
<1>2. TypeOK /\ ApartInv /\ [Next]_vars =>
        [\A c \in Clients : Wrote(c) =>
           IF job[c].view = "status"
             THEN /\ After(c).data.spec = Before(c).data.spec
                  /\ After(c).data.gen = Before(c).data.gen
             ELSE After(c).data.status = Before(c).data.status]_vars
  BY <1>1
<1> QED BY <1>2, ApartInvariant, RegistryTypeCorrect, PTL DEF ViewsKeepApart, Spec

\* Strategy.PrepareForUpdate: under the same condition, the generation counts
\* the changes of the stored spec.
THEOREM ApartGenerationTracksSpec == Spec /\ []WritesApart => GenerationTracksSpec
<1>1. ASSUME TypeOK, ApartInv, [Next]_vars, NEW c \in Clients,
             Wrote(c) /\ job[c].view = "main"
      PROVE  After(c).data.gen = Before(c).data.gen +
               (IF SameIntent(After(c).data.spec, Before(c).data.spec) THEN 0 ELSE 1)
  <2>1. After(c).data = job[c].task
    BY <1>1, WroteStores, NextIsAny
  <2>2. FitsOld(job[c].view, job[c].task, Before(c).data) /\ Met(job[c])
    BY <1>1 DEF ApartInv, UpToDate, Changes, Wrote, Before
  <2>3. job[c].key \in Keys
    BY <1>1, JobKinds, UpdateJobFields DEF Wrote
  <2>4. Before(c).data.gen \in Int
    BY <1>1, <2>2, <2>3, StoredIsTask DEF Met, Before, Tasks
  <2> QED BY <1>1, <2>1, <2>2, <2>4 DEF FitsOld, SameIntent, specEqual, stringSliceEqual
<1>2. TypeOK /\ ApartInv /\ [Next]_vars =>
        [\A c \in Clients : Wrote(c) /\ job[c].view = "main" =>
           After(c).data.gen = Before(c).data.gen +
             (IF SameIntent(After(c).data.spec, Before(c).data.spec) THEN 0 ELSE 1)]_vars
  BY <1>1
<1> QED BY <1>2, ApartInvariant, RegistryTypeCorrect, PTL DEF GenerationTracksSpec, Spec

-----------------------------------------------------------------------------
(* ... and implement the contract *)

\* What the contract sees of the Store.
CTasks == [k \in Keys |-> IF S!Has(k) THEN items[k].data ELSE Absent]

LEMMA ContractSees ==
  ASSUME TypeOK, NEW k \in Keys
  PROVE  /\ S!Has(k) => CTasks[k] = items[k].data /\ CTasks[k] \in Tasks /\ CTasks[k] # Absent
         /\ ~S!Has(k) => CTasks[k] = Absent
BY StoredIsTask DEF CTasks

LEMMA ContractWritten ==
  ASSUME TypeOK, NEW k \in Keys, NEW t \in Tasks, S!Create(k, t) \/ S!Update(k, t)
  PROVE  CTasks' = [CTasks EXCEPT ![k] = t]
<1>1. items' = [items EXCEPT ![k] = [rv |-> rv + 1, data |-> t]]
  BY DEF S!Create, S!Update, S!Write
<1>2. [rv |-> rv + 1, data |-> t] # Absent
  BY DEF S!StoreAssumption, S!Objects, TypeOK, S!TypeOK
<1> QED BY <1>1, <1>2 DEF CTasks, S!Has, TypeOK, S!TypeOK

LEMMA ContractDeleted ==
  ASSUME TypeOK, NEW k \in Keys, S!Delete(k)
  PROVE  CTasks' = [CTasks EXCEPT ![k] = Absent]
BY DEF S!Delete, CTasks, S!Has, TypeOK, S!TypeOK

\* A change of one task, of one of the four kinds, is a step of the contract.
LEMMA ContractStep ==
  ASSUME NEW k \in Keys, NEW t, CTasks' = [CTasks EXCEPT ![k] = t],
         \/ CTasks[k] = Absent /\ t \in Tasks /\ FitsNew(t)
         \/ /\ CTasks[k] # Absent /\ t \in Tasks
            /\ \E view \in Views : FitsOld(view, t, CTasks[k])
         \/ CTasks[k] # Absent /\ t = Absent
  PROVE  Contract!Next
<1>1. CTasks'[k] = t /\ DOMAIN CTasks' = Keys /\ \A l \in Keys \ {k} : CTasks'[l] = CTasks[l]
  BY DEF CTasks
<1>2. Contract!Only(k)
  BY <1>1 DEF CTasks, Contract!Only
<1>3. CASE CTasks[k] = Absent /\ t \in Tasks /\ FitsNew(t)
  <2>1. Contract!Create(k)
    BY <1>1, <1>3 DEF CTasks, FitsNew, Contract!Create, Contract!Tasks, Tasks,
       Contract!Statuses, Statuses, Contract!validateTask, validateTask, Contract!ValidMeta,
       ValidMeta, Contract!EmptyStatus, EmptyStatus
  <2> QED BY <1>1, <1>2, <2>1 DEF CTasks, Contract!Next
<1>4. ASSUME CTasks[k] # Absent, t \in Tasks, NEW view \in Views, FitsOld(view, t, CTasks[k])
      PROVE  Contract!Next
  <2>1. CASE view = "status"
    <3>1. /\ t.uid = CTasks[k].uid /\ t.spec = CTasks[k].spec /\ t.gen = CTasks[k].gen
          /\ Contract!validateStatusUpdate(t)
      BY <1>4, <2>1 DEF FitsOld, validateStatusUpdate, Contract!validateStatusUpdate
    <3>2. Contract!StatusWrite(k)
      BY <1>1, <1>4, <3>1 DEF CTasks, Contract!StatusWrite, Contract!Tasks, Tasks,
         Contract!Statuses, Statuses
    <3> QED BY <1>1, <1>2, <3>2 DEF CTasks, Contract!Next
  <2>2. CASE view # "status"
    <3>1. /\ t.uid = CTasks[k].uid /\ t.status = CTasks[k].status
          /\ Contract!validateTask(t)
          /\ IF Contract!specEqual(t.spec, CTasks[k].spec)
               THEN t.gen = CTasks[k].gen
               ELSE t.gen = CTasks[k].gen + 1
      BY <1>4, <2>2 DEF FitsOld, validateTask, Contract!validateTask, ValidMeta,
         Contract!ValidMeta, specEqual, Contract!specEqual, stringSliceEqual,
         Contract!stringSliceEqual
    <3>2. Contract!SpecWrite(k)
      BY <1>1, <1>4, <3>1 DEF CTasks, Contract!SpecWrite, Contract!Tasks, Tasks,
         Contract!Statuses, Statuses
    <3> QED BY <1>1, <1>2, <3>2 DEF CTasks, Contract!Next
  <2> QED BY <2>1, <2>2
<1>5. CASE CTasks[k] # Absent /\ t = Absent
  <2>1. Contract!Delete(k)
    BY <1>1, <1>5 DEF CTasks, Contract!Delete
  <2> QED BY <1>1, <1>2, <2>1 DEF CTasks, Contract!Next
<1> QED BY <1>3, <1>4, <1>5

LEMMA ContractNext ==
  ASSUME TypeOK, ApartInv, [AnyNext]_vars
  PROVE  Contract!Next \/ CTasks' = CTasks
<1>1. CASE NoEffect \/ SuspendBare \/ SuspendCreate \/ SuspendUpdate \/ GiveUp
  <2>1. UNCHANGED items
    BY <1>1 DEF NoEffect, SuspendBare, SuspendCreate, SuspendUpdate, GiveUp
  <2> QED BY <2>1 DEF CTasks, S!Has
<1>2. CASE Restart
  <2>1. CTasks' = [k \in Keys |-> Absent]
    BY <1>2 DEF Restart, S!New, S!Has, CTasks
  <2> QED BY <2>1 DEF CTasks, Contract!Next, Contract!Restart
<1>3. CASE StoreNew
  <2>1. PICK k \in Keys, t \in Tasks : BeforeCreateAccepts(t) /\ S!Create(k, BeforeCreate(t))
    BY <1>3 DEF StoreNew
  <2>2. BeforeCreate(t) \in Tasks /\ FitsNew(BeforeCreate(t))
    BY <2>1, CreatedIsTask, CreatedFits
  <2>3. CTasks[k] = Absent
    BY <2>1, ContractSees DEF S!Create
  <2> QED BY <2>1, <2>2, <2>3, ContractWritten, ContractStep
<1>4. CASE StoreCarried
  <2>1. PICK c \in Clients :
          \/ job[c].op = "create" /\ S!Create(job[c].key, job[c].task)
          \/ job[c].op = "update" /\ S!Update(job[c].key, job[c].task)
    BY <1>4 DEF StoreCarried
  <2>2. job[c].key \in Keys /\ job[c].task \in Tasks /\ job[c].view \in Views
    BY <2>1, JobKinds, CreateJobFields, UpdateJobFields
  <2>3. CTasks' = [CTasks EXCEPT ![job[c].key] = job[c].task]
    BY <2>1, <2>2, ContractWritten
  <2>4. CASE job[c].op = "create"
    <3>1. CTasks[job[c].key] = Absent /\ FitsNew(job[c].task)
      BY <2>1, <2>2, <2>4, ContractSees DEF S!Create, ApartInv, UpToDate
    <3> QED BY <2>2, <2>3, <3>1, ContractStep
  <2>5. CASE job[c].op = "update"
    <3>1. S!Has(job[c].key) /\ FitsOld(job[c].view, job[c].task, items[job[c].key].data)
      BY <2>1, <2>5 DEF S!Update, ApartInv, UpToDate
    <3>2. CTasks[job[c].key] = items[job[c].key].data /\ CTasks[job[c].key] # Absent
      BY <2>2, <3>1, ContractSees
    <3> QED BY <2>2, <2>3, <3>1, <3>2, ContractStep
  <2> QED BY <2>1, <2>4, <2>5
<1>5. CASE StoreDelete
  <2>1. PICK c \in Clients : job[c].key \in Keys /\ S!Delete(job[c].key)
    BY <1>5 DEF StoreDelete
  <2>2. CTasks[job[c].key] # Absent
    BY <2>1, ContractSees DEF S!Delete
  <2> QED BY <2>1, <2>2, ContractDeleted, ContractStep
<1> QED BY <1>1, <1>2, <1>3, <1>4, <1>5, StepEffects

\* updateOnStore, Create, Delete and restarts: under the same condition, the
\* tasks change only the ways TaskContract allows, with its restrictions on
\* generation, spec, status and identity.
THEOREM ApartImplementsContract == Spec /\ []WritesApart => ImplementsContract
<1>1. Init => Contract!Init
  BY DEF Init, S!Init, S!Has, Contract!Init
<1>2. TypeOK /\ ApartInv /\ [Next]_vars
        => [Contract!Next]_[k \in Keys |-> IF S!Has(k) THEN items[k].data ELSE Absent]
  BY ContractNext, NextIsAny DEF CTasks
<1> QED BY <1>1, <1>2, ApartInvariant, RegistryTypeCorrect, PTL
        DEF Spec, ImplementsContract, Contract!Spec

\* One request at a time: everything the handlers are documented to do, since
\* a single client cannot overlap itself.
THEOREM OneClientKeepsContract ==
  ASSUME \A c, d \in Clients : c = d
  PROVE  Spec => /\ UpdateHonoursConditions
                 /\ DeleteHonoursPreconditions
                 /\ ViewsKeepApart
                 /\ GenerationTracksSpec
                 /\ ImplementsContract
<1>1. WritesApart
  BY OneClientWritesApart
<1> QED BY <1>1, ApartUpdateHonoursConditions, ApartDeleteHonoursPreconditions,
           ApartViewsKeepApart, ApartGenerationTracksSpec, ApartImplementsContract, PTL
=============================================================================
