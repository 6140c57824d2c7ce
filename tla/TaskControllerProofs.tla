------------------------ MODULE TaskControllerProofs ------------------------
(***************************************************************************)
(* An observed generation means an acted-on spec.  The main view keeps the *)
(* old status and moves the generation when the spec changes, so it cannot *)
(* make a status speak of another spec; a status write that the server     *)
(* lets through found the version and the UID of the controller's copy,    *)
(* hence (VersionNamesContent) the very task the controller acted on.      *)
(***************************************************************************)
EXTENDS TaskController, TaskHistoryProofs

\* The controller's copy was stored once, under an issued UID.
CopyIsVersion ==
  copy # NoCopy =>
    /\ copy.key \in Keys
    /\ [rv |-> copy.rv, data |-> copy.data] \in versions
    /\ copy.data.uid # NoUID

CarriedActedOn == \A c \in Clients : Carries(c) => ActedOn(job[c].task)

ControllerInv ==
  /\ HistoryInv /\ AllTasksValid
  /\ CopyIsVersion
  /\ ObservedMeansActedOn /\ CarriedActedOn

\* The updates that handlers begin to carry are acted on.
NewUpdatesActedOn ==
  \A c \in Clients :
    job'[c].op = "update" => job'[c] = job[c] \/ ActedOn(job'[c].task)

-----------------------------------------------------------------------------
(* The tasks each view makes *)

LEMMA CreatedIsActedOn ==
  ASSUME NEW t \in Tasks
  PROVE  ActedOn(BeforeCreate(t))
<1>1. BeforeCreate(t).gen = 1 /\ BeforeCreate(t).status.og = 0
  BY CreatedIsTask DEF EmptyStatus
<1> QED BY <1>1 DEF ActedOn

\* The main view: the status is the old one, and it lags if the spec changed.
LEMMA MainUpdateIsActedOn ==
  ASSUME NEW new \in Tasks, NEW old \in Tasks, Acceptable(old), ActedOn(old)
  PROVE  ActedOn(BeforeUpdate("main", new, old))
<1> DEFINE n == IF specEqual(new.spec, old.spec) THEN old.gen ELSE old.gen + 1
           p == WithServerFields(new, old.status, n)
           r == BeforeUpdate("main", new, old)
<1>1. old.gen \in Int /\ old.spec \in Specs /\ new.spec \in Specs /\ n \in Int
  BY DEF Tasks
<1>2. p \in Tasks /\ p.status = old.status /\ p.gen = n /\ p.spec = new.spec
  BY <1>1, ServerFields DEF WithServerFields, Tasks
<1>3. r.status = old.status /\ r.gen = n /\ r.spec = new.spec
  <2>1. r = KeepUID(p, old)
    BY DEF BeforeUpdate, PrepareForUpdate
  <2> HIDE DEF n, p, r
  <2> QED BY <1>2, <2>1, KeepUIDKeepsRest
<1>4. old.status.og \in Int /\ old.status.og <= old.gen
  <2>1. old.status.og \in 0 .. old.gen
    BY DEF Acceptable
  <2> QED BY <1>1, <2>1
<1>5. CASE specEqual(new.spec, old.spec)
  <2>1. Outcome[new.spec] = Outcome[old.spec]
    BY <1>1, <1>5, TaskControllerAssumption
  <2> QED BY <1>3, <1>5, <2>1 DEF ActedOn
<1>6. CASE ~specEqual(new.spec, old.spec)
  BY <1>1, <1>3, <1>4, <1>6 DEF ActedOn
<1> QED BY <1>5, <1>6

LEMMA ReportedIsTask ==
  ASSUME NEW t \in Tasks
  PROVE  /\ Reported(t) \in Tasks
         /\ Reported(t).uid = t.uid
         /\ Reported(t).status.report = Outcome[t.spec]
<1>1. Outcome[t.spec] \in Reports
  BY TaskControllerAssumption, TaskStrategyAssumption DEF Tasks
<1> QED BY <1>1 DEF Reported, Tasks, Statuses

\* The status view, on the task the controller acted on.
LEMMA ReportIsActedOn ==
  ASSUME NEW t \in Tasks
  PROVE  ActedOn(BeforeUpdate("status", Reported(t), t))
<1> DEFINE p == StatusPrepareForUpdate(Reported(t), t)
           r == BeforeUpdate("status", Reported(t), t)
<1>1. /\ p \in Tasks
      /\ p.spec = t.spec
      /\ p.status.report = Outcome[t.spec]
  BY ReportedIsTask DEF StatusPrepareForUpdate, Tasks
<1>2. r = KeepUID(p, t)
  BY DEF BeforeUpdate
<1> HIDE DEF p, r
<1>3. r.spec = t.spec /\ r.status.report = Outcome[t.spec]
  BY <1>1, <1>2, KeepUIDKeepsRest
<1> QED BY <1>3 DEF ActedOn, r

-----------------------------------------------------------------------------
(* What handlers begin to carry *)

\* An update either changes no job or begins to carry its result.
LEMMA UpdateBegins ==
  ASSUME TypeOK, NEW c \in Clients, NEW view, NEW method, NEW k \in Keys,
         NEW t \in Tasks, NEW v, UpdateExisting(c, view, method, k, t, v),
         ActedOn(BeforeUpdate(view, UpdatedObject(method, items[k].data, t),
                              items[k].data))
         \/ UNCHANGED job
  PROVE  NewUpdatesActedOn
<1>1. CASE UNCHANGED job
  BY <1>1 DEF NewUpdatesActedOn
<1>2. CASE ~UNCHANGED job
  <2> DEFINE task == BeforeUpdate(view, UpdatedObject(method, items[k].data, t),
                                  items[k].data)
             j == [op |-> "update", view |-> view, key |-> k, task |-> task,
                   rv |-> v, uid |-> PreconditionUID(method, t)]
  <2>1. job' = [job EXCEPT ![c] = j]
    BY <1>2 DEF UpdateExisting, AnswerOnly, Suspend
  <2>2. ActedOn(task) /\ j.task = task
    BY <1>2
  <2> HIDE DEF j, task
  <2> QED BY <2>1, <2>2 DEF NewUpdatesActedOn, TypeOK
<1> QED BY <1>1, <1>2

LEMMA OtherJobs ==
  ASSUME TypeOK, NEW c \in Clients, NEW j, job' = [job EXCEPT ![c] = j],
         j.op # "update"
  PROVE  NewUpdatesActedOn
BY DEF NewUpdatesActedOn, TypeOK

LEMMA UserWriteBegins ==
  ASSUME ControllerInv, NEW c \in Clients, WriteThrough(c, {"main"})
  PROVE  NewUpdatesActedOn
<1>1. TypeOK
  BY DEF ControllerInv, HistoryInv
<1>2. ASSUME UNCHANGED job PROVE NewUpdatesActedOn
  BY <1>2 DEF NewUpdatesActedOn
<1>3. ASSUME NEW k \in Keys, NEW t \in Bodies, Create(c, k, t)
      PROVE  NewUpdatesActedOn
  BY <1>2, <1>3 DEF Create, AnswerOnly
<1>4. ASSUME NEW k \in Keys, NEW method, NEW t,
             UpdateMissing(c, "main", method, k, t)
      PROVE  NewUpdatesActedOn
  <2>1. CASE UNCHANGED job
    BY <1>2, <2>1
  <2>2. CASE ~UNCHANGED job
    <3> DEFINE j == [op |-> "create", view |-> "main", key |-> k,
                     task |-> BeforeCreate(FillObjectMetaSystemFields(t, uids + 1))]
    <3>1. job' = [job EXCEPT ![c] = j] /\ j.op # "update"
      BY <1>4, <2>2 DEF UpdateMissing, AnswerOnly, Suspend
    <3> HIDE DEF j
    <3> QED BY <1>1, <3>1, OtherJobs
  <2> QED BY <2>1, <2>2
<1>5. ASSUME NEW k \in Keys, NEW method, NEW t \in Tasks, NEW v,
             UpdateExisting(c, "main", method, k, t, v)
      PROVE  NewUpdatesActedOn
  <2>1. S!Has(k) /\ items[k].data \in Tasks
    BY <1>1, <1>5, StoredIsTask DEF UpdateExisting
  <2>2. Acceptable(items[k].data) /\ ActedOn(items[k].data)
    BY <2>1 DEF ControllerInv, AllTasksValid, StoredTasksValid,
                ObservedMeansActedOn, S!Stored, S!Has
  <2>3. UpdatedObject(method, items[k].data, t) \in Tasks
    BY <2>1, UpdatedObjectIsTask
  <2>4. ActedOn(BeforeUpdate("main", UpdatedObject(method, items[k].data, t),
                             items[k].data))
    BY <2>1, <2>2, <2>3, MainUpdateIsActedOn
  <2> QED BY <1>1, <1>5, <2>4, UpdateBegins
<1>6. ASSUME NEW k \in Keys, NEW v, NEW uid, Delete(c, k, v, uid)
      PROVE  NewUpdatesActedOn
  <2>1. CASE UNCHANGED job
    BY <1>2, <2>1
  <2>2. CASE ~UNCHANGED job
    <3> DEFINE j == [op |-> "delete", key |-> k, rv |-> v, uid |-> uid]
    <3>1. job' = [job EXCEPT ![c] = j]
      BY <1>6, <2>2 DEF Delete, AnswerOnly, Suspend
    <3>2. j.op # "update"
      OBVIOUS
    <3> HIDE DEF j
    <3> QED BY <1>1, <3>1, <3>2, OtherJobs
  <2> QED BY <2>1, <2>2
<1>7. \A t \in Bodies : t \in Tasks
  BY TaskRegistryAssumption
<1>8. \A t \in Bodies, uid \in 0 .. uids : [t EXCEPT !.uid = uid] \in Tasks
  BY <1>1, <1>7 DEF TypeOK, Tasks
<1> QED BY <1>3, <1>4, <1>5, <1>6, <1>7, <1>8 DEF WriteThrough

LEMMA ProceedBegins ==
  ASSUME TypeOK, NEW c \in Clients, Proceed(c)
  PROVE  NewUpdatesActedOn
<1>1. job' = [job EXCEPT ![c] = NoJob]
  BY DEF Proceed, ListCurrentResourceVersion, CreateOnUpdate, UpdateStore,
         DeleteFromStore, Return
<1>2. NoJob.op # "update"
  BY DEF NoJob
<1> HIDE DEF NoJob
<1> QED BY <1>1, <1>2, OtherJobs

\* The version and the UID of the copy name the task the controller read.
LEMMA ReportBegins ==
  ASSUME ControllerInv, NEW c \in Clients, ReportStatus(c)
  PROVE  NewUpdatesActedOn
<1> DEFINE k == copy.key
           t == Reported(copy.data)
<1>1. TypeOK /\ k \in Keys /\ copy.data.uid # NoUID
      /\ [rv |-> copy.rv, data |-> copy.data] \in versions
  BY DEF ReportStatus, ControllerInv, HistoryInv, CopyIsVersion
<1>2. copy.rv \in Nat /\ copy.data \in Tasks
  BY <1>1 DEF ControllerInv, HistoryInv, VersionsType
<1>3. t \in Tasks /\ t.uid = copy.data.uid
  BY <1>2, ReportedIsTask
<1>4. CASE UpdateMissing(c, "status", "put", k, t)
  <2>1. UNCHANGED job
    BY <1>4 DEF UpdateMissing, ForceAllowCreate, AllowCreateOnUpdate, AnswerOnly
  <2> QED BY <2>1 DEF NewUpdatesActedOn
<1>5. CASE UpdateExisting(c, "status", "put", k, t, copy.rv)
  <2>1. UpdatedObject("put", items[k].data, t) = t
    BY DEF UpdatedObject
  <2>2. CASE UNCHANGED job
    BY <2>2 DEF NewUpdatesActedOn
  <2>3. CASE ~UNCHANGED job
    <3>1. /\ checkPreconditions(items[k], NoRV, PreconditionUID("put", t))
          /\ checkResourceVersion(items[k], UpdatedVersion("put", items[k], copy.rv))
      BY <1>5, <2>3 DEF UpdateExisting, AnswerOnly
    <3>2. items[k].data.uid = copy.data.uid /\ items[k].rv = copy.rv
      BY <1>1, <1>3, <3>1
         DEF checkPreconditions, PreconditionUID, checkResourceVersion,
             UpdatedVersion, AllowUnconditionalUpdate
    <3>3. items[k] \in versions
      BY <1>1, <1>5 DEF UpdateExisting, ControllerInv, HistoryInv,
                        StoredAreVersions, S!Stored, S!Has
    <3>4. items[k].data = copy.data
      BY <1>1, <3>2, <3>3 DEF ControllerInv, HistoryInv, VersionNamesContent
    <3>5. ActedOn(BeforeUpdate("status", t, items[k].data))
      BY <1>2, <3>4, ReportIsActedOn
    <3> HIDE DEF t, k
    <3> QED BY <1>1, <1>3, <1>5, <2>1, <3>5, UpdateBegins
  <2> QED BY <2>2, <2>3
<1> QED BY <1>4, <1>5 DEF ReportStatus

-----------------------------------------------------------------------------
(* The steps *)

\* Whatever the step does, what it stores and what it carries is acted on.
LEMMA ActedOnStep ==
  ASSUME TypeOK, [AnyNext]_vars, NewUpdatesActedOn,
         ObservedMeansActedOn, CarriedActedOn
  PROVE  ObservedMeansActedOn' /\ CarriedActedOn'
<1>1. ASSUME UNCHANGED items
      PROVE  ObservedMeansActedOn'
  BY <1>1 DEF ObservedMeansActedOn, S!Stored, ActedOn
<1>2. ASSUME NEW k \in Keys, NEW t, ActedOn(t), S!Create(k, t) \/ S!Update(k, t)
      PROVE  ObservedMeansActedOn'
  <2>1. items' = [items EXCEPT ![k] = [rv |-> rv + 1, data |-> t]]
    BY <1>2 DEF S!Create, S!Update, S!Write
  <2>2. \A l \in Keys : items'[l] = items[l] \/ items'[l].data = t
    BY <2>1 DEF TypeOK, S!TypeOK
  <2> QED BY <1>2, <2>2 DEF ObservedMeansActedOn, S!Stored, ActedOn
<1>3. ASSUME NEW c \in Clients, NEW j, SetJob(c, j),
             j.op \in {"create", "update"} => ActedOn(j.task)
      PROVE  CarriedActedOn'
  BY <1>3 DEF SetJob, TypeOK, CarriedActedOn, Carries, ActedOn
<1>4. ASSUME NEW c \in Clients, SetJob(c, NoJob)
      PROVE  CarriedActedOn'
  BY <1>3, <1>4 DEF NoJob
<1>5. ASSUME UNCHANGED job
      PROVE  CarriedActedOn'
  BY <1>5 DEF CarriedActedOn, Carries, ActedOn
<1>6. CASE NoEffect
  BY <1>1, <1>5, <1>6 DEF NoEffect
<1>7. CASE Restart
  BY <1>7 DEF Restart, S!New, ObservedMeansActedOn, S!Stored, CarriedActedOn,
              Carries, NoJob
<1>8. CASE SuspendBare
  <2>1. \A j \in ListJobs \cup DeleteJobs : j.op \notin {"create", "update"}
    BY DEF ListJobs, DeleteJobs
  <2> QED BY <1>1, <1>3, <1>8, <2>1 DEF SuspendBare
<1>9. CASE SuspendCreate
  BY <1>1, <1>3, <1>9, CreatedIsActedOn DEF SuspendCreate
<1>10. CASE SuspendUpdate
  <2>1. PICK c \in Clients, j \in UpdateJobs : SetJob(c, j) /\ UNCHANGED items
    BY <1>10 DEF SuspendUpdate, Met
  <2>2. CarriedActedOn'
    BY <2>1 DEF NewUpdatesActedOn, SetJob, TypeOK, CarriedActedOn, Carries,
                ActedOn, UpdateJobs
  <2> QED BY <1>1, <2>1, <2>2
<1>11. CASE StoreNew
  BY <1>2, <1>5, <1>11, CreatedIsActedOn DEF StoreNew
<1>12. CASE StoreCarried
  <2>1. PICK c \in Clients :
          /\ Carries(c)
          /\ S!Create(job[c].key, job[c].task) \/ S!Update(job[c].key, job[c].task)
          /\ SetJob(c, NoJob)
    BY <1>12 DEF StoreCarried, Carries
  <2> QED BY <1>2, <1>4, <2>1, CarriedTask DEF CarriedActedOn
<1>13. CASE StoreDelete
  <2>1. PICK c \in Clients, k \in Keys : S!Delete(k) /\ SetJob(c, NoJob)
    BY <1>13 DEF StoreDelete
  <2>2. \A l \in Keys : items'[l] \in {items[l], Absent}
    BY <2>1 DEF S!Delete, TypeOK, S!TypeOK
  <2>3. ObservedMeansActedOn'
    BY <2>2 DEF ObservedMeansActedOn, S!Stored, ActedOn
  <2> QED BY <1>4, <2>1, <2>3
<1>14. CASE GiveUp
  BY <1>1, <1>4, <1>14 DEF GiveUp
<1> QED
  BY <1>6, <1>7, <1>8, <1>9, <1>10, <1>11, <1>12, <1>13, <1>14, StepEffects

\* Every step of users, controller and server is a step of TaskHistory.
LEMMA ControllerStepIs ==
  ASSUME ControllerInv, ControllerNext
  PROVE  AnyNext /\ Record /\ NewUpdatesActedOn
<1>1. TypeOK
  BY DEF ControllerInv, HistoryInv
<1>2. ASSUME NEW c \in Clients, WriteThrough(c, {"main"})
      PROVE  AnyNext /\ NewUpdatesActedOn
  <2>1. {"main"} \in SUBSET Views
    BY DEF Views
  <2> QED BY <1>1, <1>2, <2>1, WriteIsAny, UserWriteBegins
<1>3. ASSUME NEW c \in Clients, Proceed(c)
      PROVE  AnyNext /\ NewUpdatesActedOn
  BY <1>1, <1>3, ProceedBegins DEF Proceed, AnyNext
<1>4. CASE Restart
  <2>1. AnyNext
    BY <1>4 DEF AnyNext
  <2>2. \A c \in Clients : job'[c].op # "update"
    BY <1>4 DEF Restart, NoJob
  <2>3. Record
    BY DEF ControllerNext
  <2> QED BY <2>1, <2>2, <2>3 DEF NewUpdatesActedOn
<1>5. ASSUME NEW c \in Clients, NEW k \in Keys, Observe(c, k)
      PROVE  AnyNext /\ NewUpdatesActedOn
  <2>1. Get(c, k) /\ UNCHANGED job
    BY <1>5 DEF Observe, Get, AnswerOnly
  <2> QED BY <2>1 DEF AnyNext, NewUpdatesActedOn
<1>6. ASSUME NEW c \in Clients, ReportStatus(c)
      PROVE  AnyNext /\ NewUpdatesActedOn
  <2>1. copy.key \in Keys /\ copy.rv \in Nat /\ copy.data \in Tasks
    BY <1>6 DEF ReportStatus, ControllerInv, CopyIsVersion, HistoryInv, VersionsType
  <2>2. Reported(copy.data) \in Tasks /\ "status" \in Views /\ "put" \in Methods
    BY <2>1, ReportedIsTask DEF Views, Methods
  <2>3. AnyNext
    BY <1>6, <2>1, <2>2 DEF ReportStatus, AnyNext
  <2> QED BY <1>6, <2>3, ReportBegins
<1>7. Record
  BY DEF ControllerNext
<1>8. \/ UserWrite \/ Serve \/ Restart
      \/ \E c \in Clients, k \in Keys : Observe(c, k)
      \/ \E c \in Clients : ReportStatus(c)
  BY DEF ControllerNext
<1>9. CASE UserWrite
  BY <1>2, <1>7, <1>9 DEF UserWrite
<1>10. CASE Serve
  BY <1>3, <1>7, <1>10 DEF Serve
<1> QED BY <1>4, <1>5, <1>6, <1>7, <1>8, <1>9, <1>10

LEMMA CopyStep ==
  ASSUME ControllerInv, ControllerNext
  PROVE  CopyIsVersion'
<1>1. versions \subseteq versions'
  BY DEF ControllerNext, Record
<1>2. ASSUME copy' \in {copy, NoCopy}
      PROVE  CopyIsVersion'
  BY <1>1, <1>2 DEF ControllerInv, CopyIsVersion
<1>3. ASSUME NEW c \in Clients, NEW k \in Keys, Observe(c, k)
      PROVE  CopyIsVersion'
  <2>1. CASE copy' = NoCopy
    BY <1>2, <2>1
  <2>2. CASE copy' # NoCopy
    <3>1. /\ k \in S!Stored
          /\ copy' = [key |-> k, rv |-> items[k].rv, data |-> items[k].data]
      BY <1>3, <2>2 DEF Observe, S!Stored, S!Has
    <3>2. items[k] \in versions
      BY <3>1 DEF ControllerInv, HistoryInv, StoredAreVersions
    <3>3. items[k] = [rv |-> items[k].rv, data |-> items[k].data]
      BY <3>2 DEF ControllerInv, HistoryInv, VersionsType
    <3>4. items[k].data.uid \in 1 .. uids
      BY <3>1, HeldType DEF ControllerInv, HistoryInv
    <3>5. items[k].data.uid # NoUID
      BY <3>4, NumbersOf DEF ControllerInv, HistoryInv, NoUID
    <3> QED BY <1>1, <3>1, <3>2, <3>3, <3>5 DEF CopyIsVersion
  <2> QED BY <2>1, <2>2
<1>4. ASSUME NEW c \in Clients, ReportStatus(c)
      PROVE  CopyIsVersion'
  BY <1>2, <1>4 DEF ReportStatus
<1> QED BY <1>2, <1>3, <1>4 DEF ControllerNext

LEMMA ControllerStep ==
  ASSUME ControllerInv, [ControllerNext]_controllerVars
  PROVE  ControllerInv'
<1>1. CASE ControllerNext
  <2>1. HistoryStep /\ [AnyNext]_vars /\ NewUpdatesActedOn
    BY <1>1, ControllerStepIs DEF HistoryStep
  <2>2. HistoryInv'
    BY <2>1, HistoryPreserved DEF ControllerInv
  <2>3. AllTasksValid'
    BY <2>1, ValidStep DEF ControllerInv, HistoryInv
  <2>4. ObservedMeansActedOn' /\ CarriedActedOn'
    BY <2>1, ActedOnStep DEF ControllerInv, HistoryInv
  <2> QED BY <1>1, <2>2, <2>3, <2>4, CopyStep DEF ControllerInv
<1>2. CASE UNCHANGED controllerVars
  <2>1. UNCHANGED vars /\ UNCHANGED versions /\ UNCHANGED copy
    BY <1>2 DEF controllerVars, historyVars
  <2>2. HistoryInv'
    BY <2>1, HistoryPreserved DEF ControllerInv, HistoryStep, historyVars
  <2>3. AllTasksValid'
    BY <2>1, ValidStep DEF ControllerInv, HistoryInv
  <2>4. NewUpdatesActedOn
    BY <2>1 DEF vars, NewUpdatesActedOn
  <2>5. ObservedMeansActedOn' /\ CarriedActedOn'
    BY <2>1, <2>4, ActedOnStep DEF ControllerInv, HistoryInv
  <2>6. CopyIsVersion'
    BY <2>1 DEF ControllerInv, CopyIsVersion
  <2> QED BY <2>2, <2>3, <2>5, <2>6 DEF ControllerInv
<1> QED BY <1>1, <1>2

LEMMA ControllerBegins == ControllerInit => ControllerInv
<1> SUFFICES ASSUME ControllerInit PROVE ControllerInv
  OBVIOUS
<1>1. HistoryInv /\ CopyIsVersion
  BY HistoryBegins DEF ControllerInit, CopyIsVersion
<1>2. S!Stored = {} /\ \A c \in Clients : ~Carries(c)
  BY DEF ControllerInit, HistoryInit, Init, S!Init, S!Stored, Carries, NoJob
<1> QED BY <1>1, <1>2 DEF ControllerInv, AllTasksValid, StoredTasksValid,
                          ObservedMeansActedOn, CarriedActedOn

\* A task whose generation is observed shows the outcome of the spec it has,
\* for any numbers of users, keys and specs and across restarts.
THEOREM ControllerObservedMeansActedOn == ControllerSpec => []ObservedMeansActedOn
<1>1. ControllerInv => ObservedMeansActedOn
  BY DEF ControllerInv
<1> QED BY <1>1, ControllerBegins, ControllerStep, PTL DEF ControllerSpec
=============================================================================
