-------------------------- MODULE TaskHistoryProofs --------------------------
(***************************************************************************)
(* A UID and a resourceVersion name one content for ever, restarts         *)
(* included.  A process issues versions in increasing order, and the UIDs  *)
(* it issues are all above those of earlier processes: a version can only  *)
(* be given again with a UID that no earlier process has used.             *)
(***************************************************************************)
EXTENDS TaskHistory, TaskRegistryProofs

\* b: the last UID that an earlier process issued.
OfThisProcess(b) ==
  /\ \A k \in S!Stored : items[k].data.uid > b
  /\ \A c \in Clients : Carries(c) => job[c].task.uid > b
  /\ \A v \in versions : v.data.uid > b => v.rv <= rv

VersionsType == versions \subseteq [rv : Nat, data : Tasks]
VersionsIssued == \A v \in versions : v.data.uid <= uids
StoredAreVersions == \A k \in S!Stored : items[k] \in versions

HistoryInv ==
  /\ TypeOK /\ UIDsHaveOneKey
  /\ VersionsType /\ VersionsIssued /\ StoredAreVersions
  /\ VersionNamesContent
  /\ \E b \in 0 .. uids : OfThisProcess(b)

\* Any step, with what it records.
HistoryStep == (AnyNext /\ Record) \/ UNCHANGED historyVars

LEMMA HistoryStepIs ==
  ASSUME HistoryStep
  PROVE  [AnyNext]_vars
BY DEF HistoryStep, historyVars

LEMMA NumbersOf ==
  ASSUME TypeOK
  PROVE  rv \in Nat /\ uids \in Nat
BY DEF TypeOK, S!TypeOK

\* While the Store does not change, or shrinks, there is nothing to record.
LEMMA NothingToRecord ==
  ASSUME HistoryStep, StoredAreVersions,
         \A k \in Keys : items'[k] \in {items[k], Absent}
  PROVE  versions' = versions /\ StoredAreVersions'
<1>1. CASE Record
  <2>1. \A k \in Keys : items'[k] # Absent => items'[k] \in versions
    BY DEF StoredAreVersions, S!Stored
  <2>2. versions' = versions
    BY <1>1, <2>1 DEF Record
  <2> QED BY <2>1, <2>2 DEF StoredAreVersions, S!Stored
<1>2. CASE UNCHANGED historyVars
  BY <1>2 DEF historyVars, vars, StoredAreVersions, S!Stored
<1> QED BY <1>1, <1>2 DEF HistoryStep

\* The invariant after such a step, up to what the jobs carry.
LEMMA SameVersions ==
  ASSUME HistoryInv, TypeOK', UIDsHaveOneKey', HistoryStep,
         \A k \in Keys : items'[k] \in {items[k], Absent},
         uids <= uids', rv <= rv',
         NEW b \in 0 .. uids, OfThisProcess(b),
         \A c \in Clients : Carries(c)' => job'[c].task.uid > b
  PROVE  HistoryInv'
<1>1. versions' = versions /\ StoredAreVersions'
  BY NothingToRecord DEF HistoryInv
<1>2. VersionsType' /\ VersionNamesContent'
  BY <1>1 DEF HistoryInv, VersionsType, VersionNamesContent
<1>3. \A v \in versions : v.rv \in Nat /\ v.data.uid \in Nat
  BY DEF HistoryInv, VersionsType, Tasks
<1>4. uids \in Nat /\ uids' \in Nat /\ rv \in Nat /\ rv' \in Nat
  BY DEF HistoryInv, TypeOK, S!TypeOK
<1>5. VersionsIssued'
  BY <1>1, <1>3, <1>4 DEF HistoryInv, VersionsIssued
<1>6. b \in 0 .. uids'
  BY <1>4
<1>7. OfThisProcess(b)'
  <2>1. \A k \in S!Stored' : items'[k].data.uid > b
    BY DEF OfThisProcess, S!Stored
  <2>2. \A v \in versions' : v.data.uid > b => v.rv <= rv'
    BY <1>1, <1>3, <1>4 DEF OfThisProcess
  <2> QED BY <2>1, <2>2 DEF OfThisProcess
<1> QED BY <1>1, <1>2, <1>5, <1>6, <1>7 DEF HistoryInv

\* A write stores a UID of this process with a version above all of them.
LEMMA NewVersion ==
  ASSUME HistoryInv, TypeOK', UIDsHaveOneKey', HistoryStep,
         NEW k \in Keys, NEW t \in Tasks, S!Create(k, t) \/ S!Update(k, t),
         uids <= uids',
         NEW b \in 0 .. uids, OfThisProcess(b), t.uid > b, t.uid <= uids',
         \A c \in Clients : Carries(c)' => job'[c].task.uid > b
  PROVE  HistoryInv'
<1> DEFINE new == [rv |-> rv + 1, data |-> t]
<1>1. /\ items' = [items EXCEPT ![k] = new] /\ rv' = rv + 1
  BY DEF S!Create, S!Update, S!Write
<1>2. /\ items'[k] = new
      /\ \A l \in Keys : l # k => items'[l] = items[l]
  BY <1>1 DEF HistoryInv, TypeOK, S!TypeOK
<1>3. new # Absent /\ new.data = t /\ new.rv = rv + 1
      /\ new \in [rv : Nat, data : Tasks]
  BY NumbersOf, TaskRegistryAssumption DEF HistoryInv, S!StoreAssumption, S!Objects
<1> HIDE DEF new
<1>4. Record
  <2>1. rv' # rv
    BY <1>1, NumbersOf DEF HistoryInv
  <2> QED BY <2>1 DEF HistoryStep, historyVars, vars
<1>5. versions' = versions \cup {new}
  <2>1. \A l \in Keys : items'[l] # Absent => items'[l] \in versions \cup {new}
    BY <1>2 DEF HistoryInv, StoredAreVersions, S!Stored
  <2> QED BY <1>2, <1>3, <1>4, <2>1 DEF Record
<1>6. StoredAreVersions'
  BY <1>2, <1>5 DEF HistoryInv, StoredAreVersions, S!Stored
<1>7. \A v \in versions : v.rv \in Nat /\ v.data.uid \in Nat
  BY DEF HistoryInv, VersionsType, Tasks
<1>8. uids \in Nat /\ uids' \in Nat /\ rv \in Nat /\ t.uid \in Nat
  BY DEF HistoryInv, TypeOK, S!TypeOK, Tasks
<1>9. VersionsType'
  BY <1>3, <1>5 DEF HistoryInv, VersionsType
<1>10. VersionsIssued'
  BY <1>3, <1>5, <1>7, <1>8 DEF HistoryInv, VersionsIssued
<1>11. VersionNamesContent'
  <2>1. ASSUME NEW v \in versions, v.data.uid = t.uid PROVE v.rv # rv + 1
    BY <1>7, <1>8, <2>1 DEF OfThisProcess
  <2> QED BY <1>3, <1>5, <2>1 DEF HistoryInv, VersionNamesContent
<1>12. OfThisProcess(b)'
  <2>1. \A l \in S!Stored' : items'[l].data.uid > b
    BY <1>2, <1>3 DEF OfThisProcess, S!Stored
  <2>2. \A v \in versions' : v.data.uid > b => v.rv <= rv'
    BY <1>1, <1>3, <1>5, <1>7, <1>8 DEF OfThisProcess
  <2> QED BY <2>1, <2>2 DEF OfThisProcess
<1>13. b \in 0 .. uids'
  BY <1>8
<1> QED BY <1>6, <1>9, <1>10, <1>11, <1>12, <1>13 DEF HistoryInv

\* The jobs after one of them is replaced.
LEMMA JobsBornAfter ==
  ASSUME TypeOK, NEW b, OfThisProcess(b), NEW c \in Clients, NEW j, SetJob(c, j),
         j.op \in {"create", "update"} => j.task.uid > b
  PROVE  \A d \in Clients : Carries(d)' => job'[d].task.uid > b
BY DEF TypeOK, OfThisProcess, SetJob, Carries

LEMMA HistoryRestart ==
  ASSUME HistoryInv, TypeOK', UIDsHaveOneKey', HistoryStep, Restart
  PROVE  HistoryInv'
<1>1. /\ \A k \in Keys : items'[k] = Absent
      /\ \A c \in Clients : ~Carries(c)'
      /\ uids' = uids
  BY DEF Restart, S!New, Carries, NoJob
<1>2. versions' = versions /\ StoredAreVersions'
  BY <1>1, NothingToRecord DEF HistoryInv
<1>3. VersionsType' /\ VersionsIssued' /\ VersionNamesContent'
  BY <1>1, <1>2 DEF HistoryInv, VersionsType, VersionsIssued, VersionNamesContent
<1>4. uids \in Nat /\ \A v \in versions : v.data.uid \in Nat
  BY DEF HistoryInv, TypeOK, VersionsType, Tasks
<1>5. \A v \in versions : ~(v.data.uid > uids)
  BY <1>4 DEF HistoryInv, VersionsIssued
<1>6. OfThisProcess(uids)'
  BY <1>1, <1>2, <1>5 DEF OfThisProcess, S!Stored
<1>7. uids' \in 0 .. uids'
  BY <1>1, <1>4
<1> QED BY <1>2, <1>3, <1>6, <1>7 DEF HistoryInv

LEMMA HistoryPreserved ==
  ASSUME HistoryInv, HistoryStep
  PROVE  HistoryInv'
<1> TypeOK /\ UIDsHaveOneKey
  BY DEF HistoryInv
<1>1. [AnyNext]_vars
  BY HistoryStepIs
<1>2. TypeOK' /\ UIDsHaveOneKey'
  BY <1>1, TypeStep, UIDStep
<1>3. PICK b \in 0 .. uids : OfThisProcess(b)
  BY DEF HistoryInv
<1>4. rv \in Nat /\ uids \in Nat /\ b \in Nat
  BY NumbersOf
<1>5. \A j \in ListJobs \cup DeleteJobs : j.op \notin {"create", "update"}
  BY DEF ListJobs, DeleteJobs
<1>6. NoJob.op \notin {"create", "update"}
  BY DEF NoJob
<1>7. CASE NoEffect
  <2>1. \A c \in Clients : Carries(c)' => job'[c].task.uid > b
    BY <1>3, <1>7 DEF NoEffect, OfThisProcess, Carries
  <2> QED BY <1>2, <1>3, <1>4, <1>7, <2>1, SameVersions DEF NoEffect
<1>8. CASE Restart
  BY <1>2, <1>8, HistoryRestart
<1>9. CASE SuspendBare
  <2>1. UNCHANGED <<items, rv, uids>>
    BY <1>9 DEF SuspendBare
  <2>2. \A c \in Clients : Carries(c)' => job'[c].task.uid > b
    BY <1>3, <1>5, <1>9, JobsBornAfter DEF SuspendBare
  <2> QED BY <1>2, <1>3, <1>4, <2>1, <2>2, SameVersions
<1>10. CASE SuspendCreate
  <2>1. PICK c \in Clients, j \in CreateJobs, t \in Tasks :
          /\ t.uid = uids + 1
          /\ j.task = BeforeCreate(t)
          /\ SetJob(c, j)
          /\ uids' = uids + 1
          /\ UNCHANGED <<items, rv>>
    BY <1>10 DEF SuspendCreate
  <2>2. j.task.uid > b
    <3>1. j.task.uid = uids + 1
      BY <2>1, CreatedIsTask
    <3> QED BY <1>4, <3>1
  <2>3. \A d \in Clients : Carries(d)' => job'[d].task.uid > b
    BY <1>3, <2>1, <2>2, JobsBornAfter
  <2>4. uids <= uids' /\ rv <= rv'
    BY <1>4, <2>1
  <2> QED BY <1>2, <1>3, <2>1, <2>3, <2>4, SameVersions
<1>11. CASE SuspendUpdate
  <2>1. PICK c \in Clients, j \in UpdateJobs, new \in Tasks :
          /\ S!Has(j.key)
          /\ BeforeUpdateAccepts(j.view, new, items[j.key].data)
          /\ j.task = BeforeUpdate(j.view, new, items[j.key].data)
          /\ SetJob(c, j)
          /\ UNCHANGED <<items, rv, uids>>
    BY <1>11 DEF SuspendUpdate, Met
  <2>2. j.key \in S!Stored /\ j.task.uid = items[j.key].data.uid
    BY <2>1, UpdateJobFields DEF BeforeUpdateAccepts, S!Stored, S!Has
  <2>3. j.task.uid > b
    BY <1>3, <2>2 DEF OfThisProcess
  <2>4. \A d \in Clients : Carries(d)' => job'[d].task.uid > b
    BY <1>3, <2>1, <2>3, JobsBornAfter
  <2> QED BY <1>2, <1>3, <1>4, <2>1, <2>4, SameVersions
<1>12. CASE StoreNew
  <2>1. PICK k \in Keys, t \in Tasks :
          /\ t.uid = uids + 1
          /\ S!Create(k, BeforeCreate(t))
          /\ uids' = uids + 1
          /\ UNCHANGED job
    BY <1>12 DEF StoreNew
  <2>2. BeforeCreate(t) \in Tasks /\ BeforeCreate(t).uid = uids + 1
    BY <2>1, CreatedIsTask
  <2>3. /\ uids <= uids'
        /\ BeforeCreate(t).uid > b /\ BeforeCreate(t).uid <= uids'
    BY <1>4, <2>1, <2>2
  <2>4. \A c \in Clients : Carries(c)' => job'[c].task.uid > b
    BY <1>3, <2>1 DEF OfThisProcess, Carries
  <2> QED BY <1>2, <1>3, <2>1, <2>2, <2>3, <2>4, NewVersion
<1>13. CASE StoreCarried
  <2>1. PICK c \in Clients :
          /\ Carries(c)
          /\ S!Create(job[c].key, job[c].task) \/ S!Update(job[c].key, job[c].task)
          /\ SetJob(c, NoJob)
          /\ UNCHANGED uids
    BY <1>13 DEF StoreCarried, Carries
  <2>2. job[c].key \in Keys /\ job[c].task \in Tasks
    BY <2>1, CarriedTask
  <2>3. job[c].task.uid > b
    BY <1>3, <2>1 DEF OfThisProcess
  <2>4. job[c].task.uid <= uids' /\ uids <= uids'
    BY <1>4, <2>1, HeldType
  <2>5. \A d \in Clients : Carries(d)' => job'[d].task.uid > b
    BY <1>3, <1>6, <2>1, JobsBornAfter
  <2> QED BY <1>2, <1>3, <2>1, <2>2, <2>3, <2>4, <2>5, NewVersion
<1>14. CASE StoreDelete
  <2>1. PICK c \in Clients, k \in Keys :
          S!Delete(k) /\ SetJob(c, NoJob) /\ UNCHANGED uids
    BY <1>14 DEF StoreDelete
  <2>2. \A l \in Keys : items'[l] \in {items[l], Absent}
    BY <2>1 DEF S!Delete, TypeOK, S!TypeOK
  <2>3. rv <= rv' /\ uids <= uids'
    BY <1>4, <2>1 DEF S!Delete
  <2>4. \A d \in Clients : Carries(d)' => job'[d].task.uid > b
    BY <1>3, <1>6, <2>1, JobsBornAfter
  <2> QED BY <1>2, <1>3, <2>2, <2>3, <2>4, SameVersions
<1>15. CASE GiveUp
  <2>1. UNCHANGED <<items, rv, uids>>
    BY <1>15 DEF GiveUp
  <2>2. \A c \in Clients : Carries(c)' => job'[c].task.uid > b
    BY <1>3, <1>6, <1>15, JobsBornAfter DEF GiveUp
  <2> QED BY <1>2, <1>3, <1>4, <2>1, <2>2, SameVersions
<1> QED BY <1>1, <1>7, <1>8, <1>9, <1>10, <1>11, <1>12, <1>13, <1>14, <1>15, StepEffects

LEMMA HistoryBegins == HistoryInit => HistoryInv
<1> SUFFICES ASSUME HistoryInit PROVE HistoryInv
  OBVIOUS
<1>1. TypeOK
  BY DEF HistoryInit, Init, TypeOK, S!Init, S!TypeOK, Jobs, NoReply, Codes
<1>2. S!Stored = {} /\ versions = {} /\ uids = 0 /\ \A c \in Clients : ~Carries(c)
  BY DEF HistoryInit, Init, S!Init, S!Stored, Carries, NoJob
<1>3. UIDsHaveOneKey
  BY <1>2 DEF UIDsHaveOneKey, Held
<1>4. OfThisProcess(0) /\ 0 \in 0 .. uids
  BY <1>2 DEF OfThisProcess
<1> QED BY <1>1, <1>2, <1>3, <1>4
     DEF HistoryInv, VersionsType, VersionsIssued, StoredAreVersions, VersionNamesContent

\* A UID and a resourceVersion name one content for ever.
THEOREM HistoryVersionNamesContent == HistorySpec => []VersionNamesContent
<1>1. HistoryInv /\ [HistoryNext]_historyVars => HistoryInv'
  <2> SUFFICES ASSUME HistoryInv, [HistoryNext]_historyVars PROVE HistoryInv'
    OBVIOUS
  <2>1. HistoryStep
    BY NextIsAny DEF HistoryInv, HistoryNext, HistoryStep
  <2> QED BY <2>1, HistoryPreserved
<1>2. HistoryInv => VersionNamesContent
  BY DEF HistoryInv
<1> QED BY <1>1, <1>2, HistoryBegins, PTL DEF HistorySpec
=============================================================================
