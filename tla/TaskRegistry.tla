---------------------------- MODULE TaskRegistry ----------------------------
(***************************************************************************)
(* pkg/registry/tasks/task/storage.go: REST and StatusREST, the two views  *)
(* of the tasks resource, over one shared Store.                           *)
(*                                                                         *)
(* k8s.io/apiserver calls a handler on a goroutine per request, and the    *)
(* handlers hold no lock of their own: a handler that calls the Store      *)
(* twice (updateOnStore, Delete, a List that matched nothing) lets other   *)
(* requests run between its two calls.  So a handler is one action per     *)
(* call of the Store.  What it computed before the second call waits in    *)
(* job[c], c standing for one of the requests served at the same time.     *)
(* All that a handler does between two calls is local to it and is folded  *)
(* into the action of the call before it.                                  *)
(***************************************************************************)
EXTENDS TaskStrategy

CONSTANTS
  Clients,   \* requests that can be in flight at the same time
  Keys,      \* [ns, name] pairs
  Bodies,    \* the tasks clients send
  Absent

VARIABLES
  items, rv,  \* the Store
  uids,       \* how many UIDs have been issued: the last one's number
  job,        \* job[c]: what request c still has to do
  reply,      \* the response the last step sent, NoReply if it sent none
  epoch       \* how many server processes have started

S == INSTANCE Store WITH Data <- Tasks, Opaque <- {}

vars == <<items, rv, uids, job, reply, epoch>>

NoRV == 0        \* "resourceVersion is not set"
Everything == "" \* no label selector; as a namespace: all namespaces

Views == {"main", "status"}
Methods == {"put", "patch", "apply"}

ASSUME TaskRegistryAssumption ==
  /\ S!StoreAssumption
  /\ Absent \notin Tasks
  /\ Bodies \subseteq Tasks
  /\ Everything \notin Labels

\* rv and uid: the version and the UID the client made its request depend on.
NoJob == [op |-> "idle"]
UpdateJobs == [op : {"update"}, view : Views, key : Keys, task : Tasks,
               rv : Nat, uid : Nat]
CreateJobs == [op : {"create"}, view : Views, key : Keys, task : Tasks]
DeleteJobs == [op : {"delete"}, key : Keys, rv : Nat, uid : Nat]
ListJobs == [op : {"list"}]
Jobs == {NoJob} \cup UpdateJobs \cup CreateJobs \cup DeleteJobs \cup ListJobs

NoReply == [code |-> "none", rv |-> 0, keys |-> {}]
Codes == {"none", "OK", "Created", "BadRequest", "NotFound", "AlreadyExists",
          "Conflict", "Invalid", "Forbidden", "InternalError",
          "MethodNotSupported"}

TypeOK ==
  /\ S!TypeOK
  /\ uids \in Nat
  /\ job \in [Clients -> Jobs]
  /\ reply \in [code : Codes, rv : Nat, keys : SUBSET Keys]
  /\ epoch \in Nat \ {0}

-----------------------------------------------------------------------------
Idle(c) == job[c].op = "idle"

Answer(code) == reply' = [NoReply EXCEPT !.code = code]

\* A request that ends, with this response, where it began.
AnswerOnly(code) == Answer(code) /\ UNCHANGED <<items, rv, uids, job, epoch>>

\* The handler has made its first call of the Store and not yet its second.
Suspend(c, j) ==
  /\ job' = [job EXCEPT ![c] = j]
  /\ reply' = NoReply
  /\ UNCHANGED <<items, rv, epoch>>

\* Slip: the handler answers and is never done.
ReturnAndLinger(c, code) ==
  /\ job' = [job EXCEPT ![c] = [op |-> "done"]]
  /\ Answer(code)
  /\ UNCHANGED <<uids, epoch>>

\* The end of a handler that was suspended.
Return(c, code) ==
  /\ job' = [job EXCEPT ![c] = NoJob]
  /\ Answer(code)
  /\ UNCHANGED <<uids, epoch>>

-----------------------------------------------------------------------------
(* Conditions of a request on the object o it finds *)

\* Slips: one of the two preconditions, or the version, is not looked at.
checkUIDOnly(o, v, uid) == uid # NoUID => uid = o.data.uid
checkVersionGiven(o, v) == v = NoRV => AllowUnconditionalUpdate

checkPreconditions(o, v, uid) ==
  /\ uid # NoUID => uid = o.data.uid
  /\ v # NoRV => v = o.rv

checkResourceVersion(o, v) ==
  IF v = NoRV THEN AllowUnconditionalUpdate ELSE v = o.rv

-----------------------------------------------------------------------------
(* REST.Get and StatusREST.Get *)
Get(c, k) ==
  /\ Idle(c)
  /\ AnswerOnly(IF S!Has(k) THEN "OK" ELSE "NotFound")

(* REST.List.  The version of a list is the highest one in it; only if     *)
(* nothing matched does the handler ask the Store again, for its counter.  *)
Matches(ns, selector) ==
  {k \in S!List({l \in Keys : ns \in {Everything, l.ns}}) :
     selector \in {Everything, items[k].data.label}}

List(c, ns, selector) ==
  /\ Idle(c)
  /\ LET matched == Matches(ns, selector)
     IN  \/ /\ matched = {}
            /\ Suspend(c, [op |-> "list"])
            /\ UNCHANGED uids
         \/ \E newest \in matched :
              /\ \A k \in matched : items[k].rv <= items[newest].rv
              /\ reply' = [code |-> "OK", rv |-> items[newest].rv, keys |-> matched]
              /\ UNCHANGED <<items, rv, uids, job, epoch>>

ListCurrentResourceVersion(c) ==
  /\ job[c].op = "list"
  /\ job' = [job EXCEPT ![c] = NoJob]
  /\ reply' = [code |-> "OK", rv |-> S!CurrentResourceVersion, keys |-> {}]
  /\ UNCHANGED <<items, rv, uids, epoch>>

(* Requests answered without a call of the Store: no name or namespace, a  *)
(* namespace that differs from the object's, an UpdatedObject that fails;  *)
(* a field selector; a watch.                                              *)
Refuse(c) ==
  /\ Idle(c)
  /\ \E code \in {"BadRequest", "InternalError", "MethodNotSupported"} :
       AnswerOnly(code)

(* REST.Create *)

\* Slip: the system fields are not filled in, and a client's UID is kept.
CreateUnfilled(c, k, t) ==
  /\ Idle(c)
  /\ BeforeCreateAccepts(t)
  /\ S!Create(k, BeforeCreate(t))
  /\ uids' = uids + 1
  /\ Answer("Created")
  /\ UNCHANGED <<job, epoch>>

Create(c, k, t) ==
  LET new == FillObjectMetaSystemFields(t, uids + 1)
  IN  /\ Idle(c)
      /\ \/ ~BeforeCreateAccepts(new) /\ AnswerOnly("Invalid")
         \/ BeforeCreateAccepts(new) /\ AnswerOnly("Forbidden") \* createValidation
         \/ BeforeCreateAccepts(new) /\ S!Has(k) /\ AnswerOnly("AlreadyExists")
         \/ /\ BeforeCreateAccepts(new)
            /\ S!Create(k, BeforeCreate(new))
            /\ uids' = uids + 1
            /\ Answer("Created")
            /\ UNCHANGED <<job, epoch>>

-----------------------------------------------------------------------------
(* REST.Update and StatusREST.Update: updateOnStore *)

\* rest.UpdatedObjectInfo: what a PUT sends, or the patched old object (a
\* patch that leaves a field alone is one that repeats it).
UpdatedObject(method, old, t) ==
  IF method = "put"
    THEN t
    ELSE [old EXCEPT !.label = t.label, !.spec = t.spec, !.status = t.status]

\* The version the updated object carries: a patch that names none has the
\* version of the object it was applied to.
UpdatedVersion(method, o, v) == IF method # "put" /\ v = NoRV THEN o.rv ELSE v

\* UpdatedObjectInfo.Preconditions: the UID in the body of a PUT.
PreconditionUID(method, t) == IF method = "put" THEN t.uid ELSE NoUID

\* The endpoint handlers of k8s.io/apiserver set it for server-side apply.
ForceAllowCreate(method) == method = "apply"

\* The object is missing: lines 293-319, up to store.Create.
UpdateMissing(c, view, method, k, t) ==
  LET allowed == ForceAllowCreate(method) \/ AllowCreateOnUpdate
      new == FillObjectMetaSystemFields(t, uids + 1)
  IN  /\ Idle(c)
      /\ ~S!Has(k)
      /\ \/ ~allowed /\ AnswerOnly("NotFound")
         \/ allowed /\ ~BeforeCreateAccepts(new) /\ AnswerOnly("Invalid")
         \/ allowed /\ BeforeCreateAccepts(new) /\ AnswerOnly("Forbidden")
         \/ /\ allowed
            /\ BeforeCreateAccepts(new)
            /\ uids' = uids + 1
            /\ Suspend(c, [op |-> "create", view |-> view, key |-> k,
                           task |-> BeforeCreate(new)])

CreateOnUpdate(c) ==
  LET j == job[c]
  IN  /\ j.op = "create"
      /\ \/ S!Create(j.key, j.task) /\ Return(c, "Created")
         \/ /\ S!Has(j.key)
            /\ Return(c, "AlreadyExists")
            /\ UNCHANGED <<items, rv>>

\* The object is there: lines 324-343, up to store.Update.
UpdateExisting(c, view, method, k, t, v) ==
  LET o == items[k]
      new == UpdatedObject(method, o.data, t)
      uid == PreconditionUID(method, t)
      current == /\ checkPreconditions(o, NoRV, uid)
                 /\ checkResourceVersion(o, UpdatedVersion(method, o, v))
  IN  /\ Idle(c)
      /\ S!Has(k)
      /\ \/ ~current /\ AnswerOnly("Conflict")
         \/ current /\ ~BeforeUpdateAccepts(view, new, o.data) /\ AnswerOnly("Invalid")
         \/ current /\ BeforeUpdateAccepts(view, new, o.data) /\ AnswerOnly("Forbidden")
         \/ /\ current
            /\ BeforeUpdateAccepts(view, new, o.data)
            /\ UNCHANGED uids
            /\ Suspend(c, [op |-> "update", view |-> view, key |-> k,
                           task |-> BeforeUpdate(view, new, o.data),
                           rv |-> v, uid |-> uid])

UpdateStore(c) ==
  LET j == job[c]
  IN  /\ j.op = "update"
      /\ \/ S!Update(j.key, j.task) /\ Return(c, "OK")
         \/ /\ ~S!Has(j.key)
            /\ Return(c, "NotFound")
            /\ UNCHANGED <<items, rv>>

-----------------------------------------------------------------------------
(* REST.Delete *)

Delete(c, k, v, uid) ==
  /\ Idle(c)
  /\ \/ ~S!Has(k) /\ AnswerOnly("NotFound")
     \/ S!Has(k) /\ ~checkPreconditions(items[k], v, uid) /\ AnswerOnly("Conflict")
     \/ S!Has(k) /\ checkPreconditions(items[k], v, uid) /\ AnswerOnly("Forbidden")
     \/ /\ S!Has(k)
        /\ checkPreconditions(items[k], v, uid)
        /\ UNCHANGED uids
        /\ Suspend(c, [op |-> "delete", key |-> k, rv |-> v, uid |-> uid])

\* Slip: no answer when the object has gone in the meantime.
DeleteWaits(c) ==
  /\ job[c].op = "delete"
  /\ S!Delete(job[c].key)
  /\ Return(c, "OK")

DeleteFromStore(c) ==
  LET j == job[c]
  IN  /\ j.op = "delete"
      /\ \/ S!Delete(j.key) /\ Return(c, "OK")
         \/ /\ ~S!Has(j.key)
            /\ Return(c, "NotFound")
            /\ UNCHANGED <<items, rv>>

-----------------------------------------------------------------------------
(* installTasksGroup in a new process: the Store is new, the requests in   *)
(* flight are lost; the UIDs, which are random, do not start again.        *)
Restart ==
  /\ S!New
  /\ job' = [c \in Clients |-> NoJob]
  /\ reply' = NoReply
  /\ epoch' = epoch + 1
  /\ UNCHANGED uids

Init ==
  /\ S!Init
  /\ uids = 0
  /\ job = [c \in Clients |-> NoJob]
  /\ reply = NoReply
  /\ epoch = 1

\* A client may name any version and any UID that has existed.
Read(c) ==
  \/ \E k \in Keys : Get(c, k)
  \/ \E ns \in {Everything} \cup {k.ns : k \in Keys},
        selector \in {Everything} \cup Labels : List(c, ns, selector)
  \/ Refuse(c)

WriteThrough(c, views) ==
  \E k \in Keys :
    \/ \E t \in Bodies : Create(c, k, t)
    \/ \E view \in views, method \in Methods, t \in Bodies :
         UpdateMissing(c, view, method, k, t)
    \/ \E view \in views, t \in Bodies, v \in 0 .. rv :
         \/ \E uid \in 0 .. uids :
              UpdateExisting(c, view, "put", k, [t EXCEPT !.uid = uid], v)
         \/ \E method \in Methods \ {"put"} :
              UpdateExisting(c, view, method, k, t, v)
    \/ \E v \in 0 .. rv, uid \in 0 .. uids : Delete(c, k, v, uid)

Write(c) == WriteThrough(c, Views)

Proceed(c) ==
  \/ ListCurrentResourceVersion(c)
  \/ CreateOnUpdate(c)
  \/ UpdateStore(c)
  \/ DeleteFromStore(c)

Next == Restart \/ \E c \in Clients : Read(c) \/ Write(c) \/ Proceed(c)

Spec == Init /\ [][Next]_vars

\* Go's scheduler runs every runnable goroutine, and no method of the Store
\* blocks while it holds the lock: a handler gets to its second call.
FairSpec == Spec /\ \A c \in Clients : WF_vars(Proceed(c))

\* The promise of the API to clients that do not overlap.
Contract == INSTANCE TaskContract WITH
  tasks <- [k \in Keys |-> IF S!Has(k) THEN items[k].data ELSE Absent]

-----------------------------------------------------------------------------
(* What holds of every interleaving *)

Acceptable(t) ==
  /\ t.gen >= 1
  /\ t.status.og \in 0 .. t.gen
  /\ t.spec.image # ""
  /\ t.label \in ValidLabels
  /\ t.status.report \in ValidReports

\* Whole objects are written, each derived from one earlier object, so no
\* race can store a status that observes a generation the stored spec has not
\* reached, or a spec or status its validator would refuse, although neither
\* view validates what the other one owns (strategy.go:88 and :133).
StoredTasksValid == \A k \in S!Stored : Acceptable(items[k].data)

\* The same of the tasks that suspended handlers are about to store: with it,
\* StoredTasksValid is inductive.
Carries(c) == job[c].op \in {"create", "update"}

AllTasksValid ==
  /\ StoredTasksValid
  /\ \A c \in Clients : Carries(c) => Acceptable(job[c].task)

\* FillObjectMetaSystemFields gives each creation its own UID, and the handlers
\* carry it to one key only: no two stored tasks share a UID.
UIDsDistinct ==
  \A k, l \in S!Stored : items[k].data.uid = items[l].data.uid => k = l

\* The inductive form: which key holds which UID, in the Store or in the hands
\* of a suspended handler.  A UID has one key, for ever, and was issued before.
Held ==
  {<<k, items[k].data.uid>> : k \in S!Stored} \cup
  {<<job[c].key, job[c].task.uid>> : c \in {d \in Clients : Carries(d)}}

UIDsHaveOneKey ==
  \A p \in Held :
    /\ p[2] \in 1 .. uids
    /\ \A q \in Held : p[2] = q[2] => p[1] = q[1]

\* Every request is answered, unless the server restarts first.
EveryRequestAnswered ==
  \A c \in Clients : ~Idle(c) ~> Idle(c)

-----------------------------------------------------------------------------
(* What the handlers are documented to do: true of requests that do not    *)
(* overlap, each one false of some that do                                 *)

Wrote(c) == job[c].op = "update" /\ job'[c] = NoJob /\ reply'.code = "OK"
Deleted(c) == job[c].op = "delete" /\ job'[c] = NoJob /\ reply'.code = "OK"

Before(c) == items[job[c].key]
After(c) == items'[job[c].key]

\* checkResourceVersion and checkPreconditions in updateOnStore: an update that
\* names a version or a UID replaces the object that has it, never a newer
\* version, never a later object of the same name.
UpdateHonoursConditions ==
  [][\A c \in Clients :
       Wrote(c) =>
         /\ job[c].rv \in {NoRV, Before(c).rv}
         /\ job[c].uid \in {NoUID, Before(c).data.uid}]_vars

\* checkPreconditions in Delete: what is deleted has the version and the UID
\* that the client named.
DeleteHonoursPreconditions ==
  [][\A c \in Clients :
       Deleted(c) =>
         /\ job[c].rv \in {NoRV, Before(c).rv}
         /\ job[c].uid \in {NoUID, Before(c).data.uid}]_vars

\* The two PrepareForUpdate: a write to /status changes neither the stored spec
\* nor the generation, and a plain update does not change the stored status.
ViewsKeepApart ==
  [][\A c \in Clients :
       Wrote(c) =>
         IF job[c].view = "status"
           THEN /\ After(c).data.spec = Before(c).data.spec
                /\ After(c).data.gen = Before(c).data.gen
           ELSE After(c).data.status = Before(c).data.status]_vars

SameIntent(s, t) ==
  s.image = t.image /\ s.command.elems = t.command.elems /\ s.args.elems = t.args.elems

\* Strategy.PrepareForUpdate: a plain update adds one to the stored generation
\* if it changes the stored spec and keeps it otherwise, so that no generation
\* names two specs and observedGeneration can tell which one was acted on.
GenerationTracksSpec ==
  [][\A c \in Clients :
       Wrote(c) /\ job[c].view = "main" =>
         After(c).data.gen = Before(c).data.gen +
           (IF SameIntent(After(c).data.spec, Before(c).data.spec) THEN 0 ELSE 1)
    ]_vars

\* updateOnStore as a whole: the tasks change only the way the API promises.
ImplementsContract == Contract!Spec
=============================================================================
