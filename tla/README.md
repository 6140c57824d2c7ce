# simple-apiserver: a verification project

`simple-apiserver` is an aggregated Kubernetes API server for one resource,
`tasks` in `tasks.example.com/v1alpha1`, kept in memory. This directory holds
TLA+ models of it, TLC runs that check them on small instances, and proofs that
TLAPS checks for every instance.

In short:

- **The store is right, and so is each handler on its own. What the handlers say
  about conditions, status and generation does not survive two requests that
  overlap**, because a handler reads and writes the store in two critical
  sections. It does hold, for any number of clients, if updates and deletes of the
  same task do not overlap; that is proved.
- What does survive every overlap is checked and proved: stored tasks are valid,
  a UID has one key, a UID with a version names one content across restarts. So,
  too, a user may rely on `observedGeneration`: with a controller that follows
  the repository's rule, a task whose generation is observed shows the outcome
  of the spec it has.
- The binary never serves a certificate next to another one's key. Starts that
  are refused leave the certificate directory as good as it was; a start that is
  killed, or gets an error, while it writes the pair leaves one that every later
  start refuses until `dev-clean`. But **SIGTERM does not shut it down
  gracefully**: `main` gives `Run` a context, and
  only a missing one gets a signal handler.
- The registered types, the storages and the generated OpenAPI definitions fit,
  and no document has a dangling reference, in whatever order Go visits its maps.

## The system

| Component | State | Operations | Interacts with |
|---|---|---|---|
| Store, `pkg/storage/inmemory/store.go` | `items` (map of keys to objects), `rv` (counter), an `RWMutex` | `New`, `Create`, `Get`, `List`, `Update`, `Delete`, `CurrentResourceVersion`, `Len` | shared by every view and every request |
| Strategy, `pkg/registry/tasks/task/strategy.go`, `helpers.go` | none | `PrepareForCreate/Update`, `Validate`, `ValidateUpdate`, the same of `StatusStrategy` | called by the handlers and by `rest.BeforeCreate/BeforeUpdate` of k8s.io/apiserver |
| `REST`, `StatusREST`, `pkg/registry/tasks/task/storage.go` | local variables of a request | `Get`, `List`, `Create`, `Update`, `Delete`, `Watch`; `/status` `Get` and `Update` | called by k8s.io/apiserver, one goroutine per request; call the store and the strategies |
| Assembly, `pkg/apiserver/apiserver.go` | `Scheme`, filled by `init`; the one store, made in `installTasksGroup` | `init`, `Complete`, `New`, `installTasksGroup`, the OpenAPI configurations | hands the same store to both views; looks kinds up in the Scheme and models in the generated table |
| Registration and generated code, `pkg/apis/tasks/`, `pkg/generated/openapi` | two tables | `addKnownTypes`, `GetOpenAPIDefinitions`, `DeepCopyInto` | read by the assembly and the store |
| Command, `cmd/simple-apiserver/` | options; the pair it loaded, its port, the requests it answers | `Complete`, `Validate`, `Config`, `Run` | shares `--cert-dir` with other invocations and with the `dev` recipes of the Justfile |
| Certificates, `hack/gen-certs/main.go`, `hack/e2e-up.sh` | four files, a Secret, an APIService | generate, apply | the e2e cluster |

What makes the system correct, by component:

- *Store*: versions are distinct and ordered like the events, deletions
  included; a method that fails leaves the map alone; nothing is shared with
  callers.
- *Strategy*: a change of spec moves the generation by one and nothing else
  does; each view writes its own half of the task.
- *Handlers*: a write that names a version or a UID replaces exactly that one;
  what is stored passes validation; every request is answered.
- *Users and a controller together*: what is observed was acted on, and what is
  left alone is observed in the end.
- *Assembly*: every lookup succeeds, in the first server of a process and in
  later ones; every published document is closed.
- *Command*: what serves has a certificate that matches its key; a start that is
  refused does no harm; a shutdown lets requests finish.
- *Certificates*: the four files that are found belong together.

What makes it hard:

- *Two critical sections per write.* `updateOnStore` (storage.go:292 and :345),
  its create path (:292 and :314) and `Delete` (:198 and :212) read under one
  lock and write under another, and no store method compares versions.
- *Split validation.* The main view does not validate the status, and `/status`
  does not validate the spec; each copies the other half from what it read.
- *Pointers and a lock.* Objects are pointers to structs with slices in them;
  only deep copies on every way in and out, and a lock that every return gives
  back, make a method of the store a step of its own.
- *Files written one by one.* gen-certs looks at which files exist, and can be
  stopped between two of them or inside one. `Complete` does the same with a
  pair, before `Validate` has looked at the flags, and returns if a write fails,
  in a directory that other invocations, `dev-kubeconfig` and `dev-clean` use at
  the same time. `dev-clean` removes both directories, one file after the other.
- *Three tables.* Nothing compares, when the program is built, what is registered,
  what the storages hand out and what is generated; Go visits the routes in any
  order, and one Scheme serves all servers of a process.
- *Late reports.* A controller reports on a copy, while users change, delete and
  create tasks and the server restarts with the same version numbers.
- *Restart.* The map is gone and the counter starts again from 0, while clients
  keep the versions they read.
- *Callers outside the repository.* PUT, PATCH and server-side apply reach
  `updateOnStore` with different objects, preconditions and `forceAllowCreate`.

`PROJECT.json` lists these and the other hazards, each at its line, with the
properties that watch it.

## The modules

| Module | Models | How it corresponds |
|---|---|---|
| `Store` | the store | every method holds the mutex from its first line to its return, so each is one action or one state function. `bumpAndStampLocked` is `Write`: the counter moves even when the object is `Opaque` and refused |
| `StoreHeap` | the inside of the store: goroutines, the `RWMutex`, the statements between `Lock` and `Unlock`, structs and slices | an object is a struct cell that points to a slice cell; callers keep one object each and change it between calls. `Ahead` and `Behind` are the moments inside a method when the map and the counter disagree; the refinement mapping corrects the counter there |
| `TaskStrategy` | types, strategies, helpers | operators on tasks, no state. A task is a record `uid, gen, label, spec, status` |
| `TaskRegistry` | `REST`, `StatusREST`, the store they share, restarts | one action per critical section of a handler (below) |
| `TaskContract` | what the API promises | each task alone: created at generation 1, then spec writes, status writes, deletion. No versions, handlers or requests |
| `TaskHistory` | `TaskRegistry` with a memory of every version ever stored | a history variable; it restricts nothing |
| `TaskController` | `TaskHistory` with users on the main view and a controller on `/status` | the controller is not in the repository: it follows `.github/copilot-instructions.md:179-181`. `copy` is the task it works on, as it read it |
| `OpenAPIBuilder` | how kube-openapi puts a document together | follows the dependencies of each model of each route, in any order |
| `TaskOpenAPI` | `zz_generated.openapi.go` | for each of its definitions, the models it refers to and those it lists as dependencies |
| `APIServer` | `apiserver.go`, `register.go`, `install.go` | one action per stage: the `init` functions, `New`, the models and routes of `InstallAPIGroup`, the documents of `PrepareRun` |
| `ServerLifecycle` | `server.go`, and the `dev` recipes | `pc[p]` is where an invocation is; one action per file operation, check and signal; `WriteFails` is the error that `Complete` returns. A file holds the number of the pair it belongs to, or is `Torn` |
| `CertBootstrap` | gen-certs as e2e-up.sh runs it | a file holds the number of the `generate` that wrote it, or is `Torn` (opened, not written); one action per file operation and per command that touches certificates; `Interrupt` anywhere, and `RemoveCert`, a file that `dev-clean` removes, too |
| `MCStore`, `MCStoreHeap`, `MCTaskRegistry`, `MCTaskHistory`, `MCTaskController`, `MCAPIServer`, `MCServerLifecycle`, `MCCertBootstrap` | | constants, bounds, symmetry and views for TLC |
| `StoreProofs`, `StoreHeapProofs`, `TaskRegistryProofs`, `TaskHistoryProofs`, `TaskControllerProofs`, `APIServerProofs`, `ServerLifecycleProofs`, `CertBootstrapProofs` | | theorems |

`TaskRegistry` uses `Store` as `S == INSTANCE Store WITH Data <- Tasks, Opaque <- {}`
(a Task always has ObjectMeta); `StoreHeap` is shown to implement `Store`, so the
registry may take a method for one step; and `TaskRegistry` is shown to
implement `TaskContract`, unless writes of one task overlap, through `Contract`, which maps `items` to the tasks in it.
`TaskController` extends `TaskHistory`, which extends `TaskRegistry`; `APIServer`
extends `OpenAPIBuilder`, and `MCAPIServer` gives it the table of `TaskOpenAPI`.

### Handlers as actions

`job[c]` is what request `c` still has to do; `NoJob` when it has no handler
suspended. What a handler does between two calls of the store touches only its
own variables, so it belongs to the action of the earlier call.

| Handler | Actions |
|---|---|
| `REST.Get`, `StatusREST.Get` | `Get` |
| `REST.List` | `List`; when nothing matched, `ListCurrentResourceVersion` in a second critical section (storage.go:155-159) |
| `REST.Create` | `Create` |
| `updateOnStore`, key free | `UpdateMissing`, then `CreateOnUpdate` if the caller forces a creation |
| `updateOnStore`, key taken | `UpdateExisting`, then `UpdateStore` |
| `REST.Delete` | `Delete`, then `DeleteFromStore` |
| `REST.Watch`, requests refused before the store is called | `Refuse` |
| a new process | `Restart` |

Each early return is a disjunct with its own response: `Conflict` from
`checkPreconditions` and `checkResourceVersion`, `Invalid` from the strategies,
`Forbidden` from the admission callbacks (`createValidation`, `updateValidation`,
`deleteValidation`), which may refuse anything. `UpdateMissing` and
`UpdateExisting` take the view, and `BeforeUpdate(view, ...)` picks the strategy.

### Modelled from how the code uses it

k8s.io/apiserver, kube-openapi and the clients are not in `src/`. What the code
relies on is modelled and marked external in the map:

- *Requests*: `rest.FillObjectMetaSystemFields` (a new UID for every creation),
  `rest.BeforeCreate` and `rest.BeforeUpdate` (preparation followed by
  validation, the UID of the old object kept), `rest.UpdatedObjectInfo` (a PUT
  sends a whole object and its UID is a precondition; a PATCH changes the object
  that was read, and has its version unless it names one), and `forceAllowCreate`
  (true for server-side apply). For `/status` its value depends on the version
  of k8s.io/apiserver; the model takes the worst case.
- *Starting*: `MaybeDefaultWithSelfSignedCerts` (keep two files, refuse one,
  generate two, return the error of whatever fails), `SecureServing.ApplyTo` (listen, then read the pair, which
  `tls.X509KeyPair` refuses if it is none), the reload of a pair whose files
  change, `SetupSignalContext`, and a `Run` that stops listening and drains until
  its requests are answered or its shutdown timeout is over. The
  authentication, audit and feature groups, and `New`, are one step that can fail.
- *Assembly*: `metav1.AddToGroupVersion`, what the API installer looks up for a
  storage, by its `rest` interfaces, and the recursion of the OpenAPI builder,
  which ends the build at a model it does not find.
- *The controller*: reads a task whose generation is not observed, reports with
  `UpdateStatus` on that copy (its UID and version are conditions), tries again
  after an admission plugin's refusal and reads again after any other.

### Abstractions

- Versions are numbers, not the decimal strings of `strconv.FormatUint`; the
  code compares them for equality only, and List parses them back
  (storage.go:151). `rv` is a natural number, not `uint64`.
- UIDs are numbers handed out in order, so that "never issued twice" is what
  random UIDs are.
- One field, `label`, stands for the metadata users own; `ValidLabels` are the
  values that pass validation. `report` stands for phase and conditions in the
  same way; `og` is `observedGeneration`, which the code compares with the
  generation.
- A slice is `[nil, elems]`: `specEqual` is about that difference.
- Dry-run has no effect in the model, as in the code: the handlers take the
  options and do not look at them (storage.go:163, :281).
- In `StoreHeap` a caller keeps one object: what was passed or what was returned.
  That is enough to notice a pointer that leads into the map, which is all that
  the copies are to prevent. `List` makes a copy per key; the caller keeps one.
- Certificates are numbers: "signed by" and "belongs to" are equality. Images,
  RBAC and the creation of the cluster are left out of `CertBootstrap`.
- Definitions marked *Slip* are variants with a plausible mistake. No
  specification uses them: they are put in the place of the definition that
  follows, to see that a property notices.
- In `StoreHeap` a new object takes some free cells (`AnyOf`): which ones makes no
  difference, as the view of its run says, too.
- `CallRead` takes the non-empty sets of keys a list may select.
- An OpenAPI definition is two sets of models, each transcribed from its own
  lines: the `$ref`s of its schema and its `Dependencies`. Types, formats and
  descriptions have no part in how documents are put together.
- In `ServerLifecycle` pairs are numbered. Of the flags, the authorization mode
  and where the certificates are matter to what happens; a pair given by flags is
  whole and stays outside. Every server wants the same port. `exit` tells how
  the last step ended an invocation.
- `past` is a history variable of `ServerLifecycle` and `CertBootstrap`, for the
  time since the last `dev-clean` that got to its end: "calm"; "stopped", when
  the only writer there was failed or was killed after it had opened its first
  file; "disturbed", when writers overlapped, or a `dev-clean` met one or has not
  got to its end. `CertBootstrap` needs no "stopped": its writer starts again. No
  guard reads it.
- To open a file, which empties it, and to write it are two actions. One that
  fails leaves the file as it was then. What is written to a file that was removed
  since it was opened is lost.
- Table conversion, field selectors beyond their refusal, and logging are left
  out.

## The runs

| Run | Checks | Shows |
|---|---|---|
| `store` | `TypeOK`, `StampsDistinct`, `VersionsOrderEvents` | every sequence of methods, with restarts and objects that cannot be stamped: a version orders every event of one store |
| `sequential` | `TypeOK`, `StoredTasksValid`, `UpdateHonoursConditions`, `DeleteHonoursPreconditions`, `GenerationTracksSpec`, `ImplementsContract` | requests one at a time, with every kind of body and condition: the documented promises hold, and the handlers implement the contract |
| `overlap` | `UIDsHaveOneKey`, `AllTasksValid`, `VersionNamesContent` | two overlapping requests on two tasks, around a restart: a UID has one key for ever; no mixture of two writes is invalid, not even an `observedGeneration` ahead of the generation, which neither view could notice in the other's half; a UID with a version names one content, though the counter is reset |
| `controller` | `ObservedMeansActedOn`, `EventuallySettled`, `EveryRequestAnswered` | users who overlap with a controller: an observed generation means that the spec was acted on, although one generation may name two specs; a task that is left alone is observed; every suspended handler answers, also when its object has gone |
| `heap` | `TypeOK`, `NoAliasing`, `ListIsSnapshot`, `ImplementsStore`, `CallsReturn` | two goroutines in the store: nothing callers hold is part of the map, a list shows one state, `Store` is implemented, and every method returns and releases the lock, on failing paths too |
| `lifecycle` | `TypeOK`, `ServesSound`, `CertsUsable`, `KubeconfigStaysValid`, `WholePairStays`, `StartsEnd` | two invocations on one directory and one port, refused, killed, signalled or failing anywhere, and the `dev` recipes: no mismatched pair is served; `Complete` before `Validate` does no harm; what a failed writer leaves is not completed with half of another pair; a whole pair and the kubeconfigs made from it stay good; starts end |
| `openapi` | `TypeOK`, `DocumentsClosed`, `TablesFit`, `GetsToServe` | servers put together in every order of routes and dependencies, again in one process and in new ones: no lookup fails, documents are closed, the server gets to serve |
| `certs` | `TypeOK`, `LastFileVouches`, `BundleVouchesForPods`, `RerunKeepsTrust` | interrupted and repeated bring-ups, and a `dev-clean` at any time: files found together belong together, the bundle matches the pods, a second run keeps the trust |
| `race_update` | `UpdateHonoursConditions`, violated | an update that names a version overwrites what was stored after its check |
| `race_delete` | `DeleteHonoursPreconditions`, violated | a conditional delete removes what it did not name |
| `race_views` | `ViewsKeepApart`, violated | a write to one view undoes a write to the other |
| `signal` | `SignalShutsDownGracefully`, violated | SIGTERM drops the requests that the binary is answering |

The first three violations need two requests and are properties that one client
at a time keeps (`ViewsKeepApart` follows from `ImplementsContract`): the handlers
are right alone and wrong together. That no
overlap does it but that of two updates or deletes of one task is proved
(`WritesApart`, below). The fourth takes `Contexts` as `main.go` has
it: cobra gives a command `context.Background()`, never `nil`, so the branch of
`Run` that installs a signal handler is not taken. Each is a finding in
`PROJECT.json` with the comment or test it contradicts.

The counterexample of `race_update`: a task is created (version 1); an update that
names version 1 reads it and passes `checkResourceVersion`; another write is
stored (version 2), be it a PUT that names version 1 as well or a status write
that names none; the first update stores version 3, over what it never saw, and
both are answered OK.
The same overlap gives one generation to two specs, and `controller` says why a
user who waits for `observedGeneration` is not misled: a main write keeps the
status it read, and a status write that is let through found the very version
that was acted on.

### Bounds

`BoundedNext == Next /\ InBounds'` bounds the writes of one process (`MaxRV`),
the creations (`MaxUID`) and the processes (`MaxEpoch`). A suspended handler has
a version set aside for its write, so that no bound stops a handler halfway: a
deadlock or a handler without an answer would be the model's. `Spec` itself has
no bound.

- `store`: three keys, two values and one opaque one, six writes: every method
  from every shape of the map, and two writes after everything was deleted.
- `sequential`: four writes and two creations see create, two updates and a
  delete, or a task deleted and created again. The bodies take every value of each
  field: valid, invalid, nil and empty slices, an observed generation from -1
  to above the highest generation.
- `overlap`: two requests, two keys, two processes with four writes each, two
  creations and four different versions (`MaxVersions`) in all.
  A race here is between one read-to-write window and what others do inside it,
  and one other client can do anything inside it, any number of times: windows do
  not need a third. The writes allow create, delete and create again inside a
  window, which is what identity needs. Of its two bodies one has a spec that
  moves the generation, the other an observed generation that only a changed
  spec has reached.
- `controller`: one task, two handlers at a time, three specs of which two have
  the same outcome, so that two users can put specs with different outcomes under
  one generation. The bounds stop users and restarts only (a user's last write comes one version
  earlier in the second process): the controller, and every
  suspended handler, goes on for ever, as liveness requires.
- `heap`: two goroutines, two keys, two writes, opaque objects: both keys are
  taken, or one is overwritten or deleted, while a list is at either and copies
  are around. Five addresses are what two stored, two kept and one new object
  need; the view identifies states that differ only in the choice of addresses.
- `lifecycle`: two invocations, two pairs, one request each. Two see every
  overlap of a writer with a writer, a reader, a server or what a failed writer
  left, and the second pair is the one that a server or a kubeconfig has not.
  `signal` has one pair.
- `openapi`: the exact tables of the code, and no bound.
- `certs`: four generations; what matters is a new one over the remains of an
  older one, and a cluster made from a third.
- `reply` is left out of the fingerprint (`VIEW View`) in the runs whose
  properties do not depend on the states it tells apart: no action reads it, and
  properties of steps see every step. No run that checks liveness uses symmetry,
  and the views of `controller` and `heap` identify only states with the same
  steps ahead, fair ones included.

### Fairness

`FairSpec` has weak fairness on `Proceed(c)`, the second half of a suspended
handler, for each request: Go runs every runnable goroutine, no store method
blocks or calls out while it holds the lock, and a Go `RWMutex` lets every waiter
in eventually. `Proceed(c)` stays enabled until it is taken or the server
restarts, so weak fairness is enough. Nothing obliges a client to send.

`ControllerFairness` adds the controller's own loop: it looks at every task that
it has to act on, and it sends its report. Letting a report through has strong
fairness: users may make one conflict and an admission plugin may refuse one, but
neither does so for ever (users are bounded; `EventuallySettled` speaks of
the time after them).

In `ServerLifecycle` an invocation has weak fairness on what it does by itself
(`Advance`): none of its steps waits for another process, and draining has a
timeout. Which of its steps it takes, and so whether a write fails, is left open.
Signals, kills, requests, reloads and recipes are never obliged. In `APIServer`, `Starting` has weak fairness: a
start waits for nobody.

In `StoreHeap` the statements of a method have weak fairness, and taking the
lock has strong fairness: `sync.Mutex` hands itself to who has waited too long,
a waiting `Lock` keeps new readers out, and `Unlock` lets the waiting readers in
before the next writer.

## The proofs

Assumptions: `StoreAssumption`, `StoreHeapAssumption`, `TaskStrategyAssumption`, `TaskRegistryAssumption`,
`TaskControllerAssumption`, `ServerLifecycleAssumption` and
`CertBootstrapAssumption`: `Absent` is no object and no task, and like
`Nil` no address, what clients send are tasks, the
empty selector is no label, the values called valid are values, the controller
reports something valid and the same for equal specs, there is some context and
`Torn` is no number. TLC evaluates each of them. Sets of clients, goroutines, keys, addresses, bodies,
invocations and modes are arbitrary, finite or not, and nothing is bounded.
The theorems about `APIServer` hold for every table of definitions that has what
they ask of it: `ListsReferences` (a definition lists what it refers to), or
`Complete` (what is listed is defined) with `V2Document \subseteq DOMAIN
Definitions` (what the routes need is defined). That the generated table has all
three shows in the run `openapi`.

| Theorem | Says |
|---|---|
| `StoreTypeCorrect`, `StoreStampsDistinct`, `StoreVersionsOrderEvents` | the three properties of `Store` |
| `HeapTypeCorrect`, `HeapNoAliasing`, `HeapListIsSnapshot` | the three safety properties of `StoreHeap`, for any goroutines, keys and addresses |
| `HeapImplementsStore` | `Spec => ImplementsStore`: the locked store, statement by statement, implements `Store` |
| `RegistryTypeCorrect` | `Spec => []TypeOK` |
| `RegistryImplementsStore` | `Spec => S!Spec`: handlers change the store through its methods only, one method a step. The theorems about the store hold of the registry |
| `RegistryTasksValid`, with `RegistryStoredTasksValid` | nothing invalid is stored or about to be |
| `RegistryUIDsHaveOneKey`, with `RegistryUIDsDistinct` | a UID has one key |
| `ApartUpdateHonoursConditions`, `ApartDeleteHonoursPreconditions`, `ApartViewsKeepApart`, `ApartGenerationTracksSpec`, `ApartImplementsContract` | `Spec /\ []WritesApart => ...`: for any number of clients, what the handlers are documented to do, as long as no two updates or deletes of one task overlap |
| `OneClientKeepsContract` | a single client keeps to that, so all five hold of one |
| `HistoryVersionNamesContent` | a UID with a version names one content, over any number of restarts |
| `ControllerObservedMeansActedOn` | an observed generation means an acted-on spec, for any users, keys and outcomes |
| `LifecycleServesSound`, `LifecycleCertsUsable`, `LifecycleKubeconfigStaysValid`, `LifecycleWholePairStays`, `LifecycleTypeCorrect` | the five safety properties of `ServerLifecycle`, for any number of invocations |
| `APIServerDocumentsClosed`, `APIServerTablesFit`, `APIServerTypeCorrect` | the three of `APIServer`, for every table that has what they ask |
| `CertLastFileVouches`, `CertBundleVouchesForPods`, `CertRerunKeepsTrust`, `CertTypeCorrect` | the four properties of `CertBootstrap`, for any number of runs, interruptions and removals |

*The inside of the store.* `NoAliasing` is not inductive: a method that is about to
put its object into the map could have taken it from a caller. `HeapInv` adds what
the lock and the copies give. A writer past the lock is alone, and readers are
exactly those who iterate (`LockOf`); the object that a method has in hand shares
neither its struct nor its slices with a stored or a kept one (`Private`), since
`DeepCopy` allocates apart from all that any pointer leads to
(`AllocationIsFresh`); and what is about to be put has the counter as its version
(`CallOf`). So a caller's change between calls touches what it keeps and nothing
else (`OthersKeep`), and a stored object changes only by the hands of the writer.
For the refinement, the map as seen from outside changes only at `Put` and
`Remove`: the object of a writer that has stamped and not yet put, or removed and
not yet bumped, is what `Ahead` and `Behind` correct the counter for, and by
mutual exclusion there is at most one of them.

*Validity.* `StoredTasksValid` is not inductive: a suspended handler could carry
anything. `AllTasksValid` adds the tasks in `job`, and is. The argument for an
update: the new object takes from the stored one exactly the half that its
validator does not look at, that half was acceptable next to the old
generation, and generations only grow within one object; so `og <= gen` holds
of the mixture. It needs no version check, which is why the races do not break it.

*Identity.* `UIDsDistinct` is not inductive for the same reason: the object of a
suspended update is deleted, and comes back with its UID. `UIDsHaveOneKey`
speaks of all pairs of key and UID `Held` in the store or by handlers, and says
that each was issued; a new UID is above all of them.

*Writes that do not overlap.* `Spec /\ []WritesApart` says that no two handlers
have an update or a delete of the same task suspended at the same time. That is
all: creations, reads, writes of other tasks and restarts overlap as they like.
`ApartInv` is inductive under it: what a suspended update or delete found is still
there, with the version and the UID it was let through for (`Met`), and what it is
about to store is still a legal successor of what is stored (`FitsOld`), or, of a
creation, a legal first version (`FitsNew`). Only an update or a delete takes away
a stored task or replaces it, and the one in question is alone; a creation fails
where a task is. The five theorems read the step from `ApartInv`. The runs
`race_*` show the hypothesis is needed, and `OneClientWritesApart` that a single
client satisfies it, so what `sequential` checks is proved for any keys, bodies
and number of requests.

*Versions across restarts.* `VersionNamesContent` needs a reason why a counter
that starts again at 0 repeats no name. `HistoryInv` says that there is a UID `b`
such that everything stored or carried was created after it, and that no version
with a later UID is above the counter (`OfThisProcess(b)`). A restart moves `b` up
to the last UID issued; nothing is stored or carried then. A new version has a
number above the counter and a UID above `b`, hence a name no one has used.

*The controller.* `ControllerInv` adds that every task carried by a handler is
acted on, and that `copy` is a version of the history. A main update keeps the
status and moves the generation if the spec changes, and the old status was not
ahead, so it observes nothing new. A status update is let through only on the UID
and version of `copy`; by `VersionNamesContent` the task it found is the one in
`copy`, so the outcome it carries is that of the spec it keeps. What it
overwrites later may be newer: the update is lost, not wrong.

*Invocations.* `MemoryOf(p)` is what an invocation knows from its own checks; no
file can take it away, which gives `ServesSound`. `CalmInv` is what the directory
holds as long as writers get to their end one at a time: one writer at most,
whose step says how far its files are, and a whole pair or none when nobody
writes. A writer that fails or is killed leads from there to `StoppedInv`: a certificate, or an empty
file, and no whole key, over which no start generates, since `Complete` only
does that when both files are missing. `StepKinds` sorts the steps into those
that no file notices, the four of a writer and its end; `past` becomes
"disturbed" exactly where neither invariant can be kept.

*Documents.* `Owed`: a model that is missing from the document is on a list of the
builder. With empty lists the document is closed. `Registered` and `Known` say
that every lookup is for something that is there.

*Certificates.* `Writing` says how far a generate that runs has come: the files it
has finished are its own, and the last one does not exist before it opens it.
It follows that `tls.key` vouches for the other three (`LastFileVouches`), that a
generate never starts over a complete directory, and that the commands after it
read one set of files (`Applying`).

*Structure.* `StepEffects` sorts every step of `Next` by its effect on the store
and on `job` (nothing, a restart, a suspension, a creation, the write of a
carried task, a deletion, an answer without a write), so that each invariant is
proved once per effect and not once per action. Lemmas about the operators of
`TaskStrategy` (what `BeforeCreate` and `BeforeUpdate` return, field by field)
are stated once and cited.

Only model-checked: `EveryRequestAnswered`, `EventuallySettled`, `CallsReturn`,
`StartsEnd` and `GetsToServe`, because TLAPS does not prove liveness
under fairness; and the four violations, which are counterexamples. Every
invariant, every property of steps and every refinement that a passing run checks
is also a theorem.

## Not modelled

- *Flags beyond the mode and the certificates*: defaults of k8s.io option groups
  and wording. That a group fails is modelled, why is not.
- *Manifests, the other recipes, code generation*: deployment data and build
  steps.
- *An empty `tls.key`.* `LastFileVouches` allows it, and the code produces it when
  gen-certs is stopped between opening and writing the last file. Later runs take
  the directory for complete, and `kubectl create secret tls` refuses the pair
  until somebody removes the file. No document promises otherwise, so the
  project states what holds.
- *What follows a clean-up that stopped halfway.* The properties of the
  certificates speak of "calm" histories; the others are in the models, but nothing is
  promised of them, and rightly so. If `dev-clean` stops after removing `ca.key`,
  say, and the next generate is stopped after it has opened `ca.key` and before
  it opens `tls.crt`, then `allExist` finds four files of two sets: the Secret is
  made from the old pair, the bundle from the new CA, and every run of e2e-up.sh
  waits in vain until somebody clears the directory. In the directory of the binary
  a certificate without its key, or the other way round, is refused by every start
  that looks there.
- *Reloads and drains, as promises.* That a server takes up new files, and that
  it answers its requests before it ends, is the work of k8s.io/apiserver:
  `Reload` and `Drained` are in the model for what they do to the rest, and no
  property is about them. What this repository adds, whether a signal gets there
  at all, is `SignalShutsDownGracefully`.
- *A file partly written.* A failed or interrupted write leaves an empty file in
  the model; one cut in the middle is refused in the same places.
- *What a schema says of types and formats*, and `int64Amount`, whose function is
  not in the table that `GetOpenAPIDefinitions` returns. The generated deep copies
  are in `StoreHeap`, by what they keep apart.
- *A creation through `/status`.* storage.go:264 calls it unreachable. Whether
  it is depends on the value of `forceAllowCreate` that k8s.io/apiserver
  passes; the model lets it happen, and what it stores is valid and has an
  identity of its own.
- *Labels changed by a status write.* The status strategy keeps metadata other
  than the spec and the generation as sent, by design; the version check decides
  which copy that is.
- *Promises about list versions*: `List` returns the highest version among the
  matches, or the counter if there are none, read later. Nothing in the repository
  says what such a version means while watch is deferred, so the steps are
  modelled and no property is stated.

## Plan

Order of work; all of it is done.

1. `Store`, its properties and proofs.
2. `TaskStrategy`, `TaskRegistry`, `TaskContract`; sequential and overlapping runs;
   type correctness, validity and identity proved.
3. `TaskHistory`, with its proof.
4. `StoreHeap`, against `Store`.
5. `CertBootstrap`, with its proofs.
6. `ServerLifecycle`, `APIServer`, `OpenAPIBuilder` and `TaskOpenAPI`, with their
   proofs.
7. `TaskController`: clients that retry on `Conflict`, what they can still rely
   on, and its proof.
8. Proofs: `NoAliasing`, `ListIsSnapshot` and the refinement of `Store` for any
   goroutines and addresses; the action properties and `Contract!Spec` for
   requests whose writes do not overlap.
