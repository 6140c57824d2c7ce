----------------------------- MODULE APIServer -----------------------------
(***************************************************************************)
(* pkg/apiserver/apiserver.go, with the registration of the types it       *)
(* imports: how a server is put together, from the init() functions that   *)
(* fill the Scheme, through New and installTasksGroup, to the OpenAPI      *)
(* documents of PrepareRun.  Three tables that nothing keeps in step meet  *)
(* here: what register.go and init() register, what the storages hand out, *)
(* and what the generated definitions describe.                            *)
(***************************************************************************)
EXTENDS OpenAPIBuilder

VARIABLES
  phase,    \* what the process is doing
  scheme,   \* Scheme: the <<version, kind>> pairs that are registered
  pending   \* documents PrepareRun has still to build

vars == <<phase, scheme, pending, building>>

Phases == {"start", "init", "new", "models", "install", "prepare", "document",
           "serving", "failed"}

-----------------------------------------------------------------------------
(* The Scheme *)

\* metav1.AddToGroupVersion.
OptionKinds == {"ListOptions", "GetOptions", "DeleteOptions", "CreateOptions",
                "UpdateOptions", "PatchOptions"}
UnversionedKinds == {"Status", "APIVersions", "APIGroupList", "APIGroup",
                     "APIResourceList"}

AddToGroupVersion(version) ==
  ({version} \X (OptionKinds \cup {"WatchEvent"})) \cup ({"v1"} \X UnversionedKinds)

\* Slips: the list kind is forgotten; so are the options of requests.
addTaskOnly == {<<"v1alpha1", "Task">>} \cup AddToGroupVersion("v1alpha1")
initUnversionedOnly == {"v1"} \X UnversionedKinds

addKnownTypes ==
  ({"v1alpha1"} \X {"Task", "TaskList"}) \cup AddToGroupVersion("v1alpha1")

initTypes == AddToGroupVersion("v1") \cup ({"v1"} \X UnversionedKinds)

-----------------------------------------------------------------------------
(* The storages, by the kinds they make and the rest interfaces they have *)

REST == [new |-> "Task", lists |-> {"TaskList"},
         is |-> {"Getter", "Lister", "Creater", "Updater", "Patcher",
                 "GracefulDeleter", "Watcher"}]

StatusREST == [new |-> "Task", lists |-> {}, is |-> {"Getter", "Updater", "Patcher"}]

storage == {REST, StatusREST}

\* What the installer of k8s.io/apiserver looks up before it adds routes.
KindsNeeded(s) ==
  ({"v1alpha1"} \X ({s.new} \cup s.lists \cup
                    (IF "Watcher" \in s.is THEN {"WatchEvent"} ELSE {}))) \cup
  ({"v1"} \X ((OptionKinds \ {"GetOptions", "DeleteOptions"}) \cup {"Status"} \cup
              (IF "GracefulDeleter" \in s.is THEN {"DeleteOptions"} ELSE {})))

\* The models its routes read and write.
RouteModels(s) ==
  {s.new} \cup s.lists \cup
  (IF "Patcher" \in s.is THEN {"Patch"} ELSE {}) \cup
  (IF "GracefulDeleter" \in s.is THEN {"DeleteOptions", "Status"} ELSE {}) \cup
  (IF "Watcher" \in s.is THEN {"WatchEvent"} ELSE {})

TaskRoutes == UNION {RouteModels(s) : s \in storage} \cup {"APIResourceList"}
DiscoveryRoutes == {"APIGroupList", "APIGroup", "version.Info"}

\* One v2 document, and one v3 document for each path that has routes.
V2Document == TaskRoutes \cup DiscoveryRoutes
Documents == {V2Document, TaskRoutes} \cup {{m} : m \in DiscoveryRoutes}

TypeOK ==
  /\ phase \in Phases
  /\ scheme \subseteq addKnownTypes \cup initTypes
  /\ pending \subseteq Documents
  /\ asked \subseteq V2Document /\ routes \subseteq asked
  /\ document \subseteq DOMAIN Definitions

-----------------------------------------------------------------------------
Go(to) == phase' = to

\* init(): tasksinstall.Install ...
Install ==
  /\ phase = "start" /\ Go("init")
  /\ scheme' = scheme \cup addKnownTypes
  /\ UNCHANGED <<pending, building>>

\* ... and the types of the meta group.
InitMeta ==
  /\ phase = "init" /\ Go("new")
  /\ scheme' = scheme \cup initTypes
  /\ UNCHANGED <<pending, building>>

\* New, up to InstallAPIGroup, which first builds the models of the objects
\* that the storages hand out.
New ==
  /\ phase = "new"
  /\ Go(IF \A s \in storage : <<"v1alpha1", s.new>> \in scheme
          THEN "models" ELSE "failed")
  /\ Begin({s.new : s \in storage})
  /\ UNCHANGED <<scheme, pending>>

\* The builder is at work on the models, or on a document.
Build ==
  /\ phase \in {"models", "document"}
  /\ \/ NextRoute /\ UNCHANGED phase
     \/ \E m \in todo :
          IF CanDefine(m)
            THEN Define(m) /\ UNCHANGED phase
            ELSE Go("failed") /\ UNCHANGED building
  /\ UNCHANGED <<scheme, pending>>

ModelsBuilt ==
  /\ phase = "models" /\ BuiltAll
  /\ Go("install")
  /\ UNCHANGED <<scheme, pending, building>>

\* The rest of InstallAPIGroup, for each storage.
InstallAPIGroup ==
  /\ phase = "install"
  /\ Go(IF \A s \in storage : KindsNeeded(s) \subseteq scheme
          THEN "prepare" ELSE "failed")
  /\ pending' = Documents
  /\ UNCHANGED <<scheme, building>>

\* Slip: the document is not taken off the list.
BeginDocumentAgain ==
  /\ phase = "prepare"
  /\ \E d \in pending : Begin(d)
  /\ Go("document")
  /\ UNCHANGED <<scheme, pending>>

\* PrepareRun: the v2 document, then the others one by one (from a Go map).
BeginDocument ==
  /\ phase = "prepare"
  /\ \E d \in pending :
       /\ V2Document \in pending => d = V2Document
       /\ pending' = pending \ {d}
       /\ Begin(d)
  /\ Go("document")
  /\ UNCHANGED scheme

PublishDocument ==
  /\ phase = "document" /\ BuiltAll
  /\ Go("prepare")
  /\ UNCHANGED <<scheme, pending, building>>

Run ==
  /\ phase = "prepare" /\ pending = {}
  /\ Go("serving")
  /\ UNCHANGED <<scheme, pending, building>>

\* The harness of test/integration starts one server after the other in a
\* process; the Scheme stays.
Stop ==
  /\ phase = "serving" /\ Go("new")
  /\ UNCHANGED <<scheme, pending, building>>

\* A new process.
Restart ==
  /\ phase \in {"serving", "failed"} /\ Go("start")
  /\ scheme' = {}
  /\ pending' = {}
  /\ Begin({})

Init ==
  /\ phase = "start"
  /\ scheme = {}
  /\ pending = {}
  /\ asked = {} /\ routes = {} /\ todo = {} /\ document = {}

Starting ==
  \/ Install \/ InitMeta \/ New \/ Build \/ ModelsBuilt \/ InstallAPIGroup
  \/ BeginDocument \/ PublishDocument \/ Run

Next == Starting \/ Stop \/ Restart

Spec == Init /\ [][Next]_vars

\* Nothing is waited for while a server is put together.
FairSpec == Spec /\ WF_vars(Starting)

-----------------------------------------------------------------------------
\* Every document that is published, and the set of models New hands to the
\* server, describes every model of its routes and refers to none that it
\* does not describe, in whatever order the routes are visited.
Documented == phase \in {"models", "document"} /\ BuiltAll

DocumentsClosed == Documented => Closed

\* What register.go and init() register, what the generated table defines and
\* what the storages make fit: neither the installer nor the builder meets a
\* kind or a model it does not know, in the first server of a process or in a
\* later one.
TablesFit == phase # "failed"

\* A server that is started is put together: it gets to serve requests.
GetsToServe == phase = "start" ~> phase = "serving"
=============================================================================
