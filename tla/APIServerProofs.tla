-------------------------- MODULE APIServerProofs --------------------------
(***************************************************************************)
(* What holds of the assembly for every table of definitions: the          *)
(* documents are closed if each schema lists what it refers to, and no     *)
(* lookup fails if, moreover, the table has what the lists and the routes  *)
(* name.                                                                   *)
(***************************************************************************)
EXTENDS APIServer, TLAPS

\* The builder owes nothing it does not know of.
OwedInv == phase \in {"models", "document"} => Owed

\* Each step of the builder keeps its debts on its lists.
LEMMA BeginOwes ==
  ASSUME NEW models, Begin(models)
  PROVE  Owed'
BY DEF Begin, Owed

LEMMA NextRouteOwes ==
  ASSUME Owed, NextRoute
  PROVE  Owed'
<1>1. PICK m \in routes : routes' = routes \ {m} /\ todo' = {m} \ document
  BY DEF NextRoute
<1>2. todo = {} /\ asked' = asked /\ document' = document
  BY DEF NextRoute
<1>3. asked' \subseteq document' \cup todo' \cup routes'
  BY <1>1, <1>2 DEF Owed
<1> QED BY <1>1, <1>2, <1>3 DEF Owed

LEMMA DefineOwes ==
  ASSUME Owed, NEW m \in todo, CanDefine(m), Define(m)
  PROVE  Owed'
<1>1. /\ document' = document \cup {m}
      /\ todo' = (todo \cup Definitions[m].deps) \ document'
      /\ asked' = asked /\ routes' = routes
  BY DEF Define
<1>2. document \cup todo \subseteq document' \cup todo'
  BY <1>1
<1>3. \A n \in document' : Definitions[n].deps \subseteq document' \cup todo'
  BY <1>1, <1>2 DEF Owed
<1> QED BY <1>1, <1>2, <1>3 DEF Owed, CanDefine

\* A builder that has nothing left to visit has a closed document, if every
\* schema of the table lists what it refers to.
LEMMA OwedClosed ==
  ASSUME ListsReferences, Owed, BuiltAll
  PROVE  Closed
BY DEF ListsReferences, Owed, BuiltAll, Closed

LEMMA OwedInit == Init => OwedInv
BY DEF Init, OwedInv

LEMMA OwedStep ==
  ASSUME OwedInv, [Next]_vars
  PROVE  OwedInv'
<1>1. CASE New
  BY <1>1, BeginOwes DEF New, OwedInv
<1>2. CASE Build
  <2>1. phase \in {"models", "document"} /\ Owed
    BY <1>2 DEF Build, OwedInv
  <2>2. CASE NextRoute
    BY <2>1, <2>2, NextRouteOwes DEF OwedInv
  <2>3. CASE \E m \in todo : CanDefine(m) /\ Define(m)
    BY <2>1, <2>3, DefineOwes DEF OwedInv
  <2>4. CASE phase' = "failed"
    BY <2>4 DEF OwedInv
  <2> QED BY <1>2, <2>2, <2>3, <2>4 DEF Build, Go
<1>3. CASE BeginDocument
  BY <1>3, BeginOwes DEF BeginDocument, OwedInv
<1>4. CASE \/ Install \/ InitMeta \/ ModelsBuilt \/ InstallAPIGroup
           \/ PublishDocument \/ Run \/ Stop \/ Restart
  BY <1>4 DEF Install, InitMeta, ModelsBuilt, InstallAPIGroup, PublishDocument,
    Run, Stop, Restart, Go, OwedInv
<1>5. CASE UNCHANGED vars
  BY <1>5 DEF vars, building, OwedInv, Owed
<1> QED BY <1>1, <1>2, <1>3, <1>4, <1>5 DEF Next, Starting

\* For every table whose schemas list what they refer to: whatever New and
\* PrepareRun publish describes every model asked for and everything that
\* those refer to.
THEOREM APIServerDocumentsClosed ==
  ASSUME ListsReferences
  PROVE  Spec => []DocumentsClosed
<1>1. OwedInv => DocumentsClosed
  BY OwedClosed DEF OwedInv, DocumentsClosed, Documented
<1> QED BY <1>1, OwedInit, OwedStep, PTL DEF Spec

-----------------------------------------------------------------------------
(* No lookup fails *)

\* init() registers everything before New looks anything up.
Registered ==
  /\ phase = "init" => addKnownTypes \subseteq scheme
  /\ phase \in Phases \ {"start", "init"} => addKnownTypes \cup initTypes \subseteq scheme

\* The builder's lists name models of the table.
Known ==
  /\ pending \subseteq Documents
  /\ routes \subseteq DOMAIN Definitions
  /\ todo \subseteq DOMAIN Definitions

FitInv == phase \in Phases /\ Registered /\ Known /\ TablesFit

\* The routes of a document read and write models of the v2 document only.
LEMMA RoutesInV2 ==
  /\ \A d \in Documents : d \subseteq V2Document
  /\ \A s \in storage : s.new \in V2Document
<1>1. \A s \in storage : s.new \in RouteModels(s)
  BY DEF RouteModels
<1>2. \A s \in storage : RouteModels(s) \subseteq TaskRoutes
  BY DEF TaskRoutes
<1> QED BY <1>1, <1>2 DEF Documents, V2Document

\* What the installer looks up, init() has registered.
LEMMA NeededIsRegistered ==
  /\ \A s \in storage : <<"v1alpha1", s.new>> \in addKnownTypes
  /\ \A s \in storage : KindsNeeded(s) \subseteq addKnownTypes \cup initTypes
<1>1. \A s \in storage : s.new = "Task" /\ s.lists \subseteq {"TaskList"}
  BY DEF storage, REST, StatusREST
<1>2. \A s \in storage : KindsNeeded(s) \subseteq
        ({"v1alpha1"} \X {"Task", "TaskList", "WatchEvent"}) \cup
        ({"v1"} \X (OptionKinds \cup {"Status", "DeleteOptions"}))
  BY <1>1 DEF KindsNeeded
<1>3. {"v1alpha1"} \X {"Task", "TaskList", "WatchEvent"} \subseteq addKnownTypes
  BY DEF addKnownTypes, AddToGroupVersion
<1>4. {"v1"} \X (OptionKinds \cup {"Status", "DeleteOptions"}) \subseteq initTypes
  BY DEF initTypes, AddToGroupVersion, OptionKinds, UnversionedKinds
<1>5. <<"v1alpha1", "Task">> \in addKnownTypes
  BY <1>3
<1> QED BY <1>1, <1>2, <1>3, <1>4, <1>5

LEMMA TypeStep ==
  ASSUME TypeOK, [Next]_vars
  PROVE  TypeOK'
<1> USE DEF TypeOK, Phases, Go
<1>1. CASE Build
  <2>1. CASE NextRoute
    BY <1>1, <2>1 DEF Build, NextRoute
  <2>2. ASSUME NEW m \in todo, CanDefine(m), Define(m) PROVE TypeOK'
    BY <1>1, <2>2 DEF Build, CanDefine, Define
  <2>3. CASE phase' = "failed" /\ UNCHANGED building
    BY <1>1, <2>3 DEF Build, building
  <2> QED BY <1>1, <2>1, <2>2, <2>3 DEF Build
<1>2. CASE New
  BY <1>2, RoutesInV2 DEF New, Begin
<1>3. CASE BeginDocument
  BY <1>3, RoutesInV2 DEF BeginDocument, Begin
<1>4. CASE Install \/ InitMeta
  BY <1>4 DEF Install, InitMeta, building
<1>5. CASE ModelsBuilt \/ InstallAPIGroup \/ PublishDocument \/ Run \/ Stop
  BY <1>5 DEF ModelsBuilt, InstallAPIGroup, PublishDocument, Run, Stop, building
<1>6. CASE Restart
  BY <1>6 DEF Restart, Begin
<1>7. CASE UNCHANGED vars
  BY <1>7 DEF vars, building
<1> QED BY <1>1, <1>2, <1>3, <1>4, <1>5, <1>6, <1>7 DEF Next, Starting

\* For every table: the builder visits models that routes of the server asked
\* for and defines models of the table; the Scheme has what init() registers.
THEOREM APIServerTypeCorrect == Spec => []TypeOK
<1>1. Init => TypeOK
  BY DEF Init, TypeOK, Phases
<1> QED BY <1>1, TypeStep, PTL DEF Spec

LEMMA FitInit == Init => FitInv
BY DEF Init, FitInv, Phases, Registered, Known, TablesFit

LEMMA FitStep ==
  ASSUME Complete, V2Document \subseteq DOMAIN Definitions, FitInv, [Next]_vars
  PROVE  FitInv'
<1> USE DEF FitInv, Phases, TablesFit, Go
<1>1. CASE Install
  BY <1>1 DEF Install, building, Registered, Known
<1>2. CASE InitMeta
  BY <1>2 DEF InitMeta, building, Registered, Known
<1>3. CASE New
  <2>1. \A s \in storage : <<"v1alpha1", s.new>> \in scheme
    BY <1>3, NeededIsRegistered DEF New, Registered
  <2>2. phase' = "models" /\ scheme' = scheme /\ pending' = pending
    BY <1>3, <2>1 DEF New
  <2>3. routes' \subseteq DOMAIN Definitions /\ todo' = {}
    BY <1>3, RoutesInV2 DEF New, Begin
  <2> QED BY <1>3, <2>2, <2>3 DEF New, Registered, Known
<1>4. CASE Build
  <2>1. \A m \in todo : CanDefine(m)
    BY DEF Known, CanDefine
  <2>2. phase' = phase /\ scheme' = scheme /\ pending' = pending
    BY <1>4, <2>1 DEF Build
  <2>3. Known'
    <3>1. CASE NextRoute
      BY <2>2, <3>1 DEF NextRoute, Known
    <3>2. ASSUME NEW m \in todo, Define(m) PROVE Known'
      <4>1. Definitions[m].deps \subseteq DOMAIN Definitions
        BY <2>1 DEF Complete, CanDefine
      <4> QED BY <2>2, <3>2, <4>1 DEF Define, Known
    <3> QED BY <1>4, <2>1, <3>1, <3>2 DEF Build
  <2> QED BY <2>2, <2>3 DEF Registered
<1>5. CASE ModelsBuilt
  BY <1>5 DEF ModelsBuilt, building, Registered, Known
<1>6. CASE InstallAPIGroup
  <2>1. \A s \in storage : KindsNeeded(s) \subseteq scheme
    BY <1>6, NeededIsRegistered DEF InstallAPIGroup, Registered
  <2>2. phase' = "prepare"
    BY <1>6, <2>1 DEF InstallAPIGroup
  <2> QED BY <1>6, <2>2 DEF InstallAPIGroup, building, Registered, Known
<1>7. CASE BeginDocument
  <2>1. routes' \subseteq DOMAIN Definitions /\ todo' = {} /\ pending' \subseteq Documents
    BY <1>7, RoutesInV2 DEF BeginDocument, Begin, Known
  <2> QED BY <1>7, <2>1 DEF BeginDocument, Registered, Known
<1>8. CASE PublishDocument
  BY <1>8 DEF PublishDocument, building, Registered, Known
<1>9. CASE Run
  BY <1>9 DEF Run, building, Registered, Known
<1>10. CASE Stop
  BY <1>10 DEF Stop, building, Registered, Known
<1>11. CASE Restart
  BY <1>11 DEF Restart, Begin, Registered, Known
<1>12. CASE UNCHANGED vars
  BY <1>12 DEF vars, building, Registered, Known
<1> QED BY <1>1, <1>2, <1>3, <1>4, <1>5, <1>6, <1>7, <1>8, <1>9, <1>10, <1>11, <1>12
     DEF Next, Starting

\* For every table that has the models on its own lists and those of the
\* routes: the types that are registered and the definitions suffice for every
\* lookup of New and PrepareRun, in every server of every process.
THEOREM APIServerTablesFit ==
  ASSUME Complete, V2Document \subseteq DOMAIN Definitions
  PROVE  Spec => []TablesFit
<1>1. FitInv => TablesFit
  BY DEF FitInv
<1> QED BY <1>1, FitInit, FitStep, PTL DEF Spec
=============================================================================
