-------------------------- MODULE OpenAPIBuilder ---------------------------
(***************************************************************************)
(* How k8s.io/kube-openapi puts a document together from the table of      *)
(* pkg/generated/openapi: for every model a route reads or writes it       *)
(* defines the model and then, recursively, the models its definition      *)
(* lists as dependencies; models already defined are skipped, and one the  *)
(* table does not have ends the build ("cannot find model definition").    *)
(* The order of the routes and of the dependencies is left open.           *)
(***************************************************************************)
CONSTANT Definitions  \* model name -> [refs, deps]

VARIABLES
  asked,    \* models the document is to describe, for its routes
  routes,   \* ... those not yet visited
  todo,     \* models the recursion has still to visit
  document  \* models defined so far

building == <<asked, routes, todo, document>>

Begin(models) ==
  /\ asked' = models
  /\ routes' = models
  /\ todo' = {}
  /\ document' = {}

BuiltAll == routes = {} /\ todo = {}

NextRoute ==
  /\ todo = {}
  /\ \E m \in routes :
       /\ routes' = routes \ {m}
       /\ todo' = {m} \ document
  /\ UNCHANGED <<asked, document>>

\* Slip: the definition is added and its dependencies are not followed.
DefineOnly(m) ==
  /\ document' = document \cup {m}
  /\ todo' = todo \ {m}
  /\ UNCHANGED <<asked, routes>>

\* Slip: what it depends on is put among the models that routes ask for.
DefineAsRoutes(m) ==
  /\ document' = document \cup {m}
  /\ todo' = todo \ {m}
  /\ routes' = routes \cup (Definitions[m].deps \ document')
  /\ UNCHANGED asked

Define(m) ==
  /\ document' = document \cup {m}
  /\ todo' = (todo \cup Definitions[m].deps) \ document'
  /\ UNCHANGED <<asked, routes>>

CanDefine(m) == m \in DOMAIN Definitions

-----------------------------------------------------------------------------
\* A document has every model it was asked for, and no dangling reference.
Closed ==
  /\ asked \subseteq document
  /\ \A m \in document : Definitions[m].refs \subseteq document

\* While it is built: what is still missing is about to be visited.
Owed ==
  /\ document \subseteq DOMAIN Definitions
  /\ asked \subseteq document \cup todo \cup routes
  /\ \A m \in document : Definitions[m].deps \subseteq document \cup todo

\* What a table must have for that: each schema lists what it refers to ...
ListsReferences ==
  \A m \in DOMAIN Definitions : Definitions[m].refs \subseteq Definitions[m].deps

\* ... and each model on a list is in the table.
Complete ==
  \A m \in DOMAIN Definitions : Definitions[m].deps \subseteq DOMAIN Definitions
=============================================================================
