-------------------------- MODULE MCTaskController ---------------------------
(* TaskController on small sets of requests. *)
EXTENDS TaskController, MCTaskRegistry

SpecC == [SpecA EXCEPT !.image = "c"]

\* From one spec, two users may change to the others: two specs with different
\* outcomes under one generation.
ThreeSpecs == {SpecA, SpecB, SpecC}
UserBodies == {Body(0, "ok", s, "none", 0) : s \in ThreeSpecs}

MCOutcome == [s \in ThreeSpecs |-> IF s = SpecB THEN "running" ELSE "none"]

\* Users stop at a number of writes, one less after each restart; the
\* controller, and what is suspended, goes on.
UserJobs ==
  {c \in Clients : \/ job[c].op \in {"create", "delete"}
                   \/ job[c].op = "update" /\ job[c].view = "main"}

UsersInBounds ==
  /\ UserJobs' \subseteq UserJobs \/ rv + Cardinality(UserJobs') + epoch <= MaxRV + 1
  /\ uids' # uids => uids' <= MaxUID /\ rv' + epoch <= MaxRV + 1
  /\ epoch' <= MaxEpoch

FairControllerSpec ==
  /\ ControllerInit
  /\ [][ControllerNext /\ UsersInBounds]_controllerVars
  /\ ControllerFairness

ControllerView == <<View, copy>>
=============================================================================
