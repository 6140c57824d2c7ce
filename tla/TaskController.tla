--------------------------- MODULE TaskController ---------------------------
(***************************************************************************)
(* The tasks resource with the clients it is made for: users, who write    *)
(* specs through the main view, and a controller, which reads a task,      *)
(* acts on its spec and reports through /status what came of it, with the  *)
(* generation it acted on as the observed one.                             *)
(*                                                                         *)
(* No controller is part of this repository.  This one follows the rule of *)
(* .github/copilot-instructions.md:179-181, writes back what it read, as   *)
(* the client library does (UpdateStatus: a PUT with the UID and the       *)
(* resourceVersion of the copy), and reads again when that is refused.     *)
(***************************************************************************)
EXTENDS TaskHistory

CONSTANTS
  Outcome,  \* the report the controller makes on each spec
  NoCopy

VARIABLE copy   \* the task the controller is working on, as it read it

controllerVars == <<historyVars, copy>>

ASSUME TaskControllerAssumption ==
  /\ Outcome \in [Specs -> ValidReports]
  /\ \A s, t \in Specs : specEqual(s, t) => Outcome[s] = Outcome[t]
  /\ NoCopy \notin [key : Keys, rv : Nat, data : Tasks]

Lags(t) == t.status.og # t.gen

\* GET: only a task whose generation is ahead needs work.
Observe(c, k) ==
  /\ Get(c, k)
  /\ copy' = IF S!Has(k) /\ Lags(items[k].data)
               THEN [key |-> k, rv |-> items[k].rv, data |-> items[k].data]
               ELSE NoCopy

Reported(t) ==
  [t EXCEPT !.status = [report |-> Outcome[t.spec], og |-> t.gen]]

\* PUT to /status.  A refusal by an admission plugin is tried again, any
\* other answer makes the controller read again; it may also have given up
\* waiting for an earlier answer.
ReportStatus(c) ==
  /\ copy # NoCopy
  /\ \/ UpdateMissing(c, "status", "put", copy.key, Reported(copy.data))
     \/ UpdateExisting(c, "status", "put", copy.key, Reported(copy.data), copy.rv)
  /\ copy' = IF reply'.code = "Forbidden" THEN copy ELSE NoCopy

\* A status write that is let through.
ReportAccepted == \E c \in Clients : ReportStatus(c) /\ job'[c].op = "update"

\* What users and the server do.
UserWrite == \E c \in Clients : WriteThrough(c, {"main"})
Serve == \E c \in Clients : Proceed(c)

ControllerInit == HistoryInit /\ copy = NoCopy

ControllerNext ==
  /\ \/ UserWrite /\ UNCHANGED copy
     \/ Serve /\ UNCHANGED copy
     \/ Restart /\ UNCHANGED copy
     \/ \E c \in Clients, k \in Keys : Observe(c, k)
     \/ \E c \in Clients : ReportStatus(c)
  /\ Record

ControllerSpec == ControllerInit /\ [][ControllerNext]_controllerVars

\* The server runs its handlers, the controller looks at every task that it
\* has not acted on when it has nothing else to do, and sends its reports.
ControllerFairness ==
  /\ \A c \in Clients : WF_controllerVars(Proceed(c) /\ UNCHANGED copy /\ Record)
  /\ \A k \in Keys :
       WF_controllerVars(/\ copy = NoCopy
                         /\ \E c \in Clients : Observe(c, k) /\ copy' # NoCopy
                         /\ Record)
  /\ WF_controllerVars((\E c \in Clients : ReportStatus(c)) /\ Record)
  /\ SF_controllerVars(ReportAccepted /\ Record)

-----------------------------------------------------------------------------
(* Properties *)

ActedOn(t) == t.status.og = t.gen => t.status.report = Outcome[t.spec]

\* A task that says its generation is observed shows the outcome of the spec it
\* has, although the writes of users and of the controller may overlap and undo
\* each other, give one generation to two specs (finding race_views) and cross a
\* restart: a user who waits for observedGeneration gets the right answer.
ObservedMeansActedOn == \A k \in S!Stored : ActedOn(items[k].data)

\* Once users leave a task alone, it is observed, and stays so.
Settled == \A k \in S!Stored : ~Lags(items[k].data)

EventuallySettled == <>[]Settled
=============================================================================
