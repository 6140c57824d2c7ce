---------------------------- MODULE TaskStrategy ----------------------------
(***************************************************************************)
(* pkg/registry/tasks/task/strategy.go: what each view of a Task may       *)
(* change, what the server fills in, and what it refuses; with the parts   *)
(* of k8s.io/apiserver's rest package (BeforeCreate, BeforeUpdate) that    *)
(* call it.  Everything here is a function of its arguments.               *)
(*                                                                         *)
(* A task is a record                                                      *)
(*   uid     metadata.uid; UIDs are numbered in the order they are issued  *)
(*   gen     metadata.generation                                           *)
(*   label   the metadata its users own (labels, annotations, finalizers)  *)
(*   spec    [image, command, args]                                        *)
(*   status  [report, og]: phase and conditions, and observedGeneration    *)
(* Its namespace and name are the key it is stored under and its           *)
(* resourceVersion is kept next to it (Store).                             *)
(***************************************************************************)
EXTENDS Integers, Sequences

CONSTANTS
  Specs,         \* the TaskSpecs clients send
  Labels,        \* the user metadata clients send ...
  ValidLabels,   \* ... and the part of it ValidateObjectMeta accepts
  Reports,       \* phase and conditions as clients send them ...
  ValidReports,  \* ... and those whose conditions are well formed
  NoReport       \* no phase, no conditions

\* A Go slice of strings: a nil slice and an empty one have no elements.
Slices == [nil : BOOLEAN, elems : Seq(STRING)]

ASSUME TaskStrategyAssumption ==
  /\ Specs \subseteq [image : STRING, command : Slices, args : Slices]
  /\ ValidLabels \subseteq Labels
  /\ ValidReports \subseteq Reports
  /\ NoReport \in ValidReports

Statuses == [report : Reports, og : Int]

Tasks == [uid : Nat, gen : Int, label : Labels, spec : Specs, status : Statuses]

EmptyStatus == [report |-> NoReport, og |-> 0]

NoUID == 0

-----------------------------------------------------------------------------
(* Equality of specs *)

\* A nil slice equals an empty one, as after a JSON round trip.
stringSliceEqual(a, b) == a.elems = b.elems

\* Slip: reflect.DeepEqual tells a nil slice from an empty one.
specDeepEqual(a, b) == a = b

specEqual(a, b) ==
  /\ a.image = b.image
  /\ stringSliceEqual(a.command, b.command)
  /\ stringSliceEqual(a.args, b.args)

-----------------------------------------------------------------------------
(* Validation: the tasks each validator returns no error for *)

ValidMeta(t) == t.label \in ValidLabels

validateTask(t) == ValidMeta(t) /\ t.spec.image # ""

\* Slip: the observed generation is not looked at.
validateReportOnly(t) == t.status.report \in ValidReports

\* Slip: off by one.
validateLagging(t) ==
  /\ 0 <= t.status.og
  /\ t.status.og < t.gen
  /\ t.status.report \in ValidReports

validateStatusUpdate(t) ==
  /\ 0 <= t.status.og
  /\ t.status.og <= t.gen
  /\ t.status.report \in ValidReports

-----------------------------------------------------------------------------
(* The strategy of the main resource *)

\* The two fields the server decides on in the main resource.
WithServerFields(t, status, gen) == [t EXCEPT !.status = status, !.gen = gen]

AllowCreateOnUpdate == FALSE

AllowUnconditionalUpdate == FALSE

\* Status belongs to /status and is dropped; generations start at 1.
PrepareForCreate(t) == WithServerFields(t, EmptyStatus, 1)

\* Slip: the status of the body is stored with the new generation.
PrepareKeepsStatus(new, old) ==
  WithServerFields(new, new.status,
    IF specEqual(new.spec, old.spec) THEN old.gen ELSE old.gen + 1)

\* The status is the old one; the generation counts the changes of the spec.
PrepareForUpdate(new, old) ==
  WithServerFields(new, old.status,
    IF specEqual(new.spec, old.spec) THEN old.gen ELSE old.gen + 1)

\* Slip: the generation a status writer sends is stored.
StatusPinsSpecOnly(new, old) == [new EXCEPT !.spec = old.spec]

\* The strategy of /status: spec and generation are the old ones.
StatusPrepareForUpdate(new, old) ==
  [new EXCEPT !.spec = old.spec, !.gen = old.gen]

-----------------------------------------------------------------------------
(* rest.FillObjectMetaSystemFields, BeforeCreate and BeforeUpdate *)

FillObjectMetaSystemFields(t, uid) == [t EXCEPT !.uid = uid]

BeforeCreate(t) == PrepareForCreate(t)

BeforeCreateAccepts(t) == validateTask(BeforeCreate(t))

\* An update without a UID keeps the old one.
KeepUID(new, old) ==
  [new EXCEPT !.uid = IF new.uid = NoUID THEN old.uid ELSE new.uid]

BeforeUpdate(view, new, old) ==
  KeepUID(IF view = "status"
            THEN StatusPrepareForUpdate(new, old)
            ELSE PrepareForUpdate(new, old),
          old)

BeforeUpdateAccepts(view, new, old) ==
  LET t == BeforeUpdate(view, new, old)
  IN  /\ t.uid = old.uid       \* metadata.uid is immutable
      /\ ValidMeta(t)
      /\ IF view = "status" THEN validateStatusUpdate(t) ELSE validateTask(t)
=============================================================================
