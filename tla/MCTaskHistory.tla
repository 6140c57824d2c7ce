--------------------------- MODULE MCTaskHistory ---------------------------
(* TaskHistory on small sets of requests. *)
EXTENDS TaskHistory, MCTaskRegistry

CONSTANT MaxVersions  \* different versions ever stored, in all processes

\* As in InBounds, suspended handlers have a version set aside.
HistoryInBounds ==
  /\ InBounds
  /\ Cardinality(versions) + Cardinality({c \in Clients : Carries(c)}) <= MaxVersions

BoundedHistorySpec == HistoryInit /\ [][HistoryNext /\ HistoryInBounds']_historyVars

HistoryView == <<View, versions>>
=============================================================================
