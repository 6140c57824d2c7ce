---------------------------- MODULE TaskHistory ----------------------------
(***************************************************************************)
(* TaskRegistry with a record of every version of every task that was ever *)
(* stored, in this server process or an earlier one: what clients and      *)
(* controllers may still hold copies of.                                   *)
(***************************************************************************)
EXTENDS TaskRegistry

VARIABLE versions   \* the [rv, data] pairs ever stored

historyVars == <<vars, versions>>

HistoryInit == Init /\ versions = {}

Record ==
  versions' = versions \cup {items'[k] : k \in {l \in Keys : items'[l] # Absent}}

HistoryNext == Next /\ Record

HistorySpec == HistoryInit /\ [][HistoryNext]_historyVars

\* resourceVersions start again from 0 with each process (Store!New) and a
\* restart may give an old number to another content; with the UID they do not:
\* a UID and a resourceVersion together name one content, for ever.  So a PUT
\* that carries both, read before a restart, can only be refused.
VersionNamesContent ==
  \A v, w \in versions : v.rv = w.rv /\ v.data.uid = w.data.uid => v = w
=============================================================================
