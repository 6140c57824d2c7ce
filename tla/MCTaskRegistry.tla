--------------------------- MODULE MCTaskRegistry ---------------------------
(* TaskRegistry on small sets of requests. *)
EXTENDS TaskRegistry, FiniteSets, TLC

CONSTANTS
  c1, c2, c3,
  MaxRV,     \* writes in the life of one server process ...
  MaxUID,    \* ... tasks created ...
  MaxEpoch   \* ... and server processes

\* A suspended handler has a version set aside for its write, so the bound
\* keeps requests out and stops none halfway.
Writing == {c \in Clients : job[c].op \in {"update", "create", "delete"}}

InBounds ==
  /\ rv + Cardinality(Writing) <= MaxRV
  /\ uids <= MaxUID
  /\ epoch <= MaxEpoch

BoundedNext == Next /\ InBounds'

BoundedSpec == Init /\ [][BoundedNext]_vars

Symmetric == Permutations(Clients)

\* No action reads reply: states that differ in it have the same future, and
\* the properties that mention it are about steps, which are all checked.
View == <<items, rv, uids, job, epoch>>

-----------------------------------------------------------------------------
OneClient == {c1}
TwoClients == {c1, c2}
ThreeClients == {c1, c2, c3}

OneKey == {[ns |-> "ns", name |-> "x"]}
TwoKeys == OneKey \cup {[ns |-> "other", name |-> "y"]}

Nil == [nil |-> TRUE, elems |-> <<>>]
Empty == [nil |-> FALSE, elems |-> <<>>]
Shell == [nil |-> FALSE, elems |-> <<"sh">>]

SpecA == [image |-> "a", command |-> Nil, args |-> Nil]
SpecB == [image |-> "b", command |-> Shell, args |-> Nil]
SpecAEmptyArgs == [SpecA EXCEPT !.args = Empty]
SpecNoImage == [SpecA EXCEPT !.image = ""]

OneLabel == {"ok"}
TwoLabels == {"ok", "fine"}
BadLabel == {"bad"}
OneReport == {"none"}
TwoReports == {"none", "running"}
BadReport == {"malformed"}

AllSpecs == {SpecA, SpecB, SpecAEmptyArgs, SpecNoImage}
AllLabels == TwoLabels \cup BadLabel
AllReports == TwoReports \cup BadReport

Body(gen, label, spec, report, og) ==
  [uid |-> NoUID, gen |-> gen, label |-> label, spec |-> spec,
   status |-> [report |-> report, og |-> og]]

\* Every value of each field, with the usual ones in the others.
AllBodies ==
  {Body(0, l, s, "none", 0) : l \in AllLabels, s \in AllSpecs} \cup
  {Body(9, "ok", SpecB, r, og) : r \in AllReports, og \in -1 .. 2}

\* Two specs, and an observed generation that only a changed spec has reached.
\* No view takes both from a body, so two bodies are as many as four.
TwoBodies == {Body(0, "ok", SpecA, "none", 0), Body(0, "ok", SpecB, "none", 2)}

\* Two specs and no status.
SpecBodies == {Body(0, "ok", s, "none", 0) : s \in {SpecA, SpecB}}
=============================================================================
