------------------------- MODULE MCServerLifecycle --------------------------
(* ServerLifecycle with two invocations. *)
EXTENDS ServerLifecycle, FiniteSets

CONSTANTS
  p1, p2,
  MaxMinted,   \* pairs generated
  MaxInflight  \* requests that a server answers at a time

TwoProcs == {p1, p2}
MCModes == {"AlwaysAllow", "Webhook"}
AllContexts == {"nil", "background", "cancelable"}

\* main.go: cli.Run executes the command, and cobra gives it
\* context.Background() if nobody has set another one.
MainContexts == {"background"}

\* Invocations that may still generate a pair: the bound keeps new ones out and
\* stops none halfway.
Undecided == {p \in Procs : pc[p] = "complete" /\ flags[p].certs = "dir"}

InBounds ==
  /\ minted + Cardinality(Undecided) <= MaxMinted
  /\ \A p \in Procs : inflight[p] <= MaxInflight

BoundedSpec == Init /\ [][Next /\ InBounds']_vars

FairBoundedSpec == BoundedSpec /\ Fairness
=============================================================================
