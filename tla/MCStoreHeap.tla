---------------------------- MODULE MCStoreHeap ----------------------------
(* StoreHeap on small sets. *)
EXTENDS StoreHeap, FiniteSets

CONSTANTS g1, g2, k1, k2, d1, d2, opaque, MaxRV

MCGoroutines == {g1, g2}
TwoKeys == {k1, k2}
MCData == {d1, d2, opaque}
MCOpaque == {opaque}

\* Enough for what is stored, kept by callers and being made at one time.
FiveAddresses == 1 .. 5

\* What is in free cells makes no difference.
MCInit ==
  /\ structs = [a \in Addresses |-> [rv |-> 0, slices |-> a]]
  /\ slices = [a \in Addresses |-> d1]
  /\ Init

\* A call that writes has a version set aside until it takes it.
Writing == {g \in Goroutines : call[g].at \in {"lock", "wait", "check", "stamp", "bump"}}
InBounds == rv + Cardinality(Writing) <= MaxRV

BoundedNext == Next /\ InBounds'

BoundedSpec == MCInit /\ [][BoundedNext]_vars

FairBoundedSpec ==
  BoundedSpec /\ \A g \in Goroutines : WF_vars(Proceed(g)) /\ SF_vars(TakeLock(g))

\* States up to the choice of addresses: what each pointer leads to, and which
\* pointers share a part.  No action reads the version of an object callers hold.
Roots == Keys \cup Goroutines \cup {<<g>> : g \in Goroutines}
Root(r) ==
  IF r \in Keys THEN items[r]
  ELSE IF r \in Goroutines THEN held[r]
  ELSE IF "obj" \in DOMAIN call[r[1]] THEN call[r[1]].obj ELSE Nil
Live == {r \in Roots : Root(r) \in Addresses}
View ==
  <<[k \in Keys |-> Content(k)],
    [r \in Live |-> Object(Root(r)).data],
    {p \in Live \X Live : Root(p[1]) = Root(p[2])},
    {p \in Live \X Live : structs[Root(p[1])].slices = structs[Root(p[2])].slices},
    rv, writer, readers,
    [g \in Goroutines |-> IF "obj" \in DOMAIN call[g]
                            THEN [call[g] EXCEPT !.obj = Nil] ELSE call[g]]>>
=============================================================================
