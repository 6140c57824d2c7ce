------------------------------ MODULE MCStore ------------------------------
(* Store with three keys and three things to store in them, one of them    *)
(* without ObjectMeta.                                                     *)
EXTENDS Store, TLC

CONSTANTS
  k1, k2, k3, d1, d2, opaque,
  MaxRV   \* writes in the life of one Store

MCKeys == {k1, k2, k3}
MCData == {d1, d2, opaque}
MCOpaque == {opaque}

BoundedNext == Next /\ rv' <= MaxRV

BoundedSpec == Init /\ [][BoundedNext]_vars

Symmetric == Permutations(MCKeys) \cup Permutations({d1, d2})
=============================================================================
