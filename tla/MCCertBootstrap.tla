-------------------------- MODULE MCCertBootstrap --------------------------
(* CertBootstrap with a bound on how often certificates are made. *)
EXTENDS CertBootstrap

CONSTANT MaxMinted

BoundedNext == Next /\ minted' <= MaxMinted

BoundedSpec == Init /\ [][BoundedNext]_vars
=============================================================================
