--------------------------- MODULE MCHubDiscovery ---------------------------
(* HubDiscovery on a small instance: see MCHubDiscovery.cfg.               *)
EXTENDS HubDiscovery, TLC

Symmetry == Permutations(Calls)
=============================================================================
