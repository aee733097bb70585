---------------------------- MODULE MCHubClient ----------------------------
(* HubClient on a small instance.                                          *)
EXTENDS HubClient, TLC

Symmetry == Permutations(Calls)
=============================================================================
