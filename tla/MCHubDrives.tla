----------------------------- MODULE MCHubDrives -----------------------------
(* HubDrives on a small instance.                                          *)
EXTENDS HubDrives
=============================================================================
