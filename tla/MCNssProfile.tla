---------------------------- MODULE MCNssProfile -----------------------------
(* NssProfile on a small instance.                                         *)
EXTENDS NssProfile
=============================================================================
