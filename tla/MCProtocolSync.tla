--------------------------- MODULE MCProtocolSync ---------------------------
(* ProtocolSync on a small instance.                                       *)
EXTENDS ProtocolSync
=============================================================================
