------------------------------ MODULE MCPairing ------------------------------
(* Two exchanges at a time, and a lockout after two failures.              *)
EXTENDS Pairing
=============================================================================
