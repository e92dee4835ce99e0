----------------------------- MODULE MCTrustStore -----------------------------
(* One server to connect to, one client that pairs, two ends of the process. *)
EXTENDS TrustStore, TLC

CONSTANTS desk, laptop
=============================================================================
