---------------------------- MODULE MCAppLifecycle ----------------------------
(* Two starts of a server and one connection task, for what a stop leaves      *)
(* behind; one server and two connection tasks, for what a client shows.       *)
EXTENDS AppLifecycle, TLC
=============================================================================
