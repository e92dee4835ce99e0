---------------------------- MODULE MCInputSession ----------------------------
(* A session on two screens of three columns.                              *)
EXTENDS InputSession

MCSweeps   == {-2, 2}   \* each motion crosses the whole screen
MCRawSteps == {-1, 1}
=============================================================================
