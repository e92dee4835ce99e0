---------------------------- MODULE MCWarpCapture ----------------------------
(* WarpCapture on a screen of three columns, with a channel of one slot.   *)
EXTENDS WarpCapture

MCRawSteps == {-2, 0, 1}
=============================================================================
