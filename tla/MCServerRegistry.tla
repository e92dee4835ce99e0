--------------------------- MODULE MCServerRegistry ---------------------------
(* Two devices, one of which connects twice.                               *)
EXTENDS ServerRegistry, TLC

CONSTANTS laptop, tablet, a1, a2, a3

TwoDevices == a1 :> laptop @@ a2 :> laptop @@ a3 :> tablet
=============================================================================
