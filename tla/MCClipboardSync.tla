--------------------------- MODULE MCClipboardSync ---------------------------
(* A server and one client, on each of which the user may copy.            *)
EXTENDS ClipboardSync
=============================================================================
