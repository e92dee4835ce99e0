----------------------------- MODULE MCForwarding -----------------------------
(* Two clients; an image in two messages, and an oversized text.            *)
EXTENDS Forwarding, TLC

CONSTANTS c1, c2

Image  == <<"accepted", "accepted">>
TooBig == <<"oversized">>
Copied == {Image, TooBig}
=============================================================================
