------------------------- MODULE MCClipboardTransfer -------------------------
(* Two clients; two images of two chunks each, a text and one too long for *)
(* a frame.  Clients are interchangeable, and so are the images.           *)
EXTENDS ClipboardTransfer, TLC

CONSTANTS server, c1, c2, photo, scan, note, book

TwoChunks == [x \in {photo, scan} |-> 2]

Alike == Permutations({c1, c2}) \cup Permutations({photo, scan})
=============================================================================
