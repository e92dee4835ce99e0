--------------------------- MODULE CursorOwnership ---------------------------
(***************************************************************************)
(* What the capture layer promises, with nothing of how it does it: at any *)
(* time the keyboard and mouse belong either to this machine ("local") or  *)
(* to the client screen ("remote").  Ownership passes to the client only   *)
(* while one is connected; it comes back only on a return request or       *)
(* because the client went away; and when one of these holds it does come  *)
(* back as long as the user keeps producing input.                         *)
(***************************************************************************)
VARIABLES mode,      \* "local" or "remote"
          present,   \* a client is connected (has_client)
          request    \* a return request is waiting (exit_remote)

vars == <<mode, present, request>>

Init == mode = "local" /\ present = FALSE /\ request = FALSE

\* The network tasks, which may act at any time.
ClientComesOrGoes == present' \in BOOLEAN /\ UNCHANGED <<mode, request>>
Request == request' = TRUE /\ UNCHANGED <<mode, present>>

\* The cursor crosses to the client screen.
Enter ==
  /\ mode = "local" /\ present
  /\ mode' = "remote"
  /\ UNCHANGED <<present, request>>

\* The next input event brings ownership back, and consumes the request.
Leave ==
  /\ mode = "remote" /\ (request \/ ~present)
  /\ mode' = "local" /\ request' = FALSE
  /\ UNCHANGED present

\* A request that finds the cursor at home is consumed without effect.
Discard ==
  /\ mode = "local" /\ request
  /\ request' = FALSE
  /\ UNCHANGED <<mode, present>>

Next == ClientComesOrGoes \/ Request \/ Enter \/ Leave \/ Discard

Spec == Init /\ [][Next]_vars

FairSpec == Spec /\ WF_vars(Leave)
=============================================================================
