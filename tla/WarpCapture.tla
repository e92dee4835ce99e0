----------------------------- MODULE WarpCapture -----------------------------
(***************************************************************************)
(* The input capture callback of crates/ss-input/src/warp_capture.rs.      *)
(*                                                                         *)
(* rdev::grab calls the callback once per device event.  The callback      *)
(* either lets the event pass to the X server or suppresses it and sends a *)
(* WarpInputEvent into a bounded channel.  Which of the two is decided by  *)
(* three atomics it shares with tasks that run concurrently: is_remote     *)
(* (written only here), exit_remote (set by the task that receives         *)
(* BoundaryLeave) and has_client (set by the task that follows connects    *)
(* and disconnects).  The callback reads the shared flags twice, so it is  *)
(* two steps here: Grab is the prologue that may leave remote mode, and    *)
(* the Handle actions are the match on the event type.  The other tasks    *)
(* may act between the two.                                                *)
(*                                                                         *)
(* Only the x axis is kept: the y axis never decides anything.  A raw      *)
(* motion of 0 is a vertical motion.  A stroke is one press of a key or    *)
(* button and its release, so each is pressed once and released once;      *)
(* which key it is makes no difference to this code.                       *)
(***************************************************************************)
EXTENDS Integers, Sequences

CONSTANTS ScreenWidth,   \* screen_width
          QueueCap,      \* capacity of the event channel (256 in the code)
          RawSteps,      \* raw x motions the mouse may report
          Strokes,       \* strokes of keys and of the buttons map_button knows
          OtherStrokes,  \* clicks of the buttons map_button maps to None
          HasWheel       \* whether the mouse has a wheel

ASSUME ScreenWidthAssumption == ScreenWidth \in Nat \ {0}
ASSUME QueueCapAssumption    == QueueCap \in Nat \ {0}
ASSUME RawStepsAssumption    == RawSteps \subseteq Int
ASSUME StrokesAssumption     == Strokes \cap OtherStrokes = {}

VARIABLES
  rdev_x,            \* external: rdev's accumulator of raw motions
  real_x,            \* external: the cursor as the X server has it
  typed,             \* external: the presses and releases the user made
  x_seen,            \* external: those of them the X server was given
  prev_x, prev_initialized, pos_x, frozen_x,   \* CallbackState
  is_remote, exit_remote, has_client,          \* the shared atomics
  channel,           \* the mpsc channel tx -> event_rx
  event              \* the event the callback is in the middle of

flags == <<is_remote, exit_remote, has_client>>
track == <<prev_x, prev_initialized, pos_x, frozen_x>>
user  == <<rdev_x, typed>>
xserver == <<real_x, x_seen>>
vars  == <<user, xserver, track, flags, channel, event>>

Columns == 0 .. ScreenWidth

AllStrokes == Strokes \cup OtherStrokes

ClampX(v) == IF v < 0 THEN 0 ELSE IF v > ScreenWidth THEN ScreenWidth ELSE v

NoEvent == [type |-> "None"]

\* What rdev hands to the callback.
DeviceEvent ==
       [type : {"MouseMove"}, x : Columns, raw : RawSteps]
  \cup [type : {"Key"}, key : AllStrokes, pressed : BOOLEAN]
  \cup [type : {"Wheel"}]

\* What the callback puts into the channel.
MouseDelta(dx)     == [type |-> "MouseDelta", dx |-> dx]
KeyPress(k, down)  == [type |-> "KeyPress", key |-> k, pressed |-> down]
Scroll             == [type |-> "Scroll"]
BoundaryEnter      == [type |-> "BoundaryEnter"]

WarpInputEvent ==
       [type : {"MouseDelta"}, dx : Int]
  \cup [type : {"KeyPress"}, key : Strokes, pressed : BOOLEAN]
  \cup {Scroll, BoundaryEnter}

-----------------------------------------------------------------------------
(* The device: rdev adds raw motions up and clamps the sum to the screen.  *)
(* It starts from the real cursor position; the grab may start anywhere.   *)

Init ==
  /\ rdev_x \in Columns
  /\ real_x = rdev_x
  /\ typed = {} /\ x_seen = {}
  /\ prev_x = 0 /\ prev_initialized = FALSE
  /\ pos_x = ScreenWidth \div 2 /\ frozen_x = 0
  /\ is_remote = FALSE /\ exit_remote = FALSE /\ has_client = FALSE
  /\ channel = <<>>
  /\ event = NoEvent

\* try_send: a full channel drops the message, the callback never waits.
TrySend(msg) ==
  channel' = IF Len(channel) < QueueCap THEN Append(channel, msg) ELSE channel

(***************************************************************************)
(* The prologue of the callback, on the arrival of event e.                *)
(***************************************************************************)
ClientGone == is_remote /\ ~has_client

\* Mutant: the request is cleared, but only a missing client is acted upon.
LeaveOrStayDeaf ==
  /\ exit_remote' = FALSE
  /\ IF ClientGone THEN is_remote' = FALSE /\ pos_x' = frozen_x
                   ELSE UNCHANGED <<is_remote, pos_x>>

LeaveOrStay ==
  /\ exit_remote' = FALSE
  /\ IF (exit_remote \/ ClientGone) /\ is_remote
     THEN is_remote' = FALSE /\ pos_x' = frozen_x
     ELSE UNCHANGED <<is_remote, pos_x>>

GrabEvent(e) ==
  /\ event = NoEvent
  /\ event' = e
  /\ LeaveOrStay
  /\ UNCHANGED <<xserver, prev_x, prev_initialized, frozen_x, has_client, channel>>

GrabMove(raw) ==
  /\ rdev_x' = ClampX(rdev_x + raw)
  /\ GrabEvent([type |-> "MouseMove", x |-> ClampX(rdev_x + raw), raw |-> raw])
  /\ UNCHANGED typed

GrabKey(k, down) ==
  /\ <<k, down>> \notin typed
  /\ ~down => <<k, TRUE>> \in typed
  /\ typed' = typed \cup {<<k, down>>}
  /\ GrabEvent([type |-> "Key", key |-> k, pressed |-> down])
  /\ UNCHANGED rdev_x

GrabWheel == HasWheel /\ GrabEvent([type |-> "Wheel"]) /\ UNCHANGED user

Grab ==
  \/ \E raw \in RawSteps : GrabMove(raw)
  \/ \E k \in AllStrokes, down \in BOOLEAN : GrabKey(k, down)
  \/ GrabWheel

(***************************************************************************)
(* MouseMove.  The first event only synchronises; after it a delta is the  *)
(* difference of two consecutive reports.                                  *)
(***************************************************************************)
DeltaX == IF prev_initialized THEN event.x - prev_x ELSE 0

\* The column the clamp after the addition leaves the logical cursor in.
MovedPosX == ClampX((IF prev_initialized THEN pos_x ELSE event.x) + DeltaX)

\* Mutant: the previous position is only taken once.
TrackOnce ==
  /\ prev_initialized' = TRUE
  /\ prev_x' = IF prev_initialized THEN prev_x ELSE event.x
  /\ pos_x' = MovedPosX

Track ==
  /\ prev_initialized' = TRUE
  /\ prev_x' = event.x
  /\ pos_x' = MovedPosX

Done == event' = NoEvent /\ UNCHANGED <<user, exit_remote, has_client>>

\* Remote: forward the delta unless it is zero, suppress the event.  The code
\* tests dx # 0 \/ dy # 0: a vertical motion is forwarded with dx = 0.
MoveRemote ==
  /\ event.type = "MouseMove" /\ is_remote
  /\ Track
  /\ \/ DeltaX # 0 /\ TrySend(MouseDelta(DeltaX))
     \/ event.raw = 0 /\ prev_initialized /\ TrySend(MouseDelta(0))
     \/ DeltaX = 0 /\ UNCHANGED channel
  /\ Done
  /\ UNCHANGED <<xserver, frozen_x, is_remote>>

AtRightEdge == MovedPosX >= ScreenWidth - 1

\* Mutants: the warp of bug 10, which resets the previous position to the
\* point warped to; and the unconditional crossing of bug 11.
MoveEnterWarped ==
  /\ event.type = "MouseMove" /\ ~is_remote /\ AtRightEdge /\ has_client
  /\ prev_initialized' = TRUE /\ prev_x' = ScreenWidth \div 2 /\ pos_x' = MovedPosX
  /\ is_remote' = TRUE /\ frozen_x' = MovedPosX
  /\ TrySend(BoundaryEnter) /\ Done /\ UNCHANGED xserver

MoveEnterAlone ==
  /\ event.type = "MouseMove" /\ ~is_remote /\ AtRightEdge
  /\ Track /\ is_remote' = TRUE /\ frozen_x' = MovedPosX
  /\ TrySend(BoundaryEnter) /\ Done /\ UNCHANGED xserver

\* Local, at the right edge, with a client: enter remote mode, suppress.
MoveEnter ==
  /\ event.type = "MouseMove" /\ ~is_remote /\ AtRightEdge /\ has_client
  /\ Track
  /\ is_remote' = TRUE
  /\ frozen_x' = MovedPosX
  /\ TrySend(BoundaryEnter)
  /\ Done
  /\ UNCHANGED xserver

\* Local otherwise: the X server moves the real cursor by the raw motion.
MoveLocal ==
  /\ event.type = "MouseMove" /\ ~is_remote /\ ~(AtRightEdge /\ has_client)
  /\ Track
  /\ real_x' = ClampX(real_x + event.raw)
  /\ Done
  /\ UNCHANGED <<x_seen, frozen_x, is_remote, channel>>

(***************************************************************************)
(* Buttons, keys and the wheel: forwarded and suppressed while remote,     *)
(* passed through and never sent while local.                              *)
(***************************************************************************)
InputRemote ==
  /\ event.type \in {"Key", "Wheel"} /\ is_remote
  /\ \/ event.type = "Key" /\ event.key \in Strokes
        /\ TrySend(KeyPress(event.key, event.pressed))
     \/ event.type = "Key" /\ event.key \notin Strokes /\ UNCHANGED channel
     \/ event.type = "Wheel" /\ TrySend(Scroll)
  /\ Done
  /\ UNCHANGED <<xserver, track, is_remote>>

\* Mutant: bug 9, a local stroke is also sent into the channel.
InputLocalForwarded ==
  /\ event.type = "Key" /\ ~is_remote
  /\ x_seen' = x_seen \cup {<<event.key, event.pressed>>}
  /\ TrySend(KeyPress(event.key, event.pressed))
  /\ Done
  /\ UNCHANGED <<real_x, track, is_remote>>

InputLocal ==
  /\ event.type \in {"Key", "Wheel"} /\ ~is_remote
  /\ x_seen' = IF event.type = "Key"
               THEN x_seen \cup {<<event.key, event.pressed>>} ELSE x_seen
  /\ Done
  /\ UNCHANGED <<real_x, track, is_remote, channel>>

Handle == MoveRemote \/ MoveEnter \/ MoveLocal \/ InputRemote \/ InputLocal

(***************************************************************************)
(* The tasks of main.rs that share the handle's fields with the callback.  *)
(***************************************************************************)
RequestExit ==
  /\ exit_remote' = TRUE
  /\ UNCHANGED <<user, xserver, track, is_remote, has_client, channel, event>>

SetHasClient(present) ==
  /\ has_client' = present
  /\ UNCHANGED <<user, xserver, track, is_remote, exit_remote, channel, event>>

Receive ==
  /\ channel # <<>>
  /\ channel' = Tail(channel)
  /\ UNCHANGED <<user, xserver, track, flags, event>>

Next ==
  \/ Grab \/ Handle
  \/ RequestExit \/ (\E present \in BOOLEAN : SetHasClient(present)) \/ Receive

Spec == Init /\ [][Next]_vars

\* The user keeps producing events and rdev keeps calling the callback.
Fairness == WF_vars(Grab) /\ WF_vars(Handle)

FairSpec == Spec /\ Fairness
-----------------------------------------------------------------------------
(* Properties.                                                             *)

TypeOK ==
  /\ rdev_x \in Columns /\ real_x \in Columns
  /\ typed \subseteq AllStrokes \X BOOLEAN /\ x_seen \subseteq AllStrokes \X BOOLEAN
  /\ prev_x \in Columns /\ pos_x \in Columns /\ frozen_x \in Columns
  /\ prev_initialized \in BOOLEAN
  /\ is_remote \in BOOLEAN /\ exit_remote \in BOOLEAN /\ has_client \in BOOLEAN
  /\ channel \in Seq(WarpInputEvent) /\ Len(channel) <= QueueCap
  /\ event \in DeviceEvent \cup {NoEvent}

\* Between callbacks the previous position is the one rdev reported last, and
\* a session has one: the next delta is the difference of two reports.
PrevIsReported ==
  /\ is_remote => prev_initialized
  /\ event.type # "MouseMove" /\ prev_initialized => prev_x = rdev_x
  /\ event.type = "MouseMove" =>
       /\ event.x = rdev_x
       /\ prev_initialized => event.x = ClampX(prev_x + event.raw)

\* No press and no release goes to both machines: what the X server was
\* given is not waiting in the channel to the client.  Sending local input
\* into the channel as well was bug 9 of docs/bugs-and-fixes.md.
LocalStaysLocal ==
  \A i \in DOMAIN channel :
    channel[i].type = "KeyPress" => <<channel[i].key, channel[i].pressed>> \notin x_seen

\* The stroke the callback is handling has gone nowhere yet.  (With TypeOK,
\* PrevIsReported and LocalStaysLocal this is inductive.)
InChannel(k, down) ==
  \E i \in DOMAIN channel : channel[i] = KeyPress(k, down)

StrokesAreFresh ==
  /\ x_seen \subseteq typed
  /\ \A k \in Strokes, down \in BOOLEAN :
       InChannel(k, down) => <<k, down>> \in typed /\ <<k, down>> \notin x_seen
  /\ event.type = "Key" =>
       /\ <<event.key, event.pressed>> \in typed \ x_seen
       /\ ~InChannel(event.key, event.pressed)

IInv == TypeOK /\ PrevIsReported /\ StrokesAreFresh

Sent == channel'[Len(channel')]

\* A forwarded delta never invents motion: it has the direction of the raw
\* motion of the event and is at most as long, whatever rdev's clamping,
\* the mode changes and the restored position did before.  Computing deltas
\* from a position that was set rather than reported was bug 10.
NoPhantomDelta ==
  [][Len(channel') > Len(channel) /\ Sent.type = "MouseDelta" =>
       /\ event.type = "MouseMove"
       /\ \/ 0 <= Sent.dx /\ Sent.dx <= event.raw
          \/ event.raw <= Sent.dx /\ Sent.dx <= 0]_vars

\* The capture layer hands ownership over and takes it back as
\* CursorOwnership says.  Entering without a client, and having no way out
\* once the client is gone, was bug 11.
Owner == INSTANCE CursorOwnership WITH
  mode    <- IF is_remote THEN "remote" ELSE "local",
  present <- has_client,
  request <- exit_remote

Ownership == Owner!FairSpec
=============================================================================
