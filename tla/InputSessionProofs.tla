-------------------------- MODULE InputSessionProofs --------------------------
(***************************************************************************)
(* Proofs about WarpCapture and InputSession, for every size of the        *)
(* screens and channels and every set of motions and strokes.  The session *)
(* is a behaviour of WarpCapture with its environment, so what is proved   *)
(* first, of the capture layer alone, holds in it.                         *)
(***************************************************************************)
EXTENDS InputSession, SequenceTheorems, TLAPS

-----------------------------------------------------------------------------
(* The capture layer.                                                      *)

\* Clamping yields a column, and is the identity on columns.
LEMMA ClampXType ==
  ASSUME NEW v \in Int
  PROVE  /\ ClampX(v) \in Columns
         /\ v \in Columns => ClampX(v) = v
BY ScreenWidthAssumption DEF ClampX, Columns

\* Clamping a move that starts on the screen shortens it and never turns it.
LEMMA ClampXShortens ==
  ASSUME NEW p \in Columns, NEW r \in Int
  PROVE  LET d == ClampX(p + r) - p
         IN  (0 <= d /\ d <= r) \/ (r <= d /\ d <= 0)
BY ScreenWidthAssumption DEF ClampX, Columns

\* try_send keeps the channel typed and bounded, and puts the message last or
\* nowhere.
LEMMA TrySendEffect ==
  ASSUME NEW msg \in WarpInputEvent,
         channel \in Seq(WarpInputEvent), Len(channel) <= QueueCap, TrySend(msg)
  PROVE  /\ channel' \in Seq(WarpInputEvent) /\ Len(channel') <= QueueCap
         /\ \A i \in DOMAIN channel' :
              (i \in DOMAIN channel /\ channel'[i] = channel[i]) \/ channel'[i] = msg
         /\ Len(channel') > Len(channel) => channel'[Len(channel')] = msg
<1>1. CASE Len(channel) < QueueCap
  <2>1. channel' = Append(channel, msg)
    BY <1>1 DEF TrySend
  <2>2. /\ Len(channel') = Len(channel) + 1
        /\ \A i \in 1 .. Len(channel) : channel'[i] = channel[i]
        /\ channel'[Len(channel) + 1] = msg
        /\ channel' \in Seq(WarpInputEvent)
    BY <2>1
  <2> QED BY <1>1, <2>2, QueueCapAssumption
<1>2. CASE ~(Len(channel) < QueueCap)
  BY <1>2 DEF TrySend
<1> QED BY <1>1, <1>2

-----------------------------------------------------------------------------
(* Type correctness.                                                       *)

LEMMA InitTypeOK == Init => TypeOK
<1> SUFFICES ASSUME Init PROVE TypeOK
  OBVIOUS
<1>1. ScreenWidth \div 2 \in Columns /\ 0 \in Columns
  BY ScreenWidthAssumption DEF Columns
<1>2. channel \in Seq(WarpInputEvent) /\ Len(channel) <= QueueCap
  BY QueueCapAssumption DEF Init
<1> QED BY <1>1, <1>2 DEF Init, TypeOK

\* The prologue restores a column, or leaves the logical cursor alone.
LEMMA GrabTypeOK == TypeOK /\ Grab => TypeOK'
<1> SUFFICES ASSUME TypeOK, Grab PROVE TypeOK'
  OBVIOUS
<1>1. ASSUME NEW e \in DeviceEvent, GrabEvent(e), rdev_x' \in Columns,
             typed' \subseteq AllStrokes \X BOOLEAN
      PROVE  TypeOK'
  <2>1. event' \in DeviceEvent \cup {NoEvent} /\ UNCHANGED <<channel, real_x, x_seen>>
    BY <1>1 DEF GrabEvent, xserver
  <2>2. UNCHANGED <<prev_x, prev_initialized, frozen_x, has_client>>
    BY <1>1 DEF GrabEvent
  <2>3. exit_remote' \in BOOLEAN /\ is_remote' \in BOOLEAN /\ pos_x' \in Columns
    BY <1>1 DEF GrabEvent, LeaveOrStay, TypeOK
  <2> QED BY <1>1, <2>1, <2>2, <2>3 DEF TypeOK
<1>2. ASSUME NEW raw \in RawSteps, GrabMove(raw) PROVE TypeOK'
  <2>1. raw \in Int /\ rdev_x \in Int
    BY RawStepsAssumption, ScreenWidthAssumption DEF TypeOK, Columns
  <2>2. ClampX(rdev_x + raw) \in Columns
    BY <2>1, ClampXType
  <2>3. [type |-> "MouseMove", x |-> ClampX(rdev_x + raw), raw |-> raw] \in DeviceEvent
    BY <2>2 DEF DeviceEvent
  <2> QED BY <1>1, <1>2, <2>2, <2>3 DEF GrabMove, TypeOK
<1>3. ASSUME NEW k \in AllStrokes, NEW down \in BOOLEAN, GrabKey(k, down) PROVE TypeOK'
  <2>1. [type |-> "Key", key |-> k, pressed |-> down] \in DeviceEvent
    BY DEF DeviceEvent
  <2> QED BY <1>1, <1>3, <2>1 DEF GrabKey, TypeOK
<1>4. CASE GrabWheel
  <2>1. [type |-> "Wheel"] \in DeviceEvent
    BY DEF DeviceEvent
  <2> QED BY <1>1, <1>4, <2>1 DEF GrabWheel, TypeOK, user
<1> QED BY <1>2, <1>3, <1>4 DEF Grab

\* What is known of a motion that is being handled.
LEMMA MotionType ==
  ASSUME TypeOK, event.type = "MouseMove"
  PROVE  /\ event.x \in Columns /\ event.raw \in RawSteps
         /\ DeltaX \in Int /\ MovedPosX \in Columns
<1>1. event.x \in Columns /\ event.raw \in RawSteps
  BY DEF TypeOK, DeviceEvent, NoEvent
<1>2. DeltaX \in Int
  BY <1>1, ScreenWidthAssumption DEF DeltaX, TypeOK, Columns
<1>3. (IF prev_initialized THEN pos_x ELSE event.x) + DeltaX \in Int
  BY <1>1, <1>2, ScreenWidthAssumption DEF TypeOK, Columns
<1> QED BY <1>1, <1>2, <1>3, ClampXType DEF MovedPosX

\* What is known of a stroke that is being handled.
LEMMA StrokeType ==
  ASSUME TypeOK, event.type = "Key"
  PROVE  event.key \in AllStrokes /\ event.pressed \in BOOLEAN
BY DEF TypeOK, DeviceEvent, NoEvent

LEMMA HandleTypeOK == TypeOK /\ Handle => TypeOK'
<1> SUFFICES ASSUME TypeOK, Handle PROVE TypeOK'
  OBVIOUS
<1> USE DEF user, xserver, track
<1>1. ASSUME event.type = "MouseMove", Track
      PROVE  prev_initialized' \in BOOLEAN /\ prev_x' \in Columns /\ pos_x' \in Columns
  BY <1>1, MotionType DEF Track
<1>2. ASSUME NEW msg \in WarpInputEvent, TrySend(msg)
      PROVE  channel' \in Seq(WarpInputEvent) /\ Len(channel') <= QueueCap
  BY <1>2, TrySendEffect DEF TypeOK
<1>3. CASE MoveRemote
  <2>1. MouseDelta(DeltaX) \in WarpInputEvent /\ MouseDelta(0) \in WarpInputEvent
    BY <1>3, MotionType DEF MouseDelta, WarpInputEvent, MoveRemote
  <2>2. channel' \in Seq(WarpInputEvent) /\ Len(channel') <= QueueCap
    BY <1>2, <1>3, <2>1 DEF MoveRemote, TypeOK
  <2> QED BY <1>1, <1>3, <2>2 DEF MoveRemote, Done, TypeOK
<1>4. CASE MoveEnter
  <2>1. channel' \in Seq(WarpInputEvent) /\ Len(channel') <= QueueCap
    BY <1>2, <1>4 DEF MoveEnter, WarpInputEvent
  <2>2. frozen_x' \in Columns
    BY <1>4, MotionType DEF MoveEnter
  <2> QED BY <1>1, <1>4, <2>1, <2>2 DEF MoveEnter, Done, TypeOK
<1>5. CASE MoveLocal
  <2>a. event.raw \in Int
    BY <1>5, MotionType, RawStepsAssumption DEF MoveLocal
  <2>b. real_x \in Int
    BY ScreenWidthAssumption DEF TypeOK, Columns
  <2>1. real_x + event.raw \in Int
    BY <2>a, <2>b
  <2>2. real_x' \in Columns
    BY <1>5, <2>1, ClampXType DEF MoveLocal
  <2> QED BY <1>1, <1>5, <2>2 DEF MoveLocal, Done, TypeOK
<1>6. CASE InputRemote
  <2>1. event.type = "Key" /\ event.key \in Strokes
          => KeyPress(event.key, event.pressed) \in WarpInputEvent
    BY StrokeType DEF KeyPress, WarpInputEvent
  <2>2. channel' \in Seq(WarpInputEvent) /\ Len(channel') <= QueueCap
    BY <1>2, <1>6, <2>1 DEF InputRemote, TypeOK, WarpInputEvent
  <2> QED BY <1>6, <2>2 DEF InputRemote, Done, TypeOK
<1>7. CASE InputLocal
  <2>1. x_seen' \subseteq AllStrokes \X BOOLEAN
    BY <1>7, StrokeType DEF InputLocal, TypeOK
  <2> QED BY <1>7, <2>1 DEF InputLocal, Done, TypeOK
<1> QED BY <1>3, <1>4, <1>5, <1>6, <1>7 DEF Handle

LEMMA NextTypeOK == TypeOK /\ [Next]_vars => TypeOK'
<1> SUFFICES ASSUME TypeOK, [Next]_vars PROVE TypeOK'
  OBVIOUS
<1> USE DEF user, xserver, track, flags
<1>1. CASE RequestExit
  BY <1>1 DEF RequestExit, TypeOK
<1>2. CASE \E present \in BOOLEAN : SetHasClient(present)
  BY <1>2 DEF SetHasClient, TypeOK
<1>3. CASE Receive
  <2>1. channel' \in Seq(WarpInputEvent) /\ Len(channel') = Len(channel) - 1
    BY <1>3 DEF Receive, TypeOK
  <2>2. Len(channel') <= QueueCap
    BY <2>1, QueueCapAssumption DEF TypeOK
  <2> QED BY <1>3, <2>1, <2>2 DEF Receive, TypeOK
<1>4. CASE UNCHANGED vars
  BY <1>4 DEF vars, TypeOK
<1> QED BY <1>1, <1>2, <1>3, <1>4, GrabTypeOK, HandleTypeOK DEF Next

\* The variables of the capture layer keep their types, and the channel its
\* bound, however callbacks and the other tasks interleave.
THEOREM TypeCorrect == Spec => []TypeOK
BY InitTypeOK, NextTypeOK, PTL DEF Spec

-----------------------------------------------------------------------------
(* The previous position is the last reported one.                         *)

LEMMA NextPrevIsReported ==
  TypeOK /\ PrevIsReported /\ [Next]_vars => PrevIsReported'
<1> SUFFICES ASSUME TypeOK, PrevIsReported, [Next]_vars PROVE PrevIsReported'
  OBVIOUS
<1> USE DEF user, xserver, track, flags
<1>1. ASSUME NEW raw \in RawSteps, GrabMove(raw) PROVE PrevIsReported'
  <2>1. event.type # "MouseMove" /\ event'.type = "MouseMove"
    BY <1>1 DEF GrabMove, GrabEvent, NoEvent
  <2>2. event'.x = ClampX(rdev_x + raw) /\ event'.x = rdev_x' /\ event'.raw = raw
    BY <1>1 DEF GrabMove, GrabEvent
  <2>3. is_remote' => is_remote
    BY <1>1 DEF GrabMove, GrabEvent, LeaveOrStay
  <2>4. prev_x' = prev_x /\ prev_initialized' = prev_initialized
    BY <1>1 DEF GrabMove, GrabEvent
  <2> QED BY <2>1, <2>2, <2>3, <2>4 DEF PrevIsReported
<1>2. ASSUME NEW e, e.type # "MouseMove", GrabEvent(e), rdev_x' = rdev_x
      PROVE  PrevIsReported'
  <2>1. event.type # "MouseMove" /\ event'.type # "MouseMove"
    BY <1>2 DEF GrabEvent, NoEvent
  <2>2. is_remote' => is_remote
    BY <1>2 DEF GrabEvent, LeaveOrStay
  <2>3. prev_x' = prev_x /\ prev_initialized' = prev_initialized
    BY <1>2 DEF GrabEvent
  <2> QED BY <1>2, <2>1, <2>2, <2>3 DEF PrevIsReported
<1>3. CASE \E k \in AllStrokes, down \in BOOLEAN : GrabKey(k, down)
  BY <1>2, <1>3 DEF GrabKey
<1>4. CASE GrabWheel
  BY <1>2, <1>4 DEF GrabWheel
<1>5. ASSUME event.type = "MouseMove", Track, Done PROVE PrevIsReported'
  BY <1>5 DEF Track, Done, PrevIsReported, NoEvent
<1>6. CASE MoveRemote \/ MoveEnter \/ MoveLocal
  BY <1>5, <1>6 DEF MoveRemote, MoveEnter, MoveLocal
<1>7. CASE InputRemote \/ InputLocal
  BY <1>7 DEF InputRemote, InputLocal, Done, PrevIsReported, NoEvent
<1>8. CASE RequestExit \/ (\E present \in BOOLEAN : SetHasClient(present)) \/ Receive
  BY <1>8 DEF RequestExit, SetHasClient, Receive, PrevIsReported
<1>9. CASE UNCHANGED vars
  BY <1>9 DEF vars, PrevIsReported
<1> QED BY <1>1, <1>3, <1>4, <1>6, <1>7, <1>8, <1>9 DEF Next, Grab, Handle

\* Every delta the callback computes is the difference of two consecutive
\* reports of rdev, across mode changes, restored positions and clamping.
THEOREM PreviousIsReported == Spec => []PrevIsReported
<1>1. Init => PrevIsReported
  BY DEF Init, PrevIsReported, NoEvent
<1> QED BY <1>1, TypeCorrect, NextPrevIsReported, PTL DEF Spec

-----------------------------------------------------------------------------
(* No phantom deltas.                                                      *)

\* A computed delta is the raw motion, shortened by the clamp.
LEMMA DeltaWithinRaw ==
  ASSUME TypeOK, PrevIsReported, event.type = "MouseMove", is_remote
  PROVE  (0 <= DeltaX /\ DeltaX <= event.raw) \/ (event.raw <= DeltaX /\ DeltaX <= 0)
<1>1. event.x = ClampX(prev_x + event.raw) /\ DeltaX = event.x - prev_x
  BY DEF PrevIsReported, DeltaX
<1>2. event.raw \in Int
  BY MotionType, RawStepsAssumption
<1>3. prev_x \in Columns
  BY DEF TypeOK
<1> QED BY <1>1, <1>2, <1>3, ClampXShortens

LEMMA StepNoPhantomDelta ==
  TypeOK /\ PrevIsReported /\ [Next]_vars =>
    [Len(channel') > Len(channel) /\ Sent.type = "MouseDelta" =>
       /\ event.type = "MouseMove"
       /\ \/ 0 <= Sent.dx /\ Sent.dx <= event.raw
          \/ event.raw <= Sent.dx /\ Sent.dx <= 0]_vars
<1> SUFFICES ASSUME TypeOK, PrevIsReported, Next,
                    Len(channel') > Len(channel), Sent.type = "MouseDelta"
             PROVE  /\ event.type = "MouseMove"
                    /\ \/ 0 <= Sent.dx /\ Sent.dx <= event.raw
                       \/ event.raw <= Sent.dx /\ Sent.dx <= 0
  OBVIOUS
<1>1. channel \in Seq(WarpInputEvent) /\ Len(channel) <= QueueCap /\ Len(channel) \in Nat
  BY DEF TypeOK
<1>2. channel' # channel
  BY <1>1
<1>3. CASE MoveRemote
  <2>1. DeltaX \in Int /\ event.type = "MouseMove" /\ is_remote
    BY <1>3, MotionType DEF MoveRemote
  <2>2. MouseDelta(DeltaX) \in WarpInputEvent /\ MouseDelta(0) \in WarpInputEvent
    BY <2>1 DEF MouseDelta, WarpInputEvent
  <2>3. CASE TrySend(MouseDelta(DeltaX))
    <3>1. Sent = MouseDelta(DeltaX)
      BY <1>1, <2>2, <2>3, TrySendEffect DEF Sent
    <3> QED BY <2>1, <3>1, DeltaWithinRaw DEF MouseDelta
  <2>4. CASE event.raw = 0 /\ TrySend(MouseDelta(0))
    <3>1. Sent = MouseDelta(0)
      BY <1>1, <2>2, <2>4, TrySendEffect DEF Sent
    <3> QED BY <2>1, <2>4, <3>1 DEF MouseDelta
  <2> QED BY <1>2, <1>3, <2>3, <2>4 DEF MoveRemote
<1>4. CASE MoveEnter
  <2>1. BoundaryEnter \in WarpInputEvent
    BY DEF WarpInputEvent
  <2>2. Sent = BoundaryEnter
    BY <1>1, <1>4, <2>1, TrySendEffect DEF Sent, MoveEnter
  <2> QED BY <2>2 DEF BoundaryEnter
<1>5. CASE InputRemote
  <2>1. ASSUME NEW msg \in WarpInputEvent, TrySend(msg), msg.type # "MouseDelta" PROVE FALSE
    BY <1>1, <2>1, TrySendEffect DEF Sent
  <2>2. Scroll \in WarpInputEvent /\ Scroll.type # "MouseDelta"
    BY DEF WarpInputEvent, Scroll
  <2>3. event.type = "Key" /\ event.key \in Strokes =>
          LET msg == KeyPress(event.key, event.pressed)
          IN  msg \in WarpInputEvent /\ msg.type # "MouseDelta"
    BY StrokeType DEF WarpInputEvent, KeyPress
  <2> QED BY <1>2, <1>5, <2>1, <2>2, <2>3 DEF InputRemote
<1>6. CASE Receive
  <2>1. Len(channel') = Len(channel) - 1
    BY <1>1, <1>6 DEF Receive
  <2> QED BY <1>1, <2>1
<1>7. CASE Grab
  BY <1>2, <1>7 DEF Grab, GrabMove, GrabKey, GrabWheel, GrabEvent
<1>8. CASE MoveLocal \/ InputLocal \/ RequestExit \/ (\E b \in BOOLEAN : SetHasClient(b))
  BY <1>2, <1>8 DEF MoveLocal, InputLocal, RequestExit, SetHasClient
<1> QED BY <1>3, <1>4, <1>5, <1>6, <1>7, <1>8 DEF Next, Handle

\* Whatever the interleaving, a delta sent to the client has the direction of
\* the raw motion it stands for and is never longer (bug 10 cannot recur).
THEOREM DeltasAreReal == Spec => NoPhantomDelta
BY TypeCorrect, PreviousIsReported, StepNoPhantomDelta, PTL DEF Spec, NoPhantomDelta

-----------------------------------------------------------------------------
(* No stroke goes to both machines.                                        *)

\* What a step may put into the channel is what was there and one message.
LEMMA TrySendStrokes ==
  ASSUME TypeOK, NEW msg \in WarpInputEvent, TrySend(msg),
         NEW k \in Strokes, NEW down \in BOOLEAN, InChannel(k, down)'
  PROVE  InChannel(k, down) \/ msg = KeyPress(k, down)
<1>1. PICK i \in DOMAIN channel' : channel'[i] = KeyPress(k, down)
  BY DEF InChannel, KeyPress
<1> QED BY <1>1, TrySendEffect DEF TypeOK, InChannel

LEMMA ReceiveStrokes ==
  ASSUME TypeOK, Receive, NEW k \in Strokes, NEW down \in BOOLEAN, InChannel(k, down)'
  PROVE  InChannel(k, down)
<1>1. channel \in Seq(WarpInputEvent) /\ channel # <<>> /\ channel' = Tail(channel)
  BY DEF TypeOK, Receive
<1>2. PICK i \in DOMAIN channel' : channel'[i] = KeyPress(k, down)
  BY DEF InChannel, KeyPress
<1>3. i + 1 \in DOMAIN channel /\ channel[i + 1] = channel'[i]
  BY <1>1, <1>2
<1> QED BY <1>2, <1>3 DEF InChannel

\* A step that leaves the strokes where they are keeps them fresh.
LEMMA UnchangedStrokes ==
  ASSUME StrokesAreFresh, UNCHANGED <<typed, x_seen, channel>>,
         event' = event \/ event'.type # "Key"
  PROVE  StrokesAreFresh'
BY DEF StrokesAreFresh, InChannel

LEMMA NextStrokesAreFresh ==
  TypeOK /\ StrokesAreFresh /\ [Next]_vars => StrokesAreFresh'
<1> SUFFICES ASSUME TypeOK, StrokesAreFresh, [Next]_vars PROVE StrokesAreFresh'
  OBVIOUS
<1> USE DEF user, xserver, track, flags
<1>1. ASSUME NEW k \in AllStrokes, NEW down \in BOOLEAN, GrabKey(k, down)
      PROVE  StrokesAreFresh'
  <2>1. /\ <<k, down>> \notin typed /\ typed' = typed \cup {<<k, down>>}
        /\ event' = [type |-> "Key", key |-> k, pressed |-> down]
        /\ UNCHANGED <<x_seen, channel>>
    BY <1>1 DEF GrabKey, GrabEvent
  <2>2. \A j \in AllStrokes, d \in BOOLEAN : InChannel(j, d)' <=> InChannel(j, d)
    BY <2>1 DEF InChannel, KeyPress
  <2>3. ~InChannel(k, down)
    <3> SUFFICES ASSUME InChannel(k, down) PROVE FALSE
      OBVIOUS
    <3>1. PICK i \in DOMAIN channel : channel[i] = KeyPress(k, down)
      BY DEF InChannel
    <3>2. channel[i] \in WarpInputEvent
      BY <3>1 DEF TypeOK
    <3>3. k \in Strokes
      BY <3>1, <3>2 DEF KeyPress, WarpInputEvent, Scroll, BoundaryEnter
    <3> QED BY <2>1, <3>3 DEF StrokesAreFresh
  <2> QED BY <2>1, <2>2, <2>3 DEF StrokesAreFresh, AllStrokes
<1>2. CASE (\E raw \in RawSteps : GrabMove(raw)) \/ GrabWheel
  BY <1>2, UnchangedStrokes DEF GrabMove, GrabWheel, GrabEvent
<1>3. ASSUME NEW msg \in WarpInputEvent, TrySend(msg), msg.type # "KeyPress",
             UNCHANGED <<typed, x_seen>>, event' = NoEvent
      PROVE  StrokesAreFresh'
  <2>1. \A k \in Strokes, d \in BOOLEAN : InChannel(k, d)' => InChannel(k, d)
    BY <1>3, TrySendStrokes DEF KeyPress
  <2> QED BY <1>3, <2>1 DEF StrokesAreFresh, NoEvent
<1>4. CASE MoveRemote
  <2>1. /\ MouseDelta(DeltaX) \in WarpInputEvent /\ MouseDelta(DeltaX).type # "KeyPress"
        /\ MouseDelta(0) \in WarpInputEvent /\ MouseDelta(0).type # "KeyPress"
    BY <1>4, MotionType DEF MouseDelta, WarpInputEvent, MoveRemote
  <2>2. UNCHANGED <<typed, x_seen>> /\ event' = NoEvent
    BY <1>4 DEF MoveRemote, Done
  <2>3. CASE UNCHANGED channel
    BY <2>2, <2>3, UnchangedStrokes DEF NoEvent
  <2> QED BY <1>3, <1>4, <2>1, <2>2, <2>3 DEF MoveRemote
<1>5. CASE MoveEnter
  <2>1. BoundaryEnter \in WarpInputEvent /\ BoundaryEnter.type # "KeyPress"
    BY DEF BoundaryEnter, WarpInputEvent
  <2> QED BY <1>3, <1>5, <2>1 DEF MoveEnter, Done
<1>6. CASE MoveLocal
  BY <1>6, UnchangedStrokes DEF MoveLocal, Done, NoEvent
<1>7. CASE InputRemote
  <2>1. UNCHANGED <<typed, x_seen>> /\ event' = NoEvent
    BY <1>7 DEF InputRemote, Done
  <2>2. CASE event.type = "Key" /\ event.key \in Strokes
                /\ TrySend(KeyPress(event.key, event.pressed))
    <3>1. KeyPress(event.key, event.pressed) \in WarpInputEvent
      BY <2>2, StrokeType DEF KeyPress, WarpInputEvent
    <3>2. \A k \in Strokes, d \in BOOLEAN :
            InChannel(k, d)' => InChannel(k, d) \/ (k = event.key /\ d = event.pressed)
      BY <2>2, <3>1, TrySendStrokes DEF KeyPress
    <3> QED BY <2>1, <2>2, <3>2 DEF StrokesAreFresh, NoEvent
  <2>3. CASE UNCHANGED channel
    BY <2>1, <2>3, UnchangedStrokes DEF NoEvent
  <2>4. CASE TrySend(Scroll)
    BY <1>3, <2>1, <2>4 DEF Scroll, WarpInputEvent
  <2> QED BY <1>7, <2>2, <2>3, <2>4 DEF InputRemote
<1>8. CASE InputLocal
  <2>1. UNCHANGED <<typed, channel>> /\ event' = NoEvent
    BY <1>8 DEF InputLocal, Done
  <2>2. x_seen' = x_seen \/ (event.type = "Key" /\ x_seen' = x_seen \cup {<<event.key, event.pressed>>})
    BY <1>8 DEF InputLocal
  <2>3. \A k \in Strokes, d \in BOOLEAN : InChannel(k, d)' <=> InChannel(k, d)
    BY <2>1 DEF InChannel, KeyPress
  <2>4. event.type = "Key" => \A k \in Strokes, d \in BOOLEAN :
          InChannel(k, d) => <<k, d>> # <<event.key, event.pressed>>
    BY DEF StrokesAreFresh
  <2> QED BY <2>1, <2>2, <2>3, <2>4 DEF StrokesAreFresh, NoEvent
<1>9. CASE Receive
  <2>1. \A k \in Strokes, d \in BOOLEAN : InChannel(k, d)' => InChannel(k, d)
    BY <1>9, ReceiveStrokes
  <2>2. UNCHANGED <<typed, x_seen, event>>
    BY <1>9 DEF Receive
  <2>3. event.type = "Key" /\ InChannel(event.key, event.pressed)' =>
          InChannel(event.key, event.pressed)
    BY <1>9, <2>2 DEF TypeOK, Receive, InChannel, KeyPress
  <2> QED BY <2>1, <2>2, <2>3 DEF StrokesAreFresh
<1>10. CASE RequestExit \/ (\E present \in BOOLEAN : SetHasClient(present)) \/ UNCHANGED vars
  BY <1>10, UnchangedStrokes DEF RequestExit, SetHasClient, vars
<1> QED BY <1>1, <1>2, <1>4, <1>5, <1>6, <1>7, <1>8, <1>9, <1>10 DEF Next, Grab, Handle

LEMMA FreshIsLocal == TypeOK /\ StrokesAreFresh => LocalStaysLocal
<1> SUFFICES ASSUME TypeOK, StrokesAreFresh,
                    NEW i \in DOMAIN channel, channel[i].type = "KeyPress"
             PROVE  <<channel[i].key, channel[i].pressed>> \notin x_seen
  BY DEF LocalStaysLocal
<1>1. channel[i] \in WarpInputEvent
  BY DEF TypeOK
<1>2. /\ channel[i].key \in Strokes /\ channel[i].pressed \in BOOLEAN
      /\ channel[i] = KeyPress(channel[i].key, channel[i].pressed)
  BY <1>1 DEF WarpInputEvent, MouseDelta, Scroll, BoundaryEnter, KeyPress
<1>3. InChannel(channel[i].key, channel[i].pressed)
  BY <1>2 DEF InChannel
<1> QED BY <1>2, <1>3 DEF StrokesAreFresh

\* Every stroke in the channel was made by the user and not given to the X
\* server, and the one the callback is handling has gone nowhere yet.
THEOREM StrokesFresh == Spec => []StrokesAreFresh
<1>1. Init => StrokesAreFresh
  BY DEF Init, StrokesAreFresh, InChannel, NoEvent
<1> QED BY <1>1, TypeCorrect, NextStrokesAreFresh, PTL DEF Spec

\* A stroke the callback passed to the X server is never in the channel to
\* the client: local input stays local (bug 9 cannot recur).
THEOREM LocalInputStaysLocal == Spec => []LocalStaysLocal
BY StrokesFresh, TypeCorrect, FreshIsLocal, PTL

-----------------------------------------------------------------------------
(* The capture layer implements the abstract ownership.                    *)

LEMMA GrabImplementsOwner ==
  ASSUME TypeOK, NEW e, GrabEvent(e)
  PROVE  [Owner!Next]_(Owner!vars)
<1>1. is_remote \in BOOLEAN /\ exit_remote \in BOOLEAN /\ has_client \in BOOLEAN
  BY DEF TypeOK
<1>2. has_client' = has_client /\ exit_remote' = FALSE
  BY DEF GrabEvent, LeaveOrStay
<1>3. CASE is_remote /\ (exit_remote \/ ~has_client)
  <2>1. is_remote' = FALSE
    BY <1>3 DEF GrabEvent, LeaveOrStay, ClientGone
  <2>2. Owner!Leave
    BY <1>2, <1>3, <2>1 DEF Owner!Leave
  <2> QED BY <2>2 DEF Owner!Next
<1>4. CASE ~is_remote /\ exit_remote
  <2>1. is_remote' = is_remote
    BY <1>4 DEF GrabEvent, LeaveOrStay
  <2>2. Owner!Discard
    BY <1>2, <1>4, <2>1 DEF Owner!Discard
  <2> QED BY <2>2 DEF Owner!Next
<1>5. CASE ~exit_remote /\ (~is_remote \/ has_client)
  <2>1. is_remote' = is_remote
    BY <1>5 DEF GrabEvent, LeaveOrStay, ClientGone
  <2> QED BY <1>1, <1>2, <1>5, <2>1 DEF Owner!vars
<1> QED BY <1>1, <1>3, <1>4, <1>5

LEMMA StepImplementsOwner ==
  TypeOK /\ [Next]_vars => [Owner!Next]_(Owner!vars)
<1> SUFFICES ASSUME TypeOK, [Next]_vars PROVE [Owner!Next]_(Owner!vars)
  OBVIOUS
<1> USE DEF user, xserver, track, flags
<1>1. CASE Grab
  BY <1>1, GrabImplementsOwner DEF Grab, GrabMove, GrabKey, GrabWheel
<1>2. CASE MoveEnter
  <2>1. Owner!Enter
    BY <1>2 DEF MoveEnter, Done, Owner!Enter
  <2> QED BY <2>1 DEF Owner!Next
<1>3. CASE MoveRemote \/ MoveLocal \/ InputRemote \/ InputLocal \/ Receive \/ UNCHANGED vars
  BY <1>3 DEF MoveRemote, MoveLocal, InputRemote, InputLocal, Done, Receive, vars, Owner!vars
<1>4. CASE RequestExit
  <2>1. Owner!Request
    BY <1>4 DEF RequestExit, Owner!Request
  <2> QED BY <2>1 DEF Owner!Next
<1>5. CASE \E present \in BOOLEAN : SetHasClient(present)
  <2>1. Owner!ClientComesOrGoes
    BY <1>5 DEF SetHasClient, Owner!ClientComesOrGoes
  <2> QED BY <2>1 DEF Owner!Next
<1> QED BY <1>1, <1>2, <1>3, <1>4, <1>5 DEF Next, Handle

\* Every behaviour of the capture layer is one of CursorOwnership: remote mode
\* is entered only with a client, and left only on request or without one.
THEOREM ImplementsOwnership == Spec => Owner!Spec
<1>1. Init => Owner!Init
  BY DEF Init, Owner!Init
<1> QED BY <1>1, TypeCorrect, StepImplementsOwner, PTL DEF Spec, Owner!Spec


-----------------------------------------------------------------------------
(* The capture layer inside the session.                                   *)

\* A step of the session is a step of the capture layer with its environment,
\* or leaves the capture layer alone.
LEMMA StepImplementsCapture == [SNext]_svars => [Next]_vars
<1> SUFFICES ASSUME [SNext]_svars PROVE [Next]_vars
  OBVIOUS
<1>1. CASE CaptureGrab \/ CaptureHandle
  BY <1>1 DEF CaptureGrab, CaptureHandle, Next
<1>2. CASE ForwarderTake
  BY <1>2 DEF ForwarderTake, Next
<1>3. CASE ServerReceive
  BY <1>3 DEF ServerReceive, Next
<1>4. CASE Listener
  <2>1. SetHasClient(Head(notify) = "connected") /\ (Head(notify) = "connected") \in BOOLEAN
    BY <1>4 DEF Listener
  <2> QED BY <2>1 DEF Next
<1>5. CASE ForwarderSend \/ ClientDelta \/ ClientInput \/ ClientEnter
  BY <1>5 DEF ForwarderSend, ClientDelta, ClientInput, ClientEnter
<1>6. CASE Connect \/ Disconnect \/ DataLost
  BY <1>6 DEF Connect, Disconnect, DataLost
<1>7. CASE UNCHANGED svars
  BY <1>7 DEF svars
<1> QED BY <1>1, <1>2, <1>3, <1>4, <1>5, <1>6, <1>7 DEF SNext

\* The session's tasks do nothing to the capture layer that WarpCapture does
\* not foresee: what is proved of it in any environment holds in this one.
THEOREM ImplementsCapture == SSpec => Spec
<1>1. SInit => Init
  BY DEF SInit
<1> QED BY <1>1, StepImplementsCapture, PTL DEF SSpec, Spec

-----------------------------------------------------------------------------
(* Type correctness.                                                       *)

\* Sending keeps a bounded channel typed and bounded.
LEMMA SendKeepsType ==
  ASSUME NEW S, NEW q \in Seq(S), NEW e \in S, NEW cap \in Nat, Len(q) < cap
  PROVE  Append(q, e) \in Seq(S) /\ Len(Append(q, e)) <= cap
<1>1. Len(Append(q, e)) = Len(q) + 1 /\ Len(q) \in Nat
  OBVIOUS
<1> QED BY <1>1

LEMMA TakeKeepsType ==
  ASSUME NEW S, NEW q \in Seq(S), NEW cap \in Nat, Len(q) <= cap, q # <<>>
  PROVE  Tail(q) \in Seq(S) /\ Len(Tail(q)) <= cap /\ Head(q) \in S
<1>1. Len(Tail(q)) = Len(q) - 1 /\ Len(q) \in Nat
  OBVIOUS
<1> QED BY <1>1

LEMMA EmptyIsTyped ==
  ASSUME NEW S, NEW cap \in Nat
  PROVE  <<>> \in Seq(S) /\ Len(<<>>) <= cap
OBVIOUS

LEMMA SInitTypeOK == SInit => STypeOK
<1> SUFFICES ASSUME SInit PROVE STypeOK
  OBVIOUS
<1>1. ClientWidth \div 2 \in 0 .. ClientWidth - 1
  BY ClientWidthAssumption
<1>2. NetCap \in Nat /\ NotifyCap \in Nat
  BY NetCapAssumption, NotifyCapAssumption
<1> QED BY <1>1, <1>2, EmptyIsTyped DEF SInit, STypeOK

LEMMA SNextTypeOK == TypeOK /\ STypeOK /\ [SNext]_svars => STypeOK'
<1> SUFFICES ASSUME TypeOK, STypeOK, [SNext]_svars PROVE STypeOK'
  OBVIOUS
<1> USE DEF link, net, client
<1>0. NetCap \in Nat /\ NotifyCap \in Nat
  BY NetCapAssumption, NotifyCapAssumption
<1>1. CASE UNCHANGED <<in_hand, link, net, client>>
  BY <1>1 DEF STypeOK
<1>2. CASE ForwarderTake
  <2>1. Head(channel) \in WarpInputEvent
    BY <1>2 DEF ForwarderTake, Receive, TypeOK
  <2> QED BY <1>2, <2>1 DEF ForwarderTake, STypeOK
<1>3. CASE ForwarderSend
  <2>1. in_hand' = Nothing /\ UNCHANGED <<link, client>>
    BY <1>3 DEF ForwarderSend
  <2>2. CASE UNCHANGED net
    BY <2>1, <2>2 DEF STypeOK
  <2>3. CASE in_hand.type = "BoundaryEnter" /\ Len(ctrl_net) < NetCap
             /\ ctrl_net' = Append(ctrl_net, in_hand) /\ UNCHANGED <<data_net, up_net>>
    <3>1. in_hand \in {BoundaryEnter}
      BY <2>3 DEF STypeOK, WarpInputEvent, Scroll, BoundaryEnter, Nothing
    <3>2. ctrl_net' \in Seq({BoundaryEnter}) /\ Len(ctrl_net') <= NetCap
      BY <1>0, <2>3, <3>1, SendKeepsType DEF STypeOK
    <3> QED BY <2>1, <2>3, <3>2 DEF STypeOK
  <2>4. CASE in_hand # Nothing /\ in_hand.type # "BoundaryEnter" /\ Len(data_net) < NetCap
             /\ data_net' = Append(data_net, in_hand) /\ UNCHANGED <<ctrl_net, up_net>>
    <3>1. in_hand \in WarpInputEvent \ {BoundaryEnter}
      BY <2>4 DEF STypeOK, BoundaryEnter
    <3>2. data_net' \in Seq(WarpInputEvent \ {BoundaryEnter}) /\ Len(data_net') <= NetCap
      BY <1>0, <2>4, <3>1, SendKeepsType DEF STypeOK
    <3> QED BY <2>1, <2>4, <3>2 DEF STypeOK
  <2> QED BY <1>3, <2>2, <2>3, <2>4 DEF ForwarderSend
<1>4. CASE ClientDelta
  <2> DEFINE x == vc + Head(data_net).dx
  <2>1. /\ Head(data_net) \in WarpInputEvent \ {BoundaryEnter}
        /\ data_net' \in Seq(WarpInputEvent \ {BoundaryEnter}) /\ Len(data_net') <= NetCap
    BY <1>0, <1>4, TakeKeepsType DEF ClientDelta, STypeOK
  <2>2. Head(data_net).dx \in Int
    BY <1>4, <2>1 DEF ClientDelta, WarpInputEvent, Scroll
  <2>3. x \in Int
    BY <2>2 DEF STypeOK
  <2>4. CASE x <= 0 /\ vc' = 0 /\ Len(up_net) < NetCap /\ up_net' = Append(up_net, BoundaryLeave)
    <3>1. up_net' \in Seq({BoundaryLeave}) /\ Len(up_net') <= NetCap
      BY <1>0, <2>4, SendKeepsType DEF STypeOK
    <3>2. vc' \in 0 .. ClientWidth - 1
      BY <2>4, ClientWidthAssumption
    <3> QED BY <1>4, <2>1, <3>1, <3>2 DEF ClientDelta, STypeOK
  <2>5. CASE x > 0 /\ vc' = (IF x > ClientWidth - 1 THEN ClientWidth - 1 ELSE x) /\ UNCHANGED up_net
    <3>1. vc' \in 0 .. ClientWidth - 1
      BY <2>3, <2>5, ClientWidthAssumption
    <3> QED BY <1>4, <2>1, <2>5, <3>1 DEF ClientDelta, STypeOK
  <2> QED BY <1>4, <2>4, <2>5 DEF ClientDelta
<1>5. CASE ClientInput
  <2>1. /\ Head(data_net) \in WarpInputEvent \ {BoundaryEnter}
        /\ data_net' \in Seq(WarpInputEvent \ {BoundaryEnter}) /\ Len(data_net') <= NetCap
    BY <1>0, <1>5, TakeKeepsType DEF ClientInput, STypeOK
  <2>2. Head(data_net).type = "KeyPress" =>
          <<Head(data_net).key, Head(data_net).pressed>> \in Strokes \X BOOLEAN
    BY <2>1 DEF WarpInputEvent, Scroll
  <2>3. client_seen' \subseteq Strokes \X BOOLEAN
    BY <1>5, <2>2 DEF ClientInput, STypeOK
  <2> QED BY <1>5, <2>1, <2>3 DEF ClientInput, STypeOK
<1>6. CASE ClientEnter
  <2>1. ctrl_net' \in Seq({BoundaryEnter}) /\ Len(ctrl_net') <= NetCap
    BY <1>0, <1>6, TakeKeepsType DEF ClientEnter, STypeOK
  <2>2. vc' \in 0 .. ClientWidth - 1
    BY <1>6, EnterXAssumption, ClientWidthAssumption DEF ClientEnter
  <2> QED BY <1>6, <2>1, <2>2 DEF ClientEnter, STypeOK
<1>7. CASE ServerReceive
  <2>1. up_net' \in Seq({BoundaryLeave}) /\ Len(up_net') <= NetCap
    BY <1>0, <1>7, TakeKeepsType DEF ServerReceive, STypeOK
  <2> QED BY <1>7, <2>1 DEF ServerReceive, STypeOK
<1>8. CASE Listener
  <2>1. notify' \in Seq({"connected", "disconnected"}) /\ Len(notify') <= NotifyCap
    BY <1>0, <1>8, TakeKeepsType DEF Listener, STypeOK
  <2> QED BY <1>8, <2>1 DEF Listener, STypeOK
<1>9. CASE Connect
  <2>1. notify' \in Seq({"connected", "disconnected"}) /\ Len(notify') <= NotifyCap
    BY <1>0, <1>9, SendKeepsType DEF Connect, STypeOK
  <2>2. vc' \in 0 .. ClientWidth - 1
    BY <1>9, ClientWidthAssumption DEF Connect
  <2> QED BY <1>0, <1>9, <2>1, <2>2, EmptyIsTyped DEF Connect, STypeOK
<1>10. CASE Disconnect
  <2>1. notify' \in Seq({"connected", "disconnected"}) /\ Len(notify') <= NotifyCap
    BY <1>0, <1>10, SendKeepsType DEF Disconnect, STypeOK
  <2> QED BY <1>0, <1>10, <2>1, EmptyIsTyped DEF Disconnect, STypeOK
<1>11. CASE DataLost
  BY <1>0, <1>11, EmptyIsTyped DEF DataLost, STypeOK
<1> QED BY <1>1, <1>2, <1>3, <1>4, <1>5, <1>6, <1>7, <1>8, <1>9, <1>10, <1>11
        DEF SNext, CaptureGrab, CaptureHandle, svars

\* Every channel of a session keeps its bound and its kind of message, and the
\* client's cursor stays on the client's screen.
THEOREM SessionTypeCorrect == SSpec => []STypeOK
BY SInitTypeOK, SNextTypeOK, ImplementsCapture, TypeCorrect, PTL DEF SSpec

-----------------------------------------------------------------------------
(* One press or release acts on one machine.                               *)

\* A step that takes nothing new on its way, and leaves the user, the X server
\* and the callback alone, keeps the strokes fresh.
LEMMA NothingNewUnderway ==
  ASSUME TypeOK, StrokesStayFresh, UNCHANGED <<typed, x_seen, event>>,
         \A k \in Strokes, d \in BOOLEAN : Underway(k, d)' => Underway(k, d)
  PROVE  StrokesStayFresh'
<1>1. event.type = "Key" => event.pressed \in BOOLEAN
  BY DEF TypeOK, DeviceEvent, NoEvent
<1>2. event.type = "Key" /\ event.key \in Strokes => ~Underway(event.key, event.pressed)'
  <2> SUFFICES ASSUME event.type = "Key", event.key \in Strokes
               PROVE  ~Underway(event.key, event.pressed)'
    OBVIOUS
  <2> DEFINE Clear(k, d) ==
        /\ in_hand' # KeyPress(k, d)
        /\ ~\E i \in DOMAIN data_net' : data_net'[i] = KeyPress(k, d)
        /\ <<k, d>> \notin client_seen'
  <2>1. \A k \in Strokes, d \in BOOLEAN : ~Underway(k, d) => Clear(k, d)
    BY DEF Underway, KeyPress
  <2>2. Clear(event.key, event.pressed)
    <3>1. ~Underway(event.key, event.pressed)
      BY DEF StrokesStayFresh
    <3> HIDE DEF Clear
    <3> QED BY <1>1, <2>1, <3>1
  <2>3. event' = event
    OBVIOUS
  <2> QED BY <2>2, <2>3 DEF Underway, KeyPress
<1>3. \A k \in Strokes, d \in BOOLEAN :
        Underway(k, d)' => <<k, d>> \in typed' /\ <<k, d>> \notin x_seen'
  BY DEF StrokesStayFresh
<1> QED BY <1>2, <1>3 DEF StrokesStayFresh

\* What a sent message adds to a channel, and what a taken one leaves there.
LEMMA SentIsLast ==
  ASSUME NEW S, NEW q \in Seq(S), NEW e \in S, NEW i \in DOMAIN Append(q, e)
  PROVE  Append(q, e)[i] = e \/ (i \in DOMAIN q /\ Append(q, e)[i] = q[i])
OBVIOUS

LEMMA TakenIsFirst ==
  ASSUME NEW S, NEW q \in Seq(S), q # <<>>
  PROVE  /\ 1 \in DOMAIN q /\ Head(q) = q[1]
         /\ \A i \in DOMAIN Tail(q) : i + 1 \in DOMAIN q /\ Tail(q)[i] = q[i + 1]
OBVIOUS

LEMMA SInitStrokesStayFresh == SInit => StrokesStayFresh
BY DEF SInit, Init, StrokesStayFresh, Underway, NoEvent, Nothing, KeyPress

LEMMA SNextStrokesStayFresh ==
  TypeOK /\ STypeOK /\ StrokesAreFresh /\ StrokesStayFresh /\ [SNext]_svars
    => StrokesStayFresh'
<1> SUFFICES ASSUME TypeOK, STypeOK, StrokesAreFresh, StrokesStayFresh, [SNext]_svars
             PROVE  StrokesStayFresh'
  OBVIOUS
<1> DEFINE Nowhere == \A k \in Strokes, d \in BOOLEAN : Underway(k, d)' => Underway(k, d)
<1> USE DEF link, net, client
<1>1. CASE CaptureGrab
  <2>1. UNCHANGED <<in_hand, data_net, client_seen, x_seen>>
    BY <1>1 DEF CaptureGrab, Grab, GrabMove, GrabKey, GrabWheel, GrabEvent, xserver
  <2>2. \A k \in Strokes, d \in BOOLEAN : Underway(k, d)' <=> Underway(k, d)
    BY <2>1 DEF Underway, KeyPress
  <2>3. typed \subseteq typed'
    BY <1>1 DEF CaptureGrab, Grab, GrabMove, GrabKey, GrabWheel, user
  <2>4. event'.type # "Key" \/ (\E k \in AllStrokes, d \in BOOLEAN :
          /\ event'.type = "Key" /\ event'.key = k /\ event'.pressed = d
          /\ <<k, d>> \notin typed)
    <3>1. ASSUME NEW k \in AllStrokes, NEW d \in BOOLEAN, GrabKey(k, d)
          PROVE  /\ event'.type = "Key" /\ event'.key = k /\ event'.pressed = d
                 /\ <<k, d>> \notin typed
      BY <3>1 DEF GrabKey, GrabEvent
    <3>2. ASSUME NEW raw \in RawSteps, GrabMove(raw) PROVE event'.type # "Key"
      BY <3>2 DEF GrabMove, GrabEvent
    <3>3. CASE GrabWheel
      BY <3>3 DEF GrabWheel, GrabEvent
    <3> QED BY <1>1, <3>1, <3>2, <3>3 DEF CaptureGrab, Grab
  <2>5. ASSUME event'.type = "Key", event'.key \in Strokes
        PROVE  ~Underway(event.key, event.pressed)'
    <3>1. event'.pressed \in BOOLEAN /\ <<event'.key, event'.pressed>> \notin typed
      BY <2>4, <2>5
    <3>2. ~Underway(event'.key, event'.pressed)
      BY <2>5, <3>1 DEF StrokesStayFresh
    <3> QED BY <2>1, <3>2 DEF Underway, KeyPress
  <2> QED BY <2>1, <2>2, <2>3, <2>5 DEF StrokesStayFresh
<1>2. CASE CaptureHandle
  <2>1. UNCHANGED <<in_hand, data_net, client_seen, typed>> /\ event' = NoEvent
    BY <1>2 DEF CaptureHandle, Handle, MoveRemote, MoveEnter, MoveLocal, InputRemote,
                InputLocal, Done, user
  <2>2. \A k \in Strokes, d \in BOOLEAN : Underway(k, d)' <=> Underway(k, d)
    BY <2>1 DEF Underway, KeyPress
  <2>3. x_seen' = x_seen
          \/ (event.type = "Key" /\ x_seen' = x_seen \cup {<<event.key, event.pressed>>})
    BY <1>2 DEF CaptureHandle, Handle, MoveRemote, MoveEnter, MoveLocal, InputRemote,
                InputLocal, xserver
  <2>4. event.type = "Key" => \A k \in Strokes, d \in BOOLEAN :
          Underway(k, d) => <<k, d>> # <<event.key, event.pressed>>
    BY DEF StrokesStayFresh
  <2> QED BY <2>1, <2>2, <2>3, <2>4 DEF StrokesStayFresh, NoEvent
<1>3. CASE ForwarderTake
  <2>1. UNCHANGED <<data_net, client_seen, typed, x_seen, event>>
    BY <1>3 DEF ForwarderTake, Receive, user, xserver
  <2>2. \A k \in Strokes, d \in BOOLEAN :
          Underway(k, d)' => Underway(k, d) \/ InChannel(k, d)
    <3>1. 1 \in DOMAIN channel /\ Head(channel) = channel[1]
      BY <1>3, TakenIsFirst DEF ForwarderTake, Receive, TypeOK
    <3>2. in_hand' = Nothing \/ in_hand' = channel[1]
      BY <1>3, <3>1 DEF ForwarderTake
    <3> QED BY <2>1, <3>1, <3>2 DEF Underway, InChannel, KeyPress, Nothing
  <2>3. ASSUME event'.type = "Key", event'.key \in Strokes
        PROVE  ~Underway(event.key, event.pressed)'
    <3>1. event' = event /\ event.pressed \in BOOLEAN
      BY <2>1, <2>3 DEF TypeOK, DeviceEvent, NoEvent
    <3>2. /\ ~Underway(event.key, event.pressed)
          /\ ~InChannel(event.key, event.pressed)
      BY <2>3, <3>1 DEF StrokesStayFresh, StrokesAreFresh
    <3>3. in_hand' = Nothing \/ \E i \in DOMAIN channel : in_hand' = channel[i]
      BY <1>3, TakenIsFirst DEF ForwarderTake, Receive, TypeOK
    <3> QED BY <2>1, <3>1, <3>2, <3>3 DEF Underway, InChannel, KeyPress, Nothing
  <2> QED BY <2>1, <2>2, <2>3 DEF StrokesStayFresh, StrokesAreFresh
<1>4. CASE ForwarderSend
  <2>1. UNCHANGED <<client_seen, typed, x_seen, event>> /\ in_hand' = Nothing
    BY <1>4 DEF ForwarderSend, vars, user, xserver
  <2>2. \A i \in DOMAIN data_net' :
          data_net'[i] = in_hand \/ (i \in DOMAIN data_net /\ data_net'[i] = data_net[i])
    <3>1. data_net' = data_net \/ (in_hand \in WarpInputEvent \ {BoundaryEnter}
                                   /\ data_net' = Append(data_net, in_hand))
      BY <1>4 DEF ForwarderSend, STypeOK, BoundaryEnter
    <3> QED BY <3>1, SentIsLast DEF STypeOK
  <2>3. Nowhere
    BY <2>1, <2>2 DEF Underway, Nothing, KeyPress
  <2> QED BY <2>1, <2>3, NothingNewUnderway
<1>5. CASE ClientDelta
  <2>1. UNCHANGED <<in_hand, client_seen, typed, x_seen, event>>
    BY <1>5 DEF ClientDelta, vars, user, xserver
  <2>2. \A i \in DOMAIN data_net' : \E j \in DOMAIN data_net : data_net'[i] = data_net[j]
    BY <1>5, TakenIsFirst DEF ClientDelta, STypeOK
  <2>3. Nowhere
    BY <2>1, <2>2 DEF Underway, KeyPress
  <2> QED BY <2>1, <2>3, NothingNewUnderway
<1>6. CASE ClientInput
  <2>1. UNCHANGED <<in_hand, typed, x_seen, event>>
    BY <1>6 DEF ClientInput, vars, user, xserver
  <2>2. \A i \in DOMAIN data_net' : \E j \in DOMAIN data_net : data_net'[i] = data_net[j]
    BY <1>6, TakenIsFirst DEF ClientInput, STypeOK
  <2>3. \A k \in Strokes, d \in BOOLEAN : <<k, d>> \in client_seen' =>
          <<k, d>> \in client_seen \/ \E i \in DOMAIN data_net : data_net[i] = KeyPress(k, d)
    <3>1. 1 \in DOMAIN data_net /\ Head(data_net) = data_net[1]
          /\ data_net[1] \in WarpInputEvent
      BY <1>6, TakenIsFirst DEF ClientInput, STypeOK
    <3>2. data_net[1].type = "KeyPress" =>
            data_net[1] = KeyPress(data_net[1].key, data_net[1].pressed)
      BY <3>1 DEF WarpInputEvent, KeyPress, Scroll, BoundaryEnter
    <3>3. \/ client_seen' = client_seen
          \/ /\ data_net[1].type = "KeyPress"
             /\ client_seen' = client_seen \cup {<<data_net[1].key, data_net[1].pressed>>}
      BY <1>6, <3>1 DEF ClientInput
    <3> QED BY <3>1, <3>2, <3>3
  <2>4. Nowhere
    BY <2>1, <2>2, <2>3 DEF Underway, KeyPress
  <2> QED BY <2>1, <2>4, NothingNewUnderway
<1>7. CASE ClientEnter \/ ServerReceive \/ Listener \/ Disconnect \/ UNCHANGED svars
  <2>1. UNCHANGED <<in_hand, data_net, client_seen, typed, x_seen, event>>
    BY <1>7 DEF ClientEnter, ServerReceive, Listener, Disconnect, RequestExit,
                SetHasClient, svars, vars, user, xserver
  <2>2. Nowhere
    BY <2>1 DEF Underway, KeyPress
  <2> QED BY <2>1, <2>2, NothingNewUnderway
<1>8. CASE Connect \/ DataLost
  <2>1. UNCHANGED <<in_hand, client_seen, typed, x_seen, event>> /\ data_net' = <<>>
    BY <1>8 DEF Connect, DataLost, vars, user, xserver
  <2>2. Nowhere
    BY <2>1 DEF Underway, KeyPress
  <2> QED BY <2>1, <2>2, NothingNewUnderway
<1> QED BY <1>1, <1>2, <1>3, <1>4, <1>5, <1>6, <1>7, <1>8 DEF SNext

\* A stroke under way to the client was not given to the X server, and is not
\* given to it later: the callback has long finished with it.
THEOREM OnItsWayStaysFresh == SSpec => []StrokesStayFresh
BY SInitStrokesStayFresh, SNextStrokesStayFresh, ImplementsCapture, TypeCorrect,
   SessionTypeCorrect, StrokesFresh, PTL DEF SSpec

\* However captures, mode changes, connects, disconnects and losses interleave,
\* no press or release acts on both machines.
THEOREM StrokeActsOnce == SSpec => []OneMachine
<1>1. STypeOK /\ StrokesStayFresh => OneMachine
  <2> SUFFICES ASSUME STypeOK, StrokesStayFresh, NEW s \in client_seen PROVE s \notin x_seen
    BY DEF OneMachine
  <2>1. PICK k \in Strokes, d \in BOOLEAN : s = <<k, d>>
    BY DEF STypeOK
  <2> QED BY <2>1 DEF StrokesStayFresh, Underway
<1> QED BY <1>1, OnItsWayStaysFresh, SessionTypeCorrect, PTL

-----------------------------------------------------------------------------
(* A release does not overtake its press.                                  *)

Has(q, msg) == \E i \in DOMAIN q : q[i] = msg

\* Message r comes before p.
Swapped(q, r, p) == \E i \in DOMAIN q : \E j \in DOMAIN q : i < j /\ q[i] = r /\ q[j] = p

LEMMA NothingSwapped ==
  ASSUME NEW r, NEW p
  PROVE  ~Has(<<>>, p) /\ ~Swapped(<<>>, r, p)
BY DEF Has, Swapped

\* A press sent behind its release would be swapped, and nothing else.
LEMMA SentSwapped ==
  ASSUME NEW S, NEW q \in Seq(S), NEW e \in S, NEW r, NEW p
  PROVE  /\ Has(Append(q, e), p) => Has(q, p) \/ e = p
         /\ Swapped(Append(q, e), r, p) => Swapped(q, r, p) \/ (Has(q, r) /\ e = p)
<1> DEFINE u == Append(q, e)
<1>1. /\ DOMAIN q = 1 .. Len(q) /\ DOMAIN u = 1 .. Len(q) + 1 /\ Len(q) \in Nat
      /\ u[Len(q) + 1] = e /\ \A i \in 1 .. Len(q) : u[i] = q[i]
  OBVIOUS
<1> HIDE DEF u
<1>2. Has(u, p) => Has(q, p) \/ e = p
  BY <1>1 DEF Has
<1>3. ASSUME NEW i \in DOMAIN u, NEW j \in DOMAIN u, i < j, u[i] = r, u[j] = p
      PROVE  Swapped(q, r, p) \/ (Has(q, r) /\ e = p)
  <2>1. i \in DOMAIN q /\ q[i] = r
    BY <1>1, <1>3
  <2>2. CASE j = Len(q) + 1
    BY <1>1, <1>3, <2>1, <2>2 DEF Has
  <2>3. CASE j # Len(q) + 1
    <3>1. j \in DOMAIN q /\ q[j] = p
      BY <1>1, <1>3, <2>3
    <3> QED BY <1>3, <2>1, <3>1 DEF Swapped
  <2> QED BY <2>2, <2>3
<1> QED BY <1>2, <1>3 DEF Swapped, u

\* What is left when the first message is taken.
LEMMA TakenSwapped ==
  ASSUME NEW S, NEW q \in Seq(S), q # <<>>, NEW r, NEW p
  PROVE  /\ Has(q, Head(q))
         /\ Has(Tail(q), p) => Has(q, p)
         /\ Swapped(Tail(q), r, p) => Swapped(q, r, p)
         /\ Head(q) = r /\ Has(Tail(q), p) => Swapped(q, r, p)
<1>1. /\ 1 \in DOMAIN q /\ Head(q) = q[1] /\ DOMAIN q \subseteq Nat
      /\ DOMAIN Tail(q) \subseteq Nat \ {0}
      /\ \A i \in DOMAIN Tail(q) : i + 1 \in DOMAIN q /\ Tail(q)[i] = q[i + 1]
  OBVIOUS
<1> DEFINE t == Tail(q)
<1> HIDE DEF t
<1>2. \A i \in DOMAIN t : i \in Nat \ {0} /\ i + 1 \in DOMAIN q /\ t[i] = q[i + 1] /\ 1 < i + 1
  BY <1>1 DEF t
<1>3. Has(q, Head(q))
  BY <1>1 DEF Has
<1>4. Has(t, p) => Has(q, p)
  BY <1>2 DEF Has
<1>5. ASSUME NEW i \in DOMAIN t, NEW j \in DOMAIN t, i < j, t[i] = r, t[j] = p
      PROVE  Swapped(q, r, p)
  <2>1. i + 1 < j + 1
    BY <1>2, <1>5
  <2> QED BY <1>2, <1>5, <2>1 DEF Swapped
<1>6. ASSUME NEW i \in DOMAIN t, Head(q) = r, t[i] = p PROVE Swapped(q, r, p)
  BY <1>1, <1>2, <1>6 DEF Swapped
<1> QED BY <1>3, <1>4, <1>5, <1>6 DEF Has, Swapped, t

\* The inductive invariant: on the whole way from the callback to the client
\* no release is ahead of its press.
PressFirst(k) ==
  LET p == KeyPress(k, TRUE)
      r == KeyPress(k, FALSE)
  IN  /\ <<k, FALSE>> \in typed => <<k, TRUE>> \in typed
      /\ event = [type |-> "Key", key |-> k, pressed |-> TRUE] => <<k, FALSE>> \notin typed
      /\ ~Swapped(channel, r, p) /\ ~Swapped(data_net, r, p)
      /\ in_hand = r => ~Has(channel, p)
      /\ Has(data_net, r) => ~Has(channel, p) /\ in_hand # p
      /\ <<k, FALSE>> \in client_seen => ~Has(channel, p) /\ in_hand # p /\ ~Has(data_net, p)

\* What has not been released is nowhere on the way.
LEMMA UnreleasedIsNowhere ==
  ASSUME StrokesAreFresh, StrokesStayFresh, NEW k \in Strokes, <<k, FALSE>> \notin typed
  PROVE  LET r == KeyPress(k, FALSE)
         IN  ~Has(channel, r) /\ in_hand # r /\ ~Has(data_net, r) /\ <<k, FALSE>> \notin client_seen
<1>1. FALSE \in BOOLEAN
  OBVIOUS
<1>2. ~InChannel(k, FALSE)
  BY <1>1 DEF StrokesAreFresh
<1>3. ~Underway(k, FALSE)
  BY <1>1 DEF StrokesStayFresh
<1> QED BY <1>2, <1>3 DEF InChannel, Underway, Has

LEMMA StrokesDiffer ==
  ASSUME NEW k, NEW j, NEW d
  PROVE  /\ KeyPress(k, TRUE) # KeyPress(k, FALSE)
         /\ KeyPress(k, d) # Nothing
         /\ KeyPress(k, d) = KeyPress(j, TRUE) => k = j /\ d = TRUE
         /\ KeyPress(k, d).type = "KeyPress" /\ KeyPress(k, d).key = k /\ KeyPress(k, d).pressed = d
<1>1. /\ KeyPress(k, TRUE).pressed = TRUE /\ KeyPress(k, FALSE).pressed = FALSE
      /\ KeyPress(k, d).type = "KeyPress" /\ KeyPress(k, d).key = k /\ KeyPress(k, d).pressed = d
      /\ KeyPress(j, TRUE).key = j /\ KeyPress(j, TRUE).pressed = TRUE
      /\ Nothing.type = "Nothing"
  BY DEF KeyPress, Nothing
<1> QED BY <1>1

\* A step that changes nothing of this but loses messages of the data channel.
LEMMA LosingKeepsOrder ==
  ASSUME NEW k \in Strokes, PressFirst(k), UNCHANGED <<typed, channel, in_hand, client_seen>>,
         event' = event \/ event' = NoEvent, data_net' = data_net \/ data_net' = <<>>
  PROVE  PressFirst(k)'
<1> DEFINE p == KeyPress(k, TRUE)
           r == KeyPress(k, FALSE)
<1>1. NoEvent # [type |-> "Key", key |-> k, pressed |-> TRUE]
  BY DEF NoEvent
<1>2. p' = p /\ r' = r
  BY DEF KeyPress
<1>3. ~Has(<<>>, p) /\ ~Has(<<>>, r) /\ ~Swapped(<<>>, r, p)
  BY NothingSwapped
<1>4. CASE data_net' = data_net
  BY <1>1, <1>4 DEF PressFirst, Has, Swapped, KeyPress
<1>5. CASE data_net' = <<>>
  <2>1. ~Has(data_net', p) /\ ~Has(data_net', r) /\ ~Swapped(data_net', r, p)
    BY <1>3, <1>5
  <2> QED BY <1>1, <2>1 DEF PressFirst, Has, Swapped, KeyPress
<1> QED BY <1>4, <1>5

LEMMA GrabKeepsOrder ==
  ASSUME NEW k \in Strokes, PressFirst(k), CaptureGrab
  PROVE  PressFirst(k)'
<1>1. UNCHANGED <<channel, in_hand, data_net, client_seen>>
  BY DEF CaptureGrab, Grab, GrabMove, GrabKey, GrabWheel, GrabEvent, net, client
<1>2. /\ <<k, FALSE>> \in typed' => <<k, TRUE>> \in typed'
      /\ event' = [type |-> "Key", key |-> k, pressed |-> TRUE] => <<k, FALSE>> \notin typed'
  <2>0. <<k, FALSE>> \in typed => <<k, TRUE>> \in typed
    BY DEF PressFirst
  <2>1. ASSUME NEW j \in AllStrokes, GrabKey(j, TRUE)
        PROVE  /\ <<k, FALSE>> \in typed' => <<k, TRUE>> \in typed'
               /\ event' = [type |-> "Key", key |-> k, pressed |-> TRUE] => <<k, FALSE>> \notin typed'
    <3>1. /\ <<j, TRUE>> \notin typed /\ typed' = typed \cup {<<j, TRUE>>}
          /\ event' = [type |-> "Key", key |-> j, pressed |-> TRUE]
      BY <2>1 DEF GrabKey, GrabEvent
    <3>2. event' = [type |-> "Key", key |-> k, pressed |-> TRUE] => j = k
      BY <3>1
    <3> QED BY <2>0, <3>1, <3>2
  <2>2. ASSUME NEW j \in AllStrokes, GrabKey(j, FALSE)
        PROVE  /\ <<k, FALSE>> \in typed' => <<k, TRUE>> \in typed'
               /\ event' = [type |-> "Key", key |-> k, pressed |-> TRUE] => <<k, FALSE>> \notin typed'
    <3>1. /\ <<j, TRUE>> \in typed /\ typed' = typed \cup {<<j, FALSE>>}
          /\ event' = [type |-> "Key", key |-> j, pressed |-> FALSE]
      BY <2>2 DEF GrabKey, GrabEvent
    <3>2. event'.pressed = FALSE
      BY <3>1
    <3>3. event' # [type |-> "Key", key |-> k, pressed |-> TRUE]
      BY <3>2
    <3> QED BY <2>0, <3>1, <3>3
  <2>3. CASE (\E raw \in RawSteps : GrabMove(raw)) \/ GrabWheel
    <3>1. typed' = typed /\ event'.type # "Key"
      BY <2>3 DEF GrabMove, GrabWheel, GrabEvent, user
    <3> QED BY <2>0, <3>1
  <2>4. \A d \in BOOLEAN : d = TRUE \/ d = FALSE
    OBVIOUS
  <2> QED BY <2>1, <2>2, <2>3, <2>4 DEF CaptureGrab, Grab
<1> QED BY <1>1, <1>2 DEF PressFirst, Has, Swapped, KeyPress

\* What the callback does to the channel, seen from one stroke: it sends a
\* message that is not its press, or the press it has just been given.
LEMMA HandleSends ==
  ASSUME TypeOK, CaptureHandle, NEW k \in Strokes
  PROVE  \/ channel' = channel
         \/ \E msg \in WarpInputEvent :
              /\ channel' = Append(channel, msg)
              /\ msg = KeyPress(k, TRUE) =>
                   event = [type |-> "Key", key |-> k, pressed |-> TRUE]
<1> DEFINE Goal == \/ channel' = channel
                   \/ \E msg \in WarpInputEvent :
                        /\ channel' = Append(channel, msg)
                        /\ msg = KeyPress(k, TRUE) =>
                             event = [type |-> "Key", key |-> k, pressed |-> TRUE]
<1> SUFFICES Goal
  OBVIOUS
<1>1. ASSUME NEW msg \in WarpInputEvent, TrySend(msg),
             msg = KeyPress(k, TRUE) => event = [type |-> "Key", key |-> k, pressed |-> TRUE]
      PROVE  Goal
  <2>1. channel' = channel \/ channel' = Append(channel, msg)
    BY <1>1 DEF TrySend
  <2> QED BY <1>1, <2>1
<1> HIDE DEF Goal
<1>2. ASSUME NEW msg \in WarpInputEvent, TrySend(msg), msg.type # "KeyPress" PROVE Goal
  <2>1. msg # KeyPress(k, TRUE)
    BY <1>2 DEF KeyPress
  <2> QED BY <1>1, <1>2, <2>1
<1>3. ASSUME UNCHANGED channel PROVE Goal
  BY <1>3 DEF Goal
<1>4. CASE MoveRemote
  <2>1. /\ MouseDelta(DeltaX) \in WarpInputEvent /\ MouseDelta(DeltaX).type # "KeyPress"
        /\ MouseDelta(0) \in WarpInputEvent /\ MouseDelta(0).type # "KeyPress"
    BY <1>4, MotionType DEF MouseDelta, WarpInputEvent, MoveRemote
  <2> QED BY <1>2, <1>3, <1>4, <2>1 DEF MoveRemote
<1>5. CASE MoveEnter
  <2>1. BoundaryEnter \in WarpInputEvent /\ BoundaryEnter.type # "KeyPress"
    BY DEF BoundaryEnter, WarpInputEvent
  <2> QED BY <1>2, <1>5, <2>1 DEF MoveEnter
<1>6. CASE InputRemote
  <2>1. CASE event.type = "Key" /\ event.key \in Strokes
             /\ TrySend(KeyPress(event.key, event.pressed))
    <3>1. KeyPress(event.key, event.pressed) \in WarpInputEvent
      BY <2>1, StrokeType DEF KeyPress, WarpInputEvent
    <3>2. event = [type |-> "Key", key |-> event.key, pressed |-> event.pressed]
      BY <2>1 DEF TypeOK, DeviceEvent, NoEvent
    <3>3. KeyPress(event.key, event.pressed) = KeyPress(k, TRUE) =>
            event = [type |-> "Key", key |-> k, pressed |-> TRUE]
      <4> DEFINE a == event.key
                 d == event.pressed
      <4>1. /\ KeyPress(a, d).key = a /\ KeyPress(a, d).pressed = d
            /\ KeyPress(k, TRUE).key = k /\ KeyPress(k, TRUE).pressed = TRUE
        BY DEF KeyPress
      <4> HIDE DEF a, d
      <4>2. KeyPress(a, d) = KeyPress(k, TRUE) => a = k /\ d = TRUE
        BY <4>1
      <4>3. event = [type |-> "Key", key |-> a, pressed |-> d]
        BY <3>2 DEF a, d
      <4>4. KeyPress(a, d) = KeyPress(k, TRUE) => event = [type |-> "Key", key |-> k, pressed |-> TRUE]
        BY <4>2, <4>3
      <4> QED BY <4>4 DEF a, d
    <3> QED BY <1>1, <2>1, <3>1, <3>3
  <2>2. Scroll \in WarpInputEvent /\ Scroll.type # "KeyPress"
    BY DEF WarpInputEvent, Scroll
  <2> QED BY <1>2, <1>3, <1>6, <2>1, <2>2 DEF InputRemote
<1>7. CASE MoveLocal \/ InputLocal
  BY <1>3, <1>7 DEF MoveLocal, InputLocal
<1> QED BY <1>4, <1>5, <1>6, <1>7 DEF CaptureHandle, Handle

LEMMA HandleKeepsOrder ==
  ASSUME TypeOK, StrokesAreFresh, StrokesStayFresh, NEW k \in Strokes, PressFirst(k), CaptureHandle
  PROVE  PressFirst(k)'
<1> DEFINE p == KeyPress(k, TRUE)
           r == KeyPress(k, FALSE)
<1>1. UNCHANGED <<in_hand, data_net, client_seen, typed>> /\ event' = NoEvent
  BY DEF CaptureHandle, Handle, MoveRemote, MoveEnter, MoveLocal, InputRemote,
         InputLocal, Done, user, net, client
<1>2. CASE channel' = channel
  BY <1>1, <1>2, LosingKeepsOrder
<1>3. ASSUME NEW msg \in WarpInputEvent, channel' = Append(channel, msg),
             msg = p => event = [type |-> "Key", key |-> k, pressed |-> TRUE]
      PROVE  PressFirst(k)'
  <2>1. /\ Has(channel', p) => Has(channel, p) \/ msg = p
        /\ Swapped(channel', r, p) => Swapped(channel, r, p) \/ (Has(channel, r) /\ msg = p)
    BY <1>3, SentSwapped DEF TypeOK
  <2>2. msg = p => ~Has(channel, r) /\ in_hand # r /\ ~Has(data_net, r) /\ <<k, FALSE>> \notin client_seen
    <3> SUFFICES ASSUME msg = p
                 PROVE  ~Has(channel, r) /\ in_hand # r /\ ~Has(data_net, r) /\ <<k, FALSE>> \notin client_seen
      OBVIOUS
    <3>1. <<k, FALSE>> \notin typed
      BY <1>3 DEF PressFirst
    <3> QED BY <3>1, UnreleasedIsNowhere
  <2>3. event' # [type |-> "Key", key |-> k, pressed |-> TRUE]
    BY <1>1 DEF NoEvent
  <2>4. /\ ~Swapped(channel', r, p)
        /\ in_hand = r => ~Has(channel', p)
        /\ Has(data_net, r) => ~Has(channel', p)
        /\ <<k, FALSE>> \in client_seen => ~Has(channel', p)
    BY <2>1, <2>2 DEF PressFirst
  <2> QED BY <1>1, <2>3, <2>4 DEF PressFirst, Has, Swapped, KeyPress
<1> QED BY <1>2, <1>3, HandleSends

LEMMA TakeKeepsOrder ==
  ASSUME TypeOK, NEW k \in Strokes, PressFirst(k), ForwarderTake
  PROVE  PressFirst(k)'
<1> DEFINE p == KeyPress(k, TRUE)
           r == KeyPress(k, FALSE)
           h == Head(channel)
<1>1. /\ channel \in Seq(WarpInputEvent) /\ channel # <<>> /\ channel' = Tail(channel)
      /\ UNCHANGED <<typed, event, data_net, client_seen>>
      /\ in_hand' = Nothing \/ in_hand' = h
  BY DEF ForwarderTake, Receive, TypeOK, user, net, client
<1> HIDE DEF h
<1>2. /\ Has(channel, h) /\ (Has(channel', p) => Has(channel, p))
      /\ Swapped(channel', r, p) => Swapped(channel, r, p)
      /\ h = r /\ Has(channel', p) => Swapped(channel, r, p)
  BY <1>1, TakenSwapped DEF h
<1>3. p # Nothing /\ r # Nothing
  BY StrokesDiffer
<1>4. /\ ~Swapped(channel', r, p)
      /\ in_hand' = r => ~Has(channel', p)
      /\ Has(data_net, r) => ~Has(channel', p) /\ in_hand' # p
      /\ <<k, FALSE>> \in client_seen => ~Has(channel', p) /\ in_hand' # p
  BY <1>1, <1>2, <1>3 DEF PressFirst
<1> QED BY <1>1, <1>4 DEF PressFirst, Has, Swapped, KeyPress

LEMMA SendKeepsOrder ==
  ASSUME STypeOK, NEW k \in Strokes, PressFirst(k), ForwarderSend
  PROVE  PressFirst(k)'
<1> DEFINE p == KeyPress(k, TRUE)
           r == KeyPress(k, FALSE)
<1>1. UNCHANGED <<typed, event, channel, client_seen>> /\ in_hand' = Nothing
  BY DEF ForwarderSend, vars, user, client
<1>2. p # Nothing /\ r # Nothing /\ p # r
  BY StrokesDiffer
<1>3. data_net' = data_net
        \/ (in_hand \in WarpInputEvent \ {BoundaryEnter} /\ data_net' = Append(data_net, in_hand))
  BY DEF ForwarderSend, STypeOK, BoundaryEnter, net
<1>4. /\ ~Swapped(data_net', r, p)
      /\ Has(data_net', r) => ~Has(channel, p)
      /\ <<k, FALSE>> \in client_seen => ~Has(data_net', p)
  <2>1. CASE data_net' = data_net
    BY <2>1 DEF PressFirst
  <2>2. CASE in_hand \in WarpInputEvent \ {BoundaryEnter} /\ data_net' = Append(data_net, in_hand)
    <3>1. /\ Has(data_net', p) => Has(data_net, p) \/ in_hand = p
          /\ Has(data_net', r) => Has(data_net, r) \/ in_hand = r
          /\ Swapped(data_net', r, p) => Swapped(data_net, r, p) \/ (Has(data_net, r) /\ in_hand = p)
      BY <2>2, SentSwapped DEF STypeOK
    <3> QED BY <3>1 DEF PressFirst
  <2> QED BY <1>3, <2>1, <2>2
<1> QED BY <1>1, <1>2, <1>4 DEF PressFirst, Has, Swapped, KeyPress

\* The client takes a message: if it injects one, that is the first.
LEMMA ClientKeepsOrder ==
  ASSUME STypeOK, NEW k \in Strokes, PressFirst(k), ClientDelta \/ ClientInput
  PROVE  /\ PressFirst(k)'
         /\ <<k, TRUE>> \in client_seen' \ client_seen => <<k, FALSE>> \notin client_seen
<1> DEFINE p == KeyPress(k, TRUE)
           r == KeyPress(k, FALSE)
           h == Head(data_net)
<1>1. /\ data_net \in Seq(WarpInputEvent \ {BoundaryEnter}) /\ data_net # <<>>
      /\ data_net' = Tail(data_net) /\ UNCHANGED <<typed, event, channel, in_hand>>
  BY DEF ClientDelta, ClientInput, STypeOK, vars, user
<1>2. /\ Has(data_net, h) /\ (Has(data_net', p) => Has(data_net, p))
      /\ Has(data_net', r) => Has(data_net, r)
      /\ Swapped(data_net', r, p) => Swapped(data_net, r, p)
      /\ h = r /\ Has(data_net', p) => Swapped(data_net, r, p)
  BY <1>1, TakenSwapped
<1>3. ASSUME NEW d \in BOOLEAN PROVE <<k, d>> \in client_seen' => <<k, d>> \in client_seen \/ h = KeyPress(k, d)
  <2>1. \/ client_seen' = client_seen
        \/ h.type = "KeyPress" /\ client_seen' = client_seen \cup {<<h.key, h.pressed>>}
    BY DEF ClientDelta, ClientInput
  <2>2. h \in WarpInputEvent
    BY <1>1
  <2>3. h.type = "KeyPress" => h = KeyPress(h.key, h.pressed)
    BY <2>2 DEF WarpInputEvent, KeyPress, Scroll, BoundaryEnter
  <2> HIDE DEF h
  <2> QED BY <2>1, <2>3
<1> HIDE DEF h
<1>4. /\ ~Swapped(data_net', r, p)
      /\ Has(data_net', r) => ~Has(channel, p) /\ in_hand # p
      /\ <<k, FALSE>> \in client_seen' => ~Has(channel, p) /\ in_hand # p /\ ~Has(data_net', p)
  <2>1. <<k, FALSE>> \in client_seen' => <<k, FALSE>> \in client_seen \/ h = r
    BY <1>3
  <2> QED BY <1>2, <2>1 DEF PressFirst
<1>5. <<k, TRUE>> \in client_seen' \ client_seen => h = p
  BY <1>3
<1>6. h = p => <<k, FALSE>> \notin client_seen
  BY <1>2 DEF PressFirst
<1>7. PressFirst(k)'
  BY <1>1, <1>4 DEF PressFirst, Has, Swapped, KeyPress
<1> QED BY <1>5, <1>6, <1>7

\* The other tasks, and what breaks, inject nothing and send nothing.
LEMMA OthersKeepOrder ==
  ASSUME NEW k \in Strokes, PressFirst(k),
         \/ ClientEnter \/ ServerReceive \/ Listener \/ Connect \/ Disconnect \/ DataLost
         \/ UNCHANGED svars
  PROVE  PressFirst(k)' /\ client_seen' = client_seen
<1>1. /\ UNCHANGED <<typed, event, channel, in_hand, client_seen>>
      /\ data_net' = data_net \/ data_net' = <<>>
  BY DEF ClientEnter, ServerReceive, RequestExit, Listener, SetHasClient, Connect, Disconnect,
         DataLost, svars, vars, user, net, client
<1> QED BY <1>1, LosingKeepsOrder

LEMMA SNextPressFirst ==
  ASSUME TypeOK, STypeOK, StrokesAreFresh, StrokesStayFresh,
         NEW k \in Strokes, PressFirst(k), [SNext]_svars
  PROVE  /\ PressFirst(k)'
         /\ <<k, TRUE>> \in client_seen' \ client_seen => <<k, FALSE>> \notin client_seen
<1>1. ASSUME CaptureGrab \/ CaptureHandle \/ ForwarderTake \/ ForwarderSend
      PROVE  client_seen' = client_seen
  BY <1>1 DEF CaptureGrab, CaptureHandle, ForwarderTake, ForwarderSend, client
<1>2. CASE CaptureGrab
  BY <1>1, <1>2, GrabKeepsOrder
<1>3. CASE CaptureHandle
  BY <1>1, <1>3, HandleKeepsOrder
<1>4. CASE ForwarderTake
  BY <1>1, <1>4, TakeKeepsOrder
<1>5. CASE ForwarderSend
  BY <1>1, <1>5, SendKeepsOrder
<1>6. CASE ClientDelta \/ ClientInput
  BY <1>6, ClientKeepsOrder
<1>7. CASE \/ ClientEnter \/ ServerReceive \/ Listener \/ Connect \/ Disconnect \/ DataLost
           \/ UNCHANGED svars
  BY <1>7, OthersKeepOrder
<1> QED BY <1>2, <1>3, <1>4, <1>5, <1>6, <1>7 DEF SNext

\* A press is never injected after its own release, through three queues that
\* lose messages, for any number of strokes and any capacity of the queues.
THEOREM NoStrokeSwapped == SSpec => NoSwappedStroke
<1> DEFINE Ordered == \A k \in Strokes : PressFirst(k)
<1>1. SInit => Ordered
  <2> SUFFICES ASSUME SInit, NEW k \in Strokes PROVE PressFirst(k)
    OBVIOUS
  <2>1. KeyPress(k, FALSE) # Nothing
    BY StrokesDiffer
  <2>2. /\ typed = {} /\ event = NoEvent /\ channel = <<>> /\ data_net = <<>>
        /\ in_hand = Nothing /\ client_seen = {}
    BY DEF SInit, Init
  <2>3. NoEvent # [type |-> "Key", key |-> k, pressed |-> TRUE]
    BY DEF NoEvent
  <2>4. /\ ~Has(<<>>, KeyPress(k, TRUE)) /\ ~Has(<<>>, KeyPress(k, FALSE))
        /\ ~Swapped(<<>>, KeyPress(k, FALSE), KeyPress(k, TRUE))
    BY NothingSwapped
  <2> QED BY <2>1, <2>2, <2>3, <2>4 DEF PressFirst
<1>2. TypeOK /\ STypeOK /\ StrokesAreFresh /\ StrokesStayFresh /\ Ordered /\ [SNext]_svars => Ordered'
  BY SNextPressFirst
<1>3. TypeOK /\ STypeOK /\ StrokesAreFresh /\ StrokesStayFresh /\ Ordered /\ [SNext]_svars =>
        [\A k \in Strokes :
           <<k, TRUE>> \in client_seen' \ client_seen => <<k, FALSE>> \notin client_seen]_svars
  BY SNextPressFirst
<1> HIDE DEF Ordered
<1> QED BY <1>1, <1>2, <1>3, ImplementsCapture, TypeCorrect, SessionTypeCorrect, StrokesFresh,
           OnItsWayStaysFresh, PTL DEF SSpec, NoSwappedStroke
=============================================================================
