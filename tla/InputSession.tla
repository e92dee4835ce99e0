---------------------------- MODULE InputSession ----------------------------
(***************************************************************************)
(* A sharing session: the capture layer of WarpCapture, the tasks of       *)
(* src/main.rs that sit between it and the network, the two channels to    *)
(* the client, and the client's own two tasks.                             *)
(*                                                                         *)
(*   capture --channel--> forwarder --ctrl_net--> client control loop      *)
(*                                  --data_net--> client inject task       *)
(*   capture <-exit_remote- receiver <--up_net--- client inject task       *)
(*   capture <--has_client- listener <--notify--- connection handler       *)
(*                                                                         *)
(* BoundaryEnter travels on the control channel and everything else on the *)
(* data channel, so the two may overtake each other.  One client device is *)
(* modelled; ServerRegistry has several.                                   *)
(***************************************************************************)
EXTENDS WarpCapture

CONSTANTS ClientWidth,   \* the client's screen_w
          EnterX,        \* the enter_x of BoundaryEnter (6.0 in the code)
          NetCap,        \* messages a channel holds before send() waits
          NotifyCap      \* bound on undelivered connect/disconnect events (64)

ASSUME ClientWidthAssumption == ClientWidth \in Nat \ {0}
ASSUME EnterXAssumption      == EnterX \in 1 .. ClientWidth - 1
ASSUME NetCapAssumption      == NetCap \in Nat \ {0}
ASSUME NotifyCapAssumption   == NotifyCap \in Nat \ {0}

VARIABLES
  in_hand,      \* the message the forwarder has received and not sent yet
  registered,   \* the client is in the server's clients map
  notify,       \* events the listener has not handled yet
  data_up,      \* the data connection works
  ctrl_net,     \* server to client, control channel
  data_net,     \* server to client, data channel
  up_net,       \* client to server, data channel and broadcast_rx
  vc,           \* the client's virtual cursor, x
  client_seen   \* presses and releases injected on the client

link   == <<registered, notify, data_up>>
net    == <<ctrl_net, data_net, up_net>>
client == <<vc, client_seen>>
svars  == <<vars, in_hand, link, net, client>>

Nothing       == [type |-> "Nothing"]
BoundaryLeave == [type |-> "BoundaryLeave"]

SInit ==
  /\ Init
  /\ in_hand = Nothing
  /\ registered = FALSE /\ notify = <<>> /\ data_up = FALSE
  /\ ctrl_net = <<>> /\ data_net = <<>> /\ up_net = <<>>
  /\ vc = ClientWidth \div 2 /\ client_seen = {}

\* The callback, while everything else stands still.
CaptureGrab   == Grab /\ UNCHANGED <<in_hand, link, net, client>>
CaptureHandle == Handle /\ UNCHANGED <<in_hand, link, net, client>>

-----------------------------------------------------------------------------
(* The forwarder task.                                                     *)

\* Mutant: the forwarder spawns the send of a stroke and takes the next event,
\* so a stroke may overtake the message in hand.
ForwarderTakeSpawning ==
  /\ Receive
  /\ \/ in_hand = Nothing /\ in_hand' = Head(channel) /\ UNCHANGED data_net
     \/ /\ Head(channel).type = "KeyPress" /\ registered /\ data_up
        /\ Len(data_net) < NetCap
        /\ data_net' = Append(data_net, Head(channel)) /\ UNCHANGED in_hand
  /\ UNCHANGED <<link, ctrl_net, up_net, client>>

\* input_rx.recv() and the is_remote test on buttons, keys and the wheel:
\* the flag is read when the event is taken out, not when it was captured.
ForwarderTake ==
  /\ in_hand = Nothing
  /\ Receive
  /\ in_hand' = IF Head(channel).type \in {"KeyPress", "Scroll"} /\ ~is_remote
                THEN Nothing ELSE Head(channel)
  /\ UNCHANGED <<link, net, client>>

\* clients.read() and the send to the client's channel; with no client the
\* message goes nowhere, on a dead data channel send() fails.
ForwarderSend ==
  /\ in_hand # Nothing
  /\ in_hand' = Nothing
  /\ CASE ~registered -> UNCHANGED net
       [] registered /\ in_hand.type = "BoundaryEnter" ->
            /\ Len(ctrl_net) < NetCap
            /\ ctrl_net' = Append(ctrl_net, in_hand)
            /\ UNCHANGED <<data_net, up_net>>
       [] registered /\ in_hand.type # "BoundaryEnter" /\ data_up ->
            /\ Len(data_net) < NetCap
            /\ data_net' = Append(data_net, in_hand)
            /\ UNCHANGED <<ctrl_net, up_net>>
       [] OTHER -> UNCHANGED net
  /\ UNCHANGED <<vars, link, client>>

-----------------------------------------------------------------------------
(* The client: two tasks that share the virtual cursor.                    *)

\* MouseDelta: move the virtual cursor; at the left edge stop it there and
\* ask to return, once per delta that finds it there.
ClientDelta ==
  /\ data_net # <<>> /\ Head(data_net).type = "MouseDelta"
  /\ LET x == vc + Head(data_net).dx
     IN  \/ /\ x <= 0
            /\ vc' = 0
            /\ Len(up_net) < NetCap
            /\ up_net' = Append(up_net, BoundaryLeave)
         \/ /\ x > 0
            /\ vc' = IF x > ClientWidth - 1 THEN ClientWidth - 1 ELSE x
            /\ UNCHANGED up_net
  /\ data_net' = Tail(data_net)
  /\ UNCHANGED <<vars, in_hand, link, ctrl_net, client_seen>>

\* The other messages of the data channel are injected as they are.
ClientInput ==
  /\ data_net # <<>> /\ Head(data_net).type \in {"KeyPress", "Scroll"}
  /\ LET msg == Head(data_net)
     IN  client_seen' = IF msg.type = "KeyPress"
                        THEN client_seen \cup {<<msg.key, msg.pressed>>} ELSE client_seen
  /\ data_net' = Tail(data_net)
  /\ UNCHANGED <<vars, in_hand, link, ctrl_net, up_net, vc>>

\* The control loop moves the virtual cursor to the entry point.
ClientEnter ==
  /\ ctrl_net # <<>>
  /\ vc' = EnterX
  /\ ctrl_net' = Tail(ctrl_net)
  /\ UNCHANGED <<vars, in_hand, link, data_net, up_net, client_seen>>

-----------------------------------------------------------------------------
(* The server's other tasks.                                               *)

\* BoundaryLeave received: exit_remote_signal.store(true).
ServerReceive ==
  /\ up_net # <<>>
  /\ up_net' = Tail(up_net)
  /\ RequestExit
  /\ UNCHANGED <<in_hand, link, ctrl_net, data_net, client>>

\* Mutant: a disconnect does not clear has_client.
ListenerForgets ==
  /\ notify # <<>>
  /\ notify' = Tail(notify)
  /\ SetHasClient(has_client \/ Head(notify) = "connected")
  /\ UNCHANGED <<in_hand, registered, data_up, net, client>>

\* The listener follows connects and disconnects, later than they happen.
Listener ==
  /\ notify # <<>>
  /\ notify' = Tail(notify)
  /\ SetHasClient(Head(notify) = "connected")
  /\ UNCHANGED <<in_hand, registered, data_up, net, client>>

-----------------------------------------------------------------------------
(* Connections come and go.                                                *)

\* handle_control_connection registers the client and notifies.  The client
\* starts its tasks with fresh channels and its cursor in the middle; what an
\* old connection still carried towards it is lost.
Connect ==
  /\ ~registered /\ Len(notify) < NotifyCap
  /\ registered' = TRUE /\ data_up' = TRUE
  /\ notify' = Append(notify, "connected")
  /\ ctrl_net' = <<>> /\ data_net' = <<>>
  /\ vc' = ClientWidth \div 2
  /\ UNCHANGED <<vars, in_hand, up_net, client_seen>>

\* The control connection ends: the handler unregisters the client and
\* notifies.  The data connection has a life of its own and still delivers.
Disconnect ==
  /\ registered /\ Len(notify) < NotifyCap
  /\ registered' = FALSE
  /\ notify' = Append(notify, "disconnected")
  /\ ctrl_net' = <<>>
  /\ UNCHANGED <<vars, in_hand, data_up, data_net, up_net, client>>

\* The data connection breaks: what it carried is lost, and nobody is told.
DataLost ==
  /\ data_up
  /\ data_up' = FALSE
  /\ data_net' = <<>> /\ up_net' = <<>>
  /\ UNCHANGED <<vars, in_hand, registered, notify, ctrl_net, client>>

SNext ==
  \/ CaptureGrab \/ CaptureHandle
  \/ ForwarderTake \/ ForwarderSend
  \/ ClientDelta \/ ClientInput \/ ClientEnter
  \/ ServerReceive \/ Listener
  \/ Connect \/ Disconnect \/ DataLost

SSpec == SInit /\ [][SNext]_svars

\* Every task runs, and the user keeps using the mouse and the keyboard.
SFairness ==
  /\ WF_svars(CaptureGrab) /\ WF_svars(CaptureHandle)
  /\ WF_svars(ForwarderTake) /\ WF_svars(ForwarderSend)
  /\ WF_svars(ClientDelta \/ ClientInput) /\ WF_svars(ClientEnter)
  /\ WF_svars(ServerReceive) /\ WF_svars(Listener)

SFairSpec == SSpec /\ SFairness

-----------------------------------------------------------------------------
(* Properties.                                                             *)

STypeOK ==
  /\ in_hand \in WarpInputEvent \cup {Nothing}
  /\ registered \in BOOLEAN /\ data_up \in BOOLEAN
  /\ notify \in Seq({"connected", "disconnected"}) /\ Len(notify) <= NotifyCap
  /\ ctrl_net \in Seq({BoundaryEnter}) /\ Len(ctrl_net) <= NetCap
  /\ data_net \in Seq(WarpInputEvent \ {BoundaryEnter}) /\ Len(data_net) <= NetCap
  /\ up_net \in Seq({BoundaryLeave}) /\ Len(up_net) <= NetCap
  /\ vc \in 0 .. ClientWidth - 1
  /\ client_seen \subseteq Strokes \X BOOLEAN

\* One press or release acts on one machine only, whatever connects,
\* disconnects or crosses between its capture and its injection.
OneMachine == client_seen \cap x_seen = {}

\* A stroke between the channel and the client, or there, was made by the user,
\* was not given to the X server, and is not the one the callback is handling.
\* (With WarpCapture's IInv and STypeOK this is inductive.)
Underway(k, down) ==
  \/ in_hand = KeyPress(k, down)
  \/ \E i \in DOMAIN data_net : data_net[i] = KeyPress(k, down)
  \/ <<k, down>> \in client_seen

StrokesStayFresh ==
  /\ \A k \in Strokes, down \in BOOLEAN :
       Underway(k, down) => <<k, down>> \in typed /\ <<k, down>> \notin x_seen
  /\ event.type = "Key" /\ event.key \in Strokes => ~Underway(event.key, event.pressed)

\* A release is never injected before its own press: the two may be lost, or
\* end up on different machines, but they are not swapped.
NoSwappedStroke ==
  [][\A k \in Strokes :
       <<k, TRUE>> \in client_seen' \ client_seen => <<k, FALSE>> \notin client_seen]_svars

\* When the client stays away, the cursor comes home and stays (bug 11).
ComesHomeWithoutClient == (<>[]~registered) => (<>[]~is_remote)

\* A return request that is on its way gives the control back, unless the
\* connection that carries it fails first.
ReturnGivesControlBack ==
  (up_net # <<>>) ~> (~is_remote \/ ~data_up \/ ~registered)
=============================================================================
