------------------------------ MODULE Forwarding ------------------------------
(***************************************************************************)
(* How the server of src/main.rs and crates/ss-network/src/server.rs gets  *)
(* input and clipboard contents to its clients: one task that forwards     *)
(* input, one that forwards the clipboard, and per client the task that    *)
(* enters it in the clients map and takes it out again.                    *)
(*                                                                         *)
(*   input ----+                                                           *)
(*             +--(clients, read lock)--> data channel --> TCP --> reader  *)
(*   changes --+                                                           *)
(*                                                                         *)
(* The forwarders hold the clients map's read lock while they wait for     *)
(* room in a client's bounded channel, and registering and removing a      *)
(* client takes the write lock.  The lock is tokio's, which is fair: who   *)
(* asks later waits behind who asked before, readers behind a waiting      *)
(* writer.  One slow client is therefore everybody's business.             *)
(*                                                                         *)
(* A message is a frame that the receiver accepts or one above             *)
(* MAX_PAYLOAD_SIZE, which it refuses; a change is the messages it is sent *)
(* in.  A client has one connection at a time: overlapping attempts are    *)
(* ServerRegistry's subject.                                               *)
(***************************************************************************)
EXTENDS Naturals, FiniteSets, SequencesExt

CONSTANTS Clients,
          Changes,     \* what the monitor detects, as sequences of frames
          DataCap      \* the data channel (64) and what TCP buffers

Frames == {"accepted", "oversized"}

ASSUME ChangesAssumption == Changes \subseteq Seq(Frames) \ {<<>>}
ASSUME DataCapAssumption == DataCap \in Nat \ {0}

Forwarders == {"input", "clipboard"}
Nobody     == "nobody"

ASSUME ClientsAssumption == Clients \cap (Forwarders \cup {Nobody}) = {}

VARIABLES
  stage,       \* per client: the server's control task for it
  queue,       \* tasks waiting for the lock of the clients map, in order
  readers,     \* forwarders holding it
  clients,     \* the clients map
  left,        \* per forwarder: the clients it has yet to serve
  change,      \* what the clipboard forwarder has taken
  sendingTo,   \* the client it is serving, if any
  messages,    \* what it still has to send to that client
  channel,     \* per client: data channel, frame being written, TCP buffers
  writer,      \* per client: the server's task that writes them
  peer         \* per client: "reading", "failed", "asleep" or "lost"

lock    == <<queue, readers, clients>>
forward == <<left, change, sendingTo, messages>>
wire    == <<channel, writer, peer>>
vars    == <<stage, lock, forward, wire>>

Init ==
  /\ stage = [c \in Clients |-> "away"]
  /\ queue = <<>> /\ readers = {} /\ clients = {}
  /\ left = [f \in Forwarders |-> {}]
  /\ change = <<>> /\ sendingTo = Nobody /\ messages = <<>>
  /\ channel = [c \in Clients |-> <<>>]
  /\ writer = [c \in Clients |-> "running"]
  /\ peer = [c \in Clients |-> "reading"]

-----------------------------------------------------------------------------
(* The lock of the clients map.                                            *)

Waits(t) == \E i \in DOMAIN queue : queue[i] = t

\* Mutant: readers go ahead of a writer that waits.
BargingReader(f) ==
  /\ Waits(f)
  /\ queue' = Remove(queue, f)
  /\ readers' = readers \cup {f}
  /\ left' = [left EXCEPT ![f] = clients]
  /\ UNCHANGED <<stage, clients, change, sendingTo, messages, wire>>

\* A forwarder has its turn: it will serve whoever is in the map now.
LockRead(f) ==
  /\ queue # <<>> /\ Head(queue) = f
  /\ queue' = Tail(queue)
  /\ readers' = readers \cup {f}
  /\ left' = [left EXCEPT ![f] = clients]
  /\ UNCHANGED <<stage, clients, change, sendingTo, messages, wire>>

\* The forwarder has served everybody: the guard is dropped.
Unlock(f) ==
  /\ f \in readers /\ left[f] = {}
  /\ f = "clipboard" => sendingTo = Nobody
  /\ readers' = readers \ {f}
  /\ change' = IF f = "clipboard" THEN <<>> ELSE change
  /\ UNCHANGED <<stage, queue, clients, left, sendingTo, messages, wire>>

FreshWires(c) ==
  /\ channel' = [channel EXCEPT ![c] = <<>>]
  /\ writer' = [writer EXCEPT ![c] = "running"]
  /\ peer' = [peer EXCEPT ![c] = "reading"]

\* The control task has its turn, with nobody reading the map.
LockWrite(c) ==
  /\ queue # <<>> /\ Head(queue) = c /\ readers = {}
  /\ queue' = Tail(queue)

Register(c) ==
  /\ stage[c] = "joining" /\ LockWrite(c)
  /\ clients' = clients \cup {c}
  /\ stage' = [stage EXCEPT ![c] = "serving"]
  /\ UNCHANGED <<readers, forward, wire>>

\* Mutant: the entry is removed while it may be in use.
UnregisterAnyway(c) ==
  /\ stage[c] = "leaving" /\ Waits(c)
  /\ queue' = Remove(queue, c)
  /\ clients' = clients \ {c}
  /\ stage' = [stage EXCEPT ![c] = "away"]
  /\ FreshWires(c)
  /\ UNCHANGED <<readers, forward>>

\* With the entry the data channel's sender is dropped, and the writer ends:
\* what becomes of these connections is nobody's concern any more.
Unregister(c) ==
  /\ stage[c] = "leaving" /\ LockWrite(c)
  /\ clients' = clients \ {c}
  /\ stage' = [stage EXCEPT ![c] = "away"]
  /\ FreshWires(c)
  /\ UNCHANGED <<readers, forward>>

-----------------------------------------------------------------------------
(* Connections.                                                            *)

\* Both connections stand, and the control task asks for the lock to register
\* the pair.
Connect(c) ==
  /\ stage[c] = "away"
  /\ stage' = [stage EXCEPT ![c] = "joining"]
  /\ queue' = Append(queue, c)
  /\ UNCHANGED <<readers, clients, forward, wire>>

Break(c) ==
  /\ stage[c] # "away" /\ peer[c] # "lost"
  /\ peer' = [peer EXCEPT ![c] = "lost"]
  /\ UNCHANGED <<stage, lock, forward, channel, writer>>

\* The machine is suspended: its connections stand, and nobody reads.
FallAsleep(c) ==
  /\ stage[c] # "away" /\ peer[c] \in {"reading", "failed"}
  /\ peer' = [peer EXCEPT ![c] = "asleep"]
  /\ UNCHANGED <<stage, lock, forward, channel, writer>>

\* Mutant: the task asks for the lock and goes on in its loop.
NoticeAgain(c) ==
  /\ stage[c] = "serving" /\ peer[c] \in {"lost", "asleep"} /\ Len(queue) < 4
  /\ queue' = Append(queue, c)
  /\ UNCHANGED <<stage, readers, clients, forward, wire>>

\* The control connection ends, or is silent for fifteen seconds: the control
\* task leaves its loop and asks for the lock to remove the client.
Notice(c) ==
  /\ stage[c] = "serving" /\ peer[c] \in {"lost", "asleep"}
  /\ stage' = [stage EXCEPT ![c] = "leaving"]
  /\ queue' = Append(queue, c)
  /\ UNCHANGED <<readers, clients, forward, wire>>

-----------------------------------------------------------------------------
(* The server's forwarders.                                                *)

Idle(f) == f \notin readers /\ ~Waits(f)

\* A mouse event is taken from the capture layer's channel.
TakeEvent ==
  /\ Idle("input")
  /\ queue' = Append(queue, "input")
  /\ UNCHANGED <<stage, readers, clients, forward, wire>>

\* A change is taken from the monitor's channel.
TakeChange(x) ==
  /\ Idle("clipboard")
  /\ change' = x
  /\ queue' = Append(queue, "clipboard")
  /\ UNCHANGED <<stage, readers, clients, left, sendingTo, messages, wire>>

Room(c) == Len(channel[c]) < DataCap

\* The event goes to one more client, in the map's order.  A send waits for
\* room, and fails once the writer task, and with it the receiver, is gone.
ForwardInput(c) ==
  /\ c \in left["input"] /\ (Room(c) \/ writer[c] = "ended")
  /\ channel' = [channel EXCEPT ![c] = IF writer[c] = "ended" THEN @ ELSE Append(@, "accepted")]
  /\ left' = [left EXCEPT !["input"] = @ \ {c}]
  /\ UNCHANGED <<stage, lock, change, sendingTo, messages, writer, peer>>

\* The clipboard forwarder turns to one more client, with the whole transfer.
Serve(c) ==
  /\ c \in left["clipboard"] /\ sendingTo = Nobody
  /\ sendingTo' = c /\ messages' = change
  /\ left' = [left EXCEPT !["clipboard"] = @ \ {c}]
  /\ UNCHANGED <<stage, lock, change, wire>>

ForwardMessage(c) ==
  /\ sendingTo = c /\ writer[c] = "running" /\ Room(c)
  /\ channel' = [channel EXCEPT ![c] = Append(@, Head(messages))]
  /\ messages' = Tail(messages)
  /\ sendingTo' = IF Len(messages) = 1 THEN Nobody ELSE c
  /\ UNCHANGED <<stage, lock, left, change, writer, peer>>

\* The send fails: the rest of the transfer is skipped, for this client.
ForwardError(c) ==
  /\ sendingTo = c /\ writer[c] = "ended"
  /\ sendingTo' = Nobody /\ messages' = <<>>
  /\ UNCHANGED <<stage, lock, left, change, wire>>

-----------------------------------------------------------------------------
(* The wire.                                                               *)

\* Mutant: a write that fails is tried again.
WriteFailsQuietly(c) ==
  /\ peer[c] = "lost" /\ writer[c] = "running" /\ channel[c] # <<>>
  /\ UNCHANGED vars

\* A write fails: the writer task ends and drops the channel's receiver.
WriteFails(c) ==
  /\ peer[c] = "lost" /\ writer[c] = "running" /\ channel[c] # <<>>
  /\ writer' = [writer EXCEPT ![c] = "ended"]
  /\ channel' = [channel EXCEPT ![c] = <<>>]
  /\ UNCHANGED <<stage, lock, forward, peer>>

\* The client's data reader hands on what it reads.  A frame above the limit
\* ends the reader; the other half of the connection keeps the socket open,
\* and nobody reads from it any more.
Read(c) ==
  /\ peer[c] = "reading" /\ channel[c] # <<>>
  /\ IF Head(channel[c]) = "oversized"
     THEN peer' = [peer EXCEPT ![c] = "failed"] /\ UNCHANGED channel
     ELSE channel' = [channel EXCEPT ![c] = Tail(@)] /\ UNCHANGED peer
  /\ UNCHANGED <<stage, lock, forward, writer>>

-----------------------------------------------------------------------------
Next ==
  \/ TakeEvent \/ \E x \in Changes : TakeChange(x)
  \/ \E f \in Forwarders : LockRead(f) \/ Unlock(f)
  \/ \E c \in Clients : Register(c) \/ Unregister(c)
  \/ \E c \in Clients : Connect(c) \/ Break(c) \/ FallAsleep(c) \/ Notice(c)
  \/ \E c \in Clients : ForwardInput(c) \/ Serve(c) \/ ForwardMessage(c) \/ ForwardError(c)
  \/ \E c \in Clients : WriteFails(c) \/ Read(c)

Spec == Init /\ [][Next]_vars

\* Every task runs.  A bounded channel serves the senders that wait for room
\* in the order they came, so who waits for room that keeps coming gets it.
Fairness ==
  /\ \A f \in Forwarders : WF_vars(LockRead(f)) /\ WF_vars(Unlock(f))
  /\ \A c \in Clients :
       /\ WF_vars(Register(c)) /\ WF_vars(Unregister(c)) /\ WF_vars(Notice(c))
       /\ WF_vars(Serve(c)) /\ WF_vars(ForwardError(c))
       /\ SF_vars(ForwardInput(c)) /\ SF_vars(ForwardMessage(c))
       /\ WF_vars(WriteFails(c)) /\ WF_vars(Read(c))

FairSpec == Spec /\ Fairness

-----------------------------------------------------------------------------
(* Properties.                                                             *)

TypeOK ==
  /\ stage \in [Clients -> {"away", "joining", "serving", "leaving"}]
  /\ queue \in Seq(Clients \cup Forwarders)
  /\ readers \subseteq Forwarders /\ clients \subseteq Clients
  /\ left \in [Forwarders -> SUBSET Clients]
  /\ change \in Seq(Frames) /\ messages \in Seq(Frames)
  /\ sendingTo \in Clients \cup {Nobody}
  /\ channel \in [Clients -> Seq(Frames)]
  /\ \A c \in Clients : Len(channel[c]) <= DataCap
  /\ writer \in [Clients -> {"running", "ended"}]
  /\ peer \in [Clients -> {"reading", "failed", "asleep", "lost"}]

\* Who a forwarder is going to serve is in the map until it is served: nobody
\* is taken out, and its channel closed, in the middle of a transfer.
ServedAreRegistered ==
  /\ \A f \in Forwarders : left[f] # {} => f \in readers /\ left[f] \subseteq clients
  /\ sendingTo # Nobody => "clipboard" \in readers /\ sendingTo \in clients

\* A client is in the map from its registration to its removal, and its task
\* waits for the lock exactly when it has something to do there, and once.
QueueMatchesStages ==
  /\ clients = {c \in Clients : stage[c] \in {"serving", "leaving"}}
  /\ \A c \in Clients : Waits(c) <=> stage[c] \in {"joining", "leaving"}
  /\ IsInjective(queue)
  /\ \A f \in readers : ~Waits(f)

\* Clients that are connected keep reading, or are cut off: nobody just stops.
NobodyStops == <>[](\A c \in Clients : peer[c] \in {"reading", "lost"})

\* If no client just stops reading, whoever wants into the map or out of it
\* gets there, whatever is forwarded in the meantime.
LockIsServed ==
  NobodyStops => \A c \in Clients : Waits(c) ~> ~Waits(c)

\* ... and every event and every clipboard change taken is disposed of, also
\* when a client is cut off with its channel full.
ForwardersComeBack ==
  NobodyStops => \A f \in Forwarders : []<>Idle(f)
=============================================================================
