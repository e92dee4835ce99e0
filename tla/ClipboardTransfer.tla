-------------------------- MODULE ClipboardTransfer --------------------------
(***************************************************************************)
(* How a clipboard content travels: what crates/ss-clipboard/src/sync.rs   *)
(* makes of it (one message for a text; for an image a ClipboardBegin, the *)
(* compressed bytes in chunks, a ClipboardEnd with the hash of the pixels) *)
(* and how it is put together again, over the data connections between the *)
(* server and its clients, in both directions.                             *)
(*                                                                         *)
(*   server's change --> stream --> ring[client] --> asm[client]           *)
(*   client's change --> stream --> ring[server] --> asm[server]           *)
(*                                                                         *)
(* A stream is the sending task, its channel, the writer and TCP: nothing  *)
(* is lost in it while the connection stands (Forwarding shows the room it *)
(* needs).  A ring is the broadcast channel the reading task hands what it *)
(* reads to, which drops the oldest when it is full.  The mouse travels on *)
(* the same connection as the clipboard.  The server has one ring, and one *)
(* transfer being put together, for all its clients.                       *)
(*                                                                         *)
(* An image stands for its pixels, for their hash, and for its dimensions, *)
(* each of which travels in another message.  The hash is of the pixels    *)
(* only: the dimensions are taken from ClipboardBegin as they come.        *)
(***************************************************************************)
EXTENDS Naturals, Functions, SequencesExt

CONSTANTS Server, Clients,
          Texts,       \* contents that travel in one ClipboardData
          Oversized,   \* texts above MAX_PAYLOAD_SIZE once encoded
          Images,      \* contents that travel in chunks
          NumChunks,   \* how many chunks an image makes
          RingCap,     \* the broadcast channels (256)
          MaxCopies    \* bound on what the users copy

ASSUME ServerAssumption    == Server \notin Clients
ASSUME OversizedAssumption == Oversized \subseteq Texts
ASSUME ImagesAssumption    == Images \cap Texts = {}
ASSUME NumChunksAssumption == NumChunks \in [Images -> Nat \ {0}]
ASSUME RingCapAssumption   == RingCap \in Nat \ {0}

Machines == Clients \cup {Server}
Contents == Texts \cup Images

\* No transfer's dimensions, no result, nothing got yet.
None == "none"

ASSUME NoneAssumption == None \notin Contents

-----------------------------------------------------------------------------
(* The messages of the data channel.                                       *)

ClipboardData(x)     == [type |-> "ClipboardData", data |-> x]
ClipboardBegin(x)    == [type |-> "ClipboardBegin", dims |-> x]
ClipboardChunk(k, x) == [type |-> "ClipboardChunk", seq |-> k, data |-> x]
ClipboardEnd(x)      == [type |-> "ClipboardEnd", hash |-> x]
MouseDelta           == [type |-> "MouseDelta"]

Chunks(x) == [k \in 1 .. NumChunks[x] |-> ClipboardChunk(k, x)]

\* prepare_transfer: the size of a text is not looked at.
Transfer(x) ==
  IF x \in Texts
  THEN <<ClipboardData(x)>>
  ELSE <<ClipboardBegin(x)>> \o Chunks(x) \o <<ClipboardEnd(x)>>

Messages == {MouseDelta} \cup UNION {Range(Transfer(x)) : x \in Contents}

\* read_frame refuses a payload above the limit; write_frame does not.
Readable(msg) == msg.type = "ClipboardData" => msg.data \notin Oversized

-----------------------------------------------------------------------------
(* The receiver: at most one transfer is being put together.               *)

NoTransfer == [dims |-> None, chunks |-> <<>>]

\* The chunks, sorted by number, make the image the hash was computed from.
Matches(asm, hash) ==
  /\ Len(asm.chunks) = NumChunks[hash]
  /\ Range(asm.chunks) = Range(Chunks(hash))

\* What is left of the transfer, and what comes out of it.
Pending(asm)    == [reassembler |-> asm, dims |-> None, data |-> None, failed |-> FALSE]
Failed          == [Pending(NoTransfer) EXCEPT !.failed = TRUE]
Out(asm, d, x)  == [Pending(asm) EXCEPT !.dims = d, !.data = x]

\* ClipboardReassembler::finish, called on a reassembler that is given up.
Finish(asm, hash) ==
  IF Matches(asm, hash) THEN Out(NoTransfer, asm.dims, hash) ELSE Failed

\* Mutant: a transfer that is under way is not interrupted.
BeginOnce(msg, asm) == IF asm = NoTransfer THEN [dims |-> msg.dims, chunks |-> <<>>] ELSE asm

\* ClipboardReassembler::new, in place of a transfer that was under way.
Begin(msg, asm) == [dims |-> msg.dims, chunks |-> <<>>]

\* add_chunk: the sizes it counts are not used.
AddChunk(msg, asm) == IF asm = NoTransfer THEN asm ELSE [asm EXCEPT !.chunks = Append(@, msg)]

\* handle_clipboard_message.
Handle(msg, asm) ==
  CASE msg.type = "ClipboardData"  -> Out(asm, msg.data, msg.data)
    [] msg.type = "ClipboardBegin" -> Pending(Begin(msg, asm))
    [] msg.type = "ClipboardChunk" -> Pending(AddChunk(msg, asm))
    [] msg.type = "ClipboardEnd"   -> IF asm = NoTransfer THEN Failed ELSE Finish(asm, msg.hash)
    [] OTHER                       -> Pending(asm)

-----------------------------------------------------------------------------
(* The connections.                                                        *)

VARIABLES
  connected,   \* per client
  stream,      \* per direction: sent, or being sent, and not yet read
  hears,       \* per direction: the reading task runs
  ring,        \* per machine: read, and not yet seen by the clipboard task
  asm,         \* per machine: the transfer being put together
  lagged,      \* history, per machine: its ring has dropped messages
  mixed,       \* history: two uploads have met in the server's reassembler
  spoiled,     \* history, per machine: a transfer failed, or came out wrong
  owed,        \* history, per client: what was sent to it and is still to come
  got,         \* history, per client: dimensions and data that came out last
  copies       \* history: how often a user has copied

wires   == <<connected, stream, hears>>
history == <<lagged, mixed, spoiled, owed, got, copies>>
vars    == <<wires, ring, asm, history>>

Down(c) == <<Server, c>>
Up(c)   == <<c, Server>>
Ways    == {Down(c) : c \in Clients} \cup {Up(c) : c \in Clients}
Sender(w)   == w[1]
Receiver(w) == w[2]

Init ==
  /\ connected = [c \in Clients |-> FALSE]
  /\ stream = [w \in Ways |-> <<>>]
  /\ hears = [w \in Ways |-> TRUE]
  /\ ring = [m \in Machines |-> <<>>]
  /\ asm = [m \in Machines |-> NoTransfer]
  /\ lagged = [m \in Machines |-> FALSE] /\ mixed = FALSE
  /\ spoiled = [m \in Machines |-> FALSE]
  /\ owed = [c \in Clients |-> <<>>] /\ got = [c \in Clients |-> <<None, None>>] /\ copies = 0

\* A client's connections, its ring and its tasks are new; the server's ring
\* and reassembler are not.
Connect(c) ==
  /\ ~connected[c]
  /\ connected' = [connected EXCEPT ![c] = TRUE]
  /\ UNCHANGED <<stream, hears, ring, asm, history>>

\* Mutant: the broadcast channel is that of the connection before.
RenewTasks(c) ==
  /\ connected' = [connected EXCEPT ![c] = FALSE]
  /\ hears' = [hears EXCEPT ![Down(c)] = TRUE, ![Up(c)] = TRUE]
  /\ asm' = [asm EXCEPT ![c] = NoTransfer]
  /\ lagged' = [lagged EXCEPT ![c] = FALSE]
  /\ spoiled' = [spoiled EXCEPT ![c] = FALSE]
  /\ owed' = [owed EXCEPT ![c] = <<>>]
  /\ got' = [got EXCEPT ![c] = <<None, None>>]
  /\ UNCHANGED <<ring, mixed, copies>>

Renew(c) ==
  /\ connected' = [connected EXCEPT ![c] = FALSE]
  /\ hears' = [hears EXCEPT ![Down(c)] = TRUE, ![Up(c)] = TRUE]
  /\ ring' = [ring EXCEPT ![c] = <<>>]
  /\ asm' = [asm EXCEPT ![c] = NoTransfer]
  /\ lagged' = [lagged EXCEPT ![c] = FALSE]
  /\ spoiled' = [spoiled EXCEPT ![c] = FALSE]
  /\ owed' = [owed EXCEPT ![c] = <<>>]
  /\ got' = [got EXCEPT ![c] = <<None, None>>]
  /\ UNCHANGED <<mixed, copies>>

\* Mutant: a send that fails ends the forwarding to every client.
DisconnectEverybody(c) ==
  /\ connected[c]
  /\ stream' = [w \in Ways |-> IF Sender(w) = Server \/ w = Up(c) THEN <<>> ELSE stream[w]]
  /\ Renew(c)

\* What was under way is lost; both senders skip the rest of their transfer.
Disconnect(c) ==
  /\ connected[c]
  /\ stream' = [stream EXCEPT ![Down(c)] = <<>>, ![Up(c)] = <<>>]
  /\ Renew(c)

-----------------------------------------------------------------------------
(* Senders.                                                                *)

\* The server's forwarder sends a change to whoever is connected.
ServerCopies(x) ==
  /\ copies < MaxCopies
  /\ copies' = copies + 1
  /\ stream' = [w \in Ways |->
       IF Sender(w) = Server /\ connected[Receiver(w)] THEN stream[w] \o Transfer(x) ELSE stream[w]]
  /\ owed' = [c \in Clients |-> IF connected[c] THEN Append(owed[c], x) ELSE owed[c]]
  /\ UNCHANGED <<connected, hears, ring, asm, lagged, mixed, spoiled, got>>

\* A client's sends it to the server, which passes it on to nobody.
ClientCopies(c, x) ==
  /\ copies < MaxCopies /\ connected[c]
  /\ copies' = copies + 1
  /\ stream' = [stream EXCEPT ![Up(c)] = @ \o Transfer(x)]
  /\ UNCHANGED <<connected, hears, ring, asm, lagged, mixed, spoiled, owed, got>>

-----------------------------------------------------------------------------
(* Receivers.                                                              *)

\* A client whose transfer the server has begun to read, and not ended.
UnderWay(c) ==
  stream[Up(c)] # <<>> /\ Head(stream[Up(c)]).type \in {"ClipboardChunk", "ClipboardEnd"}

\* A full broadcast channel drops its oldest message.
Broadcast(m, msg) ==
  LET full == Len(ring[m]) = RingCap
  IN  /\ ring' = [ring EXCEPT ![m] = Append(IF full THEN Tail(@) ELSE @, msg)]
      /\ lagged' = [lagged EXCEPT ![m] = @ \/ full]

Read(w) ==
  /\ hears[w] /\ stream[w] # <<>> /\ Readable(Head(stream[w]))
  /\ Broadcast(Receiver(w), Head(stream[w]))
  /\ stream' = [stream EXCEPT ![w] = Tail(@)]
  /\ mixed' = (mixed \/ (Receiver(w) = Server /\ \E c \in Clients \ {Sender(w)} : UnderWay(c)))
  /\ UNCHANGED <<connected, hears, asm, spoiled, owed, got, copies>>

\* Input, sent between two messages of a transfer, takes its place in the ring.
ReadInput(c) ==
  /\ connected[c] /\ hears[Down(c)]
  /\ Broadcast(c, MouseDelta)
  /\ UNCHANGED <<wires, asm, mixed, spoiled, owed, got, copies>>

\* A frame above the limit ends the reading task, with the connection left
\* open: what follows it is never read.
ReadFails(w) ==
  /\ hears[w] /\ stream[w] # <<>> /\ ~Readable(Head(stream[w]))
  /\ hears' = [hears EXCEPT ![w] = FALSE]
  /\ UNCHANGED <<connected, stream, ring, asm, history>>

\* Of what was sent, what is still to come once x has come out.
First(sent, x) == CHOOSE i \in DOMAIN sent : sent[i] = x /\ \A j \in 1 .. i - 1 : sent[j] # x
Since(sent, x) ==
  IF x \in Range(sent) THEN SubSeq(sent, First(sent, x) + 1, Len(sent)) ELSE sent

\* The clipboard task: a transfer comes out, perhaps with the dimensions of
\* one image and the pixels of another, or it fails.
Receive(m) ==
  /\ ring[m] # <<>>
  /\ LET r == Handle(Head(ring[m]), asm[m]) IN
     /\ asm' = [asm EXCEPT ![m] = r.reassembler]
     /\ spoiled' = [spoiled EXCEPT ![m] = @ \/ r.failed \/ r.dims # r.data]
     /\ IF m \in Clients /\ r.data # None
        THEN /\ owed' = [owed EXCEPT ![m] = Since(@, r.data)]
             /\ got' = [got EXCEPT ![m] = <<r.dims, r.data>>]
        ELSE UNCHANGED <<owed, got>>
  /\ ring' = [ring EXCEPT ![m] = Tail(@)]
  /\ UNCHANGED <<wires, lagged, mixed, copies>>

-----------------------------------------------------------------------------
Next ==
  \/ \E c \in Clients : Connect(c) \/ Disconnect(c) \/ ReadInput(c)
  \/ \E x \in Contents : ServerCopies(x) \/ \E c \in Clients : ClientCopies(c, x)
  \/ \E w \in Ways : Read(w) \/ ReadFails(w)
  \/ \E m \in Machines : Receive(m)

Spec == Init /\ [][Next]_vars

-----------------------------------------------------------------------------
(* Properties.                                                             *)

Results      == (Contents \cup {None}) \X (Contents \cup {None})
Reassemblers == [dims : Images \cup {None}, chunks : Seq(Messages)]

TypeOK ==
  /\ connected \in [Clients -> BOOLEAN] /\ hears \in [Ways -> BOOLEAN]
  /\ stream \in [Ways -> Seq(Messages)]
  /\ ring \in [Machines -> Seq(Messages)] /\ \A m \in Machines : Len(ring[m]) <= RingCap
  /\ asm \in [Machines -> Reassemblers]
  /\ lagged \in [Machines -> BOOLEAN] /\ spoiled \in [Machines -> BOOLEAN] /\ mixed \in BOOLEAN
  /\ owed \in [Clients -> Seq(Contents)] /\ got \in [Clients -> Results] /\ copies \in Nat

\* A transfer comes out as it was copied, whole and with its own dimensions,
\* at every machine whose ring has not dropped messages, whatever input it is
\* interspersed with and whatever was cut off before it: unless the uploads
\* of two clients met in the one reassembler the server has for all of them.
TransfersComeWhole ==
  \A m \in Machines : spoiled[m] => lagged[m] \/ (m = Server /\ mixed)

\* Everything the server has sent comes out at a client that stays connected:
\* once all is read and seen, nothing is owed, unless the client's ring has
\* dropped messages.
NothingIsLost ==
  \A c \in Clients : stream[Down(c)] = <<>> /\ ring[c] = <<>> => owed[c] = <<>> \/ lagged[c]

\* The promise, of this module's state.
Delivery ==
  INSTANCE ContentDelivery
  WITH online <- connected, pending <- owed, overrun <- [c \in Clients |-> lagged[c]]

\* Each client gets what the server sends it in the order it was sent, each
\* content once, with its own dimensions, and nothing from before it connected;
\* once its ring has dropped messages, at least what comes out of it was sent,
\* in that order.
Delivers == Delivery!Spec
=============================================================================
