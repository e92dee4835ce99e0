---------------------------- MODULE ServerRegistry ----------------------------
(***************************************************************************)
(* How the server of crates/ss-network/src/server.rs learns who is         *)
(* connected.  A device opens a control and a data connection per attempt, *)
(* each served by a task of its own.  The tasks meet in two maps keyed by  *)
(* device name: pending_data, where a data task leaves its sender, and     *)
(* clients, where the control task registers the pair.  A listener turns   *)
(* the control tasks' events into the list the GUI shows and the flag      *)
(* has_client the capture layer obeys.                                     *)
(*                                                                         *)
(* A device retries: an attempt may fail between its two connections,      *)
(* leaving the control connection open behind it, and a client that lost   *)
(* its connection is back before the server has noticed the loss.          *)
(***************************************************************************)
EXTENDS Naturals, Sequences, FiniteSets

CONSTANTS Names,      \* device names
          Attempts,   \* connection attempts, over the life of the server
          NameOf,     \* the device an attempt is made by
          NotifyCap   \* capacity of the notification channel (64)

ASSUME NameOfAssumption == NameOf \in [Attempts -> Names]

\* The listener would stop if it lagged behind; it never can here.
ASSUME NoLagAssumption ==
  /\ IsFiniteSet(Attempts) /\ NotifyCap \in Nat
  /\ 2 * Cardinality(Attempts) <= NotifyCap

VARIABLES
  device,             \* per attempt: how far the client is
  alive,              \* per attempt: its control connection is up
  ctrl,               \* per attempt: the server's control task
  data,               \* per attempt: the server's data task
  pending_data,       \* name -> attempt whose data sender waits
  clients,            \* name -> the registered pair of connections
  notify,             \* notify_tx, as the listener has yet to see it
  connected_clients,  \* the names on the list in the shared state
  has_client

maps  == <<pending_data, clients>>
heard == <<notify, connected_clients, has_client>>
vars  == <<device, alive, ctrl, data, maps, heard>>

None == [nobody |-> TRUE]

Client(a, d) == [control_tx |-> a, data_tx |-> d]

ClientConnected(n)    == [type |-> "ClientConnected", name |-> n]
ClientDisconnected(n) == [type |-> "ClientDisconnected", name |-> n]

Init ==
  /\ device = [a \in Attempts |-> "idle"]
  /\ alive = [a \in Attempts |-> FALSE]
  /\ ctrl = [a \in Attempts |-> "none"]
  /\ data = [a \in Attempts |-> "none"]
  /\ pending_data = [n \in Names |-> None]
  /\ clients = [n \in Names |-> None]
  /\ notify = <<>> /\ connected_clients = {} /\ has_client = FALSE

-----------------------------------------------------------------------------
(* The client side: connect(), one attempt at a time per device.           *)

\* The control connection is opened and the handshake sent.
Ask(a) ==
  /\ device[a] = "idle"
  /\ \A b \in Attempts \ {a} :
       NameOf[b] = NameOf[a] => device[b] \in {"idle", "failed", "lost"}
  /\ device' = [device EXCEPT ![a] = "asking"]
  /\ alive' = [alive EXCEPT ![a] = TRUE]
  /\ UNCHANGED <<ctrl, data, maps, heard>>

\* connect() gives up before the data connection stands.  From "screened" on,
\* the reader and writer tasks it has spawned keep the control connection up.
Fail(a) ==
  /\ device[a] \in {"asking", "screened"}
  /\ device' = [device EXCEPT ![a] = "failed"]
  /\ alive' = [alive EXCEPT ![a] = @ /\ device[a] = "screened"]
  /\ UNCHANGED <<ctrl, data, maps, heard>>

\* The data connection is opened and its handshake sent: connect() returns.
ConnectData(a) ==
  /\ device[a] = "screened"
  /\ device' = [device EXCEPT ![a] = "connected"]
  /\ UNCHANGED <<alive, ctrl, data, maps, heard>>

\* The control loop sees the end of its connection, and will retry.
Lose(a) ==
  /\ device[a] = "connected" /\ ~alive[a]
  /\ device' = [device EXCEPT ![a] = "lost"]
  /\ UNCHANGED <<alive, ctrl, data, maps, heard>>

\* The network drops a control connection; either end notices when it can.
Break(a) ==
  /\ alive[a]
  /\ alive' = [alive EXCEPT ![a] = FALSE]
  /\ UNCHANGED <<device, ctrl, data, maps, heard>>

-----------------------------------------------------------------------------
(* handle_data_connection.                                                 *)

AcceptData(a) ==
  /\ device[a] \in {"connected", "lost"} /\ data[a] = "none"
  /\ data' = [data EXCEPT ![a] = "open"]
  /\ pending_data' = [pending_data EXCEPT ![NameOf[a]] = a]
  /\ UNCHANGED <<device, alive, ctrl, clients, heard>>

-----------------------------------------------------------------------------
(* handle_control_connection.                                              *)

Become(a, stage) == ctrl' = [ctrl EXCEPT ![a] = stage]

\* Handshake read, ScreenConfig written.
AcceptControl(a) ==
  /\ device[a] = "asking" /\ ctrl[a] = "none"
  /\ Become(a, "waiting")
  /\ device' = [device EXCEPT ![a] = "screened"]
  /\ UNCHANGED <<alive, data, maps, heard>>

\* Mutant: the sender is read and left in the map.
RegisterKeepsPending(a) ==
  /\ ctrl[a] = "waiting" /\ pending_data[NameOf[a]] # None
  /\ clients' = [clients EXCEPT ![NameOf[a]] = Client(a, pending_data[NameOf[a]])]
  /\ Become(a, "registered")
  /\ UNCHANGED <<device, alive, data, pending_data, heard>>

\* A poll finds a data sender under the name, whose ever it is.
Register(a) ==
  /\ ctrl[a] = "waiting" /\ pending_data[NameOf[a]] # None
  /\ clients' = [clients EXCEPT ![NameOf[a]] = Client(a, pending_data[NameOf[a]])]
  /\ pending_data' = [pending_data EXCEPT ![NameOf[a]] = None]
  /\ Become(a, "registered")
  /\ UNCHANGED <<device, alive, data, heard>>

\* The fifty-first poll in vain: the connection is dropped.
GiveUp(a) ==
  /\ ctrl[a] = "waiting" /\ pending_data[NameOf[a]] = None
  /\ Become(a, "refused")
  /\ alive' = [alive EXCEPT ![a] = FALSE]
  /\ UNCHANGED <<device, data, maps, heard>>

Announce(a) ==
  /\ ctrl[a] = "registered"
  /\ notify' = Append(notify, ClientConnected(NameOf[a]))
  /\ Become(a, "reading")
  /\ UNCHANGED <<device, alive, data, maps, connected_clients, has_client>>

\* End of file, error, or fifteen seconds without a heartbeat.
StopReading(a) ==
  /\ ctrl[a] = "reading" /\ ~alive[a]
  /\ Become(a, "removing")
  /\ UNCHANGED <<device, alive, data, maps, heard>>

\* Mutant: the entry is recognised by its data connection.
RemoveOwnData(a) ==
  /\ ctrl[a] = "removing"
  /\ clients' = [n \in Names |-> IF clients[n] # None /\ clients[n].data_tx = a THEN None ELSE clients[n]]
  /\ Become(a, "leaving")
  /\ UNCHANGED <<device, alive, data, pending_data, heard>>

\* Mutant: with nothing to remove there is nothing to tell.
RemoveOrReturn(a) ==
  /\ ctrl[a] = "removing"
  /\ clients' = [clients EXCEPT ![NameOf[a]] = None]
  /\ Become(a, IF clients[NameOf[a]] = None THEN "done" ELSE "leaving")
  /\ UNCHANGED <<device, alive, data, pending_data, heard>>

\* Clean-up removes whatever is registered under the name.
Remove(a) ==
  /\ ctrl[a] = "removing"
  /\ clients' = [clients EXCEPT ![NameOf[a]] = None]
  /\ Become(a, "leaving")
  /\ UNCHANGED <<device, alive, data, pending_data, heard>>

Leave(a) ==
  /\ ctrl[a] = "leaving"
  /\ notify' = Append(notify, ClientDisconnected(NameOf[a]))
  /\ Become(a, "done")
  /\ UNCHANGED <<device, alive, data, maps, connected_clients, has_client>>

-----------------------------------------------------------------------------
(* The listener of main.rs: push, or retain the other names.  Who is on    *)
(* the list twice is dropped twice, so the list is the set of its names.   *)

ListenConnected ==
  /\ notify # <<>> /\ Head(notify).type = "ClientConnected"
  /\ connected_clients' = connected_clients \cup {Head(notify).name}
  /\ has_client' = TRUE
  /\ notify' = Tail(notify)
  /\ UNCHANGED <<device, alive, ctrl, data, maps>>

ListenDisconnected ==
  /\ notify # <<>> /\ Head(notify).type = "ClientDisconnected"
  /\ connected_clients' = connected_clients \ {Head(notify).name}
  /\ has_client' = (has_client /\ connected_clients' # {})
  /\ notify' = Tail(notify)
  /\ UNCHANGED <<device, alive, ctrl, data, maps>>

ControlTask(a) ==
  \/ AcceptControl(a) \/ Register(a) \/ GiveUp(a) \/ Announce(a)
  \/ StopReading(a) \/ Remove(a) \/ Leave(a)

Listen == ListenConnected \/ ListenDisconnected

Next ==
  \/ \E a \in Attempts : Ask(a) \/ Fail(a) \/ ConnectData(a) \/ Lose(a) \/ Break(a)
  \/ \E a \in Attempts : AcceptData(a) \/ ControlTask(a)
  \/ Listen

Spec == Init /\ [][Next]_vars

\* The server's tasks all run.
Fairness ==
  /\ \A a \in Attempts : WF_vars(ControlTask(a)) /\ WF_vars(AcceptData(a))
  /\ WF_vars(Listen)

FairSpec == Spec /\ Fairness

-----------------------------------------------------------------------------
(* Properties.                                                             *)

Serving == {"registered", "reading", "removing"}

TypeOK ==
  /\ device \in [Attempts -> {"idle", "asking", "screened", "connected", "failed", "lost"}]
  /\ alive \in [Attempts -> BOOLEAN]
  /\ ctrl \in [Attempts -> {"none", "waiting", "refused", "leaving", "done"} \cup Serving]
  /\ data \in [Attempts -> {"none", "open"}]
  /\ pending_data \in [Names -> Attempts \cup {None}]
  /\ clients \in [Names -> [control_tx : Attempts, data_tx : Attempts] \cup {None}]
  /\ notify \in Seq([type : {"ClientConnected", "ClientDisconnected"}, name : Names])
  /\ Len(notify) <= NotifyCap
  /\ connected_clients \subseteq Names
  /\ has_client = (connected_clients # {})

\* A client that is registered has a control task that will remove it: there
\* is no entry without somebody to clean it up, however attempts overlap.
EntryHasItsTask ==
  \A n \in Names : clients[n] # None =>
    /\ NameOf[clients[n].control_tx] = n
    /\ ctrl[clients[n].control_tx] \in Serving

\* A data connection serves one control connection: once handed out it does
\* not wait in pending_data for another one.
DataIsHandedOutOnce ==
  \A n \in Names : clients[n] # None /\ pending_data[n] # None =>
    clients[n].data_tx # pending_data[n]

WillBeTold(n) ==
  \E a \in Attempts : NameOf[a] = n /\ ctrl[a] \in {"reading", "removing", "leaving"}

WillBeHeard(n) == \E i \in DOMAIN notify : notify[i] = ClientDisconnected(n)

\* Nobody stays on the list for ever: for every listed name a disconnection
\* is on its way, or a task is still to send one.
NoGhost ==
  \A n \in connected_clients : WillBeHeard(n) \/ WillBeTold(n)

\* When every connection is gone for good, the capture layer is told, whatever
\* the order in which overlapping attempts of one device came and went.
AllGoneIsNoticed ==
  (<>[](\A a \in Attempts : ~alive[a])) => (<>[](~has_client))
=============================================================================
