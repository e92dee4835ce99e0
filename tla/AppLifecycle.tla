----------------------------- MODULE AppLifecycle -----------------------------
(***************************************************************************)
(* The program in its window: the buttons of crates/ss-ui/src/app.rs put   *)
(* commands in a channel, the command handler of src/main.rs takes one at  *)
(* a time, and the tasks it spawns for servers and for connections go on   *)
(* by themselves and write what the buttons show.                          *)
(*                                                                         *)
(* A server is ended by its channel of type broadcast::Sender: a message   *)
(* reaches who has subscribed before it was sent, and dropping the sender  *)
(* closes the channel for all.  The handler drops it in StopServer, and in *)
(* StartServer when it puts another in its place.  Servers and connections *)
(* are numbered in the order they are started.                             *)
(*                                                                         *)
(* Left out: what a server does for its clients (ServerRegistry), what a   *)
(* connection carries (InputSession), the lines of error text.             *)
(***************************************************************************)
EXTENDS Naturals, Sequences, FiniteSets

CONSTANTS CmdCap,      \* capacity of the command channel (16)
          MaxStarts,   \* bound on StartServer commands
          MaxConnects  \* bound on connection tasks

ASSUME CapAssumption == CmdCap \in Nat /\ MaxStarts \in Nat /\ MaxConnects \in Nat

Servers     == 1 .. MaxStarts
Connections == 1 .. MaxConnects
Ports       == {"control", "data", "pairing"}
NoServer    == 0

VARIABLES
  cmds,              \* cmd_tx to cmd_rx
  handler,           \* "idle", or what it is in the middle of
  server_shutdown,   \* the server whose sender the handler holds
  started,           \* servers started so far
  server,            \* server::start, per server
  listening,         \* per server: the ports whose listener task runs
  told,              \* listeners that have a shutdown message to read
  pairs,             \* servers that were given PairingSupport
  ticking,           \* servers whose PIN a task shows
  spawned,           \* connection tasks started so far
  conn,              \* spawn_client_connection, per connection task
  first_attempt,     \* its variable of that name
  known,             \* the server to connect to is a known one
  server_running, client_connected, pairing_required, pairing_pin,
                     \* SharedAppState
  failed             \* history: a server has found no certificates or ports

serving == <<server_shutdown, started, server, listening, told, pairs, ticking, failed>>
joining == <<spawned, conn, first_attempt, known>>
shown   == <<server_running, client_connected, pairing_required, pairing_pin>>
vars    == <<cmds, handler, serving, joining, shown>>

Init ==
  /\ cmds = <<>> /\ handler = "idle"
  /\ server_shutdown = NoServer /\ started = 0
  /\ server = [i \in Servers |-> "none"]
  /\ listening = [i \in Servers |-> {}]
  /\ told = {} /\ pairs = {} /\ ticking = {} /\ failed = FALSE
  /\ spawned = 0 /\ known \in BOOLEAN
  /\ conn = [j \in Connections |-> "none"]
  /\ first_attempt = [j \in Connections |-> TRUE]
  /\ server_running = FALSE /\ client_connected = FALSE
  /\ pairing_required = FALSE /\ pairing_pin = NoServer

-----------------------------------------------------------------------------
(* The buttons.                                                            *)

\* The two tabs show one button each, for what the state says.
ServerButton == IF server_running THEN "StopServer" ELSE "StartServer"
ClientButton ==
  CASE client_connected -> "DisconnectClient"
    [] ~client_connected /\ pairing_required -> "PairAndConnect"
    [] OTHER -> "ConnectClient"

Queued(cs) == Cardinality({k \in DOMAIN cmds : cmds[k] \in cs})
Joins == {"ConnectClient", "PairAndConnect"}

\* try_send: a command that finds the channel full is lost.
Press(c) ==
  /\ c \in {ServerButton, ClientButton} /\ Len(cmds) < CmdCap
  /\ c = "StartServer" => started + Queued({c}) < MaxStarts
  /\ c \in Joins => spawned + Queued(Joins) + (IF handler = "pairing" THEN 1 ELSE 0) < MaxConnects
  /\ cmds' = Append(cmds, c)
  /\ UNCHANGED <<handler, serving, joining, shown>>

-----------------------------------------------------------------------------
(* command_handler.                                                        *)

Take(c) == handler = "idle" /\ cmds # <<>> /\ Head(cmds) = c /\ cmds' = Tail(cmds)

\* Mutant: there is one task that shows a PIN, that of the first server.
StartServerOneTick ==
  /\ Take("StartServer")
  /\ LET i == started + 1 IN
     /\ started' = i /\ server_shutdown' = i
     /\ \/ failed' = TRUE /\ UNCHANGED <<handler, server, pairs, ticking>>
        \/ /\ server' = [server EXCEPT ![i] = "binding"] /\ handler' = "starting"
           /\ pairs' \in {pairs, pairs \cup {i}}
           /\ ticking' = IF ticking = {} THEN pairs' ELSE ticking
           /\ UNCHANGED failed
  /\ UNCHANGED <<listening, told, joining, shown>>

\* The sender of an earlier server is dropped.  Without certificates that is
\* all; with them the tasks are spawned, the one that shows the PIN if
\* pairing is enabled.
StartServer ==
  /\ Take("StartServer")
  /\ LET i == started + 1 IN
     /\ started' = i /\ server_shutdown' = i
     /\ \/ failed' = TRUE /\ UNCHANGED <<handler, server, pairs, ticking>>
        \/ /\ server' = [server EXCEPT ![i] = "binding"] /\ handler' = "starting"
           /\ pairs' \in {pairs, pairs \cup {i}}
           /\ ticking' = pairs'
           /\ UNCHANGED failed
  /\ UNCHANGED <<listening, told, joining, shown>>

\* The last lines of StartServer, while the new tasks run already.
MarkRunning ==
  /\ handler = "starting"
  /\ handler' = "idle" /\ server_running' = TRUE
  /\ UNCHANGED <<cmds, serving, joining, client_connected, pairing_required, pairing_pin>>

\* Mutant: the message is sent, and the sender kept.
StopServerSends ==
  /\ Take("StopServer")
  /\ told' = told \cup {<<server_shutdown, p>> : p \in UNION {listening[i] : i \in Servers \cap {server_shutdown}}}
  /\ server_running' = FALSE
  /\ UNCHANGED <<handler, server_shutdown, started, server, listening, pairs, ticking, failed,
                 joining, client_connected, pairing_required, pairing_pin>>

StopServer ==
  /\ Take("StopServer")
  /\ told' = told \cup {<<server_shutdown, p>> : p \in UNION {listening[i] : i \in Servers \cap {server_shutdown}}}
  /\ server_shutdown' = NoServer
  /\ server_running' = FALSE
  /\ UNCHANGED <<handler, started, server, listening, pairs, ticking, failed,
                 joining, client_connected, pairing_required, pairing_pin>>

Spawn == spawned' = spawned + 1 /\ conn' = [conn EXCEPT ![spawned + 1] = "connecting"]

ConnectClient ==
  /\ Take("ConnectClient")
  /\ pairing_required' = ~known
  /\ IF known THEN Spawn ELSE UNCHANGED <<spawned, conn>>
  /\ UNCHANGED <<handler, serving, first_attempt, known, server_running, client_connected, pairing_pin>>

\* The handler waits for the exchange, which has time-outs of its own.
PairAndConnect ==
  /\ Take("PairAndConnect")
  /\ handler' = "pairing"
  /\ UNCHANGED <<serving, joining, shown>>

Paired ==
  /\ handler = "pairing" /\ handler' = "idle"
  /\ known' = TRUE /\ pairing_required' = FALSE
  /\ Spawn
  /\ UNCHANGED <<cmds, serving, first_attempt, server_running, client_connected, pairing_pin>>

PairingFails ==
  /\ handler = "pairing" /\ handler' = "idle"
  /\ UNCHANGED <<cmds, serving, joining, shown>>

\* Nobody receives from client_shutdown: only what is shown changes.
DisconnectClient ==
  /\ Take("DisconnectClient")
  /\ client_connected' = FALSE
  /\ UNCHANGED <<handler, serving, joining, server_running, pairing_required, pairing_pin>>

-----------------------------------------------------------------------------
(* server::start and its listeners.                                        *)

Free(p) == \A i \in Servers : p \notin listening[i]
Closed(i) == server_shutdown # i

\* Mutant: it is the server's task that says it is running.
BindAndMark(i) ==
  /\ server[i] = "binding" /\ Free("control") /\ Free("data")
  /\ listening' = [listening EXCEPT ![i] = {"control", "data"}]
  /\ server' = [server EXCEPT ![i] = "opening"]
  /\ server_running' = TRUE
  /\ UNCHANGED <<cmds, handler, server_shutdown, started, told, pairs, ticking, failed, joining,
                 client_connected, pairing_required, pairing_pin>>

\* Both ports are bound and their listeners spawned.
Bind(i) ==
  /\ server[i] = "binding" /\ Free("control") /\ Free("data")
  /\ listening' = [listening EXCEPT ![i] = {"control", "data"}]
  /\ server' = [server EXCEPT ![i] = "opening"]
  /\ UNCHANGED <<cmds, handler, server_shutdown, started, told, pairs, ticking, failed, joining, shown>>

\* A port is taken, by an earlier server or by another program.
BindFails(i) ==
  /\ server[i] = "binding"
  /\ server' = [server EXCEPT ![i] = "failing"]
  /\ failed' = TRUE
  /\ UNCHANGED <<cmds, handler, server_shutdown, started, listening, told, pairs, ticking, joining, shown>>

\* The listener for pairing; when its port is taken, that is only logged.
OpenPairing(i) ==
  /\ server[i] = "opening"
  /\ server' = [server EXCEPT ![i] = "serving"]
  /\ listening' = [listening EXCEPT ![i] = IF i \in pairs /\ Free("pairing") THEN @ \cup {"pairing"} ELSE @]
  /\ UNCHANGED <<cmds, handler, server_shutdown, started, told, pairs, ticking, failed, joining, shown>>

\* The task around start writes the failure down.
ReportFailure(i) ==
  /\ server[i] = "failing"
  /\ server' = [server EXCEPT ![i] = "ended"]
  /\ server_running' = FALSE
  /\ UNCHANGED <<cmds, handler, server_shutdown, started, listening, told, pairs, ticking, failed, joining,
                 client_connected, pairing_required, pairing_pin>>

\* A listener reads the message, or finds its channel closed.
ListenerEnds(i, p) ==
  /\ p \in listening[i]
  /\ Closed(i) \/ <<i, p>> \in told
  /\ listening' = [listening EXCEPT ![i] = @ \ {p}]
  /\ told' = told \ {<<i, p>>}
  /\ UNCHANGED <<cmds, handler, server_shutdown, started, server, pairs, ticking, failed, joining, shown>>

\* The task that shows the PIN of a server: once a second, for ever.
Tick(i) ==
  /\ i \in ticking
  /\ pairing_pin' = i
  /\ UNCHANGED <<cmds, handler, serving, joining, server_running, client_connected, pairing_required>>

-----------------------------------------------------------------------------
(* spawn_client_connection.                                                *)

Goes(j, where) == conn' = [conn EXCEPT ![j] = where]

\* Mutant: a success does not count as the first attempt.
ConnectedAsAlways(j) ==
  /\ conn[j] = "connecting" /\ Goes(j, "up")
  /\ client_connected' = TRUE
  /\ UNCHANGED <<cmds, handler, serving, spawned, first_attempt, known, server_running, pairing_required, pairing_pin>>

Connected(j) ==
  /\ conn[j] = "connecting" /\ Goes(j, "up")
  /\ first_attempt' = [first_attempt EXCEPT ![j] = FALSE]
  /\ client_connected' = TRUE
  /\ UNCHANGED <<cmds, handler, serving, spawned, known, server_running, pairing_required, pairing_pin>>

\* An error, or ten seconds without an answer.
FirstFails(j) ==
  /\ conn[j] = "connecting" /\ first_attempt[j] /\ Goes(j, "ended")
  /\ client_connected' = FALSE
  /\ UNCHANGED <<cmds, handler, serving, spawned, first_attempt, known, server_running, pairing_required, pairing_pin>>

RetryFails(j) ==
  /\ conn[j] = "connecting" /\ ~first_attempt[j] /\ Goes(j, "waiting")
  /\ UNCHANGED <<cmds, handler, serving, spawned, first_attempt, known, shown>>

\* Mutant: only a failed attempt is shown.
LostQuietly(j) ==
  /\ conn[j] = "up" /\ Goes(j, "waiting")
  /\ UNCHANGED <<cmds, handler, serving, spawned, first_attempt, known, shown>>

Lost(j) ==
  /\ conn[j] = "up" /\ Goes(j, "waiting")
  /\ client_connected' = FALSE
  /\ UNCHANGED <<cmds, handler, serving, spawned, first_attempt, known, server_running, pairing_required, pairing_pin>>

\* The backoff is over.
Retry(j) ==
  /\ conn[j] = "waiting" /\ Goes(j, "connecting")
  /\ UNCHANGED <<cmds, handler, serving, spawned, first_attempt, known, shown>>

-----------------------------------------------------------------------------
Buttons == {"StartServer", "StopServer", "DisconnectClient"} \cup Joins

Handle == StartServer \/ MarkRunning \/ StopServer \/ ConnectClient \/ PairAndConnect
            \/ Paired \/ PairingFails \/ DisconnectClient

Serve(i) == \/ Bind(i) \/ BindFails(i) \/ OpenPairing(i) \/ ReportFailure(i)
            \/ \E p \in Ports : ListenerEnds(i, p)

Attempt(j) == Connected(j) \/ FirstFails(j) \/ RetryFails(j) \/ Retry(j)

Next ==
  \/ \E c \in Buttons : Press(c)
  \/ Handle
  \/ \E i \in Servers : Serve(i) \/ Tick(i)
  \/ \E j \in Connections : Attempt(j) \/ Lost(j)

Spec == Init /\ [][Next]_vars

\* The runtime runs every task; nobody presses a button or cuts a connection
\* for fairness' sake.
FairSpec ==
  /\ Spec
  /\ WF_vars(Handle)
  /\ \A i \in Servers : WF_vars(Serve(i)) /\ WF_vars(Tick(i))
  /\ \A j \in Connections : WF_vars(Attempt(j))

-----------------------------------------------------------------------------
(* Properties.                                                             *)

CommandsOK ==
  /\ cmds \in Seq(Buttons) /\ Len(cmds) <= CmdCap
  /\ handler \in {"idle", "starting", "pairing"}

\* What is started is bounded by what may be pressed.
ServersOK ==
  /\ started \in Nat /\ server_shutdown \in 0 .. started
  /\ server \in [Servers -> {"none", "binding", "opening", "serving", "failing", "ended"}]
  /\ listening \in [Servers -> SUBSET Ports]
  /\ \A i, j \in Servers : listening[i] \cap listening[j] # {} => i = j
  /\ told \subseteq Servers \X Ports
  /\ pairs \subseteq 1 .. started /\ ticking \subseteq pairs /\ failed \in BOOLEAN

ConnectionsOK ==
  /\ spawned \in Nat
  /\ conn \in [Connections -> {"none", "connecting", "up", "waiting", "ended"}]
  /\ first_attempt \in [Connections -> BOOLEAN] /\ known \in BOOLEAN

ShownOK ==
  /\ server_running \in BOOLEAN /\ client_connected \in BOOLEAN
  /\ pairing_required \in BOOLEAN /\ pairing_pin \in {NoServer} \cup ticking

TypeOK == CommandsOK /\ ServersOK /\ ConnectionsOK /\ ShownOK

\* A server the user stops ends for good: when "Stop" has been pressed, the
\* server that ran closes its ports, whatever else is in the channel, however
\* long a pairing keeps the handler, and also when the command is handled
\* before the server has come to bind its ports and to listen for it.
StoppedServerEnds ==
  \A i \in Servers :
    server_shutdown = i /\ (\E k \in DOMAIN cmds : cmds[k] = "StopServer")
      ~> [](listening[i] = {})

\* As long as no start has failed, the button tells the truth once things have
\* settled: it offers to stop exactly if there is a server that takes clients,
\* and this server is the one that a stop would end.
ButtonTellsTheTruth ==
  /\ ~failed /\ handler = "idle" /\ cmds = <<>>
  /\ \A i \in Servers : server[i] \in {"none", "serving"} /\ (Closed(i) => listening[i] = {})
  => /\ server_running <=> server_shutdown # NoServer
     /\ \A i \in Servers : "control" \in listening[i] <=> server_shutdown = i

\* "Connected" is only shown while some connection is up, however many tasks
\* try to connect and write it.
ShownConnectedIsUp == client_connected => \E j \in Connections : conn[j] = "up"

\* A connection that was up once is tried again for ever, every time it ends.
KeepsTrying ==
  \A j \in Connections : [](conn[j] = "up" => []<>(conn[j] \in {"connecting", "up"}))

\* The PIN of a server in operation keeps coming up, though the tasks of
\* servers that have ended go on showing theirs.
PinKeepsComingUp ==
  \A i \in Servers : "pairing" \in listening[i] ~> pairing_pin = i
=============================================================================
