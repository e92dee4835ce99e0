--------------------------- MODULE AppLifecycleProofs ---------------------------
(***************************************************************************)
(* Proofs about AppLifecycle, for any number of servers and connections.   *)
(***************************************************************************)
EXTENDS AppLifecycle, TLAPS

-----------------------------------------------------------------------------
(* Type correctness, part by part.                                         *)

LEMMA InitTypeOK == Init => TypeOK
<1> SUFFICES ASSUME Init PROVE TypeOK
  OBVIOUS
<1>1. CommandsOK
  BY CapAssumption DEF Init, CommandsOK
<1>2. ServersOK
  <2>1. started \in Nat /\ server_shutdown \in 0 .. started
    <3>1. started = 0 /\ server_shutdown = 0
      BY DEF Init, NoServer
    <3> QED BY <3>1
  <2>2. /\ server \in [Servers -> {"none", "binding", "opening", "serving", "failing", "ended"}]
        /\ listening \in [Servers -> SUBSET Ports]
        /\ \A i, j \in Servers : listening[i] \cap listening[j] # {} => i = j
    BY DEF Init
  <2>3. told \subseteq Servers \X Ports /\ pairs \subseteq 1 .. started /\ ticking \subseteq pairs
        /\ failed \in BOOLEAN
    BY DEF Init
  <2> QED BY <2>1, <2>2, <2>3 DEF ServersOK
<1>3. ConnectionsOK /\ ShownOK
  BY DEF Init, ConnectionsOK, ShownOK, NoServer
<1> QED BY <1>1, <1>2, <1>3 DEF TypeOK

\* The command channel: a button adds one, the handler takes one.
LEMMA NextCommandsOK == CommandsOK /\ [Next]_vars => CommandsOK'
<1> SUFFICES ASSUME CommandsOK, [Next]_vars PROVE CommandsOK'
  OBVIOUS
<1> USE CapAssumption
<1>1. ASSUME NEW c \in Buttons, Press(c) PROVE CommandsOK'
  <2>1. cmds \in Seq(Buttons) /\ Len(cmds) < CmdCap /\ cmds' = Append(cmds, c)
    BY <1>1 DEF Press, CommandsOK
  <2>2. Append(cmds, c) \in Seq(Buttons) /\ Len(Append(cmds, c)) = Len(cmds) + 1 /\ Len(cmds) \in Nat
    BY <2>1
  <2> QED BY <1>1, <2>1, <2>2 DEF Press, CommandsOK
<1>2. ASSUME NEW c, Take(c), handler' \in {"idle", "starting", "pairing"} PROVE CommandsOK'
  <2>1. cmds \in Seq(Buttons) /\ cmds # <<>> /\ cmds' = Tail(cmds)
    BY <1>2 DEF CommandsOK, Take
  <2>2. Len(Tail(cmds)) = Len(cmds) - 1 /\ Tail(cmds) \in Seq(Buttons) /\ Len(cmds) \in Nat
    BY <2>1
  <2> QED BY <1>2, <2>1, <2>2 DEF CommandsOK
<1>3. CASE StartServer
  <2>1. handler' \in {"idle", "starting", "pairing"}
    BY <1>3 DEF StartServer, CommandsOK
  <2> QED BY <1>2, <1>3, <2>1 DEF StartServer
<1>4. CASE StopServer \/ ConnectClient \/ DisconnectClient
  BY <1>2, <1>4 DEF StopServer, ConnectClient, DisconnectClient, CommandsOK
<1>5. CASE PairAndConnect
  BY <1>2, <1>5 DEF PairAndConnect
<1>6. CASE MarkRunning \/ Paired \/ PairingFails
  BY <1>6 DEF MarkRunning, Paired, PairingFails, CommandsOK
<1>7. ASSUME NEW i \in Servers, Serve(i) \/ Tick(i) PROVE CommandsOK'
  BY <1>7 DEF Serve, Bind, BindFails, OpenPairing, ReportFailure, ListenerEnds, Tick, CommandsOK
<1>8. ASSUME NEW j \in Connections, Attempt(j) \/ Lost(j) PROVE CommandsOK'
  BY <1>8 DEF Attempt, Connected, FirstFails, RetryFails, Retry, Lost, CommandsOK
<1>9. CASE UNCHANGED vars
  BY <1>9 DEF vars, CommandsOK
<1> QED BY <1>1, <1>3, <1>4, <1>5, <1>6, <1>7, <1>8, <1>9 DEF Next, Handle

\* Servers, listeners and their ports.
LEMMA NextServersOK == ServersOK /\ [Next]_vars => ServersOK'
<1> SUFFICES ASSUME ServersOK, [Next]_vars PROVE ServersOK'
  OBVIOUS
<1>1. CASE StartServer
  <2>1. /\ started' = started + 1 /\ server_shutdown' = started + 1
        /\ UNCHANGED <<listening, told>>
        /\ \/ failed' = TRUE /\ UNCHANGED <<server, pairs, ticking>>
           \/ /\ server' = [server EXCEPT ![started + 1] = "binding"]
              /\ pairs' \in {pairs, pairs \cup {started + 1}} /\ ticking' = pairs' /\ UNCHANGED failed
    BY <1>1 DEF StartServer
  <2>2. started' \in Nat /\ server_shutdown' \in 0 .. started' /\ 1 .. started \subseteq 1 .. started'
        /\ started + 1 \in 1 .. started'
    BY <2>1 DEF ServersOK
  <2>3. pairs' \subseteq 1 .. started' /\ ticking' \subseteq pairs' /\ failed' \in BOOLEAN
    BY <2>1, <2>2 DEF ServersOK
  <2>4. server' \in [Servers -> {"none", "binding", "opening", "serving", "failing", "ended"}]
    BY <2>1 DEF ServersOK
  <2> QED BY <2>1, <2>2, <2>3, <2>4 DEF ServersOK
<1>2. CASE StopServer
  <2>1. told' \subseteq Servers \X Ports
    <3> SUFFICES ASSUME NEW p \in UNION {listening[i] : i \in Servers \cap {server_shutdown}}
                 PROVE  <<server_shutdown, p>> \in Servers \X Ports
      BY <1>2 DEF StopServer, ServersOK
    <3>1. server_shutdown \in Servers /\ p \in listening[server_shutdown]
      OBVIOUS
    <3> QED BY <3>1 DEF ServersOK
  <2> QED BY <1>2, <2>1 DEF StopServer, ServersOK, NoServer
<1>3. ASSUME NEW i \in Servers, Bind(i) PROVE ServersOK'
  <2>1. \A j \in Servers : listening[j] \cap {"control", "data"} = {}
    BY <1>3 DEF Bind, Free
  <2>2. listening' = [listening EXCEPT ![i] = {"control", "data"}]
    BY <1>3 DEF Bind
  <2>3. \A j, k \in Servers : listening'[j] \cap listening'[k] # {} => j = k
    BY <2>1, <2>2 DEF ServersOK
  <2>4. listening' \in [Servers -> SUBSET Ports]
    BY <2>2 DEF ServersOK, Ports
  <2> QED BY <1>3, <2>3, <2>4 DEF Bind, ServersOK
<1>4. ASSUME NEW i \in Servers, BindFails(i) \/ ReportFailure(i) PROVE ServersOK'
  BY <1>4 DEF BindFails, ReportFailure, ServersOK
<1>5. ASSUME NEW i \in Servers, OpenPairing(i) PROVE ServersOK'
  <2>1. CASE i \in pairs /\ Free("pairing")
    <3>1. /\ \A j \in Servers : "pairing" \notin listening[j]
          /\ listening' = [listening EXCEPT ![i] = listening[i] \cup {"pairing"}]
      BY <1>5, <2>1 DEF OpenPairing, Free
    <3>2. \A j, k \in Servers : listening'[j] \cap listening'[k] # {} => j = k
      BY <3>1 DEF ServersOK
    <3>3. listening' \in [Servers -> SUBSET Ports]
      BY <3>1 DEF ServersOK, Ports
    <3> QED BY <1>5, <3>2, <3>3 DEF OpenPairing, ServersOK
  <2>2. CASE ~(i \in pairs /\ Free("pairing"))
    <3>1. listening' = listening
      BY <1>5, <2>2 DEF OpenPairing, ServersOK
    <3> QED BY <1>5, <3>1 DEF OpenPairing, ServersOK
  <2> QED BY <2>1, <2>2
<1>6. ASSUME NEW i \in Servers, NEW p \in Ports, ListenerEnds(i, p) PROVE ServersOK'
  <2>1. listening' = [listening EXCEPT ![i] = listening[i] \ {p}]
    BY <1>6 DEF ListenerEnds
  <2>2. \A j \in Servers : listening'[j] \subseteq listening[j]
    BY <2>1 DEF ServersOK
  <2>3. \A j, k \in Servers : listening'[j] \cap listening'[k] # {} => j = k
    BY <2>2 DEF ServersOK
  <2>4. listening' \in [Servers -> SUBSET Ports]
    BY <2>1 DEF ServersOK
  <2> QED BY <1>6, <2>3, <2>4 DEF ListenerEnds, ServersOK
<1>7. CASE UNCHANGED serving
  BY <1>7 DEF serving, ServersOK
<1>8. ASSUME NEW c \in Buttons, Press(c) PROVE UNCHANGED serving
  BY <1>8 DEF Press
<1>9. MarkRunning \/ ConnectClient \/ PairAndConnect \/ Paired \/ PairingFails \/ DisconnectClient
        => UNCHANGED serving
  BY DEF MarkRunning, ConnectClient, PairAndConnect, Paired, PairingFails, DisconnectClient
<1>10. ASSUME NEW i \in Servers, Tick(i) PROVE UNCHANGED serving
  BY <1>10 DEF Tick
<1>11. ASSUME NEW j \in Connections, Attempt(j) \/ Lost(j) PROVE UNCHANGED serving
  BY <1>11 DEF Attempt, Connected, FirstFails, RetryFails, Retry, Lost
<1>12. UNCHANGED vars => UNCHANGED serving
  BY DEF vars
<1> QED BY <1>1, <1>2, <1>3, <1>4, <1>5, <1>6, <1>7, <1>8, <1>9, <1>10, <1>11, <1>12
     DEF Next, Handle, Serve

\* The connection tasks.
LEMMA NextConnectionsOK == ConnectionsOK /\ [Next]_vars => ConnectionsOK'
<1> SUFFICES ASSUME ConnectionsOK, [Next]_vars PROVE ConnectionsOK'
  OBVIOUS
<1>1. CASE ConnectClient \/ Paired
  <2>1. UNCHANGED <<spawned, conn>> \/ Spawn
    BY <1>1 DEF ConnectClient, Paired
  <2>2. /\ spawned' \in Nat
        /\ conn' \in [Connections -> {"none", "connecting", "up", "waiting", "ended"}]
    BY <2>1 DEF Spawn, ConnectionsOK
  <2>3. UNCHANGED first_attempt /\ known' \in BOOLEAN
    BY <1>1 DEF ConnectClient, Paired, ConnectionsOK
  <2> QED BY <2>2, <2>3 DEF ConnectionsOK
<1>2. ASSUME NEW j \in Connections, Attempt(j) \/ Lost(j) PROVE ConnectionsOK'
  <2>1. conn' \in [Connections -> {"none", "connecting", "up", "waiting", "ended"}]
    BY <1>2 DEF Attempt, Connected, FirstFails, RetryFails, Retry, Lost, Goes, ConnectionsOK
  <2>2. first_attempt' \in [Connections -> BOOLEAN]
    BY <1>2 DEF Attempt, Connected, FirstFails, RetryFails, Retry, Lost, ConnectionsOK
  <2>3. UNCHANGED <<spawned, known>>
    BY <1>2 DEF Attempt, Connected, FirstFails, RetryFails, Retry, Lost
  <2> QED BY <2>1, <2>2, <2>3 DEF ConnectionsOK
<1>3. CASE UNCHANGED joining
  BY <1>3 DEF joining, ConnectionsOK
<1>4. ASSUME NEW c \in Buttons, Press(c) PROVE UNCHANGED joining
  BY <1>4 DEF Press
<1>5. StartServer \/ MarkRunning \/ StopServer \/ PairAndConnect \/ PairingFails \/ DisconnectClient
        => UNCHANGED joining
  BY DEF StartServer, MarkRunning, StopServer, PairAndConnect, PairingFails, DisconnectClient
<1>6. ASSUME NEW i \in Servers, Serve(i) \/ Tick(i) PROVE UNCHANGED joining
  BY <1>6 DEF Serve, Bind, BindFails, OpenPairing, ReportFailure, ListenerEnds, Tick
<1>7. UNCHANGED vars => UNCHANGED joining
  BY DEF vars
<1> QED BY <1>1, <1>2, <1>3, <1>4, <1>5, <1>6, <1>7 DEF Next, Handle

\* What the window shows.
LEMMA NextShownOK == TypeOK /\ [Next]_vars => ShownOK'
<1> SUFFICES ASSUME TypeOK, [Next]_vars PROVE ShownOK'
  OBVIOUS
<1>0. ShownOK /\ ConnectionsOK /\ ticking \subseteq pairs
  BY DEF TypeOK, ServersOK
<1>1. CASE StartServer
  <2>1. ticking \subseteq ticking' /\ UNCHANGED shown
    BY <1>0, <1>1 DEF StartServer
  <2> QED BY <1>0, <2>1 DEF shown, ShownOK
<1>2. ASSUME NEW i \in Servers, Tick(i) PROVE ShownOK'
  BY <1>0, <1>2 DEF Tick, serving, ShownOK
<1>3. ASSUME UNCHANGED <<pairing_pin, ticking>>,
             server_running' \in BOOLEAN, client_connected' \in BOOLEAN, pairing_required' \in BOOLEAN
      PROVE  ShownOK'
  BY <1>0, <1>3 DEF ShownOK
<1>4. CASE MarkRunning \/ StopServer \/ ConnectClient \/ Paired \/ DisconnectClient
  BY <1>0, <1>3, <1>4 DEF MarkRunning, StopServer, ConnectClient, Paired, DisconnectClient,
                          serving, ShownOK, ConnectionsOK
<1>5. ASSUME NEW i \in Servers, Serve(i) PROVE ShownOK'
  BY <1>0, <1>3, <1>5 DEF Serve, Bind, BindFails, OpenPairing, ReportFailure, ListenerEnds, shown, ShownOK
<1>6. ASSUME NEW j \in Connections, Attempt(j) \/ Lost(j) PROVE ShownOK'
  BY <1>0, <1>3, <1>6 DEF Attempt, Connected, FirstFails, RetryFails, Retry, Lost, serving, shown, ShownOK
<1>7. CASE UNCHANGED <<serving, shown>>
  BY <1>0, <1>7 DEF serving, shown, ShownOK
<1>8. ASSUME NEW c \in Buttons, Press(c) PROVE UNCHANGED <<serving, shown>>
  BY <1>8 DEF Press
<1>9. PairAndConnect \/ PairingFails => UNCHANGED <<serving, shown>>
  BY DEF PairAndConnect, PairingFails
<1>10. UNCHANGED vars => UNCHANGED <<serving, shown>>
  BY DEF vars
<1> QED BY <1>1, <1>2, <1>4, <1>5, <1>6, <1>7, <1>8, <1>9, <1>10 DEF Next, Handle

LEMMA NextTypeOK == TypeOK /\ [Next]_vars => TypeOK'
BY NextCommandsOK, NextServersOK, NextConnectionsOK, NextShownOK DEF TypeOK

\* Whatever is pressed, and whatever the tasks do, the program's state is of
\* its types: no port has two listeners, and a PIN shown is a server's.
THEOREM TypeCorrect == Spec => []TypeOK
BY InitTypeOK, NextTypeOK, PTL DEF Spec
-----------------------------------------------------------------------------
(* "Connected" is shown while a connection is up.                          *)

\* A task that has not been spawned has no connection.
NotSpawnedYet == \A j \in Connections : j > spawned => conn[j] = "none"

UpInv == ConnectionsOK /\ NotSpawnedYet /\ ShownConnectedIsUp

LEMMA NextUpInv == UpInv /\ [Next]_vars => UpInv'
<1> SUFFICES ASSUME UpInv, [Next]_vars PROVE NotSpawnedYet' /\ ShownConnectedIsUp'
  BY NextConnectionsOK DEF UpInv
<1>0. ConnectionsOK /\ NotSpawnedYet /\ ShownConnectedIsUp
  BY DEF UpInv
<1>1. CASE Spawn /\ UNCHANGED client_connected
  <2>1. /\ spawned \in Nat /\ spawned' = spawned + 1
        /\ \A j \in Connections : conn'[j] = (IF j = spawned + 1 THEN "connecting" ELSE conn[j])
    BY <1>0, <1>1 DEF Spawn, ConnectionsOK
  <2>2. \A j \in Connections : j \in Nat /\ (conn[j] = "up" => j # spawned + 1)
    BY <1>0, <2>1 DEF NotSpawnedYet, Connections
  <2>3. NotSpawnedYet'
    BY <1>0, <2>1, <2>2 DEF NotSpawnedYet
  <2>4. ShownConnectedIsUp'
    BY <1>0, <1>1, <2>1, <2>2 DEF ShownConnectedIsUp
  <2> QED BY <2>3, <2>4
<1>2. ASSUME NEW j \in Connections, Attempt(j) \/ Lost(j) PROVE NotSpawnedYet' /\ ShownConnectedIsUp'
  <2>1. /\ UNCHANGED spawned /\ conn[j] # "none"
        /\ \A k \in Connections \ {j} : conn'[k] = conn[k]
    BY <1>0, <1>2 DEF Attempt, Connected, FirstFails, RetryFails, Retry, Lost, Goes, ConnectionsOK
  <2>2. NotSpawnedYet'
    BY <1>0, <2>1 DEF NotSpawnedYet
  <2>3. \/ conn'[j] = "up"
        \/ client_connected' = FALSE
        \/ UNCHANGED client_connected /\ conn[j] # "up"
    BY <1>0, <1>2 DEF Attempt, Connected, FirstFails, RetryFails, Retry, Lost, Goes, ConnectionsOK, shown
  <2>4. ShownConnectedIsUp'
    BY <1>0, <2>1, <2>3 DEF ShownConnectedIsUp
  <2> QED BY <2>2, <2>4
<1>3. CASE UNCHANGED <<spawned, conn>> /\ (UNCHANGED client_connected \/ client_connected' = FALSE)
  BY <1>0, <1>3 DEF NotSpawnedYet, ShownConnectedIsUp
<1>4. ASSUME NEW c \in Buttons, Press(c) PROVE UNCHANGED <<spawned, conn, client_connected>>
  BY <1>4 DEF Press, joining, shown
<1>5. StartServer \/ MarkRunning \/ StopServer \/ PairAndConnect \/ PairingFails
        => UNCHANGED <<spawned, conn, client_connected>>
  BY DEF StartServer, MarkRunning, StopServer, PairAndConnect, PairingFails, joining, shown
<1>6. DisconnectClient => UNCHANGED <<spawned, conn>> /\ client_connected' = FALSE
  BY DEF DisconnectClient, joining
<1>7. ConnectClient \/ Paired =>
        (Spawn \/ UNCHANGED <<spawned, conn>>) /\ UNCHANGED client_connected
  BY DEF ConnectClient, Paired
<1>8. ASSUME NEW i \in Servers, Serve(i) \/ Tick(i) PROVE UNCHANGED <<spawned, conn, client_connected>>
  BY <1>8 DEF Serve, Bind, BindFails, OpenPairing, ReportFailure, ListenerEnds, Tick, joining, shown
<1>9. UNCHANGED vars => UNCHANGED <<spawned, conn, client_connected>>
  BY DEF vars, joining, shown
<1> QED BY <1>1, <1>2, <1>3, <1>4, <1>5, <1>6, <1>7, <1>8, <1>9 DEF Next, Handle

\* However many connection tasks write what is shown, it is never "connected"
\* when none of them is.
THEOREM ConnectedIsUp == Spec => []ShownConnectedIsUp
<1>1. Init => UpInv
  <2> SUFFICES ASSUME Init PROVE UpInv
    OBVIOUS
  <2>1. ConnectionsOK
    BY InitTypeOK DEF TypeOK
  <2>2. NotSpawnedYet /\ ShownConnectedIsUp
    BY DEF Init, NotSpawnedYet, ShownConnectedIsUp
  <2> QED BY <2>1, <2>2 DEF UpInv
<1>2. UpInv => ShownConnectedIsUp
  BY DEF UpInv
<1> QED BY <1>1, <1>2, NextUpInv, PTL DEF Spec

-----------------------------------------------------------------------------
(* The server's button.                                                    *)

\* As long as no start has failed: what is shown of the server is what the
\* handler holds, once it is through with StartServer.
ShownIsHeld ==
  ~failed =>
    IF handler = "starting" THEN server_shutdown = started /\ started # NoServer
    ELSE server_running <=> server_shutdown # NoServer

\* ... every server that was started has got past the start, and to its ports.
StartedServe ==
  ~failed => \A i \in Servers :
    /\ server[i] \notin {"failing", "ended"}
    /\ i <= started => server[i] # "none"

\* A server whose sender the handler holds was told nothing, and has its ports;
\* one that was not started has none.
HeldListens ==
  \A i \in Servers :
    /\ i > started => server[i] = "none" /\ listening[i] = {}
    /\ \A p \in Ports : <<i, p>> \in told => i <= started /\ server_shutdown # i
    /\ server_shutdown = i /\ server[i] \in {"opening", "serving"} => "control" \in listening[i]

ButtonInv == ServersOK /\ ShownIsHeld /\ StartedServe /\ HeldListens

\* They say what the button is to tell.
LEMMA ButtonInvSuffices == ButtonInv => ButtonTellsTheTruth
<1> SUFFICES ASSUME ButtonInv, ~failed, handler = "idle",
                    \A i \in Servers : server[i] \in {"none", "serving"} /\ (Closed(i) => listening[i] = {})
             PROVE  /\ server_running <=> server_shutdown # NoServer
                    /\ \A i \in Servers : "control" \in listening[i] <=> server_shutdown = i
  BY DEF ButtonTellsTheTruth
<1>1. ServersOK /\ ShownIsHeld /\ StartedServe /\ HeldListens
  BY DEF ButtonInv
<1>2. server_running <=> server_shutdown # NoServer
  BY <1>1 DEF ShownIsHeld
<1>3. ASSUME NEW i \in Servers, server_shutdown = i PROVE "control" \in listening[i]
  <2>1. i <= started
    BY <1>1, <1>3 DEF ServersOK
  <2>2. server[i] = "serving"
    BY <1>1, <2>1 DEF StartedServe
  <2> QED BY <1>1, <1>3, <2>2 DEF HeldListens
<1>4. ASSUME NEW i \in Servers, "control" \in listening[i] PROVE server_shutdown = i
  BY <1>4 DEF Closed
<1> QED BY <1>2, <1>3, <1>4
LEMMA NextButtonInv == ButtonInv /\ [Next]_vars => ButtonInv'
<1> SUFFICES ASSUME ButtonInv, [Next]_vars PROVE ShownIsHeld' /\ StartedServe' /\ HeldListens'
  BY NextServersOK DEF ButtonInv
<1>0. ServersOK /\ ShownIsHeld /\ StartedServe /\ HeldListens
  BY DEF ButtonInv
<1>1. CASE StartServer
  <2>1. /\ started' = started + 1 /\ server_shutdown' = started + 1 /\ started \in Nat
        /\ UNCHANGED <<listening, told, server_running>>
        /\ \/ failed' = TRUE /\ UNCHANGED <<handler, server>>
           \/ /\ server' = [server EXCEPT ![started + 1] = "binding"]
              /\ handler' = "starting" /\ UNCHANGED failed
    BY <1>0, <1>1 DEF StartServer, shown, ServersOK
  <2>2. \A i \in Servers : /\ i \in Nat
                           /\ i <= started' <=> i <= started \/ i = started + 1
                           /\ i > started' => i > started
                           /\ i = started + 1 => i > started
    BY <2>1 DEF Servers
  <2>3. ShownIsHeld'
    BY <2>1 DEF ShownIsHeld, NoServer
  <2>4. StartedServe'
    BY <1>0, <2>1, <2>2 DEF StartedServe, ServersOK
  <2>5. \A i \in Servers : i > started' => server'[i] = "none" /\ listening'[i] = {}
    BY <1>0, <2>1, <2>2 DEF HeldListens, ServersOK
  <2>6. \A i \in Servers : \A p \in Ports : <<i, p>> \in told' => i <= started' /\ server_shutdown' # i
    BY <1>0, <2>1, <2>2 DEF HeldListens
  <2>7. \A i \in Servers : ~(server_shutdown' = i /\ server'[i] \in {"opening", "serving"})
    BY <1>0, <2>1, <2>2 DEF HeldListens, ServersOK
  <2>8. HeldListens'
    BY <2>5, <2>6, <2>7 DEF HeldListens
  <2> QED BY <2>3, <2>4, <2>8
<1>2. CASE MarkRunning
  <2>1. handler = "starting" /\ handler' = "idle" /\ server_running' = TRUE /\ UNCHANGED serving
    BY <1>2 DEF MarkRunning
  <2>2. ShownIsHeld'
    BY <1>0, <2>1 DEF ShownIsHeld, serving
  <2> QED BY <1>0, <2>1, <2>2 DEF StartedServe, HeldListens, serving
<1>3. CASE StopServer
  <2>1. /\ handler = "idle" /\ server_shutdown' = NoServer /\ server_running' = FALSE
        /\ UNCHANGED <<handler, started, server, listening, failed>>
        /\ \A i \in Servers : \A p \in Ports : <<i, p>> \in told' => <<i, p>> \in told \/ i = server_shutdown
    BY <1>3 DEF StopServer, Take
  <2>2. \A i \in Servers : i # NoServer /\ (i = server_shutdown => i <= started)
    BY <1>0 DEF Servers, NoServer, ServersOK
  <2>3. ShownIsHeld' /\ StartedServe'
    BY <1>0, <2>1 DEF ShownIsHeld, StartedServe
  <2> QED BY <1>0, <2>1, <2>2, <2>3 DEF HeldListens
<1>4. CASE PairAndConnect \/ Paired \/ PairingFails
  <2>1. handler # "starting" /\ handler' # "starting" /\ UNCHANGED <<serving, server_running>>
    BY <1>4 DEF PairAndConnect, Paired, PairingFails, Take, shown
  <2> QED BY <1>0, <2>1 DEF ShownIsHeld, StartedServe, HeldListens, serving
<1>5. ASSUME NEW i \in Servers, Bind(i) PROVE ShownIsHeld' /\ StartedServe' /\ HeldListens'
  <2>1. /\ server[i] = "binding" /\ ~(i > started)
        /\ listening' = [listening EXCEPT ![i] = {"control", "data"}]
        /\ server' = [server EXCEPT ![i] = "opening"]
        /\ UNCHANGED <<handler, server_shutdown, started, told, failed, server_running>>
    BY <1>0, <1>5 DEF Bind, shown, HeldListens
  <2> QED BY <1>0, <2>1 DEF ShownIsHeld, StartedServe, HeldListens, ServersOK
<1>6. ASSUME NEW i \in Servers, OpenPairing(i) PROVE ShownIsHeld' /\ StartedServe' /\ HeldListens'
  <2>1. /\ server[i] = "opening" /\ ~(i > started)
        /\ \A j \in Servers : listening[j] \subseteq listening'[j] /\ (j # i => listening'[j] = listening[j])
        /\ server' = [server EXCEPT ![i] = "serving"]
        /\ UNCHANGED <<handler, server_shutdown, started, told, failed, server_running>>
    BY <1>0, <1>6 DEF OpenPairing, shown, HeldListens, ServersOK
  <2> QED BY <1>0, <2>1 DEF ShownIsHeld, StartedServe, HeldListens, ServersOK
<1>7. ASSUME NEW i \in Servers, BindFails(i) \/ ReportFailure(i)
      PROVE  ShownIsHeld' /\ StartedServe' /\ HeldListens'
  <2>1. failed'
    BY <1>0, <1>7 DEF BindFails, ReportFailure, StartedServe
  <2>2. /\ server[i] # "none" /\ server'[i] \in {"failing", "ended"}
        /\ \A j \in Servers \ {i} : server'[j] = server[j]
        /\ UNCHANGED <<server_shutdown, started, listening, told>>
    BY <1>0, <1>7 DEF BindFails, ReportFailure, ServersOK
  <2>3. HeldListens'
    BY <1>0, <2>2 DEF HeldListens
  <2> QED BY <2>1, <2>3 DEF ShownIsHeld, StartedServe
<1>8. ASSUME NEW i \in Servers, NEW p \in Ports, ListenerEnds(i, p)
      PROVE  ShownIsHeld' /\ StartedServe' /\ HeldListens'
  <2>1. /\ server_shutdown # i /\ p \in listening[i]
        /\ \A j \in Servers : listening'[j] = (IF j = i THEN listening[i] \ {p} ELSE listening[j])
        /\ told' \subseteq told
        /\ UNCHANGED <<handler, server_shutdown, started, server, failed, server_running>>
    BY <1>0, <1>8 DEF ListenerEnds, Closed, shown, HeldListens, ServersOK
  <2>2. HeldListens'
    BY <1>0, <2>1 DEF HeldListens
  <2> QED BY <1>0, <2>1, <2>2 DEF ShownIsHeld, StartedServe
<1>9. CASE UNCHANGED <<handler, serving, server_running>>
  BY <1>0, <1>9 DEF ShownIsHeld, StartedServe, HeldListens, serving
<1>10. ASSUME NEW c \in Buttons, Press(c) PROVE UNCHANGED <<handler, serving, server_running>>
  BY <1>10 DEF Press, shown
<1>11. ConnectClient \/ DisconnectClient => UNCHANGED <<handler, serving, server_running>>
  BY DEF ConnectClient, DisconnectClient
<1>12. ASSUME NEW i \in Servers, Tick(i) PROVE UNCHANGED <<handler, serving, server_running>>
  BY <1>12 DEF Tick
<1>13. ASSUME NEW j \in Connections, Attempt(j) \/ Lost(j)
       PROVE  UNCHANGED <<handler, serving, server_running>>
  BY <1>13 DEF Attempt, Connected, FirstFails, RetryFails, Retry, Lost, shown
<1>14. UNCHANGED vars => UNCHANGED <<handler, serving, server_running>>
  BY DEF vars, shown
<1> QED BY <1>1, <1>2, <1>3, <1>4, <1>5, <1>6, <1>7, <1>8, <1>9, <1>10, <1>11, <1>12, <1>13, <1>14
     DEF Next, Handle, Serve

\* As long as no start fails, the button offers to stop exactly if a server
\* takes clients, and that server is the one the stop would end.
THEOREM ButtonIsTrue == Spec => []ButtonTellsTheTruth
<1>1. Init => ButtonInv
  <2> SUFFICES ASSUME Init PROVE ButtonInv
    OBVIOUS
  <2>1. ServersOK
    BY InitTypeOK DEF TypeOK
  <2>2. started = 0 /\ \A i \in Servers : ~(i <= started) /\ i > started
    BY DEF Init, Servers
  <2> QED BY <2>1, <2>2 DEF Init, ButtonInv, ShownIsHeld, StartedServe, HeldListens, NoServer
<1> QED BY <1>1, NextButtonInv, ButtonInvSuffices, PTL DEF Spec
=============================================================================
