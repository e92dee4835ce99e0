------------------------- MODULE ServerRegistryProofs -------------------------
(***************************************************************************)
(* Proofs about ServerRegistry, for any devices and any finite number of   *)
(* connection attempts.                                                    *)
(***************************************************************************)
EXTENDS ServerRegistry, FiniteSetTheorems, TLAPS

-----------------------------------------------------------------------------
(* The listener never lags: an attempt is announced once and mourned once. *)

Announced == {a \in Attempts : ctrl[a] \in {"reading", "removing", "leaving", "done"}}
Mourned   == {a \in Attempts : ctrl[a] = "done"}

EventsAreCounted == Len(notify) <= Cardinality(Announced) + Cardinality(Mourned)

\* Both sets are finite, and no larger than the set of attempts.
LEMMA CountsAreBounded ==
  /\ Cardinality(Announced) \in Nat /\ Cardinality(Mourned) \in Nat
  /\ Cardinality(Announced) + Cardinality(Mourned) <= NotifyCap
<1>1. IsFiniteSet(Attempts) /\ Announced \subseteq Attempts /\ Mourned \subseteq Attempts
  BY NoLagAssumption DEF Announced, Mourned
<1>2. /\ IsFiniteSet(Announced) /\ Cardinality(Announced) <= Cardinality(Attempts)
      /\ IsFiniteSet(Mourned) /\ Cardinality(Mourned) <= Cardinality(Attempts)
  BY <1>1, FS_Subset
<1>3. Cardinality(Announced) \in Nat /\ Cardinality(Mourned) \in Nat /\ Cardinality(Attempts) \in Nat
  BY <1>1, <1>2, FS_CardinalityType
<1> QED BY <1>2, <1>3, NoLagAssumption

\* A task that changes its stage, and sends nothing, lowers no count.
LEMMA CountsOnlyGrow ==
  ASSUME Announced \subseteq Announced', Mourned \subseteq Mourned'
  PROVE  /\ Cardinality(Announced) <= Cardinality(Announced')
         /\ Cardinality(Mourned) <= Cardinality(Mourned')
<1>1. IsFiniteSet(Announced') /\ IsFiniteSet(Mourned')
  BY NoLagAssumption, FS_Subset DEF Announced, Mourned
<1> QED BY <1>1, FS_Subset

\* An attempt that joins one of the sets adds one to its count.
LEMMA CountGrows ==
  ASSUME NEW S, NEW a, IsFiniteSet(S), a \notin S
  PROVE  Cardinality(S \cup {a}) = Cardinality(S) + 1
BY FS_AddElement

-----------------------------------------------------------------------------
(* Type correctness.                                                       *)

Stages == {"none", "waiting", "refused", "leaving", "done"} \cup Serving
Events == [type : {"ClientConnected", "ClientDisconnected"}, name : Names]

LEMMA InitTypeOK == Init => TypeOK /\ EventsAreCounted
<1> SUFFICES ASSUME Init PROVE TypeOK /\ EventsAreCounted
  OBVIOUS
<1>1. notify \in Seq(Events) /\ Len(notify) = 0
  BY DEF Init
<1>2. /\ device \in [Attempts -> {"idle", "asking", "screened", "connected", "failed", "lost"}]
      /\ alive \in [Attempts -> BOOLEAN]
      /\ ctrl \in [Attempts -> Stages]
      /\ data \in [Attempts -> {"none", "open"}]
  BY DEF Init, Stages
<1>3. /\ pending_data \in [Names -> Attempts \cup {None}]
      /\ clients \in [Names -> [control_tx : Attempts, data_tx : Attempts] \cup {None}]
  BY DEF Init
<1>4. connected_clients \subseteq Names /\ has_client = (connected_clients # {})
  BY DEF Init
<1>5. Len(notify) <= NotifyCap
  BY <1>1, NoLagAssumption
<1>6. TypeOK
  BY <1>1, <1>2, <1>3, <1>4, <1>5 DEF TypeOK, Stages, Events
<1> QED BY <1>1, <1>6, CountsAreBounded DEF EventsAreCounted

\* A step that leaves notify alone keeps the count.
LEMMA QuietStep ==
  ASSUME EventsAreCounted, TypeOK, UNCHANGED notify,
         Announced \subseteq Announced', Mourned \subseteq Mourned'
  PROVE  EventsAreCounted' /\ Len(notify') <= NotifyCap
<1>1. Len(notify) \in Nat
  BY DEF TypeOK
<1>2. IsFiniteSet(Announced') /\ IsFiniteSet(Mourned')
  BY NoLagAssumption, FS_Subset DEF Announced, Mourned
<1>3. Cardinality(Announced') \in Nat /\ Cardinality(Mourned') \in Nat
  BY <1>2, FS_CardinalityType
<1> QED BY <1>1, <1>3, CountsAreBounded, CountsOnlyGrow DEF EventsAreCounted, TypeOK

\* Two bounded counts stay within the capacity of the channel, whatever they count.
LEMMA CountsAreBoundedNext ==
  /\ Cardinality(Announced') \in Nat /\ Cardinality(Mourned') \in Nat
  /\ Cardinality(Announced') + Cardinality(Mourned') <= NotifyCap
<1>1. IsFiniteSet(Attempts) /\ Announced' \subseteq Attempts /\ Mourned' \subseteq Attempts
  BY NoLagAssumption DEF Announced, Mourned
<1>2. /\ IsFiniteSet(Announced') /\ Cardinality(Announced') <= Cardinality(Attempts)
      /\ IsFiniteSet(Mourned') /\ Cardinality(Mourned') <= Cardinality(Attempts)
  BY <1>1, FS_Subset
<1>3. Cardinality(Announced') \in Nat /\ Cardinality(Mourned') \in Nat /\ Cardinality(Attempts) \in Nat
  BY <1>1, <1>2, FS_CardinalityType
<1> QED BY <1>2, <1>3, NoLagAssumption

\* The announcement is counted once.
LEMMA AnnounceIsCounted ==
  ASSUME TypeOK, EventsAreCounted, NEW a \in Attempts, Announce(a)
  PROVE  EventsAreCounted' /\ Len(notify') <= NotifyCap
<1>1. Len(notify) \in Nat /\ Len(notify') = Len(notify) + 1
  BY DEF TypeOK, Announce
<1>2. Announced' = Announced \cup {a} /\ a \notin Announced /\ Mourned' = Mourned
  BY DEF Announce, Become, Announced, Mourned, TypeOK
<1>3. IsFiniteSet(Announced)
  BY NoLagAssumption, FS_Subset DEF Announced
<1>4. Cardinality(Announced') = Cardinality(Announced) + 1 /\ Cardinality(Mourned') = Cardinality(Mourned)
  BY <1>2, <1>3, CountGrows
<1> QED BY <1>1, <1>4, CountsAreBounded, CountsAreBoundedNext, NoLagAssumption DEF EventsAreCounted

\* So is the departure.
LEMMA LeaveIsCounted ==
  ASSUME TypeOK, EventsAreCounted, NEW a \in Attempts, Leave(a)
  PROVE  EventsAreCounted' /\ Len(notify') <= NotifyCap
<1>1. Len(notify) \in Nat /\ Len(notify') = Len(notify) + 1
  BY DEF TypeOK, Leave
<1>2. Mourned' = Mourned \cup {a} /\ a \notin Mourned /\ Announced' = Announced
  BY DEF Leave, Become, Announced, Mourned, TypeOK
<1>3. IsFiniteSet(Mourned)
  BY NoLagAssumption, FS_Subset DEF Mourned
<1>4. Cardinality(Mourned') = Cardinality(Mourned) + 1 /\ Cardinality(Announced') = Cardinality(Announced)
  BY <1>2, <1>3, CountGrows
<1> QED BY <1>1, <1>4, CountsAreBounded, CountsAreBoundedNext, NoLagAssumption DEF EventsAreCounted

\* The listener only takes events off the channel.
LEMMA ListenIsCounted ==
  ASSUME TypeOK, EventsAreCounted, Listen
  PROVE  EventsAreCounted' /\ Len(notify') <= NotifyCap
<1>1. Len(notify) \in Nat /\ Len(notify') = Len(notify) - 1
  BY DEF TypeOK, Listen, ListenConnected, ListenDisconnected
<1>2. Announced' = Announced /\ Mourned' = Mourned
  BY DEF Listen, ListenConnected, ListenDisconnected, Announced, Mourned
<1> QED BY <1>1, <1>2, CountsAreBounded, NoLagAssumption DEF EventsAreCounted

\* Every step preserves the types and the count.
LEMMA NextTypeOK == TypeOK /\ EventsAreCounted /\ [Next]_vars => TypeOK' /\ EventsAreCounted'
<1> SUFFICES ASSUME TypeOK, EventsAreCounted, [Next]_vars PROVE TypeOK' /\ EventsAreCounted'
  OBVIOUS
<1> USE NameOfAssumption
<1>1. ASSUME NEW a \in Attempts, Ask(a) \/ Fail(a) \/ ConnectData(a) \/ Lose(a) \/ Break(a)
      PROVE  TypeOK' /\ EventsAreCounted'
  <2>1. UNCHANGED <<notify, ctrl>>
    BY <1>1 DEF Ask, Fail, ConnectData, Lose, Break, heard
  <2>2. EventsAreCounted' /\ Len(notify') <= NotifyCap
    BY <2>1, QuietStep DEF Announced, Mourned
  <2> QED BY <1>1, <2>2 DEF TypeOK, Ask, Fail, ConnectData, Lose, Break, maps, heard
<1>2. ASSUME NEW a \in Attempts, AcceptData(a) PROVE TypeOK' /\ EventsAreCounted'
  <2>1. UNCHANGED <<notify, ctrl>>
    BY <1>2 DEF AcceptData, heard
  <2>2. EventsAreCounted' /\ Len(notify') <= NotifyCap
    BY <2>1, QuietStep DEF Announced, Mourned
  <2>3. pending_data' \in [Names -> Attempts \cup {None}]
    BY <1>2 DEF TypeOK, AcceptData
  <2> QED BY <1>2, <2>2, <2>3 DEF TypeOK, AcceptData, heard
<1>3. ASSUME NEW a \in Attempts,
             AcceptControl(a) \/ Register(a) \/ GiveUp(a) \/ StopReading(a) \/ Remove(a)
      PROVE  TypeOK' /\ EventsAreCounted'
  <2>1. UNCHANGED notify /\ Announced \subseteq Announced' /\ Mourned \subseteq Mourned'
    BY <1>3 DEF AcceptControl, Register, GiveUp, StopReading, Remove, Become, heard,
                Announced, Mourned, TypeOK
  <2>2. EventsAreCounted' /\ Len(notify') <= NotifyCap
    BY <2>1, QuietStep
  <2>3. ctrl' \in [Attempts -> Stages]
    BY <1>3 DEF AcceptControl, Register, GiveUp, StopReading, Remove, Become, TypeOK, Stages, Serving
  <2>4. /\ pending_data' \in [Names -> Attempts \cup {None}]
        /\ clients' \in [Names -> [control_tx : Attempts, data_tx : Attempts] \cup {None}]
    <3>1. CASE Register(a)
      <4>1. Client(a, pending_data[NameOf[a]]) \in [control_tx : Attempts, data_tx : Attempts]
        BY <3>1 DEF Register, Client, TypeOK
      <4> QED BY <3>1, <4>1 DEF Register, TypeOK
    <3>2. CASE ~Register(a)
      BY <1>3, <3>2 DEF AcceptControl, GiveUp, StopReading, Remove, maps, TypeOK
    <3> QED BY <3>1, <3>2
  <2> QED BY <1>3, <2>2, <2>3, <2>4
       DEF TypeOK, Stages, AcceptControl, Register, GiveUp, StopReading, Remove, heard
<1>4. ASSUME NEW a \in Attempts, Announce(a) PROVE TypeOK' /\ EventsAreCounted'
  <2>1. EventsAreCounted' /\ Len(notify') <= NotifyCap
    BY <1>4, AnnounceIsCounted
  <2>2. ctrl' \in [Attempts -> Stages] /\ notify' \in Seq(Events)
    BY <1>4 DEF Announce, Become, ClientConnected, TypeOK, Stages, Serving, Events
  <2> QED BY <1>4, <2>1, <2>2 DEF TypeOK, Stages, Events, Announce, maps
<1>5. ASSUME NEW a \in Attempts, Leave(a) PROVE TypeOK' /\ EventsAreCounted'
  <2>1. EventsAreCounted' /\ Len(notify') <= NotifyCap
    BY <1>5, LeaveIsCounted
  <2>2. ctrl' \in [Attempts -> Stages] /\ notify' \in Seq(Events)
    BY <1>5 DEF Leave, Become, ClientDisconnected, TypeOK, Stages, Serving, Events
  <2> QED BY <1>5, <2>1, <2>2 DEF TypeOK, Stages, Events, Leave, maps
<1>6. CASE Listen
  <2>1. EventsAreCounted' /\ Len(notify') <= NotifyCap
    BY <1>6, ListenIsCounted
  <2>2. notify' \in Seq(Events) /\ Head(notify) \in Events
    <3>1. notify \in Seq(Events) /\ notify # <<>> /\ notify' = Tail(notify)
      BY <1>6 DEF Listen, ListenConnected, ListenDisconnected, TypeOK, Events
    <3> QED BY <3>1
  <2>3. connected_clients' \subseteq Names
    BY <1>6, <2>2 DEF Listen, ListenConnected, ListenDisconnected, TypeOK, Events
  <2>4. has_client' = (connected_clients' # {})
    BY <1>6 DEF Listen, ListenConnected, ListenDisconnected, TypeOK
  <2> QED BY <1>6, <2>1, <2>2, <2>3, <2>4
       DEF TypeOK, Events, Listen, ListenConnected, ListenDisconnected, maps
<1>7. CASE UNCHANGED vars
  <2>1. EventsAreCounted' /\ Len(notify') <= NotifyCap
    BY <1>7, QuietStep DEF vars, heard, Announced, Mourned
  <2> QED BY <1>7, <2>1 DEF TypeOK, vars, maps, heard
<1> QED BY <1>1, <1>2, <1>3, <1>4, <1>5, <1>6, <1>7 DEF Next, ControlTask

\* The registry's state is of its types, and its listener never lags behind
\* the notification channel: main.rs:192 never ends its loop.
THEOREM TypeCorrect == Spec => []TypeOK
<1>1. Init => TypeOK /\ EventsAreCounted
  BY InitTypeOK
<1>2. TypeOK /\ EventsAreCounted /\ [Next]_vars => (TypeOK /\ EventsAreCounted)'
  BY NextTypeOK
<1> QED BY <1>1, <1>2, PTL DEF Spec

-----------------------------------------------------------------------------
(* Registered entries.                                                     *)

\* A registered entry points at the task that registered it: another task of
\* the same device may remove it, and never leaves it behind.
LEMMA NextEntryHasItsTask == TypeOK /\ EntryHasItsTask /\ [Next]_vars => EntryHasItsTask'
<1> SUFFICES ASSUME TypeOK, EntryHasItsTask, [Next]_vars,
                    NEW n \in Names, clients'[n] # None
             PROVE  /\ NameOf[clients'[n].control_tx] = n
                    /\ ctrl'[clients'[n].control_tx] \in Serving
  BY DEF EntryHasItsTask
<1> USE NameOfAssumption
<1>1. CASE clients'[n] # clients[n]
  <2>1. PICK a \in Attempts : Register(a) \/ Remove(a)
    BY <1>1 DEF Next, ControlTask, Ask, Fail, ConnectData, Lose, Break, AcceptData, AcceptControl, GiveUp,
                Announce, StopReading, Leave, Listen, ListenConnected, ListenDisconnected, maps, vars
  <2>2. Register(a) /\ n = NameOf[a]
    BY <1>1, <2>1 DEF Register, Remove, TypeOK
  <2>3. clients'[n].control_tx = a /\ ctrl'[a] = "registered"
    BY <2>2 DEF Register, Become, Client, TypeOK
  <2> QED BY <2>2, <2>3 DEF Serving
<1>2. CASE clients'[n] = clients[n]
  <2> DEFINE c == clients[n].control_tx
  <2>1. c \in Attempts /\ NameOf[c] = n /\ ctrl[c] \in Serving
    BY <1>2 DEF TypeOK, EntryHasItsTask
  <2>2. CASE ctrl'[c] = ctrl[c]
    BY <1>2, <2>1, <2>2
  <2>3. CASE ctrl'[c] # ctrl[c]
    <3>1. ControlTask(c)
      BY <2>1, <2>3 DEF Next, ControlTask, Ask, Fail, ConnectData, Lose, Break, AcceptData, AcceptControl,
                        Register, GiveUp, Announce, StopReading, Remove, Leave, Become,
                        Listen, ListenConnected, ListenDisconnected, vars, TypeOK
    <3>2. Announce(c) \/ StopReading(c) \/ Remove(c)
      BY <2>1, <3>1 DEF ControlTask, AcceptControl, Register, GiveUp, Leave, Serving
    <3>3. ~Remove(c)
      BY <1>2, <2>1 DEF Remove, TypeOK
    <3>4. ctrl'[c] \in {"reading", "removing"}
      BY <2>1, <3>2, <3>3 DEF Announce, StopReading, Become, TypeOK
    <3> QED BY <1>2, <2>1, <3>4 DEF Serving
  <2> QED BY <2>2, <2>3
<1> QED BY <1>1, <1>2

\* Whoever is registered has a task that will remove the entry.
THEOREM EntriesHaveTheirTasks == Spec => []EntryHasItsTask
<1>1. Init => EntryHasItsTask
  BY DEF Init, EntryHasItsTask
<1> QED BY <1>1, NextEntryHasItsTask, TypeCorrect, PTL DEF Spec

\* A sender, waiting or handed out, belongs to a data connection that was made.
SendersStand ==
  \A n \in Names :
    /\ pending_data[n] # None => data[pending_data[n]] = "open"
    /\ clients[n] # None => data[clients[n].data_tx] = "open"

LEMMA NextHandedOut ==
  TypeOK /\ SendersStand /\ DataIsHandedOutOnce /\ [Next]_vars
    => SendersStand' /\ DataIsHandedOutOnce'
<1> SUFFICES ASSUME TypeOK, SendersStand, DataIsHandedOutOnce, [Next]_vars
             PROVE  SendersStand' /\ DataIsHandedOutOnce'
  OBVIOUS
<1> USE NameOfAssumption
<1>1. ASSUME NEW a \in Attempts, AcceptData(a) PROVE SendersStand' /\ DataIsHandedOutOnce'
  <2>1. /\ data[a] = "none"
        /\ \A b \in Attempts : data'[b] = (IF b = a THEN "open" ELSE data[b])
        /\ \A n \in Names : pending_data'[n] = (IF n = NameOf[a] THEN a ELSE pending_data[n])
        /\ UNCHANGED clients
    BY <1>1 DEF AcceptData, TypeOK
  <2>2. \A n \in Names :
          /\ pending_data[n] # None => pending_data[n] \in Attempts
          /\ clients[n] # None => clients[n].data_tx \in Attempts
    BY DEF TypeOK
  <2> QED BY <2>1, <2>2 DEF SendersStand, DataIsHandedOutOnce
<1>2. ASSUME NEW a \in Attempts, Register(a) PROVE SendersStand' /\ DataIsHandedOutOnce'
  <2>1. /\ pending_data[NameOf[a]] # None
        /\ pending_data'[NameOf[a]] = None
        /\ clients'[NameOf[a]].data_tx = pending_data[NameOf[a]]
        /\ \A n \in Names \ {NameOf[a]} : pending_data'[n] = pending_data[n] /\ clients'[n] = clients[n]
        /\ UNCHANGED data
    BY <1>2 DEF Register, Client, TypeOK
  <2> QED BY <2>1 DEF SendersStand, DataIsHandedOutOnce
<1>3. ASSUME NEW a \in Attempts, Remove(a) PROVE SendersStand' /\ DataIsHandedOutOnce'
  <2>1. /\ \A n \in Names : clients'[n] = (IF n = NameOf[a] THEN None ELSE clients[n])
        /\ UNCHANGED <<data, pending_data>>
    BY <1>3 DEF Remove, TypeOK
  <2> QED BY <2>1 DEF SendersStand, DataIsHandedOutOnce
<1>4. CASE UNCHANGED <<data, maps>>
  BY <1>4 DEF SendersStand, DataIsHandedOutOnce, maps
<1> QED BY <1>1, <1>2, <1>3, <1>4
     DEF Next, ControlTask, Ask, Fail, ConnectData, Lose, Break, AcceptControl, GiveUp,
         Announce, StopReading, Leave, Listen, ListenConnected, ListenDisconnected, vars

\* A data connection serves one control connection, however attempts overlap.
THEOREM DataHandedOutOnce == Spec => []DataIsHandedOutOnce
<1>1. Init => SendersStand /\ DataIsHandedOutOnce
  BY DEF Init, SendersStand, DataIsHandedOutOnce
<1> QED BY <1>1, NextHandedOut, TypeCorrect, PTL DEF Spec

-----------------------------------------------------------------------------
(* Nobody stays on the list for ever.                                      *)

\* An arrival the listener has yet to see is followed by a departure, on the
\* channel or to be sent.
ArrivalsAreMourned ==
  \A i \in DOMAIN notify : \A n \in Names : notify[i] = ClientConnected(n) =>
    \/ \E j \in DOMAIN notify : j > i /\ notify[j] = ClientDisconnected(n)
    \/ WillBeTold(n)

\* Who is to be told of a departure stays so until the departure is sent.
LEMMA TellingLasts ==
  ASSUME TypeOK, [Next]_vars, NEW n \in Names, WillBeTold(n)
  PROVE  \/ WillBeTold(n)'
         \/ notify' = Append(notify, ClientDisconnected(n))
<1>1. PICK a \in Attempts : NameOf[a] = n /\ ctrl[a] \in {"reading", "removing", "leaving"}
  BY DEF WillBeTold
<1>2. CASE Leave(a)
  BY <1>1, <1>2 DEF Leave
<1>3. CASE ~Leave(a)
  <2>1. CASE ctrl'[a] = ctrl[a]
    BY <1>1, <2>1 DEF WillBeTold
  <2>2. CASE ctrl'[a] # ctrl[a]
    <3>1. ControlTask(a)
      BY <1>1, <2>2 DEF Next, ControlTask, Ask, Fail, ConnectData, Lose, Break, AcceptData, AcceptControl,
                        Register, GiveUp, Announce, StopReading, Remove, Leave, Become,
                        Listen, ListenConnected, ListenDisconnected, vars, TypeOK
    <3>2. StopReading(a) \/ Remove(a)
      BY <1>1, <1>3, <3>1 DEF ControlTask, AcceptControl, Register, GiveUp, Announce
    <3>3. ctrl'[a] \in {"removing", "leaving"}
      BY <1>1, <3>2 DEF StopReading, Remove, Become, TypeOK
    <3> QED BY <1>1, <3>3 DEF WillBeTold
  <2> QED BY <2>1, <2>2
<1> QED BY <1>2, <1>3

\* What is on the channel is an arrival or a departure, never both.
LEMMA EventsDiffer ==
  \A m, n : ClientConnected(m) # ClientDisconnected(n)
BY DEF ClientConnected, ClientDisconnected

LEMMA NextNoGhost ==
  TypeOK /\ TypeOK' /\ ArrivalsAreMourned /\ NoGhost /\ [Next]_vars
    => ArrivalsAreMourned' /\ NoGhost'
<1> SUFFICES ASSUME TypeOK, TypeOK', ArrivalsAreMourned, NoGhost, [Next]_vars
             PROVE  ArrivalsAreMourned' /\ NoGhost'
  OBVIOUS
<1> USE NameOfAssumption
<1>1. notify \in Seq(Events) /\ notify' \in Seq(Events) /\ connected_clients \subseteq Names
  BY DEF TypeOK, Events
\* The listener takes the head; a departure behind it stays behind.
<1>2. CASE Listen
  <2>1. notify # <<>> /\ notify' = Tail(notify) /\ UNCHANGED ctrl
    BY <1>2 DEF Listen, ListenConnected, ListenDisconnected
  <2>2. \A n \in Names : WillBeTold(n)' <=> WillBeTold(n)
    BY <2>1 DEF WillBeTold
  <2>3. /\ DOMAIN notify = 1 .. Len(notify) /\ DOMAIN notify' = 1 .. (Len(notify) - 1)
        /\ Len(notify) \in Nat /\ Len(notify) > 0
        /\ \A i \in DOMAIN notify' : notify'[i] = notify[i + 1]
        /\ Head(notify) = notify[1] /\ notify[1] \in Events
    BY <1>1, <2>1
  <2>4. ArrivalsAreMourned'
    <3> SUFFICES ASSUME NEW i \in DOMAIN notify', NEW n \in Names, notify'[i] = ClientConnected(n),
                        ~WillBeTold(n)
                 PROVE  \E j \in DOMAIN notify' : j > i /\ notify'[j] = ClientDisconnected(n)
      BY <2>2 DEF ArrivalsAreMourned, ClientConnected, ClientDisconnected
    <3>1. i + 1 \in DOMAIN notify /\ notify[i + 1] = ClientConnected(n)
      BY <2>3
    <3>2. PICK j \in DOMAIN notify : j > i + 1 /\ notify[j] = ClientDisconnected(n)
      BY <3>1 DEF ArrivalsAreMourned
    <3>3. j - 1 \in DOMAIN notify' /\ j - 1 > i /\ notify'[j - 1] = notify[j]
      BY <2>3, <3>2
    <3> QED BY <3>2, <3>3
  <2>5. NoGhost'
    <3> SUFFICES ASSUME NEW n \in connected_clients', ~WillBeTold(n)
                 PROVE  \E j \in DOMAIN notify' : notify'[j] = ClientDisconnected(n)
      BY <2>2, <1>1 DEF NoGhost, WillBeHeard, TypeOK, ClientDisconnected
    <3>1. \E j \in DOMAIN notify : j > 1 /\ notify[j] = ClientDisconnected(n)
      <4>1. CASE ListenConnected /\ n = Head(notify).name
        <5>1. n \in Names /\ notify[1] = ClientConnected(n)
          BY <2>3, <4>1 DEF ListenConnected, ClientConnected, Events
        <5>2. 1 \in DOMAIN notify
          BY <2>3
        <5> QED BY <5>1, <5>2 DEF ArrivalsAreMourned
      <4>2. CASE n \in connected_clients /\ Head(notify) # ClientDisconnected(n)
        <5>1. PICK j \in DOMAIN notify : notify[j] = ClientDisconnected(n)
          BY <4>2 DEF NoGhost, WillBeHeard
        <5>2. j # 1
          BY <2>3, <4>2, <5>1
        <5> QED BY <2>3, <5>1, <5>2
      <4>3. CASE ListenDisconnected
        <5>1. n \in connected_clients /\ Head(notify).name # n
          BY <4>3 DEF ListenDisconnected
        <5> QED BY <4>2, <5>1 DEF ClientDisconnected
      <4>4. CASE ListenConnected /\ n # Head(notify).name
        <5>1. n \in connected_clients /\ Head(notify).type = "ClientConnected"
          BY <4>4 DEF ListenConnected
        <5> QED BY <4>2, <5>1 DEF ClientDisconnected
      <4> QED BY <1>2, <4>1, <4>3, <4>4 DEF Listen
    <3>2. PICK j \in DOMAIN notify : j > 1 /\ notify[j] = ClientDisconnected(n)
      BY <3>1
    <3>3. j - 1 \in DOMAIN notify' /\ notify'[j - 1] = notify[j]
      BY <2>3, <3>2
    <3> QED BY <3>2, <3>3
  <2> QED BY <2>4, <2>5
\* A task adds one event at the end.
<1>3. ASSUME NEW a \in Attempts, Announce(a) \/ Leave(a)
      PROVE  ArrivalsAreMourned' /\ NoGhost'
  <2> DEFINE e == IF Announce(a) THEN ClientConnected(NameOf[a]) ELSE ClientDisconnected(NameOf[a])
  <2>1. notify' = Append(notify, e) /\ e \in Events /\ UNCHANGED connected_clients
    BY <1>3 DEF Announce, Leave, ClientConnected, ClientDisconnected, Events
  <2> HIDE DEF e
  <2>2. /\ DOMAIN notify = 1 .. Len(notify) /\ DOMAIN notify' = 1 .. (Len(notify) + 1)
        /\ Len(notify) \in Nat
        /\ \A i \in DOMAIN notify : notify'[i] = notify[i]
        /\ notify'[Len(notify) + 1] = e
    BY <1>1, <2>1
  <2>3. \A n \in Names : WillBeTold(n) =>
          WillBeTold(n)' \/ notify'[Len(notify) + 1] = ClientDisconnected(n)
    <3> SUFFICES ASSUME NEW n \in Names, WillBeTold(n), ~WillBeTold(n)'
                 PROVE  notify'[Len(notify) + 1] = ClientDisconnected(n)
      OBVIOUS
    <3>1. notify' = Append(notify, ClientDisconnected(n))
      BY TellingLasts
    <3>2. ClientDisconnected(n) \in Events
      BY DEF ClientDisconnected, Events
    <3> QED BY <1>1, <3>1, <3>2
  <2>4. \A n \in Names : e = ClientConnected(n) => WillBeTold(n)'
    <3> SUFFICES ASSUME NEW n \in Names, e = ClientConnected(n) PROVE WillBeTold(n)'
      OBVIOUS
    <3>1. Announce(a) /\ n = NameOf[a]
      BY DEF e, ClientConnected, ClientDisconnected
    <3> QED BY <3>1 DEF Announce, Become, WillBeTold, TypeOK
  <2>5. ArrivalsAreMourned'
    <3> SUFFICES ASSUME NEW i \in DOMAIN notify', NEW n \in Names, notify'[i] = ClientConnected(n),
                        ~WillBeTold(n)'
                 PROVE  \E j \in DOMAIN notify' : j > i /\ notify'[j] = ClientDisconnected(n)
      BY DEF ArrivalsAreMourned, ClientConnected, ClientDisconnected
    <3>1. i \in DOMAIN notify /\ notify[i] = ClientConnected(n)
      BY <2>2, <2>4
    <3>2. CASE WillBeTold(n)
      BY <2>2, <2>3, <3>1, <3>2
    <3>3. CASE ~WillBeTold(n)
      BY <2>2, <3>1, <3>3 DEF ArrivalsAreMourned
    <3> QED BY <3>2, <3>3
  <2>6. NoGhost'
    <3> SUFFICES ASSUME NEW n \in connected_clients, ~WillBeTold(n)'
                 PROVE  \E j \in DOMAIN notify' : notify'[j] = ClientDisconnected(n)
      BY <2>1 DEF NoGhost, WillBeHeard, ClientDisconnected
    <3>1. CASE WillBeTold(n)
      BY <1>1, <2>2, <2>3, <3>1
    <3>2. CASE ~WillBeTold(n)
      BY <2>2, <3>2 DEF NoGhost, WillBeHeard
    <3> QED BY <3>1, <3>2
  <2> QED BY <2>5, <2>6
\* Everybody else leaves the channel and the list alone.
<1>4. CASE UNCHANGED <<notify, connected_clients>>
  <2>1. \A n \in Names : WillBeTold(n) => WillBeTold(n)'
    <3> SUFFICES ASSUME NEW n \in Names, WillBeTold(n) PROVE WillBeTold(n)'
      OBVIOUS
    <3>1. notify' # Append(notify, ClientDisconnected(n))
      <4>1. ClientDisconnected(n) \in Events
        BY DEF ClientDisconnected, Events
      <4>2. Len(Append(notify, ClientDisconnected(n))) = Len(notify) + 1 /\ Len(notify) \in Nat
        BY <1>1, <4>1
      <4> QED BY <1>4, <4>2
    <3> QED BY <3>1, TellingLasts
  <2>2. ArrivalsAreMourned'
    BY <1>4, <2>1 DEF ArrivalsAreMourned, ClientConnected, ClientDisconnected
  <2>3. NoGhost'
    BY <1>1, <1>4, <2>1 DEF NoGhost, WillBeHeard, ClientDisconnected
  <2> QED BY <2>2, <2>3
<1> QED BY <1>2, <1>3, <1>4
     DEF Next, ControlTask, Ask, Fail, ConnectData, Lose, Break, AcceptData, AcceptControl, Register,
         GiveUp, StopReading, Remove, heard, vars

\* Whoever is on the list will be taken off it, once the tasks have run.
THEOREM NobodyStaysListed == Spec => []NoGhost
<1>1. Init => ArrivalsAreMourned /\ NoGhost
  BY DEF Init, ArrivalsAreMourned, NoGhost
<1> QED BY <1>1, NextNoGhost, TypeCorrect, PTL DEF Spec
=============================================================================
