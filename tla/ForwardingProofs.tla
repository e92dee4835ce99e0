--------------------------- MODULE ForwardingProofs ---------------------------
(***************************************************************************)
(* Proofs about Forwarding, for any set of clients, any transfers and any  *)
(* capacity of the data channels.                                          *)
(***************************************************************************)
EXTENDS Forwarding, SequenceTheorems, TLAPS

-----------------------------------------------------------------------------
(* A queue in which everybody stands at most once.                         *)

In(x, q) == \E i \in DOMAIN q : q[i] = x

\* Who joins stands there, and so do the others.
LEMMA Joining ==
  ASSUME NEW S, NEW q \in Seq(S), NEW x \in S, IsInjective(q), ~In(x, q)
  PROVE  /\ Append(q, x) \in Seq(S) /\ IsInjective(Append(q, x))
         /\ \A y : In(y, Append(q, x)) <=> In(y, q) \/ y = x
<1>1. /\ Append(q, x) \in Seq(S)
      /\ Len(q) \in Nat /\ DOMAIN q = 1 .. Len(q)
      /\ DOMAIN Append(q, x) = 1 .. (Len(q) + 1)
      /\ \A i \in 1 .. Len(q) : Append(q, x)[i] = q[i]
      /\ Append(q, x)[Len(q) + 1] = x
  BY LenProperties, AppendProperties
<1>2. IsInjective(Append(q, x))
  BY <1>1 DEF IsInjective, In
<1>3. ASSUME NEW y, In(y, q) \/ y = x PROVE In(y, Append(q, x))
  <2>1. Len(q) + 1 \in 1 .. (Len(q) + 1)
    BY <1>1
  <2> QED BY <1>1, <1>3, <2>1 DEF In
<1>4. ASSUME NEW y, In(y, Append(q, x)) PROVE In(y, q) \/ y = x
  BY <1>1, <1>4 DEF In
<1> QED BY <1>1, <1>2, <1>3, <1>4

\* Who is served stands there no longer, and everybody else does.
LEMMA BeingServed ==
  ASSUME NEW S, NEW q \in Seq(S), q # <<>>, IsInjective(q)
  PROVE  /\ Tail(q) \in Seq(S) /\ IsInjective(Tail(q))
         /\ Head(q) \in S /\ In(Head(q), q)
         /\ \A y : In(y, Tail(q)) <=> In(y, q) /\ y # Head(q)
<1>1. /\ Tail(q) \in Seq(S) /\ Head(q) \in S /\ Head(q) = q[1]
      /\ Len(q) \in Nat /\ Len(q) # 0 /\ DOMAIN q = 1 .. Len(q)
      /\ DOMAIN Tail(q) = 1 .. (Len(q) - 1)
      /\ \A i \in 1 .. (Len(q) - 1) : Tail(q)[i] = q[i + 1]
  BY LenProperties, EmptySeq, HeadTailProperties
<1>2. 1 \in DOMAIN q /\ \A i \in 1 .. (Len(q) - 1) : i + 1 \in DOMAIN q /\ i + 1 # 1
  BY <1>1
<1>3. IsInjective(Tail(q))
  <2> SUFFICES ASSUME NEW i \in DOMAIN Tail(q), NEW j \in DOMAIN Tail(q), Tail(q)[i] = Tail(q)[j]
               PROVE  i = j
    BY DEF IsInjective
  <2>1. q[i + 1] = q[j + 1] /\ i + 1 \in DOMAIN q /\ j + 1 \in DOMAIN q
    BY <1>1, <1>2
  <2>2. i + 1 = j + 1
    BY <2>1 DEF IsInjective
  <2> QED BY <1>1, <2>2
<1>4. ASSUME NEW y, In(y, Tail(q)) PROVE In(y, q) /\ y # Head(q)
  <2>1. PICK i \in 1 .. (Len(q) - 1) : y = q[i + 1]
    BY <1>1, <1>4 DEF In
  <2> QED BY <1>1, <1>2, <2>1 DEF In, IsInjective
<1>5. ASSUME NEW y, In(y, q), y # Head(q) PROVE In(y, Tail(q))
  <2>1. PICK i \in DOMAIN q : q[i] = y /\ i # 1
    BY <1>1, <1>5 DEF In
  <2>2. i - 1 \in DOMAIN Tail(q) /\ Tail(q)[i - 1] = y
    BY <1>1, <2>1
  <2> QED BY <2>2 DEF In
<1> QED BY <1>1, <1>2, <1>3, <1>4, <1>5 DEF In
-----------------------------------------------------------------------------
(* The queue and the map.                                                  *)

\* What a step does to the queue: nothing, or one that does not stand in it
\* joins, or its head is served.
Unchanged == UNCHANGED queue
Joins(x)  == ~Waits(x) /\ queue' = Append(queue, x)
Served(x) == queue # <<>> /\ Head(queue) = x /\ queue' = Tail(queue)

LEMMA QueueSteps ==
  ASSUME TypeOK, IsInjective(queue), NEW x \in Clients \cup Forwarders
  PROVE  /\ Joins(x) => /\ queue' \in Seq(Clients \cup Forwarders) /\ IsInjective(queue')
                        /\ \A y : Waits(y)' <=> Waits(y) \/ y = x
         /\ Served(x) => /\ queue' \in Seq(Clients \cup Forwarders) /\ IsInjective(queue') /\ Waits(x)
                         /\ \A y : Waits(y)' <=> Waits(y) /\ y # x
<1>1. queue \in Seq(Clients \cup Forwarders)
  BY DEF TypeOK
<1>2. \A y : (Waits(y) <=> In(y, queue)) /\ (Waits(y)' <=> In(y, queue'))
  BY DEF Waits, In
<1>3. ASSUME Joins(x)
      PROVE  /\ queue' \in Seq(Clients \cup Forwarders) /\ IsInjective(queue')
             /\ \A y : Waits(y)' <=> Waits(y) \/ y = x
  BY <1>1, <1>2, <1>3, Joining DEF Joins
<1>4. ASSUME Served(x)
      PROVE  /\ queue' \in Seq(Clients \cup Forwarders) /\ IsInjective(queue') /\ Waits(x)
             /\ \A y : Waits(y)' <=> Waits(y) /\ y # x
  BY <1>1, <1>2, <1>4, BeingServed DEF Served
<1> QED BY <1>3, <1>4

LEMMA NextQueueMatches == TypeOK /\ QueueMatchesStages /\ [Next]_vars => QueueMatchesStages'
<1> SUFFICES ASSUME TypeOK, QueueMatchesStages, [Next]_vars PROVE QueueMatchesStages'
  OBVIOUS
<1> USE ClientsAssumption
<1>0. IsInjective(queue)
  BY DEF QueueMatchesStages
\* Nobody's stage changes, and no client moves in the queue.
<1>1. ASSUME NEW f \in Forwarders, Idle(f), queue' = Append(queue, f), UNCHANGED <<stage, readers, clients>>
      PROVE  QueueMatchesStages'
  <2>1. IsInjective(queue') /\ \A y : Waits(y)' <=> Waits(y) \/ y = f
    BY <1>0, <1>1, QueueSteps DEF Idle, Joins
  <2> QED BY <1>1, <2>1 DEF QueueMatchesStages, Idle, TypeOK
<1>2. ASSUME NEW f \in Forwarders, LockRead(f) PROVE QueueMatchesStages'
  <2>1. IsInjective(queue') /\ Waits(f) /\ \A y : Waits(y)' <=> Waits(y) /\ y # f
    BY <1>0, <1>2, QueueSteps DEF LockRead, Served
  <2> QED BY <1>2, <2>1 DEF LockRead, QueueMatchesStages, TypeOK
<1>3. ASSUME NEW f \in Forwarders, Unlock(f) PROVE QueueMatchesStages'
  <2>1. \A y : Waits(y)' <=> Waits(y)
    BY <1>3 DEF Unlock, Waits
  <2> QED BY <1>3, <2>1 DEF Unlock, QueueMatchesStages
\* A client's task joins the queue, or has its turn, and its stage says so.
<1>4. ASSUME NEW c \in Clients, Connect(c) \/ Notice(c) PROVE QueueMatchesStages'
  <2>1. Joins(c)
    BY <1>4 DEF Connect, Notice, Joins, QueueMatchesStages
  <2>2. IsInjective(queue') /\ \A y : Waits(y)' <=> Waits(y) \/ y = c
    BY <1>0, <2>1, QueueSteps
  <2>3. /\ \A d \in Clients \ {c} : stage'[d] = stage[d]
        /\ \/ stage[c] = "away" /\ stage'[c] = "joining"
           \/ stage[c] = "serving" /\ stage'[c] = "leaving"
        /\ UNCHANGED <<readers, clients>>
    BY <1>4 DEF Connect, Notice, TypeOK
  <2> QED BY <2>2, <2>3 DEF QueueMatchesStages, TypeOK
<1>5. ASSUME NEW c \in Clients, Register(c) \/ Unregister(c) PROVE QueueMatchesStages'
  <2>1. Served(c)
    BY <1>5 DEF Register, Unregister, LockWrite, Served
  <2>2. IsInjective(queue') /\ \A y : Waits(y)' <=> Waits(y) /\ y # c
    BY <1>0, <2>1, QueueSteps
  <2>3. /\ \A d \in Clients \ {c} : stage'[d] = stage[d]
        /\ \/ stage[c] = "joining" /\ stage'[c] = "serving" /\ clients' = clients \cup {c}
           \/ stage[c] = "leaving" /\ stage'[c] = "away" /\ clients' = clients \ {c}
        /\ UNCHANGED readers
    BY <1>5 DEF Register, Unregister, TypeOK
  <2>4. clients' = {d \in Clients : stage'[d] \in {"serving", "leaving"}}
    BY <2>3 DEF QueueMatchesStages
  <2>5. \A d \in Clients : Waits(d)' <=> stage'[d] \in {"joining", "leaving"}
    BY <2>2, <2>3 DEF QueueMatchesStages
  <2>6. \A f \in readers' : ~Waits(f)'
    BY <2>2, <2>3 DEF QueueMatchesStages
  <2> QED BY <2>2, <2>4, <2>5, <2>6 DEF QueueMatchesStages
<1>6. CASE UNCHANGED <<stage, lock>>
  <2>1. \A y : Waits(y)' <=> Waits(y)
    BY <1>6 DEF lock, Waits
  <2> QED BY <1>6, <2>1 DEF lock, QueueMatchesStages
<1>7. ASSUME NEW c \in Clients, Break(c) \/ FallAsleep(c) \/ ForwardInput(c) \/ Serve(c) \/ ForwardMessage(c)
                                 \/ ForwardError(c) \/ WriteFails(c) \/ Read(c)
      PROVE  UNCHANGED <<stage, lock>>
  BY <1>7 DEF Break, FallAsleep, ForwardInput, Serve, ForwardMessage, ForwardError, WriteFails, Read
<1>8. ASSUME TakeEvent \/ \E x \in Changes : TakeChange(x) PROVE QueueMatchesStages'
  BY <1>1, <1>8 DEF TakeEvent, TakeChange, Forwarders
<1>9. UNCHANGED vars => UNCHANGED <<stage, lock>>
  BY DEF vars
<1> QED BY <1>2, <1>3, <1>4, <1>5, <1>6, <1>7, <1>8, <1>9 DEF Next

-----------------------------------------------------------------------------
(* Who is served is registered.                                            *)

LEMMA NextServed == TypeOK /\ ServedAreRegistered /\ [Next]_vars => ServedAreRegistered'
<1> SUFFICES ASSUME TypeOK, ServedAreRegistered, [Next]_vars PROVE ServedAreRegistered'
  OBVIOUS
<1> USE ClientsAssumption
<1>1. ASSUME NEW f \in Forwarders, LockRead(f) PROVE ServedAreRegistered'
  BY <1>1 DEF LockRead, ServedAreRegistered, TypeOK
<1>2. ASSUME NEW f \in Forwarders, Unlock(f) PROVE ServedAreRegistered'
  BY <1>2 DEF Unlock, ServedAreRegistered, TypeOK
<1>3. ASSUME NEW c \in Clients, Register(c) \/ Unregister(c) PROVE ServedAreRegistered'
  <2>1. readers = {} /\ UNCHANGED <<readers, left, sendingTo>>
    BY <1>3 DEF Register, Unregister, LockWrite, forward
  <2> QED BY <2>1 DEF ServedAreRegistered
<1>4. ASSUME NEW c \in Clients, ForwardInput(c) \/ Serve(c) PROVE ServedAreRegistered'
  <2>1. /\ \A f \in Forwarders : left'[f] \subseteq left[f]
        /\ UNCHANGED <<readers, clients>>
    BY <1>4 DEF ForwardInput, Serve, lock, TypeOK
  <2>2. sendingTo' # Nobody =>
          \/ sendingTo' = sendingTo
          \/ "clipboard" \in Forwarders /\ left["clipboard"] # {} /\ sendingTo' \in left["clipboard"]
    BY <1>4 DEF ForwardInput, Serve, Forwarders
  <2>3. \A f \in Forwarders : left'[f] # {} => left[f] # {}
    BY <2>1
  <2> QED BY <2>1, <2>2, <2>3 DEF ServedAreRegistered
<1>5. ASSUME NEW c \in Clients, ForwardMessage(c) \/ ForwardError(c) PROVE ServedAreRegistered'
  BY <1>5 DEF ForwardMessage, ForwardError, lock, ServedAreRegistered
<1>6. CASE UNCHANGED <<readers, clients, left, sendingTo>>
  BY <1>6 DEF ServedAreRegistered
<1>7. ASSUME NEW c \in Clients, Connect(c) \/ Notice(c) \/ Break(c) \/ FallAsleep(c) \/ WriteFails(c) \/ Read(c)
      PROVE  UNCHANGED <<readers, clients, left, sendingTo>>
  BY <1>7 DEF Connect, Notice, Break, FallAsleep, WriteFails, Read, lock, forward
<1>8. ASSUME TakeEvent \/ \E x \in Changes : TakeChange(x)
      PROVE  UNCHANGED <<readers, clients, left, sendingTo>>
  BY <1>8 DEF TakeEvent, TakeChange, forward
<1>9. UNCHANGED vars => UNCHANGED <<readers, clients, left, sendingTo>>
  BY DEF vars, lock, forward
<1> QED BY <1>1, <1>2, <1>3, <1>4, <1>5, <1>6, <1>7, <1>8, <1>9 DEF Next
-----------------------------------------------------------------------------
(* Type correctness.                                                       *)

\* The clipboard forwarder has messages for the client it serves, and a change
\* from when it asks for the lock until it gives it back.
CarriesChange ==
  /\ sendingTo # Nobody => messages # <<>>
  /\ Waits("clipboard") \/ "clipboard" \in readers => change # <<>>

IInv == TypeOK /\ QueueMatchesStages /\ ServedAreRegistered /\ CarriesChange

LEMMA InitIInv == Init => IInv
<1> SUFFICES ASSUME Init PROVE IInv
  OBVIOUS
<1>1. queue = <<>> /\ DOMAIN queue = {} /\ <<>> \in Seq(Clients \cup Forwarders) /\ <<>> \in Seq(Frames)
  BY DEF Init
<1>2. TypeOK
  BY <1>1, DataCapAssumption DEF Init, TypeOK
<1>3. QueueMatchesStages
  BY <1>1 DEF Init, QueueMatchesStages, Waits, IsInjective
<1>4. ServedAreRegistered /\ CarriesChange
  BY <1>1 DEF Init, ServedAreRegistered, CarriesChange, Waits
<1> QED BY <1>2, <1>3, <1>4 DEF IInv

LEMMA NextCarriesChange == IInv /\ [Next]_vars => CarriesChange'
<1> SUFFICES ASSUME IInv, [Next]_vars PROVE CarriesChange'
  OBVIOUS
<1> USE ClientsAssumption
<1>0. /\ TypeOK /\ QueueMatchesStages /\ ServedAreRegistered /\ CarriesChange
      /\ IsInjective(queue) /\ "clipboard" \in Forwarders /\ "input" \in Forwarders
  BY DEF IInv, QueueMatchesStages, Forwarders
<1>1. CASE TakeEvent
  <2>1. \A y : Waits(y)' <=> Waits(y) \/ y = "input"
    BY <1>0, <1>1, QueueSteps DEF TakeEvent, Idle, Joins
  <2> QED BY <1>0, <1>1, <2>1 DEF TakeEvent, CarriesChange, forward
<1>2. ASSUME NEW x \in Changes, TakeChange(x) PROVE CarriesChange'
  <2>1. x # <<>>
    BY ChangesAssumption
  <2> QED BY <1>0, <1>2, <2>1 DEF TakeChange, CarriesChange
<1>3. ASSUME NEW f \in Forwarders, LockRead(f) PROVE CarriesChange'
  <2>1. Waits(f) /\ \A y : Waits(y)' <=> Waits(y) /\ y # f
    BY <1>0, <1>3, QueueSteps DEF LockRead, Served
  <2> QED BY <1>0, <1>3, <2>1 DEF LockRead, CarriesChange
<1>4. ASSUME NEW f \in Forwarders, Unlock(f) PROVE CarriesChange'
  <2>1. Waits("clipboard")' <=> Waits("clipboard")
    BY <1>4 DEF Unlock, Waits
  <2> QED BY <1>0, <1>4, <2>1 DEF Unlock, CarriesChange, QueueMatchesStages
<1>5. ASSUME NEW c \in Clients, Connect(c) \/ Notice(c) PROVE CarriesChange'
  <2>1. \A y : Waits(y)' <=> Waits(y) \/ y = c
    BY <1>0, <1>5, QueueSteps DEF Connect, Notice, Joins, QueueMatchesStages
  <2> QED BY <1>0, <1>5, <2>1 DEF Connect, Notice, CarriesChange, forward
<1>6. ASSUME NEW c \in Clients, Register(c) \/ Unregister(c) PROVE CarriesChange'
  <2>1. \A y : Waits(y)' <=> Waits(y) /\ y # c
    BY <1>0, <1>6, QueueSteps DEF Register, Unregister, LockWrite, Served
  <2> QED BY <1>0, <1>6, <2>1 DEF Register, Unregister, CarriesChange, forward
<1>7. ASSUME NEW c \in Clients, Serve(c) PROVE CarriesChange'
  <2>1. Waits("clipboard")' <=> Waits("clipboard")
    BY <1>7 DEF Serve, lock, Waits
  <2>2. "clipboard" \in readers
    BY <1>0, <1>7 DEF Serve, ServedAreRegistered
  <2> QED BY <1>0, <1>7, <2>1, <2>2 DEF Serve, CarriesChange, lock
<1>8. ASSUME NEW c \in Clients, ForwardMessage(c) PROVE CarriesChange'
  <2>1. Waits("clipboard")' <=> Waits("clipboard")
    BY <1>8 DEF ForwardMessage, lock, Waits
  <2>2. messages \in Seq(Frames) /\ messages # <<>>
    BY <1>0, <1>8 DEF ForwardMessage, CarriesChange, TypeOK
  <2>3. Tail(messages) \in Seq(Frames) /\ Len(Tail(messages)) = Len(messages) - 1 /\ Len(messages) \in Nat
    BY <2>2, HeadTailProperties, LenProperties
  <2>4. Len(messages) # 1 => Tail(messages) # <<>>
    <3> SUFFICES ASSUME Len(messages) # 1, Tail(messages) = <<>> PROVE FALSE
      OBVIOUS
    <3>1. Len(messages) \in Nat /\ Len(messages) - 1 = 0
      BY <2>3, EmptySeq
    <3>2. \A k \in Nat : k - 1 = 0 => k = 1
      OBVIOUS
    <3> QED BY <3>1, <3>2
  <2> QED BY <1>0, <1>8, <2>1, <2>4 DEF ForwardMessage, CarriesChange, lock
<1>9. CASE UNCHANGED <<queue, readers, change, sendingTo, messages>>
  <2>1. Waits("clipboard")' <=> Waits("clipboard")
    BY <1>9 DEF Waits
  <2> QED BY <1>0, <1>9, <2>1 DEF CarriesChange
<1>10. ASSUME NEW c \in Clients, Break(c) \/ FallAsleep(c) \/ ForwardInput(c) \/ WriteFails(c) \/ Read(c)
       PROVE  UNCHANGED <<queue, readers, change, sendingTo, messages>>
  BY <1>10 DEF Break, FallAsleep, ForwardInput, WriteFails, Read, lock, forward
<1>11. ASSUME NEW c \in Clients, ForwardError(c) PROVE CarriesChange'
  <2>1. Waits("clipboard")' <=> Waits("clipboard")
    BY <1>11 DEF ForwardError, lock, Waits
  <2> QED BY <1>0, <1>11, <2>1 DEF ForwardError, CarriesChange, lock
<1>12. UNCHANGED vars => UNCHANGED <<queue, readers, change, sendingTo, messages>>
  BY DEF vars, lock, forward
<1> QED BY <1>1, <1>2, <1>3, <1>4, <1>5, <1>6, <1>7, <1>8, <1>9, <1>10, <1>11, <1>12 DEF Next

\* A frame more fits where there is room.
LEMMA RoomForOne ==
  ASSUME TypeOK, NEW c \in Clients, Room(c), NEW x \in Frames
  PROVE  Append(channel[c], x) \in Seq(Frames) /\ Len(Append(channel[c], x)) <= DataCap
<1>1. channel[c] \in Seq(Frames) /\ Len(channel[c]) < DataCap
  BY DEF TypeOK, Room
<1>2. Append(channel[c], x) \in Seq(Frames) /\ Len(Append(channel[c], x)) = Len(channel[c]) + 1
  BY <1>1, AppendProperties
<1>3. Len(channel[c]) \in Nat
  BY <1>1, LenProperties
<1> QED BY <1>1, <1>2, <1>3, DataCapAssumption

LEMMA NextTypeOK == IInv /\ [Next]_vars => TypeOK'
<1> SUFFICES ASSUME IInv, [Next]_vars PROVE TypeOK'
  OBVIOUS
<1> USE ClientsAssumption, DataCapAssumption
<1>0. /\ TypeOK /\ QueueMatchesStages /\ ServedAreRegistered /\ CarriesChange
      /\ IsInjective(queue) /\ "clipboard" \in Forwarders /\ "input" \in Forwarders
      /\ <<>> \in Seq(Frames)
  BY DEF IInv, QueueMatchesStages, Forwarders
<1>1. CASE TakeEvent
  <2>1. queue' \in Seq(Clients \cup Forwarders)
    BY <1>0, <1>1, QueueSteps DEF TakeEvent, Idle, Joins
  <2> QED BY <1>0, <1>1, <2>1 DEF TakeEvent, TypeOK, forward, wire
<1>2. ASSUME NEW x \in Changes, TakeChange(x) PROVE TypeOK'
  <2>1. queue' \in Seq(Clients \cup Forwarders)
    BY <1>0, <1>2, QueueSteps DEF TakeChange, Idle, Joins
  <2>2. x \in Seq(Frames)
    BY ChangesAssumption
  <2> QED BY <1>0, <1>2, <2>1, <2>2 DEF TakeChange, TypeOK, wire
<1>3. ASSUME NEW f \in Forwarders, LockRead(f) PROVE TypeOK'
  <2>1. queue' \in Seq(Clients \cup Forwarders)
    BY <1>0, <1>3, QueueSteps DEF LockRead, Served
  <2> QED BY <1>0, <1>3, <2>1 DEF LockRead, TypeOK, wire
<1>4. ASSUME NEW f \in Forwarders, Unlock(f) PROVE TypeOK'
  BY <1>0, <1>4 DEF Unlock, TypeOK, wire
<1>5. ASSUME NEW c \in Clients, Connect(c) \/ Notice(c) PROVE TypeOK'
  <2>1. queue' \in Seq(Clients \cup Forwarders)
    BY <1>0, <1>5, QueueSteps DEF Connect, Notice, Joins, QueueMatchesStages
  <2> QED BY <1>0, <1>5, <2>1 DEF Connect, Notice, TypeOK, forward, wire
<1>6. ASSUME NEW c \in Clients, Register(c) PROVE TypeOK'
  <2>1. queue' \in Seq(Clients \cup Forwarders)
    BY <1>0, <1>6, QueueSteps DEF Register, LockWrite, Served
  <2> QED BY <1>0, <1>6, <2>1 DEF Register, TypeOK, forward, wire
<1>7. ASSUME NEW c \in Clients, Unregister(c) PROVE TypeOK'
  <2>1. queue' \in Seq(Clients \cup Forwarders)
    BY <1>0, <1>7, QueueSteps DEF Unregister, LockWrite, Served
  <2>2. channel' \in [Clients -> Seq(Frames)] /\ \A d \in Clients : Len(channel'[d]) <= DataCap
    <3>1. Len(<<>>) = 0
      OBVIOUS
    <3> QED BY <1>0, <1>7, <3>1 DEF Unregister, FreshWires, TypeOK
  <2> QED BY <1>0, <1>7, <2>1, <2>2 DEF Unregister, FreshWires, TypeOK, forward
<1>8. ASSUME NEW c \in Clients, Break(c) \/ FallAsleep(c) PROVE TypeOK'
  BY <1>0, <1>8 DEF Break, FallAsleep, TypeOK, lock, forward
<1>9. ASSUME NEW c \in Clients, ForwardInput(c) PROVE TypeOK'
  <2>1. channel' \in [Clients -> Seq(Frames)] /\ \A d \in Clients : Len(channel'[d]) <= DataCap
    <3>1. CASE writer[c] = "ended"
      BY <1>0, <1>9, <3>1 DEF ForwardInput, TypeOK
    <3>2. CASE writer[c] # "ended"
      <4>1. Room(c) /\ channel' = [channel EXCEPT ![c] = Append(channel[c], "accepted")]
        BY <1>9, <3>2 DEF ForwardInput
      <4>2. /\ Append(channel[c], "accepted") \in Seq(Frames)
            /\ Len(Append(channel[c], "accepted")) <= DataCap
        BY <1>0, <4>1, RoomForOne DEF Frames
      <4> QED BY <1>0, <4>1, <4>2 DEF TypeOK
    <3> QED BY <3>1, <3>2
  <2> QED BY <1>0, <1>9, <2>1 DEF ForwardInput, TypeOK, lock
<1>10. ASSUME NEW c \in Clients, Serve(c) PROVE TypeOK'
  BY <1>0, <1>10 DEF Serve, TypeOK, lock, wire
<1>11. ASSUME NEW c \in Clients, ForwardMessage(c) PROVE TypeOK'
  <2>1. messages \in Seq(Frames) /\ messages # <<>>
    BY <1>0, <1>11 DEF ForwardMessage, CarriesChange, TypeOK
  <2>2. Head(messages) \in Frames /\ Tail(messages) \in Seq(Frames)
    BY <2>1, HeadTailProperties
  <2>3. channel' \in [Clients -> Seq(Frames)] /\ \A d \in Clients : Len(channel'[d]) <= DataCap
    <3>1. /\ Append(channel[c], Head(messages)) \in Seq(Frames)
          /\ Len(Append(channel[c], Head(messages))) <= DataCap
      BY <1>0, <1>11, <2>2, RoomForOne DEF ForwardMessage
    <3> QED BY <1>0, <1>11, <3>1 DEF ForwardMessage, TypeOK
  <2> QED BY <1>0, <1>11, <2>2, <2>3 DEF ForwardMessage, TypeOK, lock
<1>12. ASSUME NEW c \in Clients, ForwardError(c) PROVE TypeOK'
  BY <1>0, <1>12 DEF ForwardError, TypeOK, lock, wire
<1>13. ASSUME NEW c \in Clients, WriteFails(c) PROVE TypeOK'
  <2>1. Len(<<>>) = 0
    OBVIOUS
  <2>2. channel' \in [Clients -> Seq(Frames)] /\ \A d \in Clients : Len(channel'[d]) <= DataCap
    BY <1>0, <1>13, <2>1 DEF WriteFails, TypeOK
  <2> QED BY <1>0, <1>13, <2>2 DEF WriteFails, TypeOK, lock, forward
<1>14. ASSUME NEW c \in Clients, Read(c) PROVE TypeOK'
  <2>1. channel[c] \in Seq(Frames) /\ channel[c] # <<>> /\ Len(channel[c]) <= DataCap
    BY <1>0, <1>14 DEF Read, TypeOK
  <2>2. Tail(channel[c]) \in Seq(Frames) /\ Len(Tail(channel[c])) <= DataCap
    <3>1. Len(Tail(channel[c])) = Len(channel[c]) - 1 /\ Len(channel[c]) \in Nat
      BY <2>1, HeadTailProperties, LenProperties
    <3>2. Tail(channel[c]) \in Seq(Frames)
      BY <2>1, HeadTailProperties
    <3> QED BY <2>1, <3>1, <3>2
  <2>3. channel' \in [Clients -> Seq(Frames)] /\ \A d \in Clients : Len(channel'[d]) <= DataCap
    <3>1. /\ channel' = [channel EXCEPT ![c] = Tail(@)] \/ channel' = channel
          /\ channel \in [Clients -> Seq(Frames)] /\ \A d \in Clients : Len(channel[d]) <= DataCap
      BY <1>0, <1>14 DEF Read, TypeOK
    <3> QED BY <2>2, <3>1
  <2> QED BY <1>0, <1>14, <2>3 DEF Read, TypeOK, lock, forward
<1>15. CASE UNCHANGED vars
  BY <1>0, <1>15 DEF vars, lock, forward, wire, TypeOK
<1> QED BY <1>1, <1>2, <1>3, <1>4, <1>5, <1>6, <1>7, <1>8, <1>9, <1>10, <1>11, <1>12, <1>13, <1>14, <1>15
     DEF Next

LEMMA Inductive == Spec => []IInv
<1>1. IInv /\ [Next]_vars => IInv'
  BY NextTypeOK, NextQueueMatches, NextServed, NextCarriesChange DEF IInv
<1> QED BY <1>1, InitIInv, PTL DEF Spec

\* The forwarders' and the clients' state is of its types, and no data channel
\* holds more than it may.
THEOREM TypeCorrect == Spec => []TypeOK
BY Inductive, PTL DEF IInv

\* No client is removed, and its channel closed, under a forwarder that serves it.
THEOREM ServedRegistered == Spec => []ServedAreRegistered
BY Inductive, PTL DEF IInv

\* Every control task waits for the lock exactly when its stage says so, once.
THEOREM QueueMatches == Spec => []QueueMatchesStages
BY Inductive, PTL DEF IInv
=============================================================================
