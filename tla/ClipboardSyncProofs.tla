-------------------------- MODULE ClipboardSyncProofs --------------------------
(***************************************************************************)
(* Proofs about ClipboardSync, for any number of clients and any contents. *)
(***************************************************************************)
EXTENDS ClipboardSync, SequenceTheorems, TLAPS

-----------------------------------------------------------------------------
(* Type correctness.                                                       *)

\* The first content of a queue, and a queue without it.
LEMMA QueueTaken ==
  ASSUME NEW S, NEW q \in Seq(S), q # <<>>
  PROVE  Head(q) \in S /\ Tail(q) \in Seq(S) /\ Len(Tail(q)) = Len(q) - 1 /\ Len(q) \in Nat \ {0}
OBVIOUS

LEMMA QueueGrown ==
  ASSUME NEW S, NEW q \in Seq(S), NEW c \in S
  PROVE  Append(q, c) \in Seq(S) /\ Len(Append(q, c)) = Len(q) + 1 /\ Len(q) \in Nat
OBVIOUS

\* The last content of a queue stays the last when the first is taken.
LEMMA LastOfOne ==
  ASSUME NEW S, NEW q \in Seq(S), Len(q) = 1
  PROVE  Tail(q) = <<>> /\ Head(q) = q[Len(q)]
<1>1. q # <<>>
  OBVIOUS
<1>2. Tail(q) \in Seq(S) /\ Len(Tail(q)) = 0
  BY <1>1, HeadTailProperties
<1>3. Tail(q) = <<>>
  BY <1>2, EmptySeq
<1>4. Head(q) = q[1]
  BY <1>1
<1> QED BY <1>3, <1>4

LEMMA LastOfMore ==
  ASSUME NEW S, NEW q \in Seq(S), Len(q) > 1
  PROVE  Tail(q) # <<>> /\ Tail(q)[Len(Tail(q))] = q[Len(q)]
<1>1. Len(q) \in Nat /\ q # <<>>
  BY LenProperties, EmptySeq
<1>2. /\ Tail(q) \in Seq(S) /\ Len(Tail(q)) = Len(q) - 1
      /\ \A i \in 1 .. Len(Tail(q)) : Tail(q)[i] = q[i + 1]
  BY HeadTailProperties
<1>3. Len(Tail(q)) \in 1 .. Len(Tail(q)) /\ Len(Tail(q)) + 1 = Len(q)
  BY <1>1, <1>2
<1>4. Tail(q) # <<>>
  <2>1. Len(Tail(q)) # 0
    BY <1>1, <1>2
  <2> QED BY <2>1, EmptySeq
<1> QED BY <1>2, <1>3, <1>4

\* A broadcast channel never holds more than its capacity.
LEMMA ArriveFits ==
  ASSUME NEW S, NEW q \in Seq(S), NEW c \in S, Len(q) <= NetCap
  PROVE  Arrive(q, c) \in Seq(S) /\ Len(Arrive(q, c)) <= NetCap
<1>1. CASE Len(q) < NetCap
  BY <1>1, QueueGrown, CapsAssumption DEF Arrive
<1>2. CASE ~(Len(q) < NetCap)
  <2>1. Len(q) = NetCap /\ q # <<>>
    BY <1>2, CapsAssumption
  <2>2. Tail(q) \in Seq(S) /\ Len(Tail(q)) = NetCap - 1
    BY <2>1, QueueTaken
  <2> QED BY <1>2, <2>2, QueueGrown, CapsAssumption DEF Arrive
<1> QED BY <1>1, <1>2

\* The conjuncts that speak of the queues; the others are about one content.
QueuesOK ==
  /\ changes \in [Machines -> Seq(Contents)] /\ suppress \in [Machines -> Seq(Contents)]
  /\ incoming \in [Machines -> Seq(Contents \ TooLarge)]
  /\ \A m \in Machines :
       Len(changes[m]) <= QueueCap /\ Len(suppress[m]) <= QueueCap /\ Len(incoming[m]) <= NetCap

LEMMA InitTypeOK == Init => TypeOK
<1> SUFFICES ASSUME Init PROVE TypeOK
  OBVIOUS
<1>1. /\ <<>> \in Seq(Contents) /\ <<>> \in Seq(Contents \ TooLarge)
      /\ Len(<<>>) = 0
  OBVIOUS
<1>2. QueuesOK
  BY <1>1, CapsAssumption DEF Init, QueuesOK
<1>3. /\ clipboard \in [Machines -> Maybe] /\ written \in [Machines -> Maybe]
      /\ detected \in [Machines -> Maybe]
      /\ last_hash \in [Machines -> Maybe] /\ remote_hash \in [Machines -> Maybe]
  BY DEF Init, Maybe
<1>4. /\ recent \in [Machines -> BOOLEAN] /\ had \in [Machines -> SUBSET Contents]
      /\ origin \in [Machines -> {"nobody", "fresh", "again", "remote"}]
      /\ unshared \in [Machines -> SUBSET Machines] /\ copies \in 0 .. MaxCopies
  BY CapsAssumption DEF Init
<1> QED BY <1>2, <1>3, <1>4 DEF TypeOK, QueuesOK

LEMMA NextTypeOK == TypeOK /\ [Next]_vars => TypeOK'
<1> SUFFICES ASSUME TypeOK, [Next]_vars PROVE TypeOK'
  OBVIOUS
<1> USE NothingAssumption, CapsAssumption
<1>0. QueuesOK
  BY DEF TypeOK, QueuesOK
<1>1. ASSUME NEW m \in Machines, NEW c \in Contents, Copy(m, c) PROVE TypeOK'
  <2>1. c \in Maybe /\ Peers(m) \subseteq Machines /\ copies' \in 0 .. MaxCopies
    BY <1>1 DEF Maybe, Peers, Machines, Copy, TypeOK
  <2> QED BY <1>1, <2>1 DEF Copy, SetClipboard, TypeOK, monitor, tasks
<1>2. ASSUME NEW m \in Machines, Poll(m) \/ Expire(m) PROVE TypeOK'
  BY <1>2 DEF Poll, Expire, TypeOK, tasks, history
<1>3. ASSUME NEW m \in Machines, HandOver(m) PROVE TypeOK'
  <2>1. changes[m] \in Seq(Contents) /\ detected[m] \in Contents
    BY <1>3 DEF HandOver, TypeOK, Maybe
  <2>2. /\ changes' \in [Machines -> Seq(Contents)]
        /\ \A p \in Machines : Len(changes'[p]) <= QueueCap
    <3>1. Append(changes[m], detected[m]) \in Seq(Contents) /\ Len(Append(changes[m], detected[m])) <= QueueCap
      BY <1>3, <2>1, QueueGrown DEF HandOver
    <3> QED BY <1>0, <1>3, <3>1 DEF HandOver, QueuesOK
  <2>3. detected' \in [Machines -> Maybe]
    BY <1>3 DEF HandOver, TypeOK, Maybe
  <2> QED BY <1>3, <2>2, <2>3 DEF HandOver, TypeOK, monitor, history
<1>4. ASSUME NEW m \in Machines, Mark(m) PROVE TypeOK'
  <2>1. suppress[m] \in Seq(Contents) /\ suppress[m] # <<>>
    BY <1>4 DEF Mark, TypeOK
  <2>2. /\ Head(suppress[m]) \in Maybe /\ Tail(suppress[m]) \in Seq(Contents)
        /\ Len(Tail(suppress[m])) <= QueueCap
    BY <1>0, <2>1, QueueTaken DEF Maybe, QueuesOK
  <2>3. /\ suppress' \in [Machines -> Seq(Contents)]
        /\ \A p \in Machines : Len(suppress'[p]) <= QueueCap
    BY <1>0, <1>4, <2>2 DEF Mark, QueuesOK
  <2>4. remote_hash' \in [Machines -> Maybe] /\ recent' \in [Machines -> BOOLEAN]
    BY <1>4, <2>2 DEF Mark, TypeOK
  <2> QED BY <1>4, <2>3, <2>4 DEF Mark, TypeOK, history
<1>5. ASSUME NEW m \in Machines, Forward(m) PROVE TypeOK'
  <2>1. changes[m] \in Seq(Contents) /\ changes[m] # <<>>
    BY <1>5 DEF Forward, TypeOK
  <2>2. /\ Head(changes[m]) \in Contents /\ Tail(changes[m]) \in Seq(Contents)
        /\ Len(Tail(changes[m])) <= QueueCap
    BY <1>0, <2>1, QueueTaken DEF QueuesOK
  <2>3. /\ changes' \in [Machines -> Seq(Contents)]
        /\ \A p \in Machines : Len(changes'[p]) <= QueueCap
    BY <1>0, <1>5, <2>2 DEF Forward, QueuesOK
  <2>4. ASSUME NEW p \in Machines
        PROVE  incoming'[p] \in Seq(Contents \ TooLarge) /\ Len(incoming'[p]) <= NetCap
    <3>1. incoming[p] \in Seq(Contents \ TooLarge) /\ Len(incoming[p]) <= NetCap
      BY <1>0 DEF QueuesOK
    <3>2. CASE p \in Peers(m) /\ Head(changes[m]) \notin TooLarge
      <4>1. incoming'[p] = Arrive(incoming[p], Head(changes[m]))
        BY <1>5, <3>2 DEF Forward
      <4> QED BY <2>2, <3>1, <3>2, <4>1, ArriveFits
    <3>3. CASE ~(p \in Peers(m) /\ Head(changes[m]) \notin TooLarge)
      <4>1. incoming'[p] = incoming[p]
        BY <1>5, <3>3 DEF Forward
      <4> QED BY <3>1, <4>1
    <3> QED BY <3>2, <3>3
  <2>5. incoming' \in [Machines -> Seq(Contents \ TooLarge)]
    BY <1>5, <2>4 DEF Forward
  <2> QED BY <1>5, <2>3, <2>4, <2>5 DEF Forward, TypeOK, monitor, history
<1>6. ASSUME NEW m \in Machines, Write(m) PROVE TypeOK'
  <2>1. incoming[m] \in Seq(Contents \ TooLarge) /\ incoming[m] # <<>> /\ Len(incoming[m]) <= NetCap
    BY <1>6 DEF Write, TypeOK
  <2>2. /\ Head(incoming[m]) \in Contents /\ Tail(incoming[m]) \in Seq(Contents \ TooLarge)
        /\ Len(Tail(incoming[m])) <= NetCap
    BY <2>1, QueueTaken
  <2>3. /\ incoming' \in [Machines -> Seq(Contents \ TooLarge)]
        /\ \A p \in Machines : Len(incoming'[p]) <= NetCap
    BY <1>0, <1>6, <2>2 DEF Write, QueuesOK
  <2>4. /\ clipboard' \in [Machines -> Maybe] /\ written' \in [Machines -> Maybe]
        /\ had' \in [Machines -> SUBSET Contents]
        /\ origin' \in [Machines -> {"nobody", "fresh", "again", "remote"}]
    BY <1>6, <2>2 DEF Write, SetClipboard, TypeOK, Maybe
  <2>5. unshared' \in [Machines -> SUBSET Machines]
    BY <1>6 DEF Write, TypeOK
  <2> QED BY <1>6, <2>3, <2>4, <2>5 DEF Write, TypeOK, monitor
<1>7. ASSUME NEW m \in Machines, Tell(m) PROVE TypeOK'
  <2>1. suppress[m] \in Seq(Contents) /\ written[m] \in Contents
    BY <1>7 DEF Tell, TypeOK, Maybe
  <2>2. /\ suppress' \in [Machines -> Seq(Contents)]
        /\ \A p \in Machines : Len(suppress'[p]) <= QueueCap
    <3>1. Append(suppress[m], written[m]) \in Seq(Contents) /\ Len(Append(suppress[m], written[m])) <= QueueCap
      BY <1>7, <2>1, QueueGrown DEF Tell
    <3> QED BY <1>0, <1>7, <3>1 DEF Tell, QueuesOK
  <2>3. written' \in [Machines -> Maybe]
    BY <1>7 DEF Tell, TypeOK, Maybe
  <2> QED BY <1>7, <2>2, <2>3 DEF Tell, TypeOK, monitor, history
<1>8. CASE UNCHANGED vars
  BY <1>8 DEF vars, monitor, tasks, history, TypeOK
<1> QED BY <1>1, <1>2, <1>3, <1>4, <1>5, <1>6, <1>7, <1>8 DEF Next

\* Every clipboard, hash and queue is of its type, and no queue is overfull,
\* whatever the machines copy and forward.
THEOREM TypeCorrect == Spec => []TypeOK
BY InitTypeOK, NextTypeOK, PTL DEF Spec

-----------------------------------------------------------------------------
(* What came from a peer is not sent back.                                 *)

\* The hash of what a peer has put in the clipboard is on its way to the
\* monitor, behind all other hashes, or is the one the monitor suppresses.
MarkFollows ==
  \A m \in Machines : origin[m] = "remote" =>
    /\ written[m] # Nothing => written[m] = clipboard[m]
    /\ written[m] = Nothing /\ suppress[m] # <<>> => suppress[m][Len(suppress[m])] = clipboard[m]
    /\ Settled(m) => remote_hash[m] = clipboard[m]

LEMMA NextMarkFollows == TypeOK /\ MarkFollows /\ [Next]_vars => MarkFollows'
<1> SUFFICES ASSUME TypeOK, MarkFollows, [Next]_vars PROVE MarkFollows'
  OBVIOUS
<1> USE NothingAssumption
<1>1. ASSUME NEW m \in Machines, NEW c \in Contents, Copy(m, c) PROVE MarkFollows'
  BY <1>1 DEF Copy, SetClipboard, MarkFollows, Settled, TypeOK, monitor, tasks
<1>2. ASSUME NEW m \in Machines, Poll(m) \/ HandOver(m) \/ Expire(m) \/ Forward(m) PROVE MarkFollows'
  BY <1>2 DEF Poll, HandOver, Expire, Forward, MarkFollows, Settled, TypeOK, monitor, tasks, history
<1>3. ASSUME NEW m \in Machines, Mark(m) PROVE MarkFollows'
  <2>1. /\ suppress[m] \in Seq(Contents) /\ suppress[m] # <<>>
        /\ \A p \in Machines : suppress'[p] = (IF p = m THEN Tail(suppress[m]) ELSE suppress[p])
        /\ \A p \in Machines : remote_hash'[p] = (IF p = m THEN Head(suppress[m]) ELSE remote_hash[p])
        /\ UNCHANGED <<clipboard, written, origin>>
    BY <1>3 DEF Mark, TypeOK, history
  <2>2. CASE Len(suppress[m]) = 1
    <3>1. Tail(suppress[m]) = <<>> /\ Head(suppress[m]) = suppress[m][Len(suppress[m])]
      BY <2>1, <2>2, LastOfOne
    <3> QED BY <2>1, <3>1 DEF MarkFollows, Settled
  <2>3. CASE Len(suppress[m]) > 1
    <3>1. /\ Tail(suppress[m]) # <<>>
          /\ Tail(suppress[m])[Len(Tail(suppress[m]))] = suppress[m][Len(suppress[m])]
      BY <2>1, <2>3, LastOfMore
    <3> SUFFICES ASSUME NEW p \in Machines, origin[p] = "remote"
                 PROVE  /\ written[p] # Nothing => written[p] = clipboard[p]
                        /\ written[p] = Nothing /\ suppress'[p] # <<>> =>
                             suppress'[p][Len(suppress'[p])] = clipboard[p]
                        /\ Settled(p)' => remote_hash'[p] = clipboard[p]
      BY <2>1 DEF MarkFollows
    <3>2. CASE p = m
      BY <2>1, <3>1, <3>2 DEF MarkFollows, Settled
    <3>3. CASE p # m
      BY <2>1, <3>3 DEF MarkFollows, Settled
    <3> QED BY <3>2, <3>3
  <2>4. Len(suppress[m]) = 1 \/ Len(suppress[m]) > 1
    <3>1. Len(suppress[m]) \in Nat \ {0}
      BY <2>1, EmptySeq
    <3>2. \A k \in Nat \ {0} : k = 1 \/ k > 1
      OBVIOUS
    <3> QED BY <3>1, <3>2
  <2> QED BY <2>2, <2>3, <2>4
<1>4. ASSUME NEW m \in Machines, Write(m) PROVE MarkFollows'
  <2>1. incoming[m] \in Seq(Contents \ TooLarge) /\ incoming[m] # <<>>
    BY <1>4 DEF Write, TypeOK
  <2>2. Head(incoming[m]) # Nothing
    BY <2>1, QueueTaken
  <2> QED BY <1>4, <2>2 DEF Write, SetClipboard, MarkFollows, Settled, TypeOK, monitor
<1>5. ASSUME NEW m \in Machines, Tell(m) PROVE MarkFollows'
  <2>1. suppress[m] \in Seq(Contents) /\ written[m] \in Contents
    BY <1>5 DEF Tell, TypeOK, Maybe
  <2>2. LET s == Append(suppress[m], written[m]) IN s # <<>> /\ s[Len(s)] = written[m]
    BY <2>1
  <2> QED BY <1>5, <2>2 DEF Tell, MarkFollows, Settled, TypeOK, monitor, history
<1>6. CASE UNCHANGED vars
  BY <1>6 DEF vars, monitor, tasks, history, MarkFollows, Settled
<1> QED BY <1>1, <1>2, <1>3, <1>4, <1>5, <1>6 DEF Next

\* Once the monitor has been told of a content that came from a peer, no poll
\* takes it for the user's, now or when the window of a second has passed.
THEOREM SettledNotEchoed == Spec => SettledIsNotEchoed
<1>1. Init => MarkFollows
  BY DEF Init, MarkFollows
<1>2. TypeOK /\ MarkFollows /\ [Next]_vars =>
        [\A m \in Machines :
           last_hash'[m] # last_hash[m] /\ origin[m] = "remote" => ~Settled(m)]_vars
  <2> SUFFICES ASSUME TypeOK, MarkFollows, [Next]_vars, ~UNCHANGED vars,
                      NEW m \in Machines, last_hash'[m] # last_hash[m], origin[m] = "remote"
               PROVE  ~Settled(m)
    OBVIOUS
  <2>1. Poll(m)
    BY DEF Next, Copy, Poll, HandOver, Mark, Expire, Forward, Write, Tell, monitor, TypeOK
  <2>2. clipboard[m] # remote_hash[m]
    BY <2>1 DEF Poll, IsSuppressed
  <2> QED BY <2>2 DEF MarkFollows
<1> QED BY <1>1, <1>2, NextMarkFollows, TypeCorrect, PTL DEF Spec, SettledIsNotEchoed
=============================================================================
