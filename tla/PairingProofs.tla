---------------------------- MODULE PairingProofs ----------------------------
(***************************************************************************)
(* Proofs about Pairing, for any number of overlapping exchanges, any      *)
(* limit of failures and any capacity of the channel.                      *)
(***************************************************************************)
EXTENDS Pairing, FiniteSetTheorems, TLAPS

-----------------------------------------------------------------------------
(* Type correctness.                                                       *)

Replies == {"PairSpake", "PairResult", "PinError", "OtherError"}

\* A reply is appended to what waits for the client, or nothing changes.
LEMMA SendKeepsType ==
  ASSUME TypeOK, NEW c \in Slots, NEW msg \in Replies, Send(c, msg) \/ UNCHANGED reply
  PROVE  reply' \in [Slots -> Seq(Replies)]
<1>1. reply \in [Slots -> Seq(Replies)] /\ Append(reply[c], msg) \in Seq(Replies)
  BY DEF TypeOK, Replies
<1> QED BY <1>1 DEF Send

LEMMA InitTypeOK == Init => TypeOK
<1> SUFFICES ASSUME Init PROVE TypeOK
  OBVIOUS
<1>1. \A S : <<>> \in Seq(S) /\ Len(<<>>) <= PairedCap
  BY PairedCapAssumption
<1>2. reply \in [Slots -> Seq(Replies)] /\ on_paired \in Seq(Slots) /\ Len(on_paired) <= PairedCap
  BY <1>1 DEF Init
<1> QED BY <1>2 DEF Init, TypeOK, ClientStates, ServerStates, Replies

LEMMA NextTypeOK == TypeOK /\ [Next]_vars => TypeOK'
<1> SUFFICES ASSUME TypeOK, [Next]_vars PROVE TypeOK'
  OBVIOUS
<1> USE DEF pins, lockout, book
<1>0. PairedCap \in Nat \ {0}
  BY PairedCapAssumption
<1>1. CASE Expire \/ LockoutEnds \/ Tick \/ UNCHANGED vars
  BY <1>1 DEF Expire, LockoutEnds, Tick, NewPin, vars, TypeOK
<1>2. CASE Persist
  <2>1. on_paired' \in Seq(Slots) /\ Len(on_paired') <= PairedCap /\ Head(on_paired) \in Slots
    BY <1>0, <1>2 DEF Persist, TypeOK
  <2> QED BY <1>2, <2>1 DEF Persist, TypeOK
<1>3. ASSUME NEW c \in Slots, NEW present \in BOOLEAN, Begin(c, present) PROVE TypeOK'
  <2>1. /\ client' \in [Slots -> ClientStates] /\ server' \in [Slots -> ServerStates]
        /\ reply' \in [Slots -> Seq(Replies)]
    BY <1>3 DEF Begin, TypeOK, ClientStates, ServerStates, Replies
  <2>2. /\ current_typed' \subseteq Slots /\ current_used' \subseteq Slots
        /\ same_pin' \subseteq Slots /\ confirm' \subseteq Slots /\ paired_clients' \subseteq Slots
    BY <1>3 DEF Begin, TypeOK
  <2> QED BY <1>3, <2>1, <2>2 DEF Begin, TypeOK, Replies
<1>4. ASSUME NEW c \in Slots, TakeReply(c) PROVE TypeOK'
  <2>1. /\ client' \in [Slots -> ClientStates] /\ confirm' \subseteq Slots
    BY <1>4 DEF TakeReply, TypeOK, ClientStates, ClientEnded
  <2>2. reply' \in [Slots -> Seq(Replies)]
    BY <1>4 DEF TakeReply, TypeOK, Replies
  <2> QED BY <1>4, <2>1, <2>2 DEF TakeReply, TypeOK, Replies
<1>5. ASSUME NEW c \in Slots, ClientFails(c) PROVE TypeOK'
  BY <1>5 DEF ClientFails, TypeOK, ClientStates, ClientEnded
<1>6. ASSUME NEW c \in Slots, Accept(c) PROVE TypeOK'
  <2>1. reply' \in [Slots -> Seq(Replies)]
    BY <1>6, SendKeepsType DEF Accept, Reject, TypeOK, Replies
  <2>2. server' \in [Slots -> ServerStates]
    BY <1>6 DEF Accept, Reject, TypeOK, ServerStates, ServerEnded
  <2>3. failures' \in Nat /\ lock' \in {"open", "locked", "over"}
    BY <1>6 DEF Accept, ForgetLockout, TypeOK
  <2> QED BY <1>6, <2>1, <2>2, <2>3 DEF Accept, TypeOK, Replies
<1>7. ASSUME NEW c \in Slots, StartExchange(c) PROVE TypeOK'
  <2>1. reply' \in [Slots -> Seq(Replies)]
    BY <1>7, SendKeepsType DEF StartExchange, Replies
  <2>2. server' \in [Slots -> ServerStates]
    BY <1>7 DEF StartExchange, TypeOK, ServerStates
  <2> QED BY <1>7, <2>1, <2>2 DEF StartExchange, TypeOK, Replies
<1>8. ASSUME NEW c \in Slots, WrongPin(c) PROVE TypeOK'
  <2>1. reply' \in [Slots -> Seq(Replies)]
    BY <1>8, SendKeepsType DEF WrongPin, Reject, Replies
  <2>2. server' \in [Slots -> ServerStates]
    BY <1>8 DEF WrongPin, Reject, TypeOK, ServerStates, ServerEnded
  <2>3. failures' \in Nat /\ lock' \in {"open", "locked", "over"}
    BY <1>8 DEF WrongPin, RecordFailure, TypeOK
  <2> QED BY <1>8, <2>1, <2>2, <2>3 DEF WrongPin, TypeOK, Replies
<1>9. ASSUME NEW c \in Slots, Provision(c) PROVE TypeOK'
  <2>1. reply' \in [Slots -> Seq(Replies)]
    BY <1>9, SendKeepsType DEF Provision, Replies
  <2>2. server' \in [Slots -> ServerStates]
    BY <1>9 DEF Provision, TypeOK, ServerStates
  <2> QED BY <1>9, <2>1, <2>2 DEF Provision, TypeOK, Replies
<1>10. ASSUME NEW c \in Slots, ServerFails(c) PROVE TypeOK'
  <2>1. reply' \in [Slots -> Seq(Replies)]
    BY <1>10, SendKeepsType DEF ServerFails, Reject, Replies
  <2>2. server' \in [Slots -> ServerStates]
    BY <1>10 DEF ServerFails, Reject, TypeOK, ServerStates, ServerEnded
  <2> QED BY <1>10, <2>1, <2>2 DEF ServerFails, TypeOK, Replies
<1>11. ASSUME NEW c \in Slots, Record(c) PROVE TypeOK'
  BY <1>11 DEF Record, RecordSuccess, NewPin, TypeOK, ServerStates
<1>12. ASSUME NEW c \in Slots, Report(c) PROVE TypeOK'
  <2>1. on_paired' \in Seq(Slots) /\ Len(on_paired') <= PairedCap
    BY <1>0, <1>12 DEF Report, TypeOK
  <2> QED BY <1>12, <2>1 DEF Report, TypeOK, ServerStates, ServerEnded
<1> QED BY <1>1, <1>2, <1>3, <1>4, <1>5, <1>6, <1>7, <1>8, <1>9, <1>10, <1>11, <1>12 DEF Next

\* The channel to the configuration keeps its bound, and every variable its type.
THEOREM TypeCorrect == Spec => []TypeOK
BY InitTypeOK, NextTypeOK, PTL DEF Spec

-----------------------------------------------------------------------------
(* The two ends agree.                                                     *)

\* A message that waits for the client after a step was sent in it or waited
\* before.
LEMMA SentOrWaiting ==
  ASSUME TypeOK, NEW c \in Slots, NEW new \in Replies, Send(c, new) \/ UNCHANGED reply,
         NEW d \in Slots, NEW msg \in Replies, Gets(d, msg)'
  PROVE  Gets(d, msg) \/ (d = c /\ msg = new)
<1>1. reply \in [Slots -> Seq(Replies)]
  BY DEF TypeOK, Replies
<1>2. PICK i \in DOMAIN reply'[d] : reply'[d][i] = msg
  BY DEF Gets
<1>3. CASE reply'[d] = reply[d]
  BY <1>2, <1>3 DEF Gets
<1>4. CASE d = c /\ reply'[d] = Append(reply[d], new)
  <2>1. reply'[d][i] = new \/ (i \in DOMAIN reply[d] /\ reply'[d][i] = reply[d][i])
    BY <1>1, <1>2, <1>4
  <2> QED BY <1>2, <1>4, <2>1 DEF Gets
<1> QED BY <1>1, <1>3, <1>4 DEF Send

LEMMA NextRepliesMatch == TypeOK /\ RepliesMatch /\ [Next]_vars => RepliesMatch'
<1> SUFFICES ASSUME TypeOK, RepliesMatch, [Next]_vars PROVE RepliesMatch'
  OBVIOUS
<1> USE DEF pins, lockout, book
<1>0. /\ client \in [Slots -> ClientStates] /\ server \in [Slots -> ServerStates]
      /\ reply \in [Slots -> Seq(Replies)]
  BY DEF TypeOK, Replies
<1>1. CASE UNCHANGED <<client, server, reply, same_pin>>
  BY <1>1 DEF RepliesMatch, Gets
<1>2. ASSUME NEW c \in Slots, NEW present \in BOOLEAN, Begin(c, present) PROVE RepliesMatch'
  <2>1. \A d \in Slots : d # c =>
          /\ client'[d] = client[d] /\ server'[d] = server[d] /\ reply'[d] = reply[d]
          /\ d \in same_pin' <=> d \in same_pin
    BY <1>0, <1>2 DEF Begin
  <2>2. client'[c] = "asked" /\ server'[c] = "idle" /\ reply'[c] = <<>>
    BY <1>0, <1>2 DEF Begin
  <2> QED BY <2>1, <2>2 DEF RepliesMatch, Gets
<1>3. ASSUME NEW c \in Slots, TakeReply(c) \/ ClientFails(c) PROVE RepliesMatch'
  <2>1. UNCHANGED <<server, same_pin>> /\ client[c] # "idle"
    BY <1>3 DEF TakeReply, ClientFails
  <2>2. \A d \in Slots, msg \in Replies : Gets(d, msg)' => Gets(d, msg)
    <3> SUFFICES ASSUME NEW d \in Slots, NEW msg \in Replies, Gets(d, msg)'
                 PROVE  Gets(d, msg)
      OBVIOUS
    <3>1. PICK i \in DOMAIN reply'[d] : reply'[d][i] = msg
      BY DEF Gets
    <3>2. reply'[d] = reply[d] \/ (reply[d] # <<>> /\ reply'[d] = Tail(reply[d]))
            \/ reply'[d] = <<>>
      BY <1>0, <1>3 DEF TakeReply, ClientFails
    <3>3. (i \in DOMAIN reply[d] /\ reply[d][i] = msg)
            \/ (i + 1 \in DOMAIN reply[d] /\ reply[d][i + 1] = msg)
      <4>1. reply[d] \in Seq(Replies)
        BY <1>0
      <4>2. CASE reply'[d] = reply[d]
        BY <3>1, <4>2
      <4>3. CASE reply[d] # <<>> /\ reply'[d] = Tail(reply[d])
        BY <3>1, <4>1, <4>3
      <4>4. CASE reply'[d] = <<>>
        BY <3>1, <4>4
      <4> QED BY <3>2, <4>2, <4>3, <4>4
    <3> QED BY <3>3 DEF Gets
  <2>3. \A d \in Slots : client'[d] = "paired" =>
          client[d] = "paired" \/ Gets(d, "PairResult")
    BY <1>0, <1>3 DEF TakeReply, ClientFails, Gets
  <2>4. \A d \in Slots : client'[d] = "badpin" => client[d] = "badpin" \/ Gets(d, "PinError")
    BY <1>0, <1>3 DEF TakeReply, ClientFails, Gets
  <2>5. \A d \in Slots : client'[d] = "idle" => client[d] = "idle"
    BY <1>0, <1>3 DEF TakeReply, ClientFails
  <2> QED BY <2>1, <2>2, <2>3, <2>4, <2>5 DEF RepliesMatch, Replies
<1>4. ASSUME NEW c \in Slots, NEW new \in Replies, Send(c, new) \/ UNCHANGED reply,
             UNCHANGED client, client[c] # "idle",
             \A d \in Slots : d # c => server'[d] = server[d] /\ (d \in same_pin' <=> d \in same_pin),
             server[c] \notin {"provisioned", "recorded", "done", "failed"},
             new = "PairResult" => c \in same_pin' /\ server'[c] = "provisioned",
             new = "PinError" => server'[c] = "failed" /\ c \notin same_pin'
      PROVE  RepliesMatch'
  <2>1. \A d \in Slots, msg \in Replies : Gets(d, msg)' => Gets(d, msg) \/ (d = c /\ msg = new)
    BY <1>4, SentOrWaiting
  <2>2. client[c] # "paired" /\ client[c] # "badpin"
        /\ ~Gets(c, "PairResult") /\ ~Gets(c, "PinError")
    BY <1>4 DEF RepliesMatch
  <2> QED BY <1>4, <2>1, <2>2 DEF RepliesMatch, Replies
<1>5. ASSUME NEW c \in Slots, Accept(c) PROVE RepliesMatch'
  <2>1. Send(c, "OtherError") \/ UNCHANGED reply
    BY <1>5 DEF Accept, Reject
  <2>2. \A d \in Slots : d # c => server'[d] = server[d]
    BY <1>0, <1>5 DEF Accept, Reject
  <2>3. UNCHANGED <<client, same_pin>> /\ client[c] # "idle" /\ server[c] = "idle"
    BY <1>5 DEF Accept
  <2> QED BY <1>4, <2>1, <2>2, <2>3 DEF Replies
<1>6. ASSUME NEW c \in Slots,
             StartExchange(c) \/ WrongPin(c) \/ Provision(c) \/ ServerFails(c)
      PROVE  RepliesMatch'
  <2>1. /\ client' = client /\ server[c] \in {"reading", "started"} /\ client[c] # "idle"
    BY <1>6 DEF StartExchange, WrongPin, Provision, ServerFails, RepliesMatch
  <2>2. \A d \in Slots : d # c => server'[d] = server[d] /\ (d \in same_pin' <=> d \in same_pin)
    BY <1>0, <1>6 DEF StartExchange, WrongPin, Provision, ServerFails, Reject
  <2>3. CASE StartExchange(c)
    BY <1>4, <2>1, <2>2, <2>3 DEF StartExchange, Replies
  <2>4. CASE WrongPin(c)
    <3>1. server'[c] = "failed" /\ c \notin same_pin' /\ (Send(c, "PinError") \/ UNCHANGED reply)
      BY <1>0, <2>4 DEF WrongPin, Reject
    <3> QED BY <1>4, <2>1, <2>2, <3>1 DEF Replies
  <2>5. CASE Provision(c)
    <3>1. server'[c] = "provisioned" /\ c \in same_pin' /\ Send(c, "PairResult")
      BY <1>0, <2>5 DEF Provision
    <3> QED BY <1>4, <2>1, <2>2, <3>1 DEF Replies
  <2>6. CASE ServerFails(c)
    BY <1>4, <2>1, <2>2, <2>6 DEF ServerFails, Reject, Replies
  <2> QED BY <1>6, <2>3, <2>4, <2>5, <2>6
<1>7. ASSUME NEW c \in Slots, Record(c) \/ Report(c) PROVE RepliesMatch'
  <2>1. UNCHANGED <<client, same_pin, reply>>
    BY <1>7 DEF Record, Report
  <2>2. \A d \in Slots : server'[d] = server[d]
          \/ (server[d] \in {"provisioned", "recorded"} /\ server'[d] \in {"recorded", "done"})
    BY <1>0, <1>7 DEF Record, Report
  <2> QED BY <2>1, <2>2 DEF RepliesMatch, Gets
<1> QED BY <1>1, <1>2, <1>3, <1>5, <1>6, <1>7
        DEF Next, Expire, LockoutEnds, Tick, Persist, NewPin, vars

\* What the client is told, and will be told by the replies on their way, is
\* what happened at the server.
THEOREM RepliesAgree == Spec => []RepliesMatch
<1>1. Init => RepliesMatch
  BY DEF Init, RepliesMatch, Gets
<1> QED BY <1>1, NextRepliesMatch, TypeCorrect, PTL DEF Spec

\* A client that holds a certificate had the server's PIN, and the server has
\* recorded it or is about to.
THEOREM PairedProvisioned == Spec => []PairedWasProvisioned
<1>1. RepliesMatch => PairedWasProvisioned
  BY DEF RepliesMatch, PairedWasProvisioned
<1> QED BY <1>1, RepliesAgree, PTL

\* Nobody is told that a right PIN was wrong.
THEOREM BadPinWrong == Spec => []BadPinWasWrong
<1>1. RepliesMatch => BadPinWasWrong
  BY DEF RepliesMatch, BadPinWasWrong
<1> QED BY <1>1, RepliesAgree, PTL

\* A PIN that paired a device is gone when the pairing is recorded, however
\* many exchanges were started with it.
THEOREM SpentGone == Spec => []SpentPinIsGone
<1>1. Init => SpentPinIsGone
  BY DEF Init, SpentPinIsGone
<1>2. TypeOK /\ SpentPinIsGone /\ [Next]_vars => SpentPinIsGone'
  <2> SUFFICES ASSUME TypeOK, SpentPinIsGone, [Next]_vars PROVE SpentPinIsGone'
    OBVIOUS
  <2> USE DEF SpentPinIsGone, pins
  <2>1. CASE current_used' = {}
    BY <2>1
  <2>2. CASE UNCHANGED <<server, current_used>>
    BY <2>2
  <2>3. ASSUME NEW c \in Slots, current_used' \subseteq current_used \cup {c},
               server'[c] \notin {"recorded", "done"},
               \A d \in Slots : d # c => server'[d] = server[d]
        PROVE  SpentPinIsGone'
    BY <2>3
  <2>4. ASSUME NEW c \in Slots, NEW present \in BOOLEAN, Begin(c, present) PROVE SpentPinIsGone'
    BY <2>4 DEF Begin, TypeOK
  <2>5. ASSUME NEW c \in Slots, Accept(c) \/ StartExchange(c) \/ WrongPin(c) \/ Provision(c)
                                 \/ ServerFails(c)
        PROVE  SpentPinIsGone'
    <3>1. /\ server'[c] \notin {"recorded", "done"}
          /\ \A d \in Slots : d # c => server'[d] = server[d]
      BY <2>5 DEF Accept, StartExchange, WrongPin, Provision, ServerFails, Reject, TypeOK
    <3>2. current_used' \subseteq current_used \cup {c}
      BY <2>5 DEF Accept, StartExchange, WrongPin, Provision, ServerFails
    <3> QED BY <2>3, <3>1, <3>2
  <2>6. ASSUME NEW c \in Slots, Record(c) PROVE SpentPinIsGone'
    BY <2>1, <2>6 DEF Record, RecordSuccess, NewPin
  <2>7. ASSUME NEW c \in Slots, Report(c) PROVE SpentPinIsGone'
    BY <2>7 DEF Report, TypeOK
  <2>8. CASE Tick
    BY <2>1, <2>8 DEF Tick, NewPin
  <2> QED BY <2>2, <2>4, <2>5, <2>6, <2>7, <2>8
          DEF Next, Expire, LockoutEnds, Persist, TakeReply, ClientFails, vars
<1> QED BY <1>1, <1>2, TypeCorrect, PTL DEF Spec

-----------------------------------------------------------------------------
(* The lockout.                                                            *)

\* Only four operations touch the counter or the clock of the lockout.
LEMMA NextLockMatches ==
  TypeOK /\ LockMatchesFailures /\ [Next]_vars => LockMatchesFailures'
<1> SUFFICES ASSUME TypeOK, LockMatchesFailures, [Next]_vars PROVE LockMatchesFailures'
  OBVIOUS
<1> USE DEF LockMatchesFailures, lockout
<1>0. MaxFailures \in Nat \ {0} /\ failures \in Nat
  BY MaxFailuresAssumption DEF TypeOK
<1>1. CASE LockoutEnds
  BY <1>1 DEF LockoutEnds
<1>2. ASSUME NEW c \in Slots, Accept(c) PROVE LockMatchesFailures'
  BY <1>0, <1>2 DEF Accept, ForgetLockout
<1>3. ASSUME NEW c \in Slots, WrongPin(c) PROVE LockMatchesFailures'
  BY <1>0, <1>3 DEF WrongPin, RecordFailure
<1>4. ASSUME NEW c \in Slots, Record(c) PROVE LockMatchesFailures'
  BY <1>0, <1>4 DEF Record, RecordSuccess
<1>5. CASE UNCHANGED lockout
  BY <1>5
<1> QED BY <1>1, <1>2, <1>3, <1>4, <1>5
        DEF Next, Expire, Tick, Persist, Begin, TakeReply, ClientFails, StartExchange,
            Provision, ServerFails, Report, vars

\* The lockout's counter and clock agree, whatever overlapping exchanges do.
THEOREM LockAgrees == Spec => []LockMatchesFailures
<1>1. Init => LockMatchesFailures
  BY MaxFailuresAssumption DEF Init, LockMatchesFailures
<1> QED BY <1>1, NextLockMatches, TypeCorrect, PTL DEF Spec

\* What a step of the server's task does to the exchanges under way.
LEMMA UnderwayIsFinite ==
  IsFiniteSet(Underway) /\ Cardinality(Underway) \in Nat /\ Cardinality(Slots) \in Nat
  /\ Cardinality(Underway) <= Cardinality(Slots)
<1>1. Underway \in SUBSET Slots
  BY DEF Underway
<1> QED BY <1>1, SlotsAssumption, FS_Subset, FS_CardinalityType

LEMMA NextGuessesAreBounded ==
  TypeOK /\ RepliesMatch /\ LockMatchesFailures /\ GuessesAreBounded /\ [Next]_vars
    => GuessesAreBounded'
<1> SUFFICES ASSUME TypeOK, RepliesMatch, LockMatchesFailures, GuessesAreBounded, [Next]_vars
             PROVE  GuessesAreBounded'
  OBVIOUS
<1> USE DEF lockout
<1> DEFINE N == Cardinality(Slots)
           U == Cardinality(Underway)
<1>0. /\ MaxFailures \in Nat \ {0} /\ failures \in Nat /\ N \in Nat /\ U \in Nat
      /\ failures + U < MaxFailures + N
  BY MaxFailuresAssumption, UnderwayIsFinite DEF TypeOK, GuessesAreBounded
<1>1. Underway' \in SUBSET Slots
  BY DEF Underway
<1>2. Cardinality(Underway') \in Nat /\ Cardinality(Underway') <= N
  BY <1>1, SlotsAssumption, FS_Subset, FS_CardinalityType
<1>3. ASSUME Underway' = Underway, failures' <= failures PROVE GuessesAreBounded'
  <2>1. failures' \in Nat
    BY NextTypeOK DEF TypeOK
  <2>2. failures' + U < MaxFailures + N
    BY <1>0, <1>3, <2>1
  <2> QED BY <1>3, <2>2 DEF GuessesAreBounded
<1>4. ASSUME NEW c \in Slots, server[c] \in {"reading", "started"},
             server' = [server EXCEPT ![c] = server'[c]],
             server'[c] \notin {"reading", "started"}
      PROVE  Cardinality(Underway') = U - 1
  <2>1. Underway' = Underway \ {c} /\ c \in Underway
    BY <1>4 DEF Underway, TypeOK
  <2> QED BY <2>1, UnderwayIsFinite, FS_RemoveElement
<1>5. CASE UNCHANGED <<server, failures>>
  BY <1>0, <1>3, <1>5 DEF Underway
<1>6. ASSUME NEW c \in Slots, NEW present \in BOOLEAN, Begin(c, present)
      PROVE  GuessesAreBounded'
  <2>1. Underway' = Underway
    BY <1>6 DEF Begin, Underway, TypeOK, ServerEnded, RepliesMatch
  <2> QED BY <1>0, <1>3, <1>6, <2>1 DEF Begin
<1>7. ASSUME NEW c \in Slots, Accept(c) PROVE GuessesAreBounded'
  <2>1. CASE IsLocked
    <3>1. Underway' = Underway
      BY <1>7, <2>1 DEF Accept, Reject, Underway, TypeOK
    <3> QED BY <1>0, <1>3, <1>7, <2>1, <3>1 DEF Accept, ForgetLockout, IsLocked
  <2>2. CASE ~IsLocked
    <3>1. failures' \in Nat /\ failures' < MaxFailures
      BY <1>0, <1>7, <2>2 DEF Accept, ForgetLockout, IsLocked, LockMatchesFailures, TypeOK
    <3>2. failures' + Cardinality(Underway') < MaxFailures + N
      BY <1>0, <1>2, <3>1
    <3> QED BY <3>2 DEF GuessesAreBounded
  <2> QED BY <2>1, <2>2
<1>8. ASSUME NEW c \in Slots, StartExchange(c) PROVE GuessesAreBounded'
  <2>1. Underway' = Underway
    BY <1>8 DEF StartExchange, Underway, TypeOK
  <2> QED BY <1>0, <1>3, <1>8, <2>1 DEF StartExchange
<1>9. ASSUME NEW c \in Slots, WrongPin(c) PROVE GuessesAreBounded'
  <2>1. failures' = failures + 1
    BY <1>9 DEF WrongPin, RecordFailure
  <2>2. Cardinality(Underway') = U - 1
    BY <1>4, <1>9 DEF WrongPin, Reject, TypeOK
  <2>3. failures' + Cardinality(Underway') < MaxFailures + N
    BY <1>0, <2>1, <2>2
  <2> QED BY <2>3 DEF GuessesAreBounded
<1>10. ASSUME NEW c \in Slots, Provision(c) \/ ServerFails(c) PROVE GuessesAreBounded'
  <2>1. failures' = failures
    BY <1>10 DEF Provision, ServerFails
  <2>2. Cardinality(Underway') = U - 1
    BY <1>4, <1>10 DEF Provision, ServerFails, Reject, TypeOK
  <2>3. failures' + Cardinality(Underway') < MaxFailures + N
    BY <1>0, <2>1, <2>2
  <2> QED BY <2>3 DEF GuessesAreBounded
<1>11. ASSUME NEW c \in Slots, Record(c) \/ Report(c) PROVE GuessesAreBounded'
  <2>1. Underway' = Underway
    BY <1>11 DEF Record, Report, Underway, TypeOK
  <2>2. failures' <= failures
    BY <1>0, <1>11 DEF Record, RecordSuccess, Report
  <2> QED BY <1>3, <2>1, <2>2
<1> QED BY <1>5, <1>6, <1>7, <1>8, <1>9, <1>10, <1>11
        DEF Next, Expire, LockoutEnds, Tick, Persist, TakeReply, ClientFails, vars

\* Between two resets of the counter, at most MaxFailures - 1 + |Slots| PINs
\* are tried: overlapping exchanges cannot get round the limit by more.
THEOREM GuessesBounded == Spec => []GuessesAreBounded
<1>1. Init => GuessesAreBounded
  <2> SUFFICES ASSUME Init PROVE GuessesAreBounded
    OBVIOUS
  <2>1. Underway = {}
    BY DEF Init, Underway
  <2>2. Cardinality(Underway) = 0
    BY <2>1, FS_EmptySet
  <2> QED BY <2>2, MaxFailuresAssumption, UnderwayIsFinite DEF Init, GuessesAreBounded
<1> QED BY <1>1, NextGuessesAreBounded, RepliesAgree, LockAgrees, TypeCorrect, PTL DEF Spec

=============================================================================
