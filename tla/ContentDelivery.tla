--------------------------- MODULE ContentDelivery ---------------------------
(***************************************************************************)
(* What the clipboard's connections promise a client, with nothing of how  *)
(* contents travel: what the server sends comes out in the order it was    *)
(* sent, whole, and once; it is lost with the connection, and not before,  *)
(* unless the client falls behind and is overrun.  Then contents may be    *)
(* skipped, and no longer be whole, until it connects again.               *)
(***************************************************************************)
EXTENDS Naturals, Sequences

CONSTANTS Clients, Contents

VARIABLES online,    \* per client: it is connected
          pending,   \* per client: sent to it and not yet come out
          got,       \* per client: the last that came out, as a pair: it is
                     \* whole if both are the same content
          overrun    \* per client: it has fallen behind

vars == <<online, pending, got, overrun>>

Nothing == "none"

Init ==
  /\ online = [c \in Clients |-> FALSE]
  /\ pending = [c \in Clients |-> <<>>]
  /\ got = [c \in Clients |-> <<Nothing, Nothing>>]
  /\ overrun = [c \in Clients |-> FALSE]

Connect(c) ==
  /\ ~online[c]
  /\ online' = [online EXCEPT ![c] = TRUE]
  /\ UNCHANGED <<pending, got, overrun>>

\* A new connection starts with nothing.
Disconnect(c) ==
  /\ online[c]
  /\ online' = [online EXCEPT ![c] = FALSE]
  /\ pending' = [pending EXCEPT ![c] = <<>>]
  /\ got' = [got EXCEPT ![c] = <<Nothing, Nothing>>]
  /\ overrun' = [overrun EXCEPT ![c] = FALSE]

\* The server sends to whoever is connected.
Send(x) ==
  /\ pending' = [c \in Clients |-> IF online[c] THEN Append(pending[c], x) ELSE pending[c]]
  /\ UNCHANGED <<online, got, overrun>>

FallBehind(c) ==
  /\ online[c]
  /\ overrun' = [overrun EXCEPT ![c] = TRUE]
  /\ UNCHANGED <<online, pending, got>>

\* The next content comes out.
Deliver(c) ==
  /\ pending[c] # <<>>
  /\ got' = [got EXCEPT ![c] = <<Head(pending[c]), Head(pending[c])>>]
  /\ pending' = [pending EXCEPT ![c] = Tail(@)]
  /\ UNCHANGED <<online, overrun>>

\* At a client that was overrun, a later one may, and not be whole.
Skip(c) ==
  /\ overrun[c]
  /\ \E i \in DOMAIN pending[c] : \E d \in Contents \cup {Nothing} :
       /\ got' = [got EXCEPT ![c] = <<d, pending[c][i]>>]
       /\ pending' = [pending EXCEPT ![c] = SubSeq(@, i + 1, Len(@))]
  /\ UNCHANGED <<online, overrun>>

Next ==
  \/ \E c \in Clients : Connect(c) \/ Disconnect(c) \/ FallBehind(c) \/ Deliver(c) \/ Skip(c)
  \/ \E x \in Contents : Send(x)

Spec == Init /\ [][Next]_vars
=============================================================================
