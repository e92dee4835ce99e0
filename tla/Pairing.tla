------------------------------- MODULE Pairing -------------------------------
(***************************************************************************)
(* Pairing a device by a PIN: the exchange between                         *)
(* crates/ss-network/src/pairing/client.rs and server.rs, the PinManager   *)
(* that all exchanges of a server share, and the task of src/main.rs that  *)
(* writes the paired devices into the configuration.                       *)
(*                                                                         *)
(* A slot is a connection with the two tasks at its ends; it is used again *)
(* when nothing of its last exchange is left, so Slots bounds how many     *)
(* exchanges overlap and not how many there are.  Of a PIN only matters    *)
(* which others it equals: the sets current_typed and current_used hold    *)
(* the slots that have the PIN the PinManager has now, and same_pin those  *)
(* whose two ends have one PIN, so that they derive one key and the        *)
(* confirmation can be opened.  A new PIN is random, and taken to be one   *)
(* that nobody has.  A read that times out and one that finds the          *)
(* connection broken are the same step, which may happen at any time.      *)
(***************************************************************************)
EXTENDS Integers, Sequences, FiniteSets

CONSTANTS Slots,        \* connections to the pairing port at the same time
          MaxFailures,  \* max_failures (5 in the code)
          PairedCap     \* capacity of the channel on_paired (8 in the code)

ASSUME SlotsAssumption       == IsFiniteSet(Slots)
ASSUME MaxFailuresAssumption == MaxFailures \in Nat \ {0}
ASSUME PairedCapAssumption   == PairedCap \in Nat \ {0}

VARIABLES
  stale,             \* PinState: generated_at lies more than the ttl back
  failures, lock,    \* PinState: failures, and locked_until against the clock
  client, server,    \* where the two tasks of a slot are
  current_typed,     \* slots whose user entered the present PIN
  current_used,      \* slots whose exchange the server started with it
  same_pin,          \* slots with the same PIN at both ends
  confirm,           \* slots in which the client has sent PairConfirm
  reply,             \* messages that wait for the client
  on_paired,         \* the mpsc channel of pairings to be written
  paired_clients     \* slots whose last pairing is in the configuration

pins    == <<stale, current_typed, current_used>>
lockout == <<failures, lock>>
book    == <<on_paired, paired_clients>>
vars    == <<pins, same_pin, lockout, client, server, confirm, reply, book>>

ClientEnded == {"paired", "badpin", "failed"}
ServerEnded == {"done", "failed"}

Init ==
  /\ stale = FALSE /\ current_typed = {} /\ current_used = {} /\ same_pin = {}
  /\ failures = 0 /\ lock = "open"
  /\ client = [c \in Slots |-> "idle"]
  /\ server = [c \in Slots |-> "idle"]
  /\ confirm = {}
  /\ reply = [c \in Slots |-> <<>>]
  /\ on_paired = <<>> /\ paired_clients = {}

-----------------------------------------------------------------------------
(* PinManager.                                                             *)

\* generate_pin(): nobody has the new PIN, and its time to live begins.
NewPin == stale' = FALSE /\ current_typed' = {} /\ current_used' = {}

\* is_locked(): a lockout that is over is forgotten, with its failures.
IsLocked == lock = "locked"

ForgetLockout ==
  IF lock = "over" THEN failures' = 0 /\ lock' = "open" ELSE UNCHANGED lockout

RecordFailure ==
  /\ failures' = failures + 1
  /\ lock' = IF failures' >= MaxFailures THEN "locked" ELSE lock

\* Mutants: the lockout survives a success, or the PIN does.
RecordSuccessKeepsLock == NewPin /\ failures' = 0 /\ UNCHANGED lock
RecordSuccessKeepsPin  == failures' = 0 /\ lock' = "open" /\ UNCHANGED pins

RecordSuccess == NewPin /\ failures' = 0 /\ lock' = "open"

\* Time passes: the time to live, the lockout; and once a second the task
\* that shows the PIN calls current_pin().
Expire ==
  /\ ~stale /\ stale' = TRUE
  /\ UNCHANGED <<current_typed, current_used, same_pin, lockout, client, server>>
  /\ UNCHANGED <<confirm, reply, book>>

LockoutEnds ==
  /\ lock = "locked" /\ lock' = "over"
  /\ UNCHANGED <<pins, same_pin, failures, client, server, confirm, reply, book>>

Tick ==
  /\ stale /\ NewPin
  /\ UNCHANGED <<same_pin, lockout, client, server, confirm, reply, book>>

-----------------------------------------------------------------------------
(* The client: pair_with_server.                                           *)

\* Connect, send PairRequest and PairSpake.  The user has entered the PIN on
\* display, or another.
Begin(c, entered_present) ==
  /\ client[c] = "idle" \/ (client[c] \in ClientEnded /\ server[c] \in ServerEnded)
  /\ \A i \in DOMAIN on_paired : on_paired[i] # c
  /\ client' = [client EXCEPT ![c] = "asked"]
  /\ server' = [server EXCEPT ![c] = "idle"]
  /\ current_typed' = IF entered_present THEN current_typed \cup {c} ELSE current_typed \ {c}
  /\ current_used' = current_used \ {c}
  /\ same_pin' = same_pin \ {c}
  /\ confirm' = confirm \ {c}
  /\ reply' = [reply EXCEPT ![c] = <<>>]
  /\ paired_clients' = paired_clients \ {c}
  /\ UNCHANGED <<stale, lockout, on_paired>>

\* Mutant: any error in answer to the confirmation is taken for a wrong PIN.
TakeReplyBadPin(c) ==
  /\ reply[c] # <<>>
  /\ reply' = [reply EXCEPT ![c] = Tail(@)]
  /\ \/ /\ client[c] = "asked" /\ Head(reply[c]) = "PairSpake"
        /\ client' = [client EXCEPT ![c] = "confirmed"]
        /\ confirm' = confirm \cup {c}
     \/ /\ client[c] = "confirmed"
        /\ client' = [client EXCEPT ![c] =
                         IF Head(reply[c]) = "PairResult" THEN "paired" ELSE "badpin"]
        /\ UNCHANGED confirm
  /\ UNCHANGED <<pins, same_pin, lockout, server, book>>

\* Take the next reply.  An error that mentions the PIN is BadPin, but only in
\* answer to the confirmation; any other ends in Rejected.
TakeReply(c) ==
  /\ reply[c] # <<>>
  /\ reply' = [reply EXCEPT ![c] = Tail(@)]
  /\ \/ /\ client[c] = "asked" /\ Head(reply[c]) = "PairSpake"
        /\ client' = [client EXCEPT ![c] = "confirmed"]
        /\ confirm' = confirm \cup {c}
     \/ /\ client[c] = "confirmed" /\ Head(reply[c]) = "PairResult"
        /\ client' = [client EXCEPT ![c] = "paired"]
        /\ UNCHANGED confirm
     \/ /\ client[c] = "confirmed" /\ Head(reply[c]) = "PinError"
        /\ client' = [client EXCEPT ![c] = "badpin"]
        /\ UNCHANGED confirm
     \/ /\ \/ client[c] = "asked" /\ Head(reply[c]) = "PinError"
           \/ client[c] \in {"asked", "confirmed"} /\ Head(reply[c]) = "OtherError"
        /\ client' = [client EXCEPT ![c] = "failed"]
        /\ UNCHANGED confirm
  /\ UNCHANGED <<pins, same_pin, lockout, server, book>>

\* 30 seconds pass, or the connection breaks and takes the replies with it.
ClientFails(c) ==
  /\ client[c] \in {"asked", "confirmed"}
  /\ client' = [client EXCEPT ![c] = "failed"]
  /\ reply' = [reply EXCEPT ![c] = <<>>]
  /\ UNCHANGED <<pins, same_pin, lockout, server, confirm, book>>

-----------------------------------------------------------------------------
(* The server: handle_pairing, and what its caller does with an error.     *)

\* A write succeeds whether or not the client is still there to read it.
Send(c, msg) ==
  reply' = IF client[c] \in {"asked", "confirmed"}
           THEN [reply EXCEPT ![c] = Append(@, msg)] ELSE reply

\* The error is sent to the client, best effort.
Reject(c, error) ==
  /\ server' = [server EXCEPT ![c] = "failed"]
  /\ Send(c, error) \/ UNCHANGED reply

\* Mutant: nobody asks whether pairing is locked.
AcceptAlways(c) ==
  /\ client[c] # "idle" /\ server[c] = "idle"
  /\ ForgetLockout
  /\ server' = [server EXCEPT ![c] = "reading"]
  /\ UNCHANGED <<pins, same_pin, client, confirm, reply, book>>

\* handle_pairing begins: is_locked().
Accept(c) ==
  /\ client[c] # "idle" /\ server[c] = "idle"
  /\ ForgetLockout
  /\ IF IsLocked THEN Reject(c, "OtherError")
                 ELSE server' = [server EXCEPT ![c] = "reading"] /\ UNCHANGED reply
  /\ UNCHANGED <<pins, same_pin, client, confirm, book>>

\* PairRequest and PairSpake have been read: take the PIN and answer.
StartExchange(c) ==
  /\ server[c] = "reading"
  /\ stale' = FALSE
  /\ current_typed' = IF stale THEN {} ELSE current_typed
  /\ current_used' = (IF stale THEN {} ELSE current_used) \cup {c}
  /\ same_pin' = IF c \in current_typed' THEN same_pin \cup {c} ELSE same_pin
  /\ server' = [server EXCEPT ![c] = "started"]
  /\ Send(c, "PairSpake")
  /\ UNCHANGED <<lockout, client, confirm, book>>

\* The confirmation cannot be opened: the PINs differ.
WrongPin(c) ==
  /\ server[c] = "started" /\ c \in confirm /\ c \notin same_pin
  /\ RecordFailure
  /\ Reject(c, "PinError")
  /\ UNCHANGED <<pins, same_pin, client, confirm, book>>

\* Mutant: the failure is recorded and the exchange goes on.
ProvisionAnyway(c) ==
  /\ server[c] = "started" /\ c \in confirm
  /\ server' = [server EXCEPT ![c] = "provisioned"]
  /\ Send(c, "PairResult")
  /\ UNCHANGED <<pins, same_pin, lockout, client, confirm, book>>

\* The confirmation is opened, the certificate signed and sent.
Provision(c) ==
  /\ server[c] = "started" /\ c \in confirm /\ c \in same_pin
  /\ server' = [server EXCEPT ![c] = "provisioned"]
  /\ Send(c, "PairResult")
  /\ UNCHANGED <<pins, same_pin, lockout, client, confirm, book>>

\* A read times out or breaks, the certificate cannot be signed, or a write
\* fails.  None of these counts as a failed attempt.
ServerFails(c) ==
  /\ server[c] \in {"reading", "started"}
  /\ Reject(c, "OtherError")
  /\ UNCHANGED <<pins, same_pin, lockout, client, confirm, book>>

\* The result is out.
Record(c) ==
  /\ server[c] = "provisioned"
  /\ RecordSuccess
  /\ server' = [server EXCEPT ![c] = "recorded"]
  /\ UNCHANGED <<same_pin, client, confirm, reply, book>>

\* Mutant: try_send, which drops the record when the channel is full.
ReportAtOnce(c) ==
  /\ server[c] = "recorded"
  /\ on_paired' = IF Len(on_paired) < PairedCap THEN Append(on_paired, c) ELSE on_paired
  /\ server' = [server EXCEPT ![c] = "done"]
  /\ UNCHANGED <<pins, same_pin, lockout, client, confirm, reply, paired_clients>>

\* on_paired.send() waits for room.
Report(c) ==
  /\ server[c] = "recorded" /\ Len(on_paired) < PairedCap
  /\ on_paired' = Append(on_paired, c)
  /\ server' = [server EXCEPT ![c] = "done"]
  /\ UNCHANGED <<pins, same_pin, lockout, client, confirm, reply, paired_clients>>

\* The task in main.rs: load the configuration, insert the client, save.
Persist ==
  /\ on_paired # <<>>
  /\ paired_clients' = paired_clients \cup {Head(on_paired)}
  /\ on_paired' = Tail(on_paired)
  /\ UNCHANGED <<pins, same_pin, lockout, client, server, confirm, reply>>

Next ==
  \/ Expire \/ LockoutEnds \/ Tick \/ Persist
  \/ \E c \in Slots :
       \/ Begin(c, TRUE) \/ Begin(c, FALSE)
       \/ TakeReply(c) \/ ClientFails(c)
       \/ Accept(c) \/ StartExchange(c) \/ WrongPin(c) \/ Provision(c)
       \/ ServerFails(c) \/ Record(c) \/ Report(c)

Spec == Init /\ [][Next]_vars

\* The server's tasks run.  A sender waiting on a full channel gets its turn:
\* tokio's channel serves waiting senders in order.
Fairness ==
  /\ WF_vars(Persist)
  /\ \A c \in Slots : WF_vars(Record(c)) /\ SF_vars(Report(c))

FairSpec == Spec /\ Fairness
-----------------------------------------------------------------------------
(* Properties.                                                             *)

ClientStates == {"idle", "asked", "confirmed"} \cup ClientEnded
ServerStates == {"idle", "reading", "started", "provisioned", "recorded"} \cup ServerEnded

TypeOK ==
  /\ stale \in BOOLEAN /\ current_typed \subseteq Slots /\ current_used \subseteq Slots
  /\ same_pin \subseteq Slots /\ confirm \subseteq Slots
  /\ failures \in Nat /\ lock \in {"open", "locked", "over"}
  /\ client \in [Slots -> ClientStates] /\ server \in [Slots -> ServerStates]
  /\ reply \in [Slots -> Seq({"PairSpake", "PairResult", "PinError", "OtherError"})]
  /\ on_paired \in Seq(Slots) /\ Len(on_paired) <= PairedCap
  /\ paired_clients \subseteq Slots

\* The counter and the clock of the lockout agree at all times, whatever
\* successes, failures and expiries of overlapping exchanges do to either.
LockMatchesFailures == lock = "open" <=> failures < MaxFailures

\* Exchanges that were let in before the lockout may still fail after it, but
\* no more than that: between two resets of the counter at most
\* MaxFailures - 1 + |Slots| PINs are tried.
Underway == {c \in Slots : server[c] \in {"reading", "started"}}

GuessesAreBounded ==
  failures + Cardinality(Underway) < MaxFailures + Cardinality(Slots)

\* A client that holds a certificate entered the PIN the server had when their
\* exchange started, and the server is about to record it or has done so.
PairedWasProvisioned ==
  \A c \in Slots : client[c] = "paired" =>
    c \in same_pin /\ server[c] \in {"provisioned", "recorded", "done"}

\* device-pairing/spec.md:48: a pairing that succeeds uses its PIN up.  Once
\* it is recorded, no exchange that starts is checked against that PIN.
SpentPinIsGone ==
  \A c \in Slots : server[c] \in {"recorded", "done"} => c \notin current_used

\* The user is told that the PIN was wrong only if it was: not when the server
\* was locked, gave up or failed to sign.
BadPinWasWrong ==
  \A c \in Slots : client[c] = "badpin" => server[c] = "failed" /\ c \notin same_pin

\* The two above, said of the replies that are still on their way as well, and
\* that the server does nothing in a slot without a connection.  (With TypeOK
\* this is inductive.)
Gets(c, msg) == \E i \in DOMAIN reply[c] : reply[c][i] = msg

RepliesMatch ==
  \A c \in Slots :
    /\ client[c] = "idle" => server[c] = "idle"
    /\ client[c] = "paired" \/ Gets(c, "PairResult") =>
         c \in same_pin /\ server[c] \in {"provisioned", "recorded", "done"}
    /\ client[c] = "badpin" \/ Gets(c, "PinError") =>
         server[c] = "failed" /\ c \notin same_pin

\* A device that got its certificate ends up in the server's configuration.
PairedIsRecorded ==
  \A c \in Slots : client[c] = "paired" ~> c \in paired_clients

=============================================================================
