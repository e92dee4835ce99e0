---------------------------- MODULE ClipboardSync ----------------------------
(***************************************************************************)
(* Clipboard synchronisation between the server and its clients: on every  *)
(* machine the monitor of crates/ss-clipboard/src/monitor.rs, the task of  *)
(* src/main.rs that forwards what it detects, and the task that writes     *)
(* what arrives and then tells the monitor not to send it back.            *)
(*                                                                         *)
(*   user --> clipboard --poll--> monitor --changes--> forwarder --> peers *)
(*                ^                  ^                                     *)
(*                +---- receiver ----+ suppress                            *)
(*                                                                         *)
(* The receiver writes first and tells afterwards, through a channel the   *)
(* monitor reads between polls: a poll may come in between.  Contents are  *)
(* compared by their hash, so a content stands for its hash.               *)
(***************************************************************************)
EXTENDS Naturals, Sequences

CONSTANTS Server, Clients,   \* the machines
          Contents,          \* what may be copied
          TooLarge,          \* images above MAX_CLIPBOARD_IMAGE_SIZE
          QueueCap,          \* capacity of the monitor's channels (16)
          NetCap,            \* contents a broadcast channel holds
          MaxCopies          \* bound on what the users copy

ASSUME ServerAssumption   == Server \notin Clients
ASSUME TooLargeAssumption == TooLarge \subseteq Contents
ASSUME CapsAssumption     == QueueCap \in Nat \ {0} /\ NetCap \in Nat \ {0} /\ MaxCopies \in Nat

Nothing == "nothing"
ASSUME NothingAssumption  == Nothing \notin Contents

Machines == Clients \cup {Server}

\* A client talks to the server, the server to every client.
Peers(m) == IF m = Server THEN Clients ELSE {Server}

VARIABLES
  clipboard,                        \* the system clipboard
  last_hash, remote_hash, recent,   \* ClipboardMonitor; recent: the last
                                    \* remote write is less than 1 s old
  detected,                         \* the change the monitor is handing over
  changes, suppress,                \* the monitor's two channels
  incoming,                         \* contents under way to the machine
  written,                          \* written, and the monitor not yet told
  had,                              \* history: contents the clipboard had
  origin,                           \* history: how the present one got there
  unshared,                         \* history: peers a copy has not reached
  copies                            \* history: how often a user has copied

monitor == <<last_hash, remote_hash, recent>>
tasks   == <<detected, changes, suppress, incoming, written>>
history == <<had, origin, unshared, copies>>
vars    == <<clipboard, monitor, tasks, history>>

Init ==
  /\ clipboard = [m \in Machines |-> Nothing]
  /\ last_hash = [m \in Machines |-> Nothing]
  /\ remote_hash = [m \in Machines |-> Nothing]
  /\ recent = [m \in Machines |-> FALSE]
  /\ detected = [m \in Machines |-> Nothing]
  /\ changes = [m \in Machines |-> <<>>] /\ suppress = [m \in Machines |-> <<>>]
  /\ incoming = [m \in Machines |-> <<>>]
  /\ written = [m \in Machines |-> Nothing]
  /\ had = [m \in Machines |-> {}]
  /\ origin = [m \in Machines |-> "nobody"]
  /\ unshared = [m \in Machines |-> {}]
  /\ copies = 0

SetClipboard(m, c, who) ==
  /\ clipboard' = [clipboard EXCEPT ![m] = c]
  /\ had' = [had EXCEPT ![m] = @ \cup {c}]
  /\ origin' = [origin EXCEPT ![m] = who]

\* A user copies something else than what is there, for the first time on
\* this machine or again.
Copy(m, c) ==
  /\ copies < MaxCopies /\ c # clipboard[m]
  /\ copies' = copies + 1
  /\ SetClipboard(m, c, IF c \in had[m] THEN "again" ELSE "fresh")
  /\ unshared' = [unshared EXCEPT ![m] = Peers(m)]
  /\ UNCHANGED <<monitor, tasks>>

-----------------------------------------------------------------------------
(* The monitor.                                                            *)

\* Mutant: any remote content suppresses, not only the last one.
IsSuppressedOnce(m, hash) == remote_hash[m] # Nothing \/ recent[m]

IsSuppressed(m, hash) == hash = remote_hash[m] \/ recent[m]

\* Mutant: the state the polling thread worked on is not copied back.
PollForgets(m) ==
  /\ detected[m] = Nothing
  /\ clipboard[m] # Nothing
  /\ ~IsSuppressed(m, clipboard[m]) /\ last_hash[m] # clipboard[m]
  /\ detected' = [detected EXCEPT ![m] = clipboard[m]]
  /\ UNCHANGED <<clipboard, monitor, changes, suppress, incoming, written, history>>

\* A poll that detects a change; other polls change nothing.
Poll(m) ==
  /\ detected[m] = Nothing
  /\ clipboard[m] # Nothing
  /\ ~IsSuppressed(m, clipboard[m]) /\ last_hash[m] # clipboard[m]
  /\ last_hash' = [last_hash EXCEPT ![m] = clipboard[m]]
  /\ detected' = [detected EXCEPT ![m] = clipboard[m]]
  /\ UNCHANGED <<clipboard, remote_hash, recent, changes, suppress, incoming, written, history>>

\* change_tx.send: waits for room, and the monitor waits with it.
HandOver(m) ==
  /\ detected[m] # Nothing /\ Len(changes[m]) < QueueCap
  /\ changes' = [changes EXCEPT ![m] = Append(@, detected[m])]
  /\ detected' = [detected EXCEPT ![m] = Nothing]
  /\ UNCHANGED <<clipboard, monitor, suppress, incoming, written, history>>

\* Mutant: the window is opened and the hash not kept.
MarkWindowOnly(m) ==
  /\ detected[m] = Nothing /\ suppress[m] # <<>>
  /\ recent' = [recent EXCEPT ![m] = TRUE]
  /\ suppress' = [suppress EXCEPT ![m] = Tail(@)]
  /\ UNCHANGED <<clipboard, last_hash, remote_hash, detected, changes, incoming, written, history>>

\* suppress(hash).
Mark(m) ==
  /\ detected[m] = Nothing /\ suppress[m] # <<>>
  /\ remote_hash' = [remote_hash EXCEPT ![m] = Head(suppress[m])]
  /\ recent' = [recent EXCEPT ![m] = TRUE]
  /\ suppress' = [suppress EXCEPT ![m] = Tail(@)]
  /\ UNCHANGED <<clipboard, last_hash, detected, changes, incoming, written, history>>

\* CLIPBOARD_SUPPRESSION_MS have elapsed.
Expire(m) ==
  /\ recent[m]
  /\ recent' = [recent EXCEPT ![m] = FALSE]
  /\ UNCHANGED <<clipboard, last_hash, remote_hash, tasks, history>>

-----------------------------------------------------------------------------
(* The tasks of main.rs.                                                   *)

\* A content reaches a machine through a broadcast channel, which never makes
\* the sender wait: when it is full its oldest content is lost.
Arrive(queue, c) ==
  IF Len(queue) < NetCap THEN Append(queue, c) ELSE Append(Tail(queue), c)

\* prepare_transfer, then the messages to every peer's data channel.
Forward(m) ==
  /\ changes[m] # <<>>
  /\ changes' = [changes EXCEPT ![m] = Tail(@)]
  /\ incoming' = [p \in Machines |->
       IF p \in Peers(m) /\ Head(changes[m]) \notin TooLarge
       THEN Arrive(incoming[p], Head(changes[m])) ELSE incoming[p]]
  /\ UNCHANGED <<clipboard, monitor, detected, suppress, written, history>>

\* The receiver writes the clipboard ...
Write(m) ==
  /\ incoming[m] # <<>> /\ written[m] = Nothing
  /\ SetClipboard(m, Head(incoming[m]), "remote")
  /\ unshared' = [p \in Machines |->
       IF p = m THEN {}
       ELSE IF clipboard[p] = Head(incoming[m]) THEN unshared[p] \ {m} ELSE unshared[p]]
  /\ written' = [written EXCEPT ![m] = Head(incoming[m])]
  /\ incoming' = [incoming EXCEPT ![m] = Tail(@)]
  /\ UNCHANGED <<monitor, detected, changes, suppress, copies>>

\* ... and then tells the monitor, waiting for room.
Tell(m) ==
  /\ written[m] # Nothing /\ Len(suppress[m]) < QueueCap
  /\ suppress' = [suppress EXCEPT ![m] = Append(@, written[m])]
  /\ written' = [written EXCEPT ![m] = Nothing]
  /\ UNCHANGED <<clipboard, monitor, detected, changes, incoming, history>>

Next ==
  \E m \in Machines :
    \/ \E c \in Contents : Copy(m, c)
    \/ Poll(m) \/ HandOver(m) \/ Mark(m) \/ Expire(m)
    \/ Forward(m) \/ Write(m) \/ Tell(m)

Spec == Init /\ [][Next]_vars

\* Every task runs and time passes; the users owe nothing.
Fairness ==
  \A m \in Machines :
    /\ WF_vars(Poll(m)) /\ WF_vars(HandOver(m)) /\ WF_vars(Mark(m)) /\ WF_vars(Expire(m))
    /\ WF_vars(Forward(m)) /\ WF_vars(Write(m)) /\ WF_vars(Tell(m))

FairSpec == Spec /\ Fairness

-----------------------------------------------------------------------------
(* Properties.                                                             *)

Maybe == Contents \cup {Nothing}

TypeOK ==
  /\ clipboard \in [Machines -> Maybe] /\ written \in [Machines -> Maybe]
  /\ detected \in [Machines -> Maybe]
  /\ last_hash \in [Machines -> Maybe] /\ remote_hash \in [Machines -> Maybe]
  /\ recent \in [Machines -> BOOLEAN]
  /\ changes \in [Machines -> Seq(Contents)] /\ suppress \in [Machines -> Seq(Contents)]
  /\ incoming \in [Machines -> Seq(Contents \ TooLarge)]
  /\ \A m \in Machines :
       Len(changes[m]) <= QueueCap /\ Len(suppress[m]) <= QueueCap /\ Len(incoming[m]) <= NetCap
  /\ had \in [Machines -> SUBSET Contents]
  /\ origin \in [Machines -> {"nobody", "fresh", "again", "remote"}]
  /\ unshared \in [Machines -> SUBSET Machines]
  /\ copies \in 0 .. MaxCopies

\* The monitor has been told of the last content that arrived.
Settled(m) == written[m] = Nothing /\ suppress[m] = <<>>

\* A content that came from a peer goes back only through the window between
\* the write and the mark: once the monitor has been told, neither the end of
\* the one-second window nor any number of polls sends it.
SettledIsNotEchoed ==
  [][\A m \in Machines :
       last_hash'[m] # last_hash[m] /\ origin[m] = "remote" => ~Settled(m)]_vars

Silent ==
  \A m \in Machines :
    detected[m] = Nothing /\ changes[m] = <<>> /\ incoming[m] = <<>>

\* One copy makes no loop: the traffic it causes dies down, even if the echo
\* gets through that window.
OneCopyEndsSilent == (<>[](copies <= 1)) => <>[]Silent

\* Content c, copied by a user of m, reaches peer p, which has another one,
\* unless it is replaced.
Reaches(m, p, c, how) ==
  (clipboard[m] = c /\ origin[m] \in how /\ p \in unshared[m] /\ clipboard[p] # c)
    ~> (clipboard[m] # c \/ p \notin unshared[m] \/ clipboard[p] = c)

\* What is copied for the first time on a machine reaches every peer, unless
\* the clipboard has changed again: no suppression swallows it for good.
FreshCopyIsShared ==
  \A m \in Machines : \A p \in Peers(m), c \in Contents \ TooLarge :
    Reaches(m, p, c, {"fresh"})
=============================================================================
