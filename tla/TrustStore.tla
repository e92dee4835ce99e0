------------------------------ MODULE TrustStore ------------------------------
(***************************************************************************)
(* What a machine keeps on disk, and who writes it: config.toml with the   *)
(* known servers and the paired clients, the server's CA and certificate   *)
(* (ensure_server_ca of crates/ss-network/src/cert.rs), and the material   *)
(* pairing leaves a client for every server (crates/ss-core/src/config.rs).*)
(*                                                                         *)
(* Three tasks write: the command handler, when it starts the server or    *)
(* has paired, from the copy of the configuration it loaded at the launch; *)
(* the GUI, from a copy of its own of the same age; and the task that      *)
(* records paired clients, which loads the file each time.  Nothing keeps  *)
(* them apart.  std::fs::write empties the file before it fills it, and    *)
(* the process may end at any moment: a file may be found empty or cut     *)
(* short, which AppConfig::load takes for no configuration at all.         *)
(*                                                                         *)
(* Keys, certificates and provisioned material are numbers, one for every  *)
(* time something is generated: what is signed or made together bears the  *)
(* same number.                                                            *)
(***************************************************************************)
EXTENDS Naturals, Sequences

CONSTANTS Addresses,   \* servers this machine connects to
          Devices,     \* clients that pair with this machine
          MaxFresh,    \* bound on what is generated
          MaxExits     \* bound on how often the process ends

ASSUME BoundsAssumption == MaxFresh \in Nat /\ MaxExits \in Nat

Own == "own"

ASSUME AddressesAssumption == Addresses \cap {Own, "nothing", "starting"} = {}

Config    == <<"config", Own>>
Ca        == <<"ca", Own>>
CaKey     == <<"ca-key", Own>>
Server    == <<"server", Own>>
ServerKey == <<"server-key", Own>>

\* The names keep servers apart: addresses that differ in more than their
\* punctuation, which write_trust_material replaces.
Trust(a) == {<<"cert", a>>, <<"key", a>>, <<"ca", a>>}
Files    == {Config, Ca, CaKey, Server, ServerKey} \cup UNION {Trust(a) : a \in Addresses}

VARIABLES
  files,       \* the disk
  mode,        \* "off", "gui", "server" or "client": how the program runs
  handler,     \* the command handler's copy of the configuration
  gui,         \* the GUI's
  doing,       \* what the handler is in the middle of
  serving,     \* the server's certificates are resolved
  todo,        \* per writer: the files it has yet to write
  open,        \* per writer: it has emptied the first of them
  fresh,       \* how much has been generated
  used,        \* history: the CA a start of the server has gone on with
  recorded,    \* history: servers whose pairing was recorded
  again,       \* history: known servers it has paired with once more
  disturbed,   \* history: the GUI has saved, or writers have overlapped
  cut,         \* history: the process has ended in the middle of writing
  failed,      \* history: a start of the server found no certificates to use
  halved,      \* history: the certificate was deleted, and not its key
  exits        \* history: how often the process has ended

process == <<mode, handler, gui, doing, serving>>
writing == <<todo, open>>
history == <<used, recorded, again, disturbed, cut, failed, halved, exits>>
vars    == <<files, process, writing, fresh, history>>

Writers == {"handler", "gui", "persist"}

Absent   == [is |-> "absent"]
Torn     == [is |-> "torn"]
Whole(x) == [is |-> "whole", what |-> x]

Exists(f)  == files[f] # Absent
IsWhole(f) == files[f].is = "whole"

Unknown == 0
Default == [known |-> [a \in Addresses |-> Unknown], paired |-> {}]

\* AppConfig::load: what cannot be read or parsed is the default.
Load == IF IsWhole(Config) THEN files[Config].what ELSE Default

Init ==
  /\ files = [f \in Files |-> Absent]
  /\ mode = "off" /\ handler = Default /\ gui = Default
  /\ doing = "nothing" /\ serving = FALSE
  /\ todo = [w \in Writers |-> <<>>] /\ open = [w \in Writers |-> FALSE]
  /\ fresh = 0 /\ used = 0
  /\ recorded = {} /\ again = {} /\ exits = 0
  /\ disturbed = FALSE /\ cut = FALSE /\ failed = FALSE /\ halved = FALSE

-----------------------------------------------------------------------------
(* Writing.                                                                *)

Put(f, x) == [file |-> f, content |-> x]
Saving(w) == \E i \in DOMAIN todo[w] : todo[w][i].file = Config
Overlap(w) == \E v \in Writers \ {w} : Saving(v)

\* std::fs::write, first half: the file is created or emptied.
Open(w) ==
  /\ todo[w] # <<>> /\ ~open[w]
  /\ files' = [files EXCEPT ![Head(todo[w]).file] = Torn]
  /\ open' = [open EXCEPT ![w] = TRUE]
  /\ UNCHANGED <<process, todo, fresh, history>>

\* Second half: the content goes in, over what another writer may have put
\* there in the meantime, of which a tail may remain.
Fill(w) ==
  /\ open[w]
  /\ LET f == Head(todo[w]).file IN
     \E x \in {Whole(Head(todo[w]).content), Torn} :
       /\ x = Torn => files[f] # Torn
       /\ files' = [files EXCEPT ![f] = x]
  /\ todo' = [todo EXCEPT ![w] = Tail(@)]
  /\ open' = [open EXCEPT ![w] = FALSE]
  /\ UNCHANGED <<process, fresh, history>>

-----------------------------------------------------------------------------
(* The program.                                                            *)

\* main: the GUI and the command handler get copies of one configuration.
Launch(m) ==
  /\ mode = "off"
  /\ mode' = m
  /\ handler' = Load /\ gui' = Load
  /\ UNCHANGED <<files, doing, serving, writing, fresh, history>>

\* The window is closed, or the process dies: what was being written is cut.
Exit ==
  /\ mode # "off" /\ exits < MaxExits
  /\ mode' = "off" /\ doing' = "nothing" /\ serving' = FALSE
  /\ todo' = [w \in Writers |-> <<>>] /\ open' = [w \in Writers |-> FALSE]
  /\ cut' = (cut \/ \E w \in Writers : todo[w] # <<>>)
  /\ exits' = exits + 1
  /\ UNCHANGED <<files, handler, gui, fresh, used, recorded, again, disturbed, failed, halved>>

\* The user has the server's certificate made anew, for another address.
Delete(fs) ==
  /\ mode = "off" /\ \E f \in fs : Exists(f)
  /\ files' = [f \in Files |-> IF f \in fs THEN Absent ELSE files[f]]
  /\ halved' = (halved \/ (fs = {Server} /\ Exists(ServerKey)))
  /\ UNCHANGED <<process, writing, fresh, used, recorded, again, disturbed, cut, failed, exits>>

-----------------------------------------------------------------------------
(* The server's side.                                                      *)

\* generate_server_cert and the two writes that follow it.
ServerCert(ca, n) == <<Put(Server, [ca |-> ca, key |-> n]), Put(ServerKey, n)>>

\* Mutant: a set with anything missing is made anew.
MissingAnyPart ==
  IF \A f \in {Ca, CaKey, Server, ServerKey} : Exists(f)
  THEN {<<>>}
  ELSE {<<Put(Ca, fresh + 1), Put(CaKey, fresh + 1)>> \o ServerCert(fresh + 1, fresh + 1)}

\* Mutant: only the missing half of the certificate is made anew.
MissingHalf ==
  CASE Exists(Ca) /\ Exists(CaKey) /\ Exists(Server) /\ Exists(ServerKey) -> {<<>>}
    [] Exists(Ca) /\ Exists(CaKey) /\ ~(Exists(Server) /\ Exists(ServerKey)) ->
         IF IsWhole(Ca) /\ IsWhole(CaKey)
         THEN {SelectSeq(ServerCert(files[Ca].what, fresh + 1), LAMBDA p : ~Exists(p.file))}
         ELSE {}
    [] OTHER -> {<<Put(Ca, fresh + 1), Put(CaKey, fresh + 1)>> \o ServerCert(fresh + 1, fresh + 1)}

\* ensure_server_ca: what it will write, or nothing at all when it fails.  A
\* CA that exists is never written again, and a file that is torn exists.
Missing ==
  CASE Exists(Ca) /\ Exists(CaKey) /\ Exists(Server) /\ Exists(ServerKey) -> {<<>>}
    [] Exists(Ca) /\ Exists(CaKey) /\ ~(Exists(Server) /\ Exists(ServerKey)) ->
         IF IsWhole(Ca) /\ IsWhole(CaKey) THEN {ServerCert(files[Ca].what, fresh + 1)} ELSE {}
    [] OTHER -> {<<Put(Ca, fresh + 1), Put(CaKey, fresh + 1)>> \o ServerCert(fresh + 1, fresh + 1)}

\* StartServer: the certificates are resolved, one after the other is written.
StartServer ==
  /\ mode \in {"gui", "server"} /\ doing = "nothing"
  /\ fresh < MaxFresh
  /\ \E puts \in Missing :
       /\ todo' = [todo EXCEPT !["handler"] = puts]
       /\ fresh' = IF puts = <<>> THEN fresh ELSE fresh + 1
  /\ doing' = "starting"
  /\ UNCHANGED <<files, mode, handler, gui, serving, open, history>>

\* A CA or its key is torn: it cannot sign a server certificate, and is kept.
StartFails ==
  /\ mode \in {"gui", "server"} /\ doing = "nothing" /\ Missing = {}
  /\ failed' = TRUE
  /\ UNCHANGED <<files, process, writing, fresh, used, recorded, again, disturbed, cut, halved, exits>>

Usable ==
  /\ IsWhole(Ca) /\ IsWhole(Server) /\ IsWhole(ServerKey)
  /\ files[Server].what.key = files[ServerKey].what

\* The files are read back, and the server goes on with them if it can.
Resolved ==
  /\ doing = "starting" /\ todo["handler"] = <<>>
  /\ doing' = "nothing"
  /\ serving' = Usable
  /\ used' = IF used = 0 /\ Usable THEN files[Ca].what ELSE used
  /\ failed' = (failed \/ ~Usable)
  /\ UNCHANGED <<files, mode, handler, gui, writing, fresh, recorded, again, disturbed, cut, halved, exits>>

\* Mutant: the record is added to the configuration of the launch.
PersistLaunchCopy(d) ==
  /\ serving /\ IsWhole(CaKey) /\ todo["persist"] = <<>>
  /\ todo' = [todo EXCEPT !["persist"] = <<Put(Config, [gui EXCEPT !.paired = @ \cup {d}])>>]
  /\ disturbed' = (disturbed \/ Overlap("persist"))
  /\ UNCHANGED <<files, process, open, fresh, used, recorded, again, cut, failed, halved, exits>>

\* A client has paired: the file is loaded, the record added, the file saved.
Persist(d) ==
  /\ serving /\ IsWhole(CaKey) /\ todo["persist"] = <<>>
  /\ todo' = [todo EXCEPT !["persist"] = <<Put(Config, [Load EXCEPT !.paired = @ \cup {d}])>>]
  /\ disturbed' = (disturbed \/ Overlap("persist"))
  /\ UNCHANGED <<files, process, open, fresh, used, recorded, again, cut, failed, halved, exits>>

-----------------------------------------------------------------------------
(* The client's side.                                                      *)

\* write_trust_material.
TrustMaterial(a, n) == <<Put(<<"cert", a>>, n), Put(<<"key", a>>, n), Put(<<"ca", a>>, n)>>

\* Mutant: the server is recorded first, its material written afterwards.
RecordThenWrite(a, n, config) == <<Put(Config, config)>> \o TrustMaterial(a, n)

WriteThenRecord(a, n, config) == TrustMaterial(a, n) \o <<Put(Config, config)>>

\* A server has paired with this machine: its material is written, then the
\* handler's copy, with the server in it, is saved.  The server is one the copy
\* does not know, or, in the GUI, whatever address stands there when the button
\* that another address has brought up is pressed.
Pair(a) ==
  /\ mode \in {"gui", "client"} /\ doing = "nothing"
  /\ handler.known[a] = Unknown \/ mode = "gui"
  /\ fresh < MaxFresh
  /\ again' = IF handler.known[a] = Unknown THEN again ELSE again \cup {a}
  /\ fresh' = fresh + 1
  /\ handler' = [handler EXCEPT !.known[a] = fresh + 1]
  /\ todo' = [todo EXCEPT !["handler"] = WriteThenRecord(a, fresh + 1, handler')]
  /\ doing' = a
  /\ disturbed' = (disturbed \/ Overlap("handler"))
  /\ UNCHANGED <<files, mode, gui, serving, open, used, recorded, cut, failed, halved, exits>>

Paired ==
  /\ doing \in Addresses /\ todo["handler"] = <<>>
  /\ recorded' = recorded \cup {doing}
  /\ doing' = "nothing"
  /\ UNCHANGED <<files, mode, handler, gui, serving, writing, fresh, used, again, disturbed, cut, failed, halved, exits>>

\* "Save Configuration": the GUI's copy knows what was known at the launch.
GuiSave ==
  /\ mode = "gui" /\ todo["gui"] = <<>>
  /\ todo' = [todo EXCEPT !["gui"] = <<Put(Config, gui)>>]
  /\ disturbed' = TRUE
  /\ UNCHANGED <<files, process, open, fresh, used, recorded, again, cut, failed, halved, exits>>

-----------------------------------------------------------------------------
Next ==
  \/ \E m \in {"gui", "server", "client"} : Launch(m)
  \/ Exit \/ \E fs \in (SUBSET {Server, ServerKey}) : Delete(fs)
  \/ StartServer \/ StartFails \/ Resolved
  \/ \E d \in Devices : Persist(d)
  \/ \E a \in Addresses : Pair(a)
  \/ Paired \/ GuiSave
  \/ \E w \in Writers : Open(w) \/ Fill(w)

Spec == Init /\ [][Next]_vars

-----------------------------------------------------------------------------
(* Properties.                                                             *)

Generated == 0 .. MaxFresh
AppConfig == [known : [Addresses -> Generated], paired : SUBSET Devices]

CertPair  == [ca : Generated, key : Generated]

Content(f) == IF f = Config THEN AppConfig ELSE IF f = Server THEN CertPair ELSE Generated
States(f)  == {Absent, Torn} \cup {Whole(x) : x \in Content(f)}

FilesOK ==
  /\ files = [f \in Files |-> files[f]]
  /\ \A f \in Files : files[f] \in States(f)

ProcessOK ==
  /\ mode \in {"off", "gui", "server", "client"}
  /\ handler \in AppConfig /\ gui \in AppConfig
  /\ doing \in {"nothing", "starting"} \cup Addresses /\ serving \in BOOLEAN

Puts == UNION {[file : {f}, content : Content(f)] : f \in Files}

\* What is to be written fits its file, and a file is open only to be written.
WritingOK ==
  /\ todo \in [Writers -> Seq(Puts)]
  /\ open \in [Writers -> BOOLEAN]
  /\ \A w \in Writers : open[w] => todo[w] # <<>>
  /\ doing = "nothing" => todo["handler"] = <<>>

HistoryOK ==
  /\ fresh \in Generated /\ used \in Generated
  /\ recorded \subseteq Addresses /\ again \subseteq Addresses /\ exits \in 0 .. MaxExits
  /\ disturbed \in BOOLEAN /\ cut \in BOOLEAN /\ failed \in BOOLEAN /\ halved \in BOOLEAN

TypeOK == FilesOK /\ ProcessOK /\ WritingOK /\ HistoryOK

\* Whatever is cut, deleted or torn: a CA certificate and a CA key that are
\* both there belong together, and so do the server's certificate and key,
\* and the certificate is one the CA beside it has signed.  Not so when the
\* certificate alone was deleted, and the process ended before its old key
\* was replaced.
NoMixedMaterial ==
  /\ IsWhole(Ca) /\ IsWhole(CaKey) => files[Ca] = files[CaKey]
  /\ IsWhole(Ca) /\ IsWhole(Server) => files[Server].what.ca = files[Ca].what
  /\ IsWhole(Server) /\ IsWhole(ServerKey) /\ ~halved =>
       files[Server].what.key = files[ServerKey].what

\* A start finds certificates it can use, made now or before, unless the
\* process once ended while it was writing them: nothing else takes a server
\* out of service, and a renewal never does.
StartsUnlessCut == failed => cut

\* Once a server has run with a CA, the CA stays, or every client that has
\* paired would have to pair again: through crashes at any point, restarts
\* and renewals of the server's certificate.
CaIsKept == [][used # 0 => files'[Ca] = files[Ca] /\ files'[CaKey] = files[CaKey]]_vars

\* A known server's material is there, whole, and all of it from the pairing
\* that the record is of: a client never connects with half a pairing, unless
\* it has paired once more with a server that was known already.
KnownIsBacked ==
  IsWhole(Config) =>
    \A a \in Addresses \ again : files[Config].what.known[a] # Unknown =>
      \A f \in Trust(a) : files[f] = Whole(files[Config].what.known[a])

\* A server that pairing has recorded stays recorded, whatever clients pair in
\* the meantime and however often the program is restarted: unless the GUI
\* has saved, or writers have overlapped or were cut.
RecordsSurvive ==
  ~disturbed /\ ~cut /\ (\A w \in Writers : todo[w] = <<>>) =>
    /\ recorded # {} => IsWhole(Config)
    /\ \A a \in recorded : files[Config].what.known[a] # Unknown

-----------------------------------------------------------------------------
(* What the documents say, and the code does not do.                       *)

\* device-pairing/spec.md: a client that has paired uses the stored material
\* when it connects again, and does not prompt for a PIN.
KnownServerIsKept ==
  mode # "off" /\ ~cut => \A a \in recorded : handler.known[a] # Unknown
=============================================================================
