--------------------------- MODULE TrustStoreProofs ---------------------------
(***************************************************************************)
(* Proofs about TrustStore, for any servers, any clients and any bounds.   *)
(***************************************************************************)
EXTENDS TrustStore, SequenceTheorems, TLAPS

-----------------------------------------------------------------------------
(* What is left to write, and to which files.                              *)

FilesOf(s) == {s[i].file : i \in DOMAIN s}

LEMMA NothingLeft == FilesOf(<<>>) = {} /\ <<>> \in Seq(Puts)
BY DEF FilesOf

\* A list of one, of two and of three.
LEMMA OneLeft ==
  ASSUME NEW p \in Puts
  PROVE  <<p>> \in Seq(Puts) /\ FilesOf(<<p>>) = {p.file}
<1>1. DOMAIN <<p>> = {1} /\ <<p>>[1] = p
  OBVIOUS
<1> QED BY <1>1 DEF FilesOf

LEMMA TwoLeft ==
  ASSUME NEW p \in Puts, NEW q \in Puts
  PROVE  <<p, q>> \in Seq(Puts) /\ FilesOf(<<p, q>>) = {p.file, q.file}
<1>1. DOMAIN <<p, q>> = {1, 2} /\ <<p, q>>[1] = p /\ <<p, q>>[2] = q
  OBVIOUS
<1> QED BY <1>1 DEF FilesOf

LEMMA ThreeLeft ==
  ASSUME NEW p \in Puts, NEW q \in Puts, NEW r \in Puts
  PROVE  <<p, q, r>> \in Seq(Puts) /\ FilesOf(<<p, q, r>>) = {p.file, q.file, r.file}
<1>1. DOMAIN <<p, q, r>> = {1, 2, 3}
  OBVIOUS
<1>2. <<p, q, r>>[1] = p /\ <<p, q, r>>[2] = q /\ <<p, q, r>>[3] = r
  OBVIOUS
<1> QED BY <1>1, <1>2 DEF FilesOf

\* When the first is written, the others are left.
LEMMA FirstAndRest ==
  ASSUME NEW s \in Seq(Puts), s # <<>>
  PROVE  /\ Head(s) \in Puts /\ Tail(s) \in Seq(Puts)
         /\ FilesOf(s) = {Head(s).file} \cup FilesOf(Tail(s))
<1>1. /\ Tail(s) \in Seq(Puts) /\ Head(s) \in Puts /\ Head(s) = s[1]
      /\ Len(s) \in Nat /\ Len(s) # 0 /\ DOMAIN s = 1 .. Len(s)
      /\ DOMAIN Tail(s) = 1 .. (Len(s) - 1)
      /\ \A i \in 1 .. (Len(s) - 1) : Tail(s)[i] = s[i + 1]
  BY LenProperties, EmptySeq, HeadTailProperties
<1>2. ASSUME NEW f \in FilesOf(s) PROVE f \in {Head(s).file} \cup FilesOf(Tail(s))
  <2>1. PICK i \in DOMAIN s : f = s[i].file
    BY <1>2 DEF FilesOf
  <2>2. CASE i = 1
    BY <1>1, <2>1, <2>2
  <2>3. CASE i # 1
    <3>1. i - 1 \in DOMAIN Tail(s) /\ Tail(s)[i - 1] = s[i]
      BY <1>1, <2>3
    <3> QED BY <2>1, <3>1 DEF FilesOf
  <2> QED BY <2>2, <2>3
<1>3. ASSUME NEW f \in {Head(s).file} \cup FilesOf(Tail(s)) PROVE f \in FilesOf(s)
  <2>1. CASE f = Head(s).file
    <3>1. 1 \in DOMAIN s
      BY <1>1
    <3> QED BY <1>1, <2>1, <3>1 DEF FilesOf
  <2>2. CASE f \in FilesOf(Tail(s))
    <3>1. PICK i \in DOMAIN Tail(s) : f = Tail(s)[i].file
      BY <2>2 DEF FilesOf
    <3>2. i + 1 \in DOMAIN s /\ Tail(s)[i] = s[i + 1]
      BY <1>1
    <3> QED BY <3>1, <3>2 DEF FilesOf
  <2> QED BY <1>3, <2>1, <2>2
<1> QED BY <1>1, <1>2, <1>3

\* One list after another.
LEMMA OneAfterAnother ==
  ASSUME NEW s \in Seq(Puts), NEW t \in Seq(Puts)
  PROVE  s \o t \in Seq(Puts) /\ FilesOf(s \o t) = FilesOf(s) \cup FilesOf(t)
<1>1. /\ s \o t \in Seq(Puts)
      /\ Len(s) \in Nat /\ DOMAIN s = 1 .. Len(s) /\ Len(t) \in Nat /\ DOMAIN t = 1 .. Len(t)
      /\ DOMAIN (s \o t) = 1 .. (Len(s) + Len(t))
      /\ \A i \in 1 .. (Len(s) + Len(t)) :
           (s \o t)[i] = IF i <= Len(s) THEN s[i] ELSE t[i - Len(s)]
  BY ConcatProperties, LenProperties
<1>2. ASSUME NEW f \in FilesOf(s \o t) PROVE f \in FilesOf(s) \cup FilesOf(t)
  <2>1. PICK i \in 1 .. (Len(s) + Len(t)) : f = (s \o t)[i].file
    BY <1>1, <1>2 DEF FilesOf
  <2>2. CASE i <= Len(s)
    <3>1. i \in DOMAIN s /\ f = s[i].file
      BY <1>1, <2>1, <2>2
    <3> QED BY <3>1 DEF FilesOf
  <2>3. CASE ~(i <= Len(s))
    <3>1. i - Len(s) \in DOMAIN t /\ f = t[i - Len(s)].file
      BY <1>1, <2>1, <2>3
    <3> QED BY <3>1 DEF FilesOf
  <2> QED BY <2>2, <2>3
<1>3. ASSUME NEW f \in FilesOf(s) PROVE f \in FilesOf(s \o t)
  <2>1. PICK i \in 1 .. Len(s) : f = s[i].file
    BY <1>1, <1>3 DEF FilesOf
  <2>2. i \in DOMAIN (s \o t) /\ (s \o t)[i] = s[i]
    BY <1>1
  <2> QED BY <2>1, <2>2 DEF FilesOf
<1>4. ASSUME NEW f \in FilesOf(t) PROVE f \in FilesOf(s \o t)
  <2>1. PICK i \in 1 .. Len(t) : f = t[i].file
    BY <1>1, <1>4 DEF FilesOf
  <2>2. i + Len(s) \in 1 .. (Len(s) + Len(t)) /\ ~(i + Len(s) <= Len(s)) /\ (i + Len(s)) - Len(s) = i
    BY <1>1
  <2>3. i + Len(s) \in DOMAIN (s \o t) /\ (s \o t)[i + Len(s)] = t[i]
    BY <1>1, <2>2
  <2> QED BY <2>1, <2>3 DEF FilesOf
<1> QED BY <1>1, <1>2, <1>3, <1>4

\* An entry names its file, and its content fits it.
LEMMA PutFits ==
  ASSUME NEW f \in Files, NEW x \in Content(f)
  PROVE  Put(f, x) \in Puts /\ Put(f, x).file = f /\ Put(f, x).content = x
BY DEF Puts, Put

LEMMA PutsFit ==
  ASSUME NEW p \in Puts
  PROVE  p.file \in Files /\ p.content \in Content(p.file)
BY DEF Puts
-----------------------------------------------------------------------------
(* The names of the files are different.                                   *)

LEMMA Names ==
  /\ {Config, Ca, CaKey, Server, ServerKey} \subseteq Files
  /\ Config \notin {Ca, CaKey, Server, ServerKey}
  /\ Ca \notin {CaKey, Server, ServerKey}
  /\ CaKey \notin {Server, ServerKey} /\ Server # ServerKey
  /\ Content(Config) = AppConfig /\ Content(Server) = CertPair
  /\ Content(Ca) = Generated /\ Content(CaKey) = Generated /\ Content(ServerKey) = Generated
<1>1. "config" # "ca" /\ "config" # "ca-key" /\ "config" # "server" /\ "config" # "server-key"
  OBVIOUS
<1>2. /\ "ca" # "ca-key" /\ "ca" # "server" /\ "ca" # "server-key"
      /\ "ca-key" # "server" /\ "ca-key" # "server-key" /\ "server" # "server-key"
  OBVIOUS
<1> QED BY <1>1, <1>2 DEF Config, Ca, CaKey, Server, ServerKey, Files, Content

LEMMA TrustNames ==
  ASSUME NEW a \in Addresses, NEW f \in Trust(a)
  PROVE  /\ f \in Files /\ f \notin {Config, Ca, CaKey, Server, ServerKey}
         /\ Content(f) = Generated
<1>1. a # Own
  BY AddressesAssumption
<1>2. f[2] = a
  BY DEF Trust
<1>3. f \notin {Config, Ca, CaKey, Server, ServerKey}
  BY <1>1, <1>2 DEF Config, Ca, CaKey, Server, ServerKey
<1> QED BY <1>3 DEF Files, Content
-----------------------------------------------------------------------------
(* Type correctness.                                                       *)

\* What a file holds.
LEMMA FileHolds ==
  ASSUME FilesOK, NEW f \in Files
  PROVE  /\ IsWhole(f) => files[f].what \in Content(f)
         /\ ~Exists(f) => ~IsWhole(f)
BY DEF FilesOK, States, IsWhole, Exists, Absent, Torn, Whole

LEMMA StatesAre ==
  ASSUME NEW f \in Files
  PROVE  /\ Absent \in States(f) /\ Torn \in States(f) /\ Torn # Absent
         /\ \A x \in Content(f) : Whole(x) \in States(f) /\ Whole(x) # Absent
BY DEF States, Absent, Torn, Whole

LEMMA DefaultFits == Default \in AppConfig
<1>1. 0 \in Generated
  BY BoundsAssumption DEF Generated
<1> QED BY <1>1 DEF Default, AppConfig, Unknown

LEMMA LoadFits ==
  ASSUME FilesOK
  PROVE  Load \in AppConfig
<1>1. Config \in Files /\ Content(Config) = AppConfig
  BY Names
<1>2. IsWhole(Config) => files[Config].what \in AppConfig
  BY <1>1, FileHolds
<1>3. CASE IsWhole(Config)
  BY <1>2, <1>3 DEF Load
<1>4. CASE ~IsWhole(Config)
  BY <1>4, DefaultFits DEF Load
<1> QED BY <1>3, <1>4

\* Every write that ends or begins leaves the disk well-formed.
LEMMA DiskStays ==
  ASSUME FilesOK, NEW f \in Files, NEW x \in States(f), files' = [files EXCEPT ![f] = x]
  PROVE  FilesOK' /\ \A g \in Files : files'[g] = IF g = f THEN x ELSE files[g]
<1>1. DOMAIN files = Files
  BY DEF FilesOK
<1>2. \A g \in Files : files'[g] = IF g = f THEN x ELSE files[g]
  BY <1>1
<1>3. files' = [g \in Files |-> files'[g]]
  BY <1>1
<1>4. \A g \in Files : States(g)' = States(g)
  BY DEF States, Content, AppConfig, CertPair, Generated, Absent, Torn, Whole, Config, Server
<1>5. \A g \in Files : files'[g] \in States(g)
  BY <1>2 DEF FilesOK
<1> QED BY <1>2, <1>3, <1>4, <1>5 DEF FilesOK

\* What pairing writes.
LEMMA PairingWrites ==
  ASSUME NEW a \in Addresses, NEW n \in Generated, NEW c \in AppConfig
  PROVE  /\ WriteThenRecord(a, n, c) \in Seq(Puts)
         /\ FilesOf(WriteThenRecord(a, n, c)) = Trust(a) \cup {Config}
<1> DEFINE p == Put(<<"cert", a>>, n)
           q == Put(<<"key", a>>, n)
           r == Put(<<"ca", a>>, n)
           s == Put(Config, c)
<1>1. /\ p \in Puts /\ q \in Puts /\ r \in Puts /\ s \in Puts
      /\ p.file = <<"cert", a>> /\ q.file = <<"key", a>> /\ r.file = <<"ca", a>>
      /\ s.file = Config
  <2>1. /\ <<"cert", a>> \in Trust(a) /\ <<"key", a>> \in Trust(a)
        /\ <<"ca", a>> \in Trust(a)
    BY DEF Trust
  <2> QED BY <2>1, TrustNames, Names, PutFits
<1>2. WriteThenRecord(a, n, c) = <<p, q, r>> \o <<s>>
  BY DEF WriteThenRecord, TrustMaterial
<1> HIDE DEF p, q, r, s
<1>3. /\ <<p, q, r>> \in Seq(Puts) /\ FilesOf(<<p, q, r>>) = Trust(a)
      /\ <<s>> \in Seq(Puts) /\ FilesOf(<<s>>) = {Config}
  <2>1. <<p, q, r>> \in Seq(Puts) /\ FilesOf(<<p, q, r>>) = {p.file, q.file, r.file}
    BY <1>1, ThreeLeft
  <2>2. <<s>> \in Seq(Puts) /\ FilesOf(<<s>>) = {s.file}
    BY <1>1, OneLeft
  <2> QED BY <1>1, <2>1, <2>2 DEF Trust
<1> QED BY <1>2, <1>3, OneAfterAnother

\* What ensure_server_ca writes: the certificate and its key, after a CA only
\* if there is not all of one.
LEMMA ResolvingWrites ==
  ASSUME FilesOK, fresh \in Generated, fresh < MaxFresh, NEW puts \in Missing
  PROVE  /\ puts \in Seq(Puts)
         /\ \/ FilesOf(puts) = {} /\ \A f \in {Ca, CaKey, Server, ServerKey} : Exists(f)
            \/ FilesOf(puts) = {Server, ServerKey} /\ Exists(Ca) /\ Exists(CaKey)
            \/ FilesOf(puts) = {Ca, CaKey, Server, ServerKey} /\ ~(Exists(Ca) /\ Exists(CaKey))
<1>1. fresh + 1 \in Generated
  BY BoundsAssumption DEF Generated
<1>2. ASSUME NEW c \in Generated
      PROVE  /\ Put(Server, [ca |-> c, key |-> fresh + 1]) \in Puts
             /\ Put(Server, [ca |-> c, key |-> fresh + 1]).file = Server
             /\ Put(ServerKey, fresh + 1) \in Puts /\ Put(ServerKey, fresh + 1).file = ServerKey
  <2>1. [ca |-> c, key |-> fresh + 1] \in CertPair
    BY <1>1 DEF CertPair
  <2> QED BY <1>1, <2>1, Names, PutFits
<1>3. ASSUME NEW c \in Generated
      PROVE  /\ ServerCert(c, fresh + 1) \in Seq(Puts)
             /\ FilesOf(ServerCert(c, fresh + 1)) = {Server, ServerKey}
  BY <1>2, TwoLeft DEF ServerCert
<1>4. IsWhole(Ca) => files[Ca].what \in Generated
  BY FileHolds, Names
<1>5. CASE Exists(Ca) /\ Exists(CaKey)
  <2>1. \/ puts = <<>> /\ Exists(Server) /\ Exists(ServerKey)
        \/ IsWhole(Ca) /\ puts = ServerCert(files[Ca].what, fresh + 1)
    BY <1>5 DEF Missing
  <2> QED BY <1>3, <1>4, <1>5, <2>1, NothingLeft
<1>6. CASE ~(Exists(Ca) /\ Exists(CaKey))
  <2> DEFINE p == Put(Ca, fresh + 1)
             q == Put(CaKey, fresh + 1)
  <2>1. p \in Puts /\ q \in Puts /\ p.file = Ca /\ q.file = CaKey
    BY <1>1, Names, PutFits
  <2>2. puts = <<p, q>> \o ServerCert(fresh + 1, fresh + 1)
    BY <1>6 DEF Missing
  <2> HIDE DEF p, q
  <2>3. <<p, q>> \in Seq(Puts) /\ FilesOf(<<p, q>>) = {Ca, CaKey}
    BY <2>1, TwoLeft
  <2>4. puts \in Seq(Puts) /\ FilesOf(puts) = {Ca, CaKey} \cup {Server, ServerKey}
    BY <1>1, <1>3, <2>2, <2>3, OneAfterAnother
  <2> QED BY <1>6, <2>4
<1> QED BY <1>5, <1>6

LEMMA InitTypeOK == Init => TypeOK
<1> SUFFICES ASSUME Init PROVE TypeOK
  OBVIOUS
<1>1. 0 \in Generated /\ 0 \in 0 .. MaxExits
  BY BoundsAssumption DEF Generated
<1>2. FilesOK
  BY StatesAre DEF Init, FilesOK
<1>3. ProcessOK
  BY DefaultFits DEF Init, ProcessOK
<1>4. WritingOK
  <2>1. "handler" \in Writers
    BY DEF Writers
  <2> QED BY <2>1, NothingLeft DEF Init, WritingOK
<1>5. HistoryOK
  BY <1>1 DEF Init, HistoryOK
<1> QED BY <1>2, <1>3, <1>4, <1>5 DEF TypeOK

\* A writer gets something to write.
LEMMA ListChanges ==
  ASSUME todo \in [Writers -> Seq(Puts)], NEW w \in Writers, NEW s \in Seq(Puts),
         todo' = [todo EXCEPT ![w] = s]
  PROVE  /\ todo' \in [Writers -> Seq(Puts)]
         /\ \A v \in Writers : todo'[v] = IF v = w THEN s ELSE todo[v]
OBVIOUS

\* The handler writes nothing while it has nothing to do.
LEMMA IdleHandler ==
  ASSUME WritingOK, doing = "nothing"
  PROVE  todo["handler"] = <<>> /\ ~open["handler"]
BY DEF WritingOK, Writers

LEMMA ConfigEntry ==
  ASSUME NEW c \in AppConfig
  PROVE  /\ <<Put(Config, c)>> \in Seq(Puts) /\ FilesOf(<<Put(Config, c)>>) = {Config}
         /\ <<Put(Config, c)>> # <<>>
<1>1. Put(Config, c) \in Puts /\ Put(Config, c).file = Config
  BY Names, PutFits
<1> QED BY <1>1, OneLeft

\* The configuration with one pairing more.
LEMMA ConfigGrows ==
  ASSUME NEW c \in AppConfig
  PROVE  /\ \A d \in Devices : [c EXCEPT !.paired = @ \cup {d}] \in AppConfig
         /\ \A a \in Addresses, n \in Generated : [c EXCEPT !.known[a] = n] \in AppConfig
BY DEF AppConfig

LEMMA TypeOKStep ==
  ASSUME TypeOK, Next
  PROVE  TypeOK'
<1> USE DEF TypeOK
<1>w. "handler" \in Writers /\ "gui" \in Writers /\ "persist" \in Writers
  BY DEF Writers
<1>1. ASSUME NEW m \in {"gui", "server", "client"}, Launch(m) PROVE TypeOK'
  <2>1. FilesOK' /\ WritingOK' /\ HistoryOK'
    BY <1>1 DEF Launch, writing, history, FilesOK, WritingOK, HistoryOK, Exists, IsWhole
  <2>2. ProcessOK'
    BY <1>1, LoadFits DEF Launch, ProcessOK
  <2> QED BY <2>1, <2>2
<1>2. ASSUME Exit PROVE TypeOK'
  <2>1. FilesOK'
    BY <1>2 DEF Exit, FilesOK
  <2>2. ProcessOK'
    BY <1>2 DEF Exit, ProcessOK
  <2>3. todo' = [v \in Writers |-> <<>>] /\ open' = [v \in Writers |-> FALSE]
    BY <1>2 DEF Exit
  <2>4. WritingOK'
    BY <1>w, <2>3, NothingLeft DEF WritingOK
  <2>5. exits' \in 0 .. MaxExits
    BY <1>2, BoundsAssumption DEF Exit, HistoryOK
  <2>6. cut' \in BOOLEAN
    BY <1>2 DEF Exit, HistoryOK
  <2>7. HistoryOK'
    BY <1>2, <2>5, <2>6 DEF Exit, HistoryOK
  <2> QED BY <2>1, <2>2, <2>4, <2>7
<1>3. ASSUME NEW fs \in SUBSET {Server, ServerKey}, Delete(fs) PROVE TypeOK'
  <2>1. /\ \A g \in Files : files'[g] \in States(g)
        /\ files' = [g \in Files |-> files'[g]]
    BY <1>3, StatesAre DEF Delete, FilesOK
  <2>2. ProcessOK' /\ WritingOK' 
    BY <1>3 DEF Delete, process, writing, ProcessOK, WritingOK
  <2>3. halved' \in BOOLEAN
    BY <1>3 DEF Delete, HistoryOK
  <2>4. HistoryOK'
    BY <1>3, <2>3 DEF Delete, HistoryOK
  <2> QED BY <2>1, <2>2, <2>4 DEF FilesOK
<1>4. ASSUME StartServer PROVE TypeOK'
  <2>1. PICK puts \in Missing :
          /\ todo' = [todo EXCEPT !["handler"] = puts]
          /\ fresh' = IF puts = <<>> THEN fresh ELSE fresh + 1
    BY <1>4 DEF StartServer
  <2>2. /\ fresh < MaxFresh /\ doing = "nothing" /\ doing' = "starting"
        /\ UNCHANGED <<files, mode, handler, gui, serving, open, history>>
    BY <1>4 DEF StartServer
  <2>3. puts \in Seq(Puts)
    BY <2>1, <2>2, ResolvingWrites DEF HistoryOK
  <2>4. fresh' \in Generated
    BY <2>1, <2>2, BoundsAssumption DEF HistoryOK, Generated
  <2>5. FilesOK' /\ ProcessOK'
    BY <2>2 DEF FilesOK, ProcessOK
  <2>6. WritingOK'
    <3>1. /\ todo' \in [Writers -> Seq(Puts)]
          /\ \A v \in Writers : todo'[v] = IF v = "handler" THEN puts ELSE todo[v]
      BY <1>w, <2>1, <2>3, ListChanges DEF WritingOK
    <3>2. ~open["handler"] /\ open' = open
      BY <2>2, IdleHandler
    <3> QED BY <2>2, <3>1, <3>2 DEF WritingOK
  <2>7. HistoryOK'
    BY <2>2, <2>4 DEF HistoryOK, history
  <2> QED BY <2>5, <2>6, <2>7
<1>5. ASSUME StartFails PROVE TypeOK'
  <2>1. FilesOK' /\ ProcessOK' /\ WritingOK'
    BY <1>5 DEF StartFails, process, writing, FilesOK, ProcessOK, WritingOK
  <2>2. HistoryOK'
    BY <1>5 DEF StartFails, HistoryOK
  <2> QED BY <2>1, <2>2
<1>6. ASSUME Resolved PROVE TypeOK'
  <2>1. FilesOK' /\ WritingOK'
    BY <1>6 DEF Resolved, writing, FilesOK, WritingOK
  <2>2. serving' \in BOOLEAN
    BY <1>6 DEF Resolved, Usable
  <2>3. ProcessOK'
    BY <1>6, <2>2 DEF Resolved, ProcessOK
  <2>4. Usable => files[Ca].what \in Generated
    BY FileHolds, Names DEF Usable
  <2>5. used' \in Generated
    BY <1>6, <2>4 DEF Resolved, HistoryOK
  <2>6. failed' \in BOOLEAN
    BY <1>6 DEF Resolved, HistoryOK
  <2>7. HistoryOK'
    BY <1>6, <2>5, <2>6 DEF Resolved, HistoryOK
  <2> QED BY <2>1, <2>3, <2>7
<1>7. ASSUME NEW d \in Devices, Persist(d) PROVE TypeOK'
  <2> DEFINE c == [Load EXCEPT !.paired = @ \cup {d}]
  <2>1. c \in AppConfig
    BY LoadFits, ConfigGrows
  <2> HIDE DEF c
  <2>2. /\ todo' \in [Writers -> Seq(Puts)]
        /\ \A v \in Writers : todo'[v] = IF v = "persist" THEN <<Put(Config, c)>> ELSE todo[v]
    BY <1>w, <1>7, <2>1, ConfigEntry, ListChanges DEF Persist, WritingOK, c
  <2>3. WritingOK'
    BY <1>7, <2>1, <2>2, ConfigEntry DEF Persist, process, WritingOK
  <2>4. FilesOK' /\ ProcessOK'
    BY <1>7 DEF Persist, process, FilesOK, ProcessOK
  <2>5. disturbed' \in BOOLEAN
    BY <1>7 DEF Persist, HistoryOK, Overlap
  <2>6. HistoryOK'
    BY <1>7, <2>5 DEF Persist, HistoryOK
  <2> QED BY <2>3, <2>4, <2>6
<1>8. ASSUME NEW a \in Addresses, Pair(a) PROVE TypeOK'
  <2>1. /\ doing = "nothing" /\ fresh < MaxFresh /\ fresh' = fresh + 1 /\ doing' = a
        /\ handler' = [handler EXCEPT !.known[a] = fresh + 1]
        /\ todo' = [todo EXCEPT !["handler"] = WriteThenRecord(a, fresh + 1, handler')]
        /\ UNCHANGED <<files, mode, gui, serving, open, used, recorded, cut, failed, halved, exits>>
    BY <1>8 DEF Pair
  <2>2. fresh + 1 \in Generated
    BY <2>1, BoundsAssumption DEF HistoryOK, Generated
  <2>3. handler' \in AppConfig
    BY <2>1, <2>2, ConfigGrows DEF ProcessOK
  <2>4. WriteThenRecord(a, fresh + 1, handler') \in Seq(Puts)
    BY <2>2, <2>3, PairingWrites
  <2>5. /\ todo' \in [Writers -> Seq(Puts)]
        /\ \A v \in Writers : v # "handler" => todo'[v] = todo[v]
    BY <1>w, <2>1, <2>4, ListChanges DEF WritingOK
  <2>6. doing' # "nothing"
    BY <2>1, AddressesAssumption
  <2>7. WritingOK'
    <3>1. ~open["handler"] /\ open' = open
      BY <2>1, IdleHandler
    <3> QED BY <2>5, <2>6, <3>1 DEF WritingOK
  <2>8. FilesOK' /\ ProcessOK'
    BY <2>1, <2>3 DEF FilesOK, ProcessOK
  <2>9. disturbed' \in BOOLEAN /\ again' \subseteq Addresses
    BY <1>8 DEF Pair, HistoryOK, Overlap
  <2>10. HistoryOK'
    BY <2>1, <2>2, <2>9 DEF HistoryOK
  <2> QED BY <2>7, <2>8, <2>10
<1>9. ASSUME Paired PROVE TypeOK'
  <2>1. FilesOK' /\ WritingOK'
    BY <1>9 DEF Paired, writing, FilesOK, WritingOK
  <2>2. ProcessOK' /\ HistoryOK'
    BY <1>9 DEF Paired, ProcessOK, HistoryOK
  <2> QED BY <2>1, <2>2
<1>10. ASSUME GuiSave PROVE TypeOK'
  <2>1. /\ todo' \in [Writers -> Seq(Puts)]
        /\ \A v \in Writers : todo'[v] = IF v = "gui" THEN <<Put(Config, gui)>> ELSE todo[v]
    BY <1>w, <1>10, ConfigEntry, ListChanges DEF GuiSave, ProcessOK, WritingOK
  <2>2. WritingOK'
    BY <1>10, <2>1, ConfigEntry DEF GuiSave, process, ProcessOK, WritingOK
  <2>3. FilesOK' /\ ProcessOK' /\ HistoryOK'
    BY <1>10 DEF GuiSave, process, FilesOK, ProcessOK, HistoryOK
  <2> QED BY <2>2, <2>3
<1>11. ASSUME NEW w \in Writers, Open(w) PROVE TypeOK'
  <2>1. Head(todo[w]) \in Puts
    BY <1>11, FirstAndRest DEF Open, WritingOK
  <2>2. FilesOK'
    BY <1>11, <2>1, PutsFit, StatesAre, DiskStays DEF Open
  <2>3. WritingOK'
    BY <1>11 DEF Open, process, WritingOK
  <2>4. ProcessOK' /\ HistoryOK'
    BY <1>11 DEF Open, process, history, ProcessOK, HistoryOK
  <2> QED BY <2>2, <2>3, <2>4
<1>12. ASSUME NEW w \in Writers, Fill(w) PROVE TypeOK'
  <2>1. todo[w] \in Seq(Puts) /\ todo[w] # <<>>
    BY <1>12 DEF Fill, WritingOK
  <2>2. Head(todo[w]) \in Puts /\ Tail(todo[w]) \in Seq(Puts)
    BY <2>1, FirstAndRest
  <2>3. FilesOK'
    <3> DEFINE f == Head(todo[w]).file
    <3>1. f \in Files /\ Head(todo[w]).content \in Content(f)
      BY <2>2, PutsFit
    <3>2. PICK x \in {Whole(Head(todo[w]).content), Torn} : files' = [files EXCEPT ![f] = x]
      BY <1>12 DEF Fill
    <3>3. x \in States(f)
      BY <3>1, <3>2, StatesAre
    <3> QED BY <3>1, <3>2, <3>3, DiskStays
  <2>4. /\ todo' \in [Writers -> Seq(Puts)]
        /\ \A v \in Writers : todo'[v] = IF v = w THEN Tail(todo[w]) ELSE todo[v]
    BY <1>12, <2>2, ListChanges DEF Fill, WritingOK
  <2>5. doing = "nothing" => w # "handler"
    BY <2>1 DEF WritingOK
  <2>6. WritingOK'
    BY <1>w, <1>12, <2>4, <2>5 DEF Fill, process, WritingOK
  <2>7. ProcessOK' /\ HistoryOK'
    BY <1>12 DEF Fill, process, history, ProcessOK, HistoryOK
  <2> QED BY <2>3, <2>6, <2>7
<1> QED BY <1>1, <1>2, <1>3, <1>4, <1>5, <1>6, <1>7, <1>8, <1>9, <1>10, <1>11, <1>12 DEF Next

\* The files, the copies of the configuration and what is to be written keep
\* their types, for any servers and clients.
THEOREM TypeCorrect == Spec => []TypeOK
<1>1. TypeOK /\ UNCHANGED vars => TypeOK'
  BY DEF TypeOK, vars, process, writing, history, FilesOK, ProcessOK, WritingOK, HistoryOK
<1>2. TypeOK /\ [Next]_vars => TypeOK'
  BY <1>1, TypeOKStep
<1> QED BY <1>2, InitTypeOK, PTL DEF Spec
-----------------------------------------------------------------------------
(* The CA that a server has run with.                                      *)

\* The inductive invariant.  Certificates are written by the handler only,
\* and only while it starts a server; a start leaves all of them there, or on
\* its list; and once a CA was in use they are on no list any more.
CaFiles   == {Ca, CaKey}
CertFiles == {Ca, CaKey, Server, ServerKey}

CaStands ==
  /\ \A w \in {"gui", "persist"} : FilesOf(todo[w]) \subseteq {Config}
  /\ mode = "off" => doing = "nothing"
  /\ doing # "starting" => FilesOf(todo["handler"]) \cap CertFiles = {}
  /\ doing = "starting" => \A f \in CertFiles : Exists(f) \/ f \in FilesOf(todo["handler"])
  /\ used # 0 => \A f \in CaFiles : Exists(f) /\ f \notin FilesOf(todo["handler"])

LEMMA CaFilesAre ==
  /\ CaFiles \subseteq CertFiles /\ CertFiles \subseteq Files /\ Config \notin CertFiles
  /\ Server \notin CaFiles /\ ServerKey \notin CaFiles
  /\ \A a \in Addresses : Trust(a) \cap CertFiles = {}
BY Names, TrustNames DEF CaFiles, CertFiles

LEMMA InitCaStands == Init => CaStands
BY NothingLeft DEF Init, CaStands, Writers

LEMMA CaStandsStep ==
  ASSUME TypeOK, CaStands, Next
  PROVE  CaStands' /\ (used # 0 => \A f \in CaFiles : files'[f] = files[f])
<1> USE DEF TypeOK
<1>w. "handler" \in Writers /\ "gui" \in Writers /\ "persist" \in Writers
  BY DEF Writers
<1> DEFINE Goal == CaStands' /\ (used # 0 => \A f \in CaFiles : files'[f] = files[f])
<1>1. ASSUME NEW m \in {"gui", "server", "client"}, Launch(m) PROVE Goal
  BY <1>1 DEF Launch, writing, history, CaStands, Exists
<1>2. ASSUME Exit PROVE Goal
  <2>1. \A v \in Writers : FilesOf(todo'[v]) = {}
    BY <1>2, NothingLeft DEF Exit
  <2> QED BY <1>2, <1>w, <2>1 DEF Exit, CaStands, Exists
<1>3. ASSUME NEW fs \in SUBSET {Server, ServerKey}, Delete(fs) PROVE Goal
  <2>1. \A f \in CaFiles : files'[f] = files[f]
    BY <1>3, CaFilesAre DEF Delete
  <2> QED BY <1>3, <2>1 DEF Delete, process, writing, CaStands, Exists
<1>4. ASSUME StartServer PROVE Goal
  <2>1. PICK puts \in Missing : todo' = [todo EXCEPT !["handler"] = puts]
    BY <1>4 DEF StartServer
  <2>2. /\ fresh < MaxFresh /\ doing' = "starting" /\ mode # "off"
        /\ UNCHANGED <<files, mode, used>>
    BY <1>4 DEF StartServer, history
  <2>3. /\ puts \in Seq(Puts)
        /\ \/ FilesOf(puts) = {} /\ \A f \in CertFiles : Exists(f)
           \/ FilesOf(puts) = {Server, ServerKey} /\ Exists(Ca) /\ Exists(CaKey)
           \/ /\ FilesOf(puts) = {Ca, CaKey, Server, ServerKey}
              /\ ~(Exists(Ca) /\ Exists(CaKey))
    BY <2>2, ResolvingWrites DEF HistoryOK, CertFiles
  <2>4. \A v \in Writers : todo'[v] = IF v = "handler" THEN puts ELSE todo[v]
    BY <1>w, <2>1, <2>3, ListChanges DEF WritingOK
  <2>5. \A f \in CertFiles : Exists(f) \/ f \in FilesOf(puts)
    BY <2>3 DEF CertFiles
  <2>6. used # 0 => \A f \in CaFiles : Exists(f) /\ f \notin FilesOf(puts)
    BY <2>3, CaFilesAre DEF CaStands, CaFiles, CertFiles
  <2> QED BY <1>w, <2>2, <2>4, <2>5, <2>6 DEF CaStands, Exists
<1>5. ASSUME StartFails PROVE Goal
  BY <1>5 DEF StartFails, process, writing, CaStands, Exists
<1>6. ASSUME Resolved PROVE Goal
  <2>1. /\ doing = "starting" /\ todo["handler"] = <<>> /\ doing' = "nothing"
        /\ UNCHANGED <<files, mode, todo>>
    BY <1>6 DEF Resolved, writing
  <2>2. \A f \in CertFiles : Exists(f) /\ f \notin FilesOf(todo["handler"])
    BY <2>1, NothingLeft DEF CaStands
  <2> QED BY <2>1, <2>2, CaFilesAre DEF CaStands, Exists
<1>7. ASSUME NEW d \in Devices, Persist(d) PROVE Goal
  <2> DEFINE c == [Load EXCEPT !.paired = @ \cup {d}]
  <2>1. c \in AppConfig
    BY LoadFits, ConfigGrows
  <2> HIDE DEF c
  <2>2. \A v \in Writers : todo'[v] = IF v = "persist" THEN <<Put(Config, c)>> ELSE todo[v]
    BY <1>w, <1>7, <2>1, ConfigEntry, ListChanges DEF Persist, WritingOK, c
  <2>3. UNCHANGED <<files, mode, doing, used>>
    BY <1>7 DEF Persist, process
  <2> QED BY <1>w, <2>1, <2>2, <2>3, ConfigEntry DEF CaStands, Exists
<1>8. ASSUME NEW a \in Addresses, Pair(a) PROVE Goal
  <2>1. /\ doing = "nothing" /\ fresh < MaxFresh /\ doing' = a /\ mode # "off"
        /\ handler' = [handler EXCEPT !.known[a] = fresh + 1]
        /\ todo' = [todo EXCEPT !["handler"] = WriteThenRecord(a, fresh + 1, handler')]
        /\ UNCHANGED <<files, mode, used>>
    BY <1>8 DEF Pair
  <2>2. fresh + 1 \in Generated
    BY <2>1, BoundsAssumption DEF HistoryOK, Generated
  <2>3. handler' \in AppConfig
    BY <2>1, <2>2, ConfigGrows DEF ProcessOK
  <2>4. /\ WriteThenRecord(a, fresh + 1, handler') \in Seq(Puts)
        /\ FilesOf(WriteThenRecord(a, fresh + 1, handler')) = Trust(a) \cup {Config}
    BY <2>2, <2>3, PairingWrites
  <2>5. \A v \in Writers :
           todo'[v] = IF v = "handler" THEN WriteThenRecord(a, fresh + 1, handler') ELSE todo[v]
    BY <1>w, <2>1, <2>4, ListChanges DEF WritingOK
  <2>6. FilesOf(todo'["handler"]) \cap CertFiles = {}
    BY <1>w, <2>4, <2>5, CaFilesAre
  <2>7. doing' # "starting"
    BY <2>1, AddressesAssumption
  <2> QED BY <1>w, <2>1, <2>5, <2>6, <2>7, CaFilesAre DEF CaStands, Exists
<1>9. ASSUME Paired PROVE Goal
  BY <1>9, AddressesAssumption, NothingLeft DEF Paired, writing, CaStands, Exists
<1>10. ASSUME GuiSave PROVE Goal
  <2>1. \A v \in Writers : todo'[v] = IF v = "gui" THEN <<Put(Config, gui)>> ELSE todo[v]
    BY <1>w, <1>10, ConfigEntry, ListChanges DEF GuiSave, ProcessOK, WritingOK
  <2>2. FilesOf(<<Put(Config, gui)>>) = {Config}
    BY ConfigEntry DEF ProcessOK
  <2> QED BY <1>w, <1>10, <2>1, <2>2 DEF GuiSave, process, CaStands, Exists
<1>11. ASSUME NEW w \in Writers, Open(w) PROVE Goal
  <2>1. /\ todo[w] \in Seq(Puts) /\ todo[w] # <<>>
        /\ files' = [files EXCEPT ![Head(todo[w]).file] = Torn]
        /\ UNCHANGED <<mode, doing, todo, used>>
    BY <1>11 DEF Open, process, history, WritingOK
  <2>2. Head(todo[w]).file \in Files /\ Head(todo[w]).file \in FilesOf(todo[w])
    BY <2>1, FirstAndRest, PutsFit
  <2>3. \A g \in Files : files'[g] = IF g = Head(todo[w]).file THEN Torn ELSE files[g]
    BY <2>1, <2>2, StatesAre, DiskStays
  <2>4. Head(todo[w]).file \in CaFiles => used = 0
    BY <2>2, CaFilesAre DEF CaStands, Writers
  <2>5. used # 0 => \A f \in CaFiles : files'[f] = files[f]
    BY <2>3, <2>4, CaFilesAre
  <2>6. \A f \in CertFiles : Exists(f) => Exists(f)'
    BY <2>2, <2>3, StatesAre, CaFilesAre DEF Exists
  <2> QED BY <2>1, <2>5, <2>6, CaFilesAre DEF CaStands
<1>12. ASSUME NEW w \in Writers, Fill(w) PROVE Goal
  <2>1. /\ todo[w] \in Seq(Puts) /\ todo[w] # <<>>
        /\ todo' = [todo EXCEPT ![w] = Tail(@)]
        /\ UNCHANGED <<mode, doing, used>>
    BY <1>12 DEF Fill, process, history, WritingOK
  <2> DEFINE f == Head(todo[w]).file
  <2>2. /\ f \in Files /\ Head(todo[w]).content \in Content(f) /\ Tail(todo[w]) \in Seq(Puts)
        /\ FilesOf(todo[w]) = {f} \cup FilesOf(Tail(todo[w]))
    BY <2>1, FirstAndRest, PutsFit
  <2>3. PICK x \in {Whole(Head(todo[w]).content), Torn} : files' = [files EXCEPT ![f] = x]
    BY <1>12 DEF Fill
  <2>4. x \in States(f) /\ x # Absent
    BY <2>2, <2>3, StatesAre
  <2> HIDE DEF f
  <2>5. \A g \in Files : files'[g] = IF g = f THEN x ELSE files[g]
    BY <2>2, <2>3, <2>4, DiskStays
  <2>6. \A v \in Writers : todo'[v] = IF v = w THEN Tail(todo[w]) ELSE todo[v]
    BY <2>1, <2>2, ListChanges DEF WritingOK
  <2>7. f \in CaFiles => used = 0 /\ w = "handler" /\ doing = "starting"
    BY <2>2, CaFilesAre DEF CaStands, Writers
  <2>8. used # 0 => \A g \in CaFiles : files'[g] = files[g]
    BY <2>5, <2>7, CaFilesAre
  <2>9. \A g \in CertFiles : Exists(g)' <=> Exists(g) \/ g = f
    BY <2>4, <2>5, CaFilesAre DEF Exists
  <2>10. CASE w = "handler"
    BY <1>w, <2>1, <2>2, <2>6, <2>8, <2>9, <2>10, CaFilesAre DEF CaStands
  <2>11. CASE w # "handler"
    BY <1>w, <2>1, <2>2, <2>6, <2>8, <2>9, <2>11, CaFilesAre DEF CaStands, Writers
  <2> QED BY <2>10, <2>11
<1> QED BY <1>1, <1>2, <1>3, <1>4, <1>5, <1>6, <1>7, <1>8, <1>9, <1>10, <1>11, <1>12 DEF Next

LEMMA CaStandsAlways == Spec => []CaStands
<1>1. TypeOK /\ CaStands /\ UNCHANGED vars => CaStands'
  BY DEF vars, process, writing, history, CaStands, Exists
<1>2. TypeOK /\ CaStands /\ [Next]_vars => CaStands'
  BY <1>1, CaStandsStep
<1> QED BY <1>2, TypeCorrect, InitCaStands, PTL DEF Spec

\* The CA stays once a server has run with it: whatever is deleted, torn or
\* cut, and however often the program is started again.
THEOREM CaKept == Spec => CaIsKept
<1>1. TypeOK /\ CaStands /\ [Next]_vars
        => [used # 0 => files'[Ca] = files[Ca] /\ files'[CaKey] = files[CaKey]]_vars
  BY CaStandsStep DEF CaFiles
<1> QED BY <1>1, TypeCorrect, CaStandsAlways, PTL DEF Spec, CaIsKept
-----------------------------------------------------------------------------
(* What belongs together on the disk.                                      *)

\* What a start has left to write, from the key of the certificate back to the
\* CA: n is what it generates, c the CA it signs with.
Left1(n)    == <<Put(ServerKey, n)>>
Left2(c, n) == <<Put(Server, [ca |-> c, key |-> n]), Put(ServerKey, n)>>
Left3(n)    == <<Put(CaKey, n), Put(Server, [ca |-> n, key |-> n]), Put(ServerKey, n)>>
Left4(n)    == <<Put(Ca, n), Put(CaKey, n), Put(Server, [ca |-> n, key |-> n]), Put(ServerKey, n)>>

\* What is on the disk then.
Disk1(n)    == /\ \E c \in Generated : files[Server] = Whole([ca |-> c, key |-> n])
               /\ ~halved => ~IsWhole(ServerKey)
Disk2(c)    == files[Ca] = Whole(c) /\ Exists(CaKey) /\ (~halved => ~Exists(ServerKey))
Disk3(n)    == files[Ca] = Whole(n) /\ ~IsWhole(CaKey) /\ ~Exists(Server) /\ ~Exists(ServerKey)
Disk4       == ~Exists(CaKey) /\ ~Exists(Server) /\ ~Exists(ServerKey)

StartShape ==
  \/ todo["handler"] = <<>>
  \/ \E n \in Generated : todo["handler"] = Left1(n) /\ Disk1(n)
  \/ \E n \in Generated, c \in Generated : todo["handler"] = Left2(c, n) /\ Disk2(c)
  \/ \E n \in Generated : todo["handler"] = Left3(n) /\ Disk3(n)
  \/ \E n \in Generated : todo["handler"] = Left4(n) /\ Disk4

\* A key is made after what it belongs to, and never left alone unless the
\* user deletes its certificate.
Ordered ==
  /\ Exists(CaKey) => Exists(Ca)
  /\ Exists(Server) \/ Exists(ServerKey) => Exists(CaKey)
  /\ ~halved /\ Exists(ServerKey) => Exists(Server)

\* The inductive invariant.
Material ==
  /\ NoMixedMaterial /\ Ordered
  /\ doing = "starting" => StartShape
  /\ doing = "starting" /\ open["handler"] => files[Head(todo["handler"]).file] = Torn

LEMMA Lists ==
  ASSUME NEW p, NEW q, NEW r, NEW s
  PROVE  /\ Head(<<p>>) = p /\ Head(<<p, q>>) = p /\ Head(<<p, q, r>>) = p
         /\ Head(<<p, q, r, s>>) = p
         /\ Tail(<<p>>) = <<>> /\ Tail(<<p, q>>) = <<q>> /\ Tail(<<p, q, r>>) = <<q, r>>
         /\ Tail(<<p, q, r, s>>) = <<q, r, s>>
         /\ <<p>> # <<>> /\ <<p, q>> # <<>> /\ <<p, q, r>> # <<>> /\ <<p, q, r, s>> # <<>>
OBVIOUS

\* The lists and what becomes of them.
LEMMA PutIs == \A f, x : Put(f, x).file = f /\ Put(f, x).content = x
BY DEF Put

LEMMA LeftIs ==
  /\ \A n : /\ Head(Left1(n)).file = ServerKey /\ Head(Left1(n)).content = n
            /\ Tail(Left1(n)) = <<>> /\ Left1(n) # <<>>
  /\ \A n, c : /\ Head(Left2(c, n)).file = Server
               /\ Head(Left2(c, n)).content = [ca |-> c, key |-> n]
               /\ Tail(Left2(c, n)) = Left1(n) /\ Left2(c, n) # <<>>
  /\ \A n : /\ Head(Left3(n)).file = CaKey /\ Head(Left3(n)).content = n
            /\ Tail(Left3(n)) = Left2(n, n) /\ Left3(n) # <<>>
  /\ \A n : /\ Head(Left4(n)).file = Ca /\ Head(Left4(n)).content = n
            /\ Tail(Left4(n)) = Left3(n) /\ Left4(n) # <<>>
<1>1. ASSUME NEW n, NEW c
      PROVE  /\ Head(Left1(n)) = Put(ServerKey, n) /\ Tail(Left1(n)) = <<>> /\ Left1(n) # <<>>
             /\ Head(Left2(c, n)) = Put(Server, [ca |-> c, key |-> n])
             /\ Tail(Left2(c, n)) = Left1(n) /\ Left2(c, n) # <<>>
             /\ Head(Left3(n)) = Put(CaKey, n) /\ Tail(Left3(n)) = Left2(n, n) /\ Left3(n) # <<>>
             /\ Head(Left4(n)) = Put(Ca, n) /\ Tail(Left4(n)) = Left3(n) /\ Left4(n) # <<>>
  BY Lists DEF Left1, Left2, Left3, Left4
<1>2. ASSUME NEW n, NEW c
      PROVE  /\ Head(Left1(n)).file = ServerKey /\ Head(Left1(n)).content = n
             /\ Head(Left2(c, n)).file = Server
             /\ Head(Left2(c, n)).content = [ca |-> c, key |-> n]
             /\ Head(Left3(n)).file = CaKey /\ Head(Left3(n)).content = n
             /\ Head(Left4(n)).file = Ca /\ Head(Left4(n)).content = n
  BY <1>1, PutIs
<1>3. \A n : /\ Head(Left1(n)).file = ServerKey /\ Head(Left1(n)).content = n
            /\ Tail(Left1(n)) = <<>> /\ Left1(n) # <<>>
  BY <1>1, <1>2
<1>4. \A n, c : /\ Head(Left2(c, n)).file = Server
               /\ Head(Left2(c, n)).content = [ca |-> c, key |-> n]
               /\ Tail(Left2(c, n)) = Left1(n) /\ Left2(c, n) # <<>>
  BY <1>1, <1>2
<1>5. \A n : /\ Head(Left3(n)).file = CaKey /\ Head(Left3(n)).content = n
            /\ Tail(Left3(n)) = Left2(n, n) /\ Left3(n) # <<>>
  BY <1>1, <1>2
<1>6. \A n : /\ Head(Left4(n)).file = Ca /\ Head(Left4(n)).content = n
            /\ Tail(Left4(n)) = Left3(n) /\ Left4(n) # <<>>
  BY <1>1, <1>2
<1> QED BY <1>3, <1>4, <1>5, <1>6

LEMMA TwoAndTwo ==
  ASSUME NEW p \in Puts, NEW q \in Puts, NEW r \in Puts, NEW s \in Puts
  PROVE  <<p, q>> \o <<r, s>> = <<p, q, r, s>>
<1>1. <<p, q>> \in Seq(Puts) /\ <<r, s>> \in Seq(Puts) /\ <<p, q, r, s>> \in Seq(Puts)
  OBVIOUS
<1>2. Len(<<p, q>>) = 2 /\ Len(<<r, s>>) = 2 /\ Len(<<p, q, r, s>>) = 4
  OBVIOUS
<1>3. /\ <<p, q>> \o <<r, s>> \in Seq(Puts) /\ Len(<<p, q>> \o <<r, s>>) = 4
      /\ \A i \in 1 .. 4 :
           (<<p, q>> \o <<r, s>>)[i] = IF i <= 2 THEN <<p, q>>[i] ELSE <<r, s>>[i - 2]
  BY <1>1, <1>2, ConcatProperties
<1>4. /\ (<<p, q>> \o <<r, s>>)[1] = p /\ (<<p, q>> \o <<r, s>>)[2] = q
      /\ (<<p, q>> \o <<r, s>>)[3] = r /\ (<<p, q>> \o <<r, s>>)[4] = s
  BY <1>3
<1>5. \A i \in 1 .. 4 : (<<p, q>> \o <<r, s>>)[i] = <<p, q, r, s>>[i]
  BY <1>4
<1> QED BY <1>1, <1>2, <1>3, <1>5, SeqEqual

\* The lists a start begins with.
LEMMA StartsWith ==
  ASSUME FilesOK, fresh \in Generated, fresh < MaxFresh, NEW puts \in Missing
  PROVE  \/ puts = <<>> /\ \A f \in CertFiles : Exists(f)
         \/ /\ puts = Left2(files[Ca].what, fresh + 1) /\ IsWhole(Ca) /\ Exists(CaKey)
            /\ ~(Exists(Server) /\ Exists(ServerKey))
         \/ puts = Left4(fresh + 1) /\ ~(Exists(Ca) /\ Exists(CaKey))
<1>1. fresh + 1 \in Generated
  BY BoundsAssumption DEF Generated
<1>2. CASE Exists(Ca) /\ Exists(CaKey)
  BY <1>2 DEF Missing, CertFiles, ServerCert, Left2
<1>3. CASE ~(Exists(Ca) /\ Exists(CaKey))
  <2>1. puts = <<Put(Ca, fresh + 1), Put(CaKey, fresh + 1)>> \o ServerCert(fresh + 1, fresh + 1)
    BY <1>3 DEF Missing
  <2>2. [ca |-> fresh + 1, key |-> fresh + 1] \in CertPair
    BY <1>1 DEF CertPair
  <2>3. /\ Put(Ca, fresh + 1) \in Puts /\ Put(CaKey, fresh + 1) \in Puts
        /\ Put(Server, [ca |-> fresh + 1, key |-> fresh + 1]) \in Puts
        /\ Put(ServerKey, fresh + 1) \in Puts
    BY <1>1, <2>2, Names, PutFits
  <2> QED BY <1>3, <2>1, <2>3, TwoAndTwo DEF ServerCert, Left4
<1> QED BY <1>2, <1>3

\* A step that leaves the certificates alone.
LEMMA MaterialElsewhere ==
  ASSUME Material, \A f \in CertFiles : files'[f] = files[f], halved' = halved,
         doing' = "starting" =>
           /\ doing = "starting" /\ todo'["handler"] = todo["handler"]
           /\ open'["handler"] = open["handler"],
         doing = "starting" /\ open["handler"] => Head(todo["handler"]).file \in CertFiles
  PROVE  Material'
<1>1. /\ files'[Ca] = files[Ca] /\ files'[CaKey] = files[CaKey]
      /\ files'[Server] = files[Server] /\ files'[ServerKey] = files[ServerKey]
  BY DEF CertFiles
<1>2. NoMixedMaterial' /\ Ordered'
  BY <1>1 DEF Material, NoMixedMaterial, Ordered, IsWhole, Exists
<1>3. ASSUME doing' = "starting" PROVE StartShape'
  BY <1>1, <1>3 DEF Material, StartShape, Disk1, Disk2, Disk3, Disk4, IsWhole, Exists,
                    Left1, Left2, Left3, Left4, Generated
<1>4. ASSUME doing' = "starting", open'["handler"]
      PROVE  files'[Head(todo'["handler"]).file] = Torn
  BY <1>4 DEF Material
<1> QED BY <1>2, <1>3, <1>4 DEF Material

\* The certificates are written by the handler only, while it starts a server.
LEMMA CertWriter ==
  ASSUME TypeOK, CaStands, Material, NEW w \in Writers, todo[w] # <<>>
  PROVE  Head(todo[w]).file \in CertFiles <=> w = "handler" /\ doing = "starting"
<1>1. Head(todo[w]).file \in FilesOf(todo[w])
  BY FirstAndRest DEF TypeOK, WritingOK
<1>2. Head(todo[w]).file \in CertFiles => w = "handler" /\ doing = "starting"
  BY <1>1, CaFilesAre DEF CaStands, Writers
<1>3. ASSUME w = "handler", doing = "starting" PROVE Head(todo[w]).file \in CertFiles
  BY <1>3, LeftIs DEF Material, StartShape, CertFiles
<1> QED BY <1>2, <1>3

LEMMA OpenIsCert ==
  ASSUME TypeOK, CaStands, Material, doing = "starting", open["handler"]
  PROVE  Head(todo["handler"]).file \in CertFiles
<1>1. "handler" \in Writers /\ todo["handler"] # <<>>
  BY DEF TypeOK, WritingOK, Writers
<1> QED BY <1>1, CertWriter

\* The handler empties the next of them.
LEMMA OpenCert ==
  ASSUME TypeOK, CaStands, Material, Open("handler"), doing = "starting"
  PROVE  Material'
<1> USE DEF TypeOK
<1> DEFINE f == Head(todo["handler"]).file
<1>1. /\ todo["handler"] # <<>> /\ ~open["handler"] /\ open' = [open EXCEPT !["handler"] = TRUE]
      /\ files' = [files EXCEPT ![f] = Torn]
      /\ UNCHANGED <<doing, todo, halved>>
  BY DEF Open, process, history
<1>2. f \in CertFiles
  BY <1>1, CertWriter DEF Writers
<1>f. f \in Files /\ Torn \in States(f)
  BY <1>2, CaFilesAre, StatesAre
<1> HIDE DEF f
<1>3. \A g \in Files : files'[g] = IF g = f THEN Torn ELSE files[g]
  BY <1>1, <1>f, DiskStays
<1> USE DEF f
<1>4. /\ files'[Ca] = IF f = Ca THEN Torn ELSE files[Ca]
      /\ files'[CaKey] = IF f = CaKey THEN Torn ELSE files[CaKey]
      /\ files'[Server] = IF f = Server THEN Torn ELSE files[Server]
      /\ files'[ServerKey] = IF f = ServerKey THEN Torn ELSE files[ServerKey]
  BY <1>3, Names
<1>5. /\ Torn # Absent /\ Torn.is # "whole"
      /\ \A x : Whole(x) # Torn /\ Whole(x) # Absent /\ Whole(x).is = "whole"
  BY DEF Torn, Absent, Whole
<1>6. open'["handler"] => files'[Head(todo'["handler"]).file] = Torn
  BY <1>1, <1>2, <1>3, CaFilesAre
<1>7. NoMixedMaterial'
  BY <1>1, <1>4, <1>5 DEF Material, NoMixedMaterial, IsWhole
<1>n. Ca # CaKey /\ Ca # Server /\ Ca # ServerKey /\ CaKey # Server /\ CaKey # ServerKey
  BY Names
<1>m. Server # ServerKey
  BY Names
<1>8. ASSUME NEW n \in Generated, todo["handler"] = Left1(n), Disk1(n)
      PROVE  StartShape' /\ Ordered'
  <2>1. f = ServerKey
    BY <1>8, LeftIs
  <2>2. Disk1(n)'
    BY <1>1, <1>4, <1>5, <1>8, <1>m, <2>1 DEF Disk1, IsWhole, Generated
  <2>3. Exists(Server) /\ Exists(CaKey) /\ Exists(Ca)
    BY <1>5, <1>8 DEF Disk1, Exists, Material, Ordered
  <2>4. Ordered'
    BY <1>4, <1>5, <1>n, <1>m, <2>1, <2>3 DEF Ordered, Exists
  <2>5. todo'["handler"] = Left1(n) /\ n \in Generated'
    BY <1>1, <1>8 DEF Generated
  <2> QED BY <2>2, <2>4, <2>5 DEF StartShape, Left1
<1>9. ASSUME NEW n \in Generated, NEW c \in Generated, todo["handler"] = Left2(c, n), Disk2(c)
      PROVE  StartShape' /\ Ordered'
  <2>1. f = Server
    BY <1>9, LeftIs
  <2>2. Disk2(c)'
    BY <1>1, <1>4, <1>9, <1>n, <1>m, <2>1 DEF Disk2, Exists
  <2>3. Exists(CaKey) /\ Exists(Ca)
    BY <1>5, <1>9 DEF Disk2, Exists
  <2>4. Ordered'
    BY <1>4, <1>5, <1>n, <1>m, <2>1, <2>3 DEF Ordered, Exists
  <2>5. todo'["handler"] = Left2(c, n) /\ n \in Generated' /\ c \in Generated'
    BY <1>1, <1>9 DEF Generated
  <2> QED BY <2>2, <2>4, <2>5 DEF StartShape, Left2
<1>10. ASSUME NEW n \in Generated, todo["handler"] = Left3(n), Disk3(n)
       PROVE  StartShape' /\ Ordered'
  <2>1. f = CaKey
    BY <1>10, LeftIs
  <2>2. Disk3(n)'
    BY <1>1, <1>4, <1>5, <1>10, <1>n, <2>1 DEF Disk3, Exists, IsWhole
  <2>3. Exists(Ca)
    BY <1>5, <1>10 DEF Disk3, Exists
  <2>4. Ordered'
    BY <1>4, <1>5, <1>10, <1>n, <2>1, <2>3 DEF Ordered, Exists, Disk3
  <2>5. todo'["handler"] = Left3(n) /\ n \in Generated'
    BY <1>1, <1>10 DEF Generated
  <2> QED BY <2>2, <2>4, <2>5 DEF StartShape, Left3
<1>11. ASSUME NEW n \in Generated, todo["handler"] = Left4(n), Disk4
       PROVE  StartShape' /\ Ordered'
  <2>1. f = Ca
    BY <1>11, LeftIs
  <2>2. Disk4'
    BY <1>4, <1>11, <1>n, <2>1 DEF Disk4, Exists
  <2>3. Ordered'
    BY <2>2 DEF Ordered, Disk4
  <2>4. todo'["handler"] = Left4(n) /\ n \in Generated'
    BY <1>1, <1>11 DEF Generated
  <2> QED BY <2>2, <2>3, <2>4 DEF StartShape, Left4
<1>12. StartShape' /\ Ordered'
  BY <1>1, <1>8, <1>9, <1>10, <1>11 DEF Material, StartShape
<1> QED BY <1>6, <1>7, <1>12 DEF Material

\* The handler fills the one it has emptied.
LEMMA FillCert ==
  ASSUME TypeOK, CaStands, Material, Fill("handler"), doing = "starting"
  PROVE  Material'
<1> USE DEF TypeOK
<1> DEFINE f == Head(todo["handler"]).file
           x == Head(todo["handler"]).content
<1>0. "handler" \in Writers
  BY DEF Writers
<1>1. /\ todo["handler"] # <<>> /\ open["handler"] /\ todo["handler"] \in Seq(Puts)
      /\ open' = [open EXCEPT !["handler"] = FALSE]
      /\ todo' = [todo EXCEPT !["handler"] = Tail(@)]
      /\ UNCHANGED <<doing, halved>>
  BY <1>0 DEF Fill, WritingOK, process, history
<1>2. f \in CertFiles /\ x \in Content(f) /\ Tail(todo["handler"]) \in Seq(Puts)
  BY <1>0, <1>1, CertWriter, FirstAndRest, PutsFit
<1>3. files[f] = Torn
  BY <1>1 DEF Material
<1>4. files' = [files EXCEPT ![f] = Whole(x)]
  BY <1>3 DEF Fill
<1>5. \A g \in Files : files'[g] = IF g = f THEN Whole(x) ELSE files[g]
  <2>1. f \in Files
    BY <1>2, CaFilesAre
  <2>2. Whole(x) \in States(f)
    BY <1>2, <2>1, StatesAre
  <2> QED BY <1>4, <2>1, <2>2, DiskStays
<1>6. todo'["handler"] = Tail(todo["handler"]) /\ ~open'["handler"]
  BY <1>0, <1>1, <1>2, ListChanges DEF WritingOK
<1> HIDE DEF f, x
<1>7. /\ files'[Ca] = IF f = Ca THEN Whole(x) ELSE files[Ca]
      /\ files'[CaKey] = IF f = CaKey THEN Whole(x) ELSE files[CaKey]
      /\ files'[Server] = IF f = Server THEN Whole(x) ELSE files[Server]
      /\ files'[ServerKey] = IF f = ServerKey THEN Whole(x) ELSE files[ServerKey]
  BY <1>5, Names
<1>8. /\ Torn # Absent /\ Torn.is # "whole" /\ Absent.is # "whole"
      /\ \A y : /\ Whole(y) # Torn /\ Whole(y) # Absent
               /\ Whole(y).is = "whole" /\ Whole(y).what = y
  BY DEF Torn, Absent, Whole
<1>n. Ca # CaKey /\ Ca # Server /\ Ca # ServerKey /\ CaKey # Server /\ CaKey # ServerKey
  BY Names
<1>m. Server # ServerKey
  BY Names
<1>g. Generated' = Generated
  BY DEF Generated
<1>9. ASSUME NEW n \in Generated, todo["handler"] = Left1(n), Disk1(n)
      PROVE  StartShape' /\ Ordered' /\ NoMixedMaterial'
  <2>1. f = ServerKey /\ x = n /\ todo'["handler"] = <<>>
    BY <1>6, <1>9, LeftIs DEF f, x
  <2>2. PICK c \in Generated : files[Server] = Whole([ca |-> c, key |-> n])
    BY <1>9 DEF Disk1
  <2>3. Exists(Server) /\ Exists(CaKey) /\ Exists(Ca)
    BY <1>8, <2>2 DEF Exists, Material, Ordered
  <2>4. Ordered'
    BY <1>7, <1>8, <1>n, <1>m, <2>1, <2>3 DEF Ordered, Exists
  <2>5. /\ files'[Ca] = files[Ca] /\ files'[CaKey] = files[CaKey]
        /\ files'[Server] = files[Server] /\ files'[ServerKey] = Whole(n)
    BY <1>7, <1>n, <1>m, <2>1
  <2>6. files[Server].what.key = n
    BY <1>8, <2>2
  <2>7. NoMixedMaterial'
    BY <1>8, <2>5, <2>6 DEF NoMixedMaterial, Material, IsWhole
  <2> QED BY <2>1, <2>4, <2>7 DEF StartShape
<1>10. ASSUME NEW n \in Generated, NEW c \in Generated, todo["handler"] = Left2(c, n), Disk2(c)
       PROVE  StartShape' /\ Ordered' /\ NoMixedMaterial'
  <2>1. f = Server /\ x = [ca |-> c, key |-> n] /\ todo'["handler"] = Left1(n)
    BY <1>6, <1>10, LeftIs DEF f, x
  <2>2. /\ files'[Ca] = files[Ca] /\ files'[CaKey] = files[CaKey]
        /\ files'[Server] = Whole([ca |-> c, key |-> n]) /\ files'[ServerKey] = files[ServerKey]
    BY <1>7, <1>n, <1>m, <2>1
  <2>3. Exists(CaKey) /\ Exists(Ca) /\ files[Ca] = Whole(c)
    BY <1>8, <1>10 DEF Disk2, Exists
  <2>4. Ordered'
    BY <1>8, <2>2, <2>3 DEF Ordered, Exists
  <2>5. ~halved => ~IsWhole(ServerKey)
    BY <1>8, <1>10 DEF Disk2, Exists, IsWhole
  <2>6. Disk1(n)'
    BY <1>1, <1>g, <2>2, <2>5 DEF Disk1, IsWhole
  <2>7. NoMixedMaterial'
    BY <1>1, <1>8, <2>2, <2>3, <2>5 DEF NoMixedMaterial, Material, IsWhole
  <2> QED BY <1>g, <2>1, <2>4, <2>6, <2>7 DEF StartShape, Left1
<1>11. ASSUME NEW n \in Generated, todo["handler"] = Left3(n), Disk3(n)
       PROVE  StartShape' /\ Ordered' /\ NoMixedMaterial'
  <2>1. f = CaKey /\ x = n /\ todo'["handler"] = Left2(n, n)
    BY <1>6, <1>11, LeftIs DEF f, x
  <2>2. /\ files'[Ca] = files[Ca] /\ files'[CaKey] = Whole(n)
        /\ files'[Server] = files[Server] /\ files'[ServerKey] = files[ServerKey]
    BY <1>7, <1>n, <2>1
  <2>3. files[Ca] = Whole(n) /\ files[Server] = Absent /\ files[ServerKey] = Absent
    BY <1>11 DEF Disk3, Exists
  <2>4. Ordered'
    BY <1>8, <2>2, <2>3 DEF Ordered, Exists
  <2>5. Disk2(n)'
    BY <1>8, <2>2, <2>3 DEF Disk2, Exists
  <2>6. NoMixedMaterial'
    BY <1>8, <2>2, <2>3 DEF NoMixedMaterial, IsWhole
  <2> QED BY <1>g, <2>1, <2>4, <2>5, <2>6 DEF StartShape, Left2
<1>12. ASSUME NEW n \in Generated, todo["handler"] = Left4(n), Disk4
       PROVE  StartShape' /\ Ordered' /\ NoMixedMaterial'
  <2>1. f = Ca /\ x = n /\ todo'["handler"] = Left3(n)
    BY <1>6, <1>12, LeftIs DEF f, x
  <2>2. /\ files'[Ca] = Whole(n) /\ files'[CaKey] = files[CaKey]
        /\ files'[Server] = files[Server] /\ files'[ServerKey] = files[ServerKey]
    BY <1>7, <1>n, <2>1
  <2>3. files[CaKey] = Absent /\ files[Server] = Absent /\ files[ServerKey] = Absent
    BY <1>12 DEF Disk4, Exists
  <2>4. Ordered'
    BY <1>8, <2>2, <2>3 DEF Ordered, Exists
  <2>5. Disk3(n)'
    BY <1>8, <2>2, <2>3 DEF Disk3, Exists, IsWhole
  <2>6. NoMixedMaterial'
    BY <1>8, <2>2, <2>3 DEF NoMixedMaterial, IsWhole
  <2> QED BY <1>g, <2>1, <2>4, <2>5, <2>6 DEF StartShape, Left3
<1>13. StartShape' /\ Ordered' /\ NoMixedMaterial'
  BY <1>1, <1>9, <1>10, <1>11, <1>12 DEF Material, StartShape
<1> QED BY <1>6, <1>13 DEF Material

LEMMA InitMaterial == Init => Material
<1> SUFFICES ASSUME Init PROVE Material
  OBVIOUS
<1>1. files[Ca] = Absent /\ files[CaKey] = Absent /\ files[Server] = Absent /\ files[ServerKey] = Absent
  BY Names DEF Init
<1>2. Absent.is # "whole"
  BY DEF Absent
<1> QED BY <1>1, <1>2 DEF Init, Material, NoMixedMaterial, Ordered, IsWhole, Exists

LEMMA MaterialStep ==
  ASSUME TypeOK, CaStands, Material, Next
  PROVE  Material'
<1> USE DEF TypeOK
<1>w. "handler" \in Writers /\ "gui" \in Writers /\ "persist" \in Writers
  BY DEF Writers
<1>o. doing = "starting" /\ open["handler"] => Head(todo["handler"]).file \in CertFiles
  BY OpenIsCert
<1>1. ASSUME NEW m \in {"gui", "server", "client"}, Launch(m) PROVE Material'
  BY <1>1, <1>o, MaterialElsewhere DEF Launch, writing, history
<1>2. ASSUME Exit PROVE Material'
  <2>1. doing' = "nothing" /\ UNCHANGED <<files, halved>>
    BY <1>2 DEF Exit
  <2> QED BY <1>o, <2>1, MaterialElsewhere
<1>3. ASSUME NEW fs \in SUBSET {Server, ServerKey}, Delete(fs) PROVE Material'
  <2>1. /\ \A g \in Files : files'[g] = IF g \in fs THEN Absent ELSE files[g]
        /\ doing' = "nothing"
        /\ halved' = (halved \/ (fs = {Server} /\ Exists(ServerKey)))
    BY <1>3 DEF Delete, process, CaStands
  <2>2. /\ files'[Ca] = files[Ca] /\ files'[CaKey] = files[CaKey]
        /\ files'[Server] = IF Server \in fs THEN Absent ELSE files[Server]
        /\ files'[ServerKey] = IF ServerKey \in fs THEN Absent ELSE files[ServerKey]
    BY <2>1, Names
  <2>3. Absent.is # "whole"
    BY DEF Absent
  <2>4. NoMixedMaterial'
    BY <2>1, <2>2, <2>3 DEF Material, NoMixedMaterial, IsWhole
  <2>5. Exists(CaKey)' <=> Exists(CaKey)
    BY <2>2 DEF Exists
  <2>6. Exists(Ca)' <=> Exists(Ca)
    BY <2>2 DEF Exists
  <2>7. Exists(Server)' <=> Exists(Server) /\ Server \notin fs
    BY <2>2 DEF Exists
  <2>8. Exists(ServerKey)' <=> Exists(ServerKey) /\ ServerKey \notin fs
    BY <2>2 DEF Exists
  <2>9. ~halved' /\ Exists(ServerKey)' => Exists(Server)'
    <3>1. CASE Server \in fs
      <4>1. ServerKey \notin fs => fs = {Server}
        BY <3>1
      <4> QED BY <2>1, <2>8, <4>1
    <3>2. CASE Server \notin fs
      BY <2>1, <2>7, <2>8, <3>2 DEF Material, Ordered
    <3> QED BY <3>1, <3>2
  <2>10. Ordered'
    BY <2>5, <2>6, <2>7, <2>8, <2>9 DEF Material, Ordered
  <2> QED BY <2>1, <2>4, <2>10 DEF Material
<1>4. ASSUME StartServer PROVE Material'
  <2>1. PICK puts \in Missing : todo' = [todo EXCEPT !["handler"] = puts]
    BY <1>4 DEF StartServer
  <2>2. /\ fresh < MaxFresh /\ doing = "nothing" /\ UNCHANGED <<files, open, halved>>
    BY <1>4 DEF StartServer, history
  <2>3. puts \in Seq(Puts)
    BY <2>2, ResolvingWrites DEF HistoryOK
  <2>4. todo'["handler"] = puts
    BY <1>w, <2>1, <2>3, ListChanges DEF WritingOK
  <2>5. ~open'["handler"]
    BY <2>2, IdleHandler
  <2>6. NoMixedMaterial' /\ Ordered'
    BY <2>2 DEF Material, NoMixedMaterial, Ordered, IsWhole, Exists
  <2>g. Generated' = Generated /\ fresh + 1 \in Generated
    BY <2>2, BoundsAssumption DEF Generated, HistoryOK
  <2>7. CASE puts = <<>>
    BY <2>4, <2>5, <2>6, <2>7 DEF Material, StartShape
  <2>8. CASE /\ puts = Left2(files[Ca].what, fresh + 1) /\ IsWhole(Ca) /\ Exists(CaKey)
             /\ ~(Exists(Server) /\ Exists(ServerKey))
    <3>1. files[Ca] = Whole(files[Ca].what) /\ files[Ca].what \in Generated
      <4>1. files[Ca] \in States(Ca) /\ Content(Ca) = Generated
        BY Names DEF FilesOK
      <4> QED BY <2>8, <4>1 DEF States, IsWhole, Absent, Torn, Whole
    <3>2. ~halved => ~Exists(ServerKey)
      BY <2>8 DEF Material, Ordered
    <3>3. Disk2(files[Ca].what)
      BY <2>8, <3>1, <3>2 DEF Disk2
    <3>4. \A c : Disk2(c)' <=> Disk2(c)
      BY <2>2 DEF Disk2, Exists
    <3>5. StartShape'
      BY <2>g, <2>4, <2>8, <3>1, <3>3, <3>4 DEF StartShape, Left2
    <3> QED BY <2>5, <2>6, <3>5 DEF Material
  <2>9. CASE puts = Left4(fresh + 1) /\ ~(Exists(Ca) /\ Exists(CaKey))
    <3>1. Disk4'
      BY <2>2, <2>9 DEF Material, Ordered, Disk4, Exists
    <3>2. StartShape'
      BY <2>g, <2>4, <2>9, <3>1 DEF StartShape, Left4
    <3> QED BY <2>5, <2>6, <3>2 DEF Material
  <2> QED BY <2>2, <2>7, <2>8, <2>9, StartsWith DEF HistoryOK
<1>5. ASSUME StartFails PROVE Material'
  BY <1>5, <1>o, MaterialElsewhere DEF StartFails, process, writing
<1>6. ASSUME Resolved PROVE Material'
  <2>1. doing' = "nothing" /\ UNCHANGED <<files, halved>>
    BY <1>6 DEF Resolved
  <2> QED BY <1>o, <2>1, MaterialElsewhere
<1>7. ASSUME NEW d \in Devices, Persist(d) PROVE Material'
  <2>1. todo'["handler"] = todo["handler"]
    BY <1>7 DEF Persist, WritingOK
  <2> QED BY <1>7, <1>o, <2>1, MaterialElsewhere DEF Persist, process
<1>8. ASSUME NEW a \in Addresses, Pair(a) PROVE Material'
  <2>1. doing' # "starting" /\ UNCHANGED <<files, halved>>
    BY <1>8, AddressesAssumption DEF Pair
  <2> QED BY <1>o, <2>1, MaterialElsewhere
<1>9. ASSUME Paired PROVE Material'
  <2>1. doing' # "starting" /\ UNCHANGED <<files, halved>>
    BY <1>9 DEF Paired
  <2> QED BY <1>o, <2>1, MaterialElsewhere
<1>10. ASSUME GuiSave PROVE Material'
  <2>1. todo'["handler"] = todo["handler"]
    BY <1>10 DEF GuiSave, WritingOK
  <2> QED BY <1>10, <1>o, <2>1, MaterialElsewhere DEF GuiSave, process
<1>11. ASSUME NEW w \in Writers, Open(w) PROVE Material'
  <2>1. CASE w = "handler" /\ doing = "starting"
    BY <1>11, <2>1, OpenCert
  <2>2. CASE ~(w = "handler" /\ doing = "starting")
    <3>1. /\ todo[w] # <<>> /\ files' = [files EXCEPT ![Head(todo[w]).file] = Torn]
          /\ open' = [open EXCEPT ![w] = TRUE] /\ UNCHANGED <<doing, todo, halved>>
      BY <1>11 DEF Open, process, history
    <3>2. Head(todo[w]).file \notin CertFiles
      BY <2>2, <3>1, CertWriter
    <3>3. \A f \in CertFiles : files'[f] = files[f]
      BY <3>1, <3>2, CaFilesAre DEF FilesOK
    <3>4. doing = "starting" => open'["handler"] = open["handler"]
      BY <1>w, <2>2, <3>1 DEF WritingOK
    <3> QED BY <1>o, <3>1, <3>3, <3>4, MaterialElsewhere
  <2> QED BY <2>1, <2>2
<1>12. ASSUME NEW w \in Writers, Fill(w) PROVE Material'
  <2>1. CASE w = "handler" /\ doing = "starting"
    BY <1>12, <2>1, FillCert
  <2>2. CASE ~(w = "handler" /\ doing = "starting")
    <3>1. /\ todo[w] # <<>> /\ \E x : files' = [files EXCEPT ![Head(todo[w]).file] = x]
          /\ open' = [open EXCEPT ![w] = FALSE] /\ todo' = [todo EXCEPT ![w] = Tail(@)]
          /\ UNCHANGED <<doing, halved>>
      BY <1>12 DEF Fill, process, history, WritingOK
    <3>2. Head(todo[w]).file \notin CertFiles
      BY <2>2, <3>1, CertWriter
    <3>3. \A f \in CertFiles : files'[f] = files[f]
      BY <3>1, <3>2, CaFilesAre DEF FilesOK
    <3>4. doing = "starting" => /\ open'["handler"] = open["handler"]
                                /\ todo'["handler"] = todo["handler"]
      BY <1>w, <2>2, <3>1 DEF WritingOK
    <3> QED BY <1>o, <3>1, <3>3, <3>4, MaterialElsewhere
  <2> QED BY <2>1, <2>2
<1> QED BY <1>1, <1>2, <1>3, <1>4, <1>5, <1>6, <1>7, <1>8, <1>9, <1>10, <1>11, <1>12 DEF Next

LEMMA MaterialAlways == Spec => []Material
<1>1. TypeOK /\ CaStands /\ Material /\ UNCHANGED vars => Material'
  BY OpenIsCert, MaterialElsewhere DEF vars, process, writing, history
<1>2. TypeOK /\ CaStands /\ Material /\ [Next]_vars => Material'
  BY <1>1, MaterialStep
<1> QED BY <1>2, TypeCorrect, CaStandsAlways, InitMaterial, PTL DEF Spec

\* Certificates and keys found on the disk belong together, wherever the
\* process has ended and whatever the user has deleted.
THEOREM MaterialBelongsTogether == Spec => []NoMixedMaterial
<1>1. Material => NoMixedMaterial
  BY DEF Material
<1> QED BY <1>1, MaterialAlways, PTL
-----------------------------------------------------------------------------
(* As long as the program has not ended in the middle of writing.          *)

KeysMatch ==
  IsWhole(Server) /\ IsWhole(ServerKey) => files[Server].what.key = files[ServerKey].what

\* Then only the file that is being written is torn, and the certificate has its
\* key, except while they are made.
Uncut ==
  ~cut =>
    /\ ~failed
    /\ \A f \in CertFiles : files[f] = Torn =>
         doing = "starting" /\ open["handler"] /\ Head(todo["handler"]).file = f
    /\ doing # "starting" \/ todo["handler"] = <<>> => KeysMatch

LEMMA InitUncut == Init => Uncut
<1> SUFFICES ASSUME Init PROVE Uncut
  OBVIOUS
<1>1. \A f \in CertFiles : files[f] = Absent
  BY CaFilesAre DEF Init
<1>2. Absent # Torn /\ Absent.is # "whole"
  BY DEF Absent, Torn
<1>3. ~IsWhole(Server)
  BY <1>1, <1>2 DEF CertFiles, IsWhole
<1> QED BY <1>1, <1>2, <1>3 DEF Init, Uncut, KeysMatch

\* A step that leaves the certificates alone.
LEMMA UncutElsewhere ==
  ASSUME Uncut, \A f \in CertFiles : files'[f] = files[f], UNCHANGED failed, cut => cut',
         doing' = "starting" <=> doing = "starting",
         doing = "starting" =>
           todo'["handler"] = todo["handler"] /\ open'["handler"] = open["handler"]
  PROVE  Uncut'
<1>1. files'[Server] = files[Server] /\ files'[ServerKey] = files[ServerKey]
  BY DEF CertFiles
<1>2. KeysMatch' <=> KeysMatch
  BY <1>1 DEF KeysMatch, IsWhole
<1>3. CertFiles' = CertFiles /\ Torn' = Torn
  BY DEF CertFiles, Torn, Ca, CaKey, Server, ServerKey
<1> QED BY <1>2, <1>3 DEF Uncut

\* What is not absent, and not torn, is whole.
LEMMA ThreeStates ==
  ASSUME FilesOK, NEW f \in Files
  PROVE  Exists(f) /\ files[f] # Torn <=> IsWhole(f)
BY DEF FilesOK, States, Exists, IsWhole, Absent, Torn, Whole

LEMMA UncutStep ==
  ASSUME TypeOK, CaStands, Material, Uncut, Next
  PROVE  Uncut'
<1> USE DEF TypeOK
<1>w. "handler" \in Writers /\ "gui" \in Writers /\ "persist" \in Writers
  BY DEF Writers
<1>c. Ca \in CertFiles /\ CaKey \in CertFiles /\ Server \in CertFiles /\ ServerKey \in CertFiles
  BY DEF CertFiles
<1>1. ASSUME NEW m \in {"gui", "server", "client"}, Launch(m) PROVE Uncut'
  BY <1>1, UncutElsewhere DEF Launch, writing, history
<1>2. ASSUME Exit PROVE Uncut'
  <2>1. /\ doing' = "nothing" /\ UNCHANGED <<files, failed>>
        /\ cut' = (cut \/ \E w \in Writers : todo[w] # <<>>)
    BY <1>2 DEF Exit
  <2>2. ASSUME ~cut' PROVE ~cut /\ todo["handler"] = <<>> /\ ~open["handler"]
    BY <1>w, <2>1, <2>2 DEF WritingOK
  <2>3. KeysMatch' <=> KeysMatch
    BY <2>1 DEF KeysMatch, IsWhole
  <2> QED BY <2>1, <2>2, <2>3 DEF Uncut
<1>3. ASSUME NEW fs \in SUBSET {Server, ServerKey}, Delete(fs) PROVE Uncut'
  <2>1. /\ \A g \in CertFiles : files'[g] = IF g \in fs THEN Absent ELSE files[g]
        /\ doing = "nothing" /\ doing' = "nothing" /\ UNCHANGED <<cut, failed>>
    BY <1>3, CaFilesAre DEF Delete, process, CaStands
  <2>2. Absent # Torn /\ Absent.is # "whole"
    BY DEF Absent, Torn
  <2>3. KeysMatch => KeysMatch'
    BY <1>c, <2>1, <2>2 DEF KeysMatch, IsWhole
  <2> QED BY <2>1, <2>2, <2>3 DEF Uncut
<1>4. ASSUME StartServer PROVE Uncut'
  <2>1. doing = "nothing" /\ UNCHANGED <<files, cut, failed>>
    BY <1>4 DEF StartServer, history
  <2>2. KeysMatch' <=> KeysMatch
    BY <2>1 DEF KeysMatch, IsWhole
  <2> QED BY <2>1, <2>2 DEF Uncut
<1>5. ASSUME StartFails PROVE Uncut'
  <2>1. /\ doing = "nothing" /\ Missing = {}
        /\ UNCHANGED <<files, doing, todo, open, cut>>
    BY <1>5 DEF StartFails, process, writing
  <2>2. ASSUME Exists(Ca), Exists(CaKey), ~(Exists(Server) /\ Exists(ServerKey)),
               ~(IsWhole(Ca) /\ IsWhole(CaKey))
        PROVE  cut
    <3>1. files[Ca] = Torn \/ files[CaKey] = Torn
      BY <2>2, ThreeStates, Names
    <3> QED BY <1>c, <2>1, <3>1 DEF Uncut
  <2>3. cut
    BY <2>1, <2>2 DEF Missing
  <2> QED BY <2>1, <2>3 DEF Uncut
<1>6. ASSUME Resolved PROVE Uncut'
  <2>1. /\ doing = "starting" /\ todo["handler"] = <<>> /\ doing' = "nothing"
        /\ UNCHANGED <<files, cut>> /\ failed' = (failed \/ ~Usable)
    BY <1>6 DEF Resolved
  <2>2. ~open["handler"] /\ \A f \in CertFiles : Exists(f)
    BY <1>w, <2>1, NothingLeft DEF WritingOK, CaStands
  <2>3. ASSUME ~cut PROVE KeysMatch /\ \A f \in CertFiles : files[f] # Torn /\ IsWhole(f)
    <3>1. KeysMatch /\ \A f \in CertFiles : files[f] # Torn
      BY <2>1, <2>2, <2>3 DEF Uncut
    <3> QED BY <2>2, <3>1, ThreeStates, CaFilesAre
  <2>4. ~cut => Usable
    BY <1>c, <2>3 DEF Usable, KeysMatch
  <2>5. KeysMatch' <=> KeysMatch
    BY <2>1 DEF KeysMatch, IsWhole
  <2> QED BY <2>1, <2>3, <2>4, <2>5 DEF Uncut
<1>7. ASSUME NEW d \in Devices, Persist(d) PROVE Uncut'
  <2>1. todo'["handler"] = todo["handler"]
    BY <1>7 DEF Persist, WritingOK
  <2> QED BY <1>7, <2>1, UncutElsewhere DEF Persist, process
<1>8. ASSUME NEW a \in Addresses, Pair(a) PROVE Uncut'
  <2>1. doing = "nothing" /\ doing' # "starting" /\ UNCHANGED <<files, cut, failed>>
    BY <1>8, AddressesAssumption DEF Pair
  <2> QED BY <2>1, UncutElsewhere
<1>9. ASSUME Paired PROVE Uncut'
  <2>1. doing # "starting" /\ doing' # "starting" /\ UNCHANGED <<files, cut, failed>>
    BY <1>9, AddressesAssumption DEF Paired
  <2> QED BY <2>1, UncutElsewhere
<1>10. ASSUME GuiSave PROVE Uncut'
  <2>1. todo'["handler"] = todo["handler"]
    BY <1>10 DEF GuiSave, WritingOK
  <2> QED BY <1>10, <2>1, UncutElsewhere DEF GuiSave, process
<1>11. ASSUME NEW w \in Writers, Open(w) PROVE Uncut'
  <2>1. /\ todo[w] # <<>> /\ files' = [files EXCEPT ![Head(todo[w]).file] = Torn]
        /\ ~open[w] /\ open' = [open EXCEPT ![w] = TRUE]
        /\ UNCHANGED <<doing, todo, cut, failed>>
    BY <1>11 DEF Open, process, history
  <2>2. CASE w = "handler" /\ doing = "starting"
    <3>1. open'["handler"]
      BY <1>w, <2>1, <2>2 DEF WritingOK
    <3>2. \A f \in CertFiles : files'[f] = IF f = Head(todo[w]).file THEN Torn ELSE files[f]
      BY <2>1, CaFilesAre DEF FilesOK
    <3>3. ~cut => \A f \in CertFiles : files'[f] = Torn => f = Head(todo[w]).file
      BY <2>1, <2>2, <3>2 DEF Uncut
    <3> QED BY <2>1, <2>2, <3>1, <3>3 DEF Uncut
  <2>3. CASE ~(w = "handler" /\ doing = "starting")
    <3>1. \A f \in CertFiles : files'[f] = files[f]
      BY <2>1, <2>3, CertWriter, CaFilesAre DEF FilesOK
    <3>2. doing = "starting" => open'["handler"] = open["handler"]
      BY <1>w, <2>1, <2>3 DEF WritingOK
    <3> QED BY <2>1, <3>1, <3>2, UncutElsewhere
  <2> QED BY <2>2, <2>3
<1>12. ASSUME NEW w \in Writers, Fill(w) PROVE Uncut'
  <2>1. /\ todo[w] # <<>> /\ open[w] /\ todo[w] \in Seq(Puts)
        /\ open' = [open EXCEPT ![w] = FALSE] /\ todo' = [todo EXCEPT ![w] = Tail(@)]
        /\ UNCHANGED <<doing, cut, failed>>
    BY <1>12 DEF Fill, process, history, WritingOK
  <2>2. CASE w = "handler" /\ doing = "starting"
    <3> DEFINE f == Head(todo["handler"]).file
               x == Head(todo["handler"]).content
    <3>1. f \in CertFiles /\ files[f] = Torn
      BY <2>1, <2>2, OpenIsCert DEF Material
    <3>2. files' = [files EXCEPT ![f] = Whole(x)]
      BY <1>12, <2>2, <3>1 DEF Fill
    <3>3. \A g \in CertFiles : files'[g] = IF g = f THEN Whole(x) ELSE files[g]
      BY <3>1, <3>2, CaFilesAre DEF FilesOK
    <3>4. Whole(x) # Torn /\ \A y : Whole(y).what = y
      BY DEF Whole, Torn
    <3>5. ~cut => \A g \in CertFiles : files'[g] # Torn
      BY <3>3, <3>4 DEF Uncut
    <3>6. todo'["handler"] = Tail(todo["handler"])
      BY <1>w, <2>1, <2>2 DEF WritingOK
    <3>7. ASSUME todo'["handler"] = <<>> PROVE KeysMatch'
      <4>1. PICK n \in Generated : todo["handler"] = Left1(n) /\ Disk1(n)
        <5>1. ASSUME NEW n, NEW c
              PROVE  /\ todo["handler"] # Left2(c, n)
                     /\ todo["handler"] # Left3(n) /\ todo["handler"] # Left4(n)
          <6>1. /\ Tail(Left2(c, n)) = Left1(n) /\ Left1(n) # <<>>
                /\ Tail(Left3(n)) = Left2(n, n) /\ Left2(n, n) # <<>>
                /\ Tail(Left4(n)) = Left3(n) /\ Left3(n) # <<>>
            BY LeftIs
          <6> QED BY <3>6, <3>7, <6>1
        <5> QED BY <2>1, <2>2, <5>1 DEF Material, StartShape
      <4>2. f = ServerKey /\ x = n
        BY <4>1, LeftIs
      <4>3. files'[ServerKey] = Whole(n) /\ files'[Server] = files[Server]
        BY <1>c, <3>3, <4>2, Names
      <4>4. files[Server].what.key = n
        BY <3>4, <4>1 DEF Disk1
      <4> QED BY <3>4, <4>3, <4>4 DEF KeysMatch
    <3> HIDE DEF f, x
    <3> QED BY <2>1, <2>2, <3>5, <3>7 DEF Uncut
  <2>3. CASE ~(w = "handler" /\ doing = "starting")
    <3>1. \A f \in CertFiles : files'[f] = files[f]
      BY <1>12, <2>1, <2>3, CertWriter, CaFilesAre DEF Fill, FilesOK
    <3>2. doing = "starting" => /\ open'["handler"] = open["handler"]
                                /\ todo'["handler"] = todo["handler"]
      BY <1>w, <2>1, <2>3 DEF WritingOK
    <3> QED BY <2>1, <3>1, <3>2, UncutElsewhere
  <2> QED BY <2>2, <2>3
<1> QED BY <1>1, <1>2, <1>3, <1>4, <1>5, <1>6, <1>7, <1>8, <1>9, <1>10, <1>11, <1>12 DEF Next

\* A start finds certificates it can use, as long as the program has not ended
\* in the middle of writing.
THEOREM ServerStarts == Spec => []StartsUnlessCut
<1>1. Uncut /\ UNCHANGED vars => Uncut'
  BY UncutElsewhere DEF vars, process, writing, history
<1>2. TypeOK /\ CaStands /\ Material /\ Uncut /\ [Next]_vars => Uncut'
  BY <1>1, UncutStep
<1>3. Uncut => StartsUnlessCut
  BY DEF Uncut, StartsUnlessCut
<1> QED BY <1>2, <1>3, TypeCorrect, CaStandsAlways, MaterialAlways, InitUncut, PTL DEF Spec
-----------------------------------------------------------------------------
(* What the copies of the configuration know, and the material they stand  *)
(* for.                                                                    *)

\* What pairing has left to write, from the record back to the certificate: n
\* is what it provides, c the handler's configuration.
Rest1(c)       == <<Put(Config, c)>>
Rest2(a, n, c) == <<Put(<<"ca", a>>, n), Put(Config, c)>>
Rest3(a, n, c) == <<Put(<<"key", a>>, n), Put(<<"ca", a>>, n), Put(Config, c)>>
Rest4(a, n, c) == <<Put(<<"cert", a>>, n), Put(<<"key", a>>, n), Put(<<"ca", a>>, n), Put(Config, c)>>
Rests(a, n, c) == {<<>>, Rest1(c), Rest2(a, n, c), Rest3(a, n, c), Rest4(a, n, c)}

\* A copy of the configuration that is not the handler's.
Abroad(c) ==
  \/ c = gui
  \/ files[Config] = Whole(c)
  \/ \E w \in {"gui", "persist"} : todo[w] = Rest1(c)

\* What it knows the handler knows, the material is there, and nobody is about
\* to replace it.
Backed(c) ==
  \A a \in Addresses \ again : c.known[a] # Unknown =>
    /\ c.known[a] = handler.known[a]
    /\ \A f \in Trust(a) : files[f] = Whole(c.known[a]) /\ f \notin FilesOf(todo["handler"])

\* What the handler knows is on the disk, or on its list.
HandlerBacked ==
  \A a \in Addresses \ again : handler.known[a] # Unknown =>
    \A f \in Trust(a) : files[f] = Whole(handler.known[a]) \/ f \in FilesOf(todo["handler"])

\* A pairing has the record to write last, and its material before it; no other
\* task writes that material.
PairingGoesOn ==
  /\ handler.known[doing] # Unknown
  /\ todo["handler"] \in Rests(doing, handler.known[doing], handler)
  /\ open["handler"] /\ Head(todo["handler"]).file \in Trust(doing) =>
       files[Head(todo["handler"]).file] = Torn

Lone(w) == todo[w] = <<>> \/ \E c \in AppConfig : todo[w] = Rest1(c)

\* The inductive invariant.
Backing ==
  /\ Lone("gui") /\ Lone("persist")
  /\ mode = "off" => ~serving /\ \A w \in Writers : todo[w] = <<>>
  /\ doing \in Addresses => PairingGoesOn
  /\ doing \notin Addresses => FilesOf(todo["handler"]) \subseteq CertFiles
  /\ mode # "off" => HandlerBacked
  /\ \A c \in AppConfig : Abroad(c) => Backed(c)

LEMMA TrustApart ==
  ASSUME NEW a \in Addresses, NEW b \in Addresses, NEW f \in Trust(a), f \in Trust(b)
  PROVE  a = b
BY DEF Trust

LEMMA TrustIs ==
  ASSUME NEW a \in Addresses
  PROVE  /\ <<"cert", a>> \in Trust(a) /\ <<"key", a>> \in Trust(a) /\ <<"ca", a>> \in Trust(a)
         /\ <<"cert", a>> # <<"key", a>> /\ <<"cert", a>> # <<"ca", a>> /\ <<"key", a>> # <<"ca", a>>
         /\ Config \notin Trust(a) /\ Trust(a) \cap CertFiles = {}
<1>1. "cert" # "key" /\ "cert" # "ca" /\ "key" # "ca"
  OBVIOUS
<1> QED BY <1>1, TrustNames, CaFilesAre DEF Trust

\* An entry's content is of no matter to what becomes of the list.
LEMMA RestIs ==
  ASSUME NEW a \in Addresses, NEW n \in Generated, NEW c \in AppConfig
  PROVE  /\ Head(Rest1(c)).file = Config /\ Head(Rest1(c)).content = c
         /\ Tail(Rest1(c)) = <<>> /\ Rest1(c) # <<>>
         /\ Head(Rest2(a, n, c)).file = <<"ca", a>> /\ Head(Rest2(a, n, c)).content = n
         /\ Tail(Rest2(a, n, c)) = Rest1(c) /\ Rest2(a, n, c) # <<>>
         /\ Head(Rest3(a, n, c)).file = <<"key", a>> /\ Head(Rest3(a, n, c)).content = n
         /\ Tail(Rest3(a, n, c)) = Rest2(a, n, c) /\ Rest3(a, n, c) # <<>>
         /\ Head(Rest4(a, n, c)).file = <<"cert", a>> /\ Head(Rest4(a, n, c)).content = n
         /\ Tail(Rest4(a, n, c)) = Rest3(a, n, c) /\ Rest4(a, n, c) # <<>>
<1>1. /\ Head(Rest1(c)) = Put(Config, c) /\ Tail(Rest1(c)) = <<>> /\ Rest1(c) # <<>>
      /\ Head(Rest2(a, n, c)) = Put(<<"ca", a>>, n)
      /\ Tail(Rest2(a, n, c)) = Rest1(c) /\ Rest2(a, n, c) # <<>>
      /\ Head(Rest3(a, n, c)) = Put(<<"key", a>>, n)
      /\ Tail(Rest3(a, n, c)) = Rest2(a, n, c) /\ Rest3(a, n, c) # <<>>
      /\ Head(Rest4(a, n, c)) = Put(<<"cert", a>>, n)
      /\ Tail(Rest4(a, n, c)) = Rest3(a, n, c) /\ Rest4(a, n, c) # <<>>
  BY Lists DEF Rest1, Rest2, Rest3, Rest4
<1> QED BY <1>1, PutIs

LEMMA RestPuts ==
  ASSUME NEW a \in Addresses, NEW n \in Generated, NEW c \in AppConfig
  PROVE  /\ Rest1(c) \in Seq(Puts) /\ Rest2(a, n, c) \in Seq(Puts)
         /\ Rest3(a, n, c) \in Seq(Puts) /\ Rest4(a, n, c) \in Seq(Puts)
<1>1. /\ Put(<<"cert", a>>, n) \in Puts /\ Put(<<"key", a>>, n) \in Puts
      /\ Put(<<"ca", a>>, n) \in Puts /\ Put(Config, c) \in Puts
  BY TrustIs, TrustNames, Names, PutFits
<1> QED BY <1>1 DEF Rest1, Rest2, Rest3, Rest4

\* What pairing begins with.
LEMMA RestBegins ==
  ASSUME NEW a \in Addresses, NEW n \in Generated, NEW c \in AppConfig
  PROVE  WriteThenRecord(a, n, c) = Rest4(a, n, c)
<1> DEFINE p == Put(<<"cert", a>>, n)
           q == Put(<<"key", a>>, n)
           r == Put(<<"ca", a>>, n)
           s == Put(Config, c)
<1>1. /\ p \in Puts /\ q \in Puts /\ r \in Puts /\ s \in Puts
  BY TrustIs, TrustNames, Names, PutFits
<1>2. WriteThenRecord(a, n, c) = <<p, q, r>> \o <<s>> /\ Rest4(a, n, c) = <<p, q, r, s>>
  BY DEF WriteThenRecord, TrustMaterial, Rest4
<1> HIDE DEF p, q, r, s
<1>3. <<p, q, r>> \in Seq(Puts) /\ <<s>> \in Seq(Puts) /\ <<p, q, r, s>> \in Seq(Puts)
  BY <1>1
<1>4. Len(<<p, q, r>>) = 3 /\ Len(<<s>>) = 1 /\ Len(<<p, q, r, s>>) = 4
  OBVIOUS
<1>5. /\ <<p, q, r>> \o <<s>> \in Seq(Puts) /\ Len(<<p, q, r>> \o <<s>>) = 4
      /\ \A i \in 1 .. 4 :
           (<<p, q, r>> \o <<s>>)[i] = IF i <= 3 THEN <<p, q, r>>[i] ELSE <<s>>[i - 3]
  BY <1>3, <1>4, ConcatProperties
<1>6. /\ (<<p, q, r>> \o <<s>>)[1] = p /\ (<<p, q, r>> \o <<s>>)[2] = q
      /\ (<<p, q, r>> \o <<s>>)[3] = r /\ (<<p, q, r>> \o <<s>>)[4] = s
  BY <1>5
<1>7. \A i \in 1 .. 4 : (<<p, q, r>> \o <<s>>)[i] = <<p, q, r, s>>[i]
  BY <1>6
<1> QED BY <1>2, <1>3, <1>4, <1>5, <1>7, SeqEqual

\* The next file of a pairing: one of the server's, or, at the end, the record.
LEMMA RestStep ==
  ASSUME NEW a \in Addresses, NEW n \in Generated, NEW c \in AppConfig,
         NEW s \in Rests(a, n, c), s # <<>>
  PROVE  /\ s \in Seq(Puts) /\ Tail(s) \in Rests(a, n, c)
         /\ FilesOf(s) = {Head(s).file} \cup FilesOf(Tail(s))
         /\ Config \in FilesOf(s) /\ FilesOf(s) \subseteq Trust(a) \cup {Config}
         /\ \/ Head(s).file = Config /\ Head(s).content = c /\ Tail(s) = <<>>
            \/ Head(s).file \in Trust(a) /\ Head(s).content = n /\ Tail(s) # <<>>
<1> DEFINE Goal(t) ==
      /\ t \in Seq(Puts) /\ Tail(t) \in Rests(a, n, c)
      /\ FilesOf(t) = {Head(t).file} \cup FilesOf(Tail(t))
      /\ Config \in FilesOf(t) /\ FilesOf(t) \subseteq Trust(a) \cup {Config}
      /\ \/ Head(t).file = Config /\ Head(t).content = c /\ Tail(t) = <<>>
         \/ Head(t).file \in Trust(a) /\ Head(t).content = n /\ Tail(t) # <<>>
<1>f. /\ FilesOf(Rest1(c)) = {Head(Rest1(c)).file} \cup FilesOf(Tail(Rest1(c)))
      /\ FilesOf(Rest2(a, n, c)) = {Head(Rest2(a, n, c)).file} \cup FilesOf(Tail(Rest2(a, n, c)))
      /\ FilesOf(Rest3(a, n, c)) = {Head(Rest3(a, n, c)).file} \cup FilesOf(Tail(Rest3(a, n, c)))
      /\ FilesOf(Rest4(a, n, c)) = {Head(Rest4(a, n, c)).file} \cup FilesOf(Tail(Rest4(a, n, c)))
  BY RestIs, RestPuts, FirstAndRest
<1>m. <<>> \in Rests(a, n, c) /\ Rest1(c) \in Rests(a, n, c) /\ Rest2(a, n, c) \in Rests(a, n, c)
      /\ Rest3(a, n, c) \in Rests(a, n, c)
  BY DEF Rests
<1>r. /\ Head(Rest1(c)).file = Config /\ Head(Rest1(c)).content = c /\ Tail(Rest1(c)) = <<>>
      /\ Rest1(c) \in Seq(Puts)
  BY RestIs, RestPuts
<1>s. FilesOf(Rest1(c)) = {Config}
  BY <1>f, <1>r, NothingLeft
<1>1. Goal(Rest1(c))
  BY <1>f, <1>m, <1>r, <1>s
<1>t. <<"cert", a>> \in Trust(a) /\ <<"key", a>> \in Trust(a) /\ <<"ca", a>> \in Trust(a)
  BY TrustIs
<1>i. /\ Head(Rest2(a, n, c)).file \in Trust(a) /\ Head(Rest2(a, n, c)).content = n
      /\ Tail(Rest2(a, n, c)) = Rest1(c) /\ Rest1(c) # <<>> /\ Rest2(a, n, c) # <<>>
      /\ Head(Rest3(a, n, c)).file \in Trust(a) /\ Head(Rest3(a, n, c)).content = n
      /\ Tail(Rest3(a, n, c)) = Rest2(a, n, c) /\ Rest3(a, n, c) # <<>>
      /\ Head(Rest4(a, n, c)).file \in Trust(a) /\ Head(Rest4(a, n, c)).content = n
      /\ Tail(Rest4(a, n, c)) = Rest3(a, n, c)
  BY <1>t, RestIs
<1>p. /\ Rest2(a, n, c) \in Seq(Puts) /\ Rest3(a, n, c) \in Seq(Puts) /\ Rest4(a, n, c) \in Seq(Puts)
  BY RestPuts
<1>2. Goal(Rest2(a, n, c))
  BY <1>1, <1>f, <1>m, <1>i, <1>p
<1>3. Goal(Rest3(a, n, c))
  BY <1>2, <1>f, <1>m, <1>i, <1>p
<1>4. Goal(Rest4(a, n, c))
  BY <1>3, <1>f, <1>m, <1>i, <1>p
<1> HIDE DEF Goal
<1>5. Goal(s)
  BY <1>1, <1>2, <1>3, <1>4 DEF Rests
<1> QED BY <1>5 DEF Goal

LEMMA InitBacking == Init => Backing
<1> SUFFICES ASSUME Init PROVE Backing
  OBVIOUS
<1>1. /\ ~serving /\ \A w \in Writers : todo[w] = <<>>
      /\ doing \notin Addresses /\ mode = "off" /\ handler = Default /\ gui = Default
  BY AddressesAssumption DEF Init
<1>2. \A a \in Addresses : Default.known[a] = Unknown
  BY DEF Default
<1>3. ASSUME NEW c, Abroad(c) PROVE c = Default
  <2>1. files[Config] # Whole(c)
    BY Names DEF Init, Absent, Whole
  <2>2. \A w \in {"gui", "persist"} : todo[w] # Rest1(c)
    BY <1>1, Lists DEF Rest1, Writers
  <2> QED BY <1>1, <1>3, <2>1, <2>2 DEF Abroad
<1>4. \A c \in AppConfig : Abroad(c) => Backed(c)
  BY <1>2, <1>3 DEF Backed
<1> QED BY <1>1, <1>4, NothingLeft DEF Backing, Lone, Writers

\* A copy stays backed while what it knows is kept, and nothing is put on the
\* handler's list that would replace it.
LEMMA StillBacked ==
  ASSUME NEW c \in AppConfig, Backed(c), again \subseteq again',
         \A a \in Addresses \ again' : c.known[a] # Unknown => handler'.known[a] = handler.known[a],
         \A a \in Addresses \ again' : \A f \in Trust(a) :
           c.known[a] # Unknown /\ f \notin FilesOf(todo["handler"]) =>
             files'[f] = files[f] /\ f \notin FilesOf(todo'["handler"])
  PROVE  Backed(c)'
<1> SUFFICES ASSUME NEW a \in Addresses \ again', c.known[a] # Unknown, NEW f \in Trust(a)
             PROVE  /\ c.known[a] = handler'.known[a]
                    /\ files'[f] = Whole(c.known[a]) /\ f \notin FilesOf(todo'["handler"])
  BY DEF Backed, Trust, Whole, Unknown, FilesOf
<1>1. a \in Addresses \ again
  OBVIOUS
<1> QED BY <1>1 DEF Backed

LEMMA StillHandlerBacked ==
  ASSUME HandlerBacked, UNCHANGED <<handler, again>>,
         \A a \in Addresses : \A f \in Trust(a) :
           /\ f \notin FilesOf(todo["handler"]) => files'[f] = files[f]
           /\ f \in FilesOf(todo["handler"]) => f \in FilesOf(todo'["handler"])
  PROVE  HandlerBacked'
<1> SUFFICES ASSUME NEW a \in Addresses \ again, handler.known[a] # Unknown, NEW f \in Trust(a)
             PROVE  files'[f] = Whole(handler.known[a]) \/ f \in FilesOf(todo'["handler"])
  BY DEF HandlerBacked, Trust, Whole, Unknown, FilesOf
<1> QED BY DEF HandlerBacked

\* A step that touches neither the configuration nor what pairing provides.
LEMMA BackingElsewhere ==
  ASSUME Backing, UNCHANGED <<mode, serving, handler, gui, doing, again>>,
         files'[Config] = files[Config],
         \A a \in Addresses : \A f \in Trust(a) : files'[f] = files[f],
         \A w \in Writers : todo'[w] = todo[w],
         open'["handler"] = open["handler"]
  PROVE  Backing'
<1>w. "handler" \in Writers /\ "gui" \in Writers /\ "persist" \in Writers
  BY DEF Writers
<1>1. ASSUME NEW c \in AppConfig, Abroad(c)' PROVE Backed(c)'
  <2>1. Abroad(c)
    BY <1>1, <1>w DEF Abroad, Config, Whole, Rest1, Put
  <2>2. Backed(c)
    BY <2>1 DEF Backing
  <2> QED BY <1>w, <2>2, StillBacked
<1>2. mode # "off" => HandlerBacked'
  BY <1>w, StillHandlerBacked DEF Backing
<1>3. doing \in Addresses => PairingGoesOn'
  <2>1. ASSUME doing \in Addresses, open["handler"], Head(todo["handler"]).file \in Trust(doing)
        PROVE  files'[Head(todo["handler"]).file] = Torn
    BY <2>1 DEF Backing, PairingGoesOn
  <2> QED BY <1>w, <2>1 DEF Backing, PairingGoesOn, Trust, Torn, Unknown, Rests, Rest1, Rest2, Rest3, Rest4
<1>4. doing \notin Addresses => FilesOf(todo["handler"]) \subseteq CertFiles
  BY DEF Backing
<1>5. Lone("gui") /\ Lone("persist") /\ (mode = "off" => ~serving /\ \A w \in Writers : todo[w] = <<>>)
  BY DEF Backing
<1>6. Lone("gui")' /\ Lone("persist")'
  BY <1>w, <1>5 DEF Lone, AppConfig, Generated, Rest1, Put, Config
<1> QED BY <1>w, <1>1, <1>2, <1>3, <1>4, <1>5, <1>6
     DEF Backing, CertFiles, FilesOf, Ca, CaKey, Server, ServerKey, Writers, AppConfig, Generated

\* The handler's list while it pairs.
LEMMA Pairs ==
  ASSUME TypeOK, Backing, doing \in Addresses
  PROVE  /\ handler \in AppConfig /\ handler.known[doing] \in Generated
         /\ todo["handler"] \in Rests(doing, handler.known[doing], handler)
         /\ handler.known[doing] # Unknown
<1>1. handler \in AppConfig
  BY DEF TypeOK, ProcessOK
<1> QED BY <1>1 DEF Backing, PairingGoesOn, AppConfig

\* What the other tasks write is the configuration, in a copy that is known.
LEMMA OtherWriter ==
  ASSUME TypeOK, Backing, NEW w \in {"gui", "persist"}, todo[w] # <<>>
  PROVE  \E c \in AppConfig : /\ todo[w] = Rest1(c) /\ Abroad(c)
                              /\ Head(todo[w]).file = Config /\ Head(todo[w]).content = c
                              /\ Tail(todo[w]) = <<>>
<1>1. PICK c \in AppConfig : todo[w] = Rest1(c)
  BY DEF Backing, Lone
<1>2. Head(Rest1(c)) = Put(Config, c) /\ Tail(Rest1(c)) = <<>>
  BY Lists DEF Rest1
<1>3. Abroad(c)
  BY <1>1 DEF Abroad
<1> QED BY <1>1, <1>2, <1>3, PutIs

LEMMA RestIsConfig ==
  ASSUME NEW c, NEW d, Rest1(c) = Rest1(d)
  PROVE  c = d
<1>1. Head(Rest1(c)) = Put(Config, c) /\ Head(Rest1(d)) = Put(Config, d)
  BY Lists DEF Rest1
<1> QED BY <1>1, PutIs

\* A file is emptied.
LEMMA OpenBacking ==
  ASSUME TypeOK, Backing, NEW w \in Writers, Open(w)
  PROVE  Backing'
<1> USE DEF TypeOK
<1>w. "handler" \in Writers /\ "gui" \in Writers /\ "persist" \in Writers
  BY DEF Writers
<1> DEFINE f == Head(todo[w]).file
<1>1. /\ todo[w] # <<>> /\ todo[w] \in Seq(Puts) /\ files' = [files EXCEPT ![f] = Torn]
      /\ open' = [open EXCEPT ![w] = TRUE]
      /\ UNCHANGED <<mode, serving, handler, gui, doing, again, todo>>
  BY DEF Open, process, history, WritingOK
<1>2. f \in Files /\ f \in FilesOf(todo[w])
  BY <1>1, FirstAndRest, PutsFit
<1>3. \A g \in Files : files'[g] = IF g = f THEN Torn ELSE files[g]
  BY <1>1, <1>2, StatesAre, DiskStays
<1> HIDE DEF f
<1>4. \A a \in Addresses : f \in Trust(a) => w = "handler"
  <2>1. w # "handler" => f = Config
    BY <1>1, OtherWriter DEF Writers, f
  <2> QED BY <2>1, TrustIs
<1>5. \A a \in Addresses : \A g \in Trust(a) :
         g \notin FilesOf(todo["handler"]) => files'[g] = files[g]
  BY <1>2, <1>3, <1>4, TrustNames
<1>6. ASSUME NEW c \in AppConfig, Abroad(c)' PROVE Backed(c)'
  <2>1. files'[Config] = Whole(c) => files[Config] = Whole(c)
    BY <1>3, Names DEF Whole, Torn
  <2>2. Abroad(c)
    BY <1>1, <1>6, <2>1 DEF Abroad, Config, Whole, Rest1, Put
  <2>3. Backed(c)
    BY <2>2 DEF Backing
  <2> QED BY <1>1, <1>5, <2>3, StillBacked
<1>7. mode # "off" => HandlerBacked'
  BY <1>1, <1>5, StillHandlerBacked DEF Backing
<1>8. doing \in Addresses => PairingGoesOn'
  <2>1. ASSUME doing \in Addresses, open'["handler"], Head(todo["handler"]).file \in Trust(doing)
        PROVE  files'[Head(todo["handler"]).file] = Torn
    <3>1. CASE w = "handler"
      BY <1>2, <1>3, <3>1 DEF f
    <3>2. CASE w # "handler"
      <4>1. open["handler"] /\ f = Config
        BY <1>1, <1>w, <2>1, <3>2, OtherWriter DEF Writers, f, WritingOK
      <4>2. files[Head(todo["handler"]).file] = Torn
        BY <2>1, <4>1 DEF Backing, PairingGoesOn
      <4> QED BY <1>3, <2>1, <4>1, <4>2, TrustIs, TrustNames
    <3> QED BY <3>1, <3>2
  <2> QED BY <1>1, <2>1
       DEF Backing, PairingGoesOn, Trust, Torn, Unknown, Rests, Rest1, Rest2, Rest3, Rest4
<1>9. Lone("gui")' /\ Lone("persist")'
  BY <1>1 DEF Backing, Lone, AppConfig, Generated, Rest1, Put, Config
<1> QED BY <1>1, <1>6, <1>7, <1>8, <1>9
     DEF Backing, CertFiles, FilesOf, Ca, CaKey, Server, ServerKey, Writers, AppConfig, Generated

\* A file is filled: another of the server's, or the configuration.
LEMMA FillBacking ==
  ASSUME TypeOK, Backing, NEW w \in Writers, Fill(w)
  PROVE  Backing'
<1> USE DEF TypeOK
<1>w. "handler" \in Writers /\ "gui" \in Writers /\ "persist" \in Writers
  BY DEF Writers
<1> DEFINE f == Head(todo[w]).file
           x == Head(todo[w]).content
<1>1. /\ todo[w] # <<>> /\ todo[w] \in Seq(Puts) /\ open[w]
      /\ todo' = [todo EXCEPT ![w] = Tail(@)] /\ open' = [open EXCEPT ![w] = FALSE]
      /\ UNCHANGED <<mode, serving, handler, gui, doing, again>>
  BY DEF Fill, process, history, WritingOK
<1>2. /\ f \in Files /\ x \in Content(f) /\ Tail(todo[w]) \in Seq(Puts)
      /\ FilesOf(todo[w]) = {f} \cup FilesOf(Tail(todo[w]))
  BY <1>1, FirstAndRest, PutsFit
<1>3. PICK y \in {Whole(x), Torn} :
        (y = Torn => files[f] # Torn) /\ files' = [files EXCEPT ![f] = y]
  BY DEF Fill
<1>4. \A g \in Files : files'[g] = IF g = f THEN y ELSE files[g]
  <2>1. y \in States(f)
    BY <1>2, <1>3, StatesAre
  <2> QED BY <1>2, <1>3, <2>1, DiskStays
<1>5. /\ \A v \in Writers : todo'[v] = IF v = w THEN Tail(todo[w]) ELSE todo[v]
      /\ open'[w] = FALSE /\ \A v \in Writers : v # w => open'[v] = open[v]
  BY <1>1, <1>2, ListChanges DEF WritingOK
<1>6. mode # "off"
  BY <1>1 DEF Backing
<1>7. w # "handler" => /\ f = Config /\ x \in AppConfig /\ Abroad(x) /\ Tail(todo[w]) = <<>>
                       /\ todo[w] = Rest1(x)
  BY <1>1, OtherWriter DEF Writers
<1>8. w = "handler" /\ doing \notin Addresses => f \in CertFiles
  BY <1>2 DEF Backing
<1>9. w = "handler" /\ doing \in Addresses =>
        /\ Tail(todo[w]) \in Rests(doing, handler.known[doing], handler)
        /\ \/ /\ f = Config /\ x = handler /\ Tail(todo[w]) = <<>>
              /\ FilesOf(todo[w]) = {Config}
           \/ f \in Trust(doing) /\ x = handler.known[doing] /\ files[f] = Torn
  <2> SUFFICES ASSUME w = "handler", doing \in Addresses
               PROVE  /\ Tail(todo[w]) \in Rests(doing, handler.known[doing], handler)
                      /\ \/ /\ f = Config /\ x = handler /\ Tail(todo[w]) = <<>>
                            /\ FilesOf(todo[w]) = {Config}
                         \/ f \in Trust(doing) /\ x = handler.known[doing] /\ files[f] = Torn
    OBVIOUS
  <2>1. /\ Tail(todo[w]) \in Rests(doing, handler.known[doing], handler)
        /\ \/ f = Config /\ x = handler /\ Tail(todo[w]) = <<>>
           \/ f \in Trust(doing) /\ x = handler.known[doing]
    BY <1>1, Pairs, RestStep
  <2>2. f \in Trust(doing) => files[f] = Torn
    BY <1>1 DEF Backing, PairingGoesOn
  <2>3. Tail(todo[w]) = <<>> /\ f = Config => FilesOf(todo[w]) = {Config}
    BY <1>2, NothingLeft
  <2> QED BY <2>1, <2>2, <2>3
<1> HIDE DEF f, x
<1>10. \A a \in Addresses : \A g \in Trust(a) :
         /\ g \notin FilesOf(todo["handler"]) => files'[g] = files[g]
         /\ g \in FilesOf(todo'["handler"]) => g \in FilesOf(todo["handler"])
  <2> SUFFICES ASSUME NEW a \in Addresses, NEW g \in Trust(a)
               PROVE  /\ g \notin FilesOf(todo["handler"]) => files'[g] = files[g]
                      /\ g \in FilesOf(todo'["handler"]) => g \in FilesOf(todo["handler"])
    OBVIOUS
  <2>1. g \in Files /\ g # Config
    BY TrustNames
  <2>2. CASE w = "handler"
    BY <1>2, <1>4, <1>5, <1>w, <2>1, <2>2
  <2>3. CASE w # "handler"
    BY <1>4, <1>5, <1>7, <1>w, <2>1, <2>3
  <2> QED BY <2>2, <2>3
\* The copy that comes new to the disk is the handler's, or was abroad.
<1>11. ASSUME NEW c \in AppConfig, Abroad(c)', ~Abroad(c)
       PROVE  w = "handler" /\ doing \in Addresses /\ f = Config /\ x = handler /\ c = handler
  <2>1. \A v \in {"gui", "persist"} : todo'[v] # Rest1(c)
    <3> SUFFICES ASSUME NEW v \in {"gui", "persist"}, todo'[v] = Rest1(c) PROVE FALSE
      OBVIOUS
    <3>1. todo[v] # Rest1(c)
      BY <1>11 DEF Abroad
    <3>2. Rest1(c) # <<>>
      BY Lists DEF Rest1
    <3> QED BY <1>5, <1>7, <1>w, <3>1, <3>2
  <2>2. files'[Config] = Whole(c) /\ files[Config] # Whole(c)
    BY <1>1, <1>11, <2>1 DEF Abroad, Rest1, Put, Config, Whole
  <2>3. f = Config /\ y = Whole(c)
    BY <1>4, <2>2, Names
  <2>4. x = c
    BY <1>3, <2>3 DEF Whole, Torn
  <2>5. w = "handler"
    BY <1>7, <1>11, <2>4
  <2>6. doing \in Addresses
    BY <1>8, <2>3, <2>5, CaFilesAre
  <2> QED BY <1>9, <2>3, <2>4, <2>5, <2>6, TrustIs
<1>12. ASSUME NEW c \in AppConfig, Abroad(c)' PROVE Backed(c)'
  <2>1. CASE Abroad(c)
    <3>1. Backed(c)
      BY <2>1 DEF Backing
    <3> QED BY <1>1, <1>10, <3>1, StillBacked
  <2>2. CASE ~Abroad(c)
    <3>1. w = "handler" /\ doing \in Addresses /\ f = Config /\ x = handler /\ c = handler
      BY <1>11, <1>12, <2>2
    <3>2. FilesOf(todo["handler"]) = {Config}
      BY <1>9, <3>1, TrustIs
    <3>3. Backed(c)
      <4> SUFFICES ASSUME NEW a \in Addresses \ again, handler.known[a] # Unknown,
                          NEW g \in Trust(a)
                   PROVE  files[g] = Whole(handler.known[a]) /\ g \notin FilesOf(todo["handler"])
        BY <3>1 DEF Backed
      <4>1. g \notin FilesOf(todo["handler"])
        BY <3>2, TrustIs
      <4> QED BY <1>6, <4>1 DEF Backing, HandlerBacked
    <3> QED BY <1>1, <1>10, <3>3, StillBacked
  <2> QED BY <2>1, <2>2
<1>13. HandlerBacked'
  <2> SUFFICES ASSUME NEW a \in Addresses \ again, handler.known[a] # Unknown, NEW g \in Trust(a),
                      g \notin FilesOf(todo'["handler"])
               PROVE  files'[g] = Whole(handler.known[a])
    BY <1>1 DEF HandlerBacked, Trust, Whole, Unknown, FilesOf
  <2>1. g \in Files /\ g # Config /\ g \notin CertFiles
    BY TrustNames, TrustIs
  <2>2. CASE g \notin FilesOf(todo["handler"])
    BY <1>6, <1>10, <2>2 DEF Backing, HandlerBacked
  <2>3. CASE g \in FilesOf(todo["handler"])
    <3>1. w = "handler" /\ g = f
      BY <1>2, <1>5, <1>w, <2>3
    <3>2. doing \in Addresses /\ f \in Trust(doing) /\ x = handler.known[doing] /\ files[f] = Torn
      BY <1>8, <1>9, <2>1, <3>1
    <3>3. a = doing
      BY <3>1, <3>2, TrustApart
    <3> QED BY <1>3, <1>4, <2>1, <3>1, <3>2, <3>3
  <2> QED BY <2>2, <2>3
<1>14. doing \in Addresses => PairingGoesOn'
  <2> SUFFICES ASSUME doing \in Addresses PROVE PairingGoesOn'
    OBVIOUS
  <2>1. todo'["handler"] \in Rests(doing, handler.known[doing], handler)
    <3>1. todo["handler"] \in Rests(doing, handler.known[doing], handler)
      BY Pairs
    <3> QED BY <1>5, <1>9, <1>w, <3>1
  <2>2. ASSUME open'["handler"], Head(todo'["handler"]).file \in Trust(doing)
        PROVE  files'[Head(todo'["handler"]).file] = Torn
    <3>1. w # "handler" /\ open["handler"] /\ todo'["handler"] = todo["handler"]
      BY <1>5, <1>w, <2>2
    <3>2. files[Head(todo["handler"]).file] = Torn
      BY <2>2, <3>1 DEF Backing, PairingGoesOn
    <3> QED BY <1>4, <1>7, <2>2, <3>1, <3>2, TrustNames, TrustIs
  <2> QED BY <1>1, <2>1, <2>2
       DEF Backing, PairingGoesOn, Trust, Torn, Unknown, Rests, Rest1, Rest2, Rest3, Rest4
<1>15. doing \notin Addresses => FilesOf(todo'["handler"]) \subseteq CertFiles
  BY <1>2, <1>5, <1>w DEF Backing
<1>16. Lone("gui")' /\ Lone("persist")'
  BY <1>5, <1>7, <1>w DEF Backing, Lone, AppConfig, Generated, Rest1, Put, Config
<1> QED BY <1>1, <1>6, <1>12, <1>13, <1>14, <1>15, <1>16
     DEF Backing, CertFiles, FilesOf, Ca, CaKey, Server, ServerKey, Writers, AppConfig, Generated

LEMMA BackingStep ==
  ASSUME TypeOK, CaStands, Material, Backing, Next
  PROVE  Backing'
<1> USE DEF TypeOK
<1>w. "handler" \in Writers /\ "gui" \in Writers /\ "persist" \in Writers
  BY DEF Writers
<1>p. AppConfig' = AppConfig /\ CertFiles' = CertFiles
  BY DEF AppConfig, Generated, CertFiles, Ca, CaKey, Server, ServerKey
<1>k. \A c, d : Whole(c) = Whole(d) => c = d
  BY DEF Whole
<1>l. \A c : Rest1(c) # <<>>
  BY Lists DEF Rest1
<1>1. ASSUME NEW m \in {"gui", "server", "client"}, Launch(m) PROVE Backing'
  <2>1. /\ mode = "off" /\ mode' # "off" /\ handler' = Load /\ gui' = Load
        /\ UNCHANGED <<files, doing, todo, open, again>>
    BY <1>1 DEF Launch, writing, history
  <2>2. /\ \A w \in Writers : todo[w] = <<>>
        /\ doing \notin Addresses /\ FilesOf(todo["handler"]) = {}
    BY <1>w, <2>1, AddressesAssumption, NothingLeft DEF Backing, CaStands
  <2>3. /\ Load \in AppConfig
        /\ \A a \in Addresses \ again : Load.known[a] # Unknown =>
             \A f \in Trust(a) : files[f] = Whole(Load.known[a])
    <3>1. Load \in AppConfig
      BY LoadFits
    <3>2. CASE IsWhole(Config)
      <4>1. files[Config] = Whole(Load)
        <5>1. files[Config] \in States(Config)
          BY Names DEF FilesOK
        <5> QED BY <3>2, <5>1 DEF Load, States, IsWhole, Absent, Torn, Whole
      <4>2. Backed(Load)
        BY <3>1, <4>1 DEF Backing, Abroad
      <4> QED BY <3>1, <4>2 DEF Backed
    <3>3. CASE ~IsWhole(Config)
      BY <3>1, <3>3 DEF Load, Default
    <3> QED BY <3>2, <3>3
  <2>4. ASSUME NEW c \in AppConfig, Abroad(c)' PROVE c = Load
    <3>1. \A v \in {"gui", "persist"} : todo'[v] # Rest1(c)
      BY <1>l, <1>w, <2>1, <2>2
    <3>2. c = Load \/ files[Config] = Whole(c)
      BY <2>1, <2>4, <3>1 DEF Abroad, Rest1, Put, Config, Whole
    <3> QED BY <3>2 DEF Load, IsWhole, Whole
  <2>t. \A a \in Addresses : Trust(a)' = Trust(a)
    BY DEF Trust
  <2>5. ASSUME NEW c \in AppConfig, Abroad(c)' PROVE Backed(c)'
    <3>1. c = Load /\ handler' = c
      BY <2>1, <2>4, <2>5
    <3>2. ASSUME NEW a \in Addresses \ again', c.known[a] # Unknown
          PROVE  \A f \in Trust(a)' :
                   files'[f] = Whole(c.known[a]) /\ f \notin FilesOf(todo["handler"])'
      <4>1. \A f \in Trust(a) : files[f] = Whole(c.known[a])
        BY <2>1, <2>3, <3>1, <3>2
      <4>2. files' = files /\ FilesOf(todo["handler"])' = {}
        BY <2>1, <2>2 DEF FilesOf
      <4> QED BY <2>t, <4>1, <4>2
    <3>3. \A a \in Addresses \ again' : c.known[a] # Unknown =>
            /\ c.known[a] = handler'.known[a]
            /\ \A f \in Trust(a)' :
                 files'[f] = Whole(c.known[a]) /\ f \notin FilesOf(todo["handler"])'
      BY <3>1, <3>2
    <3> QED BY <3>3 DEF Backed, Whole, Unknown
  <2>6. HandlerBacked'
    <3>1. \A a \in Addresses \ again' : handler'.known[a] # Unknown =>
            \A f \in Trust(a)' : files'[f] = Whole(handler'.known[a])
      BY <2>t, <2>1, <2>3
    <3> QED BY <3>1 DEF HandlerBacked, Whole, Unknown
  <2>7. Lone("gui")' /\ Lone("persist")'
    BY <1>w, <2>1, <2>2 DEF Lone
  <2> QED BY <1>p, <2>1, <2>2, <2>5, <2>6, <2>7 DEF Backing, FilesOf
<1>2. ASSUME Exit PROVE Backing'
  <2>1. /\ mode' = "off" /\ ~serving' /\ doing' = "nothing" /\ UNCHANGED <<files, handler, gui, again>>
        /\ \A w \in Writers : todo'[w] = <<>>
    BY <1>2 DEF Exit
  <2>2. FilesOf(todo'["handler"]) = {}
    BY <1>w, <2>1, NothingLeft
  <2>3. ASSUME NEW c \in AppConfig, Abroad(c)' PROVE Backed(c)'
    <3>1. \A v \in {"gui", "persist"} : todo'[v] # Rest1(c)
      BY <1>l, <1>w, <2>1
    <3>2. Abroad(c)
      BY <2>1, <2>3, <3>1 DEF Abroad, Rest1, Put, Config, Whole
    <3>3. Backed(c)
      BY <3>2 DEF Backing
    <3> QED BY <2>1, <2>2, <3>3, StillBacked
  <2>4. Lone("gui")' /\ Lone("persist")'
    BY <1>w, <2>1 DEF Lone
  <2>5. doing' \notin Addresses
    BY <2>1, AddressesAssumption
  <2> QED BY <1>p, <2>1, <2>2, <2>3, <2>4, <2>5 DEF Backing, FilesOf, Writers
<1>3. ASSUME NEW fs \in SUBSET {Server, ServerKey}, Delete(fs) PROVE Backing'
  <2>1. /\ \A g \in Files : g \notin fs => files'[g] = files[g]
        /\ UNCHANGED <<mode, serving, handler, gui, doing, again, todo, open>>
    BY <1>3 DEF Delete, process, writing
  <2>2. files'[Config] = files[Config]
    BY <2>1, Names
  <2>3. \A a \in Addresses : \A f \in Trust(a) : files'[f] = files[f]
    BY <2>1, TrustNames
  <2> QED BY <2>1, <2>2, <2>3, BackingElsewhere
<1>4. ASSUME StartServer PROVE Backing'
  <2>1. PICK puts \in Missing : todo' = [todo EXCEPT !["handler"] = puts]
    BY <1>4 DEF StartServer
  <2>2. /\ fresh < MaxFresh /\ doing = "nothing" /\ doing' = "starting" /\ mode # "off"
        /\ UNCHANGED <<files, mode, handler, gui, again>>
    BY <1>4 DEF StartServer, history
  <2>3. puts \in Seq(Puts) /\ FilesOf(puts) \subseteq CertFiles
    BY <2>2, ResolvingWrites DEF HistoryOK, CertFiles
  <2>4. \A v \in Writers : todo'[v] = IF v = "handler" THEN puts ELSE todo[v]
    BY <1>w, <2>1, <2>3, ListChanges DEF WritingOK
  <2>5. doing \notin Addresses /\ doing' \notin Addresses
    BY <2>2, AddressesAssumption
  <2>6. \A a \in Addresses : \A f \in Trust(a) :
          f \notin FilesOf(todo["handler"]) /\ f \notin FilesOf(todo'["handler"])
    BY <1>w, <2>3, <2>4, <2>5, TrustIs DEF Backing
  <2>7. ASSUME NEW c \in AppConfig, Abroad(c)' PROVE Backed(c)'
    <3>1. Abroad(c)
      BY <1>w, <2>2, <2>4, <2>7 DEF Abroad, Rest1, Put, Config, Whole
    <3>2. Backed(c)
      BY <3>1 DEF Backing
    <3> QED BY <2>2, <2>6, <3>2, StillBacked
  <2>8. HandlerBacked'
    BY <2>2, <2>6, StillHandlerBacked DEF Backing
  <2>9. Lone("gui")' /\ Lone("persist")'
    BY <1>w, <2>4 DEF Backing, Lone, AppConfig, Generated, Rest1, Put, Config
  <2>10. FilesOf(todo'["handler"]) \subseteq CertFiles
    BY <1>w, <2>3, <2>4
  <2> QED BY <1>p, <2>2, <2>5, <2>7, <2>8, <2>9, <2>10 DEF Backing, FilesOf
<1>5. ASSUME StartFails PROVE Backing'
  BY <1>5, BackingElsewhere DEF StartFails, process, writing
<1>6. ASSUME Resolved PROVE Backing'
  <2>1. /\ doing = "starting" /\ doing' = "nothing" /\ mode # "off"
        /\ UNCHANGED <<files, mode, handler, gui, again, todo, open>>
    BY <1>6 DEF Resolved, writing, CaStands
  <2>2. doing \notin Addresses /\ doing' \notin Addresses
    BY <2>1, AddressesAssumption
  <2>3. ASSUME NEW c \in AppConfig, Abroad(c)' PROVE Backed(c)'
    <3>1. Abroad(c)
      BY <2>1, <2>3 DEF Abroad, Rest1, Put, Config, Whole
    <3>2. Backed(c)
      BY <3>1 DEF Backing
    <3> QED BY <2>1, <3>2, StillBacked
  <2>4. mode # "off" => HandlerBacked'
    BY <2>1, StillHandlerBacked DEF Backing
  <2>5. Lone("gui")' /\ Lone("persist")'
    BY <2>1 DEF Backing, Lone, AppConfig, Generated, Rest1, Put, Config
  <2> QED BY <1>p, <2>1, <2>2, <2>3, <2>4, <2>5 DEF Backing, FilesOf, Writers
<1>7. ASSUME NEW d \in Devices, Persist(d) PROVE Backing'
  <2> DEFINE e == [Load EXCEPT !.paired = @ \cup {d}]
  <2>1. e \in AppConfig /\ \A a \in Addresses : e.known[a] = Load.known[a]
    <3>1. Load \in AppConfig
      BY LoadFits
    <3> QED BY <3>1, ConfigGrows DEF AppConfig
  <2>2. /\ todo' = [todo EXCEPT !["persist"] = Rest1(e)] /\ serving
        /\ UNCHANGED <<files, mode, handler, gui, doing, open, again>>
    BY <1>7 DEF Persist, process, Rest1
  <2> HIDE DEF e
  <2>3. Rest1(e) \in Seq(Puts)
    BY <2>1, ConfigEntry DEF Rest1
  <2>4. \A v \in Writers : todo'[v] = IF v = "persist" THEN Rest1(e) ELSE todo[v]
    BY <1>w, <2>2, <2>3, ListChanges DEF WritingOK
  <2>5. Backed(e)
    <3>1. CASE IsWhole(Config)
      <4>1. Load \in AppConfig
        BY LoadFits
      <4>2. files[Config] = Whole(Load)
        <5>1. files[Config] \in States(Config)
          BY Names DEF FilesOK
        <5> QED BY <3>1, <5>1 DEF Load, States, IsWhole, Absent, Torn, Whole
      <4>3. Backed(Load)
        BY <4>1, <4>2 DEF Backing, Abroad
      <4> QED BY <2>1, <4>3 DEF Backed
    <3>2. CASE ~IsWhole(Config)
      BY <2>1, <3>2 DEF Load, Default, Backed
    <3> QED BY <3>1, <3>2
  <2>6. ASSUME NEW c \in AppConfig, Abroad(c)' PROVE Backed(c)'
    <3>1. Abroad(c) \/ c = e
      BY <1>w, <2>2, <2>4, <2>6, RestIsConfig DEF Abroad, Rest1, Put, Config, Whole
    <3>2. Backed(c)
      BY <2>5, <3>1 DEF Backing
    <3> QED BY <1>w, <2>2, <2>4, <3>2, StillBacked
  <2>7. mode # "off" => HandlerBacked'
    BY <1>w, <2>2, <2>4, StillHandlerBacked DEF Backing
  <2>8. Lone("gui")' /\ Lone("persist")'
    BY <1>w, <2>1, <2>4 DEF Backing, Lone, AppConfig, Generated, Rest1, Put, Config
  <2>9. mode # "off"
    BY <2>2 DEF Backing
  <2>10. doing \in Addresses => PairingGoesOn'
    BY <1>w, <2>2, <2>4
       DEF Backing, PairingGoesOn, Trust, Torn, Unknown, Rests, Rest1, Rest2, Rest3, Rest4
  <2> QED BY <1>p, <1>w, <2>2, <2>4, <2>6, <2>7, <2>8, <2>9, <2>10 DEF Backing, FilesOf
<1>8. ASSUME NEW a \in Addresses, Pair(a) PROVE Backing'
  <2>1. /\ doing = "nothing" /\ fresh < MaxFresh /\ doing' = a /\ mode # "off"
        /\ handler' = [handler EXCEPT !.known[a] = fresh + 1]
        /\ again' = IF handler.known[a] = Unknown THEN again ELSE again \cup {a}
        /\ todo' = [todo EXCEPT !["handler"] = WriteThenRecord(a, fresh + 1, handler')]
        /\ UNCHANGED <<files, mode, gui, open>>
    BY <1>8 DEF Pair
  <2>2. fresh + 1 \in Generated /\ fresh + 1 # Unknown
    BY <2>1, BoundsAssumption DEF HistoryOK, Generated, Unknown
  <2>3. /\ handler' \in AppConfig /\ handler'.known[a] = fresh + 1
        /\ \A b \in Addresses \ {a} : handler'.known[b] = handler.known[b]
    BY <2>1, <2>2, ConfigGrows DEF ProcessOK, AppConfig
  <2>4. /\ Rest4(a, fresh + 1, handler') \in Seq(Puts)
        /\ WriteThenRecord(a, fresh + 1, handler') = Rest4(a, fresh + 1, handler')
        /\ FilesOf(Rest4(a, fresh + 1, handler')) = Trust(a) \cup {Config}
    BY <2>2, <2>3, RestPuts, RestBegins, PairingWrites
  <2>5. \A v \in Writers :
           todo'[v] = IF v = "handler" THEN Rest4(a, fresh + 1, handler') ELSE todo[v]
    BY <1>w, <2>1, <2>4, ListChanges DEF WritingOK
  <2>6. FilesOf(todo["handler"]) = {} /\ FilesOf(todo'["handler"]) = Trust(a) \cup {Config}
    BY <1>w, <2>1, <2>4, <2>5, IdleHandler, NothingLeft
  <2>7. \A b \in Addresses \ {a} : \A f \in Trust(b) : f \notin FilesOf(todo'["handler"])
    <3>1. ASSUME NEW b \in Addresses \ {a}, NEW f \in Trust(b), f \in Trust(a) \cup {Config} PROVE FALSE
      <4>1. f # Config
        BY TrustIs
      <4> QED BY <3>1, <4>1, TrustApart
    <3> QED BY <2>6, <3>1
\* No copy knows the server, or it is one that has been paired with again.
  <2>8. ASSUME NEW c \in AppConfig, Abroad(c)' PROVE Backed(c)'
    <3>1. Abroad(c)
      BY <1>w, <2>1, <2>5, <2>8 DEF Abroad, Rest1, Put, Config, Whole
    <3>2. Backed(c)
      BY <3>1 DEF Backing
    <3>3. a \notin again' => c.known[a] = Unknown
      BY <2>1, <3>2 DEF Backed
    <3>4. \A b \in Addresses \ again' : c.known[b] # Unknown => b # a
      BY <3>3
    <3>5. again \subseteq again'
      BY <2>1
    <3> QED BY <2>1, <2>3, <2>7, <3>2, <3>4, <3>5, StillBacked
  <2>9. HandlerBacked'
    <3> SUFFICES ASSUME NEW b \in Addresses \ again', handler'.known[b] # Unknown, NEW f \in Trust(b)
                 PROVE  files'[f] = Whole(handler'.known[b]) \/ f \in FilesOf(todo'["handler"])
      BY DEF HandlerBacked, Trust, Whole, Unknown, FilesOf
    <3>1. CASE b = a
      BY <2>6, <3>1
    <3>2. CASE b # a
      BY <2>1, <2>3, <2>6, <3>2 DEF Backing, HandlerBacked
    <3> QED BY <3>1, <3>2
  <2>10. PairingGoesOn'
    <3>1. ~open'["handler"]
      BY <2>1, IdleHandler
    <3>2. todo'["handler"] \in Rests(a, handler'.known[a], handler')
      BY <1>w, <2>3, <2>5 DEF Rests
    <3> QED BY <2>1, <2>2, <2>3, <3>1, <3>2
         DEF PairingGoesOn, Unknown, Rests, Rest1, Rest2, Rest3, Rest4
  <2>11. Lone("gui")' /\ Lone("persist")'
    BY <1>w, <2>5 DEF Backing, Lone, AppConfig, Generated, Rest1, Put, Config
  <2> QED BY <1>p, <2>1, <2>8, <2>9, <2>10, <2>11 DEF Backing
<1>9. ASSUME Paired PROVE Backing'
  <2>1. /\ doing \in Addresses /\ doing' = "nothing" /\ todo["handler"] = <<>>
        /\ UNCHANGED <<files, mode, serving, handler, gui, again, todo, open>>
    BY <1>9 DEF Paired, writing
  <2>2. doing' \notin Addresses /\ FilesOf(todo'["handler"]) = {}
    BY <2>1, AddressesAssumption, NothingLeft
  <2>3. ASSUME NEW c \in AppConfig, Abroad(c)' PROVE Backed(c)'
    <3>1. Abroad(c)
      BY <2>1, <2>3 DEF Abroad, Rest1, Put, Config, Whole
    <3>2. Backed(c)
      BY <3>1 DEF Backing
    <3> QED BY <2>1, <3>2, StillBacked
  <2>4. mode # "off" => HandlerBacked'
    BY <2>1, StillHandlerBacked DEF Backing
  <2>5. Lone("gui")' /\ Lone("persist")'
    BY <2>1 DEF Backing, Lone, AppConfig, Generated, Rest1, Put, Config
  <2> QED BY <1>p, <2>1, <2>2, <2>3, <2>4, <2>5 DEF Backing, FilesOf, Writers
<1>10. ASSUME GuiSave PROVE Backing'
  <2>1. gui \in AppConfig /\ Rest1(gui) \in Seq(Puts)
    BY ConfigEntry DEF ProcessOK, Rest1
  <2>2. /\ todo' = [todo EXCEPT !["gui"] = Rest1(gui)] /\ mode # "off"
        /\ UNCHANGED <<files, mode, handler, gui, doing, open, again>>
    BY <1>10 DEF GuiSave, process, Rest1
  <2>3. \A v \in Writers : todo'[v] = IF v = "gui" THEN Rest1(gui) ELSE todo[v]
    BY <1>w, <2>1, <2>2, ListChanges DEF WritingOK
  <2>4. ASSUME NEW c \in AppConfig, Abroad(c)' PROVE Backed(c)'
    <3>1. Abroad(c)
      BY <1>w, <2>2, <2>3, <2>4, RestIsConfig DEF Abroad, Rest1, Put, Config, Whole
    <3>2. Backed(c)
      BY <3>1 DEF Backing
    <3> QED BY <1>w, <2>2, <2>3, <3>2, StillBacked
  <2>5. HandlerBacked'
    BY <1>w, <2>2, <2>3, StillHandlerBacked DEF Backing
  <2>6. Lone("gui")' /\ Lone("persist")'
    BY <1>w, <2>1, <2>3 DEF Backing, Lone, AppConfig, Generated, Rest1, Put, Config
  <2>7. doing \in Addresses => PairingGoesOn'
    BY <1>w, <2>2, <2>3
       DEF Backing, PairingGoesOn, Trust, Torn, Unknown, Rests, Rest1, Rest2, Rest3, Rest4
  <2> QED BY <1>p, <1>w, <2>2, <2>3, <2>4, <2>5, <2>6, <2>7 DEF Backing, FilesOf
<1> QED BY <1>1, <1>2, <1>3, <1>4, <1>5, <1>6, <1>7, <1>8, <1>9, <1>10, OpenBacking, FillBacking
     DEF Next

LEMMA BackingAlways == Spec => []Backing
<1>1. TypeOK /\ Backing /\ UNCHANGED vars => Backing'
  BY BackingElsewhere DEF vars, process, writing, history
<1>2. TypeOK /\ CaStands /\ Material /\ Backing /\ [Next]_vars => Backing'
  BY <1>1, BackingStep
<1> QED BY <1>2, TypeCorrect, CaStandsAlways, MaterialAlways, InitBacking, PTL DEF Spec

\* A server the configuration on the disk knows has its material beside it,
\* whole and from the pairing the record is of, in every state a crash, the GUI
\* or another writer may leave the disk in.
THEOREM KnownServersAreBacked == Spec => []KnownIsBacked
<1>1. ASSUME TypeOK, Backing PROVE KnownIsBacked
  <2> SUFFICES ASSUME IsWhole(Config), NEW a \in Addresses \ again,
                      files[Config].what.known[a] # Unknown, NEW f \in Trust(a)
               PROVE  files[f] = Whole(files[Config].what.known[a])
    BY DEF KnownIsBacked
  <2> DEFINE c == files[Config].what
  <2>1. files[Config] = Whole(c) /\ c \in AppConfig
    <3>1. files[Config] \in States(Config) /\ Content(Config) = AppConfig
      BY <1>1, Names DEF TypeOK, FilesOK
    <3> QED BY <3>1 DEF States, IsWhole, Absent, Torn, Whole
  <2>2. Backed(c)
    BY <1>1, <2>1 DEF Backing, Abroad
  <2> QED BY <2>2 DEF Backed
<1> QED BY <1>1, TypeCorrect, BackingAlways, PTL
-----------------------------------------------------------------------------
(* What has been recorded, as long as nobody disturbs it.                  *)

\* The servers whose record is on the disk: those the handler has done with,
\* and the one whose files it has just written.
Saved    == recorded \cup {a \in Addresses : a = doing /\ todo["handler"] = <<>>}
Knows(c) == \A a \in Saved : c.known[a] # Unknown

Recording == Config \in FilesOf(todo["handler"])

\* The inductive invariant: one task at a time has the configuration to save,
\* and what it saves, what is saved, and what the handler has in memory know
\* every server that was recorded.
Surviving ==
  ~disturbed /\ ~cut =>
    /\ todo["gui"] = <<>>
    /\ todo["persist"] = <<>> \/ ~Recording
    /\ mode # "off" => Knows(handler)
    /\ \A c \in AppConfig : todo["persist"] = Rest1(c) => Knows(c)
    /\ todo["persist"] = <<>> /\ ~Recording /\ Saved # {} =>
         IsWhole(Config) /\ Knows(files[Config].what)
    /\ \A w \in Writers : open[w] /\ Head(todo[w]).file = Config => files[Config] = Torn

LEMMA InitSurviving == Init => Surviving
<1> SUFFICES ASSUME Init PROVE Surviving
  OBVIOUS
<1>1. /\ \A w \in Writers : todo[w] = <<>> /\ ~open[w]
      /\ mode = "off" /\ recorded = {} /\ doing \notin Addresses
  BY AddressesAssumption DEF Init
<1>2. Saved = {} /\ ~Recording
  BY <1>1, NothingLeft DEF Saved, Recording, Writers
<1>3. \A c : Rest1(c) # <<>>
  BY Lists DEF Rest1
<1> QED BY <1>1, <1>2, <1>3 DEF Surviving, Writers

\* A step that saves nothing, and records nothing new.
LEMMA SurvivingElsewhere ==
  ASSUME Surviving, Saved' \subseteq Saved, disturbed => disturbed', cut => cut',
         files'[Config] = files[Config], todo'["gui"] = todo["gui"],
         todo'["persist"] = todo["persist"], Recording' <=> Recording,
         ~disturbed' /\ ~cut' /\ mode' # "off" => Knows(handler)',
         \A w \in Writers : open'[w] /\ Head(todo'[w]).file = Config =>
            open[w] /\ Head(todo[w]).file = Config
  PROVE  Surviving'
<1> SUFFICES ASSUME ~disturbed', ~cut'
             PROVE  /\ todo'["gui"] = <<>>
                    /\ todo'["persist"] = <<>> \/ ~Recording'
                    /\ mode' # "off" => Knows(handler)'
                    /\ \A c \in AppConfig' : todo'["persist"] = Rest1(c)' => Knows(c)'
                    /\ todo'["persist"] = <<>> /\ ~Recording' /\ Saved' # {} =>
                         IsWhole(Config)' /\ Knows(files[Config].what)'
                    /\ \A w \in Writers' : open'[w] /\ Head(todo'[w]).file = Config' =>
                         files'[Config'] = Torn'
  BY DEF Surviving
<1>1. AppConfig' = AppConfig /\ Writers' = Writers /\ Config' = Config /\ Torn' = Torn
  BY DEF AppConfig, Generated, Writers, Config, Torn
<1>2. \A c : Knows(c) => Knows(c)'
  BY DEF Knows, Unknown
<1>3. \A c : Rest1(c)' = Rest1(c)
  BY DEF Rest1, Put, Config
<1>4. /\ todo["gui"] = <<>>
      /\ todo["persist"] = <<>> \/ ~Recording
      /\ \A c \in AppConfig : todo["persist"] = Rest1(c) => Knows(c)
      /\ todo["persist"] = <<>> /\ ~Recording /\ Saved # {} =>
           IsWhole(Config) /\ Knows(files[Config].what)
      /\ \A w \in Writers : open[w] /\ Head(todo[w]).file = Config => files[Config] = Torn
  BY DEF Surviving
<1>5. todo'["persist"] = <<>> /\ ~Recording' /\ Saved' # {} =>
        IsWhole(Config)' /\ Knows(files[Config].what)'
  <2> SUFFICES ASSUME todo'["persist"] = <<>>, ~Recording', Saved' # {}
               PROVE  IsWhole(Config)' /\ Knows(files[Config].what)'
    OBVIOUS
  <2>1. IsWhole(Config) /\ Knows(files[Config].what)
    BY <1>4
  <2> QED BY <1>1, <2>1 DEF IsWhole, Knows, Unknown, Config
<1> QED BY <1>1, <1>2, <1>3, <1>4, <1>5

\* Who has the configuration to save.
LEMMA WhoSaves ==
  ASSUME TypeOK, Backing
  PROVE  /\ \A w \in {"gui", "persist"} : Saving(w) <=> todo[w] # <<>>
         /\ Saving("handler") <=> Recording
         /\ doing \notin Addresses => ~Recording
         /\ doing \in Addresses => (Recording <=> todo["handler"] # <<>>)
<1>1. \A w \in Writers : Saving(w) <=> Config \in FilesOf(todo[w])
  BY DEF Saving, FilesOf
<1>2. ASSUME NEW w \in {"gui", "persist"} PROVE Config \in FilesOf(todo[w]) <=> todo[w] # <<>>
  <2>1. \A c \in AppConfig : Config \in FilesOf(Rest1(c)) /\ Rest1(c) # <<>>
    BY ConfigEntry DEF Rest1
  <2> QED BY <2>1, NothingLeft DEF Backing, Lone
<1>3. doing \notin Addresses => ~Recording
  BY CaFilesAre DEF Backing, Recording
<1>4. doing \in Addresses => (Recording <=> todo["handler"] # <<>>)
  BY Pairs, RestStep, NothingLeft DEF Recording
<1> QED BY <1>1, <1>2, <1>3, <1>4 DEF Recording, Writers

\* What the disk knows, the copy that is loaded from it knows.
LEMMA LoadKnows ==
  ASSUME Surviving, ~disturbed, ~cut, todo["persist"] = <<>>, ~Recording
  PROVE  Knows(Load)
BY DEF Surviving, Knows, Load

LEMMA OpenSurviving ==
  ASSUME TypeOK, Backing, Surviving, NEW w \in Writers, Open(w)
  PROVE  Surviving'
<1> USE DEF TypeOK
<1> DEFINE f == Head(todo[w]).file
<1>1. /\ todo[w] # <<>> /\ todo[w] \in Seq(Puts) /\ files' = [files EXCEPT ![f] = Torn]
      /\ open' = [open EXCEPT ![w] = TRUE]
      /\ UNCHANGED <<mode, handler, doing, recorded, todo, disturbed, cut>>
  BY DEF Open, process, history, WritingOK
<1>2. f \in Files /\ f \in FilesOf(todo[w])
  BY <1>1, FirstAndRest, PutsFit
<1>3. \A g \in Files : files'[g] = IF g = f THEN Torn ELSE files[g]
  BY <1>1, <1>2, StatesAre, DiskStays
<1>4. Saved' = Saved /\ (Recording' <=> Recording)
  BY <1>1 DEF Saved, Recording, FilesOf, Config
<1>5. mode' # "off" /\ ~disturbed' /\ ~cut' => Knows(handler)'
  BY <1>1, <1>4 DEF Surviving, Knows, Unknown
<1> HIDE DEF f
<1>6. CASE f # Config
  <2>1. files'[Config] = files[Config]
    BY <1>3, <1>6, Names
  <2>2. \A v \in Writers : open'[v] /\ Head(todo'[v]).file = Config =>
                             open[v] /\ Head(todo[v]).file = Config
    BY <1>1, <1>6 DEF WritingOK, f
  <2> QED BY <1>1, <1>4, <1>5, <2>1, <2>2, SurvivingElsewhere
<1>7. CASE f = Config
  <2> SUFFICES ASSUME ~disturbed, ~cut PROVE Surviving'
    BY <1>1 DEF Surviving
  <2>1. files'[Config] = Torn
    BY <1>3, <1>7, Names
  <2>2. /\ todo["gui"] = <<>>
        /\ todo["persist"] = <<>> \/ ~Recording
        /\ \A c \in AppConfig : todo["persist"] = Rest1(c) => Knows(c)
    BY DEF Surviving
  <2>3. todo["persist"] # <<>> \/ Recording
    BY <1>1, <1>2, <1>7, <2>2 DEF Writers, Recording
  <2>4. \A c \in AppConfig : todo["persist"] = Rest1(c) => Knows(c)'
    BY <1>4, <2>2 DEF Knows, Unknown
  <2> QED BY <1>1, <1>4, <1>5, <2>1, <2>2, <2>3, <2>4
       DEF Surviving, AppConfig, Generated, Rest1, Put, Config, Torn, Writers
<1> QED BY <1>6, <1>7

LEMMA FillSurviving ==
  ASSUME TypeOK, Backing, Surviving, NEW w \in Writers, Fill(w)
  PROVE  Surviving'
<1> USE DEF TypeOK
<1>w. "handler" \in Writers /\ "gui" \in Writers /\ "persist" \in Writers
  BY DEF Writers
<1> DEFINE f == Head(todo[w]).file
           x == Head(todo[w]).content
<1>1. /\ todo[w] # <<>> /\ todo[w] \in Seq(Puts) /\ open[w]
      /\ todo' = [todo EXCEPT ![w] = Tail(@)] /\ open' = [open EXCEPT ![w] = FALSE]
      /\ UNCHANGED <<mode, handler, doing, recorded, disturbed, cut>>
  BY DEF Fill, process, history, WritingOK
<1>2. /\ f \in Files /\ x \in Content(f) /\ Tail(todo[w]) \in Seq(Puts)
      /\ FilesOf(todo[w]) = {f} \cup FilesOf(Tail(todo[w]))
  BY <1>1, FirstAndRest, PutsFit
<1>3. PICK y \in {Whole(x), Torn} :
        (y = Torn => files[f] # Torn) /\ files' = [files EXCEPT ![f] = y]
  BY DEF Fill
<1>4. \A g \in Files : files'[g] = IF g = f THEN y ELSE files[g]
  <2>1. y \in States(f)
    BY <1>2, <1>3, StatesAre
  <2> QED BY <1>2, <1>3, <2>1, DiskStays
<1>5. /\ \A v \in Writers : todo'[v] = IF v = w THEN Tail(todo[w]) ELSE todo[v]
      /\ ~open'[w] /\ \A v \in Writers : v # w => open'[v] = open[v]
  BY <1>1, <1>2, ListChanges DEF WritingOK
<1>6. mode # "off"
  BY <1>1 DEF Backing
<1>7. w # "handler" => /\ f = Config /\ x \in AppConfig /\ Tail(todo[w]) = <<>>
                       /\ todo[w] = Rest1(x)
  BY <1>1, OtherWriter DEF Writers
<1>8. w = "handler" /\ doing \in Addresses =>
        \/ f = Config /\ x = handler /\ Tail(todo[w]) = <<>>
        \/ f \in Trust(doing) /\ Tail(todo[w]) # <<>>
  BY <1>1, Pairs, RestStep
<1>9. w = "handler" /\ doing \notin Addresses => f # Config
  BY <1>2, CaFilesAre DEF Backing
<1> HIDE DEF f, x
<1>10. CASE f # Config
  <2>1. w = "handler" /\ files'[Config] = files[Config]
    BY <1>4, <1>7, <1>10, Names
  <2>2. Saved' \subseteq Saved
    BY <1>1, <1>5, <1>8, <1>10, <1>w, <2>1 DEF Saved
  <2>3. Recording' <=> Recording
    <3>1. FilesOf(todo["handler"]) = {f} \cup FilesOf(todo'["handler"])
      BY <1>2, <1>5, <1>w, <2>1
    <3> QED BY <1>10, <3>1 DEF Recording
  <2>4. mode' # "off" /\ ~disturbed' /\ ~cut' => Knows(handler)'
    BY <1>1, <2>2 DEF Surviving, Knows, Unknown
  <2>5. \A v \in Writers : open'[v] /\ Head(todo'[v]).file = Config =>
                             open[v] /\ Head(todo[v]).file = Config
    BY <1>5
  <2> QED BY <1>1, <1>5, <1>w, <2>1, <2>2, <2>3, <2>4, <2>5, SurvivingElsewhere
<1>11. CASE f = Config
  <2> SUFFICES ASSUME ~disturbed, ~cut PROVE Surviving'
    BY <1>1 DEF Surviving
  <2>1. /\ todo["gui"] = <<>>
        /\ todo["persist"] = <<>> \/ ~Recording
        /\ Knows(handler)
        /\ \A c \in AppConfig : todo["persist"] = Rest1(c) => Knows(c)
        /\ files[Config] = Torn
    BY <1>1, <1>6, <1>11 DEF Surviving, f
  <2>2. files'[Config] = Whole(x)
    BY <1>3, <1>4, <1>11, <2>1, Names
  <2>3. IsWhole(Config)' /\ files'[Config].what = x
    BY <2>2 DEF IsWhole, Whole, Config
  <2>4. w # "gui"
    BY <1>1, <2>1
  <2>5. w = "persist" => ~Recording
    BY <1>1, <2>1
  <2>6. w = "handler" => Recording /\ doing \in Addresses /\ todo["persist"] = <<>> /\ x = handler
                         /\ Tail(todo[w]) = <<>>
    BY <1>2, <1>8, <1>9, <1>11, <2>1, TrustIs DEF Recording
  <2>7. todo'["gui"] = <<>> /\ todo'["persist"] = <<>> /\ ~Recording'
    <3>1. CASE w = "persist"
      BY <1>5, <1>7, <1>w, <2>1, <2>5, <3>1 DEF Recording, FilesOf, Config
    <3>2. CASE w = "handler"
      <4>1. todo'["handler"] = <<>> /\ \A v \in {"gui", "persist"} : todo'[v] = todo[v]
        BY <1>5, <1>w, <2>6, <3>2
      <4>2. FilesOf(todo["handler"])' = {}
        BY <4>1, NothingLeft DEF FilesOf
      <4> QED BY <2>1, <2>6, <3>2, <4>1, <4>2 DEF Recording
    <3> QED BY <2>4, <3>1, <3>2 DEF Writers
  <2>8. \A a \in Saved' : x.known[a] # Unknown /\ handler.known[a] # Unknown
    <3>1. CASE w = "persist"
      <4>1. Saved' = Saved
        BY <1>1, <1>5, <1>w, <3>1 DEF Saved
      <4> QED BY <1>7, <2>1, <3>1, <4>1 DEF Knows
    <3>2. CASE w = "handler"
      <4>1. Saved' \subseteq Saved \cup {doing}
        BY <1>1 DEF Saved
      <4>2. handler.known[doing] # Unknown
        BY <2>6, <3>2 DEF Backing, PairingGoesOn
      <4> QED BY <2>1, <2>6, <3>2, <4>1, <4>2 DEF Knows
    <3> QED BY <2>4, <3>1, <3>2 DEF Writers
  <2>9. Knows(handler)' /\ Knows(files[Config].what)'
    BY <1>1, <2>3, <2>8 DEF Knows, Unknown, Config
  <2>10. \A v \in Writers : open'[v] /\ Head(todo'[v]).file = Config => FALSE
    <3> SUFFICES ASSUME NEW v \in Writers, v # w, open[v], Head(todo[v]).file = Config PROVE FALSE
      BY <1>5
    <3>1. todo[v] # <<>> /\ todo[v] \in Seq(Puts)
      BY DEF WritingOK
    <3>2. Config \in FilesOf(todo[v])
      BY <3>1, FirstAndRest
    <3>3. v # "gui"
      BY <2>1, <3>1
    <3>4. CASE v = "persist"
      BY <2>4, <2>6, <3>1, <3>4 DEF Writers
    <3>5. CASE v = "handler"
      BY <2>4, <2>5, <3>2, <3>5 DEF Writers, Recording
    <3> QED BY <3>3, <3>4, <3>5 DEF Writers
  <2>11. \A c : Rest1(c)' # <<>>
    BY Lists DEF Rest1
  <2> QED BY <1>1, <2>3, <2>7, <2>9, <2>10, <2>11 DEF Surviving, Writers, Config
<1> QED BY <1>10, <1>11

LEMMA SurvivingStep ==
  ASSUME TypeOK, CaStands, Backing, Surviving, Next
  PROVE  Surviving'
<1> USE DEF TypeOK
<1>w. "handler" \in Writers /\ "gui" \in Writers /\ "persist" \in Writers
  BY DEF Writers
<1>l. \A c : Rest1(c)' = Rest1(c) /\ Rest1(c) # <<>>
  BY Lists DEF Rest1, Put, Config
<1>p. AppConfig' = AppConfig /\ Writers' = Writers /\ Config' = Config /\ Torn' = Torn
  BY DEF AppConfig, Generated, Writers, Config, Torn
<1>1. ASSUME NEW m \in {"gui", "server", "client"}, Launch(m) PROVE Surviving'
  <2>1. /\ mode = "off" /\ handler' = Load
        /\ UNCHANGED <<files, doing, todo, open, recorded, disturbed, cut>>
    BY <1>1 DEF Launch, writing, history
  <2>2. todo["persist"] = <<>> /\ ~Recording
    BY <1>w, <2>1, NothingLeft DEF Backing, Recording
  <2>3. Saved' = Saved /\ (Recording' <=> Recording)
    BY <2>1 DEF Saved, Recording, FilesOf, Config
  <2>4. ~disturbed' /\ ~cut' => Knows(handler)'
    BY <2>1, <2>2, <2>3, LoadKnows DEF Knows, Unknown
  <2> QED BY <2>1, <2>3, <2>4, SurvivingElsewhere
<1>2. ASSUME Exit PROVE Surviving'
  <2>1. /\ mode' = "off" /\ doing' = "nothing" /\ UNCHANGED <<files, handler, recorded, disturbed>>
        /\ \A w \in Writers : todo'[w] = <<>> /\ ~open'[w]
        /\ cut' = (cut \/ \E w \in Writers : todo[w] # <<>>)
    BY <1>2 DEF Exit
  <2> SUFFICES ASSUME ~cut' PROVE Surviving'
    BY DEF Surviving
  <2>2. ~cut /\ \A w \in Writers : todo'[w] = todo[w]
    BY <2>1
  <2>3. Saved' \subseteq Saved
    BY <2>1, AddressesAssumption DEF Saved
  <2>4. Recording' <=> Recording
    BY <1>w, <2>2 DEF Recording
  <2> QED BY <1>w, <2>1, <2>2, <2>3, <2>4, SurvivingElsewhere
<1>3. ASSUME NEW fs \in SUBSET {Server, ServerKey}, Delete(fs) PROVE Surviving'
  <2>1. /\ \A g \in Files : g \notin fs => files'[g] = files[g]
        /\ UNCHANGED <<mode, handler, doing, todo, open, recorded, disturbed, cut>>
    BY <1>3 DEF Delete, process, writing
  <2>2. files'[Config] = files[Config]
    BY <2>1, Names
  <2>3. Saved' = Saved /\ (Recording' <=> Recording)
    BY <2>1 DEF Saved, Recording, FilesOf, Config
  <2>4. mode' # "off" /\ ~disturbed' /\ ~cut' => Knows(handler)'
    BY <2>1, <2>3 DEF Surviving, Knows, Unknown
  <2> QED BY <2>1, <2>2, <2>3, <2>4, SurvivingElsewhere
<1>4. ASSUME StartServer PROVE Surviving'
  <2>1. PICK puts \in Missing : todo' = [todo EXCEPT !["handler"] = puts]
    BY <1>4 DEF StartServer
  <2>2. /\ fresh < MaxFresh /\ doing = "nothing" /\ doing' = "starting"
        /\ UNCHANGED <<files, mode, handler, open, recorded, disturbed, cut>>
    BY <1>4 DEF StartServer, history
  <2>3. puts \in Seq(Puts) /\ FilesOf(puts) \subseteq CertFiles
    BY <2>2, ResolvingWrites DEF HistoryOK, CertFiles
  <2>4. \A v \in Writers : todo'[v] = IF v = "handler" THEN puts ELSE todo[v]
    BY <1>w, <2>1, <2>3, ListChanges DEF WritingOK
  <2>5. doing \notin Addresses /\ doing' \notin Addresses /\ ~open["handler"]
    BY <2>2, AddressesAssumption, IdleHandler
  <2>6. ~Recording /\ ~Recording'
    BY <1>w, <2>3, <2>4, <2>5, CaFilesAre, WhoSaves DEF Recording
  <2>7. Saved' = Saved
    BY <2>2, <2>5 DEF Saved
  <2>8. mode' # "off" /\ ~disturbed' /\ ~cut' => Knows(handler)'
    BY <2>2, <2>7 DEF Surviving, Knows, Unknown
  <2>9. \A v \in Writers : open'[v] /\ Head(todo'[v]).file = Config =>
                             open[v] /\ Head(todo[v]).file = Config
    BY <2>2, <2>4, <2>5
  <2> QED BY <1>w, <2>2, <2>4, <2>6, <2>7, <2>8, <2>9, SurvivingElsewhere
<1>5. ASSUME StartFails PROVE Surviving'
  <2>1. UNCHANGED <<files, mode, handler, doing, todo, open, recorded, disturbed, cut>>
    BY <1>5 DEF StartFails, process, writing
  <2>2. Saved' = Saved /\ (Recording' <=> Recording)
    BY <2>1 DEF Saved, Recording, FilesOf, Config
  <2>3. mode' # "off" /\ ~disturbed' /\ ~cut' => Knows(handler)'
    BY <2>1, <2>2 DEF Surviving, Knows, Unknown
  <2> QED BY <2>1, <2>2, <2>3, SurvivingElsewhere
<1>6. ASSUME Resolved PROVE Surviving'
  <2>1. /\ doing = "starting" /\ doing' = "nothing"
        /\ UNCHANGED <<files, mode, handler, todo, open, recorded, disturbed, cut>>
    BY <1>6 DEF Resolved, writing
  <2>2. Saved' = Saved /\ (Recording' <=> Recording)
    BY <2>1, AddressesAssumption DEF Saved, Recording, FilesOf, Config
  <2>3. mode' # "off" /\ ~disturbed' /\ ~cut' => Knows(handler)'
    BY <2>1, <2>2 DEF Surviving, Knows, Unknown
  <2> QED BY <2>1, <2>2, <2>3, SurvivingElsewhere
<1>7. ASSUME NEW d \in Devices, Persist(d) PROVE Surviving'
  <2>1. PICK e \in AppConfig :
          /\ \A a \in Addresses : e.known[a] = Load.known[a]
          /\ todo' = [todo EXCEPT !["persist"] = Rest1(e)]
    <3> DEFINE e == [Load EXCEPT !.paired = @ \cup {d}]
    <3>1. Load \in AppConfig
      BY LoadFits
    <3>2. e \in AppConfig /\ \A a \in Addresses : e.known[a] = Load.known[a]
      BY <3>1, ConfigGrows DEF AppConfig
    <3>3. todo' = [todo EXCEPT !["persist"] = Rest1(e)]
      BY <1>7 DEF Persist, Rest1
    <3> QED BY <3>2, <3>3
  <2>2. /\ todo["persist"] = <<>>
        /\ disturbed' = (disturbed \/ Overlap("persist"))
        /\ UNCHANGED <<files, mode, handler, doing, open, recorded, cut>>
    BY <1>7 DEF Persist, process
  <2>3. Rest1(e) \in Seq(Puts)
    BY <2>1, ConfigEntry DEF Rest1
  <2>4. \A v \in Writers : todo'[v] = IF v = "persist" THEN Rest1(e) ELSE todo[v]
    BY <1>w, <2>1, <2>3, ListChanges DEF WritingOK
  <2> SUFFICES ASSUME ~disturbed', ~cut' PROVE Surviving'
    BY DEF Surviving
  <2>5. ~disturbed /\ ~cut /\ ~Recording
    BY <1>w, <2>2, WhoSaves DEF Overlap
  <2>6. Saved' = Saved /\ ~Recording' /\ Saved \subseteq Addresses
    BY <1>w, <2>2, <2>4, <2>5 DEF Saved, Recording, HistoryOK
  <2>7. Knows(e)'
    BY <2>1, <2>2, <2>5, <2>6, LoadKnows DEF Knows, Unknown
  <2>8. \A c : todo'["persist"] = Rest1(c) => c = e
    BY <1>w, <2>4, RestIsConfig
  <2>9. \A v \in Writers : open'[v] /\ Head(todo'[v]).file = Config => files'[Config] = Torn
    <3>1. ~open["persist"]
      <4>1. CASE open["persist"]
        BY <1>w, <2>2, <4>1 DEF WritingOK
      <4> QED BY <4>1
    <3> QED BY <1>w, <2>2, <2>4, <2>5, <3>1 DEF Surviving
  <2>10. mode' # "off" => Knows(handler)'
    BY <2>2, <2>5, <2>6 DEF Surviving, Knows, Unknown
  <2>11. todo'["gui"] = <<>> /\ todo'["persist"] # <<>>
    BY <1>l, <1>w, <2>4, <2>5 DEF Surviving
  <2> QED BY <1>l, <1>p, <2>6, <2>7, <2>8, <2>9, <2>10, <2>11 DEF Surviving, Knows, Unknown
<1>8. ASSUME NEW a \in Addresses, Pair(a) PROVE Surviving'
  <2>1. /\ doing = "nothing" /\ fresh < MaxFresh /\ doing' = a /\ mode # "off"
        /\ handler' = [handler EXCEPT !.known[a] = fresh + 1]
        /\ todo' = [todo EXCEPT !["handler"] = WriteThenRecord(a, fresh + 1, handler')]
        /\ disturbed' = (disturbed \/ Overlap("handler"))
        /\ UNCHANGED <<files, mode, open, recorded, cut>>
    BY <1>8 DEF Pair
  <2>2. fresh + 1 \in Generated /\ fresh + 1 # Unknown
    BY <2>1, BoundsAssumption DEF HistoryOK, Generated, Unknown
  <2>3. /\ handler' \in AppConfig /\ handler'.known[a] = fresh + 1
        /\ \A b \in Addresses \ {a} : handler'.known[b] = handler.known[b]
    BY <2>1, <2>2, ConfigGrows DEF ProcessOK, AppConfig
  <2>4. /\ WriteThenRecord(a, fresh + 1, handler') \in Seq(Puts)
        /\ FilesOf(WriteThenRecord(a, fresh + 1, handler')) = Trust(a) \cup {Config}
    BY <2>2, <2>3, PairingWrites
  <2>5. \A v \in Writers :
           todo'[v] = IF v = "handler" THEN WriteThenRecord(a, fresh + 1, handler') ELSE todo[v]
    BY <1>w, <2>1, <2>4, ListChanges DEF WritingOK
  <2> SUFFICES ASSUME ~disturbed', ~cut' PROVE Surviving'
    BY DEF Surviving
  <2>6. ~disturbed /\ ~cut /\ todo["persist"] = <<>> /\ todo["gui"] = <<>>
    BY <1>w, <2>1, WhoSaves DEF Overlap
  <2>7. Recording' /\ todo'["handler"] # <<>>
    BY <1>w, <2>4, <2>5, NothingLeft DEF Recording
  <2>8. Saved' = recorded /\ Saved' \subseteq Saved /\ Saved' \subseteq Addresses
    BY <2>1, <2>7 DEF Saved, HistoryOK
  <2>9. Knows(handler)'
    <3>1. Knows(handler)
      BY <2>1, <2>6 DEF Surviving
    <3> QED BY <2>2, <2>3, <2>8, <3>1 DEF Knows, Unknown
  <2>10. \A v \in Writers : open'[v] /\ Head(todo'[v]).file = Config => FALSE
    <3>1. \A v \in Writers : ~open[v]
      BY <2>1, <2>6, IdleHandler DEF WritingOK, Writers
    <3> QED BY <2>1, <3>1
  <2> QED BY <1>l, <1>p, <1>w, <2>5, <2>6, <2>7, <2>9, <2>10 DEF Surviving
<1>9. ASSUME Paired PROVE Surviving'
  <2>1. /\ doing \in Addresses /\ doing' = "nothing" /\ todo["handler"] = <<>>
        /\ recorded' = recorded \cup {doing}
        /\ UNCHANGED <<files, mode, handler, todo, open, disturbed, cut>>
    BY <1>9 DEF Paired, writing
  <2>2. Saved' = Saved /\ (Recording' <=> Recording)
    BY <2>1, AddressesAssumption DEF Saved, Recording, FilesOf, Config
  <2>3. mode' # "off" /\ ~disturbed' /\ ~cut' => Knows(handler)'
    BY <2>1, <2>2 DEF Surviving, Knows, Unknown
  <2> QED BY <2>1, <2>2, <2>3, SurvivingElsewhere
<1>10. ASSUME GuiSave PROVE Surviving'
  BY <1>10 DEF GuiSave, Surviving
<1> QED BY <1>1, <1>2, <1>3, <1>4, <1>5, <1>6, <1>7, <1>8, <1>9, <1>10, OpenSurviving, FillSurviving
     DEF Next

\* What pairing has recorded is in the file, whole, whenever nobody is writing,
\* until the GUI saves, two tasks save at once, or the program ends in the
\* middle of a write.
THEOREM RecordedServersSurvive == Spec => []RecordsSurvive
<1>1. TypeOK /\ Surviving /\ UNCHANGED vars => Surviving'
  <2> SUFFICES ASSUME TypeOK, Surviving, UNCHANGED vars PROVE Surviving'
    OBVIOUS
  <2>1. UNCHANGED <<files, mode, handler, doing, todo, open, recorded, disturbed, cut>>
    BY DEF vars, process, writing, history
  <2>2. Saved' = Saved /\ (Recording' <=> Recording)
    BY <2>1 DEF Saved, Recording, FilesOf, Config
  <2>3. mode' # "off" /\ ~disturbed' /\ ~cut' => Knows(handler)'
    BY <2>1, <2>2 DEF Surviving, Knows, Unknown
  <2> QED BY <2>1, <2>2, <2>3, SurvivingElsewhere
<1>2. TypeOK /\ CaStands /\ Backing /\ Surviving /\ [Next]_vars => Surviving'
  BY <1>1, SurvivingStep
<1>3. ASSUME TypeOK, Backing, Surviving PROVE RecordsSurvive
  <2> SUFFICES ASSUME ~disturbed, ~cut, \A w \in Writers : todo[w] = <<>>
               PROVE  /\ recorded # {} => IsWhole(Config)
                      /\ \A a \in recorded : files[Config].what.known[a] # Unknown
    BY DEF RecordsSurvive
  <2>1. todo["persist"] = <<>> /\ ~Recording
    BY NothingLeft DEF Writers, Recording
  <2>2. recorded \subseteq Saved
    BY DEF Saved
  <2> QED BY <1>3, <2>1, <2>2 DEF Surviving, Knows
<1> QED BY <1>2, <1>3, TypeCorrect, CaStandsAlways, BackingAlways, InitSurviving, PTL DEF Spec
=============================================================================
