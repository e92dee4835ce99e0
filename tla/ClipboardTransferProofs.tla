---------------------- MODULE ClipboardTransferProofs ----------------------
(***************************************************************************)
(* Proofs about ClipboardTransfer, for any clients and contents, images of *)
(* any number of chunks and rings of any capacity.                         *)
(***************************************************************************)
EXTENDS ClipboardTransfer, SequenceTheorems, WellFoundedInduction, TLAPS

-----------------------------------------------------------------------------
(* Runs: the messages of a sequence take a state to another.  The steps    *)
(* are triples of a message, the state it finds and the state it leaves.   *)

Run(S, steps, q, s, t) ==
  \E r \in [0 .. Len(q) -> S] :
    /\ r[0] = s /\ r[Len(q)] = t
    /\ \A i \in 1 .. Len(q) : <<q[i], r[i - 1], r[i]>> \in steps

LEMMA RunNothing ==
  ASSUME NEW S, NEW steps, NEW s \in S
  PROVE  /\ Run(S, steps, <<>>, s, s)
         /\ \A t : Run(S, steps, <<>>, s, t) => s = t
<1> DEFINE r == [i \in 0 .. 0 |-> s]
<1>1. r \in [0 .. Len(<<>>) -> S] /\ r[0] = s /\ r[Len(<<>>)] = s
  OBVIOUS
<1>2. 1 .. Len(<<>>) = {} /\ Len(<<>>) = 0
  OBVIOUS
<1> HIDE DEF r
<1>3. Run(S, steps, <<>>, s, s)
  BY <1>1, <1>2 DEF Run
<1> QED BY <1>2, <1>3 DEF Run

LEMMA RunFirst ==
  ASSUME NEW S, NEW steps, NEW M, NEW q \in Seq(M), q # <<>>, NEW s, NEW t, Run(S, steps, q, s, t)
  PROVE  \E m \in S : <<Head(q), s, m>> \in steps /\ Run(S, steps, Tail(q), m, t)
<1> DEFINE n == Len(q)
           u == Tail(q)
<1>1. n \in Nat \ {0} /\ Head(q) = q[1]
  BY EmptySeq
<1>2. u \in Seq(M) /\ Len(u) = n - 1 /\ \A i \in 1 .. Len(u) : u[i] = q[i + 1]
  BY HeadTailProperties
<1>3. PICK r \in [0 .. n -> S] :
        /\ r[0] = s /\ r[n] = t
        /\ \A i \in 1 .. n : <<q[i], r[i - 1], r[i]>> \in steps
  BY DEF Run
<1> DEFINE p == [i \in 0 .. n - 1 |-> r[i + 1]]
<1> HIDE DEF n, u
<1>4. <<q[1], s, r[1]>> \in steps /\ r[1] \in S
  <2>1. 1 \in 1 .. n /\ 1 - 1 = 0 /\ 1 \in 0 .. n
    BY <1>1
  <2>2. <<q[1], r[1 - 1], r[1]>> \in steps
    BY <1>3, <2>1
  <2> QED BY <1>3, <2>1, <2>2
<1>5. p \in [0 .. n - 1 -> S]
  <2>1. \A i \in 0 .. n - 1 : i + 1 \in 0 .. n
    BY <1>1
  <2> QED BY <1>3, <2>1
<1>6. p[0] = r[1] /\ p[n - 1] = t
  <2>1. 0 \in 0 .. n - 1 /\ n - 1 \in 0 .. n - 1 /\ (n - 1) + 1 = n /\ 0 + 1 = 1
    BY <1>1
  <2>2. p[0] = r[0 + 1] /\ p[n - 1] = r[(n - 1) + 1]
    BY <2>1
  <2> QED BY <1>3, <2>1, <2>2
<1>7. ASSUME NEW i \in 1 .. n - 1 PROVE <<u[i], p[i - 1], p[i]>> \in steps
  <2>1. /\ i \in 1 .. Len(u) /\ i + 1 \in 1 .. n /\ (i + 1) - 1 = i
        /\ i - 1 \in 0 .. n - 1 /\ i \in 0 .. n - 1 /\ (i - 1) + 1 = i
    BY <1>1, <1>2
  <2>2. p[i - 1] = r[i] /\ p[i] = r[i + 1] /\ u[i] = q[i + 1]
    BY <1>2, <2>1
  <2>3. <<q[i + 1], r[(i + 1) - 1], r[i + 1]>> \in steps
    BY <1>3, <2>1
  <2> QED BY <2>1, <2>2, <2>3
<1> HIDE DEF p
<1>8. Run(S, steps, u, r[1], t)
  BY <1>2, <1>5, <1>6, <1>7 DEF Run
<1> QED BY <1>1, <1>4, <1>8 DEF u

LEMMA RunConcat ==
  ASSUME NEW S, NEW steps, NEW M, NEW q \in Seq(M), NEW p \in Seq(M), NEW s, NEW m, NEW t,
         Run(S, steps, q, s, m), Run(S, steps, p, m, t)
  PROVE  Run(S, steps, q \o p, s, t)
<1> DEFINE n == Len(q)
           l == Len(p)
           u == q \o p
<1>1. n \in Nat /\ l \in Nat
  BY LenProperties
<1>2. u \in Seq(M) /\ Len(u) = n + l /\ \A i \in 1 .. n + l : u[i] = IF i <= n THEN q[i] ELSE p[i - n]
  BY ConcatProperties
<1>3. PICK f \in [0 .. n -> S] :
        /\ f[0] = s /\ f[n] = m
        /\ \A i \in 1 .. n : <<q[i], f[i - 1], f[i]>> \in steps
  BY DEF Run
<1>4. PICK g \in [0 .. l -> S] :
        /\ g[0] = m /\ g[l] = t
        /\ \A i \in 1 .. l : <<p[i], g[i - 1], g[i]>> \in steps
  BY DEF Run
<1> DEFINE r == [i \in 0 .. n + l |-> IF i <= n THEN f[i] ELSE g[i - n]]
<1> HIDE DEF n, l, u
<1>5. r \in [0 .. n + l -> S]
  <2>1. \A i \in 0 .. n + l : IF i <= n THEN i \in 0 .. n ELSE i - n \in 0 .. l
    BY <1>1
  <2> QED BY <1>3, <1>4, <2>1
<1>6. \A i \in 0 .. n : i \in 0 .. n + l /\ r[i] = f[i]
  <2>1. \A i \in 0 .. n : i \in 0 .. n + l /\ i <= n
    BY <1>1
  <2> QED BY <2>1
<1>7. \A i \in 0 .. l : n + i \in 0 .. n + l /\ r[n + i] = g[i]
  <2> SUFFICES ASSUME NEW i \in 0 .. l PROVE n + i \in 0 .. n + l /\ r[n + i] = g[i]
    OBVIOUS
  <2>1. n + i \in 0 .. n + l /\ (n + i) - n = i /\ (n + i <= n => i = 0)
    BY <1>1
  <2>2. CASE i = 0
    <3>1. n + i = n /\ n <= n /\ n \in 0 .. n
      BY <1>1, <2>2
    <3> QED BY <1>3, <1>4, <1>6, <2>1, <2>2, <3>1
  <2>3. CASE i # 0
    BY <2>1, <2>3
  <2> QED BY <2>2, <2>3
<1> HIDE DEF r
<1>8. r[0] = s /\ r[n + l] = t
  <2>1. 0 \in 0 .. n /\ l \in 0 .. l
    BY <1>1
  <2> QED BY <1>3, <1>4, <1>6, <1>7, <2>1
<1>9. ASSUME NEW i \in 1 .. n + l PROVE <<u[i], r[i - 1], r[i]>> \in steps
  <2>1. CASE i <= n
    <3>1. i \in 1 .. n /\ i \in 0 .. n /\ i - 1 \in 0 .. n
      BY <1>1, <2>1
    <3>2. <<q[i], f[i - 1], f[i]>> \in steps
      BY <1>3, <3>1
    <3> QED BY <1>2, <1>6, <2>1, <3>1, <3>2
  <2>2. CASE ~(i <= n)
    <3> DEFINE j == i - n
    <3>1. j \in 1 .. l /\ j \in 0 .. l /\ j - 1 \in 0 .. l /\ n + j = i /\ n + (j - 1) = i - 1
      BY <1>1, <2>2
    <3>2. u[i] = p[j]
      BY <1>2, <2>2
    <3> HIDE DEF j
    <3>3. <<p[j], g[j - 1], g[j]>> \in steps
      BY <1>4, <3>1
    <3>4. r[i] = g[j] /\ r[i - 1] = g[j - 1]
      BY <1>7, <3>1
    <3> QED BY <3>2, <3>3, <3>4
  <2> QED BY <2>1, <2>2
<1>10. Run(S, steps, u, s, t)
  BY <1>2, <1>5, <1>8, <1>9 DEF Run
<1> QED BY <1>10 DEF u

LEMMA RunOne ==
  ASSUME NEW S, NEW steps, NEW msg, NEW s \in S, NEW t \in S, <<msg, s, t>> \in steps
  PROVE  Run(S, steps, <<msg>>, s, t)
<1> DEFINE q == <<msg>>
           r == [i \in 0 .. 1 |-> IF i = 0 THEN s ELSE t]
<1>1. Len(q) = 1 /\ q[1] = msg /\ r \in [0 .. 1 -> S] /\ r[0] = s /\ r[1] = t
  OBVIOUS
<1>2. \A i \in 1 .. 1 : i = 1 /\ i - 1 = 0
  OBVIOUS
<1> HIDE DEF q, r
<1>3. \A i \in 1 .. 1 : <<q[i], r[i - 1], r[i]>> \in steps
  BY <1>1, <1>2
<1>4. Run(S, steps, q, s, t)
  BY <1>1, <1>3 DEF Run
<1> QED BY <1>4 DEF q

LEMMA RunOn ==
  ASSUME NEW S, NEW steps, NEW M, NEW q \in Seq(M), NEW msg \in M, NEW s, NEW m \in S, NEW t \in S,
         Run(S, steps, q, s, m), <<msg, m, t>> \in steps
  PROVE  Run(S, steps, Append(q, msg), s, t)
<1>1. <<msg>> \in Seq(M) /\ Append(q, msg) = q \o <<msg>>
  BY AppendIsConcat
<1> QED BY <1>1, RunOne, RunConcat

\* A set of numbers has a least one.
LEMMA LeastNumber ==
  ASSUME NEW S \in SUBSET Nat, NEW n \in S
  PROVE  \E k \in S : \A j \in S : k <= j
<1> DEFINE R == OpToRel(<, Nat)
<1>1. IsWellFoundedOn(R, Nat)
  BY NatLessThanWellFounded
<1>2. PICK k \in S : \A j \in S : <<j, k>> \notin R
  <2> HIDE DEF R
  <2>1. S \subseteq Nat /\ S # {}
    OBVIOUS
  <2>2. \E x \in S : \A y \in S : ~(<<y, x>> \in R)
    BY <1>1, <2>1, WFMin
  <2> QED BY <2>2
<1>3. ASSUME NEW j \in S PROVE k <= j
  <2>1. <<j, k>> \notin OpToRel(<, Nat) /\ <<j, k>> \in Nat \X Nat
    BY <1>2
  <2>2. ~(j < k)
    BY <2>1 DEF OpToRel
  <2> QED BY <2>2
<1> QED BY <1>3

\* A run that begins where steps do not lead out stays there.
LEMMA RunWithin ==
  ASSUME NEW S, NEW steps, NEW q, Len(q) \in Nat, NEW s, NEW t, Run(S, steps, q, s, t),
         NEW P \in SUBSET S, s \in P,
         \A msg : \A a \in P : \A b \in S : <<msg, a, b>> \in steps => b \in P
  PROVE  Run(P, steps, q, s, t)
<1> DEFINE n == Len(q)
<1>1. PICK r \in [0 .. n -> S] :
        /\ r[0] = s /\ r[n] = t
        /\ \A i \in 1 .. n : <<q[i], r[i - 1], r[i]>> \in steps
  BY DEF Run
<1>0. n \in Nat
  OBVIOUS
<1> HIDE DEF n
<1>2. ASSUME NEW k \in 0 .. n, r[k] \notin P PROVE FALSE
  <2> DEFINE Outside == {i \in 0 .. n : r[i] \notin P}
  <2>1. Outside \in SUBSET Nat /\ k \in Outside
    BY <1>2
  <2>2. PICK i \in Outside : \A j \in Outside : i <= j
    <3> HIDE DEF Outside
    <3> QED BY <2>1, LeastNumber
  <2>3. i # 0
    BY <1>1, <2>2
  <2>4. i - 1 \in 0 .. n /\ i \in 1 .. n /\ ~(i <= i - 1)
    BY <1>0, <2>2, <2>3
  <2>5. r[i - 1] \in P
    BY <2>2, <2>4
  <2>6. <<q[i], r[i - 1], r[i]>> \in steps /\ r[i] \in S
    BY <1>1, <2>4
  <2>7. r[i] \in P
    BY <2>5, <2>6
  <2> QED BY <2>2, <2>7
<1>3. r \in [0 .. n -> P]
  BY <1>1, <1>2
<1> QED BY <1>1, <1>3 DEF Run, n

\* The image of a run.
LEMMA RunInto ==
  ASSUME NEW S, NEW steps, NEW q, Len(q) \in Nat, NEW s, NEW t, Run(S, steps, q, s, t),
         NEW T, NEW others, NEW h \in [S -> T],
         \A msg : \A a \in S : \A b \in S : <<msg, a, b>> \in steps => <<msg, h[a], h[b]>> \in others
  PROVE  Run(T, others, q, h[s], h[t])
<1> DEFINE n == Len(q)
<1>1. PICK r \in [0 .. n -> S] :
        /\ r[0] = s /\ r[n] = t
        /\ \A i \in 1 .. n : <<q[i], r[i - 1], r[i]>> \in steps
  BY DEF Run
<1> DEFINE p == [i \in 0 .. n |-> h[r[i]]]
<1>2. 0 \in 0 .. n /\ n \in 0 .. n /\ \A i \in 1 .. n : i \in 0 .. n /\ i - 1 \in 0 .. n
  OBVIOUS
<1> HIDE DEF n
<1>3. p \in [0 .. n -> T] /\ p[0] = h[s] /\ p[n] = h[t]
  BY <1>1, <1>2
<1>4. ASSUME NEW i \in 1 .. n PROVE <<q[i], p[i - 1], p[i]>> \in others
  <2>1. p[i] = h[r[i]] /\ p[i - 1] = h[r[i - 1]] /\ r[i] \in S /\ r[i - 1] \in S
    BY <1>1, <1>2
  <2>2. <<q[i], r[i - 1], r[i]>> \in steps
    BY <1>1
  <2> QED BY <2>1, <2>2
<1> HIDE DEF p
<1> QED BY <1>3, <1>4 DEF Run, n

-----------------------------------------------------------------------------
(* The messages a transfer is made of.                                     *)

\* The first k chunks of an image.
FirstChunks(k, x) == [i \in 1 .. k |-> ClipboardChunk(i, x)]

LEMMA FirstChunksLen ==
  ASSUME NEW x, NEW k \in Nat
  PROVE  /\ Len(FirstChunks(k, x)) = k
         /\ \A i \in 1 .. k : FirstChunks(k, x)[i] = ClipboardChunk(i, x)
BY DEF FirstChunks

LEMMA FirstChunksType ==
  ASSUME NEW x, NEW k \in Nat, NEW S, \A i \in 1 .. k : ClipboardChunk(i, x) \in S
  PROVE  FirstChunks(k, x) \in Seq(S)
BY DEF FirstChunks

\* One chunk more.
LEMMA OneMoreChunk ==
  ASSUME NEW x, NEW k \in Nat \ {0}
  PROVE  Append(FirstChunks(k - 1, x), ClipboardChunk(k, x)) = FirstChunks(k, x)
<1> DEFINE S == {ClipboardChunk(i, x) : i \in Nat}
           q == FirstChunks(k - 1, x)
           e == ClipboardChunk(k, x)
<1>1. k - 1 \in Nat /\ k \in Nat
  OBVIOUS
<1>2. q \in Seq(S) /\ FirstChunks(k, x) \in Seq(S) /\ e \in S
  BY <1>1, FirstChunksType
<1>3. /\ Len(q) = k - 1 /\ \A i \in 1 .. k - 1 : q[i] = ClipboardChunk(i, x)
      /\ Len(FirstChunks(k, x)) = k
      /\ \A i \in 1 .. k : FirstChunks(k, x)[i] = ClipboardChunk(i, x)
  BY <1>1, FirstChunksLen
<1> HIDE DEF q, S
<1>4. /\ Append(q, e) \in Seq(S) /\ Len(Append(q, e)) = Len(q) + 1
      /\ \A i \in 1 .. Len(q) : Append(q, e)[i] = q[i]
      /\ Append(q, e)[Len(q) + 1] = e
  BY <1>2, AppendProperties
<1>5. Len(Append(q, e)) = k
  BY <1>3, <1>4
<1>6. ASSUME NEW i \in 1 .. k PROVE Append(q, e)[i] = FirstChunks(k, x)[i]
  <2>1. CASE i = k
    BY <2>1, <1>3, <1>4
  <2>2. CASE i # k
    <3>1. i \in 1 .. k - 1
      BY <2>2
    <3> QED BY <3>1, <1>3, <1>4
  <2> QED BY <2>1, <2>2
<1>7. Append(q, e) = FirstChunks(k, x)
  BY <1>2, <1>3, <1>4, <1>5, <1>6, SeqEqual
<1> QED BY <1>7 DEF q

\* An image makes a beginning, its chunks in their order, and an end.
LEMMA ImageTransfer ==
  ASSUME NEW x \in Images
  PROVE  /\ NumChunks[x] \in Nat \ {0}
         /\ Transfer(x) \in Seq({Transfer(x)[i] : i \in 1 .. NumChunks[x] + 2})
         /\ Len(Transfer(x)) = NumChunks[x] + 2
         /\ Transfer(x)[1] = ClipboardBegin(x)
         /\ \A k \in 1 .. NumChunks[x] : Transfer(x)[k + 1] = ClipboardChunk(k, x)
         /\ Transfer(x)[NumChunks[x] + 2] = ClipboardEnd(x)
<1> DEFINE n == NumChunks[x]
           b == ClipboardBegin(x)
           e == ClipboardEnd(x)
           c == FirstChunks(n, x)
           S == {b, e} \cup {ClipboardChunk(i, x) : i \in 1 .. n}
           t == (<<b>> \o c) \o <<e>>
<1>1. n \in Nat \ {0}
  BY NumChunksAssumption
<1>2. x \notin Texts
  BY ImagesAssumption
<1>3. Transfer(x) = t
  BY <1>2 DEF Transfer, Chunks, FirstChunks
<1>4. b \in S /\ e \in S /\ c \in Seq(S) /\ Len(c) = n /\ \A i \in 1 .. n : c[i] = ClipboardChunk(i, x)
  BY <1>1, FirstChunksType, FirstChunksLen
<1> HIDE DEF n, b, e, c, S
<1>5. /\ <<b>> \in Seq(S) /\ Len(<<b>>) = 1 /\ <<b>>[1] = b
      /\ <<e>> \in Seq(S) /\ Len(<<e>>) = 1 /\ <<e>>[1] = e
  BY <1>4
<1>6. /\ <<b>> \o c \in Seq(S) /\ Len(<<b>> \o c) = Len(<<b>>) + Len(c)
      /\ \A i \in 1 .. Len(<<b>>) + Len(c) :
           (<<b>> \o c)[i] = IF i <= Len(<<b>>) THEN <<b>>[i] ELSE c[i - Len(<<b>>)]
  BY <1>4, <1>5, ConcatProperties
<1>7. Len(<<b>> \o c) = n + 1 /\ \A i \in 1 .. n + 1 : (<<b>> \o c)[i] = IF i <= 1 THEN b ELSE c[i - 1]
  BY <1>1, <1>4, <1>5, <1>6
<1>8. /\ t \in Seq(S) /\ Len(t) = Len(<<b>> \o c) + Len(<<e>>)
      /\ \A i \in 1 .. Len(<<b>> \o c) + Len(<<e>>) :
           t[i] = IF i <= Len(<<b>> \o c) THEN (<<b>> \o c)[i] ELSE <<e>>[i - Len(<<b>> \o c)]
  BY <1>5, <1>6, ConcatProperties
<1>9. Len(t) = n + 2
  BY <1>1, <1>5, <1>7, <1>8
<1>10. \A i \in 1 .. n + 2 : t[i] = IF i <= n + 1 THEN (<<b>> \o c)[i] ELSE e
  BY <1>1, <1>5, <1>7, <1>8
<1>11. t[1] = b
  BY <1>1, <1>7, <1>10
<1>12. ASSUME NEW k \in 1 .. n PROVE t[k + 1] = ClipboardChunk(k, x)
  <2>1. k + 1 \in 1 .. n + 2 /\ k + 1 <= n + 1 /\ k + 1 \in 1 .. n + 1 /\ ~(k + 1 <= 1) /\ (k + 1) - 1 = k
    BY <1>1
  <2> QED BY <2>1, <1>4, <1>7, <1>10
<1>13. t[n + 2] = e
  <2>1. n + 2 \in 1 .. n + 2 /\ ~(n + 2 <= n + 1)
    BY <1>1
  <2> QED BY <2>1, <1>10
<1>14. t \in Seq({t[i] : i \in 1 .. n + 2})
  <2>1. t \in [1 .. n + 2 -> S]
    BY <1>8, <1>9, LenProperties
  <2> DEFINE R == {t[i] : i \in 1 .. n + 2}
  <2>2. t \in [1 .. n + 2 -> R]
    BY <2>1
  <2>3. n + 2 \in Nat
    BY <1>1
  <2> HIDE DEF R, t
  <2>4. t \in Seq(R)
    BY <2>2, <2>3
  <2> QED BY <2>4 DEF R
<1> QED BY <1>1, <1>3, <1>9, <1>11, <1>12, <1>13, <1>14 DEF n, b, e

LEMMA TextTransfer ==
  ASSUME NEW x \in Texts
  PROVE  /\ Transfer(x) = <<ClipboardData(x)>> /\ Len(Transfer(x)) = 1
         /\ Transfer(x)[1] = ClipboardData(x)
BY DEF Transfer

\* What the messages are.
Kinds ==
  {MouseDelta} \cup {ClipboardData(x) : x \in Texts} \cup {ClipboardBegin(x) : x \in Images}
    \cup {ClipboardEnd(x) : x \in Images}
    \cup UNION {{ClipboardChunk(k, x) : k \in 1 .. NumChunks[x]} : x \in Images}

LEMMA MessagesAre == Messages = Kinds
<1>1. ASSUME NEW msg \in Messages PROVE msg \in Kinds
  <2>1. CASE msg = MouseDelta
    BY <2>1 DEF Kinds
  <2>2. ASSUME NEW x \in Texts, msg \in Range(Transfer(x)) PROVE msg \in Kinds
    <3>1. Transfer(x) = <<ClipboardData(x)>>
      BY TextTransfer
    <3>2. msg = ClipboardData(x)
      BY <2>2, <3>1 DEF Range
    <3> QED BY <3>2 DEF Kinds
  <2>3. ASSUME NEW x \in Images, msg \in Range(Transfer(x)) PROVE msg \in Kinds
    <3> DEFINE n == NumChunks[x]
    <3>1. DOMAIN Transfer(x) = 1 .. n + 2
      BY ImageTransfer, LenProperties
    <3>2. PICK i \in 1 .. n + 2 : msg = Transfer(x)[i]
      BY <2>3, <3>1 DEF Range
    <3>3. n \in Nat
      BY ImageTransfer
    <3>4. CASE i = 1
      BY <3>2, <3>4, ImageTransfer DEF Kinds
    <3>5. CASE i = n + 2
      BY <3>2, <3>5, ImageTransfer DEF Kinds
    <3>6. CASE i # 1 /\ i # n + 2
      <4> DEFINE k == i - 1
      <4>1. k \in 1 .. n /\ k + 1 = i
        BY <3>3, <3>6
      <4>2. msg = ClipboardChunk(k, x)
        BY <3>2, <4>1, ImageTransfer
      <4> QED BY <4>1, <4>2 DEF Kinds
    <3> QED BY <3>4, <3>5, <3>6
  <2>4. CASE msg # MouseDelta
    <3>1. PICK x \in Contents : msg \in Range(Transfer(x))
      BY <2>4 DEF Messages
    <3>2. CASE x \in Texts
      BY <2>2, <3>1, <3>2
    <3>3. CASE x \in Images
      BY <2>3, <3>1, <3>3
    <3> QED BY <3>2, <3>3 DEF Contents
  <2> QED BY <2>1, <2>4
<1>2. MouseDelta \in Messages
  BY DEF Messages
<1>3. ASSUME NEW x \in Texts PROVE ClipboardData(x) \in Messages
  <2>1. Transfer(x) = <<ClipboardData(x)>>
    BY TextTransfer
  <2>2. ClipboardData(x) \in Range(Transfer(x))
    BY <2>1 DEF Range
  <2> QED BY <2>2 DEF Messages, Contents
<1>4. ASSUME NEW x \in Images
      PROVE  /\ ClipboardBegin(x) \in Messages /\ ClipboardEnd(x) \in Messages
             /\ \A k \in 1 .. NumChunks[x] : ClipboardChunk(k, x) \in Messages
  <2> DEFINE n == NumChunks[x]
  <2>1. DOMAIN Transfer(x) = 1 .. n + 2 /\ n \in Nat
    BY ImageTransfer, LenProperties
  <2>2. \A i \in 1 .. n + 2 : Transfer(x)[i] \in Range(Transfer(x))
    BY <2>1 DEF Range
  <2>3. \A i \in 1 .. n + 2 : Transfer(x)[i] \in Messages
    BY <2>2 DEF Messages, Contents
  <2>4. 1 \in 1 .. n + 2 /\ n + 2 \in 1 .. n + 2 /\ \A k \in 1 .. n : k + 1 \in 1 .. n + 2
    BY <2>1
  <2> HIDE DEF n
  <2>5. Transfer(x)[1] \in Messages /\ Transfer(x)[n + 2] \in Messages
    BY <2>3, <2>4
  <2>6. \A k \in 1 .. n : Transfer(x)[k + 1] \in Messages
    BY <2>3, <2>4
  <2> QED BY <2>5, <2>6, ImageTransfer DEF n
<1> QED BY <1>1, <1>2, <1>3, <1>4 DEF Kinds

LEMMA TransferType ==
  ASSUME NEW x \in Contents
  PROVE  Transfer(x) \in Seq(Messages) /\ Transfer(x) # <<>>
<1>1. CASE x \in Texts
  <2>1. ClipboardData(x) \in Messages
    BY <1>1, MessagesAre DEF Kinds
  <2>2. Transfer(x) = <<ClipboardData(x)>>
    BY <1>1, TextTransfer
  <2> HIDE DEF Transfer
  <2>3. <<ClipboardData(x)>> \in Seq(Messages) /\ <<ClipboardData(x)>> # <<>>
    BY <2>1
  <2> QED BY <2>2, <2>3
<1>2. CASE x \in Images
  <2> DEFINE n == NumChunks[x]
  <2>1. Len(Transfer(x)) = n + 2 /\ n \in Nat /\ Transfer(x) \in Seq({Transfer(x)[i] : i \in 1 .. n + 2})
    BY <1>2, ImageTransfer
  <2>2. DOMAIN Transfer(x) = 1 .. n + 2 /\ Transfer(x) \in [1 .. n + 2 -> {Transfer(x)[i] : i \in 1 .. n + 2}]
    BY <2>1, LenProperties
  <2>6. \A i \in 1 .. n + 2 : Transfer(x)[i] \in Range(Transfer(x))
    BY <2>2 DEF Range
  <2>3. \A i \in 1 .. n + 2 : Transfer(x)[i] \in Messages
    BY <2>6 DEF Messages
  <2>4. Transfer(x) \in [1 .. n + 2 -> Messages]
    BY <2>2, <2>3
  <2>5. Transfer(x) # <<>>
    <3>1. Len(Transfer(x)) # 0
      BY <2>1
    <3> QED BY <3>1, EmptySeq
  <2> QED BY <2>1, <2>4, <2>5
<1> QED BY <1>1, <1>2 DEF Contents

-----------------------------------------------------------------------------
(* One message at the receiver.                                            *)

\* The message is taken without a failure, and if a content comes out, it has
\* its own dimensions.
Clean(msg, s) == LET h == Handle(msg, s) IN ~h.failed /\ h.dims = h.data

After(msg, s) == Handle(msg, s).reassembler

LEMMA HandleInput ==
  ASSUME NEW s
  PROVE  /\ Clean(MouseDelta, s) /\ After(MouseDelta, s) = s
         /\ Handle(MouseDelta, s).data = None
BY DEF Clean, After, Handle, MouseDelta, Pending

LEMMA HandleText ==
  ASSUME NEW s, NEW x
  PROVE  /\ Clean(ClipboardData(x), s) /\ After(ClipboardData(x), s) = s
         /\ Handle(ClipboardData(x), s).data = x
BY DEF Clean, After, Handle, ClipboardData, Pending, Out

LEMMA HandleBegin ==
  ASSUME NEW s, NEW x
  PROVE  /\ Clean(ClipboardBegin(x), s)
         /\ After(ClipboardBegin(x), s) = [dims |-> x, chunks |-> FirstChunks(0, x)]
         /\ Handle(ClipboardBegin(x), s).data = None
<1>1. FirstChunks(0, x) = <<>>
  BY DEF FirstChunks
<1> QED BY <1>1 DEF Clean, After, Handle, ClipboardBegin, Pending, Begin

\* Any chunk leaves the receiver without a result.
LEMMA HandleAnyChunk ==
  ASSUME NEW s, NEW x, NEW k
  PROVE  /\ Clean(ClipboardChunk(k, x), s)
         /\ After(ClipboardChunk(k, x), s) = AddChunk(ClipboardChunk(k, x), s)
         /\ Handle(ClipboardChunk(k, x), s).data = None
BY DEF Clean, After, Handle, ClipboardChunk, Pending

\* A transfer that is under way is told from none by its dimensions.
LEMMA NotNoTransfer ==
  ASSUME NEW x \in Images, NEW q
  PROVE  [dims |-> x, chunks |-> q] # NoTransfer
<1>1. x # None
  BY NoneAssumption DEF Contents
<1>2. [dims |-> x, chunks |-> q].dims = x /\ NoTransfer.dims = None
  BY DEF NoTransfer
<1> QED BY <1>1, <1>2

LEMMA HandleChunk ==
  ASSUME NEW x \in Images, NEW k \in Nat \ {0}
  PROVE  After(ClipboardChunk(k, x), [dims |-> x, chunks |-> FirstChunks(k - 1, x)])
           = [dims |-> x, chunks |-> FirstChunks(k, x)]
<1> DEFINE s == [dims |-> x, chunks |-> FirstChunks(k - 1, x)]
           c == ClipboardChunk(k, x)
<1>1. s # NoTransfer
  BY NotNoTransfer
<1>2. AddChunk(c, s) = [s EXCEPT !.chunks = Append(@, c)]
  BY <1>1 DEF AddChunk
<1>3. AddChunk(c, s) = [dims |-> x, chunks |-> Append(FirstChunks(k - 1, x), c)]
  BY <1>2
<1>4. Append(FirstChunks(k - 1, x), c) = FirstChunks(k, x)
  BY OneMoreChunk
<1> HIDE DEF c
<1>5. AddChunk(c, s) = [dims |-> x, chunks |-> FirstChunks(k, x)]
  BY <1>3, <1>4
<1> QED BY <1>5, HandleAnyChunk DEF c

LEMMA HandleEnd ==
  ASSUME NEW x \in Images
  PROVE  LET s == [dims |-> x, chunks |-> Chunks(x)]
         IN  /\ Clean(ClipboardEnd(x), s) /\ After(ClipboardEnd(x), s) = NoTransfer
             /\ Handle(ClipboardEnd(x), s).data = x
<1> DEFINE s == [dims |-> x, chunks |-> Chunks(x)]
           e == ClipboardEnd(x)
<1>1. s # NoTransfer
  BY NotNoTransfer
<1>2. NumChunks[x] \in Nat
  BY NumChunksAssumption
<1>3. Len(Chunks(x)) = NumChunks[x]
  BY <1>2, FirstChunksLen DEF Chunks, FirstChunks
<1>4. s.chunks = Chunks(x) /\ s.dims = x
  OBVIOUS
<1>5. Matches(s, x)
  BY <1>3, <1>4 DEF Matches
<1>6. Finish(s, x) = Out(NoTransfer, x, x)
  BY <1>4, <1>5 DEF Finish
<1>7. e.type = "ClipboardEnd" /\ e.hash = x
  BY DEF ClipboardEnd
<1> HIDE DEF s, e
<1>8. Handle(e, s) = Finish(s, x)
  BY <1>1, <1>7 DEF Handle
<1>9. /\ Out(NoTransfer, x, x).reassembler = NoTransfer /\ Out(NoTransfer, x, x).dims = x
      /\ Out(NoTransfer, x, x).data = x /\ ~Out(NoTransfer, x, x).failed
  BY DEF Out, Pending
<1>10. Clean(e, s) /\ After(e, s) = NoTransfer /\ Handle(e, s).data = x
  BY <1>6, <1>8, <1>9 DEF Clean, After
<1> QED BY <1>10 DEF e, s

\* The reassembler keeps its type, whatever it is given.
LEMMA AfterType ==
  ASSUME NEW msg \in Messages, NEW s \in Reassemblers
  PROVE  After(msg, s) \in Reassemblers
<1>1. NoTransfer \in Reassemblers
  BY DEF NoTransfer, Reassemblers
<1>2. CASE msg = MouseDelta
  BY <1>2, HandleInput
<1>3. ASSUME NEW x \in Texts, msg = ClipboardData(x) PROVE After(msg, s) \in Reassemblers
  BY <1>3, HandleText
<1>4. ASSUME NEW x \in Images, msg = ClipboardBegin(x) PROVE After(msg, s) \in Reassemblers
  <2>1. FirstChunks(0, x) = <<>>
    BY DEF FirstChunks
  <2>2. After(msg, s) = [dims |-> x, chunks |-> <<>>]
    BY <1>4, <2>1, HandleBegin
  <2> QED BY <2>2 DEF Reassemblers
<1>5. ASSUME NEW x \in Images, NEW k \in 1 .. NumChunks[x], msg = ClipboardChunk(k, x)
      PROVE  After(msg, s) \in Reassemblers
  <2>1. After(msg, s) = AddChunk(msg, s)
    BY <1>5, HandleAnyChunk
  <2>2. s.chunks \in Seq(Messages) /\ Append(s.chunks, msg) \in Seq(Messages)
    BY DEF Reassemblers
  <2>3. [s EXCEPT !.chunks = Append(@, msg)] \in Reassemblers
    BY <2>2 DEF Reassemblers
  <2> QED BY <2>1, <2>3 DEF AddChunk
<1>6. ASSUME NEW x \in Images, msg = ClipboardEnd(x) PROVE After(msg, s) \in Reassemblers
  <2>1. msg.type = "ClipboardEnd"
    BY <1>6 DEF ClipboardEnd
  <2>2. Handle(msg, s) = Failed \/ Handle(msg, s) = Out(NoTransfer, s.dims, msg.hash)
    BY <2>1 DEF Handle, Finish
  <2>3. Failed.reassembler = NoTransfer /\ Out(NoTransfer, s.dims, msg.hash).reassembler = NoTransfer
    BY DEF Failed, Out, Pending
  <2> QED BY <1>1, <2>2, <2>3 DEF After
<1> QED BY <1>2, <1>3, <1>4, <1>5, <1>6, MessagesAre DEF Kinds

\* The message a content comes out with.
Closing(x) == IF x \in Texts THEN ClipboardData(x) ELSE ClipboardEnd(x)

\* What comes out is what the message says; the dimensions are those of some
\* image, or none.
LEMMA ResultType ==
  ASSUME NEW msg \in Messages, NEW s \in Reassemblers
  PROVE  LET h == Handle(msg, s)
         IN  /\ h.dims \in Contents \cup {None} /\ h.data \in Contents \cup {None}
             /\ h.data # None => msg = Closing(h.data)
<1> DEFINE h == Handle(msg, s)
           Goal == /\ h.dims \in Contents \cup {None} /\ h.data \in Contents \cup {None}
                   /\ h.data # None => msg = Closing(h.data)
<1>1. ASSUME h.data = None, Clean(msg, s) PROVE Goal
  BY <1>1 DEF Clean
<1>2. ASSUME msg = MouseDelta PROVE Goal
  BY <1>1, <1>2, HandleInput
<1>3. ASSUME NEW x \in Texts, msg = ClipboardData(x) PROVE Goal
  <2>1. Clean(msg, s) /\ h.data = x
    BY <1>3, HandleText
  <2> QED BY <1>3, <2>1 DEF Clean, Contents, Closing
<1>4. ASSUME NEW x \in Images, msg = ClipboardBegin(x) PROVE Goal
  BY <1>1, <1>4, HandleBegin
<1>5. ASSUME NEW x \in Images, NEW k \in 1 .. NumChunks[x], msg = ClipboardChunk(k, x) PROVE Goal
  BY <1>1, <1>5, HandleAnyChunk
<1>6. ASSUME NEW x \in Images, msg = ClipboardEnd(x) PROVE Goal
  <2>1. msg.type = "ClipboardEnd" /\ msg.hash = x
    BY <1>6 DEF ClipboardEnd
  <2>2. h = Failed \/ h = Out(NoTransfer, s.dims, x)
    BY <2>1 DEF Handle, Finish
  <2>3. /\ Failed.dims = None /\ Failed.data = None
        /\ Out(NoTransfer, s.dims, x).dims = s.dims /\ Out(NoTransfer, s.dims, x).data = x
    BY DEF Failed, Out, Pending
  <2>4. x \in Contents /\ x \notin Texts /\ s.dims \in Contents \cup {None}
    BY ImagesAssumption DEF Contents, Reassemblers
  <2>5. msg = Closing(x)
    BY <1>6, <2>4 DEF Closing
  <2> HIDE DEF h
  <2> QED BY <2>2, <2>3, <2>4, <2>5
<1>7. Goal
  <2> HIDE DEF Goal
  <2> QED BY <1>2, <1>3, <1>4, <1>5, <1>6, MessagesAre DEF Kinds
<1> QED BY <1>7

LEMMA ClosingComesOut ==
  ASSUME NEW x \in Contents, NEW s, Clean(Closing(x), s)
  PROVE  Handle(Closing(x), s).data = x
<1>1. CASE x \in Texts
  <2>1. Closing(x) = ClipboardData(x)
    BY <1>1 DEF Closing
  <2> QED BY <2>1, HandleText
<1>2. CASE x \notin Texts
  <2> DEFINE e == Closing(x)
  <2>1. e = ClipboardEnd(x)
    BY <1>2 DEF Closing
  <2>2. e.type = "ClipboardEnd" /\ e.hash = x
    BY <2>1 DEF ClipboardEnd
  <2> HIDE DEF e
  <2>3. Handle(e, s) = Failed \/ Handle(e, s) = Out(NoTransfer, s.dims, x)
    BY <2>2 DEF Handle, Finish
  <2>4. Failed.failed = TRUE /\ Out(NoTransfer, s.dims, x).data = x
    BY DEF Failed, Out, Pending
  <2>5. ~Handle(e, s).failed
    BY DEF e, Clean
  <2> QED BY <2>3, <2>4, <2>5 DEF e
<1> QED BY <1>1, <1>2

-----------------------------------------------------------------------------
(* The order of the messages in a stream.                                  *)

Opens(msg)  == msg.type \in {"ClipboardData", "ClipboardBegin"}
Closes(msg) == msg.type \in {"ClipboardData", "ClipboardEnd"}

\* Message b comes after a in a transfer, or begins the one after a's.
Follows(a, b) ==
  \/ Closes(a) /\ Opens(b)
  \/ \E x \in Images : a = ClipboardBegin(x) /\ b = ClipboardChunk(1, x)
  \/ \E x \in Images : \E k \in 1 .. NumChunks[x] - 1 :
       a = ClipboardChunk(k, x) /\ b = ClipboardChunk(k + 1, x)
  \/ \E x \in Images : a = ClipboardChunk(NumChunks[x], x) /\ b = ClipboardEnd(x)

\* What is left of the transfers sent, each of them to its end.
InOrder(q) ==
  /\ \A i \in 1 .. Len(q) - 1 : Follows(q[i], q[i + 1])
  /\ q # <<>> => Closes(q[Len(q)])

LEMMA MessageTypes ==
  ASSUME NEW x, NEW k
  PROVE  /\ Opens(ClipboardData(x)) /\ Closes(ClipboardData(x))
         /\ Opens(ClipboardBegin(x)) /\ Closes(ClipboardEnd(x))
         /\ ~Closes(ClipboardBegin(x)) /\ ~Closes(ClipboardChunk(k, x)) /\ ~Closes(MouseDelta)
BY DEF Opens, Closes, ClipboardData, ClipboardBegin, ClipboardEnd, ClipboardChunk, MouseDelta

LEMMA TransferInOrder ==
  ASSUME NEW x \in Contents
  PROVE  InOrder(Transfer(x)) /\ Opens(Transfer(x)[1])
<1>1. CASE x \in Texts
  <2>1. Len(Transfer(x)) = 1 /\ Transfer(x)[1] = ClipboardData(x)
    BY <1>1, TextTransfer
  <2> QED BY <2>1, MessageTypes DEF InOrder
<1>2. CASE x \in Images
  <2> DEFINE n == NumChunks[x]
             q == Transfer(x)
  <2>1. /\ n \in Nat \ {0} /\ Len(q) = n + 2 /\ q[1] = ClipboardBegin(x)
        /\ \A k \in 1 .. n : q[k + 1] = ClipboardChunk(k, x)
        /\ q[n + 2] = ClipboardEnd(x)
    BY <1>2, ImageTransfer
  <2> HIDE DEF q
  <2>2. Closes(q[Len(q)]) /\ Opens(q[1])
    BY <2>1, MessageTypes
  <2>3. ASSUME NEW i \in 1 .. Len(q) - 1 PROVE Follows(q[i], q[i + 1])
    <3>1. CASE i = 1
      <4>1. q[1 + 1] = ClipboardChunk(1, x)
        BY <2>1
      <4> QED BY <1>2, <2>1, <3>1, <4>1 DEF Follows
    <3>2. CASE i = n + 1
      <4>1. q[n + 1] = ClipboardChunk(n, x)
        BY <2>1
      <4>2. i + 1 = n + 2
        BY <2>1, <3>2
      <4> QED BY <1>2, <2>1, <3>2, <4>1, <4>2 DEF Follows
    <3>3. CASE i # 1 /\ i # n + 1
      <4> DEFINE k == i - 1
      <4>1. k \in 1 .. n - 1 /\ k \in 1 .. n /\ k + 1 \in 1 .. n /\ k + 1 = i /\ (k + 1) + 1 = i + 1
        BY <2>1, <3>3
      <4> HIDE DEF k, n
      <4>2. q[i] = ClipboardChunk(k, x)
        BY <2>1, <4>1
      <4>3. q[i + 1] = ClipboardChunk(k + 1, x)
        <5>1. q[(k + 1) + 1] = ClipboardChunk(k + 1, x)
          BY <2>1, <4>1
        <5> QED BY <4>1, <5>1
      <4> QED BY <1>2, <4>1, <4>2, <4>3 DEF Follows, n
    <3> QED BY <3>1, <3>2, <3>3
  <2> QED BY <2>2, <2>3 DEF InOrder, q
<1> QED BY <1>1, <1>2 DEF Contents

LEMMA TailInOrder ==
  ASSUME NEW S, NEW q \in Seq(S), q # <<>>, InOrder(q)
  PROVE  /\ InOrder(Tail(q))
         /\ Tail(q) # <<>> => Follows(Head(q), Head(Tail(q)))
         /\ Tail(q) = <<>> => Closes(Head(q))
<1> DEFINE t == Tail(q)
           n == Len(q)
<1>1. n \in Nat \ {0} /\ Head(q) = q[1]
  BY EmptySeq
<1>2. t \in Seq(S) /\ Len(t) = n - 1 /\ \A i \in 1 .. Len(t) : t[i] = q[i + 1]
  BY HeadTailProperties
<1>3. /\ \A i \in 1 .. n - 1 : Follows(q[i], q[i + 1])
      /\ Closes(q[n])
  BY DEF InOrder
<1> HIDE DEF t, n
<1>4. ASSUME NEW i \in 1 .. Len(t) - 1 PROVE Follows(t[i], t[i + 1])
  <2>1. i \in 1 .. Len(t) /\ i + 1 \in 1 .. Len(t) /\ i + 1 \in 1 .. n - 1
    BY <1>1, <1>2
  <2> QED BY <1>2, <1>3, <2>1
<1>5. CASE t = <<>>
  <2>1. n = 1
    <3>1. Len(t) = 0
      BY <1>5, EmptySeq
    <3> QED BY <1>1, <1>2, <3>1
  <2> QED BY <1>1, <1>3, <1>4, <1>5, <2>1 DEF InOrder, t
<1>6. CASE t # <<>>
  <2>1. Len(t) \in Nat \ {0} /\ Head(t) = t[1]
    BY <1>2, <1>6, EmptySeq
  <2>2. Len(t) \in 1 .. Len(t) /\ Len(t) + 1 = n /\ 1 \in 1 .. Len(t) /\ 1 \in 1 .. n - 1
    BY <1>1, <1>2, <2>1
  <2>3. Closes(t[Len(t)])
    BY <1>2, <1>3, <2>2
  <2>4. Follows(q[1], t[1])
    <3>1. t[1] = q[1 + 1]
      BY <1>2, <2>2
    <3> QED BY <1>3, <2>2, <3>1
  <2> QED BY <1>1, <1>4, <1>6, <2>1, <2>3, <2>4 DEF InOrder, t
<1> QED BY <1>5, <1>6

LEMMA SendInOrder ==
  ASSUME NEW q \in Seq(Messages), InOrder(q), NEW x \in Contents
  PROVE  /\ q \o Transfer(x) \in Seq(Messages) /\ q \o Transfer(x) # <<>>
         /\ InOrder(q \o Transfer(x))
         /\ q = <<>> => Opens(Head(q \o Transfer(x)))
         /\ q # <<>> => Head(q \o Transfer(x)) = Head(q)
<1> DEFINE t == Transfer(x)
           u == q \o t
           m == Len(q)
           n == Len(t)
<1>1. t \in Seq(Messages) /\ t # <<>> /\ InOrder(t) /\ Opens(t[1])
  BY TransferType, TransferInOrder
<1> HIDE DEF t
<1>2. m \in Nat /\ n \in Nat \ {0}
  BY <1>1, EmptySeq, LenProperties
<1>3. /\ u \in Seq(Messages) /\ Len(u) = m + n
      /\ \A i \in 1 .. m + n : u[i] = IF i <= m THEN q[i] ELSE t[i - m]
  BY <1>1, ConcatProperties
<1>4. /\ \A i \in 1 .. m - 1 : Follows(q[i], q[i + 1])
      /\ \A i \in 1 .. n - 1 : Follows(t[i], t[i + 1])
      /\ Closes(t[n]) /\ (q # <<>> => Closes(q[m]))
  BY <1>1 DEF InOrder
<1> HIDE DEF u, m, n
<1>5. u # <<>>
  <2>1. Len(u) # 0
    BY <1>2, <1>3
  <2> QED BY <2>1, EmptySeq
<1>6. Head(u) = u[1]
  BY <1>3, <1>5
<1>7. Closes(u[Len(u)])
  <2>1. m + n \in 1 .. m + n /\ ~(m + n <= m) /\ (m + n) - m = n
    BY <1>2
  <2> QED BY <1>3, <1>4, <2>1
<1>8. CASE q = <<>>
  <2>1. m = 0
    BY <1>8, EmptySeq DEF m
  <2>2. u = t
    BY <1>1, <1>8, ConcatEmptySeq DEF u
  <2> QED BY <1>1, <1>3, <1>5, <1>6, <1>8, <2>2 DEF u, t
<1>9. CASE q # <<>>
  <2>1. m \in Nat \ {0} /\ Head(q) = q[1]
    BY <1>9, EmptySeq DEF m
  <2>2. Head(u) = Head(q)
    <3>1. 1 \in 1 .. m + n /\ 1 <= m
      BY <1>2, <2>1
    <3> QED BY <1>3, <1>6, <2>1, <3>1
  <2>3. ASSUME NEW i \in 1 .. Len(u) - 1 PROVE Follows(u[i], u[i + 1])
    <3>1. i \in 1 .. m + n /\ i + 1 \in 1 .. m + n /\ i \in Nat
      BY <1>2, <1>3
    <3>2. CASE i < m
      <4>1. i \in 1 .. m - 1 /\ i <= m /\ i + 1 <= m
        BY <1>2, <3>1, <3>2
      <4>2. u[i] = q[i] /\ u[i + 1] = q[i + 1]
        BY <1>3, <3>1, <4>1
      <4> QED BY <1>4, <4>1, <4>2
    <3>3. CASE i = m
      <4>1. i <= m /\ ~(i + 1 <= m) /\ (i + 1) - m = 1
        BY <1>2, <3>1, <3>3
      <4>2. u[i] = q[m] /\ u[i + 1] = t[1]
        BY <1>3, <3>1, <3>3, <4>1
      <4> QED BY <1>1, <1>4, <1>9, <4>2 DEF Follows
    <3>4. CASE i > m
      <4> DEFINE j == i - m
      <4>1. ~(i <= m) /\ ~(i + 1 <= m) /\ j \in 1 .. n - 1 /\ (i + 1) - m = j + 1
        BY <1>2, <1>3, <3>1, <3>4
      <4>2. u[i] = t[j] /\ u[i + 1] = t[j + 1]
        BY <1>3, <3>1, <4>1
      <4> QED BY <1>4, <4>1, <4>2
    <3> QED BY <1>2, <3>1, <3>2, <3>3, <3>4
  <2>4. InOrder(u)
    BY <1>5, <1>7, <2>3 DEF InOrder
  <2> QED BY <1>3, <1>5, <1>9, <2>2, <2>4 DEF u, t
<1> QED BY <1>8, <1>9

-----------------------------------------------------------------------------
(* The receiver that is ready for the next message of a stream.            *)

\* A chunk finds the chunks before it, the end finds all of them.
Fits(s, msg) ==
  /\ msg.type = "ClipboardChunk" =>
       \E x \in Images : \E k \in 1 .. NumChunks[x] :
         /\ msg = ClipboardChunk(k, x)
         /\ s = [dims |-> x, chunks |-> FirstChunks(k - 1, x)]
  /\ msg.type = "ClipboardEnd" =>
       \E x \in Images : msg = ClipboardEnd(x) /\ s = [dims |-> x, chunks |-> Chunks(x)]

LEMMA OpeningFits ==
  ASSUME NEW s, NEW msg, Opens(msg)
  PROVE  Fits(s, msg)
BY DEF Opens, Fits

LEMMA FitsIsClean ==
  ASSUME NEW msg \in Messages, NEW s, Fits(s, msg)
  PROVE  Clean(msg, s)
<1>1. CASE msg = MouseDelta
  BY <1>1, HandleInput
<1>2. ASSUME NEW x \in Texts, msg = ClipboardData(x) PROVE Clean(msg, s)
  BY <1>2, HandleText
<1>3. ASSUME NEW x \in Images, msg = ClipboardBegin(x) PROVE Clean(msg, s)
  BY <1>3, HandleBegin
<1>4. ASSUME NEW x \in Images, NEW k \in 1 .. NumChunks[x], msg = ClipboardChunk(k, x) PROVE Clean(msg, s)
  BY <1>4, HandleAnyChunk
<1>5. ASSUME NEW x \in Images, msg = ClipboardEnd(x) PROVE Clean(msg, s)
  <2>1. msg.type = "ClipboardEnd"
    BY <1>5 DEF ClipboardEnd
  <2>2. PICK y \in Images : msg = ClipboardEnd(y) /\ s = [dims |-> y, chunks |-> Chunks(y)]
    BY <2>1 DEF Fits
  <2> QED BY <2>2, HandleEnd
<1> QED BY <1>1, <1>2, <1>3, <1>4, <1>5, MessagesAre DEF Kinds

\* The receiver that was ready for a message is ready for the one after it.
LEMMA FitsNext ==
  ASSUME NEW a \in Messages, NEW b, NEW s, Fits(s, a), Follows(a, b)
  PROVE  Fits(After(a, s), b)
<1>1. CASE Closes(a) /\ Opens(b)
  BY <1>1, OpeningFits
<1>2. ASSUME NEW x \in Images, a = ClipboardBegin(x), b = ClipboardChunk(1, x)
      PROVE  Fits(After(a, s), b)
  <2>1. After(a, s) = [dims |-> x, chunks |-> FirstChunks(0, x)]
    BY <1>2, HandleBegin
  <2>2. 1 \in 1 .. NumChunks[x] /\ 1 - 1 = 0
    BY NumChunksAssumption
  <2>3. b.type = "ClipboardChunk"
    BY <1>2 DEF ClipboardChunk
  <2> QED BY <1>2, <2>1, <2>2, <2>3 DEF Fits
<1>3. ASSUME NEW x \in Images, NEW k \in 1 .. NumChunks[x], a = ClipboardChunk(k, x)
      PROVE  After(a, s) = [dims |-> x, chunks |-> FirstChunks(k, x)]
  <2>1. a.type = "ClipboardChunk" /\ a.seq = k /\ a.data = x
    BY <1>3 DEF ClipboardChunk
  <2>2. PICK y \in Images : \E l \in 1 .. NumChunks[y] :
          a = ClipboardChunk(l, y) /\ s = [dims |-> y, chunks |-> FirstChunks(l - 1, y)]
    BY <2>1 DEF Fits
  <2>3. PICK l \in 1 .. NumChunks[y] :
          a = ClipboardChunk(l, y) /\ s = [dims |-> y, chunks |-> FirstChunks(l - 1, y)]
    BY <2>2
  <2>4. l = k /\ y = x
    BY <2>1, <2>3 DEF ClipboardChunk
  <2>5. k \in Nat \ {0}
    BY NumChunksAssumption
  <2> QED BY <2>3, <2>4, <2>5, HandleChunk
<1>4. ASSUME NEW x \in Images, NEW k \in 1 .. NumChunks[x] - 1,
             a = ClipboardChunk(k, x), b = ClipboardChunk(k + 1, x)
      PROVE  Fits(After(a, s), b)
  <2>1. k \in 1 .. NumChunks[x] /\ k + 1 \in 1 .. NumChunks[x] /\ (k + 1) - 1 = k
    BY NumChunksAssumption
  <2>2. After(a, s) = [dims |-> x, chunks |-> FirstChunks(k, x)]
    BY <1>3, <1>4, <2>1
  <2>3. b.type = "ClipboardChunk"
    BY <1>4 DEF ClipboardChunk
  <2> QED BY <1>4, <2>1, <2>2, <2>3 DEF Fits
<1>5. ASSUME NEW x \in Images, a = ClipboardChunk(NumChunks[x], x), b = ClipboardEnd(x)
      PROVE  Fits(After(a, s), b)
  <2>1. NumChunks[x] \in 1 .. NumChunks[x]
    BY NumChunksAssumption
  <2>2. After(a, s) = [dims |-> x, chunks |-> Chunks(x)]
    BY <1>3, <1>5, <2>1 DEF Chunks, FirstChunks
  <2>3. b.type = "ClipboardEnd"
    BY <1>5 DEF ClipboardEnd
  <2> QED BY <1>5, <2>2, <2>3 DEF Fits
<1> QED BY <1>1, <1>2, <1>4, <1>5 DEF Follows

-----------------------------------------------------------------------------
(* The messages of a ring, one after the other.                            *)

Cleanly ==
  {e \in Messages \X Reassemblers \X Reassemblers : Clean(e[1], e[2]) /\ e[3] = After(e[1], e[2])}

\* The messages of q are all taken cleanly, from s on, and leave t.
Goes(q, s, t) == Run(Reassemblers, Cleanly, q, s, t)

LEMMA GoesNothing ==
  ASSUME NEW s \in Reassemblers
  PROVE  Goes(<<>>, s, s)
BY RunNothing DEF Goes

LEMMA GoesFirst ==
  ASSUME NEW q \in Seq(Messages), q # <<>>, NEW s, NEW t, Goes(q, s, t)
  PROVE  Clean(Head(q), s) /\ Goes(Tail(q), After(Head(q), s), t)
<1>1. PICK m \in Reassemblers :
        <<Head(q), s, m>> \in Cleanly /\ Run(Reassemblers, Cleanly, Tail(q), m, t)
  BY RunFirst DEF Goes
<1> QED BY <1>1 DEF Goes, Cleanly

LEMMA GoesOn ==
  ASSUME NEW q \in Seq(Messages), NEW s, NEW t \in Reassemblers, Goes(q, s, t),
         NEW msg \in Messages, Clean(msg, t)
  PROVE  Goes(Append(q, msg), s, After(msg, t))
<1>1. After(msg, t) \in Reassemblers
  BY AfterType
<1>2. <<msg, t, After(msg, t)>> \in Cleanly
  BY <1>1 DEF Cleanly
<1> QED BY <1>1, <1>2, RunOn DEF Goes

-----------------------------------------------------------------------------
(* What is still to come of what was sent.                                 *)

\* Up to the k-th, the first of these.
LEMMA FirstIs ==
  ASSUME NEW u \in Seq(Contents), NEW k \in 1 .. Len(u)
  PROVE  u[k] \in Range(u) /\ First(u, u[k]) \in 1 .. k /\ u[First(u, u[k])] = u[k]
<1> DEFINE x == u[k]
           All == {i \in 1 .. Len(u) : u[i] = x}
           IsFirst(i) == u[i] = x /\ \A j \in 1 .. i - 1 : u[j] # x
<1>1. DOMAIN u = 1 .. Len(u) /\ Len(u) \in Nat
  BY LenProperties
<1>2. PICK l \in All : \A j \in All : l <= j
  <2>1. All \in SUBSET Nat /\ k \in All
    BY <1>1
  <2> HIDE DEF All
  <2> QED BY <2>1, LeastNumber
<1>3. l \in 1 .. k /\ IsFirst(l)
  BY <1>1, <1>2
<1>4. First(u, x) = CHOOSE i \in 1 .. Len(u) : IsFirst(i)
  BY <1>1 DEF First
<1> HIDE DEF x
<1>5. First(u, x) \in 1 .. Len(u) /\ IsFirst(First(u, x))
  <2>1. l \in 1 .. Len(u)
    BY <1>2
  <2> HIDE DEF IsFirst
  <2> QED BY <1>3, <1>4, <2>1
<1>6. First(u, x) <= k
  <2> SUFFICES ASSUME k < First(u, x) PROVE FALSE
    BY <1>1, <1>5
  <2>1. k \in 1 .. First(u, x) - 1
    BY <1>1, <1>5
  <2> QED BY <1>5, <2>1 DEF x
<1>7. x \in Range(u)
  BY <1>1 DEF Range, x
<1> QED BY <1>1, <1>5, <1>6, <1>7 DEF x

LEMMA SinceIs ==
  ASSUME NEW u \in Seq(Contents), NEW k \in 1 .. Len(u)
  PROVE  LET p == First(u, u[k])
             v == Since(u, u[k])
         IN  /\ v \in Seq(Contents) /\ v = SubSeq(u, p + 1, Len(u)) /\ Len(v) = Len(u) - p
             /\ \A i \in 1 .. Len(v) : v[i] = u[p + i]
<1> DEFINE p == First(u, u[k])
           v == SubSeq(u, p + 1, Len(u))
<1>1. u[k] \in Range(u) /\ p \in 1 .. k
  BY FirstIs
<1>2. Since(u, u[k]) = v
  BY <1>1 DEF Since
<1>3. Len(u) \in Nat /\ \A i \in 1 .. Len(u) : u[i] \in Contents
  BY ElementOfSeq, LenProperties
<1> HIDE DEF p
<1>4. p \in 1 .. Len(u) /\ p + 1 \in Int /\ Len(u) \in Int /\ \A i \in p + 1 .. Len(u) : u[i] \in Contents
  BY <1>1, <1>3
<1>5. /\ v \in Seq(Contents)
      /\ Len(v) = IF p + 1 <= Len(u) THEN Len(u) - (p + 1) + 1 ELSE 0
      /\ \A i \in 1 .. Len(u) - (p + 1) + 1 : v[i] = u[(p + 1) + i - 1]
  BY <1>4, SubSeqProperties
<1> HIDE DEF v
<1>6. Len(v) = Len(u) - p
  BY <1>3, <1>4, <1>5
<1>7. ASSUME NEW i \in 1 .. Len(v) PROVE v[i] = u[p + i]
  <2>1. i \in 1 .. Len(u) - (p + 1) + 1 /\ (p + 1) + i - 1 = p + i
    BY <1>3, <1>4, <1>6
  <2> QED BY <1>5, <2>1
<1> QED BY <1>2, <1>5, <1>6, <1>7 DEF p, v

LEMMA SinceType ==
  ASSUME NEW u \in Seq(Contents), NEW x
  PROVE  Since(u, x) \in Seq(Contents)
<1>1. CASE x \in Range(u)
  <2>1. PICK k \in 1 .. Len(u) : u[k] = x
    BY <1>1, LenProperties DEF Range
  <2> QED BY <2>1, SinceIs
<1>2. CASE x \notin Range(u)
  BY <1>2 DEF Since
<1> QED BY <1>1, <1>2

-----------------------------------------------------------------------------
(* Directions and rings.                                                   *)

LEMMA WayEnds ==
  ASSUME NEW w \in Ways
  PROVE  \E c \in Clients : \/ w = Down(c) /\ Sender(w) = Server /\ Receiver(w) = c
                            \/ w = Up(c) /\ Sender(w) = c /\ Receiver(w) = Server
BY DEF Ways, Down, Up, Sender, Receiver

LEMMA WaysDiffer ==
  ASSUME NEW c \in Clients, NEW d \in Clients
  PROVE  /\ Down(c) \in Ways /\ Up(c) \in Ways /\ Down(c) # Up(d)
         /\ c # d => Down(c) # Down(d) /\ Up(c) # Up(d)
BY ServerAssumption DEF Ways, Down, Up

LEMMA ToClient ==
  ASSUME NEW w \in Ways, NEW c \in Clients, Receiver(w) = c
  PROVE  w = Down(c) /\ Sender(w) = Server
BY WayEnds, ServerAssumption

LEMMA FromServer ==
  ASSUME NEW w \in Ways, Sender(w) = Server
  PROVE  Receiver(w) \in Clients /\ w = Down(Receiver(w))
BY WayEnds, ServerAssumption

LEMMA ReceiverIsMachine ==
  ASSUME NEW w \in Ways
  PROVE  Receiver(w) \in Machines
BY WayEnds DEF Machines

\* What Broadcast does: only to one ring, and as long as this has room, it
\* loses nothing.
LEMMA BroadcastStep ==
  ASSUME TypeOK, NEW m \in Machines, NEW msg \in Messages, Broadcast(m, msg)
  PROVE  /\ ring' \in [Machines -> Seq(Messages)]
         /\ \A n \in Machines : Len(ring'[n]) <= RingCap
         /\ lagged' \in [Machines -> BOOLEAN]
         /\ \A n \in Machines : n # m => ring'[n] = ring[n] /\ lagged'[n] = lagged[n]
         /\ ~lagged'[m] => ~lagged[m] /\ ring'[m] = Append(ring[m], msg)
         /\ \/ ring'[m] = Append(ring[m], msg)
            \/ ring[m] # <<>> /\ ring'[m] = Append(Tail(ring[m]), msg)
<1> DEFINE q == ring[m]
           full == Len(q) = RingCap
<1>1. /\ ring \in [Machines -> Seq(Messages)] /\ lagged \in [Machines -> BOOLEAN]
      /\ q \in Seq(Messages) /\ \A n \in Machines : Len(ring[n]) <= RingCap
  BY DEF TypeOK
<1>2. RingCap \in Nat \ {0} /\ Len(q) \in Nat /\ Len(q) <= RingCap
  BY <1>1, RingCapAssumption, LenProperties
<1>3. /\ ring' = [ring EXCEPT ![m] = Append(IF full THEN Tail(q) ELSE q, msg)]
      /\ lagged' = [lagged EXCEPT ![m] = lagged[m] \/ full]
  BY DEF Broadcast
<1> HIDE DEF q
<1>4. CASE full
  <2>1. q # <<>>
    BY <1>2, <1>4, EmptySeq
  <2>2. Tail(q) \in Seq(Messages) /\ Len(Tail(q)) = Len(q) - 1
    BY <1>1, <2>1, HeadTailProperties
  <2>3. Append(Tail(q), msg) \in Seq(Messages) /\ Len(Append(Tail(q), msg)) = Len(q)
    BY <1>2, <2>2, AppendProperties
  <2>4. ring' = [ring EXCEPT ![m] = Append(Tail(q), msg)] /\ lagged' = [lagged EXCEPT ![m] = TRUE]
    BY <1>3, <1>4
  <2> QED BY <1>1, <1>2, <2>1, <2>3, <2>4 DEF q
<1>5. CASE ~full
  <2>1. Append(q, msg) \in Seq(Messages) /\ Len(Append(q, msg)) = Len(q) + 1
    BY <1>1, AppendProperties
  <2>2. Len(Append(q, msg)) <= RingCap
    BY <1>2, <1>5, <2>1
  <2>3. ring' = [ring EXCEPT ![m] = Append(q, msg)]
    BY <1>3, <1>5
  <2>4. lagged' = lagged
    BY <1>1, <1>3, <1>5, Zenon
  <2> QED BY <1>1, <2>1, <2>2, <2>3, <2>4 DEF q
<1> QED BY <1>4, <1>5

-----------------------------------------------------------------------------
(* Type correctness.                                                       *)

LEMMA NoTransferType == NoTransfer \in Reassemblers
BY DEF NoTransfer, Reassemblers

LEMMA InitTypeOK == Init => TypeOK
<1> SUFFICES ASSUME Init PROVE TypeOK
  OBVIOUS
<1>1. <<>> \in Seq(Messages) /\ Len(<<>>) = 0 /\ 0 <= RingCap
  BY RingCapAssumption
<1>2. <<>> \in Seq(Contents) /\ <<None, None>> \in Results
  BY DEF Results
<1> QED BY <1>1, <1>2, NoTransferType DEF Init, TypeOK

LEMMA NextTypeOK == TypeOK /\ [Next]_vars => TypeOK'
<1> SUFFICES ASSUME TypeOK, [Next]_vars PROVE TypeOK'
  OBVIOUS
<1>1. ASSUME NEW c \in Clients, Connect(c) PROVE TypeOK'
  BY <1>1 DEF Connect, TypeOK, history
<1>2. ASSUME NEW c \in Clients, Disconnect(c) PROVE TypeOK'
  <2>1. <<>> \in Seq(Messages) /\ Len(<<>>) = 0 /\ 0 <= RingCap
    BY RingCapAssumption
  <2>2. stream' \in [Ways -> Seq(Messages)]
    BY <1>2, <2>1 DEF Disconnect, TypeOK
  <2>3. ring' \in [Machines -> Seq(Messages)] /\ \A m \in Machines : Len(ring'[m]) <= RingCap
    BY <1>2, <2>1 DEF Disconnect, Renew, TypeOK
  <2>4. /\ connected' \in [Clients -> BOOLEAN] /\ hears' \in [Ways -> BOOLEAN]
        /\ asm' \in [Machines -> Reassemblers]
    BY <1>2, NoTransferType DEF Disconnect, Renew, TypeOK
  <2>o. owed' \in [Clients -> Seq(Contents)] /\ got' \in [Clients -> Results]
    <3>1. <<>> \in Seq(Contents) /\ <<None, None>> \in Results
      BY DEF Results
    <3>2. owed' = [owed EXCEPT ![c] = <<>>] /\ got' = [got EXCEPT ![c] = <<None, None>>]
      BY <1>2 DEF Disconnect, Renew
    <3> QED BY <3>1, <3>2 DEF TypeOK
  <2>5. /\ lagged' \in [Machines -> BOOLEAN] /\ spoiled' \in [Machines -> BOOLEAN]
        /\ mixed' \in BOOLEAN /\ copies' \in Nat
    BY <1>2 DEF Disconnect, Renew, TypeOK
  <2> QED BY <2>2, <2>3, <2>4, <2>o, <2>5 DEF TypeOK
<1>3. ASSUME NEW c \in Clients, ReadInput(c) PROVE TypeOK'
  <2>1. c \in Machines /\ MouseDelta \in Messages
    BY DEF Machines, Messages
  <2>2. Broadcast(c, MouseDelta)
    BY <1>3 DEF ReadInput
  <2>3. /\ ring' \in [Machines -> Seq(Messages)] /\ lagged' \in [Machines -> BOOLEAN]
        /\ \A m \in Machines : Len(ring'[m]) <= RingCap
    BY <2>1, <2>2, BroadcastStep
  <2> QED BY <1>3, <2>3 DEF ReadInput, TypeOK, wires
<1>4. ASSUME NEW x \in Contents, ServerCopies(x) PROVE TypeOK'
  <2>1. stream' \in [Ways -> Seq(Messages)]
    <3>1. \A w \in Ways : stream[w] \o Transfer(x) \in Seq(Messages) /\ stream[w] \in Seq(Messages)
      BY TransferType, ConcatProperties DEF TypeOK
    <3> QED BY <1>4, <3>1 DEF ServerCopies
  <2>2. owed' \in [Clients -> Seq(Contents)]
    <3>1. \A c \in Clients : owed[c] \in Seq(Contents) /\ Append(owed[c], x) \in Seq(Contents)
      BY AppendProperties DEF TypeOK
    <3> QED BY <1>4, <3>1 DEF ServerCopies
  <2>3. copies' \in Nat
    BY <1>4 DEF ServerCopies, TypeOK
  <2> QED BY <1>4, <2>1, <2>2, <2>3 DEF ServerCopies, TypeOK
<1>5. ASSUME NEW x \in Contents, NEW c \in Clients, ClientCopies(c, x) PROVE TypeOK'
  <2>1. stream' \in [Ways -> Seq(Messages)]
    <3>1. \A w \in Ways : stream[w] \o Transfer(x) \in Seq(Messages) /\ stream[w] \in Seq(Messages)
      BY TransferType, ConcatProperties DEF TypeOK
    <3>2. stream \in [Ways -> Seq(Messages)]
      BY DEF TypeOK
    <3> QED BY <1>5, <3>1, <3>2 DEF ClientCopies
  <2>2. copies' \in Nat
    BY <1>5 DEF ClientCopies, TypeOK
  <2> QED BY <1>5, <2>1, <2>2 DEF ClientCopies, TypeOK
<1>6. ASSUME NEW w \in Ways, Read(w) PROVE TypeOK'
  <2>1. stream[w] \in Seq(Messages) /\ stream[w] # <<>>
    BY <1>6 DEF Read, TypeOK
  <2>2. Head(stream[w]) \in Messages /\ Tail(stream[w]) \in Seq(Messages)
    BY <2>1, HeadTailProperties
  <2>3. Receiver(w) \in Machines
    BY ReceiverIsMachine
  <2>4. Broadcast(Receiver(w), Head(stream[w]))
    BY <1>6 DEF Read
  <2>5. /\ ring' \in [Machines -> Seq(Messages)] /\ lagged' \in [Machines -> BOOLEAN]
        /\ \A m \in Machines : Len(ring'[m]) <= RingCap
    BY <2>2, <2>3, <2>4, BroadcastStep
  <2>6. stream' \in [Ways -> Seq(Messages)]
    BY <1>6, <2>2 DEF Read, TypeOK
  <2>7. mixed' \in BOOLEAN
    BY <1>6 DEF Read
  <2> QED BY <1>6, <2>5, <2>6, <2>7 DEF Read, TypeOK
<1>7. ASSUME NEW w \in Ways, ReadFails(w) PROVE TypeOK'
  BY <1>7 DEF ReadFails, TypeOK, history
<1>8. ASSUME NEW m \in Machines, Receive(m) PROVE TypeOK'
  <2> DEFINE msg == Head(ring[m])
             r == Handle(msg, asm[m])
  <2>1. ring[m] \in Seq(Messages) /\ ring[m] # <<>> /\ asm[m] \in Reassemblers /\ Len(ring[m]) <= RingCap
    BY <1>8 DEF Receive, TypeOK
  <2>2. /\ msg \in Messages /\ Tail(ring[m]) \in Seq(Messages)
        /\ Len(Tail(ring[m])) = Len(ring[m]) - 1 /\ Len(ring[m]) \in Nat
    BY <2>1, HeadTailProperties, LenProperties
  <2>3. After(msg, asm[m]) \in Reassemblers
    BY <2>1, <2>2, AfterType
  <2>4. /\ asm' = [asm EXCEPT ![m] = r.reassembler]
        /\ spoiled' = [spoiled EXCEPT ![m] = spoiled[m] \/ r.failed \/ r.dims # r.data]
        /\ IF m \in Clients /\ r.data # None
           THEN /\ owed' = [owed EXCEPT ![m] = Since(owed[m], r.data)]
                /\ got' = [got EXCEPT ![m] = <<r.dims, r.data>>]
           ELSE UNCHANGED <<owed, got>>
        /\ ring' = [ring EXCEPT ![m] = Tail(ring[m])]
        /\ UNCHANGED <<wires, lagged, mixed, copies>>
    BY <1>8 DEF Receive
  <2>o. r.dims \in Contents \cup {None} /\ r.data \in Contents \cup {None}
    BY <2>1, <2>2, ResultType
  <2> HIDE DEF r
  <2>5. asm' \in [Machines -> Reassemblers]
    BY <2>3, <2>4 DEF TypeOK, After, r
  <2>6. spoiled' \in [Machines -> BOOLEAN]
    BY <2>4 DEF TypeOK
  <2>7. owed' \in [Clients -> Seq(Contents)] /\ got' \in [Clients -> Results]
    <3>1. CASE m \in Clients /\ r.data # None
      <4>1. Since(owed[m], r.data) \in Seq(Contents)
        BY <3>1, SinceType DEF TypeOK
      <4>2. <<r.dims, r.data>> \in Results
        BY <2>o DEF Results
      <4> QED BY <2>4, <3>1, <4>1, <4>2 DEF TypeOK
    <3>2. CASE ~(m \in Clients /\ r.data # None)
      BY <2>4, <3>2 DEF TypeOK
    <3> QED BY <3>1, <3>2
  <2>8. ring' \in [Machines -> Seq(Messages)] /\ \A n \in Machines : Len(ring'[n]) <= RingCap
    <3>1. Len(Tail(ring[m])) <= RingCap
      BY <2>1, <2>2, RingCapAssumption
    <3> QED BY <2>2, <2>4, <3>1 DEF TypeOK
  <2> QED BY <2>4, <2>5, <2>6, <2>7, <2>8 DEF TypeOK, wires
<1>9. CASE UNCHANGED vars
  BY <1>9 DEF vars, wires, history, TypeOK
<1> QED BY <1>1, <1>2, <1>3, <1>4, <1>5, <1>6, <1>7, <1>8, <1>9 DEF Next

\* The state keeps its types and no ring holds more than its capacity.
THEOREM TypeCorrect == Spec => []TypeOK
BY InitTypeOK, NextTypeOK, PTL DEF Spec

-----------------------------------------------------------------------------
(* Transfers come whole.                                                   *)

Undisturbed(m) == ~lagged[m] /\ ~(m = Server /\ mixed)

\* The ring is taken without a failure, and leaves a receiver that is ready
\* for what comes next in the streams.
Ready(m) ==
  \E t \in Reassemblers :
    /\ Goes(ring[m], asm[m], t)
    /\ \A w \in Ways : Receiver(w) = m /\ stream[w] # <<>> => Fits(t, Head(stream[w]))

\* The inductive invariant: streams hold transfers in order, or what is left of
\* them, and every machine that is undisturbed is ready for them.
StreamsInOrder == \A w \in Ways : InOrder(stream[w])
Readiness      == \A m \in Machines : Undisturbed(m) => ~spoiled[m] /\ Ready(m)

\* A machine stays ready when nothing is read, and only an opening message
\* comes to be the next in a stream to it.
LEMMA StaysReady ==
  ASSUME NEW m \in Machines, Ready(m), ring'[m] = ring[m], asm'[m] = asm[m],
         \A w \in Ways : Receiver(w) = m /\ stream'[w] # <<>> =>
           \/ Opens(Head(stream'[w]))
           \/ stream[w] # <<>> /\ Head(stream'[w]) = Head(stream[w])
  PROVE  Ready(m)'
<1>1. PICK t \in Reassemblers :
        /\ Goes(ring[m], asm[m], t)
        /\ \A w \in Ways : Receiver(w) = m /\ stream[w] # <<>> => Fits(t, Head(stream[w]))
  BY DEF Ready
<1>2. Goes(ring'[m], asm'[m], t)
  BY <1>1
<1>3. \A w \in Ways : Receiver(w) = m /\ stream'[w] # <<>> => Fits(t, Head(stream'[w]))
  BY <1>1, OpeningFits
<1> QED BY <1>2, <1>3 DEF Ready

\* Nothing sent to a machine, and nothing in its hands.
LEMMA ReadyAnew ==
  ASSUME NEW m \in Machines, ring'[m] = <<>>, asm'[m] = NoTransfer,
         \A w \in Ways : Receiver(w) = m => stream'[w] = <<>>
  PROVE  Ready(m)'
<1>1. Goes(<<>>, NoTransfer, NoTransfer)
  BY GoesNothing, NoTransferType
<1>2. Goes(ring'[m], asm'[m], NoTransfer)
  BY <1>1
<1> QED BY <1>2, NoTransferType DEF Ready

LEMMA InitReady == Init => StreamsInOrder /\ Readiness
<1> SUFFICES ASSUME Init PROVE StreamsInOrder /\ Readiness
  OBVIOUS
<1>1. InOrder(<<>>)
  BY DEF InOrder
<1>2. StreamsInOrder
  BY <1>1 DEF Init, StreamsInOrder
<1>3. ASSUME NEW m \in Machines PROVE ~spoiled[m] /\ Ready(m)
  <2>1. /\ ring[m] = <<>> /\ asm[m] = NoTransfer /\ ~spoiled[m]
        /\ \A w \in Ways : stream[w] = <<>>
    BY DEF Init
  <2>2. Goes(ring[m], asm[m], NoTransfer)
    BY <2>1, GoesNothing, NoTransferType
  <2> QED BY <2>1, <2>2, NoTransferType DEF Ready
<1> QED BY <1>2, <1>3 DEF Readiness

\* The message that is read first.
LEMMA ReadFirst ==
  ASSUME TypeOK, StreamsInOrder, NEW w \in Ways, Read(w)
  PROVE  /\ stream[w] # <<>> /\ stream[w] \in Seq(Messages)
         /\ Head(stream[w]) \in Messages /\ InOrder(stream'[w])
         /\ stream'[w] = Tail(stream[w])
         /\ stream'[w] # <<>> => Follows(Head(stream[w]), Head(stream'[w]))
         /\ \A v \in Ways : v # w => stream'[v] = stream[v]
         /\ Receiver(w) \in Machines /\ Broadcast(Receiver(w), Head(stream[w]))
         /\ asm' = asm /\ spoiled' = spoiled
         /\ mixed' = (mixed \/ (Receiver(w) = Server /\ \E c \in Clients \ {Sender(w)} : UnderWay(c)))
<1>1. stream[w] # <<>> /\ stream[w] \in Seq(Messages) /\ InOrder(stream[w]) /\ stream \in [Ways -> Seq(Messages)]
  BY DEF Read, TypeOK, StreamsInOrder
<1>2. stream' = [stream EXCEPT ![w] = Tail(stream[w])]
  BY DEF Read
<1>3. stream'[w] = Tail(stream[w]) /\ \A v \in Ways : v # w => stream'[v] = stream[v]
  BY <1>1, <1>2
<1>4. Head(stream[w]) \in Messages
  BY <1>1, HeadTailProperties
<1>5. InOrder(Tail(stream[w])) /\ (Tail(stream[w]) # <<>> => Follows(Head(stream[w]), Head(Tail(stream[w]))))
  BY <1>1, TailInOrder
<1>6. Receiver(w) \in Machines
  BY ReceiverIsMachine
<1> QED BY <1>1, <1>3, <1>4, <1>5, <1>6 DEF Read

\* The one stream that may be in the middle of a transfer is the one read.
LEMMA OthersOpen ==
  ASSUME TypeOK, StreamsInOrder, NEW w \in Ways, Read(w), Undisturbed(Receiver(w))',
         NEW v \in Ways, v # w, Receiver(v) = Receiver(w), stream[v] # <<>>,
         NEW s
  PROVE  Fits(s, Head(stream[v]))
<1>1. PICK c \in Clients : v = Up(c) /\ Sender(v) = c /\ Receiver(v) = Server
  <2>1. PICK c \in Clients : \/ v = Down(c) /\ Receiver(v) = c
                             \/ v = Up(c) /\ Sender(v) = c /\ Receiver(v) = Server
    BY WayEnds
  <2>2. CASE v = Down(c) /\ Receiver(v) = c
    BY <2>2, ToClient
  <2> QED BY <2>1, <2>2
<1>2. c # Sender(w)
  <2>1. PICK d \in Clients : \/ w = Down(d) /\ Receiver(w) = d
                             \/ w = Up(d) /\ Sender(w) = d
    BY WayEnds
  <2> QED BY <1>1, <2>1, ServerAssumption
<1>3. ~mixed'
  BY <1>1 DEF Undisturbed
<1>4. ~UnderWay(c)
  BY <1>1, <1>2, <1>3 DEF Read
<1>5. Head(stream[v]).type \notin {"ClipboardChunk", "ClipboardEnd"}
  BY <1>1, <1>4 DEF UnderWay
<1> QED BY <1>5 DEF Fits

LEMMA ReadKeepsReady ==
  ASSUME TypeOK, StreamsInOrder, Readiness, NEW w \in Ways, Read(w)
  PROVE  Readiness'
<1> DEFINE n == Receiver(w)
           a == Head(stream[w])
<1>1. /\ stream[w] # <<>> /\ a \in Messages /\ n \in Machines /\ Broadcast(n, a)
      /\ stream'[w] # <<>> => Follows(a, Head(stream'[w]))
      /\ \A v \in Ways : v # w => stream'[v] = stream[v]
      /\ asm' = asm /\ spoiled' = spoiled /\ (mixed => mixed')
  BY ReadFirst
<1>2. /\ \A m \in Machines : m # n => ring'[m] = ring[m] /\ lagged'[m] = lagged[m]
      /\ ~lagged'[n] => ~lagged[n] /\ ring'[n] = Append(ring[n], a)
  BY <1>1, BroadcastStep
<1> SUFFICES ASSUME NEW m \in Machines, Undisturbed(m)' PROVE ~spoiled'[m] /\ Ready(m)'
  BY DEF Readiness
<1>3. Undisturbed(m)
  BY <1>1, <1>2 DEF Undisturbed
<1>4. ~spoiled[m] /\ Ready(m)
  BY <1>3 DEF Readiness
<1>5. CASE m # n
  <2>1. \A v \in Ways : Receiver(v) = m => stream'[v] = stream[v]
    BY <1>1, <1>5
  <2> QED BY <1>1, <1>2, <1>4, <1>5, <2>1, StaysReady
<1>6. CASE m = n
  <2>1. ring'[n] = Append(ring[n], a) /\ ring[n] \in Seq(Messages)
    BY <1>1, <1>2, <1>6 DEF Undisturbed, TypeOK
  <2>2. PICK t \in Reassemblers :
          /\ Goes(ring[n], asm[n], t)
          /\ \A v \in Ways : Receiver(v) = n /\ stream[v] # <<>> => Fits(t, Head(stream[v]))
    BY <1>4, <1>6 DEF Ready
  <2>3. Fits(t, a)
    BY <1>1, <2>2
  <2>4. Clean(a, t)
    BY <1>1, <2>3, FitsIsClean
  <2> DEFINE u == After(a, t)
  <2>5. u \in Reassemblers /\ Goes(ring'[n], asm'[n], u)
    BY <1>1, <2>1, <2>2, <2>4, GoesOn, AfterType
  <2> HIDE DEF u
  <2>6. ASSUME NEW v \in Ways, Receiver(v) = n, stream'[v] # <<>> PROVE Fits(u, Head(stream'[v]))
    <3>1. CASE v = w
      BY <1>1, <2>3, <2>6, <3>1, FitsNext DEF u
    <3>2. CASE v # w
      <4>1. stream'[v] = stream[v] /\ Undisturbed(Receiver(w))'
        BY <1>1, <1>6, <3>2
      <4> QED BY <2>6, <3>2, <4>1, OthersOpen
    <3> QED BY <3>1, <3>2
  <2>7. Ready(n)'
    BY <2>5, <2>6 DEF Ready
  <2> QED BY <1>1, <1>4, <1>6, <2>7
<1> QED BY <1>5, <1>6

LEMMA InputKeepsReady ==
  ASSUME TypeOK, Readiness, NEW c \in Clients, ReadInput(c)
  PROVE  Readiness'
<1>1. c \in Machines /\ MouseDelta \in Messages /\ Broadcast(c, MouseDelta)
  BY DEF Machines, Messages, ReadInput
<1>2. /\ \A m \in Machines : m # c => ring'[m] = ring[m] /\ lagged'[m] = lagged[m]
      /\ ~lagged'[c] => ~lagged[c] /\ ring'[c] = Append(ring[c], MouseDelta)
  BY <1>1, BroadcastStep
<1>3. stream' = stream /\ asm' = asm /\ spoiled' = spoiled /\ mixed' = mixed
  BY DEF ReadInput, wires
<1> SUFFICES ASSUME NEW m \in Machines, Undisturbed(m)' PROVE ~spoiled'[m] /\ Ready(m)'
  BY DEF Readiness
<1>4. Undisturbed(m)
  BY <1>2, <1>3 DEF Undisturbed
<1>5. ~spoiled[m] /\ Ready(m)
  BY <1>4 DEF Readiness
<1>6. CASE m # c
  BY <1>2, <1>3, <1>5, <1>6, StaysReady
<1>7. CASE m = c
  <2>1. ring'[c] = Append(ring[c], MouseDelta) /\ ring[c] \in Seq(Messages)
    BY <1>1, <1>2, <1>7 DEF Undisturbed, TypeOK
  <2>2. PICK t \in Reassemblers :
          /\ Goes(ring[c], asm[c], t)
          /\ \A v \in Ways : Receiver(v) = c /\ stream[v] # <<>> => Fits(t, Head(stream[v]))
    BY <1>5, <1>7 DEF Ready
  <2>3. Clean(MouseDelta, t) /\ After(MouseDelta, t) = t
    BY HandleInput
  <2>4. Goes(ring'[c], asm'[c], t)
    BY <1>1, <1>3, <2>1, <2>2, <2>3, GoesOn
  <2>5. Ready(c)'
    BY <1>3, <2>2, <2>4 DEF Ready
  <2> QED BY <1>3, <1>5, <1>7, <2>5
<1> QED BY <1>6, <1>7

LEMMA SendKeepsReady ==
  ASSUME TypeOK, StreamsInOrder, Readiness, NEW x \in Contents,
         \A w \in Ways : stream'[w] = stream[w] \/ stream'[w] = stream[w] \o Transfer(x),
         UNCHANGED <<ring, asm, lagged, mixed, spoiled>>
  PROVE  StreamsInOrder' /\ Readiness'
<1>1. ASSUME NEW w \in Ways
      PROVE  /\ InOrder(stream'[w])
             /\ stream'[w] # <<>> =>
                  \/ Opens(Head(stream'[w]))
                  \/ stream[w] # <<>> /\ Head(stream'[w]) = Head(stream[w])
  <2>1. stream[w] \in Seq(Messages) /\ InOrder(stream[w])
    BY DEF TypeOK, StreamsInOrder
  <2>2. CASE stream'[w] = stream[w]
    BY <2>1, <2>2
  <2>3. CASE stream'[w] = stream[w] \o Transfer(x)
    <3>1. /\ InOrder(stream[w] \o Transfer(x))
          /\ stream[w] = <<>> => Opens(Head(stream[w] \o Transfer(x)))
          /\ stream[w] # <<>> => Head(stream[w] \o Transfer(x)) = Head(stream[w])
      BY <2>1, SendInOrder
    <3> QED BY <2>3, <3>1
  <2> QED BY <2>2, <2>3
<1>2. StreamsInOrder'
  BY <1>1 DEF StreamsInOrder
<1>3. ASSUME NEW m \in Machines, Undisturbed(m)' PROVE ~spoiled'[m] /\ Ready(m)'
  <2>1. Undisturbed(m)
    BY <1>3 DEF Undisturbed
  <2>2. ~spoiled[m] /\ Ready(m)
    BY <2>1 DEF Readiness
  <2>3. Ready(m)'
    BY <1>1, <2>2, StaysReady
  <2> QED BY <2>2, <2>3
<1> QED BY <1>2, <1>3 DEF Readiness

LEMMA ReceiveKeepsReady ==
  ASSUME TypeOK, Readiness, NEW n \in Machines, Receive(n)
  PROVE  /\ Readiness'
         /\ Undisturbed(n) => Clean(Head(ring[n]), asm[n])
<1> DEFINE msg == Head(ring[n])
           r == Handle(msg, asm[n])
<1>1. /\ ring[n] \in Seq(Messages) /\ ring[n] # <<>>
      /\ ring \in [Machines -> Seq(Messages)] /\ asm \in [Machines -> Reassemblers]
      /\ spoiled \in [Machines -> BOOLEAN]
  BY DEF TypeOK, Receive
<1>2. /\ asm' = [asm EXCEPT ![n] = r.reassembler]
      /\ spoiled' = [spoiled EXCEPT ![n] = spoiled[n] \/ r.failed \/ r.dims # r.data]
      /\ ring' = [ring EXCEPT ![n] = Tail(ring[n])]
      /\ stream' = stream /\ lagged' = lagged /\ mixed' = mixed
  BY DEF Receive, wires
<1> HIDE DEF r
<1>3. /\ asm'[n] = r.reassembler /\ ring'[n] = Tail(ring[n])
      /\ spoiled'[n] = (spoiled[n] \/ r.failed \/ r.dims # r.data)
      /\ \A m \in Machines : m # n =>
           asm'[m] = asm[m] /\ ring'[m] = ring[m] /\ spoiled'[m] = spoiled[m]
  BY <1>1, <1>2
<1>4. ASSUME Undisturbed(n) PROVE Clean(msg, asm[n]) /\ ~spoiled'[n] /\ Ready(n)'
  <2>1. ~spoiled[n] /\ Ready(n)
    BY <1>4 DEF Readiness
  <2>2. PICK t \in Reassemblers :
          /\ Goes(ring[n], asm[n], t)
          /\ \A w \in Ways : Receiver(w) = n /\ stream[w] # <<>> => Fits(t, Head(stream[w]))
    BY <2>1 DEF Ready
  <2>3. Clean(msg, asm[n]) /\ Goes(Tail(ring[n]), After(msg, asm[n]), t)
    BY <1>1, <2>2, GoesFirst
  <2>4. ~r.failed /\ r.dims = r.data
    BY <2>3 DEF Clean, r
  <2>5. Goes(ring'[n], asm'[n], t)
    BY <1>3, <2>3 DEF After, r
  <2>6. Ready(n)'
    BY <1>2, <2>2, <2>5 DEF Ready
  <2> QED BY <1>3, <2>1, <2>3, <2>4, <2>6
<1>5. ASSUME NEW m \in Machines, Undisturbed(m)' PROVE ~spoiled'[m] /\ Ready(m)'
  <2>1. Undisturbed(m)
    BY <1>2, <1>5 DEF Undisturbed
  <2>2. CASE m = n
    BY <1>4, <2>1, <2>2
  <2>3. CASE m # n
    <3>1. ~spoiled[m] /\ Ready(m)
      BY <2>1 DEF Readiness
    <3>2. Ready(m)'
      BY <1>2, <1>3, <2>3, <3>1, StaysReady
    <3> QED BY <1>3, <2>3, <3>1, <3>2
  <2> QED BY <2>2, <2>3
<1> QED BY <1>4, <1>5 DEF Readiness

LEMMA DisconnectKeepsReady ==
  ASSUME TypeOK, StreamsInOrder, Readiness, NEW c \in Clients, Disconnect(c)
  PROVE  StreamsInOrder' /\ Readiness'
<1>1. /\ stream \in [Ways -> Seq(Messages)] /\ ring \in [Machines -> Seq(Messages)]
      /\ asm \in [Machines -> Reassemblers]
      /\ lagged \in [Machines -> BOOLEAN] /\ spoiled \in [Machines -> BOOLEAN]
      /\ c \in Machines
  BY DEF TypeOK, Machines
<1>2. /\ stream' = [stream EXCEPT ![Down(c)] = <<>>, ![Up(c)] = <<>>]
      /\ ring' = [ring EXCEPT ![c] = <<>>] /\ asm' = [asm EXCEPT ![c] = NoTransfer]
      /\ lagged' = [lagged EXCEPT ![c] = FALSE] /\ spoiled' = [spoiled EXCEPT ![c] = FALSE]
      /\ mixed' = mixed
  BY DEF Disconnect, Renew
<1>3. /\ stream'[Down(c)] = <<>>
      /\ \A w \in Ways : stream'[w] = stream[w] \/ stream'[w] = <<>>
  BY <1>1, <1>2, WaysDiffer
<1>4. StreamsInOrder'
  <2>1. InOrder(<<>>)
    BY DEF InOrder
  <2> QED BY <1>3, <2>1 DEF StreamsInOrder
<1>5. ASSUME NEW m \in Machines, Undisturbed(m)' PROVE ~spoiled'[m] /\ Ready(m)'
  <2>1. CASE m = c
    <3>1. ring'[c] = <<>> /\ asm'[c] = NoTransfer /\ ~spoiled'[c]
      BY <1>1, <1>2
    <3>2. \A w \in Ways : Receiver(w) = c => stream'[w] = <<>>
      BY <1>3, ToClient
    <3> QED BY <1>1, <2>1, <3>1, <3>2, ReadyAnew
  <2>2. CASE m # c
    <3>1. ring'[m] = ring[m] /\ asm'[m] = asm[m] /\ lagged'[m] = lagged[m] /\ spoiled'[m] = spoiled[m]
      BY <1>1, <1>2, <2>2
    <3>2. Undisturbed(m)
      BY <1>2, <1>5, <3>1 DEF Undisturbed
    <3>3. ~spoiled[m] /\ Ready(m)
      BY <3>2 DEF Readiness
    <3>4. Ready(m)'
      BY <1>3, <3>1, <3>3, StaysReady
    <3> QED BY <3>1, <3>3, <3>4
  <2> QED BY <2>1, <2>2
<1> QED BY <1>4, <1>5 DEF Readiness

LEMMA NextReady == TypeOK /\ StreamsInOrder /\ Readiness /\ [Next]_vars => StreamsInOrder' /\ Readiness'
<1> SUFFICES ASSUME TypeOK, StreamsInOrder, Readiness, [Next]_vars PROVE StreamsInOrder' /\ Readiness'
  OBVIOUS
<1>1. ASSUME UNCHANGED <<stream, ring, asm, lagged, mixed, spoiled>> PROVE StreamsInOrder' /\ Readiness'
  <2>1. \A w \in Ways : stream'[w] = stream[w]
    BY <1>1
  <2> QED BY <1>1, <2>1 DEF StreamsInOrder, Readiness, Undisturbed, Ready
<1>2. ASSUME NEW c \in Clients, Connect(c) PROVE StreamsInOrder' /\ Readiness'
  BY <1>1, <1>2 DEF Connect, history
<1>3. ASSUME NEW c \in Clients, Disconnect(c) PROVE StreamsInOrder' /\ Readiness'
  BY <1>3, DisconnectKeepsReady
<1>4. ASSUME NEW c \in Clients, ReadInput(c) PROVE StreamsInOrder' /\ Readiness'
  BY <1>4, InputKeepsReady DEF StreamsInOrder, ReadInput, wires
<1>5. ASSUME NEW x \in Contents, ServerCopies(x) PROVE StreamsInOrder' /\ Readiness'
  <2>1. \A w \in Ways : stream'[w] = stream[w] \/ stream'[w] = stream[w] \o Transfer(x)
    BY <1>5 DEF ServerCopies
  <2> QED BY <1>5, <2>1, SendKeepsReady DEF ServerCopies
<1>6. ASSUME NEW x \in Contents, NEW c \in Clients, ClientCopies(c, x) PROVE StreamsInOrder' /\ Readiness'
  <2>1. \A w \in Ways : stream'[w] = stream[w] \/ stream'[w] = stream[w] \o Transfer(x)
    BY <1>6 DEF ClientCopies, TypeOK
  <2> QED BY <1>6, <2>1, SendKeepsReady DEF ClientCopies
<1>7. ASSUME NEW w \in Ways, Read(w) PROVE StreamsInOrder' /\ Readiness'
  <2>1. StreamsInOrder'
    BY <1>7, ReadFirst DEF StreamsInOrder
  <2> QED BY <1>7, <2>1, ReadKeepsReady
<1>8. ASSUME NEW w \in Ways, ReadFails(w) PROVE StreamsInOrder' /\ Readiness'
  BY <1>1, <1>8 DEF ReadFails, history
<1>9. ASSUME NEW m \in Machines, Receive(m) PROVE StreamsInOrder' /\ Readiness'
  BY <1>9, ReceiveKeepsReady DEF StreamsInOrder, Receive, wires
<1>10. CASE UNCHANGED vars
  BY <1>1, <1>10 DEF vars, wires, history
<1> QED BY <1>2, <1>3, <1>4, <1>5, <1>6, <1>7, <1>8, <1>9, <1>10 DEF Next

LEMMA ReadyAlways == Spec => [](StreamsInOrder /\ Readiness)
BY InitReady, NextReady, TypeCorrect, PTL DEF Spec

\* Every transfer that comes out is whole and has its own dimensions, for any
\* number of chunks, wherever input comes between them, and wherever
\* connections are cut: unless a ring has lost messages, or two clients'
\* uploads have met in the server's one reassembler.
THEOREM TransfersAreWhole == Spec => []TransfersComeWhole
<1>1. TypeOK /\ Readiness => TransfersComeWhole
  BY DEF TypeOK, Readiness, Undisturbed, TransfersComeWhole
<1> QED BY <1>1, TypeCorrect, ReadyAlways, PTL

-----------------------------------------------------------------------------
(* What is sent comes out: the messages on the way to a client against the *)
(* contents that are owed to it.                                           *)

\* A closing message finds some number of contents come out, and brings it to
\* the place of its own content: the next one, or, if D allows for gaps, a later one.
Accounted(D, u) ==
  {e \in Messages \X (0 .. Len(u)) \X (0 .. Len(u)) :
     IF Closes(e[1]) THEN e[3] - e[2] - 1 \in D /\ e[1] = Closing(u[e[3]]) ELSE e[3] = e[2]}

Gives(D, u, q, i, j) == Run(0 .. Len(u), Accounted(D, u), q, i, j)

\* No gaps, or any.
Spans == {{0}, Nat}

LEMMA AccountedIs ==
  ASSUME NEW D, NEW u \in Seq(Contents), NEW msg, NEW i \in 0 .. Len(u), NEW j \in 0 .. Len(u)
  PROVE  <<msg, i, j>> \in Accounted(D, u) <=>
           /\ msg \in Messages
           /\ Closes(msg) => j - i - 1 \in D /\ msg = Closing(u[j])
           /\ ~Closes(msg) => j = i
BY DEF Accounted

LEMMA ClosingIs ==
  ASSUME NEW x \in Contents
  PROVE  /\ Closing(x) \in Messages /\ Closes(Closing(x))
         /\ \A y \in Contents : Closing(x) = Closing(y) => x = y
<1>1. \A y : /\ ClipboardData(y).type = "ClipboardData" /\ ClipboardData(y).data = y
             /\ ClipboardEnd(y).type = "ClipboardEnd" /\ ClipboardEnd(y).hash = y
  BY DEF ClipboardData, ClipboardEnd
<1>2. ASSUME NEW y \in Contents, Closing(x) = Closing(y) PROVE x = y
  <2> DEFINE a == Closing(x)
             b == Closing(y)
  <2>1. IF x \in Texts THEN a.type = "ClipboardData" /\ a.data = x ELSE a.type = "ClipboardEnd" /\ a.hash = x
    BY <1>1 DEF Closing
  <2>2. IF y \in Texts THEN b.type = "ClipboardData" /\ b.data = y ELSE b.type = "ClipboardEnd" /\ b.hash = y
    BY <1>1 DEF Closing
  <2>3. a = b
    BY <1>2
  <2> HIDE DEF a, b
  <2>4. x \in Texts <=> y \in Texts
    BY <2>1, <2>2, <2>3
  <2> QED BY <2>1, <2>2, <2>3, <2>4
<1>3. Closing(x) \in Messages /\ Closes(Closing(x))
  BY MessagesAre, MessageTypes DEF Closing, Kinds, Contents
<1> QED BY <1>2, <1>3

\* A transfer closes with its last message, and not before.
LEMMA TransferCloses ==
  ASSUME NEW x \in Contents
  PROVE  LET t == Transfer(x)
         IN  /\ t \in Seq(Messages) /\ Len(t) \in Nat \ {0} /\ t[Len(t)] = Closing(x)
             /\ \A i \in 1 .. Len(t) - 1 : ~Closes(t[i])
<1> DEFINE t == Transfer(x)
<1>1. t \in Seq(Messages) /\ t # <<>>
  BY TransferType
<1>2. CASE x \in Texts
  <2>1. Len(t) = 1 /\ t[1] = ClipboardData(x)
    BY <1>2, TextTransfer
  <2> HIDE DEF t
  <2>2. \A i \in 1 .. Len(t) - 1 : FALSE
    BY <2>1
  <2> QED BY <1>1, <1>2, <2>1, <2>2 DEF Closing, t
<1>3. CASE x \notin Texts
  <2> DEFINE n == NumChunks[x]
  <2>1. x \in Images
    BY <1>3 DEF Contents
  <2>2. /\ n \in Nat \ {0} /\ Len(t) = n + 2 /\ t[1] = ClipboardBegin(x)
        /\ \A k \in 1 .. n : t[k + 1] = ClipboardChunk(k, x)
        /\ t[n + 2] = ClipboardEnd(x)
    BY <2>1, ImageTransfer
  <2> HIDE DEF t, n
  <2>3. ASSUME NEW i \in 1 .. Len(t) - 1 PROVE ~Closes(t[i])
    <3>1. CASE i = 1
      BY <2>2, <3>1, MessageTypes
    <3>2. CASE i # 1
      <4>1. i - 1 \in 1 .. n /\ (i - 1) + 1 = i
        BY <2>2, <3>2
      <4>2. t[i] = ClipboardChunk(i - 1, x)
        BY <2>2, <4>1
      <4> QED BY <4>2, MessageTypes
    <3> QED BY <3>1, <3>2
  <2>4. Len(t) \in Nat \ {0} /\ t[Len(t)] = Closing(x)
    BY <1>3, <2>2 DEF Closing
  <2> QED BY <1>1, <2>3, <2>4 DEF t
<1> QED BY <1>2, <1>3

LEMMA GivesEnds ==
  ASSUME NEW D, NEW u, NEW q, Len(q) \in Nat, NEW i, NEW j, Gives(D, u, q, i, j)
  PROVE  i \in 0 .. Len(u) /\ j \in 0 .. Len(u)
BY DEF Gives, Run

\* What is sent next is owed after all that is owed already.
LEMMA GivesTransfer ==
  ASSUME NEW D \in Spans, NEW u \in Seq(Contents), NEW x \in Contents
  PROVE  Gives(D, Append(u, x), Transfer(x), Len(u), Len(u) + 1)
<1> DEFINE t == Transfer(x)
           v == Append(u, x)
           m == Len(u)
           l == Len(t)
           r == [k \in 0 .. l |-> IF k = l THEN m + 1 ELSE m]
<1>1. /\ t \in Seq(Messages) /\ l \in Nat \ {0} /\ t[l] = Closing(x)
      /\ \A i \in 1 .. l - 1 : ~Closes(t[i])
  BY TransferCloses
<1>2. v \in Seq(Contents) /\ Len(v) = m + 1 /\ v[m + 1] = x /\ m \in Nat
  BY AppendProperties, LenProperties
<1>3. 0 \in D
  BY DEF Spans
<1>4. Closes(Closing(x))
  BY ClosingIs
<1> HIDE DEF t, v, m, l
<1>5. \A i \in 1 .. l : t[i] \in Messages
  BY <1>1, ElementOfSeq DEF l
<1>6. r \in [0 .. l -> 0 .. Len(v)] /\ r[0] = m /\ r[l] = m + 1
  BY <1>1, <1>2
<1>7. \A k \in 0 .. l - 1 : k \in 0 .. l /\ r[k] = m
  BY <1>1
<1> HIDE DEF r
<1>8. ASSUME NEW i \in 1 .. l PROVE <<t[i], r[i - 1], r[i]>> \in Accounted(D, v)
  <2>1. r[i - 1] = m /\ m \in 0 .. Len(v) /\ m + 1 \in 0 .. Len(v)
    BY <1>1, <1>2, <1>7
  <2>2. CASE i = l
    <3>1. (m + 1) - m - 1 \in D
      BY <1>2, <1>3
    <3> QED BY <1>1, <1>2, <1>4, <1>5, <1>6, <2>1, <2>2, <3>1, AccountedIs
  <2>3. CASE i # l
    <3>1. i \in 1 .. l - 1 /\ i \in 0 .. l - 1
      BY <1>1, <2>3
    <3>2. ~Closes(t[i]) /\ r[i] = m
      BY <1>1, <1>7, <3>1
    <3> QED BY <1>2, <1>5, <2>1, <3>2, AccountedIs
  <2> QED BY <2>2, <2>3
<1>9. Gives(D, v, t, m, m + 1)
  BY <1>6, <1>8 DEF Gives, Run, l
<1> QED BY <1>9 DEF t, v, m

\* What is owed later, and more gaps, change nothing.
LEMMA GivesMore ==
  ASSUME NEW D \in Spans, NEW E \in Spans, D \subseteq E,
         NEW u \in Seq(Contents), NEW v \in Seq(Contents), Len(u) <= Len(v),
         \A k \in 1 .. Len(u) : v[k] = u[k],
         NEW q, Len(q) \in Nat, NEW i, NEW j, Gives(D, u, q, i, j)
  PROVE  Gives(E, v, q, i, j)
<1> DEFINE S == 0 .. Len(u)
           T == 0 .. Len(v)
           h == [k \in S |-> k]
<1>1. Len(u) \in Nat /\ Len(v) \in Nat /\ D \subseteq Nat
  BY LenProperties DEF Spans
<1>2. i \in S /\ j \in S
  BY GivesEnds
<1>3. h \in [S -> T] /\ h[i] = i /\ h[j] = j /\ \A k \in S : h[k] = k
  BY <1>1, <1>2
<1>4. ASSUME NEW msg, NEW a \in S, NEW b \in S, <<msg, a, b>> \in Accounted(D, u)
      PROVE  <<msg, a, b>> \in Accounted(E, v)
  <2>1. /\ msg \in Messages
        /\ Closes(msg) => b - a - 1 \in D /\ msg = Closing(u[b])
        /\ ~Closes(msg) => b = a
    BY <1>4, AccountedIs
  <2>2. a \in T /\ b \in T
    BY <1>1
  <2>3. ASSUME Closes(msg) PROVE b - a - 1 \in E /\ msg = Closing(v[b])
    <3>1. b - a - 1 \in D /\ b - a - 1 \in Nat
      BY <1>1, <2>1, <2>3
    <3>2. b \in 1 .. Len(u)
      BY <1>1, <3>1
    <3> QED BY <2>1, <2>3, <3>1, <3>2
  <2> QED BY <2>1, <2>2, <2>3, AccountedIs
<1> HIDE DEF h, S, T
<1>5. \A msg : \A a \in S : \A b \in S :
        <<msg, a, b>> \in Accounted(D, u) => <<msg, h[a], h[b]>> \in Accounted(E, v)
  BY <1>3, <1>4
<1>6. Run(S, Accounted(D, u), q, i, j)
  BY DEF Gives, S
<1>7. Run(T, Accounted(E, v), q, h[i], h[j])
  BY <1>3, <1>5, <1>6, RunInto
<1> QED BY <1>3, <1>7 DEF Gives, T

\* Numbers count from what has come out.
LEMMA GivesLater ==
  ASSUME NEW D \in Spans, NEW u \in Seq(Contents), NEW v \in Seq(Contents),
         NEW p \in 0 .. Len(u), Len(v) = Len(u) - p, \A k \in 1 .. Len(v) : v[k] = u[p + k],
         NEW q, Len(q) \in Nat, NEW i, p <= i, NEW j, Gives(D, u, q, i, j)
  PROVE  p <= j /\ Gives(D, v, q, i - p, j - p)
<1> DEFINE S == 0 .. Len(u)
           P == p .. Len(u)
           T == 0 .. Len(v)
           h == [k \in P |-> k - p]
<1>1. Len(u) \in Nat /\ Len(v) \in Nat /\ D \subseteq Nat /\ p \in Nat
  BY LenProperties DEF Spans
<1>2. i \in S /\ j \in S /\ i \in P
  BY <1>1, GivesEnds
<1>3. ASSUME NEW msg, NEW a \in P, NEW b \in S, <<msg, a, b>> \in Accounted(D, u)
      PROVE  /\ b \in P /\ msg \in Messages
             /\ Closes(msg) => b \in p + 1 .. Len(u) /\ b - a - 1 \in D /\ msg = Closing(u[b])
             /\ ~Closes(msg) => b = a
  <2>1. a \in 0 .. Len(u) /\ b \in 0 .. Len(u) /\ <<msg, a, b>> \in Accounted(D, u)
    BY <1>1, <1>3
  <2>2. /\ msg \in Messages
        /\ Closes(msg) => b - a - 1 \in D /\ msg = Closing(u[b])
        /\ ~Closes(msg) => b = a
    BY <2>1 DEF Accounted
  <2>3. CASE Closes(msg)
    <3>1. b - a - 1 \in Nat
      BY <1>1, <2>2, <2>3
    <3>2. b \in p + 1 .. Len(u) /\ b \in P
      BY <1>1, <3>1
    <3> QED BY <2>2, <2>3, <3>2
  <2>4. CASE ~Closes(msg)
    BY <2>2, <2>4
  <2> QED BY <2>3, <2>4
<1>4. ASSUME NEW msg, NEW a \in P, NEW b \in P, <<msg, a, b>> \in Accounted(D, u)
      PROVE  <<msg, a - p, b - p>> \in Accounted(D, v)
  <2>1. b \in S
    BY <1>1
  <2>2. /\ msg \in Messages
        /\ Closes(msg) => b \in p + 1 .. Len(u) /\ b - a - 1 \in D /\ msg = Closing(u[b])
        /\ ~Closes(msg) => b = a
    BY <1>3, <1>4, <2>1
  <2>3. a - p \in T /\ b - p \in T /\ (b - p) - (a - p) - 1 = b - a - 1
    BY <1>1
  <2>4. ASSUME Closes(msg) PROVE msg = Closing(v[b - p])
    <3>1. b - p \in 1 .. Len(v) /\ p + (b - p) = b
      BY <1>1, <2>2, <2>4
    <3>2. v[b - p] = u[p + (b - p)]
      BY <3>1
    <3> QED BY <2>2, <2>4, <3>1, <3>2
  <2>5. Closes(msg) => (b - p) - (a - p) - 1 \in D
    BY <2>2, <2>3
  <2> QED BY <2>2, <2>3, <2>4, <2>5, AccountedIs
<1>5. P \in SUBSET S /\ h \in [P -> T] /\ \A k \in P : h[k] = k - p
  BY <1>1
<1> HIDE DEF h, S, T, P
<1>6. Run(S, Accounted(D, u), q, i, j)
  BY DEF Gives, S
<1>7. \A msg : \A a \in P : \A b \in S : <<msg, a, b>> \in Accounted(D, u) => b \in P
  BY <1>3
<1>8. Run(P, Accounted(D, u), q, i, j)
  BY <1>2, <1>5, <1>6, <1>7, RunWithin
<1>9. j \in P
  BY <1>8 DEF Run
<1>10. \A msg : \A a \in P : \A b \in P :
         <<msg, a, b>> \in Accounted(D, u) => <<msg, h[a], h[b]>> \in Accounted(D, v)
  BY <1>4, <1>5
<1>11. Run(T, Accounted(D, v), q, h[i], h[j])
  BY <1>5, <1>8, <1>10, RunInto
<1>12. p <= j
  BY <1>1, <1>9 DEF P
<1> QED BY <1>2, <1>5, <1>9, <1>11, <1>12 DEF Gives, T

-----------------------------------------------------------------------------
(* What is owed, against what is in a ring (q) and in the stream to it (s). *)

Comes(D, u, q, s) ==
  \E i \in D : \E j \in 0 .. Len(u) : Gives(D, u, q, i, j) /\ Gives(D, u, s, j, Len(u))

LEMMA ComesNothing ==
  ASSUME NEW D \in Spans
  PROVE  Comes(D, <<>>, <<>>, <<>>)
<1>1. Len(<<>>) = 0 /\ 0 \in 0 .. 0 /\ 0 \in D
  BY DEF Spans
<1>2. Gives(D, <<>>, <<>>, 0, 0)
  BY <1>1, RunNothing DEF Gives
<1> QED BY <1>1, <1>2 DEF Comes

LEMMA ComesMore ==
  ASSUME NEW D \in Spans, NEW E \in Spans, D \subseteq E, NEW u \in Seq(Contents),
         NEW q \in Seq(Messages), NEW s \in Seq(Messages), Comes(D, u, q, s)
  PROVE  Comes(E, u, q, s)
<1>1. PICK i \in D, j \in 0 .. Len(u) : Gives(D, u, q, i, j) /\ Gives(D, u, s, j, Len(u))
  BY DEF Comes
<1>2. Len(u) <= Len(u) /\ Len(q) \in Nat /\ Len(s) \in Nat
  BY LenProperties
<1>3. Gives(E, u, q, i, j) /\ Gives(E, u, s, j, Len(u))
  BY <1>1, <1>2, GivesMore
<1> QED BY <1>1, <1>3 DEF Comes

LEMMA ComesSent ==
  ASSUME NEW D \in Spans, NEW u \in Seq(Contents), NEW x \in Contents,
         NEW q \in Seq(Messages), NEW s \in Seq(Messages), Comes(D, u, q, s)
  PROVE  Comes(D, Append(u, x), q, s \o Transfer(x))
<1> DEFINE v == Append(u, x)
           n == Len(u)
<1>1. PICK i \in D, j \in 0 .. n : Gives(D, u, q, i, j) /\ Gives(D, u, s, j, n)
  BY DEF Comes
<1>2. /\ v \in Seq(Contents) /\ Len(v) = n + 1 /\ n \in Nat /\ Len(q) \in Nat /\ Len(s) \in Nat
      /\ \A k \in 1 .. n : v[k] = u[k]
  BY AppendProperties, LenProperties
<1>3. Transfer(x) \in Seq(Messages)
  BY TransferType
<1>4. Gives(D, v, Transfer(x), n, n + 1)
  BY GivesTransfer
<1> HIDE DEF v
<1>5. n <= Len(v)
  BY <1>2
<1>6. Gives(D, v, q, i, j) /\ Gives(D, v, s, j, n)
  BY <1>1, <1>2, <1>5, GivesMore
<1> HIDE DEF n
<1>7. Gives(D, v, s \o Transfer(x), j, Len(v))
  BY <1>2, <1>3, <1>4, <1>6, RunConcat DEF Gives
<1>8. j \in 0 .. Len(v)
  BY <1>2
<1>9. Comes(D, v, q, s \o Transfer(x))
  BY <1>6, <1>7, <1>8 DEF Comes
<1> QED BY <1>9 DEF v

LEMMA ComesRead ==
  ASSUME NEW D \in Spans, NEW u \in Seq(Contents),
         NEW q \in Seq(Messages), NEW s \in Seq(Messages), s # <<>>, Comes(D, u, q, s)
  PROVE  Comes(D, u, Append(q, Head(s)), Tail(s))
<1>1. PICK i \in D, j \in 0 .. Len(u) : Gives(D, u, q, i, j) /\ Gives(D, u, s, j, Len(u))
  BY DEF Comes
<1>2. PICK k \in 0 .. Len(u) :
        <<Head(s), j, k>> \in Accounted(D, u) /\ Run(0 .. Len(u), Accounted(D, u), Tail(s), k, Len(u))
  BY <1>1, RunFirst DEF Gives
<1>3. Head(s) \in Messages
  BY HeadTailProperties
<1>4. Gives(D, u, Append(q, Head(s)), i, k)
  BY <1>1, <1>2, <1>3, RunOn DEF Gives
<1> QED BY <1>2, <1>4 DEF Comes, Gives

LEMMA ComesInput ==
  ASSUME NEW D \in Spans, NEW u \in Seq(Contents), NEW msg \in Messages, ~Closes(msg),
         NEW q \in Seq(Messages), NEW s \in Seq(Messages), Comes(D, u, q, s)
  PROVE  Comes(D, u, Append(q, msg), s)
<1>1. PICK i \in D, j \in 0 .. Len(u) : Gives(D, u, q, i, j) /\ Gives(D, u, s, j, Len(u))
  BY DEF Comes
<1>2. <<msg, j, j>> \in Accounted(D, u)
  BY DEF Accounted
<1>3. Gives(D, u, Append(q, msg), i, j)
  BY <1>1, <1>2, RunOn DEF Gives
<1> QED BY <1>1, <1>3 DEF Comes

\* If what is first in the ring is dropped, there may be a gap.
LEMMA ComesDropped ==
  ASSUME NEW D \in Spans, NEW u \in Seq(Contents),
         NEW q \in Seq(Messages), q # <<>>, NEW s \in Seq(Messages), Comes(D, u, q, s)
  PROVE  Comes(Nat, u, Tail(q), s)
<1>1. Nat \in Spans /\ D \subseteq Nat
  BY DEF Spans
<1>2. PICK i \in Nat, j \in 0 .. Len(u) : Gives(Nat, u, q, i, j) /\ Gives(Nat, u, s, j, Len(u))
  BY <1>1, ComesMore DEF Comes
<1>3. PICK k \in 0 .. Len(u) : Run(0 .. Len(u), Accounted(Nat, u), Tail(q), k, j)
  BY <1>2, RunFirst DEF Gives
<1>4. k \in Nat
  OBVIOUS
<1> QED BY <1>2, <1>3, <1>4 DEF Comes, Gives

\* A message that is first in the ring, and does not close a transfer.
LEMMA ComesOn ==
  ASSUME NEW D \in Spans, NEW u \in Seq(Contents),
         NEW q \in Seq(Messages), q # <<>>, ~Closes(Head(q)), NEW s \in Seq(Messages), Comes(D, u, q, s)
  PROVE  Comes(D, u, Tail(q), s)
<1>1. PICK i \in D, j \in 0 .. Len(u) : Gives(D, u, q, i, j) /\ Gives(D, u, s, j, Len(u))
  BY DEF Comes
<1>2. PICK k \in 0 .. Len(u) :
        <<Head(q), i, k>> \in Accounted(D, u) /\ Run(0 .. Len(u), Accounted(D, u), Tail(q), k, j)
  BY <1>1, RunFirst DEF Gives
<1>3. k = i
  BY <1>2 DEF Accounted
<1> QED BY <1>1, <1>2, <1>3 DEF Comes, Gives

\* And one that does: it is that of a content which is owed, of the next one if
\* there are no gaps.
LEMMA ComesOut ==
  ASSUME NEW D \in Spans, NEW u \in Seq(Contents),
         NEW q \in Seq(Messages), q # <<>>, Closes(Head(q)), NEW s \in Seq(Messages), Comes(D, u, q, s)
  PROVE  \E k \in 1 .. Len(u) :
           /\ Head(q) = Closing(u[k]) /\ (D = {0} => k = 1)
           /\ Comes(D, Since(u, u[k]), Tail(q), s)
<1>1. PICK i \in D, j \in 0 .. Len(u) : Gives(D, u, q, i, j) /\ Gives(D, u, s, j, Len(u))
  BY DEF Comes
<1>2. PICK k \in 0 .. Len(u) :
        <<Head(q), i, k>> \in Accounted(D, u) /\ Run(0 .. Len(u), Accounted(D, u), Tail(q), k, j)
  BY <1>1, RunFirst DEF Gives
<1>3. k - i - 1 \in D /\ Head(q) = Closing(u[k])
  BY <1>2 DEF Accounted
<1>4. Len(u) \in Nat /\ D \subseteq Nat
  BY LenProperties DEF Spans
<1>5. k \in 1 .. Len(u) /\ (D = {0} => k = 1 /\ i = 0)
  BY <1>1, <1>3, <1>4
<1> DEFINE p == First(u, u[k])
           v == Since(u, u[k])
           r == Tail(q)
<1>6. p \in 1 .. k
  BY <1>5, FirstIs
<1>7. v \in Seq(Contents) /\ Len(v) = Len(u) - p /\ \A a \in 1 .. Len(v) : v[a] = u[p + a]
  BY <1>5, SinceIs
<1>8. r \in Seq(Messages) /\ Len(r) \in Nat /\ Len(s) \in Nat
  BY HeadTailProperties, LenProperties
<1>9. Gives(D, u, r, k, j)
  BY <1>2 DEF Gives
<1> HIDE DEF p, v, r
<1>10. p \in 0 .. Len(u) /\ p <= k
  BY <1>4, <1>6
<1>11. p <= j /\ Gives(D, v, r, k - p, j - p)
  BY <1>7, <1>8, <1>9, <1>10, GivesLater
<1>12. Gives(D, v, s, j - p, Len(u) - p)
  BY <1>1, <1>7, <1>8, <1>10, <1>11, GivesLater
<1>13. k - p \in D
  BY <1>4, <1>5, <1>6 DEF Spans
<1>14. j - p \in 0 .. Len(v)
  BY <1>4, <1>7, <1>10, <1>11
<1>15. Comes(D, v, r, s)
  BY <1>7, <1>11, <1>12, <1>13, <1>14 DEF Comes
<1> QED BY <1>3, <1>5, <1>15 DEF v, r

-----------------------------------------------------------------------------
(* What is owed to a client is on its way to it, without a gap unless its  *)
(* ring has dropped messages.  With this the invariant of the refinement.  *)

Gaps(c)     == IF lagged[c] THEN Nat ELSE {0}
OnItsWay(c) == Comes(Gaps(c), owed[c], ring[c], stream[Down(c)])

OwedIsOnItsWay == \A c \in Clients : OnItsWay(c)
NothingUnasked == \A c \in Clients : ~connected[c] => stream[Down(c)] = <<>>

LEMMA ClientTypes ==
  ASSUME TypeOK, NEW c \in Clients
  PROVE  /\ Gaps(c) \in Spans /\ owed[c] \in Seq(Contents) /\ ring[c] \in Seq(Messages)
         /\ stream[Down(c)] \in Seq(Messages) /\ asm[c] \in Reassemblers
         /\ c \in Machines /\ Down(c) \in Ways
<1>1. c \in Machines /\ Down(c) \in Ways
  BY WaysDiffer DEF Machines
<1> QED BY <1>1 DEF TypeOK, Gaps, Spans

\* Whatever a broadcast drops, it keeps to what is owed: with what it adds.
LEMMA BroadcastComes ==
  ASSUME TypeOK, NEW c \in Clients, NEW msg \in Messages, Broadcast(c, msg), NEW s \in Seq(Messages),
         Comes(Gaps(c), owed[c], Append(ring[c], msg), s)
  PROVE  Comes(Gaps(c)', owed[c], ring'[c], s)
<1> DEFINE q == ring[c]
           p == Append(q, msg)
<1>1. /\ Gaps(c) \in Spans /\ owed[c] \in Seq(Contents) /\ q \in Seq(Messages) /\ c \in Machines
  BY ClientTypes
<1>2. /\ ~lagged'[c] => ~lagged[c] /\ ring'[c] = p
      /\ ring'[c] = p \/ (q # <<>> /\ ring'[c] = Append(Tail(q), msg))
  BY <1>1, BroadcastStep
<1>3. p \in Seq(Messages) /\ p # <<>> /\ (q # <<>> => Tail(p) = Append(Tail(q), msg))
  BY <1>1, AppendProperties, HeadTailAppend
<1>4. /\ Gaps(c)' \in Spans /\ Gaps(c) \subseteq Gaps(c)'
      /\ lagged'[c] => Gaps(c)' = Nat
  BY <1>2 DEF Gaps, Spans
<1> HIDE DEF p, q
<1>5. Comes(Gaps(c), owed[c], p, s)
  BY DEF p, q
<1>6. CASE ring'[c] = p
  BY <1>1, <1>3, <1>4, <1>5, <1>6, ComesMore
<1>7. CASE ring'[c] # p
  <2>1. ring'[c] = Tail(p) /\ Gaps(c)' = Nat
    BY <1>2, <1>3, <1>4, <1>7
  <2> QED BY <1>1, <1>3, <1>5, <2>1, ComesDropped
<1> QED BY <1>6, <1>7

LEMMA ReadIsOnItsWay ==
  ASSUME TypeOK, StreamsInOrder, NEW w \in Ways, Read(w), NEW c \in Clients, OnItsWay(c)
  PROVE  OnItsWay(c)'
<1> DEFINE s == stream[w]
<1>1. /\ s # <<>> /\ Head(s) \in Messages /\ stream'[w] = Tail(s)
      /\ \A v \in Ways : v # w => stream'[v] = stream[v]
      /\ Receiver(w) \in Machines /\ Broadcast(Receiver(w), Head(s))
  BY ReadFirst
<1>2. owed' = owed
  BY DEF Read
<1>3. /\ Gaps(c) \in Spans /\ owed[c] \in Seq(Contents) /\ ring[c] \in Seq(Messages)
      /\ stream[Down(c)] \in Seq(Messages) /\ c \in Machines /\ Down(c) \in Ways
  BY ClientTypes
<1>4. CASE Receiver(w) = c
  <2>1. w = Down(c)
    BY <1>4, ToClient
  <2>2. Comes(Gaps(c), owed[c], Append(ring[c], Head(s)), Tail(s))
    BY <1>1, <1>3, <2>1, ComesRead DEF OnItsWay
  <2>3. Tail(s) \in Seq(Messages) /\ Broadcast(c, Head(s))
    BY <1>1, <1>3, <1>4, <2>1, HeadTailProperties
  <2> HIDE DEF s
  <2>4. Comes(Gaps(c)', owed[c], ring'[c], Tail(s))
    BY <1>1, <2>2, <2>3, BroadcastComes
  <2> QED BY <1>1, <1>2, <2>1, <2>4 DEF OnItsWay
<1>5. CASE Receiver(w) # c
  <2>1. ring'[c] = ring[c] /\ lagged'[c] = lagged[c]
    BY <1>1, <1>3, <1>5, BroadcastStep
  <2>2. w # Down(c)
    BY <1>5 DEF Down, Receiver
  <2>3. stream'[Down(c)] = stream[Down(c)] /\ Gaps(c)' = Gaps(c)
    BY <1>1, <1>3, <2>1, <2>2 DEF Gaps
  <2> QED BY <1>2, <2>1, <2>3 DEF OnItsWay
<1> QED BY <1>4, <1>5

LEMMA InputIsOnItsWay ==
  ASSUME TypeOK, NEW d \in Clients, ReadInput(d), NEW c \in Clients, OnItsWay(c)
  PROVE  OnItsWay(c)'
<1>1. Broadcast(d, MouseDelta) /\ stream' = stream /\ owed' = owed
  BY DEF ReadInput, wires
<1>2. MouseDelta \in Messages /\ ~Closes(MouseDelta)
  BY MessageTypes DEF Messages
<1>3. /\ Gaps(c) \in Spans /\ owed[c] \in Seq(Contents) /\ ring[c] \in Seq(Messages)
      /\ stream[Down(c)] \in Seq(Messages) /\ c \in Machines /\ d \in Machines
  BY ClientTypes
<1>4. CASE d = c
  <2>1. Comes(Gaps(c), owed[c], Append(ring[c], MouseDelta), stream[Down(c)])
    BY <1>2, <1>3, ComesInput DEF OnItsWay
  <2>2. Comes(Gaps(c)', owed[c], ring'[c], stream[Down(c)])
    BY <1>1, <1>2, <1>3, <1>4, <2>1, BroadcastComes
  <2> QED BY <1>1, <2>2 DEF OnItsWay
<1>5. CASE d # c
  <2>1. ring'[c] = ring[c] /\ Gaps(c)' = Gaps(c)
    BY <1>1, <1>2, <1>3, <1>5, BroadcastStep DEF Gaps
  <2> QED BY <1>1, <2>1 DEF OnItsWay
<1> QED BY <1>4, <1>5

LEMMA SendIsOnItsWay ==
  ASSUME TypeOK, NEW x \in Contents, ServerCopies(x), NEW c \in Clients, OnItsWay(c)
  PROVE  OnItsWay(c)'
<1>1. /\ Gaps(c) \in Spans /\ owed[c] \in Seq(Contents) /\ ring[c] \in Seq(Messages)
      /\ stream[Down(c)] \in Seq(Messages) /\ Down(c) \in Ways
  BY ClientTypes
<1>2. Sender(Down(c)) = Server /\ Receiver(Down(c)) = c
  BY DEF Down, Sender, Receiver
<1>3. /\ stream'[Down(c)] = IF connected[c] THEN stream[Down(c)] \o Transfer(x) ELSE stream[Down(c)]
      /\ owed'[c] = IF connected[c] THEN Append(owed[c], x) ELSE owed[c]
      /\ ring' = ring /\ lagged' = lagged
  BY <1>1, <1>2 DEF ServerCopies
<1>4. Gaps(c)' = Gaps(c)
  BY <1>3 DEF Gaps
<1>5. CASE connected[c]
  <2>1. Comes(Gaps(c), Append(owed[c], x), ring[c], stream[Down(c)] \o Transfer(x))
    BY <1>1, ComesSent DEF OnItsWay
  <2> QED BY <1>3, <1>4, <1>5, <2>1 DEF OnItsWay
<1>6. CASE ~connected[c]
  BY <1>3, <1>4, <1>6 DEF OnItsWay
<1> QED BY <1>5, <1>6

\* What a client takes from its ring: nothing that was owed; or the next that
\* was, with its own dimensions, if the ring has dropped nothing; or a later one.
LEMMA ReceiveComes ==
  ASSUME TypeOK, Readiness, NEW c \in Clients, Receive(c), OnItsWay(c)
  PROVE  LET r == Handle(Head(ring[c]), asm[c])
             u == owed[c]
         IN  \/ r.data = None /\ Comes(Gaps(c), u, Tail(ring[c]), stream[Down(c)])
             \/ \E k \in 1 .. Len(u) :
                  /\ r.data = u[k] /\ r.data # None
                  /\ ~lagged[c] => k = 1 /\ r.dims = r.data
                  /\ Comes(Gaps(c), Since(u, r.data), Tail(ring[c]), stream[Down(c)])
<1> DEFINE q == ring[c]
           msg == Head(q)
           s == stream[Down(c)]
           u == owed[c]
           r == Handle(msg, asm[c])
           D == Gaps(c)
<1>1. /\ D \in Spans /\ u \in Seq(Contents) /\ q \in Seq(Messages) /\ s \in Seq(Messages)
      /\ asm[c] \in Reassemblers /\ c \in Machines
  BY ClientTypes
<1>2. q # <<>> /\ Comes(D, u, q, s)
  BY DEF Receive, OnItsWay
<1>3. msg \in Messages
  BY <1>1, <1>2, HeadTailProperties
<1>4. ~lagged[c] => D = {0} /\ Clean(msg, asm[c])
  BY <1>1, ReceiveKeepsReady, ServerAssumption DEF Gaps, Undisturbed
<1>5. lagged[c] => D = Nat
  BY DEF Gaps
<1>6. r.data \in Contents \cup {None} /\ (r.data # None => msg = Closing(r.data))
  BY <1>1, <1>3, ResultType
<1>7. Clean(msg, asm[c]) => r.dims = r.data
  BY DEF Clean
<1>8. \A x \in Contents : msg = Closing(x) /\ Clean(msg, asm[c]) => r.data = x
  BY ClosingComesOut
<1> HIDE DEF q, msg, s, u, r, D
<1>9. CASE r.data # None
  <2>1. r.data \in Contents /\ msg = Closing(r.data)
    BY <1>6, <1>9
  <2>2. Closes(msg) /\ \A y \in Contents : msg = Closing(y) => y = r.data
    BY <2>1, ClosingIs
  <2>3. PICK k \in 1 .. Len(u) :
          /\ msg = Closing(u[k]) /\ (D = {0} => k = 1)
          /\ Comes(D, Since(u, u[k]), Tail(q), s)
    BY <1>1, <1>2, <2>2, ComesOut DEF msg
  <2>4. u[k] \in Contents
    BY <1>1, ElementOfSeq
  <2>5. u[k] = r.data
    BY <2>2, <2>3, <2>4
  <2> QED BY <1>4, <1>7, <1>9, <2>3, <2>5 DEF q, msg, s, u, r, D
<1>10. CASE r.data = None
  <2>1. CASE ~Closes(msg)
    <3>1. Comes(D, u, Tail(q), s)
      BY <1>1, <1>2, <2>1, ComesOn DEF msg
    <3> QED BY <1>10, <3>1 DEF q, msg, s, u, r, D
  <2>2. CASE Closes(msg)
    <3>1. lagged[c]
      <4>1. PICK k \in 1 .. Len(u) : msg = Closing(u[k])
        BY <1>1, <1>2, <2>2, ComesOut DEF msg
      <4>2. u[k] \in Contents
        BY <1>1, ElementOfSeq
      <4>3. ~Clean(msg, asm[c])
        BY <1>8, <1>10, <4>1, <4>2, NoneAssumption
      <4> QED BY <1>4, <4>3
    <3>2. Comes(D, u, Tail(q), s)
      BY <1>1, <1>2, <1>5, <3>1, ComesDropped
    <3> QED BY <1>10, <3>2 DEF q, msg, s, u, r, D
  <2> QED BY <2>1, <2>2
<1> QED BY <1>9, <1>10

LEMMA ReceiveIsOnItsWay ==
  ASSUME TypeOK, Readiness, NEW m \in Machines, Receive(m), NEW c \in Clients, OnItsWay(c)
  PROVE  OnItsWay(c)'
<1> DEFINE r == Handle(Head(ring[m]), asm[m])
<1>1. /\ ring \in [Machines -> Seq(Messages)] /\ owed \in [Clients -> Seq(Contents)]
      /\ c \in Machines
  BY DEF TypeOK, Machines
<1>2. /\ IF m \in Clients /\ r.data # None THEN owed' = [owed EXCEPT ![m] = Since(owed[m], r.data)] ELSE owed' = owed
      /\ ring' = [ring EXCEPT ![m] = Tail(ring[m])]
      /\ stream' = stream /\ lagged' = lagged
  BY DEF Receive, wires
<1>3. Gaps(c)' = Gaps(c)
  BY <1>2 DEF Gaps
<1> HIDE DEF r
<1>4. CASE m # c
  <2>1. ring'[c] = ring[c] /\ owed'[c] = owed[c]
    BY <1>1, <1>2, <1>4
  <2> QED BY <1>2, <1>3, <2>1 DEF OnItsWay
<1>5. CASE m = c
  <2>1. /\ ring'[c] = Tail(ring[c])
        /\ owed'[c] = IF r.data # None THEN Since(owed[c], r.data) ELSE owed[c]
    BY <1>1, <1>2, <1>5
  <2>2. Comes(Gaps(c), owed'[c], Tail(ring[c]), stream[Down(c)])
    BY <1>5, <2>1, ReceiveComes DEF r
  <2> QED BY <1>2, <1>3, <2>1, <2>2 DEF OnItsWay
<1> QED BY <1>4, <1>5

LEMMA InitOnItsWay == Init => OwedIsOnItsWay /\ NothingUnasked
<1> SUFFICES ASSUME Init, NEW c \in Clients PROVE OnItsWay(c) /\ stream[Down(c)] = <<>>
  BY DEF OwedIsOnItsWay, NothingUnasked
<1>1. c \in Machines /\ Down(c) \in Ways
  BY WaysDiffer DEF Machines
<1>2. owed[c] = <<>> /\ ring[c] = <<>> /\ stream[Down(c)] = <<>>
  BY <1>1 DEF Init
<1>3. Comes(Gaps(c), <<>>, <<>>, <<>>)
  BY ComesNothing DEF Gaps, Spans
<1> QED BY <1>2, <1>3 DEF OnItsWay

LEMMA DisconnectIsOnItsWay ==
  ASSUME TypeOK, NEW d \in Clients, Disconnect(d), NEW c \in Clients, OnItsWay(c)
  PROVE  OnItsWay(c)'
<1>1. /\ stream \in [Ways -> Seq(Messages)] /\ ring \in [Machines -> Seq(Messages)]
      /\ owed \in [Clients -> Seq(Contents)] /\ lagged \in [Machines -> BOOLEAN]
      /\ c \in Machines /\ d \in Machines
  BY DEF TypeOK, Machines
<1>2. /\ stream' = [stream EXCEPT ![Down(d)] = <<>>, ![Up(d)] = <<>>]
      /\ ring' = [ring EXCEPT ![d] = <<>>] /\ owed' = [owed EXCEPT ![d] = <<>>]
      /\ lagged' = [lagged EXCEPT ![d] = FALSE]
  BY DEF Disconnect, Renew
<1>3. Down(c) \in Ways /\ Down(d) \in Ways /\ Down(c) # Up(d) /\ (c # d => Down(c) # Down(d))
  BY WaysDiffer
<1>4. CASE c = d
  <2>1. owed'[c] = <<>> /\ ring'[c] = <<>> /\ stream'[Down(c)] = <<>> /\ lagged'[c] = FALSE
    BY <1>1, <1>2, <1>3, <1>4
  <2>2. Gaps(c)' \in Spans
    BY <2>1 DEF Gaps, Spans
  <2>3. Comes(Gaps(c)', <<>>, <<>>, <<>>)
    BY <2>2, ComesNothing
  <2> QED BY <2>1, <2>3 DEF OnItsWay
<1>5. CASE c # d
  <2>1. owed'[c] = owed[c] /\ ring'[c] = ring[c] /\ stream'[Down(c)] = stream[Down(c)] /\ lagged'[c] = lagged[c]
    BY <1>1, <1>2, <1>3, <1>5
  <2>2. Gaps(c)' = Gaps(c)
    BY <2>1 DEF Gaps
  <2> QED BY <2>1, <2>2 DEF OnItsWay
<1> QED BY <1>4, <1>5

LEMMA NextOnItsWay ==
  TypeOK /\ StreamsInOrder /\ Readiness /\ OwedIsOnItsWay /\ [Next]_vars => OwedIsOnItsWay'
<1> SUFFICES ASSUME TypeOK, StreamsInOrder, Readiness, OwedIsOnItsWay, [Next]_vars, NEW c \in Clients
             PROVE  OnItsWay(c)'
  BY DEF OwedIsOnItsWay
<1>1. OnItsWay(c)
  BY DEF OwedIsOnItsWay
<1>2. ASSUME ring' = ring, owed' = owed, lagged' = lagged, stream'[Down(c)] = stream[Down(c)]
      PROVE  OnItsWay(c)'
  BY <1>1, <1>2 DEF OnItsWay, Gaps
<1>3. ASSUME NEW d \in Clients, Connect(d) PROVE OnItsWay(c)'
  BY <1>2, <1>3 DEF Connect, history
<1>4. ASSUME NEW d \in Clients, Disconnect(d) PROVE OnItsWay(c)'
  BY <1>1, <1>4, DisconnectIsOnItsWay
<1>5. ASSUME NEW d \in Clients, ReadInput(d) PROVE OnItsWay(c)'
  BY <1>1, <1>5, InputIsOnItsWay
<1>6. ASSUME NEW x \in Contents, ServerCopies(x) PROVE OnItsWay(c)'
  BY <1>1, <1>6, SendIsOnItsWay
<1>7. ASSUME NEW x \in Contents, NEW d \in Clients, ClientCopies(d, x) PROVE OnItsWay(c)'
  <2>1. stream' = [stream EXCEPT ![Up(d)] = @ \o Transfer(x)] /\ Down(c) # Up(d)
    BY <1>7, WaysDiffer DEF ClientCopies
  <2>2. stream'[Down(c)] = stream[Down(c)]
    BY <2>1, WaysDiffer DEF TypeOK
  <2> QED BY <1>2, <1>7, <2>2 DEF ClientCopies
<1>8. ASSUME NEW w \in Ways, Read(w) PROVE OnItsWay(c)'
  BY <1>1, <1>8, ReadIsOnItsWay
<1>9. ASSUME NEW w \in Ways, ReadFails(w) PROVE OnItsWay(c)'
  BY <1>2, <1>9 DEF ReadFails, history
<1>10. ASSUME NEW m \in Machines, Receive(m) PROVE OnItsWay(c)'
  BY <1>1, <1>10, ReceiveIsOnItsWay
<1>11. CASE UNCHANGED vars
  BY <1>2, <1>11 DEF vars, wires, history
<1> QED BY <1>3, <1>4, <1>5, <1>6, <1>7, <1>8, <1>9, <1>10, <1>11 DEF Next

\* A client that is not connected is sent nothing.
LEMMA NextNothingUnasked == TypeOK /\ NothingUnasked /\ [Next]_vars => NothingUnasked'
<1> SUFFICES ASSUME TypeOK, NothingUnasked, [Next]_vars, NEW c \in Clients, ~connected'[c]
             PROVE  stream'[Down(c)] = <<>>
  BY DEF NothingUnasked
<1>1. /\ connected \in [Clients -> BOOLEAN] /\ stream \in [Ways -> Seq(Messages)] /\ Down(c) \in Ways
      /\ \A d \in Clients : Down(c) # Up(d) /\ (c # d => Down(c) # Down(d))
  BY WaysDiffer DEF TypeOK
<1>2. ~connected[c] => stream[Down(c)] = <<>>
  BY DEF NothingUnasked
<1>3. ASSUME NEW d \in Clients, Connect(d) PROVE stream'[Down(c)] = <<>>
  BY <1>1, <1>2, <1>3 DEF Connect
<1>4. ASSUME NEW d \in Clients, Disconnect(d) PROVE stream'[Down(c)] = <<>>
  BY <1>1, <1>2, <1>4 DEF Disconnect, Renew
<1>5. ASSUME NEW d \in Clients, ReadInput(d) PROVE stream'[Down(c)] = <<>>
  BY <1>2, <1>5 DEF ReadInput, wires
<1>6. ASSUME NEW x \in Contents, ServerCopies(x) PROVE stream'[Down(c)] = <<>>
  <2>1. Receiver(Down(c)) = c
    BY DEF Down, Receiver
  <2> QED BY <1>1, <1>2, <1>6, <2>1 DEF ServerCopies
<1>7. ASSUME NEW x \in Contents, NEW d \in Clients, ClientCopies(d, x) PROVE stream'[Down(c)] = <<>>
  BY <1>1, <1>2, <1>7 DEF ClientCopies
<1>8. ASSUME NEW w \in Ways, Read(w) PROVE stream'[Down(c)] = <<>>
  <2>1. stream[Down(c)] = <<>> /\ stream[w] # <<>> /\ stream' = [stream EXCEPT ![w] = Tail(@)]
    BY <1>2, <1>8 DEF Read
  <2> QED BY <1>1, <2>1
<1>9. ASSUME NEW w \in Ways, ReadFails(w) PROVE stream'[Down(c)] = <<>>
  BY <1>2, <1>9 DEF ReadFails
<1>10. ASSUME NEW m \in Machines, Receive(m) PROVE stream'[Down(c)] = <<>>
  BY <1>2, <1>10 DEF Receive, wires
<1>11. CASE UNCHANGED vars
  BY <1>2, <1>11 DEF vars, wires
<1> QED BY <1>3, <1>4, <1>5, <1>6, <1>7, <1>8, <1>9, <1>10, <1>11 DEF Next

LEMMA OnItsWayAlways == Spec => [](OwedIsOnItsWay /\ NothingUnasked)
BY InitOnItsWay, NextOnItsWay, NextNothingUnasked, TypeCorrect, ReadyAlways, PTL DEF Spec

\* Once all that was sent to a connected client has been read and seen, all of
\* it has come out, unless its ring has dropped messages.
THEOREM NoneIsLost == Spec => []NothingIsLost
<1>1. TypeOK /\ OwedIsOnItsWay => NothingIsLost
  <2> SUFFICES ASSUME TypeOK, OwedIsOnItsWay, NEW c \in Clients, ~lagged[c],
                      stream[Down(c)] = <<>>, ring[c] = <<>>
               PROVE  owed[c] = <<>>
    BY DEF NothingIsLost
  <2>1. owed[c] \in Seq(Contents) /\ Comes({0}, owed[c], <<>>, <<>>)
    BY ClientTypes DEF OwedIsOnItsWay, OnItsWay, Gaps
  <2> DEFINE u == owed[c]
  <2> HIDE DEF u
  <2>2. PICK j \in 0 .. Len(u) : Gives({0}, u, <<>>, 0, j) /\ Gives({0}, u, <<>>, j, Len(u))
    BY <2>1 DEF Comes, u
  <2>3. 0 \in 0 .. Len(u)
    BY <2>1, LenProperties DEF u
  <2>4. 0 = j /\ j = Len(u)
    BY <2>2, <2>3, RunNothing DEF Gives
  <2> QED BY <2>1, <2>4, EmptySeq DEF u
<1> QED BY <1>1, TypeCorrect, OnItsWayAlways, PTL

-----------------------------------------------------------------------------
(* Each step is one of ContentDelivery, or changes nothing it speaks of.   *)

LEMMA BroadcastDelivers ==
  ASSUME TypeOK, NEW c \in Clients, connected[c], NEW msg \in Messages, Broadcast(c, msg),
         UNCHANGED <<connected, owed, got>>
  PROVE  [Delivery!Next]_(Delivery!vars)
<1> DEFINE o == [d \in Clients |-> lagged[d]]
           n == [d \in Clients |-> lagged'[d]]
<1>1. c \in Machines /\ Clients \subseteq Machines
  BY DEF Machines
<1>2. /\ lagged' \in [Machines -> BOOLEAN] /\ lagged \in [Machines -> BOOLEAN]
      /\ \A d \in Machines : d # c => lagged'[d] = lagged[d]
      /\ ~lagged'[c] => ~lagged[c]
  BY <1>1, BroadcastStep DEF TypeOK
<1>3. CASE lagged'[c]
  <2>1. lagged'[c] = TRUE
    BY <1>1, <1>2, <1>3
  <2>2. \A d \in Clients : n[d] = IF d = c THEN TRUE ELSE o[d]
    BY <1>1, <1>2, <2>1
  <2>3. n = [o EXCEPT ![c] = TRUE]
    BY <2>2, Zenon
  <2>4. Delivery!FallBehind(c)
    BY <2>3 DEF Delivery!FallBehind
  <2> QED BY <2>4 DEF Delivery!Next
<1>4. CASE ~lagged'[c]
  <2>1. lagged'[c] = lagged[c]
    BY <1>1, <1>2, <1>4
  <2>2. \A d \in Clients : n[d] = o[d]
    BY <1>1, <1>2, <2>1
  <2>3. n = o
    BY <2>2, Zenon
  <2> QED BY <2>3 DEF Delivery!vars
<1> QED BY <1>3, <1>4

LEMMA ReadDelivers ==
  ASSUME TypeOK, StreamsInOrder, NothingUnasked, NEW w \in Ways, Read(w)
  PROVE  [Delivery!Next]_(Delivery!vars)
<1>1. /\ stream[w] # <<>> /\ Head(stream[w]) \in Messages /\ Receiver(w) \in Machines
      /\ Broadcast(Receiver(w), Head(stream[w]))
  BY ReadFirst
<1>2. UNCHANGED <<connected, owed, got>>
  BY DEF Read
<1>3. PICK c \in Clients : (w = Down(c) /\ Receiver(w) = c) \/ Receiver(w) = Server
  BY WayEnds
<1>4. CASE w = Down(c) /\ Receiver(w) = c
  <2>1. connected[c]
    BY <1>1, <1>4 DEF NothingUnasked
  <2> QED BY <1>1, <1>2, <1>4, <2>1, BroadcastDelivers
<1>5. CASE Receiver(w) = Server
  <2>1. \A d \in Clients : d \in Machines /\ d # Server
    BY ServerAssumption DEF Machines
  <2>2. \A d \in Clients : lagged'[d] = lagged[d]
    BY <1>1, <1>5, <2>1, BroadcastStep
  <2>3. [d \in Clients |-> lagged'[d]] = [d \in Clients |-> lagged[d]]
    BY <2>2
  <2> QED BY <1>2, <2>3 DEF Delivery!vars
<1> QED BY <1>3, <1>4, <1>5

LEMMA ReceiveDelivers ==
  ASSUME TypeOK, Readiness, OwedIsOnItsWay, NEW m \in Machines, Receive(m)
  PROVE  [Delivery!Next]_(Delivery!vars)
<1> DEFINE r == Handle(Head(ring[m]), asm[m])
           u == owed[m]
<1>1. connected' = connected /\ lagged' = lagged
  BY DEF Receive, wires
<1>2. IF m \in Clients /\ r.data # None
      THEN /\ owed' = [owed EXCEPT ![m] = Since(u, r.data)]
           /\ got' = [got EXCEPT ![m] = <<r.dims, r.data>>]
      ELSE owed' = owed /\ got' = got
  BY DEF Receive
<1>3. m \in Clients => u \in Seq(Contents) /\ OnItsWay(m)
  BY DEF TypeOK, OwedIsOnItsWay
<1>4. r.dims \in Contents \cup {None}
  <2>1. Head(ring[m]) \in Messages /\ asm[m] \in Reassemblers
    BY HeadTailProperties DEF TypeOK, Receive
  <2> QED BY <2>1, ResultType
<1>5. m \in Clients =>
        \/ r.data = None
        \/ \E k \in 1 .. Len(u) : r.data = u[k] /\ (~lagged[m] => k = 1 /\ r.dims = r.data)
  BY <1>3, ReceiveComes
<1> HIDE DEF r, u
<1>6. CASE ~(m \in Clients /\ r.data # None)
  BY <1>1, <1>2, <1>6 DEF Delivery!vars
<1>7. CASE m \in Clients /\ r.data # None
  <2>1. PICK k \in 1 .. Len(u) : r.data = u[k] /\ (~lagged[m] => k = 1 /\ r.dims = r.data)
    BY <1>5, <1>7
  <2> DEFINE p == First(u, u[k])
  <2>2. p \in 1 .. k /\ u[p] = u[k] /\ Since(u, u[k]) = SubSeq(u, p + 1, Len(u))
    BY <1>3, <1>7, FirstIs, SinceIs
  <2>3. Len(u) \in Nat /\ DOMAIN u = 1 .. Len(u)
    BY <1>3, <1>7, LenProperties
  <2>4. owed' = [owed EXCEPT ![m] = Since(u, u[k])] /\ got' = [got EXCEPT ![m] = <<r.dims, u[k]>>]
    BY <1>2, <1>7, <2>1
  <2> HIDE DEF p
  <2>5. CASE lagged[m]
    <3>1. p \in DOMAIN u
      BY <2>2, <2>3
    <3>2. /\ owed' = [owed EXCEPT ![m] = SubSeq(u, p + 1, Len(u))]
          /\ got' = [got EXCEPT ![m] = <<r.dims, u[p]>>]
      BY <2>2, <2>4
    <3>3. Delivery!Nothing = None
      BY DEF Delivery!Nothing, None
    <3>4. Delivery!Skip(m)
      BY <1>1, <1>4, <1>7, <2>5, <3>1, <3>2, <3>3 DEF Delivery!Skip, u
    <3> QED BY <1>7, <3>4 DEF Delivery!Next
  <2>6. CASE ~lagged[m]
    <3>1. k = 1 /\ r.dims = u[1] /\ p = 1
      BY <2>1, <2>2, <2>6
    <3>2. u # <<>> /\ Head(u) = u[1]
      BY <1>3, <1>7, <2>1, <2>3, EmptySeq
    <3>3. Tail(u) = SubSeq(u, 1 + 1, Len(u))
      BY <1>3, <1>7, <3>2, TailIsSubSeq
    <3>4. /\ owed' = [owed EXCEPT ![m] = Tail(u)]
          /\ got' = [got EXCEPT ![m] = <<Head(u), Head(u)>>]
      BY <2>2, <2>4, <3>1, <3>2, <3>3
    <3>5. Delivery!Deliver(m)
      BY <1>1, <3>2, <3>4 DEF Delivery!Deliver, u
    <3> QED BY <1>7, <3>5 DEF Delivery!Next
  <2> QED BY <2>5, <2>6
<1> QED BY <1>6, <1>7

LEMMA DisconnectDelivers ==
  ASSUME TypeOK, NEW c \in Clients, Disconnect(c)
  PROVE  Delivery!Disconnect(c)
<1> DEFINE o == [d \in Clients |-> lagged[d]]
           n == [d \in Clients |-> lagged'[d]]
<1>1. /\ connected[c] /\ connected' = [connected EXCEPT ![c] = FALSE]
      /\ owed' = [owed EXCEPT ![c] = <<>>] /\ got' = [got EXCEPT ![c] = <<None, None>>]
      /\ lagged' = [lagged EXCEPT ![c] = FALSE]
  BY DEF Disconnect, Renew
<1>2. lagged \in [Machines -> BOOLEAN] /\ Clients \subseteq Machines
  BY DEF TypeOK, Machines
<1>3. \A d \in Clients : n[d] = IF d = c THEN FALSE ELSE o[d]
  BY <1>1, <1>2
<1>4. n = [o EXCEPT ![c] = FALSE]
  BY <1>3, Zenon
<1>5. Delivery!Nothing = None
  BY DEF Delivery!Nothing, None
<1> QED BY <1>1, <1>4, <1>5 DEF Delivery!Disconnect

LEMMA NextDelivers ==
  TypeOK /\ StreamsInOrder /\ Readiness /\ OwedIsOnItsWay /\ NothingUnasked /\ [Next]_vars
    => [Delivery!Next]_(Delivery!vars)
<1> SUFFICES ASSUME TypeOK, StreamsInOrder, Readiness, OwedIsOnItsWay, NothingUnasked, [Next]_vars
             PROVE  [Delivery!Next]_(Delivery!vars)
  OBVIOUS
<1>1. ASSUME NEW c \in Clients, Connect(c) PROVE [Delivery!Next]_(Delivery!vars)
  <2>1. Delivery!Connect(c)
    BY <1>1 DEF Connect, history, Delivery!Connect
  <2> QED BY <2>1 DEF Delivery!Next
<1>2. ASSUME NEW c \in Clients, Disconnect(c) PROVE [Delivery!Next]_(Delivery!vars)
  BY <1>2, DisconnectDelivers DEF Delivery!Next
<1>3. ASSUME NEW c \in Clients, ReadInput(c) PROVE [Delivery!Next]_(Delivery!vars)
  <2>1. MouseDelta \in Messages /\ connected[c] /\ Broadcast(c, MouseDelta) /\ UNCHANGED <<connected, owed, got>>
    BY <1>3 DEF ReadInput, wires, Messages
  <2> QED BY <2>1, BroadcastDelivers
<1>4. ASSUME NEW x \in Contents, ServerCopies(x) PROVE [Delivery!Next]_(Delivery!vars)
  <2>1. Delivery!Send(x)
    BY <1>4 DEF ServerCopies, Delivery!Send
  <2> QED BY <2>1 DEF Delivery!Next
<1>5. ASSUME NEW x \in Contents, NEW c \in Clients, ClientCopies(c, x) PROVE [Delivery!Next]_(Delivery!vars)
  BY <1>5 DEF ClientCopies, Delivery!vars
<1>6. ASSUME NEW w \in Ways, Read(w) PROVE [Delivery!Next]_(Delivery!vars)
  BY <1>6, ReadDelivers
<1>7. ASSUME NEW w \in Ways, ReadFails(w) PROVE [Delivery!Next]_(Delivery!vars)
  BY <1>7 DEF ReadFails, history, Delivery!vars
<1>8. ASSUME NEW m \in Machines, Receive(m) PROVE [Delivery!Next]_(Delivery!vars)
  BY <1>8, ReceiveDelivers
<1>9. CASE UNCHANGED vars
  BY <1>9 DEF vars, wires, history, Delivery!vars
<1> QED BY <1>1, <1>2, <1>3, <1>4, <1>5, <1>6, <1>7, <1>8, <1>9 DEF Next

\* What the code does with streams, rings and reassemblers is what
\* ContentDelivery promises: each client gets what the server sends it in
\* order, whole, and once, until it is disconnected or its ring drops messages.
THEOREM DeliversContents == Spec => Delivers
<1>1. Init => Delivery!Init
  <2> SUFFICES ASSUME Init PROVE Delivery!Init
    OBVIOUS
  <2>1. \A c \in Clients : lagged[c] = FALSE
    BY DEF Init, Machines
  <2>2. [c \in Clients |-> lagged[c]] = [c \in Clients |-> FALSE]
    BY <2>1
  <2> QED BY <2>2 DEF Init, Delivery!Init, Delivery!Nothing, None
<1> QED BY <1>1, NextDelivers, TypeCorrect, ReadyAlways, OnItsWayAlways, PTL
        DEF Spec, Delivers, Delivery!Spec
=============================================================================
