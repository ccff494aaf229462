--------------------------- MODULE StpFrames_proof ---------------------------
(* A line that loses and adds nothing carries messages complete and in      *)
(* order, in both directions: what is in the buffers of a receiver and on   *)
(* the line is at any time a row of whole frames, and their messages are    *)
(* those that are still to be delivered.  After a damage this holds again   *)
(* for the target from where it has found the frames, and never for qst.    *)
EXTENDS StpFrames, SequenceTheorems, WellFoundedInduction, TLAPS

Byte == 0..255

-----------------------------------------------------------------------------
(* Lists.                                                                  *)

\* Induction over the natural numbers, for sets.
LEMMA InductionForSets ==
    ASSUME NEW S, 0 \in S, \A n \in Nat : n \in S => n + 1 \in S
    PROVE  Nat \subseteq S
<1> DEFINE R == {ss \in Nat \X Nat : ss[1] < ss[2]}
           T == Nat \ S
<1>1. IsWellFoundedOn(R, Nat)
  BY NatLessThanWellFounded DEF OpToRel
<1> SUFFICES ASSUME T # {} PROVE FALSE
  OBVIOUS
<1>2. PICK x \in T : \A y \in T : ~(<<y, x>> \in R)
  <2> HIDE DEF R
  <2> QED BY <1>1, WFMin
<1>3. x - 1 \in Nat /\ x - 1 \in T /\ <<x - 1, x>> \in R
  OBVIOUS
<1> QED BY <1>2, <1>3

\* A list that is not empty is a shorter one and a last element.
LEMMA LastApart ==
    ASSUME NEW T, NEW l \in Seq(T), l # <<>>
    PROVE  \E front \in Seq(T), last \in T : l = Append(front, last) /\ Len(l) = Len(front) + 1
<1>1. PICK front \in Seq(T), last \in T : l = Append(front, last)
  BY SequenceEmptyOrAppend
<1>2. Len(l) = Len(front) + 1
  BY <1>1, AppendProperties
<1> QED BY <1>1, <1>2

\* The recursive function of Delivered().
Firsts(l, f) ==
    f = [n \in 0..Len(l) |->
            IF n = 0 THEN <<>>
            ELSE IF l[n] = <<>> THEN f[n - 1] ELSE Append(f[n - 1], l[n])]

\* There is one.
LEMMA FirstsExist ==
    ASSUME NEW T, NEW l \in Seq(T)
    PROVE  \E f : Firsts(l, f)
<1> DEFINE Is(f, k) == f = [n \in 0..k |->
                            IF n = 0 THEN <<>>
                            ELSE IF l[n] = <<>> THEN f[n - 1] ELSE Append(f[n - 1], l[n])]
           S == {k \in Nat : \E f : Is(f, k)}
<1>1. 0 \in S
  <2>1. Is([n \in 0..0 |-> <<>>], 0)
    OBVIOUS
  <2> QED BY <2>1
<1>2. \A k \in Nat : k \in S => k + 1 \in S
  <2>1. ASSUME NEW k \in Nat, NEW f, Is(f, k) PROVE \E g : Is(g, k + 1)
    <3> DEFINE next == IF l[k + 1] = <<>> THEN f[k] ELSE Append(f[k], l[k + 1])
               g == [n \in 0..k + 1 |-> IF n <= k THEN f[n] ELSE next]
    <3>1. \A n \in 0..k + 1 :
              g[n] = IF n = 0 THEN <<>>
                     ELSE IF l[n] = <<>> THEN g[n - 1] ELSE Append(g[n - 1], l[n])
      <4> SUFFICES ASSUME NEW n \in 0..k + 1
                   PROVE  g[n] = IF n = 0 THEN <<>>
                                 ELSE IF l[n] = <<>> THEN g[n - 1] ELSE Append(g[n - 1], l[n])
        OBVIOUS
      <4>1. CASE n <= k
        <5>1. n \in 0..k /\ g[n] = f[n] /\ (n # 0 => n - 1 \in 0..k /\ g[n - 1] = f[n - 1])
          BY <4>1
        <5>2. f[n] = IF n = 0 THEN <<>>
                     ELSE IF l[n] = <<>> THEN f[n - 1] ELSE Append(f[n - 1], l[n])
          BY <2>1, <5>1
        <5> HIDE DEF g
        <5> QED BY <5>1, <5>2
      <4>2. CASE ~(n <= k)
        <5>1. n = k + 1 /\ n # 0 /\ g[n] = next /\ g[n - 1] = f[k]
          BY <4>2
        <5> HIDE DEF g
        <5> QED BY <5>1
      <4> QED BY <4>1, <4>2
    <3>2. Is(g, k + 1)
      BY <3>1
    <3> QED BY <3>2
  <2> HIDE DEF Is
  <2> QED BY <2>1
<1>3. Len(l) \in S
  <2>1. Len(l) \in Nat
    OBVIOUS
  <2> HIDE DEF S
  <2> QED BY <1>1, <1>2, <2>1, InductionForSets
<1> QED BY <1>3 DEF Firsts

\* It is determined by the elements so far.
LEMMA FirstsAgree ==
    ASSUME NEW T, NEW l \in Seq(T), NEW m \in Seq(T), Len(l) <= Len(m),
           \A n \in 1..Len(l) : l[n] = m[n],
           NEW f, Firsts(l, f), NEW g, Firsts(m, g)
    PROVE  f[Len(l)] = g[Len(l)]
<1> DEFINE S == {k \in Nat : k <= Len(l) => f[k] = g[k]}
<1>0. Len(l) \in Nat /\ Len(m) \in Nat
  OBVIOUS
<1>1. 0 \in S
  BY <1>0 DEF Firsts
<1>2. \A k \in Nat : k \in S => k + 1 \in S
  <2> SUFFICES ASSUME NEW k \in Nat, f[k] = g[k], k + 1 <= Len(l) PROVE f[k + 1] = g[k + 1]
    BY <1>0
  <2>1. k + 1 \in 0..Len(l) /\ k + 1 \in 0..Len(m) /\ l[k + 1] = m[k + 1] /\ (k + 1) - 1 = k /\ k + 1 # 0
    BY <1>0
  <2>2. f[k + 1] = IF l[k + 1] = <<>> THEN f[(k + 1) - 1] ELSE Append(f[(k + 1) - 1], l[k + 1])
    BY <2>1 DEF Firsts
  <2>3. g[k + 1] = IF m[k + 1] = <<>> THEN g[(k + 1) - 1] ELSE Append(g[(k + 1) - 1], m[k + 1])
    BY <2>1 DEF Firsts
  <2> QED BY <2>1, <2>2, <2>3
<1>3. Len(l) \in S
  <2> HIDE DEF S
  <2> QED BY <1>0, <1>1, <1>2, InductionForSets
<1> QED BY <1>0, <1>3

\* Delivered() is its last value.
LEMMA DeliveredIsLast ==
    ASSUME NEW T, NEW l \in Seq(T)
    PROVE  \E f : Firsts(l, f) /\ Delivered(l) = f[Len(l)]
<1> DEFINE h == CHOOSE f : Firsts(l, f)
<1>1. Firsts(l, h)
  BY FirstsExist
<1>2. Delivered(l) = h[Len(l)]
  BY DEF Delivered, Firsts
<1> QED BY <1>1, <1>2

\* No message is delivered of none, and each one that is not empty of more.
LEMMA NothingDelivered == Delivered(<<>>) = <<>>
<1>1. <<>> \in Seq({}) /\ Len(<<>>) = 0
  OBVIOUS
<1>2. PICK f : Firsts(<<>>, f) /\ Delivered(<<>>) = f[Len(<<>>)]
  BY <1>1, DeliveredIsLast
<1> QED BY <1>1, <1>2 DEF Firsts

\* A message more at the end is delivered, unless it is empty.
LEMMA DeliveredAppend ==
    ASSUME NEW T, NEW l \in Seq(T), NEW m \in T
    PROVE  Delivered(Append(l, m)) = IF m = <<>> THEN Delivered(l) ELSE Append(Delivered(l), m)
<1> DEFINE k == Append(l, m)
<1>1. /\ k \in Seq(T) /\ Len(k) = Len(l) + 1 /\ k[Len(l) + 1] = m
      /\ \A n \in 1..Len(l) : l[n] = k[n]
      /\ Len(l) \in Nat
  OBVIOUS
<1> HIDE DEF k
<1>2. PICK f : Firsts(l, f) /\ Delivered(l) = f[Len(l)]
  BY DeliveredIsLast
<1>3. PICK g : Firsts(k, g) /\ Delivered(k) = g[Len(k)]
  BY <1>1, DeliveredIsLast
<1>4. f[Len(l)] = g[Len(l)]
  BY <1>1, <1>2, <1>3, FirstsAgree
<1>5. g[Len(l) + 1] = IF m = <<>> THEN g[Len(l)] ELSE Append(g[Len(l)], m)
  <2>1. Len(l) + 1 \in 0..Len(k) /\ Len(l) + 1 # 0 /\ (Len(l) + 1) - 1 = Len(l)
    BY <1>1
  <2>2. g[Len(l) + 1] = IF k[Len(l) + 1] = <<>> THEN g[(Len(l) + 1) - 1]
                        ELSE Append(g[(Len(l) + 1) - 1], k[Len(l) + 1])
    BY <1>3, <2>1 DEF Firsts
  <2> QED BY <1>1, <2>1, <2>2
<1> QED BY <1>1, <1>2, <1>3, <1>4, <1>5 DEF k

\* The messages delivered are messages.
LEMMA DeliveredType ==
    ASSUME NEW T, NEW l \in Seq(T)
    PROVE  Delivered(l) \in Seq(T)
<1> DEFINE S == {k \in Nat : \A m \in Seq(T) : Len(m) = k => Delivered(m) \in Seq(T)}
<1>1. 0 \in S
  <2>1. ASSUME NEW m \in Seq(T), Len(m) = 0 PROVE Delivered(m) \in Seq(T)
    <3>1. m = <<>> /\ <<>> \in Seq(T)
      BY <2>1, EmptySeq
    <3> QED BY <3>1, NothingDelivered
  <2> QED BY <2>1
<1>2. \A k \in Nat : k \in S => k + 1 \in S
  <2>1. ASSUME NEW k \in Nat, \A m \in Seq(T) : Len(m) = k => Delivered(m) \in Seq(T),
               NEW m \in Seq(T), Len(m) = k + 1
        PROVE  Delivered(m) \in Seq(T)
    <3>0. m # <<>>
      BY <2>1, EmptySeq
    <3>1. PICK front \in Seq(T), last \in T : m = Append(front, last) /\ Len(m) = Len(front) + 1
      BY <3>0, LastApart
    <3>9. Len(front) = k
      BY <2>1, <3>1
    <3>2. Delivered(front) \in Seq(T)
      BY <2>1, <3>9
    <3>3. Delivered(m) = IF last = <<>> THEN Delivered(front) ELSE Append(Delivered(front), last)
      BY <3>1, DeliveredAppend
    <3>4. Append(Delivered(front), last) \in Seq(T)
      BY <3>2, AppendProperties
    <3> QED BY <3>2, <3>3, <3>4
  <2> QED BY <2>1
<1>3. Len(l) \in S
  <2>1. Len(l) \in Nat
    OBVIOUS
  <2> HIDE DEF S
  <2> QED BY <1>1, <1>2, <2>1, InductionForSets
<1> QED BY <1>3

\* The messages of two lists, one behind the other, are delivered like that.
LEMMA DeliveredConcat ==
    ASSUME NEW T, NEW a \in Seq(T), NEW c \in Seq(T)
    PROVE  Delivered(a \o c) = Delivered(a) \o Delivered(c)
<1> DEFINE Holds(k) == \A m \in Seq(T) : Len(m) = k => Delivered(a \o m) = Delivered(a) \o Delivered(m)
           S == {k \in Nat : Holds(k)}
<1>0. Delivered(a) \in Seq(T)
  BY DeliveredType
<1>1. 0 \in S
  <2>1. ASSUME NEW m \in Seq(T), Len(m) = 0 PROVE Delivered(a \o m) = Delivered(a) \o Delivered(m)
    <3>1. m = <<>>
      BY <2>1, EmptySeq
    <3>2. a \o <<>> = a /\ Delivered(a) \o <<>> = Delivered(a)
      BY <1>0, ConcatEmptySeq
    <3> QED BY <3>1, <3>2, NothingDelivered
  <2> QED BY <2>1
<1>2. \A k \in Nat : k \in S => k + 1 \in S
  <2>1. ASSUME NEW k \in Nat,
               \A m \in Seq(T) : Len(m) = k => Delivered(a \o m) = Delivered(a) \o Delivered(m),
               NEW m \in Seq(T), Len(m) = k + 1
        PROVE  Delivered(a \o m) = Delivered(a) \o Delivered(m)
    <3>0. m # <<>>
      BY <2>1, EmptySeq
    <3>1. PICK front \in Seq(T), last \in T : m = Append(front, last) /\ Len(m) = Len(front) + 1
      BY <3>0, LastApart
    <3>9. Len(front) = k
      BY <2>1, <3>1
    <3>2. Delivered(a \o front) = Delivered(a) \o Delivered(front)
      BY <2>1, <3>9
    <3>3. Delivered(front) \in Seq(T)
      BY DeliveredType
    <3>4. a \o m = Append(a \o front, last) /\ a \o front \in Seq(T)
      BY <3>1
    <3>5. Delivered(a \o m) = IF last = <<>> THEN Delivered(a \o front)
                              ELSE Append(Delivered(a \o front), last)
      BY <3>4, DeliveredAppend
    <3>6. Delivered(m) = IF last = <<>> THEN Delivered(front) ELSE Append(Delivered(front), last)
      BY <3>1, DeliveredAppend
    <3>7. Append(Delivered(a) \o Delivered(front), last) = Delivered(a) \o Append(Delivered(front), last)
      <4> DEFINE p == Delivered(a)
                 q == Delivered(front)
      <4>1. p \in Seq(T) /\ q \in Seq(T) /\ last \in T /\ <<last>> \in Seq(T)
        BY <1>0, <3>1, <3>3
      <4> HIDE DEF p, q
      <4>2. Append(p \o q, last) = (p \o q) \o <<last>>
        BY <4>1, AppendIsConcat, ConcatProperties
      <4>3. Append(q, last) = q \o <<last>>
        BY <4>1, AppendIsConcat
      <4>4. (p \o q) \o <<last>> = p \o (q \o <<last>>)
        BY <4>1, ConcatAssociative, SMTT(30)
      <4> QED BY <4>2, <4>3, <4>4 DEF p, q
    <3> QED BY <3>2, <3>5, <3>6, <3>7
  <2>2. \A k \in Nat : Holds(k) => Holds(k + 1)
    BY <2>1
  <2> HIDE DEF Holds
  <2> QED BY <2>2
<1>3. Len(c) \in S
  <2>1. Len(c) \in Nat
    OBVIOUS
  <2> HIDE DEF S
  <2> QED BY <1>1, <1>2, <2>1, InductionForSets
<1> QED BY <1>3

-----------------------------------------------------------------------------
(* Frames, and rows of them.                                               *)

\* The payloads of the frames that are sent: empty ones reset the connection.
Messages == {m \in Seq(Byte) : Len(m) <= MaxPayload}
TypeOf(m) == IF m = <<>> THEN ResetConnection ELSE RocMessage

\* The frame of m is in s behind its first bytes.
FrameAt(s, at, m) ==
    /\ \A k \in 1..DelimiterLength : s[at + k] = D
    /\ s[at + 5] + 256 * s[at + 6] = Len(m)
    /\ s[at + 7] = TypeOf(m) /\ s[at + 8] = Checksum
    /\ \A k \in 1..Len(m) : s[at + HeaderLength + k] = m[k]

\* b[i] is the end of the i-th frame.
Boundaries(s, ms, b) ==
    /\ b \in [0..Len(ms) -> Nat] /\ b[0] = 0 /\ b[Len(ms)] = Len(s)
    /\ \A i, j \in 0..Len(ms) : i <= j => b[i] <= b[j]
    /\ \A i \in 1..Len(ms) : b[i] = b[i - 1] + HeaderLength + Len(ms[i])
                             /\ FrameAt(s, b[i - 1], ms[i])

\* The bytes are the frames of the messages, one right behind the other.
Stream(s, ms) == s \in Seq(Byte) /\ ms \in Seq(Messages) /\ \E b : Boundaries(s, ms, b)

\* A frame is where its bytes are.
LEMMA FrameMoves ==
    ASSUME NEW s, NEW r, NEW at \in Nat, NEW to \in Nat, NEW m, Len(m) \in Nat, FrameAt(s, at, m),
           \A k \in 1..HeaderLength + Len(m) : r[to + k] = s[at + k]
    PROVE  FrameAt(r, to, m)
<1> DEFINE z == Len(m)
<1>1. z \in Nat /\ \A k \in 1..8 + z : r[to + k] = s[at + k]
  BY DEF HeaderLength
<1> HIDE DEF z
<1>2. \A k \in 1..8 : r[to + k] = s[at + k]
  BY <1>1
<1>3. r[to + 5] = s[at + 5] /\ r[to + 6] = s[at + 6] /\ r[to + 7] = s[at + 7] /\ r[to + 8] = s[at + 8]
  BY <1>2
<1>4. ASSUME NEW k \in 1..z PROVE r[to + 8 + k] = s[at + 8 + k]
  <2>1. PICK j \in 1..8 + z : j = 8 + k
    BY <1>1
  <2>2. r[to + j] = s[at + j]
    BY <1>1
  <2>3. to + j = to + 8 + k /\ at + j = at + 8 + k
    BY <2>1, <1>1
  <2> QED BY <2>2, <2>3
<1>5. /\ \A k \in 1..4 : s[at + k] = D
      /\ s[at + 5] + 256 * s[at + 6] = z
      /\ s[at + 7] = TypeOf(m) /\ s[at + 8] = Checksum
      /\ \A k \in 1..z : s[at + 8 + k] = m[k]
  BY DEF FrameAt, HeaderLength, DelimiterLength, z
<1>6. /\ \A k \in 1..4 : r[to + k] = D
      /\ r[to + 5] + 256 * r[to + 6] = z
      /\ r[to + 7] = TypeOf(m) /\ r[to + 8] = Checksum
  BY <1>2, <1>3, <1>5
<1>7. \A k \in 1..z : r[to + 8 + k] = m[k]
  BY <1>4, <1>5
<1> QED BY <1>6, <1>7 DEF FrameAt, HeaderLength, DelimiterLength, z

\* What sendMessage() and write() put together is a frame.
LEMMA FrameElements ==
    ASSUME NEW m \in Messages, NEW t, t = TypeOf(m)
    PROVE  Frame(t, m) \in Seq(Byte) /\ Len(Frame(t, m)) = HeaderLength + Len(m) /\ FrameAt(Frame(t, m), 0, m)
<1> DEFINE h == Header(t, Len(m))
<1>1. m \in Seq(Byte) /\ Len(m) \in Nat /\ Len(m) <= 32
  <2>1. m \in Seq(Byte) /\ Len(m) <= 32
    BY DEF Messages, MaxPayload
  <2>2. Len(m) \in Nat
    BY <2>1, LenProperties
  <2> QED BY <2>1, <2>2
<1>2. (Len(m) % 256) = Len(m) /\ (Len(m) \div 256) = 0
  <2>1. \A n \in Nat : n <= 32 => (n % 256) = n /\ (n \div 256) = 0
    OBVIOUS
  <2> QED BY <1>1, <2>1
<1>3. /\ h = <<D, D, D, D, Len(m), 0, t, Checksum>>
      /\ t \in Byte
  BY <1>2 DEF Header, TypeOf, Byte, ResetConnection, RocMessage
<1>4. /\ h \in Seq(Byte) /\ Len(h) = 8
      /\ h[1] = D /\ h[2] = D /\ h[3] = D /\ h[4] = D /\ h[5] = Len(m) /\ h[6] = 0 /\ h[7] = t
      /\ h[8] = Checksum
  <2>1. \A a, c, d \in Byte : <<d, d, d, d, a, 0, t, c>> \in Seq(Byte)
    BY <1>3 DEF Byte
  <2>2. Len(m) \in Byte /\ D \in Byte /\ Checksum \in Byte
    <3>1. \A n \in Nat : n <= 32 => n \in Byte
      BY DEF Byte
    <3>2. Len(m) \in Byte
      BY <3>1, <1>1
    <3> QED BY <3>2 DEF Byte, D, Checksum
  <2>3. h \in Seq(Byte)
    BY <1>3, <2>1, <2>2
  <2> HIDE DEF h
  <2> QED BY <1>3, <2>3
<1> HIDE DEF h
<1> DEFINE f == h \o m
<1>5. /\ f \in Seq(Byte) /\ Len(f) = 8 + Len(m)
      /\ \A i \in 1..8 : f[i] = h[i]
      /\ \A k \in 1..Len(m) : f[8 + k] = m[k]
  <2>1. f \in Seq(Byte) /\ Len(f) = Len(h) + Len(m)
        /\ \A i \in 1..Len(h) + Len(m) : f[i] = IF i <= Len(h) THEN h[i] ELSE m[i - Len(h)]
    BY <1>1, <1>4, ConcatProperties
  <2> HIDE DEF f
  <2> QED BY <1>1, <1>4, <2>1
<1>6. Frame(t, m) = f
  BY DEF Frame, h
<1>7. FrameAt(f, 0, m)
  <2> HIDE DEF f
  <2> QED BY <1>1, <1>4, <1>5 DEF FrameAt, DelimiterLength, HeaderLength
<1> HIDE DEF f
<1> QED BY <1>5, <1>6, <1>7 DEF HeaderLength

\* A frame sent behind a row of frames makes the row longer.
LEMMA StreamAppend ==
    ASSUME NEW s, NEW ms, Stream(s, ms), NEW m \in Messages, NEW t, t = TypeOf(m)
    PROVE  Stream(s \o Frame(t, m), Append(ms, m))
<1> DEFINE f == Frame(t, m)
           r == s \o f
           ns == Append(ms, m)
           n == Len(ms)
<1>0. PICK b : Boundaries(s, ms, b)
  BY DEF Stream
<1> DEFINE c == [i \in 0..n + 1 |-> IF i <= n THEN b[i] ELSE Len(s) + HeaderLength + Len(m)]
<1>1. f \in Seq(Byte) /\ Len(f) = HeaderLength + Len(m) /\ FrameAt(f, 0, m) /\ Len(m) \in Nat
  BY FrameElements DEF Messages
<1>2. /\ s \in Seq(Byte) /\ ms \in Seq(Messages) /\ n \in Nat /\ Len(s) \in Nat
      /\ \A i \in 1..n : Len(ms[i]) \in Nat
  BY DEF Stream, Messages
<1>3. /\ r \in Seq(Byte) /\ Len(r) = Len(s) + HeaderLength + Len(m)
      /\ \A i \in 1..Len(s) : r[i] = s[i]
      /\ \A i \in 1..HeaderLength + Len(m) : r[Len(s) + i] = f[i]
  <2> HIDE DEF f
  <2> QED BY <1>1, <1>2, SMTT(30) DEF HeaderLength
<1>4. ns \in Seq(Messages) /\ Len(ns) = n + 1 /\ ns[n + 1] = m /\ \A i \in 1..n : ns[i] = ms[i]
  BY <1>2
<1> HIDE DEF f, r, ns
<1>5. /\ b \in [0..n -> Nat] /\ b[0] = 0 /\ b[n] = Len(s)
      /\ \A i, j \in 0..n : i <= j => b[i] <= b[j]
      /\ \A i \in 1..n : b[i] = b[i - 1] + HeaderLength + Len(ms[i]) /\ FrameAt(s, b[i - 1], ms[i])
  BY <1>0 DEF Boundaries
<1>6. c \in [0..n + 1 -> Nat] /\ c[n + 1] = Len(r) /\ \A i \in 0..n : c[i] = b[i]
  BY <1>1, <1>2, <1>3, <1>5 DEF HeaderLength
<1> HIDE DEF c, n
<1>7. c[0] = 0
  BY <1>2, <1>5, <1>6
<1>8. \A i, j \in 0..n + 1 : i <= j => c[i] <= c[j]
  <2> SUFFICES ASSUME NEW i \in 0..n + 1, NEW j \in 0..n + 1, i <= j PROVE c[i] <= c[j]
    OBVIOUS
  <2>1. CASE j <= n
    <3>1. i \in 0..n /\ j \in 0..n
      BY <2>1, <1>2
    <3> QED BY <3>1, <1>5, <1>6
  <2>2. CASE j = n + 1 /\ i <= n
    <3>1. i \in 0..n /\ n \in 0..n /\ i <= n
      BY <2>2, <1>2
    <3>2. b[i] <= Len(s) /\ b[i] \in Nat
      BY <3>1, <1>5
    <3> QED BY <3>1, <3>2, <2>2, <1>1, <1>2, <1>3, <1>6 DEF HeaderLength
  <2>3. CASE i = n + 1 /\ j = n + 1
    BY <2>3, <1>1, <1>2, <1>3, <1>6 DEF HeaderLength
  <2> QED BY <2>1, <2>2, <2>3, <1>2
<1>9. ASSUME NEW i \in 1..n + 1
      PROVE  c[i] = c[i - 1] + HeaderLength + Len(ns[i]) /\ FrameAt(r, c[i - 1], ns[i])
  <2>1. CASE i <= n
    <3>1. i \in 1..n /\ i \in 0..n /\ i - 1 \in 0..n /\ n \in 0..n
      BY <2>1, <1>2
    <3>2. c[i] = b[i] /\ c[i - 1] = b[i - 1] /\ ns[i] = ms[i] /\ b[i] <= Len(s) /\ b[i - 1] \in Nat
          /\ Len(ms[i]) \in Nat
      <4>1. i <= n /\ b[i] <= b[n]
        BY <2>1, <3>1, <1>5
      <4> QED BY <4>1, <3>1, <1>2, <1>4, <1>5, <1>6
    <3>3. b[i] = b[i - 1] + HeaderLength + Len(ms[i]) /\ FrameAt(s, b[i - 1], ms[i])
      BY <3>1, <1>5
    <3>4. \A k \in 1..HeaderLength + Len(ms[i]) : r[b[i - 1] + k] = s[b[i - 1] + k]
      <4> SUFFICES ASSUME NEW k \in 1..HeaderLength + Len(ms[i]) PROVE b[i - 1] + k \in 1..Len(s)
        BY <1>3
      <4> DEFINE x == b[i]
                 y == b[i - 1]
                 z == Len(ms[i])
                 u == Len(s)
      <4>1. x \in Nat /\ y \in Nat /\ z \in Nat /\ u \in Nat /\ x = y + 8 + z /\ x <= u /\ k \in 1..8 + z
        BY <3>1, <3>2, <3>3, <1>2, <1>5 DEF HeaderLength
      <4> HIDE DEF x, y, z, u
      <4>2. y + k \in 1..u
        BY <4>1
      <4> QED BY <4>2 DEF u, y
    <3>5. FrameAt(r, b[i - 1], ms[i])
      <4> DEFINE at == b[i - 1]
                 m2 == ms[i]
      <4>1. /\ at \in Nat /\ Len(m2) \in Nat /\ FrameAt(s, at, m2)
            /\ \A k \in 1..HeaderLength + Len(m2) : r[at + k] = s[at + k]
        BY <3>2, <3>3, <3>4
      <4> HIDE DEF at, m2
      <4>2. FrameAt(r, at, m2)
        BY <4>1, FrameMoves
      <4> QED BY <4>2 DEF at, m2
    <3> QED BY <3>2, <3>3, <3>5
  <2>2. CASE i = n + 1
    <3>1. n \in 0..n /\ i - 1 = n /\ c[i - 1] = Len(s) /\ c[i] = Len(r) /\ ns[i] = m
      BY <2>2, <1>2, <1>4, <1>5, <1>6
    <3>2. FrameAt(r, Len(s), m)
      <4>1. \A k \in 1..HeaderLength + Len(m) : r[Len(s) + k] = f[0 + k]
        BY <1>1, <1>3 DEF HeaderLength
      <4> QED BY <4>1, <1>1, <1>2, FrameMoves
    <3> QED BY <3>1, <3>2, <1>3
  <2> QED BY <2>1, <2>2, <1>2
<1>10. Boundaries(r, ns, c)
  BY <1>4, <1>6, <1>7, <1>8, <1>9 DEF Boundaries
<1>11. Stream(r, ns)
  BY <1>3, <1>4, <1>10 DEF Stream
<1> QED BY <1>11 DEF r, ns, f

\* A row of frames begins with the frame of its first message, and ends with the
\* row of the others.
LEMMA StreamHead ==
    ASSUME NEW s, NEW ms, Stream(s, ms), ms # <<>>
    PROVE  /\ ms[1] \in Messages /\ Len(ms[1]) \in Nat
           /\ Len(s) >= HeaderLength + Len(ms[1]) /\ FrameAt(s, 0, ms[1])
           /\ Stream(SubSeq(s, HeaderLength + Len(ms[1]) + 1, Len(s)), Tail(ms))
<1> DEFINE m == ms[1]
           w == HeaderLength + Len(m)
           r == SubSeq(s, w + 1, Len(s))
           ns == Tail(ms)
           n == Len(ms)
<1>0. PICK b : Boundaries(s, ms, b)
  BY DEF Stream
<1> DEFINE c == [i \in 0..n - 1 |-> b[i + 1] - w]
<1>1. /\ s \in Seq(Byte) /\ ms \in Seq(Messages) /\ n \in Nat \ {0} /\ Len(s) \in Nat
      /\ \A i \in 1..n : ms[i] \in Messages /\ Len(ms[i]) \in Nat
  BY EmptySeq DEF Stream, Messages
<1>2. /\ b \in [0..n -> Nat] /\ b[0] = 0 /\ b[n] = Len(s)
      /\ \A i, j \in 0..n : i <= j => b[i] <= b[j]
      /\ \A i \in 1..n : b[i] = b[i - 1] + HeaderLength + Len(ms[i]) /\ FrameAt(s, b[i - 1], ms[i])
  BY <1>0 DEF Boundaries
<1>3. m \in Messages /\ Len(m) \in Nat /\ w \in Nat /\ w = HeaderLength + Len(m)
  BY <1>1 DEF HeaderLength
<1>4. ns \in Seq(Messages) /\ Len(ns) = n - 1 /\ \A i \in 1..n - 1 : ns[i] = ms[i + 1]
  BY <1>1
<1> HIDE DEF m, ns, n, w
<1>5. b[1] = w /\ FrameAt(s, 0, m)
  <2>1. 1 \in 1..n /\ 1 - 1 = 0
    BY <1>1
  <2>2. b[1] = b[0] + HeaderLength + Len(ms[1]) /\ FrameAt(s, b[0], ms[1])
    BY <2>1, <1>2
  <2> QED BY <2>2, <1>1, <1>2, <1>3 DEF m, HeaderLength
<1>6. \A i \in 1..n : w <= b[i] /\ b[i] <= Len(s) /\ b[i] \in Nat
  BY <1>1, <1>2, <1>5
<1>7. w <= Len(s)
  BY <1>1, <1>2, <1>6
<1>8. r \in Seq(Byte) /\ Len(r) = Len(s) - w /\ \A i \in 1..Len(s) - w : r[i] = s[w + i]
  <2>1. w + 1 \in Int /\ Len(s) \in Int /\ \A i \in w + 1..Len(s) : s[i] \in Byte
    BY <1>1, <1>3
  <2>2. /\ r \in Seq(Byte) /\ Len(r) = IF w + 1 <= Len(s) THEN Len(s) - (w + 1) + 1 ELSE 0
        /\ \A i \in 1..Len(s) - (w + 1) + 1 : r[i] = s[(w + 1) + i - 1]
    BY <2>1, SubSeqProperties
  <2> HIDE DEF r
  <2>3. Len(r) = Len(s) - w
    BY <2>2, <1>1, <1>3, <1>7
  <2>4. ASSUME NEW i \in 1..Len(s) - w PROVE r[i] = s[w + i]
    BY <2>2, <1>1, <1>3, SMTT(30)
  <2> QED BY <2>2, <2>3, <2>4
<1> HIDE DEF r
<1>9. \A i \in 0..n - 1 : i + 1 \in 1..n /\ c[i] = b[i + 1] - w /\ c[i] \in Nat /\ c[i] + w = b[i + 1]
  BY <1>1, <1>3, <1>6
<1>10. c \in [0..n - 1 -> Nat]
  BY <1>9
<1> HIDE DEF c
<1>11. c[0] = 0 /\ c[n - 1] = Len(r)
  <2>1. 0 \in 0..n - 1 /\ n - 1 \in 0..n - 1 /\ (n - 1) + 1 = n /\ 0 + 1 = 1
    BY <1>1
  <2>2. c[0] = b[1] - w /\ c[n - 1] = b[n] - w
    BY <2>1, <1>9
  <2> QED BY <2>2, <1>1, <1>2, <1>3, <1>5, <1>8
<1>12. \A i, j \in 0..n - 1 : i <= j => c[i] <= c[j]
  <2> SUFFICES ASSUME NEW i \in 0..n - 1, NEW j \in 0..n - 1, i <= j PROVE c[i] <= c[j]
    OBVIOUS
  <2>1. i + 1 \in 0..n /\ j + 1 \in 0..n /\ i + 1 <= j + 1
    BY <1>1
  <2>2. b[i + 1] <= b[j + 1]
    BY <2>1, <1>2
  <2> QED BY <2>1, <2>2, <1>2, <1>3, <1>9
<1>13. ASSUME NEW i \in 1..n - 1
       PROVE  c[i] = c[i - 1] + HeaderLength + Len(ns[i]) /\ FrameAt(r, c[i - 1], ns[i])
  <2>1. i \in 0..n - 1 /\ i - 1 \in 0..n - 1 /\ (i - 1) + 1 = i /\ i + 1 \in 1..n /\ (i + 1) - 1 = i
        /\ i \in 1..n
    BY <1>1
  <2>2. b[i + 1] = b[i] + HeaderLength + Len(ms[i + 1]) /\ FrameAt(s, b[i], ms[i + 1])
    BY <2>1, <1>2
  <2>3. /\ c[i] + w = b[i + 1] /\ c[i - 1] + w = b[i] /\ ns[i] = ms[i + 1]
        /\ c[i] \in Nat /\ c[i - 1] \in Nat /\ b[i + 1] <= Len(s) /\ Len(ms[i + 1]) \in Nat
    BY <2>1, <1>1, <1>4, <1>6, <1>9
  <2> DEFINE x == c[i]
             y == c[i - 1]
             z == Len(ms[i + 1])
             u == Len(s)
  <2>a. /\ x \in Nat /\ y \in Nat /\ z \in Nat /\ u \in Nat /\ w \in Nat
        /\ x + w = (y + w) + 8 + z /\ x + w <= u /\ y + w = b[i]
    BY <2>2, <2>3, <1>1, <1>3 DEF HeaderLength
  <2>4. c[i] = c[i - 1] + HeaderLength + Len(ns[i])
    <3> SUFFICES x = y + 8 + z
      BY <2>3 DEF HeaderLength
    <3> HIDE DEF x, y, z, u
    <3> QED BY <2>a
  <2>5. \A k \in 1..HeaderLength + Len(ns[i]) : r[c[i - 1] + k] = s[b[i] + k]
    <3> SUFFICES ASSUME NEW k \in 1..8 + z PROVE r[y + k] = s[b[i] + k]
      BY <2>3 DEF HeaderLength
    <3> HIDE DEF x, y, z, u
    <3>1. k \in Nat /\ y + k \in 1..u - w /\ w + (y + k) = b[i] + k
      BY <2>a
    <3>2. r[y + k] = s[w + (y + k)]
      BY <3>1, <1>8 DEF u
    <3> QED BY <3>1, <3>2
  <2>6. FrameAt(r, c[i - 1], ns[i])
    <3> DEFINE at == b[i]
               m2 == ns[i]
    <3>1. /\ at \in Nat /\ y \in Nat /\ Len(m2) \in Nat /\ FrameAt(s, at, m2)
          /\ \A k \in 1..HeaderLength + Len(m2) : r[y + k] = s[at + k]
      BY <2>1, <2>2, <2>3, <2>5, <2>a, <1>2
    <3> HIDE DEF at, y, m2
    <3>2. FrameAt(r, y, m2)
      BY <3>1, FrameMoves
    <3> QED BY <3>2 DEF y, m2
  <2> QED BY <2>4, <2>6
<1>14. Boundaries(r, ns, c)
  BY <1>4, <1>10, <1>11, <1>12, <1>13 DEF Boundaries
<1>15. Stream(r, ns)
  BY <1>4, <1>8, <1>14 DEF Stream
<1> QED BY <1>1, <1>3, <1>5, <1>7, <1>15 DEF m, w, r, ns

\* Less than a header is no row of frames but the empty one.
LEMMA NoFrame ==
    ASSUME NEW s, NEW ms, Stream(s, ms), Len(s) < HeaderLength
    PROVE  ms = <<>>
<1> SUFFICES ASSUME ms # <<>> PROVE FALSE
  OBVIOUS
<1>1. Len(ms[1]) \in Nat /\ Len(s) >= HeaderLength + Len(ms[1])
  BY StreamHead
<1>2. Len(s) \in Nat
  BY DEF Stream
<1> QED BY <1>1, <1>2 DEF HeaderLength

\* No bytes are a row of no frames.
LEMMA NoBytes == Stream(<<>>, <<>>)
<1> DEFINE b == [i \in 0..0 |-> 0]
<1>1. <<>> \in Seq(Byte) /\ <<>> \in Seq(Messages) /\ Len(<<>>) = 0
  OBVIOUS
<1>2. Boundaries(<<>>, <<>>, b)
  BY <1>1 DEF Boundaries
<1> QED BY <1>1, <1>2 DEF Stream

\* x are the bytes of l between two positions.
TakesAll(x, l, from, to) ==
    /\ x \in Seq(Byte)
    /\ Len(x) = IF from <= to THEN to - from + 1 ELSE 0
    /\ \A i \in 1..to - from + 1 : x[i] = l[from + i - 1]

\* SubSeq() does that.
LEMMA SubSeqTakes ==
    ASSUME NEW l \in Seq(Byte), NEW from \in Nat \ {0}, NEW to \in Nat, to <= Len(l),
           NEW x, x = SubSeq(l, from, to)
    PROVE  TakesAll(x, l, from, to)
<1>1. from \in Int /\ to \in Int /\ \A i \in from..to : l[i] \in Byte
  OBVIOUS
<1>2. /\ SubSeq(l, from, to) \in Seq(Byte)
      /\ Len(SubSeq(l, from, to)) = IF from <= to THEN to - from + 1 ELSE 0
      /\ \A i \in 1..to - from + 1 : SubSeq(l, from, to)[i] = l[from + i - 1]
  BY <1>1, SubSeqProperties
<1> QED BY <1>2 DEF TakesAll

\* Bytes that have been read and those that have not make one row of frames.
LEMMA TakeBytes ==
    ASSUME NEW a \in Seq(Byte), NEW l \in Seq(Byte), NEW n \in Nat, n <= Len(l)
    PROVE  /\ SubSeq(l, 1, n) \in Seq(Byte) /\ SubSeq(l, n + 1, Len(l)) \in Seq(Byte)
           /\ Len(SubSeq(l, 1, n)) = n
           /\ (a \o SubSeq(l, 1, n)) \o SubSeq(l, n + 1, Len(l)) = a \o l
<1>1. Len(l) \in Nat
  OBVIOUS
<1>2. SubSeq(l, 1, n) \in Seq(Byte) /\ Len(SubSeq(l, 1, n)) = n
  <2>1. 1 \in Int /\ n \in Int /\ \A i \in 1..n : l[i] \in Byte
    BY <1>1
  <2>2. SubSeq(l, 1, n) \in Seq(Byte) /\ Len(SubSeq(l, 1, n)) = IF 1 <= n THEN n - 1 + 1 ELSE 0
    BY <2>1, SubSeqProperties
  <2> QED BY <2>2
<1>3. SubSeq(l, n + 1, Len(l)) \in Seq(Byte)
  <2>1. n + 1 \in Int /\ Len(l) \in Int /\ \A i \in n + 1..Len(l) : l[i] \in Byte
    BY <1>1
  <2> QED BY <2>1, SubSeqProperties
<1>4. SubSeq(l, 1, n) \o SubSeq(l, n + 1, Len(l)) = SubSeq(l, 1, Len(l))
  <2>1. 1 \in 1..Len(l) + 1 /\ n \in 1 - 1..Len(l) /\ Len(l) \in n..Len(l)
    BY <1>1
  <2> QED BY <2>1, ConcatAdjacentSubSeq
<1>5. SubSeq(l, 1, Len(l)) = l
  BY SubSeqFull
<1>6. (a \o SubSeq(l, 1, n)) \o SubSeq(l, n + 1, Len(l)) = a \o (SubSeq(l, 1, n) \o SubSeq(l, n + 1, Len(l)))
  <2> DEFINE p == SubSeq(l, 1, n)
             q == SubSeq(l, n + 1, Len(l))
  <2>1. p \in Seq(Byte) /\ q \in Seq(Byte)
    BY <1>2, <1>3
  <2> HIDE DEF p, q
  <2>2. (a \o p) \o q = a \o (p \o q)
    BY <2>1, ConcatAssociative
  <2> QED BY <2>2 DEF p, q
<1> QED BY <1>2, <1>3, <1>4, <1>5, <1>6

\* Names for a list with one element more, and one less in front.
With(a, e) == Append(a, e)
Rest(l) == SubSeq(l, 2, Len(l))

\* The same for one byte.
LEMMA TakeByte ==
    ASSUME NEW a \in Seq(Byte), NEW l \in Seq(Byte), Len(l) >= 1, l[1] \in Byte
    PROVE  With(a, l[1]) \o Rest(l) = a \o l
<1>1. PICK n \in Nat : n = 1
  OBVIOUS
<1>a. n <= Len(l) /\ n + 1 = 2 /\ l[1] \in Byte
  BY <1>1
<1>2. (a \o SubSeq(l, 1, 1)) \o SubSeq(l, 2, Len(l)) = a \o l
  <2>1. (a \o SubSeq(l, 1, n)) \o SubSeq(l, n + 1, Len(l)) = a \o l
    BY <1>a, TakeBytes
  <2> QED BY <2>1, <1>1, <1>a
<1>3. SubSeq(l, 1, 1) = <<l[1]>>
  <2>1. PICK x : x = SubSeq(l, n, n)
    OBVIOUS
  <2>2. TakesAll(x, l, n, n)
    <3>1. n \in Nat \ {0} /\ n <= Len(l)
      BY <1>1, <1>a
    <3> QED BY <3>1, <2>1, SubSeqTakes
  <2>3. x \in Seq(Byte) /\ Len(x) = 1 /\ x[1] = l[1]
    BY <2>2, <1>1 DEF TakesAll
  <2>4. <<l[1]>> \in Seq(Byte) /\ Len(<<l[1]>>) = 1
    BY <1>a
  <2>5. x = <<l[1]>>
    BY <2>3, <2>4, SeqEqual
  <2> QED BY <2>1, <2>5, <1>1
<1>4. Append(a, l[1]) = a \o <<l[1]>>
  BY AppendIsConcat
<1> QED BY <1>2, <1>3, <1>4 DEF With, Rest

\* Bytes are a row of no frames only if there are none.
LEMMA SomeFrame ==
    ASSUME NEW s, NEW ms, Stream(s, ms), Len(s) # 0
    PROVE  ms # <<>>
<1> SUFFICES ASSUME ms = <<>> PROVE FALSE
  OBVIOUS
<1>1. PICK b : Boundaries(s, ms, b)
  BY DEF Stream
<1>2. Len(ms) = 0
  OBVIOUS
<1> QED BY <1>1, <1>2 DEF Boundaries

\* The first byte not read yet is one of the delimiter, if that is incomplete.
LEMMA DelimiterRead ==
    ASSUME NEW a \in Seq(Byte), NEW l \in Seq(Byte), NEW ms, Stream(a \o l, ms),
           Len(a) < DelimiterLength, Len(l) >= 1
    PROVE  l[1] = D
<1> DEFINE s == a \o l
           n == Len(a)
<1>0. Stream(s, ms)
  OBVIOUS
<1>1. n \in Nat /\ n < 4 /\ Len(s) = n + Len(l) /\ Len(l) \in Nat /\ s[n + 1] = l[1] /\ Len(s) # 0
  BY ConcatProperties DEF DelimiterLength
<1> HIDE DEF s
<1>2. ms # <<>>
  BY <1>0, <1>1, SomeFrame
<1>3. FrameAt(s, 0, ms[1])
  BY <1>2, StreamHead DEF s
<1>4. \A k \in 1..4 : s[0 + k] = D
  BY <1>3 DEF FrameAt, DelimiterLength
<1>5. n + 1 \in 1..4 /\ 0 + (n + 1) = n + 1
  BY <1>1
<1> QED BY <1>1, <1>4, <1>5

\* A header is that of the first frame.
LEMMA HeaderRead ==
    ASSUME NEW h \in Seq(Byte), NEW r \in Seq(Byte), NEW ms, Stream(h \o r, ms), Len(h) = HeaderLength
    PROVE  /\ ms # <<>> /\ ms[1] \in Messages /\ IsDelimited(h) /\ PayloadLength(h) = Len(ms[1])
           /\ h[7] = TypeOf(ms[1]) /\ h[8] = Checksum /\ Len(r) >= Len(ms[1])
<1> DEFINE s == h \o r
<1>0. Stream(s, ms)
  OBVIOUS
<1>1. /\ s \in Seq(Byte) /\ Len(s) = 8 + Len(r) /\ Len(r) \in Nat
      /\ \A i \in 1..8 : s[i] = h[i]
  <2>1. /\ s \in Seq(Byte) /\ Len(s) = Len(h) + Len(r)
        /\ \A i \in 1..Len(h) + Len(r) : s[i] = IF i <= Len(h) THEN h[i] ELSE r[i - Len(h)]
    BY ConcatProperties
  <2>2. Len(h) = 8 /\ Len(r) \in Nat
    BY DEF HeaderLength
  <2> HIDE DEF s
  <2> QED BY <2>1, <2>2
<1> HIDE DEF s
<1>2. ms # <<>>
  <2>1. Len(s) # 0
    BY <1>1
  <2> QED BY <1>0, <2>1, SomeFrame
<1>3. ms[1] \in Messages /\ Len(ms[1]) \in Nat /\ Len(s) >= 8 + Len(ms[1]) /\ FrameAt(s, 0, ms[1])
  BY <1>2, StreamHead DEF s, HeaderLength
<1> DEFINE m == ms[1]
<1> HIDE DEF m
<1>4. /\ \A k \in 1..4 : s[0 + k] = D
      /\ s[0 + 5] + 256 * s[0 + 6] = Len(m)
      /\ s[0 + 7] = TypeOf(m) /\ s[0 + 8] = Checksum
  BY <1>3 DEF FrameAt, DelimiterLength, m
<1>5. /\ \A k \in 1..4 : s[k] = D
      /\ s[5] + 256 * s[6] = Len(m) /\ s[7] = TypeOf(m) /\ s[8] = Checksum
  BY <1>4
<1>6. /\ \A k \in 1..4 : h[k] = D
      /\ h[5] + 256 * h[6] = Len(m) /\ h[7] = TypeOf(m) /\ h[8] = Checksum
  BY <1>1, <1>5
<1>7. Len(r) >= Len(m)
  BY <1>1, <1>3 DEF m
<1> QED BY <1>2, <1>3, <1>6, <1>7 DEF m, IsDelimited, DelimiterLength, PayloadLength

\* The bytes behind a header are its payload, and behind that is the row of the
\* other frames.
LEMMA PayloadRead ==
    ASSUME NEW h \in Seq(Byte), NEW l \in Seq(Byte), NEW ms, Stream(h \o l, ms), Len(h) = HeaderLength,
           NEW n \in Nat, n = Len(ms[1])
    PROVE  SubSeq(l, 1, n) = ms[1] /\ Stream(SubSeq(l, n + 1, Len(l)), Tail(ms))
<1> DEFINE s == h \o l
           m == ms[1]
<1>1. ms # <<>> /\ m \in Messages /\ n <= Len(l)
  BY HeaderRead
<1>2. /\ Len(s) >= HeaderLength + Len(m) /\ FrameAt(s, 0, m)
      /\ Stream(SubSeq(s, HeaderLength + Len(m) + 1, Len(s)), Tail(ms))
  BY <1>1, StreamHead
<1> HIDE DEF m
<1>3. /\ s \in Seq(Byte) /\ Len(s) = 8 + Len(l) /\ Len(l) \in Nat
      /\ \A k \in 1..Len(l) : s[8 + k] = l[k]
  <2>0. Len(h) = 8 /\ Len(l) \in Nat
    BY DEF HeaderLength
  <2>1. s \in Seq(Byte) /\ Len(s) = 8 + Len(l) /\ Len(l) \in Nat
        /\ \A i \in 1..8 + Len(l) : s[i] = IF i <= 8 THEN h[i] ELSE l[i - 8]
    <3>1. /\ s \in Seq(Byte) /\ Len(s) = Len(h) + Len(l)
          /\ \A i \in 1..Len(h) + Len(l) : s[i] = IF i <= Len(h) THEN h[i] ELSE l[i - Len(h)]
      BY ConcatProperties
    <3> HIDE DEF s
    <3> QED BY <3>1, <2>0
  <2>2. ASSUME NEW k \in 1..Len(l) PROVE s[8 + k] = l[k]
    <3>1. 8 + k \in 1..8 + Len(l) /\ ~(8 + k <= 8) /\ (8 + k) - 8 = k
      BY <2>1
    <3> HIDE DEF s
    <3> QED BY <2>1, <3>1
  <2> QED BY <2>1, <2>2
<1> HIDE DEF s
<1>4. SubSeq(l, 1, n) = m
  <2>1. TakesAll(SubSeq(l, 1, n), l, 1, n)
    <3>1. 1 \in Nat \ {0} /\ n <= Len(l)
      BY <1>1
    <3>2. \A x : x = SubSeq(l, 1, n) => TakesAll(x, l, 1, n)
      BY <3>1, SubSeqTakes
    <3> QED BY <3>2
  <2>2. m \in Seq(Byte) /\ Len(m) = n
    BY <1>1 DEF Messages, m
  <2>3. ASSUME NEW k \in 1..n PROVE SubSeq(l, 1, n)[k] = m[k]
    <3>1. SubSeq(l, 1, n)[k] = l[1 + k - 1] /\ 1 + k - 1 = k
      BY <2>1 DEF TakesAll
    <3>2. s[0 + 8 + k] = m[k]
      BY <1>2, <2>2 DEF FrameAt, HeaderLength
    <3>3. 0 + 8 + k = 8 + k /\ k \in 1..Len(l)
      BY <1>1, <1>3
    <3> QED BY <3>1, <3>2, <3>3, <1>3
  <2>4. Len(SubSeq(l, 1, n)) = n /\ SubSeq(l, 1, n) \in Seq(Byte)
    BY <2>1 DEF TakesAll
  <2> QED BY <2>2, <2>3, <2>4, SeqEqual
<1>5. SubSeq(s, HeaderLength + Len(m) + 1, Len(s)) = SubSeq(l, n + 1, Len(l))
  <2>0. HeaderLength + Len(m) + 1 = n + 9
    BY DEF HeaderLength, m
  <2> DEFINE z == Len(l)
             w == Len(s)
             i9 == n + 9
             i1 == n + 1
             x == SubSeq(s, i9, w)
             y == SubSeq(l, i1, z)
  <2>2. z \in Nat /\ w = 8 + z /\ n <= z /\ w <= Len(s) /\ z <= Len(l) /\ w \in Nat
        /\ i9 \in Nat \ {0} /\ i1 \in Nat \ {0} /\ i9 = n + 9 /\ i1 = n + 1
        /\ \A k \in 1..z : s[8 + k] = l[k]
    BY <1>1, <1>3
  <2> HIDE DEF z, w, i9, i1
  <2>1. TakesAll(x, s, i9, w) /\ TakesAll(y, l, i1, z)
    BY <1>3, <2>2, SubSeqTakes
  <2> HIDE DEF x, y
  <2>3. /\ x \in Seq(Byte) /\ Len(x) = z - n
        /\ \A k \in 1..z - n : x[k] = s[n + 9 + k - 1]
    <3>1. /\ x \in Seq(Byte) /\ Len(x) = IF i9 <= w THEN w - i9 + 1 ELSE 0
          /\ \A k \in 1..w - i9 + 1 : x[k] = s[i9 + k - 1]
      BY <2>1 DEF TakesAll
    <3>2. w - i9 + 1 = z - n /\ (~(i9 <= w) => z - n = 0)
      BY <2>2
    <3> QED BY <3>1, <3>2, <2>2
  <2>4. /\ y \in Seq(Byte) /\ Len(y) = z - n
        /\ \A k \in 1..z - n : y[k] = l[n + 1 + k - 1]
    <3>1. /\ y \in Seq(Byte) /\ Len(y) = IF i1 <= z THEN z - i1 + 1 ELSE 0
          /\ \A k \in 1..z - i1 + 1 : y[k] = l[i1 + k - 1]
      BY <2>1 DEF TakesAll
    <3>2. z - i1 + 1 = z - n /\ (~(i1 <= z) => z - n = 0)
      BY <2>2
    <3> QED BY <3>1, <3>2, <2>2
  <2>6. ASSUME NEW k \in 1..z - n PROVE x[k] = y[k]
    <3>1. PICK j \in 1..z : j = n + k
      BY <2>2
    <3>2. n + 9 + k - 1 = 8 + j /\ n + 1 + k - 1 = j
      BY <3>1
    <3> QED BY <3>2, <2>2, <2>3, <2>4
  <2>7. x = y
    BY <2>3, <2>4, <2>6, SeqEqual
  <2> QED BY <2>0, <2>7 DEF x, y, z, w, i9, i1
<1> QED BY <1>2, <1>4, <1>5 DEF m

\* What is delivered of a queue and of messages that follow does not depend on
\* how many of them are in the queue.
LEMMA DeliveredQueue ==
    ASSUME NEW T, NEW q \in Seq(T), NEW ms \in Seq(T), ms # <<>>
    PROVE  /\ Delivered(q \o ms) = Delivered(Append(q, ms[1]) \o Tail(ms))
           /\ Delivered(q \o ms) = Delivered(Append(q, ms[1])) \o Delivered(Tail(ms))
<1>1. ms[1] \in T /\ Tail(ms) \in Seq(T)
  BY EmptySeq
<1>2. Append(q, ms[1]) \in Seq(T)
  BY <1>1
<1>3. q \o ms = Append(q, ms[1]) \o Tail(ms)
  <2>1. ms = <<ms[1]>> \o Tail(ms) /\ <<ms[1]>> \in Seq(T)
    <3>1. <<ms[1]>> \in Seq(T)
      BY <1>1
    <3> DEFINE h == <<ms[1]>>
               t == Tail(ms)
    <3>2. Len(h) = 1 /\ h[1] = ms[1] /\ h \in Seq(T)
      BY <3>1
    <3>3. t \in Seq(T) /\ Len(t) = Len(ms) - 1 /\ (\A i \in 1..Len(t) : t[i] = ms[i + 1])
          /\ Len(ms) \in Nat
      BY HeadTailProperties
    <3> HIDE DEF h, t
    <3>4. h \o t \in Seq(T) /\ Len(h \o t) = Len(ms)
          /\ \A i \in 1..1 + Len(t) : (h \o t)[i] = IF i <= 1 THEN h[i] ELSE t[i - 1]
      <4>1. h \o t \in Seq(T) /\ Len(h \o t) = Len(h) + Len(t)
            /\ \A i \in 1..Len(h) + Len(t) : (h \o t)[i] = IF i <= Len(h) THEN h[i] ELSE t[i - Len(h)]
        <5>1. h \in Seq(T) /\ t \in Seq(T)
          BY <3>2, <3>3
        <5> QED BY <5>1, ConcatProperties
      <4> QED BY <4>1, <3>2, <3>3
    <3>5. ASSUME NEW i \in 1..Len(ms) PROVE (h \o t)[i] = ms[i]
      <4>1. i \in 1..1 + Len(t)
        BY <3>3
      <4>2. CASE i = 1
        BY <4>1, <4>2, <3>2, <3>4
      <4>3. CASE i # 1
        <5>1. i - 1 \in 1..Len(t) /\ (i - 1) + 1 = i /\ ~(i <= 1)
          BY <4>3, <3>3
        <5> QED BY <5>1, <4>1, <3>3, <3>4
      <4> QED BY <4>2, <4>3
    <3>6. h \o t = ms
      BY <3>4, <3>5, SeqEqual
    <3> QED BY <3>1, <3>6 DEF h, t
  <2>2. Append(q, ms[1]) = q \o <<ms[1]>>
    BY <1>1, AppendIsConcat
  <2> DEFINE h == <<ms[1]>>
             t == Tail(ms)
  <2>3. h \in Seq(T) /\ t \in Seq(T) /\ ms = h \o t /\ Append(q, ms[1]) = q \o h
    BY <1>1, <2>1, <2>2
  <2> HIDE DEF h, t
  <2>4. (q \o h) \o t = q \o (h \o t)
    BY <2>3, ConcatAssociative
  <2> QED BY <2>3, <2>4 DEF t
<1>4. Delivered(Append(q, ms[1]) \o Tail(ms)) = Delivered(Append(q, ms[1])) \o Delivered(Tail(ms))
  <2> DEFINE x == Append(q, ms[1])
             y == Tail(ms)
  <2>1. x \in Seq(T) /\ y \in Seq(T)
    BY <1>1, <1>2
  <2> HIDE DEF x, y
  <2>2. Delivered(x \o y) = Delivered(x) \o Delivered(y)
    BY <2>1, DeliveredConcat
  <2> QED BY <2>2 DEF x, y
<1> QED BY <1>3, <1>4

-----------------------------------------------------------------------------
(* Types.                                                                  *)

\* What is in the lists and records of both sides.
ListsOK ==
    /\ toHost \in Seq(Byte) /\ toTarget \in Seq(Byte) /\ rxBuffer \in Seq(Byte)
    /\ queue \in Seq(Seq(Byte)) /\ sentToHost \in Seq(Seq(Byte)) /\ sentToTarget \in Seq(Seq(Byte))
    /\ gotHost \in Seq(Seq(Byte)) /\ gotTarget \in Seq(Seq(Byte))
    /\ framed \in Seq(Seq(Byte)) /\ misread \in BOOLEAN
    /\ inStep \in BOOLEAN /\ safeFrom \in Nat

\* The receiver of the host: what it still needs completes the header.
HostTypes ==
    /\ port \in {"closed", "connecting", "open"} /\ attempts \in 0..3
    /\ rxState \in {"RxDelimiter", "RxHeader", "RxPayload"}
    /\ storage \in {"none", "header", "large"}
    /\ needed \in Nat /\ needed <= 65535
    /\ rxState = "RxDelimiter" => needed = 1
    /\ rxState = "RxHeader" => needed \in 1..8 /\ Len(rxBuffer) + needed = 8

\* The same for the receiver of the target.
TargetTypes ==
    /\ rx \in [state : {"RxDelimiter", "RxHeader", "RxPayload", "stopped"}, delimiters : 0..3,
               header : Seq(Byte), needed : 0..32]
    /\ rx.state = "RxDelimiter" => rx.needed = 1
    /\ rx.state = "RxHeader" => Len(rx.header) + rx.needed = 8

\* The inductive invariant behind TypeOK.
Types == ListsOK /\ HostTypes /\ TargetTypes

\* The types of the model, and what an index into a header needs to be in range.
LEMMA TypesImplyTypeOK == Types => TypeOK
<1> SUFFICES ASSUME Types PROVE TypeOK
  OBVIOUS
<1>1. misread \in BOOLEAN
  BY DEF Types, ListsOK
<1>2. HostTypes /\ TargetTypes
  BY DEF Types
<1> QED BY <1>1, <1>2 DEF HostTypes, TargetTypes, TypeOK, DelimiterLength

\* What both sides send are frames of messages.
LEMMA ResetIsMessage == <<>> \in Messages /\ TypeOf(<<>>) = ResetConnection
<1>1. <<>> \in Seq(Byte) /\ Len(<<>>) = 0
  OBVIOUS
<1> QED BY <1>1 DEF Messages, TypeOf, MaxPayload

\* A payload makes a frame that is not taken for a reset.
LEMMA PayloadIsMessage ==
    ASSUME NEW p \in Payloads
    PROVE  p \in Messages /\ p # <<>> /\ TypeOf(p) = RocMessage /\ p \in Seq(Byte)
<1>1. p \in Seq(Byte) /\ Len(p) \in Nat /\ Len(p) >= 1 /\ Len(p) <= MaxPayload
  <2>1. p \in Seq(Byte)
    BY FramesAssumption DEF Byte
  <2>2. Len(p) \in 1..MaxPayload
    BY FramesAssumption, Zenon
  <2>3. \A n \in 1..MaxPayload : n \in Nat /\ n >= 1 /\ n <= MaxPayload
    BY DEF MaxPayload
  <2> QED BY <2>1, <2>2, <2>3, Zenon
<1>2. p # <<>>
  BY <1>1
<1> QED BY <1>1, <1>2 DEF Messages, TypeOf

\* Sending appends bytes.
LEMMA FramesAreBytes ==
    ASSUME NEW l \in Seq(Byte)
    PROVE  /\ l \o Frame(ResetConnection, <<>>) \in Seq(Byte)
           /\ \A p \in Payloads : l \o Frame(RocMessage, p) \in Seq(Byte)
<1>1. Frame(ResetConnection, <<>>) \in Seq(Byte)
  BY ResetIsMessage, FrameElements
<1>2. ASSUME NEW p \in Payloads PROVE Frame(RocMessage, p) \in Seq(Byte)
  BY PayloadIsMessage, FrameElements
<1>3. \A f \in Seq(Byte) : l \o f \in Seq(Byte)
  OBVIOUS
<1> QED BY <1>1, <1>2, <1>3

\* Damaged bytes are bytes.
LEMMA DamageIsBytes ==
    ASSUME NEW l \in Seq(Byte), NEW i \in DOMAIN l
    PROVE  Dropped(l, i) \in Seq(Byte) /\ Added(l, i) \in Seq(Byte)
<1> DEFINE n == Len(l)
           a == i - 1
           c == i + 1
<1>1. n \in Nat /\ i \in 1..n
  OBVIOUS
<1>2. \A m, k \in Int : (\A j \in m..k : l[j] \in Byte) => SubSeq(l, m, k) \in Seq(Byte)
  BY SubSeqProperties
<1>3. a \in Int /\ c \in Int /\ (\A j \in 1..a : l[j] \in Byte) /\ (\A j \in c..n : l[j] \in Byte)
      /\ \A j \in i..n : l[j] \in Byte
  BY <1>1
<1> HIDE DEF n, a, c
<1>4. SubSeq(l, 1, a) \in Seq(Byte) /\ SubSeq(l, c, n) \in Seq(Byte) /\ SubSeq(l, i, n) \in Seq(Byte)
  BY <1>1, <1>2, <1>3
<1>5. \A x, y \in Seq(Byte) : x \o y \in Seq(Byte)
  OBVIOUS
<1>6. <<0>> \in Seq(Byte)
  BY DEF Byte
<1> QED BY <1>4, <1>5, <1>6 DEF Dropped, Added, RemoveAt, InsertAt, n, a, c

\* A length is not negative, and has two bytes.
LEMMA LengthType ==
    ASSUME NEW h \in Seq(Byte), Len(h) = 8
    PROVE  PayloadLength(h) \in Nat /\ PayloadLength(h) <= 65535
<1>1. h[5] \in Byte /\ h[6] \in Byte
  <2>1. 5 \in 1..Len(h) /\ 6 \in 1..Len(h)
    OBVIOUS
  <2> QED BY <2>1, ElementOfSeq
<1>2. \A x, y \in Byte : x + 256 * y \in Nat /\ x + 256 * y <= 65535
  BY DEF Byte
<1> QED BY <1>1, <1>2 DEF PayloadLength

\* What has been read, and what is left on the line.
LEMMA ReadTypes ==
    ASSUME NEW l \in Seq(Byte), NEW n \in Nat, n <= Len(l)
    PROVE  SubSeq(l, 1, n) \in Seq(Byte) /\ Len(SubSeq(l, 1, n)) = n
           /\ SubSeq(l, n + 1, Len(l)) \in Seq(Byte)
<1>1. <<>> \in Seq(Byte)
  OBVIOUS
<1> QED BY <1>1, TakeBytes

\* A message has bytes, whatever its length has been taken for.
LEMMA CopiedType ==
    ASSUME toHost \in Seq(Byte), needed \in Nat, needed <= Len(toHost), NEW length \in Lengths
    PROVE  length \in Nat /\ Copied(length) \in Seq(Byte) /\ (length = needed => Copied(length) = Bytes)
<1>1. PICK l, n : l = toHost /\ n = needed
  OBVIOUS
<1>2. l \in Seq(Byte) /\ n \in Nat /\ n <= Len(l) /\ Len(l) \in Nat
  BY <1>1
<1>3. length \in Nat
  <2>1. Garbage \subseteq Nat
    BY FramesAssumption, Zenon
  <2> QED BY <2>1 DEF Lengths
<1>4. 0 \in Byte /\ \A i \in 1..n : l[i] \in Byte
  <2>1. \A i \in 1..n : i \in 1..Len(l)
    BY <1>2
  <2>2. \A i \in 1..n : l[i] \in Byte
    BY <1>2, <2>1, ElementOfSeq
  <2> QED BY <2>2 DEF Byte
<1>5. Copied(length) = [i \in 1..length |-> IF i <= n THEN l[i] ELSE 0]
  BY <1>1 DEF Copied
<1>6. \A i \in 1..length : (IF i <= n THEN l[i] ELSE 0) \in Byte
  BY <1>2, <1>3, <1>4
<1>7. Copied(length) \in Seq(Byte)
  BY <1>3, <1>5, <1>6
<1>8. ASSUME length = needed PROVE Copied(length) = Bytes
  <2>1. TakesAll(SubSeq(l, 1, n), l, 1, n)
    <3>1. 1 \in Nat \ {0}
      OBVIOUS
    <3> QED BY <1>2, <3>1, SubSeqTakes
  <2>2. PICK s : s = SubSeq(l, 1, n)
    OBVIOUS
  <2>3. s \in Seq(Byte) /\ Len(s) = n /\ \A k \in 1..n : s[k] = l[k]
    <3>1. TakesAll(s, l, 1, n)
      BY <2>1, <2>2
    <3>2. s \in Seq(Byte) /\ Len(s) = n /\ \A k \in 1..n : s[k] = l[1 + k - 1]
      BY <3>1, <1>2 DEF TakesAll
    <3>3. \A k \in 1..n : 1 + k - 1 = k
      BY <1>2
    <3> QED BY <3>2, <3>3
  <2>4. PICK c : c = Copied(length)
    OBVIOUS
  <2>5. c = [i \in 1..n |-> IF i <= n THEN l[i] ELSE 0]
    BY <1>1, <1>5, <1>8, <2>4
  <2>6. c \in Seq(Byte) /\ Len(c) = n /\ \A k \in 1..n : c[k] = l[k]
    BY <1>2, <1>7, <2>4, <2>5
  <2>7. c = s
    BY <2>3, <2>6, SeqEqual
  <2> QED BY <1>1, <2>2, <2>4, <2>7 DEF Bytes
<1> QED BY <1>3, <1>7, <1>8

\* What does not change keeps its type.
LEMMA HostTypesStay ==
    ASSUME HostTypes, UNCHANGED <<port, attempts, rxState, rxBuffer, needed, storage>>
    PROVE  HostTypes'
BY DEF HostTypes

\* The same for the target.
LEMMA TargetTypesStay ==
    ASSUME TargetTypes, UNCHANGED rx
    PROVE  TargetTypes'
BY DEF TargetTypes

\* Initially, and in each step, the types are right.
LEMMA InitTypes == Init => Types
<1> SUFFICES ASSUME Init PROVE Types
  OBVIOUS
<1>1. <<>> \in Seq(Byte) /\ <<>> \in Seq(Seq(Byte))
  OBVIOUS
<1>2. ListsOK
  BY <1>1 DEF Init, ListsOK
<1>3. HostTypes
  BY DEF Init, HostTypes
<1>4. TargetTypes
  BY <1>1 DEF Init, TargetTypes, Searching
<1> QED BY <1>2, <1>3, <1>4 DEF Types

\* Each group of actions keeps the types: sending,
LEMMA SendTypes ==
    ASSUME Types, NEW p \in Payloads, HostSendsMessage(p) \/ TargetSends(p)
    PROVE  Types'
<1>1. ListsOK'
  <2>1. CASE HostSendsMessage(p)
    BY <2>1, FramesAreBytes, PayloadIsMessage
       DEF Types, ListsOK, HostSendsMessage, HostSend, socket
  <2>2. CASE TargetSends(p)
    BY <2>2, FramesAreBytes, PayloadIsMessage DEF Types, ListsOK, TargetSends, socket
  <2> QED BY <2>1, <2>2
<1>2. UNCHANGED <<port, attempts, rxState, rxBuffer, needed, storage, rx>>
  BY DEF HostSendsMessage, TargetSends, socket
<1>3. HostTypes' /\ TargetTypes'
  BY <1>2, HostTypesStay, TargetTypesStay DEF Types
<1> QED BY <1>1, <1>3 DEF Types

\* losing and adding bytes,
LEMMA DamageTypes ==
    ASSUME Types, DamageToHost \/ DamageToTarget
    PROVE  Types'
<1>1. ListsOK'
  <2>1. CASE DamageToHost
    <3>1. toHost' \in Seq(Byte)
      BY <2>1, DamageIsBytes DEF Types, ListsOK, DamageToHost
    <3> QED BY <2>1, <3>1 DEF Types, ListsOK, DamageToHost, socket
  <2>2. CASE DamageToTarget
    <3>1. toTarget' \in Seq(Byte)
      BY <2>2, DamageIsBytes DEF Types, ListsOK, DamageToTarget
    <3>2. safeFrom' \in Nat
      BY <2>2 DEF Types, ListsOK, DamageToTarget
    <3> QED BY <2>2, <3>1, <3>2 DEF Types, ListsOK, DamageToTarget, socket
  <2> QED BY <2>1, <2>2
<1>2. UNCHANGED <<port, attempts, rxState, rxBuffer, needed, storage, rx>>
  BY DEF DamageToHost, DamageToTarget, socket
<1>3. HostTypes' /\ TargetTypes'
  BY <1>2, HostTypesStay, TargetTypesStay DEF Types
<1> QED BY <1>1, <1>3 DEF Types

\* the receiver of the host,
LEMMA HostReceivesTypes ==
    ASSUME Types, HostReceives
    PROVE  Types'
<1>0. /\ toHost \in Seq(Byte) /\ rxBuffer \in Seq(Byte) /\ needed \in Nat /\ needed <= Len(toHost)
      /\ queue \in Seq(Seq(Byte)) /\ gotHost \in Seq(Seq(Byte)) /\ framed \in Seq(Seq(Byte))
      /\ misread \in BOOLEAN
      /\ rxState \in {"RxDelimiter", "RxHeader", "RxPayload"}
      /\ storage \in {"none", "header", "large"}
  <2>1. toHost \in Seq(Byte) /\ rxBuffer \in Seq(Byte) /\ queue \in Seq(Seq(Byte)) /\ gotHost \in Seq(Seq(Byte))
        /\ framed \in Seq(Seq(Byte)) /\ misread \in BOOLEAN
    BY DEF Types, ListsOK
  <2>2. needed \in Nat /\ rxState \in {"RxDelimiter", "RxHeader", "RxPayload"}
        /\ storage \in {"none", "header", "large"}
    BY DEF Types, HostTypes
  <2>3. Len(toHost) >= needed
    BY DEF HostReceives, HostSearches, HostReadsHeader, HostReadsPayload, CanRead
  <2>4. Len(toHost) \in Nat
    BY <2>1
  <2> QED BY <2>1, <2>2, <2>3, <2>4
<1>1. Bytes \in Seq(Byte) /\ Len(Bytes) = needed /\ SubSeq(toHost, needed + 1, Len(toHost)) \in Seq(Byte)
  BY <1>0, ReadTypes DEF Bytes
<1>2. toHost' \in Seq(Byte) /\ UnchangedButRx
  BY <1>1 DEF HostReceives, HostSearches, HostReadsHeader, HostReadsPayload, Consume
<1>3. TargetTypes'
  BY <1>2, TargetTypesStay DEF Types, UnchangedButRx
<1>4. /\ toTarget' \in Seq(Byte) /\ sentToHost' \in Seq(Seq(Byte)) /\ sentToTarget' \in Seq(Seq(Byte))
      /\ gotTarget' \in Seq(Seq(Byte)) /\ inStep' \in BOOLEAN /\ safeFrom' \in Nat
      /\ port' \in {"closed", "connecting", "open"} /\ attempts' \in 0..3
  BY <1>2 DEF Types, ListsOK, HostTypes, UnchangedButRx
<1>5. CASE HostSearches
  <2>1. rxBuffer' \in Seq(Byte) /\ storage' \in {"none", "header", "large"}
    <3>0. <<>> \in Seq(Byte)
      OBVIOUS
    <3>1. toHost[1] \in Byte
      <4>1. needed = 1
        BY <1>5 DEF HostSearches, Types, HostTypes
      <4>2. 1 \in 1..Len(toHost)
        BY <4>1, <1>0
      <4> QED BY <4>2, <1>0, ElementOfSeq
    <3>2. /\ rxBuffer' \in {Append(rxBuffer, toHost[1]), <<>>}
          /\ storage' \in {"large", storage, "none"}
      BY <1>5 DEF HostSearches
    <3>3. Append(rxBuffer, toHost[1]) \in Seq(Byte)
      BY <3>1, <1>0
    <3> QED BY <3>0, <3>2, <3>3, <1>0
  <2>2. \/ Len(rxBuffer') = 4 /\ rxState' = "RxHeader" /\ needed' = 4
        \/ rxState' = "RxDelimiter" /\ needed' = 1
    <3>1. IF Len(rxBuffer') = DelimiterLength
          THEN rxState' = "RxHeader" /\ needed' = HeaderLength - DelimiterLength
          ELSE rxState' = "RxDelimiter" /\ needed' = 1
      BY <1>5 DEF HostSearches
    <3>2. DelimiterLength = 4 /\ HeaderLength - DelimiterLength = 4
      BY DEF HeaderLength, DelimiterLength
    <3> QED BY <3>1, <3>2
  <2>3. queue' = queue /\ gotHost' = gotHost /\ framed' = framed /\ misread' = misread
    BY <1>5 DEF HostSearches
  <2>4. ListsOK'
    BY <1>0, <1>2, <1>4, <2>1, <2>3 DEF ListsOK
  <2>5. HostTypes'
    <3>1. rxState' \in {"RxDelimiter", "RxHeader", "RxPayload"} /\ needed' \in {1, 4}
      BY <2>2
    <3>2. needed' \in Nat /\ needed' <= 65535 /\ needed' \in 1..8
      BY <3>1
    <3>3. (rxState' = "RxDelimiter" => needed' = 1) /\ (rxState' = "RxHeader" => Len(rxBuffer') + needed' = 8)
      <4>1. PICK b, k : b = rxBuffer' /\ k = needed'
        OBVIOUS
      <4>2. CASE Len(b) = 4 /\ rxState' = "RxHeader" /\ k = 4
        BY <4>1, <4>2
      <4>3. CASE rxState' = "RxDelimiter" /\ k = 1
        BY <4>1, <4>3
      <4> QED BY <2>2, <4>1, <4>2, <4>3
    <3> QED BY <1>4, <2>1, <3>1, <3>2, <3>3 DEF HostTypes
  <2> QED BY <1>3, <2>4, <2>5 DEF Types
<1>6. CASE HostReadsHeader
  <2>1. rxBuffer' \in Seq(Byte) /\ Len(rxBuffer') = 8
    <3>1. rxBuffer' = rxBuffer \o Bytes /\ Len(rxBuffer) + needed = 8
      <4>1. rxBuffer' = rxBuffer \o Bytes /\ rxState = "RxHeader"
        BY <1>6 DEF HostReadsHeader
      <4> HIDE DEF Bytes
      <4> QED BY <4>1 DEF Types, HostTypes
    <3> HIDE DEF Bytes
    <3> QED BY <3>1, <1>0, <1>1
  <2>2. PayloadLength(rxBuffer') \in Nat /\ PayloadLength(rxBuffer') <= 65535
    <3>1. PICK h : h = rxBuffer'
      OBVIOUS
    <3>2. h \in Seq(Byte) /\ Len(h) = 8
      BY <3>1, <2>1
    <3>3. PayloadLength(h) \in Nat /\ PayloadLength(h) <= 65535
      BY <3>2, LengthType
    <3>4. PayloadLength(rxBuffer') = PayloadLength(h)
      BY <3>1
    <3> QED BY <3>3, <3>4
  <2>3. \/ rxState' = "RxPayload" /\ needed' \in Nat /\ needed' <= 65535
        \/ rxState' = "RxDelimiter" /\ needed' = 1
    <3>1. \/ rxState' = "RxPayload" /\ needed' = PayloadLength(rxBuffer')
          \/ rxState' = "RxDelimiter" /\ needed' = 1
      BY <1>6 DEF HostReadsHeader
    <3> QED BY <3>1, <2>2
  <2>4. queue' = queue /\ gotHost' = gotHost /\ storage' = storage /\ framed' = framed /\ misread' = misread
    BY <1>6 DEF HostReadsHeader
  <2>5. ListsOK'
    BY <1>0, <1>2, <1>4, <2>1, <2>4 DEF ListsOK
  <2>6. storage' \in {"none", "header", "large"}
    BY <2>4 DEF Types, HostTypes
  <2>7. HostTypes'
    BY <1>4, <2>3, <2>6 DEF HostTypes
  <2> QED BY <1>3, <2>5, <2>7 DEF Types
<1>7. CASE HostReadsPayload
  <2>1. rxBuffer' = <<>> /\ storage' = "header" /\ rxState' = "RxHeader" /\ needed' = 8
    <3>1. rxBuffer' = <<>> /\ storage' = "header" /\ rxState' = "RxHeader" /\ needed' = HeaderLength
      BY <1>7 DEF HostReadsPayload
    <3> QED BY <3>1 DEF HeaderLength
  <2>2. PICK length \in Lengths :
            /\ misread' = (misread \/ length # needed)
            /\ IF port = "open"
               THEN queue' = <<>> /\ gotHost' = gotHost \o Delivered(Append(queue, Copied(length)))
               ELSE queue' = Append(queue, Copied(length)) /\ UNCHANGED gotHost
    BY <1>7 DEF HostReadsPayload
  <2>3. queue' \in Seq(Seq(Byte)) /\ gotHost' \in Seq(Seq(Byte))
    <3>0. Append(queue, Copied(length)) \in Seq(Seq(Byte))
      <4>1. Copied(length) \in Seq(Byte)
        BY <1>0, <2>2, CopiedType
      <4> HIDE DEF Copied
      <4> QED BY <1>0, <4>1, AppendProperties
    <3> HIDE DEF Copied
    <3>1. Delivered(Append(queue, Copied(length))) \in Seq(Seq(Byte))
      BY <3>0, DeliveredType
    <3>2. gotHost \o Delivered(Append(queue, Copied(length))) \in Seq(Seq(Byte))
      BY <3>1, <1>0, ConcatProperties
    <3>3. <<>> \in Seq(Seq(Byte))
      OBVIOUS
    <3> QED BY <1>0, <2>2, <3>0, <3>2, <3>3
  <2>5. framed' \in Seq(Seq(Byte)) /\ misread' \in BOOLEAN
    <3>1. framed' = Append(framed, Bytes)
      BY <1>7 DEF HostReadsPayload
    <3>2. misread' \in BOOLEAN
      BY <2>2
    <3> HIDE DEF Bytes
    <3> QED BY <1>0, <1>1, <3>1, <3>2, AppendProperties
  <2>4. rxBuffer' \in Seq(Byte) /\ Len(rxBuffer') = 0
    BY <2>1
  <2> QED BY <1>0, <1>2, <1>3, <1>4, <2>1, <2>3, <2>4, <2>5 DEF Types, ListsOK, HostTypes
<1> QED BY <1>5, <1>6, <1>7 DEF HostReceives

\* its connection,
LEMMA ConnectTypes ==
    ASSUME Types, HostOpens \/ HostTakesReply \/ HostTimesOut \/ HostCloses
    PROVE  Types'
<1>1. UnchangedButPort
  BY DEF HostOpens, HostTakesReply, HostTimesOut, HostCloses
<1>2. port' \in {"closed", "connecting", "open"} /\ attempts' \in 0..3
  BY DEF HostOpens, HostTakesReply, HostTimesOut, HostCloses, NextAttempt, Close, MaxAttempts,
         Types, HostTypes
<1>3. toHost' \in Seq(Byte) /\ inStep' \in BOOLEAN
  <2>1. <<>> \in Seq(Byte)
    OBVIOUS
  <2> QED BY <2>1 DEF HostOpens, HostTakesReply, HostTimesOut, HostCloses, NextAttempt, Close, Types, ListsOK
<1>4. toTarget' \in Seq(Byte)
  BY FramesAreBytes DEF HostOpens, HostTakesReply, HostTimesOut, HostCloses, NextAttempt, HostSend, Types, ListsOK
<1>5. queue' \in Seq(Seq(Byte)) /\ gotHost' \in Seq(Seq(Byte))
  <2>1. CASE HostTakesReply
    <3>1. queue \in Seq(Seq(Byte)) /\ queue # <<>> /\ gotHost \in Seq(Seq(Byte))
      BY <2>1 DEF HostTakesReply, Types, ListsOK
    <3>2. Head(queue) \in Seq(Byte) /\ Tail(queue) \in Seq(Seq(Byte))
      BY <3>1, HeadTailProperties
    <3>3. Append(gotHost, Head(queue)) \in Seq(Seq(Byte))
      BY <3>1, <3>2, AppendProperties
    <3> QED BY <2>1, <3>1, <3>2, <3>3 DEF HostTakesReply
  <2>2. CASE ~HostTakesReply
    BY <2>2 DEF HostOpens, HostTimesOut, HostCloses, Types, ListsOK
  <2> QED BY <2>1, <2>2
<1>6. ListsOK'
  BY <1>1, <1>3, <1>4, <1>5 DEF UnchangedButPort, Types, ListsOK
<1>7. HostTypes' /\ TargetTypes'
  <2>1. UNCHANGED <<rxState, rxBuffer, needed, storage, rx>>
    BY <1>1 DEF UnchangedButPort
  <2>2. HostTypes'
    BY <1>2, <2>1 DEF Types, HostTypes
  <2> QED BY <2>1, <2>2, TargetTypesStay DEF Types
<1> QED BY <1>6, <1>7 DEF Types

\* the receiver of the target;
LEMMA TargetReceivesTypes ==
    ASSUME Types, TargetReceives
    PROVE  Types'
<1>0. /\ toTarget \in Seq(Byte) /\ toHost \in Seq(Byte) /\ rx.header \in Seq(Byte) /\ rx.needed \in Nat
      /\ rx.needed <= Len(toTarget) /\ gotTarget \in Seq(Seq(Byte)) /\ rx.delimiters \in 0..3
  <2>1. toTarget \in Seq(Byte) /\ toHost \in Seq(Byte) /\ gotTarget \in Seq(Seq(Byte))
    BY DEF Types, ListsOK
  <2>2. rx.header \in Seq(Byte) /\ rx.needed \in Nat /\ rx.delimiters \in 0..3
    <3>1. rx \in [state : {"RxDelimiter", "RxHeader", "RxPayload", "stopped"}, delimiters : 0..3,
                  header : Seq(Byte), needed : 0..32]
      BY DEF Types, TargetTypes
    <3>2. rx.header \in Seq(Byte) /\ rx.needed \in 0..32 /\ rx.delimiters \in 0..3
      BY <3>1
    <3>3. 0..32 \subseteq Nat
      OBVIOUS
    <3> QED BY <3>2, <3>3
  <2>3. Len(toTarget) >= rx.needed
    BY DEF TargetReceives, TargetSearches, TargetReadsHeader, TargetReadsPayload, TargetHas
  <2>4. Len(toTarget) \in Nat
    BY <2>1
  <2> QED BY <2>1, <2>2, <2>3, <2>4
<1>1. /\ Taken \in Seq(Byte) /\ Len(Taken) = rx.needed
      /\ SubSeq(toTarget, rx.needed + 1, Len(toTarget)) \in Seq(Byte)
  <2>1. PICK n \in Nat : n = rx.needed
    BY <1>0
  <2>2. n <= Len(toTarget)
    BY <1>0, <2>1
  <2>3. SubSeq(toTarget, 1, n) \in Seq(Byte) /\ Len(SubSeq(toTarget, 1, n)) = n
        /\ SubSeq(toTarget, n + 1, Len(toTarget)) \in Seq(Byte)
    BY <1>0, <2>2, ReadTypes
  <2> QED BY <2>1, <2>3 DEF Taken
<1>2. toTarget' \in Seq(Byte) /\ UnchangedButTarget
  BY <1>1 DEF TargetReceives, TargetSearches, TargetReadsHeader, TargetReadsPayload, Take
<1>3. HostTypes'
  BY <1>2 DEF Types, HostTypes, UnchangedButTarget, socket
<1>4. toHost' \in Seq(Byte)
  BY <1>0, FramesAreBytes DEF TargetReceives, TargetSearches, TargetReadsHeader, TargetReadsPayload
<1>5. gotTarget' \in Seq(Seq(Byte))
  <2>1. gotTarget' \in {gotTarget, Append(gotTarget, Taken)}
    BY DEF TargetReceives, TargetSearches, TargetReadsHeader, TargetReadsPayload
  <2>2. Append(gotTarget, Taken) \in Seq(Seq(Byte))
    BY <1>0, <1>1, AppendProperties
  <2> QED BY <1>0, <2>1, <2>2
<1>6. ListsOK'
  BY <1>2, <1>4, <1>5 DEF Types, ListsOK, UnchangedButTarget, socket
<1> DEFINE States == {"RxDelimiter", "RxHeader", "RxPayload", "stopped"}
           Rx(r) == /\ r \in [state : States, delimiters : 0..3, header : Seq(Byte), needed : 0..32]
                    /\ r.state = "RxDelimiter" => r.needed = 1
                    /\ r.state = "RxHeader" => Len(r.header) + r.needed = 8
<1>7. /\ Rx(Searching) /\ Rx(Stopped) /\ Rx(Expecting("RxHeader", <<>>, 8))
      /\ Rx(Expecting("RxHeader", <<D, D, D, D>>, 4))
  <2>1. <<>> \in Seq(Byte) /\ Len(<<>>) = 0 /\ Len(<<D, D, D, D>>) = 4
    OBVIOUS
  <2>2. <<D, D, D, D>> \in Seq(Byte)
    BY DEF D, Byte
  <2> QED BY <2>1, <2>2 DEF Searching, Stopped, Expecting
<1>8. Rx(rx')
  <2>1. CASE TargetSearches
    <3>1. \A n \in 0..3 : Rx([Searching EXCEPT !.delimiters = n])
      <4> SUFFICES ASSUME NEW n \in 0..3 PROVE Rx([Searching EXCEPT !.delimiters = n])
        OBVIOUS
      <4>1. [Searching EXCEPT !.delimiters = n]
            = [state |-> "RxDelimiter", delimiters |-> n, header |-> <<>>, needed |-> 1]
        BY DEF Searching
      <4>2. <<>> \in Seq(Byte) /\ 1 \in 0..32 /\ "RxDelimiter" \in States
        OBVIOUS
      <4>3. PICK r : r = [state |-> "RxDelimiter", delimiters |-> n, header |-> <<>>, needed |-> 1]
        OBVIOUS
      <4>4. r \in [state : States, delimiters : 0..3, header : Seq(Byte), needed : 0..32]
        BY <4>2, <4>3
      <4>5. r.state = "RxDelimiter" /\ r.needed = 1
        BY <4>3
      <4>6. Rx(r)
        <5> HIDE DEF States
        <5> QED BY <4>4, <4>5
      <4> HIDE DEF Rx
      <4> QED BY <4>1, <4>3, <4>6
    <3>2. PICK n \in 0..4 : n = IF toTarget[1] = D THEN rx.delimiters + 1 ELSE 0
      BY <1>0
    <3>3. CASE n = 4
      BY <3>2, <3>3, <2>1, <1>7 DEF TargetSearches, DelimiterLength, HeaderLength
    <3>4. CASE n # 4
      <4>1. n \in 0..3 /\ rx' = [Searching EXCEPT !.delimiters = n]
        BY <3>2, <3>4, <2>1 DEF TargetSearches, DelimiterLength
      <4> QED BY <4>1, <3>1
    <3> QED BY <3>3, <3>4
  <2>2. CASE TargetReadsHeader
    <3>1. PICK h : h = rx.header \o Taken
      OBVIOUS
    <3>2. rx.state = "RxHeader" /\ Len(rx.header) + rx.needed = 8
      BY <2>2 DEF TargetReadsHeader, TargetHas, Types, TargetTypes
    <3>3. h \in Seq(Byte) /\ Len(h) = 8
      BY <3>1, <3>2, <1>0, <1>1, ConcatProperties
    <3>4. PayloadLength(h) \in Nat
      BY <3>3, LengthType
    <3>5. \/ rx' \in {Searching, Stopped, Expecting("RxHeader", <<>>, 8)}
          \/ PayloadLength(h) <= 32 /\ rx' = Expecting("RxPayload", h, PayloadLength(h))
      BY <2>2, <3>1 DEF TargetReadsHeader, Resumes, MaxPayload, HeaderLength
    <3>6. \A k \in Nat : k <= 32 => Rx(Expecting("RxPayload", h, k))
      <4> SUFFICES ASSUME NEW k \in Nat, k <= 32 PROVE Rx(Expecting("RxPayload", h, k))
        OBVIOUS
      <4>1. k \in 0..32
        OBVIOUS
      <4>2. Expecting("RxPayload", h, k) = [state |-> "RxPayload", delimiters |-> 0, header |-> h, needed |-> k]
        BY DEF Expecting
      <4> QED BY <4>1, <4>2, <3>3
    <3>7. CASE rx' \in {Searching, Stopped, Expecting("RxHeader", <<>>, 8)}
      <4> HIDE DEF Rx
      <4> QED BY <3>7, <1>7
    <3>8. CASE PayloadLength(h) <= 32 /\ rx' = Expecting("RxPayload", h, PayloadLength(h))
      <4>1. PICK k \in Nat : k = PayloadLength(h)
        BY <3>4
      <4>2. k <= 32 /\ rx' = Expecting("RxPayload", h, k)
        BY <3>8, <4>1
      <4> HIDE DEF Rx
      <4> QED BY <4>2, <3>6
    <3> QED BY <3>5, <3>7, <3>8
  <2>3. CASE TargetReadsPayload
    BY <2>3, <1>7 DEF TargetReadsPayload, HeaderLength
  <2> QED BY <2>1, <2>2, <2>3 DEF TargetReceives
<1>9. TargetTypes'
  BY <1>8 DEF TargetTypes
<1> QED BY <1>3, <1>6, <1>9 DEF Types

\* so every step does.
LEMMA StepTypes == Types /\ [Next]_vars => Types'
<1> SUFFICES ASSUME Types, [Next]_vars PROVE Types'
  OBVIOUS
<1>1. CASE UNCHANGED vars
  <2>1. UNCHANGED <<port, attempts, rxState, rxBuffer, needed, storage, rx>>
    BY <1>1 DEF vars, socket
  <2>2. ListsOK'
    BY <1>1 DEF Types, ListsOK, vars, socket, histories
  <2> QED BY <2>1, <2>2, HostTypesStay, TargetTypesStay DEF Types
<1>2. CASE Next
  BY <1>2, SendTypes, DamageTypes, HostReceivesTypes, TargetReceivesTypes, ConnectTypes DEF Next
<1> QED BY <1>1, <1>2

\* The receivers are in the states of their code, and what they ask for is
\* between their bounds: for all payloads, however many frames and damages there are.
THEOREM TypeCorrectness == Spec => []TypeOK
<1>1. Spec => []Types
  BY InitTypes, StepTypes, PTL DEF Spec
<1>2. Types => TypeOK
  BY TypesImplyTypeOK
<1> QED BY <1>1, <1>2, PTL

-----------------------------------------------------------------------------
(* The messages of the target arrive at the host.                          *)

\* ms are the messages on the way to the host.
HostCarries(ms) ==
    /\ Stream(rxBuffer \o toHost, ms)
    /\ sentToHost = Delivered(framed \o ms)

\* The buffer of the host has a part of a header, or all of it.
HostBuffer ==
    /\ rxState = "RxDelimiter" => storage = "large" /\ Len(rxBuffer) < DelimiterLength
    /\ rxState = "RxHeader" => Len(rxBuffer) \in {0, DelimiterLength}
    /\ rxState = "RxPayload" => Len(rxBuffer) = HeaderLength /\ needed = PayloadLength(rxBuffer)

\* Until a byte is lost or added, what the host has in its buffer, together with what is on
\* the line, is a row of whole frames, and the messages in it, behind those of the frames
\* that are read, are what the target has sent.
HostInv == inStep => HostBuffer /\ \E ms : HostCarries(ms)

\* Lists of bytes, and of messages, in a row.
LEMMA BytesInARow == \A x, y, z \in Seq(Byte) : (x \o y) \o z = x \o (y \o z)
<1> SUFFICES ASSUME NEW x \in Seq(Byte), NEW y \in Seq(Byte), NEW z \in Seq(Byte)
             PROVE  (x \o y) \o z = x \o (y \o z)
  OBVIOUS
<1> QED BY ConcatAssociative

\* The same for lists of messages.
LEMMA MessagesInARow == \A x, y, z \in Seq(Seq(Byte)) : (x \o y) \o z = x \o (y \o z)
<1> SUFFICES ASSUME NEW x \in Seq(Seq(Byte)), NEW y \in Seq(Seq(Byte)), NEW z \in Seq(Seq(Byte))
             PROVE  (x \o y) \o z = x \o (y \o z)
  OBVIOUS
<1> QED BY ConcatAssociative

\* A list is at the begin of what is put behind it.
LEMMA PrefixOfRow ==
    ASSUME NEW x \in Seq(Seq(Byte)), NEW y \in Seq(Seq(Byte)), NEW z, z = x \o y
    PROVE  IsPrefix(x, z)
<1>1. Len(x) <= Len(z)
  BY ConcatProperties
<1>2. SubSeq(x, 1, Len(x)) = SubSeq(z, 1, Len(x))
  <2>1. CASE x = <<>>
    <3>1. Len(x) = 0 /\ 0 < 1
      BY <2>1
    <3> QED BY <3>1, SubSeqEmpty
  <2>2. CASE x # <<>>
    <3>1. Len(x) \in Nat \ {0}
      BY <2>2, EmptySeq
    <3>2. 1 \in 1..Len(x) /\ Len(x) \in 1..Len(x)
      BY <3>1
    <3> QED BY <3>2, SubSeqOfConcat1
  <2> QED BY <2>1, <2>2
<1> QED BY <1>1, <1>2 DEF IsPrefix

\* Messages on the way can be put behind those of the queue.
LEMMA MessagesAreBytes ==
    ASSUME NEW s, NEW ms, Stream(s, ms)
    PROVE  ms \in Seq(Messages) /\ ms \in Seq(Seq(Byte))
<1>1. ms \in Seq(Messages) /\ Messages \subseteq Seq(Byte)
  BY DEF Stream, Messages
<1> QED BY <1>1, SeqMonotonic

\* The first message of a list is delivered, or is empty.
LEMMA DeliveredFirst ==
    ASSUME NEW s, NEW ms, Stream(s, ms), ms # <<>>, NEW m, m = ms[1]
    PROVE  Delivered(ms) = IF m = <<>> THEN Delivered(Tail(ms)) ELSE <<m>> \o Delivered(Tail(ms))
<1>1. ms \in Seq(Seq(Byte))
  BY MessagesAreBytes
<1>2. m \in Seq(Byte) /\ Tail(ms) \in Seq(Seq(Byte))
  BY <1>1, HeadTailProperties
<1>3. <<>> \in Seq(Seq(Byte)) /\ Append(<<>>, m) = <<m>>
  OBVIOUS
<1>4. Delivered(<<>> \o ms) = Delivered(Append(<<>>, ms[1])) \o Delivered(Tail(ms))
  BY <1>1, <1>3, DeliveredQueue
<1>5. Delivered(Append(<<>>, m)) = IF m = <<>> THEN Delivered(<<>>) ELSE Append(Delivered(<<>>), m)
  BY <1>2, <1>3, DeliveredAppend
<1>6. Delivered(<<m>>) = IF m = <<>> THEN <<>> ELSE <<m>>
  BY <1>3, <1>5, NothingDelivered
<1>7. <<>> \o ms = ms
  BY <1>1, ConcatEmptySeq
<1>8. Delivered(Tail(ms)) \in Seq(Seq(Byte))
  BY <1>2, DeliveredType
<1>9. <<>> \o Delivered(Tail(ms)) = Delivered(Tail(ms))
  BY <1>8, ConcatEmptySeq
<1> QED BY <1>3, <1>4, <1>6, <1>7, <1>9

\* Nothing is on the way at first.
LEMMA HostInvInit == Init => HostInv
<1> SUFFICES ASSUME Init PROVE HostInv
  OBVIOUS
<1>1. <<>> \o <<>> = <<>> /\ Len(<<>>) = 0
  OBVIOUS
<1>2. HostCarries(<<>>)
  BY <1>1, NoBytes, NothingDelivered DEF Init, HostCarries
<1>3. HostBuffer
  BY <1>1 DEF Init, HostBuffer, DelimiterLength
<1> QED BY <1>2, <1>3 DEF HostInv

\* Steps that only append a frame to the line, or nothing.
LEMMA HostSent ==
    ASSUME Types, HostInv, NEW m \in Messages, NEW t, t = TypeOf(m),
           toHost' = toHost \o Frame(t, m),
           sentToHost' = IF m = <<>> THEN sentToHost ELSE Append(sentToHost, m),
           UNCHANGED <<rxState, rxBuffer, needed, storage, framed, inStep>>
    PROVE  HostInv'
<1> SUFFICES ASSUME inStep PROVE HostBuffer' /\ \E ms : HostCarries(ms)'
  BY DEF HostInv
<1>1. HostBuffer'
  BY DEF HostInv, HostBuffer
<1>2. PICK ms : HostCarries(ms)
  BY DEF HostInv
<1>3. /\ rxBuffer \in Seq(Byte) /\ toHost \in Seq(Byte) /\ framed \in Seq(Seq(Byte))
      /\ m \in Seq(Byte) /\ Frame(t, m) \in Seq(Byte)
  BY FrameElements DEF Types, ListsOK, Messages
<1>4. Stream((rxBuffer \o toHost) \o Frame(t, m), Append(ms, m))
  BY <1>2, StreamAppend DEF HostCarries
<1>5. (rxBuffer \o toHost) \o Frame(t, m) = rxBuffer \o (toHost \o Frame(t, m))
  BY <1>3, BytesInARow
<1>6. ms \in Seq(Seq(Byte))
  BY <1>2, MessagesAreBytes DEF HostCarries
<1>7. framed \o ms \in Seq(Seq(Byte)) /\ Delivered(framed \o ms) \in Seq(Seq(Byte))
  BY <1>3, <1>6, ConcatProperties, DeliveredType
<1>8. framed \o Append(ms, m) = Append(framed \o ms, m)
  <2>1. Append(ms, m) = ms \o <<m>> /\ <<m>> \in Seq(Seq(Byte))
    BY <1>3, <1>6, AppendIsConcat
  <2>2. Append(framed \o ms, m) = (framed \o ms) \o <<m>>
    BY <1>3, <1>7, AppendIsConcat
  <2>3. (framed \o ms) \o <<m>> = framed \o (ms \o <<m>>)
    BY <2>1, <1>3, <1>6, MessagesInARow
  <2> QED BY <2>1, <2>2, <2>3
<1>9. Delivered(framed \o Append(ms, m))
      = IF m = <<>> THEN Delivered(framed \o ms) ELSE Append(Delivered(framed \o ms), m)
  BY <1>3, <1>7, <1>8, DeliveredAppend
<1>11. sentToHost' = Delivered(framed \o Append(ms, m))
  <2>1. sentToHost = Delivered(framed \o ms)
    BY <1>2 DEF HostCarries
  <2> QED BY <2>1, <1>9
<1>12. HostCarries(Append(ms, m))'
  BY <1>4, <1>5, <1>11 DEF HostCarries
<1> QED BY <1>1, <1>12

\* Steps that read nothing and send nothing to the host.
LEMMA HostLeftAlone ==
    ASSUME HostInv,
           inStep' => inStep /\ UNCHANGED <<toHost, sentToHost, rxState, rxBuffer, needed, storage, framed>>
    PROVE  HostInv'
<1> SUFFICES ASSUME inStep' PROVE HostBuffer' /\ \E ms : HostCarries(ms)'
  BY DEF HostInv
<1>1. HostBuffer'
  BY DEF HostInv, HostBuffer
<1>2. PICK ms : HostCarries(ms)
  BY DEF HostInv
<1>3. HostCarries(ms)'
  BY <1>2 DEF HostCarries
<1> QED BY <1>1, <1>3

\* The host reads a byte of the delimiter.
LEMMA HostSearchesInv ==
    ASSUME Types, HostInv, HostSearches
    PROVE  HostInv'
<1> SUFFICES ASSUME inStep PROVE HostBuffer' /\ \E ms : HostCarries(ms)'
  BY DEF HostInv, HostSearches, UnchangedButRx
<1>1. PICK ms : HostCarries(ms)
  BY DEF HostInv
<1>2. PICK a, l : a = rxBuffer /\ l = toHost
  OBVIOUS
<1>3. /\ a \in Seq(Byte) /\ l \in Seq(Byte) /\ needed = 1 /\ storage = "large" /\ Len(a) < DelimiterLength
      /\ Len(l) >= 1
  BY <1>2 DEF HostSearches, CanRead, Types, ListsOK, HostTypes, HostInv, HostBuffer
<1>4. Stream(a \o l, ms)
  BY <1>1, <1>2 DEF HostCarries
<1>5. l[1] = D
  BY <1>3, <1>4, DelimiterRead
<1>6. rxBuffer' = Append(a, l[1]) /\ storage' = "large"
  BY <1>2, <1>3, <1>5 DEF HostSearches, Seen
<1>7. toHost' = SubSeq(l, 2, Len(l))
  BY <1>2, <1>3 DEF HostSearches, Consume
<1>8. Append(a, l[1]) \o SubSeq(l, 2, Len(l)) = a \o l
  <2>1. l[1] \in Byte
    BY <1>5 DEF D, Byte
  <2>2. With(a, l[1]) \o Rest(l) = a \o l
    BY <1>3, <2>1, TakeByte
  <2> QED BY <2>2 DEF With, Rest
<1>9. HostCarries(ms)'
  <2>1. rxBuffer' \o toHost' = a \o l
    BY <1>6, <1>7, <1>8
  <2>2. UNCHANGED <<sentToHost, framed>>
    BY DEF HostSearches, UnchangedButRx
  <2> QED BY <1>1, <1>4, <2>1, <2>2 DEF HostCarries
<1>10. HostBuffer'
  <2>1. Len(rxBuffer') = Len(a) + 1 /\ Len(a) \in Nat
    BY <1>3, <1>5, <1>6
  <2>2. IF Len(rxBuffer') = DelimiterLength THEN rxState' = "RxHeader" ELSE rxState' = "RxDelimiter"
    BY DEF HostSearches
  <2>3. PICK k \in Nat : k = Len(rxBuffer') /\ k <= 4
    BY <2>1, <1>3 DEF DelimiterLength
  <2>4. \/ rxState' = "RxHeader" /\ Len(rxBuffer') = DelimiterLength
        \/ rxState' = "RxDelimiter" /\ Len(rxBuffer') < DelimiterLength
    BY <2>2, <2>3 DEF DelimiterLength
  <2> QED BY <1>6, <2>4 DEF HostBuffer
<1> QED BY <1>9, <1>10

\* The host reads the rest of a header.
LEMMA HostReadsHeaderInv ==
    ASSUME Types, HostInv, HostReadsHeader
    PROVE  HostInv'
<1> SUFFICES ASSUME inStep PROVE HostBuffer' /\ \E ms : HostCarries(ms)'
  BY DEF HostInv, HostReadsHeader, UnchangedButRx
<1>1. PICK ms : HostCarries(ms)
  BY DEF HostInv
<1>2. PICK a, l, n : a = rxBuffer /\ l = toHost /\ n = needed
  OBVIOUS
<1>3. a \in Seq(Byte) /\ l \in Seq(Byte) /\ n \in Nat /\ n <= Len(l) /\ Len(a) + n = 8
  <2>1. a \in Seq(Byte) /\ l \in Seq(Byte)
    BY <1>2 DEF Types, ListsOK
  <2>2. n \in Nat /\ Len(a) + n = 8
    BY <1>2 DEF HostReadsHeader, Types, HostTypes
  <2>3. Len(l) >= n
    BY <1>2 DEF HostReadsHeader, CanRead
  <2>4. Len(l) \in Nat
    BY <2>1
  <2> QED BY <2>1, <2>2, <2>3, <2>4
<1>4. Stream(a \o l, ms)
  BY <1>1, <1>2 DEF HostCarries
<1>5. PICK h, r : h = a \o SubSeq(l, 1, n) /\ r = SubSeq(l, n + 1, Len(l))
  OBVIOUS
<1>6. h \o r = a \o l /\ SubSeq(l, 1, n) \in Seq(Byte) /\ Len(SubSeq(l, 1, n)) = n /\ r \in Seq(Byte)
  BY <1>3, <1>5, TakeBytes
<1>7. h \in Seq(Byte) /\ Len(h) = HeaderLength
  <2>1. PICK p : p = SubSeq(l, 1, n)
    OBVIOUS
  <2>2. p \in Seq(Byte) /\ Len(p) = n /\ h = a \o p
    BY <2>1, <1>5, <1>6
  <2>3. h \in Seq(Byte) /\ Len(h) = Len(a) + Len(p)
    BY <2>2, <1>3, ConcatProperties
  <2> QED BY <2>2, <2>3, <1>3 DEF HeaderLength
<1>8. Stream(h \o r, ms)
  BY <1>4, <1>6
<1>9. IsDelimited(h)
  BY <1>6, <1>7, <1>8, HeaderRead
<1>10. rxBuffer' = h /\ toHost' = r
  BY <1>2, <1>5 DEF HostReadsHeader, Bytes, Consume
<1>11. rxState' = "RxPayload" /\ needed' = PayloadLength(h)
  BY <1>9, <1>10 DEF HostReadsHeader
<1>12. HostBuffer'
  BY <1>7, <1>10, <1>11 DEF HostBuffer
<1>13. HostCarries(ms)'
  <2>1. UNCHANGED <<sentToHost, framed>>
    BY DEF HostReadsHeader, UnchangedButRx
  <2> QED BY <1>1, <1>8, <1>10, <2>1 DEF HostCarries
<1> QED BY <1>12, <1>13

\* The host reads a payload.
LEMMA HostReadsPayloadInv ==
    ASSUME Types, HostInv, HostReadsPayload
    PROVE  HostInv'
<1> SUFFICES ASSUME inStep PROVE HostBuffer' /\ \E ms : HostCarries(ms)'
  BY DEF HostInv, HostReadsPayload, UnchangedButRx
<1>1. PICK ms : HostCarries(ms)
  BY DEF HostInv
<1>2. PICK a, l, n, f : a = rxBuffer /\ l = toHost /\ n = needed /\ f = framed
  OBVIOUS
<1>3. /\ a \in Seq(Byte) /\ l \in Seq(Byte) /\ n \in Nat
      /\ f \in Seq(Seq(Byte))
  BY <1>2 DEF Types, ListsOK, HostTypes
<1>4. Len(a) = HeaderLength /\ n = PayloadLength(a)
  BY <1>2 DEF HostReadsPayload, HostInv, HostBuffer
<1>5. Stream(a \o l, ms) /\ sentToHost = Delivered(f \o ms)
  BY <1>1, <1>2 DEF HostCarries
<1>6. ms # <<>> /\ n = Len(ms[1])
  BY <1>3, <1>4, <1>5, HeaderRead
<1>7. SubSeq(l, 1, n) = ms[1] /\ Stream(SubSeq(l, n + 1, Len(l)), Tail(ms))
  BY <1>3, <1>4, <1>5, <1>6, PayloadRead
<1>8. PICK ns, r, m : ns = Tail(ms) /\ r = SubSeq(l, n + 1, Len(l)) /\ m = ms[1]
  OBVIOUS
<1>9. ms \in Seq(Seq(Byte))
  BY <1>5, MessagesAreBytes
<1>10. Stream(r, ns) /\ r \in Seq(Byte)
  <2>1. Stream(r, ns)
    BY <1>7, <1>8
  <2> QED BY <2>1 DEF Stream
<1>11. Delivered(f \o ms) = Delivered(Append(f, m) \o ns)
  BY <1>3, <1>6, <1>8, <1>9, DeliveredQueue
<1>12. framed' = Append(f, m) /\ toHost' = r
  BY <1>2, <1>7, <1>8 DEF HostReadsPayload, Bytes, Consume
<1>13. rxBuffer' = <<>> /\ rxState' = "RxHeader" /\ sentToHost' = sentToHost
  BY DEF HostReadsPayload, UnchangedButRx
<1>14. HostBuffer'
  <2>1. Len(rxBuffer') = 0
    BY <1>13
  <2> QED BY <1>13, <2>1 DEF HostBuffer
<1>15. <<>> \o r = r
  BY <1>10, ConcatEmptySeq
<1>17. HostCarries(ns)'
  BY <1>5, <1>10, <1>11, <1>12, <1>13, <1>15 DEF HostCarries
<1> QED BY <1>14, <1>17

\* One case for each action that touches the line to the host or its buffer.
LEMMA HostInvStep == Types /\ HostInv /\ [Next]_vars => HostInv'
<1> SUFFICES ASSUME Types, HostInv, [Next]_vars PROVE HostInv'
  OBVIOUS
<1> DEFINE Untouched == inStep' => inStep /\ UNCHANGED <<toHost, sentToHost, rxState, rxBuffer, needed,
                                                         storage, framed>>
<1>1. ASSUME NEW p \in Payloads, HostSendsMessage(p) PROVE HostInv'
  <2>1. Untouched
    BY <1>1 DEF HostSendsMessage, socket
  <2> QED BY <2>1, HostLeftAlone
<1>2. ASSUME NEW p \in Payloads, TargetSends(p) PROVE HostInv'
  <2>1. p \in Messages /\ p # <<>> /\ RocMessage = TypeOf(p)
    BY PayloadIsMessage
  <2>2. PICK t : t = RocMessage
    OBVIOUS
  <2>3. /\ toHost' = toHost \o Frame(t, p)
        /\ sentToHost' = IF p = <<>> THEN sentToHost ELSE Append(sentToHost, p)
        /\ UNCHANGED <<rxState, rxBuffer, needed, storage, framed, inStep>>
        /\ t = TypeOf(p)
    BY <1>2, <2>1, <2>2 DEF TargetSends, socket
  <2> QED BY <2>1, <2>3, HostSent
<1>3. CASE DamageToHost \/ DamageToTarget
  <2>1. Untouched
    BY <1>3 DEF DamageToHost, DamageToTarget, socket
  <2> QED BY <2>1, HostLeftAlone
<1>4. CASE HostReceives
  BY <1>4, HostSearchesInv, HostReadsHeaderInv, HostReadsPayloadInv DEF HostReceives
<1>5. CASE TargetSearches \/ TargetReadsPayload
  <2>1. Untouched
    BY <1>5 DEF TargetSearches, TargetReadsPayload, UnchangedButTarget, socket
  <2> QED BY <2>1, HostLeftAlone
<1>6. CASE TargetReadsHeader
  <2>0. /\ toHost' \in {toHost, toHost \o Frame(ResetConnection, <<>>)}
        /\ UNCHANGED <<rxState, rxBuffer, needed, storage, framed, inStep, sentToHost>>
    BY <1>6 DEF TargetReadsHeader, UnchangedButTarget, socket
  <2>1. CASE toHost' = toHost
    <3>1. Untouched
      BY <2>0, <2>1
    <3> QED BY <3>1, HostLeftAlone
  <2>2. CASE toHost' = toHost \o Frame(ResetConnection, <<>>)
    <3>1. PICK t, m : t = ResetConnection /\ m = <<>>
      OBVIOUS
    <3>2. m \in Messages /\ t = TypeOf(m)
      BY <3>1, ResetIsMessage
    <3>3. /\ toHost' = toHost \o Frame(t, m)
          /\ sentToHost' = IF m = <<>> THEN sentToHost ELSE Append(sentToHost, m)
          /\ UNCHANGED <<rxState, rxBuffer, needed, storage, framed, inStep>>
      BY <2>0, <2>2, <3>1
    <3> QED BY <3>2, <3>3, HostSent
  <2> QED BY <2>0, <2>1, <2>2
<1>7. CASE HostOpens
  <2>1. Untouched
    BY <1>7 DEF HostOpens, UnchangedButPort
  <2> QED BY <2>1, HostLeftAlone
<1>8. CASE HostTakesReply
  <2>1. Untouched
    BY <1>8 DEF HostTakesReply, NextAttempt, Close, UnchangedButPort
  <2> QED BY <2>1, HostLeftAlone
<1>9. CASE HostTimesOut
  <2>1. Untouched
    BY <1>9 DEF HostTimesOut, NextAttempt, Close, UnchangedButPort
  <2> QED BY <2>1, HostLeftAlone
<1>10. CASE HostCloses
  <2>1. Untouched
    BY <1>10 DEF HostCloses, Close, UnchangedButPort
  <2> QED BY <2>1, HostLeftAlone
<1>11. CASE UNCHANGED vars
  <2>1. Untouched
    BY <1>11 DEF vars, socket, histories
  <2> QED BY <2>1, HostLeftAlone
<1> QED BY <1>1, <1>2, <1>3, <1>4, <1>5, <1>6, <1>7, <1>8, <1>9, <1>10, <1>11 DEF Next, TargetReceives

\* What is on the way when nothing is on the line is delivered, or empty.
LEMMA HostInvImplies ==
    Types /\ HostInv /\ inStep => /\ IsPrefix(Delivered(framed), sentToHost)
                                  /\ Len(toHost) = 0 => Delivered(framed) = sentToHost
<1> SUFFICES ASSUME Types, HostInv, inStep
             PROVE  /\ IsPrefix(Delivered(framed), sentToHost)
                    /\ Len(toHost) = 0 => Delivered(framed) = sentToHost
  OBVIOUS
<1>1. PICK ms : HostCarries(ms)
  BY DEF HostInv
<1>2. PICK a, l, q : a = rxBuffer /\ l = toHost /\ q = framed
  OBVIOUS
<1>3. a \in Seq(Byte) /\ l \in Seq(Byte) /\ q \in Seq(Seq(Byte))
  BY <1>2 DEF Types, ListsOK
<1>4. Stream(a \o l, ms) /\ sentToHost = Delivered(q \o ms)
  BY <1>1, <1>2 DEF HostCarries
<1>5. ms \in Seq(Seq(Byte))
  BY <1>4, MessagesAreBytes
<1>6. IsPrefix(Delivered(framed), sentToHost)
  <2>1. PICK x, y : x = Delivered(q) /\ y = Delivered(ms)
    OBVIOUS
  <2>2. x \in Seq(Seq(Byte)) /\ y \in Seq(Seq(Byte))
    BY <1>3, <1>5, <2>1, DeliveredType
  <2>3. sentToHost = x \o y
    BY <1>3, <1>4, <1>5, <2>1, DeliveredConcat
  <2> QED BY <1>2, <2>1, <2>2, <2>3, PrefixOfRow
<1>7. ASSUME Len(toHost) = 0 PROVE Delivered(q \o ms) = Delivered(q)
  <2>1. l = <<>>
    BY <1>2, <1>3, <1>7, EmptySeq
  <2>2. a \o l = a
    BY <1>3, <2>1, ConcatEmptySeq
  <2>3. Stream(a, ms)
    BY <1>4, <2>2
  <2>4. q \o <<>> = q
    BY <1>3, ConcatEmptySeq
  <2>5. CASE rxState # "RxPayload"
    <3>1. Len(a) < HeaderLength
      <4>1. rxState \in {"RxDelimiter", "RxHeader", "RxPayload"}
        BY DEF Types, HostTypes
      <4>2. CASE rxState = "RxDelimiter"
        <5>1. Len(a) < 4 /\ Len(a) \in Nat
          BY <1>2, <1>3, <4>2 DEF HostInv, HostBuffer, DelimiterLength
        <5> QED BY <5>1 DEF HeaderLength
      <4>3. CASE rxState = "RxHeader"
        <5>1. Len(rxBuffer) \in {0, DelimiterLength}
          BY <4>3 DEF HostInv, HostBuffer
        <5>2. Len(a) \in {0, 4}
          BY <1>2, <5>1 DEF DelimiterLength
        <5>3. \A k \in {0, 4} : k < 8
          OBVIOUS
        <5> QED BY <5>2, <5>3 DEF HeaderLength
      <4> QED BY <2>5, <4>1, <4>2, <4>3
    <3>2. ms = <<>>
      BY <2>3, <3>1, NoFrame
    <3> QED BY <2>4, <3>2
  <2>6. CASE rxState = "RxPayload"
    <3>1. Len(a) = HeaderLength
      BY <1>2, <2>6 DEF HostInv, HostBuffer
    <3>2. ms # <<>> /\ Len(l) >= Len(ms[1])
      BY <1>3, <1>4, <3>1, HeaderRead
    <3>3. ms[1] \in Seq(Byte) /\ Len(ms[1]) \in Nat
      <4>1. ms[1] \in Seq(Byte)
        BY <1>5, <3>2, EmptySeq
      <4> QED BY <4>1, LenProperties
    <3>4. PICK n \in Nat : n = Len(ms[1])
      BY <3>3
    <3>5. n = 0
      BY <1>2, <1>7, <3>2, <3>4
    <3>6. ms[1] = <<>>
      BY <3>3, <3>4, <3>5, EmptySeq
    <3>7. Stream(SubSeq(l, n + 1, Len(l)), Tail(ms))
      BY <1>3, <1>4, <3>1, <3>4, PayloadRead
    <3>8. Len(SubSeq(l, n + 1, Len(l))) = 0
      <4>1. PICK x, i, k : x = SubSeq(l, i, k) /\ i = 1 /\ k = 0
        OBVIOUS
      <4>2. TakesAll(x, l, i, k)
        <5>1. i \in Nat \ {0} /\ k \in Nat /\ k <= Len(l)
          BY <1>2, <1>7, <4>1
        <5> QED BY <1>3, <4>1, <5>1, SubSeqTakes
      <4>3. Len(x) = 0
        BY <4>1, <4>2 DEF TakesAll
      <4> QED BY <1>2, <1>7, <3>5, <4>1, <4>3
    <3>9. Tail(ms) = <<>>
      <4>1. PICK x : x = SubSeq(l, n + 1, Len(l))
        OBVIOUS
      <4>2. Len(x) < HeaderLength
        BY <3>8, <4>1 DEF HeaderLength
      <4> QED BY <3>7, <4>1, <4>2, NoFrame
    <3>10. Delivered(q \o ms) = Delivered(Append(q, ms[1])) \o Delivered(Tail(ms))
      BY <1>3, <1>5, <3>2, DeliveredQueue
    <3>11. Delivered(Append(q, ms[1])) = Delivered(q)
      BY <1>3, <3>3, <3>6, DeliveredAppend
    <3>12. Delivered(q) \in Seq(Seq(Byte))
      BY <1>3, DeliveredType
    <3>13. Delivered(q) \o <<>> = Delivered(q)
      BY <3>12, ConcatEmptySeq
    <3> QED BY <3>9, <3>10, <3>11, <3>13, NothingDelivered
  <2> QED BY <2>5, <2>6
<1> QED BY <1>2, <1>4, <1>6, <1>7

\* As long as no length is misread, the payloads that are read are in the queue or
\* have been handed over.
GivenInv == ~misread => gotHost \o Delivered(queue) = Delivered(framed)

\* Nothing has been read at first.
LEMMA GivenInvInit == Init => GivenInv
<1>1. <<>> \o <<>> = <<>>
  OBVIOUS
<1> QED BY <1>1, NothingDelivered DEF Init, GivenInv

\* The payload that is read is put into the queue, or is handed over with all of it.
LEMMA HostReadsPayloadGiven ==
    ASSUME Types, GivenInv, HostReadsPayload
    PROVE  GivenInv'
<1> SUFFICES ASSUME ~misread' PROVE gotHost' \o Delivered(queue') = Delivered(framed')
  BY DEF GivenInv
<1>1. PICK length \in Lengths :
            /\ misread' = (misread \/ length # needed)
            /\ IF port = "open"
               THEN queue' = <<>> /\ gotHost' = gotHost \o Delivered(Append(queue, Copied(length)))
               ELSE queue' = Append(queue, Copied(length)) /\ UNCHANGED gotHost
  BY DEF HostReadsPayload
<1>2. ~misread /\ length = needed
  BY <1>1
<1>3. toHost \in Seq(Byte) /\ needed \in Nat /\ needed <= Len(toHost)
  <2>1. toHost \in Seq(Byte) /\ needed \in Nat
    BY DEF Types, ListsOK, HostTypes
  <2>2. Len(toHost) >= needed /\ Len(toHost) \in Nat
    BY <2>1 DEF HostReadsPayload, CanRead
  <2> QED BY <2>1, <2>2
<1>4. Copied(length) = Bytes /\ Bytes \in Seq(Byte)
  BY <1>2, <1>3, CopiedType
<1>5. PICK q, g, f, m : q = queue /\ g = gotHost /\ f = framed /\ m = Bytes
  OBVIOUS
<1>6. q \in Seq(Seq(Byte)) /\ g \in Seq(Seq(Byte)) /\ f \in Seq(Seq(Byte)) /\ m \in Seq(Byte)
  BY <1>4, <1>5 DEF Types, ListsOK
<1>7. g \o Delivered(q) = Delivered(f)
  BY <1>2, <1>5 DEF GivenInv
<1>8. framed' = Append(f, m)
  BY <1>5 DEF HostReadsPayload
<1>9. PICK dq, df, da : dq = Delivered(q) /\ df = Delivered(f) /\ da = Delivered(Append(q, m))
  OBVIOUS
<1>10. da = (IF m = <<>> THEN dq ELSE Append(dq, m))
       /\ Delivered(Append(f, m)) = (IF m = <<>> THEN df ELSE Append(df, m))
  BY <1>6, <1>9, DeliveredAppend
<1>11. dq \in Seq(Seq(Byte)) /\ df \in Seq(Seq(Byte)) /\ df = g \o dq
  BY <1>6, <1>7, <1>9, DeliveredType
<1>12. g \o da = Delivered(Append(f, m)) /\ da \in Seq(Seq(Byte))
  <2>1. CASE m = <<>>
    BY <1>10, <1>11, <2>1
  <2>2. CASE m # <<>>
    <3>1. Append(dq, m) = dq \o <<m>> /\ Append(df, m) = df \o <<m>> /\ <<m>> \in Seq(Seq(Byte))
      BY <1>6, <1>11, AppendIsConcat
    <3>2. (g \o dq) \o <<m>> = g \o (dq \o <<m>>)
      BY <1>6, <1>11, <3>1, MessagesInARow
    <3>3. dq \o <<m>> \in Seq(Seq(Byte))
      BY <1>11, <3>1, ConcatProperties
    <3> QED BY <1>10, <1>11, <2>2, <3>1, <3>2, <3>3
  <2> QED BY <2>1, <2>2
<1>13. CASE port = "open"
  <2>1. queue' = <<>> /\ gotHost' = g \o da
    BY <1>1, <1>4, <1>5, <1>9, <1>13
  <2>2. g \o da \in Seq(Seq(Byte))
    BY <1>6, <1>12, ConcatProperties
  <2>3. (g \o da) \o <<>> = g \o da
    BY <2>2, ConcatEmptySeq
  <2> QED BY <1>8, <1>12, <2>1, <2>3, NothingDelivered
<1>14. CASE port # "open"
  <2>1. queue' = Append(q, m) /\ gotHost' = g
    BY <1>1, <1>4, <1>5, <1>14
  <2> QED BY <1>8, <1>9, <1>12, <2>1
<1> QED BY <1>13, <1>14

\* connectToTarget() takes a message for the reply, which is empty, or hands it over.
LEMMA HostTakesReplyGiven ==
    ASSUME Types, GivenInv, HostTakesReply
    PROVE  GivenInv'
<1> SUFFICES ASSUME ~misread PROVE gotHost' \o Delivered(queue') = Delivered(framed)
  BY DEF GivenInv, HostTakesReply, UnchangedButPort
<1>1. PICK q, g, h, t : q = queue /\ g = gotHost /\ h = Head(queue) /\ t = Tail(queue)
  OBVIOUS
<1>2. q \in Seq(Seq(Byte)) /\ g \in Seq(Seq(Byte)) /\ q # <<>> /\ queue' = t
  BY <1>1 DEF Types, ListsOK, HostTakesReply
<1>3. h \in Seq(Byte) /\ t \in Seq(Seq(Byte)) /\ h = q[1] /\ t = Tail(q)
  BY <1>1, <1>2, HeadTailProperties
<1>4. <<>> \in Seq(Seq(Byte)) /\ Append(<<>>, h) = <<h>> /\ <<h>> \in Seq(Seq(Byte))
  BY <1>3
<1>5. Delivered(q) = Delivered(<<h>>) \o Delivered(t)
  <2>1. <<>> \o q = q
    BY <1>2, ConcatEmptySeq
  <2>2. Delivered(<<>> \o q) = Delivered(Append(<<>>, q[1])) \o Delivered(Tail(q))
    BY <1>2, <1>4, DeliveredQueue
  <2> QED BY <1>3, <1>4, <2>1, <2>2
<1>6. Delivered(<<h>>) = IF h = <<>> THEN <<>> ELSE <<h>>
  <2>1. Delivered(Append(<<>>, h)) = IF h = <<>> THEN Delivered(<<>>) ELSE Append(Delivered(<<>>), h)
    BY <1>3, <1>4, DeliveredAppend
  <2> QED BY <1>4, <2>1, NothingDelivered
<1>7. PICK d : d = Delivered(t)
  OBVIOUS
<1>8. d \in Seq(Seq(Byte)) /\ <<>> \o d = d
  BY <1>3, <1>7, DeliveredType, ConcatEmptySeq
<1>9. g \o Delivered(q) = Delivered(framed)
  BY <1>1 DEF GivenInv
<1>10. CASE h = <<>>
  <2>1. gotHost' = g
    BY <1>1, <1>10 DEF HostTakesReply, IsReply
  <2> QED BY <1>2, <1>5, <1>6, <1>7, <1>8, <1>9, <1>10, <2>1
<1>11. CASE h # <<>>
  <2>1. gotHost' = Append(g, h)
    BY <1>1, <1>11 DEF HostTakesReply, IsReply
  <2>2. Append(g, h) = g \o <<h>>
    BY <1>2, <1>3, AppendIsConcat
  <2>3. (g \o <<h>>) \o d = g \o (<<h>> \o d)
    BY <1>2, <1>4, <1>8, MessagesInARow
  <2> QED BY <1>2, <1>5, <1>6, <1>7, <1>9, <1>11, <2>1, <2>2, <2>3
<1> QED BY <1>10, <1>11

\* No other step reads a payload or touches the queue.
LEMMA GivenInvStep == Types /\ GivenInv /\ [Next]_vars => GivenInv'
<1> SUFFICES ASSUME Types, GivenInv, [Next]_vars PROVE GivenInv'
  OBVIOUS
<1>1. ASSUME UNCHANGED <<queue, gotHost, framed, misread>> PROVE GivenInv'
  BY <1>1 DEF GivenInv
<1>2. ASSUME NEW p \in Payloads, HostSendsMessage(p) \/ TargetSends(p) PROVE GivenInv'
  <2>1. UNCHANGED <<queue, gotHost, framed, misread>>
    BY <1>2 DEF HostSendsMessage, TargetSends, socket
  <2> QED BY <2>1, <1>1
<1>3. CASE DamageToHost \/ DamageToTarget
  <2>1. UNCHANGED <<queue, gotHost, framed, misread>>
    BY <1>3 DEF DamageToHost, DamageToTarget, socket
  <2> QED BY <2>1, <1>1
<1>4. CASE HostSearches \/ HostReadsHeader
  <2>1. UNCHANGED <<queue, gotHost, framed, misread>>
    BY <1>4 DEF HostSearches, HostReadsHeader
  <2> QED BY <2>1, <1>1
<1>5. CASE TargetReceives
  <2>1. UNCHANGED <<queue, gotHost, framed, misread>>
    BY <1>5 DEF TargetReceives, TargetSearches, TargetReadsHeader, TargetReadsPayload, UnchangedButTarget,
                socket
  <2> QED BY <2>1, <1>1
<1>6. CASE HostOpens \/ HostTimesOut \/ HostCloses
  <2>1. UNCHANGED <<queue, gotHost, framed, misread>>
    BY <1>6 DEF HostOpens, HostTimesOut, HostCloses, UnchangedButPort
  <2> QED BY <2>1, <1>1
<1>7. CASE UNCHANGED vars
  <2>1. UNCHANGED <<queue, gotHost, framed, misread>>
    BY <1>7 DEF vars, socket, histories
  <2> QED BY <2>1, <1>1
<1> QED BY <1>2, <1>3, <1>4, <1>5, <1>6, <1>7, HostReadsPayloadGiven, HostTakesReplyGiven
        DEF Next, HostReceives

\* Frames that the line does not damage give qst the payloads of the target, each
\* one once and in order, and none of them is held back: for all payloads, however
\* many frames there are, wherever the bytes are split, and however often the
\* socket is closed and opened again.  The layer above is given these messages unless
\* a length has been misread, whatever the storage that was freed may show.
THEOREM HostGetsAll == Spec => []HostGetsMessages
<1>1. Init => Types /\ HostInv /\ GivenInv
  BY InitTypes, HostInvInit, GivenInvInit
<1>2. Types /\ HostInv /\ GivenInv /\ [Next]_vars => (Types /\ HostInv /\ GivenInv)'
  BY StepTypes, HostInvStep, GivenInvStep
<1>3. Types /\ HostInv /\ GivenInv => HostGetsMessages
  <2> SUFFICES ASSUME Types, HostInv, GivenInv PROVE HostGetsMessages
    OBVIOUS
  <2>1. inStep => /\ IsPrefix(Delivered(framed), sentToHost)
                  /\ Len(toHost) = 0 => Delivered(framed) = sentToHost
    BY HostInvImplies, Zenon
  <2>2. ~misread => gotHost \o Delivered(queue) = Delivered(framed)
    BY DEF GivenInv
  <2> QED BY <2>1, <2>2, Zenon DEF HostGetsMessages
<1> QED BY <1>1, <1>2, <1>3, PTL DEF Spec

-----------------------------------------------------------------------------
(* The messages of qst arrive at the target.                               *)

\* part are the bytes of the first frame that the target has read already.
Received(part) ==
    /\ part \in Seq(Byte)
    /\ rx.state = "RxDelimiter" => Len(part) = rx.delimiters
    /\ rx.state = "RxHeader" => part = rx.header
    /\ rx.state = "RxPayload" => /\ part = rx.header /\ Len(part) = HeaderLength
                                 /\ part[7] = RocMessage /\ part[8] = Checksum
                                 /\ rx.needed = PayloadLength(part)

\* The receiver is in step: what it has of a frame and the line are the frames of ms.
Carries(part, ms) == Received(part) /\ Stream(part \o toTarget, ms)
InStep(ms) == rx.state # "stopped" /\ \E part : Carries(part, ms)

\* A step gives the target messages of those before it on the way, or sends some
\* behind them; `after` are those that are on the way then.
Moves(ms, after) ==
    \E new, sent \in Seq(Seq(Byte)) :
        /\ gotTarget' = gotTarget \o new /\ sentToTarget' = sentToTarget \o sent
        /\ new \o Delivered(after) = Delivered(ms) \o sent

KeepsStep == \A ms : InStep(ms) => \E after : InStep(after)' /\ Moves(ms, after)

\* Without a damage the messages on the way are those that are not given yet.
TargetInv == safeFrom = 0 => \E ms : InStep(ms) /\ sentToTarget = gotTarget \o Delivered(ms)

\* Nothing is on the way to the target at first.
LEMMA TargetInvInit == Init => TargetInv
<1> SUFFICES ASSUME Init PROVE TargetInv
  OBVIOUS
<1>1. <<>> \o <<>> = <<>> /\ Len(<<>>) = 0 /\ <<>> \in Seq(Byte)
  OBVIOUS
<1>2. rx.state = "RxDelimiter" /\ rx.delimiters = 0
  BY DEF Init, Searching
<1>3. Received(<<>>)
  BY <1>1, <1>2 DEF Received
<1>4. InStep(<<>>)
  BY <1>1, <1>2, <1>3, NoBytes DEF Init, Carries, InStep
<1>5. sentToTarget = gotTarget \o Delivered(<<>>)
  BY <1>1, NothingDelivered DEF Init
<1> QED BY <1>4, <1>5 DEF TargetInv

\* A step that neither gives the target a message nor sends one to it.
LEMMA MovesNothing ==
    ASSUME Types, NEW ms, NEW after, Delivered(ms) \in Seq(Seq(Byte)), Delivered(after) = Delivered(ms),
           UNCHANGED <<gotTarget, sentToTarget>>
    PROVE  Moves(ms, after)
<1>1. <<>> \in Seq(Seq(Byte)) /\ gotTarget \in Seq(Seq(Byte)) /\ sentToTarget \in Seq(Seq(Byte))
  BY DEF Types, ListsOK
<1>2. PICK g, s, d : g = gotTarget /\ s = sentToTarget /\ d = Delivered(ms)
  OBVIOUS
<1>3. g \o <<>> = g /\ s \o <<>> = s /\ d \o <<>> = d /\ <<>> \o d = d
  BY <1>1, <1>2, ConcatEmptySeq
<1> QED BY <1>1, <1>2, <1>3 DEF Moves

\* Steps that only put a frame on the line.
LEMMA TargetSent ==
    ASSUME Types, NEW ms, InStep(ms), NEW m \in Messages, NEW t, t = TypeOf(m),
           toTarget' = toTarget \o Frame(t, m),
           sentToTarget' = IF m = <<>> THEN sentToTarget ELSE Append(sentToTarget, m),
           UNCHANGED <<rx, gotTarget>>
    PROVE  \E after : InStep(after)' /\ Moves(ms, after)
<1>1. PICK part : Carries(part, ms)
  BY DEF InStep
<1>2. (rx.state # "stopped")'
  BY DEF InStep
<1>3. /\ part \in Seq(Byte) /\ toTarget \in Seq(Byte) /\ gotTarget \in Seq(Seq(Byte))
      /\ sentToTarget \in Seq(Seq(Byte)) /\ m \in Seq(Byte) /\ Frame(t, m) \in Seq(Byte)
  BY <1>1, FrameElements DEF Carries, Received, Types, ListsOK, Messages
<1>4. Stream((part \o toTarget) \o Frame(t, m), Append(ms, m))
  BY <1>1, StreamAppend DEF Carries
<1>5. (part \o toTarget) \o Frame(t, m) = part \o (toTarget \o Frame(t, m))
  BY <1>3, BytesInARow
<1>6. ms \in Seq(Seq(Byte))
  BY <1>1, MessagesAreBytes DEF Carries
<1>7. PICK d : d = Delivered(ms)
  OBVIOUS
<1>8. d \in Seq(Seq(Byte))
  BY <1>6, <1>7, DeliveredType
<1>9. Delivered(Append(ms, m)) = IF m = <<>> THEN d ELSE Append(d, m)
  BY <1>3, <1>6, <1>7, DeliveredAppend
<1>10. Received(part)'
  BY <1>1 DEF Carries, Received
<1>11. InStep(Append(ms, m))'
  BY <1>2, <1>4, <1>5, <1>10 DEF Carries, InStep
<1>12. Moves(ms, Append(ms, m))
  <2>1. CASE m = <<>>
    BY <2>1, <1>7, <1>8, <1>9, MovesNothing
  <2>2. CASE m # <<>>
    <3>1. PICK g, s : g = gotTarget /\ s = sentToTarget
      OBVIOUS
    <3>2. <<>> \in Seq(Seq(Byte)) /\ <<m>> \in Seq(Seq(Byte))
      BY <1>3
    <3>3. Append(s, m) = s \o <<m>> /\ Append(d, m) = d \o <<m>>
      BY <1>3, <1>8, <3>1, AppendIsConcat
    <3>4. g \o <<>> = g /\ <<>> \o (d \o <<m>>) = d \o <<m>>
      BY <1>3, <1>8, <3>1, <3>2, ConcatEmptySeq, ConcatProperties
    <3>5. gotTarget' = g \o <<>> /\ sentToTarget' = s \o <<m>>
          /\ <<>> \o Delivered(Append(ms, m)) = d \o <<m>>
      BY <2>2, <1>9, <3>1, <3>3, <3>4
    <3> QED BY <1>7, <3>1, <3>2, <3>5 DEF Moves
  <2> QED BY <2>1, <2>2
<1> QED BY <1>11, <1>12

\* Steps that read nothing and send nothing to the target.
LEMMA TargetLeftAlone ==
    ASSUME Types, NEW ms, InStep(ms), UNCHANGED <<toTarget, sentToTarget, rx, gotTarget>>
    PROVE  \E after : InStep(after)' /\ Moves(ms, after)
<1>1. PICK part : Carries(part, ms)
  BY DEF InStep
<1>2. Carries(part, ms)'
  BY <1>1 DEF Carries, Received
<1>3. InStep(ms)'
  BY <1>2 DEF InStep
<1>4. Delivered(ms) \in Seq(Seq(Byte))
  BY <1>1, MessagesAreBytes, DeliveredType DEF Carries
<1>5. Moves(ms, ms)
  BY <1>4, MovesNothing
<1> QED BY <1>3, <1>5

\* Four bytes of a frame are its delimiter.
LEMMA FourBytes ==
    ASSUME NEW h \in Seq(Byte), NEW r \in Seq(Byte), NEW ms, Stream(h \o r, ms), Len(h) = DelimiterLength
    PROVE  h = <<D, D, D, D>>
<1> DEFINE s == h \o r
<1>0. Stream(s, ms) /\ Len(h) = 4
  BY DEF DelimiterLength
<1>a. Len(r) \in Nat
  OBVIOUS
<1>1. /\ s \in Seq(Byte) /\ Len(s) = Len(h) + Len(r)
      /\ \A i \in 1..Len(h) + Len(r) : s[i] = IF i <= Len(h) THEN h[i] ELSE r[i - Len(h)]
  BY ConcatProperties
<1> HIDE DEF s
<1>2. Len(s) # 0 /\ \A i \in 1..4 : s[i] = h[i]
  BY <1>0, <1>a, <1>1
<1>3. ms # <<>>
  BY <1>0, <1>2, SomeFrame
<1>4. FrameAt(s, 0, ms[1])
  BY <1>0, <1>3, StreamHead
<1>5. \A k \in 1..4 : s[0 + k] = D
  BY <1>4 DEF FrameAt, DelimiterLength
<1>6. \A k \in 1..4 : h[k] = D
  BY <1>2, <1>5
<1>7. D \in Byte
  BY DEF D, Byte
<1>8. <<D, D, D, D>> \in Seq(Byte)
  BY <1>7
<1> QED BY <1>0, <1>6, <1>8, SeqEqual

\* The target reads a byte of the delimiter.
LEMMA TargetSearchesInv ==
    ASSUME Types, NEW ms, InStep(ms), TargetSearches
    PROVE  \E after : InStep(after)' /\ Moves(ms, after)
<1>1. PICK a : Carries(a, ms)
  BY DEF InStep
<1>2. PICK l, k, n : l = toTarget /\ k = rx.delimiters /\ n = 1
  OBVIOUS
<1>3. a \in Seq(Byte) /\ l \in Seq(Byte) /\ Stream(a \o l, ms) /\ Delivered(ms) \in Seq(Seq(Byte))
  BY <1>1, <1>2, MessagesAreBytes, DeliveredType DEF Carries, Received, Types, ListsOK
<1>4. Len(a) = k /\ k \in 0..3 /\ Len(l) >= 1 /\ rx.needed = 1
  <2>1. rx.state = "RxDelimiter" /\ Len(l) >= rx.needed
    BY <1>2 DEF TargetSearches, TargetHas
  <2>2. rx.needed = 1 /\ rx.delimiters \in 0..3
    BY <2>1 DEF Types, TargetTypes
  <2>3. Len(a) = rx.delimiters
    BY <1>1, <2>1 DEF Carries, Received
  <2> QED BY <1>2, <2>1, <2>2, <2>3
<1>5. l[1] = D
  <2>1. Len(a) < DelimiterLength
    BY <1>4 DEF DelimiterLength
  <2> QED BY <1>3, <1>4, <2>1, DelimiterRead
<1>6. l[1] \in Byte
  BY <1>5 DEF D, Byte
<1>7. PICK b, r : b = Append(a, l[1]) /\ r = SubSeq(l, 2, Len(l))
  OBVIOUS
<1>8. b \in Seq(Byte) /\ Len(b) = k + 1 /\ r \in Seq(Byte)
  <2>1. b \in Seq(Byte) /\ Len(b) = k + 1
    BY <1>3, <1>4, <1>6, <1>7, AppendProperties
  <2>2. n <= Len(l) /\ n + 1 = 2
    BY <1>2, <1>4
  <2>3. SubSeq(l, n + 1, Len(l)) \in Seq(Byte)
    BY <1>3, <2>2, ReadTypes
  <2> QED BY <1>7, <2>1, <2>2, <2>3
<1>9. b \o r = a \o l
  <2>1. With(a, l[1]) \o Rest(l) = a \o l
    BY <1>3, <1>4, <1>6, TakeByte
  <2> QED BY <1>7, <2>1 DEF With, Rest
<1>10. Stream(b \o r, ms)
  BY <1>3, <1>9
<1>11. toTarget' = r
  BY <1>2, <1>4, <1>7 DEF TargetSearches, Take
<1>12. rx' = IF k + 1 = DelimiterLength
             THEN Expecting("RxHeader", <<D, D, D, D>>, HeaderLength - DelimiterLength)
             ELSE [Searching EXCEPT !.delimiters = k + 1]
  BY <1>2, <1>5 DEF TargetSearches
<1>13. Received(b)' /\ rx'.state # "stopped"
  <2>1. CASE k + 1 = DelimiterLength
    <3>1. b = <<D, D, D, D>>
      BY <1>8, <1>10, <2>1, FourBytes
    <3>2. rx'.state = "RxHeader" /\ rx'.header = b
      BY <1>12, <2>1, <3>1 DEF Expecting
    <3> QED BY <1>8, <3>2 DEF Received
  <2>2. CASE k + 1 # DelimiterLength
    <3>1. rx'.state = "RxDelimiter" /\ rx'.delimiters = k + 1
      BY <1>12, <2>2 DEF Searching
    <3> QED BY <1>8, <3>1 DEF Received
  <2> QED BY <2>1, <2>2
<1>14. UNCHANGED <<sentToTarget, gotTarget>>
  BY DEF TargetSearches, UnchangedButTarget
<1>15. InStep(ms)'
  BY <1>10, <1>11, <1>13 DEF Carries, InStep
<1>16. Moves(ms, ms)
  BY <1>3, <1>14, MovesNothing
<1> QED BY <1>15, <1>16

\* The target reads the rest of a header.
LEMMA TargetReadsHeaderInv ==
    ASSUME Types, NEW ms, InStep(ms), TargetReadsHeader
    PROVE  \E after : InStep(after)' /\ Moves(ms, after)
<1>1. PICK a : Carries(a, ms)
  BY DEF InStep
<1>2. PICK l, n : l = toTarget /\ n = rx.needed
  OBVIOUS
<1>3. a \in Seq(Byte) /\ l \in Seq(Byte) /\ Stream(a \o l, ms) /\ Delivered(ms) \in Seq(Seq(Byte))
  BY <1>1, <1>2, MessagesAreBytes, DeliveredType DEF Carries, Received, Types, ListsOK
<1>4. a = rx.header /\ n \in Nat /\ n <= Len(l) /\ Len(a) + n = 8
  <2>1. rx.state = "RxHeader" /\ Len(l) >= n
    BY <1>2 DEF TargetReadsHeader, TargetHas
  <2>2. n \in 0..32 /\ Len(rx.header) + n = 8
    BY <1>2, <2>1 DEF Types, TargetTypes
  <2>3. a = rx.header
    BY <1>1, <2>1 DEF Carries, Received
  <2>4. Len(l) \in Nat /\ n \in Nat
    BY <1>3, <2>2
  <2> QED BY <2>1, <2>2, <2>3, <2>4
<1>5. PICK p, h, r : p = SubSeq(l, 1, n) /\ h = a \o p /\ r = SubSeq(l, n + 1, Len(l))
  OBVIOUS
<1>6. h \o r = a \o l /\ p \in Seq(Byte) /\ Len(p) = n /\ r \in Seq(Byte)
  BY <1>3, <1>4, <1>5, TakeBytes
<1>7. h \in Seq(Byte) /\ Len(h) = HeaderLength
  <2>1. h \in Seq(Byte) /\ Len(h) = Len(a) + Len(p)
    BY <1>3, <1>5, <1>6, ConcatProperties
  <2> QED BY <2>1, <1>4, <1>6 DEF HeaderLength
<1>8. Stream(h \o r, ms)
  BY <1>3, <1>6
<1>9. PICK m : m = ms[1]
  OBVIOUS
<1>10. /\ ms # <<>> /\ m \in Messages /\ IsDelimited(h) /\ PayloadLength(h) = Len(m)
       /\ h[7] = TypeOf(m) /\ h[8] = Checksum
  BY <1>6, <1>7, <1>8, <1>9, HeaderRead
<1>11. toTarget' = r /\ UNCHANGED <<sentToTarget, gotTarget>>
  BY <1>2, <1>5 DEF TargetReadsHeader, Take, UnchangedButTarget
<1>12. rx.header \o Taken = h
  BY <1>2, <1>4, <1>5 DEF Taken
<1>13. CASE m = <<>>
  <2>1. h[7] = ResetConnection /\ Len(m) = 0
    BY <1>10, <1>13 DEF TypeOf
  <2>2. rx' = Expecting("RxHeader", <<>>, HeaderLength)
    BY <1>10, <1>12, <2>1 DEF TargetReadsHeader, ResetConnection, RocMessage
  <2>3. rx'.state = "RxHeader" /\ rx'.header = <<>>
    BY <2>2 DEF Expecting
  <2>4. Received(<<>>)'
    <3>1. <<>> \in Seq(Byte)
      OBVIOUS
    <3> QED BY <2>3, <3>1 DEF Received
  <2>5. Stream(<<>> \o r, Tail(ms))
    <3>1. PICK k \in Nat : k = 0
      OBVIOUS
    <3>2. k = Len(ms[1])
      BY <1>9, <2>1, <3>1
    <3>3. Stream(SubSeq(r, k + 1, Len(r)), Tail(ms))
      BY <1>6, <1>7, <1>8, <3>2, PayloadRead
    <3>4. SubSeq(r, k + 1, Len(r)) = r
      BY <1>6, <3>1, SubSeqFull
    <3>5. <<>> \o r = r
      BY <1>6, ConcatEmptySeq
    <3> QED BY <3>3, <3>4, <3>5
  <2>6. Delivered(ms) = Delivered(Tail(ms))
    BY <1>3, <1>9, <1>10, <1>13, DeliveredFirst
  <2>7. InStep(Tail(ms))'
    BY <1>11, <2>3, <2>4, <2>5 DEF Carries, InStep
  <2>8. Moves(ms, Tail(ms))
    BY <1>3, <1>11, <2>6, MovesNothing
  <2> QED BY <2>7, <2>8
<1>14. CASE m # <<>>
  <2>1. h[7] = RocMessage
    BY <1>10, <1>14 DEF TypeOf
  <2>2. PayloadLength(h) <= MaxPayload
    BY <1>10 DEF Messages
  <2>3. rx' = Expecting("RxPayload", h, PayloadLength(h))
    BY <1>10, <1>12, <2>1, <2>2 DEF TargetReadsHeader, ResetConnection, RocMessage
  <2>4. rx'.state = "RxPayload" /\ rx'.header = h /\ rx'.needed = PayloadLength(h)
    BY <2>3 DEF Expecting
  <2>5. Received(h)'
    BY <1>7, <1>10, <2>1, <2>4 DEF Received
  <2>6. InStep(ms)'
    BY <1>8, <1>11, <2>4, <2>5 DEF Carries, InStep
  <2>7. Moves(ms, ms)
    BY <1>3, <1>11, MovesNothing
  <2> QED BY <2>6, <2>7
<1> QED BY <1>13, <1>14

\* The target reads a payload.
LEMMA TargetReadsPayloadInv ==
    ASSUME Types, NEW ms, InStep(ms), TargetReadsPayload
    PROVE  \E after : InStep(after)' /\ Moves(ms, after)
<1>1. PICK a : Carries(a, ms)
  BY DEF InStep
<1>2. PICK l, n, g : l = toTarget /\ n = rx.needed /\ g = gotTarget
  OBVIOUS
<1>3. /\ a \in Seq(Byte) /\ l \in Seq(Byte) /\ g \in Seq(Seq(Byte)) /\ Stream(a \o l, ms)
      /\ sentToTarget \in Seq(Seq(Byte))
  BY <1>1, <1>2 DEF Carries, Received, Types, ListsOK
<1>4. /\ a = rx.header /\ Len(a) = HeaderLength /\ a[7] = RocMessage /\ a[8] = Checksum
      /\ n = PayloadLength(a)
  BY <1>1, <1>2 DEF TargetReadsPayload, TargetHas, Carries, Received
<1>5. PICK m, r : m = ms[1] /\ r = SubSeq(l, n + 1, Len(l))
  OBVIOUS
<1>6. ms # <<>> /\ m \in Messages /\ n = Len(m) /\ RocMessage = TypeOf(m)
  BY <1>3, <1>4, <1>5, HeaderRead
<1>7. m # <<>> /\ n \in Nat
  BY <1>6 DEF TypeOf, RocMessage, ResetConnection, Messages
<1>8. SubSeq(l, 1, n) = m /\ Stream(r, Tail(ms))
  BY <1>3, <1>4, <1>5, <1>6, <1>7, PayloadRead
<1>9. gotTarget' = Append(g, m) /\ rx' = Expecting("RxHeader", <<>>, HeaderLength) /\ toTarget' = r
      /\ sentToTarget' = sentToTarget
  BY <1>2, <1>4, <1>5, <1>8 DEF TargetReadsPayload, Taken, Take, UnchangedButTarget
<1>10. rx'.state = "RxHeader" /\ rx'.header = <<>>
  BY <1>9 DEF Expecting
<1>11. Received(<<>>)'
  <2>1. <<>> \in Seq(Byte)
    OBVIOUS
  <2> QED BY <1>10, <2>1 DEF Received
<1>12. PICK d : d = Delivered(Tail(ms))
  OBVIOUS
<1>13. d \in Seq(Seq(Byte)) /\ m \in Seq(Byte) /\ r \in Seq(Byte)
  <2>1. Tail(ms) \in Seq(Seq(Byte)) /\ r \in Seq(Byte)
    BY <1>8, MessagesAreBytes DEF Stream
  <2> QED BY <1>6, <1>12, <2>1, DeliveredType DEF Messages
<1>14. Delivered(ms) = <<m>> \o d
  BY <1>3, <1>5, <1>6, <1>7, <1>12, DeliveredFirst
<1>15. Moves(ms, Tail(ms))
  <2>1. Append(g, m) = g \o <<m>> /\ <<m>> \in Seq(Seq(Byte)) /\ <<>> \in Seq(Seq(Byte))
    BY <1>3, <1>13, AppendIsConcat
  <2>2. PICK s, e : s = sentToTarget /\ e = <<m>> \o d
    OBVIOUS
  <2>3. e \in Seq(Seq(Byte))
    BY <1>13, <2>1, <2>2, ConcatProperties
  <2>4. s \o <<>> = s /\ e \o <<>> = e
    BY <1>3, <2>2, <2>3, ConcatEmptySeq
  <2>5. gotTarget' = gotTarget \o <<m>> /\ sentToTarget' = sentToTarget \o <<>>
        /\ <<m>> \o Delivered(Tail(ms)) = Delivered(ms) \o <<>>
    BY <1>2, <1>9, <1>12, <1>14, <2>1, <2>2, <2>4
  <2> QED BY <2>1, <2>5 DEF Moves
<1>16. <<>> \o r = r
  BY <1>13, ConcatEmptySeq
<1>17. InStep(Tail(ms))'
  BY <1>8, <1>9, <1>10, <1>11, <1>16 DEF Carries, InStep
<1> QED BY <1>15, <1>17

\* One case for each action that touches the line to the target or its receiver.
LEMMA StepIsKept ==
    ASSUME Types, NEW ms, InStep(ms), [Next]_vars, ~DamageToTarget
    PROVE  \E after : InStep(after)' /\ Moves(ms, after)
<1> DEFINE Goal == \E after : InStep(after)' /\ Moves(ms, after)
           Untouched == UNCHANGED <<toTarget, sentToTarget, rx, gotTarget>>
           Resets == /\ toTarget' = toTarget \o Frame(ResetConnection, <<>>)
                     /\ UNCHANGED <<sentToTarget, rx, gotTarget>>
<1>0. Untouched => Goal
  BY TargetLeftAlone
<1>1. ASSUME NEW p \in Payloads, HostSendsMessage(p) PROVE Goal
  <2>1. p \in Messages /\ p # <<>> /\ RocMessage = TypeOf(p)
    BY PayloadIsMessage
  <2>2. PICK t : t = RocMessage
    OBVIOUS
  <2>3. /\ toTarget' = toTarget \o Frame(t, p)
        /\ sentToTarget' = IF p = <<>> THEN sentToTarget ELSE Append(sentToTarget, p)
        /\ UNCHANGED <<rx, gotTarget>>
        /\ t = TypeOf(p)
    BY <1>1, <2>1, <2>2 DEF HostSendsMessage, HostSend
  <2> QED BY <2>1, <2>3, TargetSent
<1>2. ASSUME NEW p \in Payloads, TargetSends(p) PROVE Untouched
  BY <1>2 DEF TargetSends
<1>3. CASE DamageToHost
  <2>1. Untouched
    BY <1>3 DEF DamageToHost
  <2> QED BY <1>0, <2>1
<1>4. CASE HostReceives
  <2>1. Untouched
    BY <1>4 DEF HostReceives, HostSearches, HostReadsHeader, HostReadsPayload, UnchangedButRx
  <2> QED BY <1>0, <2>1
<1>5. CASE TargetReceives
  BY <1>5, TargetSearchesInv, TargetReadsHeaderInv, TargetReadsPayloadInv DEF TargetReceives
<1>6. CASE Resets
  <2>1. PICK t, m : t = ResetConnection /\ m = <<>>
    OBVIOUS
  <2>2. m \in Messages /\ t = TypeOf(m)
    BY <2>1, ResetIsMessage
  <2>3. /\ toTarget' = toTarget \o Frame(t, m)
        /\ sentToTarget' = IF m = <<>> THEN sentToTarget ELSE Append(sentToTarget, m)
        /\ UNCHANGED <<rx, gotTarget>>
    BY <1>6, <2>1
  <2> QED BY <2>2, <2>3, TargetSent
<1>7. CASE HostOpens \/ HostTakesReply \/ HostTimesOut \/ HostCloses
  <2>1. Resets \/ Untouched
    BY <1>7 DEF HostOpens, HostTakesReply, HostTimesOut, HostCloses, NextAttempt, HostSend, UnchangedButPort
  <2> QED BY <1>0, <1>6, <2>1
<1>8. CASE UNCHANGED vars
  <2>1. Untouched
    BY <1>8 DEF vars, histories
  <2> QED BY <1>0, <2>1
<1> QED BY <1>0, <1>1, <1>2, <1>3, <1>4, <1>5, <1>7, <1>8 DEF Next

\* What a receiver in step gives, and what is on the way behind it, are what was
\* sent, before the step and after it.
LEMMA TargetInvStep == Types /\ Types' /\ TargetInv /\ [Next]_vars => TargetInv'
<1> SUFFICES ASSUME Types, Types', TargetInv, [Next]_vars, safeFrom' = 0
             PROVE  \E ms : InStep(ms)' /\ sentToTarget' = gotTarget' \o Delivered(ms)
  BY DEF TargetInv
<1>1. safeFrom = 0 /\ ~DamageToTarget
  <2>1. ASSUME DamageToTarget PROVE FALSE
    BY <2>1 DEF DamageToTarget, Types, ListsOK
  <2>2. safeFrom' = safeFrom
    BY <2>1 DEF Next, vars, histories, HostSendsMessage, TargetSends, DamageToHost, HostReceives, HostSearches,
                HostReadsHeader, HostReadsPayload, UnchangedButRx, TargetReceives, TargetSearches,
                TargetReadsHeader, TargetReadsPayload, UnchangedButTarget, HostOpens, HostTakesReply,
                HostTimesOut, HostCloses, UnchangedButPort
  <2> QED BY <2>1, <2>2
<1>2. PICK ms : InStep(ms) /\ sentToTarget = gotTarget \o Delivered(ms)
  BY <1>1 DEF TargetInv
<1>3. PICK after : InStep(after)' /\ Moves(ms, after)
  BY <1>1, <1>2, StepIsKept
<1>4. PICK new \in Seq(Seq(Byte)), sent \in Seq(Seq(Byte)) :
        /\ gotTarget' = gotTarget \o new /\ sentToTarget' = sentToTarget \o sent
        /\ new \o Delivered(after) = Delivered(ms) \o sent
  BY <1>3 DEF Moves
<1>5. PICK g, d, e : g = gotTarget /\ d = Delivered(ms) /\ e = Delivered(after)
  OBVIOUS
<1>6. g \in Seq(Seq(Byte)) /\ d \in Seq(Seq(Byte)) /\ e \in Seq(Seq(Byte))
  BY <1>2, <1>3, <1>5, MessagesAreBytes, DeliveredType DEF InStep, Carries, Types, ListsOK
<1>7. (g \o d) \o sent = g \o (d \o sent) /\ (g \o new) \o e = g \o (new \o e)
  <2>1. (g \o d) \o sent = g \o (d \o sent)
    BY <1>6, MessagesInARow
  <2>2. (g \o new) \o e = g \o (new \o e)
    BY <1>6, MessagesInARow
  <2> QED BY <2>1, <2>2
<1>8. sentToTarget' = gotTarget' \o Delivered(after)
  BY <1>2, <1>4, <1>5, <1>7
<1> QED BY <1>3, <1>8

\* A receiver in step that waits for more bytes than there are has no whole frame
\* before it.
LEMMA NothingIsLeft ==
    ASSUME Types, NEW ms, InStep(ms), Len(toTarget) < rx.needed
    PROVE  ms = <<>>
<1>1. PICK a : Carries(a, ms)
  BY DEF InStep
<1>2. PICK l, n : l = toTarget /\ n = rx.needed
  OBVIOUS
<1>3. a \in Seq(Byte) /\ l \in Seq(Byte) /\ Stream(a \o l, ms)
  BY <1>1, <1>2 DEF Carries, Received, Types, ListsOK
<1>4. rx.state \in {"RxDelimiter", "RxHeader", "RxPayload"}
  <2>1. rx.state \in {"RxDelimiter", "RxHeader", "RxPayload", "stopped"}
    BY DEF Types, TargetTypes
  <2> QED BY <2>1 DEF InStep
<1>5. Len(a \o l) = Len(a) + Len(l) /\ Len(a) \in Nat /\ Len(l) \in Nat
  BY <1>3, ConcatProperties
<1>6. Len(l) < n
  BY <1>2
<1>7. CASE rx.state = "RxDelimiter"
  <2>1. Len(a) = rx.delimiters /\ n = 1
    BY <1>1, <1>2, <1>7 DEF Carries, Received, Types, TargetTypes
  <2>2. rx.delimiters \in 0..3
    BY DEF Types, TargetTypes
  <2>3. Len(a \o l) < 8
    BY <1>5, <1>6, <2>1, <2>2
  <2>4. PICK s : s = a \o l
    OBVIOUS
  <2> QED BY <1>3, <2>3, <2>4, NoFrame DEF HeaderLength
<1>8. CASE rx.state = "RxHeader"
  <2>1. Len(a) + n = 8
    BY <1>1, <1>2, <1>8 DEF Carries, Received, Types, TargetTypes
  <2>2. n \in 0..32
    BY <1>2 DEF Types, TargetTypes
  <2>3. Len(a \o l) < 8
    BY <1>5, <1>6, <2>1, <2>2
  <2>4. PICK s : s = a \o l
    OBVIOUS
  <2> QED BY <1>3, <2>3, <2>4, NoFrame DEF HeaderLength
<1>9. CASE rx.state = "RxPayload"
  <2>1. Len(a) = HeaderLength /\ n = PayloadLength(a)
    BY <1>1, <1>2, <1>9 DEF Carries, Received
  <2>2. PayloadLength(a) = Len(ms[1]) /\ Len(l) >= Len(ms[1])
    BY <1>3, <2>1, HeaderRead
  <2>3. n \in 0..32
    BY <1>2 DEF Types, TargetTypes
  <2> QED BY <1>5, <1>6, <2>1, <2>2, <2>3
<1> QED BY <1>4, <1>7, <1>8, <1>9

\* Everything that was sent has been delivered then.
LEMMA TargetInvImplies == Types /\ TargetInv => TargetGetsMessages
<1> SUFFICES ASSUME Types, TargetInv, safeFrom = 0
             PROVE  /\ IsPrefix(gotTarget, sentToTarget) /\ rx.state # "stopped"
                    /\ Len(toTarget) < rx.needed => gotTarget = sentToTarget
  BY DEF TargetGetsMessages
<1>1. PICK ms : InStep(ms) /\ sentToTarget = gotTarget \o Delivered(ms)
  BY DEF TargetInv
<1>2. PICK g : g = gotTarget /\ g \in Seq(Seq(Byte))
  BY DEF Types, ListsOK
<1>3. Delivered(ms) \in Seq(Seq(Byte))
  BY <1>1, MessagesAreBytes, DeliveredType DEF InStep, Carries
<1>4. IsPrefix(gotTarget, sentToTarget)
  BY <1>1, <1>2, <1>3, PrefixOfRow
<1>5. g \o <<>> = g
  BY <1>2, ConcatEmptySeq
<1>6. ASSUME Len(toTarget) < rx.needed PROVE gotTarget = sentToTarget
  BY <1>1, <1>2, <1>5, <1>6, NothingIsLeft, NothingDelivered
<1> QED BY <1>1, <1>4, <1>6 DEF InStep

\* As long as no byte to the target is lost or added, its receiver does not stop and
\* gives the layer above the messages of qst, each one once and in order, and when it
\* waits for more bytes it has given all of them: for all payloads, however many
\* frames there are, and however often the connection is reset.
THEOREM TargetGetsAll == Spec => []TargetGetsMessages
<1>1. Init => Types /\ TargetInv
  BY InitTypes, TargetInvInit
<1>2. Types /\ TargetInv /\ [Next]_vars => (Types /\ TargetInv)'
  BY StepTypes, TargetInvStep
<1>3. Types /\ TargetInv => TargetGetsMessages
  BY TargetInvImplies
<1> QED BY <1>1, <1>2, <1>3, PTL DEF Spec

\* Whatever has happened before: once the receiver of the target is in step, every
\* message on the way and every one sent from then on is given to the layer above,
\* once and in order, until a byte is lost or added again, and none is held back.
\* So TargetResynchronises depends on nothing but the way back to a whole frame.
THEOREM InStepUntilDamage ==
    Spec => /\ [][~DamageToTarget => KeepsStep]_vars
            /\ [](\A ms : InStep(ms) /\ Len(toTarget) < rx.needed => ms = <<>>)
<1>1. Types /\ [Next]_vars => [~DamageToTarget => KeepsStep]_vars
  <2>1. Types /\ [Next]_vars /\ ~DamageToTarget => KeepsStep
    BY StepIsKept DEF KeepsStep
  <2> QED BY <2>1
<1>2. Types => \A ms : InStep(ms) /\ Len(toTarget) < rx.needed => ms = <<>>
  BY NothingIsLeft
<1>3. Init => Types
  BY InitTypes
<1>4. Types /\ [Next]_vars => Types'
  BY StepTypes
<1> QED BY <1>1, <1>2, <1>3, <1>4, PTL DEF Spec


-----------------------------------------------------------------------------
(* A receiver of the host that has lost the frames.                        *)

\* The only other search is the first one, as long as it has found delimiters only.
SearchInv ==
    /\ rxState = "RxDelimiter" => Lost \/ (storage = "large" /\ Len(rxBuffer) < DelimiterLength)
    /\ rxState # "RxDelimiter" => storage # "none"

\* A search goes on, ends with four delimiters, or is lost.
LEMMA SearchIsLost ==
    ASSUME Types, SearchInv, HostSearches
    PROVE  SearchInv' /\ (Lost => Lost')
<1>1. /\ rxState = "RxDelimiter" /\ rxBuffer \in Seq(Byte) /\ Len(rxBuffer) \in Nat
      /\ Len(Append(rxBuffer, toHost[1])) = Len(rxBuffer) + 1
      /\ Len(<<>>) = 0
  <2>1. rxBuffer \in Seq(Byte)
    BY DEF Types, ListsOK
  <2>2. \A l \in Seq(Byte) : Len(l) \in Nat /\ \A e : Len(Append(l, e)) = Len(l) + 1
    OBVIOUS
  <2>3. Len(<<>>) = 0
    OBVIOUS
  <2> QED BY <2>1, <2>2, <2>3 DEF HostSearches
<1>2. PICK b \in Seen(toHost[1]) :
        IF b = D
        THEN /\ rxBuffer' = Append(rxBuffer, toHost[1])
             /\ storage' = IF storage = "header" /\ Len(rxBuffer) >= HeaderLength
                           THEN "large" ELSE storage
        ELSE rxBuffer' = <<>> /\ storage' = "none"
  BY DEF HostSearches
<1>3. IF Len(rxBuffer') = 4 THEN rxState' = "RxHeader" ELSE rxState' = "RxDelimiter"
  BY DEF HostSearches, DelimiterLength
<1>4. CASE b # D
  <2>1. rxBuffer' = <<>> /\ storage' = "none"
    BY <1>2, <1>4
  <2>2. rxState' = "RxDelimiter"
    BY <1>1, <1>3, <2>1
  <2>3. Lost'
    BY <2>1, <2>2 DEF Lost
  <2>4. SearchInv'
    BY <2>1, <2>2 DEF SearchInv, Lost
  <2> QED BY <2>3, <2>4
<1>5. CASE b = D
  <2>1. storage # "none"
    BY <1>2, <1>5 DEF Seen, D
  <2>2. Len(rxBuffer') = Len(rxBuffer) + 1
    BY <1>1, <1>2, <1>5
  <2>3. storage' \in {storage, "large"} /\ (storage = "large" => storage' = "large")
    BY <1>2, <1>5
  <2>4. PICK n \in Nat : n = Len(rxBuffer)
    BY <1>1
  <2>5. CASE Lost
    <3>1. n >= 8
      BY <2>1, <2>4, <2>5 DEF Lost, HeaderLength
    <3>2. rxState' = "RxDelimiter" /\ n + 1 >= 8
      BY <1>3, <2>2, <2>4, <3>1
    <3>3. Lost'
      <4>1. Len(rxBuffer') >= 8
        BY <2>2, <2>4, <3>2
      <4> QED BY <3>2, <4>1 DEF Lost, HeaderLength
    <3>4. SearchInv'
      <4>1. Len(rxBuffer') >= 8
        BY <2>2, <2>4, <3>2
      <4> QED BY <3>2, <4>1 DEF SearchInv, Lost, HeaderLength
    <3> QED BY <3>3, <3>4
  <2>6. CASE ~Lost
    <3>1. storage = "large" /\ n < 4
      BY <1>1, <2>4, <2>6 DEF SearchInv, DelimiterLength
    <3>2. storage' = "large" /\ (n + 1 = 4 => rxState' = "RxHeader")
          /\ (n + 1 # 4 => rxState' = "RxDelimiter" /\ n + 1 < 4)
      BY <1>3, <2>2, <2>3, <2>4, <3>1
    <3> QED BY <2>2, <2>4, <2>6, <3>2 DEF SearchInv, DelimiterLength
  <2> QED BY <2>5, <2>6
<1> QED BY <1>4, <1>5

\* A header without delimiters is behind the last frame that is read.
LEMMA HeaderIsLost ==
    ASSUME Types, SearchInv, HostReadsHeader
    PROVE  SearchInv' /\ ~Lost /\ (rxState' = "RxDelimiter" => Lost')
<1>1. rxState = "RxHeader" /\ storage' = storage /\ rxState' \in {"RxDelimiter", "RxPayload"}
  BY DEF HostReadsHeader
<1>2. Len(rxBuffer') = 8
  <2>1. rxBuffer' = rxBuffer \o Bytes /\ rxBuffer \in Seq(Byte) /\ Len(rxBuffer) + needed = 8
    BY <1>1 DEF HostReadsHeader, Types, ListsOK, HostTypes
  <2>2. Bytes \in Seq(Byte) /\ Len(Bytes) = needed
    <3>1. toHost \in Seq(Byte) /\ needed \in Nat /\ needed <= Len(toHost)
      <4>1. toHost \in Seq(Byte) /\ needed \in Nat
        BY DEF Types, ListsOK, HostTypes
      <4>2. Len(toHost) >= needed /\ Len(toHost) \in Nat
        BY <4>1 DEF HostReadsHeader, CanRead
      <4> QED BY <4>1, <4>2
    <3> QED BY <3>1, ReadTypes DEF Bytes
  <2> HIDE DEF Bytes
  <2> QED BY <2>1, <2>2
<1>3. storage # "none"
  BY <1>1 DEF SearchInv
<1>4. Len(rxBuffer') >= HeaderLength
  <2>1. \A n : n = 8 => n >= 8
    OBVIOUS
  <2> QED BY <1>2, <2>1 DEF HeaderLength
<1>5. rxState' = "RxDelimiter" => Lost'
  BY <1>4 DEF Lost
<1>6. SearchInv'
  <2>1. rxState' = "RxDelimiter" => Lost' \/ (storage' = "large" /\ Len(rxBuffer') < DelimiterLength)
    BY <1>4 DEF Lost
  <2>2. rxState' # "RxDelimiter" => storage' # "none"
    BY <1>1, <1>3
  <2>3. (rxState' = "RxDelimiter" => Lost' \/ (storage' = "large" /\ Len(rxBuffer') < DelimiterLength))
        /\ (rxState' # "RxDelimiter" => storage' # "none") => SearchInv'
    BY DEF SearchInv, Lost
  <2> QED BY <2>1, <2>2, <2>3
<1> QED BY <1>1, <1>5, <1>6 DEF Lost

\* The receiver is left alone by all other steps.
LEMMA SearchStays ==
    ASSUME UNCHANGED <<rxState, rxBuffer, storage>>
    PROVE  Lost' = Lost /\ SearchInv' = SearchInv
BY DEF Lost, SearchInv


\* A message that is taken from the queue is handed over, or is the reply.
LEMMA TakingLoses ==
    ASSUME Types, HostTakesReply
    PROVE  queue # <<>> /\ Len(gotHost') + Len(queue') <= Len(gotHost) + Len(queue)
<1>1. queue \in Seq(Seq(Byte)) /\ gotHost \in Seq(Seq(Byte))
  BY DEF Types, ListsOK
<1>2. queue # <<>> /\ queue' = Tail(queue) /\ gotHost' \in {gotHost, Append(gotHost, Head(queue))}
  BY DEF HostTakesReply
<1>3. /\ Len(Tail(queue)) = Len(queue) - 1 /\ Len(queue) \in Nat /\ Len(gotHost) \in Nat
      /\ Len(Append(gotHost, Head(queue))) = Len(gotHost) + 1
  <2>1. \A l \in Seq(Seq(Byte)) : Len(l) \in Nat /\ \A e : Len(Append(l, e)) = Len(l) + 1
    OBVIOUS
  <2>2. Len(Tail(queue)) = Len(queue) - 1
    BY <1>1, <1>2
  <2> QED BY <1>1, <2>1, <2>2
<1>4. \A p, q \in Nat : p + (q - 1) <= p + q /\ (p + 1) + (q - 1) <= p + q
  OBVIOUS
<1>5. CASE gotHost' = gotHost
  BY <1>2, <1>3, <1>4, <1>5
<1>6. CASE gotHost' = Append(gotHost, Head(queue))
  BY <1>2, <1>3, <1>4, <1>6
<1> QED BY <1>2, <1>5, <1>6

\* All steps keep the search as it is described, and none ends one that is lost.
LEMMA SearchStep ==
    ASSUME Types, SearchInv, [Next]_vars
    PROVE  SearchInv' /\ (Lost => Deaf) /\ (HostReadsHeader /\ rxState' = "RxDelimiter" => Lost')
<1>0. Len(gotHost) \in Nat /\ Len(queue) \in Nat
  BY DEF Types, ListsOK
<1>1. CASE HostSearches
  <2>1. UNCHANGED <<queue, gotHost, port>> /\ ~HostReadsHeader
    BY <1>1 DEF HostSearches, UnchangedButRx, HostReadsHeader
  <2> QED BY <1>0, <1>1, <2>1, SearchIsLost DEF Deaf
<1>2. CASE HostReadsHeader
  BY <1>2, HeaderIsLost
<1>3. CASE HostReadsPayload
  <2>1. rxState = "RxPayload" /\ rxState' = "RxHeader" /\ storage' = "header"
    BY <1>3 DEF HostReadsPayload
  <2>2. ~Lost
    BY <2>1 DEF Lost
  <2>3. SearchInv'
    BY <2>1 DEF SearchInv
  <2> QED BY <2>1, <2>2, <2>3
<1>4. ASSUME UNCHANGED <<rxState, rxBuffer, storage>>, ~HostReadsHeader,
             Len(gotHost') + Len(queue') <= Len(gotHost) + Len(queue),
             queue = <<>> => queue' = <<>> /\ gotHost' = gotHost /\ (port' = "open" => port = "open")
      PROVE  SearchInv' /\ (Lost => Deaf) /\ (HostReadsHeader /\ rxState' = "RxDelimiter" => Lost')
  <2>1. Lost' = Lost /\ SearchInv' = SearchInv
    BY <1>4, SearchStays
  <2> QED BY <1>4, <2>1 DEF Deaf
<1>5. ASSUME UNCHANGED <<rxState, rxBuffer, storage, queue, gotHost>>, port' = "open" => port = "open",
             ~HostReadsHeader
      PROVE  SearchInv' /\ (Lost => Deaf) /\ (HostReadsHeader /\ rxState' = "RxDelimiter" => Lost')
  <2>1. Len(gotHost') + Len(queue') <= Len(gotHost) + Len(queue)
    BY <1>0, <1>5
  <2> QED BY <1>4, <1>5, <2>1
<1>6. HostReadsHeader => rxBuffer' # rxBuffer
  <2> SUFFICES ASSUME HostReadsHeader, rxBuffer' = rxBuffer PROVE FALSE
    OBVIOUS
  <2>1. rxState = "RxHeader" /\ toHost' = SubSeq(toHost, needed + 1, Len(toHost)) /\ CanRead
    BY DEF HostReadsHeader, Consume
  <2>2. rxBuffer' = rxBuffer \o Bytes /\ rxBuffer \in Seq(Byte) /\ Len(rxBuffer) + needed = 8 /\ needed \in 1..8
    BY <2>1 DEF HostReadsHeader, Types, ListsOK, HostTypes
  <2>3. Bytes \in Seq(Byte) /\ Len(Bytes) = needed
    <3>1. toHost \in Seq(Byte) /\ needed \in Nat /\ needed <= Len(toHost)
      <4>1. toHost \in Seq(Byte) /\ needed \in Nat
        BY DEF Types, ListsOK, HostTypes
      <4>2. Len(toHost) >= needed /\ Len(toHost) \in Nat
        BY <2>1, <4>1 DEF CanRead
      <4> QED BY <4>1, <4>2
    <3> QED BY <3>1, ReadTypes DEF Bytes
  <2>4. Len(rxBuffer') = Len(rxBuffer) + needed
    <3> HIDE DEF Bytes
    <3> QED BY <2>2, <2>3
  <2>5. Len(rxBuffer) \in Nat
    BY <2>2
  <2> QED BY <2>2, <2>4, <2>5
<1>7. ASSUME NEW p \in Payloads, HostSendsMessage(p) \/ TargetSends(p)
      PROVE  UNCHANGED <<rxState, rxBuffer, storage, queue, gotHost>> /\ (port' = "open" => port = "open")
  BY <1>7 DEF HostSendsMessage, TargetSends, socket
<1>8. CASE DamageToHost \/ DamageToTarget
  <2>1. UNCHANGED <<rxState, rxBuffer, storage, queue, gotHost, port>>
    BY <1>8 DEF DamageToHost, DamageToTarget, socket
  <2> QED BY <1>5, <1>6, <2>1
<1>9. CASE TargetReceives
  <2>1. UNCHANGED <<rxState, rxBuffer, storage, queue, gotHost, port>>
    BY <1>9 DEF TargetReceives, TargetSearches, TargetReadsHeader, TargetReadsPayload,
                UnchangedButTarget, socket
  <2> QED BY <1>5, <1>6, <2>1
<1>10. CASE HostOpens \/ HostTimesOut \/ HostCloses
  <2>1. UNCHANGED <<rxState, rxBuffer, storage>> /\ UNCHANGED <<queue, gotHost>>
    BY <1>10 DEF HostOpens, HostTimesOut, HostCloses, UnchangedButPort
  <2>2. port' = "open" => port = "open"
    BY <1>10 DEF HostOpens, HostTimesOut, HostCloses, NextAttempt, Close
  <2> QED BY <1>5, <1>6, <2>1, <2>2
<1>11. CASE HostTakesReply
  <2>1. UNCHANGED <<rxState, rxBuffer, storage>>
    BY <1>11 DEF HostTakesReply, UnchangedButPort
  <2> QED BY <1>4, <1>6, <1>11, <2>1, TakingLoses
<1>12. CASE UNCHANGED vars
  <2>1. UNCHANGED <<rxState, rxBuffer, storage, queue, gotHost, port>>
    BY <1>12 DEF vars, socket, histories
  <2> QED BY <1>5, <1>6, <2>1
<1> QED BY <1>1, <1>2, <1>3, <1>5, <1>6, <1>7, <1>8, <1>9, <1>10, <1>11, <1>12 DEF Next, HostReceives

\* A damage that makes qst search for delimiters again costs it the connection for
\* good: onUartReadyRead() never finds a frame again, not even after the port has been
\* closed and opened, and once the queue is empty no connectToTarget() succeeds.
THEOREM SearchesAreLost ==
    Spec => /\ []SearchInv
            /\ [][HostReadsHeader /\ rxState' = "RxDelimiter" => Lost']_vars
            /\ DeafForGood
<1>1. Init => SearchInv
  <2> SUFFICES ASSUME Init PROVE SearchInv
    OBVIOUS
  <2>1. rxState = "RxDelimiter" /\ storage = "large" /\ rxBuffer = <<>>
    BY DEF Init
  <2>2. Len(<<>>) = 0 /\ 0 < 4
    OBVIOUS
  <2> QED BY <2>1, <2>2 DEF SearchInv, DelimiterLength
<1>2. /\ Types /\ SearchInv /\ [Next]_vars => SearchInv'
      /\ Types /\ SearchInv /\ [Next]_vars => [HostReadsHeader /\ rxState' = "RxDelimiter" => Lost']_vars
      /\ Types /\ SearchInv /\ [Next]_vars => [Lost => Deaf]_vars
  BY SearchStep
<1>3. Init => Types
  BY InitTypes
<1>4. Types /\ [Next]_vars => Types'
  BY StepTypes
<1> QED BY <1>1, <1>2, <1>3, <1>4, PTL DEF Spec, DeafForGood
=============================================================================
