---------------------------- MODULE Firmware_proof ----------------------------
(* Reference counts and the transmit queue of the firmware are right, for any *)
(* number of buffers and any size of the mailbox, and a watchdog reset has a *)
(* reason.                                                                  *)
EXTENDS Firmware, FiniteSetTheorems, TLAPS

-----------------------------------------------------------------------------
(* Counting the occurrences of a buffer in a queue.                        *)

\* The positions of a buffer in a queue are a finite set.
LEMMA OccurrencesType ==
    ASSUME NEW S, NEW s \in Seq(S), NEW b
    PROVE  /\ IsFiniteSet({i \in DOMAIN s : s[i] = b})
           /\ Occurrences(s, b) \in Nat
           /\ Occurrences(s, b) = 0 <=> \A i \in DOMAIN s : s[i] # b
<1>1. DOMAIN s = 1..Len(s) /\ Len(s) \in Nat
  OBVIOUS
<1>2. IsFiniteSet(1..Len(s))
  BY <1>1, FS_Interval
<1>3. IsFiniteSet({i \in DOMAIN s : s[i] = b})
  BY <1>1, <1>2, FS_Subset
<1>4. Cardinality({i \in DOMAIN s : s[i] = b}) \in Nat
  BY <1>3, FS_CardinalityType
<1>5. Cardinality({i \in DOMAIN s : s[i] = b}) = 0 <=> {i \in DOMAIN s : s[i] = b} = {}
  BY <1>3, FS_EmptySet
<1> QED BY <1>3, <1>4, <1>5 DEF Occurrences

\* Nothing occurs in the empty queue.
LEMMA OccurrencesOfNone == \A b : Occurrences(<<>>, b) = 0
<1> TAKE b
<1>1. {i \in DOMAIN <<>> : <<>>[i] = b} = {}
  OBVIOUS
<1> QED BY <1>1, FS_EmptySet DEF Occurrences

\* A buffer that is appended occurs once more.
LEMMA OccurrencesAppend ==
    ASSUME NEW S, NEW s \in Seq(S), NEW e \in S, NEW b
    PROVE  Occurrences(Append(s, e), b) = Occurrences(s, b) + One(b = e)
<1> DEFINE old == {i \in DOMAIN s : s[i] = b}
           new == {i \in DOMAIN Append(s, e) : Append(s, e)[i] = b}
           n == Len(s) + 1
<1>1. /\ DOMAIN Append(s, e) = DOMAIN s \cup {n} /\ n \notin DOMAIN s
      /\ Append(s, e)[n] = e /\ \A i \in DOMAIN s : Append(s, e)[i] = s[i]
  OBVIOUS
<1>2. IsFiniteSet(old) /\ Cardinality(old) \in Nat
  BY OccurrencesType DEF Occurrences
<1>3. CASE b = e
  <2>1. new = old \cup {n} /\ n \notin old
    BY <1>1, <1>3
  <2>2. Cardinality(old \cup {n}) = Cardinality(old) + 1
    BY <1>2, <2>1, FS_AddElement
  <2> QED BY <1>3, <2>1, <2>2 DEF Occurrences, One
<1>4. CASE b # e
  <2>1. new = old
    BY <1>1, <1>4
  <2>2. Occurrences(Append(s, e), b) = Occurrences(s, b)
    BY <2>1 DEF Occurrences
  <2>3. Occurrences(s, b) \in Nat
    BY OccurrencesType
  <2> QED BY <1>4, <2>2, <2>3 DEF One
<1> QED BY <1>3, <1>4

\* A buffer that is taken from the head of the queue occurs once less.
LEMMA OccurrencesTail ==
    ASSUME NEW S, NEW s \in Seq(S), s # <<>>, NEW b
    PROVE  /\ Head(s) \in S /\ Tail(s) \in Seq(S)
           /\ Occurrences(s, b) = Occurrences(Tail(s), b) + One(b = Head(s))
<1> DEFINE all == {i \in DOMAIN s : s[i] = b}
           rest == {i \in DOMAIN Tail(s) : Tail(s)[i] = b}
<1>1. /\ Head(s) \in S /\ Tail(s) \in Seq(S) /\ Head(s) = s[1] /\ Len(s) \in Nat \ {0}
      /\ DOMAIN s = 1..Len(s) /\ DOMAIN Tail(s) = 1..Len(s) - 1
  OBVIOUS
<1>2. \A i \in 1..Len(s) - 1 : Tail(s)[i] = s[i + 1]
  OBVIOUS
<1>3. IsFiniteSet(all) /\ IsFiniteSet(rest) /\ Cardinality(all) \in Nat /\ Cardinality(rest) \in Nat
  <2>1. IsFiniteSet(all) /\ Cardinality(all) \in Nat
    BY OccurrencesType DEF Occurrences
  <2>2. IsFiniteSet(rest) /\ Cardinality(rest) \in Nat
    BY <1>1, OccurrencesType DEF Occurrences
  <2> QED BY <2>1, <2>2
<1>4. Cardinality(rest) = Cardinality(all \ {1})
  <2> DEFINE shift == [i \in rest |-> i + 1]
  <2>1. \A i \in rest : i + 1 \in all \ {1}
    BY <1>1, <1>2
  <2>2. \A k \in all \ {1} : k - 1 \in rest /\ (k - 1) + 1 = k
    BY <1>1, <1>2
  <2>3. \A i, j \in rest : i + 1 = j + 1 => i = j
    BY <1>1
  <2> HIDE DEF rest, all
  <2>4. shift \in [rest -> all \ {1}]
    BY <2>1
  <2>5. \A i, j \in rest : shift[i] = shift[j] => i = j
    BY <2>3
  <2>6. \A k \in all \ {1} : \E i \in rest : shift[i] = k
    BY <2>2
  <2>7. shift \in Bijection(rest, all \ {1})
    BY <2>4, <2>5, <2>6 DEF Bijection, Injection, Surjection, IsInjective
  <2>8. ExistsBijection(rest, all \ {1})
    BY <2>7 DEF ExistsBijection
  <2> QED BY <1>3, <2>8, FS_Bijection
<1>5. Cardinality(all \ {1}) = IF 1 \in all THEN Cardinality(all) - 1 ELSE Cardinality(all)
  BY <1>3, FS_RemoveElement
<1>6. 1 \in all <=> b = Head(s)
  BY <1>1
<1> HIDE DEF all, rest
<1>7. Cardinality(all) = Cardinality(rest) + One(b = Head(s))
  BY <1>3, <1>4, <1>5, <1>6 DEF One
<1> QED BY <1>1, <1>7 DEF Occurrences, all, rest

\* A buffer that is appended is behind the first one, too.
LEMMA AppendBehind ==
    ASSUME NEW S, NEW q \in Seq(S), NEW u \in S, NEW e \in S
    PROVE  <<u>> \o Append(q, e) = Append(<<u>> \o q, e)
<1>1. Len(q) \in Nat /\ Append(q, e) \in Seq(S) /\ <<u>> \in Seq(S) /\ <<u>> \o q \in Seq(S)
  OBVIOUS
<1> DEFINE a == <<u>> \o Append(q, e)
           b == Append(<<u>> \o q, e)
<1>2. a \in Seq(S) /\ Len(a) = Len(q) + 2 /\ b \in Seq(S) /\ Len(b) = Len(q) + 2
  BY <1>1
<1>3. \A i \in 1..Len(q) + 2 :
        a[i] = IF i = 1 THEN u ELSE IF i = Len(q) + 2 THEN e ELSE q[i - 1]
  BY <1>1
<1>4. \A i \in 1..Len(q) + 2 :
        b[i] = IF i = 1 THEN u ELSE IF i = Len(q) + 2 THEN e ELSE q[i - 1]
  BY <1>1
<1>5. \A i \in 1..Len(q) + 2 : a[i] = b[i]
  BY <1>3, <1>4
<1> HIDE DEF a, b
<1>6. a \in [1..Len(q) + 2 -> S] /\ b \in [1..Len(q) + 2 -> S]
  BY <1>1, <1>2
<1>7. a = b
  BY <1>5, <1>6
<1> QED BY <1>7 DEF a, b

-----------------------------------------------------------------------------
(* The inductive invariant.                                                *)

Places == {"pend", "drain", "load", "store", "process", "enqueue", "test", "start", "leave",
           "drop", "release"}

Types ==
    /\ refs \in [Buffers -> Nat] /\ text \in [Buffers -> Nat]
    /\ rxBuffer \in Buffers \cup {None} /\ txBuffer \in Buffers \cup {None}
    /\ txQueue \in Seq(Buffers) /\ mailbox \in Seq(Buffers)
    /\ data \in Buffers \cup {None} /\ out \in Buffers \cup {None}
    /\ txActive \in BOOLEAN /\ gate \in BOOLEAN
    /\ pc \in Places /\ count \in Nat /\ written \in Nat /\ transmitted \in Nat

\* References of the transmit side, and places of the receive side.
InTx(b) == Occurrences(txQueue, b) + One(b = txBuffer)
InRx(b) == Occurrences(mailbox, b) + One(b = rxBuffer) + One(b = data)

\* What the task knows at each place.  A count that is loaded does not change until
\* it is stored; nobody but the task activates the transmission while the gate is
\* closed.
Control ==
    /\ gate <=> pc \in {"test", "start", "leave"}
    /\ data # None <=> pc \notin {"pend", "drain"}
    /\ out # None <=> pc \in {"enqueue", "test", "start", "leave", "drop"}
    /\ pc \in {"drop", "release"} => count \in {0, 1}
    /\ pc = "store" => count = refs[data]
    /\ pc \notin {"store", "drop", "release"} => count = 0
    /\ pc = "start" => ~txActive
    /\ pc = "leave" => txActive \/ txQueue = <<>>
    /\ pc = "enqueue" => InTx(out) = 0

\* A buffer that is received is in one place, and not sent.
Separate == \A b \in Buffers : InRx(b) <= 1 /\ (InRx(b) = 1 => InTx(b) = 0 /\ b # out)

IInv == Types /\ Control /\ Separate /\ CountsAreExact /\ NothingLost

\* The buffers that are still to be transmitted.
Waiting == (IF uart = None THEN <<>> ELSE <<uart>>) \o txQueue

\* Waiting() in the terms of the invariant.
LEMMA NothingLostUnfolded ==
    NothingLost <=> /\ written = transmitted + Len(Waiting)
                    /\ \A i \in DOMAIN Waiting : text[Waiting[i]] = transmitted + i
                    /\ uart = txBuffer /\ (txActive <=> uart # None)
                    /\ ~txActive => txQueue = <<>> \/ gate
BY DEF NothingLost, Waiting

\* What new MessageBuffer returns is nowhere in use.
LEMMA FreshIsUnused ==
    ASSUME IInv, HeapLeft
    PROVE  /\ Fresh \in Buffers /\ refs[Fresh] = 0
           /\ InTx(Fresh) = 0 /\ InRx(Fresh) = 0 /\ Fresh # data /\ Fresh # out
<1>1. Fresh \in Buffers /\ refs[Fresh] = 0
  BY DEF HeapLeft, Fresh, Freed
<1> DEFINE f == Fresh
<1> HIDE DEF f
<1>2. f \in Buffers /\ refs[f] = 0
  BY <1>1 DEF f
<1>3. Occurrences(txQueue, f) \in Nat /\ Occurrences(mailbox, f) \in Nat
  BY OccurrencesType DEF IInv, Types
<1>4. /\ refs[f] = Occurrences(txQueue, f) + Occurrences(mailbox, f) + One(f = txBuffer)
                    + One(f = rxBuffer) + HeldByTask(f)
  BY <1>2 DEF IInv, CountsAreExact
<1>5. f # data /\ f # out /\ HeldByTask(f) = 0
  BY <1>2, <1>3, <1>4 DEF HeldByTask, One
<1>6. InTx(f) = 0 /\ InRx(f) = 0
  BY <1>2, <1>3, <1>4, <1>5 DEF InTx, InRx, One
<1> QED BY <1>2, <1>5, <1>6 DEF f

\* The counts, with the references of the transmit side as InTx().
LEMMA CountsUnfolded ==
    ASSUME Types
    PROVE  CountsAreExact <=>
             \A b \in Buffers : refs[b] = InTx(b) + Occurrences(mailbox, b) + One(b = rxBuffer) + HeldByTask(b)
<1>1. \A b \in Buffers : Occurrences(txQueue, b) \in Nat /\ Occurrences(mailbox, b) \in Nat
  BY OccurrencesType DEF Types
<1> QED BY <1>1 DEF CountsAreExact, InTx, One, HeldByTask

\* The buffers that wait are those the transmit side refers to.
LEMMA WaitingType ==
    ASSUME Types, uart = txBuffer
    PROVE  /\ Waiting \in Seq(Buffers)
           /\ \A i \in DOMAIN Waiting : InTx(Waiting[i]) # 0
<1>1. \A b : Occurrences(txQueue, b) \in Nat
  BY OccurrencesType DEF Types
<1>2. \A i \in DOMAIN txQueue : Occurrences(txQueue, txQueue[i]) # 0
  BY OccurrencesType DEF Types
<1>3. CASE uart = None
  <2>1. Waiting = txQueue
    BY <1>3 DEF Waiting, Types
  <2>2. ASSUME NEW i \in DOMAIN txQueue PROVE InTx(txQueue[i]) # 0
    BY <1>1, <1>2 DEF InTx, One
  <2>3. Waiting \in Seq(Buffers)
    BY <2>1 DEF Types
  <2> QED BY <2>1, <2>2, <2>3
<1>4. CASE uart # None
  <2>1. Waiting = <<uart>> \o txQueue /\ <<uart>> \in Seq(Buffers)
    BY <1>4 DEF Waiting, Types
  <2>2. Waiting \in Seq(Buffers) /\ DOMAIN Waiting = 1..(1 + Len(txQueue)) /\ Len(txQueue) \in Nat
    BY <2>1 DEF Types
  <2>3. \A i \in DOMAIN Waiting : Waiting[i] = IF i = 1 THEN uart ELSE txQueue[i - 1]
    BY <2>1, <2>2 DEF Types
  <2>4. \A i \in DOMAIN Waiting : i # 1 => i - 1 \in DOMAIN txQueue
    BY <2>2 DEF Types
  <2>5. \A i \in DOMAIN Waiting : InTx(Waiting[i]) # 0
    <3> SUFFICES ASSUME NEW i \in DOMAIN Waiting PROVE InTx(Waiting[i]) # 0
      OBVIOUS
    <3>1. CASE i = 1
      <4>1. Waiting[i] = txBuffer
        BY <2>3, <3>1
      <4> QED BY <1>1, <4>1 DEF InTx, One
    <3>2. CASE i # 1
      <4>1. Occurrences(txQueue, Waiting[i]) # 0
        BY <1>2, <2>3, <2>4, <3>2
      <4> QED BY <1>1, <4>1 DEF InTx, One
    <3> QED BY <3>1, <3>2
  <2> QED BY <2>2, <2>5
<1> QED BY <1>3, <1>4

\* onUartBytesWritten(): what is in the queue waits from now on, and the buffer that
\* has been transmitted is let go.
LEMMA StartNextFacts ==
    ASSUME Types, NEW queue \in Seq(Buffers), NEW r \in [Buffers -> Nat], StartNext(queue, r)
    PROVE  /\ txQueue' \in Seq(Buffers) /\ txBuffer' \in Buffers \cup {None} /\ txActive' \in BOOLEAN
           /\ uart' = txBuffer' /\ (txActive' <=> uart' # None) /\ (~txActive' => txQueue' = <<>>)
           /\ Waiting' = queue
           /\ refs' \in [Buffers -> Int]
           /\ \A b \in Buffers : refs'[b] = r[b] - One(b = txBuffer)
           /\ \A b \in Buffers : InTx(b)' = Occurrences(queue, b)
<1>1. /\ refs' \in [Buffers -> Int]
      /\ \A b \in Buffers : refs'[b] = r[b] - One(b = txBuffer)
  <2>1. CASE txBuffer = None
    BY <2>1, FirmwareAssumption DEF StartNext, Decrement, One
  <2>2. CASE txBuffer # None
    <3>1. txBuffer \in Buffers /\ refs' = [r EXCEPT ![txBuffer] = @ - 1]
      BY <2>2 DEF StartNext, Decrement, Types
    <3>2. \A b \in Buffers : refs'[b] = IF b = txBuffer THEN r[b] - 1 ELSE r[b]
      BY <3>1
    <3>3. refs' \in [Buffers -> Int]
      BY <3>1
    <3> QED BY <3>2, <3>3 DEF One
  <2> QED BY <2>1, <2>2
<1>2. CASE queue = <<>>
  <2>1. txBuffer' = None /\ txActive' = FALSE /\ uart' = None /\ txQueue' = <<>>
    BY <1>2 DEF StartNext, ActiveAtEnd
  <2>2. Waiting' = queue
    BY <1>2, <2>1 DEF Waiting
  <2>3. \A b \in Buffers : InTx(b)' = Occurrences(queue, b)
    BY <1>2, <2>1, OccurrencesOfNone, FirmwareAssumption DEF InTx, One
  <2>4. txQueue' \in Seq(Buffers) /\ txBuffer' \in Buffers \cup {None}
    BY <2>1
  <2>5. txActive' \in BOOLEAN /\ (txActive' <=> uart' # None) /\ (~txActive' => txQueue' = <<>>)
    BY <2>1
  <2> QED BY <1>1, <2>1, <2>2, <2>3, <2>4, <2>5
<1>3. CASE queue # <<>>
  <2>1. txBuffer' = Head(queue) /\ txActive' = TRUE /\ uart' = Head(queue) /\ txQueue' = Tail(queue)
    BY <1>3 DEF StartNext
  <2>2. Head(queue) \in Buffers /\ Tail(queue) \in Seq(Buffers) /\ Head(queue) # None
    BY <1>3, FirmwareAssumption
  <2>3. <<Head(queue)>> \o Tail(queue) = queue
    BY <1>3
  <2>4. Waiting' = queue
    BY <2>1, <2>2, <2>3 DEF Waiting
  <2>5. \A b \in Buffers : Occurrences(queue, b) = Occurrences(Tail(queue), b) + One(b = Head(queue))
    BY <1>3, OccurrencesTail
  <2>6. \A b \in Buffers : InTx(b)' = Occurrences(queue, b)
    BY <2>1, <2>5 DEF InTx
  <2> QED BY <1>1, <2>1, <2>2, <2>4, <2>6
<1> QED BY <1>2, <1>3

\* A message that is written gets the next number and waits behind the others.
LEMMA WaitingGrows ==
    ASSUME Types, NothingLost, NEW b \in Buffers, InTx(b) = 0, Fill(b), UNCHANGED transmitted,
           Waiting' = Append(Waiting, b)
    PROVE  /\ written' \in Nat /\ text' \in [Buffers -> Nat]
           /\ written' = transmitted' + Len(Waiting')
           /\ \A i \in DOMAIN Waiting' : text'[Waiting'[i]] = transmitted' + i
<1>1. /\ Waiting \in Seq(Buffers)
      /\ \A i \in DOMAIN Waiting : Waiting[i] # b
  BY WaitingType, NothingLostUnfolded
<1>2. /\ written = transmitted + Len(Waiting)
      /\ \A i \in DOMAIN Waiting : text[Waiting[i]] = transmitted + i
  BY NothingLostUnfolded
<1> DEFINE w == Waiting
<1>3. /\ w \in Seq(Buffers) /\ Len(w) \in Nat /\ DOMAIN w = 1..Len(w)
      /\ Append(w, b) \in Seq(Buffers) /\ Len(Append(w, b)) = Len(w) + 1
      /\ DOMAIN Append(w, b) = 1..Len(w) + 1
      /\ \A i \in 1..Len(w) : Append(w, b)[i] = w[i]
      /\ Append(w, b)[Len(w) + 1] = b
  BY <1>1
<1> HIDE DEF w
<1>4. written' = written + 1 /\ text' = [text EXCEPT ![b] = written + 1]
  BY DEF Fill
<1>5. written' \in Nat /\ text' \in [Buffers -> Nat]
  BY <1>4 DEF Types
<1>6. \A i \in 1..Len(w) : w[i] \in Buffers /\ w[i] # b /\ text[w[i]] = transmitted + i
  BY <1>1, <1>2, <1>3 DEF w
<1>7. Waiting' = Append(w, b)
  BY DEF w
<1>8. written = transmitted + Len(w) /\ transmitted \in Nat
  BY <1>2 DEF w, Types
<1>9. \A i \in 1..Len(w) : text'[w[i]] = transmitted + i
  BY <1>4, <1>6 DEF Types
<1>10. text'[b] = transmitted + (Len(w) + 1)
  BY <1>3, <1>4, <1>8 DEF Types
<1>11. \A i \in 1..Len(w) + 1 : i \in 1..Len(w) \/ i = Len(w) + 1
  BY <1>3
<1>12. \A i \in DOMAIN Append(w, b) : text'[Append(w, b)[i]] = transmitted + i
  BY <1>3, <1>9, <1>10, <1>11
<1>13. written' = transmitted + Len(Append(w, b))
  BY <1>3, <1>4, <1>8
<1> QED BY <1>5, <1>7, <1>12, <1>13

\* The same facts about the next state.
LEMMA UnfoldedNext ==
    /\ NothingLost' <=> /\ written' = transmitted' + Len(Waiting')
                        /\ \A i \in DOMAIN Waiting' : text'[Waiting'[i]] = transmitted' + i
                        /\ uart' = txBuffer' /\ (txActive' <=> uart' # None)
                        /\ ~txActive' => txQueue' = <<>> \/ gate'
    /\ Types' =>
         (CountsAreExact' <=>
            \A b \in Buffers :
                refs'[b] = InTx(b)' + Occurrences(mailbox', b) + One(b = rxBuffer') + HeldByTask(b)')
<1>1. ASSUME Types'
      PROVE  \A b \in Buffers : Occurrences(txQueue', b) \in Nat /\ Occurrences(mailbox', b) \in Nat
  BY <1>1, OccurrencesType DEF Types
<1>2. ASSUME Types'
      PROVE  CountsAreExact' <=>
               \A b \in Buffers :
                   refs'[b] = InTx(b)' + Occurrences(mailbox', b) + One(b = rxBuffer') + HeldByTask(b)'
  BY <1>1, <1>2 DEF CountsAreExact, InTx, One, HeldByTask
<1>3. NothingLost' <=> /\ written' = transmitted' + Len(Waiting')
                       /\ \A i \in DOMAIN Waiting' : text'[Waiting'[i]] = transmitted' + i
                       /\ uart' = txBuffer' /\ (txActive' <=> uart' # None)
                       /\ ~txActive' => txQueue' = <<>> \/ gate'
  BY DEF NothingLost, Waiting
<1> QED BY <1>2, <1>3

\* A step that leaves the transmit side alone.
LEMMA TxStays ==
    ASSUME IInv, UNCHANGED <<txBuffer, txQueue, txActive, uart, traffic>>,
           ~txActive => txQueue = <<>> \/ gate'
    PROVE  NothingLost' /\ \A b : InTx(b)' = InTx(b)
BY DEF IInv, NothingLost, InTx, traffic

\* Numbers of places of a buffer.
LEMMA PlaceTypes ==
    ASSUME Types, NEW b
    PROVE  InTx(b) \in Nat /\ InRx(b) \in Nat /\ Occurrences(mailbox, b) \in Nat /\ HeldByTask(b) \in Nat
<1>1. Occurrences(txQueue, b) \in Nat /\ Occurrences(mailbox, b) \in Nat
  BY OccurrencesType DEF Types
<1> QED BY <1>1 DEF InTx, InRx, One, HeldByTask

-----------------------------------------------------------------------------
(* Callbacks.                                                              *)

\* write() in a callback.
LEMMA WriteKeeps ==
    ASSUME IInv, WriteFromSwi, ~gate, UNCHANGED <<mailbox, task>>
    PROVE  IInv'
<1> DEFINE f == Fresh
           r == [refs EXCEPT ![f] = 1]
           queue == Append(txQueue, f)
<1>1. /\ f \in Buffers /\ refs[f] = 0 /\ InTx(f) = 0 /\ InRx(f) = 0 /\ f # data /\ f # out
      /\ Fill(f) /\ UNCHANGED <<rxBuffer, transmitted>>
      /\ IF txActive
         THEN refs' = r /\ txQueue' = queue /\ UNCHANGED <<txBuffer, txActive, uart>>
         ELSE StartNext(queue, r)
  BY FreshIsUnused DEF WriteFromSwi
<1> HIDE DEF f
<1>2. r \in [Buffers -> Nat] /\ \A b \in Buffers : r[b] = refs[b] + One(b = f)
  BY <1>1 DEF IInv, Types, One
<1>3. queue \in Seq(Buffers) /\ \A b : Occurrences(queue, b) = Occurrences(txQueue, b) + One(b = f)
  BY <1>1, OccurrencesAppend DEF IInv, Types
<1>4. uart = txBuffer /\ (txActive <=> uart # None) /\ (~txActive => txQueue = <<>>)
  BY NothingLostUnfolded DEF IInv
<1>5. /\ txQueue' \in Seq(Buffers) /\ txBuffer' \in Buffers \cup {None} /\ txActive' \in BOOLEAN
      /\ uart' = txBuffer' /\ (txActive' <=> uart' # None) /\ (~txActive' => txQueue' = <<>>)
      /\ refs' \in [Buffers -> Int] /\ \A b \in Buffers : refs'[b] = refs[b] + One(b = f)
      /\ \A b \in Buffers : InTx(b)' = InTx(b) + One(b = f)
      /\ Waiting' = Append(Waiting, f)
  <2>1. CASE txActive
    <3>1. Waiting = <<uart>> \o txQueue /\ Waiting' = <<uart>> \o queue /\ uart \in Buffers
      BY <1>1, <1>4, <2>1 DEF Waiting, IInv, Types
    <3>2. <<uart>> \o Append(txQueue, f) = Append(<<uart>> \o txQueue, f)
      BY <1>1, <3>1, AppendBehind DEF IInv, Types
    <3>3. \A b \in Buffers : Occurrences(txQueue, b) \in Nat
      BY OccurrencesType DEF IInv, Types
    <3>4. refs' = r /\ txQueue' = queue /\ UNCHANGED <<txBuffer, txActive, uart>>
      BY <1>1, <2>1
    <3>5. Waiting' = Append(Waiting, f)
      BY <3>1, <3>2
    <3> HIDE DEF r, queue
    <3>6. \A b \in Buffers : InTx(b)' = InTx(b) + One(b = f)
      BY <1>3, <3>3, <3>4 DEF InTx, One
    <3>7. refs' \in [Buffers -> Int] /\ \A b \in Buffers : refs'[b] = refs[b] + One(b = f)
      BY <1>2, <3>4
    <3>8. /\ txQueue' \in Seq(Buffers) /\ txBuffer' \in Buffers \cup {None} /\ txActive' \in BOOLEAN
          /\ uart' = txBuffer' /\ (txActive' <=> uart' # None) /\ (~txActive' => txQueue' = <<>>)
      BY <1>3, <1>4, <2>1, <3>4 DEF IInv, Types
    <3> QED BY <3>5, <3>6, <3>7, <3>8
  <2>2. CASE ~txActive
    <3>1. txBuffer = None /\ txQueue = <<>> /\ Waiting = <<>> /\ StartNext(queue, r)
      BY <1>1, <1>4, <2>2 DEF Waiting
    <3>2. \A b \in Buffers : InTx(b) = 0 /\ Occurrences(queue, b) = One(b = f)
      BY <1>3, <3>1, OccurrencesOfNone, FirmwareAssumption DEF InTx, One
    <3>3. /\ txQueue' \in Seq(Buffers) /\ txBuffer' \in Buffers \cup {None} /\ txActive' \in BOOLEAN
          /\ uart' = txBuffer' /\ (txActive' <=> uart' # None) /\ (~txActive' => txQueue' = <<>>)
          /\ Waiting' = queue /\ refs' \in [Buffers -> Int]
          /\ \A b \in Buffers : refs'[b] = r[b] - One(b = txBuffer)
          /\ \A b \in Buffers : InTx(b)' = Occurrences(queue, b)
      <4> HIDE DEF queue, r
      <4> QED BY <1>2, <1>3, <3>1, StartNextFacts DEF IInv
    <3>4. \A b \in Buffers : InTx(b)' = InTx(b) + One(b = f)
      BY <3>2, <3>3 DEF One
    <3>5. \A b \in Buffers : refs'[b] = refs[b] + One(b = f)
      <4> HIDE DEF r
      <4> QED BY <1>2, <3>1, <3>3, FirmwareAssumption DEF One
    <3> QED BY <3>1, <3>3, <3>4, <3>5
  <2> QED BY <2>1, <2>2 DEF IInv, Types
<1> HIDE DEF r, queue
<1>6. /\ written' \in Nat /\ text' \in [Buffers -> Nat]
      /\ written' = transmitted' + Len(Waiting')
      /\ \A i \in DOMAIN Waiting' : text'[Waiting'[i]] = transmitted' + i
  BY <1>1, <1>5, WaitingGrows DEF IInv
<1>7. \A b \in Buffers : refs'[b] \in Nat
  <2>1. \A b \in Buffers : refs[b] \in Nat
    BY DEF IInv, Types
  <2> QED BY <1>5, <2>1 DEF One
<1>8. Types'
  BY <1>1, <1>5, <1>6, <1>7 DEF IInv, Types, task
<1>9. NothingLost'
  BY <1>5, <1>6, UnfoldedNext
<1>10. Control'
  <2>1. pc = "store" => data \in Buffers /\ data # f
    BY <1>1 DEF IInv, Control, Types
  <2>2. pc = "store" => count' = refs'[data]
    BY <1>5, <2>1 DEF IInv, Control, Types, One, task
  <2>3. pc = "enqueue" => InTx(out)' = 0
    <3> SUFFICES ASSUME pc = "enqueue" PROVE InTx(out)' = 0
      OBVIOUS
    <3>1. out \in Buffers /\ out' = out /\ InTx(out) = 0 /\ out # f
      BY <1>1 DEF IInv, Control, Types, task
    <3>2. \A b \in Buffers : b = out => InTx(b) = 0 /\ InTx(b)' = 0
      BY <1>5, <3>1 DEF One
    <3> QED BY <3>1, <3>2 DEF InTx
  <2>4. pc \notin {"start", "leave"}
    BY DEF IInv, Control
  <2> QED BY <2>2, <2>3, <2>4 DEF IInv, Control, task, InTx
<1>11. \A b : InRx(b)' = InRx(b) /\ HeldByTask(b)' = HeldByTask(b)
  BY <1>1 DEF InRx, HeldByTask, task
<1>12. Separate'
  BY <1>1, <1>5, <1>11 DEF IInv, Separate, task, One
<1>13. CountsAreExact'
  <2> SUFFICES ASSUME NEW b \in Buffers
               PROVE  refs'[b] = InTx(b)' + Occurrences(mailbox', b) + One(b = rxBuffer') + HeldByTask(b)'
    BY <1>8, UnfoldedNext
  <2>1. refs[b] = InTx(b) + Occurrences(mailbox, b) + One(b = rxBuffer) + HeldByTask(b)
    BY CountsUnfolded DEF IInv
  <2>2. InTx(b) \in Nat /\ Occurrences(mailbox, b) \in Nat /\ HeldByTask(b) \in Nat
    BY PlaceTypes DEF IInv
  <2>3. refs'[b] = refs[b] + One(b = f) /\ InTx(b)' = InTx(b) + One(b = f)
    BY <1>5
  <2>4. mailbox' = mailbox /\ rxBuffer' = rxBuffer /\ HeldByTask(b)' = HeldByTask(b)
    BY <1>1, <1>11
  <2> QED BY <2>1, <2>2, <2>3, <2>4 DEF One
<1> QED BY <1>8, <1>9, <1>10, <1>12, <1>13 DEF IInv

\* The counts are exact again if they have changed as the references have.
LEMMA Balance ==
    ASSUME IInv, Types', \A b : InTx(b)' = InTx(b),
           \A b \in Buffers :
             refs'[b] + Occurrences(mailbox, b) + One(b = rxBuffer) + HeldByTask(b)
               = refs[b] + Occurrences(mailbox', b) + One(b = rxBuffer') + HeldByTask(b)'
    PROVE  CountsAreExact'
<1> SUFFICES ASSUME NEW b \in Buffers
             PROVE  refs'[b] = InTx(b)' + Occurrences(mailbox', b) + One(b = rxBuffer') + HeldByTask(b)'
  BY UnfoldedNext
<1>1. refs[b] = InTx(b) + Occurrences(mailbox, b) + One(b = rxBuffer) + HeldByTask(b)
  BY CountsUnfolded DEF IInv
<1>2. InTx(b) \in Nat /\ Occurrences(mailbox, b) \in Nat /\ HeldByTask(b) \in Nat /\ refs[b] \in Nat
  BY PlaceTypes DEF IInv, Types
<1>3. Occurrences(mailbox', b) \in Nat /\ HeldByTask(b)' \in Nat /\ refs'[b] \in Nat
  <2>1. Occurrences(mailbox', b) \in Nat
    BY OccurrencesType DEF Types
  <2>2. HeldByTask(b)' \in Nat
    BY DEF HeldByTask
  <2> QED BY <2>1, <2>2 DEF Types
<1>4. /\ InTx(b)' = InTx(b)
      /\ refs'[b] + Occurrences(mailbox, b) + One(b = rxBuffer) + HeldByTask(b)
           = refs[b] + Occurrences(mailbox', b) + One(b = rxBuffer') + HeldByTask(b)'
  OBVIOUS
<1> QED BY <1>1, <1>2, <1>3, <1>4 DEF One

\* A header: a buffer is taken for the payload.
LEMMA ReceiveHeaderKeeps == ASSUME IInv, ReceiveHeader PROVE IInv'
<1> DEFINE f == Fresh
<1>1. /\ f \in Buffers /\ refs[f] = 0 /\ InTx(f) = 0 /\ InRx(f) = 0 /\ f # data /\ f # out
      /\ refs' = [refs EXCEPT ![f] = 1] /\ rxBuffer = None /\ rxBuffer' = f /\ ~gate
      /\ UNCHANGED <<txBuffer, txQueue, txActive, uart, mailbox, task, traffic>>
  BY FreshIsUnused DEF ReceiveHeader, SwiRuns
<1> HIDE DEF f
<1>2. \A b \in Buffers : refs[b] \in Nat /\ refs'[b] = refs[b] + One(b = f)
  BY <1>1 DEF IInv, Types, One
<1>3. Types'
  BY <1>1 DEF IInv, Types, task, traffic
<1>4. NothingLost' /\ \A b : InTx(b)' = InTx(b)
  BY <1>1, TxStays, NothingLostUnfolded DEF IInv, task
<1>5. /\ \A b \in Buffers : One(b = rxBuffer) = 0 /\ One(b = rxBuffer') = One(b = f)
      /\ \A b : HeldByTask(b)' = HeldByTask(b)
  BY <1>1, FirmwareAssumption DEF One, HeldByTask, task
<1>6. \A b \in Buffers : InRx(b)' = InRx(b) + One(b = f)
  <2> TAKE b \in Buffers
  <2>1. Occurrences(mailbox, b) \in Nat
    BY PlaceTypes DEF IInv
  <2> QED BY <1>1, <1>5, <2>1 DEF InRx, One, task
<1>7. Separate'
  <2> SUFFICES ASSUME NEW b \in Buffers PROVE InRx(b)' <= 1 /\ (InRx(b)' = 1 => InTx(b)' = 0 /\ b # out')
    BY DEF Separate
  <2>1. InRx(b) <= 1 /\ (InRx(b) = 1 => InTx(b) = 0 /\ b # out) /\ InRx(b) \in Nat
    BY PlaceTypes DEF IInv, Separate
  <2>2. InRx(b)' = InRx(b) + One(b = f) /\ InTx(b)' = InTx(b) /\ out' = out
    BY <1>1, <1>4, <1>6 DEF task
  <2> QED BY <1>1, <2>1, <2>2 DEF One
<1>8. Control'
  <2>1. pc = "store" => data \in Buffers /\ data # f
    BY <1>1 DEF IInv, Control, Types
  <2>2. pc = "store" => count' = refs'[data]
    BY <1>1, <2>1 DEF IInv, Control, Types, task
  <2> QED BY <1>1, <1>4, <2>2 DEF IInv, Control, task, InTx
<1>9. CountsAreExact'
  <2>1. ASSUME NEW b \in Buffers
        PROVE  refs'[b] + Occurrences(mailbox, b) + One(b = rxBuffer) + HeldByTask(b)
                 = refs[b] + Occurrences(mailbox', b) + One(b = rxBuffer') + HeldByTask(b)'
    <3>1. Occurrences(mailbox, b) \in Nat /\ HeldByTask(b) \in Nat /\ b # None
      BY PlaceTypes, FirmwareAssumption DEF IInv
    <3>2. refs[b] \in Nat /\ refs'[b] = refs[b] + One(b = f)
      BY <1>2
    <3>3. mailbox' = mailbox /\ HeldByTask(b)' = HeldByTask(b)
      BY <1>1, <1>5
    <3> QED BY <1>1, <3>1, <3>2, <3>3 DEF One
  <2> QED BY <1>3, <1>4, <2>1, Balance
<1> QED BY <1>3, <1>4, <1>7, <1>8, <1>9 DEF IInv

\* A step that leaves the transmit side alone keeps the invariant if references
\* change with their places, and no buffer gets into two places.
LEMMA RxStep ==
    ASSUME IInv, Types', Control',
           UNCHANGED <<txBuffer, txQueue, txActive, uart, traffic>>,
           ~txActive => txQueue = <<>> \/ gate',
           \A b \in Buffers :
             refs'[b] + Occurrences(mailbox, b) + One(b = rxBuffer) + HeldByTask(b)
               = refs[b] + Occurrences(mailbox', b) + One(b = rxBuffer') + HeldByTask(b)',
           \A b \in Buffers : InRx(b)' <= 1 /\ (InRx(b)' = 1 => InTx(b) = 0 /\ b # out')
    PROVE  IInv'
<1>1. NothingLost' /\ \A b : InTx(b)' = InTx(b)
  BY TxStays
<1>2. Separate'
  BY <1>1 DEF Separate
<1>3. CountsAreExact'
  BY <1>1, Balance
<1> QED BY <1>1, <1>2, <1>3 DEF IInv

\* Each buffer before a step.
LEMMA Before ==
    ASSUME IInv, NEW b \in Buffers
    PROVE  /\ b # None /\ refs[b] \in Nat
           /\ InTx(b) \in Nat /\ InRx(b) \in Nat /\ Occurrences(mailbox, b) \in Nat /\ HeldByTask(b) \in Nat
           /\ InRx(b) <= 1 /\ (InRx(b) = 1 => InTx(b) = 0 /\ b # out)
           /\ refs[b] = InTx(b) + Occurrences(mailbox, b) + One(b = rxBuffer) + HeldByTask(b)
<1>1. b # None
  BY FirmwareAssumption
<1>2. InTx(b) \in Nat /\ InRx(b) \in Nat /\ Occurrences(mailbox, b) \in Nat /\ HeldByTask(b) \in Nat
  BY PlaceTypes DEF IInv
<1>3. refs[b] = InTx(b) + Occurrences(mailbox, b) + One(b = rxBuffer) + HeldByTask(b)
  BY CountsUnfolded DEF IInv
<1>4. InRx(b) <= 1 /\ (InRx(b) = 1 => InTx(b) = 0 /\ b # out) /\ refs[b] \in Nat
  BY DEF IInv, Separate, Types
<1> QED BY <1>1, <1>2, <1>3, <1>4

\* A payload is refused, is too much for the mailbox, or is put into the mailbox.
LEMMA ReceivePayloadKeeps == ASSUME IInv, ReceivePayload PROVE IInv'
<1> DEFINE x == rxBuffer
<1>1. /\ x \in Buffers /\ ~gate /\ (~txActive => txQueue = <<>>)
      /\ UNCHANGED <<txBuffer, txQueue, txActive, uart, task, traffic>>
  BY NothingLostUnfolded DEF ReceivePayload, SwiRuns, IInv, Types
<1>2. refs[x] # 0 /\ x # data
  <2>1. InRx(x) <= 1 /\ Occurrences(mailbox, x) \in Nat
    BY <1>1, Before
  <2>2. x # data
    BY <2>1 DEF InRx, One
  <2>3. refs[x] = InTx(x) + Occurrences(mailbox, x) + 1 + HeldByTask(x) /\ InTx(x) \in Nat /\ HeldByTask(x) \in Nat
    BY <1>1, Before DEF One
  <2> QED BY <2>1, <2>2, <2>3
<1>3. \A b : HeldByTask(b)' = HeldByTask(b)
  BY <1>1 DEF HeldByTask, task
<1>4. CASE refs' = Decrement(refs, rxBuffer) /\ rxBuffer' = None /\ UNCHANGED mailbox
  <2>1. refs' = [refs EXCEPT ![x] = @ - 1] /\ refs \in [Buffers -> Nat]
    BY <1>1, <1>4, FirmwareAssumption DEF Decrement, IInv, Types
  <2>2. \A b \in Buffers : refs'[b] \in Nat /\ refs'[b] = refs[b] - One(b = x)
    BY <1>1, <1>2, <2>1 DEF One
  <2>3. refs' \in [Buffers -> Nat]
    BY <2>1, <2>2
  <2>4. Types'
    BY <1>1, <1>4, <2>3 DEF IInv, Types, task, traffic
  <2>5. pc = "store" => data \in Buffers /\ refs'[data] = refs[data]
    BY <1>2, <2>1 DEF IInv, Control, Types
  <2>6. Control'
    BY <1>1, <2>5 DEF IInv, Control, task, InTx
  <2>7. ASSUME NEW b \in Buffers
        PROVE  /\ refs'[b] + Occurrences(mailbox, b) + One(b = rxBuffer) + HeldByTask(b)
                     = refs[b] + Occurrences(mailbox', b) + One(b = rxBuffer') + HeldByTask(b)'
               /\ InRx(b)' <= 1 /\ (InRx(b)' = 1 => InTx(b) = 0 /\ b # out')
    <3>1. /\ b # None /\ refs[b] \in Nat /\ Occurrences(mailbox, b) \in Nat /\ HeldByTask(b) \in Nat
          /\ InRx(b) <= 1 /\ (InRx(b) = 1 => InTx(b) = 0 /\ b # out)
      BY Before
    <3>2. refs'[b] = refs[b] - One(b = x) /\ HeldByTask(b)' = HeldByTask(b) /\ mailbox' = mailbox
      BY <1>3, <1>4, <2>2
    <3>3. InRx(b)' <= InRx(b) /\ InRx(b)' \in Nat /\ InRx(b) \in Nat /\ out' = out
      BY <1>1, <1>4, <3>1 DEF InRx, One, task
    <3>4. refs'[b] + Occurrences(mailbox, b) + One(b = rxBuffer) + HeldByTask(b)
            = refs[b] + Occurrences(mailbox', b) + One(b = rxBuffer') + HeldByTask(b)'
      BY <1>4, <3>1, <3>2 DEF One
    <3>5. InRx(b)' <= 1 /\ (InRx(b)' = 1 => InRx(b) = 1)
      BY <3>1, <3>3
    <3> QED BY <3>1, <3>3, <3>4, <3>5
  <2> QED BY <1>1, <2>4, <2>6, <2>7, RxStep
<1>5. CASE UNCHANGED <<refs, rxBuffer, mailbox>>
  <2>1. Types' /\ Control'
    BY <1>1, <1>5 DEF IInv, Types, Control, task, traffic, InTx
  <2>2. ASSUME NEW b \in Buffers
        PROVE  /\ refs'[b] + Occurrences(mailbox, b) + One(b = rxBuffer) + HeldByTask(b)
                     = refs[b] + Occurrences(mailbox', b) + One(b = rxBuffer') + HeldByTask(b)'
               /\ InRx(b)' <= 1 /\ (InRx(b)' = 1 => InTx(b) = 0 /\ b # out')
    <3>1. InRx(b) <= 1 /\ (InRx(b) = 1 => InTx(b) = 0 /\ b # out)
      BY Before
    <3>2. InRx(b)' = InRx(b) /\ HeldByTask(b)' = HeldByTask(b) /\ out' = out
      BY <1>1, <1>3, <1>5 DEF InRx, task
    <3> QED BY <1>5, <3>1, <3>2
  <2> QED BY <1>1, <2>1, <2>2, RxStep
<1>6. CASE /\ refs' = Decrement([refs EXCEPT ![rxBuffer] = @ + 1], rxBuffer)
           /\ mailbox' = Append(mailbox, rxBuffer) /\ rxBuffer' = None
  <2>1. refs \in [Buffers -> Nat]
    BY DEF IInv, Types
  <2>2. refs' = [[refs EXCEPT ![x] = @ + 1] EXCEPT ![x] = @ - 1]
    BY <1>1, <1>6, FirmwareAssumption DEF Decrement
  <2>3. refs' \in [Buffers -> Int] /\ \A b \in Buffers : refs'[b] = refs[b]
    BY <1>1, <2>1, <2>2
  <2>4. refs' \in [Buffers -> Nat]
    BY <2>1, <2>3
  <2>5. mailbox' \in Seq(Buffers) /\ \A b : Occurrences(mailbox', b) = Occurrences(mailbox, b) + One(b = x)
    BY <1>1, <1>6, OccurrencesAppend DEF IInv, Types
  <2>6. Types'
    BY <1>1, <1>6, <2>4, <2>5 DEF IInv, Types, task, traffic
  <2>7. pc = "store" => data \in Buffers /\ refs'[data] = refs[data]
    BY <2>3 DEF IInv, Control, Types
  <2>8. Control'
    BY <1>1, <2>7 DEF IInv, Control, task, InTx
  <2>9. ASSUME NEW b \in Buffers
        PROVE  /\ refs'[b] + Occurrences(mailbox, b) + One(b = rxBuffer) + HeldByTask(b)
                     = refs[b] + Occurrences(mailbox', b) + One(b = rxBuffer') + HeldByTask(b)'
               /\ InRx(b)' <= 1 /\ (InRx(b)' = 1 => InTx(b) = 0 /\ b # out')
    <3>1. /\ b # None /\ refs[b] \in Nat /\ Occurrences(mailbox, b) \in Nat /\ HeldByTask(b) \in Nat
          /\ InRx(b) <= 1 /\ (InRx(b) = 1 => InTx(b) = 0 /\ b # out)
      BY Before
    <3>2. /\ refs'[b] = refs[b] /\ HeldByTask(b)' = HeldByTask(b)
          /\ Occurrences(mailbox', b) = Occurrences(mailbox, b) + One(b = x)
          /\ rxBuffer' = None /\ data' = data /\ out' = out
      BY <1>1, <1>3, <1>6, <2>3, <2>5 DEF task
    <3>3. InRx(b)' = Occurrences(mailbox', b) + One(b = rxBuffer') + One(b = data')
      BY DEF InRx
    <3>4. InRx(b)' = InRx(b)
      BY <3>1, <3>2, <3>3 DEF InRx, One
    <3>5. refs'[b] + Occurrences(mailbox, b) + One(b = rxBuffer) + HeldByTask(b)
            = refs[b] + Occurrences(mailbox', b) + One(b = rxBuffer') + HeldByTask(b)'
      BY <3>1, <3>2 DEF One
    <3> QED BY <3>1, <3>2, <3>4, <3>5
  <2> QED BY <1>1, <2>6, <2>8, <2>9, RxStep
<1> QED BY <1>4, <1>5, <1>6 DEF ReceivePayload

-----------------------------------------------------------------------------
(* The main task.                                                          *)

\* A step of the task that moves references from one pointer of its own to another.
LEMMA TaskStepKeeps ==
    ASSUME IInv, Types', Control',
           UNCHANGED <<txBuffer, txQueue, txActive, uart, traffic, mailbox, rxBuffer>>,
           ~txActive => txQueue = <<>> \/ gate',
           data' \in {data, None}, out' \in {out, None},
           \A b \in Buffers : refs'[b] + HeldByTask(b) = refs[b] + HeldByTask(b)'
    PROVE  IInv'
<1>1. ASSUME NEW b \in Buffers
      PROVE  /\ refs'[b] + Occurrences(mailbox, b) + One(b = rxBuffer) + HeldByTask(b)
                   = refs[b] + Occurrences(mailbox', b) + One(b = rxBuffer') + HeldByTask(b)'
             /\ InRx(b)' <= 1 /\ (InRx(b)' = 1 => InTx(b) = 0 /\ b # out')
  <2>1. /\ b # None /\ refs[b] \in Nat /\ Occurrences(mailbox, b) \in Nat /\ HeldByTask(b) \in Nat
        /\ InRx(b) <= 1 /\ (InRx(b) = 1 => InTx(b) = 0 /\ b # out)
    BY Before
  <2>2. refs'[b] \in Nat /\ refs'[b] + HeldByTask(b) = refs[b] + HeldByTask(b)'
    BY DEF Types
  <2>3. HeldByTask(b)' \in Nat
    BY DEF HeldByTask
  <2>4. refs'[b] + Occurrences(mailbox, b) + One(b = rxBuffer) + HeldByTask(b)
          = refs[b] + Occurrences(mailbox', b) + One(b = rxBuffer') + HeldByTask(b)'
    <3> DEFINE x == refs'[b]
               y == refs[b]
               o == Occurrences(mailbox, b)
               n == One(b = rxBuffer)
               g == HeldByTask(b)
               h == HeldByTask(b)'
    <3>1. x \in Nat /\ y \in Nat /\ o \in Nat /\ g \in Nat
      BY <2>1, <2>2
    <3>2. h \in Nat
      BY <2>3
    <3>3. n \in Nat
      BY DEF One
    <3>4. x + g = y + h
      BY <2>2
    <3>5. o = Occurrences(mailbox', b) /\ n = One(b = rxBuffer')
      OBVIOUS
    <3> HIDE DEF x, y, o, n, g, h
    <3>6. x + o + n + g = y + o + n + h
      BY <3>1, <3>2, <3>3, <3>4
    <3>7. x + o + n + g = y + Occurrences(mailbox', b) + One(b = rxBuffer') + h
      BY <3>5, <3>6
    <3> QED BY <3>7 DEF x, y, o, n, g, h
  <2>5. InRx(b)' <= InRx(b) /\ InRx(b)' \in Nat /\ InRx(b) \in Nat
    BY <2>1 DEF InRx, One
  <2>6. InRx(b)' <= 1 /\ (InRx(b)' = 1 => InRx(b) = 1)
    BY <2>1, <2>5
  <2> QED BY <2>1, <2>4, <2>6
<1> QED BY <1>1, RxStep

\* Event_pend(), the tests, and what hangs: no reference is touched.
LEMMA NoReferenceKeeps ==
    ASSUME IInv, EventPend \/ LoadCount \/ TestActive \/ LeaveGate
                 \/ WatchdogClockCallback \/ LateInSwi \/ UNCHANGED vars
    PROVE  IInv'
<1>1. ~txActive => txQueue = <<>> \/ gate
  BY NothingLostUnfolded DEF IInv
<1>2. CASE EventPend
  <2>1. Types' /\ Control'
    BY <1>2 DEF EventPend, At, Goto, IInv, Types, Control, Places, serial, traffic, InTx
  <2>2. ASSUME NEW b \in Buffers PROVE refs'[b] + HeldByTask(b) = refs[b] + HeldByTask(b)'
    <3>1. data = None /\ out = None /\ data' = None /\ out' = None /\ b # None
      BY <1>2, Before DEF EventPend, At, IInv, Control
    <3>2. HeldByTask(b) = 0 /\ HeldByTask(b)' = 0
      BY <3>1 DEF HeldByTask
    <3> QED BY <1>2, <3>2 DEF EventPend
  <2> QED BY <1>1, <1>2, <2>1, <2>2, TaskStepKeeps DEF EventPend, serial
<1>3. CASE LoadCount
  <2>1. Types' /\ Control'
    BY <1>3 DEF LoadCount, At, Goto, IInv, Types, Control, Places, UnchangedTx, UnchangedByTask, traffic, InTx
  <2>2. ASSUME NEW b \in Buffers PROVE refs'[b] + HeldByTask(b) = refs[b] + HeldByTask(b)'
    BY <1>3 DEF LoadCount, At, Goto, HeldByTask
  <2> QED BY <1>1, <1>3, <2>1, <2>2, TaskStepKeeps DEF LoadCount, UnchangedTx, UnchangedByTask
<1>4. CASE TestActive
  <2>1. Types' /\ Control'
    BY <1>4 DEF TestActive, At, Goto, IInv, Types, Control, Places, UnchangedTx, UnchangedByTask, traffic, InTx
  <2>2. ASSUME NEW b \in Buffers PROVE refs'[b] + HeldByTask(b) = refs[b] + HeldByTask(b)'
    BY <1>4 DEF TestActive, At, Goto, HeldByTask
  <2> QED BY <1>1, <1>4, <2>1, <2>2, TaskStepKeeps DEF TestActive, UnchangedTx, UnchangedByTask
<1>5. CASE LeaveGate
  <2>1. Types' /\ Control' /\ (~txActive => txQueue = <<>>)
    BY <1>5 DEF LeaveGate, At, Goto, IInv, Types, Control, Places, UnchangedTx, UnchangedByTask, traffic, InTx
  <2>2. ASSUME NEW b \in Buffers PROVE refs'[b] + HeldByTask(b) = refs[b] + HeldByTask(b)'
    <3>1. count = 0 /\ pc = "leave" /\ pc' = "drop" /\ UNCHANGED <<refs, data, out, count>>
      BY <1>5 DEF LeaveGate, At, Goto, IInv, Control
    <3> QED BY <3>1 DEF HeldByTask
  <2> QED BY <1>5, <2>1, <2>2, TaskStepKeeps DEF LeaveGate, UnchangedTx, UnchangedByTask
<1>6. CASE WatchdogClockCallback \/ LateInSwi \/ UNCHANGED vars
  <2>1. UNCHANGED <<refs, serial, mailbox, task, traffic>>
    BY <1>6 DEF WatchdogClockCallback, LateInSwi, vars
  <2>2. Types' /\ Control'
    BY <2>1 DEF IInv, Types, Control, serial, task, traffic, InTx
  <2>3. ASSUME NEW b \in Buffers PROVE refs'[b] + HeldByTask(b) = refs[b] + HeldByTask(b)'
    BY <2>1 DEF HeldByTask, task
  <2> QED BY <1>1, <2>1, <2>2, <2>3, TaskStepKeeps DEF serial, task
<1> QED BY <1>2, <1>3, <1>4, <1>5, <1>6

\* A message is taken out of the mailbox.
LEMMA MailboxPendKeeps == ASSUME IInv, MailboxPend PROVE IInv'
<1>1. /\ pc = "drain" /\ data = None /\ out = None /\ ~gate /\ count = 0
      /\ UNCHANGED <<txBuffer, txQueue, txActive, uart, rxBuffer, traffic, refs, count, out, gate>>
  BY DEF MailboxPend, At, UnchangedTx, UnchangedByTask, IInv, Control
<1>2. ~txActive => txQueue = <<>> \/ gate'
  BY <1>1, NothingLostUnfolded DEF IInv
<1>3. CASE mailbox = <<>>
  <2>1. pc' = "pend" /\ UNCHANGED <<data, mailbox>>
    BY <1>3 DEF MailboxPend, Goto
  <2>2. Types' /\ Control'
    BY <1>1, <2>1 DEF IInv, Types, Control, Places, traffic, InTx
  <2>3. ASSUME NEW b \in Buffers PROVE refs'[b] + HeldByTask(b) = refs[b] + HeldByTask(b)'
    <3>1. b # None
      BY Before
    <3> QED BY <1>1, <2>1, <3>1 DEF HeldByTask
  <2> QED BY <1>1, <1>2, <2>1, <2>2, <2>3, TaskStepKeeps
<1>4. CASE mailbox # <<>>
  <2> DEFINE h == Head(mailbox)
  <2>1. pc' = "load" /\ data' = h /\ mailbox' = Tail(mailbox)
    BY <1>4 DEF MailboxPend, Goto
  <2>2. /\ h \in Buffers /\ mailbox' \in Seq(Buffers)
        /\ \A b : Occurrences(mailbox, b) = Occurrences(mailbox', b) + One(b = h)
    BY <1>4, <2>1, OccurrencesTail DEF IInv, Types
  <2> HIDE DEF h
  <2>3. Types' /\ Control'
    BY <1>1, <2>1, <2>2, FirmwareAssumption DEF IInv, Types, Control, Places, traffic, InTx
  <2>4. ASSUME NEW b \in Buffers
        PROVE  /\ refs'[b] + Occurrences(mailbox, b) + One(b = rxBuffer) + HeldByTask(b)
                     = refs[b] + Occurrences(mailbox', b) + One(b = rxBuffer') + HeldByTask(b)'
               /\ InRx(b)' <= 1 /\ (InRx(b)' = 1 => InTx(b) = 0 /\ b # out')
    <3>1. /\ b # None /\ refs[b] \in Nat
          /\ InRx(b) <= 1 /\ (InRx(b) = 1 => InTx(b) = 0 /\ b # out)
      BY Before
    <3>2. Occurrences(mailbox, b) = Occurrences(mailbox', b) + One(b = h)
      BY <2>2
    <3>3. Occurrences(mailbox', b) \in Nat
      BY <2>2, OccurrencesType
    <3>4. HeldByTask(b) = 0 /\ HeldByTask(b)' = One(b = h)
      BY <1>1, <2>1, <3>1 DEF HeldByTask, One
    <3>5. InRx(b)' = Occurrences(mailbox', b) + One(b = rxBuffer') + One(b = data')
      BY DEF InRx
    <3>6. InRx(b)' = InRx(b)
      BY <1>1, <2>1, <3>1, <3>2, <3>3, <3>5 DEF InRx, One
    <3>7. refs'[b] + Occurrences(mailbox, b) + One(b = rxBuffer) + HeldByTask(b)
            = refs[b] + Occurrences(mailbox', b) + One(b = rxBuffer') + HeldByTask(b)'
      BY <1>1, <3>1, <3>2, <3>3, <3>4 DEF One
    <3> QED BY <1>1, <3>1, <3>6, <3>7
  <2> QED BY <1>1, <1>2, <2>3, <2>4, RxStep
<1> QED BY <1>3, <1>4

\* SharedPointer(data): nobody has changed the count since it was loaded.
LEMMA StoreCountKeeps == ASSUME IInv, StoreCount PROVE IInv'
<1>1. /\ pc = "store" /\ pc' = "process" /\ data \in Buffers /\ out = None /\ count = refs[data]
      /\ count' = 0 /\ refs' = [refs EXCEPT ![data] = count + 1] /\ refs \in [Buffers -> Nat]
      /\ UNCHANGED <<txBuffer, txQueue, txActive, uart, rxBuffer, mailbox, traffic, data, out, gate>>
  BY DEF StoreCount, At, Goto, UnchangedTx, UnchangedByTask, IInv, Control, Types
<1>2. ~txActive => txQueue = <<>> \/ gate'
  BY <1>1, NothingLostUnfolded DEF IInv
<1>3. refs' \in [Buffers -> Nat] /\ \A b \in Buffers : refs'[b] = refs[b] + One(b = data)
  BY <1>1 DEF One
<1>4. Types' /\ Control'
  BY <1>1, <1>3 DEF IInv, Types, Control, Places, traffic, InTx
<1>5. ASSUME NEW b \in Buffers PROVE refs'[b] + HeldByTask(b) = refs[b] + HeldByTask(b)'
  <2>1. refs[b] \in Nat /\ refs'[b] = refs[b] + One(b = data) /\ b # None
    BY <1>3, Before
  <2> QED BY <1>1, <2>1 DEF HeldByTask, One
<1> QED BY <1>1, <1>2, <1>4, <1>5, TaskStepKeeps

\* processMessage(), up to the next call of sendToHost().
LEMMA ProcessMessageKeeps == ASSUME IInv, ProcessMessage PROVE IInv'
<1>1. /\ pc = "process" /\ data \in Buffers /\ out = None /\ count = 0 /\ ~gate
      /\ UNCHANGED <<txBuffer, txQueue, txActive, uart, rxBuffer, mailbox, traffic, data, count, gate>>
  BY DEF ProcessMessage, At, UnchangedTx, IInv, Control, Types
<1>2. ~txActive => txQueue = <<>> \/ gate'
  BY <1>1, NothingLostUnfolded DEF IInv
<1>3. CASE pc' \in {"process", "release"} /\ UNCHANGED <<refs, out>>
  <2>1. Types' /\ Control'
    BY <1>1, <1>3 DEF IInv, Types, Control, Places, traffic, InTx
  <2>2. ASSUME NEW b \in Buffers PROVE refs'[b] + HeldByTask(b) = refs[b] + HeldByTask(b)'
    BY <1>1, <1>3 DEF HeldByTask
  <2> QED BY <1>1, <1>2, <1>3, <2>1, <2>2, TaskStepKeeps
<1>4. CASE HeapLeft /\ refs' = [refs EXCEPT ![Fresh] = 2] /\ out' = Fresh /\ pc' = "enqueue"
  <2> DEFINE f == Fresh
  <2>1. /\ f \in Buffers /\ refs[f] = 0 /\ InTx(f) = 0 /\ InRx(f) = 0 /\ f # data
        /\ refs' = [refs EXCEPT ![f] = 2] /\ out' = f /\ refs \in [Buffers -> Nat]
    BY <1>4, FreshIsUnused DEF IInv, Types
  <2> HIDE DEF f
  <2>2. refs' \in [Buffers -> Nat] /\ \A b \in Buffers : refs'[b] = refs[b] + (IF b = f THEN 2 ELSE 0)
    BY <2>1
  <2>3. Occurrences(txQueue, f) + One(f = txBuffer) = 0
    BY <2>1 DEF InTx
  <2>4. (pc = "enqueue" => InTx(out) = 0)'
    BY <1>1, <2>1, <2>3 DEF InTx
  <2>5. Types' /\ Control'
    BY <1>1, <1>4, <2>1, <2>2, <2>4, FirmwareAssumption DEF IInv, Types, Control, Places, traffic
  <2>6. ASSUME NEW b \in Buffers
        PROVE  /\ refs'[b] + Occurrences(mailbox, b) + One(b = rxBuffer) + HeldByTask(b)
                     = refs[b] + Occurrences(mailbox', b) + One(b = rxBuffer') + HeldByTask(b)'
               /\ InRx(b)' <= 1 /\ (InRx(b)' = 1 => InTx(b) = 0 /\ b # out')
    <3>1. /\ b # None /\ refs[b] \in Nat /\ Occurrences(mailbox, b) \in Nat
          /\ InRx(b) <= 1 /\ (InRx(b) = 1 => InTx(b) = 0)
      BY Before
    <3>2. refs'[b] = refs[b] + (IF b = f THEN 2 ELSE 0)
      BY <2>2
    <3>3. /\ HeldByTask(b) = (IF b = data THEN 2 ELSE 0)
          /\ HeldByTask(b)' = (IF b = data THEN 2 ELSE 0) + (IF b = f THEN 2 ELSE 0)
      BY <1>1, <1>4, <2>1, <3>1 DEF HeldByTask
    <3>4. mailbox' = mailbox /\ rxBuffer' = rxBuffer /\ InRx(b)' = InRx(b)
      BY <1>1 DEF InRx
    <3>5. refs'[b] + Occurrences(mailbox, b) + One(b = rxBuffer) + HeldByTask(b)
            = refs[b] + Occurrences(mailbox', b) + One(b = rxBuffer') + HeldByTask(b)'
      BY <3>1, <3>2, <3>3, <3>4 DEF One
    <3> QED BY <2>1, <3>1, <3>4, <3>5
  <2> QED BY <1>1, <1>2, <2>5, <2>6, RxStep
<1> QED BY <1>1, <1>3, <1>4 DEF ProcessMessage, Goto

\* Who holds a reference finds it counted.
LEMMA HeldIsCounted ==
    ASSUME IInv, NEW b \in Buffers
    PROVE  refs[b] >= HeldByTask(b) /\ refs[b] >= One(b = txBuffer)
<1>1. /\ Occurrences(txQueue, b) \in Nat /\ InTx(b) \in Nat /\ Occurrences(mailbox, b) \in Nat
      /\ HeldByTask(b) \in Nat
      /\ refs[b] = InTx(b) + Occurrences(mailbox, b) + One(b = rxBuffer) + HeldByTask(b)
  BY Before, OccurrencesType DEF IInv, Types
<1>2. InTx(b) = Occurrences(txQueue, b) + One(b = txBuffer)
  BY DEF InTx
<1> QED BY <1>1, <1>2 DEF One

\* The local pointer of write() goes, then txMessage.
LEMMA DropOutKeeps == ASSUME IInv, DropOut PROVE IInv'
<1>1. /\ pc = "drop" /\ data \in Buffers /\ out \in Buffers /\ count \in {0, 1} /\ ~gate
      /\ refs' = [refs EXCEPT ![out] = @ - 1] /\ refs \in [Buffers -> Nat]
      /\ UNCHANGED <<txBuffer, txQueue, txActive, uart, rxBuffer, mailbox, traffic, data, gate>>
      /\ \/ count = 0 /\ count' = 1 /\ UNCHANGED <<pc, out>>
         \/ count = 1 /\ count' = 0 /\ pc' = "process" /\ out' = None
  BY FirmwareAssumption DEF DropOut, At, Goto, Decrement, UnchangedTx, UnchangedByTask, IInv, Control, Types
<1>2. ~txActive => txQueue = <<>> \/ gate'
  BY <1>1, NothingLostUnfolded DEF IInv
<1>3. refs[out] > 0
  <2>1. HeldByTask(out) \in Nat \ {0}
    BY <1>1 DEF HeldByTask
  <2>2. refs[out] >= HeldByTask(out) /\ refs[out] \in Nat
    BY <1>1, HeldIsCounted
  <2> QED BY <2>1, <2>2
<1>4. refs' \in [Buffers -> Nat] /\ \A b \in Buffers : refs'[b] = refs[b] - One(b = out)
  BY <1>1, <1>3 DEF One
<1>5. Types' /\ Control'
  <2>1. Types'
    BY <1>1, <1>4 DEF IInv, Types, Places, traffic
  <2>2. CASE count = 0 /\ count' = 1 /\ UNCHANGED <<pc, out>>
    <3>1. pc' = "drop" /\ out' # None /\ data' # None /\ ~gate' /\ count' = 1
      BY <1>1, <2>2, FirmwareAssumption
    <3> QED BY <2>1, <3>1 DEF Control
  <2>3. CASE count = 1 /\ count' = 0 /\ pc' = "process" /\ out' = None
    <3>1. pc' = "process" /\ out' = None /\ data' # None /\ ~gate' /\ count' = 0
      BY <1>1, <2>3, FirmwareAssumption
    <3> QED BY <2>1, <3>1 DEF Control
  <2> QED BY <1>1, <2>1, <2>2, <2>3
<1>6. ASSUME NEW b \in Buffers PROVE refs'[b] + HeldByTask(b) = refs[b] + HeldByTask(b)'
  <2>1. refs[b] \in Nat /\ refs'[b] = refs[b] - One(b = out) /\ b # None
    BY <1>4, Before
  <2> QED BY <1>1, <2>1 DEF HeldByTask, One
<1> QED BY <1>1, <1>2, <1>5, <1>6, TaskStepKeeps

\* The references to the message that has been processed go.
LEMMA ReleaseKeeps == ASSUME IInv, Release PROVE IInv'
<1>1. /\ pc = "release" /\ data \in Buffers /\ out = None /\ count \in {0, 1} /\ ~gate
      /\ refs' = [refs EXCEPT ![data] = @ - 1] /\ refs \in [Buffers -> Nat]
      /\ UNCHANGED <<txBuffer, txQueue, txActive, uart, rxBuffer, mailbox, traffic, out, gate>>
      /\ \/ count = 0 /\ count' = 1 /\ UNCHANGED <<pc, data>>
         \/ count = 1 /\ count' = 0 /\ pc' = "drain" /\ data' = None
  BY FirmwareAssumption DEF Release, At, Goto, Decrement, UnchangedTx, UnchangedByTask, IInv, Control, Types
<1>2. ~txActive => txQueue = <<>> \/ gate'
  BY <1>1, NothingLostUnfolded DEF IInv
<1>3. refs[data] > 0
  <2>1. HeldByTask(data) \in Nat \ {0}
    BY <1>1 DEF HeldByTask
  <2>2. refs[data] >= HeldByTask(data) /\ refs[data] \in Nat
    BY <1>1, HeldIsCounted
  <2> QED BY <2>1, <2>2
<1>4. refs' \in [Buffers -> Nat] /\ \A b \in Buffers : refs'[b] = refs[b] - One(b = data)
  BY <1>1, <1>3 DEF One
<1>5. Types' /\ Control'
  <2>1. Types'
    BY <1>1, <1>4 DEF IInv, Types, Places, traffic
  <2>2. CASE count = 0 /\ count' = 1 /\ UNCHANGED <<pc, data>>
    <3>1. pc' = "release" /\ out' = None /\ data' # None /\ ~gate' /\ count' = 1
      BY <1>1, <2>2, FirmwareAssumption
    <3> QED BY <2>1, <3>1 DEF Control
  <2>3. CASE count = 1 /\ count' = 0 /\ pc' = "drain" /\ data' = None
    <3>1. pc' = "drain" /\ out' = None /\ data' = None /\ ~gate' /\ count' = 0
      BY <1>1, <2>3, FirmwareAssumption
    <3> QED BY <2>1, <3>1 DEF Control
  <2> QED BY <1>1, <2>1, <2>2, <2>3
<1>6. ASSUME NEW b \in Buffers PROVE refs'[b] + HeldByTask(b) = refs[b] + HeldByTask(b)'
  <2>1. refs[b] \in Nat /\ refs'[b] = refs[b] - One(b = data) /\ b # None
    BY <1>4, Before
  <2> QED BY <1>1, <2>1 DEF HeldByTask, One
<1> QED BY <1>1, <1>2, <1>5, <1>6, TaskStepKeeps

-----------------------------------------------------------------------------
(* The transmit queue.                                                     *)

\* A step of the transmit side.
LEMMA TxStep ==
    ASSUME IInv, Types', Control', NothingLost', UNCHANGED <<mailbox, rxBuffer, data, out>>,
           \A b \in Buffers : refs'[b] + InTx(b) + HeldByTask(b) = refs[b] + InTx(b)' + HeldByTask(b)',
           \A b \in Buffers : InRx(b) = 1 => InTx(b)' = 0
    PROVE  IInv'
<1>1. Separate'
  <2> SUFFICES ASSUME NEW b \in Buffers PROVE InRx(b)' <= 1 /\ (InRx(b)' = 1 => InTx(b)' = 0 /\ b # out')
    BY DEF Separate
  <2>1. InRx(b)' = InRx(b) /\ out' = out
    BY DEF InRx
  <2>2. InRx(b) <= 1 /\ (InRx(b) = 1 => b # out)
    BY Before
  <2>3. InRx(b) = 1 => InTx(b)' = 0
    OBVIOUS
  <2> QED BY <2>1, <2>2, <2>3
<1>2. CountsAreExact'
  <2> SUFFICES ASSUME NEW b \in Buffers
               PROVE  refs'[b] = InTx(b)' + Occurrences(mailbox', b) + One(b = rxBuffer') + HeldByTask(b)'
    BY UnfoldedNext
  <2> DEFINE x == refs'[b]
             y == refs[b]
             i == InTx(b)
             j == InTx(b)'
             o == Occurrences(mailbox, b)
             n == One(b = rxBuffer)
             g == HeldByTask(b)
             h == HeldByTask(b)'
  <2>1. y \in Nat /\ i \in Nat /\ o \in Nat /\ g \in Nat /\ y = i + o + n + g
    BY Before
  <2>2. x \in Nat /\ x + i + g = y + j + h
    BY DEF Types
  <2>3. n \in Nat /\ h \in Nat
    BY DEF One, HeldByTask
  <2>4. j \in Nat
    <3>1. Occurrences(txQueue', b) \in Nat
      BY OccurrencesType DEF Types
    <3> QED BY <3>1 DEF InTx, One
  <2>5. o = Occurrences(mailbox', b) /\ n = One(b = rxBuffer')
    OBVIOUS
  <2> HIDE DEF x, y, i, j, o, n, g, h
  <2>6. x = j + o + n + h
    BY <2>1, <2>2, <2>3, <2>4
  <2>7. x = j + Occurrences(mailbox', b) + One(b = rxBuffer') + h
    BY <2>5, <2>6
  <2> QED BY <2>7 DEF x, j, h
<1> QED BY <1>1, <1>2 DEF IInv

\* The task puts its message into the queue, with the gate closed.
LEMMA EnqueueKeeps == ASSUME IInv, Enqueue PROVE IInv'
<1>1. /\ pc = "enqueue" /\ pc' = "test" /\ ~gate /\ gate' = TRUE /\ data \in Buffers /\ out \in Buffers
      /\ count = 0 /\ InTx(out) = 0 /\ Fill(out) /\ txQueue' = Append(txQueue, out)
      /\ refs' = [refs EXCEPT ![out] = @ + 1] /\ refs \in [Buffers -> Nat]
      /\ UNCHANGED <<txBuffer, txActive, uart, mailbox, rxBuffer, data, count, out, transmitted>>
  BY DEF Enqueue, At, Goto, UnchangedByTask, IInv, Control, Types
<1>2. uart = txBuffer /\ (txActive <=> uart # None)
  BY NothingLostUnfolded DEF IInv
<1>3. refs' \in [Buffers -> Nat] /\ \A b \in Buffers : refs'[b] = refs[b] + One(b = out)
  BY <1>1 DEF One
<1>4. /\ txQueue' \in Seq(Buffers)
      /\ \A b : Occurrences(txQueue', b) = Occurrences(txQueue, b) + One(b = out)
  BY <1>1, OccurrencesAppend DEF IInv, Types
<1>5. \A b \in Buffers : InTx(b)' = InTx(b) + One(b = out)
  <2> TAKE b \in Buffers
  <2>1. Occurrences(txQueue, b) \in Nat
    BY OccurrencesType DEF IInv, Types
  <2>2. Occurrences(txQueue', b) = Occurrences(txQueue, b) + One(b = out) /\ txBuffer' = txBuffer
    BY <1>1, <1>4
  <2> QED BY <2>1, <2>2 DEF InTx, One
<1>6. Waiting' = Append(Waiting, out)
  <2>1. CASE uart = None
    BY <1>1, <1>4, <2>1 DEF Waiting, IInv, Types
  <2>2. CASE uart # None
    <3>1. Waiting = <<uart>> \o txQueue /\ Waiting' = <<uart>> \o Append(txQueue, out)
      BY <1>1, <2>2 DEF Waiting
    <3>2. uart \in Buffers /\ txQueue \in Seq(Buffers)
      BY <1>2, <2>2 DEF IInv, Types
    <3> QED BY <1>1, <3>1, <3>2, AppendBehind
  <2> QED BY <2>1, <2>2
<1>7. /\ written' \in Nat /\ text' \in [Buffers -> Nat]
      /\ written' = transmitted' + Len(Waiting')
      /\ \A i \in DOMAIN Waiting' : text'[Waiting'[i]] = transmitted' + i
  BY <1>1, <1>6, WaitingGrows DEF IInv
<1>8. NothingLost'
  BY <1>1, <1>2, <1>7, UnfoldedNext
<1>9. Types' /\ Control'
  BY <1>1, <1>3, <1>4, <1>7 DEF IInv, Types, Control, Places
<1>10. ASSUME NEW b \in Buffers
       PROVE  /\ refs'[b] + InTx(b) + HeldByTask(b) = refs[b] + InTx(b)' + HeldByTask(b)'
              /\ InRx(b) = 1 => InTx(b)' = 0
  <2>1. /\ b # None /\ refs[b] \in Nat /\ InTx(b) \in Nat
        /\ InRx(b) = 1 => InTx(b) = 0 /\ b # out
    BY Before
  <2>2. refs'[b] = refs[b] + One(b = out) /\ InTx(b)' = InTx(b) + One(b = out)
    BY <1>3, <1>5
  <2>3. HeldByTask(b) \in Nat /\ HeldByTask(b)' = HeldByTask(b)
    BY <1>1 DEF HeldByTask
  <2> QED BY <2>1, <2>2, <2>3 DEF One
<1> QED BY <1>1, <1>8, <1>9, <1>10, TxStep

\* The task starts the transmission that nobody else has started.
LEMMA StartTransmissionKeeps == ASSUME IInv, StartTransmission PROVE IInv'
<1>1. /\ pc = "start" /\ pc' = "leave" /\ gate /\ data \in Buffers /\ out \in Buffers /\ ~txActive
      /\ count = 0 /\ StartNext(txQueue, refs) /\ refs \in [Buffers -> Nat] /\ txQueue \in Seq(Buffers)
      /\ UNCHANGED <<mailbox, rxBuffer, data, count, out, gate, traffic>>
  BY DEF StartTransmission, At, Goto, UnchangedByTask, IInv, Control, Types
<1>2. txBuffer = None /\ uart = None
  BY <1>1, NothingLostUnfolded DEF IInv
<1>3. /\ txQueue' \in Seq(Buffers) /\ txBuffer' \in Buffers \cup {None} /\ txActive' \in BOOLEAN
      /\ uart' = txBuffer' /\ (txActive' <=> uart' # None) /\ (~txActive' => txQueue' = <<>>)
      /\ Waiting' = txQueue /\ refs' \in [Buffers -> Int]
      /\ \A b \in Buffers : refs'[b] = refs[b] - One(b = txBuffer)
      /\ \A b \in Buffers : InTx(b)' = Occurrences(txQueue, b)
  BY <1>1, StartNextFacts DEF IInv
<1>4. ASSUME NEW b \in Buffers PROVE refs'[b] = refs[b] /\ refs[b] \in Nat /\ InTx(b)' = InTx(b)
  <2>1. b # None /\ refs[b] \in Nat /\ Occurrences(txQueue, b) \in Nat
    BY <1>1, Before, OccurrencesType
  <2>2. refs'[b] = refs[b] - One(b = txBuffer) /\ InTx(b)' = Occurrences(txQueue, b)
    BY <1>3
  <2> QED BY <1>2, <2>1, <2>2 DEF InTx, One
<1>5. Waiting' = Waiting
  BY <1>1, <1>2, <1>3 DEF Waiting
<1>6. NothingLost'
  <2>1. written = transmitted + Len(Waiting) /\ \A i \in DOMAIN Waiting : text[Waiting[i]] = transmitted + i
    BY NothingLostUnfolded DEF IInv
  <2> QED BY <1>1, <1>3, <1>5, <2>1, UnfoldedNext DEF traffic
<1>7. refs' \in [Buffers -> Nat]
  BY <1>3, <1>4
<1>8. Types' /\ Control'
  BY <1>1, <1>3, <1>7 DEF IInv, Types, Control, Places, traffic
<1>9. ASSUME NEW b \in Buffers
      PROVE  /\ refs'[b] + InTx(b) + HeldByTask(b) = refs[b] + InTx(b)' + HeldByTask(b)'
             /\ InRx(b) = 1 => InTx(b)' = 0
  <2>1. InRx(b) = 1 => InTx(b) = 0
    BY Before
  <2>2. refs'[b] = refs[b] /\ InTx(b)' = InTx(b)
    BY <1>4
  <2>3. HeldByTask(b)' = HeldByTask(b)
    BY <1>1 DEF HeldByTask
  <2> QED BY <2>1, <2>2, <2>3
<1> QED BY <1>1, <1>6, <1>8, <1>9, TxStep

\* The first message that waits has been transmitted.
LEMMA TransmittedKeeps == ASSUME IInv, OnUartBytesWritten PROVE IInv'
<1>1. /\ ~gate /\ uart # None /\ transmitted' = transmitted + 1 /\ StartNext(txQueue, refs)
      /\ refs \in [Buffers -> Nat] /\ txQueue \in Seq(Buffers)
      /\ UNCHANGED <<mailbox, rxBuffer, task, text, written>>
  BY DEF OnUartBytesWritten, SwiRuns, IInv, Types
<1>2. uart = txBuffer /\ txBuffer \in Buffers
  BY <1>1, NothingLostUnfolded DEF IInv, Types
<1>3. /\ txQueue' \in Seq(Buffers) /\ txBuffer' \in Buffers \cup {None} /\ txActive' \in BOOLEAN
      /\ uart' = txBuffer' /\ (txActive' <=> uart' # None) /\ (~txActive' => txQueue' = <<>>)
      /\ Waiting' = txQueue /\ refs' \in [Buffers -> Int]
      /\ \A b \in Buffers : refs'[b] = refs[b] - One(b = txBuffer)
      /\ \A b \in Buffers : InTx(b)' = Occurrences(txQueue, b)
  BY <1>1, StartNextFacts DEF IInv
<1>4. ASSUME NEW b \in Buffers
      PROVE  /\ refs'[b] \in Nat /\ refs'[b] = refs[b] - One(b = txBuffer)
             /\ InTx(b) = InTx(b)' + One(b = txBuffer) /\ InTx(b)' \in Nat
  <2>1. refs[b] \in Nat /\ refs[b] >= One(b = txBuffer) /\ Occurrences(txQueue, b) \in Nat
    BY <1>1, Before, HeldIsCounted, OccurrencesType
  <2>2. refs'[b] = refs[b] - One(b = txBuffer) /\ InTx(b)' = Occurrences(txQueue, b)
    BY <1>3
  <2>3. InTx(b) = Occurrences(txQueue, b) + One(b = txBuffer)
    BY DEF InTx
  <2> QED BY <2>1, <2>2, <2>3 DEF One
<1>5. NothingLost'
  <2>1. written = transmitted + Len(Waiting) /\ \A i \in DOMAIN Waiting : text[Waiting[i]] = transmitted + i
    BY NothingLostUnfolded DEF IInv
  <2>2. Waiting = <<uart>> \o txQueue /\ <<uart>> \in Seq(Buffers)
    BY <1>1, <1>2 DEF Waiting
  <2>3. Len(txQueue) \in Nat /\ DOMAIN txQueue = 1..Len(txQueue) /\ transmitted \in Nat
    BY <1>1 DEF IInv, Types
  <2>4. /\ Len(Waiting) = Len(txQueue) + 1 /\ DOMAIN Waiting = 1..Len(txQueue) + 1
        /\ \A i \in 1..Len(txQueue) : Waiting[i + 1] = txQueue[i]
    BY <1>1, <2>2, <2>3
  <2>5. written' = transmitted' + Len(txQueue)
    BY <1>1, <2>1, <2>3, <2>4
  <2>6. \A i \in DOMAIN txQueue : text'[txQueue[i]] = transmitted' + i
    <3> TAKE i \in DOMAIN txQueue
    <3>1. i \in 1..Len(txQueue) /\ i + 1 \in DOMAIN Waiting
      BY <2>3, <2>4
    <3>2. text[Waiting[i + 1]] = transmitted + (i + 1)
      BY <2>1, <3>1
    <3>3. text[txQueue[i]] = transmitted + (i + 1)
      BY <2>4, <3>1, <3>2
    <3> QED BY <1>1, <2>3, <3>1, <3>3
  <2> QED BY <1>1, <1>3, <2>5, <2>6, UnfoldedNext
<1>6. Types'
  <2>1. refs' \in [Buffers -> Nat]
    BY <1>3, <1>4
  <2>2. transmitted' \in Nat
    BY <1>1 DEF IInv, Types
  <2>3. UNCHANGED <<mailbox, rxBuffer, text, written, pc, data, count, out, gate>>
    BY <1>1 DEF task
  <2>4. txQueue' \in Seq(Buffers) /\ txBuffer' \in Buffers \cup {None} /\ txActive' \in BOOLEAN
    BY <1>3
  <2> QED BY <2>1, <2>2, <2>3, <2>4 DEF IInv, Types
<1>7. Control'
  <2>1. pc = "store" => refs'[data] = refs[data]
    <3> SUFFICES ASSUME pc = "store" PROVE refs'[data] = refs[data]
      OBVIOUS
    <3>1. data \in Buffers
      BY DEF IInv, Control, Types
    <3>2. InRx(data) = 1
      <4>1. InRx(data) <= 1 /\ Occurrences(mailbox, data) \in Nat
        BY <3>1, Before
      <4> QED BY <4>1 DEF InRx, One
    <3>3. InTx(data) = 0 /\ refs[data] \in Nat
      BY <3>1, <3>2, Before
    <3>4. ASSUME NEW b \in Buffers, b = data PROVE refs'[b] = refs[b]
      <4>1. InTx(b) = 0 /\ refs[b] \in Nat
        BY <3>3, <3>4
      <4> QED BY <1>4, <4>1 DEF One
    <3> QED BY <3>1, <3>4
  <2>2. pc = "enqueue" => InTx(out)' = 0
    <3> SUFFICES ASSUME pc = "enqueue" PROVE InTx(out)' = 0
      OBVIOUS
    <3>1. out \in Buffers /\ out' = out /\ InTx(out) = 0
      BY <1>1 DEF IInv, Control, Types, task
    <3>2. ASSUME NEW b \in Buffers, b = out PROVE InTx(b)' = 0
      <4>1. InTx(b) = 0
        BY <3>1, <3>2
      <4> QED BY <1>4, <4>1 DEF One
    <3> QED BY <3>1, <3>2 DEF InTx
  <2> QED BY <1>1, <2>1, <2>2 DEF IInv, Control, task
<1>8. ASSUME NEW b \in Buffers
      PROVE  /\ refs'[b] + InTx(b) + HeldByTask(b) = refs[b] + InTx(b)' + HeldByTask(b)'
             /\ InRx(b) = 1 => InTx(b)' = 0
  <2>1. /\ refs[b] \in Nat /\ InTx(b) \in Nat /\ HeldByTask(b) \in Nat
        /\ InRx(b) = 1 => InTx(b) = 0
    BY Before
  <2>2. HeldByTask(b)' = HeldByTask(b)
    BY <1>1 DEF HeldByTask, task
  <2> QED BY <1>4, <2>1, <2>2 DEF One
<1> QED BY <1>1, <1>5, <1>6, <1>7, <1>8, TxStep DEF task

-----------------------------------------------------------------------------
(* The theorems.                                                           *)

\* The firmware after a reset.
LEMMA Started ==
    /\ Init => IInv
    /\ WatchdogExpires => IInv'
<1>1. ASSUME Init PROVE IInv
  <2>1. Types /\ Control
    <3>1. refs = [b \in Buffers |-> 0] /\ text = [b \in Buffers |-> 0]
      BY <1>1 DEF Init, Freed
    <3>2. refs \in [Buffers -> Nat] /\ text \in [Buffers -> Nat]
      BY <3>1
    <3>3. /\ rxBuffer = None /\ txBuffer = None /\ data = None /\ out = None
          /\ txQueue = <<>> /\ mailbox = <<>> /\ txActive = FALSE /\ gate = FALSE
          /\ pc = "pend" /\ count = 0 /\ written = 0 /\ transmitted = 0
      BY <1>1 DEF Init
    <3>4. <<>> \in Seq(Buffers)
      OBVIOUS
    <3>5. Types
      BY <3>2, <3>3, <3>4 DEF Types, Places
    <3>6. Control
      BY <3>3 DEF Control
    <3> QED BY <3>5, <3>6
  <2>2. ASSUME NEW b \in Buffers
        PROVE  /\ InRx(b) = 0 /\ HeldByTask(b) = 0 /\ InTx(b) = 0 /\ One(b = rxBuffer) = 0
               /\ Occurrences(mailbox, b) = 0 /\ refs[b] = 0
    BY <1>1, OccurrencesOfNone, FirmwareAssumption DEF Init, Freed, InRx, InTx, HeldByTask, One
  <2>3. Separate
    BY <2>2 DEF Separate
  <2>4. CountsAreExact
    <3>1. ASSUME NEW b \in Buffers
          PROVE  refs[b] = InTx(b) + Occurrences(mailbox, b) + One(b = rxBuffer) + HeldByTask(b)
      BY <2>2
    <3> QED BY <2>1, <3>1, CountsUnfolded
  <2>5. NothingLost
    <3>1. Waiting = <<>>
      BY <1>1 DEF Init, Waiting
    <3> QED BY <1>1, <3>1, NothingLostUnfolded DEF Init
  <2> QED BY <2>1, <2>3, <2>4, <2>5 DEF IInv
<1>2. ASSUME WatchdogExpires PROVE IInv'
  <2>1. Types' /\ Control'
    <3>1. refs' = [b \in Buffers |-> 0] /\ text' = [b \in Buffers |-> 0]
      BY <1>2 DEF WatchdogExpires, Freed
    <3>2. refs' \in [Buffers -> Nat] /\ text' \in [Buffers -> Nat]
      BY <3>1
    <3>3. /\ rxBuffer' = None /\ txBuffer' = None /\ data' = None /\ out' = None
          /\ txQueue' = <<>> /\ mailbox' = <<>> /\ txActive' = FALSE /\ gate' = FALSE
          /\ pc' = "pend" /\ count' = 0 /\ written' = 0 /\ transmitted' = 0
      BY <1>2 DEF WatchdogExpires
    <3>4. <<>> \in Seq(Buffers)
      OBVIOUS
    <3>5. Types'
      BY <3>2, <3>3, <3>4 DEF Types, Places
    <3>6. Control'
      BY <3>3 DEF Control
    <3> QED BY <3>5, <3>6
  <2>2. ASSUME NEW b \in Buffers
        PROVE  /\ InRx(b)' = 0 /\ HeldByTask(b)' = 0 /\ InTx(b)' = 0 /\ One(b = rxBuffer') = 0
               /\ Occurrences(mailbox', b) = 0 /\ refs'[b] = 0
    BY <1>2, OccurrencesOfNone, FirmwareAssumption DEF WatchdogExpires, Freed, InRx, InTx, HeldByTask, One
  <2>3. Separate'
    BY <2>2 DEF Separate
  <2>4. CountsAreExact'
    <3>1. ASSUME NEW b \in Buffers
          PROVE  refs'[b] = InTx(b)' + Occurrences(mailbox', b) + One(b = rxBuffer') + HeldByTask(b)'
      BY <2>2
    <3> QED BY <2>1, <3>1, UnfoldedNext
  <2>5. NothingLost'
    <3>1. Waiting' = <<>>
      BY <1>2 DEF WatchdogExpires, Waiting
    <3> QED BY <1>2, <3>1, UnfoldedNext DEF WatchdogExpires
  <2> QED BY <2>1, <2>3, <2>4, <2>5 DEF IInv
<1> QED BY <1>1, <1>2

\* The inductive invariant.
THEOREM FirmwareInvariance == Spec => []IInv
<1>1. IInv /\ [Next]_vars => IInv'
  <2> SUFFICES ASSUME IInv, [Next]_vars PROVE IInv'
    OBVIOUS
  <2>1. CASE EventPend \/ LoadCount \/ TestActive \/ LeaveGate
             \/ WatchdogClockCallback \/ LateInSwi \/ UNCHANGED vars
    BY <2>1, NoReferenceKeeps
  <2>2. CASE MailboxPend
    BY <2>2, MailboxPendKeeps
  <2>3. CASE StoreCount
    BY <2>3, StoreCountKeeps
  <2>4. CASE ProcessMessage
    BY <2>4, ProcessMessageKeeps
  <2>5. CASE Enqueue
    BY <2>5, EnqueueKeeps
  <2>6. CASE StartTransmission
    BY <2>6, StartTransmissionKeeps
  <2>7. CASE DropOut
    BY <2>7, DropOutKeeps
  <2>8. CASE Release
    BY <2>8, ReleaseKeeps
  <2>9. CASE ReceiveHeader
    BY <2>9, ReceiveHeaderKeeps
  <2>10. CASE AnswerReset \/ OnPinEvent
    BY <2>10, WriteKeeps DEF AnswerReset, OnPinEvent, SwiRuns
  <2>11. CASE ReceivePayload
    BY <2>11, ReceivePayloadKeeps
  <2>12. CASE OnUartBytesWritten
    BY <2>12, TransmittedKeeps
  <2>13. CASE WatchdogExpires
    BY <2>13, Started
  <2> QED BY <2>1, <2>2, <2>3, <2>4, <2>5, <2>6, <2>7, <2>8, <2>9, <2>10, <2>11, <2>12, <2>13
          DEF Next, TaskStep, Swi
<1> QED BY <1>1, Started, PTL DEF Spec

\* Reference counts are the numbers of pointers, whatever is interrupted where.
THEOREM ReferencesAreCounted == Spec => []CountsAreExact
<1>1. IInv => CountsAreExact
  BY DEF IInv
<1> QED BY <1>1, FirmwareInvariance, PTL

\* What has been written is transmitted in order, and never waits for a transmission
\* that nobody has started.
THEOREM QueueIsServed == Spec => []NothingLost
<1>1. IInv => NothingLost
  BY DEF IInv
<1> QED BY <1>1, FirmwareInvariance, PTL

\* As long as the task does not hang, each period since the watchdog was cleared has
\* its kick, either lost or about to be taken.
Kicked ==
    /\ late \in Nat /\ missed \in Nat /\ hung \in {"no", "task", "swi"}
    /\ hung = "no" => late = missed + One("KickWatchdog" \in events)
    /\ cause # "unknown"

\* The chip is reset when the task hangs or when two kicks in a row were lost.
THEOREM ResetsHaveReasons == Spec => []ResetHasReason
<1>1. Init => Kicked
  BY DEF Init, Kicked, One
<1>2. Kicked /\ [Next]_vars => Kicked'
  <2> SUFFICES ASSUME Kicked, [Next]_vars PROVE Kicked'
    OBVIOUS
  <2>1. CASE EventPend
    BY <2>1 DEF EventPend, At, Kicks, Kicked, One
  <2>2. CASE MailboxPend \/ LoadCount \/ StoreCount \/ Enqueue \/ TestActive \/ StartTransmission
             \/ LeaveGate \/ DropOut \/ Release
    BY <2>2 DEF MailboxPend, LoadCount, StoreCount, Enqueue, TestActive, StartTransmission, LeaveGate,
                DropOut, Release, UnchangedByTask, watchdog, Kicked
  <2>3. CASE ProcessMessage
    BY <2>3 DEF ProcessMessage, At, watchdog, Kicked
  <2>4. CASE ReceiveHeader \/ AnswerReset \/ OnUartBytesWritten \/ OnPinEvent
    BY <2>4 DEF ReceiveHeader, AnswerReset, OnUartBytesWritten, OnPinEvent, watchdog, Kicked
  <2>5. CASE ReceivePayload
    <3>1. UNCHANGED watchdog /\ hung' \in {hung, "swi"}
          /\ ("KickWatchdog" \in events' <=> "KickWatchdog" \in events)
      BY <2>5 DEF ReceivePayload
    <3> QED BY <3>1 DEF watchdog, Kicked, One
  <2>6. CASE WatchdogClockCallback
    <3>1. /\ hung' = hung /\ missed' = missed /\ cause' = cause /\ late' = late + 1
          /\ hung = "no" => "KickWatchdog" \notin events
          /\ "KickWatchdog" \in events'
      BY <2>6 DEF WatchdogClockCallback, Later
    <3> QED BY <3>1 DEF Kicked, One
  <2>7. CASE WatchdogExpires
    <3>1. /\ late' = 0 /\ missed' = 0 /\ hung' = "no" /\ events' = {}
      BY <2>7 DEF WatchdogExpires
    <3>2. cause' # "unknown"
      <4>1. CASE hung # "no"
        BY <2>7, <4>1 DEF WatchdogExpires
      <4>2. CASE hung = "no"
        <5>1. late = 2 /\ events = {}
          BY <2>7, <4>2 DEF WatchdogExpires, Expiry
        <5>2. missed >= 2
          BY <4>2, <5>1 DEF Kicked, One
        <5> QED BY <2>7, <4>2, <5>2 DEF WatchdogExpires
      <4> QED BY <4>1, <4>2
    <3> QED BY <3>1, <3>2 DEF Kicked, One
  <2>8. CASE LateInSwi
    BY <2>8 DEF LateInSwi, Kicked
  <2>9. CASE UNCHANGED vars
    BY <2>9 DEF vars, watchdog, Kicked
  <2> QED BY <2>1, <2>2, <2>3, <2>4, <2>5, <2>6, <2>7, <2>8, <2>9 DEF Next, TaskStep, Swi
<1>3. Kicked => ResetHasReason
  BY DEF Kicked, ResetHasReason
<1> QED BY <1>1, <1>2, <1>3, PTL DEF Spec
=============================================================================
