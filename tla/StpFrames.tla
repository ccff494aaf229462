------------------------------ MODULE StpFrames ------------------------------
(***************************************************************************)
(* The frames of the serial line: StpSocket of qst on one side, the        *)
(* receiver of SerialInterface in the firmware on the other.               *)
(*                                                                         *)
(* A frame has four delimiter bytes, length, type, checksum and payload.   *)
(* Frames go byte by byte through a line that may lose a byte or add one.  *)
(* Both receivers search for delimiters once, at the start, and expect one *)
(* frame right behind the other from then on.                              *)
(*                                                                         *)
(* m_rxBuffer is modelled with its storage: onUartReadyRead() takes the    *)
(* pointer `header` to it before it appends.  The pointer stays good while *)
(* the bytes fit in the reserved storage, dangles when they do not, and    *)
(* points to the empty string of Qt after clear().  What is read through a *)
(* pointer that dangles is a choice.  LEDs are left out.                   *)
(***************************************************************************)
EXTENDS Integers, Sequences, SequencesExt

CONSTANTS
    Payloads,    \* what the layer above sends
    Budgets,     \* numbers of messages to either side, of damages, of connectToTarget()
    Garbage      \* lengths that storage shows in place of a header when it has been freed

MaxPayload == 32

\* A message has a header of the layer above, at least, and fits in the buffer of
\* the target.
ASSUME FramesAssumption ==
    /\ \A p \in Payloads : p \in Seq(0..255) /\ Len(p) \in 1..MaxPayload
    /\ Budgets \subseteq [toHost : Nat, toTarget : Nat, damages : Nat, opened : Nat]
    /\ Garbage \subseteq Nat

VARIABLES
    port,      \* of StpSocket: closed, connecting or open
    attempts,  \* of connectToTarget() so far
    rxState, rxBuffer, needed, storage,     \* m_rx... of StpSocket
    queue,     \* m_rxMessageQueue
    framed,    \* history: the payloads of the frames that the socket has read
    misread,   \* history: it has taken a wrong length for one of them
    rx,        \* the receiver of the target
    toHost, toTarget,
    sentToHost, sentToTarget,   \* history: messages of the layers above
    gotHost, gotTarget,         \* history: messages read, and given to these layers if connected
    inStep,    \* history: the host has received every byte of every frame so far
    safeFrom,  \* history: messages to the target from here on are not damaged; 0 for all
    left       \* what is left of the budget

socket == <<port, attempts, rxState, rxBuffer, needed, storage, queue, framed, misread>>
histories == <<sentToHost, sentToTarget, gotHost, gotTarget, inStep, safeFrom>>
vars == <<socket, rx, toHost, toTarget, histories, left>>

D == 125                  \* DelimiterByte
DelimiterLength == 4
HeaderLength == 8
ResetConnection == 1
RocMessage == 2
Checksum == 71
Header(type, length) == <<D, D, D, D, length % 256, length \div 256, type, Checksum>>
Frame(type, payload) == Header(type, Len(payload)) \o payload

IsDelimited(header) == \A i \in 1..DelimiterLength : header[i] = D
PayloadLengthSwapped(header) == 256 * header[5] + header[6]   \* mutant: order of bytes
PayloadLength(header) == header[5] + 256 * header[6]

Searching == [state |-> "RxDelimiter", delimiters |-> 0, header |-> <<>>, needed |-> 1]

Init ==
    /\ port = "closed" /\ attempts = 0
    /\ rxState = "RxDelimiter" /\ rxBuffer = <<>> /\ needed = 1 /\ storage = "large" /\ queue = <<>>
    /\ framed = <<>> /\ misread = FALSE
    /\ rx = Searching /\ toHost = <<>> /\ toTarget = <<>>
    /\ sentToHost = <<>> /\ sentToTarget = <<>> /\ gotHost = <<>> /\ gotTarget = <<>>
    /\ inStep = TRUE /\ safeFrom = 0 /\ left \in Budgets
----------------------------------------------------------------------------
(* Both sides send.                                                        *)

Spend(what) == left[what] > 0 /\ left' = [left EXCEPT ![what] = @ - 1]

\* sendMessage()
HostSend(type, payload) == toTarget' = toTarget \o Frame(type, payload)

HostSendsMessage(payload) ==
    /\ port = "open" /\ Spend("toTarget")
    /\ HostSend(RocMessage, payload) /\ sentToTarget' = Append(sentToTarget, payload)
    /\ UNCHANGED <<socket, rx, toHost, sentToHost, gotHost, gotTarget, inStep, safeFrom>>

\* SerialInterface::write(): nobody listens while the port is closed.
TargetSends(payload) ==
    /\ rx.state # "stopped" /\ port # "closed" /\ Spend("toHost")
    /\ toHost' = toHost \o Frame(RocMessage, payload) /\ sentToHost' = Append(sentToHost, payload)
    /\ UNCHANGED <<socket, rx, toTarget, sentToTarget, gotHost, gotTarget, inStep, safeFrom>>

Dropped(line, i) == RemoveAt(line, i)
Added(line, i) == InsertAt(line, i, 0)

DamageToHost ==
    /\ Spend("damages")
    /\ \E i \in DOMAIN toHost : toHost' \in {Dropped(toHost, i), Added(toHost, i)}
    /\ inStep' = FALSE
    /\ UNCHANGED <<socket, rx, toTarget, sentToHost, sentToTarget, gotHost, gotTarget, safeFrom>>

DamageToTarget ==
    /\ Spend("damages")
    /\ \E i \in DOMAIN toTarget : toTarget' \in {Dropped(toTarget, i), Added(toTarget, i)}
    /\ safeFrom' = Len(sentToTarget) + 1
    /\ UNCHANGED <<socket, rx, toHost, sentToHost, sentToTarget, gotHost, gotTarget, inStep>>
----------------------------------------------------------------------------
(* StpSocket::onUartReadyRead(), one round of its loop.                    *)

CanRead == port # "closed" /\ Len(toHost) >= needed
Bytes == SubSeq(toHost, 1, needed)
Consume == toHost' = SubSeq(toHost, needed + 1, Len(toHost))
UnchangedButRx == UNCHANGED <<port, attempts, rx, toTarget, sentToHost, sentToTarget,
                              gotTarget, inStep, safeFrom, left>>

\* What `header` shows of the last byte of the buffer: nothing of it after
\* clear(), and perhaps nothing of it when append() had to move the storage.
SeenAlways(b) == {b}               \* mutant: `header` shows the buffer at any time
Seen(b) == CASE storage = "none" -> {0}
             [] storage = "header" /\ Len(rxBuffer) >= HeaderLength -> {0, b}
             [] OTHER -> {b}

HostSearches ==
    /\ CanRead /\ rxState = "RxDelimiter" /\ Consume
    /\ \E b \in Seen(toHost[1]) :
        IF b = D
        THEN /\ rxBuffer' = Append(rxBuffer, toHost[1])
             /\ storage' = IF storage = "header" /\ Len(rxBuffer) >= HeaderLength
                           THEN "large" ELSE storage
        ELSE rxBuffer' = <<>> /\ storage' = "none"
    /\ IF Len(rxBuffer') = DelimiterLength
       THEN rxState' = "RxHeader" /\ needed' = HeaderLength - DelimiterLength
       ELSE rxState' = "RxDelimiter" /\ needed' = 1
    /\ UNCHANGED <<queue, gotHost, framed, misread>> /\ UnchangedButRx

HostReadsHeader ==
    /\ CanRead /\ rxState = "RxHeader" /\ Consume
    /\ rxBuffer' = rxBuffer \o Bytes
    /\ IF IsDelimited(rxBuffer')
       THEN rxState' = "RxPayload" /\ needed' = PayloadLength(rxBuffer')
       ELSE rxState' = "RxDelimiter" /\ needed' = 1
    /\ UNCHANGED <<storage, queue, gotHost, framed, misread>> /\ UnchangedButRx

\* onReadyRead() of the controller takes all messages, and skips empty ones.
Delivered(messages) ==
    LET first[n \in 0..Len(messages)] ==
            IF n = 0 THEN <<>>
            ELSE IF messages[n] = <<>> THEN first[n - 1] ELSE Append(first[n - 1], messages[n])
    IN  first[Len(messages)]

\* What reserve() has left room for: all that is received at first, but only a
\* header from the second message on.  A payload behind that makes append() move
\* the buffer, and the length is read through `header` after that.
Reserved == IF storage = "header" THEN HeaderLength ELSE 1024
Outgrown == Len(rxBuffer) + needed > Reserved
Lengths == {needed} \cup IF Outgrown THEN Garbage ELSE {}

\* As many bytes of the buffer; 0 stands for whatever is behind its end.
Copied(length) == [i \in 1..length |-> IF i <= needed THEN toHost[i] ELSE 0]

HostReadsPayload ==
    /\ CanRead /\ rxState = "RxPayload" /\ Consume
    /\ rxBuffer' = <<>> /\ storage' = "header" /\ rxState' = "RxHeader" /\ needed' = HeaderLength
    /\ framed' = Append(framed, Bytes)
    /\ \E length \in Lengths :
        /\ misread' = (misread \/ length # needed)
        /\ IF port = "open"
           THEN queue' = <<>> /\ gotHost' = gotHost \o Delivered(Append(queue, Copied(length)))
           ELSE queue' = Append(queue, Copied(length)) /\ UNCHANGED gotHost
    /\ UnchangedButRx
----------------------------------------------------------------------------
(* connectToTarget() and disconnectFromTarget().                           *)

UnchangedButPort == UNCHANGED <<rxState, rxBuffer, needed, storage, framed, misread, rx,
                                sentToHost, sentToTarget, gotTarget, safeFrom>>

HostOpens ==
    /\ port = "closed" /\ Spend("opened")
    /\ port' = "connecting" /\ attempts' = 1
    /\ HostSend(ResetConnection, <<>>)
    /\ UNCHANGED <<queue, toHost, gotHost, inStep>> /\ UnchangedButPort

\* Bytes that have not been read when the port is closed are lost.
Close ==
    /\ port' = "closed" /\ toHost' = <<>>
    /\ inStep' = (inStep /\ toHost = <<>> /\ (rxState = "RxHeader" => rxBuffer = <<>>)
                         /\ rxState # "RxPayload")

MaxAttemptsFour == 4               \* mutant: off by one
MaxAttempts == 3
NextAttempt ==
    \/ /\ attempts < MaxAttempts /\ attempts' = attempts + 1
       /\ HostSend(ResetConnection, <<>>) /\ UNCHANGED <<port, toHost, inStep>>
    \/ attempts = MaxAttempts /\ Close /\ UNCHANGED <<attempts, toTarget>>

AnyReply(message) == TRUE          \* mutant: whatever arrives is taken for the reply
IsReply(message) == message = <<>>
HostTakesReply ==
    /\ port = "connecting" /\ queue # <<>> /\ queue' = Tail(queue)
    /\ IF IsReply(Head(queue))
       THEN port' = "open" /\ UNCHANGED <<attempts, toHost, toTarget, inStep, gotHost>>
       ELSE NextAttempt /\ gotHost' = Append(gotHost, Head(queue))
    /\ UNCHANGED left /\ UnchangedButPort

TimerRunsOnce == attempts = 1      \* mutant: the timer is not started again
TimerRuns == attempts >= 1

HostTimesOut ==
    /\ port = "connecting" /\ queue = <<>> /\ TimerRuns /\ NextAttempt
    /\ UNCHANGED <<queue, gotHost, left>> /\ UnchangedButPort

HostCloses ==
    /\ port = "open" /\ Close
    /\ UNCHANGED <<queue, attempts, gotHost, toTarget, left>> /\ UnchangedButPort
----------------------------------------------------------------------------
(* onUartBytesReceived() of the target: the bytes asked for are there.     *)

TargetHas(state) == rx.state = state /\ Len(toTarget) >= rx.needed
Taken == SubSeq(toTarget, 1, rx.needed)
Take == toTarget' = SubSeq(toTarget, rx.needed + 1, Len(toTarget))
UnchangedButTarget == UNCHANGED <<socket, sentToHost, sentToTarget, gotHost, inStep, safeFrom, left>>

Expecting(state, header, n) == [state |-> state, delimiters |-> 0, header |-> header, needed |-> n]

\* The firmware has failed an assertion, or does not read any more: until its
\* reset nothing is received.
Stopped == Expecting("stopped", <<>>, 0)

TargetSearches ==
    /\ TargetHas("RxDelimiter") /\ Take
    /\ LET seen == IF toTarget[1] = D THEN rx.delimiters + 1 ELSE 0 IN
       rx' = IF seen = DelimiterLength
             THEN Expecting("RxHeader", <<D, D, D, D>>, HeaderLength - DelimiterLength)
             ELSE [Searching EXCEPT !.delimiters = seen]
    /\ UNCHANGED <<toHost, gotTarget>> /\ UnchangedButTarget

ResumesAtOnce == Expecting("RxHeader", <<>>, HeaderLength)   \* mutant: no new search
Resumes == Searching

\* A request to reset the connection is answered from the callback.
TargetReadsHeader ==
    LET header == rx.header \o Taken IN
    /\ TargetHas("RxHeader") /\ Take
    /\ \/ ~IsDelimited(header) /\ rx' = Resumes /\ UNCHANGED toHost
       \/ /\ IsDelimited(header) /\ header[7] = RocMessage
          /\ rx' = IF PayloadLength(header) <= MaxPayload
                   THEN Expecting("RxPayload", header, PayloadLength(header)) ELSE Stopped
          /\ UNCHANGED toHost
       \/ /\ IsDelimited(header) /\ header[7] = ResetConnection
          /\ rx' = Expecting("RxHeader", <<>>, HeaderLength)
          /\ toHost' = IF port = "closed" THEN toHost ELSE toHost \o Frame(ResetConnection, <<>>)
       \/ /\ IsDelimited(header) /\ header[7] \notin {RocMessage, ResetConnection}
          /\ rx' = Stopped /\ UNCHANGED toHost
    /\ UNCHANGED gotTarget /\ UnchangedButTarget

\* The assertion that the mailbox has a free slot is that of Firmware: there the
\* mailbox is read by a task, here the messages are handed over at once.
TargetReadsPayload ==
    /\ TargetHas("RxPayload") /\ Take
    /\ IF rx.header[8] # Checksum
       THEN rx' = Searching /\ UNCHANGED gotTarget
       ELSE rx' = Expecting("RxHeader", <<>>, HeaderLength) /\ gotTarget' = Append(gotTarget, Taken)
    /\ UNCHANGED toHost /\ UnchangedButTarget
----------------------------------------------------------------------------
HostReceives == HostSearches \/ HostReadsHeader \/ HostReadsPayload
TargetReceives == TargetSearches \/ TargetReadsHeader \/ TargetReadsPayload

Next ==
    \/ \E p \in Payloads : HostSendsMessage(p) \/ TargetSends(p)
    \/ DamageToHost \/ DamageToTarget
    \/ HostReceives \/ TargetReceives
    \/ HostOpens \/ HostTakesReply \/ HostTimesOut \/ HostCloses

\* Bytes arrive and are read; connectToTarget() has a timer.
Fairness == WF_vars(HostReceives) /\ WF_vars(TargetReceives)
            /\ WF_vars(HostTakesReply) /\ WF_vars(HostTimesOut)

Spec == Init /\ [][Next]_vars /\ Fairness
----------------------------------------------------------------------------
(* Properties.                                                             *)

\* The receivers are in the states of their code, and ask for a byte at least
\* unless a payload is empty.
TypeOK ==
    /\ port \in {"closed", "connecting", "open"} /\ attempts \in 0..3
    /\ rxState \in {"RxDelimiter", "RxHeader", "RxPayload"}
    /\ storage \in {"none", "header", "large"}
    /\ misread \in BOOLEAN /\ needed \in Nat /\ needed <= 65535 /\ (needed = 0 => rxState = "RxPayload")
    /\ rx.state \in {"RxDelimiter", "RxHeader", "RxPayload", "stopped"}
    /\ rx.delimiters \in 0..DelimiterLength - 1 /\ rx.needed \in 0..32

\* Undamaged frames give qst the messages of the target, complete and in order: the
\* search of the delimiter, partial reads, late replies to ResetConnection and
\* payloads that look like delimiters make no difference to the payloads that are
\* read, and nothing is lost between them and the layer above.  What that is given
\* is right as long as no length is misread, which the code does not rule out.
HostGetsMessages ==
    /\ inStep => /\ IsPrefix(Delivered(framed), sentToHost)
                 /\ port = "open" /\ Len(toHost) = 0 => Delivered(framed) = sentToHost
    /\ ~misread => gotHost \o Delivered(queue) = Delivered(framed)

\* The same for the target: nothing is lost, and nothing undamaged stops it.
TargetGetsMessages ==
    safeFrom = 0 => /\ IsPrefix(gotTarget, sentToTarget) /\ rx.state # "stopped"
                    /\ Len(toTarget) < rx.needed => gotTarget = sentToTarget

\* A damage costs the frames on the line to the target and no more than two behind
\* them, unless it has stopped the receiver.
TargetResynchronises ==
    safeFrom > 0 /\ Len(toTarget) < rx.needed /\ rx.state # "stopped"
        => IsSuffix(SubSeq(sentToTarget, safeFrom + 2, Len(sentToTarget)), gotTarget)

\* The search for delimiters has failed: `header` points to the empty string, or the
\* buffer is longer than the delimiters that are searched for will ever be.
Lost ==
    /\ rxState = "RxDelimiter"
    /\ (storage = "none" /\ rxBuffer = <<>>) \/ Len(rxBuffer) >= HeaderLength

\* What a receiver that is lost can still do: nothing but hand over what it has.
Deaf ==
    /\ Lost'
    /\ Len(gotHost') + Len(queue') <= Len(gotHost) + Len(queue)
    /\ queue = <<>> => queue' = <<>> /\ gotHost' = gotHost /\ (port' = "open" => port = "open")

\* A search that has failed once is never made up for: whatever the target sends and
\* however often the port is closed and opened, no message is read any more and no
\* connection succeeds.
DeafForGood == [][Lost => Deaf]_vars

\* connectToTarget() ends, and every byte that is waited for while a frame is on
\* the line is read in the end.
ConnectEnds == port = "connecting" ~> port # "connecting"
=============================================================================
