------------------------------- MODULE Firmware -------------------------------
(***************************************************************************)
(* The firmware of a probe below its objects: the main task, the callbacks *)
(* of the serial interface, the message buffers they share, and the        *)
(* watchdog.                                                               *)
(*                                                                         *)
(* The main task takes messages from a mailbox and answers.  Callbacks are *)
(* software interrupts (Swi): they run to their end, between any two steps *)
(* of the task unless it has entered the GateSwi, and they write messages  *)
(* too.  Buffers are deleted by whoever drops the last reference.          *)
(* Reference counts are decremented with interrupts locked, incremented    *)
(* without.  What the messages say is in RocLink, their bytes in StpFrames.*)
(***************************************************************************)
EXTENDS Integers, Sequences, FiniteSets

CONSTANTS
    Buffers,      \* memory of the heap for message buffers
    None,
    MailboxSize,  \* of rxMailbox
    Received,     \* bound: messages that the host sends
    Answers,      \* bound: messages that the main task writes
    Notified      \* bound: messages that callbacks write

ASSUME FirmwareAssumption ==
    /\ None \notin Buffers /\ MailboxSize \in Nat \ {0} /\ Received \in Nat
    /\ Answers \in Nat /\ Notified \in Nat

VARIABLES
    refs,       \* m_refCount of the buffers
    rxBuffer, txBuffer, txQueue, txActive,   \* of the serial interface
    uart,       \* the buffer that is being transmitted
    mailbox,    \* rxMailbox
    events,     \* flags of applicationEvent
    pc, data, count, out, gate,              \* of the main task: place, locals, GateSwi
    hung,       \* no, or the place of an endless loop: task, swi
    late,       \* periods of watchdogClock since Watchdog_clear()
    missed,     \* history: kicks taken from the event and not handled, in a row
    cause,      \* history: of the last reset
    text,       \* history: number of the message in a buffer
    written, transmitted,   \* history: how many messages
    left        \* what is left of the bounds

serial == <<rxBuffer, txBuffer, txQueue, txActive, uart>>
task == <<pc, data, count, out, gate>>
watchdog == <<late, missed, cause>>
traffic == <<text, written, transmitted>>
vars == <<refs, serial, mailbox, events, task, hung, watchdog, traffic, left>>

Freed == 0
Budget == [received |-> Received, answers |-> Answers, notified |-> Notified]
Spend(what) == left[what] > 0 /\ left' = [left EXCEPT ![what] = @ - 1]

Init ==
    /\ refs = [b \in Buffers |-> Freed] /\ rxBuffer = None /\ txBuffer = None /\ txQueue = <<>>
    /\ txActive = FALSE /\ uart = None /\ mailbox = <<>> /\ events = {}
    /\ pc = "pend" /\ data = None /\ count = 0 /\ out = None /\ gate = FALSE /\ hung = "no"
    /\ late = 0 /\ missed = 0 /\ cause = "none" /\ text = [b \in Buffers |-> 0]
    /\ written = 0 /\ transmitted = 0 /\ left = Budget
----------------------------------------------------------------------------
(* SharedPointer and the transmit queue.                                   *)

\* decrementRefCount(): the buffer is deleted with its last reference.
DecrementKeeping(r, b) == r        \* mutant: a reference is not dropped
Decrement(r, b) == IF b = None THEN r ELSE [r EXCEPT ![b] = @ - 1]

ActiveForever == TRUE              \* mutant: the end of the queue goes unnoticed
ActiveAtEnd == FALSE

\* onUartBytesWritten(): the next buffer of `queue` is transmitted, and txBuffer
\* takes over the reference of the queue.
StartNext(queue, r) ==
    /\ refs' = Decrement(r, txBuffer)
    /\ IF queue = <<>>
       THEN txBuffer' = None /\ txActive' = ActiveAtEnd /\ uart' = None /\ txQueue' = <<>>
       ELSE txBuffer' = Head(queue) /\ txActive' = TRUE /\ uart' = Head(queue) /\ txQueue' = Tail(queue)

\* new MessageBuffer
Fresh == CHOOSE b \in Buffers : refs[b] = Freed
HeapLeft == \E b \in Buffers : refs[b] = Freed

Fill(b) == text' = [text EXCEPT ![b] = written + 1] /\ written' = written + 1

\* write() in a callback: nothing comes in between, only the reference of the
\* queue is left.
WriteFromSwi ==
    /\ HeapLeft /\ Fill(Fresh)
    /\ LET r == [refs EXCEPT ![Fresh] = 1]
           queue == Append(txQueue, Fresh)
       IN IF txActive
          THEN refs' = r /\ txQueue' = queue /\ UNCHANGED <<txBuffer, txActive, uart>>
          ELSE StartNext(queue, r)
    /\ UNCHANGED <<rxBuffer, transmitted>>
----------------------------------------------------------------------------
(* Callbacks.                                                              *)

GateIgnored == hung # "swi"        \* mutant: callbacks do not wait for the gate
SwiRuns == hung # "swi" /\ ~gate

\* onUartBytesReceived(): a header, which asks for a payload or for an answer.
ReceiveHeader ==
    /\ SwiRuns /\ rxBuffer = None /\ Spend("received")
    /\ HeapLeft /\ refs' = [refs EXCEPT ![Fresh] = 1] /\ rxBuffer' = Fresh
    /\ UNCHANGED <<txBuffer, txQueue, txActive, uart, mailbox, events, task, hung, watchdog, traffic>>

AnswerReset ==
    /\ SwiRuns /\ rxBuffer = None /\ Spend("notified") /\ WriteFromSwi
    /\ UNCHANGED <<mailbox, events, task, hung, watchdog>>

\* A payload: with a wrong checksum, too much for the mailbox, or good.
ReceivePayload ==
    /\ SwiRuns /\ rxBuffer # None
    /\ \/ /\ refs' = Decrement(refs, rxBuffer) /\ rxBuffer' = None /\ UNCHANGED <<mailbox, events, hung>>
       \/ /\ Len(mailbox) = MailboxSize /\ hung' = "swi"
          /\ UNCHANGED <<refs, rxBuffer, mailbox, events>>
       \/ /\ Len(mailbox) < MailboxSize
          /\ refs' = Decrement([refs EXCEPT ![rxBuffer] = @ + 1], rxBuffer)
          /\ mailbox' = Append(mailbox, rxBuffer) /\ rxBuffer' = None
          /\ events' = events \cup {"MessageReceived"} /\ UNCHANGED hung
    /\ UNCHANGED <<txBuffer, txQueue, txActive, uart, task, watchdog, traffic, left>>

\* The UART has transmitted a buffer.
OnUartBytesWritten ==
    /\ SwiRuns /\ uart # None
    /\ transmitted' = transmitted + 1
    /\ StartNext(txQueue, refs)
    /\ UNCHANGED <<rxBuffer, mailbox, events, task, hung, watchdog, text, written, left>>

\* onPinEvent() writes a notification.
OnPinEvent ==
    /\ SwiRuns /\ Spend("notified") /\ WriteFromSwi
    /\ UNCHANGED <<mailbox, events, task, hung, watchdog>>

Expiry == 2   \* periods: the watchdog expires a little after the second one

KickedByClock == 0                 \* mutant: the callback clears the watchdog itself
Later == late + 1

\* Timing assumption: a task that does not hang takes its events before the next
\* period ends; what it does in between takes milliseconds, a period half a second.
WatchdogClockCallback ==
    /\ SwiRuns /\ late < Expiry /\ (hung = "no" => "KickWatchdog" \notin events)
    /\ events' = events \cup {"KickWatchdog"} /\ late' = Later
    /\ UNCHANGED <<refs, serial, mailbox, task, hung, missed, cause, traffic, left>>
----------------------------------------------------------------------------
(* The main task.                                                          *)

At(place) == pc = place /\ hung = "no"
Goto(place) == pc' = place

KicksNever == FALSE                \* mutant: the watchdog is never cleared
Kicks == TRUE

\* Event_pend() takes all flags; messages come first, and a kick that comes with
\* them is gone.
EventPend ==
    /\ At("pend") /\ events # {} /\ events' = {}
    /\ IF "MessageReceived" \in events
       THEN /\ Goto("drain") /\ UNCHANGED late
            /\ missed' = IF "KickWatchdog" \in events THEN missed + 1 ELSE missed
       ELSE /\ UNCHANGED pc /\ late' = IF Kicks THEN 0 ELSE late
            /\ missed' = 0
    /\ UNCHANGED <<refs, serial, mailbox, data, count, out, gate, hung, cause, traffic, left>>

UnchangedByTask == UNCHANGED <<rxBuffer, events, hung, watchdog, left>>
UnchangedTx == UNCHANGED <<txBuffer, txQueue, txActive, uart>>

MailboxPend ==
    /\ At("drain")
    /\ IF mailbox = <<>>
       THEN Goto("pend") /\ UNCHANGED <<data, mailbox>>
       ELSE Goto("load") /\ data' = Head(mailbox) /\ mailbox' = Tail(mailbox)
    /\ UNCHANGED <<refs, count, out, gate, traffic>> /\ UnchangedTx /\ UnchangedByTask

\* SharedPointer(data): the count is loaded and stored, without a lock.
LoadCount ==
    /\ At("load") /\ count' = refs[data] /\ Goto("store")
    /\ UNCHANGED <<refs, mailbox, data, out, gate, traffic>> /\ UnchangedTx /\ UnchangedByTask

StoreCount ==
    /\ At("store") /\ refs' = [refs EXCEPT ![data] = count + 1] /\ count' = 0 /\ Goto("process")
    /\ UNCHANGED <<mailbox, data, out, gate, traffic>> /\ UnchangedTx /\ UnchangedByTask

\* processMessage() hangs, has finished, or calls sendToHost() once more: the new
\* buffer is referenced by txMessage and by the local pointer of write().
ProcessMessage ==
    /\ At("process")
    /\ \/ hung' = "task" /\ UNCHANGED <<pc, refs, out, left>>
       \/ Goto("release") /\ UNCHANGED <<hung, refs, out, left>>
       \/ /\ HeapLeft /\ Spend("answers") /\ refs' = [refs EXCEPT ![Fresh] = 2] /\ out' = Fresh
          /\ Goto("enqueue") /\ UNCHANGED hung
    /\ UNCHANGED <<rxBuffer, mailbox, events, data, count, gate, watchdog, traffic>> /\ UnchangedTx

Enqueue ==
    /\ At("enqueue") /\ gate' = TRUE /\ Fill(out)
    /\ refs' = [refs EXCEPT ![out] = @ + 1] /\ txQueue' = Append(txQueue, out) /\ Goto("test")
    /\ UNCHANGED <<txBuffer, txActive, uart, mailbox, data, count, out, transmitted>> /\ UnchangedByTask

TestActive ==
    /\ At("test") /\ Goto(IF txActive THEN "leave" ELSE "start")
    /\ UNCHANGED <<refs, mailbox, data, count, out, gate, traffic>> /\ UnchangedTx /\ UnchangedByTask

StartTransmission ==
    /\ At("start") /\ StartNext(txQueue, refs) /\ Goto("leave")
    /\ UNCHANGED <<mailbox, data, count, out, gate, traffic>> /\ UnchangedByTask

LeaveGate ==
    /\ At("leave") /\ gate' = FALSE /\ Goto("drop")
    /\ UNCHANGED <<refs, mailbox, data, count, out, traffic>> /\ UnchangedTx /\ UnchangedByTask

\* The local pointer of write() goes, then txMessage.
DropOut ==
    /\ At("drop") /\ refs' = Decrement(refs, out)
    /\ IF count = 0 THEN count' = 1 /\ UNCHANGED <<pc, out>>
                    ELSE count' = 0 /\ Goto("process") /\ out' = None
    /\ UNCHANGED <<mailbox, data, gate, traffic>> /\ UnchangedTx /\ UnchangedByTask

\* decrementRefCount() gives the reference of the mailbox back, the destructor its own.
Release ==
    /\ At("release") /\ refs' = Decrement(refs, data)
    /\ IF count = 0 THEN count' = 1 /\ UNCHANGED <<pc, data>>
                    ELSE count' = 0 /\ Goto("drain") /\ data' = None
    /\ UNCHANGED <<mailbox, out, gate, traffic>> /\ UnchangedTx /\ UnchangedByTask
----------------------------------------------------------------------------
\* The chip is reset soon after the second period, when a task that hangs or has
\* nothing to do has not cleared the watchdog.
WatchdogExpires ==
    /\ late = Expiry /\ (hung # "no" \/ (pc = "pend" /\ events = {}))
    /\ cause' = IF hung # "no" THEN "hang" ELSE IF missed >= 2 THEN "missed" ELSE "unknown"
    /\ refs' = [b \in Buffers |-> Freed] /\ rxBuffer' = None /\ txBuffer' = None /\ txQueue' = <<>>
    /\ txActive' = FALSE /\ uart' = None /\ mailbox' = <<>> /\ events' = {}
    /\ pc' = "pend" /\ data' = None /\ count' = 0 /\ out' = None /\ gate' = FALSE /\ hung' = "no"
    /\ late' = 0 /\ missed' = 0 /\ text' = [b \in Buffers |-> 0]
    /\ written' = 0 /\ transmitted' = 0 /\ UNCHANGED left

\* An endless loop in a callback stops the clock as well, the watchdog goes on.
LateInSwi ==
    /\ hung = "swi" /\ late < Expiry /\ late' = late + 1
    /\ UNCHANGED <<refs, serial, mailbox, events, task, hung, missed, cause, traffic, left>>

TaskStep ==
    \/ EventPend \/ MailboxPend \/ LoadCount \/ StoreCount \/ ProcessMessage \/ Enqueue
    \/ TestActive \/ StartTransmission \/ LeaveGate \/ DropOut \/ Release

Swi == ReceiveHeader \/ AnswerReset \/ ReceivePayload \/ OnUartBytesWritten \/ OnPinEvent
       \/ WatchdogClockCallback

Next == TaskStep \/ Swi \/ WatchdogExpires \/ LateInSwi

\* The task is scheduled, transmissions end, and clocks run.
Fairness ==
    /\ WF_vars(TaskStep) /\ WF_vars(OnUartBytesWritten) /\ WF_vars(WatchdogClockCallback)
    /\ WF_vars(LateInSwi) /\ WF_vars(WatchdogExpires)

Spec == Init /\ [][Next]_vars /\ Fairness
----------------------------------------------------------------------------
(* Properties.                                                             *)

TypeOK ==
    /\ refs \in [Buffers -> 0..5] /\ rxBuffer \in Buffers \cup {None} /\ uart \in Buffers \cup {None}
    /\ txBuffer \in Buffers \cup {None} /\ txQueue \in Seq(Buffers) /\ txActive \in BOOLEAN
    /\ mailbox \in Seq(Buffers) /\ events \subseteq {"MessageReceived", "KickWatchdog"}
    /\ data \in Buffers \cup {None} /\ out \in Buffers \cup {None} /\ gate \in BOOLEAN
    /\ hung \in {"no", "task", "swi"} /\ late \in 0..Expiry

Occurrences(seq, b) == Cardinality({i \in DOMAIN seq : seq[i] = b})
One(holds) == IF holds THEN 1 ELSE 0

\* References of the main task: the one of the mailbox, its own, and those of write().
HeldByTask(b) ==
    (IF b # data THEN 0 ELSE IF pc \in {"load", "store"} \/ (pc = "release" /\ count = 1) THEN 1 ELSE 2)
    + (IF b # out THEN 0 ELSE IF pc = "drop" /\ count = 1 THEN 1 ELSE 2)

\* The count of a buffer is the number of pointers to it at every step of the task
\* and between any two interrupts: no buffer is deleted while it is in a queue,
\* handled or transmitted, none is deleted twice, and none is forgotten.
CountsAreExact ==
    \A b \in Buffers :
        refs[b] = Occurrences(txQueue, b) + Occurrences(mailbox, b) + One(b = txBuffer)
                  + One(b = rxBuffer) + HeldByTask(b)

\* Messages of the task and of the callbacks are transmitted completely, once and
\* in the order of write().  The queue is served as long as it is not empty.
NothingLost ==
    /\ LET waiting == (IF uart = None THEN <<>> ELSE <<uart>>) \o txQueue IN
       /\ written = transmitted + Len(waiting)
       /\ \A i \in DOMAIN waiting : text[waiting[i]] = transmitted + i
    /\ uart = txBuffer /\ (txActive <=> uart # None)
    /\ ~txActive => txQueue = <<>> \/ gate

\* The watchdog resets a chip that hangs, or one that has lost two kicks in a row.
ResetHasReason == cause # "unknown"

\* Whatever is written is on the line some time, unless the chip is reset; and an
\* endless loop ends in a reset.
QueueDrains == txQueue # <<>> ~> (txQueue = <<>>)
HangEnds == hung # "no" ~> hung = "no"
=============================================================================
