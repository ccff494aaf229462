------------------------------- MODULE RocLink -------------------------------
(***************************************************************************)
(* The remote object protocol between qst and the firmware of a probe:     *)
(* RocHostController and the PinProbe items of a test case on one side,    *)
(* RocTargetController and its PinTargetObjects on the other.              *)
(*                                                                         *)
(* The host sends requests and waits for the answer in an event loop.  All *)
(* waits share one QEventLoop: a call from an event handler in the middle  *)
(* of a wait sends its request and returns at once.  The target handles    *)
(* one message after the other; it may be reset, and loses everything.     *)
(*                                                                         *)
(* The frames below are module StpFrames: here messages arrive in order,   *)
(* unless a side goes away.  There is no clock: a timer of the host expires   *)
(* when its answer will not come, and a bounded number of times also when  *)
(* it is only late.  Logging, LEDs and pull resistors are left out.        *)
(***************************************************************************)
EXTENDS Integers, Sequences, FiniteSets

CONSTANTS
    Probes,      \* the PinProbe items of a test case
    Configs,     \* their properties when the test case begins
    Ioids,       \* pins of the board
    Levels,      \* pin::Low, pin::High
    Addresses,   \* of objects in the heap of the target
    None,
    Slots,       \* length of the ArrayList `probes`
    Budgets,     \* numbers of test cases; of steps: requests of run(), edges, late or
                 \* killed hosts; and of late answers
    Writers      \* valueChanged() handlers may write pins

Undefined == -1  \* pin::Undefined

ASSUME LinkAssumption ==
    /\ None \notin Addresses \cup Probes
    /\ IsFiniteSet(Probes) /\ Slots \in Nat /\ Levels \subseteq Nat
    /\ Configs \subseteq [Probes -> [ioid : Ioids, out : BOOLEAN,
                                     value : Levels \cup {Undefined}]]
    /\ Budgets \subseteq [cases : Nat, steps : Nat, late : Nat]
    /\ Writers \in BOOLEAN

VARIABLES
    state,       \* m_state of the host controller
    objects,     \* m_objects: the probe registered under each address
    ids,         \* m_ids, and m_targetId of the probes in it
    current,     \* m_currentObject
    unanswered,  \* m_unansweredPings
    pinging,     \* m_pingTimer is active
    wait,        \* the call of sendMessageBlocking() that runs m_loop
    retries,
    phase,       \* of the test case: idle, init, run or cleanup
    todo,        \* probes initTestCase() or cleanupTestCase() waits for
    pin,         \* m_ioid, m_type and m_value of the probes
    outcome,     \* running, or how the process ended
    connected, slots, obj, instances,   \* of the target
    hung,        \* the main task is in an endless loop
    toTarget, toHost,
    sent,        \* history: number of blocking requests
    lostPings,   \* history: pings that cannot be answered any more
    irregular,   \* history: nested, a handler has written a pin during a wait;
                 \* overtaken, a timer has expired although the answer was on its way
    left         \* what is left of the budget

registry == <<objects, ids, current>>
host == <<state, registry, unanswered, pinging, wait, retries, phase, todo, pin, outcome>>
target == <<connected, slots, obj, instances, hung>>
history == <<sent, lostPings, irregular, left>>
vars == <<host, target, toTarget, toHost, history>>

Dead == [ioid |-> None]
Pending == 0
Expired == -1
NoWait == [kind |-> "none", probe |-> None, arg |-> None, nr |-> 0, by |-> Pending, slot |-> FALSE]

Message(kind, id, arg, nr) == [kind |-> kind, id |-> id, arg |-> arg, nr |-> nr]
Count(kind, ms) == Cardinality({i \in DOMAIN ms : ms[i].kind = kind})
Pings(ms) == Count("Ping", ms)
Pongs(ms) == Count("Pong", ms)

Unregistered == [a \in Addresses |-> None]

Init ==
    /\ state = "Disconnected" /\ objects = Unregistered /\ ids = [p \in Probes |-> None]
    /\ current = None /\ unanswered = 0 /\ pinging = FALSE /\ wait = NoWait /\ retries = 0
    /\ phase = "idle" /\ todo = {} /\ pin \in Configs /\ outcome = "running"
    /\ connected = FALSE /\ slots = <<>> /\ hung = FALSE
    /\ obj = [a \in Addresses |-> Dead] /\ instances = [i \in Ioids |-> None]
    /\ toTarget = <<>> /\ toHost = <<>>
    /\ sent = 0 /\ lostPings = 0 /\ irregular = {} /\ left \in Budgets
----------------------------------------------------------------------------
(* Host: requests.                                                         *)

Exit(reason) == outcome' = reason

\* sendMessageBlocking(): a request is sent and m_loop entered.  `slot` says
\* that this happens in a slot of QSerialPort::readyRead(), which is not
\* emitted again before the slot has returned.
Ask(kind, p, id, arg, slot) ==
    /\ toTarget' = Append(toTarget, Message(kind, id, arg, sent + 1))
    /\ sent' = sent + 1
    /\ wait' = [kind |-> kind, probe |-> p, arg |-> arg, nr |-> sent + 1,
                by |-> Pending, slot |-> slot]

Idle == outcome = "running" /\ wait = NoWait
Returned(kinds) == outcome = "running" /\ wait.kind \in kinds /\ wait.by # Pending
Spend(what) == left[what] > 0 /\ left' = [left EXCEPT ![what] = @ - 1]

\* The user interrupts qst, which does not unregister its probes.
Killed ==
    /\ outcome = "running" /\ phase # "idle" /\ Spend("steps") /\ Exit("killed")
    /\ UNCHANGED <<state, registry, unanswered, pinging, wait, retries, phase, todo, pin,
                   target, toTarget, toHost, sent, lostPings, irregular>>

\* qst is started again.  What was sent to its predecessor is gone, and the
\* target has handled what the predecessor sent: opening the port takes longer.
Restart ==
    /\ outcome # "running" /\ left.cases > 0 /\ toTarget = <<>>
    /\ state' = "Disconnected" /\ objects' = Unregistered /\ ids' = [p \in Probes |-> None]
    /\ current' = None /\ unanswered' = 0 /\ pinging' = FALSE /\ wait' = NoWait /\ retries' = 0
    /\ phase' = "idle" /\ todo' = {} /\ outcome' = "running"
    /\ toHost' = <<>> /\ lostPings' = 0 /\ irregular' = {}
    /\ UNCHANGED <<pin, target, toTarget, sent, left>>

BeginTestCase ==
    /\ Idle /\ phase = "idle" /\ Spend("cases")
    /\ phase' = "init" /\ todo' = Probes /\ pin' \in Configs
    /\ UNCHANGED <<state, registry, unanswered, pinging, wait, retries, outcome,
                   target, toTarget, toHost, sent, lostPings, irregular>>

\* registerObject() of the first probe opens the port, or gives up.
ConnectToTarget(p) ==
    /\ Idle /\ phase = "init" /\ p \in todo /\ state = "Disconnected"
    /\ \/ state' = "Standby" /\ Ask("Connect", p, 0, None, FALSE) /\ retries' = 1
          /\ UNCHANGED outcome
       \/ Exit("noProbe") /\ UNCHANGED <<state, toTarget, sent, wait, retries>>
    /\ UNCHANGED <<registry, unanswered, pinging, phase, todo, pin, target, toHost,
                   lostPings, irregular, left>>

AskConstruct(p) == current' = p /\ Ask("Construct", p, 0, None, FALSE)

Register(p) ==
    /\ Idle /\ phase = "init" /\ p \in todo /\ state = "Connected"
    /\ AskConstruct(p)
    /\ UNCHANGED <<state, objects, ids, unanswered, pinging, retries, phase, todo, pin,
                   outcome, target, toHost, lostPings, irregular, left>>

ConnectReturns ==
    /\ Returned({"Connect"})
    /\ \/ /\ wait.by # Expired
          /\ state' = "Connected" /\ pinging' = TRUE /\ AskConstruct(wait.probe)
          /\ UNCHANGED <<retries, outcome>>
       \/ /\ wait.by = Expired /\ retries > 0
          /\ retries' = retries - 1 /\ Ask("Connect", wait.probe, 0, None, FALSE)
          /\ UNCHANGED <<state, pinging, current, outcome>>
       \/ /\ wait.by = Expired /\ retries = 0 /\ Exit("noResponse")
          /\ UNCHANGED <<state, pinging, current, wait, retries, toTarget, sent>>
    /\ UNCHANGED <<objects, ids, unanswered, phase, todo, pin, target, toHost,
                   lostPings, irregular, left>>

Conflicts(p) == \E q \in Probes \ {p} : pin[q].ioid = pin[p].ioid

\* The end of registerObject() with its assertion, and the rest of initTestCase().
ConstructReturns ==
    LET p == wait.probe IN
    /\ Returned({"Construct"})
    /\ \/ wait.by = Expired /\ Exit("noResponse") /\ UNCHANGED <<wait, toTarget, sent>>
       \/ /\ wait.by # Expired /\ ids[p] = None
          /\ Exit("assertion") /\ UNCHANGED <<wait, toTarget, sent>>
       \/ /\ wait.by # Expired /\ ids[p] # None /\ Conflicts(p)
          /\ Exit("conflict") /\ UNCHANGED <<wait, toTarget, sent>>
       \/ /\ wait.by # Expired /\ ids[p] # None /\ ~Conflicts(p)
          /\ Ask("Init", p, ids[p], pin[p], FALSE) /\ UNCHANGED outcome
    /\ UNCHANGED <<state, registry, unanswered, pinging, retries, phase, todo, pin, target,
                   toHost, lostPings, irregular, left>>

StoresNever == FALSE   \* mutant: setValue() does not store the value
StoresLater == TRUE

\* sendToTarget() returns: to initTestCase(), or to the setter of a property.
\* setValue() has not stored the value before.
RequestReturns ==
    LET p == wait.probe IN
    /\ Returned({"Init", "ChangeValue", "ChangeType", "ChangeIoid", "ChangePullMode"})
    /\ wait' = NoWait
    /\ todo' = IF wait.kind = "Init" THEN todo \ {p} ELSE todo
    /\ pin' = IF wait.kind = "ChangeValue" /\ StoresLater
              THEN [pin EXCEPT ![p].value = wait.arg] ELSE pin
    /\ UNCHANGED <<state, registry, unanswered, pinging, retries, phase, outcome, target,
                   toTarget, toHost, history>>

\* The phases of Testcase::exec(): m_active of the probes is TRUE in "run".
NextPhase ==
    /\ Idle
    /\ \/ phase = "init" /\ todo = {} /\ phase' = "run" /\ UNCHANGED todo
       \/ phase = "run" /\ phase' = "cleanup" /\ todo' = Probes
       \/ phase = "cleanup" /\ todo = {} /\ phase' = "idle" /\ UNCHANGED todo
    /\ UNCHANGED <<state, registry, unanswered, pinging, wait, retries, pin, outcome,
                   target, toTarget, toHost, history>>

\* setValue() of an output, setType(), setIoid() and setPullMode().
SetProperty(p) ==
    /\ Idle /\ phase = "run" /\ Spend("steps")
    /\ \/ \E v \in Levels :
             /\ pin[p].out /\ pin[p].value # v
             /\ Ask("ChangeValue", p, ids[p], v, FALSE) /\ UNCHANGED pin
       \/ \E out \in BOOLEAN :
             pin' = [pin EXCEPT ![p].out = out] /\ Ask("ChangeType", p, ids[p], out, FALSE)
       \/ \E i \in Ioids :
             pin' = [pin EXCEPT ![p].ioid = i] /\ Ask("ChangeIoid", p, ids[p], i, FALSE)
       \/ Ask("ChangePullMode", p, ids[p], None, FALSE) /\ UNCHANGED pin
    /\ UNCHANGED <<state, registry, unanswered, pinging, retries, phase, todo, outcome,
                   target, toHost, lostPings, irregular>>

Unregister(p) ==
    /\ Idle /\ phase = "cleanup" /\ p \in todo
    /\ Ask("Destruct", p, ids[p], None, FALSE)
    /\ UNCHANGED <<state, registry, unanswered, pinging, retries, phase, todo, pin, outcome,
                   target, toHost, lostPings, irregular, left>>

\* The last object closes the port; what has not been read is gone.
DestructReturns ==
    LET p == wait.probe
        rest == [objects EXCEPT ![ids[p]] = None] IN
    /\ Returned({"Destruct"})
    /\ \/ /\ wait.by = Expired /\ Exit("noResponse")
          /\ UNCHANGED <<objects, ids, todo, wait, state, pinging, toHost, lostPings>>
       \/ /\ wait.by # Expired
          /\ objects' = rest /\ ids' = [ids EXCEPT ![p] = None]
          /\ todo' = todo \ {p} /\ wait' = NoWait
          /\ \/ /\ \E a \in Addresses : rest[a] # None
                /\ UNCHANGED <<state, pinging, toHost, lostPings>>
             \/ /\ \A a \in Addresses : rest[a] = None
                /\ pinging' = FALSE /\ state' = "Disconnected" /\ toHost' = <<>>
                /\ lostPings' = lostPings + Pongs(toHost)
          /\ UNCHANGED outcome
    /\ UNCHANGED <<current, unanswered, retries, phase, pin, target, toTarget, sent, irregular, left>>
----------------------------------------------------------------------------
(* Host: events, delivered by m_loop or by a wait of the test function.    *)

InEventLoop == outcome = "running" /\ (wait # NoWait \/ phase = "run")

EndsWait(m) == m.nr # 0

\* A blocking answer, whichever it is, ends the wait in progress.
Answered(m) ==
    IF wait # NoWait /\ wait.by = Pending /\ EndsWait(m)
    THEN wait' = [wait EXCEPT !.by = m.nr] ELSE UNCHANGED wait

Next1(m) == InEventLoop /\ ~wait.slot /\ toHost # <<>> /\ m = Head(toHost) /\ toHost' = Tail(toHost)

\* onReadyRead()
ReceiveAnswer ==
    \E m \in {toHost[1] : i \in DOMAIN toHost} :
        /\ Next1(m) /\ Answered(m)
        /\ \/ /\ m.kind = "StatusOk" /\ UNCHANGED <<registry, unanswered, outcome>>
           \/ /\ \/ m.kind = "ObjectId" /\ current = None
                 \/ m.kind = "Pong" /\ unanswered = 0
              /\ Exit("assertion") /\ UNCHANGED <<registry, unanswered>>
           \/ /\ m.kind = "ObjectId" /\ current # None
              /\ objects' = [objects EXCEPT ![m.id] = current]
              /\ ids' = [ids EXCEPT ![current] = m.id] /\ current' = None
              /\ UNCHANGED <<unanswered, outcome>>
           \/ /\ m.kind = "Pong" /\ unanswered > 0 /\ unanswered' = unanswered - 1
              /\ UNCHANGED <<registry, outcome>>
        /\ UNCHANGED <<state, pinging, retries, phase, todo, pin, target, toTarget, history>>

\* processFromTarget(): a handler of valueChanged() may write an output.  In
\* the middle of a wait the call of exec() fails at once, and setValue() goes on.
ReceiveChange ==
    \E m \in {toHost[1] : i \in DOMAIN toHost} :
        LET p == objects[m.id] IN
        /\ Next1(m) /\ m.kind = "ChangeValue"
        /\ \/ /\ p = None /\ Exit("unknownObject")
              /\ UNCHANGED <<pin, wait, toTarget, sent, irregular>>
           \/ /\ p # None
              /\ pin' = [pin EXCEPT ![p].value = m.arg]
              /\ UNCHANGED <<wait, toTarget, sent, irregular, outcome>>
           \/ /\ Writers /\ phase = "run" /\ p # None /\ pin[p].value # m.arg
              /\ UNCHANGED outcome
              /\ \E q \in Probes, v \in Levels :
                    LET seen == [pin EXCEPT ![p].value = m.arg] IN
                    /\ seen[q].out /\ seen[q].value # v
                    /\ \/ /\ wait = NoWait /\ Ask("ChangeValue", q, ids[q], v, TRUE)
                          /\ pin' = seen /\ UNCHANGED irregular
                       \/ /\ wait # NoWait /\ irregular' = irregular \cup {"nested"} /\ UNCHANGED wait
                          /\ toTarget' = Append(toTarget, Message("ChangeValue", ids[q], v, sent + 1))
                          /\ sent' = sent + 1 /\ pin' = [seen EXCEPT ![q].value = v]
        /\ UNCHANGED <<state, registry, unanswered, pinging, retries, phase, todo, target,
                       lostPings, left>>

\* Messages that get through: the target works, and the host reads.
ToTarget == {toTarget[i] : i \in {k \in DOMAIN toTarget : ~hung}}
ToHost == {toHost[i] : i \in {k \in DOMAIN toHost : ~wait.slot}}
OnTheWay(kinds, nr) == \E m \in ToTarget \cup ToHost : m.kind \in kinds \/ (m.nr = nr /\ nr # 0)

\* A timer expires when there is nothing to wait for, or when it comes late.
TimerExpires(onTheWay) ==
    IF onTheWay THEN Spend("late") /\ irregular' = irregular \cup {"overtaken"}
                ELSE UNCHANGED <<left, irregular>>

MaxUnansweredNone == 0   \* mutant: the first ping must be answered
MaxUnansweredThree == 3  \* mutant: one ping too many
MaxUnanswered == 2

OnPingTimerTick ==
    /\ InEventLoop /\ pinging
    /\ TimerExpires(OnTheWay({"Ping", "Pong"}, 0))
    /\ \/ unanswered > MaxUnanswered /\ Exit("lost") /\ UNCHANGED <<unanswered, toTarget>>
       \/ /\ unanswered <= MaxUnanswered
          /\ unanswered' = unanswered + 1 /\ toTarget' = Append(toTarget, Message("Ping", 0, None, 0))
          /\ UNCHANGED outcome
    /\ UNCHANGED <<state, registry, pinging, wait, retries, phase, todo, pin, target, toHost, sent, lostPings>>

ConnectHasNone(kind) == kind \in {"Construct", "Destruct"}   \* mutant
HasTimeout(kind) == kind \in {"Connect", "Construct", "Destruct"}

RequestTimeout ==
    /\ InEventLoop /\ HasTimeout(wait.kind) /\ wait.by = Pending
    /\ TimerExpires(OnTheWay({}, wait.nr))
    /\ wait' = [wait EXCEPT !.by = Expired]
    /\ UNCHANGED <<state, registry, unanswered, pinging, retries, phase, todo, pin, outcome,
                   target, toTarget, toHost, sent, lostPings>>
----------------------------------------------------------------------------
(* Target.                                                                 *)

Live(a) == obj[a] # Dead
Fresh == [ioid |-> 0, out |-> FALSE, open |-> FALSE, value |-> 0]
Used == {k \in DOMAIN slots : slots[k] # None}

PortOpen == outcome = "running" /\ state # "Disconnected"

\* sendToHost(): nobody receives it when the port is closed.
Send(ms) ==
    IF PortOpen THEN toHost' = toHost \o ms /\ UNCHANGED lostPings
    ELSE lostPings' = lostPings + Pongs(ms) /\ UNCHANGED toHost

Ok(m) == Message("StatusOk", 0, None, m.nr)
Change(a, v) == Message("ChangeValue", a, v, 0)

\* The main task takes the next message; `kinds` says which.
Take(kinds, m) == ~hung /\ toTarget # <<>> /\ m = Head(toTarget) /\ m.kind \in kinds
                  /\ toTarget' = Tail(toTarget)

\* An endless loop: of processMessage(), or of a failed assertion.
Hang == hung' = TRUE /\ UNCHANGED <<toHost, lostPings>>

UserMessages == {"Init", "ChangeValue", "ChangeType", "ChangeIoid", "ChangePullMode"}

NotConnected ==
    \E m \in {toTarget[1] : i \in DOMAIN toTarget} :
        /\ ~connected /\ Take({"Construct", "Destruct", "Ping"} \cup UserMessages, m)
        /\ hung' = TRUE /\ lostPings' = IF m.kind = "Ping" THEN lostPings + 1 ELSE lostPings
        /\ UNCHANGED <<host, connected, slots, obj, instances, toHost, sent, irregular, left>>

KeepsObjects(objs) == objs                          \* mutant: probes are not deleted
DeletesObjects(objs) == [a \in DOMAIN objs |-> Dead]

TargetConnect ==
    \E m \in {toTarget[1] : i \in DOMAIN toTarget} :
        /\ Take({"Connect"}, m)
        /\ obj' = DeletesObjects(obj) /\ slots' = <<>> /\ connected' = TRUE
        /\ instances' = [i \in Ioids |->
                            IF \E a \in Addresses : Live(a) /\ obj[a].ioid = i
                            THEN None ELSE instances[i]]
        /\ Send(<<Ok(m)>>)
        /\ UNCHANGED <<host, hung, sent, irregular, left>>

\* constructObject(): the answer goes out before the object is in the list.
TargetConstruct ==
    \E m \in {toTarget[1] : i \in DOMAIN toTarget} :
        /\ connected /\ Take({"Construct"}, m)
        /\ \E a \in Addresses :
                /\ ~Live(a) /\ obj' = [obj EXCEPT ![a] = Fresh]
                /\ Send(<<Message("ObjectId", a, None, m.nr)>>)
                /\ IF Len(slots) < Slots THEN slots' = Append(slots, a) /\ UNCHANGED hung
                                         ELSE hung' = TRUE /\ UNCHANGED slots
        /\ UNCHANGED <<host, connected, instances, sent, irregular, left>>

ListEmpty(list) == \A k \in DOMAIN list : list[k] = None

TargetDestruct ==
    \E m \in {toTarget[1] : i \in DOMAIN toTarget} :
        LET kept == [k \in DOMAIN slots |-> IF slots[k] = m.id THEN None ELSE slots[k]] IN
        /\ connected /\ Take({"Destruct"}, m)
        /\ IF \E k \in Used : slots[k] = m.id
           THEN /\ obj' = [obj EXCEPT ![m.id] = Dead]
                /\ instances' = [instances EXCEPT ![obj[m.id].ioid] = None]
           ELSE UNCHANGED <<obj, instances>>
        /\ IF ListEmpty(kept)
           THEN slots' = <<>> /\ connected' = FALSE
           ELSE slots' = kept /\ UNCHANGED connected
        /\ Send(<<Ok(m)>>)
        /\ UNCHANGED <<host, hung, sent, irregular, left>>

TargetPing ==
    \E m \in {toTarget[1] : i \in DOMAIN toTarget} :
        /\ connected /\ Take({"Ping"}, m)
        /\ Send(<<Message("Pong", 0, None, 0)>>)
        /\ UNCHANGED <<host, target, sent, irregular, left>>

Occupied(i, a) == \E b \in Addresses \ {a} : Live(b) /\ obj[b].open /\ obj[b].ioid = i

AnswersFromSetters(m) == <<Ok(m), Ok(m)>>   \* mutant: enabled before its setters are called
InitAnswers(m) == <<Ok(m)>>

\* PinTargetObject::init(): an input has the level of its pin.  The list of
\* instances of a pin that nobody has open is empty: no setter answers here.
TargetInit ==
    \E m \in {toTarget[1] : i \in DOMAIN toTarget} :
        LET a == m.id IN
        /\ connected /\ Take({"Init"}, m) /\ Live(a)
        /\ \/ /\ Occupied(m.arg.ioid, a) /\ Hang
              /\ obj' = [obj EXCEPT ![a].ioid = m.arg.ioid] /\ UNCHANGED instances
           \/ \E v \in IF m.arg.out THEN {m.arg.value} ELSE Levels :
                /\ ~Occupied(m.arg.ioid, a)
                /\ obj' = [obj EXCEPT ![a] = [ioid |-> m.arg.ioid, out |-> m.arg.out,
                                              open |-> TRUE, value |-> v]]
                /\ instances' = [instances EXCEPT ![m.arg.ioid] = a]
                /\ Send(Append(InitAnswers(m), Change(a, v))) /\ UNCHANGED hung
        /\ UNCHANGED <<host, connected, slots, sent, irregular, left>>

\* setValue(), setType() and setPullMode() answer when a probe has the pin.
TargetSetter ==
    \E m \in {toTarget[1] : i \in DOMAIN toTarget} :
        LET a == m.id IN
        /\ connected /\ Take({"ChangeValue", "ChangeType", "ChangePullMode"}, m) /\ Live(a)
        /\ obj' = CASE m.kind = "ChangeValue" -> [obj EXCEPT ![a].value = m.arg]
                    [] m.kind = "ChangeType" -> [obj EXCEPT ![a].out = m.arg]
                    [] OTHER -> obj
        /\ Send(IF instances[obj[a].ioid] # None THEN <<Ok(m)>> ELSE <<>>)
        /\ UNCHANGED <<host, connected, slots, instances, hung, sent, irregular, left>>

\* setIoid() does not answer.
TargetSetIoid ==
    \E m \in {toTarget[1] : i \in DOMAIN toTarget} :
        LET a == m.id
            wasEnabled == instances[obj[a].ioid] # None
            off == [instances EXCEPT ![obj[a].ioid] = None] IN
        /\ connected /\ Take({"ChangeIoid"}, m) /\ Live(a)
        /\ obj' = [obj EXCEPT ![a].ioid = m.arg]
        /\ IF Occupied(m.arg, a)
           THEN Hang /\ instances' = off
           ELSE /\ instances' = IF wasEnabled THEN [off EXCEPT ![m.arg] = a] ELSE off
                /\ UNCHANGED <<hung, toHost, lostPings>>
        /\ UNCHANGED <<host, connected, slots, sent, irregular, left>>

\* onPinEvent() is an interrupt: it also runs when the main task hangs.
PinEvent(i) ==
    /\ Spend("steps") /\ instances[i] # None
    /\ LET a == instances[i] IN
       /\ ~obj[a].out
       /\ \E v \in Levels : obj' = [obj EXCEPT ![a].value = v] /\ Send(<<Change(a, v)>>)
    /\ UNCHANGED <<host, connected, slots, instances, hung, toTarget, sent, irregular>>

\* A reset of the chip: its queues are lost as well.
Reset ==
    /\ connected' = FALSE /\ slots' = <<>> /\ hung' = FALSE
    /\ obj' = [a \in Addresses |-> Dead] /\ instances' = [i \in Ioids |-> None]
    /\ toTarget' = <<>>
    /\ \E n \in 0..Len(toHost) :
        /\ toHost' = SubSeq(toHost, 1, n)
        /\ lostPings' = lostPings + Pings(toTarget) + Pongs(SubSeq(toHost, n + 1, Len(toHost)))

OverdueIfEmpty == connected /\ slots = <<>> /\ Pings(toTarget) = 0   \* mutant
Overdue == connected /\ Pings(toTarget) = 0

\* checkConnectionCallback(): no ping for 600 ms, because the host is late or gone.
CheckConnection ==
    /\ Overdue /\ Reset
    /\ \/ outcome = "running" /\ Spend("steps")
       \/ outcome # "running" /\ UNCHANGED left
    /\ UNCHANGED <<host, sent, irregular>>

Watchdog == hung /\ Reset /\ UNCHANGED <<host, sent, irregular, left>>
----------------------------------------------------------------------------
WaitReturns == ConnectReturns \/ ConstructReturns \/ RequestReturns \/ DestructReturns
Receive == ReceiveAnswer \/ ReceiveChange

TargetStep ==
    \/ NotConnected \/ TargetConnect \/ TargetConstruct \/ TargetDestruct
    \/ TargetPing \/ TargetInit \/ TargetSetter \/ TargetSetIoid

Next ==
    \/ Killed \/ Restart \/ BeginTestCase \/ NextPhase
    \/ \E p \in Probes : ConnectToTarget(p) \/ Register(p) \/ SetProperty(p) \/ Unregister(p)
    \/ WaitReturns \/ Receive \/ OnPingTimerTick \/ RequestTimeout
    \/ TargetStep \/ \E i \in Ioids : PinEvent(i)
    \/ CheckConnection \/ Watchdog

\* exec() returns after exit().  The event loop of the host serves the port and
\* the timers, the scheduler of the target its task and its clocks.  The test
\* function owes nothing.
Fairness ==
    /\ WF_vars(WaitReturns) /\ WF_vars(Receive)
    /\ WF_vars(OnPingTimerTick) /\ WF_vars(RequestTimeout) /\ WF_vars(TargetStep)
    /\ WF_vars(CheckConnection) /\ WF_vars(Watchdog)

Spec == Init /\ [][Next]_vars /\ Fairness
----------------------------------------------------------------------------
(* Properties.                                                             *)

Kinds == {"Connect", "Construct", "Destruct", "Ping"} \cup UserMessages

\* The states, the registry and the calls in progress are what they say.
TypeOK ==
    /\ state \in {"Disconnected", "Standby", "Connected"}
    /\ objects \in [Addresses -> Probes \cup {None}]
    /\ ids \in [Probes -> Addresses \cup {None}] /\ current \in Probes \cup {None}
    /\ unanswered \in 0..3 /\ pinging \in BOOLEAN /\ retries \in 0..1
    /\ wait.kind \in Kinds \cup {"none"} /\ wait.probe \in Probes \cup {None}
    /\ phase \in {"idle", "init", "run", "cleanup"} /\ todo \subseteq Probes
    /\ outcome \in {"running", "noProbe", "noResponse", "conflict", "lost", "assertion",
                   "unknownObject", "killed"}
    /\ connected \in BOOLEAN /\ hung \in BOOLEAN
    /\ slots \in Seq(Addresses \cup {None}) /\ instances \in [Ioids -> Addresses \cup {None}]
    /\ \A m \in {toTarget[i] : i \in DOMAIN toTarget} : m.kind \in Kinds
    /\ \A m \in {toHost[i] : i \in DOMAIN toHost} :
            m.kind \in {"StatusOk", "ObjectId", "Pong", "ChangeValue"}

\* The host and the target agree on the probes.  Every registered probe has an
\* object of its own; and when the test function is idle and everything that was
\* sent has been read, pin, direction and value are the same on both sides.  Late
\* answers make no difference; an answer to a handler that writes during a wait does.
Settled == wait = NoWait /\ phase = "run" /\ toHost = <<>> /\ connected /\ ~hung
PinsAgree ==
    outcome = "running" =>
    /\ \A p \in Probes : ids[p] # None => objects[ids[p]] = p
    /\ Settled /\ "nested" \notin irregular => \A p \in Probes :
        LET o == obj[ids[p]] IN
        /\ o # Dead /\ instances[pin[p].ioid] = ids[p]
        /\ o.ioid = pin[p].ioid /\ o.out = pin[p].out /\ o.value = pin[p].value

\* Every object of the target is in the list, once, and the list never runs out
\* of slots; a message for a probe finds its object in memory.
TargetMemorySafe ==
    /\ Len(slots) <= Cardinality(Probes)
    /\ ~hung => \A a \in Addresses : Live(a) <=> Cardinality({k \in Used : slots[k] = a}) = 1
    /\ connected /\ toTarget # <<>> /\ Head(toTarget).kind \in UserMessages
            => Live(Head(toTarget).id)

\* As long as no handler writes during a wait and no timer overtakes an answer, the
\* answer that ends a wait is the answer to that request, and the controller is never in a state that it
\* asserts it is not in.
OwnAnswer ==
    irregular = {} => (wait.by > 0 => wait.by = wait.nr) /\ outcome # "assertion"

\* No ping is counted twice or forgotten: those the host waits for are on their
\* way, or lost for a reason.  So the connection is given up only after three
\* pings that will never be answered, or that nobody can read, or whose answer is late.
LossIsReal ==
    outcome \in {"running", "lost"} =>
    /\ unanswered = Pings(toTarget) + Pongs(toHost) + lostPings
    /\ outcome = "lost" =>
            unanswered = 3 /\ (lostPings = 3 \/ hung \/ wait.slot \/ "overtaken" \in irregular)

\* Every request ends: by its answer, its timeout, or the loss of the connection.
\* A change of the ioid is never answered, see the README.
EveryRequestEnds ==
    wait.kind \notin {"none", "ChangeIoid"} ~> (wait = NoWait \/ outcome # "running")

\* The probe is free for another host some time after one has gone.
ProbeFreed == outcome # "running" ~> (~connected \/ outcome = "running")
=============================================================================
