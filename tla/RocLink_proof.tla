---------------------------- MODULE RocLink_proof -----------------------------
(* The host and the firmware of a probe agree on its pins, no request takes   *)
(* the answer of another one, the target finds in memory what a message is   *)
(* about, and a connection is given up only for a reason: for any number of  *)
(* probes, pins and addresses, and for any number of test cases, resets,     *)
(* late answers and edges.                                                   *)
EXTENDS RocLink, FiniteSetTheorems, TLAPS

-----------------------------------------------------------------------------
(* Types.                                                                  *)

Values == Levels \cup {Undefined, 0}
Pin == [ioid : Ioids, out : BOOLEAN, value : Values]
Object == [ioid : Ioids \cup {0}, out : BOOLEAN, open : BOOLEAN, value : Values]
Args == {None} \cup Values \cup BOOLEAN \cup Ioids \cup Pin

\* The argument of a request, or of the call that waits for its answer.
Argument(r) ==
    /\ r.kind = "Init" => r.arg \in Pin
    /\ r.kind = "ChangeValue" => r.arg \in Values
    /\ r.kind = "ChangeType" => r.arg \in BOOLEAN
    /\ r.kind = "ChangeIoid" => r.arg \in Ioids

Call == {c \in [kind : Kinds \cup {"none"}, probe : Probes \cup {None}, arg : Args,
                nr : Nat, by : Int, slot : BOOLEAN] :
            Argument(c) /\ (c.kind # "none" => c.probe \in Probes)}

\* Pings and messages of the pins have no number.
Request == {m \in [kind : Kinds, id : Addresses \cup {0}, arg : Args, nr : Nat] :
                /\ Argument(m) /\ (m.nr = 0 <=> m.kind = "Ping")
                /\ m.kind \in UserMessages \cup {"Destruct"} => m.id \in Addresses}
Reply == {m \in [kind : {"StatusOk", "ObjectId", "Pong", "ChangeValue"},
                 id : Addresses \cup {0}, arg : Args, nr : Nat] :
                /\ m.nr = 0 <=> m.kind \in {"Pong", "ChangeValue"}
                /\ m.kind = "ChangeValue" => m.arg \in Values
                /\ m.kind \in {"ObjectId", "ChangeValue"} => m.id \in Addresses}

HostTypes ==
    /\ state \in {"Disconnected", "Standby", "Connected"}
    /\ objects \in [Addresses -> Probes \cup {None}]
    /\ ids \in [Probes -> Addresses \cup {None}] /\ current \in Probes \cup {None}
    /\ unanswered \in 0..3 /\ pinging \in BOOLEAN /\ retries \in 0..1 /\ wait \in Call
    /\ phase \in {"idle", "init", "run", "cleanup"} /\ todo \subseteq Probes
    /\ pin \in [Probes -> Pin]
    /\ outcome \in {"running", "noProbe", "noResponse", "conflict", "lost", "assertion",
                   "unknownObject", "killed"}

TargetTypes ==
    /\ connected \in BOOLEAN /\ hung \in BOOLEAN
    /\ slots \in Seq(Addresses \cup {None}) /\ instances \in [Ioids -> Addresses \cup {None}]
    /\ obj \in [Addresses -> {Dead} \cup Object]

ChannelTypes ==
    /\ toTarget \in Seq(Request) /\ toHost \in Seq(Reply)
    /\ sent \in Nat /\ lostPings \in Nat

Types == HostTypes /\ TargetTypes /\ ChannelTypes

Setters == {"ChangeValue", "ChangeType", "ChangeIoid", "ChangePullMode"}

\* What the test case is doing, what the controller waits for, and which probes
\* are registered, go together.
Control ==
    /\ wait.kind = "none" => wait = NoWait
    /\ wait.kind # "none" => wait.nr \in 1..sent
    /\ wait.kind \in {"Connect", "Construct", "Init"} => phase = "init" /\ wait.probe \in todo
    /\ wait.kind \in Setters => phase = "run"
    /\ wait.kind = "Destruct" => phase = "cleanup" /\ wait.probe \in todo
    /\ wait.kind = "Connect" <=> state = "Standby"
    /\ wait.kind \notin {"none", "Connect"} => state = "Connected"
    /\ wait.kind \in {"Connect", "Construct", "Init", "Destruct"} => wait.nr = sent
    /\ wait.slot => wait.kind = "ChangeValue"
    /\ wait.by = Expired => HasTimeout(wait.kind)
    /\ wait.by >= Expired

Registered ==
    /\ state # "Connected" => \A p \in Probes : ids[p] = None
    /\ state = "Connected" /\ wait.kind # "Construct" => \E p \in Probes : ids[p] # None
    /\ phase = "idle" => state = "Disconnected"
    /\ phase = "init" => \A p \in Probes :
            /\ p \notin todo => ids[p] # None
            /\ p \in todo /\ ids[p] # None => p = wait.probe /\ wait.kind \in {"Construct", "Init"}
    /\ phase = "run" => \A p \in Probes : ids[p] # None
    /\ phase = "cleanup" => \A p \in Probes : p \in todo <=> ids[p] # None
    /\ wait.kind = "Init" => ids[wait.probe] # None
    /\ current = IF wait.kind = "Construct" /\ ids[wait.probe] = None THEN wait.probe ELSE None

Base == Types /\ Control /\ Registered

\* m_ids and m_objects are inverse to each other.
Inverses ==
    /\ \A p \in Probes : ids[p] # None => objects[ids[p]] = p
    /\ \A a \in Addresses : objects[a] # None => ids[objects[a]] = a

\* The first message of a channel, and what is behind it.
LEMMA FirstMessage ==
    ASSUME NEW S, NEW s \in Seq(S), NEW m \in {s[1] : i \in DOMAIN s}
    PROVE  /\ s # <<>> /\ m = s[1] /\ m = Head(s) /\ m \in S /\ 1 \in DOMAIN s
           /\ Tail(s) \in Seq(S) /\ Len(Tail(s)) = Len(s) - 1
           /\ \A i \in DOMAIN Tail(s) : i + 1 \in DOMAIN s /\ Tail(s)[i] = s[i + 1]
           /\ \A i \in DOMAIN s : i = 1 \/ (i - 1 \in DOMAIN Tail(s) /\ s[i] = Tail(s)[i - 1])
<1>1. m = s[1] /\ 1 \in DOMAIN s /\ s # <<>>
  <2>1. PICK i \in DOMAIN s : m = s[1]
    OBVIOUS
  <2> QED BY <2>1
<1>2. Len(s) \in Nat /\ Len(s) > 0 /\ DOMAIN s = 1..Len(s)
  BY <1>1
<1>3. Tail(s) \in Seq(S) /\ Len(Tail(s)) = Len(s) - 1 /\ m = Head(s) /\ m \in S
  BY <1>1, <1>2
<1>4. DOMAIN Tail(s) = 1..Len(s) - 1 /\ \A i \in 1..Len(s) - 1 : Tail(s)[i] = s[i + 1]
  BY <1>1, <1>2, <1>3
<1> QED BY <1>1, <1>2, <1>3, <1>4

\* A message that is appended to a channel is the last one.
LEMMA LastMessage ==
    ASSUME NEW S, NEW s \in Seq(S), NEW m \in S
    PROVE  /\ Append(s, m) \in Seq(S) /\ Len(Append(s, m)) = Len(s) + 1 /\ Len(s) \in Nat
           /\ DOMAIN Append(s, m) = DOMAIN s \cup {Len(s) + 1} /\ DOMAIN s = 1..Len(s)
           /\ Append(s, m)[Len(s) + 1] = m
           /\ \A i \in DOMAIN s : Append(s, m)[i] = s[i]
  OBVIOUS

\* The first messages of a channel.
LEMMA FirstMessages ==
    ASSUME NEW S, NEW s \in Seq(S), NEW n \in 0..Len(s)
    PROVE  /\ SubSeq(s, 1, n) \in Seq(S)
           /\ DOMAIN SubSeq(s, 1, n) = 1..n /\ 1..n \subseteq DOMAIN s
           /\ \A i \in 1..n : SubSeq(s, 1, n)[i] = s[i]
  OBVIOUS

\* One message, or two, behind those of a channel.
LEMMA MoreMessages ==
    ASSUME NEW S, NEW s \in Seq(S), NEW ms \in Seq(S)
    PROVE  /\ s \o ms \in Seq(S) /\ Len(s \o ms) = Len(s) + Len(ms)
           /\ DOMAIN s = 1..Len(s) /\ DOMAIN (s \o ms) = 1..Len(s) + Len(ms)
           /\ DOMAIN ms = 1..Len(ms) /\ Len(s) \in Nat /\ Len(ms) \in Nat
           /\ \A i \in DOMAIN s : (s \o ms)[i] = s[i]
           /\ \A i \in DOMAIN ms : (s \o ms)[Len(s) + i] = ms[i]
  OBVIOUS

\* A request that the host waits for has the types of requests and calls.
LEMMA AskTypes ==
    ASSUME Types, NEW kind \in Kinds \ {"Ping"}, NEW p \in Probes,
           NEW id \in Addresses \cup {0}, NEW arg \in Args, NEW slot \in BOOLEAN,
           Argument([kind |-> kind, arg |-> arg]),
           kind \in UserMessages \cup {"Destruct"} => id \in Addresses,
           Ask(kind, p, id, arg, slot)
    PROVE  /\ wait' \in Call /\ wait'.kind = kind /\ wait'.probe = p /\ wait'.arg = arg
           /\ wait'.nr = sent + 1 /\ wait'.by = Pending /\ wait'.slot = slot
           /\ sent' = sent + 1 /\ sent' \in Nat
           /\ Message(kind, id, arg, sent + 1) \in Request
           /\ toTarget' = Append(toTarget, Message(kind, id, arg, sent + 1))
           /\ toTarget' \in Seq(Request)
<1>1. sent + 1 \in Nat /\ sent + 1 # 0
  BY DEF Types, ChannelTypes
<1>2. /\ wait' = [kind |-> kind, probe |-> p, arg |-> arg, nr |-> sent + 1,
                  by |-> Pending, slot |-> slot]
      /\ toTarget' = Append(toTarget, Message(kind, id, arg, sent + 1)) /\ sent' = sent + 1
  BY DEF Ask
<1>3. wait' \in Call
  BY <1>1, <1>2 DEF Call, Argument, Pending
<1>4. Message(kind, id, arg, sent + 1) \in Request
  BY <1>1 DEF Message, Request, Argument
<1> QED BY <1>1, <1>2, <1>3, <1>4 DEF Types, ChannelTypes

\* The event that ends a wait changes no more than who ended it.
LEMMA EndsWaitTypes ==
    ASSUME Types, NEW n \in Int, wait' = [wait EXCEPT !.by = n]
    PROVE  /\ wait' \in Call /\ wait'.by = n /\ wait'.kind = wait.kind /\ wait'.probe = wait.probe
           /\ wait'.arg = wait.arg /\ wait'.nr = wait.nr /\ wait'.slot = wait.slot
  BY DEF Types, HostTypes, Call, Argument

\* An answer that arrives does as much, or nothing.
LEMMA AnsweredTypes ==
    ASSUME Types, NEW m \in Reply, Answered(m)
    PROVE  /\ wait' \in Call /\ wait'.kind = wait.kind /\ wait'.probe = wait.probe
           /\ wait'.arg = wait.arg /\ wait'.nr = wait.nr /\ wait'.slot = wait.slot
           /\ wait'.by = IF wait # NoWait /\ wait.by = Pending /\ m.nr # 0 THEN m.nr ELSE wait.by
<1>1. m.nr \in Int
  BY DEF Reply
<1>2. CASE wait # NoWait /\ wait.by = Pending /\ m.nr # 0
  <2>1. wait' = [wait EXCEPT !.by = m.nr]
    BY <1>2 DEF Answered, EndsWait
  <2> QED BY <1>1, <1>2, <2>1, EndsWaitTypes
<1>3. CASE ~(wait # NoWait /\ wait.by = Pending /\ m.nr # 0)
  <2>1. wait' = wait
    BY <1>3 DEF Answered, EndsWait
  <2> QED BY <1>3, <2>1 DEF Types, HostTypes
<1> QED BY <1>2, <1>3

\* No call is in progress.
LEMMA NoWaitTypes ==
    /\ NoWait \in Call /\ NoWait.kind = "none" /\ NoWait.nr = 0 /\ NoWait.by = Pending
    /\ NoWait.probe = None /\ NoWait.slot = FALSE
  BY DEF NoWait, Call, Argument, Args, Pending

\* The steps of the host that ask for something have the types of the host.
LEMMA HostAsksTypes ==
    ASSUME Base,
           \/ \E p \in Probes : ConnectToTarget(p) \/ Register(p) \/ SetProperty(p) \/ Unregister(p)
           \/ ConnectReturns \/ ConstructReturns
    PROVE  /\ wait' \in Call /\ toTarget' \in Seq(Request) /\ sent' \in Nat
           /\ pin' \in [Probes -> Pin] /\ current' \in Probes \cup {None}
<1> USE DEF Base, Types, HostTypes, ChannelTypes
<1>1. CASE \E p \in Probes : ConnectToTarget(p)
  <2>1. PICK p \in Probes : ConnectToTarget(p)
    BY <1>1
  <2>2. CASE Ask("Connect", p, 0, None, FALSE)
    BY <2>1, <2>2, AskTypes DEF ConnectToTarget, Kinds, UserMessages, Args, Argument, registry
  <2>3. CASE UNCHANGED <<state, toTarget, sent, wait, retries>>
    BY <2>1, <2>3 DEF ConnectToTarget, registry
  <2> QED BY <2>1, <2>2, <2>3 DEF ConnectToTarget
<1>2. CASE \E p \in Probes : Register(p)
  BY <1>2, AskTypes DEF Register, AskConstruct, Kinds, UserMessages, Args, Argument
<1>3. CASE \E p \in Probes : SetProperty(p)
  <2>1. PICK p \in Probes : SetProperty(p)
    BY <1>3
  <2>2. ids[p] \in Addresses /\ pin[p] \in Pin
    BY <2>1 DEF SetProperty, Registered
  <2>3. CASE \E v \in Levels : Ask("ChangeValue", p, ids[p], v, FALSE) /\ UNCHANGED pin
    BY <2>1, <2>2, <2>3, AskTypes DEF SetProperty, Kinds, UserMessages, Args, Argument, Values, registry
  <2>4. CASE \E o \in BOOLEAN : pin' = [pin EXCEPT ![p].out = o] /\ Ask("ChangeType", p, ids[p], o, FALSE)
    <3>1. PICK o \in BOOLEAN : pin' = [pin EXCEPT ![p].out = o] /\ Ask("ChangeType", p, ids[p], o, FALSE)
      BY <2>4
    <3>2. pin' \in [Probes -> Pin]
      BY <3>1, <2>2 DEF Pin
    <3> QED BY <2>1, <2>2, <3>1, <3>2, AskTypes DEF SetProperty, Kinds, UserMessages, Args, Argument, registry
  <2>5. CASE \E i \in Ioids : pin' = [pin EXCEPT ![p].ioid = i] /\ Ask("ChangeIoid", p, ids[p], i, FALSE)
    <3>1. PICK i \in Ioids : pin' = [pin EXCEPT ![p].ioid = i] /\ Ask("ChangeIoid", p, ids[p], i, FALSE)
      BY <2>5
    <3>2. pin' \in [Probes -> Pin]
      BY <3>1, <2>2 DEF Pin
    <3> QED BY <2>1, <2>2, <3>1, <3>2, AskTypes DEF SetProperty, Kinds, UserMessages, Args, Argument, registry
  <2>6. CASE Ask("ChangePullMode", p, ids[p], None, FALSE) /\ UNCHANGED pin
    BY <2>1, <2>2, <2>6, AskTypes DEF SetProperty, Kinds, UserMessages, Args, Argument, registry
  <2> QED BY <2>1, <2>3, <2>4, <2>5, <2>6 DEF SetProperty
<1>4. CASE \E p \in Probes : Unregister(p)
  <2>1. PICK p \in Probes : Unregister(p)
    BY <1>4
  <2>2. ids[p] \in Addresses
    BY <2>1 DEF Unregister, Registered
  <2> QED BY <2>1, <2>2, AskTypes DEF Unregister, Kinds, UserMessages, Args, Argument, registry
<1>5. CASE ConnectReturns
  <2>1. wait.probe \in Probes
    BY <1>5 DEF ConnectReturns, Returned, Call
  <2>2. CASE AskConstruct(wait.probe)
    BY <1>5, <2>1, <2>2, AskTypes DEF ConnectReturns, AskConstruct, Kinds, UserMessages, Args, Argument
  <2>3. CASE Ask("Connect", wait.probe, 0, None, FALSE) /\ UNCHANGED current
    BY <1>5, <2>1, <2>3, AskTypes DEF ConnectReturns, Kinds, UserMessages, Args, Argument
  <2>4. CASE UNCHANGED <<current, wait, toTarget, sent>>
    BY <1>5, <2>4 DEF ConnectReturns
  <2> QED BY <1>5, <2>2, <2>3, <2>4 DEF ConnectReturns
<1>6. CASE ConstructReturns
  <2>1. wait.probe \in Probes
    BY <1>6 DEF ConstructReturns, Returned, Call
  <2>2. ids[wait.probe] \in Addresses \cup {None} /\ pin[wait.probe] \in Pin
    BY <2>1
  <2>3. CASE ids[wait.probe] # None /\ Ask("Init", wait.probe, ids[wait.probe], pin[wait.probe], FALSE)
    BY <1>6, <2>1, <2>2, <2>3, AskTypes DEF ConstructReturns, Kinds, UserMessages, Args, Argument, registry
  <2>4. CASE UNCHANGED <<wait, toTarget, sent>>
    BY <1>6, <2>4 DEF ConstructReturns, registry
  <2> QED BY <1>6, <2>3, <2>4 DEF ConstructReturns
<1> QED BY <1>1, <1>2, <1>3, <1>4, <1>5, <1>6

\* The configurations of a test case are pins.
LEMMA ConfigsTypes == \A c \in Configs : c \in [Probes -> Pin]
<1>1. \A r \in [ioid : Ioids, out : BOOLEAN, value : Levels \cup {Undefined}] : r \in Pin
  BY DEF Pin, Values
<1>2. \A c \in Configs : c \in [Probes -> [ioid : Ioids, out : BOOLEAN, value : Levels \cup {Undefined}]]
  BY LinkAssumption
<1> QED BY <1>1, <1>2

\* Everything has its type when qst and the firmware start.
LEMMA TypesInit == Init => Types
<1> SUFFICES ASSUME Init PROVE Types
  OBVIOUS
<1>1. HostTypes
  <2>1. pin \in [Probes -> Pin] /\ wait \in Call
    BY ConfigsTypes, NoWaitTypes DEF Init
  <2>2. objects \in [Addresses -> Probes \cup {None}] /\ ids \in [Probes -> Addresses \cup {None}]
    BY DEF Init, Unregistered
  <2>3. /\ state \in {"Disconnected", "Standby", "Connected"} /\ current \in Probes \cup {None}
        /\ phase \in {"idle", "init", "run", "cleanup"} /\ todo \subseteq Probes
        /\ outcome \in {"running", "noProbe", "noResponse", "conflict", "lost", "assertion",
                       "unknownObject", "killed"}
    BY DEF Init
  <2>4. unanswered \in 0..3 /\ retries \in 0..1
    BY DEF Init
  <2>5. pinging \in BOOLEAN
    BY DEF Init
  <2> QED BY <2>1, <2>2, <2>3, <2>4, <2>5 DEF HostTypes
<1>2. TargetTypes
  <2>1. obj \in [Addresses -> {Dead} \cup Object] /\ instances \in [Ioids -> Addresses \cup {None}]
    BY DEF Init
  <2>2. slots \in Seq(Addresses \cup {None})
    BY DEF Init
  <2> QED BY <2>1, <2>2 DEF Init, TargetTypes
<1>3. ChannelTypes
  BY DEF Init, ChannelTypes
<1> QED BY <1>1, <1>2, <1>3 DEF Types

\* The types of the values that a probe gets.
LEMMA PinTypes ==
    ASSUME Types, NEW p \in Probes, NEW v \in Values
    PROVE  [pin EXCEPT ![p].value = v] \in [Probes -> Pin]
           /\ [pin EXCEPT ![p].value = v][p] = [pin[p] EXCEPT !.value = v]
           /\ [pin EXCEPT ![p].value = v][p].value = v
           /\ [pin EXCEPT ![p].value = v][p].ioid = pin[p].ioid
           /\ [pin EXCEPT ![p].value = v][p].out = pin[p].out
           /\ \A q \in Probes \ {p} : [pin EXCEPT ![p].value = v][q] = pin[q]
<1>1. pin \in [Probes -> Pin] /\ pin[p] \in Pin
  BY DEF Types, HostTypes
<1>2. [pin[p] EXCEPT !.value = v] \in Pin
  BY <1>1 DEF Pin
<1> QED BY <1>1, <1>2 DEF Pin

\* The steps of the test function and of the timers have the types of the host.
LEMMA HostMovesTypes ==
    ASSUME Types,
           \/ Killed \/ Restart \/ BeginTestCase \/ NextPhase
           \/ RequestReturns \/ DestructReturns \/ OnPingTimerTick \/ RequestTimeout
    PROVE  /\ wait' \in Call /\ toTarget' \in Seq(Request) /\ toHost' \in Seq(Reply)
           /\ sent' \in Nat /\ pin' \in [Probes -> Pin] /\ current' \in Probes \cup {None}
           /\ objects' \in [Addresses -> Probes \cup {None}]
           /\ ids' \in [Probes -> Addresses \cup {None}] /\ unanswered' \in 0..3
<1> USE DEF Types, HostTypes, ChannelTypes
<1>1. CASE Killed \/ NextPhase
  BY <1>1 DEF Killed, NextPhase, registry, history
<1>2. CASE Restart
  BY <1>2, NoWaitTypes DEF Restart, Unregistered
<1>3. CASE BeginTestCase
  BY <1>3, ConfigsTypes DEF BeginTestCase, registry
<1>4. CASE RequestReturns
  <2>1. wait.probe \in Probes /\ (wait.kind = "ChangeValue" => wait.arg \in Values)
    BY <1>4 DEF RequestReturns, Returned, Call, Argument
  <2>2. wait.kind = "ChangeValue" => [pin EXCEPT ![wait.probe].value = wait.arg] \in [Probes -> Pin]
    BY <2>1, PinTypes
  <2> QED BY <1>4, <2>2, NoWaitTypes DEF RequestReturns, registry, history
<1>5. CASE DestructReturns
  <2>1. wait.probe \in Probes
    BY <1>5 DEF DestructReturns, Returned, Call
  <2>2. CASE Exit("noResponse") /\ UNCHANGED <<objects, ids, todo, wait, state, pinging, toHost, lostPings>>
    BY <1>5, <2>2 DEF DestructReturns
  <2>3. CASE /\ objects' = [objects EXCEPT ![ids[wait.probe]] = None]
             /\ ids' = [ids EXCEPT ![wait.probe] = None] /\ wait' = NoWait
             /\ toHost' \in {toHost, <<>>}
    <3>1. ids' \in [Probes -> Addresses \cup {None}] /\ objects' \in [Addresses -> Probes \cup {None}]
      BY <2>3
    <3>2. wait' \in Call
      BY <2>3, NoWaitTypes
    <3>3. toHost \in Seq(Reply) /\ <<>> \in Seq(Reply)
      OBVIOUS
    <3>4. toHost' \in Seq(Reply)
      BY <2>3, <3>3
    <3> QED BY <1>5, <3>1, <3>2, <3>4 DEF DestructReturns
  <2> QED BY <1>5, <2>2, <2>3 DEF DestructReturns
<1>6. CASE OnPingTimerTick
  <2>1. Message("Ping", 0, None, 0) \in Request
    BY DEF Message, Request, Kinds, UserMessages, Args, Argument
  <2>2. toTarget' \in Seq(Request)
    BY <1>6, <2>1 DEF OnPingTimerTick
  <2>3. unanswered' \in 0..3
    BY <1>6 DEF OnPingTimerTick, MaxUnanswered
  <2> QED BY <1>6, <2>2, <2>3 DEF OnPingTimerTick, registry
<1>7. CASE RequestTimeout
  <2>1. Expired \in Int
    BY DEF Expired
  <2>2. wait' = [wait EXCEPT !.by = Expired]
    BY <1>7 DEF RequestTimeout
  <2>3. wait' \in Call
    BY <2>1, <2>2, EndsWaitTypes
  <2> QED BY <1>7, <2>3 DEF RequestTimeout, registry
<1> QED BY <1>1, <1>2, <1>3, <1>4, <1>5, <1>6, <1>7

\* What is read from the target has the types of the host.
LEMMA ReceiveTypes ==
    ASSUME Base, ReceiveAnswer \/ ReceiveChange
    PROVE  /\ wait' \in Call /\ toTarget' \in Seq(Request) /\ toHost' \in Seq(Reply)
           /\ sent' \in Nat /\ pin' \in [Probes -> Pin] /\ current' \in Probes \cup {None}
           /\ objects' \in [Addresses -> Probes \cup {None}]
           /\ ids' \in [Probes -> Addresses \cup {None}] /\ unanswered' \in 0..3
<1> USE DEF Base, Types, HostTypes, ChannelTypes
<1>1. CASE ReceiveAnswer
  <2>1. PICK m \in {toHost[1] : i \in DOMAIN toHost} :
            /\ Next1(m) /\ Answered(m)
            /\ \/ m.kind = "StatusOk" /\ UNCHANGED <<registry, unanswered, outcome>>
               \/ Exit("assertion") /\ UNCHANGED <<registry, unanswered>>
               \/ /\ m.kind = "ObjectId" /\ current # None
                  /\ objects' = [objects EXCEPT ![m.id] = current]
                  /\ ids' = [ids EXCEPT ![current] = m.id] /\ current' = None
                  /\ UNCHANGED <<unanswered, outcome>>
               \/ m.kind = "Pong" /\ unanswered > 0 /\ unanswered' = unanswered - 1
                  /\ UNCHANGED <<registry, outcome>>
    BY <1>1 DEF ReceiveAnswer
  <2>2. m \in Reply /\ Tail(toHost) \in Seq(Reply)
    BY FirstMessage
  <2>3. wait' \in Call
    BY <2>1, <2>2, AnsweredTypes
  <2>4. m.kind = "ObjectId" => m.id \in Addresses
    BY <2>2 DEF Reply
  <2>5. UNCHANGED <<pin, toTarget, sent>> /\ toHost' = Tail(toHost)
    BY <1>1, <2>1 DEF ReceiveAnswer, history, Next1
  <2>6. CASE UNCHANGED <<objects, ids, current, unanswered>>
    BY <2>2, <2>3, <2>5, <2>6
  <2>7. CASE m.kind = "Pong" /\ unanswered > 0 /\ unanswered' = unanswered - 1 /\ UNCHANGED registry
    BY <2>2, <2>3, <2>5, <2>7 DEF registry
  <2>8. CASE /\ m.kind = "ObjectId" /\ current # None
             /\ objects' = [objects EXCEPT ![m.id] = current]
             /\ ids' = [ids EXCEPT ![current] = m.id] /\ current' = None /\ UNCHANGED unanswered
    <3>1. /\ objects' \in [Addresses -> Probes \cup {None}]
          /\ ids' \in [Probes -> Addresses \cup {None}]
      BY <2>4, <2>8
    <3> QED BY <2>2, <2>3, <2>5, <2>8, <3>1
  <2> QED BY <2>1, <2>6, <2>7, <2>8 DEF registry
<1>2. CASE ReceiveChange
  <2>1. PICK m \in {toHost[1] : i \in DOMAIN toHost} :
            LET p == objects[m.id] IN
            /\ Next1(m) /\ m.kind = "ChangeValue"
            /\ \/ UNCHANGED <<pin, wait, toTarget, sent>>
               \/ /\ p # None /\ pin' = [pin EXCEPT ![p].value = m.arg]
                  /\ UNCHANGED <<wait, toTarget, sent>>
               \/ /\ p # None /\ phase = "run"
                  /\ \E q \in Probes, v \in Levels :
                        LET seen == [pin EXCEPT ![p].value = m.arg] IN
                        \/ Ask("ChangeValue", q, ids[q], v, TRUE) /\ pin' = seen
                        \/ /\ toTarget' = Append(toTarget, Message("ChangeValue", ids[q], v, sent + 1))
                           /\ UNCHANGED wait
                           /\ sent' = sent + 1 /\ pin' = [seen EXCEPT ![q].value = v]
    BY ZenonT(40), <1>2 DEF ReceiveChange
  <2>2. m \in Reply /\ Tail(toHost) \in Seq(Reply)
    BY FirstMessage
  <2>3. m.id \in Addresses /\ m.arg \in Values
    BY <2>1, <2>2 DEF Reply
  <2>4. UNCHANGED <<objects, ids, current, unanswered>> /\ toHost' = Tail(toHost)
    BY <1>2, <2>1 DEF ReceiveChange, registry, Next1
  <2> DEFINE p == objects[m.id]
             seen == [pin EXCEPT ![p].value = m.arg]
  <2>5. p # None => p \in Probes /\ seen \in [Probes -> Pin]
    BY <2>3, PinTypes
  <2> HIDE DEF seen, p
  <2>6. CASE UNCHANGED <<pin, wait, toTarget, sent>>
    BY <2>2, <2>4, <2>6
  <2>7. CASE p # None /\ pin' = seen /\ UNCHANGED <<wait, toTarget, sent>>
    BY <2>2, <2>4, <2>5, <2>7
  <2>8. ASSUME p # None, phase = "run", NEW q \in Probes, NEW v \in Levels,
               Ask("ChangeValue", q, ids[q], v, TRUE) /\ pin' = seen
        PROVE  wait' \in Call /\ toTarget' \in Seq(Request) /\ sent' \in Nat /\ pin' \in [Probes -> Pin]
    <3>1. ids[q] \in Addresses
      BY <2>8 DEF Registered
    <3> QED BY <2>5, <2>8, <3>1, AskTypes DEF Kinds, UserMessages, Args, Argument, Values
  <2>9. ASSUME p # None, phase = "run", NEW q \in Probes, NEW v \in Levels,
               toTarget' = Append(toTarget, Message("ChangeValue", ids[q], v, sent + 1)),
               sent' = sent + 1, pin' = [seen EXCEPT ![q].value = v]
        PROVE  toTarget' \in Seq(Request) /\ sent' \in Nat /\ pin' \in [Probes -> Pin]
    <3>0. v \in Values /\ seen[q] \in Pin /\ seen \in [Probes -> Pin]
      BY <2>5, <2>9 DEF Values
    <3>1. [seen[q] EXCEPT !.value = v] \in Pin
      BY <3>0 DEF Pin
    <3>2. pin' \in [Probes -> Pin]
      BY <2>9, <3>0, <3>1
    <3>3. ids[q] \in Addresses
      BY <2>9 DEF Registered
    <3>4. Message("ChangeValue", ids[q], v, sent + 1) \in Request
      BY <3>3 DEF Message, Request, Kinds, UserMessages, Args, Argument, Values
    <3> QED BY <2>9, <3>2, <3>4
  <2>10. CASE p # None /\ phase = "run" /\ \E q \in Probes, v \in Levels :
                \/ Ask("ChangeValue", q, ids[q], v, TRUE) /\ pin' = seen
                \/ /\ toTarget' = Append(toTarget, Message("ChangeValue", ids[q], v, sent + 1))
                   /\ UNCHANGED wait
                   /\ sent' = sent + 1 /\ pin' = [seen EXCEPT ![q].value = v]
    BY <2>2, <2>4, <2>8, <2>9, <2>10
  <2> QED BY <2>1, <2>6, <2>7, <2>10 DEF p, seen
<1> QED BY <1>1, <1>2

-----------------------------------------------------------------------------
(* Counting the messages of a kind in a channel.                           *)

\* The number of messages of a kind is a number, and positive if there is one.
LEMMA CountType ==
    ASSUME NEW S, NEW ms \in Seq(S), NEW kind
    PROVE  /\ IsFiniteSet({i \in DOMAIN ms : ms[i].kind = kind})
           /\ Count(kind, ms) \in Nat
           /\ Count(kind, ms) = 0 <=> \A i \in DOMAIN ms : ms[i].kind # kind
<1>1. DOMAIN ms = 1..Len(ms) /\ Len(ms) \in Nat
  OBVIOUS
<1>2. IsFiniteSet(1..Len(ms))
  BY <1>1, FS_Interval
<1>3. IsFiniteSet({i \in DOMAIN ms : ms[i].kind = kind})
  BY <1>1, <1>2, FS_Subset
<1>4. Cardinality({i \in DOMAIN ms : ms[i].kind = kind}) \in Nat
  BY <1>3, FS_CardinalityType
<1>5. Cardinality({i \in DOMAIN ms : ms[i].kind = kind}) = 0 <=> {i \in DOMAIN ms : ms[i].kind = kind} = {}
  BY <1>3, FS_EmptySet
<1> QED BY <1>3, <1>4, <1>5 DEF Count

\* There is no message in an empty channel.
LEMMA CountOfNone == \A kind : Count(kind, <<>>) = 0
<1> TAKE kind
<1>1. {i \in DOMAIN <<>> : <<>>[i].kind = kind} = {}
  OBVIOUS
<1> QED BY <1>1, FS_EmptySet DEF Count

\* The messages of two channels that are put together are those of both.
LEMMA CountConcat ==
    ASSUME NEW S, NEW ms \in Seq(S), NEW ns \in Seq(S), NEW kind
    PROVE  Count(kind, ms \o ns) = Count(kind, ms) + Count(kind, ns)
<1> DEFINE n == Len(ms)
           a == {i \in DOMAIN ms : ms[i].kind = kind}
           b == {i \in DOMAIN ns : ns[i].kind = kind}
           c == {i \in DOMAIN (ms \o ns) : (ms \o ns)[i].kind = kind}
           rest == c \ a
<1>1. /\ n \in Nat /\ DOMAIN ms = 1..n /\ Len(ns) \in Nat /\ DOMAIN ns = 1..Len(ns)
      /\ DOMAIN (ms \o ns) = 1..n + Len(ns)
      /\ \A i \in 1..n : (ms \o ns)[i] = ms[i]
      /\ \A i \in 1..Len(ns) : (ms \o ns)[n + i] = ns[i]
  BY MoreMessages
<1>2. IsFiniteSet(a) /\ IsFiniteSet(b) /\ Cardinality(a) \in Nat /\ Cardinality(b) \in Nat
  BY CountType DEF Count
<1>3. a \subseteq 1..n /\ b \subseteq 1..Len(ns)
  BY <1>1
<1>4. \A i \in 1..n : i \in c <=> i \in a
  BY <1>1
<1>5. \A i \in 1..Len(ns) : n + i \in c <=> i \in b
  BY <1>1
<1>6. c \subseteq 1..n + Len(ns)
  BY <1>1
<1>7. Len(ns) \in Nat
  BY <1>1
<1> HIDE DEF a, b, c, n
<1>8. \A i \in b : n + i \in rest
  BY <1>1, <1>3, <1>5
<1>9. \A k \in rest : k - n \in b /\ n + (k - n) = k
  <2> TAKE k \in rest
  <2>1. k \in c /\ k \notin a /\ k \in 1..n + Len(ns)
    BY <1>6
  <2>2. k \notin 1..n
    BY <1>4, <2>1
  <2>3. k - n \in 1..Len(ns) /\ n + (k - n) = k
    BY <1>1, <1>7, <2>1, <2>2
  <2> QED BY <1>5, <2>1, <2>3
<1>10. rest \cap a = {} /\ c = rest \cup a
  BY <1>3, <1>4
<1>11. ExistsBijection(b, rest)
  <2> DEFINE shift == [i \in b |-> n + i]
  <2> HIDE DEF rest
  <2>1. shift \in [b -> rest]
    BY <1>8
  <2>2. \A i, j \in b : shift[i] = shift[j] => i = j
    BY <1>1, <1>3
  <2>3. \A k \in rest : \E i \in b : shift[i] = k
    BY <1>9
  <2>4. shift \in Bijection(b, rest)
    BY <2>1, <2>2, <2>3 DEF Bijection, Injection, Surjection, IsInjective
  <2> QED BY <2>4 DEF ExistsBijection
<1> HIDE DEF rest
<1>12. IsFiniteSet(rest) /\ Cardinality(rest) = Cardinality(b)
  BY <1>2, <1>11, FS_Bijection
<1>13. Cardinality(rest \cup a) = Cardinality(rest) + Cardinality(a)
  <2>1. Cardinality(rest \cup a) = Cardinality(rest) + Cardinality(a) - Cardinality(rest \cap a)
    BY <1>2, <1>12, FS_Union
  <2>2. Cardinality(rest \cap a) = 0
    BY <1>10, FS_EmptySet
  <2> QED BY <1>2, <1>12, <2>1, <2>2
<1>14. Cardinality(c) = Cardinality(a) + Cardinality(b)
  BY <1>2, <1>10, <1>12, <1>13
<1> QED BY <1>14 DEF Count, a, b, c

\* A single message counts once, for its kind.
LEMMA CountOfOne ==
    ASSUME NEW m, NEW kind
    PROVE  Count(kind, <<m>>) = IF m.kind = kind THEN 1 ELSE 0
<1>1. CASE m.kind = kind
  <2>1. {i \in DOMAIN <<m>> : <<m>>[i].kind = kind} = {1}
    BY <1>1
  <2> QED BY <1>1, <2>1, FS_Singleton DEF Count
<1>2. CASE m.kind # kind
  <2>1. {i \in DOMAIN <<m>> : <<m>>[i].kind = kind} = {}
    BY <1>2
  <2> QED BY <1>2, <2>1, FS_EmptySet DEF Count
<1> QED BY <1>1, <1>2

\* Sequences of the same length with the same elements are the same.
LEMMA SameMessages ==
    ASSUME NEW S, NEW s \in Seq(S), NEW t \in Seq(S), Len(s) = Len(t),
           \A i \in 1..Len(s) : s[i] = t[i]
    PROVE  s = t
<1>1. s \in [1..Len(s) -> S] /\ t \in [1..Len(s) -> S]
  OBVIOUS
<1> QED BY <1>1

\* A message at the end of a channel, or at its head.
LEMMA CountAppend ==
    ASSUME NEW S, NEW ms \in Seq(S), NEW m \in S, NEW kind
    PROVE  Count(kind, Append(ms, m)) = Count(kind, ms) + (IF m.kind = kind THEN 1 ELSE 0)
<1>1. Append(ms, m) = ms \o <<m>> /\ <<m>> \in Seq(S)
  <2>1. /\ Append(ms, m) \in Seq(S) /\ ms \o <<m>> \in Seq(S) /\ <<m>> \in Seq(S)
        /\ Len(Append(ms, m)) = Len(ms) + 1 /\ Len(ms \o <<m>>) = Len(ms) + 1 /\ Len(ms) \in Nat
    OBVIOUS
  <2>2. \A i \in 1..Len(ms) + 1 : Append(ms, m)[i] = (ms \o <<m>>)[i]
    OBVIOUS
  <2> QED BY <2>1, <2>2, SameMessages
<1>2. Count(kind, ms \o <<m>>) = Count(kind, ms) + Count(kind, <<m>>)
  BY <1>1, CountConcat
<1>3. Count(kind, Append(ms, m)) = Count(kind, ms \o <<m>>)
  BY <1>1
<1> QED BY <1>2, <1>3, CountOfOne

\* The message at the head of a channel is counted apart from the others.
LEMMA CountTail ==
    ASSUME NEW S, NEW ms \in Seq(S), ms # <<>>, NEW kind
    PROVE  /\ Count(kind, ms) = Count(kind, Tail(ms)) + (IF Head(ms).kind = kind THEN 1 ELSE 0)
           /\ Count(kind, Tail(ms)) \in Nat
<1>1. ms = <<Head(ms)>> \o Tail(ms) /\ Tail(ms) \in Seq(S) /\ <<Head(ms)>> \in Seq(S)
  <2>1. /\ Tail(ms) \in Seq(S) /\ <<Head(ms)>> \in Seq(S) /\ Len(ms) \in Nat
        /\ <<Head(ms)>> \o Tail(ms) \in Seq(S) /\ Len(<<Head(ms)>> \o Tail(ms)) = Len(ms)
    OBVIOUS
  <2>2. \A i \in 1..Len(ms) : (<<Head(ms)>> \o Tail(ms))[i] = ms[i]
    OBVIOUS
  <2> QED BY <2>1, <2>2, SameMessages
<1>2. Count(kind, ms) = Count(kind, <<Head(ms)>>) + Count(kind, Tail(ms))
  BY <1>1, CountConcat
<1>3. Count(kind, Tail(ms)) \in Nat
  BY <1>1, CountType
<1> QED BY <1>2, <1>3, CountOfOne

\* A channel is cut in two.
LEMMA CountCut ==
    ASSUME NEW S, NEW ms \in Seq(S), NEW n \in 0..Len(ms), NEW kind
    PROVE  /\ Count(kind, ms) = Count(kind, SubSeq(ms, 1, n)) + Count(kind, SubSeq(ms, n + 1, Len(ms)))
           /\ Count(kind, SubSeq(ms, 1, n)) \in Nat
           /\ Count(kind, SubSeq(ms, n + 1, Len(ms))) \in Nat
<1> DEFINE s == SubSeq(ms, 1, n)
           t == SubSeq(ms, n + 1, Len(ms))
<1>1. /\ Len(ms) \in Nat /\ s \in Seq(S) /\ t \in Seq(S) /\ Len(s) = n /\ Len(t) = Len(ms) - n
      /\ \A i \in 1..n : s[i] = ms[i]
  OBVIOUS
<1>2. \A i \in 1..Len(ms) - n : t[i] = ms[n + i]
  OBVIOUS
<1> HIDE DEF s, t
<1>3. s \o t \in Seq(S) /\ Len(s \o t) = Len(ms) /\ \A i \in 1..Len(ms) : (s \o t)[i] = ms[i]
  <2>1. s \o t \in Seq(S) /\ Len(s \o t) = Len(ms)
    BY <1>1
  <2>2. \A i \in 1..n : (s \o t)[i] = ms[i]
    BY <1>1
  <2>3. ASSUME NEW i \in 1..Len(ms), i \notin 1..n
        PROVE  (s \o t)[i] = ms[i]
    <3>1. i - n \in 1..Len(ms) - n /\ n + (i - n) = i
      BY <1>1, <2>3
    <3>2. t[i - n] = ms[i]
      BY <1>2, <3>1
    <3>3. (s \o t)[i] = t[i - n]
      BY <1>1, <2>3, <3>1
    <3> QED BY <3>2, <3>3
  <2> QED BY <2>1, <2>2, <2>3
<1>4. ms = s \o t
  BY <1>1, <1>3, SameMessages
<1>5. Count(kind, ms) = Count(kind, s) + Count(kind, t)
  BY <1>1, <1>4, CountConcat
<1>6. Count(kind, s) \in Nat /\ Count(kind, t) \in Nat
  BY <1>1, CountType
<1> QED BY <1>5, <1>6 DEF s, t

\* A step of the target leaves the host alone.
LEMMA TargetLeavesHost ==
    ASSUME TargetStep \/ (\E i \in Ioids : PinEvent(i)) \/ CheckConnection \/ Watchdog
    PROVE  UNCHANGED <<host, sent, irregular>>
<1>1. CASE TargetStep
  BY <1>1 DEF TargetStep, NotConnected, TargetConnect, TargetConstruct, TargetDestruct, TargetPing,
              TargetInit, TargetSetter, TargetSetIoid
<1>2. CASE \E i \in Ioids : PinEvent(i)
  BY <1>2 DEF PinEvent
<1>3. CASE CheckConnection \/ Watchdog
  BY <1>3 DEF CheckConnection, Watchdog
<1> QED BY <1>1, <1>2, <1>3

\* Nothing is registered, and nothing is asked for, when qst starts.
LEMMA ControlInit == Init => Control /\ Registered
<1> SUFFICES ASSUME Init PROVE Control /\ Registered
  OBVIOUS
<1>1. wait = NoWait /\ state = "Disconnected" /\ phase = "idle" /\ current = None /\ sent = 0
      /\ \A p \in Probes : ids[p] = None
  BY DEF Init
<1>2. Control
  BY <1>1 DEF Control, NoWait, Setters, Pending, Expired
<1>3. Registered
  BY <1>1 DEF Registered, NoWait
<1> QED BY <1>2, <1>3

\* What the controls are made of.
controls == <<wait, phase, todo, state, ids, current>>

\* The requests of initTestCase(), of the test function and of cleanupTestCase().
LEMMA ControlAsks ==
    ASSUME Base,
           \/ \E p \in Probes : ConnectToTarget(p) \/ Register(p) \/ SetProperty(p) \/ Unregister(p)
           \/ ConnectReturns \/ ConstructReturns
    PROVE  Control' /\ Registered'
<1> USE DEF Base
<1>0. sent \in Nat /\ wait \in Call
  BY DEF Types, HostTypes, ChannelTypes
<1>1. ASSUME NEW p \in Probes, ConnectToTarget(p)
      PROVE  Control' /\ Registered'
  <2>1. /\ wait = NoWait /\ phase = "init" /\ p \in todo /\ state = "Disconnected"
        /\ UNCHANGED <<objects, ids, current, phase, todo>>
    BY <1>1 DEF ConnectToTarget, Idle, registry
  <2>2. CASE state' = "Standby" /\ Ask("Connect", p, 0, None, FALSE)
    <3>1. wait' = [kind |-> "Connect", probe |-> p, arg |-> None, nr |-> sent + 1,
                   by |-> Pending, slot |-> FALSE] /\ sent' = sent + 1
      BY <2>2 DEF Ask
    <3>2. Control'
      BY <1>0, <2>1, <2>2, <3>1 DEF Control, Setters, Pending, Expired
    <3>3. Registered'
      BY <1>0, <2>1, <2>2, <3>1 DEF Registered, NoWait
    <3> QED BY <3>2, <3>3
  <2>3. CASE UNCHANGED <<state, toTarget, sent, wait, retries>>
    BY <2>1, <2>3 DEF Control, Registered
  <2> QED BY <1>1, <2>2, <2>3 DEF ConnectToTarget
<1>2. ASSUME NEW p \in Probes, Register(p)
      PROVE  Control' /\ Registered'
  <2>1. /\ wait = NoWait /\ phase = "init" /\ p \in todo /\ state = "Connected"
        /\ UNCHANGED <<objects, ids, phase, todo, state>> /\ current' = p
    BY <1>2 DEF Register, Idle, AskConstruct
  <2>2. wait' = [kind |-> "Construct", probe |-> p, arg |-> None, nr |-> sent + 1,
                 by |-> Pending, slot |-> FALSE] /\ sent' = sent + 1
    BY <1>2 DEF Register, AskConstruct, Ask
  <2>3. Control'
    BY <1>0, <2>1, <2>2 DEF Control, Setters, Pending, Expired
  <2>4. ids[p] = None
    BY <2>1 DEF Registered, NoWait
  <2>5. Registered'
    BY <1>0, <2>1, <2>2, <2>4 DEF Registered, NoWait
  <2> QED BY <2>3, <2>5
<1>3. ASSUME NEW p \in Probes, SetProperty(p)
      PROVE  Control' /\ Registered'
  <2>1. /\ wait = NoWait /\ phase = "run"
        /\ UNCHANGED <<objects, ids, current, phase, todo, state>>
    BY <1>3 DEF SetProperty, Idle, registry
  <2>2. PICK kind \in Setters : \E id : \E arg : Ask(kind, p, id, arg, FALSE)
    BY <1>3 DEF SetProperty, Setters
  <2>3. PICK id, arg : Ask(kind, p, id, arg, FALSE)
    BY <2>2
  <2>4. wait' = [kind |-> kind, probe |-> p, arg |-> arg, nr |-> sent + 1,
                 by |-> Pending, slot |-> FALSE] /\ sent' = sent + 1
    BY <2>3 DEF Ask
  <2>5. p \in Probes => state = "Connected"
    BY <2>1 DEF Registered
  <2>6. Control'
    BY <1>0, <2>1, <2>4, <2>5 DEF Control, Setters, Pending, Expired
  <2>7. Registered'
    BY <1>0, <2>1, <2>4 DEF Registered, NoWait, Setters
  <2> QED BY <2>6, <2>7
<1>4. ASSUME NEW p \in Probes, Unregister(p)
      PROVE  Control' /\ Registered'
  <2>1. /\ wait = NoWait /\ phase = "cleanup" /\ p \in todo
        /\ UNCHANGED <<objects, ids, current, phase, todo, state>>
    BY <1>4 DEF Unregister, Idle, registry
  <2>2. wait' = [kind |-> "Destruct", probe |-> p, arg |-> None, nr |-> sent + 1,
                 by |-> Pending, slot |-> FALSE] /\ sent' = sent + 1
    BY <1>4 DEF Unregister, Ask
  <2>3. state = "Connected"
    BY <2>1 DEF Registered
  <2>4. Control'
    BY <1>0, <2>1, <2>2, <2>3 DEF Control, Setters, Pending, Expired
  <2>5. Registered'
    BY <1>0, <2>1, <2>2 DEF Registered, NoWait
  <2> QED BY <2>4, <2>5
<1>5. ASSUME ConnectReturns
      PROVE  Control' /\ Registered'
  <2>1. /\ wait.kind = "Connect" /\ phase = "init" /\ wait.probe \in todo /\ state = "Standby"
        /\ UNCHANGED <<objects, ids, phase, todo>> /\ wait.probe \in Probes
    BY <1>0, <1>5 DEF ConnectReturns, Returned, Control, Call
  <2>2. (\A p \in Probes : ids[p] = None) /\ current = None
    BY <2>1 DEF Registered
  <2>3. CASE state' = "Connected" /\ AskConstruct(wait.probe)
    <3>1. wait' = [kind |-> "Construct", probe |-> wait.probe, arg |-> None, nr |-> sent + 1,
                   by |-> Pending, slot |-> FALSE] /\ sent' = sent + 1 /\ current' = wait.probe
      BY <2>3 DEF AskConstruct, Ask
    <3>2. Control'
      BY <1>0, <2>1, <2>3, <3>1 DEF Control, Setters, Pending, Expired
    <3>3. Registered'
      BY <1>0, <2>1, <2>2, <2>3, <3>1 DEF Registered, NoWait
    <3> QED BY <3>2, <3>3
  <2>4. CASE Ask("Connect", wait.probe, 0, None, FALSE) /\ UNCHANGED <<state, current>>
    <3>1. wait' = [kind |-> "Connect", probe |-> wait.probe, arg |-> None, nr |-> sent + 1,
                   by |-> Pending, slot |-> FALSE] /\ sent' = sent + 1
      BY <2>4 DEF Ask
    <3>2. Control'
      BY <1>0, <2>1, <2>4, <3>1 DEF Control, Setters, Pending, Expired
    <3>3. Registered'
      BY <1>0, <2>1, <2>2, <2>4, <3>1 DEF Registered, NoWait
    <3> QED BY <3>2, <3>3
  <2>5. CASE UNCHANGED <<state, current, wait, sent>>
    BY <2>1, <2>5 DEF Control, Registered
  <2> QED BY <1>5, <2>3, <2>4, <2>5 DEF ConnectReturns
<1>6. ASSUME ConstructReturns
      PROVE  Control' /\ Registered'
  <2>1. /\ wait.kind = "Construct" /\ phase = "init" /\ wait.probe \in todo /\ state = "Connected"
        /\ UNCHANGED <<objects, ids, phase, todo, state, current>> /\ wait.probe \in Probes
    BY <1>0, <1>6 DEF ConstructReturns, Returned, Control, Call, registry
  <2>2. CASE ids[wait.probe] # None /\ Ask("Init", wait.probe, ids[wait.probe], pin[wait.probe], FALSE)
    <3>1. wait' = [kind |-> "Init", probe |-> wait.probe, arg |-> pin[wait.probe], nr |-> sent + 1,
                   by |-> Pending, slot |-> FALSE] /\ sent' = sent + 1
      BY <2>2 DEF Ask
    <3>2. Control'
      BY <1>0, <2>1, <3>1 DEF Control, Setters, Pending, Expired
    <3>3. Registered'
      BY <1>0, <2>1, <2>2, <3>1 DEF Registered, NoWait
    <3> QED BY <3>2, <3>3
  <2>3. CASE UNCHANGED <<wait, sent>>
    BY <2>1, <2>3 DEF Control, Registered
  <2> QED BY <1>6, <2>2, <2>3 DEF ConstructReturns
<1> QED BY <1>1, <1>2, <1>3, <1>4, <1>5, <1>6

\* The phases of a test case, the ends of its waits, and what arrives meanwhile.
LEMMA ControlMoves ==
    ASSUME Base, Inverses,
           \/ Killed \/ Restart \/ BeginTestCase \/ NextPhase \/ RequestReturns \/ DestructReturns
           \/ OnPingTimerTick \/ RequestTimeout \/ ReceiveAnswer \/ ReceiveChange
    PROVE  Control' /\ Registered'
<1> USE DEF Base
<1>0. sent \in Nat /\ wait \in Call /\ ids \in [Probes -> Addresses \cup {None}]
      /\ current \in Probes \cup {None} /\ phase \in {"idle", "init", "run", "cleanup"}
  BY DEF Types, HostTypes, ChannelTypes
<1>1. CASE Killed \/ OnPingTimerTick
  <2>1. UNCHANGED <<controls, sent>>
    BY <1>1 DEF Killed, OnPingTimerTick, registry, controls
  <2> QED BY <2>1 DEF Control, Registered, controls
<1>2. CASE Restart
  <2>1. /\ wait' = NoWait /\ state' = "Disconnected" /\ phase' = "idle" /\ current' = None
        /\ sent' = sent /\ \A p \in Probes : ids'[p] = None
    BY <1>2 DEF Restart
  <2>2. Control'
    BY <2>1 DEF Control, NoWait, Setters, Pending, Expired
  <2>3. Registered'
    BY <2>1 DEF Registered, NoWait
  <2> QED BY <2>2, <2>3
<1>3. CASE BeginTestCase
  <2>1. /\ wait = NoWait /\ phase = "idle" /\ phase' = "init" /\ todo' = Probes
        /\ UNCHANGED <<wait, state, ids, current, sent>>
    BY <1>3 DEF BeginTestCase, Idle, registry
  <2>2. Control'
    BY <2>1 DEF Control, NoWait, Setters
  <2>3. Registered'
    BY <2>1 DEF Registered, NoWait
  <2> QED BY <2>2, <2>3
<1>4. CASE NextPhase
  <2>1. /\ wait = NoWait /\ UNCHANGED <<wait, state, ids, current, sent>>
        /\ \/ phase = "init" /\ todo = {} /\ phase' = "run" /\ UNCHANGED todo
           \/ phase = "run" /\ phase' = "cleanup" /\ todo' = Probes
           \/ phase = "cleanup" /\ todo = {} /\ phase' = "idle" /\ UNCHANGED todo
    BY <1>4 DEF NextPhase, Idle, registry, history
  <2>2. Control'
    BY <2>1 DEF Control, NoWait, Setters
  <2>3. phase = "cleanup" /\ todo = {} => state = "Disconnected"
    <3>1. ASSUME phase = "cleanup", todo = {} PROVE \A p \in Probes : ids[p] = None
      BY <3>1 DEF Registered
    <3>2. state # "Connected" => state = "Disconnected"
      BY <2>1 DEF Control, NoWait, Types, HostTypes
    <3> QED BY <2>1, <3>1, <3>2 DEF Registered, NoWait
  <2>4. Registered'
    BY <2>1, <2>3 DEF Registered, NoWait
  <2> QED BY <2>2, <2>4
<1>5. CASE RequestReturns
  <2>1. /\ wait.kind \in {"Init"} \cup Setters /\ wait' = NoWait
        /\ todo' = IF wait.kind = "Init" THEN todo \ {wait.probe} ELSE todo
        /\ UNCHANGED <<phase, state, ids, current, sent>>
    BY <1>5 DEF RequestReturns, Returned, Setters, registry, history
  <2>2. Control'
    BY <2>1 DEF Control, NoWait, Setters, Pending, Expired
  <2>3. current = None
    BY <2>1 DEF Registered, Setters
  <2>4. CASE wait.kind = "Init"
    <3>1. phase = "init" /\ ids[wait.probe] # None /\ wait.probe \in Probes /\ state = "Connected"
      BY <1>0, <2>4 DEF Control, Registered, Call
    <3>2. todo' = todo \ {wait.probe}
      BY <2>1, <2>4
    <3>3. \A p \in Probes : (p \notin todo' => ids[p] # None) /\ (p \in todo' => ids[p] = None)
      BY <2>4, <3>1, <3>2 DEF Registered
    <3> QED BY <2>1, <2>2, <2>3, <3>1, <3>3 DEF Registered, NoWait
  <2>5. CASE wait.kind \in Setters
    <3>1. phase = "run" /\ state = "Connected" /\ wait.probe \in Probes
      BY <1>0, <2>5 DEF Control, Setters, Call
    <3> QED BY <2>1, <2>2, <2>3, <2>5, <3>1 DEF Registered, NoWait, Setters
  <2> QED BY <2>1, <2>2, <2>4, <2>5
<1>6. CASE DestructReturns
  <2> DEFINE p == wait.probe
             rest == [objects EXCEPT ![ids[p]] = None]
  <2>1. /\ wait.kind = "Destruct" /\ phase = "cleanup" /\ p \in todo /\ p \in Probes
        /\ state = "Connected" /\ ids[p] \in Addresses /\ current = None
        /\ UNCHANGED <<current, phase, sent>>
    BY <1>0, <1>6 DEF DestructReturns, Returned, Control, Registered, Call
  <2>2. CASE UNCHANGED <<objects, ids, todo, wait, state>>
    BY <2>1, <2>2 DEF Control, Registered
  <2>3. CASE /\ ids' = [ids EXCEPT ![p] = None] /\ todo' = todo \ {p} /\ wait' = NoWait
             /\ \/ (\E a \in Addresses : rest[a] # None) /\ UNCHANGED state
                \/ (\A a \in Addresses : rest[a] = None) /\ state' = "Disconnected"
    <3>1. \A q \in Probes : ids'[q] = IF q = p THEN None ELSE ids[q]
      BY <1>0, <2>1, <2>3
    <3>2. \A a \in Addresses : rest[a] = IF a = ids[p] THEN None ELSE objects[a]
      BY <2>1 DEF Types, HostTypes
    <3>3. \A q \in Probes : ids'[q] # None => ids'[q] \in Addresses /\ rest[ids'[q]] = q
      BY <1>0, <2>1, <3>1, <3>2 DEF Inverses
    <3>4. \A a \in Addresses : rest[a] # None => rest[a] \in Probes /\ ids'[rest[a]] = a
      BY <2>1, <3>1, <3>2 DEF Inverses, Types, HostTypes
    <3>5. None \notin Probes
      BY LinkAssumption
    <3> HIDE DEF rest
    <3>6. CASE (\E a \in Addresses : rest[a] # None) /\ UNCHANGED state
      <4>1. \E q \in Probes : ids'[q] # None
        <5>1. PICK a \in Addresses : rest[a] # None
          BY <3>6
        <5>2. rest[a] \in Probes /\ ids'[rest[a]] = a /\ a # None
          BY <3>4, <5>1, LinkAssumption
        <5> QED BY <5>2
      <4>2. Control'
        BY <2>1, <2>3, <3>6 DEF Control, NoWait, Setters, Pending, Expired
      <4>3. Registered'
        BY <2>1, <2>3, <3>1, <3>6, <4>1 DEF Registered, NoWait
      <4> QED BY <4>2, <4>3
    <3>7. CASE (\A a \in Addresses : rest[a] = None) /\ state' = "Disconnected"
      <4>1. \A q \in Probes : ids'[q] = None
        BY <3>3, <3>5, <3>7
      <4>2. Control'
        BY <2>1, <2>3, <3>7 DEF Control, NoWait, Setters, Pending, Expired
      <4>3. Registered'
        BY <2>1, <2>3, <3>1, <3>7, <4>1 DEF Registered, NoWait
      <4> QED BY <4>2, <4>3
    <3> QED BY <2>3, <3>6, <3>7
  <2> QED BY <1>6, <2>2, <2>3 DEF DestructReturns
<1>7. CASE RequestTimeout
  <2>1. /\ wait'.kind = wait.kind /\ wait'.probe = wait.probe /\ wait'.nr = wait.nr
        /\ wait'.slot = wait.slot /\ wait'.by = Expired /\ HasTimeout(wait.kind)
    <3>1. Expired \in Int
      BY DEF Expired
    <3>2. wait' = [wait EXCEPT !.by = Expired] /\ HasTimeout(wait.kind)
      BY <1>7 DEF RequestTimeout
    <3> QED BY <3>1, <3>2, EndsWaitTypes
  <2>2. UNCHANGED <<state, ids, current, phase, todo, sent>>
    BY <1>7 DEF RequestTimeout, registry
  <2>3. wait.kind # "none"
    BY <2>1 DEF HasTimeout
  <2>4. Control'
    BY <2>1, <2>2, <2>3 DEF Control, Expired
  <2>5. Registered'
    BY <2>1, <2>2, <2>3 DEF Registered
  <2> QED BY <2>4, <2>5
<1>8. CASE ReceiveAnswer
  <2>1. PICK m \in {toHost[1] : i \in DOMAIN toHost} :
            /\ Next1(m) /\ Answered(m)
            /\ \/ UNCHANGED registry
               \/ /\ m.kind = "ObjectId" /\ current # None
                  /\ ids' = [ids EXCEPT ![current] = m.id] /\ current' = None
            /\ UNCHANGED <<state, phase, todo, sent>>
    BY <1>8 DEF ReceiveAnswer, history
  <2>2. m \in Reply
    BY FirstMessage DEF Types, ChannelTypes
  <2>3. /\ wait'.kind = wait.kind /\ wait'.probe = wait.probe /\ wait'.nr = wait.nr /\ wait'.slot = wait.slot
        /\ wait'.by = IF wait # NoWait /\ wait.by = Pending /\ m.nr # 0 THEN m.nr ELSE wait.by
    BY <2>1, <2>2, AnsweredTypes
  <2>4. wait.kind = "none" => wait' = NoWait
    <3>1. wait = NoWait => UNCHANGED wait
      BY <2>1 DEF Answered
    <3> QED BY <3>1 DEF Control
  <2>5. wait'.by >= Expired /\ (wait'.by = Expired => wait.by = Expired)
    <3>1. m.nr \in Nat /\ wait.by \in Int
      BY <1>0, <2>2 DEF Reply, Call
    <3> QED BY <2>3, <3>1 DEF Control, Expired
  <2>6. Control'
    BY <2>1, <2>3, <2>4, <2>5 DEF Control
  <2>7. CASE UNCHANGED registry
    BY <2>1, <2>3, <2>6, <2>7 DEF Registered, registry
  <2>8. CASE /\ m.kind = "ObjectId" /\ current # None
             /\ ids' = [ids EXCEPT ![current] = m.id] /\ current' = None
    <3>1. current = wait.probe /\ wait.kind = "Construct" /\ current \in Probes
      BY <1>0, <2>8 DEF Registered
    <3>2. \A q \in Probes : ids'[q] = IF q = current THEN m.id ELSE ids[q]
      BY <1>0, <2>8, <3>1
    <3>3. m.id \in Addresses /\ m.id # None
      BY <2>2, <2>8, LinkAssumption DEF Reply
    <3>4. phase = "init" /\ state = "Connected" /\ wait.probe \in todo
      BY <3>1 DEF Control
    <3>5. \A q \in Probes : /\ q \notin todo' => ids'[q] # None
                            /\ q \in todo' /\ ids'[q] # None => q = wait.probe
      BY <2>1, <3>1, <3>2, <3>3, <3>4 DEF Registered
    <3>6. current' = IF wait'.kind = "Construct" /\ ids'[wait'.probe] = None THEN wait'.probe ELSE None
      BY <2>3, <2>8, <3>1, <3>2, <3>3
    <3> QED BY <2>1, <2>3, <2>6, <3>1, <3>4, <3>5, <3>6 DEF Registered
  <2> QED BY <2>1, <2>6, <2>7, <2>8
<1>9. CASE ReceiveChange
  <2>1. UNCHANGED <<state, ids, current, phase, todo>>
    BY <1>9 DEF ReceiveChange, registry
  <2>2. CASE UNCHANGED <<wait, sent>>
    BY <2>1, <2>2 DEF Control, Registered
  <2>3. CASE UNCHANGED wait /\ sent' = sent + 1 /\ phase = "run"
    <3>1. wait.kind \notin {"Connect", "Construct", "Init", "Destruct"}
      BY <2>3 DEF Control
    <3> QED BY <1>0, <2>1, <2>3, <3>1 DEF Control, Registered
  <2>4. CASE wait = NoWait /\ phase = "run" /\
             \E q \in Probes, v \in Levels : Ask("ChangeValue", q, ids[q], v, TRUE)
    <3>1. PICK q \in Probes, v \in Levels : Ask("ChangeValue", q, ids[q], v, TRUE)
      BY <2>4
    <3>2. wait' = [kind |-> "ChangeValue", probe |-> q, arg |-> v, nr |-> sent + 1,
                   by |-> Pending, slot |-> TRUE] /\ sent' = sent + 1
      BY <3>1 DEF Ask
    <3>3. state = "Connected"
      BY <2>4 DEF Registered
    <3>4. Control'
      BY <1>0, <2>1, <2>4, <3>2, <3>3 DEF Control, Setters, Pending, Expired
    <3>5. Registered'
      BY <1>0, <2>1, <2>4, <3>2 DEF Registered, NoWait
    <3> QED BY <3>4, <3>5
  <2> QED BY ZenonT(40), <1>9, <2>2, <2>3, <2>4 DEF ReceiveChange
<1> QED BY <1>1, <1>2, <1>3, <1>4, <1>5, <1>6, <1>7, <1>8, <1>9

-----------------------------------------------------------------------------
(* What a step does to the messages between the host and the target.       *)

\* Answers to a request: a single one has its number, and those to a change of
\* the ioid do not exist.
AnswersTo(m, ms) ==
    /\ ms \in Seq(Reply)
    /\ \A k \in DOMAIN ms : ms[k].nr # 0 =>
            /\ k = 1 /\ ms[k].nr = m.nr /\ m.kind # "ChangeIoid"
            /\ ms[k].kind = "ObjectId" <=> m.kind = "Construct"
    /\ Pongs(ms) = IF m.kind = "Ping" THEN 1 ELSE 0

\* The target takes a message, and the host gets the answers or nothing.
Handles(m) ==
    /\ ~hung /\ m \in Request /\ toTarget # <<>> /\ m = toTarget[1]
    /\ toTarget' = Tail(toTarget) /\ UNCHANGED <<host, sent, irregular, left>>
    /\ \/ /\ PortOpen /\ UNCHANGED lostPings
          /\ \E ms \in Seq(Reply) : AnswersTo(m, ms) /\ toHost' = toHost \o ms
       \/ UNCHANGED toHost /\ lostPings' = lostPings + (IF m.kind = "Ping" THEN 1 ELSE 0)

\* A single answer has the number of its request.
LEMMA AnswersOfOne ==
    ASSUME NEW m \in Request, NEW r \in Reply, r.nr = m.nr, m.kind # "ChangeIoid",
           r.kind = "ObjectId" <=> m.kind = "Construct", r.kind = "Pong" <=> m.kind = "Ping"
    PROVE  AnswersTo(m, <<r>>)
<1>1. <<r>> \in Seq(Reply) /\ DOMAIN <<r>> = {1} /\ <<r>>[1] = r
  OBVIOUS
<1>2. Pongs(<<r>>) = IF m.kind = "Ping" THEN 1 ELSE 0
  BY CountOfOne DEF Pongs
<1> QED BY <1>1, <1>2 DEF AnswersTo

\* No answer at all.
LEMMA AnswersOfNone == ASSUME NEW m \in Request, m.kind # "Ping" PROVE AnswersTo(m, <<>>)
<1>1. <<>> \in Seq(Reply) /\ DOMAIN <<>> = {}
  OBVIOUS
<1>2. Pongs(<<>>) = 0
  BY CountOfNone DEF Pongs
<1> QED BY <1>1, <1>2 DEF AnswersTo

\* The answer of init(), and the value of the pin.
LEMMA AnswersOfInit ==
    ASSUME NEW m \in Request, m.kind = "Init", NEW a \in Addresses, NEW v \in Values
    PROVE  /\ AnswersTo(m, Append(InitAnswers(m), Change(a, v)))
           /\ Append(InitAnswers(m), Change(a, v)) = <<Ok(m), Change(a, v)>>
           /\ Ok(m) \in Reply /\ Change(a, v) \in Reply
<1>1. Ok(m) \in Reply /\ Ok(m).nr = m.nr /\ Ok(m).kind = "StatusOk"
  BY DEF Ok, Message, Reply, Args, Request
<1>2. Change(a, v) \in Reply /\ Change(a, v).nr = 0 /\ Change(a, v).kind = "ChangeValue"
  BY DEF Change, Message, Reply, Args
<1> HIDE DEF Ok, Change
<1> DEFINE ms == <<Ok(m), Change(a, v)>>
<1>3. Append(<<Ok(m)>>, Change(a, v)) = ms
  <2>1. <<Ok(m)>> \in Seq(Reply) /\ Append(<<Ok(m)>>, Change(a, v)) \in Seq(Reply) /\ ms \in Seq(Reply)
    BY <1>1, <1>2
  <2>2. Len(Append(<<Ok(m)>>, Change(a, v))) = 2 /\ Len(ms) = 2
    BY <2>1
  <2>3. \A i \in 1..2 : Append(<<Ok(m)>>, Change(a, v))[i] = ms[i]
    BY <2>1
  <2> QED BY <2>1, <2>2, <2>3, SameMessages
<1>4. ms \in Seq(Reply) /\ DOMAIN ms = 1..2 /\ ms[1] = Ok(m) /\ ms[2] = Change(a, v)
  BY <1>1, <1>2
<1>5. Pongs(ms) = 0
  <2>1. \A i \in DOMAIN ms : ms[i].kind # "Pong"
    BY <1>1, <1>2, <1>4
  <2> QED BY <1>4, <2>1, CountType DEF Pongs
<1> HIDE DEF ms
<1>6. AnswersTo(m, ms)
  <2>1. \A k \in DOMAIN ms : k = 1 \/ ms[k].nr = 0
    BY <1>2, <1>4
  <2>2. ms[1].nr = m.nr /\ ms[1].kind # "ObjectId"
    BY <1>1, <1>4
  <2> QED BY <1>4, <1>5, <2>1, <2>2 DEF AnswersTo
<1> QED BY <1>1, <1>2, <1>3, <1>6 DEF InitAnswers, ms

\* Every handler of the target takes a message and answers it, or does not.
LEMMA TargetHandles ==
    ASSUME Types, TargetStep
    PROVE  \E m \in Request : Handles(m)
<1> USE DEF Types, ChannelTypes
<1>1. ASSUME NEW m \in {toTarget[1] : i \in DOMAIN toTarget}, NEW kinds, Take(kinds, m)
      PROVE  /\ ~hung /\ m \in Request /\ toTarget # <<>> /\ m = toTarget[1]
             /\ toTarget' = Tail(toTarget) /\ m.kind \in kinds /\ m.nr \in Nat
  <2>1. m \in Request /\ m = toTarget[1]
    BY FirstMessage
  <2>2. m.nr \in Nat
    BY <2>1 DEF Request
  <2> QED BY <1>1, <2>1, <2>2 DEF Take
<1>2. ASSUME NEW m \in Request, NEW ms \in Seq(Reply), AnswersTo(m, ms), Send(ms)
      PROVE  \/ /\ PortOpen /\ UNCHANGED lostPings
                /\ \E ns \in Seq(Reply) : AnswersTo(m, ns) /\ toHost' = toHost \o ns
             \/ UNCHANGED toHost /\ lostPings' = lostPings + (IF m.kind = "Ping" THEN 1 ELSE 0)
  BY <1>2 DEF Send, AnswersTo
<1>3. ASSUME NEW m \in Request, m.kind # "Ping", m.kind # "Construct", m.kind # "ChangeIoid"
      PROVE  <<Ok(m)>> \in Seq(Reply) /\ AnswersTo(m, <<Ok(m)>>)
  <2>1. Ok(m) \in Reply /\ Ok(m).nr = m.nr /\ Ok(m).kind = "StatusOk"
    BY <1>3 DEF Ok, Message, Reply, Args, Request
  <2> QED BY <1>3, <2>1, AnswersOfOne
<1>4. CASE NotConnected
  BY <1>1, <1>4 DEF NotConnected, Handles
<1>5. CASE TargetConnect
  <2>1. PICK m \in {toTarget[1] : i \in DOMAIN toTarget} : Take({"Connect"}, m) /\ Send(<<Ok(m)>>)
    BY <1>5 DEF TargetConnect
  <2>2. m \in Request /\ m.kind = "Connect"
    BY <1>1, <2>1
  <2>3. <<Ok(m)>> \in Seq(Reply) /\ AnswersTo(m, <<Ok(m)>>)
    BY <1>3, <2>2
  <2> QED BY <1>1, <1>2, <1>5, <2>1, <2>2, <2>3 DEF TargetConnect, Handles
<1>6. CASE TargetConstruct
  <2>1. PICK m \in {toTarget[1] : i \in DOMAIN toTarget}, a \in Addresses :
            Take({"Construct"}, m) /\ Send(<<Message("ObjectId", a, None, m.nr)>>)
    BY <1>6 DEF TargetConstruct
  <2>2. m \in Request /\ m.nr \in Nat /\ m.kind = "Construct"
    BY <1>1, <2>1
  <2>3. m.nr # 0
    BY <2>2 DEF Request
  <2>4. Message("ObjectId", a, None, m.nr) \in Reply
    BY <2>2, <2>3 DEF Message, Reply, Args
  <2>5. AnswersTo(m, <<Message("ObjectId", a, None, m.nr)>>)
    BY <2>2, <2>4, AnswersOfOne DEF Message
  <2>6. <<Message("ObjectId", a, None, m.nr)>> \in Seq(Reply)
    BY <2>4
  <2> QED BY <1>1, <1>2, <1>6, <2>1, <2>2, <2>5, <2>6 DEF TargetConstruct, Handles
<1>7. CASE TargetDestruct
  <2>1. PICK m \in {toTarget[1] : i \in DOMAIN toTarget} : Take({"Destruct"}, m) /\ Send(<<Ok(m)>>)
    BY <1>7 DEF TargetDestruct
  <2>2. m \in Request /\ m.kind = "Destruct"
    BY <1>1, <2>1
  <2>3. <<Ok(m)>> \in Seq(Reply) /\ AnswersTo(m, <<Ok(m)>>)
    BY <1>3, <2>2
  <2> QED BY <1>1, <1>2, <1>7, <2>1, <2>2, <2>3 DEF TargetDestruct, Handles
<1>8. CASE TargetPing
  <2>1. PICK m \in {toTarget[1] : i \in DOMAIN toTarget} :
            Take({"Ping"}, m) /\ Send(<<Message("Pong", 0, None, 0)>>)
    BY <1>8 DEF TargetPing
  <2>2. m \in Request /\ m.kind = "Ping"
    BY <1>1, <2>1
  <2>3. m.nr = 0
    BY <2>2 DEF Request
  <2>4. Message("Pong", 0, None, 0) \in Reply
    BY DEF Message, Reply, Args
  <2>5. AnswersTo(m, <<Message("Pong", 0, None, 0)>>)
    BY <2>2, <2>3, <2>4, AnswersOfOne DEF Message
  <2>6. <<Message("Pong", 0, None, 0)>> \in Seq(Reply)
    BY <2>4
  <2> QED BY <1>1, <1>2, <1>8, <2>1, <2>2, <2>5, <2>6 DEF TargetPing, Handles
<1>9. CASE TargetInit
  <2>1. PICK m \in {toTarget[1] : i \in DOMAIN toTarget} :
            /\ Take({"Init"}, m) /\ Live(m.id)
            /\ \/ Hang
               \/ \E v \in IF m.arg.out THEN {m.arg.value} ELSE Levels :
                    Send(Append(InitAnswers(m), Change(m.id, v)))
    BY <1>9 DEF TargetInit
  <2>2. m \in Request /\ m.kind = "Init"
    BY <1>1, <2>1
  <2>3. CASE Hang
    <3>1. UNCHANGED <<toHost, lostPings>>
      BY <2>3 DEF Hang
    <3> QED BY <1>1, <1>9, <2>1, <2>2, <3>1 DEF TargetInit, Handles
  <2>4. CASE \E v \in IF m.arg.out THEN {m.arg.value} ELSE Levels :
                    Send(Append(InitAnswers(m), Change(m.id, v)))
    <3>1. PICK v \in IF m.arg.out THEN {m.arg.value} ELSE Levels :
                    Send(Append(InitAnswers(m), Change(m.id, v)))
      BY <2>4
    <3>2. m.id \in Addresses /\ m.arg \in Pin
      BY <2>2 DEF Request, Argument, UserMessages
    <3>3. v \in Values
      BY <3>2 DEF Pin, Values
    <3>4. /\ AnswersTo(m, Append(InitAnswers(m), Change(m.id, v)))
          /\ Append(InitAnswers(m), Change(m.id, v)) \in Seq(Reply)
      BY <2>2, <3>2, <3>3, AnswersOfInit DEF AnswersTo
    <3> QED BY <1>1, <1>2, <1>9, <2>1, <2>2, <3>1, <3>4 DEF TargetInit, Handles
  <2> QED BY <2>1, <2>3, <2>4
<1>10. CASE TargetSetter
  <2>1. PICK m \in {toTarget[1] : i \in DOMAIN toTarget} :
            /\ Take({"ChangeValue", "ChangeType", "ChangePullMode"}, m)
            /\ \/ Send(<<Ok(m)>>)
               \/ Send(<<>>)
    BY <1>10 DEF TargetSetter
  <2>2. m \in Request /\ m.kind \in {"ChangeValue", "ChangeType", "ChangePullMode"}
    BY <1>1, <2>1
  <2>3. <<>> \in Seq(Reply) /\ AnswersTo(m, <<>>)
    BY <2>2, AnswersOfNone
  <2>4. <<Ok(m)>> \in Seq(Reply) /\ AnswersTo(m, <<Ok(m)>>)
    BY <2>2, <1>3
  <2> QED BY <1>1, <1>2, <1>10, <2>1, <2>2, <2>3, <2>4 DEF TargetSetter, Handles
<1>11. CASE TargetSetIoid
  <2>1. PICK m \in {toTarget[1] : i \in DOMAIN toTarget} :
            Take({"ChangeIoid"}, m) /\ UNCHANGED <<toHost, lostPings>>
    BY <1>11 DEF TargetSetIoid, Hang
  <2>2. m \in Request /\ m.kind = "ChangeIoid"
    BY <1>1, <2>1
  <2> QED BY <1>1, <1>11, <2>1, <2>2 DEF TargetSetIoid, Handles
<1> QED BY <1>4, <1>5, <1>6, <1>7, <1>8, <1>9, <1>10, <1>11 DEF TargetStep

\* The host sends something, and may have read something before.
Sends(m) ==
    /\ toTarget' = Append(toTarget, m)
    /\ \/ m.nr = sent + 1 /\ sent' = sent + 1
       \/ m.nr = 0 /\ sent' = sent
    /\ UNCHANGED toHost \/ (toHost # <<>> /\ toHost' = Tail(toHost))

\* All that can happen to the channels.
ChannelStep ==
    \/ UNCHANGED <<toTarget, toHost, sent>>
    \/ \E m \in Request : Handles(m)
    \/ \E m \in Request : Sends(m)
    \/ toHost # <<>> /\ toHost' = Tail(toHost) /\ UNCHANGED <<toTarget, sent>>
    \/ \E r \in Reply : r.nr = 0 /\ toHost' = toHost \o <<r>> /\ UNCHANGED <<toTarget, sent>>
    \/ /\ toTarget' \in {toTarget, <<>>} /\ UNCHANGED sent
       /\ \E n \in 0..Len(toHost) : toHost' = SubSeq(toHost, 1, n)

\* A request that is asked for is sent.
LEMMA AskSends ==
    ASSUME Types, NEW kind \in Kinds \ {"Ping"}, NEW p \in Probes,
           NEW id \in Addresses \cup {0}, NEW arg \in Args, NEW slot \in BOOLEAN,
           Argument([kind |-> kind, arg |-> arg]),
           kind \in UserMessages \cup {"Destruct"} => id \in Addresses,
           Ask(kind, p, id, arg, slot),
           UNCHANGED toHost \/ (toHost # <<>> /\ toHost' = Tail(toHost))
    PROVE  ChannelStep
<1>1. Message(kind, id, arg, sent + 1) \in Request
  BY AskTypes
<1>2. Sends(Message(kind, id, arg, sent + 1))
  BY DEF Ask, Message, Sends
<1> QED BY <1>1, <1>2 DEF ChannelStep

\* Every step is one of them.
LEMMA ChannelSteps ==
    ASSUME Base, Next
    PROVE  ChannelStep
<1> USE DEF Base
<1>0. /\ ids \in [Probes -> Addresses \cup {None}] /\ pin \in [Probes -> Pin] /\ wait \in Call
      /\ toHost \in Seq(Reply) /\ toTarget \in Seq(Request) /\ sent \in Nat
  BY DEF Types, HostTypes, ChannelTypes
<1>1. CASE Killed \/ BeginTestCase \/ NextPhase \/ RequestReturns \/ RequestTimeout
  <2>1. UNCHANGED <<toTarget, toHost, sent>>
    BY <1>1 DEF Killed, BeginTestCase, NextPhase, RequestReturns, RequestTimeout, history
  <2> QED BY <2>1 DEF ChannelStep
<1>2. CASE Restart
  <2>1. toTarget' = toTarget /\ sent' = sent /\ toHost' = <<>>
    BY <1>2 DEF Restart
  <2>2. SubSeq(toHost, 1, 0) = <<>> /\ 0 \in 0..Len(toHost)
    BY <1>0
  <2> QED BY <2>1, <2>2 DEF ChannelStep
<1>3. ASSUME NEW p \in Probes, ConnectToTarget(p) PROVE ChannelStep
  <2>1. CASE Ask("Connect", p, 0, None, FALSE)
    BY <1>3, <2>1, AskSends DEF ConnectToTarget, Kinds, UserMessages, Args, Argument
  <2>2. CASE UNCHANGED <<state, toTarget, sent, wait, retries>>
    BY <1>3, <2>2 DEF ConnectToTarget, ChannelStep
  <2> QED BY <1>3, <2>1, <2>2 DEF ConnectToTarget
<1>4. ASSUME NEW p \in Probes, Register(p) PROVE ChannelStep
  BY <1>4, AskSends DEF Register, AskConstruct, Kinds, UserMessages, Args, Argument
<1>5. ASSUME NEW p \in Probes, SetProperty(p) PROVE ChannelStep
  <2>1. ids[p] \in Addresses /\ UNCHANGED toHost
    BY <1>0, <1>5 DEF SetProperty, Registered
  <2>2. CASE \E v \in Levels : Ask("ChangeValue", p, ids[p], v, FALSE)
    BY <2>1, <2>2, AskSends DEF Kinds, UserMessages, Args, Argument, Values
  <2>3. CASE \E o \in BOOLEAN : Ask("ChangeType", p, ids[p], o, FALSE)
    BY <2>1, <2>3, AskSends DEF Kinds, UserMessages, Args, Argument
  <2>4. CASE \E i \in Ioids : Ask("ChangeIoid", p, ids[p], i, FALSE)
    BY <2>1, <2>4, AskSends DEF Kinds, UserMessages, Args, Argument
  <2>5. CASE Ask("ChangePullMode", p, ids[p], None, FALSE)
    BY <2>1, <2>5, AskSends DEF Kinds, UserMessages, Args, Argument
  <2> QED BY <1>5, <2>2, <2>3, <2>4, <2>5 DEF SetProperty
<1>6. ASSUME NEW p \in Probes, Unregister(p) PROVE ChannelStep
  <2>1. ids[p] \in Addresses
    BY <1>0, <1>6 DEF Unregister, Registered
  <2> QED BY <1>6, <2>1, AskSends DEF Unregister, Kinds, UserMessages, Args, Argument
<1>7. CASE ConnectReturns
  <2>1. wait.probe \in Probes /\ UNCHANGED toHost
    BY <1>0, <1>7 DEF ConnectReturns, Returned, Call
  <2>2. CASE AskConstruct(wait.probe)
    BY <2>1, <2>2, AskSends DEF AskConstruct, Kinds, UserMessages, Args, Argument
  <2>3. CASE Ask("Connect", wait.probe, 0, None, FALSE)
    BY <2>1, <2>3, AskSends DEF Kinds, UserMessages, Args, Argument
  <2>4. CASE UNCHANGED <<toTarget, sent>>
    BY <2>1, <2>4 DEF ChannelStep
  <2> QED BY <1>7, <2>2, <2>3, <2>4 DEF ConnectReturns
<1>8. CASE ConstructReturns
  <2>1. wait.probe \in Probes /\ UNCHANGED toHost
    BY <1>0, <1>8 DEF ConstructReturns, Returned, Call
  <2>2. ids[wait.probe] \in Addresses \cup {None} /\ pin[wait.probe] \in Pin
    BY <1>0, <2>1
  <2>3. CASE ids[wait.probe] # None /\ Ask("Init", wait.probe, ids[wait.probe], pin[wait.probe], FALSE)
    BY <2>1, <2>2, <2>3, AskSends DEF Kinds, UserMessages, Args, Argument
  <2>4. CASE UNCHANGED <<toTarget, sent>>
    BY <2>1, <2>4 DEF ChannelStep
  <2> QED BY <1>8, <2>3, <2>4 DEF ConstructReturns
<1>9. CASE DestructReturns
  <2>1. UNCHANGED <<toTarget, sent>> /\ toHost' \in {toHost, <<>>}
    BY <1>9 DEF DestructReturns
  <2>2. SubSeq(toHost, 1, 0) = <<>> /\ 0 \in 0..Len(toHost)
    BY <1>0
  <2> QED BY <2>1, <2>2 DEF ChannelStep
<1>10. CASE ReceiveAnswer
  <2>1. UNCHANGED <<toTarget, sent>> /\ toHost # <<>> /\ toHost' = Tail(toHost)
    BY <1>10 DEF ReceiveAnswer, history, Next1
  <2> QED BY <2>1 DEF ChannelStep
<1>11. CASE ReceiveChange
  <2>1. toHost # <<>> /\ toHost' = Tail(toHost)
    BY <1>11 DEF ReceiveChange, Next1
  <2>2. CASE UNCHANGED <<toTarget, sent>>
    BY <2>1, <2>2 DEF ChannelStep
  <2>3. ASSUME phase = "run", NEW q \in Probes, NEW v \in Levels, Ask("ChangeValue", q, ids[q], v, TRUE)
        PROVE  ChannelStep
    <3>1. ids[q] \in Addresses
      BY <1>0, <2>3 DEF Registered
    <3> QED BY <2>1, <2>3, <3>1, AskSends DEF Kinds, UserMessages, Args, Argument, Values
  <2>4. ASSUME phase = "run", NEW q \in Probes, NEW v \in Levels, sent' = sent + 1,
               toTarget' = Append(toTarget, Message("ChangeValue", ids[q], v, sent + 1))
        PROVE  ChannelStep
    <3>1. ids[q] \in Addresses
      BY <1>0, <2>4 DEF Registered
    <3>2. Message("ChangeValue", ids[q], v, sent + 1) \in Request
      BY <1>0, <3>1 DEF Message, Request, Kinds, UserMessages, Args, Argument, Values
    <3>3. Sends(Message("ChangeValue", ids[q], v, sent + 1))
      BY <2>1, <2>4 DEF Sends, Message
    <3> QED BY <3>2, <3>3 DEF ChannelStep
  <2> QED BY ZenonT(40), <1>11, <2>2, <2>3, <2>4 DEF ReceiveChange
<1>12. CASE OnPingTimerTick
  <2>1. UNCHANGED <<toHost, sent>>
    BY <1>12 DEF OnPingTimerTick
  <2>2. CASE toTarget' = Append(toTarget, Message("Ping", 0, None, 0))
    <3>1. Message("Ping", 0, None, 0) \in Request
      BY DEF Message, Request, Kinds, UserMessages, Args, Argument
    <3>2. Sends(Message("Ping", 0, None, 0))
      BY <2>1, <2>2 DEF Sends, Message
    <3> QED BY <3>1, <3>2 DEF ChannelStep
  <2>3. CASE UNCHANGED toTarget
    BY <2>1, <2>3 DEF ChannelStep
  <2> QED BY <1>12, <2>2, <2>3 DEF OnPingTimerTick
<1>13. CASE TargetStep
  BY <1>13, TargetHandles DEF ChannelStep
<1>14. ASSUME NEW i \in Ioids, PinEvent(i) PROVE ChannelStep
  <2>1. UNCHANGED <<toTarget, sent>> /\ instances[i] \in Addresses
    BY <1>14 DEF PinEvent, Types, TargetTypes
  <2>2. PICK v \in Levels : Send(<<Change(instances[i], v)>>)
    BY <1>14 DEF PinEvent
  <2>3. Change(instances[i], v) \in Reply /\ Change(instances[i], v).nr = 0
    BY <2>1 DEF Change, Message, Reply, Args, Values
  <2> QED BY <2>1, <2>2, <2>3 DEF Send, ChannelStep
<1>15. CASE CheckConnection \/ Watchdog
  <2>1. Reset /\ UNCHANGED sent
    BY <1>15 DEF CheckConnection, Watchdog
  <2>2. toTarget' = <<>> /\ \E n \in 0..Len(toHost) : toHost' = SubSeq(toHost, 1, n)
    BY <2>1 DEF Reset
  <2> QED BY <2>1, <2>2 DEF ChannelStep
<1> QED BY <1>1, <1>2, <1>3, <1>4, <1>5, <1>6, <1>7, <1>8, <1>9, <1>10, <1>11, <1>12, <1>13, <1>14,
           <1>15 DEF Next, WaitReturns, Receive

\* The steps of the host, and of qst as a process.
HostStep ==
    \/ Killed \/ Restart \/ BeginTestCase \/ NextPhase
    \/ \E p \in Probes : ConnectToTarget(p) \/ Register(p) \/ SetProperty(p) \/ Unregister(p)
    \/ WaitReturns \/ Receive \/ OnPingTimerTick \/ RequestTimeout

\* A step of the host leaves the state of the target alone.
LEMMA HostLeavesTarget == ASSUME HostStep PROVE UNCHANGED target
<1>1. CASE Killed \/ Restart \/ BeginTestCase \/ NextPhase \/ OnPingTimerTick \/ RequestTimeout
  BY <1>1 DEF Killed, Restart, BeginTestCase, NextPhase, OnPingTimerTick, RequestTimeout
<1>2. CASE \E p \in Probes : ConnectToTarget(p) \/ Register(p) \/ SetProperty(p) \/ Unregister(p)
  BY <1>2 DEF ConnectToTarget, Register, SetProperty, Unregister
<1>3. CASE WaitReturns
  BY <1>3 DEF WaitReturns, ConnectReturns, ConstructReturns, RequestReturns, DestructReturns
<1>4. CASE Receive
  BY <1>4 DEF Receive, ReceiveAnswer, ReceiveChange
<1> QED BY <1>1, <1>2, <1>3, <1>4 DEF HostStep

\* The messages keep their types.
LEMMA ChannelsKeepTypes ==
    ASSUME Types, ChannelStep
    PROVE  toTarget' \in Seq(Request) /\ toHost' \in Seq(Reply) /\ sent' \in Nat
<1> USE DEF Types, ChannelTypes
<1>1. CASE \E m \in Request : Handles(m)
  <2>1. PICK m \in Request : Handles(m)
    BY <1>1
  <2>2. toTarget' \in Seq(Request) /\ sent' = sent
    BY <2>1 DEF Handles
  <2>3. CASE UNCHANGED toHost
    BY <2>2, <2>3
  <2>4. ASSUME NEW ms \in Seq(Reply), toHost' = toHost \o ms PROVE toHost' \in Seq(Reply)
    BY <2>4
  <2> QED BY <2>1, <2>2, <2>3, <2>4 DEF Handles
<1>2. CASE \E m \in Request : Sends(m)
  <2>1. PICK m \in Request : Sends(m)
    BY <1>2
  <2>2. toTarget' \in Seq(Request)
    BY <2>1 DEF Sends
  <2>3. toHost' \in Seq(Reply)
    <3>1. toHost \in Seq(Reply) /\ (toHost # <<>> => Tail(toHost) \in Seq(Reply))
      OBVIOUS
    <3> QED BY <2>1, <3>1 DEF Sends
  <2>4. sent' \in Nat
    BY <2>1 DEF Sends
  <2> QED BY <2>2, <2>3, <2>4
<1>3. CASE \E r \in Reply : r.nr = 0 /\ toHost' = toHost \o <<r>> /\ UNCHANGED <<toTarget, sent>>
  <2>1. PICK r \in Reply : toHost' = toHost \o <<r>> /\ UNCHANGED <<toTarget, sent>>
    BY <1>3
  <2>2. <<r>> \in Seq(Reply)
    OBVIOUS
  <2> QED BY <2>1, <2>2
<1>4. CASE /\ toTarget' \in {toTarget, <<>>} /\ UNCHANGED sent
           /\ \E n \in 0..Len(toHost) : toHost' = SubSeq(toHost, 1, n)
  <2>1. toTarget' \in Seq(Request)
    <3>1. toTarget \in Seq(Request) /\ <<>> \in Seq(Request)
      OBVIOUS
    <3> QED BY <1>4, <3>1
  <2>2. PICK n \in 0..Len(toHost) : toHost' = SubSeq(toHost, 1, n)
    BY <1>4
  <2>3. toHost' \in Seq(Reply)
    BY <2>2, FirstMessages
  <2> QED BY <1>4, <2>1, <2>3
<1>5. CASE UNCHANGED <<toTarget, toHost, sent>> \/ (toHost # <<>> /\ toHost' = Tail(toHost) /\ UNCHANGED <<toTarget, sent>>)
  BY <1>5
<1> QED BY <1>1, <1>2, <1>3, <1>4, <1>5 DEF ChannelStep

\* No state of the target has another type.
LEMMA TargetKeepsTypes ==
    ASSUME Types, TargetStep \/ (\E i \in Ioids : PinEvent(i)) \/ CheckConnection \/ Watchdog
    PROVE  TargetTypes'
<1> USE DEF Types, TargetTypes, ChannelTypes
<1>1. CASE NotConnected \/ TargetPing
  BY <1>1 DEF NotConnected, TargetPing, target
<1>2. CASE TargetConnect
  <2>1. obj' = [a \in Addresses |-> Dead] /\ slots' = <<>> /\ connected' = TRUE /\ hung' = hung
    BY <1>2 DEF TargetConnect, DeletesObjects
  <2>2. instances' \in [Ioids -> Addresses \cup {None}]
    BY <1>2 DEF TargetConnect
  <2>3. slots' \in Seq(Addresses \cup {None})
    BY <2>1
  <2>4. obj' \in [Addresses -> {Dead} \cup Object]
    BY <2>1
  <2> QED BY <2>1, <2>2, <2>3, <2>4
<1>3. CASE TargetConstruct
  <2>1. PICK a \in Addresses :
            /\ obj' = [obj EXCEPT ![a] = Fresh]
            /\ IF Len(slots) < Slots THEN slots' = Append(slots, a) /\ UNCHANGED hung
                                     ELSE hung' = TRUE /\ UNCHANGED slots
            /\ UNCHANGED <<connected, instances>>
    BY <1>3 DEF TargetConstruct
  <2>2. Fresh \in Object
    BY DEF Fresh, Object, Values
  <2>3. obj' \in [Addresses -> {Dead} \cup Object]
    BY <2>1, <2>2
  <2>4. Append(slots, a) \in Seq(Addresses \cup {None})
    OBVIOUS
  <2>5. slots' \in Seq(Addresses \cup {None})
    BY <2>1, <2>4
  <2> QED BY <2>1, <2>3, <2>5
<1>4. CASE TargetDestruct
  <2>1. PICK m \in {toTarget[1] : i \in DOMAIN toTarget} :
            LET kept == [k \in DOMAIN slots |-> IF slots[k] = m.id THEN None ELSE slots[k]] IN
            /\ \/ /\ obj' = [obj EXCEPT ![m.id] = Dead]
                  /\ instances' = [instances EXCEPT ![obj[m.id].ioid] = None]
               \/ UNCHANGED <<obj, instances>>
            /\ \/ slots' = <<>> /\ connected' = FALSE
               \/ slots' = kept /\ UNCHANGED connected
            /\ UNCHANGED hung
    BY <1>4 DEF TargetDestruct
  <2> DEFINE kept == [k \in DOMAIN slots |-> IF slots[k] = m.id THEN None ELSE slots[k]]
  <2>2. kept \in Seq(Addresses \cup {None})
    OBVIOUS
  <2> HIDE DEF kept
  <2>3. slots' \in Seq(Addresses \cup {None})
    <3>1. slots' = <<>> \/ slots' = kept
      BY <2>1 DEF kept
    <3>2. <<>> \in Seq(Addresses \cup {None})
      OBVIOUS
    <3> QED BY <2>2, <3>1, <3>2
  <2>5. connected' \in BOOLEAN
    BY <2>1
  <2>4. obj' \in [Addresses -> {Dead} \cup Object] /\ instances' \in [Ioids -> Addresses \cup {None}]
    BY <2>1
  <2> QED BY <2>1, <2>3, <2>4, <2>5
<1>5. CASE TargetInit
  <2>1. PICK m \in {toTarget[1] : i \in DOMAIN toTarget} :
            /\ Take({"Init"}, m) /\ Live(m.id)
            /\ \/ /\ obj' = [obj EXCEPT ![m.id].ioid = m.arg.ioid]
                  /\ UNCHANGED instances /\ hung' = TRUE
               \/ \E v \in IF m.arg.out THEN {m.arg.value} ELSE Levels :
                    /\ obj' = [obj EXCEPT ![m.id] = [ioid |-> m.arg.ioid, out |-> m.arg.out,
                                                     open |-> TRUE, value |-> v]]
                    /\ instances' = [instances EXCEPT ![m.arg.ioid] = m.id] /\ UNCHANGED hung
            /\ UNCHANGED <<connected, slots>>
    BY <1>5 DEF TargetInit, Hang
  <2>2. m \in Request /\ m.kind = "Init"
    BY <2>1, FirstMessage DEF Take
  <2>3. m.id \in Addresses /\ m.arg \in Pin
    BY <2>2 DEF Request, Argument, UserMessages
  <2>4. obj[m.id] \in Object
    BY <2>1, <2>3 DEF Live
  <2>5. CASE obj' = [obj EXCEPT ![m.id].ioid = m.arg.ioid] /\ UNCHANGED instances /\ hung' = TRUE
    <3>1. [obj[m.id] EXCEPT !.ioid = m.arg.ioid] \in Object
      BY <2>3, <2>4 DEF Object, Pin
    <3>2. obj' \in [Addresses -> {Dead} \cup Object]
      BY <2>3, <2>5, <3>1
    <3> QED BY <2>1, <2>5, <3>2
  <2>6. CASE \E v \in IF m.arg.out THEN {m.arg.value} ELSE Levels :
                    /\ obj' = [obj EXCEPT ![m.id] = [ioid |-> m.arg.ioid, out |-> m.arg.out,
                                                     open |-> TRUE, value |-> v]]
                    /\ instances' = [instances EXCEPT ![m.arg.ioid] = m.id] /\ UNCHANGED hung
    <3>1. PICK v \in IF m.arg.out THEN {m.arg.value} ELSE Levels :
                    /\ obj' = [obj EXCEPT ![m.id] = [ioid |-> m.arg.ioid, out |-> m.arg.out,
                                                     open |-> TRUE, value |-> v]]
                    /\ instances' = [instances EXCEPT ![m.arg.ioid] = m.id] /\ UNCHANGED hung
      BY <2>6
    <3>2. v \in Values
      BY <2>3 DEF Pin, Values
    <3>3. [ioid |-> m.arg.ioid, out |-> m.arg.out, open |-> TRUE, value |-> v] \in Object
      BY <2>3, <3>2 DEF Object, Pin
    <3>4. obj' \in [Addresses -> {Dead} \cup Object]
      BY <2>3, <3>1, <3>3
    <3>5. instances' \in [Ioids -> Addresses \cup {None}]
      BY <2>3, <3>1
    <3> QED BY <2>1, <3>1, <3>4, <3>5
  <2> QED BY <2>1, <2>5, <2>6
<1>6. CASE TargetSetter
  <2>1. PICK m \in {toTarget[1] : i \in DOMAIN toTarget} :
            /\ Take({"ChangeValue", "ChangeType", "ChangePullMode"}, m) /\ Live(m.id)
            /\ obj' = CASE m.kind = "ChangeValue" -> [obj EXCEPT ![m.id].value = m.arg]
                        [] m.kind = "ChangeType" -> [obj EXCEPT ![m.id].out = m.arg]
                        [] OTHER -> obj
            /\ UNCHANGED <<connected, slots, instances, hung>>
    BY <1>6 DEF TargetSetter
  <2>2. m \in Request /\ m.kind \in {"ChangeValue", "ChangeType", "ChangePullMode"}
    BY <2>1, FirstMessage DEF Take
  <2>3. m.id \in Addresses /\ Argument(m)
    BY <2>2 DEF Request, UserMessages
  <2>4. obj[m.id] \in Object
    BY <2>1, <2>3 DEF Live
  <2>5. CASE m.kind = "ChangeValue"
    <3>1. m.arg \in Values /\ obj' = [obj EXCEPT ![m.id].value = m.arg]
      BY <2>1, <2>3, <2>5 DEF Argument
    <3>2. [obj[m.id] EXCEPT !.value = m.arg] \in Object
      BY <2>4, <3>1 DEF Object
    <3>3. obj' \in [Addresses -> {Dead} \cup Object]
      BY <2>3, <3>1, <3>2
    <3> QED BY <2>1, <3>3
  <2>6. CASE m.kind = "ChangeType"
    <3>1. m.arg \in BOOLEAN /\ obj' = [obj EXCEPT ![m.id].out = m.arg]
      BY <2>1, <2>3, <2>6 DEF Argument
    <3>2. [obj[m.id] EXCEPT !.out = m.arg] \in Object
      BY <2>4, <3>1 DEF Object
    <3>3. obj' \in [Addresses -> {Dead} \cup Object]
      BY <2>3, <3>1, <3>2
    <3> QED BY <2>1, <3>3
  <2>7. CASE m.kind = "ChangePullMode"
    BY <2>1, <2>7
  <2> QED BY <2>2, <2>5, <2>6, <2>7
<1>7. CASE TargetSetIoid
  <2>1. PICK m \in {toTarget[1] : i \in DOMAIN toTarget} :
            /\ Take({"ChangeIoid"}, m) /\ Live(m.id)
            /\ obj' = [obj EXCEPT ![m.id].ioid = m.arg]
            /\ LET off == [instances EXCEPT ![obj[m.id].ioid] = None] IN
               \/ instances' = off /\ hung' = TRUE
               \/ instances' = [off EXCEPT ![m.arg] = m.id] /\ UNCHANGED hung
               \/ instances' = off /\ UNCHANGED hung
            /\ UNCHANGED <<connected, slots>>
    BY <1>7 DEF TargetSetIoid, Hang
  <2>2. m \in Request /\ m.kind = "ChangeIoid"
    BY <2>1, FirstMessage DEF Take
  <2>3. m.id \in Addresses /\ m.arg \in Ioids
    BY <2>2 DEF Request, Argument, UserMessages
  <2>4. obj[m.id] \in Object
    BY <2>1, <2>3 DEF Live
  <2>5. [obj[m.id] EXCEPT !.ioid = m.arg] \in Object
    BY <2>3, <2>4 DEF Object
  <2>6. obj' \in [Addresses -> {Dead} \cup Object]
    BY <2>1, <2>3, <2>5
  <2>7. instances' \in [Ioids -> Addresses \cup {None}]
    BY <2>1, <2>3
  <2>8. hung' \in BOOLEAN
    BY <2>1
  <2> QED BY <2>1, <2>6, <2>7, <2>8
<1>8. ASSUME NEW i \in Ioids, PinEvent(i) PROVE TargetTypes'
  <2>1. instances[i] \in Addresses
    BY <1>8 DEF PinEvent
  <2>2. PICK v \in Levels : obj' = [obj EXCEPT ![instances[i]].value = v]
    BY <1>8 DEF PinEvent
  <2>3. ~obj[instances[i]].out /\ UNCHANGED <<connected, slots, instances, hung>>
    BY <1>8 DEF PinEvent
  <2>4. [obj[instances[i]] EXCEPT !.value = v] \in {Dead} \cup Object
    <3>1. CASE obj[instances[i]] \in Object
      BY <2>1, <3>1 DEF Object, Values
    <3>2. CASE obj[instances[i]] = Dead
      <4>1. [Dead EXCEPT !.value = v] = Dead
        BY DEF Dead
      <4> QED BY <3>2, <4>1
    <3> QED BY <2>1, <3>1, <3>2
  <2>5. obj' \in [Addresses -> {Dead} \cup Object]
    BY <2>1, <2>2, <2>4
  <2> QED BY <2>3, <2>5
<1>9. CASE CheckConnection \/ Watchdog
  <2>1. /\ connected' = FALSE /\ slots' = <<>> /\ hung' = FALSE
        /\ obj' = [a \in Addresses |-> Dead] /\ instances' = [i \in Ioids |-> None]
    BY <1>9 DEF CheckConnection, Watchdog, Reset
  <2>2. slots' \in Seq(Addresses \cup {None})
    BY <2>1
  <2> QED BY <2>1, <2>2
<1> QED BY <1>1, <1>2, <1>3, <1>4, <1>5, <1>6, <1>7, <1>8, <1>9 DEF TargetStep

\* The controls of the host stay in their ranges.
LEMMA HostKeepsTypes ==
    ASSUME Base, HostStep
    PROVE  HostTypes'
<1> USE DEF Base, Types, HostTypes, ChannelTypes
<1>1. CASE Killed \/ Restart \/ BeginTestCase \/ NextPhase \/ RequestReturns \/ DestructReturns
           \/ OnPingTimerTick \/ RequestTimeout
  <2>1. /\ wait' \in Call /\ pin' \in [Probes -> Pin] /\ current' \in Probes \cup {None}
        /\ objects' \in [Addresses -> Probes \cup {None}]
        /\ ids' \in [Probes -> Addresses \cup {None}] /\ unanswered' \in 0..3
    BY <1>1, HostMovesTypes
  <2>2. /\ state' \in {"Disconnected", "Standby", "Connected"}
        /\ phase' \in {"idle", "init", "run", "cleanup"} /\ todo' \subseteq Probes
        /\ outcome' \in {"running", "noProbe", "noResponse", "conflict", "lost", "assertion",
                         "unknownObject", "killed"}
        /\ retries' \in 0..1 /\ pinging' \in BOOLEAN
    <3>1. CASE Killed \/ Restart \/ BeginTestCase \/ NextPhase
      <4>1. pinging' \in BOOLEAN
        BY <3>1 DEF Killed, Restart, BeginTestCase, NextPhase
      <4>2. CASE Killed \/ BeginTestCase \/ NextPhase
        BY <4>1, <4>2 DEF Killed, BeginTestCase, NextPhase, Exit
      <4>3. CASE Restart
        BY <4>1, <4>3 DEF Restart
      <4> QED BY <3>1, <4>2, <4>3
    <3>2. CASE RequestReturns \/ DestructReturns
      BY <1>1, <3>2 DEF RequestReturns, DestructReturns, Exit
    <3>3. CASE OnPingTimerTick \/ RequestTimeout
      BY <1>1, <3>3 DEF OnPingTimerTick, RequestTimeout, Exit
    <3> QED BY <1>1, <3>1, <3>2, <3>3
  <2> QED BY <2>1, <2>2
<1>2. CASE (\E p \in Probes : ConnectToTarget(p) \/ Register(p) \/ SetProperty(p) \/ Unregister(p))
           \/ ConnectReturns \/ ConstructReturns
  <2>1. /\ wait' \in Call /\ pin' \in [Probes -> Pin] /\ current' \in Probes \cup {None}
    BY <1>2, HostAsksTypes
  <2>2. /\ state' \in {"Disconnected", "Standby", "Connected"}
        /\ outcome' \in {"running", "noProbe", "noResponse", "conflict", "lost", "assertion",
                         "unknownObject", "killed"}
        /\ retries' \in 0..1
        /\ UNCHANGED <<phase, todo, objects, ids, unanswered>>
    <3>1. CASE \E p \in Probes : ConnectToTarget(p)
      <4>1. state' \in {"Disconnected", "Standby", "Connected"}
        BY <3>1 DEF ConnectToTarget
      <4>2. outcome' \in {outcome, "noProbe", "noResponse"}
        BY <3>1 DEF ConnectToTarget, Exit
      <4>3. retries' \in 0..1
        <5>1. retries' = retries \/ retries' = 1
          BY <3>1 DEF ConnectToTarget
        <5> QED BY <5>1
      <4>4. UNCHANGED <<phase, todo, objects, ids, unanswered>>
        BY <3>1 DEF ConnectToTarget, registry
      <4> QED BY <4>1, <4>2, <4>3, <4>4
    <3>2. CASE \E p \in Probes : Register(p) \/ SetProperty(p) \/ Unregister(p)
      BY <3>2 DEF Register, SetProperty, Unregister, registry
    <3>3. CASE ConnectReturns
      <4>1. state' \in {"Disconnected", "Standby", "Connected"}
        BY <3>3 DEF ConnectReturns
      <4>2. outcome' \in {outcome, "noProbe", "noResponse"}
        BY <3>3 DEF ConnectReturns, Exit
      <4>3. retries' \in 0..1
        <5>1. retries' = retries \/ (retries > 0 /\ retries' = retries - 1)
          BY <3>3 DEF ConnectReturns
        <5> QED BY <5>1
      <4>4. UNCHANGED <<phase, todo, objects, ids, unanswered>>
        BY <3>3 DEF ConnectReturns, registry
      <4> QED BY <4>1, <4>2, <4>3, <4>4
    <3>4. CASE ConstructReturns
      BY <3>4 DEF ConstructReturns, Exit, registry
    <3> QED BY <1>2, <3>1, <3>2, <3>3, <3>4
  <2>3. pinging' \in BOOLEAN
    BY <1>2 DEF ConnectToTarget, Register, SetProperty, Unregister, ConnectReturns, ConstructReturns
  <2> QED BY <2>1, <2>2, <2>3
<1>3. CASE ReceiveAnswer \/ ReceiveChange
  <2>1. /\ wait' \in Call /\ pin' \in [Probes -> Pin] /\ current' \in Probes \cup {None}
        /\ objects' \in [Addresses -> Probes \cup {None}]
        /\ ids' \in [Probes -> Addresses \cup {None}] /\ unanswered' \in 0..3
    BY <1>3, ReceiveTypes
  <2>2. /\ outcome' \in {"running", "noProbe", "noResponse", "conflict", "lost", "assertion",
                         "unknownObject", "killed"}
        /\ UNCHANGED <<state, phase, todo, retries, pinging>>
    <3>1. CASE ReceiveAnswer
      BY <3>1 DEF ReceiveAnswer, Exit
    <3>2. CASE ReceiveChange
      BY <3>2 DEF ReceiveChange, Exit
    <3> QED BY <1>3, <3>1, <3>2
  <2> QED BY <2>1, <2>2
<1> QED BY <1>1, <1>2, <1>3 DEF HostStep, WaitReturns, Receive

-----------------------------------------------------------------------------
(* Pings.                                                                  *)

\* Every ping that has not been answered is on its way, or has been lost; and the
\* host gives up when none is on its way, or when it comes late.
PingsCount == unanswered = Pings(toTarget) + Pongs(toHost) + lostPings

GivenUp ==
    outcome = "lost" =>
        /\ unanswered = 3
        /\ \/ "overtaken" \in irregular
           \/ (hung \/ Pings(toTarget) = 0) /\ (wait.slot \/ Pongs(toHost) = 0)

\* The counts are numbers.
LEMMA PingTypes ==
    ASSUME Types
    PROVE  /\ Pings(toTarget) \in Nat /\ Pongs(toHost) \in Nat /\ lostPings \in Nat
           /\ unanswered \in 0..3
  BY CountType DEF Types, ChannelTypes, HostTypes, Pings, Pongs

\* The pings are right at first.
LEMMA PingsInit == Init => PingsCount /\ GivenUp
<1> SUFFICES ASSUME Init PROVE PingsCount /\ GivenUp
  OBVIOUS
<1>1. toTarget = <<>> /\ toHost = <<>> /\ lostPings = 0 /\ unanswered = 0 /\ outcome = "running"
  BY DEF Init
<1>2. Pings(toTarget) = 0 /\ Pongs(toHost) = 0
  BY <1>1, CountOfNone DEF Pings, Pongs
<1> QED BY <1>1, <1>2 DEF PingsCount, GivenUp

\* What a handler of the target does to the pings.
LEMMA TargetPings ==
    ASSUME Types, PingsCount, GivenUp, NEW m \in Request, Handles(m)
    PROVE  PingsCount' /\ GivenUp' /\ lostPings' \in Nat
<1> USE DEF Types, ChannelTypes
<1>1. /\ UNCHANGED <<unanswered, outcome, irregular, wait>> /\ ~hung
      /\ toTarget # <<>> /\ m = toTarget[1] /\ toTarget' = Tail(toTarget)
  BY DEF Handles, host
<1>2. Pings(toTarget) = Pings(toTarget') + (IF m.kind = "Ping" THEN 1 ELSE 0) /\ Pings(toTarget') \in Nat
  <2>1. Head(toTarget) = m
    BY <1>1
  <2> QED BY <1>1, <2>1, CountTail DEF Pings
<1>3. CASE UNCHANGED toHost /\ lostPings' = lostPings + (IF m.kind = "Ping" THEN 1 ELSE 0)
  <2>1. PingsCount' /\ lostPings' \in Nat
    BY <1>1, <1>2, <1>3, PingTypes DEF PingsCount, Pings, Pongs
  <2>2. GivenUp'
    BY <1>1, <1>2, <1>3, PingTypes DEF GivenUp, Pings, Pongs
  <2> QED BY <2>1, <2>2
<1>4. ASSUME PortOpen, UNCHANGED lostPings, NEW ms \in Seq(Reply), AnswersTo(m, ms), toHost' = toHost \o ms
      PROVE  PingsCount' /\ GivenUp' /\ lostPings' \in Nat
  <2>1. Pongs(toHost') = Pongs(toHost) + (IF m.kind = "Ping" THEN 1 ELSE 0)
    BY <1>4, CountConcat DEF Pongs, AnswersTo
  <2>2. PingsCount'
    BY <1>1, <1>2, <1>4, <2>1, PingTypes DEF PingsCount
  <2>3. outcome' # "lost"
    BY <1>1, <1>4 DEF PortOpen
  <2> QED BY <1>4, <2>2, <2>3 DEF GivenUp
<1> QED BY <1>3, <1>4 DEF Handles

\* No step breaks the account of the pings.
LEMMA PingsStep ==
    ASSUME Base, PingsCount, GivenUp, Next
    PROVE  PingsCount' /\ GivenUp' /\ lostPings' \in Nat
<1> USE DEF Base, Types, ChannelTypes
<1>0. PingsCount /\ GivenUp /\ lostPings \in Nat /\ Pings(toTarget) \in Nat /\ Pongs(toHost) \in Nat
  BY PingTypes
<1>1. ASSUME UNCHANGED <<unanswered, toHost, lostPings>>,
             \/ UNCHANGED toTarget
             \/ \E m : m.kind # "Ping" /\ toTarget' = Append(toTarget, m) /\ toTarget' \in Seq(Request)
      PROVE  PingsCount' /\ lostPings' \in Nat
  <2>1. Pings(toTarget') = Pings(toTarget)
    <3>1. CASE UNCHANGED toTarget
      BY <3>1
    <3>2. CASE \E m : m.kind # "Ping" /\ toTarget' = Append(toTarget, m) /\ toTarget' \in Seq(Request)
      <4>1. PICK m : m.kind # "Ping" /\ toTarget' = Append(toTarget, m) /\ toTarget' \in Seq(Request)
        BY <3>2
      <4>2. m \in Request
        <5>1. toTarget'[Len(toTarget) + 1] = m /\ Len(toTarget) + 1 \in DOMAIN toTarget'
          BY <4>1
        <5> QED BY <4>1, <5>1
      <4>3. Count("Ping", Append(toTarget, m)) = Count("Ping", toTarget) + 0
        BY <4>1, <4>2, CountAppend
      <4> QED BY <1>0, <4>1, <4>3 DEF Pings
    <3> QED BY <1>1, <3>1, <3>2
  <2> QED BY <1>0, <1>1, <2>1 DEF PingsCount, Pongs
<1>2. CASE Killed \/ BeginTestCase \/ NextPhase \/ RequestReturns \/ RequestTimeout
  <2>1. UNCHANGED <<unanswered, toHost, lostPings, toTarget>> /\ outcome' # "lost"
    BY <1>2 DEF Killed, BeginTestCase, NextPhase, RequestReturns, RequestTimeout, Idle, Returned,
                InEventLoop, Exit, history
  <2> QED BY <1>1, <2>1 DEF GivenUp
<1>3. CASE Restart
  <2>1. unanswered' = 0 /\ toTarget' = <<>> /\ toHost' = <<>> /\ lostPings' = 0 /\ outcome' = "running"
    BY <1>3 DEF Restart
  <2> QED BY <2>1, CountOfNone DEF PingsCount, GivenUp, Pings, Pongs
<1>4. CASE \/ \E p \in Probes : ConnectToTarget(p) \/ Register(p) \/ SetProperty(p) \/ Unregister(p)
           \/ ConnectReturns \/ ConstructReturns
  <2>1. UNCHANGED <<unanswered, toHost, lostPings>> /\ outcome' # "lost"
    BY <1>4 DEF ConnectToTarget, Register, SetProperty, Unregister, ConnectReturns, ConstructReturns,
                Idle, Returned, Exit
  <2>2. \/ UNCHANGED toTarget
        \/ \E kind, p, id, arg, slot : kind # "Ping" /\ Ask(kind, p, id, arg, slot)
    BY <1>4 DEF ConnectToTarget, Register, SetProperty, Unregister, ConnectReturns, ConstructReturns,
                AskConstruct
  <2>3. toTarget' \in Seq(Request)
    BY <1>4, HostAsksTypes
  <2>4. CASE \E kind, p, id, arg, slot : kind # "Ping" /\ Ask(kind, p, id, arg, slot)
    <3>1. PICK kind, p, id, arg, slot : kind # "Ping" /\ Ask(kind, p, id, arg, slot)
      BY <2>4
    <3>2. Message(kind, id, arg, sent + 1).kind # "Ping"
      BY <3>1 DEF Message
    <3>3. toTarget' = Append(toTarget, Message(kind, id, arg, sent + 1))
      BY <3>1 DEF Ask
    <3> QED BY <1>1, <2>1, <2>3, <3>2, <3>3 DEF GivenUp
  <2> QED BY <1>1, <2>1, <2>2, <2>4 DEF GivenUp
<1>5. CASE DestructReturns
  <2>1. UNCHANGED <<unanswered, toTarget>> /\ outcome' # "lost"
    BY <1>5 DEF DestructReturns, Returned, Exit
  <2>2. \/ UNCHANGED <<toHost, lostPings>>
        \/ toHost' = <<>> /\ lostPings' = lostPings + Pongs(toHost)
    BY <1>5 DEF DestructReturns
  <2>3. Pongs(<<>>) = 0
    BY CountOfNone DEF Pongs
  <2> QED BY <1>0, <2>1, <2>2, <2>3 DEF PingsCount, GivenUp, Pings, Pongs
<1>6. CASE ReceiveAnswer
  <2>1. PICK m \in {toHost[1] : i \in DOMAIN toHost} :
            /\ toHost' = Tail(toHost)
            /\ \/ m.kind = "StatusOk" /\ UNCHANGED unanswered
               \/ /\ \/ m.kind = "ObjectId"
                     \/ m.kind = "Pong" /\ unanswered = 0
                  /\ UNCHANGED unanswered
               \/ m.kind = "Pong" /\ unanswered > 0 /\ unanswered' = unanswered - 1
            /\ UNCHANGED <<toTarget, lostPings>> /\ outcome' # "lost"
    BY <1>6 DEF ReceiveAnswer, Next1, InEventLoop, Exit, history
  <2>2. toHost # <<>> /\ m = Head(toHost)
    BY FirstMessage
  <2>3. Pongs(toHost) = Pongs(toHost') + (IF m.kind = "Pong" THEN 1 ELSE 0) /\ Pongs(toHost') \in Nat
    BY <2>1, <2>2, CountTail DEF Pongs
  <2>4. Pings(toTarget') = Pings(toTarget) /\ lostPings' = lostPings
    BY <2>1
  <2>5. unanswered \in Nat
    BY PingTypes
  <2>6. CASE m.kind = "Pong"
    <3>1. Pongs(toHost) = Pongs(toHost') + 1
      BY <2>3, <2>6
    <3>2. unanswered > 0
      BY <1>0, <2>3, <3>1 DEF PingsCount
    <3>3. unanswered' = unanswered - 1
      BY <2>1, <2>6, <3>2
    <3> QED BY <1>0, <2>1, <2>3, <2>4, <2>5, <3>1, <3>3 DEF PingsCount, GivenUp
  <2>7. CASE m.kind # "Pong"
    <3>1. Pongs(toHost) = Pongs(toHost')
      BY <2>3, <2>7
    <3> QED BY <1>0, <2>1, <2>4, <2>7, <3>1 DEF PingsCount, GivenUp
  <2> QED BY <2>6, <2>7
<1>7. CASE ReceiveChange
  <2>1. /\ UNCHANGED <<unanswered, lostPings>> /\ outcome' # "lost"
        /\ toHost # <<>> /\ toHost' = Tail(toHost) /\ Head(toHost).kind = "ChangeValue"
    BY <1>7 DEF ReceiveChange, Next1, InEventLoop, Exit
  <2>2. \/ UNCHANGED toTarget
        \/ \E id, arg, nr : toTarget' = Append(toTarget, Message("ChangeValue", id, arg, nr))
    BY <1>7 DEF ReceiveChange, Ask
  <2>3. toTarget' \in Seq(Request)
    BY <1>7, ReceiveTypes
  <2>4. Pongs(toHost) = Pongs(toHost')
    <3>1. Count("Pong", toHost) = Count("Pong", Tail(toHost)) + 0 /\ Count("Pong", Tail(toHost)) \in Nat
      BY <2>1, CountTail
    <3> QED BY <2>1, <3>1 DEF Pongs
  <2>5. Pings(toTarget') = Pings(toTarget)
    <3>1. CASE UNCHANGED toTarget
      BY <3>1
    <3>2. ASSUME NEW id, NEW arg, NEW nr, toTarget' = Append(toTarget, Message("ChangeValue", id, arg, nr))
          PROVE  Pings(toTarget') = Pings(toTarget)
      <4> DEFINE m == Message("ChangeValue", id, arg, nr)
      <4>1. m.kind # "Ping"
        BY DEF Message
      <4> HIDE DEF m
      <4>2. m \in Request
        <5>1. toTarget' = Append(toTarget, m)
          BY <3>2 DEF m
        <5>2. toTarget'[Len(toTarget) + 1] = m /\ Len(toTarget) + 1 \in DOMAIN toTarget'
          BY <5>1
        <5> QED BY <2>3, <5>2
      <4>3. Count("Ping", Append(toTarget, m)) = Count("Ping", toTarget) + 0
        BY <4>1, <4>2, CountAppend
      <4> QED BY <1>0, <3>2, <4>3 DEF Pings, m
    <3> QED BY <2>2, <3>1, <3>2
  <2> QED BY <1>0, <2>1, <2>4, <2>5 DEF PingsCount, GivenUp
<1>8. CASE OnPingTimerTick
  <2>1. UNCHANGED <<hung, wait, toHost, lostPings>>
    BY <1>8 DEF OnPingTimerTick, target
  <2>2. CASE /\ unanswered <= MaxUnanswered /\ unanswered' = unanswered + 1
             /\ toTarget' = Append(toTarget, Message("Ping", 0, None, 0)) /\ UNCHANGED outcome
    <3>1. outcome' # "lost"
      BY <1>8, <2>2 DEF OnPingTimerTick, InEventLoop
    <3>2. Message("Ping", 0, None, 0) \in Request /\ Message("Ping", 0, None, 0).kind = "Ping"
      BY DEF Message, Request, Kinds, UserMessages, Args, Argument
    <3>3. Pings(toTarget') = Pings(toTarget) + 1
      BY <2>2, <3>2, CountAppend DEF Pings
    <3>4. PingsCount'
      BY <1>0, <2>1, <2>2, <3>3, PingTypes DEF PingsCount, Pongs
    <3> QED BY <1>0, <2>1, <3>1, <3>4 DEF GivenUp
  <2>3. CASE unanswered > MaxUnanswered /\ Exit("lost") /\ UNCHANGED <<unanswered, toTarget>>
    <3>1. unanswered = 3 /\ unanswered' = 3
      BY <2>3, PingTypes DEF MaxUnanswered
    <3>2. \/ "overtaken" \in irregular'
          \/ (hung \/ Pings(toTarget) = 0) /\ (wait.slot \/ Pongs(toHost) = 0)
      <4>1. CASE OnTheWay({"Ping", "Pong"}, 0)
        BY <1>8, <4>1 DEF OnPingTimerTick, TimerExpires
      <4>2. CASE ~OnTheWay({"Ping", "Pong"}, 0)
        <5>1. \A i \in DOMAIN toTarget : ~hung => toTarget[i].kind # "Ping"
          BY <4>2 DEF OnTheWay, ToTarget
        <5>2. \A i \in DOMAIN toHost : ~wait.slot => toHost[i].kind # "Pong"
          BY <4>2 DEF OnTheWay, ToHost
        <5>3. hung \/ Pings(toTarget) = 0
          BY <5>1, CountType DEF Pings
        <5>4. wait.slot \/ Pongs(toHost) = 0
          BY <5>2, CountType DEF Pongs
        <5> QED BY <5>3, <5>4
      <4> QED BY <4>1, <4>2
    <3> QED BY <1>0, <2>1, <2>3, <3>1, <3>2 DEF PingsCount, GivenUp, Pings, Pongs
  <2> QED BY <1>8, <2>2, <2>3 DEF OnPingTimerTick
<1>9. CASE TargetStep
  BY <1>9, TargetHandles, TargetPings
<1>10. ASSUME NEW i \in Ioids, PinEvent(i) PROVE PingsCount' /\ GivenUp' /\ lostPings' \in Nat
  <2>1. UNCHANGED <<toTarget, unanswered, outcome, irregular, wait, hung>>
    BY <1>10 DEF PinEvent, host
  <2>2. PICK v \in Levels : Send(<<Change(instances[i], v)>>)
    BY <1>10 DEF PinEvent
  <2> DEFINE c == Change(instances[i], v)
  <2>3. c \in Reply /\ c.kind = "ChangeValue"
    <3>1. instances[i] \in Addresses
      BY <1>10 DEF PinEvent, TargetTypes
    <3> QED BY <3>1 DEF Change, Message, Reply, Args, Values
  <2> HIDE DEF c
  <2>4. Pongs(<<c>>) = 0
    BY <2>3, CountOfOne DEF Pongs
  <2>5. <<c>> \in Seq(Reply)
    BY <2>3
  <2>6. Pongs(toHost \o <<c>>) = Pongs(toHost)
    <3>1. Pongs(toHost \o <<c>>) = Pongs(toHost) + Pongs(<<c>>)
      BY <2>5, CountConcat DEF Pongs
    <3> QED BY <1>0, <2>4, <3>1
  <2>7. \/ PortOpen /\ toHost' = toHost \o <<c>> /\ UNCHANGED lostPings
        \/ lostPings' = lostPings + 0 /\ UNCHANGED toHost
    BY <2>2, <2>4 DEF Send, c
  <2>9. Pongs(toHost') = Pongs(toHost) /\ Pings(toTarget') = Pings(toTarget) /\ lostPings' = lostPings
    <3>1. Pings(toTarget') = Pings(toTarget)
      BY <2>1
    <3>2. CASE PortOpen /\ toHost' = toHost \o <<c>> /\ UNCHANGED lostPings
      BY <2>6, <3>1, <3>2
    <3>3. CASE lostPings' = lostPings + 0 /\ UNCHANGED toHost
      BY <1>0, <3>1, <3>3
    <3> QED BY <2>7, <3>2, <3>3
  <2>8. PingsCount' /\ lostPings' \in Nat
    BY <1>0, <2>1, <2>9 DEF PingsCount
  <2> QED BY <1>0, <2>1, <2>8, <2>9 DEF GivenUp, Pings
<1>11. CASE CheckConnection \/ Watchdog
  <2>1. UNCHANGED <<unanswered, outcome, irregular, wait>> /\ Reset
    BY <1>11 DEF CheckConnection, Watchdog, host
  <2>2. PICK n \in 0..Len(toHost) :
          /\ toHost' = SubSeq(toHost, 1, n)
          /\ lostPings' = lostPings + Pings(toTarget) + Pongs(SubSeq(toHost, n + 1, Len(toHost)))
    BY <2>1 DEF Reset
  <2>3. Pongs(toHost) = Pongs(toHost') + Pongs(SubSeq(toHost, n + 1, Len(toHost)))
        /\ Pongs(toHost') \in Nat /\ Pongs(SubSeq(toHost, n + 1, Len(toHost))) \in Nat
    BY <2>2, CountCut DEF Pongs
  <2>4. Pings(toTarget') = 0
    BY <2>1, CountOfNone DEF Reset, Pings
  <2>5. PingsCount' /\ lostPings' \in Nat
    <3>1. Pings(toTarget) \in Nat /\ lostPings \in Nat /\ Pongs(toHost) \in Nat
      BY <1>0, PingTypes
    <3>2. unanswered = Pings(toTarget) + Pongs(toHost) + lostPings
      BY <1>0 DEF PingsCount
    <3> DEFINE lost == Pongs(SubSeq(toHost, n + 1, Len(toHost)))
    <3>3. /\ Pongs(toHost) = Pongs(toHost') + lost /\ lost \in Nat
          /\ lostPings' = lostPings + Pings(toTarget) + lost
      BY <2>2, <2>3
    <3> HIDE DEF lost
    <3>4. lostPings' \in Nat /\ unanswered' = unanswered
      BY <2>1, <3>1, <3>3
    <3>5. unanswered = Pings(toTarget') + Pongs(toHost') + lostPings'
      BY <2>3, <2>4, <3>1, <3>2, <3>3
    <3> QED BY <3>4, <3>5 DEF PingsCount
  <2>6. Pongs(toHost) = 0 => Pongs(toHost') = 0
    BY <2>3
  <2> QED BY <1>0, <2>1, <2>4, <2>5, <2>6 DEF GivenUp, Pings
<1> QED BY <1>2, <1>3, <1>4, <1>5, <1>6, <1>7, <1>8, <1>9, <1>10, <1>11 DEF Next, WaitReturns, Receive

-----------------------------------------------------------------------------
(* The order of the messages.                                              *)

\* A message with a number comes before one with a greater number.
Before(r, s) == r.nr # 0 /\ s.nr # 0 => r.nr < s.nr
Ordered(s) == \A i, j \in DOMAIN s : i < j => Before(s[i], s[j])
Follows(s, t) == \A i \in DOMAIN s, j \in DOMAIN t : Before(s[i], t[j])
UpTo(s, n) == \A i \in DOMAIN s : s[i].nr <= n

\* Requests are handled, and their answers read, in the order they were sent in.
InOrder ==
    /\ UpTo(toTarget, sent) /\ UpTo(toHost, sent)
    /\ Ordered(toTarget) /\ Ordered(toHost) /\ Follows(toHost, toTarget)

\* The numbers of messages are numbers.
LEMMA Numbers == (\A m \in Request : m.nr \in Nat) /\ (\A m \in Reply : m.nr \in Nat)
  BY DEF Request, Reply

\* What is behind the first message is still in order, and behind it.
LEMMA OrderedTail ==
    ASSUME NEW S, NEW s \in Seq(S), s # <<>>, Ordered(s)
    PROVE  /\ Ordered(Tail(s))
           /\ \A i \in DOMAIN Tail(s) : Before(s[1], Tail(s)[i])
           /\ \A i \in DOMAIN Tail(s) : \E k \in DOMAIN s : Tail(s)[i] = s[k]
<1>1. Len(s) \in Nat /\ Len(s) > 0 /\ DOMAIN s = 1..Len(s)
  OBVIOUS
<1>2. DOMAIN Tail(s) = 1..Len(s) - 1 /\ \A i \in 1..Len(s) - 1 : Tail(s)[i] = s[i + 1]
  BY <1>1
<1>3. \A i \in DOMAIN Tail(s) : i + 1 \in DOMAIN s /\ Tail(s)[i] = s[i + 1] /\ 1 < i + 1 /\ 1 \in DOMAIN s
  BY <1>1, <1>2
<1>4. Ordered(Tail(s))
  <2>1. SUFFICES ASSUME NEW i \in DOMAIN Tail(s), NEW j \in DOMAIN Tail(s), i < j
                 PROVE  Before(Tail(s)[i], Tail(s)[j])
    BY DEF Ordered
  <2>2. i + 1 < j + 1
    BY <1>1, <1>2, <2>1
  <2> QED BY <1>3, <2>2 DEF Ordered
<1> QED BY <1>3, <1>4 DEF Ordered

\* Messages in order that follow others in order.
LEMMA OrderedConcat ==
    ASSUME NEW S, NEW s \in Seq(S), NEW t \in Seq(S), Ordered(s), Ordered(t), Follows(s, t)
    PROVE  Ordered(s \o t)
<1>1. /\ DOMAIN s = 1..Len(s) /\ DOMAIN (s \o t) = 1..Len(s) + Len(t) /\ DOMAIN t = 1..Len(t)
      /\ Len(s) \in Nat /\ Len(t) \in Nat
      /\ \A i \in DOMAIN s : (s \o t)[i] = s[i]
      /\ \A i \in DOMAIN t : (s \o t)[Len(s) + i] = t[i]
  BY MoreMessages
<1>2. SUFFICES ASSUME NEW i \in DOMAIN (s \o t), NEW j \in DOMAIN (s \o t), i < j
               PROVE  Before((s \o t)[i], (s \o t)[j])
  BY DEF Ordered
<1>3. \A k \in DOMAIN (s \o t) : k \in DOMAIN s \/ (k - Len(s) \in DOMAIN t /\ (s \o t)[k] = t[k - Len(s)])
  <2> TAKE k \in DOMAIN (s \o t)
  <2>1. CASE k > Len(s)
    <3>1. k - Len(s) \in DOMAIN t /\ Len(s) + (k - Len(s)) = k
      BY <1>1, <2>1
    <3> QED BY <1>1, <3>1
  <2> QED BY <1>1, <2>1
<1>4. CASE j \in DOMAIN s
  <2>1. i \in DOMAIN s
    BY <1>1, <1>2, <1>4
  <2> QED BY <1>1, <1>2, <1>4, <2>1 DEF Ordered
<1>5. CASE j \notin DOMAIN s /\ i \in DOMAIN s
  BY <1>1, <1>3, <1>5 DEF Follows
<1>6. CASE j \notin DOMAIN s /\ i \notin DOMAIN s
  <2>1. i - Len(s) < j - Len(s)
    BY <1>1, <1>2
  <2> QED BY <1>3, <1>6, <2>1 DEF Ordered
<1> QED BY <1>4, <1>5, <1>6

\* The elements of two channels that are put together.
LEMMA ConcatElements ==
    ASSUME NEW S, NEW s \in Seq(S), NEW t \in Seq(S)
    PROVE  \A k \in DOMAIN (s \o t) : \/ k \in DOMAIN s /\ (s \o t)[k] = s[k]
                                      \/ \E i \in DOMAIN t : (s \o t)[k] = t[i]
<1>1. /\ DOMAIN s = 1..Len(s) /\ DOMAIN (s \o t) = 1..Len(s) + Len(t) /\ DOMAIN t = 1..Len(t)
      /\ Len(s) \in Nat /\ Len(t) \in Nat
      /\ \A i \in DOMAIN s : (s \o t)[i] = s[i]
      /\ \A i \in DOMAIN t : (s \o t)[Len(s) + i] = t[i]
  BY MoreMessages
<1> TAKE k \in DOMAIN (s \o t)
<1>2. CASE k > Len(s)
  <2>1. k - Len(s) \in DOMAIN t /\ Len(s) + (k - Len(s)) = k
    BY <1>1, <1>2
  <2> QED BY <1>1, <2>1
<1> QED BY <1>1, <1>2

\* The messages stay in order.
LEMMA InOrderStep ==
    ASSUME Types, InOrder, ChannelStep
    PROVE  InOrder'
<1> USE DEF Types, ChannelTypes
<1>0. /\ toTarget \in Seq(Request) /\ toHost \in Seq(Reply) /\ sent \in Nat
      /\ \A i \in DOMAIN toTarget : toTarget[i] \in Request /\ toTarget[i].nr \in Nat
      /\ \A i \in DOMAIN toHost : toHost[i] \in Reply /\ toHost[i].nr \in Nat
      /\ UpTo(toTarget, sent) /\ UpTo(toHost, sent)
      /\ Ordered(toTarget) /\ Ordered(toHost) /\ Follows(toHost, toTarget)
  BY Numbers DEF InOrder
<1>1. ASSUME toHost # <<>>
      PROVE  /\ Ordered(Tail(toHost)) /\ UpTo(Tail(toHost), sent) /\ Follows(Tail(toHost), toTarget)
             /\ \A i \in DOMAIN Tail(toHost) : \E k \in DOMAIN toHost : Tail(toHost)[i] = toHost[k]
  BY <1>0, <1>1, OrderedTail DEF UpTo, Follows
<1>2. CASE UNCHANGED <<toTarget, toHost, sent>>
  BY <1>2 DEF InOrder, UpTo, Ordered, Follows, Before
<1>3. CASE \E m \in Request : Handles(m)
  <2>1. PICK m \in Request : Handles(m)
    BY <1>3
  <2>2. toTarget # <<>> /\ m = toTarget[1] /\ toTarget' = Tail(toTarget) /\ sent' = sent
    BY <2>1 DEF Handles
  <2>3. /\ Ordered(toTarget') /\ UpTo(toTarget', sent) /\ Follows(toHost, toTarget')
        /\ \A i \in DOMAIN toTarget' : Before(m, toTarget'[i])
        /\ \A i \in DOMAIN toTarget' : \E k \in DOMAIN toTarget : toTarget'[i] = toTarget[k]
    BY <1>0, <2>2, OrderedTail DEF UpTo, Follows
  <2>4. CASE UNCHANGED toHost
    BY <1>0, <2>2, <2>3, <2>4 DEF InOrder, UpTo, Ordered, Follows, Before
  <2>5. ASSUME NEW ms \in Seq(Reply), AnswersTo(m, ms), toHost' = toHost \o ms
        PROVE  InOrder'
    <3>1. \A i \in DOMAIN ms : ms[i].nr = 0 \/ (ms[i].nr = m.nr /\ i = 1)
      BY <2>5 DEF AnswersTo
    <3>2. 1 \in DOMAIN toTarget /\ m.nr <= sent /\ m.nr \in Nat
      BY <1>0, <2>2 DEF UpTo
    <3>3. Ordered(ms) /\ UpTo(ms, sent)
      <4>1. \A i, j \in DOMAIN ms : i < j => ms[j].nr = 0
        <5>1. DOMAIN ms = 1..Len(ms) /\ Len(ms) \in Nat
          OBVIOUS
        <5> QED BY <3>1, <5>1
      <4>2. Ordered(ms)
        BY <4>1 DEF Ordered, Before
      <4> QED BY <1>0, <3>1, <3>2, <4>2 DEF UpTo
    <3>4. Follows(toHost, ms)
      <4>1. \A i \in DOMAIN toHost : Before(toHost[i], m)
        BY <1>0, <2>2, <3>2 DEF Follows
      <4> QED BY <3>1, <4>1 DEF Follows, Before
    <3>5. Follows(ms, toTarget')
      BY <2>3, <3>1 DEF Follows, Before
    <3>6. Ordered(toHost')
      BY <1>0, <2>5, <3>3, <3>4, OrderedConcat
    <3>7. UpTo(toHost', sent') /\ Follows(toHost', toTarget')
      <4>1. \A k \in DOMAIN toHost' : \/ k \in DOMAIN toHost /\ toHost'[k] = toHost[k]
                                      \/ \E i \in DOMAIN ms : toHost'[k] = ms[i]
        BY <1>0, <2>5, ConcatElements
      <4>2. UpTo(toHost', sent')
        BY <1>0, <2>2, <3>3, <4>1 DEF UpTo
      <4> QED BY <2>3, <3>5, <4>1, <4>2 DEF Follows
    <3>8. UpTo(toTarget', sent')
      BY <2>2, <2>3
    <3> QED BY <2>3, <3>6, <3>7, <3>8 DEF InOrder
  <2> QED BY <2>1, <2>4, <2>5 DEF Handles
<1>4. CASE \E m \in Request : Sends(m)
  <2>1. PICK m \in Request : Sends(m)
    BY <1>4
  <2>2. m.nr \in Nat /\ sent' \in Nat /\ sent <= sent' /\ m.nr <= sent' /\ (m.nr = 0 \/ m.nr > sent)
        /\ toTarget' = Append(toTarget, m)
    BY <1>0, <2>1, Numbers DEF Sends
  <2>3. /\ DOMAIN toTarget' = DOMAIN toTarget \cup {Len(toTarget) + 1} /\ DOMAIN toTarget = 1..Len(toTarget)
        /\ toTarget'[Len(toTarget) + 1] = m /\ Len(toTarget) \in Nat
        /\ \A i \in DOMAIN toTarget : toTarget'[i] = toTarget[i]
    BY <1>0, <2>2, LastMessage
  <2>4. UpTo(toTarget', sent')
    BY <1>0, <2>2, <2>3 DEF UpTo
  <2>5. Ordered(toTarget')
    <3>1. \A i \in DOMAIN toTarget : Before(toTarget[i], m)
      BY <1>0, <2>2 DEF UpTo, Before
    <3>2. \A i, j \in DOMAIN toTarget' : i < j => i \in DOMAIN toTarget
      BY <2>3
    <3> QED BY <1>0, <2>3, <3>1, <3>2 DEF Ordered
  <2>6. UpTo(toHost, sent') /\ Follows(toHost, toTarget')
    <3>1. \A i \in DOMAIN toHost : Before(toHost[i], m)
      BY <1>0, <2>2 DEF UpTo, Before
    <3> QED BY <1>0, <2>2, <2>3, <3>1 DEF UpTo, Follows
  <2>7. CASE UNCHANGED toHost
    BY <1>0, <2>4, <2>5, <2>6, <2>7 DEF InOrder
  <2>8. CASE toHost # <<>> /\ toHost' = Tail(toHost)
    <3>1. UpTo(toHost', sent') /\ Follows(toHost', toTarget')
      BY <1>1, <2>6, <2>8 DEF UpTo, Follows
    <3> QED BY <1>1, <2>4, <2>5, <2>8, <3>1 DEF InOrder
  <2> QED BY <2>1, <2>7, <2>8 DEF Sends
<1>5. CASE toHost # <<>> /\ toHost' = Tail(toHost) /\ UNCHANGED <<toTarget, sent>>
  BY <1>0, <1>1, <1>5 DEF InOrder
<1>6. CASE \E r \in Reply : r.nr = 0 /\ toHost' = toHost \o <<r>> /\ UNCHANGED <<toTarget, sent>>
  <2>1. PICK r \in Reply : r.nr = 0 /\ toHost' = toHost \o <<r>> /\ UNCHANGED <<toTarget, sent>>
    BY <1>6
  <2>2. <<r>> \in Seq(Reply) /\ DOMAIN <<r>> = {1} /\ <<r>>[1].nr = 0
    BY <2>1
  <2>3. Ordered(<<r>>) /\ Follows(toHost, <<r>>) /\ UpTo(<<r>>, sent) /\ Follows(<<r>>, toTarget)
    BY <1>0, <2>2 DEF Ordered, Follows, UpTo, Before
  <2>4. \A k \in DOMAIN toHost' : \/ k \in DOMAIN toHost /\ toHost'[k] = toHost[k]
                                  \/ \E i \in DOMAIN <<r>> : toHost'[k] = <<r>>[i]
    BY <1>0, <2>1, <2>2, ConcatElements
  <2>5. Ordered(toHost')
    BY <1>0, <2>1, <2>2, <2>3, OrderedConcat
  <2>6. UpTo(toHost', sent) /\ Follows(toHost', toTarget)
    BY <1>0, <2>3, <2>4 DEF UpTo, Follows
  <2> QED BY <1>0, <2>1, <2>5, <2>6 DEF InOrder
<1>7. CASE /\ toTarget' \in {toTarget, <<>>} /\ UNCHANGED sent
           /\ \E n \in 0..Len(toHost) : toHost' = SubSeq(toHost, 1, n)
  <2>1. PICK n \in 0..Len(toHost) : toHost' = SubSeq(toHost, 1, n)
    BY <1>7
  <2>2. /\ DOMAIN toHost' = 1..n /\ 1..n \subseteq DOMAIN toHost
        /\ \A i \in 1..n : toHost'[i] = toHost[i]
    BY <1>0, <2>1, FirstMessages
  <2>3. UpTo(toHost', sent) /\ Ordered(toHost') /\ Follows(toHost', toTarget)
    BY <1>0, <2>2 DEF UpTo, Ordered, Follows
  <2>4. CASE toTarget' = toTarget
    BY <1>0, <1>7, <2>3, <2>4 DEF InOrder
  <2>5. CASE toTarget' = <<>>
    <3>1. DOMAIN toTarget' = {}
      BY <2>5
    <3> QED BY <1>7, <2>3, <3>1 DEF InOrder, UpTo, Ordered, Follows
  <2> QED BY <1>7, <2>4, <2>5
<1> QED BY <1>2, <1>3, <1>4, <1>5, <1>6, <1>7 DEF ChannelStep

-----------------------------------------------------------------------------
(* Calls and their messages.                                               *)

Among(s) == {s[i] : i \in DOMAIN s}

\* The messages of a channel have its type.
LEMMA AmongTypes ==
    ASSUME Types
    PROVE  Among(toTarget) \subseteq Request /\ Among(toHost) \subseteq Reply
  BY DEF Types, ChannelTypes, Among

\* Where the messages of the next state come from.
LEMMA ChannelElements ==
    ASSUME Types, InOrder, ChannelStep
    PROVE  /\ \A x \in Among(toTarget') : x \in Among(toTarget) \/ (x \in Request /\ Sends(x))
           /\ \A x \in Among(toHost') :
                \/ x \in Among(toHost)
                \/ x.nr = 0
                \/ \E m \in Among(toTarget) :
                    /\ Handles(m) /\ x.nr = m.nr /\ m.kind # "ChangeIoid"
                    /\ x.kind = "ObjectId" <=> m.kind = "Construct"
           /\ \A m \in Request : Handles(m) => \A x \in Among(toTarget') : x.nr # m.nr \/ m.nr = 0
<1> USE DEF Types, ChannelTypes
<1>0. /\ toTarget \in Seq(Request) /\ toHost \in Seq(Reply)
      /\ toTarget # <<>> => Among(Tail(toTarget)) \subseteq Among(toTarget)
      /\ toHost # <<>> => Among(Tail(toHost)) \subseteq Among(toHost)
  <2>1. InOrder
    OBVIOUS
  <2>2. toTarget # <<>> => Among(Tail(toTarget)) \subseteq Among(toTarget)
    BY <2>1, OrderedTail DEF InOrder, Among
  <2>3. toHost # <<>> => Among(Tail(toHost)) \subseteq Among(toHost)
    BY <2>1, OrderedTail DEF InOrder, Among
  <2> QED BY <2>2, <2>3
<1>1. \A x \in Among(toTarget') : x \in Among(toTarget) \/ (x \in Request /\ Sends(x))
  <2>1. CASE \E m \in Request : Sends(m)
    <3>1. PICK m \in Request : Sends(m)
      BY <2>1
    <3>2. /\ DOMAIN toTarget' = DOMAIN toTarget \cup {Len(toTarget) + 1}
          /\ toTarget'[Len(toTarget) + 1] = m
          /\ \A i \in DOMAIN toTarget : toTarget'[i] = toTarget[i]
      BY <1>0, <3>1, LastMessage DEF Sends
    <3> QED BY <3>1, <3>2 DEF Among
  <2>2. CASE \E m \in Request : Handles(m)
    BY <1>0, <2>2 DEF Handles
  <2>3. CASE toTarget' \in {toTarget, <<>>}
    BY <2>3 DEF Among
  <2> QED BY <2>1, <2>2, <2>3 DEF ChannelStep
<1>2. \A x \in Among(toHost') :
                \/ x \in Among(toHost)
                \/ x.nr = 0
                \/ \E m \in Among(toTarget) :
                    /\ Handles(m) /\ x.nr = m.nr /\ m.kind # "ChangeIoid"
                    /\ x.kind = "ObjectId" <=> m.kind = "Construct"
  <2>1. ASSUME NEW m \in Request, Handles(m)
        PROVE  m \in Among(toTarget)
    BY <1>0, <2>1 DEF Handles, Among
  <2>2. ASSUME NEW m \in Request, Handles(m), NEW ms \in Seq(Reply), AnswersTo(m, ms),
               toHost' = toHost \o ms, NEW x \in Among(toHost'), x \notin Among(toHost), x.nr # 0
        PROVE  x.nr = m.nr /\ m.kind # "ChangeIoid" /\ (x.kind = "ObjectId" <=> m.kind = "Construct")
    <3>1. PICK k \in DOMAIN toHost' : x = toHost'[k]
      BY <2>2 DEF Among
    <3>2. PICK i \in DOMAIN ms : x = ms[i]
      BY <1>0, <2>2, <3>1, ConcatElements DEF Among
    <3> QED BY <2>2, <3>2 DEF AnswersTo
  <2>3. CASE \E m \in Request : Handles(m)
    BY <2>1, <2>2, <2>3 DEF Handles
  <2>4. CASE \E r \in Reply : r.nr = 0 /\ toHost' = toHost \o <<r>> /\ UNCHANGED <<toTarget, sent>>
    <3>1. PICK r \in Reply : r.nr = 0 /\ toHost' = toHost \o <<r>>
      BY <2>4
    <3>2. <<r>> \in Seq(Reply) /\ DOMAIN <<r>> = {1} /\ <<r>>[1] = r
      OBVIOUS
    <3>3. \A k \in DOMAIN toHost' : \/ k \in DOMAIN toHost /\ toHost'[k] = toHost[k]
                                    \/ toHost'[k] = r
      BY <1>0, <3>1, <3>2, ConcatElements
    <3> QED BY <3>1, <3>3 DEF Among
  <2>5. CASE UNCHANGED toHost \/ (toHost # <<>> /\ toHost' = Tail(toHost))
    BY <1>0, <2>5
  <2>6. CASE \E n \in 0..Len(toHost) : toHost' = SubSeq(toHost, 1, n)
    <3>1. PICK n \in 0..Len(toHost) : toHost' = SubSeq(toHost, 1, n)
      BY <2>6
    <3>2. /\ DOMAIN toHost' = 1..n /\ 1..n \subseteq DOMAIN toHost
          /\ \A i \in 1..n : toHost'[i] = toHost[i]
      BY <1>0, <3>1, FirstMessages
    <3> QED BY <3>2 DEF Among
  <2> QED BY <2>3, <2>4, <2>5, <2>6 DEF ChannelStep, Sends
<1>3. ASSUME NEW m \in Request, Handles(m), NEW x \in Among(toTarget')
      PROVE  x.nr # m.nr \/ m.nr = 0
  <2>1. toTarget # <<>> /\ m = toTarget[1] /\ toTarget' = Tail(toTarget)
    BY <1>3 DEF Handles
  <2>2. Before(m, x)
    BY <2>1, <1>0, <1>3, OrderedTail DEF InOrder, Among
  <2>3. m.nr \in Nat
    BY Numbers
  <2> QED BY <2>2, <2>3 DEF Before
<1> QED BY <1>1, <1>2, <1>3

\* A request is sent, and the host waits for its answer: between two calls, or
\* from one step of registerObject() and initTestCase() to the next one.
Asks(kind, p, id, arg, slot) ==
    /\ kind \in Kinds \ {"Ping"} /\ p \in Probes /\ Ask(kind, p, id, arg, slot)
    /\ UNCHANGED <<ids, objects>>
    /\ UNCHANGED toHost \/ (toHost # <<>> /\ toHost' = Tail(toHost))
    /\ kind \notin {"Connect", "Construct"} => id = ids[p] /\ ids[p] \in Addresses
    /\ kind = "Construct" => ids[p] = None
    /\ kind = "Init" => wait.kind = "Construct" /\ p = wait.probe
    /\ kind = "Connect" => \A q \in Probes : ids[q] = None
    /\ \/ wait = NoWait
       \/ wait.kind = "Connect" /\ wait.by # Pending /\ kind \in {"Connect", "Construct"}
       \/ wait.kind = "Construct" /\ wait.by \notin {Pending, Expired} /\ kind = "Init" /\ p = wait.probe

\* The probe that is being registered gets its address.
Identified ==
    /\ wait.kind = "Construct" /\ wait.probe \in Probes /\ ids[wait.probe] = None
    /\ \E m \in Reply :
        /\ m.kind = "ObjectId" /\ toHost # <<>> /\ m = toHost[1] /\ toHost' = Tail(toHost)
        /\ objects' = [objects EXCEPT ![m.id] = wait.probe]
        /\ ids' = [ids EXCEPT ![wait.probe] = m.id]
    /\ UNCHANGED <<toTarget, sent>>

\* The host waits for what it has waited for.
Keeps ==
    /\ wait'.kind = wait.kind /\ wait'.probe = wait.probe
    /\ wait'.arg = wait.arg /\ wait'.nr = wait.nr
    /\ UNCHANGED wait \/ RequestTimeout \/ ReceiveAnswer
    /\ UNCHANGED <<ids, objects>> \/ Identified
    /\ \A x \in Among(toTarget') :
            \/ x \in Among(toTarget)
            \/ x.kind = "Ping"
            \/ /\ x.kind = "ChangeValue" /\ phase = "run" /\ phase' = "run" /\ x.nr = sent + 1
               /\ "nested" \in irregular' /\ \E q \in Probes : x.id = ids[q] /\ ids[q] \in Addresses
    /\ sent' = sent \/ (sent' = sent + 1 /\ phase = "run")

\* The host has got what it has waited for, or is started again.
Forgets ==
    /\ wait' = NoWait /\ UNCHANGED <<toTarget, sent>>
    /\ \/ wait.kind \in UserMessages /\ wait.by # Pending /\ UNCHANGED <<ids, objects, toHost>>
       \/ /\ wait.kind = "Destruct" /\ wait.by \notin {Pending, Expired} /\ ids[wait.probe] \in Addresses
          /\ ids' = [ids EXCEPT ![wait.probe] = None]
          /\ objects' = [objects EXCEPT ![ids[wait.probe]] = None]
          /\ toHost' \in {toHost, <<>>}
       \/ /\ toTarget = <<>> /\ toHost' = <<>>
          /\ objects' = Unregistered /\ ids' = [p \in Probes |-> None]

\* Every step is one of these.
LEMMA CallSteps ==
    ASSUME Base, Next
    PROVE  Keeps \/ Forgets \/ \E kind, p, id, arg, slot : Asks(kind, p, id, arg, slot)
<1> USE DEF Base
<1>0. /\ ids \in [Probes -> Addresses \cup {None}] /\ pin \in [Probes -> Pin] /\ wait \in Call
      /\ toHost \in Seq(Reply) /\ toTarget \in Seq(Request) /\ sent \in Nat
      /\ wait.kind # "none" => wait.probe \in Probes
  BY DEF Types, HostTypes, ChannelTypes, Call
<1>1. CASE Killed \/ BeginTestCase \/ NextPhase
  <2>1. UNCHANGED <<toTarget, sent, wait, ids, objects>>
    BY <1>1 DEF Killed, BeginTestCase, NextPhase, registry, history
  <2> QED BY <2>1 DEF Keeps
<1>2. CASE RequestTimeout
  <2>1. UNCHANGED <<toTarget, sent, ids, objects>> /\ wait' = [wait EXCEPT !.by = Expired]
    BY <1>2 DEF RequestTimeout, registry
  <2>2. Expired \in Int
    BY DEF Expired
  <2>3. wait'.kind = wait.kind /\ wait'.probe = wait.probe /\ wait'.arg = wait.arg /\ wait'.nr = wait.nr
    BY <2>1, <2>2, EndsWaitTypes
  <2> QED BY <1>2, <2>1, <2>3 DEF Keeps
<1>3. CASE Restart
  BY <1>3 DEF Restart, Forgets
<1>4. CASE RequestReturns
  <2>1. wait' = NoWait /\ UNCHANGED <<toTarget, sent, ids, objects, toHost>> /\ wait.kind \in UserMessages
        /\ wait.by # Pending
    BY <1>4 DEF RequestReturns, Returned, registry, history, UserMessages
  <2> QED BY <2>1 DEF Forgets
<1>5. CASE DestructReturns
  <2>1. CASE Exit("noResponse") /\ UNCHANGED <<objects, ids, todo, wait, state, pinging, toHost, lostPings>>
    <3>1. UNCHANGED <<toTarget, sent, wait, ids, objects>>
      BY <1>5, <2>1 DEF DestructReturns
    <3> QED BY <3>1 DEF Keeps
  <2>2. CASE /\ objects' = [objects EXCEPT ![ids[wait.probe]] = None]
             /\ ids' = [ids EXCEPT ![wait.probe] = None] /\ wait' = NoWait
             /\ toHost' \in {toHost, <<>>} /\ wait.by # Expired
    <3>1. wait.kind = "Destruct" /\ wait.by # Pending /\ UNCHANGED <<toTarget, sent>>
      BY <1>5 DEF DestructReturns, Returned
    <3>2. ids[wait.probe] \in Addresses
      BY <1>0, <3>1 DEF Control, Registered
    <3> QED BY <2>2, <3>1, <3>2 DEF Forgets
  <2> QED BY <1>5, <2>1, <2>2 DEF DestructReturns
<1>6. ASSUME NEW p \in Probes, ConnectToTarget(p)
      PROVE  Keeps \/ \E kind, q, id, arg, slot : Asks(kind, q, id, arg, slot)
  <2>1. CASE Ask("Connect", p, 0, None, FALSE)
    <3>1. UNCHANGED <<toHost, ids, objects>> /\ wait = NoWait /\ \A q \in Probes : ids[q] = None
      BY <1>6, NoWaitTypes DEF ConnectToTarget, registry, Idle, Registered
    <3>2. Asks("Connect", p, 0, None, FALSE)
      BY <2>1, <3>1 DEF Asks, Kinds, UserMessages
    <3> QED BY <3>2
  <2>2. CASE UNCHANGED <<state, toTarget, sent, wait, retries>>
    BY <1>6, <2>2 DEF ConnectToTarget, Keeps, registry
  <2> QED BY <1>6, <2>1, <2>2 DEF ConnectToTarget
<1>7. ASSUME NEW p \in Probes, Register(p)
      PROVE  \E kind, q, id, arg, slot : Asks(kind, q, id, arg, slot)
  <2>1. /\ UNCHANGED <<toHost, ids, objects>> /\ wait = NoWait /\ ids[p] = None
        /\ Ask("Construct", p, 0, None, FALSE)
    BY <1>7, NoWaitTypes DEF Register, AskConstruct, Idle, Registered
  <2>2. Asks("Construct", p, 0, None, FALSE)
    BY <2>1 DEF Asks, Kinds, UserMessages
  <2> QED BY <2>2
<1>8. ASSUME NEW p \in Probes, SetProperty(p)
      PROVE  \E kind, q, id, arg, slot : Asks(kind, q, id, arg, slot)
  <2>1. ids[p] \in Addresses /\ UNCHANGED <<toHost, ids, objects>> /\ wait = NoWait
    BY <1>0, <1>8, NoWaitTypes DEF SetProperty, Registered, registry, Idle
  <2>2. PICK kind \in Setters : \E arg : Ask(kind, p, ids[p], arg, FALSE)
    BY <1>8 DEF SetProperty, Setters
  <2>3. PICK arg : Ask(kind, p, ids[p], arg, FALSE)
    BY <2>2
  <2>4. Asks(kind, p, ids[p], arg, FALSE)
    BY <2>1, <2>3 DEF Asks, Kinds, UserMessages, Setters
  <2> QED BY <2>4
<1>9. ASSUME NEW p \in Probes, Unregister(p)
      PROVE  \E kind, q, id, arg, slot : Asks(kind, q, id, arg, slot)
  <2>1. /\ ids[p] \in Addresses /\ UNCHANGED <<toHost, ids, objects>> /\ wait = NoWait
        /\ Ask("Destruct", p, ids[p], None, FALSE)
    BY <1>0, <1>9, NoWaitTypes DEF Unregister, Registered, registry, Idle
  <2>2. Asks("Destruct", p, ids[p], None, FALSE)
    BY <2>1 DEF Asks, Kinds, UserMessages
  <2> QED BY <2>2
<1>10. CASE ConnectReturns
  <2>1. /\ wait.probe \in Probes /\ UNCHANGED <<toHost, ids, objects>> /\ wait.kind = "Connect"
        /\ wait.by # Pending
        /\ \A q \in Probes : ids[q] = None
    BY <1>0, <1>10 DEF ConnectReturns, Returned, Control, Registered
  <2>2. CASE AskConstruct(wait.probe)
    <3>1. Asks("Construct", wait.probe, 0, None, FALSE)
      BY <2>1, <2>2 DEF Asks, AskConstruct, Kinds, UserMessages
    <3> QED BY <3>1
  <2>3. CASE Ask("Connect", wait.probe, 0, None, FALSE)
    <3>1. Asks("Connect", wait.probe, 0, None, FALSE)
      BY <2>1, <2>3 DEF Asks, Kinds, UserMessages
    <3> QED BY <3>1
  <2>4. CASE UNCHANGED <<wait, toTarget, sent>>
    BY <2>1, <2>4 DEF Keeps
  <2> QED BY <1>10, <2>2, <2>3, <2>4 DEF ConnectReturns
<1>11. CASE ConstructReturns
  <2>1. wait.probe \in Probes /\ UNCHANGED <<toHost, ids, objects>> /\ wait.kind = "Construct"
        /\ wait.by # Pending
    BY <1>0, <1>11 DEF ConstructReturns, Returned, registry
  <2>2. ids[wait.probe] \in Addresses \cup {None}
    BY <1>0, <2>1
  <2>3. CASE /\ wait.by # Expired /\ ids[wait.probe] # None
             /\ Ask("Init", wait.probe, ids[wait.probe], pin[wait.probe], FALSE)
    <3>1. Asks("Init", wait.probe, ids[wait.probe], pin[wait.probe], FALSE)
      BY <2>1, <2>2, <2>3 DEF Asks, Kinds, UserMessages
    <3> QED BY <3>1
  <2>4. CASE UNCHANGED <<wait, toTarget, sent>>
    BY <2>1, <2>4 DEF Keeps
  <2> QED BY <1>11, <2>3, <2>4 DEF ConstructReturns
<1>12. CASE ReceiveAnswer
  <2>1. PICK m \in {toHost[1] : i \in DOMAIN toHost} :
            /\ toHost' = Tail(toHost) /\ Answered(m)
            /\ \/ UNCHANGED <<objects, ids>>
               \/ /\ m.kind = "ObjectId" /\ current # None
                  /\ objects' = [objects EXCEPT ![m.id] = current]
                  /\ ids' = [ids EXCEPT ![current] = m.id]
            /\ UNCHANGED <<toTarget, sent>>
    BY <1>12 DEF ReceiveAnswer, Next1, history, registry
  <2>2. m \in Reply /\ toHost # <<>> /\ m = toHost[1]
    BY <1>0, FirstMessage
  <2>3. wait'.kind = wait.kind /\ wait'.probe = wait.probe /\ wait'.arg = wait.arg /\ wait'.nr = wait.nr
    BY <2>1, <2>2, AnsweredTypes
  <2>4. current # None => wait.kind = "Construct" /\ current = wait.probe /\ ids[wait.probe] = None
    BY DEF Registered
  <2>5. UNCHANGED <<objects, ids>> \/ Identified
    BY <1>0, <2>1, <2>2, <2>4 DEF Identified
  <2> QED BY <1>12, <2>1, <2>3, <2>5 DEF Keeps
<1>13. CASE ReceiveChange
  <2>1. toHost # <<>> /\ toHost' = Tail(toHost) /\ UNCHANGED <<ids, objects>>
    BY <1>13 DEF ReceiveChange, Next1, registry
  <2>2. CASE UNCHANGED <<toTarget, sent, wait>>
    BY <2>1, <2>2 DEF Keeps
  <2>3. ASSUME phase = "run", wait = NoWait, NEW q \in Probes, NEW v \in Levels,
               Ask("ChangeValue", q, ids[q], v, TRUE)
        PROVE  \E kind, p, id, arg, slot : Asks(kind, p, id, arg, slot)
    <3>1. ids[q] \in Addresses
      BY <1>0, <2>3, NoWaitTypes DEF Registered
    <3>2. Asks("ChangeValue", q, ids[q], v, TRUE)
      BY <2>1, <2>3, <3>1 DEF Asks, Kinds, UserMessages
    <3> QED BY <3>2
  <2>4. ASSUME phase = "run", UNCHANGED <<wait, phase>>, NEW q \in Probes, NEW v \in Levels, sent' = sent + 1,
               irregular' = irregular \cup {"nested"},
               toTarget' = Append(toTarget, Message("ChangeValue", ids[q], v, sent + 1))
        PROVE  Keeps
    <3> DEFINE x == Message("ChangeValue", ids[q], v, sent + 1)
    <3>0. ids[q] \in Addresses
      BY <1>0, <2>4 DEF Registered
    <3>1. x.kind = "ChangeValue" /\ x.nr = sent + 1 /\ x.id = ids[q]
      BY DEF Message
    <3>2. x \in Request
      <4> QED BY <1>0, <3>0 DEF Message, Request, Kinds, UserMessages, Args, Argument, Values
    <3> HIDE DEF x
    <3>3. toTarget' = Append(toTarget, x)
      BY <2>4 DEF x
    <3>4. /\ DOMAIN toTarget' = DOMAIN toTarget \cup {Len(toTarget) + 1}
          /\ toTarget'[Len(toTarget) + 1] = x
          /\ \A i \in DOMAIN toTarget : toTarget'[i] = toTarget[i]
      BY <1>0, <3>2, <3>3, LastMessage
    <3>5. \A y \in Among(toTarget') : y \in Among(toTarget) \/ y = x
      BY <3>4 DEF Among
    <3> QED BY <2>1, <2>4, <3>0, <3>1, <3>5 DEF Keeps
  <2> QED BY ZenonT(40), <1>13, <2>2, <2>3, <2>4 DEF ReceiveChange
<1>14. CASE OnPingTimerTick
  <2>1. UNCHANGED <<sent, wait, ids, objects>>
    BY <1>14 DEF OnPingTimerTick, registry
  <2>2. CASE toTarget' = Append(toTarget, Message("Ping", 0, None, 0))
    <3> DEFINE x == Message("Ping", 0, None, 0)
    <3>1. x \in Request /\ x.kind = "Ping"
      BY DEF Message, Request, Kinds, UserMessages, Args, Argument
    <3> HIDE DEF x
    <3>2. toTarget' = Append(toTarget, x)
      BY <2>2 DEF x
    <3>3. /\ DOMAIN toTarget' = DOMAIN toTarget \cup {Len(toTarget) + 1}
          /\ toTarget'[Len(toTarget) + 1] = x
          /\ \A i \in DOMAIN toTarget : toTarget'[i] = toTarget[i]
      BY <1>0, <3>1, <3>2, LastMessage
    <3>4. \A y \in Among(toTarget') : y \in Among(toTarget) \/ y = x
      BY <3>3 DEF Among
    <3> QED BY <2>1, <3>1, <3>4 DEF Keeps
  <2>3. CASE UNCHANGED toTarget
    BY <2>1, <2>3 DEF Keeps
  <2> QED BY <1>14, <2>2, <2>3 DEF OnPingTimerTick
<1>15. CASE TargetStep \/ (\E i \in Ioids : PinEvent(i)) \/ CheckConnection \/ Watchdog
  <2>1. UNCHANGED <<sent, wait, ids, objects>>
    BY <1>15, TargetLeavesHost DEF host, registry
  <2>2. toTarget' = toTarget \/ toTarget' = <<>> \/ (toTarget # <<>> /\ toTarget' = Tail(toTarget))
    <3>1. CASE TargetStep
      BY <3>1, TargetHandles DEF Handles
    <3>2. CASE \E i \in Ioids : PinEvent(i)
      BY <3>2 DEF PinEvent
    <3>3. CASE CheckConnection \/ Watchdog
      BY <3>3 DEF CheckConnection, Watchdog, Reset
    <3> QED BY <1>15, <3>1, <3>2, <3>3
  <2>3. Among(toTarget') \subseteq Among(toTarget)
    <3>1. CASE toTarget # <<>> /\ toTarget' = Tail(toTarget)
      <4>1. 1 \in DOMAIN toTarget
        BY <1>0, <3>1
      <4>2. \A i \in DOMAIN Tail(toTarget) : i + 1 \in DOMAIN toTarget /\ Tail(toTarget)[i] = toTarget[i + 1]
        BY <1>0, <4>1, FirstMessage
      <4> QED BY <3>1, <4>2 DEF Among
    <3> QED BY <2>2, <3>1 DEF Among
  <2> QED BY <2>1, <2>3 DEF Keeps
<1> QED BY <1>1, <1>2, <1>3, <1>4, <1>5, <1>6, <1>7, <1>8, <1>9, <1>10, <1>11, <1>12, <1>13, <1>14,
           <1>15 DEF Next, WaitReturns, Receive

\* A message with the number of the call in progress is about this call.
Own ==
    /\ \A m \in Among(toTarget) : m.nr # 0 /\ m.nr = wait.nr =>
            /\ m.kind = wait.kind /\ m.arg = wait.arg
            /\ m.kind \notin {"Connect", "Construct"} => m.id = ids[wait.probe]
    /\ \A m \in Among(toHost) : m.nr # 0 /\ m.nr = wait.nr =>
            wait.kind # "ChangeIoid" /\ (m.kind = "ObjectId" <=> wait.kind = "Construct")

\* An object is constructed for the probe that is being registered, and the
\* connection is made before there is any.
Constructing ==
    /\ \A m \in Among(toTarget) \cup Among(toHost) : m.kind \in {"Construct", "ObjectId"} =>
            m.nr = sent /\ wait.kind = "Construct" /\ ids[wait.probe] = None
    /\ \A m \in Among(toTarget) : m.kind = "Connect" =>
            wait.kind \in {"Connect", "Construct"} /\ \A p \in Probes : ids[p] = None

\* Behind an answer to the request that was sent last there are only pings and
\* messages of pins.
LEMMA NothingBehind ==
    ASSUME Types, InOrder, toHost # <<>>, toHost[1].nr = sent, sent # 0
    PROVE  (\A x \in Among(toTarget) : x.nr = 0) /\ (\A x \in Among(Tail(toHost)) : x.nr = 0)
<1>1. /\ toTarget \in Seq(Request) /\ toHost \in Seq(Reply) /\ sent \in Nat /\ 1 \in DOMAIN toHost
      /\ UpTo(toTarget, sent) /\ UpTo(toHost, sent) /\ Ordered(toHost) /\ Follows(toHost, toTarget)
      /\ \A i \in DOMAIN toTarget : toTarget[i].nr \in Nat
      /\ \A i \in DOMAIN toHost : toHost[i].nr \in Nat
  BY Numbers DEF Types, ChannelTypes, InOrder
<1>2. \A x \in Among(toTarget) : x.nr = 0
  BY <1>1 DEF Follows, Before, UpTo, Among
<1>3. \A x \in Among(Tail(toHost)) : x.nr = 0
  <2>1. /\ \A i \in DOMAIN Tail(toHost) : Before(toHost[1], Tail(toHost)[i])
        /\ \A i \in DOMAIN Tail(toHost) : \E k \in DOMAIN toHost : Tail(toHost)[i] = toHost[k]
    BY <1>1, OrderedTail
  <2> QED BY <1>1, <2>1 DEF Before, UpTo, Among
<1> QED BY <1>2, <1>3

\* What is asked for is the only message with the new number.
LEMMA AskedMessage ==
    ASSUME Types, InOrder, NEW kind, NEW p, NEW id, NEW arg, NEW slot, Asks(kind, p, id, arg, slot),
           ChannelStep, NEW x
    PROVE  /\ x \in Among(toTarget') => \/ x \in Among(toTarget) /\ x.nr <= sent /\ x.nr \in Nat
                                        \/ x = Message(kind, id, arg, sent + 1)
           /\ x \in Among(toHost') => x \in Among(toHost) /\ x.nr <= sent /\ x.nr \in Nat
           /\ wait' = [kind |-> kind, probe |-> p, arg |-> arg, nr |-> sent + 1,
                       by |-> Pending, slot |-> slot]
           /\ sent' = sent + 1 /\ sent \in Nat
           /\ toTarget' = Append(toTarget, Message(kind, id, arg, sent + 1))
<1>1. /\ toTarget \in Seq(Request) /\ toHost \in Seq(Reply) /\ sent \in Nat
      /\ UpTo(toTarget, sent) /\ UpTo(toHost, sent)
      /\ \A i \in DOMAIN toTarget : toTarget[i].nr \in Nat
      /\ \A i \in DOMAIN toHost : toHost[i].nr \in Nat
  BY Numbers DEF Types, ChannelTypes, InOrder
<1>2. /\ toTarget' = Append(toTarget, Message(kind, id, arg, sent + 1)) /\ sent' = sent + 1
      /\ wait' = [kind |-> kind, probe |-> p, arg |-> arg, nr |-> sent + 1,
                  by |-> Pending, slot |-> slot]
      /\ UNCHANGED toHost \/ (toHost # <<>> /\ toHost' = Tail(toHost))
  BY DEF Asks, Ask
<1>3. ASSUME x \in Among(toTarget'), x \notin Among(toTarget)
      PROVE  x = Message(kind, id, arg, sent + 1)
  <2>1. toTarget' = Append(toTarget, x) /\ x \in Request
    BY <1>3, ChannelElements DEF Sends
  <2>2. Append(toTarget, x) = Append(toTarget, Message(kind, id, arg, sent + 1))
    BY <1>2, <2>1
  <2> HIDE DEF Message
  <2>3. Append(toTarget, x)[Len(toTarget) + 1] = x
    BY <1>1
  <2>4. Append(toTarget, Message(kind, id, arg, sent + 1))[Len(toTarget) + 1] = Message(kind, id, arg, sent + 1)
    BY <1>1
  <2> QED BY <2>2, <2>3, <2>4
<1>4. x \in Among(toHost') => x \in Among(toHost)
  <2>1. CASE toHost # <<>> /\ toHost' = Tail(toHost)
    <3>1. 1 \in DOMAIN toHost
      BY <1>1, <2>1
    <3>2. \A i \in DOMAIN Tail(toHost) : i + 1 \in DOMAIN toHost /\ Tail(toHost)[i] = toHost[i + 1]
      BY <1>1, <3>1, FirstMessage
    <3> QED BY <2>1, <3>2 DEF Among
  <2> QED BY <1>2, <2>1
<1>5. (x \in Among(toTarget) => x.nr <= sent /\ x.nr \in Nat) /\ (x \in Among(toHost) => x.nr <= sent /\ x.nr \in Nat)
  BY <1>1 DEF Among, UpTo
<1> QED BY <1>1, <1>2, <1>3, <1>4, <1>5

\* No message gets to another call.
LEMMA OwnStep ==
    ASSUME Base, InOrder, Own, Next
    PROVE  Own'
<1> USE DEF Base
<1>0. /\ ChannelStep /\ sent \in Nat
      /\ toTarget' \in Seq(Request) /\ toHost' \in Seq(Reply)
      /\ wait.nr \in Nat /\ wait.nr <= sent
  <2>1. ChannelStep
    BY ChannelSteps
  <2>2. wait.nr \in Nat /\ sent \in Nat
    BY DEF Types, HostTypes, ChannelTypes, Call
  <2>3. wait.nr <= sent
    BY <2>2, NoWaitTypes DEF Control
  <2> QED BY <2>1, <2>2, <2>3, ChannelsKeepTypes
<1>1. CASE Keeps
  <2>1. wait'.kind = wait.kind /\ wait'.probe = wait.probe /\ wait'.arg = wait.arg /\ wait'.nr = wait.nr
    BY <1>1 DEF Keeps
  <2>2. wait.kind # "Construct" => ids' = ids
    BY <1>1 DEF Keeps, Identified
  <2>3. ASSUME NEW x \in Among(toTarget'), x.nr # 0, x.nr = wait.nr
        PROVE  /\ x.kind = wait.kind /\ x.arg = wait.arg
               /\ x.kind \notin {"Connect", "Construct"} => x.id = ids'[wait.probe]
    <3>1. x.kind # "Ping" /\ x.nr # sent + 1
      BY <1>0, <2>3 DEF Among, Request
    <3>2. x \in Among(toTarget)
      BY <1>1, <3>1 DEF Keeps
    <3> QED BY <2>2, <2>3, <3>2 DEF Own
  <2>4. ASSUME NEW x \in Among(toHost'), x.nr # 0, x.nr = wait.nr
        PROVE  wait.kind # "ChangeIoid" /\ (x.kind = "ObjectId" <=> wait.kind = "Construct")
    <3>1. CASE x \in Among(toHost)
      BY <2>4, <3>1 DEF Own
    <3>2. CASE x \notin Among(toHost)
      <4>1. PICK m \in Among(toTarget) : /\ x.nr = m.nr /\ m.kind # "ChangeIoid"
                                         /\ x.kind = "ObjectId" <=> m.kind = "Construct"
        BY <1>0, <2>4, <3>2, ChannelElements
      <4>2. m.kind = wait.kind
        BY <2>4, <4>1 DEF Own
      <4> QED BY <4>1, <4>2
    <3> QED BY <3>1, <3>2
  <2> QED BY <2>1, <2>3, <2>4 DEF Own
<1>2. CASE Forgets
  <2>1. wait'.nr = 0
    BY <1>2, NoWaitTypes DEF Forgets
  <2> QED BY <2>1 DEF Own
<1>3. ASSUME NEW kind, NEW p, NEW id, NEW arg, NEW slot, Asks(kind, p, id, arg, slot)
      PROVE  Own'
  <2>1. /\ wait' = [kind |-> kind, probe |-> p, arg |-> arg, nr |-> sent + 1,
                    by |-> Pending, slot |-> slot]
        /\ ids' = ids /\ (kind \notin {"Connect", "Construct"} => id = ids[p])
    BY <1>0, <1>3, AskedMessage DEF Asks
  <2>2. ASSUME NEW x \in Among(toTarget'), x.nr # 0, x.nr = wait'.nr
        PROVE  /\ x.kind = wait'.kind /\ x.arg = wait'.arg
               /\ x.kind \notin {"Connect", "Construct"} => x.id = ids'[wait'.probe]
    <3>1. x = Message(kind, id, arg, sent + 1)
      <4>1. x.nr = sent + 1
        BY <2>1, <2>2
      <4>2. (x.nr <= sent /\ x.nr \in Nat) \/ x = Message(kind, id, arg, sent + 1)
        BY <1>0, <1>3, AskedMessage
      <4> QED BY <1>0, <4>1, <4>2
    <3> QED BY <2>1, <3>1 DEF Message
  <2>3. ASSUME NEW x \in Among(toHost')
        PROVE  x.nr # wait'.nr
    <3>1. x.nr <= sent /\ x.nr \in Nat
      BY <1>0, <1>3, AskedMessage
    <3> QED BY <1>0, <2>1, <3>1
  <2> QED BY <2>2, <2>3 DEF Own
<1> QED BY <1>1, <1>2, <1>3, CallSteps

\* The target constructs nothing for a probe that has an object.
LEMMA ConstructingStep ==
    ASSUME Base, InOrder, Constructing, Next
    PROVE  Constructing'
<1> USE DEF Base
<1>0. /\ ChannelStep /\ sent \in Nat
      /\ toTarget' \in Seq(Request) /\ toHost' \in Seq(Reply)
      /\ toTarget \in Seq(Request) /\ toHost \in Seq(Reply)
  BY ChannelSteps, ChannelsKeepTypes DEF Types, ChannelTypes
<1>1. /\ \A x \in Among(toTarget) \cup Among(toTarget') : x.kind \in {"Connect", "Construct"} => x.nr # 0
      /\ \A x \in Among(toHost) \cup Among(toHost') : x.kind = "ObjectId" => x.nr # 0
      /\ \A x \in Among(toTarget) \cup Among(toTarget') : x.kind # "ObjectId"
      /\ \A x \in Among(toHost) \cup Among(toHost') : x.kind # "Construct"
  <2>1. \A x \in Among(toTarget) \cup Among(toTarget') : x \in Request
    BY <1>0 DEF Among
  <2>2. \A x \in Among(toHost) \cup Among(toHost') : x \in Reply
    BY <1>0 DEF Among
  <2>3. \A x \in Request : x.kind # "ObjectId" /\ (x.kind \in {"Connect", "Construct"} => x.nr # 0)
    BY DEF Request, Kinds, UserMessages
  <2>4. \A x \in Reply : x.kind # "Construct" /\ (x.kind = "ObjectId" => x.nr # 0)
    BY DEF Reply
  <2> QED BY <2>1, <2>2, <2>3, <2>4
<1>2. CASE Keeps
  <2>1. /\ wait'.kind = wait.kind /\ wait'.probe = wait.probe
        /\ wait.kind = "Construct" => sent' = sent
    BY <1>2 DEF Keeps, Control
  <2>2. ASSUME Identified
        PROVE  (\A x \in Among(toTarget') : x.nr = 0) /\ (\A x \in Among(toHost') : x.nr = 0)
    <3>1. PICK m \in Reply : m.kind = "ObjectId" /\ toHost # <<>> /\ m = toHost[1] /\ toHost' = Tail(toHost)
      BY <2>2 DEF Identified
    <3>2. toTarget' = toTarget
      BY <2>2 DEF Identified
    <3>3. m \in Among(toHost)
      BY <1>0, <3>1 DEF Among
    <3>4. toHost[1].nr = sent /\ sent # 0
      BY <1>1, <3>1, <3>3 DEF Constructing
    <3> QED BY <3>1, <3>2, <3>4, NothingBehind
  <2>3. ASSUME NEW x \in Among(toTarget'), x.kind \in {"Connect", "Construct"}
        PROVE  x \in Among(toTarget) /\ ids' = ids
    <3>1. x \in Among(toTarget)
      BY <1>2, <2>3 DEF Keeps
    <3> QED BY <1>1, <1>2, <2>2, <2>3, <3>1 DEF Keeps
  <2>4. ASSUME NEW x \in Among(toHost'), x.kind = "ObjectId"
        PROVE  /\ ids' = ids
               /\ \/ x \in Among(toHost)
                  \/ \E m \in Among(toTarget) : m.kind = "Construct" /\ x.nr = m.nr
    <3>1. x.nr # 0
      BY <1>1, <2>4
    <3>2. ids' = ids
      BY <1>2, <2>2, <3>1 DEF Keeps
    <3>3. x \in Among(toHost) \/ \E m \in Among(toTarget) : m.kind = "Construct" /\ x.nr = m.nr
      BY <1>0, <2>4, <3>1, ChannelElements
    <3> QED BY <3>2, <3>3
  <2> QED BY <1>1, <2>1, <2>3, <2>4 DEF Constructing
<1>3. CASE Forgets
  <2>1. CASE wait.kind \in UserMessages \cup {"Destruct"}
    <3>1. /\ \A x \in Among(toTarget) : x.kind \notin {"Connect", "Construct"}
          /\ \A x \in Among(toHost) : x.kind # "ObjectId"
      BY <2>1 DEF Constructing, UserMessages
    <3>2. toTarget' = toTarget /\ toHost' \in {toHost, <<>>}
      BY <1>3 DEF Forgets
    <3>3. Among(toHost') \subseteq Among(toHost)
      BY <3>2 DEF Among
    <3> QED BY <1>1, <3>1, <3>2, <3>3 DEF Constructing
  <2>2. CASE toTarget' = <<>> /\ toHost' = <<>>
    <3>1. Among(toTarget') = {} /\ Among(toHost') = {}
      BY <2>2 DEF Among
    <3> QED BY <3>1 DEF Constructing
  <2> QED BY <1>3, <2>1, <2>2 DEF Forgets
<1>4. ASSUME NEW kind, NEW p, NEW id, NEW arg, NEW slot, Asks(kind, p, id, arg, slot)
      PROVE  Constructing'
  <2>1. /\ wait'.kind = kind /\ wait'.probe = p /\ sent' = sent + 1
    BY <1>0, <1>4, AskedMessage
  <2>2. /\ ids' = ids /\ (kind = "Construct" => ids[p] = None)
        /\ kind = "Connect" => \A q \in Probes : ids[q] = None
        /\ kind \notin {"Connect", "Construct"} => ids[p] # None /\ p \in Probes
        /\ \/ wait = NoWait
           \/ wait.kind = "Connect" /\ kind \in {"Connect", "Construct"}
           \/ wait.kind = "Construct" /\ kind = "Init" /\ p = wait.probe
    BY <1>4, LinkAssumption DEF Asks
  <2>3. /\ \A x \in Among(toTarget) : x.kind # "Construct"
        /\ \A x \in Among(toHost) : x.kind # "ObjectId"
    BY <2>2, NoWaitTypes DEF Constructing
  <2>4. \A x \in Among(toHost') : x.kind # "ObjectId"
    BY <1>0, <1>4, <2>3, AskedMessage
  <2>5. ASSUME NEW x \in Among(toTarget'), x.kind = "Construct"
        PROVE  x.nr = sent' /\ wait'.kind = "Construct" /\ ids'[wait'.probe] = None
    <3>1. x = Message(kind, id, arg, sent + 1)
      BY <1>0, <1>4, <2>3, <2>5, AskedMessage
    <3> QED BY <2>1, <2>2, <2>5, <3>1 DEF Message
  <2>6. ASSUME NEW x \in Among(toTarget'), x.kind = "Connect"
        PROVE  wait'.kind \in {"Connect", "Construct"} /\ \A q \in Probes : ids'[q] = None
    <3>1. CASE x = Message(kind, id, arg, sent + 1)
      BY <2>1, <2>2, <2>6, <3>1 DEF Message
    <3>2. CASE x \in Among(toTarget)
      BY <2>1, <2>2, <2>6, <3>2, NoWaitTypes DEF Constructing
    <3> QED BY <1>0, <1>4, <3>1, <3>2, AskedMessage
  <2> QED BY <1>1, <2>4, <2>5, <2>6 DEF Constructing
<1> QED BY <1>2, <1>3, <1>4, CallSteps

-----------------------------------------------------------------------------
(* Objects of the target.                                                  *)

\* What is in memory is an object.
LEMMA ObjectTypes ==
    /\ \A o \in Object : o # Dead
    /\ Fresh \in Object
    /\ \A o \in Object, v \in Values : [o EXCEPT !.value = v] \in Object
    /\ \A o \in Object, b \in BOOLEAN : [o EXCEPT !.out = b] \in Object
    /\ \A o \in Object, i \in Ioids : [o EXCEPT !.ioid = i] \in Object
<1>1. DOMAIN Dead = {"ioid"}
  BY DEF Dead
<1>2. \A o \in Object : "open" \in DOMAIN o
  BY DEF Object
<1>3. \A o \in Object : o # Dead
  BY <1>1, <1>2
<1>4. Fresh \in Object
  BY DEF Fresh, Object, Values
<1>5. \A o \in Object, v \in Values : [o EXCEPT !.value = v] \in Object
  BY DEF Object
<1>6. \A o \in Object, b \in BOOLEAN : [o EXCEPT !.out = b] \in Object
  BY DEF Object
<1>7. \A o \in Object, i \in Ioids : [o EXCEPT !.ioid = i] \in Object
  BY DEF Object
<1> QED BY <1>3, <1>4, <1>5, <1>6, <1>7

\* The target handles the first message, whichever handler it is.
LEMMA HandledFirst ==
    ASSUME Types, TargetStep
    PROVE  \E m \in Request : /\ Handles(m) /\ {toTarget[1] : i \in DOMAIN toTarget} = {m}
                              /\ m \in Among(toTarget) /\ m = toTarget[1]
<1>1. PICK m \in Request : Handles(m)
  BY TargetHandles
<1>2. toTarget \in Seq(Request) /\ toTarget # <<>> /\ m = toTarget[1]
  BY <1>1 DEF Handles, Types, ChannelTypes
<1>3. 1 \in DOMAIN toTarget
  BY <1>2
<1> QED BY <1>1, <1>2, <1>3 DEF Among

\* The messages and the interrupts of a pin neither make objects nor delete them.
LEMMA SameObjects ==
    ASSUME Types, TargetInit \/ TargetSetter \/ TargetSetIoid \/ (\E i \in Ioids : PinEvent(i)),
           NEW a \in Addresses
    PROVE  Live(a)' <=> Live(a)
<1> USE DEF Types, TargetTypes
<1>0. obj \in [Addresses -> {Dead} \cup Object]
  OBVIOUS
<1>1. CASE TargetInit \/ TargetSetter \/ TargetSetIoid
  <2>1. PICK m \in Request : {toTarget[1] : i \in DOMAIN toTarget} = {m}
    BY <1>1, HandledFirst DEF TargetStep
  <2>2. m.kind \in UserMessages /\ m.id \in Addresses /\ Live(m.id)
    BY <1>1, <2>1 DEF TargetInit, TargetSetter, TargetSetIoid, Take, Request, UserMessages
  <2>3. obj[m.id] \in Object
    BY <1>0, <2>2 DEF Live
  <2>4. obj'[m.id] \in Object /\ \A b \in Addresses \ {m.id} : obj'[b] = obj[b]
    <3>1. CASE TargetInit
      <4>1. m.arg.ioid \in Ioids /\ m.arg.out \in BOOLEAN /\ m.arg.value \in Values
        BY <2>1, <3>1 DEF TargetInit, Take, Request, Argument, Pin
      <4>2. CASE obj' = [obj EXCEPT ![m.id].ioid = m.arg.ioid]
        <5>1. obj'[m.id] = [obj[m.id] EXCEPT !.ioid = m.arg.ioid]
          BY <1>0, <2>2, <4>2
        <5> QED BY <1>0, <2>3, <4>1, <4>2, <5>1, ObjectTypes
      <4>3. ASSUME NEW v \in IF m.arg.out THEN {m.arg.value} ELSE Levels,
                   obj' = [obj EXCEPT ![m.id] = [ioid |-> m.arg.ioid, out |-> m.arg.out,
                                                 open |-> TRUE, value |-> v]]
            PROVE  obj'[m.id] \in Object /\ \A b \in Addresses \ {m.id} : obj'[b] = obj[b]
        <5>1. obj'[m.id] = [ioid |-> m.arg.ioid, out |-> m.arg.out, open |-> TRUE, value |-> v]
          BY <1>0, <2>2, <4>3
        <5>2. v \in Values
          BY <4>1, <4>3 DEF Values
        <5>3. obj'[m.id] \in Object
          BY <4>1, <5>1, <5>2 DEF Object
        <5> QED BY <1>0, <4>3, <5>3
      <4> QED BY <2>1, <3>1, <4>2, <4>3 DEF TargetInit
    <3>2. CASE TargetSetter
      <4>1. /\ m.kind \in {"ChangeValue", "ChangeType", "ChangePullMode"}
            /\ m.kind = "ChangeValue" => m.arg \in Values
            /\ m.kind = "ChangeType" => m.arg \in BOOLEAN
        BY <2>1, <3>2 DEF TargetSetter, Take, Request, Argument
      <4>2. obj' = CASE m.kind = "ChangeValue" -> [obj EXCEPT ![m.id].value = m.arg]
                     [] m.kind = "ChangeType" -> [obj EXCEPT ![m.id].out = m.arg]
                     [] OTHER -> obj
        BY <2>1, <3>2 DEF TargetSetter
      <4>3. /\ \/ obj'[m.id] = obj[m.id]
               \/ m.kind = "ChangeValue" /\ obj'[m.id] = [obj[m.id] EXCEPT !.value = m.arg]
               \/ m.kind = "ChangeType" /\ obj'[m.id] = [obj[m.id] EXCEPT !.out = m.arg]
            /\ \A b \in Addresses \ {m.id} : obj'[b] = obj[b]
        BY <1>0, <2>2, <4>1, <4>2
      <4> QED BY <2>3, <4>1, <4>3, ObjectTypes
    <3>3. CASE TargetSetIoid
      <4>1. m.arg \in Ioids
        BY <2>1, <3>3 DEF TargetSetIoid, Take, Request, Argument
      <4>2. obj' = [obj EXCEPT ![m.id].ioid = m.arg]
        BY <2>1, <3>3 DEF TargetSetIoid
      <4>3. /\ obj'[m.id] = [obj[m.id] EXCEPT !.ioid = m.arg]
            /\ \A b \in Addresses \ {m.id} : obj'[b] = obj[b]
        BY <1>0, <2>2, <4>2
      <4> QED BY <2>3, <4>1, <4>3, ObjectTypes
    <3> QED BY <1>1, <3>1, <3>2, <3>3
  <2> QED BY <2>2, <2>4, ObjectTypes DEF Live
<1>2. ASSUME NEW i \in Ioids, PinEvent(i) PROVE Live(a)' <=> Live(a)
  <2>1. PICK v \in Levels : obj' = [obj EXCEPT ![instances[i]].value = v]
    BY <1>2 DEF PinEvent
  <2>2. obj'[a] = obj[a] \/ obj'[a] = [obj[a] EXCEPT !.value = v]
    BY <1>0, <2>1
  <2>3. [Dead EXCEPT !.value = v] = Dead
    BY DEF Dead
  <2>4. v \in Values
    BY DEF Values
  <2> QED BY <1>0, <2>2, <2>3, <2>4, ObjectTypes DEF Live
<1> QED BY <1>1, <1>2

\* What is in memory stays there until it is destructed, or a connection is made.
LEMMA ObjectsStay ==
    ASSUME Types, TargetStep \/ (\E i \in Ioids : PinEvent(i)) \/ CheckConnection \/ Watchdog,
           connected', NEW a \in Addresses, Live(a)
    PROVE  Live(a)' \/ \E m \in Among(toTarget) :
                            Handles(m) /\ (m.kind = "Connect" \/ (m.kind = "Destruct" /\ m.id = a))
<1> USE DEF Types, TargetTypes
<1>0. obj[a] \in Object /\ obj \in [Addresses -> {Dead} \cup Object]
  BY DEF Live
<1>1. CASE TargetStep
  <2>1. PICK m \in Request : /\ Handles(m) /\ {toTarget[1] : i \in DOMAIN toTarget} = {m}
                             /\ m \in Among(toTarget)
    BY <1>1, HandledFirst
  <2>2. CASE NotConnected \/ TargetPing
    <3>1. obj' = obj
      BY <2>2 DEF NotConnected, TargetPing, target
    <3> QED BY <3>1 DEF Live
  <2>3. CASE TargetConnect
    <3>1. m.kind = "Connect"
      BY <2>1, <2>3 DEF TargetConnect, Take
    <3> QED BY <2>1, <3>1
  <2>4. CASE TargetConstruct
    <3>1. PICK b \in Addresses : ~Live(b) /\ obj' = [obj EXCEPT ![b] = Fresh]
      BY <2>4 DEF TargetConstruct
    <3>2. obj'[a] = obj[a]
      BY <1>0, <3>1
    <3> QED BY <3>2 DEF Live
  <2>5. CASE TargetDestruct
    <3>1. m.kind = "Destruct" /\ (obj' = obj \/ obj' = [obj EXCEPT ![m.id] = Dead])
      BY <2>1, <2>5 DEF TargetDestruct, Take
    <3>2. m.id # a => obj'[a] = obj[a]
      BY <1>0, <3>1
    <3> QED BY <2>1, <3>1, <3>2 DEF Live
  <2>6. CASE TargetInit \/ TargetSetter \/ TargetSetIoid
    BY <2>6, SameObjects
  <2> QED BY <1>1, <2>2, <2>3, <2>4, <2>5, <2>6 DEF TargetStep
<1>2. CASE \E i \in Ioids : PinEvent(i)
  BY <1>2, SameObjects
<1>3. CASE CheckConnection \/ Watchdog
  <2>1. connected' = FALSE
    BY <1>3 DEF CheckConnection, Watchdog, Reset
  <2> QED BY <2>1
<1> QED BY <1>1, <1>2, <1>3

\* Only the request for a connection makes one.
LEMMA Connects ==
    ASSUME Types, TargetStep \/ (\E i \in Ioids : PinEvent(i)) \/ CheckConnection \/ Watchdog, connected'
    PROVE  connected \/ \E m \in Among(toTarget) : Handles(m) /\ m.kind = "Connect"
<1>1. CASE TargetStep
  <2>1. PICK m \in Request : /\ Handles(m) /\ {toTarget[1] : i \in DOMAIN toTarget} = {m}
                             /\ m \in Among(toTarget)
    BY <1>1, HandledFirst
  <2>2. CASE TargetConnect
    BY <2>1, <2>2 DEF TargetConnect, Take
  <2>3. CASE ~TargetConnect
    BY <1>1, <2>3 DEF TargetStep, NotConnected, TargetConstruct, TargetDestruct, TargetPing, TargetInit,
                      TargetSetter, TargetSetIoid, target
  <2> QED BY <2>1, <2>2, <2>3
<1>2. CASE \E i \in Ioids : PinEvent(i)
  BY <1>2 DEF PinEvent
<1>3. CASE CheckConnection \/ Watchdog
  BY <1>3 DEF CheckConnection, Watchdog, Reset
<1> QED BY <1>1, <1>2, <1>3

\* An address that goes to the host is the one of a new object.
LEMMA NewAddress ==
    ASSUME Types, InOrder, ChannelStep,
           TargetStep \/ (\E i \in Ioids : PinEvent(i)) \/ CheckConnection \/ Watchdog,
           NEW x \in Among(toHost'), x.kind = "ObjectId", x.nr # 0, x \notin Among(toHost)
    PROVE  /\ \E m \in Among(toTarget) : Handles(m) /\ m.kind = "Construct"
           /\ connected /\ x.id \in Addresses /\ ~Live(x.id) /\ Live(x.id)'
<1> USE DEF Types, ChannelTypes, TargetTypes
<1>1. CASE TargetStep
  <2>1. PICK m \in Request : /\ Handles(m) /\ {toTarget[1] : i \in DOMAIN toTarget} = {m}
                             /\ m \in Among(toTarget) /\ m = toTarget[1]
    BY <1>1, HandledFirst
  <2>2. m.kind = "Construct"
    <3>1. PICK n \in Among(toTarget) : Handles(n) /\ (x.kind = "ObjectId" <=> n.kind = "Construct")
      BY ChannelElements
    <3>2. n = m
      BY <2>1, <3>1 DEF Handles
    <3> QED BY <3>1, <3>2
  <2>3. TargetConstruct \/ NotConnected
    BY <1>1, <2>1, <2>2 DEF TargetStep, TargetConnect, TargetDestruct, TargetPing, TargetInit,
                            TargetSetter, TargetSetIoid, Take
  <2>4. TargetConstruct
    BY <2>3 DEF NotConnected, Among
  <2>5. PICK a \in Addresses : /\ ~Live(a) /\ obj' = [obj EXCEPT ![a] = Fresh] /\ connected
                               /\ Send(<<Message("ObjectId", a, None, m.nr)>>)
    BY <2>1, <2>4 DEF TargetConstruct
  <2> DEFINE y == Message("ObjectId", a, None, m.nr)
  <2>6. y \in Reply /\ y.id = a
    <3>1. m.nr \in Nat /\ m.nr # 0
      BY <2>2 DEF Request
    <3> QED BY <3>1 DEF Message, Reply, Args
  <2> HIDE DEF y
  <2>7. toHost' = toHost \o <<y>>
    <3>1. toHost' # toHost
      OBVIOUS
    <3> QED BY <2>5, <3>1 DEF Send, y
  <2>8. x = y
    <3>1. <<y>> \in Seq(Reply) /\ DOMAIN <<y>> = {1} /\ <<y>>[1] = y
      BY <2>6
    <3>2. \A k \in DOMAIN toHost' : (k \in DOMAIN toHost /\ toHost'[k] = toHost[k]) \/ toHost'[k] = y
      BY <2>7, <3>1, ConcatElements
    <3> QED BY <3>2 DEF Among
  <2>9. Live(a)'
    <3>1. obj'[a] = Fresh
      BY <2>5
    <3> QED BY <3>1, ObjectTypes DEF Live
  <2> QED BY <2>1, <2>2, <2>5, <2>6, <2>8, <2>9
<1>2. ASSUME NEW i \in Ioids, PinEvent(i) PROVE FALSE
  <2>1. PICK v \in Levels : Send(<<Change(instances[i], v)>>)
    BY <1>2 DEF PinEvent
  <2> DEFINE y == Change(instances[i], v)
  <2>2. y \in Reply /\ y.kind = "ChangeValue"
    <3>1. instances[i] \in Addresses
      BY <1>2 DEF PinEvent
    <3> QED BY <3>1 DEF Change, Message, Reply, Args, Values
  <2> HIDE DEF y
  <2>3. toHost' = toHost \o <<y>>
    <3>1. toHost' # toHost
      OBVIOUS
    <3> QED BY <2>1, <3>1 DEF Send, y
  <2>4. <<y>> \in Seq(Reply) /\ DOMAIN <<y>> = {1} /\ <<y>>[1] = y
    BY <2>2
  <2>5. \A k \in DOMAIN toHost' : (k \in DOMAIN toHost /\ toHost'[k] = toHost[k]) \/ toHost'[k] = y
    BY <2>3, <2>4, ConcatElements
  <2> QED BY <2>2, <2>5 DEF Among
<1>3. CASE CheckConnection \/ Watchdog
  <2>1. PICK n \in 0..Len(toHost) : toHost' = SubSeq(toHost, 1, n)
    BY <1>3 DEF CheckConnection, Watchdog, Reset
  <2>2. /\ DOMAIN toHost' = 1..n /\ 1..n \subseteq DOMAIN toHost
        /\ \A i \in 1..n : toHost'[i] = toHost[i]
    BY <2>1, FirstMessages
  <2> QED BY <2>2 DEF Among
<1> QED BY <1>1, <1>2, <1>3

-----------------------------------------------------------------------------
(* Probes and their objects.                                               *)

\* The address that is on its way to the host is new there, and in memory.
NewAddresses ==
    \A x \in Among(toHost) : x.kind = "ObjectId" =>
        objects[x.id] = None /\ (connected => Live(x.id))

\* The object of a registered probe is in memory until the host destructs it.
Alive ==
    \A p \in Probes : ids[p] # None /\ ~(wait.kind = "Destruct" /\ wait.probe = p) =>
        /\ connected => Live(ids[p])
        /\ \A m \in Among(toTarget) : m.kind = "Destruct" => m.id # ids[p]

\* A step is one of qst, or of the target, its interrupts and its clocks.
LEMMA HostOrTarget ==
    ASSUME Next
    PROVE  \/ HostStep /\ UNCHANGED target
           \/ /\ TargetStep \/ (\E i \in Ioids : PinEvent(i)) \/ CheckConnection \/ Watchdog
              /\ UNCHANGED <<state, objects, ids, current, unanswered, wait, phase, todo, pin,
                             outcome, sent, irregular>>
<1>1. CASE TargetStep \/ (\E i \in Ioids : PinEvent(i)) \/ CheckConnection \/ Watchdog
  <2>1. UNCHANGED <<host, sent, irregular>>
    BY <1>1, TargetLeavesHost
  <2> QED BY <1>1, <2>1 DEF host, registry
<1>2. CASE HostStep
  BY <1>2, HostLeavesTarget
<1> QED BY <1>1, <1>2 DEF Next, HostStep

\* Each address has one probe.
LEMMA InversesStep ==
    ASSUME Base, Inverses, NewAddresses, Next
    PROVE  Inverses'
<1> USE DEF Base
<1>0. /\ objects \in [Addresses -> Probes \cup {None}] /\ ids \in [Probes -> Addresses \cup {None}]
      /\ None \notin Addresses /\ None \notin Probes /\ toHost \in Seq(Reply)
  BY LinkAssumption DEF Types, HostTypes, ChannelTypes
<1>1. CASE UNCHANGED <<ids, objects>>
  BY <1>1 DEF Inverses
<1>2. CASE Identified
  <2>1. PICK m \in Reply :
            /\ m.kind = "ObjectId" /\ toHost # <<>> /\ m = toHost[1]
            /\ objects' = [objects EXCEPT ![m.id] = wait.probe]
            /\ ids' = [ids EXCEPT ![wait.probe] = m.id]
    BY <1>2 DEF Identified
  <2>2. m \in Among(toHost) /\ m.id \in Addresses
    BY <1>0, <2>1 DEF Among, Reply
  <2>3. objects[m.id] = None
    BY <2>1, <2>2 DEF NewAddresses
  <2>4. ids[wait.probe] = None /\ wait.probe \in Probes
    BY <1>2 DEF Identified
  <2>5. ASSUME NEW p \in Probes, ids'[p] # None
        PROVE  objects'[ids'[p]] = p
    <3>1. CASE p = wait.probe
      BY <1>0, <2>1, <2>2, <3>1
    <3>2. CASE p # wait.probe
      <4>1. ids'[p] = ids[p] /\ objects[ids[p]] = p /\ ids[p] \in Addresses
        BY <1>0, <2>1, <2>5, <3>2 DEF Inverses
      <4>2. ids[p] # m.id
        BY <1>0, <2>3, <4>1
      <4> QED BY <1>0, <2>1, <4>1, <4>2
    <3> QED BY <3>1, <3>2
  <2>6. ASSUME NEW a \in Addresses, objects'[a] # None
        PROVE  ids'[objects'[a]] = a
    <3>1. CASE a = m.id
      BY <1>0, <2>1, <2>4, <3>1
    <3>2. CASE a # m.id
      <4>1. objects'[a] = objects[a] /\ ids[objects[a]] = a /\ objects[a] \in Probes
        BY <1>0, <2>1, <2>6, <3>2 DEF Inverses
      <4>2. objects[a] # wait.probe
        BY <1>0, <2>4, <4>1
      <4> QED BY <1>0, <2>1, <4>1, <4>2
    <3> QED BY <3>1, <3>2
  <2> QED BY <2>5, <2>6 DEF Inverses
<1>3. ASSUME ids[wait.probe] \in Addresses, wait.probe \in Probes,
             ids' = [ids EXCEPT ![wait.probe] = None],
             objects' = [objects EXCEPT ![ids[wait.probe]] = None]
      PROVE  Inverses'
  <2>1. ASSUME NEW p \in Probes, ids'[p] # None
        PROVE  objects'[ids'[p]] = p
    <3>1. ids'[p] = ids[p] /\ objects[ids[p]] = p /\ p # wait.probe /\ ids[p] \in Addresses
      BY <1>0, <1>3, <2>1 DEF Inverses
    <3>2. ids[p] # ids[wait.probe]
      BY <1>0, <1>3, <3>1 DEF Inverses
    <3> QED BY <1>0, <1>3, <3>1, <3>2
  <2>2. ASSUME NEW a \in Addresses, objects'[a] # None
        PROVE  ids'[objects'[a]] = a
    <3>1. a # ids[wait.probe] /\ objects'[a] = objects[a] /\ ids[objects[a]] = a /\ objects[a] \in Probes
      BY <1>0, <1>3, <2>2 DEF Inverses
    <3> QED BY <1>0, <1>3, <3>1
  <2> QED BY <2>1, <2>2 DEF Inverses
<1>4. CASE Forgets
  <2>1. CASE objects' = Unregistered /\ ids' = [p \in Probes |-> None]
    BY <2>1 DEF Inverses, Unregistered
  <2>2. wait.kind = "Destruct" => wait.probe \in Probes
    BY DEF Types, HostTypes, Call
  <2> QED BY <1>1, <1>3, <1>4, <2>1, <2>2 DEF Forgets
<1> QED BY <1>1, <1>2, <1>4, CallSteps DEF Keeps, Asks

\* When there is an address on its way to the host, nothing else is.
LEMMA AddressAlone ==
    ASSUME Types, InOrder, Constructing, NEW x \in Among(toHost), x.kind = "ObjectId"
    PROVE  /\ \A m \in Among(toTarget) : m.nr = 0 /\ m.kind = "Ping"
           /\ x.nr = sent /\ x.nr # 0 /\ wait.kind = "Construct" /\ x.id \in Addresses
<1>1. /\ toTarget \in Seq(Request) /\ toHost \in Seq(Reply) /\ sent \in Nat
      /\ UpTo(toTarget, sent) /\ Follows(toHost, toTarget)
      /\ \A i \in DOMAIN toTarget : toTarget[i].nr \in Nat /\ toTarget[i] \in Request
  BY Numbers DEF Types, ChannelTypes, InOrder
<1>2. x.nr = sent /\ x.nr # 0 /\ wait.kind = "Construct" /\ x.id \in Addresses
  <2>1. x \in Reply
    BY <1>1 DEF Among
  <2>2. x.nr # 0 /\ x.id \in Addresses
    BY <2>1 DEF Reply
  <2> QED BY <2>2 DEF Constructing
<1>3. ASSUME NEW m \in Among(toTarget)
      PROVE  m.nr = 0 /\ m.kind = "Ping"
  <2>1. m.nr = 0
    BY <1>1, <1>2 DEF Among, Follows, Before, UpTo
  <2>2. m \in Request
    BY <1>1 DEF Among
  <2> QED BY <2>1, <2>2 DEF Request
<1> QED BY <1>2, <1>3

\* The host reads its messages in order, or loses them all.
LEMMA HostReads ==
    ASSUME Types, HostStep
    PROVE  /\ \/ UNCHANGED toHost \/ toHost' = <<>>
              \/ Receive /\ toHost # <<>> /\ toHost' = Tail(toHost)
           /\ Among(toHost') \subseteq Among(toHost)
<1>1. \/ UNCHANGED toHost \/ toHost' = <<>>
      \/ Receive /\ toHost # <<>> /\ toHost' = Tail(toHost)
  <2>1. CASE Killed \/ Restart \/ BeginTestCase \/ NextPhase \/ OnPingTimerTick \/ RequestTimeout
    BY <2>1 DEF Killed, Restart, BeginTestCase, NextPhase, OnPingTimerTick, RequestTimeout
  <2>2. CASE \E p \in Probes : ConnectToTarget(p) \/ Register(p) \/ SetProperty(p) \/ Unregister(p)
    BY <2>2 DEF ConnectToTarget, Register, SetProperty, Unregister
  <2>3. CASE WaitReturns
    BY <2>3 DEF WaitReturns, ConnectReturns, ConstructReturns, RequestReturns, DestructReturns
  <2>4. CASE Receive
    BY <2>4 DEF Receive, ReceiveAnswer, ReceiveChange, Next1
  <2> QED BY <2>1, <2>2, <2>3, <2>4 DEF HostStep
<1>2. toHost # <<>> => Among(Tail(toHost)) \subseteq Among(toHost)
  <2>1. toHost \in Seq(Reply)
    BY DEF Types, ChannelTypes
  <2>2. ASSUME toHost # <<>> PROVE Among(Tail(toHost)) \subseteq Among(toHost)
    <3>1. 1 \in DOMAIN toHost
      BY <2>1, <2>2
    <3>2. \A i \in DOMAIN Tail(toHost) : i + 1 \in DOMAIN toHost /\ Tail(toHost)[i] = toHost[i + 1]
      BY <2>1, <3>1, FirstMessage
    <3> QED BY <3>2 DEF Among
  <2> QED BY <2>2
<1>3. Among(<<>>) = {}
  BY DEF Among
<1> QED BY <1>1, <1>2, <1>3

\* The address of a new object is free, and the object stays until the host has it.
LEMMA NewAddressesStep ==
    ASSUME Base, InOrder, Constructing, Inverses, Alive, NewAddresses, Next
    PROVE  NewAddresses'
<1> USE DEF Base
<1>0. /\ ChannelStep /\ toTarget' \in Seq(Request) /\ toHost' \in Seq(Reply)
      /\ toTarget \in Seq(Request) /\ toHost \in Seq(Reply)
      /\ objects \in [Addresses -> Probes \cup {None}] /\ ids \in [Probes -> Addresses \cup {None}]
      /\ None \notin Addresses
  BY ChannelSteps, ChannelsKeepTypes, LinkAssumption DEF Types, HostTypes, ChannelTypes
<1>1. SUFFICES ASSUME NEW x \in Among(toHost'), x.kind = "ObjectId"
               PROVE  objects'[x.id] = None /\ (connected' => Live(x.id)')
  BY DEF NewAddresses
<1>2. x \in Reply /\ x.nr # 0 /\ x.id \in Addresses
  <2>1. x \in Reply
    BY <1>0 DEF Among
  <2> QED BY <1>1, <2>1 DEF Reply
<1>3. CASE HostStep /\ UNCHANGED target
  <2>0. x \in Among(toHost)
    BY <1>1, <1>3, HostReads
  <2>1. connected' => Live(x.id)'
    BY <1>1, <1>3, <2>0 DEF NewAddresses, Live, target
  <2>2. wait.kind = "Construct" /\ objects[x.id] = None /\ x.nr = sent /\ x.nr # 0
    BY <1>1, <2>0, AddressAlone DEF NewAddresses
  <2>3. CASE UNCHANGED objects
    BY <2>1, <2>2, <2>3
  <2>4. CASE Identified
    <3>1. PICK m \in Reply : m.kind = "ObjectId" /\ toHost # <<>> /\ m = toHost[1] /\ toHost' = Tail(toHost)
      BY <2>4 DEF Identified
    <3>2. m \in Among(toHost)
      BY <1>0, <3>1 DEF Among
    <3>3. toHost[1].nr = sent /\ sent # 0
      BY <2>2, <3>1, <3>2, AddressAlone
    <3>4. x.nr = 0
      BY <3>1, <3>3, NothingBehind
    <3> QED BY <1>2, <3>4
  <2>5. CASE Forgets
    <3>1. toHost' = <<>>
      BY <2>2, <2>5 DEF Forgets, UserMessages
    <3> QED BY <3>1 DEF Among
  <2> QED BY <2>3, <2>4, <2>5, CallSteps DEF Keeps, Asks
<1>4. CASE /\ TargetStep \/ (\E i \in Ioids : PinEvent(i)) \/ CheckConnection \/ Watchdog
           /\ UNCHANGED <<state, objects, ids, current, unanswered, wait, phase, todo, pin,
                          outcome, sent, irregular>>
  <2>1. CASE x \in Among(toHost)
    <3>1. objects[x.id] = None /\ (connected => Live(x.id))
      BY <1>1, <2>1 DEF NewAddresses
    <3>2. \A m \in Among(toTarget) : m.kind = "Ping"
      BY <1>1, <2>1, AddressAlone
    <3>3. connected' => connected
      BY <1>4, <3>2, Connects
    <3>4. connected' => Live(x.id)'
      BY <1>2, <1>4, <3>1, <3>2, <3>3, ObjectsStay
    <3> QED BY <1>4, <3>1, <3>4
  <2>2. CASE x \notin Among(toHost)
    <3>1. PICK m \in Among(toTarget) : Handles(m) /\ m.kind = "Construct"
      BY <1>0, <1>1, <1>2, <1>4, <2>2, NewAddress
    <3>2. connected /\ ~Live(x.id) /\ Live(x.id)'
      BY <1>0, <1>1, <1>2, <1>4, <2>2, NewAddress
    <3>3. wait.kind = "Construct"
      BY <3>1 DEF Constructing
    <3>4. objects[x.id] = None
      <4>1. SUFFICES ASSUME objects[x.id] # None PROVE FALSE
        OBVIOUS
      <4>2. objects[x.id] \in Probes /\ ids[objects[x.id]] = x.id
        BY <1>0, <1>2, <4>1 DEF Inverses
      <4>3. Live(x.id)
        BY <1>0, <1>2, <3>2, <3>3, <4>2 DEF Alive
      <4> QED BY <3>2, <4>3
    <3> QED BY <1>4, <3>2, <3>4
  <2> QED BY <2>1, <2>2
<1> QED BY <1>3, <1>4, HostOrTarget

\* The object of a probe stays in memory.
LEMMA AliveStep ==
    ASSUME Base, InOrder, Own, Constructing, Inverses, Alive, NewAddresses, Next
    PROVE  Alive'
<1> USE DEF Base
<1>0. /\ ChannelStep /\ toTarget \in Seq(Request) /\ toHost \in Seq(Reply)
      /\ objects \in [Addresses -> Probes \cup {None}] /\ ids \in [Probes -> Addresses \cup {None}]
      /\ None \notin Addresses /\ None \notin Probes
  BY ChannelSteps, LinkAssumption DEF Types, HostTypes, ChannelTypes
<1>1. SUFFICES ASSUME NEW p \in Probes, ids'[p] # None, ~(wait'.kind = "Destruct" /\ wait'.probe = p)
               PROVE  /\ connected' => obj'[ids'[p]] # Dead
                      /\ \A m \in Among(toTarget') : m.kind = "Destruct" => m.id # ids'[p]
  BY DEF Alive, Live
<1>2. CASE HostStep /\ UNCHANGED target
  <2>1. CASE Keeps
    <3>1. \A m \in Among(toTarget') : m.kind = "Destruct" => m \in Among(toTarget)
      BY <2>1 DEF Keeps
    <3>2. CASE ids'[p] = ids[p]
      <4>1. ids[p] # None /\ ~(wait.kind = "Destruct" /\ wait.probe = p)
        BY <1>1, <2>1, <3>2 DEF Keeps
      <4> QED BY <1>2, <3>1, <3>2, <4>1 DEF Alive, Live, target
    <3>3. CASE ids'[p] # ids[p]
      <4>1. Identified
        BY <2>1, <3>3 DEF Keeps
      <4>2. PICK m \in Reply : /\ m.kind = "ObjectId" /\ toHost # <<>> /\ m = toHost[1]
                               /\ ids' = [ids EXCEPT ![wait.probe] = m.id]
        BY <4>1 DEF Identified
      <4>3. m \in Among(toHost)
        BY <1>0, <4>2 DEF Among
      <4>4. ids'[p] = m.id
        BY <1>0, <3>3, <4>2
      <4>5. connected => Live(m.id)
        BY <4>2, <4>3 DEF NewAddresses
      <4>6. \A x \in Among(toTarget) : x.kind = "Ping"
        BY <4>2, <4>3, AddressAlone
      <4> QED BY <1>2, <3>1, <4>4, <4>5, <4>6 DEF Live, target
    <3> QED BY <3>2, <3>3
  <2>2. CASE Forgets
    <3>1. toTarget' = toTarget
      BY <2>2 DEF Forgets
    <3>2. ids'[p] = ids[p] /\ ~(wait.kind = "Destruct" /\ wait.probe = p)
      <4>1. CASE UNCHANGED ids /\ wait.kind \in UserMessages
        BY <4>1 DEF UserMessages
      <4>2. CASE wait.kind = "Destruct" /\ ids' = [ids EXCEPT ![wait.probe] = None]
        BY <1>0, <1>1, <4>2
      <4>3. CASE ids' = [q \in Probes |-> None]
        BY <1>1, <4>3
      <4> QED BY <2>2, <4>1, <4>2, <4>3 DEF Forgets
    <3> QED BY <1>1, <1>2, <3>1, <3>2 DEF Alive, Live, target
  <2>3. ASSUME NEW kind, NEW q, NEW id, NEW arg, NEW slot, Asks(kind, q, id, arg, slot)
        PROVE  /\ connected' => obj'[ids'[p]] # Dead
               /\ \A m \in Among(toTarget') : m.kind = "Destruct" => m.id # ids'[p]
    <3>1. ids' = ids /\ wait.kind # "Destruct" /\ q \in Probes
          /\ (kind = "Destruct" => id = ids[q] /\ ids[q] \in Addresses)
      BY <2>3, NoWaitTypes DEF Asks
    <3>2. /\ connected => Live(ids[p])
          /\ \A m \in Among(toTarget) : m.kind = "Destruct" => m.id # ids[p]
      BY <1>1, <3>1 DEF Alive
    <3>3. wait'.kind = kind /\ wait'.probe = q
      BY <1>0, <2>3, AskedMessage
    <3>4. ASSUME NEW m \in Among(toTarget'), m.kind = "Destruct" PROVE m.id # ids[p]
      <4>1. CASE m \in Among(toTarget)
        BY <3>2, <3>4, <4>1
      <4>2. CASE m = Message(kind, id, arg, sent + 1)
        <5>1. kind = "Destruct" /\ m.id = ids[q]
          BY <3>1, <3>4, <4>2 DEF Message
        <5>2. p # q
          BY <1>1, <3>3, <5>1
        <5>3. objects[ids[p]] = p /\ objects[ids[q]] = q
          BY <1>0, <1>1, <3>1, <5>1 DEF Inverses
        <5> QED BY <5>1, <5>2, <5>3
      <4> QED BY <1>0, <2>3, <4>1, <4>2, AskedMessage
    <3> QED BY <1>2, <3>1, <3>2, <3>4 DEF Live, target
  <2> QED BY <2>1, <2>2, <2>3, CallSteps
<1>3. CASE /\ TargetStep \/ (\E i \in Ioids : PinEvent(i)) \/ CheckConnection \/ Watchdog
           /\ UNCHANGED <<state, objects, ids, current, unanswered, wait, phase, todo, pin,
                          outcome, sent, irregular>>
  <2>1. /\ connected => Live(ids[p])
        /\ \A m \in Among(toTarget) : m.kind = "Destruct" => m.id # ids[p]
    BY <1>1, <1>3 DEF Alive
  <2>2. \A m \in Among(toTarget) : m.kind # "Connect"
    BY <1>1, <1>3 DEF Constructing
  <2>3. connected' => connected
    BY <1>3, <2>2, Connects
  <2>4. ids[p] \in Addresses /\ ids'[p] = ids[p]
    BY <1>0, <1>1, <1>3
  <2>5. connected' => Live(ids[p])'
    BY <1>3, <2>1, <2>2, <2>3, <2>4, ObjectsStay
  <2>6. Among(toTarget') \subseteq Among(toTarget)
    <3>1. ASSUME NEW m \in Among(toTarget'), m \notin Among(toTarget)
          PROVE  FALSE
      <4>1. Sends(m)
        BY <1>0, <3>1, ChannelElements
      <4>2. toTarget' = Append(toTarget, m)
        BY <4>1 DEF Sends
      <4>3. \/ toTarget' = toTarget \/ toTarget' = <<>>
            \/ (toTarget # <<>> /\ toTarget' = Tail(toTarget))
        <5>1. CASE TargetStep
          BY <5>1, TargetHandles DEF Handles
        <5>2. CASE \E i \in Ioids : PinEvent(i)
          BY <5>2 DEF PinEvent
        <5>3. CASE CheckConnection \/ Watchdog
          BY <5>3 DEF CheckConnection, Watchdog, Reset
        <5> QED BY <1>3, <5>1, <5>2, <5>3
      <4>4. Len(toTarget') = Len(toTarget) + 1
        BY <1>0, <4>2
      <4> QED BY <1>0, <4>3, <4>4
    <3> QED BY <3>1
  <2> QED BY <2>1, <2>4, <2>5, <2>6 DEF Live
<1> QED BY <1>2, <1>3, HostOrTarget

-----------------------------------------------------------------------------
(* The core of the protocol.                                               *)

\* What the host and the target know of each other, whatever comes late or is lost.
Core ==
    /\ Base /\ PingsCount /\ GivenUp /\ InOrder /\ Own /\ Constructing
    /\ Inverses /\ NewAddresses /\ Alive

\* It holds when qst starts.
LEMMA CoreInit == Init => Core
<1> SUFFICES ASSUME Init PROVE Core
  OBVIOUS
<1>1. /\ toTarget = <<>> /\ toHost = <<>> /\ objects = Unregistered
      /\ \A p \in Probes : ids[p] = None
  BY DEF Init
<1>2. Among(toTarget) = {} /\ Among(toHost) = {} /\ DOMAIN toTarget = {} /\ DOMAIN toHost = {}
  BY <1>1 DEF Among
<1>3. Base
  BY TypesInit, ControlInit DEF Base
<1>4. PingsCount /\ GivenUp
  BY PingsInit
<1>5. InOrder
  BY <1>2 DEF InOrder, Ordered, UpTo, Follows
<1>6. Own /\ Constructing /\ NewAddresses
  BY <1>2 DEF Own, Constructing, NewAddresses
<1>7. Inverses /\ Alive
  BY <1>1 DEF Inverses, Alive, Unregistered
<1> QED BY <1>3, <1>4, <1>5, <1>6, <1>7 DEF Core

\* The types of the next state.
LEMMA BaseStep ==
    ASSUME Base, Inverses, PingsCount, GivenUp, Next
    PROVE  Base'
<1> USE DEF Base
<1>1. toTarget' \in Seq(Request) /\ toHost' \in Seq(Reply) /\ sent' \in Nat /\ lostPings' \in Nat
  BY ChannelSteps, ChannelsKeepTypes, PingsStep
<1>2. CASE HostStep /\ UNCHANGED target
  <2>1. HostTypes'
    BY <1>2, HostKeepsTypes
  <2>2. TargetTypes'
    BY <1>2 DEF Types, TargetTypes, target
  <2>3. Control' /\ Registered'
    <3>1. CASE \/ \E p \in Probes : ConnectToTarget(p) \/ Register(p) \/ SetProperty(p) \/ Unregister(p)
               \/ ConnectReturns \/ ConstructReturns
      BY <3>1, ControlAsks
    <3>2. CASE \/ Killed \/ Restart \/ BeginTestCase \/ NextPhase \/ RequestReturns \/ DestructReturns
               \/ OnPingTimerTick \/ RequestTimeout \/ ReceiveAnswer \/ ReceiveChange
      BY <3>2, ControlMoves
    <3> QED BY <1>2, <3>1, <3>2 DEF HostStep, WaitReturns, Receive
  <2> QED BY <1>1, <2>1, <2>2, <2>3 DEF Types, ChannelTypes
<1>3. CASE TargetStep \/ (\E i \in Ioids : PinEvent(i)) \/ CheckConnection \/ Watchdog
  <2>1. UNCHANGED <<host, sent, irregular>>
    BY <1>3, TargetLeavesHost
  <2>2. HostTypes'
    BY <2>1 DEF Types, HostTypes, host, registry
  <2>3. TargetTypes'
    BY <1>3, TargetKeepsTypes
  <2>4. Control' /\ Registered'
    BY <2>1 DEF Control, Registered, host, registry
  <2> QED BY <1>1, <2>2, <2>3, <2>4 DEF Types, ChannelTypes
<1> QED BY <1>2, <1>3, HostOrTarget

\* No step breaks it.
LEMMA CoreStep ==
    ASSUME Core, [Next]_vars
    PROVE  Core'
<1>1. CASE Next
  BY <1>1, BaseStep, PingsStep, ChannelSteps, InOrderStep, OwnStep, ConstructingStep, InversesStep,
     NewAddressesStep, AliveStep DEF Core, Base
<1>2. CASE UNCHANGED vars
  <2>1. UNCHANGED <<host, registry, target, toTarget, toHost, history>>
    BY <1>2 DEF vars, host
  <2>2. Base' /\ PingsCount' /\ GivenUp' /\ InOrder'
    <3>1. HostTypes' /\ TargetTypes' /\ ChannelTypes'
      BY <2>1 DEF Core, Base, Types, HostTypes, TargetTypes, ChannelTypes, host, registry, target, history
    <3>2. Control' /\ Registered'
      BY <2>1 DEF Core, Base, Control, Registered, host, registry, history
    <3>3. PingsCount' /\ GivenUp'
      BY <2>1 DEF Core, PingsCount, GivenUp, host, target, history
    <3>4. InOrder'
      BY <2>1 DEF Core, InOrder, Ordered, UpTo, Follows, Before, history
    <3> QED BY <3>1, <3>2, <3>3, <3>4 DEF Base, Types
  <2>3. Own' /\ Constructing' /\ Inverses' /\ NewAddresses' /\ Alive'
    BY <2>1 DEF Core, Own, Constructing, Inverses, NewAddresses, Alive, Among, Live, host, registry,
                target, history
  <2> QED BY <2>2, <2>3 DEF Core
<1> QED BY <1>1, <1>2

\* Every state of the host and the target is such a state.
THEOREM CoreHolds == Spec => []Core
<1> QED BY CoreInit, CoreStep, PTL DEF Spec

\* The states, the registry and the calls in progress are what they say.
THEOREM TypesHold == Spec => []TypeOK
<1>1. Core => TypeOK
  <2> SUFFICES ASSUME Core PROVE TypeOK
    OBVIOUS
  <2>1. HostTypes /\ TargetTypes /\ ChannelTypes
    BY DEF Core, Base, Types
  <2>2. wait.kind \in Kinds \cup {"none"} /\ wait.probe \in Probes \cup {None}
    BY <2>1 DEF HostTypes, Call
  <2>3. \A m \in {toTarget[i] : i \in DOMAIN toTarget} : m.kind \in Kinds
    BY <2>1 DEF ChannelTypes, Request
  <2>4. \A m \in {toHost[i] : i \in DOMAIN toHost} :
            m.kind \in {"StatusOk", "ObjectId", "Pong", "ChangeValue"}
    BY <2>1 DEF ChannelTypes, Reply
  <2>5. pinging \in BOOLEAN
    BY <2>1 DEF HostTypes
  <2>6. connected \in BOOLEAN /\ hung \in BOOLEAN /\ slots \in Seq(Addresses \cup {None})
        /\ instances \in [Ioids -> Addresses \cup {None}]
    BY <2>1 DEF TargetTypes
  <2> QED BY <2>1, <2>2, <2>3, <2>4, <2>5, <2>6 DEF TypeOK, HostTypes
<1> QED BY <1>1, CoreHolds, PTL

\* A connection is given up only after three pings that cannot be answered, that
\* nobody can read, or whose answer is late: onPingTimerTick() counts none twice.
THEOREM LossHasReason == Spec => []LossIsReal
<1>1. Core => LossIsReal
  <2> SUFFICES ASSUME Core, outcome \in {"running", "lost"} PROVE
        /\ unanswered = Pings(toTarget) + Pongs(toHost) + lostPings
        /\ outcome = "lost" =>
                unanswered = 3 /\ (lostPings = 3 \/ hung \/ wait.slot \/ "overtaken" \in irregular)
    BY DEF LossIsReal
  <2>1. /\ unanswered = Pings(toTarget) + Pongs(toHost) + lostPings
        /\ Pings(toTarget) \in Nat /\ Pongs(toHost) \in Nat /\ lostPings \in Nat
    BY PingTypes DEF Core, Base, PingsCount
  <2>2. GivenUp
    BY DEF Core
  <2> QED BY <2>1, <2>2 DEF GivenUp
<1> QED BY <1>1, CoreHolds, PTL

-----------------------------------------------------------------------------
(* Answers.                                                                *)

\* As long as no handler writes during a wait and no timer overtakes an answer,
\* only the call in progress has a request or an answer on its way.
NoLate ==
    irregular = {} =>
        /\ \A m \in Among(toTarget) : m.nr # 0 => hung \/ (m.nr = wait.nr /\ wait.by = Pending)
        /\ \A m \in Among(toHost) : m.nr # 0 => m.nr = wait.nr /\ wait.by = Pending
        /\ wait.by > 0 => wait.by = wait.nr
        /\ wait.by > 0 /\ wait.kind = "Construct" => ids[wait.probe] # None
        /\ outcome # "assertion"

\* What is irregular stays so until qst is started again.
LEMMA IrregularStays ==
    ASSUME Next
    PROVE  irregular \subseteq irregular' \/ Restart
<1>1. CASE TargetStep \/ (\E i \in Ioids : PinEvent(i)) \/ CheckConnection \/ Watchdog
  BY <1>1, TargetLeavesHost
<1>2. CASE Killed \/ BeginTestCase \/ NextPhase
  BY <1>2 DEF Killed, BeginTestCase, NextPhase, history
<1>3. CASE OnPingTimerTick \/ RequestTimeout
  BY <1>3 DEF OnPingTimerTick, RequestTimeout, TimerExpires
<1>4. CASE \E p \in Probes : ConnectToTarget(p) \/ Register(p) \/ SetProperty(p) \/ Unregister(p)
  BY <1>4 DEF ConnectToTarget, Register, SetProperty, Unregister
<1>5. CASE WaitReturns
  BY <1>5 DEF WaitReturns, ConnectReturns, ConstructReturns, RequestReturns, DestructReturns, history
<1>6. CASE Receive
  BY <1>6 DEF Receive, ReceiveAnswer, ReceiveChange, history
<1> QED BY <1>1, <1>2, <1>3, <1>4, <1>5, <1>6 DEF Next

\* The main task stays in its endless loop until the watchdog resets the chip.
LEMMA HangsUntilReset ==
    ASSUME Next, hung
    PROVE  hung' \/ toTarget' = <<>>
<1>1. CASE TargetStep
  BY <1>1 DEF TargetStep, NotConnected, TargetConnect, TargetConstruct, TargetDestruct, TargetPing,
              TargetInit, TargetSetter, TargetSetIoid, Take
<1>2. CASE \E i \in Ioids : PinEvent(i)
  BY <1>2 DEF PinEvent
<1>3. CASE CheckConnection \/ Watchdog
  BY <1>3 DEF CheckConnection, Watchdog, Reset
<1>4. CASE UNCHANGED target
  BY <1>4 DEF target
<1> QED BY <1>1, <1>2, <1>3, <1>4, HostOrTarget

\* The assertions of the controller hold: an address comes for the probe that is
\* being registered, a pong after a ping, and registerObject() has an address.
LEMMA NotAsserted ==
    ASSUME Core, NoLate, irregular = {}, Next
    PROVE  outcome' # "assertion"
<1>0. outcome # "assertion" /\ None \notin Probes /\ Base
  BY LinkAssumption DEF NoLate, Core
<1>1. CASE UNCHANGED outcome
  BY <1>0, <1>1
<1>2. CASE ReceiveAnswer
  <2>1. PICK m \in {toHost[1] : i \in DOMAIN toHost} :
            \/ UNCHANGED outcome
            \/ m.kind = "ObjectId" /\ current = None
            \/ m.kind = "Pong" /\ unanswered = 0
    BY <1>2 DEF ReceiveAnswer
  <2>2. m \in Among(toHost) /\ 1 \in DOMAIN toHost /\ m = toHost[1]
    BY <1>0, FirstMessage DEF Among, Base, Types, ChannelTypes
  <2>3. CASE m.kind = "ObjectId" /\ current = None
    <3>1. wait.kind = "Construct" /\ ids[wait.probe] = None
      BY <2>2, <2>3 DEF Core, Constructing
    <3>2. wait.probe \in Probes
      BY <1>0, <3>1 DEF Base, Types, HostTypes, Call
    <3> QED BY <1>0, <2>3, <3>1, <3>2 DEF Base, Registered
  <2>4. CASE m.kind = "Pong" /\ unanswered = 0
    <3>1. Pongs(toHost) # 0 /\ Pongs(toHost) \in Nat
      <4>1. toHost \in Seq(Reply)
        BY <1>0 DEF Base, Types, ChannelTypes
      <4>2. ~ \A i \in DOMAIN toHost : toHost[i].kind # "Pong"
        BY <2>2, <2>4
      <4> QED BY <4>1, <4>2, CountType DEF Pongs
    <3>2. Pings(toTarget) \in Nat /\ lostPings \in Nat
          /\ unanswered = Pings(toTarget) + Pongs(toHost) + lostPings
      BY <1>0, PingTypes DEF Core, Base, PingsCount
    <3>3. \A a, b, c \in Nat : b # 0 => a + b + c # 0
      OBVIOUS
    <3>4. Pings(toTarget) + Pongs(toHost) + lostPings # 0
      BY <3>1, <3>2, <3>3
    <3> QED BY <2>4, <3>2, <3>4
  <2> QED BY <1>0, <2>1, <2>3, <2>4
<1>3. CASE ConstructReturns
  <2>1. wait.by \in Int /\ wait.by # Pending /\ wait.kind = "Construct"
    BY <1>0, <1>3 DEF ConstructReturns, Returned, Base, Types, HostTypes, Call
  <2>2. CASE wait.by # Expired /\ ids[wait.probe] = None
    <3>1. wait.by > 0
      BY <1>0, <2>1, <2>2 DEF Base, Control, Expired, Pending
    <3> QED BY <2>1, <2>2, <3>1 DEF NoLate
  <2> QED BY <1>0, <1>3, <2>2 DEF ConstructReturns, Exit
<1>4. CASE Killed \/ Restart \/ BeginTestCase \/ NextPhase \/ RequestReturns \/ DestructReturns
           \/ OnPingTimerTick \/ RequestTimeout \/ ConnectReturns \/ ReceiveChange
  BY <1>0, <1>4 DEF Killed, Restart, BeginTestCase, NextPhase, RequestReturns, DestructReturns,
     OnPingTimerTick, RequestTimeout, ConnectReturns, ReceiveChange, Exit
<1>5. CASE \E p \in Probes : ConnectToTarget(p) \/ Register(p) \/ SetProperty(p) \/ Unregister(p)
  BY <1>0, <1>5 DEF ConnectToTarget, Register, SetProperty, Unregister, Exit
<1> QED BY <1>1, <1>2, <1>3, <1>4, <1>5, HostOrTarget DEF HostStep, WaitReturns, Receive

\* No step makes an answer late: the host asks when nothing is on its way.
LEMMA NoLateStep ==
    ASSUME Core, NoLate, Next
    PROVE  NoLate'
<1>0. /\ Base /\ InOrder /\ Own /\ Constructing /\ ChannelStep
      /\ toTarget \in Seq(Request) /\ toHost \in Seq(Reply) /\ sent \in Nat /\ wait \in Call
      /\ toTarget' \in Seq(Request) /\ toHost' \in Seq(Reply) /\ None \notin Addresses
      /\ ids \in [Probes -> Addresses \cup {None}]
  BY ChannelSteps, ChannelsKeepTypes, LinkAssumption DEF Core, Base, Types, HostTypes, ChannelTypes
<1>1. CASE Restart
  <2>1. toTarget' = <<>> /\ toHost' = <<>> /\ wait' = NoWait /\ outcome' = "running"
    BY <1>1 DEF Restart
  <2>2. Among(toTarget') = {} /\ Among(toHost') = {}
    BY <2>1 DEF Among
  <2> QED BY <2>1, <2>2 DEF NoLate, NoWait, Pending
<1>2. SUFFICES ASSUME ~Restart, irregular' = {} PROVE NoLate'
  BY <1>1 DEF NoLate
<1>3. irregular = {} /\ outcome' # "assertion"
  BY <1>2, IrregularStays, NotAsserted
<1>4. /\ \A m \in Among(toTarget) : m.nr # 0 => hung \/ (m.nr = wait.nr /\ wait.by = Pending)
      /\ \A m \in Among(toHost) : m.nr # 0 => m.nr = wait.nr /\ wait.by = Pending
      /\ wait.by > 0 => wait.by = wait.nr
      /\ wait.by > 0 /\ wait.kind = "Construct" => ids[wait.probe] # None
  BY <1>3 DEF NoLate
<1>5. \A x : hung /\ x \in Among(toTarget') => hung'
  <2>1. hung => hung' \/ Among(toTarget') = {}
    BY HangsUntilReset DEF Among
  <2> QED BY <2>1
<1>6. \A m \in Among(toTarget) : m \in Request /\ m.nr \in Nat
  BY <1>0, Numbers DEF Among
<1>7. ASSUME Keeps
      PROVE  /\ \A x \in Among(toTarget') : x.nr # 0 =>
                    hung' \/ (x \in Among(toTarget) /\ ~hung /\ x.nr = wait.nr /\ wait.by = Pending)
             /\ \A x \in Among(toHost') : x.nr # 0 =>
                    /\ x.nr = wait.nr /\ wait.by = Pending
                    /\ x \in Among(toHost) \/ \E m : Handles(m)
             /\ wait.kind = "Construct" /\ ids[wait.probe] # None => ids'[wait.probe] # None
  <2>1. ASSUME NEW x \in Among(toTarget'), x.nr # 0
        PROVE  hung' \/ (x \in Among(toTarget) /\ ~hung /\ x.nr = wait.nr /\ wait.by = Pending)
    <3>1. x \in Request
      BY <1>0 DEF Among
    <3>2. x.kind # "Ping"
      BY <2>1, <3>1 DEF Request
    <3>3. x \in Among(toTarget)
      BY <1>2, <1>7, <3>2 DEF Keeps
    <3> QED BY <1>4, <1>5, <2>1, <3>3
  <2>2. ASSUME NEW x \in Among(toHost'), x.nr # 0
        PROVE  /\ x.nr = wait.nr /\ wait.by = Pending
               /\ x \in Among(toHost) \/ \E m : Handles(m)
    <3>1. CASE x \in Among(toHost)
      BY <1>4, <2>2, <3>1
    <3>2. CASE x \notin Among(toHost)
      <4>1. PICK m \in Among(toTarget) : Handles(m) /\ x.nr = m.nr
        BY <1>0, <2>2, <3>2, ChannelElements DEF Base
      <4>2. ~hung
        BY <4>1 DEF Handles
      <4> QED BY <1>4, <2>2, <4>1, <4>2
    <3> QED BY <3>1, <3>2
  <2>3. ASSUME wait.kind = "Construct", ids[wait.probe] # None
        PROVE  ids'[wait.probe] # None
    BY <1>7, <2>3 DEF Keeps, Identified
  <2> QED BY <2>1, <2>2, <2>3
<1>8. CASE Keeps /\ UNCHANGED wait
  BY <1>3, <1>4, <1>7, <1>8 DEF NoLate
<1>9. CASE RequestTimeout
  <2>1. /\ wait' = [wait EXCEPT !.by = Expired] /\ UNCHANGED <<toTarget, toHost, hung>>
        /\ wait.kind \in {"Connect", "Construct", "Destruct"}
        /\ OnTheWay({}, wait.nr) => "overtaken" \in irregular'
    BY <1>9 DEF RequestTimeout, TimerExpires, HasTimeout, target
  <2>2. wait'.by = Expired /\ ~wait.slot /\ wait.nr # 0
    <3>1. Expired \in Int
      BY DEF Expired
    <3>2. wait.nr \in 1..sent /\ ~wait.slot
      BY <1>0, <2>1 DEF Base, Control
    <3> QED BY <1>0, <2>1, <3>1, <3>2, EndsWaitTypes DEF Base
  <2>3. ~OnTheWay({}, wait.nr)
    BY <1>2, <2>1
  <2>4. \A m \in Among(toTarget) : m.nr # 0 => hung
    BY <1>4, <2>2, <2>3 DEF OnTheWay, ToTarget, Among
  <2>5. \A m \in Among(toHost) : m.nr = 0
    BY <1>4, <2>2, <2>3 DEF OnTheWay, ToHost, Among
  <2> QED BY <1>3, <2>1, <2>2, <2>4, <2>5 DEF NoLate, Expired, Among
<1>10. CASE ReceiveAnswer
  <2>1. PICK m \in {toHost[1] : i \in DOMAIN toHost} :
            /\ toHost' = Tail(toHost) /\ Answered(m)
            /\ m.kind = "ObjectId" /\ current # None => ids' = [ids EXCEPT ![current] = m.id]
            /\ m.kind = "ObjectId" => current # None
            /\ m.kind # "ObjectId" => ids' = ids
            /\ UNCHANGED toTarget /\ hung' = hung
    <3>1. PICK m \in {toHost[1] : i \in DOMAIN toHost} :
            /\ toHost' = Tail(toHost) /\ Answered(m)
            /\ \/ /\ m.kind = "StatusOk" /\ UNCHANGED registry
               \/ Exit("assertion")
               \/ /\ m.kind = "ObjectId" /\ current # None
                  /\ ids' = [ids EXCEPT ![current] = m.id]
               \/ m.kind = "Pong" /\ UNCHANGED registry
            /\ UNCHANGED <<target, toTarget>>
      BY <1>10 DEF ReceiveAnswer, Next1
    <3>2. ~Exit("assertion")
      BY <1>3 DEF Exit
    <3> QED BY <3>1, <3>2 DEF registry, target
  <2>2. m \in Reply /\ m.nr \in Nat /\ m \in Among(toHost) /\ toHost # <<>> /\ m = toHost[1] /\ 1 \in DOMAIN toHost
    BY <1>0, FirstMessage, Numbers DEF Among
  <2>3. /\ wait'.kind = wait.kind /\ wait'.probe = wait.probe /\ wait'.nr = wait.nr
        /\ wait'.by = IF wait # NoWait /\ wait.by = Pending /\ m.nr # 0 THEN m.nr ELSE wait.by
    BY <1>0, <2>1, <2>2, AnsweredTypes DEF Base
  <2>4. Among(toHost') \subseteq Among(toHost)
    BY <1>0, <2>1, <2>2, FirstMessage DEF Among
  <2>5. m.kind = "ObjectId" => m.id \in Addresses /\ m.nr # 0
    BY <2>2 DEF Reply
  <2>6. CASE m.nr = 0
    BY <1>3, <1>4, <2>1, <2>3, <2>4, <2>5, <2>6 DEF NoLate, Among
  <2>7. CASE m.nr # 0
    <3>1. m.nr = wait.nr /\ wait.by = Pending
      BY <1>4, <2>2, <2>7
    <3>2. wait # NoWait
      BY <2>7, <3>1, NoWaitTypes
    <3>3. wait'.by = m.nr
      BY <2>3, <2>7, <3>1, <3>2
    <3>4. \A x \in Among(toTarget) : x.nr # 0 => hung
      <4>1. \A x \in Among(toTarget) : Before(m, x)
        BY <1>0, <2>2 DEF InOrder, Follows, Among
      <4> QED BY <1>4, <1>6, <2>2, <2>7, <3>1, <4>1 DEF Before
    <3>5. \A x \in Among(toHost') : x.nr = 0
      <4>1. \A x \in Among(toHost') : Before(m, x)
        BY <1>0, <2>1, <2>2, OrderedTail DEF InOrder, Among
      <4> QED BY <1>4, <2>2, <2>4, <2>7, <3>1, <4>1 DEF Before
    <3>6. wait.kind = "Construct" => ids'[wait.probe] # None
      <4>1. SUFFICES ASSUME wait.kind = "Construct" PROVE ids'[wait.probe] # None
        OBVIOUS
      <4>2. m.kind = "ObjectId"
        BY <1>0, <2>2, <2>7, <3>1, <4>1 DEF Own
      <4>3. ids[wait.probe] = None /\ wait.probe \in Probes
        BY <1>0, <2>2, <4>1, <4>2 DEF Constructing, Call
      <4>4. current = wait.probe
        BY <1>0, <4>1, <4>3 DEF Base, Registered
      <4> QED BY <1>0, <2>1, <2>5, <4>2, <4>3, <4>4
    <3>7. m.nr > 0
      BY <2>2, <2>7
    <3> QED BY <1>3, <2>1, <2>3, <3>1, <3>3, <3>4, <3>5, <3>6, <3>7 DEF NoLate, Among
  <2> QED BY <2>6, <2>7
<1>11. ASSUME wait = NoWait \/ wait.by # Pending
       PROVE  /\ \A m \in Among(toTarget) : m.nr # 0 => hung
              /\ \A m \in Among(toHost) : m.nr = 0
  BY <1>4, <1>11, NoWaitTypes
<1>12. CASE Forgets
  <2>1. /\ wait' = NoWait /\ toTarget' = toTarget /\ toHost' \in {toHost, <<>>}
        /\ \A m \in Among(toTarget) : m.nr # 0 => hung
    BY <1>11, <1>12 DEF Forgets, Among
  <2>2. \A m \in Among(toHost') : m.nr = 0
    BY <1>11, <1>12 DEF Forgets, Among
  <2>3. \A m \in Among(toTarget') : m.nr # 0 => hung'
    BY <1>5, <2>1
  <2> QED BY <1>3, <2>1, <2>2, <2>3 DEF NoLate, NoWait, Pending
<1>13. ASSUME NEW kind, NEW p, NEW id, NEW arg, NEW slot, Asks(kind, p, id, arg, slot)
       PROVE  NoLate'
  <2>1. /\ \A m \in Among(toTarget) : m.nr # 0 => hung
        /\ \A m \in Among(toHost) : m.nr = 0
    BY <1>11, <1>13 DEF Asks
  <2>2. wait'.nr = sent + 1 /\ wait'.by = Pending
    BY <1>0, <1>13, AskedMessage DEF Base
  <2>3. ASSUME NEW x \in Among(toTarget'), x.nr # 0
        PROVE  hung' \/ (x.nr = wait'.nr /\ wait'.by = Pending)
    <3>1. CASE x \in Among(toTarget)
      BY <1>5, <2>1, <2>3, <3>1
    <3>2. CASE x = Message(kind, id, arg, sent + 1)
      BY <2>2, <3>2 DEF Message
    <3> QED BY <1>0, <1>13, <3>1, <3>2, AskedMessage DEF Base
  <2>4. ASSUME NEW x \in Among(toHost') PROVE x.nr = 0
    BY <1>0, <1>13, <2>1, AskedMessage DEF Base
  <2> QED BY <1>3, <2>2, <2>3, <2>4 DEF NoLate, Pending
<1> QED BY <1>8, <1>9, <1>10, <1>12, <1>13, CallSteps, <1>0 DEF Keeps

\* As long as nothing is late, the answer that ends a wait is the answer to that
\* request, and no assertion of the controller fails.
THEOREM AnswersAreOwn == Spec => []OwnAnswer
<1>1. Init => NoLate
  <2> SUFFICES ASSUME Init PROVE NoLate
    OBVIOUS
  <2>1. toTarget = <<>> /\ toHost = <<>> /\ wait = NoWait /\ outcome = "running"
    BY DEF Init
  <2> QED BY <2>1 DEF NoLate, Among, NoWait, Pending
<1>2. Core /\ NoLate /\ [Next]_vars => NoLate'
  <2> SUFFICES ASSUME Core, NoLate, UNCHANGED vars PROVE NoLate'
    BY NoLateStep
  <2>1. UNCHANGED <<wait, toTarget, toHost, hung, irregular, ids, outcome>>
    BY DEF vars, host, registry, target, history
  <2> QED BY <2>1 DEF NoLate, Among
<1>3. NoLate => OwnAnswer
  BY DEF NoLate, OwnAnswer
<1> QED BY <1>1, <1>2, <1>3, CoreHolds, PTL DEF Spec

-----------------------------------------------------------------------------
(* The list of the target, and the messages for what is in it.             *)

\* The list of probes has every object of the heap, once.  An assertion that
\* fails in constructObject() leaves an object that is not in the list.
Listed ==
    /\ \A k, l \in DOMAIN slots : slots[k] = slots[l] /\ slots[k] # None => k = l
    /\ ~hung => \A a \in Addresses : Live(a) <=> \E k \in DOMAIN slots : slots[k] = a

\* A message for a probe gets there before anything deletes the object it is for.
Addressed ==
    \A i \in DOMAIN toTarget : toTarget[i].kind \in UserMessages =>
        /\ connected => Live(toTarget[i].id)
        /\ \A j \in DOMAIN toTarget : j < i =>
                /\ toTarget[j].kind # "Connect"
                /\ toTarget[j].kind = "Destruct" => toTarget[j].id # toTarget[i].id

\* The list and the heap stay the same, whatever the target does.
LEMMA ListedStep ==
    ASSUME Types, Listed, TargetStep \/ (\E i \in Ioids : PinEvent(i)) \/ CheckConnection \/ Watchdog
    PROVE  Listed'
<1> USE DEF Types, TargetTypes
<1>0. /\ obj \in [Addresses -> {Dead} \cup Object] /\ slots \in Seq(Addresses \cup {None})
      /\ None \notin Addresses
  BY LinkAssumption
<1>1. CASE UNCHANGED slots /\ (hung => hung') /\ \A a \in Addresses : Live(a)' <=> Live(a)
  BY <1>1 DEF Listed
<1>2. CASE slots' = <<>> /\ \A a \in Addresses : ~Live(a)'
  BY <1>2 DEF Listed
<1>3. CASE TargetConstruct
  <2>1. PICK a \in Addresses :
            /\ ~Live(a) /\ obj' = [obj EXCEPT ![a] = Fresh]
            /\ IF Len(slots) < Slots THEN slots' = Append(slots, a) /\ UNCHANGED hung
                                     ELSE hung' = TRUE /\ UNCHANGED slots
    BY <1>3 DEF TargetConstruct
  <2>2. CASE hung' = TRUE /\ UNCHANGED slots
    BY <2>2 DEF Listed
  <2>3. CASE slots' = Append(slots, a) /\ UNCHANGED hung
    <3>1. ~hung
      BY <1>3 DEF TargetConstruct, Take
    <3>2. /\ DOMAIN slots' = DOMAIN slots \cup {Len(slots) + 1} /\ Len(slots) + 1 \notin DOMAIN slots
          /\ slots'[Len(slots) + 1] = a /\ \A k \in DOMAIN slots : slots'[k] = slots[k]
      BY <1>0, <2>3
    <3>3. \A k \in DOMAIN slots : slots[k] # a
      BY <2>1, <3>1 DEF Listed
    <3>4. Live(a)' /\ \A b \in Addresses \ {a} : Live(b)' <=> Live(b)
      <4>1. obj'[a] = Fresh /\ \A b \in Addresses \ {a} : obj'[b] = obj[b]
        BY <1>0, <2>1
      <4> QED BY <4>1, ObjectTypes DEF Live
    <3>5. \A k, l \in DOMAIN slots' : slots'[k] = slots'[l] /\ slots'[k] # None => k = l
      BY <3>2, <3>3 DEF Listed
    <3>6. \A b \in Addresses : Live(b)' <=> \E k \in DOMAIN slots' : slots'[k] = b
      <4>1. ASSUME NEW b \in Addresses \ {a}
            PROVE  (\E k \in DOMAIN slots' : slots'[k] = b) <=> \E k \in DOMAIN slots : slots[k] = b
        BY <3>2
      <4> QED BY <3>1, <3>2, <3>4, <4>1 DEF Listed
    <3> QED BY <3>5, <3>6 DEF Listed
  <2> QED BY <2>1, <2>2, <2>3
<1>4. CASE TargetDestruct
  <2>1. PICK m \in Request : {toTarget[1] : i \in DOMAIN toTarget} = {m}
    BY <1>4, HandledFirst DEF TargetStep
  <2> DEFINE kept == [k \in DOMAIN slots |-> IF slots[k] = m.id THEN None ELSE slots[k]]
  <2>2. /\ m.kind = "Destruct" /\ ~hung /\ hung' = hung
        /\ IF \E k \in Used : slots[k] = m.id
           THEN obj' = [obj EXCEPT ![m.id] = Dead] ELSE UNCHANGED obj
        /\ slots' = IF ListEmpty(kept) THEN <<>> ELSE kept
    BY <1>4, <2>1 DEF TargetDestruct, Take
  <2>3. m.id \in Addresses
    BY <2>2 DEF Request
  <2>4. \A a \in Addresses : Live(a)' <=> Live(a) /\ a # m.id
    <3>1. (\E k \in Used : slots[k] = m.id) <=> Live(m.id)
      BY <1>0, <2>2, <2>3 DEF Listed, Used
    <3>2. CASE Live(m.id)
      <4>1. obj'[m.id] = Dead /\ \A a \in Addresses \ {m.id} : obj'[a] = obj[a]
        BY <1>0, <2>2, <2>3, <3>1, <3>2
      <4> QED BY <4>1 DEF Live
    <3>3. CASE ~Live(m.id)
      <4>1. obj' = obj
        BY <2>2, <3>1, <3>3
      <4> QED BY <3>3, <4>1 DEF Live
    <3> QED BY <3>2, <3>3
  <2>5. \A a \in Addresses : Live(a) /\ a # m.id <=> \E k \in DOMAIN kept : kept[k] = a
    BY <1>0, <2>2, <2>3 DEF Listed
  <2>6. CASE ListEmpty(kept)
    <3>1. \A a \in Addresses : ~Live(a)'
      BY <1>0, <2>4, <2>5, <2>6 DEF ListEmpty
    <3>2. slots' = <<>>
      BY <2>2, <2>6
    <3> QED BY <1>2, <3>1, <3>2
  <2>7. CASE slots' = kept
    <3>1. \A k, l \in DOMAIN kept : kept[k] = kept[l] /\ kept[k] # None => k = l
      BY DEF Listed
    <3> QED BY <2>4, <2>5, <2>7, <3>1 DEF Listed
  <2> QED BY <2>2, <2>6, <2>7
<1>5. CASE TargetConnect
  <2>1. slots' = <<>> /\ obj' = [a \in Addresses |-> Dead]
    BY <1>0, <1>5 DEF TargetConnect, DeletesObjects
  <2> QED BY <1>2, <2>1 DEF Live
<1>6. CASE NotConnected \/ TargetPing
  BY <1>1, <1>6 DEF NotConnected, TargetPing, target, Live
<1>7. CASE TargetInit \/ TargetSetter \/ TargetSetIoid \/ (\E i \in Ioids : PinEvent(i))
  <2>1. UNCHANGED slots /\ (hung => hung')
    BY <1>7 DEF TargetInit, TargetSetter, TargetSetIoid, PinEvent, Hang
  <2> QED BY <1>1, <1>7, <2>1, SameObjects
<1>8. CASE CheckConnection \/ Watchdog
  <2>1. slots' = <<>> /\ obj' = [a \in Addresses |-> Dead]
    BY <1>8 DEF CheckConnection, Watchdog, Reset
  <2> QED BY <1>2, <2>1 DEF Live
<1> QED BY <1>3, <1>4, <1>5, <1>6, <1>7, <1>8 DEF TargetStep

\* The target takes its messages in order, or loses them all.
LEMMA TargetTakes ==
    ASSUME Types, TargetStep \/ (\E i \in Ioids : PinEvent(i)) \/ CheckConnection \/ Watchdog
    PROVE  \/ toTarget' = toTarget \/ toTarget' = <<>>
           \/ \E m \in Request : Handles(m) /\ m = toTarget[1]
                                 /\ toTarget # <<>> /\ toTarget' = Tail(toTarget)
<1>1. CASE TargetStep
  BY <1>1, TargetHandles DEF Handles
<1>2. CASE \E i \in Ioids : PinEvent(i)
  BY <1>2 DEF PinEvent
<1>3. CASE CheckConnection \/ Watchdog
  BY <1>3 DEF CheckConnection, Watchdog, Reset
<1> QED BY <1>1, <1>2, <1>3

\* The host sends one message, or none.
LEMMA HostSends ==
    ASSUME Types, ChannelStep, HostStep
    PROVE  toTarget' = toTarget \/ \E m \in Request : Sends(m)
<1>0. toTarget \in Seq(Request)
  BY DEF Types, ChannelTypes
<1>1. toTarget' = toTarget \/ \E kind, id, arg, nr : toTarget' = Append(toTarget, Message(kind, id, arg, nr))
  <2>1. CASE Killed \/ Restart \/ BeginTestCase \/ NextPhase \/ OnPingTimerTick \/ RequestTimeout
    BY <2>1 DEF Killed, Restart, BeginTestCase, NextPhase, OnPingTimerTick, RequestTimeout
  <2>2. ASSUME NEW p \in Probes, ConnectToTarget(p) \/ Register(p) \/ SetProperty(p) \/ Unregister(p)
        PROVE  toTarget' = toTarget \/ \E kind, id, arg, nr : toTarget' = Append(toTarget, Message(kind, id, arg, nr))
    BY <2>2 DEF ConnectToTarget, Register, SetProperty, Unregister, AskConstruct, Ask
  <2>3. CASE WaitReturns
    BY <2>3 DEF WaitReturns, ConnectReturns, ConstructReturns, RequestReturns, DestructReturns, AskConstruct,
                Ask, history
  <2>4. CASE ReceiveAnswer
    BY <2>4 DEF ReceiveAnswer
  <2>5. CASE ReceiveChange
    <3>1. PICK m \in {toHost[1] : i \in DOMAIN toHost} :
              \/ UNCHANGED toTarget
              \/ \E q \in Probes, v \in Levels :
                    \/ Ask("ChangeValue", q, ids[q], v, TRUE)
                    \/ toTarget' = Append(toTarget, Message("ChangeValue", ids[q], v, sent + 1))
      BY ZenonT(40), <2>5 DEF ReceiveChange
    <3> QED BY <3>1 DEF Ask
  <2> QED BY <2>1, <2>2, <2>3, <2>4, <2>5 DEF HostStep, Receive
<1>2. ASSUME NEW m, toTarget' = Append(toTarget, m)
      PROVE  \E n \in Request : Sends(n)
  <2>1. Len(toTarget') = Len(toTarget) + 1
    BY <1>0, <1>2
  <2>2. toTarget' # toTarget /\ toTarget' # <<>> /\ (toTarget # <<>> => toTarget' # Tail(toTarget))
    <3>1. Len(toTarget) \in Nat /\ Len(<<>>) = 0
      BY <1>0
    <3>2. toTarget # <<>> => Len(Tail(toTarget)) = Len(toTarget) - 1
      BY <1>0
    <3>3. toTarget' # toTarget
      BY <2>1, <3>1
    <3>4. toTarget' # <<>>
      BY <2>1, <3>1
    <3>5. toTarget # <<>> => toTarget' # Tail(toTarget)
      BY <2>1, <3>1, <3>2
    <3> QED BY <3>3, <3>4, <3>5
  <2> QED BY <2>2 DEF ChannelStep, Handles
<1> QED BY <1>1, <1>2

\* A message for a probe is for one that is registered, and is not to be destructed.
LEMMA NewMessage ==
    ASSUME Base, InOrder, Next, NEW m \in Request, Sends(m), m.kind \in UserMessages
    PROVE  /\ \E q \in Probes : m.id = ids[q] /\ ids[q] \in Addresses
           /\ wait.kind # "Destruct"
<1> USE DEF Base
<1>0. /\ ChannelStep /\ toTarget \in Seq(Request) /\ sent \in Nat
      /\ m.kind \notin {"Ping", "Connect", "Construct", "Destruct"} /\ m.nr = sent + 1
  <2>1. ChannelStep /\ toTarget \in Seq(Request) /\ sent \in Nat
    BY ChannelSteps DEF Types, ChannelTypes
  <2>2. m.kind \notin {"Ping", "Connect", "Construct", "Destruct"}
    BY DEF UserMessages
  <2>3. m.nr # 0
    BY <2>2 DEF Request
  <2> QED BY <2>1, <2>2, <2>3 DEF Sends
<1>1. toTarget' = Append(toTarget, m) /\ m \in Among(toTarget') /\ m \notin Among(toTarget)
  <2>1. toTarget' = Append(toTarget, m)
    BY DEF Sends
  <2>2. m \in Among(toTarget')
    <3>1. Len(toTarget) + 1 \in DOMAIN Append(toTarget, m) /\ Append(toTarget, m)[Len(toTarget) + 1] = m
      BY <1>0, LastMessage
    <3> QED BY <2>1, <3>1 DEF Among
  <2>3. \A i \in DOMAIN toTarget : toTarget[i].nr <= sent
    BY DEF InOrder, UpTo
  <2> QED BY <1>0, <2>1, <2>2, <2>3 DEF Among
<1>2. CASE Keeps
  <2>1. phase = "run" /\ \E q \in Probes : m.id = ids[q] /\ ids[q] \in Addresses
    BY <1>0, <1>1, <1>2 DEF Keeps
  <2> QED BY <2>1 DEF Control
<1>3. CASE Forgets
  BY <1>1, <1>3 DEF Forgets
<1>4. ASSUME NEW kind, NEW p, NEW id, NEW arg, NEW slot, Asks(kind, p, id, arg, slot)
      PROVE  /\ \E q \in Probes : m.id = ids[q] /\ ids[q] \in Addresses
             /\ wait.kind # "Destruct"
  <2>1. m = Message(kind, id, arg, sent + 1)
    BY <1>0, <1>1, <1>4, AskedMessage
  <2>2. m.kind = kind /\ m.id = id
    BY <2>1 DEF Message
  <2> QED BY <1>0, <1>4, <2>2, NoWaitTypes DEF Asks
<1> QED BY <1>2, <1>3, <1>4, CallSteps

\* The messages for probes find their objects in the next state as well.
LEMMA AddressedStep ==
    ASSUME Core, Addressed, Next
    PROVE  Addressed'
<1> USE DEF Core, Base
<1>0. /\ ChannelStep /\ toTarget \in Seq(Request) /\ sent \in Nat
      /\ \A i \in DOMAIN toTarget : toTarget[i] \in Request
  BY ChannelSteps DEF Types, ChannelTypes
<1>1. CASE HostStep /\ UNCHANGED target
  <2>1. CASE toTarget' = toTarget
    BY <1>1, <2>1 DEF Addressed, target, Live
  <2>2. ASSUME NEW m \in Request, Sends(m) PROVE Addressed'
    <3>1. /\ DOMAIN toTarget' = DOMAIN toTarget \cup {Len(toTarget) + 1} /\ DOMAIN toTarget = 1..Len(toTarget)
          /\ Len(toTarget) \in Nat
          /\ toTarget'[Len(toTarget) + 1] = m
          /\ \A i \in DOMAIN toTarget : toTarget'[i] = toTarget[i]
      BY <1>0, <2>2, LastMessage DEF Sends
    <3>2. ASSUME m.kind \in UserMessages
          PROVE  /\ connected => Live(m.id)
                 /\ \A j \in DOMAIN toTarget : /\ toTarget[j].kind # "Connect"
                                               /\ toTarget[j].kind = "Destruct" => toTarget[j].id # m.id
      <4>1. PICK q \in Probes : m.id = ids[q] /\ ids[q] \in Addresses
        BY <2>2, <3>2, NewMessage
      <4>2. wait.kind # "Destruct" /\ ids[q] # None
        BY <2>2, <3>2, <4>1, NewMessage, LinkAssumption
      <4> QED BY <4>1, <4>2 DEF Alive, Constructing, Among
    <3>3. ASSUME NEW i \in DOMAIN toTarget', toTarget'[i].kind \in UserMessages
          PROVE  connected' => obj'[toTarget'[i].id] # Dead
      <4>1. connected' = connected /\ obj' = obj
        BY <1>1 DEF target
      <4> QED BY <3>1, <3>2, <3>3, <4>1 DEF Addressed, Live
    <3>4. ASSUME NEW i \in DOMAIN toTarget', toTarget'[i].kind \in UserMessages,
                 NEW j \in DOMAIN toTarget', j < i
          PROVE  /\ toTarget'[j].kind # "Connect"
                 /\ toTarget'[j].kind = "Destruct" => toTarget'[j].id # toTarget'[i].id
      <4>1. j \in DOMAIN toTarget
        BY <3>1, <3>4
      <4> QED BY <3>1, <3>2, <3>4, <4>1 DEF Addressed
    <3> QED BY <3>3, <3>4 DEF Addressed, Live
  <2> QED BY <1>0, <1>1, <2>1, <2>2, HostSends
<1>2. CASE /\ TargetStep \/ (\E i \in Ioids : PinEvent(i)) \/ CheckConnection \/ Watchdog
           /\ UNCHANGED <<state, objects, ids, current, unanswered, wait, phase, todo, pin,
                          outcome, sent, irregular>>
  <2>1. CASE toTarget' = <<>>
    BY <2>1 DEF Addressed
  <2>2. ASSUME toTarget' = toTarget PROVE Addressed'
    <3>1. \A m \in Request : ~Handles(m)
      <4>1. Len(Tail(toTarget)) # Len(toTarget) \/ toTarget = <<>>
        BY <1>0
      <4> QED BY <2>2, <4>1 DEF Handles
    <3>2. ASSUME NEW i \in DOMAIN toTarget, toTarget[i].kind \in UserMessages, connected'
          PROVE  obj'[toTarget[i].id] # Dead
      <4>1. connected
        BY <1>0, <1>2, <3>1, <3>2, Connects DEF Among
      <4>2. Live(toTarget[i].id) /\ toTarget[i].id \in Addresses
        BY <1>0, <3>2, <4>1 DEF Addressed, Request
      <4> DEFINE a == toTarget[i].id
      <4>3. a \in Addresses /\ Live(a)
        BY <4>2
      <4> HIDE DEF a
      <4>4. obj'[a] # Dead
        BY <1>0, <1>2, <3>1, <3>2, <4>3, ObjectsStay DEF Among, Live
      <4> QED BY <4>4 DEF a
    <3> QED BY <2>2, <3>2 DEF Addressed, Live
  <2>3. ASSUME NEW m \in Request, Handles(m), m = toTarget[1], toTarget # <<>>, toTarget' = Tail(toTarget)
        PROVE  Addressed'
    <3>1. 1 \in DOMAIN toTarget /\ \A x \in Request : Handles(x) => x = m
      BY <1>0, <2>3 DEF Handles
    <3>2. \A i \in DOMAIN toTarget' : i + 1 \in DOMAIN toTarget /\ toTarget'[i] = toTarget[i + 1] /\ 1 < i + 1
      <4>1. DOMAIN Tail(toTarget) = 1..(Len(toTarget) - 1)
        BY <1>0, <2>3
      <4> QED BY <1>0, <2>3, <3>1, <4>1, FirstMessage
    <3>3. ASSUME NEW i \in DOMAIN toTarget', toTarget'[i].kind \in UserMessages, connected'
          PROVE  obj'[toTarget'[i].id] # Dead
      <4>1. m.kind # "Connect" /\ (m.kind = "Destruct" => m.id # toTarget'[i].id)
        BY <2>3, <3>1, <3>2, <3>3 DEF Addressed
      <4>2. connected
        BY <1>0, <1>2, <3>1, <3>3, <4>1, Connects DEF Among
      <4>3. Live(toTarget'[i].id) /\ toTarget'[i].id \in Addresses
        BY <1>0, <3>2, <3>3, <4>2 DEF Addressed, Request
      <4> DEFINE a == toTarget'[i].id
      <4>4. a \in Addresses /\ Live(a)
        BY <4>3
      <4> HIDE DEF a
      <4>5. obj'[a] # Dead \/ m.kind = "Connect" \/ (m.kind = "Destruct" /\ m.id = a)
        BY <1>0, <1>2, <3>1, <3>3, <4>4, ObjectsStay DEF Among, Live
      <4> QED BY <4>1, <4>5 DEF a
    <3>4. ASSUME NEW i \in DOMAIN toTarget', toTarget'[i].kind \in UserMessages,
                 NEW j \in DOMAIN toTarget', j < i
          PROVE  /\ toTarget'[j].kind # "Connect"
                 /\ toTarget'[j].kind = "Destruct" => toTarget'[j].id # toTarget'[i].id
      <4>1. j + 1 < i + 1
        BY <1>0, <2>3, <3>4
      <4> QED BY <3>2, <3>4, <4>1 DEF Addressed
    <3> QED BY <3>3, <3>4 DEF Addressed, Live
  <2> QED BY <1>2, <2>1, <2>2, <2>3, TargetTakes
<1> QED BY <1>1, <1>2, HostOrTarget


\* The slots that the probes of the test case need until the next one is begun:
\* while it begins, those of the probes that have been registered, and of the one
\* that is being registered.
Registering == IF wait.kind \in {"Construct", "Init"} THEN 1 ELSE 0
Room == IF phase = "init" /\ state # "Disconnected"
        THEN Cardinality(Probes \ todo) + Registering ELSE Cardinality(Probes)

\* The slots that are in use, or will be when the target has read its messages.
Wanted == Len(slots) + (IF \E m \in Among(toTarget) : m.kind = "Construct" THEN 1 ELSE 0)

\* The list is as long as the probes need it, unless a connection is about to be made.
Slotted ==
    /\ Len(slots) <= Cardinality(Probes)
    /\ (\A m \in Among(toTarget) : m.kind # "Connect") => Wanted <= Room

\* There are as many slots as probes.
LEMMA RoomBound ==
    ASSUME Base
    PROVE  /\ Cardinality(Probes) \in Nat /\ Cardinality(Probes \ todo) \in Nat
           /\ Room \in Nat /\ Room <= Cardinality(Probes)
           /\ Cardinality(Probes \ todo) <= Cardinality(Probes)
           /\ wait.kind = "Construct" => Room >= 1
           /\ \A p \in todo : Cardinality(Probes \ (todo \ {p})) = Cardinality(Probes \ todo) + 1
<1> USE DEF Base
<1>0. IsFiniteSet(Probes) /\ todo \subseteq Probes /\ (wait.kind # "none" => wait.probe \in Probes)
  BY LinkAssumption DEF Types, HostTypes, Call
<1>1. /\ IsFiniteSet(Probes \ todo) /\ Cardinality(Probes) \in Nat /\ Cardinality(Probes \ todo) \in Nat
      /\ Cardinality(Probes \ todo) <= Cardinality(Probes)
  BY <1>0, FS_Subset, FS_CardinalityType
<1>2. ASSUME NEW p \in todo
      PROVE  /\ Cardinality(Probes \ (todo \ {p})) = Cardinality(Probes \ todo) + 1
             /\ Cardinality(Probes \ todo) + 1 <= Cardinality(Probes)
  <2>1. Probes \ (todo \ {p}) = (Probes \ todo) \cup {p} /\ p \notin Probes \ todo
    BY <1>0, <1>2
  <2>2. Cardinality((Probes \ todo) \cup {p}) = Cardinality(Probes \ todo) + 1
    BY <1>1, <2>1, FS_AddElement
  <2>3. (Probes \ todo) \cup {p} \subseteq Probes
    BY <1>0, <1>2
  <2>4. Cardinality((Probes \ todo) \cup {p}) <= Cardinality(Probes)
    BY <1>0, <2>3, FS_Subset
  <2> QED BY <2>1, <2>2, <2>4
<1>3. Registering \in {0, 1} /\ (Registering = 1 => wait.probe \in todo) /\ (wait.kind = "Construct" => Registering = 1)
  BY DEF Registering, Control
<1>4. Room \in Nat /\ Room <= Cardinality(Probes)
  <2>1. CASE phase = "init" /\ state # "Disconnected"
    <3>1. Room = Cardinality(Probes \ todo) + Registering
      BY <2>1 DEF Room
    <3>2. Registering = 1 => Cardinality(Probes \ todo) + 1 <= Cardinality(Probes)
      BY <1>2, <1>3
    <3> QED BY <1>1, <1>3, <3>1, <3>2
  <2>2. CASE ~(phase = "init" /\ state # "Disconnected")
    BY <1>1, <2>2 DEF Room
  <2> QED BY <2>1, <2>2
<1>5. wait.kind = "Construct" => Room >= 1
  <2>1. wait.kind = "Construct" => phase = "init" /\ state # "Disconnected"
    BY DEF Control
  <2> QED BY <1>1, <1>3, <2>1 DEF Room
<1> QED BY <1>1, <1>2, <1>4, <1>5

\* The host asks for a slot only if there is one.
LEMMA HostSlots ==
    ASSUME Core, Slotted, Next, HostStep, UNCHANGED target, Core'
    PROVE  Slotted'
<1> USE DEF Core, Base
<1>0. /\ ChannelStep /\ toTarget \in Seq(Request) /\ Len(slots) \in Nat
      /\ slots' = slots
      /\ Among(toTarget) \subseteq Among(toTarget')
  <2>1. ChannelStep /\ toTarget \in Seq(Request) /\ Len(slots) \in Nat /\ slots' = slots
    BY ChannelSteps DEF Types, ChannelTypes, TargetTypes, target
  <2>2. ASSUME NEW m \in Request, Sends(m) PROVE Among(toTarget) \subseteq Among(toTarget')
    <3>1. \A i \in DOMAIN toTarget : i \in DOMAIN toTarget' /\ toTarget'[i] = toTarget[i]
      BY <2>1, <2>2, LastMessage DEF Sends
    <3> QED BY <3>1 DEF Among
  <2> QED BY <2>1, <2>2, HostSends
<1>1. Cardinality(Probes) \in Nat /\ Cardinality(Probes \ todo) \in Nat /\ Room \in Nat
  BY RoomBound
<1>2. SUFFICES ASSUME \A m \in Among(toTarget') : m.kind # "Connect"
               PROVE  Wanted' <= Room'
  BY <1>0 DEF Slotted
<1>3. Wanted <= Room /\ Wanted \in {Len(slots), Len(slots) + 1} /\ Wanted' \in {Len(slots), Len(slots) + 1}
  BY <1>0, <1>2 DEF Slotted, Wanted
<1>4. CASE phase' # "init" \/ state' = "Disconnected"
  <2>1. Room' = Cardinality(Probes)
    BY <1>4 DEF Room
  <2>2. wait'.kind # "Construct"
    BY <1>4 DEF Control
  <2>3. \A m \in Among(toTarget') : m.kind # "Construct"
    BY <2>2 DEF Constructing
  <2>4. Wanted' = Len(slots)
    BY <1>0, <2>3 DEF Wanted
  <2> QED BY <2>1, <2>4 DEF Slotted
<1>5. CASE UNCHANGED <<phase, todo, state>> /\ wait'.kind = wait.kind
  <2>1. Room' = Room
    BY <1>5 DEF Room, Registering
  <2>2. ASSUME NEW m \in Among(toTarget'), m.kind = "Construct" PROVE m \in Among(toTarget)
    <3>1. CASE Keeps
      BY <2>2, <3>1 DEF Keeps
    <3>2. CASE Forgets
      BY <2>2, <3>2 DEF Forgets
    <3>3. ASSUME NEW kind, NEW p, NEW id, NEW arg, NEW slot, Asks(kind, p, id, arg, slot), m \notin Among(toTarget)
          PROVE  FALSE
      <4>1. m = Message(kind, id, arg, sent + 1) /\ wait'.kind = kind
        BY <1>0, <2>2, <3>3, AskedMessage
      <4>2. wait.kind = "Construct" /\ kind = "Construct"
        BY <1>5, <2>2, <4>1 DEF Message
      <4> QED BY <3>3, <4>2, NoWaitTypes DEF Asks
    <3> QED BY <3>1, <3>2, <3>3, CallSteps
  <2>3. Wanted' <= Wanted
    BY <1>0, <2>2 DEF Wanted
  <2> QED BY <1>0, <1>1, <1>3, <2>1, <2>3
<1>6. CASE UNCHANGED <<phase, todo>> /\ phase = "init" /\ wait.kind \in {"none", "Connect"} /\ wait'.kind = "Construct"
           /\ state # "Disconnected" /\ state' # "Disconnected"
  <2>1. Room = Cardinality(Probes \ todo) /\ Room' = Cardinality(Probes \ todo) + 1
    BY <1>1, <1>6 DEF Room, Registering
  <2>2. Wanted = Len(slots)
    BY <1>0, <1>6 DEF Wanted, Constructing
  <2> QED BY <1>0, <1>1, <1>3, <2>1, <2>2
<1>7. CASE UNCHANGED <<phase, todo, state>> /\ wait.kind = "Construct" /\ wait'.kind = "Init"
  <2>1. Room' = Room
    BY <1>7 DEF Room, Registering
  <2>2. Wanted' = Len(slots)
    BY <1>0, <1>7 DEF Wanted, Constructing
  <2> QED BY <1>0, <1>1, <1>3, <2>1, <2>2
<1>8. CASE UNCHANGED <<phase, state>> /\ wait.kind = "Init" /\ wait'.kind = "none" /\ todo' = todo \ {wait.probe}
  <2>1. Wanted' = Len(slots)
    BY <1>0, <1>8 DEF Wanted, Constructing
  <2>2. wait.probe \in todo /\ phase = "init" /\ state # "Disconnected"
    BY <1>8 DEF Control
  <2>3. Cardinality(Probes \ todo') = Cardinality(Probes \ todo) + 1
    BY <1>8, <2>2, RoomBound
  <2>4. Room = Cardinality(Probes \ todo) + 1 /\ Room' = Cardinality(Probes \ todo')
    <3>1. Registering = 1 /\ Registering' = 0
      BY <1>8 DEF Registering
    <3>2. Room' = Cardinality(Probes \ todo') + Registering'
      BY <1>8, <2>2 DEF Room
    <3>3. Room = Cardinality(Probes \ todo) + Registering
      BY <2>2 DEF Room
    <3> QED BY <1>1, <2>3, <3>1, <3>2, <3>3
  <2> QED BY <1>0, <1>1, <1>3, <2>1, <2>3, <2>4
<1>9. ASSUME NEW p, Ask("Connect", p, 0, None, FALSE) PROVE FALSE
  <2>1. toTarget' = Append(toTarget, Message("Connect", 0, None, sent + 1))
    BY <1>9 DEF Ask
  <2>2. Message("Connect", 0, None, sent + 1).kind = "Connect"
    BY DEF Message
  <2> HIDE DEF Message
  <2>3. Message("Connect", 0, None, sent + 1) \in Among(toTarget')
    <3>1. /\ Len(toTarget) + 1 \in DOMAIN toTarget'
          /\ toTarget'[Len(toTarget) + 1] = Message("Connect", 0, None, sent + 1)
      BY <1>0, <2>1
    <3> QED BY <3>1 DEF Among
  <2> QED BY <1>2, <2>2, <2>3
<1>10. CASE Killed \/ OnPingTimerTick \/ RequestTimeout \/ ReceiveAnswer
  <2>1. UNCHANGED <<phase, todo, state>> /\ wait'.kind = wait.kind
    <3>1. wait \in Call
      BY DEF Types, HostTypes
    <3> QED BY <1>10, <3>1 DEF Killed, OnPingTimerTick, RequestTimeout, ReceiveAnswer, Answered, Call
  <2> QED BY <1>5, <2>1
<1>11. CASE ReceiveChange
  <2>1. UNCHANGED <<phase, todo, state>> /\ (wait'.kind = wait.kind \/ phase = "run")
    BY <1>11 DEF ReceiveChange
  <2> QED BY <1>4, <1>5, <2>1
<1>12. CASE Restart \/ NextPhase \/ BeginTestCase
  <2>1. phase' # "init" \/ state' = "Disconnected"
    BY <1>12 DEF Restart, NextPhase, BeginTestCase, Registered
  <2> QED BY <1>4, <2>1
<1>13. ASSUME NEW p \in Probes, ConnectToTarget(p) PROVE Wanted' <= Room'
  BY <1>5, <1>9, <1>13 DEF ConnectToTarget
<1>14. ASSUME NEW p \in Probes, Register(p) PROVE Wanted' <= Room'
  <2>1. UNCHANGED <<phase, todo, state>> /\ phase = "init" /\ wait.kind = "none" /\ wait'.kind = "Construct"
        /\ state = "Connected"
    BY <1>14, NoWaitTypes DEF Register, Idle, AskConstruct, Ask
  <2> QED BY <1>6, <2>1
<1>15. ASSUME NEW p \in Probes, SetProperty(p) \/ Unregister(p) PROVE Wanted' <= Room'
  <2>1. phase' # "init"
    BY <1>15 DEF SetProperty, Unregister
  <2> QED BY <1>4, <2>1
<1>16. CASE ConnectReturns
  <2>1. /\ wait.kind = "Connect" /\ UNCHANGED <<phase, todo>>
        /\ \/ state' = "Connected" /\ wait'.kind = "Construct"
           \/ Ask("Connect", wait.probe, 0, None, FALSE)
           \/ UNCHANGED <<state, wait>>
    BY <1>16 DEF ConnectReturns, Returned, AskConstruct, Ask
  <2>2. phase = "init" /\ state = "Standby"
    BY <2>1 DEF Control
  <2> QED BY <1>5, <1>6, <1>9, <2>1, <2>2
<1>17. CASE ConstructReturns
  <2>1. /\ wait.kind = "Construct" /\ UNCHANGED <<phase, todo, state>>
        /\ wait' = wait \/ wait'.kind = "Init"
    BY <1>17 DEF ConstructReturns, Returned, Ask
  <2> QED BY <1>5, <1>7, <2>1
<1>18. CASE RequestReturns
  <2>1. /\ wait.kind \in UserMessages /\ wait'.kind = "none" /\ UNCHANGED <<phase, state>>
        /\ wait.kind = "Init" => todo' = todo \ {wait.probe}
    BY <1>18, NoWaitTypes DEF RequestReturns, Returned, UserMessages
  <2>2. wait.kind = "Init" \/ phase = "run"
    BY <2>1 DEF Control, Setters, UserMessages
  <2> QED BY <1>4, <1>8, <2>1, <2>2
<1>19. CASE DestructReturns
  <2>1. wait.kind = "Destruct" /\ phase' = phase
    BY <1>19 DEF DestructReturns, Returned
  <2>2. phase' # "init"
    BY <2>1 DEF Control
  <2> QED BY <1>4, <2>2
<1> QED BY <1>10, <1>11, <1>12, <1>13, <1>14, <1>15, <1>16, <1>17, <1>18, <1>19
        DEF HostStep, WaitReturns, Receive

\* The target takes a slot only if the host has asked for it.
LEMMA TargetSlots ==
    ASSUME Core, Slotted, Next, Core',
           TargetStep \/ (\E i \in Ioids : PinEvent(i)) \/ CheckConnection \/ Watchdog,
           UNCHANGED <<state, objects, ids, current, unanswered, wait, phase, todo, pin,
                       outcome, sent, irregular>>
    PROVE  Slotted'
<1> USE DEF Core, Base
<1>0. /\ ChannelStep /\ toTarget \in Seq(Request) /\ slots \in Seq(Addresses \cup {None})
      /\ Len(slots) \in Nat /\ Room' = Room
  BY ChannelSteps DEF Types, ChannelTypes, TargetTypes, Room, Registering
<1>1. /\ Cardinality(Probes) \in Nat /\ Room \in Nat /\ Room <= Cardinality(Probes)
      /\ wait.kind = "Construct" => Room >= 1
  BY RoomBound
<1>2. Among(toTarget') \subseteq Among(toTarget)
  <2>1. toTarget # <<>> => Among(Tail(toTarget)) \subseteq Among(toTarget)
    BY <1>0, OrderedTail DEF InOrder, Among
  <2>2. Among(<<>>) = {}
    BY DEF Among
  <2> QED BY <2>1, <2>2, TargetTakes
<1>3. CASE slots' = <<>>
  <2>1. Wanted' \in {0, 1} /\ (Wanted' = 1 => wait.kind = "Construct")
    BY <1>3 DEF Wanted, Constructing
  <2> QED BY <1>0, <1>1, <1>3, <2>1 DEF Slotted
<1>4. CASE Len(slots') = Len(slots) /\ ~TargetConnect /\ ~CheckConnection /\ ~Watchdog
  <2>1. ASSUME NEW m \in Among(toTarget), m.kind = "Connect" PROVE m \in Among(toTarget')
    <3>1. CASE toTarget' = toTarget
      BY <2>1, <3>1
    <3>2. CASE TargetStep
      <4>1. PICK n \in Request : /\ Handles(n) /\ n = toTarget[1] /\ toTarget # <<>>
                                 /\ toTarget' = Tail(toTarget)
                                 /\ {toTarget[1] : i \in DOMAIN toTarget} = {n}
        BY <3>2, HandledFirst DEF Handles
      <4>2. n.kind # "Connect"
        BY <1>4, <3>2, <4>1 DEF TargetStep, NotConnected, TargetConstruct, TargetDestruct, TargetPing,
                                TargetInit, TargetSetter, TargetSetIoid, Take, UserMessages
      <4>3. n \in {toTarget[1] : i \in DOMAIN toTarget}
        BY <4>1
      <4>4. \A i \in DOMAIN toTarget : i = 1 \/ (i - 1 \in DOMAIN Tail(toTarget) /\ toTarget[i] = Tail(toTarget)[i - 1])
        BY <1>0, <4>3, FirstMessage
      <4> QED BY <2>1, <4>1, <4>2, <4>4 DEF Among
    <3>3. CASE \E i \in Ioids : PinEvent(i)
      BY <2>1, <3>3 DEF PinEvent
    <3> QED BY <1>4, <3>2, <3>3
  <2>2. Len(slots) <= Cardinality(Probes)
    BY DEF Slotted
  <2>3. Wanted' <= Wanted /\ Wanted \in Nat /\ Wanted' \in Nat
    BY <1>0, <1>2, <1>4 DEF Wanted
  <2>4. ASSUME \A m \in Among(toTarget') : m.kind # "Connect" PROVE Wanted' <= Room'
    <3>1. Wanted <= Room
      BY <2>1, <2>4 DEF Slotted
    <3> QED BY <1>0, <1>1, <2>3, <3>1
  <2> QED BY <1>4, <2>2, <2>4 DEF Slotted
<1>5. CASE TargetConstruct
  <2>1. PICK m \in Request : /\ Handles(m) /\ {toTarget[1] : i \in DOMAIN toTarget} = {m}
                             /\ m \in Among(toTarget) /\ m = toTarget[1] /\ toTarget # <<>>
                             /\ toTarget' = Tail(toTarget)
    BY <1>5, HandledFirst DEF TargetStep, Handles
  <2>2. m.kind = "Construct"
    BY <1>5, <2>1 DEF TargetConstruct, Take
  <2>3. m.nr = sent /\ wait.kind = "Construct" /\ m.nr # 0 /\ sent \in Nat
    BY <2>1, <2>2 DEF Constructing, Request, Types, ChannelTypes
  <2>4. \A x \in Among(toTarget) : x = m \/ (x \in Among(Tail(toTarget)))
    <3>1. m \in {toTarget[1] : i \in DOMAIN toTarget}
      BY <2>1
    <3>2. \A i \in DOMAIN toTarget : i = 1 \/ (i - 1 \in DOMAIN Tail(toTarget) /\ toTarget[i] = Tail(toTarget)[i - 1])
      BY <1>0, <3>1, FirstMessage
    <3>3. ASSUME NEW i \in DOMAIN toTarget PROVE toTarget[i] = m \/ toTarget[i] \in Among(Tail(toTarget))
      <4>1. CASE i = 1
        BY <2>1, <4>1
      <4>2. CASE i - 1 \in DOMAIN Tail(toTarget) /\ toTarget[i] = Tail(toTarget)[i - 1]
        BY <4>2 DEF Among
      <4> QED BY <3>2, <4>1, <4>2
    <3> QED BY <3>3 DEF Among
  <2>5. \A x \in Among(Tail(toTarget)) : x.kind = "Ping"
    <3>1. /\ \A i \in DOMAIN Tail(toTarget) : Before(toTarget[1], Tail(toTarget)[i])
          /\ \A i \in DOMAIN Tail(toTarget) : \E k \in DOMAIN toTarget : Tail(toTarget)[i] = toTarget[k]
      BY <1>0, <2>1, OrderedTail DEF InOrder
    <3>2. \A i \in DOMAIN toTarget : toTarget[i].nr \in Nat /\ toTarget[i].nr <= sent /\ toTarget[i] \in Request
      BY <1>0, Numbers DEF InOrder, UpTo
    <3>3. \A i \in DOMAIN Tail(toTarget) : Tail(toTarget)[i].nr = 0
      BY <2>1, <2>3, <3>1, <3>2 DEF Before
    <3>4. \A x \in Among(Tail(toTarget)) : x.nr = 0 /\ x \in Request
      BY <3>1, <3>2, <3>3 DEF Among
    <3> QED BY <3>4 DEF Request
  <2>6. Len(slots) + 1 <= Room
    <3>1. \A x \in Among(toTarget) : x.kind # "Connect"
      BY <2>2, <2>4, <2>5
    <3>2. Wanted <= Room
      BY <3>1 DEF Slotted
    <3>3. Wanted = Len(slots) + 1
      BY <1>0, <2>1, <2>2 DEF Wanted
    <3> QED BY <3>2, <3>3
  <2>7. slots' \in Seq(Addresses \cup {None}) /\ Len(slots') \in Nat /\ Len(slots') <= Len(slots) + 1
    <3>1. slots' = slots \/ \E a \in Addresses : slots' = Append(slots, a)
      BY <1>5 DEF TargetConstruct
    <3> QED BY <1>0, <3>1
  <2>8. Wanted' = Len(slots')
    BY <2>1, <2>5, <2>7 DEF Wanted
  <2> QED BY <1>0, <1>1, <2>6, <2>7, <2>8 DEF Slotted
<1>6. CASE TargetDestruct
  <2>1. slots' = <<>> \/ \E x : slots' = [k \in DOMAIN slots |-> IF slots[k] = x THEN None ELSE slots[k]]
    BY <1>6 DEF TargetDestruct
  <2>2. slots' # <<>> => ~TargetConnect /\ ~CheckConnection /\ ~Watchdog
    BY DEF TargetConnect, CheckConnection, Watchdog, Reset
  <2>3. ASSUME NEW x, slots' = [k \in DOMAIN slots |-> IF slots[k] = x THEN None ELSE slots[k]]
        PROVE  Len(slots') = Len(slots)
    <3>1. DOMAIN slots' = 1..Len(slots) /\ slots' \in Seq(Addresses \cup {None})
      BY <1>0, <2>3 DEF Types, TargetTypes
    <3> QED BY <1>0, <3>1
  <2> QED BY <1>3, <1>4, <2>1, <2>2, <2>3
<1>7. CASE TargetConnect \/ CheckConnection \/ Watchdog
  <2>1. slots' = <<>>
    BY <1>7 DEF TargetConnect, CheckConnection, Watchdog, Reset
  <2> QED BY <1>3, <2>1
<1>8. CASE ~TargetConnect /\ ~CheckConnection /\ ~Watchdog /\ ~TargetConstruct /\ ~TargetDestruct
  <2>1. slots' = slots
    BY <1>8 DEF TargetStep, NotConnected, TargetPing, TargetInit, TargetSetter, TargetSetIoid, PinEvent, target
  <2> QED BY <1>4, <1>8, <2>1
<1> QED BY <1>5, <1>6, <1>7, <1>8


\* What the target has in memory, and what is on its way to it.
Memory == Listed /\ Addressed /\ Slotted

\* It holds when qst starts.
LEMMA MemoryInit == Init => Memory
<1> SUFFICES ASSUME Init PROVE Memory
  OBVIOUS
<1>1. /\ toTarget = <<>> /\ slots = <<>> /\ obj = [a \in Addresses |-> Dead] /\ state = "Disconnected"
      /\ Len(slots) = 0 /\ DOMAIN toTarget = {} /\ DOMAIN slots = {} /\ Among(toTarget) = {}
  BY DEF Init, Among
<1>2. Cardinality(Probes) \in Nat
  BY LinkAssumption, FS_CardinalityType
<1>3. Listed /\ Addressed
  BY <1>1 DEF Listed, Addressed, Live
<1>4. Room = Cardinality(Probes) /\ Wanted = 0
  BY <1>1 DEF Room, Wanted
<1> QED BY <1>1, <1>2, <1>3, <1>4 DEF Memory, Slotted

\* No step breaks it.
LEMMA MemoryStep ==
    ASSUME Core, Memory, [Next]_vars, Core'
    PROVE  Memory'
<1>1. CASE HostStep /\ UNCHANGED target /\ Next
  <2>1. Listed'
    BY <1>1 DEF Memory, Listed, target, Live
  <2> QED BY <1>1, <2>1, AddressedStep, HostSlots DEF Memory
<1>2. CASE /\ TargetStep \/ (\E i \in Ioids : PinEvent(i)) \/ CheckConnection \/ Watchdog
           /\ UNCHANGED <<state, objects, ids, current, unanswered, wait, phase, todo, pin,
                          outcome, sent, irregular>>
           /\ Next
  <2>1. Listed'
    BY <1>2, ListedStep DEF Memory, Core, Base
  <2>2. Addressed'
    BY <1>2, AddressedStep DEF Memory
  <2>3. Slotted'
    BY <1>2, TargetSlots DEF Memory
  <2> QED BY <2>1, <2>2, <2>3 DEF Memory
<1>3. CASE UNCHANGED vars
  <2>1. UNCHANGED <<host, target, toTarget>>
    BY <1>3 DEF vars
  <2>2. Listed' /\ Addressed'
    BY <2>1 DEF Memory, Listed, Addressed, target, Live
  <2>3. Slotted'
    BY <2>1 DEF Memory, Slotted, Wanted, Room, Registering, Among, host, target
  <2> QED BY <2>2, <2>3 DEF Memory
<1> QED BY <1>1, <1>2, <1>3, HostOrTarget

\* The target and what is sent to it are always in such a state.
THEOREM MemoryHolds == Spec => []Memory
<1>1. Core /\ Memory /\ [Next]_vars /\ Core' => Memory'
  BY MemoryStep
<1> QED BY <1>1, MemoryInit, CoreHolds, PTL DEF Spec

\* Every object of the target is in the list, once, and the list never runs out of
\* slots; a message for a probe finds its object in memory.
THEOREM MemoryIsSafe == Spec => []TargetMemorySafe
<1>1. ASSUME Core, Memory PROVE TargetMemorySafe
  <2>0. /\ slots \in Seq(Addresses \cup {None}) /\ toTarget \in Seq(Request) /\ None \notin Addresses
    BY <1>1, LinkAssumption DEF Core, Base, Types, TargetTypes, ChannelTypes
  <2>1. Len(slots) <= Cardinality(Probes)
    BY <1>1 DEF Memory, Slotted
  <2>2. ASSUME ~hung, NEW a \in Addresses
        PROVE  Live(a) <=> Cardinality({k \in Used : slots[k] = a}) = 1
    <3>1. {k \in Used : slots[k] = a} = {k \in DOMAIN slots : slots[k] = a}
      BY <2>0 DEF Used
    <3>2. CASE Live(a)
      <4>1. PICK k \in DOMAIN slots : slots[k] = a
        BY <1>1, <2>2, <3>2 DEF Memory, Listed
      <4>2. {l \in DOMAIN slots : slots[l] = a} = {k}
        BY <1>1, <2>0, <4>1 DEF Memory, Listed
      <4> QED BY <3>1, <3>2, <4>2, FS_Singleton
    <3>3. CASE ~Live(a)
      <4>1. {l \in DOMAIN slots : slots[l] = a} = {}
        BY <1>1, <2>2, <3>3 DEF Memory, Listed
      <4>2. Cardinality({}) = 0
        BY FS_EmptySet
      <4> QED BY <3>1, <3>3, <4>1, <4>2
    <3> QED BY <3>2, <3>3
  <2>3. ASSUME connected, toTarget # <<>>, Head(toTarget).kind \in UserMessages
        PROVE  Live(Head(toTarget).id)
    <3>1. 1 \in DOMAIN toTarget /\ Head(toTarget) = toTarget[1]
      BY <2>0, <2>3
    <3> QED BY <1>1, <2>3, <3>1 DEF Memory, Addressed
  <2> QED BY <2>1, <2>2, <2>3 DEF TargetMemorySafe
<1> QED BY <1>1, CoreHolds, MemoryHolds, PTL


-----------------------------------------------------------------------------
(* Pins on both sides.                                                     *)

\* As long as no handler has written during a wait, and while a test case begins,
\* there is at most one message with a number: it is about the call in progress.
OneOpen ==
    /\ "nested" \notin irregular \/ phase = "init"
    /\ \E p \in Probes : ids[p] # None
    => \A m \in Among(toTarget) \cup Among(toHost) :
            m.nr # 0 => m.nr = wait.nr /\ wait.by \in {Pending, Expired}

\* A test case begins without probes; a handler that wrote during a wait is known
\* until qst is started again.
LEMMA RegularStays ==
    ASSUME Base, Next, "nested" \notin irregular' \/ phase' = "init", \E p \in Probes : ids'[p] # None
    PROVE  "nested" \notin irregular \/ phase = "init"
<1>1. ~Restart
  BY DEF Restart
<1>2. ~BeginTestCase
  BY DEF BeginTestCase, Base, Registered, registry
<1>3. CASE HostStep
  <2>1. phase' = phase \/ phase' # "init"
    <3>1. CASE Killed \/ NextPhase \/ OnPingTimerTick \/ RequestTimeout
      BY <3>1 DEF Killed, NextPhase, OnPingTimerTick, RequestTimeout
    <3>2. CASE \E p \in Probes : ConnectToTarget(p) \/ Register(p) \/ SetProperty(p) \/ Unregister(p)
      BY <3>2 DEF ConnectToTarget, Register, SetProperty, Unregister
    <3>3. CASE WaitReturns
      BY <3>3 DEF WaitReturns, ConnectReturns, ConstructReturns, RequestReturns, DestructReturns
    <3>4. CASE Receive
      BY <3>4 DEF Receive, ReceiveAnswer, ReceiveChange
    <3> QED BY <1>1, <1>2, <1>3, <3>1, <3>2, <3>3, <3>4 DEF HostStep
  <2> QED BY <1>1, <2>1, IrregularStays
<1>4. CASE UNCHANGED <<irregular, phase>>
  BY <1>4
<1> QED BY <1>3, <1>4, HostOrTarget


\* No second request is under way.
LEMMA OneOpenStep ==
    ASSUME Core, OneOpen, Next
    PROVE  OneOpen'
<1> USE DEF Core, Base
<1>0. /\ ChannelStep /\ toTarget \in Seq(Request) /\ toHost \in Seq(Reply) /\ sent \in Nat
      /\ toTarget' \in Seq(Request) /\ toHost' \in Seq(Reply) /\ wait \in Call /\ wait.nr \in Nat
      /\ wait.nr <= sent /\ wait.by \in Int
  <2>1. ChannelStep
    BY ChannelSteps
  <2>2. wait \in Call /\ wait.nr \in Nat /\ sent \in Nat /\ wait.by \in Int
    BY DEF Types, HostTypes, ChannelTypes, Call
  <2>3. wait.nr <= sent
    BY <2>2, NoWaitTypes DEF Control
  <2> QED BY <2>1, <2>2, <2>3, ChannelsKeepTypes DEF Types, ChannelTypes
<1>1. SUFFICES ASSUME "nested" \notin irregular' \/ phase' = "init", \E p \in Probes : ids'[p] # None,
                      NEW x \in Among(toTarget') \cup Among(toHost'), x.nr # 0
               PROVE  x.nr = wait'.nr /\ wait'.by \in {Pending, Expired}
  BY DEF OneOpen
<1>2. "nested" \notin irregular \/ phase = "init"
  BY <1>1, RegularStays
<1>3. CASE HostStep /\ UNCHANGED target
  <2>1. CASE Keeps /\ UNCHANGED ids
    <3>1. x \in Among(toTarget) \cup Among(toHost)
      <4>1. CASE x \in Among(toHost')
        BY <1>3, <4>1, HostReads
      <4>2. CASE x \in Among(toTarget')
        <5>1. x \in Request
          BY <1>0, <4>2 DEF Among
        <5>2. x.kind # "Ping"
          BY <1>1, <5>1 DEF Request
        <5> QED BY <1>1, <2>1, <4>2, <5>2 DEF Keeps
      <4> QED BY <1>1, <4>1, <4>2
    <3>2. x.nr = wait.nr /\ wait.by \in {Pending, Expired} /\ wait'.nr = wait.nr
      BY <1>1, <1>2, <2>1, <3>1 DEF OneOpen, Keeps
    <3>3. CASE wait'.by \in {wait.by, Expired}
      BY <3>2, <3>3
    <3>4. CASE wait'.by \notin {wait.by, Expired}
      <4>1. ReceiveAnswer
        BY <1>0, <2>1, <3>4 DEF Keeps, RequestTimeout, Call
      <4>2. PICK h \in {toHost[1] : i \in DOMAIN toHost} : Next1(h) /\ Answered(h)
        BY <4>1 DEF ReceiveAnswer
      <4>3. h.nr # 0
        BY <3>4, <4>2 DEF Answered, EndsWait
      <4>4. h = toHost[1] /\ 1 \in DOMAIN toHost /\ toHost' = Tail(toHost) /\ toHost # <<>>
        BY <1>0, <4>2, FirstMessage DEF Next1
      <4>5. h.nr = wait.nr
        BY <1>1, <1>2, <2>1, <4>3, <4>4 DEF OneOpen, Among
      <4>6. CASE x \in Among(toTarget)
        <5>1. Before(h, x)
          BY <4>4, <4>6 DEF InOrder, Follows, Among
        <5> QED BY <1>0, <1>1, <3>2, <4>3, <4>5, <5>1 DEF Before
      <4>7. CASE x \in Among(toHost')
        <5>1. Before(h, x)
          BY <1>0, <4>4, <4>7, OrderedTail DEF InOrder, Among
        <5> QED BY <1>0, <1>1, <3>2, <4>3, <4>5, <5>1 DEF Before
      <4>8. toTarget' = toTarget
        BY <4>1 DEF ReceiveAnswer
      <4> QED BY <1>1, <4>6, <4>7, <4>8
    <3> QED BY <3>3, <3>4
  <2>2. CASE Identified /\ Keeps
    <3>1. PICK h \in Reply : h.kind = "ObjectId" /\ toHost # <<>> /\ h = toHost[1] /\ toHost' = Tail(toHost)
      BY <2>2 DEF Identified
    <3>2. h \in Among(toHost) /\ toTarget' = toTarget
      BY <1>0, <2>2, <3>1 DEF Among, Identified
    <3>3. toHost[1].nr = sent /\ sent # 0
      BY <3>1, <3>2, AddressAlone
    <3>4. x.nr = 0
      BY <1>1, <3>1, <3>2, <3>3, NothingBehind
    <3> QED BY <1>1, <3>4
  <2>3. CASE Forgets
    <3>1. x \in Among(toTarget) \cup Among(toHost) /\ \E p \in Probes : ids[p] # None
      <4>1. toTarget' = toTarget /\ (toHost' = toHost \/ toHost' = <<>>)
        BY <2>3 DEF Forgets
      <4>2. Among(<<>>) = {}
        BY DEF Among
      <4>3. \A p \in Probes : ids'[p] # None => ids[p] # None
        <5>1. ids \in [Probes -> Addresses \cup {None}]
          BY DEF Types, HostTypes
        <5>2. \/ ids' = ids \/ ids' = [ids EXCEPT ![wait.probe] = None]
              \/ ids' = [p \in Probes |-> None]
          BY <2>3 DEF Forgets
        <5> QED BY <5>1, <5>2
      <4> QED BY <1>1, <4>1, <4>2, <4>3
    <3>2. wait.by \in {Pending, Expired}
      BY <1>1, <1>2, <3>1 DEF OneOpen
    <3>3. wait.kind \in UserMessages => wait.by # Expired
      BY DEF Control, UserMessages, HasTimeout
    <3>4. ids' = [p \in Probes |-> None]
      BY <2>3, <3>2, <3>3 DEF Forgets
    <3> QED BY <1>1, <3>4
  <2>4. ASSUME NEW kind, NEW p, NEW id, NEW arg, NEW slot, Asks(kind, p, id, arg, slot)
        PROVE  x.nr = wait'.nr /\ wait'.by \in {Pending, Expired}
    <3>1. wait'.nr = sent + 1 /\ wait'.by = Pending /\ ids' = ids
      BY <1>0, <2>4, AskedMessage DEF Asks
    <3>2. CASE x = Message(kind, id, arg, sent + 1)
      BY <3>1, <3>2 DEF Message
    <3>3. CASE x \in Among(toTarget) \cup Among(toHost)
      <4>1. x.nr = wait.nr /\ wait.by \in {Pending, Expired}
        BY <1>1, <1>2, <3>1, <3>3 DEF OneOpen
      <4>2. wait # NoWait
        BY <1>1, <4>1, NoWaitTypes
      <4>3. wait.kind # "Connect"
        BY <1>1, <3>1 DEF Control, Registered
      <4> QED BY <2>4, <4>1, <4>2, <4>3 DEF Asks
    <3> QED BY <1>0, <1>1, <2>4, <3>2, <3>3, AskedMessage
  <2> QED BY <2>1, <2>2, <2>3, <2>4, CallSteps DEF Keeps
<1>4. CASE /\ TargetStep \/ (\E i \in Ioids : PinEvent(i)) \/ CheckConnection \/ Watchdog
           /\ UNCHANGED <<state, objects, ids, current, unanswered, wait, phase, todo, pin,
                          outcome, sent, irregular>>
  <2>1. \E y \in Among(toTarget) \cup Among(toHost) : y.nr = x.nr
    <3>1. CASE x \in Among(toHost')
      BY <1>0, <1>1, <3>1, ChannelElements
    <3>2. CASE x \in Among(toTarget')
      <4>1. toTarget # <<>> => Among(Tail(toTarget)) \subseteq Among(toTarget)
        BY <1>0, OrderedTail DEF InOrder, Among
      <4>2. Among(<<>>) = {}
        BY DEF Among
      <4> QED BY <1>4, <3>2, <4>1, <4>2, TargetTakes
    <3> QED BY <1>1, <3>1, <3>2
  <2> QED BY <1>1, <1>2, <1>4, <2>1 DEF OneOpen
<1> QED BY <1>3, <1>4, HostOrTarget


\* The probe that handles the events of a pin is in memory, and has this pin.
Instances ==
    \A i \in Ioids : instances[i] # None =>
        Live(instances[i]) /\ (~hung => obj[instances[i]].ioid = i)

NoInstance(a) == \A i \in Ioids : instances[i] # a

\* An object that has not been initialised has no pin.
Initing ==
    /\ \A m \in Among(toTarget) : m.kind = "Init" =>
            /\ wait.kind = "Init" /\ wait.by = Pending /\ m.nr = wait.nr
            /\ connected => NoInstance(m.id)
    /\ \A m \in Among(toHost) : m.kind = "ObjectId" /\ connected => NoInstance(m.id)
    /\ wait.kind = "Construct" /\ ids[wait.probe] # None /\ connected => NoInstance(ids[wait.probe])

\* The pins keep to the probes that have them.
LEMMA InstancesStep ==
    ASSUME Types, Instances, Initing,
           TargetStep \/ (\E i \in Ioids : PinEvent(i)) \/ CheckConnection \/ Watchdog
    PROVE  Instances'
<1> USE DEF Types, TargetTypes
<1>0. /\ obj \in [Addresses -> {Dead} \cup Object] /\ instances \in [Ioids -> Addresses \cup {None}]
      /\ None \notin Addresses
  BY LinkAssumption
<1>1. CASE CheckConnection \/ Watchdog
  <2>1. instances' = [i \in Ioids |-> None]
    BY <1>1 DEF CheckConnection, Watchdog, Reset
  <2> QED BY <2>1 DEF Instances
<1>2. ASSUME NEW j \in Ioids, PinEvent(j) PROVE Instances'
  <2>1. /\ UNCHANGED <<instances, hung>>
        /\ \E v \in Levels : obj' = [obj EXCEPT ![instances[j]].value = v]
    BY <1>2 DEF PinEvent
  <2>2. \A a \in Addresses : Live(a) => obj'[a].ioid = obj[a].ioid
    <3> SUFFICES ASSUME NEW a \in Addresses, obj[a] \in Object PROVE obj'[a].ioid = obj[a].ioid
      BY <1>0 DEF Live
    <3> QED BY <1>0, <2>1 DEF Object
  <2>3. \A a \in Addresses : Live(a)' <=> Live(a)
    BY <1>2, SameObjects
  <2> QED BY <1>0, <2>1, <2>2, <2>3 DEF Instances
<1>3. CASE TargetStep
  <2>0. PICK m \in Request : /\ {toTarget[1] : i \in DOMAIN toTarget} = {m} /\ m \in Among(toTarget)
    BY <1>3, HandledFirst
  <2>1. CASE NotConnected \/ TargetPing
    BY <2>1 DEF NotConnected, TargetPing, target, Instances, Live
  <2>2. CASE TargetConnect
    <3>1. /\ ~hung
          /\ instances' = [i \in Ioids |-> IF \E a \in Addresses : Live(a) /\ obj[a].ioid = i
                                           THEN None ELSE instances[i]]
      BY <2>2 DEF TargetConnect, Take
    <3>2. \A i \in Ioids : instances'[i] = None
      BY <1>0, <3>1 DEF Instances
    <3> QED BY <3>2 DEF Instances
  <2>3. CASE TargetConstruct
    <3>1. PICK a \in Addresses : ~Live(a) /\ obj' = [obj EXCEPT ![a] = Fresh]
      BY <2>3 DEF TargetConstruct
    <3>2. UNCHANGED instances /\ ~hung
      BY <2>3 DEF TargetConstruct, Take
    <3>3. \A b \in Addresses \ {a} : obj'[b] = obj[b]
      BY <1>0, <3>1
    <3> QED BY <1>0, <3>1, <3>2, <3>3 DEF Instances, Live
  <2>4. CASE TargetDestruct
    <3>1. /\ m.kind = "Destruct" /\ ~hung /\ hung' = hung
          /\ \/ UNCHANGED <<obj, instances>>
             \/ /\ obj' = [obj EXCEPT ![m.id] = Dead]
                /\ instances' = [instances EXCEPT ![obj[m.id].ioid] = None]
      BY <2>0, <2>4 DEF TargetDestruct, Take
    <3>2. CASE UNCHANGED <<obj, instances>>
      BY <3>1, <3>2 DEF Instances, Live
    <3>3. CASE /\ obj' = [obj EXCEPT ![m.id] = Dead]
               /\ instances' = [instances EXCEPT ![obj[m.id].ioid] = None]
      <4>1. m.id \in Addresses
        BY <3>1 DEF Request
      <4>2. \A a \in Addresses \ {m.id} : obj'[a] = obj[a]
        BY <1>0, <3>3, <4>1
      <4>3. \A i \in Ioids : instances'[i] # None => instances'[i] = instances[i] /\ instances[i] # m.id
        BY <1>0, <3>1, <3>3 DEF Instances
      <4> QED BY <1>0, <3>1, <4>2, <4>3 DEF Instances, Live
    <3> QED BY <3>1, <3>2, <3>3
  <2>5. CASE TargetInit
    <3>1. m.kind = "Init" /\ connected /\ ~hung /\ m.id \in Addresses /\ m.arg \in Pin
      BY <2>0, <2>5 DEF TargetInit, Take, Request, Argument, UserMessages
    <3>2. NoInstance(m.id)
      BY <2>0, <3>1 DEF Initing
    <3>3. \A a \in Addresses : Live(a)' <=> Live(a)
      BY <2>5, SameObjects
    <3>4. Live(m.id)
      BY <2>0, <2>5 DEF TargetInit
    <3>5. CASE hung' /\ obj' = [obj EXCEPT ![m.id].ioid = m.arg.ioid] /\ UNCHANGED instances
      BY <1>0, <3>3, <3>5 DEF Instances
    <3>6. ASSUME NEW v, instances' = [instances EXCEPT ![m.arg.ioid] = m.id],
                 obj' = [obj EXCEPT ![m.id] = [ioid |-> m.arg.ioid, out |-> m.arg.out,
                                               open |-> TRUE, value |-> v]]
          PROVE  Instances'
      <4>1. m.arg.ioid \in Ioids
        BY <3>1 DEF Pin
      <4>2. obj'[m.id].ioid = m.arg.ioid /\ \A a \in Addresses \ {m.id} : obj'[a] = obj[a]
        BY <1>0, <3>1, <3>6
      <4>3. instances'[m.arg.ioid] = m.id /\ \A i \in Ioids \ {m.arg.ioid} : instances'[i] = instances[i]
        BY <1>0, <3>6, <4>1
      <4>4. ASSUME NEW i \in Ioids, instances'[i] # None
            PROVE  obj'[instances'[i]] # Dead /\ (~hung' => obj'[instances'[i]].ioid = i)
        <5>1. CASE i = m.arg.ioid
          BY <3>1, <3>3, <3>4, <4>2, <4>3, <5>1 DEF Live
        <5>2. CASE i # m.arg.ioid
          <6>1. instances'[i] = instances[i] /\ instances[i] \in Addresses \ {m.id}
            BY <1>0, <3>2, <4>3, <4>4, <5>2 DEF NoInstance
          <6> QED BY <3>1, <4>2, <4>4, <6>1 DEF Instances, Live
        <5> QED BY <5>1, <5>2
      <4> QED BY <4>4 DEF Instances, Live
    <3> QED BY <2>0, <2>5, <3>5, <3>6 DEF TargetInit, Hang
  <2>6. CASE TargetSetter
    <3>1. /\ UNCHANGED <<instances, hung>> /\ Live(m.id)
          /\ obj' = CASE m.kind = "ChangeValue" -> [obj EXCEPT ![m.id].value = m.arg]
                      [] m.kind = "ChangeType" -> [obj EXCEPT ![m.id].out = m.arg]
                      [] OTHER -> obj
          /\ m.kind \in {"ChangeValue", "ChangeType", "ChangePullMode"}
      BY <2>0, <2>6 DEF TargetSetter, Take
    <3>2. \A a \in Addresses : Live(a) => obj'[a].ioid = obj[a].ioid
      <4> SUFFICES ASSUME NEW a \in Addresses, obj[a] \in Object PROVE obj'[a].ioid = obj[a].ioid
        BY <1>0 DEF Live
      <4>1. CASE obj' = [obj EXCEPT ![m.id].value = m.arg]
        BY <1>0, <4>1 DEF Object
      <4>2. CASE obj' = [obj EXCEPT ![m.id].out = m.arg]
        BY <1>0, <4>2 DEF Object
      <4> QED BY <3>1, <4>1, <4>2
    <3>3. \A a \in Addresses : Live(a)' <=> Live(a)
      BY <2>6, SameObjects
    <3> QED BY <1>0, <3>1, <3>2, <3>3 DEF Instances
  <2>7. CASE TargetSetIoid
    <3> DEFINE old == obj[m.id].ioid
               off == [instances EXCEPT ![old] = None]
    <3>1. /\ ~hung /\ m.kind = "ChangeIoid" /\ Live(m.id)
          /\ obj' = [obj EXCEPT ![m.id].ioid = m.arg]
          /\ \/ hung' /\ instances' = off
             \/ instances' = [off EXCEPT ![m.arg] = m.id]
             \/ instances' = off
      BY <2>0, <2>7 DEF TargetSetIoid, Take, Hang
    <3>2. m.id \in Addresses /\ m.arg \in Ioids
      BY <3>1 DEF Request, Argument, UserMessages
    <3>3. \A a \in Addresses : Live(a)' <=> Live(a)
      BY <2>7, SameObjects
    <3>4. obj'[m.id].ioid = m.arg /\ \A a \in Addresses \ {m.id} : obj'[a] = obj[a]
      <4>1. obj[m.id] \in Object
        BY <1>0, <3>1, <3>2 DEF Live
      <4> QED BY <1>0, <3>1, <3>2, <4>1 DEF Object
    <3>5. \A i \in Ioids : off[i] # None => off[i] = instances[i] /\ instances[i] \in Addresses \ {m.id}
      BY <1>0, <3>1 DEF Instances
    <3>6. \A i \in Ioids : instances'[i] # None =>
                \/ i = m.arg /\ instances'[i] = m.id
                \/ instances'[i] = instances[i] /\ instances[i] \in Addresses \ {m.id}
      <4>1. off \in [Ioids -> Addresses \cup {None}]
        BY <1>0
      <4> HIDE DEF off
      <4> QED BY <3>1, <3>2, <3>5, <4>1
    <3> QED BY <3>1, <3>2, <3>3, <3>4, <3>6 DEF Instances, Live
  <2> QED BY <1>3, <2>1, <2>2, <2>3, <2>4, <2>5, <2>6, <2>7 DEF TargetStep
<1> QED BY <1>1, <1>2, <1>3


\* A pin gets a probe when one is initialised, or changes to this pin.
LEMMA InstancesLeft ==
    ASSUME Types, TargetStep \/ (\E i \in Ioids : PinEvent(i)) \/ CheckConnection \/ Watchdog
    PROVE  \/ \A i \in Ioids : instances'[i] \in {instances[i], None}
           \/ \E m \in Among(toTarget) : Handles(m) /\ m.kind \in {"Init", "ChangeIoid"}
<1>0. instances \in [Ioids -> Addresses \cup {None}]
  BY DEF Types, TargetTypes
<1>1. CASE TargetInit \/ TargetSetIoid
  <2>1. PICK m \in Request : /\ Handles(m) /\ {toTarget[1] : i \in DOMAIN toTarget} = {m} /\ m \in Among(toTarget)
    BY <1>1, HandledFirst DEF TargetStep
  <2>2. m.kind \in {"Init", "ChangeIoid"}
    BY <1>1, <2>1 DEF TargetInit, TargetSetIoid, Take
  <2> QED BY <2>1, <2>2
<1>2. CASE NotConnected \/ TargetConstruct \/ TargetPing \/ TargetSetter \/ \E i \in Ioids : PinEvent(i)
  <2>1. UNCHANGED instances
    BY <1>2 DEF NotConnected, TargetConstruct, TargetPing, TargetSetter, PinEvent, target
  <2> QED BY <2>1
<1>3. CASE TargetConnect
  BY <1>3 DEF TargetConnect
<1>4. CASE TargetDestruct
  <2>1. UNCHANGED instances \/ \E j : instances' = [instances EXCEPT ![j] = None]
    BY <1>4 DEF TargetDestruct
  <2> QED BY <1>0, <2>1
<1>5. CASE CheckConnection \/ Watchdog
  BY <1>5 DEF CheckConnection, Watchdog, Reset
<1> QED BY <1>1, <1>2, <1>3, <1>4, <1>5 DEF TargetStep

\* A probe that is registered has no pin until it is initialised.
LEMMA InitingStep ==
    ASSUME Core, OneOpen, Instances, Initing, Next
    PROVE  Initing'
<1> USE DEF Core, Base
<1>0. /\ ChannelStep /\ toTarget \in Seq(Request) /\ toHost \in Seq(Reply) /\ sent \in Nat
      /\ toTarget' \in Seq(Request) /\ toHost' \in Seq(Reply) /\ wait \in Call /\ wait.nr \in Nat
      /\ ids \in [Probes -> Addresses \cup {None}] /\ instances \in [Ioids -> Addresses \cup {None}]
      /\ None \notin Addresses
  <2>1. ChannelStep
    BY ChannelSteps
  <2>2. wait \in Call /\ wait.nr \in Nat /\ sent \in Nat
    BY DEF Types, HostTypes, ChannelTypes, Call
  <2> QED BY <2>1, <2>2, ChannelsKeepTypes, LinkAssumption DEF Types, HostTypes, TargetTypes, ChannelTypes
<1>1. ASSUME NEW m \in Among(toTarget), m.kind = "Init"
      PROVE  /\ phase = "init" /\ (\E p \in Probes : ids[p] # None) /\ wait.kind = "Init" /\ wait.by = Pending
             /\ m.nr = wait.nr /\ m.nr # 0 /\ m.id \in Addresses
             /\ \A y \in Among(toTarget) \cup Among(toHost) : y.nr # 0 => y.nr = wait.nr
             /\ \A y \in Among(toTarget) : y.kind \in {"Connect", "Construct", "ChangeIoid"} => FALSE
  <2>1. wait.kind = "Init" /\ wait.by = Pending /\ m.nr = wait.nr
    BY <1>1 DEF Initing
  <2>2. m \in Request
    BY <1>0 DEF Among
  <2>3. m.nr # 0 /\ m.id \in Addresses
    BY <1>1, <2>2 DEF Request, UserMessages
  <2>4. phase = "init" /\ wait.probe \in Probes /\ ids[wait.probe] # None
    BY <1>0, <2>1 DEF Control, Registered, Call
  <2>5. \A y \in Among(toTarget) \cup Among(toHost) : y.nr # 0 => y.nr = wait.nr
    BY <2>4 DEF OneOpen
  <2>6. ASSUME NEW y \in Among(toTarget), y.kind \in {"Connect", "Construct", "ChangeIoid"}
        PROVE  FALSE
    <3>1. y \in Request
      BY <1>0 DEF Among
    <3>2. y.nr # 0
      BY <2>6, <3>1 DEF Request
    <3>3. y.kind = wait.kind
      BY <2>5, <3>2 DEF Own
    <3> QED BY <2>1, <2>6, <3>3
  <2> QED BY <2>1, <2>3, <2>4, <2>5, <2>6
<1>2. CASE HostStep /\ UNCHANGED target
  <2>0. instances' = instances /\ connected' = connected
    BY <1>2 DEF target
  <2>1. ASSUME NEW x \in Among(toHost'), x.kind = "ObjectId", connected' PROVE NoInstance(x.id)'
    <3>1. x \in Among(toHost)
      BY <1>2, HostReads
    <3> QED BY <2>0, <2>1, <3>1 DEF Initing, NoInstance
  <2>2. CASE Keeps
    <3>1. ASSUME NEW m \in Among(toTarget'), m.kind = "Init"
          PROVE  /\ wait'.kind = "Init" /\ wait'.by = Pending /\ m.nr = wait'.nr
                 /\ connected' => NoInstance(m.id)'
      <4>1. m \in Among(toTarget)
        BY <2>2, <3>1 DEF Keeps
      <4>2. wait'.kind = "Init" /\ m.nr = wait'.nr /\ (connected' => NoInstance(m.id)')
        BY <2>0, <2>2, <3>1, <4>1 DEF Keeps, Initing, NoInstance
      <4>3. ASSUME wait'.by # Pending PROVE FALSE
        <5>1. wait.kind = "Init" /\ wait.by = Pending
          BY <3>1, <4>1, <1>1
        <5>2. ~RequestTimeout
          BY <5>1 DEF RequestTimeout, HasTimeout
        <5>3. ReceiveAnswer
          BY <2>2, <4>3, <5>1, <5>2 DEF Keeps
        <5>4. PICK h \in {toHost[1] : i \in DOMAIN toHost} : Next1(h) /\ Answered(h)
          BY <5>3 DEF ReceiveAnswer
        <5>5. h.nr # 0
          BY <4>3, <5>1, <5>4 DEF Answered, EndsWait
        <5>6. h = toHost[1] /\ 1 \in DOMAIN toHost
          BY <1>0, <5>4, FirstMessage
        <5>7. h.nr = m.nr /\ m.nr # 0
          BY <1>1, <3>1, <4>1, <5>5, <5>6 DEF Among
        <5>8. Before(h, m)
          BY <4>1, <5>6 DEF InOrder, Follows, Among
        <5> QED BY <1>0, <1>1, <3>1, <4>1, <5>5, <5>7, <5>8 DEF Before
      <4> QED BY <4>2, <4>3
    <3>2. ASSUME wait'.kind = "Construct", ids'[wait'.probe] # None, connected'
          PROVE  NoInstance(ids[wait.probe])'
      <4>1. wait.kind = "Construct" /\ wait'.probe = wait.probe
        BY <2>2, <3>2 DEF Keeps
      <4>2. CASE UNCHANGED ids
        BY <2>0, <3>2, <4>1, <4>2 DEF Initing, NoInstance
      <4>3. CASE Identified
        <5>1. PICK h \in Reply : /\ h.kind = "ObjectId" /\ toHost # <<>> /\ h = toHost[1]
                                 /\ ids' = [ids EXCEPT ![wait.probe] = h.id]
          BY <4>3 DEF Identified
        <5>2. h \in Among(toHost)
          BY <1>0, <5>1 DEF Among
        <5>3. ids'[wait'.probe] = h.id
          BY <1>0, <4>1, <4>3, <5>1 DEF Identified
        <5> QED BY <2>0, <3>2, <5>1, <5>2, <5>3 DEF Initing, NoInstance
      <4> QED BY <2>2, <4>2, <4>3 DEF Keeps
    <3> QED BY <2>1, <3>1, <3>2 DEF Initing
  <2>3. CASE Forgets
    <3>1. wait'.kind = "none" /\ toTarget' = toTarget
      BY <2>3, NoWaitTypes DEF Forgets
    <3>2. \A m \in Among(toTarget) : m.kind # "Init"
      <4>1. ASSUME NEW m \in Among(toTarget), m.kind = "Init" PROVE FALSE
        <5>1. wait.kind = "Init" /\ wait.by = Pending /\ toTarget # <<>>
          BY <1>1, <4>1 DEF Among
        <5> QED BY <2>3, <5>1 DEF Forgets
      <4> QED BY <4>1
    <3> QED BY <2>1, <3>1, <3>2 DEF Initing
  <2>4. ASSUME NEW kind, NEW p, NEW id, NEW arg, NEW slot, Asks(kind, p, id, arg, slot)
        PROVE  Initing'
    <3>0. /\ wait' = [kind |-> kind, probe |-> p, arg |-> arg, nr |-> sent + 1,
                      by |-> Pending, slot |-> slot]
          /\ ids' = ids
      BY <1>0, <2>4, AskedMessage DEF Asks
    <3>1. ASSUME NEW m \in Among(toTarget'), m.kind = "Init"
          PROVE  /\ wait'.kind = "Init" /\ wait'.by = Pending /\ m.nr = wait'.nr
                 /\ connected' => NoInstance(m.id)'
      <4>1. m \notin Among(toTarget)
        BY <1>1, <2>4, <3>1, NoWaitTypes DEF Asks
      <4>2. m = Message(kind, id, arg, sent + 1)
        BY <1>0, <2>4, <4>1, AskedMessage
      <4>3. m.kind = kind /\ m.nr = sent + 1 /\ m.id = id
        BY <4>2 DEF Message
      <4>4. wait.kind = "Construct" /\ p = wait.probe /\ id = ids[p] /\ ids[p] \in Addresses
        BY <2>4, <3>1, <4>3 DEF Asks
      <4>5. connected => NoInstance(m.id)
        BY <1>0, <4>3, <4>4 DEF Initing
      <4> QED BY <2>0, <3>0, <3>1, <4>3, <4>5 DEF NoInstance
    <3>2. ~(wait'.kind = "Construct" /\ ids'[wait'.probe] # None)
      BY <2>4, <3>0 DEF Asks
    <3> QED BY <2>1, <3>1, <3>2 DEF Initing
  <2> QED BY <2>2, <2>3, <2>4, CallSteps
<1>3. CASE /\ TargetStep \/ (\E i \in Ioids : PinEvent(i)) \/ CheckConnection \/ Watchdog
           /\ UNCHANGED <<state, objects, ids, current, unanswered, wait, phase, todo, pin,
                          outcome, sent, irregular>>
  <2>1. ASSUME connected', NEW a \in Addresses, connected => NoInstance(a),
               \A m \in Among(toTarget) : Handles(m) => m.kind \notin {"Connect", "Init", "ChangeIoid"}
        PROVE  NoInstance(a)'
    <3>1. connected
      BY <1>3, <2>1, Connects
    <3>2. \A i \in Ioids : instances'[i] \in {instances[i], None}
      BY <1>3, <2>1, InstancesLeft
    <3> QED BY <1>0, <2>1, <3>1, <3>2 DEF NoInstance
  <2>2. Among(toTarget') \subseteq Among(toTarget)
    <3>1. toTarget # <<>> => Among(Tail(toTarget)) \subseteq Among(toTarget)
      BY <1>0, OrderedTail DEF InOrder, Among
    <3>2. Among(<<>>) = {}
      BY DEF Among
    <3> QED BY <1>3, <3>1, <3>2, TargetTakes
  <2>3. ASSUME NEW m \in Among(toTarget'), m.kind = "Init"
        PROVE  /\ wait'.kind = "Init" /\ wait'.by = Pending /\ m.nr = wait'.nr
               /\ connected' => NoInstance(m.id)'
    <3>1. m \in Among(toTarget)
      BY <2>2
    <3>2. wait.kind = "Init" /\ wait.by = Pending /\ m.nr = wait.nr /\ (connected => NoInstance(m.id))
      BY <2>3, <3>1 DEF Initing
    <3>3. ASSUME NEW y \in Among(toTarget), Handles(y)
          PROVE  y.kind \notin {"Connect", "Init", "ChangeIoid"}
      <4>1. y \in Request
        BY <1>0 DEF Among
      <4>2. m.nr # y.nr \/ y.nr = 0
        BY <1>0, <2>3, <3>3, <4>1, ChannelElements
      <4>3. y.nr = 0
        BY <1>1, <2>3, <3>1, <4>2
      <4> QED BY <4>1, <4>3 DEF Request
    <3>4. m.id \in Addresses
      BY <1>1, <2>3, <3>1
    <3> QED BY <1>3, <2>1, <3>2, <3>3, <3>4
  <2>4. ASSUME NEW x \in Among(toHost'), x.kind = "ObjectId", connected' PROVE NoInstance(x.id)'
    <3>0. x \in Reply
      BY <1>0 DEF Among
    <3>1. x.id \in Addresses /\ x.nr # 0
      BY <2>4, <3>0 DEF Reply
    <3>2. CASE x \in Among(toHost)
      <4>1. connected => NoInstance(x.id)
        BY <2>4, <3>2 DEF Initing
      <4>2. \A m \in Among(toTarget) : m.kind = "Ping"
        BY <2>4, <3>2, AddressAlone
      <4> QED BY <2>1, <2>4, <3>1, <4>1, <4>2
    <3>3. CASE x \notin Among(toHost)
      <4>1. PICK m \in Among(toTarget) : Handles(m) /\ m.kind = "Construct"
        BY <1>0, <1>3, <2>4, <3>1, <3>3, NewAddress
      <4>2. ~Live(x.id)
        BY <1>0, <1>3, <2>4, <3>1, <3>3, NewAddress
      <4>3. NoInstance(x.id)
        BY <1>0, <3>1, <4>2 DEF Instances, NoInstance
      <4>4. \A y \in Among(toTarget) : Handles(y) => y = m
        BY <4>1 DEF Handles
      <4> QED BY <2>1, <2>4, <3>1, <4>1, <4>3, <4>4
    <3> QED BY <3>2, <3>3
  <2>5. ASSUME wait'.kind = "Construct", ids'[wait'.probe] # None, connected'
        PROVE  NoInstance(ids[wait.probe])'
    <3>1. wait.kind = "Construct" /\ ids[wait.probe] # None /\ ids[wait.probe] \in Addresses
          /\ wait.probe \in Probes
      BY <1>0, <1>3, <2>5 DEF Call
    <3>2. connected => NoInstance(ids[wait.probe])
      BY <3>1 DEF Initing
    <3>3. ASSUME NEW y \in Among(toTarget) PROVE y.kind \notin {"Connect", "Init", "ChangeIoid"}
      <4>1. y \in Request /\ phase = "init"
        BY <1>0, <3>1 DEF Among, Control
      <4>2. SUFFICES ASSUME y.nr # 0 PROVE FALSE
        BY <4>1 DEF Request
      <4>3. y.nr = wait.nr
        BY <3>1, <4>1, <4>2 DEF OneOpen
      <4>4. y.kind = "Construct"
        BY <3>1, <4>2, <4>3 DEF Own
      <4> QED BY <3>1, <4>4 DEF Constructing
    <3> DEFINE a == ids[wait.probe]
    <3>4. a \in Addresses /\ a = ids'[wait'.probe]
      BY <1>3, <3>1
    <3>5. connected => NoInstance(a)
      BY <3>2
    <3> HIDE DEF a
    <3>6. \A i \in Ioids : instances'[i] # a
      BY <2>1, <2>5, <3>3, <3>4, <3>5 DEF NoInstance
    <3> QED BY <3>4, <3>6 DEF NoInstance
  <2> QED BY <2>3, <2>4, <2>5 DEF Initing
<1> QED BY <1>2, <1>3, HostOrTarget


\* What a call asks for is what the probe has got, or will have.
PinCalls ==
    /\ wait.kind = "Init" => wait.arg.ioid = pin[wait.probe].ioid /\ wait.arg.out = pin[wait.probe].out
    /\ wait.kind = "ChangeValue" => pin[wait.probe].out
    /\ wait.kind = "ChangeType" => wait.arg = pin[wait.probe].out
    /\ wait.kind = "ChangeIoid" /\ "nested" \notin irregular => wait.by = Pending

\* The pins when the host has read a change.
Seen(h) == [pin EXCEPT ![objects[h.id]].value = h.arg]

\* What happens then: the object is unknown, or a handler may write a pin.
Reads(h) ==
    \/ outcome' = "unknownObject" /\ UNCHANGED <<pin, wait, toTarget, irregular>>
    \/ objects[h.id] # None /\ pin' = Seen(h) /\ UNCHANGED <<wait, toTarget, irregular>>
    \/ /\ objects[h.id] # None /\ pin' = Seen(h) /\ wait = NoWait /\ UNCHANGED irregular
       /\ \E q \in Probes, v \in Levels : Seen(h)[q].out /\ Ask("ChangeValue", q, ids[q], v, TRUE)
    \/ /\ irregular' = irregular \cup {"nested"} /\ UNCHANGED wait
       /\ \E q \in Probes, v \in Levels : pin' = [Seen(h) EXCEPT ![q].value = v]

\* The host reads a change.
LEMMA ChangeReceived ==
    ASSUME ReceiveChange
    PROVE  \E h \in {toHost[1] : i \in DOMAIN toHost} :
            Next1(h) /\ h.kind = "ChangeValue" /\ UNCHANGED <<phase, ids, objects>> /\ Reads(h)
<1>1. PICK h \in {toHost[1] : i \in DOMAIN toHost} :
            /\ Next1(h) /\ h.kind = "ChangeValue"
            /\ \/ /\ objects[h.id] = None /\ Exit("unknownObject")
                  /\ UNCHANGED <<pin, wait, toTarget, sent, irregular>>
               \/ /\ objects[h.id] # None
                  /\ pin' = [pin EXCEPT ![objects[h.id]].value = h.arg]
                  /\ UNCHANGED <<wait, toTarget, sent, irregular, outcome>>
               \/ /\ Writers /\ phase = "run" /\ objects[h.id] # None /\ pin[objects[h.id]].value # h.arg
                  /\ UNCHANGED outcome
                  /\ \E q \in Probes, v \in Levels :
                        LET seen == [pin EXCEPT ![objects[h.id]].value = h.arg] IN
                        /\ seen[q].out /\ seen[q].value # v
                        /\ \/ /\ wait = NoWait /\ Ask("ChangeValue", q, ids[q], v, TRUE)
                              /\ pin' = seen /\ UNCHANGED irregular
                           \/ /\ wait # NoWait /\ irregular' = irregular \cup {"nested"} /\ UNCHANGED wait
                              /\ toTarget' = Append(toTarget, Message("ChangeValue", ids[q], v, sent + 1))
                              /\ sent' = sent + 1 /\ pin' = [seen EXCEPT ![q].value = v]
  BY Zenon DEF ReceiveChange
<1> DEFINE seen == [pin EXCEPT ![objects[h.id]].value = h.arg]
<1>2. seen = Seen(h)
  BY DEF Seen
<1> HIDE DEF seen
<1>3. ASSUME objects[h.id] = None, Exit("unknownObject"), UNCHANGED <<pin, wait, toTarget, sent, irregular>>
      PROVE  Reads(h)
  BY <1>3 DEF Reads, Exit
<1>4. ASSUME objects[h.id] # None, pin' = seen, UNCHANGED <<wait, toTarget, sent, irregular, outcome>>
      PROVE  Reads(h)
  BY <1>2, <1>4 DEF Reads
<1>5. ASSUME objects[h.id] # None, NEW q \in Probes, NEW v \in Levels, seen[q].out,
             wait = NoWait, Ask("ChangeValue", q, ids[q], v, TRUE), pin' = seen, UNCHANGED irregular
      PROVE  Reads(h)
  BY <1>2, <1>5 DEF Reads
<1>6. ASSUME NEW q \in Probes, NEW v \in Levels, pin' = [seen EXCEPT ![q].value = v],
             irregular' = irregular \cup {"nested"}, UNCHANGED wait
      PROVE  Reads(h)
  BY <1>2, <1>6 DEF Reads
<1>7. Reads(h)
  BY <1>1, <1>3, <1>4, <1>5, <1>6 DEF seen
<1>8. UNCHANGED <<phase, ids, objects>>
  BY DEF ReceiveChange, registry
<1> QED BY <1>1, <1>7, <1>8

\* Reading a change, and writing a value, leave the rest of a probe alone.
LEMMA OtherFields ==
    ASSUME Types, NEW h, NEW q \in Probes, NEW v, NEW r \in Probes
    PROVE  /\ Seen(h)[r].ioid = pin[r].ioid /\ Seen(h)[r].out = pin[r].out
           /\ [Seen(h) EXCEPT ![q].value = v][r].ioid = pin[r].ioid
           /\ [Seen(h) EXCEPT ![q].value = v][r].out = pin[r].out
           /\ r # objects[h.id] => Seen(h)[r] = pin[r]
           /\ r = objects[h.id] => Seen(h)[r].value = h.arg
<1>0. pin[r] \in Pin /\ DOMAIN pin = Probes
  BY DEF Types, HostTypes
<1>1. Seen(h)[r] = IF r = objects[h.id] THEN [pin[r] EXCEPT !.value = h.arg] ELSE pin[r]
  BY <1>0 DEF Seen
<1>2. Seen(h)[r].ioid = pin[r].ioid /\ Seen(h)[r].out = pin[r].out
  BY <1>0, <1>1 DEF Pin
<1>3. \E w : Seen(h)[r] \in [ioid : Ioids, out : BOOLEAN, value : {w}]
  BY <1>0, <1>1 DEF Pin
<1>4. [Seen(h) EXCEPT ![q].value = v][r] = IF r = q THEN [Seen(h)[r] EXCEPT !.value = v] ELSE Seen(h)[r]
  BY <1>0 DEF Seen
<1>5. r = objects[h.id] => Seen(h)[r].value = h.arg
  BY <1>0, <1>1 DEF Pin
<1> QED BY <1>1, <1>2, <1>3, <1>4, <1>5

\* Nothing changes a probe while the host waits for an answer about it, but the target.
LEMMA PinCallsStep ==
    ASSUME Core, OneOpen, PinCalls, Next
    PROVE  PinCalls'
<1> USE DEF Core, Base
<1>0. /\ pin \in [Probes -> Pin] /\ wait \in Call /\ ids \in [Probes -> Addresses \cup {None}]
      /\ toHost \in Seq(Reply) /\ None \notin Probes
      /\ wait.kind # "none" => wait.probe \in Probes
  BY LinkAssumption DEF Types, HostTypes, ChannelTypes, Call
<1>1. CASE UNCHANGED <<wait, pin>> /\ irregular \subseteq irregular'
  BY <1>1 DEF PinCalls
<1>2. CASE wait'.kind \notin {"Init", "ChangeValue", "ChangeType", "ChangeIoid"}
  BY <1>2 DEF PinCalls
<1>3. CASE Killed \/ NextPhase \/ OnPingTimerTick
  <2>1. UNCHANGED <<wait, pin>> /\ irregular \subseteq irregular'
    BY <1>3 DEF Killed, NextPhase, OnPingTimerTick, TimerExpires, history
  <2> QED BY <1>1, <2>1
<1>4. CASE Restart \/ BeginTestCase \/ RequestReturns
  <2>1. wait' = NoWait
    BY <1>4 DEF Restart, BeginTestCase, RequestReturns, Idle
  <2> QED BY <1>2, <2>1, NoWaitTypes
<1>5. CASE RequestTimeout
  <2>1. wait'.kind = wait.kind /\ HasTimeout(wait.kind)
    BY <1>0, <1>5 DEF RequestTimeout, Call
  <2> QED BY <1>2, <2>1 DEF HasTimeout
<1>6. ASSUME NEW p \in Probes, ConnectToTarget(p) \/ Register(p) \/ Unregister(p) PROVE PinCalls'
  <2>1. \/ wait'.kind \in {"Connect", "Construct", "Destruct"}
        \/ UNCHANGED <<wait, pin>> /\ irregular \subseteq irregular'
    BY <1>6 DEF ConnectToTarget, Register, Unregister, AskConstruct, Ask
  <2> QED BY <1>1, <1>2, <2>1
<1>7. CASE ConnectReturns \/ DestructReturns
  <2>1. \/ wait'.kind \in {"Connect", "Construct", "none"}
        \/ UNCHANGED <<wait, pin>> /\ irregular \subseteq irregular'
    BY <1>7, NoWaitTypes DEF ConnectReturns, DestructReturns, AskConstruct, Ask
  <2> QED BY <1>1, <1>2, <2>1
<1>8. CASE ConstructReturns
  <2>1. CASE UNCHANGED <<wait, pin>> /\ irregular \subseteq irregular'
    BY <1>1, <2>1
  <2>2. CASE Ask("Init", wait.probe, ids[wait.probe], pin[wait.probe], FALSE)
    <3>1. wait'.kind = "Init" /\ wait'.probe = wait.probe /\ wait'.arg = pin[wait.probe] /\ pin' = pin
      BY <1>8, <2>2 DEF ConstructReturns, Ask
    <3> QED BY <3>1 DEF PinCalls
  <2> QED BY <1>8, <2>1, <2>2 DEF ConstructReturns
<1>9. ASSUME NEW p \in Probes, SetProperty(p) PROVE PinCalls'
  <2>1. ASSUME NEW v \in Levels, pin[p].out, Ask("ChangeValue", p, ids[p], v, FALSE), UNCHANGED pin
        PROVE  PinCalls'
    BY <2>1 DEF PinCalls, Ask
  <2>2. ASSUME NEW out \in BOOLEAN, pin' = [pin EXCEPT ![p].out = out],
               Ask("ChangeType", p, ids[p], out, FALSE)
        PROVE  PinCalls'
    <3>1. pin'[p].out = out
      <4>1. pin[p] \in Pin /\ pin'[p] = [pin[p] EXCEPT !.out = out]
        BY <1>0, <2>2
      <4> QED BY <4>1 DEF Pin
    <3>2. wait'.kind = "ChangeType" /\ wait'.probe = p /\ wait'.arg = out
      BY <2>2 DEF Ask
    <3> QED BY <3>1, <3>2 DEF PinCalls
  <2>3. ASSUME NEW i \in Ioids, Ask("ChangeIoid", p, ids[p], i, FALSE) PROVE PinCalls'
    BY <2>3 DEF PinCalls, Ask
  <2>4. CASE Ask("ChangePullMode", p, ids[p], None, FALSE)
    BY <2>4 DEF PinCalls, Ask
  <2> QED BY <1>9, <2>1, <2>2, <2>3, <2>4 DEF SetProperty
<1>10. CASE ReceiveAnswer
  <2>1. PICK h \in {toHost[1] : i \in DOMAIN toHost} : Answered(h)
    BY <1>10 DEF ReceiveAnswer
  <2>2. /\ wait'.kind = wait.kind /\ wait'.probe = wait.probe /\ wait'.arg = wait.arg
        /\ wait'.by = wait.by \/ (wait.by = Pending /\ h.nr # 0)
    BY <1>0, <2>1 DEF Answered, EndsWait, Call
  <2>3. pin' = pin /\ irregular' = irregular
    BY <1>10 DEF ReceiveAnswer, history
  <2>4. ASSUME wait.kind = "ChangeIoid", "nested" \notin irregular PROVE h.nr = 0
    <3>1. phase = "run" /\ wait.probe \in Probes
      BY <1>0, <2>4 DEF Control, Setters
    <3>2. ids[wait.probe] # None
      BY <3>1 DEF Registered
    <3>3. h \in Among(toHost)
      BY <1>0, <2>1, FirstMessage DEF Among
    <3>4. h.nr # 0 => h.nr = wait.nr
      BY <2>4, <3>1, <3>2, <3>3 DEF OneOpen
    <3> QED BY <2>4, <3>3, <3>4 DEF Own
  <2> QED BY <2>2, <2>3, <2>4 DEF PinCalls
<1>11. CASE ReceiveChange
  <2>1. PICK h \in {toHost[1] : i \in DOMAIN toHost} :
            \/ UNCHANGED <<pin, wait, irregular>>
            \/ pin' = Seen(h) /\ UNCHANGED <<wait, irregular>>
            \/ /\ pin' = Seen(h)
               /\ \E q \in Probes, v \in Levels : Seen(h)[q].out /\ Ask("ChangeValue", q, ids[q], v, TRUE)
            \/ /\ irregular' = irregular \cup {"nested"} /\ UNCHANGED wait
               /\ \E q \in Probes, v \in Levels : pin' = [Seen(h) EXCEPT ![q].value = v]
    BY <1>11, ChangeReceived DEF Reads
  <2>2. CASE /\ UNCHANGED wait /\ irregular \subseteq irregular'
             /\ \A q \in Probes : pin'[q].ioid = pin[q].ioid /\ pin'[q].out = pin[q].out
    BY <1>0, <2>2 DEF PinCalls
  <2>3. CASE pin' = Seen(h) /\ UNCHANGED <<wait, irregular>>
    BY <2>2, <2>3, OtherFields
  <2>4. ASSUME NEW q \in Probes, NEW v \in Levels, pin' = Seen(h), Seen(h)[q].out,
               Ask("ChangeValue", q, ids[q], v, TRUE)
        PROVE  PinCalls'
    BY <2>4 DEF PinCalls, Ask
  <2>5. ASSUME NEW q \in Probes, NEW v \in Levels, irregular' = irregular \cup {"nested"}, UNCHANGED wait,
               pin' = [Seen(h) EXCEPT ![q].value = v]
        PROVE  PinCalls'
    BY <2>2, <2>5, OtherFields
  <2> QED BY <1>1, <2>1, <2>3, <2>4, <2>5
<1>12. CASE TargetStep \/ (\E i \in Ioids : PinEvent(i)) \/ CheckConnection \/ Watchdog
  <2>1. UNCHANGED <<wait, pin, irregular>>
    BY <1>12, TargetLeavesHost DEF host
  <2> QED BY <1>1, <2>1
<1> QED BY <1>3, <1>4, <1>5, <1>6, <1>7, <1>8, <1>9, <1>10, <1>11, <1>12 DEF Next, WaitReturns, Receive


\* A message about the value of a probe.
Changes(m, a) == m.kind = "ChangeValue" /\ m.id = a

\* The value of a probe is w when the host, which has v, has read the messages s.
Arrives(a, s, v, w) ==
    /\ (\A k \in DOMAIN s : ~Changes(s[k], a)) => v = w
    /\ \A k \in DOMAIN s : Changes(s[k], a) /\ (\A l \in DOMAIN s : Changes(s[l], a) => l <= k) => s[k].arg = w

\* The host reads the answer n after all the changes of a probe.
AnswerBehind(a, s, n) ==
    \A k \in DOMAIN s : Changes(s[k], a) => \E l \in DOMAIN s : k < l /\ s[l].nr = n

\* Messages that are not about a probe make no difference to its value.
LEMMA OthersArrive ==
    ASSUME NEW S, NEW s \in Seq(S), NEW ms \in Seq(S), NEW a, \A i \in DOMAIN ms : ~Changes(ms[i], a)
    PROVE  /\ \A v, w : Arrives(a, s, v, w) => Arrives(a, s \o ms, v, w)
           /\ \A n : AnswerBehind(a, s, n) => AnswerBehind(a, s \o ms, n)
           /\ ms # <<>> => AnswerBehind(a, s \o ms, ms[1].nr)
<1>1. /\ DOMAIN s = 1..Len(s) /\ DOMAIN (s \o ms) = 1..Len(s) + Len(ms)
      /\ DOMAIN ms = 1..Len(ms) /\ Len(s) \in Nat /\ Len(ms) \in Nat
      /\ \A i \in DOMAIN s : (s \o ms)[i] = s[i]
      /\ \A i \in DOMAIN ms : (s \o ms)[Len(s) + i] = ms[i]
  BY MoreMessages
<1>2. DOMAIN s \subseteq DOMAIN (s \o ms)
  BY <1>1
<1>3. ASSUME NEW k \in DOMAIN (s \o ms), Changes((s \o ms)[k], a)
      PROVE  k \in DOMAIN s /\ (s \o ms)[k] = s[k]
  <2>1. CASE k > Len(s)
    <3>1. k - Len(s) \in DOMAIN ms /\ Len(s) + (k - Len(s)) = k
      BY <1>1, <2>1
    <3> QED BY <1>1, <1>3, <3>1
  <2> QED BY <1>1, <2>1
<1>4. ASSUME NEW v, NEW w, Arrives(a, s, v, w) PROVE Arrives(a, s \o ms, v, w)
  <2>1. ASSUME \A k \in DOMAIN (s \o ms) : ~Changes((s \o ms)[k], a) PROVE v = w
    BY <1>1, <1>2, <1>4, <2>1 DEF Arrives
  <2>2. ASSUME NEW k \in DOMAIN (s \o ms), Changes((s \o ms)[k], a),
               \A l \in DOMAIN (s \o ms) : Changes((s \o ms)[l], a) => l <= k
        PROVE  (s \o ms)[k].arg = w
    <3>1. \A l \in DOMAIN s : Changes(s[l], a) => l <= k
      BY <1>1, <1>2, <2>2
    <3> QED BY <1>3, <1>4, <2>2, <3>1 DEF Arrives
  <2> QED BY <2>1, <2>2 DEF Arrives
<1>5. ASSUME NEW n, AnswerBehind(a, s, n) PROVE AnswerBehind(a, s \o ms, n)
  <2>1. SUFFICES ASSUME NEW k \in DOMAIN (s \o ms), Changes((s \o ms)[k], a)
                 PROVE  \E l \in DOMAIN (s \o ms) : k < l /\ (s \o ms)[l].nr = n
    BY DEF AnswerBehind
  <2>2. PICK l \in DOMAIN s : k < l /\ s[l].nr = n
    BY <1>3, <1>5, <2>1 DEF AnswerBehind
  <2> QED BY <1>1, <1>2, <2>2
<1>6. ASSUME ms # <<>> PROVE AnswerBehind(a, s \o ms, ms[1].nr)
  <2>1. SUFFICES ASSUME NEW k \in DOMAIN (s \o ms), Changes((s \o ms)[k], a)
                 PROVE  \E l \in DOMAIN (s \o ms) : k < l /\ (s \o ms)[l].nr = ms[1].nr
    BY DEF AnswerBehind
  <2>2. 1 \in DOMAIN ms
    BY <1>1, <1>6
  <2>3. k <= Len(s) /\ k < Len(s) + 1 /\ Len(s) + 1 \in DOMAIN (s \o ms)
    BY <1>1, <1>3, <2>1, <2>2
  <2> QED BY <1>1, <2>2, <2>3
<1> QED BY <1>4, <1>5, <1>6

\* The host gets the value of the change that it reads last.
LEMMA LastArrives ==
    ASSUME NEW S, NEW s \in Seq(S), NEW ms \in Seq(S), NEW a, NEW v, ms # <<>>, Changes(ms[Len(ms)], a)
    PROVE  Arrives(a, s \o ms, v, ms[Len(ms)].arg)
<1>1. /\ DOMAIN s = 1..Len(s) /\ DOMAIN (s \o ms) = 1..Len(s) + Len(ms)
      /\ DOMAIN ms = 1..Len(ms) /\ Len(s) \in Nat /\ Len(ms) \in Nat
      /\ \A i \in DOMAIN ms : (s \o ms)[Len(s) + i] = ms[i]
  BY MoreMessages
<1>2. Len(ms) \in DOMAIN ms /\ Len(s) + Len(ms) \in DOMAIN (s \o ms)
  BY <1>1
<1>3. (s \o ms)[Len(s) + Len(ms)] = ms[Len(ms)]
  BY <1>1, <1>2
<1>4. ASSUME NEW k \in DOMAIN (s \o ms), \A l \in DOMAIN (s \o ms) : Changes((s \o ms)[l], a) => l <= k
      PROVE  k = Len(s) + Len(ms)
  <2>1. Changes((s \o ms)[Len(s) + Len(ms)], a)
    BY <1>3
  <2>2. Len(s) + Len(ms) <= k
    BY <1>2, <1>4, <2>1
  <2>3. k \in Nat /\ k <= Len(s) + Len(ms)
    BY <1>1
  <2> QED BY <1>1, <2>2, <2>3
<1> QED BY <1>2, <1>3, <1>4 DEF Arrives

\* What the first message is about.
LEMMA FirstArrives ==
    ASSUME NEW S, NEW s \in Seq(S), s # <<>>, NEW a, NEW v, NEW w
    PROVE  /\ Arrives(a, s, v, w) /\ ~Changes(s[1], a) => Arrives(a, Tail(s), v, w)
           /\ Arrives(a, s, v, w) /\ Changes(s[1], a) => Arrives(a, Tail(s), s[1].arg, w)
           /\ \A n : AnswerBehind(a, s, n) => AnswerBehind(a, Tail(s), n)
<1>1. Len(s) \in Nat /\ Len(s) > 0 /\ DOMAIN s = 1..Len(s) /\ 1 \in DOMAIN s
  OBVIOUS
<1>2. DOMAIN Tail(s) = 1..Len(s) - 1 /\ \A i \in 1..Len(s) - 1 : Tail(s)[i] = s[i + 1]
  BY <1>1
<1>3. /\ \A i \in DOMAIN Tail(s) : i + 1 \in DOMAIN s /\ Tail(s)[i] = s[i + 1]
      /\ \A i \in DOMAIN s : i = 1 \/ (i - 1 \in DOMAIN Tail(s) /\ s[i] = Tail(s)[i - 1])
  BY <1>1, <1>2
<1>4. ASSUME Arrives(a, s, v, w), NEW k \in DOMAIN Tail(s), Changes(Tail(s)[k], a),
             \A l \in DOMAIN Tail(s) : Changes(Tail(s)[l], a) => l <= k
      PROVE  Tail(s)[k].arg = w
  <2>1. k + 1 \in DOMAIN s /\ Tail(s)[k] = s[k + 1]
    BY <1>3
  <2>2. ASSUME NEW l \in DOMAIN s, Changes(s[l], a) PROVE l <= k + 1
    <3>1. CASE l = 1
      BY <1>2, <3>1
    <3>2. CASE l - 1 \in DOMAIN Tail(s) /\ s[l] = Tail(s)[l - 1]
      <4>1. l - 1 <= k
        BY <1>4, <2>2, <3>2
      <4> QED BY <1>1, <1>2, <4>1
    <3> QED BY <1>3, <3>1, <3>2
  <2> QED BY <1>4, <2>1, <2>2 DEF Arrives
<1>5. ASSUME Arrives(a, s, v, w), ~Changes(s[1], a), \A k \in DOMAIN Tail(s) : ~Changes(Tail(s)[k], a)
      PROVE  v = w
  <2>1. \A k \in DOMAIN s : ~Changes(s[k], a)
    BY <1>3, <1>5
  <2> QED BY <1>5, <2>1 DEF Arrives
<1>6. ASSUME Arrives(a, s, v, w), Changes(s[1], a), \A k \in DOMAIN Tail(s) : ~Changes(Tail(s)[k], a)
      PROVE  s[1].arg = w
  <2>1. \A k \in DOMAIN s : Changes(s[k], a) => k = 1
    BY <1>3, <1>6
  <2>2. \A k \in DOMAIN s : Changes(s[k], a) => k <= 1
    BY <2>1
  <2> QED BY <1>1, <1>6, <2>2 DEF Arrives
<1>7. ASSUME NEW n, AnswerBehind(a, s, n) PROVE AnswerBehind(a, Tail(s), n)
  <2>1. SUFFICES ASSUME NEW k \in DOMAIN Tail(s), Changes(Tail(s)[k], a)
                 PROVE  \E l \in DOMAIN Tail(s) : k < l /\ Tail(s)[l].nr = n
    BY DEF AnswerBehind
  <2>2. PICK l \in DOMAIN s : k + 1 < l /\ s[l].nr = n
    BY <1>3, <1>7, <2>1 DEF AnswerBehind
  <2>3. l - 1 \in DOMAIN Tail(s) /\ s[l] = Tail(s)[l - 1] /\ k < l - 1
    BY <1>1, <1>2, <1>3, <2>2
  <2> QED BY <2>2, <2>3
<1> QED BY <1>4, <1>5, <1>6, <1>7 DEF Arrives


Waits(kind, p) == wait.kind = kind /\ wait.probe = p
InToTarget(kind) == \E m \in Among(toTarget) : m.kind = kind

\* The value of a probe has been written, which the host does not know yet.
Written(p) == Waits("ChangeValue", p) /\ ~InToTarget("ChangeValue")

\* The object of a probe has its pin, and handles the events of the pin.
Placed(p) ==
    obj[ids[p]].open /\ obj[ids[p]].ioid = pin[p].ioid /\ instances[pin[p].ioid] = ids[p]

\* The direction is the same on both sides, unless a change is on the way.
Directed(p) ==
    ~(Waits("ChangeType", p) /\ InToTarget("ChangeType")) => obj[ids[p]].out = pin[p].out

\* So is the value, when the host has read what is on the way; or when it knows
\* that its own value has been written.
Valued(p) ==
    IF Written(p)
    THEN obj[ids[p]].value = wait.arg /\ obj[ids[p]].out /\ AnswerBehind(ids[p], toHost, wait.nr)
    ELSE Arrives(ids[p], toHost, pin[p].value, obj[ids[p]].value)

Agrees(p) == Placed(p) /\ Directed(p) /\ Valued(p)

\* Both sides are at work, and no handler has written during a wait.
Comparable ==
    /\ outcome = "running" /\ connected /\ ~hung /\ phase \in {"init", "run"}
    /\ "nested" \notin irregular /\ wait.kind # "ChangeIoid"

Initialised(p) ==
    ids[p] # None /\ ~Waits("Construct", p) /\ ~(Waits("Init", p) /\ InToTarget("Init"))

Agreement == Comparable => \A p \in Probes : Initialised(p) => Agrees(p)

Pins == OneOpen /\ Instances /\ Initing /\ PinCalls /\ Agreement

\* Both sides were at work before a step of the target, when they are after it.
LEMMA TargetComparable ==
    ASSUME Core, TargetStep \/ (\E i \in Ioids : PinEvent(i)) \/ CheckConnection \/ Watchdog,
           UNCHANGED <<ids, wait, phase, outcome, irregular>>,
           Comparable', NEW p \in Probes, ids[p] # None
    PROVE  Comparable /\ ~CheckConnection /\ ~Watchdog
<1>1. connected
  BY Connects DEF Core, Base, Constructing, Comparable
<1>2. ~CheckConnection /\ ~Watchdog
  BY DEF Comparable, CheckConnection, Watchdog, Reset
<1>3. CASE TargetStep
  <2>1. ~hung
    BY <1>3, TargetHandles DEF Core, Base, Handles
  <2> QED BY <1>1, <1>2, <2>1 DEF Comparable
<1>4. CASE \E i \in Ioids : PinEvent(i)
  BY <1>1, <1>2, <1>4 DEF Comparable, PinEvent
<1> QED BY <1>2, <1>3, <1>4

\* What the target handles then is a ping or the request of the call in progress,
\* which is not under way any more.
LEMMA HandledCall ==
    ASSUME Core, OneOpen, Comparable, NEW p \in Probes, ids[p] # None, ChannelStep,
           NEW m \in Request, Handles(m)
    PROVE  /\ \/ m.kind = "Ping"
              \/ /\ m.kind = wait.kind /\ m.nr = wait.nr /\ m.arg = wait.arg /\ m.kind # "Connect"
                 /\ m.kind # "Construct" => m.id = ids[wait.probe]
           /\ \A kind \in Setters \cup {"Init"} : InToTarget(kind)' <=> InToTarget(kind) /\ kind # m.kind
<1> USE DEF Core, Base
<1>0. toTarget \in Seq(Request) /\ Handles(m) /\ toTarget # <<>> /\ m = toTarget[1] /\ toTarget' = Tail(toTarget)
  BY DEF Types, ChannelTypes, Handles
<1>1. 1 \in DOMAIN toTarget
  BY <1>0
<1>2. /\ \A i \in DOMAIN Tail(toTarget) : i + 1 \in DOMAIN toTarget /\ Tail(toTarget)[i] = toTarget[i + 1]
      /\ \A i \in DOMAIN toTarget : i = 1 \/ (i - 1 \in DOMAIN Tail(toTarget) /\ toTarget[i] = Tail(toTarget)[i - 1])
  BY <1>0, <1>1, FirstMessage
<1>3. m \in Among(toTarget)
  BY <1>0, <1>1 DEF Among
<1>4. \A x \in Among(toTarget) : x.nr # 0 => x.nr = wait.nr
  BY DEF OneOpen, Comparable
<1>5. m.kind # "Ping" => /\ m.kind = wait.kind /\ m.nr = wait.nr /\ m.arg = wait.arg /\ m.kind # "Connect"
                         /\ m.kind # "Construct" => m.id = ids[wait.probe]
  <2>1. m.kind # "Ping" => m.nr # 0
    BY DEF Request
  <2>2. m.kind # "Connect"
    BY <1>3 DEF Constructing
  <2> QED BY <1>3, <1>4, <2>1, <2>2 DEF Own
<1>6. ASSUME NEW kind \in Setters \cup {"Init"}, InToTarget(kind), kind # m.kind PROVE InToTarget(kind)'
  <2>1. PICK i \in DOMAIN toTarget : toTarget[i].kind = kind
    BY <1>6 DEF InToTarget, Among
  <2>2. i - 1 \in DOMAIN toTarget' /\ toTarget'[i - 1].kind = kind
    BY <1>0, <1>2, <1>6, <2>1
  <2> QED BY <2>2 DEF InToTarget, Among
<1>7. ASSUME NEW kind \in Setters \cup {"Init"}, InToTarget(kind)' PROVE InToTarget(kind) /\ kind # m.kind
  <2>1. PICK x \in Among(toTarget') : x.kind = kind
    BY <1>7 DEF InToTarget
  <2>2. x \in Among(toTarget)
    BY <1>0, <1>2, <2>1 DEF Among
  <2>3. x \in Request
    BY <1>0, <2>2 DEF Among
  <2>4. x.nr # 0
    BY <2>1, <2>3 DEF Request, Setters
  <2>5. x.nr # m.nr \/ m.nr = 0
    BY <1>0, <2>1, ChannelElements
  <2>6. kind # m.kind
    BY <1>4, <2>1, <2>2, <2>4, <2>5, <1>5 DEF Setters
  <2> QED BY <2>1, <2>2, <2>6 DEF InToTarget
<1> QED BY <1>5, <1>6, <1>7


\* The answers of a step of the target reach the host, which has the port open.
LEMMA SentToHost ==
    ASSUME Core, Comparable, NEW p \in Probes, ids[p] # None, NEW ms, Send(ms)
    PROVE  toHost' = toHost \o ms
  BY DEF Core, Base, Registered, Comparable, Send, PortOpen

\* A step of the target that has nothing to do with a probe.
LEMMA QuietTarget ==
    ASSUME Types, NEW p \in Probes, Initialised(p), Agrees(p), UNCHANGED <<ids, wait, pin>>,
           NEW ms \in Seq(Reply), toHost' = toHost \o ms, \A i \in DOMAIN ms : ~Changes(ms[i], ids[p]),
           obj'[ids[p]] = obj[ids[p]], instances'[pin[p].ioid] = instances[pin[p].ioid],
           \A kind \in {"ChangeValue", "ChangeType"} :
                Waits(kind, p) => (InToTarget(kind)' <=> InToTarget(kind))
    PROVE  Agrees(p)'
<1> DEFINE a == ids[p]
<1>1. toHost \in Seq(Reply) /\ ids'[p] = a /\ pin'[p] = pin[p] /\ wait' = wait
  BY DEF Types, ChannelTypes
<1>2. /\ \A v, w : Arrives(a, toHost, v, w) => Arrives(a, toHost', v, w)
      /\ AnswerBehind(a, toHost, wait.nr) => AnswerBehind(a, toHost', wait.nr)
  BY <1>1, OthersArrive
<1>3. Placed(p)'
  BY <1>1 DEF Agrees, Placed
<1>4. Directed(p)'
  BY <1>1 DEF Agrees, Directed, Waits
<1>5. Written(p)' <=> Written(p)
  BY <1>1 DEF Written, Waits
<1>6. Valued(p)'
  BY <1>1, <1>2, <1>5 DEF Agrees, Valued
<1> QED BY <1>3, <1>4, <1>6 DEF Agrees

\* The object of a registered probe is in memory, and no other probe has it.
LEMMA ProbesApart ==
    ASSUME Core, Comparable, NEW p \in Probes, ids[p] # None
    PROVE  /\ ids[p] \in Addresses /\ Live(ids[p]) /\ obj[ids[p]] \in Object
           /\ pin[p] \in Pin /\ wait.kind # "Destruct"
           /\ \A q \in Probes \ {p} : ids[q] # ids[p]
<1> USE DEF Core, Base
<1>1. ids[p] \in Addresses /\ pin[p] \in Pin /\ obj \in [Addresses -> {Dead} \cup Object]
  BY DEF Types, HostTypes, TargetTypes
<1>2. wait.kind # "Destruct"
  BY DEF Control, Comparable
<1>3. Live(ids[p])
  BY <1>2 DEF Alive, Comparable
<1>4. \A q \in Probes \ {p} : ids[q] # ids[p]
  BY DEF Inverses
<1> QED BY <1>1, <1>2, <1>3, <1>4 DEF Live

\* A probe is initialised with the pin and the direction that the host has.
LEMMA InitAgrees ==
    ASSUME Core, OneOpen, PinCalls, Agreement, Comparable, Comparable', TargetInit, ChannelStep,
           NEW m \in Request, Handles(m), {toTarget[1] : i \in DOMAIN toTarget} = {m},
           NEW p \in Probes, Initialised(p)'
    PROVE  Agrees(p)'
<1>0. /\ ids' = ids /\ wait' = wait /\ pin' = pin /\ ids[p] # None
      /\ toHost \in Seq(Reply) /\ obj \in [Addresses -> {Dead} \cup Object]
      /\ instances \in [Ioids -> Addresses \cup {None}] /\ wait \in Call
  BY DEF Handles, host, registry, Initialised, Core, Base, Types, HostTypes, TargetTypes, ChannelTypes
<1>1. m.kind = "Init" /\ m.id \in Addresses /\ m.arg \in Pin /\ m.arg.ioid \in Ioids
  BY DEF TargetInit, Take, Request, Argument, UserMessages, Pin
<1>2. /\ wait.kind = "Init" /\ m.arg = wait.arg /\ m.id = ids[wait.probe] /\ wait.probe \in Probes
      /\ \A kind \in Setters : InToTarget(kind)' <=> InToTarget(kind)
  BY <1>0, <1>1, HandledCall DEF Setters, Call
<1>3. PICK v \in Values :
        /\ ~Occupied(m.arg.ioid, m.id)
        /\ obj' = [obj EXCEPT ![m.id] = [ioid |-> m.arg.ioid, out |-> m.arg.out,
                                         open |-> TRUE, value |-> v]]
        /\ instances' = [instances EXCEPT ![m.arg.ioid] = m.id]
        /\ Send(Append(InitAnswers(m), Change(m.id, v)))
  <2>1. ~hung'
    BY DEF Comparable
  <2> QED BY <1>1, <2>1 DEF TargetInit, Hang, Values, Pin
<1> DEFINE ms == Append(InitAnswers(m), Change(m.id, v))
<1>4. /\ ms = <<Ok(m), Change(m.id, v)>> /\ ms \in Seq(Reply) /\ Len(ms) = 2 /\ DOMAIN ms = {1, 2}
      /\ ms[1] = Ok(m) /\ ms[2] = Change(m.id, v)
  <2>1. AnswersTo(m, ms) /\ ms = <<Ok(m), Change(m.id, v)>>
    BY <1>1, AnswersOfInit
  <2>2. ms \in Seq(Reply)
    BY <2>1 DEF AnswersTo
  <2> HIDE DEF ms
  <2> QED BY <2>1, <2>2
<1>5. toHost' = toHost \o ms
  BY <1>0, <1>3, SentToHost
<1> HIDE DEF ms
<1>6. CASE p = wait.probe
  <2>1. pin[p].ioid = m.arg.ioid /\ pin[p].out = m.arg.out
    BY <1>2, <1>6 DEF PinCalls
  <2>2. /\ ids'[p] = m.id /\ pin'[p] = pin[p]
        /\ obj'[m.id] = [ioid |-> m.arg.ioid, out |-> m.arg.out, open |-> TRUE, value |-> v]
        /\ instances'[m.arg.ioid] = m.id
    BY <1>0, <1>1, <1>2, <1>3, <1>6
  <2>3. Placed(p)'
    BY <2>1, <2>2 DEF Placed
  <2>4. Directed(p)'
    BY <2>1, <2>2 DEF Directed
  <2>5. ~Written(p)'
    BY <1>0, <1>2 DEF Written, Waits
  <2>6. Changes(ms[Len(ms)], m.id) /\ ms[Len(ms)].arg = v /\ ms # <<>>
    BY <1>4 DEF Changes, Change, Message
  <2>7. Arrives(m.id, toHost', pin[p].value, v)
    <3>1. \A u : Arrives(m.id, toHost \o ms, u, ms[Len(ms)].arg)
      BY <1>0, <1>4, <2>6, LastArrives
    <3> QED BY <1>5, <2>6, <3>1
  <2>8. Valued(p)'
    BY <2>2, <2>5, <2>7 DEF Valued
  <2> QED BY <2>3, <2>4, <2>8 DEF Agrees
<1>7. CASE p # wait.probe
  <2>1. Initialised(p)
    BY <1>0, <1>2, <1>7 DEF Initialised, Waits
  <2>2. Agrees(p)
    BY <2>1 DEF Agreement
  <2>3. ids[p] # m.id /\ ids[p] \in Addresses /\ Live(ids[p])
    BY <1>0, <1>2, <1>7, ProbesApart
  <2>4. pin[p].ioid # m.arg.ioid
    BY <1>3, <2>2, <2>3 DEF Agrees, Placed, Occupied
  <2>5. obj'[ids[p]] = obj[ids[p]] /\ instances'[pin[p].ioid] = instances[pin[p].ioid]
    BY <1>0, <1>3, <2>3, <2>4
  <2>6. \A i \in DOMAIN ms : ~Changes(ms[i], ids[p])
    BY <1>4, <2>3 DEF Changes, Ok, Change, Message
  <2>7. \A kind \in {"ChangeValue", "ChangeType"} : ~Waits(kind, p)
    BY <1>2 DEF Waits
  <2> QED BY <1>0, <1>4, <1>5, <2>1, <2>2, <2>5, <2>6, <2>7, QuietTarget DEF Core, Base
<1> QED BY <1>6, <1>7


\* A setter writes what the host has, and its answer is behind all changes.
LEMMA SetterAgrees ==
    ASSUME Core, OneOpen, PinCalls, Agreement, Comparable, TargetSetter, ChannelStep,
           NEW m \in Request, Handles(m), {toTarget[1] : i \in DOMAIN toTarget} = {m},
           NEW p \in Probes, Initialised(p)'
    PROVE  Agrees(p)'
<1> DEFINE ms == IF instances[obj[m.id].ioid] # None THEN <<Ok(m)>> ELSE <<>>
<1>0. /\ ids' = ids /\ wait' = wait /\ pin' = pin /\ instances' = instances /\ ids[p] # None
      /\ toHost \in Seq(Reply) /\ obj \in [Addresses -> {Dead} \cup Object] /\ wait \in Call
      /\ m.kind \in {"ChangeValue", "ChangeType", "ChangePullMode"}
      /\ obj' = CASE m.kind = "ChangeValue" -> [obj EXCEPT ![m.id].value = m.arg]
                  [] m.kind = "ChangeType" -> [obj EXCEPT ![m.id].out = m.arg]
                  [] OTHER -> obj
      /\ Send(ms)
  BY DEF TargetSetter, Take, Handles, host, registry, Initialised, Core, Base, Types, HostTypes,
         TargetTypes, ChannelTypes
<1>1. /\ wait.kind = m.kind /\ m.arg = wait.arg /\ m.nr = wait.nr /\ m.id = ids[wait.probe]
      /\ wait.probe \in Probes
      /\ \A kind \in Setters : InToTarget(kind)' <=> InToTarget(kind) /\ kind # m.kind
  BY <1>0, HandledCall DEF Call
<1>2. Initialised(p)
  BY <1>0, <1>1 DEF Initialised, Waits
<1>3. Agrees(p)
  BY <1>2 DEF Agreement
<1>4. Ok(m) \in Reply /\ Ok(m).nr = m.nr /\ Ok(m).kind = "StatusOk"
  BY <1>0 DEF Ok, Message, Reply, Request, Args
<1>5. /\ ms \in Seq(Reply) /\ \A i \in DOMAIN ms : ~Changes(ms[i], ids[p])
      /\ instances[obj[m.id].ioid] # None => ms # <<>> /\ ms[1].nr = m.nr
  <2>1. CASE instances[obj[m.id].ioid] # None
    <3>1. ms = <<Ok(m)>>
      BY <2>1
    <3> HIDE DEF ms
    <3> QED BY <1>4, <3>1 DEF Changes
  <2>2. CASE ~(instances[obj[m.id].ioid] # None)
    BY <2>2
  <2> QED BY <2>1, <2>2
<1> HIDE DEF ms
<1>6. toHost' = toHost \o ms
  BY <1>0, SentToHost
<1>7. ids[p] \in Addresses /\ obj[ids[p]] \in Object
  BY <1>0, ProbesApart
<1>8. CASE p # wait.probe
  <2>1. m.id # ids[p]
    BY <1>0, <1>1, <1>8, ProbesApart
  <2>2. obj'[ids[p]] = obj[ids[p]]
    BY <1>0, <1>7, <2>1
  <2> QED BY <1>0, <1>2, <1>3, <1>5, <1>6, <1>8, <2>2, QuietTarget DEF Core, Base, Waits
<1>9. CASE p = wait.probe /\ m.kind = "ChangePullMode"
  BY <1>0, <1>1, <1>2, <1>3, <1>5, <1>6, <1>9, QuietTarget DEF Core, Base, Waits
<1>10. CASE p = wait.probe /\ m.kind = "ChangeType"
  <2>1. /\ obj'[ids[p]].out = m.arg /\ obj'[ids[p]].open = obj[ids[p]].open
        /\ obj'[ids[p]].ioid = obj[ids[p]].ioid /\ obj'[ids[p]].value = obj[ids[p]].value
    BY <1>0, <1>1, <1>7, <1>10 DEF Object
  <2>2. Placed(p)'
    BY <1>0, <1>3, <2>1 DEF Agrees, Placed
  <2>3. Directed(p)'
    BY <1>0, <1>1, <1>10, <2>1 DEF PinCalls, Directed
  <2>4. ~Written(p) /\ ~Written(p)'
    BY <1>0, <1>1, <1>10 DEF Written, Waits
  <2>5. Arrives(ids[p], toHost \o ms, pin[p].value, obj[ids[p]].value)
    BY <1>0, <1>3, <1>5, <2>4, OthersArrive DEF Agrees, Valued
  <2>6. Valued(p)'
    BY <1>0, <1>6, <2>1, <2>4, <2>5 DEF Valued
  <2> QED BY <2>2, <2>3, <2>6 DEF Agrees
<1>11. CASE p = wait.probe /\ m.kind = "ChangeValue"
  <2>1. /\ obj'[ids[p]].value = m.arg /\ obj'[ids[p]].open = obj[ids[p]].open
        /\ obj'[ids[p]].ioid = obj[ids[p]].ioid /\ obj'[ids[p]].out = obj[ids[p]].out
    BY <1>0, <1>1, <1>7, <1>11 DEF Object
  <2>2. Placed(p)'
    BY <1>0, <1>3, <2>1 DEF Agrees, Placed
  <2>3. obj[ids[p]].out = pin[p].out /\ pin[p].out
    BY <1>1, <1>3, <1>11 DEF PinCalls, Agrees, Directed, Waits
  <2>4. Directed(p)'
    BY <1>0, <2>1, <2>3 DEF Directed
  <2>5. Written(p)'
    BY <1>0, <1>1, <1>11 DEF Written, Waits, Setters
  <2>6. instances[obj[m.id].ioid] # None
    BY <1>1, <1>3, <1>11, <1>0 DEF Agrees, Placed
  <2>7. AnswerBehind(ids[p], toHost \o ms, m.nr)
    BY <1>0, <1>5, <2>6, OthersArrive
  <2>8. Valued(p)'
    BY <1>0, <1>1, <1>6, <2>1, <2>3, <2>5, <2>7 DEF Valued
  <2> QED BY <2>2, <2>4, <2>8 DEF Agrees
<1> QED BY <1>0, <1>8, <1>9, <1>10, <1>11

\* The host is told of the edges at an input.
LEMMA EventAgrees ==
    ASSUME Core, PinCalls, Agreement, Comparable, NEW i \in Ioids, PinEvent(i),
           NEW p \in Probes, Initialised(p)'
    PROVE  Agrees(p)'
<1> DEFINE a == instances[i]
<1>0. /\ UNCHANGED <<ids, wait, pin, instances, toTarget>> /\ ids[p] # None
      /\ toHost \in Seq(Reply) /\ obj \in [Addresses -> {Dead} \cup Object]
      /\ a \in Addresses /\ ~obj[a].out
  BY DEF PinEvent, host, registry, Initialised, Core, Base, Types, HostTypes, TargetTypes, ChannelTypes
<1>1. PICK v \in Levels : obj' = [obj EXCEPT ![a].value = v] /\ Send(<<Change(a, v)>>)
  BY DEF PinEvent
<1>2. Initialised(p)
  BY <1>0 DEF Initialised, Waits, InToTarget
<1>3. Agrees(p)
  BY <1>2 DEF Agreement
<1> DEFINE ms == <<Change(a, v)>>
<1>4. Change(a, v) \in Reply /\ Change(a, v).kind = "ChangeValue" /\ Change(a, v).id = a /\ Change(a, v).arg = v
  BY <1>0 DEF Change, Message, Reply, Args, Values
<1>5. ms \in Seq(Reply) /\ Len(ms) = 1 /\ DOMAIN ms = {1} /\ ms[1] = Change(a, v) /\ ms # <<>>
  BY <1>4
<1>6. toHost' = toHost \o ms
  BY <1>0, <1>1, SentToHost
<1> HIDE DEF ms
<1>7. ids[p] \in Addresses /\ obj[ids[p]] \in Object
  BY <1>0, ProbesApart
<1>8. \A kind : InToTarget(kind)' <=> InToTarget(kind)
  BY <1>0 DEF InToTarget
<1> HIDE DEF a
<1>9. CASE ids[p] # a
  <2>1. obj'[ids[p]] = obj[ids[p]]
    BY <1>0, <1>1, <1>7, <1>9
  <2>2. \A k \in DOMAIN ms : ~Changes(ms[k], ids[p])
    BY <1>4, <1>5, <1>9 DEF Changes
  <2> QED BY <1>0, <1>2, <1>3, <1>5, <1>6, <1>8, <2>1, <2>2, QuietTarget DEF Core, Base
<1>10. CASE ids[p] = a
  <2>1. /\ obj'[a].value = v /\ obj'[a].open = obj[a].open
        /\ obj'[a].ioid = obj[a].ioid /\ obj'[a].out = obj[a].out
    BY <1>0, <1>1, <1>7, <1>10 DEF Object
  <2>2. Placed(p)'
    BY <1>0, <1>3, <1>10, <2>1 DEF Agrees, Placed
  <2>3. Directed(p)'
    BY <1>0, <1>3, <1>8, <1>10, <2>1 DEF Agrees, Directed, Waits
  <2>4. ~Written(p)
    BY <1>0, <1>3, <1>10 DEF Agrees, Valued
  <2>5. ~Written(p)'
    BY <1>0, <1>8, <2>4 DEF Written, Waits
  <2>6. Arrives(a, toHost \o ms, pin[p].value, ms[Len(ms)].arg)
    BY <1>0, <1>4, <1>5, LastArrives DEF Changes
  <2>7. Valued(p)'
    BY <1>0, <1>4, <1>5, <1>6, <1>10, <2>1, <2>5, <2>6 DEF Valued
  <2> QED BY <2>2, <2>3, <2>7 DEF Agrees
<1> QED BY <1>9, <1>10

\* The steps of the target keep the agreement.
LEMMA TargetAgrees ==
    ASSUME Core, OneOpen, PinCalls, Agreement, ChannelStep,
           TargetStep \/ (\E i \in Ioids : PinEvent(i)) \/ CheckConnection \/ Watchdog
    PROVE  Agreement'
<1> SUFFICES ASSUME Comparable', NEW p \in Probes, Initialised(p)' PROVE Agrees(p)'
  BY DEF Agreement
<1>0. /\ UNCHANGED <<ids, wait, pin, phase, outcome, irregular>> /\ ids[p] # None
      /\ toHost \in Seq(Reply) /\ obj \in [Addresses -> {Dead} \cup Object]
  BY TargetLeavesHost DEF host, registry, Initialised, Core, Base, Types, TargetTypes, ChannelTypes
<1>1. Comparable /\ ~CheckConnection /\ ~Watchdog
  BY <1>0, TargetComparable
<1>2. CASE \E i \in Ioids : PinEvent(i)
  BY <1>1, <1>2, EventAgrees
<1>3. CASE TargetStep
  <2>1. PICK m \in Request : /\ Handles(m) /\ {toTarget[1] : i \in DOMAIN toTarget} = {m}
                             /\ m \in Among(toTarget)
    BY <1>3, HandledFirst DEF Core, Base
  <2>2. /\ \/ m.kind = "Ping"
           \/ m.kind = wait.kind /\ m.kind # "Connect"
        /\ \A kind \in Setters \cup {"Init"} : InToTarget(kind)' <=> InToTarget(kind) /\ kind # m.kind
    BY <1>0, <1>1, <2>1, HandledCall
  <2>3. ~NotConnected
    BY <1>1 DEF Comparable, NotConnected
  <2>4. ~TargetConnect
    BY <2>1, <2>2 DEF TargetConnect, Take
  <2>5. ~TargetDestruct
    <3>1. TargetDestruct => wait.kind = "Destruct"
      BY <2>1, <2>2 DEF TargetDestruct, Take
    <3> QED BY <1>0, <1>1, <3>1, ProbesApart
  <2>6. ~TargetSetIoid
    BY <1>1, <2>1, <2>2 DEF TargetSetIoid, Take, Comparable
  <2>7. CASE TargetPing \/ TargetConstruct
    <3>1. PICK r \in Reply : r.kind # "ChangeValue" /\ Send(<<r>>)
      <4>1. CASE TargetPing
        BY <4>1 DEF TargetPing, Message, Reply, Args
      <4>2. CASE TargetConstruct
        <5>1. PICK a \in Addresses : Send(<<Message("ObjectId", a, None, m.nr)>>)
          BY <2>1, <4>2 DEF TargetConstruct
        <5>2. m.kind = "Construct"
          BY <2>1, <4>2 DEF TargetConstruct, Take
        <5> QED BY <5>1, <5>2 DEF Message, Reply, Request, Args
      <4> QED BY <2>7, <4>1, <4>2
    <3>2. m.kind \in {"Ping", "Construct"}
      BY <2>1, <2>7 DEF TargetPing, TargetConstruct, Take
    <3>3. Initialised(p)
      BY <1>0, <2>2, <3>2 DEF Initialised, Waits
    <3>4. instances' = instances /\ obj'[ids[p]] = obj[ids[p]]
      <4>1. CASE TargetPing
        BY <4>1 DEF TargetPing, target
      <4>2. CASE TargetConstruct
        <5>1. PICK a \in Addresses : ~Live(a) /\ obj' = [obj EXCEPT ![a] = Fresh]
          BY <4>2 DEF TargetConstruct
        <5>2. ids[p] # a /\ ids[p] \in Addresses
          BY <1>0, <1>1, <5>1, ProbesApart
        <5> QED BY <1>0, <4>2, <5>1, <5>2 DEF TargetConstruct
      <4> QED BY <2>7, <4>1, <4>2
    <3>5. toHost' = toHost \o <<r>>
      BY <1>0, <1>1, <3>1, SentToHost
    <3>6. <<r>> \in Seq(Reply) /\ \A i \in DOMAIN <<r>> : ~Changes(<<r>>[i], ids[p])
      BY <3>1 DEF Changes
    <3>7. \A kind \in {"ChangeValue", "ChangeType"} : InToTarget(kind)' <=> InToTarget(kind)
      BY <2>2, <3>2 DEF Setters
    <3>8. Agrees(p)
      BY <1>1, <3>3 DEF Agreement
    <3> QED BY <1>0, <3>3, <3>4, <3>5, <3>6, <3>7, <3>8, QuietTarget DEF Core, Base
  <2>8. CASE TargetInit
    BY <1>1, <2>1, <2>8, InitAgrees
  <2>9. CASE TargetSetter
    BY <1>1, <2>1, <2>9, SetterAgrees
  <2> QED BY <1>3, <2>3, <2>4, <2>5, <2>6, <2>7, <2>8, <2>9 DEF TargetStep
<1> QED BY <1>1, <1>2, <1>3


\* A step of the host that reads nothing, and asks for nothing that a probe has.
LEMMA QuietHost ==
    ASSUME UNCHANGED <<obj, instances, toHost>>, NEW p \in Probes, Agrees(p), ids'[p] = ids[p],
           pin'[p].ioid = pin[p].ioid, pin'[p].value = pin[p].value,
           (Waits("ChangeType", p) /\ InToTarget("ChangeType"))' \/ obj[ids[p]].out = pin'[p].out,
           ~Written(p), ~Written(p)'
    PROVE  Agrees(p)'
<1>1. Placed(p)'
  BY DEF Agrees, Placed
<1>2. Directed(p)'
  BY DEF Agrees, Directed
<1>3. Valued(p)'
  BY DEF Agrees, Valued
<1> QED BY <1>1, <1>2, <1>3 DEF Agrees

\* When the host asks for something, the message is on its way.
LEMMA AskOnTheWay ==
    ASSUME toTarget \in Seq(Request), NEW kind, NEW p, NEW id, NEW arg, NEW slot, Ask(kind, p, id, arg, slot)
    PROVE  /\ InToTarget(kind)' /\ wait'.kind = kind /\ wait'.probe = p
           /\ \A q : ~Written(q)'
<1>1. /\ toTarget' = Append(toTarget, Message(kind, id, arg, sent + 1))
      /\ wait'.kind = kind /\ wait'.probe = p
  BY DEF Ask
<1>2. Len(toTarget) + 1 \in DOMAIN toTarget' /\ toTarget'[Len(toTarget) + 1].kind = kind
  BY <1>1 DEF Message
<1>3. InToTarget(kind)'
  BY <1>2 DEF InToTarget, Among
<1>4. \A q : ~Written(q)'
  BY <1>1, <1>3 DEF Written, Waits
<1> QED BY <1>1, <1>3, <1>4

\* A request, while no call is in progress.
LEMMA AskAgrees ==
    ASSUME Core, Agreement, UNCHANGED <<obj, instances, toHost, connected, hung, outcome, phase, irregular, ids>>,
           wait.kind \in {"none", "Construct"},
           NEW kind, NEW q \in Probes, NEW id, NEW arg, NEW slot, Ask(kind, q, id, arg, slot),
           \A r \in Probes : pin'[r].ioid = pin[r].ioid \/ kind = "ChangeIoid",
           \A r \in Probes : pin'[r].value = pin[r].value,
           \A r \in Probes : pin'[r].out = pin[r].out \/ (kind = "ChangeType" /\ r = q),
           wait.kind = "Construct" => wait.probe = q /\ kind = "Init"
    PROVE  Agreement'
<1> SUFFICES ASSUME Comparable', NEW p \in Probes, Initialised(p)' PROVE Agrees(p)'
  BY DEF Agreement
<1>1. /\ InToTarget(kind)' /\ wait'.kind = kind /\ wait'.probe = q
      /\ ~Written(p)' /\ ids'[p] = ids[p]
  BY AskOnTheWay DEF Core, Base, Types, ChannelTypes
<1>2. Comparable /\ kind # "ChangeIoid"
  BY <1>1 DEF Comparable
<1>3. Initialised(p)
  BY <1>1 DEF Initialised, Waits
<1>4. Agrees(p)
  BY <1>2, <1>3 DEF Agreement
<1>5. ~Written(p) /\ ~Waits("ChangeType", p)
  BY DEF Written, Waits
<1>6. obj[ids[p]].out = pin[p].out
  BY <1>4, <1>5 DEF Agrees, Directed
<1>7. (Waits("ChangeType", p) /\ InToTarget("ChangeType"))' \/ obj[ids[p]].out = pin'[p].out
  BY <1>1, <1>6 DEF Waits
<1> QED BY <1>1, <1>2, <1>4, <1>5, <1>7, QuietHost

\* The end of a call leaves nothing about it behind.
LEMMA ReturnAgrees ==
    ASSUME Core, OneOpen, Initing, PinCalls, Agreement, RequestReturns
    PROVE  Agreement'
<1> SUFFICES ASSUME Comparable', NEW p \in Probes, Initialised(p)' PROVE Agrees(p)'
  BY DEF Agreement
<1> USE DEF Core, Base
<1>0. /\ UNCHANGED <<obj, instances, toHost, toTarget, connected, hung, outcome, phase, irregular, ids>>
      /\ wait.kind \in {"Init", "ChangeValue", "ChangeType", "ChangeIoid", "ChangePullMode"}
      /\ wait.by # Pending /\ wait' = NoWait /\ wait \in Call /\ toTarget \in Seq(Request) /\ toHost \in Seq(Reply)
  BY DEF RequestReturns, Returned, registry, target, history, Types, HostTypes, ChannelTypes
<1>1. wait'.kind = "none" /\ wait'.probe = None /\ ids[p] # None /\ wait.probe \in Probes /\ wait.nr # 0
  BY <1>0, NoWaitTypes DEF Initialised, Call, Control
<1>2. pin' = IF wait.kind = "ChangeValue" THEN [pin EXCEPT ![wait.probe].value = wait.arg] ELSE pin
  BY DEF RequestReturns, StoresLater
<1>3. wait.kind # "ChangeIoid" /\ wait.by # Expired
  BY <1>0 DEF PinCalls, Comparable, Control, HasTimeout
<1>4. Comparable
  BY <1>0, <1>3 DEF Comparable
<1>5. \A m \in Among(toTarget) \cup Among(toHost) : m.nr = 0
  BY <1>0, <1>1, <1>3, <1>4 DEF OneOpen, Comparable
<1>6. \A kind \in Setters \cup {"Init"} : ~InToTarget(kind)
  <2>1. ASSUME NEW kind \in Setters \cup {"Init"}, InToTarget(kind) PROVE FALSE
    <3>1. PICK m \in Among(toTarget) : m.kind = kind
      BY <2>1 DEF InToTarget
    <3>2. m \in Request
      BY <1>0 DEF Among
    <3> QED BY <1>5, <3>1, <3>2 DEF Request, Setters
  <2> QED BY <2>1
<1>7. Initialised(p)
  BY <1>0, <1>1, <1>6 DEF Initialised, Waits
<1>8. Agrees(p)
  BY <1>4, <1>7 DEF Agreement
<1>9. obj[ids[p]].out = pin[p].out /\ ~Written(p)' /\ ids'[p] = ids[p]
  BY <1>0, <1>1, <1>6, <1>8 DEF Agrees, Directed, Written, Waits, Setters
<1>10. CASE wait.kind # "ChangeValue"
  <2>1. ~Written(p) /\ pin' = pin
    BY <1>2, <1>10 DEF Written, Waits
  <2> QED BY <1>0, <1>8, <1>9, <2>1, QuietHost
<1>11. CASE wait.kind = "ChangeValue" /\ p # wait.probe
  <2>1. ~Written(p) /\ pin'[p] = pin[p]
    BY <1>2, <1>11 DEF Written, Waits, Types, HostTypes
  <2> QED BY <1>0, <1>8, <1>9, <2>1, QuietHost
<1>12. CASE wait.kind = "ChangeValue" /\ p = wait.probe
  <2>1. Written(p)
    BY <1>6, <1>12 DEF Written, Waits, Setters
  <2>2. obj[ids[p]].value = wait.arg /\ AnswerBehind(ids[p], toHost, wait.nr)
    BY <1>8, <2>1 DEF Agrees, Valued
  <2>3. pin'[p].value = wait.arg /\ pin'[p].ioid = pin[p].ioid /\ pin'[p].out = pin[p].out
    <3>1. wait.arg \in Values
      BY <1>0, <1>12 DEF Call, Argument
    <3>2. pin' = [pin EXCEPT ![p].value = wait.arg] /\ Types
      BY <1>2, <1>12
    <3>3. \A v \in Values : LET new == [pin EXCEPT ![p].value = v] IN
            new[p].value = v /\ new[p].ioid = pin[p].ioid /\ new[p].out = pin[p].out
      BY <3>2, PinTypes
    <3> QED BY <3>1, <3>2, <3>3
  <2>4. \A k \in DOMAIN toHost : ~Changes(toHost[k], ids[p])
    BY <1>1, <1>5, <2>2 DEF AnswerBehind, Among
  <2>5. Arrives(ids[p], toHost, wait.arg, wait.arg)
    BY <2>4 DEF Arrives
  <2>6. Placed(p)'
    BY <1>0, <1>8, <1>9, <2>3 DEF Agrees, Placed
  <2>7. Directed(p)'
    BY <1>0, <1>9, <2>3 DEF Directed
  <2>8. Valued(p)'
    BY <1>0, <1>9, <2>2, <2>3, <2>5 DEF Valued
  <2> QED BY <2>6, <2>7, <2>8 DEF Agrees
<1> QED BY <1>10, <1>11, <1>12


\* An answer is not about a value.
LEMMA AnswerAgrees ==
    ASSUME Core, Agreement, ReceiveAnswer
    PROVE  Agreement'
<1> SUFFICES ASSUME Comparable', NEW p \in Probes, Initialised(p)' PROVE Agrees(p)'
  BY DEF Agreement
<1> USE DEF Core, Base
<1>0. /\ UNCHANGED <<obj, instances, toTarget, connected, hung, phase, irregular, pin>>
      /\ toHost \in Seq(Reply) /\ wait \in Call /\ ids \in [Probes -> Addresses \cup {None}]
  BY DEF ReceiveAnswer, target, history, Types, HostTypes, ChannelTypes
<1>1. PICK h \in {toHost[1] : i \in DOMAIN toHost} :
            Next1(h) /\ Answered(h) /\ h.kind \in {"StatusOk", "ObjectId", "Pong"}
  BY DEF ReceiveAnswer
<1>2. h \in Reply /\ toHost # <<>> /\ h = toHost[1] /\ toHost' = Tail(toHost)
  BY <1>0, <1>1, FirstMessage DEF Next1
<1>3. wait'.kind = wait.kind /\ wait'.probe = wait.probe /\ wait'.arg = wait.arg /\ wait'.nr = wait.nr
  BY <1>1, <1>2, AnsweredTypes
<1>4. outcome = "running"
  BY <1>1 DEF Next1, InEventLoop
<1>5. Comparable
  BY <1>0, <1>3, <1>4 DEF Comparable
<1>6. ids'[p] = ids[p]
  <2>1. ~Waits("Construct", p)
    BY <1>3 DEF Initialised, Waits
  <2>2. UNCHANGED ids \/ (current # None /\ \E i : ids' = [ids EXCEPT ![current] = i])
    BY DEF ReceiveAnswer, registry
  <2> QED BY <1>0, <2>1, <2>2 DEF Registered, Waits
<1>7. Initialised(p)
  BY <1>0, <1>3, <1>6 DEF Initialised, Waits, InToTarget
<1>8. Agrees(p)
  BY <1>5, <1>7 DEF Agreement
<1>9. /\ \A v, w : Arrives(ids[p], toHost, v, w) => Arrives(ids[p], toHost', v, w)
      /\ \A n : AnswerBehind(ids[p], toHost, n) => AnswerBehind(ids[p], toHost', n)
  BY <1>0, <1>1, <1>2, FirstArrives DEF Changes
<1>10. /\ Written(p)' <=> Written(p)
       /\ (Waits("ChangeType", p) /\ InToTarget("ChangeType"))' <=> (Waits("ChangeType", p) /\ InToTarget("ChangeType"))
  BY <1>0, <1>3 DEF Written, Waits, InToTarget
<1>11. Placed(p)'
  BY <1>0, <1>6, <1>8 DEF Agrees, Placed
<1>12. Directed(p)'
  BY <1>0, <1>6, <1>8, <1>10 DEF Agrees, Directed
<1>13. Valued(p)'
  BY <1>0, <1>3, <1>6, <1>8, <1>9, <1>10 DEF Agrees, Valued
<1> QED BY <1>11, <1>12, <1>13 DEF Agrees

\* The host takes over the value of a change.
LEMMA ChangeAgrees ==
    ASSUME Core, Agreement, ReceiveChange
    PROVE  Agreement'
<1> SUFFICES ASSUME Comparable', NEW p \in Probes, Initialised(p)' PROVE Agrees(p)'
  BY DEF Agreement
<1> USE DEF Core, Base
<1>0. /\ UNCHANGED <<obj, instances, connected, hung>> /\ outcome = "running"
      /\ toHost \in Seq(Reply) /\ toTarget \in Seq(Request)
      /\ pin \in [Probes -> Pin] /\ ids \in [Probes -> Addresses \cup {None}]
  BY DEF ReceiveChange, target, Next1, InEventLoop, Types, HostTypes, ChannelTypes
<1>1. PICK h \in {toHost[1] : i \in DOMAIN toHost} :
            Next1(h) /\ h.kind = "ChangeValue" /\ UNCHANGED <<phase, ids, objects>> /\ Reads(h)
  BY ChangeReceived
<1>2. h \in Reply /\ toHost # <<>> /\ h = toHost[1] /\ toHost' = Tail(toHost) /\ h.id \in Addresses
  <2>1. h \in Reply /\ toHost # <<>> /\ h = toHost[1] /\ toHost' = Tail(toHost)
    BY <1>0, <1>1, FirstMessage DEF Next1
  <2> QED BY <1>1, <2>1 DEF Reply
<1>3. /\ objects[h.id] # None /\ pin' = Seen(h) /\ UNCHANGED irregular
      /\ \/ UNCHANGED <<wait, toTarget>>
         \/ /\ wait = NoWait
            /\ \E q \in Probes, v \in Levels : Ask("ChangeValue", q, ids[q], v, TRUE)
  BY <1>1 DEF Reads, Comparable
<1>4. /\ ids[p] # None /\ ids'[p] = ids[p] /\ ids[p] \in Addresses
      /\ ids[p] = h.id <=> p = objects[h.id]
  <2>1. ids[p] # None /\ ids'[p] = ids[p] /\ ids[p] \in Addresses
    BY <1>0, <1>1 DEF Initialised
  <2>2. ids[p] = h.id => p = objects[h.id]
    BY <2>1 DEF Inverses
  <2>3. p = objects[h.id] => ids[p] = h.id
    BY <1>2, LinkAssumption DEF Inverses
  <2> QED BY <2>1, <2>2, <2>3
<1>5. pin'[p].ioid = pin[p].ioid /\ pin'[p].out = pin[p].out
  BY <1>3, OtherFields
<1>6. /\ \A w : Arrives(ids[p], toHost, pin[p].value, w) => Arrives(ids[p], toHost', pin'[p].value, w)
      /\ \A n : AnswerBehind(ids[p], toHost, n) => AnswerBehind(ids[p], toHost', n)
  <2>1. \A n : AnswerBehind(ids[p], toHost, n) => AnswerBehind(ids[p], toHost', n)
    BY <1>0, <1>2, FirstArrives
  <2>2. CASE p = objects[h.id]
    <3>1. Changes(toHost[1], ids[p]) /\ pin'[p].value = toHost[1].arg
      BY <1>1, <1>2, <1>3, <1>4, <2>2, OtherFields DEF Changes
    <3>2. \A v, w : Arrives(ids[p], toHost, v, w) => Arrives(ids[p], toHost', toHost[1].arg, w)
      BY <1>0, <1>2, <3>1, FirstArrives
    <3> QED BY <2>1, <3>1, <3>2
  <2>3. CASE p # objects[h.id]
    <3>1. ~Changes(toHost[1], ids[p]) /\ pin'[p] = pin[p]
      BY <1>2, <1>3, <1>4, <2>3, OtherFields DEF Changes
    <3>2. \A v, w : Arrives(ids[p], toHost, v, w) => Arrives(ids[p], toHost', v, w)
      BY <1>0, <1>2, <3>1, FirstArrives
    <3> QED BY <2>1, <3>1, <3>2
  <2> QED BY <2>2, <2>3
<1>7. CASE UNCHANGED <<wait, toTarget>>
  <2>1. Comparable /\ Initialised(p)
    BY <1>0, <1>1, <1>3, <1>4, <1>7 DEF Comparable, Initialised, Waits, InToTarget
  <2>2. Agrees(p)
    BY <2>1 DEF Agreement
  <2>3. Written(p)' <=> Written(p)
    BY <1>7 DEF Written, Waits, InToTarget
  <2>4. Placed(p)'
    BY <1>0, <1>4, <1>5, <2>2 DEF Agrees, Placed
  <2>5. Directed(p)'
    BY <1>0, <1>4, <1>5, <1>7, <2>2 DEF Agrees, Directed, Waits, InToTarget
  <2>6. Valued(p)'
    BY <1>0, <1>4, <1>6, <1>7, <2>2, <2>3 DEF Agrees, Valued
  <2> QED BY <2>4, <2>5, <2>6 DEF Agrees
<1>8. ASSUME wait = NoWait, NEW q \in Probes, NEW v \in Levels, Ask("ChangeValue", q, ids[q], v, TRUE)
      PROVE  Agrees(p)'
  <2>1. wait.kind = "none" /\ wait.probe = None
    BY <1>8, NoWaitTypes
  <2>2. Comparable /\ Initialised(p)
    BY <1>0, <1>1, <1>3, <1>4, <2>1 DEF Comparable, Initialised, Waits
  <2>3. Agrees(p)
    BY <2>2 DEF Agreement
  <2>4. ~Written(p) /\ ~Written(p)'
    BY <1>0, <1>8, <2>1, AskOnTheWay DEF Written, Waits
  <2>5. Placed(p)'
    BY <1>0, <1>4, <1>5, <2>3 DEF Agrees, Placed
  <2>6. Directed(p)'
    BY <1>0, <1>4, <1>5, <2>1, <2>3 DEF Agrees, Directed, Waits
  <2>7. Valued(p)'
    BY <1>0, <1>4, <1>6, <2>3, <2>4 DEF Agrees, Valued
  <2> QED BY <2>5, <2>6, <2>7 DEF Agrees
<1> QED BY <1>3, <1>7, <1>8

\* The steps of the host keep the agreement.
LEMMA HostAgrees ==
    ASSUME Core, OneOpen, Initing, PinCalls, Agreement, HostStep, UNCHANGED target
    PROVE  Agreement'
<1> USE DEF Core, Base
<1>0. /\ UNCHANGED <<obj, instances, connected, hung>> /\ wait \in Call
      /\ ids \in [Probes -> Addresses \cup {None}] /\ pin \in [Probes -> Pin]
  BY DEF target, Types, HostTypes
<1>1. (\A p \in Probes : ids'[p] = None) => Agreement'
  BY DEF Agreement, Initialised
<1>2. CASE Killed
  BY <1>2 DEF Killed, Exit, Agreement, Comparable
<1>3. CASE Restart
  BY <1>1, <1>3 DEF Restart
<1>4. CASE BeginTestCase
  BY <1>1, <1>4 DEF BeginTestCase, registry, Registered
<1>5. CASE NextPhase
  <2>1. UNCHANGED <<wait, pin, ids, toTarget, toHost, outcome, irregular>>
        /\ (phase' \in {"init", "run"} => phase \in {"init", "run"})
    BY <1>5 DEF NextPhase, registry, history
  <2> SUFFICES ASSUME Comparable', NEW p \in Probes, Initialised(p)' PROVE Agrees(p)'
    BY DEF Agreement
  <2>2. Comparable /\ Initialised(p)
    BY <1>0, <2>1 DEF Comparable, Initialised, Waits, InToTarget
  <2>3. Agrees(p)
    BY <2>2 DEF Agreement
  <2> QED BY <1>0, <2>1, <2>3 DEF Agrees, Placed, Directed, Valued, Written, Waits, InToTarget
<1>6. ASSUME NEW q \in Probes, ConnectToTarget(q) PROVE Agreement'
  BY <1>1, <1>6 DEF ConnectToTarget, registry, Registered
<1>7. ASSUME NEW q \in Probes, Register(q) PROVE Agreement'
  <2>1. /\ UNCHANGED <<toHost, outcome, phase, irregular, ids, pin>> /\ Ask("Construct", q, 0, None, FALSE)
        /\ wait.kind = "none"
    BY <1>7, NoWaitTypes DEF Register, AskConstruct, Idle
  <2> QED BY <1>0, <2>1, AskAgrees
<1>8. ASSUME NEW q \in Probes, SetProperty(q) PROVE Agreement'
  <2>1. UNCHANGED <<toHost, outcome, phase, irregular, ids>> /\ wait.kind = "none"
    BY <1>8, NoWaitTypes DEF SetProperty, registry, Idle
  <2>2. ASSUME NEW v \in Levels, Ask("ChangeValue", q, ids[q], v, FALSE), UNCHANGED pin PROVE Agreement'
    BY <1>0, <2>1, <2>2, AskAgrees
  <2>3. ASSUME NEW out \in BOOLEAN, pin' = [pin EXCEPT ![q].out = out],
               Ask("ChangeType", q, ids[q], out, FALSE)
        PROVE  Agreement'
    <3>1. \A r \in Probes : /\ pin'[r].ioid = pin[r].ioid /\ pin'[r].value = pin[r].value
                            /\ pin'[r].out = pin[r].out \/ r = q
      BY <1>0, <2>3 DEF Pin
    <3> QED BY <1>0, <2>1, <2>3, <3>1, AskAgrees
  <2>4. ASSUME NEW i \in Ioids, pin' = [pin EXCEPT ![q].ioid = i],
               Ask("ChangeIoid", q, ids[q], i, FALSE)
        PROVE  Agreement'
    <3>1. \A r \in Probes : pin'[r].value = pin[r].value /\ pin'[r].out = pin[r].out
      BY <1>0, <2>4 DEF Pin
    <3> QED BY <1>0, <2>1, <2>4, <3>1, AskAgrees
  <2>5. ASSUME Ask("ChangePullMode", q, ids[q], None, FALSE), UNCHANGED pin PROVE Agreement'
    BY <1>0, <2>1, <2>5, AskAgrees
  <2> QED BY <1>8, <2>2, <2>3, <2>4, <2>5 DEF SetProperty
<1>9. ASSUME NEW q \in Probes, Unregister(q) PROVE Agreement'
  BY <1>9 DEF Unregister, Agreement, Comparable
<1>10. CASE ConnectReturns
  BY <1>1, <1>10 DEF ConnectReturns, Returned, Registered, Control
<1>11. CASE ConstructReturns
  <2>1. /\ UNCHANGED <<toHost, phase, irregular, ids, pin>> /\ wait.kind = "Construct" /\ outcome = "running"
        /\ wait.probe \in Probes
    BY <1>0, <1>11 DEF ConstructReturns, Returned, registry, Call
  <2>2. CASE Ask("Init", wait.probe, ids[wait.probe], pin[wait.probe], FALSE) /\ UNCHANGED outcome
    BY <1>0, <2>1, <2>2, AskAgrees
  <2>3. CASE outcome' # "running"
    BY <2>3 DEF Agreement, Comparable
  <2> QED BY <1>11, <2>2, <2>3 DEF ConstructReturns, Exit
<1>12. CASE RequestReturns
  BY <1>12, ReturnAgrees
<1>13. CASE DestructReturns
  BY <1>13 DEF DestructReturns, Returned, Control, Agreement, Comparable
<1>14. CASE Receive
  BY <1>14, AnswerAgrees, ChangeAgrees DEF Receive
<1>15. CASE OnPingTimerTick \/ RequestTimeout
  <2>1. /\ UNCHANGED <<pin, ids, toHost, phase>> /\ outcome = "running" /\ irregular \subseteq irregular'
        /\ wait'.kind = wait.kind /\ wait'.probe = wait.probe /\ wait'.arg = wait.arg /\ wait'.nr = wait.nr
    <3>1. CASE OnPingTimerTick
      BY <3>1 DEF OnPingTimerTick, InEventLoop, registry, TimerExpires
    <3>2. CASE RequestTimeout
      BY <3>2, EndsWaitTypes DEF RequestTimeout, InEventLoop, registry, TimerExpires, Expired
    <3> QED BY <1>15, <3>1, <3>2
  <2>2. \A kind \in Setters \cup {"Init"} : InToTarget(kind)' <=> InToTarget(kind)
    <3>1. CASE UNCHANGED toTarget
      BY <3>1 DEF InToTarget
    <3>2. CASE toTarget' = Append(toTarget, Message("Ping", 0, None, 0))
      <4>1. Message("Ping", 0, None, 0) \in Request /\ Message("Ping", 0, None, 0).kind = "Ping"
        BY DEF Message, Request, Args, Argument, Kinds, UserMessages
      <4> DEFINE m == Message("Ping", 0, None, 0)
      <4>2. m \in Request /\ m.kind = "Ping" /\ toTarget' = Append(toTarget, m)
        BY <3>2, <4>1
      <4> HIDE DEF m
      <4>3. /\ DOMAIN toTarget' = DOMAIN toTarget \cup {Len(toTarget) + 1}
            /\ toTarget'[Len(toTarget) + 1] = m /\ \A i \in DOMAIN toTarget : toTarget'[i] = toTarget[i]
        BY <4>2, LastMessage DEF Types, ChannelTypes
      <4> QED BY <4>2, <4>3 DEF InToTarget, Among, Setters
    <3> QED BY <1>15, <3>1, <3>2 DEF OnPingTimerTick, RequestTimeout
  <2> SUFFICES ASSUME Comparable', NEW p \in Probes, Initialised(p)' PROVE Agrees(p)'
    BY DEF Agreement
  <2>3. Comparable /\ Initialised(p)
    BY <1>0, <2>1, <2>2 DEF Comparable, Initialised, Waits
  <2>4. Agrees(p) /\ ids'[p] = ids[p] /\ pin'[p] = pin[p]
    BY <2>1, <2>3 DEF Agreement
  <2>5. Written(p)' <=> Written(p)
    BY <2>1, <2>2 DEF Written, Waits, Setters
  <2>6. Placed(p)'
    BY <1>0, <2>4 DEF Agrees, Placed
  <2>7. Directed(p)'
    BY <1>0, <2>1, <2>2, <2>4 DEF Agrees, Directed, Waits, Setters
  <2>8. Valued(p)'
    BY <1>0, <2>1, <2>4, <2>5 DEF Agrees, Valued
  <2> QED BY <2>6, <2>7, <2>8 DEF Agrees
<1> QED BY <1>2, <1>3, <1>4, <1>5, <1>6, <1>7, <1>8, <1>9, <1>10, <1>11, <1>12, <1>13, <1>14, <1>15
        DEF HostStep, WaitReturns


\* The pins are as they should be when qst and the firmware start.
LEMMA PinsInit == Init => Pins
<1> SUFFICES ASSUME Init PROVE Pins
  OBVIOUS
<1>1. /\ toTarget = <<>> /\ toHost = <<>> /\ wait.kind = "none" /\ ~connected
      /\ instances = [i \in Ioids |-> None] /\ Among(toTarget) = {} /\ Among(toHost) = {}
  BY NoWaitTypes DEF Init, Among
<1>2. OneOpen /\ Instances /\ Initing /\ PinCalls /\ Agreement
  BY <1>1 DEF OneOpen, Instances, Initing, PinCalls, Agreement, Comparable
<1> QED BY <1>2 DEF Pins

\* No step breaks it.
LEMMA PinsStep ==
    ASSUME Core, Pins, [Next]_vars
    PROVE  Pins'
<1>1. CASE Next
  <2>1. OneOpen' /\ Initing' /\ PinCalls'
    BY <1>1, OneOpenStep, InitingStep, PinCallsStep DEF Pins
  <2>2. CASE HostStep /\ UNCHANGED target
    <3>1. Instances'
      BY <2>2 DEF Pins, Instances, target, Live
    <3> QED BY <2>1, <2>2, <3>1, HostAgrees DEF Pins
  <2>3. CASE TargetStep \/ (\E i \in Ioids : PinEvent(i)) \/ CheckConnection \/ Watchdog
    <3>1. Instances'
      BY <2>3, InstancesStep DEF Pins, Core, Base
    <3>2. Agreement'
      BY <1>1, <2>3, ChannelSteps, TargetAgrees DEF Pins, Core
    <3> QED BY <2>1, <3>1, <3>2 DEF Pins
  <2> QED BY <1>1, <2>2, <2>3, HostOrTarget
<1>2. CASE UNCHANGED vars
  <2>1. UNCHANGED <<host, registry, target, toTarget, toHost, history>>
    BY <1>2 DEF vars, host
  <2>2. OneOpen' /\ Instances' /\ Initing' /\ PinCalls'
    BY <2>1 DEF Pins, OneOpen, Instances, Initing, PinCalls, NoInstance, Among, Live, host, registry,
                target, history
  <2>3. /\ (Comparable' <=> Comparable) /\ \A p : (Initialised(p)' <=> Initialised(p))
    BY <2>1 DEF Comparable, Initialised, Waits, InToTarget, host, registry, target, history
  <2>4. \A p : Agrees(p) => Agrees(p)'
    BY <2>1 DEF Agrees, Placed, Directed, Valued, Written, Waits, InToTarget, host, registry, target
  <2>5. Agreement'
    BY <2>3, <2>4 DEF Pins, Agreement
  <2> QED BY <2>2, <2>5 DEF Pins
<1> QED BY <1>1, <1>2

\* The pins are in such a state on both sides, whatever is on the way between them.
THEOREM PinsHold == Spec => []Pins
<1>1. Core /\ Pins /\ [Next]_vars => Pins'
  BY PinsStep
<1> QED BY <1>1, PinsInit, CoreHolds, PTL DEF Spec

\* When the test function is idle and everything that was sent has been read, pin,
\* direction and value of every probe are the same on both sides; and every
\* registered probe has an object of its own.
THEOREM PinsDoAgree == Spec => []PinsAgree
<1>1. ASSUME Core, Pins PROVE PinsAgree
  <2>1. \A p \in Probes : ids[p] # None => objects[ids[p]] = p
    BY <1>1 DEF Core, Inverses
  <2>2. ASSUME outcome = "running", Settled, "nested" \notin irregular, NEW p \in Probes
        PROVE  /\ obj[ids[p]] # Dead /\ instances[pin[p].ioid] = ids[p]
               /\ obj[ids[p]].ioid = pin[p].ioid /\ obj[ids[p]].out = pin[p].out
               /\ obj[ids[p]].value = pin[p].value
    <3>1. wait.kind = "none" /\ phase = "run" /\ connected /\ ~hung /\ DOMAIN toHost = {}
      BY <2>2, NoWaitTypes DEF Settled
    <3>2. Comparable
      BY <2>2, <3>1 DEF Comparable
    <3>3. ids[p] # None
      BY <1>1, <3>1 DEF Core, Base, Registered
    <3>4. Initialised(p)
      BY <3>1, <3>3 DEF Initialised, Waits
    <3>5. Agrees(p)
      BY <1>1, <3>2, <3>4 DEF Pins, Agreement
    <3>6. Live(ids[p])
      BY <1>1, <3>2, <3>3, ProbesApart
    <3>7. obj[ids[p]].value = pin[p].value
      BY <3>1, <3>5 DEF Agrees, Valued, Written, Waits, Arrives
    <3> QED BY <3>1, <3>5, <3>6, <3>7 DEF Agrees, Placed, Directed, Waits, Live
  <2> QED BY <2>1, <2>2 DEF PinsAgree
<1> QED BY <1>1, CoreHolds, PinsHold, PTL
=============================================================================
