------------------------------ MODULE WanProofs -----------------------------
(***************************************************************************)
(* The uplink's state, the filter, the clock and translation agree for     *)
(* every list of upstream networks, every queue length and every back-off. *)
(*                                                                         *)
(* A handler sets the state before publish_rules() and stops or starts the *)
(* rest after it, so what is promised between two events does not hold     *)
(* during one.  The invariant says what each handler has already done and  *)
(* what it has asked publish_rules() for.                                  *)
(***************************************************************************)
EXTENDS Wan, TLAPS

Asked == call["event"]
Open == s_rules[s_active].up

\* The handler under way is the one publish_rules() works for.
Handling ==
  /\ event.type \in {"none", "up", "conflict", "lost_ip", "disconnected"}
  /\ event = NoEvent <=> Asked.pc = "idle"
  /\ event.type = "up" => s_state = "UP" /\ Asked.what.up = TRUE
  /\ event.type \in {"conflict", "lost_ip", "disconnected"} => Asked.what.up = FALSE
  /\ event.type = "conflict" => s_state = "SUBNET_CONFLICT"
  /\ event.type = "lost_ip" => s_state # "UP"

\* A state that says UP stands for an address that was looked at, unless the end
\* of the association is being handled; the clock is the next to follow it, and
\* between two events the filter has followed too.
Followed ==
  /\ s_state = "UP" /\ event.type # "disconnected" => s_net \in Nets /\ ~Overlaps(s_net)
  /\ event.type \in {"none", "up"} /\ s_started = TRUE => s_state = "UP"
  /\ event = NoEvent => (Open = TRUE <=> s_state = "UP")

\* The station's start is the first event of all.
Starting ==
  \A i \in 1 .. Len(queue) : queue[i].type = "started" =>
    i = 1 /\ event = NoEvent /\ s_state = "CONNECTING" /\ s_started = FALSE

Inv == TypeOK /\ Handling /\ Followed /\ Starting
-----------------------------------------------------------------------------
(* Queues.                                                                 *)

LEMMA Appended ==
  ASSUME NEW S, NEW q \in Seq(S), NEW e \in S
  PROVE  /\ Append(q, e) \in Seq(S)
         /\ Len(Append(q, e)) = Len(q) + 1 /\ Len(q) \in Nat
         /\ \A i \in 1 .. Len(q) : Append(q, e)[i] = q[i]
         /\ Append(q, e)[Len(q) + 1] = e
OBVIOUS

LEMMA Tailed ==
  ASSUME NEW S, NEW q \in Seq(S), q # <<>>
  PROVE  /\ Tail(q) \in Seq(S) /\ Len(q) \in Nat \ {0}
         /\ Len(Tail(q)) = Len(q) - 1
         /\ \A i \in 1 .. Len(q) - 1 : Tail(q)[i] = q[i + 1]
         /\ Head(q) = q[1] /\ Head(q) \in S
OBVIOUS

-----------------------------------------------------------------------------
(* publish_rules() by the event task.                                      *)

LEMMA NoRulesFacts ==
  /\ NoRules \in Rules /\ NotCalling.pc = "idle"
  /\ NotCalling \in [pc: {"idle", "get", "take", "fill"}, next: {0, 1}, what: Rules]
BY DEF NoRules, Rules, NotCalling

LEMMA CallsFacts ==
  ASSUME PubTypeOK, NEW up \in BOOLEAN, NEW dns \in Hosts \cup {NoHost},
         Calls("event", up, dns), UNCHANGED rules
  PROVE  PubTypeOK' /\ Asked'.pc = "get" /\ Asked'.what.up = up
<1>1. "event" \in Publishers
  BY WanAssumption
<1>2. [ports |-> {}, up |-> up, dns_ip |-> dns] \in Rules
  BY DEF Rules
<1>3. Asked' = [pc |-> "get", next |-> 0, what |-> [ports |-> {}, up |-> up, dns_ip |-> dns]]
  BY <1>1 DEF Calls, PubTypeOK, Asked
<1>4. call' \in [Publishers -> [pc: {"idle", "get", "take", "fill"}, next: {0, 1}, what: Rules]]
  BY <1>1, <1>2 DEF Calls, PubTypeOK
<1> QED BY <1>3, <1>4 DEF PubTypeOK, rules

LEMMA PublishingFacts ==
  ASSUME PubTypeOK, GetsList("event", wan_cfg) \/ TakesMutex("event")
  PROVE  PubTypeOK' /\ Asked.pc # "idle" /\ Asked'.pc # "idle" /\ Asked'.what.up = Asked.what.up
<1> DEFINE Phase == {"idle", "get", "take", "fill"}
<1>1. "event" \in Publishers /\ wan_cfg \in SUBSET PortRules
  BY WanAssumption
<1>2. /\ Asked \in [pc: Phase, next: {0, 1}, what: Rules]
      /\ Asked.what \in Rules /\ Asked.what.ports \in SUBSET PortRules
      /\ s_active \in {0, 1} /\ 1 - s_active \in {0, 1}
  BY <1>1 DEF PubTypeOK, Asked, Rules
<1>3. CASE GetsList("event", wan_cfg)
  <2>1. Asked' = [Asked EXCEPT !.pc = "take", !.what.ports = wan_cfg]
    BY <1>1, <1>3 DEF GetsList, PubTypeOK, Asked
  <2>2. Asked' \in [pc: Phase, next: {0, 1}, what: Rules]
    BY <2>1, <1>1, <1>2 DEF Rules
  <2>3. call' \in [Publishers -> [pc: Phase, next: {0, 1}, what: Rules]]
    BY <2>2, <1>1, <1>3 DEF GetsList, PubTypeOK, Asked
  <2>4. Asked'.pc = "take" /\ Asked'.what.up = Asked.what.up
    BY <2>1, <1>2 DEF Rules
  <2> QED BY <2>3, <2>4, <1>3 DEF PubTypeOK, GetsList, Asked
<1>4. CASE TakesMutex("event")
  <2>1. Asked' = [Asked EXCEPT !.pc = "fill", !.next = 1 - s_active]
    BY <1>1, <1>4 DEF TakesMutex, PubTypeOK, Asked
  <2>2. Asked' \in [pc: Phase, next: {0, 1}, what: Rules]
    BY <2>1, <1>2
  <2>3. call' \in [Publishers -> [pc: Phase, next: {0, 1}, what: Rules]]
    BY <2>2, <1>1, <1>4 DEF TakesMutex, PubTypeOK, Asked
  <2>4. [NoRules EXCEPT !.ports = Asked.what.ports] \in Rules
    BY <1>2 DEF NoRules, Rules
  <2>5. s_rules' \in [{0, 1} -> Rules]
    BY <2>4, <1>2, <1>4 DEF TakesMutex, PubTypeOK, Asked
  <2>6. s_publish_mutex' \in Publishers \cup {Nobody, NULL}
    BY <1>1, <1>4 DEF TakesMutex
  <2>7. Asked'.pc = "fill" /\ Asked'.what.up = Asked.what.up
    BY <2>1, <1>2
  <2> QED BY <2>3, <2>5, <2>6, <2>7, <1>4 DEF PubTypeOK, TakesMutex, Asked
<1> QED BY <1>3, <1>4

LEMMA ActivatesFacts ==
  ASSUME PubTypeOK, Activates("event")
  PROVE  PubTypeOK' /\ Asked.pc # "idle" /\ Asked'.pc = "idle" /\ Open' = Asked.what.up
<1> DEFINE n == Asked.next
           w == Asked.what
<1>1. "event" \in Publishers
  BY WanAssumption
<1>2. n \in {0, 1} /\ w \in Rules
  BY <1>1 DEF PubTypeOK, Asked
<1>3. /\ s_rules' = [s_rules EXCEPT ![n].up = w.up, ![n].dns_ip = w.dns_ip]
      /\ s_active' = n /\ published' = w
  BY DEF Activates, Asked
<1>4. s_rules'[n] = [s_rules[n] EXCEPT !.up = w.up, !.dns_ip = w.dns_ip]
  BY <1>2, <1>3 DEF PubTypeOK
<1>5. s_rules'[n] \in Rules /\ s_rules'[n].up = w.up
  BY <1>2, <1>4 DEF PubTypeOK, Rules
<1>6. s_rules' \in [{0, 1} -> Rules]
  BY <1>2, <1>3, <1>5 DEF PubTypeOK
<1>7. call' \in [Publishers -> [pc: {"idle", "get", "take", "fill"}, next: {0, 1}, what: Rules]]
  BY NoRulesFacts DEF Activates, PubTypeOK
<1>8. Asked' = NotCalling
  BY <1>1 DEF Activates, PubTypeOK, Asked
<1>9. s_publish_mutex' \in Publishers \cup {Nobody, NULL}
  BY DEF Activates
<1> QED BY <1>2, <1>3, <1>5, <1>6, <1>7, <1>8, <1>9, NoRulesFacts DEF PubTypeOK, Open, Activates, Asked

-----------------------------------------------------------------------------
(* The steps around the event task's.                                      *)

LEMMA InitInv == Init => Inv
<1> SUFFICES ASSUME Init PROVE Inv
  OBVIOUS
<1>0. wan_cfg \in SUBSET PortRules /\ Publishers = {"event"}
  BY WanAssumption
<1>1. [NoRules EXCEPT !.ports = wan_cfg] \in Rules /\ [NoRules EXCEPT !.ports = wan_cfg].up = FALSE
  BY <1>0 DEF NoRules, Rules
<1>2. /\ s_active = 1 /\ s_publish_mutex = Nobody
      /\ s_rules = [i \in {0, 1} |-> IF i = 1 THEN [NoRules EXCEPT !.ports = wan_cfg] ELSE NoRules]
      /\ published = [NoRules EXCEPT !.ports = wan_cfg]
      /\ call = [t \in Publishers |-> NotCalling]
  BY DEF Init, PubInit, PublishedAtBoot
<1>3. PubTypeOK
  BY <1>1, <1>2, NoRulesFacts DEF PubTypeOK
<1>4. Asked.pc = "idle" /\ Open = FALSE
  BY <1>0, <1>1, <1>2, NoRulesFacts DEF Asked, Open
<1>5. queue \in Seq(Events) /\ Len(queue) = 1
  BY DEF Init, Events
<1>6. TypeOK
  <2>1. event \in [type: {"none", "up", "conflict", "lost_ip"}] \cup Events
    BY DEF Init, NoEvent
  <2>2. /\ timer \in 0 .. BACKOFF_MAX_S /\ s_backoff_s \in BACKOFF_MIN_S .. BACKOFF_MAX_S
        /\ s_auth_fails \in 0 .. AuthWrap - 1 /\ MaxQueue \in Nat \ {0}
    BY WanAssumption DEF Init
  <2>3. Len(queue) <= IF event = NoEvent THEN MaxQueue + 1 ELSE MaxQueue
    BY <1>5, <2>2
  <2>4. {bridge, s_napt_on, s_started} \subseteq BOOLEAN
    BY DEF Init
  <2>5. /\ link \in {"idle", "trying", "joined", "addressed"} /\ s_state \in States
        /\ s_net \in Nets \cup {NoNet}
    BY DEF Init, States
  <2> QED BY <1>3, <1>5, <2>1, <2>2, <2>3, <2>4, <2>5 DEF TypeOK
<1>7. Handling /\ Followed
  BY <1>4 DEF Init, Handling, Followed, NoEvent
<1>8. Starting
  BY <1>5 DEF Init, Starting
<1> QED BY <1>6, <1>7, <1>8 DEF Inv

\* The driver, the DHCP client or the bridge does something and posts at most
\* one event, which is not the station's start.
LEMMA WorldStep ==
  ASSUME Inv, UNCHANGED <<rules, call, event, status, s_napt_on, s_started>>,
         timer' \in {timer, 0}, bridge' \in BOOLEAN,
         link' \in {"idle", "trying", "joined", "addressed"},
         \/ queue' = queue
         \/ \E e \in Events : e.type # "started" /\ Posts(e)
  PROVE  Inv'
<1>1. PubTypeOK' /\ Asked' = Asked /\ Open' = Open
  BY DEF Inv, TypeOK, PubTypeOK, rules, Asked, Open
<1>2. /\ queue' \in Seq(Events)
      /\ Len(queue') <= IF event = NoEvent THEN MaxQueue + 1 ELSE MaxQueue
      /\ Starting'
  <2>1. CASE queue' = queue
    BY <2>1 DEF Inv, TypeOK, Starting, status
  <2>2. CASE queue' # queue
    <3>1. PICK e \in Events : e.type # "started" /\ Posts(e)
      BY <2>2
    <3>2. /\ queue \in Seq(Events) /\ queue' = Append(queue, e)
          /\ Len(queue) < MaxQueue /\ MaxQueue \in Nat
      BY <3>1, WanAssumption DEF Inv, TypeOK, Posts
    <3>3. /\ queue' \in Seq(Events) /\ Len(queue) \in Nat /\ Len(queue') = Len(queue) + 1
          /\ \A i \in 1 .. Len(queue) : queue'[i] = queue[i]
          /\ queue'[Len(queue) + 1].type # "started"
      BY <3>1, <3>2, Appended
    <3>4. Starting'
      BY <3>3 DEF Inv, Starting, status
    <3> QED BY <3>2, <3>3, <3>4
  <2> QED BY <2>1, <2>2
<1>3. timer' \in 0 .. BACKOFF_MAX_S \cup {BACKOFF_REJECTED_S}
  BY WanAssumption DEF Inv, TypeOK
<1>4. TypeOK'
  BY <1>1, <1>2, <1>3 DEF Inv, TypeOK, status
<1>5. Handling' /\ Followed'
  BY <1>1 DEF Inv, Handling, Followed, status, Overlaps
<1> QED BY <1>2, <1>4, <1>5 DEF Inv

LEMMA WorldSteps ==
  ASSUME Inv,
         \/ Joins \/ LosesAddress \/ BridgeComesUp \/ BridgeGoesDown \/ TimerFires
         \/ \E reason \in Reasons : Drops(reason)
         \/ \E net \in Nets : GetsAddress(net)
  PROVE  Inv'
<1> USE DEF OursUnchanged
<1>0. /\ link \in {"idle", "trying", "joined", "addressed"} /\ bridge \in BOOLEAN
  BY DEF Inv, TypeOK
<1>1. CASE Joins
  <2>1. [type |-> "connected"] \in Events
    BY DEF Events
  <2> QED BY <1>0, <1>1, <2>1, WorldStep DEF Joins
<1>2. CASE LosesAddress
  <2>1. [type |-> "lost_ip"] \in Events
    BY DEF Events
  <2> QED BY <1>0, <1>2, <2>1, WorldStep DEF LosesAddress
<1>3. CASE BridgeComesUp
  <2>1. [type |-> "bridge_up"] \in Events
    BY DEF Events
  <2> QED BY <1>0, <1>3, <2>1, WorldStep DEF BridgeComesUp
<1>4. CASE BridgeGoesDown
  BY <1>0, <1>4, WorldStep DEF BridgeGoesDown
<1>5. CASE TimerFires
  BY <1>0, <1>5, WorldStep DEF TimerFires, Connects
<1>6. ASSUME NEW reason \in Reasons, Drops(reason) PROVE Inv'
  <2>1. [type |-> "disconnected", reason |-> reason] \in Events
    BY DEF Events
  <2> QED BY <1>0, <1>6, <2>1, WorldStep DEF Drops
<1>7. ASSUME NEW net \in Nets, GetsAddress(net) PROVE Inv'
  <2>1. [type |-> "got_ip", net |-> net] \in Events
    BY DEF Events
  <2> QED BY <1>0, <1>7, <2>1, WorldStep DEF GetsAddress
<1> QED BY <1>1, <1>2, <1>3, <1>4, <1>5, <1>6, <1>7

-----------------------------------------------------------------------------
(* The event task's steps.                                                 *)

LEMMA TakesFacts ==
  ASSUME Inv, NEW type, Takes(type)
  PROVE  /\ Head(queue) = queue[1] /\ Head(queue) \in Events /\ Head(queue).type = type
         /\ 1 \in 1 .. Len(queue)
         /\ queue' \in Seq(Events) /\ Len(queue') <= MaxQueue /\ Len(queue') \in Nat
         /\ \A i \in 1 .. Len(queue') : queue'[i].type # "started"
         /\ event = NoEvent /\ event.type = "none" /\ Asked.pc = "idle"
<1>1. /\ queue \in Seq(Events) /\ queue # <<>> /\ event = NoEvent /\ queue' = Tail(queue)
      /\ Len(queue) <= MaxQueue + 1 /\ MaxQueue \in Nat
  BY WanAssumption DEF Takes, Inv, TypeOK
<1>2. /\ Tail(queue) \in Seq(Events) /\ Len(queue) \in Nat \ {0}
      /\ Len(Tail(queue)) = Len(queue) - 1
      /\ \A i \in 1 .. Len(queue) - 1 : Tail(queue)[i] = queue[i + 1]
      /\ Head(queue) = queue[1] /\ Head(queue) \in Events
  BY <1>1, Tailed
<1>3. \A i \in 1 .. Len(queue') : queue'[i].type # "started"
  BY <1>1, <1>2 DEF Inv, Starting
<1> QED BY <1>1, <1>2, <1>3 DEF Takes, Inv, Handling, NoEvent

\* A handler that publishes nothing.
LEMMA QuietHandlerStep ==
  ASSUME Inv, on_sta_port_started \/ on_sta_connected \/ on_bridge_up
  PROVE  Inv'
<1>1. \E type \in {"started", "connected", "bridge_up"} : Takes(type) /\
        (type = "started" => on_sta_port_started) /\ (type # "started" => UNCHANGED s_state)
  BY DEF on_sta_port_started, on_sta_connected, on_bridge_up, status
<1>2. PICK type \in {"started", "connected", "bridge_up"} : Takes(type) /\
        (type = "started" => on_sta_port_started) /\ (type # "started" => UNCHANGED s_state)
  BY <1>1
<1>3. /\ UNCHANGED <<rules, call, event, timer, bridge, s_net, s_backoff_s, s_started>>
      /\ link' \in {"idle", "trying", "joined", "addressed"} /\ s_auth_fails' \in {0, s_auth_fails}
      /\ s_napt_on' \in BOOLEAN
  BY DEF on_sta_port_started, on_sta_connected, on_bridge_up, status, Inv, TypeOK, Connects, napt_ensure
<1>4. s_state' = s_state
  <2>1. CASE type = "started"
    BY <1>2, <2>1, TakesFacts DEF Inv, Starting, on_sta_port_started
  <2> QED BY <1>2, <2>1
<1>5. /\ queue' \in Seq(Events) /\ Len(queue') <= MaxQueue /\ Len(queue') \in Nat
      /\ \A i \in 1 .. Len(queue') : queue'[i].type # "started"
  BY <1>2, TakesFacts
<1>6. PubTypeOK' /\ Asked' = Asked /\ Open' = Open
  BY <1>3 DEF Inv, TypeOK, PubTypeOK, rules, Asked, Open
<1>7. s_auth_fails' \in 0 .. AuthWrap - 1 /\ MaxQueue \in Nat
  BY <1>3, WanAssumption DEF Inv, TypeOK
<1>8. TypeOK'
  BY <1>3, <1>4, <1>5, <1>6, <1>7 DEF Inv, TypeOK
<1>9. Handling' /\ Followed' /\ Starting'
  BY <1>3, <1>4, <1>5, <1>6 DEF Inv, Handling, Followed, Starting, Overlaps
<1> QED BY <1>8, <1>9 DEF Inv

\* A handler that calls publish_rules(), from what it has set before.
LEMMA CallingStep ==
  ASSUME Inv, NEW type, Takes(type),
         NEW up \in BOOLEAN, NEW dns \in Hosts \cup {NoHost}, Calls("event", up, dns),
         UNCHANGED <<rules, timer, link, bridge, s_auth_fails, s_napt_on, s_started>>,
         s_backoff_s' \in {s_backoff_s, BACKOFF_MIN_S},
         event' \in [type: {"up", "conflict", "lost_ip"}] \cup Events,
         event'.type \in {"up", "conflict", "lost_ip", "disconnected"},
         up = TRUE <=> event'.type = "up",
         s_state' \in States, s_net' \in Nets \cup {NoNet},
         event'.type = "up" => s_state' = "UP" /\ s_net' \in Nets /\ ~Overlaps(s_net'),
         event'.type = "conflict" => s_state' = "SUBNET_CONFLICT",
         event'.type = "lost_ip" => s_state' # "UP"
  PROVE  Inv'
<1>1. PubTypeOK' /\ Asked'.pc = "get" /\ Asked'.what.up = up
  BY CallsFacts DEF Inv, TypeOK
<1>2. /\ queue' \in Seq(Events) /\ Len(queue') <= MaxQueue
      /\ \A i \in 1 .. Len(queue') : queue'[i].type # "started"
      /\ event' # NoEvent
  BY TakesFacts DEF NoEvent
<1>3. s_backoff_s' \in BACKOFF_MIN_S .. BACKOFF_MAX_S
  BY WanAssumption DEF Inv, TypeOK
<1>4. TypeOK'
  BY <1>1, <1>2, <1>3 DEF Inv, TypeOK
<1>5. Handling'
  BY <1>1, <1>2 DEF Handling
<1>6. Followed' /\ Starting'
  BY <1>2, <1>5 DEF Followed, Starting, Handling, Overlaps
<1> QED BY <1>4, <1>5, <1>6 DEF Inv

LEMMA GotIpStep ==
  ASSUME Inv, on_got_ip
  PROVE  Inv'
<1> DEFINE net == Head(queue).net
<1>1. Takes("got_ip")
  BY DEF on_got_ip
<1>2. net \in Nets
  BY <1>1, TakesFacts DEF Events
<1>3. CASE Overlaps(net)
  <2>1. /\ event' = [type |-> "conflict"] /\ s_state' = "SUBNET_CONFLICT" /\ s_net' = NoNet
        /\ Calls("event", FALSE, NoHost) /\ UNCHANGED s_backoff_s
        /\ UNCHANGED <<rules, timer, link, bridge, s_auth_fails, s_napt_on, s_started>>
    BY <1>3 DEF on_got_ip
  <2> QED BY <1>1, <2>1, CallingStep DEF States
<1>4. CASE ~Overlaps(net)
  <2>1. PICK dns \in Hosts \cup {NoHost} :
          /\ event' = [type |-> "up"] /\ s_state' = "UP" /\ s_net' = net
          /\ s_backoff_s' = BACKOFF_MIN_S /\ Calls("event", TRUE, dns)
          /\ UNCHANGED <<rules, timer, link, bridge, s_auth_fails, s_napt_on, s_started>>
    BY <1>4 DEF on_got_ip
  <2>2. ~Overlaps(s_net')
    BY <1>4, <2>1
  <2> QED BY <1>1, <1>2, <2>1, <2>2, CallingStep DEF States
<1> QED BY <1>3, <1>4

LEMMA LostIpBeginsStep ==
  ASSUME Inv, on_lost_ip
  PROVE  Inv'
<1>1. s_state' \in States /\ s_state' # "UP"
  BY DEF Inv, TypeOK, on_lost_ip, States
<1> QED BY <1>1, CallingStep DEF on_lost_ip

LEMMA DisconnectedBeginsStep ==
  ASSUME Inv, on_sta_disconnected
  PROVE  Inv'
<1>1. /\ Takes("disconnected") /\ Head(queue) \in Events /\ Head(queue).type = "disconnected"
      /\ event' = Head(queue)
  BY TakesFacts DEF on_sta_disconnected
<1>2. s_state' \in States
  BY DEF Inv, TypeOK, on_sta_disconnected
<1> QED BY <1>1, <1>2, CallingStep DEF on_sta_disconnected

LEMMA PublishingStep ==
  ASSUME Inv, Publishing
  PROVE  Inv'
<1>1. /\ PubTypeOK' /\ Asked.pc # "idle" /\ Asked'.pc # "idle" /\ Asked'.what.up = Asked.what.up
      /\ UNCHANGED <<world, event, timer, status, s_napt_on, s_started>>
  BY PublishingFacts DEF Publishing, Inv, TypeOK
<1>2. TypeOK'
  BY <1>1 DEF Inv, TypeOK, world, status
<1>3. Handling' /\ Followed'
  BY <1>1 DEF Inv, Handling, Followed, status, Overlaps
<1>4. Starting'
  BY <1>1 DEF Inv, Starting, world, status
<1> QED BY <1>2, <1>3, <1>4 DEF Inv

\* The end of a handler: what it published is in force, and what it leaves behind
\* is what is promised between two events.
LEMMA ReturnStep ==
  ASSUME Inv, NEW type \in {"up", "conflict", "lost_ip", "disconnected"}, Returns(type),
         s_state' \in States, UNCHANGED <<s_net, bridge>>,
         s_state' = "UP" <=> type = "up", type = "up" => UNCHANGED s_state,
         s_napt_on' \in BOOLEAN, s_started' \in BOOLEAN, type # "up" => s_started' = FALSE,
         link' \in {"idle", "trying", "joined", "addressed"},
         timer' \in 0 .. BACKOFF_MAX_S \cup {BACKOFF_REJECTED_S},
         s_backoff_s' \in BACKOFF_MIN_S .. BACKOFF_MAX_S, s_auth_fails' \in 0 .. AuthWrap - 1,
         queue' \in {queue, Append(queue, [type |-> "disconnected", reason |-> "other"])}
  PROVE  Inv'
<1>1. /\ event.type = type /\ event' = NoEvent /\ event'.type = "none"
      /\ PubTypeOK' /\ Asked.pc # "idle" /\ Asked'.pc = "idle" /\ Open' = Asked.what.up
  BY ActivatesFacts DEF Returns, Inv, TypeOK, NoEvent
<1>2. Open' = TRUE <=> s_state' = "UP"
  BY <1>1 DEF Inv, Handling
<1>3. /\ queue' \in Seq(Events) /\ Len(queue') <= MaxQueue + 1
      /\ \A i \in 1 .. Len(queue') : queue'[i].type # "started"
  <2> DEFINE e == [type |-> "disconnected", reason |-> "other"]
  <2>1. e \in Events /\ e.type # "started"
    BY DEF Events
  <2>2. /\ queue \in Seq(Events) /\ Len(queue) <= MaxQueue /\ MaxQueue \in Nat
        /\ \A i \in 1 .. Len(queue) : queue[i].type # "started"
    BY <1>1, WanAssumption DEF Inv, TypeOK, Starting, NoEvent
  <2> HIDE DEF e
  <2>3. /\ Append(queue, e) \in Seq(Events) /\ Len(queue) \in Nat
        /\ Len(Append(queue, e)) = Len(queue) + 1
        /\ \A i \in 1 .. Len(queue) : Append(queue, e)[i] = queue[i]
        /\ Append(queue, e)[Len(queue) + 1] = e
    BY <2>1, <2>2, Appended
  <2>4. queue' = queue \/ queue' = Append(queue, e)
    BY DEF e
  <2>5. CASE queue' = queue
    BY <2>2, <2>3, <2>5
  <2>6. CASE queue' = Append(queue, e)
    BY <2>1, <2>2, <2>3, <2>6
  <2> QED BY <2>4, <2>5, <2>6
<1>4. TypeOK'
  BY <1>1, <1>3 DEF Inv, TypeOK, NoEvent
<1>5. Handling' /\ Starting'
  BY <1>1, <1>3 DEF Handling, Starting
<1>6. Followed'
  <2>1. s_state' = "UP" => s_net' \in Nets /\ ~Overlaps(s_net')
    BY <1>1 DEF Inv, Followed, Handling
  <2> QED BY <1>1, <1>2, <2>1 DEF Inv, Followed
<1> QED BY <1>4, <1>5, <1>6 DEF Inv

LEMMA DoubledFacts ==
  ASSUME s_backoff_s \in BACKOFF_MIN_S .. BACKOFF_MAX_S
  PROVE  Doubled \in BACKOFF_MIN_S .. BACKOFF_MAX_S
BY WanAssumption DEF Doubled

\* Unless a conflict keeps its own, a lost or failed attempt sets another state,
\* never UP, and a retry.
LEMMA BackoffFacts ==
  ASSUME TypeOK, NEW reason, Backoff(reason)
  PROVE  /\ s_state' \in States \ {"UP"}
         /\ s_auth_fails' \in 0 .. AuthWrap - 1
         /\ s_backoff_s' \in BACKOFF_MIN_S .. BACKOFF_MAX_S
         /\ timer' \in 0 .. BACKOFF_MAX_S \cup {BACKOFF_REJECTED_S}
<1>1. StateAfter(reason) \in States \ {"UP"}
  BY DEF StateAfter, States, Rejected
<1>2. (s_auth_fails + 1) % AuthWrap \in 0 .. AuthWrap - 1
  BY WanAssumption DEF TypeOK
<1>3. s_backoff_s \in 0 .. BACKOFF_MAX_S
  BY WanAssumption DEF TypeOK
<1> QED BY <1>1, <1>2, <1>3, DoubledFacts DEF Backoff, schedule_retry, TypeOK

LEMMA ReturnSteps ==
  ASSUME Inv, GotIpUp \/ GotIpConflict \/ LostIp \/ Disconnected
  PROVE  Inv'
<1>0. /\ TypeOK /\ Handling
      /\ s_state \in States /\ link \in {"idle", "trying", "joined", "addressed"}
      /\ s_napt_on \in BOOLEAN /\ s_started \in BOOLEAN /\ bridge \in BOOLEAN
      /\ timer \in 0 .. BACKOFF_MAX_S \cup {BACKOFF_REJECTED_S}
      /\ s_backoff_s \in BACKOFF_MIN_S .. BACKOFF_MAX_S /\ s_auth_fails \in 0 .. AuthWrap - 1
  BY DEF Inv, TypeOK
<1>1. CASE GotIpUp
  <2>1. /\ Returns("up") /\ s_state = "UP" /\ UNCHANGED <<world, timer, status>>
        /\ s_napt_on' \in BOOLEAN /\ s_started' \in BOOLEAN
    BY <1>0, <1>1 DEF GotIpUp, Handling, Returns, napt_ensure, clock_time_wan_up
  <2> QED BY <1>0, <2>1, ReturnStep DEF world, status
<1>2. CASE GotIpConflict
  <2>1. Returns("conflict") /\ s_state = "SUBNET_CONFLICT" /\ s_started' = FALSE
    BY <1>0, <1>2 DEF GotIpConflict, Handling, Returns, clock_time_wan_down
  <2> QED BY <1>0, <1>2, <2>1, ReturnStep DEF GotIpConflict, status, schedule_retry
<1>3. CASE LostIp
  <2>1. Returns("lost_ip") /\ s_state # "UP" /\ s_started' = FALSE
    BY <1>0, <1>3 DEF LostIp, Handling, Returns, clock_time_wan_down
  <2> QED BY <1>0, <1>3, <2>1, ReturnStep DEF LostIp, status, world
<1>4. CASE Disconnected
  <2>1. /\ Returns("disconnected") /\ s_started' = FALSE /\ UNCHANGED <<world, s_net, s_napt_on>>
    BY <1>4 DEF Disconnected, clock_time_wan_down
  <2>2. CASE ConflictStays
    BY <1>0, <1>4, <2>1, <2>2, ReturnStep DEF Disconnected, ConflictStays, world
  <2>3. CASE ~ConflictStays
    <3>1. Backoff(event.reason)
      BY <1>4, <2>3 DEF Disconnected
    <3> QED BY <1>0, <2>1, <3>1, BackoffFacts, ReturnStep DEF world
  <2> QED BY <2>2, <2>3
<1> QED BY <1>1, <1>2, <1>3, <1>4

LEMMA NextInv ==
  ASSUME Inv, [Next]_vars
  PROVE  Inv'
<1>1. CASE EventTask
  BY <1>1, QuietHandlerStep, GotIpStep, LostIpBeginsStep, DisconnectedBeginsStep, ReturnSteps,
     PublishingStep DEF EventTask
<1>2. CASE UNCHANGED vars
  BY <1>2, WorldStep DEF vars, rules, status, Inv, TypeOK
<1> QED BY <1>1, <1>2, WorldSteps DEF Next

LEMMA AlwaysInv == Spec => []Inv
BY InitInv, NextInv, PTL DEF Spec

\* The variables keep their types, and the queue and the back-off their limits,
\* whichever events the driver posts.
THEOREM TypeCorrect == Spec => []TypeOK
BY AlwaysInv, PTL DEF Inv

-----------------------------------------------------------------------------
\* Two networks that disagree in a bit both masks cover share no address.
LEMMA ApartShareNothing ==
  ASSUME NEW net \in Nets, ~Overlaps(net), NEW a \in SUBSET Bits,
         InNet(a, net.ip, net.mask), InNet(a, LAN_IP, LAN_MASK)
  PROVE  FALSE
<1> DEFINE common == net.mask \cap LAN_MASK
<1>1. net.ip \cap common = a \cap common
  BY DEF InNet
<1>2. LAN_IP \cap common = a \cap common
  BY DEF InNet
<1> QED BY <1>1, <1>2 DEF Overlaps

\* Between two events the filter is open exactly while the state shown is UP, the
\* NTP client runs only then, and the upstream network shares no address with the
\* bridge's own: for all networks, masks and interleavings with the driver.
THEOREM UpUsable == Spec => []UpIsUsable
<1>1. Inv => UpIsUsable
  <2> SUFFICES ASSUME Inv, event = NoEvent
               PROVE  /\ s_rules[s_active].up <=> s_state = "UP"
                      /\ s_started => s_state = "UP"
                      /\ s_state = "UP" =>
                           \A a \in SUBSET Bits :
                             ~(InNet(a, s_net.ip, s_net.mask) /\ InNet(a, LAN_IP, LAN_MASK))
    BY DEF UpIsUsable
  <2>1. event.type = "none"
    BY DEF NoEvent
  <2>2. s_rules[s_active].up \in BOOLEAN /\ s_started \in BOOLEAN
    BY DEF Inv, TypeOK, PubTypeOK, Rules
  <2>3. s_rules[s_active].up <=> s_state = "UP"
    BY <2>2 DEF Inv, Followed, Open
  <2>4. s_started => s_state = "UP"
    BY <2>1, <2>2 DEF Inv, Followed
  <2>5. s_state = "UP" => s_net \in Nets /\ ~Overlaps(s_net)
    BY <2>1 DEF Inv, Followed
  <2> QED BY <2>3, <2>4, <2>5, ApartShareNothing
<1> QED BY <1>1, AlwaysInv, PTL

-----------------------------------------------------------------------------
\* A queue that only grows keeps the news of the bridge.
LEMMA NaptKeptAppend ==
  ASSUME queue \in Seq(Events), NEW e \in Events, queue' = Append(queue, e), BridgePending
  PROVE  BridgePending'
<1>1. PICK i \in DOMAIN queue : queue[i].type = "bridge_up"
  BY DEF BridgePending
<1>2. DOMAIN queue = 1 .. Len(queue) /\ DOMAIN queue' = 1 .. Len(queue')
  BY Appended
<1> QED BY <1>1, <1>2, Appended DEF BridgePending

\* Taking any other event does not lose it.
LEMMA NaptKeptTail ==
  ASSUME queue \in Seq(Events), NEW type, Takes(type), type # "bridge_up", BridgePending
  PROVE  BridgePending'
<1>1. PICK i \in DOMAIN queue : queue[i].type = "bridge_up"
  BY DEF BridgePending
<1>2. /\ queue # <<>> /\ queue' = Tail(queue) /\ Tail(queue) \in Seq(Events)
      /\ Len(queue) \in Nat \ {0} /\ Len(queue') = Len(queue) - 1
      /\ \A j \in 1 .. Len(queue) - 1 : queue'[j] = queue[j + 1]
      /\ queue[1].type # "bridge_up"
  BY Tailed DEF Takes
<1>3. DOMAIN queue = 1 .. Len(queue) /\ DOMAIN queue' = 1 .. Len(queue')
  BY <1>2
<1>4. i - 1 \in DOMAIN queue' /\ queue'[i - 1] = queue[i]
  BY <1>1, <1>2, <1>3
<1> QED BY <1>1, <1>4 DEF BridgePending

LEMMA NaptStep ==
  ASSUME TypeOK, NaptFollowsBridge, [Next]_vars
  PROVE  NaptFollowsBridge'
<1> USE DEF NaptFollowsBridge
<1>0. queue \in Seq(Events) /\ bridge \in BOOLEAN /\ s_napt_on \in BOOLEAN
  BY DEF TypeOK
<1>1. ASSUME NEW e \in Events, Posts(e), UNCHANGED <<bridge, s_napt_on>> PROVE NaptFollowsBridge'
  BY <1>0, <1>1, NaptKeptAppend DEF Posts
<1>2. ASSUME NEW type, Takes(type), type # "bridge_up", UNCHANGED <<bridge, s_napt_on>>
      PROVE  NaptFollowsBridge'
  BY <1>0, <1>2, NaptKeptTail
<1>3. ASSUME UNCHANGED <<queue, bridge>>, s_napt_on' \in {s_napt_on, s_napt_on \/ bridge}
      PROVE  NaptFollowsBridge'
  BY <1>0, <1>3 DEF BridgePending
<1>4. CASE Joins
  <2>1. [type |-> "connected"] \in Events
    BY DEF Events
  <2> QED BY <1>1, <1>4, <2>1 DEF Joins, OursUnchanged
<1>5. CASE LosesAddress
  <2>1. [type |-> "lost_ip"] \in Events
    BY DEF Events
  <2> QED BY <1>1, <1>5, <2>1 DEF LosesAddress, OursUnchanged
<1>6. CASE BridgeComesUp
  <2> DEFINE e == [type |-> "bridge_up"]
  <2>1. e \in Events /\ e.type = "bridge_up"
    BY DEF Events
  <2>2. queue' = Append(queue, e)
    BY <1>6 DEF BridgeComesUp, Posts
  <2> HIDE DEF e
  <2>3. Len(queue) + 1 \in DOMAIN queue' /\ queue'[Len(queue) + 1] = e
    BY <1>0, <2>1, <2>2, Appended
  <2> QED BY <2>1, <2>3 DEF BridgePending
<1>7. CASE BridgeGoesDown
  BY <1>7 DEF BridgeGoesDown
<1>8. CASE TimerFires
  BY <1>3, <1>8 DEF TimerFires
<1>9. ASSUME NEW reason \in Reasons, Drops(reason) PROVE NaptFollowsBridge'
  <2>1. [type |-> "disconnected", reason |-> reason] \in Events
    BY DEF Events
  <2> QED BY <1>1, <1>9, <2>1 DEF Drops, OursUnchanged
<1>10. ASSUME NEW net \in Nets, GetsAddress(net) PROVE NaptFollowsBridge'
  <2>1. [type |-> "got_ip", net |-> net] \in Events
    BY DEF Events
  <2> QED BY <1>1, <1>10, <2>1 DEF GetsAddress, OursUnchanged
<1>11. CASE on_bridge_up
  BY <1>0, <1>11 DEF on_bridge_up, napt_ensure
<1>12. CASE on_sta_port_started \/ on_sta_connected \/ on_got_ip \/ on_lost_ip \/ on_sta_disconnected
  BY <1>2, <1>12 DEF on_sta_port_started, on_sta_connected, on_got_ip, on_lost_ip,
                     on_sta_disconnected
<1>13. CASE Publishing \/ LostIp \/ Disconnected
  BY <1>3, <1>13 DEF Publishing, LostIp, Disconnected, world
<1>14. CASE GotIpUp
  BY <1>3, <1>14 DEF GotIpUp, napt_ensure, world
<1>15. CASE GotIpConflict
  <2>1. [type |-> "disconnected", reason |-> "other"] \in Events
    BY DEF Events
  <2> QED BY <1>0, <1>3, <1>15, <2>1, NaptKeptAppend DEF GotIpConflict
<1>16. CASE UNCHANGED vars
  BY <1>3, <1>16 DEF vars
<1> QED BY <1>4, <1>5, <1>6, <1>7, <1>8, <1>9, <1>10, <1>11, <1>12, <1>13, <1>14, <1>15, <1>16
        DEF Next, EventTask

\* However often the bridge's interface and the uplink's address come and go, and
\* however long the queue: translation is on once the event of a bridge that is up
\* has been handled.
THEOREM NaptOn == Spec => []NaptFollowsBridge
<1>1. Init => NaptFollowsBridge
  BY DEF Init, NaptFollowsBridge
<1>2. TypeOK /\ NaptFollowsBridge /\ [Next]_vars => NaptFollowsBridge'
  BY NaptStep
<1> QED BY <1>1, <1>2, TypeCorrect, PTL DEF Spec

\* While a conflict is reported no step, its own disconnection least of all,
\* replaces the long wait by a shorter one.
THEOREM ConflictKept == Spec => ConflictWaits
<1> DEFINE Waits == s_state = "SUBNET_CONFLICT" => timer' \in {timer, 0, BACKOFF_REJECTED_S}
<1>1. Next => Waits
  <2> SUFFICES ASSUME Next, s_state = "SUBNET_CONFLICT"
               PROVE  timer' \in {timer, 0, BACKOFF_REJECTED_S}
    OBVIOUS
  <2>1. CASE Joins \/ LosesAddress \/ BridgeComesUp \/ BridgeGoesDown \/ TimerFires
    BY <2>1 DEF Joins, LosesAddress, BridgeComesUp, BridgeGoesDown, TimerFires, OursUnchanged
  <2>2. CASE \/ \E reason \in Reasons : Drops(reason)
             \/ \E net \in Nets : GetsAddress(net)
    BY <2>2 DEF Drops, GetsAddress, OursUnchanged
  <2>3. CASE on_sta_port_started \/ on_sta_connected \/ on_bridge_up \/ on_got_ip \/ on_lost_ip
    BY <2>3 DEF on_sta_port_started, on_sta_connected, on_bridge_up, on_got_ip, on_lost_ip
  <2>4. CASE on_sta_disconnected \/ Publishing \/ GotIpUp \/ LostIp
    BY <2>4 DEF on_sta_disconnected, Publishing, GotIpUp, LostIp
  <2>5. CASE GotIpConflict
    BY <2>5 DEF GotIpConflict, schedule_retry
  <2>6. CASE Disconnected
    BY <2>6 DEF Disconnected, ConflictStays
  <2> QED BY <2>1, <2>2, <2>3, <2>4, <2>5, <2>6 DEF Next, EventTask
<1>2. [Next]_vars => [Waits]_vars
  BY <1>1
<1> QED BY <1>2, PTL DEF Spec, ConflictWaits
=============================================================================
