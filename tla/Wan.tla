-------------------------------- MODULE Wan ---------------------------------
(***************************************************************************)
(* WiFi as WAN (src/main/wan.c): the event handlers that follow the uplink, *)
(* the timer that tries again, and the rules the event task publishes to    *)
(* the packet filter.                                                      *)
(*                                                                         *)
(* The WiFi driver and its DHCP client are external: they try, join, get   *)
(* and lose addresses, fail, and post an event for each.  Event handlers   *)
(* run one after the other in one task; publish_rules() is a call with     *)
(* steps of its own (module WanPublish).  The port list stays as it was at *)
(* boot; module Settings is about the tasks that change it.                *)
(***************************************************************************)
EXTENDS WanPublish, Sequences, FiniteSets

CONSTANTS
  wan_cfg,                  \* the stored port list
  Reasons,                  \* why an attempt fails or the association is lost
  Bits,                     \* of an address, which is the set of those that are 1
  Nets,                     \* [ip, mask]: addresses an upstream network may give
  LAN_IP, LAN_MASK,         \* the bridge's own network
  BACKOFF_MIN_S, BACKOFF_MAX_S, BACKOFF_REJECTED_S, AUTH_FAILS_BEFORE_SLOW,
  AuthWrap,                 \* s_auth_fails counts modulo this (256)
  MaxQueue                  \* bound on events waiting when the driver posts one

ASSUME WanAssumption ==
  /\ Publishers = {"event"} /\ wan_cfg \subseteq PortRules
  /\ Reasons \subseteq {"auth", "no_ap", "other"}
  /\ LAN_IP \subseteq Bits /\ LAN_MASK \subseteq Bits
  /\ Nets \subseteq [ip: SUBSET Bits, mask: SUBSET Bits]
  /\ BACKOFF_MIN_S \in Nat \ {0} /\ BACKOFF_MAX_S \in Nat /\ BACKOFF_MIN_S <= BACKOFF_MAX_S
  /\ BACKOFF_REJECTED_S \in Nat /\ BACKOFF_REJECTED_S > BACKOFF_MAX_S
  /\ AUTH_FAILS_BEFORE_SLOW \in Nat \ {0} /\ AuthWrap \in Nat /\ AuthWrap > AUTH_FAILS_BEFORE_SLOW
  /\ MaxQueue \in Nat \ {0}

VARIABLES
  link,                     \* the driver: "idle", "trying", "joined", "addressed"
  queue, event,             \* events waiting, and the one being handled
  timer,                    \* s_retry_timer: its delay, 0 when not armed
  bridge,                   \* the bridge's interface is up
  s_state, s_net,           \* s_status: state, and address (NoNet for 0)
  s_backoff_s, s_auth_fails, s_napt_on,
  s_started                 \* clock_time.c: the NTP client is running

rules == <<s_rules, s_active, s_publish_mutex, published>>
world == <<link, queue, bridge>>
status == <<s_state, s_net, s_backoff_s, s_auth_fails>>
vars == <<s_rules, s_active, s_publish_mutex, call, published, link, queue,
          event, timer, bridge, s_state, s_net, s_backoff_s, s_auth_fails, s_napt_on, s_started>>

NoNet == [ip |-> {}, mask |-> {}]
NoEvent == [type |-> "none"]
States == {"CONNECTING", "UP", "DOWN", "NO_AP", "AUTH_FAILED", "SUBNET_CONFLICT"}

\* After wan_init() with an uplink configured; the station is about to start.
Init ==
  /\ PubInit(TRUE, wan_cfg)
  /\ link = "idle" /\ queue = <<[type |-> "started"]>> /\ event = NoEvent
  /\ timer = 0 /\ bridge = FALSE
  /\ s_state = "CONNECTING" /\ s_net = NoNet
  /\ s_backoff_s = BACKOFF_MIN_S /\ s_auth_fails = 0
  /\ s_napt_on = FALSE /\ s_started = FALSE
-----------------------------------------------------------------------------
(* The driver, the DHCP client, the bridge's interface and the timer.      *)

Posts(e) == Len(queue) < MaxQueue /\ queue' = Append(queue, e)
OursUnchanged == UNCHANGED <<rules, call, event, timer, status, s_napt_on, s_started>>

\* esp_wifi_connect(): nothing happens unless the station is idle.
Connects == link' = IF link = "idle" THEN "trying" ELSE link

Joins ==
  /\ link = "trying" /\ link' = "joined"
  /\ Posts([type |-> "connected"])
  /\ UNCHANGED bridge /\ OursUnchanged

\* An attempt fails, or the association is lost.
Drops(reason) ==
  /\ link # "idle" /\ link' = "idle"
  /\ Posts([type |-> "disconnected", reason |-> reason])
  /\ UNCHANGED bridge /\ OursUnchanged

\* The first address, or another one later.
GetsAddress(net) ==
  /\ link \in {"joined", "addressed"} /\ link' = "addressed"
  /\ Posts([type |-> "got_ip", net |-> net])
  /\ UNCHANGED bridge /\ OursUnchanged

\* The lease runs out, or the address has been gone for a while.
LosesAddress ==
  /\ link' = IF link = "addressed" THEN "joined" ELSE link
  /\ s_net # NoNet \/ link = "addressed"
  /\ Posts([type |-> "lost_ip"])
  /\ UNCHANGED bridge /\ OursUnchanged

BridgeComesUp ==
  /\ ~bridge /\ bridge' = TRUE
  /\ Posts([type |-> "bridge_up"])
  /\ UNCHANGED link /\ OursUnchanged

BridgeGoesDown ==
  /\ bridge /\ bridge' = FALSE
  /\ UNCHANGED <<link, queue>> /\ OursUnchanged

\* retry_timer_cb().
TimerFires ==
  /\ timer # 0 /\ timer' = 0
  /\ Connects
  /\ UNCHANGED <<rules, call, queue, event, bridge, status, s_napt_on, s_started>>
-----------------------------------------------------------------------------
(* The event task: the handlers up to publish_rules().                     *)

Takes(type) == event = NoEvent /\ queue # <<>> /\ Head(queue).type = type /\ queue' = Tail(queue)

on_sta_port_started ==
  /\ Takes("started")
  /\ s_state' = "CONNECTING"
  /\ Connects
  /\ UNCHANGED <<rules, call, event, timer, bridge, s_net, s_backoff_s, s_auth_fails, s_napt_on,
                 s_started>>

on_sta_connected ==
  /\ Takes("connected")
  /\ s_auth_fails' = 0
  /\ UNCHANGED <<rules, call, event, timer, link, bridge, s_state, s_net, s_backoff_s, s_napt_on,
                 s_started>>

\* napt_ensure(): succeeds when the bridge's interface is up, and is for good.
napt_ensure == s_napt_on' = (s_napt_on \/ bridge)

\* Mutant: only an address turns translation on.
on_bridge_up_idle ==
  /\ Takes("bridge_up")
  /\ UNCHANGED <<rules, call, event, timer, link, bridge, status, s_napt_on, s_started>>

on_bridge_up ==
  /\ Takes("bridge_up")
  /\ napt_ensure
  /\ UNCHANGED <<rules, call, event, timer, link, bridge, status, s_started>>

\* Mutant: "is the address inside the bridge's own network".
Overlaps_inside(net) == net.ip \cap LAN_MASK = LAN_IP \cap LAN_MASK

\* The two networks agree in every bit that both masks cover.
Overlaps(net) ==
  LET common == net.mask \cap LAN_MASK IN net.ip \cap common = LAN_IP \cap common

on_got_ip ==
  LET net == Head(queue).net
  IN  /\ Takes("got_ip")
      /\ event' = [type |-> IF Overlaps(net) THEN "conflict" ELSE "up"]
      /\ \/ /\ Overlaps(net)
            /\ s_state' = "SUBNET_CONFLICT" /\ s_net' = NoNet
            /\ Calls("event", FALSE, NoHost)
            /\ UNCHANGED s_backoff_s
         \/ /\ ~Overlaps(net)
            /\ s_state' = "UP" /\ s_net' = net
            /\ s_backoff_s' = BACKOFF_MIN_S
            /\ \E dns \in Hosts \cup {NoHost} : Calls("event", TRUE, dns)
      /\ UNCHANGED <<rules, timer, link, bridge, s_auth_fails, s_napt_on, s_started>>

on_lost_ip ==
  /\ Takes("lost_ip")
  /\ event' = [type |-> "lost_ip"]
  /\ s_state' = IF s_state = "UP" THEN "DOWN" ELSE s_state
  /\ s_net' = NoNet
  /\ Calls("event", FALSE, NoHost)
  /\ UNCHANGED <<rules, timer, link, bridge, s_backoff_s, s_auth_fails, s_napt_on, s_started>>

on_sta_disconnected ==
  /\ Takes("disconnected")
  /\ event' = Head(queue)
  /\ s_net' = NoNet
  /\ Calls("event", FALSE, NoHost)
  /\ UNCHANGED <<rules, timer, link, bridge, s_state, s_backoff_s, s_auth_fails, s_napt_on,
                 s_started>>
-----------------------------------------------------------------------------
(* The event task: publish_rules(), and the handlers from its end on.       *)

Publishing ==
  /\ GetsList("event", wan_cfg) \/ TakesMutex("event")
  /\ UNCHANGED <<world, event, timer, status, s_napt_on, s_started>>

Returns(type) == event.type = type /\ event' = NoEvent /\ Activates("event")

schedule_retry(seconds) == timer' = seconds
clock_time_wan_down == s_started' = FALSE

\* The NTP client is started unless it runs, which may fail.
clock_time_wan_up == s_started' \in {s_started, TRUE}

GotIpUp ==
  /\ Returns("up")
  /\ napt_ensure
  /\ clock_time_wan_up
  /\ UNCHANGED <<world, timer, status>>

\* esp_wifi_disconnect() ends the association, if there still is one.
GotIpConflict ==
  /\ Returns("conflict")
  /\ clock_time_wan_down
  /\ link' = "idle"
  /\ \/ link = "idle" /\ UNCHANGED queue
     \/ link # "idle" /\ queue' = Append(queue, [type |-> "disconnected", reason |-> "other"])
  /\ schedule_retry(BACKOFF_REJECTED_S)
  /\ UNCHANGED <<bridge, status, s_napt_on>>

\* Mutant: the clock is left to on_sta_disconnected().
LostIp_clock_on ==
  /\ Returns("lost_ip")
  /\ UNCHANGED <<world, timer, status, s_napt_on, s_started>>

LostIp ==
  /\ Returns("lost_ip")
  /\ clock_time_wan_down
  /\ UNCHANGED <<world, timer, status, s_napt_on>>

Rejected(reason) ==
  reason = "auth" /\ (s_auth_fails + 1) % AuthWrap >= AUTH_FAILS_BEFORE_SLOW

Doubled == IF 2 * s_backoff_s > BACKOFF_MAX_S THEN BACKOFF_MAX_S ELSE 2 * s_backoff_s

StateAfter(reason) ==
  CASE Rejected(reason) -> "AUTH_FAILED"
    [] reason = "auth" /\ ~Rejected(reason) -> "CONNECTING"
    [] reason = "no_ap" -> "NO_AP"
    [] OTHER -> IF s_state = "CONNECTING" THEN s_state ELSE "DOWN"

Backoff(reason) ==
  /\ s_state' = StateAfter(reason)
  /\ s_auth_fails' = IF reason = "auth" THEN (s_auth_fails + 1) % AuthWrap ELSE s_auth_fails
  /\ s_backoff_s' = IF Rejected(reason) THEN s_backoff_s ELSE Doubled
  /\ schedule_retry(IF Rejected(reason) THEN BACKOFF_REJECTED_S ELSE s_backoff_s)

\* Mutant: a conflict is retried like anything else.
ConflictStays_never == FALSE

\* A conflict has scheduled its own retry.
ConflictStays == s_state = "SUBNET_CONFLICT"

\* Mutant: a rejected password is not tried again.
Disconnected_gives_up ==
  /\ Returns("disconnected")
  /\ clock_time_wan_down
  /\ IF ConflictStays \/ Rejected(event.reason)
       THEN UNCHANGED <<s_state, s_backoff_s, s_auth_fails, timer>> ELSE Backoff(event.reason)
  /\ UNCHANGED <<world, s_net, s_napt_on>>

Disconnected ==
  /\ Returns("disconnected")
  /\ clock_time_wan_down
  /\ IF ConflictStays
       THEN UNCHANGED <<s_state, s_backoff_s, s_auth_fails, timer>> ELSE Backoff(event.reason)
  /\ UNCHANGED <<world, s_net, s_napt_on>>
-----------------------------------------------------------------------------
EventTask ==
  \/ on_sta_port_started \/ on_sta_connected \/ on_bridge_up \/ on_got_ip \/ on_lost_ip
  \/ on_sta_disconnected \/ GotIpUp \/ GotIpConflict \/ LostIp \/ Disconnected
  \/ Publishing

AttemptEnds == link = "trying" /\ (Joins \/ \E reason \in Reasons : Drops(reason))

Next ==
  \/ EventTask
  \/ Joins \/ LosesAddress \/ BridgeComesUp \/ BridgeGoesDown \/ TimerFires
  \/ \E reason \in Reasons : Drops(reason)
  \/ \E net \in Nets : GetsAddress(net)

\* Tasks are scheduled, the timer fires, and the driver ends every attempt.
Spec ==
  /\ Init /\ [][Next]_vars
  /\ WF_vars(EventTask) /\ WF_vars(TimerFires) /\ WF_vars(AttemptEnds)
-----------------------------------------------------------------------------
\* The types of the variables.  The driver posts no more than MaxQueue events;
\* a conflict's own disconnection may be one more.
Events ==
       [type: {"started", "connected", "bridge_up", "lost_ip"}]
  \cup [type: {"disconnected"}, reason: Reasons \cup {"other"}]
  \cup [type: {"got_ip"}, net: Nets]
TypeOK ==
  /\ PubTypeOK
  /\ link \in {"idle", "trying", "joined", "addressed"}
  /\ queue \in Seq(Events)
  /\ Len(queue) <= IF event = NoEvent THEN MaxQueue + 1 ELSE MaxQueue
  /\ event \in [type: {"none", "up", "conflict", "lost_ip"}] \cup Events
  /\ s_state \in States /\ s_net \in Nets \cup {NoNet}
  /\ timer \in 0 .. BACKOFF_MAX_S \cup {BACKOFF_REJECTED_S}
  /\ s_backoff_s \in BACKOFF_MIN_S .. BACKOFF_MAX_S
  /\ s_auth_fails \in 0 .. AuthWrap - 1
  /\ {bridge, s_napt_on, s_started} \subseteq BOOLEAN

\* Between two events, whichever way the last address came and went: the filter is
\* open exactly while the state shown is UP, the NTP client runs only then (its
\* requests would be refused and counted against the port list), and no address
\* of the upstream network is one of the bridge's own ("Overlap is tested as a
\* mask intersection").
InNet(a, ip, mask) == a \cap mask = ip \cap mask
UpIsUsable ==
  event = NoEvent =>
    /\ s_rules[s_active].up <=> s_state = "UP"
    /\ s_started => s_state = "UP"
    /\ s_state = "UP" =>
         \A a \in SUBSET Bits : ~(InNet(a, s_net.ip, s_net.mask) /\ InNet(a, LAN_IP, LAN_MASK))

\* Whichever comes first, the uplink's address or the bridge's interface, and
\* however often either goes away: once the event of a bridge that is up has been
\* handled, translation is on.
BridgePending == \E i \in DOMAIN queue : queue[i].type = "bridge_up"
NaptFollowsBridge == bridge /\ ~BridgePending => s_napt_on

\* The disconnection that a conflict brings about itself, or any other event while
\* it is being reported, does not shorten the wait: no "fast reconnect loop that
\* reproduces it every few seconds".
ConflictWaits ==
  [][s_state = "SUBNET_CONFLICT" => timer' \in {timer, 0, BACKOFF_REJECTED_S}]_vars

\* "Still retried, never given up on": as long as no network overlaps, the
\* station is connected or trying again and again.
RetriesGoOn == [](s_state # "SUBNET_CONFLICT") => []<>(link # "idle")
-----------------------------------------------------------------------------
\* "State shows as subnet_conflict and the device retries every 5 minutes in
\* case it is fixed."
ConflictRetried == []<>(s_state = "SUBNET_CONFLICT" => link # "idle")
=============================================================================
