----------------------------- MODULE Quarantine -----------------------------
(***************************************************************************)
(* The bridge's duplicate-address quarantine (src/main/client_track.c):    *)
(* who is known to be on which address, since when, the conflict records   *)
(* with their hysteresis, and the two places the outcome goes to, the      *)
(* forwarding path and the DHCP server.                                    *)
(*                                                                         *)
(* Three tasks meet here: traffic_account_task (Traffic, Frame), the       *)
(* once-a-second client_track_task (the Tick actions, which release the    *)
(* lock between them) and the serial console (Pardon, WithdrawPardons,     *)
(* Enforce).  The DHCP server's lease table is external: claim is what     *)
(* lease_effective_ip() makes of it.                                       *)
(*                                                                         *)
(* Time is abstract.  "recent" says that last_seen_us is younger than      *)
(* Q_LIVENESS_US; ip_since_us is kept as the order of arrival.             *)
(***************************************************************************)
EXTENDS Naturals, FiniteSets, SequencesExt

CONSTANTS
  MACs,                      \* numbers, compared as memcmp() does
  Addrs,                     \* addresses two clients may meet on
  CLIENT_TRACK_MAX_CLIENTS, QUARANTINE_MAX,
  Q_ARM_TICKS, Q_DISARM_TICKS, Q_FORGET_TICKS,
  Stations,                  \* clients that may be associated over WiFi
  Remembered,                \* addresses the lease table or ARP cache may know
  Pardonable,                \* clients the operator may pardon
  Switches                   \* settings of the kill switch that are used

ASSUME QuarantineAssumption ==
  /\ MACs \subseteq Nat /\ IsFiniteSet(MACs)
  /\ Addrs \subseteq Nat \ {0} /\ IsFiniteSet(Addrs)
  /\ {CLIENT_TRACK_MAX_CLIENTS, QUARANTINE_MAX} \subseteq Nat
  /\ {Q_ARM_TICKS, Q_DISARM_TICKS, Q_FORGET_TICKS} \subseteq Nat \ {0}
  /\ Q_DISARM_TICKS <= Q_FORGET_TICKS
  /\ Stations \subseteq MACs /\ Remembered \subseteq Addrs \cup {0}
  /\ Pardonable \subseteq MACs
  /\ Switches \subseteq BOOLEAN

\* A record is about two clients and one address.
Pairs == {p \in SUBSET MACs : Cardinality(p) = 2}
Keys == Addrs \X Pairs

NoRecord == [used |-> FALSE, mac |-> 0, confirm |-> 0, miss |-> 0, armed |-> FALSE]
NoClient == [active |-> FALSE, ip |-> 0, recent |-> FALSE]

VARIABLES
  claim,        \* the address the lease table puts each client on, or 0
  s_clients,    \* client table, [active, ip, recent]
  arrivals,     \* clients with ip_since_us # 0, the earliest first
  s_conflicts,  \* [Keys -> record]; mac is the one being cut off
  s_q_exempt, s_q_enforce,
  published,    \* what quarantine_publish() last handed to forwarding
  pushed,       \* what dhcp_server_set_quarantined() was last told
  tick          \* client_track_task: where it is and what it carries along

vars == <<claim, s_clients, arrivals, s_conflicts, s_q_exempt, s_q_enforce,
          published, pushed, tick>>
operator == <<s_q_exempt, s_q_enforce>>
records == <<s_conflicts, published>>

Idle == [pc |-> "idle", leases |-> [m \in MACs |-> 0], macs |-> {}]

Init ==
  /\ claim = [m \in MACs |-> 0]
  /\ s_clients = [m \in MACs |-> NoClient]
  /\ arrivals = <<>>
  /\ s_conflicts = [k \in Keys |-> NoRecord]
  /\ s_q_exempt = {}
  /\ s_q_enforce = TRUE
  /\ published = {} /\ pushed = {}
  /\ tick = Idle
-----------------------------------------------------------------------------
(* The client table.                                                       *)

Active == {m \in MACs : s_clients[m].active}

\* find_or_create_locked() finds or makes an entry.
Trackable(m) == m \in Active \/ Cardinality(Active) < CLIENT_TRACK_MAX_CLIENTS

\* account_traffic(): ip_since_us is set once per address.
Arrived(m, ip) ==
  IF s_clients[m].ip = ip /\ Contains(arrivals, m)
    THEN arrivals
    ELSE Append(Remove(arrivals, m), m)

\* A frame from m with source address ip.  The DHCP server is told when the
\* address is new to the client table.
Traffic(m, ip) ==
  /\ Trackable(m)
  /\ s_clients' = [s_clients EXCEPT ![m] = [active |-> TRUE, ip |-> ip, recent |-> TRUE]]
  /\ arrivals' = Arrived(m, ip)
  /\ claim' = IF s_clients[m].ip = ip THEN claim ELSE [claim EXCEPT ![m] = ip]
  /\ UNCHANGED <<operator, records, pushed, tick>>

\* A frame that tells no address, from m or on its way to m: both refresh
\* last_seen_us.
Frame(m) ==
  /\ Trackable(m)
  /\ s_clients' = [s_clients EXCEPT ![m].active = TRUE, ![m].recent = TRUE]
  /\ UNCHANGED <<claim, arrivals, operator, records, pushed, tick>>

\* Q_LIVENESS_US pass without a frame from or to m.
FallsSilent(m) ==
  /\ s_clients[m].recent
  /\ s_clients' = [s_clients EXCEPT ![m].recent = FALSE]
  /\ UNCHANGED <<claim, arrivals, operator, records, pushed, tick>>

\* The lease table changes: m's lease lapses or is reclaimed (ip is 0), or it
\* is leased ip, which counts unless it was seen on another address.  The
\* assignment fills in an address the client table does not have.
LeaseChanges(m, ip) ==
  /\ claim[m] # ip
  /\ claim' \in {claim, [claim EXCEPT ![m] = ip]}
  /\ s_clients' = IF ip # 0 /\ Trackable(m) /\ s_clients[m].ip = 0
                    THEN [s_clients EXCEPT ![m] = [active |-> TRUE, ip |-> ip,
                            recent |-> s_clients[m].recent \/ ~s_clients[m].active]]
                    ELSE s_clients
  /\ UNCHANGED <<arrivals, operator, records, pushed, tick>>
-----------------------------------------------------------------------------
(* client_track_tick().                                                    *)

\* The arrivals of the clients whose entries stay.
StillHere(gone) == SelectSeq(arrivals, LAMBDA m : m \notin gone)

\* Silent clients age out, those with no address get the one the lease table
\* or the ARP cache knows, every associated station has an entry; then
\* quarantine_rebuild() asks for the leases, before it takes the lock.
TickSurveys(gone, known, stations) ==
  /\ tick.pc = "idle"
  /\ gone \subseteq {m \in Active : ~s_clients[m].recent}
  /\ s_clients' = [m \in MACs |->
       CASE m \in stations \ (Active \ gone) ->
              [active |-> TRUE, ip |-> 0, recent |-> TRUE]
         [] m \in gone \ stations -> NoClient
         [] m \in Active \ gone /\ s_clients[m].ip = 0 ->
              [s_clients[m] EXCEPT !.ip = known[m]]
         [] OTHER -> s_clients[m]]
  /\ Cardinality({m \in MACs : s_clients'[m].active}) <= CLIENT_TRACK_MAX_CLIENTS
  /\ arrivals' = StillHere(gone)
  /\ tick' = [tick EXCEPT !.pc = "rebuild", !.leases = claim]
  /\ UNCHANGED <<claim, operator, records, pushed>>

TickBegins ==
  \E gone \in SUBSET MACs, stations \in SUBSET Stations, known \in [MACs -> Remembered] :
    TickSurveys(gone, known, stations)

Colliding(leases) == {k \in Keys : \A m \in k[2] : leases[m] = k[1]}

Since(m) == IF Contains(arrivals, m)
              THEN CHOOSE i \in DOMAIN arrivals : arrivals[i] = m ELSE 0

\* loser_is_b(): never seen there loses; otherwise the later arrival; the
\* higher MAC when nothing tells them apart.
Loses(m, n) ==
  IF Since(m) # Since(n)
    THEN Since(m) = 0 \/ (Since(n) # 0 /\ Since(m) > Since(n))
    ELSE m > n

Loser(pair) == CHOOSE m \in pair : \A n \in pair \ {m} : Loses(m, n)

both_confirmed(k) ==
  \A m \in k[2] : /\ s_clients[m].active /\ s_clients[m].recent
                  /\ s_clients[m].ip = k[1] /\ Since(m) # 0

\* Mutant: who loses is decided again on every tick.
Settle_again(c, k) == Loser(k[2])

\* Who loses is settled once and left alone while the quarantine holds.
Settle(c, k) == IF c.armed THEN c.mac ELSE Loser(k[2])

\* A record whose two clients are on the address in this tick's leases.
Confirmed(c, k) ==
  LET mac == Settle(c, k)
      confirm == IF c.confirm < Q_ARM_TICKS THEN c.confirm + 1 ELSE c.confirm
  IN  [used |-> TRUE, mac |-> mac, confirm |-> confirm, miss |-> 0,
       armed |-> \/ c.armed
                 \/ /\ confirm >= Q_ARM_TICKS
                    /\ both_confirmed(k)
                    /\ mac \notin s_q_exempt]

\* Mutant: an armed record is never let go.
Missed_kept(c) ==
  LET miss == IF c.armed THEN c.miss ELSE c.miss + 1
  IN  IF miss >= Q_FORGET_TICKS
        THEN NoRecord
        ELSE [c EXCEPT !.confirm = 0, !.miss = miss]

\* One whose clients are not, any more.
Missed(c) ==
  LET miss == c.miss + 1
  IN  IF miss >= Q_FORGET_TICKS
        THEN NoRecord
        ELSE [c EXCEPT !.confirm = 0, !.miss = miss,
                       !.armed = c.armed /\ miss < Q_DISARM_TICKS]

Used == {k \in Keys : s_conflicts[k].used}

\* The records made for new collisions, as far as there is room.
Fresh(leases) ==
  LET new == Colliding(leases) \ Used
      room == QUARANTINE_MAX - Cardinality(Used)
  IN  {S \in SUBSET new :
         Cardinality(S) = IF Cardinality(new) < room THEN Cardinality(new) ELSE room}

Armed(conflicts) == {conflicts[k].mac : k \in {j \in Keys : conflicts[j].armed}}

Enforced(conflicts, on) == IF on THEN Armed(conflicts) ELSE {}

\* The critical section of quarantine_rebuild(), quarantine_publish() included.
TickRebuilds ==
  /\ tick.pc = "rebuild"
  /\ \E fresh \in Fresh(tick.leases) :
       s_conflicts' = [k \in Keys |->
         CASE k \in fresh \cup (Used \cap Colliding(tick.leases)) -> Confirmed(s_conflicts[k], k)
           [] k \in Used \ Colliding(tick.leases) -> Missed(s_conflicts[k])
           [] OTHER -> s_conflicts[k]]
  /\ published' = Enforced(s_conflicts', s_q_enforce)
  /\ tick' = [Idle EXCEPT !.pc = "push", !.macs = published']
  /\ UNCHANGED <<claim, s_clients, arrivals, operator, pushed>>

\* Mutant: the server is told only while somebody is cut off.
TickPushes_filled ==
  /\ tick.pc = "push"
  /\ pushed' = IF tick.macs = {} THEN pushed ELSE tick.macs
  /\ tick' = Idle
  /\ UNCHANGED <<claim, s_clients, arrivals, operator, records>>

\* dhcp_server_set_quarantined(), after the unlock.
TickPushes ==
  /\ tick.pc = "push"
  /\ pushed' = tick.macs
  /\ tick' = Idle
  /\ UNCHANGED <<claim, s_clients, arrivals, operator, records>>
-----------------------------------------------------------------------------
(* The serial console.                                                     *)

\* Mutant: the pardon is noted, the quarantine stays.
Pardon_noted(m) ==
  /\ m \notin s_q_exempt /\ Cardinality(s_q_exempt) < QUARANTINE_MAX
  /\ s_q_exempt' = s_q_exempt \cup {m}
  /\ UNCHANGED <<claim, s_clients, arrivals, s_q_enforce, records, pushed, tick>>

\* client_track_quarantine_clear(mac): lifted at once for forwarding.
Pardon(m) ==
  /\ m \notin s_q_exempt /\ Cardinality(s_q_exempt) < QUARANTINE_MAX
  /\ s_q_exempt' = s_q_exempt \cup {m}
  /\ s_conflicts' = [k \in Keys |-> IF s_conflicts[k].armed /\ s_conflicts[k].mac = m
                                      THEN [s_conflicts[k] EXCEPT !.armed = FALSE]
                                      ELSE s_conflicts[k]]
  /\ published' = Enforced(s_conflicts', s_q_enforce)
  /\ UNCHANGED <<claim, s_clients, arrivals, s_q_enforce, pushed, tick>>

\* client_track_quarantine_clear(NULL).
WithdrawPardons ==
  /\ s_q_exempt # {}
  /\ s_q_exempt' = {}
  /\ UNCHANGED <<claim, s_clients, arrivals, s_q_enforce, records, pushed, tick>>

\* Mutant: switching enforcement on again waits for the next tick.
Enforce_later(on) ==
  /\ s_q_enforce' = on
  /\ published' = IF on THEN published ELSE {}
  /\ UNCHANGED <<claim, s_clients, arrivals, s_q_exempt, s_conflicts, pushed, tick>>

\* client_track_quarantine_enforce(on).
Enforce(on) ==
  /\ s_q_enforce' = on
  /\ published' = Enforced(s_conflicts, on)
  /\ UNCHANGED <<claim, s_clients, arrivals, s_q_exempt, s_conflicts, pushed, tick>>

Next ==
  \/ \E m \in MACs, ip \in Addrs : Traffic(m, ip)
  \/ \E m \in MACs : Frame(m) \/ FallsSilent(m)
  \/ \E m \in MACs, ip \in Addrs \cup {0} : LeaseChanges(m, ip)
  \/ TickBegins \/ TickRebuilds \/ TickPushes
  \/ \E m \in Pardonable : Pardon(m)
  \/ WithdrawPardons
  \/ \E on \in Switches : Enforce(on)

Spec == Init /\ [][Next]_vars

\* client_track_task runs once a second for ever.
FairSpec ==
  /\ Spec
  /\ WF_vars(TickBegins) /\ WF_vars(TickRebuilds) /\ WF_vars(TickPushes)
-----------------------------------------------------------------------------
\* The types of the variables; a record in use names one of its two clients,
\* and there are no more of them than slots.
TypeOK ==
  /\ claim \in [MACs -> Addrs \cup {0}]
  /\ s_clients \in [MACs -> [active: BOOLEAN, ip: Addrs \cup {0}, recent: BOOLEAN]]
  /\ ToSet(arrivals) \subseteq Active
  /\ Cardinality(Active) <= CLIENT_TRACK_MAX_CLIENTS
  /\ \A k \in Used : s_conflicts[k].mac \in k[2]
  /\ Cardinality(Used) <= QUARANTINE_MAX
  /\ published \cup pushed \cup s_q_exempt \subseteq MACs

\* Forwarding drops the frames of exactly the clients the records convict,
\* or of nobody when enforcement is off, whichever of the three publishers
\* came last.
PublishedIsArmed == published = Enforced(s_conflicts, s_q_enforce)

\* A pardoned client is carried from that moment on, whatever a rebuild that
\* was already under way had decided.
PardonHolds == s_q_exempt \cap published = {}

\* "The decision is then kept for as long as the conflict lasts [...] so it
\* cannot oscillate between the two devices."
NoOscillation ==
  [][\A k \in Keys : s_conflicts[k].armed /\ s_conflicts'[k].armed
                       => s_conflicts'[k].mac = s_conflicts[k].mac]_vars

\* A cut-off client that has an address to itself for good is carried again
\* for good.
MovedIsCarried ==
  \A m \in MACs :
    <>[](\A n \in MACs \ {m} : claim[m] = 0 \/ claim[n] # claim[m])
      => <>[](m \notin published)

\* The DHCP server catches up with a pardon, a rebuild's late push included.
PardonReachesServer ==
  \A m \in MACs : (m \in s_q_exempt) ~> (m \notin pushed \/ m \notin s_q_exempt)
-----------------------------------------------------------------------------
\* "Whichever MAC was on the address first keeps it, and the later arrival is
\* cut off": of the clients that are on an address, by the lease table and by
\* their own traffic, one is not cut off for the sake of another of them.
SomebodyCarried ==
  \A a \in Addrs :
    LET on == {m \in MACs : claim[m] = a /\ s_clients[m].ip = a /\ Since(m) # 0}
        cut == {s_conflicts[k].mac :
                  k \in {j \in Keys : s_conflicts[j].armed /\ j[1] = a /\ j[2] \subseteq on}}
    IN  on # {} => ~(on \subseteq cut)
=============================================================================
