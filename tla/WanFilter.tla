----------------------------- MODULE WanFilter ------------------------------
(***************************************************************************)
(* The packet filter on the uplink (src/main/wan.c): which frames may leave *)
(* through it and which may come in, given the published rules.            *)
(*                                                                         *)
(* A frame says how much of it the filter can read ("nothing", the         *)
(* Ethernet header only, an IP header, or the ports behind it too), and    *)
(* what stands there.  A port is one of the numbers the filter tells       *)
(* apart: the well-known ones, "nat" for those that translation hands out, *)
(* "high" for the other unprivileged ones.                                 *)
(***************************************************************************)
EXTENDS Naturals

CONSTANTS
  Hosts,        \* addresses upstream
  NoHost,       \* stands for 0.0.0.0
  Listable      \* ports that may be on the list

Protos == {"udp", "tcp"}
Ports == Listable \cup {"53", "67", "68", "80", "123", "nat", "high"}
PortRules == [port: Listable, proto: Protos]

ASSUME FilterAssumption == NoHost \notin Hosts

\* wan_rules_t.
Rules == [ports: SUBSET PortRules, dns_ip: Hosts \cup {NoHost}, up: BOOLEAN]
NoRules == [ports |-> {}, dns_ip |-> NoHost, up |-> FALSE]

\* A frame as frame_window() leaves it; host is its far end.
Frame(seen, type, plain, proto, icmp, sport, dport, host) ==
  [seen |-> seen, type |-> type, plain |-> plain, proto |-> proto, icmp |-> icmp,
   sport |-> sport, dport |-> dport, host |-> host]
-----------------------------------------------------------------------------
\* l4_ports(), icmp_type(): there is something to read behind the IP header.
l4_ports(f) == f.plain /\ f.seen = "ports"

\* An IPv4 frame whose header is in view and has no options.
PlainIp(f) == f.type = "ip" /\ f.seen \in {"ip", "ports"} /\ f.plain

\* egress_allowed(): by destination, which translation leaves alone.
egress_allowed(f, r) ==
  \/ f.type = "arp"
  \/ /\ PlainIp(f)
     /\ f.proto = "udp" /\ l4_ports(f) /\ f.sport = "68" /\ f.dport = "67"
  \/ /\ PlainIp(f) /\ r.up /\ l4_ports(f)
     /\ \/ f.proto = "icmp" /\ f.icmp = "echo"
        \/ f.proto \in Protos /\ f.dport = "53" /\ r.dns_ip # NoHost /\ f.host = r.dns_ip
        \/ f.proto = "udp" /\ f.dport = "123"
        \/ \E rule \in r.ports : rule.port = f.dport /\ rule.proto = f.proto

\* Mutant: only the window of translated ports is open.
ingress_allowed_window(f, r) ==
  \/ f.type = "arp"
  \/ /\ PlainIp(f) /\ l4_ports(f)
     /\ \/ f.proto = "icmp" /\ f.icmp \in {"reply", "unreachable", "exceeded"}
        \/ f.proto \in Protos /\ f.dport \in {"68", "nat"}

\* Mutant: an answer from the resolver or a time server may be TCP.
ingress_allowed_tcp(f, r) ==
  \/ f.type = "arp"
  \/ /\ PlainIp(f) /\ l4_ports(f)
     /\ \/ f.proto = "icmp" /\ f.icmp \in {"reply", "unreachable", "exceeded"}
        \/ f.proto \in Protos /\ f.dport \in {"68", "nat"}
        \/ f.proto \in Protos /\ f.sport = "53" /\ r.dns_ip # NoHost /\ f.host = r.dns_ip
        \/ f.proto \in Protos /\ f.sport = "123"

\* ingress_allowed(): answers to what was let out, and nothing unasked.
ingress_allowed(f, r) ==
  \/ f.type = "arp"
  \/ /\ PlainIp(f) /\ l4_ports(f)
     /\ \/ f.proto = "icmp" /\ f.icmp \in {"reply", "unreachable", "exceeded"}
        \/ f.proto \in Protos /\ f.dport \in {"68", "nat"}
        \/ f.proto = "udp" /\ f.sport = "53" /\ r.dns_ip # NoHost /\ f.host = r.dns_ip
        \/ f.proto = "udp" /\ f.sport = "123"

\* sta_output_wrapper(), sta_input_wrapper(): what cannot be read is let through.
Leaves(f, r) == f.seen = "nothing" \/ egress_allowed(f, r)
Enters(f, r) == f.seen = "nothing" \/ ingress_allowed(f, r)
-----------------------------------------------------------------------------
\* What a LAN client's or this device's request looks like when it reaches the
\* filter, and its answer.  Translation gives a client's one a "nat" port; lwIP
\* asks only the resolver it was given, from a port it draws from all unprivileged
\* ones, polls for the time from a port at the bottom of the "nat" ones, and runs
\* its DHCP client on 68.
Translated(proto, dport, host) == Frame("ports", "ip", TRUE, proto, "none", "nat", dport, host)
Question(sport, host) == Frame("ports", "ip", TRUE, "udp", "none", sport, "53", host)
Requests(r) ==
       {Translated(proto, dport, host) : proto \in Protos, dport \in Ports, host \in Hosts}
  \cup {Question(sport, host) : sport \in {"nat", "high"}, host \in Hosts \cap {r.dns_ip}}
  \cup {Frame("ports", "ip", TRUE, "udp", "none", "68", "67", host) : host \in Hosts}
  \cup {Frame("ports", "ip", TRUE, "icmp", "echo", "none", "none", host) : host \in Hosts}

Answer(f) == [f EXCEPT !.sport = f.dport, !.dport = f.sport,
                       !.icmp = IF @ = "echo" THEN "reply" ELSE @]

\* A connection to the web server, from wherever.
Visits == {Frame(seen, "ip", plain, "tcp", "none", sport, "80", host) :
             seen \in {"eth", "ip", "ports"}, plain \in BOOLEAN, sport \in Ports, host \in Hosts}
=============================================================================
