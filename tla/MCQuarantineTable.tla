-------------------------- MODULE MCQuarantineTable -------------------------
(* Two vendors' first words and two serial numbers: four clients, of which *)
(* any torn pair of words is again a client of the bridge.                 *)
EXTENDS QuarantineTable

\* DHCP in several pieces, torn at the ports, and on its way to a client; other
\* traffic, too short to tell what it is, and multicast.
SomeFrames ==
  {[dir |-> "in", kind |-> "dhcp", first |-> 1, tot |-> 3],
   [dir |-> "in", kind |-> "dhcp", first |-> 2, tot |-> 3],
   [dir |-> "in", kind |-> "ip", first |-> 3, tot |-> 3],
   [dir |-> "out", kind |-> "dhcp", first |-> 1, tot |-> 3],
   [dir |-> "out", kind |-> "other", first |-> 0, tot |-> 1],
   [dir |-> "out", kind |-> "group", first |-> 3, tot |-> 3]}
=============================================================================
