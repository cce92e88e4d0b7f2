---------------------------- MODULE AddressGrants ---------------------------
(* What the DHCP server promises its clients, in the abstract: an address  *)
(* is granted only while nobody else holds it, and a grant ends only with  *)
(* its holder (it leaves, its lease runs out, it is cut off, or the bridge *)
(* restarts and everyone starts again), never in favour of somebody else.  *)

CONSTANTS Clients, Addresses

VARIABLE holds    \* what each client holds, 0 for nothing

Init == holds = [c \in Clients |-> 0]

Grant(c, a) ==
  /\ \A d \in Clients \ {c} : holds[d] # a
  /\ holds' = [holds EXCEPT ![c] = a]

\* Some clients stop holding what they held.
End ==
  /\ holds' \in [Clients -> Addresses \cup {0}]
  /\ \A c \in Clients : holds'[c] \in {0, holds[c]}

Next ==
  \/ End
  \/ \E c \in Clients, a \in Addresses : Grant(c, a)

Spec == Init /\ [][Next]_holds
=============================================================================
