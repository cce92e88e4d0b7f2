------------------------------- MODULE MCWan --------------------------------
(* Instances of Wan for TLC.                                               *)
EXTENDS Wan

\* Addresses of four bits, 1 the first; the bridge's own network is 01xx.  Upstream is
\* another network, part of the bridge's own, or one that contains it.
Elsewhere == [ip |-> {1, 3}, mask |-> {1, 2}]
Within == [ip |-> {2, 3}, mask |-> {1, 2, 3}]
Around == [ip |-> {4}, mask |-> {1}]

AllNets == {Elsewhere, Within, Around}
NoList == {}
=============================================================================
