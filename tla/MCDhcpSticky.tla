----------------------------- MODULE MCDhcpSticky ---------------------------
(* Instances of DhcpSticky for TLC. *)
EXTENDS DhcpSticky

CONSTANTS a, b   \* clients

None == {}
Fresh == {NoBlob}
=============================================================================
