------------------------------ MODULE MCSyslog ------------------------------
(* Instances of Syslog for TLC.                                            *)
EXTENDS Syslog

\* An application task logs errors in whole lines.
Errors == [app |-> {[letter |-> "E", text |-> TRUE, newline |-> "last"]}]

On(ip, severity) == [enabled |-> TRUE, server_ip |-> ip, min_severity |-> severity]
Off == [enabled |-> FALSE, server_ip |-> 1, min_severity |-> 4]
\* Switched on without a collector, as a save that was cut short leaves it.  The
\* sender's own lines about that are sent later, those about what goes well are
\* held back.
OnOff == {On(1, 4), On(0, 4), Off}
=============================================================================
