----------------------------- MODULE MCSettings -----------------------------
(* Instances of Settings for TLC.                                          *)
EXTENDS Settings

Caster == {[port |-> "2101", proto |-> "tcp"]}
Second == {[port |-> "2102", proto |-> "udp"], [port |-> "53", proto |-> "udp"]}

SomeNames ==
  {"", "bad", "0", "1", "6", "AOG hub", "password", "admin", "wt32-bridge", "UTC0", "CET",
   "boss", "you", "mine", "new", "own", "farm", "wpa", "A", "C"}

\* Out of the box; and set up, with an uplink.
SetUp == [Factory EXCEPT !.auth = [user |-> "boss", password |-> "mine"],
                         !.wan = [enabled |-> "1", ssid |-> "farm", password |-> "wpa", ports |-> Second]]
Both == {Factory, SetUp}

\* One change of every kind: of what is stored, to what is refused, to the empty
\* value, and for the uplink of either half.
SomeInputs ==
  [web |-> [wifi |-> {[ssid |-> "A"]},
            auth |-> {[password |-> "new"], [user |-> "you", password |-> ""]},
            syslog |-> {[enabled |-> "1", ip |-> "C", host |-> ""]},
            wan |-> {[ports |-> Caster], [enabled |-> "1", ssid |-> "farm", password |-> ""]},
            clock |-> {[tz |-> ""]}],
   console |-> [wifi |-> {[channel |-> "6", password |-> ""]},
                auth |-> {[password |-> "admin"], [password |-> "own"]},
                syslog |-> {[host |-> "bad"], [enabled |-> "0"]},
                wan |-> {[enabled |-> "0"], [ports |-> {}]},
                clock |-> {[tz |-> "CET"]}]]
=============================================================================
