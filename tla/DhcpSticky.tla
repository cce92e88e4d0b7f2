----------------------------- MODULE DhcpSticky -----------------------------
(***************************************************************************)
(* The DHCP server among clients that keep to themselves: none declines,   *)
(* turns to another server, assigns itself an address or changes port.     *)
(* Each asks for no address in particular or for the one it was told last, *)
(* whatever the bridge still knows of that.  The bridge may lose power at  *)
(* any moment, writes may fail, replies get lost, clients come and go.     *)
(***************************************************************************)
EXTENDS DhcpServer

CONSTANTS
  Cabled,       \* the clients on the cable
  Elsewhere     \* what a client may remember from before its first request

ASSUME ClientAssumption == Elsewhere \subseteq Addr

VARIABLE remembers    \* the address each client was told last, 0 for none

stickyVars == <<s_leases, s_declined, s_boot_seq, s_dirty, flash, out, remembers>>

\* The range that serves m first.
Home(m) == IF m \in Cabled /\ Wired # {} THEN Wired ELSE Pool

\* What the reply tells m, unless it is lost.
Hears(m) ==
  \/ UNCHANGED remembers
  \/ out'.type \in {"OFFER", "ACK"} /\ remembers' = [remembers EXCEPT ![m] = out'.ip]

Asks(m, requested) ==
  /\ Discover(m, requested, m \in Cabled) \/ Request(m, requested, m \in Cabled)
  /\ Hears(m)

Unasked ==
  /\ \/ \E m \in MACs : Release(m) \/ LeaseExpires(m)
     \/ DebounceExpires \/ SaveOk \/ SaveFails \/ Reboot
  /\ UNCHANGED remembers

QuietInit == Init /\ remembers \in [MACs -> Elsewhere]

QuietNext == Unasked \/ \E m \in MACs : \E requested \in {0, remembers[m]} : Asks(m, requested)

\* The task loop runs for ever with a one second receive timeout, so a
\* debounce that has started runs out and the write is attempted; flash
\* does not refuse every attempt.
QuietSpec == /\ QuietInit /\ [][QuietNext]_stickyVars
             /\ WF_vars(DebounceExpires) /\ SF_vars(SaveOk)
-----------------------------------------------------------------------------
\* The address flash holds for m, unless m has missed too many boots for it.
Reserved(m) ==
  IF \/ flash.version = 0
     \/ flash.version >= 3 /\ Age(StoredSeq(flash, m), s_boot_seq) > FORGET_AFTER_BOOTS
    THEN 0
    ELSE flash.table[m].ip

\* Reservations are sticky: with an address for everybody, across lost
\* replies, lapsed leases, failed writes and restarts, the address that flash
\* holds for one client goes to another only if that one was told it before
\* and asks for it by name, and a client is kept from its stored address only
\* by somebody who did (steps 1 and 2 of select_address_locked() against the
\* scan of step 3, the clash rule of commit_lease_locked(), the reload).
Sticky ==
  [][out'.type \in {"OFFER", "ACK"} =>
       LET n == out'.mac
       IN  /\ \A m \in MACs \ {n} : Reserved(m) = out'.ip => remembers[n] = out'.ip
           /\ \/ Reserved(n) \in {0, out'.ip}
              \/ \E x \in MACs \ {n} : /\ s_leases[x].in_use
                                       /\ s_leases[x].ip = Reserved(n)
                                       /\ remembers[x] = Reserved(n)]_stickyVars

\* src/README.md on a reserved mapping: "It is still that client's address when
\* it returns, and it is only given to someone else if the range runs out".
\* Step 2 of select_address_locked() gives it to whoever asks for it by name
\* while its client's lease is not live.
ReservedReturns ==
  [][out'.type \in {"OFFER", "ACK"} => Reserved(out'.mac) \in {0, out'.ip}]_stickyVars

\* A client that was told "this is your address" is found in flash with it
\* sooner or later, unless its entry moves on or the power goes first: the
\* debounce runs out and a failed write is tried again.
AckReachesFlash ==
  \A m \in MACs, a \in Pool \cup Wired :
    (out.type = "ACK" /\ out.mac = m /\ out.ip = a)
      ~> (flash.table[m].ip = a \/ s_leases[m].ip # a)
=============================================================================
