------------------------------ MODULE DhcpLan -------------------------------
(***************************************************************************)
(* The DHCP server together with the clients of its LAN, as they are       *)
(* external: what each one believes it has been granted.  Replies may be   *)
(* lost, a client may go away without a word, and its lease runs out for   *)
(* it no later than for the server (the client counts from its request,    *)
(* the server from the later commit, both with the same lease_s).          *)
(*                                                                         *)
(* granted[m] is the address m holds on the word of this boot: a restart   *)
(* of the bridge starts it afresh, and a client that is cut off for a      *)
(* duplicate address holds nothing.  An acknowledgement that found no slot *)
(* in the table is no grant: the server has kept no note of it.            *)
(***************************************************************************)
EXTENDS DhcpServer

VARIABLE granted

lanVars == <<s_leases, s_declined, s_boot_seq, s_dirty, flash, out, granted>>

Nothing == [m \in MACs |-> 0]

LanInit == Init /\ granted = Nothing

Without(S) == [m \in MACs |-> IF m \in S THEN 0 ELSE granted[m]]

\* A client that discovers has given up whatever it held.
ClientDiscovers(m, requested, wired) ==
  /\ Discover(m, requested, wired)
  /\ granted' = Without({m})

\* A reply that came with an entry for its client, which is carried.
Recorded(m) == s_leases'[m].in_use /\ ~s_leases'[m].quarantined

\* It asks for an address it was offered or remembers, or renews the one it
\* holds, and may miss the answer.
ClientRequests(m, requested, wired) ==
  /\ granted[m] \in {0, requested}
  /\ Request(m, requested, wired)
  /\ granted' \in {granted, IF Recorded(m) THEN [granted EXCEPT ![m] = out'.ip]
                            ELSE Without({m})}

\* It takes another server's offer instead.
ClientChoosesOther(m) ==
  /\ granted[m] = 0
  /\ RequestOther(m)
  /\ UNCHANGED granted

ClientDeclines(m, requested) ==
  /\ Decline(m, requested)
  /\ granted' = Without({m})

\* It leases in one of the ranges and was last seen on an address of the other.
Strayed(m) ==
  \E range \in {Pool, Wired} :
    s_leases[m].observed_ip \in range /\ s_leases[m].ip \notin range

\* What a client gives back it has used: one that strayed does not release.
ClientReleases(m) ==
  /\ granted[m] # 0 /\ ~Strayed(m)
  /\ Release(m)
  /\ granted' = Without({m})

\* It is switched off, or its DHCPRELEASE is lost.
ClientLeaves(m) ==
  /\ granted[m] # 0
  /\ granted' = Without({m})
  /\ UNCHANGED vars

LeaseRunsOut(m) ==
  /\ LeaseExpires(m)
  /\ granted' = Without({m})

\* Traffic shows m on an address; on another one, it has left its lease.
TrafficSeen(m, ip) ==
  /\ NoteObserved(m, ip)
  /\ granted' = IF granted[m] = ip THEN granted ELSE Without({m})

\* client_track.c cuts a client off on the evidence of its own traffic,
\* which it has reported through dhcp_server_note_observed_ip().
CutOff(macs) ==
  /\ \A m \in macs : s_leases[m].in_use => seen_this_boot(s_leases[m])
  /\ SetQuarantined(macs)
  /\ granted' = Without(macs)

FlashStep ==
  /\ DebounceExpires \/ SaveOk \/ SaveFails
  /\ UNCHANGED granted

BridgeRestarts ==
  /\ Reboot
  /\ granted' = Nothing

LanNext ==
  \/ \E m \in MACs, requested \in Requested, wired \in Ports :
       ClientDiscovers(m, requested, wired) \/ ClientRequests(m, requested, wired)
  \/ \E m \in MACs : \/ ClientChoosesOther(m) \/ ClientReleases(m)
                     \/ ClientLeaves(m) \/ LeaseRunsOut(m)
  \/ \E m \in MACs, requested \in Requested : ClientDeclines(m, requested)
  \/ \E s \in Sightings : TrafficSeen(s[1], s[2])
  \/ \E macs \in Cuttable : CutOff(macs)
  \/ FlashStep \/ BridgeRestarts

LanSpec == LanInit /\ [][LanNext]_lanVars
-----------------------------------------------------------------------------
\* Every grant is backed by a live entry for that client and that address:
\* nothing the server does for anybody else takes it away (the live-lease
\* test of ip_in_use_locked(), the seen-this-boot test of
\* pick_victim_locked(), the clash rule of commit_lease_locked()).
GrantBacked ==
  \A m \in MACs :
    granted[m] # 0 => /\ s_leases[m].in_use
                      /\ s_leases[m].ip = granted[m]
                      /\ s_leases[m].expires = "live"
                      /\ seen_this_boot(s_leases[m])

\* No two clients hold the same address on the word of this boot.
GrantsUnique ==
  \A m, n \in MACs : m # n /\ granted[m] # 0 => granted[m] # granted[n]

\* A held address is in flash whenever the table counts as saved.
GrantStored ==
  \A m \in MACs : s_dirty = "clean" /\ granted[m] # 0 => flash.table[m].ip = granted[m]

\* The server implements the promise stated in AddressGrants: an address
\* goes to one client at a time.
Promise == INSTANCE AddressGrants WITH Clients <- MACs, Addresses <- Subnet, holds <- granted

\* Every step of the server and its clients is a step of that promise.
KeepsPromise == Promise!Spec
=============================================================================
