----------------------------- MODULE DhcpServer -----------------------------
(***************************************************************************)
(* The bridge's DHCP server (src/main/dhcp_server.c): the lease table, the *)
(* four-step address selection, the reclaiming of stale reservations, and  *)
(* the copy of the table kept in flash across reboots.                     *)
(*                                                                         *)
(* The table is a function from MAC to entry: the code's array has at most *)
(* one entry in use per MAC (every slot is taken after a failed lookup by  *)
(* MAC), and array order only breaks ties between equally stale victims,   *)
(* which the model leaves open.  At most MAX_LEASES entries are in use.    *)
(*                                                                         *)
(* Time is abstract.  expires_us is kept as "zero" (never claimed this     *)
(* boot), "live" or "lapsed"; a live lease may lapse at any moment.  The   *)
(* debounce of the flash write is "clean" -> "waiting" -> "due".           *)
(***************************************************************************)
EXTENDS Naturals, FiniteSets

CONSTANTS
  MACs,                  \* the clients
  Subnet,                \* host addresses on the bridge's subnet
  s_server_ip,           \* the bridge's own address
  pool_start, pool_end,  \* the range served over WiFi
  wired_start, wired_end,\* the range served over the cable, 0/0 for none
  MAX_LEASES,            \* DHCP_SERVER_MAX_LEASES
  MAX_DECLINED,
  FORGET_AFTER_BOOTS,
  InitialFlash,          \* blobs the first boot may find
  Ports,                 \* values of "asked over the cable" that occur
  Requested,             \* addresses clients ask for by name, 0 for none
  Sightings,             \* <<MAC, address>> pairs that traffic may show
  Cuttable,              \* sets of clients that may be cut off together
  MaxBootSeq             \* bound: boots stop when flash reaches this generation

ASSUME SubnetAssumption ==
  /\ Subnet \subseteq Nat \ {0}
  /\ IsFiniteSet(Subnet)
  /\ \A x, y \in Subnet : x .. y \subseteq Subnet
  /\ s_server_ip \in Subnet

ASSUME RangeAssumption ==
  /\ pool_start \in Nat \ {0} /\ pool_end \in Nat /\ pool_start <= pool_end
  /\ pool_start .. pool_end \subseteq Subnet \ {s_server_ip}
  /\ wired_start \in Nat /\ wired_end \in Nat

ASSUME BoundAssumption ==
  /\ IsFiniteSet(MACs)
  /\ MAX_LEASES \in Nat /\ MAX_DECLINED \in Nat
  /\ FORGET_AFTER_BOOTS \in Nat /\ MaxBootSeq \in Nat

ASSUME InputAssumption ==
  /\ Ports \subseteq BOOLEAN
  /\ Requested \subseteq Subnet \cup {0}
  /\ Sightings \subseteq MACs \X Subnet
  /\ Cuttable \subseteq SUBSET MACs

Addr == Subnet \cup {0}        \* 0 is "no address", as in the code

Pool == pool_start .. pool_end

\* dhcp_server_start() switches an unusable wired range off rather than
\* refuse to boot.
WiredRangeBad ==
  \/ wired_end = 0
  \/ wired_start > wired_end
  \/ wired_start <= pool_end /\ pool_start <= wired_end
  \/ s_server_ip \in wired_start .. wired_end
  \/ wired_start \notin Subnet
  \/ wired_end \notin Subnet

Wired == IF wired_start = 0 \/ WiredRangeBad THEN {} ELSE wired_start .. wired_end

-----------------------------------------------------------------------------
VARIABLES
  s_leases,     \* the table, [MACs -> Lease]
  s_declined,   \* addresses refused with DHCPDECLINE this boot
  s_boot_seq,   \* this boot's generation
  s_dirty,      \* "clean", "waiting" out the debounce, or "due" for a write
  flash,        \* the blob in NVS
  out           \* the reply sent by the last step

ram == <<s_leases, s_declined, s_boot_seq, s_dirty>>
vars == <<s_leases, s_declined, s_boot_seq, s_dirty, flash, out>>

Lease == [in_use: BOOLEAN, ip: Addr, observed_ip: Addr,
          saved_ip: Addr, saved_observed_ip: Addr,
          expires: {"zero", "live", "lapsed"},
          last_seen_seq: Nat,
          last_seen_us: {0, 1},     \* 0 = restored, not heard since the boot
          quarantined: BOOLEAN]

\* A slot after memset(): what an unused entry holds is never read.
Blank == [in_use |-> FALSE, ip |-> 0, observed_ip |-> 0, saved_ip |-> 0,
          saved_observed_ip |-> 0, expires |-> "zero", last_seen_seq |-> 0,
          last_seen_us |-> 0, quarantined |-> FALSE]

\* A record with both addresses 0 is never written: it stands for "absent".
Stored == [ip: Addr, observed_ip: Addr, last_seen_seq: Nat]
Absent == [ip |-> 0, observed_ip |-> 0, last_seen_seq |-> 0]

\* version 0: no blob, or one that load_from_nvs() cannot make sense of.
Blob == [version: 0 .. 3, boot_seq: Nat, table: [MACs -> Stored]]
NoBlob == [version |-> 0, boot_seq |-> 0, table |-> [m \in MACs |-> Absent]]

\* No address is stored as the lease of two clients.
LeasesDistinct(f) ==
  \A m, n \in MACs : m # n /\ f.table[m].ip # 0 => f.table[m].ip # f.table[n].ip

\* Flash starts out empty or as some version of this program left it.
ASSUME FlashAssumption ==
  /\ InitialFlash \subseteq Blob
  /\ \A f \in InitialFlash : LeasesDistinct(f)

NoReply == [type |-> "none"]
Reply == {NoReply} \cup
         [type: {"OFFER", "ACK", "NAK"}, mac: MACs, ip: Addr, wired: BOOLEAN]

-----------------------------------------------------------------------------
(* Bookkeeping helpers; t is a lease table, d a debounce state.            *)

mark_dirty(d, changed) == IF d = "clean" /\ changed THEN "waiting" ELSE d

\* Mutant: forgets that a client cut off must not be remembered there.
persisted_observed_ip_raw(e) == e.observed_ip

\* What an entry's observed address looks like in flash: a client cut off
\* for a duplicate address contributes nothing.
persisted_observed_ip(e) == IF e.quarantined THEN 0 ELSE e.observed_ip

seen_this_boot(e) == e.last_seen_seq >= s_boot_seq

older_than(a, b) ==
  \/ a.last_seen_seq < b.last_seen_seq
  \/ a.last_seen_seq = b.last_seen_seq /\ a.last_seen_us < b.last_seen_us

\* Mutant: a reservation not claimed since the boot does not keep its address.
find_by_any_ip_live(t, ip) ==
  {x \in MACs : /\ t[x].in_use /\ ~t[x].quarantined
                /\ ip \in {t[x].ip, t[x].observed_ip}
                /\ t[x].expires # "zero"}

find_by_any_ip(t, ip) ==
  {x \in MACs : /\ t[x].in_use /\ ~t[x].quarantined
                /\ ip \in {t[x].ip, t[x].observed_ip}}

\* Mutant: only traffic counts, not the lease.
ip_in_use_seen(t, ip, except) ==
  \E x \in MACs \ {except} :
    t[x].in_use /\ ~t[x].quarantined /\ t[x].observed_ip = ip

ip_in_use(t, ip, except) ==
  \E x \in MACs \ {except} :
    /\ t[x].in_use /\ ~t[x].quarantined
    /\ \/ t[x].observed_ip = ip
       \/ t[x].ip = ip /\ t[x].expires = "live"

reclaimable_address(e, range) ==
  IF e.ip \in range THEN e.ip
  ELSE IF e.observed_ip \in range THEN e.observed_ip ELSE 0

\* pick_victim_locked(): the entries the two passes may settle on.  need is
\* {} for a caller that only wants the slot, {range} for one that wants an
\* address of that range.
VictimsOfPass(t, need, manual) ==
  {x \in MACs : /\ t[x].in_use /\ ~seen_this_boot(t[x])
                /\ (t[x].observed_ip # 0) = manual
                /\ ~manual => t[x].expires # "live"
                /\ \A range \in need :
                     reclaimable_address(t[x], range) \notin s_declined \cup {0}}

Oldest(t, S) == {x \in S : \A y \in S : ~older_than(t[y], t[x])}

pick_victim(t, need) ==
  LET plain == VictimsOfPass(t, need, FALSE)
  IN  Oldest(t, IF plain # {} THEN plain ELSE VictimsOfPass(t, need, TRUE))

Drop(t, S) == [x \in MACs |-> IF x \in S THEN Blank ELSE t[x]]

\* reclaim_locked() marks the table when either half of the entry was saved.
WasSaved(t, S) == \E x \in S : t[x].saved_ip # 0 \/ t[x].saved_observed_ip # 0

InUse(t) == {x \in MACs : t[x].in_use}

\* Mutant: takes a slot without looking whether one is left.
SlotEvictions_unchecked(t, m) == {{}}

\* take_free_slot_locked(): what must be evicted for m to have an entry, as
\* the set of possible choices; {} when every slot is spoken for.
SlotEvictions(t, m) ==
  IF t[m].in_use \/ Cardinality(InUse(t)) < MAX_LEASES
    THEN {{}}
    ELSE {{v} : v \in pick_victim(t, {})}

-----------------------------------------------------------------------------
(* select_address_locked().                                                *)

Grantable(t, m, ip, range) ==
  ip \in range /\ ip \notin s_declined /\ ~ip_in_use(t, ip, m)

\* Mutant: the scan forgets the declined list.
Unclaimed_undeclined(t, range) ==
  {a \in range : a # s_server_ip /\ find_by_any_ip(t, a) = {}}

Unclaimed(t, range) ==
  {a \in range : a # s_server_ip /\ a \notin s_declined /\ find_by_any_ip(t, a) = {}}

Lowest(S) == {a \in S : \A b \in S : a <= b}

\* Steps 1 to 4 in one range: the possible choices, each an address and the
\* set of entries reclaimed for it.  {} when the range has nothing to give.
SelectIn(t, m, requested, range) ==
  IF t[m].in_use /\ ~t[m].quarantined /\ Grantable(t, m, t[m].ip, range)
    THEN {[ip |-> t[m].ip, victims |-> {}]}
  ELSE IF Grantable(t, m, requested, range)
    THEN {[ip |-> requested, victims |-> {}]}
  ELSE IF Unclaimed(t, range) # {}
    THEN {[ip |-> a, victims |-> {}] : a \in Lowest(Unclaimed(t, range))}
  ELSE {[ip |-> reclaimable_address(t[v], range), victims |-> {v}] :
          v \in pick_victim(t, {range})}

\* A wired client falls back to the WiFi pool; never the other way round.
select_address(t, m, requested, wired) ==
  IF wired /\ Wired # {} /\ SelectIn(t, m, requested, Wired) # {}
    THEN SelectIn(t, m, requested, Wired)
    ELSE SelectIn(t, m, requested, Pool)

(* commit_lease_locked() for m and ip in table t.  ev is what was evicted  *)
(* to make a slot; clash is the previous holder of ip, which goes too.     *)

\* Mutant: the previous holder of the address is left in the table.
Clashes_kept(t, m, ip) == {{}}

\* find_by_ip_locked(): one entry that leases ip, whichever comes first in
\* the array; cleared unless it is m's own.
Clashes(t, m, ip) ==
  LET holders == {x \in MACs : t[x].in_use /\ t[x].ip = ip}
  IN  IF holders = {} THEN {{}} ELSE {{h} \ {m} : h \in holders}

Committed(t, m, ip) ==
  [t EXCEPT ![m] = [@ EXCEPT !.in_use = TRUE, !.ip = ip, !.expires = "live",
                             !.last_seen_seq = s_boot_seq, !.last_seen_us = 1]]

\* Mutant: a client that moves to another address does not dirty the table.
LeaseUnsaved_first(e, ip) == e.saved_ip = 0

LeaseUnsaved(e, ip) == e.saved_ip # ip

\* select_address_locked() has settled on sel; record it for m.  With no slot
\* to record it in, only the selection's own reclaiming remains.
Record(m, sel, persist) ==
  LET t == Drop(s_leases, sel.victims)
      slots == SlotEvictions(t, m)
  IN  \/ /\ slots = {}
         /\ s_leases' = t
         /\ s_dirty' = mark_dirty(s_dirty, WasSaved(s_leases, sel.victims))
      \/ \E ev \in slots : \E clash \in Clashes(Drop(t, ev), m, sel.ip) :
           /\ s_leases' = Committed(Drop(t, ev \cup clash), m, sel.ip)
           /\ s_dirty' = mark_dirty(s_dirty,
                           \/ WasSaved(s_leases, sel.victims \cup ev)
                           \/ \E x \in clash : t[x].saved_ip # 0
                           \/ persist /\ LeaseUnsaved(t[m], sel.ip))

-----------------------------------------------------------------------------
(* Flash.                                                                  *)

Age(seq, boot) == IF boot > seq THEN boot - seq ELSE 0

StoredSeq(f, m) == IF f.version >= 3 THEN f.table[m].last_seen_seq ELSE 0
StoredObserved(f, m) == IF f.version >= 2 THEN f.table[m].observed_ip ELSE 0
BootSeqAfter(f) == IF f.version >= 3 THEN f.boot_seq + 1 ELSE 1

InBlob(f) == {m \in MACs : f.version # 0 /\ (f.table[m].ip # 0 \/ StoredObserved(f, m) # 0)}

\* load_from_nvs() refuses a blob that claims more entries than there are slots.
ASSUME BlobAssumption == \A f \in InitialFlash : Cardinality(InBlob(f)) <= MAX_LEASES

\* Clients dropped for having missed FORGET_AFTER_BOOTS generations.
Forgotten(f) ==
  {m \in InBlob(f) : /\ f.version >= 3
                     /\ Age(StoredSeq(f, m), BootSeqAfter(f)) > FORGET_AFTER_BOOTS}

Restored(f) == InBlob(f) \ Forgotten(f)

\* A restored self-assigned address that another restored entry claims too.
DropObserved(f) ==
  {m \in Restored(f) :
     /\ StoredObserved(f, m) # 0
     /\ \E j \in Restored(f) \ {m} :
          StoredObserved(f, m) \in {f.table[j].ip, StoredObserved(f, j)}}

LoadedEntry(f, m) ==
  [in_use |-> TRUE,
   ip |-> f.table[m].ip,
   observed_ip |-> IF m \in DropObserved(f) THEN 0 ELSE StoredObserved(f, m),
   saved_ip |-> f.table[m].ip,
   saved_observed_ip |-> StoredObserved(f, m),
   expires |-> "zero",
   last_seen_seq |-> StoredSeq(f, m),
   last_seen_us |-> 0,
   quarantined |-> FALSE]

load_from_nvs(f) == [m \in MACs |-> IF m \in Restored(f) THEN LoadedEntry(f, m) ELSE Blank]

LoadDirty(f) == mark_dirty("clean", DropObserved(f) # {} \/ Forgotten(f) # {})

StoredEntry(e) ==
  IF ~e.in_use \/ (e.ip = 0 /\ persisted_observed_ip(e) = 0)
    THEN Absent
    ELSE [ip |-> e.ip, observed_ip |-> persisted_observed_ip(e),
          last_seen_seq |-> e.last_seen_seq]

BlobOf(t) == [version |-> 3, boot_seq |-> s_boot_seq,
              table |-> [m \in MACs |-> StoredEntry(t[m])]]

AsSaved(e) ==
  IF e.in_use
    THEN [e EXCEPT !.saved_ip = e.ip, !.saved_observed_ip = persisted_observed_ip(e)]
    ELSE e

-----------------------------------------------------------------------------
Init ==
  /\ flash \in InitialFlash
  /\ s_leases = load_from_nvs(flash)
  /\ s_boot_seq = BootSeqAfter(flash)
  /\ s_dirty = LoadDirty(flash)
  /\ s_declined = {}
  /\ out = NoReply

\* handle_message(), DHCPDISCOVER: the address is held, not persisted.
Discover(m, requested, wired) ==
  LET choices == select_address(s_leases, m, requested, wired)
  IN  /\ \/ /\ choices = {}
            /\ out' = NoReply
            /\ UNCHANGED <<s_leases, s_dirty>>
         \/ \E sel \in choices :
              /\ Record(m, sel, FALSE)
              /\ out' = [type |-> "OFFER", mac |-> m, ip |-> sel.ip, wired |-> wired]
      /\ UNCHANGED <<s_declined, s_boot_seq, flash>>

\* DHCPREQUEST addressed to this server (or renewing): ACK or NAK.  A NAK
\* keeps whatever the selection reclaimed.
Request(m, requested, wired) ==
  LET choices == select_address(s_leases, m, requested, wired)
  IN  /\ \/ /\ choices = {}
            /\ out' = [type |-> "NAK", mac |-> m, ip |-> 0, wired |-> wired]
            /\ UNCHANGED <<s_leases, s_dirty>>
         \/ \E sel \in choices :
              \/ /\ requested \in {0, sel.ip}
                 /\ Record(m, sel, TRUE)
                 /\ out' = [type |-> "ACK", mac |-> m, ip |-> sel.ip, wired |-> wired]
              \/ /\ requested \notin {0, sel.ip}
                 /\ s_leases' = Drop(s_leases, sel.victims)
                 /\ s_dirty' = mark_dirty(s_dirty, WasSaved(s_leases, sel.victims))
                 /\ out' = [type |-> "NAK", mac |-> m, ip |-> 0, wired |-> wired]
      /\ UNCHANGED <<s_declined, s_boot_seq, flash>>

\* DHCPREQUEST naming another server: drop what was held for the client.
RequestOther(m) ==
  /\ s_leases[m].in_use
  /\ s_leases[m].expires # "zero"
  /\ s_leases' = Drop(s_leases, {m})
  /\ out' = NoReply
  /\ UNCHANGED <<s_declined, s_boot_seq, s_dirty, flash>>

\* DHCPDECLINE: the address is set aside until the next boot, as long as
\* there is room to remember it, and the client's entry goes.
Decline(m, requested) ==
  LET e == s_leases[m]
      bad == IF e.in_use THEN e.ip ELSE requested
  IN  /\ s_declined' = IF bad # 0 /\ Cardinality(s_declined) < MAX_DECLINED
                         THEN s_declined \cup {bad} ELSE s_declined
      /\ s_leases' = Drop(s_leases, {m})
      /\ s_dirty' = mark_dirty(s_dirty, e.in_use /\ e.saved_ip # 0)
      /\ out' = NoReply
      /\ UNCHANGED <<s_boot_seq, flash>>

\* DHCPRELEASE keeps the reservation but lets it be reclaimed at once.
Release(m) ==
  /\ s_leases[m].in_use
  /\ s_leases' = [s_leases EXCEPT ![m].expires = "zero",
                                  ![m].last_seen_seq = IF s_boot_seq > 0
                                                         THEN s_boot_seq - 1 ELSE @]
  /\ out' = NoReply
  /\ UNCHANGED <<s_declined, s_boot_seq, s_dirty, flash>>

\* A lease or an offer runs out: expires_us passes.
LeaseExpires(m) ==
  /\ s_leases[m].in_use
  /\ s_leases[m].expires = "live"
  /\ s_leases' = [s_leases EXCEPT ![m].expires = "lapsed"]
  /\ out' = NoReply
  /\ UNCHANGED <<s_declined, s_boot_seq, s_dirty, flash>>

\* dhcp_server_note_observed_ip(): m was seen using ip.
NoteObserved(m, ip) ==
  /\ ip \in Subnet \ {s_server_ip}
  /\ \E ev \in SlotEvictions(s_leases, m) :
       LET t == Drop(s_leases, ev)
           e == [t[m] EXCEPT !.in_use = TRUE,
                             !.observed_ip = IF ip = t[m].ip THEN 0 ELSE ip,
                             !.last_seen_seq = s_boot_seq,
                             !.last_seen_us = 1]
       IN  /\ s_leases' = [t EXCEPT ![m] = e]
           /\ s_dirty' = mark_dirty(s_dirty,
                           \/ WasSaved(s_leases, ev)
                           \/ e.saved_observed_ip # persisted_observed_ip(e))
  /\ out' = NoReply
  /\ UNCHANGED <<s_declined, s_boot_seq, flash>>

\* dhcp_server_set_quarantined(): the whole set, every time.
SetQuarantined(macs) ==
  LET t == [m \in MACs |-> IF s_leases[m].in_use
                             THEN [s_leases[m] EXCEPT !.quarantined = (m \in macs)]
                             ELSE s_leases[m]]
  IN  /\ s_leases' = t
      /\ s_dirty' = mark_dirty(s_dirty,
                      \E m \in InUse(t) : t[m].saved_observed_ip # persisted_observed_ip(t[m]))
      /\ out' = NoReply
      /\ UNCHANGED <<s_declined, s_boot_seq, flash>>

\* SAVE_DEBOUNCE_US has passed since the table first became dirty.
DebounceExpires ==
  /\ s_dirty = "waiting"
  /\ s_dirty' = "due"
  /\ out' = NoReply
  /\ UNCHANGED <<s_leases, s_declined, s_boot_seq, flash>>

SaveOk ==
  /\ s_dirty = "due"
  /\ flash' = BlobOf(s_leases)
  /\ s_leases' = [m \in MACs |-> AsSaved(s_leases[m])]
  /\ s_dirty' = "clean"
  /\ out' = NoReply
  /\ UNCHANGED <<s_declined, s_boot_seq>>

\* Mutant: a failed write counts as done.
SaveFails_forgotten ==
  /\ s_dirty = "due"
  /\ flash' \in {flash, BlobOf(s_leases)}
  /\ s_dirty' = "clean"
  /\ out' = NoReply
  /\ UNCHANGED <<s_leases, s_declined, s_boot_seq>>

\* nvs_set_blob() or nvs_commit() fails: the table stays dirty.
SaveFails ==
  /\ s_dirty = "due"
  /\ flash' \in {flash, BlobOf(s_leases)}
  /\ out' = NoReply
  /\ UNCHANGED ram

\* Power loss or restart at any moment, and the next boot's load.
Reboot ==
  /\ flash.boot_seq < MaxBootSeq
  /\ s_leases' = load_from_nvs(flash)
  /\ s_boot_seq' = BootSeqAfter(flash)
  /\ s_dirty' = LoadDirty(flash)
  /\ s_declined' = {}
  /\ out' = NoReply
  /\ UNCHANGED flash

Next ==
  \/ \E m \in MACs, requested \in Requested, wired \in Ports :
       Discover(m, requested, wired) \/ Request(m, requested, wired)
  \/ \E m \in MACs : RequestOther(m) \/ Release(m) \/ LeaseExpires(m)
  \/ \E m \in MACs, requested \in Requested : Decline(m, requested)
  \/ \E s \in Sightings : NoteObserved(s[1], s[2])
  \/ \E macs \in Cuttable : SetQuarantined(macs)
  \/ DebounceExpires \/ SaveOk \/ SaveFails \/ Reboot

Spec == Init /\ [][Next]_vars
-----------------------------------------------------------------------------
\* The types of the variables.  s_declined never holds 0, "no address".
TypeOK ==
  /\ s_leases \in [MACs -> Lease]
  /\ s_declined \in SUBSET Subnet
  /\ s_boot_seq \in Nat
  /\ s_dirty \in {"clean", "waiting", "due"}
  /\ flash \in Blob
  /\ out \in Reply

\* No address is leased to two clients in the table, whatever order offers,
\* renewals, declines, evictions and reloads come in (commit_lease_locked()
\* clears the previous holder; load_from_nvs() restores what was written).
UniqueLease ==
  \A m, n \in MACs :
    m # n /\ s_leases[m].in_use /\ s_leases[n].in_use /\ s_leases[m].ip # 0
      => s_leases[m].ip # s_leases[n].ip

\* The two fixed arrays are never overrun: take_free_slot_locked() finds or
\* makes room, and the declined list stops growing when it is full.
WithinArrays ==
  /\ Cardinality(InUse(s_leases)) <= MAX_LEASES
  /\ Cardinality(s_declined) <= MAX_DECLINED

\* Whatever ranges main.c configures, off the subnet, upside down or lying
\* across each other and the bridge included: an offered or acknowledged address
\* is a host address of the subnet other than the bridge's, of the configured
\* range of the port the client asked over (a wired client may overflow into
\* the pool, never the other way), and was not declined this boot.
\* dhcp_server_start() and all four steps of select_address_locked() see to it.
ServedInRange ==
  [][out'.type \in {"OFFER", "ACK"} =>
       /\ out'.ip \in Subnet \ {s_server_ip}
       /\ \/ out'.ip \in pool_start .. pool_end
          \/ out'.wired /\ out'.ip \in wired_start .. wired_end
       /\ out'.ip \notin s_declined]_vars

\* While the table counts as saved, what every entry believes flash holds is
\* what flash holds, and flash does not remember the address a cut-off client
\* was seen on.  Every path that changes an entry's observed address or its
\* quarantine, a failed write and a reload in between, has to keep this
\* (the dirty tests on saved_observed_ip, save_to_nvs_locked()).
CleanMeansSaved ==
  s_dirty = "clean" =>
    \A m \in InUse(s_leases) :
      LET e == s_leases[m]
      IN  /\ e.saved_observed_ip = IF e.quarantined THEN 0 ELSE e.observed_ip
          /\ e.saved_observed_ip # 0 => StoredObserved(flash, m) = e.saved_observed_ip
          /\ e.saved_ip # 0 => flash.table[m].ip = e.saved_ip
=============================================================================
