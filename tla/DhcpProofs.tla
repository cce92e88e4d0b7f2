------------------------------ MODULE DhcpProofs ----------------------------
(***************************************************************************)
(* The DHCP server, for any number of clients, any ranges, any table size  *)
(* and any sequence of messages, failed writes and restarts: the table is  *)
(* well typed, fits its array and leases no address twice, what is served  *)
(* belongs to the range, an entry knows what flash holds of it, and among  *)
(* clients that keep to themselves reservations are sticky.                *)
(***************************************************************************)
EXTENDS DhcpSticky, FiniteSetTheorems, TLAPS

Tables == [MACs -> Lease]

\* No address is leased to two clients of table t, and a slot that is not in
\* use is as memset() leaves it when it is taken.
WellFormed(t) ==
  /\ \A m, n \in MACs :
       m # n /\ t[m].in_use /\ t[n].in_use /\ t[m].ip # 0 => t[m].ip # t[n].ip
  /\ \A m \in MACs : ~t[m].in_use => t[m] = Blank

-----------------------------------------------------------------------------
(* The helpers.                                                            *)

LEMMA BlankType == Blank \in Lease /\ ~Blank.in_use
BY DEF Blank, Lease, Addr

LEMMA DropType ==
  ASSUME NEW t \in Tables, NEW S
  PROVE  /\ Drop(t, S) \in Tables
         /\ WellFormed(t) => WellFormed(Drop(t, S))
         /\ \A x \in MACs : Drop(t, S)[x] = IF x \in S THEN Blank ELSE t[x]
<1>1. Drop(t, S) \in Tables
  BY BlankType DEF Drop, Tables
<1>2. \A x \in MACs : Drop(t, S)[x] = IF x \in S THEN Blank ELSE t[x]
  BY DEF Drop
<1>3. WellFormed(t) => WellFormed(Drop(t, S))
  BY <1>2, BlankType DEF WellFormed
<1> QED BY <1>1, <1>2, <1>3

LEMMA RangesInSubnet == Pool \subseteq Subnet /\ Wired \subseteq Subnet
BY SubnetAssumption, RangeAssumption DEF Pool, Wired, WiredRangeBad

LEMMA AddrFacts == 0 \in Addr /\ Subnet \subseteq Addr /\ 0 \notin Subnet
BY SubnetAssumption DEF Addr

LEMMA DirtyType ==
  ASSUME NEW d \in {"clean", "waiting", "due"}, NEW changed
  PROVE  mark_dirty(d, changed) \in {"clean", "waiting", "due"}
BY DEF mark_dirty

\* Whatever select_address_locked() settles on is a host address, and it
\* reclaims entries of the table only.
LEMMA SelectInType ==
  ASSUME NEW t \in Tables, NEW m \in MACs, NEW requested, NEW range,
         range \subseteq Subnet, NEW sel \in SelectIn(t, m, requested, range)
  PROVE  sel.ip \in range /\ sel.ip \in Subnet
<1>1. CASE t[m].in_use /\ ~t[m].quarantined /\ Grantable(t, m, t[m].ip, range)
  BY <1>1 DEF SelectIn, Grantable
<1>2. CASE /\ ~(t[m].in_use /\ ~t[m].quarantined /\ Grantable(t, m, t[m].ip, range))
           /\ Grantable(t, m, requested, range)
  BY <1>2 DEF SelectIn, Grantable
<1>3. CASE /\ ~(t[m].in_use /\ ~t[m].quarantined /\ Grantable(t, m, t[m].ip, range))
           /\ ~Grantable(t, m, requested, range)
           /\ Unclaimed(t, range) # {}
  <2>1. PICK a \in Lowest(Unclaimed(t, range)) : sel = [ip |-> a, victims |-> {}]
    BY <1>3 DEF SelectIn
  <2> QED BY <2>1 DEF Lowest, Unclaimed
<1>4. CASE /\ ~(t[m].in_use /\ ~t[m].quarantined /\ Grantable(t, m, t[m].ip, range))
           /\ ~Grantable(t, m, requested, range)
           /\ Unclaimed(t, range) = {}
  <2>1. PICK v \in pick_victim(t, {range}) :
               sel = [ip |-> reclaimable_address(t[v], range), victims |-> {v}]
    BY <1>4 DEF SelectIn
  <2>2. reclaimable_address(t[v], range) # 0
    BY DEF pick_victim, Oldest, VictimsOfPass
  <2> QED BY <2>1, <2>2 DEF reclaimable_address
<1> QED BY <1>1, <1>2, <1>3, <1>4

LEMMA SelectType ==
  ASSUME NEW t \in Tables, NEW m \in MACs, NEW requested, NEW wired,
         NEW sel \in select_address(t, m, requested, wired)
  PROVE  sel.ip \in Subnet
BY SelectInType, RangesInSubnet DEF select_address

LEMMA CommittedType ==
  ASSUME NEW u \in Tables, s_boot_seq \in Nat, NEW m \in MACs, NEW ip \in Addr
  PROVE  /\ Committed(u, m, ip) \in Tables
         /\ Committed(u, m, ip)[m].in_use /\ Committed(u, m, ip)[m].ip = ip
         /\ Committed(u, m, ip)[m].expires = "live"
         /\ Committed(u, m, ip)[m].last_seen_seq = s_boot_seq
         /\ Committed(u, m, ip)[m].quarantined = u[m].quarantined
         /\ Committed(u, m, ip)[m].observed_ip = u[m].observed_ip
         /\ Committed(u, m, ip)[m].saved_ip = u[m].saved_ip
         /\ Committed(u, m, ip)[m].saved_observed_ip = u[m].saved_observed_ip
         /\ \A n \in MACs \ {m} : Committed(u, m, ip)[n] = u[n]
<1> DEFINE e == [u[m] EXCEPT !.in_use = TRUE, !.ip = ip, !.expires = "live",
                             !.last_seen_seq = s_boot_seq, !.last_seen_us = 1]
<1>1. u[m] \in Lease
  BY DEF Tables
<1>2. /\ e \in Lease /\ e.in_use /\ e.ip = ip /\ e.expires = "live"
      /\ e.last_seen_seq = s_boot_seq /\ e.quarantined = u[m].quarantined
      /\ e.observed_ip = u[m].observed_ip /\ e.saved_ip = u[m].saved_ip
      /\ e.saved_observed_ip = u[m].saved_observed_ip
  BY <1>1 DEF Lease
<1>3. Committed(u, m, ip) = [u EXCEPT ![m] = e]
  BY DEF Committed
<1> HIDE DEF e
<1> QED BY <1>2, <1>3 DEF Tables

\* commit_lease_locked(): the client gets the address and nobody else has it.
LEMMA CommitWellFormed ==
  ASSUME NEW t \in Tables, WellFormed(t), s_boot_seq \in Nat,
         NEW m \in MACs, NEW ip \in Subnet, NEW ev,
         NEW clash \in Clashes(Drop(t, ev), m, ip)
  PROVE  /\ Committed(Drop(t, ev \cup clash), m, ip) \in Tables
         /\ WellFormed(Committed(Drop(t, ev \cup clash), m, ip))
<1> DEFINE d == Drop(t, ev)
           u == Drop(t, ev \cup clash)
           w == Committed(u, m, ip)
<1>1. /\ d \in Tables /\ WellFormed(d)
      /\ u \in Tables /\ WellFormed(u)
      /\ \A x \in MACs : d[x] = IF x \in ev THEN Blank ELSE t[x]
      /\ \A x \in MACs : u[x] = IF x \in ev \cup clash THEN Blank ELSE t[x]
  BY DropType
<1>2. ip # 0 /\ ip \in Addr
  BY AddrFacts
<1>3. ASSUME NEW n \in MACs, n # m, u[n].in_use
      PROVE  u[n].ip # ip
  <2>1. SUFFICES ASSUME u[n].ip = ip PROVE FALSE
    OBVIOUS
  <2>2. n \notin ev \cup clash /\ d[n] = t[n] /\ d[n].in_use /\ d[n].ip = ip
    BY <1>1, <1>3, <2>1, BlankType
  <2>3. \A h \in MACs : d[h].in_use /\ d[h].ip = ip => h = n
    BY <1>1, <1>2, <2>2 DEF WellFormed
  <2>4. clash = {n} \ {m}
    BY <2>2, <2>3 DEF Clashes
  <2> QED BY <2>2, <2>4, <1>3
<1> HIDE DEF u, d
<1>4. w \in Tables /\ w[m].in_use /\ w[m].ip = ip /\ \A n \in MACs \ {m} : w[n] = u[n]
  BY <1>1, <1>2, CommittedType
<1> HIDE DEF w
<1>5. WellFormed(w)
  <2>1. ASSUME NEW x \in MACs, NEW y \in MACs, x # y,
               w[x].in_use, w[y].in_use, w[x].ip # 0
        PROVE  w[x].ip # w[y].ip
    <3>1. CASE x = m  BY <3>1, <2>1, <1>3, <1>4
    <3>2. CASE y = m  BY <3>2, <2>1, <1>3, <1>4
    <3>3. CASE x # m /\ y # m  BY <3>3, <2>1, <1>1, <1>4 DEF WellFormed
    <3> QED BY <3>1, <3>2, <3>3
  <2>2. \A x \in MACs : ~w[x].in_use => w[x] = Blank
    BY <1>1, <1>4 DEF WellFormed
  <2> QED BY <2>1, <2>2 DEF WellFormed
<1> QED BY <1>4, <1>5 DEF w, u

LEMMA RecordStep ==
  ASSUME s_leases \in Tables, WellFormed(s_leases), s_boot_seq \in Nat,
         s_dirty \in {"clean", "waiting", "due"},
         NEW m \in MACs, NEW sel, sel.ip \in Subnet, NEW persist,
         Record(m, sel, persist)
  PROVE  /\ s_leases' \in Tables /\ WellFormed(s_leases')
         /\ s_dirty' \in {"clean", "waiting", "due"}
<1> DEFINE t == Drop(s_leases, sel.victims)
<1>1. t \in Tables /\ WellFormed(t)
  BY DropType
<1>2. CASE /\ s_leases' = t
           /\ s_dirty' = mark_dirty(s_dirty, WasSaved(s_leases, sel.victims))
  BY <1>1, <1>2, DirtyType
<1>3. CASE \E ev \in SlotEvictions(t, m) : \E clash \in Clashes(Drop(t, ev), m, sel.ip) :
             /\ s_leases' = Committed(Drop(t, ev \cup clash), m, sel.ip)
             /\ s_dirty' = mark_dirty(s_dirty,
                             \/ WasSaved(s_leases, sel.victims \cup ev)
                             \/ \E x \in clash : t[x].saved_ip # 0
                             \/ persist /\ LeaseUnsaved(t[m], sel.ip))
  <2> HIDE DEF t
  <2>1. PICK ev \in SlotEvictions(t, m) : \E clash \in Clashes(Drop(t, ev), m, sel.ip) :
             /\ s_leases' = Committed(Drop(t, ev \cup clash), m, sel.ip)
             /\ s_dirty' = mark_dirty(s_dirty,
                             \/ WasSaved(s_leases, sel.victims \cup ev)
                             \/ \E x \in clash : t[x].saved_ip # 0
                             \/ persist /\ LeaseUnsaved(t[m], sel.ip))
    BY <1>3
  <2>2. s_leases' \in Tables /\ WellFormed(s_leases')
    BY <1>1, <2>1, CommitWellFormed
  <2> QED BY <2>1, <2>2, DirtyType
<1> QED BY <1>2, <1>3 DEF Record

\* load_from_nvs() restores a well-typed table without duplicate leases.
LEMMA LoadStep ==
  ASSUME NEW f \in Blob, LeasesDistinct(f)
  PROVE  /\ load_from_nvs(f) \in Tables /\ WellFormed(load_from_nvs(f))
         /\ BootSeqAfter(f) \in Nat
         /\ LoadDirty(f) \in {"clean", "waiting", "due"}
<1>1. ASSUME NEW m \in MACs
      PROVE  LoadedEntry(f, m) \in Lease /\ LoadedEntry(f, m).ip = f.table[m].ip
  BY AddrFacts DEF LoadedEntry, Lease, Blob, Stored, StoredObserved, StoredSeq
<1>2. load_from_nvs(f) \in Tables
  BY <1>1, BlankType DEF load_from_nvs, Tables
<1>3. WellFormed(load_from_nvs(f))
  <2>1. \A m \in MACs : /\ LoadedEntry(f, m).in_use
                        /\ load_from_nvs(f)[m] = IF m \in Restored(f)
                                                  THEN LoadedEntry(f, m) ELSE Blank
    BY DEF load_from_nvs, LoadedEntry
  <2> QED BY <1>1, <2>1, BlankType DEF WellFormed, LeasesDistinct
<1>4. BootSeqAfter(f) \in Nat
  BY DEF BootSeqAfter, Blob
<1> QED BY <1>2, <1>3, <1>4, DirtyType DEF LoadDirty

\* save_to_nvs_locked() writes a well-typed blob without duplicate leases.
LEMMA SaveStep ==
  ASSUME s_leases \in Tables, WellFormed(s_leases), s_boot_seq \in Nat
  PROVE  BlobOf(s_leases) \in Blob /\ LeasesDistinct(BlobOf(s_leases))
<1>1. ASSUME NEW m \in MACs
      PROVE  /\ StoredEntry(s_leases[m]) \in Stored
             /\ StoredEntry(s_leases[m]).ip # 0
                  => s_leases[m].in_use /\ StoredEntry(s_leases[m]).ip = s_leases[m].ip
  BY AddrFacts DEF StoredEntry, Stored, Absent, Tables, Lease, persisted_observed_ip
<1>2. BlobOf(s_leases) \in Blob
  BY <1>1 DEF BlobOf, Blob
<1>3. LeasesDistinct(BlobOf(s_leases))
  BY <1>1 DEF BlobOf, LeasesDistinct, WellFormed
<1> QED BY <1>2, <1>3

-----------------------------------------------------------------------------
(* The inductive invariant: what is in flash has to be free of duplicates  *)
(* as well, or a reload would bring them back into the table.              *)

IndInv == TypeOK /\ WellFormed(s_leases) /\ LeasesDistinct(flash)

LEMMA IndInvParts ==
  IndInv <=> /\ s_leases \in Tables /\ WellFormed(s_leases)
             /\ s_declined \in SUBSET Subnet
             /\ s_boot_seq \in Nat
             /\ s_dirty \in {"clean", "waiting", "due"}
             /\ flash \in Blob /\ LeasesDistinct(flash)
             /\ out \in Reply
BY DEF IndInv, TypeOK, Tables

LEMMA InitIndInv == Init => IndInv
<1> SUFFICES ASSUME Init PROVE IndInv
  OBVIOUS
<1>1. flash \in Blob /\ LeasesDistinct(flash)
  BY FlashAssumption DEF Init
<1>2. out \in Reply /\ s_declined \in SUBSET Subnet
  BY DEF Init, Reply
<1> QED BY <1>1, <1>2, LoadStep DEF Init, IndInv, TypeOK, Tables

LEMMA ReplyType ==
  ASSUME NEW m \in MACs, NEW ip \in Addr, NEW wired \in BOOLEAN,
         NEW type \in {"OFFER", "ACK", "NAK"}
  PROVE  [type |-> type, mac |-> m, ip |-> ip, wired |-> wired] \in Reply
BY DEF Reply

\* What a step has to establish.
LEMMA NextParts ==
  ASSUME s_leases' \in Tables, WellFormed(s_leases'),
         s_declined' \in SUBSET Subnet, s_boot_seq' \in Nat,
         s_dirty' \in {"clean", "waiting", "due"},
         flash' \in Blob, LeasesDistinct(flash'), out' \in Reply
  PROVE  IndInv'
BY DEF IndInv, TypeOK, LeasesDistinct, Tables, WellFormed

LEMMA NoReplyType == NoReply \in Reply
BY DEF Reply

LEMMA DiscoverStep ==
  ASSUME IndInv, NEW m \in MACs, NEW requested, NEW wired \in BOOLEAN,
         Discover(m, requested, wired)
  PROVE  IndInv'
<1> USE IndInvParts
<1>1. UNCHANGED <<s_declined, s_boot_seq, flash>>
  BY DEF Discover
<1>2. CASE out' = NoReply /\ UNCHANGED <<s_leases, s_dirty>>
  BY <1>1, <1>2, NoReplyType, NextParts
<1>3. CASE \E sel \in select_address(s_leases, m, requested, wired) :
             /\ Record(m, sel, FALSE)
             /\ out' = [type |-> "OFFER", mac |-> m, ip |-> sel.ip, wired |-> wired]
  <2>1. PICK sel \in select_address(s_leases, m, requested, wired) :
             /\ Record(m, sel, FALSE)
             /\ out' = [type |-> "OFFER", mac |-> m, ip |-> sel.ip, wired |-> wired]
    BY <1>3
  <2>2. sel.ip \in Subnet /\ sel.ip \in Addr
    BY SelectType, AddrFacts
  <2>3. out' \in Reply
    BY <2>1, <2>2, ReplyType
  <2>4. /\ s_leases' \in Tables /\ WellFormed(s_leases')
        /\ s_dirty' \in {"clean", "waiting", "due"}
    BY <2>1, <2>2, RecordStep
  <2> QED BY <1>1, <2>3, <2>4, NextParts
<1> QED BY <1>2, <1>3 DEF Discover

LEMMA RequestStep ==
  ASSUME IndInv, NEW m \in MACs, NEW requested, NEW wired \in BOOLEAN,
         Request(m, requested, wired)
  PROVE  IndInv'
<1> USE IndInvParts
<1>1. UNCHANGED <<s_declined, s_boot_seq, flash>>
  BY DEF Request
<1>2. CASE /\ out' = [type |-> "NAK", mac |-> m, ip |-> 0, wired |-> wired]
           /\ UNCHANGED <<s_leases, s_dirty>>
  BY <1>1, <1>2, ReplyType, AddrFacts, NextParts
<1>3. ASSUME NEW sel \in select_address(s_leases, m, requested, wired),
             Record(m, sel, TRUE),
             out' = [type |-> "ACK", mac |-> m, ip |-> sel.ip, wired |-> wired]
      PROVE  IndInv'
  <2>1. sel.ip \in Subnet /\ sel.ip \in Addr
    BY SelectType, AddrFacts
  <2>2. out' \in Reply
    BY <1>3, <2>1, ReplyType
  <2>3. /\ s_leases' \in Tables /\ WellFormed(s_leases')
        /\ s_dirty' \in {"clean", "waiting", "due"}
    BY <1>3, <2>1, RecordStep
  <2> QED BY <1>1, <2>2, <2>3, NextParts
<1>4. ASSUME NEW sel \in select_address(s_leases, m, requested, wired),
             s_leases' = Drop(s_leases, sel.victims),
             s_dirty' = mark_dirty(s_dirty, WasSaved(s_leases, sel.victims)),
             out' = [type |-> "NAK", mac |-> m, ip |-> 0, wired |-> wired]
      PROVE  IndInv'
  <2>1. out' \in Reply
    BY <1>4, ReplyType, AddrFacts
  <2>2. s_leases' \in Tables /\ WellFormed(s_leases')
    BY <1>4, DropType
  <2>3. s_dirty' \in {"clean", "waiting", "due"}
    BY <1>4, DirtyType
  <2> QED BY <1>1, <2>1, <2>2, <2>3, NextParts
<1> QED BY <1>2, <1>3, <1>4 DEF Request

LEMMA DropStep ==
  ASSUME IndInv, NEW m \in MACs, NEW requested \in Addr,
         RequestOther(m) \/ Decline(m, requested)
  PROVE  IndInv'
<1> USE IndInvParts
<1>1. s_leases' = Drop(s_leases, {m}) /\ out' = NoReply /\ UNCHANGED <<s_boot_seq, flash>>
  BY DEF RequestOther, Decline
<1>2. s_leases' \in Tables /\ WellFormed(s_leases')
  BY <1>1, DropType
<1>3. s_dirty' \in {"clean", "waiting", "due"}
  BY DirtyType DEF RequestOther, Decline
<1>4. s_declined' \in SUBSET Subnet
  <2>1. s_leases[m].ip \in Addr
    BY DEF Tables, Lease
  <2> QED BY <2>1 DEF RequestOther, Decline, Addr
<1> QED BY <1>1, <1>2, <1>3, <1>4, NoReplyType, NextParts

\* A change to one entry that leaves its lease alone.
LEMMA SameLease ==
  ASSUME NEW t \in Tables, WellFormed(t), NEW u \in Tables,
         \A x \in MACs : u[x].in_use /\ u[x].ip # 0 => t[x].in_use /\ u[x].ip = t[x].ip,
         \A x \in MACs : ~u[x].in_use => u[x] = Blank
  PROVE  WellFormed(u)
BY DEF WellFormed

LEMMA ReleaseStep ==
  ASSUME IndInv, NEW m \in MACs, Release(m) \/ LeaseExpires(m)
  PROVE  IndInv'
<1> USE IndInvParts
<1>1. out' = NoReply /\ UNCHANGED <<s_declined, s_boot_seq, s_dirty, flash>>
  BY DEF Release, LeaseExpires
<1>2. s_leases[m] \in Lease
  BY DEF Tables
<1>3. \E e \in Lease : /\ s_leases' = [s_leases EXCEPT ![m] = e]
                       /\ e.in_use /\ s_leases[m].in_use /\ e.ip = s_leases[m].ip
  <2>1. CASE Release(m)
    <3> DEFINE q == IF s_boot_seq > 0 THEN s_boot_seq - 1 ELSE s_leases[m].last_seen_seq
               e == [s_leases[m] EXCEPT !.expires = "zero", !.last_seen_seq = q]
    <3>1. q \in Nat
      BY <1>2 DEF Lease
    <3> HIDE DEF q
    <3>2. e \in Lease /\ e.in_use = s_leases[m].in_use /\ e.ip = s_leases[m].ip
      BY <1>2, <3>1 DEF Lease
    <3>3. s_leases' = [s_leases EXCEPT ![m] = e]
      BY <2>1, <1>2 DEF Release, q, Tables, Lease
    <3> QED BY <2>1, <3>2, <3>3 DEF Release
  <2>2. CASE LeaseExpires(m)
    <3> DEFINE e == [s_leases[m] EXCEPT !.expires = "lapsed"]
    <3>1. e \in Lease /\ e.in_use = s_leases[m].in_use /\ e.ip = s_leases[m].ip
      BY <1>2 DEF Lease
    <3>2. s_leases' = [s_leases EXCEPT ![m] = e]
      BY <2>2 DEF LeaseExpires, Tables
    <3> QED BY <2>2, <3>1, <3>2 DEF LeaseExpires
  <2> QED BY <2>1, <2>2
<1>4. s_leases' \in Tables /\ WellFormed(s_leases')
  <2>1. PICK e \in Lease : /\ s_leases' = [s_leases EXCEPT ![m] = e]
                           /\ e.in_use /\ s_leases[m].in_use /\ e.ip = s_leases[m].ip
    BY <1>3
  <2>2. s_leases' \in Tables
    BY <2>1 DEF Tables
  <2>3. \A x \in MACs : ~s_leases'[x].in_use => s_leases'[x] = Blank
    BY <2>1 DEF WellFormed, Tables
  <2> QED BY <2>1, <2>2, <2>3, SameLease DEF Tables
<1> QED BY <1>1, <1>4, NoReplyType, NextParts

\* A sighting fills in or updates m's entry and keeps its lease.
LEMMA SeenEntry ==
  ASSUME NEW t \in Tables, WellFormed(t), s_boot_seq \in Nat,
         NEW m \in MACs, NEW ip \in Subnet,
         NEW e, e = [t[m] EXCEPT !.in_use = TRUE,
                                 !.observed_ip = IF ip = t[m].ip THEN 0 ELSE ip,
                                 !.last_seen_seq = s_boot_seq,
                                 !.last_seen_us = 1]
  PROVE  [t EXCEPT ![m] = e] \in Tables /\ WellFormed([t EXCEPT ![m] = e])
<1>1. t[m] \in Lease /\ (~t[m].in_use => t[m].ip = 0)
  BY DEF Tables, WellFormed, Blank
<1>2. e \in Lease /\ e.in_use /\ e.ip = t[m].ip
  <2> DEFINE o == IF ip = t[m].ip THEN 0 ELSE ip
  <2>1. o \in Addr
    BY AddrFacts
  <2> HIDE DEF o
  <2>2. e = [t[m] EXCEPT !.in_use = TRUE, !.observed_ip = o,
                         !.last_seen_seq = s_boot_seq, !.last_seen_us = 1]
    BY DEF o
  <2> QED BY <1>1, <2>1, <2>2 DEF Lease
<1> DEFINE u == [t EXCEPT ![m] = e]
<1>3. u \in Tables /\ u[m] = e /\ \A x \in MACs \ {m} : u[x] = t[x]
  BY <1>2 DEF Tables
<1> HIDE DEF u
<1>4. \A x \in MACs : u[x].in_use /\ u[x].ip # 0 => t[x].in_use /\ u[x].ip = t[x].ip
  BY <1>1, <1>2, <1>3
<1>5. \A x \in MACs : ~u[x].in_use => u[x] = Blank
  BY <1>2, <1>3 DEF WellFormed
<1>6. u \in Tables /\ WellFormed(u)
  BY <1>3, <1>4, <1>5, SameLease
<1> QED BY <1>6 DEF u

LEMMA NoteObservedStep ==
  ASSUME IndInv, NEW m \in MACs, NEW ip \in Subnet, NoteObserved(m, ip)
  PROVE  IndInv'
<1> USE IndInvParts
<1>1. out' = NoReply /\ UNCHANGED <<s_declined, s_boot_seq, flash>>
  BY DEF NoteObserved
<1>2. s_dirty' \in {"clean", "waiting", "due"}
  BY DirtyType DEF NoteObserved
<1>3. s_leases' \in Tables /\ WellFormed(s_leases')
  <2>1. PICK ev \in SlotEvictions(s_leases, m) :
          s_leases' = [Drop(s_leases, ev) EXCEPT ![m] =
                         [Drop(s_leases, ev)[m] EXCEPT
                            !.in_use = TRUE,
                            !.observed_ip = IF ip = Drop(s_leases, ev)[m].ip THEN 0 ELSE ip,
                            !.last_seen_seq = s_boot_seq,
                            !.last_seen_us = 1]]
    BY DEF NoteObserved
  <2>2. Drop(s_leases, ev) \in Tables /\ WellFormed(Drop(s_leases, ev))
    BY DropType
  <2> QED BY <2>1, <2>2, SeenEntry
<1> QED BY <1>1, <1>2, <1>3, NoReplyType, NextParts

LEMMA SetQuarantinedStep ==
  ASSUME IndInv, NEW macs, SetQuarantined(macs)
  PROVE  IndInv'
<1> USE IndInvParts
<1>1. out' = NoReply /\ UNCHANGED <<s_declined, s_boot_seq, flash>>
  BY DEF SetQuarantined
<1>2. s_dirty' \in {"clean", "waiting", "due"}
  BY DirtyType DEF SetQuarantined
<1>3. s_leases' = [m \in MACs |-> IF s_leases[m].in_use
                                    THEN [s_leases[m] EXCEPT !.quarantined = (m \in macs)]
                                    ELSE s_leases[m]]
  BY DEF SetQuarantined
<1>4. ASSUME NEW m \in MACs
      PROVE  /\ s_leases'[m] \in Lease
             /\ s_leases'[m].in_use = s_leases[m].in_use
             /\ s_leases'[m].ip = s_leases[m].ip
             /\ ~s_leases[m].in_use => s_leases'[m] = Blank
  <2>1. s_leases[m] \in Lease /\ (~s_leases[m].in_use => s_leases[m] = Blank)
    BY DEF Tables, WellFormed
  <2>2. (m \in macs) \in BOOLEAN
    OBVIOUS
  <2> QED BY <1>3, <2>1, <2>2 DEF Lease
<1>5. s_leases' \in Tables
  BY <1>3, <1>4 DEF Tables
<1>6. WellFormed(s_leases')
  BY <1>4, <1>5, SameLease
<1> QED BY <1>1, <1>2, <1>5, <1>6, NoReplyType, NextParts

LEMMA FlashSteps ==
  ASSUME IndInv, DebounceExpires \/ SaveOk \/ SaveFails \/ Reboot
  PROVE  IndInv'
<1> USE IndInvParts
<1>1. CASE DebounceExpires
  BY <1>1, NoReplyType, NextParts DEF DebounceExpires
<1>2. CASE SaveOk
  <2>1. s_leases' \in Tables /\ WellFormed(s_leases')
    <3>1. s_leases' = [m \in MACs |-> AsSaved(s_leases[m])]
      BY <1>2 DEF SaveOk
    <3>2. ASSUME NEW m \in MACs
          PROVE  /\ AsSaved(s_leases[m]) \in Lease
                 /\ AsSaved(s_leases[m]).in_use = s_leases[m].in_use
                 /\ AsSaved(s_leases[m]).ip = s_leases[m].ip
                 /\ ~s_leases[m].in_use => AsSaved(s_leases[m]) = Blank
      <4>1. s_leases[m] \in Lease /\ (~s_leases[m].in_use => s_leases[m] = Blank)
        BY DEF Tables, WellFormed
      <4> QED BY <4>1, AddrFacts DEF AsSaved, Lease, persisted_observed_ip
    <3>3. s_leases' \in Tables
      BY <3>1, <3>2 DEF Tables
    <3> QED BY <3>1, <3>2, <3>3, SameLease
  <2> QED BY <1>2, <2>1, SaveStep, NoReplyType, NextParts DEF SaveOk
<1>3. CASE SaveFails
  BY <1>3, SaveStep, NoReplyType, NextParts DEF SaveFails, ram
<1>4. CASE Reboot
  BY <1>4, LoadStep, NoReplyType, NextParts DEF Reboot
<1> QED BY <1>1, <1>2, <1>3, <1>4

LEMMA NextIndInv == IndInv /\ [Next]_vars => IndInv'
<1> SUFFICES ASSUME IndInv, [Next]_vars PROVE IndInv'
  OBVIOUS
<1>1. CASE UNCHANGED vars
  BY <1>1, IndInvParts, NextParts DEF vars
<1>2. ASSUME NEW m \in MACs, NEW requested \in Requested, NEW wired \in Ports,
             Discover(m, requested, wired) \/ Request(m, requested, wired)
      PROVE  IndInv'
  BY <1>2, DiscoverStep, RequestStep, InputAssumption
<1>3. ASSUME NEW m \in MACs, RequestOther(m) \/ Release(m) \/ LeaseExpires(m)
      PROVE  IndInv'
  BY <1>3, DropStep, ReleaseStep, AddrFacts
<1>4. ASSUME NEW m \in MACs, NEW requested \in Requested, Decline(m, requested)
      PROVE  IndInv'
  BY <1>4, DropStep, InputAssumption DEF Addr
<1>5. ASSUME NEW s \in Sightings, NoteObserved(s[1], s[2])
      PROVE  IndInv'
  BY <1>5, NoteObservedStep, InputAssumption
<1>6. ASSUME NEW macs \in Cuttable, SetQuarantined(macs)
      PROVE  IndInv'
  BY <1>6, SetQuarantinedStep
<1>7. CASE DebounceExpires \/ SaveOk \/ SaveFails \/ Reboot
  BY <1>7, FlashSteps
<1> QED BY <1>1, <1>2, <1>3, <1>4, <1>5, <1>6, <1>7 DEF Next

-----------------------------------------------------------------------------
\* Every behaviour keeps the variables of the DHCP server in their types.
THEOREM TypeCorrect == Spec => []TypeOK
<1>1. IndInv => TypeOK
  BY DEF IndInv
<1> QED BY InitIndInv, NextIndInv, <1>1, PTL DEF Spec

\* No behaviour, whatever the clients send, however often flash fails and the
\* bridge restarts, leases one address to two clients of the table.
THEOREM NoDoubleLease == Spec => []UniqueLease
<1>1. IndInv => UniqueLease
  BY DEF IndInv, WellFormed, UniqueLease
<1> QED BY InitIndInv, NextIndInv, <1>1, PTL DEF Spec

-----------------------------------------------------------------------------
(* The addresses served.                                                   *)

LEMMA ServerAside == s_server_ip \notin Pool /\ s_server_ip \notin Wired
BY RangeAssumption DEF Pool, Wired, WiredRangeBad

LEMMA SelectInUndeclined ==
  ASSUME NEW t, NEW m \in MACs, NEW requested, NEW range,
         NEW sel \in SelectIn(t, m, requested, range)
  PROVE  sel.ip \notin s_declined
<1> DEFINE Keeps == t[m].in_use /\ ~t[m].quarantined /\ Grantable(t, m, t[m].ip, range)
<1>1. CASE Keeps
  BY <1>1 DEF SelectIn, Grantable
<1>2. CASE ~Keeps /\ Grantable(t, m, requested, range)
  BY <1>2 DEF SelectIn, Grantable
<1>3. CASE ~Keeps /\ ~Grantable(t, m, requested, range) /\ Unclaimed(t, range) # {}
  <2>1. PICK a \in Lowest(Unclaimed(t, range)) : sel = [ip |-> a, victims |-> {}]
    BY <1>3 DEF SelectIn
  <2> QED BY <2>1 DEF Lowest, Unclaimed
<1>4. CASE ~Keeps /\ ~Grantable(t, m, requested, range) /\ Unclaimed(t, range) = {}
  <2>1. PICK v \in pick_victim(t, {range}) :
               sel = [ip |-> reclaimable_address(t[v], range), victims |-> {v}]
    BY <1>4 DEF SelectIn
  <2> QED BY <2>1 DEF pick_victim, Oldest, VictimsOfPass
<1> QED BY <1>1, <1>2, <1>3, <1>4

LEMMA SelectServes ==
  ASSUME NEW t \in Tables, NEW m \in MACs, NEW requested, NEW wired \in BOOLEAN,
         NEW sel \in select_address(t, m, requested, wired)
  PROVE  /\ sel.ip \in Subnet \ {s_server_ip}
         /\ \/ sel.ip \in pool_start .. pool_end
            \/ wired /\ sel.ip \in wired_start .. wired_end
         /\ sel.ip \notin s_declined
<1>1. CASE wired /\ sel \in SelectIn(t, m, requested, Wired)
  <2>1. sel.ip \in Wired
    BY <1>1, SelectInType, RangesInSubnet
  <2>2. sel.ip \in wired_start .. wired_end
    BY <2>1 DEF Wired
  <2> QED BY <1>1, <2>1, <2>2, SelectInUndeclined, ServerAside, RangesInSubnet
<1>2. CASE sel \in SelectIn(t, m, requested, Pool)
  <2>1. sel.ip \in Pool
    BY <1>2, SelectInType, RangesInSubnet
  <2>2. sel.ip \in pool_start .. pool_end
    BY <2>1 DEF Pool
  <2> QED BY <1>2, <2>1, <2>2, SelectInUndeclined, ServerAside, RangesInSubnet
<1> QED BY <1>1, <1>2 DEF select_address

\* What the step's reply says, if it offers or acknowledges.
Served ==
  out'.type \in {"OFFER", "ACK"} =>
    /\ out'.ip \in Subnet \ {s_server_ip}
    /\ \/ out'.ip \in pool_start .. pool_end
       \/ out'.wired /\ out'.ip \in wired_start .. wired_end
    /\ out'.ip \notin s_declined

LEMMA NoReplyServes == ASSUME out' = NoReply PROVE Served
BY DEF NoReply, Served

LEMMA ReplyServes ==
  ASSUME IndInv, NEW m \in MACs, NEW requested, NEW wired \in BOOLEAN,
         Discover(m, requested, wired) \/ Request(m, requested, wired)
  PROVE  Served
<1>1. s_leases \in Tables
  BY IndInvParts
<1>2. ASSUME NEW sel \in select_address(s_leases, m, requested, wired), NEW type,
             out' = [type |-> type, mac |-> m, ip |-> sel.ip, wired |-> wired]
      PROVE  Served
  BY <1>1, <1>2, SelectServes DEF Served
<1>3. ASSUME out' = [type |-> "NAK", mac |-> m, ip |-> 0, wired |-> wired] PROVE Served
  BY <1>3 DEF Served
<1>4. CASE Discover(m, requested, wired)
  BY <1>2, <1>4, NoReplyServes DEF Discover
<1>5. CASE Request(m, requested, wired)
  BY <1>2, <1>3, <1>5 DEF Request
<1> QED BY <1>4, <1>5

LEMMA NextServes == ASSUME IndInv, [Next]_vars PROVE Served \/ UNCHANGED vars
<1>1. ASSUME NEW m \in MACs, NEW requested \in Requested, NEW wired \in Ports,
             Discover(m, requested, wired) \/ Request(m, requested, wired)
      PROVE  Served
  BY <1>1, ReplyServes, InputAssumption
<1>2. ASSUME NEW m \in MACs, RequestOther(m) \/ Release(m) \/ LeaseExpires(m)
      PROVE  out' = NoReply
  BY <1>2 DEF RequestOther, Release, LeaseExpires
<1>3. ASSUME NEW m \in MACs, NEW requested \in Requested, Decline(m, requested)
      PROVE  out' = NoReply
  BY <1>3 DEF Decline
<1>4. ASSUME NEW s \in Sightings, NoteObserved(s[1], s[2]) PROVE out' = NoReply
  BY <1>4 DEF NoteObserved
<1>5. ASSUME NEW macs \in Cuttable, SetQuarantined(macs) PROVE out' = NoReply
  BY <1>5 DEF SetQuarantined
<1>6. CASE DebounceExpires \/ SaveOk \/ SaveFails \/ Reboot
  BY <1>6, NoReplyServes DEF DebounceExpires, SaveOk, SaveFails, Reboot
<1> QED BY <1>1, <1>2, <1>3, <1>4, <1>5, <1>6, NoReplyServes DEF Next

\* Every address offered or acknowledged is a host address of the subnet, not the
\* bridge's own, of the asking port's configured ranges and not declined this boot:
\* for every wired range main.c may configure, usable or not, every table and every
\* declined list, on each of the four steps of the selection.
THEOREM ServesItsRange == Spec => ServedInRange
<1>1. IndInv /\ [Next]_vars => [Served]_vars
  BY NextServes
<1> QED BY <1>1, InitIndInv, NextIndInv, PTL DEF Spec, ServedInRange, Served

-----------------------------------------------------------------------------
(* The arrays.  A restart fills the table from flash, so what is in flash  *)
(* has to fit as well.                                                     *)

SizeInv ==
  /\ Cardinality(InUse(s_leases)) <= MAX_LEASES
  /\ Cardinality(s_declined) <= MAX_DECLINED
  /\ Cardinality(InBlob(flash)) <= MAX_LEASES

LEMMA Fits ==
  ASSUME NEW S, IsFiniteSet(S), NEW T \in SUBSET S, NEW k \in Nat, Cardinality(S) <= k
  PROVE  IsFiniteSet(T) /\ Cardinality(T) <= k
<1>1. IsFiniteSet(T) /\ Cardinality(T) <= Cardinality(S)
  BY FS_Subset
<1>2. Cardinality(T) \in Nat /\ Cardinality(S) \in Nat
  BY <1>1, FS_CardinalityType
<1> QED BY <1>1, <1>2

LEMMA InUseFinite == ASSUME NEW t PROVE IsFiniteSet(InUse(t)) /\ Cardinality(InUse(t)) \in Nat
<1>1. IsFiniteSet(InUse(t))
  BY BoundAssumption, FS_Subset DEF InUse
<1> QED BY <1>1, FS_CardinalityType

\* Nobody new: the table still fits.
LEMMA NobodyNew ==
  ASSUME NEW t, Cardinality(InUse(t)) <= MAX_LEASES,
         NEW u, \A x \in MACs : u[x].in_use => t[x].in_use
  PROVE  Cardinality(InUse(u)) <= MAX_LEASES
<1>1. InUse(u) \in SUBSET InUse(t)
  BY DEF InUse
<1> QED BY <1>1, InUseFinite, Fits, BoundAssumption

\* take_free_slot_locked(): once its evictions are made there is room for m.
LEMMA RoomForOne ==
  ASSUME NEW t, Cardinality(InUse(t)) <= MAX_LEASES, NEW m \in MACs,
         NEW ev \in SlotEvictions(t, m),
         NEW u, \A x \in MACs \ {m} : u[x].in_use => t[x].in_use /\ x \notin ev
  PROVE  Cardinality(InUse(u)) <= MAX_LEASES
<1>0. /\ IsFiniteSet(InUse(t)) /\ Cardinality(InUse(t)) \in Nat /\ MAX_LEASES \in Nat
  BY InUseFinite, BoundAssumption
<1>1. CASE t[m].in_use
  BY <1>1, NobodyNew
<1>2. CASE ~t[m].in_use /\ Cardinality(InUse(t)) < MAX_LEASES
  <2>1. InUse(u) \in SUBSET (InUse(t) \cup {m})
    BY DEF InUse
  <2>2. /\ IsFiniteSet(InUse(t) \cup {m})
        /\ Cardinality(InUse(t) \cup {m}) = IF m \in InUse(t) THEN Cardinality(InUse(t))
                                              ELSE Cardinality(InUse(t)) + 1
    BY <1>0, FS_AddElement
  <2>3. Cardinality(InUse(t) \cup {m}) <= MAX_LEASES
    BY <1>0, <1>2, <2>2
  <2> QED BY <1>0, <2>1, <2>2, <2>3, Fits
<1>3. CASE ~t[m].in_use /\ ~(Cardinality(InUse(t)) < MAX_LEASES)
  <2>1. PICK v \in pick_victim(t, {}) : ev = {v}
    BY <1>3 DEF SlotEvictions
  <2>2. v \in InUse(t) /\ m \notin InUse(t)
    BY <1>3 DEF pick_victim, Oldest, VictimsOfPass, InUse
  <2> DEFINE S == InUse(t) \ {v}
  <2>3. InUse(u) \in SUBSET (S \cup {m})
    BY <2>1 DEF InUse
  <2>4. IsFiniteSet(S) /\ Cardinality(S) = Cardinality(InUse(t)) - 1
    BY <1>0, <2>2, FS_RemoveElement
  <2>5. m \notin S
    BY <2>2
  <2> HIDE DEF S
  <2>6. IsFiniteSet(S \cup {m}) /\ Cardinality(S \cup {m}) = Cardinality(S) + 1
    BY <2>4, <2>5, FS_AddElement
  <2>7. Cardinality(S \cup {m}) <= MAX_LEASES
    BY <1>0, <2>4, <2>6
  <2> QED BY <1>0, <2>3, <2>6, <2>7, Fits
<1> QED BY <1>1, <1>2, <1>3

LEMMA RecordFits ==
  ASSUME s_leases \in Tables, s_boot_seq \in Nat,
         Cardinality(InUse(s_leases)) <= MAX_LEASES,
         NEW m \in MACs, NEW sel, sel.ip \in Subnet, NEW persist, Record(m, sel, persist)
  PROVE  Cardinality(InUse(s_leases')) <= MAX_LEASES
<1> DEFINE t == Drop(s_leases, sel.victims)
<1>1. t \in Tables /\ \A x \in MACs : t[x] = IF x \in sel.victims THEN Blank ELSE s_leases[x]
  BY DropType
<1>2. Cardinality(InUse(t)) <= MAX_LEASES
  BY <1>1, NobodyNew, BlankType
<1>3. CASE s_leases' = t
  BY <1>2, <1>3
<1>4. CASE \E ev \in SlotEvictions(t, m) : \E clash \in Clashes(Drop(t, ev), m, sel.ip) :
             s_leases' = Committed(Drop(t, ev \cup clash), m, sel.ip)
  <2> HIDE DEF t
  <2>1. PICK ev \in SlotEvictions(t, m) : \E clash \in Clashes(Drop(t, ev), m, sel.ip) :
             s_leases' = Committed(Drop(t, ev \cup clash), m, sel.ip)
    BY <1>4
  <2>2. PICK clash : s_leases' = Committed(Drop(t, ev \cup clash), m, sel.ip)
    BY <2>1
  <2> DEFINE u == Drop(t, ev \cup clash)
  <2>3. u \in Tables /\ \A x \in MACs : u[x] = IF x \in ev \cup clash THEN Blank ELSE t[x]
    BY <1>1, DropType
  <2>4. s_leases' = Committed(u, m, sel.ip)
    BY <2>2
  <2> HIDE DEF u
  <2>5. \A x \in MACs \ {m} : s_leases'[x] = u[x]
    BY <2>3, <2>4, CommittedType, AddrFacts
  <2>6. \A x \in MACs \ {m} : s_leases'[x].in_use => t[x].in_use /\ x \notin ev
    BY <2>3, <2>5, BlankType
  <2> QED BY <1>2, <2>6, RoomForOne
<1> QED BY <1>3, <1>4 DEF Record

\* A reload, and a blob just written, hold no more than there was.
LEMMA BlobFits ==
  /\ \A f : Cardinality(InBlob(f)) <= MAX_LEASES
              => Cardinality(InUse(load_from_nvs(f))) <= MAX_LEASES
  /\ Cardinality(InUse(s_leases)) <= MAX_LEASES
       => Cardinality(InBlob(BlobOf(s_leases))) <= MAX_LEASES
<1>1. ASSUME NEW f, Cardinality(InBlob(f)) <= MAX_LEASES
      PROVE  Cardinality(InUse(load_from_nvs(f))) <= MAX_LEASES
  <2>1. IsFiniteSet(InBlob(f))
    BY BoundAssumption, FS_Subset DEF InBlob
  <2>2. InUse(load_from_nvs(f)) \in SUBSET InBlob(f)
    BY BlankType DEF InUse, load_from_nvs, Restored
  <2> QED BY <1>1, <2>1, <2>2, Fits, BoundAssumption
<1>2. ASSUME Cardinality(InUse(s_leases)) <= MAX_LEASES
      PROVE  Cardinality(InBlob(BlobOf(s_leases))) <= MAX_LEASES
  <2>1. InBlob(BlobOf(s_leases)) \in SUBSET InUse(s_leases)
    BY DEF InBlob, BlobOf, StoredObserved, StoredEntry, Absent, InUse
  <2> QED BY <1>2, <2>1, InUseFinite, Fits, BoundAssumption
<1> QED BY <1>1, <1>2

LEMMA InitFits == Init => SizeInv
<1> SUFFICES ASSUME Init PROVE SizeInv
  OBVIOUS
<1>1. flash \in InitialFlash /\ s_leases = load_from_nvs(flash) /\ s_declined = {}
  BY DEF Init
<1>2. Cardinality(InBlob(flash)) <= MAX_LEASES
  BY <1>1, BlobAssumption
<1> QED BY <1>1, <1>2, BlobFits, FS_EmptySet, BoundAssumption DEF SizeInv

\* What a step has to establish.
LEMMA SizeParts ==
  ASSUME Cardinality(InUse(s_leases')) <= MAX_LEASES,
         Cardinality(s_declined') <= MAX_DECLINED,
         Cardinality(InBlob(flash')) <= MAX_LEASES
  PROVE  SizeInv'
BY DEF SizeInv, InUse, InBlob, StoredObserved

LEMMA DeclineFits ==
  ASSUME IndInv, SizeInv, NEW m \in MACs, NEW requested, Decline(m, requested)
  PROVE  Cardinality(s_declined') <= MAX_DECLINED
<1>0. IsFiniteSet(s_declined) /\ Cardinality(s_declined) \in Nat
  <2>1. IsFiniteSet(s_declined)
    BY IndInvParts, SubnetAssumption, FS_Subset
  <2> QED BY <2>1, FS_CardinalityType
<1>1. CASE s_declined' = s_declined
  BY <1>1 DEF SizeInv
<1>2. ASSUME NEW bad, Cardinality(s_declined) < MAX_DECLINED, s_declined' = s_declined \cup {bad}
      PROVE  Cardinality(s_declined') <= MAX_DECLINED
  <2>1. Cardinality(s_declined \cup {bad}) =
          IF bad \in s_declined THEN Cardinality(s_declined) ELSE Cardinality(s_declined) + 1
    BY <1>0, FS_AddElement
  <2> QED BY <1>0, <1>2, <2>1, BoundAssumption
<1> QED BY <1>1, <1>2 DEF Decline

LEMMA NextFits == ASSUME IndInv, SizeInv, [Next]_vars PROVE SizeInv'
<1>0. /\ s_leases \in Tables /\ s_boot_seq \in Nat
      /\ Cardinality(InUse(s_leases)) <= MAX_LEASES
      /\ Cardinality(s_declined) <= MAX_DECLINED
      /\ Cardinality(InBlob(flash)) <= MAX_LEASES
  BY IndInvParts DEF SizeInv
<1>1. CASE UNCHANGED vars
  BY <1>0, <1>1, SizeParts DEF vars
<1>2. ASSUME NEW m \in MACs, NEW requested \in Requested, NEW wired \in Ports,
             Discover(m, requested, wired) \/ Request(m, requested, wired)
      PROVE  SizeInv'
  <2>1. UNCHANGED <<s_declined, flash>>
    BY <1>2 DEF Discover, Request
  <2>2. ASSUME NEW sel \in select_address(s_leases, m, requested, wired), NEW persist,
               Record(m, sel, persist)
        PROVE  Cardinality(InUse(s_leases')) <= MAX_LEASES
    <3>1. sel.ip \in Subnet
      BY <1>0, SelectType
    <3> QED BY <1>0, <2>2, <3>1, RecordFits
  <2>3. ASSUME NEW S, s_leases' = Drop(s_leases, S)
        PROVE  Cardinality(InUse(s_leases')) <= MAX_LEASES
    BY <1>0, <2>3, DropType, NobodyNew, BlankType
  <2>4. Cardinality(InUse(s_leases')) <= MAX_LEASES
    BY <1>0, <1>2, <2>2, <2>3 DEF Discover, Request
  <2> QED BY <1>0, <2>1, <2>4, SizeParts
<1>3. ASSUME NEW m \in MACs, RequestOther(m) PROVE SizeInv'
  <2>1. s_leases' = Drop(s_leases, {m}) /\ UNCHANGED <<s_declined, flash>>
    BY <1>3 DEF RequestOther
  <2>2. Cardinality(InUse(s_leases')) <= MAX_LEASES
    BY <1>0, <2>1, DropType, NobodyNew, BlankType
  <2> QED BY <1>0, <2>1, <2>2, SizeParts
<1>4. ASSUME NEW m \in MACs, Release(m) \/ LeaseExpires(m) PROVE SizeInv'
  <2>1. UNCHANGED <<s_declined, flash>> /\ s_leases[m].in_use
        /\ \E e : s_leases' = [s_leases EXCEPT ![m] = e]
    BY <1>4 DEF Release, LeaseExpires
  <2>2. \A x \in MACs : s_leases'[x].in_use => s_leases[x].in_use
    BY <1>0, <2>1 DEF Tables
  <2>3. Cardinality(InUse(s_leases')) <= MAX_LEASES
    BY <1>0, <2>2, NobodyNew
  <2> QED BY <1>0, <2>1, <2>3, SizeParts
<1>5. ASSUME NEW m \in MACs, NEW requested \in Requested, Decline(m, requested) PROVE SizeInv'
  <2>1. s_leases' = Drop(s_leases, {m}) /\ UNCHANGED flash
    BY <1>5 DEF Decline
  <2>2. Cardinality(InUse(s_leases')) <= MAX_LEASES
    BY <1>0, <2>1, DropType, NobodyNew, BlankType
  <2>3. Cardinality(s_declined') <= MAX_DECLINED
    BY <1>5, DeclineFits
  <2> QED BY <1>0, <2>1, <2>2, <2>3, SizeParts
<1>6. ASSUME NEW s \in Sightings, NoteObserved(s[1], s[2]) PROVE SizeInv'
  <2> DEFINE m == s[1]
  <2>0. m \in MACs
    BY InputAssumption
  <2>1. UNCHANGED <<s_declined, flash>>
    BY <1>6 DEF NoteObserved
  <2>2. PICK ev \in SlotEvictions(s_leases, m) :
          \E e : s_leases' = [Drop(s_leases, ev) EXCEPT ![m] = e]
    BY <1>6 DEF NoteObserved
  <2> HIDE DEF m
  <2>3. /\ Drop(s_leases, ev) \in Tables
        /\ \A x \in MACs : Drop(s_leases, ev)[x] = IF x \in ev THEN Blank ELSE s_leases[x]
    BY <1>0, DropType
  <2>4. \A x \in MACs \ {m} : s_leases'[x].in_use => s_leases[x].in_use /\ x \notin ev
    BY <2>2, <2>3, BlankType DEF Tables
  <2>5. Cardinality(InUse(s_leases')) <= MAX_LEASES
    BY <1>0, <2>0, <2>4, RoomForOne
  <2> QED BY <1>0, <2>1, <2>5, SizeParts
<1>7. ASSUME NEW macs \in Cuttable, SetQuarantined(macs) PROVE SizeInv'
  <2>1. UNCHANGED <<s_declined, flash>>
    BY <1>7 DEF SetQuarantined
  <2>2. \A x \in MACs : s_leases'[x].in_use => s_leases[x].in_use
    BY <1>0, <1>7 DEF SetQuarantined, Tables, Lease
  <2>3. Cardinality(InUse(s_leases')) <= MAX_LEASES
    BY <1>0, <2>2, NobodyNew
  <2> QED BY <1>0, <2>1, <2>3, SizeParts
<1>8. CASE DebounceExpires \/ SaveFails
  <2>1. UNCHANGED <<s_leases, s_declined>> /\ flash' \in {flash, BlobOf(s_leases)}
    BY <1>8 DEF DebounceExpires, SaveFails, ram
  <2> QED BY <1>0, <2>1, BlobFits, SizeParts
<1>9. CASE SaveOk
  <2>1. UNCHANGED s_declined /\ flash' = BlobOf(s_leases)
    BY <1>9 DEF SaveOk
  <2>2. \A x \in MACs : s_leases'[x].in_use => s_leases[x].in_use
    BY <1>0, <1>9 DEF SaveOk, AsSaved, Tables, Lease
  <2>3. Cardinality(InUse(s_leases')) <= MAX_LEASES
    BY <1>0, <2>2, NobodyNew
  <2> QED BY <1>0, <2>1, <2>3, BlobFits, SizeParts
<1>10. CASE Reboot
  <2>1. s_leases' = load_from_nvs(flash) /\ s_declined' = {} /\ UNCHANGED flash
    BY <1>10 DEF Reboot
  <2> QED BY <1>0, <2>1, BlobFits, FS_EmptySet, BoundAssumption, SizeParts
<1> QED BY <1>1, <1>2, <1>3, <1>4, <1>5, <1>6, <1>7, <1>8, <1>9, <1>10 DEF Next

\* Neither the lease table nor the declined list is ever overrun, whatever clients
\* come, decline and are evicted, and whatever a restart loads.
THEOREM ArraysHold == Spec => []WithinArrays
<1>1. IndInv /\ SizeInv /\ [Next]_vars => SizeInv'
  BY NextFits
<1>2. SizeInv => WithinArrays
  BY DEF SizeInv, WithinArrays
<1> QED BY <1>1, <1>2, InitIndInv, NextIndInv, InitFits, PTL DEF Spec

-----------------------------------------------------------------------------
(* What the entries remember of flash.  While the table is dirty nothing   *)
(* is claimed, so the invariant is the property with its parts named.      *)

\* Entry e of client m remembers what blob f holds of it.
Remembers(e, f, m) ==
  /\ e.saved_observed_ip = persisted_observed_ip(e)
  /\ e.saved_observed_ip # 0 => StoredObserved(f, m) = e.saved_observed_ip
  /\ e.saved_ip # 0 => f.table[m].ip = e.saved_ip

AllRemember(t, d, f) ==
  d = "clean" => \A m \in MACs : t[m].in_use => Remembers(t[m], f, m)

LEMMA RememberedIsClean == AllRemember(s_leases, s_dirty, flash) <=> CleanMeansSaved
BY DEF AllRemember, Remembers, CleanMeansSaved, InUse, persisted_observed_ip

LEMMA BlankRemembers ==
  ASSUME NEW f, NEW m
  PROVE  /\ Remembers(Blank, f, m) /\ Blank.saved_ip = 0 /\ Blank.saved_observed_ip = 0
         /\ Blank.observed_ip = 0 /\ Blank.quarantined = FALSE
BY DEF Remembers, Blank, persisted_observed_ip

\* mark_dirty() never cleans.
LEMMA StillClean ==
  ASSUME NEW d, NEW changed, mark_dirty(d, changed) = "clean"
  PROVE  d = "clean" /\ ~changed
BY DEF mark_dirty

\* The fields of an entry that flash is compared with.
SameMemory(e, g) ==
  /\ e.saved_ip = g.saved_ip /\ e.saved_observed_ip = g.saved_observed_ip
  /\ e.observed_ip = g.observed_ip /\ e.quarantined = g.quarantined

LEMMA MemoryKept ==
  ASSUME NEW t, NEW d, NEW f, AllRemember(t, d, f), NEW u, NEW c, c = "clean" => d = "clean",
         \A x \in MACs : u[x].in_use =>
           \E e : SameMemory(u[x], e) /\ (e = Blank \/ (e = t[x] /\ t[x].in_use))
  PROVE  AllRemember(u, c, f)
<1> SUFFICES ASSUME c = "clean", NEW x \in MACs, u[x].in_use PROVE Remembers(u[x], f, x)
  BY DEF AllRemember
<1>1. PICK e : SameMemory(u[x], e) /\ (e = Blank \/ (e = t[x] /\ t[x].in_use))
  OBVIOUS
<1>2. Remembers(e, f, x)
  BY <1>1, BlankRemembers DEF AllRemember
<1> QED BY <1>1, <1>2 DEF SameMemory, Remembers, persisted_observed_ip

\* Recording a lease leaves every entry's memory alone, or starts a blank one.
LEMMA RecordMemory ==
  ASSUME s_leases \in Tables, WellFormed(s_leases), s_boot_seq \in Nat,
         NEW m \in MACs, NEW sel, sel.ip \in Subnet, NEW persist, Record(m, sel, persist)
  PROVE  /\ s_dirty' = "clean" => s_dirty = "clean"
         /\ \A x \in MACs : s_leases'[x].in_use =>
              \E e : SameMemory(s_leases'[x], e)
                     /\ (e = Blank \/ (e = s_leases[x] /\ s_leases[x].in_use))
<1> DEFINE t == Drop(s_leases, sel.victims)
           Same == \A x \in MACs : s_leases'[x].in_use =>
                     \E e : SameMemory(s_leases'[x], e)
                            /\ (e = Blank \/ (e = s_leases[x] /\ s_leases[x].in_use))
<1>1. t \in Tables /\ \A x \in MACs : t[x] = IF x \in sel.victims THEN Blank ELSE s_leases[x]
  BY DropType
<1>2. s_dirty' = "clean" => s_dirty = "clean"
  BY StillClean DEF Record
<1>3. ASSUME s_leases' = t PROVE Same
  BY <1>1, <1>3, BlankType DEF SameMemory
<1>4. ASSUME \E ev \in SlotEvictions(t, m) : \E clash \in Clashes(Drop(t, ev), m, sel.ip) :
               s_leases' = Committed(Drop(t, ev \cup clash), m, sel.ip)
      PROVE  Same
  <2> HIDE DEF t
  <2>1. PICK ev, clash : s_leases' = Committed(Drop(t, ev \cup clash), m, sel.ip)
    BY <1>4
  <2> DEFINE u == Drop(t, ev \cup clash)
  <2>2. u \in Tables /\ \A x \in MACs : u[x] = IF x \in ev \cup clash THEN Blank ELSE t[x]
    BY <1>1, DropType
  <2>3. s_leases' = Committed(u, m, sel.ip)
    BY <2>1
  <2> HIDE DEF u
  <2>4. \A x \in MACs : SameMemory(s_leases'[x], u[x])
    <3>1. \A x \in MACs \ {m} : s_leases'[x] = u[x]
      BY <2>2, <2>3, CommittedType, AddrFacts
    <3>2. SameMemory(s_leases'[m], u[m])
      BY <2>2, <2>3, CommittedType, AddrFacts DEF SameMemory
    <3> QED BY <3>1, <3>2 DEF SameMemory
  <2>5. \A x \in MACs : u[x] = Blank \/ (u[x] = s_leases[x] /\ s_leases[x].in_use)
    BY <1>1, <2>2 DEF WellFormed
  <2> QED BY <2>4, <2>5
<1>5. Same
  BY <1>3, <1>4 DEF Record
<1> QED BY <1>2, <1>5

\* load_from_nvs() leaves the table clean only when it dropped nothing.
LEMMA LoadRemembers ==
  ASSUME NEW f \in Blob
  PROVE  AllRemember(load_from_nvs(f), LoadDirty(f), f)
<1> SUFFICES ASSUME LoadDirty(f) = "clean", NEW m \in MACs, load_from_nvs(f)[m].in_use
             PROVE  Remembers(load_from_nvs(f)[m], f, m)
  BY DEF AllRemember
<1>1. DropObserved(f) = {}
  BY DEF LoadDirty, mark_dirty
<1>2. load_from_nvs(f)[m] = LoadedEntry(f, m)
  BY BlankType DEF load_from_nvs
<1> QED BY <1>1, <1>2 DEF LoadedEntry, Remembers, persisted_observed_ip

\* save_to_nvs_locked() makes every entry remember what it wrote.
LEMMA SaveRemembers ==
  ASSUME s_leases \in Tables, WellFormed(s_leases), SaveOk
  PROVE  AllRemember(s_leases', s_dirty', flash')
<1> SUFFICES ASSUME NEW m \in MACs, s_leases'[m].in_use
             PROVE  Remembers(s_leases'[m], flash', m)
  BY DEF AllRemember
<1>1. s_leases[m] \in Lease
  BY DEF Tables
<1>2. s_leases'[m] = AsSaved(s_leases[m]) /\ flash' = BlobOf(s_leases)
  BY DEF SaveOk
<1>3. s_leases[m].in_use
  BY <1>1, <1>2 DEF AsSaved, Lease
<1> DEFINE e == s_leases[m]
           g == s_leases'[m]
           p == persisted_observed_ip(e)
<1>4. /\ g.saved_ip = e.ip /\ g.saved_observed_ip = p
      /\ g.quarantined = e.quarantined /\ g.observed_ip = e.observed_ip
  BY <1>1, <1>2, <1>3 DEF AsSaved, Lease
<1>5. persisted_observed_ip(g) = p
  BY <1>4 DEF persisted_observed_ip
<1>6. /\ flash'.table[m].ip = StoredEntry(e).ip
      /\ StoredObserved(flash', m) = StoredEntry(e).observed_ip
  BY <1>2 DEF BlobOf, StoredObserved
<1>7. StoredEntry(e).ip = e.ip /\ StoredEntry(e).observed_ip = p
  BY <1>3 DEF StoredEntry, Absent
<1> QED BY <1>4, <1>5, <1>6, <1>7 DEF Remembers

LEMMA SightingRemembers ==
  ASSUME s_leases \in Tables, WellFormed(s_leases),
         AllRemember(s_leases, s_dirty, flash), NEW m \in MACs, NEW ip, NoteObserved(m, ip)
  PROVE  AllRemember(s_leases', s_dirty', flash)
<1> DEFINE T(ev) == Drop(s_leases, ev)
           E(ev) == [T(ev)[m] EXCEPT !.in_use = TRUE,
                                     !.observed_ip = IF ip = T(ev)[m].ip THEN 0 ELSE ip,
                                     !.last_seen_seq = s_boot_seq,
                                     !.last_seen_us = 1]
<1>0. PICK ev :
        /\ s_leases' = [T(ev) EXCEPT ![m] = E(ev)]
        /\ s_dirty' = mark_dirty(s_dirty,
                        \/ WasSaved(s_leases, ev)
                        \/ E(ev).saved_observed_ip # persisted_observed_ip(E(ev)))
  BY DEF NoteObserved
<1>1. PICK t, e :
        /\ t = Drop(s_leases, ev)
        /\ e = [t[m] EXCEPT !.in_use = TRUE,
                            !.observed_ip = IF ip = t[m].ip THEN 0 ELSE ip,
                            !.last_seen_seq = s_boot_seq,
                            !.last_seen_us = 1]
        /\ s_leases' = [t EXCEPT ![m] = e]
        /\ s_dirty' = mark_dirty(s_dirty,
                        \/ WasSaved(s_leases, ev)
                        \/ e.saved_observed_ip # persisted_observed_ip(e))
  BY <1>0
<1> HIDE DEF T, E
<1> SUFFICES ASSUME s_dirty' = "clean", NEW x \in MACs, s_leases'[x].in_use
             PROVE  Remembers(s_leases'[x], flash, x)
  BY DEF AllRemember
<1>2. s_dirty = "clean" /\ e.saved_observed_ip = persisted_observed_ip(e)
  BY <1>1, StillClean
<1>3. t \in Tables /\ \A y \in MACs : t[y] = Blank \/ (t[y] = s_leases[y] /\ s_leases[y].in_use)
  BY <1>1, DropType DEF WellFormed
<1>4. \A y \in MACs : Remembers(t[y], flash, y)
  BY <1>2, <1>3, BlankRemembers DEF AllRemember
<1>5. CASE x # m
  BY <1>1, <1>3, <1>4, <1>5 DEF Tables
<1>6. CASE x = m
  <2>1. t[m] \in Lease
    BY <1>3 DEF Tables
  <2>2. e.saved_ip = t[m].saved_ip /\ e.saved_observed_ip = t[m].saved_observed_ip
    BY <1>1, <2>1 DEF Lease
  <2>3. s_leases'[m] = e
    BY <1>1, <1>3 DEF Tables
  <2> QED BY <1>2, <1>4, <1>6, <2>2, <2>3 DEF Remembers
<1> QED BY <1>5, <1>6

LEMMA CutOffRemembers ==
  ASSUME s_leases \in Tables, AllRemember(s_leases, s_dirty, flash),
         NEW macs, SetQuarantined(macs)
  PROVE  AllRemember(s_leases', s_dirty', flash)
<1>1. PICK t : /\ t = [m \in MACs |-> IF s_leases[m].in_use
                                        THEN [s_leases[m] EXCEPT !.quarantined = (m \in macs)]
                                        ELSE s_leases[m]]
               /\ s_leases' = t
               /\ s_dirty' = mark_dirty(s_dirty,
                    \E m \in InUse(t) : t[m].saved_observed_ip # persisted_observed_ip(t[m]))
  BY DEF SetQuarantined
<1> SUFFICES ASSUME s_dirty' = "clean", NEW x \in MACs, t[x].in_use
             PROVE  Remembers(t[x], flash, x)
  BY <1>1 DEF AllRemember
<1>2. s_dirty = "clean" /\ t[x].saved_observed_ip = persisted_observed_ip(t[x])
  BY <1>1, StillClean DEF InUse
<1>3. s_leases[x] \in Lease
  BY DEF Tables
<1>4. /\ s_leases[x].in_use /\ t[x].saved_ip = s_leases[x].saved_ip
      /\ t[x].saved_observed_ip = s_leases[x].saved_observed_ip
  BY <1>1, <1>3 DEF Lease
<1>5. Remembers(s_leases[x], flash, x)
  BY <1>2, <1>4 DEF AllRemember
<1> QED BY <1>2, <1>4, <1>5 DEF Remembers

LEMMA NextRemembers ==
  ASSUME IndInv, AllRemember(s_leases, s_dirty, flash), [Next]_vars
  PROVE  AllRemember(s_leases', s_dirty', flash')
<1>0. s_leases \in Tables /\ WellFormed(s_leases) /\ s_boot_seq \in Nat /\ flash \in Blob
  BY IndInvParts
<1>1. CASE UNCHANGED vars
  BY <1>1 DEF vars
<1>2. ASSUME NEW S, s_leases' = Drop(s_leases, S), s_dirty' = "clean" => s_dirty = "clean",
             UNCHANGED flash
      PROVE  AllRemember(s_leases', s_dirty', flash')
  <2>1. \A x \in MACs : s_leases'[x] = IF x \in S THEN Blank ELSE s_leases[x]
    BY <1>0, <1>2, DropType
  <2>2. \A x \in MACs : s_leases'[x].in_use =>
          \E e : SameMemory(s_leases'[x], e)
                 /\ (e = Blank \/ (e = s_leases[x] /\ s_leases[x].in_use))
    BY <2>1, BlankType DEF SameMemory
  <2> QED BY <1>2, <2>2, MemoryKept
<1>3. ASSUME NEW m \in MACs, NEW requested \in Requested, NEW wired \in Ports,
             Discover(m, requested, wired) \/ Request(m, requested, wired)
      PROVE  AllRemember(s_leases', s_dirty', flash')
  <2>1. UNCHANGED flash
    BY <1>3 DEF Discover, Request
  <2>2. ASSUME NEW sel \in select_address(s_leases, m, requested, wired), NEW persist,
               Record(m, sel, persist)
        PROVE  AllRemember(s_leases', s_dirty', flash')
    <3>1. sel.ip \in Subnet
      BY <1>0, SelectType
    <3> QED BY <1>0, <2>1, <2>2, <3>1, RecordMemory, MemoryKept
  <2>3. CASE UNCHANGED <<s_leases, s_dirty>>
    BY <2>1, <2>3
  <2>4. ASSUME NEW S, s_leases' = Drop(s_leases, S),
               s_dirty' = mark_dirty(s_dirty, WasSaved(s_leases, S))
        PROVE  AllRemember(s_leases', s_dirty', flash')
    BY <1>2, <2>1, <2>4, StillClean
  <2> QED BY <1>3, <2>2, <2>3, <2>4 DEF Discover, Request
<1>4. ASSUME NEW m \in MACs, RequestOther(m) PROVE AllRemember(s_leases', s_dirty', flash')
  BY <1>2, <1>4 DEF RequestOther
<1>5. ASSUME NEW m \in MACs, Release(m) \/ LeaseExpires(m)
      PROVE  AllRemember(s_leases', s_dirty', flash')
  <2>1. UNCHANGED <<s_dirty, flash>> /\ s_leases[m].in_use
    BY <1>5 DEF Release, LeaseExpires
  <2>2. s_leases[m] \in Lease
    BY <1>0 DEF Tables
  <2>3. \A x \in MACs : SameMemory(s_leases'[x], s_leases[x])
                         /\ s_leases'[x].in_use = s_leases[x].in_use
    BY <1>0, <1>5, <2>2 DEF Release, LeaseExpires, SameMemory, Tables, Lease
  <2> QED BY <2>1, <2>3, MemoryKept
<1>6. ASSUME NEW m \in MACs, NEW requested \in Requested, Decline(m, requested)
      PROVE  AllRemember(s_leases', s_dirty', flash')
  BY <1>2, <1>6, StillClean DEF Decline
<1>7. ASSUME NEW s \in Sightings, NoteObserved(s[1], s[2])
      PROVE  AllRemember(s_leases', s_dirty', flash')
  <2>1. s[1] \in MACs
    BY InputAssumption
  <2>2. UNCHANGED flash
    BY <1>7 DEF NoteObserved
  <2> QED BY <1>0, <1>7, <2>1, <2>2, SightingRemembers
<1>8. ASSUME NEW macs \in Cuttable, SetQuarantined(macs)
      PROVE  AllRemember(s_leases', s_dirty', flash')
  BY <1>0, <1>8, CutOffRemembers DEF SetQuarantined
<1>9. CASE DebounceExpires \/ SaveFails
  <2>1. s_dirty' = "due"
    BY <1>9 DEF DebounceExpires, SaveFails, ram
  <2> QED BY <2>1 DEF AllRemember
<1>10. CASE SaveOk
  BY <1>0, <1>10, SaveRemembers
<1>11. CASE Reboot
  BY <1>0, <1>11, LoadRemembers DEF Reboot
<1> QED BY <1>1, <1>3, <1>4, <1>5, <1>6, <1>7, <1>8, <1>9, <1>10, <1>11 DEF Next

LEMMA InitClean == Init => CleanMeansSaved
<1> SUFFICES ASSUME Init PROVE CleanMeansSaved
  OBVIOUS
<1>1. flash \in Blob /\ s_leases = load_from_nvs(flash) /\ s_dirty = LoadDirty(flash)
  BY FlashAssumption DEF Init
<1>2. AllRemember(s_leases, s_dirty, flash)
  BY <1>1, LoadRemembers
<1> QED BY <1>2, RememberedIsClean

LEMMA NextClean == ASSUME IndInv, CleanMeansSaved, [Next]_vars PROVE CleanMeansSaved'
<1>1. AllRemember(s_leases', s_dirty', flash')
  BY RememberedIsClean, NextRemembers
<1> QED BY <1>1 DEF AllRemember, Remembers, CleanMeansSaved, InUse, persisted_observed_ip,
                    StoredObserved

\* While the table counts as saved, what every entry believes of flash is so, after
\* whatever sequence of sightings, cut-offs, failed and interrupted writes and reloads.
THEOREM CleanIsSaved == Spec => []CleanMeansSaved
<1>1. IndInv /\ CleanMeansSaved /\ [Next]_vars => CleanMeansSaved'
  BY NextClean
<1> QED BY <1>1, InitIndInv, NextIndInv, InitClean, PTL DEF Spec

-----------------------------------------------------------------------------
(* Reservations are sticky, among clients that keep to themselves.  What   *)
(* carries it: the address reserved for a client is in its own entry, or   *)
(* in that of somebody who was told it before; and an entry only ever goes *)
(* to somebody like that, because the scan of step 3 always finds an       *)
(* address that nobody's entry has.                                        *)

\* A blob of clients that all lease from the range that serves them.
Tidy(f) ==
  \A m \in MACs : f.table[m].ip \in Home(m) \cup {0} /\ f.table[m].observed_ip = 0

ServedFrom(range) == {m \in MACs : Home(m) = range}

\* A slot and an address for everybody.
Ample ==
  /\ Cardinality(MACs) <= MAX_LEASES
  /\ \A range \in {Pool, Wired} : Cardinality(ServedFrom(range)) <= Cardinality(range)
  /\ \A f \in InitialFlash : Tidy(f)

Plain(t) ==
  \A m \in MACs : t[m].in_use => t[m].ip \in Home(m) /\ t[m].observed_ip = 0 /\ ~t[m].quarantined

Gone(f, seq, m) ==
  f.version = 0 \/ (f.version >= 3 /\ Age(StoredSeq(f, m), seq) > FORGET_AFTER_BOOTS)

\* m's address of blob f is in m's entry, or in that of somebody told it.
Stays(t, f, r, m) ==
  \E x \in MACs : /\ t[x].in_use /\ t[x].ip = f.table[m].ip
                  /\ x # m => r[x] = f.table[m].ip

Kept(t, f, seq, r) ==
  \A m \in MACs : f.table[m].ip # 0 /\ ~Gone(f, seq, m) => Stays(t, f, r, m)

StickyInv ==
  /\ IndInv
  /\ remembers \in [MACs -> Addr]
  /\ s_declined = {}
  /\ Tidy(flash)
  /\ Plain(s_leases)
  /\ Kept(s_leases, flash, s_boot_seq, remembers)

LEMMA ReservedIs == \A m \in MACs : Reserved(m) = IF Gone(flash, s_boot_seq, m) THEN 0
                                                  ELSE flash.table[m].ip
BY DEF Reserved, Gone

LEMMA HomeFacts ==
  ASSUME NEW m \in MACs
  PROVE  /\ Home(m) \in {Pool, Wired} /\ Home(m) \subseteq Subnet
         /\ 0 \notin Home(m) /\ s_server_ip \notin Home(m) /\ IsFiniteSet(Home(m))
<1>1. Home(m) \in {Pool, Wired}
  BY DEF Home
<1>2. IsFiniteSet(Subnet)
  BY SubnetAssumption
<1>3. Home(m) \subseteq Subnet
  BY <1>1, RangesInSubnet
<1> QED BY <1>1, <1>2, <1>3, ServerAside, AddrFacts, FS_Subset

\* No address is in both ranges.
LEMMA OneHome ==
  ASSUME NEW m \in MACs, NEW n \in MACs, NEW ip, ip \in Home(m), ip \in Home(n)
  PROVE  Home(m) = Home(n)
<1>1. \A x \in Pool : x \notin Wired
  BY RangeAssumption DEF Pool, Wired, WiredRangeBad
<1> QED BY <1>1 DEF Home

\* What a load brings back: everybody's own address, unless it is gone.
LEMMA LoadKeeps ==
  ASSUME NEW f \in Blob, Tidy(f), NEW r
  PROVE  Plain(load_from_nvs(f)) /\ Kept(load_from_nvs(f), f, BootSeqAfter(f), r)
<1> DEFINE t == load_from_nvs(f)
<1>1. ASSUME NEW m \in MACs
      PROVE  /\ StoredObserved(f, m) = 0
             /\ LoadedEntry(f, m).in_use /\ LoadedEntry(f, m).ip = f.table[m].ip
             /\ LoadedEntry(f, m).observed_ip = 0 /\ ~LoadedEntry(f, m).quarantined
  BY DEF Tidy, StoredObserved, LoadedEntry
<1>2. ASSUME NEW m \in MACs
      PROVE  t[m] = IF m \in Restored(f) THEN LoadedEntry(f, m) ELSE Blank
  BY DEF load_from_nvs
<1>3. ASSUME NEW m \in MACs
      PROVE  m \in Restored(f) <=> f.table[m].ip # 0 /\ ~Gone(f, BootSeqAfter(f), m)
  BY <1>1 DEF Restored, Forgotten, InBlob, Gone, Blob
<1> HIDE DEF t
<1>4. Plain(t)
  BY <1>1, <1>2, <1>3, BlankType DEF Plain, Tidy
<1>5. ASSUME NEW m \in MACs, f.table[m].ip # 0, ~Gone(f, BootSeqAfter(f), m)
      PROVE  Stays(t, f, r, m)
  <2>1. t[m].in_use /\ t[m].ip = f.table[m].ip
    BY <1>1, <1>2, <1>3, <1>5
  <2> QED BY <2>1 DEF Stays
<1> QED BY <1>4, <1>5 DEF Kept, t

\* What is written is tidy, and says of everybody what the table says.
LEMMA BlobKeeps ==
  ASSUME Plain(s_leases), NEW seq, NEW r
  PROVE  Tidy(BlobOf(s_leases)) /\ Kept(s_leases, BlobOf(s_leases), seq, r)
<1>1. ASSUME NEW m \in MACs
      PROVE  /\ BlobOf(s_leases).table[m].ip = IF s_leases[m].in_use THEN s_leases[m].ip ELSE 0
             /\ BlobOf(s_leases).table[m].observed_ip = 0
  <2>1. BlobOf(s_leases).table[m] = StoredEntry(s_leases[m])
    BY DEF BlobOf
  <2> QED BY <2>1 DEF StoredEntry, Absent, persisted_observed_ip, Plain
<1>2. ASSUME NEW m \in MACs, BlobOf(s_leases).table[m].ip # 0
      PROVE  Stays(s_leases, BlobOf(s_leases), r, m)
  <2>1. s_leases[m].in_use /\ s_leases[m].ip = BlobOf(s_leases).table[m].ip
    BY <1>1, <1>2
  <2> QED BY <2>1 DEF Stays
<1> QED BY <1>1, <1>2 DEF Tidy, Kept, Plain

\* Somebody without an entry: there is an address of its range that nobody's
\* entry has.
LEMMA SomeAddressLeft ==
  ASSUME StickyInv, Ample, NEW m \in MACs, ~s_leases[m].in_use
  PROVE  Unclaimed(s_leases, Home(m)) # {}
<1> SUFFICES ASSUME Unclaimed(s_leases, Home(m)) = {} PROVE FALSE
  OBVIOUS
<1> DEFINE range == Home(m)
           S == {x \in InUse(s_leases) : Home(x) = range}
<1>0. /\ range \in {Pool, Wired} /\ 0 \notin range /\ s_server_ip \notin range
      /\ IsFiniteSet(range) /\ s_declined = {} /\ Plain(s_leases)
  BY HomeFacts DEF StickyInv
<1>1. ASSUME NEW a \in range
      PROVE  \E x \in S : s_leases[x].ip = a
  <2>1. PICK x \in find_by_any_ip(s_leases, a) : TRUE
    BY <1>0 DEF Unclaimed
  <2>2. x \in MACs /\ s_leases[x].in_use /\ s_leases[x].ip = a /\ a \in Home(x)
    BY <1>0, <2>1 DEF find_by_any_ip, Plain
  <2>3. Home(x) = range
    BY <2>2, OneHome
  <2> QED BY <2>2, <2>3 DEF InUse
<1> DEFINE h == [a \in range |-> CHOOSE x \in S : s_leases[x].ip = a]
<1>2. h \in [range -> S] /\ \A a \in range : s_leases[h[a]].ip = a
  BY <1>1
<1> HIDE DEF h
<1>3. S \subseteq ServedFrom(range) \ {m} /\ m \in ServedFrom(range)
  BY DEF InUse, ServedFrom
<1>4. IsFiniteSet(ServedFrom(range))
  BY FS_Subset, BoundAssumption DEF ServedFrom
<1>5. /\ IsFiniteSet(ServedFrom(range) \ {m})
      /\ Cardinality(ServedFrom(range) \ {m}) = Cardinality(ServedFrom(range)) - 1
  BY <1>3, <1>4, FS_RemoveElement
<1>6. IsFiniteSet(S) /\ Cardinality(S) <= Cardinality(ServedFrom(range) \ {m})
  BY <1>3, <1>5, FS_Subset
<1>7. Cardinality(ServedFrom(range)) <= Cardinality(range)
  BY <1>0 DEF Ample
<1> HIDE DEF S, range
<1>8. {Cardinality(ServedFrom(range)), Cardinality(S), Cardinality(range)} \subseteq Nat
  BY <1>0, <1>4, <1>6, FS_CardinalityType
<1>9. Cardinality(S) < Cardinality(range)
  BY <1>5, <1>6, <1>7, <1>8
<1>10. \E x, y \in range : x # y /\ h[x] = h[y]
  BY <1>0, <1>2, <1>6, <1>9, FS_PigeonHole
<1> QED BY <1>2, <1>10

LEMMA LeastOfNat ==
  ASSUME NEW S, S \subseteq Nat, S # {}
  PROVE  \E low \in S : \A y \in S : low <= y
<1> DEFINE R == {ss \in Nat \X Nat : ss[1] < ss[2]}
<1>1. IsWellFoundedOn(R, Nat)
  BY NatLessThanWellFounded DEF OpToRel
<1> HIDE DEF R
<1>2. PICK low \in S : \A y \in S : ~(<<y, low>> \in R)
  BY <1>1, WFMin
<1>3. ASSUME NEW y \in S PROVE low <= y
  <2>1. ~(y < low)
    BY <1>2 DEF R
  <2> QED BY <2>1
<1> QED BY <1>3

\* What select_address_locked() settles on: a client's own address, the one it
\* remembers, or one that no entry has; and nothing is reclaimed for it.
Settled(sel, m) ==
  /\ sel.victims = {} /\ sel.ip \in Home(m)
  /\ \/ s_leases[m].in_use /\ sel.ip = s_leases[m].ip
     \/ ~s_leases[m].in_use /\ sel.ip = remembers[m]
     \/ ~s_leases[m].in_use /\ \A x \in MACs : s_leases[x].in_use => s_leases[x].ip # sel.ip

LEMMA SelectInKeeps ==
  ASSUME StickyInv, Ample, NEW m \in MACs, NEW requested \in {0, remembers[m]}
  PROVE  /\ \A sel \in SelectIn(s_leases, m, requested, Home(m)) : Settled(sel, m)
         /\ SelectIn(s_leases, m, requested, Home(m)) # {}
<1> DEFINE range == Home(m)
<1>0. /\ s_leases \in Tables /\ WellFormed(s_leases) /\ Plain(s_leases)
      /\ s_declined = {} /\ 0 \notin range
  BY IndInvParts, HomeFacts DEF StickyInv
<1>1. CASE s_leases[m].in_use
  <2>1. s_leases[m].ip \in range /\ ~s_leases[m].quarantined
    BY <1>0, <1>1 DEF Plain
  <2>2. \A x \in MACs \ {m} : s_leases[x].in_use =>
          s_leases[x].ip # s_leases[m].ip /\ s_leases[x].observed_ip = 0
    BY <1>0, <1>1, <2>1 DEF WellFormed, Plain
  <2>3. Grantable(s_leases, m, s_leases[m].ip, range)
    BY <1>0, <2>1, <2>2 DEF Grantable, ip_in_use
  <2>4. SelectIn(s_leases, m, requested, range) = {[ip |-> s_leases[m].ip, victims |-> {}]}
    BY <1>1, <2>1, <2>3 DEF SelectIn
  <2> QED BY <1>1, <2>1, <2>4 DEF Settled
<1>2. CASE ~s_leases[m].in_use /\ Grantable(s_leases, m, requested, range)
  <2>1. SelectIn(s_leases, m, requested, range) = {[ip |-> requested, victims |-> {}]}
    BY <1>2 DEF SelectIn
  <2>2. requested \in range /\ requested = remembers[m]
    BY <1>0, <1>2 DEF Grantable
  <2> QED BY <1>2, <2>1, <2>2 DEF Settled
<1>3. CASE ~s_leases[m].in_use /\ ~Grantable(s_leases, m, requested, range)
  <2>1. Unclaimed(s_leases, range) # {}
    BY <1>3, SomeAddressLeft
  <2>2. SelectIn(s_leases, m, requested, range)
          = {[ip |-> a, victims |-> {}] : a \in Lowest(Unclaimed(s_leases, range))}
    BY <1>3, <2>1 DEF SelectIn
  <2>3. ASSUME NEW a \in Lowest(Unclaimed(s_leases, range))
        PROVE  Settled([ip |-> a, victims |-> {}], m)
    <3>1. a \in range /\ find_by_any_ip(s_leases, a) = {}
      BY DEF Lowest, Unclaimed
    <3>2. \A x \in MACs : s_leases[x].in_use => s_leases[x].ip # a
      BY <1>0, <3>1 DEF find_by_any_ip, Plain
    <3> QED BY <1>3, <3>1, <3>2 DEF Settled
  <2>4. Lowest(Unclaimed(s_leases, range)) # {}
    <3>1. Unclaimed(s_leases, range) \subseteq Nat
      BY HomeFacts, SubnetAssumption DEF Unclaimed
    <3>2. PICK low \in Unclaimed(s_leases, range) :
                 \A y \in Unclaimed(s_leases, range) : low <= y
      BY <2>1, <3>1, LeastOfNat
    <3> QED BY <3>2 DEF Lowest
  <2> QED BY <2>2, <2>3, <2>4
<1> QED BY <1>1, <1>2, <1>3

LEMMA SelectKeeps ==
  ASSUME StickyInv, Ample, NEW m \in MACs, NEW requested \in {0, remembers[m]},
         NEW sel \in select_address(s_leases, m, requested, m \in Cabled)
  PROVE  Settled(sel, m)
<1>1. CASE m \in Cabled /\ Wired # {}
  <2>1. Home(m) = Wired
    BY <1>1 DEF Home
  <2>2. SelectIn(s_leases, m, requested, Wired) # {}
    BY <2>1, SelectInKeeps
  <2>3. sel \in SelectIn(s_leases, m, requested, Wired)
    BY <1>1, <2>2 DEF select_address
  <2> QED BY <2>1, <2>3, SelectInKeeps
<1>2. CASE ~(m \in Cabled /\ Wired # {})
  <2>1. Home(m) = Pool /\ sel \in SelectIn(s_leases, m, requested, Pool)
    BY <1>2 DEF Home, select_address
  <2> QED BY <2>1, SelectInKeeps
<1> QED BY <1>1, <1>2

\* Recording it evicts nobody; it clears a previous holder only for somebody
\* who remembers the address.
LEMMA RecordKeeps ==
  ASSUME StickyInv, Ample, NEW m \in MACs, NEW requested \in {0, remembers[m]},
         NEW sel \in select_address(s_leases, m, requested, m \in Cabled),
         NEW persist, Record(m, sel, persist)
  PROVE  /\ Plain(s_leases') /\ s_leases'[m].in_use /\ s_leases'[m].ip = sel.ip
         /\ \A x \in MACs \ {m} : s_leases'[x].in_use => s_leases'[x] = s_leases[x]
         /\ \A x \in MACs \ {m} : s_leases[x].in_use /\ s_leases[x].ip # sel.ip
                                    => s_leases'[x] = s_leases[x]
<1>0. s_leases \in Tables /\ WellFormed(s_leases) /\ s_boot_seq \in Nat /\ Plain(s_leases)
  BY IndInvParts DEF StickyInv
<1>1. sel.victims = {} /\ sel.ip \in Home(m) /\ sel.ip \in Addr
  BY SelectKeeps, HomeFacts, AddrFacts DEF Settled
<1>2. \A t \in Tables : Drop(t, {}) = t
  BY DEF Drop, Tables
<1>3. SlotEvictions(s_leases, m) = {{}}
  <2>1. CASE s_leases[m].in_use
    BY <2>1 DEF SlotEvictions
  <2>2. CASE ~s_leases[m].in_use
    <3>1. InUse(s_leases) \in SUBSET (MACs \ {m})
      BY <2>2 DEF InUse
    <3>2. /\ IsFiniteSet(MACs \ {m}) /\ Cardinality(MACs \ {m}) = Cardinality(MACs) - 1
      BY FS_RemoveElement, BoundAssumption
    <3>3. Cardinality(InUse(s_leases)) <= Cardinality(MACs \ {m})
      BY <3>1, <3>2, FS_Subset
    <3>4. Cardinality(MACs) \in Nat /\ Cardinality(InUse(s_leases)) \in Nat
      BY FS_CardinalityType, BoundAssumption, InUseFinite
    <3>5. Cardinality(InUse(s_leases)) < MAX_LEASES
      BY <3>2, <3>3, <3>4, BoundAssumption DEF Ample
    <3> QED BY <3>5 DEF SlotEvictions
  <2> QED BY <2>1, <2>2
<1>4. Drop(s_leases, sel.victims) = s_leases /\ Drop(s_leases, {}) = s_leases
  BY <1>0, <1>1, <1>2
<1>5. PICK clash \in Clashes(s_leases, m, sel.ip) :
        s_leases' = Committed(Drop(s_leases, {} \cup clash), m, sel.ip)
  BY <1>3, <1>4 DEF Record
<1>6. \A x \in clash : x # m /\ s_leases[x].ip = sel.ip
  BY DEF Clashes
<1> DEFINE u == Drop(s_leases, {} \cup clash)
<1>7. u \in Tables /\ \A x \in MACs : u[x] = IF x \in clash THEN Blank ELSE s_leases[x]
  BY <1>0, DropType
<1>8. s_leases' = Committed(u, m, sel.ip)
  BY <1>5
<1> HIDE DEF u
<1>9. /\ s_leases'[m].in_use /\ s_leases'[m].ip = sel.ip
      /\ s_leases'[m].quarantined = u[m].quarantined
      /\ s_leases'[m].observed_ip = u[m].observed_ip
      /\ \A x \in MACs \ {m} : s_leases'[x] = u[x]
  BY <1>0, <1>1, <1>7, <1>8, CommittedType
<1>10. u[m].observed_ip = 0 /\ ~u[m].quarantined
  BY <1>0, <1>6, <1>7 DEF WellFormed, Blank, Plain
<1>11. \A x \in MACs \ {m} : s_leases'[x].in_use => s_leases'[x] = s_leases[x]
  BY <1>7, <1>9, BlankType
<1>12. Plain(s_leases')
  BY <1>0, <1>1, <1>9, <1>10, <1>11 DEF Plain
<1> QED BY <1>6, <1>7, <1>9, <1>11, <1>12

\* The reply of a step agrees with what was reserved before it.
FromFlash ==
  out'.type \in {"OFFER", "ACK"} =>
    LET n == out'.mac
    IN  /\ \A m \in MACs \ {n} : Reserved(m) = out'.ip => remembers[n] = out'.ip
        /\ \/ Reserved(n) \in {0, out'.ip}
           \/ \E x \in MACs \ {n} : /\ s_leases[x].in_use
                                    /\ s_leases[x].ip = Reserved(n)
                                    /\ remembers[x] = Reserved(n)

LEMMA SettledFromFlash ==
  ASSUME StickyInv, NEW m \in MACs, NEW sel, Settled(sel, m),
         out'.mac = m, out'.ip = sel.ip
  PROVE  FromFlash
<1>0. WellFormed(s_leases) /\ 0 \notin Home(m) /\ Kept(s_leases, flash, s_boot_seq, remembers)
  BY IndInvParts, HomeFacts DEF StickyInv
<1>1. ASSUME NEW x \in MACs, Reserved(x) # 0
      PROVE  \E y \in MACs : /\ s_leases[y].in_use /\ s_leases[y].ip = Reserved(x)
                             /\ y # x => remembers[y] = Reserved(x)
  BY <1>0, <1>1, ReservedIs DEF Kept, Stays
<1>2. sel.ip # 0
  BY <1>0 DEF Settled
<1>3. ASSUME NEW x \in MACs \ {m}, Reserved(x) = sel.ip PROVE remembers[m] = sel.ip
  <2>1. PICK y \in MACs : /\ s_leases[y].in_use /\ s_leases[y].ip = sel.ip
                          /\ y # x => remembers[y] = sel.ip
    BY <1>1, <1>2, <1>3
  <2>2. CASE s_leases[m].in_use /\ sel.ip = s_leases[m].ip
    <3>1. y = m
      BY <1>0, <1>2, <2>1, <2>2 DEF WellFormed
    <3> QED BY <2>1, <3>1
  <2> QED BY <2>1, <2>2 DEF Settled
<1>4. \/ Reserved(m) \in {0, sel.ip}
      \/ \E x \in MACs \ {m} : /\ s_leases[x].in_use
                               /\ s_leases[x].ip = Reserved(m)
                               /\ remembers[x] = Reserved(m)
  <2>1. SUFFICES ASSUME Reserved(m) # 0, Reserved(m) # sel.ip
                 PROVE  \E x \in MACs \ {m} : /\ s_leases[x].in_use
                                              /\ s_leases[x].ip = Reserved(m)
                                              /\ remembers[x] = Reserved(m)
    OBVIOUS
  <2>2. PICK y \in MACs : /\ s_leases[y].in_use /\ s_leases[y].ip = Reserved(m)
                          /\ y # m => remembers[y] = Reserved(m)
    BY <1>1, <2>1
  <2>3. y # m
    BY <2>1, <2>2 DEF Settled
  <2> QED BY <2>2, <2>3
<1> QED BY <1>3, <1>4 DEF FromFlash

\* What a message that is answered leaves of the invariant.
LEMMA SettledKeeps ==
  ASSUME StickyInv, Ample, NEW m \in MACs, NEW requested \in {0, remembers[m]},
         NEW sel \in select_address(s_leases, m, requested, m \in Cabled),
         NEW persist, Record(m, sel, persist), NEW r,
         r = remembers \/ r = [remembers EXCEPT ![m] = sel.ip]
  PROVE  /\ Plain(s_leases') /\ r \in [MACs -> Addr]
         /\ Kept(s_leases', flash, s_boot_seq, r)
<1>0. /\ Plain(s_leases') /\ s_leases'[m].in_use /\ s_leases'[m].ip = sel.ip
      /\ \A x \in MACs \ {m} : s_leases'[x].in_use => s_leases'[x] = s_leases[x]
      /\ \A x \in MACs \ {m} : s_leases[x].in_use /\ s_leases[x].ip # sel.ip
                                 => s_leases'[x] = s_leases[x]
  BY RecordKeeps
<1>1. /\ WellFormed(s_leases) /\ remembers \in [MACs -> Addr]
      /\ Kept(s_leases, flash, s_boot_seq, remembers) /\ Settled(sel, m)
  BY IndInvParts, SelectKeeps DEF StickyInv
<1>2. sel.ip \in Addr /\ sel.ip # 0
  BY <1>1, HomeFacts, AddrFacts DEF Settled
<1>3. /\ r \in [MACs -> Addr] /\ r[m] \in {remembers[m], sel.ip}
      /\ \A x \in MACs \ {m} : r[x] = remembers[x]
  BY <1>1, <1>2
<1>4. ASSUME NEW x \in MACs, flash.table[x].ip # 0, ~Gone(flash, s_boot_seq, x)
      PROVE  Stays(s_leases', flash, r, x)
  <2>1. PICK y \in MACs : /\ s_leases[y].in_use /\ s_leases[y].ip = flash.table[x].ip
                          /\ y # x => remembers[y] = flash.table[x].ip
    BY <1>1, <1>4 DEF Kept, Stays
  <2>2. CASE y # m /\ s_leases[y].ip # sel.ip
    <3>1. s_leases'[y] = s_leases[y] /\ r[y] = remembers[y]
      BY <1>0, <1>3, <2>1, <2>2
    <3> QED BY <2>1, <3>1 DEF Stays
  <2>3. CASE y = m
    <3>1. sel.ip = s_leases[m].ip
      BY <1>1, <2>1, <2>3 DEF Settled
    <3>2. y # x => r[y] = flash.table[x].ip
      BY <1>3, <2>1, <2>3, <3>1
    <3> QED BY <1>0, <2>1, <2>3, <3>1, <3>2 DEF Stays
  <2>4. CASE y # m /\ s_leases[y].ip = sel.ip
    <3>1. ~(s_leases[m].in_use /\ sel.ip = s_leases[m].ip)
      BY <1>1, <1>2, <2>1, <2>4 DEF WellFormed
    <3>2. sel.ip = remembers[m]
      BY <1>1, <2>1, <2>4, <3>1 DEF Settled
    <3>3. r[m] = sel.ip
      BY <1>3, <3>2
    <3> QED BY <1>0, <2>1, <2>4, <3>3 DEF Stays
  <2> QED BY <2>2, <2>3, <2>4
<1> QED BY <1>0, <1>3, <1>4 DEF Kept

\* A step that leaves every entry's lease and everything Plain speaks of alone.
LEMMA SameKept ==
  ASSUME NEW t, NEW u, NEW f, NEW seq, NEW r, Plain(t), Kept(t, f, seq, r),
         \A x \in MACs : /\ u[x].in_use = t[x].in_use /\ u[x].ip = t[x].ip
                         /\ u[x].observed_ip = t[x].observed_ip
                         /\ u[x].quarantined = t[x].quarantined
  PROVE  Plain(u) /\ Kept(u, f, seq, r)
BY DEF Kept, Plain, Stays

\* What a step has to establish.
LEMMA StickyParts ==
  ASSUME IndInv', remembers' \in [MACs -> Addr], s_declined' = {}, Tidy(flash'),
         Plain(s_leases'), Kept(s_leases', flash', s_boot_seq', remembers')
  PROVE  StickyInv'
BY DEF StickyInv, Tidy, Plain, Kept, Stays, Gone, StoredSeq, Age, Home, Pool, Wired, WiredRangeBad

LEMMA AnswerKeeps ==
  ASSUME StickyInv, Ample, NEW m \in MACs, NEW requested \in {0, remembers[m]},
         Asks(m, requested)
  PROVE  StickyInv' /\ FromFlash
<1> DEFINE wired == m \in Cabled
<1>a. wired \in BOOLEAN
  OBVIOUS
<1>b. IndInv /\ (Discover(m, requested, wired) \/ Request(m, requested, wired))
  BY DEF StickyInv, Asks
<1> HIDE DEF wired
<1>c. IndInv'
  BY <1>a, <1>b, DiscoverStep, RequestStep
<1> USE DEF wired
<1>0. /\ IndInv' /\ Plain(s_leases) /\ s_declined = {} /\ Tidy(flash)
      /\ Kept(s_leases, flash, s_boot_seq, remembers) /\ remembers \in [MACs -> Addr]
  BY <1>c DEF StickyInv
<1>1. UNCHANGED <<s_declined, s_boot_seq, flash>> /\ Hears(m)
  BY DEF Asks, Discover, Request
<1>2. CASE UNCHANGED s_leases /\ out'.type \notin {"OFFER", "ACK"}
  <2>1. UNCHANGED remembers
    BY <1>1, <1>2 DEF Hears
  <2> QED BY <1>0, <1>1, <1>2, <2>1, StickyParts DEF FromFlash
<1>3. ASSUME NEW sel \in select_address(s_leases, m, requested, wired), NEW persist,
             Record(m, sel, persist), out'.mac = m, out'.ip = sel.ip
      PROVE  StickyInv' /\ FromFlash
  <2>1. remembers' = remembers \/ remembers' = [remembers EXCEPT ![m] = sel.ip]
    BY <1>1, <1>3 DEF Hears
  <2>2. /\ Plain(s_leases') /\ remembers' \in [MACs -> Addr]
        /\ Kept(s_leases', flash, s_boot_seq, remembers')
    BY <1>3, <2>1, SettledKeeps
  <2>3. Settled(sel, m)
    BY <1>3, SelectKeeps
  <2>4. FromFlash
    BY <1>3, <2>3, SettledFromFlash
  <2> QED BY <1>0, <1>1, <2>2, <2>4, StickyParts
<1>4. ASSUME NEW sel \in select_address(s_leases, m, requested, wired),
             s_leases' = Drop(s_leases, sel.victims), out'.type = "NAK"
      PROVE  StickyInv' /\ FromFlash
  <2>1. sel.victims = {}
    BY SelectKeeps DEF Settled
  <2>2. s_leases' = s_leases
    BY <1>4, <2>1, IndInvParts DEF Drop, Tables, StickyInv
  <2> QED BY <1>2, <1>4, <2>2
<1>5. CASE Discover(m, requested, wired)
  <2>1. CASE out' = NoReply /\ UNCHANGED s_leases
    BY <1>2, <2>1 DEF NoReply
  <2>2. ASSUME NEW sel \in select_address(s_leases, m, requested, wired),
               Record(m, sel, FALSE),
               out' = [type |-> "OFFER", mac |-> m, ip |-> sel.ip, wired |-> wired]
        PROVE  StickyInv' /\ FromFlash
    <3>1. out'.mac = m /\ out'.ip = sel.ip
      BY <2>2
    <3> QED BY <1>3, <2>2, <3>1
  <2> QED BY <1>5, <2>1, <2>2, Zenon DEF Discover
<1>6. CASE Request(m, requested, wired)
  <2> DEFINE nak == [type |-> "NAK", mac |-> m, ip |-> 0, wired |-> wired]
  <2>0. nak.type = "NAK"
    OBVIOUS
  <2>1. CASE out' = nak /\ UNCHANGED s_leases
    BY <1>2, <2>0, <2>1
  <2>2. ASSUME NEW sel \in select_address(s_leases, m, requested, wired),
               Record(m, sel, TRUE),
               out' = [type |-> "ACK", mac |-> m, ip |-> sel.ip, wired |-> wired]
        PROVE  StickyInv' /\ FromFlash
    <3>1. out'.mac = m /\ out'.ip = sel.ip
      BY <2>2
    <3> QED BY <1>3, <2>2, <3>1
  <2>3. ASSUME NEW sel \in select_address(s_leases, m, requested, wired),
               s_leases' = Drop(s_leases, sel.victims), out' = nak
        PROVE  StickyInv' /\ FromFlash
    BY <1>4, <2>0, <2>3
  <2> QED BY <1>6, <2>1, <2>2, <2>3, Zenon DEF Request
<1> QED BY <1>5, <1>6 DEF Asks

LEMMA QuietKeeps ==
  ASSUME StickyInv, Ample, QuietNext
  PROVE  StickyInv' /\ FromFlash
<1>0. /\ s_leases \in Tables /\ WellFormed(s_leases) /\ flash \in Blob
      /\ IndInv /\ s_declined = {} /\ Tidy(flash) /\ remembers \in [MACs -> Addr]
      /\ Plain(s_leases) /\ Kept(s_leases, flash, s_boot_seq, remembers)
  BY IndInvParts DEF StickyInv
<1>1. ASSUME NEW m \in MACs, NEW requested \in {0, remembers[m]}, Asks(m, requested)
      PROVE  StickyInv' /\ FromFlash
  BY <1>1, AnswerKeeps
<1>2. ASSUME out' = NoReply PROVE FromFlash
  BY <1>2 DEF FromFlash, NoReply
<1>3. CASE Unasked /\ \E m \in MACs : Release(m) \/ LeaseExpires(m)
  <2>1. PICK m \in MACs : Release(m) \/ LeaseExpires(m)
    BY <1>3
  <2>2. s_leases[m] \in Lease
    BY <1>0 DEF Tables
  <2>3. \A x \in MACs : /\ s_leases'[x].in_use = s_leases[x].in_use
                        /\ s_leases'[x].ip = s_leases[x].ip
                        /\ s_leases'[x].observed_ip = s_leases[x].observed_ip
                        /\ s_leases'[x].quarantined = s_leases[x].quarantined
    BY <1>0, <2>1, <2>2 DEF Release, LeaseExpires, Tables, Lease
  <2>4. Plain(s_leases') /\ Kept(s_leases', flash, s_boot_seq, remembers)
    BY <1>0, <2>3, SameKept
  <2>5. UNCHANGED <<s_declined, s_boot_seq, flash, remembers>> /\ out' = NoReply
    BY <1>3, <2>1 DEF Release, LeaseExpires, Unasked
  <2>6. IndInv'
    BY <1>0, <2>1, ReleaseStep
  <2> QED BY <1>0, <1>2, <2>4, <2>5, <2>6, StickyParts
<1>4. CASE Unasked /\ DebounceExpires
  <2>1. UNCHANGED <<s_leases, s_declined, s_boot_seq, flash, remembers>> /\ out' = NoReply
    BY <1>4 DEF DebounceExpires, Unasked
  <2>2. IndInv'
    BY <1>0, <1>4, FlashSteps
  <2> QED BY <1>0, <1>2, <2>1, <2>2, StickyParts
<1>5. CASE Unasked /\ SaveFails
  <2>1. UNCHANGED <<s_leases, s_declined, s_boot_seq, remembers>>
        /\ flash' \in {flash, BlobOf(s_leases)} /\ out' = NoReply
    BY <1>5 DEF SaveFails, ram, Unasked
  <2>2. Tidy(flash') /\ Kept(s_leases, flash', s_boot_seq, remembers)
    BY <1>0, <2>1, BlobKeeps
  <2>3. IndInv'
    BY <1>0, <1>5, FlashSteps
  <2> QED BY <1>0, <1>2, <2>1, <2>2, <2>3, StickyParts
<1>6. CASE Unasked /\ SaveOk
  <2>1. /\ s_leases' = [m \in MACs |-> AsSaved(s_leases[m])]
        /\ UNCHANGED <<s_declined, s_boot_seq, remembers>>
        /\ flash' = BlobOf(s_leases) /\ out' = NoReply
    BY <1>6 DEF SaveOk, Unasked
  <2>2. Tidy(flash') /\ Kept(s_leases, flash', s_boot_seq, remembers)
    BY <1>0, <2>1, BlobKeeps
  <2>3. ASSUME NEW x \in MACs
        PROVE  /\ s_leases'[x].in_use = s_leases[x].in_use
               /\ s_leases'[x].ip = s_leases[x].ip
               /\ s_leases'[x].observed_ip = s_leases[x].observed_ip
               /\ s_leases'[x].quarantined = s_leases[x].quarantined
    <3>1. s_leases[x] \in Lease /\ s_leases'[x] = AsSaved(s_leases[x])
      BY <1>0, <2>1 DEF Tables
    <3> QED BY <3>1 DEF AsSaved, Lease
  <2>4. Plain(s_leases') /\ Kept(s_leases', flash', s_boot_seq, remembers)
    BY <1>0, <2>2, <2>3, SameKept
  <2>5. IndInv'
    BY <1>0, <1>6, FlashSteps
  <2> QED BY <1>0, <1>2, <2>1, <2>2, <2>4, <2>5, StickyParts
<1>7. CASE Unasked /\ Reboot
  <2>1. /\ s_leases' = load_from_nvs(flash) /\ s_boot_seq' = BootSeqAfter(flash)
        /\ s_declined' = {} /\ UNCHANGED <<flash, remembers>> /\ out' = NoReply
    BY <1>7 DEF Reboot, Unasked
  <2>2. Plain(s_leases') /\ Kept(s_leases', flash, s_boot_seq', remembers)
    BY <1>0, <2>1, LoadKeeps
  <2>3. IndInv'
    BY <1>0, <1>7, FlashSteps
  <2> QED BY <1>0, <1>2, <2>1, <2>2, <2>3, StickyParts
<1> QED BY <1>1, <1>3, <1>4, <1>5, <1>6, <1>7 DEF QuietNext, Unasked

\* With a slot and an address for everybody, on whichever port, the address that
\* flash holds for one client goes to another only if that one was told it before,
\* and a client is kept from it only by somebody who was: across lost replies,
\* releases, lapsed leases, failed writes, missed boots and restarts.
THEOREM ReservationsStick == ASSUME Ample PROVE QuietSpec => Sticky
<1>1. QuietInit => StickyInv
  <2> SUFFICES ASSUME QuietInit PROVE StickyInv
    OBVIOUS
  <2>1. flash \in Blob /\ Tidy(flash) /\ remembers \in [MACs -> Addr]
    BY FlashAssumption, ClientAssumption DEF QuietInit, Init, Ample
  <2>2. /\ IndInv /\ s_declined = {} /\ s_leases = load_from_nvs(flash)
        /\ s_boot_seq = BootSeqAfter(flash)
    BY InitIndInv DEF QuietInit, Init
  <2> QED BY <2>1, <2>2, LoadKeeps DEF StickyInv
<1>2. StickyInv /\ [QuietNext]_stickyVars => StickyInv' /\ [FromFlash]_stickyVars
  <2>1. CASE UNCHANGED stickyVars
    <3>1. StickyInv /\ UNCHANGED stickyVars => StickyInv'
      <4> SUFFICES ASSUME StickyInv, UNCHANGED stickyVars PROVE StickyInv'
        OBVIOUS
      <4>1. IndInv'
        BY NextIndInv DEF StickyInv, stickyVars, vars
      <4> QED BY <4>1, StickyParts DEF StickyInv, stickyVars
    <3> QED BY <2>1, <3>1
  <2> QED BY <2>1, QuietKeeps
<1>3. [][FromFlash]_stickyVars <=> Sticky
  BY DEF Sticky, FromFlash
<1> QED BY <1>1, <1>2, <1>3, PTL DEF QuietSpec
=============================================================================
