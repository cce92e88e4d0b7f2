---------------------------- MODULE DhcpLanProofs ---------------------------
(***************************************************************************)
(* No two clients ever hold the same address on the word of one boot: the  *)
(* server implements AddressGrants, for any number of clients, any table   *)
(* size and any ranges, a wired one included.                              *)
(*                                                                         *)
(* The table invariant says who may be standing on an address that a       *)
(* reclaim can hand out.  An entry is "lonely" in a range when it was not  *)
(* heard this boot, leases nothing in it and was seen on an address of it: *)
(* reclaiming it hands out that address, so nobody may lease it.           *)
(*                                                                         *)
(* A grant is, moreover, in flash once the table is clean.                 *)
(***************************************************************************)
EXTENDS DhcpLan, DhcpProofs

Heard(e, seq) == e.last_seen_seq >= seq

Ranges == {Pool, Wired}

Lonely(e, seq, range) ==
  e.in_use /\ ~Heard(e, seq) /\ e.ip \notin range /\ e.observed_ip \in range

\* A cut-off client was heard this boot; a lonely entry's address is nobody
\* else's lease, nor the only claim of another entry not heard this boot.
Safe(t, seq) ==
  /\ \A v \in MACs : t[v].in_use /\ t[v].quarantined => Heard(t[v], seq)
  /\ \A range \in Ranges : \A v, w \in MACs :
       v # w /\ Lonely(t[v], seq, range) /\ t[w].in_use =>
         /\ t[w].ip # t[v].observed_ip
         /\ t[w].observed_ip = t[v].observed_ip => Heard(t[w], seq) \/ t[w].ip \in range

\* The entry behind a grant.
Backs(e, seq, ip) ==
  /\ e.in_use /\ ~e.quarantined
  /\ e.ip = ip
  /\ e.expires = "live" /\ Heard(e, seq)

Backed(t, seq, g) == \A m \in MACs : g[m] # 0 => Backs(t[m], seq, g[m])

LanInv ==
  /\ IndInv
  /\ granted \in [MACs -> Addr]
  /\ Safe(s_leases, s_boot_seq)
  /\ Backed(s_leases, s_boot_seq, granted)

-----------------------------------------------------------------------------
LEMMA RangeFacts ==
  /\ \A range \in Ranges : range \subseteq Subnet /\ 0 \notin range
  /\ \A ip : \A range, other \in Ranges : ip \in range /\ ip \in other => range = other
<1>1. \A ip \in Pool : ip \notin Wired
  BY RangeAssumption DEF Pool, Wired, WiredRangeBad
<1>2. \A range \in Ranges : range \subseteq Subnet /\ 0 \notin range
  BY RangesInSubnet, AddrFacts DEF Ranges
<1>3. \A ip : \A range, other \in Ranges : ip \in range /\ ip \in other => range = other
  BY <1>1 DEF Ranges
<1> QED BY <1>2, <1>3

\* What take_free_slot_locked() evicts was not heard this boot.
LEMMA EvictedSilent ==
  ASSUME NEW t, NEW m \in MACs, NEW ev \in SlotEvictions(t, m)
  PROVE  \A x \in ev : x \in MACs /\ x # m /\ t[x].in_use /\ ~Heard(t[x], s_boot_seq)
<1>1. CASE ev = {}
  BY <1>1
<1>2. ASSUME NEW v \in pick_victim(t, {}), ev = {v}, ~t[m].in_use
      PROVE  \A x \in ev : x \in MACs /\ x # m /\ t[x].in_use /\ ~Heard(t[x], s_boot_seq)
  <2>1. v \in MACs /\ t[v].in_use /\ ~Heard(t[v], s_boot_seq)
    BY DEF pick_victim, Oldest, VictimsOfPass, seen_this_boot, Heard
  <2> QED BY <1>2, <2>1
<1> QED BY <1>1, <1>2 DEF SlotEvictions

\* A choice of address that takes nothing from anybody who was heard: it is
\* nobody else's grant, nor one that a later reclaim could hand out again.
Harmless(sel, t, m, g) ==
  /\ sel.ip \in Subnet
  /\ \A n \in MACs \ {m} : g[n] # 0 => g[n] # sel.ip
  /\ \A v \in sel.victims : v \in MACs /\ ~Heard(t[v], s_boot_seq)
  /\ \A range \in Ranges, v \in MACs \ {m} :
       v \notin sel.victims /\ Lonely(t[v], s_boot_seq, range) => t[v].observed_ip # sel.ip

\* select_address_locked() in either range makes such a choice.
LEMMA SelectInSafe ==
  ASSUME NEW t \in Tables, WellFormed(t), Safe(t, s_boot_seq), NEW g,
         Backed(t, s_boot_seq, g), NEW m \in MACs, NEW requested,
         NEW range \in Ranges, NEW sel \in SelectIn(t, m, requested, range)
  PROVE  Harmless(sel, t, m, g)
<1>0. sel.ip \in range /\ sel.ip \in Subnet /\ 0 \notin range
  BY SelectInType, RangeFacts
<1>1. ASSUME NEW ip, sel = [ip |-> ip, victims |-> {}],
             \A x \in MACs \ {m} :
               t[x].in_use /\ ~t[x].quarantined =>
                 t[x].observed_ip # ip /\ ~(t[x].ip = ip /\ t[x].expires = "live")
      PROVE  Harmless(sel, t, m, g)
  BY <1>0, <1>1 DEF Harmless, Backed, Backs, Safe, Lonely
<1>2. CASE t[m].in_use /\ ~t[m].quarantined /\ Grantable(t, m, t[m].ip, range)
  BY <1>1, <1>2 DEF SelectIn, Grantable, ip_in_use
<1>3. CASE /\ ~(t[m].in_use /\ ~t[m].quarantined /\ Grantable(t, m, t[m].ip, range))
           /\ Grantable(t, m, requested, range)
  BY <1>1, <1>3 DEF SelectIn, Grantable, ip_in_use
<1>4. CASE /\ ~(t[m].in_use /\ ~t[m].quarantined /\ Grantable(t, m, t[m].ip, range))
           /\ ~Grantable(t, m, requested, range)
           /\ Unclaimed(t, range) # {}
  <2>1. PICK a \in Lowest(Unclaimed(t, range)) : sel = [ip |-> a, victims |-> {}]
    BY <1>4 DEF SelectIn
  <2>2. find_by_any_ip(t, a) = {}
    BY DEF Lowest, Unclaimed
  <2>3. \A x \in MACs : t[x].in_use /\ ~t[x].quarantined =>
                          t[x].observed_ip # a /\ t[x].ip # a
    BY <2>2 DEF find_by_any_ip
  <2> QED BY <1>1, <2>1, <2>3
<1>5. CASE /\ ~(t[m].in_use /\ ~t[m].quarantined /\ Grantable(t, m, t[m].ip, range))
           /\ ~Grantable(t, m, requested, range)
           /\ Unclaimed(t, range) = {}
  <2>1. PICK v \in pick_victim(t, {range}) :
               sel = [ip |-> reclaimable_address(t[v], range), victims |-> {v}]
    BY <1>5 DEF SelectIn
  <2>2. v \in MACs /\ t[v].in_use /\ ~Heard(t[v], s_boot_seq)
    BY DEF pick_victim, Oldest, VictimsOfPass, seen_this_boot, Heard
  <2>3. CASE t[v].ip \in range
    <3>1. sel.ip = t[v].ip
      BY <2>1, <2>3 DEF reclaimable_address
    <3>2. \A n \in MACs \ {m} : g[n] # 0 => g[n] # sel.ip
      BY <1>0, <3>1, <2>2, <2>3 DEF Backed, Backs, WellFormed
    <3>3. \A other \in Ranges, x \in MACs \ {m} :
            x # v /\ Lonely(t[x], s_boot_seq, other) => t[x].observed_ip # sel.ip
      BY <3>1, <2>2 DEF Safe
    <3> QED BY <1>0, <2>1, <2>2, <3>2, <3>3 DEF Harmless
  <2>4. CASE t[v].ip \notin range
    <3>1. sel.ip = t[v].observed_ip /\ Lonely(t[v], s_boot_seq, range)
      BY <1>0, <2>1, <2>2, <2>4 DEF reclaimable_address, Lonely
    <3>2. \A n \in MACs \ {m} : g[n] # 0 => g[n] # sel.ip
      BY <3>1, <2>2 DEF Backed, Backs, Safe
    <3>3. ASSUME NEW other \in Ranges, NEW x \in MACs \ {m},
                 x # v, Lonely(t[x], s_boot_seq, other), t[x].observed_ip = sel.ip
          PROVE  FALSE
      <4>1. other = range
        BY <1>0, <3>3, RangeFacts DEF Lonely
      <4> QED BY <4>1, <3>1, <3>3, <2>2 DEF Safe, Lonely
    <3> QED BY <1>0, <2>1, <2>2, <3>2, <3>3 DEF Harmless
  <2> QED BY <2>3, <2>4
<1> QED BY <1>2, <1>3, <1>4, <1>5

LEMMA SelectSafe ==
  ASSUME NEW t \in Tables, WellFormed(t), Safe(t, s_boot_seq), NEW g,
         Backed(t, s_boot_seq, g), NEW m \in MACs, NEW requested, NEW wired,
         NEW sel \in select_address(t, m, requested, wired)
  PROVE  Harmless(sel, t, m, g)
<1>1. PICK range \in Ranges : sel \in SelectIn(t, m, requested, range)
  BY DEF select_address, Ranges
<1> QED BY <1>1, SelectInSafe

\* A step that only drops entries, or leaves addresses and generations alone
\* and cuts off only who was heard this boot, keeps the table safe.
LEMMA SafeKept ==
  ASSUME NEW t, NEW u, NEW seq, Safe(t, seq),
         \A x \in MACs : u[x].in_use =>
           /\ t[x].in_use /\ u[x].ip = t[x].ip /\ u[x].observed_ip = t[x].observed_ip
           /\ u[x].last_seen_seq = t[x].last_seen_seq
           /\ u[x].quarantined => t[x].quarantined \/ Heard(u[x], seq)
  PROVE  Safe(u, seq)
BY DEF Safe, Lonely, Heard

\* What recording the choice sel for m leaves behind: every other client's
\* grant untouched, and for m an entry that can back a grant of the address,
\* or none if no slot was left.
RecordedSafely(m, sel, g) ==
  /\ Safe(s_leases', s_boot_seq)
  /\ \A n \in MACs \ {m} : g[n] # 0 => s_leases'[n] = s_leases[n] /\ g[n] # sel.ip
  /\ g[m] # 0 => s_leases'[m].in_use /\ ~s_leases'[m].quarantined
  /\ s_leases'[m].in_use => /\ s_leases'[m].ip = sel.ip
                            /\ s_leases'[m].expires = "live"
                            /\ Heard(s_leases'[m], s_boot_seq)

LEMMA RecordSafe ==
  ASSUME IndInv, Safe(s_leases, s_boot_seq), NEW g,
         Backed(s_leases, s_boot_seq, g),
         NEW m \in MACs, NEW requested, NEW wired, NEW persist,
         NEW sel \in select_address(s_leases, m, requested, wired),
         Record(m, sel, persist)
  PROVE  RecordedSafely(m, sel, g)
<1> DEFINE t == Drop(s_leases, sel.victims)
<1>0. s_leases \in Tables /\ WellFormed(s_leases) /\ s_boot_seq \in Nat
  BY IndInvParts
<1>1. Harmless(sel, s_leases, m, g) /\ sel.ip \in Addr
  BY <1>0, SelectSafe, AddrFacts DEF Harmless
<1>2. /\ t \in Tables
      /\ \A x \in MACs : t[x] = IF x \in sel.victims THEN Blank ELSE s_leases[x]
  BY <1>0, DropType
<1>3. \A n \in MACs : g[n] # 0 => t[n] = s_leases[n]
  BY <1>1, <1>2 DEF Harmless, Backed, Backs
<1>4. CASE SlotEvictions(t, m) = {} /\ s_leases' = t
  <2>1. ~t[m].in_use
    BY <1>4 DEF SlotEvictions
  <2>2. g[m] = 0
    BY <1>3, <2>1 DEF Backed, Backs
  <2>3. Safe(t, s_boot_seq)
    BY <1>2, SafeKept, BlankType
  <2> QED BY <1>1, <1>3, <1>4, <2>1, <2>2, <2>3 DEF RecordedSafely, Harmless
<1>5. ASSUME NEW ev \in SlotEvictions(t, m), NEW clash \in Clashes(Drop(t, ev), m, sel.ip),
             s_leases' = Committed(Drop(t, ev \cup clash), m, sel.ip)
      PROVE  RecordedSafely(m, sel, g)
  <2> DEFINE d == Drop(t, ev)
             u == Drop(t, ev \cup clash)
  <2> HIDE DEF t
  <2>1. /\ d \in Tables /\ u \in Tables
        /\ \A x \in MACs : d[x] = IF x \in ev THEN Blank ELSE t[x]
        /\ \A x \in MACs : u[x] = IF x \in ev \cup clash THEN Blank ELSE t[x]
    BY <1>2, DropType
  <2>2. \A x \in ev : x \in MACs /\ x # m /\ t[x].in_use /\ ~Heard(t[x], s_boot_seq)
    BY EvictedSilent
  <2>3. \A x \in clash : x \in MACs /\ x # m /\ d[x].in_use /\ d[x].ip = sel.ip
    BY DEF Clashes
  <2>4. \A x \in clash : t[x].ip = sel.ip
    BY <2>1, <2>3, BlankType
  <2> HIDE DEF d, u
  <2>5. \A n \in MACs : g[n] # 0 => u[n] = s_leases[n]
    <3> SUFFICES ASSUME NEW n \in MACs, g[n] # 0 PROVE u[n] = s_leases[n]
      OBVIOUS
    <3>1. t[n] = s_leases[n] /\ Backs(s_leases[n], s_boot_seq, g[n])
      BY <1>3 DEF Backed
    <3>2. n \notin ev
      BY <2>2, <3>1 DEF Backs
    <3>3. n \notin clash
      BY <1>1, <2>3, <2>4, <3>1 DEF Backs, Harmless
    <3> QED BY <2>1, <3>1, <3>2, <3>3
  <2>6. \A x \in MACs : u[x].in_use => u[x] = s_leases[x] /\ x \notin sel.victims
    BY <1>2, <2>1, BlankType
  <2>7. ~Blank.quarantined
    BY DEF Blank
  <2>8. g[m] # 0 => ~u[m].quarantined
    BY <2>5 DEF Backed, Backs
  <2>9. /\ \A n \in MACs \ {m} : s_leases'[n] = u[n]
        /\ s_leases'[m].in_use /\ s_leases'[m].ip = sel.ip
        /\ s_leases'[m].expires = "live" /\ s_leases'[m].last_seen_seq = s_boot_seq
        /\ s_leases'[m].quarantined = u[m].quarantined
    <3>1. s_leases' = Committed(u, m, sel.ip)
      BY <1>5 DEF u
    <3> QED BY <3>1, <1>0, <1>1, <2>1, CommittedType
  <2>10. Heard(s_leases'[m], s_boot_seq)
    BY <1>0, <2>9 DEF Heard
  <2>11. \A v \in MACs : s_leases'[v].in_use /\ s_leases'[v].quarantined
                            => Heard(s_leases'[v], s_boot_seq)
    BY <2>6, <2>9, <2>10 DEF Safe
  <2>12. ASSUME NEW range \in Ranges, NEW v \in MACs, NEW w \in MACs, v # w,
                Lonely(s_leases'[v], s_boot_seq, range), s_leases'[w].in_use
         PROVE  /\ s_leases'[w].ip # s_leases'[v].observed_ip
                /\ s_leases'[w].observed_ip = s_leases'[v].observed_ip
                     => Heard(s_leases'[w], s_boot_seq) \/ s_leases'[w].ip \in range
    <3>1. v # m /\ s_leases'[v] = s_leases[v] /\ v \notin sel.victims
          /\ Lonely(s_leases[v], s_boot_seq, range)
      BY <2>12, <2>6, <2>9, <2>10 DEF Lonely
    <3>2. CASE w = m
      BY <3>1, <3>2, <1>1, <2>9, <2>10 DEF Harmless
    <3>3. CASE w # m
      <4>1. s_leases'[w] = s_leases[w]
        BY <2>12, <3>3, <2>6, <2>9
      <4> QED BY <2>12, <3>1, <4>1 DEF Safe
    <3> QED BY <3>2, <3>3
  <2>13. Safe(s_leases', s_boot_seq)
    BY <2>11, <2>12 DEF Safe
  <2> QED BY <1>1, <2>5, <2>8, <2>9, <2>10, <2>13 DEF RecordedSafely, Harmless
<1> QED BY <1>4, <1>5 DEF Record

-----------------------------------------------------------------------------
(* One step at a time.                                                     *)

LEMMA WithoutType ==
  ASSUME granted \in [MACs -> Addr], NEW S
  PROVE  /\ Without(S) \in [MACs -> Addr]
         /\ \A x \in MACs : Without(S)[x] = IF x \in S THEN 0 ELSE granted[x]
BY AddrFacts DEF Without

\* What a step has to establish, once IndInv is known to be kept.
LEMMA LanParts ==
  ASSUME IndInv', granted' \in [MACs -> Addr], Safe(s_leases', s_boot_seq'),
         Backed(s_leases', s_boot_seq', granted')
  PROVE  LanInv'
BY DEF LanInv, Safe, Backed, Lonely, Heard, Backs, Ranges, Pool, Wired, WiredRangeBad

LEMMA DiscoverLan ==
  ASSUME LanInv, IndInv', NEW m \in MACs, NEW requested, NEW wired,
         ClientDiscovers(m, requested, wired)
  PROVE  LanInv'
<1>0. /\ IndInv /\ granted \in [MACs -> Addr] /\ Safe(s_leases, s_boot_seq)
      /\ Backed(s_leases, s_boot_seq, granted)
  BY DEF LanInv
<1>1. granted' = Without({m}) /\ UNCHANGED s_boot_seq
  BY DEF ClientDiscovers, Discover
<1>2. CASE UNCHANGED s_leases
  <2>1. Backed(s_leases', s_boot_seq', granted')
    BY <1>0, <1>1, <1>2, WithoutType DEF Backed
  <2> QED BY <2>1, <1>0, <1>1, <1>2, WithoutType, LanParts
<1>3. ASSUME NEW sel \in select_address(s_leases, m, requested, wired),
             Record(m, sel, FALSE)
      PROVE  LanInv'
  <2>1. RecordedSafely(m, sel, granted)
    BY <1>0, <1>3, RecordSafe
  <2>2. Backed(s_leases', s_boot_seq', granted')
    BY <1>0, <1>1, <2>1, WithoutType DEF Backed, RecordedSafely
  <2>3. Safe(s_leases', s_boot_seq')
    BY <1>1, <2>1 DEF RecordedSafely
  <2> QED BY <2>2, <2>3, <1>0, <1>1, WithoutType, LanParts
<1> QED BY <1>2, <1>3 DEF ClientDiscovers, Discover

\* A request grants an address nobody else holds, or grants nothing.
LEMMA RequestLan ==
  ASSUME LanInv, IndInv', NEW m \in MACs, NEW requested, NEW wired,
         ClientRequests(m, requested, wired)
  PROVE  /\ LanInv'
         /\ \/ UNCHANGED granted
            \/ granted' = Without({m})
            \/ \E ip \in Subnet : /\ \A n \in MACs \ {m} : granted[n] # ip
                                  /\ granted' = [granted EXCEPT ![m] = ip]
<1>0. /\ IndInv /\ granted \in [MACs -> Addr] /\ Safe(s_leases, s_boot_seq)
      /\ Backed(s_leases, s_boot_seq, granted) /\ s_leases \in Tables
  BY IndInvParts DEF LanInv
<1>1. UNCHANGED s_boot_seq /\ granted[m] \in {0, requested}
  BY DEF ClientRequests, Request
<1>2. ASSUME out'.ip = 0, Safe(s_leases', s_boot_seq),
             \A n \in MACs : granted[n] # 0 => s_leases'[n] = s_leases[n]
      PROVE  LanInv' /\ (UNCHANGED granted \/ granted' = Without({m}))
  <2>1. UNCHANGED granted \/ granted' = Without({m})
    BY <1>0, <1>2 DEF ClientRequests, Without
  <2>2. /\ granted' \in [MACs -> Addr]
        /\ \A n \in MACs : granted'[n] # 0 => granted'[n] = granted[n]
    BY <2>1, <1>0, WithoutType
  <2>3. Backed(s_leases', s_boot_seq', granted')
    BY <1>0, <1>1, <1>2, <2>2 DEF Backed
  <2> QED BY <2>1, <2>2, <2>3, <1>1, <1>2, LanParts
<1>3. CASE out' = [type |-> "NAK", mac |-> m, ip |-> 0, wired |-> wired] /\ UNCHANGED s_leases
  BY <1>0, <1>2, <1>3
<1>4. ASSUME NEW sel \in select_address(s_leases, m, requested, wired),
             s_leases' = Drop(s_leases, sel.victims),
             out' = [type |-> "NAK", mac |-> m, ip |-> 0, wired |-> wired]
      PROVE  LanInv' /\ (UNCHANGED granted \/ granted' = Without({m}))
  <2>1. Harmless(sel, s_leases, m, granted)
    BY <1>0, SelectSafe, IndInvParts
  <2>2. \A v \in sel.victims : v \in MACs /\ ~Heard(s_leases[v], s_boot_seq)
    BY <2>1 DEF Harmless
  <2>3. \A x \in MACs : s_leases'[x] = IF x \in sel.victims THEN Blank ELSE s_leases[x]
    BY <1>0, <1>4, DropType
  <2>4. Safe(s_leases', s_boot_seq)
    BY <2>3, <1>0, SafeKept, BlankType
  <2>5. \A n \in MACs : granted[n] # 0 => s_leases'[n] = s_leases[n]
    BY <2>2, <2>3, <1>0 DEF Backed, Backs
  <2> QED BY <2>4, <2>5, <1>2, <1>4
<1>5. ASSUME NEW sel \in select_address(s_leases, m, requested, wired),
             requested \in {0, sel.ip}, Record(m, sel, TRUE),
             out' = [type |-> "ACK", mac |-> m, ip |-> sel.ip, wired |-> wired]
      PROVE  /\ LanInv'
             /\ \/ UNCHANGED granted
                \/ granted' = Without({m})
                \/ /\ \A n \in MACs \ {m} : granted[n] # sel.ip
                   /\ sel.ip \in Subnet
                   /\ granted' = [granted EXCEPT ![m] = sel.ip]
  <2>0. Harmless(sel, s_leases, m, granted)
    BY <1>0, SelectSafe, IndInvParts
  <2>1. RecordedSafely(m, sel, granted)
    BY <1>0, <1>5, RecordSafe
  <2>2. sel.ip \in Subnet /\ sel.ip \in Addr
    BY <2>0, AddrFacts DEF Harmless
  <2>3. Safe(s_leases', s_boot_seq')
    BY <1>1, <2>1 DEF RecordedSafely
  <2>4. CASE granted' = Without({m})
    <3>1. Backed(s_leases', s_boot_seq', granted')
      BY <1>0, <1>1, <2>1, <2>4, WithoutType DEF Backed, RecordedSafely
    <3> QED BY <3>1, <2>3, <2>4, <1>0, WithoutType, LanParts
  <2>5. CASE UNCHANGED granted
    <3>1. granted[m] # 0 => Backs(s_leases'[m], s_boot_seq, granted[m])
      <4>1. SUFFICES ASSUME granted[m] # 0 PROVE Backs(s_leases'[m], s_boot_seq, granted[m])
        OBVIOUS
      <4>2. granted[m] = sel.ip
        BY <1>1, <1>5, <4>1
      <4> QED BY <2>1, <4>1, <4>2 DEF Backs, RecordedSafely
    <3>2. Backed(s_leases', s_boot_seq', granted')
      BY <1>0, <1>1, <2>1, <2>5, <3>1 DEF Backed, RecordedSafely
    <3> QED BY <3>2, <2>3, <2>5, <1>0, LanParts
  <2>6. CASE Recorded(m) /\ granted' = [granted EXCEPT ![m] = sel.ip]
    <3>1. /\ granted' \in [MACs -> Addr] /\ granted'[m] = sel.ip
          /\ \A n \in MACs \ {m} : granted'[n] = granted[n]
      BY <2>2, <2>6, <1>0
    <3>2. Backs(s_leases'[m], s_boot_seq, sel.ip)
      BY <2>1, <2>6 DEF Backs, RecordedSafely, Recorded
    <3>3. Backed(s_leases', s_boot_seq', granted')
      BY <1>0, <1>1, <2>1, <3>1, <3>2 DEF Backed, RecordedSafely
    <3>4. \A n \in MACs \ {m} : granted[n] # sel.ip
      BY <2>1, <2>2, AddrFacts DEF RecordedSafely
    <3> QED BY <3>1, <3>3, <3>4, <2>2, <2>3, <2>6, LanParts
  <2>7. out'.ip = sel.ip
    BY <1>5
  <2> QED BY <2>4, <2>5, <2>6, <2>7 DEF ClientRequests
<1> QED BY <1>3, <1>4, <1>5, <1>2 DEF ClientRequests, Request

LEMMA DropLan ==
  ASSUME LanInv, IndInv', NEW m \in MACs, UNCHANGED s_boot_seq,
         s_leases' = Drop(s_leases, {m}),
         granted' = Without({m}) \/ (UNCHANGED granted /\ granted[m] = 0)
  PROVE  LanInv'
<1>0. /\ granted \in [MACs -> Addr] /\ Safe(s_leases, s_boot_seq)
      /\ Backed(s_leases, s_boot_seq, granted) /\ s_leases \in Tables
  BY IndInvParts DEF LanInv
<1>1. \A x \in MACs : s_leases'[x] = IF x = m THEN Blank ELSE s_leases[x]
  BY <1>0, DropType
<1>2. Safe(s_leases', s_boot_seq)
  <2>1. \A x \in MACs : s_leases'[x].in_use => s_leases'[x] = s_leases[x]
    BY <1>1, BlankType
  <2>2. \A v \in MACs : s_leases'[v].in_use /\ s_leases'[v].quarantined
                          => Heard(s_leases'[v], s_boot_seq)
    BY <1>0, <2>1 DEF Safe
  <2>3. ASSUME NEW range \in Ranges, NEW v \in MACs, NEW w \in MACs, v # w,
               Lonely(s_leases'[v], s_boot_seq, range), s_leases'[w].in_use
        PROVE  /\ s_leases'[w].ip # s_leases'[v].observed_ip
               /\ s_leases'[w].observed_ip = s_leases'[v].observed_ip
                    => Heard(s_leases'[w], s_boot_seq) \/ s_leases'[w].ip \in range
    <3>1. s_leases'[v] = s_leases[v] /\ s_leases'[w] = s_leases[w]
      BY <2>1, <2>3 DEF Lonely
    <3> QED BY <1>0, <2>3, <3>1 DEF Safe
  <2> QED BY <2>2, <2>3 DEF Safe
<1>3. /\ granted' \in [MACs -> Addr] /\ granted'[m] = 0
      /\ \A x \in MACs : granted'[x] # 0 => granted'[x] = granted[x]
  BY <1>0, WithoutType
<1>4. Backed(s_leases', s_boot_seq', granted')
  BY <1>0, <1>1, <1>3 DEF Backed
<1> QED BY <1>2, <1>3, <1>4, LanParts

\* DHCPRELEASE makes the entry look silent, but it was seen in no range but the
\* one it leases in, and its lease is what a reclaim would hand out.
LEMMA ReleaseLan ==
  ASSUME LanInv, IndInv', NEW m \in MACs, ClientReleases(m)
  PROVE  LanInv'
<1>0. /\ granted \in [MACs -> Addr] /\ Safe(s_leases, s_boot_seq)
      /\ Backed(s_leases, s_boot_seq, granted) /\ s_leases \in Tables
  BY IndInvParts DEF LanInv
<1>1. granted' = Without({m}) /\ UNCHANGED s_boot_seq
  BY DEF ClientReleases, Release
<1>2. /\ ~s_leases[m].quarantined /\ s_leases[m].in_use
      /\ \A range \in Ranges : s_leases[m].observed_ip \in range => s_leases[m].ip \in range
  BY <1>0 DEF ClientReleases, Backed, Backs, Strayed, Ranges
<1>3. /\ \A x \in MACs \ {m} : s_leases'[x] = s_leases[x]
      /\ s_leases'[m].ip = s_leases[m].ip
      /\ s_leases'[m].observed_ip = s_leases[m].observed_ip
      /\ s_leases'[m].quarantined = s_leases[m].quarantined
      /\ s_leases'[m].in_use = s_leases[m].in_use
  <2>1. s_leases[m] \in Lease
    BY <1>0 DEF Tables
  <2> QED BY <2>1, <1>0 DEF ClientReleases, Release, Tables, Lease
<1>4. Safe(s_leases', s_boot_seq)
  <2>1. \A v \in MACs : s_leases'[v].in_use /\ s_leases'[v].quarantined
                          => Heard(s_leases'[v], s_boot_seq)
    BY <1>0, <1>2, <1>3 DEF Safe
  <2>2. ASSUME NEW range \in Ranges, NEW v \in MACs, NEW w \in MACs, v # w,
               Lonely(s_leases'[v], s_boot_seq, range), s_leases'[w].in_use
        PROVE  /\ s_leases'[w].ip # s_leases'[v].observed_ip
               /\ s_leases'[w].observed_ip = s_leases'[v].observed_ip
                    => Heard(s_leases'[w], s_boot_seq) \/ s_leases'[w].ip \in range
    <3>1. v # m /\ s_leases'[v] = s_leases[v] /\ Lonely(s_leases[v], s_boot_seq, range)
      BY <2>2, <1>2, <1>3 DEF Lonely
    <3>2. s_leases[w].in_use
      BY <2>2, <1>3
    <3>3. s_leases[w].ip # s_leases[v].observed_ip
      BY <2>2, <3>1, <3>2, <1>0 DEF Safe
    <3>4. CASE w = m
      BY <3>1, <3>3, <3>4, <1>2, <1>3 DEF Lonely
    <3>5. CASE w # m
      BY <2>2, <3>1, <3>5, <1>0, <1>3 DEF Safe
    <3> QED BY <3>4, <3>5
  <2> QED BY <2>1, <2>2 DEF Safe
<1>5. Backed(s_leases', s_boot_seq', granted')
  BY <1>0, <1>1, <1>3, WithoutType DEF Backed
<1> QED BY <1>0, <1>1, <1>4, <1>5, WithoutType, LanParts

LEMMA ExpiryLan ==
  ASSUME LanInv, IndInv', NEW m \in MACs, LeaseRunsOut(m)
  PROVE  LanInv'
<1>0. /\ granted \in [MACs -> Addr] /\ Safe(s_leases, s_boot_seq)
      /\ Backed(s_leases, s_boot_seq, granted) /\ s_leases \in Tables
  BY IndInvParts DEF LanInv
<1>1. granted' = Without({m}) /\ UNCHANGED s_boot_seq
  BY DEF LeaseRunsOut, LeaseExpires
<1>2. ASSUME NEW x \in MACs
      PROVE  /\ s_leases'[x].in_use = s_leases[x].in_use
             /\ s_leases'[x].ip = s_leases[x].ip
             /\ s_leases'[x].observed_ip = s_leases[x].observed_ip
             /\ s_leases'[x].last_seen_seq = s_leases[x].last_seen_seq
             /\ s_leases'[x].quarantined = s_leases[x].quarantined
             /\ x # m => s_leases'[x] = s_leases[x]
  <2>1. s_leases[x] \in Lease
    BY <1>0 DEF Tables
  <2> QED BY <2>1, <1>0 DEF LeaseRunsOut, LeaseExpires, Tables, Lease
<1>3. Safe(s_leases', s_boot_seq)
  BY <1>0, <1>2, SafeKept
<1>4. Backed(s_leases', s_boot_seq', granted')
  BY <1>0, <1>1, <1>2, WithoutType DEF Backed
<1> QED BY <1>0, <1>1, <1>3, <1>4, WithoutType, LanParts

LEMMA TrafficLan ==
  ASSUME LanInv, IndInv', NEW m \in MACs, NEW ip \in Subnet, TrafficSeen(m, ip)
  PROVE  LanInv'
<1>0. /\ granted \in [MACs -> Addr] /\ Safe(s_leases, s_boot_seq)
      /\ Backed(s_leases, s_boot_seq, granted) /\ s_leases \in Tables
      /\ WellFormed(s_leases) /\ s_boot_seq \in Nat
  BY IndInvParts DEF LanInv
<1>1. PICK ev \in SlotEvictions(s_leases, m) :
        s_leases' = [Drop(s_leases, ev) EXCEPT ![m] =
                      [Drop(s_leases, ev)[m] EXCEPT
                         !.in_use = TRUE,
                         !.observed_ip = IF ip = Drop(s_leases, ev)[m].ip THEN 0 ELSE ip,
                         !.last_seen_seq = s_boot_seq, !.last_seen_us = 1]]
  BY DEF TrafficSeen, NoteObserved
<1>e. \A x \in ev : x \in MACs /\ x # m /\ ~Heard(s_leases[x], s_boot_seq)
  BY EvictedSilent
<1>u. UNCHANGED s_boot_seq
  BY DEF TrafficSeen, NoteObserved
<1>2. /\ \A x \in MACs \ {m} : s_leases'[x] = IF x \in ev THEN Blank ELSE s_leases[x]
      /\ s_leases'[m].ip = s_leases[m].ip
      /\ s_leases'[m].quarantined = s_leases[m].quarantined
      /\ s_leases'[m].expires = s_leases[m].expires
      /\ s_leases'[m].in_use
      /\ s_leases'[m].last_seen_seq = s_boot_seq
  <2> DEFINE t == Drop(s_leases, ev)
             e == [t[m] EXCEPT !.in_use = TRUE, !.observed_ip = IF ip = t[m].ip THEN 0 ELSE ip,
                               !.last_seen_seq = s_boot_seq, !.last_seen_us = 1]
  <2>1. /\ t \in Tables /\ t[m] = s_leases[m]
        /\ \A x \in MACs : t[x] = IF x \in ev THEN Blank ELSE s_leases[x]
    BY <1>0, <1>e, DropType
  <2>2. s_leases' = [t EXCEPT ![m] = e]
    BY <1>1
  <2> HIDE DEF t
  <2>3. t[m] \in Lease
    BY <2>1 DEF Tables
  <2>4. /\ e.ip = t[m].ip /\ e.quarantined = t[m].quarantined /\ e.expires = t[m].expires
        /\ e.in_use /\ e.last_seen_seq = s_boot_seq
    BY <2>3 DEF Lease
  <2> HIDE DEF e
  <2> QED BY <2>1, <2>2, <2>4 DEF Tables
<1>3. Heard(s_leases'[m], s_boot_seq)
  BY <1>0, <1>2 DEF Heard
<1>4. Safe(s_leases', s_boot_seq)
  <2>1. \A v \in MACs : s_leases'[v].in_use /\ s_leases'[v].quarantined
                          => Heard(s_leases'[v], s_boot_seq)
    BY <1>0, <1>2, <1>3, BlankType DEF Safe
  <2>2. ASSUME NEW range \in Ranges, NEW v \in MACs, NEW w \in MACs, v # w,
               Lonely(s_leases'[v], s_boot_seq, range), s_leases'[w].in_use
        PROVE  /\ s_leases'[w].ip # s_leases'[v].observed_ip
               /\ s_leases'[w].observed_ip = s_leases'[v].observed_ip
                    => Heard(s_leases'[w], s_boot_seq) \/ s_leases'[w].ip \in range
    <3>1. v # m /\ s_leases'[v] = s_leases[v] /\ Lonely(s_leases[v], s_boot_seq, range)
      BY <2>2, <1>2, <1>3, BlankType DEF Lonely
    <3>2. CASE w = m
      <4>1. ~s_leases[m].in_use => s_leases[m].ip = 0
        BY <1>0 DEF WellFormed, Blank
      <4>2. s_leases[v].observed_ip # 0
        BY <3>1, RangeFacts DEF Lonely
      <4>3. s_leases[m].ip # s_leases[v].observed_ip
        BY <4>1, <4>2, <3>1, <3>2, <2>2, <1>0 DEF Safe
      <4> QED BY <4>3, <3>1, <3>2, <1>2, <1>3
    <3>3. CASE w # m
      <4>1. s_leases'[w] = s_leases[w]
        BY <2>2, <3>3, <1>2, BlankType
      <4> QED BY <2>2, <3>1, <4>1, <1>0 DEF Safe
    <3> QED BY <3>2, <3>3
  <2> QED BY <2>1, <2>2 DEF Safe
<1>5. /\ granted' \in [MACs -> Addr]
      /\ \A x \in MACs : granted'[x] # 0 => granted'[x] = granted[x]
  BY <1>0, WithoutType DEF TrafficSeen
<1>6. Backed(s_leases', s_boot_seq', granted')
  <2> SUFFICES ASSUME NEW x \in MACs, granted'[x] # 0
               PROVE  Backs(s_leases'[x], s_boot_seq, granted'[x])
    BY <1>u DEF Backed
  <2>1. granted'[x] = granted[x] /\ Backs(s_leases[x], s_boot_seq, granted[x])
    BY <1>0, <1>5 DEF Backed
  <2>2. x \notin ev
    BY <2>1, <1>e DEF Backs
  <2>3. CASE x = m
    BY <2>1, <2>3, <1>2, <1>3 DEF Backs
  <2>4. CASE x # m
    BY <2>1, <2>2, <2>4, <1>2
  <2> QED BY <2>3, <2>4
<1> QED BY <1>u, <1>4, <1>5, <1>6, LanParts

LEMMA CutOffLan ==
  ASSUME LanInv, IndInv', NEW macs, CutOff(macs), macs \subseteq MACs
  PROVE  LanInv'
<1>0. /\ granted \in [MACs -> Addr] /\ Safe(s_leases, s_boot_seq)
      /\ Backed(s_leases, s_boot_seq, granted) /\ s_leases \in Tables
  BY IndInvParts DEF LanInv
<1>1. granted' = Without(macs) /\ UNCHANGED s_boot_seq
  BY DEF CutOff, SetQuarantined
<1>2. ASSUME NEW x \in MACs
      PROVE  /\ s_leases'[x].in_use = s_leases[x].in_use
             /\ s_leases'[x].ip = s_leases[x].ip
             /\ s_leases'[x].observed_ip = s_leases[x].observed_ip
             /\ s_leases'[x].expires = s_leases[x].expires
             /\ s_leases'[x].last_seen_seq = s_leases[x].last_seen_seq
             /\ s_leases'[x].in_use => s_leases'[x].quarantined = (x \in macs)
  <2>1. s_leases[x] \in Lease
    BY <1>0 DEF Tables
  <2> QED BY <2>1 DEF CutOff, SetQuarantined, Lease
<1>3. \A x \in MACs : s_leases'[x].in_use /\ s_leases'[x].quarantined
                        => Heard(s_leases'[x], s_boot_seq)
  BY <1>2 DEF CutOff, seen_this_boot, Heard
<1>4. Safe(s_leases', s_boot_seq)
  BY <1>0, <1>2, <1>3, SafeKept
<1>5. Backed(s_leases', s_boot_seq', granted')
  <2>1. ASSUME NEW x \in MACs, granted'[x] # 0
        PROVE  Backs(s_leases'[x], s_boot_seq, granted'[x])
    <3>1. x \notin macs /\ granted'[x] = granted[x] /\ granted[x] # 0
      BY <1>0, <1>1, <2>1, WithoutType
    <3>2. Backs(s_leases[x], s_boot_seq, granted[x])
      BY <1>0, <3>1 DEF Backed
    <3>3. ~s_leases'[x].quarantined
      BY <1>2, <3>1, <3>2 DEF Backs
    <3> QED BY <1>2, <3>1, <3>2, <3>3 DEF Backs, Heard
  <2> QED BY <1>1, <2>1 DEF Backed
<1> QED BY <1>0, <1>1, <1>4, <1>5, WithoutType, LanParts

LEMMA FlashLan ==
  ASSUME LanInv, IndInv', FlashStep
  PROVE  LanInv'
<1>0. /\ granted \in [MACs -> Addr] /\ Safe(s_leases, s_boot_seq)
      /\ Backed(s_leases, s_boot_seq, granted) /\ s_leases \in Tables
  BY IndInvParts DEF LanInv
<1>1. UNCHANGED <<granted, s_boot_seq>>
  BY DEF FlashStep, DebounceExpires, SaveOk, SaveFails, ram
<1>2. ASSUME NEW x \in MACs
      PROVE  /\ s_leases'[x].in_use = s_leases[x].in_use
             /\ s_leases'[x].ip = s_leases[x].ip
             /\ s_leases'[x].observed_ip = s_leases[x].observed_ip
             /\ s_leases'[x].expires = s_leases[x].expires
             /\ s_leases'[x].last_seen_seq = s_leases[x].last_seen_seq
             /\ s_leases'[x].quarantined = s_leases[x].quarantined
  <2>1. s_leases[x] \in Lease
    BY <1>0 DEF Tables
  <2>2. CASE UNCHANGED s_leases
    BY <2>2
  <2>3. CASE s_leases' = [y \in MACs |-> AsSaved(s_leases[y])]
    BY <2>1, <2>3 DEF AsSaved, Lease
  <2> QED BY <2>2, <2>3 DEF FlashStep, DebounceExpires, SaveOk, SaveFails, ram
<1>3. Safe(s_leases', s_boot_seq)
  BY <1>0, <1>2, SafeKept
<1>4. Backed(s_leases', s_boot_seq', granted')
  BY <1>0, <1>1, <1>2 DEF Backed, Backs, Heard
<1> QED BY <1>0, <1>1, <1>3, <1>4, LanParts

\* load_from_nvs() drops every self-assigned address with a second claim on
\* it, so a freshly loaded table is safe.
LEMMA LoadSafe ==
  ASSUME NEW f \in Blob, NEW seq
  PROVE  Safe(load_from_nvs(f), seq)
<1> DEFINE t == load_from_nvs(f)
<1>1. ASSUME NEW x \in MACs, t[x].in_use
      PROVE  x \in Restored(f) /\ t[x] = LoadedEntry(f, x)
  BY <1>1, BlankType DEF load_from_nvs
<1>2. ASSUME NEW x \in MACs, t[x].in_use
      PROVE  ~t[x].quarantined
  <2>1. t[x] = LoadedEntry(f, x)
    BY <1>1, <1>2
  <2> QED BY <2>1 DEF LoadedEntry
<1>3. ASSUME NEW v \in MACs, NEW w \in MACs, v # w, t[v].in_use, t[w].in_use,
             t[v].observed_ip # 0
      PROVE  t[w].ip # t[v].observed_ip /\ t[w].observed_ip # t[v].observed_ip
  <2>1. /\ v \in Restored(f) /\ w \in Restored(f) \ {v}
        /\ t[v] = LoadedEntry(f, v) /\ t[w] = LoadedEntry(f, w)
    BY <1>1, <1>3
  <2>2. v \notin DropObserved(f) /\ t[v].observed_ip = StoredObserved(f, v)
    BY <1>3, <2>1 DEF LoadedEntry
  <2>3. StoredObserved(f, v) \notin {f.table[w].ip, StoredObserved(f, w)}
    BY <1>3, <2>1, <2>2 DEF DropObserved
  <2> QED BY <1>3, <2>1, <2>2, <2>3 DEF LoadedEntry
<1> HIDE DEF t
<1>4. Safe(t, seq)
  BY <1>2, <1>3, RangeFacts DEF Safe, Lonely
<1> QED BY <1>4 DEF t

LEMMA NothingBacked ==
  ASSUME NEW t, NEW seq
  PROVE  Nothing \in [MACs -> Addr] /\ Backed(t, seq, Nothing)
BY AddrFacts DEF Nothing, Backed

LEMMA RestartLan ==
  ASSUME LanInv, IndInv', BridgeRestarts
  PROVE  LanInv'
<1>1. s_leases' = load_from_nvs(flash) /\ granted' = Nothing /\ flash \in Blob
  BY IndInvParts DEF BridgeRestarts, Reboot, LanInv
<1> QED BY <1>1, LoadSafe, NothingBacked, LanParts

-----------------------------------------------------------------------------
LEMMA LanInitInv == LanInit => LanInv
<1> SUFFICES ASSUME LanInit PROVE LanInv
  OBVIOUS
<1>1. IndInv /\ flash \in Blob
  BY InitIndInv, IndInvParts DEF LanInit
<1>2. s_leases = load_from_nvs(flash) /\ granted = Nothing
  BY DEF LanInit, Init
<1> QED BY <1>1, <1>2, LoadSafe, NothingBacked DEF LanInv

LEMMA LanStepIsServerStep == [LanNext]_lanVars => [Next]_vars
BY DEF LanNext, lanVars, vars, Next, ClientDiscovers, ClientRequests,
       ClientChoosesOther, ClientReleases, ClientLeaves, LeaseRunsOut,
       ClientDeclines, TrafficSeen, CutOff, FlashStep, BridgeRestarts

\* A step as AddressGrants sees it.
GrantStep ==
  \/ \E S \in SUBSET MACs : granted' = Without(S)
  \/ \E m \in MACs, ip \in Subnet :
       /\ \A n \in MACs \ {m} : granted[n] # ip
       /\ granted' = [granted EXCEPT ![m] = ip]

LEMMA LanStep ==
  ASSUME LanInv, [LanNext]_lanVars
  PROVE  LanInv' /\ (UNCHANGED granted \/ GrantStep)
<1>0. IndInv'
  BY LanStepIsServerStep, NextIndInv DEF LanInv
<1> USE <1>0
<1>a. \A m \in MACs : granted' = Without({m}) => GrantStep
  <2> SUFFICES ASSUME NEW m \in MACs, granted' = Without({m})
               PROVE  \E S \in SUBSET MACs : granted' = Without(S)
    BY DEF GrantStep
  <2> WITNESS {m} \in SUBSET MACs
  <2> QED OBVIOUS
<1>1. CASE UNCHANGED lanVars
  <2>1. Safe(s_leases', s_boot_seq') /\ Backed(s_leases', s_boot_seq', granted')
    BY <1>1 DEF lanVars, LanInv
  <2> QED BY <1>1, <2>1, LanParts DEF lanVars, LanInv
<1>2. ASSUME NEW m \in MACs, NEW requested \in Requested, NEW wired \in Ports,
             ClientDiscovers(m, requested, wired)
      PROVE  LanInv' /\ GrantStep
  BY <1>2, <1>a, DiscoverLan DEF ClientDiscovers
<1>3. ASSUME NEW m \in MACs, NEW requested \in Requested, NEW wired \in Ports,
             ClientRequests(m, requested, wired)
      PROVE  LanInv' /\ (UNCHANGED granted \/ GrantStep)
  <2>1. /\ LanInv'
        /\ \/ UNCHANGED granted
           \/ granted' = Without({m})
           \/ \E ip \in Subnet : /\ \A n \in MACs \ {m} : granted[n] # ip
                                 /\ granted' = [granted EXCEPT ![m] = ip]
    BY <1>3, RequestLan
  <2> QED BY <2>1, <1>a DEF GrantStep
<1>4. ASSUME NEW m \in MACs, ClientChoosesOther(m)
      PROVE  LanInv' /\ UNCHANGED granted
  BY <1>4, DropLan DEF ClientChoosesOther, RequestOther
<1>5. ASSUME NEW m \in MACs, NEW requested \in Requested, ClientDeclines(m, requested)
      PROVE  LanInv' /\ GrantStep
  BY <1>5, <1>a, DropLan DEF ClientDeclines, Decline
<1>6. ASSUME NEW m \in MACs, ClientReleases(m)
      PROVE  LanInv' /\ GrantStep
  BY <1>6, <1>a, ReleaseLan DEF ClientReleases
<1>7. ASSUME NEW m \in MACs, ClientLeaves(m)
      PROVE  LanInv' /\ GrantStep
  <2>1. granted' = Without({m}) /\ UNCHANGED <<s_leases, s_boot_seq>>
    BY <1>7 DEF ClientLeaves, vars
  <2>2. granted' \in [MACs -> Addr]
    BY <2>1, WithoutType DEF LanInv
  <2>3. Backed(s_leases', s_boot_seq', granted')
    BY <2>1, WithoutType DEF Backed, LanInv
  <2>4. Safe(s_leases', s_boot_seq')
    BY <2>1 DEF LanInv
  <2> QED BY <2>1, <2>2, <2>3, <2>4, <1>a, LanParts
<1>8. ASSUME NEW m \in MACs, LeaseRunsOut(m)
      PROVE  LanInv' /\ GrantStep
  BY <1>8, <1>a, ExpiryLan DEF LeaseRunsOut
<1>9. ASSUME NEW m \in MACs, NEW ip \in Subnet, TrafficSeen(m, ip)
      PROVE  LanInv' /\ (UNCHANGED granted \/ GrantStep)
  BY <1>9, <1>a, TrafficLan DEF TrafficSeen
<1>10. ASSUME NEW macs \in SUBSET MACs, CutOff(macs)
       PROVE  LanInv' /\ GrantStep
  BY <1>10, CutOffLan DEF CutOff, GrantStep
<1>11. CASE FlashStep
  BY <1>11, FlashLan DEF FlashStep
<1>12. CASE BridgeRestarts
  <2>1. granted' = Without(MACs)
    BY <1>12 DEF BridgeRestarts, Nothing, Without
  <2> QED BY <2>1, <1>12, RestartLan DEF GrantStep
<1> QED
  BY <1>1, <1>2, <1>3, <1>4, <1>5, <1>6, <1>7, <1>8, <1>9, <1>10, <1>11, <1>12,
     InputAssumption DEF LanNext

LEMMA LanInvariant == LanSpec => []LanInv
<1>1. LanInv /\ [LanNext]_lanVars => LanInv'
  BY LanStep
<1> QED BY LanInitInv, <1>1, PTL DEF LanSpec

\* Nothing the server does for one client, through reclaiming in either range,
\* evictions for want of a slot, restarts and failed writes, takes away the
\* entry behind what another client holds.
THEOREM GrantsBacked == LanSpec => []GrantBacked
<1>1. LanInv => GrantBacked
  BY DEF LanInv, Backed, Backs, GrantBacked, Heard, seen_this_boot
<1> QED BY LanInvariant, <1>1, PTL

\* Hence no two clients hold one address on the word of one boot.
THEOREM NoSharedGrant == LanSpec => []GrantsUnique
<1>1. LanInv => GrantsUnique
  <2> SUFFICES ASSUME LanInv, NEW m \in MACs, NEW n \in MACs, m # n,
                      granted[m] # 0, granted[m] = granted[n]
               PROVE  FALSE
    BY DEF GrantsUnique
  <2>1. Backs(s_leases[m], s_boot_seq, granted[m]) /\ Backs(s_leases[n], s_boot_seq, granted[m])
    BY DEF LanInv, Backed
  <2>2. WellFormed(s_leases)
    BY IndInvParts DEF LanInv
  <2> QED BY <2>1, <2>2 DEF Backs, WellFormed
<1> QED BY LanInvariant, <1>1, PTL

\* The server with its clients implements AddressGrants.
THEOREM ServerKeepsPromise == LanSpec => KeepsPromise
<1>1. LanInit => Promise!Init
  BY DEF LanInit, Nothing, Promise!Init
<1>2. LanInv /\ [LanNext]_lanVars => [Promise!Next]_granted
  <2> SUFFICES ASSUME LanInv, [LanNext]_lanVars
               PROVE  UNCHANGED granted \/ Promise!Next
    OBVIOUS
  <2>1. UNCHANGED granted \/ GrantStep
    BY LanStep
  <2>2. ASSUME NEW S, granted' = Without(S) PROVE Promise!End
    BY <2>2, WithoutType DEF Promise!End, LanInv, Addr
  <2> QED BY <2>1, <2>2 DEF GrantStep, Promise!Next, Promise!Grant
<1> QED BY LanInvariant, <1>1, <1>2, PTL DEF LanSpec, KeepsPromise, Promise!Spec

-----------------------------------------------------------------------------
(* A grant outlives a restart: an acknowledged lease is in flash, or the   *)
(* table is dirty.                                                         *)

GrantSaved ==
  s_dirty = "clean" => \A m \in MACs : granted[m] # 0 => s_leases[m].saved_ip = granted[m]

\* An acknowledgement leaves the table clean only if the address was saved before.
LEMMA RecordSaves ==
  ASSUME IndInv, NEW m \in MACs, NEW sel, sel.ip \in Subnet,
         Record(m, sel, TRUE), s_dirty' = "clean"
  PROVE  s_dirty = "clean" /\ (s_leases'[m].in_use => s_leases'[m].saved_ip = sel.ip)
<1> DEFINE t == Drop(s_leases, sel.victims)
<1>0. s_leases \in Tables /\ s_boot_seq \in Nat
  BY IndInvParts
<1>1. t \in Tables
  BY <1>0, DropType
<1>2. CASE /\ SlotEvictions(t, m) = {} /\ s_leases' = t
           /\ s_dirty' = mark_dirty(s_dirty, WasSaved(s_leases, sel.victims))
  <2>1. ~t[m].in_use
    BY <1>2 DEF SlotEvictions
  <2> QED BY <1>2, <2>1, StillClean
<1>3. ASSUME NEW ev \in SlotEvictions(t, m), NEW clash \in Clashes(Drop(t, ev), m, sel.ip),
             s_leases' = Committed(Drop(t, ev \cup clash), m, sel.ip),
             s_dirty' = mark_dirty(s_dirty,
                          \/ WasSaved(s_leases, sel.victims \cup ev)
                          \/ \E x \in clash : t[x].saved_ip # 0
                          \/ TRUE /\ LeaseUnsaved(t[m], sel.ip))
      PROVE  s_dirty = "clean" /\ s_leases'[m].saved_ip = sel.ip
  <2> HIDE DEF t
  <2>1. s_dirty = "clean" /\ t[m].saved_ip = sel.ip
    BY <1>3, StillClean DEF LeaseUnsaved
  <2>2. m \notin ev \cup clash
    BY EvictedSilent DEF Clashes
  <2> DEFINE u == Drop(t, ev \cup clash)
  <2>3. u \in Tables /\ u[m] = t[m]
    BY <1>1, <2>2, DropType
  <2>4. s_leases' = Committed(u, m, sel.ip)
    BY <1>3
  <2> HIDE DEF u
  <2>5. s_leases'[m].saved_ip = u[m].saved_ip
    BY <1>0, <2>3, <2>4, CommittedType, AddrFacts
  <2> QED BY <2>1, <2>3, <2>5
<1> QED BY <1>2, <1>3 DEF Record

LEMMA GrantSavedStep ==
  ASSUME LanInv, LanInv', GrantSaved, [LanNext]_lanVars
  PROVE  GrantSaved'
<1>0. /\ IndInv /\ s_leases \in Tables /\ granted \in [MACs -> Addr]
      /\ Safe(s_leases, s_boot_seq) /\ Backed(s_leases, s_boot_seq, granted)
      /\ WellFormed(s_leases)
  BY IndInvParts DEF LanInv
<1> SUFFICES ASSUME s_dirty' = "clean", NEW x \in MACs, granted'[x] # 0
             PROVE  s_leases'[x].saved_ip = granted'[x]
  BY DEF GrantSaved
<1>1. ASSUME s_dirty = "clean", granted'[x] = granted[x],
             s_leases'[x].saved_ip = s_leases[x].saved_ip
      PROVE  s_leases'[x].saved_ip = granted'[x]
  BY <1>1 DEF GrantSaved
<1>2. \A S : granted' = Without(S) => x \notin S /\ granted'[x] = granted[x]
  BY <1>0, WithoutType
<1>3. CASE UNCHANGED lanVars
  BY <1>1, <1>3 DEF lanVars
<1>4. ASSUME NEW m \in MACs, NEW requested \in Requested, NEW wired \in Ports,
             ClientDiscovers(m, requested, wired)
      PROVE  s_leases'[x].saved_ip = granted'[x]
  <2>1. x # m /\ granted'[x] = granted[x] /\ Discover(m, requested, wired)
    BY <1>2, <1>4 DEF ClientDiscovers
  <2>2. CASE UNCHANGED <<s_leases, s_dirty>>
    BY <1>1, <2>1, <2>2
  <2>3. ASSUME NEW sel \in select_address(s_leases, m, requested, wired), Record(m, sel, FALSE)
        PROVE  s_leases'[x].saved_ip = granted'[x]
    <3>0. RecordedSafely(m, sel, granted)
      BY <1>0, <2>3, RecordSafe
    <3>1. s_leases'[x] = s_leases[x]
      BY <2>1, <3>0 DEF RecordedSafely
    <3>2. s_dirty = "clean"
      BY <2>3, StillClean DEF Record
    <3> QED BY <1>1, <2>1, <3>1, <3>2
  <2> QED BY <2>1, <2>2, <2>3 DEF Discover
<1>5. ASSUME NEW m \in MACs, NEW requested \in Requested, NEW wired \in Ports,
             ClientRequests(m, requested, wired)
      PROVE  s_leases'[x].saved_ip = granted'[x]
  <2>1. /\ Request(m, requested, wired) /\ granted[m] \in {0, requested}
        /\ \/ UNCHANGED granted
           \/ granted' = Without({m})
           \/ granted' = [granted EXCEPT ![m] = out'.ip]
    BY <1>5 DEF ClientRequests
  <2>2. x # m => granted'[x] = granted[x]
    BY <1>0, <1>2, <2>1
  <2>3. x = m => granted'[m] = granted[m] \/ granted'[m] = out'.ip
    BY <1>0, <1>2, <2>1
  <2>4. ASSUME NEW sel \in select_address(s_leases, m, requested, wired),
               requested \in {0, sel.ip}, Record(m, sel, TRUE),
               out' = [type |-> "ACK", mac |-> m, ip |-> sel.ip, wired |-> wired]
        PROVE  s_leases'[x].saved_ip = granted'[x]
    <3>1. sel.ip \in Subnet
      BY <1>0, SelectType
    <3>2. s_dirty = "clean" /\ (s_leases'[m].in_use => s_leases'[m].saved_ip = sel.ip)
      BY <1>0, <2>4, <3>1, RecordSaves
    <3>3. RecordedSafely(m, sel, granted)
      BY <1>0, <2>4, RecordSafe
    <3>4. CASE x = m
      <4>1. s_leases'[m].in_use /\ s_leases'[m].ip = granted'[m]
        BY <3>4 DEF LanInv, Backed, Backs
      <4> QED BY <3>2, <3>3, <3>4, <4>1 DEF RecordedSafely
    <3>5. CASE x # m
      <4>1. s_leases'[x] = s_leases[x]
        BY <2>2, <3>3, <3>5 DEF RecordedSafely
      <4> QED BY <1>1, <2>2, <3>2, <3>5, <4>1
    <3> QED BY <3>4, <3>5
  <2>5. ASSUME NEW S, s_leases' = Drop(s_leases, S), s_dirty = "clean",
               out' = [type |-> "NAK", mac |-> m, ip |-> 0, wired |-> wired]
        PROVE  s_leases'[x].saved_ip = granted'[x]
    <3>1. granted'[x] = granted[x]
      BY <2>2, <2>3, <2>5
    <3>2. s_leases'[x].in_use
      BY DEF LanInv, Backed, Backs
    <3>3. s_leases'[x] = s_leases[x]
      BY <1>0, <2>5, <3>2, DropType, BlankType
    <3> QED BY <1>1, <2>5, <3>1, <3>3
  <2>6. CASE /\ out' = [type |-> "NAK", mac |-> m, ip |-> 0, wired |-> wired]
             /\ UNCHANGED <<s_leases, s_dirty>>
    BY <1>1, <2>2, <2>3, <2>6
  <2> QED BY <2>1, <2>4, <2>5, <2>6, StillClean DEF Request
<1>6. ASSUME NEW m \in MACs, ClientChoosesOther(m) PROVE s_leases'[x].saved_ip = granted'[x]
  <2>1. granted'[x] = granted[x] /\ x # m /\ s_dirty = "clean" /\ s_leases' = Drop(s_leases, {m})
    BY <1>6 DEF ClientChoosesOther, RequestOther
  <2> QED BY <1>0, <1>1, <2>1, DropType
<1>7. ASSUME NEW m \in MACs, NEW requested \in Requested, ClientDeclines(m, requested)
      PROVE  s_leases'[x].saved_ip = granted'[x]
  <2>1. /\ granted'[x] = granted[x] /\ x # m /\ s_dirty = "clean"
        /\ s_leases' = Drop(s_leases, {m})
    BY <1>2, <1>7, StillClean DEF ClientDeclines, Decline
  <2> QED BY <1>0, <1>1, <2>1, DropType
<1>8. ASSUME NEW m \in MACs, ClientReleases(m) \/ LeaseRunsOut(m)
      PROVE  s_leases'[x].saved_ip = granted'[x]
  <2>1. granted'[x] = granted[x] /\ x # m /\ s_dirty = "clean"
    BY <1>2, <1>8 DEF ClientReleases, LeaseRunsOut, Release, LeaseExpires
  <2>2. s_leases'[x] = s_leases[x]
    BY <1>0, <1>8, <2>1 DEF ClientReleases, LeaseRunsOut, Release, LeaseExpires, Tables
  <2> QED BY <1>1, <2>1, <2>2
<1>9. ASSUME NEW m \in MACs, ClientLeaves(m) PROVE s_leases'[x].saved_ip = granted'[x]
  BY <1>1, <1>2, <1>9 DEF ClientLeaves, vars
<1>10. ASSUME NEW m \in MACs, NEW ip \in Subnet, TrafficSeen(m, ip)
       PROVE  s_leases'[x].saved_ip = granted'[x]
  <2>1. granted'[x] = granted[x]
    BY <1>2, <1>10 DEF TrafficSeen
  <2>2. PICK ev \in SlotEvictions(s_leases, m) :
          s_leases' = [Drop(s_leases, ev) EXCEPT ![m] =
                        [Drop(s_leases, ev)[m] EXCEPT
                           !.in_use = TRUE,
                           !.observed_ip = IF ip = Drop(s_leases, ev)[m].ip THEN 0 ELSE ip,
                           !.last_seen_seq = s_boot_seq, !.last_seen_us = 1]]
    BY <1>10 DEF TrafficSeen, NoteObserved
  <2>3. Backs(s_leases[x], s_boot_seq, granted[x])
    BY <1>0, <2>1 DEF Backed
  <2>4. s_dirty = "clean"
    BY <1>10, StillClean DEF TrafficSeen, NoteObserved
  <2> DEFINE t == Drop(s_leases, ev)
  <2>5. t \in Tables /\ t[x] = s_leases[x]
    BY <1>0, <2>3, EvictedSilent, DropType DEF Backs
  <2> HIDE DEF t
  <2>6. t[m] \in Lease
    BY <2>5 DEF Tables
  <2>7. s_leases' = [t EXCEPT ![m] =
                       [t[m] EXCEPT !.in_use = TRUE,
                                    !.observed_ip = IF ip = t[m].ip THEN 0 ELSE ip,
                                    !.last_seen_seq = s_boot_seq, !.last_seen_us = 1]]
    BY <2>2 DEF t
  <2>8. s_leases'[x].saved_ip = t[x].saved_ip
    BY <2>5, <2>6, <2>7 DEF Tables, Lease
  <2> QED BY <1>1, <2>1, <2>4, <2>5, <2>8
<1>11. ASSUME NEW macs, CutOff(macs) PROVE s_leases'[x].saved_ip = granted'[x]
  <2>1. granted'[x] = granted[x] /\ s_dirty = "clean"
    BY <1>2, <1>11, StillClean DEF CutOff, SetQuarantined
  <2>2. s_leases[x] \in Lease
    BY <1>0 DEF Tables
  <2>3. s_leases'[x].saved_ip = s_leases[x].saved_ip
    BY <1>11, <2>2 DEF CutOff, SetQuarantined, Lease
  <2> QED BY <1>1, <2>1, <2>3
<1>12. CASE FlashStep
  <2>1. SaveOk /\ UNCHANGED granted
    BY <1>12 DEF FlashStep, DebounceExpires, SaveFails, ram
  <2>2. s_leases[x] \in Lease /\ s_leases'[x] = AsSaved(s_leases[x])
    BY <1>0, <2>1 DEF SaveOk, Tables
  <2>3. s_leases[x].in_use /\ s_leases[x].ip = granted[x]
    BY <1>0, <2>1 DEF Backed, Backs
  <2> QED BY <2>1, <2>2, <2>3 DEF AsSaved, Lease
<1>13. CASE BridgeRestarts
  BY <1>13 DEF BridgeRestarts, Nothing
<1> QED
  BY <1>3, <1>4, <1>5, <1>6, <1>7, <1>8, <1>9, <1>10, <1>11, <1>12, <1>13,
     InputAssumption DEF LanNext

\* Whatever a client holds is in flash as soon as the table counts as saved: a
\* restart after that brings its lease back.
THEOREM GrantsStored == LanSpec => []GrantStored
<1>1. LanInit => CleanMeansSaved /\ GrantSaved
  BY InitClean DEF LanInit, GrantSaved, Nothing
<1>2. LanInv /\ CleanMeansSaved /\ [LanNext]_lanVars => CleanMeansSaved'
  BY LanStepIsServerStep, NextClean DEF LanInv
<1>3. LanInv /\ LanInv' /\ GrantSaved /\ [LanNext]_lanVars => GrantSaved'
  BY GrantSavedStep
<1>4. LanInv /\ CleanMeansSaved /\ GrantSaved => GrantStored
  <2> SUFFICES ASSUME LanInv, CleanMeansSaved, GrantSaved, NEW m \in MACs,
                      s_dirty = "clean", granted[m] # 0
               PROVE  flash.table[m].ip = granted[m]
    BY DEF GrantStored
  <2>1. s_leases[m].in_use /\ s_leases[m].saved_ip = granted[m]
    BY DEF LanInv, Backed, Backs, GrantSaved
  <2> QED BY <2>1 DEF CleanMeansSaved, InUse
<1> QED BY LanInvariant, <1>1, <1>2, <1>3, <1>4, PTL DEF LanSpec
=============================================================================
