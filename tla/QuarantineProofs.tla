-------------------------- MODULE QuarantineProofs --------------------------
(***************************************************************************)
(* The conflict records, the pardons and what is published of them, for    *)
(* any number of clients, addresses, records and ticks, whichever way the  *)
(* once-a-second rebuild, its late push and the console interleave.        *)
(*                                                                         *)
(* What the forwarding path is given is a function of the records, so the  *)
(* invariant is about those: a record that is armed is in use, names a     *)
(* client that is not pardoned, and there are no more of them than slots.  *)
(***************************************************************************)
EXTENDS Quarantine, FiniteSetTheorems, TLAPS

Fields == {"used", "mac", "confirm", "miss", "armed"}

\* A record; nothing here depends on how its counters stand.
IsRecord(c) ==
  /\ DOMAIN c = Fields
  /\ c = [used |-> c.used, mac |-> c.mac, confirm |-> c.confirm, miss |-> c.miss,
          armed |-> c.armed]
  /\ c.used \in BOOLEAN /\ c.armed \in BOOLEAN
  /\ c.armed => c.used

Records ==
  /\ s_conflicts = [k \in Keys |-> s_conflicts[k]]
  /\ \A k \in Keys : IsRecord(s_conflicts[k])

\* Who is convicted is not pardoned, enforced or not.
Unpardoned == \A k \in Keys : s_conflicts[k].armed => s_conflicts[k].mac \notin s_q_exempt

Roomy == Cardinality(Used) <= QUARANTINE_MAX

Inv == Records /\ Unpardoned /\ Roomy /\ PublishedIsArmed

\* The records that are armed are never more than the forwarding table has slots:
\* where quarantine_publish() clips its list there is nothing to clip.
NothingClipped == Cardinality({k \in Keys : s_conflicts[k].armed}) <= QUARANTINE_MAX

-----------------------------------------------------------------------------
LEMMA KeysFinite == IsFiniteSet(Keys)
<1>1. IsFiniteSet(SUBSET MACs)
  BY QuarantineAssumption, FS_SUBSET
<1>2. IsFiniteSet(Pairs)
  BY <1>1, FS_Subset DEF Pairs
<1> QED BY <1>2, QuarantineAssumption, FS_Product DEF Keys

LEMMA NoRecordFacts ==
  /\ IsRecord(NoRecord) /\ NoRecord.used = FALSE /\ NoRecord.armed = FALSE
BY DEF IsRecord, NoRecord, Fields

\* One pass of the rebuild over a record that its clients still bear out.
LEMMA ConfirmedFacts ==
  ASSUME NEW c, IsRecord(c), NEW k \in Keys
  PROVE  /\ IsRecord(Confirmed(c, k))
         /\ c.armed => Confirmed(c, k).mac = c.mac
         /\ Confirmed(c, k).armed => c.armed \/ Confirmed(c, k).mac \notin s_q_exempt
<1>1. PICK mac, confirm, armed :
        /\ Confirmed(c, k) = [used |-> TRUE, mac |-> mac, confirm |-> confirm, miss |-> 0,
                              armed |-> armed]
        /\ mac = Settle(c, k)
        /\ armed = (c.armed \/ (confirm >= Q_ARM_TICKS /\ both_confirmed(k) /\ mac \notin s_q_exempt))
  BY DEF Confirmed
<1>2. armed \in BOOLEAN /\ (armed => c.armed \/ mac \notin s_q_exempt)
  BY <1>1 DEF IsRecord
<1>3. IsRecord(Confirmed(c, k)) /\ Confirmed(c, k).mac = mac /\ Confirmed(c, k).armed = armed
  BY <1>1, <1>2 DEF IsRecord, Fields
<1>4. c.armed => mac = c.mac
  BY <1>1 DEF Settle
<1> QED BY <1>2, <1>3, <1>4

\* And over one that they do not.
LEMMA MissedFacts ==
  ASSUME NEW c, IsRecord(c)
  PROVE  /\ IsRecord(Missed(c))
         /\ Missed(c).armed => c.armed /\ Missed(c).mac = c.mac
         /\ Missed(c).used => c.used
<1>1. CASE Missed(c) = NoRecord
  BY <1>1, NoRecordFacts
<1>2. ASSUME NEW miss, NEW armed, armed = (c.armed /\ miss < Q_DISARM_TICKS),
             Missed(c) = [c EXCEPT !.confirm = 0, !.miss = miss, !.armed = armed]
      PROVE  /\ IsRecord(Missed(c))
             /\ Missed(c).armed => c.armed /\ Missed(c).mac = c.mac
             /\ Missed(c).used => c.used
  <2>1. armed \in BOOLEAN /\ (armed => c.armed)
    BY <1>2 DEF IsRecord
  <2>2. Missed(c) = [used |-> c.used, mac |-> c.mac, confirm |-> 0, miss |-> miss, armed |-> armed]
    BY <1>2 DEF IsRecord
  <2>3. /\ Missed(c).used = c.used /\ Missed(c).mac = c.mac /\ Missed(c).armed = armed
        /\ DOMAIN Missed(c) = Fields
    BY <2>2 DEF Fields
  <2> QED BY <2>1, <2>2, <2>3 DEF IsRecord
<1> QED BY <1>1, <1>2 DEF Missed

LEMMA InitInv == Init => Inv
<1> SUFFICES ASSUME Init PROVE Inv
  OBVIOUS
<1>1. s_conflicts = [k \in Keys |-> NoRecord] /\ s_q_exempt = {} /\ published = {}
  BY DEF Init
<1>2. Records /\ Unpardoned
  BY <1>1, NoRecordFacts DEF Records, Unpardoned
<1>3. Roomy
  <2>1. Used = {}
    BY <1>1, NoRecordFacts DEF Used
  <2> QED BY <2>1, FS_EmptySet, QuarantineAssumption DEF Roomy
<1>4. PublishedIsArmed
  BY <1>1, NoRecordFacts DEF PublishedIsArmed, Enforced, Armed
<1> QED BY <1>2, <1>3, <1>4 DEF Inv

\* What holds of the records after a step, and of who they name.
KeepsWho ==
  \A k \in Keys : s_conflicts[k].armed /\ s_conflicts'[k].armed
                    => s_conflicts'[k].mac = s_conflicts[k].mac

LEMMA UntouchedStep ==
  ASSUME Inv, UNCHANGED <<s_conflicts, published>>, s_q_exempt' \subseteq s_q_exempt,
         UNCHANGED s_q_enforce
  PROVE  Inv' /\ KeepsWho
<1>1. Records' /\ Unpardoned' /\ KeepsWho
  BY DEF Inv, Records, Unpardoned, KeepsWho, IsRecord
<1>2. Roomy'
  BY DEF Inv, Roomy, Used
<1>3. PublishedIsArmed'
  BY DEF Inv, PublishedIsArmed, Enforced, Armed
<1> QED BY <1>1, <1>2, <1>3 DEF Inv

\* The new records fit in the slots left.
LEMMA FreshFits ==
  ASSUME Roomy, NEW leases, NEW fresh \in Fresh(leases), NEW S, S \subseteq Used \cup fresh
  PROVE  Cardinality(S) <= QUARANTINE_MAX
<1> DEFINE new == Colliding(leases) \ Used
           room == QUARANTINE_MAX - Cardinality(Used)
<1>1. /\ IsFiniteSet(Used) /\ IsFiniteSet(new) /\ IsFiniteSet(fresh)
  <2>1. Used \subseteq Keys /\ new \subseteq Keys /\ fresh \subseteq new
    BY DEF Used, Colliding, Fresh
  <2> HIDE DEF new
  <2> QED BY <2>1, KeysFinite, FS_Subset
<1>2. /\ Cardinality(Used) \in Nat /\ Cardinality(new) \in Nat /\ Cardinality(fresh) \in Nat
      /\ QUARANTINE_MAX \in Nat
  BY <1>1, FS_CardinalityType, QuarantineAssumption
<1>3. Cardinality(fresh) = IF Cardinality(new) < room THEN Cardinality(new) ELSE room
  BY DEF Fresh
<1> HIDE DEF new
<1>4. Cardinality(fresh) <= QUARANTINE_MAX - Cardinality(Used)
  BY <1>2, <1>3
<1>5. /\ IsFiniteSet(Used \cup fresh)
      /\ Cardinality(Used \cup fresh) = Cardinality(Used) + Cardinality(fresh)
                                          - Cardinality(Used \cap fresh)
  BY <1>1, FS_Union
<1>6. Cardinality(Used \cap fresh) \in Nat
  <2>1. IsFiniteSet(Used \cap fresh)
    BY <1>1, FS_Subset
  <2> QED BY <2>1, FS_CardinalityType
<1>7. Cardinality(Used \cup fresh) <= QUARANTINE_MAX
  BY <1>2, <1>4, <1>5, <1>6
<1>8. IsFiniteSet(S) /\ Cardinality(S) <= Cardinality(Used \cup fresh)
  BY <1>5, FS_Subset
<1>9. Cardinality(S) \in Nat /\ Cardinality(Used \cup fresh) \in Nat
  BY <1>5, <1>8, FS_CardinalityType
<1> QED BY <1>2, <1>7, <1>8, <1>9

\* The rebuild keeps who is cut off while it lasts and arms nobody who is pardoned.
LEMMA RebuildStep ==
  ASSUME Inv, TickRebuilds
  PROVE  Inv' /\ KeepsWho
<1>1. PICK fresh \in Fresh(tick.leases) :
        s_conflicts' = [k \in Keys |->
          CASE k \in fresh \cup (Used \cap Colliding(tick.leases)) -> Confirmed(s_conflicts[k], k)
            [] k \in Used \ Colliding(tick.leases) -> Missed(s_conflicts[k])
            [] OTHER -> s_conflicts[k]]
  BY DEF TickRebuilds
<1>2. UNCHANGED <<s_q_exempt, s_q_enforce>> /\ published' = Enforced(s_conflicts', s_q_enforce)
  BY DEF TickRebuilds, operator
<1>3. ASSUME NEW k \in Keys
      PROVE  /\ IsRecord(s_conflicts'[k])
             /\ s_conflicts[k].armed /\ s_conflicts'[k].armed
                  => s_conflicts'[k].mac = s_conflicts[k].mac
             /\ s_conflicts'[k].armed => s_conflicts'[k].mac \notin s_q_exempt
             /\ s_conflicts'[k].used => k \in Used \cup fresh
  <2> DEFINE c == s_conflicts[k]
             d == s_conflicts'[k]
  <2>0. IsRecord(c) /\ (c.armed => c.mac \notin s_q_exempt)
    BY DEF Inv, Records, Unpardoned
  <2>1. CASE k \in fresh \cup (Used \cap Colliding(tick.leases))
    <3>1. d = Confirmed(c, k)
      <4> DEFINE hit == fresh \cup (Used \cap Colliding(tick.leases))
                 lost == Used \ Colliding(tick.leases)
                 conf == Confirmed(s_conflicts[k], k)
                 miss == Missed(s_conflicts[k])
      <4>1. d = CASE k \in hit -> conf [] k \in lost -> miss [] OTHER -> s_conflicts[k]
        BY <1>1
      <4>2. k \in hit /\ k \notin lost
        BY <2>1 DEF Fresh
      <4> HIDE DEF hit, lost, conf, miss
      <4>3. d = conf
        BY <4>1, <4>2
      <4> QED BY <4>3 DEF conf
    <3> HIDE DEF c, d
    <3>2. /\ IsRecord(d) /\ (c.armed => d.mac = c.mac)
          /\ d.armed => d.mac \notin s_q_exempt
      BY <2>0, <3>1, ConfirmedFacts
    <3> QED BY <2>1, <3>2 DEF c, d
  <2>2. CASE k \in Used \ Colliding(tick.leases) /\ k \notin fresh
    <3>1. d = Missed(c)
      BY <1>1, <2>2
    <3> HIDE DEF c, d
    <3>2. /\ IsRecord(d) /\ (d.armed => c.armed /\ d.mac = c.mac)
      BY <2>0, <3>1, MissedFacts
    <3> QED BY <2>0, <2>2, <3>2 DEF c, d
  <2>3. CASE k \notin Used /\ k \notin fresh
    <3>1. d = c
      BY <1>1, <2>3
    <3> QED BY <2>0, <2>3, <3>1 DEF Used
  <2> QED BY <2>1, <2>2, <2>3
<1>4. Records'
  <2>1. s_conflicts' = [k \in Keys |-> s_conflicts'[k]]
    BY <1>1
  <2> QED BY <1>3, <2>1 DEF Records, IsRecord
<1>5. Unpardoned'
  BY <1>2, <1>3 DEF Unpardoned
<1>6. Roomy'
  <2>1. Used' \subseteq Used \cup fresh
    BY <1>3 DEF Used
  <2>2. Cardinality(Used') <= QUARANTINE_MAX
    BY <2>1, FreshFits DEF Inv
  <2> QED BY <2>2 DEF Roomy
<1>7. PublishedIsArmed'
  BY <1>2 DEF PublishedIsArmed, Enforced, Armed
<1>8. KeepsWho
  BY <1>3 DEF KeepsWho
<1> QED BY <1>4, <1>5, <1>6, <1>7, <1>8 DEF Inv

\* A pardon disarms every record that names the client.
LEMMA PardonStep ==
  ASSUME Inv, NEW m, Pardon(m)
  PROVE  Inv' /\ KeepsWho
<1>1. /\ s_conflicts' = [k \in Keys |-> IF s_conflicts[k].armed /\ s_conflicts[k].mac = m
                                          THEN [s_conflicts[k] EXCEPT !.armed = FALSE]
                                          ELSE s_conflicts[k]]
      /\ s_q_exempt' = s_q_exempt \cup {m} /\ UNCHANGED s_q_enforce
      /\ published' = Enforced(s_conflicts', s_q_enforce)
  BY DEF Pardon
<1>2. ASSUME NEW k \in Keys
      PROVE  /\ IsRecord(s_conflicts'[k])
             /\ s_conflicts'[k].mac = s_conflicts[k].mac
             /\ s_conflicts'[k].used = s_conflicts[k].used
             /\ s_conflicts'[k].armed => s_conflicts[k].armed /\ s_conflicts[k].mac # m
  <2> DEFINE c == s_conflicts[k]
             d == s_conflicts'[k]
  <2>0. IsRecord(c)
    BY DEF Inv, Records
  <2>1. CASE c.armed /\ c.mac = m
    <3>1. d = [c EXCEPT !.armed = FALSE]
      BY <1>1, <2>1
    <3> HIDE DEF c, d
    <3>2. d = [used |-> c.used, mac |-> c.mac, confirm |-> c.confirm, miss |-> c.miss,
               armed |-> FALSE]
      BY <2>0, <3>1 DEF IsRecord
    <3>3. IsRecord(d) /\ d.mac = c.mac /\ d.used = c.used /\ d.armed = FALSE
      BY <2>0, <3>2 DEF IsRecord, Fields
    <3> QED BY <3>3 DEF c, d
  <2>2. CASE ~(c.armed /\ c.mac = m)
    BY <1>1, <2>0, <2>2
  <2> QED BY <2>1, <2>2
<1>3. Records'
  <2>1. s_conflicts' = [k \in Keys |-> s_conflicts'[k]]
    BY <1>1
  <2> QED BY <1>2, <2>1 DEF Records, IsRecord
<1>4. Unpardoned'
  BY <1>1, <1>2 DEF Inv, Unpardoned
<1>5. Roomy'
  <2>1. Used' = Used
    BY <1>2 DEF Used
  <2> QED BY <2>1 DEF Inv, Roomy
<1>6. PublishedIsArmed'
  BY <1>1 DEF PublishedIsArmed, Enforced, Armed
<1>7. KeepsWho
  BY <1>2 DEF KeepsWho
<1> QED BY <1>3, <1>4, <1>5, <1>6, <1>7 DEF Inv

LEMMA EnforceStep ==
  ASSUME Inv, NEW on, Enforce(on)
  PROVE  Inv' /\ KeepsWho
<1>1. UNCHANGED <<s_conflicts, s_q_exempt>> /\ s_q_enforce' = on
      /\ published' = Enforced(s_conflicts, on)
  BY DEF Enforce
<1>2. Records' /\ Unpardoned' /\ KeepsWho
  BY <1>1 DEF Inv, Records, Unpardoned, KeepsWho, IsRecord
<1>3. Roomy'
  BY <1>1 DEF Inv, Roomy, Used
<1>4. PublishedIsArmed'
  BY <1>1 DEF PublishedIsArmed, Enforced, Armed
<1> QED BY <1>2, <1>3, <1>4 DEF Inv

LEMMA NextInv == ASSUME Inv, [Next]_vars PROVE Inv' /\ KeepsWho
<1>1. CASE UNCHANGED vars
  BY <1>1, UntouchedStep DEF vars
<1>2. ASSUME NEW m \in MACs, NEW ip \in Addrs, Traffic(m, ip) PROVE Inv' /\ KeepsWho
  BY <1>2, UntouchedStep DEF Traffic, operator, records
<1>3. ASSUME NEW m \in MACs, Frame(m) \/ FallsSilent(m) PROVE Inv' /\ KeepsWho
  BY <1>3, UntouchedStep DEF Frame, FallsSilent, operator, records
<1>4. ASSUME NEW m \in MACs, NEW ip \in Addrs \cup {0}, LeaseChanges(m, ip)
      PROVE  Inv' /\ KeepsWho
  BY <1>4, UntouchedStep DEF LeaseChanges, operator, records
<1>5. CASE TickBegins
  BY <1>5, UntouchedStep DEF TickBegins, TickSurveys, operator, records
<1>6. CASE TickRebuilds
  BY <1>6, RebuildStep
<1>7. CASE TickPushes
  BY <1>7, UntouchedStep DEF TickPushes, operator, records
<1>8. ASSUME NEW m \in Pardonable, Pardon(m) PROVE Inv' /\ KeepsWho
  BY <1>8, PardonStep
<1>9. CASE WithdrawPardons
  BY <1>9, UntouchedStep DEF WithdrawPardons, records
<1>10. ASSUME NEW on \in Switches, Enforce(on) PROVE Inv' /\ KeepsWho
  BY <1>10, EnforceStep
<1> QED BY <1>1, <1>2, <1>3, <1>4, <1>5, <1>6, <1>7, <1>8, <1>9, <1>10 DEF Next

LEMMA AlwaysInv == Spec => []Inv
<1>1. Inv /\ [Next]_vars => Inv'
  BY NextInv
<1> QED BY <1>1, InitInv, PTL DEF Spec

-----------------------------------------------------------------------------
\* Forwarding drops the frames of exactly the clients that the records convict, or of
\* nobody while enforcement is off, whichever of the three publishers came last.
THEOREM ForwardingFollows == Spec => []PublishedIsArmed
BY AlwaysInv, PTL DEF Inv

\* A pardoned client is carried from that moment until the pardons are withdrawn: a
\* rebuild that was under way, or any later one, does not cut it off again.
THEOREM PardonsHold == Spec => []PardonHolds
<1>1. Inv => PardonHolds
  BY DEF Inv, Unpardoned, PublishedIsArmed, Enforced, Armed, PardonHolds
<1> QED BY <1>1, AlwaysInv, PTL

\* While a quarantine lasts it is on the same one of the two clients, however their
\* arrivals are reordered in the meantime.
THEOREM Steady == Spec => NoOscillation
<1>1. Inv /\ [Next]_vars
        => [\A k \in Keys : s_conflicts[k].armed /\ s_conflicts'[k].armed
                              => s_conflicts'[k].mac = s_conflicts[k].mac]_vars
  BY NextInv DEF KeepsWho
<1> QED BY <1>1, AlwaysInv, PTL DEF Spec, NoOscillation

\* The list that the publishers hand over is never longer than the forwarding table,
\* which QuarantineTable takes for granted: quarantine_publish() clips nothing.
THEOREM ListFits == Spec => []NothingClipped
<1>1. Inv => NothingClipped
  <2> SUFFICES ASSUME Inv PROVE NothingClipped
    OBVIOUS
  <2> DEFINE A == {k \in Keys : s_conflicts[k].armed}
  <2>1. A \subseteq Used /\ Used \subseteq Keys
    BY DEF Inv, Records, IsRecord, Used
  <2> HIDE DEF A
  <2>2. IsFiniteSet(Used) /\ Cardinality(Used) \in Nat
    BY <2>1, KeysFinite, FS_Subset, FS_CardinalityType
  <2>3. Cardinality(A) <= Cardinality(Used) /\ Cardinality(A) \in Nat
    BY <2>1, <2>2, FS_Subset, FS_CardinalityType
  <2>4. Cardinality(A) <= QUARANTINE_MAX
    BY <2>2, <2>3, QuarantineAssumption DEF Inv, Roomy
  <2> QED BY <2>4 DEF NothingClipped, A
<1> QED BY <1>1, AlwaysInv, PTL
=============================================================================
