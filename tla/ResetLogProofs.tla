--------------------------- MODULE ResetLogProofs ---------------------------
(***************************************************************************)
(* Proofs about what a boot records of the one before it (ResetLog), for   *)
(* any schedule of checkpoints, any number of resets at any step, and      *)
(* whatever flash held to begin with: the date is the moment the boot      *)
(* started, RTC memory speaks of the last boot that used it, the witness   *)
(* of the supply does not lie, and, when the write of the record itself    *)
(* lands, "rolled back" is said exactly once for each time and an uptime   *)
(* taken from the checkpoint is a true window.                             *)
(***************************************************************************)
EXTENDS ResetLog, TLAPS, WellFoundedInduction

Places == {"start", "record", "blob", "seed", "eth", "arm", "valid", "ready", "up"}
Asked == Intents \cup {"unknown"}
Rtcs == [magic: BOOLEAN, torn: SUBSET Pairs, up: Nat, intent: Asked, ready: BOOLEAN]
Clocks == [set: BOOLEAN, synced: BOOLEAN, at: Nat]
Boots == [valid: BOOLEAN, up: Nat, intent: Asked, ready: BOOLEAN]
SlotStates == {"valid", "new", "pending", "aborted"}
Minds == [landed: BOOLEAN, clean: BOOLEAN]
Pasts == [seeded: Boots, halfway: BOOLEAN, recorded: [up: Nat, tight: BOOLEAN],
          reverted: BOOLEAN, armed: BOOLEAN]

\* What the variables hold.
Typed ==
  /\ now \in Nat /\ start \in Nat /\ start <= now
  /\ reset \in {"power", "en", "panic", "restart"} /\ resets \in 0 .. MaxResets
  /\ pc \in Places
  /\ rtc \in Rtcs /\ asked \in Asked
  /\ clock \in Clocks
  /\ flash \in Stores
  /\ imr \in BOOLEAN /\ s_pattern \in BOOLEAN
  /\ slots \in [{1, 2} -> SlotStates] /\ running \in {1, 2}
  /\ s_ring \in Seq(Records) /\ (pc \notin {"start", "record"} => s_ring # <<>>)
  /\ mine \in Minds /\ past \in Pasts

\* A time that RTC memory knows of is set.
StampInv == (clock.synced => clock.set) /\ StampTrue

\* The PHY's register holds the pattern as long as the boot that wrote it runs,
\* and, unless power was lost, until the next one has looked.
WitnessInv ==
  /\ s_pattern => imr /\ pc \in {"valid", "ready", "up"}
  /\ pc = "start" => /\ reset = "power" => ~imr
                     /\ past.armed => imr \/ reset = "power"

\* A block, whether its pairs check or not, tells of the last boot that started
\* it over, except for the pairs that a later one got to.
TellsOf(block, before) ==
  /\ before.seeded.valid /\ block.up <= before.seeded.up
  /\ block.intent = before.seeded.intent \/ (before.halfway /\ block.intent = "unknown")
  /\ block.ready => before.seeded.ready
  /\ before.seeded.ready => block.ready \/ before.halfway

\* RTC memory is the last boot's until this one starts it over.
RtcInv ==
  /\ pc \in {"start", "record"} /\ rtc.magic => TellsOf(rtc, past)
  /\ pc \notin {"start", "record"} =>
       rtc.up <= up /\ rtc.intent = asked /\ rtc.ready = (pc = "up")
  /\ pc \in {"start", "record"} => asked = "unknown"

\* The slots: at most one image is new or on trial, and never the only good one.
SlotInv ==
  /\ slots[running] \in {"valid", "pending"}
  /\ slots[running] = "pending" => slots[3 - running] = "valid"
  /\ slots[3 - running] # "pending"
  /\ slots[3 - running] = "new" => pc \in {"valid", "ready", "up"}

\* Whether the newest record in flash, or in RAM, is this boot's, and marks a trial.
OfThisBoot(ring) ==
  /\ ring # <<>> /\ Last(ring).part = running
  /\ slots[running] = "pending" => "OTA_PENDING" \in Last(ring).flags

\* Until the record of this boot is in flash, the newest one there tells of the
\* boot before; from then on there is nothing left to tell.
RollInv ==
  /\ SlotInv
  /\ pc \in {"start", "record", "blob"} =>
       /\ ~mine.landed /\ past.reverted = RolledBack(load_from_nvs.ring)
       /\ slots[running] = "pending" =>
            load_from_nvs.ring = <<>> \/ Last(load_from_nvs.ring).part # running
  /\ pc \notin {"start", "record"} => OfThisBoot(s_ring)
  /\ pc \notin {"start", "record", "blob"} =>
       mine.landed /\ ~past.reverted /\ flash.version = STORE_VERSION /\ OfThisBoot(flash.ring)

\* The number the next record gets, and what flash held to begin with: its
\* checkpoint is not of a number that this history is going to use.
NextNumber == load_from_nvs.next_seq
FirstNumber(f) == IF f.version \in 1 .. STORE_VERSION THEN f.next_seq ELSE 1
NoCollision ==
  \A f \in OldFlash : f.ckpt.seq < FirstNumber(f) \/ f.ckpt.seq > FirstNumber(f) + MaxResets

\* The place in the schedule of the first time after a floor.
PlaceAfter(floor) == IF Later(floor) = {} THEN Len(k_ckpt_times) + 1 ELSE NextAfter(floor)

\* What the checkpoint says of the boot that ended.
Window(c, recorded) ==
  /\ c.up <= recorded.up
  /\ recorded.tight /\ ceiling_for(c.up) # 0 => recorded.up < ceiling_for(c.up)

\* Until the record of this boot is in flash, the checkpoint is not of this
\* boot's number; if it is of the one before, it is a window around how long the
\* last recorded boot ran.
FloorBefore ==
  /\ flash.ckpt.seq < NextNumber \/ flash.ckpt.seq > NextNumber + (MaxResets - resets)
  /\ load_checkpoint(NextNumber - 1) => Window(flash.ckpt, past.recorded)
  /\ pc = "blob" => Current.boot_seq = NextNumber

\* From then on it is this boot's only if this boot wrote it; with every write
\* landed it is the last time on the schedule that has passed.
FloorAfter ==
  /\ flash.next_seq = Current.boot_seq + 1
  /\ \/ flash.ckpt.seq <= Current.boot_seq
     \/ flash.ckpt.seq > Current.boot_seq + (MaxResets - resets)
  /\ flash.ckpt.seq = Current.boot_seq => pc # "seed" /\ flash.ckpt.up <= up
  /\ pc # "seed" /\ mine.clean =>
       flash.ckpt.seq = Current.boot_seq /\ s_ckpt_next = PlaceAfter(flash.ckpt.up)

FloorInv ==
  /\ pc \in {"start", "record", "blob", "seed", "eth"} => s_ckpt_next = 1
  /\ pc \in {"start", "record", "blob"} => FloorBefore
  /\ pc \notin {"start", "record", "blob"} => FloorAfter
-----------------------------------------------------------------------------
(* Where app_main() is.                                                    *)

LEMMA RankOf ==
  /\ Rank["start"] = 1 /\ Rank["record"] = 2 /\ Rank["blob"] = 3 /\ Rank["seed"] = 4
  /\ Rank["eth"] = 5 /\ Rank["arm"] = 6 /\ Rank["valid"] = 7 /\ Rank["ready"] = 8
  /\ Rank["up"] = 9
<1>1. /\ DOMAIN Stages = 1 .. 9
      /\ Stages[1] = "start" /\ Stages[2] = "record" /\ Stages[3] = "blob" /\ Stages[4] = "seed"
      /\ Stages[5] = "eth" /\ Stages[6] = "arm" /\ Stages[7] = "valid" /\ Stages[8] = "ready"
      /\ Stages[9] = "up"
  BY DEF Stages
<1>2. ASSUME NEW i \in 1 .. 9, \A j \in 1 .. 9 : Stages[j] = Stages[i] => j = i
      PROVE  Rank[Stages[i]] = i
  <2>1. Stages[i] \in ToSet(Stages)
    BY <1>1 DEF ToSet
  <2>2. Rank[Stages[i]] = CHOOSE k \in DOMAIN Stages : Stages[k] = Stages[i]
    BY <2>1 DEF Rank
  <2>3. \A k \in DOMAIN Stages : Stages[k] = Stages[i] => k = i
    BY <1>1, <1>2
  <2> QED BY <1>1, <2>2, <2>3
<1>3. \A i, j \in 1 .. 9 : Stages[j] = Stages[i] => j = i
  <2>1. \A i \in 1 .. 9 : i \in {1, 2, 3, 4, 5, 6, 7, 8, 9}
    OBVIOUS
  <2> QED BY <1>1, <2>1
<1>4. \A i \in 1 .. 9 : Rank[Stages[i]] = i
  BY <1>2, <1>3
<1> QED BY <1>1, <1>4

LEMMA Reaches ==
  ASSUME pc \in Places
  PROVE  /\ Reached("blob") <=> pc \notin {"start", "record"}
         /\ Reached("eth") <=> pc \notin {"start", "record", "blob", "seed"}
         /\ Reached("arm") <=> pc \in {"arm", "valid", "ready", "up"}
         /\ Reached("valid") <=> pc \in {"valid", "ready", "up"}
BY RankOf DEF Reached, Places
-----------------------------------------------------------------------------
(* Records.                                                                *)

\* A record with another date and other flags.
Dated(r, epoch, flags) == [r EXCEPT !.boot_epoch = epoch, !.flags = flags]

LEMMA Redated ==
  ASSUME NEW r \in Records, NEW epoch \in Int, NEW flags, flags \subseteq Flags
  PROVE  /\ Dated(r, epoch, flags) \in Records
         /\ Dated(r, epoch, flags).boot_epoch = epoch /\ Dated(r, epoch, flags).flags = flags
         /\ Dated(r, epoch, flags).part = r.part
         /\ Dated(r, epoch, flags).boot_seq = r.boot_seq
<1> DEFINE d == [r EXCEPT !.boot_epoch = epoch, !.flags = flags]
<1>1. PICK seq \in Nat, reason \in Reasons, prev \in Nat, intent \in Intents \cup {"unknown"},
           part \in {1, 2}, e \in Int, f \in SUBSET Flags :
        r = [boot_seq |-> seq, reason |-> reason, prev_uptime_s |-> prev, intent |-> intent,
             part |-> part, boot_epoch |-> e, flags |-> f]
  <2>1. /\ r.boot_seq \in Nat /\ r.reason \in Reasons /\ r.prev_uptime_s \in Nat
        /\ r.intent \in Intents \cup {"unknown"} /\ r.part \in {1, 2} /\ r.boot_epoch \in Int
        /\ r.flags \in SUBSET Flags
        /\ r = [boot_seq |-> r.boot_seq, reason |-> r.reason, prev_uptime_s |-> r.prev_uptime_s,
                intent |-> r.intent, part |-> r.part, boot_epoch |-> r.boot_epoch,
                flags |-> r.flags]
    BY DEF Records
  <2> QED BY <2>1
<1>2. d = [boot_seq |-> seq, reason |-> reason, prev_uptime_s |-> prev, intent |-> intent,
           part |-> part, boot_epoch |-> epoch, flags |-> flags]
  <2> DEFINE m == [r EXCEPT !.boot_epoch = epoch]
  <2>1. m = [boot_seq |-> seq, reason |-> reason, prev_uptime_s |-> prev, intent |-> intent,
             part |-> part, boot_epoch |-> epoch, flags |-> f]
    BY <1>1
  <2>2. d = [m EXCEPT !.flags = flags]
    OBVIOUS
  <2> HIDE DEF m, d
  <2> QED BY <2>1, <2>2
<1> HIDE DEF d
<1>3. d \in Records /\ d.boot_epoch = epoch /\ d.flags = flags /\ d.part = part /\ d.boot_seq = seq
  BY <1>2 DEF Records
<1>4. r.part = part /\ r.boot_seq = seq
  BY <1>1
<1> QED BY <1>3, <1>4 DEF d, Dated

LEMMA LoadTyped ==
  ASSUME flash \in Stores
  PROVE  /\ load_from_nvs.ring \in Seq(Records) /\ load_from_nvs.next_seq \in Nat
         /\ flash.version = STORE_VERSION => load_from_nvs = flash
<1>0. /\ flash.ring \in Seq(Records) /\ flash.next_seq \in Nat /\ flash.version \in Nat
  BY DEF Stores
<1>1. CASE flash.version = STORE_VERSION
  <2>1. load_from_nvs = flash
    BY <1>1 DEF load_from_nvs, STORE_VERSION
  <2> QED BY <1>0, <2>1
<1>2. CASE flash.version \in 1 .. STORE_VERSION - 1
  <2> DEFINE undated == [i \in DOMAIN flash.ring |-> Undated(flash.ring[i])]
  <2>1. load_from_nvs = [flash EXCEPT !.ring = undated]
    BY <1>2 DEF load_from_nvs, STORE_VERSION
  <2>2. ASSUME NEW i \in DOMAIN flash.ring PROVE undated[i] \in Records
    <3> DEFINE r == flash.ring[i]
               flags == r.flags \ {"BOOT_TIME"}
    <3>1. r \in Records
      BY <1>0, <2>2
    <3>2. undated[i] = Dated(r, 0, flags)
      BY DEF Undated, Dated
    <3> HIDE DEF r, undated
    <3>3. flags \subseteq Flags
      BY <3>1 DEF Records
    <3> HIDE DEF flags
    <3>4. 0 \in Int
      OBVIOUS
    <3>5. Dated(r, 0, flags) \in Records
      BY <3>1, <3>3, <3>4, Redated
    <3> QED BY <3>2, <3>5
  <2>3. undated \in Seq(Records)
    <3>1. DOMAIN flash.ring = 1 .. Len(flash.ring) /\ Len(flash.ring) \in Nat
      BY <1>0
    <3>2. undated \in [1 .. Len(flash.ring) -> Records]
      BY <2>2, <3>1
    <3> HIDE DEF undated
    <3> QED BY <3>1, <3>2
  <2> HIDE DEF undated
  <2>4. load_from_nvs.ring = undated /\ load_from_nvs.next_seq = flash.next_seq
    BY <2>1 DEF Stores
  <2>5. flash.version # STORE_VERSION
    BY <1>2 DEF STORE_VERSION
  <2> QED BY <1>0, <2>3, <2>4, <2>5
<1>3. CASE flash.version # STORE_VERSION /\ flash.version \notin 1 .. STORE_VERSION - 1
  <2>1. load_from_nvs = [flash EXCEPT !.ring = <<>>, !.next_seq = 1]
    BY <1>3 DEF load_from_nvs
  <2>2. load_from_nvs.ring = <<>> /\ load_from_nvs.next_seq = 1
    BY <2>1 DEF Stores
  <2> QED BY <1>3, <2>2
<1> QED BY <1>1, <1>2, <1>3

\* A newest record is one of the records.
LEMMA LastTyped ==
  ASSUME NEW ring \in Seq(Records), ring # <<>>
  PROVE  Last(ring) \in Records /\ Len(ring) \in Nat \ {0} /\ Last(ring) = ring[Len(ring)]
<1>1. Len(ring) \in Nat \ {0}
  OBVIOUS
<1> QED BY <1>1 DEF Last

LEMMA LastOfAppend ==
  ASSUME NEW S, NEW ring \in Seq(S), NEW r \in S
  PROVE  Append(ring, r) \in Seq(S) /\ Append(ring, r) # <<>> /\ Last(Append(ring, r)) = r
<1>1. Append(ring, r) \in Seq(S) /\ Len(Append(ring, r)) = Len(ring) + 1 /\ Len(ring) \in Nat
      /\ Append(ring, r)[Len(ring) + 1] = r
  OBVIOUS
<1>2. Append(ring, r) # <<>>
  BY <1>1
<1> QED BY <1>1, <1>2 DEF Last

\* What the record of this boot says.
LEMMA NewRecordSays ==
  ASSUME Typed, NEW ring, NEW seq \in Nat
  PROVE  LET r == NewRecord(ring, seq)
             floor == ~prev_valid /\ load_checkpoint(seq - 1)
         IN  /\ r \in Records
             /\ r.boot_seq = seq /\ r.part = running
             /\ r.prev_uptime_s = IF prev_valid THEN rtc.up ELSE IF floor THEN flash.ckpt.up ELSE 0
             /\ r.intent = IF prev_valid THEN rtc.intent ELSE "unknown"
             /\ r.boot_epoch = IF clock_time_now THEN time - up ELSE 0
             /\ "PREV_STATE" \in r.flags <=> prev_valid
             /\ "REACHED_READY" \in r.flags <=> prev_valid /\ rtc.ready
             /\ "PREV_UPTIME_MIN" \in r.flags <=> floor
             /\ "BOOT_TIME" \in r.flags <=> clock_time_now
             /\ "OTA_PENDING" \in r.flags <=> slots[running] = "pending"
             /\ "ROLLBACK" \in r.flags <=> RolledBack(ring)
<1> DEFINE r == NewRecord(ring, seq)
           floor == ~prev_valid /\ load_checkpoint(seq - 1)
           prev == CASE prev_valid -> rtc.up [] floor -> flash.ckpt.up [] OTHER -> 0
           intent == IF prev_valid THEN rtc.intent ELSE "unknown"
           epoch == IF clock_time_now THEN time - up ELSE 0
           flags == UNION {If(prev_valid, "PREV_STATE"), If(prev_valid /\ rtc.ready, "REACHED_READY"),
                        If(floor, "PREV_UPTIME_MIN"), If(clock_time_now, "BOOT_TIME"),
                        If(rail # "unknown", "RAIL_KNOWN"), If(rail = "held", "RAIL_HELD"),
                        If(slots[running] = "pending", "OTA_PENDING"),
                        If(RolledBack(ring), "ROLLBACK")}
<1>1. r = [boot_seq |-> seq, reason |-> Reason, prev_uptime_s |-> prev, intent |-> intent,
           part |-> running, boot_epoch |-> epoch, flags |-> flags]
  BY DEF NewRecord
<1>2. /\ flags \in SUBSET Flags
      /\ "PREV_STATE" \in flags <=> prev_valid
      /\ "REACHED_READY" \in flags <=> prev_valid /\ rtc.ready
      /\ "PREV_UPTIME_MIN" \in flags <=> floor
      /\ "BOOT_TIME" \in flags <=> clock_time_now
      /\ "OTA_PENDING" \in flags <=> slots[running] = "pending"
      /\ "ROLLBACK" \in flags <=> RolledBack(ring)
  BY DEF If, Flags
<1>3. prev = IF prev_valid THEN rtc.up ELSE IF floor THEN flash.ckpt.up ELSE 0
  OBVIOUS
<1>4. prev \in Nat
  <2>1. rtc.up \in Nat /\ flash.ckpt.up \in Nat
    BY DEF Typed, Rtcs, Stores
  <2> HIDE DEF floor, prev
  <2> QED BY <1>3, <2>1
<1>5. epoch \in Int
  BY DEF Typed, time, up
<1>6. Reason \in Reasons /\ intent \in Intents \cup {"unknown"} /\ running \in {1, 2}
  <2>1. Reason \in Reasons
    BY DEF Reason, Reasons, Wipes, Typed
  <2>2. intent \in Intents \cup {"unknown"}
    BY DEF Typed, Rtcs, Asked
  <2> QED BY <2>1, <2>2 DEF Typed
<1> HIDE DEF r, prev, intent, epoch, flags, floor
<1>7. r \in Records /\ r.boot_seq = seq /\ r.part = running /\ r.prev_uptime_s = prev
      /\ r.intent = intent /\ r.boot_epoch = epoch /\ r.flags = flags
  BY <1>1, <1>2, <1>4, <1>5, <1>6 DEF Records
<1> QED BY <1>2, <1>3, <1>7 DEF r, prev, intent, epoch, floor
-----------------------------------------------------------------------------
(* What the steps do to the compound variables.                            *)

LEMMA BlobIs ==
  ASSUME flash \in Stores, NEW ring \in Seq(Records), ring # <<>>
  PROVE  /\ Blob(ring) \in Stores /\ Blob(ring).version = STORE_VERSION /\ Blob(ring).ring = ring
         /\ Blob(ring).next_seq = Last(ring).boot_seq + 1 /\ Blob(ring).ckpt = flash.ckpt
<1> DEFINE n == Last(ring).boot_seq + 1
           v == STORE_VERSION
<1>1. n \in Nat /\ v \in Nat
  <2>1. Last(ring) \in Records
    BY LastTyped
  <2>2. Last(ring).boot_seq \in Nat
    BY <2>1 DEF Records
  <2> QED BY <2>2 DEF STORE_VERSION
<1>2. flash = [version |-> flash.version, ring |-> flash.ring, next_seq |-> flash.next_seq,
               ckpt |-> flash.ckpt] /\ flash.ckpt \in [seq: Nat, up: Nat]
  BY DEF Stores
<1> HIDE DEF n, v
<1>3. [flash EXCEPT !.version = v, !.ring = ring, !.next_seq = n]
        = [version |-> v, ring |-> ring, next_seq |-> n, ckpt |-> flash.ckpt]
  <2> DEFINE a == [flash EXCEPT !.version = v]
  <2>1. a = [version |-> v, ring |-> flash.ring, next_seq |-> flash.next_seq, ckpt |-> flash.ckpt]
    BY <1>2
  <2> HIDE DEF a
  <2> DEFINE b == [a EXCEPT !.ring = ring]
  <2>2. b = [version |-> v, ring |-> ring, next_seq |-> flash.next_seq, ckpt |-> flash.ckpt]
    BY <2>1
  <2> HIDE DEF b
  <2>3. [b EXCEPT !.next_seq = n]
          = [version |-> v, ring |-> ring, next_seq |-> n, ckpt |-> flash.ckpt]
    BY <2>2
  <2> QED BY <2>3 DEF a, b
<1>4. Blob(ring) = [version |-> v, ring |-> ring, next_seq |-> n, ckpt |-> flash.ckpt]
  BY <1>3 DEF Blob, n, v
<1>5. [version |-> v, ring |-> ring, next_seq |-> n, ckpt |-> flash.ckpt] \in Stores
  BY <1>1, <1>2 DEF Stores
<1> QED BY <1>4, <1>5 DEF n, v

LEMMA CheckpointIs ==
  ASSUME flash \in Stores, Current \in Records, NEW seconds \in Nat
  PROVE  /\ set_checkpoint(seconds) \in Stores
         /\ set_checkpoint(seconds).version = flash.version
         /\ set_checkpoint(seconds).ring = flash.ring
         /\ set_checkpoint(seconds).next_seq = flash.next_seq
         /\ set_checkpoint(seconds).ckpt.seq = Current.boot_seq
         /\ set_checkpoint(seconds).ckpt.up = seconds
<1> DEFINE c == [seq |-> Current.boot_seq, up |-> seconds]
<1>1. c \in [seq: Nat, up: Nat] /\ c.seq = Current.boot_seq /\ c.up = seconds
  BY DEF Records
<1>2. set_checkpoint(seconds) = [flash EXCEPT !.ckpt = c]
  BY DEF set_checkpoint
<1> HIDE DEF c
<1> QED BY <1>1, <1>2 DEF Stores

LEMMA PastRevert ==
  ASSUME past \in Pasts, NEW b \in BOOLEAN, NEW p, p = [past EXCEPT !.reverted = b]
  PROVE  /\ p \in Pasts /\ p.seeded = past.seeded /\ p.recorded = past.recorded
         /\ p.halfway = past.halfway
         /\ p.armed = past.armed /\ p.reverted = b
BY DEF Pasts

\* The record of this boot lands in flash, or a write is lost.
LEMMA LandedIs ==
  ASSUME past \in Pasts, mine \in Minds, Landed
  PROVE  /\ past' \in Pasts /\ past'.seeded = past.seeded /\ past'.halfway = past.halfway
         /\ past'.recorded = past.recorded
         /\ past'.armed = past.armed /\ past'.reverted = FALSE
         /\ mine' \in Minds /\ mine'.landed = TRUE /\ mine'.clean = mine.clean
<1>1. past' = [past EXCEPT !.reverted = FALSE] /\ mine' = [mine EXCEPT !.landed = TRUE]
  BY DEF Landed
<1>2. mine' \in Minds /\ mine'.landed = TRUE /\ mine'.clean = mine.clean
  BY <1>1 DEF Minds
<1> QED BY <1>1, <1>2, PastRevert

LEMMA LostIs ==
  ASSUME mine \in Minds, Lost
  PROVE  /\ UNCHANGED past
         /\ mine' \in Minds /\ mine'.landed = mine.landed /\ mine'.clean = FALSE
BY DEF Lost, Minds

LEMMA TupleLen ==
  ASSUME NEW S, NEW m \in Nat, NEW f \in [1 .. m -> S]
  PROVE  f \in Seq(S) /\ Len(f) = m
<1>1. f \in Seq(S)
  OBVIOUS
<1>2. DOMAIN f = 1 .. m /\ DOMAIN f = 1 .. Len(f) /\ Len(f) \in Nat
  BY <1>1
<1>3. Len(f) <= m /\ m <= Len(f)
  <2>1. CASE Len(f) > m
    <3>1. m + 1 \in 1 .. Len(f) /\ m + 1 \notin 1 .. m
      BY <1>2, <2>1
    <3> QED BY <1>2, <3>1
  <2>2. CASE m > Len(f)
    <3>1. m \in 1 .. m /\ m \notin 1 .. Len(f)
      BY <1>2, <2>2
    <3> QED BY <1>2, <3>1
  <2> QED BY <1>2, <2>1, <2>2
<1> QED BY <1>1, <1>2, <1>3

\* The newest record gets a date.
Stamped(ring, at) ==
  [ring EXCEPT ![Len(ring)].boot_epoch = at, ![Len(ring)].flags = @ \cup {"BOOT_TIME"}]

LEMMA DatedRing ==
  ASSUME NEW ring \in Seq(Records), ring # <<>>, NEW at \in Int
  PROVE  /\ Stamped(ring, at) \in Seq(Records) /\ Stamped(ring, at) # <<>>
         /\ Last(Stamped(ring, at)).boot_epoch = at
         /\ Last(Stamped(ring, at)).flags = Last(ring).flags \cup {"BOOT_TIME"}
         /\ Last(Stamped(ring, at)).part = Last(ring).part
         /\ Last(Stamped(ring, at)).boot_seq = Last(ring).boot_seq
<1> DEFINE new == Stamped(ring, at)
           n == Len(ring)
           r == ring[n]
           flags == r.flags \cup {"BOOT_TIME"}
           d == Dated(r, at, flags)
<1>1. r \in Records /\ n \in Nat \ {0} /\ Last(ring) = r /\ n \in DOMAIN ring
  BY LastTyped
<1>2. new = [ring EXCEPT ![n] = d]
  BY <1>1 DEF Dated, Stamped
<1> HIDE DEF r
<1>3. flags \subseteq Flags
  BY <1>1 DEF Records, Flags
<1> HIDE DEF flags
<1>4. d \in Records /\ d.boot_epoch = at /\ d.flags = flags /\ d.part = r.part
      /\ d.boot_seq = r.boot_seq
  BY <1>1, <1>3, Redated
<1> HIDE DEF d, n, new
<1>5. new \in Seq(Records) /\ Len(new) = Len(ring) /\ new[n] = d
  <2>1. ring \in [1 .. Len(ring) -> Records] /\ Len(ring) \in Nat
    OBVIOUS
  <2>2. new \in [1 .. Len(ring) -> Records] /\ new[n] = d
    BY <1>1, <1>2, <1>4, <2>1
  <2> QED BY <2>1, <2>2, TupleLen
<1>6. new # <<>> /\ Last(new) = d
  BY <1>1, <1>5 DEF Last, n
<1> QED BY <1>1, <1>4, <1>5, <1>6 DEF flags, new
-----------------------------------------------------------------------------
(* The types.                                                              *)

LEMMA UpIsNat == Typed => up \in Nat
BY DEF Typed, up

LEMMA CurrentTyped ==
  ASSUME Typed, pc \notin {"start", "record"}
  PROVE  s_ring \in Seq(Records) /\ s_ring # <<>> /\ Current \in Records
<1>1. s_ring \in Seq(Records) /\ s_ring # <<>>
  BY DEF Typed
<1> QED BY <1>1, LastTyped DEF Current

\* reset_log_init() appends the record of this boot.
LEMMA Appends ==
  ASSUME Typed, reset_log_init
  PROVE  /\ s_ring' \in Seq(Records) /\ s_ring' # <<>>
         /\ Last(s_ring') = NewRecord(load_from_nvs.ring, load_from_nvs.next_seq)
<1> DEFINE ring == load_from_nvs.ring
           seq == load_from_nvs.next_seq
           kept1 == IF Len(ring) = RESET_LOG_MAX_RECORDS THEN Tail(ring) ELSE ring
           new == NewRecord(ring, seq)
<1>1. ring \in Seq(Records) /\ seq \in Nat
  BY LoadTyped DEF Typed
<1>2. s_ring' = Append(kept1, new)
  BY DEF reset_log_init
<1>3. new \in Records
  BY <1>1, NewRecordSays
<1>4. kept1 \in Seq(Records)
  <2>1. CASE ring = <<>>
    <3>1. Len(ring) # RESET_LOG_MAX_RECORDS
      BY <2>1, ResetLogAssumption
    <3> QED BY <1>1, <3>1
  <2>2. CASE ring # <<>>
    <3> HIDE DEF ring
    <3> QED BY <1>1, <2>2
  <2> QED BY <2>1, <2>2
<1> HIDE DEF kept1, new, ring, seq
<1>5. s_ring' \in Seq(Records) /\ s_ring' # <<>> /\ Last(s_ring') = new
  BY <1>2, <1>3, <1>4, LastOfAppend
<1> QED BY <1>5 DEF new, ring, seq

\* reset_log_note_time() leaves the newest record's number and image as they are.
LEMMA NotesTime ==
  ASSUME Typed, pc \notin {"start", "record"}, NEW ok, reset_log_note_time(StartedAt, ok)
  PROVE  /\ s_ring' \in Seq(Records) /\ s_ring' # <<>> /\ flash' \in Stores
         /\ mine' \in Minds /\ past' \in Pasts
         /\ Last(s_ring').boot_seq = Current.boot_seq /\ Last(s_ring').part = Current.part
         /\ Current.flags \subseteq Last(s_ring').flags
         /\ UNCHANGED s_ring \/ Last(s_ring').boot_epoch = StartedAt
         /\ mine'.clean = mine.clean /\ (mine.landed => mine'.landed)
         /\ past'.seeded = past.seeded /\ past'.halfway = past.halfway
         /\ past'.recorded = past.recorded
         /\ past'.armed = past.armed
         /\ \/ UNCHANGED <<flash, mine, past>>
            \/ /\ flash'.version = STORE_VERSION /\ flash'.ring = s_ring'
               /\ flash'.next_seq = Current.boot_seq + 1 /\ flash'.ckpt = flash.ckpt
               /\ mine'.landed /\ ~past'.reverted
<1>0. /\ flash \in Stores /\ mine \in Minds /\ past \in Pasts /\ StartedAt \in Int
  BY DEF Typed, StartedAt, time, up
<1>1. s_ring \in Seq(Records) /\ s_ring # <<>> /\ Current \in Records
  BY CurrentTyped
<1>2. CASE "BOOT_TIME" \in Current.flags
  <2>1. UNCHANGED <<s_ring, flash, mine, past>>
    BY <1>2 DEF reset_log_note_time, truth
  <2> QED BY <1>0, <1>1, <2>1 DEF Current
<1>3. CASE "BOOT_TIME" \notin Current.flags
  <2>1. s_ring' = Stamped(s_ring, StartedAt)
    BY <1>3 DEF reset_log_note_time, Stamped
  <2>2. /\ s_ring' \in Seq(Records) /\ s_ring' # <<>>
        /\ Last(s_ring').boot_epoch = StartedAt
        /\ Last(s_ring').flags = Last(s_ring).flags \cup {"BOOT_TIME"}
        /\ Last(s_ring').part = Last(s_ring).part
        /\ Last(s_ring').boot_seq = Last(s_ring).boot_seq
    <3> DEFINE at == StartedAt
               new == Stamped(s_ring, at)
    <3>1. at \in Int /\ s_ring' = new
      BY <1>0, <2>1
    <3> HIDE DEF at
    <3>2. /\ new \in Seq(Records) /\ new # <<>> /\ Last(new).boot_epoch = at
          /\ Last(new).flags = Last(s_ring).flags \cup {"BOOT_TIME"}
          /\ Last(new).part = Last(s_ring).part /\ Last(new).boot_seq = Last(s_ring).boot_seq
      BY <1>1, <3>1, DatedRing
    <3> HIDE DEF new
    <3> QED BY <3>1, <3>2 DEF at
  <2>3. CASE ok
    <3>1. flash' = Blob(s_ring') /\ Landed
      BY <1>3, <2>3 DEF reset_log_note_time, Rewritten
    <3>2. /\ flash' \in Stores /\ flash'.version = STORE_VERSION /\ flash'.ring = s_ring'
          /\ flash'.next_seq = Last(s_ring').boot_seq + 1 /\ flash'.ckpt = flash.ckpt
      BY <1>0, <2>2, <3>1, BlobIs
    <3>3. /\ past' \in Pasts /\ past'.seeded = past.seeded /\ past'.halfway = past.halfway
         /\ past'.recorded = past.recorded
          /\ past'.armed = past.armed /\ past'.reverted = FALSE
          /\ mine' \in Minds /\ mine'.landed = TRUE /\ mine'.clean = mine.clean
      BY <1>0, <3>1, LandedIs
    <3> QED BY <2>2, <3>2, <3>3 DEF Current
  <2>4. CASE ~ok
    <3>1. UNCHANGED <<flash, mine, past>>
      BY <1>3, <2>4 DEF reset_log_note_time, truth
    <3> QED BY <1>0, <2>2, <3>1 DEF Current
  <2> QED BY <2>3, <2>4
<1> QED BY <1>2, <1>3

LEMMA BootloaderIs ==
  ASSUME Typed, Bootloader
  PROVE  /\ slots' \in [{1, 2} -> SlotStates] /\ running' \in {1, 2}
         /\ \/ /\ slots[3 - running] = "new" /\ running' = 3 - running
               /\ slots' = [slots EXCEPT ![3 - running] = "pending"]
            \/ /\ slots[3 - running] # "new" /\ slots[running] = "pending"
               /\ running' = 3 - running /\ slots' = [slots EXCEPT ![running] = "aborted"]
            \/ /\ slots[3 - running] # "new" /\ slots[running] # "pending"
               /\ UNCHANGED <<running, slots>>
<1>0. /\ running \in {1, 2} /\ 3 - running \in {1, 2} /\ slots \in [{1, 2} -> SlotStates]
      /\ {"pending", "aborted"} \subseteq SlotStates
  BY DEF Typed, SlotStates
<1>1. \/ /\ slots[3 - running] = "new" /\ running' = 3 - running
         /\ slots' = [slots EXCEPT ![3 - running] = "pending"]
      \/ /\ slots[3 - running] # "new" /\ slots[running] = "pending"
         /\ running' = 3 - running /\ slots' = [slots EXCEPT ![running] = "aborted"]
      \/ /\ slots[3 - running] # "new" /\ slots[running] # "pending"
         /\ UNCHANGED <<running, slots>>
  BY DEF Bootloader, GivesUp
<1>2. slots' \in [{1, 2} -> SlotStates] /\ running' \in {1, 2}
  BY <1>0, <1>1
<1> QED BY <1>1, <1>2

LEMMA PassedIs ==
  ASSUME Typed, NEW left
  PROVE  /\ Passed(left) \in Pasts /\ Passed(left).armed = s_pattern
         /\ pc \in {"start", "record"} =>
              /\ Passed(left).seeded = past.seeded
              /\ Passed(left).halfway = (past.halfway \/ left # rtc)
         /\ pc \notin {"start", "record"} =>
              Passed(left).seeded = [valid |-> TRUE, up |-> up, intent |-> asked, ready |-> pc = "up"]
         /\ ~mine.landed => Passed(left).recorded = past.recorded
         /\ mine.landed => /\ Passed(left).recorded.up = up
                           /\ Passed(left).recorded.tight =
                                (mine.clean /\ pc \notin {"start", "record", "blob", "seed"} /\ ~Due)
         /\ Passed(left).reverted = (past.reverted \/ (GivesUp /\ mine.landed))
<1> DEFINE mineSeeded == [valid |-> TRUE, up |-> up, intent |-> asked, ready |-> pc = "up"]
           tight == mine.clean /\ Reached("eth") /\ ~Due
           seeded == IF Reached("blob") THEN mineSeeded ELSE past.seeded
           recorded == IF mine.landed THEN [up |-> up, tight |-> tight] ELSE past.recorded
           reverted == past.reverted \/ (GivesUp /\ mine.landed)
           halfway == ~Reached("blob") /\ (past.halfway \/ left # rtc)
<1>0. /\ up \in Nat /\ asked \in Asked /\ past.seeded \in Boots
      /\ past.recorded \in [up: Nat, tight: BOOLEAN] /\ s_pattern \in BOOLEAN
      /\ mine.landed \in BOOLEAN /\ mine.clean \in BOOLEAN /\ past.reverted \in BOOLEAN
  BY UpIsNat DEF Typed, Pasts, Minds
<1>1. /\ Reached("blob") <=> pc \notin {"start", "record"}
      /\ Reached("eth") <=> pc \notin {"start", "record", "blob", "seed"}
  BY Reaches DEF Typed
<1>2. Passed(left) = [seeded |-> seeded, halfway |-> halfway, recorded |-> recorded,
                      reverted |-> reverted, armed |-> s_pattern]
  BY DEF Passed
<1>3. mineSeeded \in Boots
  BY <1>0 DEF Boots
<1>4. tight = (mine.clean /\ pc \notin {"start", "record", "blob", "seed"} /\ ~Due)
  BY <1>1
<1>5. tight \in BOOLEAN /\ reverted \in BOOLEAN /\ halfway \in BOOLEAN
  BY <1>0 DEF Due, GivesUp, Reached
<1> HIDE DEF mineSeeded, tight, reverted
<1>6. /\ seeded \in Boots /\ recorded \in [up: Nat, tight: BOOLEAN]
      /\ mine.landed => recorded.up = up /\ recorded.tight = tight
  BY <1>0, <1>3, <1>5
<1>7. /\ pc \in {"start", "record"} => seeded = past.seeded
      /\ pc \notin {"start", "record"} => seeded = mineSeeded
      /\ pc \in {"start", "record"} => halfway = (past.halfway \/ left # rtc)
      /\ ~mine.landed => recorded = past.recorded
  BY <1>1
<1> HIDE DEF seeded, recorded, halfway
<1>8. /\ Passed(left) \in Pasts /\ Passed(left).seeded = seeded /\ Passed(left).recorded = recorded
      /\ Passed(left).reverted = reverted /\ Passed(left).armed = s_pattern
      /\ Passed(left).halfway = halfway
  BY <1>0, <1>2, <1>5, <1>6 DEF Pasts
<1> QED BY <1>4, <1>6, <1>7, <1>8 DEF mineSeeded, reverted

\* What a reset leaves of the block: of a boot that has started it over all but
\* the check, of one that has not what was there or what rtc_seed() writes.
LEMMA LeftIs ==
  ASSUME Typed, NEW left \in LeftOver
  PROVE  /\ left \in Rtcs /\ left.magic = rtc.magic
         /\ pc # "record" => left.up = rtc.up /\ left.intent = rtc.intent /\ left.ready = rtc.ready
         /\ left # rtc \/ (left.up = rtc.up /\ left.intent = rtc.intent /\ left.ready = rtc.ready)
         /\ left.up \in {0, rtc.up} /\ left.intent \in {"unknown", rtc.intent}
         /\ left.ready => rtc.ready
<1>0. /\ rtc \in Rtcs /\ rtc.magic \in BOOLEAN /\ rtc.torn \subseteq Pairs /\ rtc.up \in Nat
      /\ rtc.intent \in Asked /\ rtc.ready \in BOOLEAN /\ "unknown" \in Asked
  BY DEF Typed, Rtcs, Asked
<1>1. CASE left = rtc
  BY <1>0, <1>1
<1>2. CASE pc = "record" /\ left \in HalfSeeded
  <2>1. PICK written \in SUBSET Pairs, torn \in SUBSET Pairs : left = Seeding(written, torn)
    BY <1>2 DEF HalfSeeded, Pairs
  <2> DEFINE check == (rtc.torn \ written) \cup torn
             counted == IF "up" \in written THEN 0 ELSE rtc.up
             intent == IF "intent" \in written THEN "unknown" ELSE rtc.intent
             ready == rtc.ready /\ "ready" \notin written
  <2>2. left = [magic |-> rtc.magic, torn |-> check, up |-> counted, intent |-> intent,
                ready |-> ready]
    BY <2>1 DEF Seeding
  <2>3. check \subseteq Pairs
    BY <1>0, <2>1
  <2>4. /\ counted \in Nat /\ counted \in {0, rtc.up}
        /\ intent \in Asked /\ intent \in {"unknown", rtc.intent}
    BY <1>0
  <2>5. ready \in BOOLEAN /\ (ready => rtc.ready)
    BY <1>0
  <2> HIDE DEF check, counted, intent, ready
  <2>6. /\ left.magic = rtc.magic /\ left.torn = check /\ left.up = counted
        /\ left.intent = intent /\ left.ready = ready /\ left \in Rtcs
    BY <1>0, <2>2, <2>3, <2>4, <2>5 DEF Rtcs
  <2>7. left # rtc \/ (left.up = rtc.up /\ left.intent = rtc.intent /\ left.ready = rtc.ready)
    OBVIOUS
  <2> QED BY <1>2, <2>4, <2>5, <2>6, <2>7
<1>3. ASSUME NEW pair \in Pairs, left = [rtc EXCEPT !.torn = {pair}] PROVE left \in Rtcs
      /\ left.magic = rtc.magic /\ left.up = rtc.up /\ left.intent = rtc.intent
      /\ left.ready = rtc.ready
  BY <1>0, <1>3 DEF Rtcs
<1>4. \/ left = rtc
      \/ pc = "record" /\ left \in HalfSeeded
      \/ \E pair \in Pairs : left = [rtc EXCEPT !.torn = {pair}]
  BY DEF LeftOver, If, Pairs
<1> QED BY <1>0, <1>1, <1>2, <1>3, <1>4

LEMMA TypedInit == Init => Typed
<1> SUFFICES ASSUME Init PROVE Typed
  OBVIOUS
<1>1. /\ flash \in Stores /\ slots \in [{1, 2} -> SlotStates] /\ running \in {1, 2}
      /\ rtc \in Rtcs /\ clock \in Clocks /\ mine \in Minds
      /\ asked \in Asked /\ resets \in 0 .. MaxResets
  BY ResetLogAssumption
     DEF Init, SlotStates, Rtcs, Pairs, NoRtc, NoClock, Clocks, Minds, Fresh, Asked
<1>2. past \in Pasts
  <2>1. flash.ckpt.up \in Nat
    BY <1>1 DEF Stores
  <2>2. [up |-> flash.ckpt.up, tight |-> FALSE] \in [up: Nat, tight: BOOLEAN]
    BY <2>1
  <2>3. NoBoot \in Boots
    BY DEF Boots, NoBoot, Asked
  <2> QED BY <2>2, <2>3 DEF Init, Pasts
<1>3. s_ring \in Seq(Records) /\ pc \in Places /\ pc = "start"
  BY DEF Init, Places
<1>4. /\ now \in Nat /\ start \in Nat /\ start <= now
      /\ reset \in {"power", "en", "panic", "restart"}
  BY DEF Init
<1>5. imr \in BOOLEAN /\ s_pattern \in BOOLEAN
  BY Zenon DEF Init
<1> QED BY <1>1, <1>2, <1>3, <1>4, <1>5 DEF Typed

\* A step of app_main() that leaves time, and what outlives it in its own way, alone.
LEMMA TypedStarts ==
  ASSUME Typed, NEW erased \in BOOLEAN, NEW answers \in BOOLEAN, Starts(erased, answers)
  PROVE  Typed'
<1>1. past' \in Pasts
  <2> DEFINE b == past.reverted /\ ~erased
  <2>1. past' = [past EXCEPT !.reverted = b] /\ b \in BOOLEAN /\ past \in Pasts
    BY DEF Starts, Typed
  <2> HIDE DEF b
  <2> QED BY <2>1, PastRevert
<1>2. flash' \in Stores
  <2>1. NoFlash \in Stores
    BY DEF NoFlash, NoCheckpoint, Stores, STORE_VERSION
  <2> QED BY <2>1 DEF Starts, Typed
<1> QED BY <1>1, <1>2 DEF Starts, Typed, Places, world

LEMMA TypedInits ==
  ASSUME Typed, reset_log_init
  PROVE  Typed'
<1>1. s_ring' \in Seq(Records) /\ s_ring' # <<>>
  BY Appends
<1>2. rtc' \in Rtcs
  BY DEF reset_log_init, rtc_seed, Rtcs, Pairs, Asked
<1> QED BY <1>1, <1>2 DEF reset_log_init, Typed, Places, world, truth

LEMMA TypedSaves ==
  ASSUME Typed, NEW ok \in BOOLEAN, SavesRing(ok) \/ SeedsCheckpoint(ok)
  PROVE  Typed'
<1>1. pc \in {"blob", "seed"} /\ pc' \in {"seed", "eth"}
  BY DEF SavesRing, SeedsCheckpoint
<1>2. UNCHANGED <<now, start, reset, resets, rtc, clock, imr, slots, running, s_pattern, s_ring, asked>>
  BY DEF SavesRing, SeedsCheckpoint, world, ram
<1>3. s_ring \in Seq(Records) /\ s_ring # <<>> /\ Current \in Records
  BY <1>1, CurrentTyped
<1>4. flash \in Stores /\ mine \in Minds /\ past \in Pasts
  BY DEF Typed
<1>5. flash' \in Stores
  <2>1. Blob(s_ring) \in Stores
    BY <1>3, <1>4, BlobIs
  <2>2. set_checkpoint(0) \in Stores
    BY <1>3, <1>4, CheckpointIs
  <2> QED BY <1>4, <2>1, <2>2 DEF SavesRing, SeedsCheckpoint
<1>6. mine' \in Minds /\ past' \in Pasts
  <2>1. Landed \/ Lost \/ UNCHANGED <<mine, past>>
    BY DEF SavesRing, SeedsCheckpoint, truth
  <2> QED BY <1>4, <2>1, LandedIs, LostIs
<1> QED BY <1>1, <1>2, <1>3, <1>5, <1>6 DEF Typed, Places

LEMMA TypedTick ==
  ASSUME Typed, NEW ok \in BOOLEAN, reset_log_checkpoint_tick(ok)
  PROVE  Typed'
<1>1. pc \in {"arm", "valid", "ready", "up"}
  BY Reaches DEF reset_log_checkpoint_tick, Monitored, Typed
<1>2. UNCHANGED <<now, start, reset, resets, rtc, clock, imr, slots, running, pc, s_pattern, s_ring, asked>>
  BY DEF reset_log_checkpoint_tick, world
<1>3. s_ring \in Seq(Records) /\ s_ring # <<>> /\ Current \in Records
  BY <1>1, CurrentTyped
<1>4. flash \in Stores /\ mine \in Minds /\ past \in Pasts /\ up \in Nat
  BY UpIsNat DEF Typed
<1>5. flash' \in Stores
  <2>1. set_checkpoint(up) \in Stores
    BY <1>3, <1>4, CheckpointIs
  <2> QED BY <1>4, <2>1 DEF reset_log_checkpoint_tick
<1>6. mine' \in Minds /\ past' \in Pasts
  <2>1. Lost \/ UNCHANGED <<mine, past>>
    BY DEF reset_log_checkpoint_tick, truth
  <2> QED BY <1>4, <2>1, LostIs
<1> QED BY <1>1, <1>2, <1>3, <1>5, <1>6 DEF Typed, Places

LEMMA TypedClock ==
  ASSUME Typed, NEW ok \in BOOLEAN, clock_time_tick(ok)
  PROVE  Typed'
<1>1. pc \in {"arm", "valid", "ready", "up"}
  BY Reaches DEF clock_time_tick, Monitored, Typed
<1>2. UNCHANGED <<now, start, reset, resets, rtc, clock, imr, slots, running, pc, s_pattern, asked>>
  BY DEF clock_time_tick, world
<1>3. /\ s_ring' \in Seq(Records) /\ s_ring' # <<>> /\ flash' \in Stores
      /\ mine' \in Minds /\ past' \in Pasts
  BY <1>1, NotesTime DEF clock_time_tick
<1> QED BY <1>1, <1>2, <1>3 DEF Typed, Places

\* The steps that set one or two variables.
LEMMA TypedSmall ==
  ASSUME Typed,
         \/ eth_init \/ MarksValid \/ reset_log_note_ready \/ Second \/ tick_cb \/ on_sync
         \/ UpdatesImage
         \/ \E ok \in BOOLEAN : rail_witness_arm(ok)
         \/ \E intent \in Intents : reset_log_note_intent(intent)
  PROVE  Typed'
<1>0. up \in Nat
  BY UpIsNat
<1>1. CASE eth_init
  BY <1>1 DEF eth_init, Typed, Places, world, ram, truth
<1>2. CASE MarksValid
  <2>1. slots' \in [{1, 2} -> SlotStates]
    BY <1>2 DEF MarksValid, Typed, SlotStates
  <2> QED BY <1>2, <2>1 DEF MarksValid, Typed, Places, world, ram, truth
<1>3. CASE reset_log_note_ready
  <2>1. rtc' \in Rtcs
    BY <1>3 DEF reset_log_note_ready, Typed, Rtcs
  <2> QED BY <1>3, <2>1 DEF reset_log_note_ready, Typed, Places, world, ram, truth
<1>4. CASE Second
  BY <1>4 DEF Second, Typed, kept, ram, truth
<1>5. CASE tick_cb
  <2>1. rtc' \in Rtcs
    BY <1>0, <1>5 DEF tick_cb, Typed, Rtcs
  <2> QED BY <1>5, <2>1 DEF tick_cb, Typed, world, ram, truth
<1>6. CASE on_sync
  <2>1. clock' \in Clocks
    BY <1>6 DEF on_sync, rtc_note_sync, Clocks, Typed
  <2> QED BY <1>6, <2>1 DEF on_sync, Typed, world, truth
<1>7. CASE UpdatesImage
  <2>1. slots' \in [{1, 2} -> SlotStates]
    BY <1>7 DEF UpdatesImage, Typed, SlotStates
  <2> QED BY <1>7, <2>1 DEF UpdatesImage, Typed, world, ram, truth
<1>8. ASSUME NEW ok \in BOOLEAN, rail_witness_arm(ok) PROVE Typed'
  BY <1>8 DEF rail_witness_arm, Typed, Places, world, truth
<1>9. ASSUME NEW intent \in Intents, reset_log_note_intent(intent) PROVE Typed'
  <2>1. rtc' \in Rtcs /\ asked' \in Asked
    BY <1>0, <1>9 DEF reset_log_note_intent, Typed, Rtcs, Asked
  <2> QED BY <1>9, <2>1 DEF reset_log_note_intent, Typed, world, truth
<1> QED BY <1>1, <1>2, <1>3, <1>4, <1>5, <1>6, <1>7, <1>8, <1>9

LEMMA TypedResets ==
  ASSUME Typed, NEW how \in {"power", "en", "panic", "restart"},
         NEW left \in LeftOver, NEW torn \in BOOLEAN, NEW off \in {0, 1}, Resets(how, left, torn, off)
  PROVE  Typed'
<1>1. slots' \in [{1, 2} -> SlotStates] /\ running' \in {1, 2}
  BY BootloaderIs DEF Resets
<1>2. past' \in Pasts
  BY PassedIs DEF Resets
<1>3. rtc' \in Rtcs
  <2>1. NoRtc \in Rtcs
    BY DEF NoRtc, Rtcs, Pairs, Asked
  <2>2. left \in Rtcs
    BY LeftIs DEF Resets
  <2> QED BY <2>1, <2>2 DEF Resets
<1>4. clock' \in Clocks
  <2> DEFINE b == clock.synced /\ ~torn
  <2>1. NoClock \in Clocks /\ b \in BOOLEAN
    BY DEF NoClock, Clocks, Typed
  <2>2. clock' = IF how \in Wipes THEN NoClock ELSE [clock EXCEPT !.synced = b]
    BY DEF Resets
  <2> HIDE DEF b
  <2> QED BY <2>1, <2>2 DEF Typed, Clocks
<1>5. mine' \in Minds /\ imr' \in BOOLEAN /\ s_pattern' \in BOOLEAN
  <2>1. mine' \in Minds
    BY DEF Resets, Minds, Fresh
  <2>2. imr' \in BOOLEAN /\ s_pattern' \in BOOLEAN
    BY Zenon DEF Resets
  <2> QED BY <2>1, <2>2
<1>6. now' \in Nat /\ start' \in Nat /\ start' <= now' /\ resets' \in 0 .. MaxResets
  BY ResetLogAssumption DEF Resets, Typed
<1>7. s_ring' \in Seq(Records) /\ pc' = "start" /\ asked' \in Asked /\ reset' = how
  BY DEF Resets, Asked
<1>8. flash' \in Stores
  BY DEF Resets, Typed
<1> QED BY <1>1, <1>2, <1>3, <1>4, <1>5, <1>6, <1>7, <1>8 DEF Typed, Places

LEMMA TypedStep == Typed /\ [Next]_vars => Typed'
<1> SUFFICES ASSUME Typed, [Next]_vars PROVE Typed'
  OBVIOUS
<1>1. CASE UNCHANGED vars
  BY <1>1 DEF vars, world, kept, ram, truth, Typed
<1>2. CASE Next
  BY <1>2, TypedStarts, TypedInits, TypedSaves, TypedTick, TypedClock, TypedSmall, TypedResets
     DEF Next
<1> QED BY <1>1, <1>2
-----------------------------------------------------------------------------
(* Dates.                                                                  *)

LEMMA StampStep == Typed /\ StampInv /\ [Next]_vars => StampInv'
<1> SUFFICES ASSUME Typed, StampInv, [Next]_vars PROVE StampInv'
  OBVIOUS
<1>0. now \in Nat /\ start \in Nat /\ (clock.synced => time - up = start)
  BY DEF Typed, StampInv, time, up
<1>1. CASE UNCHANGED <<clock, s_ring, start>>
  BY <1>1 DEF StampInv, StampTrue, Current
<1>2. CASE reset_log_init
  <2>1. UNCHANGED <<clock, start>>
    BY <1>2 DEF reset_log_init, world
  <2> DEFINE ring == load_from_nvs.ring
             seq == load_from_nvs.next_seq
             r == NewRecord(ring, seq)
  <2>2. Last(s_ring') = r
    BY <1>2, Appends
  <2>3. seq \in Nat
    BY LoadTyped DEF Typed
  <2> HIDE DEF ring, seq
  <2>4. /\ "BOOT_TIME" \in r.flags <=> clock_time_now
        /\ r.boot_epoch = IF clock_time_now THEN time - up ELSE 0
    BY <2>3, NewRecordSays
  <2> HIDE DEF r
  <2> QED BY <1>0, <2>1, <2>2, <2>4 DEF StampInv, StampTrue, Current, clock_time_now
<1>3. CASE on_sync
  BY <1>3 DEF on_sync, rtc_note_sync, StampInv, StampTrue, Current, world
<1>4. ASSUME NEW ok \in BOOLEAN, clock_time_tick(ok) PROVE StampInv'
  <2>1. pc \notin {"start", "record"} /\ clock.synced /\ UNCHANGED <<clock, start>>
    BY <1>4, Reaches DEF clock_time_tick, clock_time_now, Monitored, Typed, world
  <2>2. UNCHANGED s_ring \/ Last(s_ring').boot_epoch = StartedAt
    BY <1>4, <2>1, NotesTime DEF clock_time_tick
  <2> QED BY <1>0, <2>1, <2>2 DEF StampInv, StampTrue, Current, StartedAt
<1>5. ASSUME NEW how, NEW left \in LeftOver, NEW torn, NEW off, Resets(how, left, torn, off) PROVE StampInv'
  <2>1. s_ring' = <<>>
    BY <1>5 DEF Resets
  <2>2. clock'.synced => clock'.set
    <3> DEFINE b == clock.synced /\ ~torn
    <3>1. clock' = IF how \in Wipes THEN NoClock ELSE [clock EXCEPT !.synced = b]
      BY <1>5 DEF Resets
    <3>2. b => clock.synced
      OBVIOUS
    <3> HIDE DEF b
    <3> QED BY <3>1, <3>2 DEF StampInv, NoClock, Clocks, Typed
  <2> QED BY <2>1, <2>2 DEF StampInv, StampTrue
<1>6. CASE Next
  <2>1. CASE \E erased, answers \in BOOLEAN : Starts(erased, answers)
    BY <1>1, <2>1 DEF Starts, world
  <2>2. CASE eth_init \/ MarksValid \/ reset_log_note_ready
    BY <1>1, <2>2 DEF eth_init, MarksValid, reset_log_note_ready, world, ram
  <2>3. CASE \E ok \in BOOLEAN :
               \/ SavesRing(ok) \/ SeedsCheckpoint(ok) \/ rail_witness_arm(ok)
               \/ reset_log_checkpoint_tick(ok)
    BY <1>1, <2>3 DEF SavesRing, SeedsCheckpoint, rail_witness_arm, reset_log_checkpoint_tick,
                      world, ram
  <2>4. CASE Second \/ tick_cb \/ UpdatesImage
    BY <1>1, <2>4 DEF Second, tick_cb, UpdatesImage, world, kept, ram
  <2>5. CASE \E intent \in Intents : reset_log_note_intent(intent)
    BY <1>1, <2>5 DEF reset_log_note_intent, world
  <2> QED BY <1>2, <1>3, <1>4, <1>5, <1>6, <2>1, <2>2, <2>3, <2>4, <2>5 DEF Next
<1>7. CASE UNCHANGED vars
  BY <1>1, <1>7 DEF vars, world, kept, ram
<1> QED BY <1>6, <1>7

\* A record that has a date has the moment its boot started, whether the clock
\* was kept over the reset or came later, and although clock_time.c hands
\* reset_log_note_time() a time that it computes at the tick.
THEOREM DatesTrue == Spec => []StampTrue
<1>1. Init => Typed /\ StampInv
  <2>1. Init => StampInv
    BY DEF Init, StampInv, StampTrue, NoClock
  <2> QED BY <2>1, TypedInit
<1>2. Typed /\ StampInv /\ [Next]_vars => (Typed /\ StampInv)'
  BY TypedStep, StampStep
<1>3. StampInv => StampTrue
  BY DEF StampInv
<1> QED BY <1>1, <1>2, <1>3, PTL DEF Spec
-----------------------------------------------------------------------------
(* The witness of the supply.                                              *)

LEMMA WitnessStep == Typed /\ WitnessInv /\ [Next]_vars => WitnessInv'
<1> SUFFICES ASSUME Typed, WitnessInv, [Next]_vars PROVE WitnessInv'
  OBVIOUS
<1>1. CASE UNCHANGED <<imr, s_pattern>> /\ pc' # "start"
           /\ (UNCHANGED pc \/ pc \notin {"valid", "ready", "up"} \/ pc' \in {"valid", "ready", "up"})
  BY <1>1 DEF WitnessInv
<1>2. CASE eth_init
  BY <1>2 DEF eth_init, WitnessInv, ram
<1>3. ASSUME NEW ok \in BOOLEAN, rail_witness_arm(ok) PROVE WitnessInv'
  BY <1>3 DEF rail_witness_arm, WitnessInv
<1>4. ASSUME NEW how, NEW left \in LeftOver, NEW torn, NEW off, Resets(how, left, torn, off) PROVE WitnessInv'
  <2>1. past'.armed = s_pattern
    BY <1>4, PassedIs DEF Resets
  <2>2. s_pattern' = FALSE /\ imr' = (imr /\ how # "power") /\ reset' = how
    BY <1>4 DEF Resets
  <2> QED BY <2>1, <2>2 DEF WitnessInv
<1>5. CASE UNCHANGED <<imr, s_pattern, pc, reset, past>>
  BY <1>5 DEF WitnessInv
<1>6. ASSUME NEW ok, clock_time_tick(ok) \/ reset_log_checkpoint_tick(ok) PROVE WitnessInv'
  <2>1. pc # "start"
    BY <1>6, Reaches DEF clock_time_tick, reset_log_checkpoint_tick, Monitored, Typed
  <2> QED BY <1>1, <1>6, <2>1 DEF clock_time_tick, reset_log_checkpoint_tick
<1>7. CASE Next
  <2>1. CASE \E erased, answers \in BOOLEAN : Starts(erased, answers)
    BY <1>1, <2>1 DEF Starts
  <2>2. CASE reset_log_init \/ MarksValid \/ reset_log_note_ready
    BY <1>1, <2>2 DEF reset_log_init, MarksValid, reset_log_note_ready, ram
  <2>3. CASE \E ok \in BOOLEAN : SavesRing(ok) \/ SeedsCheckpoint(ok)
    BY <1>1, <2>3 DEF SavesRing, SeedsCheckpoint, ram
  <2>4. CASE Second \/ tick_cb \/ on_sync \/ UpdatesImage
    BY <1>5, <2>4 DEF Second, tick_cb, on_sync, UpdatesImage, world, kept, ram, truth
  <2>5. CASE \E intent \in Intents : reset_log_note_intent(intent)
    BY <1>5, <2>5 DEF reset_log_note_intent, world, truth
  <2> QED BY <1>2, <1>3, <1>4, <1>6, <1>7, <2>1, <2>2, <2>3, <2>4, <2>5 DEF Next
<1>8. CASE UNCHANGED vars
  BY <1>5, <1>8 DEF vars, world, kept, ram, truth
<1> QED BY <1>7, <1>8

\* rail_witness_probe() reads before anything can touch the register, and
\* rail_witness_arm() writes after the driver has reset the PHY: what is said of
\* the supply is true of the reset that led to this boot.
THEOREM WitnessTrue == Spec => WitnessHonest
<1>1. Init => Typed /\ WitnessInv
  <2>1. Init => WitnessInv
    BY DEF Init, WitnessInv
  <2> QED BY <2>1, TypedInit
<1>2. Typed /\ WitnessInv /\ [Next]_vars => (Typed /\ WitnessInv)'
  BY TypedStep, WitnessStep
<1>3. Typed /\ WitnessInv /\ [Next]_vars
        => [pc = "start" /\ pc' = "record" =>
              /\ rail' = "held" => reset # "power"
              /\ rail' = "dropped" => reset = "power" \/ ~past.armed]_vars
  <2> SUFFICES ASSUME Typed, WitnessInv, Next, pc = "start", pc' = "record"
               PROVE  /\ rail' = "held" => reset # "power"
                      /\ rail' = "dropped" => reset = "power" \/ ~past.armed
    OBVIOUS
  <2>1. ~Monitored /\ ~Reached("valid") /\ ~Reached("eth")
    BY Reaches DEF Monitored, Typed
  <2>2. PICK erased \in BOOLEAN, answers \in BOOLEAN : Starts(erased, answers)
    BY <2>1 DEF Next, reset_log_init, eth_init, MarksValid, reset_log_note_ready, SavesRing,
                SeedsCheckpoint, rail_witness_arm, reset_log_checkpoint_tick, clock_time_tick,
                Second, tick_cb, on_sync, UpdatesImage, reset_log_note_intent, Resets
  <2>3. rail' = rail_witness_probe(answers)
    BY <2>2 DEF Starts
  <2>4. /\ rail' = "held" => imr
        /\ rail' = "dropped" => ~imr
    BY <2>3 DEF rail_witness_probe
  <2> QED BY <2>4 DEF WitnessInv
<1> QED BY <1>1, <1>2, <1>3, PTL DEF Spec, WitnessHonest
-----------------------------------------------------------------------------
(* RTC memory.                                                             *)

\* Only reset_log_init() goes from "record" to "blob".
LEMMA RecordedBy ==
  ASSUME Typed, Next, pc = "record", pc' = "blob"
  PROVE  reset_log_init
<1>1. ~Monitored /\ ~Reached("valid") /\ ~Reached("eth")
  BY Reaches DEF Monitored, Typed
<1> QED BY <1>1 DEF Next, Starts, eth_init, MarksValid, reset_log_note_ready, SavesRing,
                SeedsCheckpoint, rail_witness_arm, reset_log_checkpoint_tick, clock_time_tick,
                Second, tick_cb, on_sync, UpdatesImage, reset_log_note_intent, Resets

LEMMA RtcStep == Typed /\ RtcInv /\ [Next]_vars => RtcInv'
<1> SUFFICES ASSUME Typed, RtcInv, [Next]_vars PROVE RtcInv'
  OBVIOUS
<1>0. up \in Nat /\ rtc \in Rtcs /\ rtc.up \in Nat
  BY UpIsNat DEF Typed, Rtcs
<1>1. CASE /\ UNCHANGED <<rtc, asked, now, start>> /\ past'.seeded = past.seeded
           /\ past'.halfway = past.halfway
           /\ pc \in {"start", "record"} <=> pc' \in {"start", "record"}
           /\ pc = "up" <=> pc' = "up"
  BY <1>1 DEF RtcInv, TellsOf, up
<1>2. CASE UNCHANGED <<rtc, asked, now, start, past, pc>>
  BY <1>1, <1>2
<1>3. ASSUME NEW erased \in BOOLEAN, NEW answers \in BOOLEAN, Starts(erased, answers) PROVE RtcInv'
  <2> DEFINE b == past.reverted /\ ~erased
  <2>1. past' = [past EXCEPT !.reverted = b] /\ b \in BOOLEAN /\ past \in Pasts
    BY <1>3 DEF Starts, Typed
  <2> HIDE DEF b
  <2>2. past'.seeded = past.seeded /\ past'.halfway = past.halfway
    BY <2>1, PastRevert
  <2> QED BY <1>1, <1>3, <2>2 DEF Starts, world
<1>4. CASE reset_log_init
  <2>1. rtc' = [magic |-> TRUE, torn |-> {}, up |-> 0, intent |-> "unknown", ready |-> FALSE]
        /\ pc' = "blob" /\ UNCHANGED <<asked, now, start>> /\ pc = "record"
    BY <1>4 DEF reset_log_init, rtc_seed, world
  <2>2. asked = "unknown"
    BY <2>1 DEF RtcInv
  <2>3. up' = up /\ up' \in Nat
    BY <1>0, <2>1 DEF up
  <2>4. rtc'.up = 0 /\ rtc'.intent = asked' /\ rtc'.ready = (pc' = "up")
    BY <2>1, <2>2
  <2>5. pc' \notin {"start", "record"} /\ rtc'.up <= up'
    BY <2>1, <2>3, <2>4
  <2> QED BY <2>4, <2>5 DEF RtcInv
<1>5. ASSUME NEW ok \in BOOLEAN, SavesRing(ok) \/ SeedsCheckpoint(ok) PROVE RtcInv'
  <2>1. past'.seeded = past.seeded /\ past'.halfway = past.halfway
    <3>1. Landed \/ Lost \/ UNCHANGED <<mine, past>>
      BY <1>5 DEF SavesRing, SeedsCheckpoint, truth
    <3> QED BY <3>1, LandedIs, LostIs DEF Typed
  <2>2. UNCHANGED <<rtc, asked, now, start>> /\ pc \in {"blob", "seed"} /\ pc' \in {"seed", "eth"}
    BY <1>5 DEF SavesRing, SeedsCheckpoint, world, ram
  <2> QED BY <1>1, <2>1, <2>2
<1>6. ASSUME NEW ok \in BOOLEAN, reset_log_checkpoint_tick(ok) \/ clock_time_tick(ok) PROVE RtcInv'
  <2>1. pc \notin {"start", "record"}
    BY <1>6, Reaches DEF clock_time_tick, reset_log_checkpoint_tick, Monitored, Typed
  <2>2. past'.seeded = past.seeded /\ past'.halfway = past.halfway
    <3>1. CASE reset_log_checkpoint_tick(ok)
      <4>1. Lost \/ UNCHANGED <<mine, past>>
        BY <3>1 DEF reset_log_checkpoint_tick, truth
      <4> QED BY <4>1, LostIs DEF Typed
    <3>2. CASE clock_time_tick(ok)
      BY <2>1, <3>2, NotesTime DEF clock_time_tick
    <3> QED BY <1>6, <3>1, <3>2
  <2>3. UNCHANGED <<rtc, asked, now, start, pc>>
    BY <1>6 DEF reset_log_checkpoint_tick, clock_time_tick, world
  <2> QED BY <1>1, <2>2, <2>3
<1>7. CASE reset_log_note_ready
  <2>1. rtc' = [rtc EXCEPT !.ready = TRUE] /\ UNCHANGED <<asked, now, start>> /\ pc = "ready"
        /\ pc' = "up"
    BY <1>7 DEF reset_log_note_ready, world, ram
  <2>2. rtc'.ready = TRUE /\ rtc'.up = rtc.up /\ rtc'.intent = rtc.intent
    BY <1>0, <2>1 DEF Rtcs
  <2> QED BY <2>1, <2>2 DEF RtcInv, up
<1>8. CASE Second
  <2>1. now' = now + 1 /\ UNCHANGED <<rtc, asked, start, past, pc>>
    BY <1>8 DEF Second, kept, ram, truth
  <2>2. up' = up + 1
    BY <2>1 DEF up, Typed
  <2> QED BY <1>0, <2>1, <2>2 DEF RtcInv
<1>9. CASE tick_cb
  <2>1. /\ rtc' = [rtc EXCEPT !.up = up] /\ UNCHANGED <<asked, now, start, past, pc>>
        /\ pc \notin {"start", "record"}
    BY <1>9, Reaches DEF tick_cb, world, ram, truth, Typed
  <2>2. rtc'.ready = rtc.ready /\ rtc'.up = up /\ rtc'.intent = rtc.intent
    BY <1>0, <2>1 DEF Rtcs
  <2>3. up' = up
    BY <2>1 DEF up
  <2> QED BY <1>0, <2>1, <2>2, <2>3 DEF RtcInv
<1>10. ASSUME NEW intent \in Intents, reset_log_note_intent(intent) PROVE RtcInv'
  <2>1. /\ rtc' = [rtc EXCEPT !.up = up, !.intent = intent] /\ asked' = intent
        /\ UNCHANGED <<now, start, past, pc>> /\ pc \notin {"start", "record"}
    BY <1>10, Reaches DEF reset_log_note_intent, world, truth, Typed
  <2>2. rtc'.ready = rtc.ready /\ rtc'.up = up /\ rtc'.intent = intent
    BY <1>0, <2>1 DEF Rtcs
  <2>3. up' = up
    BY <2>1 DEF up
  <2> QED BY <1>0, <2>1, <2>2, <2>3 DEF RtcInv
<1>11. ASSUME NEW how, NEW left \in LeftOver, NEW torn, NEW off, Resets(how, left, torn, off) PROVE RtcInv'
  <2>1. pc' = "start" /\ asked' = "unknown" /\ (rtc' = NoRtc \/ rtc' = left)
        /\ past' = Passed(left)
    BY <1>11 DEF Resets
  <2>2. CASE rtc' = NoRtc
    BY <2>1, <2>2 DEF RtcInv, NoRtc
  <2>3. CASE rtc' = left /\ pc \in {"start", "record"} /\ left.magic
    <3>1. past'.seeded = past.seeded /\ past'.halfway = (past.halfway \/ left # rtc)
      BY <2>1, <2>3, PassedIs
    <3>2. /\ rtc.magic
          /\ left # rtc \/ (left.up = rtc.up /\ left.intent = rtc.intent /\ left.ready = rtc.ready)
          /\ left.up \in {0, rtc.up} /\ left.intent \in {"unknown", rtc.intent}
          /\ left.ready => rtc.ready
      BY <2>1, <2>3, LeftIs
    <3>3. TellsOf(rtc, past)
      BY <2>3, <3>2 DEF RtcInv
    <3>4. past.seeded.up \in Nat
      BY DEF Typed, Pasts, Boots
    <3>5. left.up <= past.seeded.up
      BY <1>0, <3>2, <3>3, <3>4 DEF TellsOf
    <3>6. TellsOf(left, past')
      BY <3>1, <3>2, <3>3, <3>5 DEF TellsOf
    <3> QED BY <2>1, <2>3, <3>6 DEF RtcInv
  <2>4. CASE rtc' = left /\ pc \notin {"start", "record"}
    <3>1. past'.seeded = [valid |-> TRUE, up |-> up, intent |-> asked, ready |-> pc = "up"]
      BY <2>1, <2>4, PassedIs
    <3>2. rtc.up <= up /\ rtc.intent = asked /\ rtc.ready = (pc = "up")
      BY <2>4 DEF RtcInv
    <3>3. /\ past'.seeded.valid /\ past'.seeded.up = up /\ past'.seeded.intent = asked
          /\ past'.seeded.ready = (pc = "up")
      BY <3>1
    <3>4. left.up = rtc.up /\ left.intent = rtc.intent /\ left.ready = rtc.ready
      BY <2>1, <2>4, LeftIs
    <3>5. TellsOf(left, past')
      BY <3>2, <3>3, <3>4 DEF TellsOf
    <3> QED BY <2>1, <2>4, <3>5 DEF RtcInv
  <2>5. CASE rtc' = left /\ pc \in {"start", "record"} /\ ~left.magic
    BY <2>1, <2>5 DEF RtcInv
  <2> QED BY <2>1, <2>2, <2>3, <2>4, <2>5
<1>12. CASE eth_init \/ MarksValid \/ (\E ok \in BOOLEAN : rail_witness_arm(ok))
  <2>1. /\ UNCHANGED <<rtc, asked, now, start, past>> /\ pc \in {"eth", "arm", "valid"}
        /\ pc' \in {"arm", "valid", "ready"}
    BY <1>12 DEF eth_init, MarksValid, rail_witness_arm, world, ram, truth
  <2> QED BY <1>1, <2>1
<1>13. CASE on_sync \/ UpdatesImage
  BY <1>2, <1>13 DEF on_sync, UpdatesImage, world, ram, truth
<1>14. CASE Next
  BY <1>3, <1>4, <1>5, <1>6, <1>7, <1>8, <1>9, <1>10, <1>11, <1>12, <1>13, <1>14 DEF Next
<1>15. CASE UNCHANGED vars
  BY <1>2, <1>15 DEF vars, world, kept, ram, truth
<1> QED BY <1>14, <1>15

\* What reset_log_init() takes from RTC memory is about the last boot that
\* finished rtc_seed(), however many boots ended before they got that far and
\* whatever was being written when they did; one that ended inside rtc_seed()
\* takes from what is said of it, and adds nothing false but its own beginning.
THEOREM RtcTrue == Spec => PrevStateTrue
<1>1. Init => Typed /\ RtcInv
  <2>1. Init => RtcInv
    BY DEF Init, RtcInv, NoRtc
  <2> QED BY <2>1, TypedInit
<1>2. Typed /\ RtcInv /\ [Next]_vars => (Typed /\ RtcInv)'
  BY TypedStep, RtcStep
<1>3. Typed /\ RtcInv /\ [Next]_vars => [WhenRecorded(OfLastBoot)]_vars
  <2> SUFFICES ASSUME Typed, RtcInv, Next, pc = "record", pc' = "blob"
               PROVE  OfLastBoot(Last(s_ring'))
    BY DEF WhenRecorded
  <2> DEFINE ring == load_from_nvs.ring
             seq == load_from_nvs.next_seq
             r == NewRecord(ring, seq)
  <2>1. Last(s_ring') = r
    BY RecordedBy, Appends
  <2>2. seq \in Nat
    BY LoadTyped DEF Typed
  <2> HIDE DEF ring, seq
  <2>3. /\ "PREV_STATE" \in r.flags <=> prev_valid
        /\ "REACHED_READY" \in r.flags <=> prev_valid /\ rtc.ready
        /\ prev_valid => r.prev_uptime_s = rtc.up /\ r.intent = rtc.intent
    BY <2>2, NewRecordSays
  <2>4. past.seeded.ready \in BOOLEAN
    BY DEF Typed, Pasts, Boots
  <2> HIDE DEF r
  <2> QED BY <2>1, <2>3, <2>4 DEF OfLastBoot, RtcInv, TellsOf, prev_valid
<1> QED BY <1>1, <1>2, <1>3, PTL DEF Spec, PrevStateTrue
-----------------------------------------------------------------------------
(* Rollbacks.                                                              *)

LEMMA LoadSame == UNCHANGED flash => load_from_nvs' = load_from_nvs
BY DEF load_from_nvs

\* Most steps touch neither the slots nor any record.
LEMMA RollSame ==
  ASSUME RollInv, UNCHANGED <<slots, running, flash, s_ring, mine, past>>,
         \/ UNCHANGED pc
         \/ pc = "start" /\ pc' = "record"
         \/ /\ pc \notin {"start", "record", "blob"} /\ pc' \notin {"start", "record", "blob"}
            /\ pc \in {"valid", "ready", "up"} => pc' \in {"valid", "ready", "up"}
  PROVE  RollInv'
<1>1. load_from_nvs' = load_from_nvs
  BY LoadSame
<1>2. RolledBack(load_from_nvs.ring)' = RolledBack(load_from_nvs.ring)
  BY <1>1 DEF RolledBack
<1>3. OfThisBoot(s_ring)' = OfThisBoot(s_ring) /\ OfThisBoot(flash.ring)' = OfThisBoot(flash.ring)
  BY DEF OfThisBoot
<1>4. SlotInv'
  BY DEF RollInv, SlotInv
<1> QED BY <1>1, <1>2, <1>3, <1>4 DEF RollInv

\* The bootloader, and what it leaves for the next record to tell.
LEMMA RollResets ==
  ASSUME Typed, RollInv, NEW how, NEW left \in LeftOver, NEW torn, NEW off, Resets(how, left, torn, off)
  PROVE  RollInv'
<1> DEFINE other == 3 - running
           ring == load_from_nvs.ring
<1>1. /\ running \in {1, 2} /\ other \in {1, 2} /\ 3 - other = running /\ other # running
      /\ slots \in [{1, 2} -> SlotStates]
  BY DEF Typed
<1>2. /\ pc' = "start" /\ ~mine'.landed /\ past' = Passed(left) /\ UNCHANGED flash /\ Bootloader
  BY DEF Resets, Fresh
<1>3. load_from_nvs' = load_from_nvs
  BY <1>2, LoadSame
<1>4. /\ past'.reverted = (past.reverted \/ (GivesUp /\ mine.landed))
      /\ past.reverted \in BOOLEAN /\ mine.landed \in BOOLEAN
  BY <1>2, PassedIs DEF Typed, Pasts, Minds
<1>5. ring \in Seq(Records) /\ (ring # <<>> => Last(ring).part \in {1, 2})
  <2>1. ring \in Seq(Records)
    BY LoadTyped DEF Typed
  <2>2. ring # <<>> => Last(ring) \in Records
    BY <2>1, LastTyped
  <2> QED BY <2>1, <2>2 DEF Records
<1>6. pc \notin {"start", "record", "blob"} =>
        /\ mine.landed /\ ~past.reverted /\ ring # <<>> /\ Last(ring).part = running
        /\ slots[running] = "pending" => "OTA_PENDING" \in Last(ring).flags
  <2>1. flash.version = STORE_VERSION => load_from_nvs = flash
    BY LoadTyped DEF Typed
  <2> QED BY <2>1 DEF RollInv, OfThisBoot
<1>7. pc \in {"start", "record", "blob"} =>
        /\ ~mine.landed /\ past.reverted = RolledBack(ring) /\ slots[other] # "new"
        /\ slots[running] = "pending" => ring = <<>> \/ Last(ring).part # running
  BY DEF RollInv, SlotInv
<1>8. /\ slots[running] \in {"valid", "pending"} /\ slots[other] # "pending"
      /\ slots[running] = "pending" => slots[other] = "valid"
  BY DEF RollInv, SlotInv
<1>9. /\ RolledBack(ring) <=> /\ ring # <<>> /\ slots[other] = "aborted"
                              /\ "OTA_PENDING" \in Last(ring).flags /\ Last(ring).part # running
      /\ RolledBack(load_from_nvs.ring)' <=>
           /\ ring # <<>> /\ slots'[3 - running'] = "aborted"
           /\ "OTA_PENDING" \in Last(ring).flags /\ Last(ring).part # running'
      /\ RolledBack(ring) \in BOOLEAN /\ RolledBack(load_from_nvs.ring)' \in BOOLEAN
  BY <1>3 DEF RolledBack
<1>10. GivesUp <=> slots[other] # "new" /\ slots[running] = "pending"
  BY DEF GivesUp
<1> SUFFICES /\ slots'[running'] \in {"valid", "pending"}
             /\ slots'[running'] = "pending" => slots'[3 - running'] = "valid"
             /\ slots'[3 - running'] # "pending" /\ slots'[3 - running'] # "new"
             /\ past'.reverted <=> RolledBack(load_from_nvs.ring)'
             /\ slots'[running'] = "pending" => ring = <<>> \/ Last(ring).part # running'
  <2>1. past'.reverted \in BOOLEAN
    BY <1>2, PassedIs DEF Pasts
  <2> QED BY <1>2, <1>3, <1>9, <2>1 DEF RollInv, SlotInv
<1> HIDE DEF ring
<1>11. CASE /\ slots[other] = "new" /\ running' = other
            /\ slots' = [slots EXCEPT ![other] = "pending"]
  <2>1. slots'[other] = "pending" /\ slots'[running] = slots[running] /\ slots[running] = "valid"
    BY <1>1, <1>8, <1>11
  <2> QED BY <1>1, <1>4, <1>6, <1>7, <1>9, <1>10, <1>11, <2>1
<1>12. CASE /\ slots[other] # "new" /\ slots[running] = "pending" /\ running' = other
            /\ slots' = [slots EXCEPT ![running] = "aborted"]
  <2>1. slots'[running] = "aborted" /\ slots'[other] = "valid" /\ slots[other] = "valid" /\ GivesUp
    BY <1>1, <1>8, <1>10, <1>12
  <2>2. CASE pc \in {"start", "record", "blob"}
    BY <1>1, <1>4, <1>5, <1>7, <1>9, <1>12, <2>1, <2>2
  <2>3. CASE pc \notin {"start", "record", "blob"}
    BY <1>1, <1>4, <1>6, <1>9, <1>12, <2>1, <2>3
  <2> QED BY <2>2, <2>3
<1>13. CASE slots[other] # "new" /\ slots[running] # "pending" /\ UNCHANGED <<running, slots>>
  <2>1. slots[running] = "valid" /\ ~GivesUp
    BY <1>8, <1>10, <1>13
  <2>2. CASE pc \in {"start", "record", "blob"}
    BY <1>4, <1>7, <1>8, <1>9, <1>13, <2>1, <2>2
  <2>3. CASE pc \notin {"start", "record", "blob"}
    BY <1>4, <1>6, <1>8, <1>9, <1>13, <2>1, <2>3
  <2> QED BY <2>2, <2>3
<1> QED BY <1>2, <1>11, <1>12, <1>13, BootloaderIs

\* The slots change, the records do not.
LEMMA RollSlots ==
  ASSUME Typed, RollInv, MarksValid \/ UpdatesImage
  PROVE  RollInv'
<1>1. /\ running \in {1, 2} /\ 3 - running \in {1, 2} /\ 3 - running # running
      /\ slots \in [{1, 2} -> SlotStates]
  BY DEF Typed
<1>2. /\ UNCHANGED <<running, flash, s_ring, mine, past>>
      /\ pc \in {"valid", "ready", "up"} /\ pc' \in {"valid", "ready", "up"}
  BY Reaches DEF MarksValid, UpdatesImage, ram, truth, Typed
<1>3. \/ slots' = [slots EXCEPT ![running] = "valid"]
      \/ slots[running] # "pending" /\ slots' = [slots EXCEPT ![3 - running] = "new"]
  BY DEF MarksValid, UpdatesImage
<1>4. SlotInv' /\ (slots'[running] = "pending" => slots[running] = "pending")
  BY <1>1, <1>2, <1>3 DEF RollInv, SlotInv
<1>5. /\ OfThisBoot(s_ring) /\ OfThisBoot(flash.ring) /\ mine.landed /\ ~past.reverted
      /\ flash.version = STORE_VERSION
  BY <1>2 DEF RollInv
<1>6. OfThisBoot(s_ring)' /\ OfThisBoot(flash.ring)'
  BY <1>2, <1>4, <1>5 DEF OfThisBoot
<1> QED BY <1>2, <1>4, <1>5, <1>6 DEF RollInv

\* The steps that write the newest record, to RAM or to flash.
LEMMA RollRecords ==
  ASSUME Typed, RollInv, "blob" \notin Refusable, NEW ok \in BOOLEAN,
         reset_log_init \/ SavesRing(ok) \/ clock_time_tick(ok)
  PROVE  RollInv'
<1>1. UNCHANGED <<slots, running>>
  BY DEF reset_log_init, SavesRing, clock_time_tick
<1>2. \A ring : OfThisBoot(ring) <=>
                 /\ ring # <<>> /\ Last(ring).part = running
                 /\ slots[running] = "pending" => "OTA_PENDING" \in Last(ring).flags
  BY DEF OfThisBoot
<1>3. /\ OfThisBoot(s_ring)' <=>
           /\ s_ring' # <<>> /\ Last(s_ring').part = running
           /\ slots[running] = "pending" => "OTA_PENDING" \in Last(s_ring').flags
      /\ OfThisBoot(flash.ring)' <=>
           /\ flash'.ring # <<>> /\ Last(flash'.ring).part = running
           /\ slots[running] = "pending" => "OTA_PENDING" \in Last(flash'.ring).flags
  BY <1>1 DEF OfThisBoot
<1>4. CASE reset_log_init
  <2>1. UNCHANGED <<flash, mine, past>> /\ pc = "record" /\ pc' = "blob"
    BY <1>4 DEF reset_log_init, truth
  <2>2. load_from_nvs' = load_from_nvs
    BY <2>1, LoadSame
  <2>3. RolledBack(load_from_nvs.ring)' = RolledBack(load_from_nvs.ring)
    BY <1>1, <2>2 DEF RolledBack
  <2> DEFINE ring == load_from_nvs.ring
             seq == load_from_nvs.next_seq
             r == NewRecord(ring, seq)
  <2>4. Last(s_ring') = r /\ s_ring' # <<>>
    BY <1>4, Appends
  <2>5. seq \in Nat
    BY LoadTyped DEF Typed
  <2> HIDE DEF ring, seq
  <2>6. r.part = running /\ ("OTA_PENDING" \in r.flags <=> slots[running] = "pending")
    BY <2>5, NewRecordSays
  <2> HIDE DEF r
  <2>7. OfThisBoot(s_ring)'
    BY <1>3, <2>4, <2>6
  <2>8. SlotInv'
    BY <1>1, <2>1 DEF RollInv, SlotInv
  <2> QED BY <1>1, <2>1, <2>2, <2>3, <2>7, <2>8 DEF RollInv
<1>5. CASE SavesRing(ok)
  <2>1. /\ UNCHANGED s_ring /\ pc = "blob" /\ pc' = "seed" /\ flash' = Blob(s_ring) /\ Landed
    BY <1>5 DEF SavesRing, May, ram
  <2>2. s_ring \in Seq(Records) /\ s_ring # <<>> /\ flash \in Stores
    BY <2>1 DEF Typed
  <2>3. flash'.version = STORE_VERSION /\ flash'.ring = s_ring
    BY <2>1, <2>2, BlobIs
  <2>4. past'.reverted = FALSE /\ mine'.landed = TRUE
    BY <2>1, LandedIs DEF Typed
  <2>5. OfThisBoot(s_ring)
    BY <2>1 DEF RollInv
  <2>6. OfThisBoot(s_ring)' /\ OfThisBoot(flash.ring)'
    BY <1>2, <1>3, <2>1, <2>3, <2>5
  <2>7. SlotInv'
    BY <1>1, <2>1 DEF RollInv, SlotInv
  <2> QED BY <2>1, <2>3, <2>4, <2>6, <2>7 DEF RollInv
<1>6. CASE clock_time_tick(ok)
  <2>1. pc \notin {"start", "record", "blob"} /\ UNCHANGED pc
    BY <1>6, Reaches DEF clock_time_tick, Monitored, Typed
  <2>2. /\ s_ring' # <<>> /\ Last(s_ring').part = Current.part
        /\ Current.flags \subseteq Last(s_ring').flags
        /\ \/ UNCHANGED <<flash, mine, past>>
           \/ /\ flash'.version = STORE_VERSION /\ flash'.ring = s_ring'
              /\ mine'.landed /\ ~past'.reverted
    BY <1>6, <2>1, NotesTime DEF clock_time_tick
  <2>3. /\ OfThisBoot(s_ring) /\ OfThisBoot(flash.ring) /\ mine.landed /\ ~past.reverted
        /\ flash.version = STORE_VERSION
    BY <2>1 DEF RollInv
  <2>4. OfThisBoot(s_ring)'
    BY <1>2, <1>3, <2>2, <2>3 DEF Current
  <2>5. /\ OfThisBoot(flash.ring)' /\ mine'.landed /\ ~past'.reverted
        /\ flash'.version = STORE_VERSION
    BY <1>2, <1>3, <2>2, <2>3, <2>4
  <2>6. SlotInv'
    BY <1>1, <2>1 DEF RollInv, SlotInv
  <2> QED BY <2>1, <2>4, <2>5, <2>6 DEF RollInv
<1> QED BY <1>4, <1>5, <1>6

\* The partition is erased, or not, and then the records with it.
LEMMA RollStarts ==
  ASSUME Typed, RollInv, NEW erased \in BOOLEAN, NEW answers \in BOOLEAN, Starts(erased, answers)
  PROVE  RollInv'
<1> DEFINE b == past.reverted /\ ~erased
<1>1. past' = [past EXCEPT !.reverted = b] /\ b \in BOOLEAN /\ past \in Pasts
  BY DEF Starts, Typed
<1> HIDE DEF b
<1>2. past'.reverted = b
  BY <1>1, PastRevert
<1>3. /\ UNCHANGED <<slots, running, s_ring, mine>> /\ pc = "start" /\ pc' = "record"
      /\ flash' = IF erased THEN NoFlash ELSE flash
  BY DEF Starts
<1>4. SlotInv' /\ ~mine.landed
  BY <1>3 DEF RollInv, SlotInv
<1>5. CASE erased
  <2>1. load_from_nvs'.ring = <<>>
    BY <1>3, <1>5 DEF load_from_nvs, NoFlash, STORE_VERSION
  <2>2. RolledBack(load_from_nvs.ring)' = FALSE
    BY <2>1 DEF RolledBack
  <2>3. b = FALSE
    BY <1>5 DEF b
  <2> QED BY <1>2, <1>3, <1>4, <2>1, <2>2, <2>3 DEF RollInv
<1>6. CASE ~erased
  <2>1. load_from_nvs' = load_from_nvs
    BY <1>3, <1>6, LoadSame
  <2>2. RolledBack(load_from_nvs.ring)' = RolledBack(load_from_nvs.ring)
    BY <1>3, <2>1 DEF RolledBack
  <2>3. b = past.reverted
    BY <1>6 DEF b, Typed, Pasts
  <2> QED BY <1>2, <1>3, <1>4, <2>1, <2>2, <2>3 DEF RollInv
<1> QED BY <1>5, <1>6

\* A checkpoint leaves the records alone.
LEMMA RollCheckpoints ==
  ASSUME Typed, RollInv, NEW ok \in BOOLEAN, SeedsCheckpoint(ok) \/ reset_log_checkpoint_tick(ok)
  PROVE  RollInv'
<1>1. /\ pc \notin {"start", "record", "blob"} /\ pc' \notin {"start", "record", "blob"}
      /\ pc \in {"valid", "ready", "up"} => pc' \in {"valid", "ready", "up"}
      /\ UNCHANGED <<slots, running, s_ring>>
  BY Reaches DEF SeedsCheckpoint, reset_log_checkpoint_tick, Monitored, Typed, ram
<1>2. Current \in Records /\ flash \in Stores /\ up \in Nat /\ mine \in Minds /\ 0 \in Nat
  BY <1>1, CurrentTyped, UpIsNat DEF Typed
<1>3. /\ flash' \in {flash, set_checkpoint(0), set_checkpoint(up)}
      /\ UNCHANGED <<mine, past>> \/ Lost
  BY DEF SeedsCheckpoint, reset_log_checkpoint_tick, truth
<1>4. flash'.version = flash.version /\ flash'.ring = flash.ring
  BY <1>2, <1>3, CheckpointIs
<1>5. UNCHANGED past /\ mine'.landed = mine.landed
  BY <1>2, <1>3, LostIs
<1>6. OfThisBoot(s_ring)' = OfThisBoot(s_ring) /\ OfThisBoot(flash.ring)' = OfThisBoot(flash.ring)
  BY <1>1, <1>4 DEF OfThisBoot
<1>7. SlotInv'
  BY <1>1 DEF RollInv, SlotInv
<1> QED BY <1>1, <1>4, <1>5, <1>6, <1>7 DEF RollInv

LEMMA RollFirst == Init => RollInv
<1> SUFFICES ASSUME Init PROVE RollInv
  OBVIOUS
<1>1. /\ pc = "start" /\ running = 1 /\ slots[1] = "valid" /\ slots[2] = "valid"
      /\ past.reverted = FALSE /\ ~mine.landed
  BY DEF Init, Fresh
<1>2. RolledBack(load_from_nvs.ring) = FALSE
  BY <1>1 DEF RolledBack
<1>3. SlotInv
  BY <1>1 DEF SlotInv
<1> QED BY <1>1, <1>2, <1>3 DEF RollInv

LEMMA RollStep == "blob" \notin Refusable /\ Typed /\ RollInv /\ [Next]_vars => RollInv'
<1> SUFFICES ASSUME "blob" \notin Refusable, Typed, RollInv, [Next]_vars PROVE RollInv'
  OBVIOUS
<1>1. CASE eth_init \/ reset_log_note_ready \/ \E ok \in BOOLEAN : rail_witness_arm(ok)
  BY <1>1, RollSame DEF eth_init, reset_log_note_ready, rail_witness_arm, ram, truth
<1>2. CASE Second \/ tick_cb \/ on_sync \/ \E intent \in Intents : reset_log_note_intent(intent)
  BY <1>2, RollSame DEF Second, tick_cb, on_sync, reset_log_note_intent, kept, ram, truth
<1>3. CASE UNCHANGED vars
  BY <1>3, RollSame DEF vars, kept, ram, truth
<1>4. CASE Next
  BY <1>1, <1>2, <1>4, RollStarts, RollRecords, RollCheckpoints, RollSlots, RollResets DEF Next
<1> QED BY <1>3, <1>4

\* When the write of the record itself cannot fail, reset_log_init() says
\* "rolled back" exactly when the bootloader has given up, since the last record,
\* on the image that wrote it: never twice for one time, although the mark on
\* the slot stays, and never not at all, although boots may end before their
\* record is made or kept.
THEOREM RollbacksTold ==
  ASSUME "blob" \notin Refusable
  PROVE  Spec => RollbackTold
<1>1. Init => Typed /\ RollInv
  BY TypedInit, RollFirst
<1>2. Typed /\ RollInv /\ [Next]_vars => (Typed /\ RollInv)'
  BY TypedStep, RollStep
<1>3. Typed /\ RollInv /\ [Next]_vars => [WhenRecorded(OfRollback)]_vars
  <2> SUFFICES ASSUME Typed, RollInv, Next, pc = "record", pc' = "blob"
               PROVE  OfRollback(Last(s_ring'))
    BY DEF WhenRecorded
  <2> DEFINE ring == load_from_nvs.ring
             seq == load_from_nvs.next_seq
             r == NewRecord(ring, seq)
  <2>1. reset_log_init /\ Last(s_ring') = r
    BY RecordedBy, Appends
  <2>2. seq \in Nat
    BY LoadTyped DEF Typed
  <2>3. past.reverted = RolledBack(ring)
    BY DEF RollInv
  <2> HIDE DEF ring, seq
  <2>4. "ROLLBACK" \in r.flags <=> RolledBack(ring)
    BY <2>2, NewRecordSays
  <2>5. RolledBack(ring) \in BOOLEAN /\ ("ROLLBACK" \in r.flags) \in BOOLEAN
    BY DEF RolledBack
  <2> HIDE DEF r
  <2> QED BY <2>1, <2>3, <2>4, <2>5 DEF OfRollback
<1> QED BY <1>1, <1>2, <1>3, PTL DEF Spec, RollbackTold
-----------------------------------------------------------------------------
(* Checkpoints.                                                            *)

\* Every set of numbers has a least one.
LEMMA Least ==
  ASSUME NEW T, T \subseteq Nat, T # {}
  PROVE  \E m \in T : \A k \in T : m <= k
<1> DEFINE R == OpToRel(<, Nat)
<1>1. IsWellFoundedOn(R, Nat)
  BY NatLessThanWellFounded
<1>2. \A x, y \in Nat : <<y, x>> \in R <=> y < x
  BY DEF OpToRel
<1> HIDE DEF R
<1>3. PICK x \in T : \A y \in T : ~(<<y, x>> \in R)
  BY <1>1, WFMin
<1>4. \A y \in T : ~(y < x)
  BY <1>2, <1>3
<1>5. \A y \in T : x <= y
  BY <1>4
<1> QED BY <1>5

\* The first time after a floor is after it, and on the schedule; after no time
\* at all it is the first one.
LEMMA FirstAfter ==
  ASSUME NEW floor \in Nat
  PROVE  /\ Later(floor) # {} => NextAfter(floor) \in 1 .. Len(k_ckpt_times)
         /\ PlaceAfter(0) = 1
<1>1. Len(k_ckpt_times) \in Nat /\ DOMAIN k_ckpt_times = 1 .. Len(k_ckpt_times)
      /\ \A i \in DOMAIN k_ckpt_times : k_ckpt_times[i] \in Nat \ {0}
  BY ResetLogAssumption
<1>2. ASSUME NEW f, Later(f) # {}
      PROVE  NextAfter(f) \in Later(f) /\ \A j \in Later(f) : NextAfter(f) <= j
  <2>1. Later(f) \subseteq Nat
    BY <1>1 DEF Later
  <2>2. \E i \in Later(f) : \A j \in Later(f) : i <= j
    BY <1>2, <2>1, Least
  <2> QED BY <2>2 DEF NextAfter
<1>3. Later(floor) # {} => NextAfter(floor) \in 1 .. Len(k_ckpt_times)
  BY <1>1, <1>2 DEF Later
<1>4. Later(0) = 1 .. Len(k_ckpt_times)
  BY <1>1 DEF Later
<1>5. CASE Len(k_ckpt_times) = 0
  <2>1. Later(0) = {}
    BY <1>4, <1>5
  <2> QED BY <1>3, <1>5, <2>1 DEF PlaceAfter
<1>6. CASE Len(k_ckpt_times) # 0
  <2>1. 1 \in Later(0) /\ Later(0) # {}
    BY <1>1, <1>4, <1>6
  <2>2. NextAfter(0) \in Later(0) /\ NextAfter(0) <= 1
    BY <1>2, <2>1
  <2>3. NextAfter(0) = 1
    BY <1>1, <1>4, <2>2
  <2> QED BY <1>3, <2>1, <2>3 DEF PlaceAfter
<1> QED BY <1>5, <1>6

\* The numbers the checkpoint is compared by.
LEMMA FloorNumbers ==
  ASSUME Typed
  PROVE  /\ NextNumber \in Nat /\ flash.ckpt.seq \in Nat /\ flash.ckpt.up \in Nat
         /\ MaxResets - resets \in Nat /\ up \in Nat /\ flash.next_seq \in Nat
         /\ flash.version = STORE_VERSION => NextNumber = flash.next_seq
         /\ pc \notin {"start", "record"} => Current.boot_seq \in Nat
<1>1. flash \in Stores /\ MaxResets \in Nat /\ resets \in 0 .. MaxResets
  BY ResetLogAssumption DEF Typed
<1>2. NextNumber \in Nat /\ (flash.version = STORE_VERSION => NextNumber = flash.next_seq)
  BY <1>1, LoadTyped DEF NextNumber
<1>3. pc \notin {"start", "record"} => Current.boot_seq \in Nat
  BY CurrentTyped DEF Records
<1> QED BY <1>1, <1>2, <1>3, UpIsNat DEF Stores

\* Until the record of this boot is in flash, what matters stays as it is.
LEMMA BeforeSame ==
  ASSUME FloorBefore, UNCHANGED <<flash, s_ring, resets>>, past'.recorded = past.recorded,
         pc' = "blob" => pc = "blob"
  PROVE  FloorBefore'
<1>1. NextNumber' = NextNumber
  BY LoadSame DEF NextNumber
<1>2. /\ load_checkpoint(NextNumber - 1)' = load_checkpoint(NextNumber - 1)
      /\ Window(flash.ckpt, past.recorded)' = Window(flash.ckpt, past.recorded)
      /\ Current' = Current
  BY <1>1 DEF load_checkpoint, Window, Current, ceiling_for, Later, NextAfter
<1> QED BY <1>1, <1>2 DEF FloorBefore

\* Afterwards only the checkpoint matters, the number of this boot and its age.
LEMMA AfterSame ==
  ASSUME Typed, FloorAfter, flash'.ckpt = flash.ckpt, flash'.next_seq = Current.boot_seq + 1,
         Last(s_ring').boot_seq = Current.boot_seq, UNCHANGED <<resets, s_ckpt_next>>,
         mine'.clean = mine.clean, up <= up', up' \in Nat, pc # "seed", pc' # "seed"
  PROVE  FloorAfter'
<1>1. Current' = Last(s_ring')
  BY DEF Current
<1>2. flash.ckpt.up \in Nat /\ up \in Nat
  BY FloorNumbers
<1>3. PlaceAfter(flash.ckpt.up)' = PlaceAfter(flash.ckpt.up)
  BY DEF PlaceAfter, Later, NextAfter
<1> QED BY <1>1, <1>2, <1>3 DEF FloorAfter

\* A boot ends.
LEMMA FloorResets ==
  ASSUME Typed, RollInv, FloorInv, NEW how, NEW left \in LeftOver, NEW torn, NEW off, Resets(how, left, torn, off)
  PROVE  FloorInv'
<1>1. /\ pc' = "start" /\ s_ckpt_next' = 1 /\ UNCHANGED flash /\ past' = Passed(left)
      /\ resets < MaxResets /\ resets' = resets + 1
  BY DEF Resets
<1>2. /\ NextNumber \in Nat /\ flash.ckpt.seq \in Nat /\ flash.ckpt.up \in Nat
      /\ MaxResets - resets \in Nat /\ up \in Nat /\ MaxResets \in Nat /\ resets \in Nat
      /\ flash.version = STORE_VERSION => NextNumber = flash.next_seq
      /\ pc \notin {"start", "record"} => Current.boot_seq \in Nat
  BY FloorNumbers, ResetLogAssumption DEF Typed
<1>3. NextNumber' = NextNumber
  BY <1>1, LoadSame DEF NextNumber
<1>4. /\ load_checkpoint(NextNumber - 1)' <=> load_checkpoint(NextNumber - 1)
      /\ load_checkpoint(NextNumber - 1) => flash.ckpt.seq = NextNumber - 1
      /\ Window(flash.ckpt, past.recorded)' <=> Window(flash.ckpt, past'.recorded)
  BY <1>1, <1>3 DEF load_checkpoint, Window, ceiling_for, Later, NextAfter
<1>5. MaxResets - resets' = MaxResets - resets - 1
  BY <1>1, <1>2
<1> SUFFICES /\ flash.ckpt.seq < NextNumber \/ flash.ckpt.seq > NextNumber + (MaxResets - resets')
             /\ load_checkpoint(NextNumber - 1) => Window(flash.ckpt, past'.recorded)
  BY <1>1, <1>3, <1>4 DEF FloorInv, FloorBefore
<1>6. CASE pc \in {"start", "record", "blob"}
  <2>1. FloorBefore /\ ~mine.landed
    BY <1>6 DEF FloorInv, RollInv
  <2>2. past'.recorded = past.recorded
    BY <1>1, <2>1, PassedIs
  <2>3. flash.ckpt.seq < NextNumber \/ flash.ckpt.seq > NextNumber + (MaxResets - resets)
    BY <2>1 DEF FloorBefore
  <2>4. flash.ckpt.seq < NextNumber \/ flash.ckpt.seq > NextNumber + (MaxResets - resets')
    BY <1>2, <1>5, <2>3
  <2> QED BY <2>1, <2>2, <2>4 DEF FloorBefore
<1>7. CASE pc \notin {"start", "record", "blob"}
  <2>1. FloorAfter /\ mine.landed /\ NextNumber = Current.boot_seq + 1 /\ Current.boot_seq \in Nat
    BY <1>2, <1>7 DEF FloorInv, RollInv, FloorAfter
  <2>2. \/ flash.ckpt.seq <= Current.boot_seq
        \/ flash.ckpt.seq > Current.boot_seq + (MaxResets - resets)
    BY <2>1 DEF FloorAfter
  <2>3. flash.ckpt.seq < NextNumber \/ flash.ckpt.seq > NextNumber + (MaxResets - resets')
    BY <1>2, <1>5, <2>1, <2>2
  <2>4. ASSUME load_checkpoint(NextNumber - 1) PROVE Window(flash.ckpt, past'.recorded)
    <3>1. flash.ckpt.seq = Current.boot_seq
      BY <1>2, <1>4, <2>1, <2>4
    <3>2. pc # "seed" /\ flash.ckpt.up <= up
      BY <2>1, <3>1 DEF FloorAfter
    <3>3. /\ past'.recorded.up = up
          /\ past'.recorded.tight = (mine.clean /\ pc \notin {"start", "record", "blob", "seed"} /\ ~Due)
      BY <1>1, <2>1, PassedIs
    <3>4. ASSUME mine.clean, ~Due, ceiling_for(flash.ckpt.up) # 0
          PROVE  up < ceiling_for(flash.ckpt.up)
      <4>1. Later(flash.ckpt.up) # {} /\ ceiling_for(flash.ckpt.up) = k_ckpt_times[NextAfter(flash.ckpt.up)]
        BY <3>4 DEF ceiling_for
      <4>2. s_ckpt_next = NextAfter(flash.ckpt.up)
        BY <2>1, <3>2, <3>4, <4>1 DEF FloorAfter, PlaceAfter
      <4>3. s_ckpt_next \in 1 .. Len(k_ckpt_times)
        <5> DEFINE c == flash.ckpt.up
        <5>1. c \in Nat /\ Later(c) # {}
          BY <1>2, <4>1
        <5> HIDE DEF c
        <5>2. NextAfter(c) \in 1 .. Len(k_ckpt_times)
          BY <5>1, FirstAfter
        <5> QED BY <4>2, <5>2 DEF c
      <4>4. k_ckpt_times[s_ckpt_next] \in Nat /\ Len(k_ckpt_times) \in Nat
        BY <4>3, ResetLogAssumption
      <4>5. ~(up >= k_ckpt_times[s_ckpt_next])
        BY <3>4, <4>3, <4>4 DEF Due
      <4> QED BY <1>2, <4>1, <4>2, <4>4, <4>5
    <3> QED BY <3>2, <3>3, <3>4 DEF Window
  <2> QED BY <2>3, <2>4
<1> QED BY <1>6, <1>7

\* app_main() as far as the record in flash.
LEMMA FloorBoots ==
  ASSUME Typed, FloorInv, "blob" \notin Refusable, NEW ok \in BOOLEAN, NEW answers \in BOOLEAN,
         Starts(ok, answers) \/ reset_log_init \/ SavesRing(ok)
  PROVE  FloorInv'
<1>1. /\ NextNumber \in Nat /\ flash.ckpt.seq \in Nat /\ MaxResets - resets \in Nat
      /\ pc \notin {"start", "record"} => Current.boot_seq \in Nat
  BY FloorNumbers
<1>2. s_ckpt_next' = 1 /\ FloorBefore /\ UNCHANGED resets
  BY DEF Starts, reset_log_init, SavesRing, FloorInv, ram, world
<1>3. CASE Starts(ok, answers)
  <2>1. /\ pc = "start" /\ pc' = "record" /\ UNCHANGED s_ring
        /\ flash' = IF ok THEN NoFlash ELSE flash
    BY <1>3 DEF Starts
  <2>2. past'.recorded = past.recorded
    <3> DEFINE b == past.reverted /\ ~ok
    <3>1. past' = [past EXCEPT !.reverted = b] /\ b \in BOOLEAN /\ past \in Pasts
      BY <1>3 DEF Starts, Typed
    <3> HIDE DEF b
    <3> QED BY <3>1, PastRevert
  <2>3. CASE ok
    <3>1. flash' = NoFlash /\ load_from_nvs' = NoFlash
      BY <2>1, <2>3 DEF load_from_nvs, NoFlash, STORE_VERSION
    <3>2. NextNumber' = 1 /\ flash'.ckpt = NoCheckpoint /\ flash'.ckpt.seq = 0
      BY <3>1 DEF NextNumber, NoFlash, NoCheckpoint
    <3>3. ~load_checkpoint(NextNumber - 1)'
      BY <3>2 DEF load_checkpoint
    <3> QED BY <1>2, <2>1, <3>2, <3>3 DEF FloorInv, FloorBefore
  <2>4. CASE ~ok
    <3>1. FloorBefore'
      BY <1>2, <2>1, <2>2, <2>4, BeforeSame
    <3> QED BY <1>2, <2>1, <3>1 DEF FloorInv
  <2> QED BY <2>3, <2>4
<1>4. CASE reset_log_init
  <2>1. pc' = "blob" /\ UNCHANGED <<flash, past>>
    BY <1>4 DEF reset_log_init, truth
  <2> DEFINE ring == load_from_nvs.ring
             r == NewRecord(ring, NextNumber)
  <2>2. Last(s_ring') = r
    BY <1>4, Appends DEF NextNumber
  <2> HIDE DEF ring
  <2>3. r.boot_seq = NextNumber
    BY <1>1, NewRecordSays
  <2> HIDE DEF r
  <2>4. NextNumber' = NextNumber
    BY <2>1, LoadSame DEF NextNumber
  <2>5. /\ load_checkpoint(NextNumber - 1)' = load_checkpoint(NextNumber - 1)
        /\ Window(flash.ckpt, past.recorded)' = Window(flash.ckpt, past.recorded)
    BY <2>1, <2>4 DEF load_checkpoint, Window, ceiling_for, Later, NextAfter
  <2>6. Current'.boot_seq = NextNumber'
    BY <2>2, <2>3, <2>4 DEF Current
  <2>7. FloorBefore'
    BY <1>2, <2>1, <2>4, <2>5, <2>6 DEF FloorBefore
  <2> QED BY <1>2, <2>1, <2>7 DEF FloorInv
<1>5. CASE SavesRing(ok)
  <2>1. pc = "blob" /\ pc' = "seed" /\ UNCHANGED s_ring /\ flash' = Blob(s_ring)
    BY <1>5 DEF SavesRing, May, ram
  <2>2. s_ring \in Seq(Records) /\ s_ring # <<>> /\ flash \in Stores
    BY <2>1 DEF Typed
  <2>3. flash'.next_seq = Current.boot_seq + 1 /\ flash'.ckpt = flash.ckpt
    BY <2>1, <2>2, BlobIs DEF Current
  <2>4. Current' = Current /\ Current.boot_seq = NextNumber
    BY <1>2, <2>1 DEF Current, FloorBefore
  <2>5. flash.ckpt.seq < NextNumber \/ flash.ckpt.seq > NextNumber + (MaxResets - resets)
    BY <1>2 DEF FloorBefore
  <2>6. flash'.ckpt.seq # Current'.boot_seq
    BY <1>1, <2>3, <2>4, <2>5
  <2>7. \/ flash'.ckpt.seq <= Current'.boot_seq
        \/ flash'.ckpt.seq > Current'.boot_seq + (MaxResets - resets')
    BY <1>1, <1>2, <2>3, <2>4, <2>5
  <2>8. FloorAfter'
    BY <2>1, <2>3, <2>4, <2>6, <2>7 DEF FloorAfter
  <2> QED BY <1>2, <2>1, <2>8 DEF FloorInv
<1> QED BY <1>3, <1>4, <1>5

\* The checkpoint is written, or the write is lost.
LEMMA FloorCheckpoints ==
  ASSUME Typed, FloorInv, NEW ok \in BOOLEAN, SeedsCheckpoint(ok) \/ reset_log_checkpoint_tick(ok)
  PROVE  FloorInv'
<1>1. /\ pc \notin {"start", "record", "blob"} /\ pc' \notin {"start", "record", "blob", "seed"}
      /\ UNCHANGED <<s_ring, resets, now, start>>
  BY Reaches DEF SeedsCheckpoint, reset_log_checkpoint_tick, Monitored, Typed, ram, world
<1>2. /\ NextNumber \in Nat /\ flash.ckpt.seq \in Nat /\ flash.ckpt.up \in Nat
      /\ MaxResets - resets \in Nat /\ up \in Nat /\ Current.boot_seq \in Nat
  BY <1>1, FloorNumbers
<1>3. Current \in Records /\ flash \in Stores /\ mine \in Minds /\ 0 \in Nat
  BY <1>1, CurrentTyped DEF Typed
<1>4. FloorAfter /\ Current' = Current /\ up' = up
  BY <1>1 DEF FloorInv, Current, up
<1>5. PICK at \in {0, up} :
        /\ pc' = "eth" => s_ckpt_next' = 1
        /\ \/ flash' = set_checkpoint(at) /\ UNCHANGED mine /\ s_ckpt_next' = PlaceAfter(at)
           \/ UNCHANGED flash /\ Lost
  <2>1. CASE SeedsCheckpoint(ok)
    <3>1. s_ckpt_next' = 1
      BY <2>1 DEF SeedsCheckpoint, FloorInv, ram
    <3>2. PlaceAfter(0) = 1
      BY <1>3, FirstAfter
    <3>3. \/ flash' = set_checkpoint(0) /\ UNCHANGED mine
          \/ UNCHANGED flash /\ Lost
      BY <2>1 DEF SeedsCheckpoint, truth
    <3> QED BY <3>1, <3>2, <3>3
  <2>2. CASE reset_log_checkpoint_tick(ok)
    <3>1. pc' # "eth"
      BY <2>2, Reaches DEF reset_log_checkpoint_tick, Monitored, Typed
    <3>2. s_ckpt_next' = PlaceAfter(up)
      BY <2>2 DEF reset_log_checkpoint_tick, PlaceAfter
    <3>3. \/ flash' = set_checkpoint(up) /\ UNCHANGED mine
          \/ UNCHANGED flash /\ Lost
      BY <2>2 DEF reset_log_checkpoint_tick, truth
    <3> QED BY <3>1, <3>2, <3>3
  <2> QED BY <2>1, <2>2
<1>6. at \in Nat /\ at <= up
  BY <1>2
<1>7. CASE flash' = set_checkpoint(at) /\ UNCHANGED mine /\ s_ckpt_next' = PlaceAfter(at)
  <2>1. /\ flash'.next_seq = flash.next_seq /\ flash'.ckpt.seq = Current.boot_seq
        /\ flash'.ckpt.up = at
    BY <1>3, <1>6, <1>7, CheckpointIs
  <2>2. PlaceAfter(flash.ckpt.up)' = PlaceAfter(at)
    BY <2>1 DEF PlaceAfter, Later, NextAfter
  <2>3. FloorAfter'
    BY <1>1, <1>2, <1>4, <1>6, <1>7, <2>1, <2>2 DEF FloorAfter
  <2> QED BY <1>1, <1>5, <2>3 DEF FloorInv
<1>8. CASE UNCHANGED flash /\ Lost
  <2>1. mine'.clean = FALSE
    BY <1>3, <1>8, LostIs
  <2>2. FloorAfter'
    BY <1>1, <1>4, <1>8, <2>1 DEF FloorAfter
  <2> QED BY <1>1, <1>5, <2>2 DEF FloorInv
<1> QED BY <1>5, <1>7, <1>8

\* The steps that leave the checkpoint and its schedule alone.
LEMMA FloorRest ==
  ASSUME Typed, FloorInv,
         \/ eth_init \/ MarksValid \/ reset_log_note_ready \/ Second \/ tick_cb \/ on_sync
         \/ UpdatesImage \/ UNCHANGED vars
         \/ \E ok \in BOOLEAN : rail_witness_arm(ok) \/ clock_time_tick(ok)
         \/ \E intent \in Intents : reset_log_note_intent(intent)
  PROVE  FloorInv'
<1>1. /\ UNCHANGED <<resets, s_ckpt_next, start>> /\ (UNCHANGED now \/ now' = now + 1)
      /\ UNCHANGED pc \/ pc \in {"eth", "arm", "valid", "ready"}
      /\ pc' \in {"arm", "valid", "ready", "up"} \/ UNCHANGED pc
  BY DEF eth_init, MarksValid, reset_log_note_ready, Second, tick_cb, on_sync, UpdatesImage, vars,
         rail_witness_arm, clock_time_tick, reset_log_note_intent, world, ram
<1>2. up \in Nat /\ up' \in Nat /\ up <= up'
  BY <1>1 DEF Typed, up
<1>3. \/ UNCHANGED <<flash, s_ring, mine, past>>
      \/ \E ok \in BOOLEAN : clock_time_tick(ok)
  BY DEF eth_init, MarksValid, reset_log_note_ready, Second, tick_cb, on_sync, UpdatesImage, vars,
         rail_witness_arm, reset_log_note_intent, kept, ram, truth
<1>4. CASE pc \in {"start", "record", "blob"}
  <2>1. ~\E ok \in BOOLEAN : clock_time_tick(ok)
    BY <1>4, Reaches DEF clock_time_tick, Monitored, Typed
  <2>2. FloorBefore' /\ UNCHANGED pc
    BY <1>1, <1>3, <1>4, <2>1, BeforeSame DEF FloorInv
  <2> QED BY <1>1, <1>4, <2>2 DEF FloorInv
<1>5. CASE pc = "seed"
  <2>1. ~\E ok \in BOOLEAN : clock_time_tick(ok)
    BY <1>5, Reaches DEF clock_time_tick, Monitored, Typed
  <2>2. UNCHANGED <<pc, flash, s_ring, mine>> /\ FloorAfter /\ flash.ckpt.seq # Current.boot_seq
    BY <1>1, <1>3, <1>5, <2>1 DEF FloorInv, FloorAfter
  <2>3. Current' = Current
    BY <2>2 DEF Current
  <2>4. FloorAfter'
    BY <1>1, <1>5, <2>2, <2>3 DEF FloorAfter
  <2> QED BY <1>1, <1>5, <2>2, <2>4 DEF FloorInv
<1>6. CASE pc \notin {"start", "record", "blob", "seed"}
  <2>1. FloorAfter /\ flash.next_seq = Current.boot_seq + 1
    BY <1>6 DEF FloorInv, FloorAfter
  <2>2. /\ flash'.ckpt = flash.ckpt /\ flash'.next_seq = Current.boot_seq + 1
        /\ Last(s_ring').boot_seq = Current.boot_seq /\ mine'.clean = mine.clean
    <3>1. CASE UNCHANGED <<flash, s_ring, mine, past>>
      BY <2>1, <3>1 DEF Current
    <3>2. ASSUME NEW ok \in BOOLEAN, clock_time_tick(ok)
          PROVE  /\ flash'.ckpt = flash.ckpt /\ flash'.next_seq = Current.boot_seq + 1
                 /\ Last(s_ring').boot_seq = Current.boot_seq /\ mine'.clean = mine.clean
      BY <1>6, <2>1, <3>2, NotesTime DEF clock_time_tick
    <3> QED BY <1>3, <3>1, <3>2
  <2>3. pc' \notin {"start", "record", "blob", "seed"}
    BY <1>1, <1>6
  <2>4. FloorAfter'
    BY <1>1, <1>2, <1>6, <2>1, <2>2, <2>3, AfterSame
  <2> QED BY <1>1, <1>6, <2>3, <2>4 DEF FloorInv
<1> QED BY <1>4, <1>5, <1>6

LEMMA FloorStep ==
  "blob" \notin Refusable /\ Typed /\ RollInv /\ FloorInv /\ [Next]_vars => FloorInv'
<1> SUFFICES ASSUME "blob" \notin Refusable, Typed, RollInv, FloorInv, [Next]_vars PROVE FloorInv'
  OBVIOUS
<1>1. CASE Next
  BY <1>1, FloorBoots, FloorCheckpoints, FloorRest, FloorResets DEF Next
<1>2. CASE UNCHANGED vars
  BY <1>2, FloorRest
<1> QED BY <1>1, <1>2

\* When the write of the record itself cannot fail, and flash did not begin with
\* a checkpoint of a number that is going to be used, an uptime that
\* reset_log_init() takes from the checkpoint is a window around how long the
\* last recorded boot ran, whichever of the later writes were lost and wherever
\* the boots between ended: set_checkpoint() never leaves a floor that the boot
\* it names did not reach, and load_checkpoint() never takes it for another's.
THEOREM FloorsTrue ==
  ASSUME "blob" \notin Refusable, NoCollision
  PROVE  Spec => FloorWindow
<1>1. Init => Typed /\ RollInv /\ FloorInv
  <2> SUFFICES ASSUME Init PROVE FloorInv
    BY TypedInit, RollFirst
  <2>1. /\ pc = "start" /\ s_ckpt_next = 1 /\ resets = 0 /\ flash \in OldFlash
        /\ past.recorded = [up |-> flash.ckpt.up, tight |-> FALSE]
    BY DEF Init
  <2>2. Typed /\ flash \in Stores /\ flash.ckpt.up \in Nat /\ MaxResets \in Nat
        /\ flash.version \in Nat
    BY TypedInit, ResetLogAssumption DEF Typed, Stores
  <2>3. NextNumber = FirstNumber(flash)
    <3>1. CASE flash.version = STORE_VERSION
      BY <3>1 DEF NextNumber, FirstNumber, load_from_nvs, STORE_VERSION
    <3>2. CASE flash.version \in 1 .. STORE_VERSION - 1
      <4> DEFINE ring == [i \in DOMAIN flash.ring |-> Undated(flash.ring[i])]
      <4>1. load_from_nvs = [flash EXCEPT !.ring = ring]
        BY <3>2 DEF load_from_nvs, STORE_VERSION
      <4> HIDE DEF ring
      <4>2. load_from_nvs.next_seq = flash.next_seq
        BY <2>2, <4>1 DEF Stores
      <4> QED BY <3>2, <4>2 DEF NextNumber, FirstNumber, STORE_VERSION
    <3>3. CASE flash.version # STORE_VERSION /\ flash.version \notin 1 .. STORE_VERSION - 1
      <4>1. load_from_nvs = [flash EXCEPT !.ring = <<>>, !.next_seq = 1]
        BY <3>3 DEF load_from_nvs
      <4>2. load_from_nvs.next_seq = 1
        BY <2>2, <4>1 DEF Stores
      <4>3. flash.version \notin 1 .. STORE_VERSION
        BY <2>2, <3>3 DEF STORE_VERSION
      <4> QED BY <4>2, <4>3 DEF NextNumber, FirstNumber
    <3> QED BY <3>1, <3>2, <3>3
  <2>4. flash.ckpt.seq < NextNumber \/ flash.ckpt.seq > NextNumber + MaxResets
    BY <2>1, <2>3, NoCollision DEF NoCollision
  <2>5. MaxResets - resets = MaxResets
    BY <2>1, <2>2
  <2>6. Window(flash.ckpt, past.recorded)
    BY <2>1, <2>2 DEF Window
  <2> QED BY <2>1, <2>4, <2>5, <2>6 DEF FloorInv, FloorBefore
<1>2. Typed /\ RollInv /\ FloorInv /\ [Next]_vars => (Typed /\ RollInv /\ FloorInv)'
  BY TypedStep, RollStep, FloorStep
<1>3. Typed /\ FloorInv /\ [Next]_vars => [WhenRecorded(InWindow)]_vars
  <2> SUFFICES ASSUME Typed, FloorInv, Next, pc = "record", pc' = "blob"
               PROVE  InWindow(Last(s_ring'))
    BY DEF WhenRecorded
  <2> DEFINE ring == load_from_nvs.ring
             r == NewRecord(ring, NextNumber)
  <2>1. reset_log_init /\ Last(s_ring') = r
    BY RecordedBy, Appends DEF NextNumber
  <2>2. NextNumber \in Nat /\ UNCHANGED past
    BY <2>1, FloorNumbers DEF reset_log_init, truth
  <2> HIDE DEF ring
  <2>3. "PREV_UPTIME_MIN" \in r.flags =>
          load_checkpoint(NextNumber - 1) /\ r.prev_uptime_s = flash.ckpt.up
    BY <2>2, NewRecordSays
  <2> HIDE DEF r
  <2>4. load_checkpoint(NextNumber - 1) => Window(flash.ckpt, past.recorded)
    BY DEF FloorInv, FloorBefore
  <2> QED BY <2>1, <2>3, <2>4 DEF InWindow, Window
<1> QED BY <1>1, <1>2, <1>3, PTL DEF Spec, FloorWindow
=============================================================================
