------------------------------ MODULE ResetLog ------------------------------
(***************************************************************************)
(* What a boot finds out about the one before it (src/main/reset_log.c),   *)
(* with the clock that dates its record (clock_time.c), the register of    *)
(* the Ethernet PHY that tells whether the supply held (rail_witness.c),   *)
(* and the order in which app_main() (main.c) calls them.                  *)
(*                                                                         *)
(* Four memories outlive a reset, each in its own way: flash always, the   *)
(* OTA slots always, RTC memory unless power is lost or the EN pin pulled, *)
(* the PHY's register unless power is lost.  A reset may fall between any  *)
(* two steps, and between two stores of an update of RTC memory: of        *)
(* reset_log.c's block every fact is stored twice, the second time         *)
(* complemented, and counts only if the two agree.  RTC memory that comes  *)
(* up with whatever it holds is taken to be invalid, and the clock not to  *)
(* drift.  Time is in seconds.                                             *)
(***************************************************************************)
EXTENDS Integers, Sequences, SequencesExt

CONSTANTS
  RESET_LOG_MAX_RECORDS,
  k_ckpt_times,             \* the schedule of checkpoints
  Intents,                  \* why somebody asks for a restart
  Refusable,                \* which flash writes may fail
  OldFlash,                 \* what flash may hold to begin with, of other builds too
  MaxTime, MaxResets        \* bounds on the whole history

Flags == {"PREV_STATE", "REACHED_READY", "OTA_PENDING", "ROLLBACK", "PREV_UPTIME_MIN",
          "RAIL_KNOWN", "RAIL_HELD", "BOOT_TIME"}
Reasons == {"POWERON", "panic", "restart"}
Records == [boot_seq: Nat, reason: Reasons, prev_uptime_s: Nat, intent: Intents \cup {"unknown"},
            part: {1, 2}, boot_epoch: Int, flags: SUBSET Flags]
Stores == [version: Nat, ring: Seq(Records), next_seq: Nat, ckpt: [seq: Nat, up: Nat]]

ASSUME ResetLogAssumption ==
  /\ RESET_LOG_MAX_RECORDS \in Nat \ {0}
  /\ k_ckpt_times \in Seq(Nat \ {0})
  /\ \A i \in 1 .. Len(k_ckpt_times) - 1 : k_ckpt_times[i] < k_ckpt_times[i + 1]
  /\ "unknown" \notin Intents
  /\ Refusable \subseteq {"blob", "seed", "ckpt", "stamp"}
  /\ OldFlash \subseteq Stores
  /\ MaxTime \in Nat /\ MaxResets \in Nat

VARIABLES
  now, start,               \* the time; when this boot started
  reset, resets,            \* what started it; how many resets there were
  rtc,                      \* reset_log.c's block in RTC memory
  clock,                    \* system time is set; clock_time.c's block says so
  flash,                    \* NVS: the ring, the number to come, the checkpoint
  imr,                      \* PHY register 0x1E: holds the pattern
  slots, running,           \* OTA state of both images; the one that runs
  pc,                       \* where app_main() is
  rail,                     \* rail_witness_probe()'s answer
  s_ring,                   \* records, oldest first
  s_ckpt_next, s_pattern, s_synced_this_boot, s_backfilled,
  asked,                    \* the restart that has been asked for
  mine, past                \* true facts about this boot and earlier ones

world == <<now, start, reset, resets>>
kept == <<rtc, clock, flash, imr, slots, running>>
ram == <<rail, s_ring, s_ckpt_next, s_pattern, s_synced_this_boot, s_backfilled, asked>>
truth == <<mine, past>>
vars == <<world, kept, pc, ram, truth>>

STORE_VERSION == 2
Stages == <<"start", "record", "blob", "seed", "eth", "arm", "valid", "ready", "up">>
Rank == [stage \in ToSet(Stages) |-> CHOOSE i \in DOMAIN Stages : Stages[i] = stage]
Reached(stage) == Rank[pc] >= Rank[stage]
up == now - start
Wipes == {"power", "en"}    \* resets that RTC memory does not survive

Pairs == {"up", "intent", "ready"}     \* torn: those that do not check
NoRtc == [magic |-> FALSE, torn |-> {}, up |-> 0, intent |-> "unknown", ready |-> FALSE]
NoClock == [set |-> FALSE, synced |-> FALSE, at |-> 0]
NoBoot == [valid |-> FALSE, up |-> 0, intent |-> "unknown", ready |-> FALSE]
NoCheckpoint == [seq |-> 0, up |-> 0]
NoFlash == [version |-> STORE_VERSION, ring |-> <<>>, next_seq |-> 1, ckpt |-> NoCheckpoint]
Fresh == [landed |-> FALSE, clean |-> TRUE]

\* A device is switched on, new or with another build's history.
Init ==
  /\ now = 0 /\ start = 0 /\ reset = "power" /\ resets = 0
  /\ rtc = NoRtc /\ clock = NoClock /\ flash \in OldFlash /\ imr = FALSE
  /\ slots = <<"valid", "valid">> /\ running = 1
  /\ pc = "start" /\ rail = "unknown" /\ s_ring = <<>> /\ s_ckpt_next = 1 /\ s_pattern = FALSE
  /\ s_synced_this_boot = FALSE /\ s_backfilled = FALSE /\ asked = "unknown"
  /\ mine = Fresh
  /\ past = [seeded |-> NoBoot, halfway |-> FALSE,
             recorded |-> [up |-> flash.ckpt.up, tight |-> FALSE],
             reverted |-> FALSE, armed |-> FALSE]
-----------------------------------------------------------------------------
(* app_main(), up to the record.                                           *)

\* nvs_flash_init(), which erases a partition it cannot use, and
\* rail_witness_probe(): a PHY that does not answer tells nothing.
rail_witness_probe(answers) == CASE ~answers -> "unknown" [] imr -> "held" [] OTHER -> "dropped"
Starts(erased, answers) ==
  /\ pc = "start" /\ pc' = "record"
  /\ flash' = IF erased THEN NoFlash ELSE flash
  /\ rail' = rail_witness_probe(answers)
  /\ past' = [past EXCEPT !.reverted = @ /\ ~erased]
  /\ UNCHANGED <<world, rtc, clock, imr, slots, running, s_ring, s_ckpt_next, s_pattern,
                 s_synced_this_boot, s_backfilled, asked, mine>>

\* A record of version 1 has no date.
Undated(r) == [r EXCEPT !.boot_epoch = 0, !.flags = @ \ {"BOOT_TIME"}]

\* The ring in flash: of a version this build knows, or none, and then numbers
\* start over.
load_from_nvs ==
  CASE flash.version = STORE_VERSION -> flash
    [] flash.version \in 1 .. STORE_VERSION - 1 ->
         [flash EXCEPT !.ring = [i \in DOMAIN @ |-> Undated(@[i])]]
    [] OTHER -> [flash EXCEPT !.ring = <<>>, !.next_seq = 1]

\* time(NULL): counts from power-on until it is set.
time == IF clock.set THEN now ELSE up

\* The clock counts from a sync that RTC memory still knows of, and that is not
\* yet to come.
clock_time_now == clock.synced /\ time >= clock.at

\* A checkpoint counts only for the boot it is of.
load_checkpoint(want_seq) == flash.ckpt # NoCheckpoint /\ flash.ckpt.seq = want_seq

\* Mutant: a trial image given up on is news for ever.
RolledBack_sticky(ring) == slots[3 - running] = "aborted"

\* The other image was given up on, and the last record is of its trial.
RolledBack(ring) ==
  /\ ring # <<>> /\ slots[3 - running] = "aborted"
  /\ "OTA_PENDING" \in Last(ring).flags /\ Last(ring).part # running

\* esp_reset_reason(): EN looks like power.
Reason == IF reset \in Wipes THEN "POWERON" ELSE reset

If(holds, flag) == IF holds THEN {flag} ELSE {}

\* The magic matches and all three pairs do.
prev_valid == rtc.magic /\ rtc.torn = {}

\* The record of this boot.
NewRecord(ring, seq) ==
  LET floor == ~prev_valid /\ load_checkpoint(seq - 1)
  IN  [boot_seq |-> seq,
       reason |-> Reason,
       prev_uptime_s |-> CASE prev_valid -> rtc.up [] floor -> flash.ckpt.up [] OTHER -> 0,
       intent |-> IF prev_valid THEN rtc.intent ELSE "unknown",
       part |-> running,
       boot_epoch |-> IF clock_time_now THEN time - up ELSE 0,
       flags |-> UNION {If(prev_valid, "PREV_STATE"), If(prev_valid /\ rtc.ready, "REACHED_READY"),
                        If(floor, "PREV_UPTIME_MIN"), If(clock_time_now, "BOOT_TIME"),
                        If(rail # "unknown", "RAIL_KNOWN"), If(rail = "held", "RAIL_HELD"),
                        If(slots[running] = "pending", "OTA_PENDING"),
                        If(RolledBack(ring), "ROLLBACK")}]

\* Mutant: only the counter is started over.
rtc_seed_counter == [rtc EXCEPT !.magic = TRUE, !.torn = {}, !.up = 0]

rtc_seed == [magic |-> TRUE, torn |-> {}, up |-> 0, intent |-> "unknown", ready |-> FALSE]

\* rtc_seed() writes one pair after the other and the magic last; a reset may
\* leave the first few of them written, and the next one torn.
Seeding(written, torn) ==
  [magic |-> rtc.magic,
   torn |-> (rtc.torn \ written) \cup torn,
   up |-> IF "up" \in written THEN 0 ELSE rtc.up,
   intent |-> IF "intent" \in written THEN "unknown" ELSE rtc.intent,
   ready |-> rtc.ready /\ "ready" \notin written]
HalfSeeded ==
  {Seeding({}, {"up"}), Seeding({"up"}, {}), Seeding({"up"}, {"intent"}),
   Seeding({"up", "intent"}, {}), Seeding({"up", "intent"}, {"ready"}), Seeding(Pairs, {})}

\* reset_log_init() up to save_to_nvs(): RTC memory is read and started over,
\* the ring loaded and the record appended, in RAM.
reset_log_init ==
  /\ pc = "record" /\ pc' = "blob"
  /\ rtc' = rtc_seed
  /\ LET ring == load_from_nvs.ring
         new == NewRecord(ring, load_from_nvs.next_seq)
     IN  s_ring' = Append(IF Len(ring) = RESET_LOG_MAX_RECORDS THEN Tail(ring) ELSE ring, new)
  /\ UNCHANGED <<world, clock, flash, imr, slots, running, rail, s_ckpt_next, s_pattern,
                 s_synced_this_boot, s_backfilled, asked, truth>>
-----------------------------------------------------------------------------
(* Flash.  A write that fails is dropped, not tried again.                 *)

May(ok, write) == ok \/ write \in Refusable
Current == Last(s_ring)

Blob(ring) ==
  [flash EXCEPT !.version = STORE_VERSION, !.ring = ring, !.next_seq = Last(ring).boot_seq + 1]

set_checkpoint(seconds) == [flash EXCEPT !.ckpt = [seq |-> Current.boot_seq, up |-> seconds]]

\* The record of this boot is in flash.
Landed ==
  /\ mine' = [mine EXCEPT !.landed = TRUE]
  /\ past' = [past EXCEPT !.reverted = FALSE]

Lost ==
  /\ mine' = [mine EXCEPT !.clean = FALSE]
  /\ UNCHANGED past

\* save_to_nvs(true): the ring, and then a checkpoint of zero.
SavesRing(ok) ==
  /\ pc = "blob" /\ May(ok, "blob")
  /\ pc' = IF ok THEN "seed" ELSE "eth"
  /\ IF ok THEN flash' = Blob(s_ring) /\ Landed ELSE UNCHANGED flash /\ Lost
  /\ UNCHANGED <<world, rtc, clock, imr, slots, running, ram>>

SeedsCheckpoint(ok) ==
  /\ pc = "seed" /\ pc' = "eth" /\ May(ok, "seed")
  /\ IF ok THEN flash' = set_checkpoint(0) /\ UNCHANGED truth ELSE UNCHANGED flash /\ Lost
  /\ UNCHANGED <<world, rtc, clock, imr, slots, running, ram>>

\* The first scheduled time after a floor, 0 when there is none.
Later(floor) == {i \in DOMAIN k_ckpt_times : k_ckpt_times[i] > floor}
NextAfter(floor) == CHOOSE i \in Later(floor) : \A j \in Later(floor) : i <= j
ceiling_for(floor) == IF Later(floor) = {} THEN 0 ELSE k_ckpt_times[NextAfter(floor)]

\* sys_monitor's task runs, and makes the calls of its loop.
Monitored == Reached("arm")
Due == s_ckpt_next <= Len(k_ckpt_times) /\ up >= k_ckpt_times[s_ckpt_next]

\* Every time that has passed is stepped over, whether the write lands or not.
reset_log_checkpoint_tick(ok) ==
  /\ Monitored /\ Due /\ May(ok, "ckpt")
  /\ s_ckpt_next' = IF Later(up) = {} THEN Len(k_ckpt_times) + 1 ELSE NextAfter(up)
  /\ IF ok THEN flash' = set_checkpoint(up) /\ UNCHANGED truth ELSE UNCHANGED flash /\ Lost
  /\ UNCHANGED <<world, rtc, clock, imr, slots, running, pc, rail, s_ring, s_pattern,
                 s_synced_this_boot, s_backfilled, asked>>
-----------------------------------------------------------------------------
(* app_main(), the rest.                                                   *)

\* The driver resets the PHY; sys_monitor's task starts soon after.
eth_init ==
  /\ pc = "eth" /\ pc' = "arm"
  /\ imr' = FALSE
  /\ UNCHANGED <<world, rtc, clock, flash, slots, running, ram, truth>>

\* Mutant: the pattern is written before the driver resets the PHY.
rail_witness_arm_early(holds) ==
  /\ pc = "arm" /\ pc' = "valid"
  /\ s_pattern' = holds
  /\ UNCHANGED <<world, kept, rail, s_ring, s_ckpt_next, s_synced_this_boot, s_backfilled,
                 asked, truth>>

\* Either pattern reads back, or none does.
rail_witness_arm(holds) ==
  /\ pc = "arm" /\ pc' = "valid"
  /\ s_pattern' = holds /\ imr' = holds
  /\ UNCHANGED <<world, rtc, clock, flash, slots, running, rail, s_ring, s_ckpt_next,
                 s_synced_this_boot, s_backfilled, asked, truth>>

\* esp_ota_mark_app_valid_cancel_rollback().
MarksValid ==
  /\ pc = "valid" /\ pc' = "ready"
  /\ slots' = [slots EXCEPT ![running] = "valid"]
  /\ UNCHANGED <<world, rtc, clock, flash, imr, running, ram, truth>>

reset_log_note_ready ==
  /\ pc = "ready" /\ pc' = "up"
  /\ rtc' = [rtc EXCEPT !.ready = TRUE]
  /\ UNCHANGED <<world, clock, flash, imr, slots, running, ram, truth>>
-----------------------------------------------------------------------------
(* Timers, other tasks and the outside.                                    *)

Second ==
  /\ now < MaxTime /\ now' = now + 1
  /\ UNCHANGED <<start, reset, resets, kept, pc, ram, truth>>

\* reset_log's own timer; note_intent stops it.
tick_cb ==
  /\ Reached("eth") /\ asked = "unknown"
  /\ rtc' = [rtc EXCEPT !.up = up]
  /\ UNCHANGED <<world, clock, flash, imr, slots, running, pc, ram, truth>>

rtc_note_sync == [set |-> TRUE, synced |-> TRUE, at |-> now]

\* The NTP client sets the time and calls back.
on_sync ==
  /\ Reached("valid")
  /\ clock' = rtc_note_sync
  /\ s_synced_this_boot' = TRUE
  /\ UNCHANGED <<world, rtc, flash, imr, slots, running, pc, rail, s_ring, s_ckpt_next, s_pattern,
                 s_backfilled, asked, truth>>

\* Mutant: the later rewrite seeds the checkpoint again.
Rewritten_seeded(ring) == [Blob(ring) EXCEPT !.ckpt = [seq |-> Current.boot_seq, up |-> 0]]

\* save_to_nvs(false).
Rewritten(ring) == Blob(ring)

\* Mutant: the record is dated with the time of the sync.
StartedAt_sync == time

StartedAt == time - up

\* The record gets its date, once, if it has none.
reset_log_note_time(boot_started_at, ok) ==
  IF "BOOT_TIME" \in Current.flags
    THEN UNCHANGED <<s_ring, flash, truth>>
    ELSE /\ s_ring' = [s_ring EXCEPT ![Len(s_ring)].boot_epoch = boot_started_at,
                                     ![Len(s_ring)].flags = @ \cup {"BOOT_TIME"}]
         /\ IF ok THEN flash' = Rewritten(s_ring') /\ Landed ELSE UNCHANGED <<flash, truth>>

clock_time_tick(ok) ==
  /\ Monitored /\ s_synced_this_boot /\ ~s_backfilled /\ clock_time_now /\ May(ok, "stamp")
  /\ s_backfilled' = TRUE
  /\ reset_log_note_time(StartedAt, ok)
  /\ UNCHANGED <<world, rtc, clock, imr, slots, running, pc, rail, s_ckpt_next, s_pattern,
                 s_synced_this_boot, asked>>

\* ota_post_handler(): the other slot holds a new image, to be tried next; refused
\* while the image that runs is itself on trial.
UpdatesImage ==
  /\ Reached("valid") /\ slots[running] # "pending"
  /\ slots' = [slots EXCEPT ![3 - running] = "new"]
  /\ UNCHANGED <<world, rtc, clock, flash, imr, running, pc, ram, truth>>

\* By the web server or the console, a moment before esp_restart(): the other
\* may still get its own in, over the first.
reset_log_note_intent(intent) ==
  /\ Reached("valid")
  /\ intent = "ota" => slots[3 - running] = "new"
  /\ asked' = intent
  /\ rtc' = [rtc EXCEPT !.up = up, !.intent = intent]
  /\ UNCHANGED <<world, clock, flash, imr, slots, running, pc, rail, s_ring, s_ckpt_next, s_pattern,
                 s_synced_this_boot, s_backfilled, truth>>

\* The bootloader: a new image is tried, one that was being tried given up.
GivesUp == slots[3 - running] # "new" /\ slots[running] = "pending"
Bootloader ==
  CASE slots[3 - running] = "new" ->
         running' = 3 - running /\ slots' = [slots EXCEPT ![3 - running] = "pending"]
    [] GivesUp -> running' = 3 - running /\ slots' = [slots EXCEPT ![running] = "aborted"]
    [] OTHER -> UNCHANGED <<running, slots>>

\* What a reset may leave of reset_log.c's block: as it is, with a pair torn that
\* somebody was writing, or half started over.
LeftOver ==
  {rtc} \cup (IF pc = "record" THEN HalfSeeded ELSE {})
        \cup {[rtc EXCEPT !.torn = {pair}] :
                pair \in If(Reached("eth"), "up") \cup If(Reached("valid"), "intent")
                          \cup If(pc = "ready", "ready")}

\* Facts about the boot that ends, and about earlier ones that still matter.
Passed(left) ==
  [seeded |-> IF Reached("blob")
                THEN [valid |-> TRUE, up |-> up, intent |-> asked, ready |-> pc = "up"]
                ELSE past.seeded,
   halfway |-> ~Reached("blob") /\ (past.halfway \/ left # rtc),
   recorded |-> IF mine.landed
                  THEN [up |-> up, tight |-> mine.clean /\ Reached("eth") /\ ~Due]
                  ELSE past.recorded,
   reverted |-> past.reverted \/ (GivesUp /\ mine.landed),
   armed |-> s_pattern]

\* Power is lost, EN pulled, or the chip reset by a panic, a watchdog or on
\* request, which leaves RTC memory as somebody's update of it had it: left is
\* reset_log.c's block then, torn whether clock_time.c was writing its own.
Resets(how, left, torn, off) ==
  /\ resets < MaxResets /\ now + off <= MaxTime
  /\ off > 0 => how = "power"
  /\ how = "restart" => asked # "unknown"
  /\ left # rtc \/ torn => how = "panic"
  /\ torn => Reached("valid")
  /\ now' = now + off /\ start' = now' /\ reset' = how /\ resets' = resets + 1
  /\ rtc' = IF how \in Wipes THEN NoRtc ELSE left
  /\ clock' = IF how \in Wipes THEN NoClock ELSE [clock EXCEPT !.synced = @ /\ ~torn]
  /\ imr' = (imr /\ how # "power")
  /\ Bootloader
  /\ pc' = "start" /\ rail' = "unknown" /\ s_ring' = <<>> /\ s_ckpt_next' = 1 /\ s_pattern' = FALSE
  /\ s_synced_this_boot' = FALSE /\ s_backfilled' = FALSE /\ asked' = "unknown"
  /\ mine' = Fresh /\ past' = Passed(left)
  /\ UNCHANGED flash

Next ==
  \/ \E erased, answers \in BOOLEAN : Starts(erased, answers)
  \/ reset_log_init \/ eth_init \/ MarksValid \/ reset_log_note_ready
  \/ \E ok \in BOOLEAN :
       \/ SavesRing(ok) \/ SeedsCheckpoint(ok) \/ rail_witness_arm(ok)
       \/ reset_log_checkpoint_tick(ok) \/ clock_time_tick(ok)
  \/ Second \/ tick_cb \/ on_sync \/ UpdatesImage
  \/ \E intent \in Intents : reset_log_note_intent(intent)
  \/ \E left \in LeftOver, how \in {"power", "en", "panic", "restart"}, torn \in BOOLEAN,
        off \in {0, 1} : Resets(how, left, torn, off)

Spec == Init /\ [][Next]_vars
-----------------------------------------------------------------------------
\* The types of the variables; records are numbered without a gap, in flash and
\* in RAM, and the number to come is the next one.
Numbered(ring) ==
  /\ Len(ring) <= RESET_LOG_MAX_RECORDS
  /\ \A i \in 1 .. Len(ring) - 1 : ring[i + 1].boot_seq = ring[i].boot_seq + 1
TypeOK ==
  /\ now \in 0 .. MaxTime /\ start \in 0 .. now /\ resets \in 0 .. MaxResets
  /\ pc \in ToSet(Stages) /\ rail \in {"unknown", "held", "dropped"}
  /\ rtc.up \in 0 .. MaxTime /\ rtc.intent \in Intents \cup {"unknown"}
  /\ running \in {1, 2} /\ ToSet(slots) \subseteq {"valid", "new", "pending", "aborted"}
  /\ \A r \in ToSet(s_ring) \cup ToSet(flash.ring) : r.flags \subseteq Flags
  /\ s_ckpt_next \in 1 .. Len(k_ckpt_times) + 1
  /\ Numbered(s_ring) /\ Numbered(flash.ring)
  /\ flash.ring # <<>> => flash.next_seq = Last(flash.ring).boot_seq + 1

\* The record a step makes has the property.
WhenRecorded(Holds(_)) == pc = "record" /\ pc' = "blob" => Holds(Last(s_ring'))

\* A figure from the checkpoint is a window around how long the last recorded
\* boot ran: never more than that, and, if that boot's writes all landed and its
\* tick had caught up, the next scheduled time was not reached ("at least
\* floor_s, less than this").
InWindow(r) ==
  "PREV_UPTIME_MIN" \in r.flags =>
    /\ r.prev_uptime_s <= past.recorded.up
    /\ past.recorded.tight /\ ceiling_for(r.prev_uptime_s) # 0
         => past.recorded.up < ceiling_for(r.prev_uptime_s)
FloorWindow == [][WhenRecorded(InWindow)]_vars

\* What comes out of RTC memory is about the last boot that started the block
\* over: never more uptime than that boot had, its intent and not an earlier
\* one's, and a finished startup only if its own did.  A boot that ends while it
\* starts the block over leaves a mixture of that boot and its own beginning, and
\* the record takes it for one boot's.
OfLastBoot(r) ==
  "PREV_STATE" \in r.flags =>
    /\ past.seeded.valid /\ r.prev_uptime_s <= past.seeded.up
    /\ r.intent = past.seeded.intent \/ (past.halfway /\ r.intent = "unknown")
    /\ "REACHED_READY" \in r.flags => past.seeded.ready
    /\ past.seeded.ready => "REACHED_READY" \in r.flags \/ past.halfway
PrevStateTrue == [][WhenRecorded(OfLastBoot)]_vars

\* A record says "rolled back" exactly when the bootloader has given up, since
\* the last record in flash, on the image that wrote it: once for each time,
\* although the mark on the slot stays.
OfRollback(r) == ("ROLLBACK" \in r.flags) = past.reverted
RollbackTold == [][WhenRecorded(OfRollback)]_vars

\* A dated record is dated with the moment its boot started, however the clock
\* came about and however late it arrived.
StampTrue ==
  s_ring # <<>> /\ "BOOT_TIME" \in Current.flags => Current.boot_epoch = start

\* "Held" is never said of a power loss; "dropped" is said of another reset only
\* when the boot before did not get as far as arming the witness, or could not.
WitnessHonest ==
  [][pc = "start" /\ pc' = "record" =>
       /\ rail' = "held" => reset # "power"
       /\ rail' = "dropped" => reset = "power" \/ ~past.armed]_vars
=============================================================================
