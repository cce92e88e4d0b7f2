----------------------------- MODULE MCResetLog -----------------------------
(* An instance of ResetLog for TLC.                                        *)
EXTENDS ResetLog

Times == <<1, 2>>

\* A ring of version 1, or one of a version to come; erasing leaves none at all.
Earlier == [boot_seq |-> 1, reason |-> "POWERON", prev_uptime_s |-> 0, intent |-> "unknown",
            part |-> 1, boot_epoch |-> 0, flags |-> {}]
Known == [version |-> 1, ring |-> <<Earlier>>, next_seq |-> 2, ckpt |-> [seq |-> 1, up |-> 1]]
Unknown == [Known EXCEPT !.version = 3, !.ckpt.seq = 9]
AnyFlash == {Known, Unknown}

\* What is left to be told apart: of a ring its length and whether the newest
\* record is of a trial image, of a checkpoint whether it is of the last or of
\* this boot, of earlier boots what a step may still look at.
Newest(ring) ==
  IF ring = <<>> THEN <<>>
  ELSE <<Len(ring), Last(ring).boot_seq - flash.next_seq,
         IF "OTA_PENDING" \in Last(ring).flags THEN Last(ring).part ELSE 0>>
Dated == IF s_ring # <<>> /\ "BOOT_TIME" \in Current.flags THEN Current.boot_epoch ELSE -1
Age == flash.next_seq - flash.ckpt.seq
\* A fact that does not check is no fact, and without the magic there is none.
Block ==
  IF ~rtc.magic THEN <<>>
  ELSE <<rtc.torn,
         IF "up" \in rtc.torn THEN 0 ELSE rtc.up,
         IF "intent" \in rtc.torn THEN "unknown" ELSE rtc.intent,
         "ready" \notin rtc.torn /\ rtc.ready>>
Ahead ==
  <<now, start, resets, Block, clock.synced, flash.version, Newest(flash.ring),
    IF flash.ckpt # NoCheckpoint /\ Age \in {0, 1} THEN <<Age, flash.ckpt.up>> ELSE <<>>,
    imr, slots, running, pc, Newest(s_ring), Dated, s_ckpt_next, s_pattern,
    s_synced_this_boot \/ s_backfilled, s_backfilled, asked, mine, past.reverted,
    IF pc = "start" THEN <<reset, past.armed>> ELSE <<>>,
    IF pc = "record" THEN rail ELSE "",
    IF mine.landed THEN <<>> ELSE past.recorded,
    IF Reached("blob") \/ ~rtc.magic THEN <<>> ELSE <<past.seeded, past.halfway>>>>
=============================================================================
