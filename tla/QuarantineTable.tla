--------------------------- MODULE QuarantineTable --------------------------
(***************************************************************************)
(* The table of cut-off clients that the forwarding path reads for every   *)
(* frame (src/main/client_track.c: s_q, s_q_gen, s_q_any,                  *)
(* mac_is_quarantined(), quarantine_publish()), and the two wrappers       *)
(* around a bridge port that read it and drop what it lists, DHCP excepted.*)
(*                                                                         *)
(* A slot is two 32-bit words, read and written one at a time, with no     *)
(* lock between the publisher and the reader: one step per load or store   *)
(* of a word that the two share.  Publishers hold s_mutex, so there is one *)
(* at a time; readers write nothing shared, so one stands for all.  What   *)
(* the wrappers queue for accounting is Traffic and Frame of Quarantine.   *)
(***************************************************************************)
EXTENDS Naturals, Sequences

CONSTANTS
  LoWords,         \* values of a MAC's first word (mac[0..3])
  HiWords,         \* values of its second word, the live bit included
  Frames,          \* frames that pass a port
  QUARANTINE_MAX,
  MaxPublish       \* bound on the number of publications

\* How much of a frame there is, of the whole and of its first segment: not its
\* addresses (0), those (1), the IP header too (2), the UDP ports too (3).  A
\* "group" frame is not from or to a client.
AnyFrame == [dir: {"in", "out"}, kind: {"dhcp", "ip", "other", "group"},
             first: 0 .. 3, tot: 0 .. 3]

ASSUME WordAssumption ==
  /\ Frames \subseteq {f \in AnyFrame : f.first <= f.tot}
  /\ LoWords \subseteq Nat              \* 0 is a legal first word
  /\ HiWords \subseteq Nat \ {0}        \* Q_SLOT_LIVE is set in a used slot
  /\ QUARANTINE_MAX \in Nat \ {0}
  /\ MaxPublish \in Nat

MACs == [lo: LoWords, hi: HiWords]

Empty == [lo |-> 0, hi |-> 0]

Slots == 1 .. QUARANTINE_MAX

Words == LoWords \cup {0}

\* What a caller may publish: a caller's list is never longer than the table.
Lists == UNION {[1 .. n -> MACs] : n \in 0 .. QUARANTINE_MAX}

VARIABLES
  s_q, s_q_gen, s_q_any,   \* shared
  w,                       \* publisher: where it is, its list, its slot
  r,                       \* a wrapper: where it is, its frame and MAC, its loads
  current,                 \* the clients cut off by the last publication
  still                    \* no publication has overlapped this lookup

shared == <<s_q, s_q_gen, s_q_any>>
vars == <<s_q, s_q_gen, s_q_any, w, r, current, still>>

NoFrame == [dir |-> "in", kind |-> "group", first |-> 0, tot |-> 0]

Writing == {"lo", "hi", "end"}       \* the generation is odd

Init ==
  /\ s_q = [i \in Slots |-> Empty]
  /\ s_q_gen = 0
  /\ s_q_any = 0
  /\ w = [pc |-> "idle", macs |-> <<>>, i |-> 1]
  /\ r = [pc |-> "idle", mac |-> Empty, frame |-> NoFrame, gen |-> 0, i |-> 1,
          dropped |-> FALSE]
  /\ current = {}
  /\ still = FALSE
-----------------------------------------------------------------------------
(* quarantine_publish().                                                   *)

\* Called with the new list; with anything in it the gate opens first.
Publish(macs) ==
  /\ w.pc = "idle"
  /\ s_q_gen < 2 * MaxPublish
  /\ w' = [pc |-> "begin", macs |-> macs, i |-> 1]
  /\ s_q_any' = IF macs = <<>> THEN s_q_any ELSE 1
  /\ still' = FALSE
  /\ UNCHANGED <<s_q, s_q_gen, r, current>>

\* Mutant: the generation is moved once, after the rewrite.
BeginRewrite_late ==
  /\ w.pc = "begin"
  /\ w' = [w EXCEPT !.pc = "lo"]
  /\ UNCHANGED <<shared, r, current, still>>

BeginRewrite ==
  /\ w.pc = "begin"
  /\ s_q_gen' = s_q_gen + 1
  /\ w' = [w EXCEPT !.pc = "lo"]
  /\ UNCHANGED <<s_q, s_q_any, r, current, still>>

Entry(macs, i) == IF i \in DOMAIN macs THEN macs[i] ELSE Empty

WriteLo ==
  /\ w.pc = "lo"
  /\ s_q' = [s_q EXCEPT ![w.i].lo = Entry(w.macs, w.i).lo]
  /\ w' = [w EXCEPT !.pc = "hi"]
  /\ UNCHANGED <<s_q_gen, s_q_any, r, current, still>>

WriteHi ==
  /\ w.pc = "hi"
  /\ s_q' = [s_q EXCEPT ![w.i].hi = Entry(w.macs, w.i).hi]
  /\ w' = [w EXCEPT !.pc = IF w.i = QUARANTINE_MAX THEN "end" ELSE "lo",
                    !.i = w.i + 1]
  /\ UNCHANGED <<s_q_gen, s_q_any, r, current, still>>

EndRewrite ==
  /\ w.pc = "end"
  /\ s_q_gen' = s_q_gen + 1
  /\ current' = {w.macs[i] : i \in DOMAIN w.macs}
  /\ w' = [w EXCEPT !.pc = "gate"]
  /\ UNCHANGED <<s_q, s_q_any, r, still>>

\* Mutant: the gate is closed after every publication.
CloseGate_always ==
  /\ w.pc = "gate"
  /\ s_q_any' = 0
  /\ w' = [w EXCEPT !.pc = "idle"]
  /\ UNCHANGED <<s_q, s_q_gen, r, current, still>>

\* With nobody left in the table the gate closes last.
CloseGate ==
  /\ w.pc = "gate"
  /\ s_q_any' = IF w.macs = <<>> THEN 0 ELSE s_q_any
  /\ w' = [w EXCEPT !.pc = "idle"]
  /\ UNCHANGED <<s_q, s_q_gen, r, current, still>>
-----------------------------------------------------------------------------
(* traffic_input_wrapper() and traffic_output_wrapper().                   *)

\* The addresses can be read: on the way in from the first segment, or by copying
\* when the IP header is there, on the way out by copying if need be.
Readable(f) ==
  IF f.dir = "in" THEN f.first >= 1 \/ f.tot >= 2 ELSE f.tot >= 1

\* is_dhcp_packet() with what the input wrapper has of the frame: a first segment
\* that holds the IP header is not read beyond.
is_dhcp(f) ==
  /\ f.kind = "dhcp" /\ f.tot >= 2
  /\ 3 = IF f.first >= 2 THEN f.first ELSE f.tot

\* The output wrapper copies, once it knows that the client is cut off.
frame_is_dhcp(f) == f.kind = "dhcp" /\ f.tot = 3

LooksUp(f) == Readable(f) /\ f.kind # "group" /\ ~(f.dir = "in" /\ is_dhcp(f))

\* A frame from or to mac; a lookup begins by reading the gate.
Arrives(mac, f) ==
  /\ r.pc = "idle"
  /\ r' = [pc |-> IF LooksUp(f) /\ s_q_any # 0 THEN "gen" ELSE "out", mac |-> mac, frame |-> f,
           gen |-> 0, i |-> 1, dropped |-> FALSE]
  /\ still' = (w.pc = "idle")
  /\ UNCHANGED <<shared, w, current>>

\* The frame goes on, or is dropped.
Leaves(dropped) == r' = [r EXCEPT !.pc = "idle", !.dropped = dropped]

\* chain_input() or chain_output().
Forward ==
  /\ r.pc = "out"
  /\ Leaves(FALSE)
  /\ UNCHANGED <<shared, w, current, still>>
-----------------------------------------------------------------------------
(* mac_is_quarantined().                                                   *)

ReadGen ==
  /\ r.pc = "gen"
  /\ r' = [r EXCEPT !.pc = IF s_q_gen % 2 = 1 THEN "out" ELSE "lo", !.gen = s_q_gen]
  /\ UNCHANGED <<shared, w, current, still>>

\* Mutant: the scan runs one slot past the table.
Miss_overrun == [r EXCEPT !.pc = IF r.i > QUARANTINE_MAX THEN "out" ELSE "lo",
                          !.i = r.i + 1]

\* The word differs: on to the next slot, or out with no hit.
Miss == [r EXCEPT !.pc = IF r.i = QUARANTINE_MAX THEN "out" ELSE "lo",
                  !.i = IF r.i = QUARANTINE_MAX THEN r.i ELSE r.i + 1]

ReadLo ==
  /\ r.pc = "lo"
  /\ r' = IF s_q[r.i].lo = r.mac.lo THEN [r EXCEPT !.pc = "hi"] ELSE Miss
  /\ UNCHANGED <<shared, w, current, still>>

ReadHi ==
  /\ r.pc = "hi"
  /\ r' = IF s_q[r.i].hi = r.mac.hi THEN [r EXCEPT !.pc = "hit"] ELSE Miss
  /\ UNCHANGED <<shared, w, current, still>>

\* A hit counts only if the table held still.
CheckGen ==
  /\ r.pc = "hit"
  /\ Leaves(s_q_gen = r.gen /\ ~(r.frame.dir = "out" /\ frame_is_dhcp(r.frame)))
  /\ UNCHANGED <<shared, w, current, still>>

Next ==
  \/ \E macs \in Lists : Publish(macs)
  \/ BeginRewrite \/ WriteLo \/ WriteHi \/ EndRewrite \/ CloseGate
  \/ \E mac \in MACs, f \in Frames : Arrives(mac, f)
  \/ Forward \/ ReadGen \/ ReadLo \/ ReadHi \/ CheckGen

Spec == Init /\ [][Next]_vars
-----------------------------------------------------------------------------
Publishers == [pc: {"idle", "begin", "gate"} \cup Writing, macs: Lists,
               i: 1 .. QUARANTINE_MAX + 1]

Readers == [pc: {"idle", "out", "gen", "lo", "hi", "hit"}, mac: MACs \cup {Empty},
            frame: Frames \cup {NoFrame}, gen: Nat, i: Slots, dropped: BOOLEAN]

\* The types of the variables.
TypeOK ==
  /\ s_q \in [Slots -> [lo: Words, hi: HiWords \cup {0}]]
  /\ s_q_gen \in Nat
  /\ s_q_any \in {0, 1}
  /\ w \in Publishers
  /\ r \in Readers
  /\ current \subseteq MACs
  /\ still \in BOOLEAN

\* A DHCP message whose ports the wrapper can reach: a first segment that ends
\* between the IP header and the ports hides them from the input wrapper.
Dhcp(f) == f.kind = "dhcp" /\ f.tot = 3 /\ ~(f.dir = "in" /\ f.first = 2)

\* A frame is dropped only if its client is cut off by the set in force at
\* that moment: no mixture of two versions of the table, word by word, ever
\* drops the frames of a third client ("a wrong drop takes a working device
\* off the network"); and no DHCP message is ever dropped, in either direction,
\* or the client could not be repaired over the network.
NoWrongDrop ==
  [][r.pc # "idle" /\ r'.pc = "idle" /\ r'.dropped
       => r.mac \in current /\ ~Dhcp(r.frame)]_vars

\* A lookup that no publication overlapped is exact: the gate, the generation
\* and the exception for DHCP never let through any other frame of a cut-off client.
ExactWhenStill ==
  [][r.pc # "idle" /\ r'.pc = "idle" /\ still
       => (r'.dropped <=> /\ r.mac \in current
                          /\ Readable(r.frame) /\ r.frame.kind # "group"
                          /\ ~Dhcp(r.frame))]_vars
=============================================================================
