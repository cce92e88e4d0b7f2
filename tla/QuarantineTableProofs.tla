------------------------ MODULE QuarantineTableProofs -----------------------
(***************************************************************************)
(* No client outside the set in force is ever cut off, whatever the number *)
(* of slots and however loads and stores of single words interleave.       *)
(*                                                                         *)
(* The generation is odd exactly while slots are being rewritten; outside  *)
(* a rewrite every slot holds a client of the set in force, or nothing; a  *)
(* reader whose generation is still the present one has seen only that.    *)
(*                                                                         *)
(* The other way round, a lookup that nothing overlapped finds whoever is  *)
(* in the set: the slots hold all of it, and those passed were not his.    *)
(***************************************************************************)
EXTENDS QuarantineTable, TLAPS

\* Outside a rewrite the generation is even and the slots hold the set.
Settled ==
  w.pc \notin Writing =>
    /\ s_q_gen % 2 = 0
    /\ \A i \in Slots, mac \in MACs : s_q[i] = mac => mac \in current

\* During one it is odd, and the slots passed so far hold the new list.
Rewriting ==
  /\ w.pc = "begin" => w.i = 1
  /\ w.pc \in Writing =>
       /\ s_q_gen % 2 = 1
       /\ \A i \in Slots : i < w.i => s_q[i] = Entry(w.macs, i)
       /\ w.pc = "hi" => s_q[w.i].lo = Entry(w.macs, w.i).lo
       /\ w.pc \in {"lo", "hi"} => w.i \in Slots
       /\ w.pc = "end" => w.i = QUARANTINE_MAX + 1

\* What a reader knows while the generation it read is the present one.
ReaderKnows ==
  /\ r.pc # "idle" => ~r.dropped
  /\ r.pc \in {"gen", "lo", "hi", "hit"} => r.mac \in MACs /\ LooksUp(r.frame)
  /\ r.pc \in {"lo", "hi", "hit"} =>
       /\ r.gen <= s_q_gen
       /\ r.gen % 2 = 0
       /\ s_q_gen = r.gen => /\ r.pc = "hi" => s_q[r.i].lo = r.mac.lo
                             /\ r.pc = "hit" => r.mac \in current

Inv == TypeOK /\ Settled /\ Rewriting /\ ReaderKnows

-----------------------------------------------------------------------------
LEMMA ListFacts ==
  ASSUME NEW macs \in Lists, NEW i \in Nat
  PROVE  /\ Entry(macs, i) \in MACs \cup {Empty}
         /\ Entry(macs, i).lo \in Words
         /\ Entry(macs, i).hi \in HiWords \cup {0}
         /\ DOMAIN macs \subseteq Slots
<1>1. PICK n \in 0 .. QUARANTINE_MAX : macs \in [1 .. n -> MACs]
  BY DEF Lists
<1>2. DOMAIN macs = 1 .. n
  BY <1>1
<1>3. Entry(macs, i) \in MACs \cup {Empty}
  BY <1>1, <1>2 DEF Entry
<1>4. DOMAIN macs \subseteq Slots
  BY <1>2, WordAssumption DEF Slots
<1>5. Entry(macs, i).lo \in Words /\ Entry(macs, i).hi \in HiWords \cup {0}
  BY <1>3 DEF MACs, Empty, Words
<1> QED BY <1>3, <1>4, <1>5

LEMMA EmptyNotMAC == Empty \notin MACs
BY WordAssumption DEF Empty, MACs

LEMMA InitInv == Init => Inv
<1> SUFFICES ASSUME Init PROVE Inv
  OBVIOUS
<1>1. <<>> \in Lists
  BY WordAssumption DEF Lists
<1>2. TypeOK
  <2>1. w \in Publishers
    BY <1>1, WordAssumption DEF Init, Publishers
  <2>2. r \in Readers
    BY WordAssumption DEF Init, Readers, Slots
  <2>3. s_q \in [Slots -> [lo: Words, hi: HiWords \cup {0}]]
    BY DEF Init, Empty, Words
  <2> QED BY <2>1, <2>2, <2>3 DEF Init, TypeOK
<1>3. Settled
  BY EmptyNotMAC DEF Init, Settled
<1> QED BY <1>2, <1>3 DEF Init, Inv, Rewriting, ReaderKnows, Writing

LEMMA PublishStep ==
  ASSUME Inv, NEW macs \in Lists, Publish(macs)
  PROVE  Inv'
<1>1. TypeOK'
  <2>1. w' \in Publishers
    BY WordAssumption DEF Publish, Publishers
  <2> QED BY <2>1 DEF Inv, TypeOK, Publish
<1>2. Settled' /\ Rewriting' /\ ReaderKnows'
  BY DEF Inv, TypeOK, Publish, Settled, Rewriting, ReaderKnows, Writing
<1> QED BY <1>1, <1>2 DEF Inv

LEMMA BeginStep ==
  ASSUME Inv, BeginRewrite
  PROVE  Inv'
<1>1. /\ w'.pc = "lo" /\ w'.i = w.i /\ w'.macs = w.macs /\ w' \in Publishers
      /\ s_q_gen' = s_q_gen + 1 /\ UNCHANGED <<s_q, s_q_any, r, current, still>>
      /\ s_q_gen \in Nat
  BY DEF Inv, TypeOK, BeginRewrite, Writing, Publishers
<1>2. s_q_gen' % 2 = 1 /\ w.i = 1
  BY <1>1 DEF Inv, Settled, Rewriting, BeginRewrite, Writing
<1>3. TypeOK'
  BY <1>1 DEF Inv, TypeOK
<1>4. Settled' /\ Rewriting'
  BY <1>1, <1>2, WordAssumption DEF Settled, Rewriting, Writing, Slots
<1>5. ReaderKnows'
  BY <1>1 DEF Inv, TypeOK, Readers, ReaderKnows
<1> QED BY <1>3, <1>4, <1>5 DEF Inv

\* A store during a rewrite is seen by no reader with the present generation:
\* that generation is odd.
LEMMA RewriteHidden ==
  ASSUME Inv, w.pc \in Writing, UNCHANGED <<r, current, s_q_gen>>
  PROVE  ReaderKnows'
<1>1. s_q_gen % 2 = 1
  BY DEF Inv, Rewriting
<1> QED BY <1>1 DEF Inv, ReaderKnows

LEMMA WriteLoStep ==
  ASSUME Inv, WriteLo
  PROVE  Inv'
<1>0. /\ w.pc = "lo" /\ w.i \in Slots /\ w.macs \in Lists /\ w.i \in Nat
      /\ s_q \in [Slots -> [lo: Words, hi: HiWords \cup {0}]]
  BY DEF Inv, TypeOK, WriteLo, Rewriting, Writing, Publishers, Slots
<1> DEFINE e == Entry(w.macs, w.i)
<1>1. e.lo \in Words
  BY <1>0, ListFacts
<1> HIDE DEF e
<1>2. /\ w'.pc = "hi" /\ w'.i = w.i /\ w'.macs = w.macs /\ w' \in Publishers
      /\ UNCHANGED <<s_q_gen, s_q_any, r, current, still>>
  BY DEF Inv, TypeOK, WriteLo, Writing, Publishers
<1>3. /\ s_q' \in [Slots -> [lo: Words, hi: HiWords \cup {0}]]
      /\ s_q'[w.i].lo = e.lo
      /\ \A i \in Slots : i # w.i => s_q'[i] = s_q[i]
  BY <1>0, <1>1 DEF WriteLo, e
<1>4. TypeOK'
  BY <1>2, <1>3 DEF Inv, TypeOK
<1>5. Settled' /\ Rewriting'
  BY <1>0, <1>2, <1>3 DEF Inv, Settled, Rewriting, Writing, Slots, e
<1>6. ReaderKnows'
  BY <1>0, <1>2, RewriteHidden DEF Writing
<1> QED BY <1>4, <1>5, <1>6 DEF Inv

LEMMA WriteHiStep ==
  ASSUME Inv, WriteHi
  PROVE  Inv'
<1>0. /\ w.pc = "hi" /\ w.i \in Slots /\ w.macs \in Lists /\ w.i \in Nat
      /\ s_q \in [Slots -> [lo: Words, hi: HiWords \cup {0}]]
      /\ s_q[w.i].lo = Entry(w.macs, w.i).lo
  BY DEF Inv, TypeOK, WriteHi, Rewriting, Writing, Publishers, Slots
<1> DEFINE e == Entry(w.macs, w.i)
<1>1. e.hi \in HiWords \cup {0} /\ e \in MACs \cup {Empty} /\ s_q[w.i].lo = e.lo
  BY <1>0, ListFacts
<1> HIDE DEF e
<1>2. /\ w'.pc = IF w.i = QUARANTINE_MAX THEN "end" ELSE "lo"
      /\ w'.i = w.i + 1 /\ w'.macs = w.macs /\ w' \in Publishers
      /\ UNCHANGED <<s_q_gen, s_q_any, r, current, still>>
  <2>1. w.i + 1 \in 1 .. QUARANTINE_MAX + 1
    BY <1>0, WordAssumption DEF Slots
  <2>2. CASE w.i = QUARANTINE_MAX
    BY <2>1, <2>2 DEF Inv, TypeOK, WriteHi, Writing, Publishers
  <2>3. CASE w.i # QUARANTINE_MAX
    BY <2>1, <2>3 DEF Inv, TypeOK, WriteHi, Writing, Publishers
  <2> QED BY <2>2, <2>3
<1>3. /\ s_q' \in [Slots -> [lo: Words, hi: HiWords \cup {0}]]
      /\ s_q'[w.i] = [s_q[w.i] EXCEPT !.hi = e.hi]
      /\ \A i \in Slots : i # w.i => s_q'[i] = s_q[i]
  BY <1>0, <1>1 DEF WriteHi, e
<1>4. s_q'[w.i] = e
  BY <1>0, <1>1, <1>3 DEF MACs, Empty
<1>5. TypeOK'
  BY <1>2, <1>3 DEF Inv, TypeOK
<1>6. Settled' /\ Rewriting'
  <2>1. \A i \in Slots : i < w.i + 1 => s_q'[i] = Entry(w.macs, i)
    BY <1>0, <1>3, <1>4 DEF Inv, Rewriting, Writing, Slots, e
  <2> QED BY <2>1, <1>0, <1>2, WordAssumption DEF Inv, Settled, Rewriting, Writing, Slots
<1>7. ReaderKnows'
  BY <1>0, <1>2, RewriteHidden DEF Writing
<1> QED BY <1>5, <1>6, <1>7 DEF Inv

LEMMA EndStep ==
  ASSUME Inv, EndRewrite
  PROVE  Inv'
<1>1. /\ w'.pc = "gate" /\ w'.i = w.i /\ w'.macs = w.macs /\ w' \in Publishers
      /\ s_q_gen' = s_q_gen + 1 /\ UNCHANGED <<s_q, s_q_any, r, still>>
      /\ s_q_gen \in Nat /\ w.macs \in Lists /\ w.pc = "end"
      /\ current' = {w.macs[i] : i \in DOMAIN w.macs}
  BY DEF Inv, TypeOK, EndRewrite, Writing, Publishers
<1>2. s_q_gen' % 2 = 0
  BY <1>1 DEF Inv, Rewriting, Writing
<1>3. \A i \in Slots : s_q[i] = Entry(w.macs, i)
  BY <1>1, WordAssumption DEF Inv, Rewriting, Writing, Slots
<1>4. \A i \in Slots, mac \in MACs : s_q'[i] = mac => mac \in current'
  BY <1>1, <1>3, EmptyNotMAC DEF Entry
<1>5. current' \subseteq MACs
  BY <1>1 DEF Lists
<1>6. TypeOK'
  BY <1>1, <1>5 DEF Inv, TypeOK
<1>7. Settled' /\ Rewriting'
  BY <1>1, <1>2, <1>4 DEF Settled, Rewriting, Writing
<1>8. ReaderKnows'
  BY <1>1 DEF Inv, TypeOK, Readers, ReaderKnows
<1> QED BY <1>6, <1>7, <1>8 DEF Inv

LEMMA GateStep ==
  ASSUME Inv, CloseGate
  PROVE  Inv'
<1>1. /\ w.pc = "gate" /\ w'.pc = "idle" /\ w' \in Publishers /\ s_q_any' \in {0, 1}
      /\ UNCHANGED <<s_q, s_q_gen, r, current, still>>
  BY DEF Inv, TypeOK, CloseGate, Writing, Publishers
<1>2. TypeOK'
  BY <1>1 DEF Inv, TypeOK
<1> QED BY <1>1, <1>2 DEF Inv, Settled, Rewriting, ReaderKnows, Writing

\* A reader's step touches nothing shared.
LEMMA ReaderStep ==
  ASSUME Inv, UNCHANGED <<shared, w, current>>, still' \in BOOLEAN,
         r' \in Readers, ReaderKnows'
  PROVE  Inv'
<1>1. TypeOK'
  BY DEF Inv, TypeOK, shared
<1> QED BY <1>1 DEF Inv, Settled, Rewriting, shared

LEMMA ReaderSteps ==
  ASSUME Inv, \/ \E mac \in MACs, f \in Frames : Arrives(mac, f)
              \/ Forward \/ ReadGen \/ ReadLo \/ ReadHi \/ CheckGen
  PROVE  Inv'
<1>0. /\ r \in Readers /\ s_q_gen \in Nat /\ still \in BOOLEAN
      /\ s_q \in [Slots -> [lo: Words, hi: HiWords \cup {0}]]
  BY DEF Inv, TypeOK
<1>1. ASSUME NEW mac \in MACs, NEW f \in Frames, Arrives(mac, f)
      PROVE  Inv'
  <2>1. /\ r' \in Readers /\ r'.pc \in {"out", "gen"} /\ r'.mac \in MACs /\ ~r'.dropped
        /\ r'.pc = "gen" => LooksUp(r'.frame)
    BY <1>1, WordAssumption DEF Arrives, Readers, Slots
  <2> QED BY <1>1, <2>1, ReaderStep DEF Arrives, ReaderKnows
<1>2. CASE Forward \/ CheckGen
  <2>1. r' \in Readers /\ r'.pc = "idle"
    BY <1>0, <1>2 DEF Forward, CheckGen, Leaves, Readers
  <2> QED BY <1>0, <1>2, <2>1, ReaderStep DEF Forward, CheckGen, ReaderKnows
<1>3. CASE ReadGen
  <2>1. /\ r' \in Readers /\ r'.pc \in {"out", "lo"} /\ r'.mac = r.mac /\ r'.frame = r.frame
        /\ r'.gen = s_q_gen /\ r.mac \in MACs /\ LooksUp(r.frame) /\ ~r'.dropped
    BY <1>0, <1>3 DEF ReadGen, Readers, Inv, ReaderKnows
  <2>2. r'.pc = "lo" => s_q_gen % 2 = 0
    BY <1>0, <1>3 DEF ReadGen, Readers
  <2>3. UNCHANGED <<shared, w, current, still>>
    BY <1>3 DEF ReadGen
  <2>4. ReaderKnows'
    BY <1>0, <2>1, <2>2, <2>3 DEF ReaderKnows, shared
  <2> QED BY <1>0, <2>1, <2>3, <2>4, ReaderStep
<1>4. /\ Miss \in Readers /\ Miss.pc \in {"out", "lo"}
      /\ Miss.mac = r.mac /\ Miss.frame = r.frame /\ Miss.gen = r.gen /\ Miss.dropped = r.dropped
  <2>1. r.i \in Nat /\ 1 <= r.i /\ r.i <= QUARANTINE_MAX
    BY <1>0, WordAssumption DEF Readers, Slots
  <2>2. CASE r.i = QUARANTINE_MAX
    BY <1>0, <2>1, <2>2 DEF Miss, Readers
  <2>3. CASE r.i # QUARANTINE_MAX
    <3>1. r.i + 1 \in Slots
      BY <2>1, <2>3, WordAssumption DEF Slots
    <3> QED BY <1>0, <2>3, <3>1 DEF Miss, Readers
  <2> QED BY <2>2, <2>3
<1>5. CASE ReadLo
  <2>1. CASE s_q[r.i].lo = r.mac.lo
    <3>1. /\ r' \in Readers /\ r'.pc = "hi" /\ r'.mac = r.mac /\ r'.frame = r.frame /\ r'.gen = r.gen
          /\ r'.i = r.i /\ r'.dropped = r.dropped
      BY <1>0, <1>5, <2>1 DEF ReadLo, Readers
    <3> QED BY <1>0, <1>5, <2>1, <3>1, ReaderStep DEF ReadLo, ReaderKnows, shared, Inv
  <2>2. CASE s_q[r.i].lo # r.mac.lo
    BY <1>0, <1>4, <1>5, <2>2, ReaderStep DEF ReadLo, ReaderKnows, shared, Inv
  <2> QED BY <2>1, <2>2
<1>6. CASE ReadHi
  <2>1. CASE s_q[r.i].hi = r.mac.hi
    <3>1. /\ r' \in Readers /\ r'.pc = "hit" /\ r'.mac = r.mac /\ r'.frame = r.frame /\ r'.gen = r.gen
          /\ r'.dropped = r.dropped
      BY <1>0, <1>6, <2>1 DEF ReadHi, Readers
    <3>2. s_q_gen = r.gen => r.mac \in current
      <4> SUFFICES ASSUME s_q_gen = r.gen PROVE r.mac \in current
        OBVIOUS
      <4>1. s_q[r.i].lo = r.mac.lo /\ r.mac \in MACs /\ r.gen % 2 = 0
        BY <1>6 DEF ReadHi, Inv, ReaderKnows
      <4>2. r.i \in Slots
        BY <1>0 DEF Readers
      <4>3. s_q[r.i] = r.mac
        BY <1>0, <2>1, <4>1, <4>2 DEF MACs
      <4>4. w.pc \notin Writing
        BY <1>0, <4>1 DEF Inv, Rewriting
      <4> QED BY <4>1, <4>2, <4>3, <4>4 DEF Inv, Settled
    <3> QED BY <1>0, <1>6, <3>1, <3>2, ReaderStep DEF ReadHi, ReaderKnows, shared, Inv
  <2>2. CASE s_q[r.i].hi # r.mac.hi
    BY <1>0, <1>4, <1>6, <2>2, ReaderStep DEF ReadHi, ReaderKnows, shared, Inv
  <2> QED BY <2>1, <2>2
<1> QED BY <1>1, <1>2, <1>3, <1>5, <1>6

LEMMA NextInv == Inv /\ [Next]_vars => Inv'
<1> SUFFICES ASSUME Inv, [Next]_vars PROVE Inv'
  OBVIOUS
<1>1. CASE UNCHANGED vars
  BY <1>1 DEF vars, Inv, TypeOK, Settled, Rewriting, ReaderKnows
<1> QED
  BY <1>1, PublishStep, BeginStep, WriteLoStep, WriteHiStep, EndStep, GateStep,
     ReaderSteps DEF Next

\* Type correctness, for any number of slots, clients and publications.
THEOREM TypeCorrect == Spec => []TypeOK
<1>1. Inv => TypeOK
  BY DEF Inv
<1> QED BY InitInv, NextInv, <1>1, PTL DEF Spec

\* A frame the wrappers looked up and still take for DHCP was on its way out.
LEMMA DhcpSeen ==
  ASSUME NEW f \in Frames, LooksUp(f), Dhcp(f)
  PROVE  f.dir = "out" /\ frame_is_dhcp(f)
<1>1. f \in AnyFrame
  BY WordAssumption
<1>2. ASSUME f.dir = "in" PROVE is_dhcp(f)
  BY <1>1, <1>2 DEF Dhcp, is_dhcp, AnyFrame
<1> QED BY <1>1, <1>2 DEF Dhcp, LooksUp, frame_is_dhcp, AnyFrame

\* Reading a word does not end the lookup.
LEMMA ReadsOn ==
  ASSUME r \in Readers, ReadGen \/ ReadLo \/ ReadHi
  PROVE  r'.pc # "idle"
<1>1. CASE ReadGen
  BY <1>1 DEF ReadGen, Readers
<1>2. ASSUME r' = Miss PROVE r'.pc # "idle"
  BY <1>2 DEF Miss, Readers
<1>3. ASSUME NEW pc \in {"hi", "hit"}, r' = [r EXCEPT !.pc = pc] PROVE r'.pc # "idle"
  BY <1>3 DEF Readers
<1> QED BY <1>1, <1>2, <1>3 DEF ReadLo, ReadHi

\* A hit that the generation confirms is a client of the set in force: the
\* whole scan is covered by one comparison, taken after it.  DHCP on the way in is
\* never looked up, and on the way out passes in spite of a hit.
THEOREM NeverAWrongDrop == Spec => NoWrongDrop
<1>1. Inv /\ [Next]_vars
        => [r.pc # "idle" /\ r'.pc = "idle" /\ r'.dropped
              => r.mac \in current /\ ~Dhcp(r.frame)]_vars
  <2> SUFFICES ASSUME Inv, Next, r.pc # "idle", r'.pc = "idle", r'.dropped
               PROVE  r.mac \in current /\ ~Dhcp(r.frame)
    OBVIOUS
  <2>1. r \in Readers
    BY DEF Inv, TypeOK
  <2>2. CASE CheckGen
    <3>1. /\ s_q_gen = r.gen /\ ~(r.frame.dir = "out" /\ frame_is_dhcp(r.frame))
          /\ r.pc = "hit"
      BY <2>1, <2>2 DEF CheckGen, Leaves, Readers
    <3>2. r.mac \in current /\ LooksUp(r.frame)
      BY <3>1 DEF Inv, ReaderKnows
    <3>3. r.frame \in Frames
      BY <2>1, <3>2 DEF Readers, LooksUp, NoFrame
    <3> QED BY <3>1, <3>2, <3>3, DhcpSeen
  <2>3. ASSUME UNCHANGED r PROVE FALSE
    BY <2>3
  <2>4. ASSUME Forward PROVE FALSE
    BY <2>1, <2>4 DEF Forward, Leaves, Readers
  <2>5. ASSUME ReadGen \/ ReadLo \/ ReadHi PROVE FALSE
    BY <2>1, <2>5, ReadsOn
  <2> QED
    BY <2>2, <2>3, <2>4, <2>5 DEF Next, Publish, BeginRewrite, WriteLo, WriteHi,
       EndRewrite, CloseGate, Arrives
<1> QED BY InitInv, NextInv, <1>1, PTL DEF Spec, NoWrongDrop

-----------------------------------------------------------------------------
(* The other half: whoever is in the set in force is found, provided that  *)
(* no publication overlaps the lookup.                                     *)

\* Outside a rewrite everybody of the set is in some slot.
Complete ==
  w.pc \notin Writing => \A mac \in current : \E i \in Slots : s_q[i] = mac

\* The gate is open while the set in force, or the one under way, has anybody in it.
GateOpen ==
  /\ current # {} => s_q_any = 1
  /\ w.pc # "idle" /\ w.macs # <<>> => s_q_any = 1
  /\ w.pc = "gate" => current = {w.macs[i] : i \in DOMAIN w.macs}

\* What a lookup that nothing has overlapped has found out so far.
StillKnows ==
  /\ still => w.pc = "idle"
  /\ r.pc # "idle" => r.mac \in MACs /\ r.frame \in Frames
  /\ still /\ r.pc = "out" => r.mac \notin current \/ ~LooksUp(r.frame)
  /\ still /\ r.pc \in {"lo", "hi", "hit"} => r.gen = s_q_gen
  /\ r.pc = "gen" => r.i = 1
  /\ still /\ r.pc \in {"lo", "hi"} => \A j \in Slots : j < r.i => s_q[j] # r.mac

ExactInv == Complete /\ GateOpen /\ StillKnows

LEMMA InitExact == Init => ExactInv
BY DEF Init, ExactInv, Complete, GateOpen, StillKnows

\* A step of the publisher overlaps whatever lookup there is.
LEMMA PublisherExact ==
  ASSUME Inv, ExactInv,
         \/ \E macs \in Lists : Publish(macs)
         \/ BeginRewrite \/ WriteLo \/ WriteHi \/ EndRewrite \/ CloseGate
  PROVE  ExactInv'
<1>0. w \in Publishers /\ s_q_any \in {0, 1} /\ r \in Readers
  BY DEF Inv, TypeOK
<1>1. UNCHANGED r /\ (still' = FALSE)
  <2>1. still \in BOOLEAN /\ (still => w.pc = "idle")
    BY DEF Inv, TypeOK, ExactInv, StillKnows
  <2> QED BY <2>1 DEF Publish, BeginRewrite, WriteLo, WriteHi, EndRewrite, CloseGate
<1>2. StillKnows'
  BY <1>1 DEF ExactInv, StillKnows
<1>3. ASSUME NEW macs \in Lists, Publish(macs) PROVE Complete' /\ GateOpen'
  BY <1>0, <1>3 DEF Publish, ExactInv, Complete, GateOpen, Writing
<1>4. CASE BeginRewrite \/ WriteLo \/ WriteHi
  <2>1. /\ w'.pc \in Writing /\ w'.macs = w.macs /\ w.pc # "idle"
        /\ UNCHANGED <<s_q_any, current>>
    BY <1>0, <1>4 DEF BeginRewrite, WriteLo, WriteHi, Writing, Publishers
  <2>2. GateOpen'
    BY <2>1 DEF ExactInv, GateOpen, Writing
  <2> QED BY <1>2, <2>1, <2>2 DEF ExactInv, Complete
<1>5. CASE EndRewrite
  <2>1. /\ w.pc = "end" /\ w'.pc = "gate" /\ w'.macs = w.macs /\ w.macs \in Lists
        /\ current' = {w.macs[i] : i \in DOMAIN w.macs} /\ UNCHANGED <<s_q, s_q_any>>
    BY <1>0, <1>5 DEF EndRewrite, Publishers
  <2>2. \A i \in Slots : s_q[i] = Entry(w.macs, i)
    BY <2>1, WordAssumption DEF Inv, Rewriting, Writing, Slots
  <2>3. DOMAIN w.macs \subseteq Slots
    BY <2>1, ListFacts
  <2>4. \A mac \in current' : \E i \in Slots : s_q'[i] = mac
    BY <2>1, <2>2, <2>3 DEF Entry
  <2>5. GateOpen'
    BY <2>1 DEF ExactInv, GateOpen
  <2> QED BY <1>2, <2>4, <2>5 DEF ExactInv, Complete
<1>6. CASE CloseGate
  <2>1. /\ w.pc = "gate" /\ w'.pc = "idle" /\ w'.macs = w.macs /\ UNCHANGED <<s_q, current>>
        /\ s_q_any' = IF w.macs = <<>> THEN 0 ELSE s_q_any
    BY <1>0, <1>6 DEF CloseGate, Publishers
  <2>2. Complete'
    BY <2>1 DEF ExactInv, Complete, Writing
  <2>3. w.macs = <<>> => current = {}
    BY <2>1 DEF ExactInv, GateOpen
  <2>4. GateOpen'
    BY <2>1, <2>3 DEF ExactInv, GateOpen
  <2> QED BY <1>2, <2>2, <2>4 DEF ExactInv
<1> QED BY <1>2, <1>3, <1>4, <1>5, <1>6 DEF ExactInv

\* A slot that differs in one of its words is not the client's; past the last slot
\* nobody is left.
LEMMA MissExact ==
  ASSUME Inv, ExactInv, r.pc \in {"lo", "hi"}, s_q[r.i] # r.mac, r' = Miss,
         UNCHANGED <<shared, w, current, still>>
  PROVE  StillKnows'
<1>0. r \in Readers /\ r.i \in Slots /\ r.i \in Nat /\ QUARANTINE_MAX \in Nat
  BY WordAssumption DEF Inv, TypeOK, Readers, Slots
<1>1. /\ r'.mac = r.mac /\ r'.frame = r.frame /\ r'.gen = r.gen
      /\ r'.pc = IF r.i = QUARANTINE_MAX THEN "out" ELSE "lo"
      /\ r'.i = IF r.i = QUARANTINE_MAX THEN r.i ELSE r.i + 1
  BY <1>0 DEF Miss, Readers
<1>2. UNCHANGED <<s_q, s_q_gen, w, current, still>>
  BY DEF shared
<1>3. ASSUME still PROVE \A j \in Slots : j <= r.i => s_q[j] # r.mac
  BY <1>0, <1>3 DEF ExactInv, StillKnows, Slots
<1>4. CASE r.i = QUARANTINE_MAX
  <2>1. ASSUME still PROVE r.mac \notin current
    <3>1. \A j \in Slots : s_q[j] # r.mac
      BY <1>0, <1>3, <1>4, <2>1 DEF Slots
    <3> QED BY <2>1, <3>1 DEF ExactInv, Complete, StillKnows, Writing
  <2> QED BY <1>1, <1>2, <1>4, <2>1 DEF ExactInv, StillKnows
<1>5. CASE r.i # QUARANTINE_MAX
  <2>1. ASSUME still PROVE \A j \in Slots : j < r'.i => s_q[j] # r.mac
    BY <1>0, <1>1, <1>3, <1>5, <2>1 DEF Slots
  <2> QED BY <1>1, <1>2, <1>5, <2>1 DEF ExactInv, StillKnows
<1> QED BY <1>4, <1>5

LEMMA ReaderExact ==
  ASSUME Inv, ExactInv,
         \/ \E mac \in MACs, f \in Frames : Arrives(mac, f)
         \/ Forward \/ ReadGen \/ ReadLo \/ ReadHi \/ CheckGen
  PROVE  ExactInv'
<1>0. r \in Readers /\ s_q_any \in {0, 1} /\ w \in Publishers
  BY DEF Inv, TypeOK
<1>1. UNCHANGED <<shared, w, current>>
  BY DEF Arrives, Forward, ReadGen, ReadLo, ReadHi, CheckGen
<1>2. Complete' /\ GateOpen'
  BY <1>1 DEF ExactInv, Complete, GateOpen, shared
<1>3. ASSUME NEW mac \in MACs, NEW f \in Frames, Arrives(mac, f) PROVE StillKnows'
  <2>1. /\ r'.pc \in {"gen", "out"} /\ r'.mac = mac /\ r'.frame = f /\ r'.i = 1
        /\ r'.pc = "out" => ~LooksUp(f) \/ s_q_any = 0
        /\ still' = (w.pc = "idle")
    BY <1>0, <1>3 DEF Arrives
  <2>2. s_q_any = 0 => mac \notin current
    BY DEF ExactInv, GateOpen
  <2> QED BY <1>1, <1>3, <2>1, <2>2 DEF StillKnows, shared
<1>4. CASE Forward \/ CheckGen
  <2>1. r'.pc = "idle" /\ UNCHANGED still
    BY <1>0, <1>4 DEF Forward, CheckGen, Leaves, Readers
  <2> QED BY <1>1, <1>2, <2>1 DEF ExactInv, StillKnows
<1>5. CASE ReadGen
  <2>1. /\ r.pc = "gen" /\ r'.mac = r.mac /\ r'.frame = r.frame /\ r'.i = r.i /\ UNCHANGED still
        /\ r'.gen = s_q_gen /\ r'.pc = IF s_q_gen % 2 = 1 THEN "out" ELSE "lo"
    BY <1>0, <1>5 DEF ReadGen, Readers
  <2>2. still => s_q_gen % 2 = 0
    BY DEF ExactInv, StillKnows, Inv, Settled, Writing
  <2>3. r.i = 1
    BY <2>1 DEF ExactInv, StillKnows
  <2>4. \A j \in Slots : ~(j < r'.i)
    BY <2>1, <2>3 DEF Slots
  <2> QED BY <1>1, <1>2, <2>1, <2>2, <2>4 DEF ExactInv, StillKnows, shared
<1>6. CASE ReadLo \/ ReadHi
  <2>1. r.pc \in {"lo", "hi"} /\ UNCHANGED still
    BY <1>6 DEF ReadLo, ReadHi
  <2>2. CASE r' = Miss /\ s_q[r.i] # r.mac
    BY <1>1, <1>2, <2>1, <2>2, MissExact DEF ExactInv
  <2>3. ASSUME NEW pc \in {"hi", "hit"}, r' = [r EXCEPT !.pc = pc] PROVE StillKnows'
    <3>1. r'.pc = pc /\ r'.mac = r.mac /\ r'.frame = r.frame /\ r'.gen = r.gen /\ r'.i = r.i
      BY <1>0, <2>3 DEF Readers
    <3> QED BY <1>1, <2>1, <3>1 DEF ExactInv, StillKnows, shared
  <2> QED BY <1>2, <1>6, <2>2, <2>3 DEF ReadLo, ReadHi, ExactInv
<1> QED BY <1>2, <1>3, <1>4, <1>5, <1>6 DEF ExactInv

LEMMA NextExact == ASSUME Inv, ExactInv, [Next]_vars PROVE ExactInv'
<1>1. CASE UNCHANGED vars
  BY <1>1 DEF vars, ExactInv, Complete, GateOpen, StillKnows
<1> QED BY <1>1, PublisherExact, ReaderExact DEF Next

\* DHCP, for the frames whose addresses the wrapper reads.
LEMMA DhcpExact ==
  ASSUME NEW f \in Frames
  PROVE  /\ Readable(f) /\ f.kind # "group" /\ ~LooksUp(f) => Dhcp(f)
         /\ LooksUp(f) => /\ Readable(f) /\ f.kind # "group"
                          /\ Dhcp(f) <=> f.dir = "out" /\ frame_is_dhcp(f)
<1>1. f \in AnyFrame /\ f.first <= f.tot
  BY WordAssumption
<1>2. f.dir = "in" /\ is_dhcp(f) => Dhcp(f)
  BY <1>1 DEF AnyFrame, is_dhcp, Dhcp
<1>3. f.dir = "out" /\ frame_is_dhcp(f) => Dhcp(f)
  BY <1>1 DEF AnyFrame, frame_is_dhcp, Dhcp
<1> QED BY <1>1, <1>2, <1>3, DhcpSeen DEF LooksUp

\* A lookup that no publication overlapped drops the frame exactly if its client is in
\* the set in force and it is neither DHCP nor unreadable: whatever the number of slots
\* and wherever in the table the client stands.
THEOREM ExactLookup == Spec => ExactWhenStill
<1>1. Inv /\ ExactInv /\ [Next]_vars
        => [r.pc # "idle" /\ r'.pc = "idle" /\ still
              => (r'.dropped <=> /\ r.mac \in current
                                 /\ Readable(r.frame) /\ r.frame.kind # "group"
                                 /\ ~Dhcp(r.frame))]_vars
  <2> SUFFICES ASSUME Inv, ExactInv, Next, r.pc # "idle", r'.pc = "idle", still
               PROVE  r'.dropped <=> /\ r.mac \in current
                                     /\ Readable(r.frame) /\ r.frame.kind # "group"
                                     /\ ~Dhcp(r.frame)
    OBVIOUS
  <2>1. r \in Readers /\ r.mac \in MACs /\ r.frame \in Frames
    BY DEF Inv, TypeOK, ExactInv, StillKnows
  <2>2. CASE CheckGen
    <3>1. /\ r.pc = "hit"
          /\ r'.dropped = (s_q_gen = r.gen /\ ~(r.frame.dir = "out" /\ frame_is_dhcp(r.frame)))
      BY <2>1, <2>2 DEF CheckGen, Leaves, Readers
    <3>2. s_q_gen = r.gen /\ r.mac \in current /\ LooksUp(r.frame)
      BY <3>1 DEF ExactInv, StillKnows, Inv, ReaderKnows
    <3> QED BY <2>1, <3>1, <3>2, DhcpExact
  <2>3. CASE Forward
    <3>1. r.pc = "out" /\ r'.dropped = FALSE
      BY <2>1, <2>3 DEF Forward, Leaves, Readers
    <3>2. r.mac \notin current \/ ~LooksUp(r.frame)
      BY <3>1 DEF ExactInv, StillKnows
    <3> QED BY <2>1, <3>1, <3>2, DhcpExact
  <2>4. ASSUME UNCHANGED r PROVE FALSE
    BY <2>4
  <2>5. ASSUME ReadGen \/ ReadLo \/ ReadHi PROVE FALSE
    BY <2>1, <2>5, ReadsOn
  <2> QED
    BY <2>2, <2>3, <2>4, <2>5 DEF Next, Publish, BeginRewrite, WriteLo, WriteHi,
       EndRewrite, CloseGate, Arrives
<1>2. Inv /\ ExactInv /\ [Next]_vars => ExactInv'
  BY NextExact
<1> QED BY InitInv, NextInv, InitExact, <1>1, <1>2, PTL DEF Spec, ExactWhenStill
=============================================================================
