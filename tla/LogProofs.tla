------------------------------ MODULE LogProofs ------------------------------
(***************************************************************************)
(* Proofs about the log ring (LogBuf), the sender that ships it (Syslog)   *)
(* and the page and the file that show it (LogPage), for any number of     *)
(* tasks, any fragments, any size of the ring and any configuration:       *)
(* stored lines are whole, a number reads its own line, the sender neither *)
(* repeats nor loses a line, and what the page and the file show adds up.  *)
(***************************************************************************)
EXTENDS Syslog, LogPage, FiniteSetTheorems, WellFoundedInduction, TLAPS
-----------------------------------------------------------------------------
(* Slots: numbers less than the size of the ring apart share none.         *)

LEMMA Quotient ==
  ASSUME NEW N \in Nat \ {0}, NEW a \in Int
  PROVE  a % N \in 0 .. N - 1 /\ a = N * (a \div N) + (a % N) /\ a \div N \in Int
OBVIOUS

LEMMA NoMultipleBetween ==
  ASSUME NEW N \in Nat \ {0}, NEW q \in Int, 0 <= N * q, N * q < N
  PROVE  q = 0
<1>1. CASE q >= 1
  <2>1. N * q >= N
    BY <1>1
  <2> QED BY <2>1
<1>2. CASE q <= -1
  <2>1. N * q <= -N
    BY <1>2
  <2> QED BY <2>1
<1> QED BY <1>1, <1>2

LEMMA OwnSlot ==
  ASSUME NEW N \in Nat \ {0}, NEW a \in Nat, NEW b \in Nat, a <= b, b - a < N, a % N = b % N
  PROVE  a = b
<1> DEFINE qa == a \div N
           qb == b \div N
<1>1. a = N * qa + (a % N) /\ b = N * qb + (b % N) /\ qa \in Int /\ qb \in Int /\ a % N \in Int
  BY Quotient
<1> HIDE DEF qa, qb
<1>2. b - a = N * (qb - qa)
  BY <1>1
<1>3. qb - qa = 0
  BY <1>1, <1>2, NoMultipleBetween
<1> QED BY <1>1, <1>3

\* A hook call adds three lines at most, so the last one for a slot exists.
LEMMA LastOf ==
  ASSUME NEW n \in 0 .. 3, NEW S \in SUBSET (1 .. n), S # {}
  PROVE  \E j \in S : \A l \in S : l <= j
<1>1. CASE 3 \in S
  BY <1>1
<1>2. CASE 3 \notin S /\ 2 \in S
  BY <1>2
<1>3. CASE 3 \notin S /\ 2 \notin S
  <2>1. \A l \in S : l = 1
    BY <1>3
  <2>2. 1 \in S
    BY <2>1
  <2> QED BY <2>1, <2>2
<1> QED BY <1>1, <1>2, <1>3
-----------------------------------------------------------------------------
(* Lines.                                                                  *)

\* A pending line is one task's, judged at one level, or empty.
Pure(p) ==
  \/ p.by = {} /\ p.levels = {}
  \/ p.by = {p.task} /\ p.levels = {p.level}

IsPending(p) ==
  /\ p = [task |-> p.task, level |-> p.level, letter |-> p.letter, by |-> p.by,
          levels |-> p.levels]
  /\ p.letter \in Letters \cup {"?"}
  /\ Pure(p)

WholeLines == [letter: Letters \cup {"?"}, whole: {TRUE}]

\* The inductive invariant of the ring.
LogInv ==
  /\ DOMAIN s_lines = 0 .. LOG_BUF_LINES - 1
  /\ s_total \in 0 .. MaxLines
  /\ IsPending(s_pending)
  /\ LinesWhole
  /\ RingIndexed

LEMMA CommittedWhole ==
  ASSUME NEW p, IsPending(p)
  PROVE  Committed(p) \in Seq(WholeLines) /\ Len(Committed(p)) <= 1
<1>1. CASE p.by = {}
  BY <1>1 DEF Committed
<1>2. CASE p.by # {}
  <2>1. Cardinality(p.by) = 1 /\ Cardinality(p.levels) = 1
    BY <1>2, FS_Singleton DEF IsPending, Pure
  <2>2. Committed(p) = <<[letter |-> p.letter, whole |-> TRUE]>>
    BY <1>2, <2>1 DEF Committed
  <2>3. [letter |-> p.letter, whole |-> TRUE] \in WholeLines
    BY DEF IsPending, WholeLines
  <2> QED BY <2>2, <2>3
<1> QED BY <1>1, <1>2

\* The line a fragment goes to belongs to the fragment's task.
LEMMA OpenedPure ==
  ASSUME IsPending(s_pending), NEW t, NEW f
  PROVE  IsPending(Opened(t, f)) /\ Opened(t, f).task = t
<1>1. CASE s_pending.by = {} \/ Interrupts(t, f)
  <2> DEFINE letter == IF f.letter \in Letters THEN f.letter ELSE "?"
             level == level_from_letter(f.letter)
  <2>1. Opened(t, f) = [task |-> t, level |-> level, letter |-> letter, by |-> {}, levels |-> {}]
    BY <1>1 DEF Opened
  <2>2. letter \in Letters \cup {"?"}
    OBVIOUS
  <2> HIDE DEF letter, level
  <2> QED BY <2>1, <2>2 DEF IsPending, Pure
<1>2. CASE s_pending.by # {} /\ ~Interrupts(t, f)
  BY <1>2 DEF Opened, Interrupts, IsPending, Pure
<1> QED BY <1>1, <1>2

\* What one hook call does: at most three lines, all of them whole.
LEMMA CaptureAdds ==
  ASSUME IsPending(s_pending), NEW t, NEW f, NEW cut \in BOOLEAN,
         f.newline \in {"no", "last", "inside"}, Capture(t, f, cut)
  PROVE  /\ IsPending(s_pending')
         /\ \E new \in Seq(WholeLines) :
              Len(new) <= 3 /\ s_total + Len(new) <= MaxLines /\ Store(new)
<1> DEFINE before == IF Interrupts(t, f) THEN Committed(s_pending) ELSE <<>>
           p == Opened(t, f)
           rest == [p EXCEPT !.letter = "?", !.by = {t}, !.levels = {p.level}]
           filled == IF cut THEN rest
                     ELSE IF f.text THEN [p EXCEPT !.by = @ \cup {t}, !.levels = @ \cup {p.level}]
                     ELSE p
           inside == IF cut THEN Committed(p) ELSE <<>>
           after == IF f.newline = "no" THEN <<>> ELSE Committed(filled)
           new == before \o inside \o after
<1>1. /\ s_total + Len(new) <= MaxLines /\ Store(new)
      /\ s_pending' = CASE f.newline = "no" -> filled
                        [] f.newline = "last" -> NoPending
                        [] f.newline = "inside" -> rest
  BY DEF Capture
<1>2. IsPending(p) /\ p.task = t
  BY OpenedPure
<1> HIDE DEF p
<1>3. IsPending(rest)
  <2>1. rest = [task |-> p.task, level |-> p.level, letter |-> "?", by |-> {t},
                levels |-> {p.level}]
    <3> DEFINE first == [p EXCEPT !.letter = "?"]
    <3>1. first = [task |-> p.task, level |-> p.level, letter |-> "?", by |-> p.by,
                   levels |-> p.levels]
      BY <1>2 DEF IsPending
    <3>2. rest = [first EXCEPT !.by = {t}, !.levels = {p.level}]
      OBVIOUS
    <3> HIDE DEF first, rest
    <3> QED BY <3>1, <3>2
  <2> HIDE DEF rest
  <2> QED BY <1>2, <2>1 DEF IsPending, Pure
<1>4. IsPending(filled)
  <2>1. ASSUME ~cut, f.text PROVE IsPending(filled)
    <3>1. filled = [task |-> p.task, level |-> p.level, letter |-> p.letter, by |-> p.by \cup {t},
                    levels |-> p.levels \cup {p.level}]
      BY <1>2, <2>1 DEF IsPending
    <3>2. p.by \cup {t} = {t} /\ p.levels \cup {p.level} = {p.level}
      BY <1>2 DEF IsPending, Pure
    <3>3. p.letter \in Letters \cup {"?"}
      BY <1>2 DEF IsPending
    <3> HIDE DEF filled
    <3> QED BY <1>2, <3>1, <3>2, <3>3 DEF IsPending, Pure
  <2>2. ASSUME cut PROVE IsPending(filled)
    BY <1>3, <2>2
  <2>3. ASSUME ~cut, ~f.text PROVE IsPending(filled)
    BY <1>2, <2>3
  <2> QED BY <2>1, <2>2, <2>3
<1> HIDE DEF rest, filled
<1>5. /\ before \in Seq(WholeLines) /\ Len(before) <= 1
      /\ inside \in Seq(WholeLines) /\ Len(inside) <= 1
      /\ after \in Seq(WholeLines) /\ Len(after) <= 1
  <2>1. /\ Committed(s_pending) \in Seq(WholeLines) /\ Len(Committed(s_pending)) <= 1
        /\ Committed(p) \in Seq(WholeLines) /\ Len(Committed(p)) <= 1
        /\ Committed(filled) \in Seq(WholeLines) /\ Len(Committed(filled)) <= 1
    BY <1>2, <1>4, CommittedWhole
  <2> QED BY <2>1
<1> HIDE DEF before, inside, after
<1>6. new \in Seq(WholeLines) /\ Len(new) <= 3
  BY <1>5
<1>7. IsPending(NoPending)
  BY DEF IsPending, Pure, NoPending
<1>8. s_pending' \in {filled, NoPending, rest}
  BY <1>1
<1>9. IsPending(s_pending')
  BY <1>3, <1>4, <1>7, <1>8
<1> HIDE DEF new
<1> QED BY <1>1, <1>6, <1>9

\* What a slot holds after lines were stored: the last of them that goes there,
\* or what it held.
LEMMA StoreSlot ==
  ASSUME DOMAIN s_lines = 0 .. LOG_BUF_LINES - 1, s_total \in Nat,
         NEW new \in Seq(WholeLines), Len(new) <= 3, Store(new),
         NEW i \in 0 .. LOG_BUF_LINES - 1
  PROVE  \/ /\ s_lines'[i] = s_lines[i]
            /\ \A k \in 1 .. Len(new) : (s_total + k - 1) % LOG_BUF_LINES # i
         \/ \E k \in 1 .. Len(new) :
              /\ (s_total + k - 1) % LOG_BUF_LINES = i
              /\ \A l \in 1 .. Len(new) : l > k => (s_total + l - 1) % LOG_BUF_LINES # i
              /\ s_lines'[i] = Numbered(new[k], s_total + k)
<1> DEFINE S == {k \in 1 .. Len(new) : (s_total + k - 1) % LOG_BUF_LINES = i}
           IsLast(j) == /\ (s_total + j - 1) % LOG_BUF_LINES = i
                        /\ \A l \in DOMAIN new : l > j => (s_total + l - 1) % LOG_BUF_LINES # i
           last == CHOOSE j \in DOMAIN new : IsLast(j)
<1>1. DOMAIN new = 1 .. Len(new) /\ Len(new) \in 0 .. 3
  <2>1. DOMAIN new = 1 .. Len(new) /\ Len(new) \in Nat
    OBVIOUS
  <2> QED BY <2>1
<1>2. s_lines'[i] = IF \E k \in DOMAIN new : (s_total + k - 1) % LOG_BUF_LINES = i
                      THEN Numbered(new[last], s_total + last) ELSE s_lines[i]
  BY DEF Store
<1>3. CASE S = {}
  BY <1>1, <1>2, <1>3
<1>4. CASE S # {}
  <2>1. PICK j \in S : \A l \in S : l <= j
    BY <1>1, <1>4, LastOf
  <2>2. j \in DOMAIN new /\ IsLast(j)
    BY <1>1, <2>1
  <2> HIDE DEF IsLast
  <2>3. last \in DOMAIN new /\ IsLast(last)
    BY <2>2
  <2> HIDE DEF last
  <2>4. s_lines'[i] = Numbered(new[last], s_total + last)
    BY <1>1, <1>2, <2>1
  <2> QED BY <1>1, <2>3, <2>4 DEF IsLast
<1> QED BY <1>3, <1>4

\* Storing lines keeps the ring in order.
LEMMA StoreKeeps ==
  ASSUME LogInv, NEW new \in Seq(WholeLines), Len(new) <= 3,
         s_total + Len(new) <= MaxLines, Store(new)
  PROVE  /\ DOMAIN s_lines' = 0 .. LOG_BUF_LINES - 1
         /\ s_total' \in 0 .. MaxLines /\ s_total <= s_total'
         /\ LinesWhole' /\ RingIndexed'
<1> DEFINE N == LOG_BUF_LINES
<1>1. /\ DOMAIN s_lines = 0 .. N - 1 /\ s_total \in Nat /\ N \in Nat \ {0} /\ MaxLines \in Nat
      /\ Len(new) \in Nat /\ \A k \in 1 .. Len(new) : new[k] \in WholeLines
      /\ \A i \in 0 .. N - 1 : s_lines[i].whole
  BY LogAssumption DEF LogInv, LinesWhole
<1>2. DOMAIN s_lines' = 0 .. N - 1 /\ s_total' = s_total + Len(new)
  BY <1>1 DEF Store
<1>3. LinesWhole'
  <2> SUFFICES ASSUME NEW i \in 0 .. N - 1 PROVE s_lines'[i].whole
    BY <1>2 DEF LinesWhole
  <2>1. \/ s_lines'[i] = s_lines[i]
        \/ \E k \in 1 .. Len(new) : s_lines'[i] = Numbered(new[k], s_total + k)
    BY <1>1, StoreSlot
  <2>2. ASSUME NEW k \in 1 .. Len(new), s_lines'[i] = Numbered(new[k], s_total + k)
        PROVE  s_lines'[i].whole
    <3>1. new[k].whole = TRUE
      BY <1>1 DEF WholeLines
    <3>2. s_lines'[i].whole = TRUE
      BY <2>2, <3>1 DEF Numbered
    <3> QED BY <3>2
  <2> QED BY <1>1, <2>1, <2>2
<1>4. RingIndexed'
  <2> SUFFICES ASSUME NEW seq \in 1 .. MaxLines, Held(seq)' PROVE LineAt(seq)'.id = seq
    BY DEF RingIndexed
  <2> DEFINE i == (seq - 1) % N
  <2>1. seq <= s_total' /\ s_total' - seq < N /\ LineAt(seq)' = s_lines'[i] /\ seq - 1 \in Nat
    BY DEF Held, LineAt
  <2>2. i \in 0 .. N - 1
    <3>1. seq - 1 \in Int /\ N \in Nat \ {0}
      BY <1>1
    <3> HIDE DEF N
    <3>2. /\ (seq - 1) % N \in 0 .. N - 1
          /\ seq - 1 = N * ((seq - 1) \div N) + ((seq - 1) % N) /\ (seq - 1) \div N \in Int
      BY <3>1, Quotient
    <3> QED BY <3>2
  <2> HIDE DEF i
  <2>3. CASE /\ s_lines'[i] = s_lines[i]
             /\ \A k \in 1 .. Len(new) : (s_total + k - 1) % N # i
    <3>1. seq <= s_total
      <4> SUFFICES ASSUME seq > s_total PROVE FALSE
        BY <1>1
      <4>1. seq - s_total \in 1 .. Len(new) /\ s_total + (seq - s_total) - 1 = seq - 1
        BY <1>1, <1>2, <2>1
      <4> QED BY <2>3, <4>1 DEF i
    <3>2. Held(seq)
      BY <1>1, <1>2, <2>1, <3>1 DEF Held
    <3> QED BY <2>1, <2>3, <3>2 DEF LogInv, RingIndexed, LineAt, i
  <2>4. ASSUME NEW k \in 1 .. Len(new), (s_total + k - 1) % N = i,
               \A l \in 1 .. Len(new) : l > k => (s_total + l - 1) % N # i,
               s_lines'[i] = Numbered(new[k], s_total + k)
        PROVE  LineAt(seq)'.id = seq
    <3>1. CASE seq <= s_total + k
      <4>1. /\ s_total + k - 1 \in Nat /\ seq - 1 <= s_total + k - 1
            /\ s_total + k - 1 - (seq - 1) < N
        BY <1>1, <1>2, <2>1, <3>1
      <4>2. seq - 1 = s_total + k - 1
        <5> DEFINE a == seq - 1
                   b == s_total + k - 1
        <5>1. a \in Nat /\ b \in Nat /\ a <= b /\ b - a < N /\ a % N = b % N
          BY <1>1, <2>1, <2>4, <4>1 DEF i
        <5> HIDE DEF a, b
        <5>2. a = b
          BY <1>1, <5>1, OwnSlot
        <5> QED BY <5>2 DEF a, b
      <4>3. s_lines'[i].id = s_total + k
        BY <2>4 DEF Numbered
      <4> QED BY <1>1, <2>1, <4>2, <4>3
    <3>2. CASE seq > s_total + k
      <4>1. seq - s_total \in 1 .. Len(new) /\ seq - s_total > k
            /\ s_total + (seq - s_total) - 1 = seq - 1
        BY <1>1, <1>2, <2>1, <3>2
      <4> QED BY <2>4, <4>1 DEF i
    <3> QED BY <1>1, <3>1, <3>2
  <2> QED BY <1>1, <2>2, <2>3, <2>4, StoreSlot
<1> QED BY <1>1, <1>2, <1>3, <1>4

\* A hook call keeps the ring's invariant, and the count of lines never falls.
LEMMA CaptureKeeps ==
  ASSUME LogInv, NEW t, NEW f, NEW cut \in BOOLEAN,
         f.newline \in {"no", "last", "inside"}, Capture(t, f, cut)
  PROVE  LogInv' /\ s_total <= s_total'
<1>1. IsPending(s_pending)
  BY DEF LogInv
<1>2. IsPending(s_pending')
  BY <1>1, CaptureAdds
<1>3. PICK new \in Seq(WholeLines) :
        Len(new) <= 3 /\ s_total + Len(new) <= MaxLines /\ Store(new)
  BY <1>1, CaptureAdds
<1>4. /\ DOMAIN s_lines' = 0 .. LOG_BUF_LINES - 1
      /\ s_total' \in 0 .. MaxLines /\ s_total <= s_total'
      /\ LinesWhole' /\ RingIndexed'
  BY <1>3, StoreKeeps
<1>5. IsPending(s_pending)'
  BY <1>2 DEF IsPending, Pure
<1> QED BY <1>4, <1>5 DEF LogInv

LEMMA LogInitInv == LogInit => LogInv
<1> SUFFICES ASSUME LogInit PROVE LogInv
  OBVIOUS
<1>1. /\ s_lines = [i \in 0 .. LOG_BUF_LINES - 1 |-> NoLine] /\ s_total = 0
      /\ s_pending = NoPending
  BY DEF LogInit
<1>2. DOMAIN s_lines = 0 .. LOG_BUF_LINES - 1 /\ s_total \in 0 .. MaxLines /\ LinesWhole
  BY <1>1, LogAssumption DEF LinesWhole, NoLine
<1>3. IsPending(s_pending)
  BY <1>1 DEF IsPending, Pure, NoPending
<1>4. RingIndexed
  BY <1>1 DEF RingIndexed, Held
<1> QED BY <1>2, <1>3, <1>4 DEF LogInv

LEMMA LogStep == LogInv /\ [LogNext]_logVars => LogInv'
<1> SUFFICES ASSUME LogInv, [LogNext]_logVars PROVE LogInv'
  OBVIOUS
<1>1. CASE UNCHANGED <<s_lines, s_total, s_pending>>
  BY <1>1 DEF LogInv, IsPending, Pure, LinesWhole, RingIndexed, Held, LineAt
<1>2. ASSUME NEW t \in Tasks, NEW cut \in BOOLEAN, NEW f \in Fragments[t], Capture(t, f, cut)
      PROVE  LogInv'
  <2>1. f.newline \in {"no", "last", "inside"}
    BY LogAssumption
  <2> QED BY <1>2, <2>1, CaptureKeeps
<1> QED BY <1>1, <1>2 DEF LogNext, CaptureMissed, logVars

\* Whoever interrupts whom and however long a line gets, what commit_pending()
\* stores is one task's and was judged at one level.
THEOREM LinesStayWhole == LogSpec => []LinesWhole
<1>1. LogInv => LinesWhole
  BY DEF LogInv
<1> QED BY <1>1, LogInitInv, LogStep, PTL DEF LogSpec

\* log_buf_get_line() answers with the line of the number it was asked for, or
\* with none, however often the ring has wrapped and although one call of
\* capture() may store up to three lines.
THEOREM NumbersHold == LogSpec => []RingIndexed
<1>1. LogInv => RingIndexed
  BY DEF LogInv
<1> QED BY <1>1, LogInitInv, LogStep, PTL DEF LogSpec
-----------------------------------------------------------------------------
(* The sender.                                                             *)

Stages == {"wait", "reload", "generation", "bind", "store", "test", "pass", "line", "settle"}
Senders == [pc: Stages, first: BOOLEAN, was_enabled: BOOLEAN, result: BOOLEAN, seq: Nat,
            newest: Nat, budget: Int]
Settings == [enabled: BOOLEAN, server_ip: Nat, min_severity: 0 .. 7]

\* What the sender's own variables hold.
SenderTyped ==
  /\ sender \in Senders
  /\ s_cfg \in Settings /\ s_cache \in Settings
  /\ s_cursor \in Nat /\ s_cursor <= s_total
  /\ fate \in [Numbers -> {"none", "sent", "passed"}]

\* Up to the cursor every line is settled; beyond it none is sent, and one that
\* is passed over has left the ring for good.
Behind == \A q \in Numbers : q <= s_cursor => fate[q] # "none"
Ahead == \A q \in Numbers : q > s_cursor => fate[q] = "none" \/ (fate[q] = "passed" /\ q < Oldest)

\* In a pass, whatever lies between the cursor and the line at hand is passed over.
Between ==
  sender.pc = "line" =>
    /\ s_cursor < sender.seq /\ sender.newest <= s_total
    /\ \A q \in Numbers : s_cursor < q /\ q < sender.seq => fate[q] = "passed"

\* The inductive invariant of the sender, next to the ring's.
ShipInv == LogInv /\ SenderTyped /\ Behind /\ Ahead /\ Between

LEMMA AtTyped ==
  ASSUME NEW pc \in Stages
  PROVE  At(pc) \in Senders /\ At(pc).pc = pc
BY DEF At, Senders

\* The ring moves on and never back.
LEMMA OldestGrows ==
  ASSUME s_total \in Nat, s_total' \in Nat, s_total <= s_total'
  PROVE  Oldest \in Nat /\ Oldest' \in Nat /\ Oldest <= Oldest'
<1>1. LOG_BUF_LINES \in Nat
  BY LogAssumption
<1>2. /\ s_total > LOG_BUF_LINES => Oldest = s_total - LOG_BUF_LINES + 1
      /\ ~(s_total > LOG_BUF_LINES) => Oldest = 1
      /\ s_total' > LOG_BUF_LINES => Oldest' = s_total' - LOG_BUF_LINES + 1
      /\ ~(s_total' > LOG_BUF_LINES) => Oldest' = 1
  BY DEF Oldest
<1> QED BY <1>1, <1>2

\* The ring as it is when no line is stored.
LEMMA LogStill ==
  ASSUME LogInv, UNCHANGED logVars
  PROVE  LogInv' /\ s_total' = s_total /\ s_total <= s_total'
<1>1. s_total \in Nat
  BY LogAssumption DEF LogInv
<1> QED BY <1>1 DEF logVars, LogInv, IsPending, Pure, LinesWhole, RingIndexed, Held, LineAt

\* A step that touches neither the cursor nor what became of the lines, and
\* leaves the pass alone or is outside of one.
LEMMA AsideStep ==
  ASSUME ShipInv, LogInv', s_total <= s_total', UNCHANGED <<s_cursor, fate>>,
         sender' \in Senders, s_cfg' \in Settings, s_cache' \in Settings,
         UNCHANGED sender \/ sender'.pc # "line"
  PROVE  ShipInv'
<1>1. s_total \in Nat /\ s_total' \in Nat /\ s_cursor \in Nat /\ Numbers \subseteq Nat
  BY LogAssumption DEF ShipInv, LogInv, SenderTyped, Numbers
<1>2. Oldest \in Nat /\ Oldest' \in Nat /\ Oldest <= Oldest'
  BY <1>1, OldestGrows
<1>3. SenderTyped'
  BY <1>1 DEF ShipInv, SenderTyped
<1>4. Behind' /\ Ahead'
  <2> HIDE DEF Oldest
  <2> QED BY <1>1, <1>2 DEF ShipInv, Behind, Ahead
<1>5. Between'
  <2>1. CASE sender'.pc # "line"
    BY <2>1 DEF Between
  <2>2. CASE UNCHANGED sender
    <3>1. sender.newest \in Nat
      BY DEF ShipInv, SenderTyped, Senders
    <3> QED BY <1>1, <2>2, <3>1 DEF ShipInv, Between
  <2> QED BY <2>1, <2>2
<1> QED BY <1>3, <1>4, <1>5 DEF ShipInv

\* Switching on: the replay starts with nothing settled.
LEMMA FreshStep ==
  ASSUME ShipInv, UNCHANGED logVars, NEW was_enabled \in BOOLEAN, FreshStart(was_enabled),
         sender' \in Senders, sender'.pc # "line", s_cfg' \in Settings, s_cache' \in Settings
  PROVE  ShipInv'
<1>1. LogInv' /\ s_total' = s_total /\ s_total <= s_total'
  BY LogStill DEF ShipInv
<1>2. CASE was_enabled
  <2>1. UNCHANGED <<s_cursor, fate>>
    BY <1>2 DEF FreshStart
  <2> QED BY <1>1, <2>1, AsideStep
<1>3. CASE ~was_enabled
  <2>1. s_cursor' = 0 /\ fate' = [q \in Numbers |-> "none"]
    BY <1>3 DEF FreshStart, NoFate
  <2>2. s_total' \in Nat /\ Numbers \subseteq Nat \ {0}
    BY <1>1, LogAssumption DEF LogInv, Numbers
  <2>3. SenderTyped'
    BY <2>1, <2>2 DEF SenderTyped
  <2>4. Behind' /\ Ahead' /\ Between'
    BY <2>1, <2>2 DEF Behind, Ahead, Between
  <2> QED BY <1>1, <2>3, <2>4 DEF ShipInv
<1> QED BY <1>2, <1>3

\* A pass begins: what has left the ring is passed over.
LEMMA PassBeginsStep ==
  ASSUME ShipInv, PassBegins
  PROVE  ShipInv'
<1> DEFINE next == IF s_cursor + 1 < Oldest THEN Oldest ELSE s_cursor + 1
<1>1. /\ sender' = [At("line") EXCEPT !.seq = next, !.newest = s_total,
                                      !.budget = SYSLOG_BURST_MAX]
      /\ fate' = [q \in Numbers |-> IF q \in s_cursor + 1 .. next - 1 THEN "passed" ELSE fate[q]]
      /\ s_cursor' = s_cursor /\ UNCHANGED logVars /\ UNCHANGED <<s_cfg, s_cache>>
  BY DEF PassBegins, Newest, config, mine
<1>2. LogInv' /\ s_total' = s_total
  BY <1>1, LogStill DEF ShipInv
<1>3. s_total \in Nat /\ s_cursor \in Nat /\ Numbers \subseteq Nat /\ SYSLOG_BURST_MAX \in Int
  BY LogAssumption, SyslogAssumption DEF ShipInv, LogInv, SenderTyped, Numbers
<1>4. Oldest \in Nat /\ Oldest' = Oldest
  BY <1>2, <1>3, LogAssumption DEF Oldest
<1>5. next \in Nat /\ next > s_cursor /\ (next > s_cursor + 1 => next = Oldest)
  BY <1>3, <1>4
<1> HIDE DEF next
<1>6. /\ sender' = [pc |-> "line", first |-> FALSE, was_enabled |-> FALSE, result |-> FALSE,
                    seq |-> next, newest |-> s_total, budget |-> SYSLOG_BURST_MAX]
  BY <1>1 DEF At
<1>7. sender' \in Senders /\ sender'.seq = next /\ sender'.newest = s_total
  BY <1>3, <1>5, <1>6 DEF Senders, Stages
<1>8. SenderTyped'
  <2>1. fate' \in [Numbers -> {"none", "sent", "passed"}]
    BY <1>1 DEF ShipInv, SenderTyped
  <2> QED BY <1>1, <1>2, <1>7, <2>1 DEF ShipInv, SenderTyped
<1>9. ASSUME NEW q \in Numbers
      PROVE  /\ q <= s_cursor \/ q >= next => fate'[q] = fate[q]
             /\ s_cursor < q /\ q < next => fate'[q] = "passed" /\ q < Oldest
  <2>1. q \in Nat
    BY <1>3
  <2> QED BY <1>1, <1>3, <1>4, <1>5, <2>1
<1>10. Behind'
  BY <1>1, <1>3, <1>9 DEF ShipInv, Behind
<1>11. Ahead'
  <2> SUFFICES ASSUME NEW q \in Numbers, q > s_cursor
               PROVE  fate'[q] = "none" \/ (fate'[q] = "passed" /\ q < Oldest)
    BY <1>1, <1>4 DEF Ahead
  <2>1. q < next \/ q >= next
    BY <1>3, <1>5
  <2> QED BY <1>3, <1>9, <2>1 DEF ShipInv, Ahead
<1>12. Between'
  BY <1>1, <1>2, <1>3, <1>5, <1>7, <1>9 DEF Between
<1> QED BY <1>2, <1>8, <1>10, <1>11, <1>12 DEF ShipInv

\* Done with the line at hand, whatever became of it.
LEMMA PastStep ==
  ASSUME ShipInv, InBurst, NEW to \in {"sent", "passed"}, NEW cost \in Int, Past(to, cost),
         UNCHANGED logVars, UNCHANGED <<s_cfg, s_cache>>
  PROVE  ShipInv'
<1> DEFINE seq == sender.seq
<1>1. LogInv' /\ s_total' = s_total
  BY LogStill DEF ShipInv
<1>2. /\ sender \in Senders /\ seq \in Nat /\ sender.newest \in Nat /\ sender.budget \in Int
      /\ s_cursor \in Nat /\ s_total \in Nat /\ s_total <= MaxLines /\ MaxLines \in Nat
  BY LogAssumption DEF ShipInv, LogInv, SenderTyped, Senders
<1>3. s_cursor < seq /\ seq <= sender.newest /\ sender.newest <= s_total /\ sender.pc = "line"
  BY DEF ShipInv, Between, InBurst
<1>4. seq \in Numbers
  BY <1>2, <1>3 DEF Numbers
<1>5. /\ s_cursor' = seq /\ fate' = [fate EXCEPT ![seq] = to]
      /\ sender' = [sender EXCEPT !.seq = seq + 1, !.budget = sender.budget - cost]
  BY DEF Past
<1>6. Oldest' = Oldest
  BY <1>1 DEF Oldest
<1>7. sender' \in Senders /\ sender'.seq = seq + 1 /\ sender'.newest = sender.newest
  <2> DEFINE next == seq + 1
             left == sender.budget - cost
  <2>1. next \in Nat /\ left \in Int /\ sender' = [sender EXCEPT !.seq = next, !.budget = left]
    BY <1>2, <1>5
  <2> HIDE DEF next, left
  <2>2. sender' \in Senders /\ sender'.seq = next /\ sender'.newest = sender.newest
    BY <1>2, <2>1 DEF Senders
  <2> QED BY <2>2 DEF next
<1> HIDE DEF seq
<1>8. fate' \in [Numbers -> {"none", "sent", "passed"}] /\ fate'[seq] = to
      /\ \A q \in Numbers \ {seq} : fate'[q] = fate[q]
  BY <1>4, <1>5 DEF ShipInv, SenderTyped
<1>9. SenderTyped'
  BY <1>1, <1>2, <1>3, <1>5, <1>7, <1>8 DEF ShipInv, SenderTyped
<1>10. Numbers \subseteq Nat
  BY DEF Numbers
<1>11. Behind'
  <2> SUFFICES ASSUME NEW q \in Numbers, q <= seq PROVE fate'[q] # "none"
    BY <1>5 DEF Behind
  <2>1. CASE q = seq
    BY <1>8, <2>1
  <2>2. CASE q # seq
    <3>1. q \in Nat /\ q < seq /\ fate'[q] = fate[q]
      BY <1>2, <1>8, <1>10, <2>2 DEF seq
    <3>2. q <= s_cursor \/ fate[q] = "passed"
      BY <1>2, <1>3, <3>1 DEF ShipInv, Between, seq
    <3> QED BY <3>1, <3>2 DEF ShipInv, Behind
  <2> QED BY <2>1, <2>2
<1>12. Ahead'
  <2> SUFFICES ASSUME NEW q \in Numbers, q > seq
               PROVE  fate'[q] = "none" \/ (fate'[q] = "passed" /\ q < Oldest)
    BY <1>5, <1>6 DEF Ahead
  <2>1. q > s_cursor /\ q # seq
    BY <1>2, <1>3, <1>10 DEF seq
  <2> QED BY <1>8, <2>1 DEF ShipInv, Ahead
<1>13. Between'
  <2>1. \A q \in Numbers : ~(seq < q /\ q < seq + 1)
    BY <1>2, <1>10 DEF seq
  <2> QED BY <1>1, <1>2, <1>3, <1>5, <1>7, <2>1 DEF Between, seq
<1> QED BY <1>1, <1>9, <1>11, <1>12, <1>13 DEF ShipInv

\* A line that is sent had not been dealt with: it is ahead of the cursor, and in the ring.
LEMMA SentIsNew ==
  ASSUME ShipInv, InBurst, Sendable
  PROVE  fate[sender.seq] = "none"
<1>1. /\ sender.seq \in Nat /\ sender.newest \in Nat /\ s_cursor \in Nat /\ s_total \in Nat
      /\ s_total <= MaxLines /\ MaxLines \in Nat /\ LOG_BUF_LINES \in Nat
  BY LogAssumption DEF ShipInv, LogInv, SenderTyped, Senders
<1>2. s_cursor < sender.seq /\ sender.seq <= s_total /\ s_total - sender.seq < LOG_BUF_LINES
  BY DEF ShipInv, Between, InBurst, Sendable, Held
<1>3. sender.seq \in Numbers
  BY <1>1, <1>2 DEF Numbers
<1>4. ~(sender.seq < Oldest)
  <2>1. /\ s_total > LOG_BUF_LINES => Oldest = s_total - LOG_BUF_LINES + 1
        /\ ~(s_total > LOG_BUF_LINES) => Oldest = 1
    BY DEF Oldest
  <2> QED BY <1>1, <1>2, <2>1
<1> QED BY <1>2, <1>3, <1>4 DEF ShipInv, Ahead

LEMMA InitShips == Init => ShipInv
<1> SUFFICES ASSUME Init PROVE ShipInv
  OBVIOUS
<1>1. LogInv
  BY LogInitInv DEF Init
<1>2. /\ s_cursor = 0 /\ fate = [q \in Numbers |-> "none"] /\ s_cache \in Configs
      /\ s_cfg = [enabled |-> FALSE, server_ip |-> 0, min_severity |-> 0]
      /\ sender = [At("reload") EXCEPT !.first = TRUE]
  BY DEF Init, NoFate
<1>3. sender \in Senders /\ sender.pc = "reload"
  <2>1. At("reload") \in Senders /\ At("reload").pc = "reload"
    BY AtTyped DEF Stages
  <2> QED BY <1>2, <2>1 DEF Senders
<1>4. SenderTyped
  <2>1. s_total \in Nat /\ s_cfg \in Settings /\ s_cache \in Settings
    BY <1>1, <1>2, LogAssumption, SyslogAssumption DEF LogInv, Settings
  <2> QED BY <1>2, <1>3, <2>1 DEF SenderTyped
<1>5. Behind /\ Ahead /\ Between
  BY <1>2, <1>3 DEF Behind, Ahead, Between, Numbers
<1> QED BY <1>1, <1>4, <1>5 DEF ShipInv

\* The tasks around the sender.
LEMMA OtherTasks ==
  ASSUME ShipInv,
         \/ \E t \in Tasks, cut \in BOOLEAN : \E f \in Fragments[t] : Logs(t, f, cut)
         \/ \E new \in Configs : Save(new)
         \/ BridgeFlips \/ EventStep
  PROVE  ShipInv'
<1>0. LogInv /\ sender \in Senders /\ s_cfg \in Settings /\ s_cache \in Settings
  BY DEF ShipInv, SenderTyped
<1>1. ASSUME NEW t \in Tasks, NEW cut \in BOOLEAN, NEW f \in Fragments[t], Logs(t, f, cut)
      PROVE  ShipInv'
  <2>1. f.newline \in {"no", "last", "inside"}
    BY LogAssumption
  <2>2. LogInv' /\ s_total <= s_total'
    BY <1>0, <1>1, <2>1, CaptureKeeps DEF Logs
  <2>3. UNCHANGED <<s_cursor, fate, s_cfg, s_cache, sender>>
    BY <1>1 DEF Logs, config, mine, drain
  <2> QED BY <1>0, <2>2, <2>3, AsideStep
<1>2. ASSUME NEW new \in Configs, Save(new) PROVE ShipInv'
  <2>1. LogInv' /\ s_total <= s_total'
    BY <1>0, <1>2, LogStill DEF Save
  <2>2. UNCHANGED <<s_cursor, fate, s_cfg, sender>> /\ s_cache' = new
    BY <1>2 DEF Save, drain
  <2>3. new \in Settings
    BY SyslogAssumption DEF Settings
  <2> QED BY <1>0, <2>1, <2>2, <2>3, AsideStep
<1>3. CASE BridgeFlips \/ EventStep
  <2>1. LogInv' /\ s_total <= s_total'
    BY <1>0, <1>3, LogStill DEF BridgeFlips, EventStep, EventBinds, EventStores
  <2>2. UNCHANGED <<s_cursor, fate, s_cfg, s_cache, sender>>
    BY <1>3 DEF BridgeFlips, EventStep, EventBinds, EventStores, config, mine, drain
  <2> QED BY <1>0, <2>1, <2>2, AsideStep
<1> QED BY <1>1, <1>2, <1>3

\* The sender's reload_config().
LEMMA ReloadStep ==
  ASSUME ShipInv, Reload
  PROVE  ShipInv'
<1>0. LogInv /\ sender \in Senders /\ s_cfg \in Settings /\ s_cache \in Settings
      /\ s_cfg.enabled \in BOOLEAN /\ sender.was_enabled \in BOOLEAN
  BY DEF ShipInv, SenderTyped, Settings, Senders
<1>1. Reloaded \in Senders /\ Reloaded.pc # "line"
  <2>1. PICK pc \in {"wait", "test"} : Reloaded = At(pc)
    BY DEF Reloaded
  <2>2. At(pc) \in Senders /\ At(pc).pc = pc
    BY AtTyped DEF Stages
  <2> QED BY <2>1, <2>2
<1>2. CASE ReadsConfig
  <2>1. LogInv' /\ s_total <= s_total'
    BY <1>0, <1>2, LogStill DEF ReadsConfig
  <2>2. UNCHANGED <<s_cursor, fate, s_cache>> /\ s_cfg' = s_cache
    BY <1>2 DEF ReadsConfig, config, drain
  <2>3. sender' \in Senders /\ sender'.pc # "line"
    <3> DEFINE on == s_cfg.enabled
    <3>1. on \in BOOLEAN /\ sender' = [sender EXCEPT !.pc = "generation", !.was_enabled = on]
      BY <1>0, <1>2 DEF ReadsConfig
    <3> HIDE DEF on
    <3> QED BY <1>0, <3>1 DEF Senders, Stages
  <2> QED BY <1>0, <2>1, <2>2, <2>3, AsideStep
<1>3. CASE ReadsGeneration
  <2>1. LogInv' /\ s_total <= s_total'
    BY <1>0, <1>3, LogStill DEF ReadsGeneration
  <2>2. UNCHANGED <<s_cfg, s_cache>> /\ UNCHANGED logVars
    BY <1>3 DEF ReadsGeneration, config
  <2>3. CASE OpensSocket
    <3>1. sender' = [sender EXCEPT !.pc = "bind"] /\ UNCHANGED <<s_cursor, fate>>
      BY <2>3 DEF OpensSocket
    <3>2. sender' \in Senders /\ sender'.pc # "line"
      BY <1>0, <3>1 DEF Senders, Stages
    <3> QED BY <1>0, <2>1, <2>2, <3>1, <3>2, AsideStep
  <2>4. CASE KeepsSocket
    <3>1. sender' = Reloaded /\ FreshStart(sender.was_enabled)
      BY <2>4 DEF KeepsSocket
    <3> QED BY <1>0, <1>1, <2>2, <3>1, FreshStep
  <2>5. CASE ClosesSocket
    <3>1. sender' = Reloaded /\ UNCHANGED <<s_cursor, fate>>
      BY <2>5 DEF ClosesSocket
    <3> QED BY <1>0, <1>1, <2>1, <2>2, <3>1, AsideStep
  <2> QED BY <1>3, <2>3, <2>4, <2>5 DEF ReadsGeneration
<1>4. CASE Binds
  <2>1. LogInv' /\ s_total <= s_total'
    BY <1>0, <1>4, LogStill DEF Binds
  <2>2. UNCHANGED <<s_cursor, fate, s_cfg, s_cache>>
    BY <1>4 DEF Binds, config, mine, drain
  <2>3. sender' \in Senders /\ sender'.pc # "line"
    <3>1. PICK result \in BOOLEAN : sender' = [sender EXCEPT !.pc = "store", !.result = result]
      BY <1>4 DEF Binds, BindResults
    <3> QED BY <1>0, <3>1 DEF Senders, Stages
  <2> QED BY <1>0, <2>1, <2>2, <2>3, AsideStep
<1>5. CASE StoresBound
  <2>1. UNCHANGED <<s_cfg, s_cache>> /\ UNCHANGED logVars
    BY <1>5 DEF StoresBound, config, mine
  <2>2. sender' = Reloaded /\ FreshStart(sender.was_enabled)
    BY <1>5 DEF StoresBound
  <2> QED BY <1>0, <1>1, <2>1, <2>2, FreshStep
<1> QED BY <1>2, <1>3, <1>4, <1>5 DEF Reload

\* Its drain_pass().
LEMMA DrainStep ==
  ASSUME ShipInv, Drain
  PROVE  ShipInv'
<1>0. LogInv /\ sender \in Senders /\ s_cfg \in Settings /\ s_cache \in Settings
  BY DEF ShipInv, SenderTyped
<1>1. ASSUME UNCHANGED logVars, UNCHANGED <<s_cursor, fate, s_cfg, s_cache>>,
             NEW pc \in Stages \ {"line"}, sender' = At(pc)
      PROVE  ShipInv'
  <2>1. At(pc) \in Senders /\ At(pc).pc = pc
    BY AtTyped
  <2>2. LogInv' /\ s_total <= s_total'
    BY <1>0, <1>1, LogStill
  <2> QED BY <1>0, <1>1, <2>1, <2>2, AsideStep
<1>2. CASE Tests
  <2>1. UNCHANGED logVars /\ UNCHANGED <<s_cursor, fate, s_cfg, s_cache>>
    BY <1>2 DEF Tests, config, mine, drain
  <2>2. \E pc \in Stages \ {"line"} : sender' = At(pc)
    BY <1>2 DEF Tests, Stages
  <2> QED BY <1>1, <2>1, <2>2
<1>3. CASE PassBegins
  BY <1>3, PassBeginsStep
<1>4. CASE SkipsLine
  <2>1. UNCHANGED logVars /\ UNCHANGED <<s_cfg, s_cache>> /\ InBurst /\ Past("passed", 0)
    BY <1>4 DEF SkipsLine, config, mine
  <2> QED BY <2>1, PastStep
<1>5. CASE SendsLine
  <2>1. UNCHANGED logVars /\ UNCHANGED <<s_cfg, s_cache>> /\ InBurst /\ Sendable
    BY <1>5 DEF SendsLine, config, mine
  <2>2. fate[sender.seq] = "none"
    BY <2>1, SentIsNew
  <2>3. Past("sent", 1)
    BY <1>5, <2>2 DEF SendsLine
  <2> QED BY <2>1, <2>3, PastStep
<1>6. CASE PassEnds
  <2>1. UNCHANGED logVars /\ UNCHANGED <<s_cursor, fate, s_cfg, s_cache>>
    BY <1>6 DEF PassEnds, config, mine, drain
  <2>2. \E pc \in Stages \ {"line"} : sender' = At(pc)
    BY <1>6 DEF PassEnds, Stages
  <2> QED BY <1>1, <2>1, <2>2
<1>7. ASSUME NEW err \in SendErrors, SendFails(err) PROVE ShipInv'
  <2>1. UNCHANGED logVars /\ UNCHANGED <<s_cfg, s_cache>> /\ InBurst
    BY <1>7 DEF SendFails, config, mine
  <2>2. \/ sender' = At("settle") /\ UNCHANGED <<s_cursor, fate>>
        \/ Past("passed", 1)
    BY <1>7 DEF SendFails
  <2>3. CASE sender' = At("settle") /\ UNCHANGED <<s_cursor, fate>>
    BY <1>1, <2>1, <2>3 DEF Stages
  <2>4. CASE Past("passed", 1)
    BY <2>1, <2>4, PastStep
  <2> QED BY <2>2, <2>3, <2>4
<1> QED BY <1>2, <1>3, <1>4, <1>5, <1>6, <1>7 DEF Drain

\* Waking, and the sender's own line about its state.
LEMMA LoopStep ==
  ASSUME ShipInv, Wakes \/ Settles
  PROVE  ShipInv'
<1>0. LogInv /\ s_cfg \in Settings /\ s_cache \in Settings
  BY DEF ShipInv, SenderTyped
<1>1. LogInv' /\ s_total <= s_total'
  <2>1. CASE UNCHANGED logVars
    BY <1>0, <2>1, LogStill
  <2>2. CASE Capture("syslog", [letter |-> StateLetter[current_state], text |-> TRUE,
                               newline |-> "last"], FALSE)
    <3> DEFINE f == [letter |-> StateLetter[current_state], text |-> TRUE, newline |-> "last"]
    <3>1. f.newline \in {"no", "last", "inside"} /\ Capture("syslog", f, FALSE)
      BY <2>2
    <3> HIDE DEF f
    <3> QED BY <1>0, <3>1, CaptureKeeps
  <2> QED BY <2>1, <2>2 DEF Wakes, Settles
<1>2. UNCHANGED <<s_cursor, fate, s_cfg, s_cache>>
  BY DEF Wakes, Settles, config, mine, drain
<1>3. PICK pc \in Stages \ {"line"} : sender' = At(pc)
  BY DEF Wakes, Settles, Stages
<1>4. At(pc) \in Senders /\ At(pc).pc = pc
  BY AtTyped
<1> QED BY <1>0, <1>1, <1>2, <1>3, <1>4, AsideStep

LEMMA ShipStep == ShipInv /\ [Next]_vars => ShipInv'
<1> SUFFICES ASSUME ShipInv, [Next]_vars PROVE ShipInv'
  OBVIOUS
<1>1. CASE Next
  BY <1>1, OtherTasks, ReloadStep, DrainStep, LoopStep DEF Next, SenderStep
<1>2. CASE UNCHANGED vars
  <2>1. UNCHANGED logVars /\ UNCHANGED <<s_cursor, fate, s_cfg, s_cache, sender>>
    BY <1>2 DEF vars, logVars
  <2>2. LogInv' /\ s_total <= s_total'
    BY <2>1, LogStill DEF ShipInv
  <2> QED BY <2>1, <2>2, AsideStep DEF ShipInv, SenderTyped
<1> QED BY <1>1, <1>2

\* drain_pass() sends no line twice between one switching on and the next, and
\* every line the cursor has gone past was sent or passed over for a reason,
\* whatever the tasks that log, the bridge's events and a saved configuration do
\* in between.
THEOREM ShippedOnce == Spec => []EachLineOnce
<1>1. ShipInv => EachLineOnce
  <2> SUFFICES ASSUME ShipInv, NEW q \in Numbers
               PROVE  fate[q] # "again" /\ (q <= s_cursor => fate[q] # "none")
    BY DEF EachLineOnce
  <2> QED BY DEF ShipInv, SenderTyped, Behind
<1> QED BY <1>1, InitShips, ShipStep, PTL DEF Spec
-----------------------------------------------------------------------------
(* A reader who counts.                                                    *)

Entries == [n: Nat, gap: Nat]

\* The counts after each of some entries, from r on.
IsCount(w, r, entries) ==
  w = [i \in 0 .. Len(entries) |-> IF i = 0 THEN r ELSE CountsOne(w[i - 1], entries[i])]

\* Every set of numbers has a least one.
LEMMA Least ==
  ASSUME NEW T, T \subseteq Nat, T # {}
  PROVE  \E m \in T : \A k \in T : m <= k
<1> DEFINE R == OpToRel(<, Nat)
<1>1. IsWellFoundedOn(R, Nat)
  BY NatLessThanWellFounded
<1>2. \A x, y \in Nat : <<y, x>> \in R <=> y < x
  BY DEF OpToRel
<1> HIDE DEF R
<1>3. PICK x \in T : \A y \in T : ~(<<y, x>> \in R)
  BY <1>1, WFMin
<1>4. \A y \in T : ~(y < x)
  BY <1>2, <1>3
<1>5. \A y \in T : x <= y
  BY <1>4
<1> QED BY <1>5

\* There is one way to count.
LEMMA CountsAre ==
  ASSUME NEW entries \in Seq(Entries), NEW r, NEW w, IsCount(w, r, entries)
  PROVE  Counts(r, entries) = w[Len(entries)]
<1> DEFINE n == Len(entries)
           c == CHOOSE f : IsCount(f, r, entries)
<1>1. n \in Nat
  OBVIOUS
<1>2. Counts(r, entries) = c[n]
  BY DEF Counts, IsCount
<1>3. IsCount(c, r, entries)
  OBVIOUS
<1> HIDE DEF c, n
<1>4. \A i \in 0 .. n : /\ c[i] = IF i = 0 THEN r ELSE CountsOne(c[i - 1], entries[i])
                        /\ w[i] = IF i = 0 THEN r ELSE CountsOne(w[i - 1], entries[i])
  BY <1>3 DEF IsCount, n
<1> DEFINE bad == {i \in 0 .. n : c[i] # w[i]}
<1>5. bad = {}
  <2> SUFFICES ASSUME bad # {} PROVE FALSE
    OBVIOUS
  <2>1. bad \subseteq Nat
    BY <1>1
  <2>2. PICK m \in bad : \A k \in bad : m <= k
    <3> HIDE DEF bad
    <3> QED BY <2>1, Least
  <2>3. m \in 0 .. n /\ c[m] # w[m]
    OBVIOUS
  <2>4. CASE m = 0
    BY <1>4, <2>3, <2>4
  <2>5. CASE m # 0
    <3>1. m - 1 \in 0 .. n /\ ~(m <= m - 1)
      BY <1>1, <2>3, <2>5
    <3>2. c[m - 1] = w[m - 1]
      BY <2>2, <3>1
    <3> QED BY <1>4, <2>3, <2>5, <3>2
  <2> QED BY <2>4, <2>5
<1>6. c[n] = w[n]
  BY <1>1, <1>5
<1> QED BY <1>2, <1>6 DEF n

\* Somebody who starts before line first and reads the entries finds every line
\* where it is expected, and has come to a.
Reads(first) == [at |-> first - 1, right |-> TRUE]
CountedTo(entries, first, a) ==
  \E w : /\ IsCount(w, Reads(first), entries)
        /\ w[Len(entries)] = [at |-> a, right |-> TRUE]

LEMMA CountedIs ==
  ASSUME NEW entries \in Seq(Entries), NEW first, NEW a, CountedTo(entries, first, a)
  PROVE  Counts(Reads(first), entries) = [at |-> a, right |-> TRUE]
BY CountsAre DEF CountedTo

LEMMA CountedNone ==
  ASSUME NEW first \in Nat
  PROVE  CountedTo(<<>>, first, first - 1)
<1> DEFINE w == [i \in 0 .. 0 |-> Reads(first)]
<1>1. Len(<<>>) = 0 /\ 0 \in 0 .. 0 /\ \A i \in 0 .. 0 : i = 0
  OBVIOUS
<1>2. w = [i \in 0 .. 0 |-> IF i = 0 THEN Reads(first) ELSE CountsOne(w[i - 1], <<>>[i])]
  BY <1>1
<1>3. IsCount(w, Reads(first), <<>>)
  BY <1>1, <1>2 DEF IsCount
<1>4. w[0] = [at |-> first - 1, right |-> TRUE]
  BY <1>1 DEF Reads
<1> HIDE DEF w
<1> QED BY <1>1, <1>3, <1>4 DEF CountedTo

LEMMA CountedMore ==
  ASSUME NEW entries \in Seq(Entries), NEW e \in Entries, NEW first, NEW a, NEW b,
         CountedTo(entries, first, a),
         CountsOne([at |-> a, right |-> TRUE], e) = [at |-> b, right |-> TRUE]
  PROVE  CountedTo(Append(entries, e), first, b)
<1> DEFINE n == Len(entries)
           r == Reads(first)
           more == Append(entries, e)
<1>1. PICK w : IsCount(w, r, entries) /\ w[n] = [at |-> a, right |-> TRUE]
  BY DEF CountedTo
<1>2. /\ n \in Nat /\ Len(more) = n + 1 /\ more[n + 1] = e
      /\ \A i \in 1 .. n : more[i] = entries[i]
  OBVIOUS
<1> DEFINE v == [i \in 0 .. n + 1 |-> IF i = n + 1 THEN CountsOne(w[n], e) ELSE w[i]]
<1>3. \A i \in 0 .. n : w[i] = IF i = 0 THEN r ELSE CountsOne(w[i - 1], entries[i])
  BY <1>1 DEF IsCount
<1>4. ASSUME NEW i \in 0 .. n + 1
      PROVE  v[i] = IF i = 0 THEN r ELSE CountsOne(v[i - 1], more[i])
  <2> HIDE DEF r, n, more
  <2>1. CASE i = n + 1
    <3>1. i # 0 /\ i - 1 = n /\ n \in 0 .. n + 1 /\ n # n + 1 /\ n + 1 \in 0 .. n + 1
      BY <1>2, <2>1
    <3>2. v[i] = CountsOne(w[n], e) /\ v[i - 1] = w[n] /\ more[i] = e
      BY <1>2, <2>1, <3>1
    <3> HIDE DEF v
    <3> QED BY <3>1, <3>2
  <2>2. CASE i = 0
    <3>1. 0 \in 0 .. n + 1 /\ 0 # n + 1 /\ 0 \in 0 .. n
      BY <1>2
    <3> QED BY <1>3, <2>2, <3>1
  <2>3. CASE i # 0 /\ i # n + 1
    <3>1. i \in 0 .. n /\ i - 1 \in 0 .. n + 1 /\ i - 1 # n + 1 /\ i \in 1 .. n
      BY <1>2, <2>3
    <3>2. v[i] = w[i] /\ v[i - 1] = w[i - 1] /\ more[i] = entries[i]
      BY <1>2, <2>3, <3>1
    <3> HIDE DEF v
    <3> QED BY <1>3, <2>3, <3>1, <3>2
  <2> QED BY <2>1, <2>2, <2>3
<1>5. v = [i \in 0 .. n + 1 |-> IF i = 0 THEN r ELSE CountsOne(v[i - 1], more[i])]
  <2>1. v = [i \in 0 .. n + 1 |-> v[i]]
    OBVIOUS
  <2> HIDE DEF v, r, n, more
  <2> QED BY <1>4, <2>1
<1>6. v[n + 1] = [at |-> b, right |-> TRUE]
  BY <1>1, <1>2
<1> HIDE DEF v, r, n, more
<1>7. IsCount(v, r, more) /\ v[Len(more)] = [at |-> b, right |-> TRUE]
  BY <1>2, <1>5, <1>6 DEF IsCount
<1> QED BY <1>7 DEF CountedTo, r, more

LEMMA CountedGap ==
  ASSUME NEW entries \in Seq(Entries), NEW first, NEW a \in Nat, NEW g \in Nat,
         CountedTo(entries, first, a)
  PROVE  Append(entries, Gap(g)) \in Seq(Entries) /\ CountedTo(Append(entries, Gap(g)), first, a + g)
<1>1. Gap(g) \in Entries /\ Gap(g).n = 0 /\ Gap(g).gap = g
  BY DEF Gap, Entries
<1>2. CountsOne([at |-> a, right |-> TRUE], Gap(g)) = [at |-> a + g, right |-> TRUE]
  BY <1>1 DEF CountsOne
<1> QED BY <1>1, <1>2, CountedMore

LEMMA CountedLine ==
  ASSUME NEW entries \in Seq(Entries), NEW first, NEW a \in Nat, CountedTo(entries, first, a)
  PROVE  /\ Append(entries, Line(a + 1)) \in Seq(Entries)
         /\ CountedTo(Append(entries, Line(a + 1)), first, a + 1)
<1> DEFINE l == Line(a + 1)
<1>1. l \in Entries /\ l.n = a + 1 /\ a + 1 # 0
  BY DEF Line, Entries
<1>2. CountsOne([at |-> a, right |-> TRUE], l) = [at |-> a + 1, right |-> TRUE]
  BY <1>1 DEF CountsOne
<1> HIDE DEF l
<1>3. Append(entries, l) \in Seq(Entries) /\ CountedTo(Append(entries, l), first, a + 1)
  BY <1>1, <1>2, CountedMore
<1> QED BY <1>3 DEF l
-----------------------------------------------------------------------------
(* The page and the file.                                                  *)

Https == [pc: {"idle", "lines", "answer"}, kind: {"page", "file"}, first: Nat, seq: Nat,
          newest: Nat, gap: Nat, lost: Nat, restarted: BOOLEAN, fresh: BOOLEAN,
          entries: Seq(Entries)]

\* An answer under way: its entries and the gap after them run from its first
\* line up to the one it is at; the first line of a page's answer is the one
\* after its cursor and what is reported lost.
AnswerInv(h) ==
  /\ 0 < h.first /\ h.first + h.gap <= h.seq /\ h.seq <= h.newest + 1
  /\ CountedTo(h.entries, h.first, h.seq - 1 - h.gap)
  /\ h.pc = "answer" => h.gap = 0 /\ (h.kind = "file" => h.seq = h.newest + 1)
AskedFor(h) ==
  h.kind = "page" /\ ~h.restarted =>
    cursor < h.first /\ (~h.fresh /\ behind = "no" => cursor + h.lost = h.first - 1)

\* A page that has seen nothing has missed no restart.
PageInv ==
  /\ LogInv /\ http \in Https /\ cursor \in Nat
  /\ behind = "no" => reader = [at |-> cursor, right |-> TRUE]
  /\ cursor = 0 => behind = "no"
  /\ http.pc # "idle" => AnswerInv(http) /\ AskedFor(http)

\* The worker goes on: with other entries, another gap, at another line.
GoneOn(h, entries, gap, seq) == [h EXCEPT !.entries = entries, !.gap = gap, !.seq = seq]

LEMMA GoneOnIs ==
  ASSUME NEW h \in Https, NEW entries \in Seq(Entries), NEW gap, NEW seq, {gap, seq} \subseteq Nat,
         NEW d, d = GoneOn(h, entries, gap, seq)
  PROVE  /\ d \in Https /\ d.entries = entries /\ d.gap = gap /\ d.seq = seq
         /\ d.pc = h.pc /\ d.kind = h.kind /\ d.first = h.first /\ d.newest = h.newest
         /\ d.lost = h.lost /\ d.restarted = h.restarted /\ d.fresh = h.fresh
<1> DEFINE a == [h EXCEPT !.entries = entries]
           b == [a EXCEPT !.gap = gap]
<1>1. /\ a \in Https /\ a.entries = entries /\ a.gap = h.gap /\ a.seq = h.seq
      /\ a.pc = h.pc /\ a.kind = h.kind /\ a.first = h.first /\ a.newest = h.newest
      /\ a.lost = h.lost /\ a.restarted = h.restarted /\ a.fresh = h.fresh
  BY DEF Https
<1> HIDE DEF a
<1>2. /\ b \in Https /\ b.entries = entries /\ b.gap = gap /\ b.seq = h.seq
      /\ b.pc = h.pc /\ b.kind = h.kind /\ b.first = h.first /\ b.newest = h.newest
      /\ b.lost = h.lost /\ b.restarted = h.restarted /\ b.fresh = h.fresh
  BY <1>1 DEF Https
<1>3. d = [b EXCEPT !.seq = seq]
  BY DEF GoneOn, a, b
<1> HIDE DEF b
<1> QED BY <1>2, <1>3 DEF Https

\* The answer is complete.
Completed(h, entries) == [h EXCEPT !.pc = "answer", !.entries = entries, !.gap = 0]

LEMMA CompletedIs ==
  ASSUME NEW h \in Https, NEW entries \in Seq(Entries)
  PROVE  LET d == Completed(h, entries)
         IN  /\ d \in Https /\ d.entries = entries /\ d.gap = 0 /\ d.seq = h.seq
             /\ d.pc = "answer" /\ d.kind = h.kind /\ d.first = h.first /\ d.newest = h.newest
             /\ d.lost = h.lost /\ d.restarted = h.restarted /\ d.fresh = h.fresh
<1> DEFINE a == [h EXCEPT !.pc = "answer"]
           d == [a EXCEPT !.entries = entries, !.gap = 0]
<1>1. /\ a \in Https /\ a.entries = h.entries /\ a.gap = h.gap /\ a.seq = h.seq
      /\ a.pc = "answer" /\ a.kind = h.kind /\ a.first = h.first /\ a.newest = h.newest
      /\ a.lost = h.lost /\ a.restarted = h.restarted /\ a.fresh = h.fresh
  BY DEF Https
<1> HIDE DEF a
<1> DEFINE b == [a EXCEPT !.entries = entries]
<1>2. /\ b \in Https /\ b.entries = entries /\ b.gap = h.gap /\ b.seq = h.seq
      /\ b.pc = "answer" /\ b.kind = h.kind /\ b.first = h.first /\ b.newest = h.newest
      /\ b.lost = h.lost /\ b.restarted = h.restarted /\ b.fresh = h.fresh
  BY <1>1 DEF Https
<1>3. d = [b EXCEPT !.gap = 0]
  OBVIOUS
<1> HIDE DEF b
<1>4. /\ d \in Https /\ d.entries = entries /\ d.gap = 0 /\ d.seq = h.seq
      /\ d.pc = "answer" /\ d.kind = h.kind /\ d.first = h.first /\ d.newest = h.newest
      /\ d.lost = h.lost /\ d.restarted = h.restarted /\ d.fresh = h.fresh
  BY <1>2, <1>3 DEF Https
<1>5. d = Completed(h, entries)
  BY DEF Completed, a
<1> HIDE DEF d
<1> QED BY <1>4, <1>5

\* With the gap the entries come up to the line before the one it is at.
LEMMA WithGapCounts ==
  ASSUME http \in Https, AnswerInv(http)
  PROVE  /\ WithGap(http.entries) \in Seq(Entries)
         /\ CountedTo(WithGap(http.entries), http.first, http.seq - 1)
         /\ http.seq - 1 \in Nat
<1> DEFINE a == http.seq - 1 - http.gap
           g == http.gap
           entries == http.entries
<1>1. /\ entries \in Seq(Entries) /\ g \in Nat /\ http.seq \in Nat /\ http.first \in Nat
  BY DEF Https
<1>2. a \in Nat /\ a + g = http.seq - 1 /\ http.seq - 1 \in Nat
  BY <1>1 DEF AnswerInv
<1>3. CountedTo(entries, http.first, a)
  BY DEF AnswerInv
<1>4. WithGap(entries) = IF g = 0 THEN entries ELSE Append(entries, Gap(g))
  BY DEF WithGap
<1> HIDE DEF a, g, entries
<1>5. CASE g = 0
  <2>1. a = http.seq - 1
    BY <1>2, <1>5
  <2> QED BY <1>1, <1>2, <1>3, <1>4, <1>5, <2>1 DEF entries
<1>6. CASE g # 0
  <2>1. /\ Append(entries, Gap(g)) \in Seq(Entries)
        /\ CountedTo(Append(entries, Gap(g)), http.first, a + g)
    BY <1>1, <1>2, <1>3, CountedGap
  <2> QED BY <1>2, <1>4, <1>6, <2>1 DEF entries
<1> QED BY <1>5, <1>6

LEMMA FreeIs == Free \in Https /\ Free.pc = "idle"
BY DEF Free, Https

LEMMA RangeIs ==
  ASSUME LogInv
  PROVE  /\ Newest \in Nat /\ Oldest \in Nat /\ 0 < Oldest /\ Oldest <= Newest + 1
BY LogAssumption DEF LogInv, Newest, Oldest

\* A request begins: its first line is at most the one after the newest.
LEMMA BegunIs ==
  ASSUME LogInv, NEW kind \in {"page", "file"}, NEW first \in Nat, NEW lost \in Nat,
         NEW restarted \in BOOLEAN, NEW fresh \in BOOLEAN, 0 < first, first <= Newest + 1
  PROVE  LET d == Begun(kind, first, lost, restarted, fresh)
         IN  /\ d \in Https /\ AnswerInv(d)
             /\ d.kind = kind /\ d.first = first /\ d.lost = lost /\ d.restarted = restarted
             /\ d.fresh = fresh
<1> DEFINE d == Begun(kind, first, lost, restarted, fresh)
<1>1. Newest \in Nat /\ <<>> \in Seq(Entries)
  BY RangeIs
<1>2. d = [pc |-> "lines", kind |-> kind, first |-> first, seq |-> first, newest |-> Newest,
           gap |-> 0, lost |-> lost, restarted |-> restarted, fresh |-> fresh, entries |-> <<>>]
  BY DEF Begun
<1> HIDE DEF d
<1>3. /\ d.pc = "lines" /\ d.kind = kind /\ d.first = first /\ d.seq = first
      /\ d.newest = Newest /\ d.gap = 0 /\ d.lost = lost /\ d.restarted = restarted
      /\ d.fresh = fresh /\ d.entries = <<>>
  BY <1>2
<1>4. d \in Https
  BY <1>1, <1>2 DEF Https
<1>5. CountedTo(<<>>, first, first - 1)
  BY CountedNone
<1>6. d.seq - 1 - d.gap = first - 1
  BY <1>3
<1>7. CountedTo(d.entries, d.first, d.seq - 1 - d.gap)
  BY <1>3, <1>5, <1>6
<1>8. 0 < d.first /\ d.first + d.gap <= d.seq /\ d.seq <= d.newest + 1 /\ d.pc # "answer"
  BY <1>1, <1>3
<1>9. AnswerInv(d)
  BY <1>7, <1>8 DEF AnswerInv
<1> QED BY <1>3, <1>4, <1>9 DEF d

LEMMA PageAsking ==
  ASSUME PageInv, PageAsks \/ DownloadAsks
  PROVE  http' \in Https /\ AnswerInv(http') /\ AskedFor(http')
<1>1. LogInv /\ cursor \in Nat /\ UNCHANGED <<cursor, behind>>
  BY DEF PageInv, PageAsks, DownloadAsks, page
<1>2. /\ Newest \in Nat /\ Oldest \in Nat /\ 0 < Oldest /\ Oldest <= Newest + 1
  BY <1>1, RangeIs
<1>3. CASE DownloadAsks
  <2> DEFINE kind == "file"
             lost == 0
             no == FALSE
             d == Begun(kind, Oldest, lost, no, no)
  <2>1. http' = d /\ kind # "page" /\ lost \in Nat /\ no \in BOOLEAN /\ kind \in {"page", "file"}
    BY <1>3 DEF DownloadAsks
  <2> HIDE DEF kind, lost, no
  <2>2. /\ d \in Https /\ AnswerInv(d)
        /\ d.kind = kind /\ d.first = Oldest /\ d.lost = lost /\ d.restarted = no
        /\ d.fresh = no
    BY <1>1, <1>2, <2>1, BegunIs
  <2> HIDE DEF d
  <2> QED BY <2>1, <2>2 DEF AskedFor
<1>4. CASE PageAsks
  <2> DEFINE restarted == cursor > Newest
             next == IF restarted \/ cursor + 1 < Oldest THEN Oldest ELSE cursor + 1
             lost == IF restarted THEN 0 ELSE Lost(cursor)
             fresh == cursor = 0
             d == Begun("page", next, lost, restarted, fresh)
  <2>1. http' = d
    BY <1>4 DEF PageAsks
  <2>2. restarted \in BOOLEAN /\ fresh \in BOOLEAN
    OBVIOUS
  <2>3. next \in Nat /\ 0 < next /\ next <= Newest + 1
    BY <1>1, <1>2
  <2>4. ~restarted => cursor < next
    BY <1>1, <1>2
  <2>5. lost \in Nat /\ (~restarted /\ ~fresh => cursor + lost = next - 1)
    <3>1. Lost(cursor) = IF cursor # 0 /\ cursor + 1 < Oldest THEN Oldest - (cursor + 1) ELSE 0
      BY DEF Lost
    <3> QED BY <1>1, <1>2, <3>1
  <2> HIDE DEF next, lost, restarted, fresh
  <2>6. /\ d \in Https /\ AnswerInv(d) /\ d.first = next /\ d.lost = lost
        /\ d.restarted = restarted /\ d.fresh = fresh
    <3>1. "page" \in {"page", "file"}
      OBVIOUS
    <3> QED BY <1>1, <2>2, <2>3, <2>5, <3>1, BegunIs
  <2> HIDE DEF d
  <2>7. AskedFor(d)
    BY <2>4, <2>5, <2>6 DEF AskedFor
  <2>8. AskedFor(http')
    BY <2>1, <2>7
  <2> QED BY <2>1, <2>6, <2>8
<1> QED BY <1>3, <1>4

\* One line further, and one more that is gone: as far as before.
LEMMA OneFurther ==
  ASSUME NEW first \in Nat, NEW gap \in Nat, NEW seq \in Nat, NEW newest \in Nat,
         first + gap <= seq, seq <= newest
  PROVE  /\ first + (gap + 1) <= seq + 1 /\ seq + 1 <= newest + 1
         /\ seq + 1 - 1 - (gap + 1) = seq - 1 - gap
OBVIOUS

\* The worker's steps through the lines.
LEMMA PageWorking ==
  ASSUME PageInv, CopiesLine \/ LineGone \/ BufferFull \/ LoopEnds
  PROVE  http' \in Https /\ AnswerInv(http') /\ AskedFor(http')
<1>1. /\ LogInv /\ http \in Https /\ http.pc = "lines" /\ AnswerInv(http) /\ AskedFor(http)
  BY DEF PageInv, CopiesLine, LineGone, BufferFull, LoopEnds, InLoop
<1>2. /\ http.entries \in Seq(Entries) /\ http.gap \in Nat /\ http.seq \in Nat
      /\ http.first \in Nat /\ http.newest \in Nat /\ http.seq + 1 \in Nat
      /\ http.gap + 1 \in Nat /\ 0 \in Nat
  BY <1>1 DEF Https
<1>3. /\ 0 < http.first /\ http.first + http.gap <= http.seq /\ http.seq <= http.newest + 1
      /\ CountedTo(http.entries, http.first, http.seq - 1 - http.gap)
  BY <1>1 DEF AnswerInv
<1> DEFINE with == WithGap(http.entries)
           a == http.seq - 1
<1>4. /\ with \in Seq(Entries) /\ CountedTo(with, http.first, a) /\ a \in Nat
  BY <1>1, WithGapCounts
<1> HIDE DEF with
<1>5. CASE CopiesLine
  <2>1. LineAt(http.seq).id = http.seq
    <3>1. http.seq \in 1 .. MaxLines /\ Held(http.seq)
      BY <1>1, <1>2, <1>5, LogAssumption DEF CopiesLine, Held, LogInv
    <3> QED BY <1>1, <3>1 DEF LogInv, RingIndexed
  <2> DEFINE more == Append(with, Line(a + 1))
             none == 0
             q == http.seq + 1
             d == GoneOn(http, more, none, q)
  <2>2. a + 1 = http.seq
    BY <1>2
  <2>3. http' = d
    BY <1>5, <2>1, <2>2 DEF CopiesLine, GoneOn, with, InLoop
  <2>4. more \in Seq(Entries) /\ CountedTo(more, http.first, a + 1)
    <3> HIDE DEF a
    <3> QED BY <1>2, <1>4, CountedLine
  <2>5. {none, q} \subseteq Nat
    BY <1>2
  <2> HIDE DEF more, none, q
  <2>6. /\ d \in Https /\ d.entries = more /\ d.gap = none /\ d.seq = q
        /\ d.pc = http.pc /\ d.kind = http.kind /\ d.first = http.first
        /\ d.newest = http.newest /\ d.lost = http.lost /\ d.restarted = http.restarted
        /\ d.fresh = http.fresh
    <3>1. d = GoneOn(http, more, none, q)
      OBVIOUS
    <3> HIDE DEF d
    <3>2. http \in Https /\ more \in Seq(Entries)
      BY <1>1, <2>4
    <3> QED BY <2>5, <3>1, <3>2, GoneOnIs
  <2> HIDE DEF d
  <2>7. /\ d \in Https /\ d.entries = more /\ d.gap = 0 /\ d.seq = http.seq + 1
        /\ d.pc = http.pc /\ d.kind = http.kind /\ d.first = http.first
        /\ d.newest = http.newest /\ d.lost = http.lost /\ d.restarted = http.restarted
        /\ d.fresh = http.fresh
    BY <2>6 DEF none, q
  <2>8. d.seq - 1 - d.gap = a + 1
    BY <1>2, <2>7
  <2>9. http.seq <= http.newest
    BY <1>5 DEF CopiesLine, InLoop
  <2>10. /\ 0 < d.first /\ d.first + d.gap <= d.seq /\ d.seq <= d.newest + 1
    BY <1>2, <1>3, <2>7, <2>9
  <2>11. AnswerInv(d)
    BY <1>1, <2>4, <2>7, <2>8, <2>10 DEF AnswerInv
  <2>12. AskedFor(d)
    BY <1>1, <2>7 DEF AskedFor
  <2> QED BY <2>3, <2>7, <2>11, <2>12
<1>6. CASE LineGone
  <2> DEFINE g == http.gap + 1
             q == http.seq + 1
             entries == http.entries
             d == GoneOn(http, entries, g, q)
  <2>1. http' = [http EXCEPT !.gap = http.gap + 1, !.seq = http.seq + 1]
    BY <1>6 DEF LineGone
  <2>2. http' = d
    BY <1>1, <2>1 DEF GoneOn, Https
  <2>3. {g, q} \subseteq Nat /\ entries \in Seq(Entries)
    BY <1>2
  <2> HIDE DEF g, q, entries
  <2>4. /\ d \in Https /\ d.entries = entries /\ d.gap = g
        /\ d.seq = q /\ d.pc = http.pc /\ d.kind = http.kind
        /\ d.first = http.first /\ d.newest = http.newest /\ d.lost = http.lost
        /\ d.restarted = http.restarted /\ d.fresh = http.fresh
    <3>1. d = GoneOn(http, entries, g, q)
      OBVIOUS
    <3> HIDE DEF d
    <3>2. http \in Https
      BY <1>1
    <3> QED BY <2>3, <3>1, <3>2, GoneOnIs
  <2> HIDE DEF d
  <2>5. /\ d \in Https /\ d.entries = http.entries /\ d.gap = http.gap + 1
        /\ d.seq = http.seq + 1 /\ d.pc = http.pc /\ d.kind = http.kind
        /\ d.first = http.first /\ d.newest = http.newest /\ d.lost = http.lost
        /\ d.restarted = http.restarted /\ d.fresh = http.fresh
    BY <2>4 DEF g, q, entries
  <2>6. http.seq <= http.newest
    BY <1>6 DEF LineGone, InLoop
  <2>7. /\ http.first + (http.gap + 1) <= http.seq + 1
        /\ http.seq + 1 <= http.newest + 1
        /\ http.seq + 1 - 1 - (http.gap + 1) = http.seq - 1 - http.gap
    <3>1. /\ http.first \in Nat /\ http.gap \in Nat /\ http.seq \in Nat
          /\ http.newest \in Nat
      BY <1>2
    <3>2. http.first + http.gap <= http.seq
      BY <1>3
    <3> QED BY <2>6, <3>1, <3>2, OneFurther, Zenon
  <2>8. /\ 0 < d.first /\ d.first + d.gap <= d.seq /\ d.seq <= d.newest + 1
        /\ d.seq - 1 - d.gap = http.seq - 1 - http.gap
    <3>1. 0 < d.first
      BY <1>3, <2>5
    <3>2. d.first + d.gap <= d.seq
      BY <1>2, <2>5, <2>7
    <3>3. d.seq <= d.newest + 1
      BY <1>2, <2>5, <2>7
    <3>4. d.seq - 1 - d.gap = http.seq - 1 - http.gap
      <4>1. d.seq = http.seq + 1 /\ d.gap = http.gap + 1
        BY <2>5
      <4>2. http.seq \in Nat /\ http.gap \in Nat
        BY <1>2
      <4> QED BY <4>1, <4>2
    <3> QED BY <3>1, <3>2, <3>3, <3>4
  <2>9. AnswerInv(d)
    BY <1>1, <1>3, <2>5, <2>8 DEF AnswerInv
  <2>10. AskedFor(d)
    BY <1>1, <2>5 DEF AskedFor
  <2> QED BY <2>2, <2>5, <2>9, <2>10
<1>7. CASE BufferFull \/ LoopEnds
  <2> DEFINE d == Completed(http, with)
  <2>1. http' = d
    BY <1>7 DEF BufferFull, LoopEnds, Completed, with
  <2>2. /\ d \in Https /\ d.entries = with /\ d.gap = 0 /\ d.seq = http.seq
        /\ d.pc = "answer" /\ d.kind = http.kind /\ d.first = http.first
        /\ d.newest = http.newest /\ d.lost = http.lost /\ d.restarted = http.restarted
        /\ d.fresh = http.fresh
    BY <1>1, <1>4, CompletedIs
  <2> HIDE DEF d
  <2>3. d.seq - 1 - d.gap = a
    BY <1>2, <2>2
  <2>4. d.kind = "file" => d.seq = d.newest + 1
    <3>1. http.kind = "file" => http.seq > http.newest
      BY <1>7 DEF BufferFull, LoopEnds
    <3> QED BY <1>2, <1>3, <2>2, <3>1
  <2>5. /\ 0 < d.first /\ d.first + d.gap <= d.seq /\ d.seq <= d.newest + 1
    BY <1>2, <1>3, <2>2
  <2>6. AnswerInv(d)
    BY <1>4, <2>2, <2>3, <2>4, <2>5 DEF AnswerInv
  <2>7. AskedFor(d)
    BY <1>1, <2>2 DEF AskedFor
  <2> QED BY <2>1, <2>2, <2>6, <2>7
<1> QED BY <1>5, <1>6, <1>7

\* The answer arrives.
LEMMA PageReading ==
  ASSUME PageInv, PageReads
  PROVE  PageInv'
<1>1. /\ LogInv /\ http \in Https /\ http.pc = "answer" /\ http.kind = "page" /\ cursor \in Nat
      /\ AnswerInv(http) /\ AskedFor(http)
  BY DEF PageInv, PageReads
<1>2. /\ http' = Free /\ cursor' = http.seq - 1 /\ UNCHANGED logVars
      /\ reader' = Counts(Start, http.entries)
      /\ behind' = IF http.restarted THEN "no" ELSE IF behind = "old" THEN "unnoticed" ELSE behind
  BY DEF PageReads
<1>3. /\ http.entries \in Seq(Entries) /\ http.seq \in Nat /\ http.first \in Nat
      /\ 0 < http.first /\ http.first <= http.seq /\ http.gap = 0
      /\ CountedTo(http.entries, http.first, http.seq - 1 - http.gap)
  BY <1>1 DEF Https, AnswerInv
<1>4. cursor' \in Nat /\ CountedTo(http.entries, http.first, cursor')
  <2>1. http.seq - 1 - http.gap = http.seq - 1 /\ http.seq - 1 \in Nat
    BY <1>3
  <2> QED BY <1>2, <1>3, <2>1
<1>5. Counts(Reads(http.first), http.entries) = [at |-> cursor', right |-> TRUE]
  BY <1>3, <1>4, CountedIs
<1>6. behind' = "no" => Start = Reads(http.first)
  <2>1. CASE http.restarted \/ http.fresh
    BY <2>1 DEF Start, Reads
  <2>2. CASE ~http.restarted /\ ~http.fresh /\ behind' = "no"
    <3>1. behind = "no"
      BY <1>2, <2>2
    <3>2. reader = [at |-> cursor, right |-> TRUE] /\ cursor + http.lost = http.first - 1
      BY <1>1, <2>2, <3>1 DEF PageInv, AskedFor
    <3>3. Start = [reader EXCEPT !.at = reader.at + http.lost]
      BY <2>2 DEF Start
    <3> QED BY <3>2, <3>3 DEF Reads
  <2> QED BY <2>1, <2>2
<1>7. cursor' = 0 => behind' = "no"
  <2>1. CASE http.restarted
    BY <1>2, <2>1
  <2>2. CASE ~http.restarted
    <3>1. cursor < http.first
      BY <1>1, <2>2 DEF AskedFor
    <3>2. cursor' = 0 => cursor = 0
      BY <1>1, <1>2, <1>3, <3>1
    <3>3. cursor = 0 => behind = "no"
      BY DEF PageInv
    <3> QED BY <1>2, <2>2, <3>2, <3>3
  <2> QED BY <2>1, <2>2
<1>8. LogInv' /\ http' \in Https /\ http'.pc = "idle"
  <2>1. LogInv'
    BY <1>1, <1>2, LogStep
  <2> QED BY <1>2, <2>1, FreeIs
<1> QED BY <1>2, <1>4, <1>5, <1>6, <1>7, <1>8 DEF PageInv

\* The device restarts, or the answer comes to nothing.
LEMMA PageDrops ==
  ASSUME PageInv, Restarts \/ AnswerLost \/ FileSent
  PROVE  PageInv'
<1>1. http' = Free /\ Free \in Https /\ Free.pc = "idle"
  BY FreeIs DEF Restarts, AnswerLost, FileSent
<1>2. LogInv'
  <2>1. CASE Restarts
    <3>1. LogInit'
      BY <2>1 DEF Restarts, LogInit, PageInv, LogInv
    <3>2. LogInit' => LogInv'
      <4> SUFFICES ASSUME LogInit' PROVE LogInv'
        OBVIOUS
      <4>1. /\ s_lines' = [i \in 0 .. LOG_BUF_LINES - 1 |-> NoLine] /\ s_total' = 0
            /\ s_pending' = NoPending
        BY DEF LogInit
      <4>2. DOMAIN s_lines' = 0 .. LOG_BUF_LINES - 1 /\ s_total' \in 0 .. MaxLines /\ LinesWhole'
        BY <4>1, LogAssumption DEF LinesWhole, NoLine
      <4>3. IsPending(s_pending)'
        BY <4>1 DEF IsPending, Pure, NoPending
      <4>4. RingIndexed'
        BY <4>1 DEF RingIndexed, Held
      <4> QED BY <4>2, <4>3, <4>4 DEF LogInv
    <3> QED BY <3>1, <3>2
  <2>2. CASE AnswerLost \/ FileSent
    <3>1. UNCHANGED logVars /\ LogInv
      BY <2>2 DEF AnswerLost, FileSent, PageInv
    <3> QED BY <3>1, LogStep
  <2> QED BY <2>1, <2>2
<1>3. \/ UNCHANGED <<cursor, reader>> /\ behind' = IF cursor = 0 THEN "no" ELSE "old"
      \/ UNCHANGED page
  BY DEF Restarts, AnswerLost, FileSent
<1>4. /\ cursor' \in Nat /\ (behind' = "no" => reader' = [at |-> cursor', right |-> TRUE])
      /\ cursor' = 0 => behind' = "no"
  BY <1>3 DEF PageInv, page
<1> QED BY <1>1, <1>2, <1>4 DEF PageInv

LEMMA PageStep == PageInv /\ [PageNext]_pageVars => PageInv'
<1> SUFFICES ASSUME PageInv, [PageNext]_pageVars PROVE PageInv'
  OBVIOUS
<1>1. CASE TasksLog \/ UNCHANGED pageVars
  <2>1. [LogNext]_logVars /\ UNCHANGED <<http, cursor, reader, behind>>
    BY <1>1 DEF TasksLog, pageVars, logVars, page
  <2>2. LogInv'
    BY <2>1, LogStep DEF PageInv
  <2>3. AskedFor(http)' = AskedFor(http)
    BY <2>1 DEF AskedFor
  <2> QED BY <2>1, <2>2, <2>3 DEF PageInv
<1>2. CASE PageAsks \/ DownloadAsks \/ CopiesLine \/ LineGone \/ BufferFull \/ LoopEnds
  <2>1. http' \in Https /\ AnswerInv(http') /\ AskedFor(http')
    BY <1>2, PageAsking, PageWorking
  <2>2. UNCHANGED <<cursor, reader, behind>> /\ UNCHANGED logVars
    BY <1>2 DEF PageAsks, DownloadAsks, CopiesLine, LineGone, BufferFull, LoopEnds, page
  <2>3. LogInv'
    BY <2>2, LogStep DEF PageInv
  <2>4. AskedFor(http)'
    BY <2>1, <2>2 DEF AskedFor
  <2> QED BY <2>1, <2>2, <2>3, <2>4 DEF PageInv
<1>3. CASE PageNext
  BY <1>1, <1>2, <1>3, PageReading, PageDrops DEF PageNext, Worker
<1> QED BY <1>1, <1>3

LEMMA PageFirst == PageInit => PageInv
<1> SUFFICES ASSUME PageInit PROVE PageInv
  OBVIOUS
<1>1. LogInv
  BY LogInitInv DEF PageInit
<1>2. http = Free /\ cursor = 0 /\ reader = [at |-> 0, right |-> TRUE] /\ behind = "no"
  BY DEF PageInit
<1> QED BY <1>1, <1>2, FreeIs DEF PageInv

\* What logs_get_handler() answers and the page makes of it adds up, although the
\* lock is taken for one line at a time and lines are pushed out in between,
\* answers get lost and the buffer fills up.
THEOREM PageTrue == PageSpec => []PageAddsUp
<1>1. PageInv => PageAddsUp
  BY DEF PageInv, PageAddsUp
<1> QED BY <1>1, PageFirst, PageStep, PTL DEF PageSpec

\* What logs_download_get_handler() has sent when it is done runs from the oldest
\* line to the newest there were when it was asked, each there or accounted for.
THEOREM FileTrue == PageSpec => []FileAddsUp
<1>1. PageInv => FileAddsUp
  <2> SUFFICES ASSUME PageInv, http.pc = "answer", http.kind = "file"
               PROVE  Counts([at |-> http.first - 1, right |-> TRUE], http.entries)
                        = [at |-> http.newest, right |-> TRUE]
    BY DEF FileAddsUp
  <2>1. http \in Https /\ AnswerInv(http)
    BY DEF PageInv
  <2>2. /\ http.entries \in Seq(Entries) /\ http.newest \in Nat /\ http.gap = 0
        /\ http.seq = http.newest + 1
        /\ CountedTo(http.entries, http.first, http.seq - 1 - http.gap)
    BY <2>1 DEF Https, AnswerInv
  <2>3. http.seq - 1 - http.gap = http.newest
    BY <2>2
  <2>4. Counts(Reads(http.first), http.entries) = [at |-> http.newest, right |-> TRUE]
    BY <2>2, <2>3, CountedIs
  <2> QED BY <2>4 DEF Reads
<1> QED BY <1>1, PageFirst, PageStep, PTL DEF PageSpec
==============================================================================
