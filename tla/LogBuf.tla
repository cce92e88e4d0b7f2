------------------------------- MODULE LogBuf -------------------------------
(***************************************************************************)
(* The log ring (src/main/log_buf.c): every task's output arrives through  *)
(* the vprintf hook in fragments, is put together into lines and kept in a *)
(* ring of the last LOG_BUF_LINES of them, addressed by sequence number.   *)
(*                                                                         *)
(* A fragment is what one hook call brings: the letter of a prefix it      *)
(* opens with, whether it carries text, and whether its last newline ends  *)
(* it, stands inside it or is missing.                                     *)
(* A pending line remembers where it came from instead of its words: its   *)
(* letter, the tasks whose fragments it holds and the levels at which      *)
(* those were judged for the serial console.  A stored one keeps its       *)
(* number, its letter, and whether it was one task's at one level.         *)
(***************************************************************************)
EXTENDS Naturals, Sequences, FiniteSets

CONSTANTS
  Tasks,          \* tasks that log
  Fragments,      \* what a hook call of each of them may bring
  LOG_BUF_LINES,
  MaxLines,       \* bound on the lines ever stored
  MaxMissed       \* bound on the calls that time out

Letters == {"E", "W", "I", "D", "V"}

ASSUME LogAssumption ==
  /\ LOG_BUF_LINES \in Nat \ {0}
  /\ MaxLines \in Nat /\ MaxMissed \in Nat
  /\ Fragments \in [Tasks -> SUBSET [letter: Letters \cup {"none"}, text: BOOLEAN,
                                    newline: {"no", "last", "inside"}]]

VARIABLES s_lines, s_total, s_missed, s_pending

logVars == <<s_lines, s_total, s_missed, s_pending>>

\* by = {} stands for s_pending_len = 0; the code leaves task and level as they
\* were then and does not look at them.
NoPending == [task |-> "none", level |-> "E", letter |-> "?", by |-> {}, levels |-> {}]
NoLine == [id |-> 0, letter |-> "?", whole |-> TRUE]

LogInit ==
  /\ s_lines = [i \in 0 .. LOG_BUF_LINES - 1 |-> NoLine]
  /\ s_total = 0
  /\ s_missed = 0
  /\ s_pending = NoPending
-----------------------------------------------------------------------------
\* What is not an opening fragment is let through to the console.
level_from_letter(letter) == IF letter \in Letters THEN letter ELSE "E"

\* commit_pending(): the lines that pending p adds to the ring.
Committed(p) ==
  IF p.by = {} THEN <<>>
  ELSE <<[letter |-> p.letter, whole |-> Cardinality(p.by) = 1 /\ Cardinality(p.levels) = 1]>>

Numbered(line, id) == [id |-> id, letter |-> line.letter, whole |-> line.whole]

\* Mutant: the slot is computed from the number instead of the count.
Store_shifted(new) ==
  /\ s_total' = s_total + Len(new)
  /\ s_lines' = [i \in DOMAIN s_lines |->
       IF \E k \in DOMAIN new : (s_total + k) % LOG_BUF_LINES = i
         THEN LET k == CHOOSE j \in DOMAIN new :
                         /\ (s_total + j) % LOG_BUF_LINES = i
                         /\ \A l \in DOMAIN new : l > j => (s_total + l) % LOG_BUF_LINES # i
              IN  Numbered(new[k], s_total + k)
         ELSE s_lines[i]]

\* The lines of new go into the ring, one after the other.
Store(new) ==
  /\ s_total' = s_total + Len(new)
  /\ s_lines' = [i \in DOMAIN s_lines |->
       IF \E k \in DOMAIN new : (s_total + k - 1) % LOG_BUF_LINES = i
         THEN LET k == CHOOSE j \in DOMAIN new :
                         /\ (s_total + j - 1) % LOG_BUF_LINES = i
                         /\ \A l \in DOMAIN new : l > j => (s_total + l - 1) % LOG_BUF_LINES # i
              IN  Numbered(new[k], s_total + k)
         ELSE s_lines[i]]

\* Mutant: only a prefix ends the line before, not another task.
Interrupts_prefix(t, f) == s_pending.by # {} /\ f.letter # "none"

\* A fragment that does not go on with the pending line.
Interrupts(t, f) == s_pending.by # {} /\ (t # s_pending.task \/ f.letter # "none")

\* The pending line t's fragment goes to: a new one, or the one under way.
Opened(t, f) ==
  IF s_pending.by = {} \/ Interrupts(t, f)
    THEN [task |-> t, level |-> level_from_letter(f.letter),
          letter |-> IF f.letter \in Letters THEN f.letter ELSE "?",
          by |-> {}, levels |-> {}]
    ELSE s_pending

\* capture() with the lock held.  cut says that s_pending fills up inside the
\* fragment: what there is becomes a line and the rest goes on without its
\* prefix.
Capture(t, f, cut) ==
  LET before == IF Interrupts(t, f) THEN Committed(s_pending) ELSE <<>>
      p == Opened(t, f)
      rest == [p EXCEPT !.letter = "?", !.by = {t}, !.levels = {p.level}]
      filled == IF cut THEN rest
                ELSE IF f.text THEN [p EXCEPT !.by = @ \cup {t}, !.levels = @ \cup {p.level}]
                ELSE p
      new == before \o (IF cut THEN Committed(p) ELSE <<>>)
                    \o (IF f.newline = "no" THEN <<>> ELSE Committed(filled))
  IN  /\ cut => f.text /\ p.by # {}
      /\ s_total + Len(new) <= MaxLines
      /\ Store(new)
      /\ s_pending' = CASE f.newline = "no" -> filled
                        [] f.newline = "last" -> NoPending
                        [] f.newline = "inside" -> rest
      /\ UNCHANGED s_missed

\* capture(): the lock did not come free in LOG_BUF_LOCK_TIMEOUT_MS.
CaptureMissed ==
  /\ s_missed < MaxMissed
  /\ s_missed' = s_missed + 1
  /\ UNCHANGED <<s_lines, s_total, s_pending>>

\* log_buf_get_range().
Newest == s_total
Oldest == IF s_total > LOG_BUF_LINES THEN s_total - LOG_BUF_LINES + 1 ELSE 1

\* log_buf_get_line(): whether there is such a line, and the line.
Held(seq) == seq # 0 /\ seq <= s_total /\ s_total - seq < LOG_BUF_LINES
LineAt(seq) == s_lines[(seq - 1) % LOG_BUF_LINES]
-----------------------------------------------------------------------------
LogNext ==
  \/ \E t \in Tasks, cut \in BOOLEAN : \E f \in Fragments[t] : Capture(t, f, cut)
  \/ CaptureMissed

LogSpec == LogInit /\ [][LogNext]_logVars
-----------------------------------------------------------------------------
\* The types of the variables.
LogTypeOK ==
  /\ s_lines \in [0 .. LOG_BUF_LINES - 1 ->
                  [id: 0 .. MaxLines, letter: Letters \cup {"?"}, whole: BOOLEAN]]
  /\ s_total \in 0 .. MaxLines /\ s_missed \in 0 .. MaxMissed
  /\ s_pending.letter \in Letters \cup {"?"} /\ s_pending.level \in Letters
  /\ s_pending.by \subseteq Tasks \cup {"syslog"} /\ s_pending.levels \subseteq Letters

\* A stored line is one task's, and all its fragments were judged at one
\* level: the serial console never prints half of a line whose prefix it
\* suppressed, whoever interrupts whom and however long the line.
LinesWhole == \A i \in DOMAIN s_lines : s_lines[i].whole

\* A reader that asks for a number gets the line of that number or nothing.
RingIndexed == \A seq \in 1 .. MaxLines : Held(seq) => LineAt(seq).id = seq
=============================================================================
