------------------------------ MODULE LogPage -------------------------------
(***************************************************************************)
(* Reading the log over HTTP (src/main/web_server.c): the log page, which  *)
(* polls for what is newer than its cursor (webpage/logs.html), and the    *)
(* download of everything there is.  One worker serves both, one request   *)
(* at a time, and takes the ring's lock for one line at a time, so lines   *)
(* are stored and pushed out while an answer is put together.              *)
(*                                                                         *)
(* An answer is a sequence of entries: a line with its number, or a gap    *)
(* that stands for so many lines.  The page's user is a reader who counts: *)
(* who expects the next number after each line, and adds what a note says  *)
(* was lost.                                                               *)
(***************************************************************************)
EXTENDS LogBuf

CONSTANT MaxBoots           \* bound on restarts of the device

VARIABLES
  http,       \* the worker: request and answer in progress
  cursor,     \* the page: the number it asks after
  reader,     \* the number it has come to, and whether every line was the expected one
  behind,     \* "old": the device restarted after the page's last answer;
              \* "unnoticed": and the answers since did not say so; otherwise "no"
  boots

page == <<cursor, reader, behind>>
pageVars == <<s_lines, s_total, s_missed, s_pending, http, cursor, reader, behind, boots>>

Free == [pc |-> "idle", kind |-> "page", first |-> 0, seq |-> 0, newest |-> 0, gap |-> 0,
         lost |-> 0, restarted |-> FALSE, fresh |-> FALSE, entries |-> <<>>]
Begun(kind, first, lost, restarted, fresh) ==
  [pc |-> "lines", kind |-> kind, first |-> first, seq |-> first, newest |-> Newest, gap |-> 0,
   lost |-> lost, restarted |-> restarted, fresh |-> fresh, entries |-> <<>>]
Line(n) == [n |-> n, gap |-> 0]
Gap(n) == [n |-> 0, gap |-> n]

PageInit ==
  /\ LogInit
  /\ http = Free /\ cursor = 0 /\ reader = [at |-> 0, right |-> TRUE]
  /\ behind = "no" /\ boots = 0
-----------------------------------------------------------------------------
(* The device.                                                             *)

TasksLog ==
  /\ LogNext
  /\ UNCHANGED <<http, page, boots>>

\* The ring is in RAM: numbers start over, and the request under way is gone.
Restarts ==
  /\ boots < MaxBoots /\ boots' = boots + 1
  /\ s_lines' = [i \in DOMAIN s_lines |-> NoLine]
  /\ s_total' = 0 /\ s_missed' = 0 /\ s_pending' = NoPending
  /\ http' = Free
  /\ behind' = IF cursor = 0 THEN "no" ELSE "old"
  /\ UNCHANGED <<cursor, reader>>

\* Mutant: what has left the ring before the answer begins is not counted.
Lost_silent(since) == 0

\* logs_get_handler(): lines that were pushed out since the last answer.  A
\* page that has seen nothing has lost nothing.
Lost(since) == IF since # 0 /\ since + 1 < Oldest THEN Oldest - (since + 1) ELSE 0

\* logs_get_handler() up to its loop; since > newest says the device restarted.
PageAsks ==
  LET restarted == cursor > Newest
      next == IF restarted \/ cursor + 1 < Oldest THEN Oldest ELSE cursor + 1
  IN  /\ http.pc = "idle"
      /\ http' = Begun("page", next, IF restarted THEN 0 ELSE Lost(cursor), restarted, cursor = 0)
      /\ UNCHANGED <<logVars, page, boots>>

\* logs_download_get_handler() up to its loop.
DownloadAsks ==
  /\ http.pc = "idle"
  /\ http' = Begun("file", Oldest, 0, FALSE, FALSE)
  /\ UNCHANGED <<logVars, page, boots>>

\* Either loop: the next line.
InLoop == http.pc = "lines" /\ http.seq <= http.newest

\* Mutant: the gap is forgotten by the line after it.
WithGap_dropped(entries) == entries

\* The entries with the gap that came after them.
WithGap(entries) == IF http.gap = 0 THEN entries ELSE Append(entries, Gap(http.gap))

CopiesLine ==
  /\ InLoop /\ Held(http.seq)
  /\ http' = [http EXCEPT !.entries = Append(WithGap(@), Line(LineAt(http.seq).id)),
                          !.gap = 0, !.seq = @ + 1]
  /\ UNCHANGED <<logVars, page, boots>>

\* Pushed out since the range was read.
LineGone ==
  /\ InLoop /\ ~Held(http.seq)
  /\ http' = [http EXCEPT !.gap = @ + 1, !.seq = @ + 1]
  /\ UNCHANGED <<logVars, page, boots>>

\* Mutant: a line is only ever added while there is room for two.
Room_two == FALSE

\* The longest line there is fits into an empty buffer.
Room == http.entries = <<>>

\* The buffer has no room for the line just copied: the page is told there is more.
BufferFull ==
  /\ InLoop /\ Held(http.seq) /\ http.kind = "page" /\ ~Room
  /\ http' = [http EXCEPT !.pc = "answer", !.entries = WithGap(@), !.gap = 0]
  /\ UNCHANGED <<logVars, page, boots>>

LoopEnds ==
  /\ http.pc = "lines" /\ http.seq > http.newest
  /\ http' = [http EXCEPT !.pc = "answer", !.entries = WithGap(@), !.gap = 0]
  /\ UNCHANGED <<logVars, page, boots>>

\* The answer does not arrive: the page's request timed out, or dl_flush() failed.
AnswerLost ==
  /\ http.pc = "answer" \/ (http.kind = "file" /\ InLoop)
  /\ http' = Free
  /\ UNCHANGED <<logVars, page, boots>>

FileSent ==
  /\ http.pc = "answer" /\ http.kind = "file"
  /\ http' = Free
  /\ UNCHANGED <<logVars, page, boots>>
-----------------------------------------------------------------------------
(* The page.                                                               *)

\* A reader who counts, by one entry, and from r on over some of them.
CountsOne(r, e) ==
  IF e.n = 0 THEN [at |-> r.at + e.gap, right |-> r.right]
  ELSE [at |-> e.n, right |-> r.right /\ e.n = r.at + 1]
Counts(r, entries) ==
  LET count[i \in 0 .. Len(entries)] == IF i = 0 THEN r ELSE CountsOne(count[i - 1], entries[i])
  IN  count[Len(entries)]

\* Where the count starts over: with a note that the device restarted, or the
\* page's first lines.
Start == IF http.restarted \/ http.fresh THEN [at |-> http.first - 1, right |-> TRUE]
         ELSE [reader EXCEPT !.at = @ + http.lost]

\* fetchOnce(): what arrived is shown, and the cursor follows the answer's "seq".
PageReads ==
  /\ http.pc = "answer" /\ http.kind = "page"
  /\ reader' = Counts(Start, http.entries)
  /\ cursor' = http.seq - 1
  /\ behind' = IF http.restarted THEN "no" ELSE IF behind = "old" THEN "unnoticed" ELSE behind
  /\ http' = Free
  /\ UNCHANGED <<logVars, boots>>
-----------------------------------------------------------------------------
Worker == CopiesLine \/ LineGone \/ BufferFull \/ LoopEnds \/ FileSent

PageNext ==
  \/ TasksLog \/ Restarts
  \/ PageAsks \/ DownloadAsks \/ Worker \/ AnswerLost \/ PageReads

\* The worker runs and serves waiting requests in turn; the page polls every
\* second, and not every answer is lost.
PageSpec ==
  /\ PageInit /\ [][PageNext]_pageVars
  /\ WF_pageVars(Worker) /\ SF_pageVars(PageAsks) /\ SF_pageVars(PageReads)
-----------------------------------------------------------------------------
\* Within one boot, the page's lines and losses add up: no line twice, none out
\* of order, none missing without a note of how many, at the place where they
\* are missing ("advancing over a hole and saying nothing turns a gap into a
\* splice"), though lines are pushed out while the answer is written.
PageAddsUp == behind = "no" => reader.right /\ reader.at = cursor

\* A downloaded file runs from the oldest line to the newest there were when it
\* was asked for, with every line that was overwritten meanwhile accounted for.
FileAddsUp ==
  http.pc = "answer" /\ http.kind = "file"
    => Counts([at |-> http.first - 1, right |-> TRUE], http.entries) = [at |-> http.newest, right |-> TRUE]

\* The page comes to the end of the log, however little fits into an answer and
\* however many answers are lost.
PageCatchesUp == []<>(cursor = Newest)
=============================================================================
