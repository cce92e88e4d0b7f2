------------------------------- MODULE Syslog -------------------------------
(***************************************************************************)
(* Remote logging (src/main/syslog.c, with the configuration cache of      *)
(* src/main/syslog_cfg.c): the task that ships the log ring to a collector *)
(* while the bridge's network is up, next to the tasks that log, the event *)
(* task that follows the bridge's interface, and whoever saves a new       *)
(* configuration.                                                          *)
(*                                                                         *)
(* A step of the sender reads or writes one thing that another task writes *)
(* or reads too, together with what it then does on its own.               *)
(* Notifications only make it faster (it wakes every SYSLOG_IDLE_TICK_MS   *)
(* anyway), so waking is always possible.  The display counters are kept   *)
(* per line instead, as what became of each.                               *)
(***************************************************************************)
EXTENDS LogBuf

CONSTANTS
  Configs,            \* [enabled, server_ip, min_severity]: what may be saved, or read
                      \* back after a save that did not finish
  SendErrors,         \* how sendto() may fail: "stall" (ENOMEM, ENOBUFS), "hard"
  SYSLOG_BURST_MAX, SYSLOG_STALL_MAX,
  MaxSaves            \* bound on the number of saved configurations

ASSUME SyslogAssumption ==
  /\ Configs \subseteq [enabled: BOOLEAN, server_ip: Nat, min_severity: 0 .. 7] /\ Configs # {}
  /\ SendErrors \subseteq {"stall", "hard"}
  /\ SYSLOG_BURST_MAX \in Nat \ {0} /\ SYSLOG_STALL_MAX \in Nat /\ MaxSaves \in Nat

VARIABLES
  s_cache, s_generation,     \* syslog_cfg.c
  s_cfg, s_seen_generation,  \* the sender's copy
  overtaken,                 \* history: a save fell between its two reads
  s_sock, s_bound,
  bridge,                    \* the bridge's interface is up
  event,                     \* br_netif_status_cb(): where it is, its result
  s_cursor, s_stalls, s_last_send_failed,
  s_logged_state,            \* the last state reported, "never" before the first
  sender,                    \* the sender: where it is, and its locals
  fate                       \* of each line since it was switched on: "none" yet, "sent",
                             \* "passed" over unsent, or sent "again"

config == <<s_cache, s_generation>>
mine == <<s_cfg, s_seen_generation, overtaken>>
socket == <<s_sock, s_bound>>
net == <<bridge, event>>
drain == <<s_cursor, s_stalls, s_last_send_failed, fate>>
vars == <<s_lines, s_total, s_missed, s_pending, s_cache, s_generation, s_cfg,
          s_seen_generation, overtaken, s_sock, s_bound, bridge, event, s_cursor, s_stalls,
          s_last_send_failed, fate, s_logged_state, sender>>

Numbers == 1 .. MaxLines
NoFate == [q \in Numbers |-> "none"]

At(pc) == [pc |-> pc, first |-> FALSE, was_enabled |-> FALSE, result |-> FALSE, seq |-> 0, newest |-> 0,
           budget |-> 0]

Init ==
  /\ LogInit
  /\ s_cache \in Configs /\ s_generation = 0
  /\ s_cfg = [enabled |-> FALSE, server_ip |-> 0, min_severity |-> 0] /\ s_seen_generation = 0
  /\ overtaken = FALSE
  /\ s_sock = FALSE /\ s_bound = FALSE
  /\ bridge = FALSE
  /\ event = [pc |-> "idle", result |-> FALSE]
  /\ s_cursor = 0 /\ s_stalls = 0 /\ s_last_send_failed = FALSE
  /\ fate = NoFate
  /\ s_logged_state = "never"
  /\ sender = [At("reload") EXCEPT !.first = TRUE]
-----------------------------------------------------------------------------
(* The tasks around the sender.                                            *)

\* A hook call; one that misses the lock changes nothing that is read here.
Logs(t, f, cut) ==
  /\ Capture(t, f, cut)
  /\ UNCHANGED <<config, mine, socket, net, drain, s_logged_state, sender>>

\* syslog_cfg_save(): the cache and its generation, under one lock.
Save(new) ==
  /\ s_generation < MaxSaves
  /\ s_cache' = new
  /\ s_generation' = s_generation + 1
  /\ overtaken' = (overtaken \/ sender.pc = "generation")
  /\ UNCHANGED <<logVars, s_cfg, s_seen_generation, socket, net, drain, s_logged_state, sender>>

\* bind_to_bridge(on): whether the socket is pinned afterwards, which it is
\* not if there is none, the bridge has no interface or the option is refused.
BindResults(on) == IF on /\ s_sock /\ bridge THEN BOOLEAN ELSE {FALSE}

\* The interface comes or goes, and the event task hears of it; the next
\* change waits until it has dealt with this one.
BridgeFlips ==
  /\ event.pc = "idle"
  /\ bridge' = ~bridge
  /\ event' = [event EXCEPT !.pc = "bind"]
  /\ UNCHANGED <<logVars, config, mine, socket, drain, s_logged_state, sender>>

\* br_netif_status_cb(): the system call, then the store of its result.
EventBinds ==
  /\ event.pc = "bind"
  /\ \E result \in BindResults(bridge) : event' = [pc |-> "store", result |-> result]
  /\ UNCHANGED <<logVars, config, mine, socket, bridge, drain, s_logged_state, sender>>

EventStores ==
  /\ event.pc = "store"
  /\ s_bound' = event.result
  /\ event' = [pc |-> "idle", result |-> FALSE]
  /\ UNCHANGED <<logVars, config, mine, s_sock, bridge, drain, s_logged_state, sender>>
-----------------------------------------------------------------------------
(* reload_config().                                                        *)

\* Mutant: a sender that is switched on does not look for a new configuration.
Wakes_busy ==
  /\ sender.pc = "wait"
  /\ sender' = At(IF ~s_cfg.enabled /\ s_generation # s_seen_generation THEN "reload" ELSE "test")
  /\ UNCHANGED <<logVars, config, mine, socket, net, drain, s_logged_state>>

\* The task wakes and compares generations.
Wakes ==
  /\ sender.pc = "wait"
  /\ sender' = At(IF s_generation # s_seen_generation THEN "reload" ELSE "test")
  /\ UNCHANGED <<logVars, config, mine, socket, net, drain, s_logged_state>>

\* syslog_cfg_get().
ReadsConfig ==
  /\ sender.pc = "reload"
  /\ s_cfg' = s_cache
  /\ overtaken' = FALSE
  /\ sender' = [sender EXCEPT !.pc = "generation", !.was_enabled = s_cfg.enabled]
  /\ UNCHANGED <<logVars, config, s_seen_generation, socket, net, drain, s_logged_state>>

\* The task's first call, before its loop, leads to waiting.
Reloaded == At(IF sender.first THEN "wait" ELSE "test")

\* Mutant: every reload starts over.
FreshStart_always(was_enabled) == s_cursor' = 0 /\ fate' = fate

\* Switched on: replay everything the ring still holds.
FreshStart(was_enabled) ==
  /\ s_cursor' = IF was_enabled THEN s_cursor ELSE 0
  /\ fate' = IF was_enabled THEN fate ELSE NoFate

\* Logging is on, and there is somebody to send to.
Addressed == s_cfg.enabled /\ s_cfg.server_ip # 0

\* open_socket() gets a new socket, which is then to be pinned to the bridge.
OpensSocket ==
  /\ Addressed /\ ~s_sock
  /\ s_sock' = TRUE
  /\ sender' = [sender EXCEPT !.pc = "bind"]
  /\ UNCHANGED <<s_bound, s_cursor, fate>>

\* open_socket() has one already, or gets none.
KeepsSocket ==
  /\ Addressed
  /\ FreshStart(sender.was_enabled)
  /\ sender' = Reloaded
  /\ UNCHANGED socket

\* close_socket().
ClosesSocket ==
  /\ ~Addressed
  /\ s_sock' = FALSE
  /\ s_bound' = IF s_sock THEN FALSE ELSE s_bound
  /\ sender' = Reloaded
  /\ UNCHANGED <<s_cursor, fate>>

\* syslog_cfg_generation(), under a lock of its own, and then the socket.
ReadsGeneration ==
  /\ sender.pc = "generation"
  /\ s_seen_generation' = s_generation
  /\ OpensSocket \/ KeepsSocket \/ ClosesSocket
  /\ UNCHANGED <<logVars, config, s_cfg, overtaken, net, s_stalls, s_last_send_failed, s_logged_state>>

\* bind_to_bridge(): the system call, and then the store of its result.
Binds ==
  /\ sender.pc = "bind"
  /\ \E result \in BindResults(TRUE) :
       sender' = [sender EXCEPT !.pc = "store", !.result = result]
  /\ UNCHANGED <<logVars, config, mine, socket, net, drain, s_logged_state>>

StoresBound ==
  /\ sender.pc = "store"
  /\ s_bound' = sender.result
  /\ FreshStart(sender.was_enabled)
  /\ sender' = Reloaded
  /\ UNCHANGED <<logVars, config, mine, s_sock, net, s_stalls, s_last_send_failed,
                 s_logged_state>>
-----------------------------------------------------------------------------
(* drain_pass(), and the loop around it.                                   *)

Tests ==
  /\ sender.pc = "test"
  /\ sender' = At(IF s_cfg.enabled /\ s_bound /\ s_sock THEN "pass" ELSE "settle")
  /\ UNCHANGED <<logVars, config, mine, socket, net, drain, s_logged_state>>

\* The ring's range is read; what has left the ring before it could be sent is
\* passed over.
PassBegins ==
  LET next == IF s_cursor + 1 < Oldest THEN Oldest ELSE s_cursor + 1
  IN  /\ sender.pc = "pass"
      /\ sender' = [At("line") EXCEPT !.seq = next, !.newest = Newest,
                                      !.budget = SYSLOG_BURST_MAX]
      /\ fate' = [q \in Numbers |-> IF q \in s_cursor + 1 .. next - 1 THEN "passed" ELSE fate[q]]
      /\ UNCHANGED <<logVars, config, mine, socket, net, s_cursor, s_stalls,
                     s_last_send_failed, s_logged_state>>

\* Done with line seq: to is what became of it, cost what it took of the burst.
Past(to, cost) ==
  /\ s_cursor' = sender.seq
  /\ fate' = [fate EXCEPT ![sender.seq] = to]
  /\ sender' = [sender EXCEPT !.seq = @ + 1, !.budget = @ - cost]

severity_from_letter(letter) ==
  CASE letter = "E" -> 3 [] letter = "W" -> 4 [] letter = "I" -> 6
    [] letter \in {"D", "V"} -> 7 [] OTHER -> 5

InBurst == sender.pc = "line" /\ sender.seq <= sender.newest /\ sender.budget > 0
Sendable == Held(sender.seq) /\ severity_from_letter(LineAt(sender.seq).letter) <= s_cfg.min_severity

\* Gone from the ring since the range was read, or not severe enough.
SkipsLine ==
  /\ InBurst /\ ~Sendable
  /\ Past("passed", 0)
  /\ UNCHANGED <<logVars, config, mine, socket, net, s_stalls, s_last_send_failed, s_logged_state>>

SendsLine ==
  /\ InBurst /\ Sendable
  /\ Past(IF fate[sender.seq] = "none" THEN "sent" ELSE "again", 1)
  /\ s_stalls' = 0
  /\ s_last_send_failed' = FALSE
  /\ UNCHANGED <<logVars, config, mine, socket, net, s_logged_state>>

\* Out of buffers is believed SYSLOG_STALL_MAX times in a row.
Stalling(err) == err = "stall" /\ s_stalls < SYSLOG_STALL_MAX

\* Mutant: the stalls are not counted.
SendFails_uncounted(err) ==
  /\ InBurst /\ Sendable
  /\ s_last_send_failed' = TRUE
  /\ \/ Stalling(err) /\ sender' = At("settle") /\ UNCHANGED <<s_cursor, fate>>
     \/ ~Stalling(err) /\ Past("passed", 1)
  /\ UNCHANGED <<logVars, config, mine, socket, net, s_stalls, s_logged_state>>

\* sendto() fails: the pass ends and the line is tried again, or it is given up.
SendFails(err) ==
  /\ InBurst /\ Sendable
  /\ s_last_send_failed' = TRUE
  /\ \/ /\ Stalling(err)
        /\ s_stalls' = s_stalls + 1
        /\ sender' = At("settle")
        /\ UNCHANGED <<s_cursor, fate>>
     \/ /\ ~Stalling(err)
        /\ Past("passed", 1)
        /\ UNCHANGED s_stalls
  /\ UNCHANGED <<logVars, config, mine, socket, net, s_logged_state>>

\* The burst is spent or the range done; more to send means another pass after
\* SYSLOG_PACE_MS.
PassEnds ==
  /\ sender.pc = "line" /\ ~InBurst
  /\ sender' = At(IF s_cursor < sender.newest THEN "pass" ELSE "settle")
  /\ UNCHANGED <<logVars, config, mine, socket, net, drain, s_logged_state>>

current_state ==
  IF ~s_cfg.enabled THEN "off"
  ELSE IF ~s_bound \/ ~s_sock THEN "waiting"
  ELSE IF s_last_send_failed THEN "failing" ELSE "shipping"

\* The level a state is reported at.
StateLetter == [off |-> "I", waiting |-> "W", shipping |-> "I", failing |-> "E"]

\* settle_log(): a change of state is logged, at most once a minute; the line
\* goes into the ring like any other.
Settles ==
  /\ sender.pc = "settle"
  /\ \/ /\ \/ current_state = s_logged_state
           \/ s_logged_state # "never"
           \/ s_total + 2 > MaxLines
        /\ UNCHANGED <<logVars, s_logged_state>>
     \/ /\ current_state # s_logged_state
        /\ s_total + 2 <= MaxLines
        /\ Capture("syslog", [letter |-> StateLetter[current_state], text |-> TRUE,
                               newline |-> "last"], FALSE)
        /\ s_logged_state' = current_state
  /\ sender' = At("wait")
  /\ UNCHANGED <<config, mine, socket, net, drain>>
-----------------------------------------------------------------------------
Reload == ReadsConfig \/ ReadsGeneration \/ Binds \/ StoresBound
Drain == \/ Tests \/ PassBegins \/ SkipsLine \/ SendsLine \/ PassEnds
         \/ \E err \in SendErrors : SendFails(err)
SenderStep == Wakes \/ Reload \/ Drain \/ Settles
EventStep == EventBinds \/ EventStores

Next ==
  \/ \E t \in Tasks, cut \in BOOLEAN : \E f \in Fragments[t] : Logs(t, f, cut)
  \/ \E new \in Configs : Save(new)
  \/ BridgeFlips \/ EventStep \/ SenderStep

\* Both tasks are scheduled: the sender wakes every second by itself.
Spec == Init /\ [][Next]_vars /\ WF_vars(SenderStep) /\ WF_vars(EventStep)
-----------------------------------------------------------------------------
\* The types of the variables; the cursor stays within what was ever stored.
TypeOK ==
  /\ LogTypeOK /\ s_cursor \in 0 .. s_total
  /\ s_cache \in Configs /\ s_cfg.enabled \in BOOLEAN
  /\ s_seen_generation \in 0 .. s_generation
  /\ {s_sock, s_bound, bridge, s_last_send_failed} \subseteq BOOLEAN
  /\ s_stalls \in 0 .. SYSLOG_STALL_MAX

\* From one switching on to the next, every line up to the cursor was sent
\* once, or held back for its severity, or given up after an error, or had
\* left the ring: a stalled pass, a second burst, a wrapping ring and a saved
\* configuration neither repeat nor lose one.
EachLineOnce ==
  \A q \in Numbers : fate[q] # "again" /\ (q <= s_cursor => fate[q] # "none")

\* A saved configuration reaches the sender, however long it is kept busy by
\* bursts and stalls: over and over its copy is what is saved.  The exception
\* is a save that falls between syslog_cfg_get() and syslog_cfg_generation()
\* in reload_config(): the sender takes its number for seen without having its
\* values, and keeps the older ones until the next save.
SavedReachesSender == []<>(s_cfg = s_cache \/ overtaken)

\* While it is switched on and pinned for good, the sender gets past every
\* line, whatever sendto() answers ("treating the second as the first is a
\* sender that retries one line [...] with the backlog never draining").
Draining == s_cfg.enabled /\ s_cache.enabled /\ s_sock /\ s_bound
BacklogDrains ==
  \A q \in Numbers : <>[]Draining => (s_total >= q ~> s_cursor >= q)
=============================================================================
