# Verification of the WT32-ETH01 router firmware

TLA+ models of the firmware's own logic (`src/main/`), the TLC configurations
that check them on small instances, and proofs, checked by TLAPS, of the
results that matter most.

Every definition that stands for code is listed in `PROJECT.json` under `map`,
with the file and the lines it was translated from. The models keep the control
of the code (guards, early returns, error paths, order) and abstract its data:
a MAC is a model value, a lease time is "live" or "lapsed", a log line is where
its pieces came from.

## 1. The system

The device bridges an Ethernet port and a WiFi access point (or uses the WiFi
as an uplink, "WAN"), serves DHCP on the bridge, cuts off clients that use
somebody else's address, keeps a log ring and ships it to a syslog collector,
and has a web page and a serial console for its settings.

| Part | State | Operations | Talks to |
|---|---|---|---|
| DHCP server, `dhcp_server.c` | lease table, declined addresses, boot generation, dirty flag, blob in NVS | the five messages, `note_observed_ip`, `set_quarantined`, debounced save, load at boot | client tracking calls it (both directions, two mutexes never held together); LAN clients |
| Duplicate-address quarantine, `client_track.c` | client table, conflict records, exemptions, kill switch, the published table | traffic accounting, once-a-second rebuild, pardon, enforce, lookup per frame | reads leases from the DHCP server, tells it who is cut off; forwarding path reads the table without a lock |
| Traffic accounting, `client_track.c` | counters, port table, history ring, traffic queue | frame wrappers, `traffic_account_task`, ageing | lwIP bridge ports |
| Log ring, `log_buf.c` | ring, pending line, missed counter | vprintf hook, range and line reads | every task; web page, syslog |
| Syslog sender, `syslog.c` with `syslog_cfg.c` | copy of the configuration, socket, binding, cursor, stall counter | wake, reload, drain pass, settle | log ring, bridge interface events, whoever saves |
| WAN uplink, `wan.c` | link state, backoff, retry timer, double-buffered rule set | six event handlers, timer, publish, port list change, two packet filters | WiFi driver, DHCP client, `wan_cfg.c`, `clock_time.c` |
| Clock, `clock_time.c`, `clock_cfg.c` | NTP client running, last set time, zone | WAN up/down, sync, manual set | WAN |
| Reset log and rail witness, `reset_log.c`, `rail_witness.c` | block in RTC memory, ring and checkpoint in NVS, PHY register | record of the last boot's end, uptime tick, checkpoints, intent, late date; probe and arm | `app_main()` in a fixed order, clock, OTA state, `sys_monitor.c` |
| Settings, `wifi_cfg.c`, `auth_cfg.c`, `syslog_cfg.c`, `wan_cfg.c`, `clock_cfg.c` | keys in NVS, a copy in RAM (none for the access point), the syslog generation | load at boot or at first use, get, validate, save key by key | web server and console change them; radio, syslog, WAN and clock use them |
| Web server, `web_server.c` | the request being served (one worker) | login and default-password gate, five requests that save, log poll and download, update, pages | settings, log ring, WAN, reset log |
| Serial console, `serial_console.c` | the command being run | the same settings, reboot, factory reset, pardon, kill switch | settings, quarantine, WAN |
| LED, monitor, Ethernet, `main.c` | display state, boot order | timers, start of everything | all of the above |

What is hard about it:

* **Crashes.** A save of settings is up to four writes that land one by one. The
  lease table reaches flash up to a debounce after the client
  was told its address, a write may fail after it reached the flash, and the
  device is powered from a vehicle. The reset log explains those very resets
  from four memories, each of which survives different ones.
* **Interleavings.** The forwarding path reads the quarantine table word by word
  without a lock. The rebuild reads the leases before it takes its lock and tells
  the DHCP server after it has released it; the console changes the records in
  between. The syslog sender and an event callback both store the binding. Rules
  for the packet filter are published by three tasks, which read the port list
  before they take the mutex. The web server and the console read, change and save
  the same settings with nothing held in between. The log page and the download
  give the ring back after every line.
* **Order of events.** Uplink address before or after the bridge's interface;
  a disconnection that the handler itself provoked; clients that arrive, age out
  and return.
* **Limits.** Lease slots, declined addresses, conflict records, client entries,
  a ring that overtakes its reader, an 8-bit counter.
* **Things that must go on happening.** A cut-off client that moved must be
  carried again, a backlog must drain past a dead collector, an uplink must be
  retried, the log page must catch up, a changed radio must be restarted.

`PROJECT.json` lists these under `hazards`, each at the line where it bites,
with the properties that watch it.

## 2. The modules

| Module | Models | Extends |
|---|---|---|
| `DhcpServer` | the server alone: table, selection, flash, restarts | |
| `AddressGrants` | abstract: an address goes to one client at a time, and a grant ends only with its holder | |
| `DhcpLan` | the server with clients that believe what they are told | `DhcpServer`, instantiates `AddressGrants` |
| `DhcpSticky` | the server among clients that keep to themselves and remember what they were told, with fairness | `DhcpServer` |
| `QuarantineTable` | publisher against the frame wrappers of a port, one step per shared word | |
| `Quarantine` | client table, conflict records, tick, console | |
| `LogBuf` | the hook and the ring | |
| `LogPage` | log poll, log download and the page, over the ring | `LogBuf` |
| `Syslog` | the sender and its surroundings, over the ring | `LogBuf` |
| `WanFilter` | the two packet filters, as operators | |
| `WanPublish` | `publish_rules()` as several tasks call it | `WanFilter` |
| `Wan` | event task, driver, timer | `WanPublish` |
| `Settings` | the five kinds of settings in flash and RAM, web server and console that change them, the rules a port list leads to | `WanPublish` |
| `ResetLog` | reset log, clock, rail witness and boot order, over resets | |
| `DhcpProofs` | theorems about the server alone and among undemanding clients | `DhcpSticky` |
| `DhcpLanProofs` | theorems about the server with its clients | `DhcpLan`, `DhcpProofs` |
| `QuarantineTableProofs`, `QuarantineProofs` | theorems about the table and the records | the module they are about |
| `LogProofs` | theorems about ring, sender, page and file | `Syslog`, `LogPage` |
| `WanProofs`, `SettingsProofs`, `ResetLogProofs` | theorems | the module they are about |
| `MC...` | constants and symmetry sets for TLC | the module they instantiate |

### DHCP

`s_leases` is a function from MAC to entry. The code uses an array, but takes a
slot only after a lookup by MAC has failed, so no MAC has two entries. Array
order decides between equally old victims; the model allows either.
`Discover`, `Request`, `RequestOther`, `Decline` and `Release` are the branches
of `handle_message()`; `NoteObserved` and `SetQuarantined` the two calls of
client tracking; `DebounceExpires`, `SaveOk` and `SaveFails` the write at the end of
the task loop (a failed write may or may not have replaced the blob); `Reboot` is power loss at any point followed by
`load_from_nvs()`. `select_address` follows the four steps in order (own
reservation, requested address, lowest unclaimed, the oldest reservation of
somebody not heard this boot), in the wired range first for a wired client.
`Record` is `commit_lease_locked()` with its eviction, the clash with the
previous holder, and the case with no slot left, in which the address is handed
out without an entry, as the code does.

Time: `expires` is `zero`, `live` or `lapsed`, and a live lease may lapse at any
moment. `last_seen_us` only tells "restored" from "heard since". Boot
generations are kept as numbers because forgetting depends on them.

`DhcpLan` adds `granted`, what each client believes it holds. Clients are
external: they may miss a reply, leave silently, renew, decline, go to another
server, use an address of their own. Their lease runs out no later than the
server's record of it (the client counts from its request). Two things are left out
of it, each because the code keeps no promise there (section 5): an acknowledgement
that found no slot in the table (`Recorded`) is no grant, and a client that leases in
one range and was last seen on an address of the other does not release (`Strayed`).

`DhcpSticky` adds `remembers`, the address each client was told last, whether or not
the bridge still knows of it: an acknowledgement may be lost to a power cut before the
save, and the client asks for that address all the same. A client's `Home` is the range
that serves it first.

### Quarantine

`QuarantineTable` has a step for each load and store of a shared word: the gate
`s_q_any`, the generation `s_q_gen`, the two halves of each slot. The reader is
a frame wrapper, in either direction, with its test for DHCP: before the lookup
on the way in, after it on the way out. Lengths are kept as how far the headers
can be read, in the whole frame and in its first segment. `current` is
a history variable, the set in force.

`Quarantine` has the three tasks that meet in `client_track.c`: traffic
accounting (`Traffic`, `Frame`), the tick, which releases the lock twice
(`TickSurveys`, `TickRebuilds`, `TickPushes`), and the console (`Pardon`,
`WithdrawPardons`, `Enforce`). `claim` stands for the DHCP server
(`lease_effective_ip()`), which may change between any two of them.
`ip_since_us` is kept as an order of arrival, all the code compares.

### Log ring, log page and syslog

A hook call brings a fragment; a pending line remembers whose fragments and
which console levels went into it, so that "this line is one task's" can be
stated. `cut` is the pending buffer filling up in the middle of a fragment.

`LogPage` has one worker with one request at a time. The range is read in one
step and each line in one more, as the code does with the ring's lock. Whether a
line fits the buffer is a choice (`CopiesLine` or `BufferFull`), but the first one
always does: `logs_get_handler()` reckons its buffer for the longest line there
is. The page takes the entries and the cursor of an answer that arrives;
`Counts` is a reader who expects the next number after each line and believes the
notes about lost ones. `behind` is a history variable: the device has restarted
under the page's cursor. Its specification is `PageSpec`, next to `Syslog`'s `Spec`
over the same ring.

The sender's steps are split where another task could come between: reading the
configuration and its generation (two locks), the bind and the store of its
result, the range and each line of it. `fate` is a history variable: what
became of each line since the sender was switched on; `overtaken` is one too: a
save fell between the two reads. A configuration is a switch and an address, and an
address of 0 keeps the socket closed (`Addressed`), as a save that stopped between its
keys may leave it.

### WAN

`WanPublish` has the steps of `publish_rules()`: the list is read, the mutex taken
and the idle buffer filled, the pointer stored. `Wan` and `Settings` both use it.

In `Wan`, event handlers run one at a time; each is split at `publish_rules()`.
The driver and the DHCP client are external: they post
events, several of which may wait. `esp_wifi_connect()` does something only when
the station is idle, which is why a retry that fires late is harmless.
The filter's operators follow `egress_allowed()` and `ingress_allowed()` test by
test; a frame says how far the filter can read it. `Requests(r)` are the frames that
leave the device: translated ones, those of its own clients, and questions to the
resolver of the rule set `r` only. `OnlyAnswersGetIn` says which of their answers get in.
An address is the set of its bits that are 1, and so is a mask; `Overlaps` is the
test of `on_got_ip()` on such sets.

### Settings

Flash is a value for each key of each namespace, `Absent` for a key that is not
there; `Load` fills in the defaults, key by key. A web request is admitted
(`WebAdmits`: login, gate of the default password), its body arrives, and from then on
it does what a console command does: `Edits` reads the settings, changes and
checks them, `SetsKey` writes the next key, `Saves` copies them to RAM, `SaveFails`
leaves what was written so far. Then comes a restart, `wan_ports_changed()` or
nothing. A restart is preceded by a delay in which the other editor goes on.
`cmd_factory_reset` erases namespace after namespace, any of which may fail, the leases
too (`ErasedAll`), and then there is no restart. A refused request loads the login as an
admitted one does (`WebRefuses`). Power
may be cut at any moment. The changes of the uplink (`UplinkChanges`) stand for the
event handlers of `Wan`.

Values are `Names`, a port list is a set of rules; `Inputs` lists what each editor may send: a valid change, the
empty value, one that is refused. `torn`, `chosen` and `overtaken` are
history variables; `torn` says of a namespace whether its last save was alone and
whole.

### Reset log

`pc` is how far `app_main()` has come; a reset may fall between any two stages,
and between two stores of an update of RTC memory. The block has three facts, each
stored twice (`Pairs`; `torn` are those that do not agree), and `LeftOver` lists what a
reset may leave: a pair torn that the timer, a restart or the end of the startup was
writing, or `rtc_seed()` half done (`HalfSeeded`), with the first pairs already started over,
the next one torn or not yet begun. Four memories are told
apart by what they survive: flash (everything), OTA slots (everything), RTC
memory (not power loss and not EN), the PHY register (not power loss, and the
driver clears it). `NewRecord` is the body of `reset_log_init()`; the ring and
the seed of the checkpoint are two writes, since the two are two keys. Timer
callbacks and the once-a-second calls of `sys_monitor.c` come whenever their
task runs. The bootloader, and uploads that succeed, are external.

`mine` and `past` are history variables, what really happened to this boot
and to those before; the properties compare the records with them. Time is
exact: the drift of the RTC oscillator is not modelled, and
neither is the rewriting of the pattern by `rail_witness_tick()`. TLC uses a
view (`Ahead`) that leaves out what no later step and no property looks at:
records older than the newest, checkpoints that match no boot to come, facts of the RTC
block that do not check.

## 3. What is checked

| Run | Shows |
|---|---|
| `dhcp_lan` | three clients, two slots, a pool and a wired range of one address each, one place for a declined address, from blobs of each older format; one client sets itself an address and is cut off for it; lost replies, failed writes, restarts: fixed arrays are not overrun (`WithinArrays`), every address offered belongs to the port and was not declined (`ServedInRange`), no double lease (`UniqueLease`), every recorded grant backed by a live entry (`GrantBacked`) and in flash once the table is clean (`GrantStored`); saved halves agree with flash (`CleanMeansSaved`); and the server implements `AddressGrants` (`KeepsPromise`) |
| `dhcp_sticky` | two clients on two addresses, which may ask for what they were told last: a reserved address goes to somebody else only if that one was told it before and asks for it by name, and nobody else keeps its client from it (`Sticky`); an acknowledged address reaches flash (`AckReachesFlash`) |
| `dhcp_taken_over` | **violated**: see findings |
| `quarantine_table` | no torn table drops the frame of an innocent client, and no DHCP message of anybody is dropped (`NoWrongDrop`); an undisturbed lookup is exact (`ExactWhenStill`) |
| `quarantine_console` | forwarding drops exactly whom the records convict (`PublishedIsArmed`), pardons hold (`PardonHolds`) and reach the server (`PardonReachesServer`), a convicted client does not change (`NoOscillation`), who has moved is carried (`MovedIsCarried`) |
| `quarantine_all_cut_off` | **violated**: see findings |
| `log_page` | lines are never mixed (`LinesWhole`); within a boot the page's lines and notes add up to the whole log, each note at its place (`PageAddsUp`); so do those of a downloaded file (`FileAddsUp`); the page comes to the end of the log, however little fits into an answer and however many are lost (`PageCatchesUp`) |
| `syslog` | no line twice, none skipped without a reason (`EachLineOnce`), the backlog drains whatever `sendto()` says (`BacklogDrains`), a saved configuration reaches the sender unless it falls between its two reads (`SavedReachesSender`) |
| `wan_link` | between two events filter, shown state and clock agree, and what is up does not overlap the bridge's network (`UpIsUsable`); address translation whichever side comes first (`NaptFollowsBridge`), conflict waits (`ConflictWaits`), retries go on (`RetriesGoOn`) |
| `settings` | rules in force are one publisher's (`PublishedWhole`), they let answers in and nobody to the web server (`OnlyAnswersGetIn`), and are those of the saved list once its savers have returned (`ListInForce`); a request is served under a password that is not the default, whatever the console does meanwhile (`WebIsGated`); no failed or broken save brings the default back (`DefaultStaysOut`); a restart brings back what is in force (`RestartKeeps`); the radio comes to do what flash says (`RadioFollows`) |
| `wan_stuck` | **violated**: see findings |
| `reset_log` | up to three resets of every kind at every point, from flash of an older and of a newer build: an uptime taken from the checkpoint is a true window (`FloorWindow`), one from RTC memory is of the last boot that started the block over, but for what a boot that ended while doing so had already done (`PrevStateTrue`), a rollback is told once and only once (`RollbackTold`), a date is the moment the boot started, however late the clock was set (`StampTrue`), the PHY never says "held" after a power loss (`WitnessHonest`) |

Each property has a mutant in `PROJECT.json`: a plausible slip in the code, as
an operator next to the original, under which TLC finds the property violated.

### Bounds

| Bound | Where | Why it is enough |
|---|---|---|
| `MaxBootSeq` 2 or 3 | DHCP | with `FORGET_AFTER_BOOTS` 1 a client is forgotten within it; restarts without a write in between are unbounded, since they do not raise the stored generation |
| `MAX_LEASES` 2, three clients (`dhcp_lan`) or two (`dhcp_sticky`), ranges of one or two addresses | DHCP | one client more than slots, and one more than addresses in each range, so that slots and addresses are both reclaimed; with two clients nothing is ever short, which is what stickiness is about; the theorems lift the number of clients and the ranges |
| a view in `dhcp_lan` (`Ahead`) | DHCP | left out is what no later step and no invariant looks at: the last reply (an action property does, which TLC evaluates on every step it takes), what entries believe of flash while the table is dirty (the next save overwrites it), and flash once the boots have reached `MaxBootSeq` and the table is dirty |
| `Elsewhere` {0, 2} | `dhcp_sticky` | a client may come with the memory of an address that is somebody else's by now |
| `MaxPublish` 3, two slots, two words each | table | a lookup can be overlapped by two rewrites; every torn pair of words is the MAC of another client |
| `Q_ARM_TICKS` 1-2, `Q_DISARM_TICKS` 2, `Q_FORGET_TICKS` 2-3 for 3, 10, 30 | quarantine | each counter counts at least once below its limit somewhere; the code only compares them with their limits |
| `MaxLines` 5 and 3 over a ring of 2; `MaxMissed` 1; `MaxBoots` 1 | log | the ring wraps twice, and overtakes a page, a download or the sender in the middle of its range; numbers start over once |
| `MaxSaves` 2, `SYSLOG_BURST_MAX` 1, `SYSLOG_STALL_MAX` 1 | syslog | on, off and on again; several bursts for one backlog |
| `MaxQueue` 1-2 | WAN | an event may wait behind another while a third is handled |
| `MaxCommands` 2, `MaxEvents` 1, three ports of which one is 53, two hosts, from a new device and one set up with an uplink | settings | two editors overlap in any two commands with a publication of the event task in between; a list may name the resolver's port, and a question may go to another host; power cuts are unbounded |
| backoff 1, 3, 5 for 1, 60, 300 s; `AuthWrap` 4 for 256 | WAN | doubling reaches its cap by more than a doubling; the counter wraps |
| `MaxTime` 3, `MaxResets` 3, checkpoints at 1 and 2, ring of 2 | reset log | a boot may end before, between and after its checkpoints, the ring drops a record, and a trial image, its rollback and the boot after that fit |
| `Refusable` without the ring's own write | reset log | when that write is refused the number is used again, and the floor may be of the boot before: see findings |

Deadlock is checked everywhere.

### Fairness

* `DhcpSticky`: the server's task waits for a message for one second at most, so
  a debounce runs out (weak fairness), and flash does not refuse every write for
  ever (strong fairness of `SaveOk`).
* `Quarantine`: `client_track_task` is a loop with a one-second delay (weak
  fairness of each tick step). Nothing is assumed of traffic or the console.
* `Syslog`: the sender wakes every `SYSLOG_IDLE_TICK_MS` without being notified,
  and the event task runs. Nothing is assumed of `sendto()`.
* `LogPage`: the worker runs (weak fairness). The page polls every second and
  the worker takes waiting requests in turn, so its request is served though
  downloads come between (strong fairness of `PageAsks`), and not every answer is lost
  (strong fairness of `PageReads`).
* `Settings`: a command or request that is being carried out goes on (weak
  fairness of each editor's steps); nothing is assumed of who sends what.
* `Wan`: event task and timer run, and the driver ends every connection
  attempt in one way or the other. Nothing says it ever succeeds.

## 4. What is proved

Every safety property of the passing runs, invariant or action property, is also
a theorem (`PROJECT.json` lists them under `theorems`), for every value of the
constants: any number of clients, addresses, slots, words, tasks, lines, ports and
values, any schedule and any flash that some version of the firmware could have
left. The bounds in the guards (`MaxLines`, `MaxCommands`, `MaxResets`...) are
constants like the others, so they limit nothing in a theorem.

Most of the properties are not inductive. What each proof adds, and why:

* **DHCP server** (`DhcpProofs`). `TypeCorrect`, `NoDoubleLease`: `IndInv` adds to the
  types that the table is well formed and that *flash* holds no address twice,
  without which a restart would break it. `CommitWellFormed` is the heart: clearing
  one previous holder suffices because there is at most one. `ServesItsRange` needs no
  more than that, step by step through `SelectIn`. `ArraysHold`: `SizeInv` says that what is in flash
  fits the table too, since a reload fills it unasked. `CleanIsSaved`:
  `CleanMeansSaved` is inductive next to `IndInv`; the argument goes entry by entry
  (`Remembers`), because a step changes one entry and the dirty mark for all.
* **Stickiness** (`DhcpProofs!ReservationsStick`). `StickyInv`: whoever flash still knows has
  an entry with that address, or somebody has it who was told it (`Kept`); every entry leases from its
  client's own range (`Plain`) and nothing is declined or cut off.
  An entry is never reclaimed because the scan of step 3 always finds an address, by
  the pigeonhole principle (`SomeAddressLeft`), range by range, and step 2 is taken only by
  a client that names what it was told. Condition `Ample`.
* **Server and clients** (`DhcpLanProofs`). `GrantsBacked`, `NoSharedGrant`,
  `ServerKeepsPromise` (the refinement of `AddressGrants`), `GrantsStored`, with two ranges and
  more clients than slots, without a condition. `LanInv` adds to
  `GrantBacked` that the entry behind a grant is not cut off and was heard this boot
  (so it is nobody's victim and its address nobody's to take), and `Safe`, which says
  who may stand on an address that a reclaim hands out: an entry not heard this boot
  that leases nothing in a range but was seen on an address of it (`Lonely`) is reclaimed
  *for that address*, so nobody else may lease it. A client that strayed from one range to the
  other would become such an entry by releasing, since a release takes it for not heard
  this boot, which is why the model has it keep its lease. `GrantSaved` says that a grant's
  address is in the saved half of its entry while the table is clean.
* **Quarantine table** (`QuarantineTableProofs`). `TypeCorrect`, `NeverAWrongDrop`: while
  the generation is even the table is what was published (`Settled`), how far a
  rewrite has come (`Rewriting`), and a reader whose generation is still the current
  one has only seen words of that table (`ReaderKnows`), for a frame that is looked
  up at all; `DhcpSeen` adds that the two tests for DHCP agree. `ExactLookup` is the
  converse: `ExactInv` says that the slots hold *all* of the set, that the gate is open
  whenever there is something to find, and that the slots an undisturbed reader has
  passed were not its client's.
* **Quarantine** (`QuarantineProofs`). `ForwardingFollows`, `PardonsHold`, `Steady`, `ListFits`: what is published is
  a function of the records, so the invariant is about those: an armed record is in
  use, names nobody who is pardoned, and there are no more records in use than slots.
  `ListFits` discharges what `QuarantineTable` assumes of its caller.
* **Log ring** (`LogProofs`). `LinesStayWhole`, `NumbersHold`: the pending line is one task's
  at one level (`IsPending`), and two numbers less than a ring apart share no slot
  (`Quotient`, `NoMultipleBetween`), which is what makes an index modulo the ring's
  size right after any number of wraps; one call may store three lines.
* **Syslog** (`LogProofs!ShippedOnce`). `ShipInv`: behind the cursor every line has a
  fate (`Behind`), ahead of it none has, but for lines that left the ring (`Ahead`), and between the cursor and the line a
  pass has come to all were passed over (`Between`), since the cursor follows only
  when a line has been sent or the pass is over.
* **Log page and file** (`LogProofs!PageTrue`, `FileTrue`). `PageInv`: while no restart went
  unnoticed the reader's count *is* the cursor; what has been put together of an answer
  counts, from its first line, up to the line before the present one less the gap not
  noted yet (`AnswerInv`); and the answer begins where the cursor ended plus what was
  reported lost (`AskedFor`). The count is a recursive function over entries of any
  number; that it is what the worker adds up entry by entry is shown by the least
  counterexample (below).
* **WAN** (`WanProofs`). `TypeCorrect`, `UpUsable`, `NaptOn`, `ConflictKept`. A handler sets the
  state before `publish_rules()` and the rest after it, so the invariant says what
  each handler has done and asked for (`Handling`), what filter and clock have
  followed of it (`Followed`), and that the station's start is the first event of all
  (`Starting`). Addresses and masks are sets of bits, so that `Overlaps` is the code's
  test on any two of them; `UpIsUsable` speaks of every host address of the two.
* **Settings** (`SettingsProofs`). `RulesWhole`, `AnswersOnly`, `Gated`, `ChosenStays`,
  `Restored`, `SavedInForce`, from one invariant: at most one publisher is filling, and
  never the active buffer (`Exclusive`); a command that saves has a checked value to
  write (`StoreOK`), and if it is alone flash holds what it has written so far (`Alone`);
  once a password was chosen, neither flash nor RAM has the default (`Password`); the list in force, or one on its way to
  be (`OnItsWay`), is the saved one. `AnswersOnly` is a theorem about the filters'
  operators (`FilterAnswers`) for every rule set in which the filter is up.
* **Reset log** (`ResetLogProofs`). `DatesTrue`: a time RTC memory knows of is set.
  `WitnessTrue`: the register holds the pattern for as long as the boot that wrote it
  runs, and until the next has looked. `RtcTrue`: the block is the last boot's until
  this one seeds it, and a block that passes its checks after a seed that broke off holds
  that boot's facts or the beginning's, pair by pair (`Passed`). `RollbacksTold`: at most one image is on trial and never the only
  good one (`SlotInv`); until this boot's record is in flash, the newest one there
  tells of the boot before, afterwards there is nothing left to tell (`RollInv`).
  `FloorsTrue`: before the record the checkpoint is not of this boot's number, after it
  the checkpoint is a floor that this boot reached (`FloorInv`), and the next time of
  the schedule is the ceiling (`PlaceAfter`).

### Conditions

Named `ASSUME`s of the modules, which TLC evaluates in every run, say that constants
have their types, that the ranges lie in the subnet, that the blobs flash may begin
with hold no address twice (`FlashAssumption`) and no more entries than
slots (`BlobAssumption`: `load_from_nvs()` refuses others), and that `Absent` is no
value a key may have. Some theorems have conditions of their own; each is one that
the code needs, and the runs' constants satisfy it:

| Condition | Of | Without it |
|---|---|---|
| `Ample`: a slot for every client and in each range an address for every client served from it, initial blobs in which each client leases in its own range and was seen nowhere else | `ReservationsStick` | a full range is reclaimed from, as the documents say it is |
| `"blob"` not in `Refusable`: the ring's own write is not refused | `RollbacksTold`, `FloorsTrue` | the number is used again, see findings |
| `NoCollision`: flash does not begin with a checkpoint of a number this history will use | `FloorsTrue` | a ring of an unknown version restarts the numbers, see findings |

The history the reset log's theorems speak of has `MaxResets` resets, any number.

### Induction, and what is only model-checked

The library's induction theorems take an operator as a parameter and cannot be
used. What can be is that the naturals are well founded: from it `Least` (every
nonempty set of numbers has a least one) is proved, and an induction is an argument
about the least counterexample. `LogProofs` uses it for the running count of the page,
`ResetLogProofs` for the next place in the checkpoint schedule.

Only model-checked: everything under fairness (`AckReachesFlash`, `MovedIsCarried`,
`PardonReachesServer`, `BacklogDrains`, `SavedReachesSender`, `RetriesGoOn`,
`PageCatchesUp`, `RadioFollows`), which is out of the prover's reach, and the three
violations, which are counterexamples.

Proved, and checked by no run: `TypeOK` of `DhcpServer` and of `Wan`, `GrantsUnique`,
`RingIndexed`, and `NothingClipped` of `QuarantineProofs`.

## 5. Findings

Three runs are expected to be violated:

* `dhcp_taken_over`. `README.md:135` says that a reserved address "is only given to
  someone else if the range runs out". Step 2 of `select_address_locked()`
  (840-843) gives it to whoever asks for it by name while its client's lease
  is not live, and the clash rule (935-940) then drops it from that client. TLC's
  history: a client is acknowledged .2 and power goes before the save; .2 is given to
  another, saved, and its lease lapses; the first asks for .2, which it remembers.
  The comment on step 2 has only the case in mind in which flash was cleared.

* `quarantine_all_cut_off`. `client_track.h:185` says that whichever MAC was on
  an address first keeps it. The decision of an armed record is kept, though, when
  its winner has aged out and come back as the latest arrival. Three clients that
  come and go can then each be cut off for the sake of another, and nobody on the
  address is carried.
* `wan_stuck`. `README.md:969` says that after a subnet conflict "the device
  retries every 5 minutes in case it is fixed". `on_got_ip()` schedules one
  retry; if that attempt fails to join, `on_sta_disconnected()` returns early
  because the state is still `SUBNET_CONFLICT`, and nothing is scheduled again.

Observed while modelling, with no run of their own:

* `syslog.c:520-521` reads configuration and generation under two locks. A save in
  between is marked as seen and never loaded, although `syslog.h` says a
  forgotten notification "costs a second, not correctness". TLC finds it when
  `overtaken` is left out of `SavedReachesSender`.
* `syslog.c:569` goes on from pass to pass without looking at `s_bound`, so the
  cursor can move after the bridge has gone down; `syslog.h` says it does not.
* A pass that jumps over aged-out lines and then stalls counts them again in the
  next pass (331-343, 412-415).
* `wan.c:868-872` reads the link's state outside the mutex, so a port list
  saved while the link changes can publish the state from before.
* `wan.c:83` reads the port list before it takes the mutex. A task that has read
  the older list may publish after the one that saved the newer: the older stays
  in force until the next save or change of the uplink, although `wan.h:92` says
  "Takes effect on the next packet" and `serial_console.c:1243` "In effect now".
  TLC finds it when `overtaken` is left out of `ListInForce`.
* `serial_console.c:1332-1349`: settings saved by the web server while a factory
  reset is on its way, or in the 200 ms before its restart, are in flash afterwards.
* An empty port list saved with the uplink off is stored, and read back
  as the compiled-in list (`wan_cfg.c`); `RestartKeeps` counts the two as equal.
* Two saves of one namespace that overlap leave a mixture of the two in flash and
  one of them in RAM (no `_cfg.c` holds its mutex over the writes).
* `web_server.c:835` says the page "reloads credentials from NVS"; they come from the
  copy in RAM.
* `web_server.c:1855` takes a cursor ahead of the newest line for a restart. Once the
  new boot has logged as many lines the restart is not noticed, and the page goes on
  with lines of another boot, although `README.md:594` says it is reported.
* `wan.c:54-61`: a reader that holds a snapshot over two publications sees the
  buffer being rewritten; the comment accepts this.
* With the lease table full, two clients can be given one address
  (`dhcp_server.c:921-923`, against `README.md:199`).
* A client that leases in one range, is seen on an address of the other and sends a
  DHCPRELEASE (1304-1326) counts from then on as not heard this boot, and its entry still
  names that address. Step 4 takes the entry and hands out the address it was seen on
  (`reclaimable_address()`, 683-692, with 712-752 and 862-867), although another client
  holds a live lease on it, which the clash rule (935-940) then drops.
  TLC finds `GrantBacked` violated when `~Strayed(m)` is left out of `ClientReleases`.
* A manually set address can be handed out by step 4 when its entry was not
  heard this boot (862-867, 712-752, against `README.md:178`).
* An offer is persisted by any save that happens while it is held (1208-1209
  against 504-524).
* Entries dropped by `RequestOther`, and declined or clashing entries that had
  only an observed address saved, do not mark the table dirty (1224-1233,
  1291, 937).
* A frame on its way *to* a client refreshes it (`client_track.c:466`), so a
  client that is gone can stay recent as long as others talk to it.
* `reset_log.c:112-117` says that a checkpoint "left behind by an older boot is
  discarded rather than misattributed". If the ring's write is refused the next
  boot uses the same number again; should power fail between its ring and its
  seed, the boot after takes the older checkpoint for its own. TLC finds
  `FloorWindow` violated with `"blob"` in `Refusable`. A refused checkpoint
  also makes the ceiling untrue.
* `rail_witness.h:80` says that when the register holds no pattern "every later
  probe will read UNKNOWN". Nothing remembers that over a reset: the register
  reads 0, and the next probe says "dropped" whatever the reset was. The same
  holds for a boot that ends between `eth_init()` and `rail_witness_arm()`
  (`main.c:401`). TLC finds it when `~past.armed` is left out of `WitnessHonest`.
* `reset_log.c:190-195` says of the complement pairs that "each fact validates on its
  own, so a reset landing mid-update costs that field only and there is no write-ordering
  subtlety to get wrong". There are two. `prev_valid` (539-545) wants all pairs to be
  whole, so a torn one costs all of them, and `reset_log.h:55` reads such a record as a
  power event. And a reset between two pairs of `rtc_seed()` (490-499) leaves a block in
  which every pair is whole and which is nobody's: uptime 0 of the boot that ended there,
  "reached ready" still of the one before. The next record takes the two for one boot that
  finished its startup at 0 seconds. TLC finds it when `past.halfway` is left out of `OfLastBoot`.
* A boot that ends before `rtc_seed()` (551) leaves the block of the boot before
  it, so the next record joins the reason of one with the uptime and intent of
  the other.
* A ring of an unknown version restarts the numbers at 1 (276-294) and leaves
  the old checkpoint, which a later boot with that number may find.
* `client_track.c:586-602` reads a frame's headers from its first segment when the
  IP header is there. If that segment ends before the UDP ports, a DHCP message
  on the way in is not recognised (its source address is learned, and it is
  dropped if its sender is cut off); on the way out it is, since
  `frame_is_dhcp()` copies.
* `client_track.h:220`: a pardon also returns false for a client already
  exempt (1577).

## 6. Not modelled

* Traffic counters and history ring of `client_track.c`: display data. The table
  of DHCP ports, so far: `DhcpServer` takes either port for any message.
* Of the web server and the console, what only reads and prints: pages, status
  answers, the commands that show things. Parsing of headers, bodies and port
  lists; the throttle after a wrong password, which delays the one worker and
  keeps no state.
* Of `main.c` what is neither in the order of `ResetLog`'s stages nor a load of
  settings.
* Meaning of a zone, staleness and drift of the clock, the tick of the rail
  witness, failing uploads.
* Ethernet link, LED, monitor: drivers and display.
* Wrap-around of the 32-bit generation in the quarantine table: decades at one
  publication a second.

## 7. Plan

Done in this order, most important first: DHCP server and its clients,
quarantine table, quarantine, log ring, syslog, WAN, reset log; then settings with
web server and console, and the log page; then the theorems, component by component.

Left in the models:

1. `DhcpServer` composed with `Quarantine`, in place of `claim` and `Cuttable`:
   does the pair settle when a cut-off client asks for a new address?
2. Traffic queue and port table of `client_track.c` at their limits.
3. `ResetLog`: the rail witness's tick; the clock's staleness.

Next, in the proofs:

1. What liveness rests on: for each leads-to property the safety half, that a step
   which should bring the goal nearer does (for `BacklogDrains` that a stalled line is
   given up after `SYSLOG_STALL_MAX` tries, for `PageCatchesUp` that every
   answer that is not empty moves the cursor).
2. `Quarantine`'s publisher as an implementation of what `QuarantineTable` and
   `DhcpServer` assume of it (`ListFits` is the first of these).
3. `GrantsBacked` without `Strayed`, with the exact exception in its place.

The runs are kept to a dozen: a new component takes the place of a run whose
question a proof, or a larger run, has come to answer.
