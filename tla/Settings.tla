------------------------------ MODULE Settings ------------------------------
(***************************************************************************)
(* The stored settings (src/main/*_cfg.c) and the two tasks that change    *)
(* them, the web server (web_server.c) and the serial console              *)
(* (serial_console.c), down to the rules that a saved port list publishes. *)
(*                                                                         *)
(* A save writes its keys to flash one after the other, takes the module's *)
(* mutex only for the copy in RAM, and may fail or lose power between any  *)
(* two keys.  Web requests are handled one at a time, and so are console   *)
(* commands, but the two overlap.                                          *)
(*                                                                         *)
(* A value is a name; "" is the empty one and "bad" one outside its        *)
(* limits.  The syslog port, facility and severity are written and checked *)
(* like the collector's address and left out.                              *)
(***************************************************************************)
EXTENDS WanPublish, Sequences

CONSTANTS
  Absent,         \* a key that is not in flash; a copy that was not loaded
  Names,          \* values of the keys other than port lists
  DefaultList,    \* the compiled-in port list
  InitialFlash,   \* what earlier boots may have left
  Inputs,         \* [Editors -> [Namespaces -> edits]]; an edit gives some keys values
  MaxCommands,    \* bound on requests and commands
  MaxEvents       \* bound on changes of the uplink

Editors == {"web", "console"}

\* The keys of each namespace, in the order in which a save writes them.
Keys == [wifi   |-> <<"ssid", "password", "channel">>,
         auth   |-> <<"user", "password">>,
         syslog |-> <<"enabled", "ip", "host">>,
         wan    |-> <<"enabled", "ssid", "password", "ports">>,
         clock  |-> <<"tz">>]

Default == [wifi   |-> [ssid |-> "AOG hub", password |-> "password", channel |-> "1"],
            auth   |-> [user |-> "admin", password |-> "admin"],
            syslog |-> [enabled |-> "0", ip |-> "", host |-> "wt32-bridge"],
            wan    |-> [enabled |-> "0", ssid |-> "", password |-> "", ports |-> DefaultList],
            clock  |-> [tz |-> "UTC0"]]

Namespaces == DOMAIN Keys
KeysOf(ns) == DOMAIN Default[ns]
ValuesOf(k) == IF k = "ports" THEN SUBSET PortRules ELSE Names

\* wifi_cfg_t and its likes; and a namespace in flash, where keys may be missing.
SettingsOf(ns) ==
  IF ns = "wan" THEN [enabled: Names, ssid: Names, password: Names, ports: SUBSET PortRules]
                ELSE [KeysOf(ns) -> Names]
Stored(ns, c) ==
  DOMAIN c = KeysOf(ns) /\ \A k \in KeysOf(ns) : c[k] = Absent \/ c[k] \in ValuesOf(k)
Erased(ns) == [k \in KeysOf(ns) |-> Absent]
Factory == [ns \in Namespaces |-> Erased(ns)]

ASSUME SettingsAssumption ==
  /\ Publishers = Editors \cup {"event"}
  /\ DefaultList \in SUBSET PortRules /\ DefaultList # {}
  /\ \A ns \in Namespaces : Default[ns] \in SettingsOf(ns) /\ Absent \notin SettingsOf(ns)
  /\ \A ns \in Namespaces : \A k \in KeysOf(ns) : \A v \in ValuesOf(k) : v # Absent
  /\ \A f \in InitialFlash : DOMAIN f = Namespaces /\ \A ns \in Namespaces : Stored(ns, f[ns])
  /\ \A t \in Editors, ns \in Namespaces : \A e \in Inputs[t][ns] :
       DOMAIN e \subseteq KeysOf(ns) /\ \A k \in DOMAIN e : e[k] \in ValuesOf(k)
  /\ MaxCommands \in Nat /\ MaxEvents \in Nat

VARIABLES
  flash,          \* [namespace -> [key -> value]]
  cache,          \* each module's copy, s_cache or s_username and s_password
  applied,        \* what the radio was given at boot: the AP's settings, the uplink's
  cmd,            \* what each editor is doing
  commands, events,   \* how many there have been
  torn,           \* since boot, or the last save that had the namespace to itself:
                  \* "no", "mixed" by two saves, "broken" off or erased
  chosen,         \* a password was saved, and has not been erased since
  overtaken       \* since boot, a port list was saved while somebody published an older one

history == <<torn, chosen, overtaken>>
counts == <<commands, events>>
vars == <<s_rules, s_active, s_publish_mutex, call, published,
          flash, cache, applied, cmd, commands, events, torn, chosen, overtaken>>

Idle == [pc |-> "idle", ns |-> "none", new |-> Absent, left |-> <<>>, restart |-> FALSE, alone |-> TRUE]
-----------------------------------------------------------------------------
(* Loading.                                                                *)

\* Stored, but read as if it were not there.
Unset(k, v) == (k = "ports" /\ v = {}) \/ (k \in {"tz", "host"} /\ v = "")

\* load_from_nvs() and its likes: every key by itself, or its default.
Load(f, ns) ==
  [k \in KeysOf(ns) |-> IF f[ns][k] = Absent \/ Unset(k, f[ns][k]) THEN Default[ns][k] ELSE f[ns][k]]

\* What the getters return; the access point's settings are not kept in RAM.
Get(ns) == IF ns = "wifi" \/ cache[ns] = Absent THEN Load(flash, ns) ELSE cache[ns]

\* The cache after a getter has loaded what it had not yet.
Fetched(c, ns) == IF ns = "wifi" THEN c ELSE [c EXCEPT ![ns] = Get(ns)]

Radio(c) == [enabled |-> c.enabled, ssid |-> c.ssid, password |-> c.password]
Applicable(f) == [wifi |-> Load(f, "wifi"), wan |-> Radio(Load(f, "wan"))]

\* app_main() with flash as in f; the login is loaded when it is first asked for.
LoadedAtBoot(f) == [ns \in Namespaces |-> IF ns \in {"syslog", "wan", "clock"} THEN Load(f, ns) ELSE Absent]

Init ==
  /\ flash \in InitialFlash
  /\ cache = LoadedAtBoot(flash) /\ applied = Applicable(flash)
  /\ PubInit(cache.wan.enabled = "1", cache.wan.ports)
  /\ cmd = [t \in Editors |-> Idle] /\ commands = 0 /\ events = 0
  /\ torn = [ns \in Namespaces |-> "no"] /\ overtaken = FALSE
  /\ chosen = (Load(flash, "auth").password # Default.auth.password)

\* Everything in RAM starts over from flash.
Boots ==
  LET boot == PublishedAtBoot(cache'.wan.enabled = "1", cache'.wan.ports)
  IN  /\ cache' = LoadedAtBoot(flash) /\ applied' = Applicable(flash)
      /\ s_rules' = boot.rules /\ s_active' = boot.active
      /\ s_publish_mutex' = boot.mutex /\ published' = boot.published
      /\ call' = [t \in Publishers |-> NotCalling]
      /\ cmd' = [t \in Editors |-> Idle]
      /\ torn' = [ns \in Namespaces |-> "no"] /\ overtaken' = FALSE
      /\ UNCHANGED <<flash, chosen, counts>>
-----------------------------------------------------------------------------
(* Asking for a change.                                                    *)

\* check_admin_auth() with the credentials in force, the default password's gate
\* and csrf_check(); then the body is received.
WebAdmits(ns) ==
  /\ cmd["web"].pc = "idle" /\ commands < MaxCommands
  /\ ns # "auth" => Get("auth").password # Default.auth.password
  /\ cache' = Fetched(cache, "auth")
  /\ cmd' = [cmd EXCEPT !["web"] = [Idle EXCEPT !.pc = "body", !.ns = ns]]
  /\ commands' = commands + 1
  /\ UNCHANGED <<pubVars, flash, applied, events, history>>

\* A request that is refused has had the login loaded all the same.
WebRefuses ==
  /\ cmd["web"].pc = "idle"
  /\ cache' = Fetched(cache, "auth")
  /\ UNCHANGED <<pubVars, flash, applied, cmd, counts, history>>

\* recv_body() gives up.
BodyLost ==
  /\ cmd["web"].pc = "body"
  /\ cmd' = [cmd EXCEPT !["web"] = Idle]
  /\ UNCHANGED <<pubVars, flash, cache, applied, counts, history>>

\* Where an empty value stands for the stored one.
KeepsStored(t, ns, k) ==
  k \in CASE ns = "wifi" -> {"password"}
          [] ns = "auth" /\ t = "web" -> {"user", "password"}
          [] ns = "wan" /\ t = "web" -> {"password"}
          [] OTHER -> {}

\* The settings cur with edit e made to them: a web request that names no
\* channel asks for the default one, an empty host name for the device's own.
Edited(t, ns, cur, e) ==
  [k \in KeysOf(ns) |->
     IF k \in DOMAIN e /\ ~(KeepsStored(t, ns, k) /\ e[k] = "")
       THEN (IF k = "host" /\ e[k] = "" THEN Default[ns][k] ELSE e[k])
       ELSE (IF t = "web" /\ k = "channel" THEN Default[ns][k] ELSE cur[k])]

Proper(v) == v \notin {"", "bad"}

wifi_cfg_validate(c) == Proper(c.ssid) /\ Proper(c.password) /\ c.channel # "bad"

\* Mutant: any password will do.
auth_cfg_validate_default(c) == Proper(c.user) /\ Proper(c.password)
auth_cfg_validate(c) ==
  Proper(c.user) /\ Proper(c.password) /\ c.password # Default.auth.password

\* What is switched off may hold anything.
syslog_cfg_validate(c) == c.enabled = "1" => Proper(c.ip) /\ Proper(c.host)
wan_cfg_validate(c) == c.enabled = "1" => Proper(c.ssid) /\ c.password # "bad" /\ c.ports # {}
clock_cfg_validate(c) == c.tz # "bad"

Valid(ns, c) ==
  CASE ns = "wifi" -> wifi_cfg_validate(c)
    [] ns = "auth" -> auth_cfg_validate(c)
    [] ns = "syslog" -> syslog_cfg_validate(c)
    [] ns = "wan" -> wan_cfg_validate(c)
    [] ns = "clock" -> clock_cfg_validate(c)

\* A request must name the network or the zone it is about.
Complete(t, ns, e) ==
  /\ t = "web" /\ ns = "wifi" => "ssid" \in DOMAIN e
  /\ ns = "clock" => "tz" \in DOMAIN e

\* Mutant: only another network is a change.
RadioChanged_ssid(old, new) == old.ssid # new.ssid

\* radio_changed, against the settings the editor itself has read.
RadioChanged(old, new) == Radio(old) # Radio(new)

Saving(ns) == {t \in Editors : cmd[t].pc = "write" /\ cmd[t].ns = ns}

\* What handlers and commands have in common, from the getter to the save: the settings are read,
\* changed and checked, or the request is refused.
Edits(t, ns, e) ==
  LET cur == Get(ns)
      new == Edited(t, ns, cur, e)
      begun == [pc |-> "write", ns |-> ns, new |-> new, left |-> Keys[ns], alone |-> Saving(ns) = {},
                restart |-> ns = "wifi" \/ (ns = "wan" /\ RadioChanged(cur, new))]
  IN  /\ cache' = Fetched(cache, ns)
      /\ IF Complete(t, ns, e) /\ Valid(ns, new)
           THEN cmd' = [u \in Editors |-> IF u = t THEN begun
                                          ELSE IF u \in Saving(ns) THEN [cmd[u] EXCEPT !.alone = FALSE]
                                          ELSE cmd[u]]
           ELSE cmd' = [cmd EXCEPT ![t] = Idle]
      /\ UNCHANGED <<pubVars, flash, applied, events, history>>

\* A request whose body has arrived.
Posted(ns) ==
  /\ cmd["web"].pc = "body" /\ cmd["web"].ns = ns
  /\ \E e \in Inputs["web"][ns] : Edits("web", ns, e)
  /\ UNCHANGED commands

wifi_post_handler == Posted("wifi")
admin_post_handler == Posted("auth")
syslog_post_handler == Posted("syslog")
wan_post_handler == Posted("wan")
time_post_handler == Posted("clock")

\* A line typed at the console.
Typed(ns) ==
  /\ cmd["console"].pc = "idle" /\ commands < MaxCommands
  /\ \E e \in Inputs["console"][ns] : Edits("console", ns, e)
  /\ commands' = commands + 1

cmd_wifi == Typed("wifi")
cmd_admin == Typed("auth")
cmd_syslog == Typed("syslog")
cmd_wan == Typed("wan")
cmd_time == Typed("clock")
-----------------------------------------------------------------------------
(* Saving.                                                                 *)

\* Mutant: a save clears the namespace before it writes.
SetsKey_cleared(t) ==
  LET c == cmd[t]
      old == IF c.left = Keys[c.ns] THEN Erased(c.ns) ELSE flash[c.ns]
  IN  /\ c.pc = "write" /\ c.left # <<>>
      /\ flash' = [flash EXCEPT ![c.ns] = [old EXCEPT ![Head(c.left)] = c.new[Head(c.left)]]]
      /\ cmd' = [cmd EXCEPT ![t].left = Tail(@)]
      /\ UNCHANGED <<pubVars, cache, applied, counts, history>>

\* nvs_set_*(): in flash from here on, whatever becomes of the rest.
SetsKey(t) ==
  LET c == cmd[t]
  IN  /\ c.pc = "write" /\ c.left # <<>>
      /\ flash' = [flash EXCEPT ![c.ns][Head(c.left)] = c.new[Head(c.left)]]
      /\ cmd' = [cmd EXCEPT ![t].left = Tail(@)]
      /\ UNCHANGED <<pubVars, cache, applied, counts, history>>

\* nvs_open(), a set or the commit fails: the error is reported, the copy in RAM
\* stays as it was, and so do the keys already written.
SaveFails(t) ==
  /\ cmd[t].pc = "write"
  /\ torn' = [torn EXCEPT ![cmd[t].ns] = "broken"]
  /\ cmd' = [cmd EXCEPT ![t] = Idle]
  /\ UNCHANGED <<pubVars, flash, cache, applied, counts, chosen, overtaken>>

\* The copy in RAM, with an empty zone or host name replaced.
Kept(ns, new) == [k \in KeysOf(ns) |-> IF k # "ports" /\ Unset(k, new[k]) THEN Default[ns][k] ELSE new[k]]

\* Mutant: a save leaves the copy to the next restart.
Cached_not(ns, new) == cache
Cached(ns, new) == IF ns = "wifi" THEN cache ELSE [cache EXCEPT ![ns] = Kept(ns, new)]

\* Mutant: a saved list is not published.
AfterSave_quiet(c) == IF c.restart THEN "restart" ELSE "idle"

\* What follows a save: a restart, wan_ports_changed(), or nothing.
AfterSave(c) == IF c.restart THEN "restart" ELSE IF c.ns = "wan" THEN "changed" ELSE "idle"

\* Tasks that have read a port list and not published it yet.
Publishing == {u \in Publishers : call[u].pc \in {"take", "fill"}}

\* The save succeeds: the copy in RAM follows, under the module's mutex.
Saves(t) ==
  LET c == cmd[t]
  IN  /\ c.pc = "write" /\ c.left = <<>>
      /\ cache' = Cached(c.ns, c.new)
      /\ cmd' = [cmd EXCEPT ![t] = IF AfterSave(c) = "idle" THEN Idle ELSE [c EXCEPT !.pc = AfterSave(c)]]
      /\ torn' = [torn EXCEPT ![c.ns] = IF c.alone THEN "no" ELSE IF @ = "no" THEN "mixed" ELSE @]
      /\ chosen' = (chosen \/ (c.ns = "auth" /\ c.alone))
      /\ overtaken' = (overtaken \/ (c.ns = "wan" /\ Publishing # {}))
      /\ UNCHANGED <<pubVars, flash, applied, counts>>

\* wan_ports_changed(), which reads the live rules without the mutex.
wan_ports_changed(t) ==
  /\ cmd[t].pc = "changed"
  /\ Calls(t, s_rules[s_active].up, s_rules[s_active].dns_ip)
  /\ cmd' = [cmd EXCEPT ![t].pc = "publish"]
  /\ UNCHANGED <<s_rules, s_active, s_publish_mutex, published, flash, cache, applied, counts, history>>

Publishes(t) ==
  /\ GetsList(t, cache.wan.ports) \/ TakesMutex(t)
  /\ UNCHANGED <<flash, cache, applied, cmd, counts, history>>

EditorPublished(t) ==
  /\ Activates(t)
  /\ cmd' = [cmd EXCEPT ![t] = Idle]
  /\ UNCHANGED <<flash, cache, applied, counts, history>>
-----------------------------------------------------------------------------
(* The console's restarts.                                                 *)

ConsoleBegins(c) ==
  /\ cmd["console"].pc = "idle" /\ commands < MaxCommands
  /\ cmd' = [cmd EXCEPT !["console"] = c]
  /\ commands' = commands + 1
  /\ UNCHANGED <<pubVars, flash, cache, applied, events, history>>

cmd_reboot == ConsoleBegins([Idle EXCEPT !.pc = "restart"])

\* cmd_factory_reset() with "yes"; the lease table is the DHCP server's matter.
cmd_factory_reset ==
  ConsoleBegins([Idle EXCEPT !.pc = "erase", !.left = <<"wifi", "auth", "syslog", "wan">>,
                             !.restart = TRUE])

\* erase_nvs_namespace(): the next one, which may fail; the others are tried
\* all the same.  The copies in RAM stay.
Erases ==
  LET c == cmd["console"]
      ns == Head(c.left)
  IN  /\ c.pc = "erase" /\ c.left # <<>>
      /\ \/ /\ flash' = [flash EXCEPT ![ns] = Erased(ns)]
            /\ torn' = [torn EXCEPT ![ns] = "broken"]
            /\ chosen' = (chosen /\ ns # "auth")
            /\ cmd' = [t \in Editors |->
                 IF t = "console" THEN [c EXCEPT !.left = Tail(@)]
                 ELSE IF t \in Saving(ns) THEN [cmd[t] EXCEPT !.alone = FALSE] ELSE cmd[t]]
         \/ /\ cmd' = [cmd EXCEPT !["console"].left = Tail(@), !["console"].restart = FALSE]
            /\ UNCHANGED <<flash, torn, chosen>>
      /\ UNCHANGED <<pubVars, cache, applied, counts, overtaken>>

\* Only a reset without an error restarts, one of the lease table's included.
ErasedAll(leases) ==
  LET c == cmd["console"]
  IN  /\ c.pc = "erase" /\ c.left = <<>>
      /\ cmd' = [cmd EXCEPT !["console"] = IF c.restart /\ leases THEN [c EXCEPT !.pc = "restart"]
                                           ELSE Idle]
      /\ UNCHANGED <<pubVars, flash, cache, applied, counts, history>>

\* esp_restart(), after a delay in which the other editor goes on.
Restarts(t) == cmd[t].pc = "restart" /\ Boots

PowerCut == Boots
-----------------------------------------------------------------------------
(* The event task publishes whatever the uplink is doing (module Wan).     *)

UplinkChanges(up, dns) ==
  /\ s_publish_mutex # NULL /\ call["event"].pc = "idle" /\ events < MaxEvents
  /\ Calls("event", up, dns)
  /\ events' = events + 1
  /\ UNCHANGED <<s_rules, s_active, s_publish_mutex, published, flash, cache, applied, cmd, commands, history>>

EventPublished ==
  /\ Activates("event")
  /\ UNCHANGED <<flash, cache, applied, cmd, counts, history>>
-----------------------------------------------------------------------------
EditorStep(t) ==
  \/ SetsKey(t) \/ SaveFails(t) \/ Saves(t) \/ wan_ports_changed(t)
  \/ Publishes(t) \/ EditorPublished(t) \/ Restarts(t)
  \/ t = "console" /\ (Erases \/ \E leases \in BOOLEAN : ErasedAll(leases))

Next ==
  \/ \E ns \in Namespaces : WebAdmits(ns)
  \/ WebRefuses \/ BodyLost
  \/ wifi_post_handler \/ admin_post_handler \/ syslog_post_handler \/ wan_post_handler
  \/ time_post_handler
  \/ cmd_wifi \/ cmd_admin \/ cmd_syslog \/ cmd_wan \/ cmd_time
  \/ \E t \in Editors : EditorStep(t)
  \/ cmd_reboot \/ cmd_factory_reset \/ PowerCut
  \/ \E up \in BOOLEAN, dns \in Hosts \cup {NoHost} : UplinkChanges(up, dns)
  \/ Publishes("event") \/ EventPublished

\* Both tasks are scheduled: a save that was begun ends, and a restart comes.
Spec == Init /\ [][Next]_vars /\ \A t \in Editors : WF_vars(EditorStep(t))
-----------------------------------------------------------------------------
\* As long as a web request other than the login's is being served, the password
\* in force is not the default one, whatever the console does in the meantime
\* ("send_setup_required()" is asked once, before the body is received).
WebIsGated ==
  cmd["web"].pc # "idle" /\ cmd["web"].ns # "auth"
    => cache.auth # Absent /\ cache.auth.password # Default.auth.password

\* Once a password of one's own was saved, nothing but a factory reset brings the
\* default back: no failed or interrupted save, no restart, no second editor.
DefaultStaysOut ==
  chosen => \A c \in {Load(flash, "auth")} \cup ({cache.auth} \ {Absent}) :
              c.password # Default.auth.password

\* When nobody is saving, a restart brings back the settings in force (an empty
\* port list as the compiled-in one), unless two saves of them have overlapped,
\* one has failed or they were erased.
RestartKeeps ==
  \A ns \in Namespaces :
    torn[ns] = "no" /\ Saving(ns) = {} /\ cache[ns] # Absent => Load(flash, ns) = Load(cache, ns)

\* With an uplink, the list in force is the saved one as soon as those who saved
\* have returned ("Takes effect on the next packet; no reboot"), unless it was
\* saved while another task was about to publish the one before.
Returned == \A t \in Editors : cmd[t].pc \notin {"changed", "publish", "restart"}
ListInForce ==
  s_publish_mutex # NULL /\ Returned /\ Publishing = {} /\ ~overtaken
    => s_rules[s_active].ports = cache.wan.ports

\* Whoever changes what the radio is to do restarts the device: again and again
\* it does what flash says, except while a broken save or reset is left behind.
RadioFollows ==
  []<>(\A ns \in DOMAIN applied : torn[ns] = "broken" \/ applied[ns] = Applicable(flash)[ns])
=============================================================================
