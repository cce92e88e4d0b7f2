--------------------------- MODULE SettingsProofs ---------------------------
(***************************************************************************)
(* What the settings promise whichever tasks edit, publish, fail or lose   *)
(* power in between, for every set of values, lists and inputs.            *)
(***************************************************************************)
EXTENDS Settings, TLAPS

Steps == {"idle", "body", "write", "changed", "publish", "erase", "restart"}

ToWrite(c, k) == \E i \in 1 .. Len(c.left) : c.left[i] = k

\* What a command that is saving is about to write, and has written.
SaveOK(c) ==
  /\ c.ns \in Namespaces
  /\ c.new \in SettingsOf(c.ns)
  /\ c.left \in Seq(KeysOf(c.ns))
  /\ c.ns = "auth" => c.new.password # Default.auth.password

CommandOK(t) ==
  /\ DOMAIN cmd[t] = {"pc", "ns", "new", "left", "restart", "alone"}
  /\ cmd[t].pc \in Steps /\ cmd[t].restart \in BOOLEAN /\ cmd[t].alone \in BOOLEAN
  /\ cmd[t].pc = "erase" => t = "console" /\ cmd[t].left \in Seq(Namespaces)
  /\ cmd[t].pc = "write" => SaveOK(cmd[t])

StoreOK ==
  /\ DOMAIN flash = Namespaces /\ \A ns \in Namespaces : Stored(ns, flash[ns])
  /\ DOMAIN cache = Namespaces /\ cache["wifi"] = Absent
  /\ \A ns \in Namespaces : cache[ns] \in SettingsOf(ns) \cup {Absent}
  /\ \A ns \in {"syslog", "wan", "clock"} : cache[ns] # Absent
  /\ torn \in [Namespaces -> {"no", "mixed", "broken"}]
  /\ chosen \in BOOLEAN /\ overtaken \in BOOLEAN
  /\ DOMAIN cmd = Editors /\ \A t \in Editors : CommandOK(t)

\* A save that has its namespace to itself is the only one there, and flash holds
\* what it has written.
Alone ==
  \A t \in Editors :
    cmd[t].pc = "write" /\ cmd[t].alone = TRUE =>
      /\ \A u \in Editors : cmd[u].pc = "write" /\ cmd[u].ns = cmd[t].ns => u = t
      /\ \A k \in KeysOf(cmd[t].ns) : ToWrite(cmd[t], k) \/ flash[cmd[t].ns][k] = cmd[t].new[k]

\* The password in flash and in RAM once one was chosen.
Password ==
  chosen = TRUE => /\ flash["auth"]["password"] \notin {Absent, Default.auth.password}
                   /\ cache["auth"] # Absent => cache["auth"]["password"] # Default.auth.password

\* Whoever fills the spare buffer has the mutex.
Exclusive ==
  s_publish_mutex # NULL =>
    /\ s_rules[s_active] = published
    /\ \A u \in Publishers : call[u].pc = "fill" <=> s_publish_mutex = u
    /\ \A u \in Publishers : call[u].pc = "fill" =>
         call[u].next = 1 - s_active /\ s_rules[1 - s_active].ports = call[u].what.ports

\* Editors publish after a save, and a list that is not in force yet is on its way.
OnItsWay ==
  /\ \A t \in Editors : call[t].pc # "idle" <=> cmd[t].pc = "publish"
  /\ s_publish_mutex # NULL /\ overtaken = FALSE =>
       /\ \A u \in Publishers : call[u].pc \in {"take", "fill"} => call[u].what.ports = cache["wan"].ports
       /\ \/ s_rules[s_active].ports = cache["wan"].ports
          \/ \E t \in Editors : cmd[t].pc \in {"changed", "publish", "restart"}

Inv ==
  /\ PubTypeOK /\ StoreOK /\ Alone /\ Password /\ Exclusive /\ OnItsWay /\ WebIsGated /\ RestartKeeps
-----------------------------------------------------------------------------
(* The values.                                                             *)

LEMMA NamespaceFacts == Namespaces = {"wifi", "auth", "syslog", "wan", "clock"}
BY DEF Namespaces, Keys

LEMMA KeyFacts ==
  /\ KeysOf("wifi") = {"ssid", "password", "channel"}
  /\ KeysOf("auth") = {"user", "password"}
  /\ KeysOf("syslog") = {"enabled", "ip", "host"}
  /\ KeysOf("wan") = {"enabled", "ssid", "password", "ports"}
  /\ KeysOf("clock") = {"tz"}
BY DEF KeysOf, Default

LEMMA SettingsPointwise ==
  ASSUME NEW ns \in Namespaces, NEW c \in SettingsOf(ns)
  PROVE  /\ DOMAIN c = KeysOf(ns) /\ \A k \in KeysOf(ns) : c[k] \in ValuesOf(k) /\ c[k] # Absent
         /\ c # Absent
<1>1. DOMAIN c = KeysOf(ns) /\ \A k \in KeysOf(ns) : c[k] \in ValuesOf(k)
  <2>1. CASE ns = "wan"
    BY <2>1, KeyFacts DEF SettingsOf, ValuesOf
  <2>2. CASE ns # "wan"
    BY <2>2, NamespaceFacts, KeyFacts DEF SettingsOf, ValuesOf
  <2> QED BY <2>1, <2>2
<1> QED BY <1>1, SettingsAssumption

LEMMA SettingsMade ==
  ASSUME NEW ns \in Namespaces, NEW c, c = [k \in KeysOf(ns) |-> c[k]],
         \A k \in KeysOf(ns) : c[k] \in ValuesOf(k)
  PROVE  c \in SettingsOf(ns)
<1>1. CASE ns = "wan"
  <2>1. c = [enabled |-> c["enabled"], ssid |-> c["ssid"], password |-> c["password"],
             ports |-> c["ports"]]
    BY <1>1, KeyFacts
  <2> QED BY <1>1, <2>1, KeyFacts DEF SettingsOf, ValuesOf
<1>2. CASE ns # "wan"
  BY <1>2, NamespaceFacts, KeyFacts DEF SettingsOf, ValuesOf
<1> QED BY <1>1, <1>2

LEMMA DefaultFacts ==
  ASSUME NEW ns \in Namespaces
  PROVE  /\ Default[ns] \in SettingsOf(ns)
         /\ \A k \in KeysOf(ns) :
              Default[ns][k] \in ValuesOf(k) /\ Default[ns][k] # Absent /\ ~Unset(k, Default[ns][k])
<1>1. Default[ns] \in SettingsOf(ns)
  BY SettingsAssumption
<1>2. \A k \in KeysOf(ns) : Default[ns][k] \in ValuesOf(k) /\ Default[ns][k] # Absent
  BY <1>1, SettingsPointwise
<1>3. \A k \in KeysOf(ns) : ~Unset(k, Default[ns][k])
  <2>1. /\ Default["wan"]["ports"] # {} /\ Default["syslog"]["host"] # ""
        /\ Default["clock"]["tz"] # ""
    BY SettingsAssumption DEF Default
  <2> QED BY <2>1, NamespaceFacts, KeyFacts DEF Unset
<1> QED BY <1>1, <1>2, <1>3

LEMMA SettingsStored ==
  ASSUME NEW ns \in Namespaces, NEW c \in SettingsOf(ns)
  PROVE  Stored(ns, c)
BY SettingsPointwise DEF Stored

LEMMA LoadFacts ==
  ASSUME NEW ns \in Namespaces, NEW f, Stored(ns, f[ns])
  PROVE  /\ Load(f, ns) \in SettingsOf(ns) /\ Load(f, ns) # Absent
         /\ \A k \in KeysOf(ns) : ~Unset(k, Load(f, ns)[k])
<1> DEFINE c == Load(f, ns)
<1>1. \A k \in KeysOf(ns) :
        c[k] = IF f[ns][k] = Absent \/ Unset(k, f[ns][k]) THEN Default[ns][k] ELSE f[ns][k]
  BY DEF Load
<1>2. c = [k \in KeysOf(ns) |-> c[k]]
  BY DEF Load
<1>3. \A k \in KeysOf(ns) : c[k] \in ValuesOf(k)
  BY <1>1, DefaultFacts DEF Stored
<1>4. \A k \in KeysOf(ns) : ~Unset(k, c[k])
  BY <1>1, DefaultFacts
<1>5. c \in SettingsOf(ns)
  BY <1>2, <1>3, SettingsMade
<1> QED BY <1>4, <1>5, SettingsPointwise

\* Loading what was loaded changes nothing.
LEMMA LoadAgain ==
  ASSUME NEW ns \in Namespaces, NEW f, Stored(ns, f[ns]), NEW g, g[ns] = Load(f, ns)
  PROVE  Load(g, ns) = Load(f, ns)
<1>1. \A k \in KeysOf(ns) : g[ns][k] # Absent /\ ~Unset(k, g[ns][k])
  BY LoadFacts, SettingsPointwise
<1>2. Load(g, ns) = [k \in KeysOf(ns) |-> Load(f, ns)[k]]
  BY <1>1 DEF Load
<1>3. Load(f, ns) = [k \in KeysOf(ns) |-> Load(f, ns)[k]]
  BY DEF Load
<1> QED BY <1>2, <1>3

\* What a save keeps in RAM is what a restart would load.
LEMMA KeptFacts ==
  ASSUME NEW ns \in Namespaces, NEW new \in SettingsOf(ns)
  PROVE  /\ Kept(ns, new) \in SettingsOf(ns) /\ Kept(ns, new) # Absent
         /\ \A k \in KeysOf(ns) : k \notin {"tz", "host"} => Kept(ns, new)[k] = new[k]
<1> DEFINE c == Kept(ns, new)
<1>1. \A k \in KeysOf(ns) : c[k] = IF k # "ports" /\ Unset(k, new[k]) THEN Default[ns][k] ELSE new[k]
  BY DEF Kept
<1>2. c = [k \in KeysOf(ns) |-> c[k]]
  BY DEF Kept
<1>3. \A k \in KeysOf(ns) : c[k] \in ValuesOf(k)
  BY <1>1, DefaultFacts, SettingsPointwise
<1>4. c \in SettingsOf(ns)
  BY <1>2, <1>3, SettingsMade
<1>5. \A k \in KeysOf(ns) : k \notin {"tz", "host"} => c[k] = new[k]
  BY <1>1 DEF Unset
<1> QED BY <1>4, <1>5, SettingsPointwise

LEMMA KeptLoads ==
  ASSUME NEW ns \in Namespaces, NEW new \in SettingsOf(ns), NEW f, NEW g,
         \A k \in KeysOf(ns) : f[ns][k] = new[k], g[ns] = Kept(ns, new)
  PROVE  Load(f, ns) = Load(g, ns)
<1>1. \A k \in KeysOf(ns) :
        /\ g[ns][k] = IF k # "ports" /\ Unset(k, new[k]) THEN Default[ns][k] ELSE new[k]
        /\ f[ns][k] = new[k] /\ new[k] # Absent
        /\ Default[ns][k] # Absent /\ ~Unset(k, Default[ns][k])
  BY SettingsPointwise, DefaultFacts DEF Kept
<1>2. \A k \in KeysOf(ns) :
        (IF f[ns][k] = Absent \/ Unset(k, f[ns][k]) THEN Default[ns][k] ELSE f[ns][k])
          = (IF g[ns][k] = Absent \/ Unset(k, g[ns][k]) THEN Default[ns][k] ELSE g[ns][k])
  BY <1>1
<1> QED BY <1>2 DEF Load

LEMMA EditedFacts ==
  ASSUME NEW t \in Editors, NEW ns \in Namespaces, NEW cur \in SettingsOf(ns), NEW e \in Inputs[t][ns]
  PROVE  Edited(t, ns, cur, e) \in SettingsOf(ns)
<1> DEFINE c == Edited(t, ns, cur, e)
<1>1. \A k \in DOMAIN e : e[k] \in ValuesOf(k)
  BY SettingsAssumption
<1>2. \A k \in KeysOf(ns) : c[k] \in ValuesOf(k)
  <2> TAKE k \in KeysOf(ns)
  <2>1. Default[ns][k] \in ValuesOf(k) /\ cur[k] \in ValuesOf(k)
    BY DefaultFacts, SettingsPointwise
  <2> QED BY <1>1, <2>1 DEF Edited
<1>3. c = [k \in KeysOf(ns) |-> c[k]]
  BY DEF Edited
<1> QED BY <1>2, <1>3, SettingsMade

\* The login that flash stands for is the default one in two cases.
LEMMA LoadedPassword ==
  ASSUME NEW f
  PROVE  Load(f, "auth").password # Default.auth.password
           <=> f["auth"]["password"] \notin {Absent, Default.auth.password}
<1>1. "password" \in KeysOf("auth")
  BY KeyFacts
<1>2. Load(f, "auth")["password"]
        = IF f["auth"]["password"] = Absent THEN Default["auth"]["password"] ELSE f["auth"]["password"]
  BY <1>1 DEF Load, Unset
<1> QED BY <1>2

-----------------------------------------------------------------------------
(* publish_rules() by any task.                                            *)

Phases == {"idle", "get", "take", "fill"}
CallType == [pc: Phases, next: {0, 1}, what: Rules]

LEMMA PubTypes == PubTypeOK <=>
  /\ s_rules \in [{0, 1} -> Rules] /\ s_active \in {0, 1} /\ published \in Rules
  /\ s_publish_mutex \in Publishers \cup {Nobody, NULL}
  /\ call \in [Publishers -> CallType]
BY DEF PubTypeOK, CallType, Phases

LEMMA Names3 == /\ Publishers = {"web", "console", "event"} /\ Editors = {"web", "console"}
                /\ Nobody \notin Publishers /\ NULL \notin Publishers /\ Nobody # NULL
BY SettingsAssumption DEF Editors, Nobody, NULL

LEMMA NoRulesFacts == NoRules \in Rules /\ NotCalling \in CallType /\ NotCalling.pc = "idle"
BY DEF NoRules, Rules, NotCalling, CallType, Phases

LEMMA RulesEqual ==
  ASSUME NEW a \in Rules, NEW b \in Rules, a.ports = b.ports, a.dns_ip = b.dns_ip, a.up = b.up
  PROVE  a = b
BY DEF Rules

LEMMA RulesFilled ==
  ASSUME NEW a \in Rules, NEW b \in Rules, NEW c, c = [a EXCEPT !.up = b.up, !.dns_ip = b.dns_ip]
  PROVE  c \in Rules /\ c.ports = a.ports /\ c.dns_ip = b.dns_ip /\ c.up = b.up
BY DEF Rules

LEMMA RulesCleared ==
  ASSUME NEW list \in SUBSET PortRules
  PROVE  /\ [NoRules EXCEPT !.ports = list] \in Rules
         /\ [NoRules EXCEPT !.ports = list].ports = list
BY DEF Rules, NoRules

LEMMA CallsFacts ==
  ASSUME PubTypeOK, Exclusive, NEW t \in Publishers, NEW up \in BOOLEAN,
         NEW dns \in Hosts \cup {NoHost}, call[t].pc # "fill",
         Calls(t, up, dns), UNCHANGED <<s_rules, s_active, s_publish_mutex, published>>
  PROVE  /\ PubTypeOK' /\ Exclusive'
         /\ call'[t].pc = "get" /\ \A u \in Publishers \ {t} : call'[u] = call[u]
<1> DEFINE w == [ports |-> {}, up |-> up, dns_ip |-> dns]
<1>1. w \in Rules
  BY DEF Rules
<1>2. call'[t] = [pc |-> "get", next |-> 0, what |-> w] /\ \A u \in Publishers \ {t} : call'[u] = call[u]
  BY PubTypes DEF Calls
<1>3. call' \in [Publishers -> CallType]
  BY <1>1, PubTypes DEF Calls, CallType, Phases
<1>4. PubTypeOK'
  BY <1>3, PubTypes DEF PubTypeOK, CallType, Phases
<1>5. Exclusive'
  BY <1>2 DEF Exclusive
<1> QED BY <1>2, <1>4, <1>5

LEMMA GetsListFacts ==
  ASSUME PubTypeOK, Exclusive, NEW t \in Publishers, NEW list \in SUBSET PortRules, GetsList(t, list)
  PROVE  /\ PubTypeOK' /\ Exclusive'
         /\ call[t].pc = "get" /\ call'[t].pc = "take" /\ call'[t].what.ports = list
         /\ \A u \in Publishers \ {t} : call'[u] = call[u]
<1>1. call[t] \in CallType /\ call[t].what \in Rules
  BY PubTypes DEF CallType
<1>2. /\ call'[t] = [call[t] EXCEPT !.pc = "take", !.what.ports = list]
      /\ \A u \in Publishers \ {t} : call'[u] = call[u]
  BY PubTypes DEF GetsList
<1>3. call'[t] \in CallType /\ call'[t].pc = "take" /\ call'[t].what.ports = list
  <2>1. PICK c \in CallType : c = call[t]
    BY <1>1
  <2>2. PICK w : w = [c.what EXCEPT !.ports = list]
    OBVIOUS
  <2>3. c.what \in Rules /\ w \in Rules /\ w.ports = list
    BY <2>2 DEF Rules, CallType
  <2>4. call'[t] = [c EXCEPT !.pc = "take", !.what = w]
    BY <1>2, <2>1, <2>2 DEF CallType
  <2>5. call'[t] \in CallType /\ call'[t].pc = "take" /\ call'[t].what = w
    BY <2>3, <2>4 DEF CallType, Phases
  <2> QED BY <2>3, <2>5
<1>4. call' \in [Publishers -> CallType]
  BY <1>3, PubTypes DEF GetsList
<1>5. PubTypeOK'
  BY <1>4, PubTypes DEF PubTypeOK, CallType, Phases, GetsList
<1>6. Exclusive'
  BY <1>2, <1>3 DEF Exclusive, GetsList
<1> QED BY <1>2, <1>3, <1>5, <1>6 DEF GetsList

LEMMA TakesMutexFacts ==
  ASSUME PubTypeOK, Exclusive, NEW t \in Publishers, TakesMutex(t)
  PROVE  /\ PubTypeOK' /\ Exclusive'
         /\ call[t].pc = "take" /\ call'[t].pc = "fill" /\ call'[t].what = call[t].what
         /\ \A u \in Publishers \ {t} : call'[u] = call[u]
         /\ s_active' = s_active /\ s_rules'[s_active] = s_rules[s_active]
         /\ s_publish_mutex' = NULL <=> s_publish_mutex = NULL
<1> DEFINE n == 1 - s_active
           r == [NoRules EXCEPT !.ports = call[t].what.ports]
<1>1. /\ call[t] \in CallType /\ call[t].what \in Rules /\ call[t].what.ports \in SUBSET PortRules
      /\ s_active \in {0, 1} /\ n \in {0, 1} /\ n # s_active
  BY PubTypes DEF CallType, Rules
<1>2. /\ call'[t] = [call[t] EXCEPT !.pc = "fill", !.next = n]
      /\ \A u \in Publishers \ {t} : call'[u] = call[u]
  BY PubTypes DEF TakesMutex
<1>3. /\ call'[t] \in CallType /\ call'[t].pc = "fill" /\ call'[t].what = call[t].what
      /\ call'[t].next = n
  BY <1>1, <1>2 DEF CallType, Phases
<1>4. call' \in [Publishers -> CallType]
  BY <1>3, PubTypes DEF TakesMutex
<1>5. r \in Rules /\ r.ports = call[t].what.ports
  BY <1>1, RulesCleared
<1>6. s_rules' \in [{0, 1} -> Rules] /\ s_rules'[n] = r /\ s_rules'[s_active] = s_rules[s_active]
  BY <1>1, <1>5, PubTypes DEF TakesMutex
<1>7. /\ s_publish_mutex \in {Nobody, NULL} /\ s_active' = s_active /\ published' = published
      /\ s_publish_mutex' = IF s_publish_mutex = NULL THEN NULL ELSE t
  BY DEF TakesMutex, MutexFree
<1>8. PubTypeOK'
  BY <1>1, <1>4, <1>6, <1>7, PubTypes DEF PubTypeOK, CallType, Phases
<1>9. Exclusive'
  <2> SUFFICES ASSUME s_publish_mutex' # NULL
               PROVE  /\ s_rules'[s_active'] = published'
                      /\ \A u \in Publishers : call'[u].pc = "fill" <=> s_publish_mutex' = u
                      /\ \A u \in Publishers : call'[u].pc = "fill" =>
                           /\ call'[u].next = 1 - s_active'
                           /\ s_rules'[1 - s_active'].ports = call'[u].what.ports
    BY DEF Exclusive
  <2>1. s_publish_mutex = Nobody /\ s_publish_mutex' = t
    BY <1>7
  <2>2. \A u \in Publishers : call[u].pc # "fill"
    BY <2>1, Names3 DEF Exclusive
  <2>3. \A u \in Publishers : call'[u].pc = "fill" <=> u = t
    BY <2>2, <1>2, <1>3
  <2>4. s_rules'[s_active'] = published'
    BY <1>6, <1>7, <2>1 DEF Exclusive, Nobody, NULL
  <2> QED BY <2>1, <2>3, <2>4, <1>3, <1>5, <1>6, <1>7
<1> QED BY <1>2, <1>3, <1>6, <1>7, <1>8, <1>9, Names3 DEF TakesMutex

LEMMA ActivatesFacts ==
  ASSUME PubTypeOK, Exclusive, NEW t \in Publishers, Activates(t)
  PROVE  /\ PubTypeOK' /\ Exclusive'
         /\ call[t].pc = "fill" /\ call'[t].pc = "idle"
         /\ \A u \in Publishers \ {t} : call'[u] = call[u]
         /\ s_publish_mutex' = NULL <=> s_publish_mutex = NULL
         /\ s_publish_mutex # NULL => s_rules'[s_active'].ports = call[t].what.ports
<1> DEFINE n == call[t].next
           w == call[t].what
<1>1. n \in {0, 1} /\ w \in Rules /\ call[t].pc = "fill"
  BY PubTypes DEF CallType, Activates
<1>2. /\ s_rules' = [s_rules EXCEPT ![n].up = w.up, ![n].dns_ip = w.dns_ip]
      /\ s_active' = n /\ published' = w /\ call' = [call EXCEPT ![t] = NotCalling]
      /\ s_publish_mutex' = IF s_publish_mutex = NULL THEN NULL ELSE Nobody
  BY DEF Activates
<1>3. s_rules'[n] = [s_rules[n] EXCEPT !.up = w.up, !.dns_ip = w.dns_ip]
  BY <1>1, <1>2, PubTypes
<1>4. /\ s_rules'[n] \in Rules /\ s_rules'[n].ports = s_rules[n].ports
      /\ s_rules'[n].dns_ip = w.dns_ip /\ s_rules'[n].up = w.up
      /\ s_rules' \in [{0, 1} -> Rules]
  <2>1. /\ s_rules'[n] \in Rules /\ s_rules'[n].ports = s_rules[n].ports
        /\ s_rules'[n].dns_ip = w.dns_ip /\ s_rules'[n].up = w.up
    <3>1. s_rules[n] \in Rules
      BY <1>1, PubTypes
    <3> QED BY <1>1, <1>3, <3>1, RulesFilled
  <2> QED BY <1>1, <1>2, <2>1, PubTypes
<1>5. call' \in [Publishers -> CallType] /\ call'[t] = NotCalling
      /\ \A u \in Publishers \ {t} : call'[u] = call[u]
  BY <1>2, NoRulesFacts, PubTypes
<1>6. PubTypeOK'
  BY <1>1, <1>2, <1>4, <1>5 DEF PubTypeOK, CallType, Phases
<1>7. ASSUME s_publish_mutex # NULL
      PROVE  /\ s_rules'[s_active'] = w /\ s_publish_mutex' = Nobody
             /\ \A u \in Publishers : call'[u].pc # "fill"
  <2>1. /\ s_publish_mutex = t /\ s_rules[n].ports = w.ports
        /\ \A u \in Publishers \ {t} : call[u].pc # "fill"
    BY <1>1, <1>7 DEF Exclusive
  <2>2. s_rules'[n] = w
    BY <1>1, <1>4, <2>1, RulesEqual
  <2> QED BY <1>2, <1>5, <1>7, <2>1, <2>2, NoRulesFacts
<1>8. Exclusive'
  BY <1>2, <1>7, Names3 DEF Exclusive
<1> QED BY <1>1, <1>2, <1>5, <1>6, <1>7, <1>8, NoRulesFacts, Names3

-----------------------------------------------------------------------------
(* Steps that leave flash alone.                                           *)

\* A copy in RAM changes only by being loaded.
CacheKept ==
  /\ DOMAIN cache' = Namespaces
  /\ \A ns \in Namespaces :
       \/ cache'[ns] = cache[ns]
       \/ ns # "wifi" /\ cache[ns] = Absent /\ cache'[ns] = Load(flash, ns)

Way == {"changed", "publish", "restart"}

LEMMA FetchedFacts ==
  ASSUME StoreOK, NEW ns \in Namespaces
  PROVE  /\ Get(ns) \in SettingsOf(ns)
         /\ cache' = Fetched(cache, ns) => CacheKept /\ (ns # "wifi" => cache'[ns] = Get(ns))
<1>1. Load(flash, ns) \in SettingsOf(ns)
  BY LoadFacts DEF StoreOK
<1>2. Get(ns) \in SettingsOf(ns)
  BY <1>1 DEF Get, StoreOK
<1>3. ASSUME cache' = Fetched(cache, ns) PROVE CacheKept /\ (ns # "wifi" => cache'[ns] = Get(ns))
  <2>1. CASE ns = "wifi"
    BY <1>3, <2>1 DEF CacheKept, Fetched, StoreOK
  <2>2. CASE ns # "wifi"
    <3>1. cache' = [cache EXCEPT ![ns] = Get(ns)]
      BY <1>3, <2>2 DEF Fetched
    <3>2. Get(ns) = IF cache[ns] = Absent THEN Load(flash, ns) ELSE cache[ns]
      BY <2>2 DEF Get
    <3>3. DOMAIN cache = Namespaces
      BY DEF StoreOK
    <3> QED BY <2>2, <3>1, <3>2, <3>3 DEF CacheKept
  <2> QED BY <2>1, <2>2
<1> QED BY <1>2, <1>3

LEMMA CacheKeptFacts ==
  ASSUME Inv, CacheKept, UNCHANGED <<flash, torn, chosen>>
  PROVE  /\ cache'["wifi"] = Absent
         /\ \A ns \in Namespaces : cache'[ns] \in SettingsOf(ns) \cup {Absent}
         /\ \A ns \in {"syslog", "wan", "clock"} : cache'[ns] = cache[ns] /\ cache[ns] # Absent
         /\ cache["auth"] # Absent => cache'["auth"] = cache["auth"]
         /\ Password'
         /\ \A ns \in Namespaces :
              (cache[ns] # Absent => Load(flash, ns) = Load(cache, ns)) =>
                (cache'[ns] # Absent => Load(flash, ns) = Load(cache', ns))
<1> USE NamespaceFacts
<1>0. StoreOK
  BY DEF Inv
<1>1. \A ns \in Namespaces : Load(flash, ns) \in SettingsOf(ns) /\ Stored(ns, flash[ns])
  BY <1>0, LoadFacts DEF StoreOK
<1>2. \A ns \in Namespaces : cache'[ns] \in SettingsOf(ns) \cup {Absent}
  BY <1>0, <1>1 DEF StoreOK, CacheKept
<1>3. \A ns \in {"syslog", "wan", "clock"} : cache'[ns] = cache[ns] /\ cache[ns] # Absent
  BY <1>0 DEF StoreOK, CacheKept
<1>4. cache["auth"] # Absent => cache'["auth"] = cache["auth"]
  BY DEF CacheKept
<1>5. Password'
  <2> SUFFICES ASSUME chosen = TRUE, cache'["auth"] # Absent, cache["auth"] = Absent
               PROVE  cache'["auth"]["password"] # Default.auth.password
    BY <1>4 DEF Inv, Password
  <2>1. cache'["auth"] = Load(flash, "auth")
    BY DEF CacheKept
  <2> QED BY <2>1, LoadedPassword DEF Inv, Password
<1>6. ASSUME NEW ns \in Namespaces, cache[ns] # Absent => Load(flash, ns) = Load(cache, ns),
             cache'[ns] # Absent
      PROVE  Load(flash, ns) = Load(cache', ns)
  <2>1. CASE cache'[ns] = cache[ns]
    BY <1>6, <2>1 DEF Load
  <2>2. CASE cache'[ns] = Load(flash, ns)
    BY <1>1, <2>2, LoadAgain
  <2> QED BY <2>1, <2>2 DEF CacheKept
<1>7. cache'["wifi"] = Absent
  BY <1>0 DEF StoreOK, CacheKept
<1> QED BY <1>2, <1>3, <1>4, <1>5, <1>6, <1>7

LEMMA SavingFacts ==
  ASSUME NEW ns
  PROVE  Saving(ns) = {} <=> \A t \in Editors : ~(cmd[t].pc = "write" /\ cmd[t].ns = ns)
BY DEF Saving

LEMMA NotAlone ==
  ASSUME NEW c, DOMAIN c = {"pc", "ns", "new", "left", "restart", "alone"},
         NEW d, d = [c EXCEPT !.alone = FALSE]
  PROVE  /\ DOMAIN d = DOMAIN c /\ d.pc = c.pc /\ d.ns = c.ns /\ d.new = c.new
         /\ d.left = c.left /\ d.restart = c.restart /\ d.alone = FALSE
OBVIOUS

\* Task t, which is not saving, does something that leaves flash alone; the other
\* editor at most stops having its namespace to itself.
LEMMA QuietStore ==
  ASSUME Inv, NEW t \in Editors, cmd[t].pc # "write",
         UNCHANGED <<flash, torn, chosen, overtaken>>, CacheKept,
         DOMAIN cmd' = Editors, CommandOK(t)',
         \A u \in Editors \ {t} : cmd'[u] = cmd[u] \/ cmd'[u] = [cmd[u] EXCEPT !.alone = FALSE],
         cmd'[t].pc = "write" =>
           /\ \A k \in KeysOf(cmd'[t].ns) : ToWrite(cmd'[t], k)
           /\ \A u \in Editors \ {t} : cmd[u].pc = "write" /\ cmd[u].ns = cmd'[t].ns =>
                cmd'[u].alone = FALSE /\ cmd'[t].alone = FALSE,
         t = "web" => WebIsGated'
  PROVE  StoreOK' /\ Alone' /\ Password' /\ WebIsGated' /\ RestartKeeps'
<1>0. StoreOK /\ Alone /\ WebIsGated /\ RestartKeeps
  BY DEF Inv
<1>1. \A u \in Editors \ {t} :
        /\ DOMAIN cmd'[u] = DOMAIN cmd[u] /\ cmd'[u].pc = cmd[u].pc /\ cmd'[u].ns = cmd[u].ns
        /\ cmd'[u].new = cmd[u].new /\ cmd'[u].left = cmd[u].left /\ cmd'[u].restart = cmd[u].restart
        /\ cmd'[u].alone \in BOOLEAN /\ (cmd'[u].alone = TRUE => cmd[u].alone = TRUE)
  <2> TAKE u \in Editors \ {t}
  <2>1. /\ DOMAIN cmd[u] = {"pc", "ns", "new", "left", "restart", "alone"}
        /\ cmd[u].alone \in BOOLEAN
    BY <1>0 DEF StoreOK, CommandOK
  <2>2. CASE cmd'[u] = cmd[u]
    BY <2>1, <2>2
  <2>3. CASE cmd'[u] = [cmd[u] EXCEPT !.alone = FALSE]
    BY <2>1, <2>3, NotAlone
  <2> QED BY <2>2, <2>3
<1>2. \A u \in Editors : CommandOK(u)'
  <2> SUFFICES ASSUME NEW u \in Editors \ {t} PROVE CommandOK(u)'
    OBVIOUS
  <2> QED BY <1>0, <1>1 DEF StoreOK, CommandOK, SaveOK
<1>3. StoreOK'
  BY <1>0, <1>2, CacheKeptFacts DEF StoreOK, CacheKept
<1>4. Alone'
  <2> SUFFICES ASSUME NEW v \in Editors, cmd'[v].pc = "write", cmd'[v].alone = TRUE
               PROVE  /\ \A u \in Editors : cmd'[u].pc = "write" /\ cmd'[u].ns = cmd'[v].ns => u = v
                      /\ \A k \in KeysOf(cmd'[v].ns) :
                           ToWrite(cmd'[v], k) \/ flash'[cmd'[v].ns][k] = cmd'[v].new[k]
    BY DEF Alone
  <2>1. CASE v = t
    BY <1>1, <2>1
  <2>2. CASE v # t
    <3>1. cmd[v].pc = "write" /\ cmd[v].alone = TRUE /\ cmd'[v].ns = cmd[v].ns
      BY <1>1, <2>2
    <3>2. /\ \A u \in Editors : cmd[u].pc = "write" /\ cmd[u].ns = cmd[v].ns => u = v
          /\ \A k \in KeysOf(cmd[v].ns) : ToWrite(cmd[v], k) \/ flash[cmd[v].ns][k] = cmd[v].new[k]
      BY <1>0, <3>1 DEF Alone
    <3>3. \A k \in KeysOf(cmd'[v].ns) :
            ToWrite(cmd'[v], k) \/ flash'[cmd'[v].ns][k] = cmd'[v].new[k]
      BY <1>1, <2>2, <3>1, <3>2 DEF ToWrite
    <3>4. ASSUME NEW u \in Editors, cmd'[u].pc = "write", cmd'[u].ns = cmd'[v].ns PROVE u = v
      BY <1>1, <2>2, <3>1, <3>2, <3>4
    <3> QED BY <3>3, <3>4
  <2> QED BY <2>1, <2>2
<1>5. WebIsGated'
  <2>1. CASE t # "web"
    <3>1. cmd'["web"].pc = cmd["web"].pc /\ cmd'["web"].ns = cmd["web"].ns
      BY <1>1, <2>1 DEF Editors
    <3> QED BY <1>0, <3>1, CacheKeptFacts DEF WebIsGated
  <2> QED BY <2>1
<1>6. RestartKeeps'
  <2> SUFFICES ASSUME NEW ns \in Namespaces, torn[ns] = "no", Saving(ns)' = {}, cache'[ns] # Absent
               PROVE  Load(flash, ns) = Load(cache', ns)
    BY DEF RestartKeeps, Load
  <2>1. Saving(ns) = {}
    BY <1>1, SavingFacts DEF Saving
  <2> QED BY <1>0, <2>1, CacheKeptFacts DEF RestartKeeps
<1> QED BY <1>3, <1>4, <1>5, <1>6, CacheKeptFacts

LEMMA WayKept ==
  ASSUME Inv, UNCHANGED <<pubVars, overtaken>>, cache'["wan"] = cache["wan"],
         \A t \in Editors : /\ cmd'[t].pc = "publish" <=> cmd[t].pc = "publish"
                            /\ cmd[t].pc \in Way => cmd'[t].pc \in Way
  PROVE  PubTypeOK' /\ Exclusive' /\ OnItsWay'
<1>1. PubTypeOK'
  BY DEF Inv, PubTypeOK, pubVars
<1>2. Exclusive'
  BY DEF Inv, Exclusive, pubVars
<1>3. OnItsWay'
  BY DEF Inv, OnItsWay, pubVars, Way
<1> QED BY <1>1, <1>2, <1>3

Fields == {"pc", "ns", "new", "left", "restart", "alone"}

\* A step that only moves one editor on, which is not saving afterwards either.
LEMMA CommandStep ==
  ASSUME Inv, NEW t \in Editors, cmd[t].pc \in {"idle", "body", "erase"},
         UNCHANGED <<pubVars, flash, torn, chosen, overtaken>>, CacheKept,
         NEW c, cmd' = [cmd EXCEPT ![t] = c], DOMAIN c = Fields,
         c.pc \in {"idle", "body", "erase", "restart"}, c.restart \in BOOLEAN, c.alone \in BOOLEAN,
         c.pc = "erase" => t = "console" /\ c.left \in Seq(Namespaces),
         t = "web" => WebIsGated'
  PROVE  Inv'
<1>1. DOMAIN cmd = Editors
  BY DEF Inv, StoreOK
<1>2. DOMAIN cmd' = Editors /\ cmd'[t] = c /\ \A u \in Editors \ {t} : cmd'[u] = cmd[u]
  BY <1>1
<1>3. CommandOK(t)'
  BY <1>2 DEF CommandOK, Steps, Fields
<1>4. StoreOK' /\ Alone' /\ Password' /\ WebIsGated' /\ RestartKeeps'
  BY <1>2, <1>3, QuietStore
<1>5. PubTypeOK' /\ Exclusive' /\ OnItsWay'
  BY <1>2, CacheKeptFacts, WayKept DEF Way
<1> QED BY <1>4, <1>5 DEF Inv

LEMMA IdleFacts == /\ DOMAIN Idle = Fields /\ Idle.pc = "idle" /\ Idle.ns = "none"
                   /\ Idle.restart = FALSE /\ Idle.alone = TRUE
BY DEF Idle, Fields

LEMMA CacheSame ==
  ASSUME Inv, UNCHANGED cache
  PROVE  CacheKept
BY DEF Inv, StoreOK, CacheKept

LEMMA WebAdmitsStep ==
  ASSUME Inv, NEW ns \in Namespaces, WebAdmits(ns)
  PROVE  Inv'
<1>1. "web" \in Editors /\ DOMAIN cmd = Editors /\ StoreOK /\ "auth" \in Namespaces
  BY NamespaceFacts DEF Editors, Inv, StoreOK
<1>2. PICK c : c = [Idle EXCEPT !.pc = "body", !.ns = ns]
  OBVIOUS
<1>3. /\ DOMAIN c = Fields /\ c.pc = "body" /\ c.ns = ns /\ c.restart = FALSE /\ c.alone = TRUE
  BY <1>2 DEF Idle, Fields
<1>4. /\ cmd["web"].pc = "idle" /\ cmd' = [cmd EXCEPT !["web"] = c] /\ cmd'["web"] = c
      /\ UNCHANGED <<pubVars, flash, torn, chosen, overtaken>>
  BY <1>1, <1>2 DEF WebAdmits, history
<1>5. CacheKept /\ cache'["auth"] = Get("auth") /\ Get("auth") \in SettingsOf("auth")
  BY <1>1, FetchedFacts DEF WebAdmits
<1>6. WebIsGated'
  <2> SUFFICES ASSUME ns # "auth"
               PROVE  cache'["auth"] # Absent /\ cache'["auth"]["password"] # Default.auth.password
    BY <1>3, <1>4 DEF WebIsGated
  <2>1. cache'["auth"] # Absent
    BY <1>1, <1>5, SettingsPointwise
  <2> QED BY <1>5, <2>1 DEF WebAdmits
<1> QED BY <1>1, <1>3, <1>4, <1>5, <1>6, CommandStep

LEMMA WebRefusesStep ==
  ASSUME Inv, WebRefuses
  PROVE  Inv'
<1>1. "web" \in Editors /\ DOMAIN cmd = Editors /\ StoreOK /\ "auth" \in Namespaces
  BY NamespaceFacts DEF Editors, Inv, StoreOK
<1>2. /\ cmd["web"].pc = "idle" /\ UNCHANGED cmd
      /\ UNCHANGED <<pubVars, flash, torn, chosen, overtaken>>
  BY DEF WebRefuses, history
<1>3. CacheKept
  BY <1>1, FetchedFacts DEF WebRefuses
<1>4. WebIsGated' /\ CommandOK("web")'
  BY <1>1, <1>2 DEF WebIsGated, StoreOK, CommandOK
<1>5. StoreOK' /\ Alone' /\ Password' /\ WebIsGated' /\ RestartKeeps'
  BY <1>1, <1>2, <1>3, <1>4, QuietStore
<1>6. PubTypeOK' /\ Exclusive' /\ OnItsWay'
  BY <1>2, <1>3, CacheKeptFacts, WayKept
<1> QED BY <1>5, <1>6 DEF Inv

LEMMA BodyLostStep ==
  ASSUME Inv, BodyLost
  PROVE  Inv'
<1>1. "web" \in Editors /\ DOMAIN cmd = Editors
  BY DEF Editors, Inv, StoreOK
<1>2. /\ cmd["web"].pc = "body" /\ cmd' = [cmd EXCEPT !["web"] = Idle] /\ cmd'["web"] = Idle
      /\ UNCHANGED <<pubVars, flash, cache, torn, chosen, overtaken>>
  BY <1>1 DEF BodyLost, history
<1>3. WebIsGated'
  BY <1>2, IdleFacts DEF WebIsGated
<1> QED BY <1>1, <1>2, <1>3, IdleFacts, CacheSame, CommandStep

LEMMA ConsoleBeginsStep ==
  ASSUME Inv, cmd_reboot \/ cmd_factory_reset
  PROVE  Inv'
<1>1. "console" \in Editors /\ "console" # "web"
  BY DEF Editors
<1>2. <<"wifi", "auth", "syslog", "wan">> \in Seq(Namespaces)
  BY NamespaceFacts
<1>3. PICK c : /\ c \in {[Idle EXCEPT !.pc = "restart"],
                         [Idle EXCEPT !.pc = "erase", !.left = <<"wifi", "auth", "syslog", "wan">>,
                                      !.restart = TRUE]}
               /\ ConsoleBegins(c)
  BY DEF cmd_reboot, cmd_factory_reset
<1>4. /\ DOMAIN c = Fields /\ c.pc \in {"erase", "restart"} /\ c.restart \in BOOLEAN
      /\ c.alone \in BOOLEAN /\ (c.pc = "erase" => c.left \in Seq(Namespaces))
  BY <1>2, <1>3 DEF Idle, Fields
<1> QED BY <1>1, <1>3, <1>4, CacheSame, CommandStep DEF ConsoleBegins, history

LEMMA ErasedAllStep ==
  ASSUME Inv, NEW leases \in BOOLEAN, ErasedAll(leases)
  PROVE  Inv'
<1>1. "console" \in Editors /\ "console" # "web"
  BY DEF Editors
<1>2. DOMAIN cmd["console"] = Fields /\ cmd["console"].restart \in BOOLEAN /\ cmd["console"].alone \in BOOLEAN
  BY <1>1 DEF Inv, StoreOK, CommandOK, Fields
<1>3. PICK c : /\ c = IF cmd["console"].restart /\ leases
                       THEN [cmd["console"] EXCEPT !.pc = "restart"] ELSE Idle
               /\ cmd' = [cmd EXCEPT !["console"] = c]
  BY DEF ErasedAll
<1>4. DOMAIN c = Fields /\ c.pc \in {"idle", "restart"} /\ c.restart \in BOOLEAN /\ c.alone \in BOOLEAN
  BY <1>2, <1>3, IdleFacts DEF Fields
<1> QED BY <1>1, <1>3, <1>4, CacheSame, CommandStep DEF ErasedAll, history

\* A save writes every key of its namespace.
LEMMA KeysListed ==
  ASSUME NEW ns \in Namespaces
  PROVE  /\ Keys[ns] \in Seq(KeysOf(ns))
         /\ \A k \in KeysOf(ns) : \E i \in 1 .. Len(Keys[ns]) : Keys[ns][i] = k
<1>1. CASE ns = "wifi"
  <2>1. Keys[ns] = <<"ssid", "password", "channel">>
    BY <1>1 DEF Keys
  <2>2. \A k \in {"ssid", "password", "channel"} : \E i \in 1 .. 3 : Keys[ns][i] = k
    BY <2>1
  <2> QED BY <1>1, <2>1, <2>2, KeyFacts
<1>2. CASE ns = "auth"
  <2>1. Keys[ns] = <<"user", "password">>
    BY <1>2 DEF Keys
  <2>2. \A k \in {"user", "password"} : \E i \in 1 .. 2 : Keys[ns][i] = k
    BY <2>1
  <2> QED BY <1>2, <2>1, <2>2, KeyFacts
<1>3. CASE ns = "syslog"
  <2>1. Keys[ns] = <<"enabled", "ip", "host">>
    BY <1>3 DEF Keys
  <2>2. \A k \in {"enabled", "ip", "host"} : \E i \in 1 .. 3 : Keys[ns][i] = k
    BY <2>1
  <2> QED BY <1>3, <2>1, <2>2, KeyFacts
<1>4. CASE ns = "wan"
  <2>1. Keys[ns] = <<"enabled", "ssid", "password", "ports">>
    BY <1>4 DEF Keys
  <2>2. \A k \in {"enabled", "ssid", "password", "ports"} : \E i \in 1 .. 4 : Keys[ns][i] = k
    BY <2>1
  <2> QED BY <1>4, <2>1, <2>2, KeyFacts
<1>5. CASE ns = "clock"
  <2>1. Keys[ns] = <<"tz">>
    BY <1>5 DEF Keys
  <2>2. \A k \in {"tz"} : \E i \in 1 .. 1 : Keys[ns][i] = k
    BY <2>1
  <2> QED BY <1>5, <2>1, <2>2, KeyFacts
<1> QED BY <1>1, <1>2, <1>3, <1>4, <1>5, NamespaceFacts

LEMMA EditsStep ==
  ASSUME Inv, NEW t \in Editors, NEW ns \in Namespaces, cmd[t].pc \in {"idle", "body"},
         t = "web" => cmd[t].pc = "body" /\ cmd[t].ns = ns,
         NEW e \in Inputs[t][ns], Edits(t, ns, e)
  PROVE  Inv'
<1> DEFINE cur == Get(ns)
           new == Edited(t, ns, cur, e)
           begun == [pc |-> "write", ns |-> ns, new |-> new, left |-> Keys[ns], alone |-> Saving(ns) = {},
                     restart |-> ns = "wifi" \/ (ns = "wan" /\ RadioChanged(cur, new))]
<1>0. StoreOK /\ DOMAIN cmd = Editors /\ UNCHANGED <<pubVars, flash, torn, chosen, overtaken>>
  BY DEF Inv, StoreOK, Edits, history
<1>1. CacheKept /\ cur \in SettingsOf(ns)
  BY <1>0, FetchedFacts DEF Edits
<1>2. new \in SettingsOf(ns)
  BY <1>1, EditedFacts
<1>3. CASE ~(Complete(t, ns, e) /\ Valid(ns, new))
  <2>1. cmd' = [cmd EXCEPT ![t] = Idle] /\ cmd'[t] = Idle
    BY <1>0, <1>3 DEF Edits
  <2>2. t = "web" => WebIsGated'
    BY <2>1, IdleFacts DEF WebIsGated
  <2> QED BY <1>0, <1>1, <2>1, <2>2, IdleFacts, CommandStep
<1>4. CASE Complete(t, ns, e) /\ Valid(ns, new)
  <2> HIDE DEF new, cur
  <2>1. cmd' = [u \in Editors |-> IF u = t THEN begun
                                  ELSE IF u \in Saving(ns) THEN [cmd[u] EXCEPT !.alone = FALSE]
                                  ELSE cmd[u]]
    BY <1>4 DEF Edits, new, cur
  <2>2. begun.alone \in BOOLEAN /\ begun.restart \in BOOLEAN /\ (begun.alone = TRUE <=> Saving(ns) = {})
    OBVIOUS
  <2>3. /\ DOMAIN begun = Fields /\ begun.pc = "write" /\ begun.ns = ns /\ begun.new = new
        /\ begun.left = Keys[ns]
    BY DEF Fields
  <2> HIDE DEF begun
  <2>4. DOMAIN cmd' = Editors /\ cmd'[t] = begun
    BY <2>1
  <2>5. ns = "auth" => new.password # Default.auth.password
    BY <1>4 DEF Valid, auth_cfg_validate
  <2>6. CommandOK(t)'
    BY <1>2, <2>2, <2>3, <2>4, <2>5, KeysListed DEF CommandOK, SaveOK, Steps, Fields
  <2>7. \A u \in Editors \ {t} :
          /\ cmd'[u] = cmd[u] \/ cmd'[u] = [cmd[u] EXCEPT !.alone = FALSE]
          /\ cmd[u].pc = "write" /\ cmd[u].ns = ns => cmd'[u].alone = FALSE /\ begun.alone = FALSE
    <3> TAKE u \in Editors \ {t}
    <3>1. cmd'[u] = cmd[u] \/ cmd'[u] = [cmd[u] EXCEPT !.alone = FALSE]
      BY <2>1
    <3>2. ASSUME cmd[u].pc = "write", cmd[u].ns = ns PROVE cmd'[u].alone = FALSE /\ begun.alone = FALSE
      <4>1. u \in Saving(ns)
        BY <3>2 DEF Saving
      <4>2. cmd'[u] = [cmd[u] EXCEPT !.alone = FALSE] /\ DOMAIN cmd[u] = Fields
        BY <2>1, <4>1, <1>0 DEF StoreOK, CommandOK, Fields
      <4> QED BY <2>2, <4>1, <4>2, NotAlone DEF Fields
    <3> QED BY <3>1, <3>2
  <2>8. \A k \in KeysOf(ns) : ToWrite(begun, k)
    BY <2>3, KeysListed DEF ToWrite
  <2>9. t = "web" => WebIsGated'
    BY <2>3, <2>4, <1>0, <1>1, CacheKeptFacts DEF Inv, WebIsGated
  <2>10. StoreOK' /\ Alone' /\ Password' /\ WebIsGated' /\ RestartKeeps'
    BY <1>0, <1>1, <2>3, <2>4, <2>6, <2>7, <2>8, <2>9, QuietStore
  <2>11. \A u \in Editors : /\ cmd'[u].pc = "publish" <=> cmd[u].pc = "publish"
                            /\ cmd[u].pc \in Way => cmd'[u].pc \in Way
    <3> TAKE u \in Editors
    <3>1. CASE u = t
      BY <2>3, <2>4, <3>1 DEF Way
    <3>2. CASE u # t
      <4>1. DOMAIN cmd[u] = {"pc", "ns", "new", "left", "restart", "alone"}
        BY <1>0 DEF StoreOK, CommandOK
      <4>2. cmd'[u] = cmd[u] \/ cmd'[u] = [cmd[u] EXCEPT !.alone = FALSE]
        BY <2>7, <3>2
      <4>3. cmd'[u] = [cmd[u] EXCEPT !.alone = FALSE] => cmd'[u].pc = cmd[u].pc
        BY <4>1, NotAlone
      <4>4. cmd'[u].pc = cmd[u].pc
        BY <4>2, <4>3
      <4> QED BY <4>4
    <3> QED BY <3>1, <3>2
  <2>12. PubTypeOK' /\ Exclusive' /\ OnItsWay'
    BY <1>0, <1>1, <2>11, CacheKeptFacts, WayKept
  <2> QED BY <2>10, <2>12 DEF Inv
<1> QED BY <1>3, <1>4

LEMMA EditSteps ==
  ASSUME Inv,
         \/ wifi_post_handler \/ admin_post_handler \/ syslog_post_handler \/ wan_post_handler
         \/ time_post_handler
         \/ cmd_wifi \/ cmd_admin \/ cmd_syslog \/ cmd_wan \/ cmd_time
  PROVE  Inv'
<1>1. "web" \in Editors /\ "console" \in Editors /\ "console" # "web"
  BY DEF Editors
<1>2. ASSUME NEW ns \in Namespaces, Posted(ns) PROVE Inv'
  BY <1>1, <1>2, EditsStep DEF Posted
<1>3. ASSUME NEW ns \in Namespaces, Typed(ns) PROVE Inv'
  BY <1>1, <1>3, EditsStep DEF Typed
<1> QED BY <1>2, <1>3, NamespaceFacts
        DEF wifi_post_handler, admin_post_handler, syslog_post_handler, wan_post_handler,
            time_post_handler, cmd_wifi, cmd_admin, cmd_syslog, cmd_wan, cmd_time

-----------------------------------------------------------------------------
(* Steps of a save, and of a reset.                                        *)

LEMMA LoadSame ==
  ASSUME NEW f, NEW g, NEW ns, f[ns] = g[ns]
  PROVE  Load(f, ns) = Load(g, ns)
BY DEF Load

LEMMA Tailed ==
  ASSUME NEW S, NEW q \in Seq(S), q # <<>>
  PROVE  /\ Tail(q) \in Seq(S) /\ Len(q) \in Nat /\ Len(Tail(q)) = Len(q) - 1
         /\ \A i \in 1 .. Len(q) - 1 : Tail(q)[i] = q[i + 1]
         /\ Head(q) = q[1] /\ Head(q) \in S
OBVIOUS

LEMMA WritingFacts ==
  ASSUME Inv, NEW t \in Editors, cmd[t].pc = "write"
  PROVE  /\ DOMAIN cmd[t] = Fields /\ SaveOK(cmd[t]) /\ cmd[t].ns \in Namespaces
         /\ cmd[t].restart \in BOOLEAN /\ cmd[t].alone \in BOOLEAN
         /\ cmd[t].new \in SettingsOf(cmd[t].ns)
         /\ \A k \in KeysOf(cmd[t].ns) : cmd[t].new[k] \in ValuesOf(k) /\ cmd[t].new[k] # Absent
BY SettingsPointwise DEF Inv, StoreOK, CommandOK, SaveOK, Fields

LEMMA SetsKeyStep ==
  ASSUME Inv, NEW t \in Editors, SetsKey(t)
  PROVE  Inv'
<1> DEFINE ns == cmd[t].ns
           left == cmd[t].left
           h == Head(left)
           new == cmd[t].new
<1>0. /\ StoreOK /\ Alone /\ Password /\ WebIsGated /\ RestartKeeps
      /\ cmd[t].pc = "write" /\ left # <<>>
      /\ UNCHANGED <<pubVars, cache, torn, chosen, overtaken>>
  BY DEF Inv, SetsKey, history
<1>1. /\ DOMAIN cmd[t] = Fields /\ SaveOK(cmd[t]) /\ ns \in Namespaces
      /\ cmd[t].restart \in BOOLEAN /\ cmd[t].alone \in BOOLEAN
      /\ \A k \in KeysOf(ns) : new[k] \in ValuesOf(k) /\ new[k] # Absent
  BY <1>0, WritingFacts
<1>2. /\ left \in Seq(KeysOf(ns)) /\ h \in KeysOf(ns) /\ h = left[1]
      /\ Tail(left) \in Seq(KeysOf(ns)) /\ Len(left) \in Nat /\ Len(Tail(left)) = Len(left) - 1
      /\ \A i \in 1 .. Len(left) - 1 : Tail(left)[i] = left[i + 1]
  <2>1. left \in Seq(KeysOf(ns))
    BY <1>1 DEF SaveOK
  <2> HIDE DEF left, ns
  <2> QED BY <1>0, <2>1, Tailed
<1>3. /\ DOMAIN cmd' = Editors /\ \A u \in Editors \ {t} : cmd'[u] = cmd[u]
      /\ cmd'[t] = [cmd[t] EXCEPT !.left = Tail(left)]
  BY <1>0 DEF SetsKey, StoreOK
<1>4. /\ DOMAIN cmd'[t] = Fields /\ cmd'[t].pc = "write" /\ cmd'[t].ns = ns /\ cmd'[t].new = new
      /\ cmd'[t].left = Tail(left) /\ cmd'[t].restart = cmd[t].restart /\ cmd'[t].alone = cmd[t].alone
  BY <1>0, <1>1, <1>3 DEF Fields
<1>5. /\ DOMAIN flash = Namespaces /\ DOMAIN flash[ns] = KeysOf(ns)
  BY <1>0, <1>1 DEF StoreOK, Stored
<1>6. /\ DOMAIN flash' = Namespaces /\ \A x \in Namespaces \ {ns} : flash'[x] = flash[x]
      /\ DOMAIN flash'[ns] = KeysOf(ns)
      /\ flash'[ns][h] = new[h] /\ \A k \in KeysOf(ns) \ {h} : flash'[ns][k] = flash[ns][k]
  BY <1>1, <1>2, <1>5 DEF SetsKey
<1> HIDE DEF ns, left, h, new
<1>7. \A u \in Editors : CommandOK(u)'
  <2>1. CommandOK(t)'
    BY <1>1, <1>2, <1>4 DEF CommandOK, SaveOK, Steps, Fields, ns, new
  <2>2. ASSUME NEW u \in Editors \ {t} PROVE CommandOK(u)'
    BY <1>0, <1>3 DEF StoreOK, CommandOK
  <2> QED BY <2>1, <2>2
<1>8. \A x \in Namespaces : Stored(x, flash'[x])
  <2>1. Stored(ns, flash'[ns])
    BY <1>0, <1>1, <1>2, <1>6 DEF StoreOK, Stored
  <2> QED BY <1>0, <1>6, <2>1 DEF StoreOK
<1>9. StoreOK'
  BY <1>0, <1>3, <1>6, <1>7, <1>8 DEF StoreOK
<1>10. Alone'
  <2> SUFFICES ASSUME NEW v \in Editors, cmd'[v].pc = "write", cmd'[v].alone = TRUE
               PROVE  /\ \A u \in Editors : cmd'[u].pc = "write" /\ cmd'[u].ns = cmd'[v].ns => u = v
                      /\ \A k \in KeysOf(cmd'[v].ns) :
                           ToWrite(cmd'[v], k) \/ flash'[cmd'[v].ns][k] = cmd'[v].new[k]
    BY DEF Alone
  <2>1. \A u \in Editors : cmd'[u].pc = cmd[u].pc /\ cmd'[u].ns = cmd[u].ns /\ cmd'[u].alone = cmd[u].alone
    BY <1>0, <1>3, <1>4 DEF ns
  <2>2. /\ \A u \in Editors : cmd[u].pc = "write" /\ cmd[u].ns = cmd[v].ns => u = v
        /\ \A k \in KeysOf(cmd[v].ns) : ToWrite(cmd[v], k) \/ flash[cmd[v].ns][k] = cmd[v].new[k]
    BY <1>0, <2>1 DEF Alone
  <2>3. CASE v # t
    <3>1. cmd[v].ns # ns /\ cmd[v].ns \in Namespaces
      BY <1>0, <2>1, <2>2, <2>3, WritingFacts DEF ns
    <3> QED BY <1>3, <1>6, <2>1, <2>2, <2>3, <3>1 DEF ToWrite
  <2>4. CASE v = t
    <3>1. ASSUME NEW k \in KeysOf(ns), ~ToWrite(cmd'[t], k) PROVE flash'[ns][k] = new[k]
      <4>1. CASE k = h
        BY <1>6, <4>1
      <4>2. CASE k # h
        <5>1. ~ToWrite(cmd[t], k)
          <6> SUFFICES ASSUME NEW i \in 1 .. Len(left), left[i] = k PROVE FALSE
            BY DEF ToWrite, left
          <6>1. i # 1 /\ i - 1 \in 1 .. Len(Tail(left)) /\ Tail(left)[i - 1] = k
            BY <1>2, <4>2
          <6> QED BY <6>1, <1>4, <3>1 DEF ToWrite
        <5> QED BY <1>6, <2>2, <2>4, <4>2, <5>1 DEF ns, new
      <4> QED BY <4>1, <4>2
    <3> QED BY <1>4, <2>1, <2>2, <2>4, <3>1
  <2> QED BY <2>3, <2>4
<1>11. Password'
  <2> SUFFICES ASSUME chosen = TRUE
               PROVE  flash'["auth"]["password"] \notin {Absent, Default.auth.password}
    BY <1>0 DEF Password
  <2>1. CASE ns = "auth" /\ h = "password"
    BY <1>1, <1>2, <1>6, <2>1 DEF SaveOK, ns, new
  <2>2. CASE ~(ns = "auth" /\ h = "password")
    <3>1. flash'["auth"]["password"] = flash["auth"]["password"]
      BY <1>6, <2>2, NamespaceFacts, KeyFacts
    <3> QED BY <1>0, <3>1 DEF Password
  <2> QED BY <2>1, <2>2
<1>12. WebIsGated'
  BY <1>0, <1>3, <1>4 DEF WebIsGated, Editors, ns
<1>13. RestartKeeps'
  <2> SUFFICES ASSUME NEW x \in Namespaces, torn[x] = "no", Saving(x)' = {}, cache[x] # Absent
               PROVE  Load(flash', x) = Load(cache, x)
    BY <1>0 DEF RestartKeeps, Load
  <2>1. x # ns
    BY <1>4 DEF Saving
  <2>2. Saving(x) = {}
    BY <1>3, <1>4, <2>1 DEF Saving, ns
  <2>3. Load(flash', x) = Load(flash, x)
    BY <1>6, <2>1, LoadSame
  <2> QED BY <1>0, <2>2, <2>3 DEF RestartKeeps
<1>14. PubTypeOK' /\ Exclusive' /\ OnItsWay'
  BY <1>0, <1>3, <1>4, WayKept
<1> QED BY <1>9, <1>10, <1>11, <1>12, <1>13, <1>14 DEF Inv

\* What a command that is not saving any more leaves to the other one.
LEMMA AloneLeft ==
  ASSUME Inv, NEW t \in Editors, UNCHANGED flash, cmd'[t].pc # "write",
         \A u \in Editors \ {t} : cmd'[u] = cmd[u]
  PROVE  Alone'
<1> SUFFICES ASSUME NEW v \in Editors, cmd'[v].pc = "write", cmd'[v].alone = TRUE
             PROVE  /\ \A u \in Editors : cmd'[u].pc = "write" /\ cmd'[u].ns = cmd'[v].ns => u = v
                    /\ \A k \in KeysOf(cmd'[v].ns) :
                         ToWrite(cmd'[v], k) \/ flash'[cmd'[v].ns][k] = cmd'[v].new[k]
  BY DEF Alone
<1>1. v # t /\ cmd'[v] = cmd[v]
  OBVIOUS
<1>2. /\ \A u \in Editors : cmd[u].pc = "write" /\ cmd[u].ns = cmd[v].ns => u = v
      /\ \A k \in KeysOf(cmd[v].ns) : ToWrite(cmd[v], k) \/ flash[cmd[v].ns][k] = cmd[v].new[k]
  BY <1>1 DEF Inv, Alone
<1> QED BY <1>1, <1>2

LEMMA SaveFailsStep ==
  ASSUME Inv, NEW t \in Editors, SaveFails(t)
  PROVE  Inv'
<1>0. /\ StoreOK /\ Password /\ WebIsGated /\ RestartKeeps /\ cmd[t].pc = "write"
      /\ UNCHANGED <<pubVars, flash, cache, chosen, overtaken>>
  BY DEF Inv, SaveFails
<1>1. /\ DOMAIN cmd' = Editors /\ \A u \in Editors \ {t} : cmd'[u] = cmd[u]
      /\ cmd'[t] = Idle
  BY <1>0 DEF SaveFails, StoreOK
<1>2. /\ torn' \in [Namespaces -> {"no", "mixed", "broken"}] /\ torn'[cmd[t].ns] = "broken"
      /\ \A x \in Namespaces : x # cmd[t].ns => torn'[x] = torn[x]
  BY <1>0, WritingFacts DEF SaveFails, StoreOK
<1>3. CommandOK(t)'
  BY <1>1, IdleFacts DEF CommandOK, Steps, Fields
<1>4. StoreOK'
  <2>1. ASSUME NEW u \in Editors \ {t} PROVE CommandOK(u)'
    BY <1>0, <1>1 DEF StoreOK, CommandOK
  <2> QED BY <1>0, <1>1, <1>2, <1>3, <2>1 DEF StoreOK
<1>5. Alone'
  BY <1>0, <1>1, IdleFacts, AloneLeft
<1>6. Password' /\ WebIsGated'
  BY <1>0, <1>1, IdleFacts DEF Password, WebIsGated, Editors
<1>7. RestartKeeps'
  <2> SUFFICES ASSUME NEW x \in Namespaces, torn'[x] = "no", Saving(x)' = {}, cache[x] # Absent
               PROVE  Load(flash, x) = Load(cache, x)
    BY <1>0 DEF RestartKeeps, Load
  <2>1. x # cmd[t].ns /\ torn[x] = "no"
    BY <1>2
  <2>2. Saving(x) = {}
    BY <1>1, <2>1 DEF Saving
  <2> QED BY <1>0, <2>1, <2>2 DEF RestartKeeps
<1>8. PubTypeOK' /\ Exclusive' /\ OnItsWay'
  <2>1. \A u \in Editors : /\ cmd'[u].pc = "publish" <=> cmd[u].pc = "publish"
                           /\ cmd[u].pc \in Way => cmd'[u].pc \in Way
    BY <1>0, <1>1, IdleFacts DEF Way
  <2> QED BY <1>0, <2>1, WayKept
<1> QED BY <1>4, <1>5, <1>6, <1>7, <1>8 DEF Inv

LEMMA SavesStep ==
  ASSUME Inv, NEW t \in Editors, Saves(t)
  PROVE  Inv'
<1> DEFINE ns == cmd[t].ns
           new == cmd[t].new
<1>0. /\ StoreOK /\ Password /\ WebIsGated /\ RestartKeeps /\ OnItsWay
      /\ cmd[t].pc = "write" /\ cmd[t].left = <<>> /\ UNCHANGED <<pubVars, flash>>
  BY DEF Inv, Saves
<1>1. /\ DOMAIN cmd[t] = Fields /\ SaveOK(cmd[t]) /\ ns \in Namespaces /\ new \in SettingsOf(ns)
      /\ cmd[t].restart \in BOOLEAN /\ cmd[t].alone \in BOOLEAN
  BY <1>0, WritingFacts
<1>2. PICK c : /\ c = IF AfterSave(cmd[t]) = "idle" THEN Idle ELSE [cmd[t] EXCEPT !.pc = AfterSave(cmd[t])]
               /\ cmd' = [cmd EXCEPT ![t] = c]
  BY DEF Saves
<1>3. /\ DOMAIN cmd' = Editors /\ cmd'[t] = c /\ \A u \in Editors \ {t} : cmd'[u] = cmd[u]
  BY <1>0, <1>2 DEF StoreOK
<1>4. /\ DOMAIN c = Fields /\ c.pc \in {"idle", "changed", "restart"} /\ c.restart \in BOOLEAN
      /\ c.alone \in BOOLEAN /\ (c.pc # "idle" => c.ns = ns) /\ (ns = "wan" => c.pc \in Way)
  BY <1>1, <1>2, IdleFacts DEF AfterSave, Fields, Way
<1>5. /\ DOMAIN cache' = Namespaces /\ cache'["wifi"] = Absent
      /\ \A x \in Namespaces : x # ns => cache'[x] = cache[x]
      /\ ns # "wifi" => cache'[ns] = Kept(ns, new)
  BY <1>0, <1>1 DEF Saves, Cached, StoreOK
<1>6. /\ Kept(ns, new) \in SettingsOf(ns) /\ Kept(ns, new) # Absent
      /\ \A k \in KeysOf(ns) : k \notin {"tz", "host"} => Kept(ns, new)[k] = new[k]
  BY <1>1, KeptFacts
<1>7. /\ torn' \in [Namespaces -> {"no", "mixed", "broken"}]
      /\ \A x \in Namespaces : x # ns => torn'[x] = torn[x]
      /\ torn'[ns] = "no" => cmd[t].alone = TRUE
  BY <1>0, <1>1 DEF Saves, StoreOK
<1>8. /\ chosen' \in BOOLEAN /\ overtaken' \in BOOLEAN
      /\ chosen' = TRUE => chosen = TRUE \/ (ns = "auth" /\ cmd[t].alone = TRUE)
      /\ overtaken' = FALSE => overtaken = FALSE /\ (ns = "wan" => Publishing = {})
  BY <1>0, <1>1 DEF Saves, StoreOK
<1>9. cmd[t].alone = TRUE => \A k \in KeysOf(ns) : flash[ns][k] = new[k]
  <2>1. \A k \in KeysOf(ns) : ~ToWrite(cmd[t], k)
    BY <1>0 DEF ToWrite
  <2> QED BY <1>0, <2>1 DEF Inv, Alone
<1> HIDE DEF ns, new
<1>10. StoreOK'
  <2>1. CommandOK(t)'
    BY <1>3, <1>4 DEF CommandOK, Steps, Fields
  <2>2. ASSUME NEW u \in Editors \ {t} PROVE CommandOK(u)'
    BY <1>0, <1>3 DEF StoreOK, CommandOK
  <2>3. \A x \in Namespaces : cache'[x] \in SettingsOf(x) \cup {Absent}
    BY <1>0, <1>1, <1>5, <1>6 DEF StoreOK
  <2>4. \A x \in {"syslog", "wan", "clock"} : cache'[x] # Absent
    BY <1>0, <1>5, <1>6, NamespaceFacts DEF StoreOK
  <2> QED BY <1>0, <1>3, <1>5, <1>7, <1>8, <2>1, <2>2, <2>3, <2>4 DEF StoreOK
<1>11. Alone'
  BY <1>0, <1>3, <1>4, AloneLeft
<1>12. ns = "auth" => /\ cache'["auth"] # Absent /\ cache'["auth"]["password"] = new["password"]
                      /\ new["password"] # Default.auth.password /\ new["password"] # Absent
  BY <1>1, <1>5, <1>6, KeyFacts, SettingsPointwise DEF SaveOK, ns, new
<1>13. Password'
  <2> SUFFICES ASSUME chosen' = TRUE
               PROVE  /\ flash["auth"]["password"] \notin {Absent, Default.auth.password}
                      /\ cache'["auth"] # Absent => cache'["auth"]["password"] # Default.auth.password
    BY <1>0 DEF Password
  <2>1. CASE ns = "auth"
    BY <1>0, <1>8, <1>9, <1>12, <2>1, KeyFacts DEF Password
  <2>2. CASE ns # "auth"
    BY <1>0, <1>5, <1>8, <2>2, NamespaceFacts DEF Password
  <2> QED BY <2>1, <2>2
<1>14. WebIsGated'
  <2>1. cmd'["web"].pc # "idle" => cmd["web"].pc # "idle" /\ cmd'["web"].ns = cmd["web"].ns
    BY <1>0, <1>3, <1>4 DEF Editors, ns
  <2>2. CASE ns = "auth"
    BY <1>12, <2>2 DEF WebIsGated
  <2>3. CASE ns # "auth"
    BY <1>0, <1>5, <2>1, <2>3, NamespaceFacts DEF WebIsGated
  <2> QED BY <2>2, <2>3
<1>15. RestartKeeps'
  <2> SUFFICES ASSUME NEW x \in Namespaces, torn'[x] = "no", Saving(x)' = {}, cache'[x] # Absent
               PROVE  Load(flash, x) = Load(cache', x)
    BY <1>0 DEF RestartKeeps, Load
  <2>1. CASE x = ns
    <3>1. cache'[ns] = Kept(ns, new) /\ \A k \in KeysOf(ns) : flash[ns][k] = new[k]
      BY <1>5, <1>7, <1>9, <2>1
    <3> QED BY <1>1, <2>1, <3>1, KeptLoads
  <2>2. CASE x # ns
    <3>1. Saving(x) = {} /\ torn[x] = "no" /\ cache'[x] = cache[x]
      BY <1>3, <1>5, <1>7, <2>2 DEF Saving, ns
    <3>2. Load(cache', x) = Load(cache, x)
      BY <3>1, LoadSame
    <3> QED BY <1>0, <3>1, <3>2 DEF RestartKeeps
  <2> QED BY <2>1, <2>2
<1>16. PubTypeOK' /\ Exclusive'
  BY <1>0 DEF Inv, PubTypeOK, Exclusive, pubVars
<1>17. OnItsWay'
  <2>1. \A u \in Editors : /\ cmd'[u].pc = "publish" <=> cmd[u].pc = "publish"
                           /\ cmd[u].pc \in Way => cmd'[u].pc \in Way
    BY <1>0, <1>3, <1>4 DEF Way
  <2>2. CASE ns # "wan"
    <3>1. cache'["wan"] = cache["wan"]
      BY <1>5, <2>2, NamespaceFacts
    <3> QED BY <1>0, <1>8, <2>1, <3>1 DEF OnItsWay, pubVars, Way
  <2>3. CASE ns = "wan"
    <3>1. overtaken' = FALSE => \A u \in Publishers : call[u].pc \notin {"take", "fill"}
      BY <1>8, <2>3 DEF Publishing
    <3> QED BY <1>0, <1>3, <1>4, <2>1, <2>3, <3>1 DEF OnItsWay, pubVars, Way
  <2> QED BY <2>2, <2>3
<1> QED BY <1>10, <1>11, <1>13, <1>14, <1>15, <1>16, <1>17 DEF Inv

\* The reset's next namespace: cleared, or left as it was.
LEMMA ErasesStep ==
  ASSUME Inv, Erases
  PROVE  Inv'
<1> DEFINE c == cmd["console"]
           ns == Head(c.left)
<1>0. /\ StoreOK /\ Alone /\ Password /\ WebIsGated /\ RestartKeeps
      /\ "console" \in Editors /\ "web" \in Editors /\ "console" # "web"
      /\ c.pc = "erase" /\ c.left # <<>> /\ UNCHANGED <<pubVars, cache, overtaken>>
  BY DEF Inv, Erases, Editors
<1>1. /\ DOMAIN c = Fields /\ c.restart \in BOOLEAN /\ c.alone \in BOOLEAN /\ c.left \in Seq(Namespaces)
  BY <1>0 DEF StoreOK, CommandOK, Fields
<1>2. ns \in Namespaces /\ Tail(c.left) \in Seq(Namespaces)
  <2>1. PICK q \in Seq(Namespaces) : q = c.left /\ q # <<>>
    BY <1>0, <1>1
  <2> QED BY <2>1, Tailed
<1>3. CASE UNCHANGED <<flash, torn, chosen>>
           /\ cmd' = [cmd EXCEPT !["console"].left = Tail(@), !["console"].restart = FALSE]
  <2>1. PICK d : d = [c EXCEPT !.left = Tail(c.left), !.restart = FALSE]
    OBVIOUS
  <2>2. cmd' = [cmd EXCEPT !["console"] = d]
    BY <1>0, <1>1, <1>3, <2>1 DEF StoreOK, Fields
  <2>3. /\ DOMAIN d = Fields /\ d.pc = "erase" /\ d.restart = FALSE /\ d.alone = c.alone
        /\ d.left \in Seq(Namespaces)
    BY <1>0, <1>1, <1>2, <2>1 DEF Fields
  <2> QED BY <1>0, <1>1, <1>3, <2>2, <2>3, CacheSame, CommandStep
<1>4. CASE /\ flash' = [flash EXCEPT ![ns] = Erased(ns)]
           /\ torn' = [torn EXCEPT ![ns] = "broken"]
           /\ chosen' = (chosen /\ ns # "auth")
           /\ cmd' = [t \in Editors |->
                IF t = "console" THEN [c EXCEPT !.left = Tail(@)]
                ELSE IF t \in Saving(ns) THEN [cmd[t] EXCEPT !.alone = FALSE] ELSE cmd[t]]
  <2> HIDE DEF ns
  <2>1. /\ DOMAIN cmd' = Editors /\ cmd'["console"] = [c EXCEPT !.left = Tail(c.left)]
        /\ cmd'["web"] = IF "web" \in Saving(ns) THEN [cmd["web"] EXCEPT !.alone = FALSE] ELSE cmd["web"]
    BY <1>0, <1>4
  <2>2. /\ DOMAIN cmd'["console"] = Fields /\ cmd'["console"].pc = "erase"
        /\ cmd'["console"].restart = c.restart /\ cmd'["console"].alone = c.alone
        /\ cmd'["console"].left = Tail(c.left)
    BY <1>0, <1>1, <2>1 DEF Fields
  <2> HIDE DEF c
  <2>3. /\ DOMAIN cmd["web"] = Fields /\ DOMAIN cmd'["web"] = Fields
        /\ cmd'["web"].pc = cmd["web"].pc /\ cmd'["web"].ns = cmd["web"].ns
        /\ cmd'["web"].new = cmd["web"].new /\ cmd'["web"].left = cmd["web"].left
        /\ cmd'["web"].restart = cmd["web"].restart /\ cmd'["web"].alone \in BOOLEAN
        /\ cmd'["web"].alone = TRUE => cmd["web"].alone = TRUE /\ "web" \notin Saving(ns)
    <3>1. DOMAIN cmd["web"] = Fields /\ cmd["web"].alone \in BOOLEAN
      BY <1>0 DEF StoreOK, CommandOK, Fields
    <3>2. CASE "web" \in Saving(ns)
      BY <2>1, <3>1, <3>2, NotAlone DEF Fields
    <3>3. CASE "web" \notin Saving(ns)
      BY <2>1, <3>1, <3>3
    <3> QED BY <3>2, <3>3
  <2>4. /\ DOMAIN flash' = Namespaces /\ flash'[ns] = Erased(ns)
        /\ \A x \in Namespaces \ {ns} : flash'[x] = flash[x]
        /\ torn' \in [Namespaces -> {"no", "mixed", "broken"}] /\ torn'[ns] = "broken"
        /\ \A x \in Namespaces \ {ns} : torn'[x] = torn[x]
        /\ chosen' \in BOOLEAN /\ (chosen' = TRUE => chosen = TRUE /\ ns # "auth")
    BY <1>0, <1>2, <1>4 DEF StoreOK
  <2>5. StoreOK'
    <3>1. CommandOK("console")'
      BY <1>1, <1>2, <2>2 DEF CommandOK, Steps, Fields
    <3>2. CommandOK("web")'
      BY <1>0, <2>3 DEF StoreOK, CommandOK, SaveOK, Fields
    <3>3. \A t \in Editors : CommandOK(t)'
      BY <3>1, <3>2 DEF Editors
    <3>4. Stored(ns, flash'[ns])
      BY <2>4 DEF Stored, Erased
    <3>5. \A x \in Namespaces : Stored(x, flash'[x])
      BY <1>0, <2>4, <3>4 DEF StoreOK
    <3> QED BY <1>0, <2>1, <2>4, <3>3, <3>5 DEF StoreOK
  <2>6. Alone'
    <3> SUFFICES ASSUME cmd'["web"].pc = "write", cmd'["web"].alone = TRUE
                 PROVE  \A k \in KeysOf(cmd'["web"].ns) :
                          ToWrite(cmd'["web"], k) \/ flash'[cmd'["web"].ns][k] = cmd'["web"].new[k]
      BY <2>2 DEF Alone, Editors
    <3>1. cmd["web"].ns # ns /\ cmd["web"].ns \in Namespaces /\ cmd["web"].alone = TRUE
      BY <1>0, <2>3, WritingFacts DEF Saving
    <3>2. \A k \in KeysOf(cmd["web"].ns) :
            ToWrite(cmd["web"], k) \/ flash[cmd["web"].ns][k] = cmd["web"].new[k]
      BY <1>0, <2>3, <3>1 DEF Alone
    <3> QED BY <2>3, <2>4, <3>1, <3>2 DEF ToWrite
  <2>7. Password'
    BY <1>0, <2>4, NamespaceFacts DEF Password
  <2>8. WebIsGated'
    BY <1>0, <2>3 DEF WebIsGated
  <2>9. RestartKeeps'
    <3> SUFFICES ASSUME NEW x \in Namespaces, torn'[x] = "no", Saving(x)' = {}, cache[x] # Absent
                 PROVE  Load(flash', x) = Load(cache, x)
      BY <1>0 DEF RestartKeeps, Load
    <3>1. x # ns /\ torn[x] = "no"
      BY <2>4
    <3>2. Saving(x) = {}
      BY <1>0, <2>3 DEF Saving, Editors, c
    <3>3. Load(flash', x) = Load(flash, x)
      BY <2>4, <3>1, LoadSame
    <3> QED BY <1>0, <3>1, <3>2, <3>3 DEF RestartKeeps
  <2>10. PubTypeOK' /\ Exclusive' /\ OnItsWay'
    <3>1. \A u \in Editors : /\ cmd'[u].pc = "publish" <=> cmd[u].pc = "publish"
                             /\ cmd[u].pc \in Way => cmd'[u].pc \in Way
      BY <1>0, <2>2, <2>3 DEF Way, Editors, c
    <3> QED BY <1>0, <3>1, WayKept
  <2> QED BY <2>5, <2>6, <2>7, <2>8, <2>9, <2>10 DEF Inv
<1> QED BY <1>3, <1>4 DEF Erases

-----------------------------------------------------------------------------
(* Steps of a publication.                                                 *)

\* Publication by the event task, or inside an editor's command, keeps the store.
LEMMA StoreUntouched ==
  ASSUME Inv, UNCHANGED <<flash, cache, cmd, torn, chosen, overtaken>>
  PROVE  StoreOK' /\ Alone' /\ Password' /\ WebIsGated' /\ RestartKeeps'
<1>1. StoreOK'
  BY DEF Inv, StoreOK, CommandOK
<1>2. Alone' /\ Password' /\ WebIsGated'
  BY DEF Inv, Alone, Password, WebIsGated
<1>3. RestartKeeps'
  BY DEF Inv, RestartKeeps, Load, Saving
<1> QED BY <1>1, <1>2, <1>3

LEMMA ListIsRules ==
  ASSUME StoreOK
  PROVE  cache["wan"].ports \in SUBSET PortRules
<1>1. "wan" \in Namespaces /\ cache["wan"] \in SettingsOf("wan")
  BY NamespaceFacts DEF StoreOK
<1> QED BY <1>1, SettingsPointwise, KeyFacts DEF ValuesOf

LEMMA PortsChangedStep ==
  ASSUME Inv, NEW t \in Editors, wan_ports_changed(t)
  PROVE  Inv'
<1>0. /\ PubTypeOK /\ Exclusive /\ OnItsWay /\ StoreOK /\ WebIsGated
      /\ cmd[t].pc = "changed" /\ t \in Publishers /\ call[t].pc = "idle"
      /\ UNCHANGED <<s_rules, s_active, s_publish_mutex, published, flash, cache, torn, chosen, overtaken>>
  BY Names3 DEF Inv, OnItsWay, wan_ports_changed, history
<1>1. /\ s_rules[s_active].up \in BOOLEAN /\ s_rules[s_active].dns_ip \in Hosts \cup {NoHost}
  BY <1>0 DEF PubTypeOK, Rules
<1>2. /\ PubTypeOK' /\ Exclusive'
      /\ call'[t].pc = "get" /\ \A u \in Publishers \ {t} : call'[u] = call[u]
  BY <1>0, <1>1, CallsFacts DEF wan_ports_changed
<1>3. /\ DOMAIN cmd' = Editors /\ cmd'[t] = [cmd[t] EXCEPT !.pc = "publish"]
      /\ \A u \in Editors \ {t} : cmd'[u] = cmd[u]
      /\ DOMAIN cmd[t] = Fields /\ cmd[t].restart \in BOOLEAN /\ cmd[t].alone \in BOOLEAN
  BY <1>0 DEF wan_ports_changed, StoreOK, CommandOK, Fields
<1>4. /\ DOMAIN cmd'[t] = Fields /\ cmd'[t].pc = "publish" /\ cmd'[t].ns = cmd[t].ns
      /\ cmd'[t].restart = cmd[t].restart /\ cmd'[t].alone = cmd[t].alone
  BY <1>3 DEF Fields
<1>5. CommandOK(t)'
  BY <1>3, <1>4 DEF CommandOK, Steps, Fields
<1>6. t = "web" => WebIsGated'
  BY <1>0, <1>4 DEF WebIsGated
<1>7. StoreOK' /\ Alone' /\ Password' /\ WebIsGated' /\ RestartKeeps'
  BY <1>0, <1>3, <1>4, <1>5, <1>6, CacheSame, QuietStore
<1>8. OnItsWay'
  <2>1. \A u \in Editors : call'[u].pc # "idle" <=> cmd'[u].pc = "publish"
    <3> TAKE u \in Editors
    <3>1. CASE u = t
      BY <1>2, <1>4, <3>1
    <3>2. CASE u # t
      <4>1. cmd'[u] = cmd[u] /\ call'[u] = call[u]
        BY <1>2, <1>3, <3>2, Names3
      <4> QED BY <1>0, <4>1 DEF OnItsWay
    <3> QED BY <3>1, <3>2
  <2>2. \A u \in Publishers : call'[u].pc \in {"take", "fill"} => call'[u] = call[u]
    BY <1>2
  <2> QED BY <1>0, <1>4, <2>1, <2>2 DEF OnItsWay
<1> QED BY <1>2, <1>7, <1>8 DEF Inv

LEMMA PublishesStep ==
  ASSUME Inv, NEW t \in Publishers, Publishes(t)
  PROVE  Inv'
<1>0. /\ PubTypeOK /\ Exclusive /\ OnItsWay /\ StoreOK
      /\ UNCHANGED <<flash, cache, cmd, torn, chosen, overtaken>>
  BY DEF Inv, Publishes, history
<1>1. StoreOK' /\ Alone' /\ Password' /\ WebIsGated' /\ RestartKeeps'
  BY <1>0, StoreUntouched
<1>2. CASE GetsList(t, cache["wan"].ports)
  <2>1. /\ PubTypeOK' /\ Exclusive'
        /\ call[t].pc = "get" /\ call'[t].pc = "take" /\ call'[t].what.ports = cache["wan"].ports
        /\ \A u \in Publishers \ {t} : call'[u] = call[u]
    BY <1>0, <1>2, GetsListFacts, ListIsRules
  <2>2. OnItsWay'
    <3>1. \A u \in Editors : call'[u].pc # "idle" <=> call[u].pc # "idle"
      BY <2>1, Names3
    <3>2. \A u \in Publishers : call'[u].pc \in {"take", "fill"} =>
            call'[u].what.ports = cache["wan"].ports \/ call'[u] = call[u]
      BY <2>1
    <3>3. UNCHANGED <<s_rules, s_active, s_publish_mutex>>
      BY <1>2 DEF GetsList
    <3> QED BY <1>0, <3>1, <3>2, <3>3 DEF OnItsWay
  <2> QED BY <1>1, <2>1, <2>2 DEF Inv
<1>3. CASE TakesMutex(t)
  <2>1. /\ PubTypeOK' /\ Exclusive'
        /\ call[t].pc = "take" /\ call'[t].pc = "fill" /\ call'[t].what = call[t].what
        /\ \A u \in Publishers \ {t} : call'[u] = call[u]
        /\ s_active' = s_active /\ s_rules'[s_active] = s_rules[s_active]
        /\ s_publish_mutex' = NULL <=> s_publish_mutex = NULL
    BY <1>0, <1>3, TakesMutexFacts
  <2>2. OnItsWay'
    BY <1>0, <2>1, Names3 DEF OnItsWay
  <2> QED BY <1>1, <2>1, <2>2 DEF Inv
<1> QED BY <1>2, <1>3 DEF Publishes

LEMMA EditorPublishedStep ==
  ASSUME Inv, NEW t \in Editors, EditorPublished(t)
  PROVE  Inv'
<1>0. /\ PubTypeOK /\ Exclusive /\ OnItsWay /\ StoreOK /\ t \in Publishers
      /\ UNCHANGED <<flash, cache, torn, chosen, overtaken>>
  BY Names3 DEF Inv, EditorPublished, history
<1>1. /\ PubTypeOK' /\ Exclusive'
      /\ call[t].pc = "fill" /\ call'[t].pc = "idle"
      /\ \A u \in Publishers \ {t} : call'[u] = call[u]
      /\ s_publish_mutex' = NULL <=> s_publish_mutex = NULL
      /\ s_publish_mutex # NULL => s_rules'[s_active'].ports = call[t].what.ports
  BY <1>0, ActivatesFacts DEF EditorPublished
<1>2. cmd[t].pc = "publish"
  BY <1>0, <1>1 DEF OnItsWay
<1>3. DOMAIN cmd' = Editors /\ cmd'[t] = Idle /\ \A u \in Editors \ {t} : cmd'[u] = cmd[u]
  BY <1>0 DEF EditorPublished, StoreOK
<1>4. CommandOK(t)'
  BY <1>3, IdleFacts DEF CommandOK, Steps, Fields
<1>5. t = "web" => WebIsGated'
  BY <1>3, IdleFacts DEF WebIsGated
<1>6. StoreOK' /\ Alone' /\ Password' /\ WebIsGated' /\ RestartKeeps'
  BY <1>0, <1>2, <1>3, <1>4, <1>5, IdleFacts, CacheSame, QuietStore
<1>7. OnItsWay'
  <2>1. \A u \in Editors : call'[u].pc # "idle" <=> cmd'[u].pc = "publish"
    BY <1>0, <1>1, <1>3, IdleFacts, Names3 DEF OnItsWay
  <2> QED BY <1>0, <1>1, <2>1 DEF OnItsWay
<1> QED BY <1>1, <1>6, <1>7 DEF Inv

LEMMA EventSteps ==
  ASSUME Inv, \/ \E up \in BOOLEAN, dns \in Hosts \cup {NoHost} : UplinkChanges(up, dns)
              \/ EventPublished
  PROVE  Inv'
<1>0. /\ PubTypeOK /\ Exclusive /\ OnItsWay /\ StoreOK /\ "event" \in Publishers /\ "event" \notin Editors
      /\ UNCHANGED <<flash, cache, cmd, torn, chosen, overtaken>>
  BY Names3 DEF Inv, UplinkChanges, EventPublished, history
<1>1. StoreOK' /\ Alone' /\ Password' /\ WebIsGated' /\ RestartKeeps'
  BY <1>0, StoreUntouched
<1>2. ASSUME NEW up \in BOOLEAN, NEW dns \in Hosts \cup {NoHost}, UplinkChanges(up, dns)
      PROVE  Inv'
  <2>1. /\ call["event"].pc = "idle" /\ Calls("event", up, dns)
        /\ UNCHANGED <<s_rules, s_active, s_publish_mutex, published>>
    BY <1>2 DEF UplinkChanges
  <2>2. /\ PubTypeOK' /\ Exclusive'
        /\ call'["event"].pc = "get" /\ \A u \in Publishers \ {"event"} : call'[u] = call[u]
    BY <1>0, <2>1, CallsFacts
  <2>3. OnItsWay'
    BY <1>0, <2>1, <2>2, Names3 DEF OnItsWay
  <2> QED BY <1>1, <2>2, <2>3 DEF Inv
<1>3. CASE EventPublished
  <2>1. /\ PubTypeOK' /\ Exclusive'
        /\ call["event"].pc = "fill" /\ call'["event"].pc = "idle"
        /\ \A u \in Publishers \ {"event"} : call'[u] = call[u]
        /\ s_publish_mutex' = NULL <=> s_publish_mutex = NULL
        /\ s_publish_mutex # NULL => s_rules'[s_active'].ports = call["event"].what.ports
    BY <1>0, <1>3, ActivatesFacts DEF EventPublished
  <2>2. OnItsWay'
    BY <1>0, <2>1, Names3 DEF OnItsWay
  <2> QED BY <1>1, <2>1, <2>2 DEF Inv
<1> QED BY <1>2, <1>3

-----------------------------------------------------------------------------
(* Booting.                                                                *)

\* Rules and mutex after wan_init(), for the state before or after a step.
LEMMA BootedRules ==
  ASSUME NEW enabled \in BOOLEAN, NEW list \in SUBSET PortRules, NEW boot,
         boot = PublishedAtBoot(enabled, list)
  PROVE  /\ boot.rules \in [{0, 1} -> Rules] /\ boot.active \in {0, 1} /\ boot.published \in Rules
         /\ boot.mutex \in {Nobody, NULL}
         /\ boot.mutex # NULL => /\ boot.rules[boot.active] = boot.published
                                 /\ boot.published.ports = list
<1>1. [NoRules EXCEPT !.ports = list] \in Rules /\ [NoRules EXCEPT !.ports = list].ports = list
  BY RulesCleared
<1>2. PICK r \in Rules : r = [NoRules EXCEPT !.ports = list] /\ r.ports = list
  BY <1>1
<1>3. CASE enabled = TRUE
  <2>1. boot = [rules |-> [i \in {0, 1} |-> IF i = 1 THEN r ELSE NoRules], active |-> 1,
                mutex |-> Nobody, published |-> r]
    BY <1>2, <1>3 DEF PublishedAtBoot
  <2>2. boot.active = 1 /\ boot.mutex = Nobody /\ boot.published = r /\ boot.rules[1] = r
    BY <2>1
  <2>3. boot.rules \in [{0, 1} -> Rules]
    BY <1>2, <2>1, NoRulesFacts
  <2> QED BY <1>2, <2>2, <2>3
<1>4. CASE enabled = FALSE
  <2>1. boot = [rules |-> [i \in {0, 1} |-> NoRules], active |-> 0, mutex |-> NULL, published |-> NoRules]
    BY <1>4 DEF PublishedAtBoot
  <2> QED BY <2>1, NoRulesFacts
<1> QED BY <1>3, <1>4

LEMMA LoadedFacts ==
  ASSUME NEW f, DOMAIN f = Namespaces, \A ns \in Namespaces : Stored(ns, f[ns]),
         NEW c, c = LoadedAtBoot(f)
  PROVE  /\ DOMAIN c = Namespaces /\ c["wifi"] = Absent /\ c["auth"] = Absent
         /\ \A ns \in Namespaces : c[ns] \in SettingsOf(ns) \cup {Absent}
         /\ \A ns \in {"syslog", "wan", "clock"} : c[ns] # Absent
         /\ c["wan"].ports \in SUBSET PortRules
         /\ \A ns \in Namespaces : c[ns] # Absent => Load(f, ns) = Load(c, ns)
<1> USE NamespaceFacts
<1>1. /\ DOMAIN c = Namespaces /\ c["wifi"] = Absent /\ c["auth"] = Absent
      /\ \A ns \in {"syslog", "wan", "clock"} : c[ns] = Load(f, ns)
  BY DEF LoadedAtBoot
<1>2. \A ns \in Namespaces : Load(f, ns) \in SettingsOf(ns) /\ Load(f, ns) # Absent
  BY LoadFacts
<1>3. \A ns \in {"syslog", "wan", "clock"} : Load(f, ns) = Load(c, ns)
  BY <1>1, LoadAgain
<1>4. c["wan"].ports \in SUBSET PortRules
  BY <1>1, <1>2, SettingsPointwise, KeyFacts DEF ValuesOf
<1> QED BY <1>1, <1>2, <1>3, <1>4

LEMMA BootsStep ==
  ASSUME Inv, Boots
  PROVE  Inv'
<1> DEFINE enabled == cache'["wan"].enabled = "1"
<1>0. /\ StoreOK /\ Password /\ UNCHANGED <<flash, chosen>>
      /\ cache' = LoadedAtBoot(flash) /\ cmd' = [t \in Editors |-> Idle]
      /\ call' = [t \in Publishers |-> NotCalling]
      /\ torn' = [ns \in Namespaces |-> "no"] /\ overtaken' = FALSE
  BY DEF Inv, Boots
<1>1. /\ DOMAIN cache' = Namespaces /\ cache'["wifi"] = Absent /\ cache'["auth"] = Absent
      /\ \A ns \in Namespaces : cache'[ns] \in SettingsOf(ns) \cup {Absent}
      /\ \A ns \in {"syslog", "wan", "clock"} : cache'[ns] # Absent
      /\ cache'["wan"].ports \in SUBSET PortRules
      /\ \A ns \in Namespaces : cache'[ns] # Absent => Load(flash, ns) = Load(cache', ns)
  BY <1>0, LoadedFacts DEF StoreOK
<1>2. PICK boot : /\ boot = PublishedAtBoot(enabled, cache'["wan"].ports)
                  /\ s_rules' = boot.rules /\ s_active' = boot.active
                  /\ s_publish_mutex' = boot.mutex /\ published' = boot.published
  BY DEF Boots
<1> HIDE DEF enabled
<1>3. /\ boot.rules \in [{0, 1} -> Rules] /\ boot.active \in {0, 1} /\ boot.published \in Rules
      /\ boot.mutex \in {Nobody, NULL}
      /\ boot.mutex # NULL => /\ boot.rules[boot.active] = boot.published
                              /\ boot.published.ports = cache'["wan"].ports
  <2>1. enabled \in BOOLEAN
    BY DEF enabled
  <2> QED BY <1>1, <1>2, <2>1, BootedRules
<1>4. PubTypeOK'
  BY <1>0, <1>2, <1>3, NoRulesFacts DEF PubTypeOK, CallType, Phases
<1>5. Exclusive'
  BY <1>0, <1>2, <1>3, NoRulesFacts, Names3 DEF Exclusive
<1>6. OnItsWay'
  BY <1>0, <1>2, <1>3, NoRulesFacts, IdleFacts, Names3 DEF OnItsWay
<1>7. StoreOK'
  <2>1. \A t \in Editors : CommandOK(t)'
    BY <1>0, IdleFacts DEF CommandOK, Steps, Fields
  <2> QED BY <1>0, <1>1, <2>1 DEF StoreOK
<1>8. Alone' /\ WebIsGated' /\ Password'
  BY <1>0, <1>1, IdleFacts DEF Alone, WebIsGated, Password, Editors
<1>9. RestartKeeps'
  BY <1>0, <1>1 DEF RestartKeeps, Load
<1> QED BY <1>4, <1>5, <1>6, <1>7, <1>8, <1>9 DEF Inv

LEMMA InitInv == Init => Inv
<1> SUFFICES ASSUME Init PROVE Inv
  OBVIOUS
<1> DEFINE enabled == cache["wan"].enabled = "1"
<1>0. /\ DOMAIN flash = Namespaces /\ \A ns \in Namespaces : Stored(ns, flash[ns])
      /\ cache = LoadedAtBoot(flash) /\ cmd = [t \in Editors |-> Idle]
      /\ call = [t \in Publishers |-> NotCalling]
      /\ torn = [ns \in Namespaces |-> "no"] /\ overtaken = FALSE
      /\ chosen = (Load(flash, "auth").password # Default.auth.password)
  BY SettingsAssumption DEF Init, PubInit
<1>1. /\ DOMAIN cache = Namespaces /\ cache["wifi"] = Absent /\ cache["auth"] = Absent
      /\ \A ns \in Namespaces : cache[ns] \in SettingsOf(ns) \cup {Absent}
      /\ \A ns \in {"syslog", "wan", "clock"} : cache[ns] # Absent
      /\ cache["wan"].ports \in SUBSET PortRules
      /\ \A ns \in Namespaces : cache[ns] # Absent => Load(flash, ns) = Load(cache, ns)
  BY <1>0, LoadedFacts
<1>2. PICK boot : /\ boot = PublishedAtBoot(enabled, cache["wan"].ports)
                  /\ s_rules = boot.rules /\ s_active = boot.active
                  /\ s_publish_mutex = boot.mutex /\ published = boot.published
  BY DEF Init, PubInit
<1> HIDE DEF enabled
<1>3. /\ boot.rules \in [{0, 1} -> Rules] /\ boot.active \in {0, 1} /\ boot.published \in Rules
      /\ boot.mutex \in {Nobody, NULL}
      /\ boot.mutex # NULL => /\ boot.rules[boot.active] = boot.published
                              /\ boot.published.ports = cache["wan"].ports
  <2>1. enabled \in BOOLEAN
    BY DEF enabled
  <2> QED BY <1>1, <1>2, <2>1, BootedRules
<1>4. PubTypeOK
  BY <1>0, <1>2, <1>3, NoRulesFacts DEF PubTypeOK, CallType, Phases
<1>5. Exclusive
  BY <1>0, <1>2, <1>3, NoRulesFacts, Names3 DEF Exclusive
<1>6. OnItsWay
  BY <1>0, <1>2, <1>3, NoRulesFacts, IdleFacts, Names3 DEF OnItsWay
<1>7. StoreOK
  <2>1. \A t \in Editors : CommandOK(t)
    BY <1>0, IdleFacts DEF CommandOK, Steps, Fields
  <2>2. chosen \in BOOLEAN /\ overtaken \in BOOLEAN
    BY <1>0
  <2> QED BY <1>0, <1>1, <2>1, <2>2 DEF StoreOK
<1>8. Alone /\ WebIsGated
  BY <1>0, <1>1, IdleFacts DEF Alone, WebIsGated, Editors
<1>9. Password
  BY <1>0, <1>1, LoadedPassword DEF Password
<1>10. RestartKeeps
  BY <1>0, <1>1 DEF RestartKeeps
<1> QED BY <1>4, <1>5, <1>6, <1>7, <1>8, <1>9, <1>10 DEF Inv

LEMMA NextInv ==
  ASSUME Inv, [Next]_vars
  PROVE  Inv'
<1>1. ASSUME NEW t \in Editors, EditorStep(t) PROVE Inv'
  <2>1. t \in Publishers
    BY Names3
  <2> QED BY <1>1, <2>1, SetsKeyStep, SaveFailsStep, SavesStep, PortsChangedStep, PublishesStep,
             EditorPublishedStep, ErasesStep, ErasedAllStep, BootsStep DEF EditorStep, Restarts
<1>2. CASE UNCHANGED vars
  <2>1. StoreOK' /\ Alone' /\ Password' /\ WebIsGated' /\ RestartKeeps'
    BY <1>2, StoreUntouched DEF vars
  <2>2. PubTypeOK' /\ Exclusive' /\ OnItsWay'
    BY <1>2, WayKept DEF vars, pubVars
  <2> QED BY <2>1, <2>2 DEF Inv
<1>3. ASSUME NEW ns \in Namespaces, WebAdmits(ns) PROVE Inv'
  BY <1>3, WebAdmitsStep
<1>4. CASE WebRefuses \/ BodyLost
  BY <1>4, WebRefusesStep, BodyLostStep
<1>5. CASE cmd_reboot \/ cmd_factory_reset
  BY <1>5, ConsoleBeginsStep
<1>6. CASE PowerCut
  BY <1>6, BootsStep DEF PowerCut
<1>7. CASE Publishes("event")
  BY <1>7, PublishesStep, Names3
<1> QED BY <1>1, <1>2, <1>3, <1>4, <1>5, <1>6, <1>7, EditSteps, EventSteps DEF Next

LEMMA AlwaysInv == Spec => []Inv
<1>1. Inv /\ [Next]_vars => Inv'
  BY NextInv
<1> QED BY <1>1, InitInv, PTL DEF Spec

-----------------------------------------------------------------------------
\* Whatever two tasks publish at the same time, the rules in force are the whole of
\* what one of them was asked to publish.
THEOREM RulesWhole == Spec => []PublishedWhole
<1>1. Inv => PublishedWhole
  BY DEF Inv, Exclusive, PublishedWhole
<1> QED BY <1>1, AlwaysInv, PTL

\* What the filter decides, for every rule set.
LEMMA FilterAnswers ==
  ASSUME NEW r \in Rules
  PROVE  /\ \A f \in Requests(r) : Leaves(f, r) => Enters(Answer(f), r)
         /\ \A host \in Hosts :
              r.up /\ Enters(Answer(Question("high", host)), r) => Leaves(Question("high", host), r)
         /\ \A f \in Visits : ~Enters(f, r)
<1> USE DEF Leaves, Enters, egress_allowed, ingress_allowed, PlainIp, l4_ports, Frame, Protos
<1>1. ASSUME NEW proto \in Protos, NEW dport \in Ports, NEW host \in Hosts
      PROVE  Enters(Answer(Translated(proto, dport, host)), r)
  BY <1>1 DEF Translated, Answer
<1>2. ASSUME NEW sport \in {"nat", "high"}, NEW host \in Hosts \cap {r.dns_ip}
      PROVE  Enters(Answer(Question(sport, host)), r)
  BY <1>2, FilterAssumption DEF Answer, Question
<1>3. ASSUME NEW host \in Hosts
      PROVE  /\ Enters(Answer(Frame("ports", "ip", TRUE, "udp", "none", "68", "67", host)), r)
             /\ Enters(Answer(Frame("ports", "ip", TRUE, "icmp", "echo", "none", "none", host)), r)
  BY <1>3 DEF Answer
<1>4. ASSUME NEW host \in Hosts, r.up, Enters(Answer(Question("high", host)), r)
      PROVE  Leaves(Question("high", host), r)
  BY <1>4 DEF Answer, Question
<1>5. ASSUME NEW f \in Visits PROVE ~Enters(f, r)
  BY <1>5 DEF Visits
<1> HIDE DEF Leaves, Enters, egress_allowed, ingress_allowed, PlainIp, l4_ports, Frame, Protos
<1> DEFINE A == {Translated(proto, dport, host) : proto \in Protos, dport \in Ports, host \in Hosts}
           B == {Question(sport, host) : sport \in {"nat", "high"}, host \in Hosts \cap {r.dns_ip}}
           C == {Frame("ports", "ip", TRUE, "udp", "none", "68", "67", host) : host \in Hosts}
           D == {Frame("ports", "ip", TRUE, "icmp", "echo", "none", "none", host) : host \in Hosts}
<1>6. \A f \in A : Enters(Answer(f), r)
  BY <1>1
<1>7. \A f \in B : Enters(Answer(f), r)
  BY <1>2
<1>8. \A f \in C \cup D : Enters(Answer(f), r)
  BY <1>3
<1>9. Requests(r) = A \cup B \cup C \cup D
  BY DEF Requests
<1> HIDE DEF A, B, C, D
<1>10. \A f \in Requests(r) : Enters(Answer(f), r)
  BY <1>6, <1>7, <1>8, <1>9
<1> QED BY <1>4, <1>5, <1>10

\* For every port list and resolver that can be in force, no answer is shut out and
\* no visit let in.
THEOREM AnswersOnly == Spec => []OnlyAnswersGetIn
<1>1. Inv => OnlyAnswersGetIn
  <2> SUFFICES ASSUME Inv PROVE OnlyAnswersGetIn
    OBVIOUS
  <2>1. s_rules[s_active] \in Rules
    BY DEF Inv, PubTypeOK
  <2> QED BY <2>1, FilterAnswers DEF OnlyAnswersGetIn
<1> QED BY <1>1, AlwaysInv, PTL

\* No web request is served under the default password, whatever the console saves
\* between its admission and its end.
THEOREM Gated == Spec => []WebIsGated
BY AlwaysInv, PTL DEF Inv

\* A chosen password outlives failed, interrupted and overlapping saves and every
\* restart; only a factory reset ends it.
THEOREM ChosenStays == Spec => []DefaultStaysOut
<1>1. Inv => DefaultStaysOut
  <2> SUFFICES ASSUME Inv, chosen
               PROVE  \A c \in {Load(flash, "auth")} \cup ({cache.auth} \ {Absent}) :
                        c.password # Default.auth.password
    BY DEF DefaultStaysOut
  <2>1. chosen = TRUE
    BY DEF Inv, StoreOK
  <2>2. Load(flash, "auth").password # Default.auth.password
    BY <2>1, LoadedPassword DEF Inv, Password
  <2>3. cache["auth"] # Absent => cache["auth"].password # Default.auth.password
    BY <2>1 DEF Inv, Password
  <2> QED BY <2>2, <2>3
<1> QED BY <1>1, AlwaysInv, PTL

\* A restart brings back the settings in force, unless saves overlapped, failed or
\* were followed by a reset, whatever the keys' values.
THEOREM Restored == Spec => []RestartKeeps
BY AlwaysInv, PTL DEF Inv

\* A saved port list is in force when those who saved have returned, unless an older
\* one was being published at the time.
THEOREM SavedInForce == Spec => []ListInForce
<1>1. Inv => ListInForce
  <2> SUFFICES ASSUME Inv, s_publish_mutex # NULL, Returned, ~overtaken
               PROVE  s_rules[s_active].ports = cache.wan.ports
    BY DEF ListInForce
  <2>1. overtaken = FALSE
    BY DEF Inv, StoreOK
  <2> QED BY <2>1 DEF Inv, OnItsWay, Returned
<1> QED BY <1>1, AlwaysInv, PTL
=============================================================================
