----------------------------- MODULE WanPublish -----------------------------
(***************************************************************************)
(* Publication of the packet filter's rules (src/main/wan.c):              *)
(* publish_rules(), as the tasks that call it interleave.  The event task  *)
(* calls it on every change of the uplink, the web server and the console  *)
(* when a port list was saved.  What a task does with the mutex held, up   *)
(* to the point where another task could see it, is one step.              *)
(***************************************************************************)
EXTENDS WanFilter

CONSTANT Publishers         \* tasks that publish

VARIABLES
  s_rules, s_active,
  s_publish_mutex,          \* who has it, Nobody, or NULL before wan_init() made it
  call,                     \* where each task is in publish_rules()
  published                 \* what the last publisher was asked to publish

pubVars == <<s_rules, s_active, s_publish_mutex, call, published>>

Nobody == "nobody"
NULL == "null"
NotCalling == [pc |-> "idle", next |-> 0, what |-> NoRules]

\* wan_init(): with an uplink configured, the mutex and a first publication.
PublishedAtBoot(enabled, list) ==
  [rules |-> [i \in {0, 1} |-> IF enabled /\ i = 1 THEN [NoRules EXCEPT !.ports = list] ELSE NoRules],
   active |-> IF enabled THEN 1 ELSE 0,
   mutex |-> IF enabled THEN Nobody ELSE NULL,
   published |-> IF enabled THEN [NoRules EXCEPT !.ports = list] ELSE NoRules]

PubInit(enabled, list) ==
  LET boot == PublishedAtBoot(enabled, list)
  IN  /\ s_rules = boot.rules /\ s_active = boot.active
      /\ s_publish_mutex = boot.mutex /\ published = boot.published
      /\ call = [t \in Publishers |-> NotCalling]
-----------------------------------------------------------------------------
(* publish_rules(up, dns_ip), by task t.                                   *)

Calls(t, up, dns) ==
  call' = [call EXCEPT ![t] = [pc |-> "get", next |-> 0,
                               what |-> [ports |-> {}, up |-> up, dns_ip |-> dns]]]

\* wan_cfg_get(), before the mutex is taken: list is what it returns.
GetsList(t, list) ==
  /\ call[t].pc = "get"
  /\ call' = [call EXCEPT ![t].pc = "take", ![t].what.ports = list]
  /\ UNCHANGED <<s_rules, s_active, s_publish_mutex, published>>

\* Mutant: the mutex keeps nobody out.
MutexFree_always == TRUE
MutexFree == s_publish_mutex \in {Nobody, NULL}

\* With the mutex: the buffer that is not live is cleared and the list copied.
TakesMutex(t) ==
  /\ call[t].pc = "take" /\ MutexFree
  /\ s_publish_mutex' = IF s_publish_mutex = NULL THEN NULL ELSE t
  /\ call' = [call EXCEPT ![t].pc = "fill", ![t].next = 1 - s_active]
  /\ s_rules' = [s_rules EXCEPT ![1 - s_active] = [NoRules EXCEPT !.ports = call[t].what.ports]]
  /\ UNCHANGED <<s_active, published>>

\* The rest is filled in, the pointer stored and the mutex given back.
Activates(t) ==
  /\ call[t].pc = "fill"
  /\ s_rules' = [s_rules EXCEPT ![call[t].next].up = call[t].what.up,
                                ![call[t].next].dns_ip = call[t].what.dns_ip]
  /\ s_active' = call[t].next
  /\ s_publish_mutex' = IF s_publish_mutex = NULL THEN NULL ELSE Nobody
  /\ published' = call[t].what
  /\ call' = [call EXCEPT ![t] = NotCalling]
-----------------------------------------------------------------------------
PubTypeOK ==
  /\ s_rules \in [{0, 1} -> Rules] /\ s_active \in {0, 1} /\ published \in Rules
  /\ s_publish_mutex \in Publishers \cup {Nobody, NULL}
  /\ call \in [Publishers -> [pc: {"idle", "get", "take", "fill"}, next: {0, 1}, what: Rules]]

\* With an uplink, the rules in force are what one publisher was asked to
\* publish, whoever else was publishing ("the survivor is a rule set neither
\* of them wrote" is what the mutex is there to prevent).
PublishedWhole == s_publish_mutex # NULL => s_rules[s_active] = published

\* Whatever the port list, the resolver and the state of the link: the answer to
\* a request that the filter lets out is let in; outside the ports of translation
\* only a host that could be asked gets an answer in ("this admits exactly the
\* answers to the questions egress_allowed() lets out"); and no visit to the web
\* server, which listens on every interface, gets in with the answers.
OnlyAnswersGetIn ==
  LET r == s_rules[s_active]
  IN  /\ \A f \in Requests(r) : Leaves(f, r) => Enters(Answer(f), r)
      /\ \A host \in Hosts :
           r.up /\ Enters(Answer(Question("high", host)), r) => Leaves(Question("high", host), r)
      /\ \A f \in Visits : ~Enters(f, r)
=============================================================================
