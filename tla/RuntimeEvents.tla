---------------------------- MODULE RuntimeEvents ----------------------------
(***************************************************************************)
(* Phase 1: from a raw log to a context package, and active defence,       *)
(* services/runtime-defense/src, in its replicas.                          *)
(*                                                                         *)
(* A request is normalised, classified, answered by the defence manager    *)
(* and stored without a real suspension: the defence functions are async   *)
(* in name only and call Kubernetes synchronously.  One action therefore   *)
(* stands for a request up to the delivery of its context, which           *)
(* RedisPublisher models.                                                  *)
(*                                                                         *)
(* Each replica counts and remembers for itself; the Kubernetes objects    *)
(* are shared and survive a restart.  The client library of a process has  *)
(* no address of the API server until a request to /diagnostics has loaded *)
(* the in-cluster configuration; before that every call fails, and the     *)
(* defence functions swallow the exception.                                *)
(***************************************************************************)
EXTENDS Integers, Sequences, FiniteSets, FiniteSetsExt, TLC

CONSTANTS
  Replicas,          \* pods of the controller
  Logs,              \* raw logs of ModSecurity, Falco and others
  ManualEvents,      \* bodies of /api/v1/events/manual
  Ips, NoIp,         \* source addresses; None
  Endpoints,         \* targets: [method, path]
  RouteMap,          \* the endpoints the route map locates in the source
  NameOf,            \* name of the VirtualService of an endpoint: from its path
  ValidNames,        \* addresses and VirtualService names Kubernetes accepts
  IpBlockThreshold, EndpointDisableThreshold,
  ApplyEnabled,      \* DEFENSE_APPLY_ENABLED
  AuthEnforced,      \* WEBHOOK_AUTH_TOKEN is set
  ApiMayFail,        \* the API server may refuse a call
  MaxRequests,       \* bound: requests to the ingestion endpoints
  MaxRestarts        \* bound: restarts of a replica

Names == {NameOf[e] : e \in Endpoints}
NoEndpoint == [method |-> "none", path |-> "none"]
Targets == Ips \cup Endpoints
Actions == {"rate_limit", "ip_blocked", "endpoint_disabled"}

ASSUME EventsAssumption ==
  /\ IsFiniteSet(Replicas) /\ IsFiniteSet(Ips)
  /\ NoIp \notin Ips /\ NoEndpoint \notin Endpoints
  /\ NameOf \in [Endpoints -> Names]
  /\ \A log \in Logs : log.shape \in {"modsecurity", "falco"} =>
       log.ip \in Ips \cup {NoIp} /\ log.endpoint \in Endpoints
  /\ \A log \in Logs : log.shape = "modsecurity" =>
       log.messages \in Seq([rule : Int, severity : STRING])
  /\ \A body \in ManualEvents : body.ip \in Ips \cup {NoIp} /\ body.endpoint \in Endpoints
  /\ IpBlockThreshold \in Nat \ {0} /\ EndpointDisableThreshold \in Nat \ {0}
  /\ ApplyEnabled \in BOOLEAN /\ AuthEnforced \in BOOLEAN /\ ApiMayFail \in BOOLEAN
  /\ MaxRequests \in Nat /\ MaxRestarts \in Nat

VARIABLES
  ipCount, endpointCount,            \* attack counts of each DefenseManager
  blockedIps, disabledEndpoints,     \* what each remembers as done
  recorded,                          \* action_history, counted by action and target
  filters, denied, aborts,           \* EnvoyFilters, AuthorizationPolicies and
                                     \* VirtualServices in the cluster
  configured,                        \* the client library knows the API server
  answer,                            \* response to the last request
  context,                           \* newest entry of contexts_store
  failedLogs,                        \* length of failed_logs
  requests, restarts,
  severeIps, criticalEndpoints,      \* history: severe events since the start
  online                             \* history: every call since the start got through

manager == <<ipCount, endpointCount, blockedIps, disabledEndpoints, recorded>>
cluster == <<filters, denied, aborts>>
history == <<severeIps, criticalEndpoints, online>>
vars == <<manager, cluster, configured, answer, context, failedLogs,
          requests, restarts, history>>

-----------------------------------------------------------------------------
(* Adapters: adapters/modsecurity.py, adapters/falco.py, normalizer.py.     *)
(* The names of categories are written with _ for their blanks.             *)

\* Stands for a ruleId that int() does not take.
TextRule == -1

\* MODSEC_RULE_CATEGORY_MAP: the ranges of Python exclude their end.
RuleRanges ==
  {<<942100, 943000, "SQL_Injection">>,       <<941100, 942000, "Cross-Site_Scripting">>,
   <<930100, 931000, "Path_Traversal">>,      <<932100, 933000, "Command_Injection">>,
   <<934100, 934130, "Server-Side_Request_Forgery">>,
   <<934130, 935000, "Insecure_Deserialization">>}

\* Mutant: the ranges include their end.
RulesInclusive(r) == {x \in RuleRanges : x[1] <= r /\ r <= x[2]}

RangesOf(r) == {x \in RuleRanges : x[1] <= r /\ r < x[2]}

\* Positions _extract_category stops at: a known rule, or a text it cannot
\* convert.
Decisive(messages) ==
  {j \in DOMAIN messages : messages[j].rule = TextRule \/ RangesOf(messages[j].rule) # {}}

FirstOf(S) == CHOOSE j \in S : \A k \in S : j <= k

RuleCategory(messages) ==
  IF Decisive(messages) = {} THEN "Unknown_Web_Attack"
  ELSE LET rule == messages[FirstOf(Decisive(messages))].rule
       IN  IF rule = TextRule THEN "ValueError"
           ELSE (CHOOSE x \in RangesOf(rule) : TRUE)[3]

WebSeverity(messages) ==
  LET found == {messages[j].severity : j \in DOMAIN messages}
  IN  IF "CRITICAL" \in found THEN "CRITICAL"
      ELSE IF found \cap {"WARNING", "ERROR"} # {} THEN "HIGH" ELSE "MEDIUM"

TagCategories ==
  ("shell" :> "Shell_Execution") @@ ("network" :> "Suspicious_Network") @@
  ("filesystem" :> "File_Tampering") @@ ("privilege-escalation" :> "Privilege_Escalation") @@
  ("command-injection" :> "Command_Injection") @@ ("ssrf" :> "Server-Side_Request_Forgery") @@
  ("insecure-deserialization" :> "Insecure_Deserialization")

TagCategory(tags) ==
  LET known == {j \in DOMAIN tags : tags[j] \in DOMAIN TagCategories}
  IN  IF known = {} THEN "Unknown" ELSE TagCategories[tags[FirstOf(known)]]

PrioritySeverity ==
  ("Critical" :> "CRITICAL") @@ ("Error" :> "HIGH") @@ ("Warning" :> "MEDIUM")

FalcoSeverity(priority) ==
  IF priority \in DOMAIN PrioritySeverity THEN PrioritySeverity[priority] ELSE "LOW"

\* ModSecurityAdapter.parse.
ParseModsec(log) ==
  [source |-> "modsecurity", category |-> RuleCategory(log.messages),
   endpoint |-> log.endpoint, ip |-> log.ip, blocked |-> TRUE,
   severity |-> WebSeverity(log.messages), patch |-> "unset", reported |-> {}]

\* FalcoAdapter.parse: the endpoint is the system call layer of a pod.
ParseFalco(log) ==
  [source |-> "falco", category |-> TagCategory(log.tags),
   endpoint |-> log.endpoint, ip |-> log.ip, blocked |-> FALSE,
   severity |-> FalcoSeverity(log.priority), patch |-> "unset", reported |-> {}]

\* EventNormalizer.normalize: the first adapter that can handle the log,
\* whichever endpoint received it.
Normalize(log) ==
  IF log.shape = "modsecurity" THEN ParseModsec(log) ELSE ParseFalco(log)

\* What normalising ends in: a ValueError where no adapter takes the log, a
\* rule id is no number or pydantic refuses the timestamp; another exception
\* where a severity is null.
Verdict(log) ==
  IF log.shape \notin {"modsecurity", "falco"} THEN "ValueError"
  ELSE IF log.shape = "modsecurity" /\ RuleCategory(log.messages) = "ValueError" THEN "ValueError"
  ELSE IF /\ log.shape = "modsecurity"
          /\ \E j \in DOMAIN log.messages : log.messages[j].severity = "null" THEN "AttributeError"
  ELSE IF log.time = "invalid" THEN "ValueError" ELSE "parsed"

-----------------------------------------------------------------------------
(* Classification: cwe_mapping.py, source_mapper.py, context_builder.py *)

\* Category and CWE.
CweMap ==
  {<<"SQL_Injection", "CWE-89">>,         <<"Cross-Site_Scripting", "CWE-79">>,
   <<"Reflected_XSS", "CWE-79">>,         <<"Path_Traversal", "CWE-22">>,
   <<"Shell_Execution", "CWE-78">>,       <<"Privilege_Escalation", "CWE-269">>,
   <<"File_Tampering", "CWE-284">>,       <<"Suspicious_Network", "CWE-918">>,
   <<"Command_Injection", "CWE-78">>,     <<"Server-Side_Request_Forgery", "CWE-918">>,
   <<"Insecure_Deserialization", "CWE-502">>}

MapToCwe(category) ==
  LET entries == {x \in CweMap : x[1] = category}
  IN  IF entries = {} THEN "UNKNOWN" ELSE (CHOOSE x \in entries : TRUE)[2]

RequiresPatch(e) ==
  IF e.patch = "unset" THEN MapToCwe(e.category) # "UNKNOWN" ELSE e.patch = "yes"

BuildContext(e, actions) ==
  [source |-> e.source, category |-> e.category, cwe |-> MapToCwe(e.category),
   blocked |-> e.blocked, severity |-> e.severity, requires_patch |-> RequiresPatch(e),
   ip |-> e.ip, endpoint |-> e.endpoint, located |-> e.endpoint \in RouteMap,
   defense_action |-> actions]

-----------------------------------------------------------------------------
(* Active defence: defense/manager.py and the functions it calls *)

\* Mutant: an attack counts twice.
BumpTwice(count, t) == [x \in DOMAIN count |-> IF x = t THEN count[x] + 2 ELSE count[x]]

\* One more attack, where there is a target to count it for.
Bump(count, t) == [x \in DOMAIN count |-> IF x = t THEN count[x] + 1 ELSE count[x]]

\* Mutant: only more attacks than the threshold are answered.
BlockDueLate(r, e, n) ==
  /\ e.ip # NoIp /\ e.ip \notin blockedIps[r]
  /\ n > IpBlockThreshold \/ e.severity \in {"HIGH", "CRITICAL"}

\* Level 2 is due, with n attacks of the address so far.
BlockDue(r, e, n) ==
  /\ e.ip # NoIp /\ e.ip \notin blockedIps[r]
  /\ n >= IpBlockThreshold \/ e.severity \in {"HIGH", "CRITICAL"}

\* Level 3 is due, with n attacks on the endpoint so far.
DisableDue(r, e, n) ==
  /\ e.endpoint \notin disabledEndpoints[r]
  /\ n >= EndpointDisableThreshold \/ e.severity = "CRITICAL"

\* The actions of handle_defense.
ActionsFor(r, e) ==
  {a \in Actions :
     CASE a = "rate_limit" -> e.ip # NoIp
       [] a = "ip_blocked" -> BlockDue(r, e, Bump(ipCount[r], e.ip)[e.ip])
       [] a = "endpoint_disabled" ->
            DisableDue(r, e, Bump(endpointCount[r], e.endpoint)[e.endpoint])}

\* The calls that reach an API server: DEFENSE_APPLY_ENABLED, a configured
\* client and no failure.  The exceptions of the others are swallowed.
Reaching(r, actions, lost) ==
  IF ApplyEnabled /\ configured[r] THEN actions \ lost ELSE {}

\* apply_rate_limit; creating what exists is a conflict, and swallowed.
ApplyRateLimit(calls, e) ==
  filters' = IF "rate_limit" \in calls /\ e.ip \in ValidNames
             THEN filters \cup {e.ip} ELSE filters

\* Mutant: an address that is limited is not denied.
BlockIpUnlessLimited(calls, e) ==
  denied' = IF calls \cap {"ip_blocked", "rate_limit"} = {"ip_blocked"} /\ e.ip \in ValidNames
            THEN denied \cup {e.ip} ELSE denied

\* block_ip.
BlockIp(calls, e) ==
  denied' = IF "ip_blocked" \in calls /\ e.ip \in ValidNames
            THEN denied \cup {e.ip} ELSE denied

\* disable_endpoint: the name has the path in it and not the method, so that
\* the second method of a path is a conflict.
DisableEndpoint(calls, e) ==
  LET name == NameOf[e.endpoint]
  IN  aborts' = IF /\ "endpoint_disabled" \in calls /\ name \in ValidNames
                   /\ aborts[name] = NoEndpoint
                THEN [aborts EXCEPT ![name] = e.endpoint] ELSE aborts

TargetOf(a, e) == IF a = "endpoint_disabled" THEN e.endpoint ELSE e.ip

\* _record of each action taken.
Record(r, actions, e) ==
  recorded' = [recorded EXCEPT ![r] =
    [a \in Actions |-> IF a \in actions THEN Bump(@[a], TargetOf(a, e)) ELSE @[a]]]

\* DefenseManager.handle_defense: target is remembered whether or not the
\* call got through.
HandleDefense(r, e, actions, lost) ==
  LET calls == Reaching(r, actions, lost)
  IN  /\ ipCount' = [ipCount EXCEPT ![r] = Bump(@, e.ip)]
      /\ endpointCount' = [endpointCount EXCEPT ![r] = Bump(@, e.endpoint)]
      /\ ApplyRateLimit(calls, e)
      /\ BlockIp(calls, e)
      /\ DisableEndpoint(calls, e)
      /\ blockedIps' = [blockedIps EXCEPT ![r] =
           IF "ip_blocked" \in actions THEN @ \cup {e.ip} ELSE @]
      /\ disabledEndpoints' = [disabledEndpoints EXCEPT ![r] =
           IF "endpoint_disabled" \in actions THEN @ \cup {e.endpoint} ELSE @]
      /\ Record(r, actions, e)
      /\ online' = [online EXCEPT ![r] = @ /\ calls = actions]
      /\ severeIps' = [severeIps EXCEPT ![r] =
           IF e.severity \in {"HIGH", "CRITICAL"} THEN @ \cup ({e.ip} \cap Ips) ELSE @]
      /\ criticalEndpoints' = [criticalEndpoints EXCEPT ![r] =
           IF e.severity = "CRITICAL" THEN @ \cup {e.endpoint} ELSE @]

-----------------------------------------------------------------------------
(* The service: main.py, auth.py *)

NoContext == [source |-> "none"]

Init ==
  /\ ipCount = [r \in Replicas |-> [i \in Ips |-> 0]]
  /\ endpointCount = [r \in Replicas |-> [e \in Endpoints |-> 0]]
  /\ blockedIps = [r \in Replicas |-> {}]
  /\ disabledEndpoints = [r \in Replicas |-> {}]
  /\ recorded = [r \in Replicas |-> [a \in Actions |-> [t \in Targets |-> 0]]]
  /\ filters = {} /\ denied = {} /\ aborts = [n \in Names |-> NoEndpoint]
  /\ configured = [r \in Replicas |-> FALSE]
  /\ answer = "none" /\ context = NoContext
  /\ failedLogs = [r \in Replicas |-> 0]
  /\ requests = 0 /\ restarts = 0
  /\ severeIps = [r \in Replicas |-> {}]
  /\ criticalEndpoints = [r \in Replicas |-> {}]
  /\ online = [r \in Replicas |-> TRUE]

\* verify_webhook_token, by what the Authorization header has.
Headers == {"missing", "other scheme", "wrong token", "token"}

Refusal(header) ==
  IF ~AuthEnforced \/ header = "token" THEN "none"
  ELSE IF header = "wrong token" THEN "403" ELSE "401"

\* run_pipeline, up to the publication of the context.
RunPipeline(r, e) ==
  LET actions == ActionsFor(r, e)
  IN  /\ \E lost \in IF ApiMayFail THEN SUBSET actions ELSE {{}} :
           HandleDefense(r, e, actions, lost)
      /\ context' = BuildContext(e, e.reported \cup (IF actions = {} THEN {"none"} ELSE actions))
      /\ answer' = "200"
      /\ UNCHANGED failedLogs

\* receive_modsec_event and receive_falco_event: only a ValueError is answered
\* and kept, another exception is left to the framework.
ReceiveLog(r, log) ==
  LET verdict == Verdict(log)
  IN  IF verdict = "parsed" THEN RunPipeline(r, Normalize(log))
      ELSE /\ answer' = IF verdict = "ValueError" THEN "400" ELSE "500"
           /\ failedLogs' = IF verdict = "ValueError"
                            THEN [failedLogs EXCEPT ![r] = @ + 1] ELSE failedLogs
           /\ UNCHANGED <<manager, cluster, context, history>>

\* The event of a manual request: its source is fixed.
ManualEventOf(body) ==
  [source |-> "manual", category |-> body.category, endpoint |-> body.endpoint,
   ip |-> body.ip, blocked |-> body.blocked, severity |-> body.severity,
   patch |-> body.patch, reported |-> body.reported]

\* receive_manual_event.
ReceiveManual(r, body) == RunPipeline(r, ManualEventOf(body))

\* A request that reaches one of the replicas, with its header.
Request(r, header, Handler) ==
  /\ requests < MaxRequests
  /\ requests' = requests + 1
  /\ IF Refusal(header) = "none" THEN Handler
     ELSE /\ answer' = Refusal(header)
          /\ UNCHANGED <<manager, cluster, context, failedLogs, history>>
  /\ UNCHANGED <<configured, restarts>>

LogRequest(r) ==
  \E header \in Headers, log \in Logs : Request(r, header, ReceiveLog(r, log))

ManualRequest(r) ==
  \E header \in Headers, body \in ManualEvents : Request(r, header, ReceiveManual(r, body))

\* diagnostics: reading the autoscaler loads the in-cluster configuration into
\* the client library, for the defence functions too.
Diagnostics(r) ==
  /\ ~configured[r]
  /\ configured' = [configured EXCEPT ![r] = TRUE]
  /\ UNCHANGED <<manager, cluster, answer, context, failedLogs, requests, restarts, history>>

\* A pod is replaced: its memory is lost, the cluster keeps its objects.
Restart(r) ==
  /\ restarts < MaxRestarts
  /\ restarts' = restarts + 1
  /\ ipCount' = [ipCount EXCEPT ![r] = [i \in Ips |-> 0]]
  /\ endpointCount' = [endpointCount EXCEPT ![r] = [e \in Endpoints |-> 0]]
  /\ blockedIps' = [blockedIps EXCEPT ![r] = {}]
  /\ disabledEndpoints' = [disabledEndpoints EXCEPT ![r] = {}]
  /\ recorded' = [recorded EXCEPT ![r] = [a \in Actions |-> [t \in Targets |-> 0]]]
  /\ configured' = [configured EXCEPT ![r] = FALSE]
  /\ failedLogs' = [failedLogs EXCEPT ![r] = 0]
  /\ severeIps' = [severeIps EXCEPT ![r] = {}]
  /\ criticalEndpoints' = [criticalEndpoints EXCEPT ![r] = {}]
  /\ online' = [online EXCEPT ![r] = TRUE]
  /\ UNCHANGED <<cluster, answer, context, requests>>

Next ==
  \E r \in Replicas : LogRequest(r) \/ ManualRequest(r) \/ Diagnostics(r) \/ Restart(r)

Spec == Init /\ [][Next]_vars

-----------------------------------------------------------------------------
(* Properties *)

\* Types; no target was counted or acted on more often than there were
\* requests, and an abort has the name of the endpoint it is for (manager.py,
\* endpoint_disabler.py).
TypeOK ==
  /\ ipCount \in [Replicas -> [Ips -> 0..requests]]
  /\ endpointCount \in [Replicas -> [Endpoints -> 0..requests]]
  /\ blockedIps \in [Replicas -> SUBSET Ips]
  /\ disabledEndpoints \in [Replicas -> SUBSET Endpoints]
  /\ recorded \in [Replicas -> [Actions -> [Targets -> 0..requests]]]
  /\ filters \subseteq Ips \cap ValidNames /\ denied \subseteq Ips \cap ValidNames
  /\ DOMAIN aborts = Names
  /\ \A n \in Names : aborts[n] # NoEndpoint => aborts[n] \in Endpoints /\ NameOf[aborts[n]] = n
  /\ configured \in [Replicas -> BOOLEAN] /\ online \in [Replicas -> BOOLEAN]
  /\ answer \in {"none", "200", "400", "401", "403", "500"}
  /\ failedLogs \in [Replicas -> 0..requests]
  /\ requests \in 0..MaxRequests /\ restarts \in 0..MaxRestarts
  /\ severeIps \in [Replicas -> SUBSET Ips]
  /\ criticalEndpoints \in [Replicas -> SUBSET Endpoints]

\* A replica escalates exactly when its counts or a severe event call for it,
\* and acts once for each target it has blocked or disabled: over all three
\* ingestion endpoints, refused requests, logs that do not parse, failing
\* calls and restarts (manager.py, "Lv.2: IP Block (>=3 attacks or HIGH+)",
\* "Lv.3: Endpoint Disable (>=5 attacks or CRITICAL)").
EscalationExact ==
  \A r \in Replicas :
    /\ blockedIps[r] = severeIps[r] \cup {i \in Ips : ipCount[r][i] >= IpBlockThreshold}
    /\ disabledEndpoints[r] = criticalEndpoints[r]
         \cup {e \in Endpoints : endpointCount[r][e] >= EndpointDisableThreshold}
    /\ \A i \in Ips : /\ recorded[r]["rate_limit"][i] = ipCount[r][i]
                      /\ recorded[r]["ip_blocked"][i] = IF i \in blockedIps[r] THEN 1 ELSE 0
    /\ \A e \in Endpoints :
         recorded[r]["endpoint_disabled"][e] = IF e \in disabledEndpoints[r] THEN 1 ELSE 0

\* As long as the calls of a replica get through, the cluster defends against
\* what the replica has counted, where Kubernetes takes the name: attackers
\* are limited, repeated and severe ones denied, and a path is aborted for one
\* of the methods that call for it, whatever the other replicas created
\* before (the conflict that the except clauses swallow).
DefenceInForce ==
  \A r \in Replicas : online[r] =>
    /\ \A i \in Ips \cap ValidNames :
         /\ ipCount[r][i] > 0 => i \in filters
         /\ ipCount[r][i] >= IpBlockThreshold \/ i \in severeIps[r] => i \in denied
    /\ \A e \in Endpoints :
         /\ NameOf[e] \in ValidNames
         /\ endpointCount[r][e] >= EndpointDisableThreshold \/ e \in criticalEndpoints[r]
         => aborts[NameOf[e]] # NoEndpoint

\* Reference: the families of the Core Rule Set by the digits of the rule, as
\* the comment over MODSEC_RULE_CATEGORY_MAP lists them.
RuleCwe(rule) ==
  LET family == rule \div 1000
      number == rule % 1000
  IN  IF number < 100 THEN "UNKNOWN" ELSE
      CASE family = 930 -> "CWE-22"
        [] family = 932 -> "CWE-78"
        [] family = 934 -> IF number < 130 THEN "CWE-918" ELSE "CWE-502"
        [] family = 941 -> "CWE-79"
        [] family = 942 -> "CWE-89"
        [] OTHER        -> "UNKNOWN"

\* The context of a ModSecurity log has the CWE of the first rule that has
\* one, and requires a patch exactly then: the boundaries of the ranges and
\* the names of the categories in three files agree (modsecurity.py,
\* cwe_mapping.py, context_builder.py).
CweMatchesRule ==
  context.source = "modsecurity" =>
    \E log \in Logs :
      /\ log.shape = "modsecurity" /\ Verdict(log) = "parsed"
      /\ log.endpoint = context.endpoint /\ log.ip = context.ip
      /\ LET known == {j \in DOMAIN log.messages : RuleCwe(log.messages[j].rule) # "UNKNOWN"}
         IN  context.cwe = IF known = {} THEN "UNKNOWN"
                           ELSE RuleCwe(log.messages[FirstOf(known)].rule)
      /\ context.requires_patch = (context.cwe # "UNKNOWN")

\* Stated in manager.py, line 5: "Lv.2: IP Block (>=3 attacks".  Attacks that
\* are spread over the replicas are counted apart.
BlockedAtThreshold ==
  \A i \in Ips :
    MapThenSumSet(LAMBDA r : ipCount[r][i], Replicas) >= IpBlockThreshold =>
      \E r \in Replicas : i \in blockedIps[r]

\* Stated by get_stats of manager.py, line 88, "blocked_ips": what it lists is
\* denied.  A process that has not served /diagnostics reaches no API server.
BlockedIsDenied == \A r \in Replicas : blockedIps[r] \subseteq denied

\* Stated in endpoint_disabler.py, line 14: the VirtualService "returns 503 for
\* a specific endpoint".  The name leaves the method out, and the second
\* method of a path is a conflict.
DisabledIsAborted ==
  \A r \in Replicas : online[r] =>
    \A e \in disabledEndpoints[r] : NameOf[e] \in ValidNames => aborts[NameOf[e]] = e

=============================================================================
