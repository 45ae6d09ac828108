------------------------- MODULE RuntimeEventsProofs -------------------------
(***************************************************************************)
(* Proofs about RuntimeEvents: type correctness, that every replica        *)
(* escalates exactly on what it has counted, that the cluster defends as   *)
(* long as its calls get through, and that the CWE of a context is that of *)
(* the rule; for any number of replicas, targets, requests and restarts,   *)
(* any thresholds and any logs.                                            *)
(***************************************************************************)
EXTENDS RuntimeEvents, FiniteSetTheorems, TLAPS

-----------------------------------------------------------------------------
(* The kinds of steps *)

\* What handle_defense is given has a target it can count.
IsEvent(e) == e.ip \in Ips \cup {NoIp} /\ e.endpoint \in Endpoints

\* A request whose event is answered by the defence manager.
Handling(r, e, lost) ==
  /\ IsEvent(e) /\ lost \subseteq ActionsFor(r, e)
  /\ HandleDefense(r, e, ActionsFor(r, e), lost)
  /\ answer' = "200" /\ requests < MaxRequests /\ requests' = requests + 1
  /\ UNCHANGED <<configured, restarts, failedLogs>>

\* A request that is refused, or whose log does not parse.
Refusing(r) ==
  /\ answer' \in {"400", "401", "403", "500"}
  /\ requests < MaxRequests /\ requests' = requests + 1
  /\ failedLogs' = failedLogs \/ failedLogs' = [failedLogs EXCEPT ![r] = @ + 1]
  /\ UNCHANGED <<manager, cluster, history, configured, restarts>>

LEMMA ParsedIsEvent ==
  ASSUME NEW log \in Logs, Verdict(log) = "parsed"
  PROVE  IsEvent(Normalize(log))
  <1>1. log.shape \in {"modsecurity", "falco"}
    BY DEF Verdict
  <1>2. log.ip \in Ips \cup {NoIp} /\ log.endpoint \in Endpoints
    BY <1>1, EventsAssumption DEF EventsAssumption
  <1> QED
    BY <1>2 DEF IsEvent, Normalize, ParseModsec, ParseFalco

LEMMA ManualIsEvent ==
  ASSUME NEW body \in ManualEvents
  PROVE  IsEvent(ManualEventOf(body))
  BY EventsAssumption DEF EventsAssumption, IsEvent, ManualEventOf

LEMMA PipelineHandles ==
  ASSUME NEW r, NEW e, IsEvent(e), RunPipeline(r, e),
         requests < MaxRequests, requests' = requests + 1, UNCHANGED <<configured, restarts>>
  PROVE  \E lost : Handling(r, e, lost)
  <1>1. PICK lost \in SUBSET ActionsFor(r, e) : HandleDefense(r, e, ActionsFor(r, e), lost)
    BY DEF RunPipeline
  <1> QED
    BY <1>1 DEF RunPipeline, Handling

LEMMA Refused ==
  ASSUME NEW header, Refusal(header) # "none"
  PROVE  Refusal(header) \in {"401", "403"}
  BY DEF Refusal

LEMMA Steps ==
  ASSUME [Next]_vars
  PROVE  \/ \E r \in Replicas : \E e, lost : Handling(r, e, lost)
         \/ \E r \in Replicas : Refusing(r) \/ Diagnostics(r) \/ Restart(r)
         \/ UNCHANGED vars
  <1>1. ASSUME NEW r \in Replicas, LogRequest(r)
        PROVE  (\E e, lost : Handling(r, e, lost)) \/ Refusing(r)
    <2>1. PICK header \in Headers, log \in Logs : Request(r, header, ReceiveLog(r, log))
      BY <1>1 DEF LogRequest
    <2>2. requests < MaxRequests /\ requests' = requests + 1 /\ UNCHANGED <<configured, restarts>>
      BY <2>1 DEF Request
    <2>3. CASE Refusal(header) # "none"
      BY <2>1, <2>2, <2>3, Refused DEF Request, Refusing
    <2>4. CASE Refusal(header) = "none" /\ Verdict(log) = "parsed"
      <3>1. RunPipeline(r, Normalize(log))
        BY <2>1, <2>4 DEF Request, ReceiveLog
      <3> QED
        BY <2>2, <2>4, <3>1, ParsedIsEvent, PipelineHandles
    <2>5. CASE Refusal(header) = "none" /\ Verdict(log) # "parsed"
      BY <2>1, <2>2, <2>5 DEF Request, ReceiveLog, Refusing
    <2> QED
      BY <2>3, <2>4, <2>5
  <1>2. ASSUME NEW r \in Replicas, ManualRequest(r)
        PROVE  (\E e, lost : Handling(r, e, lost)) \/ Refusing(r)
    <2>1. PICK header \in Headers, body \in ManualEvents : Request(r, header, ReceiveManual(r, body))
      BY <1>2 DEF ManualRequest
    <2>2. requests < MaxRequests /\ requests' = requests + 1 /\ UNCHANGED <<configured, restarts>>
      BY <2>1 DEF Request
    <2>3. CASE Refusal(header) # "none"
      BY <2>1, <2>2, <2>3, Refused DEF Request, Refusing
    <2>4. CASE Refusal(header) = "none"
      <3>1. RunPipeline(r, ManualEventOf(body))
        BY <2>1, <2>4 DEF Request, ReceiveManual
      <3> QED
        BY <2>2, <3>1, ManualIsEvent, PipelineHandles
    <2> QED
      BY <2>3, <2>4
  <1> QED
    BY <1>1, <1>2 DEF Next

-----------------------------------------------------------------------------
(* Type correctness, in parts *)

CountsOK ==
  /\ ipCount \in [Replicas -> [Ips -> 0..requests]]
  /\ endpointCount \in [Replicas -> [Endpoints -> 0..requests]]
RecordedOK == recorded \in [Replicas -> [Actions -> [Targets -> 0..requests]]]
SetsOK ==
  /\ blockedIps \in [Replicas -> SUBSET Ips]
  /\ disabledEndpoints \in [Replicas -> SUBSET Endpoints]
  /\ severeIps \in [Replicas -> SUBSET Ips]
  /\ criticalEndpoints \in [Replicas -> SUBSET Endpoints]
ClusterOK ==
  /\ filters \subseteq Ips \cap ValidNames /\ denied \subseteq Ips \cap ValidNames
  /\ DOMAIN aborts = Names
  /\ \A n \in Names : aborts[n] # NoEndpoint => aborts[n] \in Endpoints /\ NameOf[aborts[n]] = n
FlagsOK ==
  /\ configured \in [Replicas -> BOOLEAN] /\ online \in [Replicas -> BOOLEAN]
  /\ answer \in {"none", "200", "400", "401", "403", "500"}
NumbersOK ==
  /\ failedLogs \in [Replicas -> 0..requests]
  /\ requests \in 0..MaxRequests /\ restarts \in 0..MaxRestarts

LEMMA TypeParts ==
  TypeOK <=> CountsOK /\ RecordedOK /\ SetsOK /\ ClusterOK /\ FlagsOK /\ NumbersOK
  BY DEF TypeOK, CountsOK, RecordedOK, SetsOK, ClusterOK, FlagsOK, NumbersOK

LEMMA TypePartsNext ==
  CountsOK' /\ RecordedOK' /\ SetsOK' /\ ClusterOK' /\ FlagsOK' /\ NumbersOK' => TypeOK'
  BY DEF TypeOK, CountsOK, RecordedOK, SetsOK, ClusterOK, FlagsOK, NumbersOK

LEMMA TypeInit == Init => TypeOK
  <1> SUFFICES ASSUME Init PROVE TypeOK
    OBVIOUS
  <1>1. CountsOK /\ RecordedOK /\ NumbersOK
    BY EventsAssumption DEF Init, CountsOK, RecordedOK, NumbersOK, EventsAssumption
  <1>2. SetsOK /\ FlagsOK
    BY DEF Init, SetsOK, FlagsOK
  <1>3. ClusterOK
    BY DEF Init, ClusterOK
  <1> QED
    BY <1>1, <1>2, <1>3, TypeParts

\* One more attack.
LEMMA BumpType ==
  ASSUME NEW S, NEW m \in Nat, NEW count \in [S -> 0..m], NEW t
  PROVE  Bump(count, t) \in [S -> 0..(m + 1)]
  BY DEF Bump

\* A larger bound on requests holds what a smaller one held.
LEMMA CountsGrow ==
  ASSUME NumbersOK, requests' = requests + 1
  PROVE  /\ \A S : \A f \in [S -> 0..requests] : f \in [S -> 0..requests']
         /\ CountsOK /\ UNCHANGED <<ipCount, endpointCount>> => CountsOK'
         /\ RecordedOK /\ UNCHANGED recorded => RecordedOK'
  <1>1. requests \in Nat /\ 0..requests \subseteq 0..requests'
    BY DEF NumbersOK
  <1>2. \A S : \A f \in [S -> 0..requests] : f \in [S -> 0..requests']
    BY <1>1
  <1>3. CountsOK /\ UNCHANGED <<ipCount, endpointCount>> => CountsOK'
    BY <1>2 DEF CountsOK
  <1>4. RecordedOK /\ UNCHANGED recorded => RecordedOK'
    BY <1>2 DEF RecordedOK
  <1> QED
    BY <1>2, <1>3, <1>4

LEMMA HandlingType ==
  ASSUME TypeOK, NEW r \in Replicas, NEW e, NEW lost, Handling(r, e, lost)
  PROVE  TypeOK'
  <1> DEFINE actions == ActionsFor(r, e)
  <1>0. CountsOK /\ RecordedOK /\ SetsOK /\ ClusterOK /\ FlagsOK /\ NumbersOK
    BY TypeParts
  <1>1. HandleDefense(r, e, actions, lost) /\ IsEvent(e)
    BY DEF Handling
  <1>2. requests \in Nat /\ requests' = requests + 1 /\ requests < MaxRequests
    BY <1>0 DEF Handling, NumbersOK
  <1>3. CountsOK'
    <2>1. ipCount' = [ipCount EXCEPT ![r] = Bump(@, e.ip)]
          /\ endpointCount' = [endpointCount EXCEPT ![r] = Bump(@, e.endpoint)]
      BY <1>1 DEF HandleDefense
    <2>2. Bump(ipCount[r], e.ip) \in [Ips -> 0..requests']
          /\ Bump(endpointCount[r], e.endpoint) \in [Endpoints -> 0..requests']
      BY <1>0, <1>2, BumpType DEF CountsOK
    <2>3. ipCount \in [Replicas -> [Ips -> 0..requests']]
          /\ endpointCount \in [Replicas -> [Endpoints -> 0..requests']]
      BY <1>0, <1>2, CountsGrow DEF CountsOK
    <2> QED
      BY <2>1, <2>2, <2>3 DEF CountsOK
  <1>4. RecordedOK'
    <2> DEFINE new == [a \in Actions |-> IF a \in actions THEN Bump(recorded[r][a], TargetOf(a, e))
                                                          ELSE recorded[r][a]]
    <2>1. recorded' = [recorded EXCEPT ![r] = new]
      BY <1>0, <1>1 DEF HandleDefense, Record, RecordedOK
    <2>2. ASSUME NEW a \in Actions
          PROVE  /\ Bump(recorded[r][a], TargetOf(a, e)) \in [Targets -> 0..requests']
                 /\ recorded[r][a] \in [Targets -> 0..requests']
      <3>1. recorded[r][a] \in [Targets -> 0..requests]
        BY <1>0 DEF RecordedOK
      <3> QED
        BY <1>0, <1>2, <3>1, BumpType, CountsGrow
    <2>3. new \in [Actions -> [Targets -> 0..requests']]
      BY <2>2
    <2>4. recorded \in [Replicas -> [Actions -> [Targets -> 0..requests']]]
      BY <1>0, <1>2, CountsGrow DEF RecordedOK
    <2> HIDE DEF new
    <2> QED
      BY <2>1, <2>3, <2>4 DEF RecordedOK
  <1>5. SetsOK'
    <2>1. "ip_blocked" \in actions => e.ip \in Ips
      BY <1>1 DEF ActionsFor, BlockDue, IsEvent
    <2>2. PICK B \in SUBSET Ips : blockedIps' = [blockedIps EXCEPT ![r] = B]
      BY <1>0, <1>1, <2>1 DEF HandleDefense, SetsOK
    <2>3. PICK D \in SUBSET Endpoints : disabledEndpoints' = [disabledEndpoints EXCEPT ![r] = D]
      BY <1>0, <1>1 DEF HandleDefense, SetsOK, IsEvent
    <2>4. PICK V \in SUBSET Ips : severeIps' = [severeIps EXCEPT ![r] = V]
      BY <1>0, <1>1 DEF HandleDefense, SetsOK
    <2>5. PICK C \in SUBSET Endpoints : criticalEndpoints' = [criticalEndpoints EXCEPT ![r] = C]
      BY <1>0, <1>1 DEF HandleDefense, SetsOK, IsEvent
    <2> QED
      BY <1>0, <2>2, <2>3, <2>4, <2>5 DEF SetsOK
  <1>6. ClusterOK'
    <2>1. Reaching(r, actions, lost) \subseteq actions
      BY DEF Reaching
    <2>2. "ip_blocked" \in actions \/ "rate_limit" \in actions => e.ip \in Ips
      BY <1>1 DEF ActionsFor, BlockDue, IsEvent
    <2>3. filters' \subseteq Ips \cap ValidNames /\ denied' \subseteq Ips \cap ValidNames
      BY <1>0, <1>1, <2>1, <2>2 DEF HandleDefense, ApplyRateLimit, BlockIp, ClusterOK
    <2>4. aborts' = aborts \/ aborts' = [aborts EXCEPT ![NameOf[e.endpoint]] = e.endpoint]
      BY <1>1 DEF HandleDefense, DisableEndpoint
    <2>5. e.endpoint \in Endpoints /\ NameOf[e.endpoint] \in Names
      BY <1>1 DEF IsEvent, Names
    <2> QED
      BY <1>0, <2>3, <2>4, <2>5 DEF ClusterOK
  <1>7. FlagsOK'
    <2>1. PICK b \in BOOLEAN : online' = [online EXCEPT ![r] = b]
      <3>1. (online[r] /\ Reaching(r, actions, lost) = actions) \in BOOLEAN
        BY Zenon
      <3> QED
        BY <1>1, <3>1, Zenon DEF HandleDefense
    <2> QED
      BY <1>0, <2>1 DEF Handling, FlagsOK
  <1>8. NumbersOK'
    BY <1>0, <1>2, CountsGrow, EventsAssumption DEF Handling, NumbersOK, EventsAssumption
  <1> QED
    BY <1>3, <1>4, <1>5, <1>6, <1>7, <1>8, TypePartsNext

LEMMA TypeStep == TypeOK /\ [Next]_vars => TypeOK'
  <1> SUFFICES ASSUME TypeOK, [Next]_vars PROVE TypeOK'
    OBVIOUS
  <1>0. CountsOK /\ RecordedOK /\ SetsOK /\ ClusterOK /\ FlagsOK /\ NumbersOK
    BY TypeParts
  <1>m. UNCHANGED <<manager, cluster, history, requests>> =>
          CountsOK' /\ RecordedOK' /\ SetsOK' /\ ClusterOK'
    BY <1>0 DEF manager, cluster, history, CountsOK, RecordedOK, SetsOK, ClusterOK
  <1>1. ASSUME NEW r \in Replicas, Refusing(r) PROVE TypeOK'
    <2>1. requests \in Nat /\ requests' = requests + 1 /\ requests < MaxRequests
      BY <1>0, <1>1 DEF Refusing, NumbersOK
    <2>2. CountsOK' /\ RecordedOK'
      BY <1>0, <1>1, <2>1, CountsGrow DEF Refusing, manager
    <2>3. SetsOK' /\ ClusterOK'
      BY <1>0, <1>1 DEF Refusing, manager, cluster, history, SetsOK, ClusterOK
    <2>4. FlagsOK'
      BY <1>0, <1>1 DEF Refusing, history, FlagsOK
    <2>5. NumbersOK'
      <3>1. failedLogs \in [Replicas -> 0..requests'] /\ failedLogs[r] + 1 \in 0..requests'
        BY <1>0, <2>1, CountsGrow DEF NumbersOK
      <3> QED
        BY <1>0, <1>1, <2>1, <3>1, EventsAssumption DEF Refusing, NumbersOK, EventsAssumption
    <2> QED
      BY <2>2, <2>3, <2>4, <2>5, TypePartsNext
  <1>2. ASSUME NEW r \in Replicas, Diagnostics(r) PROVE TypeOK'
    <2>1. FlagsOK'
      BY <1>0, <1>2 DEF Diagnostics, history, FlagsOK
    <2>2. NumbersOK'
      BY <1>0, <1>2 DEF Diagnostics, NumbersOK
    <2> QED
      BY <1>m, <1>2, <2>1, <2>2, TypePartsNext DEF Diagnostics
  <1>3. ASSUME NEW r \in Replicas, Restart(r) PROVE TypeOK'
    <2>0. requests \in Nat /\ requests' = requests
      BY <1>0, <1>3 DEF Restart, NumbersOK
    <2>1. CountsOK'
      BY <1>0, <1>3, <2>0 DEF Restart, CountsOK
    <2>2. RecordedOK'
      <3>1. [a \in Actions |-> [t \in Targets |-> 0]] \in [Actions -> [Targets -> 0..requests]]
        BY <2>0
      <3> QED
        BY <1>0, <1>3, <2>0, <3>1 DEF Restart, RecordedOK
    <2>3. SetsOK'
      BY <1>0, <1>3 DEF Restart, SetsOK
    <2>4. ClusterOK'
      BY <1>0, <1>3 DEF Restart, cluster, ClusterOK
    <2>5. FlagsOK'
      BY <1>0, <1>3 DEF Restart, FlagsOK
    <2>6. NumbersOK'
      BY <1>0, <1>3, <2>0, EventsAssumption DEF Restart, NumbersOK, EventsAssumption
    <2> QED
      BY <2>1, <2>2, <2>3, <2>4, <2>5, <2>6, TypePartsNext
  <1>4. CASE UNCHANGED vars
    <2>1. FlagsOK' /\ NumbersOK'
      BY <1>0, <1>4 DEF vars, history, FlagsOK, NumbersOK
    <2> QED
      BY <1>m, <1>4, <2>1, TypePartsNext DEF vars
  <1> QED
    BY <1>1, <1>2, <1>3, <1>4, Steps, HandlingType

-----------------------------------------------------------------------------
(* Escalation *)

\* EscalationExact of one replica, for its addresses and its endpoints.
ExactIps(r) ==
  /\ blockedIps[r] = severeIps[r] \cup {i \in Ips : ipCount[r][i] >= IpBlockThreshold}
  /\ \A i \in Ips : /\ recorded[r]["rate_limit"][i] = ipCount[r][i]
                    /\ recorded[r]["ip_blocked"][i] = IF i \in blockedIps[r] THEN 1 ELSE 0

ExactEndpoints(r) ==
  /\ disabledEndpoints[r] = criticalEndpoints[r]
       \cup {e \in Endpoints : endpointCount[r][e] >= EndpointDisableThreshold}
  /\ \A e \in Endpoints :
       recorded[r]["endpoint_disabled"][e] = IF e \in disabledEndpoints[r] THEN 1 ELSE 0

LEMMA ExactParts ==
  EscalationExact <=> \A r \in Replicas : ExactIps(r) /\ ExactEndpoints(r)
  BY DEF EscalationExact, ExactIps, ExactEndpoints

LEMMA ExactPartsNext ==
  (\A r \in Replicas : ExactIps(r)' /\ ExactEndpoints(r)') => EscalationExact'
  BY DEF EscalationExact, ExactIps, ExactEndpoints

\* The memory of a replica is its own.
Memory(q) == <<ipCount[q], endpointCount[q], blockedIps[q], disabledEndpoints[q],
               recorded[q], severeIps[q], criticalEndpoints[q]>>

LEMMA ExactKept ==
  ASSUME NEW q \in Replicas, UNCHANGED Memory(q), ExactIps(q), ExactEndpoints(q)
  PROVE  ExactIps(q)' /\ ExactEndpoints(q)'
  BY DEF Memory, ExactIps, ExactEndpoints

LEMMA OthersKept ==
  ASSUME TypeOK, NEW r \in Replicas, NEW e, NEW lost, Handling(r, e, lost),
         NEW q \in Replicas \ {r}
  PROVE  UNCHANGED Memory(q)
  <1>0. CountsOK /\ RecordedOK /\ SetsOK
    BY TypeParts
  <1> QED
    BY <1>0 DEF Handling, HandleDefense, Record, Memory, CountsOK, RecordedOK, SetsOK

\* What one event does to the counts and to the sets of the replica.
LEMMA HandledIps ==
  ASSUME TypeOK, NEW r \in Replicas, NEW e, NEW lost, Handling(r, e, lost)
  PROVE  LET actions == ActionsFor(r, e)
             severe  == e.severity \in {"HIGH", "CRITICAL"}
         IN  /\ \A i \in Ips : ipCount'[r][i] = IF i = e.ip THEN ipCount[r][i] + 1 ELSE ipCount[r][i]
             /\ \A i \in Ips : recorded'[r]["rate_limit"][i] =
                  IF i = e.ip THEN recorded[r]["rate_limit"][i] + 1 ELSE recorded[r]["rate_limit"][i]
             /\ \A i \in Ips : recorded'[r]["ip_blocked"][i] =
                  IF "ip_blocked" \in actions /\ i = e.ip
                  THEN recorded[r]["ip_blocked"][i] + 1 ELSE recorded[r]["ip_blocked"][i]
             /\ blockedIps'[r] = blockedIps[r] \cup IF "ip_blocked" \in actions THEN {e.ip} ELSE {}
             /\ severeIps'[r] = severeIps[r] \cup IF severe THEN {e.ip} \cap Ips ELSE {}
             /\ "ip_blocked" \in actions =>
                  /\ e.ip \in Ips /\ e.ip \notin blockedIps[r]
                  /\ ipCount'[r][e.ip] >= IpBlockThreshold \/ severe
             /\ e.ip \in Ips \ blockedIps[r] /\ (ipCount'[r][e.ip] >= IpBlockThreshold \/ severe)
                  => "ip_blocked" \in actions
  <1> DEFINE actions == ActionsFor(r, e)
             severe  == e.severity \in {"HIGH", "CRITICAL"}
  <1>0. CountsOK /\ RecordedOK /\ SetsOK
    BY TypeParts
  <1>1. HandleDefense(r, e, actions, lost) /\ e.ip \in Ips \cup {NoIp} /\ NoIp \notin Ips
    BY EventsAssumption DEF Handling, IsEvent, EventsAssumption
  <1>2. ipCount'[r] = Bump(ipCount[r], e.ip) /\ DOMAIN ipCount[r] = Ips
    BY <1>0, <1>1 DEF HandleDefense, CountsOK
  <1>3. \A i \in Ips : ipCount'[r][i] = IF i = e.ip THEN ipCount[r][i] + 1 ELSE ipCount[r][i]
    BY <1>2 DEF Bump
  <1>4. \A a \in Actions : /\ recorded'[r][a] = IF a \in actions THEN Bump(recorded[r][a], TargetOf(a, e))
                                                                 ELSE recorded[r][a]
                           /\ DOMAIN recorded[r][a] = Targets
    BY <1>0, <1>1 DEF HandleDefense, Record, RecordedOK
  <1>5. "rate_limit" \in actions <=> e.ip # NoIp
    BY DEF ActionsFor, Actions
  <1>6. "ip_blocked" \in actions <=> BlockDue(r, e, Bump(ipCount[r], e.ip)[e.ip])
    BY DEF ActionsFor, Actions
  <1>7. \A i \in Ips : recorded'[r]["rate_limit"][i] =
          IF i = e.ip THEN recorded[r]["rate_limit"][i] + 1 ELSE recorded[r]["rate_limit"][i]
    BY <1>1, <1>4, <1>5 DEF Actions, TargetOf, Targets, Bump
  <1>8. \A i \in Ips : recorded'[r]["ip_blocked"][i] =
          IF "ip_blocked" \in actions /\ i = e.ip
          THEN recorded[r]["ip_blocked"][i] + 1 ELSE recorded[r]["ip_blocked"][i]
    BY <1>4 DEF Actions, TargetOf, Targets, Bump
  <1>9. blockedIps'[r] = blockedIps[r] \cup IF "ip_blocked" \in actions THEN {e.ip} ELSE {}
    BY <1>0, <1>1 DEF HandleDefense, SetsOK
  <1>10. severeIps'[r] = severeIps[r] \cup IF severe THEN {e.ip} \cap Ips ELSE {}
    BY <1>0, <1>1 DEF HandleDefense, SetsOK
  <1>11. /\ "ip_blocked" \in actions =>
              /\ e.ip \in Ips /\ e.ip \notin blockedIps[r]
              /\ ipCount'[r][e.ip] >= IpBlockThreshold \/ severe
         /\ e.ip \in Ips \ blockedIps[r] /\ (ipCount'[r][e.ip] >= IpBlockThreshold \/ severe)
              => "ip_blocked" \in actions
    BY <1>1, <1>2, <1>6 DEF BlockDue
  <1> QED
    BY <1>3, <1>7, <1>8, <1>9, <1>10, <1>11

LEMMA HandlingExactIps ==
  ASSUME TypeOK, NEW r \in Replicas, NEW e, NEW lost, Handling(r, e, lost), ExactIps(r)
  PROVE  ExactIps(r)'
  <1> DEFINE actions == ActionsFor(r, e)
             severe  == e.severity \in {"HIGH", "CRITICAL"}
  <1>0. CountsOK /\ SetsOK
    BY TypeParts
  <1>1. \A i \in Ips : ipCount[r][i] \in Nat
    BY <1>0 DEF CountsOK
  <1>2. /\ blockedIps[r] \subseteq Ips /\ severeIps[r] \subseteq Ips
        /\ blockedIps'[r] \subseteq Ips /\ severeIps'[r] \subseteq Ips
    BY <1>0, HandledIps DEF SetsOK
  <1>3. ASSUME NEW i \in Ips
        PROVE  i \in blockedIps'[r] <=> i \in severeIps'[r] \/ ipCount'[r][i] >= IpBlockThreshold
    <2>1. i \in blockedIps[r] <=> i \in severeIps[r] \/ ipCount[r][i] >= IpBlockThreshold
      BY DEF ExactIps
    <2>2. CASE i # e.ip
      BY <2>1, <2>2, HandledIps
    <2>3. CASE i = e.ip
      <3>1. ipCount'[r][i] = ipCount[r][i] + 1
        BY <2>3, HandledIps
      <3>2. ipCount[r][i] >= IpBlockThreshold => ipCount'[r][i] >= IpBlockThreshold
        BY <1>1, <3>1, EventsAssumption DEF EventsAssumption
      <3> QED
        BY <2>1, <2>3, <3>2, HandledIps
    <2> QED
      BY <2>2, <2>3
  <1>4. ASSUME NEW i \in Ips
        PROVE  /\ recorded'[r]["rate_limit"][i] = ipCount'[r][i]
               /\ recorded'[r]["ip_blocked"][i] = IF i \in blockedIps'[r] THEN 1 ELSE 0
    <2>1. /\ recorded[r]["rate_limit"][i] = ipCount[r][i]
          /\ recorded[r]["ip_blocked"][i] = IF i \in blockedIps[r] THEN 1 ELSE 0
      BY DEF ExactIps
    <2> QED
      BY <2>1, HandledIps
  <1> QED
    BY <1>2, <1>3, <1>4 DEF ExactIps

LEMMA HandledEndpoints ==
  ASSUME TypeOK, NEW r \in Replicas, NEW e, NEW lost, Handling(r, e, lost)
  PROVE  LET actions  == ActionsFor(r, e)
             critical == e.severity = "CRITICAL"
         IN  /\ \A p \in Endpoints : endpointCount'[r][p] =
                  IF p = e.endpoint THEN endpointCount[r][p] + 1 ELSE endpointCount[r][p]
             /\ \A p \in Endpoints : recorded'[r]["endpoint_disabled"][p] =
                  IF "endpoint_disabled" \in actions /\ p = e.endpoint
                  THEN recorded[r]["endpoint_disabled"][p] + 1
                  ELSE recorded[r]["endpoint_disabled"][p]
             /\ disabledEndpoints'[r] =
                  disabledEndpoints[r] \cup IF "endpoint_disabled" \in actions THEN {e.endpoint} ELSE {}
             /\ criticalEndpoints'[r] =
                  criticalEndpoints[r] \cup IF critical THEN {e.endpoint} ELSE {}
             /\ "endpoint_disabled" \in actions <=>
                  /\ e.endpoint \notin disabledEndpoints[r]
                  /\ endpointCount'[r][e.endpoint] >= EndpointDisableThreshold \/ critical
  <1> DEFINE actions  == ActionsFor(r, e)
             critical == e.severity = "CRITICAL"
  <1>0. CountsOK /\ RecordedOK /\ SetsOK
    BY TypeParts
  <1>1. HandleDefense(r, e, actions, lost) /\ e.endpoint \in Endpoints
    BY DEF Handling, IsEvent
  <1>2. endpointCount'[r] = Bump(endpointCount[r], e.endpoint) /\ DOMAIN endpointCount[r] = Endpoints
    BY <1>0, <1>1 DEF HandleDefense, CountsOK
  <1>3. \A p \in Endpoints : endpointCount'[r][p] =
          IF p = e.endpoint THEN endpointCount[r][p] + 1 ELSE endpointCount[r][p]
    BY <1>2 DEF Bump
  <1>4. \A a \in Actions : /\ recorded'[r][a] = IF a \in actions THEN Bump(recorded[r][a], TargetOf(a, e))
                                                                 ELSE recorded[r][a]
                           /\ DOMAIN recorded[r][a] = Targets
    BY <1>0, <1>1 DEF HandleDefense, Record, RecordedOK
  <1>5. "endpoint_disabled" \in actions
          <=> DisableDue(r, e, Bump(endpointCount[r], e.endpoint)[e.endpoint])
    BY DEF ActionsFor, Actions
  <1>6. \A p \in Endpoints : recorded'[r]["endpoint_disabled"][p] =
          IF "endpoint_disabled" \in actions /\ p = e.endpoint
          THEN recorded[r]["endpoint_disabled"][p] + 1 ELSE recorded[r]["endpoint_disabled"][p]
    BY <1>4 DEF Actions, TargetOf, Targets, Bump
  <1>7. disabledEndpoints'[r] =
          disabledEndpoints[r] \cup IF "endpoint_disabled" \in actions THEN {e.endpoint} ELSE {}
    BY <1>0, <1>1 DEF HandleDefense, SetsOK
  <1>8. criticalEndpoints'[r] = criticalEndpoints[r] \cup IF critical THEN {e.endpoint} ELSE {}
    BY <1>0, <1>1 DEF HandleDefense, SetsOK
  <1>9. "endpoint_disabled" \in actions <=>
          /\ e.endpoint \notin disabledEndpoints[r]
          /\ endpointCount'[r][e.endpoint] >= EndpointDisableThreshold \/ critical
    BY <1>2, <1>5 DEF DisableDue
  <1> QED
    BY <1>3, <1>6, <1>7, <1>8, <1>9

LEMMA HandlingExactEndpoints ==
  ASSUME TypeOK, NEW r \in Replicas, NEW e, NEW lost, Handling(r, e, lost), ExactEndpoints(r)
  PROVE  ExactEndpoints(r)'
  <1>0. CountsOK /\ SetsOK
    BY TypeParts
  <1>1. \A p \in Endpoints : endpointCount[r][p] \in Nat
    BY <1>0 DEF CountsOK
  <1>2. e.endpoint \in Endpoints
    BY DEF Handling, IsEvent
  <1>3. /\ disabledEndpoints[r] \subseteq Endpoints /\ criticalEndpoints[r] \subseteq Endpoints
        /\ disabledEndpoints'[r] \subseteq Endpoints /\ criticalEndpoints'[r] \subseteq Endpoints
    BY <1>0, <1>2, HandledEndpoints DEF SetsOK
  <1>4. ASSUME NEW p \in Endpoints
        PROVE  p \in disabledEndpoints'[r] <=>
                 p \in criticalEndpoints'[r] \/ endpointCount'[r][p] >= EndpointDisableThreshold
    <2>1. p \in disabledEndpoints[r] <=>
            p \in criticalEndpoints[r] \/ endpointCount[r][p] >= EndpointDisableThreshold
      BY DEF ExactEndpoints
    <2>2. CASE p # e.endpoint
      BY <2>1, <2>2, HandledEndpoints
    <2>3. CASE p = e.endpoint
      <3>1. endpointCount'[r][p] = endpointCount[r][p] + 1
        BY <2>3, HandledEndpoints
      <3>2. endpointCount[r][p] >= EndpointDisableThreshold
              => endpointCount'[r][p] >= EndpointDisableThreshold
        BY <1>1, <3>1, EventsAssumption DEF EventsAssumption
      <3> QED
        BY <2>1, <2>3, <3>2, HandledEndpoints
    <2> QED
      BY <2>2, <2>3
  <1>5. ASSUME NEW p \in Endpoints
        PROVE  recorded'[r]["endpoint_disabled"][p] = IF p \in disabledEndpoints'[r] THEN 1 ELSE 0
    <2>1. recorded[r]["endpoint_disabled"][p] = IF p \in disabledEndpoints[r] THEN 1 ELSE 0
      BY DEF ExactEndpoints
    <2> QED
      BY <2>1, HandledEndpoints
  <1> QED
    BY <1>3, <1>4, <1>5 DEF ExactEndpoints

LEMMA ExactInit == Init => EscalationExact
  BY EventsAssumption DEF Init, EscalationExact, EventsAssumption, Actions, Targets

LEMMA ExactStep == TypeOK /\ EscalationExact /\ [Next]_vars => EscalationExact'
  <1> SUFFICES ASSUME TypeOK, EscalationExact, [Next]_vars, NEW q \in Replicas
               PROVE  ExactIps(q)' /\ ExactEndpoints(q)'
    BY ExactPartsNext
  <1>0. ExactIps(q) /\ ExactEndpoints(q)
    BY ExactParts
  <1>1. ASSUME NEW r \in Replicas, NEW e, NEW lost, Handling(r, e, lost)
        PROVE  ExactIps(q)' /\ ExactEndpoints(q)'
    <2>1. CASE q = r
      BY <1>0, <1>1, <2>1, HandlingExactIps, HandlingExactEndpoints
    <2>2. CASE q # r
      BY <1>0, <1>1, <2>2, OthersKept, ExactKept
    <2> QED
      BY <2>1, <2>2
  <1>2. ASSUME NEW r \in Replicas, Refusing(r) \/ Diagnostics(r)
        PROVE  ExactIps(q)' /\ ExactEndpoints(q)'
    <2>1. UNCHANGED Memory(q)
      BY <1>2 DEF Refusing, Diagnostics, manager, history, Memory
    <2> QED
      BY <1>0, <2>1, ExactKept
  <1>3. ASSUME NEW r \in Replicas, Restart(r) PROVE ExactIps(q)' /\ ExactEndpoints(q)'
    <2>0. CountsOK /\ RecordedOK /\ SetsOK
      BY TypeParts
    <2>1. CASE q = r
      <3>1. /\ ipCount'[q] = [i \in Ips |-> 0] /\ endpointCount'[q] = [e \in Endpoints |-> 0]
            /\ blockedIps'[q] = {} /\ disabledEndpoints'[q] = {}
            /\ recorded'[q] = [a \in Actions |-> [t \in Targets |-> 0]]
            /\ severeIps'[q] = {} /\ criticalEndpoints'[q] = {}
        BY <1>3, <2>0, <2>1 DEF Restart, CountsOK, RecordedOK, SetsOK
      <3>2. ExactIps(q)'
        BY <3>1, EventsAssumption DEF ExactIps, EventsAssumption, Actions, Targets
      <3>3. ExactEndpoints(q)'
        BY <3>1, EventsAssumption DEF ExactEndpoints, EventsAssumption, Actions, Targets
      <3> QED
        BY <3>2, <3>3
    <2>2. CASE q # r
      <3>1. UNCHANGED Memory(q)
        BY <1>3, <2>0, <2>2 DEF Restart, Memory, CountsOK, RecordedOK, SetsOK
      <3> QED
        BY <1>0, <3>1, ExactKept
    <2> QED
      BY <2>1, <2>2
  <1>4. CASE UNCHANGED vars
    <2>1. UNCHANGED Memory(q)
      BY <1>4 DEF vars, manager, history, Memory
    <2> QED
      BY <1>0, <2>1, ExactKept
  <1> QED
    BY <1>1, <1>2, <1>3, <1>4, Steps

-----------------------------------------------------------------------------
(* The cluster *)

\* DefenceInForce of one replica, by what it remembers as done.
InForce(r) ==
  /\ \A i \in Ips \cap ValidNames : /\ ipCount[r][i] > 0 => i \in filters
                                    /\ i \in blockedIps[r] => i \in denied
  /\ \A e \in disabledEndpoints[r] :
       NameOf[e] \in ValidNames => aborts[NameOf[e]] # NoEndpoint

LEMMA ForceParts ==
  ASSUME TypeOK, EscalationExact
  PROVE  DefenceInForce <=> \A r \in Replicas : online[r] => InForce(r)
  <1>1. SetsOK
    BY TypeParts
  <1>2. ASSUME NEW r \in Replicas
        PROVE  /\ \A i \in Ips : i \in blockedIps[r]
                    <=> ipCount[r][i] >= IpBlockThreshold \/ i \in severeIps[r]
               /\ \A e \in Endpoints : e \in disabledEndpoints[r]
                    <=> endpointCount[r][e] >= EndpointDisableThreshold \/ e \in criticalEndpoints[r]
               /\ disabledEndpoints[r] \subseteq Endpoints
    BY <1>1 DEF EscalationExact, SetsOK
  <1> QED
    BY <1>2, Zenon DEF DefenceInForce, InForce

\* Nothing the replicas do takes an object of the cluster away.
ClusterGrows ==
  /\ filters \subseteq filters' /\ denied \subseteq denied'
  /\ \A n \in Names : aborts[n] # NoEndpoint => aborts'[n] # NoEndpoint

LEMMA ClusterStep ==
  ASSUME TypeOK, [Next]_vars
  PROVE  ClusterGrows
  <1>1. CASE UNCHANGED cluster
    BY <1>1 DEF cluster, ClusterGrows
  <1>2. ASSUME NEW r \in Replicas, NEW e, NEW lost, Handling(r, e, lost) PROVE ClusterGrows
    <2>1. HandleDefense(r, e, ActionsFor(r, e), lost) /\ e.endpoint \in Endpoints
      BY <1>2 DEF Handling, IsEvent
    <2>2. filters \subseteq filters' /\ denied \subseteq denied'
      BY <2>1 DEF HandleDefense, ApplyRateLimit, BlockIp
    <2>3. aborts' = aborts \/ aborts' = [aborts EXCEPT ![NameOf[e.endpoint]] = e.endpoint]
      BY <2>1 DEF HandleDefense, DisableEndpoint
    <2>4. e.endpoint # NoEndpoint
      BY <2>1, EventsAssumption DEF EventsAssumption
    <2>5. ClusterOK
      BY TypeParts
    <2> QED
      BY <2>2, <2>3, <2>4, <2>5 DEF ClusterGrows, ClusterOK
  <1> QED
    BY <1>1, <1>2, Steps DEF Refusing, Diagnostics, Restart, vars

LEMMA ForceKept ==
  ASSUME TypeOK, ClusterGrows, NEW q \in Replicas, UNCHANGED Memory(q), InForce(q)
  PROVE  InForce(q)'
  <1>1. \A e \in disabledEndpoints[q] : NameOf[e] \in Names
    <2>1. SetsOK
      BY TypeParts
    <2> QED
      BY <2>1 DEF SetsOK, Names
  <1> QED
    BY <1>1 DEF ClusterGrows, Memory, InForce

\* An event whose calls all get through.
LEMMA HandlingForce ==
  ASSUME TypeOK, [Next]_vars, NEW r \in Replicas, NEW e, NEW lost, Handling(r, e, lost),
         Reaching(r, ActionsFor(r, e), lost) = ActionsFor(r, e), InForce(r)
  PROVE  InForce(r)'
  <1> DEFINE actions == ActionsFor(r, e)
  <1>0. CountsOK /\ SetsOK /\ ClusterOK
    BY TypeParts
  <1>1. ClusterGrows
    BY ClusterStep
  <1>2. /\ HandleDefense(r, e, actions, lost) /\ e.ip \in Ips \cup {NoIp}
        /\ e.endpoint \in Endpoints /\ NoIp \notin Ips
    BY EventsAssumption DEF Handling, IsEvent, EventsAssumption
  <1>3. ASSUME NEW i \in Ips \cap ValidNames, ipCount'[r][i] > 0 PROVE i \in filters'
    <2>1. CASE i # e.ip
      BY <1>1, <1>3, <2>1, HandledIps DEF InForce, ClusterGrows
    <2>2. CASE i = e.ip
      <3>1. "rate_limit" \in actions
        BY <1>2, <2>2 DEF ActionsFor, Actions
      <3> QED
        BY <1>2, <2>2, <3>1 DEF HandleDefense, ApplyRateLimit
    <2> QED
      BY <2>1, <2>2
  <1>4. ASSUME NEW i \in Ips \cap ValidNames, i \in blockedIps'[r] PROVE i \in denied'
    <2>1. CASE i \in blockedIps[r]
      BY <1>1, <2>1 DEF InForce, ClusterGrows
    <2>2. CASE i \notin blockedIps[r]
      <3>1. "ip_blocked" \in actions /\ i = e.ip
        BY <1>4, <2>2, HandledIps
      <3> QED
        BY <1>2, <3>1 DEF HandleDefense, BlockIp
    <2> QED
      BY <2>1, <2>2
  <1>5. ASSUME NEW p \in disabledEndpoints'[r], NameOf[p] \in ValidNames
        PROVE  aborts'[NameOf[p]] # NoEndpoint
    <2>1. CASE p \in disabledEndpoints[r]
      <3>1. NameOf[p] \in Names
        BY <1>0, <2>1 DEF SetsOK, Names
      <3> QED
        BY <1>1, <1>5, <2>1, <3>1 DEF InForce, ClusterGrows
    <2>2. CASE p \notin disabledEndpoints[r]
      <3>1. "endpoint_disabled" \in actions /\ p = e.endpoint
        BY <1>5, <2>2, HandledEndpoints
      <3>2. NameOf[p] \in Names /\ p # NoEndpoint
        BY <1>2, <3>1, EventsAssumption DEF Names, EventsAssumption
      <3>3. aborts' = IF aborts[NameOf[p]] = NoEndpoint
                      THEN [aborts EXCEPT ![NameOf[p]] = p] ELSE aborts
        BY <1>2, <1>5, <3>1 DEF HandleDefense, DisableEndpoint
      <3> QED
        BY <1>0, <3>2, <3>3 DEF ClusterOK
    <2> QED
      BY <2>1, <2>2
  <1> QED
    BY <1>3, <1>4, <1>5 DEF InForce

IInv == TypeOK /\ EscalationExact /\ \A r \in Replicas : online[r] => InForce(r)

LEMMA ForceStep ==
  ASSUME IInv, [Next]_vars, NEW q \in Replicas, online'[q]
  PROVE  InForce(q)'
  <1>0. TypeOK /\ FlagsOK /\ CountsOK /\ RecordedOK /\ SetsOK /\ ClusterGrows
        /\ (online[q] => InForce(q))
    BY TypeParts, ClusterStep DEF IInv
  <1>1. ASSUME NEW r \in Replicas, NEW e, NEW lost, Handling(r, e, lost) PROVE InForce(q)'
    <2> DEFINE b == online[r] /\ Reaching(r, ActionsFor(r, e), lost) = ActionsFor(r, e)
    <2>1. online' = [online EXCEPT ![r] = b]
      BY <1>1, Zenon DEF Handling, HandleDefense
    <2>2. CASE q = r
      <3>1. b
        <4>1. online'[q] = b
          BY <1>0, <2>1, <2>2, Zenon DEF FlagsOK
        <4> QED
          BY <4>1, Zenon
      <3>2. InForce(r)
        BY <1>0, <2>2, <3>1
      <3> QED
        BY <1>0, <1>1, <2>2, <3>1, <3>2, HandlingForce
    <2>3. CASE q # r
      <3>1. online[q]
        <4>1. online'[q] = online[q]
          BY <1>0, <2>1, <2>3, Zenon DEF FlagsOK
        <4> QED
          BY <4>1, Zenon
      <3>2. UNCHANGED Memory(q)
        BY <1>0, <1>1, <2>3, OthersKept
      <3> QED
        BY <1>0, <3>1, <3>2, ForceKept
    <2> QED
      BY <2>2, <2>3
  <1>2. ASSUME NEW r \in Replicas, Refusing(r) \/ Diagnostics(r) PROVE InForce(q)'
    <2>1. UNCHANGED Memory(q) /\ UNCHANGED online
      BY <1>2 DEF Refusing, Diagnostics, manager, history, Memory
    <2> QED
      BY <1>0, <2>1, ForceKept
  <1>3. ASSUME NEW r \in Replicas, Restart(r) PROVE InForce(q)'
    <2>1. CASE q = r
      <3>1. ipCount'[q] = [i \in Ips |-> 0] /\ blockedIps'[q] = {} /\ disabledEndpoints'[q] = {}
        BY <1>0, <1>3, <2>1 DEF Restart, CountsOK, SetsOK
      <3> QED
        BY <3>1 DEF InForce
    <2>2. CASE q # r
      <3>1. UNCHANGED Memory(q)
        BY <1>0, <1>3, <2>2 DEF Restart, Memory, CountsOK, RecordedOK, SetsOK
      <3>2. online'[q] = online[q]
        BY <1>0, <1>3, <2>2 DEF Restart, FlagsOK
      <3> QED
        BY <1>0, <3>1, <3>2, ForceKept
    <2> QED
      BY <2>1, <2>2
  <1>4. CASE UNCHANGED vars
    <2>1. UNCHANGED Memory(q) /\ UNCHANGED online
      BY <1>4 DEF vars, manager, history, Memory
    <2> QED
      BY <1>0, <2>1, ForceKept
  <1> QED
    BY <1>1, <1>2, <1>3, <1>4, Steps

LEMMA ForceInit ==
  ASSUME Init, NEW r \in Replicas
  PROVE  InForce(r)
  BY DEF Init, InForce

LEMMA Invariance == Spec => []IInv
  <1>1. Init => IInv
    BY TypeInit, ExactInit, ForceInit DEF IInv
  <1>2. IInv /\ [Next]_vars => IInv'
    BY TypeStep, ExactStep, ForceStep DEF IInv
  <1> QED
    BY <1>1, <1>2, PTL DEF Spec

\* Every variable keeps its type; an abort has the name of the endpoint it is
\* for (manager.py, endpoint_disabler.py), for any number of replicas,
\* targets, requests and restarts.
THEOREM TypeCorrect == Spec => []TypeOK
  BY Invariance, PTL DEF IInv

\* A replica escalates exactly when its counts or a severe event call for it,
\* and acts once for each target, for all thresholds (manager.py,
\* handle_defense).
THEOREM EscalationHolds == Spec => []EscalationExact
  BY Invariance, PTL DEF IInv

\* The cluster defends against what a replica has counted as long as its calls
\* get through, whatever other replicas create and whoever restarts
\* (manager.py and the three functions it calls).
THEOREM DefenceHolds == Spec => []DefenceInForce
  <1>1. IInv => DefenceInForce
    BY ForceParts DEF IInv
  <1> QED
    BY <1>1, Invariance, PTL

-----------------------------------------------------------------------------
(* Classification *)

\* A set of positions has a first one, and only one.
LEMMA FirstExists ==
  ASSUME NEW S \in SUBSET Nat, S # {}
  PROVE  FirstOf(S) \in S /\ \A k \in S : FirstOf(S) <= k
  <1>1. PICK b \in S : TRUE
    OBVIOUS
  <1> DEFINE T == {0..j : j \in {k \in S : k <= b}}
  <1>2. T \subseteq FiniteSubsetsOf(0..b) /\ T # {}
    <2>1. T \subseteq SUBSET (0..b) /\ T # {}
      OBVIOUS
    <2>2. IsFiniteSet(0..b)
      BY FS_Interval
    <2> QED
      BY <2>1, <2>2, FS_FiniteSubsetsOfFinite
  <1>3. PICK x \in T : \A y \in T : ~(<<y, x>> \in StrictSubsetOrdering(0..b))
    <2> HIDE DEF T
    <2> QED
      BY <1>2, FS_StrictSubsetOrderingWellFounded, WFMin
  <1>4. PICK j \in S : j <= b /\ x = 0..j
    OBVIOUS
  <1>5. ASSUME NEW k \in S, k < j PROVE FALSE
    <2>1. 0..k \in T
      BY <1>4, <1>5
    <2>2. j \in 0..j /\ j \notin 0..k
      BY <1>5
    <2>3. 0..k \subseteq x /\ 0..k # x
      BY <1>4, <1>5, <2>2
    <2>4. 0..k \in SUBSET (0..b) /\ x \in SUBSET (0..b)
      BY <1>4, <1>5
    <2> QED
      BY <1>3, <2>1, <2>3, <2>4 DEF StrictSubsetOrdering
  <1>6. \A k \in S : j <= k
    BY <1>5
  <1> QED
    BY <1>6 DEF FirstOf

\* What is least is the first.
LEMMA FirstIs ==
  ASSUME NEW S \in SUBSET Nat, NEW j \in S, \A k \in S : j <= k
  PROVE  FirstOf(S) = j
  <1>1. FirstOf(S) \in S /\ FirstOf(S) <= j
    BY FirstExists
  <1>2. j <= FirstOf(S) /\ j \in Nat /\ FirstOf(S) \in Nat
    BY <1>1
  <1> QED
    BY <1>1, <1>2

\* The table has one CWE for a category (cwe_mapping.py).
LEMMA EntryCwe ==
  ASSUME NEW x \in CweMap
  PROVE  MapToCwe(x[1]) = x[2]
  <1>1. \A y \in CweMap : y[1] = x[1] => y[2] = x[2]
    BY DEF CweMap
  <1> QED
    BY <1>1 DEF MapToCwe

\* The CWE of each category of a rule.
LEMMA CategoryCwe ==
  /\ MapToCwe("SQL_Injection") = "CWE-89"
  /\ MapToCwe("Cross-Site_Scripting") = "CWE-79"
  /\ MapToCwe("Path_Traversal") = "CWE-22"
  /\ MapToCwe("Command_Injection") = "CWE-78"
  /\ MapToCwe("Server-Side_Request_Forgery") = "CWE-918"
  /\ MapToCwe("Insecure_Deserialization") = "CWE-502"
  /\ MapToCwe("Unknown_Web_Attack") = "UNKNOWN"
  <1>1. ASSUME NEW c, NEW w, <<c, w>> \in CweMap PROVE MapToCwe(c) = w
    BY <1>1, EntryCwe
  <1>2. MapToCwe("Unknown_Web_Attack") = "UNKNOWN"
    BY DEF MapToCwe, CweMap
  <1>3. /\ <<"SQL_Injection", "CWE-89">> \in CweMap
        /\ <<"Cross-Site_Scripting", "CWE-79">> \in CweMap
        /\ <<"Path_Traversal", "CWE-22">> \in CweMap
        /\ <<"Command_Injection", "CWE-78">> \in CweMap
        /\ <<"Server-Side_Request_Forgery", "CWE-918">> \in CweMap
        /\ <<"Insecure_Deserialization", "CWE-502">> \in CweMap
    BY DEF CweMap
  <1> QED
    BY <1>1, <1>2, <1>3, Zenon

\* Quotient and remainder of a rule id.
LEMMA RuleDigits ==
  ASSUME NEW r \in Int, NEW f, NEW n, f = r \div 1000, n = r % 1000
  PROVE  f \in Int /\ n \in 0..999 /\ r = 1000 * f + n
  BY SMT

\* The ranges of the adapter and the names of the categories give each rule
\* the CWE of its family, and none to the others.
LEMMA RangeCwe ==
  ASSUME NEW r \in Int
  PROVE  /\ \A x \in RangesOf(r) : MapToCwe(x[3]) = RuleCwe(r) /\ RuleCwe(r) # "UNKNOWN"
         /\ RangesOf(r) = {} => RuleCwe(r) = "UNKNOWN"
  <1> DEFINE f == r \div 1000
             n == r % 1000
  <1>1. f \in Int /\ n \in 0..999 /\ r = 1000 * f + n
    BY RuleDigits
  <1>2. /\ n < 100 => RuleCwe(r) = "UNKNOWN"
        /\ n >= 100 /\ f = 930 => RuleCwe(r) = "CWE-22"
        /\ n >= 100 /\ f = 932 => RuleCwe(r) = "CWE-78"
        /\ n >= 100 /\ f = 934 => RuleCwe(r) = IF n < 130 THEN "CWE-918" ELSE "CWE-502"
        /\ n >= 100 /\ f = 941 => RuleCwe(r) = "CWE-79"
        /\ n >= 100 /\ f = 942 => RuleCwe(r) = "CWE-89"
        /\ f \notin {930, 932, 934, 941, 942} => RuleCwe(r) = "UNKNOWN"
    <2>1. CASE n < 100
      BY <1>1, <2>1, SMT DEF RuleCwe
    <2>2. CASE n >= 100 /\ f = 930
      BY <1>1, <2>2, SMT DEF RuleCwe
    <2>3. CASE n >= 100 /\ f = 932
      BY <1>1, <2>3, SMT DEF RuleCwe
    <2>4. CASE n >= 100 /\ f = 934
      BY <1>1, <2>4, SMT DEF RuleCwe
    <2>5. CASE n >= 100 /\ f = 941
      BY <1>1, <2>5, SMT DEF RuleCwe
    <2>6. CASE n >= 100 /\ f = 942
      BY <1>1, <2>6, SMT DEF RuleCwe
    <2>7. CASE n >= 100 /\ f \notin {930, 932, 934, 941, 942}
      BY <1>1, <2>7, SMT DEF RuleCwe
    <2> HIDE DEF f, n
    <2> QED
      BY <1>1, <2>1, <2>2, <2>3, <2>4, <2>5, <2>6, <2>7, SMT
  <1> HIDE DEF f, n
  <1>3. ASSUME NEW x \in RangesOf(r)
        PROVE  MapToCwe(x[3]) = RuleCwe(r) /\ RuleCwe(r) # "UNKNOWN"
    <2>1. x \in RuleRanges /\ x[1] <= r /\ r < x[2]
      BY DEF RangesOf
    <2>2. CASE x = <<942100, 943000, "SQL_Injection">>
      BY <1>1, <1>2, <2>1, <2>2, CategoryCwe, SMT
    <2>3. CASE x = <<941100, 942000, "Cross-Site_Scripting">>
      BY <1>1, <1>2, <2>1, <2>3, CategoryCwe, SMT
    <2>4. CASE x = <<930100, 931000, "Path_Traversal">>
      BY <1>1, <1>2, <2>1, <2>4, CategoryCwe, SMT
    <2>5. CASE x = <<932100, 933000, "Command_Injection">>
      BY <1>1, <1>2, <2>1, <2>5, CategoryCwe, SMT
    <2>6. CASE x = <<934100, 934130, "Server-Side_Request_Forgery">>
      BY <1>1, <1>2, <2>1, <2>6, CategoryCwe, SMT
    <2>7. CASE x = <<934130, 935000, "Insecure_Deserialization">>
      BY <1>1, <1>2, <2>1, <2>7, CategoryCwe, SMT
    <2> QED
      BY <2>1, <2>2, <2>3, <2>4, <2>5, <2>6, <2>7, SMT DEF RuleRanges
  <1>4. ASSUME RuleCwe(r) # "UNKNOWN" PROVE RangesOf(r) # {}
    <2>1. n >= 100 /\ f \in {930, 932, 934, 941, 942}
      BY <1>1, <1>2, <1>4, SMT
    <2>2. \E x \in RuleRanges : x[1] <= r /\ r < x[2]
      <3>1. CASE f = 930
        <4> DEFINE x == <<930100, 931000, "Path_Traversal">>
        <4>1. x \in RuleRanges /\ x[1] <= r /\ r < x[2]
          BY <1>1, <2>1, <3>1, SMT DEF RuleRanges
        <4> QED
          BY <4>1
      <3>2. CASE f = 932
        <4> DEFINE x == <<932100, 933000, "Command_Injection">>
        <4>1. x \in RuleRanges /\ x[1] <= r /\ r < x[2]
          BY <1>1, <2>1, <3>2, SMT DEF RuleRanges
        <4> QED
          BY <4>1
      <3>3. CASE f = 934 /\ n < 130
        <4> DEFINE x == <<934100, 934130, "Server-Side_Request_Forgery">>
        <4>1. x \in RuleRanges /\ x[1] <= r /\ r < x[2]
          BY <1>1, <2>1, <3>3, SMT DEF RuleRanges
        <4> QED
          BY <4>1
      <3>4. CASE f = 934 /\ n >= 130
        <4> DEFINE x == <<934130, 935000, "Insecure_Deserialization">>
        <4>1. x \in RuleRanges /\ x[1] <= r /\ r < x[2]
          BY <1>1, <2>1, <3>4, SMT DEF RuleRanges
        <4> QED
          BY <4>1
      <3>5. CASE f = 941
        <4> DEFINE x == <<941100, 942000, "Cross-Site_Scripting">>
        <4>1. x \in RuleRanges /\ x[1] <= r /\ r < x[2]
          BY <1>1, <2>1, <3>5, SMT DEF RuleRanges
        <4> QED
          BY <4>1
      <3>6. CASE f = 942
        <4> DEFINE x == <<942100, 943000, "SQL_Injection">>
        <4>1. x \in RuleRanges /\ x[1] <= r /\ r < x[2]
          BY <1>1, <2>1, <3>6, SMT DEF RuleRanges
        <4> QED
          BY <4>1
      <3> QED
        BY <1>1, <2>1, <3>1, <3>2, <3>3, <3>4, <3>5, <3>6, SMT
    <2> QED
      BY <2>2 DEF RangesOf
  <1> QED
    BY <1>3, <1>4

\* A ModSecurity log that is parsed gets the CWE of the first rule that has
\* one: a text before that would have been a ValueError.
LEMMA LogCwe ==
  ASSUME NEW log \in Logs, log.shape = "modsecurity", Verdict(log) = "parsed"
  PROVE  LET known == {j \in DOMAIN log.messages : RuleCwe(log.messages[j].rule) # "UNKNOWN"}
         IN  MapToCwe(RuleCategory(log.messages)) =
               IF known = {} THEN "UNKNOWN" ELSE RuleCwe(log.messages[FirstOf(known)].rule)
  <1> DEFINE messages == log.messages
             known == {j \in DOMAIN messages : RuleCwe(messages[j].rule) # "UNKNOWN"}
             first == FirstOf(Decisive(messages))
  <1>1. /\ DOMAIN messages \subseteq Nat
        /\ \A j \in DOMAIN messages : messages[j].rule \in Int
    <2> DEFINE M == [rule : Int, severity : STRING]
    <2>1. messages \in Seq(M)
      BY EventsAssumption DEF EventsAssumption
    <2> HIDE DEF messages, M
    <2>2. DOMAIN messages = 1..Len(messages) /\ Len(messages) \in Nat
      BY <2>1
    <2>3. \A j \in DOMAIN messages : messages[j] \in M
      BY <2>1
    <2>4. \A j \in DOMAIN messages : messages[j].rule \in Int
      BY <2>3 DEF M
    <2> QED
      BY <2>2, <2>4
  <1>2. RuleCategory(messages) # "ValueError"
    BY DEF Verdict
  <1> HIDE DEF messages
  <1>3. \A j \in DOMAIN messages : RangesOf(messages[j].rule) # {} <=> j \in known
    BY <1>1, RangeCwe
  <1>4. known \subseteq Decisive(messages) /\ Decisive(messages) \subseteq DOMAIN messages
    BY <1>3 DEF Decisive
  <1>5. ASSUME Decisive(messages) = {}
        PROVE  known = {} /\ MapToCwe(RuleCategory(messages)) = "UNKNOWN"
    <2>1. RuleCategory(messages) = "Unknown_Web_Attack"
      BY <1>5 DEF RuleCategory
    <2> QED
      BY <1>4, <1>5, <2>1, CategoryCwe
  <1>6. ASSUME Decisive(messages) # {}
        PROVE  /\ known # {}
               /\ MapToCwe(RuleCategory(messages)) = RuleCwe(messages[FirstOf(known)].rule)
    <2>1. first \in Decisive(messages) /\ \A k \in Decisive(messages) : first <= k
      BY <1>1, <1>4, <1>6, FirstExists
    <2>2. messages[first].rule # TextRule
      BY <1>2, <1>6 DEF RuleCategory
    <2>3. first \in known
      BY <1>3, <1>4, <2>1, <2>2 DEF Decisive
    <2>4. FirstOf(known) = first
      BY <1>1, <1>4, <2>1, <2>3, FirstIs
    <2>5. RangesOf(messages[first].rule) # {}
      BY <1>3, <1>4, <2>3
    <2>6. RuleCategory(messages) = (CHOOSE x \in RangesOf(messages[first].rule) : TRUE)[3]
      BY <1>6, <2>2 DEF RuleCategory
    <2>7. MapToCwe(RuleCategory(messages)) = RuleCwe(messages[first].rule)
      BY <1>1, <1>4, <2>1, <2>5, <2>6, RangeCwe
    <2> QED
      BY <2>3, <2>4, <2>7
  <1> QED
    BY <1>5, <1>6 DEF messages

\* A context that a request builds.
LEMMA ContextSteps ==
  ASSUME [Next]_vars
  PROVE  \/ context' = context
         \/ \E log \in Logs : \E actions :
              Verdict(log) = "parsed" /\ context' = BuildContext(Normalize(log), actions)
         \/ \E body \in ManualEvents : \E actions :
              context' = BuildContext(ManualEventOf(body), actions)
  <1>1. ASSUME NEW r \in Replicas, LogRequest(r)
        PROVE  \/ context' = context
               \/ \E log \in Logs : \E actions :
                    Verdict(log) = "parsed" /\ context' = BuildContext(Normalize(log), actions)
    BY <1>1 DEF LogRequest, Request, ReceiveLog, RunPipeline
  <1>2. ASSUME NEW r \in Replicas, ManualRequest(r)
        PROVE  \/ context' = context
               \/ \E body \in ManualEvents : \E actions :
                    context' = BuildContext(ManualEventOf(body), actions)
    BY <1>2 DEF ManualRequest, Request, ReceiveManual, RunPipeline
  <1>3. ASSUME NEW r \in Replicas, Diagnostics(r) \/ Restart(r) PROVE context' = context
    BY <1>3 DEF Diagnostics, Restart
  <1> QED
    BY <1>1, <1>2, <1>3 DEF Next, vars

\* The context of a ModSecurity log has the CWE of the first rule that has
\* one, and requires a patch exactly then, for every log and rule id
\* (modsecurity.py, cwe_mapping.py, context_builder.py).
THEOREM CweHolds == Spec => []CweMatchesRule
  <1>1. Init => CweMatchesRule
    BY DEF Init, NoContext, CweMatchesRule
  <1>2. CweMatchesRule /\ [Next]_vars => CweMatchesRule'
    <2> SUFFICES ASSUME CweMatchesRule, [Next]_vars PROVE CweMatchesRule'
      OBVIOUS
    <2>1. CASE context' = context
      BY <2>1 DEF CweMatchesRule
    <2>2. ASSUME NEW log \in Logs, NEW actions, Verdict(log) = "parsed",
                 context' = BuildContext(Normalize(log), actions)
          PROVE  CweMatchesRule'
      <3>1. CASE log.shape = "modsecurity"
        <4>1. /\ context'.endpoint = log.endpoint /\ context'.ip = log.ip
              /\ context'.cwe = MapToCwe(RuleCategory(log.messages))
          BY <2>2, <3>1 DEF BuildContext, Normalize, ParseModsec
        <4>2. context'.requires_patch = (context'.cwe # "UNKNOWN")
          BY <2>2, <3>1 DEF BuildContext, Normalize, ParseModsec, RequiresPatch
        <4> QED
          BY <2>2, <3>1, <4>1, <4>2, LogCwe DEF CweMatchesRule
      <3>2. CASE log.shape # "modsecurity"
        <4>1. context'.source = "falco"
          BY <2>2, <3>2 DEF BuildContext, Normalize, ParseFalco
        <4> QED
          BY <4>1 DEF CweMatchesRule
      <3> QED
        BY <3>1, <3>2
    <2>3. ASSUME NEW body \in ManualEvents, NEW actions,
                 context' = BuildContext(ManualEventOf(body), actions)
          PROVE  CweMatchesRule'
      <3>1. context'.source = "manual"
        BY <2>3 DEF BuildContext, ManualEventOf
      <3> QED
        BY <3>1 DEF CweMatchesRule
    <2> QED
      BY <2>1, <2>2, <2>3, ContextSteps
  <1> QED
    BY <1>1, <1>2, PTL DEF Spec

=============================================================================
