--------------------------- MODULE MCRuntimeEvents ---------------------------
(* A small instance of RuntimeEvents: two replicas, an IPv4 address, an IPv6
   address whose object name Kubernetes refuses, two methods of one path and
   a pod. *)
EXTENDS RuntimeEvents

CONSTANTS r1, r2, v4, v6, none

login == [method |-> "POST", path |-> "/login"]
form  == [method |-> "GET", path |-> "/login"]
pod   == [method |-> "SYSCALL", path |-> "UNKNOWN"]

MCReplicas == {r1, r2}
MCIps == {v4, v6}
MCEndpoints == {login, form, pod}
MCRouteMap == {login}
MCNameOf == [e \in MCEndpoints |-> IF e = pod THEN "disable-UNKNOWN" ELSE "disable-login"]
MCValidNames == {v4, "disable-login"}

Message(rule, severity) == [rule |-> rule, severity |-> severity]

Web(endpoint, ip, messages, time) ==
  [shape |-> "modsecurity", endpoint |-> endpoint, ip |-> ip,
   messages |-> messages, time |-> time]

MCLogs ==
  {Web(login, v4, <<Message(920350, "WARNING"), Message(942100, "CRITICAL")>>, "valid"),
   Web(login, v4, <<Message(934129, "NOTICE")>>, "valid"),
   Web(form, v4, <<Message(943000, "NOTICE")>>, "valid"),
   Web(form, v6, <<Message(934130, "ERROR"), Message(TextRule, "NOTICE")>>, "valid"),
   Web(form, v4, <<Message(920350, "NOTICE"), Message(TextRule, "null")>>, "valid"),
   Web(form, v4, <<Message(942999, "null")>>, "valid"),
   Web(form, v4, <<Message(942999, "NOTICE")>>, "invalid"),
   [shape |-> "falco", endpoint |-> pod, ip |-> none, tags |-> <<"maturity", "shell">>,
    priority |-> "Warning", time |-> "valid"],
   [shape |-> "falco", endpoint |-> pod, ip |-> v4, tags |-> << >>,
    priority |-> "Critical", time |-> "valid"],
   [shape |-> "other"]}

MCManualEvents ==
  {[category |-> "SQL_Injection", endpoint |-> login, ip |-> v4,
    blocked |-> TRUE, severity |-> "MEDIUM", patch |-> "no", reported |-> {"waf_block"}]}

Symmetry == Permutations(MCReplicas)
=============================================================================
