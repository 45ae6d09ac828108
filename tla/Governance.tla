----------------------------- MODULE Governance -----------------------------
(***************************************************************************)
(* Phase 4: the governance controller, services/governance/src.            *)
(*                                                                         *)
(* One asyncio process runs the orchestrator task, which handles the       *)
(* messages of elden:phase4:promote one after the other, the rollback      *)
(* watcher, which polls Prometheus, and the HTTP endpoints.  They          *)
(* interleave where a coroutine awaits: in the 30 s the orchestrator gives *)
(* ArgoCD and Kyverno, around its publish, between two polls.  GitHub and  *)
(* Kubernetes are called synchronously, inside a step.                     *)
(*                                                                         *)
(* Every incident is promoted through the one Rollout                      *)
(* elden-canary/target-app.                                                *)
(***************************************************************************)
EXTENDS Naturals, FiniteSets

CONSTANTS
  Incidents,    \* incident_ids of Phase 3's results
  NoIncident,   \* the orchestrator handles none
  RiskOf,       \* what RiskClassifier makes of the manifests of an incident
  Deliveries,   \* bound: how often the result of each incident is sent
  MaxChanges,   \* bound: how often the SLO of the canary changes
  MaxRestarts   \* bound: how often the controller is restarted

Risks == {"low", "medium", "high"}

ASSUME GovernanceAssumption ==
  /\ IsFiniteSet(Incidents) /\ NoIncident \notin Incidents
  /\ RiskOf \in [Incidents -> Risks]
  /\ Deliveries \in Nat /\ MaxChanges \in Nat /\ MaxRestarts \in Nat

VARIABLES
  inbox,        \* results still to come
  handler,      \* where the orchestrator's _handle stands
  current,      \* incident it handles
  stage,        \* _state: stage of each PromotionRequest
  active,       \* the gauge active_incidents
  held,         \* the Rollout waits for what _set_pause(paused=False) ends
  aborted,      \* its status.abort
  breaches,     \* _consecutive_breaches; 2 stands for two or more
  slo,          \* what Prometheus says of target-app-canary
  changes,
  restarts,
  retried,      \* history: incidents sent to elden:phase2:retry
  gaveUp,       \* history: incidents whose _handle raised or died
  approved,     \* history: approved since their result came
  measured      \* history: the watcher's last measurement

vars == <<inbox, handler, current, stage, active, held, aborted, breaches, slo,
          changes, restarts, retried, gaveUp, approved, measured>>
orchestration == <<handler, current, stage, active>>
rollout       == <<held, aborted>>
watcher       == <<breaches, measured>>
environment   == <<slo, changes, restarts>>
history       == <<retried, gaveUp, approved>>

Stages == {"none", "policy_check", "git_pr", "canary_analysis",
           "manual_approval", "completed"}

-----------------------------------------------------------------------------
Init ==
  /\ inbox = [i \in Incidents |-> Deliveries]
  /\ handler = "listening" /\ current = NoIncident
  /\ stage = [i \in Incidents |-> "none"]
  /\ active = [r \in Risks |-> 0]
  /\ held = FALSE /\ aborted = FALSE
  /\ breaches = 0 /\ measured = "nothing"
  /\ slo \in {"healthy", "breach"} /\ changes = 0 /\ restarts = 0
  /\ retried = {} /\ gaveUp = {} /\ approved = {}

-----------------------------------------------------------------------------
(* Orchestrator._handle *)

SetStage(i, s) == stage' = [stage EXCEPT ![i] = s]

Increment(r) == active' = [active EXCEPT ![r] = @ + 1]
Decrement(r) == active' = [active EXCEPT ![r] = @ - 1]

Listen == handler' = "listening" /\ current' = NoIncident

\* The next message is about i; it fails in this same step or goes on.  Those
\* that Redis loses, and those after listen itself has raised and ended the
\* task, are never taken.
TakeAnd(i, failed) ==
  /\ handler = "listening" /\ inbox[i] > 0
  /\ inbox' = [inbox EXCEPT ![i] = @ - 1]
  /\ retried' = retried \ {i}
  /\ gaveUp' = IF failed THEN gaveUp \cup {i} ELSE gaveUp \ {i}
  /\ approved' = approved \ {i}

Take(i) == TakeAnd(i, FALSE)

\* A result that has not passed everything: no state is kept of it.
Refuse(i) ==
  /\ Take(i)
  /\ handler' = "retrying" /\ current' = i
  /\ UNCHANGED <<stage, active, rollout, watcher, environment>>

\* The defense branch and its PR are there (or GitHub is not configured),
\* and the orchestrator sleeps.
OpenPr(i) ==
  /\ Take(i)
  /\ SetStage(i, "git_pr")
  /\ Increment(RiskOf[i])
  /\ handler' = "settling" /\ current' = i
  /\ UNCHANGED <<rollout, watcher, environment>>

\* Mutant: the except clause takes the incident out of the gauge it never
\* entered.
PrFailsUncounted(i) ==
  /\ Take(i)
  /\ Decrement(RiskOf[i])
  /\ UNCHANGED <<handler, current, stage, rollout, watcher, environment>>

\* GitHub refuses: run logs it and listens on; the request stays in _state
\* and in the gauge.
PrFails(i) ==
  /\ TakeAnd(i, TRUE)
  /\ SetStage(i, "policy_check")
  /\ Increment(RiskOf[i])
  /\ UNCHANGED <<handler, current, rollout, watcher, environment>>

\* Mutant: a rejected incident is not sent back to Phase 2.
ViolationForgotten(i) ==
  /\ handler = "settling" /\ current = i
  /\ Decrement(RiskOf[i])
  /\ Listen
  /\ UNCHANGED <<inbox, stage, rollout, watcher, environment, history>>

\* PolicyGate.evaluate finds violations: in a report of the incident, or in
\* one that names none.
GateFails(i) ==
  /\ handler = "settling" /\ current = i
  /\ Decrement(RiskOf[i])
  /\ handler' = "retrying"
  /\ UNCHANGED <<inbox, current, stage, rollout, watcher, environment, history>>

\* resume_if_allowed: spec.paused of the Rollout is cleared unless the risk
\* is high.  An error of Kubernetes in the gate's list counts as no reports.
GatePassesLow(i) ==
  /\ handler = "settling" /\ current = i /\ RiskOf[i] # "high"
  /\ held' = FALSE
  /\ SetStage(i, "completed")
  /\ Decrement(RiskOf[i])
  /\ Listen
  /\ UNCHANGED <<inbox, aborted, watcher, environment, history>>

\* Mutant: an incident that waits for its approval is not counted any more.
GatePassesHighUncounted(i) ==
  /\ handler = "settling" /\ current = i /\ RiskOf[i] = "high"
  /\ SetStage(i, "manual_approval")
  /\ Decrement(RiskOf[i])
  /\ Listen
  /\ UNCHANGED <<inbox, rollout, watcher, environment, history>>

GatePassesHigh(i) ==
  /\ handler = "settling" /\ current = i /\ RiskOf[i] = "high"
  /\ SetStage(i, "manual_approval")
  /\ Listen
  /\ UNCHANGED <<inbox, active, rollout, watcher, environment, history>>

\* Kubernetes refuses the patch of the Rollout: run logs it and listens on.
ResumeFails(i) ==
  /\ handler = "settling" /\ current = i /\ RiskOf[i] # "high"
  /\ SetStage(i, "canary_analysis")
  /\ gaveUp' = gaveUp \cup {i}
  /\ Listen
  /\ UNCHANGED <<inbox, active, rollout, watcher, environment, retried, approved>>

\* _reject_to_retry.
PublishRetry(i) ==
  /\ handler = "retrying" /\ current = i
  /\ retried' = retried \cup {i}
  /\ Listen
  /\ UNCHANGED <<inbox, stage, active, rollout, watcher, environment, gaveUp,
                 approved>>

PublishRaises(i) ==
  /\ handler = "retrying" /\ current = i
  /\ gaveUp' = gaveUp \cup {i}
  /\ Listen
  /\ UNCHANGED <<inbox, stage, active, rollout, watcher, environment, retried,
                 approved>>

-----------------------------------------------------------------------------
(* The endpoints: they ask only that _state knows the incident *)

Approve(i) ==
  /\ stage[i] # "none"
  /\ held' = FALSE
  /\ approved' = approved \cup {i}
  /\ UNCHANGED <<inbox, orchestration, aborted, watcher, environment, retried,
                 gaveUp>>

Rollback(i) ==
  /\ stage[i] # "none"
  /\ aborted' = TRUE
  /\ UNCHANGED <<inbox, orchestration, held, watcher, environment, history>>

-----------------------------------------------------------------------------
(* RollbackWatcher.run: one poll every 30 s *)

\* Mutant: a healthy poll does not reset the counter.
TickHealthyKeeps ==
  /\ slo = "healthy"
  /\ measured' = "healthy"
  /\ UNCHANGED <<inbox, orchestration, breaches, rollout, environment, history>>

\* A poll that Prometheus does not answer changes nothing.
TickHealthy ==
  /\ slo = "healthy"
  /\ breaches' = 0 /\ measured' = "healthy"
  /\ UNCHANGED <<inbox, orchestration, rollout, environment, history>>

\* Mutant: the first breach is not counted.
TickBreachUncounted ==
  /\ slo = "breach" /\ breaches = 0
  /\ measured' = "breach"
  /\ UNCHANGED <<inbox, orchestration, breaches, rollout, environment, history>>

TickBreach ==
  /\ slo = "breach" /\ breaches = 0
  /\ breaches' = 1 /\ measured' = "breach"
  /\ UNCHANGED <<inbox, orchestration, rollout, environment, history>>

TickAborts ==
  /\ slo = "breach" /\ breaches > 0
  /\ breaches' = 0 /\ measured' = "breach"
  /\ aborted' = TRUE
  /\ UNCHANGED <<inbox, orchestration, held, environment, history>>

\* Kubernetes refuses the abort: the counter stays where it is.
AbortFails ==
  /\ slo = "breach" /\ breaches > 0
  /\ breaches' = 2 /\ measured' = "breach"
  /\ UNCHANGED <<inbox, orchestration, rollout, environment, history>>

-----------------------------------------------------------------------------
(* The environment *)

SloChanges ==
  /\ changes < MaxChanges
  /\ changes' = changes + 1
  /\ slo' = IF slo = "healthy" THEN "breach" ELSE "healthy"
  /\ UNCHANGED <<inbox, orchestration, rollout, watcher, restarts, history>>

\* The Rollout controller reaches "pause: {}  # manual approval required
\* here", or starts over with a new candidate.  That the patch of spec.paused
\* ends the pause is what approve relies on; Argo Rollouts itself is not in
\* this repository.
RolloutPauses ==
  /\ ~held
  /\ held' = TRUE /\ aborted' = FALSE
  /\ UNCHANGED <<inbox, orchestration, watcher, environment, history>>

\* Nothing of the controller survives, the message at hand included.
Restart ==
  /\ restarts < MaxRestarts
  /\ restarts' = restarts + 1
  /\ Listen
  /\ stage' = [i \in Incidents |-> "none"]
  /\ active' = [r \in Risks |-> 0]
  /\ breaches' = 0 /\ measured' = "nothing"
  /\ gaveUp' = gaveUp \cup {i \in Incidents : stage[i] # "none" \/ i = current}
  /\ UNCHANGED <<inbox, rollout, slo, changes, retried, approved>>

-----------------------------------------------------------------------------
Handle(i) ==
  \/ Refuse(i) \/ OpenPr(i) \/ PrFails(i)
  \/ GateFails(i) \/ GatePassesLow(i) \/ GatePassesHigh(i) \/ ResumeFails(i)
  \/ PublishRetry(i) \/ PublishRaises(i)

Tick == TickHealthy \/ TickBreach \/ TickAborts \/ AbortFails

Next ==
  \/ \E i \in Incidents : Handle(i) \/ Approve(i) \/ Rollback(i)
  \/ Tick \/ SloChanges \/ RolloutPauses \/ Restart

Spec == Init /\ [][Next]_vars

\* The watcher's loop never ends, and Kubernetes does not refuse every abort.
FairSpec == Spec /\ WF_vars(Tick) /\ SF_vars(TickAborts)

-----------------------------------------------------------------------------
(* Properties *)

\* Types; the gauge never goes below zero, over redelivered results, failures
\* and restarts (orchestrator.py, metrics.py).
TypeOK ==
  /\ inbox \in [Incidents -> 0 .. Deliveries]
  /\ handler \in {"listening", "settling", "retrying"}
  /\ current \in Incidents \cup {NoIncident}
  /\ stage \in [Incidents -> Stages]
  /\ active \in [Risks -> Nat]
  /\ held \in BOOLEAN /\ aborted \in BOOLEAN
  /\ breaches \in 0 .. 2
  /\ slo \in {"healthy", "breach"} /\ measured \in {"nothing", "healthy", "breach"}
  /\ changes \in 0 .. MaxChanges /\ restarts \in 0 .. MaxRestarts
  /\ retried \subseteq Incidents /\ gaveUp \subseteq Incidents
  /\ approved \subseteq Incidents

\* Incidents of risk r the controller still has to decide on.
InFlight(r) ==
  {i \in Incidents : RiskOf[i] = r /\ \/ stage[i] = "manual_approval"
                                      \/ handler = "settling" /\ current = i}

\* active_incidents never hides an undecided incident, over redelivered
\* results, failures and rejections: each decrement has an increment of its
\* own before it (orchestrator.py).
GaugeNeverUnderReports == \A r \in Risks : active[r] >= Cardinality(InFlight(r))

\* An incident that was taken is being handled, decided, asked for again, or
\* its handler gave up on an exception: no return forgets it.
OutcomeKnown ==
  \A i \in Incidents :
    inbox[i] < Deliveries =>
      \/ current = i
      \/ stage[i] \in {"manual_approval", "completed"}
      \/ i \in retried \cup gaveUp

\* The watcher aborts only when two measurements in a row, failed polls and
\* refused aborts aside, have breached the SLO ("SLO breach %d/2").
AbortsAfterTwoBreaches == [][TickAborts => measured = "breach"]_vars

\* An SLO that stays breached aborts the Rollout again and again, whatever
\* the orchestrator, the endpoints and restarts do.
SustainedBreachAborts == <>[](slo = "breach") => []<>aborted

\* "high: paused -> /incidents/{id}/approve": the Rollout is released past a
\* high-risk incident only by an approval of that incident.
HighRiskWaitsForApproval ==
  [][held /\ ~held' =>
       \A i \in Incidents : stage[i] = "manual_approval" => i \in approved']_vars

\* /incidents/{id}/rollback "force rollback": the orchestrator does not
\* resume a Rollout that has been aborted by hand or by the watcher.
RolledBackIsNotResumed == [][\A i \in Incidents : GatePassesLow(i) => ~aborted]_vars
=============================================================================
