---------------------------- MODULE LivePipeline ----------------------------
(***************************************************************************)
(* The closed loop of docker-compose.real.yml: the target application      *)
(* reports attacks, Phase 2 patches the live workspace and builds one tag  *)
(* from it, Phase 3 judges, and the deploy agent,                          *)
(* scripts/real_e2e/deploy_agent.py, runs whatever the tag names, or       *)
(* rolls all of it back to the vulnerable baseline.                        *)
(*                                                                         *)
(* The phases appear by what they do to the workspace and the tag and by   *)
(* the messages they send; SecureCodingJobs and RecoveryAssurance model    *)
(* their insides.                                                          *)
(***************************************************************************)
EXTENDS Naturals, Sequences, FiniteSets

CONSTANTS
  Incidents,
  Nobody,         \* in place of an incident
  MaxRetries,     \* SECURE_CODING_MAX_RETRIES
  MaxRollbacks,   \* bound: requests for a rollback
  MaxOutages      \* bound: how often the agent loses Redis

ASSUME LiveAssumption ==
  /\ IsFiniteSet(Incidents) /\ Nobody \notin Incidents
  /\ MaxRetries \in Nat /\ MaxRollbacks \in Nat /\ MaxOutages \in Nat

VARIABLES
  phase,       \* how far each incident is
  retries,
  workspace,   \* the application in runtime/live-workspace
  backup,      \* what it was before the last patch of each incident
  tag,         \* what target-app:real-latest names
  candidate,   \* what Phase 3 is to judge of each incident
  running,     \* the container target-app
  subscribed,  \* the deploy agent listens to Redis
  inbox,       \* messages it has not handled
  agent,       \* where it is, and in which message
  result,      \* the last it published on elden:phase4:deployed
  outages,
  rollbacks,
  silent,      \* history: it has begun to change the target, and was cut off
  passed       \* history: what Phase 3 passed

loop == <<phase, retries, backup, candidate, passed>>
images == <<workspace, tag, running>>
redis == <<subscribed, inbox, outages, rollbacks>>
vars == <<loop, images, redis, agent, result, silent>>

-----------------------------------------------------------------------------
(* The application, as its probes and its attackers tell it apart *)

Applications == {"vulnerable", "fixed", "broken"}

Shipped == "vulnerable"

ValidLogin(app) == app # "broken"

\* The handler of POST /api/login: the replay logs in or is refused.
Exploited(app) == app = "vulnerable"

\* What it reports of the replay: a patch is required, or none; a broken one
\* may take the replay for an SQL error, which requires a patch.
Reported(app) ==
  IF Exploited(app) THEN {"queued"}
  ELSE IF ValidLogin(app) THEN {"blocked"} ELSE {"queued", "blocked"}

Promote(i) == [kind |-> "promote", id |-> i]
Rollback == [kind |-> "rollback", id |-> Nobody]
Requests == {Promote(i) : i \in Incidents} \cup {Rollback}

Listening == [step |-> "listen", request |-> Rollback]

Init ==
  /\ phase = [i \in Incidents |-> "none"] /\ retries = [i \in Incidents |-> 0]
  /\ workspace = Shipped /\ tag = Shipped /\ running = Shipped
  /\ backup = [i \in Incidents |-> Shipped]
  /\ candidate = [i \in Incidents |-> Shipped]
  /\ subscribed = TRUE /\ inbox = << >> /\ outages = 0 /\ rollbacks = 0
  /\ agent = Listening
  /\ result = [request |-> Rollback, status |-> "none"]
  /\ silent = FALSE /\ passed = {}

-----------------------------------------------------------------------------
(* The phases *)

SetPhase(i, p) == phase' = [phase EXCEPT ![i] = p]

PhaseFrame == UNCHANGED <<running, subscribed, outages, rollbacks, agent, result, silent>>

\* The worker handles one context or retry at a time.
AtWork == \E i \in Incidents : phase[i] \in {"retrying", "building"}

\* login_handler reports: an attack that was refused requires no patch.
Attack(i) ==
  /\ phase[i] = "none"
  /\ \E p \in Reported(running) : SetPhase(i, p)
  /\ PhaseFrame /\ UNCHANGED <<retries, backup, candidate, passed, workspace, tag, inbox>>

MayWork(i) == phase[i] = "retrying" \/ (phase[i] = "queued" /\ ~AtWork)

\* SECURE_CODING_APPLY_MODE: workspace.  What the patch is worth is open.
Apply(i) ==
  /\ MayWork(i)
  /\ backup' = [backup EXCEPT ![i] = workspace]
  /\ workspace' \in Applications
  /\ SetPhase(i, "building")
  /\ PhaseFrame /\ UNCHANGED <<retries, candidate, passed, tag, inbox>>

\* The LLM, the recheck or the comparison with the workspace fails before that.
PatchFails(i) ==
  /\ MayWork(i)
  /\ SetPhase(i, "stopped")
  /\ PhaseFrame /\ UNCHANGED <<retries, backup, candidate, passed, workspace, tag, inbox>>

\* docker_build_api.py: the context is what the workspace holds by then.
Build(i) ==
  /\ phase[i] = "building"
  /\ tag' = workspace
  /\ candidate' = [candidate EXCEPT ![i] = workspace]
  /\ SetPhase(i, "validating")
  /\ PhaseFrame /\ UNCHANGED <<retries, backup, passed, workspace, inbox>>

\* A build that fails: the patch is taken back.
BuildFails(i) ==
  /\ phase[i] = "building"
  /\ workspace' = backup[i]
  /\ backup' = [backup EXCEPT ![i] = Shipped]
  /\ SetPhase(i, "stopped")
  /\ PhaseFrame /\ UNCHANGED <<retries, candidate, passed, tag, inbox>>

\* Phase 3 promotes, sends back, or fails itself.
Pass(i) ==
  /\ phase[i] = "validating"
  /\ SetPhase(i, "promoted")
  /\ passed' = passed \cup {candidate[i]}
  /\ candidate' = [candidate EXCEPT ![i] = Shipped]
  /\ backup' = [backup EXCEPT ![i] = Shipped]
  /\ inbox' = IF subscribed THEN Append(inbox, Promote(i)) ELSE inbox
  /\ PhaseFrame /\ UNCHANGED <<retries, workspace, tag>>

Reject(i) ==
  /\ phase[i] = "validating"
  /\ \E p \in {"rejected", "stopped"} : SetPhase(i, p)
  /\ candidate' = [candidate EXCEPT ![i] = Shipped]
  /\ PhaseFrame /\ UNCHANGED <<retries, backup, passed, workspace, tag, inbox>>

\* Mutant: one retry more than the limit.
RetryLate(i) ==
  /\ phase[i] = "rejected" /\ ~AtWork /\ retries[i] <= MaxRetries
  /\ workspace' = backup[i]
  /\ retries' = [retries EXCEPT ![i] = @ + 1]
  /\ SetPhase(i, "retrying")
  /\ PhaseFrame /\ UNCHANGED <<backup, candidate, passed, tag, inbox>>

\* _prepare_retry: the patch that failed is taken back first.
Retry(i) ==
  /\ phase[i] = "rejected" /\ ~AtWork /\ retries[i] < MaxRetries
  /\ workspace' = backup[i]
  /\ retries' = [retries EXCEPT ![i] = @ + 1]
  /\ SetPhase(i, "retrying")
  /\ PhaseFrame /\ UNCHANGED <<backup, candidate, passed, tag, inbox>>

\* The limit is reached: the patch stays in the workspace.
RetryRefused(i) ==
  /\ phase[i] = "rejected" /\ ~AtWork /\ retries[i] >= MaxRetries
  /\ SetPhase(i, "stopped")
  /\ PhaseFrame /\ UNCHANGED <<retries, backup, candidate, passed, workspace, tag, inbox>>

\* POST /api/rollback of the monitor.
RequestRollback ==
  /\ rollbacks < MaxRollbacks
  /\ rollbacks' = rollbacks + 1
  /\ inbox' = IF subscribed THEN Append(inbox, Rollback) ELSE inbox
  /\ UNCHANGED <<loop, images, subscribed, outages, agent, result, silent>>

-----------------------------------------------------------------------------
(* The deploy agent *)

At(step) == agent.step = step
Goto(step) == agent' = [agent EXCEPT !.step = step]

AgentFrame == UNCHANGED <<loop, redis, result>>

Take ==
  /\ At("listen") /\ inbox # << >>
  /\ agent' = [step |-> IF Head(inbox).kind = "rollback" THEN "reset" ELSE "up",
               request |-> Head(inbox)]
  /\ inbox' = Tail(inbox)
  /\ UNCHANGED <<loop, images, subscribed, outages, rollbacks, result, silent>>

\* reset_live_workspace, prepare_workspace.py --reset.
Reset ==
  /\ At("reset")
  /\ workspace' = Shipped
  /\ Goto("build")
  /\ AgentFrame /\ UNCHANGED <<tag, running, silent>>

\* deploy_target(build=True): the workspace is built under the one tag first.
BuildBaseline ==
  /\ At("build")
  /\ tag' = workspace
  /\ Goto("up")
  /\ AgentFrame /\ UNCHANGED <<workspace, running, silent>>

\* deploy_target: docker compose up runs what the tag names.
Up ==
  /\ At("up")
  /\ running' = tag
  /\ silent' = TRUE
  /\ Goto("verify")
  /\ AgentFrame /\ UNCHANGED <<workspace, tag>>

\* Mutant: the valid login is not looked at.
VerifiedReplayOnly(request, app) ==
  IF request.kind = "promote" THEN ~Exploited(app) ELSE Exploited(app)

\* verify_sqli_fixed and verify_vulnerable_baseline.
Verified(request, app) ==
  /\ ValidLogin(app)
  /\ IF request.kind = "promote" THEN ~Exploited(app) ELSE Exploited(app)

\* wait_ready, then the two logins.
Verify ==
  /\ At("verify")
  /\ Goto(IF Verified(agent.request, running) THEN "success" ELSE "failed")
  /\ AgentFrame /\ UNCHANGED <<images, silent>>

\* What a step that raises, or runs out of time, has done by then: the reset
\* removes the workspace before it copies, the build may have moved the tag,
\* and the last command may have replaced the container.
HalfDone ==
  /\ workspace' \in {workspace} \cup (IF At("reset") THEN {Shipped, "broken"} ELSE {})
  /\ tag' \in {tag} \cup (IF At("build") THEN {workspace} ELSE {})
  /\ running' \in {running} \cup (IF At("up") THEN {tag} ELSE {})
  /\ silent' = (silent \/ At("up"))
  /\ AgentFrame

\* Mutant: a step that raises ends the handler without a result.
StepRaisesUnreported ==
  agent.step \in {"reset", "build", "up", "verify"} /\ Goto("listen") /\ HalfDone

\* Any step may raise; the result says failed.
StepRaises ==
  agent.step \in {"reset", "build", "up", "verify"} /\ Goto("failed") /\ HalfDone

Report ==
  /\ agent.step \in {"success", "failed"} /\ subscribed
  /\ result' = [request |-> agent.request, status |-> agent.step]
  /\ agent' = Listening /\ silent' = FALSE
  /\ UNCHANGED <<loop, images, redis>>

\* publish raises outside of the try statement, and the agent exits.
ReportRaises ==
  /\ agent.step \in {"success", "failed"} /\ ~subscribed
  /\ agent' = Listening
  /\ UNCHANGED <<loop, images, redis, result, silent>>

\* Redis goes away, and what was sent to the agent with it.
Disconnect ==
  /\ subscribed /\ outages < MaxOutages
  /\ outages' = outages + 1
  /\ subscribed' = FALSE /\ inbox' = << >>
  /\ UNCHANGED <<loop, images, rollbacks, agent, result, silent>>

\* restart: unless-stopped.
Reconnect ==
  /\ ~subscribed
  /\ subscribed' = TRUE
  /\ UNCHANGED <<loop, images, inbox, outages, rollbacks, agent, result, silent>>

Agent ==
  Take \/ Reset \/ BuildBaseline \/ Up \/ Verify \/ StepRaises \/ Report \/ ReportRaises

Phases(i) ==
  \/ Attack(i) \/ Apply(i) \/ PatchFails(i) \/ Build(i) \/ BuildFails(i)
  \/ Pass(i) \/ Reject(i) \/ Retry(i) \/ RetryRefused(i)

Next ==
  \/ \E i \in Incidents : Phases(i)
  \/ RequestRollback \/ Agent \/ Disconnect \/ Reconnect

Spec == Init /\ [][Next]_vars

\* The agent works on what it has taken: every command it runs has a timeout.
FairSpec == Spec /\ WF_vars(Agent) /\ WF_vars(Reconnect)

-----------------------------------------------------------------------------
(* Properties *)

\* Types; the workspace is patched by one job at a time, and Phase 2 retries
\* no more often than it may (docker-compose.real.yml, SECURE_CODING_MAX_RETRIES).
TypeOK ==
  /\ phase \in [Incidents -> {"none", "blocked", "queued", "retrying", "building",
                              "validating", "rejected", "promoted", "stopped"}]
  /\ \A i, j \in Incidents :
       {phase[i], phase[j]} \subseteq {"retrying", "building"} => i = j
  /\ retries \in [Incidents -> 0..MaxRetries]
  /\ {workspace, tag, running} \subseteq Applications
  /\ backup \in [Incidents -> Applications]
  /\ candidate \in [Incidents -> Applications] /\ passed \subseteq Applications
  /\ subscribed \in BOOLEAN /\ inbox \in Seq(Requests)
  /\ agent \in [step : {"listen", "reset", "build", "up", "verify", "success", "failed"},
                request : Requests]
  /\ result \in [request : Requests, status : {"none", "success", "failed"}]
  /\ outages \in 0..MaxOutages /\ rollbacks \in 0..MaxRollbacks /\ silent \in BOOLEAN

\* What the agent last reported as a success is what runs, until it changes
\* the target again: after a promotion the replay is refused and users can log
\* in, after a rollback the baseline is there, whatever Phase 2 and the
\* rollback do to the workspace and the tag meanwhile (deploy_agent.py,
\* handle_promote and handle_rollback).
ReportedIsRunning ==
  result.status = "success" /\ ~silent =>
    running = (IF result.request.kind = "promote" THEN "fixed" ELSE "vulnerable")

\* Every request that reaches the agent is answered, also when a step of it
\* fails, unless the agent loses Redis (deploy_agent.py, the except clauses of
\* handle_promote and handle_rollback).
RequestIsAnswered ==
  \A r \in Requests :
    (\E k \in DOMAIN inbox : inbox[k] = r)
      ~> (~subscribed \/ (result.request = r /\ result.status # "none"))

\* Stated in README.md, line 11: only validated images are promoted to
\* production.  The tag that the agent runs may name a later candidate, one
\* that Phase 3 has not seen or has refused.
OnlyValidatedRuns ==
  At("verify") /\ agent.request.kind = "promote" => running \in passed

\* Stated in main.py of the monitor, line 239: "target-app will be rebuilt from
\* the vulnerable baseline".  The workspace may be patched again between the
\* reset and the build.
RollbackRebuildsBaseline ==
  [][At("build") /\ BuildBaseline => tag' = Shipped]_vars

=============================================================================
