# TLA+ models and proofs for ELDEN RING

ELDEN RING is a closed loop of four services that detect an attack, write a patch
for the source it hit, validate the patched image and promote it, with a monitor in
front and a deploy agent behind it.  This directory
holds TLA+ modules translated from those services, the TLC configurations that
check them and TLAPS proofs about them.  The properties concern what tests of
the services hardly reach: interleavings of threads and processes, outages
between two steps, lost updates, redelivered messages, and long sequences of
retries and rollbacks.

## 1. The system

```
 WAF / Falco events                               operators
        |                                             |
 Phase 1 runtime-defense --context--> Phase 2 secure-coding --validate--> Phase 3 recovery-assurance
   (list + Pub/Sub)                        ^                                  |            |
                                           +-------------- retry -------------+         promote
                                           |                                               |
                                           +---------------- retry ---- Phase 4 governance +--> deploy agent
                                                                              |
                                                                    Argo Rollout target-app
 pipeline-monitor listens to every channel and polls Phase 4
```

| Component | State it keeps | Operations | Interacts through |
|---|---|---|---|
| runtime-defense, delivery (`redis_publisher.py`, `main.py`) | client reference, bounded deque, cached status | `publish_context` (thread per event), `drain_memory_backup`, `is_connected` | LPUSH and PUBLISH of contexts |
| runtime-defense, event pipeline (`adapters/`, `normalizer.py`, `cwe_mapping.py`, ...) | the context store, the failed logs | log or manual event to context | calls |
| runtime-defense, defence actions (`defense/`) | counts per IP and endpoint, blocked sets, history, in each replica | `handle_defense` | Kubernetes objects shared by the replicas |
| secure-coding (`service.py`, `apply.py`, `patching.py`, ...) | SQLite rows, artifact files, the workspace file, image tags | accept, process, retry, rollback | list and Pub/Sub in, `elden:phase3:validate` out, HTTP |
| recovery-assurance (`service.py`, `stages.py`, `store.py`) | one JSON file | submit, four stages, rerun, runtime contexts | `validate` in, `elden:phase4:promote` or `elden:phase2:retry` out, HTTP |
| governance (`orchestrator.py`, `rollback_watcher.py`, ...) | `_state`, gauge, breach counter, the shared Rollout | handle a result, approve, rollback, poll the SLO | `promote` in, `retry` out, GitHub, Kubernetes, Prometheus |
| pipeline-monitor, state (`state.py`, `redis_subscriber.py`, `main.py`) | incident records, telemetry of LLM smokes | merge a message, poll, clear, run a smoke | all channels, governance, LLM CLIs, WebSocket |
| pipeline-monitor, logins (`llm_oauth.py`) | login sessions, health of the providers | start, submit a code, cancel, clean up | subprocesses and their threads |
| deploy agent (`scripts/real_e2e/deploy_agent.py`) | the running target, the live workspace | redeploy, roll back to the baseline | `promote`, `elden:demo:rollback`, docker |
| target application (`services/target-app`) | users | log in, report an attack | contexts to Phase 1 |

What is hard, and what each component has to get right:

* **Delivery.** Workers, the drain and the readiness probe share one client
  reference and one deque without a lock while Redis fails under them.  A context
  whose request succeeded must not disappear, the overflow of the backup must not
  cost more than the overflow, order must be kept, and the drain must come back.
* **Secure coding.** Worker and API run jobs at the same time on one workspace
  file; a job can be retried while it runs; every step can fail after the ones
  before it changed rows and files, and a file that is being written can be cut short.
  The workspace must compile, a failed run must take its patch back, what is announced
  must have been rechecked, applied and built, and every accepted job must end.
* **Recovery assurance.** Two processes read and write one whole file under locks
  of their own.  Only what has passed every stage in one run may be promoted, and
  the file must not call a job COMPLETED that was not promoted.
* **Governance.** The orchestrator, the endpoints and the watcher interleave at
  their awaits, and all incidents share one Rollout.  No incident may be forgotten,
  the gauge must not hide one, the watcher must abort on two breaches in a row and
  only then, and a high-risk incident must wait for its own approval.
* **Detection and defence.** Replicas count attacks apart and remember as done what
  Kubernetes may have refused; names of objects collide and may be invalid; rule
  ranges, category names and CWE ids come from three files.  Each replica must
  escalate exactly on what it has counted, and the cluster must defend as long as the
  calls get through.
* **Monitor.** Messages, polls, a rollback and LLM smokes change one set of records;
  it is bounded, and the subscription breaks.  What is shown must be what was said
  last, and a smoke that is called a success must have been one.
* **Logins.** A thread reads and waits for a command while requests submit, cancel and
  forget its session.  The status must be what became of the command, a code must not
  be asked for twice, and a cancelled command must end.
* **Deployment.** One workspace and one tag serve every incident and the rollback.  What
  the agent reports as a success must be what runs, and it must answer every request.

`PROJECT.json` lists every hazard at its line.

## 2. Modules

| Module | Models | Role |
|---|---|---|
| `RedisPublisher` | Phase 1 delivery | detailed specification, properties, mutants |
| `ContextDelivery` | what Phase 1 promises about a context | abstract specification |
| `DeliveryRefinement` | refinement mapping of the two | `INSTANCE ContextDelivery WITH ...` |
| `RedisPublisherProofs` | theorems about `RedisPublisher`, and the refinement step by step | TLAPS |
| `SecureCodingJobs` | Phase 2 jobs | specification, properties, mutants |
| `PatchTransactions` | what Phase 2 promises about the workspace | abstract specification |
| `SecureCodingProofs` | theorems about `SecureCodingJobs` | TLAPS |
| `RecoveryAssurance` | Phase 3 validation jobs | specification, properties, mutants |
| `RecoveryAssuranceProofs` | theorems about `RecoveryAssurance` | TLAPS |
| `Governance` | Phase 4 controller | specification, properties, mutants |
| `GovernanceProofs` | theorems about `Governance` | TLAPS |
| `RuntimeEvents` | Phase 1 from log to context, active defence, its API | specification, properties, mutants |
| `RuntimeEventsProofs` | theorems about `RuntimeEvents` | TLAPS |
| `PipelineMonitor` | the state of the monitor | specification, properties, mutants |
| `PipelineMonitorProofs` | theorems about `PipelineMonitor` | TLAPS |
| `LlmAnswers` | what the monitor makes of the answers of LLM CLIs | operators, used by `PipelineMonitor` |
| `LoginSessions` | LLM login sessions | specification, properties, mutants |
| `LoginSessionsProofs` | theorems about `LoginSessions` | TLAPS |
| `LivePipeline` | the phases around the workspace, the tag and the deploy agent | composition, properties, mutants |
| `LivePipelineProofs` | theorems about `LivePipeline` | TLAPS |
| `MC...` | instances for TLC: tag functions, risks, symmetry | |

A definition introduced by a comment "Mutant: ..." is a plausible bug of the
definition after it.  It is not part of the specification: substituted for that
definition it breaks the property it is listed with, which shows that the property
depends on the code.

### RedisPublisher

`Threads` are one worker per context (`asyncio.to_thread` in `run_pipeline`) and the
event loop.  `client` is `self.client`, `backup` the deque, `dropped` and `wasUp` the
cached values that `/diagnostics` shows.  A Redis command is three steps: the read of
`self.client` (`Send`, where the `AttributeError` of a reference that another thread
has dropped arises), its execution on the server (`ServePush`) and the reply
(`PushOk`, `PublishOk`, `PublishFails`).  `RedisDown` marks the calls in flight as
`doomed`, whether or not the server has executed them.  `_backup_to_memory` is
`CheckFull` and `AppendBackup`, because other threads run in between.  The drain is
`DrainStart`, `Peek`, the shared `_try_publish`, `Pop`; the probe `ProbeStart`,
`ProbeSend`, `ProbeReturns`.  `Restart` is a new process: the deque is gone, the
contexts it held are remembered in the history variable `wiped`.
`queue`, `evictions` and `wiped` are history variables for the properties.

### SecureCodingJobs

A job is named by its event (UNIQUE in the store).  The content of a file is the set
of patches in it: `Generate` reads a content, and the patch it creates adds itself.
This keeps exactly what drift, backups and rollbacks are about, and nothing of the
text.  The LLM chooses the kind of code (`Kinds`): with a marker the recheck accepts,
without one, or one that does not compile.

Every access that another thread can observe is an action.  `run_patch` is `Generate`
(the LLM and `original_src`), `WritePatched`, `SavePatch`; `run_apply` is `CheckDrift`,
`OpenBackup`, `WriteBackup`, `OpenWorkspace`, `WriteWorkspace`, `RecordApply`, because
`write_text` empties a file before it fills it, and `Cut` is the empty file in between;
`run_build` is `Build` or `BuildFails`, which may have moved the tag, and `RecordBuild`;
`rollback_apply` is `Restore`, `WriteWorkspace`, `RecordRestore`.  `Publish` puts the
message on record (`recorded`) and leaves open whether it is delivered (`published`),
since `messaging.py` swallows the failure of Redis.  `Retry` takes any known patch as the
failed one, of this job or another.

`Raise` is an exception of any of these accesses.  Inside `process_job` it leads to the
except clause, which rolls back only when `run_apply` has returned and set
`applied_patch_id` (`AppliedPoints`); what the rollback itself raises is swallowed.
Outside of it (`CallerPoints`) the caller gets it.  `Crash` is the death of the process
at any point.  `TagOf` is the tag of the candidate image: `FixedTag`, as
`docker-compose.real.yml` sets it, for every run.

### RecoveryAssurance

`file` is `phase3-store.json`.  An update of the store is `ReadStore`, which copies the
whole file, and the action that writes its copy back with a change; `ProcessOf` gives
the process whose lock `ReadStore` takes, so that two threads of one process exclude
each other and two processes do not.  `TornRead` is a read of the other process while
`write_text` has truncated the file.  A process that dies inside that write (`Crash`)
leaves the file `Torn`, and every later read of it raises.  An exception inside the try
block of `process_validation` leads to `Except`, anywhere else to the end of the request.
`MarkRunning` follows its two reads of the store: a job that only the first one finds is
a `KeyError`.  `Send` is `publish` with a `REDIS_URL`, as every deployment has one;
without it the message is only saved.

### Governance

`handler` says where the coroutine of the orchestrator is suspended: on the
subscription (`listening`), in the sleep of 30 s (`settling`), in its publish
(`retrying`).  Everything between two awaits is one action.  `held` stands for what
`_set_pause(paused=False)` is meant to end and is set again by the environment
(`RolloutPauses`): Argo Rollouts is not part of the repository, and the model takes
the view of the controller, on which `approve` rests, that the patch of `spec.paused`
releases the Rollout.  `slo` is the answer of Prometheus.  `RiskOf` is the answer of
the risk classifier.  A promotion message that Pub/Sub loses, or that comes after
`listen()` has raised and ended the task, is one that is never taken.

### RuntimeEvents

One request is one action: the functions of `defense/` are `async` and never suspend,
so that nothing runs between the count and the record of an attack; the delivery that
follows is `RedisPublisher`.  What interleaves are the replicas, over the objects in
the cluster.  `filters`, `denied` and `aborts` are EnvoyFilters, AuthorizationPolicies
and VirtualServices; a name that exists is a conflict, which the code swallows with
every other failure.  `configured` is the client library of a process: only
`/diagnostics` (`main.py:293`) loads the in-cluster configuration, and until then no
call of the process reaches an API server.  Logs, rules, tags and priorities go
through `ParseModsec` and `ParseFalco` by the tables of the code; `Verdict` says which
exception ends a log that does not parse.  `severeIps`, `criticalEndpoints` and
`online` are history variables.

### PipelineMonitor and LlmAnswers

Everything runs on one event loop, and an action is what happens between two awaits.
`stage` is the `phase4_stage` of the records in `PipelineState.incidents`, and `older` the
order of their `last_at`, which is all that eviction and `snapshot_incidents` need of
the times.  `Renew` makes some records the most recent ones, and `MakeRoom` are the
choices of records that go for a new one.  `published`, `governance` and
`retries` stand for the phases and are external: they speak about an incident in the
order in which the phases work, as governance on Kubernetes or as the deploy agent.
A rollback clears the records after its message is published: the answer of the deploy
agent may come before that or after.  A payload that is no JSON object ends the
subscription loop like a disconnect, and with the same retry.
`inbox` and `subscribed` are the subscription, `task` the LLM smokes, each with the
steps of `simulate_llm_secure_coding`.  How a half of a smoke ends is not left open:
`LlmAnswers!Outcome` is translated from `llm_oauth.py`, and `Smokes` are all outcomes of
all answers over the objects `Payloads`.  `Answered` is an independent statement of
when an answer counts, which the property `SuccessIsProven` uses.

### LoginSessions

`runner` is the position of the thread in `_run_login_session`, `child` the command,
`pipe` what it has printed and the thread has not read.  The endpoints call blocking
functions in coroutines, so that at most one `request` is in progress, and its steps
are the sections under `_LOGIN_LOCK` and the looks at the command outside of it;
`request.attached` is whether the command could be seen when the request looked it up.
Anything after the start may raise (`StepRaises`), the search for the listener in `/proc`
for one, and `except Exception` calls that a failure (`ReportError`) while the command
runs on or has ended; `StatusTruthful` therefore says of a failed session that its command
exited with an error *or* its thread has raised.  A command that has exited has closed its
output: no process it started is taken to keep it open.
One session is followed: sessions share nothing but the dictionary, of which the
clean-up by any other login is the action `OtherLogin`, and the event loop.

### LivePipeline

The composition of `docker-compose.real.yml`.  An application is one of three: what the
probes and the replay of the agent can tell apart.  The phases appear by what they do to
`workspace`, `tag` and the messages; `Retry` takes back the failed patch as
`_prepare_retry` does, and the worker does one thing at a time (`AtWork`).  The steps of
the agent are those of `handle_promote` and `handle_rollback`; each of them may raise
(`StepRaises`) and be half done (`HalfDone`): a workspace that was removed and not copied
again, a tag that the build has moved, a container that was replaced.  The publication of
the result is outside of the try statement (`ReportRaises`).

## 3. Runs

Every `cfg` lists its bounds.  A bound that limits the environment (`MaxOutages`,
`MaxRestarts`, `MaxCrashes`, `MaxFaults`, `MaxRetries`, `Deliveries`, `MaxRequests`, `MaxChanges`,
`MaxPending`, `MaxBegun`, `MaxLines`, `MaxRollbacks`, the sizes of `Patches` and `Jobs`)
appears in the guard of the actions it bounds.

| Run | Module, configuration | Shows |
|---|---|---|
| `publisher_safety` | `MCRedisPublisher`, `RedisPublisherSafety.cfg` | 3 workers, capacity 2, one outage, one restart: no loss before an overflow, at most one per eviction, FIFO |
| `publisher_delivery` | `MCDeliveryRefinement`, `DeliveryRefinement.cfg` | 2 workers, capacity 1, two outages, one restart: `RedisPublisher` implements `ContextDelivery`; what is buffered gets queued |
| `secure_worker` | `MCSecureCodingJobs`, `SecureCodingWorker.cfg` | one worker, 2 jobs, 3 patches of all kinds, one retry each, one fault at any step: what holds when nothing else runs, and that the worker implements `PatchTransactions` |
| `secure_concurrent` | `MCSecureCodingJobs`, `SecureCodingConcurrent.cfg` | worker and API on one job, delivered twice and retried while it runs, one fault: what holds although files and rows are shared, and every accepted job ends unless its process dies |
| `secure_rollback` | `MCSecureCodingJobs`, `RolledBackStaysOut.cfg` | violated: one job, one worker, two retries, no fault: a rollback restores a backup that contains the patch it takes back |
| `recovery_processes` | `MCRecoveryAssurance`, `RecoveryProcesses.cfg` | worker and API on one file, 2 jobs, 2 stages, reruns, a crash: promotions and retries are truthful |
| `governance` | `MCGovernance`, `Governance.cfg` | a low- and a high-risk incident, each delivered twice, two changes of the SLO, a restart |
| `runtime_events` | `MCRuntimeEvents`, `RuntimeEvents.cfg` | 2 replicas, 3 requests of 11 kinds with 4 headers, failing calls, a restart: exact escalation, defence in force, the right CWE |
| `login_sessions` | `MCLoginSessions`, `LoginSessions.cfg` | a session of either CLI, 3 lines, a restart: truthful status, no second prompt, cancellation ends the command |
| `monitor` | `MCPipelineMonitor`, `PipelineMonitor.cfg` | an incident with a retry, 2 overlapping smokes, a rollback, room for 2 records, an outage: the latest is shown, success is proven, the monitor catches up |
| `pipeline` | `MCLivePipeline`, `LivePipeline.cfg` | 2 incidents with a retry each, a rollback, an outage of Redis: what is reported runs, every request is answered |
| `governance_shared` | `MCGovernance`, `HighRiskWaitsForApproval.cfg` | violated: approving one incident releases the Rollout that another holds |

Why the bounds are enough: a capacity below the number of workers makes the backup
overflow under the drain; two threads suffice for every check-then-act race in the
code, since each of them is between two accesses of one thread and one access of
another, and the third worker of `publisher_safety` provides the overflow; three
patches give two jobs a first run each and one of them a second; the two patches of
`secure_concurrent` are those of a run and of the retry that overlaps it; one fault may
come at any step, and the theorems do not limit their number; two stages have a
first, a last, an earlier and a later one, and the code treats all four alike; two
incidents, one that waits for approval and one that does not, are the classes
`resume_if_allowed` tells apart (medium is handled like low).
In `runtime_events` three requests reach an IP threshold of 2 and an endpoint threshold of
3 and one request beyond the first, and the logs have each boundary of a rule range,
each exception and each kind of name.  In `monitor` an incident, a smoke and a rollback
exceed the room for two records, and two smokes overlap.  In `login_sessions` the three
lines are a prompt before, during and after a submission.  In `pipeline` two incidents
and one rollback give the agent two requests while a third changes the workspace.

`secure_worker`, `secure_concurrent`, `recovery_processes`, `runtime_events`,
`login_sessions`, `monitor` and `pipeline` do not check deadlock: when the bounded
requests, messages and incidents are used up these services wait for input. The other
systems never stop, since the environment, the watcher or new retries can always act.

### Fairness

* `RedisPublisher!FairSpec`: threads are scheduled (weak fairness of each worker and of
  the loop), an outage ends, and `DrainStart` is strongly fair: `_drain_loop` sleeps a
  fixed time, and asyncio serves ready callbacks in order, so requests to the probe
  can delay the drain and cannot starve it.
* `SecureCodingJobs!FairSpec`: a thread that has taken a request is scheduled until it
  ends (weak fairness of `Run`); the LLM call has a timeout and the build command is
  assumed to end.  Nothing has to raise, die or be retried.
* `Governance!FairSpec`: the watcher's loop never ends (weak fairness of `Tick`), and
  Kubernetes does not refuse every abort (strong fairness of `TickAborts`).
* `LoginSessions!FairSpec`: threads are scheduled and a request in progress is worked on;
  the commands may hang, and `ExitIsReported` speaks of those that exited and of threads
  that raised.  What raises is left open (weak fairness of `Proceed`, without `StepRaises`).
* `PipelineMonitor!FairSpec`: tasks of the event loop run and LLM commands end (`_run` has a
  timeout); Redis accepts a subscription sooner or later, since `run` tries again for ever.
* `LivePipeline!FairSpec`: the agent works on what it has taken (its commands have
  timeouts), and docker starts it again (`restart: unless-stopped`).

The safety properties assume no fairness.

### Where code and documentation disagree

1. A job has one backup file, which every attempt overwrites, and `rollback_apply`
   restores it without looking at the workspace (`apply.py:55-56`, `apply.py:106`): a
   retry that rolls back the patch of an earlier attempt restores a workspace that
   contains it, against "Failed to rollback failed patch before retry"
   (`service.py:179`).
2. Incidents share one Rollout, and `approve` releases it for any incident the
   orchestrator knows (`main.py:62`), against "high: paused -> /incidents/{id}/approve"
   (`docs/phase4-governance-guide.md:60`).  In the run the approved incident is a low-risk
   one whose pull request had failed; `resume_if_allowed` (`orchestrator.py:122`) writes
   the same field.

### Further configurations

These refute statements of documents, comments or messages, too, and are kept to be run
by hand (`SecureCodingRefuted.cfg` checks one of its four statements, the others are in its
comment):

| Configuration (module) | Statement | What happens |
|---|---|---|
| `ReadinessAlwaysAnswers.cfg` (`MCRedisPublisher`) | `/readyz` "Always returns 200" (`main.py:265`) | the probe meets the same dropped reference |
| `FailedPublishIsBuffered.cfg` (`MCRedisPublisher`) | "events are buffered to an in-memory backup and drained when Redis recovers" (`main.py:266`) | `publish_context` ends in an `AttributeError` that skips the backup (`redis_publisher.py:76`) |
| `SecureCodingRefuted.cfg` (`MCSecureCodingJobs`), `RetriesBounded` | "Retry limit exceeded" (`service.py:168`) | two threads count the retries before either writes its own |
| the same, `AppliedWasRechecked` | "Patch must pass recheck before apply" (`apply.py:37`) | an overlapping retry overwrites `patched_src` between the recheck and the apply |
| the same, `FailedRunLeavesNoPatch` | a failed apply is rolled back (`config.py:26`) | what raises between the write to the workspace and the return of `run_apply` rolls nothing back |
| the same, `CompletedWasPublished` | `current_step="publish_validate"` (`service.py:129`) | the failure of the publish is swallowed (`messaging.py:28-35`) |
| `LaterStagesNotRun.cfg` (`MCRecoveryAssurance`) | later stages stay `not_run` (recovery-assurance `README.md:69`) | a rerun keeps the stage results of the run before it |
| `RolledBackIsNotResumed.cfg` (`MCGovernance`) | "force rollback" (guide, line 76) | the orchestrator resumes after its sleep |
| `BlockedAtThreshold.cfg` (`MCRuntimeEvents`) | "IP Block (>=3 attacks" (`manager.py:5`) | attacks spread over replicas are counted apart |
| `BlockedIsDenied.cfg` (`MCRuntimeEvents`) | `blocked_ips` (`manager.py:88`) | a call that failed, or a client without an address, is recorded as done |
| `DisabledIsAborted.cfg` (`MCRuntimeEvents`) | "returns 503 for a specific endpoint" (`endpoint_disabler.py:14`) | the second method of a path is a name conflict |
| `CancelledIsTerminated.cfg` (`MCLoginSessions`) | "Terminate a running OAuth login subprocess." (`llm_oauth.py:352`) | a session is cancelled before its command is attached |
| `NoOrphanAfterRestart.cfg` (`MCLoginSessions`) | a redeploy carries over no orphans (`llm_oauth.py:391`) | the dictionary is empty when the clean-up at startup reads it |
| `SessionsEnd.cfg` (`MCLoginSessions`) | "OAuth login timed out after 300 seconds." (`llm_oauth.py:649`) | the output is read without a limit before that wait |
| `AccessIsProven.cfg` (`MCPipelineMonitor`) | `llm_access` is `ok` only after a whole smoke (`LLM_OAUTH.md:15`) | its first half marks it |
| `TelemetryEnds.cfg` (`MCPipelineMonitor`) | "idle, running, success, failure" (monitor `main.py:53`) | an exception other than `LlmOAuthError` leaves it running |
| `RejectionIsShown.cfg` (`MCPipelineMonitor`) | a retry is shown as rejected (`state.py:176`) | the next poll shows the stage of the failed promotion |
| `OnlyValidatedRuns.cfg` (`MCLivePipeline`) | only validated images are promoted (`README.md:11`) | the tag names a later candidate |
| `RollbackRebuildsBaseline.cfg` (`MCLivePipeline`) | "rebuilt from the vulnerable baseline" (monitor `main.py:239`) | a job patches the workspace between reset and build |

## 4. Proofs

TLAPS checks the following for every value of the constants that the `ASSUME` of the
module admits; TLC evaluates these assumptions in the runs.

**RedisPublisherProofs**, from `PublisherAssumption` (finitely many contexts, a
positive capacity).  `IInv` is `TypeOK` and five conjuncts.  `LoopHolds` and
`SentIsQueued` tie the program points to what is held and queued; `BackedUpOnce` says
that no context is in the deque twice, without which an eviction could cost the copy
of another one; `HeadFromBackup` says that the held context is leftmost or gone, so
that `popleft` removes it and nothing else unless it was evicted; `KeptUnlessEvicted`
carries the absence of loss before the first eviction.  Theorems: `TypeCorrect`,
`NoLoss`, `DrainIsFifo`, `PopIsPaidFor`, and `LossBounded`.  The last needs its own
strengthening `LossPaid`: the number of lost contexts plus one, if the held context
has been evicted and may still be paid for by a pop, is at most the number of evictions.

`Implementation` is the refinement of `ContextDelivery`, step by step.  `Fates` says
that a new context has gone nowhere yet and that what died with a process does not
come back; `StatusKept` that a step that moves no context between the deque, the queue
and the losses keeps every status, so that it is a stutter; what remains are the acceptance of a context, its
arrival in the queue, its storage, the eviction that comes with it, the pop and the
restart.  `LossPaid` is needed again: the abstract delivery loses a context only
against an eviction, and the pop of an unsent context is the step that owes one.

**RecoveryAssuranceProofs**, from `RecoveryAssumption`, for any number of threads
distributed over processes in any way. The lost updates are what makes `COMPLETED`
delicate: `IInv` contains `AllHonest`, which says that neither the file, unless it is
torn, nor any copy of it that a thread may still write back calls a job COMPLETED before
its promotion was sent. `RunSoFar` relates the results of a running validation to its
position, from which `PromotedOnlyIfPassed` and `RetryNamesFirstFailure` follow.

**GovernanceProofs**, from `GovernanceAssumption`.  `GaugeBound` with the strengthening
`SettlingIsOpen`: the incident being handled is counted and is not one of those
waiting for approval, so that a decrement takes away its own increment.  `TypeCorrect`
uses the same invariant, because the gauge is a natural number only if no decrement
comes without its increment.  `OutcomeHolds` needs that an orchestrator that listens
has no incident at hand (`OutcomeInv`), and `TwoBreaches` that a breach that is counted
was the last thing measured (`BreachWasMeasured`).

**RuntimeEventsProofs**, from `EventsAssumption`, which says of the raw logs and of the
bodies posted to the API only that their IP and endpoint are among those the runs
enumerate.  `Steps` reduces every request to a refusal or to one `handle_defense` with
the calls that were lost.  `DefenceInForce` compares the counts of one replica with a
cluster that all of them write to; it is inductive because the cluster only grows
(`ClusterStep`), so that a conflict with an object of another replica leaves in force
what the swallowed call was for.  `CweHolds` goes
through the tables: `LogCwe` compares the category that the first matching rule range
gives, and the CWE of that category in `CweMap`, with the CWE of the rule, for a log
with any number of messages.  Theorems: `TypeCorrect`, `EscalationHolds`,
`DefenceHolds`, `CweHolds`.

**SecureCodingProofs**, from `JobsAssumption`, for any number of threads, jobs, retries,
errors and crashes.  The invariants build on each other:

* `PInv`: `ThreadHolds` says what the place of a thread tells of the row of its patch; it
  survives the other threads because no two runs have the same patch (`OwnPatch`), while
  a retry may roll back the patch of a run that is still going on, and then touches only
  what `change_summary` says of it.  `RowMoves` is all that a step does to the rows, and
  the argument about the other threads rests on it alone.  `Lists` says that what is built
  or recorded has a row.  `CompletedHolds` follows.
* `FInv`: until the drift check a run depends on the files of its job.  `Sole` says that
  no second thread is there for the same job unless the job was retried, because the
  UNIQUE `event_id` lets one creation through; `FilesHold` what these files then hold.
  `FirstRunWrites` follows.
* `TInv`: the types, for which the patched file has to be there from its writing to the
  apply (`PatchedThere`).  `TypeCorrect` follows.

Three properties hold only while one thread works on the workspace, and their theorems
say so: `OneThread => (Spec => ...)`, the deployment with the worker alone.  `SInv` adds
`FilesSound`, that the workspace, every backup and the content of every run compile and
are made of patches that the store knows, and `Solo`, which says what *exactly* is in the
files of the run at each place of the worker: `patched_src` is `original_src` with one
patch more, the content to be written the workspace with one more, and the workspace then
the backup with one more, although these files are named by the job and every attempt
overwrites those of the one before.  Without the hypothesis another thread restores its
own backup in between.

`TransactsAlone` is the refinement of `PatchTransactions` by the worker alone.  `live` and
`before` are the workspace and the backups as they are when no `write_text` is under way
(`WorkspaceToBe`, `BackupToBe`); `open` is `Undecided`, the patch of a run from the
opening of the workspace to its end or rollback; `image`, `announced` and `broken` are the
registry, the delivered announcements and the number of faults.  The abstract worker
installs exactly one patch, makes and announces an image of exactly the workspace, or
takes exactly its patch out.  `Fault` is the only abstract step that leaves a run half
done or a file empty, and it needs a `Raise` or a `Crash` of the code: that an error after
the write of `run_apply` leaves the patch is thus stated, not excluded.  `Revert` is as
wide as the code: a retry takes its job back to before the job's last installation and
other patches with it, which is the first disagreement of section 3.  The lemmas
`WorkspaceIs`, `BackupIs` and `UndecidedIs` evaluate the mapping at the place of the
worker, and each kind of step has one of its own (`BackupRemembers`, `WriteInstalls`,
`BuildTransacts`, `RestoreTransacts`, `FaultBreaks`, `QuietTransacts`).
Theorems: `CompletedHolds`, `FirstRunWrites`, `TypeCorrect`; `CompilesAlone`,
`ImageHoldsAlone`, `TransactsAlone`.

**LivePipelineProofs**, from `LiveAssumption`, for any number of incidents, rollbacks
and outages.  `IInv` is `TypeOK`, `SuccessIsVerified` (an agent about to report a
success has looked at the container, and nobody else replaces it) and
`ReportedIsRunning`.  Phase 2 and the rollback may do anything to the workspace and to
the tag while the agent works; the proof needs nothing of them, which is the point of
probing the container instead of trusting the tag.  Theorems: `TypeCorrect`,
`ResultHolds`.

**PipelineMonitorProofs**, from `MonitorAssumption`, for any number of incidents, smokes,
retries and outages and any bound on the records.  `LastWord` says that of the messages
about an incident in the inbox the last one is the last there was, unless a later one
was lost; with it `StagesSaid` is inductive, although a poll and a message overwrite
each other.  `RecordInv` carries the bound and the order of the records: dropping
`LeastRecent` makes room for exactly one, which needs that a finite set that time orders
has a least recent member (`LeastRecentExists`).  The same lemma gives `RoomIsMade`,
which no run checks: `MakeRoom` always offers a choice, so that the handler of messages is
never disabled by a full dictionary.  `SmokeInv` is a separate invariant about the smokes:
what the place of one tells of the halves the CLI has answered, and that a telemetry that
says success names a smoke whose provider can no longer change, whichever other smoke
overwrote it.  It rests on `OkIsAnswered`, about the operators of `LlmAnswers`: an outcome
`ok` is an answer of the CLI that has all that was asked for.  Theorems: `TypeCorrect`,
`LatestHolds`, `SuccessHolds`, `RoomIsMade`.

**LoginSessionsProofs**, from `LoginAssumption`, for any number of sessions, lines and
restarts.  `Points` says what the place of a thread tells of its command; `RequestSees`
what the request in progress, which looked earlier, may still rely on; `StartIsOpen`
that a session whose command is not started has not failed.  With the lemma
`ChildStays` (an exited command stays as it is, whoever acts) they carry every other
property through the steps of the threads, the commands and the requests.  Theorems:
`TypeCorrect`, `StatusHolds`, `NoSecondPrompt`, `CancelEnds`.

**Only model-checked.**  The liveness properties (`BufferedEventuallyQueued`,
`AcceptedJobEnds`, `SustainedBreachAborts`, `CatchesUp`, `RequestIsAnswered`,
`ExitIsReported`), which the prover does not handle under fairness.  Every invariant,
action property and refinement that a passing run checks is a theorem, those of one
worker under `OneThread`.  Conversely `RoomIsMade` is proved and no run checks it.

## 5. Not modelled

* The content of events, contexts, prompts, patches and manifests; parsing and
  formatting, where no decision rests on it; metrics other than the gauge and the
  counter of dropped contexts.
* LLM and build commands: nondeterministic choices of their outcome.  With them the
  analysis, strategy and prompts of Phase 2 and the heuristics of the LLM validation of
  Phase 3, which only match strings.
* Phase 2: `original_src` and `patched_src` are written whole, and a write that was cut
  short leaves an empty file, never the beginning of a longer one.  The rows of a job are
  a set: which of them `GET .../result` reads first (`storage.py:260`) is left out.
* The internal single-step endpoints of Phases 2 and 3, which call one stage outside of
  a job and are not used by the pipeline.
* Phase 1: the endpoints that only read.  `GET /api/v1/contexts/latest` is among them;
  its route is declared after `/contexts/{context_id}` and is shadowed by it.  The
  logs, the metrics and the window of the throughput.
* The monitor: its statistics, the deque of recent events, the WebSocket clients and
  the pages that only ask the target.
* Phase 4: the classifier, the manifests and the calls to GitHub; an incident's risk is
  a constant, and a failing call an action.
* The environment's reaction to what the controllers write: Argo, Kyverno, Istio.
* The target application beyond its login and the answers the probes tell apart; the
  demo, load-test and observation scripts, and the Kubernetes and CI configuration,
  except for the facts named above.

## 6. Plan

1. **Done:** delivery of contexts and Phase 2 jobs, each with an abstract specification that
   it refines; Phase 3; Phase 4; the event pipeline, defence and API of Phase 1; the
   monitor's state and its login sessions; the loop of the phases with the workspace,
   the shared tag and the deploy agent.  All of them have proofs.
2. Abstract specifications of further components, refined by the detailed ones: what
   Phase 3 promises about a job, what the watcher promises about a release.
3. Pure algorithms as operators with reference definitions: policy gate, risk
   classifier, payload normalisation, patch target regions.
