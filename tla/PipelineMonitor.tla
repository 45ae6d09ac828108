-------------------------- MODULE PipelineMonitor ---------------------------
(***************************************************************************)
(* The pipeline monitor, services/pipeline-monitor/src: its state, which   *)
(* the subscriber, the poller of governance, the rollback of the demo and  *)
(* LLM smokes change.                                                      *)
(*                                                                         *)
(* All of it runs on one event loop; its coroutines interleave where they  *)
(* await: at messages, requests, sleeps and threads.  Broadcasts change    *)
(* nothing but the set of clients, and lose no message of the subscriber.  *)
(* What the phases publish comes from outside, in the order in which they  *)
(* work.                                                                   *)
(***************************************************************************)
EXTENDS Naturals, Sequences, FiniteSets, LlmAnswers

CONSTANTS
  Incidents,       \* event ids of the pipeline
  Smoked,          \* event ids that LLM smokes make up, one for each smoke
  RollbackId,      \* request id of a rollback
  NoId,
  MAX_INCIDENTS,   \* 200 in the code
  MaxBegun,        \* bound: incidents and smokes that are begun
  MaxRetries,      \* bound: how often an incident is sent back
  MaxPending,      \* bound: messages the monitor has not handled
  MaxOutages       \* bound: how often the subscription breaks

ASSUME MonitorAssumption ==
  /\ IsFiniteSet(Incidents) /\ IsFiniteSet(Smoked) /\ Incidents \cap Smoked = {}
  /\ RollbackId \notin Incidents \cup Smoked
  /\ NoId \notin Incidents \cup Smoked \cup {RollbackId}
  /\ MAX_INCIDENTS \in Nat \ {0}
  /\ MaxBegun \in Nat /\ MaxRetries \in Nat /\ MaxPending \in Nat /\ MaxOutages \in Nat

VARIABLES
  published,    \* last message about each incident
  retries,      \* how often each was sent back
  governance,   \* its stage of each incident
  subscribed,   \* the subscription of the monitor
  inbox,        \* messages it has not handled
  outages,
  stage,        \* phase4_stage of the records in PipelineState.incidents
  older,        \* their order by last_at
  task,         \* where each smoke is, and with which provider
  rollback,     \* the request for a rollback
  telemetry,    \* LLM_TELEMETRY
  health,       \* _PROVIDER_HEALTH
  missed,       \* history: incidents whose last message was lost
  handled,      \* history: ids of messages handled since the last clear
  proved        \* history: halves of each smoke that the CLI has answered

phases == <<published, retries, governance>>
redis == <<subscribed, inbox, outages, missed>>
records == <<stage, older>>
smokes == <<telemetry, health, proved>>
vars == <<phases, redis, records, task, rollback, smokes, handled>>

Ids == Incidents \cup Smoked \cup {RollbackId}

-----------------------------------------------------------------------------
(* PipelineState *)

Channels == {"context", "validate", "promote", "deployed", "retry"}

\* good: the context requires a patch, the deployment was a success.
Message(channel, id, good) == [channel |-> channel, id |-> id, good |-> good]

Messages == [channel : Channels, id : Ids, good : BOOLEAN]

\* _merge_into_incident, what the channel makes of the stage.
StageOf(m) ==
  CASE m.channel = "context"  -> IF m.good THEN "phase1_done" ELSE "blocked"
    [] m.channel = "validate" -> "phase2_done"
    [] m.channel = "promote"  -> "phase3_done"
    [] m.channel = "deployed" -> IF m.good THEN "deployed" ELSE "deploy_failed"
    [] m.channel = "retry"    -> "rejected"

MessageStages == {"phase1_done", "blocked", "phase2_done", "phase3_done",
                  "deployed", "deploy_failed", "rejected"}
GovernanceStages == {"policy_check", "git_pr", "canary_analysis", "manual_approval", "completed"}

Shown == {i \in Ids : stage[i] # "none"}

\* The orders of a set by time.
Orders(ids) ==
  {order \in SUBSET (ids \X ids) :
     /\ \A i \in ids : <<i, i>> \notin order
     /\ \A i, j \in ids : i # j => <<i, j>> \in order \/ <<j, i>> \in order
     /\ \A i, j, k \in ids : <<i, j>> \in order /\ <<j, k>> \in order => <<i, k>> \in order}

\* last_at of the records of some ids is set, one after the other; others are
\* removed.
Renew(ids, gone) ==
  LET rest == Shown \ (ids \cup gone)
  IN  \E order \in Orders(ids) :
        older' = (older \cap (rest \X rest)) \cup (rest \X ids) \cup order

LeastRecent == {i \in Shown : \A j \in Shown \ {i} : <<i, j>> \in older}

\* Mutant: room is made for one more than the bound.
MakeRoomLate(id) ==
  IF id \notin Shown /\ Cardinality(Shown) > MAX_INCIDENTS
  THEN {{i} : i \in LeastRecent} ELSE {{}}

\* _merge_into_incident: for an id it does not know, the least recent record
\* goes once there are MAX_INCIDENTS.
MakeRoom(id) ==
  IF id \notin Shown /\ Cardinality(Shown) >= MAX_INCIDENTS
  THEN {{i} : i \in LeastRecent} ELSE {{}}

\* Mutant: a retry leaves the stage of an incident that is shown.
MergeRetryOnly(m, gone) ==
  /\ stage' = [i \in Ids |-> IF i = m.id
                              THEN IF m.channel = "retry" /\ i \in Shown THEN stage[i] ELSE StageOf(m)
                              ELSE IF i \in gone THEN "none" ELSE stage[i]]
  /\ Renew({m.id}, gone)

\* The rest of _merge_into_incident.
Merge(m, gone) ==
  /\ stage' = [i \in Ids |-> IF i = m.id THEN StageOf(m) ELSE IF i \in gone THEN "none" ELSE stage[i]]
  /\ Renew({m.id}, gone)

\* push_event; the record is the most recent then.
PushEvent(m) ==
  /\ \E gone \in MakeRoom(m.id) : Merge(m, gone)
  /\ handled' = handled \cup {m.id}

-----------------------------------------------------------------------------
(* The subscriber: RedisSubscriber.run and _on_message *)

Idle == [step |-> "none", provider |-> "none"]

Init ==
  /\ published = [i \in Incidents |-> Message("none", i, FALSE)]
  /\ retries = [i \in Incidents |-> 0]
  /\ governance = [i \in Incidents |-> "none"]
  /\ subscribed = FALSE /\ inbox = << >> /\ outages = 0 /\ missed = {}
  /\ stage = [i \in Ids |-> "none"] /\ older = {} /\ handled = {}
  /\ task = [s \in Smoked |-> Idle]
  /\ rollback = "none"
  /\ telemetry = [status |-> "idle", provider |-> "none", incident |-> NoId]
  /\ health = [p \in Providers |-> "unknown"]
  /\ proved = [s \in Smoked |-> {}]

Handle ==
  /\ inbox # << >>
  /\ PushEvent(Head(inbox))
  /\ inbox' = Tail(inbox)
  /\ UNCHANGED <<phases, subscribed, outages, missed, task, rollback, smokes>>

\* The connection breaks, or a payload that is no object raises in push_event
\* (such a message names no incident): what was not read is lost.
Disconnect ==
  /\ subscribed /\ outages < MaxOutages
  /\ outages' = outages + 1
  /\ subscribed' = FALSE /\ inbox' = << >>
  /\ missed' = missed \cup {inbox[k].id : k \in DOMAIN inbox}
  /\ UNCHANGED <<phases, records, task, rollback, smokes, handled>>

\* Mutant: the loop ends with its first connection.
SubscribeOnce ==
  /\ ~subscribed /\ outages = 0
  /\ subscribed' = TRUE
  /\ UNCHANGED <<phases, inbox, outages, missed, records, task, rollback, smokes, handled>>

\* First of all, and after each backoff.
Subscribe ==
  /\ ~subscribed
  /\ subscribed' = TRUE
  /\ UNCHANGED <<phases, inbox, outages, missed, records, task, rollback, smokes, handled>>

-----------------------------------------------------------------------------
(* What the phases publish *)

\* Phase 4 is governance on Kubernetes, and the deploy agent under compose.
\* The first of them to act is the one there is.
Controlled == \A i \in Incidents : published[i].channel # "deployed"
AgentRuns == \A i \in Incidents : governance[i] = "none"

\* What a message about i can be, after the one before.
NextMessages(i) ==
  LET m == published[i]
      to(channel) == {Message(channel, i, TRUE)}
      either(channel) == {Message(channel, i, good) : good \in BOOLEAN}
      retry == IF retries[i] < MaxRetries THEN to("retry") ELSE {}
  IN  CASE m.channel = "none" -> either("context")
        [] m.channel = "context" -> IF m.good THEN to("validate") ELSE {}
        [] m.channel = "validate" -> to("promote") \cup retry
        [] m.channel = "promote" ->
             (IF AgentRuns THEN either("deployed") ELSE {})
               \cup (IF governance[i] = "git_pr" THEN retry ELSE {})
        [] m.channel = "retry" -> to("validate")
        [] OTHER -> {}

MayBegin ==
  Cardinality({i \in Incidents : published[i].channel # "none"}
                \cup {s \in Smoked : task[s] # Idle}) < MaxBegun

Deliver(m) ==
  /\ Len(inbox) < MaxPending
  /\ inbox' = IF subscribed THEN Append(inbox, m) ELSE inbox
  /\ missed' = IF subscribed THEN missed \ {m.id} ELSE missed \cup {m.id}

Publish(i) ==
  \E m \in NextMessages(i) :
    /\ m.channel = "context" => MayBegin
    /\ Deliver(m)
    /\ published' = [published EXCEPT ![i] = m]
    /\ retries' = [retries EXCEPT ![i] = IF m.channel = "retry" THEN @ + 1 ELSE @]
    /\ UNCHANGED <<governance, subscribed, outages, records, task, rollback, smokes, handled>>

\* Governance takes the promotion up: the pull request fails or is opened.
\* Then it decides, or the Rollout cannot be resumed, or it has sent the
\* incident back and the next pull request fails.
Govern(i) ==
  /\ Controlled /\ rollback \notin {"answered", "done"} /\ published[i].channel = "promote"
  /\ \/ governance[i] = "none" /\ governance' \in
          {[governance EXCEPT ![i] = s] : s \in {"policy_check", "git_pr"}}
     \/ governance[i] = "git_pr" /\ governance' \in
          {[governance EXCEPT ![i] = s] : s \in {"canary_analysis", "manual_approval", "completed"}
                                             \cup (IF retries[i] > 0 THEN {"policy_check"} ELSE {})}
  /\ UNCHANGED <<published, retries, redis, records, task, rollback, smokes, handled>>

-----------------------------------------------------------------------------
(* The poller and the rollback *)

\* update_phase4 with the answer of governance: the records that differ have
\* it, and are the most recent ones.
Poll ==
  LET polled == {i \in Incidents \cap Shown : governance[i] \notin {"none", stage[i]}}
  IN  /\ polled # {}
      /\ stage' = [i \in Ids |-> IF i \in polled THEN governance[i] ELSE stage[i]]
      /\ Renew(polled, {})
      /\ UNCHANGED <<phases, redis, task, rollback, smokes, handled>>

\* rollback_demo: a thread publishes the request, and then the event loop
\* clears the state; the agent may have answered by then.
RequestRollback ==
  /\ rollback = "none"
  /\ rollback' = "requested"
  /\ UNCHANGED <<phases, redis, records, task, smokes, handled>>

Clear ==
  /\ rollback \in {"requested", "answered"}
  /\ rollback' = IF rollback = "requested" THEN "cleared" ELSE "done"
  /\ stage' = [i \in Ids |-> "none"] /\ older' = {} /\ handled' = {}
  /\ UNCHANGED <<phases, redis, task, smokes>>

\* The deploy agent answers under the id of the request.
RollbackDone ==
  /\ rollback \in {"requested", "cleared"} /\ AgentRuns
  /\ rollback' = IF rollback = "requested" THEN "answered" ELSE "done"
  /\ \E good \in BOOLEAN : Deliver(Message("deployed", RollbackId, good))
  /\ UNCHANGED <<phases, subscribed, outages, records, task, smokes, handled>>

-----------------------------------------------------------------------------
(* LLM smokes: simulate_llm_secure_coding *)

Goto(s, from, to) ==
  /\ task[s].step = from
  /\ task' = [task EXCEPT ![s].step = to]

SmokeFrame == UNCHANGED <<phases, redis, rollback>>

StartSmoke(s, p) ==
  /\ task[s] = Idle /\ MayBegin
  /\ task' = [task EXCEPT ![s] = [step |-> "patch", provider |-> p]]
  /\ telemetry' = [status |-> "running", provider |-> p, incident |-> NoId]
  /\ SmokeFrame /\ UNCHANGED <<records, health, proved, handled>>

\* An LlmOAuthError is recorded and shown; another exception ends the request
\* and leaves the telemetry as it is.
EndHalf(s, half, next, answer) ==
  /\ proved' = IF answer.outcome = "ok" /\ answer.answered
                 THEN [proved EXCEPT ![s] = @ \cup {half}] ELSE proved
  /\ health' = CASE answer.outcome = "ok"    -> [health EXCEPT ![task[s].provider] = "ok"]
                 [] answer.outcome = "error" -> [health EXCEPT ![task[s].provider] = "error"]
                 [] OTHER                    -> health
  /\ Goto(s, half, IF answer.outcome = "ok" THEN next
                   ELSE IF answer.outcome = "error" THEN "fail" ELSE "end")
  /\ SmokeFrame /\ UNCHANGED <<records, telemetry, handled>>

\* Mutant: the patch half alone makes a success.
PatchHalfOnly(s) ==
  task[s].step = "patch" /\ \E answer \in Smokes[task[s].provider]["patch"] : EndHalf(s, "patch", "succeed", answer)

\* run_patch_smoke and run_validation_smoke, in threads.
PatchHalf(s) ==
  task[s].step = "patch" /\ \E answer \in Smokes[task[s].provider]["patch"] : EndHalf(s, "patch", "validation", answer)

ValidationHalf(s) ==
  task[s].step = "validation" /\ \E answer \in Smokes[task[s].provider]["validation"] : EndHalf(s, "validation", "succeed", answer)

Fail(s) ==
  /\ Goto(s, "fail", "end")
  /\ telemetry' = [telemetry EXCEPT !.status = "failure"]
  /\ SmokeFrame /\ UNCHANGED <<records, health, proved, handled>>

Succeed(s) ==
  /\ Goto(s, "succeed", "context")
  /\ telemetry' = [status |-> "success", provider |-> task[s].provider, incident |-> s]
  /\ SmokeFrame /\ UNCHANGED <<records, health, proved, handled>>

\* The messages of _build_llm_simulation_payload go to _on_message one after
\* the other, with sleeps in between, and not to Redis.
Replay(s) ==
  \E step \in {<<"context", "validate">>, <<"validate", "promote">>, <<"promote", "end">>} :
    /\ Goto(s, step[1], step[2])
    /\ PushEvent(Message(step[1], s, TRUE))
    /\ SmokeFrame /\ UNCHANGED smokes

Smoke(s) == PatchHalf(s) \/ ValidationHalf(s) \/ Fail(s) \/ Succeed(s) \/ Replay(s)

-----------------------------------------------------------------------------
Next ==
  \/ Handle \/ Disconnect \/ Subscribe
  \/ \E i \in Incidents : Publish(i) \/ Govern(i)
  \/ Poll \/ RequestRollback \/ Clear \/ RollbackDone
  \/ \E s \in Smoked : Smoke(s) \/ \E p \in Providers : StartSmoke(s, p)

Spec == Init /\ [][Next]_vars

\* Tasks of the event loop and threads run, and Redis takes a subscription
\* sooner or later; what the phases publish is left open.
FairSpec ==
  /\ Spec
  /\ WF_vars(Handle) /\ WF_vars(Subscribe)
  /\ \A s \in Smoked : WF_vars(Smoke(s))

-----------------------------------------------------------------------------
(* Properties *)

\* Types; the records are no more than they may be, are of ids that messages
\* named, and last_at orders them (state.py, _merge_into_incident).
TypeOK ==
  /\ \A i \in Incidents : published[i] \in Messages \cup {Message("none", i, FALSE)}
  /\ retries \in [Incidents -> 0..MaxRetries]
  /\ governance \in [Incidents -> {"none"} \cup GovernanceStages]
  /\ subscribed \in BOOLEAN /\ inbox \in Seq(Messages) /\ Len(inbox) <= MaxPending
  /\ outages \in 0..MaxOutages /\ missed \subseteq Ids
  /\ stage \in [Ids -> {"none"} \cup MessageStages \cup GovernanceStages]
  /\ Shown \subseteq handled /\ Cardinality(Shown) <= MAX_INCIDENTS
  /\ older \in Orders(Shown) /\ handled \subseteq Ids
  /\ \A s \in Smoked : task[s].provider \in Providers \cup {"none"}
  /\ rollback \in {"none", "requested", "answered", "cleared", "done"}
  /\ telemetry \in [status : {"idle", "running", "success", "failure"},
                    provider : Providers \cup {"none"}, incident : Smoked \cup {NoId}]
  /\ health \in [Providers -> {"unknown", "ok", "error"}]
  /\ proved \in [Smoked -> SUBSET Halves]

\* The dashboard shows of an incident what was said last: its last message,
\* unless that was lost or is still to be handled, or what governance says or
\* said of it.  While there is room, it shows every incident it has heard of
\* since the last rollback (state.py, push_event and update_phase4;
\* redis_subscriber.py; the LLM smokes, which bypass Redis).
ShowsLatest ==
  /\ \A i \in Incidents \cap Shown :
       i \in missed \/ (\E k \in DOMAIN inbox : inbox[k].id = i)
         \/ stage[i] \in {StageOf(published[i])}
              \cup (IF governance[i] = "none" THEN {} ELSE {governance[i], "git_pr"})
  /\ Cardinality(Shown) < MAX_INCIDENTS => handled \subseteq Shown

\* What the telemetry calls a success was one: the CLI has answered both
\* halves of the smoke of the incident it names, also when smokes overlap
\* (main.py, simulate_llm_secure_coding: the telemetry "proves to the
\* dashboard viewer that the codex/claude CLI was actually invoked").
SuccessIsProven ==
  telemetry.status = "success" =>
    /\ telemetry.incident \in Smoked
    /\ proved[telemetry.incident] = Halves
    /\ telemetry.provider = task[telemetry.incident].provider

\* However often the subscription breaks, the monitor subscribes again and
\* handles all that has come (redis_subscriber.py, run).
CatchesUp == (~subscribed \/ inbox # << >>) ~> (subscribed /\ inbox = << >>)

\* Stated in main.py, line 53, by "idle | running | success | failure": a
\* smoke that runs ends.  An exception other than LlmOAuthError leaves it
\* running.
TelemetryEnds == telemetry.status = "running" ~> telemetry.status # "running"

\* Stated in LLM_OAUTH.md, line 15: "`llm_access` is only marked `ok` after the
\* selected CLI successfully completes an `LLM Smoke` call", which has two
\* halves (line 10).  The patch half alone marks it.
AccessIsProven ==
  \A p \in Providers : health[p] = "ok" =>
    \E s \in Smoked : task[s].provider = p /\ proved[s] = Halves

\* Stated by state.py, line 176: an incident that was sent back is shown as
\* rejected.  The next poll shows the stage of the promotion that failed.
RejectionIsShown ==
  [][\A i \in Incidents :
       stage[i] = "rejected" /\ i \in Shown' =>
         stage'[i] \in {"rejected", "phase2_done", "phase3_done"}]_vars

=============================================================================
