------------------------- MODULE RecoveryAssurance --------------------------
(***************************************************************************)
(* Phase 3: validation jobs, services/recovery-assurance/src/              *)
(* recovery_assurance_plane.                                               *)
(*                                                                         *)
(* The worker process takes candidates from elden:phase3:validate, the API *)
(* process takes them over HTTP and also reruns jobs and stores runtime    *)
(* contexts.  Both keep their jobs in one file, phase3-store.json: every   *)
(* update reads the whole file and writes the whole file, under a lock     *)
(* that only the threads of one process share.  A thread's copy of the     *)
(* file is therefore part of the state: ReadStore takes it, and the        *)
(* action that updates the store writes it back with its change.  A write  *)
(* empties the file first; a process that dies there leaves it so.         *)
(***************************************************************************)
EXTENDS Naturals, Sequences, FiniteSets

CONSTANTS
  Threads,          \* the worker and the background tasks of the API
  Api,              \* those of the API
  ProcessOf,        \* the process of each thread
  Patches,          \* patch_ids of the candidates
  Jobs,             \* bound: validation_job_ids that can be generated
  NoJob,            \* the store has no such job; the thread has none
  NoCopy,           \* the thread is not between a read and a write
  Torn,             \* what a write of the file that was cut short leaves
  RequiredStages,   \* REQUIRED_STAGES, in the order process_validation runs them
  MaxRequests,      \* bound: candidates submitted, reruns and contexts asked for
  MaxCrashes        \* bound: how often a process dies

StageNames == {RequiredStages[i] : i \in DOMAIN RequiredStages}

Verdicts == {"pass", "fail", "not_run"}
Results  == [StageNames -> Verdicts]
NotRun   == [s \in StageNames |-> "not_run"]

\* RUNNING stands for the status of every stage from RUNNING to SLO_CHECKING.
JobRows == [patch : Patches, status : {"PENDING", "RUNNING", "COMPLETED", "FAILED"},
            stage : StageNames \cup {"queued", "finalize", "failed"}]

Stores == [jobs : [Jobs -> JobRows \cup {NoJob}], stages : [Jobs -> Results]]

ASSUME RecoveryAssumption ==
  /\ Api \subseteq Threads
  /\ DOMAIN ProcessOf = Threads
  /\ RequiredStages \in Seq(STRING) /\ Len(RequiredStages) > 0
  /\ \A i, j \in DOMAIN RequiredStages : RequiredStages[i] = RequiredStages[j] => i = j
  /\ StageNames \cap {"queued", "finalize", "failed"} = {}
  /\ NoJob \notin Jobs /\ Torn \notin Stores
  /\ MaxRequests \in Nat /\ MaxCrashes \in Nat

VARIABLES
  file,      \* phase3-store.json: jobs and stages
  copy,      \* data, between _read and _write of each thread
  pc,        \* where each thread stands
  job,       \* validation_job_id it works on
  patch,     \* patch_id of its candidate
  at,        \* index of the stage it runs
  results,   \* stage_results of process_validation
  promoted,  \* messages on elden:phase4:promote
  retried,   \* messages on elden:phase2:retry
  used,      \* validation_job_ids already generated
  requests,  \* submissions and API calls so far
  crashes

vars   == <<file, copy, pc, job, patch, at, results, promoted, retried, used,
            requests, crashes>>
locals == <<job, patch, at, results>>
output == <<promoted, retried>>
bounds == <<used, requests, crashes>>

\* The points whose next action updates the store; those inside the try
\* block of process_validation end in its except clause when they raise.
InTry       == {"deploy", "begin", "judge", "announce", "close"}
StorePoints == InTry \cup {"create", "run", "rerun", "inject", "except"}
Points      == StorePoints \cup {"idle", "send"}

Stage(t) == RequiredStages[at[t]]

Failed(t) == \E s \in StageNames : results[t][s] = "fail"

Messages == [job : Jobs, patch : Patches, results : Results]

-----------------------------------------------------------------------------
Init ==
  /\ file = [jobs |-> [j \in Jobs |-> NoJob], stages |-> [j \in Jobs |-> NotRun]]
  /\ copy = [t \in Threads |-> NoCopy]
  /\ pc = [t \in Threads |-> "idle"]
  /\ job = [t \in Threads |-> NoJob]
  /\ patch \in [Threads -> Patches]
  /\ at = [t \in Threads |-> 1]
  /\ results = [t \in Threads |-> NotRun]
  /\ promoted = {} /\ retried = {}
  /\ used = {} /\ requests = 0 /\ crashes = 0

-----------------------------------------------------------------------------
(* JsonStore *)

Goto(t, point) == pc' = [pc EXCEPT ![t] = point]

Readable == file # Torn

\* _read, with the lock of the process taken.
ReadStore(t) ==
  /\ pc[t] \in StorePoints /\ copy[t] = NoCopy /\ Readable
  /\ \A u \in Threads : ProcessOf[u] = ProcessOf[t] => copy[u] = NoCopy
  /\ copy' = [copy EXCEPT ![t] = file]
  /\ UNCHANGED <<file, pc, locals, output, bounds>>

\* _write: what other processes wrote since _read is overwritten.
Write(t, new) ==
  /\ copy[t] # NoCopy
  /\ file' = new
  /\ copy' = [copy EXCEPT ![t] = NoCopy]

HasJob(t) == copy[t].jobs[job[t]] # NoJob

\* update_job(status, current_stage) of a job that is there.
WithStatus(s, j, status, stage) ==
  [s EXCEPT !.jobs[j].status = status, !.jobs[j].stage = stage]

Updated(t, status, stage) == WithStatus(copy[t], job[t], status, stage)

\* An exception, with the lock released.
Raise(t) ==
  /\ copy' = [copy EXCEPT ![t] = NoCopy]
  /\ Goto(t, IF pc[t] \in InTry \cup {"send"} THEN "except" ELSE "idle")

\* update_job: KeyError when another process has written the job away.
UpdateJob(t, status, stage, next) ==
  /\ copy[t] # NoCopy
  /\ IF HasJob(t)
     THEN Write(t, Updated(t, status, stage)) /\ Goto(t, next)
     ELSE Raise(t) /\ UNCHANGED file

\* The write of another process truncates the file first: a reader in that
\* moment fails to parse it, and every reader when that process has died.
TornRead(t) ==
  /\ pc[t] \in StorePoints /\ copy[t] = NoCopy
  /\ ~Readable \/ \E u \in Threads : ProcessOf[u] # ProcessOf[t] /\ copy[u] # NoCopy
  /\ Raise(t)
  /\ UNCHANGED <<file, locals, output, bounds>>

-----------------------------------------------------------------------------
(* submit_validation and handle_validate_payload *)

ActiveJobs(p) == {j \in Jobs : /\ file.jobs[j] # NoJob
                               /\ file.jobs[j].patch = p
                               /\ file.jobs[j].status # "FAILED"}

\* A duplicate gets 409 from the API and the id of the job from the worker.
Submit(t, p) ==
  /\ pc[t] = "idle" /\ Readable /\ requests < MaxRequests
  /\ requests' = requests + 1
  /\ IF ActiveJobs(p) = {}
     THEN \E j \in Jobs \ used :
            /\ used' = used \cup {j}
            /\ job' = [job EXCEPT ![t] = j]
            /\ patch' = [patch EXCEPT ![t] = p]
            /\ Goto(t, "create")
     ELSE UNCHANGED <<used, job, patch, pc>>
  /\ UNCHANGED <<file, copy, at, results, output, crashes>>

Create(t) ==
  /\ pc[t] = "create"
  /\ Write(t, [copy[t] EXCEPT !.jobs[job[t]] =
                 [patch |-> patch[t], status |-> "PENDING", stage |-> "queued"]])
  /\ Goto(t, "run")
  /\ UNCHANGED <<locals, output, bounds>>

\* rerun_validation asks only that the job exists; it keeps the stage
\* results of the earlier run.
AskRerun(t, j) ==
  /\ t \in Api /\ pc[t] = "idle" /\ requests < MaxRequests
  /\ Readable /\ file.jobs[j] # NoJob
  /\ requests' = requests + 1
  /\ job' = [job EXCEPT ![t] = j]
  /\ patch' = [patch EXCEPT ![t] = file.jobs[j].patch]
  /\ Goto(t, "rerun")
  /\ UNCHANGED <<file, copy, at, results, output, used, crashes>>

Rerun(t) ==
  /\ pc[t] = "rerun"
  /\ UpdateJob(t, "PENDING", "queued", "run")
  /\ UNCHANGED <<locals, output, bounds>>

\* inject_runtime_context and save_runtime_context.
AskInject(t) ==
  /\ t \in Api /\ pc[t] = "idle" /\ requests < MaxRequests
  /\ requests' = requests + 1
  /\ Goto(t, "inject")
  /\ UNCHANGED <<file, copy, locals, output, used, crashes>>

Inject(t) ==
  /\ pc[t] = "inject"
  /\ Write(t, copy[t])
  /\ Goto(t, "idle")
  /\ UNCHANGED <<locals, output, bounds>>

-----------------------------------------------------------------------------
(* process_validation *)

Run(t) ==
  /\ pc[t] = "run"
  /\ UpdateJob(t, "RUNNING", "queued", "deploy")
  /\ at' = [at EXCEPT ![t] = 1]
  /\ results' = [results EXCEPT ![t] = NotRun]
  /\ UNCHANGED <<job, patch, output, bounds>>

\* ValidationStages._update_job leaves a job alone that get_job does not find,
\* and update_job raises when it is not there any more.
MarkRunning(t, next) ==
  /\ copy[t] # NoCopy
  /\ \/ /\ HasJob(t)
        /\ Write(t, Updated(t, "RUNNING", "queued"))
        /\ Goto(t, next)
     \/ /\ ~HasJob(t)
        /\ copy' = [copy EXCEPT ![t] = NoCopy]
        /\ Goto(t, next)
        /\ UNCHANGED file
     \/ ~HasJob(t) /\ Raise(t) /\ UNCHANGED file
  /\ UNCHANGED <<locals, output, bounds>>

Deploy(t) == pc[t] = "deploy" /\ MarkRunning(t, "begin")

BeginStage(t) == pc[t] = "begin" /\ MarkRunning(t, "judge")

\* Mutants: a failed stage is not the end of the run; the last stage is
\* taken for granted; the run goes on after the last one.
AfterStageNoEnd(t, verdict) == IF verdict = "pass" THEN "begin" ELSE "announce"
AfterStageGoOn(t, verdict) == IF at[t] < Len(RequiredStages) THEN "begin" ELSE "announce"
AfterStageSkip(t, verdict) ==
  IF verdict = "pass" /\ at[t] + 1 < Len(RequiredStages) THEN "begin" ELSE "announce"

AfterStage(t, verdict) ==
  IF verdict = "pass" /\ at[t] < Len(RequiredStages) THEN "begin" ELSE "announce"

\* The LLM's verdict, saved under the stage's name.
SaveStage(t) ==
  /\ pc[t] = "judge"
  /\ \E verdict \in {"pass", "fail"} :
       /\ results' = [results EXCEPT ![t][Stage(t)] = verdict]
       /\ Write(t, [copy[t] EXCEPT !.stages[job[t]][Stage(t)] = verdict])
       /\ Goto(t, AfterStage(t, verdict))
       /\ at' = [at EXCEPT ![t] = IF AfterStage(t, verdict) = "begin" THEN @ + 1 ELSE @]
  /\ UNCHANGED <<job, patch, output, bounds>>

\* The LLM times out, or its answer has no verdict.
StageRaises(t) ==
  /\ pc[t] = "judge" /\ copy[t] = NoCopy
  /\ Raise(t)
  /\ UNCHANGED <<file, locals, output, bounds>>

\* MessageBus.publish saves the message before it sends it.
Announce(t) ==
  /\ pc[t] = "announce"
  /\ Write(t, copy[t])
  /\ Goto(t, "send")
  /\ UNCHANGED <<locals, output, bounds>>

\* The deployment has a REDIS_URL; without one the message is only saved.
Send(t) ==
  /\ pc[t] = "send"
  /\ LET message == [job |-> job[t], patch |-> patch[t], results |-> results[t]]
     IN IF Failed(t)
        THEN retried' = retried \cup {message} /\ UNCHANGED promoted
        ELSE promoted' = promoted \cup {message} /\ UNCHANGED retried
  /\ Goto(t, "close")
  /\ UNCHANGED <<file, copy, locals, bounds>>

\* Mutant: the exception is swallowed.
SendSwallows(t) ==
  /\ pc[t] = "send"
  /\ Goto(t, "close")
  /\ UNCHANGED <<file, copy, locals, output, bounds>>

\* Redis is down: unlike Phase 2, the exception ends the run.
SendFails(t) ==
  /\ pc[t] = "send"
  /\ Raise(t)
  /\ UNCHANGED <<file, locals, output, bounds>>

Close(t) ==
  /\ pc[t] = "close"
  /\ IF Failed(t) THEN UpdateJob(t, "FAILED", Stage(t), "idle")
                  ELSE UpdateJob(t, "COMPLETED", "finalize", "idle")
  /\ UNCHANGED <<locals, output, bounds>>

Except(t) ==
  /\ pc[t] = "except"
  /\ UpdateJob(t, "FAILED", "failed", "idle")
  /\ UNCHANGED <<locals, output, bounds>>

WouldWrite(t) ==
  copy[t] # NoCopy /\ (pc[t] \notin {"create", "inject", "judge", "announce"} => HasJob(t))

\* The process of t dies, perhaps inside of its write.
Crash(t) ==
  /\ pc[t] # "idle" /\ crashes < MaxCrashes
  /\ crashes' = crashes + 1
  /\ Goto(t, "idle")
  /\ copy' = [copy EXCEPT ![t] = NoCopy]
  /\ file' = file \/ (WouldWrite(t) /\ file' = Torn)
  /\ UNCHANGED <<locals, output, used, requests>>

-----------------------------------------------------------------------------
Step(t) ==
  \/ ReadStore(t) \/ TornRead(t) \/ Create(t) \/ Rerun(t) \/ Inject(t)
  \/ Run(t) \/ Deploy(t) \/ BeginStage(t) \/ SaveStage(t) \/ StageRaises(t)
  \/ Announce(t) \/ Send(t) \/ SendFails(t) \/ Close(t) \/ Except(t)

Next ==
  \E t \in Threads :
    \/ \E p \in Patches : Submit(t, p)
    \/ \E j \in Jobs : AskRerun(t, j)
    \/ AskInject(t)
    \/ Step(t)
    \/ Crash(t)

Spec == Init /\ [][Next]_vars

-----------------------------------------------------------------------------
(* Properties *)

\* Types of the file, of the copies the threads have of it and of the requests,
\* over torn reads, lost updates and crashes (store.py).
TypeOK ==
  /\ file \in Stores \cup {Torn}
  /\ copy \in [Threads -> Stores \cup {NoCopy}]
  /\ pc \in [Threads -> Points]
  /\ job \in [Threads -> Jobs \cup {NoJob}]
  /\ patch \in [Threads -> Patches]
  /\ at \in [Threads -> DOMAIN RequiredStages]
  /\ results \in [Threads -> Results]
  /\ promoted \subseteq Messages /\ retried \subseteq Messages
  /\ used \subseteq Jobs
  /\ requests \in 0 .. MaxRequests /\ crashes \in 0 .. MaxCrashes

\* Only what has passed every required stage in one and the same run is
\* promoted, whatever the other process writes over the store, and over
\* reruns, crashes and torn reads.
PromotedPassedAll ==
  \A m \in promoted : \A s \in StageNames : m.results[s] = "pass"

\* A retry request comes from the first stage that failed: the stages before
\* it have passed and "the later stages stay not_run" (README.md:69).
RetriedAtFirstFailure ==
  \A m \in retried : \E i \in DOMAIN RequiredStages :
    \A k \in DOMAIN RequiredStages :
      m.results[RequiredStages[k]] =
        IF k < i THEN "pass" ELSE IF k = i THEN "fail" ELSE "not_run"

\* A job the store calls COMPLETED has been promoted: process_validation
\* publishes first, and a lost update can only bring back an older status.
CompletedWasPromoted ==
  \A j \in Jobs :
    Readable /\ file.jobs[j] # NoJob /\ file.jobs[j].status = "COMPLETED"
      => \E m \in promoted : m.job = j

\* "On failure the later stages stay not_run": what get_validation_result
\* shows of a failed job.
LaterStagesNotRun ==
  \A j \in Jobs : Readable /\ file.jobs[j] # NoJob /\ file.jobs[j].status = "FAILED" =>
    \A i, k \in DOMAIN RequiredStages :
      i < k /\ RequiredStages[i] = file.jobs[j].stage
        => file.stages[j][RequiredStages[k]] = "not_run"
=============================================================================
