-------------------------- MODULE SecureCodingJobs --------------------------
(***************************************************************************)
(* Phase 2: the life of a secure-coding job, services/secure-coding/src/   *)
(* secure_coding_plane.                                                    *)
(*                                                                         *)
(* The worker process takes contexts from the Redis list and retry         *)
(* requests from Pub/Sub; the API process takes both over HTTP and runs    *)
(* them as background tasks.  They share the SQLite store, the artifact    *)
(* files and the one workspace file that every patch goes to.  A thread    *)
(* runs one request at a time, one action per store or file access that    *)
(* another thread can observe; a step's status update goes with the first  *)
(* of them.  Any of them may raise, and the process may die between any    *)
(* two: the workspace and its backup are written by write_text, which      *)
(* empties the file before it writes.                                      *)
(*                                                                         *)
(* The store has one job per event_id (UNIQUE), so a job is named by its   *)
(* event.  The content of a file is the set of patches in it: a patch is   *)
(* made from the content its run has read, and adds itself to it.  Cut in  *)
(* the content says that the code that was in the file is lost.            *)
(***************************************************************************)
EXTENDS Naturals

CONSTANTS
  Threads,      \* the worker and the background tasks of the API
  Events,       \* event_ids of the contexts
  Patches,      \* bound: the patch ids that can be generated
  NoPatch,      \* no patch_id in the request
  Cut,          \* what a write_text that was cut short leaves: an empty file
  NoFile,       \* the file, image or row does not exist
  Kinds,        \* what the LLM may return: code with one of the markers the
                \* recheck looks for ("marked"), without one ("plain"), or
                \* that does not compile ("broken")
  TagOf,        \* the image tag _resolve_candidate_image gives a patch
  Deliveries,   \* bound: how often each context is delivered
  MaxRetries,   \* secure_coding_max_retries
  MaxFaults     \* bound: how often an access to a file or the store raises
                \* or a process dies

Tags == {TagOf[p] : p \in Patches}

VARIABLES
  inbox,      \* deliveries of each context still to come
  jobs,       \* secure_coding_jobs.status
  kind,       \* what the LLM returned as each patch
  retries,    \* rows of secure_retry_requests per job
  row,        \* secure_patches
  built,      \* secure_builds, by patch
  workspace,  \* content of the target file
  original,   \* artifacts/original_src/<job>
  patched,    \* artifacts/patched_src/<job>
  backup,     \* artifacts/workspace_backup/<job>
  registry,   \* what each image tag names
  recorded,   \* patches in the outbound rows of the messages
  published,  \* patches Redis has delivered on elden:phase3:validate
  pc,         \* where each thread stands
  job,        \* the job it works on
  patch,      \* the patch it works on
  base,       \* the content of the target file it has read
  content,    \* the content it is about to write to the target file
  errors,
  crashes

store   == <<jobs, retries, row, built>>
files   == <<workspace, original, patched, backup, registry, kind>>
bus     == <<recorded, published>>
locals  == <<job, patch, base, content>>
faults  == <<errors, crashes>>
vars    == <<inbox, store, files, bus, pc, locals, faults>>

Contents == SUBSET (Patches \cup {Cut})

\* RUNNING stands for the status of every stage from RUNNING to
\* BUILDING_IMAGE: nothing in the code tells them apart.
Statuses == {"none", "PENDING", "RUNNING", "COMPLETED", "FAILED"}
Terminal == {"COMPLETED", "FAILED"}

\* apply: what change_summary says of workspace_applied and rolled_back.
Rows == [job : Events,
         status : {"READY_FOR_RECHECK", "READY_FOR_BUILD", "REJECTED"},
         apply : {"no", "applied", "rolled_back"}]

ASSUME JobsAssumption ==
  /\ NoPatch \notin Patches /\ Cut \notin Patches
  /\ \A c \in Contents : c # NoFile
  /\ \A r \in Rows : r # NoFile
  /\ Kinds \subseteq {"marked", "plain", "broken"}
  /\ DOMAIN TagOf = Patches
  /\ Deliveries \in Nat /\ MaxRetries \in Nat /\ MaxFaults \in Nat

\* What a thread does next.  On AppliedPoints process_job has set
\* applied_patch_id; on CallerPoints it is not in process_job.
AppliedPoints == {"build", "built", "publish", "complete"}
RunPoints     == {"start", "generate", "save", "insert", "recheck", "apply", "backup", "backing",
                  "install", "fill", "record"} \cup AppliedPoints
UndoPoints    == {"undo", "undoing", "undone", "failing"}
CallerPoints  == {"create", "revert", "reverting", "reverted", "admit"}
Points        == {"idle"} \cup RunPoints \cup UndoPoints \cup CallerPoints

Unused == {p \in Patches : row[p] = NoFile}

PatchesOf(e) == {p \in Patches \ Unused : row[p].job = e}

-----------------------------------------------------------------------------
Init ==
  /\ inbox = [e \in Events |-> Deliveries]
  /\ jobs = [e \in Events |-> "none"]
  /\ retries = [e \in Events |-> 0]
  /\ kind = [p \in Patches |-> NoFile]
  /\ row = [p \in Patches |-> NoFile]
  /\ built = {}
  /\ workspace = {}
  /\ original = [e \in Events |-> NoFile]
  /\ patched = [e \in Events |-> NoFile]
  /\ backup = [e \in Events |-> NoFile]
  /\ registry = [g \in Tags |-> NoFile]
  /\ recorded = {} /\ published = {}
  /\ pc = [t \in Threads |-> "idle"]
  /\ job \in [Threads -> Events]
  /\ patch = [t \in Threads |-> NoPatch]
  /\ base = [t \in Threads |-> {}]
  /\ content = [t \in Threads |-> {}]
  /\ errors = 0 /\ crashes = 0

-----------------------------------------------------------------------------
(* Writes shared by the operations *)

Goto(t, point) == pc' = [pc EXCEPT ![t] = point]

\* The request is over and its local variables with it.
Return(t) ==
  /\ Goto(t, "idle")
  /\ patch' = [patch EXCEPT ![t] = NoPatch]
  /\ base' = [base EXCEPT ![t] = {}] /\ content' = [content EXCEPT ![t] = {}]

SetStatus(e, status) == jobs' = [jobs EXCEPT ![e] = status]

SaveRow(p, new) == row' = [row EXCEPT ![p] = new]

-----------------------------------------------------------------------------
(* _accept_context *)

\* A context that asks for no patch, or whose CWE or lines are refused,
\* changes nothing and is left out.
Accept(t, e) ==
  /\ pc[t] = "idle" /\ inbox[e] > 0
  /\ inbox' = [inbox EXCEPT ![e] = @ - 1]
  /\ IF jobs[e] = "none"
     THEN Goto(t, "create") /\ job' = [job EXCEPT ![t] = e]
     ELSE UNCHANGED <<pc, job>>
  /\ UNCHANGED <<store, files, bus, patch, base, content, faults>>

\* Mutant: the store takes a second job for an event.
CreateTwice(t) ==
  /\ pc[t] = "create"
  /\ SetStatus(job[t], "PENDING") /\ Goto(t, "start")
  /\ UNCHANGED <<inbox, retries, row, built, files, bus, locals, faults>>

\* The INSERT fails on the UNIQUE event_id when another thread was faster.
CreateJob(t) ==
  /\ pc[t] = "create"
  /\ IF jobs[job[t]] = "none"
     THEN SetStatus(job[t], "PENDING") /\ Goto(t, "start")
     ELSE Goto(t, "idle") /\ UNCHANGED jobs
  /\ UNCHANGED <<inbox, retries, row, built, files, bus, locals, faults>>

-----------------------------------------------------------------------------
(* process_job *)

\* load_code_context, before analysis and strategy.
Start(t) ==
  /\ pc[t] = "start"
  /\ SetStatus(job[t], "RUNNING")
  /\ base' = [base EXCEPT ![t] = workspace]
  /\ Goto(t, "generate")
  /\ UNCHANGED <<inbox, retries, row, built, files, bus, job, patch, content, faults>>

\* run_patch: the LLM has answered; the files of an earlier attempt are
\* overwritten, one after the other, before the patch has a row.
Fresh == Unused \ {patch[t] : t \in {u \in Threads : pc[u] \in {"save", "insert"}}}

Generate(t) ==
  /\ pc[t] = "generate"
  /\ SetStatus(job[t], "RUNNING")
  /\ \E p \in Fresh, k \in Kinds :
       patch' = [patch EXCEPT ![t] = p] /\ kind' = [kind EXCEPT ![p] = k]
  /\ original' = [original EXCEPT ![job[t]] = base[t]]
  /\ Goto(t, "save")
  /\ UNCHANGED <<inbox, retries, row, built, workspace, patched, backup, registry, bus,
                 job, base, content, faults>>

WritePatched(t) ==
  /\ pc[t] = "save"
  /\ patched' = [patched EXCEPT ![job[t]] = base[t] \cup {patch[t]}]
  /\ Goto(t, "insert")
  /\ UNCHANGED <<inbox, store, workspace, original, backup, registry, kind, bus, locals, faults>>

SavePatch(t) ==
  /\ pc[t] = "insert"
  /\ SaveRow(patch[t], [job |-> job[t], status |-> "READY_FOR_RECHECK", apply |-> "no"])
  /\ base' = [base EXCEPT ![t] = {}]
  /\ Goto(t, "recheck")
  /\ UNCHANGED <<inbox, jobs, retries, built, files, bus, job, patch, content, faults>>

\* The LLM times out or its answer is unusable.
GenerateFails(t) ==
  /\ pc[t] = "generate"
  /\ SetStatus(job[t], "RUNNING")
  /\ Goto(t, "failing")
  /\ UNCHANGED <<inbox, retries, row, built, files, bus, locals, faults>>

\* Mutant: the recheck does not compile the file.
PassesWithoutCompiling(p, code) == \E q \in (code \cup {p}) \ {Cut} : kind[q] # "plain"

\* The file at patched_file_path has to compile, as an empty file does; a
\* marker anywhere in the file or in the diff is enough for the safety check.
PassesRecheck(p, code) ==
  /\ \A q \in code \ {Cut} : kind[q] # "broken"
  /\ \E q \in (code \cup {p}) \ {Cut} : kind[q] = "marked"

Recheck(t) ==
  LET p == patch[t]
      ok == PassesRecheck(p, patched[job[t]])
  IN /\ pc[t] = "recheck"
     /\ SetStatus(job[t], "RUNNING")
     /\ SaveRow(p, [row[p] EXCEPT !.status = IF ok THEN "READY_FOR_BUILD" ELSE "REJECTED"])
     /\ Goto(t, IF ok THEN "apply" ELSE "failing")
     /\ UNCHANGED <<inbox, retries, built, files, bus, locals, faults>>

\* Mutant: the mode artifact_only taken for an apply.
SkipApply(t) ==
  /\ pc[t] = "apply"
  /\ SetStatus(job[t], "RUNNING")
  /\ Goto(t, "build")
  /\ UNCHANGED <<inbox, retries, row, built, files, bus, locals, faults>>

\* run_apply reads its files and checks for drift: the workspace still has
\* to be what the patch was made from.
CheckDrift(t) ==
  /\ pc[t] = "apply"
  /\ SetStatus(job[t], "RUNNING")
  /\ base' = [base EXCEPT ![t] = workspace]
  /\ content' = [content EXCEPT ![t] = patched[job[t]]]
  /\ Goto(t, IF row[patch[t]].status = "READY_FOR_BUILD" /\ workspace = original[job[t]]
             THEN "backup" ELSE "failing")
  /\ UNCHANGED <<inbox, retries, row, built, files, bus, job, patch, faults>>

\* write_text of the backup, then of the workspace, each in two steps.
OpenBackup(t) ==
  /\ pc[t] = "backup"
  /\ backup' = [backup EXCEPT ![job[t]] = {Cut}]
  /\ Goto(t, "backing")
  /\ UNCHANGED <<inbox, store, workspace, original, patched, registry, kind, bus, locals, faults>>

WriteBackup(t) ==
  /\ pc[t] = "backing"
  /\ backup' = [backup EXCEPT ![job[t]] = base[t]]
  /\ Goto(t, "install")
  /\ UNCHANGED <<inbox, store, workspace, original, patched, registry, kind, bus, locals, faults>>

OpenWorkspace(t) ==
  /\ pc[t] = "install"
  /\ workspace' = {Cut}
  /\ Goto(t, "fill")
  /\ UNCHANGED <<inbox, store, original, patched, backup, registry, kind, bus, locals, faults>>

\* Of run_apply and, below, of rollback_apply.
NextOf == [fill |-> "record", undoing |-> "undone", reverting |-> "reverted"]

WriteWorkspace(t) ==
  /\ pc[t] \in DOMAIN NextOf
  /\ workspace' = content[t]
  /\ Goto(t, NextOf[pc[t]])
  /\ UNCHANGED <<inbox, store, original, patched, backup, registry, kind, bus, locals, faults>>

\* The row says workspace_applied; run_apply returns and process_job has an
\* applied_patch_id.
RecordApply(t) ==
  /\ pc[t] = "record"
  /\ SaveRow(patch[t], [row[patch[t]] EXCEPT !.apply = "applied"])
  /\ base' = [base EXCEPT ![t] = {}] /\ content' = [content EXCEPT ![t] = {}]
  /\ Goto(t, "build")
  /\ UNCHANGED <<inbox, jobs, retries, built, files, bus, job, patch, faults>>

\* run_build: the command makes the image of the workspace as it is now.
MoveTag(t) == registry' = [registry EXCEPT ![TagOf[patch[t]]] = workspace]

Build(t) ==
  /\ pc[t] = "build"
  /\ SetStatus(job[t], "RUNNING")
  /\ MoveTag(t)
  /\ Goto(t, "built")
  /\ UNCHANGED <<inbox, retries, row, built, workspace, original, patched, backup, kind,
                 bus, locals, faults>>

\* Mutants: an exception that escapes; no applied_patch_id to take back.
BuildFailsUncaught(t) ==
  /\ pc[t] = "build"
  /\ SetStatus(job[t], "RUNNING")
  /\ Return(t)
  /\ UNCHANGED <<inbox, retries, row, built, files, bus, job, faults>>

BuildFailsKeepsPatch(t) ==
  /\ pc[t] = "build"
  /\ SetStatus(job[t], "RUNNING")
  /\ Goto(t, "failing")
  /\ UNCHANGED <<inbox, retries, row, built, files, bus, locals, faults>>

\* A tag outside the registry, or a non-zero exit of the build command, which
\* may have moved the tag before it.
BuildFails(t) ==
  /\ pc[t] = "build"
  /\ SetStatus(job[t], "RUNNING")
  /\ MoveTag(t) \/ UNCHANGED registry
  /\ Goto(t, "undo")
  /\ UNCHANGED <<inbox, retries, row, built, workspace, original, patched, backup, kind,
                 bus, locals, faults>>

\* Mutant: COMPLETED without the announcement.
BuildAndComplete(t) ==
  /\ pc[t] = "built"
  /\ built' = built \cup {patch[t]}
  /\ Goto(t, "complete")
  /\ UNCHANGED <<inbox, jobs, retries, row, files, bus, locals, faults>>

RecordBuild(t) ==
  /\ pc[t] = "built"
  /\ built' = built \cup {patch[t]}
  /\ Goto(t, "publish")
  /\ UNCHANGED <<inbox, jobs, retries, row, files, bus, locals, faults>>

\* MessageBus.publish saves the message in the store first; it publishes
\* nothing without a client and swallows the error of a broken Redis.
Publish(t) ==
  /\ pc[t] = "publish"
  /\ recorded' = recorded \cup {patch[t]}
  /\ published' \in {published, published \cup {patch[t]}}
  /\ Goto(t, "complete")
  /\ UNCHANGED <<inbox, store, files, locals, faults>>

\* Mutant: the job gets the status of its patch.
CompleteWithPatchStatus(t) ==
  /\ pc[t] = "complete"
  /\ SetStatus(job[t], "READY_FOR_VALIDATION")
  /\ Return(t)
  /\ UNCHANGED <<inbox, retries, row, built, files, bus, job, faults>>

Complete(t) ==
  /\ pc[t] = "complete"
  /\ SetStatus(job[t], "COMPLETED")
  /\ Return(t)
  /\ UNCHANGED <<inbox, retries, row, built, files, bus, job, faults>>

-----------------------------------------------------------------------------
(* rollback_apply, from the except clause ("undo") and from _prepare_retry   *)
(* ("revert"): unlike run_apply it does not look at the workspace first.     *)

Restore(t) ==
  /\ pc[t] \in {"undo", "revert"}
  /\ LET p == patch[t]
         possible == row[p].apply # "no" /\ backup[row[p].job] # NoFile
     IN \/ /\ possible
           /\ content' = [content EXCEPT ![t] = backup[row[p].job]]
           /\ workspace' = {Cut}
           /\ Goto(t, IF pc[t] = "undo" THEN "undoing" ELSE "reverting")
           /\ UNCHANGED <<patch, base>>
        \/ /\ ~possible /\ pc[t] = "undo" /\ Goto(t, "failing")
           /\ UNCHANGED <<workspace, patch, base, content>>
        \/ /\ ~possible /\ pc[t] = "revert" /\ Return(t)
           /\ UNCHANGED workspace
  /\ UNCHANGED <<inbox, store, original, patched, backup, registry, kind, bus, job, faults>>

RecordRestore(t) ==
  /\ pc[t] \in {"undone", "reverted"}
  /\ SaveRow(patch[t], [row[patch[t]] EXCEPT !.apply = "rolled_back"])
  /\ content' = [content EXCEPT ![t] = {}]
  /\ Goto(t, IF pc[t] = "undone" THEN "failing" ELSE "admit")
  /\ UNCHANGED <<inbox, jobs, retries, built, files, bus, job, patch, base, faults>>

Fail(t) ==
  /\ pc[t] = "failing"
  /\ SetStatus(job[t], "FAILED")
  /\ Return(t)
  /\ UNCHANGED <<inbox, retries, row, built, files, bus, job, faults>>

-----------------------------------------------------------------------------
(* _prepare_retry, for a retry of Phase 3 or 4 or one posted to the API: in  *)
(* whatever state the job is, with or without the id of a failed patch, which *)
(* nothing compares with the job.                                            *)

LimitReached(e) == retries[e] >= MaxRetries

Retry(t, e, p) ==
  /\ pc[t] = "idle" /\ jobs[e] # "none" /\ p \in (Patches \ Unused) \cup {NoPatch}
  /\ IF LimitReached(e)
     THEN SetStatus(e, "FAILED") /\ UNCHANGED <<pc, job, patch>>
     ELSE /\ job' = [job EXCEPT ![t] = e]
          /\ patch' = [patch EXCEPT ![t] = p]
          /\ Goto(t, IF p # NoPatch /\ row[p].apply = "applied" THEN "revert" ELSE "admit")
          /\ UNCHANGED jobs
  /\ UNCHANGED <<inbox, retries, row, built, files, bus, base, content, faults>>

CountRetry(t) == retries' = [retries EXCEPT ![job[t]] = @ + 1]

Admit(t) ==
  /\ pc[t] = "admit"
  /\ CountRetry(t)
  /\ SetStatus(job[t], "PENDING")
  /\ patch' = [patch EXCEPT ![t] = NoPatch]
  /\ Goto(t, "start")
  /\ UNCHANGED <<inbox, row, built, files, bus, job, base, content, faults>>

-----------------------------------------------------------------------------
(* Errors and deaths *)

\* What t does next raises (OSError, sqlite3.Error), between the two writes
\* of _prepare_retry or instead of a write: outside process_job the caller
\* gets the exception, inside it the except clause.  It rolls back only when
\* run_apply has returned; what the rollback raises is swallowed.
Raise(t) ==
  /\ pc[t] \notin {"idle", "failing"} /\ errors + crashes < MaxFaults
  /\ errors' = errors + 1
  /\ UNCHANGED retries \/ (pc[t] = "admit" /\ CountRetry(t))
  /\ \/ pc[t] \in CallerPoints /\ Return(t)
     \/ pc[t] \in AppliedPoints /\ Goto(t, "undo") /\ UNCHANGED <<patch, base, content>>
     \/ /\ pc[t] \notin CallerPoints \cup AppliedPoints /\ Goto(t, "failing")
        /\ UNCHANGED <<patch, base, content>>
  /\ UNCHANGED <<inbox, jobs, row, built, files, bus, job, crashes>>

\* The process of t dies, or its last update of the job raises; nothing
\* resumes the request.
Crash(t) ==
  /\ pc[t] # "idle" /\ errors + crashes < MaxFaults
  /\ crashes' = crashes + 1
  /\ Return(t)
  /\ UNCHANGED <<inbox, store, files, bus, job, errors>>

-----------------------------------------------------------------------------
Run(t) ==
  \/ CreateJob(t) \/ Start(t) \/ Generate(t) \/ GenerateFails(t)
  \/ WritePatched(t) \/ SavePatch(t) \/ Recheck(t)
  \/ CheckDrift(t) \/ OpenBackup(t) \/ WriteBackup(t) \/ OpenWorkspace(t) \/ WriteWorkspace(t)
  \/ RecordApply(t) \/ Build(t) \/ BuildFails(t) \/ RecordBuild(t) \/ Publish(t) \/ Complete(t)
  \/ Restore(t) \/ RecordRestore(t) \/ Fail(t) \/ Admit(t)

Next ==
  \E t \in Threads :
    \/ \E e \in Events : Accept(t, e)
    \/ \E e \in Events, p \in Patches \cup {NoPatch} : Retry(t, e, p)
    \/ Run(t)
    \/ Raise(t)
    \/ Crash(t)

Spec == Init /\ [][Next]_vars

\* A thread that has taken a request is scheduled until it is done; the LLM
\* and the build command end (the former by its timeout).
FairSpec == Spec /\ \A t \in Threads : WF_vars(Run(t))

-----------------------------------------------------------------------------
(* Properties *)

\* Types of the rows and files, over retries, rollbacks, errors and crashes;
\* what the store lists is a patch that was generated (storage.py).
TypeOK ==
  /\ inbox \in [Events -> 0 .. Deliveries]
  /\ jobs \in [Events -> Statuses]
  /\ retries \in [Events -> Nat]
  /\ kind \in [Patches -> Kinds \cup {NoFile}]
  /\ row \in [Patches -> Rows \cup {NoFile}]
  /\ built \subseteq Patches \ Unused
  /\ workspace \in Contents
  /\ original \in [Events -> Contents \cup {NoFile}]
  /\ patched \in [Events -> Contents \cup {NoFile}]
  /\ backup \in [Events -> Contents \cup {NoFile}]
  /\ registry \in [Tags -> Contents \cup {NoFile}]
  /\ recorded \subseteq Patches /\ published \subseteq Patches
  /\ pc \in [Threads -> Points]
  /\ job \in [Threads -> Events]
  /\ patch \in [Threads -> Patches \cup {NoPatch}]
  /\ base \in [Threads -> Contents] /\ content \in [Threads -> Contents]
  /\ errors \in 0 .. MaxFaults /\ crashes \in 0 .. MaxFaults

\* A COMPLETED job is what the store says it is: one of its patches passed
\* the recheck, was applied and built, and its announcement is on record, in
\* every interleaving of the job's first run with its retries (process_job).
\* It speaks of the rows alone: whether the message was delivered, and what
\* overlapping retries did to the files meanwhile, it does not say.
CompletedIsRecorded ==
  \A e \in Events : jobs[e] = "COMPLETED" =>
    \E p \in PatchesOf(e) \cap recorded :
      row[p].status = "READY_FOR_BUILD" /\ row[p].apply # "no" /\ p \in built

\* The first run of a job writes to the workspace exactly what its drift
\* check found there and its own patch, however often the context was
\* delivered and whatever the other threads do (_accept_context, the UNIQUE
\* event_id; run_patch, run_apply).  A run that overlaps a retry of its job
\* finds the files of both mixed, and no check sees that; a write of another
\* thread after the check is lost.
FirstRunWritesItsPatch ==
  \A t \in Threads :
    /\ pc[t] \in {"backup", "backing", "install", "fill"}
    /\ retries[job[t]] = 0
    => content[t] = base[t] \cup {patch[t]}

\* An accepted job ends COMPLETED or FAILED, whatever raises and also when it
\* is retried while it runs, unless its process dies.
AcceptedJobEnds ==
  \A e \in Events : jobs[e] # "none" ~> jobs[e] \in Terminal \/ crashes > 0

\* One thread at a time (the worker alone): the announced image contains the
\* announced patch, and the row says so.
PublishedImageHasPatch ==
  [][\A t \in Threads :
       Publish(t) => /\ patch[t] \in registry[TagOf[patch[t]]]
                     /\ row[patch[t]].apply = "applied"]_vars

\* One thread at a time: no code that does not compile comes to the
\* workspace, whatever the LLM returns, over retries, rollbacks and errors
\* ("Safety recheck failed"); a write cut short leaves no code at all.
WorkspaceCompiles == \A p \in workspace \ {Cut} : kind[p] # "broken"

\* The patches of runs that have opened the workspace for writing and have
\* neither ended nor begun to take back what they wrote.
Undecided ==
  {patch[t] : t \in {u \in Threads :
                       pc[u] \in {"fill", "record", "undo"} \cup AppliedPoints}}

\* The workspace and the backups as they are when no write_text is under way.
Filling == {t \in Threads : pc[t] \in DOMAIN NextOf}
Backing(e) == {t \in Threads : pc[t] = "backing" /\ job[t] = e}

WorkspaceToBe == IF Filling = {} THEN workspace ELSE UNION {content[t] : t \in Filling}

BackupToBe ==
  [e \in Events |-> IF Backing(e) = {} THEN backup[e] ELSE UNION {base[t] : t \in Backing(e)}]

Transactions == INSTANCE PatchTransactions
                  WITH Jobs <- Events, None <- NoFile, live <- WorkspaceToBe,
                       open <- Undecided, before <- BackupToBe, image <- registry,
                       announced <- published, broken <- errors + crashes

\* One thread at a time: a run changes the workspace by its own patch alone
\* and ends with an image of exactly the workspace, or takes just that patch
\* out again, also when earlier attempts of its job have left files and
\* backups behind; only where something raised or the process died may a run
\* leave its patch or an empty file (process_job, run_apply, run_build,
\* rollback_apply).
ImplementsTransactions == Transactions!Spec

-----------------------------------------------------------------------------
(* What a line of the repository says and the code does not keep *)

\* A job is retried at most secure_coding_max_retries times: "Retry limit
\* exceeded" (service.py, line 168).  Two requests may count the rows before
\* either has added its own.
RetriesBounded == \A e \in Events : retries[e] <= MaxRetries

\* A retry goes on only without the patch that failed: "Failed to rollback
\* failed patch before retry" (service.py).  What has been rolled back is
\* never in the workspace again.
RolledBackStaysOut ==
  \A p \in workspace \ {Cut} :
    row[p].apply # "rolled_back" \/ \E t \in Threads : pc[t] # "idle"

\* "Patch must pass recheck before apply" (apply.py, line 37): what a run
\* writes passes the recheck of its patch.  Retries that overlap overwrite
\* the file between the recheck and the apply.
AppliedWasRechecked ==
  \A t \in Threads : pc[t] = "fill" => PassesRecheck(patch[t], content[t])

\* secure_coding_apply_rollback_on_failure: bool = True (config.py, line 26):
\* a run that fails leaves none of its patch behind.  An error after the
\* write to the workspace and before run_apply returns rolls nothing back.
FailedRunLeavesNoPatch ==
  [][\A t \in Threads : Fail(t) => patch[t] \notin workspace']_vars

\* current_step="publish_validate" of a COMPLETED job (service.py, line 129):
\* the job was announced to Phase 3.
CompletedWasPublished ==
  \A e \in Events : jobs[e] = "COMPLETED" => published \cap PatchesOf(e) # {}
=============================================================================
