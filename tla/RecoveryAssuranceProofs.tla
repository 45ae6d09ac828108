---------------------- MODULE RecoveryAssuranceProofs -----------------------
(***************************************************************************)
(* Proofs about RecoveryAssurance: what is promoted has passed every       *)
(* required stage, a retry request names the first stage that failed, and  *)
(* a COMPLETED job has been promoted, for any number of threads, processes *)
(* and jobs, and although the processes overwrite each other's store.      *)
(***************************************************************************)
EXTENDS RecoveryAssurance, TLAPS

Positions == DOMAIN RequiredStages

\* The stages before n have passed, the others are still to come.
PassedBefore(r, n) ==
  \A k \in Positions : r[RequiredStages[k]] = IF k < n THEN "pass" ELSE "not_run"

FirstFailure(r, n) ==
  \A k \in Positions :
    r[RequiredStages[k]] = IF k < n THEN "pass" ELSE IF k = n THEN "fail" ELSE "not_run"

AllPassed(r) == \A s \in StageNames : r[s] = "pass"

\* A thread works on a job of its own or, for a runtime context, on none.
JobKnown(t) == pc[t] \notin {"idle", "inject"} => job[t] \in Jobs

\* The results say how far the run of a thread has come.
RunSoFar(t) ==
  /\ pc[t] \in {"deploy", "begin", "judge"} => PassedBefore(results[t], at[t])
  /\ pc[t] \in {"announce", "send"} => FirstFailure(results[t], at[t]) \/ AllPassed(results[t])

WasPromoted(j) == \E m \in promoted : m.job = j

\* No copy of the store that may still be written back, nor the store
\* itself, calls a job COMPLETED too early.
Honest(s) == \A j \in Jobs : s.jobs[j] # NoJob /\ s.jobs[j].status = "COMPLETED" => WasPromoted(j)

AllHonest ==
  /\ Readable => Honest(file)
  /\ \A t \in Threads : copy[t] # NoCopy => Honest(copy[t])
  /\ \A t \in Threads : pc[t] = "close" /\ ~Failed(t) => WasPromoted(job[t])

IInv ==
  /\ TypeOK
  /\ \A t \in Threads : JobKnown(t) /\ RunSoFar(t)
  /\ PromotedPassedAll
  /\ RetriedAtFirstFailure
  /\ AllHonest

Stages   == StageNames \cup {"queued", "finalize", "failed"}
Statuses == {"PENDING", "RUNNING", "COMPLETED", "FAILED"}

-----------------------------------------------------------------------------
(* Stores and results *)

LEMMA PositionsAre ==
  /\ Len(RequiredStages) \in Nat \ {0}
  /\ Positions = 1 .. Len(RequiredStages)
  /\ \A k \in Positions : RequiredStages[k] \in StageNames
  BY RecoveryAssumption DEF RecoveryAssumption, Positions, StageNames

\* A row with another status and stage is a row, in a store that is else the
\* same.
LEMMA UpdatedRow ==
  ASSUME NEW s \in Stores, NEW j \in Jobs, s.jobs[j] # NoJob,
         NEW status \in Statuses, NEW stage \in Stages
  PROVE  /\ WithStatus(s, j, status, stage) \in Stores
         /\ WithStatus(s, j, status, stage).jobs[j].status = status
         /\ \A k \in Jobs : k # j => WithStatus(s, j, status, stage).jobs[k] = s.jobs[k]
  <1> DEFINE new == [s EXCEPT !.jobs[j].status = status, !.jobs[j].stage = stage]
  <1>0. WithStatus(s, j, status, stage) = new
    BY DEF WithStatus
  <1>1. /\ s.jobs \in [Jobs -> JobRows \cup {NoJob}]
        /\ s.stages \in [Jobs -> Results]
        /\ s = [jobs |-> s.jobs, stages |-> s.stages]
    BY DEF Stores
  <1>2. s.jobs[j] \in JobRows
    BY <1>1
  <1> DEFINE row == [s.jobs[j] EXCEPT !.status = status, !.stage = stage]
  <1>3. row \in JobRows /\ row.status = status
    BY <1>2 DEF JobRows, Statuses, Stages
  <1>4. new = [jobs |-> [s.jobs EXCEPT ![j] = row], stages |-> s.stages]
    <2> DEFINE row1 == [s.jobs[j] EXCEPT !.status = status]
               s1 == [s EXCEPT !.jobs[j].status = status]
    <2>1. s1 = [jobs |-> [s.jobs EXCEPT ![j] = row1], stages |-> s.stages]
      BY <1>1
    <2>2. s1.jobs = [s.jobs EXCEPT ![j] = row1] /\ s1.jobs[j] = row1
      BY <1>1, <2>1
    <2>3. row = [row1 EXCEPT !.stage = stage]
      BY <1>2 DEF JobRows
    <2>4. new = [s1 EXCEPT !.jobs[j].stage = stage]
      BY <1>1, <1>2 DEF JobRows
    <2> HIDE DEF s1, row1, row
    <2>5. new = [jobs |-> [s1.jobs EXCEPT ![j] = [s1.jobs[j] EXCEPT !.stage = stage]],
                 stages |-> s1.stages]
      BY <2>1, <2>4
    <2> QED
      BY <1>1, <2>1, <2>2, <2>3, <2>5
  <1> HIDE DEF row, new
  <1>5. [s.jobs EXCEPT ![j] = row] \in [Jobs -> JobRows \cup {NoJob}]
    BY <1>1, <1>3
  <1> QED
    BY <1>0, <1>1, <1>3, <1>4, <1>5 DEF Stores

\* Such an update keeps a store honest if it completes a promoted job only.
LEMMA UpdatedHonest ==
  ASSUME NEW s \in Stores, Honest(s), NEW j \in Jobs, s.jobs[j] # NoJob,
         NEW status \in Statuses, NEW stage \in Stages,
         status = "COMPLETED" => WasPromoted(j)
  PROVE  Honest(WithStatus(s, j, status, stage))
  <1> DEFINE new == WithStatus(s, j, status, stage)
  <1> HIDE DEF new
  <1> SUFFICES Honest(new)
    BY DEF new
  <1>1. /\ new.jobs[j].status = status
        /\ \A k \in Jobs : k # j => new.jobs[k] = s.jobs[k]
    BY UpdatedRow DEF new
  <1> SUFFICES ASSUME NEW k \in Jobs, new.jobs[k] # NoJob, new.jobs[k].status = "COMPLETED"
               PROVE  WasPromoted(k)
    BY DEF Honest
  <1>2. CASE k = j
    BY <1>1, <1>2
  <1>3. CASE k # j
    <2>1. new.jobs[k] = s.jobs[k]
      BY <1>1, <1>3
    <2> QED
      BY <2>1 DEF Honest
  <1> QED
    BY <1>2, <1>3

-----------------------------------------------------------------------------
(* What the store's operations do to the shared state *)

Plain == UNCHANGED <<locals, output, bounds>>

\* file, copies and program counters have their types, and no copy of the
\* store has become dishonest.
StoreGood ==
  /\ file \in Stores \cup {Torn} /\ copy \in [Threads -> Stores \cup {NoCopy}]
  /\ pc \in [Threads -> Points]
  /\ Readable => Honest(file)
  /\ \A t \in Threads : copy[t] # NoCopy => Honest(copy[t])

LEMMA StoreIsGood == IInv => StoreGood
  BY DEF IInv, TypeOK, AllHonest, StoreGood

LEMMA GotoType ==
  ASSUME NEW t \in Threads, NEW point \in Points, pc \in [Threads -> Points], Goto(t, point)
  PROVE  pc' \in [Threads -> Points]
  BY DEF Goto

LEMMA WriteGood ==
  ASSUME StoreGood, NEW t \in Threads, NEW new \in Stores, Honest(new), Write(t, new),
         NEW point \in Points, Goto(t, point), UNCHANGED promoted
  PROVE  StoreGood'
  <1>1. pc' \in [Threads -> Points]
    BY GotoType DEF StoreGood
  <1>2. /\ file' = new
        /\ copy' \in [Threads -> Stores \cup {NoCopy}]
        /\ \A u \in Threads : copy'[u] # NoCopy => copy'[u] = copy[u] /\ copy[u] # NoCopy
    BY DEF StoreGood, Write
  <1>3. Honest(file)' /\ \A u \in Threads : copy'[u] # NoCopy => Honest(copy[u])'
    BY <1>2 DEF StoreGood, Honest, WasPromoted
  <1> QED
    BY <1>1, <1>2, <1>3 DEF StoreGood

LEMMA RaiseGood ==
  ASSUME StoreGood, NEW t \in Threads, Raise(t), UNCHANGED <<file, promoted>>
  PROVE  StoreGood'
  <1>1. pc' \in [Threads -> Points]
    <2>1. "except" \in Points /\ "idle" \in Points
      BY DEF Points, StorePoints
    <2> QED
      BY <2>1, GotoType DEF StoreGood, Raise
  <1>2. /\ copy' \in [Threads -> Stores \cup {NoCopy}]
        /\ \A u \in Threads : copy'[u] # NoCopy => copy'[u] = copy[u] /\ copy[u] # NoCopy
    BY DEF StoreGood, Raise
  <1> QED
    BY <1>1, <1>2 DEF StoreGood, Readable, Honest, WasPromoted

\* A thread's copy, when it has one.
LEMMA CopyGood ==
  ASSUME StoreGood, NEW t \in Threads, copy[t] # NoCopy
  PROVE  copy[t] \in Stores /\ Honest(copy[t])
  BY DEF StoreGood

LEMMA UpdateGood ==
  ASSUME StoreGood, NEW t \in Threads, job[t] \in Jobs, UNCHANGED promoted,
         NEW status \in Statuses, NEW stage \in Stages, NEW next \in Points,
         status = "COMPLETED" => WasPromoted(job[t]),
         UpdateJob(t, status, stage, next)
  PROVE  StoreGood'
  <1>1. CASE HasJob(t)
    <2>1. copy[t] \in Stores /\ Honest(copy[t])
      BY CopyGood DEF UpdateJob
    <2>2. Updated(t, status, stage) \in Stores /\ Honest(Updated(t, status, stage))
      BY <1>1, <2>1, UpdatedRow, UpdatedHonest DEF Updated, HasJob
    <2>3. Write(t, Updated(t, status, stage)) /\ Goto(t, next)
      BY <1>1 DEF UpdateJob
    <2> QED
      BY <2>2, <2>3, WriteGood
  <1>2. CASE ~HasJob(t)
    BY <1>2, RaiseGood DEF UpdateJob
  <1> QED
    BY <1>1, <1>2

LEMMA MarkGood ==
  ASSUME StoreGood, NEW t \in Threads, job[t] \in Jobs, NEW next \in Points,
         MarkRunning(t, next)
  PROVE  StoreGood'
  <1>0. UNCHANGED promoted /\ copy[t] # NoCopy
    BY DEF MarkRunning, output
  <1>1. copy[t] \in Stores /\ Honest(copy[t])
    BY <1>0, CopyGood
  <1>2. CASE HasJob(t)
    <2>1. "RUNNING" \in Statuses /\ "queued" \in Stages
      BY DEF Statuses, Stages
    <2>2. /\ Updated(t, "RUNNING", "queued") \in Stores
          /\ Honest(Updated(t, "RUNNING", "queued"))
      BY <1>1, <1>2, <2>1, UpdatedRow, UpdatedHonest DEF Updated, HasJob
    <2>3. Write(t, Updated(t, "RUNNING", "queued")) /\ Goto(t, next)
      BY <1>2 DEF MarkRunning
    <2> QED
      BY <1>0, <2>2, <2>3, WriteGood
  <1>3. CASE ~HasJob(t)
    <2>1. CASE Raise(t)
      BY <1>0, <1>3, <2>1, RaiseGood DEF MarkRunning
    <2>2. CASE Goto(t, next) /\ copy' = [copy EXCEPT ![t] = NoCopy]
      <3>1. pc' \in [Threads -> Points]
        BY <2>2, GotoType DEF StoreGood
      <3>2. /\ copy' \in [Threads -> Stores \cup {NoCopy}] /\ UNCHANGED file
            /\ \A u \in Threads : copy'[u] # NoCopy => copy'[u] = copy[u] /\ copy[u] # NoCopy
        BY <1>3, <2>2 DEF StoreGood, MarkRunning
      <3> QED
        BY <1>0, <3>1, <3>2 DEF StoreGood, Readable, Honest, WasPromoted
    <2> QED
      BY <1>3, <2>1, <2>2 DEF MarkRunning
  <1> QED
    BY <1>2, <1>3

\* Create adds a row that is PENDING.
LEMMA CreateGood ==
  ASSUME IInv, NEW t \in Threads, Create(t)
  PROVE  StoreGood'
  <1>0. StoreGood /\ job[t] \in Jobs /\ patch[t] \in Patches
    BY StoreIsGood DEF IInv, JobKnown, TypeOK, Create
  <1>1. copy[t] \in Stores /\ Honest(copy[t])
    BY <1>0, CopyGood DEF Create, Write
  <1> DEFINE row == [patch |-> patch[t], status |-> "PENDING", stage |-> "queued"]
             new == [copy[t] EXCEPT !.jobs[job[t]] = row]
  <1>2. row \in JobRows /\ row.status = "PENDING"
    BY <1>0 DEF JobRows
  <1> HIDE DEF row
  <1>3. new = [jobs |-> [copy[t].jobs EXCEPT ![job[t]] = row], stages |-> copy[t].stages]
    BY <1>1 DEF Stores
  <1>4. new \in Stores
    BY <1>0, <1>1, <1>2, <1>3 DEF Stores
  <1>5. \A j \in Jobs : new.jobs[j] = IF j = job[t] THEN row ELSE copy[t].jobs[j]
    BY <1>0, <1>1, <1>3 DEF Stores
  <1>6. Honest(new)
    <2> HIDE DEF new
    <2> QED
      BY <1>1, <1>2, <1>5 DEF Honest
  <1>7. Write(t, new) /\ Goto(t, "run") /\ UNCHANGED promoted /\ "run" \in Points
    BY DEF Create, row, output, Points, StorePoints
  <1> HIDE DEF new
  <1> QED
    BY <1>0, <1>4, <1>6, <1>7, WriteGood

\* SaveStage leaves the jobs of the store alone.
LEMMA SaveGood ==
  ASSUME IInv, NEW t \in Threads, SaveStage(t)
  PROVE  StoreGood'
  <1>0. StoreGood /\ job[t] \in Jobs /\ at[t] \in Positions
    BY StoreIsGood DEF IInv, JobKnown, TypeOK, SaveStage, Positions
  <1> PICK verdict \in {"pass", "fail"} :
        /\ Write(t, [copy[t] EXCEPT !.stages[job[t]][Stage(t)] = verdict])
        /\ Goto(t, AfterStage(t, verdict))
    BY DEF SaveStage
  <1>1. copy[t] \in Stores /\ Honest(copy[t])
    BY <1>0, CopyGood DEF Write
  <1> DEFINE own == [copy[t].stages[job[t]] EXCEPT ![Stage(t)] = verdict]
             new == [copy[t] EXCEPT !.stages[job[t]][Stage(t)] = verdict]
  <1>2. copy[t].stages \in [Jobs -> Results] /\ copy[t].jobs \in [Jobs -> JobRows \cup {NoJob}]
    BY <1>1 DEF Stores
  <1>3. Stage(t) \in StageNames
    BY <1>0, PositionsAre DEF Stage
  <1>4. own \in Results
    BY <1>0, <1>2, <1>3 DEF Results, Verdicts
  <1>5. new = [jobs |-> copy[t].jobs, stages |-> [copy[t].stages EXCEPT ![job[t]] = own]]
    BY <1>0, <1>1, <1>2 DEF Stores
  <1> HIDE DEF own, new
  <1>6. new \in Stores /\ new.jobs = copy[t].jobs
    BY <1>0, <1>2, <1>4, <1>5 DEF Stores
  <1>7. Honest(new)
    BY <1>1, <1>6 DEF Honest
  <1>8. Write(t, new) /\ UNCHANGED promoted
    BY DEF SaveStage, output, new
  <1>9. AfterStage(t, verdict) \in Points
    BY DEF AfterStage, Points, StorePoints, InTry
  <1> QED
    BY <1>0, <1>6, <1>7, <1>8, <1>9, WriteGood

-----------------------------------------------------------------------------
(* The locals of the threads, and the messages *)

RestGood ==
  /\ job \in [Threads -> Jobs \cup {NoJob}]
  /\ patch \in [Threads -> Patches]
  /\ at \in [Threads -> Positions]
  /\ results \in [Threads -> Results]
  /\ promoted \subseteq Messages /\ retried \subseteq Messages
  /\ used \subseteq Jobs
  /\ requests \in 0 .. MaxRequests /\ crashes \in 0 .. MaxCrashes

ThreadGood(t) ==
  /\ JobKnown(t) /\ RunSoFar(t)
  /\ pc[t] = "close" /\ ~Failed(t) => WasPromoted(job[t])

MessagesGood == PromotedPassedAll /\ RetriedAtFirstFailure

\* IInv, in the parts the steps are checked for.
LEMMA Parts == IInv <=> /\ StoreGood /\ RestGood /\ MessagesGood
                        /\ \A t \in Threads : ThreadGood(t)
  BY DEF IInv, TypeOK, AllHonest, StoreGood, RestGood, MessagesGood, ThreadGood, Positions

LEMMA PartsNext ==
  ASSUME StoreGood', RestGood', MessagesGood', \A t \in Threads : ThreadGood(t)'
  PROVE  IInv'
  BY DEF IInv, TypeOK, AllHonest, StoreGood, RestGood, MessagesGood, ThreadGood, Positions

\* A thread that a step leaves alone stays good.
LEMMA Frame ==
  ASSUME NEW u \in Threads, ThreadGood(u), pc'[u] = pc[u], job'[u] = job[u],
         at'[u] = at[u], results'[u] = results[u], promoted \subseteq promoted'
  PROVE  ThreadGood(u)'
  BY DEF ThreadGood, JobKnown, RunSoFar, Failed, WasPromoted, PassedBefore, FirstFailure,
     AllPassed

\* Steps that only move a thread on, or end its run.
Moves == {<<"deploy", "begin">>, <<"begin", "judge">>, <<"announce", "send">>}

LEMMA PlainStep ==
  ASSUME RestGood, MessagesGood, StoreGood, \A u \in Threads : ThreadGood(u),
         NEW t \in Threads, NEW q, Plain, Goto(t, q),
         \/ q = "idle"
         \/ q \in {"run", "except"} /\ pc[t] \notin {"idle", "inject"}
         \/ <<pc[t], q>> \in Moves
  PROVE  RestGood' /\ MessagesGood' /\ \A u \in Threads : ThreadGood(u)'
  <1> USE DEF Plain, locals, output, bounds
  <1>1. RestGood'
    BY DEF RestGood
  <1>2. MessagesGood'
    BY DEF MessagesGood, PromotedPassedAll, RetriedAtFirstFailure
  <1>3. \A u \in Threads : u # t => pc'[u] = pc[u]
    BY DEF Goto, StoreGood
  <1>4. ASSUME NEW u \in Threads, u # t PROVE ThreadGood(u)'
    BY <1>3, <1>4, Frame
  <1>5. ThreadGood(t)'
    <2>1. pc'[t] = q
      BY DEF Goto, StoreGood
    <2>2. CASE q = "idle"
      BY <2>1, <2>2 DEF ThreadGood, JobKnown, RunSoFar
    <2>3. CASE q \in {"run", "except"} /\ pc[t] \notin {"idle", "inject"}
      BY <2>1, <2>3 DEF ThreadGood, JobKnown, RunSoFar
    <2>4. CASE <<pc[t], q>> \in Moves
      BY <2>1, <2>4 DEF ThreadGood, JobKnown, RunSoFar, Moves, PassedBefore, FirstFailure,
         AllPassed
    <2> QED
      BY <2>2, <2>3, <2>4
  <1> QED
    BY <1>1, <1>2, <1>4, <1>5

-----------------------------------------------------------------------------
(* The steps of a thread *)

LEMMA AllPoints == {"idle", "run", "except", "deploy", "begin", "judge", "announce",
                    "send", "close", "create", "rerun", "inject"} \subseteq Points
  BY DEF Points, StorePoints, InTry

\* An exception takes the thread to its except clause, or ends its request.
LEMMA RaiseStep ==
  ASSUME IInv, NEW t \in Threads, Raise(t), UNCHANGED file, Plain
  PROVE  IInv'
  <1>1. StoreGood /\ RestGood /\ MessagesGood /\ \A u \in Threads : ThreadGood(u)
    BY Parts
  <1>2. StoreGood'
    BY <1>1, RaiseGood DEF Plain, output
  <1> DEFINE q == IF pc[t] \in InTry \cup {"send"} THEN "except" ELSE "idle"
  <1>3. /\ Goto(t, q)
        /\ \/ q = "idle"
           \/ q \in {"run", "except"} /\ pc[t] \notin {"idle", "inject"}
    BY DEF Raise, InTry
  <1> HIDE DEF q
  <1>4. RestGood' /\ MessagesGood' /\ \A u \in Threads : ThreadGood(u)'
    BY <1>1, <1>3, PlainStep
  <1> QED
    BY <1>2, <1>4, PartsNext

\* An update_job that only moves the thread on.
LEMMA UpdateStep ==
  ASSUME IInv, NEW t \in Threads, pc[t] \notin {"idle", "inject"}, Plain,
         NEW status \in Statuses, NEW stage \in Stages, NEW next \in {"run", "idle"},
         status = "COMPLETED" => WasPromoted(job[t]),
         UpdateJob(t, status, stage, next)
  PROVE  IInv'
  <1>1. StoreGood /\ RestGood /\ MessagesGood /\ \A u \in Threads : ThreadGood(u)
    BY Parts
  <1>2. CASE ~HasJob(t)
    BY <1>2, RaiseStep DEF UpdateJob
  <1>3. CASE HasJob(t)
    <2>1. job[t] \in Jobs /\ next \in Points
      BY <1>1, AllPoints DEF ThreadGood, JobKnown
    <2>2. StoreGood'
      BY <1>1, <2>1, UpdateGood DEF Plain, output
    <2>3. Goto(t, next)
      BY <1>3 DEF UpdateJob
    <2>4. RestGood' /\ MessagesGood' /\ \A u \in Threads : ThreadGood(u)'
      BY <1>1, <2>3, PlainStep
    <2> QED
      BY <2>2, <2>4, PartsNext
  <1> QED
    BY <1>2, <1>3

\* A write that leaves the store as the thread has read it, or marks its job
\* RUNNING.
LEMMA MoveStep ==
  ASSUME IInv, NEW t \in Threads,
         Inject(t) \/ Announce(t) \/ Deploy(t) \/ BeginStage(t) \/ Create(t)
  PROVE  IInv'
  <1>1. StoreGood /\ RestGood /\ MessagesGood /\ \A u \in Threads : ThreadGood(u)
    BY Parts
  <1>a. ASSUME NEW q \in Points, Goto(t, q), Plain, StoreGood',
               \/ q = "idle"
               \/ q \in {"run", "except"} /\ pc[t] \notin {"idle", "inject"}
               \/ <<pc[t], q>> \in Moves
        PROVE  IInv'
    <2>1. RestGood' /\ MessagesGood' /\ \A u \in Threads : ThreadGood(u)'
      BY <1>1, <1>a, PlainStep
    <2> QED
      BY <1>a, <2>1, PartsNext
  <1>2. CASE Inject(t) \/ Announce(t)
    <2> DEFINE q == IF Inject(t) THEN "idle" ELSE "send"
    <2>1. /\ Write(t, copy[t]) /\ Goto(t, q) /\ Plain /\ UNCHANGED promoted
          /\ q = "idle" \/ <<pc[t], q>> \in Moves
      BY <1>2 DEF Inject, Announce, Plain, output, Moves
    <2>2. q \in Points
      BY AllPoints
    <2> HIDE DEF q
    <2>3. copy[t] \in Stores /\ Honest(copy[t])
      BY <1>1, <2>1, CopyGood DEF Write
    <2>4. StoreGood'
      BY <1>1, <2>1, <2>2, <2>3, WriteGood
    <2> QED
      BY <1>a, <2>1, <2>2, <2>4
  <1>3. CASE Deploy(t) \/ BeginStage(t)
    <2> DEFINE q == IF Deploy(t) THEN "begin" ELSE "judge"
    <2>1. MarkRunning(t, q) /\ <<pc[t], q>> \in Moves /\ job[t] \in Jobs
      BY <1>1, <1>3 DEF Deploy, BeginStage, Moves, ThreadGood, JobKnown
    <2>2. q \in Points
      BY AllPoints
    <2> HIDE DEF q
    <2>3. StoreGood' /\ Plain
      BY <1>1, <2>1, <2>2, MarkGood DEF MarkRunning, Plain
    <2>4. CASE Goto(t, q)
      BY <1>a, <2>1, <2>2, <2>3, <2>4
    <2>5. CASE Raise(t) /\ UNCHANGED file
      BY <2>3, <2>5, RaiseStep
    <2> QED
      BY <2>1, <2>4, <2>5 DEF MarkRunning
  <1>4. CASE Create(t)
    <2>1. "run" \in Points
      BY AllPoints
    <2> QED
      BY <1>4, <1>a, <2>1, CreateGood DEF Create, Plain
  <1> QED
    BY <1>2, <1>3, <1>4

LEMMA ReadStep ==
  ASSUME IInv, NEW t \in Threads, ReadStore(t)
  PROVE  IInv'
  <1>1. StoreGood /\ RestGood /\ MessagesGood /\ \A u \in Threads : ThreadGood(u)
    BY Parts
  <1>2. StoreGood'
    BY <1>1 DEF ReadStore, StoreGood, Readable, Honest, WasPromoted, output
  <1>3. RestGood' /\ MessagesGood'
    BY <1>1 DEF ReadStore, RestGood, MessagesGood, PromotedPassedAll,
       RetriedAtFirstFailure, locals, output, bounds
  <1>4. \A u \in Threads : ThreadGood(u)'
    BY <1>1, Frame DEF ReadStore, locals, output
  <1> QED
    BY <1>2, <1>3, <1>4, PartsNext

LEMMA CloseStep ==
  ASSUME IInv, NEW t \in Threads, Close(t) \/ Except(t) \/ Rerun(t)
  PROVE  IInv'
  <1>1. RestGood /\ ThreadGood(t)
    BY Parts
  <1>2. /\ {"queued", "finalize", "failed"} \subseteq Stages
        /\ {"PENDING", "COMPLETED", "FAILED"} \subseteq Statuses
        /\ Stage(t) \in Stages
    BY <1>1, PositionsAre DEF Stages, Statuses, Stage, RestGood
  <1>3. pc[t] \notin {"idle", "inject"} /\ Plain
    BY DEF Close, Except, Rerun, Plain
  <1>4. CASE Close(t) /\ Failed(t)
    BY <1>2, <1>3, <1>4, UpdateStep DEF Close
  <1>5. CASE Close(t) /\ ~Failed(t)
    <2>1. WasPromoted(job[t])
      BY <1>1, <1>5 DEF Close, ThreadGood
    <2> QED
      BY <1>2, <1>3, <1>5, <2>1, UpdateStep DEF Close
  <1>6. CASE Except(t)
    BY <1>2, <1>3, <1>6, UpdateStep DEF Except
  <1>7. CASE Rerun(t)
    BY <1>2, <1>3, <1>7, UpdateStep DEF Rerun
  <1> QED
    BY <1>4, <1>5, <1>6, <1>7

\* Nothing has passed or failed when a run begins.
LEMMA RunStep ==
  ASSUME IInv, NEW t \in Threads, Run(t)
  PROVE  IInv'
  <1>1. StoreGood /\ RestGood /\ MessagesGood /\ \A u \in Threads : ThreadGood(u)
    BY Parts
  <1>2. /\ job[t] \in Jobs /\ UNCHANGED <<job, patch, output, bounds>>
        /\ UNCHANGED promoted /\ UNCHANGED retried
    BY <1>1 DEF Run, ThreadGood, JobKnown, output
  <1>3. /\ at' = [at EXCEPT ![t] = 1] /\ results' = [results EXCEPT ![t] = NotRun]
        /\ UpdateJob(t, "RUNNING", "queued", "deploy")
    BY DEF Run
  <1>4. StoreGood'
    <2>1. "RUNNING" \in Statuses /\ "queued" \in Stages /\ "deploy" \in Points
      BY AllPoints DEF Statuses, Stages
    <2> QED
      BY <1>1, <1>2, <1>3, <2>1, UpdateGood
  <1>5. 1 \in Positions /\ NotRun \in Results
    BY PositionsAre DEF NotRun, Results, Verdicts
  <1>6. RestGood'
    BY <1>1, <1>2, <1>3, <1>5 DEF RestGood, output, bounds
  <1>7. MessagesGood'
    BY <1>1, <1>2 DEF MessagesGood, PromotedPassedAll, RetriedAtFirstFailure
  <1>8. pc' = [pc EXCEPT ![t] = pc'[t]] /\ pc'[t] \in {"deploy", "idle"}
    BY <1>1, <1>3 DEF UpdateJob, Raise, Goto, Run, InTry, StoreGood
  <1>9. PassedBefore(NotRun, 1)
    BY PositionsAre DEF PassedBefore, NotRun
  <1>10. ASSUME NEW u \in Threads PROVE ThreadGood(u)'
    <2>1. CASE u = t
      <3>1. results'[u] = NotRun /\ at'[u] = 1
        BY <1>1, <1>3, <2>1 DEF RestGood
      <3>2. PassedBefore(results[u], at[u])'
        BY <1>9, <3>1 DEF PassedBefore
      <3> QED
        BY <1>2, <1>8, <2>1, <3>2 DEF ThreadGood, JobKnown, RunSoFar
    <2>2. CASE u # t
      <3>1. pc'[u] = pc[u] /\ at'[u] = at[u] /\ results'[u] = results[u]
        BY <1>1, <1>3, <1>8, <2>2 DEF RestGood, StoreGood
      <3> QED
        BY <1>1, <1>2, <3>1, Frame
    <2> QED
      BY <2>1, <2>2
  <1> QED
    BY <1>4, <1>6, <1>7, <1>10, PartsNext

\* A verdict extends the stages that have passed by one, ends the run with a
\* failure, or completes the list.
LEMMA SaveStep ==
  ASSUME IInv, NEW t \in Threads, SaveStage(t)
  PROVE  IInv'
  <1>1. StoreGood /\ RestGood /\ MessagesGood /\ \A u \in Threads : ThreadGood(u)
    BY Parts
  <1>2. StoreGood'
    BY SaveGood
  <1> PICK verdict \in {"pass", "fail"} :
        /\ results' = [results EXCEPT ![t][Stage(t)] = verdict]
        /\ Goto(t, AfterStage(t, verdict))
        /\ at' = [at EXCEPT ![t] = IF AfterStage(t, verdict) = "begin" THEN @ + 1 ELSE @]
    BY DEF SaveStage
  <1> DEFINE len  == Len(RequiredStages)
             n    == at[t]
             old  == results[t]
             next == AfterStage(t, verdict)
             now  == [old EXCEPT ![Stage(t)] = verdict]
             m    == IF next = "begin" THEN n + 1 ELSE n
  <1>3. /\ UNCHANGED <<job, patch, output, bounds>> /\ UNCHANGED promoted
        /\ UNCHANGED retried /\ pc[t] = "judge"
    BY DEF SaveStage, output
  <1>4. /\ n \in Positions /\ old \in Results /\ Stage(t) = RequiredStages[n]
        /\ len \in Nat \ {0} /\ Positions = 1 .. len /\ Stage(t) \in StageNames
        /\ job[t] \in Jobs
    BY <1>1, <1>3, PositionsAre DEF RestGood, Stage, ThreadGood, JobKnown
  <1>5. /\ at' = [at EXCEPT ![t] = m] /\ results' = [results EXCEPT ![t] = now]
        /\ pc' = [pc EXCEPT ![t] = next]
    BY DEF Goto
  <1>6. next = IF verdict = "pass" /\ n < len THEN "begin" ELSE "announce"
    BY DEF AfterStage
  <1>7. PassedBefore(old, n)
    BY <1>1, <1>3 DEF ThreadGood, RunSoFar
  <1>8. /\ now \in Results
        /\ \A k \in Positions :
             now[RequiredStages[k]] = IF k = n THEN verdict ELSE old[RequiredStages[k]]
    <2>1. now \in Results
      BY <1>4 DEF Results, Verdicts
    <2>2. \A k \in Positions : RequiredStages[k] = RequiredStages[n] => k = n
      BY <1>4, RecoveryAssumption DEF RecoveryAssumption, Positions
    <2>3. \A k \in Positions : RequiredStages[k] \in StageNames
      BY PositionsAre
    <2> QED
      BY <1>4, <2>1, <2>2, <2>3 DEF Results
  <1> HIDE DEF now
  <1>9. m \in Positions
    BY <1>4, <1>6
  <1>10. next = "begin" => PassedBefore(now, m)
    BY <1>4, <1>6, <1>7, <1>8 DEF PassedBefore
  <1>11. next = "announce" => FirstFailure(now, m) \/ AllPassed(now)
    <2>1. CASE verdict = "fail"
      BY <1>4, <1>6, <1>7, <1>8, <2>1 DEF PassedBefore, FirstFailure
    <2>2. CASE verdict = "pass" /\ ~(n < len)
      <3>1. \A k \in Positions : now[RequiredStages[k]] = "pass"
        BY <1>4, <1>7, <1>8, <2>2 DEF PassedBefore
      <3> QED
        BY <3>1 DEF AllPassed, StageNames, Positions
    <2> QED
      BY <1>6, <2>1, <2>2
  <1>12. next \in {"begin", "announce"}
    BY <1>6
  <1> HIDE DEF m, next, n, old
  <1>13. RestGood'
    <2>1. at' \in [Threads -> Positions]
      <3>1. at \in [Threads -> Positions] /\ at' = [at EXCEPT ![t] = m]
        BY <1>1, <1>5 DEF RestGood
      <3> QED
        BY <1>9, <3>1
    <2>2. results' \in [Threads -> Results]
      <3>1. results \in [Threads -> Results] /\ results' = [results EXCEPT ![t] = now]
        BY <1>1, <1>5 DEF RestGood
      <3>2. now \in Results
        BY <1>8
      <3> QED
        BY <3>1, <3>2
    <2> QED
      BY <1>1, <1>3, <2>1, <2>2 DEF RestGood, output, bounds
  <1>14. MessagesGood'
    BY <1>1, <1>3 DEF MessagesGood, PromotedPassedAll, RetriedAtFirstFailure
  <1>15. ASSUME NEW u \in Threads PROVE ThreadGood(u)'
    <2>1. CASE u = t
      <3>1. results'[u] = now /\ at'[u] = m /\ pc'[u] = next /\ job'[u] \in Jobs
        BY <1>1, <1>3, <1>4, <1>5, <2>1 DEF RestGood, StoreGood
      <3>2. /\ next = "begin" => PassedBefore(results'[u], at'[u])
            /\ next = "announce" => FirstFailure(results'[u], at'[u]) \/ AllPassed(results'[u])
        BY <1>10, <1>11, <3>1
      <3> QED
        BY <1>12, <3>1, <3>2 DEF ThreadGood, JobKnown, RunSoFar, PassedBefore, FirstFailure,
           AllPassed
    <2>2. CASE u # t
      <3>1. pc'[u] = pc[u] /\ at'[u] = at[u] /\ results'[u] = results[u]
        BY <1>1, <1>5, <2>2 DEF RestGood, StoreGood
      <3> QED
        BY <1>1, <1>3, <3>1, Frame
    <2> QED
      BY <2>1, <2>2
  <1> QED
    BY <1>2, <1>13, <1>14, <1>15, PartsNext

\* What a run announces at its end is what it has seen of its stages.
LEMMA SendStep ==
  ASSUME IInv, NEW t \in Threads, Send(t)
  PROVE  IInv'
  <1>1. StoreGood /\ RestGood /\ MessagesGood /\ \A u \in Threads : ThreadGood(u)
    BY Parts
  <1> DEFINE message == [job |-> job[t], patch |-> patch[t], results |-> results[t]]
  <1>2. /\ Goto(t, "close") /\ UNCHANGED <<file, copy, locals, bounds>> /\ pc[t] = "send"
        /\ IF Failed(t) THEN retried' = retried \cup {message} /\ UNCHANGED promoted
                        ELSE promoted' = promoted \cup {message} /\ UNCHANGED retried
    BY DEF Send
  <1>3. /\ job[t] \in Jobs /\ results[t] \in Results /\ at[t] \in Positions
        /\ FirstFailure(results[t], at[t]) \/ AllPassed(results[t])
    BY <1>1, <1>2 DEF ThreadGood, JobKnown, RunSoFar, RestGood
  <1>4. message \in Messages
    BY <1>1, <1>3 DEF Messages, RestGood
  <1>5. promoted \subseteq promoted' /\ promoted' \subseteq Messages /\ retried' \subseteq Messages
    <2> HIDE DEF message
    <2> QED
      BY <1>1, <1>2, <1>4 DEF RestGood
  <1>6. pc' = [pc EXCEPT ![t] = "close"] /\ pc' \in [Threads -> Points]
    BY <1>1, <1>2, AllPoints DEF Goto, StoreGood
  <1>7. StoreGood'
    <2>1. \A j \in Jobs : WasPromoted(j) => WasPromoted(j)'
      BY <1>5 DEF WasPromoted
    <2> QED
      BY <1>1, <1>2, <1>6, <2>1 DEF StoreGood, Readable, Honest
  <1>8. RestGood'
    BY <1>1, <1>2, <1>5 DEF RestGood, locals, bounds
  <1>9. ~Failed(t) => PromotedPassedAll'
    <2>1. ~Failed(t) => AllPassed(results[t])
      BY <1>3, PositionsAre DEF FirstFailure, Failed
    <2> QED
      BY <1>1, <1>2, <2>1 DEF MessagesGood, PromotedPassedAll, AllPassed
  <1>10. Failed(t) => RetriedAtFirstFailure'
    <2>1. Failed(t) => FirstFailure(results[t], at[t])
      BY <1>3 DEF AllPassed, Failed
    <2> SUFFICES ASSUME Failed(t) PROVE RetriedAtFirstFailure'
      OBVIOUS
    <2>2. /\ message.results = results[t] /\ retried' = retried \cup {message}
          /\ FirstFailure(message.results, at[t])
      BY <1>2, <2>1
    <2> HIDE DEF message
    <2>3. ASSUME NEW m \in retried'
          PROVE  \E i \in DOMAIN RequiredStages : FirstFailure(m.results, i)
      <3>1. CASE m \in retried
        BY <1>1, <3>1 DEF MessagesGood, RetriedAtFirstFailure, FirstFailure, Positions
      <3>2. CASE m = message
        BY <1>3, <2>2, <3>2 DEF Positions
      <3> QED
        BY <2>2, <2>3, <3>1, <3>2
    <2> QED
      BY <2>3 DEF RetriedAtFirstFailure, FirstFailure, Positions
  <1>11. MessagesGood'
    BY <1>1, <1>2, <1>9, <1>10 DEF MessagesGood, PromotedPassedAll, RetriedAtFirstFailure
  <1>12. ASSUME NEW u \in Threads PROVE ThreadGood(u)'
    <2>1. CASE u = t
      <3>1. pc'[u] = "close" /\ job'[u] = job[t] /\ results'[u] = results[t]
        BY <1>1, <1>2, <1>6, <2>1 DEF StoreGood, locals
      <3>2. Failed(u)' = Failed(t)
        BY <3>1 DEF Failed
      <3>3. ~Failed(t) => WasPromoted(job[u])'
        <4>1. message.job = job'[u] /\ (~Failed(t) => message \in promoted')
          BY <1>2, <3>1
        <4> HIDE DEF message
        <4> QED
          BY <4>1 DEF WasPromoted
      <3> QED
        BY <1>3, <3>1, <3>2, <3>3 DEF ThreadGood, JobKnown, RunSoFar
    <2>2. CASE u # t
      <3>1. /\ pc'[u] = pc[u] /\ job'[u] = job[u] /\ at'[u] = at[u]
            /\ results'[u] = results[u]
        BY <1>1, <1>2, <1>6, <2>2 DEF StoreGood, locals
      <3> QED
        BY <1>1, <1>5, <3>1, Frame
    <2> QED
      BY <2>1, <2>2
  <1> QED
    BY <1>7, <1>8, <1>11, <1>12, PartsNext

-----------------------------------------------------------------------------
(* Requests and crashes *)

\* A thread that takes a job on.
LEMMA TakeStep ==
  ASSUME IInv, NEW t \in Threads, NEW j \in Jobs, NEW p \in Patches,
         NEW q \in {"create", "rerun"}, Goto(t, q),
         job' = [job EXCEPT ![t] = j], patch' = [patch EXCEPT ![t] = p],
         used' \subseteq Jobs, requests' \in 0 .. MaxRequests,
         UNCHANGED <<file, copy, at, results, output, crashes>>
  PROVE  IInv'
  <1>1. StoreGood /\ RestGood /\ MessagesGood /\ \A u \in Threads : ThreadGood(u)
    BY Parts
  <1>2. UNCHANGED promoted /\ UNCHANGED retried
    BY DEF output
  <1>3. pc' = [pc EXCEPT ![t] = q] /\ pc' \in [Threads -> Points]
    BY <1>1, AllPoints DEF Goto, StoreGood
  <1>4. StoreGood'
    BY <1>1, <1>2, <1>3 DEF StoreGood, Readable, Honest, WasPromoted
  <1>5. RestGood'
    <2>1. job' \in [Threads -> Jobs \cup {NoJob}] /\ patch' \in [Threads -> Patches]
      BY <1>1 DEF RestGood
    <2> QED
      BY <1>1, <1>2, <2>1 DEF RestGood
  <1>6. MessagesGood'
    BY <1>1, <1>2 DEF MessagesGood, PromotedPassedAll, RetriedAtFirstFailure
  <1>7. ASSUME NEW u \in Threads PROVE ThreadGood(u)'
    <2>1. CASE u = t
      <3>1. pc'[u] = q /\ job'[u] = j
        BY <1>1, <1>3, <2>1 DEF StoreGood, RestGood
      <3> QED
        BY <3>1 DEF ThreadGood, JobKnown, RunSoFar
    <2>2. CASE u # t
      <3>1. /\ pc'[u] = pc[u] /\ job'[u] = job[u] /\ at'[u] = at[u]
            /\ results'[u] = results[u]
        BY <1>1, <1>3, <2>2 DEF StoreGood, RestGood
      <3> QED
        BY <1>1, <1>2, <3>1, Frame
    <2> QED
      BY <2>1, <2>2
  <1> QED
    BY <1>4, <1>5, <1>6, <1>7, PartsNext

\* A thread that takes no job on, or gives up the one it has.
LEMMA DropStep ==
  ASSUME IInv, NEW t \in Threads, NEW q \in {"idle", "inject"},
         Goto(t, q), copy' \in {copy, [copy EXCEPT ![t] = NoCopy]},
         requests' \in 0 .. MaxRequests, crashes' \in 0 .. MaxCrashes,
         file' \in {file, Torn}, UNCHANGED <<locals, output, used>>
  PROVE  IInv'
  <1>1. StoreGood /\ RestGood /\ MessagesGood /\ \A u \in Threads : ThreadGood(u)
    BY Parts
  <1>2. UNCHANGED promoted /\ UNCHANGED retried
    BY DEF output
  <1>3. pc' = [pc EXCEPT ![t] = q] /\ pc' \in [Threads -> Points]
    BY <1>1, AllPoints DEF Goto, StoreGood
  <1>4. /\ copy' \in [Threads -> Stores \cup {NoCopy}]
        /\ \A u \in Threads : copy'[u] # NoCopy => copy'[u] = copy[u] /\ copy[u] # NoCopy
    BY <1>1 DEF StoreGood
  <1>5. StoreGood'
    <2>1. \A j : WasPromoted(j)' = WasPromoted(j)
      BY <1>2 DEF WasPromoted
    <2>2. file' \in Stores \cup {Torn} /\ (Readable' => Honest(file)')
      BY <1>1, <2>1 DEF StoreGood, Readable, Honest
    <2>3. ASSUME NEW u \in Threads, copy'[u] # NoCopy PROVE Honest(copy[u])'
      <3>1. copy'[u] = copy[u] /\ Honest(copy[u])
        BY <1>1, <1>4, <2>3 DEF StoreGood
      <3> QED
        BY <2>1, <3>1 DEF Honest
    <2> QED
      BY <1>3, <1>4, <2>2, <2>3 DEF StoreGood
  <1>6. RestGood'
    BY <1>1, <1>2 DEF RestGood, locals
  <1>7. MessagesGood'
    BY <1>1, <1>2 DEF MessagesGood, PromotedPassedAll, RetriedAtFirstFailure
  <1>8. ASSUME NEW u \in Threads PROVE ThreadGood(u)'
    <2>1. CASE u = t
      <3>1. pc'[u] = q
        BY <1>1, <1>3, <2>1 DEF StoreGood
      <3> QED
        BY <3>1 DEF ThreadGood, JobKnown, RunSoFar
    <2>2. CASE u # t
      <3>1. pc'[u] = pc[u]
        BY <1>1, <1>3, <2>2 DEF StoreGood
      <3> QED
        BY <1>1, <1>2, <3>1, Frame DEF locals
    <2> QED
      BY <2>1, <2>2
  <1> QED
    BY <1>5, <1>6, <1>7, <1>8, PartsNext

LEMMA RequestStep ==
  ASSUME IInv, NEW t \in Threads,
         \/ \E p \in Patches : Submit(t, p)
         \/ \E j \in Jobs : AskRerun(t, j)
         \/ AskInject(t)
         \/ Crash(t)
  PROVE  IInv'
  <1>1. StoreGood /\ RestGood
    BY Parts
  <1>2. /\ MaxRequests \in Nat /\ MaxCrashes \in Nat
        /\ requests \in 0 .. MaxRequests /\ crashes \in 0 .. MaxCrashes
        /\ used \subseteq Jobs /\ pc \in [Threads -> Points]
    BY <1>1, RecoveryAssumption DEF RecoveryAssumption, RestGood, StoreGood
  <1>3. ASSUME NEW p \in Patches, Submit(t, p) PROVE IInv'
    <2>1. /\ requests' \in 0 .. MaxRequests /\ pc[t] = "idle"
          /\ UNCHANGED <<file, copy, at, results, output, crashes>>
      BY <1>2, <1>3 DEF Submit
    <2>2. CASE ActiveJobs(p) = {}
      <3>1. PICK j \in Jobs \ used : /\ used' = used \cup {j}
                                     /\ job' = [job EXCEPT ![t] = j]
                                     /\ patch' = [patch EXCEPT ![t] = p]
                                     /\ Goto(t, "create")
        BY <1>3, <2>2 DEF Submit
      <3>2. used' \subseteq Jobs
        BY <1>2, <3>1
      <3> QED
        BY <2>1, <3>1, <3>2, TakeStep
    <2>3. CASE ActiveJobs(p) # {}
      <3>1. UNCHANGED <<used, job, patch, pc>>
        BY <1>3, <2>3 DEF Submit
      <3>2. Goto(t, "idle")
        BY <1>2, <2>1, <3>1 DEF Goto
      <3> QED
        BY <1>2, <2>1, <3>1, <3>2, DropStep DEF locals
    <2> QED
      BY <2>2, <2>3
  <1>4. ASSUME NEW j \in Jobs, AskRerun(t, j) PROVE IInv'
    <2>1. file.jobs[j].patch \in Patches
      BY <1>1, <1>4 DEF AskRerun, StoreGood, Readable, Stores, JobRows
    <2>2. requests' \in 0 .. MaxRequests /\ used' \subseteq Jobs
      BY <1>2, <1>4 DEF AskRerun
    <2> QED
      BY <1>4, <2>1, <2>2, TakeStep DEF AskRerun
  <1>5. CASE AskInject(t)
    <2>1. requests' \in 0 .. MaxRequests /\ crashes' \in 0 .. MaxCrashes
      BY <1>2, <1>5 DEF AskInject
    <2> QED
      BY <1>5, <2>1, DropStep DEF AskInject
  <1>6. CASE Crash(t)
    <2>1. requests' \in 0 .. MaxRequests /\ crashes' \in 0 .. MaxCrashes
      BY <1>2, <1>6 DEF Crash
    <2> QED
      BY <1>6, <2>1, DropStep DEF Crash
  <1> QED
    BY <1>3, <1>4, <1>5, <1>6

-----------------------------------------------------------------------------
(* The theorems *)

LEMMA InitInv == Init => IInv
  <1> SUFFICES ASSUME Init PROVE IInv
    OBVIOUS
  <1>1. NotRun \in Results
    BY DEF NotRun, Results, Verdicts
  <1>2. file \in Stores
    BY <1>1 DEF Init, Stores
  <1>3. StoreGood
    BY <1>2, AllPoints DEF Init, StoreGood, Honest
  <1>4. 1 \in Positions
    BY PositionsAre
  <1>5. RestGood
    BY <1>1, <1>4, RecoveryAssumption DEF Init, RestGood, RecoveryAssumption
  <1>6. MessagesGood
    BY DEF Init, MessagesGood, PromotedPassedAll, RetriedAtFirstFailure
  <1>7. \A t \in Threads : ThreadGood(t)
    BY DEF Init, ThreadGood, JobKnown, RunSoFar
  <1> QED
    BY <1>3, <1>5, <1>6, <1>7, Parts

LEMMA StepInv ==
  ASSUME IInv, NEW t \in Threads, Step(t)
  PROVE  IInv'
  <1>1. CASE Create(t) \/ Inject(t) \/ Deploy(t) \/ BeginStage(t) \/ Announce(t)
    BY <1>1, MoveStep
  <1>2. CASE TornRead(t) \/ StageRaises(t) \/ SendFails(t)
    <2>1. Raise(t) /\ UNCHANGED file /\ Plain
      BY <1>2 DEF TornRead, StageRaises, SendFails, Plain
    <2> QED
      BY <2>1, RaiseStep
  <1>3. CASE ReadStore(t)
    BY <1>3, ReadStep
  <1>4. CASE Close(t) \/ Except(t) \/ Rerun(t)
    BY <1>4, CloseStep
  <1>5. CASE Run(t)
    BY <1>5, RunStep
  <1>6. CASE SaveStage(t)
    BY <1>6, SaveStep
  <1>7. CASE Send(t)
    BY <1>7, SendStep
  <1> QED
    BY <1>1, <1>2, <1>3, <1>4, <1>5, <1>6, <1>7 DEF Step

\* IInv is inductive: it holds in every reachable state.
THEOREM Invariance == Spec => []IInv
  <1>1. IInv /\ [Next]_vars => IInv'
    <2> SUFFICES ASSUME IInv, [Next]_vars PROVE IInv'
      OBVIOUS
    <2>1. CASE UNCHANGED vars
      <3>1. StoreGood /\ RestGood /\ MessagesGood /\ \A u \in Threads : ThreadGood(u)
        BY Parts
      <3>2. UNCHANGED <<file, copy, pc, job, patch, at, results, promoted, retried, used,
                        requests, crashes>>
        BY <2>1 DEF vars
      <3>3. StoreGood'
        BY <3>1, <3>2 DEF StoreGood, Readable, Honest, WasPromoted
      <3>4. RestGood'
        BY <3>1, <3>2 DEF RestGood
      <3>5. MessagesGood'
        BY <3>1, <3>2 DEF MessagesGood, PromotedPassedAll, RetriedAtFirstFailure
      <3>6. \A u \in Threads : ThreadGood(u)'
        BY <3>1, <3>2, Frame
      <3> QED
        BY <3>3, <3>4, <3>5, <3>6, PartsNext
    <2>2. CASE Next
      BY <2>2, StepInv, RequestStep DEF Next
    <2> QED
      BY <2>1, <2>2
  <1> QED
    BY <1>1, InitInv, PTL DEF Spec

\* The two processes' store, their threads' copies of it, and the messages
\* have their types whatever the interleaving of reads and writes.
THEOREM TypeCorrect == Spec => []TypeOK
  <1>1. IInv => TypeOK
    BY DEF IInv
  <1> QED
    BY <1>1, Invariance, PTL

\* process_validation promotes only what passed every required stage in that
\* same run, although runs overwrite each other's results in the store.
THEOREM PromotedOnlyIfPassed == Spec => []PromotedPassedAll
  <1>1. IInv => PromotedPassedAll
    BY DEF IInv
  <1> QED
    BY <1>1, Invariance, PTL

\* _fail sends the results of a run that stopped at its first failed stage.
THEOREM RetryNamesFirstFailure == Spec => []RetriedAtFirstFailure
  <1>1. IInv => RetriedAtFirstFailure
    BY DEF IInv
  <1> QED
    BY <1>1, Invariance, PTL

\* A job is COMPLETED in the store only after its promotion was published,
\* although any thread may write an old copy of the store back.
THEOREM CompletedImpliesPromoted == Spec => []CompletedWasPromoted
  <1>1. IInv => CompletedWasPromoted
    BY DEF IInv, AllHonest, Readable, Honest, WasPromoted, CompletedWasPromoted
  <1> QED
    BY <1>1, Invariance, PTL
=============================================================================
