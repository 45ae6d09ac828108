------------------------- MODULE SecureCodingProofs --------------------------
(***************************************************************************)
(* Proofs about SecureCodingJobs, for any number of threads, jobs,         *)
(* patches, retries, errors and crashes: every variable keeps its type, a  *)
(* completed job is what its rows say, and the first run of a job writes   *)
(* its own patch and nothing else.  Where the worker is the only thread,   *)
(* no broken code comes to the workspace, the announced image holds the    *)
(* announced patch, and every run is a transaction that only an error or   *)
(* a crash leaves half done.                                               *)
(***************************************************************************)
EXTENDS SecureCodingJobs, TLAPS

-----------------------------------------------------------------------------
(* Where a thread is tells what the row of its patch says *)

\* The points at which the row has passed the recheck, at which it is of the
\* thread's job, and at which it exists.
ReadyPoints == {"apply", "backup", "backing", "install", "fill", "record"} \cup AppliedPoints
JobPoints   == {"recheck"} \cup ReadyPoints
RowPoints   == JobPoints \cup {"undo", "undoing", "undone", "revert", "reverting", "reverted"}

\* The points at which no other run has the same patch.
OwnPoints == {"save", "insert"} \cup JobPoints

ThreadHolds(t) ==
  /\ pc[t] \in OwnPoints \cup RowPoints => patch[t] \in Patches
  /\ pc[t] \in {"save", "insert"} => row[patch[t]] = NoFile
  /\ pc[t] \in RowPoints => row[patch[t]] # NoFile
  /\ pc[t] \in JobPoints => row[patch[t]].job = job[t]
  /\ pc[t] \in JobPoints \ {"complete"} => patch[t] \notin recorded
  /\ pc[t] \in ReadyPoints => row[patch[t]].status = "READY_FOR_BUILD"
  /\ pc[t] \in AppliedPoints => row[patch[t]].apply # "no"
  /\ pc[t] \in {"publish", "complete"} => patch[t] \in built
  /\ pc[t] = "complete" => patch[t] \in recorded

OwnPatch ==
  \A t, u \in Threads :
    t # u /\ pc[t] \in OwnPoints /\ pc[u] \in OwnPoints => patch[t] # patch[u]

Types ==
  /\ jobs \in [Events -> Statuses]
  /\ row \in [Patches -> Rows \cup {NoFile}]
  /\ pc \in [Threads -> Points]
  /\ job \in [Threads -> Events]
  /\ patch \in [Threads -> Patches \cup {NoPatch}]

\* What the lists name has a row.
Lists ==
  /\ built \subseteq Patches \ Unused /\ recorded \subseteq Patches \ Unused
  /\ published \subseteq recorded

PInv ==
  /\ Types /\ Lists /\ OwnPatch /\ (\A t \in Threads : ThreadHolds(t))
  /\ CompletedIsRecorded

-----------------------------------------------------------------------------
(* Steps *)

\* Requests, errors and deaths.
Outside(t) ==
  \/ \E e \in Events : Accept(t, e)
  \/ \E e \in Events, p \in Patches \cup {NoPatch} : Retry(t, e, p)
  \/ Raise(t)
  \/ Crash(t)

LEMMA RowIsNoFile ==
  ASSUME NEW r \in Rows
  PROVE  r # NoFile
  BY JobsAssumption DEF JobsAssumption

\* What thread t does to the rows.
RowMoves(t) ==
  \A p \in Patches :
    \/ row'[p] = row[p]
    \/ /\ p = patch[t] /\ pc[t] = "insert"
       /\ row'[p] \in Rows /\ row'[p].job = job[t]
    \/ /\ p = patch[t] /\ pc[t] = "recheck"
       /\ row'[p] \in Rows /\ row'[p].job = row[p].job /\ row'[p].apply = row[p].apply
    \/ /\ p = patch[t] /\ pc[t] \in {"record", "undone", "reverted"}
       /\ row'[p] \in Rows /\ row'[p].job = row[p].job
       /\ row'[p].status = row[p].status /\ row'[p].apply # "no"

\* And to the messages, the builds and the jobs.
OtherMoves(t) ==
  /\ \/ UNCHANGED <<recorded, published>>
     \/ /\ pc[t] = "publish" /\ recorded' = recorded \cup {patch[t]}
        /\ published' \in {published, published \cup {patch[t]}}
  /\ built' = built \/ (pc[t] = "built" /\ built' = built \cup {patch[t]})
  /\ \/ jobs' = jobs
     \/ pc[t] = "complete" /\ jobs' = [jobs EXCEPT ![job[t]] = "COMPLETED"]
     \/ \E e \in Events, s \in Statuses \ {"COMPLETED", "none"} : jobs' = [jobs EXCEPT ![e] = s]

\* A thread goes where its steps lead.
Alone(t) ==
  /\ \E point \in Points : pc' = [pc EXCEPT ![t] = point]
  /\ job' = job \/ \E e \in Events : job' = [job EXCEPT ![t] = e]
  /\ patch' = patch \/ \E p \in Patches \cup {NoPatch} : patch' = [patch EXCEPT ![t] = p]

LEMMA NextOfIs ==
  /\ DOMAIN NextOf = {"fill", "undoing", "reverting"}
  /\ NextOf["fill"] = "record" /\ NextOf["undoing"] = "undone" /\ NextOf["reverting"] = "reverted"
  BY DEF NextOf

LEMMA SaveRowMoves ==
  ASSUME Types, NEW p \in Patches, NEW new \in Rows, SaveRow(p, new)
  PROVE  row'[p] = new /\ \A q \in Patches \ {p} : row'[q] = row[q]
  BY DEF SaveRow, Types

LEMMA RowsMove ==
  ASSUME PInv, NEW t \in Threads, Run(t)
  PROVE  RowMoves(t)
  <1>0. Types /\ ThreadHolds(t)
    BY DEF PInv
  <1>1. ASSUME UNCHANGED row PROVE RowMoves(t)
    BY <1>1 DEF RowMoves
  <1>r. pc[t] \in RowPoints => patch[t] \in Patches /\ row[patch[t]] \in Rows
    BY <1>0 DEF ThreadHolds, Types
  <1>2. CASE SavePatch(t)
    <2> DEFINE new == [job |-> job[t], status |-> "READY_FOR_RECHECK", apply |-> "no"]
    <2>1. SaveRow(patch[t], new) /\ pc[t] = "insert"
      BY <1>2 DEF SavePatch
    <2>2. new \in Rows /\ new.job = job[t]
      BY <1>0 DEF Rows, Types
    <2>3. patch[t] \in Patches
      BY <1>0, <2>1 DEF ThreadHolds, OwnPoints
    <2> HIDE DEF new
    <2>4. row'[patch[t]] = new /\ \A q \in Patches \ {patch[t]} : row'[q] = row[q]
      BY <1>0, <2>1, <2>2, <2>3, SaveRowMoves
    <2> QED
      BY <2>1, <2>2, <2>4 DEF RowMoves
  <1>3. CASE Recheck(t)
    <2>1. PICK s \in {"READY_FOR_BUILD", "REJECTED"} :
            SaveRow(patch[t], [row[patch[t]] EXCEPT !.status = s])
      BY <1>3 DEF Recheck
    <2> DEFINE new == [row[patch[t]] EXCEPT !.status = s]
    <2>2. pc[t] = "recheck" /\ patch[t] \in Patches /\ row[patch[t]] \in Rows
      BY <1>r, <1>3 DEF Recheck, RowPoints, JobPoints
    <2>3. new \in Rows /\ new.job = row[patch[t]].job /\ new.apply = row[patch[t]].apply
      BY <2>2 DEF Rows
    <2> HIDE DEF new
    <2>4. row'[patch[t]] = new /\ \A q \in Patches \ {patch[t]} : row'[q] = row[q]
      BY <1>0, <2>1, <2>2, <2>3, SaveRowMoves DEF new
    <2> QED
      BY <2>2, <2>3, <2>4 DEF RowMoves
  <1>4. CASE RecordApply(t) \/ RecordRestore(t)
    <2>1. PICK a \in {"applied", "rolled_back"} :
            SaveRow(patch[t], [row[patch[t]] EXCEPT !.apply = a])
      BY <1>4 DEF RecordApply, RecordRestore
    <2> DEFINE new == [row[patch[t]] EXCEPT !.apply = a]
    <2>2. pc[t] \in {"record", "undone", "reverted"} /\ patch[t] \in Patches /\ row[patch[t]] \in Rows
      BY <1>r, <1>4 DEF RecordApply, RecordRestore, RowPoints, JobPoints, ReadyPoints
    <2>3. /\ new \in Rows /\ new.job = row[patch[t]].job
          /\ new.status = row[patch[t]].status /\ new.apply # "no"
      BY <2>2 DEF Rows
    <2> HIDE DEF new
    <2>4. row'[patch[t]] = new /\ \A q \in Patches \ {patch[t]} : row'[q] = row[q]
      BY <1>0, <2>1, <2>2, <2>3, SaveRowMoves DEF new
    <2> QED
      BY <2>2, <2>3, <2>4 DEF RowMoves
  <1> QED
    BY <1>1, <1>2, <1>3, <1>4
       DEF Run, store, CreateJob, Start, Generate, GenerateFails, WritePatched, CheckDrift,
            OpenBackup, WriteBackup, OpenWorkspace, WriteWorkspace, Build, BuildFails, RecordBuild,
            Publish, Complete, Restore, Fail, Admit

LEMMA OthersMove ==
  ASSUME PInv, NEW t \in Threads, Run(t)
  PROVE  OtherMoves(t) /\ Alone(t) /\ job' = job
  <1>0. Types
    BY DEF PInv
  <1>j. job[t] \in Events
    BY <1>0 DEF Types
  <1>s. \A s \in {"PENDING", "RUNNING", "FAILED"} : SetStatus(job[t], s) =>
          \E e \in Events, x \in Statuses \ {"COMPLETED", "none"} : jobs' = [jobs EXCEPT ![e] = x]
    BY <1>j DEF SetStatus, Statuses
  <1>1. OtherMoves(t)
    <2>1. CASE Complete(t)
      BY <2>1 DEF Complete, OtherMoves, SetStatus, store, bus
    <2>2. CASE Publish(t)
      BY <2>2 DEF Publish, OtherMoves, store
    <2>3. CASE RecordBuild(t)
      BY <2>3 DEF RecordBuild, OtherMoves, bus
    <2>4. CASE ~(Complete(t) \/ Publish(t) \/ RecordBuild(t))
      <3>1. UNCHANGED <<recorded, published, built>>
        BY <2>4 DEF Run, store, bus, CreateJob, Start, Generate, GenerateFails, WritePatched,
             SavePatch, Recheck, CheckDrift, OpenBackup, WriteBackup, OpenWorkspace, WriteWorkspace,
             RecordApply, Build, BuildFails, Restore, RecordRestore, Fail, Admit
      <3>2. jobs' = jobs \/ \E s \in {"PENDING", "RUNNING", "FAILED"} : SetStatus(job[t], s)
        BY <2>4 DEF Run, store, CreateJob, Start, Generate, GenerateFails, WritePatched, SavePatch,
             Recheck, CheckDrift, OpenBackup, WriteBackup, OpenWorkspace, WriteWorkspace,
             RecordApply, Build, BuildFails, Restore, RecordRestore, Fail, Admit
      <3> QED
        BY <1>s, <3>1, <3>2 DEF OtherMoves
    <2> QED
      BY <2>1, <2>2, <2>3, <2>4
  <1>2. \E point \in Points : Goto(t, point)
    <2>1. CASE WriteWorkspace(t)
      <3>1. Goto(t, NextOf[pc[t]]) /\ pc[t] \in {"fill", "undoing", "reverting"}
        BY <2>1, NextOfIs DEF WriteWorkspace
      <3>2. NextOf[pc[t]] \in Points
        BY <3>1, NextOfIs DEF Points, RunPoints, UndoPoints, CallerPoints
      <3> QED
        BY <3>1, <3>2
    <2>2. CASE ~WriteWorkspace(t)
      <3>1. {"idle", "start", "generate", "save", "insert", "recheck", "apply", "backup", "backing",
             "install", "fill", "build", "built", "publish", "complete", "undo", "undoing",
             "failing", "reverting", "admit"} \subseteq Points
        BY DEF Points, RunPoints, UndoPoints, CallerPoints, AppliedPoints
      <3> QED
        BY <2>2, <3>1 DEF Run, Return, CreateJob, Start, Generate, GenerateFails, WritePatched,
             SavePatch, Recheck, CheckDrift, OpenBackup, WriteBackup, OpenWorkspace, RecordApply,
             Build, BuildFails, RecordBuild, Publish, Complete, Restore, RecordRestore, Fail, Admit
    <2> QED
      BY <2>1, <2>2
  <1>3. job' = job
    BY DEF Run, locals, CreateJob, Start, Generate, GenerateFails, WritePatched, SavePatch, Recheck,
         CheckDrift, OpenBackup, WriteBackup, OpenWorkspace, WriteWorkspace, RecordApply, Build,
         BuildFails, RecordBuild, Publish, Complete, Restore, RecordRestore, Fail, Admit
  <1>4. patch' = patch \/ \E q \in Patches \cup {NoPatch} : patch' = [patch EXCEPT ![t] = q]
    BY DEF Run, Return, locals, Fresh, Unused, CreateJob, Start, Generate, GenerateFails,
         WritePatched, SavePatch, Recheck, CheckDrift, OpenBackup, WriteBackup, OpenWorkspace,
         WriteWorkspace, RecordApply, Build, BuildFails, RecordBuild, Publish, Complete, Restore,
         RecordRestore, Fail, Admit
  <1> QED
    BY <1>1, <1>2, <1>3, <1>4 DEF Alone, Goto

LEMMA OutsideMoves ==
  ASSUME PInv, NEW t \in Threads, Outside(t)
  PROVE  /\ UNCHANGED <<row, bus, built>> /\ RowMoves(t) /\ OtherMoves(t) /\ Alone(t)
         /\ pc' = pc \/ pc'[t] \in {"idle", "create", "revert", "admit", "failing", "undo"}
         /\ pc' = pc => UNCHANGED <<patch, job>>
         /\ pc'[t] = "revert" => pc' = pc \/ (patch'[t] \in Patches /\ row[patch'[t]] # NoFile)
         /\ pc'[t] = "undo" => pc' = pc \/ (pc[t] \in AppliedPoints /\ UNCHANGED <<patch, job>>)
  <1>0. Types
    BY DEF PInv
  <1>1. ASSUME NEW e \in Events, Accept(t, e)
        PROVE  UNCHANGED <<store, bus, patch>> /\ pc[t] = "idle"
               /\ \/ UNCHANGED <<pc, job>>
                  \/ pc' = [pc EXCEPT ![t] = "create"] /\ job' = [job EXCEPT ![t] = e]
    BY <1>1 DEF Accept, Goto
  <1>2. ASSUME NEW e \in Events, NEW p \in Patches \cup {NoPatch}, Retry(t, e, p)
        PROVE  UNCHANGED <<row, bus, built>> /\ pc[t] = "idle"
               /\ \/ jobs' = [jobs EXCEPT ![e] = "FAILED"] /\ UNCHANGED <<pc, job, patch>>
                  \/ /\ UNCHANGED jobs
                     /\ job' = [job EXCEPT ![t] = e] /\ patch' = [patch EXCEPT ![t] = p]
                     /\ \/ pc' = [pc EXCEPT ![t] = "admit"]
                        \/ /\ pc' = [pc EXCEPT ![t] = "revert"]
                           /\ p \in Patches /\ row[p] # NoFile
    BY <1>2 DEF Retry, Goto, SetStatus, Unused
  <1>3. Crash(t) => /\ UNCHANGED <<store, bus, job>>
                    /\ pc[t] # "idle" /\ pc' = [pc EXCEPT ![t] = "idle"]
                    /\ patch' = [patch EXCEPT ![t] = NoPatch]
    BY DEF Crash, Return, Goto
  <1>4. Raise(t) => /\ UNCHANGED <<jobs, row, built, bus, job>> /\ pc[t] # "idle"
                    /\ \/ /\ pc' = [pc EXCEPT ![t] = "idle"]
                          /\ patch' = [patch EXCEPT ![t] = NoPatch]
                       \/ pc' = [pc EXCEPT ![t] = "failing"] /\ patch' = patch
                       \/ /\ pc[t] \in AppliedPoints
                          /\ pc' = [pc EXCEPT ![t] = "undo"] /\ patch' = patch
    BY DEF Raise, Return, Goto
  <1>5. /\ {"idle", "create", "revert", "admit", "failing", "undo"} \subseteq Points
        /\ "FAILED" \in Statuses \ {"COMPLETED", "none"}
    BY DEF Points, RunPoints, UndoPoints, CallerPoints, Statuses
  <1>6. \A point \in Points : pc' = [pc EXCEPT ![t] = point] => pc'[t] = point
    BY <1>0 DEF Types
  <1>7. UNCHANGED <<row, bus, built>> /\ RowMoves(t)
    BY <1>1, <1>2, <1>3, <1>4 DEF Outside, store, RowMoves
  <1>8. jobs' = jobs \/ \E e \in Events : jobs' = [jobs EXCEPT ![e] = "FAILED"]
    BY <1>1, <1>2, <1>3, <1>4 DEF Outside, store
  <1>9. OtherMoves(t)
    BY <1>5, <1>7, <1>8 DEF OtherMoves, bus
  <1>10. \/ UNCHANGED <<pc, patch, job>>
         \/ /\ pc[t] = "idle" /\ pc' = [pc EXCEPT ![t] = "create"] /\ UNCHANGED patch
            /\ \E e \in Events : job' = [job EXCEPT ![t] = e]
         \/ /\ pc[t] = "idle" /\ \E e \in Events : job' = [job EXCEPT ![t] = e]
            /\ \E p \in Patches \cup {NoPatch} :
                 /\ patch' = [patch EXCEPT ![t] = p]
                 /\ \/ pc' = [pc EXCEPT ![t] = "admit"]
                    \/ pc' = [pc EXCEPT ![t] = "revert"] /\ p \in Patches /\ row[p] # NoFile
         \/ /\ pc[t] # "idle" /\ pc' = [pc EXCEPT ![t] = "idle"] /\ UNCHANGED job
            /\ patch' = [patch EXCEPT ![t] = NoPatch]
         \/ pc' = [pc EXCEPT ![t] = "failing"] /\ UNCHANGED <<patch, job>>
         \/ pc[t] \in AppliedPoints /\ pc' = [pc EXCEPT ![t] = "undo"] /\ UNCHANGED <<patch, job>>
    BY <1>1, <1>2, <1>3, <1>4 DEF Outside
  <1>11. Alone(t)
    <2>1. pc = [pc EXCEPT ![t] = pc[t]] /\ pc[t] \in Points
      BY <1>0 DEF Types
    <2>2. \E point \in Points : pc' = [pc EXCEPT ![t] = point]
      BY <1>5, <1>10, <2>1
    <2>3. /\ job' = job \/ \E e \in Events : job' = [job EXCEPT ![t] = e]
          /\ patch' = patch \/ \E p \in Patches \cup {NoPatch} : patch' = [patch EXCEPT ![t] = p]
      BY <1>10
    <2> QED
      BY <2>2, <2>3 DEF Alone
  <1>12. \A p \in Patches \cup {NoPatch} : patch' = [patch EXCEPT ![t] = p] => patch'[t] = p
    BY <1>0 DEF Types
  <1>13. \/ UNCHANGED <<pc, patch, job>>
         \/ pc'[t] # pc[t] /\ pc'[t] \in {"idle", "create", "admit"}
         \/ pc'[t] # pc[t] /\ pc'[t] = "revert" /\ patch'[t] \in Patches /\ row[patch'[t]] # NoFile
         \/ pc'[t] = "failing" /\ UNCHANGED <<patch, job>>
         \/ pc'[t] = "undo" /\ pc[t] \in AppliedPoints /\ UNCHANGED <<patch, job>>
    BY <1>5, <1>6, <1>10, <1>12
  <1> QED
    BY <1>7, <1>9, <1>11, <1>13

-----------------------------------------------------------------------------
(* What every step keeps *)

LEMMA RowShape ==
  ASSUME PInv, NEW t \in Threads, Run(t)
  PROVE  row' \in [Patches -> Rows \cup {NoFile}]
  <1>1. UNCHANGED row \/ \E p, r : row' = [row EXCEPT ![p] = r]
    BY DEF Run, store, SaveRow, CreateJob, Start, Generate, GenerateFails, WritePatched, SavePatch,
         Recheck, CheckDrift, OpenBackup, WriteBackup, OpenWorkspace, WriteWorkspace, RecordApply,
         Build, BuildFails, RecordBuild, Publish, Complete, Restore, RecordRestore, Fail, Admit
  <1>2. row' = [p \in Patches |-> row'[p]]
    BY <1>1 DEF PInv, Types
  <1>3. \A p \in Patches : row'[p] \in Rows \cup {NoFile}
    BY RowsMove DEF PInv, Types, RowMoves
  <1> QED
    BY <1>2, <1>3

\* Facts a step of thread t leaves about the state, from the rows it moves.
LEMMA RowsKept ==
  ASSUME PInv, NEW t \in Threads, RowMoves(t), NEW p \in Patches, row[p] # NoFile
  PROVE  /\ row'[p] # NoFile /\ row'[p].job = row[p].job
         /\ row'[p].status = row[p].status \/ (p = patch[t] /\ pc[t] = "recheck")
         /\ row[p].apply # "no" => row'[p].apply # "no"
  <1>1. ~(p = patch[t] /\ pc[t] = "insert")
    BY DEF PInv, ThreadHolds
  <1> QED
    BY <1>1, RowIsNoFile DEF RowMoves

LEMMA TypesStep ==
  ASSUME PInv, NEW t \in Threads, RowMoves(t), OtherMoves(t), Alone(t),
         row' \in [Patches -> Rows \cup {NoFile}]
  PROVE  Types' /\ Lists'
  <1>1. Types /\ Lists /\ ThreadHolds(t)
    BY DEF PInv
  <1>2. jobs' \in [Events -> Statuses]
    BY <1>1 DEF OtherMoves, Types, Statuses
  <1>3. /\ pc' \in [Threads -> Points] /\ job' \in [Threads -> Events]
        /\ patch' \in [Threads -> Patches \cup {NoPatch}]
    BY <1>1 DEF Alone, Types
  <1>4. Patches \ Unused \subseteq (Patches \ Unused)'
    BY RowsKept DEF Unused
  <1>5. pc[t] \in {"built", "publish"} => patch[t] \in Patches \ Unused
    BY <1>1 DEF ThreadHolds, RowPoints, JobPoints, ReadyPoints, AppliedPoints, Unused
  <1>6. Lists'
    BY <1>1, <1>4, <1>5 DEF Lists, OtherMoves
  <1> QED
    BY <1>2, <1>3, <1>6 DEF Types

\* The other threads stand where they stood, and hold what they held.
LEMMA OthersHold ==
  ASSUME PInv, NEW t \in Threads, RowMoves(t), OtherMoves(t), Alone(t),
         NEW u \in Threads \ {t}
  PROVE  pc'[u] = pc[u] /\ patch'[u] = patch[u] /\ job'[u] = job[u] /\ ThreadHolds(u)'
  <1>1. Types /\ ThreadHolds(t) /\ ThreadHolds(u) /\ OwnPatch
    BY DEF PInv
  <1>2. pc'[u] = pc[u] /\ patch'[u] = patch[u] /\ job'[u] = job[u]
    BY <1>1 DEF Types, Alone
  <1>3. pc[u] \in OwnPoints /\ pc[t] \in OwnPoints => patch[u] # patch[t]
    BY <1>1 DEF OwnPatch
  <1>4. pc[u] \in {"save", "insert"} => row'[patch[u]] = NoFile
    <2>1. SUFFICES ASSUME pc[u] \in {"save", "insert"} PROVE row'[patch[u]] = row[patch[u]]
      BY <1>1 DEF ThreadHolds
    <2>2. patch[u] \in Patches /\ row[patch[u]] = NoFile
      BY <1>1, <2>1 DEF ThreadHolds, OwnPoints
    <2>3. pc[t] \in {"insert", "recheck", "record"} => patch[u] # patch[t]
      BY <1>3, <2>1 DEF OwnPoints, JobPoints, ReadyPoints
    <2>4. pc[t] \in {"undone", "reverted"} => patch[u] # patch[t]
      BY <1>1, <2>2 DEF ThreadHolds, RowPoints
    <2> QED
      BY <2>2, <2>3, <2>4 DEF RowMoves
  <1>5. pc[u] \in RowPoints => /\ patch[u] \in Patches /\ row'[patch[u]] # NoFile
                               /\ row'[patch[u]].job = row[patch[u]].job
                               /\ row[patch[u]].apply # "no" => row'[patch[u]].apply # "no"
    BY <1>1, RowsKept DEF ThreadHolds
  <1>6. pc[u] \in ReadyPoints => row'[patch[u]].status = row[patch[u]].status
    <2>1. SUFFICES ASSUME pc[u] \in ReadyPoints, pc[t] = "recheck" PROVE patch[u] # patch[t]
      BY <1>1, RowsKept DEF ThreadHolds, RowPoints, JobPoints
    <2> QED
      BY <1>3, <2>1 DEF OwnPoints, JobPoints
  <1>7. pc[u] \in JobPoints \ {"complete"} => patch[u] \notin recorded'
    <2>1. pc[u] \in JobPoints /\ pc[t] = "publish" => patch[u] # patch[t]
      BY <1>3 DEF OwnPoints, JobPoints, ReadyPoints, AppliedPoints
    <2> QED
      BY <1>1, <2>1 DEF OtherMoves, ThreadHolds
  <1>8. /\ pc[u] \in {"publish", "complete"} => patch[u] \in built'
        /\ pc[u] = "complete" => patch[u] \in recorded'
    BY <1>1 DEF OtherMoves, ThreadHolds
  <1>9. ThreadHolds(u)'
    <2>1. pc[u] \in OwnPoints \cup RowPoints => patch[u] \in Patches
      BY <1>1 DEF ThreadHolds
    <2>2. pc[u] \in JobPoints => row'[patch[u]].job = job[u]
      BY <1>1, <1>5 DEF ThreadHolds, RowPoints
    <2>3. pc[u] \in ReadyPoints => row'[patch[u]].status = "READY_FOR_BUILD"
      BY <1>1, <1>6 DEF ThreadHolds
    <2>4. pc[u] \in AppliedPoints => row'[patch[u]].apply # "no"
      BY <1>1, <1>5 DEF ThreadHolds, RowPoints, JobPoints, ReadyPoints
    <2> QED
      BY <1>2, <1>4, <1>5, <1>7, <1>8, <2>1, <2>2, <2>3, <2>4 DEF ThreadHolds
  <1> QED
    BY <1>2, <1>9

LEMMA OwnHolds ==
  ASSUME PInv, NEW t \in Threads, Run(t)
  PROVE  ThreadHolds(t)'
  <1>1. /\ Types /\ Lists /\ ThreadHolds(t) /\ RowMoves(t) /\ OtherMoves(t) /\ job' = job
    BY RowsMove, OthersMove DEF PInv
  <1>p. pc \in [Threads -> Points] /\ patch \in [Threads -> Patches \cup {NoPatch}]
    BY <1>1 DEF Types
  <1>r. pc[t] \in RowPoints => /\ patch[t] \in Patches /\ row'[patch[t]] # NoFile
                               /\ row'[patch[t]].job = row[patch[t]].job
                               /\ row[patch[t]].apply # "no" => row'[patch[t]].apply # "no"
                               /\ pc[t] # "recheck" => row'[patch[t]].status = row[patch[t]].status
    BY <1>1, RowsKept DEF ThreadHolds
  <1>2. ASSUME pc'[t] \in {"idle", "start", "generate", "failing", "admit", "create"}
        PROVE  ThreadHolds(t)'
    BY <1>2 DEF ThreadHolds, OwnPoints, RowPoints, JobPoints, ReadyPoints, AppliedPoints
  <1>3. CASE Generate(t)
    <2>1. PICK p \in Fresh : patch' = [patch EXCEPT ![t] = p]
      BY <1>3 DEF Generate
    <2>2. p \in Patches /\ row[p] = NoFile
      BY <2>1 DEF Fresh, Unused
    <2>3. pc'[t] = "save" /\ patch'[t] = p /\ row' = row
      BY <1>3, <1>p, <2>1 DEF Generate, Goto
    <2> QED
      BY <2>2, <2>3 DEF ThreadHolds, OwnPoints, RowPoints, JobPoints, ReadyPoints, AppliedPoints
  <1>4. CASE WritePatched(t)
    <2>1. row' = row /\ patch' = patch /\ pc[t] = "save" /\ pc'[t] = "insert"
      BY <1>4, <1>p DEF WritePatched, Goto, store, locals
    <2> QED
      BY <1>1, <2>1 DEF ThreadHolds, OwnPoints, RowPoints, JobPoints, ReadyPoints, AppliedPoints
  <1>5. CASE SavePatch(t)
    <2> DEFINE new == [job |-> job[t], status |-> "READY_FOR_RECHECK", apply |-> "no"]
    <2>1. /\ pc[t] = "insert" /\ pc'[t] = "recheck" /\ patch' = patch /\ recorded' = recorded
          /\ SaveRow(patch[t], new)
      BY <1>5, <1>p DEF SavePatch, Goto, bus
    <2>2. patch[t] \in Patches /\ row[patch[t]] = NoFile
      BY <1>1, <2>1 DEF ThreadHolds, OwnPoints
    <2>3. patch[t] \notin recorded
      BY <1>1, <2>2 DEF Lists, Unused
    <2>4. new \in Rows /\ new.job = job[t]
      BY <1>1 DEF Rows, Types
    <2> HIDE DEF new
    <2>5. row'[patch[t]] = new
      BY <1>1, <2>1, <2>2, <2>4, SaveRowMoves
    <2>6. row'[patch[t]] # NoFile /\ row'[patch[t]].job = job[t]
      BY <2>4, <2>5, RowIsNoFile
    <2> QED
      BY <1>1, <2>1, <2>2, <2>3, <2>6
         DEF ThreadHolds, OwnPoints, RowPoints, JobPoints, ReadyPoints, AppliedPoints
  <1>6. CASE Recheck(t)
    <2>1. /\ pc[t] = "recheck" /\ patch' = patch /\ pc'[t] \in {"apply", "failing"}
          /\ recorded' = recorded
      BY <1>6, <1>p DEF Recheck, Goto, locals, bus
    <2>2. SUFFICES ASSUME pc'[t] = "apply" PROVE ThreadHolds(t)'
      BY <1>2, <2>1
    <2>3. PassesRecheck(patch[t], patched[job[t]])
      BY <1>6, <1>p, <2>2 DEF Recheck, Goto
    <2> DEFINE new == [row[patch[t]] EXCEPT !.status = "READY_FOR_BUILD"]
    <2>4. SaveRow(patch[t], new)
      BY <1>6, <2>3 DEF Recheck
    <2>5. /\ patch[t] \in Patches /\ row[patch[t]] \in Rows /\ row[patch[t]].job = job[t]
          /\ patch[t] \notin recorded
      BY <1>1, <2>1 DEF ThreadHolds, Types, RowPoints, JobPoints
    <2>6. new \in Rows /\ new.job = job[t] /\ new.status = "READY_FOR_BUILD"
      BY <2>5 DEF Rows
    <2> HIDE DEF new
    <2>7. row'[patch[t]] = new
      BY <1>1, <2>4, <2>5, <2>6, SaveRowMoves
    <2>8. /\ row'[patch[t]] # NoFile /\ row'[patch[t]].job = job[t]
          /\ row'[patch[t]].status = "READY_FOR_BUILD"
      BY <2>6, <2>7, RowIsNoFile
    <2> QED
      BY <1>1, <2>1, <2>2, <2>5, <2>8
         DEF ThreadHolds, OwnPoints, RowPoints, JobPoints, ReadyPoints, AppliedPoints
  <1>7. CASE \/ CheckDrift(t) \/ OpenBackup(t) \/ WriteBackup(t) \/ OpenWorkspace(t)
             \/ WriteWorkspace(t) \/ Build(t) \/ BuildFails(t) \/ Restore(t)
    <2>1. /\ UNCHANGED <<row, recorded>>
          /\ \/ pc'[t] \in {"failing", "idle"}
             \/ /\ patch' = patch
                /\ <<pc[t], pc'[t]>> \in {<<"apply", "backup">>, <<"backup", "backing">>,
                     <<"backing", "install">>, <<"install", "fill">>, <<"fill", "record">>,
                     <<"build", "built">>, <<"build", "undo">>, <<"undo", "undoing">>,
                     <<"undoing", "undone">>, <<"revert", "reverting">>,
                     <<"reverting", "reverted">>}
      BY <1>7, <1>p, NextOfIs DEF CheckDrift, OpenBackup, WriteBackup, OpenWorkspace,
           WriteWorkspace, Build, BuildFails, Restore, Return, Goto, store, bus, locals
    <2> QED
      BY <1>1, <1>2, <2>1
         DEF ThreadHolds, OwnPoints, RowPoints, JobPoints, ReadyPoints, AppliedPoints
  <1>8. CASE RecordApply(t)
    <2> DEFINE new == [row[patch[t]] EXCEPT !.apply = "applied"]
    <2>1. /\ pc[t] = "record" /\ pc'[t] = "build" /\ patch' = patch /\ recorded' = recorded
          /\ SaveRow(patch[t], new)
      BY <1>8, <1>p DEF RecordApply, Goto, bus
    <2>2. patch[t] \in Patches /\ row[patch[t]] \in Rows
      BY <1>1, <2>1 DEF ThreadHolds, Types, RowPoints, JobPoints, ReadyPoints
    <2>3. new \in Rows /\ new.apply # "no"
      BY <2>2 DEF Rows
    <2> HIDE DEF new
    <2>4. row'[patch[t]].apply # "no"
      BY <1>1, <2>1, <2>2, <2>3, SaveRowMoves
    <2> QED
      BY <1>1, <1>r, <2>1, <2>2, <2>4
         DEF ThreadHolds, OwnPoints, RowPoints, JobPoints, ReadyPoints, AppliedPoints
  <1>9. CASE RecordRestore(t)
    BY <1>2, <1>9, <1>p DEF RecordRestore, Goto
  <1>10. CASE RecordBuild(t)
    <2>1. UNCHANGED <<row, patch, recorded>> /\ pc[t] = "built" /\ pc'[t] = "publish"
          /\ patch[t] \in built'
      BY <1>10, <1>p DEF RecordBuild, Goto, locals, bus
    <2> QED
      BY <1>1, <2>1 DEF ThreadHolds, OwnPoints, RowPoints, JobPoints, ReadyPoints, AppliedPoints
  <1>11. CASE Publish(t)
    <2>1. UNCHANGED <<row, patch, built>> /\ pc[t] = "publish" /\ pc'[t] = "complete"
          /\ patch[t] \in recorded'
      BY <1>11, <1>p DEF Publish, Goto, locals, store
    <2> QED
      BY <1>1, <2>1 DEF ThreadHolds, OwnPoints, RowPoints, JobPoints, ReadyPoints, AppliedPoints
  <1>12. CASE CreateJob(t) \/ Start(t) \/ GenerateFails(t) \/ Complete(t) \/ Fail(t) \/ Admit(t)
    <2>1. pc'[t] \in {"idle", "start", "generate", "failing"}
      BY <1>12, <1>p DEF CreateJob, Start, GenerateFails, Complete, Fail, Admit, Return, Goto
    <2> QED
      BY <1>2, <2>1
  <1> QED
    BY <1>3, <1>4, <1>5, <1>6, <1>7, <1>8, <1>9, <1>10, <1>11, <1>12 DEF Run

\* A thread comes to a point where its patch has to be its own from another
\* one, or with a patch id that no thread and no row has.
LEMMA Enters ==
  ASSUME PInv, NEW t \in Threads, Run(t), pc'[t] \in OwnPoints
  PROVE  \/ pc[t] \in OwnPoints /\ patch'[t] = patch[t]
         \/ patch'[t] \in Fresh
  <1>p. pc \in [Threads -> Points] /\ patch \in [Threads -> Patches \cup {NoPatch}]
    BY DEF PInv, Types
  <1>1. CASE Generate(t)
    BY <1>1, <1>p DEF Generate
  <1>2. CASE ~Generate(t)
    <2>1. pc[t] \in OwnPoints \/ pc'[t] \in {"idle", "start", "generate", "failing", "undoing",
                                             "undone", "reverting", "reverted", "admit"}
      BY <1>2, <1>p, NextOfIs DEF Run, Return, Goto, OwnPoints, JobPoints, ReadyPoints,
           AppliedPoints, CreateJob, Start, GenerateFails, WritePatched, SavePatch, Recheck,
                CheckDrift, OpenBackup, WriteBackup, OpenWorkspace, WriteWorkspace, RecordApply,
                Build, BuildFails, RecordBuild, Publish, Complete, Restore, RecordRestore, Fail,
                Admit
    <2>2. patch' = patch \/ pc'[t] \in {"idle", "start"}
      BY <1>2, <1>p DEF Run, Return, Goto, locals, CreateJob, Start, GenerateFails, WritePatched,
           SavePatch, Recheck, CheckDrift, OpenBackup, WriteBackup, OpenWorkspace, WriteWorkspace,
           RecordApply, Build, BuildFails, RecordBuild, Publish, Complete, Restore, RecordRestore,
           Fail, Admit
    <2> QED
      BY <2>1, <2>2 DEF OwnPoints, JobPoints, ReadyPoints, AppliedPoints
  <1> QED
    BY <1>1, <1>2

LEMMA OwnPatchStep ==
  ASSUME PInv, NEW t \in Threads, RowMoves(t), OtherMoves(t), Alone(t),
         pc'[t] \in OwnPoints => \/ pc[t] \in OwnPoints /\ patch'[t] = patch[t]
                                 \/ patch'[t] \in Fresh
  PROVE  OwnPatch'
  <1>1. ASSUME NEW u \in Threads \ {t}, pc'[t] \in OwnPoints, pc'[u] \in OwnPoints
        PROVE  patch'[t] # patch'[u]
    <2>1. pc[u] \in OwnPoints /\ patch'[u] = patch[u] /\ ThreadHolds(u) /\ OwnPatch
      BY <1>1, OthersHold DEF PInv
    <2>2. CASE pc[t] \in OwnPoints /\ patch'[t] = patch[t]
      BY <2>1, <2>2 DEF OwnPatch
    <2>3. CASE patch'[t] \in Fresh
      <3>1. row[patch'[t]] = NoFile /\ (pc[u] \in {"save", "insert"} => patch'[t] # patch[u])
        BY <2>3 DEF Fresh, Unused
      <3>2. pc[u] \notin {"save", "insert"} => row[patch[u]] # NoFile
        BY <2>1 DEF ThreadHolds, OwnPoints, RowPoints
      <3> QED
        BY <2>1, <3>1, <3>2
    <2> QED
      BY <1>1, <2>2, <2>3
  <1>2. ASSUME NEW u \in Threads \ {t}, NEW v \in Threads \ {t}, u # v,
               pc'[u] \in OwnPoints, pc'[v] \in OwnPoints
        PROVE  patch'[u] # patch'[v]
    BY <1>2, OthersHold DEF PInv, OwnPatch
  <1> QED
    BY <1>1, <1>2 DEF OwnPatch

LEMMA CompletedStep ==
  ASSUME PInv, NEW t \in Threads, RowMoves(t), OtherMoves(t)
  PROVE  CompletedIsRecorded'
  <1> SUFFICES ASSUME NEW e \in Events, jobs'[e] = "COMPLETED"
               PROVE  \E p \in Patches :
                        /\ row'[p] # NoFile /\ row'[p].job = e /\ p \in recorded'
                        /\ row'[p].status = "READY_FOR_BUILD" /\ row'[p].apply # "no"
                        /\ p \in built'
    BY DEF CompletedIsRecorded, PatchesOf, Unused
  <1>1. ThreadHolds(t) /\ Types
    BY DEF PInv
  <1>2. \E p \in Patches :
          /\ row[p] # NoFile /\ row[p].job = e /\ p \in recorded
          /\ row[p].status = "READY_FOR_BUILD" /\ row[p].apply # "no" /\ p \in built
    <2>1. CASE jobs[e] = "COMPLETED"
      BY <2>1 DEF PInv, CompletedIsRecorded, PatchesOf, Unused
    <2>2. CASE pc[t] = "complete" /\ job[t] = e
      BY <1>1, <2>2 DEF ThreadHolds, RowPoints, JobPoints, ReadyPoints, AppliedPoints
    <2>3. jobs[e] = "COMPLETED" \/ (pc[t] = "complete" /\ job[t] = e)
      BY <1>1 DEF OtherMoves, Types
    <2> QED
      BY <2>1, <2>2, <2>3
  <1>3. pc[t] = "recheck" => patch[t] \notin recorded
    BY <1>1 DEF ThreadHolds, JobPoints
  <1>4. recorded \subseteq recorded' /\ built \subseteq built'
    BY DEF OtherMoves
  <1> QED
    BY <1>2, <1>3, <1>4, RowsKept

-----------------------------------------------------------------------------
(* The invariant *)

LEMMA InitPInv == Init => PInv
  <1> SUFFICES ASSUME Init PROVE PInv
    OBVIOUS
  <1>1. Types /\ Lists
    <2>1. "none" \in Statuses /\ "idle" \in Points
      BY DEF Statuses, Points
    <2> QED
      BY <2>1 DEF Init, Types, Lists
  <1>2. \A t \in Threads : pc[t] = "idle"
    BY DEF Init
  <1>3. OwnPatch /\ \A t \in Threads : ThreadHolds(t)
    BY <1>2 DEF OwnPatch, ThreadHolds, OwnPoints, RowPoints, JobPoints, ReadyPoints, AppliedPoints
  <1>4. CompletedIsRecorded
    BY DEF Init, CompletedIsRecorded
  <1> QED
    BY <1>1, <1>3, <1>4 DEF PInv

LEMMA PInvStep == PInv /\ [Next]_vars => PInv'
  <1> SUFFICES ASSUME PInv, [Next]_vars PROVE PInv'
    OBVIOUS
  <1>1. ASSUME NEW t \in Threads, Run(t) PROVE PInv'
    <2>1. RowMoves(t) /\ OtherMoves(t) /\ Alone(t)
      BY <1>1, RowsMove, OthersMove
    <2>2. Types' /\ Lists'
      BY <1>1, <2>1, RowShape, TypesStep
    <2>3. (\A u \in Threads : ThreadHolds(u))'
      BY <1>1, <2>1, OwnHolds, OthersHold
    <2>4. OwnPatch'
      BY <1>1, <2>1, Enters, OwnPatchStep
    <2> QED
      BY <2>1, <2>2, <2>3, <2>4, CompletedStep DEF PInv
  <1>2. ASSUME NEW t \in Threads, Outside(t) PROVE PInv'
    <2>1. /\ UNCHANGED <<row, bus, built>> /\ RowMoves(t) /\ OtherMoves(t) /\ Alone(t)
          /\ pc' = pc \/ pc'[t] \in {"idle", "create", "revert", "admit", "failing", "undo"}
          /\ pc' = pc => UNCHANGED <<patch, job>>
          /\ pc'[t] = "revert" => pc' = pc \/ (patch'[t] \in Patches /\ row[patch'[t]] # NoFile)
          /\ pc'[t] = "undo" => pc' = pc \/ (pc[t] \in AppliedPoints /\ UNCHANGED <<patch, job>>)
      BY <1>2, OutsideMoves
    <2>2. Types' /\ Lists'
      BY <2>1, TypesStep DEF PInv, Types
    <2>3. ThreadHolds(t)'
      <3>1. CASE pc' = pc
        BY <2>1, <3>1 DEF PInv, ThreadHolds, bus
      <3>2. CASE pc'[t] = "revert" /\ pc' # pc
        BY <2>1, <3>2
           DEF ThreadHolds, OwnPoints, RowPoints, JobPoints, ReadyPoints, AppliedPoints
      <3>3. CASE pc'[t] = "undo" /\ pc' # pc
        <4>1. pc[t] \in AppliedPoints /\ patch' = patch /\ ThreadHolds(t)
          BY <2>1, <3>3 DEF PInv
        <4>2. patch[t] \in Patches /\ row[patch[t]] # NoFile
          BY <4>1 DEF ThreadHolds, RowPoints, JobPoints, ReadyPoints
        <4> QED
          BY <2>1, <3>3, <4>1, <4>2
             DEF ThreadHolds, OwnPoints, RowPoints, JobPoints, ReadyPoints, AppliedPoints
      <3>4. CASE pc'[t] \in {"idle", "create", "admit", "failing"}
        BY <3>4 DEF ThreadHolds, OwnPoints, RowPoints, JobPoints, ReadyPoints, AppliedPoints
      <3> QED
        BY <2>1, <3>1, <3>2, <3>3, <3>4
    <2>4. (\A u \in Threads : ThreadHolds(u))'
      BY <2>1, <2>3, OthersHold
    <2>5. pc'[t] \in OwnPoints => pc[t] \in OwnPoints /\ patch'[t] = patch[t]
      BY <2>1 DEF OwnPoints, JobPoints, ReadyPoints, AppliedPoints
    <2>6. OwnPatch'
      BY <2>1, <2>5, OwnPatchStep
    <2> QED
      BY <2>1, <2>2, <2>4, <2>6, CompletedStep DEF PInv
  <1>3. CASE UNCHANGED vars
    BY <1>3 DEF vars, store, bus, locals, PInv, Types, Lists, OwnPatch, ThreadHolds,
         CompletedIsRecorded, PatchesOf, Unused
  <1> QED
    BY <1>1, <1>2, <1>3 DEF Next, Outside

LEMMA InvariantP == Spec => []PInv
  BY InitPInv, PInvStep, PTL DEF Spec

\* A COMPLETED job is what the store says it is: a patch of its own passed
\* the recheck, was applied and built, and its announcement is on record, for
\* any number of threads, jobs, retries, errors and crashes (process_job).
THEOREM CompletedHolds == Spec => []CompletedIsRecorded
  <1>1. PInv => CompletedIsRecorded
    BY DEF PInv
  <1> QED
    BY <1>1, InvariantP, PTL

-----------------------------------------------------------------------------
(* The first run of a job *)

\* Until the drift check a run reads and writes the files of its job; no
\* second thread is there for the same job unless it was retried.
FirstPoints == {"start", "generate", "save", "insert", "recheck", "apply"}

\* From then on it has what it needs in its local variables.
HeldPoints == {"backup", "backing", "install", "fill"}

Sole ==
  \A t, u \in Threads :
    t # u /\ pc[t] \in FirstPoints /\ pc[u] \in FirstPoints /\ job[t] = job[u]
      => retries[job[t]] # 0

FilesHold(t) ==
  /\ pc[t] \in FirstPoints => jobs[job[t]] # "none"
  /\ retries[job[t]] = 0 =>
       /\ pc[t] = "save" => original[job[t]] = base[t]
       /\ pc[t] \in {"insert", "recheck", "apply"} =>
            patched[job[t]] = original[job[t]] \cup {patch[t]}
       /\ pc[t] \in HeldPoints => content[t] = base[t] \cup {patch[t]}

Shapes ==
  /\ retries \in [Events -> Nat]
  /\ base = [t \in Threads |-> base[t]] /\ content = [t \in Threads |-> content[t]]
  /\ original = [e \in Events |-> original[e]] /\ patched = [e \in Events |-> patched[e]]

FInv == PInv /\ Shapes /\ Sole /\ \A t \in Threads : FilesHold(t)

\* What a step of thread t does to the files and the retries.
FileMoves(t) ==
  /\ \/ retries' = retries
     \/ pc[t] = "admit" /\ retries' = [retries EXCEPT ![job[t]] = @ + 1]
  /\ original' = original
     \/ (pc[t] = "generate" /\ original' = [original EXCEPT ![job[t]] = base[t]])
  /\ \/ patched' = patched
     \/ pc[t] = "save" /\ patched' = [patched EXCEPT ![job[t]] = base[t] \cup {patch[t]}]
  /\ \/ base' = base
     \/ \E c : base' = [base EXCEPT ![t] = c]
  /\ \/ content' = content
     \/ \E c : content' = [content EXCEPT ![t] = c]

LEMMA FilesMove ==
  ASSUME NEW t \in Threads, Run(t)
  PROVE  FileMoves(t)
  <1>1. \/ retries' = retries
        \/ pc[t] = "admit" /\ retries' = [retries EXCEPT ![job[t]] = @ + 1]
    BY DEF Run, CountRetry, store, CreateJob, Start, Generate, GenerateFails, WritePatched,
         SavePatch, Recheck, CheckDrift, OpenBackup, WriteBackup, OpenWorkspace, WriteWorkspace,
         RecordApply, Build, BuildFails, RecordBuild, Publish, Complete, Restore, RecordRestore,
         Fail, Admit
  <1>2. /\ original' = original
           \/ (pc[t] = "generate" /\ original' = [original EXCEPT ![job[t]] = base[t]])
        /\ \/ patched' = patched
           \/ pc[t] = "save" /\ patched' = [patched EXCEPT ![job[t]] = base[t] \cup {patch[t]}]
    BY DEF Run, files, CreateJob, Start, Generate, GenerateFails, WritePatched, SavePatch, Recheck,
         CheckDrift, OpenBackup, WriteBackup, OpenWorkspace, WriteWorkspace, RecordApply, Build,
         BuildFails, RecordBuild, Publish, Complete, Restore, RecordRestore, Fail, Admit
  <1>3. /\ base' = base \/ \E c : base' = [base EXCEPT ![t] = c]
        /\ content' = content \/ \E c : content' = [content EXCEPT ![t] = c]
    BY DEF Run, Return, locals, CreateJob, Start, Generate, GenerateFails, WritePatched, SavePatch,
         Recheck, CheckDrift, OpenBackup, WriteBackup, OpenWorkspace, WriteWorkspace, RecordApply,
         Build, BuildFails, RecordBuild, Publish, Complete, Restore, RecordRestore, Fail, Admit
  <1> QED
    BY <1>1, <1>2, <1>3 DEF FileMoves

LEMMA OutsideFiles ==
  ASSUME NEW t \in Threads, Outside(t)
  PROVE  FileMoves(t) /\ UNCHANGED files
  <1>1. UNCHANGED files
    BY DEF Outside, Accept, Retry, Raise, Crash
  <1>2. \/ retries' = retries
        \/ pc[t] = "admit" /\ retries' = [retries EXCEPT ![job[t]] = @ + 1]
    BY DEF Outside, Accept, Retry, Raise, Crash, CountRetry, store
  <1>3. /\ base' = base \/ \E c : base' = [base EXCEPT ![t] = c]
        /\ content' = content \/ \E c : content' = [content EXCEPT ![t] = c]
    BY DEF Outside, Accept, Retry, Raise, Crash, Return
  <1> QED
    BY <1>1, <1>2, <1>3 DEF FileMoves, files

LEMMA RetriesGrow ==
  ASSUME FInv, NEW t \in Threads, FileMoves(t), NEW e \in Events, retries'[e] = 0
  PROVE  retries[e] = 0
  <1>1. retries \in [Events -> Nat] /\ job[t] \in Events
    BY DEF FInv, PInv, Types, Shapes
  <1>2. retries' = retries \/ retries' = [retries EXCEPT ![job[t]] = @ + 1]
    BY DEF FileMoves
  <1> QED
    BY <1>1, <1>2

LEMMA JobsStay ==
  ASSUME FInv, NEW t \in Threads, OtherMoves(t), NEW e \in Events, jobs[e] # "none"
  PROVE  jobs'[e] # "none"
  BY DEF FInv, PInv, Types, OtherMoves

LEMMA ShapesStep ==
  ASSUME FInv, NEW t \in Threads, FileMoves(t)
  PROVE  Shapes'
  <1>0. Shapes /\ job[t] \in Events
    BY DEF FInv, PInv, Types
  <1>1. retries' \in [Events -> Nat]
    <2>1. retries' = retries \/ retries' = [retries EXCEPT ![job[t]] = @ + 1]
      BY DEF FileMoves
    <2> QED
      BY <1>0, <2>1 DEF Shapes
  <1>2. base' = [u \in Threads |-> base'[u]] /\ content' = [u \in Threads |-> content'[u]]
    BY <1>0 DEF FileMoves, Shapes
  <1>3. /\ original' = [e \in Events |-> original'[e]]
        /\ patched' = [e \in Events |-> patched'[e]]
    BY <1>0 DEF FileMoves, Shapes
  <1> QED
    BY <1>1, <1>2, <1>3 DEF Shapes

LEMMA OtherFiles ==
  ASSUME FInv, NEW t \in Threads, RowMoves(t), OtherMoves(t), Alone(t), FileMoves(t),
         NEW u \in Threads \ {t}
  PROVE  FilesHold(u)'
  <1>1. /\ pc'[u] = pc[u] /\ job'[u] = job[u] /\ patch'[u] = patch[u] /\ job[u] \in Events
        /\ FilesHold(u) /\ Shapes /\ Sole
    BY OthersHold DEF FInv, PInv, Types
  <1>2. pc[u] \in FirstPoints => jobs'[job[u]] # "none"
    BY <1>1, JobsStay DEF FilesHold
  <1>3. base'[u] = base[u] /\ content'[u] = content[u]
    BY <1>1 DEF FileMoves, Shapes
  <1>4. ASSUME retries'[job[u]] = 0, pc[u] \in {"save", "insert", "recheck", "apply"}
        PROVE  original'[job[u]] = original[job[u]] /\ patched'[job[u]] = patched[job[u]]
    <2>1. retries[job[u]] = 0
      BY <1>1, <1>4, RetriesGrow
    <2>2. pc[t] \in {"generate", "save"} => job[t] # job[u]
      BY <1>1, <1>4, <2>1 DEF Sole, FirstPoints
    <2> QED
      BY <1>1, <2>2 DEF FileMoves, Shapes
  <1> QED
    BY <1>1, <1>2, <1>3, <1>4, RetriesGrow DEF FilesHold

LEMMA OwnFiles ==
  ASSUME FInv, NEW t \in Threads, Run(t)
  PROVE  FilesHold(t)'
  <1>1. /\ Types /\ Shapes /\ FilesHold(t) /\ OtherMoves(t) /\ FileMoves(t) /\ job' = job
    BY OthersMove, FilesMove DEF FInv, PInv
  <1>p. /\ pc \in [Threads -> Points] /\ job[t] \in Events /\ jobs \in [Events -> Statuses]
    BY <1>1 DEF Types
  <1>z. retries'[job[t]] = 0 => retries[job[t]] = 0
    BY <1>1, <1>p, RetriesGrow
  <1>2. pc'[t] \in FirstPoints => jobs'[job[t]] # "none"
    <2>1. CASE pc[t] \in FirstPoints
      BY <1>1, <1>p, <2>1, JobsStay DEF FilesHold
    <2>2. CASE CreateJob(t) \/ Admit(t)
      BY <1>p, <2>2 DEF CreateJob, Admit, Goto, SetStatus, FirstPoints
    <2>3. pc[t] \notin FirstPoints /\ ~(CreateJob(t) \/ Admit(t)) => pc'[t] \notin FirstPoints
      BY <1>p, NextOfIs DEF Run, Return, Goto, FirstPoints, Start, Generate, GenerateFails,
           WritePatched, SavePatch, Recheck, CheckDrift, OpenBackup, WriteBackup, OpenWorkspace,
           WriteWorkspace, RecordApply, Build, BuildFails, RecordBuild, Publish, Complete, Restore,
           RecordRestore, Fail
    <2> QED
      BY <2>1, <2>2, <2>3
  <1>3. ASSUME pc'[t] \notin {"save", "insert", "recheck", "apply"} \cup HeldPoints
        PROVE  FilesHold(t)'
    BY <1>1, <1>2, <1>3 DEF FilesHold
  <1>4. CASE Generate(t)
    <2>1. pc'[t] = "save" /\ original'[job[t]] = base[t] /\ base' = base
      BY <1>1, <1>p, <1>4 DEF Generate, Goto, Shapes
    <2> QED
      BY <1>1, <1>2, <2>1 DEF FilesHold, HeldPoints
  <1>5. CASE WritePatched(t)
    <2>1. /\ pc[t] = "save" /\ pc'[t] = "insert" /\ patch' = patch
          /\ patched'[job[t]] = base[t] \cup {patch[t]} /\ original' = original
      BY <1>1, <1>p, <1>5 DEF WritePatched, Goto, Shapes, locals
    <2> QED
      BY <1>1, <1>2, <1>z, <2>1 DEF FilesHold, HeldPoints
  <1>6. CASE SavePatch(t) \/ Recheck(t)
    <2>1. /\ pc[t] \in {"insert", "recheck"} /\ pc'[t] \in {"recheck", "apply", "failing"}
          /\ UNCHANGED <<patched, original, patch>>
      BY <1>p, <1>6 DEF SavePatch, Recheck, Goto, files, locals
    <2> QED
      BY <1>1, <1>2, <1>z, <2>1 DEF FilesHold, HeldPoints
  <1>7. CASE CheckDrift(t)
    <2>1. /\ pc[t] = "apply" /\ pc'[t] \in {"backup", "failing"} /\ patch' = patch
          /\ base'[t] = workspace /\ content'[t] = patched[job[t]]
          /\ pc'[t] = "backup" => workspace = original[job[t]]
      BY <1>1, <1>p, <1>7 DEF CheckDrift, Goto, Shapes
    <2> QED
      BY <1>1, <1>2, <1>z, <2>1 DEF FilesHold, HeldPoints
  <1>8. CASE OpenBackup(t) \/ WriteBackup(t) \/ OpenWorkspace(t)
    <2>1. /\ pc[t] \in HeldPoints /\ pc'[t] \in HeldPoints /\ UNCHANGED <<base, content, patch>>
      BY <1>p, <1>8 DEF OpenBackup, WriteBackup, OpenWorkspace, Goto, HeldPoints, locals
    <2> QED
      BY <1>1, <1>2, <1>z, <2>1 DEF FilesHold, HeldPoints
  <1>9. CASE ~(\/ Generate(t) \/ WritePatched(t) \/ SavePatch(t) \/ Recheck(t) \/ CheckDrift(t)
               \/ OpenBackup(t) \/ WriteBackup(t) \/ OpenWorkspace(t))
    <2>1. pc'[t] \notin {"save", "insert", "recheck", "apply"} \cup HeldPoints
      BY <1>9, <1>p, NextOfIs DEF Run, Return, Goto, HeldPoints,
           CreateJob, Start, GenerateFails, WriteWorkspace, RecordApply, Build, BuildFails,
                RecordBuild, Publish, Complete, Restore, RecordRestore, Fail, Admit
    <2> QED
      BY <1>3, <2>1
  <1> QED
    BY <1>4, <1>5, <1>6, <1>7, <1>8, <1>9

LEMMA SoleStep ==
  ASSUME FInv, NEW t \in Threads, RowMoves(t), OtherMoves(t), Alone(t), FileMoves(t),
         pc'[t] \in FirstPoints => \/ pc[t] \in FirstPoints /\ job'[t] = job[t]
                                   \/ jobs[job'[t]] = "none"
                                   \/ retries'[job'[t]] # 0
  PROVE  Sole'
  <1>1. Types /\ Sole
    BY DEF FInv, PInv
  <1>2. ASSUME NEW u \in Threads \ {t}, pc'[t] \in FirstPoints, pc'[u] \in FirstPoints,
               job'[t] = job'[u]
        PROVE  retries'[job'[t]] # 0
    <2>1. pc[u] \in FirstPoints /\ job'[u] = job[u] /\ job[u] \in Events /\ FilesHold(u)
      BY <1>1, <1>2, OthersHold DEF FInv, Types
    <2>2. jobs[job'[t]] # "none"
      BY <1>2, <2>1 DEF FilesHold
    <2>3. CASE pc[t] \in FirstPoints /\ job'[t] = job[t]
      BY <1>1, <1>2, <2>1, <2>3, RetriesGrow DEF Sole
    <2> QED
      BY <1>2, <2>2, <2>3
  <1>3. ASSUME NEW u \in Threads \ {t}, NEW v \in Threads \ {t}, u # v,
               pc'[u] \in FirstPoints, pc'[v] \in FirstPoints, job'[u] = job'[v]
        PROVE  retries'[job'[u]] # 0
    <2>1. /\ pc[u] \in FirstPoints /\ pc[v] \in FirstPoints /\ job[u] = job[v]
          /\ job'[u] = job[u] /\ job[u] \in Events
      BY <1>1, <1>3, OthersHold DEF FInv, Types
    <2> QED
      BY <1>1, <1>3, <2>1, RetriesGrow DEF Sole
  <1> QED
    BY <1>2, <1>3 DEF Sole

LEMMA InitFInv == Init => FInv
  <1> SUFFICES ASSUME Init PROVE FInv
    OBVIOUS
  <1>1. Shapes
    BY DEF Init, Shapes
  <1>2. Sole /\ \A t \in Threads : FilesHold(t)
    BY DEF Init, Sole, FilesHold, FirstPoints, HeldPoints
  <1> QED
    BY <1>1, <1>2, InitPInv DEF FInv

LEMMA FInvStep == FInv /\ [Next]_vars => FInv'
  <1> SUFFICES ASSUME FInv, [Next]_vars PROVE FInv'
    OBVIOUS
  <1>0. PInv /\ PInv'
    BY PInvStep DEF FInv
  <1>1. ASSUME NEW t \in Threads, Run(t) PROVE FInv'
    <2>1. RowMoves(t) /\ OtherMoves(t) /\ Alone(t) /\ FileMoves(t) /\ job' = job
      BY <1>0, <1>1, RowsMove, OthersMove, FilesMove
    <2>2. pc'[t] \in FirstPoints => \/ pc[t] \in FirstPoints /\ job'[t] = job[t]
                                    \/ jobs[job'[t]] = "none"
                                    \/ retries'[job'[t]] # 0
      <3>1. pc \in [Threads -> Points] /\ job[t] \in Events /\ Shapes
        BY <1>0 DEF FInv, PInv, Types
      <3>2. CASE CreateJob(t)
        BY <2>1, <3>1, <3>2 DEF CreateJob, Goto, FirstPoints
      <3>3. CASE Admit(t)
        <4>1. retries' = [retries EXCEPT ![job[t]] = @ + 1] /\ retries \in [Events -> Nat]
          BY <3>1, <3>3 DEF Admit, CountRetry, Shapes
        <4>2. retries'[job[t]] # 0
          BY <3>1, <4>1
        <4> QED
          BY <2>1, <4>2
      <3>4. ~(CreateJob(t) \/ Admit(t)) => (pc'[t] \in FirstPoints => pc[t] \in FirstPoints)
        BY <1>1, <3>1, NextOfIs DEF Run, Return, Goto, FirstPoints, Start, Generate, GenerateFails,
             WritePatched, SavePatch, Recheck, CheckDrift, OpenBackup, WriteBackup, OpenWorkspace,
             WriteWorkspace, RecordApply, Build, BuildFails, RecordBuild, Publish, Complete,
             Restore, RecordRestore, Fail
      <3> QED
        BY <2>1, <3>2, <3>3, <3>4
    <2>3. Shapes' /\ Sole'
      BY <2>1, <2>2, ShapesStep, SoleStep
    <2>4. (\A u \in Threads : FilesHold(u))'
      BY <1>1, <2>1, OwnFiles, OtherFiles
    <2> QED
      BY <1>0, <2>3, <2>4 DEF FInv
  <1>2. ASSUME NEW t \in Threads, Outside(t) PROVE FInv'
    <2>1. /\ RowMoves(t) /\ OtherMoves(t) /\ Alone(t) /\ FileMoves(t) /\ UNCHANGED files
          /\ pc' = pc \/ pc'[t] \in {"idle", "create", "revert", "admit", "failing", "undo"}
          /\ pc' = pc => UNCHANGED <<patch, job>>
      BY <1>0, <1>2, OutsideMoves, OutsideFiles
    <2>2. Shapes' /\ Sole'
      BY <2>1, ShapesStep, SoleStep DEF FirstPoints
    <2>3. FilesHold(t)'
      <3>1. CASE pc' = pc
        <4>1. job' = job /\ patch' = patch /\ FilesHold(t) /\ job[t] \in Events
          BY <1>0, <2>1, <3>1 DEF FInv, PInv, Types
        <4>2. pc[t] \in FirstPoints => jobs'[job[t]] # "none"
          BY <2>1, <4>1, JobsStay DEF FilesHold
        <4>3. pc[t] \in {"save"} \cup HeldPoints => UNCHANGED <<base, content>>
          BY <1>0, <1>2, <3>1 DEF PInv, Types, Outside, Accept, Retry, Raise, Crash, Return, Goto,
               HeldPoints, locals, AppliedPoints, CallerPoints
        <4>4. retries'[job[t]] = 0 => retries[job[t]] = 0
          BY <2>1, <4>1, RetriesGrow
        <4> QED
          BY <2>1, <3>1, <4>1, <4>2, <4>3, <4>4 DEF FilesHold, files
      <3>2. CASE pc'[t] \in {"idle", "create", "revert", "admit", "failing", "undo"}
        BY <3>2 DEF FilesHold, FirstPoints, HeldPoints
      <3> QED
        BY <2>1, <3>1, <3>2
    <2>4. (\A u \in Threads : FilesHold(u))'
      BY <2>1, <2>3, OtherFiles
    <2> QED
      BY <1>0, <2>2, <2>4 DEF FInv
  <1>3. CASE UNCHANGED vars
    BY <1>0, <1>3 DEF vars, store, files, locals, FInv, Shapes, Sole, FilesHold
  <1> QED
    BY <1>1, <1>2, <1>3 DEF Next, Outside

\* The first run of a job writes to the workspace what its drift check found
\* there and its own patch, for any number of threads, deliveries of the
\* context and later retries (run_apply).
THEOREM FirstRunWrites == Spec => []FirstRunWritesItsPatch
  <1>1. FInv => FirstRunWritesItsPatch
    BY DEF FInv, FilesHold, HeldPoints, FirstRunWritesItsPatch
  <1> QED
    BY <1>1, InitFInv, FInvStep, PTL DEF Spec

-----------------------------------------------------------------------------
(* Every variable keeps its type *)

FileTypes ==
  /\ workspace \in Contents
  /\ original \in [Events -> Contents \cup {NoFile}]
  /\ patched \in [Events -> Contents \cup {NoFile}]
  /\ backup \in [Events -> Contents \cup {NoFile}]
  /\ registry \in [Tags -> Contents \cup {NoFile}]
  /\ kind \in [Patches -> Kinds \cup {NoFile}]
  /\ base \in [Threads -> Contents] /\ content \in [Threads -> Contents]

\* From its writing to the apply the file of the patched code is there.
PatchedThere ==
  \A t \in Threads : pc[t] \in {"insert", "recheck", "apply"} => patched[job[t]] # NoFile

CountTypes ==
  /\ inbox \in [Events -> 0 .. Deliveries]
  /\ errors \in 0 .. MaxFaults /\ crashes \in 0 .. MaxFaults

TInv == FInv /\ FileTypes /\ PatchedThere /\ CountTypes

LEMMA FileTypesStep ==
  ASSUME TInv, NEW t \in Threads, Run(t)
  PROVE  FileTypes'
  <1>1. Types /\ ThreadHolds(t) /\ FileTypes /\ FileMoves(t)
    BY FilesMove DEF TInv, FInv, PInv
  <1>2. job[t] \in Events
    BY <1>1 DEF Types
  <1>3. /\ pc[t] \in RowPoints \cup OwnPoints => patch[t] \in Patches
        /\ pc[t] \in {"undo", "revert"} => row[patch[t]].job \in Events
    BY <1>1 DEF ThreadHolds, Types, Rows, RowPoints
  <1>4. {Cut} \in Contents /\ {} \in Contents
    BY DEF Contents
  <1>5. workspace' \in Contents
    <2>1. \/ workspace' = workspace \/ workspace' = {Cut} \/ workspace' = content[t]
      BY DEF Run, files, CreateJob, Start, Generate, GenerateFails, WritePatched, SavePatch,
           Recheck, CheckDrift, OpenBackup, WriteBackup, OpenWorkspace, WriteWorkspace, RecordApply,
           Build, BuildFails, RecordBuild, Publish, Complete, Restore, RecordRestore, Fail, Admit
    <2> QED
      BY <1>1, <1>4, <2>1 DEF FileTypes
  <1>6. /\ original' \in [Events -> Contents \cup {NoFile}]
        /\ patched' \in [Events -> Contents \cup {NoFile}]
    <2>1. pc[t] = "save" => base[t] \cup {patch[t]} \in Contents
      BY <1>1, <1>3 DEF FileTypes, Contents, OwnPoints
    <2> QED
      BY <1>1, <2>1 DEF FileMoves, FileTypes
  <1>7. backup' \in [Events -> Contents \cup {NoFile}]
    <2>1. \/ backup' = backup \/ backup' = [backup EXCEPT ![job[t]] = base[t]]
          \/ backup' = [backup EXCEPT ![job[t]] = {Cut}]
      BY DEF Run, files, CreateJob, Start, Generate, GenerateFails, WritePatched, SavePatch,
           Recheck, CheckDrift, OpenBackup, WriteBackup, OpenWorkspace, WriteWorkspace, RecordApply,
           Build, BuildFails, RecordBuild, Publish, Complete, Restore, RecordRestore, Fail, Admit
    <2> QED
      BY <1>1, <1>4, <2>1 DEF FileTypes
  <1>8. registry' \in [Tags -> Contents \cup {NoFile}]
    <2>1. registry' = registry \/ registry' = [registry EXCEPT ![TagOf[patch[t]]] = workspace]
      BY DEF Run, MoveTag, files, CreateJob, Start, Generate, GenerateFails, WritePatched,
           SavePatch, Recheck, CheckDrift, OpenBackup, WriteBackup, OpenWorkspace, WriteWorkspace,
           RecordApply, Build, BuildFails, RecordBuild, Publish, Complete, Restore, RecordRestore,
           Fail, Admit
    <2> QED
      BY <1>1, <2>1 DEF FileTypes
  <1>9. kind' \in [Patches -> Kinds \cup {NoFile}]
    <2>1. kind' = kind \/ \E p \in Fresh, k \in Kinds : kind' = [kind EXCEPT ![p] = k]
      BY DEF Run, files, CreateJob, Start, Generate, GenerateFails, WritePatched, SavePatch,
           Recheck, CheckDrift, OpenBackup, WriteBackup, OpenWorkspace, WriteWorkspace, RecordApply,
           Build, BuildFails, RecordBuild, Publish, Complete, Restore, RecordRestore, Fail, Admit
    <2> QED
      BY <1>1, <2>1 DEF FileTypes
  <1>10. base' \in [Threads -> Contents]
    <2>1. \/ base' = base \/ base' = [base EXCEPT ![t] = workspace]
          \/ base' = [base EXCEPT ![t] = {}]
      BY DEF Run, Return, locals, CreateJob, Start, Generate, GenerateFails, WritePatched,
           SavePatch, Recheck, CheckDrift, OpenBackup, WriteBackup, OpenWorkspace, WriteWorkspace,
           RecordApply, Build, BuildFails, RecordBuild, Publish, Complete, Restore, RecordRestore,
           Fail, Admit
    <2> QED
      BY <1>1, <1>4, <2>1 DEF FileTypes
  <1>11. content' \in [Threads -> Contents]
    <2>1. \/ content' = content \/ content' = [content EXCEPT ![t] = {}]
          \/ pc[t] = "apply" /\ content' = [content EXCEPT ![t] = patched[job[t]]]
          \/ /\ pc[t] \in {"undo", "revert"} /\ backup[row[patch[t]].job] # NoFile
             /\ content' = [content EXCEPT ![t] = backup[row[patch[t]].job]]
      BY DEF Run, Return, locals, CreateJob, Start, Generate, GenerateFails, WritePatched,
           SavePatch, Recheck, CheckDrift, OpenBackup, WriteBackup, OpenWorkspace, WriteWorkspace,
           RecordApply, Build, BuildFails, RecordBuild, Publish, Complete, Restore, RecordRestore,
           Fail, Admit
    <2>2. pc[t] = "apply" => patched[job[t]] \in Contents
      BY <1>1, <1>2 DEF TInv, PatchedThere, FileTypes
    <2>3. pc[t] \in {"undo", "revert"} => backup[row[patch[t]].job] \in Contents \cup {NoFile}
      BY <1>1, <1>3 DEF FileTypes
    <2> QED
      BY <1>1, <1>4, <2>1, <2>2, <2>3 DEF FileTypes
  <1> QED
    BY <1>5, <1>6, <1>7, <1>8, <1>9, <1>10, <1>11 DEF FileTypes

LEMMA PatchedThereStep ==
  ASSUME TInv, NEW t \in Threads, Run(t)
  PROVE  PatchedThere'
  <1>1. /\ Types /\ FileTypes /\ PatchedThere /\ FileMoves(t) /\ pc \in [Threads -> Points]
        /\ Alone(t) /\ job' = job /\ job \in [Threads -> Events]
    BY FilesMove, OthersMove DEF TInv, FInv, PInv, Types
  <1>2. base[t] \cup {patch[t]} # NoFile \/ pc[t] # "save"
    <2>1. SUFFICES ASSUME pc[t] = "save" PROVE base[t] \cup {patch[t]} \in Contents
      BY JobsAssumption DEF JobsAssumption
    <2> QED
      BY <1>1, <2>1 DEF TInv, FInv, PInv, ThreadHolds, OwnPoints, FileTypes, Contents
  <1>3. \A e \in Events : patched[e] # NoFile => patched'[e] # NoFile
    BY <1>1, <1>2 DEF FileMoves, FileTypes
  <1>4. \A u \in Threads \ {t} : pc'[u] = pc[u]
    BY <1>1 DEF Alone
  <1>5. CASE WritePatched(t)
    <2>1. patched'[job[t]] # NoFile
      BY <1>1, <1>2, <1>5 DEF WritePatched, FileTypes
    <2> QED
      BY <1>1, <1>3, <1>4, <2>1 DEF PatchedThere
  <1>6. CASE ~WritePatched(t)
    <2>1. pc'[t] \in {"insert", "recheck", "apply"} => pc[t] \in {"insert", "recheck"}
      BY <1>1, <1>6, NextOfIs DEF Run, Return, Goto, CreateJob, Start, Generate, GenerateFails,
           SavePatch, Recheck, CheckDrift, OpenBackup, WriteBackup, OpenWorkspace, WriteWorkspace,
           RecordApply, Build, BuildFails, RecordBuild, Publish, Complete, Restore, RecordRestore,
           Fail, Admit
    <2> QED
      BY <1>1, <1>3, <1>4, <2>1 DEF PatchedThere
  <1> QED
    BY <1>5, <1>6

LEMMA OutsideTypes ==
  ASSUME TInv, NEW t \in Threads, Outside(t)
  PROVE  FileTypes' /\ PatchedThere'
  <1>1. PInv /\ Types /\ FileTypes /\ PatchedThere
    BY DEF TInv, FInv, PInv
  <1>2. /\ Alone(t) /\ UNCHANGED files
        /\ pc' = pc \/ pc'[t] \in {"idle", "create", "revert", "admit", "failing", "undo"}
        /\ pc' = pc => UNCHANGED <<patch, job>>
    BY <1>1, OutsideMoves, OutsideFiles
  <1>3. /\ base' = base \/ base' = [base EXCEPT ![t] = {}]
        /\ content' = content \/ content' = [content EXCEPT ![t] = {}]
    BY DEF Outside, Accept, Retry, Raise, Crash, Return
  <1>4. FileTypes'
    BY <1>1, <1>2, <1>3 DEF FileTypes, files, Contents
  <1>5. \A u \in Threads \ {t} : pc'[u] = pc[u] /\ job'[u] = job[u]
    BY <1>1, <1>2 DEF Alone, Types
  <1> QED
    BY <1>1, <1>2, <1>4, <1>5 DEF PatchedThere, files

LEMMA CountTypesStep ==
  ASSUME TInv, NEW t \in Threads, Run(t) \/ Outside(t)
  PROVE  CountTypes'
  <1>1. CountTypes /\ Deliveries \in Nat /\ MaxFaults \in Nat
    BY JobsAssumption DEF JobsAssumption, TInv
  <1>2. CASE Outside(t)
    <2>1. CASE \E e \in Events : Accept(t, e)
      BY <1>1, <2>1 DEF Accept, CountTypes, faults
    <2>2. CASE Raise(t) \/ Crash(t)
      BY <1>1, <2>2 DEF Raise, Crash, CountTypes
    <2>3. CASE \E e \in Events, p \in Patches \cup {NoPatch} : Retry(t, e, p)
      BY <1>1, <2>3 DEF Retry, CountTypes, faults
    <2> QED
      BY <1>2, <2>1, <2>2, <2>3 DEF Outside
  <1>3. CASE Run(t)
    <2>1. UNCHANGED <<inbox, errors, crashes>>
      BY <1>3 DEF Run, faults, CreateJob, Start, Generate, GenerateFails, WritePatched, SavePatch,
           Recheck, CheckDrift, OpenBackup, WriteBackup, OpenWorkspace, WriteWorkspace, RecordApply,
           Build, BuildFails, RecordBuild, Publish, Complete, Restore, RecordRestore, Fail, Admit
    <2> QED
      BY <1>1, <2>1 DEF CountTypes
  <1> QED
    BY <1>2, <1>3

LEMMA InitTInv == Init => TInv
  <1> SUFFICES ASSUME Init PROVE TInv
    OBVIOUS
  <1>1. FileTypes
    BY DEF Init, FileTypes, Contents
  <1>2. PatchedThere
    BY DEF Init, PatchedThere
  <1>3. CountTypes
    BY JobsAssumption DEF Init, CountTypes, JobsAssumption
  <1> QED
    BY <1>1, <1>2, <1>3, InitFInv DEF TInv

LEMMA TInvStep == TInv /\ [Next]_vars => TInv'
  <1> SUFFICES ASSUME TInv, [Next]_vars PROVE TInv'
    OBVIOUS
  <1>1. FInv'
    BY FInvStep DEF TInv
  <1>2. ASSUME NEW t \in Threads, Run(t) PROVE TInv'
    BY <1>1, <1>2, FileTypesStep, PatchedThereStep, CountTypesStep DEF TInv
  <1>3. ASSUME NEW t \in Threads, Outside(t) PROVE TInv'
    BY <1>1, <1>3, OutsideTypes, CountTypesStep DEF TInv
  <1>4. CASE UNCHANGED vars
    BY <1>1, <1>4 DEF vars, files, locals, faults, TInv, FileTypes, PatchedThere, CountTypes
  <1> QED
    BY <1>2, <1>3, <1>4 DEF Next, Outside

\* Every variable keeps its type: no file or image holds anything but patches
\* or the trace of a write cut short, and the rows name only patches that were
\* generated (storage.py, service.py), whatever threads share them.
THEOREM TypeCorrect == Spec => []TypeOK
  <1>1. TInv => TypeOK
    <2> SUFFICES ASSUME TInv PROVE TypeOK
      OBVIOUS
    <2>1. Types /\ Lists /\ Shapes /\ FileTypes /\ CountTypes
      BY DEF TInv, FInv, PInv
    <2> QED
      BY <2>1 DEF Types, Lists, Shapes, FileTypes, CountTypes, TypeOK
  <1> QED
    BY <1>1, InitTInv, TInvStep, PTL DEF Spec

-----------------------------------------------------------------------------
(* The worker alone *)

OneThread == \A t, u \in Threads : t = u

\* Content that compiles, of patches the store knows.
Sound(c) == c \ {Cut} \subseteq Patches \ Unused /\ \A p \in c \ {Cut} : kind[p] # "broken"

FilesSound ==
  /\ Sound(workspace)
  /\ \A e \in Events : /\ backup[e] # NoFile => Sound(backup[e])
                       /\ original[e] # NoFile => Sound(original[e])
  /\ \A t \in Threads : Sound(base[t]) /\ Sound(content[t])

\* The workspace holds the patch of the run.
HasPoints == {"record", "undo"} \cup AppliedPoints

\* Where the worker stands tells what exactly is in the files of its run.
Solo(t) ==
  /\ pc[t] = "save" => original[job[t]] = base[t]
  /\ pc[t] \in {"insert", "recheck", "apply"} =>
       /\ original[job[t]] # NoFile
       /\ patched[job[t]] = original[job[t]] \cup {patch[t]}
  /\ pc[t] \in ReadyPoints => kind[patch[t]] # "broken"
  /\ pc[t] \in {"backup", "backing", "install"} =>
       base[t] = workspace /\ content[t] = workspace \cup {patch[t]}
  /\ pc[t] \in {"recheck", "apply", "backup", "backing", "install"} => patch[t] \notin workspace
  /\ pc[t] = "backing" => backup[job[t]] = {Cut}
  /\ pc[t] \in {"install", "fill"} => backup[job[t]] = base[t]
  /\ pc[t] = "fill" => content[t] = base[t] \cup {patch[t]} /\ patch[t] \notin base[t]
  /\ pc[t] \in {"fill", "undoing", "reverting"} => workspace = {Cut}
  /\ pc[t] \in HasPoints =>
       /\ backup[job[t]] # NoFile /\ patch[t] \notin backup[job[t]]
       /\ workspace = backup[job[t]] \cup {patch[t]}
  /\ pc[t] \in AppliedPoints \cup {"undo"} => row[patch[t]].apply = "applied"
  /\ pc[t] \in {"built", "publish", "complete"} => registry[TagOf[patch[t]]] = workspace
  /\ pc[t] = "undo" => row[patch[t]].job = job[t] /\ (patch[t] \in published => errors > 0)

SInv == TInv /\ FilesSound /\ \A t \in Threads : Solo(t)

SoundThen(c) == c \ {Cut} \subseteq Patches \ Unused' /\ \A p \in c \ {Cut} : kind'[p] # "broken"

LEMMA SoundKept ==
  ASSUME TInv, NEW t \in Threads, Run(t), NEW c, Sound(c)
  PROVE  SoundThen(c)
  <1>1. PInv /\ RowMoves(t) /\ kind \in [Patches -> Kinds \cup {NoFile}]
    BY RowsMove DEF TInv, FInv, FileTypes
  <1>2. \A p \in Patches : row[p] # NoFile => row'[p] # NoFile
    BY <1>1, RowsKept
  <1>3. kind' = kind \/ \E p \in Fresh, k \in Kinds : kind' = [kind EXCEPT ![p] = k]
    BY DEF Run, files, CreateJob, Start, Generate, GenerateFails, WritePatched, SavePatch, Recheck,
         CheckDrift, OpenBackup, WriteBackup, OpenWorkspace, WriteWorkspace, RecordApply, Build,
         BuildFails, RecordBuild, Publish, Complete, Restore, RecordRestore, Fail, Admit
  <1>4. \A p \in Patches : row[p] # NoFile => kind'[p] = kind[p]
    BY <1>1, <1>3 DEF Fresh, Unused
  <1> QED
    BY <1>2, <1>4 DEF Sound, SoundThen, Unused

LEMMA FilesSoundStep ==
  ASSUME SInv, NEW t \in Threads, Run(t)
  PROVE  FilesSound'
  <1>1. /\ TInv /\ Types /\ ThreadHolds(t) /\ FileTypes /\ FilesSound /\ Solo(t)
        /\ FileMoves(t) /\ job[t] \in Events
    BY FilesMove DEF SInv, TInv, FInv, PInv, Types
  <1>2. \A c : Sound(c) => SoundThen(c)
    BY <1>1, SoundKept
  <1>3. Sound({}) /\ Sound({Cut})
    BY DEF Sound
  <1>4. Sound(workspace')
    <2>1. \/ workspace' = workspace \/ workspace' = {Cut} \/ workspace' = content[t]
      BY DEF Run, files, CreateJob, Start, Generate, GenerateFails, WritePatched, SavePatch,
           Recheck, CheckDrift, OpenBackup, WriteBackup, OpenWorkspace, WriteWorkspace, RecordApply,
           Build, BuildFails, RecordBuild, Publish, Complete, Restore, RecordRestore, Fail, Admit
    <2> QED
      BY <1>1, <1>3, <2>1 DEF FilesSound
  <1>5. ASSUME NEW e \in Events, backup'[e] # NoFile PROVE Sound(backup'[e])
    <2>1. \/ backup' = backup \/ backup' = [backup EXCEPT ![job[t]] = base[t]]
          \/ backup' = [backup EXCEPT ![job[t]] = {Cut}]
      BY DEF Run, files, CreateJob, Start, Generate, GenerateFails, WritePatched, SavePatch,
           Recheck, CheckDrift, OpenBackup, WriteBackup, OpenWorkspace, WriteWorkspace, RecordApply,
           Build, BuildFails, RecordBuild, Publish, Complete, Restore, RecordRestore, Fail, Admit
    <2> QED
      BY <1>1, <1>3, <1>5, <2>1 DEF FileTypes, FilesSound
  <1>6. ASSUME NEW e \in Events, original'[e] # NoFile PROVE Sound(original'[e])
    BY <1>1, <1>6 DEF FileMoves, FileTypes, FilesSound
  <1>7. ASSUME NEW u \in Threads PROVE Sound(base'[u])
    <2>1. \/ base' = base \/ base' = [base EXCEPT ![t] = workspace]
          \/ base' = [base EXCEPT ![t] = {}]
      BY DEF Run, Return, locals, CreateJob, Start, Generate, GenerateFails, WritePatched,
           SavePatch, Recheck, CheckDrift, OpenBackup, WriteBackup, OpenWorkspace, WriteWorkspace,
           RecordApply, Build, BuildFails, RecordBuild, Publish, Complete, Restore, RecordRestore,
           Fail, Admit
    <2> QED
      BY <1>1, <1>3, <1>7, <2>1 DEF FileTypes, FilesSound
  <1>8. ASSUME NEW u \in Threads PROVE Sound(content'[u])
    <2>1. \/ content' = content \/ content' = [content EXCEPT ![t] = {}]
          \/ pc[t] = "apply" /\ content' = [content EXCEPT ![t] = patched[job[t]]]
          \/ /\ pc[t] \in {"undo", "revert"} /\ backup[row[patch[t]].job] # NoFile
             /\ content' = [content EXCEPT ![t] = backup[row[patch[t]].job]]
      BY DEF Run, Return, locals, CreateJob, Start, Generate, GenerateFails, WritePatched,
           SavePatch, Recheck, CheckDrift, OpenBackup, WriteBackup, OpenWorkspace, WriteWorkspace,
           RecordApply, Build, BuildFails, RecordBuild, Publish, Complete, Restore, RecordRestore,
           Fail, Admit
    <2>2. ASSUME pc[t] = "apply" PROVE Sound(patched[job[t]])
      <3>1. /\ original[job[t]] # NoFile /\ patched[job[t]] = original[job[t]] \cup {patch[t]}
            /\ kind[patch[t]] # "broken"
        BY <1>1, <2>2 DEF Solo, ReadyPoints
      <3>2. patch[t] \in Patches \ Unused
        BY <1>1, <2>2 DEF ThreadHolds, RowPoints, JobPoints, ReadyPoints, Unused
      <3> QED
        BY <1>1, <3>1, <3>2 DEF FilesSound, Sound
    <2>3. ASSUME pc[t] \in {"undo", "revert"}, backup[row[patch[t]].job] # NoFile
          PROVE  Sound(backup[row[patch[t]].job])
      <3>1. row[patch[t]].job \in Events
        BY <1>1, <2>3 DEF ThreadHolds, Types, Rows, RowPoints
      <3> QED
        BY <1>1, <2>3, <3>1 DEF FilesSound
    <2> QED
      BY <1>1, <1>3, <1>8, <2>1, <2>2, <2>3 DEF FileTypes, FilesSound
  <1>9. SoundThen(workspace')
    BY <1>2, <1>4
  <1>10. \A e \in Events : /\ backup'[e] # NoFile => SoundThen(backup'[e])
                           /\ original'[e] # NoFile => SoundThen(original'[e])
    BY <1>2, <1>5, <1>6
  <1>11. \A u \in Threads : SoundThen(base'[u]) /\ SoundThen(content'[u])
    BY <1>2, <1>7, <1>8
  <1> QED
    BY <1>9, <1>10, <1>11 DEF FilesSound, Sound, SoundThen

LEMMA SoloStep ==
  ASSUME SInv, NEW t \in Threads, Run(t)
  PROVE  Solo(t)'
  <1>1. /\ Types /\ ThreadHolds(t) /\ FileTypes /\ FilesSound /\ Solo(t) /\ job' = job
        /\ RowMoves(t) /\ Lists
    BY OthersMove, RowsMove DEF SInv, TInv, FInv, PInv
  <1>p. /\ pc \in [Threads -> Points] /\ job[t] \in Events
        /\ patch \in [Threads -> Patches \cup {NoPatch}]
    BY <1>1 DEF Types
  <1>2. ASSUME pc'[t] \in {"idle", "start", "generate", "failing", "undone", "reverted", "admit"}
        PROVE  Solo(t)'
    BY <1>2 DEF Solo, ReadyPoints, HasPoints, AppliedPoints
  <1>3. CASE \/ CreateJob(t) \/ Start(t) \/ GenerateFails(t) \/ Complete(t)
             \/ RecordRestore(t) \/ Fail(t) \/ Admit(t)
    <2>1. pc'[t] \in {"idle", "start", "generate", "failing", "undone", "reverted", "admit"}
      BY <1>3, <1>p DEF CreateJob, Start, GenerateFails, Complete, RecordRestore, Fail, Admit,
           Return, Goto
    <2> QED
      BY <1>2, <2>1
  <1>4. CASE Generate(t)
    <2>1. pc'[t] = "save" /\ original'[job[t]] = base[t] /\ base' = base
      BY <1>1, <1>p, <1>4 DEF Generate, Goto, FileTypes
    <2> QED
      BY <1>1, <2>1 DEF Solo, ReadyPoints, HasPoints, AppliedPoints
  <1>5. CASE WritePatched(t)
    <2>1. /\ pc[t] = "save" /\ pc'[t] = "insert" /\ patch' = patch /\ original' = original
          /\ patched'[job[t]] = base[t] \cup {patch[t]}
      BY <1>1, <1>p, <1>5 DEF WritePatched, Goto, FileTypes, locals
    <2>2. base[t] # NoFile
      BY <1>1, JobsAssumption DEF FileTypes, JobsAssumption
    <2> QED
      BY <1>1, <2>1, <2>2 DEF Solo, ReadyPoints, HasPoints, AppliedPoints
  <1>6. CASE SavePatch(t)
    <2>1. /\ pc[t] = "insert" /\ pc'[t] = "recheck" /\ UNCHANGED <<patch, original, patched, workspace>>
      BY <1>p, <1>6 DEF SavePatch, Goto, files
    <2>2. patch[t] \in Unused
      BY <1>1, <2>1 DEF ThreadHolds, OwnPoints, Unused
    <2>3. patch[t] \notin workspace
      BY <1>1, <2>2, JobsAssumption DEF FilesSound, Sound, Unused, JobsAssumption
    <2> QED
      BY <1>1, <2>1, <2>3 DEF Solo, ReadyPoints, HasPoints, AppliedPoints
  <1>7. CASE Recheck(t)
    <2>1. /\ pc[t] = "recheck" /\ pc'[t] \in {"apply", "failing"}
          /\ UNCHANGED <<patch, original, patched, workspace, kind>>
          /\ pc'[t] = "apply" => PassesRecheck(patch[t], patched[job[t]])
      BY <1>p, <1>7 DEF Recheck, Goto, files, locals
    <2>2. patch[t] \in Patches /\ patch[t] # Cut
      BY <1>1, <2>1, JobsAssumption DEF ThreadHolds, RowPoints, JobPoints, JobsAssumption
    <2>3. pc'[t] = "apply" => kind[patch[t]] # "broken"
      BY <1>1, <2>1, <2>2 DEF Solo, PassesRecheck
    <2> QED
      BY <1>1, <2>1, <2>3 DEF Solo, ReadyPoints, HasPoints, AppliedPoints
  <1>8. CASE CheckDrift(t)
    <2>1. /\ pc[t] = "apply" /\ pc'[t] \in {"backup", "failing"}
          /\ UNCHANGED <<patch, workspace, kind>>
          /\ base'[t] = workspace /\ content'[t] = patched[job[t]]
          /\ pc'[t] = "backup" => workspace = original[job[t]]
      BY <1>1, <1>p, <1>8 DEF CheckDrift, Goto, files, FileTypes
    <2> QED
      BY <1>1, <2>1 DEF Solo, ReadyPoints, HasPoints, AppliedPoints
  <1>9. CASE OpenBackup(t)
    <2>1. /\ pc[t] = "backup" /\ pc'[t] = "backing" /\ backup'[job[t]] = {Cut}
          /\ UNCHANGED <<patch, workspace, kind, base, content>>
      BY <1>1, <1>p, <1>9 DEF OpenBackup, Goto, locals, FileTypes
    <2> QED
      BY <1>1, <2>1 DEF Solo, ReadyPoints, HasPoints, AppliedPoints
  <1>10. CASE WriteBackup(t)
    <2>1. /\ pc[t] = "backing" /\ pc'[t] = "install" /\ backup'[job[t]] = base[t]
          /\ UNCHANGED <<patch, workspace, kind, base, content>>
      BY <1>1, <1>p, <1>10 DEF WriteBackup, Goto, locals, FileTypes
    <2> QED
      BY <1>1, <2>1 DEF Solo, ReadyPoints, HasPoints, AppliedPoints
  <1>11. CASE OpenWorkspace(t)
    <2>1. /\ pc[t] = "install" /\ pc'[t] = "fill" /\ workspace' = {Cut}
          /\ UNCHANGED <<patch, backup, kind, base, content>>
      BY <1>1, <1>p, <1>11 DEF OpenWorkspace, Goto, locals
    <2> QED
      BY <1>1, <2>1 DEF Solo, ReadyPoints, HasPoints, AppliedPoints
  <1>12. CASE WriteWorkspace(t)
    <2>1. /\ pc[t] \in {"fill", "undoing", "reverting"} /\ pc'[t] = NextOf[pc[t]]
          /\ workspace' = content[t] /\ UNCHANGED <<patch, backup, kind>>
      BY <1>p, <1>12, NextOfIs DEF WriteWorkspace, Goto, locals
    <2>2. pc[t] # "fill" => pc'[t] \in {"undone", "reverted"}
      BY <2>1, NextOfIs
    <2>3. CASE pc[t] = "fill"
      <3>1. pc'[t] = "record"
        BY <2>1, <2>3, NextOfIs
      <3>2. base[t] # NoFile
        BY <1>1, JobsAssumption DEF FileTypes, JobsAssumption
      <3> QED
        BY <1>1, <2>1, <2>3, <3>1, <3>2 DEF Solo, ReadyPoints, HasPoints, AppliedPoints
    <2> QED
      BY <1>2, <2>2, <2>3
  <1>13. CASE RecordApply(t)
    <2> DEFINE new == [row[patch[t]] EXCEPT !.apply = "applied"]
    <2>1. /\ pc[t] = "record" /\ pc'[t] = "build" /\ SaveRow(patch[t], new)
          /\ UNCHANGED <<patch, workspace, backup, kind>>
      BY <1>p, <1>13 DEF RecordApply, Goto, files
    <2>2. patch[t] \in Patches /\ row[patch[t]] \in Rows
      BY <1>1, <2>1 DEF ThreadHolds, Types, RowPoints, JobPoints, ReadyPoints
    <2>3. new \in Rows /\ new.apply = "applied"
      BY <2>2 DEF Rows
    <2> HIDE DEF new
    <2>4. row'[patch[t]].apply = "applied"
      BY <1>1, <2>1, <2>2, <2>3, SaveRowMoves
    <2> QED
      BY <1>1, <2>1, <2>4 DEF Solo, ReadyPoints, HasPoints, AppliedPoints
  <1>14. CASE Build(t)
    <2>1. /\ pc[t] = "build" /\ pc'[t] = "built"
          /\ registry' = [registry EXCEPT ![TagOf[patch[t]]] = workspace]
          /\ UNCHANGED <<row, patch, workspace, backup, kind>>
      BY <1>p, <1>14 DEF Build, MoveTag, Goto, locals
    <2>2. registry'[TagOf[patch[t]]] = workspace
      BY <1>1, <2>1 DEF FileTypes, Tags, ThreadHolds, OwnPoints, JobPoints, ReadyPoints,
                        AppliedPoints
    <2> QED
      BY <1>1, <2>1, <2>2 DEF Solo, ReadyPoints, HasPoints, AppliedPoints
  <1>15. CASE BuildFails(t)
    <2>1. /\ pc[t] = "build" /\ pc'[t] = "undo"
          /\ UNCHANGED <<row, patch, workspace, backup, kind, published>>
      BY <1>p, <1>15 DEF BuildFails, Goto, locals, bus
    <2>2. row[patch[t]].job = job[t] /\ patch[t] \notin published
      BY <1>1, <2>1 DEF ThreadHolds, JobPoints, ReadyPoints, AppliedPoints, Lists
    <2> QED
      BY <1>1, <2>1, <2>2 DEF Solo, ReadyPoints, HasPoints, AppliedPoints
  <1>16. CASE RecordBuild(t) \/ Publish(t)
    <2>1. /\ pc[t] \in {"built", "publish"} /\ pc'[t] \in {"publish", "complete"}
          /\ UNCHANGED <<row, patch, workspace, backup, kind, registry>>
      BY <1>p, <1>16 DEF RecordBuild, Publish, Goto, locals, files, store
    <2> QED
      BY <1>1, <2>1 DEF Solo, ReadyPoints, HasPoints, AppliedPoints
  <1>17. CASE Restore(t)
    <2>1. \/ pc'[t] \in {"failing", "idle"}
          \/ pc'[t] \in {"undoing", "reverting"} /\ workspace' = {Cut}
      BY <1>p, <1>17 DEF Restore, Return, Goto
    <2>2. ASSUME pc'[t] \in {"undoing", "reverting"}, workspace' = {Cut} PROVE Solo(t)'
      BY <2>2 DEF Solo, ReadyPoints, HasPoints, AppliedPoints
    <2> QED
      BY <1>2, <2>1, <2>2
  <1> QED
    BY <1>3, <1>4, <1>5, <1>6, <1>7, <1>8, <1>9, <1>10, <1>11, <1>12, <1>13, <1>14, <1>15, <1>16,
       <1>17 DEF Run

LEMMA OutsideSound ==
  ASSUME SInv, NEW t \in Threads, Outside(t)
  PROVE  FilesSound' /\ Solo(t)'
  <1>1. /\ PInv /\ Types /\ FileTypes /\ FilesSound /\ Solo(t) /\ ThreadHolds(t)
    BY DEF SInv, TInv, FInv, PInv
  <1>2. /\ UNCHANGED <<row, bus, files>>
        /\ pc' = pc \/ pc'[t] \in {"idle", "create", "revert", "admit", "failing", "undo"}
        /\ pc' = pc => UNCHANGED <<patch, job>>
        /\ pc'[t] = "undo" => pc' = pc \/ (pc[t] \in AppliedPoints /\ UNCHANGED <<patch, job>>)
    BY <1>1, OutsideMoves, OutsideFiles
  <1>3. /\ base' = base \/ base' = [base EXCEPT ![t] = {}]
        /\ content' = content \/ content' = [content EXCEPT ![t] = {}]
    BY DEF Outside, Accept, Retry, Raise, Crash, Return
  <1>4. FilesSound'
    <2>1. /\ \A e \in Events : backup'[e] = backup[e] /\ original'[e] = original[e]
          /\ workspace' = workspace
      BY <1>2 DEF files
    <2>2. \A u \in Threads : base'[u] \in {base[u], {}} /\ content'[u] \in {content[u], {}}
      BY <1>1, <1>3 DEF FileTypes
    <2> QED
      BY <1>1, <1>2, <2>1, <2>2 DEF FilesSound, Sound, Unused, files
  <1>5. (errors > 0 => errors' > 0) /\ (pc'[t] = "undo" /\ pc'[t] # pc[t] => errors' > 0)
    <2>1. errors \in Nat
      BY JobsAssumption DEF SInv, TInv, CountTypes, JobsAssumption
    <2>2. errors' = errors \/ errors' = errors + 1
      BY DEF Outside, Accept, Retry, Raise, Crash, faults
    <2>3. pc'[t] = "undo" /\ pc'[t] # pc[t] => errors' = errors + 1
      BY <1>1 DEF Outside, Accept, Retry, Raise, Crash, Return, Goto, Types
    <2> QED
      BY <2>1, <2>2, <2>3
  <1>6. ASSUME pc' = pc PROVE Solo(t)'
    <2>1. UNCHANGED <<job, patch>>
      BY <1>2, <1>6
    <2>2. UNCHANGED <<base, content>>
      BY <1>1, <1>6 DEF Types, Outside, Accept, Retry, Raise, Crash, Return, Goto, AppliedPoints,
           CallerPoints
    <2> QED
      BY <1>1, <1>2, <1>5, <1>6, <2>1, <2>2 DEF Solo, files, bus
  <1>7. ASSUME pc'[t] = "undo", pc' # pc PROVE Solo(t)'
    <2>1. pc[t] \in AppliedPoints /\ UNCHANGED <<patch, job>> /\ errors' > 0
      BY <1>2, <1>5, <1>7 DEF AppliedPoints
    <2>2. row[patch[t]].job = job[t]
      BY <1>1, <2>1 DEF ThreadHolds, JobPoints, ReadyPoints
    <2> QED
      BY <1>1, <1>2, <1>7, <2>1, <2>2 DEF Solo, ReadyPoints, HasPoints, AppliedPoints, files
  <1>8. ASSUME pc'[t] \in {"idle", "create", "revert", "admit", "failing"} PROVE Solo(t)'
    BY <1>8 DEF Solo, ReadyPoints, HasPoints, AppliedPoints
  <1> QED
    BY <1>2, <1>4, <1>6, <1>7, <1>8

LEMMA InitSInv == Init => SInv
  <1> SUFFICES ASSUME Init PROVE SInv
    OBVIOUS
  <1>1. FilesSound
    BY DEF Init, FilesSound, Sound
  <1>2. \A t \in Threads : Solo(t)
    BY DEF Init, Solo, ReadyPoints, HasPoints, AppliedPoints
  <1> QED
    BY <1>1, <1>2, InitTInv DEF SInv

LEMMA SInvStep == OneThread /\ SInv /\ [Next]_vars => SInv'
  <1> SUFFICES ASSUME OneThread, SInv, [Next]_vars PROVE SInv'
    OBVIOUS
  <1>1. TInv'
    BY TInvStep DEF SInv
  <1>2. ASSUME NEW t \in Threads, Run(t) \/ Outside(t) PROVE SInv'
    <2>1. FilesSound' /\ Solo(t)'
      BY <1>2, FilesSoundStep, SoloStep, OutsideSound
    <2>2. (\A u \in Threads : Solo(u))'
      BY <2>1 DEF OneThread
    <2> QED
      BY <1>1, <2>1, <2>2 DEF SInv
  <1>3. CASE UNCHANGED vars
    BY <1>1, <1>3 DEF vars, store, files, bus, locals, faults, SInv, FilesSound, Sound, Solo,
                      Unused
  <1> QED
    BY <1>2, <1>3 DEF Next, Outside

LEMMA InvariantS == OneThread => (Spec => []SInv)
  <1> SUFFICES ASSUME OneThread PROVE Spec => []SInv
    OBVIOUS
  <1>1. SInv /\ [Next]_vars => SInv'
    BY SInvStep
  <1> QED
    BY <1>1, InitSInv, PTL DEF Spec

\* The worker alone brings no code that does not compile to the workspace,
\* whatever the LLM returns and wherever something raises or the process dies
\* (run_recheck, run_apply, rollback_apply).
THEOREM CompilesAlone == OneThread => (Spec => []WorkspaceCompiles)
  <1>1. SInv => WorkspaceCompiles
    BY DEF SInv, FilesSound, Sound, WorkspaceCompiles
  <1> QED
    BY <1>1, InvariantS, PTL

\* The image the worker alone announces contains the announced patch, and the
\* row says so (run_apply, run_build, MessageBus.publish).
THEOREM ImageHoldsAlone == OneThread => (Spec => PublishedImageHasPatch)
  <1> SUFFICES ASSUME OneThread PROVE Spec => PublishedImageHasPatch
    OBVIOUS
  <1>1. SInv /\ [Next]_vars =>
          [\A t \in Threads :
             Publish(t) => /\ patch[t] \in registry[TagOf[patch[t]]]
                           /\ row[patch[t]].apply = "applied"]_vars
    <2> SUFFICES ASSUME SInv, NEW t \in Threads, Publish(t)
                 PROVE  patch[t] \in registry[TagOf[patch[t]]] /\ row[patch[t]].apply = "applied"
      OBVIOUS
    <2>1. pc[t] = "publish" /\ Solo(t)
      BY DEF SInv, Publish
    <2> QED
      BY <2>1 DEF Solo, HasPoints, AppliedPoints
  <1>2. SInv /\ [Next]_vars => SInv'
    BY SInvStep
  <1> QED
    BY <1>1, <1>2, InitSInv, PTL DEF Spec, PublishedImageHasPatch

-----------------------------------------------------------------------------
(* The worker alone implements PatchTransactions *)

OpenPoints == {"fill"} \cup HasPoints
FillPoints == {"fill", "undoing", "reverting"}

LEMMA WorkspaceIs ==
  ASSUME OneThread, NEW t \in Threads
  PROVE  /\ pc[t] \in FillPoints => WorkspaceToBe = content[t]
         /\ pc[t] \notin FillPoints => WorkspaceToBe = workspace
         /\ pc'[t] \in FillPoints => WorkspaceToBe' = content'[t]
         /\ pc'[t] \notin FillPoints => WorkspaceToBe' = workspace'
  <1>1. Threads = {t}
    BY DEF OneThread
  <1>2. /\ Filling = IF pc[t] \in FillPoints THEN {t} ELSE {}
        /\ Filling' = IF pc'[t] \in FillPoints THEN {t} ELSE {}
    BY <1>1, NextOfIs DEF Filling, FillPoints
  <1>3. /\ UNION {content[u] : u \in {t}} = content[t]
        /\ UNION {content'[u] : u \in {t}} = content'[t]
    OBVIOUS
  <1> QED
    BY <1>2, <1>3 DEF WorkspaceToBe

LEMMA BackupIs ==
  ASSUME OneThread, NEW t \in Threads
  PROVE  /\ BackupToBe = [e \in Events |-> IF pc[t] = "backing" /\ job[t] = e
                                           THEN base[t] ELSE backup[e]]
         /\ BackupToBe' = [e \in Events |-> IF pc'[t] = "backing" /\ job'[t] = e
                                            THEN base'[t] ELSE backup'[e]]
  <1>1. Threads = {t}
    BY DEF OneThread
  <1>2. ASSUME NEW e \in Events
        PROVE  /\ Backing(e) = IF pc[t] = "backing" /\ job[t] = e THEN {t} ELSE {}
               /\ Backing(e)' = IF pc'[t] = "backing" /\ job'[t] = e THEN {t} ELSE {}
    BY <1>1 DEF Backing
  <1>3. /\ UNION {base[u] : u \in {t}} = base[t]
        /\ UNION {base'[u] : u \in {t}} = base'[t]
    OBVIOUS
  <1> QED
    BY <1>2, <1>3 DEF BackupToBe

LEMMA UndecidedIs ==
  ASSUME OneThread, NEW t \in Threads
  PROVE  /\ Undecided = IF pc[t] \in OpenPoints THEN {patch[t]} ELSE {}
         /\ Undecided' = IF pc'[t] \in OpenPoints THEN {patch'[t]} ELSE {}
  <1>1. Threads = {t}
    BY DEF OneThread
  <1>2. Undecided = IF pc[t] \in OpenPoints THEN {patch[t]} ELSE {}
    BY <1>1 DEF Undecided, OpenPoints, HasPoints
  <1>3. Undecided' = IF pc'[t] \in OpenPoints THEN {patch'[t]} ELSE {}
    BY <1>1 DEF Undecided, OpenPoints, HasPoints
  <1> QED
    BY <1>2, <1>3

\* The backups of a worker that is not writing one.
LEMMA BackupStays ==
  ASSUME OneThread, NEW t \in Threads, pc[t] # "backing", pc'[t] # "backing", UNCHANGED backup
  PROVE  BackupToBe' = BackupToBe
  BY BackupIs

\* A step that leaves alone what the transactions are about.
LEMMA NoTransaction ==
  ASSUME WorkspaceToBe' = WorkspaceToBe, BackupToBe' = BackupToBe, Undecided' = Undecided,
         UNCHANGED <<registry, published, errors, crashes>>
  PROVE  [Transactions!Next]_(Transactions!vars)
  BY DEF Transactions!vars

LEMMA QuietTransacts ==
  ASSUME OneThread, SInv, NEW t \in Threads,
         \/ CreateJob(t) \/ Start(t) \/ Generate(t) \/ GenerateFails(t) \/ WritePatched(t)
         \/ SavePatch(t) \/ Recheck(t) \/ CheckDrift(t) \/ RecordApply(t) \/ RecordBuild(t)
         \/ RecordRestore(t) \/ Fail(t) \/ Admit(t)
         \/ \E e \in Events : Accept(t, e)
         \/ \E e \in Events, p \in Patches \cup {NoPatch} : Retry(t, e, p)
  PROVE  [Transactions!Next]_(Transactions!vars)
  <1>1. pc \in [Threads -> Points]
    BY DEF SInv, TInv, FInv, PInv, Types
  <1>2. UNCHANGED <<workspace, backup, registry, published, errors, crashes>>
    BY DEF CreateJob, Start, Generate, GenerateFails, WritePatched, SavePatch, Recheck, CheckDrift,
         RecordApply, RecordBuild, RecordRestore, Fail, Admit, Accept, Retry, files, bus, faults
  <1>3. CASE RecordApply(t) \/ RecordBuild(t)
    <2>1. /\ pc[t] \in HasPoints /\ pc'[t] \in HasPoints /\ patch' = patch
      BY <1>1, <1>3 DEF RecordApply, RecordBuild, Goto, HasPoints, AppliedPoints, locals
    <2>2. WorkspaceToBe' = WorkspaceToBe /\ Undecided' = Undecided /\ BackupToBe' = BackupToBe
      BY <1>2, <2>1, WorkspaceIs, UndecidedIs, BackupStays
         DEF OpenPoints, HasPoints, FillPoints, AppliedPoints
    <2> QED
      BY <1>2, <2>2, NoTransaction
  <1>4. CASE ~(RecordApply(t) \/ RecordBuild(t))
    <2>1. /\ pc[t] \notin OpenPoints \cup FillPoints \cup {"backing"}
          /\ pc'[t] \notin OpenPoints \cup FillPoints \cup {"backing"}
      BY <1>1, <1>4 DEF CreateJob, Start, Generate, GenerateFails, WritePatched, SavePatch, Recheck,
           CheckDrift, RecordRestore, Fail, Admit, Accept, Retry, Return, Goto, OpenPoints,
           HasPoints, AppliedPoints, FillPoints
    <2>2. WorkspaceToBe' = WorkspaceToBe /\ Undecided' = Undecided /\ BackupToBe' = BackupToBe
      BY <1>2, <2>1, WorkspaceIs, UndecidedIs, BackupStays
    <2> QED
      BY <1>2, <2>2, NoTransaction
  <1> QED
    BY <1>3, <1>4

\* Opening the backup remembers the workspace; its contents follow.
LEMMA BackupRemembers ==
  ASSUME OneThread, SInv, NEW t \in Threads, OpenBackup(t) \/ WriteBackup(t)
  PROVE  [Transactions!Next]_(Transactions!vars)
  <1>1. Types /\ FileTypes /\ Solo(t) /\ job[t] \in Events
    BY DEF SInv, TInv, FInv, PInv, Types
  <1>2. UNCHANGED <<workspace, registry, published, errors, crashes, job, base>>
    BY DEF OpenBackup, WriteBackup, locals, bus, faults
  <1>3. CASE OpenBackup(t)
    <2>1. /\ pc[t] = "backup" /\ pc'[t] = "backing" /\ base[t] = workspace
          /\ backup' = [backup EXCEPT ![job[t]] = {Cut}]
      BY <1>1, <1>3 DEF OpenBackup, Goto, Types, Solo
    <2>2. /\ WorkspaceToBe = workspace /\ WorkspaceToBe' = workspace
          /\ Undecided = {} /\ Undecided' = {}
      BY <1>2, <2>1, WorkspaceIs, UndecidedIs DEF OpenPoints, HasPoints, AppliedPoints, FillPoints
    <2>3. BackupToBe' = [BackupToBe EXCEPT ![job[t]] = workspace]
      BY <1>1, <1>2, <2>1, BackupIs DEF FileTypes
    <2>4. Transactions!Remember(job[t])
      BY <1>2, <2>2, <2>3 DEF Transactions!Remember
    <2> QED
      BY <1>1, <2>4 DEF Transactions!Next
  <1>4. CASE WriteBackup(t)
    <2>1. /\ pc[t] = "backing" /\ pc'[t] = "install"
          /\ backup' = [backup EXCEPT ![job[t]] = base[t]]
      BY <1>1, <1>4 DEF WriteBackup, Goto, Types
    <2>2. WorkspaceToBe' = WorkspaceToBe /\ Undecided' = Undecided
      BY <1>2, <2>1, WorkspaceIs, UndecidedIs DEF OpenPoints, HasPoints, AppliedPoints, FillPoints
    <2>3. BackupToBe' = BackupToBe
      BY <1>1, <1>2, <2>1, BackupIs DEF FileTypes
    <2> QED
      BY <1>2, <2>2, <2>3, NoTransaction
  <1> QED
    BY <1>3, <1>4

\* Opening the workspace installs the patch; the contents follow.
LEMMA WriteInstalls ==
  ASSUME OneThread, SInv, NEW t \in Threads, OpenWorkspace(t) \/ WriteWorkspace(t)
  PROVE  [Transactions!Next]_(Transactions!vars)
  <1>1. Types /\ Lists /\ ThreadHolds(t) /\ FileTypes /\ Solo(t) /\ job[t] \in Events
    BY DEF SInv, TInv, FInv, PInv, Types
  <1>2. UNCHANGED <<backup, registry, published, errors, crashes, job, patch, base, content>>
    BY DEF OpenWorkspace, WriteWorkspace, locals, bus, faults
  <1>3. CASE OpenWorkspace(t)
    <2>1. pc[t] = "install" /\ pc'[t] = "fill"
      BY <1>1, <1>3 DEF OpenWorkspace, Goto, Types
    <2>2. /\ patch[t] \in Patches /\ patch[t] \notin workspace \cup published
          /\ base[t] = workspace /\ backup[job[t]] = workspace
          /\ content[t] = workspace \cup {patch[t]}
      BY <1>1, <2>1 DEF ThreadHolds, RowPoints, JobPoints, ReadyPoints, Lists, Solo
    <2>3. /\ WorkspaceToBe = workspace /\ WorkspaceToBe' = workspace \cup {patch[t]}
          /\ Undecided = {} /\ Undecided' = {patch[t]} /\ BackupToBe' = BackupToBe
      BY <1>2, <2>1, <2>2, WorkspaceIs, UndecidedIs, BackupStays
         DEF OpenPoints, HasPoints, AppliedPoints, FillPoints
    <2>4. BackupToBe[job[t]] = workspace
      BY <1>1, <2>1, <2>2, BackupIs
    <2>5. Transactions!Install(job[t], patch[t])
      BY <1>2, <2>2, <2>3, <2>4 DEF Transactions!Install
    <2> QED
      BY <1>1, <2>2, <2>5 DEF Transactions!Next
  <1>4. CASE WriteWorkspace(t)
    <2>1. /\ pc[t] \in FillPoints /\ pc'[t] \in {"record", "undone", "reverted"}
          /\ pc[t] = "fill" <=> pc'[t] = "record" /\ workspace' = content[t]
          /\ workspace' = content[t]
      BY <1>1, <1>4, NextOfIs DEF WriteWorkspace, Goto, Types, FillPoints
    <2>2. WorkspaceToBe' = WorkspaceToBe
      BY <2>1, WorkspaceIs DEF FillPoints
    <2>3. Undecided' = Undecided
      BY <1>2, <2>1, UndecidedIs DEF OpenPoints, HasPoints, AppliedPoints, FillPoints
    <2>4. BackupToBe' = BackupToBe
      BY <1>2, <2>1, BackupStays DEF FillPoints
    <2> QED
      BY <1>2, <2>2, <2>3, <2>4, NoTransaction
  <1> QED
    BY <1>3, <1>4

\* The image is made of the workspace, announced, and the run ends with it.
LEMMA BuildTransacts ==
  ASSUME OneThread, SInv, NEW t \in Threads,
         Build(t) \/ BuildFails(t) \/ Publish(t) \/ Complete(t)
  PROVE  [Transactions!Next]_(Transactions!vars)
  <1>1. Types /\ ThreadHolds(t) /\ Solo(t)
    BY DEF SInv, TInv, FInv, PInv
  <1>2. UNCHANGED <<workspace, backup, errors, crashes>> /\ pc[t] \in AppliedPoints
    BY DEF Build, BuildFails, Publish, Complete, files, faults, AppliedPoints
  <1>3. patch[t] \in Patches
    BY <1>1, <1>2 DEF ThreadHolds, OwnPoints, JobPoints, ReadyPoints
  <1>4. /\ WorkspaceToBe = workspace /\ Undecided = {patch[t]}
        /\ pc'[t] \in HasPoints \cup {"idle"} =>
             WorkspaceToBe' = workspace /\ BackupToBe' = BackupToBe
        /\ pc'[t] \in HasPoints => Undecided' = {patch'[t]}
        /\ pc'[t] = "idle" => Undecided' = {}
    BY <1>2, WorkspaceIs, UndecidedIs, BackupStays
       DEF OpenPoints, HasPoints, AppliedPoints, FillPoints
  <1>5. CASE Build(t) \/ BuildFails(t)
    <2>1. /\ pc'[t] \in {"built", "undo"} /\ UNCHANGED <<patch, published>>
          /\ UNCHANGED registry \/ registry' = [registry EXCEPT ![TagOf[patch[t]]] = workspace]
      BY <1>1, <1>5 DEF Build, BuildFails, MoveTag, Goto, Types, locals, bus
    <2>2. WorkspaceToBe' = workspace /\ BackupToBe' = BackupToBe /\ Undecided' = {patch[t]}
      BY <1>4, <2>1 DEF HasPoints, AppliedPoints
    <2>3. ASSUME UNCHANGED registry PROVE [Transactions!Next]_(Transactions!vars)
      BY <1>2, <1>4, <2>1, <2>2, <2>3, NoTransaction
    <2>4. ASSUME registry' = [registry EXCEPT ![TagOf[patch[t]]] = workspace]
          PROVE  [Transactions!Next]_(Transactions!vars)
      <3>1. Transactions!BuildImage(patch[t])
        BY <1>2, <1>4, <2>1, <2>2, <2>4 DEF Transactions!BuildImage
      <3> QED
        BY <1>3, <3>1 DEF Transactions!Next
    <2> QED
      BY <2>1, <2>3, <2>4
  <1>6. CASE Publish(t)
    <2>1. /\ pc[t] = "publish" /\ pc'[t] = "complete" /\ UNCHANGED <<patch, registry>>
          /\ UNCHANGED published \/ published' = published \cup {patch[t]}
      BY <1>1, <1>6 DEF Publish, Goto, Types, locals, files
    <2>2. WorkspaceToBe' = workspace /\ BackupToBe' = BackupToBe /\ Undecided' = {patch[t]}
      BY <1>4, <2>1 DEF HasPoints, AppliedPoints
    <2>3. ASSUME UNCHANGED published PROVE [Transactions!Next]_(Transactions!vars)
      BY <1>2, <1>4, <2>1, <2>2, <2>3, NoTransaction
    <2>4. ASSUME published' = published \cup {patch[t]}
          PROVE  [Transactions!Next]_(Transactions!vars)
      <3>1. registry[TagOf[patch[t]]] = workspace
        BY <1>1, <2>1 DEF Solo
      <3>2. Transactions!Announce(patch[t])
        BY <1>2, <1>4, <2>1, <2>2, <2>4, <3>1 DEF Transactions!Announce
      <3> QED
        BY <1>3, <3>2 DEF Transactions!Next
    <2> QED
      BY <2>1, <2>3, <2>4
  <1>7. CASE Complete(t)
    <2>1. pc[t] = "complete" /\ pc'[t] = "idle" /\ UNCHANGED <<registry, published>>
      BY <1>1, <1>7 DEF Complete, Return, Goto, Types, files, bus
    <2>2. registry[TagOf[patch[t]]] = workspace
      BY <1>1, <2>1 DEF Solo
    <2>3. Transactions!Commit(patch[t])
      BY <1>2, <1>4, <2>1, <2>2 DEF Transactions!Commit
    <2> QED
      BY <1>3, <2>3 DEF Transactions!Next
  <1> QED
    BY <1>5, <1>6, <1>7

\* The except clause takes out what its run has installed; a retry goes back
\* before the last installation of its job.
LEMMA RestoreTransacts ==
  ASSUME OneThread, SInv, NEW t \in Threads, Restore(t)
  PROVE  [Transactions!Next]_(Transactions!vars)
  <1>1. Types /\ ThreadHolds(t) /\ FileTypes /\ Solo(t)
    BY DEF SInv, TInv, FInv, PInv
  <1>2. UNCHANGED <<backup, registry, published, errors, crashes>> /\ pc[t] \in {"undo", "revert"}
    BY DEF Restore, bus, faults
  <1>3. pc'[t] # "backing" => BackupToBe' = BackupToBe
    BY <1>2, BackupStays
  <1>4. CASE pc[t] = "undo"
    <2>1. /\ backup[job[t]] # NoFile /\ patch[t] \notin backup[job[t]]
          /\ row[patch[t]].job = job[t] /\ row[patch[t]].apply = "applied"
          /\ workspace = backup[job[t]] \cup {patch[t]}
          /\ (patch[t] \in published => errors > 0)
      BY <1>1, <1>4 DEF Solo, HasPoints
    <2>2. pc'[t] = "undoing" /\ content'[t] = backup[job[t]]
      BY <1>1, <1>4, <2>1 DEF Restore, Goto, Types, FileTypes
    <2>3. content'[t] = workspace \ {patch[t]}
      BY <2>1, <2>2
    <2>4. patch[t] \in Patches
      BY <1>1, <1>4 DEF ThreadHolds, RowPoints
    <2>5. /\ WorkspaceToBe = workspace /\ WorkspaceToBe' = workspace \ {patch[t]}
          /\ Undecided = {patch[t]} /\ Undecided' = {}
      BY <1>4, <2>2, <2>3, WorkspaceIs, UndecidedIs
         DEF OpenPoints, HasPoints, AppliedPoints, FillPoints
    <2>6. patch[t] \in published => errors + crashes > 0
      BY <2>1, JobsAssumption DEF SInv, TInv, CountTypes, JobsAssumption
    <2>7. Transactions!Abort(patch[t])
      BY <1>2, <1>3, <2>2, <2>5, <2>6 DEF Transactions!Abort
    <2> QED
      BY <2>4, <2>7 DEF Transactions!Next
  <1>5. CASE pc[t] = "revert"
    <2>1. \/ pc'[t] = "idle" /\ UNCHANGED workspace
          \/ /\ pc'[t] = "reverting" /\ backup[row[patch[t]].job] # NoFile
             /\ content'[t] = backup[row[patch[t]].job]
      BY <1>1, <1>5 DEF Restore, Return, Goto, Types, FileTypes
    <2>2. Undecided = {} /\ Undecided' = {} /\ BackupToBe' = BackupToBe
      BY <1>3, <1>5, <2>1, UndecidedIs DEF OpenPoints, HasPoints, AppliedPoints
    <2>3. CASE pc'[t] = "idle"
      <3>1. WorkspaceToBe' = WorkspaceToBe
        BY <1>5, <2>1, <2>3, WorkspaceIs DEF FillPoints
      <3> QED
        BY <1>2, <2>2, <3>1, NoTransaction
    <2>4. CASE pc'[t] = "reverting"
      <3>1. row[patch[t]].job \in Events
        BY <1>1, <1>5 DEF ThreadHolds, RowPoints, Types, Rows
      <3>2. /\ WorkspaceToBe' = backup[row[patch[t]].job]
            /\ BackupToBe[row[patch[t]].job] = backup[row[patch[t]].job]
            /\ backup[row[patch[t]].job] # NoFile
        BY <1>5, <2>1, <2>4, <3>1, WorkspaceIs, BackupIs DEF FillPoints
      <3>3. Transactions!Revert(row[patch[t]].job)
        BY <1>2, <2>2, <3>2 DEF Transactions!Revert
      <3> QED
        BY <3>1, <3>3 DEF Transactions!Next
    <2> QED
      BY <2>1, <2>3, <2>4
  <1> QED
    BY <1>2, <1>4, <1>5

\* What was under way is lost, or is taken back.
LEMMA FaultBreaks ==
  ASSUME OneThread, SInv, NEW t \in Threads, Raise(t) \/ Crash(t)
  PROVE  [Transactions!Next]_(Transactions!vars)
  <1>1. Types /\ FileTypes /\ Solo(t) /\ CountTypes /\ job[t] \in Events
    BY DEF SInv, TInv, FInv, PInv, Types
  <1>2. UNCHANGED <<workspace, backup, registry, published, job>>
    BY DEF Raise, Crash, files, bus
  <1>3. (errors + crashes)' = errors + crashes + 1
    BY <1>1, JobsAssumption DEF Raise, Crash, CountTypes, JobsAssumption
  <1>4. /\ pc'[t] \in {"idle", "failing", "undo"}
        /\ pc'[t] = "undo" => pc[t] \in AppliedPoints /\ UNCHANGED patch
    BY <1>1 DEF Raise, Crash, Return, Goto, Types
  <1>5. Undecided' \in {Undecided, {}}
    BY <1>4, UndecidedIs DEF OpenPoints, HasPoints, AppliedPoints
  <1>6. WorkspaceToBe' \in {WorkspaceToBe, {Cut}}
    BY <1>1, <1>2, <1>4, WorkspaceIs DEF FillPoints, Solo
  <1>7. BackupToBe' \in {BackupToBe} \cup {[BackupToBe EXCEPT ![j] = {Cut}] : j \in Events}
    <2>1. CASE pc[t] = "backing"
      <3>1. backup[job[t]] = {Cut}
        BY <1>1, <2>1 DEF Solo
      <3>2. BackupToBe' = [BackupToBe EXCEPT ![job[t]] = {Cut}]
        BY <1>1, <1>2, <1>4, <2>1, <3>1, BackupIs
      <3> QED
        BY <1>1, <3>2
    <2>2. CASE pc[t] # "backing"
      BY <1>2, <1>4, <2>2, BackupStays
    <2> QED
      BY <2>1, <2>2
  <1>8. Transactions!Fault
    BY <1>2, <1>3, <1>5, <1>6, <1>7 DEF Transactions!Fault
  <1> QED
    BY <1>8 DEF Transactions!Next

LEMMA StepTransacts ==
  OneThread /\ SInv /\ [Next]_vars => [Transactions!Next]_(Transactions!vars)
  <1> SUFFICES ASSUME OneThread, SInv, [Next]_vars PROVE [Transactions!Next]_(Transactions!vars)
    OBVIOUS
  <1>1. ASSUME NEW t \in Threads, Run(t) \/ Outside(t)
        PROVE  [Transactions!Next]_(Transactions!vars)
    BY <1>1, QuietTransacts, BackupRemembers, WriteInstalls, BuildTransacts, RestoreTransacts,
       FaultBreaks DEF Run, Outside
  <1>2. CASE UNCHANGED vars
    <2>1. UNCHANGED <<workspace, backup, registry, published, errors, crashes, pc, job, patch,
                      base, content>>
      BY <1>2 DEF vars, files, bus, locals, faults
    <2>2. Undecided' = Undecided
      BY <2>1 DEF Undecided
    <2>3. WorkspaceToBe' = WorkspaceToBe
      BY <2>1 DEF WorkspaceToBe, Filling
    <2>4. BackupToBe' = BackupToBe
      BY <2>1 DEF BackupToBe, Backing
    <2> QED
      BY <2>1, <2>2, <2>3, <2>4, NoTransaction
  <1> QED
    BY <1>1, <1>2 DEF Next, Outside

LEMMA InitTransacts == Init => Transactions!Init
  <1> SUFFICES ASSUME Init PROVE Transactions!Init
    OBVIOUS
  <1>1. Undecided = {} /\ Filling = {} /\ \A e \in Events : Backing(e) = {}
    BY NextOfIs DEF Init, Undecided, Filling, Backing, AppliedPoints
  <1>2. WorkspaceToBe = {} /\ BackupToBe = [e \in Events |-> NoFile]
    BY <1>1 DEF Init, WorkspaceToBe, BackupToBe
  <1> QED
    BY <1>1, <1>2 DEF Init, Tags, Transactions!Init, Transactions!Tags

\* The worker alone changes the workspace in transactions: one patch more,
\* and the image of exactly that, or exactly what was there before; only an
\* error or a crash leaves one half done (process_job, run_apply, run_build,
\* rollback_apply).
THEOREM TransactsAlone == OneThread => (Spec => ImplementsTransactions)
  <1> SUFFICES ASSUME OneThread PROVE Spec => ImplementsTransactions
    OBVIOUS
  <1>1. SInv /\ [Next]_vars => SInv' /\ [Transactions!Next]_(Transactions!vars)
    BY SInvStep, StepTransacts
  <1> QED
    BY <1>1, InitSInv, InitTransacts, PTL DEF Spec, ImplementsTransactions, Transactions!Spec

=============================================================================
