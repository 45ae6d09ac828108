------------------------- MODULE PatchTransactions --------------------------
(***************************************************************************)
(* What Phase 2 promises about the workspace while one worker has it,      *)
(* without rows, artifact files or program points: a run remembers what is *)
(* there, installs its patch and nothing else, and commits with an image   *)
(* of just that, or takes its patch out again and leaves nothing behind.   *)
(* Only a fault leaves a run half done, or a file empty.                   *)
(***************************************************************************)
EXTENDS Naturals

CONSTANTS Jobs, Patches, None, Cut, TagOf

Tags == {TagOf[p] : p \in Patches}

VARIABLES
  live,        \* patches in the workspace
  open,        \* the patch of the run that has installed and not decided
  before,      \* of each job: what its last installation found
  image,       \* what each image tag names
  announced,   \* patches announced to Phase 3
  broken       \* faults so far

vars == <<live, open, before, image, announced, broken>>

Init ==
  /\ live = {} /\ open = {} /\ announced = {} /\ broken = 0
  /\ before = [j \in Jobs |-> None]
  /\ image = [g \in Tags |-> None]

Remember(j) ==
  /\ open = {}
  /\ before' = [before EXCEPT ![j] = live]
  /\ UNCHANGED <<live, open, image, announced, broken>>

Install(j, p) ==
  /\ open = {} /\ before[j] = live /\ p \notin live \cup announced
  /\ live' = live \cup {p} /\ open' = {p}
  /\ UNCHANGED <<before, image, announced, broken>>

BuildImage(p) ==
  /\ p \in open
  /\ image' = [image EXCEPT ![TagOf[p]] = live]
  /\ UNCHANGED <<live, open, before, announced, broken>>

\* The image is of the workspace as it is.
Announce(p) ==
  /\ p \in open /\ image[TagOf[p]] = live
  /\ announced' = announced \cup {p}
  /\ UNCHANGED <<live, open, before, image, broken>>

Commit(p) ==
  /\ p \in open /\ image[TagOf[p]] = live
  /\ open' = {}
  /\ UNCHANGED <<live, before, image, announced, broken>>

\* What was announced is taken back only after a fault.
Abort(p) ==
  /\ p \in open /\ (p \in announced => broken > 0)
  /\ live' = live \ {p} /\ open' = {}
  /\ UNCHANGED <<before, image, announced, broken>>

\* A retry takes a job back to before its last installation, and everything
\* that came after with it.
Revert(j) ==
  /\ open = {} /\ before[j] # None
  /\ live' = before[j]
  /\ UNCHANGED <<open, before, image, announced, broken>>

\* The run may end where it is, and a file that was being written be lost.
Fault ==
  /\ broken' = broken + 1
  /\ open' \in {open, {}}
  /\ live' \in {live, {Cut}}
  /\ before' \in {before} \cup {[before EXCEPT ![j] = {Cut}] : j \in Jobs}
  /\ UNCHANGED <<image, announced>>

Next ==
  \/ \E p \in Patches : BuildImage(p) \/ Announce(p) \/ Commit(p) \/ Abort(p)
  \/ \E j \in Jobs : Remember(j) \/ Revert(j)
  \/ \E j \in Jobs, p \in Patches : Install(j, p)
  \/ Fault

Spec == Init /\ [][Next]_vars
=============================================================================
