------------------------- MODULE LivePipelineProofs -------------------------
(***************************************************************************)
(* Proofs about LivePipeline: type correctness, and that what the agent    *)
(* reported as a success is what runs.                                     *)
(***************************************************************************)
EXTENDS LivePipeline, TLAPS

\* What a success of the request in progress rests on: the container was
\* looked at, and nobody but the agent replaces it.
SuccessIsVerified ==
  At("success") =>
    running = (IF agent.request.kind = "promote" THEN "fixed" ELSE "vulnerable")

IInv == TypeOK /\ SuccessIsVerified /\ ReportedIsRunning

-----------------------------------------------------------------------------
(* Type correctness *)

LEMMA RequestsHaveKinds ==
  /\ \A i \in Incidents : Promote(i) \in Requests
  /\ Rollback \in Requests
  BY DEF Requests, Promote, Rollback

LEMMA TypeInit == Init => TypeOK
  <1> SUFFICES ASSUME Init PROVE TypeOK
    OBVIOUS
  <1>1. 0 \in 0..MaxRetries /\ 0 \in 0..MaxOutages /\ 0 \in 0..MaxRollbacks
    BY LiveAssumption DEF LiveAssumption
  <1>2. Shipped \in Applications
    BY DEF Shipped, Applications
  <1>3. agent \in [step : {"listen", "reset", "build", "up", "verify", "success", "failed"},
                   request : Requests]
    BY RequestsHaveKinds DEF Init, Listening
  <1>4. result \in [request : Requests, status : {"none", "success", "failed"}]
    BY RequestsHaveKinds DEF Init
  <1>5. inbox \in Seq(Requests)
    BY DEF Init
  <1>6. subscribed \in BOOLEAN /\ silent \in BOOLEAN
    BY DEF Init
  <1>7. \A i, j \in Incidents : {phase[i], phase[j]} \subseteq {"retrying", "building"} => i = j
    BY DEF Init
  <1> QED
    BY <1>1, <1>2, <1>3, <1>4, <1>5, <1>6, <1>7 DEF Init, TypeOK

\* The parts of TypeOK.
PhaseOK ==
  /\ phase \in [Incidents -> {"none", "blocked", "queued", "retrying", "building",
                              "validating", "rejected", "promoted", "stopped"}]
  /\ \A i, j \in Incidents :
       {phase[i], phase[j]} \subseteq {"retrying", "building"} => i = j

RetriesOK == retries \in [Incidents -> 0..MaxRetries]

ImagesOK ==
  /\ {workspace, tag, running} \subseteq Applications
  /\ backup \in [Incidents -> Applications]
  /\ candidate \in [Incidents -> Applications] /\ passed \subseteq Applications

AgentOK ==
  /\ agent \in [step : {"listen", "reset", "build", "up", "verify", "success", "failed"},
                request : Requests]
  /\ result \in [request : Requests, status : {"none", "success", "failed"}]
  /\ inbox \in Seq(Requests)

FlagsOK == subscribed \in BOOLEAN /\ silent \in BOOLEAN

BoundsOK == outages \in 0..MaxOutages /\ rollbacks \in 0..MaxRollbacks

LEMMA TypeParts ==
  TypeOK <=> PhaseOK /\ RetriesOK /\ ImagesOK /\ AgentOK /\ FlagsOK /\ BoundsOK
  BY DEF TypeOK, PhaseOK, RetriesOK, ImagesOK, AgentOK, FlagsOK, BoundsOK

LEMMA TypePartsNext ==
  PhaseOK' /\ RetriesOK' /\ ImagesOK' /\ AgentOK' /\ FlagsOK' /\ BoundsOK' => TypeOK'
  BY DEF TypeOK, PhaseOK, RetriesOK, ImagesOK, AgentOK, FlagsOK, BoundsOK

\* One job at a time, whichever phase an incident goes to.
LEMMA PhaseStep ==
  ASSUME PhaseOK, NEW i \in Incidents,
         NEW p \in {"none", "blocked", "queued", "retrying", "building",
                    "validating", "rejected", "promoted", "stopped"},
         SetPhase(i, p),
         p \in {"retrying", "building"} => ~AtWork \/ phase[i] \in {"retrying", "building"}
  PROVE  PhaseOK'
  <1>1. phase' = [phase EXCEPT ![i] = p]
    BY DEF SetPhase
  <1>2. \A j \in Incidents : phase'[j] = IF j = i THEN p ELSE phase[j]
    BY <1>1 DEF PhaseOK
  <1>3. ASSUME NEW j \in Incidents, NEW k \in Incidents,
               {phase'[j], phase'[k]} \subseteq {"retrying", "building"}
        PROVE  j = k
    BY <1>2, <1>3 DEF PhaseOK, AtWork
  <1> QED
    BY <1>1, <1>3 DEF PhaseOK

LEMMA PhasesType ==
  ASSUME TypeOK, NEW i \in Incidents, Phases(i)
  PROVE  TypeOK'
  <1>0. PhaseOK /\ RetriesOK /\ ImagesOK /\ AgentOK /\ FlagsOK /\ BoundsOK
    BY TypeParts
  <1>s. Shipped \in Applications
    BY DEF Shipped, Applications
  <1>1. CASE Attack(i)
    <2>1. Reported(running) \subseteq {"queued", "blocked"}
      BY DEF Reported
    <2>2. PICK p \in Reported(running) : SetPhase(i, p)
      BY <1>1 DEF Attack
    <2>3. PhaseOK'
      BY <1>0, <2>1, <2>2, PhaseStep
    <2>4. RetriesOK' /\ ImagesOK' /\ AgentOK' /\ FlagsOK' /\ BoundsOK'
      BY <1>0, <1>1 DEF Attack, PhaseFrame, RetriesOK, ImagesOK, AgentOK, FlagsOK, BoundsOK
    <2> QED
      BY <2>3, <2>4, TypePartsNext
  <1>2. CASE Apply(i)
    <2>1. PhaseOK'
      BY <1>0, <1>2, PhaseStep DEF Apply, MayWork
    <2>2. ImagesOK'
      BY <1>0, <1>2 DEF Apply, PhaseFrame, ImagesOK
    <2>3. RetriesOK' /\ AgentOK' /\ FlagsOK' /\ BoundsOK'
      BY <1>0, <1>2 DEF Apply, PhaseFrame, RetriesOK, AgentOK, FlagsOK, BoundsOK
    <2> QED
      BY <2>1, <2>2, <2>3, TypePartsNext
  <1>3. CASE PatchFails(i)
    <2>1. PhaseOK'
      BY <1>0, <1>3, PhaseStep DEF PatchFails
    <2>2. RetriesOK' /\ ImagesOK' /\ AgentOK' /\ FlagsOK' /\ BoundsOK'
      BY <1>0, <1>3 DEF PatchFails, PhaseFrame, RetriesOK, ImagesOK, AgentOK, FlagsOK, BoundsOK
    <2> QED
      BY <2>1, <2>2, TypePartsNext
  <1>4. CASE Build(i)
    <2>1. PhaseOK'
      BY <1>0, <1>4, PhaseStep DEF Build
    <2>2. ImagesOK'
      BY <1>0, <1>4 DEF Build, PhaseFrame, ImagesOK
    <2>3. RetriesOK' /\ AgentOK' /\ FlagsOK' /\ BoundsOK'
      BY <1>0, <1>4 DEF Build, PhaseFrame, RetriesOK, AgentOK, FlagsOK, BoundsOK
    <2> QED
      BY <2>1, <2>2, <2>3, TypePartsNext
  <1>5. CASE BuildFails(i)
    <2>1. PhaseOK'
      BY <1>0, <1>5, PhaseStep DEF BuildFails
    <2>2. ImagesOK'
      BY <1>0, <1>s, <1>5 DEF BuildFails, PhaseFrame, ImagesOK
    <2>3. RetriesOK' /\ AgentOK' /\ FlagsOK' /\ BoundsOK'
      BY <1>0, <1>5 DEF BuildFails, PhaseFrame, RetriesOK, AgentOK, FlagsOK, BoundsOK
    <2> QED
      BY <2>1, <2>2, <2>3, TypePartsNext
  <1>6. CASE Pass(i)
    <2>1. PhaseOK'
      BY <1>0, <1>6, PhaseStep DEF Pass
    <2>2. ImagesOK'
      BY <1>0, <1>s, <1>6 DEF Pass, PhaseFrame, ImagesOK
    <2>3. inbox' \in Seq(Requests)
      BY <1>0, <1>6, RequestsHaveKinds DEF Pass, AgentOK
    <2>4. AgentOK'
      BY <1>0, <1>6, <2>3 DEF Pass, PhaseFrame, AgentOK
    <2>5. RetriesOK' /\ FlagsOK' /\ BoundsOK'
      BY <1>0, <1>6 DEF Pass, PhaseFrame, RetriesOK, FlagsOK, BoundsOK
    <2> QED
      BY <2>1, <2>2, <2>4, <2>5, TypePartsNext
  <1>7. CASE Reject(i)
    <2>1. PhaseOK'
      BY <1>0, <1>7, PhaseStep DEF Reject
    <2>2. ImagesOK'
      BY <1>0, <1>s, <1>7 DEF Reject, PhaseFrame, ImagesOK
    <2>3. RetriesOK' /\ AgentOK' /\ FlagsOK' /\ BoundsOK'
      BY <1>0, <1>7 DEF Reject, PhaseFrame, RetriesOK, AgentOK, FlagsOK, BoundsOK
    <2> QED
      BY <2>1, <2>2, <2>3, TypePartsNext
  <1>8. CASE Retry(i)
    <2>1. PhaseOK'
      BY <1>0, <1>8, PhaseStep DEF Retry
    <2>2. ImagesOK'
      BY <1>0, <1>8 DEF Retry, PhaseFrame, ImagesOK
    <2>3. retries[i] + 1 \in 0..MaxRetries /\ retries' = [retries EXCEPT ![i] = @ + 1]
      BY <1>0, <1>8, LiveAssumption DEF Retry, RetriesOK, LiveAssumption
    <2>4. RetriesOK'
      BY <1>0, <2>3 DEF RetriesOK
    <2>5. AgentOK' /\ FlagsOK' /\ BoundsOK'
      BY <1>0, <1>8 DEF Retry, PhaseFrame, AgentOK, FlagsOK, BoundsOK
    <2> QED
      BY <2>1, <2>2, <2>4, <2>5, TypePartsNext
  <1>9. CASE RetryRefused(i)
    <2>1. PhaseOK'
      BY <1>0, <1>9, PhaseStep DEF RetryRefused
    <2>2. RetriesOK' /\ ImagesOK' /\ AgentOK' /\ FlagsOK' /\ BoundsOK'
      BY <1>0, <1>9 DEF RetryRefused, PhaseFrame, RetriesOK, ImagesOK, AgentOK, FlagsOK, BoundsOK
    <2> QED
      BY <2>1, <2>2, TypePartsNext
  <1> QED
    BY <1>1, <1>2, <1>3, <1>4, <1>5, <1>6, <1>7, <1>8, <1>9 DEF Phases

\* The agent: its step and its request keep their types.
LEMMA AgentGoto ==
  ASSUME AgentOK, NEW step \in {"build", "up", "verify", "success", "failed"},
         Goto(step), UNCHANGED <<inbox, result>>
  PROVE  AgentOK'
  BY DEF AgentOK, Goto

LEMMA AgentType ==
  ASSUME TypeOK, Agent
  PROVE  TypeOK'
  <1>0. PhaseOK /\ RetriesOK /\ ImagesOK /\ AgentOK /\ FlagsOK /\ BoundsOK
    BY TypeParts
  <1>s. Shipped \in Applications
    BY DEF Shipped, Applications
  <1>l. Listening \in [step : {"listen", "reset", "build", "up", "verify", "success", "failed"},
                       request : Requests]
    BY RequestsHaveKinds DEF Listening
  <1>1. CASE Take
    <2>1. Head(inbox) \in Requests /\ Tail(inbox) \in Seq(Requests)
      BY <1>0, <1>1 DEF Take, AgentOK
    <2>2. AgentOK'
      BY <1>0, <1>1, <2>1 DEF Take, AgentOK
    <2>3. PhaseOK' /\ RetriesOK' /\ ImagesOK' /\ FlagsOK' /\ BoundsOK'
      BY <1>0, <1>1 DEF Take, loop, images, PhaseOK, RetriesOK, ImagesOK, FlagsOK, BoundsOK
    <2> QED
      BY <2>2, <2>3, TypePartsNext
  <1>2. CASE Reset
    <2>1. AgentOK'
      BY <1>0, <1>2, AgentGoto DEF Reset, AgentFrame, redis
    <2>2. PhaseOK' /\ RetriesOK' /\ ImagesOK' /\ FlagsOK' /\ BoundsOK'
      BY <1>0, <1>s, <1>2 DEF Reset, AgentFrame, loop, redis,
                             PhaseOK, RetriesOK, ImagesOK, FlagsOK, BoundsOK
    <2> QED
      BY <2>1, <2>2, TypePartsNext
  <1>3. CASE BuildBaseline
    <2>1. AgentOK'
      BY <1>0, <1>3, AgentGoto DEF BuildBaseline, AgentFrame, redis
    <2>2. PhaseOK' /\ RetriesOK' /\ ImagesOK' /\ FlagsOK' /\ BoundsOK'
      BY <1>0, <1>3 DEF BuildBaseline, AgentFrame, loop, redis,
                        PhaseOK, RetriesOK, ImagesOK, FlagsOK, BoundsOK
    <2> QED
      BY <2>1, <2>2, TypePartsNext
  <1>4. CASE Up
    <2>1. AgentOK'
      BY <1>0, <1>4, AgentGoto DEF Up, AgentFrame, redis
    <2>2. PhaseOK' /\ RetriesOK' /\ ImagesOK' /\ FlagsOK' /\ BoundsOK'
      BY <1>0, <1>4 DEF Up, AgentFrame, loop, redis,
                        PhaseOK, RetriesOK, ImagesOK, FlagsOK, BoundsOK
    <2> QED
      BY <2>1, <2>2, TypePartsNext
  <1>5. CASE Verify
    <2>1. AgentOK'
      BY <1>0, <1>5, AgentGoto DEF Verify, AgentFrame, redis
    <2>2. PhaseOK' /\ RetriesOK' /\ ImagesOK' /\ FlagsOK' /\ BoundsOK'
      BY <1>0, <1>5 DEF Verify, AgentFrame, loop, images, redis,
                        PhaseOK, RetriesOK, ImagesOK, FlagsOK, BoundsOK
    <2> QED
      BY <2>1, <2>2, TypePartsNext
  <1>6. CASE StepRaises
    <2>1. AgentOK'
      BY <1>0, <1>6, AgentGoto DEF StepRaises, HalfDone, AgentFrame, redis
    <2>2. ImagesOK'
      <3>1. workspace' \in Applications
        BY <1>0, <1>s, <1>6 DEF StepRaises, HalfDone, ImagesOK, Applications
      <3>2. tag' \in Applications /\ running' \in Applications
        BY <1>0, <1>6 DEF StepRaises, HalfDone, ImagesOK
      <3>3. UNCHANGED <<backup, candidate, passed>>
        BY <1>6 DEF StepRaises, HalfDone, AgentFrame, loop
      <3> QED
        BY <1>0, <3>1, <3>2, <3>3 DEF ImagesOK
    <2>3. FlagsOK'
      <3>1. UNCHANGED subscribed /\ silent' \in BOOLEAN
        BY <1>0, <1>6, Zenon DEF StepRaises, HalfDone, AgentFrame, redis, FlagsOK
      <3> QED
        BY <1>0, <3>1 DEF FlagsOK
    <2>4. PhaseOK' /\ RetriesOK' /\ BoundsOK'
      BY <1>0, <1>6 DEF StepRaises, HalfDone, AgentFrame, loop, redis,
                        PhaseOK, RetriesOK, BoundsOK
    <2> QED
      BY <2>1, <2>2, <2>3, <2>4, TypePartsNext
  <1>7. CASE Report
    <2>1. AgentOK'
      BY <1>0, <1>l, <1>7 DEF Report, redis, AgentOK
    <2>2. PhaseOK' /\ RetriesOK' /\ ImagesOK' /\ FlagsOK' /\ BoundsOK'
      BY <1>0, <1>7 DEF Report, loop, images, redis,
                        PhaseOK, RetriesOK, ImagesOK, FlagsOK, BoundsOK
    <2> QED
      BY <2>1, <2>2, TypePartsNext
  <1>8. CASE ReportRaises
    <2>1. AgentOK'
      BY <1>0, <1>l, <1>8 DEF ReportRaises, redis, AgentOK
    <2>2. PhaseOK' /\ RetriesOK' /\ ImagesOK' /\ FlagsOK' /\ BoundsOK'
      BY <1>0, <1>8 DEF ReportRaises, loop, images, redis,
                        PhaseOK, RetriesOK, ImagesOK, FlagsOK, BoundsOK
    <2> QED
      BY <2>1, <2>2, TypePartsNext
  <1> QED
    BY <1>1, <1>2, <1>3, <1>4, <1>5, <1>6, <1>7, <1>8 DEF Agent

LEMMA TypeStep == TypeOK /\ [Next]_vars => TypeOK'
  <1> SUFFICES ASSUME TypeOK, [Next]_vars PROVE TypeOK'
    OBVIOUS
  <1>0. PhaseOK /\ RetriesOK /\ ImagesOK /\ AgentOK /\ FlagsOK /\ BoundsOK
    BY TypeParts
  <1>1. CASE \E i \in Incidents : Phases(i)
    BY <1>1, PhasesType
  <1>2. CASE RequestRollback
    <2>1. AgentOK'
      BY <1>0, <1>2, RequestsHaveKinds DEF RequestRollback, AgentOK
    <2>2. BoundsOK'
      BY <1>0, <1>2, LiveAssumption DEF RequestRollback, BoundsOK, LiveAssumption
    <2>3. PhaseOK' /\ RetriesOK' /\ ImagesOK' /\ FlagsOK'
      BY <1>0, <1>2 DEF RequestRollback, loop, images, PhaseOK, RetriesOK, ImagesOK, FlagsOK
    <2> QED
      BY <2>1, <2>2, <2>3, TypePartsNext
  <1>3. CASE Agent
    BY <1>3, AgentType
  <1>4. CASE Disconnect
    <2>1. AgentOK'
      BY <1>0, <1>4 DEF Disconnect, AgentOK
    <2>2. BoundsOK'
      BY <1>0, <1>4, LiveAssumption DEF Disconnect, BoundsOK, LiveAssumption
    <2>3. PhaseOK' /\ RetriesOK' /\ ImagesOK' /\ FlagsOK'
      BY <1>0, <1>4 DEF Disconnect, loop, images, PhaseOK, RetriesOK, ImagesOK, FlagsOK
    <2> QED
      BY <2>1, <2>2, <2>3, TypePartsNext
  <1>5. CASE Reconnect
    <2>1. PhaseOK' /\ RetriesOK' /\ ImagesOK' /\ AgentOK' /\ FlagsOK' /\ BoundsOK'
      BY <1>0, <1>5 DEF Reconnect, loop, images,
                        PhaseOK, RetriesOK, ImagesOK, AgentOK, FlagsOK, BoundsOK
    <2> QED
      BY <2>1, TypePartsNext
  <1>6. CASE UNCHANGED vars
    <2>1. PhaseOK' /\ RetriesOK' /\ ImagesOK' /\ AgentOK' /\ FlagsOK' /\ BoundsOK'
      BY <1>0, <1>6 DEF vars, loop, images, redis,
                        PhaseOK, RetriesOK, ImagesOK, AgentOK, FlagsOK, BoundsOK
    <2> QED
      BY <2>1, TypePartsNext
  <1> QED
    BY <1>1, <1>2, <1>3, <1>4, <1>5, <1>6 DEF Next

\* Every variable keeps its type, one job at a time is on the workspace, and
\* no incident is retried more often than it may be.
THEOREM TypeCorrect == Spec => []TypeOK
  <1>1. Init => TypeOK
    BY TypeInit
  <1>2. TypeOK /\ [Next]_vars => TypeOK'
    BY TypeStep
  <1> QED
    BY <1>1, <1>2, PTL DEF Spec

-----------------------------------------------------------------------------
(* The result of the agent *)

Due(request) == IF request.kind = "promote" THEN "fixed" ELSE "vulnerable"

\* The two probes leave one application for each kind of request.
LEMMA VerifiedIsDue ==
  ASSUME NEW app \in Applications, NEW request, Verified(request, app)
  PROVE  app = Due(request)
  BY DEF Applications, Verified, ValidLogin, Exploited, Due

LEMMA ResultInit == Init => SuccessIsVerified /\ ReportedIsRunning
  BY DEF Init, SuccessIsVerified, ReportedIsRunning, At, Listening

\* A step that leaves the agent, its target and its result alone.
LEMMA ResultKept ==
  ASSUME SuccessIsVerified, ReportedIsRunning, UNCHANGED <<running, agent, result, silent>>
  PROVE  SuccessIsVerified' /\ ReportedIsRunning'
  BY DEF SuccessIsVerified, ReportedIsRunning, At

LEMMA ResultStep ==
  TypeOK /\ SuccessIsVerified /\ ReportedIsRunning /\ [Next]_vars
    => SuccessIsVerified' /\ ReportedIsRunning'
  <1> SUFFICES ASSUME TypeOK, SuccessIsVerified, ReportedIsRunning, [Next]_vars
               PROVE  SuccessIsVerified' /\ ReportedIsRunning'
    OBVIOUS
  <1>1. CASE \E i \in Incidents : Phases(i)
    <2>1. UNCHANGED <<running, agent, result, silent>>
      BY <1>1 DEF Phases, Attack, Apply, PatchFails, Build, BuildFails, Pass, Reject,
                  Retry, RetryRefused, PhaseFrame
    <2> QED
      BY <2>1, ResultKept
  <1>2. CASE RequestRollback \/ Disconnect \/ Reconnect \/ UNCHANGED vars
    <2>1. UNCHANGED <<running, agent, result, silent>>
      BY <1>2 DEF RequestRollback, Disconnect, Reconnect, images, vars
    <2> QED
      BY <2>1, ResultKept
  <1>3. CASE Take \/ Reset \/ BuildBaseline
    <2>1. UNCHANGED <<running, result, silent>> /\ agent'.step # "success"
      BY <1>3 DEF Take, Reset, BuildBaseline, Goto, AgentFrame, images, TypeOK
    <2> QED
      BY <2>1 DEF SuccessIsVerified, ReportedIsRunning, At
  <1>4. CASE Up
    <2>1. silent' /\ agent'.step # "success"
      BY <1>4 DEF Up, Goto, TypeOK
    <2> QED
      BY <2>1 DEF SuccessIsVerified, ReportedIsRunning, At
  <1>5. CASE Verify
    <2>1. UNCHANGED <<running, result, silent>> /\ agent'.request = agent.request
      BY <1>5 DEF Verify, Goto, AgentFrame, images, TypeOK
    <2>2. ReportedIsRunning'
      BY <2>1 DEF ReportedIsRunning
    <2>3. ASSUME agent'.step = "success" PROVE Verified(agent.request, running)
      BY <1>5, <2>3 DEF Verify, Goto, TypeOK
    <2>4. ASSUME agent'.step = "success" PROVE running = Due(agent.request)
      BY <2>3, <2>4, VerifiedIsDue DEF TypeOK
    <2>5. SuccessIsVerified'
      BY <2>1, <2>4 DEF SuccessIsVerified, At, Due
    <2> QED
      BY <2>2, <2>5
  <1>6. CASE StepRaises
    <2>1. agent'.step # "success" /\ result' = result
      BY <1>6 DEF StepRaises, HalfDone, Goto, AgentFrame, TypeOK
    <2>2. silent' \/ (silent' = silent /\ running' = running)
      BY <1>6 DEF StepRaises, HalfDone, At, TypeOK
    <2>3. ReportedIsRunning'
      BY <2>1, <2>2 DEF ReportedIsRunning
    <2> QED
      BY <2>1, <2>3 DEF SuccessIsVerified, At
  <1>7. CASE Report
    <2>1. agent'.step # "success" /\ running' = running
      BY <1>7 DEF Report, Listening, images
    <2>2. result'.request = agent.request /\ result'.status = agent.step
      BY <1>7 DEF Report
    <2>3. ReportedIsRunning'
      BY <2>1, <2>2 DEF SuccessIsVerified, ReportedIsRunning, At
    <2> QED
      BY <2>1, <2>3 DEF SuccessIsVerified, At
  <1>8. CASE ReportRaises
    <2>1. agent'.step # "success" /\ UNCHANGED <<running, result, silent>>
      BY <1>8 DEF ReportRaises, Listening, images
    <2> QED
      BY <2>1 DEF SuccessIsVerified, ReportedIsRunning, At
  <1> QED
    BY <1>1, <1>2, <1>3, <1>4, <1>5, <1>6, <1>7, <1>8 DEF Next, Agent

\* What the agent reported as a success is what runs, until it changes the
\* target again, for any number of incidents, rollbacks and outages
\* (deploy_agent.py).
THEOREM ResultHolds == Spec => []ReportedIsRunning
  <1>1. Init => IInv
    BY TypeInit, ResultInit DEF IInv
  <1>2. IInv /\ [Next]_vars => IInv'
    BY TypeStep, ResultStep DEF IInv
  <1>3. IInv => ReportedIsRunning
    BY DEF IInv
  <1> QED
    BY <1>1, <1>2, <1>3, PTL DEF Spec

=============================================================================
