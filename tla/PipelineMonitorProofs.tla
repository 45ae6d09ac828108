----------------------- MODULE PipelineMonitorProofs ------------------------
(***************************************************************************)
(* Proofs about PipelineMonitor, for any number of incidents, smokes and   *)
(* outages and any bound on the records: the records are no more than they *)
(* may be and time orders them, the dashboard shows what was said last,    *)
(* and a success of the telemetry is one the CLI has proven.               *)
(***************************************************************************)
EXTENDS PipelineMonitor, FiniteSetTheorems, TLAPS

-----------------------------------------------------------------------------
(* The outcomes of a smoke *)

\* A half that the monitor takes for a success was answered by the CLI with
\* all that was asked for.
LEMMA OkIsAnswered ==
  ASSUME NEW p \in Providers, NEW half \in Halves, NEW answer \in Smokes[p][half],
         answer.outcome = "ok"
  PROVE  answer.answered
  <1>1. PICK s \in Statuses, a \in Answers(p) :
          answer = [outcome |-> Outcome(p, half, s, a), answered |-> Answered(p, half, a)]
    BY DEF Smokes
  <1>2. Outcome(p, half, s, a) = "ok"
    BY <1>1
  <1>3. SUFFICES Answered(p, half, a)
    BY <1>1
  <1>4. /\ a.run \notin {"cannot_start", "times_out"} /\ a.exit = 0
        /\ ~(p = "claude" /\ IsResultError(a))
        /\ Accepts(half, IF p = "codex" THEN CodexObject(a) ELSE ClaudeObject(a))
    BY <1>2 DEF Outcome
  <1>5. CASE p = "codex"
    <2>1. a \in CodexAnswers
      BY <1>5 DEF Answers
    <2>2. a.run = "exits" /\ CodexObject(a) \in {a.file, a.stdout}
      BY <1>4, <2>1 DEF CodexAnswers, CodexObject
    <2> QED
      BY <1>4, <1>5, <2>2 DEF Answered
  <1>6. CASE p = "claude"
    <2>1. a \in ClaudeAnswers
      BY <1>6 DEF Answers
    <2>2. a.run = "exits"
      BY <1>4, <2>1 DEF ClaudeAnswers
    <2>3. ClaudeObject(a) \in {a.structured, a.inner, a.holds}
      BY <1>4, <1>6 DEF ClaudeObject, Accepts
    <2> QED
      BY <1>4, <1>6, <2>2, <2>3 DEF Answered, IsResultError
  <1> QED
    BY <1>5, <1>6 DEF Providers

-----------------------------------------------------------------------------
(* Smokes *)

Steps == {"none", "patch", "validation", "fail", "succeed", "context", "validate", "promote", "end"}

SmokeTypes ==
  /\ task \in [Smoked -> [step : Steps, provider : Providers \cup {"none"}]]
  /\ rollback \in {"none", "requested", "answered", "cleared", "done"}
  /\ telemetry \in [status : {"idle", "running", "success", "failure"},
                    provider : Providers \cup {"none"}, incident : Smoked \cup {NoId}]
  /\ health \in [Providers -> {"unknown", "ok", "error"}]
  /\ proved \in [Smoked -> SUBSET Halves]

\* Where a smoke stands tells what the CLI has answered; one that was begun
\* has a provider.
SmokeHolds(s) ==
  /\ task[s].step # "none" => task[s].provider \in Providers
  /\ task[s].step = "validation" => "patch" \in proved[s]
  /\ task[s].step = "succeed" => proved[s] = Halves

\* A success names a smoke that was begun, and whose provider can no longer
\* change.
Proven ==
  telemetry.status = "success" =>
    /\ telemetry.incident \in Smoked
    /\ task[telemetry.incident].step # "none"
    /\ proved[telemetry.incident] = Halves
    /\ telemetry.provider = task[telemetry.incident].provider

SmokeInv == SmokeTypes /\ Proven /\ \A s \in Smoked : SmokeHolds(s)

LEMMA HalfStep ==
  ASSUME SmokeInv, NEW s \in Smoked, NEW half \in Halves, NEW next \in {"validation", "succeed"},
         half = "patch" => next = "validation",
         half = "validation" => next = "succeed",
         NEW answer \in Smokes[task[s].provider][half], EndHalf(s, half, next, answer)
  PROVE  SmokeInv'
  <1>1. SmokeTypes /\ Proven /\ SmokeHolds(s) /\ task[s].step = half /\ UNCHANGED telemetry
    BY DEF SmokeInv, EndHalf, Goto
  <1>2. task[s].provider \in Providers
    BY <1>1 DEF SmokeHolds, Halves
  <1>3. PICK to \in {"validation", "succeed", "fail", "end"} : task' = [task EXCEPT ![s].step = to]
    BY DEF EndHalf, Goto
  <1>4. to \in {"validation", "succeed"} => answer.outcome = "ok" /\ to = next
    <2>1. \/ answer.outcome = "ok" /\ task' = [task EXCEPT ![s].step = next]
          \/ answer.outcome # "ok" /\ \E x \in {"fail", "end"} : task' = [task EXCEPT ![s].step = x]
      BY DEF EndHalf, Goto
    <2>2. \A x : task' = [task EXCEPT ![s].step = x] => task'[s].step = x
      BY <1>1 DEF SmokeTypes
    <2>3. task'[s].step = to
      BY <1>3, <2>2
    <2> QED
      BY <2>1, <2>2, <2>3
  <1>5. /\ proved' = proved \/ proved' = [proved EXCEPT ![s] = @ \cup {half}]
        /\ answer.outcome = "ok" => proved' = [proved EXCEPT ![s] = @ \cup {half}]
    BY <1>2, OkIsAnswered DEF EndHalf
  <1>6. health' \in [Providers -> {"unknown", "ok", "error"}]
    BY <1>1, <1>2 DEF EndHalf, SmokeTypes
  <1>7. SmokeTypes'
    <2>1. task' \in [Smoked -> [step : Steps, provider : Providers \cup {"none"}]]
      BY <1>1, <1>3 DEF SmokeTypes, Steps
    <2>2. proved' \in [Smoked -> SUBSET Halves]
      BY <1>1, <1>5 DEF SmokeTypes
    <2> QED
      BY <1>1, <1>6, <2>1, <2>2 DEF SmokeTypes, EndHalf, SmokeFrame
  <1>8. /\ task'[s].step = to /\ task'[s].provider = task[s].provider
        /\ \A u \in Smoked \ {s} : task'[u] = task[u] /\ proved'[u] = proved[u]
        /\ proved[s] \subseteq proved'[s]
        /\ answer.outcome = "ok" => half \in proved'[s]
    BY <1>1, <1>3, <1>5 DEF SmokeTypes
  <1>9. SmokeHolds(s)'
    <2>1. to = "validation" => "patch" \in proved'[s]
      BY <1>4, <1>8 DEF Halves
    <2>2. to = "succeed" => proved'[s] = Halves
      <3>1. SUFFICES ASSUME to = "succeed" PROVE "patch" \in proved'[s] /\ "validation" \in proved'[s]
        BY <1>7 DEF SmokeTypes, Halves
      <3>2. half = "validation"
        BY <1>4, <3>1 DEF Halves
      <3> QED
        BY <1>1, <1>4, <1>8, <3>1, <3>2 DEF SmokeHolds
    <2> QED
      BY <1>2, <1>8, <2>1, <2>2 DEF SmokeHolds
  <1>10. \A u \in Smoked : SmokeHolds(u)'
    BY <1>8, <1>9 DEF SmokeInv, SmokeHolds
  <1>11. Proven'
    <2>1. SUFFICES ASSUME telemetry.status = "success", NEW u \in Smoked, u = telemetry.incident
                   PROVE  task'[u].step # "none" /\ proved'[u] = Halves
                          /\ task'[u].provider = task[u].provider
      BY <1>1 DEF Proven
    <2>2. task[u].step # "none" /\ proved[u] = Halves
      BY <1>1, <2>1 DEF Proven
    <2>3. CASE u = s
      <3>1. proved'[s] \subseteq Halves
        BY <1>7 DEF SmokeTypes
      <3> QED
        BY <1>3, <1>8, <2>2, <2>3, <3>1
    <2>4. CASE u # s
      BY <1>8, <2>2, <2>4
    <2> QED
      BY <2>3, <2>4
  <1> QED
    BY <1>7, <1>10, <1>11 DEF SmokeInv

\* The other steps of a smoke move it, and leave what was answered.
LEMMA MoveStep ==
  ASSUME SmokeInv, NEW s \in Smoked, task[s].step # "none",
         NEW to \in {"context", "validate", "promote", "end"}, task' = [task EXCEPT ![s].step = to],
         UNCHANGED <<rollback, health, proved>>,
         \/ UNCHANGED telemetry
         \/ telemetry' = [telemetry EXCEPT !.status = "failure"]
         \/ /\ task[s].step = "succeed"
            /\ telemetry' = [status |-> "success", provider |-> task[s].provider, incident |-> s]
  PROVE  SmokeInv'
  <1>1. SmokeTypes /\ Proven /\ SmokeHolds(s)
    BY DEF SmokeInv
  <1>2. /\ task'[s].step = to /\ task'[s].provider = task[s].provider
        /\ \A u \in Smoked \ {s} : task'[u] = task[u]
    BY <1>1 DEF SmokeTypes
  <1>3. SmokeTypes'
    <2>1. task' \in [Smoked -> [step : Steps, provider : Providers \cup {"none"}]]
      BY <1>1 DEF SmokeTypes, Steps
    <2>2. telemetry' \in [status : {"idle", "running", "success", "failure"},
                          provider : Providers \cup {"none"}, incident : Smoked \cup {NoId}]
      BY <1>1 DEF SmokeTypes
    <2> QED
      BY <1>1, <2>1, <2>2 DEF SmokeTypes
  <1>4. \A u \in Smoked : SmokeHolds(u)'
    <2>1. task'[s].step # "none" => task'[s].provider \in Providers
      BY <1>1, <1>2 DEF SmokeHolds, SmokeTypes, Proven
    <2> QED
      BY <1>2, <2>1 DEF SmokeInv, SmokeHolds
  <1>5. Proven'
    <2>1. CASE UNCHANGED telemetry
      BY <1>1, <1>2, <2>1 DEF Proven
    <2>2. CASE telemetry' = [telemetry EXCEPT !.status = "failure"]
      BY <1>1, <2>2 DEF Proven, SmokeTypes
    <2>3. CASE /\ task[s].step = "succeed"
               /\ telemetry' = [status |-> "success", provider |-> task[s].provider, incident |-> s]
      BY <1>1, <1>2, <2>3 DEF Proven, SmokeHolds
    <2> QED
      BY <2>1, <2>2, <2>3
  <1> QED
    BY <1>3, <1>4, <1>5 DEF SmokeInv

LEMMA StartStep ==
  ASSUME SmokeInv, NEW s \in Smoked, NEW p \in Providers, StartSmoke(s, p)
  PROVE  SmokeInv'
  <1>1. /\ SmokeTypes /\ UNCHANGED <<rollback, health, proved>>
        /\ task' = [task EXCEPT ![s] = [step |-> "patch", provider |-> p]]
        /\ telemetry' = [status |-> "running", provider |-> p, incident |-> NoId]
    BY DEF SmokeInv, StartSmoke, SmokeFrame
  <1>2. SmokeTypes'
    BY <1>1 DEF SmokeTypes, Steps
  <1>3. (\A u \in Smoked : SmokeHolds(u))'
    BY <1>1 DEF SmokeInv, SmokeTypes, SmokeHolds
  <1>4. Proven'
    BY <1>1 DEF Proven
  <1> QED
    BY <1>2, <1>3, <1>4 DEF SmokeInv

LEMMA SmokeInvStep ==
  ASSUME SmokeInv, [Next]_vars
  PROVE  SmokeInv'
  <1>1. ASSUME UNCHANGED <<task, smokes>>, rollback' \in {"none", "requested", "answered", "cleared", "done"}
        PROVE  SmokeInv'
    BY <1>1 DEF smokes, SmokeInv, SmokeTypes, Proven, SmokeHolds
  <1>2. rollback \in {"none", "requested", "answered", "cleared", "done"}
    BY DEF SmokeInv, SmokeTypes
  <1>3. CASE Handle \/ Disconnect \/ Subscribe \/ Poll \/ \E i \in Incidents : Publish(i) \/ Govern(i)
    BY <1>1, <1>2, <1>3 DEF Handle, Disconnect, Subscribe, Poll, Publish, Govern
  <1>4. CASE RequestRollback \/ Clear \/ RollbackDone
    BY <1>1, <1>4 DEF RequestRollback, Clear, RollbackDone
  <1>5. ASSUME NEW s \in Smoked, Smoke(s) PROVE SmokeInv'
    <2>1. CASE PatchHalf(s)
      BY <2>1, HalfStep DEF PatchHalf, Halves
    <2>2. CASE ValidationHalf(s)
      BY <2>2, HalfStep DEF ValidationHalf, Halves
    <2>3. CASE Fail(s)
      BY <2>3, MoveStep DEF Fail, Goto, SmokeFrame
    <2>4. CASE Succeed(s)
      BY <2>4, MoveStep DEF Succeed, Goto, SmokeFrame
    <2>5. CASE Replay(s)
      <3>1. Goto(s, "context", "validate") \/ Goto(s, "validate", "promote") \/ Goto(s, "promote", "end")
        BY <2>5 DEF Replay
      <3>2. PICK to \in {"validate", "promote", "end"} :
              task[s].step # "none" /\ task' = [task EXCEPT ![s].step = to]
        BY <3>1 DEF Goto
      <3>3. UNCHANGED <<rollback, telemetry, health, proved>>
        BY <2>5 DEF Replay, SmokeFrame, smokes
      <3> QED
        BY <3>2, <3>3, MoveStep
    <2> QED
      BY <1>5, <2>1, <2>2, <2>3, <2>4, <2>5 DEF Smoke
  <1>6. ASSUME NEW s \in Smoked, NEW p \in Providers, StartSmoke(s, p) PROVE SmokeInv'
    BY <1>6, StartStep
  <1>7. CASE UNCHANGED vars
    BY <1>1, <1>2, <1>7 DEF vars
  <1> QED
    BY <1>3, <1>4, <1>5, <1>6, <1>7 DEF Next

LEMMA InitSmokeInv == Init => SmokeInv
  <1> SUFFICES ASSUME Init PROVE SmokeInv
    OBVIOUS
  <1>1. SmokeTypes
    <2>1. task \in [Smoked -> [step : Steps, provider : Providers \cup {"none"}]]
      BY DEF Init, Idle, Steps
    <2> QED
      BY <2>1 DEF Init, SmokeTypes
  <1>2. Proven /\ \A s \in Smoked : SmokeHolds(s)
    BY DEF Init, Idle, Proven, SmokeHolds
  <1> QED
    BY <1>1, <1>2 DEF SmokeInv

\* What the telemetry calls a success was one: the CLI has answered both
\* halves of the smoke it names, also when smokes overlap and share the record
\* (main.py, simulate_llm_secure_coding).
THEOREM SuccessHolds == Spec => []SuccessIsProven
  <1>1. SmokeInv => SuccessIsProven
    BY DEF SmokeInv, Proven, SuccessIsProven
  <1>2. SmokeInv /\ [Next]_vars => SmokeInv'
    BY SmokeInvStep
  <1> QED
    BY <1>1, <1>2, InitSmokeInv, PTL DEF Spec

-----------------------------------------------------------------------------
(* The order of the records *)

LEMMA OrdersDef ==
  ASSUME NEW ids, NEW order
  PROVE  order \in Orders(ids) <=>
           /\ order \subseteq ids \X ids
           /\ \A i \in ids : <<i, i>> \notin order
           /\ \A i, j \in ids : i # j => <<i, j>> \in order \/ <<j, i>> \in order
           /\ \A i, j, k \in ids : <<i, j>> \in order /\ <<j, k>> \in order => <<i, k>> \in order
  BY DEF Orders

\* The records that are renewed come last: the order stays one.
LEMMA RenewOrders ==
  ASSUME NEW all, NEW order \in Orders(all), NEW rest, rest \subseteq all,
         NEW ids, rest \cap ids = {}, NEW newest \in Orders(ids)
  PROVE  (order \cap (rest \X rest)) \cup (rest \X ids) \cup newest \in Orders(rest \cup ids)
  <1> DEFINE after == (order \cap (rest \X rest)) \cup (rest \X ids) \cup newest
  <1>0. newest \subseteq ids \X ids
    BY OrdersDef
  <1>1. \A i, j : <<i, j>> \in after <=>
           \/ i \in rest /\ j \in rest /\ <<i, j>> \in order
           \/ i \in rest /\ j \in ids
           \/ i \in ids /\ j \in ids /\ <<i, j>> \in newest
    BY <1>0
  <1>2. after \subseteq (rest \cup ids) \X (rest \cup ids)
    BY <1>0
  <1>3. /\ \A i \in rest : <<i, i>> \notin order
        /\ \A i, j \in rest : i # j => <<i, j>> \in order \/ <<j, i>> \in order
        /\ \A i, j, k \in rest : <<i, j>> \in order /\ <<j, k>> \in order => <<i, k>> \in order
    BY OrdersDef
  <1>4. /\ \A i \in ids : <<i, i>> \notin newest
        /\ \A i, j \in ids : i # j => <<i, j>> \in newest \/ <<j, i>> \in newest
        /\ \A i, j, k \in ids : <<i, j>> \in newest /\ <<j, k>> \in newest => <<i, k>> \in newest
    BY OrdersDef
  <1> HIDE DEF after
  <1>5. \A i \in rest \cup ids : <<i, i>> \notin after
    BY <1>1, <1>3, <1>4
  <1>6. \A i, j \in rest \cup ids : i # j => <<i, j>> \in after \/ <<j, i>> \in after
    BY <1>1, <1>3, <1>4
  <1>7. \A i, j, k \in rest \cup ids : <<i, j>> \in after /\ <<j, k>> \in after => <<i, k>> \in after
    BY <1>1, <1>3, <1>4
  <1>8. after \in Orders(rest \cup ids)
    BY <1>2, <1>5, <1>6, <1>7, OrdersDef
  <1> QED
    BY <1>8 DEF after

LEMMA RenewStep ==
  ASSUME older \in Orders(Shown), NEW ids, NEW gone, Renew(ids, gone)
  PROVE  older' \in Orders((Shown \ (ids \cup gone)) \cup ids)
  <1> DEFINE rest == Shown \ (ids \cup gone)
  <1>1. PICK order \in Orders(ids) : older' = (older \cap (rest \X rest)) \cup (rest \X ids) \cup order
    BY DEF Renew
  <1>2. rest \subseteq Shown /\ rest \cap ids = {}
    OBVIOUS
  <1> HIDE DEF rest
  <1>3. older' \in Orders(rest \cup ids)
    BY <1>1, <1>2, RenewOrders
  <1> QED
    BY <1>3 DEF rest

-----------------------------------------------------------------------------
(* The records and their bound *)

RecordTypes ==
  /\ stage \in [Ids -> {"none"} \cup MessageStages \cup GovernanceStages]
  /\ Shown \subseteq handled /\ Cardinality(Shown) <= MAX_INCIDENTS
  /\ older \in Orders(Shown) /\ handled \subseteq Ids

Heard == Cardinality(Shown) < MAX_INCIDENTS => handled \subseteq Shown

RecordInv == RecordTypes /\ Heard

LEMMA ShownFinite == IsFiniteSet(Ids) /\ IsFiniteSet(Shown) /\ Cardinality(Shown) \in Nat
  <1>1. IsFiniteSet({RollbackId})
    BY FS_Singleton
  <1>2. IsFiniteSet(Incidents \cup Smoked)
    BY MonitorAssumption, FS_Union DEF MonitorAssumption
  <1>3. IsFiniteSet(Ids)
    BY <1>1, <1>2, FS_Union DEF Ids
  <1>4. Shown \subseteq Ids
    BY DEF Shown
  <1>5. IsFiniteSet(Shown)
    BY <1>3, <1>4, FS_Subset
  <1> QED
    BY <1>3, <1>5, FS_CardinalityType

LEMMA StageOfMessage ==
  ASSUME NEW m \in Messages
  PROVE  m.id \in Ids /\ StageOf(m) \in MessageStages
  <1>1. m.id \in Ids /\ m.channel \in Channels
    BY DEF Messages
  <1>2. StageOf(m) \in MessageStages
    BY <1>1 DEF Channels, StageOf, MessageStages
  <1> QED
    BY <1>1, <1>2

LEMMA PushStep ==
  ASSUME RecordInv, NEW m \in Messages, PushEvent(m)
  PROVE  /\ RecordInv'
         /\ stage'[m.id] = StageOf(m)
         /\ \A i \in Ids \ {m.id} : stage'[i] \in {"none", stage[i]}
  <1>1. RecordTypes /\ Heard /\ MAX_INCIDENTS \in Nat \ {0}
    BY MonitorAssumption DEF RecordInv, MonitorAssumption
  <1>2. PICK gone \in MakeRoom(m.id) : Merge(m, gone)
    BY DEF PushEvent
  <1>3. handled' = handled \cup {m.id}
    BY DEF PushEvent
  <1>4. /\ stage' = [i \in Ids |-> IF i = m.id THEN StageOf(m) ELSE IF i \in gone THEN "none" ELSE stage[i]]
        /\ Renew({m.id}, gone)
    BY <1>2 DEF Merge
  <1>5. m.id \in Ids /\ StageOf(m) \in MessageStages /\ StageOf(m) # "none"
    BY StageOfMessage DEF MessageStages
  <1>6. stage' \in [Ids -> {"none"} \cup MessageStages \cup GovernanceStages]
    BY <1>1, <1>4, <1>5 DEF RecordTypes
  <1>7. Shown' = (Shown \ gone) \cup {m.id}
    BY <1>4, <1>5 DEF Shown
  <1>8. \/ gone = {} /\ (m.id \in Shown \/ ~(Cardinality(Shown) >= MAX_INCIDENTS))
        \/ /\ m.id \notin Shown /\ Cardinality(Shown) >= MAX_INCIDENTS
           /\ \E i \in Shown : gone = {i}
    BY <1>2 DEF MakeRoom, LeastRecent
  <1>9. m.id \notin gone
    BY <1>8
  <1>10. older' \in Orders(Shown')
    <2>1. older' \in Orders((Shown \ ({m.id} \cup gone)) \cup {m.id})
      BY <1>1, <1>4, RenewStep DEF RecordTypes
    <2>2. (Shown \ ({m.id} \cup gone)) \cup {m.id} = Shown'
      BY <1>7, <1>9
    <2> QED
      BY <2>1, <2>2
  <1>11. Shown' \subseteq handled' /\ handled' \subseteq Ids
    BY <1>1, <1>3, <1>5, <1>7 DEF RecordTypes
  <1>12. /\ Cardinality(Shown') <= MAX_INCIDENTS
         /\ Cardinality(Shown') < MAX_INCIDENTS => handled' \subseteq Shown'
    <2> DEFINE n == Cardinality(Shown)
    <2>0. IsFiniteSet(Shown) /\ n \in Nat /\ n <= MAX_INCIDENTS /\ (n < MAX_INCIDENTS => handled \subseteq Shown)
      BY <1>1, ShownFinite DEF RecordTypes, Heard
    <2>1. CASE gone = {} /\ m.id \in Shown
      <3>1. Shown' = Shown
        BY <1>7, <2>1
      <3> QED
        BY <1>1, <1>3, <2>0, <2>1, <3>1
    <2>2. CASE gone = {} /\ m.id \notin Shown
      <3>1. Shown' = Shown \cup {m.id} /\ n < MAX_INCIDENTS
        BY <1>1, <1>7, <1>8, <2>0, <2>2
      <3>2. Cardinality(Shown \cup {m.id}) = n + 1
        BY <2>0, <2>2, FS_AddElement
      <3> QED
        BY <1>1, <1>3, <2>0, <3>1, <3>2
    <2>3. CASE gone # {}
      <3>1. PICK i \in Shown : gone = {i}
        BY <1>8, <2>3
      <3>2. m.id \notin Shown /\ n = MAX_INCIDENTS
        BY <1>1, <1>8, <2>0, <2>3
      <3>3. IsFiniteSet(Shown \ {i}) /\ Cardinality(Shown \ {i}) = n - 1
        BY <2>0, FS_RemoveElement
      <3>4. Cardinality((Shown \ {i}) \cup {m.id}) = n - 1 + 1
        BY <3>2, <3>3, FS_AddElement
      <3>5. Shown' = (Shown \ {i}) \cup {m.id}
        BY <1>7, <3>1
      <3> QED
        BY <1>1, <2>0, <3>2, <3>4, <3>5
    <2> QED
      BY <1>8, <2>1, <2>2, <2>3
  <1>13. /\ stage'[m.id] = StageOf(m)
         /\ \A i \in Ids \ {m.id} : stage'[i] \in {"none", stage[i]}
    BY <1>4, <1>5
  <1> QED
    BY <1>6, <1>10, <1>11, <1>12, <1>13 DEF RecordInv, RecordTypes, Heard

-----------------------------------------------------------------------------
(* The messages under way *)

PhaseTypes ==
  /\ published = [i \in Incidents |-> published[i]]
  /\ \A i \in Incidents : /\ published[i] \in Messages \cup {Message("none", i, FALSE)}
                          /\ published[i].id = i
  /\ retries \in [Incidents -> 0..MaxRetries]
  /\ governance \in [Incidents -> {"none"} \cup GovernanceStages]

RedisTypes ==
  /\ subscribed \in BOOLEAN /\ inbox \in Seq(Messages) /\ Len(inbox) <= MaxPending
  /\ outages \in 0..MaxOutages /\ missed \subseteq Ids

Waits(i) == \E k \in DOMAIN inbox : inbox[k].id = i

\* Of the messages about an incident in the inbox, the last is the last there
\* was, unless that was lost.
LastWord ==
  \A i \in Incidents \ missed, k \in DOMAIN inbox :
    inbox[k].id = i /\ (\A l \in DOMAIN inbox : l > k => inbox[l].id # i) => inbox[k] = published[i]

Says(i) ==
  {StageOf(published[i])} \cup (IF governance[i] = "none" THEN {} ELSE {governance[i], "git_pr"})

StagesSaid ==
  \A i \in Incidents \cap Shown : i \in missed \/ Waits(i) \/ stage[i] \in Says(i)

MInv == PhaseTypes /\ RedisTypes /\ LastWord /\ StagesSaid /\ RecordInv /\ SmokeInv

LEMMA NextTyped ==
  ASSUME PhaseTypes, NEW i \in Incidents, NEW m \in NextMessages(i)
  PROVE  m \in Messages /\ m.id = i /\ (m.channel = "retry" => retries[i] < MaxRetries)
  <1>1. \/ \E channel \in Channels \ {"retry"}, good \in BOOLEAN : m = Message(channel, i, good)
        \/ m = Message("retry", i, TRUE) /\ retries[i] < MaxRetries
    BY DEF NextMessages, Channels
  <1>2. i \in Ids
    BY DEF Ids
  <1>3. ASSUME NEW channel \in Channels, NEW good \in BOOLEAN
        PROVE  /\ Message(channel, i, good) \in Messages
               /\ Message(channel, i, good).id = i /\ Message(channel, i, good).channel = channel
    BY <1>2 DEF Message, Messages
  <1>4. CASE \E channel \in Channels \ {"retry"}, good \in BOOLEAN : m = Message(channel, i, good)
    BY <1>3, <1>4
  <1>5. CASE m = Message("retry", i, TRUE) /\ retries[i] < MaxRetries
    BY <1>3, <1>5 DEF Channels
  <1> QED
    BY <1>1, <1>4, <1>5

LEMMA AppendElems ==
  ASSUME NEW s \in Seq(Messages), NEW m \in Messages
  PROVE  /\ Append(s, m) \in Seq(Messages) /\ Len(Append(s, m)) = Len(s) + 1 /\ Len(s) \in Nat
         /\ DOMAIN s = 1..Len(s) /\ DOMAIN Append(s, m) = 1..Len(s) + 1
         /\ \A k \in 1..Len(s) : Append(s, m)[k] = s[k]
         /\ Append(s, m)[Len(s) + 1] = m
  OBVIOUS

LEMMA TailElems ==
  ASSUME NEW s \in Seq(Messages), s # << >>
  PROVE  /\ Head(s) \in Messages /\ Head(s) = s[1] /\ Tail(s) \in Seq(Messages)
         /\ Len(s) \in Nat \ {0} /\ Len(Tail(s)) = Len(s) - 1
         /\ DOMAIN s = 1..Len(s) /\ DOMAIN Tail(s) = 1..Len(s) - 1
         /\ \A k \in 1..Len(s) - 1 : Tail(s)[k] = s[k + 1]
  OBVIOUS

\* A message is appended, or missed.
LEMMA DeliverStep ==
  ASSUME RedisTypes, LastWord, NEW m \in Messages, Deliver(m), UNCHANGED <<subscribed, outages>>,
         \A i \in Incidents \ {m.id} : published'[i] = published[i],
         m.id \in Incidents => published'[m.id] = m
  PROVE  /\ RedisTypes' /\ LastWord'
         /\ m.id \in missed' \/ Waits(m.id)'
         /\ \A i \in Incidents \ {m.id} : /\ i \in missed => i \in missed'
                                          /\ Waits(i) => Waits(i)'
  <1>1. inbox \in Seq(Messages) /\ Len(inbox) < MaxPending /\ missed \subseteq Ids
        /\ MaxPending \in Nat /\ m.id \in Ids
    BY MonitorAssumption, StageOfMessage DEF RedisTypes, Deliver, MonitorAssumption
  <1>2. CASE subscribed
    <2> DEFINE n == Len(inbox)
               after == Append(inbox, m)
    <2>1. inbox' = after /\ missed' = missed \ {m.id}
      BY <1>2 DEF Deliver
    <2>2. /\ after \in Seq(Messages) /\ Len(after) = n + 1 /\ n \in Nat
          /\ DOMAIN inbox = 1..n /\ DOMAIN after = 1..n + 1
          /\ \A k \in 1..n : after[k] = inbox[k]
          /\ after[n + 1] = m
      BY <1>1, AppendElems
    <2> HIDE DEF after, n
    <2>3. RedisTypes'
      <3>1. Len(after) <= MaxPending
        BY <1>1, <2>2 DEF n
      <3> QED
        BY <1>1, <2>1, <2>2, <3>1 DEF RedisTypes
    <2>4. Waits(m.id)'
      <3>1. n + 1 \in DOMAIN after
        BY <2>2
      <3> QED
        BY <2>1, <2>2, <3>1 DEF Waits
    <2>5. \A i : Waits(i) => Waits(i)'
      <3>1. DOMAIN inbox \subseteq DOMAIN after
        BY <2>2
      <3> QED
        BY <2>1, <2>2, <3>1 DEF Waits
    <2>6. LastWord'
      <3> SUFFICES ASSUME NEW i \in Incidents \ missed', NEW k \in 1..n + 1, after[k].id = i,
                          \A l \in 1..n + 1 : l > k => after[l].id # i
                   PROVE  after[k] = published'[i]
        BY <2>1, <2>2 DEF LastWord
      <3>1. CASE i = m.id
        <4>1. n + 1 \in 1..n + 1 /\ ~(n + 1 > k)
          BY <2>2, <3>1
        <4>2. k = n + 1
          BY <2>2, <4>1
        <4> QED
          BY <2>2, <3>1, <4>2
      <3>2. CASE i # m.id
        <4>1. k # n + 1
          BY <2>2, <3>2
        <4>2. k \in 1..n
          BY <2>2, <4>1
        <4>3. after[k] = inbox[k] /\ i \in Incidents \ missed
          BY <2>1, <2>2, <3>2, <4>2
        <4>4. \A l \in 1..n : l > k => inbox[l].id # i
          <5>1. \A l \in 1..n : l \in 1..n + 1
            BY <2>2
          <5> QED
            BY <2>2, <5>1
        <4>5. inbox[k] = published[i]
          BY <2>2, <4>2, <4>3, <4>4 DEF LastWord
        <4> QED
          BY <3>2, <4>3, <4>5
      <3> QED
        BY <3>1, <3>2
    <2> QED
      BY <2>1, <2>3, <2>4, <2>5, <2>6
  <1>3. CASE ~subscribed
    <2>1. inbox' = inbox /\ missed' = missed \cup {m.id}
      BY <1>3 DEF Deliver
    <2>2. RedisTypes'
      BY <1>1, <2>1 DEF RedisTypes
    <2>3. LastWord'
      BY <2>1 DEF LastWord
    <2> QED
      BY <2>1, <2>2, <2>3 DEF Waits
  <1> QED
    BY <1>2, <1>3

LEMMA LastWordNext ==
  ASSUME NEW after, NEW n, inbox' = after, DOMAIN after = 1..n, UNCHANGED <<published, missed>>,
         \A i \in Incidents \ missed, k \in 1..n :
           after[k].id = i /\ (\A l \in 1..n : l > k => after[l].id # i) => after[k] = published[i]
  PROVE  LastWord'
  BY DEF LastWord

\* The first message goes; if no other about its incident is under way, it was
\* the last there was.
LEMMA HandleInbox ==
  ASSUME RedisTypes, LastWord, inbox # << >>, inbox' = Tail(inbox),
         UNCHANGED <<published, subscribed, outages, missed>>
  PROVE  /\ RedisTypes' /\ LastWord' /\ Head(inbox) \in Messages
         /\ \A i \in Incidents : i # Head(inbox).id /\ Waits(i) => Waits(i)'
         /\ \A i \in Incidents \ missed :
              i = Head(inbox).id => Waits(i)' \/ Head(inbox) = published[i]
  <1> DEFINE n == Len(inbox)
             after == Tail(inbox)
             m == Head(inbox)
  <1>1. /\ m \in Messages /\ m = inbox[1] /\ after \in Seq(Messages)
        /\ n \in Nat \ {0} /\ Len(after) = n - 1
        /\ DOMAIN inbox = 1..n /\ DOMAIN after = 1..n - 1
        /\ \A k \in 1..n - 1 : after[k] = inbox[k + 1]
    BY TailElems DEF RedisTypes
  <1>2. RedisTypes'
    BY <1>1, MonitorAssumption DEF RedisTypes, MonitorAssumption
  <1>a. inbox' = after /\ published' = published /\ missed' = missed
    OBVIOUS
  <1> HIDE DEF n, after, m
  <1>3. \A k \in 2..n : k - 1 \in 1..n - 1 /\ after[k - 1] = inbox[k]
    BY <1>1
  <1>4. ASSUME NEW i \in Incidents \ missed, NEW k \in 1..n, inbox[k].id = i,
               \A l \in 1..n : l > k => inbox[l].id # i
        PROVE  inbox[k] = published[i]
    BY <1>1, <1>4 DEF LastWord
  <1> DEFINE w == n - 1
  <1>w. DOMAIN after = 1..w /\ w = n - 1 /\ w \in Nat
    BY <1>1
  <1> HIDE DEF w
  <1>b. ASSUME NEW i \in Incidents \ missed, NEW k \in 1..w, after[k].id = i,
               \A l \in 1..w : l > k => after[l].id # i
        PROVE  after[k] = published[i]
    <2>1. k + 1 \in 1..n /\ inbox[k + 1].id = i /\ inbox[k + 1] = after[k]
      BY <1>1, <1>w, <1>b
    <2>2. ASSUME NEW l \in 1..n, l > k + 1 PROVE inbox[l].id # i
      <3>1. l - 1 \in 1..w /\ after[l - 1] = inbox[l] /\ l - 1 > k
        BY <1>1, <1>3, <1>w, <2>2
      <3> QED
        BY <1>b, <3>1
    <2> QED
      BY <1>4, <2>1, <2>2
  <1>5. LastWord'
    BY <1>a, <1>b, <1>w, LastWordNext
  <1>6. ASSUME NEW i \in Incidents, i # m.id, Waits(i) PROVE Waits(i)'
    <2>1. PICK k \in 1..n : inbox[k].id = i
      BY <1>1, <1>6 DEF Waits
    <2>2. k \in 2..n
      BY <1>1, <1>6, <2>1
    <2>3. k - 1 \in DOMAIN after /\ after[k - 1].id = i
      BY <1>1, <1>3, <2>1, <2>2
    <2> QED
      BY <1>a, <2>3 DEF Waits
  <1>7. ASSUME NEW i \in Incidents \ missed, i = m.id, ~Waits(i)' PROVE m = published[i]
    <2>1. \A k \in 1..n - 1 : after[k].id # i
      BY <1>1, <1>7, <1>a DEF Waits
    <2>2. ASSUME NEW l \in 1..n, l > 1 PROVE inbox[l].id # i
      BY <1>1, <1>3, <2>1, <2>2
    <2>3. 1 \in 1..n /\ inbox[1].id = i
      BY <1>1, <1>7
    <2> QED
      BY <1>1, <1>4, <2>2, <2>3
  <1> QED
    BY <1>1, <1>2, <1>5, <1>6, <1>7 DEF m

-----------------------------------------------------------------------------
(* What every step keeps *)

LEMMA SaidStep ==
  ASSUME MInv, stage' \in [Ids -> {"none"} \cup MessageStages \cup GovernanceStages],
         \A i \in Incidents : stage'[i] # "none" =>
           \/ i \in missed' \/ Waits(i)' \/ stage'[i] \in Says(i)'
           \/ i \notin missed /\ ~Waits(i) /\ stage[i] = stage'[i] /\ Says(i) \subseteq Says(i)'
  PROVE  StagesSaid'
  <1> SUFFICES ASSUME NEW i \in Incidents, stage'[i] # "none"
               PROVE  i \in missed' \/ Waits(i)' \/ stage'[i] \in Says(i)'
    BY DEF StagesSaid, Shown
  <1>1. i \in Ids
    BY DEF Ids
  <1>2. ASSUME i \notin missed, ~Waits(i), stage[i] = stage'[i], Says(i) \subseteq Says(i)'
        PROVE  stage'[i] \in Says(i)'
    <2>1. i \in Shown
      BY <1>1, <1>2 DEF Shown
    <2>2. stage[i] \in Says(i)
      BY <1>2, <2>1 DEF MInv, StagesSaid
    <2> QED
      BY <1>2, <2>2
  <1> QED
    BY <1>2

LEMMA RecordsStay ==
  ASSUME RecordInv, UNCHANGED <<records, handled>>
  PROVE  RecordInv'
  BY DEF RecordInv, RecordTypes, Heard, records, Shown, Orders

LEMMA RestStays ==
  ASSUME MInv, UNCHANGED <<phases, redis>>
  PROVE  PhaseTypes' /\ RedisTypes' /\ LastWord' /\ \A i : Waits(i) = Waits(i)' /\ Says(i) = Says(i)'
  <1>1. UNCHANGED <<published, retries, governance, subscribed, inbox, outages, missed>>
    BY DEF phases, redis
  <1>2. PhaseTypes'
    BY <1>1 DEF MInv, PhaseTypes
  <1>3. RedisTypes'
    BY <1>1 DEF MInv, RedisTypes
  <1>4. LastWord'
    BY <1>1 DEF MInv, LastWord
  <1>5. \A i : Waits(i) = Waits(i)' /\ Says(i) = Says(i)'
    BY <1>1 DEF Waits, Says
  <1> QED
    BY <1>2, <1>3, <1>4, <1>5

\* A message the monitor takes is about an incident it shows afterwards.
LEMMA HandleStep ==
  ASSUME MInv, SmokeInv', Handle
  PROVE  MInv'
  <1> DEFINE m == Head(inbox)
  <1>1. /\ inbox # << >> /\ PushEvent(m) /\ inbox' = Tail(inbox)
        /\ UNCHANGED <<published, retries, governance, subscribed, outages, missed>>
    BY DEF Handle, phases
  <1>2. /\ RedisTypes' /\ LastWord' /\ m \in Messages
        /\ \A i \in Incidents : i # m.id /\ Waits(i) => Waits(i)'
        /\ \A i \in Incidents \ missed : i = m.id => Waits(i)' \/ m = published[i]
    BY <1>1, HandleInbox DEF MInv
  <1> HIDE DEF m
  <1>3. /\ RecordInv' /\ stage'[m.id] = StageOf(m)
        /\ \A i \in Ids \ {m.id} : stage'[i] \in {"none", stage[i]}
    BY <1>1, <1>2, PushStep DEF MInv
  <1>4. PhaseTypes'
    BY <1>1 DEF MInv, PhaseTypes
  <1>5. \A i : Says(i)' = Says(i)
    BY <1>1 DEF Says
  <1>6. StagesSaid'
    <2>1. ASSUME NEW i \in Incidents, stage'[i] # "none"
          PROVE  \/ i \in missed' \/ Waits(i)' \/ stage'[i] \in Says(i)'
                 \/ i \notin missed /\ ~Waits(i) /\ stage[i] = stage'[i] /\ Says(i) \subseteq Says(i)'
      <3>1. CASE i # m.id
        BY <1>1, <1>2, <1>3, <1>5, <2>1, <3>1 DEF Ids
      <3>2. CASE i = m.id
        <4>1. SUFFICES ASSUME i \notin missed, ~Waits(i)' PROVE stage'[i] \in Says(i)'
          BY <1>1
        <4>2. stage'[i] = StageOf(published[i])
          BY <1>2, <1>3, <3>2, <4>1
        <4> QED
          BY <1>5, <4>2 DEF Says
      <3> QED
        BY <3>1, <3>2
    <2> QED
      BY <1>3, <2>1, SaidStep DEF RecordInv, RecordTypes
  <1> QED
    BY <1>2, <1>3, <1>4, <1>6 DEF MInv

LEMMA DisconnectStep ==
  ASSUME MInv, SmokeInv', Disconnect
  PROVE  MInv'
  <1>1. /\ outages < MaxOutages /\ outages' = outages + 1 /\ subscribed' = FALSE /\ inbox' = << >>
        /\ missed' = missed \cup {inbox[k].id : k \in DOMAIN inbox}
        /\ UNCHANGED <<published, retries, governance, stage, older, handled>>
    BY DEF Disconnect, phases, records
  <1>2. RedisTypes
    BY DEF MInv
  <1>3. RedisTypes'
    <2>1. inbox \in Seq(Messages) /\ missed \subseteq Ids /\ outages \in 0..MaxOutages /\ MaxOutages \in Nat
          /\ MaxPending \in Nat
      BY <1>2, MonitorAssumption DEF RedisTypes, MonitorAssumption
    <2>2. {inbox[k].id : k \in DOMAIN inbox} \subseteq Ids
      <3>1. \A k \in DOMAIN inbox : inbox[k] \in Messages
        BY <2>1
      <3> QED
        BY <3>1, StageOfMessage
    <2>3. outages' \in 0..MaxOutages
      BY <1>1, <2>1
    <2>4. inbox' \in Seq(Messages) /\ Len(inbox') <= MaxPending
      BY <1>1, <2>1
    <2> QED
      BY <1>1, <2>1, <2>2, <2>3, <2>4 DEF RedisTypes
  <1>4. LastWord'
    BY <1>1 DEF LastWord
  <1>5. RecordInv' /\ PhaseTypes'
    BY <1>1, RecordsStay DEF MInv, PhaseTypes, records
  <1>6. StagesSaid'
    <2>1. \A i : Waits(i) => i \in missed'
      BY <1>1 DEF Waits
    <2>2. \A i : Says(i)' = Says(i)
      BY <1>1 DEF Says
    <2>3. \A i : i \in missed => i \in missed'
      BY <1>1
    <2> QED
      BY <1>1, <1>5, <2>1, <2>2, <2>3, SaidStep DEF RecordInv, RecordTypes
  <1> QED
    BY <1>3, <1>4, <1>5, <1>6 DEF MInv

LEMMA SubscribeStep ==
  ASSUME MInv, SmokeInv', Subscribe
  PROVE  MInv'
  <1>1. subscribed' = TRUE /\ UNCHANGED <<published, retries, governance, inbox, outages, missed, stage, older, handled>>
    BY DEF Subscribe, phases, records
  <1>2. RedisTypes'
    BY <1>1 DEF MInv, RedisTypes
  <1>3. PhaseTypes' /\ LastWord'
    <2>1. PhaseTypes'
      BY <1>1 DEF MInv, PhaseTypes
    <2>2. LastWord'
      BY <1>1 DEF MInv, LastWord
    <2> QED
      BY <2>1, <2>2
  <1>4. RecordInv'
    BY <1>1, RecordsStay DEF MInv, records
  <1>5. \A i : (Waits(i)' <=> Waits(i)) /\ Says(i)' = Says(i)
    BY <1>1 DEF Waits, Says
  <1>6. StagesSaid'
    BY <1>1, <1>4, <1>5, SaidStep DEF RecordInv, RecordTypes
  <1> QED
    BY <1>2, <1>3, <1>4, <1>6 DEF MInv

LEMMA PublishStep ==
  ASSUME MInv, SmokeInv', NEW i \in Incidents, Publish(i)
  PROVE  MInv'
  <1>0. PhaseTypes /\ RedisTypes /\ LastWord /\ MaxRetries \in Nat
    BY MonitorAssumption DEF MInv, MonitorAssumption
  <1>1. PICK m \in NextMessages(i) :
          /\ Deliver(m) /\ published' = [published EXCEPT ![i] = m]
          /\ retries' = [retries EXCEPT ![i] = IF m.channel = "retry" THEN @ + 1 ELSE @]
          /\ UNCHANGED <<governance, subscribed, outages, stage, older, handled>>
    BY DEF Publish, records
  <1>2. m \in Messages /\ m.id = i /\ (m.channel = "retry" => retries[i] < MaxRetries)
    BY <1>0, NextTyped
  <1>3. /\ published'[i] = m /\ \A j \in Incidents \ {i} : published'[j] = published[j]
        /\ published' = [j \in Incidents |-> published'[j]]
    BY <1>0, <1>1 DEF PhaseTypes
  <1>4. PhaseTypes'
    <2>1. retries' \in [Incidents -> 0..MaxRetries]
      BY <1>0, <1>1, <1>2 DEF PhaseTypes
    <2>2. \A j \in Incidents : /\ published'[j] \in Messages \cup {Message("none", j, FALSE)}
                               /\ published'[j].id = j
      <3>1. \A j \in Incidents : /\ published[j] \in Messages \cup {Message("none", j, FALSE)}
                                 /\ published[j].id = j
        BY <1>0 DEF PhaseTypes
      <3>2. published'[i] \in Messages /\ published'[i].id = i
        BY <1>2, <1>3
      <3>3. ASSUME NEW j \in Incidents, j # i
            PROVE  /\ published'[j] \in Messages \cup {Message("none", j, FALSE)}
                   /\ published'[j].id = j
        <4>1. published'[j] = published[j]
          BY <1>3, <3>3
        <4> QED
          BY <3>1, <4>1
      <3> QED
        BY <3>2, <3>3
    <2>3. governance' \in [Incidents -> {"none"} \cup GovernanceStages]
      BY <1>0, <1>1 DEF PhaseTypes
    <2> QED
      BY <1>3, <2>1, <2>2, <2>3 DEF PhaseTypes
  <1>5. /\ RedisTypes' /\ LastWord'
        /\ i \in missed' \/ Waits(i)'
        /\ \A j \in Incidents \ {i} : (j \in missed => j \in missed') /\ (Waits(j) => Waits(j)')
    BY <1>0, <1>1, <1>2, <1>3, DeliverStep
  <1>6. RecordInv'
    BY <1>1, RecordsStay DEF MInv, records
  <1>7. \A j \in Incidents \ {i} : Says(j)' = Says(j)
    BY <1>1, <1>3 DEF Says
  <1>8. StagesSaid'
    BY <1>1, <1>5, <1>6, <1>7, SaidStep DEF RecordInv, RecordTypes
  <1> QED
    BY <1>4, <1>5, <1>6, <1>8 DEF MInv

LEMMA GovernStep ==
  ASSUME MInv, SmokeInv', NEW i \in Incidents, Govern(i)
  PROVE  MInv'
  <1>0. PhaseTypes /\ governance[i] \in {"none", "git_pr"}
    BY DEF MInv, Govern
  <1>1. PICK s \in GovernanceStages : governance' = [governance EXCEPT ![i] = s]
    BY DEF Govern, GovernanceStages
  <1>2. UNCHANGED <<published, retries, subscribed, inbox, outages, missed, stage, older, handled>>
    BY DEF Govern, redis, records
  <1>3. PhaseTypes'
    <2>1. governance' \in [Incidents -> {"none"} \cup GovernanceStages]
      BY <1>0, <1>1 DEF PhaseTypes
    <2> QED
      BY <1>0, <1>2, <2>1 DEF PhaseTypes
  <1>4. RedisTypes' /\ LastWord'
    BY <1>2 DEF MInv, RedisTypes, LastWord
  <1>5. RecordInv'
    BY <1>2, RecordsStay DEF MInv, records
  <1>6. \A j \in Incidents : (Waits(j)' <=> Waits(j)) /\ Says(j) \subseteq Says(j)'
    <2>1. \A j \in Incidents : Waits(j)' <=> Waits(j)
      BY <1>2 DEF Waits
    <2>2. ASSUME NEW j \in Incidents PROVE Says(j) \subseteq Says(j)'
      <3>1. CASE j = i
        <4>1. governance'[i] = s /\ s # "none"
          BY <1>0, <1>1 DEF PhaseTypes, GovernanceStages
        <4> QED
          BY <1>0, <1>2, <3>1, <4>1 DEF Says
      <3>2. CASE j # i
        <4>1. governance'[j] = governance[j]
          BY <1>0, <1>1, <3>2 DEF PhaseTypes
        <4> QED
          BY <1>2, <4>1 DEF Says
      <3> QED
        BY <3>1, <3>2
    <2> QED
      BY <2>1, <2>2
  <1>7. StagesSaid'
    BY <1>2, <1>5, <1>6, SaidStep DEF RecordInv, RecordTypes
  <1> QED
    BY <1>3, <1>4, <1>5, <1>7 DEF MInv

LEMMA PollStep ==
  ASSUME MInv, SmokeInv', Poll
  PROVE  MInv'
  <1> DEFINE polled == {i \in Incidents \cap Shown : governance[i] \notin {"none", stage[i]}}
  <1>1. /\ stage' = [i \in Ids |-> IF i \in polled THEN governance[i] ELSE stage[i]]
        /\ Renew(polled, {}) /\ UNCHANGED <<phases, redis, handled>>
    BY DEF Poll
  <1>2. polled \subseteq Incidents \cap Shown /\ \A i \in polled : governance[i] # "none"
    OBVIOUS
  <1> HIDE DEF polled
  <1>3. RecordTypes /\ Heard /\ PhaseTypes
    BY DEF MInv, RecordInv
  <1>4. stage' \in [Ids -> {"none"} \cup MessageStages \cup GovernanceStages]
    BY <1>1, <1>2, <1>3 DEF RecordTypes, PhaseTypes
  <1>5. Shown' = Shown
    BY <1>1, <1>2 DEF Shown
  <1>6. older' \in Orders(Shown')
    <2>1. older' \in Orders((Shown \ (polled \cup {})) \cup polled)
      BY <1>1, <1>3, RenewStep DEF RecordTypes
    <2>2. (Shown \ (polled \cup {})) \cup polled = Shown'
      BY <1>2, <1>5
    <2> QED
      BY <2>1, <2>2
  <1>7. RecordInv'
    BY <1>1, <1>3, <1>4, <1>5, <1>6 DEF RecordInv, RecordTypes, Heard
  <1>8. PhaseTypes' /\ RedisTypes' /\ LastWord' /\ \A i : Waits(i) = Waits(i)' /\ Says(i) = Says(i)'
    BY <1>1, RestStays
  <1>9. StagesSaid'
    <2>1. UNCHANGED missed
      BY <1>1 DEF redis
    <2>2. ASSUME NEW i \in Incidents, stage'[i] # "none"
          PROVE  \/ i \in missed' \/ Waits(i)' \/ stage'[i] \in Says(i)'
                 \/ i \notin missed /\ ~Waits(i) /\ stage[i] = stage'[i] /\ Says(i) \subseteq Says(i)'
      <3>1. i \in Ids
        BY DEF Ids
      <3>2. CASE i \in polled
        <4>1. stage'[i] = governance[i] /\ governance[i] # "none"
          BY <1>1, <1>2, <3>1, <3>2
        <4>2. stage'[i] \in Says(i)
          BY <4>1 DEF Says
        <4> QED
          BY <1>8, <4>2
      <3>3. CASE i \notin polled
        BY <1>1, <1>8, <2>1, <3>1, <3>3
      <3> QED
        BY <3>2, <3>3
    <2> QED
      BY <1>4, <2>2, SaidStep
  <1> QED
    BY <1>7, <1>8, <1>9 DEF MInv

LEMMA ClearStep ==
  ASSUME MInv, SmokeInv', Clear
  PROVE  MInv'
  <1>1. /\ stage' = [i \in Ids |-> "none"] /\ older' = {} /\ handled' = {}
        /\ UNCHANGED <<phases, redis>>
    BY DEF Clear
  <1>2. Shown' = {}
    BY <1>1 DEF Shown
  <1>3. older' \in Orders({})
    BY <1>1, OrdersDef
  <1>4. Cardinality({}) = 0 /\ MAX_INCIDENTS \in Nat
    BY FS_EmptySet, MonitorAssumption DEF MonitorAssumption
  <1>5. RecordTypes'
    BY <1>1, <1>2, <1>3, <1>4 DEF RecordTypes
  <1>6. Heard'
    BY <1>1 DEF Heard
  <1>7. PhaseTypes' /\ RedisTypes' /\ LastWord'
    BY <1>1, RestStays
  <1>8. StagesSaid'
    BY <1>2 DEF StagesSaid
  <1> QED
    BY <1>5, <1>6, <1>7, <1>8 DEF MInv, RecordInv

LEMMA RollbackDoneStep ==
  ASSUME MInv, SmokeInv', RollbackDone
  PROVE  MInv'
  <1>1. PICK good \in BOOLEAN : Deliver(Message("deployed", RollbackId, good))
    BY DEF RollbackDone
  <1> DEFINE m == Message("deployed", RollbackId, good)
  <1>2. m \in Messages /\ m.id = RollbackId
    BY DEF Message, Messages, Channels, Ids
  <1> HIDE DEF m
  <1>3. Deliver(m) /\ UNCHANGED <<published, retries, governance, subscribed, outages, stage, older, handled>>
    BY <1>1 DEF RollbackDone, phases, records, m
  <1>4. m.id \notin Incidents
    BY <1>2, MonitorAssumption DEF MonitorAssumption
  <1>5. RedisTypes /\ LastWord
    BY DEF MInv
  <1>6. /\ RedisTypes' /\ LastWord'
        /\ \A i \in Incidents \ {m.id} : (i \in missed => i \in missed') /\ (Waits(i) => Waits(i)')
    BY <1>2, <1>3, <1>4, <1>5, DeliverStep
  <1>7. PhaseTypes'
    BY <1>3 DEF MInv, PhaseTypes
  <1>8. RecordInv'
    BY <1>3, RecordsStay DEF MInv, records
  <1>9. \A i : Says(i)' = Says(i)
    BY <1>3 DEF Says
  <1>10. StagesSaid'
    <2>1. \A i \in Incidents : i # m.id
      BY <1>4
    <2> QED
      BY <1>3, <1>6, <1>8, <1>9, <2>1, SaidStep DEF RecordInv, RecordTypes
  <1> QED
    BY <1>6, <1>7, <1>8, <1>10 DEF MInv

\* The messages of a smoke name none of the incidents.
LEMMA ReplayStep ==
  ASSUME MInv, SmokeInv', NEW s \in Smoked, Replay(s)
  PROVE  MInv'
  <1>1. PICK channel \in Channels : PushEvent(Message(channel, s, TRUE))
    <2>1. PICK step \in {<<"context", "validate">>, <<"validate", "promote">>, <<"promote", "end">>} :
            PushEvent(Message(step[1], s, TRUE))
      BY DEF Replay
    <2>2. step[1] \in Channels
      BY DEF Channels
    <2> QED
      BY <2>1, <2>2
  <1>2. UNCHANGED <<phases, redis>>
    BY DEF Replay, SmokeFrame
  <1> DEFINE m == Message(channel, s, TRUE)
  <1>3. m \in Messages /\ m.id = s
    BY DEF Message, Messages, Ids
  <1> HIDE DEF m
  <1>4. RecordInv' /\ \A i \in Ids \ {s} : stage'[i] \in {"none", stage[i]}
    BY <1>1, <1>3, PushStep DEF MInv, m
  <1>5. PhaseTypes' /\ RedisTypes' /\ LastWord' /\ \A i : Waits(i) = Waits(i)' /\ Says(i) = Says(i)'
    BY <1>2, RestStays
  <1>6. \A i \in Incidents : i # s /\ i \in Ids
    BY MonitorAssumption DEF MonitorAssumption, Ids
  <1>7. StagesSaid'
    <2>1. UNCHANGED missed
      BY <1>2 DEF redis
    <2>2. \A i \in Incidents : stage'[i] # "none" => stage'[i] = stage[i]
      BY <1>4, <1>6
    <2> QED
      BY <1>4, <1>5, <2>1, <2>2, SaidStep DEF RecordInv, RecordTypes
  <1> QED
    BY <1>4, <1>5, <1>7 DEF MInv

LEMMA AsideStep ==
  ASSUME MInv, SmokeInv', UNCHANGED <<phases, redis, records, handled>>
  PROVE  MInv'
  <1>1. PhaseTypes' /\ RedisTypes' /\ LastWord' /\ \A i : Waits(i) = Waits(i)' /\ Says(i) = Says(i)'
    BY RestStays
  <1>2. RecordInv'
    BY RecordsStay DEF MInv
  <1>3. UNCHANGED <<stage, missed>>
    BY DEF records, redis
  <1>4. StagesSaid'
    BY <1>1, <1>2, <1>3, SaidStep DEF RecordInv, RecordTypes
  <1> QED
    BY <1>1, <1>2, <1>4 DEF MInv

LEMMA MInvStep == MInv /\ [Next]_vars => MInv'
  <1> SUFFICES ASSUME MInv, [Next]_vars PROVE MInv'
    OBVIOUS
  <1>0. SmokeInv'
    BY SmokeInvStep DEF MInv
  <1>1. CASE Handle \/ Disconnect \/ Subscribe \/ Poll \/ Clear \/ RollbackDone
    BY <1>0, <1>1, HandleStep, DisconnectStep, SubscribeStep, PollStep, ClearStep, RollbackDoneStep
  <1>2. CASE \E i \in Incidents : Publish(i) \/ Govern(i)
    BY <1>0, <1>2, PublishStep, GovernStep
  <1>3. CASE RequestRollback
    BY <1>0, <1>3, AsideStep DEF RequestRollback
  <1>4. ASSUME NEW s \in Smoked, Smoke(s) PROVE MInv'
    <2>1. CASE Replay(s)
      BY <1>0, <2>1, ReplayStep
    <2>2. CASE ~Replay(s)
      BY <1>0, <1>4, <2>2, AsideStep DEF Smoke, PatchHalf, ValidationHalf, EndHalf, Fail, Succeed, SmokeFrame
    <2> QED
      BY <2>1, <2>2
  <1>5. ASSUME NEW s \in Smoked, NEW p \in Providers, StartSmoke(s, p) PROVE MInv'
    BY <1>0, <1>5, AsideStep DEF StartSmoke, SmokeFrame
  <1>6. CASE UNCHANGED vars
    BY <1>0, <1>6, AsideStep DEF vars
  <1> QED
    BY <1>1, <1>2, <1>3, <1>4, <1>5, <1>6 DEF Next

LEMMA InitMInv == Init => MInv
  <1> SUFFICES ASSUME Init PROVE MInv
    OBVIOUS
  <1>1. PhaseTypes
    BY MonitorAssumption DEF Init, PhaseTypes, Message, MonitorAssumption
  <1>2. RedisTypes
    <2>1. subscribed \in BOOLEAN /\ missed \subseteq Ids
      BY DEF Init
    <2>2. << >> \in Seq(Messages) /\ Len(<< >>) = 0
      OBVIOUS
    <2>3. outages \in 0..MaxOutages /\ inbox \in Seq(Messages) /\ Len(inbox) <= MaxPending
      BY <2>2, MonitorAssumption DEF Init, MonitorAssumption
    <2> QED
      BY <2>1, <2>3 DEF RedisTypes
  <1>3. LastWord
    BY DEF Init, LastWord
  <1>4. Shown = {}
    BY DEF Init, Shown
  <1>5. RecordInv
    <2>1. Cardinality({}) = 0 /\ MAX_INCIDENTS \in Nat /\ {} \in Orders({})
      BY FS_EmptySet, OrdersDef, MonitorAssumption DEF MonitorAssumption
    <2> QED
      BY <1>4, <2>1 DEF Init, RecordInv, RecordTypes, Heard
  <1>6. StagesSaid
    BY <1>4 DEF StagesSaid
  <1> QED
    BY <1>1, <1>2, <1>3, <1>5, <1>6, InitSmokeInv DEF MInv

\* Every variable keeps its type; the records are no more than MAX_INCIDENTS,
\* are of ids that messages named, and last_at orders them, so that there is a
\* least recent one to go (state.py, _merge_into_incident).
THEOREM TypeCorrect == Spec => []TypeOK
  <1>1. MInv => TypeOK
    <2> SUFFICES ASSUME MInv PROVE TypeOK
      OBVIOUS
    <2>1. \A s \in Smoked : task[s].provider \in Providers \cup {"none"}
      BY DEF MInv, SmokeInv, SmokeTypes
    <2> QED
      BY <2>1 DEF MInv, PhaseTypes, RedisTypes, RecordInv, RecordTypes, SmokeInv, SmokeTypes, TypeOK
  <1> QED
    BY <1>1, InitMInv, MInvStep, PTL DEF Spec

\* The dashboard shows of an incident what was said last of it, unless that
\* was lost or is still to be handled; and, while there is room, every
\* incident it has heard of (state.py, push_event and update_phase4).
THEOREM LatestHolds == Spec => []ShowsLatest
  <1>1. MInv => ShowsLatest
    BY DEF MInv, StagesSaid, Says, Waits, RecordInv, Heard, ShowsLatest
  <1> QED
    BY <1>1, InitMInv, MInvStep, PTL DEF Spec

\* Of records that time orders one is the least recent.
LEMMA LeastRecentExists ==
  ASSUME RecordTypes, Shown # {}
  PROVE  LeastRecent # {}
  <1> DEFINE Before(i) == {j \in Shown : <<j, i>> \in older}
             T == {Before(i) : i \in Shown}
  <1>1. /\ \A i \in Shown : <<i, i>> \notin older
        /\ \A i, j \in Shown : i # j => <<i, j>> \in older \/ <<j, i>> \in older
        /\ \A i, j, k \in Shown : <<i, j>> \in older /\ <<j, k>> \in older => <<i, k>> \in older
    BY OrdersDef DEF RecordTypes
  <1>2. T \subseteq FiniteSubsetsOf(Shown) /\ T # {}
    <2>1. T \subseteq SUBSET Shown /\ T # {}
      OBVIOUS
    <2> QED
      BY <2>1, ShownFinite, FS_FiniteSubsetsOfFinite
  <1>3. PICK x \in T : \A y \in T : ~(<<y, x>> \in StrictSubsetOrdering(Shown))
    <2> HIDE DEF T
    <2> QED
      BY <1>2, ShownFinite, FS_StrictSubsetOrderingWellFounded, WFMin
  <1>4. PICK i \in Shown : x = Before(i)
    OBVIOUS
  <1>5. ASSUME NEW j \in Shown, <<j, i>> \in older PROVE FALSE
    <2>1. Before(j) \subseteq Before(i)
      BY <1>1, <1>5
    <2>2. j \in Before(i) /\ j \notin Before(j)
      BY <1>1, <1>5
    <2>3. <<Before(j), x>> \in StrictSubsetOrdering(Shown)
      BY <1>4, <2>1, <2>2 DEF StrictSubsetOrdering
    <2> QED
      BY <1>3, <2>3
  <1>6. i \in LeastRecent
    BY <1>1, <1>5 DEF LeastRecent
  <1> QED
    BY <1>6

\* At the bound there is always a least recent record to go: a message never
\* finds the state without room (state.py, min(..., key=lambda r: r.last_at)).
THEOREM RoomIsMade == Spec => [](\A id \in Ids : MakeRoom(id) # {})
  <1>1. MInv => \A id \in Ids : MakeRoom(id) # {}
    <2> SUFFICES ASSUME MInv, NEW id \in Ids, Cardinality(Shown) >= MAX_INCIDENTS
                 PROVE  LeastRecent # {}
      BY DEF MakeRoom
    <2>1. Cardinality({}) = 0 /\ MAX_INCIDENTS \in Nat \ {0}
      BY FS_EmptySet, MonitorAssumption DEF MonitorAssumption
    <2>2. Shown # {}
      BY <2>1
    <2> QED
      BY <2>2, LeastRecentExists DEF MInv, RecordInv
  <1> QED
    BY <1>1, InitMInv, MInvStep, PTL DEF Spec

=============================================================================
