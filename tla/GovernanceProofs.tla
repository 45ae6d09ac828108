-------------------------- MODULE GovernanceProofs ---------------------------
(***************************************************************************)
(* Proofs about Governance: type correctness, that the gauge of active     *)
(* incidents never hides one that is still to be decided, that no incident *)
(* is forgotten, and that the watcher aborts only after two breaches.      *)
(***************************************************************************)
EXTENDS Governance, FiniteSetTheorems, TLAPS

\* What makes a decrement safe: the incident being handled is counted, and
\* it is not one of those that wait for an approval.
SettlingIsOpen == handler = "settling" => stage[current] = "git_pr"

IInv == TypeOK /\ SettlingIsOpen /\ GaugeNeverUnderReports

-----------------------------------------------------------------------------
(* Three facts about counting *)

LEMMA CountKept ==
  ASSUME NEW S, IsFiniteSet(S), NEW T \in SUBSET S, NEW n \in Nat, n >= Cardinality(S)
  PROVE  n >= Cardinality(T)
  BY FS_Subset, FS_CardinalityType

LEMMA CountGrows ==
  ASSUME NEW S, IsFiniteSet(S), NEW x, NEW T \in SUBSET (S \cup {x}),
         NEW n \in Nat, n >= Cardinality(S)
  PROVE  n + 1 >= Cardinality(T)
  <1>1. /\ IsFiniteSet(S \cup {x})
        /\ Cardinality(S \cup {x}) = Cardinality(S)
             \/ Cardinality(S \cup {x}) = Cardinality(S) + 1
    BY FS_AddElement
  <1>2. Cardinality(T) <= Cardinality(S \cup {x})
    BY <1>1, FS_Subset
  <1>3. IsFiniteSet(T)
    BY <1>1, FS_Subset
  <1> QED
    BY <1>1, <1>2, <1>3, FS_CardinalityType

LEMMA CountShrinks ==
  ASSUME NEW S, IsFiniteSet(S), NEW x \in S, NEW T \in SUBSET (S \ {x}),
         NEW n \in Nat, n >= Cardinality(S)
  PROVE  n - 1 \in Nat /\ n - 1 >= Cardinality(T)
  <1>1. IsFiniteSet(S \ {x}) /\ Cardinality(S \ {x}) = Cardinality(S) - 1
    BY FS_RemoveElement
  <1>2. Cardinality(T) <= Cardinality(S \ {x}) /\ IsFiniteSet(T)
    BY <1>1, FS_Subset
  <1> QED
    BY <1>1, <1>2, FS_CardinalityType

\* The incidents in flight are finitely many.
LEMMA InFlightFinite ==
  ASSUME NEW r \in Risks
  PROVE  IsFiniteSet(InFlight(r))
  <1>1. InFlight(r) \subseteq Incidents
    BY DEF InFlight
  <1> QED
    BY <1>1, FS_Subset, GovernanceAssumption DEF GovernanceAssumption

-----------------------------------------------------------------------------
(* Type correctness *)

LEMMA TypeInit == Init => TypeOK
  <1> SUFFICES ASSUME Init PROVE TypeOK
    OBVIOUS
  <1>1. inbox \in [Incidents -> 0 .. Deliveries]
    BY GovernanceAssumption DEF GovernanceAssumption, Init
  <1>2. active \in [Risks -> Nat]
    BY DEF Init
  <1>3. stage \in [Incidents -> Stages]
    <2>1. "none" \in Stages
      BY DEF Stages
    <2> QED
      BY <2>1 DEF Init
  <1>4. breaches \in 0 .. 2 /\ changes \in 0 .. MaxChanges /\ restarts \in 0 .. MaxRestarts
    BY GovernanceAssumption DEF GovernanceAssumption, Init
  <1>5. held \in BOOLEAN /\ aborted \in BOOLEAN
    BY DEF Init
  <1> QED
    BY <1>1, <1>2, <1>3, <1>4, <1>5 DEF Init, TypeOK

\* A decrement for the incident being handled.
LEMMA HandledIsCounted ==
  ASSUME IInv, NEW i \in Incidents, handler = "settling", current = i
  PROVE  /\ RiskOf[i] \in Risks
         /\ i \in InFlight(RiskOf[i])
         /\ active[RiskOf[i]] \in Nat /\ active[RiskOf[i]] - 1 \in Nat
  <1>1. RiskOf[i] \in Risks
    BY GovernanceAssumption DEF GovernanceAssumption
  <1>2. i \in InFlight(RiskOf[i])
    BY DEF InFlight
  <1>3. active[RiskOf[i]] \in Nat
    BY <1>1 DEF IInv, TypeOK
  <1>4. active[RiskOf[i]] >= Cardinality(InFlight(RiskOf[i]))
    BY <1>1 DEF IInv, GaugeNeverUnderReports
  <1>5. active[RiskOf[i]] - 1 \in Nat
    BY <1>1, <1>2, <1>3, <1>4, InFlightFinite, CountShrinks
  <1> QED
    BY <1>1, <1>2, <1>3, <1>5

\* TypeOK, action by action.
LEMMA TypeStep == IInv /\ [Next]_vars => TypeOK'
  <1> SUFFICES ASSUME IInv, [Next]_vars PROVE TypeOK'
    OBVIOUS
  <1>0. TypeOK
    BY DEF IInv
  <1>a. \A i \in Incidents : RiskOf[i] \in Risks
    BY GovernanceAssumption DEF GovernanceAssumption
  <1>b. ASSUME NEW r \in Risks, Increment(r) PROVE active' \in [Risks -> Nat]
    <2>1. active \in [Risks -> Nat] /\ active[r] + 1 \in Nat
      BY <1>0 DEF TypeOK
    <2> QED
      BY <1>b, <2>1 DEF Increment
  <1>c. ASSUME NEW r \in Risks, Decrement(r), active[r] - 1 \in Nat
        PROVE  active' \in [Risks -> Nat]
    <2>1. active \in [Risks -> Nat]
      BY <1>0 DEF TypeOK
    <2> QED
      BY <1>c, <2>1 DEF Decrement
  <1>d. ASSUME NEW i \in Incidents, NEW s \in Stages, SetStage(i, s)
        PROVE  stage' \in [Incidents -> Stages]
    <2>1. stage \in [Incidents -> Stages]
      BY <1>0 DEF TypeOK
    <2> QED
      BY <1>d, <2>1 DEF SetStage
  <1>e. ASSUME NEW i \in Incidents, NEW failed \in BOOLEAN, TakeAnd(i, failed)
        PROVE  /\ inbox' \in [Incidents -> 0 .. Deliveries]
               /\ retried' \subseteq Incidents /\ gaveUp' \subseteq Incidents
               /\ approved' \subseteq Incidents
    <2>1. inbox \in [Incidents -> 0 .. Deliveries] /\ inbox[i] - 1 \in 0 .. Deliveries
      BY <1>0, <1>e, GovernanceAssumption DEF TypeOK, TakeAnd, GovernanceAssumption
    <2>2. inbox' \in [Incidents -> 0 .. Deliveries]
      BY <1>e, <2>1 DEF TakeAnd
    <2> QED
      BY <1>0, <1>e, <2>2 DEF TypeOK, TakeAnd
  <1> USE DEF orchestration, rollout, watcher, environment, history
  <1>1. ASSUME NEW i \in Incidents, Refuse(i) PROVE TypeOK'
    <2>1. TakeAnd(i, FALSE)
      BY <1>1 DEF Refuse, Take
    <2> QED
      BY <1>0, <1>1, <1>e, <2>1 DEF Refuse, TypeOK
  <1>2. ASSUME NEW i \in Incidents, OpenPr(i) PROVE TypeOK'
    <2>1. TakeAnd(i, FALSE) /\ Increment(RiskOf[i]) /\ SetStage(i, "git_pr")
      BY <1>2 DEF OpenPr, Take
    <2>2. active' \in [Risks -> Nat] /\ stage' \in [Incidents -> Stages]
      BY <1>a, <1>b, <1>d, <2>1 DEF Stages
    <2> QED
      BY <1>0, <1>2, <1>e, <2>1, <2>2 DEF OpenPr, TypeOK
  <1>3. ASSUME NEW i \in Incidents, PrFails(i) PROVE TypeOK'
    <2>1. TakeAnd(i, TRUE) /\ Increment(RiskOf[i]) /\ SetStage(i, "policy_check")
      BY <1>3 DEF PrFails
    <2>2. active' \in [Risks -> Nat] /\ stage' \in [Incidents -> Stages]
      BY <1>a, <1>b, <1>d, <2>1 DEF Stages
    <2> QED
      BY <1>0, <1>3, <1>e, <2>1, <2>2 DEF PrFails, TypeOK
  <1>4. ASSUME NEW i \in Incidents, GateFails(i) PROVE TypeOK'
    <2>1. Decrement(RiskOf[i]) /\ active[RiskOf[i]] - 1 \in Nat
      BY <1>4, HandledIsCounted DEF GateFails
    <2> QED
      BY <1>0, <1>4, <1>a, <1>c, <2>1 DEF GateFails, TypeOK
  <1>5. ASSUME NEW i \in Incidents, GatePassesLow(i) PROVE TypeOK'
    <2>1. /\ Decrement(RiskOf[i]) /\ active[RiskOf[i]] - 1 \in Nat
          /\ SetStage(i, "completed")
      BY <1>5, HandledIsCounted DEF GatePassesLow
    <2>2. stage' \in [Incidents -> Stages]
      BY <1>d, <2>1 DEF Stages
    <2> QED
      BY <1>0, <1>5, <1>a, <1>c, <2>1, <2>2 DEF GatePassesLow, Listen, TypeOK
  <1>6. ASSUME NEW i \in Incidents, GatePassesHigh(i) PROVE TypeOK'
    <2>1. stage' \in [Incidents -> Stages]
      BY <1>6, <1>d DEF GatePassesHigh, Stages
    <2> QED
      BY <1>0, <1>6, <2>1 DEF GatePassesHigh, Listen, TypeOK
  <1>7. ASSUME NEW i \in Incidents, ResumeFails(i) PROVE TypeOK'
    <2>1. stage' \in [Incidents -> Stages]
      BY <1>7, <1>d DEF ResumeFails, Stages
    <2> QED
      BY <1>0, <1>7, <2>1 DEF ResumeFails, Listen, TypeOK
  <1>8. ASSUME NEW i \in Incidents, PublishRetry(i) \/ PublishRaises(i) PROVE TypeOK'
    BY <1>0, <1>8 DEF PublishRetry, PublishRaises, Listen, TypeOK
  <1>9. ASSUME NEW i \in Incidents, Approve(i) \/ Rollback(i) PROVE TypeOK'
    BY <1>0, <1>9 DEF Approve, Rollback, TypeOK
  <1>10. ASSUME Tick PROVE TypeOK'
    <2> USE DEF Tick, TickHealthy, TickBreach, TickAborts, AbortFails
    <2>1. breaches' \in 0 .. 2
      BY <1>10
    <2>2. aborted' \in BOOLEAN
      BY <1>0, <1>10 DEF TypeOK
    <2>3. /\ UNCHANGED <<inbox, orchestration, held, environment, history>>
          /\ measured' \in {"nothing", "healthy", "breach"}
      BY <1>10
    <2> HIDE DEF Tick
    <2> QED
      BY <1>0, <2>1, <2>2, <2>3 DEF TypeOK
  <1>11. ASSUME SloChanges PROVE TypeOK'
    BY <1>0, <1>11, GovernanceAssumption DEF SloChanges, TypeOK, GovernanceAssumption
  <1>12. ASSUME RolloutPauses PROVE TypeOK'
    BY <1>0, <1>12 DEF RolloutPauses, TypeOK
  <1>13. ASSUME Restart PROVE TypeOK'
    <2>1. "none" \in Stages
      BY DEF Stages
    <2>2. stage' \in [Incidents -> Stages]
      BY <1>13, <2>1 DEF Restart
    <2>3. active' \in [Risks -> Nat]
      BY <1>13 DEF Restart
    <2>4. restarts' \in 0 .. MaxRestarts
      BY <1>0, <1>13, GovernanceAssumption DEF Restart, TypeOK, GovernanceAssumption
    <2> QED
      BY <1>0, <1>13, <2>2, <2>3, <2>4 DEF Restart, Listen, TypeOK
  <1>14. CASE UNCHANGED vars
    BY <1>0, <1>14 DEF vars, TypeOK
  <1> QED
    BY <1>1, <1>2, <1>3, <1>4, <1>5, <1>6, <1>7, <1>8, <1>9, <1>10, <1>11, <1>12,
       <1>13, <1>14 DEF Next, Handle

-----------------------------------------------------------------------------
(* The gauge *)

\* While a message is handled, its incident is at git_pr: only the handler
\* sets stages.
LEMMA SettlingStep == IInv /\ [Next]_vars => SettlingIsOpen'
  <1> SUFFICES ASSUME IInv, [Next]_vars PROVE SettlingIsOpen'
    OBVIOUS
  <1>0. SettlingIsOpen /\ stage \in [Incidents -> Stages]
    BY DEF IInv, TypeOK
  <1> USE DEF orchestration, rollout, watcher, environment, history
  <1>1. ASSUME NEW i \in Incidents, Handle(i) PROVE SettlingIsOpen'
    BY <1>0, <1>1 DEF Handle, Refuse, OpenPr, PrFails, GateFails, GatePassesLow,
       GatePassesHigh, ResumeFails, PublishRetry, PublishRaises, Take, TakeAnd,
       Listen, SetStage, SettlingIsOpen
  <1>2. ASSUME NEW i \in Incidents, Approve(i) \/ Rollback(i) PROVE SettlingIsOpen'
    BY <1>0, <1>2 DEF Approve, Rollback, SettlingIsOpen
  <1>3. ASSUME Tick \/ SloChanges \/ RolloutPauses \/ Restart \/ UNCHANGED vars
        PROVE  SettlingIsOpen'
    BY <1>0, <1>3 DEF Tick, TickHealthy, TickBreach, TickAborts, AbortFails, SloChanges,
       RolloutPauses, Restart, Listen, vars, SettlingIsOpen
  <1> QED
    BY <1>1, <1>2, <1>3 DEF Next

\* The gauge stays an upper bound: what is not counted any more is decided,
\* and what has to be decided is counted first.
LEMMA GaugeStep == IInv /\ [Next]_vars => GaugeNeverUnderReports'
  <1> SUFFICES ASSUME IInv, [Next]_vars, NEW r \in Risks
               PROVE  active'[r] >= Cardinality(InFlight(r)')
    BY DEF GaugeNeverUnderReports
  <1>0. /\ active \in [Risks -> Nat] /\ stage \in [Incidents -> Stages]
        /\ active[r] \in Nat /\ active[r] >= Cardinality(InFlight(r))
        /\ IsFiniteSet(InFlight(r))
    BY InFlightFinite DEF IInv, TypeOK, GaugeNeverUnderReports
  <1>a. \A i \in Incidents : RiskOf[i] \in Risks
    BY GovernanceAssumption DEF GovernanceAssumption
  <1>b. ASSUME active'[r] = active[r], InFlight(r)' \subseteq InFlight(r)
        PROVE  active'[r] >= Cardinality(InFlight(r)')
    BY <1>0, <1>b, CountKept
  <1>c. ASSUME NEW i \in Incidents, Increment(RiskOf[i]),
               InFlight(r)' \subseteq InFlight(r) \cup (IF RiskOf[i] = r THEN {i} ELSE {})
        PROVE  active'[r] >= Cardinality(InFlight(r)')
    <2>1. CASE RiskOf[i] = r
      <3>1. active'[r] = active[r] + 1
        BY <1>0, <1>c, <2>1 DEF Increment
      <3> QED
        BY <1>0, <1>c, <2>1, <3>1, CountGrows
    <2>2. CASE RiskOf[i] # r
      BY <1>0, <1>a, <1>b, <1>c, <2>2 DEF Increment
    <2> QED
      BY <2>1, <2>2
  <1>d. ASSUME NEW i \in Incidents, Decrement(RiskOf[i]),
               handler = "settling", current = i,
               InFlight(r)' \subseteq InFlight(r) \ {i}
        PROVE  active'[r] >= Cardinality(InFlight(r)')
    <2>1. CASE RiskOf[i] = r
      <3>1. i \in InFlight(r)
        BY <1>d, <2>1, HandledIsCounted
      <3>2. active'[r] = active[r] - 1
        BY <1>0, <1>d, <2>1 DEF Decrement
      <3> QED
        BY <1>0, <1>d, <3>1, <3>2, CountShrinks
    <2>2. CASE RiskOf[i] # r
      BY <1>0, <1>a, <1>b, <1>d, <2>2 DEF Decrement
    <2> QED
      BY <2>1, <2>2
  <1> USE DEF orchestration, rollout, watcher, environment, history
  <1>1. ASSUME NEW i \in Incidents, Refuse(i) PROVE active'[r] >= Cardinality(InFlight(r)')
    BY <1>1, <1>b DEF Refuse, InFlight, Take, TakeAnd
  <1>2. ASSUME NEW i \in Incidents, OpenPr(i) PROVE active'[r] >= Cardinality(InFlight(r)')
    <2>1. InFlight(r)' \subseteq InFlight(r) \cup (IF RiskOf[i] = r THEN {i} ELSE {})
      BY <1>0, <1>2 DEF OpenPr, SetStage, InFlight
    <2> QED
      BY <1>2, <1>c, <2>1 DEF OpenPr
  <1>3. ASSUME NEW i \in Incidents, PrFails(i) PROVE active'[r] >= Cardinality(InFlight(r)')
    <2>1. InFlight(r)' \subseteq InFlight(r)
      BY <1>0, <1>3 DEF PrFails, SetStage, InFlight
    <2> QED
      BY <1>3, <1>c, <2>1 DEF PrFails
  <1>4. ASSUME NEW i \in Incidents, GateFails(i) PROVE active'[r] >= Cardinality(InFlight(r)')
    <2>1. stage[i] = "git_pr"
      BY <1>4 DEF GateFails, IInv, SettlingIsOpen
    <2>2. InFlight(r)' \subseteq InFlight(r) \ {i}
      BY <1>4, <2>1 DEF GateFails, InFlight
    <2> QED
      BY <1>4, <1>d, <2>2 DEF GateFails
  <1>5. ASSUME NEW i \in Incidents, GatePassesLow(i)
        PROVE  active'[r] >= Cardinality(InFlight(r)')
    <2>1. InFlight(r)' \subseteq InFlight(r) \ {i}
      BY <1>0, <1>5 DEF GatePassesLow, Listen, SetStage, InFlight
    <2> QED
      BY <1>5, <1>d, <2>1 DEF GatePassesLow
  <1>6. ASSUME NEW i \in Incidents, GatePassesHigh(i) \/ ResumeFails(i)
        PROVE  active'[r] >= Cardinality(InFlight(r)')
    <2>1. InFlight(r)' \subseteq InFlight(r)
      BY <1>0, <1>6 DEF GatePassesHigh, ResumeFails, Listen, SetStage, InFlight
    <2> QED
      BY <1>6, <1>b, <2>1 DEF GatePassesHigh, ResumeFails
  <1>7. ASSUME NEW i \in Incidents, PublishRetry(i) \/ PublishRaises(i)
        PROVE  active'[r] >= Cardinality(InFlight(r)')
    BY <1>7, <1>b DEF PublishRetry, PublishRaises, Listen, InFlight
  <1>8. ASSUME NEW i \in Incidents, Approve(i) \/ Rollback(i)
        PROVE  active'[r] >= Cardinality(InFlight(r)')
    BY <1>8, <1>b DEF Approve, Rollback, InFlight
  <1>9. ASSUME Tick \/ SloChanges \/ RolloutPauses \/ UNCHANGED vars
        PROVE  active'[r] >= Cardinality(InFlight(r)')
    BY <1>9, <1>b DEF Tick, TickHealthy, TickBreach, TickAborts, AbortFails, SloChanges,
       RolloutPauses, vars, InFlight
  <1>10. ASSUME Restart PROVE active'[r] >= Cardinality(InFlight(r)')
    <2>1. InFlight(r)' = {} /\ active'[r] = 0
      BY <1>10 DEF Restart, Listen, InFlight
    <2> QED
      BY <2>1, FS_EmptySet
  <1> QED
    BY <1>1, <1>2, <1>3, <1>4, <1>5, <1>6, <1>7, <1>8, <1>9, <1>10 DEF Next, Handle

\* Every incident taken is accounted for; the orchestrator that listens has
\* none at hand, so that the next message takes the place of nobody.
OutcomeInv ==
  /\ OutcomeKnown
  /\ handler = "listening" => current = NoIncident

LEMMA OutcomeStep == TypeOK /\ OutcomeInv /\ [Next]_vars => OutcomeInv'
  <1> SUFFICES ASSUME TypeOK, OutcomeInv, [Next]_vars PROVE OutcomeInv'
    OBVIOUS
  <1>0. inbox \in [Incidents -> 0 .. Deliveries] /\ stage \in [Incidents -> Stages]
    BY DEF TypeOK
  <1>n. \A i \in Incidents : i # NoIncident
    BY GovernanceAssumption DEF GovernanceAssumption
  <1> USE DEF orchestration, rollout, watcher, environment, history
  \* A message taken: it is the one at hand, or its handler gave up.
  <1>a. ASSUME NEW i \in Incidents, NEW failed \in BOOLEAN, TakeAnd(i, failed),
               \A j \in Incidents \ {i} : stage'[j] = stage[j],
               (handler' # "listening" /\ current' = i)
                 \/ (failed /\ handler' = "listening" /\ current' = NoIncident)
        PROVE  OutcomeInv'
    <2>1. handler = "listening" /\ current = NoIncident
      BY <1>a DEF TakeAnd, OutcomeInv
    <2>2. \A j \in Incidents \ {i} : /\ inbox'[j] = inbox[j]
                                     /\ j \in retried \cup gaveUp => j \in retried' \cup gaveUp'
      BY <1>0, <1>a DEF TakeAnd
    <2>3. current' = i \/ i \in gaveUp'
      BY <1>a DEF TakeAnd
    <2>4. ASSUME NEW j \in Incidents, inbox'[j] < Deliveries
          PROVE  \/ current' = j
                 \/ stage'[j] \in {"manual_approval", "completed"}
                 \/ j \in retried' \cup gaveUp'
      <3>1. CASE j = i
        BY <2>3, <3>1
      <3>2. CASE j # i
        <4>1. j \in Incidents \ {i} /\ current # j
          BY <1>n, <2>1, <3>2
        <4>2. inbox[j] < Deliveries
          BY <2>2, <2>4, <4>1
        <4>3. stage[j] \in {"manual_approval", "completed"} \/ j \in retried \cup gaveUp
          BY <4>1, <4>2 DEF OutcomeInv, OutcomeKnown
        <4> QED
          BY <1>a, <2>2, <4>1, <4>3
      <3> QED
        BY <3>1, <3>2
    <2> QED
      BY <1>a, <2>4 DEF OutcomeInv, OutcomeKnown
  \* The inbox is left alone: nobody is lost who was accounted for.
  <1>b. ASSUME inbox' = inbox, handler' = "listening" => current' = NoIncident,
               \A j \in Incidents :
                 (\/ current = j
                  \/ stage[j] \in {"manual_approval", "completed"}
                  \/ j \in retried \cup gaveUp)
                 => \/ current' = j
                    \/ stage'[j] \in {"manual_approval", "completed"}
                    \/ j \in retried' \cup gaveUp'
        PROVE  OutcomeInv'
    BY <1>b DEF OutcomeInv, OutcomeKnown
  <1>1. ASSUME NEW i \in Incidents, Refuse(i) PROVE OutcomeInv'
    BY <1>1, <1>a DEF Refuse, Take
  <1>2. ASSUME NEW i \in Incidents, OpenPr(i) PROVE OutcomeInv'
    <2>1. \A j \in Incidents \ {i} : stage'[j] = stage[j]
      BY <1>0, <1>2 DEF OpenPr, SetStage
    <2> QED
      BY <1>2, <1>a, <2>1 DEF OpenPr, Take
  <1>3. ASSUME NEW i \in Incidents, PrFails(i) PROVE OutcomeInv'
    <2>1. \A j \in Incidents \ {i} : stage'[j] = stage[j]
      BY <1>0, <1>3 DEF PrFails, SetStage
    <2>2. TakeAnd(i, TRUE) /\ handler' = "listening" /\ current' = NoIncident
      BY <1>3 DEF PrFails, TakeAnd, OutcomeInv
    <2> QED
      BY <1>a, <2>1, <2>2
  <1>4. ASSUME NEW i \in Incidents, GateFails(i) PROVE OutcomeInv'
    BY <1>4, <1>b DEF GateFails
  <1>5. ASSUME NEW i \in Incidents, GatePassesLow(i) \/ GatePassesHigh(i) \/ ResumeFails(i)
        PROVE  OutcomeInv'
    BY <1>0, <1>5, <1>b DEF GatePassesLow, GatePassesHigh, ResumeFails, SetStage, Listen
  <1>6. ASSUME NEW i \in Incidents, PublishRetry(i) \/ PublishRaises(i) PROVE OutcomeInv'
    BY <1>6, <1>b DEF PublishRetry, PublishRaises, Listen
  <1>7. ASSUME NEW i \in Incidents, Approve(i) \/ Rollback(i) PROVE OutcomeInv'
    BY <1>7, <1>b DEF Approve, Rollback, OutcomeInv
  <1>8. ASSUME Tick \/ SloChanges \/ RolloutPauses \/ UNCHANGED vars PROVE OutcomeInv'
    BY <1>8, <1>b DEF Tick, TickHealthy, TickBreach, TickAborts, AbortFails, SloChanges,
       RolloutPauses, vars, OutcomeInv
  <1>9. ASSUME Restart PROVE OutcomeInv'
    BY <1>9, <1>b DEF Restart, Listen
  <1> QED
    BY <1>1, <1>2, <1>3, <1>4, <1>5, <1>6, <1>7, <1>8, <1>9 DEF Next, Handle

\* A breach that is counted was the last thing measured.
BreachWasMeasured == breaches > 0 => measured = "breach"

LEMMA BreachStep == BreachWasMeasured /\ [Next]_vars => BreachWasMeasured'
  <1> SUFFICES ASSUME BreachWasMeasured, [Next]_vars PROVE BreachWasMeasured'
    OBVIOUS
  <1>1. ASSUME UNCHANGED watcher PROVE BreachWasMeasured'
    BY <1>1 DEF watcher, BreachWasMeasured
  <1>2. ASSUME NEW i \in Incidents, Handle(i) \/ Approve(i) \/ Rollback(i)
        PROVE  BreachWasMeasured'
    BY <1>1, <1>2 DEF Handle, Refuse, OpenPr, PrFails, GateFails, GatePassesLow,
       GatePassesHigh, ResumeFails, PublishRetry, PublishRaises, Approve, Rollback
  <1>3. ASSUME SloChanges \/ RolloutPauses \/ UNCHANGED vars PROVE BreachWasMeasured'
    BY <1>1, <1>3 DEF SloChanges, RolloutPauses, vars, watcher
  <1>4. ASSUME TickHealthy \/ Restart PROVE BreachWasMeasured'
    <2>1. breaches' = 0
      BY <1>4 DEF TickHealthy, Restart
    <2> QED
      BY <2>1 DEF BreachWasMeasured
  <1>5. ASSUME TickBreach \/ TickAborts \/ AbortFails PROVE BreachWasMeasured'
    BY <1>5 DEF TickBreach, TickAborts, AbortFails, BreachWasMeasured
  <1> QED
    BY <1>2, <1>3, <1>4, <1>5 DEF Next, Tick

-----------------------------------------------------------------------------
(* The theorems *)

LEMMA InitInv == Init => IInv
  <1> SUFFICES ASSUME Init PROVE IInv
    OBVIOUS
  <1>1. ASSUME NEW r \in Risks PROVE active[r] >= Cardinality(InFlight(r))
    <2>1. InFlight(r) = {} /\ active[r] = 0
      BY DEF Init, InFlight
    <2> QED
      BY <2>1, FS_EmptySet
  <1> QED
    BY <1>1, TypeInit DEF IInv, Init, SettlingIsOpen, GaugeNeverUnderReports

\* The inductive invariant holds in every reachable state.
THEOREM Invariance == Spec => []IInv
  <1>1. IInv /\ [Next]_vars => IInv'
    BY TypeStep, SettlingStep, GaugeStep DEF IInv
  <1> QED
    BY InitInv, <1>1, PTL DEF Spec

\* The controller's state has its type: above all, no gauge of
\* active_incidents is ever negative.
THEOREM TypeCorrect == Spec => []TypeOK
  <1>1. IInv => TypeOK
    BY DEF IInv
  <1> QED
    BY <1>1, Invariance, PTL

\* active_incidents never hides an undecided incident, for any number of
\* incidents, redeliveries and restarts.
THEOREM GaugeBound == Spec => []GaugeNeverUnderReports
  <1>1. IInv => GaugeNeverUnderReports
    BY DEF IInv
  <1> QED
    BY <1>1, Invariance, PTL

\* No return of the handler forgets an incident: each that was taken is at
\* hand, decided, asked for again, or given up on an exception, for any number
\* of incidents, redeliveries and restarts.
THEOREM OutcomeHolds == Spec => []OutcomeKnown
  <1>1. Init => OutcomeInv
    <2> SUFFICES ASSUME Init PROVE OutcomeInv
      OBVIOUS
    <2>1. \A i \in Incidents : ~(inbox[i] < Deliveries)
      BY GovernanceAssumption DEF Init, GovernanceAssumption
    <2> QED
      BY <2>1 DEF Init, OutcomeInv, OutcomeKnown
  <1>2. OutcomeInv => OutcomeKnown
    BY DEF OutcomeInv
  <1> QED
    BY <1>1, <1>2, OutcomeStep, TypeCorrect, PTL DEF Spec

\* The watcher aborts only if the measurement before this one breached the SLO,
\* too, whatever polls and aborts failed in between.
THEOREM TwoBreaches == Spec => AbortsAfterTwoBreaches
  <1>1. Init => BreachWasMeasured
    BY DEF Init, BreachWasMeasured
  <1>2. BreachWasMeasured /\ [Next]_vars => [TickAborts => measured = "breach"]_vars
    BY DEF TickAborts, BreachWasMeasured
  <1> QED
    BY <1>1, <1>2, BreachStep, PTL DEF Spec, AbortsAfterTwoBreaches
=============================================================================
