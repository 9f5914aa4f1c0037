--------------------------- MODULE CoreRates_proofs ----------------------------
(* What the core controller's rounds promise of the rates they send: the       *)
(* limit of the system, the jobs' demands, and the rules of the administrator. *)
EXTENDS CoreControl_proofs

-------------------------------------------------------------------------------
(* The trackers stay typed, whatever keys the stages have.                     *)

LEMMA StillTyped ==
    ASSUME TrackersTyped, UNCHANGED job_location_tracker,
           \A l \in Locals : StagesAt(l)' = StagesAt(l),
           DOMAIN job_previous_rates' = DOMAIN job_previous_rates
    PROVE  TrackersTyped'
  BY DEF TrackersTyped

\* The computations keep the jobs that have a previous rate.
LEMMA SentDomain ==
    ASSUME Flow, Computes
    PROVE  DOMAIN job_previous_rates' = DOMAIN job_previous_rates
<1>1. \/ NothingToEnforce
      \/ \E new_rates : \E send \in SUBSET DOMAIN job_location_tracker :
             SendEnforcementRules(send, new_rates)
  BY ComputeSteps DEF Flow
<1>2. CASE NothingToEnforce
  BY <1>2 DEF NothingToEnforce
<1>3. ASSUME NEW new_rates, NEW send, SendEnforcementRules(send, new_rates)
      PROVE  DOMAIN job_previous_rates' = DOMAIN job_previous_rates
  <2>1. job_previous_rates' = [job \in DOMAIN job_previous_rates |->
            IF job \in send THEN new_rates[job] ELSE job_previous_rates[job]]
    BY <1>3, Zenon DEF SendEnforcementRules
  <2> QED
    BY <2>1
<1> QED
  BY <1>1, <1>2, <1>3

\* Lost stages are removed from the trackers, or nothing is.
LEMMA AnswerSteps ==
    ASSUME Flow, CollectStatisticsResult
    PROVE  /\ pc = "collect" /\ pc' \in {"collect", "crashed"}
           /\ UNCHANGED <<queues, active_op, environment>>
           /\ \/ UNCHANGED <<trackers, rates, change_in_system>>
              \/ \E l \in Locals : \E lost :
                    /\ RemoveStages(lost)
                    /\ local_to_stages' =
                         IF Remaining(l, lost) # {}
                         THEN [local_to_stages EXCEPT ![l] = Remaining(l, lost)]
                         ELSE Restrict(local_to_stages, DOMAIN local_to_stages \ {l})
<1>1. PICK w \in todo :
          LET l == w[1]
              lost == Lost(l, Answer(l).alive)
          IN  /\ pc = "collect" /\ pc' \in {"collect", "crashed"}
              /\ UNCHANGED <<queues, active_op, environment>>
              /\ \/ UNCHANGED <<trackers, rates, change_in_system>>
                 \/ /\ RemoveStages(lost)
                    /\ local_to_stages' =
                         IF Remaining(l, lost) # {}
                         THEN [local_to_stages EXCEPT ![l] = Remaining(l, lost)]
                         ELSE Restrict(local_to_stages, DOMAIN local_to_stages \ {l})
  <2>1. CollectStatisticsResult
    OBVIOUS
  <2> QED
    BY <2>1, Zenon DEF CollectStatisticsResult, Crash, rates
<1>2. w[1] \in Locals
  BY DEF Flow, Places
<1> QED
  BY <1>1, <1>2, Zenon

LEMMA TrackersTypedKept ==
    ASSUME Flow, TrackersTyped, [Next]_vars
    PROVE  TrackersTyped'
<1>1. ASSUME UNCHANGED <<trackers, rates>> PROVE TrackersTyped'
  BY <1>1, StillTyped DEF trackers, rates, StagesAt
<1>2. CASE ~MainLoop
  BY <1>1, <1>2, Environment DEF Next, Outside
<1> SUFFICES ASSUME MainLoop PROVE TrackersTyped'
  BY <1>2
<1>3. CASE WaitForLocal \/ LoopCondition \/ Exit \/ CallLocalHandshake \/ NoMoreLocalControllers
           \/ NoMoreDataPlanes
  BY <1>1, <1>3 DEF WaitForLocal, LoopCondition, Exit, CallLocalHandshake, NoMoreLocalControllers,
                    NoMoreDataPlanes
<1>4. CASE CollectStatisticsGlobal \/ CollectStatisticsGlobalSend \/ DisconnectLocals
           \/ CollectEnforcementRuleResults \/ EndRound \/ WakeUp
  BY <1>1, <1>4 DEF CollectStatisticsGlobal, CollectStatisticsGlobalSend, DisconnectLocals,
                    CollectEnforcementRuleResults, EndRound, WakeUp
<1>5. CASE HandleLocalController
  <2>1. UNCHANGED <<job_location_tracker, rates>>
        /\ \E l : local_to_stages' = Emplace(local_to_stages, l, {})
    BY <1>5 DEF HandleLocalController
  <2>2. \A l \in Locals : StagesAt(l)' = StagesAt(l)
    BY <2>1 DEF StagesAt, Emplace, Put
  <2> QED
    BY <2>1, <2>2, StillTyped DEF rates
<1>6. CASE MarkDataPlaneStageReady
  BY <1>6, StillTyped DEF MarkDataPlaneStageReady, StagesAt, rates
<1>7. CASE Computes
  BY <1>7, ComputeSteps, SentDomain, StillTyped DEF Flow, trackers, StagesAt
<1>8. CASE HandleDataPlane
  BY <1>8, StageEnteredTyped
<1>9. CASE CollectStatisticsResult
  BY <1>1, <1>9, AnswerSteps, StagesRemovedTyped
<1> QED
  BY <1>3, <1>4, <1>5, <1>6, <1>7, <1>8, <1>9 DEF MainLoop, Computes

LEMMA TrackersTypedHolds == SafetySpec => []TrackersTyped
<1>1. Init => TrackersTyped
  BY DEF Init, TrackersTyped, StagesAt
<1>2. Flow /\ TrackersTyped /\ [Next]_vars => TrackersTyped'
  BY TrackersTypedKept
<1> QED
  BY <1>1, <1>2, FlowHolds, PTL DEF SafetySpec
-------------------------------------------------------------------------------
(* Rules of the administrator: those taken from the queue are the first ones  *)
(* of the policies file, those in the queue the next.                          *)

PolicyRules == [job : Jobs, op : Ops, limit : Nat]

Taken == next_rule - Len(pending_rules_queue_)

PolicyQueue ==
    /\ next_rule \in 0..Len(Policies)
    /\ pending_rules_queue_ \in Seq(PolicyRules)
    /\ Taken >= 0
    /\ \A i \in 1..Len(pending_rules_queue_) : pending_rules_queue_[i] = Policies[Taken + i]
    /\ active_op \in Ops

LEMMA PoliciesTyped ==
    Len(Policies) \in Nat /\ \A i \in 1..Len(Policies) : Policies[i] \in PolicyRules
<1>1. Policies \in Seq(PolicyRules)
  BY CoreAssumption DEF PolicyRules
<1> QED
  BY <1>1

\* The rule at the head of the queue is the next one that is taken.
LEMMA RuleTaken ==
    ASSUME PolicyQueue, DequeueRule, UNCHANGED next_rule
    PROVE  /\ PolicyQueue'
           /\ Taken' = Taken + IF NewRule THEN 1 ELSE 0
           /\ NewRule => /\ Head(pending_rules_queue_) \in PolicyRules
                         /\ Taken + 1 \in 1..Len(Policies)
                         /\ Head(pending_rules_queue_) = Policies[Taken + 1]
<1> DEFINE q == pending_rules_queue_
<1>1. q \in Seq(PolicyRules) /\ Len(q) \in Nat /\ next_rule \in 0..Len(Policies)
      /\ Len(Policies) \in Nat /\ next_rule \in Int
  BY PoliciesTyped DEF PolicyQueue
<1>2. CASE ~NewRule
  <2>1. q = <<>> /\ q' = <<>> /\ UNCHANGED active_op
    BY <1>2 DEF DequeueRule, NewRule
  <2> QED
    BY <1>1, <1>2, <2>1 DEF PolicyQueue, Taken
<1>3. CASE NewRule
  <2>1. q # <<>> /\ q' = Tail(q) /\ active_op' = Head(q).op
    BY <1>3 DEF DequeueRule, NewRule
  <2>2. /\ Head(q) \in PolicyRules /\ Head(q) = q[1] /\ Len(q) > 0
        /\ Tail(q) \in Seq(PolicyRules) /\ Len(Tail(q)) = Len(q) - 1
        /\ \A i \in 1..Len(Tail(q)) : Tail(q)[i] = q[i + 1]
    BY <1>1, <2>1, HeadTailProperties
  <2>3. active_op' \in Ops
    BY <2>1, <2>2 DEF PolicyRules
  <2>4. Taken' = Taken + 1
    BY <1>1, <2>1, <2>2 DEF Taken
  <2>5. Taken \in Nat /\ Taken + 1 <= Len(Policies)
    BY <1>1, <2>2 DEF Taken, PolicyQueue
  <2>6. Head(q) = Policies[Taken + 1]
    <3>1. 1 \in 1..Len(q)
      BY <1>1, <2>2
    <3> QED
      BY <2>2, <3>1 DEF PolicyQueue
  <2>7. \A i \in 1..Len(q') : q'[i] = Policies[Taken' + i]
    <3> SUFFICES ASSUME NEW i \in 1..Len(q') PROVE q'[i] = Policies[Taken' + i]
      OBVIOUS
    <3>1. i + 1 \in 1..Len(q) /\ q'[i] = q[i + 1]
      BY <1>1, <2>1, <2>2
    <3>2. q[i + 1] = Policies[Taken + (i + 1)]
      BY <3>1 DEF PolicyQueue
    <3>3. Taken + (i + 1) = Taken' + i
      BY <2>4, <2>5
    <3> QED
      BY <3>1, <3>2, <3>3
  <2>8. PolicyQueue'
    <3>1. Taken' >= 0 /\ UNCHANGED next_rule
      BY <2>4, <2>5
    <3> QED
      BY <1>1, <2>1, <2>2, <2>3, <2>7, <3>1 DEF PolicyQueue
  <2> QED
    BY <1>3, <2>2, <2>4, <2>5, <2>6, <2>8
<1> QED
  BY <1>2, <1>3

LEMMA RuleEnqueued ==
    ASSUME PolicyQueue, EnqueueRule
    PROVE  PolicyQueue' /\ Taken' = Taken
<1> DEFINE q == pending_rules_queue_
           rule == Policies[next_rule + 1]
<1>1. q \in Seq(PolicyRules) /\ Len(q) \in Nat /\ next_rule \in 0..Len(Policies)
      /\ Len(Policies) \in Nat /\ next_rule \in Int
  BY PoliciesTyped DEF PolicyQueue
<1>2. next_rule < Len(Policies) /\ next_rule' = next_rule + 1 /\ q' = Append(q, rule)
      /\ UNCHANGED active_op
  BY DEF EnqueueRule, rates
<1>3. rule \in PolicyRules
  BY <1>1, <1>2, PoliciesTyped
<1> HIDE DEF rule
<1>4. /\ q' \in Seq(PolicyRules) /\ Len(q') = Len(q) + 1 /\ q'[Len(q) + 1] = rule
      /\ \A i \in 1..Len(q) : q'[i] = q[i]
  BY <1>1, <1>2, <1>3
<1>5. Taken' = Taken /\ Taken \in Nat /\ Taken + (Len(q) + 1) = next_rule + 1
  BY <1>1, <1>2, <1>4 DEF Taken, PolicyQueue
<1>6. \A i \in 1..Len(q') : q'[i] = Policies[Taken' + i]
  <2> SUFFICES ASSUME NEW i \in 1..Len(q') PROVE q'[i] = Policies[Taken' + i]
    OBVIOUS
  <2>1. CASE i = Len(q) + 1
    BY <1>4, <1>5, <2>1 DEF rule
  <2>2. CASE i \in 1..Len(q)
    BY <1>4, <1>5, <2>2 DEF PolicyQueue
  <2> QED
    BY <1>1, <1>4, <2>1, <2>2
<1> QED
  BY <1>1, <1>2, <1>4, <1>5, <1>6 DEF PolicyQueue

\* The computations take a rule, or leave the queue alone.
LEMMA ComputesTake ==
    ASSUME Computes
    PROVE  /\ DequeueRule \/ UNCHANGED <<pending_rules_queue_, active_op>>
           /\ UNCHANGED next_rule
  BY Zenon DEF Computes, ComputeAndEnforceStaticRules, ComputeAndEnforceDynamicVanillaRules,
               ComputeAndEnforceDynamicLeftoverRules, environment

LEMMA PolicyQueueKept ==
    ASSUME Flow, PolicyQueue, [Next]_vars
    PROVE  /\ PolicyQueue' /\ Taken' >= Taken /\ Taken \in Nat /\ Taken' \in Nat
           /\ ~Computes => Taken' = Taken
<1>0. Taken \in Int /\ Taken \in Nat
  BY PoliciesTyped DEF PolicyQueue, Taken
<1>1. ASSUME UNCHANGED <<pending_rules_queue_, active_op, next_rule>>
      PROVE  PolicyQueue' /\ Taken' = Taken
  BY <1>1 DEF PolicyQueue, Taken
<1> DEFINE Kept == PolicyQueue' /\ Taken' >= Taken /\ (~Computes => Taken' = Taken)
<1>2. ASSUME UNCHANGED <<pending_rules_queue_, active_op, next_rule>> PROVE Kept
  BY <1>0, <1>1, <1>2
<1>3. EnqueueRule => Kept
  BY <1>0, RuleEnqueued
<1>4. Computes => Kept
  BY <1>0, <1>2, ComputesTake, RuleTaken
<1> HIDE DEF Kept
<1>5. ASSUME NEW l \in Locals, SessionSend(l) \/ SessionReply(l) \/ LocalStart(l) \/ LocalStop(l)
      PROVE  Kept
  <2>1. CASE SessionReply(l)
    BY <1>2, <2>1, Replied DEF Flow, queues, rates
  <2> QED
    BY <1>2, <1>5, <2>1 DEF SessionSend, LocalStart, LocalStop, queues, rates, environment
<1>6. ASSUME NEW s \in Stages, StageStart(s) \/ StageStop(s) PROVE Kept
  BY <1>2, <1>6 DEF StageStart, StageStop, queues, rates
<1>7. UNCHANGED vars \/ CountLocal \/ CountDataPlane => Kept
  BY <1>2 DEF CountLocal, CountDataPlane, vars, queues, rates, environment
<1>8. ASSUME WaitForLocal \/ LoopCondition \/ Exit \/ CallLocalHandshake \/ NoMoreLocalControllers
             \/ NoMoreDataPlanes \/ HandleLocalController
      PROVE  Kept
  BY <1>2, <1>8 DEF WaitForLocal, LoopCondition, Exit, CallLocalHandshake, NoMoreLocalControllers,
                    NoMoreDataPlanes, HandleLocalController, queues, rates, environment
<1>9. ASSUME CollectStatisticsGlobal \/ CollectStatisticsGlobalSend \/ DisconnectLocals
             \/ CollectEnforcementRuleResults \/ EndRound \/ WakeUp
             \/ HandleDataPlane \/ MarkDataPlaneStageReady
      PROVE  Kept
  BY <1>2, <1>9 DEF CollectStatisticsGlobal, CollectStatisticsGlobalSend, DisconnectLocals,
                    CollectEnforcementRuleResults, EndRound, WakeUp, HandleDataPlane,
                    MarkDataPlaneStageReady, queues, rates, environment
<1>10. CollectStatisticsResult => Kept
  BY <1>2, AnswerSteps DEF queues, environment
<1>11. Kept
  BY <1>3, <1>4, <1>5, <1>6, <1>7, <1>8, <1>9, <1>10 DEF Next, MainLoop, Computes
<1>12. Taken' \in Int
  BY <1>11, PoliciesTyped DEF PolicyQueue, Taken, Kept
<1> QED
  BY <1>0, <1>11, <1>12 DEF Kept

LEMMA PolicyQueueHolds == SafetySpec => []PolicyQueue
<1>1. Init => PolicyQueue
  <2> SUFFICES ASSUME Init PROVE PolicyQueue
    OBVIOUS
  <2>1. pending_rules_queue_ = <<>> /\ next_rule = 0 /\ active_op = FirstOp
    BY DEF Init
  <2> QED
    BY <2>1, CoreAssumption, PoliciesTyped DEF PolicyQueue, Taken
<1>2. Flow /\ PolicyQueue /\ [Next]_vars => PolicyQueue'
  BY PolicyQueueKept
<1> QED
  BY <1>1, <1>2, FlowHolds, PTL DEF SafetySpec
-------------------------------------------------------------------------------
(* Demands and rates: every tracked job has both.                              *)

\* A rate, or -1 for a job without one.
RateOrNone == Nat \cup {-1}

RatesTyped ==
    /\ DOMAIN job_demands \subseteq Jobs /\ DOMAIN job_rates \subseteq Jobs
    /\ job_demands \in [DOMAIN job_demands -> RateOrNone]
    /\ job_rates \in [DOMAIN job_rates -> RateOrNone]
    /\ job_previous_rates \in [DOMAIN job_previous_rates -> RateOrNone]
    /\ DOMAIN job_location_tracker \subseteq DOMAIN job_demands
    /\ DOMAIN job_location_tracker \subseteq DOMAIN job_rates
    /\ change_in_system \in BOOLEAN

\* No negative rates are computed.  DYNAMIC_VANILLA needs a limit of at least
\* 1 IOPS for each job for that, and DYNAMIC_LEFTOVER kept rates that leave
\* something to divide.
NoNegativeRates ==
    /\ ControlType = "DYNAMIC_VANILLA" => maximum_limit >= Len(JobOrder)
    /\ ControlType = "DYNAMIC_LEFTOVER" => LeftoverRates \subseteq Nat

LEMMA DemandsUpdated ==
    ASSUME PolicyQueue, RatesTyped
    PROVE  /\ UpdatedDemands \in [DOMAIN UpdatedDemands -> RateOrNone]
           /\ DOMAIN UpdatedDemands \subseteq Jobs
           /\ DOMAIN job_demands \subseteq DOMAIN UpdatedDemands
           /\ \A job \in DOMAIN UpdatedDemands :
                 \/ /\ job \in DOMAIN job_demands /\ UpdatedDemands[job] = job_demands[job]
                    /\ NewRule => job # Head(pending_rules_queue_).job
                 \/ /\ NewRule
                    /\ job = Head(pending_rules_queue_).job
                    /\ UpdatedDemands[job] = Head(pending_rules_queue_).limit
<1>1. CASE ~NewRule
  BY <1>1 DEF UpdatedDemands, RatesTyped
<1>2. CASE NewRule
  <2> DEFINE rule == Head(pending_rules_queue_)
  <2>1. rule \in PolicyRules
    BY <1>2, HeadTailProperties DEF PolicyQueue, NewRule
  <2>2. UpdatedDemands = Put(job_demands, rule.job, rule.limit)
    BY <1>2 DEF UpdatedDemands
  <2>3. rule.job \in Jobs /\ rule.limit \in Nat
    BY <2>1 DEF PolicyRules
  <2> HIDE DEF rule
  <2>4. DOMAIN UpdatedDemands = DOMAIN job_demands \cup {rule.job}
        /\ \A job \in DOMAIN UpdatedDemands :
               UpdatedDemands[job] = IF job = rule.job THEN rule.limit ELSE job_demands[job]
    BY <2>2 DEF Put
  <2>5. UpdatedDemands \in [DOMAIN UpdatedDemands -> RateOrNone]
    BY <2>2, <2>3, <2>4 DEF RatesTyped, RateOrNone, Put
  <2> QED
    BY <1>2, <2>3, <2>4, <2>5 DEF RatesTyped, rule
<1> QED
  BY <1>1, <1>2

LEMMA PreviousSent ==
    ASSUME NEW send, NEW new_rates, SendEnforcementRules(send, new_rates)
    PROVE  job_previous_rates' = [job \in DOMAIN job_previous_rates |->
               IF job \in send THEN new_rates[job] ELSE job_previous_rates[job]]
  BY Zenon DEF SendEnforcementRules

\* The rates that STATIC computes: the demand of each job that has one.
StaticRates ==
    PutAll(job_rates, Restrict(UpdatedDemands,
                          {job \in DOMAIN UpdatedDemands : UpdatedDemands[job] # -1}))

LEMMA StaticRatesAre ==
    ASSUME PolicyQueue, RatesTyped
    PROVE  /\ DOMAIN StaticRates \subseteq Jobs
           /\ DOMAIN job_rates \subseteq DOMAIN StaticRates
           /\ StaticRates \in [DOMAIN StaticRates -> RateOrNone]
           /\ \A job \in DOMAIN UpdatedDemands :
                 UpdatedDemands[job] # -1 => job \in DOMAIN StaticRates
                                             /\ StaticRates[job] = UpdatedDemands[job]
           /\ \A job \in DOMAIN StaticRates :
                 \/ job \in DOMAIN UpdatedDemands /\ StaticRates[job] = UpdatedDemands[job]
                 \/ /\ job \in DOMAIN job_rates /\ StaticRates[job] = job_rates[job]
                    /\ job \in DOMAIN UpdatedDemands => UpdatedDemands[job] = -1
<1> DEFINE demands == UpdatedDemands
           demanded == {job \in DOMAIN demands : demands[job] # -1}
           other == Restrict(demands, demanded)
<1>1. DOMAIN other = demanded /\ \A job \in demanded : other[job] = demands[job]
  BY DEF Restrict
<1>2. StaticRates = PutAll(job_rates, other)
  BY DEF StaticRates
<1>3. /\ demands \in [DOMAIN demands -> RateOrNone] /\ DOMAIN demands \subseteq Jobs
  BY DemandsUpdated
<1> HIDE DEF demands, other
<1>4. /\ StaticRates = [k \in DOMAIN job_rates \cup demanded |->
                           IF k \in demanded THEN other[k] ELSE job_rates[k]]
  BY <1>1, <1>2 DEF PutAll
<1>5. DOMAIN StaticRates = DOMAIN job_rates \cup demanded
      /\ \A k \in DOMAIN StaticRates :
             StaticRates[k] = IF k \in demanded THEN demands[k] ELSE job_rates[k]
  BY <1>1, <1>4
<1>6. StaticRates \in [DOMAIN StaticRates -> RateOrNone]
  BY <1>1, <1>3, <1>4, <1>5 DEF RatesTyped
<1> QED
  BY <1>3, <1>5, <1>6 DEF RatesTyped, demands

LEMMA StaticTyped ==
    ASSUME Flow, PolicyQueue, RatesTyped, TrackersTyped, ComputeAndEnforceStaticRules
    PROVE  RatesTyped'
<1> DEFINE jobs == DOMAIN job_location_tracker
           send == {job \in jobs : ~BelowThreshold(job, StaticRates)}
<1>1. UNCHANGED trackers
  BY DEF ComputeAndEnforceStaticRules
<1>2. CASE /\ NothingToEnforce
           /\ job_demands' = job_demands \/ job_demands' = UpdatedDemands
           /\ change_in_system' \in BOOLEAN
  <2>1. UNCHANGED <<job_rates, job_previous_rates>>
    BY <1>2 DEF NothingToEnforce
  <2> QED
    BY <1>1, <1>2, <2>1, DemandsUpdated DEF RatesTyped, trackers
<1>3. CASE /\ job_demands' = UpdatedDemands
           /\ change_in_system' \in BOOLEAN
           /\ job_rates' = [job \in DOMAIN StaticRates |->
                              IF job \in jobs \ send THEN -1 ELSE StaticRates[job]]
           /\ SendEnforcementRules(send, StaticRates)
  <2>1. job_rates' \in [DOMAIN job_rates' -> RateOrNone]
        /\ DOMAIN job_rates' = DOMAIN StaticRates
    BY <1>3, StaticRatesAre DEF RateOrNone
  <2>2. job_previous_rates' \in [DOMAIN job_previous_rates' -> RateOrNone]
    <3>1. job_previous_rates' = [job \in DOMAIN job_previous_rates |->
              IF job \in send THEN StaticRates[job] ELSE job_previous_rates[job]]
      BY <1>3, PreviousSent
    <3>2. \A job \in send : StaticRates[job] \in RateOrNone
      BY StaticRatesAre DEF RatesTyped
    <3> HIDE DEF send
    <3> QED
      BY <3>1, <3>2 DEF RatesTyped
  <2> QED
    BY <1>1, <1>3, <2>1, <2>2, DemandsUpdated, StaticRatesAre DEF RatesTyped, trackers
<1>4. \/ /\ NothingToEnforce
         /\ job_demands' = job_demands \/ job_demands' = UpdatedDemands
         /\ change_in_system' \in BOOLEAN
      \/ /\ job_demands' = UpdatedDemands
         /\ change_in_system' \in BOOLEAN
         /\ job_rates' = [job \in DOMAIN StaticRates |->
                            IF job \in jobs \ send THEN -1 ELSE StaticRates[job]]
         /\ SendEnforcementRules(send, StaticRates)
  <2>1. change_in_system \in BOOLEAN /\ ChangeInRound \in BOOLEAN
    BY DEF RatesTyped, ChangeInRound, NewRule
  <2> QED
    BY <2>1, Zenon DEF ComputeAndEnforceStaticRules, StaticRates
<1> QED
  BY <1>2, <1>3, <1>4

\* What DYNAMIC_VANILLA gives the tracked jobs in this round.
VanillaNow == VanillaAllocation(CurrentJobs, UpdatedDemands, maximum_limit)

LEMMA VanillaNowIs ==
    ASSUME PolicyQueue, RatesTyped, DOMAIN job_location_tracker # {},
           maximum_limit >= Len(JobOrder)
    PROVE  /\ VanillaNow.rates \in [DOMAIN job_location_tracker -> Nat]
           /\ VanillaNow.demands \in [DOMAIN UpdatedDemands -> RateOrNone]
           /\ Total(VanillaNow.rates) <= maximum_limit
<1> DEFINE jobs == DOMAIN job_location_tracker
           order == CurrentJobs
           D == DOMAIN UpdatedDemands
           demands == UpdatedDemands
<1>1. jobs \subseteq D /\ demands \in [D -> Nat \cup {-1}] /\ D \subseteq Jobs
  BY DemandsUpdated DEF RatesTyped, RateOrNone
<1>2. jobs \subseteq Jobs
  BY <1>1
<1>3. /\ order \in Seq(jobs) /\ Distinct(order) /\ First(order, Len(order)) = jobs
      /\ Len(order) = Cardinality(jobs)
  BY <1>2, InOrderLists DEF CurrentJobs
<1>4. Cardinality(jobs) \in Nat /\ Cardinality(jobs) <= Len(JobOrder)
  BY <1>2, CoreJobs, FS_Subset, FS_CardinalityType
<1>5. maximum_limit \in Nat /\ maximum_limit >= Len(order)
  BY <1>3, <1>4, CoreAssumption, CoreJobs
<1>6. order # <<>>
  BY <1>3 DEF First
<1> HIDE DEF jobs, order, D, demands
<1>7. order \in Seq(D)
  BY <1>1, <1>3
<1>8. LET result == VanillaAllocation(order, demands, maximum_limit) IN
      /\ result.rates \in [First(order, Len(order)) -> Nat]
      /\ result.demands \in [D -> Nat \cup {-1}]
      /\ Total(result.rates) <= maximum_limit
  BY <1>1, <1>3, <1>5, <1>6, <1>7, VanillaTotal
<1> QED
  BY <1>3, <1>8 DEF VanillaNow, RateOrNone, jobs, order, D, demands

LEMMA VanillaSteps ==
    ASSUME ComputeAndEnforceDynamicVanillaRules
    PROVE  /\ UNCHANGED trackers /\ change_in_system' = change_in_system
           /\ DequeueRule
           /\ \/ /\ DOMAIN job_location_tracker # {}
                 /\ job_demands' = VanillaNow.demands
                 /\ \E send \in SUBSET DOMAIN job_location_tracker :
                       /\ change_in_system => send = DOMAIN job_location_tracker
                       /\ \A job \in DOMAIN job_location_tracker \ send :
                              BelowThreshold(job, VanillaNow.rates)
                       /\ job_rates' = PutAll(job_rates, [job \in DOMAIN job_location_tracker |->
                              IF job \in send THEN VanillaNow.rates[job] ELSE -1])
                       /\ SendEnforcementRules(send, VanillaNow.rates)
              \/ /\ DOMAIN job_location_tracker = {}
                 /\ job_demands' = UpdatedDemands
                 /\ NothingToEnforce
<1> DEFINE jobs == DOMAIN job_location_tracker
           send == {job \in jobs : VanillaSends(job, VanillaNow.rates)}
<1>1. /\ UNCHANGED <<trackers, rounds>> /\ DequeueRule
      /\ \/ /\ jobs # {}
            /\ job_demands' = VanillaNow.demands
            /\ job_rates' = PutAll(job_rates, [job \in jobs |->
                   IF job \in send THEN VanillaNow.rates[job] ELSE -1])
            /\ SendEnforcementRules(send, VanillaNow.rates)
         \/ /\ jobs = {}
            /\ job_demands' = UpdatedDemands
            /\ NothingToEnforce
  BY Zenon DEF ComputeAndEnforceDynamicVanillaRules, VanillaNow
<1>2. /\ send \in SUBSET jobs
      /\ change_in_system => send = jobs
      /\ \A job \in jobs \ send : BelowThreshold(job, VanillaNow.rates)
  BY DEF VanillaSends
<1> HIDE DEF send
<1> QED
  BY <1>1, <1>2 DEF rounds

LEMMA VanillaTyped ==
    ASSUME PolicyQueue, RatesTyped, maximum_limit >= Len(JobOrder),
           ComputeAndEnforceDynamicVanillaRules
    PROVE  RatesTyped'
<1> DEFINE jobs == DOMAIN job_location_tracker
<1>1. UNCHANGED job_location_tracker /\ change_in_system' = change_in_system
  BY VanillaSteps DEF trackers
<1>2. CASE job_demands' = UpdatedDemands /\ NothingToEnforce
  <2>1. UNCHANGED <<job_rates, job_previous_rates>>
    BY <1>2 DEF NothingToEnforce
  <2> QED
    BY <1>1, <1>2, <2>1, DemandsUpdated DEF RatesTyped
<1>3. ASSUME jobs # {}, job_demands' = VanillaNow.demands,
             NEW send \in SUBSET jobs,
             job_rates' = PutAll(job_rates, [job \in jobs |->
                              IF job \in send THEN VanillaNow.rates[job] ELSE -1]),
             SendEnforcementRules(send, VanillaNow.rates)
      PROVE  RatesTyped'
  <2> DEFINE r == VanillaNow.rates
  <2>1. r \in [jobs -> Nat] /\ VanillaNow.demands \in [DOMAIN UpdatedDemands -> RateOrNone]
    BY <1>3, VanillaNowIs
  <2>2. job_previous_rates' = [job \in DOMAIN job_previous_rates |->
            IF job \in send THEN r[job] ELSE job_previous_rates[job]]
    BY <1>3, PreviousSent
  <2> HIDE DEF r
  <2>3. job_previous_rates' \in [DOMAIN job_previous_rates' -> RateOrNone]
    BY <2>1, <2>2 DEF RatesTyped, RateOrNone
  <2>4. /\ job_rates' \in [DOMAIN job_rates' -> RateOrNone]
        /\ DOMAIN job_rates' = DOMAIN job_rates \cup jobs
    BY <1>3, <2>1 DEF PutAll, RatesTyped, RateOrNone, r
  <2>5. DOMAIN job_demands' = DOMAIN UpdatedDemands
        /\ job_demands' \in [DOMAIN job_demands' -> RateOrNone]
    BY <1>3, <2>1
  <2> QED
    BY <1>1, <2>3, <2>4, <2>5, DemandsUpdated DEF RatesTyped
<1> QED
  BY <1>2, <1>3, VanillaSteps

LEMMA LeftoverTyped ==
    ASSUME PolicyQueue, RatesTyped, LeftoverRates \subseteq Nat,
           ComputeAndEnforceDynamicLeftoverRules
    PROVE  RatesTyped'
<1> DEFINE jobs == DOMAIN job_location_tracker
<1>1. UNCHANGED job_location_tracker /\ change_in_system' = change_in_system
      /\ job_demands' = UpdatedDemands
  BY Zenon DEF ComputeAndEnforceDynamicLeftoverRules, trackers
<1>2. CASE NothingToEnforce
  <2>1. UNCHANGED <<job_rates, job_previous_rates>>
    BY <1>2 DEF NothingToEnforce
  <2> QED
    BY <1>1, <2>1, DemandsUpdated DEF RatesTyped
<1>3. ASSUME NEW new_rates \in [jobs -> LeftoverRates], NEW send \in SUBSET jobs,
             job_rates' = PutAll(job_rates, new_rates),
             SendEnforcementRules(send, new_rates)
      PROVE  RatesTyped'
  <2>1. new_rates \in [jobs -> Nat]
    OBVIOUS
  <2>2. job_previous_rates' = [job \in DOMAIN job_previous_rates |->
            IF job \in send THEN new_rates[job] ELSE job_previous_rates[job]]
    BY <1>3, PreviousSent
  <2>3. job_previous_rates' \in [DOMAIN job_previous_rates' -> RateOrNone]
    BY <2>1, <2>2 DEF RatesTyped, RateOrNone
  <2>4. /\ job_rates' \in [DOMAIN job_rates' -> RateOrNone]
        /\ DOMAIN job_rates' = DOMAIN job_rates \cup jobs
    BY <1>3, <2>1 DEF PutAll, RatesTyped, RateOrNone
  <2> QED
    BY <1>1, <2>3, <2>4, DemandsUpdated DEF RatesTyped
<1>4. \/ NothingToEnforce
      \/ \E new_rates \in [jobs -> LeftoverRates] : \E send \in SUBSET jobs :
            job_rates' = PutAll(job_rates, new_rates) /\ SendEnforcementRules(send, new_rates)
  BY DEF ComputeAndEnforceDynamicLeftoverRules
<1> QED
  BY <1>2, <1>3, <1>4

LEMMA EnteredRates ==
    ASSUME Flow, RatesTyped, HandleDataPlane
    PROVE  LET s == Head(local_to_data_queue_) IN
           /\ s \in Stages
           /\ job_previous_rates' = Emplace(job_previous_rates, JobOf[s], 0)
           /\ job_demands' = Emplace(job_demands, JobOf[s], -1)
           /\ DOMAIN job_location_tracker' = DOMAIN job_location_tracker \cup {JobOf[s]}
           /\ RatesTyped'
<1> DEFINE s == Head(local_to_data_queue_)
           job == JobOf[s]
<1>1. s \in Stages
  BY HeadTailProperties DEF HandleDataPlane, Flow, Places
<1>2. job \in Jobs
  BY <1>1, CoreAssumption
<1>3. /\ job_previous_rates' = Emplace(job_previous_rates, job, 0)
      /\ job_demands' = Emplace(job_demands, job, -1)
      /\ job_rates' = Emplace(job_rates, job, -1)
      /\ change_in_system' = TRUE
      /\ \E envs : job_location_tracker' = Put(job_location_tracker, job, envs)
  BY DEF HandleDataPlane
<1> HIDE DEF s, job
<1>4. DOMAIN job_location_tracker' = DOMAIN job_location_tracker \cup {job}
  BY <1>3 DEF Put
<1>5. ASSUME NEW f, f \in [DOMAIN f -> RateOrNone], NEW v \in RateOrNone
      PROVE  /\ Emplace(f, job, v) \in [DOMAIN Emplace(f, job, v) -> RateOrNone]
             /\ DOMAIN Emplace(f, job, v) = DOMAIN f \cup {job}
  <2>1. CASE job \in DOMAIN f
    <3>1. Emplace(f, job, v) = f
      BY <2>1 DEF Emplace
    <3> QED
      BY <1>5, <2>1, <3>1
  <2>2. CASE job \notin DOMAIN f
    <3>1. Emplace(f, job, v)
            = [k \in DOMAIN f \cup {job} |-> IF k = job THEN v ELSE f[k]]
      BY <2>2 DEF Emplace, Put
    <3> QED
      BY <1>5, <3>1
  <2> QED
    BY <2>1, <2>2
<1>6. 0 \in RateOrNone /\ -1 \in RateOrNone
  BY DEF RateOrNone
<1>7. /\ job_demands' \in [DOMAIN job_demands' -> RateOrNone]
      /\ DOMAIN job_demands' = DOMAIN job_demands \cup {job}
  BY <1>3, <1>5, <1>6 DEF RatesTyped
<1>8. /\ job_rates' \in [DOMAIN job_rates' -> RateOrNone]
      /\ DOMAIN job_rates' = DOMAIN job_rates \cup {job}
  BY <1>3, <1>5, <1>6 DEF RatesTyped
<1>9. job_previous_rates' \in [DOMAIN job_previous_rates' -> RateOrNone]
  BY <1>3, <1>5, <1>6 DEF RatesTyped
<1>10. RatesTyped'
  BY <1>2, <1>3, <1>4, <1>7, <1>8, <1>9 DEF RatesTyped
<1> QED
  BY <1>1, <1>3, <1>4, <1>10 DEF s, job

\* A removal drops the same jobs everywhere.
LEMMA RemovedRates ==
    ASSUME RatesTyped, NEW lost, RemoveStages(lost)
    PROVE  /\ RatesTyped'
           /\ \E jobs \in SUBSET DOMAIN job_location_tracker :
                 LET kept == DOMAIN job_previous_rates
                                 \ (DOMAIN job_location_tracker \ jobs) IN
                 /\ DOMAIN job_location_tracker' = jobs
                 /\ job_previous_rates' = Restrict(job_previous_rates, kept)
                 /\ \A job \in jobs : job_demands'[job] = job_demands[job]
           /\ change_in_system' = (change_in_system \/ lost # {})
           /\ lost = {} => DOMAIN job_location_tracker' \subseteq DOMAIN job_location_tracker
<1> DEFINE jobs == {job \in DOMAIN job_location_tracker : LocationsLeft(job, lost) # {}}
           gone == DOMAIN job_location_tracker \ jobs
<1>1. /\ DOMAIN job_location_tracker' = jobs
      /\ job_demands' = Restrict(job_demands, DOMAIN job_demands \ gone)
      /\ job_rates' = Restrict(job_rates, DOMAIN job_rates \ gone)
      /\ job_previous_rates' = Restrict(job_previous_rates, DOMAIN job_previous_rates \ gone)
      /\ change_in_system' = (change_in_system \/ lost # {})
  BY DEF RemoveStages
<1>2. jobs \subseteq DOMAIN job_location_tracker
  OBVIOUS
<1> HIDE DEF jobs
<1>3. ASSUME NEW f, f \in [DOMAIN f -> RateOrNone], NEW g, g = Restrict(f, DOMAIN f \ gone)
      PROVE  /\ g \in [DOMAIN g -> RateOrNone]
             /\ DOMAIN g = DOMAIN f \ gone
             /\ \A job \in DOMAIN f \ gone : g[job] = f[job]
  BY <1>3 DEF Restrict
<1> HIDE DEF gone
<1>4. /\ job_demands' \in [DOMAIN job_demands' -> RateOrNone]
      /\ DOMAIN job_demands' = DOMAIN job_demands \ gone
      /\ \A job \in DOMAIN job_demands \ gone : job_demands'[job] = job_demands[job]
  BY <1>1, <1>3 DEF RatesTyped
<1>5. /\ job_rates' \in [DOMAIN job_rates' -> RateOrNone]
      /\ DOMAIN job_rates' = DOMAIN job_rates \ gone
  BY <1>1, <1>3 DEF RatesTyped
<1>6. job_previous_rates' \in [DOMAIN job_previous_rates' -> RateOrNone]
  BY <1>1, <1>3 DEF RatesTyped
<1>7. gone \cap jobs = {} /\ jobs \subseteq DOMAIN job_demands \ gone /\ jobs \subseteq DOMAIN job_rates \ gone
  BY <1>2 DEF gone, RatesTyped
<1>8. change_in_system' \in BOOLEAN
  BY <1>1 DEF RatesTyped
<1>9. RatesTyped'
  BY <1>1, <1>4, <1>5, <1>6, <1>7, <1>8 DEF RatesTyped
<1> QED
  BY <1>1, <1>2, <1>4, <1>7, <1>9 DEF gone

LEMMA RatesTypedKept ==
    ASSUME NoNegativeRates, Flow, TrackersTyped, PolicyQueue, RatesTyped, [Next]_vars
    PROVE  RatesTyped'
<1>1. ASSUME UNCHANGED <<job_location_tracker, rates>>, change_in_system' \in BOOLEAN
      PROVE  RatesTyped'
  BY <1>1 DEF RatesTyped, rates
<1>2. CASE ~MainLoop
  <2>1. UNCHANGED <<trackers, rates, rounds>>
    BY <1>2, Environment DEF Next, Outside
  <2> QED
    BY <1>1, <2>1 DEF trackers, rounds, RatesTyped
<1> SUFFICES ASSUME MainLoop PROVE RatesTyped'
  BY <1>2
<1>3. CASE WaitForLocal \/ LoopCondition \/ Exit \/ CallLocalHandshake \/ NoMoreLocalControllers
           \/ NoMoreDataPlanes \/ HandleLocalController \/ MarkDataPlaneStageReady
  BY <1>1, <1>3 DEF WaitForLocal, LoopCondition, Exit, CallLocalHandshake, NoMoreLocalControllers,
                    NoMoreDataPlanes, HandleLocalController, MarkDataPlaneStageReady,
                    trackers, rounds, RatesTyped
<1>4. CASE CollectStatisticsGlobal \/ CollectStatisticsGlobalSend \/ DisconnectLocals
           \/ CollectEnforcementRuleResults \/ EndRound \/ WakeUp
  BY <1>1, <1>4 DEF CollectStatisticsGlobal, CollectStatisticsGlobalSend, DisconnectLocals,
                    CollectEnforcementRuleResults, EndRound, WakeUp, trackers, rounds, RatesTyped
<1>5. CASE ComputeAndEnforceStaticRules
  BY <1>5, StaticTyped
<1>6. CASE ComputeAndEnforceDynamicVanillaRules
  <2>1. ControlType = "DYNAMIC_VANILLA"
    BY <1>6, Zenon DEF ComputeAndEnforceDynamicVanillaRules
  <2> QED
    BY <1>6, <2>1, VanillaTyped DEF NoNegativeRates
<1>7. CASE ComputeAndEnforceDynamicLeftoverRules
  <2>1. ControlType = "DYNAMIC_LEFTOVER"
    BY <1>7, Zenon DEF ComputeAndEnforceDynamicLeftoverRules
  <2> QED
    BY <1>7, <2>1, LeftoverTyped DEF NoNegativeRates
<1>8. CASE HandleDataPlane
  BY <1>8, EnteredRates
<1>9. CASE CollectStatisticsResult
  <2>1. CASE UNCHANGED <<trackers, rates, change_in_system>>
    BY <1>1, <2>1 DEF trackers, RatesTyped
  <2> QED
    BY <1>9, <2>1, AnswerSteps, RemovedRates
<1> QED
  BY <1>3, <1>4, <1>5, <1>6, <1>7, <1>8, <1>9 DEF MainLoop

LEMMA RatesTypedHolds == NoNegativeRates => (SafetySpec => []RatesTyped)
<1> SUFFICES ASSUME NoNegativeRates PROVE SafetySpec => []RatesTyped
  OBVIOUS
<1>1. Init => RatesTyped
  <2> SUFFICES ASSUME Init PROVE RatesTyped
    OBVIOUS
  <2>1. job_demands = <<>> /\ job_rates = <<>> /\ job_previous_rates = <<>>
        /\ job_location_tracker = <<>> /\ change_in_system = FALSE
    BY DEF Init
  <2>2. DOMAIN <<>> = {} /\ <<>> \in [{} -> RateOrNone]
    OBVIOUS
  <2> QED
    BY <2>1, <2>2 DEF RatesTyped
<1>2. Flow /\ TrackersTyped /\ PolicyQueue /\ RatesTyped /\ [Next]_vars => RatesTyped'
  BY RatesTypedKept
<1> QED
  BY <1>1, <1>2, FlowHolds, TrackersTypedHolds, PolicyQueueHolds, PTL DEF SafetySpec
-------------------------------------------------------------------------------
(* The limit of the system.  The rates in force are not the ones computed     *)
(* last: each is within the threshold of a rate that some earlier computation *)
(* gave the job, or that a new job has, and those rates share the limit.      *)

Shares(r) ==
    /\ r \in [DOMAIN job_previous_rates -> Nat]
    /\ Total(r) <= maximum_limit
    /\ \A job \in DOMAIN job_previous_rates :
          job_previous_rates[job] <= r[job] + (IOPS_THRESHOLD - 1)

WithinShares == \E r : Shares(r)

\* Sums over a map of jobs.
LEMMA JobsSum ==
    ASSUME NEW f, DOMAIN f \subseteq Jobs, \A job \in DOMAIN f : f[job] \in Int
    PROVE  /\ IsFiniteSet(DOMAIN f)
           /\ Total(f) = SumFunctionOnSet(f, DOMAIN f)
           /\ Total(f) \in Int
<1>1. IsFiniteSet(DOMAIN f)
  BY CoreJobs, FS_Subset
<1> QED
  BY <1>1, TotalIsSum, SumType

LEMMA NewJobShares ==
    ASSUME IOPS_THRESHOLD >= 1, IOPS_THRESHOLD \in Nat, WithinShares,
           NEW job \in Jobs, DOMAIN job_previous_rates \subseteq Jobs,
           job_previous_rates' = Emplace(job_previous_rates, job, 0)
    PROVE  WithinShares'
<1> DEFINE D == DOMAIN job_previous_rates
<1>1. PICK r : Shares(r)
  BY DEF WithinShares
<1>2. CASE job \in D
  <2>1. UNCHANGED job_previous_rates
    BY <1>2 DEF Emplace
  <2> QED
    BY <1>1, <2>1 DEF WithinShares, Shares
<1>3. CASE job \notin D
  <2> DEFINE g == Put(r, job, 0)
  <2>1. /\ DOMAIN r = D /\ \A y \in D : r[y] \in Nat
    BY <1>1 DEF Shares
  <2>2. Total(g) = 0 + Total(r) /\ Total(r) \in Int
    <3>1. IsFiniteSet(DOMAIN r) /\ Total(r) = SumFunctionOnSet(r, DOMAIN r) /\ Total(r) \in Int
      BY <2>1, JobsSum
    <3>2. LET h == Put(r, job, 0) IN
          SumFunctionOnSet(h, DOMAIN h) = 0 + SumFunctionOnSet(r, DOMAIN r)
      BY <1>3, <2>1, <3>1, SumExtended
    <3> QED
      BY <3>1, <3>2, TotalIsSum
  <2>3. g \in [D \cup {job} -> Nat] /\ g[job] = 0 /\ \A y \in D : g[y] = r[y]
    BY <1>3, <2>1 DEF Put
  <2>4. /\ DOMAIN job_previous_rates' = D \cup {job}
        /\ job_previous_rates'[job] = 0
        /\ \A y \in D : job_previous_rates'[y] = job_previous_rates[y]
    BY <1>3 DEF Emplace, Put
  <2> HIDE DEF g
  <2>5. Shares(g)'
    <3>1. Total(g) <= maximum_limit
      BY <1>1, <2>2 DEF Shares
    <3>2. \A y \in D : job_previous_rates'[y] <= g[y] + (IOPS_THRESHOLD - 1)
      BY <1>1, <2>3, <2>4 DEF Shares
    <3>3. job_previous_rates'[job] <= g[job] + (IOPS_THRESHOLD - 1)
      BY <2>3, <2>4
    <3> QED
      BY <2>3, <2>4, <3>1, <3>2, <3>3 DEF Shares
  <2> QED
    BY <2>5 DEF WithinShares
<1> QED
  BY <1>2, <1>3

LEMMA FewerJobsShares ==
    ASSUME WithinShares, DOMAIN job_previous_rates \subseteq Jobs,
           NEW kept \in SUBSET DOMAIN job_previous_rates,
           job_previous_rates' = Restrict(job_previous_rates, kept)
    PROVE  WithinShares'
<1> DEFINE D == DOMAIN job_previous_rates
<1>1. PICK r : Shares(r)
  BY DEF WithinShares
<1> DEFINE g == Restrict(r, kept)
<1>2. DOMAIN r = D /\ \A y \in D : r[y] \in Nat
  BY <1>1 DEF Shares
<1>3. g \in [kept -> Nat] /\ DOMAIN g = kept /\ \A y \in kept : g[y] = r[y]
  BY <1>2 DEF Restrict
<1>4. DOMAIN job_previous_rates' = kept
      /\ \A y \in kept : job_previous_rates'[y] = job_previous_rates[y]
  BY DEF Restrict
<1> HIDE DEF g
<1>5. Total(g) <= Total(r) /\ Total(g) \in Int /\ Total(r) \in Int
  <2>1. /\ IsFiniteSet(D) /\ Total(r) = SumFunctionOnSet(r, D) /\ Total(r) \in Int
        /\ IsFiniteSet(kept) /\ Total(g) = SumFunctionOnSet(g, kept) /\ Total(g) \in Int
    BY <1>2, <1>3, JobsSum
  <2>2. SumFunctionOnSet(g, kept) = SumFunctionOnSet(r, kept)
    BY <1>2, <1>3, <2>1, SumSame
  <2>3. SumFunctionOnSet(r, D) = SumFunctionOnSet(r, kept) + SumFunctionOnSet(r, D \ kept)
    BY <1>2, <2>1, SumParts
  <2>4. SumFunctionOnSet(r, D \ kept) \in Nat
    BY <1>2, <2>1, FS_Subset, SumOfNaturals
  <2> QED
    BY <2>1, <2>2, <2>3, <2>4
<1>6. Shares(g)'
  BY <1>1, <1>3, <1>4, <1>5, CoreAssumption DEF Shares
<1> QED
  BY <1>6 DEF WithinShares

LEMMA RoundShares ==
    ASSUME IOPS_THRESHOLD >= 1, maximum_limit >= Len(JobOrder), WithinShares,
           PolicyQueue, RatesTyped,
           DOMAIN job_previous_rates = DOMAIN job_location_tracker,
           ComputeAndEnforceDynamicVanillaRules
    PROVE  WithinShares'
<1> DEFINE jobs == DOMAIN job_location_tracker
<1>1. CASE NothingToEnforce
  BY <1>1 DEF NothingToEnforce, WithinShares, Shares
<1>2. ASSUME jobs # {}, NEW send \in SUBSET jobs,
             \A job \in jobs \ send : BelowThreshold(job, VanillaNow.rates),
             SendEnforcementRules(send, VanillaNow.rates)
      PROVE  WithinShares'
  <2> DEFINE r == VanillaNow.rates
  <2>1. r \in [jobs -> Nat] /\ Total(r) <= maximum_limit
    BY <1>2, VanillaNowIs
  <2>2. job_previous_rates' = [job \in jobs |->
            IF job \in send THEN r[job] ELSE job_previous_rates[job]]
    BY <1>2, PreviousSent
  <2>3. \A job \in jobs \ send : Abs(r[job] - job_previous_rates[job]) < IOPS_THRESHOLD
    BY <1>2 DEF BelowThreshold
  <2> HIDE DEF r
  <2>4. IOPS_THRESHOLD \in Nat
    BY CoreAssumption
  <2>5. \A job \in jobs : job_previous_rates'[job] <= r[job] + (IOPS_THRESHOLD - 1)
    <3> SUFFICES ASSUME NEW job \in jobs
                 PROVE  job_previous_rates'[job] <= r[job] + (IOPS_THRESHOLD - 1)
      OBVIOUS
    <3>1. r[job] \in Nat /\ job_previous_rates[job] \in Int
      BY <2>1 DEF RatesTyped, RateOrNone
    <3>2. CASE job \in send
      BY <2>2, <2>4, <3>1, <3>2
    <3>3. CASE job \notin send
      BY <2>2, <2>3, <2>4, <3>1, <3>3 DEF Abs
    <3> QED
      BY <3>2, <3>3
  <2> QED
    BY <2>1, <2>2, <2>5 DEF WithinShares, Shares
<1> QED
  BY <1>1, <1>2, VanillaSteps

LEMMA SharesLimit ==
    ASSUME IOPS_THRESHOLD >= 1, WithinShares, RatesTyped, DOMAIN job_previous_rates \subseteq Jobs
    PROVE  SystemLimitWithinThreshold
<1> DEFINE D == DOMAIN job_previous_rates
           c == IOPS_THRESHOLD - 1
<1>1. PICK r : Shares(r)
  BY DEF WithinShares
<1> DEFINE g == [job \in D |-> r[job] + c]
<1>2. c \in Int /\ maximum_limit \in Int
  BY CoreAssumption
<1>3. \A job \in D : /\ r[job] \in Int /\ g[job] = r[job] + c /\ g[job] \in Int
                     /\ job_previous_rates[job] \in Int /\ job_previous_rates[job] <= g[job]
  BY <1>1, <1>2 DEF Shares, RatesTyped, RateOrNone
<1>4. DOMAIN r = D
  BY <1>1 DEF Shares
<1>5. /\ IsFiniteSet(D) /\ Total(r) = SumFunctionOnSet(r, D)
      /\ Total(job_previous_rates) = SumFunctionOnSet(job_previous_rates, D)
      /\ Total(r) \in Int /\ Total(job_previous_rates) \in Int
  BY <1>3, <1>4, JobsSum
<1> HIDE DEF g, c
<1>6. SumFunctionOnSet(g, D) = SumFunctionOnSet(r, D) + Cardinality(D) * c
  BY <1>2, <1>3, <1>5, SumRaised
<1>7. SumFunctionOnSet(job_previous_rates, D) <= SumFunctionOnSet(g, D)
  BY <1>3, <1>5, SumLeq
<1>8. Cardinality(D) * c \in Int
  BY <1>2, <1>5, FS_CardinalityType
<1>9. Total(r) <= maximum_limit
  BY <1>1 DEF Shares
<1>10. Total(job_previous_rates) <= maximum_limit + Cardinality(D) * c
  BY <1>2, <1>5, <1>6, <1>7, <1>8, <1>9
<1> QED
  BY <1>10 DEF SystemLimitWithinThreshold, c

LEMMA SharesKept ==
    ASSUME ControlType = "DYNAMIC_VANILLA", maximum_limit >= Len(JobOrder), IOPS_THRESHOLD >= 1,
           Flow, TrackersTyped, PolicyQueue, RatesTyped, WithinShares, [Next]_vars
    PROVE  WithinShares'
<1>1. ASSUME UNCHANGED rates PROVE WithinShares'
  BY <1>1 DEF WithinShares, Shares, rates
<1>2. CASE ~MainLoop
  BY <1>1, <1>2, Environment DEF Next, Outside
<1>3. IOPS_THRESHOLD \in Nat /\ DOMAIN job_previous_rates = DOMAIN job_location_tracker
      /\ DOMAIN job_previous_rates \subseteq Jobs
  BY CoreAssumption DEF TrackersTyped, Flow, Places
<1> SUFFICES ASSUME MainLoop PROVE WithinShares'
  BY <1>2
<1>4. CASE WaitForLocal \/ LoopCondition \/ Exit \/ CallLocalHandshake \/ NoMoreLocalControllers
           \/ NoMoreDataPlanes \/ HandleLocalController \/ MarkDataPlaneStageReady
  BY <1>1, <1>4 DEF WaitForLocal, LoopCondition, Exit, CallLocalHandshake, NoMoreLocalControllers,
                    NoMoreDataPlanes, HandleLocalController, MarkDataPlaneStageReady
<1>5. CASE CollectStatisticsGlobal \/ CollectStatisticsGlobalSend \/ DisconnectLocals
           \/ CollectEnforcementRuleResults \/ EndRound \/ WakeUp
  BY <1>1, <1>5 DEF CollectStatisticsGlobal, CollectStatisticsGlobalSend, DisconnectLocals,
                    CollectEnforcementRuleResults, EndRound, WakeUp
<1>6. CASE ComputeAndEnforceStaticRules \/ ComputeAndEnforceDynamicLeftoverRules
  <2>1. ControlType \in {"STATIC", "DYNAMIC_LEFTOVER"}
    BY <1>6, Zenon DEF ComputeAndEnforceStaticRules, ComputeAndEnforceDynamicLeftoverRules
  <2> QED
    BY <2>1
<1>7. CASE ComputeAndEnforceDynamicVanillaRules
  BY <1>3, <1>7, RoundShares
<1>8. CASE HandleDataPlane
  <2>1. PICK s \in Stages : job_previous_rates' = Emplace(job_previous_rates, JobOf[s], 0)
    BY <1>8, EnteredRates
  <2>2. JobOf[s] \in Jobs
    BY CoreAssumption
  <2> QED
    BY <1>3, <2>1, <2>2, NewJobShares
<1>9. CASE CollectStatisticsResult
  <2>1. CASE UNCHANGED <<trackers, rates, change_in_system>>
    BY <1>1, <2>1
  <2>2. ASSUME NEW lost, RemoveStages(lost) PROVE WithinShares'
    <3>1. PICK jobs \in SUBSET DOMAIN job_location_tracker :
              job_previous_rates' = Restrict(job_previous_rates,
                  DOMAIN job_previous_rates \ (DOMAIN job_location_tracker \ jobs))
      BY <2>2, RemovedRates
    <3> QED
      BY <1>3, <3>1, FewerJobsShares
  <2> QED
    BY <1>9, <2>1, <2>2, AnswerSteps
<1> QED
  BY <1>4, <1>5, <1>6, <1>7, <1>8, <1>9 DEF MainLoop

\* DYNAMIC_VANILLA, with a limit of at least 1 IOPS for each job: the rates last
\* sent never exceed the limit of the system by as much as the threshold for
\* each job, however long rates that change too little are not sent again, and
\* however jobs come and go meanwhile.
\* (compute_and_enforce_dynamic_vanilla_rules and its IOPS_THRESHOLD.)
THEOREM SystemLimitKept ==
    ASSUME ControlType = "DYNAMIC_VANILLA", maximum_limit >= Len(JobOrder), IOPS_THRESHOLD >= 1
    PROVE  SafetySpec => []SystemLimitWithinThreshold
<1>1. Init => WithinShares
  <2> SUFFICES ASSUME Init PROVE WithinShares
    OBVIOUS
  <2>1. job_previous_rates = <<>> /\ DOMAIN <<>> = {} /\ <<>> \in [{} -> Nat]
    BY DEF Init
  <2>2. Total(<<>>) = 0 /\ maximum_limit \in Nat
    BY <2>1, TotalIsSum, SumEmpty, CoreAssumption
  <2>3. Shares(job_previous_rates)
    <3>1. DOMAIN job_previous_rates = {} /\ job_previous_rates \in [{} -> Nat]
      BY <2>1
    <3>2. Total(job_previous_rates) <= maximum_limit
      BY <2>1, <2>2
    <3> QED
      BY <3>1, <3>2 DEF Shares
  <2> QED
    BY <2>3 DEF WithinShares
<1>2. Flow /\ TrackersTyped /\ PolicyQueue /\ RatesTyped /\ WithinShares /\ [Next]_vars
        => WithinShares'
  BY SharesKept
<1>3. Flow /\ TrackersTyped /\ RatesTyped /\ WithinShares => SystemLimitWithinThreshold
  BY SharesLimit DEF Flow, Places, TrackersTyped
<1>4. SafetySpec => []RatesTyped
  BY RatesTypedHolds DEF NoNegativeRates
<1> QED
  BY <1>1, <1>2, <1>3, <1>4, FlowHolds, TrackersTypedHolds, PolicyQueueHolds, PTL DEF SafetySpec
-------------------------------------------------------------------------------
(* The demands, under STATIC.  Between two rounds they are met, or something  *)
(* has come or gone that makes the next round compute the rates anew.         *)

DemandsMet ==
    \A job \in DOMAIN job_location_tracker :
        job_demands[job] # -1 => Abs(job_demands[job] - job_previous_rates[job]) < IOPS_THRESHOLD

DemandsFollowed ==
    /\ DemandsMet \/ change_in_system \/ Failed
    /\ pc \in {"results", "sleep"} => DemandsMet

LEMMA StaticSteps ==
    ASSUME ComputeAndEnforceStaticRules
    PROVE  /\ pc = "compute" /\ ControlType = "STATIC"
           /\ UNCHANGED trackers
           /\ \/ /\ active_locals = 0 /\ NothingToEnforce
                 /\ UNCHANGED <<pending_rules_queue_, job_demands, active_op, change_in_system>>
              \/ /\ active_locals > 0
                 /\ DequeueRule /\ job_demands' = UpdatedDemands /\ change_in_system' = ChangeInRound
                 /\ \/ /\ change_in_system'
                       /\ \E send \in SUBSET DOMAIN job_location_tracker :
                             /\ \A job \in DOMAIN job_location_tracker :
                                   job \in send <=> ~BelowThreshold(job, StaticRates)
                             /\ job_rates' = [job \in DOMAIN StaticRates |->
                                    IF job \in DOMAIN job_location_tracker \ send
                                    THEN -1 ELSE StaticRates[job]]
                             /\ SendEnforcementRules(send, StaticRates)
                    \/ /\ ~change_in_system' \/ DOMAIN job_location_tracker = {}
                       /\ NothingToEnforce
<1> DEFINE jobs == DOMAIN job_location_tracker
           send == {job \in jobs : ~BelowThreshold(job, StaticRates)}
<1>1. /\ pc = "compute" /\ ControlType = "STATIC" /\ UNCHANGED trackers
      /\ \/ /\ active_locals = 0 /\ NothingToEnforce
            /\ UNCHANGED <<pending_rules_queue_, job_demands, active_op, change_in_system>>
         \/ /\ active_locals > 0
            /\ DequeueRule /\ job_demands' = UpdatedDemands /\ change_in_system' = ChangeInRound
            /\ \/ /\ change_in_system'
                  /\ job_rates' = [job \in DOMAIN StaticRates |->
                                     IF job \in jobs \ send THEN -1 ELSE StaticRates[job]]
                  /\ SendEnforcementRules(send, StaticRates)
               \/ /\ ~change_in_system' \/ jobs = {}
                  /\ NothingToEnforce
  BY Zenon DEF ComputeAndEnforceStaticRules, StaticRates
<1>2. send \in SUBSET jobs /\ \A job \in jobs : job \in send <=> ~BelowThreshold(job, StaticRates)
  OBVIOUS
<1> HIDE DEF send
<1> QED
  BY <1>1, <1>2

\* Without an active session no stage is tracked.
LEMMA NothingTracked ==
    ASSUME Flow, Tracking, Counted, FaultStops, TrackedLocalsHaveSessions,
           pc = "compute", active_locals = 0
    PROVE  DOMAIN job_location_tracker = {}
<1>1. local_sessions_ = {}
  BY FS_EmptySet, FS_CardinalityType DEF Counted
<1>2. \A l \in Locals : StagesAt(l) = {}
  BY <1>1 DEF FaultStops, TrackedLocalsHaveSessions
<1> SUFFICES ASSUME NEW job \in DOMAIN job_location_tracker PROVE FALSE
  OBVIOUS
<1>3. job \in Jobs
  BY DEF Flow, Places
<1>4. PICK l \in Locals : l \in DOMAIN job_location_tracker[job]
                          /\ job_location_tracker[job][l] # {}
                          /\ job_location_tracker[job][l] \subseteq Envs
  BY DEF Tracking, TrackersTyped
<1>5. PICK e \in Envs : e \in TrackedEnvs(job, l)
  BY <1>4 DEF TrackedEnvs
<1>6. <<job, e>> \in StagesAt(l)
  BY <1>3, <1>5 DEF Tracking, SameStages
<1> QED
  BY <1>2, <1>6

LEMMA DemandsComputed ==
    ASSUME IOPS_THRESHOLD >= 1, Flow, Tracking, Counted, FaultStops, TrackedLocalsHaveSessions,
           PolicyQueue, RatesTyped, DemandsFollowed, ComputeAndEnforceStaticRules
    PROVE  DemandsMet'
<1> DEFINE jobs == DOMAIN job_location_tracker
<1>1. UNCHANGED job_location_tracker /\ pc = "compute"
  BY StaticSteps DEF trackers
<1>2. jobs = {} => DemandsMet'
  BY <1>1 DEF DemandsMet
<1>3. CASE active_locals = 0
  BY <1>1, <1>2, <1>3, NothingTracked
<1>4. ASSUME job_demands' = UpdatedDemands, change_in_system' = ChangeInRound,
             ~change_in_system', NothingToEnforce
      PROVE  DemandsMet'
  <2>1. ~change_in_system /\ ~NewRule /\ DemandsMet
    BY <1>1, <1>4 DEF ChangeInRound, DemandsFollowed, Failed
  <2>2. UNCHANGED <<job_demands, job_previous_rates>>
    BY <1>4, <2>1 DEF UpdatedDemands, NothingToEnforce
  <2> QED
    BY <1>1, <2>1, <2>2 DEF DemandsMet
<1>5. ASSUME job_demands' = UpdatedDemands, NEW send \in SUBSET jobs,
             \A job \in jobs : job \in send <=> ~BelowThreshold(job, StaticRates),
             SendEnforcementRules(send, StaticRates)
      PROVE  DemandsMet'
  <2> SUFFICES ASSUME NEW job \in jobs, job_demands'[job] # -1
               PROVE  Abs(job_demands'[job] - job_previous_rates'[job]) < IOPS_THRESHOLD
    BY <1>1 DEF DemandsMet
  <2>1. job \in DOMAIN UpdatedDemands /\ UpdatedDemands[job] \in Int
        /\ job \in DOMAIN job_previous_rates
    BY DemandsUpdated DEF RatesTyped, RateOrNone, Tracking, TrackersTyped
  <2>2. StaticRates[job] = job_demands'[job] /\ job_demands'[job] \in Int
    BY <1>5, <2>1, StaticRatesAre
  <2>3. job_previous_rates'[job]
            = IF job \in send THEN StaticRates[job] ELSE job_previous_rates[job]
    BY <1>5, <2>1, PreviousSent
  <2>4. CASE job \in send
    BY <2>2, <2>3, <2>4, CoreAssumption DEF Abs
  <2>5. CASE job \notin send
    BY <1>5, <2>2, <2>3, <2>5 DEF BelowThreshold
  <2> QED
    BY <2>4, <2>5
<1> QED
  BY <1>2, <1>3, <1>4, <1>5, StaticSteps

LEMMA DemandsFollowedKept ==
    ASSUME ControlType = "STATIC", IOPS_THRESHOLD >= 1,
           Flow, Tracking, Counted, FaultStops, TrackedLocalsHaveSessions,
           PolicyQueue, RatesTyped, DemandsFollowed, [Next]_vars
    PROVE  DemandsFollowed'
<1>1. ASSUME UNCHANGED <<job_location_tracker, job_demands, job_previous_rates>>
      PROVE  DemandsMet' = DemandsMet
  BY <1>1 DEF DemandsMet
<1>2. ASSUME UNCHANGED <<job_location_tracker, rates, change_in_system>>,
             Failed => Failed', pc' \in {"results", "sleep"} => pc \in {"results", "sleep"}
      PROVE  DemandsFollowed'
  BY <1>1, <1>2 DEF DemandsFollowed, rates
<1>3. CASE ~MainLoop
  <2>1. UNCHANGED <<trackers, rates, rounds, pc>>
    BY <1>3, Environment DEF Next, Outside
  <2> QED
    BY <1>2, <2>1 DEF trackers, rounds, Failed
<1> SUFFICES ASSUME MainLoop PROVE DemandsFollowed'
  BY <1>3
<1>4. ASSUME WaitForLocal \/ LoopCondition \/ Exit \/ CallLocalHandshake \/ NoMoreLocalControllers
             \/ NoMoreDataPlanes \/ HandleLocalController \/ MarkDataPlaneStageReady
      PROVE  DemandsFollowed'
  BY <1>2, <1>4 DEF WaitForLocal, LoopCondition, Exit, CallLocalHandshake, NoMoreLocalControllers,
                    NoMoreDataPlanes, HandleLocalController, MarkDataPlaneStageReady,
                    trackers, rounds, Failed, Goto
<1>5. ASSUME CollectStatisticsGlobal \/ DisconnectLocals \/ CollectEnforcementRuleResults \/ WakeUp
      PROVE  DemandsFollowed'
  BY <1>2, <1>5 DEF CollectStatisticsGlobal, DisconnectLocals, CollectEnforcementRuleResults,
                    WakeUp, trackers, rounds, Failed, Goto, Crash
<1>6. CASE CollectStatisticsGlobalSend \/ ComputeAndEnforceDynamicVanillaRules
           \/ ComputeAndEnforceDynamicLeftoverRules
  <2>1. ControlType # "STATIC"
    BY <1>6, Zenon DEF CollectStatisticsGlobalSend, ComputeAndEnforceDynamicVanillaRules,
                       ComputeAndEnforceDynamicLeftoverRules
  <2> QED
    BY <2>1
<1>7. CASE EndRound
  <2>1. UNCHANGED <<job_location_tracker, rates>> /\ pc = "results"
    BY <1>7 DEF EndRound, trackers
  <2> QED
    BY <1>1, <2>1 DEF DemandsFollowed, rates
<1>8. CASE ComputeAndEnforceStaticRules
  BY <1>8, DemandsComputed DEF DemandsFollowed
<1>9. CASE HandleDataPlane
  <2>1. change_in_system' = TRUE /\ pc' \in {"stage_ready", "crashed"}
    BY <1>9 DEF HandleDataPlane, Goto, Crash
  <2> QED
    BY <2>1 DEF DemandsFollowed
<1>10. CASE CollectStatisticsResult
  <2>1. pc = "collect" /\ pc' \in {"collect", "crashed"}
    BY <1>10, AnswerSteps
  <2>2. CASE UNCHANGED <<trackers, rates, change_in_system>>
    BY <1>2, <2>1, <2>2 DEF trackers, Failed
  <2>3. ASSUME NEW lost, RemoveStages(lost) PROVE DemandsFollowed'
    <3>1. PICK jobs \in SUBSET DOMAIN job_location_tracker :
              /\ DOMAIN job_location_tracker' = jobs
              /\ job_previous_rates' = Restrict(job_previous_rates,
                     DOMAIN job_previous_rates \ (DOMAIN job_location_tracker \ jobs))
              /\ \A job \in jobs : job_demands'[job] = job_demands[job]
      BY <2>3, RemovedRates
    <3>2. change_in_system => change_in_system'
      BY <2>3 DEF RemoveStages
    <3>3. \A job \in jobs : job_previous_rates'[job] = job_previous_rates[job]
      BY <3>1 DEF Restrict, Tracking, TrackersTyped
    <3>4. DemandsMet => DemandsMet'
      BY <3>1, <3>3 DEF DemandsMet
    <3> QED
      BY <2>1, <3>2, <3>4 DEF DemandsFollowed, Failed
  <2> QED
    BY <1>10, <2>2, <2>3, AnswerSteps
<1> QED
  BY <1>4, <1>5, <1>6, <1>7, <1>8, <1>9, <1>10 DEF MainLoop

\* STATIC: at the end of every round, the rate last sent for each job is within
\* the threshold of its demand, whether its rule or its first stage came first,
\* and whatever was lost or removed meanwhile.  That a round with no active local
\* controller may do nothing rests on trackers that agree, and so on keys that
\* tell the nodes of their stages.
\* (change_in_system in compute_and_enforce_static_rules.)
THEOREM DemandsAreEnforced ==
    ASSUME ControlType = "STATIC", IOPS_THRESHOLD >= 1, KeysTellNodes
    PROVE  SafetySpec => []DemandsEnforced
<1>1. Init => DemandsFollowed
  BY DEF Init, DemandsFollowed, DemandsMet
<1>2. Flow /\ Tracking /\ Counted /\ FaultStops /\ TrackedLocalsHaveSessions
      /\ PolicyQueue /\ RatesTyped /\ DemandsFollowed /\ [Next]_vars
        => DemandsFollowed'
  BY DemandsFollowedKept
<1>3. DemandsFollowed => DemandsEnforced
  BY DEF DemandsFollowed, DemandsMet, DemandsEnforced
<1>4. SafetySpec => []RatesTyped
  BY RatesTypedHolds DEF NoNegativeRates
<1>5. SafetySpec => []Tracking
  BY TrackingHolds
<1> QED
  BY <1>1, <1>2, <1>3, <1>4, <1>5, FlowHolds, CountedAlways, FaultStopsAlways,
     TrackedStagesReachable, PolicyQueueHolds, PTL DEF SafetySpec
-------------------------------------------------------------------------------
(* The rules of the administrator, under STATIC: every demand of a job comes  *)
(* from the last rule about the job that the core has taken, and every limit  *)
(* on its way to a stage, or in force, from the rule that was the last one    *)
(* about the job, and the rule that was the last one of all, when it was sent. *)

\* The last of the first n rules that is about a job bounds its rate.
Bounds(n, job, rate) ==
    \E i \in 1..n :
        /\ Policies[i].job = job /\ rate <= Policies[i].limit
        /\ \A m \in (i + 1)..n : Policies[m].job # job

FromRule(job, rate) == Bounds(Taken, job, rate)

\* It did so when n or fewer rules had been taken, the last of them about op.
Given(n, job, op, rate) == \E k \in 1..n : Bounds(k, job, rate) /\ Policies[k].op = op

\* The operation of the rules sent is that of the last rule taken.
OpFromRules == Taken > 0 => active_op = Policies[Taken].op

\* A job without a demand has no rate, and was never sent one.
RatesFromRules ==
    /\ \A job \in DOMAIN job_demands :
          \/ job_demands[job] # -1 /\ FromRule(job, job_demands[job])
          \/ /\ job_demands[job] = -1
             /\ job \in DOMAIN job_previous_rates => job_previous_rates[job] = 0
    /\ \A job \in DOMAIN job_rates :
          /\ job \in DOMAIN job_demands
          /\ job_rates[job] = -1 \/ job_demands[job] # -1

LEMMA GivenStays ==
    ASSUME NEW m \in Nat, NEW n \in Nat, m <= n
    PROVE  \A job, op, rate : Given(m, job, op, rate) => Given(n, job, op, rate)
  BY DEF Given

\* A rule about another job leaves the bound.
LEMMA BoundsStay ==
    ASSUME NEW n \in Nat, NEW job, NEW rate, Bounds(n, job, rate), Policies[n + 1].job # job
    PROVE  Bounds(n + 1, job, rate)
<1>1. PICK i \in 1..n :
          /\ Policies[i].job = job /\ rate <= Policies[i].limit
          /\ \A m \in (i + 1)..n : Policies[m].job # job
  BY DEF Bounds
<1>2. ASSUME NEW m \in (i + 1)..(n + 1) PROVE Policies[m].job # job
  <2>1. m \in (i + 1)..n \/ m = n + 1
    OBVIOUS
  <2> QED
    BY <1>1, <2>1
<1>3. i \in 1..(n + 1)
  OBVIOUS
<1> QED
  BY <1>1, <1>2, <1>3 DEF Bounds

\* What STATIC bounds in a round that takes a rule, or none.
LEMMA StaticRatesBounded ==
    ASSUME PolicyQueue, RatesTyped, RatesFromRules, DequeueRule, UNCHANGED next_rule
    PROVE  /\ \A job \in DOMAIN UpdatedDemands :
                 \/ UpdatedDemands[job] # -1 /\ Bounds(Taken', job, UpdatedDemands[job])
                 \/ /\ UpdatedDemands[job] = -1
                    /\ job \in DOMAIN job_previous_rates => job_previous_rates[job] = 0
           /\ \A job \in DOMAIN StaticRates :
                 /\ job \in DOMAIN UpdatedDemands
                 /\ \/ StaticRates[job] = -1
                    \/ UpdatedDemands[job] # -1 /\ Bounds(Taken', job, StaticRates[job])
           /\ \A job \in DOMAIN UpdatedDemands :
                 UpdatedDemands[job] = -1 /\ job \in DOMAIN StaticRates => StaticRates[job] = -1
<1>1. Taken \in Nat /\ Taken' = Taken + (IF NewRule THEN 1 ELSE 0) /\ Taken' \in Nat /\ Taken <= Taken'
  <2>1. Taken \in Nat
    BY PoliciesTyped DEF PolicyQueue, Taken
  <2> QED
    BY <2>1, RuleTaken
<1>2. ASSUME NEW job, NEW rate, Bounds(Taken, job, rate),
             NewRule => job # Head(pending_rules_queue_).job
      PROVE  Bounds(Taken', job, rate)
  <2>1. CASE NewRule
    <3>1. Taken' = Taken + 1 /\ Policies[Taken + 1].job # job
      BY <1>1, <1>2, <2>1, RuleTaken
    <3> HIDE DEF Taken
    <3>2. Bounds(Taken + 1, job, rate)
      BY <1>1, <1>2, <3>1, BoundsStay
    <3> QED
      BY <3>1, <3>2
  <2> QED
    BY <1>1, <1>2, <2>1
<1>3. ASSUME NEW job \in DOMAIN UpdatedDemands
      PROVE  \/ UpdatedDemands[job] # -1 /\ Bounds(Taken', job, UpdatedDemands[job])
             \/ /\ UpdatedDemands[job] = -1
                /\ job \in DOMAIN job_demands /\ job_demands[job] = -1
                /\ job \in DOMAIN job_previous_rates => job_previous_rates[job] = 0
  <2>1. CASE /\ job \in DOMAIN job_demands /\ UpdatedDemands[job] = job_demands[job]
             /\ NewRule => job # Head(pending_rules_queue_).job
    BY <1>2, <2>1 DEF RatesFromRules, FromRule
  <2>2. CASE /\ NewRule /\ job = Head(pending_rules_queue_).job
             /\ UpdatedDemands[job] = Head(pending_rules_queue_).limit
    <3> DEFINE rule == Head(pending_rules_queue_)
    <3>1. rule \in PolicyRules /\ rule = Policies[Taken']
          /\ Taken' \in 1..Len(Policies)
      BY <1>1, <2>2, RuleTaken
    <3>2. rule.limit \in Nat
      BY <3>1 DEF PolicyRules
    <3>3. Taken' \in 1..Taken'
      BY <1>1, <2>2
    <3>4. job = Policies[Taken'].job /\ UpdatedDemands[job] = Policies[Taken'].limit
      BY <2>2, <3>1
    <3>5. UpdatedDemands[job] \in Nat
      BY <2>2, <3>2
    <3>6. UpdatedDemands[job] <= Policies[Taken'].limit
      BY <3>4, <3>5
    <3>7. \A m \in (Taken' + 1)..Taken' : Policies[m].job # job
      BY <1>1
    <3> HIDE DEF rule
    <3> QED
      BY <3>3, <3>4, <3>5, <3>6, <3>7 DEF Bounds
  <2> QED
    BY <2>1, <2>2, DemandsUpdated
<1>4. ASSUME NEW job \in DOMAIN StaticRates
      PROVE  /\ job \in DOMAIN UpdatedDemands
             /\ \/ StaticRates[job] = -1
                \/ UpdatedDemands[job] # -1 /\ Bounds(Taken', job, StaticRates[job])
  <2>1. CASE job \in DOMAIN UpdatedDemands /\ StaticRates[job] = UpdatedDemands[job]
    BY <1>3, <2>1
  <2>2. CASE /\ job \in DOMAIN job_rates /\ StaticRates[job] = job_rates[job]
             /\ job \in DOMAIN UpdatedDemands => UpdatedDemands[job] = -1
    <3>1. job \in DOMAIN job_demands /\ job \in DOMAIN UpdatedDemands
      BY <2>2, DemandsUpdated DEF RatesFromRules
    <3>2. job_demands[job] = -1
      BY <1>3, <2>2, <3>1
    <3> QED
      BY <2>2, <3>1, <3>2 DEF RatesFromRules
  <2> QED
    BY <2>1, <2>2, StaticRatesAre
<1> QED
  BY <1>3, <1>4

LEMMA StaticFromRules ==
    ASSUME IOPS_THRESHOLD >= 2, PolicyQueue, RatesTyped, RatesFromRules,
           DOMAIN job_previous_rates = DOMAIN job_location_tracker,
           ComputeAndEnforceStaticRules
    PROVE  RatesFromRules'
<1> DEFINE jobs == DOMAIN job_location_tracker
<1>0. UNCHANGED next_rule
  BY ComputesTake DEF Computes
<1>1. CASE active_locals = 0 /\ NothingToEnforce
           /\ UNCHANGED <<pending_rules_queue_, job_demands, active_op, change_in_system>>
  BY <1>0, <1>1 DEF NothingToEnforce, RatesFromRules, FromRule, Taken
<1> DEFINE New(job) == \/ UpdatedDemands[job] # -1 /\ Bounds(Taken', job, UpdatedDemands[job])
                       \/ /\ UpdatedDemands[job] = -1
                          /\ job \in DOMAIN job_previous_rates => job_previous_rates[job] = 0
<1>2. ASSUME DequeueRule, job_demands' = UpdatedDemands, NothingToEnforce
      PROVE  RatesFromRules'
  <2>1. UNCHANGED <<job_rates, job_previous_rates>>
    BY <1>2 DEF NothingToEnforce
  <2>2. \A job \in DOMAIN UpdatedDemands : New(job)
    BY <1>0, <1>2, StaticRatesBounded
  <2>3. ASSUME NEW job \in DOMAIN job_rates
        PROVE  /\ job \in DOMAIN UpdatedDemands
               /\ job_rates[job] = -1 \/ UpdatedDemands[job] # -1
    <3>1. job \in DOMAIN job_demands /\ job \in DOMAIN UpdatedDemands
      BY DemandsUpdated DEF RatesFromRules
    <3>2. CASE job_rates[job] = -1
      BY <3>1, <3>2
    <3>3. CASE job_demands[job] # -1
      <4>3. UpdatedDemands[job] # -1
        <5>1. CASE UpdatedDemands[job] = job_demands[job]
          BY <3>3, <5>1
        <5>2. CASE NewRule /\ UpdatedDemands[job] = Head(pending_rules_queue_).limit
          <6>1. Head(pending_rules_queue_) \in PolicyRules
            BY <1>0, <1>2, <5>2, RuleTaken
          <6>2. Head(pending_rules_queue_).limit \in Nat
            BY <6>1 DEF PolicyRules
          <6> QED
            BY <5>2, <6>2
        <5> QED
          BY <3>1, <5>1, <5>2, DemandsUpdated
      <4> QED
        BY <3>1, <4>3
    <3> QED
      BY <3>2, <3>3 DEF RatesFromRules
  <2> QED
    BY <1>2, <2>1, <2>2, <2>3 DEF RatesFromRules, FromRule
<1>3. ASSUME DequeueRule, job_demands' = UpdatedDemands, NEW send \in SUBSET jobs,
             \A job \in jobs : job \in send <=> ~BelowThreshold(job, StaticRates),
             job_rates' = [job \in DOMAIN StaticRates |->
                              IF job \in jobs \ send THEN -1 ELSE StaticRates[job]],
             SendEnforcementRules(send, StaticRates)
      PROVE  RatesFromRules'
  <2>1. /\ \A job \in DOMAIN UpdatedDemands : New(job)
        /\ \A job \in DOMAIN StaticRates :
              /\ job \in DOMAIN UpdatedDemands
              /\ \/ StaticRates[job] = -1
                 \/ UpdatedDemands[job] # -1 /\ Bounds(Taken', job, StaticRates[job])
        /\ \A job \in DOMAIN UpdatedDemands :
              UpdatedDemands[job] = -1 /\ job \in DOMAIN StaticRates => StaticRates[job] = -1
    BY <1>0, <1>3, StaticRatesBounded
  <2>2. job_previous_rates' = [job \in jobs |->
            IF job \in send THEN StaticRates[job] ELSE job_previous_rates[job]]
    BY <1>3, PreviousSent
  <2>3. ASSUME NEW job \in jobs, UpdatedDemands[job] = -1
        PROVE  job_previous_rates'[job] = 0
    <3>1. job \in DOMAIN UpdatedDemands /\ job \in DOMAIN StaticRates
      BY DemandsUpdated, StaticRatesAre DEF RatesTyped
    <3>2. StaticRates[job] = -1 /\ job_previous_rates[job] = 0
      BY <2>1, <2>3, <3>1
    <3>3. BelowThreshold(job, StaticRates)
      BY <3>2, CoreAssumption DEF BelowThreshold, Abs
    <3> QED
      BY <1>3, <2>2, <3>2, <3>3
  <2>4. \A job \in DOMAIN job_demands' :
           \/ job_demands'[job] # -1 /\ Bounds(Taken', job, job_demands'[job])
           \/ /\ job_demands'[job] = -1
              /\ job \in DOMAIN job_previous_rates' => job_previous_rates'[job] = 0
    BY <1>3, <2>1, <2>2, <2>3
  <2>5. \A job \in DOMAIN job_rates' :
           /\ job \in DOMAIN job_demands'
           /\ job_rates'[job] = -1 \/ job_demands'[job] # -1
    BY <1>3, <2>1
  <2> QED
    BY <2>4, <2>5 DEF RatesFromRules, FromRule
<1> QED
  BY <1>1, <1>2, <1>3, StaticSteps

LEMMA EnteredFromRules ==
    ASSUME RatesTyped, RatesFromRules, DOMAIN job_previous_rates = DOMAIN job_location_tracker,
           Taken' = Taken, HandleDataPlane
    PROVE  RatesFromRules'
<1> DEFINE job == JobOf[Head(local_to_data_queue_)]
<1>1. /\ job_previous_rates' = Emplace(job_previous_rates, job, 0)
      /\ job_demands' = Emplace(job_demands, job, -1)
      /\ job_rates' = Emplace(job_rates, job, -1)
  BY DEF HandleDataPlane
<1> HIDE DEF job
<1>2. ASSUME NEW f, NEW v
      PROVE  /\ DOMAIN Emplace(f, job, v) = DOMAIN f \cup {job}
             /\ \A j \in DOMAIN f : Emplace(f, job, v)[j] = f[j]
             /\ job \notin DOMAIN f => Emplace(f, job, v)[job] = v
  BY DEF Emplace, Put
<1>3. /\ DOMAIN job_demands' = DOMAIN job_demands \cup {job}
      /\ \A j \in DOMAIN job_demands : job_demands'[j] = job_demands[j]
      /\ job \notin DOMAIN job_demands => job_demands'[job] = -1
  BY <1>1, <1>2
<1>4. /\ DOMAIN job_rates' = DOMAIN job_rates \cup {job}
      /\ \A j \in DOMAIN job_rates : job_rates'[j] = job_rates[j]
      /\ job \notin DOMAIN job_rates => job_rates'[job] = -1
  BY <1>1, <1>2
<1>5. /\ DOMAIN job_previous_rates' = DOMAIN job_previous_rates \cup {job}
      /\ \A j \in DOMAIN job_previous_rates : job_previous_rates'[j] = job_previous_rates[j]
      /\ job \notin DOMAIN job_previous_rates => job_previous_rates'[job] = 0
  BY <1>1, <1>2
<1>6. DOMAIN job_previous_rates \subseteq DOMAIN job_demands
  BY DEF RatesTyped
<1>7. ASSUME NEW j \in DOMAIN job_demands'
      PROVE  \/ job_demands'[j] # -1 /\ Bounds(Taken', j, job_demands'[j])
             \/ /\ job_demands'[j] = -1
                /\ j \in DOMAIN job_previous_rates' => job_previous_rates'[j] = 0
  <2>1. CASE j \in DOMAIN job_demands
    BY <1>3, <1>5, <2>1 DEF RatesFromRules, FromRule
  <2>2. CASE j = job /\ j \notin DOMAIN job_demands
    BY <1>3, <1>5, <1>6, <2>2
  <2> QED
    BY <1>3, <2>1, <2>2
<1>8. ASSUME NEW j \in DOMAIN job_rates'
      PROVE  /\ j \in DOMAIN job_demands'
             /\ job_rates'[j] = -1 \/ job_demands'[j] # -1
  <2>1. CASE j \in DOMAIN job_rates
    BY <1>3, <1>4, <2>1 DEF RatesFromRules, FromRule
  <2>2. CASE j = job /\ j \notin DOMAIN job_rates
    BY <1>3, <1>4, <2>2
  <2> QED
    BY <1>4, <2>1, <2>2
<1> QED
  BY <1>7, <1>8 DEF RatesFromRules, FromRule

LEMMA RemovedFromRules ==
    ASSUME RatesFromRules, Taken' = Taken, NEW lost, RemoveStages(lost)
    PROVE  RatesFromRules'
<1>1. PICK gone :
          /\ job_demands' = Restrict(job_demands, DOMAIN job_demands \ gone)
          /\ job_rates' = Restrict(job_rates, DOMAIN job_rates \ gone)
          /\ job_previous_rates' = Restrict(job_previous_rates, DOMAIN job_previous_rates \ gone)
  BY DEF RemoveStages
<1>2. /\ DOMAIN job_demands' = DOMAIN job_demands \ gone
      /\ \A job \in DOMAIN job_demands' : job_demands'[job] = job_demands[job]
  BY <1>1 DEF Restrict
<1>3. /\ DOMAIN job_rates' = DOMAIN job_rates \ gone
      /\ \A job \in DOMAIN job_rates' : job_rates'[job] = job_rates[job]
  BY <1>1 DEF Restrict
<1>4. /\ DOMAIN job_previous_rates' = DOMAIN job_previous_rates \ gone
      /\ \A job \in DOMAIN job_previous_rates' : job_previous_rates'[job] = job_previous_rates[job]
  BY <1>1 DEF Restrict
<1> QED
  BY <1>2, <1>3, <1>4 DEF RatesFromRules, FromRule

LEMMA RatesFromRulesKept ==
    ASSUME ControlType = "STATIC", IOPS_THRESHOLD >= 2,
           Flow, TrackersTyped, PolicyQueue, RatesTyped, RatesFromRules, [Next]_vars
    PROVE  RatesFromRules'
<1>1. ASSUME UNCHANGED rates, Taken' = Taken PROVE RatesFromRules'
  BY <1>1 DEF RatesFromRules, FromRule, rates
<1>2. CASE ~MainLoop
  <2>1. UNCHANGED rates
    BY <1>2, Environment DEF Next, Outside
  <2>2. ~Computes
    BY <1>2 DEF MainLoop, Computes
  <2> QED
    BY <1>1, <2>1, <2>2, PolicyQueueKept
<1>3. DOMAIN job_previous_rates = DOMAIN job_location_tracker
  BY DEF TrackersTyped
<1> SUFFICES ASSUME MainLoop PROVE RatesFromRules'
  BY <1>2
<1>6. CASE ComputeAndEnforceDynamicVanillaRules \/ ComputeAndEnforceDynamicLeftoverRules
  <2>1. ControlType # "STATIC"
    BY <1>6, Zenon DEF ComputeAndEnforceDynamicVanillaRules, ComputeAndEnforceDynamicLeftoverRules
  <2> QED
    BY <2>1
<1>7. CASE ComputeAndEnforceStaticRules
  BY <1>3, <1>7, StaticFromRules
<1> SUFFICES ASSUME ~Computes PROVE RatesFromRules'
  BY <1>6, <1>7 DEF Computes
<1>10. Taken' = Taken
  BY PolicyQueueKept
<1>4. CASE WaitForLocal \/ LoopCondition \/ Exit \/ CallLocalHandshake \/ NoMoreLocalControllers
           \/ NoMoreDataPlanes \/ HandleLocalController \/ MarkDataPlaneStageReady
  BY <1>1, <1>4, <1>10 DEF WaitForLocal, LoopCondition, Exit, CallLocalHandshake, NoMoreLocalControllers,
                    NoMoreDataPlanes, HandleLocalController, MarkDataPlaneStageReady
<1>5. CASE CollectStatisticsGlobal \/ CollectStatisticsGlobalSend \/ DisconnectLocals
           \/ CollectEnforcementRuleResults \/ EndRound \/ WakeUp
  BY <1>1, <1>5, <1>10 DEF CollectStatisticsGlobal, CollectStatisticsGlobalSend, DisconnectLocals,
                    CollectEnforcementRuleResults, EndRound, WakeUp
<1>8. CASE HandleDataPlane
  BY <1>3, <1>8, <1>10, EnteredFromRules
<1>9. CASE CollectStatisticsResult
  <2>1. CASE UNCHANGED <<trackers, rates, change_in_system>>
    BY <1>1, <1>10, <2>1
  <2> QED
    BY <1>9, <1>10, <2>1, AnswerSteps, RemovedFromRules
<1> QED
  BY <1>4, <1>5, <1>8, <1>9 DEF MainLoop, Computes

\* The requests of a session that have no answer yet.
Requests(q) == ToSet(q.submission) \cup ToSet(q.sending)

LEMMA ListElements ==
    ASSUME NEW s, List(s), NEW e
    PROVE  /\ ToSet(Append(s, e)) = ToSet(s) \cup {e}
           /\ s # <<>> => ToSet(s) = {Head(s)} \cup ToSet(Tail(s))
           /\ \A i \in 1..Len(s) : s[i] \in ToSet(s)
<1>1. PICK R : s \in Seq(R)
  BY DEF List
<1>2. Len(s) \in Nat /\ ToSet(s) = {s[i] : i \in 1..Len(s)}
  BY <1>1 DEF ToSet
<1>3. ToSet(Append(s, e)) = ToSet(s) \cup {e}
  <2> DEFINE t == Append(s, e)
  <2>1. s \in Seq(R \cup {e})
    BY <1>1, SeqMonotonic
  <2>2. /\ DOMAIN t = 1..(Len(s) + 1) /\ t[Len(s) + 1] = e
        /\ \A i \in 1..Len(s) : t[i] = s[i]
    BY <2>1
  <2>3. 1..(Len(s) + 1) = (1..Len(s)) \cup {Len(s) + 1}
    BY <1>2
  <2> HIDE DEF t
  <2> QED
    BY <1>2, <2>2, <2>3 DEF ToSet, t
<1>4. ASSUME s # <<>> PROVE ToSet(s) = {Head(s)} \cup ToSet(Tail(s))
  <2>1. /\ Head(s) = s[1] /\ Len(s) > 0 /\ DOMAIN Tail(s) = 1..(Len(s) - 1)
        /\ \A i \in 1..(Len(s) - 1) : Tail(s)[i] = s[i + 1]
    BY <1>1, <1>4, EmptySeq, HeadTailProperties
  <2> DEFINE n == Len(s)
             rest == Tail(s)
  <2>2. 1 \in 1..n /\ \A i \in 1..(n - 1) : i + 1 \in 1..n
    BY <1>2, <2>1
  <2>3. \A i \in 1..n : i = 1 \/ (i - 1 \in 1..(n - 1) /\ (i - 1) + 1 = i)
    BY <1>2, <2>1
  <2>4. ToSet(rest) = {rest[i] : i \in 1..(n - 1)} /\ ToSet(s) = {s[i] : i \in 1..n}
    BY <1>2, <2>1 DEF ToSet
  <2>5. \A i \in 1..n : i = 1 \/ (i - 1 \in 1..(n - 1) /\ s[i] = rest[i - 1])
    BY <2>1, <2>3
  <2>6. s[1] = Head(s) /\ \A i \in 1..(n - 1) : rest[i] = s[i + 1]
    BY <2>1
  <2> HIDE DEF n, rest
  <2>7. ToSet(s) \subseteq {Head(s)} \cup ToSet(rest)
    BY <2>4, <2>5, <2>6
  <2>8. {Head(s)} \cup ToSet(rest) \subseteq ToSet(s)
    BY <2>2, <2>4, <2>6
  <2> QED
    BY <2>7, <2>8 DEF rest
<1> QED
  BY <1>2, <1>3, <1>4

LEMMA ConcatElements ==
    ASSUME NEW s, List(s), NEW t, List(t)
    PROVE  ToSet(s \o t) = ToSet(s) \cup ToSet(t)
<1>1. PICK R : s \in Seq(R)
  BY DEF List
<1>2. PICK T : t \in Seq(T)
  BY DEF List
<1>3. s \in Seq(R \cup T) /\ t \in Seq(R \cup T)
  BY <1>1, <1>2, SeqMonotonic
<1> DEFINE u == s \o t
<1>4. /\ Len(s) \in Nat /\ Len(t) \in Nat
      /\ DOMAIN s = 1..Len(s) /\ DOMAIN t = 1..Len(t) /\ DOMAIN u = 1..(Len(s) + Len(t))
      /\ \A i \in 1..(Len(s) + Len(t)) : u[i] = IF i <= Len(s) THEN s[i] ELSE t[i - Len(s)]
  BY <1>3, ConcatProperties
<1> HIDE DEF u
<1>5. ASSUME NEW i \in 1..(Len(s) + Len(t)) PROVE u[i] \in ToSet(s) \cup ToSet(t)
  <2>1. CASE i <= Len(s)
    <3>1. i \in 1..Len(s) /\ u[i] = s[i]
      BY <1>4, <2>1
    <3> QED
      BY <1>4, <3>1 DEF ToSet
  <2>2. CASE ~(i <= Len(s))
    <3>1. i - Len(s) \in 1..Len(t) /\ u[i] = t[i - Len(s)]
      BY <1>4, <2>2
    <3> QED
      BY <1>4, <3>1 DEF ToSet
  <2> QED
    BY <2>1, <2>2
<1>6. ToSet(s) \subseteq ToSet(u)
  <2>1. \A i \in 1..Len(s) : i \in 1..(Len(s) + Len(t)) /\ u[i] = s[i]
    BY <1>4
  <2> QED
    BY <1>4, <2>1 DEF ToSet
<1>7. ToSet(t) \subseteq ToSet(u)
  <2> DEFINE n == Len(s)
  <2>1. ASSUME NEW i \in 1..Len(t)
        PROVE  n + i \in 1..(n + Len(t)) /\ u[n + i] = t[i]
    <3>1. n + i \in 1..(n + Len(t)) /\ ~(n + i <= n) /\ (n + i) - n = i
      BY <1>4
    <3> QED
      BY <1>4, <3>1
  <2> HIDE DEF n
  <2> QED
    BY <1>4, <2>1 DEF ToSet, n
<1>8. ToSet(u) \subseteq ToSet(s) \cup ToSet(t)
  BY <1>4, <1>5 DEF ToSet
<1> QED
  BY <1>6, <1>7, <1>8 DEF u

LEMMA RemovedElements ==
    ASSUME NEW s, List(s), NEW i \in 1..Len(s)
    PROVE  /\ ToSet(RemoveAt(s, i)) \subseteq ToSet(s)
           /\ ToSet(s) \subseteq ToSet(RemoveAt(s, i)) \cup {s[i]}
<1>1. PICK R : s \in Seq(R)
  BY DEF List
<1>2. s \in Seq(ToSet(s)) /\ Len(s) \in Nat
  <2>1. \A k \in 1..Len(s) : s[k] \in ToSet(s)
    BY <1>1 DEF ToSet
  <2>2. s = [k \in 1..Len(s) |-> s[k]] /\ Len(s) \in Nat
    BY <1>1
  <2>3. s \in [1..Len(s) -> ToSet(s)]
    BY <2>1, <2>2, Zenon
  <2> QED
    BY <2>2, <2>3, SeqDef
<1> DEFINE a == SubSeq(s, 1, i - 1)
           b == SubSeq(s, i + 1, Len(s))
<1>3. a \in Seq(ToSet(s))
  <2>1. 1 \in Int /\ i - 1 \in Int /\ \A k \in 1..(i - 1) : s[k] \in ToSet(s)
    BY <1>2
  <2> QED
    BY <2>1, SubSeqProperties
<1>4. b \in Seq(ToSet(s))
  <2>1. i + 1 \in Int /\ Len(s) \in Int /\ \A k \in (i + 1)..Len(s) : s[k] \in ToSet(s)
    BY <1>2
  <2> QED
    BY <2>1, SubSeqProperties
<1> HIDE DEF a, b
<1>5. a \o b \in Seq(ToSet(s))
  BY <1>3, <1>4, ConcatProperties
<1>6. RemoveAt(s, i) = a \o b
  BY DEF RemoveAt, a, b
<1>7. \A t \in Seq(ToSet(s)) : ToSet(t) \subseteq ToSet(s)
  BY DEF ToSet
<1>8. ToSet(a \o b) = ToSet(a) \cup ToSet(b)
  BY <1>3, <1>4, ConcatElements DEF List
<1>9. ASSUME NEW k \in 1..Len(s), k # i PROVE s[k] \in ToSet(a) \cup ToSet(b)
  <2>1. CASE k < i
    <3>1. k \in 1..(i - 1) /\ i - 1 <= Len(s)
      BY <1>2, <2>1
    <3>2. k \in DOMAIN a /\ a[k] = s[k]
      BY <1>1, <1>2, <3>1 DEF a
    <3> QED
      BY <3>2 DEF ToSet
  <2>2. CASE k > i
    <3>1. k - i \in 1..(Len(s) - i) /\ i + 1 + (k - i) - 1 = k
      BY <1>2, <2>2
    <3>2. k - i \in DOMAIN b /\ b[k - i] = s[k]
      BY <1>1, <1>2, <3>1 DEF b
    <3> QED
      BY <3>2 DEF ToSet
  <2> QED
    BY <1>2, <1>9, <2>1, <2>2
<1>10. ToSet(s) \subseteq ToSet(a \o b) \cup {s[i]}
  <2>1. ToSet(s) = {s[k] : k \in 1..Len(s)}
    BY <1>1 DEF ToSet
  <2> QED
    BY <1>8, <1>9, <2>1
<1> QED
  BY <1>5, <1>6, <1>7, <1>10

\* What the steps do to the requests of one session.
LEMMA RequestsAre ==
    ASSUME NEW q, NEW a, NEW b, NEW c, NEW d,
           q = [submission |-> a, sending |-> b, completion |-> c, threads |-> d]
    PROVE  Requests(q) = ToSet(a) \cup ToSet(b)
<1>1. q.submission = a /\ q.sending = b
  OBVIOUS
<1> QED
  BY <1>1, Zenon DEF Requests

LEMMA SubmitRequests ==
    ASSUME NEW l, NEW q, SessionTyped(l, q), NEW requests, List(requests)
    PROVE  Requests([q EXCEPT !.submission = @ \o requests]) = Requests(q) \cup ToSet(requests)
<1>1. PICK a, b, c, d : Fields(l, q, a, b, c, d)
  BY SessionParts
<1> DEFINE more == a \o requests
           r == [q EXCEPT !.submission = @ \o requests]
<1>2. r = [submission |-> more, sending |-> b, completion |-> c, threads |-> d]
  <2>1. r = [q EXCEPT !.submission = more]
    BY <1>1 DEF Fields
  <2> HIDE DEF r, more
  <2> QED
    BY <1>1, <2>1 DEF Fields
<1>3. ToSet(more) = ToSet(a) \cup ToSet(requests)
  BY <1>1, ConcatElements DEF Fields
<1> HIDE DEF r, more
<1>4. Requests(r) = ToSet(more) \cup ToSet(b) /\ Requests(q) = ToSet(a) \cup ToSet(b)
  BY <1>1, <1>2, RequestsAre DEF Fields
<1>5. Requests(r) = Requests(q) \cup ToSet(requests)
  BY <1>3, <1>4
<1> QED
  BY <1>5 DEF r

LEMMA SendRequests ==
    ASSUME NEW l, NEW q, SessionTyped(l, q), q.submission # <<>>
    PROVE  Requests([q EXCEPT !.submission = Tail(@), !.sending = Append(@, Head(q.submission))])
               = Requests(q)
<1>1. PICK a, b, c, d : Fields(l, q, a, b, c, d)
  BY SessionParts
<1> DEFINE rest == Tail(a)
           more == Append(b, Head(a))
           r == [q EXCEPT !.submission = Tail(@), !.sending = Append(@, Head(q.submission))]
<1>2. r = [submission |-> rest, sending |-> more, completion |-> c, threads |-> d]
  <2>1. r = [q EXCEPT !.submission = rest, !.sending = more]
    BY <1>1 DEF Fields
  <2> HIDE DEF r, rest, more
  <2> QED
    BY <1>1, <2>1 DEF Fields
<1>3. ToSet(a) = {Head(a)} \cup ToSet(rest)
      /\ ToSet(more) = ToSet(b) \cup {Head(a)}
  BY <1>1, ListElements DEF Fields
<1> HIDE DEF r, rest, more
<1>4. Requests(r) = ToSet(rest) \cup ToSet(more) /\ Requests(q) = ToSet(a) \cup ToSet(b)
  BY <1>1, <1>2, RequestsAre DEF Fields
<1>5. Requests(r) = Requests(q)
  BY <1>3, <1>4
<1> QED
  BY <1>5 DEF r

LEMMA RespondRequests ==
    ASSUME NEW l, NEW q, SessionTyped(l, q), NEW i \in 1..Len(q.sending), NEW response
    PROVE  /\ Requests(WithResponse(q, i, response)) \subseteq Requests(q)
           /\ Requests(q) \subseteq Requests(WithResponse(q, i, response)) \cup {q.sending[i]}
           /\ q.sending[i] \in Requests(q)
<1>1. PICK a, b, c, d : Fields(l, q, a, b, c, d)
  BY SessionParts
<1> DEFINE rest == RemoveAt(b, i)
           more == Append(c, response)
           r == WithResponse(q, i, response)
<1>2. r = [submission |-> a, sending |-> rest, completion |-> more, threads |-> d]
  <2>1. r = [q EXCEPT !.sending = rest, !.completion = more]
    BY <1>1 DEF WithResponse, Fields
  <2> HIDE DEF r, rest, more
  <2> QED
    BY <1>1, <2>1 DEF Fields
<1>3. /\ ToSet(rest) \subseteq ToSet(b) /\ q.sending[i] \in ToSet(b)
      /\ ToSet(b) \subseteq ToSet(rest) \cup {q.sending[i]}
  BY <1>1, RemovedElements, ListElements DEF Fields
<1> HIDE DEF r, rest, more
<1>4. Requests(r) = ToSet(a) \cup ToSet(rest) /\ Requests(q) = ToSet(a) \cup ToSet(b)
  BY <1>1, <1>2, RequestsAre DEF Fields
<1>5. /\ Requests(r) \subseteq Requests(q) /\ q.sending[i] \in Requests(q)
      /\ Requests(q) \subseteq Requests(r) \cup {q.sending[i]}
  BY <1>3, <1>4
<1> QED
  BY <1>5 DEF r

LEMMA PopRequests ==
    ASSUME NEW l, NEW q, SessionTyped(l, q)
    PROVE  Requests([q EXCEPT !.completion = Tail(@)]) = Requests(q)
<1>1. PICK a, b, c, d : Fields(l, q, a, b, c, d)
  BY SessionParts
<1> DEFINE rest == Tail(q.completion)
           r == [q EXCEPT !.completion = Tail(@)]
<1>2. r = [submission |-> a, sending |-> b, completion |-> rest, threads |-> d]
  <2>1. r = [q EXCEPT !.completion = rest]
    OBVIOUS
  <2> HIDE DEF r, rest
  <2> QED
    BY <1>1, <2>1 DEF Fields
<1> HIDE DEF r, rest
<1>3. Requests(r) = Requests(q)
  <2>1. Requests(r) = ToSet(a) \cup ToSet(b)
    BY <1>2, RequestsAre
  <2>2. Requests(q) = ToSet(a) \cup ToSet(b)
    BY <1>1, RequestsAre DEF Fields
  <2> QED
    BY <2>1, <2>2, Zenon
<1> QED
  BY <1>3 DEF r

LEMMA GreetRequests ==
    ASSUME NEW l, NEW q, SessionTyped(l, q)
    PROVE  Requests([q EXCEPT !.threads = @ + 1, !.submission = Append(@, LocalHandshake)])
               = Requests(q) \cup {LocalHandshake}
<1>1. PICK a, b, c, d : Fields(l, q, a, b, c, d)
  BY SessionParts
<1> DEFINE more == Append(a, LocalHandshake)
           threads == q.threads + 1
           r == [q EXCEPT !.threads = @ + 1, !.submission = Append(@, LocalHandshake)]
<1>2. r = [submission |-> more, sending |-> b, completion |-> c, threads |-> threads]
  <2>1. r = [q EXCEPT !.threads = threads, !.submission = more]
    BY <1>1 DEF Fields
  <2> HIDE DEF r, more, threads
  <2> QED
    BY <1>1, <2>1 DEF Fields
<1>3. ToSet(more) = ToSet(a) \cup {LocalHandshake}
  BY <1>1, ListElements DEF Fields
<1> HIDE DEF r, more, threads
<1>4. Requests(r) = Requests(q) \cup {LocalHandshake}
  BY <1>1, <1>2, <1>3, RequestsAre DEF Fields
<1> QED
  BY <1>4 DEF r

\* What one step adds to the requests without an answer is not about rates,
\* unless it computes them, and not about a stage, unless it handles one.
Harmless(r) ==
    /\ r.type # "CREATE_ENF_RULE"
    /\ r.type = "STAGE_READY" => HandleDataPlane

NoNewRules(l) == \A r \in Requests(session[l])' : r \in Requests(session[l]) \/ Harmless(r)

LEMMA HarmlessRequests ==
    /\ Harmless(LocalHandshake) /\ Harmless(CollectStats)
    /\ HandleDataPlane => \A s : Harmless(StageReady(s))
  BY DEF Harmless, LocalHandshake, CollectStats, StageReady

LEMMA OneSession ==
    ASSUME SessionsTyped, NEW l \in Locals, NEW r, session' = [session EXCEPT ![l] = r],
           \A x \in Requests(r) : x \in Requests(session[l]) \/ Harmless(x)
    PROVE  \A m \in Locals : NoNewRules(m)
<1> SUFFICES ASSUME NEW m \in Locals PROVE NoNewRules(m)
  OBVIOUS
<1>1. session'[m] = IF m = l THEN r ELSE session[m]
  BY DEF SessionsTyped
<1> QED
  BY <1>1 DEF NoNewRules

LEMMA SessionStepRequests ==
    ASSUME SessionsTyped, NEW l \in Locals, SessionSend(l) \/ SessionReply(l)
    PROVE  \A m \in Locals : NoNewRules(m)
<1> DEFINE q == session[l]
<1>1. SessionTyped(l, q)
  BY DEF SessionsTyped
<1>2. CASE SessionSend(l)
  <2> DEFINE r == [q EXCEPT !.submission = Tail(@), !.sending = Append(@, Head(q.submission))]
  <2>1. session' = [session EXCEPT ![l] = r] /\ q.submission # <<>>
    BY <1>2 DEF SessionSend, SessionsTyped
  <2>2. Requests(r) \subseteq Requests(q)
    <3> HIDE DEF q
    <3> QED
      BY <1>1, <2>1, SendRequests
  <2> HIDE DEF r
  <2> QED
    BY <2>1, <2>2, OneSession
<1>3. CASE SessionReply(l)
  <2>1. PICK i \in 1..Len(q.sending) : \E response : Respond(l, i, response)
    BY <1>3, Zenon DEF SessionReply, CallFails, HandleLocalHandshake, MarkStageReady,
                       CollectGlobalStatistics, CreateEnforcementRule
  <2>2. PICK response : Respond(l, i, response)
    BY <2>1
  <2> DEFINE r == WithResponse(q, i, response)
  <2>3. session' = [session EXCEPT ![l] = r]
    BY <2>2 DEF Respond, WithResponse, SessionsTyped
  <2>4. Requests(r) \subseteq Requests(q)
    <3> HIDE DEF q
    <3> QED
      BY <1>1, RespondRequests
  <2> HIDE DEF r
  <2> QED
    BY <2>3, <2>4, OneSession
<1> QED
  BY <1>2, <1>3

LEMMA LoopStepRequests ==
    ASSUME Flow, MainLoop, ~Computes
    PROVE  \A m \in Locals : NoNewRules(m)
<1> DEFINE Goal == \A m \in Locals : NoNewRules(m)
<1>0. SessionsTyped
  BY DEF Flow
<1>1. ASSUME UNCHANGED session PROVE Goal
  BY <1>1 DEF NoNewRules
<1>2. ASSUME NEW l \in Locals, session' = PopAnswer(l) PROVE Goal
  <2> DEFINE q == session[l]
             r == [q EXCEPT !.completion = Tail(@)]
  <2>1. session' = [session EXCEPT ![l] = r]
    BY <1>0, <1>2 DEF PopAnswer, SessionsTyped
  <2>2. Requests(r) = Requests(q)
    <3>1. SessionTyped(l, q)
      BY <1>0 DEF SessionsTyped
    <3> HIDE DEF q
    <3> QED
      BY <3>1, PopRequests
  <2> HIDE DEF r
  <2> QED
    BY <1>0, <2>1, <2>2, OneSession
<1>3. ASSUME NEW l \in Locals, NEW x, Harmless(x), session' = Submit(l, <<x>>) PROVE Goal
  <2> DEFINE q == session[l]
             s == <<x>>
             r == [q EXCEPT !.submission = @ \o s]
  <2>1. List(s) /\ ToSet(s) = {x}
    BY OneList DEF ToSet
  <2>2. Requests(r) \subseteq Requests(q) \cup ToSet(s)
    <3>1. SessionTyped(l, q)
      BY <1>0 DEF SessionsTyped
    <3> HIDE DEF q, s
    <3> QED
      BY <2>1, <3>1, SubmitRequests
  <2>3. session' = [session EXCEPT ![l] = r]
    <3> HIDE DEF s
    <3>1. session' = Submit(l, s)
      BY <1>3 DEF s
    <3> QED
      BY <1>0, <3>1 DEF Submit, SessionsTyped
  <2> HIDE DEF r, s
  <2> QED
    BY <1>0, <1>3, <2>1, <2>2, <2>3, OneSession
<1>4. ASSUME NEW some, session' = Request(some) PROVE Goal
  <2> SUFFICES ASSUME NEW m \in Locals PROVE NoNewRules(m)
    OBVIOUS
  <2> DEFINE q == session[m]
             s == <<CollectStats>>
             r == [q EXCEPT !.submission = @ \o s]
  <2>1. List(s) /\ ToSet(s) = {CollectStats}
    BY OneList DEF ToSet
  <2>2. Requests(r) \subseteq Requests(q) \cup ToSet(s)
    <3>1. SessionTyped(m, q)
      BY <1>0 DEF SessionsTyped
    <3> HIDE DEF q, s
    <3> QED
      BY <2>1, <3>1, SubmitRequests
  <2>3. Submit(m, s)[m] = r
    <3> HIDE DEF s
    <3> QED
      BY <1>0 DEF Submit, SessionsTyped
  <2>4. session'[m] = IF m \in some THEN r ELSE q
    BY <1>4, <2>3 DEF Request
  <2> HIDE DEF r, s
  <2> QED
    BY <2>1, <2>2, <2>4, HarmlessRequests DEF NoNewRules
<1>5. ASSUME HandleLocalController PROVE Goal
  <2> DEFINE l == Head(local_queue)
             q == session[l]
             r == [q EXCEPT !.threads = @ + 1, !.submission = Append(@, LocalHandshake)]
  <2>1. l \in Locals
    BY <1>5, HeadTailProperties DEF HandleLocalController, Flow, Places
  <2>2. session' = [session EXCEPT ![l] = r]
    BY <1>0, <1>5, <2>1 DEF HandleLocalController, SessionsTyped
  <2>3. Requests(r) = Requests(q) \cup {LocalHandshake}
    <3>1. SessionTyped(l, q)
      BY <1>0, <2>1 DEF SessionsTyped
    <3> HIDE DEF q
    <3> QED
      BY <3>1, GreetRequests
  <2> HIDE DEF r, l
  <2>4. \A x \in Requests(r) : x \in Requests(session[l]) \/ Harmless(x)
    BY <2>3, HarmlessRequests
  <2> QED
    BY <1>0, <2>1, <2>2, <2>4, OneSession
<1>6. ASSUME HandleDataPlane PROVE Goal
  <2> DEFINE s == Head(local_to_data_queue_)
  <2>1. s \in Stages /\ LocalOf[s] \in Locals
    <3>1. s \in Stages
      BY <1>6, HeadTailProperties DEF HandleDataPlane, Flow, Places
    <3> QED
      BY <3>1, CoreAssumption
  <2>2. UNCHANGED session \/ session' = Submit(LocalOf[s], <<StageReady(s)>>)
    BY <1>6 DEF HandleDataPlane
  <2> HIDE DEF s, Goal
  <2> QED
    BY <1>1, <1>3, <1>6, <2>1, <2>2, HarmlessRequests
<1>7. ASSUME NEW w \in todo, session' = PopAnswer(w[1]) PROVE Goal
  <2>1. w[1] \in Locals
    BY DEF Flow, Places
  <2> HIDE DEF Goal
  <2> QED
    BY <1>2, <1>7, <2>1
<1>8. ASSUME DisconnectLocals PROVE Goal
  <2>1. session' = [l \in Locals |-> IF l \in sessions_to_delete THEN Idle ELSE session[l]]
    BY <1>8 DEF DisconnectLocals
  <2>2. Requests(Idle) = {}
    BY DEF Requests, Idle, ToSet
  <2>3. ASSUME NEW m \in Locals PROVE NoNewRules(m)
    <3>1. session'[m] = IF m \in sessions_to_delete THEN Idle ELSE session[m]
      BY <2>1
    <3> QED
      BY <2>2, <3>1 DEF NoNewRules
  <2> QED
    BY <2>3
<1> HIDE DEF Goal
<1>9. ASSUME WaitForLocal \/ LoopCondition \/ Exit \/ NoMoreLocalControllers \/ NoMoreDataPlanes
             \/ EndRound \/ WakeUp
      PROVE  Goal
  BY <1>1, <1>9 DEF WaitForLocal, LoopCondition, Exit, NoMoreLocalControllers, NoMoreDataPlanes,
                    EndRound, WakeUp
<1>10. ASSUME CallLocalHandshake \/ MarkDataPlaneStageReady \/ CollectEnforcementRuleResults
       PROVE  Goal
  BY <1>7, <1>10 DEF CallLocalHandshake, MarkDataPlaneStageReady, CollectEnforcementRuleResults
<1>11. ASSUME CollectStatisticsResult PROVE Goal
  <2>1. \E w \in todo : session' = PopAnswer(w[1])
    BY <1>11, Zenon DEF CollectStatisticsResult
  <2> QED
    BY <1>7, <2>1
<1>12. ASSUME CollectStatisticsGlobal \/ CollectStatisticsGlobalSend PROVE Goal
  BY <1>1, <1>4, <1>12 DEF CollectStatisticsGlobal, CollectStatisticsGlobalSend
<1>13. Goal
  BY <1>5, <1>6, <1>8, <1>9, <1>10, <1>11, <1>12 DEF MainLoop, Computes
<1> QED
  BY <1>13 DEF Goal

\* A round adds the rules of the jobs whose rates are sent.
RuleSent(l, job, new_rates) ==
    CreateEnfRule(job, active_op', TrackedEnvs(job, l),
                  LimitPerStage(new_rates[job], TotalStages(job)))

RulesSentTo(l, send, new_rates) == {RuleSent(l, job, new_rates) : job \in JobsAt(l, send)}

LEMMA RulesRequested ==
    ASSUME SessionsTyped, NEW send, send \subseteq Jobs, NEW new_rates,
           SendEnforcementRules(send, new_rates)
    PROVE  \/ pc' = "crashed" /\ UNCHANGED session
           \/ /\ pc' = "results"
              /\ \A w \in Targets(send) : w[1] \in local_sessions_
              /\ \A l \in Locals : Requests(session'[l]) =
                     Requests(session[l]) \cup RulesSentTo(l, send, new_rates)
<1> DEFINE Listed(l) == InOrder(JobsAt(l, send))
           Rule(l, job) == CreateEnfRule(job, active_op', TrackedEnvs(job, l),
                               LimitPerStage(new_rates[job], TotalStages(job)))
           Rules(l) == [i \in DOMAIN Listed(l) |-> Rule(l, Listed(l)[i])]
<1>1. ASSUME NEW l \in Locals
      PROVE  /\ List(Rules(l))
             /\ ToSet(Rules(l)) = RulesSentTo(l, send, new_rates)
  <2> DEFINE jobs == JobsAt(l, send)
             n == Len(Listed(l))
             f == Rules(l)
  <2>1. jobs \subseteq Jobs
    BY DEF JobsAt
  <2>2. Listed(l) \in Seq(jobs) /\ jobs = {Listed(l)[i] : i \in 1..n}
    BY <2>1, InOrderLists DEF First
  <2>3. n \in Nat /\ DOMAIN Listed(l) = 1..n
    BY <2>2
  <2>4. f = [i \in 1..n |-> f[i]] /\ \A i \in 1..n : f[i] = RuleSent(l, Listed(l)[i], new_rates)
    BY <2>3, Zenon DEF RuleSent
  <2> HIDE DEF f
  <2>5. List(f)
    BY <2>3, <2>4, MappedList
  <2>6. ToSet(f) = {f[i] : i \in 1..n}
    <3>1. DOMAIN f = 1..n
      BY <2>4
    <3> QED
      BY <3>1 DEF ToSet
  <2>7. ToSet(f) = {RuleSent(l, job, new_rates) : job \in jobs}
    <3> HIDE DEF jobs
    <3> QED
      BY <2>2, <2>4, <2>6
  <2> QED
    BY <2>5, <2>7 DEF f, RulesSentTo
<1>2. \/ /\ \A w \in Targets(send) : w[1] \in local_sessions_
         /\ session' = [l \in Locals |-> Submit(l, Rules(l))[l]]
         /\ pc' = "results"
      \/ pc' = "crashed" /\ UNCHANGED session
  BY Zenon DEF SendEnforcementRules, JobsAt, Targets, Goto, Crash
<1> HIDE DEF Rules
<1>3. ASSUME session' = [l \in Locals |-> Submit(l, Rules(l))[l]], NEW l \in Locals
      PROVE  Requests(session'[l]) = Requests(session[l]) \cup ToSet(Rules(l))
  <2> DEFINE q == session[l]
             s == Rules(l)
             more == [q EXCEPT !.submission = @ \o s]
  <2>1. Requests(more) = Requests(q) \cup ToSet(s)
    <3>1. SessionTyped(l, q)
      BY DEF SessionsTyped
    <3> HIDE DEF q
    <3> QED
      BY <1>1, <3>1, SubmitRequests
  <2>2. session'[l] = more
    <3>1. session'[l] = Submit(l, s)[l]
      BY <1>3
    <3> HIDE DEF s
    <3> QED
      BY <3>1 DEF Submit, SessionsTyped
  <2> QED
    BY <2>1, <2>2
<1> QED
  BY <1>1, <1>2, <1>3

RuleAbout(r, send, new_rates) ==
    \E job \in send : \E envs :
        r = CreateEnfRule(job, active_op', envs, LimitPerStage(new_rates[job], TotalStages(job)))

LEMMA RuleRequests ==
    ASSUME SessionsTyped, NEW send, send \subseteq Jobs, NEW new_rates,
           SendEnforcementRules(send, new_rates)
    PROVE  \A l \in Locals : \A r \in Requests(session'[l]) :
               r \in Requests(session[l]) \/ RuleAbout(r, send, new_rates)
<1>1. \A l \in Locals : \A job \in JobsAt(l, send) :
          RuleAbout(RuleSent(l, job, new_rates), send, new_rates)
  BY DEF JobsAt, RuleAbout, RuleSent
<1>2. \/ UNCHANGED session
      \/ \A l \in Locals : Requests(session'[l]) =
             Requests(session[l]) \cup RulesSentTo(l, send, new_rates)
  BY RulesRequested
<1> QED
  BY <1>1, <1>2 DEF RulesSentTo

\* No stage gets more than its job.
LEMMA PartOfRate ==
    ASSUME NEW rate \in Nat, NEW n \in Nat, n > 0
    PROVE  LimitPerStage(rate, n) <= rate /\ LimitPerStage(rate, n) \in Nat
<1>1. LimitPerStage(rate, n) = rate \div n /\ rate \div n \in Nat
  BY DivOfNatural DEF LimitPerStage
<1>2. n * (rate \div n) <= rate
  BY DivBounds
<1> DEFINE x == rate \div n
<1> HIDE DEF x
<1>3. n * x <= rate /\ x \in Nat
  BY <1>1, <1>2 DEF x
<1>4. x <= n * x
  <2>1. 1 <= n
    OBVIOUS
  <2> QED
    BY <1>3, <2>1, SMTT(30)
<1>5. x <= rate
  <2>1. n * x \in Nat
    BY <1>3
  <2> QED
    BY <1>3, <1>4, <2>1
<1> QED
  BY <1>1, <1>5 DEF x

Backed(r) == r.type = "CREATE_ENF_RULE" => Given(Taken, r.job, r.op, r.limit)

RequestsBacked == \A l \in Locals : \A r \in Requests(session[l]) : Backed(r)

LimitsBacked ==
    /\ \A s \in Stages : limit[s] = [op \in Ops |-> limit[s][op]]
    /\ \A s \in Stages, op \in Ops :
          limit[s][op] = HousekeepingRate \/ Given(Taken, JobOf[s], op, limit[s][op])

\* A job without a demand is not sent a rate: it has had none, and the threshold
\* is more than the difference between 0 and -1.
LEMMA StaticSent ==
    ASSUME IOPS_THRESHOLD >= 2, TrackersTyped, PolicyQueue, RatesTyped, RatesFromRules,
           DequeueRule, UNCHANGED next_rule,
           NEW job \in DOMAIN job_location_tracker, ~BelowThreshold(job, StaticRates)
    PROVE  StaticRates[job] \in Nat /\ Bounds(Taken', job, StaticRates[job])
<1> DEFINE rate == StaticRates[job]
<1>1. /\ job \in DOMAIN UpdatedDemands /\ job \in DOMAIN StaticRates
      /\ job \in DOMAIN job_previous_rates
  BY DemandsUpdated, StaticRatesAre DEF RatesTyped, TrackersTyped
<1>2. rate # -1
  <2> SUFFICES ASSUME rate = -1 PROVE FALSE
    OBVIOUS
  <2>1. UpdatedDemands[job] = -1
    BY <1>1, StaticRatesAre
  <2>2. job_previous_rates[job] = 0
    BY <1>1, <2>1, StaticRatesBounded
  <2>3. BelowThreshold(job, StaticRates)
    BY <2>2, CoreAssumption DEF BelowThreshold, Abs
  <2> QED
    BY <2>3
<1>3. rate \in Nat
  BY <1>1, <1>2, StaticRatesAre DEF RateOrNone
<1>4. Bounds(Taken', job, rate)
  BY <1>1, <1>2, StaticRatesBounded
<1> QED
  BY <1>3, <1>4

\* The rules sent in a round of STATIC are backed.
LEMMA SentBacked ==
    ASSUME IOPS_THRESHOLD >= 2, Flow, TrackersTyped, PolicyQueue, RatesTyped, RatesFromRules,
           DequeueRule, UNCHANGED next_rule,
           NEW send \in SUBSET DOMAIN job_location_tracker,
           \A job \in DOMAIN job_location_tracker :
               job \in send <=> ~BelowThreshold(job, StaticRates),
           OpFromRules', NEW job \in send, NEW envs
    PROVE  LET r == CreateEnfRule(job, active_op', envs,
                        LimitPerStage(StaticRates[job], TotalStages(job)))
           IN  Given(Taken', r.job, r.op, r.limit)
<1> DEFINE rate == StaticRates[job]
           n == TotalStages(job)
<1>1. rate \in Nat /\ Bounds(Taken', job, rate)
  BY StaticSent
<1>2. n \in Nat /\ n > 0
  BY StagesCounted
<1> HIDE DEF rate, n
<1>3. LimitPerStage(rate, n) <= rate /\ LimitPerStage(rate, n) \in Nat
  BY <1>1, <1>2, PartOfRate
<1>4. Bounds(Taken', job, LimitPerStage(rate, n))
  <2>1. PICK i \in 1..Taken' :
            /\ Policies[i].job = job /\ rate <= Policies[i].limit
            /\ \A m \in (i + 1)..Taken' : Policies[m].job # job
    BY <1>1 DEF Bounds
  <2>2. Policies[i].limit \in Int
    <3>1. Policies[i] \in PolicyRules
      <4>1. Taken' \in Nat /\ Taken' <= Len(Policies) /\ Len(Policies) \in Nat
        BY RuleTaken, PoliciesTyped DEF PolicyQueue, Taken
      <4> QED
        BY <4>1, PoliciesTyped
    <3> QED
      BY <3>1 DEF PolicyRules
  <2>3. LimitPerStage(rate, n) <= Policies[i].limit
    BY <1>1, <1>3, <2>1, <2>2
  <2> QED
    BY <2>1, <2>3 DEF Bounds
<1>5. Given(Taken', job, active_op', LimitPerStage(rate, n))
  <2>1. Taken' \in Nat
    BY RuleTaken, PoliciesTyped DEF PolicyQueue, Taken
  <2>2. Taken' \in 1..Taken'
    BY <1>1, <2>1 DEF Bounds
  <2>3. Policies[Taken'].op = active_op'
    BY <2>1, <2>2 DEF OpFromRules
  <2> QED
    BY <1>4, <2>2, <2>3 DEF Given
<1> QED
  BY <1>5 DEF CreateEnfRule, rate, n

LEMMA OpFromRulesKept ==
    ASSUME Flow, PolicyQueue, OpFromRules, [Next]_vars
    PROVE  OpFromRules'
<1>1. ASSUME UNCHANGED active_op, Taken' = Taken PROVE OpFromRules'
  BY <1>1 DEF OpFromRules
<1>2. CASE ~MainLoop
  <2>1. UNCHANGED active_op
    BY <1>2, Environment DEF Next, Outside, rates
  <2>2. ~Computes
    BY <1>2 DEF MainLoop, Computes
  <2> QED
    BY <1>1, <2>1, <2>2, PolicyQueueKept
<1>3. CASE Computes
  <2>1. CASE UNCHANGED <<pending_rules_queue_, active_op>>
    BY <1>1, <1>3, <2>1, ComputesTake DEF Taken
  <2>2. CASE DequeueRule
    <3>1. CASE NewRule
      <4>1. Taken' = Taken + 1 /\ Head(pending_rules_queue_) = Policies[Taken + 1]
        BY <1>3, <2>2, <3>1, ComputesTake, RuleTaken, PolicyQueueKept
      <4>2. active_op' = Head(pending_rules_queue_).op
        BY <2>2, <3>1 DEF DequeueRule
      <4> QED
        BY <4>1, <4>2 DEF OpFromRules
    <3>2. CASE ~NewRule
      <4>1. Taken' = Taken
        BY <1>3, <2>2, <3>2, ComputesTake, RuleTaken, PolicyQueueKept
      <4> QED
        BY <1>1, <2>2, <3>2, <4>1 DEF DequeueRule
    <3> QED
      BY <3>1, <3>2
  <2> QED
    BY <1>3, <2>1, <2>2, ComputesTake
<1> SUFFICES ASSUME MainLoop, ~Computes PROVE OpFromRules'
  BY <1>2, <1>3
<1>4. Taken' = Taken
  BY PolicyQueueKept
<1>5. UNCHANGED active_op
  <2>1. CASE WaitForLocal \/ LoopCondition \/ Exit \/ CallLocalHandshake \/ NoMoreLocalControllers
             \/ NoMoreDataPlanes \/ HandleLocalController \/ HandleDataPlane
    BY <2>1 DEF WaitForLocal, LoopCondition, Exit, CallLocalHandshake, NoMoreLocalControllers,
                NoMoreDataPlanes, HandleLocalController, HandleDataPlane, rates
  <2>2. CASE CollectStatisticsGlobal \/ CollectStatisticsGlobalSend \/ DisconnectLocals
             \/ CollectEnforcementRuleResults \/ EndRound \/ WakeUp \/ MarkDataPlaneStageReady
    BY <2>2 DEF CollectStatisticsGlobal, CollectStatisticsGlobalSend, DisconnectLocals,
                CollectEnforcementRuleResults, EndRound, WakeUp, MarkDataPlaneStageReady, rates
  <2>3. CASE CollectStatisticsResult
    BY <2>3, AnswerSteps
  <2> QED
    BY <2>1, <2>2, <2>3 DEF MainLoop, Computes
<1> QED
  BY <1>1, <1>4, <1>5

LEMMA RequestsBackedKept ==
    ASSUME ControlType = "STATIC", IOPS_THRESHOLD >= 2,
           Flow, TrackersTyped, PolicyQueue, RatesTyped, RatesFromRules, OpFromRules',
           RequestsBacked, [Next]_vars
    PROVE  RequestsBacked'
<1>1. \A job, op, rate : Given(Taken, job, op, rate) => Given(Taken', job, op, rate)
  BY PolicyQueueKept, GivenStays
<1> DEFINE StillBacked(r) == r.type = "CREATE_ENF_RULE" => Given(Taken', r.job, r.op, r.limit)
<1>2. \A l \in Locals : \A r \in Requests(session[l]) : StillBacked(r)
  BY <1>1 DEF RequestsBacked, Backed
<1>3. ASSUME \A l \in Locals : NoNewRules(l) PROVE RequestsBacked'
  <2>1. \A l \in Locals : \A r \in Requests(session[l])' : StillBacked(r)
    BY <1>2, <1>3 DEF NoNewRules, Harmless
  <2> QED
    BY <2>1 DEF RequestsBacked, Backed
<1>4. ASSUME UNCHANGED session PROVE RequestsBacked'
  <2>1. \A l \in Locals : NoNewRules(l)
    BY <1>4 DEF NoNewRules
  <2> QED
    BY <1>3, <2>1
<1>5. CASE ~MainLoop
  <2>1. CASE \E l \in Locals : SessionSend(l) \/ SessionReply(l)
    BY <1>3, <2>1, SessionStepRequests DEF Flow
  <2>2. CASE \/ \E l \in Locals : LocalStart(l) \/ LocalStop(l)
             \/ \E s \in Stages : StageStart(s) \/ StageStop(s)
             \/ EnqueueRule \/ CountLocal \/ CountDataPlane
             \/ UNCHANGED vars
    <3>1. UNCHANGED session
      BY <2>2 DEF LocalStart, LocalStop, StageStart, StageStop, EnqueueRule, CountLocal, CountDataPlane, vars
    <3> QED
      BY <1>4, <3>1
  <2> QED
    BY <1>5, <2>1, <2>2 DEF Next
<1>6. CASE MainLoop /\ ~Computes
  BY <1>3, <1>6, LoopStepRequests
<1>7. CASE Computes
  <2>1. ComputeAndEnforceStaticRules
    <3>1. ~ComputeAndEnforceDynamicVanillaRules /\ ~ComputeAndEnforceDynamicLeftoverRules
      BY Zenon DEF ComputeAndEnforceDynamicVanillaRules, ComputeAndEnforceDynamicLeftoverRules
    <3> QED
      BY <1>7, <3>1 DEF Computes
  <2>2. CASE NothingToEnforce
    BY <1>4, <2>2 DEF NothingToEnforce
  <2>3. ASSUME DequeueRule, NEW send \in SUBSET DOMAIN job_location_tracker,
               \A job \in DOMAIN job_location_tracker :
                   job \in send <=> ~BelowThreshold(job, StaticRates),
               SendEnforcementRules(send, StaticRates)
        PROVE  RequestsBacked'
    <3>1. UNCHANGED next_rule
      BY <1>7, ComputesTake
    <3>2. send \subseteq Jobs
      BY DEF Flow, Places
    <3>3. \A l \in Locals : \A r \in Requests(session'[l]) :
              r \in Requests(session[l]) \/ RuleAbout(r, send, StaticRates)
      <4>1. SessionsTyped
        BY DEF Flow
      <4> QED
        BY ONLY <2>3, <3>2, <4>1, RuleRequests
    <3> SUFFICES ASSUME NEW l \in Locals, NEW r \in Requests(session'[l]) PROVE StillBacked(r)
      BY DEF RequestsBacked, Backed
    <3>4. ASSUME NEW job \in send, NEW envs,
                 r = CreateEnfRule(job, active_op', envs,
                                   LimitPerStage(StaticRates[job], TotalStages(job)))
          PROVE  Given(Taken', r.job, r.op, r.limit)
      BY <2>3, <3>1, <3>4, SentBacked
    <3>5. CASE r \in Requests(session[l])
      BY <1>2, <3>5
    <3>6. CASE RuleAbout(r, send, StaticRates)
      BY <3>4, <3>6 DEF RuleAbout
    <3> QED
      BY <3>3, <3>5, <3>6
  <2> QED
    BY <2>1, <2>2, <2>3, StaticSteps
<1> QED
  BY <1>5, <1>6, <1>7

\* Limits change only by a rule about the stages' job.
LimitedBy(r, some) ==
    /\ r.type = "CREATE_ENF_RULE"
    /\ \A s \in some : JobOf[s] = r.job
    /\ limit' = [s \in Stages |-> IF s \in some
                    THEN [limit[s] EXCEPT ![r.op] = r.limit] ELSE limit[s]]

LEMMA LimitSteps ==
    ASSUME NEW l \in Locals, SessionReply(l)
    PROVE  \/ UNCHANGED limit
           \/ \E i \in 1..Len(session[l].sending) : \E some : LimitedBy(session[l].sending[i], some)
<1>1. PICK i \in 1..Len(session[l].sending) :
          \/ CallFails(l, i)
          \/ HandleLocalHandshake(l, i)
          \/ MarkStageReady(l, i)
          \/ CollectGlobalStatistics(l, i)
          \/ CreateEnforcementRule(l, i)
  BY DEF SessionReply
<1>2. CASE CallFails(l, i) \/ HandleLocalHandshake(l, i) \/ MarkStageReady(l, i)
           \/ CollectGlobalStatistics(l, i)
  BY <1>2, Zenon DEF CallFails, HandleLocalHandshake, MarkStageReady, CollectGlobalStatistics
<1>3. CASE CreateEnforcementRule(l, i)
  <2> DEFINE r == session[l].sending[i]
             targets == {s \in local[l].data_sessions : JobOf[s] = r.job /\ EnvOf[s] \in r.envs}
             alive == {s \in targets : stage[s] = "running"}
             Install(some) == limit' = [s \in Stages |-> IF s \in some
                                 THEN [limit[s] EXCEPT ![r.op] = r.limit] ELSE limit[s]]
  <2>1. /\ r.type = "CREATE_ENF_RULE"
        /\ \/ UNCHANGED limit
           \/ Install(targets)
           \/ \E some \in SUBSET alive : Install(some)
    BY <1>3, Zenon DEF CreateEnforcementRule
  <2>2. /\ \A s \in targets : JobOf[s] = r.job
        /\ \A some \in SUBSET alive : \A s \in some : JobOf[s] = r.job
    OBVIOUS
  <2> HIDE DEF targets, alive, r
  <2>3. \/ UNCHANGED limit
        \/ \E some : /\ \A s \in some : JobOf[s] = r.job
                     /\ Install(some)
    BY <2>1, <2>2
  <2> QED
    BY <2>1, <2>3 DEF r, LimitedBy
<1> QED
  BY <1>1, <1>2, <1>3

LEMMA LimitsBackedKept ==
    ASSUME Flow, PolicyQueue, RequestsBacked, LimitsBacked, [Next]_vars
    PROVE  LimitsBacked'
<1>1. \A job, op, rate : Given(Taken, job, op, rate) => Given(Taken', job, op, rate)
  BY PolicyQueueKept, GivenStays
<1> DEFINE Fine(s, op, v) == v = HousekeepingRate \/ Given(Taken', JobOf[s], op, v)
<1>2. \A s \in Stages, op \in Ops : Fine(s, op, limit[s][op])
  BY <1>1 DEF LimitsBacked
<1>3. ASSUME UNCHANGED limit PROVE LimitsBacked'
  BY <1>2, <1>3 DEF LimitsBacked
<1>4. ASSUME NEW l \in Locals, SessionReply(l) PROVE LimitsBacked'
  <2>1. ASSUME NEW i \in 1..Len(session[l].sending), NEW some, NEW r,
               r = session[l].sending[i], LimitedBy(r, some)
        PROVE  LimitsBacked'
    <3> USE DEF LimitedBy
    <3>1. r \in Requests(session[l])
      <4> DEFINE q == session[l]
      <4>1. SessionTyped(l, q) /\ i \in 1..Len(q.sending)
        BY DEF Flow, SessionsTyped
      <4> HIDE DEF q
      <4>2. q.sending[i] \in Requests(q)
        BY <4>1, RespondRequests
      <4> QED
        BY <2>1, <4>2 DEF q
    <3>2. Given(Taken', r.job, r.op, r.limit)
      BY <1>1, <2>1, <3>1 DEF RequestsBacked, Backed
    <3>3. ASSUME NEW s \in Stages
          PROVE  /\ limit'[s] = [op \in Ops |-> limit'[s][op]]
                 /\ \A op \in Ops : Fine(s, op, limit'[s][op])
      <4>1. limit[s] = [op \in Ops |-> limit[s][op]]
        BY DEF LimitsBacked
      <4>2. CASE s \in some
        <5>1. limit'[s] = [limit[s] EXCEPT ![r.op] = r.limit]
          BY <2>1, <4>2
        <5>2. JobOf[s] = r.job
          BY <2>1, <4>2
        <5>3. limit'[s] = [op \in Ops |-> IF op = r.op THEN r.limit ELSE limit[s][op]]
          BY <4>1, <5>1
        <5> QED
          BY <1>2, <3>2, <5>2, <5>3
      <4>3. CASE s \notin some
        <5>1. limit'[s] = limit[s]
          BY <2>1, <4>3
        <5> QED
          BY <1>2, <4>1, <5>1
      <4> QED
        BY <4>2, <4>3
    <3> QED
      BY <3>3 DEF LimitsBacked
  <2> QED
    <3>1. CASE \E i \in 1..Len(session[l].sending) : \E some :
                  LimitedBy(session[l].sending[i], some)
      BY ONLY <2>1, <3>1
    <3> QED
      BY <1>3, <1>4, <3>1, LimitSteps
<1>5. CASE \/ \E l \in Locals : SessionSend(l) \/ LocalStart(l) \/ LocalStop(l)
           \/ \E s \in Stages : StageStart(s) \/ StageStop(s)
           \/ EnqueueRule \/ CountLocal \/ CountDataPlane
           \/ UNCHANGED vars
  <2>1. UNCHANGED limit
    BY <1>5 DEF SessionSend, LocalStart, LocalStop, StageStart, StageStop, EnqueueRule, CountLocal, CountDataPlane, vars,
                environment
  <2> QED
    BY <1>3, <2>1
<1>6. CASE MainLoop
  <2>1. CASE WaitForLocal \/ LoopCondition \/ Exit \/ NoMoreLocalControllers \/ NoMoreDataPlanes
             \/ EndRound \/ WakeUp \/ HandleLocalController \/ HandleDataPlane \/ CallLocalHandshake
             \/ MarkDataPlaneStageReady \/ CollectEnforcementRuleResults
    BY <1>3, <2>1 DEF WaitForLocal, LoopCondition, Exit, NoMoreLocalControllers, NoMoreDataPlanes,
                      EndRound, WakeUp, HandleLocalController, HandleDataPlane,
                      CallLocalHandshake, MarkDataPlaneStageReady,
                      CollectEnforcementRuleResults, environment
  <2>2. CASE CollectStatisticsGlobal \/ CollectStatisticsGlobalSend \/ DisconnectLocals
    BY <1>3, <2>2 DEF CollectStatisticsGlobal, CollectStatisticsGlobalSend, DisconnectLocals,
                      environment
  <2>3. CASE CollectStatisticsResult
    BY <1>3, <2>3, AnswerSteps DEF environment
  <2>4. CASE Computes
    BY <1>3, <2>4, ComputeSteps DEF environment, Flow
  <2> QED
    BY <1>6, <2>1, <2>2, <2>3, <2>4 DEF MainLoop, Computes
<1> QED
  BY <1>4, <1>5, <1>6 DEF Next

\* STATIC, with a threshold of at least 2 IOPS: a limit in force in a stage, for an
\* operation, is its first one, or there was a moment at which the last rule taken
\* about the stage's own job was at least that limit and the last rule taken at all
\* was about that operation; however the rules, the rounds, the answers and the
\* losses of stages interleave, and on whatever queue the rule waited.
\* (update_job_demands, send_enforcement_rule and local_create_enforcement_rule.)
THEOREM LimitsFollowRules ==
    ASSUME ControlType = "STATIC", IOPS_THRESHOLD >= 2
    PROVE  SafetySpec => []LimitsComeFromRules
<1> DEFINE IInv == RatesFromRules /\ OpFromRules /\ RequestsBacked /\ LimitsBacked
<1>1. Init => IInv
  <2> SUFFICES ASSUME Init PROVE IInv
    OBVIOUS
  <2>1. RatesFromRules
    BY DEF Init, RatesFromRules
  <2>2. RequestsBacked
    <3>1. \A l \in Locals : session[l] = Idle
      BY DEF Init
    <3>2. Requests(Idle) = {}
      BY DEF Requests, Idle, ToSet
    <3> QED
      BY <3>1, <3>2 DEF RequestsBacked
  <2>3. LimitsBacked
    BY DEF Init, LimitsBacked
  <2>4. OpFromRules
    BY DEF Init, OpFromRules, Taken
  <2> QED
    BY <2>1, <2>2, <2>3, <2>4
<1>2. Flow /\ TrackersTyped /\ PolicyQueue /\ RatesTyped /\ IInv /\ [Next]_vars => IInv'
  BY RatesFromRulesKept, OpFromRulesKept, RequestsBackedKept, LimitsBackedKept
<1>3. PolicyQueue /\ IInv => LimitsComeFromRules
  <2> SUFFICES ASSUME PolicyQueue, LimitsBacked PROVE LimitsComeFromRules
    OBVIOUS
  <2>1. TakenRules = 1..Taken
    BY DEF TakenRules, Taken
  <2> QED
    BY <2>1 DEF LimitsBacked, Given, Bounds, LimitsComeFromRules
<1>4. SafetySpec => []RatesTyped
  BY RatesTypedHolds DEF NoNegativeRates
<1> QED
  BY <1>1, <1>2, <1>3, <1>4, FlowHolds, TrackersTypedHolds, PolicyQueueHolds, PTL DEF SafetySpec
-------------------------------------------------------------------------------
(* Threads of the sessions.  emplace starts one for each registration that is *)
(* taken from the queue, so those of a session and the registrations still in *)
(* the queue are no more than the starts of its local controller.              *)

Times(q, l) == Cardinality({i \in 1..Len(q) : q[i] = l})

LEMMA TimesFinite ==
    ASSUME NEW S, NEW q \in Seq(S), NEW l
    PROVE  /\ IsFiniteSet({i \in 1..Len(q) : q[i] = l})
           /\ Times(q, l) \in Nat
<1>1. IsFiniteSet(1..Len(q))
  BY FS_Interval
<1>2. IsFiniteSet({i \in 1..Len(q) : q[i] = l})
  BY <1>1, FS_Subset
<1> QED
  BY <1>2, FS_CardinalityType DEF Times

LEMMA TimesAppended ==
    ASSUME NEW S, NEW q \in Seq(S), NEW x \in S, NEW l
    PROVE  Times(Append(q, x), l) = Times(q, l) + (IF x = l THEN 1 ELSE 0)
<1> DEFINE n == Len(q)
           more == Append(q, x)
           At == {i \in 1..n : q[i] = l}
           Now == {i \in 1..Len(more) : more[i] = l}
<1>1. n \in Nat /\ Len(more) = n + 1 /\ more[n + 1] = x /\ \A i \in 1..n : more[i] = q[i]
  OBVIOUS
<1>2. IsFiniteSet(At) /\ Cardinality(At) = Times(q, l) /\ Times(q, l) \in Nat
  BY TimesFinite DEF Times
<1> HIDE DEF more
<1>3. Now = IF x = l THEN At \cup {n + 1} ELSE At
  <2>1. 1..(n + 1) = (1..n) \cup {n + 1}
    BY <1>1
  <2> HIDE DEF n
  <2> QED
    BY <1>1, <2>1 DEF n
<1>4. n + 1 \notin At
  BY <1>1
<1> HIDE DEF At, Now, n
<1>5. Cardinality(At \cup {n + 1}) = Cardinality(At) + 1
  BY <1>2, <1>4, FS_AddElement
<1>6. Cardinality(Now) = Times(q, l) + (IF x = l THEN 1 ELSE 0)
  BY <1>2, <1>3, <1>5
<1> QED
  BY <1>6 DEF Times, Now, more

LEMMA TimesTail ==
    ASSUME NEW S, NEW q \in Seq(S), q # <<>>, NEW l
    PROVE  Times(q, l) = Times(Tail(q), l) + (IF Head(q) = l THEN 1 ELSE 0)
<1> DEFINE n == Len(q)
           rest == Tail(q)
           At == {i \in 1..n : q[i] = l}
           Then == {i \in 1..Len(rest) : rest[i] = l}
           Moved == {i \in 2..n : q[i] = l}
<1>1. /\ n \in Nat /\ n >= 1 /\ Len(rest) = n - 1 /\ Head(q) = q[1] /\ rest \in Seq(S)
      /\ \A i \in 1..(n - 1) : rest[i] = q[i + 1]
  OBVIOUS
<1> HIDE DEF rest
<1>2. IsFiniteSet(Then) /\ Cardinality(Then) = Times(rest, l) /\ Times(rest, l) \in Nat
  BY <1>1, TimesFinite DEF Times
<1>3. IsFiniteSet(Moved) /\ Cardinality(Moved) = Cardinality(Then)
  <2> DEFINE f == [i \in Then |-> i + 1]
  <2> HIDE DEF n
  <2>1. f \in [Then -> Moved]
    BY <1>1
  <2>2. \A i, k \in Then : f[i] = f[k] => i = k
    BY <1>1
  <2>3. \A i \in Moved : i - 1 \in Then /\ f[i - 1] = i
    <3> SUFFICES ASSUME NEW i \in Moved PROVE i - 1 \in Then /\ f[i - 1] = i
      OBVIOUS
    <3>1. i - 1 \in 1..(n - 1) /\ (i - 1) + 1 = i /\ q[i] = l
      BY <1>1
    <3>2. i - 1 \in Then
      BY <1>1, <3>1
    <3> QED
      BY <3>1, <3>2
  <2> HIDE DEF f, Then, Moved
  <2>4. f \in Injection(Then, Moved)
    BY <2>1, <2>2 DEF Injection, IsInjective
  <2>5. f \in Surjection(Then, Moved)
    BY <2>1, <2>3 DEF Surjection
  <2>6. ExistsBijection(Then, Moved)
    BY <2>4, <2>5 DEF ExistsBijection, Bijection
  <2> QED
    BY <1>2, <2>6, FS_Bijection
<1>4. At = IF Head(q) = l THEN Moved \cup {1} ELSE Moved
  <2>1. 1..n = (2..n) \cup {1}
    BY <1>1
  <2> HIDE DEF n
  <2> QED
    BY <1>1, <2>1
<1>5. 1 \notin Moved
  BY <1>1
<1> HIDE DEF At, n, Then, Moved
<1>6. Cardinality(Moved \cup {1}) = Cardinality(Moved) + 1
  BY <1>3, <1>5, FS_AddElement
<1>7. Cardinality(At) = Times(rest, l) + (IF Head(q) = l THEN 1 ELSE 0)
  BY <1>2, <1>3, <1>4, <1>6
<1> QED
  BY <1>7 DEF Times, At, n, rest

\* What the steps do to the threads of one session.
LEMMA ThreadsOf ==
    ASSUME NEW l, NEW q, SessionTyped(l, q), NEW a, NEW b, NEW n
    PROVE  /\ [q EXCEPT !.submission = a].threads = q.threads
           /\ [q EXCEPT !.completion = a].threads = q.threads
           /\ [q EXCEPT !.submission = a, !.sending = b].threads = q.threads
           /\ [q EXCEPT !.sending = a, !.completion = b].threads = q.threads
           /\ [q EXCEPT !.threads = n, !.submission = a].threads = n
<1>1. PICK s, c, d, e :
          q = [submission |-> s, sending |-> c, completion |-> d, threads |-> e]
  BY SessionParts DEF Fields
<1> QED
  BY <1>1

KeptThreads(m) == session'[m].threads = session[m].threads

LEMMA OneSessionThreads ==
    ASSUME SessionsTyped, NEW l \in Locals, NEW r, session' = [session EXCEPT ![l] = r],
           r.threads = session[l].threads
    PROVE  \A m \in Locals : KeptThreads(m)
<1>1. \A m \in Locals : session'[m] = IF m = l THEN r ELSE session[m]
  BY DEF SessionsTyped
<1> QED
  BY <1>1 DEF KeptThreads

LEMMA SessionStepThreads ==
    ASSUME SessionsTyped, NEW l \in Locals, SessionSend(l) \/ SessionReply(l)
    PROVE  \A m \in Locals : KeptThreads(m)
<1> DEFINE q == session[l]
<1>1. SessionTyped(l, q)
  BY DEF SessionsTyped
<1>2. CASE SessionSend(l)
  <2> DEFINE a == Tail(q.submission)
             b == Append(q.sending, Head(q.submission))
             r == [q EXCEPT !.submission = a, !.sending = b]
  <2>1. session' = [session EXCEPT ![l] = r]
    BY <1>2 DEF SessionSend, SessionsTyped
  <2>2. r.threads = q.threads
    <3> HIDE DEF q, a, b
    <3> QED
      BY <1>1, ThreadsOf
  <2> HIDE DEF r
  <2> QED
    BY <2>1, <2>2, OneSessionThreads
<1>3. CASE SessionReply(l)
  <2>1. PICK i \in 1..Len(q.sending) : \E response : Respond(l, i, response)
    BY <1>3, Zenon DEF SessionReply, CallFails, HandleLocalHandshake, MarkStageReady,
                       CollectGlobalStatistics, CreateEnforcementRule
  <2>2. PICK response : Respond(l, i, response)
    BY <2>1
  <2> DEFINE a == RemoveAt(q.sending, i)
             b == Append(q.completion, response)
             r == [q EXCEPT !.sending = a, !.completion = b]
  <2>3. session' = [session EXCEPT ![l] = r]
    BY <2>2 DEF Respond, SessionsTyped
  <2>4. r.threads = q.threads
    <3> HIDE DEF q, a, b
    <3> QED
      BY <1>1, ThreadsOf
  <2> HIDE DEF r
  <2> QED
    BY <2>3, <2>4, OneSessionThreads
<1> QED
  BY <1>2, <1>3

\* The main loop adds a thread only when it takes a registration; the erasure of
\* a session leaves none.
LEMMA LoopStepThreads ==
    ASSUME Flow, MainLoop, ~HandleLocalController
    PROVE  \A m \in Locals : KeptThreads(m) \/ session'[m].threads = 0
<1> DEFINE Goal == \A m \in Locals : KeptThreads(m) \/ session'[m].threads = 0
<1>0. SessionsTyped
  BY DEF Flow
<1>1. ASSUME UNCHANGED session PROVE Goal
  BY <1>1 DEF KeptThreads
<1>2. ASSUME NEW l \in Locals, session' = PopAnswer(l) PROVE Goal
  <2> DEFINE q == session[l]
             a == Tail(q.completion)
             r == [q EXCEPT !.completion = a]
  <2>1. session' = [session EXCEPT ![l] = r]
    BY <1>0, <1>2 DEF PopAnswer, SessionsTyped
  <2>2. r.threads = q.threads
    <3>1. SessionTyped(l, q)
      BY <1>0 DEF SessionsTyped
    <3> HIDE DEF q, a
    <3> QED
      BY <3>1, ThreadsOf
  <2> HIDE DEF r
  <2> QED
    BY <1>0, <2>1, <2>2, OneSessionThreads
<1>3. ASSUME NEW l \in Locals, NEW s PROVE Submit(l, s)[l].threads = session[l].threads
  <2> DEFINE q == session[l]
             a == q.submission \o s
             r == [q EXCEPT !.submission = a]
  <2>1. Submit(l, s)[l] = r
    BY <1>0 DEF Submit, SessionsTyped
  <2>2. r.threads = q.threads
    <3>1. SessionTyped(l, q)
      BY <1>0 DEF SessionsTyped
    <3> HIDE DEF q, a
    <3> QED
      BY <3>1, ThreadsOf
  <2> HIDE DEF r
  <2> QED
    BY <2>1, <2>2
<1>4. ASSUME NEW l \in Locals, NEW s, session' = Submit(l, s) PROVE Goal
  <2>1. \A m \in Locals : m # l => Submit(l, s)[m] = session[m]
    BY <1>0 DEF Submit, SessionsTyped
  <2> QED
    BY <1>3, <1>4, <2>1 DEF KeptThreads
<1>5. ASSUME NEW some, session' = Request(some) PROVE Goal
  <2> SUFFICES ASSUME NEW m \in Locals PROVE KeptThreads(m)
    OBVIOUS
  <2> DEFINE s == <<CollectStats>>
             asked == Submit(m, s)[m]
  <2>1. session'[m] = IF m \in some THEN asked ELSE session[m]
    BY <1>5 DEF Request
  <2>2. asked.threads = session[m].threads
    BY <1>3
  <2> HIDE DEF asked
  <2> QED
    BY <2>1, <2>2 DEF KeptThreads
<1>6. ASSUME HandleDataPlane PROVE Goal
  <2> DEFINE s == Head(local_to_data_queue_)
             x == <<StageReady(s)>>
  <2>1. LocalOf[s] \in Locals
    <3>1. s \in Stages
      BY <1>6, HeadTailProperties DEF HandleDataPlane, Flow, Places
    <3> QED
      BY <3>1, CoreAssumption
  <2>2. UNCHANGED session \/ session' = Submit(LocalOf[s], x)
    BY <1>6 DEF HandleDataPlane
  <2> HIDE DEF s, x, Goal
  <2> QED
    BY <1>1, <1>4, <2>1, <2>2
<1>7. ASSUME NEW w \in todo, session' = PopAnswer(w[1]) PROVE Goal
  <2>1. w[1] \in Locals
    BY DEF Flow, Places
  <2> HIDE DEF Goal
  <2> QED
    BY <1>2, <1>7, <2>1
<1>8. ASSUME DisconnectLocals PROVE Goal
  <2>1. session' = [l \in Locals |-> IF l \in sessions_to_delete THEN Idle ELSE session[l]]
    BY <1>8 DEF DisconnectLocals
  <2>2. Idle.threads = 0
    BY DEF Idle
  <2>3. ASSUME NEW m \in Locals PROVE KeptThreads(m) \/ session'[m].threads = 0
    <3>1. session'[m] = IF m \in sessions_to_delete THEN Idle ELSE session[m]
      BY <2>1
    <3> QED
      BY <2>2, <3>1 DEF KeptThreads
  <2> QED
    BY <2>3
<1>9. ASSUME Computes PROVE Goal
  <2>1. ASSUME NEW send, NEW new_rates, SendEnforcementRules(send, new_rates) PROVE Goal
    <3>1. UNCHANGED session
          \/ \E rules : session' = [l \in Locals |-> Submit(l, rules[l])[l]]
      <4> DEFINE listed == [l \in Locals |-> InOrder(JobsAt(l, send))]
                 rules == [l \in Locals |-> [i \in DOMAIN listed[l] |->
                              CreateEnfRule(listed[l][i], active_op', TrackedEnvs(listed[l][i], l),
                                  LimitPerStage(new_rates[listed[l][i]],
                                                TotalStages(listed[l][i])))]]
      <4>1. UNCHANGED session \/ session' = [l \in Locals |-> Submit(l, rules[l])[l]]
        BY <2>1 DEF SendEnforcementRules, JobsAt
      <4> HIDE DEF rules
      <4> QED
        BY <4>1
    <3>2. ASSUME NEW rules, session' = [l \in Locals |-> Submit(l, rules[l])[l]] PROVE Goal
      <4> SUFFICES ASSUME NEW m \in Locals PROVE KeptThreads(m)
        OBVIOUS
      <4>1. session'[m] = Submit(m, rules[m])[m]
        BY <3>2
      <4> QED
        BY <1>3, <4>1 DEF KeptThreads
    <3> HIDE DEF Goal
    <3> QED
      BY <1>1, <3>1, <3>2
  <2>2. \/ NothingToEnforce
        \/ \E new_rates : \E send \in SUBSET DOMAIN job_location_tracker :
               SendEnforcementRules(send, new_rates)
    BY <1>9, ComputeSteps DEF Flow
  <2>3. NothingToEnforce => UNCHANGED session
    BY DEF NothingToEnforce
  <2> HIDE DEF Goal
  <2> QED
    BY <1>1, <2>1, <2>2, <2>3
<1> HIDE DEF Goal
<1>10. ASSUME WaitForLocal \/ LoopCondition \/ Exit \/ NoMoreLocalControllers \/ NoMoreDataPlanes
              \/ EndRound \/ WakeUp
       PROVE  Goal
  BY <1>1, <1>10 DEF WaitForLocal, LoopCondition, Exit, NoMoreLocalControllers, NoMoreDataPlanes,
                     EndRound, WakeUp
<1>11. ASSUME CallLocalHandshake \/ MarkDataPlaneStageReady \/ CollectEnforcementRuleResults
       PROVE  Goal
  BY <1>7, <1>11 DEF CallLocalHandshake, MarkDataPlaneStageReady, CollectEnforcementRuleResults
<1>12. ASSUME CollectStatisticsResult PROVE Goal
  <2>1. \E w \in todo : session' = PopAnswer(w[1])
    BY <1>12, Zenon DEF CollectStatisticsResult
  <2> QED
    BY <1>7, <2>1
<1>13. ASSUME CollectStatisticsGlobal \/ CollectStatisticsGlobalSend PROVE Goal
  BY <1>1, <1>5, <1>13 DEF CollectStatisticsGlobal, CollectStatisticsGlobalSend
<1>14. Goal
  BY <1>6, <1>8, <1>9, <1>10, <1>11, <1>12, <1>13 DEF MainLoop, Computes
<1> QED
  BY <1>14 DEF Goal

-------------------------------------------------------------------------------
(* The processes: local controllers and stages.                               *)

LocalRecords == [up : BOOLEAN, starts : 0..MaxStarts, handshaken : BOOLEAN,
                 preparing : SUBSET Stages, data_sessions : SUBSET Stages]

ProcessesTyped ==
    /\ local \in [Locals -> LocalRecords]
    /\ stage \in [Stages -> {"new", "running", "dead"}]

LEMMA RecordUpdates ==
    ASSUME NEW p \in LocalRecords, NEW some \in SUBSET Stages, NEW more \in SUBSET Stages,
           NEW n \in 0..MaxStarts
    PROVE  /\ [p EXCEPT !.handshaken = TRUE] \in LocalRecords
           /\ [p EXCEPT !.handshaken = TRUE].starts = p.starts
           /\ [p EXCEPT !.preparing = some] \in LocalRecords
           /\ [p EXCEPT !.preparing = some].starts = p.starts
           /\ [p EXCEPT !.data_sessions = more] \in LocalRecords
           /\ [p EXCEPT !.data_sessions = more].starts = p.starts
           /\ [p EXCEPT !.preparing = some, !.data_sessions = more] \in LocalRecords
           /\ [p EXCEPT !.preparing = some, !.data_sessions = more].starts = p.starts
           /\ [Stopped EXCEPT !.starts = n] \in LocalRecords
           /\ [Stopped EXCEPT !.starts = n].starts = n
           /\ [Stopped EXCEPT !.up = TRUE, !.starts = n] \in LocalRecords
           /\ [Stopped EXCEPT !.up = TRUE, !.starts = n].starts = n
<1>1. Stopped \in LocalRecords
  BY CoreAssumption DEF Stopped, LocalRecords
<1>2. /\ [p EXCEPT !.handshaken = TRUE] \in LocalRecords
      /\ [p EXCEPT !.handshaken = TRUE].starts = p.starts
  BY DEF LocalRecords
<1>3. /\ [p EXCEPT !.preparing = some] \in LocalRecords
      /\ [p EXCEPT !.preparing = some].starts = p.starts
  BY DEF LocalRecords
<1>4. /\ [p EXCEPT !.data_sessions = more] \in LocalRecords
      /\ [p EXCEPT !.data_sessions = more].starts = p.starts
  BY DEF LocalRecords
<1>5. /\ [p EXCEPT !.preparing = some, !.data_sessions = more] \in LocalRecords
      /\ [p EXCEPT !.preparing = some, !.data_sessions = more].starts = p.starts
  BY DEF LocalRecords
<1>6. /\ [Stopped EXCEPT !.starts = n] \in LocalRecords
      /\ [Stopped EXCEPT !.starts = n].starts = n
  BY <1>1 DEF LocalRecords
<1>7. /\ [Stopped EXCEPT !.up = TRUE, !.starts = n] \in LocalRecords
      /\ [Stopped EXCEPT !.up = TRUE, !.starts = n].starts = n
  BY <1>1 DEF LocalRecords
<1> QED
  BY <1>2, <1>3, <1>4, <1>5, <1>6, <1>7

KeptStarts(m) == local'[m].starts = local[m].starts

LEMMA OneLocal ==
    ASSUME local \in [Locals -> LocalRecords], NEW l \in Locals, NEW p \in LocalRecords,
           p.starts = local[l].starts, local' = [local EXCEPT ![l] = p]
    PROVE  local' \in [Locals -> LocalRecords] /\ \A m \in Locals : KeptStarts(m)
  BY DEF KeptStarts

LEMMA LocalStarts ==
    ASSUME ProcessesTyped, NEW l \in Locals, LocalStart(l)
    PROVE  /\ ProcessesTyped'
           /\ \A m \in Locals : local'[m].starts = local[m].starts + (IF m = l THEN 1 ELSE 0)
<1> DEFINE n == local[l].starts + 1
           p == [Stopped EXCEPT !.up = TRUE, !.starts = n]
<1>1. local' = [local EXCEPT ![l] = p] /\ UNCHANGED stage /\ local[l].starts < MaxStarts
  BY DEF LocalStart
<1>2. local[l] \in LocalRecords /\ local[l].starts \in 0..MaxStarts
  BY DEF ProcessesTyped, LocalRecords
<1>3. n \in 0..MaxStarts
  BY <1>1, <1>2, CoreAssumption
<1> HIDE DEF n
<1>4. p \in LocalRecords /\ p.starts = n
  BY <1>2, <1>3, RecordUpdates
<1> HIDE DEF p
<1>5. ProcessesTyped'
  BY <1>1, <1>4 DEF ProcessesTyped
<1>6. ASSUME NEW m \in Locals
      PROVE  local'[m].starts = local[m].starts + (IF m = l THEN 1 ELSE 0)
  <2>1. local'[m] = IF m = l THEN p ELSE local[m]
    BY <1>1 DEF ProcessesTyped
  <2>2. local[m].starts \in 0..MaxStarts
    BY DEF ProcessesTyped, LocalRecords
  <2> QED
    BY <1>4, <2>1, <2>2 DEF n
<1> QED
  BY <1>5, <1>6

LEMMA StopsLocal ==
    ASSUME local \in [Locals -> LocalRecords], NEW l \in Locals, local' = StopLocal(l)
    PROVE  local' \in [Locals -> LocalRecords] /\ \A m \in Locals : KeptStarts(m)
<1> DEFINE n == local[l].starts
           p == [Stopped EXCEPT !.starts = n]
<1>1. local' = [local EXCEPT ![l] = p]
  BY DEF StopLocal
<1>2. local[l] \in LocalRecords /\ n \in 0..MaxStarts
  BY DEF LocalRecords
<1> HIDE DEF n
<1>3. p \in LocalRecords /\ p.starts = n
  BY <1>2, RecordUpdates
<1> HIDE DEF p
<1> QED
  BY <1>1, <1>3, OneLocal DEF n

\* What a handler does to its local controller.
LEMMA ReplyLocal ==
    ASSUME local \in [Locals -> LocalRecords], NEW l \in Locals, SessionReply(l)
    PROVE  local' \in [Locals -> LocalRecords] /\ \A m \in Locals : KeptStarts(m)
<1> DEFINE Goal == local' \in [Locals -> LocalRecords] /\ \A m \in Locals : KeptStarts(m)
           p == local[l]
<1>1. p \in LocalRecords /\ p.preparing \in SUBSET Stages /\ p.data_sessions \in SUBSET Stages
      /\ p.starts \in 0..MaxStarts
  BY DEF LocalRecords
<1>2. ASSUME UNCHANGED local PROVE Goal
  BY <1>2 DEF KeptStarts
<1>3. PICK i \in 1..Len(session[l].sending) :
          \/ CallFails(l, i)
          \/ HandleLocalHandshake(l, i)
          \/ MarkStageReady(l, i)
          \/ CollectGlobalStatistics(l, i)
          \/ CreateEnforcementRule(l, i)
  BY DEF SessionReply
<1>4. CASE CallFails(l, i)
  BY <1>2, <1>4 DEF CallFails
<1>5. CASE HandleLocalHandshake(l, i)
  <2> DEFINE q == [p EXCEPT !.handshaken = TRUE]
  <2>1. local' = [local EXCEPT ![l] = q]
    BY <1>5 DEF HandleLocalHandshake
  <2>2. q \in LocalRecords /\ q.starts = p.starts
    <3> HIDE DEF p
    <3> QED
      BY <1>1, RecordUpdates
  <2> HIDE DEF q
  <2> QED
    BY <2>1, <2>2, OneLocal
<1>6. CASE MarkStageReady(l, i)
  <2> DEFINE ready == {s \in p.preparing : Key(s) = session[l].sending[i].key}
             some == p.preparing \ ready
             more == p.data_sessions \cup ready
             q == [p EXCEPT !.preparing = some, !.data_sessions = more]
  <2>1. local' = [local EXCEPT ![l] = q]
    BY <1>6 DEF MarkStageReady
  <2>2. some \in SUBSET Stages /\ more \in SUBSET Stages
    <3> HIDE DEF p
    <3> QED
      BY <1>1
  <2>3. q \in LocalRecords /\ q.starts = p.starts
    <3>1. p.starts \in 0..MaxStarts /\ p \in LocalRecords
      BY <1>1
    <3> DEFINE first == [p EXCEPT !.preparing = some]
    <3> HIDE DEF p, some, more
    <3>2. first \in LocalRecords /\ first.starts = p.starts
      BY <2>2, <3>1, RecordUpdates
    <3> HIDE DEF first
    <3>3. /\ [first EXCEPT !.data_sessions = more] \in LocalRecords
          /\ [first EXCEPT !.data_sessions = more].starts = first.starts
      BY <2>2, <3>1, <3>2, RecordUpdates
    <3> QED
      BY <3>2, <3>3 DEF first
  <2> HIDE DEF q
  <2> QED
    BY <2>1, <2>3, OneLocal
<1>7. CASE CollectGlobalStatistics(l, i)
  <2> DEFINE more == {s \in p.data_sessions : stage[s] = "running"}
             q == [p EXCEPT !.data_sessions = more]
  <2>1. local' = [local EXCEPT ![l] = q]
    BY <1>7 DEF CollectGlobalStatistics
  <2>2. more \in SUBSET Stages
    <3> HIDE DEF p
    <3> QED
      BY <1>1
  <2>3. q \in LocalRecords /\ q.starts = p.starts
    <3> HIDE DEF p, more
    <3> QED
      BY <1>1, <2>2, RecordUpdates
  <2> HIDE DEF q
  <2> QED
    BY <2>1, <2>3, OneLocal
<1>8. CASE CreateEnforcementRule(l, i)
  <2>1. UNCHANGED local \/ local' = StopLocal(l)
    BY <1>8, Zenon DEF CreateEnforcementRule
  <2> QED
    BY <1>2, <2>1, StopsLocal
<1> QED
  BY <1>3, <1>4, <1>5, <1>6, <1>7, <1>8

\* The main loop acts on the processes only through the sessions.
LEMMA LoopLeavesEnvironment ==
    ASSUME Flow, MainLoop
    PROVE  UNCHANGED environment
<1>1. Computes \/ CollectStatisticsResult => UNCHANGED environment
  BY ComputeSteps, AnswerSteps DEF Flow
<1>2. WaitForLocal \/ LoopCondition \/ Exit \/ CallLocalHandshake \/ NoMoreLocalControllers
      \/ NoMoreDataPlanes \/ HandleLocalController \/ HandleDataPlane
      \/ MarkDataPlaneStageReady => UNCHANGED environment
  BY DEF WaitForLocal, LoopCondition, Exit, CallLocalHandshake, NoMoreLocalControllers,
         NoMoreDataPlanes, HandleLocalController, HandleDataPlane, MarkDataPlaneStageReady
<1>3. CollectStatisticsGlobal \/ CollectStatisticsGlobalSend \/ DisconnectLocals
      \/ CollectEnforcementRuleResults \/ EndRound \/ WakeUp => UNCHANGED environment
  BY DEF CollectStatisticsGlobal, CollectStatisticsGlobalSend, DisconnectLocals,
         CollectEnforcementRuleResults, EndRound, WakeUp
<1> QED
  BY <1>1, <1>2, <1>3 DEF MainLoop, Computes

\* Starts of local controllers aside, no step changes how often each started.
LEMMA ProcessSteps ==
    ASSUME Flow, ProcessesTyped, [Next]_vars
    PROVE  /\ ProcessesTyped'
           /\ \/ \E l \in Locals : LocalStart(l)
              \/ \A m \in Locals : KeptStarts(m)
<1> DEFINE Goal == ProcessesTyped' /\ \A m \in Locals : KeptStarts(m)
<1>1. ASSUME UNCHANGED <<local, stage>> PROVE Goal
  BY <1>1 DEF ProcessesTyped, KeptStarts
<1>2. ASSUME NEW l \in Locals, SessionSend(l) PROVE Goal
  BY <1>1, <1>2 DEF SessionSend, environment
<1>3. ASSUME NEW l \in Locals, SessionReply(l) PROVE Goal
  <2>1. UNCHANGED stage
    BY <1>3, Zenon DEF SessionReply, CallFails, HandleLocalHandshake, MarkStageReady,
                       CollectGlobalStatistics, CreateEnforcementRule
  <2> QED
    BY <1>3, <2>1, ReplyLocal DEF ProcessesTyped
<1>4. ASSUME NEW l \in Locals, LocalStop(l) PROVE Goal
  BY <1>4, StopsLocal DEF LocalStop, ProcessesTyped
<1>5. ASSUME NEW s \in Stages, StageStart(s) PROVE Goal
  <2> DEFINE l == LocalOf[s]
             p == local[l]
             some == p.preparing \cup {s}
             q == [p EXCEPT !.preparing = some]
  <2>1. local' = [local EXCEPT ![l] = q] /\ stage' = [stage EXCEPT ![s] = "running"]
    BY <1>5 DEF StageStart
  <2>2. l \in Locals /\ p \in LocalRecords /\ p.preparing \in SUBSET Stages /\ p.starts \in 0..MaxStarts
    BY CoreAssumption DEF ProcessesTyped, LocalRecords
  <2>3. q \in LocalRecords /\ q.starts = p.starts
    <3>1. some \in SUBSET Stages
      BY <2>2
    <3> HIDE DEF p, some
    <3> QED
      BY <2>2, <3>1, RecordUpdates
  <2> HIDE DEF q, l
  <2> QED
    BY <2>1, <2>2, <2>3, OneLocal DEF ProcessesTyped
<1>6. ASSUME NEW s \in Stages, StageStop(s) PROVE Goal
  BY <1>6 DEF StageStop, ProcessesTyped, KeptStarts
<1>7. EnqueueRule \/ CountLocal \/ CountDataPlane \/ UNCHANGED vars => Goal
  BY <1>1 DEF EnqueueRule, CountLocal, CountDataPlane, vars, environment
<1>8. MainLoop => UNCHANGED environment
  BY LoopLeavesEnvironment
<1>9. MainLoop => Goal
  BY <1>1, <1>8 DEF environment
<1> HIDE DEF Goal
<1>10. (\E l \in Locals : LocalStart(l)) \/ Goal
  BY <1>2, <1>3, <1>4, <1>5, <1>6, <1>7, <1>9 DEF Next
<1> QED
  BY <1>10, LocalStarts DEF Goal

StartsCounted ==
    \A l \in Locals :
        /\ session[l].threads \in Nat
        /\ session[l].threads + Times(local_queue, l) <= local[l].starts

LEMMA StartsCountedKept ==
    ASSUME Flow, ProcessesTyped, StartsCounted, [Next]_vars
    PROVE  StartsCounted'
<1>0. SessionsTyped /\ local_queue \in Seq(Locals)
  BY DEF Flow, Places
<1>1. \A l \in Locals : /\ Times(local_queue, l) \in Nat
                        /\ local[l].starts \in Nat
                        /\ session[l].threads \in Nat
  <2>1. \A l \in Locals : Times(local_queue, l) \in Nat
    BY <1>0, TimesFinite
  <2>2. \A l \in Locals : local[l].starts \in Nat
    BY CoreAssumption DEF ProcessesTyped, LocalRecords
  <2> QED
    BY <2>1, <2>2 DEF StartsCounted
<1>2. CASE \E l \in Locals : LocalStart(l)
  <2>1. PICK l \in Locals : LocalStart(l)
    BY <1>2
  <2>2. local_queue' = Append(local_queue, l) /\ UNCHANGED session
    BY <2>1 DEF LocalStart
  <2>3. \A m \in Locals : local'[m].starts = local[m].starts + (IF m = l THEN 1 ELSE 0)
    BY <2>1, LocalStarts
  <2>4. \A m \in Locals : Times(local_queue', m) = Times(local_queue, m) + (IF l = m THEN 1 ELSE 0)
    BY <1>0, <2>2, TimesAppended
  <2> QED
    BY <1>1, <2>2, <2>3, <2>4 DEF StartsCounted
<1>3. CASE HandleLocalController
  <2> DEFINE l == Head(local_queue)
             q == session[l]
             n == q.threads + 1
             a == Append(q.submission, LocalHandshake)
             r == [q EXCEPT !.threads = n, !.submission = a]
  <2>1. /\ local_queue # <<>> /\ local_queue' = Tail(local_queue) /\ UNCHANGED local
        /\ l \in Locals
    BY <1>0, <1>3, HeadTailProperties DEF HandleLocalController, environment
  <2>2. session' = [session EXCEPT ![l] = r]
    BY <1>0, <1>3, <2>1 DEF HandleLocalController, SessionsTyped
  <2>3. r.threads = n
    <3>1. SessionTyped(l, q)
      BY <1>0, <2>1 DEF SessionsTyped
    <3> HIDE DEF q, a, n
    <3> QED
      BY <3>1, ThreadsOf
  <2> HIDE DEF r
  <2>4. \A m \in Locals : session'[m].threads = session[m].threads + (IF l = m THEN 1 ELSE 0)
    <3>1. \A m \in Locals : session'[m] = IF m = l THEN r ELSE session[m]
      BY <1>0, <2>2 DEF SessionsTyped
    <3>2. \A m \in Locals : session[m].threads + 0 = session[m].threads
      BY <1>1
    <3> HIDE DEF l
    <3> QED
      BY <2>3, <3>1, <3>2
  <2>5. \A m \in Locals : Times(local_queue, m) = Times(local_queue', m) + (IF l = m THEN 1 ELSE 0)
                          /\ Times(local_queue', m) \in Nat
    <3>1. Tail(local_queue) \in Seq(Locals)
      BY <1>0, <2>1, HeadTailProperties
    <3> QED
      BY <1>0, <2>1, <3>1, TimesTail, TimesFinite
  <2> HIDE DEF l
  <2> QED
    BY <1>1, <2>1, <2>4, <2>5 DEF StartsCounted
<1>4. ASSUME UNCHANGED local_queue,
             \A m \in Locals : KeptThreads(m) \/ session'[m].threads = 0,
             \A m \in Locals : KeptStarts(m)
      PROVE  StartsCounted'
  BY <1>1, <1>4 DEF StartsCounted, KeptThreads, KeptStarts
<1>5. CASE ~MainLoop /\ ~\E l \in Locals : LocalStart(l)
  <2>1. \A m \in Locals : KeptStarts(m)
    BY <1>5, ProcessSteps
  <2>2. CASE \E l \in Locals : SessionSend(l) \/ SessionReply(l)
    <3>1. UNCHANGED local_queue
      BY <2>2, Replied DEF Flow, SessionSend, queues
    <3> QED
      BY <1>0, <1>4, <2>1, <2>2, <3>1, SessionStepThreads
  <2>3. CASE \/ \E l \in Locals : LocalStop(l)
             \/ \E s \in Stages : StageStart(s) \/ StageStop(s)
             \/ EnqueueRule \/ CountLocal \/ CountDataPlane
             \/ UNCHANGED vars
    <3>1. UNCHANGED <<local_queue, session>>
      BY <2>3 DEF LocalStop, StageStart, StageStop, EnqueueRule, CountLocal, CountDataPlane, vars, queues
    <3> QED
      BY <1>4, <2>1, <3>1 DEF KeptThreads
  <2> QED
    BY <1>5, <2>2, <2>3 DEF Next
<1>6. CASE MainLoop /\ ~HandleLocalController
  <2>1. UNCHANGED <<local_queue, local>>
    <3>1. Computes \/ CollectStatisticsResult => UNCHANGED <<local_queue, local>>
      BY ComputeSteps, AnswerSteps DEF Flow, queues, environment
    <3>2. WaitForLocal \/ LoopCondition \/ Exit \/ CallLocalHandshake \/ NoMoreLocalControllers
          \/ NoMoreDataPlanes \/ HandleDataPlane
          \/ MarkDataPlaneStageReady => UNCHANGED <<local_queue, local>>
      BY DEF WaitForLocal, LoopCondition, Exit, CallLocalHandshake, NoMoreLocalControllers,
             NoMoreDataPlanes, HandleDataPlane, MarkDataPlaneStageReady, queues, environment
    <3>3. CollectStatisticsGlobal \/ CollectStatisticsGlobalSend \/ DisconnectLocals
          \/ CollectEnforcementRuleResults \/ EndRound \/ WakeUp => UNCHANGED <<local_queue, local>>
      BY DEF CollectStatisticsGlobal, CollectStatisticsGlobalSend, DisconnectLocals,
             CollectEnforcementRuleResults, EndRound, WakeUp, queues, environment
    <3> QED
      BY <1>6, <3>1, <3>2, <3>3 DEF MainLoop, Computes
  <2> QED
    BY <1>4, <1>6, <2>1, LoopStepThreads DEF KeptStarts
<1> QED
  BY <1>2, <1>3, <1>5, <1>6

-------------------------------------------------------------------------------
(* What the trackers name, and the fault.                                     *)

NamesTyped ==
    /\ DOMAIN local_to_stages \subseteq Locals
    /\ DOMAIN stage_info_detailed \subseteq Keys
    /\ \A k \in DOMAIN stage_info_detailed : stage_info_detailed[k] \in Locals
    /\ fault \in {"none", "no_session", "bad_cast", "unknown_stage", "erased_session"}

LEMMA NamesTypedKept ==
    ASSUME Flow, NamesTyped, [Next]_vars
    PROVE  NamesTyped'
<1> DEFINE Faults == {"none", "no_session", "bad_cast", "unknown_stage", "erased_session"}
<1>1. ASSUME UNCHANGED <<local_to_stages, stage_info_detailed>>, fault' \in Faults
      PROVE  NamesTyped'
  BY <1>1 DEF NamesTyped
<1>2. fault \in Faults
  BY DEF NamesTyped
<1>3. CASE ~MainLoop
  BY <1>1, <1>2, <1>3, Environment DEF Next, Outside, trackers
<1> SUFFICES ASSUME MainLoop PROVE NamesTyped'
  BY <1>3
<1>4. CASE WaitForLocal \/ LoopCondition \/ Exit \/ CallLocalHandshake \/ NoMoreLocalControllers
           \/ NoMoreDataPlanes
  BY <1>1, <1>2, <1>4 DEF WaitForLocal, LoopCondition, Exit, CallLocalHandshake, Goto,
                          NoMoreLocalControllers, NoMoreDataPlanes, trackers
<1>5. CASE CollectStatisticsGlobal \/ CollectStatisticsGlobalSend \/ DisconnectLocals
           \/ CollectEnforcementRuleResults \/ EndRound \/ WakeUp
  BY <1>1, <1>2, <1>5 DEF CollectStatisticsGlobal, CollectStatisticsGlobalSend, DisconnectLocals,
                          CollectEnforcementRuleResults, EndRound, WakeUp, Goto, Crash, trackers
<1>6. CASE Computes
  <2>1. UNCHANGED trackers
        /\ \/ NothingToEnforce
           \/ \E new_rates : \E send \in SUBSET DOMAIN job_location_tracker :
                  SendEnforcementRules(send, new_rates)
    BY <1>6, ComputeSteps DEF Flow
  <2>2. fault' \in Faults
    BY <1>2, <2>1 DEF NothingToEnforce, SendEnforcementRules, Goto, Crash
  <2> QED
    BY <1>1, <2>1, <2>2 DEF trackers
<1>7. CASE HandleLocalController
  <2> DEFINE l == Head(local_queue)
  <2>1. l \in Locals
    BY <1>7, HeadTailProperties DEF HandleLocalController, Flow, Places
  <2>2. local_to_stages' = Emplace(local_to_stages, l, {}) /\ UNCHANGED <<stage_info_detailed, fault>>
    BY <1>7 DEF HandleLocalController, Goto
  <2> HIDE DEF l
  <2>3. DOMAIN local_to_stages' \subseteq Locals
    BY <2>1, <2>2 DEF Emplace, Put, NamesTyped
  <2> QED
    BY <2>2, <2>3 DEF NamesTyped
<1>8. CASE HandleDataPlane
  <2> DEFINE s == Head(local_to_data_queue_)
             l == LocalOf[s]
  <2>1. l \in Locals
    <3>1. s \in Stages
      BY <1>8, HeadTailProperties DEF HandleDataPlane, Flow, Places
    <3> QED
      BY <3>1, CoreAssumption
  <2>2. /\ local_to_stages' = Put(local_to_stages, l, StagesAt(l) \cup {Key(s)})
        /\ UNCHANGED stage_info_detailed
        /\ fault' \in {fault, "no_session"}
    BY <1>8 DEF HandleDataPlane, Goto, Crash
  <2> HIDE DEF l, s
  <2>3. DOMAIN local_to_stages' \subseteq Locals
    BY <2>1, <2>2 DEF Put, NamesTyped
  <2> QED
    BY <2>2, <2>3 DEF NamesTyped
<1>9. CASE MarkDataPlaneStageReady
  <2>1. PICK w \in todo : /\ pc = "stage_ready"
                          /\ stage_info_detailed' = Put(stage_info_detailed, Key(w[2]), w[1])
                          /\ UNCHANGED <<local_to_stages, fault>>
    BY <1>9 DEF MarkDataPlaneStageReady, Goto
  <2>2. w[1] \in Locals /\ Key(w[2]) \in Keys
    <3>1. PICK s \in Stages : todo = {<<LocalOf[s], s>>}
      BY <2>1 DEF Flow, Places
    <3>2. w = <<LocalOf[s], s>>
      BY <3>1
    <3> QED
      BY <3>2, CoreAssumption DEF Keys
  <2>3. /\ DOMAIN stage_info_detailed' \subseteq Keys
        /\ \A k \in DOMAIN stage_info_detailed' : stage_info_detailed'[k] \in Locals
    BY <2>1, <2>2 DEF Put, NamesTyped
  <2> QED
    BY <2>1, <2>3 DEF NamesTyped
<1>10. CASE CollectStatisticsResult
  <2>1. fault' \in Faults
    <3>1. fault' \in {fault, "bad_cast", "unknown_stage"}
      BY <1>10 DEF CollectStatisticsResult, Crash
    <3> QED
      BY <1>2, <3>1
  <2>2. CASE UNCHANGED <<trackers, rates, change_in_system>>
    BY <1>1, <2>1, <2>2 DEF trackers
  <2>3. ASSUME NEW l \in Locals, NEW lost, RemoveStages(lost),
               local_to_stages' =
                   IF Remaining(l, lost) # {}
                   THEN [local_to_stages EXCEPT ![l] = Remaining(l, lost)]
                   ELSE Restrict(local_to_stages, DOMAIN local_to_stages \ {l})
        PROVE  NamesTyped'
    <3>1. DOMAIN local_to_stages' \subseteq Locals
      BY <2>3 DEF Restrict, NamesTyped
    <3>2. stage_info_detailed' = Restrict(stage_info_detailed, DOMAIN stage_info_detailed \ lost)
      BY <2>3 DEF RemoveStages
    <3>3. /\ DOMAIN stage_info_detailed' \subseteq Keys
          /\ \A k \in DOMAIN stage_info_detailed' : stage_info_detailed'[k] \in Locals
      BY <3>2 DEF Restrict, NamesTyped
    <3> QED
      BY <2>1, <3>1, <3>3 DEF NamesTyped
  <2> QED
    BY <1>10, <2>2, <2>3, AnswerSteps
<1> QED
  BY <1>4, <1>5, <1>6, <1>7, <1>8, <1>9, <1>10 DEF MainLoop, Computes

-------------------------------------------------------------------------------
(* Limits are natural numbers, if no negative rate is computed.               *)

RulesIfStatic == ControlType = "STATIC" => RatesFromRules

RequestsTyped ==
    \A l \in Locals : \A r \in Requests(session[l]) :
        r.type = "CREATE_ENF_RULE" => r.limit \in Nat

LimitsTyped == limit \in [Stages -> [Ops -> Nat]]

\* What any strategy sends.
LEMMA RatesSent ==
    ASSUME NoNegativeRates, IOPS_THRESHOLD >= 2,
           Flow, TrackersTyped, PolicyQueue, RatesTyped, RulesIfStatic, Computes
    PROVE  \/ NothingToEnforce
           \/ \E send \in SUBSET DOMAIN job_location_tracker : \E new_rates :
                 /\ \A job \in send : new_rates[job] \in Nat
                 /\ SendEnforcementRules(send, new_rates)
<1> DEFINE jobs == DOMAIN job_location_tracker
           Sends(send, new_rates) == /\ \A job \in send : new_rates[job] \in Nat
                                     /\ SendEnforcementRules(send, new_rates)
           Goal == NothingToEnforce \/ \E send \in SUBSET jobs : \E new_rates : Sends(send, new_rates)
<1>1. ASSUME ComputeAndEnforceStaticRules PROVE Goal
  <2>1. ControlType = "STATIC" /\ UNCHANGED next_rule
    BY <1>1, StaticSteps, ComputesTake DEF Computes
  <2>2. \/ NothingToEnforce
        \/ /\ DequeueRule
           /\ \E send \in SUBSET jobs :
                 /\ \A job \in jobs : job \in send <=> ~BelowThreshold(job, StaticRates)
                 /\ SendEnforcementRules(send, StaticRates)
    BY <1>1, StaticSteps
  <2>3. ASSUME DequeueRule, NEW send \in SUBSET jobs,
               \A job \in jobs : job \in send <=> ~BelowThreshold(job, StaticRates),
               SendEnforcementRules(send, StaticRates)
        PROVE  Goal
    <3>1. \A job \in send : StaticRates[job] \in Nat
      BY <2>1, <2>3, StaticSent DEF RulesIfStatic
    <3>2. Sends(send, StaticRates)
      BY <2>3, <3>1
    <3> HIDE DEF Sends
    <3> QED
      BY <3>2
  <2> HIDE DEF Goal
  <2>4. NothingToEnforce => Goal
    BY DEF Goal
  <2> QED
    BY <2>2, <2>3, <2>4
<1>2. ASSUME ComputeAndEnforceDynamicVanillaRules PROVE Goal
  <2>1. maximum_limit >= Len(JobOrder)
    <3>1. ControlType = "DYNAMIC_VANILLA"
      BY <1>2, Zenon DEF ComputeAndEnforceDynamicVanillaRules
    <3> QED
      BY <3>1 DEF NoNegativeRates
  <2>2. \/ NothingToEnforce
        \/ /\ jobs # {}
           /\ \E send \in SUBSET jobs : SendEnforcementRules(send, VanillaNow.rates)
    BY <1>2, VanillaSteps
  <2>3. jobs # {} => VanillaNow.rates \in [jobs -> Nat]
    BY <2>1, VanillaNowIs
  <2>4. ASSUME NEW send \in SUBSET jobs, jobs # {}, SendEnforcementRules(send, VanillaNow.rates)
        PROVE  Goal
    <3>1. Sends(send, VanillaNow.rates)
      BY <2>3, <2>4
    <3> HIDE DEF Sends
    <3> QED
      BY <3>1
  <2> HIDE DEF Goal
  <2>5. NothingToEnforce => Goal
    BY DEF Goal
  <2> QED
    BY <2>2, <2>4, <2>5
<1>3. ASSUME ComputeAndEnforceDynamicLeftoverRules PROVE Goal
  <2>1. LeftoverRates \subseteq Nat
    <3>1. ControlType = "DYNAMIC_LEFTOVER"
      BY <1>3, Zenon DEF ComputeAndEnforceDynamicLeftoverRules
    <3> QED
      BY <3>1 DEF NoNegativeRates
  <2>2. \/ NothingToEnforce
        \/ \E new_rates \in [jobs -> LeftoverRates] : \E send \in SUBSET jobs :
              SendEnforcementRules(send, new_rates)
    BY <1>3 DEF ComputeAndEnforceDynamicLeftoverRules
  <2>3. ASSUME NEW new_rates \in [jobs -> LeftoverRates], NEW send \in SUBSET jobs,
               SendEnforcementRules(send, new_rates)
        PROVE  Goal
    <3>1. Sends(send, new_rates)
      BY <2>1, <2>3
    <3> HIDE DEF Sends
    <3> QED
      BY <3>1
  <2> HIDE DEF Goal
  <2>4. NothingToEnforce => Goal
    BY DEF Goal
  <2> QED
    BY <2>2, <2>3, <2>4
<1> HIDE DEF Goal
<1>4. Goal
  BY <1>1, <1>2, <1>3 DEF Computes
<1> QED
  BY <1>4 DEF Goal

LEMMA RequestsTypedKept ==
    ASSUME NoNegativeRates, IOPS_THRESHOLD >= 2,
           Flow, TrackersTyped, PolicyQueue, RatesTyped, RulesIfStatic, RequestsTyped, [Next]_vars
    PROVE  RequestsTyped'
<1>1. ASSUME \A l \in Locals : NoNewRules(l) PROVE RequestsTyped'
  BY <1>1 DEF RequestsTyped, NoNewRules, Harmless
<1>2. ASSUME UNCHANGED session PROVE RequestsTyped'
  BY <1>2 DEF RequestsTyped
<1>3. CASE ~MainLoop
  <2>1. CASE \E l \in Locals : SessionSend(l) \/ SessionReply(l)
    BY <1>1, <2>1, SessionStepRequests DEF Flow
  <2>2. CASE \/ \E l \in Locals : LocalStart(l) \/ LocalStop(l)
             \/ \E s \in Stages : StageStart(s) \/ StageStop(s)
             \/ EnqueueRule \/ CountLocal \/ CountDataPlane
             \/ UNCHANGED vars
    <3>1. UNCHANGED session
      BY <2>2 DEF LocalStart, LocalStop, StageStart, StageStop, EnqueueRule, CountLocal, CountDataPlane, vars
    <3> QED
      BY <1>2, <3>1
  <2> QED
    BY <1>3, <2>1, <2>2 DEF Next
<1>4. CASE MainLoop /\ ~Computes
  BY <1>1, <1>4, LoopStepRequests
<1>5. CASE Computes
  <2>1. NothingToEnforce => RequestsTyped'
    BY <1>2 DEF NothingToEnforce
  <2>2. ASSUME NEW send \in SUBSET DOMAIN job_location_tracker, NEW new_rates,
               \A job \in send : new_rates[job] \in Nat,
               SendEnforcementRules(send, new_rates)
        PROVE  RequestsTyped'
    <3>1. send \subseteq Jobs
      BY DEF Flow, Places
    <3>2. \A l \in Locals : \A r \in Requests(session'[l]) :
              r \in Requests(session[l]) \/ RuleAbout(r, send, new_rates)
      <4>1. SessionsTyped
        BY DEF Flow
      <4> QED
        BY ONLY <2>2, <3>1, <4>1, RuleRequests
    <3>3. ASSUME NEW r, RuleAbout(r, send, new_rates) PROVE r.limit \in Nat
      <4>1. PICK job \in send : \E envs : \E op :
                r = CreateEnfRule(job, op, envs, LimitPerStage(new_rates[job], TotalStages(job)))
        BY <3>3 DEF RuleAbout
      <4> DEFINE n == TotalStages(job)
                 rate == new_rates[job]
                 part == LimitPerStage(rate, n)
      <4>2. n \in Nat /\ n > 0 /\ rate \in Nat
        BY <2>2, StagesCounted
      <4>3. part \in Nat
        <5> HIDE DEF n, rate
        <5> QED
          BY <4>2, PartOfRate
      <4> HIDE DEF part
      <4>4. r.limit = part
        BY <4>1 DEF CreateEnfRule, part
      <4> QED
        BY <4>3, <4>4
    <3> QED
      BY <3>2, <3>3 DEF RequestsTyped
  <2> QED
    BY <1>5, <2>1, <2>2, RatesSent
<1> QED
  BY <1>3, <1>4, <1>5

LEMMA LimitsTypedKept ==
    ASSUME Flow, RequestsTyped, LimitsTyped, [Next]_vars
    PROVE  LimitsTyped'
<1>1. ASSUME UNCHANGED limit PROVE LimitsTyped'
  BY <1>1 DEF LimitsTyped
<1>2. ASSUME NEW l \in Locals, SessionReply(l) PROVE LimitsTyped'
  <2>1. ASSUME NEW i \in 1..Len(session[l].sending), NEW some,
               LimitedBy(session[l].sending[i], some)
        PROVE  LimitsTyped'
    <3> DEFINE q == session[l]
               r == q.sending[i]
    <3>1. SessionTyped(l, q) /\ i \in 1..Len(q.sending)
      BY DEF Flow, SessionsTyped
    <3>2. r \in Requests(q)
      <4> HIDE DEF q
      <4> QED
        BY <3>1, RespondRequests
    <3>3. r.type = "CREATE_ENF_RULE" /\ limit' = [s \in Stages |-> IF s \in some
              THEN [limit[s] EXCEPT ![r.op] = r.limit] ELSE limit[s]]
      BY <2>1 DEF LimitedBy
    <3>4. r.limit \in Nat
      BY <3>2, <3>3 DEF RequestsTyped
    <3> HIDE DEF r
    <3> QED
      BY <3>3, <3>4 DEF LimitsTyped
  <2>2. CASE \E i \in 1..Len(session[l].sending) : \E some :
                 LimitedBy(session[l].sending[i], some)
    BY ONLY <2>1, <2>2
  <2> QED
    BY <1>1, <1>2, <2>2, LimitSteps
<1>3. CASE \/ \E l \in Locals : SessionSend(l) \/ LocalStart(l) \/ LocalStop(l)
           \/ \E s \in Stages : StageStart(s) \/ StageStop(s)
           \/ EnqueueRule \/ CountLocal \/ CountDataPlane
           \/ UNCHANGED vars
  <2>1. UNCHANGED limit
    BY <1>3 DEF SessionSend, LocalStart, LocalStop, StageStart, StageStop, EnqueueRule, CountLocal, CountDataPlane, vars,
                environment
  <2> QED
    BY <1>1, <2>1
<1>4. CASE MainLoop
  <2>1. UNCHANGED environment
    BY <1>4, LoopLeavesEnvironment
  <2> QED
    BY <1>1, <2>1 DEF environment
<1> QED
  BY <1>2, <1>3, <1>4 DEF Next

\* What the type invariant needs besides the flow of the main loop.
AllTyped ==
    /\ ProcessesTyped /\ StartsCounted /\ NamesTyped
    /\ RulesIfStatic /\ RequestsTyped /\ LimitsTyped

LEMMA AllTypedAtStart == Init => AllTyped
<1> SUFFICES ASSUME Init PROVE AllTyped
  OBVIOUS
<1>1. ProcessesTyped
  <2>1. Stopped \in LocalRecords
    BY CoreAssumption DEF Stopped, LocalRecords
  <2> QED
    BY <2>1 DEF Init, ProcessesTyped
<1>2. \A l \in Locals : session[l] = Idle
  BY DEF Init
<1>3. StartsCounted
  <2>1. local_queue = <<>> /\ \A l \in Locals : local[l] = Stopped
    BY DEF Init
  <2>2. \A l : Times(<<>>, l) = 0
    <3>1. \A l : {i \in 1..Len(<<>>) : <<>>[i] = l} = {}
      OBVIOUS
    <3> QED
      BY <3>1, FS_EmptySet DEF Times
  <2> QED
    BY <1>2, <2>1, <2>2 DEF StartsCounted, Stopped, Idle
<1>4. NamesTyped
  BY DEF Init, NamesTyped
<1>5. RulesIfStatic
  BY DEF Init, RulesIfStatic, RatesFromRules
<1>6. RequestsTyped
  <2>1. Requests(Idle) = {}
    BY DEF Requests, Idle, ToSet
  <2> QED
    BY <1>2, <2>1 DEF RequestsTyped
<1>7. LimitsTyped
  BY CoreAssumption DEF Init, LimitsTyped
<1> QED
  BY <1>1, <1>3, <1>4, <1>5, <1>6, <1>7 DEF AllTyped

LEMMA AllTypedKept ==
    ASSUME NoNegativeRates, IOPS_THRESHOLD >= 2,
           Flow, TrackersTyped, PolicyQueue, RatesTyped, AllTyped, [Next]_vars
    PROVE  AllTyped'
<1>1. ProcessesTyped /\ StartsCounted /\ NamesTyped /\ RulesIfStatic /\ RequestsTyped /\ LimitsTyped
  BY DEF AllTyped
<1>2. ProcessesTyped' /\ StartsCounted'
  BY <1>1, ProcessSteps, StartsCountedKept
<1>3. NamesTyped' /\ LimitsTyped'
  BY <1>1, NamesTypedKept, LimitsTypedKept
<1>4. RulesIfStatic'
  BY <1>1, RatesFromRulesKept DEF RulesIfStatic
<1>5. RequestsTyped'
  BY <1>1, RequestsTypedKept
<1> QED
  BY <1>2, <1>3, <1>4, <1>5 DEF AllTyped

\* The rules in the queue are rules of the policies file.
LEMMA QueuedRules ==
    ASSUME PolicyQueue
    PROVE  ToSet(pending_rules_queue_) \subseteq ToSet(Policies)
<1> DEFINE n == Len(pending_rules_queue_)
<1>1. n \in Nat /\ Taken \in Nat /\ Taken + n <= Len(Policies) /\ Len(Policies) \in Nat
  BY PoliciesTyped DEF PolicyQueue, Taken
<1>2. ASSUME NEW i \in 1..n PROVE pending_rules_queue_[i] \in ToSet(Policies)
  <2>1. pending_rules_queue_[i] = Policies[Taken + i]
    BY DEF PolicyQueue
  <2>2. Taken + i \in 1..Len(Policies)
    BY <1>1
  <2>3. \A k \in 1..Len(Policies) : Policies[k] \in ToSet(Policies)
    BY DEF ToSet
  <2> QED
    BY <2>1, <2>2, <2>3
<1>3. ToSet(pending_rules_queue_) = {pending_rules_queue_[i] : i \in 1..n}
  BY DEF ToSet
<1> HIDE DEF n
<1> QED
  BY <1>2, <1>3

\* The type invariant, conjunct by conjunct.
LEMMA TypesFollow ==
    ASSUME Flow, TrackersTyped, PolicyQueue, RatesTyped, Counted, PendingCounted, AllTyped
    PROVE  TypeOK
<1>1. /\ ToSet(local_queue) \subseteq Locals /\ ToSet(local_to_data_queue_) \subseteq Stages
      /\ ToSet(pending_rules_queue_) \subseteq ToSet(Policies)
  <2>1. local_queue \in Seq(Locals) /\ local_to_data_queue_ \in Seq(Stages)
    BY DEF Flow, Places
  <2>2. \A S : \A q \in Seq(S) : ToSet(q) \subseteq S
    BY DEF ToSet
  <2> QED
    BY <2>1, <2>2, QueuedRules
<1>2. /\ local_sessions_ \subseteq Locals /\ sessions_sent \subseteq Locals
      /\ sessions_to_delete \subseteq local_sessions_
      /\ active_locals \in Nat
  BY DEF Flow, Places, RoundsCounted, Departing, Counted
<1>3. /\ DOMAIN local_to_stages \subseteq Locals
      /\ \A l \in DOMAIN local_to_stages : local_to_stages[l] \subseteq Keys
  <2>1. DOMAIN local_to_stages \subseteq Locals
    BY DEF AllTyped, NamesTyped
  <2>2. \A l \in DOMAIN local_to_stages : local_to_stages[l] \subseteq KeysAt(l)
    BY <2>1 DEF TrackersTyped, StagesAt
  <2>3. \A l : KeysAt(l) \subseteq Keys
    BY DEF KeysAt, Keys
  <2> QED
    BY <2>1, <2>2, <2>3
<1>4. /\ DOMAIN job_location_tracker \subseteq Jobs
      /\ \A job \in DOMAIN job_location_tracker :
            /\ DOMAIN job_location_tracker[job] \subseteq Locals
            /\ \A l \in DOMAIN job_location_tracker[job] :
                  job_location_tracker[job][l] \in (SUBSET Envs) \ {{}}
  BY DEF Flow, Places, TrackersTyped
<1>5. /\ DOMAIN stage_info_detailed \subseteq Keys
      /\ \A k \in DOMAIN stage_info_detailed : stage_info_detailed[k] \in Locals
      /\ fault \in {"none", "no_session", "bad_cast", "unknown_stage", "erased_session"}
  BY DEF AllTyped, NamesTyped
<1>6. \A f \in {job_demands, job_rates, job_previous_rates} :
          DOMAIN f \subseteq Jobs /\ \A job \in DOMAIN f : f[job] \in Nat \cup {-1}
  <2>1. DOMAIN job_previous_rates \subseteq Jobs
    BY <1>4 DEF TrackersTyped
  <2> QED
    BY <2>1 DEF RatesTyped, RateOrNone
<1>7. /\ active_op \in Ops /\ next_rule \in 0..Len(Policies)
      /\ change_in_system \in BOOLEAN /\ rounds_counter \in 0..COLLECT_ROUNDS
  BY DEF PolicyQueue, RatesTyped, Flow, RoundsCounted
<1>8. /\ todo \subseteq Locals \X ({"handshake", "stats"} \cup Stages \cup Jobs)
      /\ pc \in {"wait", "loop", "loop_data_planes", "exiting", "local_controllers",
                 "local_handshake", "data_planes", "stage_ready", "control", "collect",
                 "compute", "results", "sleep", "exited", "crashed", "hung"}
      /\ pending_locals \in 0..Len(local_queue)
      /\ pending_data_planes \in 0..Len(local_to_data_queue_)
  BY DEF Flow, Places, Waiting, PendingCounted
<1>9. \A l \in Locals : session[l].threads \in 0..MaxStarts
  <2>1. ASSUME NEW l \in Locals PROVE session[l].threads \in 0..MaxStarts
    <3> DEFINE n == session[l].threads
               waiting == Times(local_queue, l)
               starts == local[l].starts
    <3>1. n \in Nat /\ n + waiting <= starts
      BY DEF AllTyped, StartsCounted
    <3>2. waiting \in Nat
      BY TimesFinite DEF Flow, Places
    <3>3. starts \in 0..MaxStarts
      BY DEF AllTyped, ProcessesTyped, LocalRecords
    <3> HIDE DEF n, waiting, starts
    <3>4. n \in 0..MaxStarts
      BY <3>1, <3>2, <3>3, CoreAssumption
    <3> QED
      BY <3>4 DEF n
  <2> QED
    BY <2>1
<1>10. /\ local \in [Locals -> [up : BOOLEAN, starts : 0..MaxStarts, handshaken : BOOLEAN,
                               preparing : SUBSET Stages, data_sessions : SUBSET Stages]]
       /\ stage \in [Stages -> {"new", "running", "dead"}]
       /\ limit \in [Stages -> [Ops -> Nat]]
  BY DEF AllTyped, ProcessesTyped, LocalRecords, LimitsTyped
<1> QED
  BY <1>1, <1>2, <1>3, <1>4, <1>5, <1>6, <1>7, <1>8, <1>9, <1>10 DEF TypeOK

\* The controller's state keeps its type.  The threads of a session are no more
\* than the starts of its local controller, although emplace starts one for
\* every registration.  Rates and limits stay natural numbers if no negative rate
\* is computed; under STATIC it takes a threshold of at least 2 IOPS that a job
\* without a demand, whose rate is -1, is not sent it.
\* (The members of CoreControlApplication and the queues of its sessions; the
\* code's threshold is 10 IOPS, core_control_application.hpp:16.)
THEOREM CoreTypeCorrect ==
    ASSUME NoNegativeRates, IOPS_THRESHOLD >= 2
    PROVE  SafetySpec => []TypeOK
<1>1. Flow /\ TrackersTyped /\ PolicyQueue /\ RatesTyped /\ AllTyped /\ [Next]_vars => AllTyped'
  BY AllTypedKept
<1>2. Flow /\ TrackersTyped /\ PolicyQueue /\ RatesTyped /\ Counted /\ PendingCounted
         /\ AllTyped => TypeOK
  BY TypesFollow
<1>3. SafetySpec => []RatesTyped
  BY RatesTypedHolds
<1> QED
  BY <1>1, <1>2, <1>3, AllTypedAtStart, FlowHolds, TrackersTypedHolds, PolicyQueueHolds,
     CountedAlways, PendingAlways, PTL DEF SafetySpec

-------------------------------------------------------------------------------
(* DYNAMIC_VANILLA: the limits follow the rates in force.  A rule carries the *)
(* part of its job's rate that the trackers give each stage, and neither      *)
(* changes until the rule's answer is in.                                      *)

\* A stage is known by its job and its process id.
KeysDistinct == \A s, t \in Stages : Key(s) = Key(t) => s = t

\* The rules of the policies file are about one operation.
OneOperation == \A i \in 1..Len(Policies) : Policies[i].op = FirstOp

SameOp == active_op = FirstOp

\* A stage's part of the rate of its job, and the rule that says so.
Part(job) == LimitPerStage(job_previous_rates[job], TotalStages(job))
RuleNow(l, job) == CreateEnfRule(job, active_op, TrackedEnvs(job, l), Part(job))

\* Rules are under way only while their answers are awaited, and say what the
\* trackers say; a stage is made ready only while the loop waits for that.
KnownCall(l, r) ==
    /\ r.type = "CREATE_ENF_RULE" => /\ pc = "results" /\ l \in local_sessions_
                                     /\ r = RuleNow(l, r.job)
    /\ r.type = "STAGE_READY" => pc = "stage_ready" /\ change_in_system

CallsKnown == ~Failed => \A l \in Locals : \A r \in Requests(session[l]) : KnownCall(l, r)

\* A local controller with a session has the housekeeping rules, or is about to.
Welcomed ==
    \A l \in local_sessions_ : local[l].up =>
        \/ local[l].handshaken
        \/ pc = "local_handshake" /\ LocalHandshake \in Requests(session[l])

StartedOnce == \A l \in local_sessions_ : local[l].starts >= 1

\* A local controller knows no stage that has not started.
NoneNew == \A l \in Locals : \A s \in local[l].preparing \cup local[l].data_sessions : stage[s] # "new"

LimitMaps == \A s \in Stages : limit[s] = [op \in Ops |-> limit[s][op]]

\* While no stage came or went since the last round, or once the round has
\* computed the rates, each working stage has its part of its job's rate or is
\* about to get it.
Follows(s) ==
    \/ limit[s][active_op] = Part(JobOf[s])
    \/ RuleNow(LocalOf[s], JobOf[s]) \in Requests(session[LocalOf[s]])

LimitsFollowed ==
    ~Failed /\ (change_in_system => pc \in {"results", "sleep"}) =>
        \A s \in Stages : Settled(s) => Follows(s)

\* When the answers awaited are in, no request is without an answer.
LEMMA QuietSessions ==
    ASSUME Flow, InStep, ~Leftover,
           todo = {} \/ \E w : todo = {w} /\ w[1] \in Locals /\ Answered(w[1])
    PROVE  \A l \in Locals : Requests(session[l]) = {}
<1> SUFFICES ASSUME NEW l \in Locals PROVE Requests(session[l]) = {}
  OBVIOUS
<1> DEFINE q == session[l]
<1>1. Later(l) = 0
  BY DEF Flow, RoundsCounted, Later, Collecting
<1>2. SessionTyped(l, q)
  BY DEF Flow, SessionsTyped
<1>3. PICK a, b, c, d : Fields(l, q, a, b, c, d)
  <2> HIDE DEF q
  <2> QED
    BY <1>2, SessionParts
<1>4. \/ Pending(q) = 0
      \/ Pending(q) = 1 /\ q.completion # <<>>
  <2>1. Pending(q) = Cardinality(Due(l, todo)) + 0
    BY <1>1 DEF InStep, OutstandingNow
  <2>2. CASE todo = {}
    <3>1. Due(l, todo) = {}
      BY <2>2 DEF Due
    <3> QED
      BY <2>1, <3>1, FS_EmptySet
  <2>3. CASE \E w : todo = {w} /\ w[1] \in Locals /\ Answered(w[1])
    <3>1. PICK w : todo = {w} /\ w[1] \in Locals /\ Answered(w[1])
      BY <2>3
    <3>2. CASE w[1] = l
      <4>1. Due(l, todo) = {w}
        BY <3>1, <3>2 DEF Due
      <4>2. Cardinality({w}) = 1
        BY FS_Singleton
      <4>3. Pending(q) = 1
        <5> HIDE DEF q
        <5> QED
          BY <2>1, <4>1, <4>2
      <4>4. q.completion # <<>>
        BY <3>1, <3>2 DEF Answered
      <4> QED
        BY <4>3, <4>4
    <3>3. CASE w[1] # l
      <4>1. Due(l, todo) = {}
        BY <3>1, <3>3 DEF Due
      <4> QED
        BY <2>1, <4>1, FS_EmptySet
    <3> QED
      BY <3>2, <3>3
  <2> QED
    BY <2>2, <2>3
<1> HIDE DEF q
<1>5. Len(a) = 0 /\ Len(b) = 0
  <2>1. c # <<>> => Len(c) > 0
    BY <1>3, ListLen DEF Fields
  <2> QED
    BY <1>3, <1>4, <2>1 DEF Fields
<1>6. a = <<>> /\ b = <<>>
  BY <1>3, <1>5, ListLen DEF Fields
<1>7. ToSet(<<>>) = {}
  BY DEF ToSet
<1>8. Requests(q) = {}
  BY <1>3, <1>6, <1>7 DEF Fields, Requests
<1> QED
  BY <1>8 DEF q

\* Where the main loop waits for answers to collect or to rules, or for none.
LEMMA QuietPlaces ==
    ASSUME Flow, InStep, ~Leftover
    PROVE  /\ pc \in {"wait", "loop", "loop_data_planes", "exiting", "local_controllers",
                      "data_planes", "control", "compute", "sleep", "exited"} =>
                  \A l \in Locals : Requests(session[l]) = {}
           /\ CallLocalHandshake \/ MarkDataPlaneStageReady \/ DisconnectLocals \/ EndRound =>
                  \A l \in Locals : Requests(session[l]) = {}
<1>1. pc \in {"wait", "loop", "loop_data_planes", "exiting", "local_controllers",
              "data_planes", "control", "compute", "sleep", "exited"} => todo = {}
  BY DEF Flow, Places, Waiting
<1>2. DisconnectLocals \/ EndRound => todo = {}
  BY DEF DisconnectLocals, EndRound
<1>3. CallLocalHandshake \/ MarkDataPlaneStageReady =>
          \E w : todo = {w} /\ w[1] \in Locals /\ Answered(w[1])
  <2>1. CallLocalHandshake \/ MarkDataPlaneStageReady =>
            /\ pc \in {"local_handshake", "stage_ready"}
            /\ \E w \in todo : Answered(w[1])
    BY DEF CallLocalHandshake, MarkDataPlaneStageReady
  <2>2. pc \in {"local_handshake", "stage_ready"} => \E w : todo = {w} /\ w[1] \in Locals
    <3>1. pc = "local_handshake" => \E w : todo = {w} /\ w[1] \in Locals
      BY DEF Flow, Places
    <3>2. ASSUME pc = "stage_ready" PROVE \E w : todo = {w} /\ w[1] \in Locals
      <4>1. PICK s \in Stages : todo = {<<LocalOf[s], s>>}
        BY <3>2 DEF Flow, Places
      <4>2. LocalOf[s] \in Locals
        BY CoreAssumption
      <4> DEFINE w == <<LocalOf[s], s>>
      <4>3. w[1] \in Locals
        BY <4>2
      <4> HIDE DEF w
      <4> QED
        BY <4>1, <4>3 DEF w
    <3> QED
      BY <3>1, <3>2
  <2> QED
    BY <2>1, <2>2
<1> QED
  BY <1>1, <1>2, <1>3, QuietSessions

\* Outside the main loop, requests only get their answers.
LEMMA RequestsSent ==
    ASSUME SessionsTyped, NEW l \in Locals, SessionSend(l)
    PROVE  \A m \in Locals : Requests(session'[m]) = Requests(session[m])
<1> DEFINE q == session[l]
           r == [q EXCEPT !.submission = Tail(@), !.sending = Append(@, Head(q.submission))]
<1>1. session' = [session EXCEPT ![l] = r] /\ q.submission # <<>>
  BY DEF SessionSend, SessionsTyped
<1>2. Requests(r) = Requests(q)
  <2>1. SessionTyped(l, q)
    BY DEF SessionsTyped
  <2> HIDE DEF q
  <2> QED
    BY <1>1, <2>1, SendRequests
<1> HIDE DEF r
<1> QED
  BY <1>1, <1>2 DEF SessionsTyped

LEMMA RequestsAnsweredBy ==
    ASSUME SessionsTyped, NEW l \in Locals, NEW i \in 1..Len(session[l].sending), NEW response,
           Respond(l, i, response)
    PROVE  /\ session[l].sending[i] \in Requests(session[l])
           /\ \A m \in Locals : Requests(session'[m]) \subseteq Requests(session[m])
           /\ \A m \in Locals : \A r \in Requests(session[m]) :
                  r \in Requests(session'[m]) \/ (m = l /\ r = session[l].sending[i])
<1> DEFINE q == session[l]
           r == WithResponse(q, i, response)
<1>1. session' = [session EXCEPT ![l] = r]
  BY DEF Respond, WithResponse, SessionsTyped
<1>2. /\ Requests(r) \subseteq Requests(q) /\ q.sending[i] \in Requests(q)
      /\ Requests(q) \subseteq Requests(r) \cup {q.sending[i]}
  <2>1. SessionTyped(l, q)
    BY DEF SessionsTyped
  <2>2. i \in 1..Len(q.sending)
    OBVIOUS
  <2> HIDE DEF q
  <2> QED
    BY <2>1, <2>2, RespondRequests
<1> HIDE DEF r
<1>3. \A m \in Locals : session'[m] = IF m = l THEN r ELSE session[m]
  BY <1>1 DEF SessionsTyped
<1> QED
  BY <1>2, <1>3

LEMMA SomeResponse ==
    ASSUME NEW l \in Locals, SessionReply(l)
    PROVE  \E i \in 1..Len(session[l].sending) : \E response : Respond(l, i, response)
  BY Zenon DEF SessionReply, CallFails, HandleLocalHandshake, MarkStageReady,
               CollectGlobalStatistics, CreateEnforcementRule

LEMMA FewerRequests ==
    ASSUME Flow,
           \/ \E l \in Locals : SessionSend(l) \/ SessionReply(l) \/ LocalStart(l) \/ LocalStop(l)
           \/ \E s \in Stages : StageStart(s) \/ StageStop(s)
           \/ EnqueueRule \/ CountLocal \/ CountDataPlane
           \/ UNCHANGED vars
    PROVE  \A m \in Locals : Requests(session'[m]) \subseteq Requests(session[m])
<1>0. SessionsTyped
  BY DEF Flow
<1>1. CASE \E l \in Locals : SessionSend(l)
  BY <1>0, <1>1, RequestsSent
<1>2. CASE \E l \in Locals : SessionReply(l)
  BY <1>0, <1>2, SomeResponse, RequestsAnsweredBy
<1>3. CASE \/ \E l \in Locals : LocalStart(l) \/ LocalStop(l)
           \/ \E s \in Stages : StageStart(s) \/ StageStop(s)
           \/ EnqueueRule \/ CountLocal \/ CountDataPlane
           \/ UNCHANGED vars
  BY <1>3 DEF LocalStart, LocalStop, StageStart, StageStop, EnqueueRule, CountLocal, CountDataPlane, vars
<1> QED
  BY <1>1, <1>2, <1>3

\* What most steps of the main loop leave alone.
LEMMA LoopKeeps ==
    ASSUME Flow, ~Leftover, MainLoop, ~Computes, ~HandleDataPlane, ~CollectStatisticsResult
    PROVE  /\ UNCHANGED <<job_location_tracker, rates>>
           /\ \A l \in Locals : StagesAt(l)' = StagesAt(l)
           /\ EndRound \/ UNCHANGED change_in_system
           /\ pc' = "results" => pc = "results"
           /\ pc' = "sleep" => EndRound
           /\ pc = "results" => UNCHANGED local_sessions_
<1>1. CASE HandleLocalController
  <2>1. /\ UNCHANGED <<job_location_tracker, rates, change_in_system>>
        /\ pc' = "local_handshake" /\ pc = "local_controllers"
        /\ \E l : local_to_stages' = Emplace(local_to_stages, l, {})
    BY <1>1 DEF HandleLocalController, Goto, rounds
  <2>2. \A l \in Locals : StagesAt(l)' = StagesAt(l)
    BY <2>1 DEF StagesAt, Emplace, Put
  <2> QED
    BY <2>1, <2>2
<1>2. CASE WaitForLocal \/ LoopCondition \/ Exit \/ CallLocalHandshake \/ NoMoreLocalControllers
           \/ NoMoreDataPlanes \/ MarkDataPlaneStageReady
  BY <1>2 DEF WaitForLocal, LoopCondition, Exit, CallLocalHandshake, NoMoreLocalControllers,
              NoMoreDataPlanes, MarkDataPlaneStageReady, Goto, trackers, rounds, StagesAt
<1>3. CASE CollectStatisticsGlobal \/ DisconnectLocals
  BY <1>3 DEF CollectStatisticsGlobal, DisconnectLocals, Goto, trackers, rounds, StagesAt
<1>4. CASE CollectEnforcementRuleResults \/ EndRound \/ WakeUp
  BY <1>4 DEF CollectEnforcementRuleResults, EndRound, WakeUp, Goto, Crash, trackers, rounds,
              sessions, StagesAt
<1>5. ~CollectStatisticsGlobalSend
  BY DEF CollectStatisticsGlobalSend, Leftover
<1> QED
  BY <1>1, <1>2, <1>3, <1>4, <1>5 DEF MainLoop, Computes

\* What a round of DYNAMIC_VANILLA does: it sends rules, or there is nothing to
\* enforce, or a session is missing.
RulesGiven(send) ==
    /\ change_in_system => send = DOMAIN job_location_tracker
    /\ \A job \in DOMAIN job_location_tracker \ send : Part(job)' = Part(job)
    /\ \A w \in Targets(send) : w[1] \in local_sessions_
    /\ \A l \in Locals : Requests(session'[l]) =
           Requests(session[l]) \cup {RuleNow(l, job)' : job \in JobsAt(l, send)}

LEMMA VanillaRound ==
    ASSUME Flow, TrackersTyped, ComputeAndEnforceDynamicVanillaRules
    PROVE  /\ pc = "compute" /\ UNCHANGED <<trackers, sessions, change_in_system, environment>>
           /\ \/ pc' = "crashed"
              \/ pc' = "results" /\ DOMAIN job_location_tracker = {} /\ UNCHANGED session
              \/ pc' = "results" /\ \E send \in SUBSET DOMAIN job_location_tracker : RulesGiven(send)
<1> DEFINE jobs == DOMAIN job_location_tracker
<1>1. /\ pc = "compute" /\ UNCHANGED <<trackers, sessions, change_in_system, environment>>
  <2>1. Computes
    BY DEF Computes
  <2> QED
    BY <2>1, ComputeSteps, VanillaSteps DEF Flow
<1>2. CASE jobs = {} /\ NothingToEnforce
  BY <1>1, <1>2 DEF NothingToEnforce, Goto
<1>3. ASSUME NEW send \in SUBSET jobs,
             change_in_system => send = jobs,
             SendEnforcementRules(send, VanillaNow.rates)
      PROVE  pc' = "crashed" \/ (pc' = "results" /\ RulesGiven(send))
  <2> DEFINE r == VanillaNow.rates
  <2> HIDE DEF r
  <2>1. SendEnforcementRules(send, r)
    BY <1>3 DEF r
  <2>2. SessionsTyped /\ send \subseteq Jobs
    BY DEF Flow, Places
  <2>3. \/ pc' = "crashed"
        \/ /\ pc' = "results"
           /\ \A w \in Targets(send) : w[1] \in local_sessions_
           /\ \A l \in Locals : Requests(session'[l]) =
                  Requests(session[l]) \cup RulesSentTo(l, send, r)
    BY <2>1, <2>2, RulesRequested
  <2>4. job_previous_rates' = [job \in DOMAIN job_previous_rates |->
            IF job \in send THEN r[job] ELSE job_previous_rates[job]]
    BY <2>1, PreviousSent
  <2>5. \A job \in jobs : job_previous_rates'[job] =
            IF job \in send THEN r[job] ELSE job_previous_rates[job]
    BY <2>4 DEF TrackersTyped
  <2>6. \A job : TotalStages(job)' = TotalStages(job)
    BY <1>1 DEF TotalStages, trackers
  <2>7. \A l, job : TrackedEnvs(job, l)' = TrackedEnvs(job, l)
    BY <1>1 DEF TrackedEnvs, trackers
  <2>8. \A job \in jobs \ send : Part(job)' = Part(job)
    BY <2>5, <2>6 DEF Part
  <2>9. \A l \in Locals : \A job \in JobsAt(l, send) : RuleNow(l, job)' = RuleSent(l, job, r)
    <3>1. \A job \in send : Part(job)' = LimitPerStage(r[job], TotalStages(job))
      BY <2>5, <2>6 DEF Part
    <3> QED
      BY <2>7, <3>1 DEF RuleNow, RuleSent, JobsAt
  <2>10. \A l \in Locals :
             RulesSentTo(l, send, r) = {RuleNow(l, job)' : job \in JobsAt(l, send)}
    BY <2>9 DEF RulesSentTo
  <2> QED
    BY <1>3, <2>3, <2>8, <2>10 DEF RulesGiven
<1> QED
  BY <1>1, <1>2, <1>3, VanillaSteps

LEMMA CallsKnownKept ==
    ASSUME ControlType = "DYNAMIC_VANILLA", Flow, InStep, TrackersTyped, CallsKnown, [Next]_vars
    PROVE  CallsKnown'
<1>0. ~Leftover
  BY DEF Leftover
<1> SUFFICES ASSUME ~Failed', NEW l \in Locals, NEW r, r \in Requests(session'[l])
             PROVE  KnownCall(l, r)'
  BY DEF CallsKnown
<1>1. CASE ~MainLoop
  <2>1. Outside /\ Requests(session'[l]) \subseteq Requests(session[l])
    BY <1>1, Environment, FewerRequests DEF Next
  <2>2. KnownCall(l, r)
    BY <2>1 DEF Outside, CallsKnown, Failed
  <2>3. RuleNow(l, r.job)' = RuleNow(l, r.job)
    BY <2>1 DEF Outside, trackers, rates, RuleNow, Part, TotalStages, TrackedEnvs
  <2> QED
    BY <2>1, <2>2, <2>3 DEF Outside, rounds, KnownCall
<1>2. CASE MainLoop
  <2>0. ~Failed
    BY <1>2, MainLoopRuns DEF Failed
  <2>1. r \in Requests(session[l]) => KnownCall(l, r)
    BY <2>0 DEF CallsKnown
  <2>2. CASE ~Computes
    <3>1. r \in Requests(session[l]) \/ Harmless(r)
      BY <1>2, <2>2, LoopStepRequests DEF NoNewRules
    <3>2. CASE Harmless(r)
      <4>1. HandleDataPlane => pc' = "stage_ready" /\ change_in_system'
        BY DEF HandleDataPlane, Goto, Crash, Failed
      <4> QED
        BY <3>2, <4>1 DEF Harmless, KnownCall
    <3>3. CASE r \in Requests(session[l]) /\ CollectEnforcementRuleResults
      <4>1. pc = "results" /\ pc' = "results"
        BY <3>3 DEF CollectEnforcementRuleResults, Crash, Failed
      <4>2. /\ UNCHANGED <<job_location_tracker, rates>> /\ UNCHANGED local_sessions_
        <5>1. ~HandleDataPlane /\ ~CollectStatisticsResult
          BY <4>1 DEF HandleDataPlane, CollectStatisticsResult
        <5> QED
          BY <1>0, <1>2, <2>2, <4>1, <5>1, LoopKeeps
      <4>3. RuleNow(l, r.job)' = RuleNow(l, r.job)
        BY <4>2 DEF rates, RuleNow, Part, TotalStages, TrackedEnvs
      <4> QED
        BY <2>1, <3>3, <4>1, <4>2, <4>3 DEF KnownCall
    <3>4. CASE r \in Requests(session[l]) /\ ~CollectEnforcementRuleResults
      <4>1. pc = "collect"
        <5>1. /\ pc \notin {"wait", "loop", "loop_data_planes", "exiting", "local_controllers",
                            "data_planes", "control", "compute", "sleep", "exited"}
              /\ ~CallLocalHandshake /\ ~MarkDataPlaneStageReady /\ ~EndRound
          BY <1>0, <3>4, QuietPlaces
        <5>2. CollectStatisticsResult \/ DisconnectLocals
          BY <1>2, <2>2, <3>4, <5>1
             DEF MainLoop, Computes, WaitForLocal, LoopCondition, Exit, HandleLocalController,
                 NoMoreLocalControllers, HandleDataPlane, NoMoreDataPlanes,
                 CollectStatisticsGlobal, CollectStatisticsGlobalSend, WakeUp
        <5> QED
          BY <5>2 DEF CollectStatisticsResult, DisconnectLocals
      <4> QED
        BY <2>1, <3>4, <4>1 DEF KnownCall
    <3> QED
      BY <3>1, <3>2, <3>3, <3>4
  <2>3. CASE Computes
    <3>1. ComputeAndEnforceDynamicVanillaRules
      BY <2>3 DEF Computes, ComputeAndEnforceStaticRules, ComputeAndEnforceDynamicLeftoverRules
    <3>2. /\ pc = "compute" /\ pc' = "results" /\ UNCHANGED sessions
          /\ UNCHANGED session \/ \E send \in SUBSET DOMAIN job_location_tracker : RulesGiven(send)
      BY <3>1, VanillaRound DEF Failed
    <3>3. Requests(session[l]) = {}
      BY <1>0, <3>2, QuietPlaces
    <3>4. PICK send \in SUBSET DOMAIN job_location_tracker : RulesGiven(send)
      BY <3>2, <3>3
    <3>5. PICK job \in JobsAt(l, send) : r = RuleNow(l, job)'
      BY <3>3, <3>4 DEF RulesGiven
    <3>6. <<l, job>> \in Targets(send)
      BY <3>5 DEF JobsAt, Targets
    <3>7. l \in local_sessions_
      BY <3>4, <3>6 DEF RulesGiven
    <3>8. r.type = "CREATE_ENF_RULE" /\ r.job = job
      BY <3>5 DEF RuleNow, CreateEnfRule
    <3> QED
      BY <3>2, <3>5, <3>7, <3>8 DEF KnownCall, sessions
  <2> QED
    BY <2>2, <2>3
<1> QED
  BY <1>1, <1>2

\* The operation stays the same if all rules are about it.
LEMMA SameOpKept ==
    ASSUME OneOperation, ControlType = "DYNAMIC_VANILLA", Flow, PolicyQueue, SameOp, [Next]_vars
    PROVE  SameOp'
<1>1. CASE Computes
  <2>1. DequeueRule \/ UNCHANGED active_op
    BY <1>1, ComputesTake
  <2>2. UNCHANGED next_rule
    BY <1>1, ComputesTake
  <2>3. CASE DequeueRule
    <3>1. NewRule => Head(pending_rules_queue_).op = FirstOp
      BY <2>2, <2>3, RuleTaken DEF OneOperation
    <3> QED
      BY <2>3, <3>1 DEF DequeueRule, SameOp
  <2> QED
    BY <2>1, <2>3 DEF SameOp
<1>2. CASE ~Computes
  <2>1. UNCHANGED active_op
    <3>1. CASE ~MainLoop
      BY <3>1, Environment DEF Next, Outside, rates
    <3>2. CASE MainLoop /\ HandleDataPlane
      BY <3>2 DEF HandleDataPlane
    <3>3. CASE MainLoop /\ CollectStatisticsResult
      BY <3>3, AnswerSteps
    <3> QED
      BY <1>2, <3>1, <3>2, <3>3, LoopKeeps DEF Leftover, rates
  <2> QED
    BY <2>1 DEF SameOp
<1> QED
  BY <1>1, <1>2

\* What a step outside the main loop does to a local controller: nothing, it
\* stops or starts it, or it handles a request or a stage that started.
LocalGoesOn(l) ==
    /\ local[l].up /\ local'[l].up
    /\ local[l].handshaken => local'[l].handshaken
    /\ local'[l].preparing \subseteq local[l].preparing \cup {s \in Stages : stage'[s] = "running"}
    /\ \/ local'[l].data_sessions \subseteq local[l].data_sessions
       \/ /\ local'[l].data_sessions \subseteq local[l].data_sessions \cup local[l].preparing
          /\ \E r \in Requests(session[l]) : r.type = "STAGE_READY"

LocalChange(l) ==
    \/ local'[l] = local[l]
    \/ ~local'[l].up /\ local'[l].preparing = {} /\ local'[l].data_sessions = {}
    \/ LocalStart(l) /\ local'[l].preparing = {} /\ local'[l].data_sessions = {}
    \/ LocalGoesOn(l)

\* The core's handshake is answered, or fails, or still to come.
GreetingKept(l) ==
    local'[l].up /\ LocalHandshake \in Requests(session[l]) =>
        local'[l].handshaken \/ LocalHandshake \in Requests(session'[l])

LEMMA OneLocalChange ==
    ASSUME LocalsTyped, NEW l \in Locals, NEW p, local' = [local EXCEPT ![l] = p]
    PROVE  local'[l] = p /\ \A m \in Locals : m # l => LocalChange(m)
<1>1. \A m \in Locals : local'[m] = IF m = l THEN p ELSE local[m]
  BY DEF LocalsTyped
<1> QED
  BY <1>1 DEF LocalChange

LEMMA LocalFields ==
    ASSUME LocalsTyped, NEW l \in Locals
    PROVE  \E a, b, c, d, e :
        local[l] = [up |-> a, starts |-> b, handshaken |-> c, preparing |-> d, data_sessions |-> e]
<1>1. LocalTyped(l, local[l])
  BY DEF LocalsTyped
<1> QED
  BY <1>1, Zenon DEF LocalTyped

LEMMA StopChanges ==
    ASSUME LocalsTyped, NEW l \in Locals, local' = StopLocal(l)
    PROVE  (\A m \in Locals : LocalChange(m)) /\ ~local'[l].up
<1> DEFINE n == local[l].starts
           p == [Stopped EXCEPT !.starts = n]
<1>1. local' = [local EXCEPT ![l] = p]
  BY DEF StopLocal
<1>2. ~p.up /\ p.preparing = {} /\ p.data_sessions = {}
  <2> HIDE DEF n
  <2> QED
    BY DEF Stopped
<1> HIDE DEF p
<1> QED
  BY <1>1, <1>2, OneLocalChange DEF LocalChange

LEMMA ReplyChanges ==
    ASSUME Flow, NEW l \in Locals, SessionReply(l)
    PROVE  \A m \in Locals : LocalChange(m) /\ GreetingKept(m)
<1>0. SessionsTyped /\ LocalsTyped
  BY DEF Flow
<1>1. PICK i \in 1..Len(session[l].sending) :
          \/ CallFails(l, i)
          \/ HandleLocalHandshake(l, i)
          \/ MarkStageReady(l, i)
          \/ CollectGlobalStatistics(l, i)
          \/ CreateEnforcementRule(l, i)
  BY DEF SessionReply
<1> DEFINE x == session[l].sending[i]
           q == local[l]
<1>2. \E response : Respond(l, i, response)
  BY <1>1, Zenon DEF CallFails, HandleLocalHandshake, MarkStageReady,
                     CollectGlobalStatistics, CreateEnforcementRule
<1>3. /\ x \in Requests(session[l])
      /\ \A m \in Locals : \A r \in Requests(session[m]) :
             r \in Requests(session'[m]) \/ (m = l /\ r = x)
  BY <1>0, <1>2, RequestsAnsweredBy
<1>4. PICK a, b, c, d, e :
          q = [up |-> a, starts |-> b, handshaken |-> c, preparing |-> d, data_sessions |-> e]
  BY <1>0, LocalFields
<1>5. \A m \in Locals : m # l => GreetingKept(m)
  BY <1>3 DEF GreetingKept
<1>6. x.type # "LOCAL_HANDSHAKE" => GreetingKept(l)
  BY <1>3 DEF GreetingKept, LocalHandshake
<1> DEFINE Goal == \A m \in Locals : LocalChange(m) /\ GreetingKept(m)
<1>7. ASSUME NEW p, local' = [local EXCEPT ![l] = p], LocalChange(l),
             x.type # "LOCAL_HANDSHAKE" \/ p.handshaken
      PROVE  Goal
  <2>1. local'[l] = p /\ \A m \in Locals : m # l => LocalChange(m)
    BY <1>0, <1>7, OneLocalChange
  <2>2. p.handshaken => GreetingKept(l)
    BY <2>1 DEF GreetingKept
  <2> QED
    BY <1>5, <1>6, <1>7, <2>1, <2>2
<1>8. CASE CallFails(l, i)
  <2>1. ~local'[l].up /\ \A m \in Locals : local'[m] = local[m]
    BY <1>8 DEF CallFails
  <2> QED
    BY <1>5, <2>1 DEF LocalChange, GreetingKept
<1>9. CASE HandleLocalHandshake(l, i)
  <2> DEFINE p == [q EXCEPT !.handshaken = TRUE]
  <2>1. local' = [local EXCEPT ![l] = p] /\ q.up
    BY <1>0, <1>9 DEF HandleLocalHandshake, LocalsTyped
  <2>2. p.up = q.up /\ p.handshaken /\ p.preparing = q.preparing /\ p.data_sessions = q.data_sessions
    <3> HIDE DEF q
    <3> QED
      BY <1>4
  <2> HIDE DEF p
  <2>3. local'[l] = p
    BY <1>0, <2>1, OneLocalChange
  <2>4. LocalChange(l)
    BY <2>1, <2>2, <2>3 DEF LocalChange, LocalGoesOn
  <2> QED
    BY <1>7, <2>1, <2>2, <2>4
<1>10. CASE MarkStageReady(l, i)
  <2> DEFINE ready == {s \in q.preparing : Key(s) = x.key}
             some == q.preparing \ ready
             more == q.data_sessions \cup ready
             p == [q EXCEPT !.preparing = some, !.data_sessions = more]
  <2>1. local' = [local EXCEPT ![l] = p] /\ q.up /\ x.type = "STAGE_READY"
    BY <1>0, <1>10 DEF MarkStageReady, LocalsTyped
  <2>2. some \subseteq q.preparing /\ more \subseteq q.data_sessions \cup q.preparing
    OBVIOUS
  <2>3. p.up = q.up /\ p.handshaken = q.handshaken /\ p.preparing = some /\ p.data_sessions = more
    <3> HIDE DEF q, some, more
    <3> QED
      BY <1>4
  <2> HIDE DEF p, some, more
  <2>4. local'[l] = p
    BY <1>0, <2>1, OneLocalChange
  <2>5. LocalChange(l)
    BY <1>3, <2>1, <2>2, <2>3, <2>4 DEF LocalChange, LocalGoesOn
  <2> QED
    BY <1>7, <2>1, <2>5
<1>11. CASE CollectGlobalStatistics(l, i)
  <2> DEFINE alive == {s \in q.data_sessions : stage[s] = "running"}
             p == [q EXCEPT !.data_sessions = alive]
  <2>1. local' = [local EXCEPT ![l] = p] /\ q.up /\ x = CollectStats
    BY <1>0, <1>11 DEF CollectGlobalStatistics, LocalsTyped
  <2>2. alive \subseteq q.data_sessions /\ x.type # "LOCAL_HANDSHAKE"
    BY <2>1 DEF CollectStats
  <2>3. p.up = q.up /\ p.handshaken = q.handshaken /\ p.preparing = q.preparing /\ p.data_sessions = alive
    <3> HIDE DEF q, alive
    <3> QED
      BY <1>4
  <2> HIDE DEF p, alive
  <2>4. local'[l] = p
    BY <1>0, <2>1, OneLocalChange
  <2>5. LocalChange(l)
    BY <2>1, <2>2, <2>3, <2>4 DEF LocalChange, LocalGoesOn
  <2> QED
    BY <1>7, <2>1, <2>2, <2>5
<1>12. CASE CreateEnforcementRule(l, i)
  <2>1. x.type = "CREATE_ENF_RULE" /\ (UNCHANGED local \/ local' = StopLocal(l))
    BY <1>12, Zenon DEF CreateEnforcementRule
  <2>2. GreetingKept(l)
    BY <1>6, <2>1
  <2>3. \A m \in Locals : LocalChange(m)
    BY <1>0, <2>1, StopChanges DEF LocalChange
  <2> QED
    BY <1>5, <2>2, <2>3
<1> QED
  BY <1>1, <1>8, <1>9, <1>10, <1>11, <1>12

LEMMA LocalChanges ==
    ASSUME Flow, ProcessesTyped,
           \/ \E l \in Locals : SessionSend(l) \/ SessionReply(l) \/ LocalStart(l) \/ LocalStop(l)
           \/ \E s \in Stages : StageStart(s) \/ StageStop(s)
           \/ EnqueueRule \/ CountLocal \/ CountDataPlane
           \/ UNCHANGED vars
    PROVE  \A m \in Locals : LocalChange(m) /\ GreetingKept(m)
<1> DEFINE Goal == \A m \in Locals : LocalChange(m) /\ GreetingKept(m)
<1>0. SessionsTyped /\ LocalsTyped
  BY DEF Flow
<1>1. UNCHANGED session => \A m \in Locals : GreetingKept(m)
  BY DEF GreetingKept
<1>2. UNCHANGED local => \A m \in Locals : LocalChange(m)
  BY DEF LocalChange
<1>3. ASSUME NEW l \in Locals, SessionSend(l) PROVE Goal
  <2>1. \A m \in Locals : Requests(session'[m]) = Requests(session[m])
    BY <1>0, <1>3, RequestsSent
  <2> QED
    BY <1>2, <1>3, <2>1 DEF GreetingKept, SessionSend, environment
<1>4. ASSUME NEW l \in Locals, SessionReply(l) PROVE Goal
  BY <1>4, ReplyChanges
<1>5. ASSUME NEW l \in Locals, LocalStart(l) PROVE Goal
  <2> DEFINE x == local[l].starts + 1
             p == [Stopped EXCEPT !.up = TRUE, !.starts = x]
  <2>1. p.preparing = {} /\ p.data_sessions = {}
    BY DEF Stopped
  <2>2. local' = [local EXCEPT ![l] = p] /\ UNCHANGED session
    BY <1>5 DEF LocalStart
  <2> HIDE DEF p
  <2> QED
    BY <1>0, <1>1, <1>5, <2>1, <2>2, OneLocalChange DEF LocalChange
<1>6. ASSUME NEW l \in Locals, LocalStop(l) PROVE Goal
  BY <1>0, <1>1, <1>6, StopChanges DEF LocalStop
<1>7. ASSUME NEW s \in Stages, StageStart(s) PROVE Goal
  <2> DEFINE l == LocalOf[s]
             q == local[l]
             some == q.preparing \cup {s}
             p == [q EXCEPT !.preparing = some]
  <2>1. l \in Locals
    BY CoreAssumption
  <2>2. local' = [local EXCEPT ![l] = p] /\ q.up /\ UNCHANGED session
    BY <1>7 DEF StageStart
  <2>3. stage'[s] = "running"
    BY <1>7 DEF StageStart, ProcessesTyped
  <2>4. p.up = q.up /\ p.handshaken = q.handshaken /\ p.preparing = some
        /\ p.data_sessions = q.data_sessions
    <3>1. PICK a, b, c, d, e :
              q = [up |-> a, starts |-> b, handshaken |-> c, preparing |-> d, data_sessions |-> e]
      BY <1>0, <2>1, LocalFields
    <3> HIDE DEF q, some
    <3> QED
      BY <3>1
  <2>5. some \subseteq q.preparing \cup {t \in Stages : stage'[t] = "running"}
    BY <2>3
  <2> HIDE DEF p, some, l
  <2>6. local'[l] = p /\ \A m \in Locals : m # l => LocalChange(m)
    BY <1>0, <2>1, <2>2, OneLocalChange
  <2>7. LocalChange(l)
    BY <2>2, <2>4, <2>5, <2>6 DEF LocalChange, LocalGoesOn
  <2> QED
    BY <1>1, <2>2, <2>6, <2>7
<1>8. ASSUME (\E s \in Stages : StageStop(s)) \/ EnqueueRule \/ CountLocal \/ CountDataPlane \/ UNCHANGED vars PROVE Goal
  <2>1. UNCHANGED <<local, session>>
    BY <1>8 DEF StageStop, EnqueueRule, CountLocal, CountDataPlane, vars, environment
  <2> QED
    BY <1>1, <1>2, <2>1
<1> HIDE DEF Goal
<1>9. Goal
  BY <1>3, <1>4, <1>5, <1>6, <1>7, <1>8
<1> QED
  BY <1>9 DEF Goal

LEMMA StageChanges ==
    ASSUME Flow, ProcessesTyped, [Next]_vars, NEW s \in Stages
    PROVE  \/ stage'[s] = stage[s]
           \/ stage[s] = "new" /\ stage'[s] = "running"
           \/ stage'[s] = "dead"
<1>1. ASSUME NEW t \in Stages, StageStart(t)
      PROVE  stage'[s] = stage[s] \/ (stage[s] = "new" /\ stage'[s] = "running")
  BY <1>1 DEF StageStart, ProcessesTyped
<1>2. ASSUME NEW t \in Stages, StageStop(t) PROVE stage'[s] = stage[s] \/ stage'[s] = "dead"
  BY <1>2 DEF StageStop, ProcessesTyped
<1>3. ASSUME NEW l \in Locals, SessionReply(l) PROVE UNCHANGED stage
  BY <1>3, Replied DEF Flow
<1>4. ASSUME NEW l \in Locals, SessionSend(l) \/ LocalStart(l) \/ LocalStop(l) PROVE UNCHANGED stage
  BY <1>4 DEF SessionSend, LocalStart, LocalStop, environment
<1>5. EnqueueRule \/ CountLocal \/ CountDataPlane \/ UNCHANGED vars => UNCHANGED stage
  BY DEF EnqueueRule, CountLocal, CountDataPlane, vars, environment
<1>6. MainLoop => UNCHANGED stage
  BY LoopLeavesEnvironment DEF environment
<1> QED
  BY <1>1, <1>2, <1>3, <1>4, <1>5, <1>6 DEF Next

LEMMA NoneNewKept ==
    ASSUME Flow, ProcessesTyped, NoneNew, [Next]_vars
    PROVE  NoneNew'
<1> SUFFICES ASSUME NEW l \in Locals, NEW s \in local'[l].preparing \cup local'[l].data_sessions
             PROVE  stage'[s] # "new"
  BY DEF NoneNew
<1>1. ASSUME s \in local[l].preparing \cup local[l].data_sessions PROVE stage'[s] # "new"
  <2>1. s \in Stages
    BY <1>1 DEF ProcessesTyped, LocalRecords
  <2> QED
    BY <1>1, <2>1, StageChanges DEF NoneNew
<1>2. CASE MainLoop
  BY <1>1, <1>2, LoopLeavesEnvironment DEF environment
<1>3. CASE ~MainLoop
  <2>1. LocalChange(l)
    BY <1>3, LocalChanges DEF Next
  <2>2. CASE stage'[s] = "running"
    BY <2>2
  <2> QED
    BY <1>1, <2>1, <2>2 DEF LocalChange, LocalGoesOn
<1> QED
  BY <1>2, <1>3

\* Local controllers get a session only when their registration is taken.
LEMMA LoopSessions ==
    ASSUME Flow, MainLoop, ~HandleLocalController
    PROVE  local_sessions_' \subseteq local_sessions_
<1>1. CASE WaitForLocal \/ LoopCondition \/ Exit \/ CallLocalHandshake \/ NoMoreLocalControllers
           \/ NoMoreDataPlanes \/ HandleDataPlane \/ MarkDataPlaneStageReady
  BY <1>1 DEF WaitForLocal, LoopCondition, Exit, CallLocalHandshake, NoMoreLocalControllers,
              NoMoreDataPlanes, HandleDataPlane, MarkDataPlaneStageReady, sessions
<1>2. CASE CollectStatisticsGlobal \/ CollectStatisticsGlobalSend \/ DisconnectLocals
           \/ CollectEnforcementRuleResults \/ EndRound \/ WakeUp
  BY <1>2 DEF CollectStatisticsGlobal, CollectStatisticsGlobalSend, DisconnectLocals,
              CollectEnforcementRuleResults, EndRound, WakeUp, sessions
<1>3. CASE CollectStatisticsResult
  BY <1>3, Zenon DEF CollectStatisticsResult
<1>4. CASE Computes
  BY <1>4, ComputeSteps DEF sessions, Flow
<1> QED
  BY <1>1, <1>2, <1>3, <1>4 DEF MainLoop, Computes

LEMMA StartedOnceKept ==
    ASSUME Flow, ProcessesTyped, StartsCounted, StartedOnce, [Next]_vars
    PROVE  StartedOnce'
<1> SUFFICES ASSUME NEW l \in local_sessions_' PROVE local'[l].starts >= 1
  BY DEF StartedOnce
<1>1. ASSUME l \in local_sessions_ PROVE local'[l].starts >= 1
  <2>1. l \in Locals /\ local[l].starts \in Nat /\ local[l].starts >= 1
    BY <1>1, CoreAssumption DEF Flow, Places, StartedOnce, ProcessesTyped, LocalRecords
  <2>2. CASE \E m \in Locals : LocalStart(m)
    <3>1. \E x \in {0, 1} : local'[l].starts = local[l].starts + x
      BY <2>1, <2>2, LocalStarts
    <3> QED
      BY <2>1, <3>1
  <2>3. CASE \A m \in Locals : KeptStarts(m)
    BY <2>1, <2>3 DEF KeptStarts
  <2> QED
    BY <2>2, <2>3, ProcessSteps
<1>2. CASE ~MainLoop
  BY <1>1, <1>2, Environment DEF Next, Outside
<1>3. CASE MainLoop /\ ~HandleLocalController
  BY <1>1, <1>3, LoopSessions
<1>4. CASE HandleLocalController
  <2> DEFINE h == Head(local_queue)
  <2>1. local_queue # <<>> /\ local_queue \in Seq(Locals) /\ local_sessions_' = local_sessions_ \cup {h}
    BY <1>4 DEF HandleLocalController, Flow, Places
  <2>2. h \in Locals /\ Tail(local_queue) \in Seq(Locals)
    BY <2>1, HeadTailProperties
  <2>3. Times(local_queue, h) = Times(Tail(local_queue), h) + 1 /\ Times(Tail(local_queue), h) \in Nat
    BY <2>1, <2>2, TimesTail, TimesFinite
  <2>4. session[h].threads \in Nat /\ session[h].threads + Times(local_queue, h) <= local[h].starts
    BY <2>2 DEF StartsCounted
  <2>5. local[h].starts \in Nat
    BY <2>2, CoreAssumption DEF ProcessesTyped, LocalRecords
  <2>6. UNCHANGED local
    BY <1>4 DEF HandleLocalController, environment
  <2> HIDE DEF h
  <2>7. local[h].starts >= 1
    BY <2>3, <2>4, <2>5
  <2> QED
    BY <1>1, <2>1, <2>6, <2>7
<1> QED
  BY <1>2, <1>3, <1>4

LEMMA WelcomedKept ==
    ASSUME ~Leftover, MaxStarts <= 1, Flow, InStep, ProcessesTyped, StartedOnce, Welcomed, [Next]_vars
    PROVE  Welcomed'
<1> SUFFICES ASSUME NEW l \in local_sessions_', local'[l].up
             PROVE  \/ local'[l].handshaken
                    \/ pc' = "local_handshake" /\ LocalHandshake \in Requests(session'[l])
  BY DEF Welcomed
<1>1. CASE ~MainLoop
  <2>1. UNCHANGED <<pc, local_sessions_>>
    BY <1>1, Environment DEF Next, Outside
  <2>2. l \in Locals /\ l \in local_sessions_
    BY <2>1 DEF Flow, Places
  <2>3. LocalChange(l) /\ GreetingKept(l)
    BY <1>1, <2>2, LocalChanges DEF Next
  <2>4. ~LocalStart(l)
    <3>1. local[l].starts \in Nat /\ local[l].starts >= 1 /\ MaxStarts \in Nat
      BY <2>2, CoreAssumption DEF StartedOnce, ProcessesTyped, LocalRecords
    <3> QED
      BY <3>1 DEF LocalStart
  <2>5. local[l].up
    BY <2>3, <2>4 DEF LocalChange, LocalGoesOn
  <2>6. local[l].handshaken => local'[l].handshaken
    BY <2>3, <2>4 DEF LocalChange, LocalGoesOn
  <2> QED
    BY <2>1, <2>2, <2>3, <2>5, <2>6 DEF Welcomed, GreetingKept
<1>2. CASE MainLoop
  <2>1. UNCHANGED local
    BY <1>2, LoopLeavesEnvironment DEF environment
  <2>2. ASSUME l \in local_sessions_ PROVE local'[l].handshaken
    <3>1. l \in Locals
      BY <2>2 DEF Flow, Places
    <3>2. \/ local[l].handshaken
          \/ pc = "local_handshake" /\ LocalHandshake \in Requests(session[l])
      BY <2>1, <2>2 DEF Welcomed
    <3>3. pc = "local_handshake" => CallLocalHandshake
      BY <1>2 DEF MainLoop, WaitForLocal, LoopCondition, Exit, HandleLocalController,
                  NoMoreLocalControllers, HandleDataPlane, MarkDataPlaneStageReady,
                  NoMoreDataPlanes, CollectStatisticsGlobal, CollectStatisticsGlobalSend,
                  CollectStatisticsResult, DisconnectLocals, CollectEnforcementRuleResults,
                  EndRound, WakeUp, ComputeAndEnforceStaticRules,
                  ComputeAndEnforceDynamicVanillaRules, ComputeAndEnforceDynamicLeftoverRules
    <3> QED
      BY <2>1, <3>1, <3>2, <3>3, QuietPlaces
  <2>3. CASE ~HandleLocalController
    BY <1>2, <2>2, <2>3, LoopSessions
  <2>4. CASE HandleLocalController
    <3> DEFINE h == Head(local_queue)
               q == session[h]
               r == [q EXCEPT !.threads = @ + 1, !.submission = Append(@, LocalHandshake)]
    <3>1. h \in Locals /\ SessionsTyped
      BY <2>4, HeadTailProperties DEF HandleLocalController, Flow, Places
    <3>2. session' = [session EXCEPT ![h] = r]
      BY <2>4, <3>1 DEF HandleLocalController, SessionsTyped
    <3>3. Requests(r) = Requests(q) \cup {LocalHandshake}
      <4>1. SessionTyped(h, q)
        BY <3>1 DEF SessionsTyped
      <4> HIDE DEF q
      <4> QED
        BY <4>1, GreetRequests
    <3>4. session'[h] = r
      <4> HIDE DEF r, h
      <4> QED
        BY <3>1, <3>2 DEF SessionsTyped
    <3>5. pc' = "local_handshake" /\ local_sessions_' = local_sessions_ \cup {h}
      BY <2>4 DEF HandleLocalController, Goto
    <3> HIDE DEF r, h
    <3> QED
      BY <2>2, <3>3, <3>4, <3>5
  <2> QED
    BY <2>3, <2>4
<1> QED
  BY <1>1, <1>2

\* Only rules change limits.
LEMMA LimitsElsewhere ==
    ASSUME Flow, [Next]_vars
    PROVE  UNCHANGED limit \/ \E l \in Locals : SessionReply(l)
<1>1. CASE \/ \E l \in Locals : SessionSend(l) \/ LocalStart(l) \/ LocalStop(l)
           \/ \E s \in Stages : StageStart(s) \/ StageStop(s)
           \/ EnqueueRule \/ CountLocal \/ CountDataPlane
           \/ UNCHANGED vars
  BY <1>1 DEF SessionSend, LocalStart, LocalStop, StageStart, StageStop, EnqueueRule, CountLocal, CountDataPlane, vars,
              environment
<1>2. MainLoop => UNCHANGED limit
  BY LoopLeavesEnvironment DEF environment
<1> QED
  BY <1>1, <1>2 DEF Next

LEMMA LimitMapsKept ==
    ASSUME Flow, LimitMaps, [Next]_vars
    PROVE  LimitMaps'
<1>1. CASE UNCHANGED limit
  BY <1>1 DEF LimitMaps
<1>2. ASSUME NEW r, NEW some, LimitedBy(r, some), NEW s \in Stages
      PROVE  limit'[s] = [op \in Ops |-> limit'[s][op]]
  <2>1. limit[s] = [op \in Ops |-> limit[s][op]]
    BY DEF LimitMaps
  <2>2. limit'[s] = IF s \in some THEN [limit[s] EXCEPT ![r.op] = r.limit] ELSE limit[s]
    BY <1>2 DEF LimitedBy
  <2> QED
    BY <2>1, <2>2
<1>3. CASE \E l \in Locals : SessionReply(l)
  <2>1. UNCHANGED limit \/ \E r : \E some : LimitedBy(r, some)
    BY <1>3, LimitSteps
  <2> QED
    BY <1>1, <1>2, <2>1 DEF LimitMaps
<1> QED
  BY <1>1, <1>3, LimitsElsewhere

\* A working stage in terms of the trackers and of its local controller.
LEMMA SettledStage ==
    ASSUME KeysDistinct, SameStages, NEW s \in Stages, Settled(s),
           NEW l, l = LocalOf[s], NEW envs, envs = TrackedEnvs(JobOf[s], l),
           local[l].data_sessions \subseteq Stages
    PROVE  /\ l \in Locals /\ JobOf[s] \in DOMAIN job_location_tracker
           /\ EnvOf[s] \in envs
           /\ s \in local[l].data_sessions
           /\ \A t \in local[l].data_sessions :
                  JobOf[t] = JobOf[s] /\ EnvOf[t] \in envs => stage[t] = "running"
           /\ \A e \in envs : \E t \in local[l].data_sessions : JobOf[t] = JobOf[s] /\ EnvOf[t] = e
<1>1. l \in Locals /\ JobOf[s] \in Jobs /\ EnvOf[s] \in Envs
  BY CoreAssumption DEF Envs
<1>2. /\ Key(s) \in StagesAt(l)
      /\ \A e \in envs : \E t \in local[l].data_sessions :
             JobOf[t] = JobOf[s] /\ EnvOf[t] = e /\ stage[t] = "running"
  BY DEF Settled
<1>3. EnvOf[s] \in envs
  BY <1>1, <1>2 DEF SameStages, Key
<1>4. JobOf[s] \in DOMAIN job_location_tracker
  BY <1>3 DEF TrackedEnvs
<1>5. \A t, u \in Stages : JobOf[t] = JobOf[u] /\ EnvOf[t] = EnvOf[u] => t = u
  BY DEF KeysDistinct, Key
<1>6. s \in local[l].data_sessions
  BY <1>2, <1>3, <1>5
<1>7. ASSUME NEW t \in local[l].data_sessions, JobOf[t] = JobOf[s], EnvOf[t] \in envs
      PROVE  stage[t] = "running"
  BY <1>2, <1>5, <1>7
<1> QED
  BY <1>1, <1>2, <1>3, <1>4, <1>6, <1>7

\* No stage starts to work by a step that leaves the trackers alone and makes no
\* stage ready.
LEMMA SettledStays ==
    ASSUME Flow, ProcessesTyped, NoneNew, [Next]_vars, NEW s \in Stages, Settled(s)',
           NEW l, l = LocalOf[s],
           StagesAt(l)' = StagesAt(l),
           TrackedEnvs(JobOf[s], l)' = TrackedEnvs(JobOf[s], l),
           local'[l].data_sessions \subseteq local[l].data_sessions
    PROVE  Settled(s)
<1>1. l \in Locals
  BY CoreAssumption
<1>2. \A t \in local[l].data_sessions : stage'[t] = "running" => stage[t] = "running"
  BY <1>1, StageChanges DEF NoneNew, ProcessesTyped, LocalRecords
<1>3. /\ Key(s) \in StagesAt(l)
      /\ \A e \in TrackedEnvs(JobOf[s], l) : \E t \in local'[l].data_sessions :
             JobOf[t] = JobOf[s] /\ EnvOf[t] = e /\ stage'[t] = "running"
  BY DEF Settled
<1> QED
  BY <1>2, <1>3 DEF Settled

\* How a local controller handles a rule.
TargetsOf(l, r) == {s \in local[l].data_sessions : JobOf[s] = r.job /\ EnvOf[s] \in r.envs}
AliveOf(l, r) == {s \in TargetsOf(l, r) : stage[s] = "running"}

LEMMA RuleHandled ==
    ASSUME NEW l \in Locals, NEW i \in 1..Len(session[l].sending), CreateEnforcementRule(l, i),
           NEW r, r = session[l].sending[i]
    PROVE  /\ local[l].up /\ r.type = "CREATE_ENF_RULE"
           /\ \/ ~local[l].handshaken /\ UNCHANGED limit
              \/ LimitedBy(r, TargetsOf(l, r))
              \/ AliveOf(l, r) # TargetsOf(l, r) /\ \E some \in SUBSET TargetsOf(l, r) : LimitedBy(r, some)
              \/ /\ r.envs \ {EnvOf[s] : s \in TargetsOf(l, r)} # {}
                 /\ \E some \in SUBSET TargetsOf(l, r) : LimitedBy(r, some)
<1> DEFINE request == session[l].sending[i]
           targets == {s \in local[l].data_sessions :
                          JobOf[s] = request.job /\ EnvOf[s] \in request.envs}
           alive == {s \in targets : stage[s] = "running"}
           unknown == request.envs \ {EnvOf[s] : s \in targets}
           Install(some) == limit' = [s \in Stages |-> IF s \in some
                               THEN [limit[s] EXCEPT ![request.op] = request.limit] ELSE limit[s]]
<1>1. /\ local[l].up /\ request.type = "CREATE_ENF_RULE"
      /\ \/ ~local[l].handshaken /\ UNCHANGED limit
         \/ Install(targets)
         \/ alive # targets /\ \E some \in SUBSET alive : Install(some)
         \/ unknown # {} /\ \E some \in SUBSET alive : Install(some)
  BY Zenon DEF CreateEnforcementRule
<1>2. /\ \A s \in targets : JobOf[s] = request.job
      /\ alive \subseteq targets
  OBVIOUS
<1>3. targets = TargetsOf(l, r) /\ alive = AliveOf(l, r) /\ r = request
  BY DEF TargetsOf, AliveOf
<1>4. unknown = r.envs \ {EnvOf[s] : s \in targets}
  BY <1>3
<1> HIDE DEF targets, alive, unknown, request
<1>5. Install(targets) => LimitedBy(r, targets)
  BY <1>1, <1>2, <1>3 DEF LimitedBy
<1>6. ASSUME NEW some \in SUBSET alive, Install(some)
      PROVE  some \in SUBSET targets /\ LimitedBy(r, some)
  BY <1>1, <1>2, <1>3, <1>6 DEF LimitedBy
<1> HIDE DEF Install
<1>7. /\ local[l].up /\ r.type = "CREATE_ENF_RULE"
      /\ \/ ~local[l].handshaken /\ UNCHANGED limit
         \/ LimitedBy(r, targets)
         \/ alive # targets /\ \E some \in SUBSET targets : LimitedBy(r, some)
         \/ unknown # {} /\ \E some \in SUBSET targets : LimitedBy(r, some)
  BY <1>1, <1>3, <1>5, <1>6
<1> QED
  BY <1>3, <1>4, <1>7

\* A rule that arrives reaches every working stage that it is about.
LEMMA RuleArrives ==
    ASSUME KeysDistinct, Flow, SameStages, ProcessesTyped, LimitMaps, active_op \in Ops,
           Welcomed, CallsKnown, ~Failed,
           NEW l \in Locals, NEW i \in 1..Len(session[l].sending), CreateEnforcementRule(l, i),
           UNCHANGED <<job_location_tracker, rates>>,
           NEW s \in Stages, Settled(s), Follows(s)
    PROVE  Follows(s)'
<1> DEFINE r == session[l].sending[i]
           m == LocalOf[s]
           mine == RuleNow(m, JobOf[s])
<1>1. \E response : Respond(l, i, response)
  BY Zenon DEF CreateEnforcementRule
<1>2. /\ r \in Requests(session[l])
      /\ \A n \in Locals : \A x \in Requests(session[n]) :
             x \in Requests(session'[n]) \/ (n = l /\ x = r)
  BY <1>1, RequestsAnsweredBy DEF Flow
<1>3. /\ Part(JobOf[s])' = Part(JobOf[s]) /\ active_op' = active_op
      /\ RuleNow(m, JobOf[s])' = mine
  BY DEF Part, RuleNow, TotalStages, TrackedEnvs, rates
<1>4. /\ local[l].up /\ r.type = "CREATE_ENF_RULE"
      /\ \/ ~local[l].handshaken /\ UNCHANGED limit
         \/ LimitedBy(r, TargetsOf(l, r))
         \/ AliveOf(l, r) # TargetsOf(l, r) /\ \E some \in SUBSET TargetsOf(l, r) : LimitedBy(r, some)
         \/ /\ r.envs \ {EnvOf[t] : t \in TargetsOf(l, r)} # {}
            /\ \E some \in SUBSET TargetsOf(l, r) : LimitedBy(r, some)
  BY RuleHandled
<1>5. pc = "results" /\ l \in local_sessions_ /\ r = RuleNow(l, r.job)
  BY <1>2, <1>4 DEF CallsKnown, KnownCall
<1>6. local[l].handshaken
  BY <1>4, <1>5 DEF Welcomed
<1>7. /\ r.envs = TrackedEnvs(r.job, l) /\ r.op = active_op /\ r.limit = Part(r.job)
      /\ mine.job = JobOf[s]
  <2> HIDE DEF r
  <2> QED
    BY <1>5 DEF RuleNow, CreateEnfRule
<1>8. \A n \in Locals : local[n].data_sessions \subseteq Stages
  BY DEF ProcessesTyped, LocalRecords
<1> HIDE DEF r, mine
<1>9. CASE m = l /\ JobOf[s] = r.job
  <2>1. /\ EnvOf[s] \in r.envs /\ s \in local[l].data_sessions
        /\ \A t \in local[l].data_sessions :
               JobOf[t] = JobOf[s] /\ EnvOf[t] \in r.envs => stage[t] = "running"
        /\ \A e \in r.envs : \E t \in local[l].data_sessions : JobOf[t] = JobOf[s] /\ EnvOf[t] = e
    <3>1. l = LocalOf[s] /\ r.envs = TrackedEnvs(JobOf[s], l) /\ local[l].data_sessions \subseteq Stages
      BY <1>7, <1>8, <1>9
    <3> HIDE DEF m
    <3> QED
      BY <3>1, SettledStage
  <2>2. s \in TargetsOf(l, r) /\ AliveOf(l, r) = TargetsOf(l, r)
    BY <1>9, <2>1 DEF TargetsOf, AliveOf
  <2>3. r.envs \ {EnvOf[t] : t \in TargetsOf(l, r)} = {}
    BY <1>9, <2>1 DEF TargetsOf
  <2>4. LimitedBy(r, TargetsOf(l, r))
    BY <1>4, <1>6, <2>2, <2>3
  <2>5. limit'[s] = [limit[s] EXCEPT ![r.op] = r.limit]
    BY <2>2, <2>4 DEF LimitedBy
  <2>6. limit'[s][active_op] = Part(JobOf[s])
    BY <1>7, <1>9, <2>5 DEF LimitMaps
  <2> QED
    BY <1>3, <2>6 DEF Follows
<1>10. CASE ~(m = l /\ JobOf[s] = r.job)
  <2>1. limit'[s] = limit[s]
    <3>1. s \notin TargetsOf(l, r)
      <4>1. local[l].data_sessions \subseteq StagesOf(l)
        BY DEF Flow, LocalsTyped, LocalTyped
      <4> QED
        BY <1>10, <4>1 DEF TargetsOf, StagesOf
    <3>2. ASSUME NEW some \in SUBSET TargetsOf(l, r), LimitedBy(r, some) PROVE limit'[s] = limit[s]
      BY <3>1, <3>2 DEF LimitedBy
    <3> QED
      BY <1>4, <1>6, <3>2
  <2>2. mine \in Requests(session[m]) => mine \in Requests(session'[m])
    <3>1. m \in Locals
      BY CoreAssumption
    <3> QED
      BY <1>2, <1>7, <1>10, <3>1
  <2> QED
    BY <1>3, <2>1, <2>2 DEF Follows, mine
<1> QED
  BY <1>9, <1>10

\* An answer that reports no stage lost changes nothing.
LEMMA NothingLost ==
    ASSUME Flow, TrackersTyped, CollectStatisticsResult, ~change_in_system'
    PROVE  /\ ~change_in_system /\ UNCHANGED <<active_op, environment>>
           /\ DOMAIN job_location_tracker' = DOMAIN job_location_tracker
           /\ \A l \in Locals : StagesAt(l)' = StagesAt(l)
           /\ \A l \in Locals : \A job : TrackedEnvs(job, l)' = TrackedEnvs(job, l)
           /\ \A job \in DOMAIN job_location_tracker : Part(job)' = Part(job)
<1>1. UNCHANGED <<active_op, environment>>
  BY AnswerSteps
<1>2. CASE UNCHANGED <<trackers, rates, change_in_system>>
  BY <1>1, <1>2 DEF trackers, rates, StagesAt, TrackedEnvs, Part, TotalStages
<1>3. ASSUME NEW l \in Locals, NEW lost, RemoveStages(lost),
             local_to_stages' =
                 IF Remaining(l, lost) # {}
                 THEN [local_to_stages EXCEPT ![l] = Remaining(l, lost)]
                 ELSE Restrict(local_to_stages, DOMAIN local_to_stages \ {l})
      PROVE  /\ ~change_in_system
             /\ DOMAIN job_location_tracker' = DOMAIN job_location_tracker
             /\ \A m \in Locals : StagesAt(m)' = StagesAt(m)
             /\ \A m \in Locals : \A job : TrackedEnvs(job, m)' = TrackedEnvs(job, m)
             /\ \A job \in DOMAIN job_location_tracker : Part(job)' = Part(job)
  <2> DEFINE jobs == DOMAIN job_location_tracker
  <2>1. lost = {} /\ ~change_in_system
    BY <1>3 DEF RemoveStages
  <2>2. \A m \in Locals : StagesAt(m)' = StagesAt(m)
    BY <1>3, <2>1 DEF Remaining, StagesAt, Restrict
  <2>3. \A job \in jobs : \A m \in DOMAIN job_location_tracker[job] :
            EnvsLeft(job, m, {}) = job_location_tracker[job][m]
    BY DEF EnvsLeft, TrackedEnvs
  <2>4. \A job \in jobs : LocationsLeft(job, {}) = DOMAIN job_location_tracker[job]
    BY <2>3 DEF LocationsLeft, TrackersTyped
  <2>5. {job \in jobs : LocationsLeft(job, {}) # {}} = jobs
    BY <2>4 DEF TrackersTyped
  <2>6. /\ job_location_tracker' =
             [job \in jobs |-> [m \in LocationsLeft(job, {}) |-> EnvsLeft(job, m, {})]]
        /\ job_previous_rates' = Restrict(job_previous_rates, DOMAIN job_previous_rates \ {})
    BY <1>3, <2>1, <2>5 DEF RemoveStages
  <2>7. \A job \in jobs :
            /\ DOMAIN job_location_tracker'[job] = DOMAIN job_location_tracker[job]
            /\ \A m \in DOMAIN job_location_tracker[job] :
                   job_location_tracker'[job][m] = job_location_tracker[job][m]
    BY <2>3, <2>4, <2>6
  <2>8. DOMAIN job_location_tracker' = jobs
    BY <2>6
  <2>9. \A m \in Locals : \A job : TrackedEnvs(job, m)' = TrackedEnvs(job, m)
    BY <2>7, <2>8 DEF TrackedEnvs
  <2>10. \A job \in jobs : TotalStages(job)' = TotalStages(job)
    BY <2>7 DEF TotalStages
  <2>11. \A job \in jobs : job_previous_rates'[job] = job_previous_rates[job]
    BY <2>6 DEF Restrict, TrackersTyped
  <2> QED
    BY <2>1, <2>2, <2>8, <2>9, <2>10, <2>11 DEF Part
<1> QED
  BY <1>1, <1>2, <1>3, AnswerSteps

\* A call that carries no rule, and one to a local controller that is gone.
LEMMA OthersAnswered ==
    ASSUME Flow, NEW l \in Locals, NEW i \in 1..Len(session[l].sending),
           \/ CallFails(l, i) \/ HandleLocalHandshake(l, i) \/ MarkStageReady(l, i)
           \/ CollectGlobalStatistics(l, i)
    PROVE  /\ UNCHANGED limit
           /\ \A m \in Locals : \A r \in Requests(session[m]) :
                  r.type = "CREATE_ENF_RULE" =>
                      r \in Requests(session'[m]) \/ (m = l /\ ~local[l].up)
<1> DEFINE x == session[l].sending[i]
<1>1. UNCHANGED limit /\ \E response : Respond(l, i, response)
  BY Zenon DEF CallFails, HandleLocalHandshake, MarkStageReady, CollectGlobalStatistics
<1>2. ~local[l].up \/ x.type \in {"LOCAL_HANDSHAKE", "STAGE_READY"} \/ x = CollectStats
  BY DEF CallFails, HandleLocalHandshake, MarkStageReady, CollectGlobalStatistics
<1>3. x.type = "CREATE_ENF_RULE" => ~local[l].up
  BY <1>2 DEF CollectStats
<1>4. \A m \in Locals : \A r \in Requests(session[m]) :
          r \in Requests(session'[m]) \/ (m = l /\ r = x)
  BY <1>1, RequestsAnsweredBy DEF Flow
<1> QED
  BY <1>1, <1>3, <1>4

\* Outside the main loop: rules arrive, or are lost with their local controller.
LEMMA FollowedOutside ==
    ASSUME KeysDistinct, Flow, SameStages, ProcessesTyped, LimitMaps, SameOp, DownForgets,
           NoneNew, Welcomed, CallsKnown, LimitsFollowed, [Next]_vars, ~MainLoop
    PROVE  LimitsFollowed'
<1>1. Outside
  BY Environment DEF Next
<1> SUFFICES ASSUME ~Failed, change_in_system => pc \in {"results", "sleep"},
                    NEW s \in Stages, Settled(s)'
             PROVE  Follows(s)'
  BY <1>1 DEF LimitsFollowed, Outside, rounds, Failed
<1> DEFINE m == LocalOf[s]
           job == JobOf[s]
           mine == RuleNow(m, job)
<1>2. m \in Locals /\ mine.type = "CREATE_ENF_RULE"
  BY CoreAssumption DEF RuleNow, CreateEnfRule
<1>3. /\ UNCHANGED <<job_location_tracker, rates>>
      /\ StagesAt(m)' = StagesAt(m) /\ TrackedEnvs(job, m)' = TrackedEnvs(job, m)
      /\ active_op' = active_op /\ Part(job)' = Part(job)
      /\ RuleNow(m, job)' = mine
  BY <1>1 DEF Outside, trackers, rates, StagesAt, TrackedEnvs, RuleNow, Part, TotalStages
<1>4. local'[m].data_sessions \subseteq local[m].data_sessions
  <2>1. LocalChange(m)
    BY <1>2, LocalChanges DEF Next
  <2>2. ~\E r \in Requests(session[m]) : r.type = "STAGE_READY"
    BY <1>2 DEF CallsKnown, KnownCall
  <2> QED
    BY <2>1, <2>2 DEF LocalChange, LocalGoesOn
<1>5. Settled(s)
  <2>1. m = LocalOf[s] /\ TrackedEnvs(JobOf[s], m)' = TrackedEnvs(JobOf[s], m)
    BY <1>3
  <2> HIDE DEF m
  <2> QED
    BY <1>3, <1>4, <2>1, SettledStays
<1>6. Follows(s)
  BY <1>5 DEF LimitsFollowed
<1>7. ASSUME UNCHANGED limit, mine \in Requests(session[m]) => mine \in Requests(session'[m])
      PROVE  Follows(s)'
  <2> HIDE DEF mine
  <2>1. limit'[s][active_op'] = limit[s][active_op]
    BY <1>3, <1>7
  <2> QED
    BY <1>3, <1>6, <1>7, <2>1 DEF Follows, mine
<1>8. CASE \E l \in Locals : SessionSend(l)
  <2>1. UNCHANGED limit
    BY <1>8 DEF SessionSend, environment
  <2>2. Requests(session'[m]) = Requests(session[m])
    BY <1>2, <1>8, RequestsSent DEF Flow
  <2> QED
    BY <1>7, <2>1, <2>2
<1>9. ASSUME NEW l \in Locals, NEW i \in 1..Len(session[l].sending), CreateEnforcementRule(l, i)
      PROVE  Follows(s)'
  <2>1. active_op \in Ops
    BY CoreAssumption DEF SameOp
  <2> QED
    BY <1>3, <1>5, <1>6, <1>9, <2>1, RuleArrives
<1>10. ASSUME NEW l \in Locals, NEW i \in 1..Len(session[l].sending),
              \/ CallFails(l, i) \/ HandleLocalHandshake(l, i) \/ MarkStageReady(l, i)
              \/ CollectGlobalStatistics(l, i)
       PROVE  Follows(s)'
  <2>1. UNCHANGED limit
        /\ (mine \in Requests(session[m]) =>
                mine \in Requests(session'[m]) \/ (m = l /\ ~local[l].up))
    BY <1>2, <1>10, OthersAnswered
  <2>2. local[m].up
    <3>1. m = LocalOf[s] /\ local[m].data_sessions \subseteq Stages
      BY <1>2 DEF ProcessesTyped, LocalRecords
    <3> HIDE DEF m
    <3>2. s \in local[m].data_sessions
      BY <1>5, <3>1, SettledStage
    <3> QED
      BY <1>2, <3>2 DEF DownForgets
  <2> QED
    BY <1>7, <2>1, <2>2
<1>11. CASE \/ \E l \in Locals : LocalStart(l) \/ LocalStop(l)
            \/ \E t \in Stages : StageStart(t) \/ StageStop(t)
            \/ EnqueueRule \/ CountLocal \/ CountDataPlane
            \/ UNCHANGED vars
  <2>1. UNCHANGED <<limit, session>>
    BY <1>11 DEF LocalStart, LocalStop, StageStart, StageStop, EnqueueRule, CountLocal, CountDataPlane, vars, environment
  <2> QED
    BY <1>7, <2>1
<1> QED
  BY <1>8, <1>9, <1>10, <1>11 DEF Next, SessionReply

\* In the main loop: a round sends the rules that are called for.
LEMMA FollowedInLoop ==
    ASSUME KeysDistinct, ControlType = "DYNAMIC_VANILLA", Flow, InStep, TrackersTyped, SameStages,
           ProcessesTyped, NoneNew, CallsKnown, SameOp, SameOp', LimitsFollowed,
           [Next]_vars, MainLoop
    PROVE  LimitsFollowed'
<1> SUFFICES ASSUME ~Failed', change_in_system' => pc' \in {"results", "sleep"},
                    NEW s \in Stages, Settled(s)'
             PROVE  Follows(s)'
  BY DEF LimitsFollowed
<1> DEFINE m == LocalOf[s]
           job == JobOf[s]
           mine == RuleNow(m, job)
<1>1. ~Leftover /\ ~Failed /\ UNCHANGED <<local, stage, limit>> /\ active_op' = active_op
  BY MainLoopRuns, LoopLeavesEnvironment DEF Leftover, Failed, environment, SameOp
<1>2. m \in Locals /\ local[m].data_sessions \subseteq Stages
  BY CoreAssumption DEF ProcessesTyped, LocalRecords
<1>3. mine.type = "CREATE_ENF_RULE"
  BY DEF RuleNow, CreateEnfRule
<1>4. ASSUME StagesAt(m)' = StagesAt(m), TrackedEnvs(job, m)' = TrackedEnvs(job, m)
      PROVE  /\ Settled(s) /\ job \in DOMAIN job_location_tracker
             /\ EnvOf[s] \in TrackedEnvs(job, m)
  <2>1. /\ m = LocalOf[s] /\ TrackedEnvs(JobOf[s], m)' = TrackedEnvs(JobOf[s], m)
        /\ local'[m].data_sessions \subseteq local[m].data_sessions
    BY <1>1, <1>4
  <2> HIDE DEF m
  <2>2. Settled(s)
    BY <1>4, <2>1, SettledStays
  <2> QED
    BY <1>2, <2>1, <2>2, SettledStage
<1>5. ASSUME Part(job)' = Part(job), limit[s][active_op] = Part(job) PROVE Follows(s)'
  BY <1>1, <1>5 DEF Follows
<1>6. pc # "results" => mine \notin Requests(session[m])
  BY <1>1, <1>2, <1>3 DEF CallsKnown, KnownCall
<1>7. ~HandleDataPlane
  BY DEF HandleDataPlane, Goto, Crash, Failed
<1>8. CASE CollectStatisticsResult
  <2>1. pc = "collect" /\ pc' = "collect"
    BY <1>8, AnswerSteps DEF Failed
  <2>2. ~change_in_system'
    BY <2>1
  <2>3. /\ ~change_in_system
        /\ StagesAt(m)' = StagesAt(m) /\ TrackedEnvs(job, m)' = TrackedEnvs(job, m)
        /\ job \in DOMAIN job_location_tracker => Part(job)' = Part(job)
    BY <1>2, <1>8, <2>2, NothingLost
  <2>4. Settled(s) /\ Part(job)' = Part(job)
    BY <1>4, <2>3
  <2>5. limit[s][active_op] = Part(job)
    BY <1>1, <1>6, <2>1, <2>3, <2>4 DEF LimitsFollowed, Follows
  <2> QED
    BY <1>5, <2>4, <2>5
<1>9. CASE Computes
  <2>1. ComputeAndEnforceDynamicVanillaRules
    BY <1>9 DEF Computes, ComputeAndEnforceStaticRules, ComputeAndEnforceDynamicLeftoverRules
  <2>2. /\ pc = "compute" /\ UNCHANGED <<trackers, change_in_system>>
        /\ \/ DOMAIN job_location_tracker = {}
           \/ \E send \in SUBSET DOMAIN job_location_tracker : RulesGiven(send)
    BY <2>1, VanillaRound DEF Failed
  <2>3. StagesAt(m)' = StagesAt(m) /\ TrackedEnvs(job, m)' = TrackedEnvs(job, m)
    BY <2>2 DEF trackers, StagesAt, TrackedEnvs
  <2>4. /\ Settled(s) /\ job \in DOMAIN job_location_tracker
        /\ EnvOf[s] \in TrackedEnvs(job, m)
    BY <1>4, <2>3
  <2>5. PICK send \in SUBSET DOMAIN job_location_tracker : RulesGiven(send)
    BY <2>2, <2>4
  <2>6. CASE job \in send
    <3>1. job \in JobsAt(m, send)
      BY <2>4, <2>6 DEF JobsAt
    <3>2. RuleNow(m, job)' \in Requests(session'[m])
      BY <1>2, <2>5, <3>1 DEF RulesGiven
    <3> QED
      BY <3>2 DEF Follows
  <2>7. CASE job \notin send
    <3>1. ~change_in_system /\ Part(job)' = Part(job)
      BY <2>4, <2>5, <2>7 DEF RulesGiven
    <3>2. limit[s][active_op] = Part(job)
      BY <1>1, <1>6, <2>2, <2>4, <3>1 DEF LimitsFollowed, Follows
    <3> QED
      BY <1>5, <3>1, <3>2
  <2> QED
    BY <2>6, <2>7
<1>10. CASE ~CollectStatisticsResult /\ ~Computes
  <2>1. /\ UNCHANGED <<job_location_tracker, rates>>
        /\ \A l \in Locals : StagesAt(l)' = StagesAt(l)
        /\ EndRound \/ UNCHANGED change_in_system
        /\ pc' = "results" => pc = "results"
        /\ pc' = "sleep" => EndRound
    BY <1>1, <1>7, <1>10, LoopKeeps
  <2>2. /\ StagesAt(m)' = StagesAt(m) /\ TrackedEnvs(job, m)' = TrackedEnvs(job, m)
        /\ Part(job)' = Part(job) /\ RuleNow(m, job)' = mine
    BY <1>2, <2>1 DEF TrackedEnvs, Part, TotalStages, RuleNow, rates
  <2>3. Settled(s)
    BY <1>4, <2>2
  <2>4. EndRound => pc = "results"
    BY DEF EndRound
  <2>5. Follows(s)
    BY <1>1, <2>1, <2>3, <2>4 DEF LimitsFollowed
  <2>6. CASE mine \in Requests(session[m])
    <3>1. pc = "results"
      BY <1>6, <2>6
    <3>2. ~EndRound
      BY <1>1, <1>2, <2>6, QuietPlaces
    <3>3. CollectEnforcementRuleResults
      BY <1>10, <3>1, <3>2
         DEF MainLoop, Computes, WaitForLocal, LoopCondition, Exit, HandleLocalController,
             CallLocalHandshake, NoMoreLocalControllers, HandleDataPlane,
             MarkDataPlaneStageReady, NoMoreDataPlanes, CollectStatisticsGlobal,
             CollectStatisticsGlobalSend, DisconnectLocals, WakeUp
    <3>4. Requests(session'[m]) = Requests(session[m])
      <4>1. PICK w \in todo : session' = PopAnswer(w[1])
        BY <3>3 DEF CollectEnforcementRuleResults
      <4> DEFINE q == session[m]
                 r == [q EXCEPT !.completion = Tail(@)]
      <4>2. session'[m] = r \/ session'[m] = q
        BY <1>2, <4>1 DEF PopAnswer, Flow, SessionsTyped
      <4>3. SessionTyped(m, q)
        BY <1>2 DEF Flow, SessionsTyped
      <4> HIDE DEF q, m
      <4>4. Requests(r) = Requests(q)
        BY <4>3, PopRequests
      <4> QED
        BY <4>2, <4>4 DEF q
    <3> HIDE DEF mine
    <3> QED
      BY <2>2, <2>6, <3>4 DEF Follows
  <2>7. CASE mine \notin Requests(session[m])
    <3>1. limit[s][active_op] = Part(job)
      BY <2>5, <2>7 DEF Follows
    <3> QED
      BY <1>5, <2>2, <3>1
  <2> QED
    BY <2>6, <2>7
<1> QED
  BY <1>8, <1>9, <1>10

FollowInv ==
    /\ ProcessesTyped /\ StartsCounted /\ DownForgets /\ StartedOnce /\ NoneNew /\ LimitMaps
    /\ SameOp /\ Welcomed /\ CallsKnown /\ LimitsFollowed

LEMMA FollowAtStart == Init => FollowInv
<1> SUFFICES ASSUME Init PROVE FollowInv
  OBVIOUS
<1>1. ProcessesTyped /\ StartsCounted
  BY AllTypedAtStart DEF AllTyped
<1>2. /\ \A l \in Locals : session[l] = Idle /\ local[l] = Stopped
      /\ \A s \in Stages : limit[s] = [op \in Ops |-> HousekeepingRate]
      /\ local_sessions_ = {} /\ active_op = FirstOp /\ ~change_in_system
  BY DEF Init
<1>3. Requests(Idle) = {}
  BY DEF Requests, Idle, ToSet
<1>4. Stopped.preparing = {} /\ Stopped.data_sessions = {}
  BY DEF Stopped
<1>5. DownForgets /\ NoneNew
  BY <1>2, <1>4 DEF DownForgets, NoneNew
<1>6. StartedOnce /\ Welcomed /\ SameOp
  BY <1>2 DEF StartedOnce, Welcomed, SameOp
<1>7. LimitMaps
  BY <1>2 DEF LimitMaps
<1>8. CallsKnown
  BY <1>2, <1>3 DEF CallsKnown
<1>9. LimitsFollowed
  <2>1. ASSUME NEW s \in Stages PROVE ~Settled(s)
    BY CoreAssumption DEF Init, Settled, StagesAt
  <2> QED
    BY <2>1 DEF LimitsFollowed
<1> QED
  BY <1>1, <1>5, <1>6, <1>7, <1>8, <1>9 DEF FollowInv

LEMMA FollowKept ==
    ASSUME ControlType = "DYNAMIC_VANILLA", KeysDistinct, OneOperation, MaxStarts <= 1,
           Flow, InStep, TrackersTyped, SameStages, PolicyQueue, FollowInv, [Next]_vars
    PROVE  FollowInv'
<1>0. /\ ProcessesTyped /\ StartsCounted /\ DownForgets /\ StartedOnce /\ NoneNew /\ LimitMaps
      /\ SameOp /\ Welcomed /\ CallsKnown /\ LimitsFollowed
      /\ ~Leftover
  BY DEF FollowInv, Leftover
<1>1. ProcessesTyped' /\ StartsCounted' /\ StartedOnce' /\ NoneNew' /\ LimitMaps'
  BY <1>0, ProcessSteps, StartsCountedKept, StartedOnceKept, NoneNewKept, LimitMapsKept
<1>2. DownForgets'
  <2>1. CASE MainLoop
    BY <1>0, <2>1, LoopLeavesEnvironment DEF environment, DownForgets
  <2>2. CASE ~MainLoop
    BY <1>0, <2>2, Forgets DEF Next
  <2> QED
    BY <2>1, <2>2
<1>3. SameOp' /\ Welcomed' /\ CallsKnown'
  BY <1>0, SameOpKept, WelcomedKept, CallsKnownKept
<1>4. LimitsFollowed'
  BY <1>0, <1>3, FollowedOutside, FollowedInLoop
<1> QED
  BY <1>1, <1>2, <1>3, <1>4 DEF FollowInv

\* DYNAMIC_VANILLA: at the end of a round every working stage has an equal part of
\* the rate last sent for its job, however many stages and local controllers come,
\* go and answer in whatever order, and although a job's rate that moved by less
\* than IOPS_THRESHOLD is not sent: change_in_system (core_control_application.hpp:24-25)
\* makes the loop send every rate anew when the number of stages that share one
\* changed, and a rule is never lost on its way to a stage that works.
\* The rules of the policies file are about one operation: when the next rule is
\* about another, the rates below the threshold are not sent for it.  No two stages
\* have the same key, which the trackers would take for one stage.  A local
\* controller does not start a second time: a stage of its second process can get
\* its rule before that process has its housekeeping rules, and the core takes no
\* notice of the refusal.  (send_enforcement_rule, collect_enforcement_rule_results.)
THEOREM LimitsFollowRates ==
    ASSUME ControlType = "DYNAMIC_VANILLA", KeysDistinct, OneOperation, MaxStarts <= 1
    PROVE  SafetySpec => []LimitsAgree
<1>1. KeysTellNodes
  BY DEF KeysDistinct, KeysTellNodes
<1>2. SafetySpec => []Tracking
  BY <1>1, TrackingHolds
<1>3. Flow /\ InStep /\ Tracking /\ PolicyQueue /\ FollowInv /\ [Next]_vars => FollowInv'
  BY FollowKept DEF Tracking
<1>4. FollowInv => LimitsAgree
  <2> SUFFICES ASSUME FollowInv, pc = "sleep", NEW s \in Stages, Settled(s)
               PROVE  limit[s][active_op] = Part(JobOf[s])
    BY DEF LimitsAgree, Part
  <2> DEFINE rule == RuleNow(LocalOf[s], JobOf[s])
  <2>1. CallsKnown /\ Follows(s)
    BY DEF FollowInv, LimitsFollowed, Failed
  <2>2. LocalOf[s] \in Locals /\ rule.type = "CREATE_ENF_RULE"
    BY CoreAssumption DEF RuleNow, CreateEnfRule
  <2>3. rule \notin Requests(session[LocalOf[s]])
    BY <2>1, <2>2 DEF CallsKnown, KnownCall, Failed
  <2> QED
    BY <2>1, <2>3 DEF Follows
<1> QED
  BY <1>2, <1>3, <1>4, FollowAtStart, FlowHolds, PolicyQueueHolds, PTL DEF SafetySpec
===============================================================================
