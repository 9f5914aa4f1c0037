----------------------- MODULE AllocationRounds_proofs -----------------------
(* What DYNAMIC_VANILLA and DYNAMIC_LEFTOVER promise, for any number of jobs, *)
(* any limit that has 1 IOPS for each of them, any demands and any usage.     *)
EXTENDS AllocationRounds, RateAllocation_proofs

N == Len(JobOrder)

LEMMA JobsInOrder ==
    /\ JobOrder \in Seq(Jobs) /\ JobOrder # <<>> /\ Distinct(JobOrder)
    /\ N \in Nat /\ N > 0 /\ DOMAIN JobOrder = 1..N
    /\ Jobs = First(JobOrder, N)
    /\ IsFiniteSet(Jobs) /\ Cardinality(Jobs) = N
    /\ \A l \in AllLimits : l \in Nat /\ l >= N
<1>1. JobOrder \in Seq(Jobs) /\ JobOrder # <<>> /\ Distinct(JobOrder)
  BY AllocationAssumption DEF Distinct
<1>2. N \in Nat /\ N > 0 /\ DOMAIN JobOrder = 1..N
  BY <1>1, EmptySeq DEF N
<1>3. Jobs = First(JobOrder, N)
  BY <1>2 DEF Jobs, ToSet, First
<1>4. IsFiniteSet(Jobs) /\ Cardinality(Jobs) = N
  BY <1>1, <1>2, <1>3, FirstJobsFinite, JobsCounted DEF N
<1>5. \A l \in AllLimits : l \in Nat /\ l >= N
  BY AllocationAssumption DEF N
<1> QED
  BY <1>1, <1>2, <1>3, <1>4, <1>5

-------------------------------------------------------------------------------
(* Demands are those of policy rules, -1 before the first of a job.           *)

DemandsStated ==
    /\ demands \in [Jobs -> Nat \cup {-1}]
    /\ limit \in AllLimits

\* A job's demand is -1 or one that a policy rule states, and the limit does not
\* change.  (job_demands in the core controller.)
THEOREM DemandsAreStated == Spec => []DemandsStated
<1>1. Init => DemandsStated
  BY DEF Init, DemandsStated, AllLimits
<1>2. ASSUME DemandsStated, [Next]_vars
      PROVE  DemandsStated'
  <2>1. ASSUME NEW job \in Jobs, NEW demand \in Demands[limit], SetDemand(job, demand)
        PROVE  DemandsStated'
    <3>1. demand \in Nat
      BY <1>2, AllocationAssumption DEF DemandsStated
    <3> QED
      BY <1>2, <2>1, <3>1 DEF SetDemand, DemandsStated
  <2>2. ASSUME NEW used \in [Jobs -> Usages], NEW change \in BOOLEAN,
               LeftoverRound(used, change)
        PROVE  DemandsStated'
    BY <1>2, <2>2 DEF LeftoverRound, DemandsStated
  <2>3. CASE UNCHANGED vars
    BY <1>2, <2>3 DEF vars, DemandsStated
  <2> QED
    BY <1>2, <2>1, <2>2, <2>3 DEF Next
<1> QED
  BY <1>1, <1>2, PTL DEF Spec

-------------------------------------------------------------------------------
(* DYNAMIC_VANILLA.                                                           *)

\* What the proofs about Rates use of the first phase p.
LEMMA VanillaRates ==
    ASSUME DemandsStated
    PROVE  \E p :
              /\ \A i \in 1..N :
                    /\ Rates[JobOrder[i]] = Granted(p, JobOrder, demands, i) + p[N].left \div N
                    /\ Granted(p, JobOrder, demands, i) \in Nat
                    /\ Granted(p, JobOrder, demands, i) <= Share(p, i)
                    /\ Share(p, i) \in Int
                    /\ \A k \in i..N : Share(p, i) <= Share(p, k)
              /\ p[N].left \div N \in Nat
              /\ Share(p, 1) = limit \div N
<1>1. /\ JobOrder \in Seq(Jobs) /\ JobOrder # <<>> /\ Distinct(JobOrder)
      /\ demands \in [Jobs -> Nat \cup {-1}] /\ limit \in Nat /\ limit >= Len(JobOrder)
      /\ N \in Nat /\ N > 0
  BY JobsInOrder DEF DemandsStated, N
<1>2. PICK p : IsVanilla(VanillaAllocation(JobOrder, demands, limit), p,
                         JobOrder, demands, limit, Jobs)
  BY <1>1, VanillaResult
<1>3. IsPhases(FALSE, VanillaStart(JobOrder, demands, limit), JobOrder, p)
  BY <1>2 DEF IsVanilla
<1>4. \A k \in 0..N : VanillaAt(p, JobOrder, demands, limit, Jobs, k)
  BY <1>2 DEF IsVanilla, N
<1>5. \A i \in 1..N :
         Rates[JobOrder[i]] = Granted(p, JobOrder, demands, i) + p[N].left \div N
  BY <1>2 DEF IsVanilla, N, Rates
<1>6. ASSUME NEW i \in 1..N
      PROVE  /\ Granted(p, JobOrder, demands, i) \in Nat
             /\ Granted(p, JobOrder, demands, i) <= Share(p, i)
             /\ Share(p, i) \in Int
  <2>1. i \in 0..N /\ i \in 1..i /\ i - 1 \in 0..N /\ N - (i - 1) \in Nat /\ N - (i - 1) > 0
    BY <1>1
  <2>2. p[i - 1].left \in Nat /\ p[i - 1].jobs = N - (i - 1)
    BY <1>4, <2>1 DEF VanillaAt, N
  <2>3. Share(p, i) \in Int
    BY <2>1, <2>2, DivBounds DEF Share
  <2> QED
    BY <1>4, <2>1, <2>3 DEF VanillaAt
<1>7. ASSUME NEW i \in 1..N, NEW k \in i..N
      PROVE  Share(p, i) <= Share(p, k)
  BY <1>1, <1>3, <1>4, VanillaSharesGrow DEF N
<1>8. p[N].left \div N \in Nat
  <2>1. N \in 0..N
    BY <1>1
  <2>2. p[N].left \in Nat
    BY <1>4, <2>1 DEF VanillaAt
  <2> QED
    BY <1>1, <2>2, DivOfNatural
<1>9. Share(p, 1) = limit \div N
  <2>1. p[0].left = limit /\ p[0].jobs = N
    BY <1>3 DEF IsPhases, VanillaStart, N
  <2> QED
    BY <2>1 DEF Share
<1> QED
  BY <1>5, <1>6, <1>7, <1>8, <1>9

\* DYNAMIC_VANILLA hands out the limit, never more, and all of it but for the
\* remainder of the last division, whatever the jobs demand.
\* (The loops over left_iops in compute_and_enforce_dynamic_vanilla_rules.)
THEOREM VanillaHandsOutTheLimit == Spec => []LimitDistributed
<1>1. ASSUME DemandsStated PROVE LimitDistributed
  <2>1. /\ JobOrder \in Seq(Jobs) /\ JobOrder # <<>> /\ Distinct(JobOrder)
        /\ demands \in [Jobs -> Nat \cup {-1}] /\ limit \in Nat /\ limit >= Len(JobOrder)
    BY <1>1, JobsInOrder DEF DemandsStated, N
  <2> QED
    BY <2>1, VanillaTotal DEF LimitDistributed, Rates
<1> QED
  BY <1>1, DemandsAreStated, PTL

\* DYNAMIC_VANILLA gives each job its demand or an equal share of the limit, if
\* that is less, whatever its place in the order of the jobs.
THEOREM VanillaIsFair == Spec => []NoJobBelowFairShare
<1>1. ASSUME DemandsStated, NEW job \in Jobs
      PROVE  Rates[job] >= Asked(demands[job]) \/ Rates[job] >= TruncDiv(limit, Len(JobOrder))
  <2>1. PICK i \in 1..N : JobOrder[i] = job
    BY JobsInOrder DEF First
  <2>2. PICK p :
            /\ \A k \in 1..N :
                  /\ Rates[JobOrder[k]] = Granted(p, JobOrder, demands, k) + p[N].left \div N
                  /\ Granted(p, JobOrder, demands, k) \in Nat
                  /\ Share(p, k) \in Int
                  /\ \A m \in k..N : Share(p, k) <= Share(p, m)
            /\ p[N].left \div N \in Nat
            /\ Share(p, 1) = limit \div N
    BY <1>1, VanillaRates
  <2>3. TruncDiv(limit, Len(JobOrder)) = Share(p, 1)
    BY <1>1, <2>2, JobsInOrder, DivOfNatural DEF DemandsStated, N
  <2>4. 1 \in 1..N /\ i \in 1..N
    BY JobsInOrder
  <2>5. Share(p, 1) <= Share(p, i) /\ Share(p, 1) \in Int
    BY <2>2, <2>4
  <2> DEFINE granted == Granted(p, JobOrder, demands, i)
             extra == p[N].left \div N
  <2>6. granted = Asked(demands[job]) \/ granted = Share(p, i)
    BY <2>1 DEF Granted
  <2>7. Rates[job] = granted + extra /\ granted \in Nat /\ extra \in Nat /\ Share(p, i) \in Int
    BY <2>1, <2>2
  <2> HIDE DEF granted, extra
  <2> QED
    BY <2>3, <2>5, <2>6, <2>7
<1>2. DemandsStated => NoJobBelowFairShare
  BY <1>1 DEF NoJobBelowFairShare
<1> QED
  BY <1>2, DemandsAreStated, PTL

\* Under DYNAMIC_VANILLA a job never gets less than an earlier one that asks for
\* no more: the order of job_location_tracker can only hurt the earlier jobs.
THEOREM VanillaFavoursLaterJobs == Spec => []LaterJobNotWorse
<1>1. ASSUME DemandsStated, NEW i \in 1..N, NEW k \in 1..N, i < k,
             Asked(demands[JobOrder[i]]) <= Asked(demands[JobOrder[k]])
      PROVE  Rates[JobOrder[i]] <= Rates[JobOrder[k]]
  <2>1. PICK p :
            /\ \A j \in 1..N :
                  /\ Rates[JobOrder[j]] = Granted(p, JobOrder, demands, j) + p[N].left \div N
                  /\ Granted(p, JobOrder, demands, j) \in Nat
                  /\ Granted(p, JobOrder, demands, j) <= Share(p, j)
                  /\ Share(p, j) \in Int
                  /\ \A m \in j..N : Share(p, j) <= Share(p, m)
            /\ p[N].left \div N \in Nat
    BY <1>1, VanillaRates
  <2> DEFINE rate(j)  == Granted(p, JobOrder, demands, j)
             share(j) == Share(p, j)
             asked(j) == Asked(demands[JobOrder[j]])
             extra    == p[N].left \div N
  <2>2. k \in i..N
    BY <1>1, JobsInOrder
  <2>3. share(i) <= share(k)
    BY <2>1, <2>2
  <2>4. ASSUME NEW j \in 1..N
        PROVE  /\ rate(j) \in Nat /\ share(j) \in Int /\ asked(j) \in Nat
               /\ rate(j) <= share(j) /\ rate(j) <= asked(j)
               /\ rate(j) = asked(j) \/ rate(j) = share(j)
               /\ Rates[JobOrder[j]] = rate(j) + extra
    <3>1. demands[JobOrder[j]] \in Nat \cup {-1}
      BY <1>1, JobsInOrder DEF DemandsStated
    <3>2. /\ rate(j) \in Nat /\ share(j) \in Int /\ rate(j) <= share(j)
          /\ Rates[JobOrder[j]] = rate(j) + extra
      BY <2>1
    <3>3. asked(j) \in Nat /\ rate(j) <= asked(j) /\ (rate(j) = asked(j) \/ rate(j) = share(j))
      BY <3>1, <3>2 DEF Granted, Asked
    <3> QED
      BY <3>2, <3>3
  <2>5. extra \in Nat
    BY <2>1
  <2>6. asked(i) <= asked(k)
    BY <1>1
  <2> HIDE DEF rate, share, asked, extra
  <2> QED
    BY <2>3, <2>4, <2>5, <2>6
<1>2. DemandsStated => LaterJobNotWorse
  BY <1>1 DEF LaterJobNotWorse, N
<1> QED
  BY <1>2, DemandsAreStated, PTL

-------------------------------------------------------------------------------
(* DYNAMIC_LEFTOVER.                                                          *)

LEMMA RoundComputed ==
    ASSUME DemandsStated, NEW used \in [Jobs -> Usages]
    PROVE  IsLeftover(LeftoverAllocation(JobOrder, demands, used, limit),
                      demands, used, limit, Jobs, N)
<1>1. /\ JobOrder \in Seq(Jobs) /\ JobOrder # <<>> /\ Distinct(JobOrder)
      /\ Jobs = First(JobOrder, Len(JobOrder))
      /\ demands \in [Jobs -> Nat \cup {-1}] /\ limit \in Nat /\ limit >= Len(JobOrder)
  BY JobsInOrder DEF DemandsStated, N
<1>2. used \in [Jobs -> Nat]
  BY AllocationAssumption
<1> QED
  BY <1>1, <1>2, LeftoverResult DEF N

LEMMA RoundEnforced ==
    ASSUME DemandsStated, NEW used \in [Jobs -> Usages], NEW change \in BOOLEAN,
           previous \in [Jobs -> Int]
    PROVE  LET computed == LeftoverAllocation(JobOrder, demands, used, limit) IN
           IsEnforced(LeftoverEnforced(JobOrder, demands, used, limit, change, previous),
                      computed.rates, Keeping(computed.rates, used, limit, change, previous),
                      Slack(used, limit), limit, previous, Jobs, computed.defined)
<1>1. LeftoverAllocation(JobOrder, demands, used, limit).rates \in [Jobs -> Int]
  BY RoundComputed DEF IsLeftover
<1> QED
  BY <1>1, JobsInOrder, EnforcedParts

\* In any round of DYNAMIC_LEFTOVER no job gets less than it uses, unless its
\* demand or an equal share of the limit is less than that.
\* (First phase of compute_and_enforce_dynamic_leftover_rules.)
THEOREM LeftoverKeepsWhatIsUsed == Spec => []LeftoverKeepsUsage
<1>1. ASSUME DemandsStated PROVE LeftoverKeepsUsage
  <2>1. ASSUME NEW used \in [Jobs -> Usages]
        PROVE  LET rates == LeftoverAllocation(JobOrder, demands, used, limit).rates IN
               \A job \in Jobs :
                  \/ rates[job] >= used[job]
                  \/ rates[job] >= demands[job]
                  \/ rates[job] >= limit \div Len(JobOrder)
    BY <1>1, RoundComputed DEF IsLeftover, N
  <2> QED
    BY <2>1 DEF LeftoverKeepsUsage
<1> QED
  BY <1>1, DemandsAreStated, PTL

RatesInForce ==
    /\ DemandsStated
    /\ previous \in [Jobs -> Int]
    /\ LeftoverWithinLimit

\* One round after another.  When the system is busy the rates in force are
\* within 1 % of those computed; otherwise what is sent makes up for what is
\* kept, unless nothing is sent and the rates stay as they were.
\* (varied_perc in compute_and_enforce_dynamic_leftover_rules.)
LEMMA RatesStayInForce == Spec => []RatesInForce
<1>1. Init => RatesInForce
  <2> SUFFICES ASSUME Init PROVE RatesInForce
    OBVIOUS
  <2>1. DemandsStated /\ previous \in [Jobs -> Int] /\ \A job \in Jobs : previous[job] = 0
    BY DEF Init, DemandsStated, AllLimits
  <2>2. SumFunctionOnSet(previous, Jobs) \in Int
    BY <2>1, JobsInOrder, SumType
  <2>3. 1 * SumFunctionOnSet(previous, Jobs) <= 0 * SumFunctionOnSet(previous, Jobs)
    <3>1. 0 \in Int /\ 1 \in Int /\ \A job \in Jobs : /\ previous[job] \in Int
                                                      /\ 1 * previous[job] <= 0 * previous[job]
      BY <2>1
    <3> QED
      BY <3>1, JobsInOrder, SumScaledLeq
  <2>4. Total(previous) = SumFunctionOnSet(previous, Jobs)
    BY <2>1, TotalIsSum
  <2>5. limit \in Nat
    BY <2>1, JobsInOrder DEF DemandsStated
  <2> QED
    BY <2>1, <2>2, <2>3, <2>4, <2>5 DEF RatesInForce, LeftoverWithinLimit
<1>2. ASSUME RatesInForce, [Next]_vars
      PROVE  RatesInForce'
  <2>1. ASSUME NEW job \in Jobs, NEW demand \in Demands[limit], SetDemand(job, demand)
        PROVE  RatesInForce'
    <3>1. demand \in Nat
      BY <1>2, AllocationAssumption DEF RatesInForce, DemandsStated
    <3> QED
      BY <1>2, <2>1, <3>1 DEF SetDemand, RatesInForce, DemandsStated, LeftoverWithinLimit
  <2>2. ASSUME NEW used \in [Jobs -> Usages], NEW change \in BOOLEAN,
               LeftoverRound(used, change)
        PROVE  RatesInForce'
    <3> DEFINE e == LeftoverEnforced(JobOrder, demands, used, limit, change, previous)
               computed == LeftoverAllocation(JobOrder, demands, used, limit)
               rates == computed.rates
    <3>1. /\ demands' = demands /\ limit' = limit
          /\ previous' = IF e.defined THEN e.rates ELSE previous
      BY <2>2 DEF LeftoverRound
    <3>2. DemandsStated /\ previous \in [Jobs -> Int] /\ 100 * Total(previous) <= 101 * limit
      BY <1>2 DEF RatesInForce, LeftoverWithinLimit
    <3>3. limit \in Nat /\ IsFiniteSet(Jobs)
      BY <3>2, JobsInOrder DEF DemandsStated
    <3>4. rates \in [Jobs -> Int] /\ Total(rates) <= limit
      BY <3>2, RoundComputed DEF IsLeftover
    <3>5. IsEnforced(e, rates, Keeping(rates, used, limit, change, previous),
                     Slack(used, limit), limit, previous, Jobs, computed.defined)
      BY <3>2, RoundEnforced
    <3> HIDE DEF e, rates, computed
    <3>6. e.defined => e.rates \in [Jobs -> Int] /\ 100 * Total(e.rates) <= 101 * limit
      BY <3>2, <3>3, <3>4, <3>5, RoundWithinMargin
    <3>7. previous' \in [Jobs -> Int] /\ 100 * Total(previous') <= 101 * limit
      BY <3>1, <3>2, <3>6
    <3> QED
      BY <3>1, <3>2, <3>7 DEF RatesInForce, DemandsStated, LeftoverWithinLimit
  <2>3. CASE UNCHANGED vars
    BY <1>2, <2>3 DEF vars, RatesInForce, DemandsStated, LeftoverWithinLimit
  <2> QED
    BY <1>2, <2>1, <2>2, <2>3 DEF Next
<1> QED
  BY <1>1, <1>2, PTL DEF Spec

\* The rates in force under DYNAMIC_LEFTOVER exceed the limit by at most 1 %,
\* round after round, whichever jobs keep the rates of earlier rounds.
\* (varied_perc in compute_and_enforce_dynamic_leftover_rules.)
THEOREM LeftoverStaysWithinMargin == Spec => []LeftoverWithinLimit
<1>1. RatesInForce => LeftoverWithinLimit
  BY DEF RatesInForce
<1> QED
  BY <1>1, RatesStayInForce, PTL

DefinedUnlessExplained ==
    /\ DemandsStated
    /\ UndefinedExplained

\* A round of DYNAMIC_LEFTOVER does something undefined only when some job has
\* no demand or one below 4 IOPS, or when no job uses as much as 1 IOPS: with
\* larger demands every rate that is computed is at least 1, so that neither is
\* a negative rate converted nor is updated_rate, which the code divides by, 0.
THEOREM LeftoverIsDefined == Spec => []UndefinedExplained
<1>1. Init => DefinedUnlessExplained
  BY DEF Init, DefinedUnlessExplained, UndefinedExplained, DemandsStated, AllLimits
<1>2. ASSUME RatesInForce, DefinedUnlessExplained, [Next]_vars
      PROVE  DefinedUnlessExplained'
  <2>1. ASSUME NEW job \in Jobs, NEW demand \in Demands[limit], SetDemand(job, demand)
        PROVE  DefinedUnlessExplained'
    <3>1. demand \in Nat
      BY <1>2, AllocationAssumption DEF RatesInForce, DemandsStated
    <3> QED
      BY <1>2, <2>1, <3>1
         DEF SetDemand, DefinedUnlessExplained, DemandsStated, UndefinedExplained
  <2>2. ASSUME NEW used \in [Jobs -> Usages], NEW change \in BOOLEAN,
               LeftoverRound(used, change)
        PROVE  DefinedUnlessExplained'
    <3> DEFINE e == LeftoverEnforced(JobOrder, demands, used, limit, change, previous)
               computed == LeftoverAllocation(JobOrder, demands, used, limit)
               rates == computed.rates
    <3>1. /\ demands' = demands /\ limit' = limit
          /\ undefined' = ~e.defined
          /\ usage' = IF e.defined THEN usage ELSE used
      BY <2>2 DEF LeftoverRound
    <3>2. DemandsStated /\ previous \in [Jobs -> Int] /\ IsFiniteSet(Jobs)
      BY <1>2, JobsInOrder DEF RatesInForce
    <3>3. ASSUME \A job \in Jobs : demands[job] >= 4, Total(used) # 0
          PROVE  e.defined
      <4>1. /\ rates \in [Jobs -> Int] /\ computed.defined
            /\ \A job \in Jobs : rates[job] >= 1
        BY <3>2, <3>3, RoundComputed DEF IsLeftover
      <4>2. IsEnforced(e, rates, Keeping(rates, used, limit, change, previous),
                       Slack(used, limit), limit, previous, Jobs, computed.defined)
        BY <3>2, RoundEnforced
      <4> HIDE DEF e, rates, computed
      <4>3. IsEnforced(e, rates, Keeping(rates, used, limit, change, previous),
                       Slack(used, limit), limit, previous, Jobs, TRUE)
        BY <4>1, <4>2 DEF IsEnforced
      <4> QED
        BY <3>2, <4>1, <4>3, RoundDefined
    <3> HIDE DEF e
    <3>4. ASSUME undefined'
          PROVE  (\E job \in Jobs : demands[job] < 4) \/ Total(used) = 0
      <4>1. \A job \in Jobs : demands[job] \in Int
        BY <3>2 DEF DemandsStated
      <4>2. ~e.defined
        BY <3>1, <3>4, Zenon
      <4>3. ~((\A job \in Jobs : demands[job] >= 4) /\ Total(used) # 0)
        BY <3>3, <4>2, Zenon
      <4> QED
        BY <4>1, <4>3
    <3>5. undefined' => usage' = used
      BY <3>1
    <3> QED
      BY <3>1, <3>2, <3>4, <3>5
         DEF DefinedUnlessExplained, DemandsStated, UndefinedExplained
  <2>3. CASE UNCHANGED vars
    BY <1>2, <2>3 DEF vars, DefinedUnlessExplained, DemandsStated, UndefinedExplained
  <2> QED
    BY <1>2, <2>1, <2>2, <2>3 DEF Next
<1>3. DefinedUnlessExplained => UndefinedExplained
  BY DEF DefinedUnlessExplained
<1> QED
  BY <1>1, <1>2, <1>3, RatesStayInForce, PTL DEF Spec

===============================================================================
