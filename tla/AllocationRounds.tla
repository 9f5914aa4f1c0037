--------------------------- MODULE AllocationRounds ---------------------------
(* The division of the limit among jobs, for every vector of demands, reached *)
(* by the policy rules that change one demand at a time: the rates of         *)
(* DYNAMIC_VANILLA, and round after round those of DYNAMIC_LEFTOVER, for any  *)
(* usage that the statistics report.                                          *)
EXTENDS RateAllocation, FiniteSets

CONSTANTS
    JobOrder,   \* the jobs, in the order of job_location_tracker
    Limits,     \* the values of system_limit considered for DYNAMIC_VANILLA
    LeftoverLimit,  \* the one considered for DYNAMIC_LEFTOVER
    Demands,    \* the demands that policy rules state, for each limit
    Usages,     \* what the statistics may say that a job uses
    Rounds      \* a bound on the rounds of DYNAMIC_LEFTOVER

Jobs == ToSet(JobOrder)
AllLimits == Limits \cup {LeftoverLimit}

\* job_location_tracker has each job once.  A limit below 1 IOPS for each job is
\* none: a job without a demand gets 1 IOPS, whatever its share is.
ASSUME AllocationAssumption ==
    /\ JobOrder \in Seq(Jobs) /\ JobOrder # <<>>
    /\ \A i, k \in DOMAIN JobOrder : JobOrder[i] = JobOrder[k] => i = k
    /\ \A some_limit \in AllLimits : some_limit \in Nat /\ some_limit >= Len(JobOrder)
    /\ Demands \in [AllLimits -> SUBSET Nat]
    /\ Usages \subseteq Nat

VARIABLES
    demands,    \* job_demands
    limit,      \* maximum_limit
    usage,      \* the usage when a round did something undefined
    previous,   \* job_previous_rates, the rates in force
    undefined,  \* whether the last round did something undefined
    round       \* rounds of DYNAMIC_LEFTOVER so far

vars == <<demands, limit, usage, previous, undefined, round>>

Init ==
    /\ demands = [job \in Jobs |-> -1]
    /\ limit \in Limits \cup {LeftoverLimit}
    /\ usage = [job \in Jobs |-> 0]
    /\ previous = [job \in Jobs |-> 0]
    /\ undefined = FALSE
    /\ round = 0

SetDemand(job, demand) ==
    /\ ~undefined
    /\ demands' = [demands EXCEPT ![job] = demand]
    /\ UNCHANGED <<limit, usage, previous, undefined, round>>

LeftoverRound(used, change) ==
    LET enforced == LeftoverEnforced(JobOrder, demands, used, limit, change, previous) IN
    /\ ~undefined
    /\ limit = LeftoverLimit
    /\ round < Rounds
    /\ round' = round + 1
    /\ usage' = IF enforced.defined THEN usage ELSE used
    /\ undefined' = ~enforced.defined
    /\ previous' = IF enforced.defined THEN enforced.rates ELSE previous
    /\ UNCHANGED <<demands, limit>>

Next ==
    \/ \E job \in Jobs, demand \in Demands[limit] : SetDemand(job, demand)
    \/ \E used \in [Jobs -> Usages], change \in BOOLEAN : LeftoverRound(used, change)

Spec == Init /\ [][Next]_vars

Rates == VanillaAllocation(JobOrder, demands, limit).rates

\* The jobs together never get more than the system's limit, and at most the
\* remainder of the last division is not handed out.
\* (The loops over left_iops in compute_and_enforce_dynamic_vanilla_rules.)
LimitDistributed ==
    /\ Total(Rates) <= limit
    /\ Total(Rates) > limit - Len(JobOrder)

\* Each job gets at least its demand or an equal share of the limit, whichever
\* is less, no matter how early it comes in the order of the jobs.
NoJobBelowFairShare ==
    \A job \in Jobs :
        \/ Rates[job] >= Asked(demands[job])
        \/ Rates[job] >= TruncDiv(limit, Len(JobOrder))

\* The order of the jobs can only hurt the earlier ones: a job never gets less
\* than an earlier job that asks for no more than it does.
LaterJobNotWorse ==
    \A i, k \in 1..Len(JobOrder) :
        /\ i < k
        /\ Asked(demands[JobOrder[i]]) <= Asked(demands[JobOrder[k]])
        => Rates[JobOrder[i]] <= Rates[JobOrder[k]]

\* DYNAMIC_LEFTOVER: the rates in force exceed system_limit by less than 1 %, as
\* long as rounds follow each other, whatever jobs keep their previous rates.
\* (varied_perc in compute_and_enforce_dynamic_leftover_rules.)
LeftoverWithinLimit == 100 * Total(previous) <= 101 * limit

\* DYNAMIC_LEFTOVER: no job gets less than it uses, unless its demand or an
\* equal share of the limit is less than that.
\* (First phase of compute_and_enforce_dynamic_leftover_rules.  The demands of
\* any round are among those before the first.)
LeftoverKeepsUsage ==
    limit = LeftoverLimit /\ round = 0 => \A used \in [Jobs -> Usages] :
        LET rates == LeftoverAllocation(JobOrder, demands, used, limit).rates IN
        \A job \in Jobs :
            \/ rates[job] >= used[job]
            \/ rates[job] >= demands[job]
            \/ rates[job] >= limit \div Len(JobOrder)

\* DYNAMIC_LEFTOVER: a round does something undefined only for a job that has no
\* demand (-1) or one of less than 4 IOPS, a quarter of which is a rate of 0, or
\* when no job uses as much as 1 IOPS.
\* (job_rates and update_job_demands; the divisions by updated_rate and by
\* system_total_rate.)
UndefinedExplained ==
    undefined => (\E job \in Jobs : demands[job] < 4) \/ Total(usage) = 0

===============================================================================
