---------------------------- MODULE RateAllocation ----------------------------
(* How the core controller divides the system's limit among jobs: the pure    *)
(* arithmetic of compute_and_enforce_dynamic_vanilla_rules, of                *)
(* compute_and_enforce_dynamic_leftover_rules and of send_enforcement_rule.   *)
(* Jobs are visited in the order of the std::map job_location_tracker, given  *)
(* as the sequence order.  What the code computes in float is exact here.     *)
EXTENDS Integers, Sequences, SequencesExt

\* A map after map[key] = value.
Put(map, key, value) ==
    [k \in DOMAIN map \cup {key} |-> IF k = key THEN value ELSE map[k]]

\* C++ integer division: truncation towards zero.
TruncDiv(a, b) == IF a >= 0 THEN a \div b ELSE -((-a) \div b)

Abs(a) == IF a >= 0 THEN a ELSE -a

Total(rates) == FoldFunction(+, 0, rates)

\* A job without a demand (-1) asks for 1 IOPS.
Asked(demand) == IF demand = -1 THEN 1 ELSE demand

\* Mutant: a job that demands more than its share gets all that is left.
Assign_Greedy(phase, job) ==
    LET share    == TruncDiv(phase.left, phase.jobs)
        modest   == phase.demands[job] <= share
        rate     == IF modest THEN Asked(phase.demands[job]) ELSE phase.left
    IN  [left    |-> phase.left - rate,
         jobs    |-> phase.jobs - 1,
         rates   |-> Put(phase.rates, job, rate),
         demands |-> IF modest THEN [phase.demands EXCEPT ![job] = rate]
                     ELSE phase.demands]

\* Mutant: what a job gets is not taken from what is left.
Assign_NotConsumed(phase, job) ==
    LET share    == TruncDiv(phase.left, phase.jobs)
        modest   == phase.demands[job] <= share
        rate     == IF modest THEN Asked(phase.demands[job]) ELSE share
    IN  [left    |-> phase.left,
         jobs    |-> phase.jobs - 1,
         rates   |-> Put(phase.rates, job, rate),
         demands |-> phase.demands]

\* First phase: each job in turn gets its demand, or an equal share of what is
\* left if it demands more than that share.
Assign(phase, job) ==
    LET share    == TruncDiv(phase.left, phase.jobs)
        modest   == phase.demands[job] <= share
        rate     == IF modest THEN Asked(phase.demands[job]) ELSE share
    IN  [left    |-> phase.left - rate,
         jobs    |-> phase.jobs - 1,
         rates   |-> Put(phase.rates, job, rate),
         demands |-> IF modest THEN [phase.demands EXCEPT ![job] = rate]
                     ELSE phase.demands]

FirstPhase(order, demands, limit) ==
    FoldLeft(Assign,
             [left |-> limit, jobs |-> Len(order), rates |-> <<>>, demands |-> demands],
             order)

\* Second phase: what is left is divided equally, whatever the jobs demand.
\* The result also holds the demands, where the first phase turned -1 into 1.
VanillaAllocation(order, demands, limit) ==
    LET first == FirstPhase(order, demands, limit)
        extra == TruncDiv(first.left, Len(order))
    IN  [rates   |-> [job \in DOMAIN first.rates |-> first.rates[job] + extra],
         demands |-> first.demands]

-------------------------------------------------------------------------------
(* DYNAMIC_LEFTOVER: phase.usage is what the statistics say a job uses.       *)

\* Mutant: the difference is taken the other way round.
LeftoverRate_Swapped(demand, use, share) ==
    IF 100 * use <= 95 * demand
    THEN IF 4 * use + (use - demand) < 4 * share THEN use + (use - demand) \div 4 ELSE share
    ELSE IF demand < share THEN demand ELSE share

\* Mutant: a job that stays below its demand gets what it uses.
LeftoverRate_Unused(demand, use, share) ==
    IF 100 * use <= 95 * demand THEN demand - use
    ELSE IF demand < share THEN demand ELSE share

\* A job that uses at most 95 % of its demand gets that and a quarter of the
\* rest, any other job its demand, and no job more than its share.
LeftoverRate(demand, use, share) ==
    IF 100 * use <= 95 * demand
    THEN IF 4 * use + (demand - use) < 4 * share THEN use + (demand - use) \div 4 ELSE share
    ELSE IF demand < share THEN demand ELSE share

LeftoverAssign(phase, job) ==
    LET rate == LeftoverRate(phase.demands[job], phase.usage[job], phase.left \div phase.jobs)
    IN  [phase EXCEPT !.left = @ - rate, !.jobs = @ - 1, !.rates = Put(@, job, rate)]

\* Both phases: what is left after the first goes to the jobs by their usage.
\* (float) x / 0 is not a number, and the conversion of that to long undefined.
LeftoverAllocation(order, demands, usage, limit) ==
    LET first == FoldLeft(LeftoverAssign,
                          [left |-> limit, jobs |-> Len(order), rates |-> <<>>,
                           demands |-> demands, usage |-> usage],
                          order)
        total == Total(usage)
    IN  [defined |-> first.left = 0 \/ total # 0,
         rates   |-> [job \in DOMAIN first.rates |->
                         first.rates[job]
                         + (IF total = 0 THEN 0 ELSE (usage[job] * first.left) \div total)]]

\* Mutant: the margin is wide whether or not the system is busy.
Maintained_Wide(change, idle, rate, previous) ==
    ~change /\ 100 * Abs(rate - previous) < 5 * rate

\* A job keeps its previous rate if that differs by less than 1 %, or by less
\* than 5 % when the system is not busy.
Maintained(change, idle, rate, previous) ==
    /\ ~change
    /\ \/ 100 * Abs(rate - previous) < rate
       \/ idle /\ 100 * Abs(rate - previous) < 5 * rate

\* The rates in force after a round: those sent are reduced if the jobs that
\* keep theirs leave too little.  A negative rate goes through an unsigned long
\* to a float that no long can hold.
LeftoverEnforced(order, demands, usage, limit, change, previous) ==
    LET computed == LeftoverAllocation(order, demands, usage, limit)
        rates    == computed.rates
        idle     == 100 * Total(usage) < 95 * limit
        keep     == {job \in DOMAIN rates : Maintained(change, idle, rates[job], previous[job])}
        sent     == DOMAIN rates \ keep
        kept     == Total([job \in keep |-> previous[job]])
        updated  == Total([job \in sent |-> rates[job]])
        reduce   == idle /\ kept + updated > limit
    IN  [defined |-> /\ computed.defined
                     /\ \A job \in sent : rates[job] >= 0
                     /\ sent # {} /\ reduce => updated # 0,
         rates   |-> [job \in DOMAIN rates |->
                         CASE job \in keep                 -> previous[job]
                           [] job \in sent /\ reduce /\ updated # 0
                                -> (rates[job] * (limit - kept)) \div updated
                           [] OTHER                        -> rates[job]]]

-------------------------------------------------------------------------------
\* Every stage of a job gets the same part of the job's rate.
LimitPerStage(rate, total_stages) == TruncDiv(rate, total_stages)
===============================================================================
