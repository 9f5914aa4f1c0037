--------------------------- MODULE MCRateAllocation ---------------------------
(* An instance of AllocationRounds with three jobs.                           *)
EXTENDS AllocationRounds

Jobs_abc == <<"a", "b", "c">>

\* Small demands around the shares of the small limits, large ones for which a
\* margin of 1 % or 5 % is not empty.
MCDemands ==
    [some_limit \in AllLimits |->
        IF some_limit = LeftoverLimit THEN {100, 104} ELSE {1, 2, 5, 9, 14, 30}]

\* A job whose statistics are all below 1 IOPS uses 0; one whose local
\* controller was not asked counts as using more than there is.
MCUsages == {0, 99, LeftoverLimit * Len(JobOrder)}
===============================================================================
