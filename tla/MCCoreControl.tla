---------------------------- MODULE MCCoreControl ----------------------------
(* Instances of CoreControl: where the stages are, and the policies files.    *)
EXTENDS CoreControl, TLC

CONSTANTS l1, l2, s1, s2, s3

Jobs_ab == <<"a", "b">>

\* Job a on both local controllers, job b beside it on the first.
Spread_LocalOf == s1 :> l1 @@ s2 :> l2 @@ s3 :> l1
Spread_JobOf == s1 :> "a" @@ s2 :> "a" @@ s3 :> "b"
Spread_EnvOf == s1 :> 1 @@ s2 :> 2 @@ s3 :> 3

\* Two stages: of one job on two nodes, or of two jobs on one node.
Pair_LocalOf == s1 :> l1 @@ s2 :> l2
Pair_JobOf == s1 :> "a" @@ s2 :> "a"
Pair_EnvOf == s1 :> 1 @@ s2 :> 2

Jobs_LocalOf == s1 :> l1 @@ s2 :> l1
Jobs_JobOf == s1 :> "a" @@ s2 :> "b"
Jobs_EnvOf == s1 :> 1 @@ s2 :> 2

\* The same process id on two nodes.
Twin_EnvOf == s1 :> 7 @@ s2 :> 7

NoPolicies == <<>>
Demand(job, rate) == [job |-> job, op |-> "meta", limit |-> rate]
Demand_a == <<Demand("a", 4)>>
Limits_a == <<Demand("a", 4), Demand("a", 9)>>
Limits_ops == <<[job |-> "a", op |-> "read", limit |-> 4],
                [job |-> "b", op |-> "write", limit |-> 9]>>
===============================================================================
