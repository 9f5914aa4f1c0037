---------------------------- MODULE MCLocalControl ----------------------------
(* LocalControl with two stages, one of which may refuse a rule, and two      *)
(* channels for the operation that rates are sent for.  A rule that creates   *)
(* an object makes no difference here but for the number of rules.  The core  *)
(* may still track a stage of a former process; then MaxStages leaves room    *)
(* for one new stage beside it.                                               *)
EXTENDS LocalControl

CONSTANTS s1, s2

MCRules == <<"create_channel", "create_channel">>
===============================================================================
