----------------------------- MODULE MCRateSearch -----------------------------
(***************************************************************************)
(* Sets of command lines for the runs of RateSearch and ConsistentDut.     *)
(***************************************************************************)
EXTENDS RateSearch

AllOptions == [one_shot : BOOLEAN, perform_sniffs : BOOLEAN, warmup_trial : BOOLEAN,
               repeat_final_validation : BOOLEAN, disable_upward_search : BOOLEAN,
               min_rate : {0}]
===============================================================================
