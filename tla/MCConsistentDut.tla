---------------------------- MODULE MCConsistentDut ----------------------------
(***************************************************************************)
(* Command lines and device limits for the run of ConsistentDut: limits    *)
(* below, at and just above the minimum rate (16 or 32), the halves of the *)
(* first rate (64), the first rate itself, and line rate (100).            *)
(***************************************************************************)
EXTENDS ConsistentDut

SearchOptions == [one_shot : {FALSE}, perform_sniffs : BOOLEAN, warmup_trial : {FALSE},
                  repeat_final_validation : {FALSE}, disable_upward_search : BOOLEAN,
                  min_rate : {0, Rate \div 2}]

InterestingLimits == {0, 15, 16, 17, 24, 31, 32, 33, 40, 47, 48, 56, 63, 64, 65, 80,
                      99, 100}
===============================================================================
