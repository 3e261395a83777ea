---------------------------- MODULE MCEvaluateTrial ----------------------------
(***************************************************************************)
(* Trial parameters for the runs of EvaluateTrial.                         *)
(***************************************************************************)
EXTENDS EvaluateTrial

NegativeModes == {"quit", "retry-to-fail"}

AllGranularities ==
  [trial_mode : {"warmup", "search"}, loss_granularity : {"direction", "device", "segment"},
   duplicate_packet_failure_mode : {"fail", "quit", "retry-to-quit"},
   negative_packet_loss_mode : NegativeModes, rate_tolerance_failure : {"fail", "quit"},
   latency_directions : {{}, {"->"}}]

\* No lost probe, the largest loss that --max-loss-pct allows, one more than
\* that, and the largest that the code lets pass.
InterestingLosses == {0, 10 * MaxLossPct, 10 * MaxLossPct + 1, 1000 * MaxLossPct}
===============================================================================
