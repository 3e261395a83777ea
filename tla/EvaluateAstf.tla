------------------------------ MODULE EvaluateAstf ------------------------------
(***************************************************************************)
(* evaluate_trial_astf() of binary-search.py: the verdict on one trial of  *)
(* stateful traffic.  The phases are tested in order and the first one that*)
(* is not met decides.  Rates and percentages are small integers, so that  *)
(* each threshold is met, reached and exceeded.  The statistics come from  *)
(* AstfTrial.                                                              *)
(***************************************************************************)
EXTENDS Integers

CONSTANT ParamSet  \* the trial parameters considered, see ParamType

\* The error counters that TRex reports: those that the code takes for a
\* catastrophe, and the others.
Catastrophic == {"err_flow_overflow", "err_cwf", "err_s_nf_throttled", "err_no_memory",
                 "err_dport_map"}
OtherCounters == {"err_c_nf_throttled", "err_rx_throttled"}

ParamType ==
  [trial_mode         : {"warmup", "search"},
   rate               : Nat,   \* requested connections per second, not 0
   astf_protocol      : {"tcp", "udp", "mixed"},
   astf_max_flows     : Nat,   \* 0: no limit
   astf_ignore_errors : SUBSET (Catastrophic \cup OtherCounters),
   astf_max_error_pct : Nat,
   astf_max_retransmit_pct    : Nat,    \* 0: not enforced
   astf_max_udp_drop_pct      : Nat,    \* 0: as astf_max_error_pct
   astf_max_cps_deviation_pct : Nat]    \* 0: not enforced

StatsType ==
  [connections_attempted : Nat, tx_packets : Nat, cps : Nat, active_flows : Nat,
   astf_errors    : SUBSET (Catastrophic \cup OtherCounters),
   connection_error_pct : Nat, retransmit_pct : Nat, udp_drop_pct : Nat,
   timeout : BOOLEAN, early_exit : BOOLEAN, force_quit : BOOLEAN]

ASSUME AstfAssumption ==
  /\ ParamSet \subseteq ParamType
  /\ \A params \in ParamSet : params.rate > 0

VARIABLES trial_params, astf, trial_result

Warmup == trial_params.trial_mode = "warmup"

-------------------------------------------------------------------------------
(* The phases.                                                             *)

ZeroTraffic == astf.connections_attempted + astf.tx_packets = 0

\* The window saw packets (probes) and no connection at all.
Collapsed == ~ZeroTraffic /\ astf.cps < 1 /\ astf.connections_attempted = 0

Saturated ==
  /\ trial_params.astf_max_flows > 0
  /\ 100 * astf.active_flows >= 95 * trial_params.astf_max_flows

CatastrophicError ==
  (Catastrophic \ trial_params.astf_ignore_errors) \cap astf.astf_errors # {}

ConnectionErrors == astf.connection_error_pct > trial_params.astf_max_error_pct

Retransmits ==
  /\ trial_params.astf_max_retransmit_pct > 0
  /\ astf.retransmit_pct > trial_params.astf_max_retransmit_pct

UdpDropThreshold ==
  IF trial_params.astf_max_udp_drop_pct > 0
  THEN trial_params.astf_max_udp_drop_pct ELSE trial_params.astf_max_error_pct

UdpDrops ==
  trial_params.astf_protocol \in {"udp", "mixed"} /\ astf.udp_drop_pct > UdpDropThreshold

UnderDelivery ==
  /\ trial_params.astf_max_cps_deviation_pct > 0
  /\ 100 * (trial_params.rate - astf.cps)
       > trial_params.astf_max_cps_deviation_pct * trial_params.rate

PhasesVerdict ==
  CASE ZeroTraffic -> "abort"
    [] ~ZeroTraffic /\ (\/ Collapsed \/ Saturated \/ CatastrophicError
                        \/ ConnectionErrors \/ Retransmits \/ UdpDrops
                        \/ UnderDelivery) -> "fail"
    [] OTHER -> "pass"

\* Phase 7: a trial that passed is retried if it timed out, else failed if it
\* exited early.
Phase7(verdict) ==
  CASE verdict = "pass" /\ astf.timeout -> "retry-to-fail"
    [] verdict = "pass" /\ ~astf.timeout /\ astf.early_exit -> "fail"
    [] OTHER -> verdict

\* Mistake: a warmup without traffic aborts the search.
VerdictOfAnyTrial ==
  CASE astf.force_quit -> "quit"
    [] ~astf.force_quit /\ Warmup /\ ~ZeroTraffic -> "pass"
    [] OTHER -> IF Phase7(PhasesVerdict) = "abort" THEN "quit" ELSE Phase7(PhasesVerdict)

Verdict ==
  CASE astf.force_quit -> "quit"
    [] ~astf.force_quit /\ Warmup -> "pass"
    [] OTHER -> IF Phase7(PhasesVerdict) = "abort" THEN "quit" ELSE Phase7(PhasesVerdict)

-------------------------------------------------------------------------------
Evaluate ==
  /\ trial_result = "none"
  /\ trial_result' = Verdict
  /\ UNCHANGED <<trial_params, astf>>
===============================================================================
