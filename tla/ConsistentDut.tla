----------------------------- MODULE ConsistentDut -----------------------------
(***************************************************************************)
(* RateSearch against a device under test that answers consistently: it    *)
(* passes every trial up to a limit and fails every trial above it.  The   *)
(* limit of a sniff or search trial may be higher than that of the longer  *)
(* final validation (buffers hide a loss that a short trial does not       *)
(* show).  Timeouts may still ask for a retry while retries are left.      *)
(* Against such a device the search must end, and its answer must be right.*)
(***************************************************************************)
EXTENDS RateSearch

CONSTANT Limits  \* rates considered as limits of the device under test

ASSUME LimitsAssumption == Limits \subseteq Nat

VARIABLES search_limit, validation_limit

dutVars == <<searchVars, search_limit, validation_limit>>

Limit(mode) == IF mode = "validation" THEN validation_limit ELSE search_limit

\* What a trial of this device reports.
VerdictOfDut(verdict) ==
  IF Mode = "warmup" THEN verdict = "pass"
  ELSE \/ verdict = IF rate <= Limit(Mode) THEN "pass" ELSE "fail"
       \/ verdict = "retry-to-fail" /\ ~RetryLimit

DutInit ==
  /\ Init
  /\ search_limit \in Limits
  /\ validation_limit \in {limit \in Limits : limit <= search_limit}

DutNext ==
  /\ outcome = "searching"
  /\ UNCHANGED <<args, search_limit, validation_limit>>
  /\ \E verdict \in VerdictsOf(Mode) : VerdictOfDut(verdict) /\ Trial(verdict)

DutSpec == DutInit /\ [][DutNext]_dutVars /\ WF_dutVars(DutNext)

-------------------------------------------------------------------------------
\* The search of a consistent device ends.
DutTerminates == <>(outcome # "searching")

\* A reported rate is one the device sustains in a final validation, and no
\* rate more than search_granularity percent above it is sustained, unless the
\* search was told, or had, to stop at the rate it started from.
ReportedRateIsRight ==
  outcome = "finished" /\ ~OneShot =>
    /\ rate <= validation_limit
    /\ \/ rate = initial_rate /\ disable_upward_search
       \/ 100 * (validation_limit - rate) <= SearchGranularity * rate

\* A failure at a rate from which the search goes exactly to the minimum ends
\* it at once: the minimum itself is not tried (from a rate below it, it is).
MinimumSkipped == rate = MinimumRate /\ MinimumRate < prev_rate

\* When the search gives up, the device sustains no rate the search may offer,
\* or, where the minimum was skipped, none from the last failed rate up: the
\* device may then sustain rates from the minimum to below prev_rate, none of
\* which is tried or reported (3843).
NoPassIsRight ==
  outcome = "no_pass" =>
    \/ validation_limit < MinimumRate
    \/ MinimumSkipped /\ validation_limit < prev_rate
===============================================================================
