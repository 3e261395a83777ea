----------------------------- MODULE EvaluateTrial -----------------------------
(***************************************************************************)
(* evaluate_trial() of binary-search.py: the verdict on one trial of       *)
(* trex-txrx or trex-txrx-profile.  A trial is what is wrong with it: a set*)
(* of <<flaw, place>>, where a place is a device pair (its index in        *)
(* test_dev_pairs), a direction, or the whole trial.  Requirements are     *)
(* tested in a fixed order, and a requirement that is not met overrides    *)
(* the verdict of those before it.                                         *)
(*                                                                         *)
(* What ptp-latency lost is a number, in lost probes per million sent.     *)
(***************************************************************************)
EXTENDS Integers, Sequences, FiniteSetsExt, Functions

CONSTANTS
  NumPairs,      \* length of test_dev_pairs
  MaxLossPct,    \* --max-loss-pct, in thousandths of a percent
  ParamSet,      \* the trial parameters considered, see ParamType
  ProbeLosses,   \* lost probes per million considered
  MaxFlaws       \* bound of the model: flaws of one trial

Directions == {"->", "<-"}
NoProbes == -1              \* ptp-latency sent no probe
AllProbes == 1000 * 1000    \* lost, per million

ParamType ==
  [trial_mode             : {"warmup", "sniff", "search", "validation"},
   loss_granularity       : {"direction", "device", "segment"},
   duplicate_packet_failure_mode : {"fail", "quit", "retry-to-fail", "retry-to-quit"},
   negative_packet_loss_mode     : {"fail", "quit", "retry-to-fail", "retry-to-quit"},
   rate_tolerance_failure : {"fail", "quit"},
   latency_directions     : SUBSET Directions]   \* measured by ptp-latency

ASSUME EvaluateAssumption ==
  /\ NumPairs \in Nat \ {0} /\ MaxFlaws \in Nat
  /\ MaxLossPct \in Nat /\ MaxLossPct < 100 * 1000
  /\ ParamSet \subseteq ParamType
  /\ ProbeLosses \subseteq 0..AllProbes

\* The flaws of a device pair, of a direction, and of the whole trial.
PairFlaws == {"no_packets", "wrong_port", "duplicate", "stream_total_loss",
              "stream_negative_loss", "off_rate", "missing", "ddos", "stream_loss",
              "device_negative_loss", "device_loss", "device_latency_loss"}
DirectionFlaws == {"negative_loss", "loss", "total_loss"}
TrialFlaws == {"timeout", "off_runtime", "early_exit", "force_quit"}

Flaws == (PairFlaws \X (1..NumPairs)) \cup (DirectionFlaws \X Directions)
         \cup (TrialFlaws \X {"trial"})

VARIABLES
  trial_params, trial_stats,
  probe_loss,     \* per measured direction, or NoProbes
  trial_result

vars == <<trial_params, trial_stats, probe_loss, trial_result>>

Has(flaw, place) == <<flaw, place>> \in trial_stats

Granularity(level) == trial_params.loss_granularity = level
QuitsOnNegativeLoss == trial_params.negative_packet_loss_mode = "quit"
Warmup == trial_params.trial_mode = "warmup"

-------------------------------------------------------------------------------
(* Critical requirements: any of them aborts.                              *)

PairCritical(i) ==
  \/ Has("no_packets", i) \/ Has("wrong_port", i)
  \/ Has("duplicate", i) /\ trial_params.duplicate_packet_failure_mode = "quit"
  \/ Has("stream_total_loss", i) /\ Granularity("segment")
  \/ Has("stream_negative_loss", i) /\ QuitsOnNegativeLoss
  \/ Has("device_negative_loss", i) /\ Granularity("device") /\ QuitsOnNegativeLoss

DirectionCritical(d) ==
  /\ Granularity("direction")
  /\ \/ Has("negative_loss", d) /\ QuitsOnNegativeLoss
     \/ Has("total_loss", d)

LatencyCritical(d) == probe_loss[d] \in {NoProbes, AllProbes}

Critical ==
  \/ \E i \in 1..NumPairs : PairCritical(i)
  \/ \E d \in Directions : DirectionCritical(d)
  \/ \E d \in trial_params.latency_directions : LatencyCritical(d)

\* Without a probe there is no loss ratio to look up for the test of a
\* negative one (a ratio of ptp-latency is never negative).
LossRatioMissing ==
  /\ Granularity("device") /\ QuitsOnNegativeLoss
  /\ \E d \in trial_params.latency_directions : probe_loss[d] = NoProbes

-------------------------------------------------------------------------------
(* Other requirements, in the order they are tested.                       *)

Check(flawed, verdict) == IF flawed THEN verdict ELSE "met"

\* What a sequence of requirements makes of the verdict: the last unmet one
\* decides.
LastUnmet(checks) ==
  LET unmet == {k \in DOMAIN checks : checks[k] # "met"}
  IN  IF unmet = {} THEN "met" ELSE checks[Max(unmet)]

\* Mistake: an unmet rate tolerance is not retried.
RateChecksAtOnce ==
  [i \in 1..NumPairs |-> Check(Has("off_rate", i), trial_params.rate_tolerance_failure)]

RateChecks ==
  [i \in 1..NumPairs |->
     Check(Has("off_rate", i), IF trial_params.rate_tolerance_failure = "quit"
                               THEN "retry-to-quit" ELSE "retry-to-fail")]

StreamChecks(i) ==
  <<Check(Has("duplicate", i), trial_params.duplicate_packet_failure_mode),
    Check(Has("stream_negative_loss", i), trial_params.negative_packet_loss_mode),
    Check(Has("missing", i), "fail"),
    Check(Has("ddos", i), "fail")>>

DirectionChecks(d) ==
  <<Check(Has("negative_loss", d), trial_params.negative_packet_loss_mode),
    Check(Has("loss", d) \/ Has("total_loss", d), "fail")>>

\* The ratio of ptp-latency, at most 1, is compared with a percentage.
LatencyCheck(d) ==
  Check(d \in trial_params.latency_directions /\ probe_loss[d] > 1000 * MaxLossPct, "fail")

PairLossChecks(i) ==
  IF Granularity("segment") THEN <<Check(Has("stream_loss", i), "fail")>>
  ELSE <<Check(Has("device_negative_loss", i), trial_params.negative_packet_loss_mode),
         Check(Has("device_loss", i), "fail"),
         Check(Has("device_latency_loss", i), "fail")>>

LossChecks ==
  IF Granularity("direction")
  THEN <<LastUnmet(DirectionChecks("->")), LastUnmet(DirectionChecks("<-"))>>
  ELSE <<LatencyCheck("->"), LatencyCheck("<-"),
         LastUnmet([i \in 1..NumPairs |-> LastUnmet(PairLossChecks(i))])>>

\* Mistake: losses within their limits reset the verdict.
RequirementsVerdictReset == LastUnmet(<<"pass", LastUnmet(LossChecks)>>)

\* The verdict before the trial as a whole is looked at.
RequirementsVerdict ==
  LastUnmet(<<"pass",
              LastUnmet(RateChecks),
              LastUnmet([i \in 1..NumPairs |-> LastUnmet(StreamChecks(i))]),
              LastUnmet(LossChecks)>>)

TrialVerdict(verdict) ==
  LET timed ==
        IF \/ Has("timeout", "trial")
           \/ Has("off_runtime", "trial") /\ verdict = "pass"
        THEN "retry-to-fail" ELSE verdict
  IN  CASE Has("force_quit", "trial") -> "quit"
        [] ~Has("force_quit", "trial") /\ Warmup -> "pass"
        [] OTHER -> IF Has("early_exit", "trial") THEN "fail" ELSE timed

Verdict ==
  CASE LossRatioMissing -> "exception"
    [] ~LossRatioMissing /\ Critical /\ ~Warmup -> "quit"
    [] OTHER -> TrialVerdict(RequirementsVerdict)

-------------------------------------------------------------------------------
\* A loss is not both negative and positive.
Consistent(stats) ==
  /\ \A d \in Directions :
       Cardinality({flaw \in DirectionFlaws : <<flaw, d>> \in stats}) <= 1
  /\ \A i \in 1..NumPairs :
       ~({<<"device_negative_loss", i>>, <<"device_loss", i>>} \subseteq stats)

Init ==
  /\ trial_params \in ParamSet
  /\ trial_stats \in {{}} \cup {Range(flaws) : flaws \in [1..MaxFlaws -> Flaws]}
  /\ Consistent(trial_stats)
  /\ probe_loss \in [trial_params.latency_directions -> ProbeLosses \cup {NoProbes}]
  /\ trial_result = "none"

Evaluate ==
  /\ trial_result = "none"
  /\ trial_result' = Verdict
  /\ UNCHANGED <<trial_params, trial_stats, probe_loss>>

Spec == Init /\ [][Evaluate]_vars

-------------------------------------------------------------------------------
(* Properties.                                                             *)

\* The flaws --loss-granularity says not to look for.
NotTested ==
  CASE Granularity("direction") ->
         {"stream_total_loss", "stream_loss", "device_negative_loss", "device_loss",
          "device_latency_loss"}
    [] Granularity("device") -> {"stream_total_loss", "stream_loss"} \cup DirectionFlaws
    [] Granularity("segment") ->
         {"device_negative_loss", "device_loss", "device_latency_loss"} \cup DirectionFlaws

\* A trial passes if and only if nothing is wrong with it that the search was
\* asked to look for: no later verdict hides a requirement that was not met,
\* and none fails a trial that met them all.  What ptp-latency lost is left to
\* ProbeLossLimited.
PassIffMet ==
  trial_result # "none" /\ ~Warmup
    /\ (\A d \in trial_params.latency_directions : probe_loss[d] = 0)
    => (trial_result = "pass" <=> \A flaw \in trial_stats : flaw[1] \in NotTested)

\* The search stops only for what it was told to stop for: it never quits on
\* a trial whose flaws all ask for less.
QuitsForAReason ==
  trial_result = "quit" =>
    \/ Has("force_quit", "trial")
    \/ Critical /\ ~Warmup

\* "maximum percentage of packet loss", at the granularities that look at
\* ptp-latency by itself.  It does not hold: a ratio is compared.
ProbeLossLimited ==
  trial_result = "pass" /\ ~Warmup /\ ~Granularity("direction") =>
    \A d \in trial_params.latency_directions : probe_loss[d] <= 10 * MaxLossPct
===============================================================================
