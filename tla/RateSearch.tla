------------------------------ MODULE RateSearch ------------------------------
(***************************************************************************)
(* The search loop of binary-search.py main(): which rate the next trial   *)
(* offers, in which mode (warmup, sniff, search, final validation, repeat  *)
(* of the final validation), and how the search ends.  One iteration of    *)
(* the loop is one action; the verdict evaluate_trial() returns is chosen  *)
(* freely, so every device under test, consistent or not, is covered.      *)
(*                                                                         *)
(* Rates are natural numbers of a fine unit (the code uses floats): a      *)
(* division rounds down, a comparison with a percentage is cross           *)
(* multiplied and exact.  GranularityAssumption makes the unit fine enough *)
(* for a step of search_granularity percent to be at least one unit.       *)
(***************************************************************************)
EXTENDS Integers, Sequences

CONSTANTS
  Rate,               \* --rate, the rate of the first trial
  SearchGranularity,  \* --search-granularity, in percent
  MaxRetries,         \* --max-retries
  LineRate,           \* the rate "100%" of trex-txrx; 0 where there is no cap
  RateBound,          \* bound of the model: no uncapped doubling beyond it
  Options             \* the other command lines considered, see OptionsType

OptionsType ==
  [one_shot                : BOOLEAN,  \* --one-shot == 1
   perform_sniffs          : BOOLEAN,  \* --sniff-runtime is not 0
   warmup_trial            : BOOLEAN,  \* --warmup-trial
   repeat_final_validation : BOOLEAN,  \* --repeat-final-validation
   disable_upward_search   : BOOLEAN,  \* --disable-upward-search
   min_rate                : 0..Rate]  \* --min-rate, 0 when it is not given

MinimumRateOf(opts) ==
  IF opts.min_rate # 0 THEN opts.min_rate ELSE (Rate * SearchGranularity) \div 100

ASSUME RatesAssumption ==
  /\ Rate \in Nat /\ LineRate \in Nat /\ RateBound \in Nat
  /\ SearchGranularity \in 1..99
  /\ MaxRetries \in Nat
  /\ LineRate # 0 => Rate <= LineRate

ASSUME OptionsAssumption == Options \subseteq OptionsType

ASSUME GranularityAssumption ==
  \A opts \in Options : MinimumRateOf(opts) * SearchGranularity >= 100

VARIABLES
  args,                  \* the command line, constant
  final_validation, do_sniff, do_search, do_warmup, in_repeat_validation,
  rate, initial_rate, prev_rate,
  prev_pass_rate,        \* stack of passed rates, the special rate 0 below them
  prev_fail_rate, retries, disable_upward_search,
  passed_stats,          \* the trial whose statistics the final report prints
  outcome                \* how main() ended, "searching" while the loop runs

flags == <<final_validation, do_sniff, do_search, do_warmup, in_repeat_validation>>
rates == <<rate, initial_rate, prev_rate, prev_pass_rate, prev_fail_rate>>
searchVars == <<args, flags, rates, retries, disable_upward_search, passed_stats,
                outcome>>

MinimumRate == MinimumRateOf(args)
PerformSniffs == args.perform_sniffs
OneShot == args.one_shot

Modes == {"validation", "search", "sniff", "warmup"}
RetryVerdicts == {"retry-to-fail", "retry-to-quit"}
Verdicts == {"pass", "fail", "quit"} \cup RetryVerdicts
Outcomes == {"searching", "finished", "no_pass", "quit", "error"}

NoStats == [mode |-> "none", rate |-> 0]

\* The mode the loop head selects; the first flag in this order wins.
Mode ==
  CASE final_validation -> "validation"
    [] ~final_validation /\ do_search -> "search"
    [] ~final_validation /\ ~do_search /\ do_sniff -> "sniff"
    [] OTHER -> "warmup"

\* evaluate_trial() reports every warmup as passed, unless the trial was
\* told to force-quit.
VerdictsOf(mode) == IF mode = "warmup" THEN {"pass", "quit"} ELSE Verdicts

Abs(n) == IF n < 0 THEN -n ELSE n
Top(stack) == stack[Len(stack)]
Pop(stack) == SubSeq(stack, 1, Len(stack) - 1)

\* Mistake: the rate does not change.
StepDownNowhere(r) == r

StepDown(r) == r - (SearchGranularity * r) \div 100
Midpoint(r, s) == (r + s) \div 2

\* Mistake: the percentage is of the sum of the rates.
WithinGranularityOfSum(r, s) == 100 * Abs(r - s) < SearchGranularity * (r + s)

\* Is the distance of r from s below search_granularity percent of r?
WithinGranularity(r, s) == 100 * Abs(r - s) < SearchGranularity * r

-------------------------------------------------------------------------------
Init ==
  /\ args \in Options
  /\ final_validation = (OneShot /\ ~args.warmup_trial)
  /\ do_warmup = args.warmup_trial
  /\ do_sniff = (PerformSniffs /\ ~args.warmup_trial)
  /\ do_search = (~PerformSniffs /\ ~args.warmup_trial)
  /\ in_repeat_validation = FALSE
  /\ rate = Rate
  /\ initial_rate = Rate
  /\ prev_rate = 0
  /\ prev_pass_rate = <<0>>
  /\ prev_fail_rate = Rate
  /\ retries = 0
  /\ disable_upward_search = (args.disable_upward_search \/ Rate = LineRate)
  /\ passed_stats = NoStats
  /\ outcome = "searching"

\* Mistake: no last attempt at the minimum.
SettleRateUnclamped(next, prev, failed) ==
  /\ rate' = next
  /\ prev_rate' = prev
  /\ outcome' = IF failed /\ (next = MinimumRate \/ prev <= MinimumRate)
                THEN "no_pass" ELSE "searching"

\* Mistake: a passed trial at the minimum ends the search, too.
SettleRateWhateverVerdict(next, prev, failed) ==
  LET tooLow == next < MinimumRate /\ prev > MinimumRate
  IN  /\ rate'      = IF tooLow THEN MinimumRate ELSE next
      /\ prev_rate' = IF tooLow THEN next ELSE prev
      /\ outcome'   = IF ~tooLow /\ (next = MinimumRate \/ prev <= MinimumRate)
                     THEN "no_pass" ELSE "searching"

\* The end of an iteration: a rate that fell below the minimum is raised to
\* it "as a last attempt at passing"; a failed trial at the minimum, or one
\* that leads exactly to the minimum, ends the search without a result.
SettleRate(next, prev, failed) ==
  LET tooLow    == next < MinimumRate /\ prev > MinimumRate
      exhausted == failed /\ ~tooLow /\ (next = MinimumRate \/ prev <= MinimumRate)
  IN  /\ rate'      = IF tooLow THEN MinimumRate ELSE next
      /\ prev_rate' = IF tooLow THEN next ELSE prev
      /\ outcome'   = IF exhausted THEN "no_pass" ELSE "searching"

\* The loop is left with this outcome.
Leave(how) ==
  /\ outcome' = how
  /\ UNCHANGED <<flags, rates, retries, disable_upward_search>>

-------------------------------------------------------------------------------
(* Iterations that end the search, or repeat the trial.                    *)

\* Mistake: any final validation is taken for the repeat.
InRepeatOrFirst == final_validation

InRepeat == final_validation /\ in_repeat_validation

\* Mistake: off by one.
RetryLimitPassed == retries > MaxRetries

RetryLimit == retries >= MaxRetries

\* The pre-trial command or the trial itself returned a non-zero value.
TrialError == Leave("error") /\ UNCHANGED passed_stats

Quit(verdict) ==
  /\ \/ verdict = "quit"
     \/ verdict = "retry-to-quit" /\ RetryLimit /\ ~InRepeat
  /\ Leave("quit")
  /\ UNCHANGED passed_stats

\* A repeat of the final validation that must be retried or failed is over.
RepeatDone(verdict) ==
  /\ InRepeat
  /\ verdict \in RetryVerdicts \cup {"fail"}
  /\ Leave("finished")
  /\ UNCHANGED passed_stats

\* --one-shot leaves the loop after any verdict of the one trial.
OneShotDone(verdict) ==
  /\ OneShot /\ ~do_warmup /\ ~InRepeat
  /\ verdict # "quit"
  /\ ~(verdict = "retry-to-quit" /\ RetryLimit)
  /\ Leave("finished")
  /\ UNCHANGED passed_stats

Retry(verdict) ==
  /\ verdict \in RetryVerdicts
  /\ ~OneShot /\ ~InRepeat /\ ~RetryLimit
  /\ retries' = retries + 1
  /\ SettleRate(rate, prev_rate, FALSE)
  /\ UNCHANGED <<flags, initial_rate, prev_pass_rate, prev_fail_rate,
                 disable_upward_search, passed_stats>>

-------------------------------------------------------------------------------
(* Failed trials.                                                          *)

\* Mistake: the repeat of the final validation counts as well.
FailedInRepeat(verdict) ==
  /\ ~OneShot
  /\ verdict = "fail" \/ (verdict = "retry-to-fail" /\ RetryLimit)

Failed(verdict) ==
  /\ ~OneShot /\ ~InRepeat
  /\ verdict = "fail" \/ (verdict = "retry-to-fail" /\ RetryLimit)

\* Mistake: the search goes on along with the sniff.
AfterFailSearching(next) ==
  /\ do_sniff' = PerformSniffs
  /\ do_search' = TRUE
  /\ prev_fail_rate' = rate
  /\ retries' = 0
  /\ SettleRate(next, rate, TRUE)
  /\ UNCHANGED <<do_warmup, in_repeat_validation, initial_rate,
                 disable_upward_search, passed_stats>>

\* A failure starts over with a sniff, if there are sniffs, at a lower rate.
AfterFail(next) ==
  /\ do_sniff' = PerformSniffs
  /\ do_search' = ~PerformSniffs
  /\ prev_fail_rate' = rate
  /\ retries' = 0
  /\ SettleRate(next, rate, TRUE)
  /\ UNCHANGED <<do_warmup, in_repeat_validation, initial_rate,
                 disable_upward_search, passed_stats>>

ValidationFail(verdict) ==
  /\ Failed(verdict)
  /\ final_validation
  /\ final_validation' = FALSE
  /\ AfterFail(StepDown(rate))
  /\ UNCHANGED prev_pass_rate

\* A passing rate above the failed one is a false positive: it is removed.
FalsePositive == Len(prev_pass_rate) > 1 /\ rate < Top(prev_pass_rate)

PassStackAfterFail == IF FalsePositive THEN Pop(prev_pass_rate) ELSE prev_pass_rate

RateAfterFail ==
  LET mid == Midpoint(Top(PassStackAfterFail), rate)
  IN  IF WithinGranularity(rate, mid) THEN StepDown(rate) ELSE mid

TrialFail(verdict) ==
  /\ Failed(verdict)
  /\ ~final_validation
  /\ prev_pass_rate' = PassStackAfterFail
  /\ AfterFail(RateAfterFail)
  /\ UNCHANGED final_validation

-------------------------------------------------------------------------------
(* Passed trials.                                                          *)

Passed(verdict) == verdict = "pass" /\ (~OneShot \/ do_warmup)

\* Only a trial that counts leaves its statistics for the report.
RecordPass ==
  passed_stats' = IF in_repeat_validation \/ do_warmup THEN passed_stats
                  ELSE [mode |-> Mode, rate |-> rate]

\* The final validation passed at the requested rate: double it and start over.
UpwardRestart(verdict) ==
  LET doubled == 2 * initial_rate
      capped  == LineRate # 0 /\ doubled >= LineRate
      next    == IF capped THEN LineRate ELSE doubled
  IN  /\ Passed(verdict)
      /\ final_validation /\ initial_rate = rate /\ ~disable_upward_search
      /\ next <= RateBound
      /\ RecordPass
      /\ final_validation' = FALSE
      /\ do_sniff' = PerformSniffs
      /\ do_search' = ~PerformSniffs
      /\ disable_upward_search' = capped
      /\ initial_rate' = next
      /\ prev_pass_rate' = <<0>>
      /\ prev_fail_rate' = next
      /\ retries' = 0
      /\ SettleRate(next, 0, FALSE)
      /\ UNCHANGED <<do_warmup, in_repeat_validation>>

\* The final validation passed and the search is done, up to one more trial
\* for debugging if it was asked for.
ValidationPass(verdict) ==
  /\ Passed(verdict)
  /\ final_validation
  /\ initial_rate # rate \/ disable_upward_search
  /\ RecordPass
  /\ \/ /\ args.repeat_final_validation /\ ~in_repeat_validation
        /\ in_repeat_validation' = TRUE
        /\ SettleRate(rate, prev_rate, FALSE)
        /\ UNCHANGED <<final_validation, do_sniff, do_search, do_warmup,
                       initial_rate, prev_pass_rate, prev_fail_rate, retries,
                       disable_upward_search>>
     \/ /\ ~args.repeat_final_validation \/ in_repeat_validation
        /\ Leave("finished")

WarmupPass(verdict) ==
  /\ Passed(verdict)
  /\ ~final_validation /\ do_warmup
  /\ RecordPass
  /\ do_warmup' = FALSE
  /\ final_validation' = OneShot
  /\ do_sniff' = (do_sniff \/ (~OneShot /\ PerformSniffs))
  /\ do_search' = (do_search \/ (~OneShot /\ ~PerformSniffs))
  /\ retries' = 0
  /\ SettleRate(rate, rate, FALSE)
  /\ UNCHANGED <<in_repeat_validation, initial_rate, prev_pass_rate,
                 prev_fail_rate, disable_upward_search>>

\* Mistake: the retries of the sniff are charged to the search.
SniffPassKeepsRetries(verdict) ==
  /\ Passed(verdict)
  /\ ~final_validation /\ ~do_warmup /\ do_sniff
  /\ RecordPass
  /\ do_sniff' = FALSE
  /\ do_search' = TRUE
  /\ SettleRate(rate, rate, FALSE)
  /\ UNCHANGED <<final_validation, do_warmup, in_repeat_validation, initial_rate,
                 prev_pass_rate, prev_fail_rate, disable_upward_search, retries>>

SniffPass(verdict) ==
  /\ Passed(verdict)
  /\ ~final_validation /\ ~do_warmup /\ do_sniff
  /\ RecordPass
  /\ do_sniff' = FALSE
  /\ do_search' = TRUE
  /\ retries' = 0
  /\ SettleRate(rate, rate, FALSE)
  /\ UNCHANGED <<final_validation, do_warmup, in_repeat_validation, initial_rate,
                 prev_pass_rate, prev_fail_rate, disable_upward_search>>

\* The next rate is halfway to the last failure; when that is within the
\* granularity it is the rate of the final validation.
SearchPass(verdict) ==
  LET mid  == Midpoint(prev_fail_rate, rate)
      done == WithinGranularity(rate, mid)
  IN  /\ Passed(verdict)
      /\ ~final_validation /\ ~do_warmup /\ ~do_sniff
      /\ RecordPass
      /\ prev_pass_rate' = Append(prev_pass_rate, rate)
      /\ final_validation' = done
      /\ do_sniff' = (~done /\ PerformSniffs)
      /\ do_search' = (~done /\ ~PerformSniffs)
      /\ retries' = 0
      /\ SettleRate(mid, rate, FALSE)
      /\ UNCHANGED <<do_warmup, in_repeat_validation, initial_rate,
                     prev_fail_rate, disable_upward_search>>

-------------------------------------------------------------------------------
Trial(verdict) ==
  \/ Quit(verdict)
  \/ RepeatDone(verdict)
  \/ OneShotDone(verdict)
  \/ Retry(verdict)
  \/ ValidationFail(verdict)
  \/ TrialFail(verdict)
  \/ UpwardRestart(verdict)
  \/ ValidationPass(verdict)
  \/ WarmupPass(verdict)
  \/ SniffPass(verdict)
  \/ SearchPass(verdict)

Next ==
  /\ outcome = "searching"
  /\ UNCHANGED args
  /\ \/ TrialError
     \/ \E verdict \in VerdictsOf(Mode) : Trial(verdict)

Spec == Init /\ [][Next]_searchVars

-------------------------------------------------------------------------------
(* Properties.                                                             *)

Stats == {NoStats} \cup [mode : {"validation", "search", "sniff"}, rate : Nat]

TypeOK ==
  /\ args \in Options
  /\ final_validation \in BOOLEAN /\ in_repeat_validation \in BOOLEAN
  /\ do_sniff \in BOOLEAN /\ do_search \in BOOLEAN /\ do_warmup \in BOOLEAN
  /\ rate \in Nat /\ initial_rate \in Nat /\ prev_rate \in Nat
  /\ prev_fail_rate \in Nat
  /\ prev_pass_rate \in Seq(Nat) /\ Len(prev_pass_rate) >= 1
  /\ retries \in 0..MaxRetries
  /\ disable_upward_search \in BOOLEAN
  /\ passed_stats \in Stats
  /\ outcome \in Outcomes

\* A trial is never run below the minimum rate, above the rate the search
\* (re)started from, or above line rate, whatever the verdicts were: the
\* clamp at the end of an iteration and the two midpoints hold together.
RateInRange ==
  outcome = "searching" =>
    /\ MinimumRate <= rate /\ rate <= initial_rate
    /\ LineRate # 0 => rate <= LineRate

\* The mode a passed trial is taken for, in the order the code tests the flags.
JudgedMode ==
  CASE final_validation -> "validation"
    [] ~final_validation /\ do_warmup -> "warmup"
    [] ~final_validation /\ ~do_warmup /\ do_sniff -> "sniff"
    [] OTHER -> "search"

\* The mode a trial is run in is the mode its verdict is judged for: the loop
\* head picks the first of four flags in one order, the code behind a passed
\* trial tests them in another, so no two of them may disagree.
JudgedAsRun == outcome = "searching" => Mode = JudgedMode

\* A search that reports a result reports the statistics of a final validation
\* that passed at the rate the search ended at, and prints them: the stack of
\* passed rates, which decides whether anything is printed, is not empty.
FinishedIsValidated ==
  outcome = "finished" /\ ~OneShot =>
    /\ passed_stats = [mode |-> "validation", rate |-> rate]
    /\ Top(prev_pass_rate) # 0

\* The repeat of the final validation is one more trial for debugging: no
\* verdict of it reopens the search, lowers the rate to be reported or replaces
\* the statistics to be reported, and none turns the search into one that
\* found no rate.  It may keep the report from being printed: a quit and a trial
\* that cannot be run return 1 before it (3654-3666, 3917).
RepeatIsFinal ==
  [][in_repeat_validation =>
       /\ outcome' \notin {"searching", "no_pass"}
       /\ UNCHANGED <<rate, passed_stats>>]_searchVars

\* Every trial has all its retries: none is charged to a trial at another
\* rate or in another mode, so a spurious verdict is never final too early.
RetriesStartFresh ==
  [][outcome' = "searching" /\ (rate' # rate \/ Mode' # Mode) => retries' = 0]_searchVars
===============================================================================
