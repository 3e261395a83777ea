------------------------------ MODULE Search_proofs ------------------------------
(***************************************************************************)
(* Proofs about the search: about RateSearch, for every rate, granularity, *)
(* retry limit, line rate and set of command lines the assumptions allow;  *)
(* about ConsistentDut, for every pair of limits; and about SearchSession, *)
(* for every session.  A session is a search, so that what is proved of    *)
(* RateSearch holds in it.                                                 *)
(***************************************************************************)
EXTENDS ConsistentDut, SearchSession, BsLogger, SequenceTheorems, TLAPS

-------------------------------------------------------------------------------
(* The loop of the search.                                                 *)

\* The stack of passed rates: 0 at the bottom, rates the search may offer above.
StackOK ==
  /\ prev_pass_rate[1] = 0
  /\ \A i \in 2..Len(prev_pass_rate) :
       MinimumRate <= prev_pass_rate[i] /\ prev_pass_rate[i] <= initial_rate

\* The bounds the next rate is computed from.
BoundsOK ==
  /\ Rate <= initial_rate
  /\ LineRate # 0 => initial_rate <= LineRate
  /\ MinimumRate <= prev_fail_rate /\ prev_fail_rate <= initial_rate

\* A final validation has a search trial that passed behind it.
ValidationOK ==
  /\ final_validation /\ ~OneShot => Len(prev_pass_rate) > 1
  /\ in_repeat_validation =>
       /\ final_validation
       /\ initial_rate # rate \/ disable_upward_search
       /\ passed_stats = [mode |-> "validation", rate |-> rate]
  /\ outcome = "finished" /\ ~OneShot =>
       /\ passed_stats = [mode |-> "validation", rate |-> rate]
       /\ Len(prev_pass_rate) > 1

\* One flag is set, except that a one-shot validation leaves the flag of the
\* search it replaces.
FlagsOK ==
  /\ final_validation \/ do_search \/ do_sniff \/ do_warmup
  /\ do_warmup => ~final_validation /\ ~do_search /\ ~do_sniff
  /\ ~(do_search /\ do_sniff)
  /\ final_validation /\ ~OneShot => ~do_search /\ ~do_sniff
  /\ OneShot => final_validation \/ do_warmup

\* The inductive invariant.
IInv == TypeOK /\ BoundsOK /\ StackOK /\ FlagsOK /\ RateInRange /\ ValidationOK

-------------------------------------------------------------------------------
\* The midpoint of two rates lies between them.
LEMMA MidpointLemma ==
  ASSUME NEW r \in Nat, NEW s \in Nat
  PROVE  /\ Midpoint(r, s) \in Nat
         /\ \A lo \in Nat : lo <= r /\ lo <= s => lo <= Midpoint(r, s)
         /\ \A hi \in Nat : r <= hi /\ s <= hi => Midpoint(r, s) <= hi
  BY DEF Midpoint

\* A step down by the granularity stays a rate.
LEMMA StepDownLemma ==
  ASSUME NEW r \in Nat
  PROVE  StepDown(r) \in Nat /\ StepDown(r) <= r
<1>1. SearchGranularity * r \in Nat /\ SearchGranularity * r <= 99 * r
  BY RatesAssumption
<1>2. (SearchGranularity * r) \div 100 \in Nat /\ (SearchGranularity * r) \div 100 <= r
  <2> DEFINE p == SearchGranularity * r
  <2>1. p \in Nat /\ p <= 99 * r
    BY <1>1
  <2> HIDE DEF p
  <2>2. p \div 100 \in Nat /\ p \div 100 <= r
    BY <2>1
  <2> QED
    BY <2>2 DEF p
<1> QED
  BY <1>2 DEF StepDown

\* The minimum rate is a positive rate not above the requested one.
LEMMA MinimumLemma ==
  ASSUME args \in Options
  PROVE  MinimumRate \in Nat /\ 1 <= MinimumRate /\ MinimumRate <= Rate
<1> DEFINE p == Rate * SearchGranularity
<1>1. args.min_rate \in 0..Rate /\ Rate \in Nat
  BY OptionsAssumption, RatesAssumption DEF OptionsType
<1>2. p \in Nat /\ p <= 99 * Rate
  BY RatesAssumption
<1>3. MinimumRate = IF args.min_rate # 0 THEN args.min_rate ELSE p \div 100
  BY DEF MinimumRate, MinimumRateOf
<1> HIDE DEF p
<1>4. MinimumRate \in Nat /\ MinimumRate <= Rate
  BY <1>1, <1>2, <1>3
<1>5. MinimumRate * SearchGranularity >= 100
  BY GranularityAssumption DEF MinimumRate
<1>6. MinimumRate # 0
  BY <1>5, RatesAssumption
<1> QED
  BY <1>4, <1>6

\* What the end of an iteration makes of a next rate and the rate before it.
LEMMA SettleLemma ==
  ASSUME args \in Options,
         NEW next \in Nat, NEW prev \in Nat, NEW failed \in BOOLEAN,
         SettleRate(next, prev, failed)
  PROVE  /\ rate' \in Nat /\ prev_rate' \in Nat
         /\ outcome' \in {"searching", "no_pass"}
         /\ rate' = next \/ rate' = MinimumRate
         /\ MinimumRate <= next => rate' = next
         /\ outcome' = "searching" /\ (failed \/ MinimumRate <= next) =>
              MinimumRate <= rate'
  BY MinimumLemma DEF SettleRate

\* The top of the stack of passed rates is a rate the search may return to.
LEMMA TopLemma ==
  ASSUME IInv
  PROVE  /\ Top(prev_pass_rate) \in Nat
         /\ Top(prev_pass_rate) <= initial_rate
         /\ Len(prev_pass_rate) > 1 => MinimumRate <= Top(prev_pass_rate)
<1>1. prev_pass_rate \in Seq(Nat) /\ Len(prev_pass_rate) \in Nat /\ Len(prev_pass_rate) >= 1
  BY DEF IInv, TypeOK
<1>2. Len(prev_pass_rate) \in 1..Len(prev_pass_rate)
  BY <1>1
<1>3. prev_pass_rate[Len(prev_pass_rate)] \in Nat
  BY <1>1, <1>2
<1>4. CASE Len(prev_pass_rate) = 1
  BY <1>3, <1>4 DEF IInv, TypeOK, StackOK, Top
<1>5. CASE Len(prev_pass_rate) > 1
  <2>1. Len(prev_pass_rate) \in 2..Len(prev_pass_rate)
    BY <1>1, <1>5
  <2> QED
    BY <1>3, <2>1 DEF IInv, StackOK, Top
<1>6. Len(prev_pass_rate) = 1 \/ Len(prev_pass_rate) > 1
  <2>1. \A n \in Nat : n >= 1 => n = 1 \/ n > 1
    OBVIOUS
  <2> QED
    BY <1>1, <2>1, Zenon
<1> QED
  BY <1>4, <1>5, <1>6

\* Removing a false positive leaves a stack of the same kind.
LEMMA PopLemma ==
  ASSUME IInv
  PROVE  LET stack == PassStackAfterFail
         IN  /\ stack \in Seq(Nat) /\ Len(stack) >= 1
             /\ stack[1] = 0
             /\ \A i \in 2..Len(stack) :
                  MinimumRate <= stack[i] /\ stack[i] <= initial_rate
             /\ Top(stack) \in Nat /\ Top(stack) <= initial_rate
<1>1. prev_pass_rate \in Seq(Nat) /\ Len(prev_pass_rate) \in Nat /\ Len(prev_pass_rate) >= 1
  BY DEF IInv, TypeOK
<1>2. CASE ~FalsePositive
  BY <1>1, <1>2, TopLemma DEF PassStackAfterFail, IInv, StackOK
<1>3. CASE FalsePositive
  <2> DEFINE short == Pop(prev_pass_rate)
  <2>1. Len(prev_pass_rate) > 1
    BY <1>3 DEF FalsePositive
  <2>2. /\ short \in Seq(Nat)
        /\ Len(short) = Len(prev_pass_rate) - 1
        /\ \A i \in 1..Len(short) : short[i] = prev_pass_rate[i]
    BY <1>1, <2>1 DEF Pop
  <2> HIDE DEF short
  <2>3. short[1] = 0
    BY <1>1, <2>1, <2>2 DEF IInv, StackOK
  <2>4. \A i \in 2..Len(short) : MinimumRate <= short[i] /\ short[i] <= initial_rate
    BY <1>1, <2>2 DEF IInv, StackOK
  <2>5. Top(short) \in Nat /\ Top(short) <= initial_rate
    <3>1. CASE Len(short) = 1
      BY <3>1, <2>3 DEF Top, IInv, TypeOK
    <3>2. CASE Len(short) > 1
      <4>1. Len(short) \in 2..Len(short) /\ Len(short) \in 1..Len(short)
        BY <1>1, <2>2, <3>2
      <4>2. short[Len(short)] \in Nat
        BY <2>2, <4>1
      <4> QED
        BY <4>1, <4>2, <2>4 DEF Top
    <3> QED
      BY <1>1, <2>1, <2>2, <3>1, <3>2
  <2>6. PassStackAfterFail = short
    BY <1>3 DEF PassStackAfterFail, short
  <2> QED
    BY <1>1, <2>1, <2>2, <2>3, <2>4, <2>5, <2>6
<1> QED
  BY <1>2, <1>3

-------------------------------------------------------------------------------
\* The initial states satisfy the invariant.
LEMMA InitLemma == Init => IInv
<1> SUFFICES ASSUME Init PROVE IInv
  OBVIOUS
<1>1. MinimumRate \in Nat /\ 1 <= MinimumRate /\ MinimumRate <= Rate
  BY MinimumLemma DEF Init
<1>2. args \in OptionsType
  BY OptionsAssumption DEF Init
<1>3. TypeOK
  <2>1. /\ final_validation \in BOOLEAN /\ in_repeat_validation \in BOOLEAN
        /\ do_sniff \in BOOLEAN /\ do_search \in BOOLEAN /\ do_warmup \in BOOLEAN
        /\ disable_upward_search \in BOOLEAN
    BY <1>2, Zenon DEF Init, OptionsType, OneShot, PerformSniffs
  <2>2. prev_pass_rate \in Seq(Nat) /\ Len(prev_pass_rate) >= 1
    BY DEF Init
  <2>3. rate \in Nat /\ retries \in 0..MaxRetries
    BY RatesAssumption DEF Init
  <2> QED
    BY <2>1, <2>2, <2>3 DEF Init, TypeOK, Stats, Outcomes
<1>4. BoundsOK
  BY <1>1, RatesAssumption DEF Init, BoundsOK
<1>5. StackOK
  BY DEF Init, StackOK
<1>6. RateInRange
  BY <1>1, RatesAssumption DEF Init, RateInRange
<1>7. ValidationOK
  BY DEF Init, ValidationOK
<1>8. FlagsOK
  <2>1. args.warmup_trial \in BOOLEAN /\ args.perform_sniffs \in BOOLEAN
    BY <1>2 DEF OptionsType
  <2> QED
    BY <2>1, Zenon DEF Init, FlagsOK, OneShot, PerformSniffs
<1> QED
  BY <1>3, <1>4, <1>5, <1>6, <1>7, <1>8 DEF IInv

\* Leaving the loop keeps the invariant, provided a search that finishes
\* leaves with the statistics of a final validation.
LEMMA LeaveLemma ==
  ASSUME IInv, NEW how \in {"finished", "quit", "error"}, Leave(how), args' = args,
         passed_stats' \in Stats,
         in_repeat_validation =>
           passed_stats' = [mode |-> "validation", rate |-> rate],
         how = "finished" /\ ~OneShot =>
           /\ passed_stats' = [mode |-> "validation", rate |-> rate]
           /\ Len(prev_pass_rate) > 1
  PROVE  IInv'
<1>1. TypeOK'
  BY DEF IInv, TypeOK, Leave, flags, rates, Outcomes
<1>2. BoundsOK' /\ StackOK' /\ RateInRange'
  BY DEF IInv, BoundsOK, StackOK, RateInRange, Leave, flags, rates, MinimumRate
<1>3. ValidationOK' /\ FlagsOK'
  BY DEF IInv, ValidationOK, FlagsOK, Leave, flags, rates, OneShot
<1> QED
  BY <1>1, <1>2, <1>3 DEF IInv

\* What every iteration may rely on.
LEMMA SearchingLemma ==
  ASSUME IInv, outcome = "searching"
  PROVE  /\ args \in Options
         /\ MinimumRate \in Nat /\ 1 <= MinimumRate
         /\ rate \in Nat /\ initial_rate \in Nat
         /\ MinimumRate <= rate /\ rate <= initial_rate
         /\ prev_fail_rate \in Nat
         /\ MinimumRate <= prev_fail_rate /\ prev_fail_rate <= initial_rate
         /\ LineRate # 0 => initial_rate <= LineRate
<1>1. args \in Options
  BY DEF IInv, TypeOK
<1> QED
  BY <1>1, MinimumLemma DEF IInv, TypeOK, BoundsOK, RateInRange

\* What an iteration after which the search goes on, or gives up, sets: flags
\* and counters, ...
FlagsStep ==
  /\ FlagsOK'
  /\ final_validation' \in BOOLEAN /\ in_repeat_validation' \in BOOLEAN
  /\ do_sniff' \in BOOLEAN /\ do_search' \in BOOLEAN /\ do_warmup' \in BOOLEAN
  /\ disable_upward_search' \in BOOLEAN
  /\ retries' \in 0..MaxRetries
  /\ passed_stats' \in Stats

\* ... the bounds of the search and the stack of passed rates, ...
RatesStep(next) ==
  /\ initial_rate' \in Nat /\ initial_rate <= initial_rate'
  /\ LineRate # 0 => initial_rate' <= LineRate
  /\ next <= initial_rate'
  /\ prev_fail_rate' \in Nat
  /\ MinimumRate <= prev_fail_rate' /\ prev_fail_rate' <= initial_rate'
  /\ prev_pass_rate' \in Seq(Nat) /\ Len(prev_pass_rate') >= 1 /\ StackOK'

\* ... and the final validation.
ValidationStep(next) ==
  /\ final_validation' /\ ~OneShot => Len(prev_pass_rate') > 1
  /\ in_repeat_validation' =>
       /\ final_validation'
       /\ MinimumRate <= next
       /\ initial_rate' # next \/ disable_upward_search'
       /\ passed_stats' = [mode |-> "validation", rate |-> next]

\* Such an iteration keeps the invariant.
LEMMA ContinueLemma ==
  ASSUME IInv, outcome = "searching", args' = args,
         NEW next \in Nat, NEW prev \in Nat, NEW failed \in BOOLEAN,
         SettleRate(next, prev, failed),
         failed \/ MinimumRate <= next,
         FlagsStep, RatesStep(next), ValidationStep(next)
  PROVE  IInv'
<1>1. /\ args \in Options /\ MinimumRate \in Nat /\ 1 <= MinimumRate
      /\ MinimumRate <= rate /\ rate <= initial_rate
  BY SearchingLemma
<1>2. /\ rate' \in Nat /\ prev_rate' \in Nat
      /\ outcome' \in {"searching", "no_pass"}
      /\ rate' = next \/ rate' = MinimumRate
      /\ MinimumRate <= next => rate' = next
      /\ outcome' = "searching" => MinimumRate <= rate'
  BY <1>1, SettleLemma
<1>3. MinimumRate' = MinimumRate /\ OneShot' = OneShot
  BY DEF MinimumRate, OneShot
<1>4. TypeOK'
  BY <1>1, <1>2 DEF TypeOK, Outcomes, FlagsStep, RatesStep
<1>5. BoundsOK' /\ StackOK'
  BY <1>3, RatesAssumption DEF IInv, TypeOK, BoundsOK, RatesStep
<1>6. RateInRange'
  <2>1. rate' <= initial_rate'
    BY <1>1, <1>2 DEF IInv, TypeOK, RatesStep
  <2> QED
    BY <1>2, <1>3, <2>1, RatesAssumption DEF RateInRange, RatesStep
<1>7. ValidationOK' /\ FlagsOK'
  BY <1>1, <1>2, <1>3 DEF ValidationOK, ValidationStep, FlagsStep
<1> QED
  BY <1>4, <1>5, <1>6, <1>7 DEF IInv

-------------------------------------------------------------------------------
(* One lemma for each action.                                              *)

LEMMA TrialErrorStep ==
  ASSUME IInv, outcome = "searching", args' = args, TrialError
  PROVE  IInv'
  BY LeaveLemma DEF TrialError, IInv, TypeOK, ValidationOK

LEMMA QuitStep ==
  ASSUME IInv, outcome = "searching", args' = args, NEW verdict, Quit(verdict)
  PROVE  IInv'
  BY LeaveLemma DEF Quit, IInv, TypeOK, ValidationOK

LEMMA RepeatDoneStep ==
  ASSUME IInv, outcome = "searching", args' = args, NEW verdict, RepeatDone(verdict)
  PROVE  IInv'
  BY LeaveLemma DEF RepeatDone, InRepeat, IInv, TypeOK, ValidationOK

LEMMA OneShotDoneStep ==
  ASSUME IInv, outcome = "searching", args' = args, NEW verdict, OneShotDone(verdict)
  PROVE  IInv'
  BY LeaveLemma DEF OneShotDone, IInv, TypeOK, ValidationOK

LEMMA RetryStep ==
  ASSUME IInv, outcome = "searching", args' = args, NEW verdict, Retry(verdict)
  PROVE  IInv'
<1>1. prev_rate \in Nat /\ retries + 1 \in 0..MaxRetries
  BY RatesAssumption DEF IInv, TypeOK, Retry, RetryLimit
<1>2. /\ UNCHANGED <<final_validation, do_sniff, do_search, do_warmup,
                     in_repeat_validation, initial_rate, prev_pass_rate,
                     prev_fail_rate, disable_upward_search, passed_stats>>
      /\ SettleRate(rate, prev_rate, FALSE) /\ retries' = retries + 1
  BY DEF Retry, flags
<1>3. FlagsStep
  BY <1>1, <1>2 DEF FlagsStep, IInv, TypeOK, FlagsOK, OneShot
<1>4. RatesStep(rate)
  BY <1>2, SearchingLemma DEF RatesStep, IInv, TypeOK, StackOK, MinimumRate
<1>5. ValidationStep(rate)
  BY <1>2, SearchingLemma DEF ValidationStep, IInv, ValidationOK
<1> QED
  BY <1>1, <1>2, <1>3, <1>4, <1>5, SearchingLemma, ContinueLemma

\* The part the two failures share.
LEMMA AfterFailLemma ==
  ASSUME IInv, outcome = "searching", args' = args, ~OneShot, ~InRepeat,
         NEW next \in Nat, next <= rate \/ next <= initial_rate, AfterFail(next),
         ~do_warmup,
         final_validation' = FALSE,
         prev_pass_rate' \in Seq(Nat), Len(prev_pass_rate') >= 1, StackOK'
  PROVE  IInv'
<1>1. /\ do_sniff' \in BOOLEAN /\ do_search' \in BOOLEAN
      /\ args.perform_sniffs \in BOOLEAN
  BY OptionsAssumption DEF IInv, TypeOK, AfterFail, OptionsType, PerformSniffs
<1>2. /\ prev_fail_rate' = rate /\ retries' = 0
      /\ SettleRate(next, rate, TRUE)
      /\ UNCHANGED <<do_warmup, in_repeat_validation, initial_rate,
                     disable_upward_search, passed_stats>>
  BY DEF AfterFail
<1>3. ~in_repeat_validation
  BY DEF InRepeat, IInv, ValidationOK
<1>4. FlagsStep
  <2>1. retries' \in 0..MaxRetries
    BY <1>2, RatesAssumption
  <2>2. FlagsOK'
    <3>1. ~do_warmup
      OBVIOUS
    <3>2. do_sniff' = args.perform_sniffs /\ do_search' = ~args.perform_sniffs
      BY DEF AfterFail, PerformSniffs
    <3> QED
      BY <1>1, <1>2, <3>1, <3>2, Zenon DEF FlagsOK, OneShot
  <2> QED
    BY <1>1, <1>2, <2>1, <2>2 DEF FlagsStep, IInv, TypeOK
<1>5. RatesStep(next)
  BY <1>2, SearchingLemma DEF RatesStep, IInv, TypeOK
<1>6. ValidationStep(next)
  BY <1>2, <1>3 DEF ValidationStep
<1> QED
  BY <1>2, <1>4, <1>5, <1>6, SearchingLemma, ContinueLemma

\* A warmup never fails.
LEMMA WarmupLemma ==
  ASSUME IInv, NEW verdict \in VerdictsOf(Mode), Failed(verdict)
  PROVE  ~do_warmup
<1> SUFFICES ASSUME do_warmup PROVE FALSE
  OBVIOUS
<1>1. Mode = "warmup"
  BY DEF Mode, IInv, FlagsOK
<1> QED
  BY <1>1 DEF VerdictsOf, Failed

LEMMA ValidationFailStep ==
  ASSUME IInv, outcome = "searching", args' = args,
         NEW verdict \in VerdictsOf(Mode), ValidationFail(verdict)
  PROVE  IInv'
<1>1. StepDown(rate) \in Nat /\ StepDown(rate) <= rate
  BY SearchingLemma, StepDownLemma
<1>2. /\ final_validation' = FALSE /\ AfterFail(StepDown(rate))
      /\ prev_pass_rate' = prev_pass_rate /\ initial_rate' = initial_rate
      /\ ~OneShot /\ ~InRepeat /\ ~do_warmup
  BY WarmupLemma DEF ValidationFail, Failed, AfterFail
<1>3. StackOK' /\ prev_pass_rate' \in Seq(Nat) /\ Len(prev_pass_rate') >= 1
  BY <1>2 DEF IInv, TypeOK, StackOK, MinimumRate
<1> QED
  BY <1>1, <1>2, <1>3, AfterFailLemma

LEMMA TrialFailStep ==
  ASSUME IInv, outcome = "searching", args' = args,
         NEW verdict \in VerdictsOf(Mode), TrialFail(verdict)
  PROVE  IInv'
<1>1. /\ final_validation' \in BOOLEAN /\ final_validation' = FALSE
      /\ AfterFail(RateAfterFail)
      /\ prev_pass_rate' = PassStackAfterFail /\ initial_rate' = initial_rate
      /\ ~OneShot /\ ~InRepeat /\ ~do_warmup
  BY WarmupLemma DEF TrialFail, Failed, AfterFail, IInv, TypeOK
<1>2. StackOK' /\ prev_pass_rate' \in Seq(Nat) /\ Len(prev_pass_rate') >= 1
  BY <1>1, PopLemma DEF StackOK, MinimumRate
<1>3. RateAfterFail \in Nat /\ RateAfterFail <= initial_rate
  <2> DEFINE mid == Midpoint(Top(PassStackAfterFail), rate)
  <2>1. mid \in Nat /\ mid <= initial_rate
    BY PopLemma, SearchingLemma, MidpointLemma
  <2>2. StepDown(rate) \in Nat /\ StepDown(rate) <= initial_rate
    BY SearchingLemma, StepDownLemma
  <2> HIDE DEF mid
  <2>3. RateAfterFail = mid \/ RateAfterFail = StepDown(rate)
    BY DEF RateAfterFail, mid
  <2> QED
    BY <2>1, <2>2, <2>3
<1> QED
  BY <1>1, <1>2, <1>3, AfterFailLemma

\* The statistics of a trial that passed.
LEMMA RecordPassLemma ==
  ASSUME IInv, outcome = "searching", RecordPass
  PROVE  /\ ~do_warmup => passed_stats' \in Stats
         /\ do_warmup \/ in_repeat_validation => passed_stats' = passed_stats
         /\ final_validation /\ ~do_warmup =>
              passed_stats' = [mode |-> "validation", rate |-> rate]
<1>1. rate \in Nat /\ passed_stats \in Stats
  BY DEF IInv, TypeOK
<1>2. CASE in_repeat_validation \/ do_warmup
  BY <1>1, <1>2 DEF RecordPass, IInv, ValidationOK
<1>3. CASE ~(in_repeat_validation \/ do_warmup)
  <2>1. passed_stats' = [mode |-> Mode, rate |-> rate]
    BY <1>3 DEF RecordPass
  <2>2. final_validation => Mode = "validation"
    BY DEF Mode
  <2>3. Mode \in {"validation", "search", "sniff"}
    BY <1>3 DEF Mode, IInv, FlagsOK
  <2> QED
    BY <1>1, <1>3, <2>1, <2>2, <2>3 DEF Stats
<1> QED
  BY <1>2, <1>3

LEMMA UpwardRestartStep ==
  ASSUME IInv, outcome = "searching", args' = args, NEW verdict, UpwardRestart(verdict)
  PROVE  IInv'
<1> DEFINE doubled == 2 * initial_rate
           capped  == LineRate # 0 /\ doubled >= LineRate
           next    == IF capped THEN LineRate ELSE doubled
<1>1. /\ final_validation /\ initial_rate = rate /\ ~disable_upward_search /\ RecordPass
      /\ final_validation' = FALSE
      /\ do_sniff' = args.perform_sniffs /\ do_search' = ~args.perform_sniffs
      /\ disable_upward_search' = capped
      /\ initial_rate' = next /\ prev_pass_rate' = <<0>> /\ prev_fail_rate' = next
      /\ retries' = 0
      /\ SettleRate(next, 0, FALSE)
      /\ do_warmup' = do_warmup /\ in_repeat_validation' = in_repeat_validation
      /\ ~OneShot \/ do_warmup
  BY DEF UpwardRestart, PerformSniffs, Passed
<1>2. ~do_warmup /\ ~OneShot
  BY <1>1 DEF IInv, FlagsOK
<1>3. ~in_repeat_validation
  BY <1>1 DEF IInv, ValidationOK
<1>4. /\ next \in Nat /\ initial_rate <= next /\ MinimumRate <= next
      /\ LineRate # 0 => next <= LineRate
  BY SearchingLemma, RatesAssumption
<1> HIDE DEF next
<1>5. FlagsStep
  <2>1. args.perform_sniffs \in BOOLEAN
    BY SearchingLemma, OptionsAssumption DEF OptionsType
  <2>2. do_sniff' \in BOOLEAN /\ do_search' \in BOOLEAN /\ capped \in BOOLEAN
    BY <1>1, <2>1
  <2>3. FlagsOK'
    BY <1>1, <1>2, <2>1, Zenon DEF FlagsOK, OneShot
  <2>4. retries' \in 0..MaxRetries
    BY <1>1, RatesAssumption
  <2>5. passed_stats' \in Stats
    BY <1>1, <1>2, RecordPassLemma
  <2> HIDE DEF capped
  <2> QED
    BY <1>1, <2>2, <2>3, <2>4, <2>5 DEF FlagsStep, IInv, TypeOK
<1>6. RatesStep(next)
  <2>1. prev_pass_rate' \in Seq(Nat) /\ Len(prev_pass_rate') = 1 /\ prev_pass_rate'[1] = 0
    BY <1>1
  <2>2. StackOK'
    BY <2>1 DEF StackOK
  <2> QED
    BY <1>1, <1>4, <2>1, <2>2 DEF RatesStep
<1>7. ValidationStep(next)
  BY <1>1, <1>3 DEF ValidationStep
<1>8. SettleRate(next, 0, FALSE)
  BY <1>1
<1> QED
  BY <1>4, <1>5, <1>6, <1>7, <1>8, ContinueLemma

LEMMA ValidationPassStep ==
  ASSUME IInv, outcome = "searching", args' = args, NEW verdict, ValidationPass(verdict)
  PROVE  IInv'
<1>1. /\ final_validation /\ ~do_warmup /\ ~OneShot
      /\ initial_rate # rate \/ disable_upward_search
      /\ RecordPass
  BY DEF ValidationPass, Passed, IInv, FlagsOK
<1>2. passed_stats' \in Stats /\ passed_stats' = [mode |-> "validation", rate |-> rate]
  BY <1>1, RecordPassLemma
<1>3. CASE Leave("finished")
  BY <1>1, <1>2, <1>3, LeaveLemma DEF IInv, ValidationOK
<1>4. CASE /\ in_repeat_validation' = TRUE
           /\ SettleRate(rate, prev_rate, FALSE)
           /\ UNCHANGED <<final_validation, do_sniff, do_search, do_warmup,
                          initial_rate, prev_pass_rate, prev_fail_rate, retries,
                          disable_upward_search>>
  <2>1. FlagsStep
    BY <1>2, <1>4 DEF FlagsStep, FlagsOK, OneShot, IInv, TypeOK
  <2>2. RatesStep(rate)
    BY <1>4, SearchingLemma DEF RatesStep, StackOK, MinimumRate, IInv, TypeOK
  <2>3. ValidationStep(rate)
    BY <1>1, <1>2, <1>4, SearchingLemma DEF ValidationStep, IInv, ValidationOK
  <2>4. prev_rate \in Nat
    BY DEF IInv, TypeOK
  <2> QED
    BY <1>4, <2>1, <2>2, <2>3, <2>4, SearchingLemma, ContinueLemma
<1> QED
  BY <1>3, <1>4 DEF ValidationPass

\* A warmup, sniff or search trial is not a repeat of the final validation.
LEMMA NoRepeatLemma ==
  ASSUME IInv, ~final_validation
  PROVE  ~in_repeat_validation
  BY DEF IInv, ValidationOK

LEMMA WarmupPassStep ==
  ASSUME IInv, outcome = "searching", args' = args, NEW verdict, WarmupPass(verdict)
  PROVE  IInv'
<1>1. /\ do_warmup /\ ~final_validation /\ RecordPass
      /\ do_warmup' = FALSE /\ final_validation' = args.one_shot
      /\ do_sniff' = (do_sniff \/ (~args.one_shot /\ args.perform_sniffs))
      /\ do_search' = (do_search \/ (~args.one_shot /\ ~args.perform_sniffs))
      /\ retries' = 0
      /\ SettleRate(rate, rate, FALSE)
      /\ UNCHANGED <<in_repeat_validation, initial_rate, prev_pass_rate,
                     prev_fail_rate, disable_upward_search>>
  BY DEF WarmupPass, OneShot, PerformSniffs
<1>2. ~in_repeat_validation /\ ~do_sniff /\ ~do_search
  BY <1>1, NoRepeatLemma DEF IInv, FlagsOK
<1>3. passed_stats' = passed_stats
  BY <1>1, RecordPassLemma
<1>4. FlagsStep
  <2>1. args.one_shot \in BOOLEAN /\ args.perform_sniffs \in BOOLEAN
    BY SearchingLemma, OptionsAssumption DEF OptionsType
  <2>2. do_sniff' \in BOOLEAN /\ do_search' \in BOOLEAN /\ final_validation' \in BOOLEAN
    BY <1>1, <2>1
  <2>3. FlagsOK'
    BY <1>1, <1>2, <2>1, Zenon DEF FlagsOK, OneShot
  <2>4. retries' \in 0..MaxRetries
    BY <1>1, RatesAssumption
  <2> QED
    BY <1>1, <1>3, <2>2, <2>3, <2>4 DEF FlagsStep, IInv, TypeOK
<1>5. RatesStep(rate)
  BY <1>1, SearchingLemma DEF RatesStep, StackOK, MinimumRate, IInv, TypeOK
<1>6. ValidationStep(rate)
  BY <1>1, <1>2 DEF ValidationStep, OneShot
<1> QED
  BY <1>1, <1>4, <1>5, <1>6, SearchingLemma, ContinueLemma

LEMMA SniffPassStep ==
  ASSUME IInv, outcome = "searching", args' = args, NEW verdict, SniffPass(verdict)
  PROVE  IInv'
<1>1. /\ ~do_warmup /\ ~final_validation /\ do_sniff /\ RecordPass
      /\ do_sniff' = FALSE /\ do_search' = TRUE
      /\ retries' = 0
      /\ SettleRate(rate, rate, FALSE)
      /\ UNCHANGED <<final_validation, do_warmup, in_repeat_validation, initial_rate,
                     prev_pass_rate, prev_fail_rate, disable_upward_search>>
  BY DEF SniffPass
<1>2. ~in_repeat_validation /\ ~OneShot
  BY <1>1, NoRepeatLemma DEF IInv, FlagsOK
<1>3. FlagsStep
  <2>1. passed_stats' \in Stats
    BY <1>1, RecordPassLemma
  <2>2. FlagsOK'
    BY <1>1, <1>2, Zenon DEF FlagsOK, OneShot
  <2>3. retries' \in 0..MaxRetries
    BY <1>1, RatesAssumption
  <2> QED
    BY <1>1, <2>1, <2>2, <2>3 DEF FlagsStep, IInv, TypeOK
<1>4. RatesStep(rate)
  BY <1>1, SearchingLemma DEF RatesStep, StackOK, MinimumRate, IInv, TypeOK
<1>5. ValidationStep(rate)
  BY <1>1, <1>2 DEF ValidationStep
<1> QED
  BY <1>1, <1>3, <1>4, <1>5, SearchingLemma, ContinueLemma

LEMMA SearchPassStep ==
  ASSUME IInv, outcome = "searching", args' = args, NEW verdict, SearchPass(verdict)
  PROVE  IInv'
<1> DEFINE mid  == Midpoint(prev_fail_rate, rate)
           done == WithinGranularity(rate, mid)
<1>1. /\ ~do_warmup /\ ~final_validation /\ RecordPass
      /\ prev_pass_rate' = Append(prev_pass_rate, rate)
      /\ final_validation' = done
      /\ do_sniff' = (~done /\ args.perform_sniffs)
      /\ do_search' = (~done /\ ~args.perform_sniffs)
      /\ retries' = 0
      /\ SettleRate(mid, rate, FALSE)
      /\ UNCHANGED <<do_warmup, in_repeat_validation, initial_rate, prev_fail_rate,
                     disable_upward_search>>
  BY DEF SearchPass, PerformSniffs
<1>2. ~in_repeat_validation /\ ~OneShot
  BY <1>1, NoRepeatLemma DEF IInv, FlagsOK
<1>3. mid \in Nat /\ MinimumRate <= mid /\ mid <= initial_rate
  BY SearchingLemma, MidpointLemma
<1>4. done \in BOOLEAN
  BY DEF WithinGranularity
<1> HIDE DEF mid, done
<1>5. FlagsStep
  <2>1. passed_stats' \in Stats
    BY <1>1, RecordPassLemma
  <2>2. args.perform_sniffs \in BOOLEAN
    BY SearchingLemma, OptionsAssumption DEF OptionsType
  <2>3. FlagsOK'
    BY <1>1, <1>2, <1>4, <2>2, Zenon DEF FlagsOK, OneShot
  <2>4. /\ final_validation' \in BOOLEAN /\ do_sniff' \in BOOLEAN
        /\ do_search' \in BOOLEAN
    BY <1>1, <1>4, <2>2
  <2>5. retries' \in 0..MaxRetries
    BY <1>1, RatesAssumption
  <2> QED
    BY <1>1, <2>1, <2>3, <2>4, <2>5 DEF FlagsStep, IInv, TypeOK
<1>6. /\ prev_pass_rate' \in Seq(Nat)
      /\ Len(prev_pass_rate') = Len(prev_pass_rate) + 1
      /\ Len(prev_pass_rate) \in Nat /\ Len(prev_pass_rate) >= 1
      /\ \A i \in 1..Len(prev_pass_rate) : prev_pass_rate'[i] = prev_pass_rate[i]
      /\ prev_pass_rate'[Len(prev_pass_rate) + 1] = rate
  BY <1>1 DEF IInv, TypeOK
<1>7. RatesStep(mid)
  <2>1. StackOK'
    <3>1. prev_pass_rate'[1] = 0
      BY <1>6 DEF IInv, StackOK
    <3>2. ASSUME NEW i \in 2..Len(prev_pass_rate')
          PROVE  MinimumRate <= prev_pass_rate'[i] /\ prev_pass_rate'[i] <= initial_rate
      <4>1. CASE i = Len(prev_pass_rate) + 1
        BY <1>6, <4>1, SearchingLemma
      <4>2. CASE i \in 2..Len(prev_pass_rate)
        BY <1>6, <4>2 DEF IInv, StackOK
      <4> QED
        BY <1>6, <4>1, <4>2
    <3> QED
      BY <1>1, <3>1, <3>2 DEF StackOK, MinimumRate
  <2> QED
    BY <1>1, <1>3, <1>6, <2>1, SearchingLemma DEF RatesStep, IInv, TypeOK
<1>8. ValidationStep(mid)
  BY <1>1, <1>2, <1>6 DEF ValidationStep
<1>9. SettleRate(mid, rate, FALSE)
  BY <1>1
<1> QED
  BY <1>3, <1>5, <1>7, <1>8, <1>9, SearchingLemma, ContinueLemma

-------------------------------------------------------------------------------
\* Every step keeps the invariant.
LEMMA NextLemma == IInv /\ [Next]_searchVars => IInv'
<1> SUFFICES ASSUME IInv, [Next]_searchVars PROVE IInv'
  OBVIOUS
<1>1. CASE UNCHANGED searchVars
  <2>1. TypeOK'
    BY <1>1 DEF IInv, TypeOK, searchVars, flags, rates
  <2>2. BoundsOK' /\ StackOK' /\ FlagsOK' /\ RateInRange' /\ ValidationOK'
    BY <1>1 DEF IInv, BoundsOK, StackOK, FlagsOK, RateInRange, ValidationOK,
                searchVars, flags, rates, MinimumRate, OneShot
  <2> QED
    BY <2>1, <2>2 DEF IInv
<1>2. CASE Next
  <2> SUFFICES ASSUME outcome = "searching", args' = args, IInv,
                      TrialError \/ \E verdict \in VerdictsOf(Mode) : Trial(verdict)
               PROVE  IInv'
    BY <1>2 DEF Next
  <2>1. CASE TrialError
    BY <2>1, TrialErrorStep
  <2>2. ASSUME NEW verdict \in VerdictsOf(Mode), Trial(verdict)
        PROVE  IInv'
    <3>1. CASE Quit(verdict)
      BY <3>1, QuitStep
    <3>2. CASE RepeatDone(verdict)
      BY <3>2, RepeatDoneStep
    <3>3. CASE OneShotDone(verdict)
      BY <3>3, OneShotDoneStep
    <3>4. CASE Retry(verdict)
      BY <3>4, RetryStep
    <3>5. CASE ValidationFail(verdict)
      BY <3>5, ValidationFailStep
    <3>6. CASE TrialFail(verdict)
      BY <3>6, TrialFailStep
    <3>7. CASE UpwardRestart(verdict)
      BY <3>7, UpwardRestartStep
    <3>8. CASE ValidationPass(verdict)
      BY <3>8, ValidationPassStep
    <3>9. CASE WarmupPass(verdict)
      BY <3>9, WarmupPassStep
    <3>10. CASE SniffPass(verdict)
      BY <3>10, SniffPassStep
    <3>11. CASE SearchPass(verdict)
      BY <3>11, SearchPassStep
    <3> QED
      BY <2>2, <3>1, <3>2, <3>3, <3>4, <3>5, <3>6, <3>7, <3>8, <3>9, <3>10, <3>11
         DEF Trial
  <2> QED
    BY <2>1, <2>2
<1> QED
  BY <1>1, <1>2

LEMMA Invariance == Spec => []IInv
  BY InitLemma, NextLemma, PTL DEF Spec

-------------------------------------------------------------------------------
\* The state of the search always has its type.
THEOREM TypeCorrect == Spec => []TypeOK
<1>1. IInv => TypeOK
  BY DEF IInv
<1> QED
  BY <1>1, Invariance, PTL

\* No trial is offered a rate below the minimum, above the rate the search
\* started from, or above line rate.
THEOREM RateStaysInRange == Spec => []RateInRange
<1>1. IInv => RateInRange
  BY DEF IInv
<1> QED
  BY <1>1, Invariance, PTL

\* Every verdict is judged for the mode its trial was run in.
THEOREM TrialsAreJudgedAsRun == Spec => []JudgedAsRun
<1>1. IInv => JudgedAsRun
  BY DEF IInv, FlagsOK, JudgedAsRun, Mode, JudgedMode
<1> QED
  BY <1>1, Invariance, PTL

\* What a finished search reports passed a final validation at that rate.
THEOREM ReportIsValidated == Spec => []FinishedIsValidated
<1>1. IInv => FinishedIsValidated
  <2> SUFFICES ASSUME IInv, outcome = "finished", ~OneShot
               PROVE  /\ passed_stats = [mode |-> "validation", rate |-> rate]
                      /\ Top(prev_pass_rate) # 0
    BY DEF FinishedIsValidated
  <2>1. /\ passed_stats = [mode |-> "validation", rate |-> rate]
        /\ Len(prev_pass_rate) > 1
    BY DEF IInv, ValidationOK
  <2>2. args \in Options
    BY DEF IInv, TypeOK
  <2> QED
    BY <2>1, <2>2, TopLemma, MinimumLemma
<1> QED
  BY <1>1, Invariance, PTL

\* The repeat of the final validation is the last trial, whatever its verdict: it
\* neither reopens the search nor makes it one without a rate, and what there is
\* to report stays as it was.  It may end in a quit or an error, and then nothing
\* is reported.
THEOREM RepeatEndsTheSearch == Spec => RepeatIsFinal
<1>1. IInv /\ [Next]_searchVars =>
        [in_repeat_validation =>
           /\ outcome' \notin {"searching", "no_pass"}
           /\ UNCHANGED <<rate, passed_stats>>]_searchVars
  <2> SUFFICES ASSUME IInv, outcome = "searching", in_repeat_validation,
                      TrialError \/ \E verdict \in VerdictsOf(Mode) : Trial(verdict)
               PROVE  /\ outcome' \notin {"searching", "no_pass"}
                      /\ UNCHANGED <<rate, passed_stats>>
    BY DEF Next
  <2>1. /\ InRepeat /\ final_validation
        /\ ~(initial_rate = rate /\ ~disable_upward_search)
        /\ passed_stats = [mode |-> "validation", rate |-> rate]
    BY DEF InRepeat, IInv, ValidationOK
  <2>2. CASE TrialError
    BY <2>2 DEF TrialError, Leave, rates
  <2>3. ASSUME NEW verdict \in VerdictsOf(Mode), Trial(verdict)
        PROVE  /\ outcome' \notin {"searching", "no_pass"}
               /\ UNCHANGED <<rate, passed_stats>>
    <3>1. ~OneShotDone(verdict) /\ ~Retry(verdict)
      BY <2>1 DEF OneShotDone, Retry
    <3>2. ~ValidationFail(verdict) /\ ~TrialFail(verdict)
      BY <2>1 DEF ValidationFail, TrialFail, Failed
    <3>3. /\ ~UpwardRestart(verdict) /\ ~WarmupPass(verdict)
          /\ ~SniffPass(verdict) /\ ~SearchPass(verdict)
      BY <2>1 DEF UpwardRestart, WarmupPass, SniffPass, SearchPass
    <3>4. CASE Quit(verdict)
      BY <3>4 DEF Quit, Leave, rates
    <3>5. CASE RepeatDone(verdict)
      BY <3>5 DEF RepeatDone, Leave, rates
    <3>6. CASE ValidationPass(verdict)
      <4>1. Leave("finished") /\ RecordPass
        BY <3>6 DEF ValidationPass
      <4> QED
        BY <4>1 DEF RecordPass, Leave, rates
    <3> QED
      BY <2>3, <3>1, <3>2, <3>3, <3>4, <3>5, <3>6 DEF Trial
  <2> QED
    BY <2>2, <2>3
<1> QED
  BY <1>1, Invariance, PTL DEF Spec, RepeatIsFinal

\* Every trial at a new rate or in a new mode has all its retries.
THEOREM RetriesAreNotShared == Spec => RetriesStartFresh
<1>1. IInv /\ [Next]_searchVars =>
        [outcome' = "searching" /\ (rate' # rate \/ Mode' # Mode)
           => retries' = 0]_searchVars
  <2> SUFFICES ASSUME IInv, outcome = "searching", outcome' = "searching",
                      rate' # rate \/ Mode' # Mode, args' = args,
                      TrialError \/ \E verdict \in VerdictsOf(Mode) : Trial(verdict)
               PROVE  retries' = 0
    BY DEF Next
  <2>1. \A how \in {"finished", "quit", "error"} : ~Leave(how)
    BY DEF Leave
  <2>2. SettleRate(rate, prev_rate, FALSE) => rate' = rate
    <3>1. prev_rate \in Nat
      BY DEF IInv, TypeOK
    <3> QED
      BY <3>1, SearchingLemma, SettleLemma
  <2>3. PICK verdict \in VerdictsOf(Mode) : Trial(verdict)
    BY <2>1 DEF TrialError
  <2>4. ~Quit(verdict) /\ ~RepeatDone(verdict) /\ ~OneShotDone(verdict)
    BY <2>1 DEF Quit, RepeatDone, OneShotDone
  <2>5. ~Retry(verdict)
    <3> SUFFICES ASSUME Retry(verdict)
                 PROVE  FALSE
      OBVIOUS
    <3>1. rate' = rate
      BY <2>2 DEF Retry
    <3>2. /\ final_validation' = final_validation /\ do_sniff' = do_sniff
          /\ do_search' = do_search /\ do_warmup' = do_warmup
      BY DEF Retry, flags
    <3>3. Mode' = Mode
      BY <3>2, Zenon DEF Mode
    <3> QED
      BY <3>1, <3>3
  <2>6. ~ValidationPass(verdict)
    BY <2>1, <2>2 DEF ValidationPass, Mode
  <2>7. CASE ValidationFail(verdict) \/ TrialFail(verdict)
    BY <2>7 DEF ValidationFail, TrialFail, AfterFail
  <2>8. CASE UpwardRestart(verdict) \/ WarmupPass(verdict)
             \/ SniffPass(verdict) \/ SearchPass(verdict)
    BY <2>8 DEF UpwardRestart, WarmupPass, SniffPass, SearchPass
  <2> QED
    BY <2>3, <2>4, <2>5, <2>6, <2>7, <2>8 DEF Trial
<1> QED
  BY <1>1, Invariance, PTL DEF Spec, RetriesStartFresh

-------------------------------------------------------------------------------
(* A search of a consistent device under test.                             *)

LimitsOK ==
  /\ search_limit \in Nat /\ validation_limit \in Nat
  /\ validation_limit <= search_limit

\* The device sustains, in a search trial, the rate the search returns to.
PassesOK == Top(prev_pass_rate) <= search_limit

\* The search stands at the rate it (re)started from, or below a rate that the
\* device does not sustain in a final validation.
BelowFailure ==
  outcome = "searching" =>
    \/ rate = initial_rate /\ prev_fail_rate = initial_rate
    \/ rate < prev_fail_rate /\ validation_limit < prev_fail_rate

\* No rate more than the granularity above the present one is sustained.
NothingAbove == 100 * (validation_limit - rate) <= SearchGranularity * rate

ValidationOfBest == final_validation /\ ~OneShot /\ rate # initial_rate => NothingAbove

RateIsRight ==
  /\ rate <= validation_limit
  /\ (rate = initial_rate /\ disable_upward_search) \/ NothingAbove

DutParts ==
  /\ LimitsOK
  /\ PassesOK
  /\ BelowFailure
  /\ ValidationOfBest
  /\ in_repeat_validation => RateIsRight
  /\ ReportedRateIsRight
  /\ NoPassIsRight

\* The inductive invariant.
DutInv == IInv /\ DutParts

\* A larger rate has the larger granularity.
LEMMA GranularityGrows ==
  ASSUME NEW r \in Nat, NEW s \in Nat, r <= s
  PROVE  /\ SearchGranularity * r \in Nat /\ SearchGranularity * s \in Nat
         /\ SearchGranularity * r <= SearchGranularity * s
<1>1. SearchGranularity \in Nat
  BY RatesAssumption
<1>2. PICK d \in Nat : s = r + d
  <2>1. s - r \in Nat /\ s = r + (s - r)
    OBVIOUS
  <2> QED
    BY <2>1
<1>3. /\ SearchGranularity * r \in Nat /\ SearchGranularity * d \in Nat
      /\ SearchGranularity * s = SearchGranularity * r + SearchGranularity * d
  BY <1>1, <1>2
<1> QED
  BY <1>3

\* A step down from a rate the search may offer leads below it.
LEMMA StepDownFalls ==
  ASSUME args \in Options, NEW r \in Nat, MinimumRate <= r
  PROVE  StepDown(r) \in Nat /\ StepDown(r) < r
<1>1. MinimumRate \in Nat
  BY MinimumLemma
<1>2. SearchGranularity * MinimumRate >= 100
  <2>1. MinimumRate * SearchGranularity >= 100
    BY GranularityAssumption DEF MinimumRate
  <2> QED
    BY <1>1, <2>1, RatesAssumption
<1>3. SearchGranularity * r \in Nat /\ SearchGranularity * r >= 100
  BY <1>1, <1>2, GranularityGrows
<1> DEFINE p == SearchGranularity * r
<1>4. p \in Nat /\ p >= 100
  BY <1>3
<1> HIDE DEF p
<1>5. p \div 100 \in Nat /\ p \div 100 >= 1
  BY <1>4
<1>6. StepDown(r) = r - p \div 100
  BY DEF StepDown, p
<1>7. StepDown(r) \in Nat
  BY StepDownLemma
<1> QED
  BY <1>5, <1>6, <1>7

\* A consistent device that fails a trial does not sustain its rate, ...
LEMMA FailedAbove ==
  ASSUME IInv, LimitsOK, NEW verdict, VerdictOfDut(verdict), Failed(verdict)
  PROVE  /\ validation_limit < rate
         /\ ~final_validation => search_limit < rate /\ ~do_warmup
<1>1. rate \in Nat
  BY DEF IInv, TypeOK
<1>2. Mode # "warmup" /\ verdict = "fail"
  BY DEF VerdictOfDut, Failed, InRepeat
<1>3. ~(rate <= Limit(Mode))
  BY <1>2 DEF VerdictOfDut
<1>4. Limit(Mode) \in Nat /\ validation_limit <= Limit(Mode)
  BY DEF Limit, LimitsOK
<1>5. ~final_validation => Mode # "validation" /\ ~do_warmup
  BY <1>2 DEF Mode, IInv, FlagsOK
<1> QED
  BY <1>1, <1>3, <1>4, <1>5 DEF Limit, LimitsOK

\* ... and sustains the rate of a trial it passes.
LEMMA PassedBelow ==
  ASSUME IInv, LimitsOK, NEW verdict, VerdictOfDut(verdict), Passed(verdict)
  PROVE  /\ final_validation => rate <= validation_limit
         /\ ~final_validation /\ ~do_warmup => rate <= search_limit
<1>1. final_validation => Mode = "validation"
  BY DEF Mode
<1>2. ~final_validation /\ ~do_warmup => Mode \in {"search", "sniff"}
  BY DEF Mode, IInv, FlagsOK
<1> QED
  BY <1>1, <1>2 DEF VerdictOfDut, Passed, Limit

\* A failed trial is followed by one at a lower rate; the search gives up at
\* the minimum, or when it is led there.
LEMMA FailedSettle ==
  ASSUME IInv, outcome = "searching", args' = args,
         NEW next \in Nat, next < rate, SettleRate(next, rate, TRUE)
  PROVE  /\ outcome' = "searching" => rate' < rate
         /\ outcome' = "no_pass" =>
              /\ prev_rate' = rate
              /\ rate = MinimumRate \/ (MinimumRate < rate /\ rate' = MinimumRate)
         /\ outcome' # "finished"
<1>1. MinimumRate \in Nat /\ rate \in Nat /\ MinimumRate <= rate
  BY SearchingLemma
<1>2. CASE next < MinimumRate /\ rate > MinimumRate
  BY <1>1, <1>2 DEF SettleRate
<1>3. CASE ~(next < MinimumRate /\ rate > MinimumRate)
  <2>1. /\ rate' = next /\ prev_rate' = rate
        /\ outcome' = IF next = MinimumRate \/ rate <= MinimumRate
                     THEN "no_pass" ELSE "searching"
    <3> DEFINE tooLow == next < MinimumRate /\ rate > MinimumRate
    <3>1. ~tooLow
      BY <1>3
    <3>2. /\ rate' = IF tooLow THEN MinimumRate ELSE next
          /\ prev_rate' = IF tooLow THEN next ELSE rate
          /\ outcome' = IF TRUE /\ ~tooLow /\ (next = MinimumRate \/ rate <= MinimumRate)
                       THEN "no_pass" ELSE "searching"
      BY Zenon DEF SettleRate
    <3> HIDE DEF tooLow
    <3> QED
      BY <3>1, <3>2, Zenon
  <2> QED
    BY <1>1, <2>1
<1> QED
  BY <1>2, <1>3

\* What a failed trial leads to.
LEMMA DutFail ==
  ASSUME DutInv, outcome = "searching", args' = args,
         UNCHANGED <<search_limit, validation_limit>>,
         NEW next \in Nat, next < rate, AfterFail(next),
         validation_limit < rate, Top(prev_pass_rate') <= search_limit,
         final_validation' = FALSE, ~in_repeat_validation
  PROVE  DutParts'
<1>1. /\ prev_fail_rate' = rate
      /\ SettleRate(next, rate, TRUE)
      /\ in_repeat_validation' = in_repeat_validation
  BY DEF AfterFail
<1>2. /\ outcome' = "searching" => rate' < rate
      /\ outcome' = "no_pass" =>
           /\ prev_rate' = rate
           /\ rate = MinimumRate \/ (MinimumRate < rate /\ rate' = MinimumRate)
      /\ outcome' # "finished"
  BY <1>1, FailedSettle DEF DutInv
<1>3. MinimumRate' = MinimumRate
  BY DEF MinimumRate
<1>4. LimitsOK' /\ PassesOK'
  BY DEF DutInv, DutParts, LimitsOK, PassesOK
<1>5. BelowFailure'
  BY <1>1, <1>2 DEF BelowFailure
<1>6. ValidationOfBest' /\ ~in_repeat_validation' /\ ReportedRateIsRight'
  BY <1>1, <1>2 DEF ValidationOfBest, ReportedRateIsRight
<1>7. NoPassIsRight'
  BY <1>2, <1>3 DEF NoPassIsRight, MinimumSkipped
<1> QED
  BY <1>4, <1>5, <1>6, <1>7 DEF DutParts

LEMMA ValidationFailDut ==
  ASSUME DutInv, outcome = "searching", args' = args,
         UNCHANGED <<search_limit, validation_limit>>,
         NEW verdict, VerdictOfDut(verdict), ValidationFail(verdict)
  PROVE  DutParts'
<1>1. /\ Failed(verdict) /\ final_validation /\ final_validation' = FALSE
      /\ AfterFail(StepDown(rate)) /\ prev_pass_rate' = prev_pass_rate
  BY DEF ValidationFail
<1>2. validation_limit < rate
  BY <1>1, FailedAbove DEF DutInv, DutParts
<1>3. ~in_repeat_validation
  BY <1>1 DEF Failed, InRepeat
<1>4. StepDown(rate) \in Nat /\ StepDown(rate) < rate
  BY SearchingLemma, StepDownFalls DEF DutInv
<1>5. Top(prev_pass_rate') <= search_limit
  BY <1>1 DEF DutInv, DutParts, PassesOK
<1> QED
  BY <1>1, <1>2, <1>3, <1>4, <1>5, DutFail

\* The next rate lies between the failed one and one the device sustains.
LEMMA TrialFailDut ==
  ASSUME DutInv, outcome = "searching", args' = args,
         UNCHANGED <<search_limit, validation_limit>>,
         NEW verdict, VerdictOfDut(verdict), TrialFail(verdict)
  PROVE  DutParts'
<1>1. /\ Failed(verdict) /\ ~final_validation /\ final_validation' = FALSE
      /\ AfterFail(RateAfterFail) /\ prev_pass_rate' = PassStackAfterFail
  BY DEF TrialFail
<1>2. validation_limit < rate /\ search_limit < rate
  BY <1>1, FailedAbove DEF DutInv, DutParts
<1>3. ~in_repeat_validation
  BY <1>1 DEF DutInv, IInv, ValidationOK
<1>4. /\ Top(prev_pass_rate) \in Nat /\ Top(prev_pass_rate) <= search_limit
      /\ rate \in Nat /\ search_limit \in Nat
  BY TopLemma, SearchingLemma DEF DutInv, DutParts, PassesOK, LimitsOK
<1>5. PassStackAfterFail = prev_pass_rate
  BY <1>2, <1>4 DEF PassStackAfterFail, FalsePositive
<1>6. RateAfterFail \in Nat /\ RateAfterFail < rate
  <2>1. Midpoint(Top(prev_pass_rate), rate) \in Nat /\ Midpoint(Top(prev_pass_rate), rate) < rate
    BY <1>2, <1>4 DEF Midpoint
  <2>2. StepDown(rate) \in Nat /\ StepDown(rate) < rate
    BY SearchingLemma, StepDownFalls DEF DutInv
  <2> QED
    BY <1>5, <2>1, <2>2 DEF RateAfterFail
<1> QED
  BY <1>1, <1>2, <1>3, <1>4, <1>5, <1>6, DutFail

\* Leaving the loop.
LEMMA LeaveDut ==
  ASSUME DutInv, outcome = "searching", args' = args,
         UNCHANGED <<search_limit, validation_limit>>,
         NEW how \in {"finished", "quit"}, Leave(how),
         how = "finished" /\ ~OneShot => RateIsRight
  PROVE  DutParts'
<1>1. /\ outcome' = how /\ UNCHANGED flags /\ UNCHANGED rates
      /\ disable_upward_search' = disable_upward_search
  BY DEF Leave
<1>2. /\ LimitsOK' /\ PassesOK' /\ BelowFailure' /\ ValidationOfBest'
      /\ in_repeat_validation' => RateIsRight'
      /\ NoPassIsRight'
  BY <1>1 DEF DutInv, DutParts, LimitsOK, PassesOK, BelowFailure, ValidationOfBest,
              NothingAbove, RateIsRight, NoPassIsRight, MinimumSkipped, flags, rates,
              OneShot
<1>3. ReportedRateIsRight'
  BY <1>1 DEF ReportedRateIsRight, RateIsRight, NothingAbove, rates, OneShot
<1> QED
  BY <1>2, <1>3 DEF DutParts

\* A trial at the rate it was planned for: the rate is not raised.
LEMMA SettleHigh ==
  ASSUME args \in Options, NEW next \in Nat, NEW prev, MinimumRate <= next,
         SettleRate(next, prev, FALSE)
  PROVE  rate' = next /\ prev_rate' = prev /\ outcome' = "searching"
  BY MinimumLemma DEF SettleRate

\* A trial is repeated, or followed by one in another mode, at its rate.
LEMMA SameRateDut ==
  ASSUME DutInv, outcome = "searching", args' = args,
         UNCHANGED <<search_limit, validation_limit>>,
         NEW prev, SettleRate(rate, prev, FALSE),
         UNCHANGED <<initial_rate, prev_pass_rate, prev_fail_rate, disable_upward_search>>,
         final_validation' /\ ~OneShot => final_validation,
         in_repeat_validation' => RateIsRight
  PROVE  DutParts'
<1>1. rate' = rate /\ outcome' = "searching"
  BY SearchingLemma, SettleHigh DEF DutInv
<1>2. LimitsOK' /\ PassesOK' /\ BelowFailure' /\ ValidationOfBest'
  BY <1>1 DEF DutInv, DutParts, LimitsOK, PassesOK, BelowFailure, ValidationOfBest,
              NothingAbove, OneShot
<1>3. in_repeat_validation' => RateIsRight'
  BY <1>1 DEF RateIsRight, NothingAbove
<1>4. NoPassIsRight' /\ ReportedRateIsRight'
  BY <1>1 DEF NoPassIsRight, ReportedRateIsRight
<1> QED
  BY <1>2, <1>3, <1>4 DEF DutParts

LEMMA RepeatDoneDut ==
  ASSUME DutInv, outcome = "searching", args' = args,
         UNCHANGED <<search_limit, validation_limit>>,
         NEW verdict, RepeatDone(verdict)
  PROVE  DutParts'
<1>1. in_repeat_validation /\ Leave("finished")
  BY DEF RepeatDone, InRepeat
<1> QED
  BY <1>1, LeaveDut DEF DutInv, DutParts

LEMMA RetryDut ==
  ASSUME DutInv, outcome = "searching", args' = args,
         UNCHANGED <<search_limit, validation_limit>>,
         NEW verdict, Retry(verdict)
  PROVE  DutParts'
<1>1. /\ SettleRate(rate, prev_rate, FALSE)
      /\ UNCHANGED <<final_validation, in_repeat_validation, initial_rate,
                     prev_pass_rate, prev_fail_rate, disable_upward_search>>
  BY DEF Retry, flags
<1> QED
  BY <1>1, SameRateDut DEF DutInv, DutParts

LEMMA WarmupPassDut ==
  ASSUME DutInv, outcome = "searching", args' = args,
         UNCHANGED <<search_limit, validation_limit>>,
         NEW verdict, WarmupPass(verdict)
  PROVE  DutParts'
<1>1. /\ SettleRate(rate, rate, FALSE)
      /\ UNCHANGED <<in_repeat_validation, initial_rate,
                     prev_pass_rate, prev_fail_rate, disable_upward_search>>
      /\ final_validation' = OneShot
  BY DEF WarmupPass
<1> QED
  BY <1>1, SameRateDut DEF DutInv, DutParts

LEMMA SniffPassDut ==
  ASSUME DutInv, outcome = "searching", args' = args,
         UNCHANGED <<search_limit, validation_limit>>,
         NEW verdict, SniffPass(verdict)
  PROVE  DutParts'
<1>1. /\ SettleRate(rate, rate, FALSE)
      /\ UNCHANGED <<final_validation, in_repeat_validation, initial_rate,
                     prev_pass_rate, prev_fail_rate, disable_upward_search>>
  BY DEF SniffPass
<1> QED
  BY <1>1, SameRateDut DEF DutInv, DutParts

\* A final validation that passes: the device sustains the rate, and nothing
\* above it.
LEMMA ValidationPassDut ==
  ASSUME DutInv, outcome = "searching", args' = args,
         UNCHANGED <<search_limit, validation_limit>>,
         NEW verdict, VerdictOfDut(verdict), ValidationPass(verdict)
  PROVE  DutParts'
<1>1. /\ Passed(verdict) /\ final_validation
      /\ initial_rate # rate \/ disable_upward_search
      /\ \/ /\ SettleRate(rate, prev_rate, FALSE)
            /\ UNCHANGED <<final_validation, initial_rate, prev_pass_rate,
                           prev_fail_rate, disable_upward_search>>
         \/ Leave("finished")
  BY DEF ValidationPass
<1>2. rate <= validation_limit
  BY <1>1, PassedBelow DEF DutInv, DutParts
<1>3. ~OneShot => RateIsRight
  BY <1>1, <1>2 DEF RateIsRight, DutInv, DutParts, ValidationOfBest
<1>4. ~OneShot
  BY <1>1 DEF Passed, DutInv, IInv, FlagsOK
<1> QED
  BY <1>1, <1>3, <1>4, LeaveDut, SameRateDut

LEMMA UpwardRestartDut ==
  ASSUME DutInv, outcome = "searching", args' = args,
         UNCHANGED <<search_limit, validation_limit>>,
         NEW verdict, UpwardRestart(verdict)
  PROVE  DutParts'
<1> DEFINE doubled == 2 * initial_rate
           capped == LineRate # 0 /\ doubled >= LineRate
           next == IF capped THEN LineRate ELSE doubled
<1>1. /\ final_validation /\ initial_rate = rate /\ ~disable_upward_search
      /\ final_validation' = FALSE
      /\ initial_rate' = next /\ prev_fail_rate' = next
      /\ prev_pass_rate' = <<0>>
      /\ SettleRate(next, 0, FALSE)
      /\ in_repeat_validation' = in_repeat_validation
  BY DEF UpwardRestart
<1>2. next \in Nat /\ MinimumRate <= next
  BY SearchingLemma, RatesAssumption DEF DutInv
<1> HIDE DEF next
<1>3. rate' = next /\ outcome' = "searching"
  BY <1>1, <1>2, SearchingLemma, SettleHigh DEF DutInv
<1>4. ~in_repeat_validation
  BY <1>1 DEF DutInv, IInv, ValidationOK
<1>5. LimitsOK' /\ PassesOK'
  <2>1. Top(<<0>>) = 0
    BY DEF Top
  <2> QED
    BY <1>1, <2>1 DEF DutInv, DutParts, LimitsOK, PassesOK
<1>6. BelowFailure' /\ ValidationOfBest'
  BY <1>1, <1>3 DEF BelowFailure, ValidationOfBest
<1>7. NoPassIsRight' /\ ReportedRateIsRight'
  BY <1>3 DEF NoPassIsRight, ReportedRateIsRight
<1> QED
  BY <1>1, <1>4, <1>5, <1>6, <1>7 DEF DutParts

\* A passed search trial: when the midpoint to the failed rate is within the
\* granularity of the passed one, the failed rate is of the midpoint.
LEMMA SearchPassDut ==
  ASSUME DutInv, outcome = "searching", args' = args,
         UNCHANGED <<search_limit, validation_limit>>,
         NEW verdict, VerdictOfDut(verdict), SearchPass(verdict)
  PROVE  DutParts'
<1> DEFINE mid == Midpoint(prev_fail_rate, rate)
<1>1. /\ Passed(verdict) /\ ~final_validation /\ ~do_warmup
      /\ final_validation' = WithinGranularity(rate, mid)
      /\ prev_pass_rate' = Append(prev_pass_rate, rate)
      /\ SettleRate(mid, rate, FALSE)
      /\ UNCHANGED <<in_repeat_validation, initial_rate, prev_fail_rate>>
  BY DEF SearchPass
<1>2. rate <= search_limit
  BY <1>1, PassedBelow DEF DutInv, DutParts
<1>3. /\ rate \in Nat /\ prev_fail_rate \in Nat
      /\ search_limit \in Nat /\ validation_limit \in Nat
      /\ MinimumRate \in Nat /\ MinimumRate <= rate
  BY SearchingLemma DEF DutInv, DutParts, LimitsOK
<1>4. \/ rate = initial_rate /\ prev_fail_rate = initial_rate
      \/ rate < prev_fail_rate /\ validation_limit < prev_fail_rate
  BY DEF DutInv, DutParts, BelowFailure
<1>5. /\ mid \in Nat /\ rate <= mid /\ prev_fail_rate <= 2 * mid - rate + 1
      /\ rate = prev_fail_rate => mid = rate
      /\ rate < prev_fail_rate => mid < prev_fail_rate
  BY <1>3, <1>4 DEF Midpoint
<1> HIDE DEF mid
<1>6. rate' = mid /\ outcome' = "searching"
  <2>1. MinimumRate <= mid
    BY <1>3, <1>5
  <2> QED
    BY <1>1, <1>5, <2>1, SearchingLemma, SettleHigh DEF DutInv
<1>7. LimitsOK' /\ PassesOK'
  <2>1. Top(prev_pass_rate') = rate
    BY <1>1, <1>3 DEF Top, DutInv, IInv, TypeOK
  <2> QED
    BY <1>2, <2>1 DEF DutInv, DutParts, LimitsOK, PassesOK
<1>8. BelowFailure'
  BY <1>1, <1>4, <1>5, <1>6 DEF BelowFailure
<1>9. ValidationOfBest'
  <2> SUFFICES ASSUME WithinGranularity(rate, mid), mid # initial_rate
               PROVE  100 * (validation_limit - mid) <= SearchGranularity * mid
    BY <1>1, <1>6 DEF ValidationOfBest, NothingAbove
  <2>1. validation_limit < prev_fail_rate
    BY <1>4, <1>5
  <2>2. validation_limit - mid <= mid - rate
    BY <1>3, <1>5, <2>1
  <2>3. 100 * (mid - rate) < SearchGranularity * rate
    <3>1. Abs(rate - mid) = mid - rate
      BY <1>3, <1>5 DEF Abs
    <3> QED
      BY <3>1 DEF WithinGranularity
  <2>4. /\ SearchGranularity * rate \in Nat /\ SearchGranularity * mid \in Nat
        /\ SearchGranularity * rate <= SearchGranularity * mid
    BY <1>3, <1>5, GranularityGrows
  <2> QED
    BY <1>3, <1>5, <2>2, <2>3, <2>4
<1>10. ~in_repeat_validation'
  BY <1>1 DEF DutInv, IInv, ValidationOK
<1>11. NoPassIsRight' /\ ReportedRateIsRight'
  BY <1>6 DEF NoPassIsRight, ReportedRateIsRight
<1> QED
  BY <1>7, <1>8, <1>9, <1>10, <1>11 DEF DutParts

LEMMA DutInitLemma == DutInit => DutInv
<1> SUFFICES ASSUME DutInit PROVE DutInv
  OBVIOUS
<1>1. IInv
  BY InitLemma DEF DutInit
<1>2. LimitsOK
  BY LimitsAssumption DEF DutInit, LimitsOK
<1>3. PassesOK
  <2>1. Top(<<0>>) = 0
    BY DEF Top
  <2> QED
    BY <1>2, <2>1 DEF DutInit, Init, PassesOK, LimitsOK
<1>4. BelowFailure /\ ValidationOfBest /\ ReportedRateIsRight /\ NoPassIsRight
      /\ ~in_repeat_validation
  BY DEF DutInit, Init, BelowFailure, ValidationOfBest, ReportedRateIsRight, NoPassIsRight
<1> QED
  BY <1>1, <1>2, <1>3, <1>4 DEF DutInv, DutParts

LEMMA DutNextLemma == DutInv /\ [DutNext]_dutVars => DutInv'
<1> SUFFICES ASSUME DutInv, [DutNext]_dutVars PROVE DutInv'
  OBVIOUS
<1>1. [Next]_searchVars
  BY DEF DutNext, dutVars, Next
<1>2. IInv'
  BY <1>1, NextLemma DEF DutInv
<1>3. CASE UNCHANGED dutVars
  <2>1. DutParts'
    BY <1>3 DEF dutVars, searchVars, flags, rates, DutInv, DutParts, LimitsOK, PassesOK,
                BelowFailure, ValidationOfBest, NothingAbove, RateIsRight,
                ReportedRateIsRight, NoPassIsRight, MinimumSkipped, OneShot, MinimumRate
  <2> QED
    BY <1>2, <2>1 DEF DutInv
<1>4. CASE DutNext
  <2>1. /\ outcome = "searching" /\ args' = args
        /\ UNCHANGED <<search_limit, validation_limit>>
    BY <1>4 DEF DutNext
  <2>2. PICK verdict : VerdictOfDut(verdict) /\ Trial(verdict)
    BY <1>4 DEF DutNext
  <2>3. DutParts'
    <3>1. CASE Quit(verdict)
      BY <2>1, <3>1, LeaveDut DEF Quit
    <3>2. CASE RepeatDone(verdict)
      BY <2>1, <3>2, RepeatDoneDut
    <3>3. CASE OneShotDone(verdict)
      BY <2>1, <3>3, LeaveDut DEF OneShotDone
    <3>4. CASE Retry(verdict)
      BY <2>1, <3>4, RetryDut
    <3>5. CASE ValidationFail(verdict)
      BY <2>1, <2>2, <3>5, ValidationFailDut
    <3>6. CASE TrialFail(verdict)
      BY <2>1, <2>2, <3>6, TrialFailDut
    <3>7. CASE UpwardRestart(verdict)
      BY <2>1, <3>7, UpwardRestartDut
    <3>8. CASE ValidationPass(verdict)
      BY <2>1, <2>2, <3>8, ValidationPassDut
    <3>9. CASE WarmupPass(verdict)
      BY <2>1, <3>9, WarmupPassDut
    <3>10. CASE SniffPass(verdict)
      BY <2>1, <3>10, SniffPassDut
    <3>11. CASE SearchPass(verdict)
      BY <2>1, <2>2, <3>11, SearchPassDut
    <3> QED
      BY <2>2, <3>1, <3>2, <3>3, <3>4, <3>5, <3>6, <3>7, <3>8, <3>9, <3>10, <3>11
         DEF Trial
  <2> QED
    BY <1>2, <2>3 DEF DutInv
<1> QED
  BY <1>3, <1>4

LEMMA DutInvariance == DutSpec => []DutInv
  BY DutInitLemma, DutNextLemma, PTL DEF DutSpec

\* Against a device that passes up to a limit and fails above it, the reported
\* rate is sustained, and no rate more than the granularity above it is.
THEOREM ReportsTheRightRate == DutSpec => []ReportedRateIsRight
<1>1. DutInv => ReportedRateIsRight
  BY DEF DutInv, DutParts
<1> QED
  BY <1>1, DutInvariance, PTL

\* When the search of such a device gives up, no rate from the minimum up is
\* sustained or, where a failure led exactly to the minimum, which is then not
\* tried, none from the failed rate up.
THEOREM GivesUpRightly == DutSpec => []NoPassIsRight
<1>1. DutInv => NoPassIsRight
  BY DEF DutInv, DutParts
<1> QED
  BY <1>1, DutInvariance, PTL

-------------------------------------------------------------------------------
(* The invariant.  The reasons for a flush are: the first trial, a final   *)
(* validation, a failed trial, and a recovery from a collapse; each comes  *)
(* with traffic stopped by the time the flush is decided on.               *)

LoopRuns == step # "done" => outcome = "searching"

FirstTrialQuiet ==
  /\ first_trial /\ step \in {"begin", "pre_trial", "trial"} => ~traffic_running
  /\ first_trial => step # "between"

ValidationQuiet == step = "pre_trial" /\ Mode = "validation" => ~traffic_running

FailureQuiet ==
  /\ prev_trial_result = "fail" /\ step \in {"begin", "pre_trial"} => ~traffic_running
  /\ prev_trial_result = "fail" /\ step = "between" => trial_result = "fail"

RecoveryQuiet ==
  session.pre_trial_cmd /\ force_next_flush =>
    step \in {"between", "begin", "pre_trial", "done"} /\ ~traffic_running

\* In process, the loop's own verdict is a failure whenever the trial's is, and
\* a trial behind which the search goes on passed or failed.
ResultsAgree ==
  session.inprocess =>
    /\ step # "done" => (prev_trial_result = "fail" => trial_result = "fail")
    /\ step = "between" => trial_result \in {"pass", "fail"}

\* A failure for the loop is one for evaluate_trial(), or a retry too many.
FailureIsTold ==
  step # "done" /\ trial_result = "fail" => prev_trial_result = "fail" \/ RetriedToFail

\* With --astf-flush-on-pass traffic is stopped between trials, though before a
\* final validation that follows a passed trial only at the head of the loop.
FlushOnPassQuiet ==
  session.inprocess /\ session.flush_on_pass =>
    /\ step = "begin" => ~traffic_running \/ Mode = "validation"
    /\ step = "pre_trial" => ~traffic_running

\* A trial that is promised a flushed device has one from its flush on.
Isolated ==
  step \in {"trial", "judge"} /\ session.pre_trial_cmd
    /\ \/ Mode = "validation"
       \/ prev_trial_result = "fail"
       \/ session.inprocess /\ session.flush_on_pass
    => conntrack = "clean"

\* Traffic that the session takes for stopped is stopped, if stop() never raises.
QuietServer ==
  step # "done" /\ ~MayFail("stop") /\ ~traffic_running => ~trex.running

\* Traffic the session takes for running runs, at the rate of the next trial
\* unless it will be stopped before.
AtRate ==
  session.inprocess =>
    /\ traffic_running => trex.running
    /\ traffic_running /\ step = "begin" => trex.rate = rate \/ Mode = "validation"
    /\ traffic_running /\ step \in {"pre_trial", "trial"} => trex.rate = rate
    /\ step = "judge" => trex.running /\ trex.rate = rate

TrexShape ==
  trex = [running |-> trex.running, rate |-> trex.rate,
          loaded |-> trex.loaded, drained |-> trex.drained]

TrafficInv ==
  /\ ResultsAgree
  /\ FailureIsTold
  /\ FlushOnPassQuiet
  /\ Isolated
  /\ TrexShape
  /\ QuietServer
  /\ OneWayOut => AtRate

SessionInv ==
  /\ LoopRuns
  /\ FirstTrialQuiet
  /\ ValidationQuiet
  /\ FailureQuiet
  /\ RecoveryQuiet

LEMMA SessionInitInv == SessionInit => SessionInv
BY DEF SessionInit, Init, SessionInv, LoopRuns, FirstTrialQuiet, ValidationQuiet,
       FailureQuiet, RecoveryQuiet

LEMMA SameMode ==
  ASSUME UNCHANGED searchVars
  PROVE  Mode' = Mode /\ outcome' = outcome
<1>1. /\ final_validation' = final_validation /\ do_sniff' = do_sniff
      /\ do_search' = do_search /\ do_warmup' = do_warmup
      /\ outcome' = outcome
  BY DEF searchVars, flags
<1>2. Mode' = Mode
  BY <1>1, Zenon DEF Mode
<1> QED
  BY <1>1, <1>2

LEMMA StopTrafficStops ==
  ASSUME NEW thenReset, StopTraffic(thenReset)
  PROVE  ~traffic_running'
BY DEF StopTraffic

LEMMA BeginTrialInv == SessionInv /\ BeginTrial => SessionInv'
<1> SUFFICES ASSUME SessionInv, BeginTrial
             PROVE  SessionInv'
  OBVIOUS
<1>1. /\ step = "begin" /\ step' = "pre_trial" /\ session' = session
      /\ UNCHANGED searchVars /\ UNCHANGED loopVars
  BY DEF BeginTrial
<1>2. Mode' = Mode /\ outcome' = outcome
  BY <1>1, SameMode
<1>3. CASE traffic_running /\ Mode = "validation"
  <2>1. ~traffic_running'
    BY <1>3, StopTrafficStops DEF BeginTrial
  <2> QED
    BY <1>1, <1>2, <2>1 DEF SessionInv, LoopRuns, FirstTrialQuiet, ValidationQuiet,
                            FailureQuiet, RecoveryQuiet
<1>4. CASE ~(traffic_running /\ Mode = "validation")
  <2>1. traffic_running' = traffic_running
    BY <1>4 DEF BeginTrial
  <2> QED
    BY <1>1, <1>2, <1>4, <2>1
       DEF SessionInv, LoopRuns, FirstTrialQuiet, ValidationQuiet, FailureQuiet,
           RecoveryQuiet, loopVars
<1> QED
  BY <1>3, <1>4

LEMMA PreTrialInv == SessionInv /\ PreTrial => SessionInv'
<1> SUFFICES ASSUME SessionInv, PreTrial
             PROVE  SessionInv'
  OBVIOUS
<1>1. step = "pre_trial" /\ session' = session /\ traffic_running' = traffic_running
  BY DEF PreTrial
<1>2. CASE Flush
  <2>1. /\ force_next_flush' = FALSE
        /\ first_trial' = first_trial
    BY <1>2 DEF Flush
  <2>2. CASE EndInError
    <3>1. step' = "done"
      BY <2>2 DEF EndInError
    <3> QED
      BY <2>1, <3>1 DEF SessionInv, LoopRuns, FirstTrialQuiet, ValidationQuiet,
                        FailureQuiet, RecoveryQuiet
  <2>3. CASE step' = "trial" /\ UNCHANGED searchVars
    <3>1. outcome' = outcome
      BY <2>3, SameMode
    <3> QED
      BY <1>1, <2>1, <2>3, <3>1
         DEF SessionInv, LoopRuns, FirstTrialQuiet, ValidationQuiet, FailureQuiet,
             RecoveryQuiet
  <2> QED
    BY <1>2, <2>2, <2>3 DEF Flush
<1>3. CASE /\ ~(session.pre_trial_cmd /\ ShouldFlush)
           /\ step' = "trial" /\ UNCHANGED searchVars /\ UNCHANGED loopVars
  <2>1. outcome' = outcome
    BY <1>3, SameMode
  <2>2. ~(session.pre_trial_cmd /\ force_next_flush)
    BY <1>3 DEF ShouldFlush
  <2> QED
    BY <1>1, <1>3, <2>1, <2>2
       DEF SessionInv, LoopRuns, FirstTrialQuiet, ValidationQuiet, FailureQuiet,
           RecoveryQuiet, loopVars
<1> QED
  BY <1>2, <1>3 DEF PreTrial

LEMMA RunTrialInv == SessionInv /\ RunTrial => SessionInv'
<1> SUFFICES ASSUME SessionInv, RunTrial
             PROVE  SessionInv'
  OBVIOUS
<1>1. step = "trial" /\ session' = session /\ UNCHANGED loopVars
  BY DEF RunTrial
<1>2. ~(session.pre_trial_cmd /\ force_next_flush)
  BY <1>1 DEF SessionInv, RecoveryQuiet
<1>3. \/ step' = "judge" /\ UNCHANGED searchVars
      \/ step' = "done"
  BY DEF RunTrial, SampleInProcess, EndInError
<1>4. step' = "judge" => outcome' = "searching"
  BY <1>1, <1>3, SameMode DEF SessionInv, LoopRuns
<1> QED
  BY <1>1, <1>2, <1>3, <1>4
     DEF SessionInv, LoopRuns, FirstTrialQuiet, ValidationQuiet, FailureQuiet,
         RecoveryQuiet, loopVars

\* A trial that failed, and after which the search goes on, counts as failed.
LEMMA FailCounts ==
  ASSUME NEW verdict, Trial(verdict), verdict = "fail", outcome' = "searching"
  PROVE  Failed(verdict)
<1>1. \A how \in {"finished", "quit", "error"} : ~Leave(how)
  BY DEF Leave
<1>2. ~Quit(verdict) /\ ~RepeatDone(verdict) /\ ~OneShotDone(verdict)
  BY <1>1 DEF Quit, RepeatDone, OneShotDone
<1>3. ~Retry(verdict)
  BY DEF Retry, RetryVerdicts
<1>4. /\ ~UpwardRestart(verdict) /\ ~ValidationPass(verdict) /\ ~WarmupPass(verdict)
      /\ ~SniffPass(verdict) /\ ~SearchPass(verdict)
  BY DEF UpwardRestart, ValidationPass, WarmupPass, SniffPass, SearchPass, Passed
<1> QED
  BY <1>2, <1>3, <1>4 DEF Trial, ValidationFail, TrialFail

LEMMA JudgeInv == SessionInv /\ Judge => SessionInv'
<1> SUFFICES ASSUME SessionInv, Judge
             PROVE  SessionInv'
  OBVIOUS
<1>1. /\ step = "judge" /\ session' = session /\ first_trial' = FALSE
      /\ step' = IF outcome' = "searching" THEN "between" ELSE "done"
  BY DEF Judge
<1>2. PICK verdict \in VerdictsOfSession :
        /\ Trial(verdict)
        /\ prev_trial_result' = verdict
        /\ trial_result' = IF Failed(verdict) THEN "fail" ELSE verdict
        /\ force_next_flush' = (force_next_flush \/ Collapse(verdict))
        /\ IF Collapse(verdict) THEN StopTraffic(FALSE)
           ELSE UNCHANGED <<trex, traffic_running>>
  BY DEF Judge
<1>3. LoopRuns' /\ FirstTrialQuiet' /\ ValidationQuiet'
  BY <1>1 DEF LoopRuns, FirstTrialQuiet, ValidationQuiet
<1>4. FailureQuiet'
  <2>1. step' = "between" /\ verdict = "fail" => Failed(verdict)
    BY <1>1, <1>2, FailCounts
  <2> QED
    BY <1>1, <1>2, <2>1 DEF FailureQuiet
<1>5. RecoveryQuiet'
  <2> SUFFICES ASSUME session.pre_trial_cmd, force_next_flush'
               PROVE  step' \in {"between", "done"} /\ ~traffic_running'
    BY <1>1 DEF RecoveryQuiet
  <2>1. ~force_next_flush
    BY <1>1 DEF SessionInv, RecoveryQuiet
  <2>2. Collapse(verdict)
    BY <1>2, <2>1
  <2>3. ~traffic_running'
    BY <1>2, <2>2, StopTrafficStops
  <2> QED
    BY <1>1, <2>3
<1> QED
  BY <1>3, <1>4, <1>5 DEF SessionInv

LEMMA BetweenInv == SessionInv /\ Between => SessionInv'
<1> SUFFICES ASSUME SessionInv, Between
             PROVE  SessionInv'
  OBVIOUS
<1>1. /\ step = "between" /\ step' = "begin" /\ session' = session
      /\ UNCHANGED searchVars /\ UNCHANGED loopVars
  BY DEF Between
<1>2. Mode' = Mode /\ outcome' = outcome
  BY <1>1, SameMode
<1>3. ~traffic_running => ~traffic_running'
  BY DEF Between
<1>4. traffic_running /\ trial_result = "fail" => ~traffic_running'
  BY StopTrafficStops DEF Between
<1>5. ~first_trial
  BY <1>1 DEF SessionInv, FirstTrialQuiet
<1> QED
  BY <1>1, <1>2, <1>3, <1>4, <1>5
     DEF SessionInv, LoopRuns, FirstTrialQuiet, ValidationQuiet, FailureQuiet,
         RecoveryQuiet, loopVars

LEMMA SessionInvariance == SessionSpec => []SessionInv
<1>1. ASSUME SessionInv, UNCHANGED sessionVars
      PROVE  SessionInv'
  <2>1. /\ UNCHANGED searchVars /\ UNCHANGED loopVars
        /\ step' = step /\ session' = session /\ traffic_running' = traffic_running
    BY <1>1 DEF sessionVars
  <2>2. Mode' = Mode /\ outcome' = outcome
    BY <2>1, SameMode
  <2> QED
    BY <1>1, <2>1, <2>2
       DEF SessionInv, LoopRuns, FirstTrialQuiet, ValidationQuiet, FailureQuiet,
           RecoveryQuiet, loopVars
<1>2. SessionInv /\ [SessionNext]_sessionVars => SessionInv'
  BY <1>1, BeginTrialInv, PreTrialInv, RunTrialInv, JudgeInv, BetweenInv
     DEF SessionNext
<1> QED
  BY <1>2, SessionInitInv, PTL DEF SessionSpec

-------------------------------------------------------------------------------
LEMMA SessionStepSearches ==
  SessionInv /\ [SessionNext]_sessionVars => [Next]_searchVars
<1> SUFFICES ASSUME SessionInv, [SessionNext]_sessionVars, ~(UNCHANGED searchVars)
             PROVE  Next
  OBVIOUS
<1>1. ASSUME EndInError, step # "done"
      PROVE  Next
  BY <1>1 DEF EndInError, Next, SessionInv, LoopRuns
<1>2. ~BeginTrial /\ ~Between /\ ~(UNCHANGED sessionVars)
  BY DEF BeginTrial, Between, sessionVars
<1>3. CASE PreTrial
  BY <1>1, <1>3 DEF PreTrial, Flush
<1>4. CASE RunTrial
  BY <1>1, <1>4 DEF RunTrial, SampleInProcess
<1>5. CASE Judge
  <2>1. VerdictsOfSession \subseteq VerdictsOf(Mode)
    BY DEF VerdictsOfSession, VerdictsOf, Verdicts
  <2>2. /\ outcome = "searching" /\ UNCHANGED args
        /\ \E verdict \in VerdictsOfSession : Trial(verdict)
    BY <1>5 DEF Judge
  <2> QED
    BY <2>1, <2>2 DEF Next
<1> QED
  BY <1>2, <1>3, <1>4, <1>5 DEF SessionNext

\* Around the trials, and whatever the TRex client and the pre-trial command
\* do, the session runs the search of RateSearch: every property proved of the
\* search holds for it.
THEOREM SessionImplementsSearch == SessionSpec => SessionSearches
<1>1. SessionInit => Init
  BY DEF SessionInit
<1> QED
  BY <1>1, SessionStepSearches, SessionInvariance, PTL DEF SessionSpec, Spec, SessionSearches

-------------------------------------------------------------------------------
(* What a trial of the persistent client measures, and on which device.    *)

LEMMA TrafficInitInv == SessionInit => TrafficInv
BY DEF SessionInit, TrafficInv, ResultsAgree, FailureIsTold, FlushOnPassQuiet, Isolated,
       TrexShape, QuietServer, AtRate

\* However the calls that stop the traffic end, the server's state is one.
LEMMA StopKeepsShape ==
  ASSUME TrexShape, NEW thenReset, StopTraffic(thenReset)
  PROVE  TrexShape'
BY DEF TrexShape, StopTraffic, StopResults, Stopped

LEMMA StopQuiets ==
  ASSUME TrexShape, session' = session, NEW thenReset, StopTraffic(thenReset)
  PROVE  QuietServer'
<1> SUFFICES ASSUME "stop" \notin session.faults
             PROVE  ~trex'.running
  BY DEF QuietServer, MayFail
<1>1. trex' \in StopResults(thenReset)
  BY DEF StopTraffic
<1>2. ~Stopped(trex).running
  BY DEF Stopped, TrexShape
<1>3. /\ ~[Stopped(trex) EXCEPT !.drained = TRUE, !.loaded = TRUE].running
      /\ ~[Stopped(trex) EXCEPT !.drained = TRUE, !.loaded = FALSE].running
  BY DEF Stopped, TrexShape
<1> QED
  BY <1>1, <1>2, <1>3 DEF StopResults

LEMMA BeginTrialTraffic == TrafficInv /\ BeginTrial => TrafficInv'
<1> SUFFICES ASSUME TrafficInv, BeginTrial
             PROVE  TrafficInv'
  OBVIOUS
<1>1. /\ step = "begin" /\ step' = "pre_trial" /\ session' = session
      /\ UNCHANGED searchVars /\ UNCHANGED loopVars
  BY DEF BeginTrial
<1>2. Mode' = Mode /\ rate' = rate
  BY <1>1, SameMode DEF searchVars, rates
<1>3. ResultsAgree' /\ FailureIsTold' /\ Isolated'
  BY <1>1 DEF TrafficInv, ResultsAgree, FailureIsTold, RetriedToFail, Isolated, loopVars
<1>4. CASE traffic_running /\ Mode = "validation"
  <2>1. StopTraffic(TRUE)
    BY <1>4 DEF BeginTrial
  <2>2. ~traffic_running' /\ TrexShape' /\ QuietServer'
    BY <1>1, <2>1, StopTrafficStops, StopKeepsShape, StopQuiets DEF TrafficInv
  <2> QED
    BY <1>1, <1>3, <2>2 DEF TrafficInv, FlushOnPassQuiet, AtRate
<1>5. CASE ~(traffic_running /\ Mode = "validation")
  <2>1. trex' = trex /\ traffic_running' = traffic_running
    BY <1>5 DEF BeginTrial
  <2> QED
    BY <1>1, <1>2, <1>3, <1>5, <2>1
       DEF TrafficInv, FlushOnPassQuiet, TrexShape, QuietServer, MayFail, AtRate, OneWayOut
<1> QED
  BY <1>4, <1>5

LEMMA PreTrialTraffic == TrafficInv /\ PreTrial => TrafficInv'
<1> SUFFICES ASSUME TrafficInv, PreTrial
             PROVE  TrafficInv'
  OBVIOUS
<1>1. /\ step = "pre_trial" /\ session' = session
      /\ traffic_running' = traffic_running /\ trex' = trex
      /\ prev_trial_result' = prev_trial_result /\ trial_result' = trial_result
  BY DEF PreTrial, Flush, loopVars
<1>2. \/ step' = "trial" /\ UNCHANGED searchVars
      \/ step' = "done"
  BY DEF PreTrial, Flush, EndInError
<1>3. step' = "trial" => Mode' = Mode /\ rate' = rate
  BY <1>2, SameMode DEF searchVars, rates
<1>4. Isolated'
  <2> SUFFICES ASSUME step' = "trial", session.pre_trial_cmd,
                      \/ Mode = "validation"
                      \/ prev_trial_result = "fail"
                      \/ session.inprocess /\ session.flush_on_pass
               PROVE  conntrack' = "clean"
    BY <1>1, <1>2, <1>3 DEF Isolated
  <2>1. ShouldFlush
    BY <1>1 DEF ShouldFlush, FlushOnPassStopped, TrafficInv, FlushOnPassQuiet
  <2>2. Flush
    BY <2>1 DEF PreTrial
  <2>3. ~EndInError
    BY DEF EndInError
  <2> QED
    BY <2>2, <2>3 DEF Flush
<1> QED
  BY <1>1, <1>2, <1>3, <1>4
     DEF TrafficInv, ResultsAgree, FailureIsTold, RetriedToFail, FlushOnPassQuiet, TrexShape,
         QuietServer, MayFail, AtRate, OneWayOut

\* The server behind a start.
LEMMA StartedShape ==
  ASSUME TrexShape
  PROVE  [trex EXCEPT !.running = TRUE, !.rate = rate, !.drained = FALSE]
           = [running |-> TRUE, rate |-> rate, loaded |-> trex.loaded, drained |-> FALSE]
<1>1. ASSUME NEW yes, NEW no, NEW a, NEW b, NEW c,
             a = [trex EXCEPT !.running = yes],
             b = [a EXCEPT !.rate = rate],
             c = [b EXCEPT !.drained = no]
      PROVE  c = [running |-> yes, rate |-> rate, loaded |-> trex.loaded, drained |-> no]
  <2>1. a = [running |-> yes, rate |-> trex.rate, loaded |-> trex.loaded,
             drained |-> trex.drained]
    BY <1>1 DEF TrexShape
  <2>2. b = [running |-> yes, rate |-> rate, loaded |-> trex.loaded,
             drained |-> trex.drained]
    BY <1>1, <2>1
  <2> QED
    BY <1>1, <2>2
<1> QED
  BY <1>1

LEMMA RunTrialTraffic == TrafficInv /\ RunTrial => TrafficInv'
<1> SUFFICES ASSUME TrafficInv, RunTrial
             PROVE  TrafficInv'
  OBVIOUS
<1>1. step = "trial" /\ session' = session /\ UNCHANGED loopVars /\ conntrack' = conntrack
  BY DEF RunTrial
<1>2. \/ step' = "judge" /\ UNCHANGED searchVars
      \/ step' = "done"
  BY DEF RunTrial, SampleInProcess, EndInError
<1>3. step' = "judge" => Mode' = Mode /\ rate' = rate
  BY <1>2, SameMode DEF searchVars, rates
<1>4. ResultsAgree' /\ FailureIsTold' /\ FlushOnPassQuiet' /\ Isolated'
  BY <1>1, <1>2, <1>3
     DEF TrafficInv, ResultsAgree, FailureIsTold, RetriedToFail, FlushOnPassQuiet, Isolated,
         loopVars
<1> DEFINE started == [trex EXCEPT !.running = TRUE, !.rate = rate, !.drained = FALSE]
<1>5. /\ TrexShape
      /\ started = [running |-> TRUE, rate |-> rate,
                    loaded |-> trex.loaded, drained |-> FALSE]
  BY StartedShape DEF TrafficInv
<1> HIDE DEF started
<1>6. \/ UNCHANGED <<trex, traffic_running>>
      \/ /\ trex' = IF traffic_running THEN trex ELSE started
         /\ session.inprocess
  BY DEF RunTrial, SampleInProcess, started
<1>7. TrexShape'
  BY <1>5, <1>6 DEF TrexShape
<1>8. ASSUME OneWayOut, session.inprocess
      PROVE  /\ traffic_running' => trex'.running
             /\ step' = "judge" => trex'.running /\ trex'.rate = rate
  <2>1. traffic_running => trex.running /\ trex.rate = rate
    BY <1>1, <1>8 DEF TrafficInv, AtRate
  <2>2. started.running /\ started.rate = rate
    BY <1>5
  <2>3. step' = "judge" => trex' = IF traffic_running THEN trex ELSE started
    BY <1>8 DEF RunTrial, SampleInProcess, EndInError, started
  <2>4. traffic_running' => \/ trex' = trex /\ traffic_running
                            \/ trex' = IF traffic_running THEN trex ELSE started
    BY <1>8 DEF RunTrial, SampleInProcess, started
  <2> QED
    BY <2>1, <2>2, <2>3, <2>4
<1>9. OneWayOut' => AtRate'
  BY <1>1, <1>2, <1>3, <1>8 DEF AtRate, OneWayOut
<1>10. QuietServer'
  <2>1. step' # "done" /\ ~traffic_running' => trex' = trex /\ ~traffic_running
    BY DEF RunTrial, SampleInProcess, EndInError
  <2> QED
    BY <1>1, <2>1 DEF TrafficInv, QuietServer, MayFail
<1> QED
  BY <1>4, <1>7, <1>9, <1>10 DEF TrafficInv

\* A verdict to quit ends the search.
LEMMA QuitEnds ==
  ASSUME Trial("quit")
  PROVE  outcome' # "searching"
<1>1. Quit("quit")
  BY DEF Trial, RepeatDone, OneShotDone, Retry, RetryVerdicts, ValidationFail, TrialFail,
         Failed, UpwardRestart, ValidationPass, WarmupPass, SniffPass, SearchPass, Passed
<1> QED
  BY <1>1 DEF Quit, Leave

LEMMA JudgeTraffic == TrafficInv /\ Judge => TrafficInv'
<1> SUFFICES ASSUME TrafficInv, Judge
             PROVE  TrafficInv'
  OBVIOUS
<1>1. /\ step = "judge" /\ session' = session
      /\ step' = IF outcome' = "searching" THEN "between" ELSE "done"
  BY DEF Judge
<1>2. PICK verdict \in VerdictsOfSession :
        /\ Trial(verdict)
        /\ prev_trial_result' = verdict
        /\ trial_result' = IF Failed(verdict) THEN "fail" ELSE verdict
        /\ IF Collapse(verdict) THEN StopTraffic(FALSE)
           ELSE UNCHANGED <<trex, traffic_running>>
  BY DEF Judge
<1>3. ResultsAgree'
  <2> SUFFICES ASSUME session.inprocess, step' = "between"
               PROVE  /\ prev_trial_result' = "fail" => trial_result' = "fail"
                      /\ trial_result' \in {"pass", "fail"}
    BY <1>1 DEF ResultsAgree
  <2>1. outcome' = "searching"
    BY <1>1
  <2>2. verdict \in {"pass", "fail", "quit"}
    BY DEF VerdictsOfSession, Verdicts, RetryVerdicts
  <2>3. verdict # "quit"
    BY <1>2, <2>1, QuitEnds
  <2>4. verdict = "fail" => Failed(verdict)
    BY <1>2, <2>1, FailCounts
  <2>5. Failed(verdict) => verdict = "fail"
    BY <2>2 DEF Failed
  <2> QED
    BY <1>2, <2>2, <2>3, <2>4, <2>5
<1>4. FlushOnPassQuiet' /\ Isolated'
  BY <1>1 DEF FlushOnPassQuiet, Isolated
<1>7. FailureIsTold'
  BY <1>2 DEF FailureIsTold, RetriedToFail, Failed
<1>8. QuietServer'
  <2>1. CASE Collapse(verdict)
    BY <1>1, <1>2, <2>1, StopQuiets DEF TrafficInv
  <2>2. CASE ~Collapse(verdict)
    BY <1>1, <1>2, <2>2 DEF TrafficInv, QuietServer, MayFail
  <2> QED
    BY <2>1, <2>2
<1>5. TrexShape'
  BY <1>2, StopKeepsShape DEF TrafficInv, TrexShape
<1>6. OneWayOut' => AtRate'
  <2>1. traffic_running' => traffic_running /\ trex' = trex
    BY <1>2, StopTrafficStops
  <2> QED
    BY <1>1, <2>1 DEF TrafficInv, AtRate, OneWayOut
<1> QED
  BY <1>3, <1>4, <1>5, <1>6, <1>7, <1>8 DEF TrafficInv

LEMMA BetweenTraffic == TrafficInv /\ Between => TrafficInv'
<1> SUFFICES ASSUME TrafficInv, Between
             PROVE  TrafficInv'
  OBVIOUS
<1>1. /\ step = "between" /\ step' = "begin" /\ session' = session
      /\ UNCHANGED searchVars /\ UNCHANGED loopVars
  BY DEF Between
<1>2. Mode' = Mode /\ rate' = rate
  BY <1>1, SameMode DEF searchVars, rates
<1>3. ResultsAgree' /\ FailureIsTold' /\ Isolated'
  BY <1>1 DEF TrafficInv, ResultsAgree, FailureIsTold, RetriedToFail, Isolated, loopVars
<1>4. final_validation => Mode = "validation"
  BY DEF Mode
<1> DEFINE updated == [trex EXCEPT !.rate = rate]
<1>5. updated = [running |-> trex.running, rate |-> rate,
                 loaded |-> trex.loaded, drained |-> trex.drained]
  BY DEF TrafficInv, TrexShape
<1> HIDE DEF updated
<1>6. TrexShape'
  <2>1. \/ StopTraffic(TRUE)
        \/ trex' = updated
        \/ trex' = Stopped(trex)
        \/ trex' = trex
    BY DEF Between, FallBackToStop, updated
  <2> QED
    BY <1>5, <2>1, StopKeepsShape DEF TrafficInv, TrexShape, Stopped
<1>7. ASSUME session.inprocess, session.flush_on_pass
      PROVE  ~traffic_running' \/ Mode = "validation"
  BY <1>1, <1>4, <1>7, StopTrafficStops DEF Between, TrafficInv, ResultsAgree
<1>8. FlushOnPassQuiet'
  BY <1>1, <1>2, <1>7 DEF FlushOnPassQuiet
<1>9. ASSUME session.inprocess, OneWayOut, traffic_running'
      PROVE  trex'.running /\ (trex'.rate = rate \/ Mode = "validation")
  <2>1. traffic_running /\ trex.running
    <3>1. traffic_running
      BY <1>9 DEF Between
    <3> QED
      BY <1>9, <3>1 DEF TrafficInv, AtRate
  <2>2. trial_result = "pass"
    BY <1>1, <1>9, <2>1, StopTrafficStops DEF TrafficInv, ResultsAgree, Between
  <2>3. CASE final_validation
    <3>1. trex' = trex
      BY <2>2, <2>3 DEF Between
    <3> QED
      BY <1>4, <2>1, <2>3, <3>1
  <2>4. CASE ~final_validation
    <3>1. ~session.flush_on_pass
      BY <1>9, <2>1, <2>2, <2>4, StopTrafficStops DEF Between
    <3>2. trex' = updated \/ (MayFail("update") /\ FallBackToStop)
      BY <2>1, <2>2, <2>4, <3>1 DEF Between, updated
    <3>3. ~(MayFail("update") /\ FallBackToStop)
      BY <1>9 DEF FallBackToStop, MayFail, OneWayOut
    <3> QED
      BY <1>5, <2>1, <3>2, <3>3
  <2> QED
    BY <2>3, <2>4
<1>10. QuietServer'
  <2>1. \/ StopTraffic(TRUE)
        \/ trex' = updated /\ traffic_running' = traffic_running /\ traffic_running
        \/ trex' = Stopped(trex)
        \/ MayFail("stop")
        \/ trex' = trex /\ traffic_running' = traffic_running
    BY DEF Between, FallBackToStop, updated
  <2>2. ~Stopped(trex).running
    BY DEF Stopped, TrafficInv, TrexShape
  <2> QED
    BY <1>1, <2>1, <2>2, StopQuiets DEF TrafficInv, QuietServer, MayFail
<1> QED
  BY <1>1, <1>2, <1>3, <1>6, <1>8, <1>9, <1>10 DEF TrafficInv, AtRate, OneWayOut

LEMMA TrafficInvariance == SessionSpec => []TrafficInv
<1>1. ASSUME TrafficInv, UNCHANGED sessionVars
      PROVE  TrafficInv'
  <2>1. /\ UNCHANGED searchVars /\ UNCHANGED loopVars
        /\ UNCHANGED <<session, step, traffic_running, trex, conntrack>>
    BY <1>1 DEF sessionVars
  <2>2. Mode' = Mode /\ rate' = rate
    BY <2>1, SameMode DEF searchVars, rates
  <2> QED
    BY <1>1, <2>1, <2>2
       DEF TrafficInv, ResultsAgree, FailureIsTold, RetriedToFail, FlushOnPassQuiet,
           Isolated, TrexShape, QuietServer, MayFail, AtRate, OneWayOut, loopVars
<1>2. TrafficInv /\ [SessionNext]_sessionVars => TrafficInv'
  BY <1>1, BeginTrialTraffic, PreTrialTraffic, RunTrialTraffic, JudgeTraffic,
     BetweenTraffic DEF SessionNext
<1> QED
  BY <1>2, TrafficInitInv, PTL DEF SessionSpec

\* What a trial of the persistent client measured is traffic at the rate the
\* search recorded for it, if not both update() and stop() raise.
THEOREM TrialsMeasureTheirRate == SessionSpec => []MeasuredAtRate
<1>1. TrafficInv => MeasuredAtRate
  BY DEF TrafficInv, AtRate, MeasuredAtRate
<1> QED
  BY <1>1, TrafficInvariance, PTL

\* Final validations, trials after a failure and, in process with
\* --astf-flush-on-pass, all trials are run on a flushed device, whatever calls
\* of the client raise.  The trial after one that the retry limit made fail is
\* the exception: the program does not flush the device before it.
THEOREM TrialsAreIsolated == SessionSpec => []TrialIsIsolated
<1>1. TrafficInv => TrialIsIsolated
  BY DEF TrafficInv, FailureIsTold, Isolated, TrialIsIsolated
<1> QED
  BY <1>1, TrafficInvariance, PTL

\* Whenever the pre-trial command flushes the device under test, TRex generates
\* no traffic, unless a stop() of the session may raise.
THEOREM FlushesAreQuiet == SessionSpec => FlushedWhenQuiet
<1>1. SessionInv /\ TrafficInv /\ [SessionNext]_sessionVars =>
        [FlushesTheDevice => ~trex.running \/ MayFail("stop")]_sessionVars
  <2> SUFFICES ASSUME SessionInv, TrafficInv, SessionNext, FlushesTheDevice,
                      ~MayFail("stop")
               PROVE  ~trex.running
    OBVIOUS
  <2>1. PreTrial
    BY DEF FlushesTheDevice, SessionNext, BeginTrial, RunTrial, Judge, Between
  <2>2. step = "pre_trial" /\ ShouldFlush /\ session.pre_trial_cmd
    BY <2>1 DEF PreTrial, Flush, FlushesTheDevice
  <2>3. ~traffic_running
    BY <2>2 DEF ShouldFlush, FlushOnPassStopped, SessionInv, FirstTrialQuiet,
                ValidationQuiet, FailureQuiet, RecoveryQuiet
  <2> QED
    BY <2>2, <2>3 DEF TrafficInv, QuietServer
<1> QED
  BY <1>1, SessionInvariance, TrafficInvariance, PTL DEF SessionSpec, FlushedWhenQuiet

-------------------------------------------------------------------------------
(* The log, for every set of readers and any number of messages.  That no  *)
(* message is lost or overtaken is inductive by itself; that the file is   *)
(* complete needs to know who can still log once the worker was told to    *)
(* stop, which Quiet says.                                                 *)

\* What the worker may hold where.
Holding == worker # "print" => entry = <<>>

\* The worker ends only after it was told to; unless there was an error, that
\* is when nobody logs any more, and then it leaves nothing queued.
Quiet ==
  /\ worker = "ended" => thread_exit
  /\ thread_exit /\ ~in_error => main \in {"drain", "ended"}
  /\ main \notin {"trial", "cleanup"} /\ ~in_error => reading = {}
  /\ main = "cleanup" => in_error
  /\ worker = "ended" /\ ~in_error => bs_logger_queue = <<>>
  /\ written # <<>> => main = "ended" /\ worker = "ended"

LoggerInv == LogTypeOK /\ NothingReordered /\ Holding /\ Quiet /\ FileIsComplete

LEMMA InitInv == LogInit => LoggerInv
<1> SUFFICES ASSUME LogInit
             PROVE  LoggerInv
  OBVIOUS
<1>1. <<>> \in Seq(Messages) /\ <<>> \o <<>> = <<>>
  BY EmptySeq, ConcatEmptySeq
<1>2. LogTypeOK
  BY <1>1, Zenon DEF LogInit, LogTypeOK, NoEntry
<1>3. NothingReordered
  BY <1>1, Zenon DEF LogInit, NothingReordered, NoEntry
<1>4. Holding /\ Quiet /\ FileIsComplete
  BY Zenon DEF LogInit, Holding, Quiet, FileIsComplete, NoEntry
<1> QED
  BY <1>2, <1>3, <1>4 DEF LoggerInv

-------------------------------------------------------------------------------
(* Facts about sequences.                                                  *)

LEMMA AppendToConcat ==
  ASSUME NEW S, NEW s \in Seq(S), NEW t \in Seq(S), NEW u \in Seq(S), NEW elt \in S
  PROVE  s \o t \o Append(u, elt) = Append(s \o t \o u, elt)
<1>1. s \o t \in Seq(S) /\ s \o t \o u \in Seq(S) /\ <<elt>> \in Seq(S)
  BY ConcatProperties
<1>2. Append(u, elt) = u \o <<elt>> /\ Append(s \o t \o u, elt) = s \o t \o u \o <<elt>>
  BY <1>1, AppendIsConcat
<1> QED
  BY <1>1, <1>2, ConcatAssociative

LEMMA HeadAndTail ==
  ASSUME NEW S, NEW s \in Seq(S), s # <<>>
  PROVE  <<Head(s)>> \in Seq(S) /\ Tail(s) \in Seq(S) /\ <<Head(s)>> \o Tail(s) = s
<1>1. /\ Head(s) \in S /\ Tail(s) \in Seq(S) /\ Len(Tail(s)) = Len(s) - 1
      /\ \A i \in 1..Len(Tail(s)) : Tail(s)[i] = s[i + 1]
  BY HeadTailProperties
<1>2. <<Head(s)>> \in Seq(S) /\ Len(<<Head(s)>>) = 1 /\ <<Head(s)>>[1] = Head(s)
  BY <1>1
<1>3. Len(s) \in Nat \ {0} /\ Head(s) = s[1]
  BY EmptySeq
<1> DEFINE joined == <<Head(s)>> \o Tail(s)
<1>4. /\ joined \in Seq(S) /\ Len(joined) = Len(s)
      /\ \A i \in 1..Len(s) :
           joined[i] = IF i <= 1 THEN <<Head(s)>>[i] ELSE Tail(s)[i - 1]
  <2>1. Len(<<Head(s)>>) + Len(Tail(s)) = Len(s)
    BY <1>1, <1>2, <1>3
  <2> QED
    BY <1>1, <1>2, <2>1, ConcatProperties
<1>5. \A i \in 1..Len(s) : joined[i] = s[i]
  BY <1>1, <1>2, <1>3, <1>4
<1>6. joined = s
  BY <1>4, <1>5, SeqEqual
<1> QED
  BY <1>1, <1>2, <1>6

-------------------------------------------------------------------------------
(* Logging.                                                                *)

LEMMA LogInv ==
  ASSUME LoggerInv, NEW thread \in Threads, bs_logger(thread),
         thread = "main" => main \in {"setup", "search", "trial", "finally"},
         thread # "main" => thread \in reading
  PROVE  LoggerInv'
<1> DEFINE msg == <<thread, Len(sent)>>
<1>1. msg \in Messages
  BY LenProperties DEF LoggerInv, LogTypeOK, Messages
<1>2. /\ bs_logger_queue' = Append(bs_logger_queue, msg)
      /\ sent' = Append(sent, msg)
      /\ UNCHANGED <<log, workerVars, thread_exit, mainVars, reading>>
  BY DEF bs_logger
<1> HIDE DEF msg
<1>3. LogTypeOK'
  <2>1. bs_logger_queue' \in Seq(Messages) /\ sent' \in Seq(Messages)
    BY <1>1, <1>2, AppendProperties DEF LoggerInv, LogTypeOK
  <2> QED
    BY <1>2, <2>1, Zenon DEF LoggerInv, LogTypeOK, workerVars, mainVars
<1>4. NothingReordered'
  <2>1. log \o entry \o Append(bs_logger_queue, msg) = Append(sent, msg)
    <3>1. /\ log \in Seq(Messages) /\ entry \in Seq(Messages)
          /\ bs_logger_queue \in Seq(Messages) /\ log \o entry \o bs_logger_queue = sent
      BY Zenon DEF LoggerInv, LogTypeOK, NothingReordered
    <3>2. log \o entry \o Append(bs_logger_queue, msg)
            = Append(log \o entry \o bs_logger_queue, msg)
      BY <1>1, <3>1, AppendToConcat
    <3> QED
      BY <3>1, <3>2, Zenon
  <2> QED
    BY <1>2, <2>1, Zenon DEF NothingReordered, workerVars
<1>5. main \notin {"drain", "ended"} \/ in_error
  BY Zenon DEF LoggerInv, Quiet
<1>6. Quiet'
  BY <1>2, <1>5, Zenon DEF LoggerInv, Quiet, workerVars, mainVars
<1>7. Holding' /\ FileIsComplete'
  BY <1>2, <1>5, Zenon DEF LoggerInv, Quiet, Holding, FileIsComplete, workerVars, mainVars
<1> QED
  BY <1>3, <1>4, <1>6, <1>7 DEF LoggerInv

-------------------------------------------------------------------------------
(* The worker.                                                             *)

LEMMA LoopAgainInv == LoggerInv /\ LoopAgain => LoggerInv'
<1> SUFFICES ASSUME LoggerInv, LoopAgain
             PROVE  LoggerInv'
  OBVIOUS
<1>1. LogTypeOK' /\ NothingReordered' /\ Holding' /\ FileIsComplete'
  BY Zenon DEF LoggerInv, LoopAgain, LogTypeOK, NothingReordered, Holding, FileIsComplete, mainVars
<1>2. Quiet'
  BY Zenon DEF LoggerInv, LoopAgain, Quiet, mainVars
<1> QED
  BY <1>1, <1>2 DEF LoggerInv

LEMMA PopLeftInv == LoggerInv /\ PopLeft => LoggerInv'
<1> SUFFICES ASSUME LoggerInv, PopLeft
             PROVE  LoggerInv'
  OBVIOUS
<1>1. /\ <<Head(bs_logger_queue)>> \in Seq(Messages)
      /\ Tail(bs_logger_queue) \in Seq(Messages)
      /\ <<Head(bs_logger_queue)>> \o Tail(bs_logger_queue) = bs_logger_queue
  BY HeadAndTail, Zenon DEF LoggerInv, LogTypeOK, PopLeft
<1>2. LogTypeOK'
  BY <1>1, Zenon DEF LoggerInv, PopLeft, LogTypeOK, mainVars
<1>3. NothingReordered'
  <2>1. log \in Seq(Messages) /\ log \o <<>> = log
    BY ConcatEmptySeq DEF LoggerInv, LogTypeOK
  <2>2. entry = <<>>
    BY Zenon DEF LoggerInv, Holding, PopLeft
  <2>3. log \o bs_logger_queue = sent
    BY <2>1, <2>2, Zenon DEF LoggerInv, NothingReordered
  <2>4. log \o <<Head(bs_logger_queue)>> \o Tail(bs_logger_queue) = sent
    BY <1>1, <2>1, <2>3, ConcatAssociative
  <2> QED
    BY <2>4, Zenon DEF PopLeft, NothingReordered
<1>4. Holding' /\ FileIsComplete' /\ Quiet'
  BY Zenon DEF LoggerInv, PopLeft, Holding, FileIsComplete, Quiet, mainVars
<1> QED
  BY <1>2, <1>3, <1>4 DEF LoggerInv

LEMMA NothingQueuedInv == LoggerInv /\ NothingQueued => LoggerInv'
<1> SUFFICES ASSUME LoggerInv, NothingQueued
             PROVE  LoggerInv'
  OBVIOUS
<1>1. LogTypeOK' /\ NothingReordered' /\ FileIsComplete'
  BY Zenon DEF LoggerInv, NothingQueued, LogTypeOK, NothingReordered, FileIsComplete, mainVars
<1>2. Holding' /\ Quiet'
  BY Zenon DEF LoggerInv, NothingQueued, Holding, Quiet, mainVars
<1> QED
  BY <1>1, <1>2 DEF LoggerInv

LEMMA PrintEntryInv == LoggerInv /\ PrintEntry => LoggerInv'
<1> SUFFICES ASSUME LoggerInv, PrintEntry
             PROVE  LoggerInv'
  OBVIOUS
<1>1. log \o entry \in Seq(Messages) /\ <<>> \in Seq(Messages)
  BY ConcatProperties, EmptySeq DEF LoggerInv, LogTypeOK
<1>2. LogTypeOK'
  BY <1>1, Zenon DEF LoggerInv, PrintEntry, LogTypeOK, NoEntry, mainVars
<1>3. NothingReordered'
  <2>1. log \o entry \o <<>> = log \o entry
    BY <1>1, ConcatEmptySeq
  <2> QED
    BY <2>1, Zenon DEF LoggerInv, PrintEntry, NothingReordered, NoEntry
<1>4. Holding' /\ FileIsComplete' /\ Quiet'
  BY Zenon DEF LoggerInv, PrintEntry, Holding, FileIsComplete, Quiet, NoEntry, mainVars
<1> QED
  BY <1>2, <1>3, <1>4 DEF LoggerInv

-------------------------------------------------------------------------------
(* main().                                                                 *)

LEMMA NothingMoved ==
  ASSUME LoggerInv, UNCHANGED <<bs_logger_queue, log, sent, workerVars>>
  PROVE  NothingReordered' /\ Holding'
BY Zenon DEF LoggerInv, NothingReordered, Holding, workerVars

LEMMA MovesInv ==
  ASSUME LoggerInv,
         EnterTry \/ StartTrial \/ EndTrial \/ CleanupReturns \/ LeaveTry \/ WriteFails
  PROVE  LoggerInv'
<1>1. NothingReordered' /\ Holding'
  BY NothingMoved, Zenon DEF EnterTry, StartTrial, EndTrial, CleanupReturns, LeaveTry,
     WriteFails, MainMoves
<1>2. LogTypeOK'
  BY DEF LoggerInv, LogTypeOK, EnterTry, StartTrial, EndTrial, CleanupReturns, LeaveTry,
     WriteFails, MainMoves, workerVars
<1>3. Quiet'
  BY DEF LoggerInv, Quiet, EnterTry, StartTrial, EndTrial, CleanupReturns, LeaveTry,
     WriteFails, MainMoves, workerVars
<1>4. FileIsComplete'
  BY DEF LoggerInv, FileIsComplete, EnterTry, StartTrial, EndTrial, CleanupReturns, LeaveTry,
     WriteFails, MainMoves
<1> QED
  BY <1>1, <1>2, <1>3, <1>4 DEF LoggerInv

LEMMA CleanupInv ==
  ASSUME LoggerInv, SetupError \/ ErrorInTrial \/ Drain
  PROVE  LoggerInv'
<1>1. NothingReordered' /\ Holding'
  BY NothingMoved, Zenon DEF SetupError, ErrorInTrial, Drain, CleanupStarts, MainMoves
<1>2. LogTypeOK'
  BY DEF LoggerInv, LogTypeOK, SetupError, ErrorInTrial, Drain, CleanupStarts, MainMoves, workerVars
<1>3. Quiet'
  BY DEF LoggerInv, Quiet, SetupError, ErrorInTrial, Drain, CleanupStarts, MainMoves, workerVars
<1>4. FileIsComplete'
  BY DEF LoggerInv, FileIsComplete, SetupError, ErrorInTrial, Drain, CleanupStarts, MainMoves
<1> QED
  BY <1>1, <1>2, <1>3, <1>4 DEF LoggerInv

LEMMA WriteInv == LoggerInv /\ Write => LoggerInv'
<1> SUFFICES ASSUME LoggerInv, Write
             PROVE  LoggerInv'
  OBVIOUS
<1>1. NothingReordered' /\ Holding'
  BY NothingMoved, Zenon DEF Write
<1>2. LogTypeOK' /\ Quiet'
  BY Zenon DEF LoggerInv, LogTypeOK, Quiet, Write, workerVars
<1>3. ~in_error => log = sent
  <2> SUFFICES ASSUME ~in_error
               PROVE  log = sent
    OBVIOUS
  <2>1. bs_logger_queue = <<>> /\ entry = <<>>
    BY Zenon DEF LoggerInv, Quiet, Holding, Write
  <2>2. log \o <<>> = log
    BY ConcatEmptySeq DEF LoggerInv, LogTypeOK
  <2> QED
    BY <2>1, <2>2, Zenon DEF LoggerInv, NothingReordered
<1>4. FileIsComplete'
  BY <1>3, Zenon DEF FileIsComplete, Write
<1> QED
  BY <1>1, <1>2, <1>4 DEF LoggerInv

LEMMA ReaderEndsInv == ASSUME LoggerInv, NEW r \in Readers, ReaderEnds(r) PROVE LoggerInv'
<1>1. NothingReordered' /\ Holding'
  BY NothingMoved, Zenon DEF ReaderEnds
<1>2. LogTypeOK' /\ Quiet' /\ FileIsComplete'
  BY DEF LoggerInv, LogTypeOK, Quiet, FileIsComplete, ReaderEnds, workerVars, mainVars
<1> QED
  BY <1>1, <1>2 DEF LoggerInv

-------------------------------------------------------------------------------
(* The theorems.                                                           *)

LEMMA NextInv == LoggerInv /\ [LogNext]_logVars => LoggerInv'
<1> SUFFICES ASSUME LoggerInv, [LogNext]_logVars
             PROVE  LoggerInv'
  OBVIOUS
<1>1. CASE MainLogs
  BY <1>1, LogInv, Zenon DEF MainLogs, Threads
<1>2. CASE \E r \in Readers : ReaderLogs(r)
  BY <1>2, LogInv, LoggerAssumption, Zenon DEF ReaderLogs, Threads
<1>3. CASE WorkerStep
  BY <1>3, LoopAgainInv, PopLeftInv, NothingQueuedInv, PrintEntryInv DEF WorkerStep
<1>4. CASE MainStep
  BY <1>4, MovesInv, CleanupInv, WriteInv DEF MainStep
<1>5. CASE \E r \in Readers : ReaderEnds(r)
  BY <1>5, ReaderEndsInv
<1>6. CASE UNCHANGED logVars
  BY <1>6, Zenon DEF LoggerInv, LogTypeOK, NothingReordered, Holding, Quiet, FileIsComplete, logVars,
     workerVars, mainVars
<1> QED
  BY <1>1, <1>2, <1>3, <1>4, <1>5, <1>6 DEF LogNext

LEMMA InvHolds == LogSpec => []LoggerInv
BY InitInv, NextInv, PTL DEF LogSpec

\* Whatever the threads do, a message that was logged is not lost and not
\* overtaken on its way to the file.
THEOREM LogKeepsOrder == LogSpec => []NothingReordered
<1>1. LoggerInv => NothingReordered
  BY DEF LoggerInv
<1> QED
  BY <1>1, InvHolds, PTL

\* The file of a search without an error holds all messages.
THEOREM FilesAreComplete == LogSpec => []FileIsComplete
<1>1. LoggerInv => FileIsComplete
  BY DEF LoggerInv
<1> QED
  BY <1>1, InvHolds, PTL
===============================================================================
