------------------------------ MODULE TrialResult ------------------------------
(***************************************************************************)
(* From the output of a trial's programs to its verdict: the programs write*)
(* lines, one reader thread per stream handles them, run_trial() waits for *)
(* the end events, the programs and the threads, and main() judges what    *)
(* the readers made of the lines.                                          *)
(*                                                                         *)
(* A reader that raises ends without setting its end event.                *)
(***************************************************************************)
EXTENDS TrialStats, Sequences

CONSTANTS
  Trials,       \* what may happen in a trial, see TrialType
  EvalParams    \* parameters of evaluate_trial()

Programs == {"generator", "ptp-latency"}
Streams == {"out", "err", "latency_out", "latency_err"}
ProgramOf(s) == IF s \in {"out", "err"} THEN "generator" ELSE "ptp-latency"

\* params with the traffic as the generator counted it, whether the result
\* says the trial was ended early, and what ptp-latency measured.
TrialType(t) ==
  /\ t.params \in StatParamType
  /\ t.params.use_device_stats => t.params.generator = "trex-txrx"
  /\ t.results \in [Flows -> FlowType]
  /\ t.early_exit \in BOOLEAN
  /\ DOMAIN t.probes \subseteq {"->", "<-"}
  /\ \A d \in DOMAIN t.probes : t.probes[d].tx \in Nat /\ t.probes[d].rx \in 0..t.probes[d].tx

ASSUME TrialsAssumption == \A t \in Trials : TrialType(t)

VARIABLES
  trial,        \* what happens in this trial
  eval_params,
  alive,        \* programs running
  failed,       \* programs that ended before they had written everything
  written,      \* per stream, lines written
  handled,      \* per stream, lines handled
  reader,       \* per stream, state of the reader thread
  exit_event,   \* per stream
  stats,        \* "result" when the reader of stderr has made statistics of one
  latency,      \* the samples of ptp-latency have been read
  trial_stats,  \* the flaws in what run_trial() returned
  verdict       \* of main(), "none" until run_trial() has returned

programVars == <<alive, failed, written>>
readerVars == <<handled, reader, exit_event, stats, latency>>
vars == <<trial, eval_params, programVars, readerVars, trial_stats, verdict>>

Measured == DOMAIN trial.probes

\* What a program writes in full on its streams.
Script(s) ==
  CASE s = "out" -> IF trial.params.generator = "trex-astf"
                    THEN <<"text">> ELSE <<"text", "severed">>
    [] s = "err" -> IF trial.params.generator = "trex-astf"
                    THEN <<"text", "result", "severed">>
                    ELSE <<"streams", "profile", "result">>
    [] s = "latency_out" -> <<"text">>
    [] s = "latency_err" -> <<"samples">>

Lines(s) == Len(Script(s))
Running == IF Measured = {} THEN {"generator"} ELSE Programs
Read == {s \in Streams : ProgramOf(s) \in Running}
Complete(p) == \A s \in Streams : ProgramOf(s) = p => written[s] = Lines(s)

Init ==
  /\ trial \in Trials /\ eval_params \in EvalParams
  /\ alive = Running
  /\ failed = {}
  /\ written = [s \in Streams |-> 0] /\ handled = [s \in Streams |-> 0]
  /\ reader = [s \in Streams |-> IF s \in Read THEN "reading" ELSE "none"]
  /\ exit_event = [s \in Streams |-> FALSE]
  /\ stats = "nothing" /\ latency = FALSE
  /\ trial_stats = {} /\ verdict = "none"

-------------------------------------------------------------------------------
(* The programs.                                                           *)

\* The generator says that its connection is severed when all is written.
Write(s) ==
  /\ ProgramOf(s) \in alive
  /\ written[s] < Lines(s)
  /\ Script(s)[written[s] + 1] = "severed" =>
       \A o \in Streams \ {s} : ProgramOf(o) = ProgramOf(s) => written[o] = Lines(o)
  /\ written' = [written EXCEPT ![s] = @ + 1]
  /\ UNCHANGED <<trial, eval_params, alive, failed, readerVars, trial_stats, verdict>>

\* Its status is not zero exactly if it did not get to the end.
Exit(p) ==
  /\ p \in alive
  /\ alive' = alive \ {p}
  /\ failed' = IF Complete(p) THEN failed ELSE failed \cup {p}
  /\ UNCHANGED <<trial, eval_params, written, readerVars, trial_stats, verdict>>

-------------------------------------------------------------------------------
(* The readers.                                                            *)

ResultRaises == trial.params.generator # "trex-astf" /\ ReaderRaises(trial.params, trial.results)

\* Mistake: that the result says the trial was ended early is not kept.
ResultFlawsOfTraffic(probes) == TrafficFlaws(trial.params, trial.results, probes)

\* What evaluate_trial() is given, see EvaluateTrial.
ResultFlaws(probes) ==
  TrafficFlaws(trial.params, trial.results, probes)
  \cup IF trial.early_exit THEN {<<"early_exit", "trial">>} ELSE {}

\* A line that sets the end event while the program still runs.
EndsStream(line) == line = "severed"

HasLine(s) == handled[s] < written[s]

\* handle_process_output() and the body of the loop for one line.
HandleLine(s) ==
  /\ reader[s] = "reading"
  /\ HasLine(s)
  /\ LET line == Script(s)[handled[s] + 1]
         raises == line = "result" /\ ResultRaises
     IN  /\ handled' = [handled EXCEPT ![s] = @ + 1]
         /\ exit_event' = [exit_event EXCEPT ![s] = @ \/ EndsStream(line)]
         /\ reader' = [reader EXCEPT ![s] =
                         IF raises THEN "raised"
                         ELSE IF line = "severed" /\ s = "err" THEN "ended" ELSE @]
         /\ stats' = IF line = "result" /\ ~raises THEN "result" ELSE stats
         /\ latency' = (latency \/ line = "samples")
  /\ UNCHANGED <<trial, eval_params, programVars, trial_stats, verdict>>

\* Mistake: the rest of the output of a program that has ended is not read.
EndWithoutRest(s) ==
  /\ reader[s] = "reading" /\ ProgramOf(s) \notin alive
  /\ exit_event' = [exit_event EXCEPT ![s] = TRUE]
  /\ reader' = [reader EXCEPT ![s] = "ended"]
  /\ UNCHANGED <<trial, eval_params, programVars, handled, stats, latency,
                 trial_stats, verdict>>

\* "--END--" follows what was left when the program had ended.
End(s) ==
  /\ reader[s] = "reading" /\ ProgramOf(s) \notin alive
  /\ handled[s] = written[s]
  /\ exit_event' = [exit_event EXCEPT ![s] = TRUE]
  /\ reader' = [reader EXCEPT ![s] = "ended"]
  /\ UNCHANGED <<trial, eval_params, programVars, handled, stats, latency,
                 trial_stats, verdict>>

-------------------------------------------------------------------------------
(* run_trial() and main().                                                 *)

ParamsOfTrial == [eval_params EXCEPT !.latency_directions = Measured]

\* Of a million probes, -1 without any.
ProbeLoss(p) == IF p.tx = 0 THEN -1 ELSE (1000 * 1000 * (p.tx - p.rx)) \div p.tx
ProbeLosses == [d \in Measured |-> ProbeLoss(trial.probes[d])]

Evaluation ==
  INSTANCE EvaluateTrial WITH
    MaxLossPct <- 1000 * MaxLossPct, ParamSet <- EvalParams, ProbeLosses <- {}, MaxFlaws <- 0,
    trial_params <- ParamsOfTrial, probe_loss <- ProbeLosses, trial_result <- verdict

ASSUME EvalParamsAssumption == EvalParams \subseteq Evaluation!ParamType

\* The packets transmitted in a direction, as far as the reader of stderr has
\* counted any: of no result, and of one of trex-astf, it counts none.
SentIn(d) ==
  IF stats = "result" /\ trial.params.generator # "trex-astf"
  THEN DirectionTotals(trial.params, trial.results, d).tx ELSE 0

\* run_trial() adds the samples of ptp-latency to the totals, of which it takes
\* percentages: there may be no samples, and nothing sent in a direction.
FixupRaises ==
  /\ Measured # {}
  /\ ~latency \/ \E d \in Measured : SentIn(d) + trial.probes[d].tx = 0

\* Mistake: the events of ptp-latency are waited for when it does not run.
WaitedForAll == alive = {} /\ \A s \in Streams : exit_event[s] /\ reader[s] # "reading"

\* All events are set, the programs have ended, and the readers have, too.
Waited == /\ \A s \in Read : exit_event[s] /\ reader[s] # "reading"
          /\ alive = {}

\* Mistake: only ptp-latency's exit status is looked at.
FailedLatency == "ptp-latency" \in failed

\* The sum of the exit statuses is not zero, see TrialSync.
Failed == failed # {}

\* A trial that the readers made no statistics of has no flaws.
Return ==
  /\ verdict = "none"
  /\ Waited
  /\ verdict' = CASE FixupRaises -> "exception"
                  [] ~FixupRaises /\ Failed -> "error"
                  [] OTHER -> IF trial.params.generator = "trex-astf" THEN "astf"
                              ELSE "returned"
  /\ trial_stats' = IF verdict' = "returned" /\ stats = "result"
                    THEN ResultFlaws(trial.probes) ELSE {}
  /\ UNCHANGED <<trial, eval_params, programVars, readerVars>>

Judge ==
  /\ verdict = "returned"
  /\ verdict' = Evaluation!Verdict
  /\ UNCHANGED <<trial, eval_params, programVars, readerVars, trial_stats>>

Next == \/ \E s \in Streams : Write(s) \/ HandleLine(s) \/ End(s)
        \/ \E p \in Programs : Exit(p)
        \/ Return \/ Judge

\* The programs end (generators and ptp-latency have runtimes), and threads run.
Fairness == /\ \A s \in Streams : WF_vars(HandleLine(s)) /\ WF_vars(End(s))
            /\ \A p \in Programs : WF_vars(Exit(p))
            /\ WF_vars(Return) /\ WF_vars(Judge)

Spec == Init /\ [][Next]_vars
FairSpec == Spec /\ Fairness

-------------------------------------------------------------------------------
(* Properties.                                                             *)

TypeOK ==
  /\ trial \in Trials /\ eval_params \in EvalParams
  /\ alive \subseteq Running /\ failed \subseteq Running \ alive
  /\ {written, handled} \subseteq [Streams -> Nat]
  /\ \A s \in Streams : handled[s] <= written[s] /\ written[s] <= Lines(s)
  /\ reader \in [Streams -> {"none", "reading", "raised", "ended"}]
  /\ exit_event \in [Streams -> BOOLEAN]
  /\ stats \in {"nothing", "result"} /\ latency \in BOOLEAN

Stdout == INSTANCE LineStream WITH
  written <- written["out"], handled <- handled["out"], told <- exit_event["out"]
Stderr == INSTANCE LineStream WITH
  written <- written["err"], handled <- handled["err"], told <- exit_event["err"]
LatencyStdout == INSTANCE LineStream WITH
  written <- written["latency_out"], handled <- handled["latency_out"],
  told <- exit_event["latency_out"]
LatencyStderr == INSTANCE LineStream WITH
  written <- written["latency_err"], handled <- handled["latency_err"],
  told <- exit_event["latency_err"]

\* Every stream is read as LineStream promises: in order, once, and its end is
\* told only behind everything that was written on it, although one kind of
\* line ends a stream while the program still runs.
StreamsAreRead == Stdout!Spec /\ Stderr!Spec /\ LatencyStdout!Spec /\ LatencyStderr!Spec

\* A trial that is judged is judged by what its programs reported: the result
\* of the generator and the samples of ptp-latency are there, whichever thread
\* was slow and whichever program ended first.
NothingMissed ==
  verdict \notin {"none", "error", "exception"} =>
    stats = "result" /\ (Measured # {} => latency)

\* Everything --max-loss-pct allows to be lost of these flows.
WithinLoss(flows) ==
  100 * ReceivedOf(flows, trial.results) >= (100 - MaxLossPct) * SentBy(flows, trial.results)

Delivering == {f \in Created(trial.params) : Layout[f].traffic = "measurement"}

\* A trial that passes lost no more than --max-loss-pct of what the granularity
\* looks at, and was not ended early.  Statistics of devices see no flow that
\* is not a latency flow, and a direction counts a latency flow twice: with
\* those only the other granularities keep the promise.
PassMeansDelivered ==
  verdict = "pass" /\ eval_params.trial_mode # "warmup" =>
    /\ ~trial.early_exit
    /\ CASE eval_params.loss_granularity = "segment" ->
              ~trial.params.use_device_stats => \A f \in Delivering : WithinLoss({f})
         [] eval_params.loss_granularity = "device" ->
              \A i \in Pairs : WithinLoss(Of(Created(trial.params), i))
         [] eval_params.loss_granularity = "direction" ->
              \A d \in {"->", "<-"} :
                ~trial.params.measure_latency /\ d \notin Measured =>
                  WithinLoss({f \in Delivering : Path[Layout[f].pair] = d})

\* The generator sent what it was told to, to every device pair, nothing was
\* duplicated or came out of a wrong port, and each flow lost no more than it
\* may; DDoS traffic was dropped.
CleanFlow(f) ==
  LET flow == trial.results[f]
  IN  /\ flow.tx = Layout[f].planned /\ flow.tx > 0 /\ ~flow.stray /\ ~flow.dup
      /\ IF Layout[f].traffic = "ddos" THEN flow.rx = 0
         ELSE flow.rx \in 1..flow.tx /\ WithinLoss({f})

CleanTraffic ==
  /\ \A f \in Created(trial.params) : CleanFlow(f)
  /\ \A i \in Pairs : \E f \in Delivering : Layout[f].pair = i

\* A trial in which nothing went wrong passes: no counter is attributed to a
\* flow, a pair or a direction that it does not belong to.  A device pair
\* counts the DDoS traffic that nobody should receive as lost.
CleanTrialPasses ==
  /\ verdict \notin {"none", "returned"} /\ failed = {} /\ trial.params.generator # "trex-astf"
  /\ CleanTraffic /\ ~trial.early_exit
  /\ \A d \in Measured : trial.probes[d].tx > 0 /\ trial.probes[d].rx = trial.probes[d].tx
  /\ eval_params.loss_granularity = "device" =>
       \A f \in Created(trial.params) : Layout[f].traffic = "measurement"
  => verdict = "pass"

\* Unless a reader raises, and so never sets the event that run_trial() waits
\* for, every trial ends, with a verdict or an error.
TrialReturns == ~ResultRaises => <>(verdict \notin {"none", "returned"})
===============================================================================
