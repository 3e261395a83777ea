# TLA+ models of bench-trafficgen

bench-trafficgen measures the highest rate at which a device under test (DUT)
forwards packets, or accepts connections, within a loss limit.
`trafficgen/binary-search.py` searches for that rate; every trial of the search
is run by a traffic generator (`trex-txrx.py`, `trex-txrx-profile.py`,
`trex-astf.py`, or in process by an ASTF client) against a TRex server, often
with `ptp-latency` beside it.  Shell scripts set the hosts up, and
`trafficgen-post-process.py` turns the result into metrics.

This directory models the search, what surrounds a trial, the traffic generators
and the verdict: the part of the program in which a mistake gives a wrong number
instead of an error.  Line numbers refer to `src/trafficgen/binary-search.py`
unless a file is named.

## Inventory

| Component | State | Operations | Interacts with |
|---|---|---|---|
| Rate search, `main()` 3521-3925 | four mode flags, rate, stack of passed rates, last failed rate, retries | one iteration per trial: select mode, run, judge, choose the next rate | everything below |
| Search session, 3536-3661, 3867-3962 | `traffic_running`, `prev_trial_result`, `force_next_flush`, counter of false positives | flush (pre-trial command), start, update, stop, reset of the client, sampling | TRex server, DUT |
| Trial evaluation 2540-3103 | none (a function of parameters and statistics) | requirements in order, later verdicts overriding earlier ones | session |
| `run_trial()` 1049-1484 | two child processes, two named semaphores, four reader threads | start, wait for ready, go, wait for the end | `trex-txrx*.py`, `ptp-latency` |
| Log 29-86 | a queue, a worker thread, an exit event | log, drain, join | all threads |
| Output readers 1749-2412 | per stream: end event, partial statistics | parse lines and results, derive loss and errors | `run_trial()`, log |
| `trex-txrx.py` | streams, flow group ids, segment monitor thread, two events | create streams, start, monitor, stop, collect | TRex server, `run_trial()` |
| `trex-txrx-profile.py` | as above, plus profiles, teaching and profiler thread | load profile, teach, measure, collect | TRex server, `run_trial()` |
| `ptp-latency.c` | results array per direction, clock offset | send a probe, receive it, grow the array, percentiles | `run_trial()` |
| `trex_astf_lib.py`, `trex-astf.py` | client connection | profile, ramp detection, sampling, derived statistics | session |
| Post-processing | none | choose the trial to report, buckets | files |
| Launch scripts | pid files, sockets, TRex configuration | start and stop server software and TRex | hosts |

What is hard about it: the loop of the search keeps a dozen variables alive
across iterations and has fifteen ways to leave an iteration; the traffic of a
persistent client outlives the iteration that started it while any call may
raise; three processes meet at two semaphores that are created after the
processes are; threads log while the log is being closed; four threads read the
output of programs that may end at any point; the segment monitor reads counters
of traffic that it may stop, while another thread waits for it; a profile is cut
into streams whose times, rates and ids must add up again.  The places where this
bites are the `hazards` of `PROJECT.json`, each at its line.

Properties that make each component correct: the search ends with a rate that
was validated and is right for a consistent DUT; a trial measures the rate that
is recorded for it, after the flush it was promised; a trial passes exactly when
nothing it is tested for is wrong; both programs of a trial measure at the same
time, and their failure is never reported as success; the verdict is one on what
the programs reported; no two streams are counted under one id; a trial is cut
short only for packets that were lost; the traffic offered is the profile's; no
message of the log is lost.

## Modules

| Module | Models | Composed with |
|---|---|---|
| `RateSearch` | the loop of the search; the verdict is chosen freely | |
| `ConsistentDut` | a DUT that passes up to a limit | extends `RateSearch` |
| `SearchSession` | everything an iteration does around the trial | extends `RateSearch`, implements it |
| `EvaluateTrial` | `evaluate_trial()` over flaws | its verdicts are the inputs of `RateSearch` |
| `TrialStats` | counters of flows, and the flaws in them | |
| `LineStream` | what a reader of an output stream promises | |
| `TrialResult` | programs, readers, `run_trial()`'s wait and result | extends `TrialStats`, implements `LineStream`, judges by `EvaluateTrial` |
| `TrialSync` | parent, generator, `ptp-latency`, semaphores | |
| `FlowGroupIds` | how both stateless generators divide the ids | |
| `TxrxTrial` | `trex-txrx.py`: main thread, segment monitor, TRex | extends `FlowGroupIds` |
| `ProfileStreams` | segments, chains and substreams of a profile | |
| `ProfileTrial` | `trex-txrx-profile.py`: main thread, profiler threads | extends `FlowGroupIds` and `ProfileStreams` |
| `EvaluateAstf` | `evaluate_trial_astf()` | |
| `AstfTrial` | a stateful trial, second by second | extends `EvaluateAstf` |
| `BsLogger` | threads, queue, worker, file | |

`MC*` modules hold the sets a run gives to the constants, `*_proofs` modules the
theorems.  Operators whose comment begins with "Mistake:" are plausible wrong
versions of a definition near them; no specification uses them.  Each is
substituted for the definition once, to see that a property notices.

**RateSearch.** The variables have the names of the code.  `Mode` is the chain of
conditions at 3577-3595; `Trial(verdict)` has one disjunct per way through
3663-3861; every disjunct ends with `SettleRate`, the clamp at 3839-3861, as the
code does, or with `Leave`, which is the `break` or `return`.  `TrialError` is a
pre-trial command or trial that failed.  Rates are natural numbers of a fine
unit instead of floats: midpoints round down and comparisons with a percentage
are cross multiplied.  `GranularityAssumption` says the unit is fine enough for
one step of `search_granularity` percent of the minimum rate to be a unit.
`RateBound` bounds the model only: a DUT that passes everything is offered a
doubled rate forever where there is no line rate, and the model stops there.

**ConsistentDut.** The device passes a sniff or a search trial up to one limit, a
final validation up to a limit that is no higher, and fails above; a timeout may
still ask for a retry while there are retries left.

**SearchSession.** `BeginTrial`, `PreTrial`, `RunTrial`, `Judge` and `Between` are
the blocks of the loop body in their order (3597-3627, 3629-3652, 3654-3661,
3663-3861, 3867-3915).  `trex` is what the server really does, `traffic_running`
what the program believes.  `session.faults` are the client calls that may
raise; `StopResults` has a server state for each call that can raise in the try
block, which clears the flag in every case.  `conntrack` is "clean" from a flush
to the end of the next trial.  The properties speak of `trex`, not of what the
program believes: `FlushedWhenQuiet` and `MeasuredAtRate` name the failing calls
under which the two come apart.  `SessionSearches` is the refinement: under the
identity mapping every step is a step of `RateSearch` or stutters.

**EvaluateTrial.** A trial is the set of what is wrong with it, each flaw at a
device pair, a direction or the trial; the checks are sequences in the order of
the code, of which the last unmet one decides (`LastUnmet`).  What `ptp-latency` lost is
a number, because the code compares it with a threshold of another unit.

**TrialStats, TrialResult.** A flow is what one flow group id counts: packets sent
and received, and what else was seen of it.  `TrialStats` adds flows up for
device pairs and directions as the reader of stderr does (1883-2412), where it
counts some of them twice or not at all, and derives the flaws `EvaluateTrial`
judges.  In `TrialResult` each program writes the lines of its script (a result,
samples, the notice that the connection is severed, any other text), and may end
before it has written all.  `HandleLine` and `End` are a reader thread, `Return` is
the wait of `run_trial()` (1402-1484) and what it adds to the statistics, and
`Judge` applies `Evaluation`, an instance of `EvaluateTrial`, to the flaws.  The
verdict "astf" stands for a result that `AstfTrial` would judge.  `LineStream` is
the abstract specification of a stream's reader: `StreamsAreRead` says that each
of the four readers implements it.

**TrialSync.** The parent's steps are the statements of `run_trial()` that another
process can see; `Abort` is one of the three early returns with its `terminate()`
and `unlink()` calls; each child prepares, opens two semaphores, posts one, waits
for the other and measures.  `Fail` is any exit with an error or by a signal.
SIGTERM kills the generator and only sets a flag in `ptp-latency`, whose
`sem_wait()` is restarted.  The commands are run through a shell; it executes a
single command in its own process, so that a signal to the shell is one to the
program.

**FlowGroupIds.** `AllocateIds` is one iteration of the loop over device pairs
(`trex-txrx.py:1055-1083`, `trex-txrx-profile.py:1379-1401`): each direction and
type of stream gets a range of ids, one behind the other.

**TxrxTrial.** `main` is where `main()` is; `params.fault` is the client call that
raises.  `StreamIds` are the ids of the streams that `create_traffic_profile()`
makes, with its step of two for two protocols and for IMIX.  `MonitorLooks` and
`MonitorJudges` are the two queries of `segment_monitor()` (690-790): what the
first says of running traffic is used behind the second.  TRex ends segments in
any order across groups; a segment's packets arrive before its successor ends
(`settled`), and a segment whose packets are under way may look like a lossy one.

**ProfileStreams, ProfileTrial.** Time is in ticks, a rate in packets per second.
`build_stream_segments` and its three siblings have the names of the code; the
loop of a repeating stream is a recursive function.  A stream has a packet for
each protocol (`generic`), a request and a response (`garp`) or one packet
(`icmp`; a packet that the profile gives, `the_packet`, is like it), and only if
there is more than one is its rate divided by the protocols (`PacketCount`,
`Sharers`, 842).  A `Chain` is a sequence of
TRex streams of which each starts the next; `Begins` and `Transmits` say when.
`CreateStream` is one iteration of the loops over device pairs and streams
(1403-1447).  `StreamType` is what the profile's schema lets through, without
the rate of 0 that stands for line rate, and without rates that do not divide
evenly, since the code divides them as floats; no stream is both measurement and DDoS
traffic, of which the code would make two sets of chains.  The schema and
`--runtime` take integers, so that offsets, durations, delays and the runtime are
`WholeSeconds`, however many ticks a second has.  The profiler's
samples are counted, not looked at; `MaxSamples` bounds them in the model.

**AstfTrial, EvaluateAstf.** Each second of traffic is drawn from a set: what was
counted, which error counters moved, rates and flows.  `Poll` is
`wait_for_cps_stable()`, `Sleep` and `TakeStats` are `sample_astf_trial()`,
`Extract` is what becomes of the counters, and `Evaluate` has one operator per
phase of `evaluate_trial_astf()`.  Counters left by earlier traffic and by the
ramp are there to be cleared.

**BsLogger.** `sent` is a history of all messages; `in_error` remembers that
`main()` ended the worker on an error path.  `MaxSent` bounds the messages of the
model.

## Runs

`tlc -workers 2 -config <run>.cfg <module>`; the modules and properties of each
run are listed in `PROJECT.json`.

| Run | Bounds | Shows |
|---|---|---|
| `RateSearch` | rate 40, granularity 40%, line rate 60, one retry, all 32 command lines; 47 thousand states | range of the rate, one mode per trial, a validated report that no verdict of the repeat changes, fresh retries |
| `ConsistentDut` | rate 64, granularity 25%, line rate 100, 18 limits at and beside every boundary; 31 thousand states | the search ends, its rate is right, and it gives up rightly but where the minimum is skipped |
| `SearchSession` | rate 40, granularity 30%, all sessions; 1.06 million states | measured rate unless `update` and `stop` may both fail; flushes but after a trial that was retried to the limit, on a quiet TRex unless `stop` may fail; refinement of `RateSearch` |
| `EvaluateTrial` | two device pairs, up to two flaws, all granularities and modes; 508 thousand states | pass if and only if the requirements are met |
| `TrialResult` | two pairs, four flows, losses below, at and above the limit, every oddity, both programs ending anywhere; 182 thousand states | nothing reported is missed, a pass means delivered traffic, clean traffic passes, streams are read to their end |
| `TrialSync` | two polls, failures with exit code 1, signals 1 and 9; 1530 states | simultaneous measurement, complete trials unless exit codes cancel, clean returns, termination |
| `TxrxTrial` | one pair, twelve counters (three segments per protocol and direction), every kind of stream, every fault, a lossy segment; 312 thousand states | ids are not shared, early exits are deserved and reported, the process ends |
| `ProfileTrial` | eleven seconds in half-second ticks, two pairs, every timing and splitting of a stream, generic and garp frames with one and two protocols and icmp with two, every fault; 3105 states | the profile is what is offered (twice its rate for garp of one protocol), ids and flows are not shared, teaching comes in time, samples are logged, the process ends |
| `AstfTrial` | windows of two seconds, thresholds kept, reached and exceeded by their sum, every call raising; 432 thousand states | a pass is earned in the window, only a window without traffic stops the search, every trial ends |
| `BsLogger` | two readers, four messages; 27 thousand states | nothing lost or reordered, complete file, joins return |

Why the bounds are enough: at a granularity of 40% a search of rate 40 reaches
the minimum, doubles once up to line rate and removes more than one false
positive; one retry is used up and reset; two flaws are what it takes for one
verdict to override another, and two device pairs for the override to cross
pairs.  Four flows hold a default, a latency and a DDoS flow of one pair, and one
of the other direction.  With two polls a child's failure lies before, between or behind them.  Three segments are one that is judged, one under way and one
that reveals it; with two protocols the groups hold six.  Eleven seconds hold
bursts with a pause before, between and behind them, pauses of two seconds and of
none, and one that the end cuts; `MaxPackets` of 16 splits some segments and not
others.  Two seconds of a window
exceed a threshold that neither of them exceeds.  Four messages leave one in each
of log, worker and queue with one to come.  The theorems below remove the bounds
for the safety properties they name.

`CHECK_DEADLOCK FALSE` is set because all these programs end.

Runs that are expected to find a violation, each of a statement made by a
comment, a message, a help text or a document of the repository (`findings` in
`PROJECT.json` quotes them):

* `ProbeLossRatio`: `ptp-latency` reports a fraction that is compared with a
  percentage (2992).
* `LateTeaching`: with more flows than are taught in a second, the dummy streams
  of a teaching warmup last longer than the segments they stand for
  (`trex-txrx-profile.py:1096`), and what is taught behind them is late.

Where a property of the runs has an exception, the exception is a named part of
the property, and the code does what a document, a comment or a message of the
repository says it does not:

| Property | Exception | What the code does |
|---|---|---|
| `RepeatIsFinal` | whether the report is printed | a quit in the repeat of the final validation, or a repeat that cannot be run, returns 1 (3654-3666) before the result is printed (3917), although the repeat's verdict is to be ignored (3802) |
| `NoPassIsRight` | `MinimumSkipped` | halving that leads exactly to the minimum ends the search (3843) without the "last attempt" at it (3840): against a limit of 63, or of 32, a search from 64 with minimum 32 finds nothing |
| `TrialIsIsolated` | `RetriedToFail` | a failure of a trial whose retries are used up is not followed by a flush: 3632 looks at `prev_trial_result`, 3704 changes another variable; against `README-trex-astf.md:1006` |
| `FlushedWhenQuiet` | `MayFail("stop")` | when the `stop()` before the final validation raises, the flag is cleared (3627) and the flush runs under traffic, against `README-trex-astf.md:1445` |
| `MeasuredAtRate` | `OneWayOut` | when `update()` fails, and the `stop()` it falls back to as well, the next trial samples traffic at the old rate and records the new one (3894-3900), against `README-trex-astf.md:1107` |
| `GoodTrialIsComplete` | `ExitCodesCancel` | exit codes are added up (1427): 1 and a death by the signal 1 are taken for success, where 3659 means "a non-zero return value" of either |
| `OffersTheProfile` | `Copies` | the request and the response of a garp stream of one protocol have the whole rate each (`trex-txrx-profile.py:842`), against `README-trex-txrx-profile.md:16` |

Other divergences, which the models contain and no run is spent on.  Of the
search and its session:

* The recovery from a collapse does not reset UDP flows (3738), against
  `README-trex-astf.md:1541`: the next trial starts on the old ones.
* A failed trial may be followed by a higher rate: a failure removes one false
  positive at most (3724-3751), so with erratic verdicts nothing bounds the
  number of trials.  `DutTerminates` holds for consistent devices.
* Error paths end the log's worker (3649) before the finally clause logs (3951);
  `FileIsComplete` is about searches without an error.

Of results and their evaluation:

* A reader that raises, for a flow that is not in the result or a division by
  nothing (2019, 2144), never sets the event that `run_trial()` waits for.
  `TrialReturns` of `TrialResult` excludes it.
* A direction counts a latency flow twice where flows are added up, and a device
  pair counts DDoS traffic, which nobody should receive, as lost.
  `PassMeansDelivered` and `CleanTrialPasses` say where that matters.
* The handler for a result file that cannot be written (3958) uses an undefined
  name and raises in its turn; it is not in the models, which end with the log.
* Without a single probe sent, 2862 raises a `KeyError`, in a warmup as well.
* `--rate-tolerance-failure=quit` is overridden by any later requirement (2906).
* The docstring 2545-2549 says that any error counter fails a trial and that the
  connection rate is not enforced; neither is so (2598-2602, 2660).

Of the generators:

* The schema (`traffic-profile-schema.json:40`) says that the rate of a stream is in
  millions of packets per second; it is passed on as packets per second, as
  `README-trex-txrx-profile.md:16` says.
* A stream of latency packets alone is offered at `--latency-rate` for each
  protocol if its rate is higher (849); `OffersTheProfile` says so (`RateAsked`).
* `trex-txrx.py` takes ids for plain and IMIX streams whether there are that many
  or not; `StreamsAreTold` assumes there are.
* The last two segments of a group are never judged by its monitor, and with two
  protocols it judges segments whose packets are still under way (745):
  `JudgedFairly` is about one protocol.
* A `stop()` that raises in the handler of an exception leaves the monitor thread
  looping; `ProcessEnds` excludes it.
* `trex-txrx-profile.py` leaves out a substream of a burst that is an exact
  multiple of 2^32-1 packets (915-917); the model does so as well, and
  `OffersTheProfile` is about streams of which `SubstreamsFit` excludes it.
* With `repeat_flows` false, the repetitions of a stream get the same
  `flow_offset` and so the same flows, against `README-trex-txrx-profile.md:40`.
* The teaching measurement is sent at the rate of the teaching warmup (1138);
  `--teaching-measurement-packet-rate` (157) is never used.
* In-process ASTF trials are never retried: `trex_astf_lib.py:887` reports no
  timeout, against `README-trex-astf.md:1531`.
* A percentage of nothing stays 0 (`trex_astf_lib.py:147`): drops in a window in
  which no connection was attempted count for nothing.
* A ramp time of 0 raises an `UnboundLocalError` (`trex_astf_lib.py:385`).
* Of mixed ASTF traffic, UDP flows dilute the TCP drops in the error percentage,
  so that its limit is one on all connections; a full flow table of less than 20
  flows is not noticed; error counters that cannot be read are taken for none.
  `PassIsEarned` is stated accordingly.

## Fairness

* `ConsistentDut` assumes that the loop runs on: every trial ends with a verdict,
  which the generators' own runtime and timeout guarantee.
* `TrialSync` assumes that the parent is scheduled, that a child that is prepared
  goes on by itself, and that `ptp-latency` gets there, since every probe has a
  timeout; nothing is assumed of the generator before it opens the semaphores,
  where it may hang in a call to the TRex server, and nothing forces a child to
  fail.
* `TrialResult` assumes that the programs end, for the same reason, and that the
  reader threads and the main thread run.  Nobody has to write.
* `TxrxTrial` and `ProfileTrial` assume that each of their threads runs;
  `wait_on_traffic()` has a timeout, so that nothing is assumed of the traffic,
  which may never end by itself.
* `AstfTrial` assumes that sleeps end and that client calls return or raise.
* `BsLogger` assumes that the worker runs and that `main()` returns from a join
  whose thread has ended; nobody is obliged to log or to finish the search.

## Proofs

`tlapm <module>_proofs.tla`.  All are for arbitrary constants that satisfy the
named assumptions.

* `Search_proofs`, of `RateSearch`: `TypeOK`, `RateInRange`, `JudgedAsRun`,
  `FinishedIsValidated`, `RepeatIsFinal` and `RetriesStartFresh`.  None is
  inductive.  `IInv` adds that both ends of every midpoint lie between the
  minimum and the current first rate (`BoundsOK`, `StackOK`), that at most one
  mode is selected except behind a one-shot validation (`FlagsOK`), and that a
  final validation has a passed search trial behind it (`ValidationOK`), without
  which the report could be empty.  The arithmetic is in `MidpointLemma`,
  `StepDownLemma`, `MinimumLemma` and `SettleLemma`; there is a lemma per action.
* `Search_proofs`, of `ConsistentDut`: `ReportedRateIsRight` and `NoPassIsRight`,
  from `DutInv`, which says what every rate the search remembers tells of the
  device: passed ones are within its limit, failed ones above it, and the gap
  between them is what is still to be searched.  `NoPassIsRight` says what is known
  of the device when the search gives up: if the minimum was skipped
  (`MinimumSkipped`), only that it does not sustain the last failed rate.
* `Search_proofs`, of `SearchSession`: `TrialIsIsolated`, in every
  session, from an invariant with one conjunct per reason for a flush
  (`FailureIsTold`: a failure is told by `prev_trial_result` unless the retry
  limit made it), `FlushedWhenQuiet` from the fact that TRex is quiet when the
  program takes it for stopped and stop() does not raise (`QuietServer`), `MeasuredAtRate`
  from one that relates what the program believes to what the server does
  (`TrafficInv`), and `SessionSearches` step by step.  The theorems about
  `RateSearch` therefore hold of sessions, too.
* `Search_proofs`, of `BsLogger`: `NothingReordered`, which is inductive with the
  types, and `FileIsComplete`, which needs to know who can still log after the
  worker was told to stop (`Quiet`).
* `EvaluateTrial_proofs`: `PassIffMet` and `QuitsForAReason`.  Of a sequence of
  requirements the lemmas say when it is met throughout and what verdicts it can
  give, never which requirement decides; `Max` is defined by a choice, so that
  `MaxLemma` first shows that there is a maximum to choose.
* `AstfTrial_proofs`: `PassIsEarned` and `QuitsWithoutTraffic`, from `AstfInv`:
  what the counters hold is the sum over the seconds of the window, that of the
  clearing and of nothing before it.  The sum is a recursive function; instead of
  an induction over the window the invariant carries along that there is such a
  function and what each one ends in (`SumsTo`).
* `TrialResult_proofs`: `NothingMissed` and the refinement `StreamsAreRead`, both
  from `ResultInv`: an end that is told is behind everything written
  (`ToldIsOver`), a program that ended well has written all (`EndedIsComplete`),
  and a reader that went on has made statistics of every result it handled
  (`ResultIsUsed`).
* `TrialResult_proofs`, of the verdict: `PassMeansDelivered` and
  `CleanTrialPasses`.  What `EvaluateTrial_proofs` says of flaws is instantiated
  with the flaws of the counters.  What holds of every flow (no more received
  than sent, a loss within the limit) is carried to sums over device pairs and
  directions: a smallest set of flows whose sums broke it would have a smaller
  one.
* `TrialSync_proofs`: `TypeOK`, `MeasureTogether`, `GoodTrialIsComplete` and
  `CleanReturn`.  `SyncInv` counts: posts are in the semaphore or acquired,
  releases are in the other or received, and nothing is released while a launch
  remains.  `SyncAssumption` only says that a failure has an exit code that is not
  0; that two of them may cancel is a disjunct of `GoodTrialIsComplete`.
* `FlowGroupIds_proofs`: `UniqueIds` and `WithinCounters`, for any number of pairs
  and any counters.  `IdsInv` adds that all ids given away lie below
  `pg_id_base`, so that those of the next pair are apart from them.
* `TxrxTrial_proofs`: `StreamsAreTold`, which needs `IdsInv` and the arithmetic of
  alternating ids; `JudgedFairly`, from `FairInv`: a segment is only judged when
  the one behind its successor has begun, streams of a group begin in order, and
  so its packets have arrived; `CutShortIsFlagged`, from `CutInv`, which relates
  the monitor, the events and the place of `main()`.
* `ProfileTrial_proofs`: `IdsOfProfileAreUnique`, since every step of the program
  is one of `FlowGroupIds` or leaves the ids alone, and `SamplesAreLogged`, from
  `SampleInv`: what was sampled is logged or queued, and a logger that has ended
  leaves at most what the worker was querying for.
* `ProfileTrial_proofs`, of the streams: `StreamsAreTold`, from `ToldInv`: a chain
  has ids that its group has used and flows below the offset of the next device
  pair, so that what is created behind it has others.  The lemmas say that every
  repetition is cut into segments with as many transmissions as the first, which
  is what `IdsNeeded` relies on; that the ids of a packet of a repetition lie
  behind one another within what is needed (`OwnIdsLemma`); and that only the
  first substream of a segment has a gap (`SplitLemma`).  `RepeatedFrom` and
  `FlattenSeq` are recursive: that there are such functions, and that the parts
  lie behind one another in the flat sequence (`LaidOut`), is shown by a least
  counterexample instead of an induction.

* `ProfileTrial_proofs`, of time: `ProfileIsOffered` and `StreamsAreTaught`, for
  any profile, number of pairs, runtime and number of ticks in a second, both
  from `TurnInv`: once the loops over pairs and streams have passed one (`turn`),
  its chains offer (`OffersPair`) and teach (`TeachesPair`) what they should, and
  no later turn adds to them (`DoneInv`).  A turn is followed in five stages:
  * The segments of a stream are a `Timeline`: they take turns, lie one behind the
    other within the runtime and transmit when `Scheduled` says
    (`SegmentsOnTime`); for a stream that repeats, since each repetition continues
    the one before it (`RepeatingOnTime`).
  * A pause that becomes the gap of the segment behind it leaves all times as they
    are (`MeasuredOnTime`).
  * A chain transmits while its segments do.  `Begins` sums gaps and ticks along
    the parts; `SplitOnTime` and `PlaceOnTime` place every substream within its
    segment, `ChainOnTime` concludes that at each tick exactly one part transmits
    or none.
  * The rates of the chains are added up over modes and packets
    (`OfferedTogether`), which are a pair of modes at most, with the shares that
    make up the rate of the stream.
  * In a warmup the bursts replace pauses; the parts behind them are long enough to
    keep the times (`WarmOnTime`), so that the burst before a transmission ends a
    second before it and lies in a pause (`CreatedTeaches`).

  `Begins` is a recursive function and the sums are folds: that there is such a
  function, and what a sum of one or two terms is, is shown by a smallest
  counterexample (`BegunExists`, `SumLemma`).

  `AskedLemma` turns what the packets and modes of a stream have together into the
  rate of the profile, `Copies` times: twice for a garp stream of one protocol.

What the last two theorems assume of a stream is part of the properties.
`OffersTheProfile` is about streams whose substreams take whole ticks and are not
an exact multiple of 2^32-1 packets (`SubstreamsFit`).  Only segments of more
packets than one TRex stream counts are restricted by it: any other takes its
duration exactly, which is in whole seconds.  `TaughtInTime` is
about bursts that fit in the pauses (`BurstFits`), which the program does not
check, and about no more flows than are taught in a second, beyond which
`LateTeaching` shows the opposite.

Only model-checked: all liveness (`DutTerminates`, `TrialReturns`, `ProcessEnds`,
`TrialEnds`, `JoinReturns`), since fairness and ENABLED are outside what the
provers handle; the two violations; and that the sets of the MC modules reach the
cases the bounds are chosen for.

## Not modelled

* Ctrl+C, and a parent that is killed: its semaphore names stay behind and the
  next O_CREX fails.  No code handles either, so there is no recovery to check.
* A trial without `ptp-latency` in `TrialSync`: it has no synchronisation.
* The clean-up of the ASTF client at the end of a search, and an `update()` that
  takes effect only after a while: the program does not wait for it (3892).
* `ptp-latency`'s probe loop and percentiles: one thread that sends, waits with a
  timeout and computes, without a state that properties could relate.
* Packet contents, the teaching streams of `trex-txrx.py`, the files readers
  write, round trip times, latency probes and address ranges of ASTF profiles.
* The pre-trial command's own output threads; a DUT whose limit depends on history.
* Post-processing, launch scripts, profile tools, the queries and configuration
  generators, `null-txrx.py`, installers: scripts that read and write files or
  start other programs once, which unit tests reach.
