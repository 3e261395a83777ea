----------------------------- MODULE ProfileTrial -----------------------------
(***************************************************************************)
(* One run of trex-txrx-profile.py: main() loads a profile, divides the    *)
(* flow group ids, creates the streams of every device pair, transmits and *)
(* prints a result.  With --enable-profiler two threads sample statistics  *)
(* and log them meanwhile, joined by a queue and told by an event to end.  *)
(***************************************************************************)
EXTENDS FlowGroupIds, ProfileStreams, FiniteSets

CONSTANTS
  Params,        \* what is run and what may happen, see ParamType
  MaxSamples     \* bound on the samples of the profiler

\* The step of main() at which the TRex client raises, or "log" if the log of
\* the profiler cannot be opened, or "sample" if the profiler's queries raise.
Faults == {"none", "load", "connect", "ports", "warmup", "add", "sync", "start", "wait", "stop",
           "stats", "log", "sample"}

\* The times of a profile are integers, in seconds.
WholeSeconds == {t \in Nat : t % Second = 0}

\* What the schema lets through, defaults filled in, but a rate of 0.  The code
\* divides rates as floats: here they are such that nothing is left.
StreamType ==
  {stream \in
     [types : Seq({"measurement", "ddos", "teaching_warmup", "teaching_measurement"}),
      frame_type : {"generic", "icmp", "garp"},
      flows : Nat \ {0}, rate : Nat \ {0}, protocols : {1, 2},
      latency : BOOLEAN, latency_only : BOOLEAN, enabled : BOOLEAN,
      traffic_direction : (SUBSET Directions) \ {{}}, device_pairs : (SUBSET Pairs) \ {{}},
      offset : WholeSeconds, duration : WholeSeconds, repeat : BOOLEAN,
      repeat_delay : WholeSeconds, repeat_flows : BOOLEAN] :
   stream.rate % Sharers(stream) = 0}

\* A stream is measured or DDoS traffic, not both.
ParamType(p) ==
  /\ p.entries \in Seq(Range(p.entries)) \ {<<>>}
  /\ \A n \in DOMAIN p.entries :
       LET stream == process_profile_stream(p.entries[n])
       IN  /\ stream \in StreamType
           /\ ~({"measurement", "ddos"} \subseteq Range(stream.types))
  /\ {p.measure_latency, p.profiler} \subseteq BOOLEAN /\ p.fault \in Faults

ASSUME ParamsAssumption == (\A p \in Params : ParamType(p)) /\ MaxSamples \in Nat

VARIABLES
  params,
  main,           \* where main() is
  profile,        \* the streams of the loaded profile
  flow_offset,    \* per stream, the first flow of the next device pair
  turn,           \* how many pairs of a device pair and a stream are done
  used,           \* per group, total - available of its ids
  chains,         \* the chains of streams that were created
  traffic,        \* "none", "running", "complete" or "stopped"
  thread_exit,
  worker, logger, \* trex_profiler() and trex_profiler_logger()
  queue,          \* profiler_queue, as the number of samples in it
  sampled, logged,
  timeout, force_quit, result, return_value

createVars == <<profile, flow_offset, turn, used, chains>>
profilerVars == <<worker, logger, queue, sampled, logged>>
outcomeVars == <<timeout, force_quit, result, return_value>>
vars == <<idVars, params, main, createVars, traffic, thread_exit, profilerVars, outcomeVars>>

NoResult == [printed |-> FALSE, timeout |-> FALSE, force_quit |-> FALSE]

Init ==
  /\ IdsInit
  /\ params \in Params
  /\ main = "load"
  /\ profile = <<>> /\ flow_offset = <<>> /\ turn = 0 /\ chains = {}
  /\ used = [g \in Groups |-> 0]
  /\ traffic = "none" /\ thread_exit = FALSE
  /\ worker = "none" /\ logger = "none" /\ queue = 0 /\ sampled = 0 /\ logged = 0
  /\ timeout = FALSE /\ force_quit = FALSE /\ result = NoResult /\ return_value = 1

Other(d) == IF d = "->" THEN "<-" ELSE "->"

-------------------------------------------------------------------------------
(* create_stream(), for stream n, device pair i and direction d.           *)

Measured(stream) == \E k \in DOMAIN stream.types : stream.types[k] \in {"measurement", "ddos"}
Has(stream, type) == \E k \in DOMAIN stream.types : stream.types[k] = type
Skipped(stream) == ~stream.enabled \/ stream.offset >= Runtime

Flows(stream) == stream.flows \div Cardinality(stream.device_pairs)

\* Mistake: the segments of a latency stream have one id.
IdsPerChainOne(mode, segments) == 1

\* A latency stream has an id for each of its segments.
IdsPerChain(mode, segments) ==
  IF mode = "latency" THEN Cardinality(Transmissions(segments)) ELSE 1

\* Segments are measured, repetition by repetition.
SegmentsOf(stream) ==
  LET repetitions == Repetitions(stream)
  IN  [r \in DOMAIN repetitions |->
         build_measurement_segments(build_stream_segments(repetitions[r]))]

IdsNeeded(stream, mode) ==
  Len(SegmentsOf(stream)) * Cardinality(Packets(stream))
    * IdsPerChain(mode, SegmentsOf(stream)[1])

\* The ids along a chain: the first is given, a pause has none.
IdsAlong(segments, mode, first) ==
  [k \in DOMAIN segments |->
     IF segments[k].type = "null" THEN 0
     ELSE IF mode = "default" THEN first
     ELSE first + Cardinality({j \in Transmissions(segments) : j < k})]

Chain(n, i, d, kind, mode, parts) ==
  [stream |-> n, pair |-> i, direction |-> d, kind |-> kind, mode |-> mode, parts |-> parts,
   flows |-> flow_offset[n] .. (flow_offset[n] + Flows(profile[n]) - 1)]

\* segments[r] are those of the r-th repetition of the stream.
MeasurementChains(n, i, d, segments) ==
  LET stream == profile[n]
      modes == Modes(stream, params.measure_latency)
      chain(r, mode, packet) ==
        LET g == <<i, d, mode>>
            before == (r - 1) * Cardinality(Packets(stream)) + packet - 1
            first == pg_ids[g].start + used[g] + before * IdsPerChain(mode, segments[r])
        IN  Chain(n, i, d, "measurement", mode,
                  MeasurementChain(segments[r], RateOf(stream, modes, mode),
                                   IdsAlong(segments[r], mode, first)))
  IN  IF ~Measured(stream) THEN {}
      ELSE {chain(r, mode, packet) :
              r \in DOMAIN segments, mode \in modes, packet \in Packets(stream)}

\* Teaching goes the other way; garp teaches with two packets.
TeachingChains(n, i, d, segments, measured) ==
  LET stream == profile[n]
      taught(kind, type, parts(_)) ==
        {Chain(n, i, Other(d), kind, packet, parts(r)) :
           r \in {r \in DOMAIN segments : Has(stream, type)}, packet \in TeachingPackets(stream)}
      rate == TeachingRate(stream)
      warmup(r) == WarmupChain(segments[r], Flows(stream), rate)
      standard(r) == StandardChain(segments[r], Flows(stream), rate)
      teaching(r) == TeachingChain(measured[r], Flows(stream), rate)
  IN  {c \in taught("warmup", "teaching_warmup", warmup)
             \cup taught("standard", "teaching_warmup", standard)
             \cup taught("teaching", "teaching_measurement", teaching) : c.parts # <<>>}

create_stream(n, i) ==
  LET repetitions == Repetitions(profile[n])
      segments == [r \in DOMAIN repetitions |-> build_stream_segments(repetitions[r])]
      measured == SegmentsOf(profile[n])
  IN  UNION {MeasurementChains(n, i, d, measured) \cup TeachingChains(n, i, d, segments, measured) :
               d \in profile[n].traffic_direction}

-------------------------------------------------------------------------------
(* main().                                                                 *)

\* A step of main() behind which comes `to`, unless its client call raises.
Step(from, to) ==
  /\ main = from
  /\ main' = IF params.fault = from THEN "finally" ELSE to

\* A profile that cannot be used ends the program before there is a client.
LoadProfile ==
  /\ main = "load"
  /\ IF params.fault = "load" THEN main' = "done" /\ UNCHANGED <<profile, flow_offset>>
     ELSE /\ main' = "connect"
          /\ profile' = [n \in DOMAIN params.entries |-> process_profile_stream(params.entries[n])]
          /\ flow_offset' = [n \in DOMAIN params.entries |-> 0]
  /\ UNCHANGED <<idVars, params, turn, used, chains, traffic, thread_exit, profilerVars, outcomeVars>>

Connect ==
  /\ Step("connect", "ports") \/ Step("ports", "ids")
  /\ UNCHANGED <<idVars, params, createVars, traffic, thread_exit, profilerVars, outcomeVars>>

AssignIds ==
  /\ main = "ids"
  /\ AllocateIds
  /\ main' = IF pairs_done' = NumPairs THEN "create" ELSE "ids"
  /\ UNCHANGED <<params, createVars, traffic, thread_exit, profilerVars, outcomeVars>>

PairOf(k) == ((k - 1) \div Len(profile)) + 1
StreamOf(k) == ((k - 1) % Len(profile)) + 1

\* What goes wrong: too few flows, or too few ids.
CannotCreate(stream, i) ==
  \/ Flows(stream) = 0
  \/ \E d \in stream.traffic_direction, mode \in Modes(stream, params.measure_latency) :
       Measured(stream)
         /\ used[<<i, d, mode>>] + IdsNeeded(stream, mode) > pg_ids[<<i, d, mode>>].available

UseIds(stream, i) ==
  used' = [g \in Groups |->
    used[g] + IF /\ g[1] = i /\ g[2] \in stream.traffic_direction /\ Measured(stream)
                 /\ g[3] \in Modes(stream, params.measure_latency)
              THEN IdsNeeded(stream, g[3]) ELSE 0]

\* Device pairs in turn, and for each the streams of the profile.  Even a
\* stream that is skipped moves the flows of the next pair.
CreateStream ==
  LET i == PairOf(turn + 1)
      n == StreamOf(turn + 1)
      stream == profile[n]
  IN  /\ main = "create" /\ turn < NumPairs * Len(profile)
      /\ IF i \in stream.device_pairs /\ ~Skipped(stream) /\ CannotCreate(stream, i)
         THEN main' = "finally" /\ UNCHANGED createVars
         ELSE /\ turn' = turn + 1
              /\ UNCHANGED <<main, profile>>
              /\ IF i \in stream.device_pairs /\ ~Skipped(stream)
                 THEN chains' = chains \cup create_stream(n, i) /\ UseIds(stream, i)
                 ELSE UNCHANGED <<chains, used>>
              /\ flow_offset' = [flow_offset EXCEPT ![n] =
                                   @ + IF i \in stream.device_pairs THEN Flows(stream) ELSE 0]
      /\ UNCHANGED <<idVars, params, traffic, thread_exit, profilerVars, outcomeVars>>

StartProfiler ==
  /\ main = "create" /\ turn = NumPairs * Len(profile)
  /\ main' = IF \E c \in chains : c.kind = "standard" THEN "warmup" ELSE "add"
  /\ IF params.profiler THEN worker' = "running" /\ logger' = "opening"
     ELSE UNCHANGED <<worker, logger>>
  /\ UNCHANGED <<idVars, params, createVars, traffic, thread_exit, queue, sampled, logged, outcomeVars>>

\* A warmup that does not end in time, or fails, ends the program with 1.
Load ==
  /\ Step("warmup", "add") \/ Step("add", "sync") \/ Step("sync", "start")
  /\ UNCHANGED <<idVars, params, createVars, traffic, thread_exit, profilerVars, outcomeVars>>

Start ==
  /\ Step("start", "wait")
  /\ traffic' = IF main' = "wait" THEN "running" ELSE traffic
  /\ UNCHANGED <<idVars, params, createVars, thread_exit, profilerVars, outcomeVars>>

TrafficEnds ==
  /\ traffic = "running" /\ traffic' = "complete"
  /\ UNCHANGED <<idVars, params, main, createVars, thread_exit, profilerVars, outcomeVars>>

WaitReturns ==
  /\ main = "wait" /\ traffic = "complete"
  /\ main' = "exit"
  /\ UNCHANGED <<idVars, params, createVars, traffic, thread_exit, profilerVars, outcomeVars>>

\* The wait times out, or raises; the traffic is stopped.
WaitFails ==
  /\ main = "wait" /\ traffic = "running"
  /\ IF params.fault = "stop"
     THEN main' = "finally" /\ UNCHANGED <<traffic, timeout, force_quit>>
     ELSE /\ main' = "exit" /\ traffic' = "stopped"
          /\ timeout' = (params.fault # "wait") /\ force_quit' = (params.fault = "wait")
  /\ UNCHANGED <<idVars, params, createVars, thread_exit, profilerVars, result, return_value>>

\* Mistake: the threads are told to end only behind the traffic.
EndProfilerOnce ==
  /\ main \in {"exit", "finally"}
  /\ main' = IF main = "exit" THEN "stats" ELSE "disconnect"
  /\ thread_exit' = (thread_exit \/ main = "exit")
  /\ UNCHANGED <<idVars, params, createVars, traffic, profilerVars, outcomeVars>>

\* thread_exit.set(), behind the traffic and again in the finally clause.
EndProfiler ==
  /\ main \in {"exit", "finally"}
  /\ main' = IF main = "exit" THEN "stats" ELSE "disconnect"
  /\ thread_exit' = (thread_exit \/ worker # "none")
  /\ UNCHANGED <<idVars, params, createVars, traffic, profilerVars, outcomeVars>>

Joined == {worker, logger} \subseteq {"none", "ended", "no_file"}

Collect ==
  /\ main = "stats" /\ Joined
  /\ main' = "finally"
  /\ IF params.fault = "stats" THEN UNCHANGED <<result, return_value>>
     ELSE /\ result' = [printed |-> TRUE, timeout |-> timeout, force_quit |-> force_quit]
          /\ return_value' = 0
  /\ UNCHANGED <<idVars, params, createVars, traffic, thread_exit, profilerVars, timeout, force_quit>>

Disconnect ==
  /\ main = "disconnect" /\ Joined
  /\ main' = "done"
  /\ UNCHANGED <<idVars, params, createVars, traffic, thread_exit, profilerVars, outcomeVars>>

SetUp == LoadProfile \/ Connect \/ AssignIds \/ CreateStream \/ StartProfiler

MainStep == \/ Load \/ Start \/ WaitReturns \/ WaitFails
            \/ EndProfiler \/ Collect \/ Disconnect

-------------------------------------------------------------------------------
(* The profiler.                                                           *)

\* It looks at the event, queries and appends what it got.
WorkerStep ==
  /\ \/ /\ worker = "running" /\ ~thread_exit /\ sampled < MaxSamples
        /\ worker' = "querying" /\ UNCHANGED <<queue, sampled>>
     \/ /\ worker = "running" /\ thread_exit
        /\ worker' = "ended" /\ UNCHANGED <<queue, sampled>>
     \/ /\ worker = "querying"
        /\ IF params.fault = "sample" THEN worker' = "ended" /\ UNCHANGED <<queue, sampled>>
           ELSE worker' = "running" /\ queue' = queue + 1 /\ sampled' = sampled + 1
  /\ UNCHANGED <<idVars, params, main, createVars, traffic, thread_exit, logger, logged, outcomeVars>>

\* Mistake: the queue is left when the event is set.
GoesOnUntilExit == ~thread_exit

GoesOn == ~thread_exit \/ queue > 0

LoggerOpens ==
  /\ logger = "opening"
  /\ logger' = IF params.fault = "log" THEN "no_file" ELSE "running"
  /\ UNCHANGED <<queue, logged>>

LoggerLogs ==
  /\ logger = "running" /\ GoesOn /\ queue > 0
  /\ queue' = queue - 1 /\ logged' = logged + 1
  /\ UNCHANGED logger

LoggerEnds ==
  /\ logger = "running" /\ ~GoesOn
  /\ logger' = "ended"
  /\ UNCHANGED <<queue, logged>>

LoggerStep ==
  /\ LoggerOpens \/ LoggerLogs \/ LoggerEnds
  /\ UNCHANGED <<idVars, params, main, createVars, traffic, thread_exit, worker, sampled, outcomeVars>>

Next == SetUp \/ MainStep \/ WorkerStep \/ LoggerStep \/ TrafficEnds

\* All threads run; wait_on_traffic() has a timeout.  The loops of the set-up
\* are bounded.
Fairness == WF_vars(MainStep) /\ WF_vars(WorkerStep) /\ WF_vars(LoggerStep)

Spec == Init /\ [][Next]_vars
FairSpec == Spec /\ Fairness

-------------------------------------------------------------------------------
(* Properties.                                                             *)

ChainsOf(n, i, d, kind) ==
  {c \in chains : c.stream = n /\ c.pair = i /\ c.direction = d /\ c.kind = kind}

\* The rate at which a chain transmits at a tick, over all of its parts.
RateAt(c, t) ==
  SumFunctionOnSet([k \in DOMAIN c.parts |-> c.parts[k].rate],
                   {k \in DOMAIN c.parts : Transmits(c.parts, k, t)})

\* The rate that is offered for a stream at a tick, over all modes and packets.
Offered(n, i, d, t) ==
  LET measured == ChainsOf(n, i, d, "measurement")
  IN  SumFunctionOnSet([c \in measured |-> RateAt(c, t)], measured)

\* The rate the profile asks for, the "frame rate in pps" of the stream.  A
\* stream of latency packets alone has no more than --latency-rate for each
\* protocol, and nothing if latency is not measured.
RateAsked(stream) ==
  CASE ~stream.latency_only -> stream.rate
    [] stream.latency_only /\ stream.latency /\ params.measure_latency ->
         Shorter(stream.rate, Sharers(stream) * LatencyRate)
    [] OTHER -> 0

\* How often it is offered: the request and the response of a garp stream of one
\* protocol have the whole rate each.
Copies(stream) == IF stream.frame_type = "garp" /\ stream.protocols = 1 THEN 2 ELSE 1

\* Its substreams leave nothing out, and each takes a whole number of ticks.
SubstreamsFit(stream) ==
  LET modes == Modes(stream, params.measure_latency)
      all == SegmentsOf(stream)
  IN  \A r \in DOMAIN all, mode \in modes : \A k \in Transmissions(all[r]) :
        LET rate == RateOf(stream, modes, mode)
            packets == (rate * all[r][k].duration) \div Second
        IN  packets > MaxPackets =>
              packets % MaxPackets # 0 /\ (Second * MaxPackets) % rate = 0

\* At every moment of the trial a stream is offered at the rate, and only at
\* the times, the profile says: whatever gaps, repetitions, substreams, packets
\* and modes it is cut into.  A garp stream of one protocol has twice its rate,
\* against README-trex-txrx-profile.md:16.
OffersTheProfile ==
  main = "add" =>
    \A n \in DOMAIN profile, i \in Pairs, d \in Directions, t \in 0..(Runtime - 1) :
      LET stream == profile[n]
          measured == stream.enabled /\ Measured(stream)
      IN  /\ i \in stream.device_pairs /\ d \in stream.traffic_direction
          /\ measured /\ ~Skipped(stream) => SubstreamsFit(stream)
          => Offered(n, i, d, t) =
               IF measured /\ Scheduled(stream, t) THEN Copies(stream) * RateAsked(stream) ELSE 0

\* What a flow group counts is one chain, and one segment of it for latency;
\* device pairs that share a stream send different flows.
StreamsAreTold ==
  \A c, e \in {c \in chains : c.kind = "measurement"} :
    /\ \A k \in DOMAIN c.parts, l \in DOMAIN e.parts :
         c.parts[k].type = "tx" /\ e.parts[l].type = "tx" /\ c.parts[k].id = e.parts[l].id =>
           /\ c = e
           /\ c.parts[k].id \in IdsOf(<<c.pair, c.direction, c.mode>>)
           /\ c.mode = "latency" /\ k < l => c.parts[l].isg = 0
    /\ c.stream = e.stream /\ c.direction = e.direction /\ c.pair # e.pair =>
         c.flows \cap e.flows = {}

\* The device has been taught the hosts of a transmission at t: in the warmup
\* before the trial, or up to a second before t and not under its own traffic.
TaughtAt(n, i, d, t) ==
  \/ t = 0 /\ ChainsOf(n, i, Other(d), "standard") # {}
  \/ \E c \in ChainsOf(n, i, Other(d), "warmup") : \E k \in DOMAIN c.parts :
       LET begin == Begins(c.parts)[k]
       IN  /\ c.parts[k].type = "tx" /\ begin + PartTicks(c.parts[k]) = t - Second
           /\ \A u \in begin..(t - 1) : ~Scheduled(profile[n], u)

TaughtBefore(n, i, d) ==
  \A t \in {t \in 0..(Runtime - 1) : Scheduled(profile[n], t) /\ ~Scheduled(profile[n], t - 1)} :
    TaughtAt(n, i, d, t)

\* The burst that teaches fits in the pauses of the stream.
BurstFits(stream) ==
  LET needed == ((Second * Flows(stream)) \div TeachingRate(stream)) + Second
  IN  /\ stream.offset = 0 \/ stream.offset >= needed
      /\ stream.repeat => stream.repeat_delay >= needed

\* Every transmission of a stream with a teaching warmup is taught in time, for
\* as many flows as are taught in a second.
TaughtInTime ==
  main = "add" =>
    \A n \in DOMAIN profile, i \in Pairs, d \in Directions :
      /\ i \in profile[n].device_pairs /\ d \in profile[n].traffic_direction
      /\ Has(profile[n], "teaching_warmup") /\ ~Skipped(profile[n]) /\ BurstFits(profile[n])
      /\ Flows(profile[n]) <= TeachingRate(profile[n])
      => TaughtBefore(n, i, d)

\* "it also needs to be treated as 'null' to properly fill the timeline": for
\* any number of flows.
TimelineIsFilled ==
  main = "add" =>
    \A n \in DOMAIN profile, i \in Pairs, d \in Directions :
      /\ i \in profile[n].device_pairs /\ d \in profile[n].traffic_direction
      /\ Has(profile[n], "teaching_warmup") /\ ~Skipped(profile[n]) /\ BurstFits(profile[n])
      => TaughtBefore(n, i, d)

\* The log of a profiler that could open it lacks at most the sample that was
\* being taken when the threads were told to end.
SamplesAreLogged ==
  main = "done" /\ logger = "ended" => sampled - logged <= 1 /\ logged <= sampled

\* From the first client call behind the creation of the streams, and from any
\* exception, the process ends, its threads with it and not under its
\* connection: whatever call raises and whether the log could be opened.
ProcessEnds == main \in {"warmup", "add", "finally"} ~> main = "done" /\ Joined
===============================================================================
