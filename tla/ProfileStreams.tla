--------------------------- MODULE ProfileStreams ---------------------------
(***************************************************************************)
(* How trex-txrx-profile.py turns one stream of a traffic profile into TRex*)
(* streams.  The stream's time is cut into segments in which it transmits  *)
(* and pauses; a chain of TRex streams, each started by the end of the one *)
(* before, goes through the segments: one chain per packet and per mode for*)
(* the measurement, chains for teaching the device where its hosts are.    *)
(*                                                                         *)
(* Time is counted in ticks, so that a burst may take part of a second.    *)
(***************************************************************************)
EXTENDS Integers, Sequences, SequencesExt, TLC

CONSTANTS
  Second,         \* ticks in a second
  Runtime,        \* --runtime, in ticks
  LatencyRate,    \* --latency-rate
  WarmupRate,     \* --teaching-warmup-packet-rate
  Interval,       \* --teaching-measurement-interval, in ticks
  MaxPackets      \* 2^32 - 1, what a TRex stream may count

ASSUME ProfileAssumption ==
  /\ {Second, Runtime, LatencyRate, WarmupRate, MaxPackets} \subseteq Nat \ {0} /\ Interval \in Nat
  /\ Runtime % Second = 0

-------------------------------------------------------------------------------
(* Loading.                                                                *)

\* What an entry of the profile that leaves things out gets.  A duration of 0
\* stands for None, protocols are those of the flow_mods.
Defaults ==
  [types |-> <<"measurement">>, frame_type |-> "generic", latency_only |-> FALSE,
   latency |-> TRUE, enabled |-> TRUE, protocols |-> 1, traffic_direction |-> {"->", "<-"},
   offset |-> 0, duration |-> 0, repeat |-> FALSE, repeat_flows |-> TRUE]

CeilDiv(n, m) == (n + m - 1) \div m

process_profile_stream(entry) ==
  LET given == entry @@ Defaults
  IN  [given EXCEPT !.flows = CeilDiv(@, given.protocols)] @@ [repeat_delay |-> given.offset]

-------------------------------------------------------------------------------
(* Segments.                                                               *)

Segment(type, duration, offset) ==
  [type |-> type, duration |-> duration, offset |-> offset, isg |-> 0]

Shorter(m, n) == IF m <= n THEN m ELSE n

TxDuration(stream) ==
  Shorter(IF stream.duration = 0 THEN Runtime ELSE stream.duration, Runtime - stream.offset)

\* The loop of a stream that repeats, from time t.
RepeatedFrom(stream) ==
  LET duration == TxDuration(stream)
      from[t \in Nat] ==
        LET over == t + duration
            pause == Shorter(stream.repeat_delay, Runtime - over)
        IN  IF t >= Runtime THEN <<>>
            ELSE IF duration > Runtime - t THEN <<Segment("tx", Runtime - t, t)>>
            ELSE <<Segment("tx", duration, t)>>
                   \o (IF pause > 0 \/ stream.repeat_delay = 0
                       THEN <<Segment("null", pause, over)>> ELSE <<>>)
                   \o from[over + pause]
  IN  from

build_stream_segments(stream) ==
  LET over == stream.offset + TxDuration(stream)
  IN  (IF stream.offset > 0 THEN <<Segment("null", stream.offset, 0)>> ELSE <<>>)
        \o IF stream.repeat THEN RepeatedFrom(stream)[stream.offset]
           ELSE <<Segment("tx", TxDuration(stream), stream.offset)>>
                  \o IF over < Runtime THEN <<Segment("null", Runtime - over, over)>> ELSE <<>>

Transmissions(segments) == {k \in DOMAIN segments : segments[k].type = "tx"}

\* A pause that is followed by a transmission.
Precedes(segments, k) ==
  /\ k \in 1..(Len(segments) - 1)
  /\ segments[k].type = "null" /\ segments[k + 1].type = "tx"

\* Mistake: such a pause is left out, and nothing takes its place.
GapForgotten(segments, k) == segments[k]

\* It becomes the inter-stream gap (isg) of the transmission.
WithGap(segments, k) ==
  IF ~Precedes(segments, k - 1) THEN segments[k]
  ELSE [segments[k] EXCEPT !.isg = segments[k - 1].duration,
                           !.offset = @ - segments[k - 1].duration]

build_measurement_segments(segments) ==
  FlattenSeq([k \in DOMAIN segments |->
    IF Precedes(segments, k) THEN <<>> ELSE <<WithGap(segments, k)>>])

\* In the warmup a burst that teaches takes the place of the pause, so that it
\* ends a second before the transmission, and the transmission is a pause.
build_warmup_segments(segments, burst) ==
  [k \in DOMAIN segments |->
     IF Precedes(segments, k)
     THEN [segments[k] EXCEPT !.type = "tx", !.duration = burst,
                              !.isg = segments[k].duration - burst - Second]
     ELSE IF Precedes(segments, k - 1)
     THEN [segments[k] EXCEPT !.type = "null", !.duration = @ + Second,
                              !.offset = @ - (burst + Second)]
     ELSE segments[k]]

\* A transmission at the start is taught before the trial, in a warmup of its own.
Standard(segments) == segments[1].type = "tx"

-------------------------------------------------------------------------------
(* TRex streams.                                                           *)

\* A dummy stream transmits one packet a second.
PartTicks(part) ==
  IF part.type = "null" THEN Second * CeilDiv(part.packets, part.rate)
  ELSE (Second * part.packets) \div part.rate

Part(segment, rate, packets, id) ==
  [type |-> segment.type, isg |-> segment.isg, rate |-> rate, packets |-> packets, id |-> id]

\* Substreams for more packets than a stream may count.  If they are a multiple
\* of MaxPackets, the code leaves one of the substreams out and an empty one in.
Split(part) ==
  LET remainder == part.packets % MaxPackets
      loops == (part.packets \div MaxPackets) - IF remainder = 0 THEN 1 ELSE 0
  IN  IF part.packets <= MaxPackets THEN <<part>>
      ELSE [k \in 1..(loops + 1) |->
              [part EXCEPT !.packets = IF k <= loops THEN MaxPackets ELSE remainder,
                           !.isg = IF k = 1 THEN @ ELSE 0]]

\* The chain of a packet; ids[k] is the flow group of the k-th segment.
MeasurementChain(segments, rate, ids) ==
  FlattenSeq([k \in DOMAIN segments |->
    Split(Part(segments[k], rate, (rate * segments[k].duration) \div Second, ids[k]))])

\* Mistake: a pause is reckoned as if all flows were taught every second.
WarmupPacketsOfFlows(segment, flows, rate) ==
  IF segment.type = "tx" THEN flows ELSE CeilDiv(flows * segment.duration, Second)

\* The packets of a pause are computed from the flows, in two ways.
WarmupPackets(segment, flows, rate) ==
  IF segment.type = "tx" THEN flows
  ELSE IF flows < rate THEN (rate * segment.duration) \div Second
  ELSE CeilDiv(flows * segment.duration, Second)

WarmupChain(segments, flows, rate) ==
  LET warm == build_warmup_segments(segments, (Second * flows) \div rate)
      timeline == IF Standard(segments) THEN [warm EXCEPT ![1].type = "null"] ELSE warm
  IN  IF Len(warm) = 1 /\ Standard(segments) THEN <<>>
      ELSE [k \in DOMAIN timeline |->
              Part(timeline[k], rate, WarmupPackets(timeline[k], flows, rate), 0)]

StandardChain(segments, flows, rate) ==
  IF Standard(segments) THEN <<Part(segments[1], rate, flows, 0)>> ELSE <<>>

\* Bursts of all flows, with pauses, as often as they fit in the segment.
TeachingChain(segments, flows, rate) ==
  LET burst == (Second * flows) \div rate
  IN  [k \in DOMAIN segments |->
         Part(segments[k], rate, flows * (segments[k].duration \div (Interval + burst)), 0)]

\* A packet per protocol, the request and the response of a garp, one of icmp
\* (and one that the profile itself gives, the_packet) whatever its protocols.
PacketCount(stream) ==
  CASE stream.frame_type = "generic" -> stream.protocols
    [] stream.frame_type = "garp" -> 2
    [] stream.frame_type = "icmp" -> 1

\* The rate is divided by the protocols, if there is more than one packet.
Sharers(stream) == IF PacketCount(stream) > 1 THEN stream.protocols ELSE 1

\* The rate of a packet is split among the modes.
RateOf(stream, modes, mode) ==
  LET rate == stream.rate \div Sharers(stream)
  IN  CASE mode = "latency" -> Shorter(rate, LatencyRate)
        [] mode = "default" /\ "latency" \in modes -> rate - LatencyRate
        [] OTHER -> rate

Modes(stream, measure_latency) ==
  LET latency == IF stream.latency /\ measure_latency THEN {"latency"} ELSE {}
      modes == latency \cup IF stream.latency_only THEN {} ELSE {"default"}
  IN  {mode \in modes : RateOf(stream, modes, mode) > 0}

Packets(stream) == 1..PacketCount(stream)
TeachingPackets(stream) == IF stream.frame_type = "garp" THEN {"request", "response"} ELSE {"first"}

\* A teaching type that is not the only one has the rate of the warmup, the
\* teaching measurement too.
TeachingRate(stream) == IF Len(stream.types) = 1 THEN stream.rate ELSE WarmupRate

\* Without repeat_flows each repetition is a stream of its own.
Repetitions(stream) ==
  LET segments == build_stream_segments(stream)
  IN  IF ~stream.repeat \/ stream.repeat_flows THEN <<stream>>
      ELSE FlattenSeq([k \in DOMAIN segments |->
             IF segments[k].type = "null" THEN <<>>
             ELSE <<[stream EXCEPT !.repeat = FALSE, !.repeat_flows = TRUE,
                                   !.duration = segments[k].duration,
                                   !.offset = segments[k].offset]>>])

-------------------------------------------------------------------------------
(* When a chain transmits.                                                 *)

\* The tick at which part k of a chain begins to transmit, or to pause.
Begins(parts) ==
  LET begin[k \in DOMAIN parts] ==
        parts[k].isg + IF k = 1 THEN 0 ELSE begin[k - 1] + PartTicks(parts[k - 1])
  IN  begin

Transmits(parts, k, t) ==
  /\ parts[k].type = "tx"
  /\ Begins(parts)[k] <= t /\ t < Begins(parts)[k] + PartTicks(parts[k])

\* What the profile says of a tick.
Scheduled(stream, t) ==
  LET since == t - stream.offset
      duration == IF stream.duration = 0 THEN Runtime ELSE stream.duration
  IN  /\ t \in 0..(Runtime - 1) /\ since >= 0
      /\ IF stream.repeat THEN since % (duration + stream.repeat_delay) < duration
         ELSE since < duration
===============================================================================
