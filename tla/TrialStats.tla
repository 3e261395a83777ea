------------------------------ MODULE TrialStats ------------------------------
(***************************************************************************)
(* What the reader of the generator's stderr makes of a PARSABLE RESULT of *)
(* trex-txrx or trex-txrx-profile: counters per device pair and direction, *)
(* and the flaws that EvaluateTrial judges.                                *)
(*                                                                         *)
(* A flow is what one flow group id counts.  Its statistics are packets    *)
(* transmitted and received, Missing where the port is not listed, and     *)
(* what else was seen of it.  A flow may be Absent from the result.        *)
(***************************************************************************)
EXTENDS Integers, FiniteSets, Functions

CONSTANTS
  NumPairs,        \* length of test_dev_pairs
  Path,            \* the direction of each of them
  Layout,          \* for each flow: device pair, type, traffic_type, planned packets
  MaxLossPct,      \* --max-loss-pct
  RateTolerance    \* --rate-tolerance, in percent

Missing == -1
Absent == [tx |-> Missing, rx |-> Missing, stray |-> FALSE, dup |-> FALSE, absent |-> TRUE]

Flows == DOMAIN Layout
Pairs == 1..NumPairs
LayoutType == [pair : Pairs, type : {"default", "latency"},
               traffic : {"measurement", "ddos"}, planned : Nat]

\* What the result says of a flow.
FlowType == [tx : Nat \cup {Missing}, rx : Nat \cup {Missing},
             stray : BOOLEAN, dup : BOOLEAN, absent : BOOLEAN]

ASSUME StatsAssumption ==
  /\ NumPairs \in Nat \ {0}
  /\ Path \in [Pairs -> {"->", "<-"}]
  /\ IsFiniteSet(Flows) /\ Layout \in [Flows -> LayoutType]
  /\ MaxLossPct \in 0..99 /\ RateTolerance \in 0..99

\* The trial parameters the statistics depend on.
StatParamType == [generator : {"trex-txrx", "trex-txrx-profile", "trex-astf"},
                  use_device_stats : BOOLEAN, measure_latency : BOOLEAN]

-------------------------------------------------------------------------------
\* The flows the generator was asked for; trex-txrx knows no DDoS traffic.
Created(params) ==
  {f \in Flows : /\ Layout[f].type = "latency" => params.measure_latency
                 /\ Layout[f].traffic = "ddos" => params.generator = "trex-txrx-profile"}

\* With --use-device-stats only latency flows are looked at one by one.
Examined(params) ==
  {f \in Created(params) : params.use_device_stats => Layout[f].type = "latency"}

Packets(counter) == IF counter = Missing THEN 0 ELSE counter
SentBy(flows, results) == SumFunctionOnSet([f \in Flows |-> Packets(results[f].tx)], flows)
ReceivedOf(flows, results) == SumFunctionOnSet([f \in Flows |-> Packets(results[f].rx)], flows)
PlannedFor(flows) == SumFunctionOnSet([f \in Flows |-> Layout[f].planned], flows)

Of(flows, i) == {f \in flows : Layout[f].pair = i}
Latency(flows) == {f \in flows : Layout[f].type = "latency"}

\* Mistake: a loss that is reached counts as exceeded.
LossyWhenReached(tx, rx) == tx > 0 /\ 100 * (tx - rx) >= MaxLossPct * tx

\* More than --max-loss-pct of what was transmitted is lost.
Lossy(tx, rx) == tx > 0 /\ 100 * (tx - rx) > MaxLossPct * tx

-------------------------------------------------------------------------------
(* Flaws.                                                                  *)

Listed(flow) == flow.tx # Missing /\ flow.rx # Missing

FlowFlaws(layout, flow) ==
  {flaw \in {"wrong_port", "missing", "duplicate", "stream_negative_loss",
             "stream_total_loss", "stream_loss", "ddos"} :
     CASE flaw = "wrong_port" -> flow.stray
       [] flaw = "missing"    -> ~Listed(flow)
       [] flaw = "duplicate"  -> layout.type = "latency" /\ flow.rx # Missing /\ flow.dup
       [] OTHER ->
            /\ Listed(flow) /\ flow.tx > 0
            /\ CASE flaw = "stream_negative_loss" -> flow.rx > flow.tx
                 [] flaw = "ddos" -> layout.traffic = "ddos" /\ flow.rx \in 1..flow.tx
                 [] flaw = "stream_total_loss" -> layout.traffic = "measurement" /\ flow.rx = 0
                 [] flaw = "stream_loss" -> /\ layout.traffic = "measurement"
                                            /\ flow.rx # 0 /\ Lossy(flow.tx, flow.rx)}

\* A device pair counts every flow, whatever its traffic is.
PairTotals(params, results, i) ==
  LET flows == Of(IF params.use_device_stats THEN Created(params) ELSE Examined(params), i)
  IN  [tx |-> SentBy(flows, results), rx |-> ReceivedOf(flows, results),
       latency_tx |-> SentBy(Latency(flows), results),
       latency_rx |-> ReceivedOf(Latency(flows), results),
       planned |-> PlannedFor(Of(Created(params), i))]

PairFlaws(params, total) ==
  {flaw \in {"no_packets", "device_negative_loss", "device_loss", "device_latency_loss",
             "off_rate"} :
     CASE flaw = "no_packets"           -> total.tx = 0 \/ total.rx = 0
       [] flaw = "device_negative_loss" -> total.tx > 0 /\ total.rx > total.tx
       [] flaw = "device_loss"          -> Lossy(total.tx, total.rx)
       [] flaw = "device_latency_loss"  -> /\ params.measure_latency
                                           /\ Lossy(total.latency_tx, total.latency_rx)
       [] flaw = "off_rate" ->
            \/ 100 * total.tx > (100 + RateTolerance) * total.planned
            \/ 100 * total.tx < (100 - RateTolerance) * total.planned}

\* A direction leaves DDoS traffic out.  Where flows are added up, a latency
\* flow is added twice: as a flow and as a latency flow.
DirectionTotals(params, results, d) ==
  LET along == {f \in Created(params) : Path[Layout[f].pair] = d}
      flows == {f \in along \cap Examined(params) : Layout[f].traffic = "measurement"}
  IN  IF params.use_device_stats
      THEN [tx |-> SentBy(along, results), rx |-> ReceivedOf(along, results)]
      ELSE [tx |-> SentBy(flows, results) + SentBy(Latency(flows), results),
            rx |-> ReceivedOf(flows, results) + ReceivedOf(Latency(flows), results)]

DirectionFlaws(total) ==
  {flaw \in {"negative_loss", "total_loss", "loss"} :
     CASE flaw = "negative_loss" -> total.tx > 0 /\ total.rx > total.tx
       [] flaw = "total_loss"    -> total.tx > 0 /\ total.rx = 0
       [] flaw = "loss"          -> total.rx # 0 /\ Lossy(total.tx, total.rx)}

\* run_trial() adds what ptp-latency sent and received to the directions that
\* it measured, which index probes.
WithProbes(params, results, probes, d) ==
  LET total == DirectionTotals(params, results, d)
  IN  IF d \in DOMAIN probes
      THEN [tx |-> total.tx + probes[d].tx, rx |-> total.rx + probes[d].rx]
      ELSE total

\* All that is wrong with the traffic of a trial.
TrafficFlaws(params, results, probes) ==
  (UNION {FlowFlaws(Layout[f], results[f]) \X {Layout[f].pair} : f \in Examined(params)})
  \cup (UNION {PairFlaws(params, PairTotals(params, results, i)) \X {i} : i \in Pairs})
  \cup (UNION {DirectionFlaws(WithProbes(params, results, probes, d)) \X {d} :
                 d \in {"->", "<-"}})

-------------------------------------------------------------------------------
\* The reader raises: a flow that is not in the result, or a percentage of
\* nothing, which is guarded in some of the places where it is computed.
ReaderRaises(params, results) ==
  \/ \E f \in Examined(params) : results[f].absent
  \/ \E i \in Pairs :
       \/ params.use_device_stats /\ PairTotals(params, results, i).tx = 0
       \/ /\ params.generator = "trex-txrx" /\ params.measure_latency
          /\ PairTotals(params, results, i).latency_tx = 0
===============================================================================
