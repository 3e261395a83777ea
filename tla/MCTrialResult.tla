---------------------------- MODULE MCTrialResult ----------------------------
(***************************************************************************)
(* Traffic for the runs of TrialResult: two device pairs of opposite       *)
(* directions, the first with a default, a latency and a DDoS flow.        *)
(***************************************************************************)
EXTENDS TrialResult

TwoWay == <<"->", "<-">>

Flow(i, type, traffic) == [pair |-> i, type |-> type, traffic |-> traffic, planned |-> 10]

FourFlows == <<Flow(1, "default", "measurement"), Flow(1, "latency", "measurement"),
               Flow(1, "default", "ddos"), Flow(2, "default", "measurement")>>

Count(tx, rx) == [tx |-> tx, rx |-> rx, stray |-> FALSE, dup |-> FALSE, absent |-> FALSE]
Good == Count(10, 10)
GoodTraffic == <<Good, Good, Count(10, 0), Good>>

\* No loss, as much as is allowed, more, all, negative, and nothing sent.
Losses == {Good, Count(10, 9), Count(10, 8), Count(10, 7), Count(10, 0), Count(10, 11), Count(0, 0)}
Oddities == {Count(Missing, 10), Count(10, Missing), [Good EXCEPT !.stray = TRUE],
             [Good EXCEPT !.dup = TRUE], Absent}

Traffic ==
  {[GoodTraffic EXCEPT ![1] = a, ![2] = b] : a \in Losses, b \in {Good, Count(10, 9), Count(10, 8)}}
  \cup {[GoodTraffic EXCEPT ![f] = odd] : f \in 1..4, odd \in Losses \cup Oddities}

Params == {p \in StatParamType : p.use_device_stats => p.generator = "trex-txrx"}

Trial(params, traffic, early_exit, probes) ==
  [params |-> params, results |-> traffic, early_exit |-> early_exit, probes |-> probes]

NoProbing == [d \in {} |-> 0]
Probing == {[d \in {"->"} |-> [tx |-> 10, rx |-> rx]] : rx \in {0, 10}}
           \cup {[d \in {"->"} |-> [tx |-> 0, rx |-> 0]]}

TxrxParams == [generator |-> "trex-txrx", use_device_stats |-> FALSE, measure_latency |-> FALSE]
AstfParams == [TxrxParams EXCEPT !.generator = "trex-astf"]
ProfileParams == [TxrxParams EXCEPT !.generator = "trex-txrx-profile"]

SomeTrials ==
  {Trial(params, traffic, FALSE, NoProbing) :
     params \in {p \in Params : p.generator # "trex-astf"}, traffic \in Traffic}
  \cup {Trial(params, GoodTraffic, TRUE, NoProbing) : params \in {TxrxParams, AstfParams}}
  \cup {Trial(ProfileParams, GoodTraffic, FALSE, probes) : probes \in Probing}

EachGranularity ==
  [trial_mode : {"search"}, loss_granularity : {"direction", "device", "segment"},
   duplicate_packet_failure_mode : {"fail"}, negative_packet_loss_mode : {"retry-to-fail"},
   rate_tolerance_failure : {"fail"}, latency_directions : {{}}]
==============================================================================
