---------------------------- MODULE MCProfileTrial ----------------------------
(***************************************************************************)
(* Profiles for the runs of ProfileTrial: eleven seconds of half-second    *)
(* ticks, two device pairs with six flow group ids per direction and type. *)
(* Rates are such that all substreams fit.                                 *)
(***************************************************************************)
EXTENDS ProfileTrial

BothWays == Directions
Enough == <<[d \in Directions |-> 24], [d \in Directions |-> 25]>>

Timings ==
  {[offset |-> 0], [offset |-> 4], [duration |-> 6], [offset |-> 4, duration |-> 6],
   [offset |-> 22], [enabled |-> FALSE],
   [repeat |-> TRUE, duration |-> 6, offset |-> 4],
   [repeat |-> TRUE, duration |-> 6, repeat_delay |-> 4],
   [repeat |-> TRUE, duration |-> 6, repeat_delay |-> 4, repeat_flows |-> FALSE],
   [repeat |-> TRUE, duration |-> 10, repeat_delay |-> 0]}

Taught == <<"measurement", "teaching_warmup", "teaching_measurement">>

Entry(latency, protocols, types) ==
  [flows |-> 4 * protocols, rate |-> protocols * (IF latency THEN 10 ELSE 8),
   latency |-> latency, protocols |-> protocols, types |-> types, device_pairs |-> Pairs]

Run(entries) == [entries |-> entries, measure_latency |-> TRUE, profiler |-> FALSE, fault |-> "none"]

Garp == [frame_type |-> "garp"]
Icmp == [frame_type |-> "icmp"]
OneWay == [traffic_direction |-> {"->"}]

Short == Entry(FALSE, 1, Taught)

\* Every timing with every way to split a stream; several streams at once, too
\* few flows, too few ids; every fault with the profiler.
SomeParams ==
  {Run(<<timing @@ Entry(latency, protocols, Taught)>>) :
     timing \in Timings, latency \in BOOLEAN, protocols \in {1, 2}}
  \cup {Run(<<timing @@ Garp @@ Entry(latency, 1, Taught)>>) :
          timing \in Timings, latency \in BOOLEAN}
  \cup {Run(<<frame @@ Entry(latency, 2, Taught)>>) : frame \in {Garp, Icmp}, latency \in BOOLEAN}
  \cup {Run(<<Entry(TRUE, 1, <<"ddos">>), OneWay @@ Entry(FALSE, 2, <<"measurement">>),
              [device_pairs |-> {2}] @@ Entry(TRUE, 1, <<"teaching_warmup">>),
              [latency_only |-> TRUE] @@ Entry(TRUE, 1, <<"measurement">>),
              [rate |-> 2] @@ Entry(TRUE, 1, <<"measurement">>)>>),
        Run(<<[flows |-> 1] @@ Short>>), Run(<<Short, Short, Short, Short, Short, Short, Short>>)}
  \cup {[Run(<<Short>>) EXCEPT !.profiler = TRUE, !.fault = fault] : fault \in Faults}

\* Four times as many flows as are taught in a second.
ManyFlows ==
  {Run(<<[flows |-> 16, device_pairs |-> {1}, repeat |-> TRUE, duration |-> 2, repeat_delay |-> 10]
           @@ Short>>)}
==============================================================================
