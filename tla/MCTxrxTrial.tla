----------------------------- MODULE MCTxrxTrial -----------------------------
(***************************************************************************)
(* Command lines for the runs of TxrxTrial: one device pair with twelve    *)
(* counters per port, so that each direction has six ids, three for each   *)
(* of two protocols.                                                       *)
(***************************************************************************)
EXTENDS TxrxTrial

TwelveCounters == <<[d \in Directions |-> 12]>>
BothWays == Directions

Plain == [protocols |-> 1, imix |-> FALSE, segmented |-> TRUE, measure_latency |-> FALSE,
          teaching_warmup |-> FALSE, monitor |-> "on", lossy |-> {}, fault |-> "none"]

\* Every way to build streams; every fault; the monitor with a segment that
\* loses packets, and without, over one and two protocols.
SomeCommandLines ==
  [protocols : {1, 2}, imix : BOOLEAN, segmented : BOOLEAN, measure_latency : BOOLEAN,
   teaching_warmup : {FALSE}, monitor : {"off"}, lossy : {{}}, fault : {"add"}]
  \cup {[Plain EXCEPT !.teaching_warmup = TRUE, !.fault = fault, !.lossy = {2}] :
          fault \in Faults}
  \cup {[Plain EXCEPT !.monitor = "off"], [Plain EXCEPT !.lossy = {15}], [Plain EXCEPT !.monitor = "noop", !.lossy = {2}],
        [Plain EXCEPT !.protocols = 2, !.lossy = {2}]}
==============================================================================
