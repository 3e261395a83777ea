----------------------------- MODULE FlowGroupIds -----------------------------
(***************************************************************************)
(* The flow group ids (pg ids) that trex-txrx.py and trex-txrx-profile.py  *)
(* divide among device pairs, directions and types of streams.  The ids of *)
(* default streams take one of the flow counters of the receiving port,    *)
(* those of latency streams one of the 128 software counters of TRex.      *)
(***************************************************************************)
EXTENDS Integers

CONSTANTS
  NumPairs,       \* length of device_pairs
  Counters,       \* port_info[...]["rx"]["counters"] of the port receiving a direction
  SoftwareCounters, \* 128
  FirstId,        \* 1 in trex-txrx, 1000 in trex-txrx-profile
  ActiveOf        \* the directions that get ids; always both in trex-txrx-profile

Pairs == 1..NumPairs
Directions == {"->", "<-"}
Types == {"default", "latency"}
Groups == Pairs \X Directions \X Types

ASSUME IdsAssumption ==
  /\ NumPairs \in Nat \ {0}
  /\ Counters \in [Pairs -> [Directions -> Nat]]
  /\ SoftwareCounters \in Nat /\ FirstId \in Nat
  /\ ActiveOf \in (SUBSET Directions) \ {{}}

VARIABLES
  pg_ids,        \* start_index and available of each group that has ids
  pg_id_base,    \* the first id not given away
  pairs_done     \* the device pairs the loop has been through

idVars == <<pg_ids, pg_id_base, pairs_done>>

NoIds == [start |-> 0, available |-> 0]
IdsInit ==
  /\ pg_ids = [g \in Groups |-> NoIds]
  /\ pg_id_base = FirstId
  /\ pairs_done = 0

Lesser(m, n) == IF m <= n THEN m ELSE n
Even(n) == n - (n % 2)

\* max_default_pg_ids and max_latency_pg_ids of device pair i: every pair gets
\* the same share of the counters of its ports.
MaxDefault(i) ==
  (IF ActiveOf = {"->"} THEN Counters[i]["->"]
   ELSE IF ActiveOf = {"<-"} THEN Counters[i]["<-"]
   ELSE Lesser(Counters[i]["->"], Counters[i]["<-"])) \div NumPairs
MaxLatency == SoftwareCounters \div NumPairs

\* What direction d gets of n ids: half of them if it is not the only one.
Share(n, d) ==
  IF d \notin ActiveOf THEN 0 ELSE IF ActiveOf = Directions THEN Even(n) \div 2 ELSE n

\* Mistake: the ids of the latency streams are not stepped over.
StartOfDefaults(i, d, type) ==
  pg_id_base + (IF d = "<-" THEN Share(MaxDefault(i), "->") ELSE 0)
             + IF type = "latency" THEN Share(MaxDefault(i), d) ELSE 0

\* The ids of a pair one behind the other: "->" default, "->" latency, then "<-".
StartOf(i, d, type) ==
  LET forward == IF d = "<-" THEN Share(MaxDefault(i), "->") + Share(MaxLatency, "->") ELSE 0
  IN  pg_id_base + forward + IF type = "latency" THEN Share(MaxDefault(i), d) ELSE 0

Taken(i) == IF ActiveOf = Directions THEN Even(MaxDefault(i)) + Even(MaxLatency)
            ELSE MaxDefault(i) + MaxLatency

AllocateIds ==
  /\ pairs_done < NumPairs
  /\ pairs_done' = pairs_done + 1
  /\ pg_ids' = [g \in Groups |->
       IF g[1] # pairs_done + 1 THEN pg_ids[g]
       ELSE IF g[2] \notin ActiveOf THEN NoIds
       ELSE [start |-> StartOf(g[1], g[2], g[3]),
             available |-> Share(IF g[3] = "default" THEN MaxDefault(g[1]) ELSE MaxLatency, g[2])]]
  /\ pg_id_base' = pg_id_base + Taken(pairs_done + 1)

IdsSpec == IdsInit /\ [][AllocateIds]_idVars

-------------------------------------------------------------------------------
(* Properties.                                                             *)

IdsOf(g) == pg_ids[g].start .. (pg_ids[g].start + pg_ids[g].available - 1)

\* No id is given to two groups: the counters of a stream are its own, whatever
\* the number of pairs and the parity of the counters.
UniqueIds == \A g, h \in Groups : g # h => IdsOf(g) \cap IdsOf(h) = {}

\* A port is never asked to count more default streams than it has counters,
\* even if all pairs share them.
WithinCounters ==
  \A g \in Groups : g[3] = "default" => NumPairs * pg_ids[g].available <= Counters[g[1]][g[2]]
===============================================================================
