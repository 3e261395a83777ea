------------------------- MODULE FlowGroupIds_proofs -------------------------
(***************************************************************************)
(* The flow group ids of different groups differ, for any number of device *)
(* pairs and any counters, and no port is asked for more than it has.      *)
(***************************************************************************)
EXTENDS FlowGroupIds, TLAPS

USE IdsAssumption

\* What every group has lies below the next free id, and nothing of one group
\* lies in another.
IdsType ==
  /\ pg_ids \in [Groups -> [start : Nat, available : Nat]]
  /\ pg_id_base \in Nat
  /\ pairs_done \in 0..NumPairs

BelowBase ==
  \A g \in Groups :
    /\ g[1] > pairs_done => pg_ids[g].available = 0
    /\ pg_ids[g].available > 0 => pg_ids[g].start + pg_ids[g].available <= pg_id_base

Before(g, h) == pg_ids[g].start + pg_ids[g].available <= pg_ids[h].start

Apart ==
  \A g, h \in Groups :
    g # h => \/ pg_ids[g].available = 0 \/ pg_ids[h].available = 0
             \/ Before(g, h) \/ Before(h, g)

IdsInv == IdsType /\ BelowBase /\ Apart /\ WithinCounters

LEMMA DivisionLemma ==
  ASSUME NEW a \in Nat, NEW b \in Nat \ {0}
  PROVE  /\ a \div b \in Nat
         /\ b * (a \div b) <= a
  OBVIOUS

\* An even part is no more than the whole, and its halves add up to it.
LEMMA EvenLemma ==
  ASSUME NEW n \in Nat
  PROVE  /\ Even(n) \in Nat /\ Even(n) <= n
         /\ Even(n) \div 2 \in Nat
         /\ Even(n) \div 2 + Even(n) \div 2 = Even(n)
  BY DEF Even

LEMMA ShareLemma ==
  ASSUME NEW n \in Nat, NEW d \in Directions
  PROVE  Share(n, d) \in Nat /\ Share(n, d) <= n
<1>1. Even(n) \in Nat /\ Even(n) <= n /\ Even(n) \div 2 \in Nat
      /\ Even(n) \div 2 + Even(n) \div 2 = Even(n)
  BY EvenLemma
<1>2. QED BY <1>1 DEF Share

\* A pair's share of the counters of a port, times the pairs, is not more than
\* the counters.
LEMMA MaxDefaultLemma ==
  ASSUME NEW i \in Pairs
  PROVE  /\ MaxDefault(i) \in Nat
         /\ \A d \in ActiveOf : NumPairs * MaxDefault(i) <= Counters[i][d]
<1>1. Counters[i]["->"] \in Nat /\ Counters[i]["<-"] \in Nat
  BY DEF Directions
<1>2. PICK n \in Nat : /\ MaxDefault(i) = n \div NumPairs
                       /\ \A d \in ActiveOf : n <= Counters[i][d]
  <2>1. CASE ActiveOf = {"->"}
    BY <1>1, <2>1 DEF MaxDefault
  <2>2. CASE ActiveOf = {"<-"}
    <3>1. ActiveOf # {"->"} /\ MaxDefault(i) = Counters[i]["<-"] \div NumPairs
      BY <2>2 DEF MaxDefault
    <3>2. QED
      BY <1>1, <2>2, <3>1
  <2>3. CASE ActiveOf = {"->", "<-"}
    <3>1. "->" \in ActiveOf /\ "<-" \in ActiveOf
      BY <2>3
    <3>2. ActiveOf # {"->"} /\ ActiveOf # {"<-"}
      BY <3>1
    <3>3. MaxDefault(i) = Lesser(Counters[i]["->"], Counters[i]["<-"]) \div NumPairs
      BY <3>2 DEF MaxDefault
    <3>4. QED
      BY <1>1, <2>3, <3>3 DEF Lesser
  <2>4. QED
    BY <2>1, <2>2, <2>3 DEF Directions
<1>3. n \div NumPairs \in Nat /\ NumPairs * (n \div NumPairs) <= n
  BY DivisionLemma
<1>4. ASSUME NEW d \in ActiveOf  PROVE NumPairs * MaxDefault(i) <= Counters[i][d]
  <2>1. Counters[i][d] \in Nat
    BY DEF Directions
  <2>2. QED
    BY <1>2, <1>3, <2>1
<1>5. QED
  BY <1>2, <1>3, <1>4

LEMMA MaxLatencyLemma == MaxLatency \in Nat
BY DivisionLemma DEF MaxLatency

\* A pair takes the shares of its four groups and no more.
LEMMA TakenLemma ==
  ASSUME NEW i \in Pairs
  PROVE  Taken(i) = Share(MaxDefault(i), "->") + Share(MaxLatency, "->")
                      + Share(MaxDefault(i), "<-") + Share(MaxLatency, "<-")
<1>1. MaxDefault(i) \in Nat /\ MaxLatency \in Nat
  BY MaxDefaultLemma, MaxLatencyLemma
<1>2. CASE ActiveOf = Directions
  <2>1. /\ Even(MaxDefault(i)) \div 2 + Even(MaxDefault(i)) \div 2 = Even(MaxDefault(i))
        /\ Even(MaxLatency) \div 2 + Even(MaxLatency) \div 2 = Even(MaxLatency)
        /\ Even(MaxDefault(i)) \div 2 \in Nat /\ Even(MaxLatency) \div 2 \in Nat
    BY <1>1, EvenLemma
  <2>2. "->" \in ActiveOf /\ "<-" \in ActiveOf
    BY <1>2 DEF Directions
  <2>3. \A n \in Nat : Share(n, "->") = Even(n) \div 2 /\ Share(n, "<-") = Even(n) \div 2
    BY <1>2, <2>2 DEF Share
  <2>4. Taken(i) = Even(MaxDefault(i)) + Even(MaxLatency)
    BY <1>2 DEF Taken
  <2>5. QED
    BY <1>1, <2>1, <2>3, <2>4
<1>3. CASE ActiveOf = {"->"} \/ ActiveOf = {"<-"}
  <2>1. ActiveOf # Directions
    BY <1>3 DEF Directions
  <2>2. Taken(i) = MaxDefault(i) + MaxLatency
    BY <2>1 DEF Taken
  <2>3. \A n \in Nat : \/ Share(n, "->") = n /\ Share(n, "<-") = 0
                       \/ Share(n, "->") = 0 /\ Share(n, "<-") = n
    BY <1>3, <2>1 DEF Share
  <2>4. CASE ActiveOf = {"->"}
    <3>1. \A n \in Nat : Share(n, "->") = n /\ Share(n, "<-") = 0
      BY <2>1, <2>4 DEF Share
    <3>2. QED
      BY <1>1, <2>2, <3>1
  <2>5. CASE ActiveOf = {"<-"}
    <3>1. \A n \in Nat : Share(n, "->") = 0 /\ Share(n, "<-") = n
      BY <2>1, <2>5 DEF Share
    <3>2. QED
      BY <1>1, <2>2, <3>1
  <2>6. QED
    BY <1>3, <2>4, <2>5
<1>4. QED
  BY <1>2, <1>3 DEF Directions

Given(i, g) == Share(IF g[3] = "default" THEN MaxDefault(i) ELSE MaxLatency, g[2])

\* What the loop gives to a group of its pair lies between the old base and
\* the new one, and apart from what the pair's other groups get.
LEMMA LayoutLemma ==
  ASSUME NEW i \in Pairs, pg_id_base \in Nat,
         NEW g \in Groups, g[1] = i, NEW h \in Groups, h[1] = i
  PROVE  /\ StartOf(i, g[2], g[3]) \in Nat /\ Given(i, g) \in Nat
         /\ pg_id_base <= StartOf(i, g[2], g[3])
         /\ StartOf(i, g[2], g[3]) + Given(i, g) <= pg_id_base + Taken(i)
         /\ g # h => \/ StartOf(i, g[2], g[3]) + Given(i, g) <= StartOf(i, h[2], h[3])
                     \/ StartOf(i, h[2], h[3]) + Given(i, h) <= StartOf(i, g[2], g[3])
<1> DEFINE d1 == Share(MaxDefault(i), "->")
           d2 == Share(MaxDefault(i), "<-")
           l1 == Share(MaxLatency, "->")
           l2 == Share(MaxLatency, "<-")
<1>1. d1 \in Nat /\ d2 \in Nat /\ l1 \in Nat /\ l2 \in Nat
  BY MaxDefaultLemma, MaxLatencyLemma, ShareLemma DEF Directions
<1>2. Taken(i) = d1 + l1 + d2 + l2
  BY TakenLemma
<1>3. ASSUME NEW x \in Groups, x[1] = i
      PROVE  \/ /\ x = <<i, "->", "default">>
                /\ StartOf(i, x[2], x[3]) = pg_id_base /\ Given(i, x) = d1
             \/ /\ x = <<i, "->", "latency">>
                /\ StartOf(i, x[2], x[3]) = pg_id_base + d1 /\ Given(i, x) = l1
             \/ /\ x = <<i, "<-", "default">>
                /\ StartOf(i, x[2], x[3]) = pg_id_base + d1 + l1 /\ Given(i, x) = d2
             \/ /\ x = <<i, "<-", "latency">>
                /\ StartOf(i, x[2], x[3]) = pg_id_base + d1 + l1 + d2 /\ Given(i, x) = l2
  <2>1. x = <<i, x[2], x[3]>> /\ x[2] \in {"->", "<-"} /\ x[3] \in {"default", "latency"}
    BY <1>3 DEF Groups, Directions, Types
  <2>2. CASE x[2] = "->" /\ x[3] = "default"
    BY <1>1, <2>1, <2>2 DEF StartOf, Given
  <2>3. CASE x[2] = "->" /\ x[3] = "latency"
    BY <1>1, <2>1, <2>3 DEF StartOf, Given
  <2>4. CASE x[2] = "<-" /\ x[3] = "default"
    BY <1>1, <2>1, <2>4 DEF StartOf, Given
  <2>5. CASE x[2] = "<-" /\ x[3] = "latency"
    BY <1>1, <2>1, <2>5 DEF StartOf, Given
  <2>6. QED
    BY <2>1, <2>2, <2>3, <2>4, <2>5
<1> HIDE DEF d1, d2, l1, l2
<1>4. QED
  BY <1>1, <1>2, <1>3

LEMMA IdsInitLemma == IdsInit => IdsInv
<1> SUFFICES ASSUME IdsInit PROVE IdsInv
  OBVIOUS
<1>1. IdsType
  BY DEF IdsInit, IdsType, NoIds
<1>2. \A g \in Groups : pg_ids[g].available = 0
  BY DEF IdsInit, NoIds
<1>3. BelowBase /\ Apart
  BY <1>2 DEF BelowBase, Apart
<1>4. WithinCounters
  <2>1. ASSUME NEW g \in Groups, g[3] = "default"
        PROVE  NumPairs * pg_ids[g].available <= Counters[g[1]][g[2]]
    <3>1. Counters[g[1]][g[2]] \in Nat
      BY DEF Groups
    <3>2. QED
      BY <1>2, <3>1
  <2>2. QED
    BY <2>1 DEF WithinCounters
<1>5. QED
  BY <1>1, <1>3, <1>4 DEF IdsInv

LEMMA AllocateLemma == IdsInv /\ AllocateIds => IdsInv'
<1> SUFFICES ASSUME IdsInv, AllocateIds PROVE IdsInv'
  OBVIOUS
<1> DEFINE i == pairs_done + 1
<1>1. /\ i \in Pairs /\ pairs_done' = i /\ pairs_done \in Nat
      /\ pg_id_base \in Nat /\ pg_id_base' = pg_id_base + Taken(i)
  BY DEF IdsInv, IdsType, AllocateIds, Pairs
<1>2. Taken(i) \in Nat
  BY <1>1, TakenLemma, MaxDefaultLemma, MaxLatencyLemma, ShareLemma DEF Directions
<1>3. ASSUME NEW g \in Groups, g[1] # i
      PROVE  pg_ids'[g] = pg_ids[g]
  BY <1>3 DEF AllocateIds
<1>4. ASSUME NEW g \in Groups, g[1] = i
      PROVE  /\ pg_ids'[g].start \in Nat
             /\ \/ pg_ids'[g] = NoIds
                \/ /\ g[2] \in ActiveOf
                   /\ pg_ids'[g] = [start |-> StartOf(i, g[2], g[3]), available |-> Given(i, g)]
  <2>1. CASE g[2] \notin ActiveOf
    BY <1>4, <2>1 DEF AllocateIds, NoIds
  <2>2. CASE g[2] \in ActiveOf
    <3>1. pg_ids'[g] = [start |-> StartOf(i, g[2], g[3]), available |-> Given(i, g)]
      BY <1>4, <2>2 DEF AllocateIds, Given
    <3>2. StartOf(i, g[2], g[3]) \in Nat
      BY <1>1, <1>4, LayoutLemma
    <3>3. QED
      BY <2>2, <3>1, <3>2
  <2>3. QED
    BY <2>1, <2>2
<1>5. ASSUME NEW g \in Groups, g[1] = i, pg_ids'[g].available > 0
      PROVE  /\ g[2] \in ActiveOf
             /\ pg_ids'[g].start = StartOf(i, g[2], g[3])
             /\ pg_ids'[g].available = Given(i, g)
             /\ Given(i, g) \in Nat /\ StartOf(i, g[2], g[3]) \in Nat
  <2>1. Given(i, g) \in Nat /\ StartOf(i, g[2], g[3]) \in Nat
    BY <1>1, <1>5, LayoutLemma
  <2>2. pg_ids'[g] # NoIds
    BY <1>5 DEF NoIds
  <2>3. /\ g[2] \in ActiveOf
        /\ pg_ids'[g] = [start |-> StartOf(i, g[2], g[3]), available |-> Given(i, g)]
    <3>1. g[1] = i
      BY <1>5
    <3>2. QED
      BY <1>4, <2>2, <3>1
  <2>4. QED
    BY <2>1, <2>3
<1> HIDE DEF i
<1>6. IdsType'
  <2>1. ASSUME NEW g \in Groups
        PROVE  pg_ids'[g] \in [start : Nat, available : Nat]
    <3>1. CASE g[1] # i
      BY <1>3, <3>1 DEF IdsInv, IdsType
    <3>2. CASE g[1] = i
      <4>1. Given(i, g) \in Nat /\ StartOf(i, g[2], g[3]) \in Nat
        BY <1>1, <3>2, LayoutLemma
      <4>2. \/ pg_ids'[g] = NoIds
            \/ pg_ids'[g] = [start |-> StartOf(i, g[2], g[3]), available |-> Given(i, g)]
        BY <1>4, <3>2
      <4>3. QED
        BY <4>1, <4>2 DEF NoIds
    <3>3. QED
      BY <3>1, <3>2
  <2>2. pg_ids' = [g \in Groups |-> pg_ids'[g]]
    BY DEF AllocateIds
  <2>3. QED
    BY <1>1, <1>2, <2>1, <2>2 DEF IdsType, Pairs
<1>7. BelowBase'
  <2>1. ASSUME NEW g \in Groups, g[1] # i
        PROVE  /\ g[1] > i => pg_ids'[g].available = 0
               /\ pg_ids'[g].available > 0 =>
                    pg_ids'[g].start + pg_ids'[g].available <= pg_id_base'
    <3>1. g[1] \in Nat /\ pg_ids[g].start \in Nat /\ pg_ids[g].available \in Nat
      BY DEF IdsInv, IdsType, Groups, Pairs
    <3>2. g[1] > i => g[1] > pairs_done
      BY <1>1, <3>1 DEF i
    <3>3. QED
      BY <1>1, <1>2, <1>3, <2>1, <3>1, <3>2 DEF IdsInv, BelowBase
  <2>2. ASSUME NEW g \in Groups, g[1] = i
        PROVE  pg_ids'[g].available > 0 =>
                 pg_ids'[g].start + pg_ids'[g].available <= pg_id_base'
    BY <1>1, <1>5, <2>2, LayoutLemma
  <2>3. QED
    BY <1>1, <2>1, <2>2 DEF BelowBase, Pairs
<1>8. Apart'
  <2>1. ASSUME NEW g \in Groups, g[1] # i, NEW h \in Groups, h[1] = i,
               pg_ids'[g].available # 0, pg_ids'[h].available # 0
        PROVE  Before(g, h)'
    <3>1. /\ pg_ids[g].start \in Nat /\ pg_ids[g].available \in Nat
          /\ pg_ids'[g] = pg_ids[g]
      BY <1>3, <2>1 DEF IdsInv, IdsType
    <3>2. pg_ids[g].start + pg_ids[g].available <= pg_id_base
      BY <2>1, <3>1 DEF IdsInv, BelowBase
    <3>3. pg_ids'[h].available > 0
      BY <1>6, <2>1 DEF IdsType
    <3>4. pg_ids'[h].start \in Nat /\ pg_id_base <= pg_ids'[h].start
      BY <1>1, <1>5, <2>1, <3>3, LayoutLemma
    <3>5. QED
      BY <1>1, <3>1, <3>2, <3>4 DEF Before
  <2>2. ASSUME NEW g \in Groups, g[1] = i, NEW h \in Groups, h[1] = i, g # h,
               pg_ids'[g].available # 0, pg_ids'[h].available # 0
        PROVE  Before(g, h)' \/ Before(h, g)'
    <3>1. pg_ids'[g].available > 0 /\ pg_ids'[h].available > 0
      BY <1>6, <2>2 DEF IdsType
    <3>2. QED
      BY <1>1, <1>5, <2>2, <3>1, LayoutLemma DEF Before
  <2>3. ASSUME NEW g \in Groups, g[1] # i, NEW h \in Groups, h[1] # i, g # h,
               pg_ids'[g].available # 0, pg_ids'[h].available # 0
        PROVE  Before(g, h)' \/ Before(h, g)'
    BY <1>3, <2>3 DEF IdsInv, Apart, Before
  <2>4. QED
    BY <2>1, <2>2, <2>3 DEF Apart
<1>9. WithinCounters'
  <2>1. ASSUME NEW g \in Groups, g[3] = "default", g[1] = i
        PROVE  NumPairs * pg_ids'[g].available <= Counters[g[1]][g[2]]
    <3>1. Counters[g[1]][g[2]] \in Nat
      BY DEF Groups
    <3>2. CASE pg_ids'[g].available > 0
      <4>1. pg_ids'[g].available = Share(MaxDefault(i), g[2]) /\ g[2] \in ActiveOf
        BY <1>5, <2>1, <3>2 DEF Given
      <4>2. MaxDefault(i) \in Nat /\ NumPairs * MaxDefault(i) <= Counters[g[1]][g[2]]
        BY <1>1, <2>1, <4>1, MaxDefaultLemma
      <4>3. Share(MaxDefault(i), g[2]) \in Nat /\ Share(MaxDefault(i), g[2]) <= MaxDefault(i)
        BY <4>2, ShareLemma DEF Groups
      <4>4. \A m, n \in Nat : m <= n => NumPairs * m <= NumPairs * n
        OBVIOUS
      <4>5. NumPairs * Share(MaxDefault(i), g[2]) <= NumPairs * MaxDefault(i)
        BY <4>2, <4>3, <4>4
      <4>6. QED
        BY <3>1, <4>1, <4>2, <4>3, <4>5
    <3>3. CASE pg_ids'[g].available = 0
      BY <3>1, <3>3
    <3>4. QED
      BY <1>6, <3>2, <3>3 DEF IdsType
  <2>2. QED
    BY <1>3, <2>1 DEF WithinCounters, IdsInv
<1>10. QED
  BY <1>6, <1>7, <1>8, <1>9 DEF IdsInv

LEMMA IdsStepLemma == IdsInv /\ [AllocateIds]_idVars => IdsInv'
<1>1. CASE UNCHANGED idVars
  BY <1>1 DEF idVars, IdsInv, IdsType, BelowBase, Apart, Before, WithinCounters
<1>2. QED
  BY <1>1, AllocateLemma

\* What is apart shares no id.
LEMMA ApartLemma == IdsInv => UniqueIds
<1> SUFFICES ASSUME IdsInv, NEW g \in Groups, NEW h \in Groups, g # h
             PROVE  IdsOf(g) \cap IdsOf(h) = {}
  BY DEF UniqueIds
<1>1. /\ pg_ids[g].start \in Nat /\ pg_ids[g].available \in Nat
      /\ pg_ids[h].start \in Nat /\ pg_ids[h].available \in Nat
  BY DEF IdsInv, IdsType
<1>2. \/ pg_ids[g].available = 0 \/ pg_ids[h].available = 0 \/ Before(g, h) \/ Before(h, g)
  BY DEF IdsInv, Apart
<1>3. QED
  BY <1>1, <1>2 DEF IdsOf, Before

LEMMA IdsInvariance == IdsSpec => []IdsInv
BY IdsInitLemma, IdsStepLemma, PTL DEF IdsSpec

\* The ids of default and latency streams of all pairs and directions differ,
\* as StreamsAreTold needs them to (trex-txrx.py 1055-1083).
THEOREM IdsAreUnique == IdsSpec => []UniqueIds
BY IdsInvariance, ApartLemma, PTL

\* All pairs together ask no port for more counters than it has, if they all
\* shared it (trex-txrx.py 1034-1053).
THEOREM IdsAreWithinCounters == IdsSpec => []WithinCounters
<1>1. IdsInv => WithinCounters
  BY DEF IdsInv
<1>2. QED
  BY <1>1, IdsInvariance, PTL
==============================================================================
