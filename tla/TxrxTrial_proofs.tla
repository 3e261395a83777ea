-------------------------- MODULE TxrxTrial_proofs --------------------------
(***************************************************************************)
(* What trex-txrx.py reports is counted under the right ids, judged fairly *)
(* and flagged, for any number of device pairs, counters and segments.     *)
(***************************************************************************)
EXTENDS TxrxTrial, FlowGroupIds_proofs

-----------------------------------------------------------------------------
(* Streams are told by their ids.                                          *)

\* The streams are those of create_traffic_profile() once they are created.
Built ==
  \/ streams = [g \in Groups |-> <<>>]
  \/ main \notin {"connect", "ports", "ids"} /\ streams = [g \in Groups |-> StreamIds(g)]

BuiltInv == IdsInv /\ params \in ParamType /\ Built

\* The j-th stream of protocol p has the id start + p + stride * (j - 1), and
\* there are no more of them than ids.
Stride == IF params.imix THEN 2 ELSE params.protocols

LEMMA ProtocolLemma ==
  ASSUME IdsType, params \in ParamType, NEW g \in Groups, NEW p \in {0, 1},
         p < params.protocols, pg_ids[g].available >= IdsTakenUnasked
  PROVE  /\ IdsOfProtocol(g, p) \in Seq(Nat)
         /\ \A j \in DOMAIN IdsOfProtocol(g, p) :
              /\ IdsOfProtocol(g, p)[j] = pg_ids[g].start + p + Stride * (j - 1)
              /\ IdsOfProtocol(g, p)[j] \in IdsOf(g)
<1>1. /\ pg_ids[g].start \in Nat /\ pg_ids[g].available \in Nat
      /\ params.protocols \in {1, 2} /\ params.imix \in BOOLEAN /\ params.segmented \in BOOLEAN
  BY DEF IdsType, ParamType
<1> DEFINE first == pg_ids[g].start + p
<1>2. CASE params.imix /\ params.segmented
  <2>1. IdsOfProtocol(g, p) = <<>>
    BY <1>2 DEF IdsOfProtocol
  <2>2. QED
    BY <2>1
<1>3. CASE params.imix /\ ~params.segmented
  <2>1. IdsOfProtocol(g, p) = <<first, first + 2, first + 4>>
    BY <1>3 DEF IdsOfProtocol
  <2>2. pg_ids[g].available >= 6 /\ Stride = 2
    BY <1>3 DEF IdsTakenUnasked, Stride
  <2>3. /\ DOMAIN IdsOfProtocol(g, p) = {1, 2, 3}
        /\ IdsOfProtocol(g, p)[1] = first
        /\ IdsOfProtocol(g, p)[2] = first + 2
        /\ IdsOfProtocol(g, p)[3] = first + 4
        /\ IdsOfProtocol(g, p) \in Seq(Nat)
    BY <1>1, <2>1
  <2>4. {first, first + 2, first + 4} \subseteq IdsOf(g)
    BY <1>1, <2>2 DEF IdsOf
  <2>5. /\ first = first + 2 * (1 - 1) /\ first + 2 = first + 2 * (2 - 1)
        /\ first + 4 = first + 2 * (3 - 1)
    BY <1>1
  <2>6. QED
    BY <2>2, <2>3, <2>4, <2>5
<1>4. CASE ~params.imix /\ ~params.segmented
  <2>1. IdsOfProtocol(g, p) = <<first>>
    BY <1>4 DEF IdsOfProtocol
  <2>2. pg_ids[g].available >= params.protocols
    BY <1>4 DEF IdsTakenUnasked
  <2>3. /\ DOMAIN IdsOfProtocol(g, p) = {1}
        /\ IdsOfProtocol(g, p)[1] = first
        /\ IdsOfProtocol(g, p) \in Seq(Nat)
    BY <1>1, <2>1
  <2>4. QED
    BY <1>1, <2>2, <2>3 DEF IdsOf, Stride
<1>5. CASE ~params.imix /\ params.segmented
  <2> DEFINE n == SegmentCount[g]
  <2>1. IdsOfProtocol(g, p) = [k \in 1..n |-> first + params.protocols * (k - 1)]
    BY <1>5 DEF IdsOfProtocol
  <2>2. n \in Nat /\ params.protocols * n <= pg_ids[g].available
    <3>1. CASE params.protocols = 1
      BY <1>1, <3>1 DEF SegmentCount, Available
    <3>2. CASE params.protocols = 2
      BY <1>1, <3>2 DEF SegmentCount, Available, Even
    <3>3. QED
      BY <1>1, <3>1, <3>2
  <2> HIDE DEF n
  <2>3. ASSUME NEW j \in 1..n
        PROVE  /\ first + params.protocols * (j - 1) \in Nat
               /\ first + params.protocols * (j - 1) \in IdsOf(g)
    <3>1. CASE params.protocols = 1
      BY <1>1, <2>2, <3>1 DEF IdsOf
    <3>2. CASE params.protocols = 2
      BY <1>1, <2>2, <3>2 DEF IdsOf
    <3>3. QED
      BY <1>1, <3>1, <3>2
  <2>4. Stride = params.protocols
    BY <1>5 DEF Stride
  <2>5. DOMAIN IdsOfProtocol(g, p) = 1..n
    BY <2>1
  <2>6. \A j \in 1..n : IdsOfProtocol(g, p)[j] = first + params.protocols * (j - 1)
    BY <2>1
  <2>7. IdsOfProtocol(g, p) \in Seq(Nat)
    BY <2>1, <2>2, <2>3
  <2>8. QED
    BY <2>3, <2>4, <2>5, <2>6, <2>7
<1>6. QED
  BY <1>1, <1>2, <1>3, <1>4, <1>5

\* The ids of a group are its own, and none is used twice.
LEMMA StreamIdsLemma ==
  ASSUME IdsType, params \in ParamType, NEW g \in Groups,
         StreamIds(g) # <<>> => pg_ids[g].available >= IdsTakenUnasked
  PROVE  /\ StreamIds(g) \in Seq(Nat)
         /\ \A k \in DOMAIN StreamIds(g) : StreamIds(g)[k] \in IdsOf(g)
         /\ \A k, l \in DOMAIN StreamIds(g) : StreamIds(g)[k] = StreamIds(g)[l] => k = l
<1>1. CASE StreamIds(g) = <<>>
  BY <1>1
<1>2. CASE StreamIds(g) # <<>>
  <2> DEFINE tcp == IdsOfProtocol(g, 0)
             udp == IdsOfProtocol(g, 1)
  <2>1. /\ pg_ids[g].start \in Nat /\ pg_ids[g].available \in Nat
        /\ params.protocols \in {1, 2} /\ params.imix \in BOOLEAN
        /\ pg_ids[g].available >= IdsTakenUnasked
    BY <1>2 DEF IdsType, ParamType
  <2>2. /\ tcp \in Seq(Nat)
        /\ \A j \in DOMAIN tcp : tcp[j] = pg_ids[g].start + Stride * (j - 1) /\ tcp[j] \in IdsOf(g)
    BY <2>1, ProtocolLemma
  <2>3. StreamIds(g) = tcp \o IF params.protocols = 2 THEN udp ELSE <<>>
    BY <1>2 DEF StreamIds
  <2>4. Stride \in {1, 2} /\ (params.protocols = 2 => Stride = 2)
    BY <2>1 DEF Stride
  <2>5. CASE params.protocols = 1
    <3>1. StreamIds(g) = tcp
      BY <2>2, <2>3, <2>5
    <3> HIDE DEF tcp
    <3>2. ASSUME NEW k \in DOMAIN tcp, NEW l \in DOMAIN tcp, tcp[k] = tcp[l]
          PROVE  k = l
      <4>1. k \in Nat /\ l \in Nat /\ pg_ids[g].start \in Nat
        BY <2>1, <2>2
      <4>2. pg_ids[g].start + Stride * (k - 1) = pg_ids[g].start + Stride * (l - 1)
        BY <2>2, <3>2
      <4>3. CASE Stride = 1
        BY <4>1, <4>2, <4>3
      <4>4. CASE Stride = 2
        BY <4>1, <4>2, <4>4
      <4>5. QED
        BY <2>4, <4>3, <4>4
    <3>3. QED
      BY <2>2, <3>1, <3>2
  <2>6. CASE params.protocols = 2
    <3>1. /\ udp \in Seq(Nat)
          /\ \A j \in DOMAIN udp : udp[j] = pg_ids[g].start + 1 + Stride * (j - 1) /\ udp[j] \in IdsOf(g)
      BY <2>1, <2>6, ProtocolLemma
    <3>2. StreamIds(g) = tcp \o udp /\ Stride = 2
      BY <2>3, <2>4, <2>6
    <3> HIDE DEF tcp, udp
    <3>3. /\ tcp \o udp \in Seq(Nat)
          /\ DOMAIN tcp = 1..Len(tcp) /\ DOMAIN udp = 1..Len(udp)
          /\ Len(tcp) \in Nat /\ Len(udp) \in Nat
          /\ DOMAIN (tcp \o udp) = 1..(Len(tcp) + Len(udp))
          /\ \A k \in 1..(Len(tcp) + Len(udp)) :
               (tcp \o udp)[k] = IF k <= Len(tcp) THEN tcp[k] ELSE udp[k - Len(tcp)]
      BY <2>2, <3>1
    <3>4. ASSUME NEW k \in 1..(Len(tcp) + Len(udp))
          PROVE  \/ /\ k \in DOMAIN tcp /\ (tcp \o udp)[k] = pg_ids[g].start + 2 * (k - 1)
                    /\ (tcp \o udp)[k] \in IdsOf(g)
                 \/ /\ k - Len(tcp) \in DOMAIN udp
                    /\ (tcp \o udp)[k] = pg_ids[g].start + 1 + 2 * (k - Len(tcp) - 1)
                    /\ (tcp \o udp)[k] \in IdsOf(g)
      <4>1. CASE k <= Len(tcp)
        <5>1. k \in DOMAIN tcp /\ (tcp \o udp)[k] = tcp[k]
          BY <3>3, <4>1
        <5>2. QED
          BY <2>2, <3>2, <5>1
      <4>2. CASE k > Len(tcp)
        <5>1. k - Len(tcp) \in DOMAIN udp /\ (tcp \o udp)[k] = udp[k - Len(tcp)]
          BY <3>3, <4>2
        <5>2. QED
          BY <3>1, <3>2, <5>1
      <4>3. QED
        BY <3>3, <4>1, <4>2
    <3>5. ASSUME NEW k \in 1..(Len(tcp) + Len(udp)), NEW l \in 1..(Len(tcp) + Len(udp)),
                 (tcp \o udp)[k] = (tcp \o udp)[l]
          PROVE  k = l
      <4>1. /\ k \in Nat /\ l \in Nat /\ pg_ids[g].start \in Nat /\ Len(tcp) \in Nat
        BY <2>1, <3>3
      <4>2. \/ (tcp \o udp)[k] = pg_ids[g].start + 2 * (k - 1) /\ k \in DOMAIN tcp
            \/ /\ (tcp \o udp)[k] = pg_ids[g].start + 1 + 2 * (k - Len(tcp) - 1)
               /\ k - Len(tcp) \in DOMAIN udp
        BY <3>4
      <4>3. \/ (tcp \o udp)[l] = pg_ids[g].start + 2 * (l - 1) /\ l \in DOMAIN tcp
            \/ /\ (tcp \o udp)[l] = pg_ids[g].start + 1 + 2 * (l - Len(tcp) - 1)
               /\ l - Len(tcp) \in DOMAIN udp
        BY <3>4
      <4>4. \A start, n, a, b \in Nat :
              /\ start + 2 * (a - 1) = start + 2 * (b - 1) => a = b
              /\ start + 2 * (a - 1) # start + 1 + 2 * (b - n - 1)
              /\ start + 1 + 2 * (a - n - 1) = start + 1 + 2 * (b - n - 1) => a = b
        OBVIOUS
      <4> DEFINE start == pg_ids[g].start
                 n == Len(tcp)
                 x == (tcp \o udp)[k]
                 y == (tcp \o udp)[l]
      <4>5. x = start + 2 * (k - 1) \/ x = start + 1 + 2 * (k - n - 1)
        BY <4>2
      <4>6. y = start + 2 * (l - 1) \/ y = start + 1 + 2 * (l - n - 1)
        BY <4>3
      <4>7. x = y /\ start \in Nat /\ n \in Nat
        BY <3>5, <4>1
      <4> HIDE DEF start, n, x, y
      <4>8. QED
        BY <4>1, <4>4, <4>5, <4>6, <4>7
    <3>6. QED
      BY <3>2, <3>3, <3>4, <3>5
  <2>7. QED
    BY <2>1, <2>5, <2>6
<1>3. QED
  BY <1>1, <1>2

Early == {"connect", "ports", "ids"}

\* Only two steps build streams; the others leave them alone, and main() does
\* not come back to where they are built.
LEMMA KeptLemma ==
  ASSUME [Next]_vars, ~CreateStreams, ~AssignIds
  PROVE  /\ UNCHANGED <<idVars, params, streams>>
         /\ main \notin Early => main' \notin Early
<1>1. CASE Prepare
  BY <1>1 DEF Prepare, Step, Setup, Early
<1>2. CASE Load \/ Start \/ WaitReturns \/ WaitFails \/ EndMonitor \/ Collect \/ Disconnect
  BY <1>2 DEF Load, Start, Step, WaitReturns, WaitFails, EndMonitor, Collect, Disconnect, Early
<1>3. CASE MonitorStep
  BY <1>3 DEF MonitorStep, MonitorEndsLoop, MonitorLooks, MonitorJudges, MonitorEnds
<1>4. CASE SegmentEnds \/ PacketsArrive \/ TrafficEnds \/ UNCHANGED vars
  BY <1>4 DEF SegmentEnds, PacketsArrive, TrafficEnds, vars
<1>5. QED
  BY <1>1, <1>2, <1>3, <1>4 DEF Next, MainStep

LEMMA IdsStepOfTrial == [Next]_vars => [AllocateIds]_idVars
<1> SUFFICES ASSUME [Next]_vars PROVE [AllocateIds]_idVars
  OBVIOUS
<1>1. CASE AssignIds
  BY <1>1 DEF AssignIds
<1>2. CASE CreateStreams
  BY <1>2 DEF CreateStreams
<1>3. CASE ~AssignIds /\ ~CreateStreams
  BY <1>3, KeptLemma
<1>4. QED
  BY <1>1, <1>2, <1>3

LEMMA BuiltInit == Init => BuiltInv
<1> SUFFICES ASSUME Init PROVE BuiltInv
  OBVIOUS
<1>1. IdsInv
  BY IdsInitLemma DEF Init
<1>2. params \in ParamType
  BY ParamsAssumption DEF Init
<1>3. Built
  BY DEF Init, Built
<1>4. QED
  BY <1>1, <1>2, <1>3 DEF BuiltInv

LEMMA BuiltStep == BuiltInv /\ [Next]_vars => BuiltInv'
<1> SUFFICES ASSUME BuiltInv, [Next]_vars PROVE BuiltInv'
  OBVIOUS
<1>1. IdsInv'
  BY IdsStepOfTrial, IdsStepLemma DEF BuiltInv
<1>2. CASE AssignIds
  <2>1. streams = [g \in Groups |-> <<>>]
    BY <1>2 DEF BuiltInv, Built, AssignIds
  <2>2. UNCHANGED <<params, streams>>
    BY <1>2 DEF AssignIds
  <2>3. QED
    BY <1>1, <2>1, <2>2 DEF BuiltInv, Built
<1>3. CASE CreateStreams
  <2>1. UNCHANGED <<idVars, params>> /\ streams' = [g \in Groups |-> StreamIds(g)]
        /\ main' \in {"warmup", "add"}
    BY <1>3 DEF CreateStreams
  <2>2. [g \in Groups |-> StreamIds(g)]' = [g \in Groups |-> StreamIds(g)]
    BY <2>1 DEF idVars, StreamIds, IdsOfProtocol, SegmentCount, Available
  <2>3. QED
    BY <1>1, <2>1, <2>2 DEF BuiltInv, Built
<1>4. CASE ~AssignIds /\ ~CreateStreams
  <2>1. UNCHANGED <<idVars, params, streams>> /\ (main \notin Early => main' \notin Early)
    BY <1>4, KeptLemma
  <2>2. [g \in Groups |-> StreamIds(g)]' = [g \in Groups |-> StreamIds(g)]
    BY <2>1 DEF idVars, StreamIds, IdsOfProtocol, SegmentCount, Available
  <2>3. QED
    BY <1>1, <2>1, <2>2 DEF BuiltInv, Built, Early
<1>5. QED
  BY <1>2, <1>3, <1>4

\* A stream has a group, and no other.
LEMMA OwnGroupLemma ==
  ASSUME BuiltInv,
         \A g \in Groups : streams[g] # <<>> => pg_ids[g].available >= IdsTakenUnasked,
         NEW g \in Groups, NEW k \in DOMAIN streams[g]
  PROVE  /\ streams[g] \in Seq(Nat)
         /\ streams[g][k] \in IdsOf(g)
         /\ \A l \in DOMAIN streams[g] : streams[g][k] = streams[g][l] => k = l
         /\ \A h \in Groups \ {g} : \A l \in DOMAIN streams[h] : streams[g][k] # streams[h][l]
<1>1. streams = [h \in Groups |-> StreamIds(h)]
  BY DEF BuiltInv, Built
<1>2. ASSUME NEW h \in Groups
      PROVE  /\ streams[h] \in Seq(Nat)
             /\ \A l \in DOMAIN streams[h] : streams[h][l] \in IdsOf(h)
             /\ \A l, m \in DOMAIN streams[h] : streams[h][l] = streams[h][m] => l = m
  <2>1. streams[h] = StreamIds(h)
    BY <1>1
  <2>2. IdsType /\ params \in ParamType
    BY DEF BuiltInv, IdsInv
  <2>3. QED
    BY <2>1, <2>2, StreamIdsLemma
<1>3. UniqueIds
  BY ApartLemma DEF BuiltInv
<1>4. ASSUME NEW h \in Groups \ {g}, NEW l \in DOMAIN streams[h]
      PROVE  streams[g][k] # streams[h][l]
  BY <1>2, <1>3 DEF UniqueIds
<1>5. QED
  BY <1>2, <1>4

LEMMA ToldLemma == BuiltInv => StreamsAreTold
<1> SUFFICES ASSUME BuiltInv,
                    \A g \in Groups : streams[g] # <<>> => pg_ids[g].available >= IdsTakenUnasked,
                    NEW g \in Groups, NEW h \in Groups,
                    NEW k \in DOMAIN streams[g], NEW l \in DOMAIN streams[h]
             PROVE  /\ streams[g][k] = streams[h][l] => <<g, k>> = <<h, l>>
                    /\ streams[g][k] \in IdsOf(g)
  BY DEF StreamsAreTold
<1>1. QED
  BY OwnGroupLemma

LEMMA BuiltInvariance == Spec => []BuiltInv
BY BuiltInit, BuiltStep, PTL DEF Spec

\* No counter of a trial belongs to two streams, for any number of device pairs
\* and any counters of their ports (trex-txrx.py 116-380, 1055-1083).
THEOREM StreamsToldByIds == Spec => []StreamsAreTold
BY BuiltInvariance, ToldLemma, PTL

-----------------------------------------------------------------------------
(* Judged fairly.                                                          *)

\* Segments are transmitted one behind the other, and one that is over has
\* arrived before the next one is over.
Chain ==
  /\ sending \cup ended \subseteq AllIds
  /\ \A id \in sending \cup ended, other \in AllIds :
       id \in NextSegment(other) => other \in ended /\ (id \in ended => other \in settled)

\* What is judged has arrived.
Arrived ==
  params.protocols = 1 => \A g \in DOMAIN to_analyze : to_analyze[g] \in settled

MonitorInv ==
  /\ main \in Early => sending = {} /\ ended = {} /\ monitor = "none"
  /\ monitor # "none" => params.segmented
  /\ current_index \in [Groups -> Nat \ {0, 1}]

FairInv == MonitorInv /\ Chain /\ Arrived /\ JudgedFairly

LEMMA FairInit == Init => FairInv
<1> SUFFICES ASSUME Init PROVE FairInv
  OBVIOUS
<1>1. MonitorInv
  BY DEF Init, MonitorInv
<1>2. Chain
  BY DEF Init, Chain
<1>3. Arrived /\ JudgedFairly
  BY DEF Init, Arrived, JudgedFairly
<1>4. QED
  BY <1>1, <1>2, <1>3 DEF FairInv

LEMMA SameStreamsLemma ==
  ASSUME UNCHANGED <<params, streams>>
  PROVE  /\ AllIds' = AllIds
         /\ \A id : NextSegment(id)' = NextSegment(id)
BY DEF AllIds, NextSegment, GroupOf

LEMMA AllIdsLemma ==
  ASSUME BuiltInv, params.segmented
  PROVE  /\ \A g \in Groups : streams[g] # <<>> => pg_ids[g].available >= IdsTakenUnasked
         /\ \A g \in Groups : \A k \in DOMAIN streams[g] :
              streams[g][k] \in AllIds /\ streams[g][k] \in Nat /\ GroupOf(streams[g][k]) = g
<1>1. ASSUME NEW g \in Groups, streams[g] # <<>>
      PROVE  pg_ids[g].available >= IdsTakenUnasked
  <2>1. pg_ids[g].available \in Nat /\ streams[g] = StreamIds(g)
        /\ params.protocols \in {1, 2} /\ params.imix \in BOOLEAN
    BY <1>1 DEF BuiltInv, Built, IdsInv, IdsType, ParamType
  <2>2. ~params.imix
    <3>1. params.imix => IdsOfProtocol(g, 0) = <<>> /\ IdsOfProtocol(g, 1) = <<>>
      BY DEF IdsOfProtocol
    <3>2. <<>> \o <<>> = <<>>
      OBVIOUS
    <3>3. params.imix => StreamIds(g) = <<>>
      BY <2>1, <3>1, <3>2 DEF StreamIds
    <3>4. QED
      BY <1>1, <2>1, <3>3
  <2>3. IdsTakenUnasked = 0
    BY <2>2 DEF IdsTakenUnasked
  <2>4. QED
    BY <2>1, <2>3
<1>2. ASSUME NEW g \in Groups, NEW k \in DOMAIN streams[g]
      PROVE  streams[g][k] \in AllIds /\ streams[g][k] \in Nat /\ GroupOf(streams[g][k]) = g
  <2>1. /\ streams[g] \in Seq(Nat)
        /\ \A h \in Groups \ {g} : \A l \in DOMAIN streams[h] : streams[g][k] # streams[h][l]
    BY <1>1, OwnGroupLemma
  <2>2. streams[g][k] \in ToSet(streams[g])
    BY DEF ToSet
  <2>3. \A h \in Groups : streams[g][k] \in ToSet(streams[h]) => h = g
    BY <2>1 DEF ToSet
  <2>4. QED
    BY <2>1, <2>2, <2>3 DEF AllIds, GroupOf
<1>3. QED
  BY <1>1, <1>2

\* A stream that follows another one exists, and follows no third.
LEMMA FollowsLemma ==
  ASSUME BuiltInv, NEW id \in AllIds, NEW next \in NextSegment(id)
  PROVE  /\ next \in AllIds
         /\ \A other \in AllIds : next \in NextSegment(other) => other = id
<1>1. params.segmented /\ params.protocols \in {1, 2}
  BY DEF NextSegment, BuiltInv, ParamType
<1>2. ASSUME NEW x \in AllIds
      PROVE  x \in Nat /\ GroupOf(x) \in Groups
  <2>1. PICK g \in Groups : x \in ToSet(streams[g])
    BY DEF AllIds
  <2>2. PICK k \in DOMAIN streams[g] : x = streams[g][k]
    BY <2>1 DEF ToSet
  <2>3. QED
    BY <1>1, <2>2, AllIdsLemma
<1>3. next = id + params.protocols /\ next \in ToSet(streams[GroupOf(id)])
  BY DEF NextSegment
<1>4. next \in AllIds
  BY <1>2, <1>3 DEF AllIds
<1>5. ASSUME NEW other \in AllIds, next \in NextSegment(other)
      PROVE  other = id
  <2>1. next = other + params.protocols
    BY <1>5 DEF NextSegment
  <2>2. QED
    BY <1>1, <1>2, <1>3, <2>1
<1>6. QED
  BY <1>4, <1>5

LEMMA StopLemma ==
  ASSUME StopTraffic
  PROVE  sending' \subseteq sending /\ ended' = ended /\ settled' = settled
BY DEF StopTraffic, trafficVars

LEMMA ChainKeptLemma ==
  ASSUME Chain, UNCHANGED <<params, streams>>,
         sending' \subseteq sending, ended' = ended, settled \subseteq settled'
  PROVE  Chain'
<1>1. AllIds' = AllIds /\ \A id : NextSegment(id)' = NextSegment(id)
  BY SameStreamsLemma
<1>2. QED
  BY <1>1 DEF Chain

LEMMA ChainStep ==
  ASSUME BuiltInv, FairInv, [Next]_vars
  PROVE  Chain'
<1>1. CASE CreateStreams \/ AssignIds
  <2>1. sending = {} /\ ended = {} /\ UNCHANGED trafficVars
    BY <1>1 DEF FairInv, MonitorInv, Early, CreateStreams, AssignIds
  <2>2. sending' = {} /\ ended' = {}
    BY <2>1 DEF trafficVars
  <2>3. QED
    BY <2>2 DEF Chain
<1>2. CASE SegmentEnds
  <2>1. UNCHANGED <<params, streams, settled>>
    BY <1>2 DEF SegmentEnds
  <2>2. AllIds' = AllIds /\ \A id : NextSegment(id)' = NextSegment(id)
    BY <2>1, SameStreamsLemma
  <2>3. PICK id \in sending :
          /\ \A other \in ended : id \in NextSegment(other) => other \in settled
          /\ ended' = ended \cup {id}
          /\ sending' = (sending \ {id}) \cup NextSegment(id)
    BY <1>2 DEF SegmentEnds
  <2>4. id \in AllIds
    BY DEF FairInv, Chain
  <2>5. ASSUME NEW next \in NextSegment(id)
        PROVE  next \in AllIds /\ \A other \in AllIds : next \in NextSegment(other) => other = id
    BY <2>4, FollowsLemma
  <2>6. sending' \cup ended' \subseteq AllIds
    BY <2>3, <2>4, <2>5 DEF FairInv, Chain
  <2>7. ASSUME NEW x \in sending' \cup ended', NEW other \in AllIds, x \in NextSegment(other)
        PROVE  other \in ended' /\ (x \in ended' => other \in settled)
    <3>1. CASE x \in sending \cup ended
      <4>1. other \in ended /\ (x \in ended => other \in settled)
        BY <2>7, <3>1 DEF FairInv, Chain
      <4>2. x = id => other \in settled
        BY <2>3, <2>7, <4>1
      <4>3. QED
        BY <2>3, <4>1, <4>2
    <3>2. CASE x \notin sending \cup ended
      <4>1. x \in NextSegment(id) /\ x # id
        BY <2>3, <3>2
      <4>2. other = id
        BY <2>5, <2>7, <4>1
      <4>3. x \notin ended'
        BY <2>3, <3>2, <4>1
      <4>4. QED
        BY <2>3, <4>2, <4>3
    <3>3. QED
      BY <3>1, <3>2
  <2>8. QED
    BY <2>1, <2>2, <2>6, <2>7 DEF Chain
<1>3. CASE Start
  <2>1. UNCHANGED <<params, streams, ended, settled>> /\ (sending' = sending \/ sending' = SelfStarting)
    BY <1>3 DEF Start
  <2>2. AllIds' = AllIds /\ \A id : NextSegment(id)' = NextSegment(id)
    BY <2>1, SameStreamsLemma
  <2>3. QED
    BY <2>1, <2>2 DEF FairInv, Chain, SelfStarting
<1>4. CASE PacketsArrive \/ TrafficEnds
  <2>1. UNCHANGED <<params, streams>> /\ sending' \subseteq sending /\ ended' = ended
        /\ settled \subseteq settled'
    BY <1>4 DEF PacketsArrive, TrafficEnds
  <2>2. QED
    BY <2>1, ChainKeptLemma DEF FairInv
<1>5. CASE WaitFails \/ MonitorEnds
  <2>1. UNCHANGED <<params, streams>>
    BY <1>5 DEF WaitFails, MonitorEnds
  <2>2. sending' \subseteq sending /\ ended' = ended /\ settled \subseteq settled'
    <3>1. StopTraffic \/ UNCHANGED trafficVars
      BY <1>5 DEF WaitFails, MonitorEnds
    <3>2. QED
      BY <3>1, StopLemma DEF trafficVars
  <2>3. QED
    BY <2>1, <2>2, ChainKeptLemma DEF FairInv
<1>6. CASE \/ Prepare \/ Load \/ WaitReturns \/ EndMonitor \/ Collect \/ Disconnect
           \/ MonitorEndsLoop \/ MonitorLooks \/ MonitorJudges \/ UNCHANGED vars
  <2>1. UNCHANGED <<params, streams>> /\ UNCHANGED trafficVars
    BY <1>6 DEF Prepare, Load, WaitReturns, EndMonitor, Collect, Disconnect, MonitorEndsLoop,
                MonitorLooks, MonitorJudges, vars
  <2>2. sending' \subseteq sending /\ ended' = ended /\ settled \subseteq settled'
    BY <2>1 DEF trafficVars
  <2>3. QED
    BY <2>1, <2>2, ChainKeptLemma DEF FairInv
<1>7. QED
  BY <1>1, <1>2, <1>3, <1>4, <1>5, <1>6 DEF Next, MainStep, MonitorStep

LEMMA MonitorStepLemma ==
  ASSUME BuiltInv, FairInv, [Next]_vars
  PROVE  MonitorInv'
<1>1. ASSUME main' \in Early
      PROVE  sending' = {} /\ ended' = {} /\ monitor' = "none"
  <2>1. CASE AssignIds
    BY <1>1, <2>1 DEF AssignIds, trafficVars, monitorVars, FairInv, MonitorInv
  <2>2. CASE CreateStreams
    BY <1>1, <2>2 DEF CreateStreams, Early
  <2>3. CASE ~AssignIds /\ ~CreateStreams
    <3>1. main \in Early
      BY <1>1, <2>3, KeptLemma
    <3>2. sending = {} /\ ended = {} /\ monitor = "none"
      BY <3>1 DEF FairInv, MonitorInv
    <3>3. CASE Prepare \/ UNCHANGED vars
      BY <3>2, <3>3 DEF Prepare, vars, trafficVars, monitorVars
    <3>4. CASE PacketsArrive \/ TrafficEnds
      BY <3>2, <3>4 DEF PacketsArrive, TrafficEnds, monitorVars
    <3>5. ~Load /\ ~Start /\ ~WaitReturns /\ ~WaitFails /\ ~EndMonitor /\ ~Collect /\ ~Disconnect
      BY <3>1 DEF Load, Start, Step, WaitReturns, WaitFails, EndMonitor, Collect, Disconnect, Early
    <3>6. ~MonitorStep /\ ~SegmentEnds
      BY <3>2 DEF MonitorStep, MonitorEndsLoop, MonitorLooks, MonitorJudges, MonitorEnds, SegmentEnds
    <3>7. QED
      BY <2>3, <3>3, <3>4, <3>5, <3>6 DEF Next, MainStep
  <2>4. QED
    BY <2>1, <2>2, <2>3
<1>2. monitor' # "none" => params'.segmented
  <2>1. CASE Start
    BY <2>1 DEF Start, Monitored, FairInv, MonitorInv
  <2>2. CASE MonitorStep
    BY <2>2 DEF MonitorStep, MonitorEndsLoop, MonitorLooks, MonitorJudges, MonitorEnds, FairInv, MonitorInv
  <2>3. CASE MainStep /\ ~Start
    BY <2>3 DEF MainStep, Prepare, AssignIds, CreateStreams, Load, WaitReturns, WaitFails, EndMonitor,
                Collect, Disconnect, monitorVars, FairInv, MonitorInv
  <2>4. CASE SegmentEnds \/ PacketsArrive \/ TrafficEnds \/ UNCHANGED vars
    BY <2>4 DEF SegmentEnds, PacketsArrive, TrafficEnds, vars, monitorVars, FairInv, MonitorInv
  <2>5. QED
    BY <2>1, <2>2, <2>3, <2>4 DEF Next
<1>3. current_index' \in [Groups -> Nat \ {0, 1}]
  <2>1. CASE MonitorLooks
    <3>1. current_index' = [g \in Groups |-> current_index[g] + IF g \in Begun(monitor_pair) THEN 1 ELSE 0]
      BY <2>1 DEF MonitorLooks
    <3>2. \A g \in Groups : current_index[g] \in Nat \ {0, 1}
      BY DEF FairInv, MonitorInv
    <3>3. QED
      BY <3>1, <3>2
  <2>2. CASE ~MonitorLooks
    <3>1. current_index' = current_index
      <4>1. CASE MainStep
        BY <4>1 DEF MainStep, Prepare, AssignIds, CreateStreams, Load, Start, WaitReturns, WaitFails,
                    EndMonitor, Collect, Disconnect, monitorVars
      <4>2. CASE MonitorStep
        BY <2>2, <4>2 DEF MonitorStep, MonitorEndsLoop, MonitorJudges, MonitorEnds
      <4>3. CASE SegmentEnds \/ PacketsArrive \/ TrafficEnds \/ UNCHANGED vars
        BY <4>3 DEF SegmentEnds, PacketsArrive, TrafficEnds, vars, monitorVars
      <4>4. QED
        BY <4>1, <4>2, <4>3 DEF Next
    <3>2. QED
      BY <3>1 DEF FairInv, MonitorInv
  <2>3. QED
    BY <2>1, <2>2
<1>4. QED
  BY <1>1, <1>2, <1>3 DEF MonitorInv

\* With one protocol, the segment judged is two before the one that has begun.
LEMMA JudgedHasArrived ==
  ASSUME BuiltInv, FairInv, params.segmented, params.protocols = 1,
         NEW g \in Groups, current_index[g] < Len(streams[g]), Transmitted(Candidate(g))
  PROVE  SegmentToJudge(Candidate(g)) \in settled
<1> DEFINE n == current_index[g] + 1
           c == Candidate(g)
           first == pg_ids[g].start
<1>1. /\ streams[g] \in Seq(Nat)
      /\ \A k \in DOMAIN streams[g] :
           /\ streams[g][k] = first + (k - 1)
           /\ streams[g][k] \in ToSet(streams[g]) /\ streams[g][k] \in AllIds
           /\ GroupOf(streams[g][k]) = g
  <2>1. IdsType /\ params \in ParamType
    BY DEF BuiltInv, IdsInv
  <2>2. /\ streams[g] = StreamIds(g) \/ streams[g] = <<>>
        /\ streams[g] # <<>> => pg_ids[g].available >= IdsTakenUnasked
    BY AllIdsLemma DEF BuiltInv, Built
  <2>3. CASE streams[g] = <<>>
    BY <2>3
  <2>4. CASE streams[g] # <<>>
    <3>1. pg_ids[g].available >= IdsTakenUnasked /\ streams[g] = StreamIds(g)
      BY <2>2, <2>4
    <3>2. /\ IdsOfProtocol(g, 0) \in Seq(Nat)
          /\ \A j \in DOMAIN IdsOfProtocol(g, 0) :
               IdsOfProtocol(g, 0)[j] = pg_ids[g].start + 0 + Stride * (j - 1)
      BY <2>1, <3>1, ProtocolLemma
    <3>3. StreamIds(g) = IdsOfProtocol(g, 0) \o <<>>
      BY <2>4, <3>1 DEF StreamIds
    <3>4. streams[g] = IdsOfProtocol(g, 0)
      BY <3>1, <3>2, <3>3
    <3>5. ~params.imix
      BY <2>4, <3>4 DEF IdsOfProtocol
    <3>6. Stride = 1 /\ first \in Nat
      BY <2>1, <3>5 DEF Stride, IdsType
    <3>7. \A k \in DOMAIN streams[g] : streams[g][k] = first + (k - 1)
      BY <3>2, <3>4, <3>6
    <3>8. \A k \in DOMAIN streams[g] : streams[g][k] \in ToSet(streams[g])
      BY DEF ToSet
    <3>9. QED
      BY <3>2, <3>4, <3>7, <3>8, AllIdsLemma
  <2>5. QED
    BY <2>3, <2>4
<1>2. /\ first \in Nat /\ current_index[g] \in Nat \ {0, 1}
  BY DEF BuiltInv, IdsInv, IdsType, FairInv, MonitorInv
<1>3. /\ n \in DOMAIN streams[g] /\ n - 1 \in DOMAIN streams[g] /\ n - 2 \in DOMAIN streams[g]
      /\ n \in Nat
  <2>1. /\ DOMAIN streams[g] = 1..Len(streams[g]) /\ Len(streams[g]) \in Nat
        /\ current_index[g] < Len(streams[g])
    BY <1>1
  <2>2. \A i \in Nat \ {0, 1}, l \in Nat :
          i < l => i + 1 \in 1..l /\ i + 1 - 1 \in 1..l /\ i + 1 - 2 \in 1..l /\ i + 1 \in Nat
    OBVIOUS
  <2>3. QED
    BY <1>2, <2>1, <2>2
<1>4. c = streams[g][n]
  BY DEF Candidate
<1> HIDE DEF n, c
<1>5. /\ streams[g][n] = first + (n - 1) /\ streams[g][n - 1] = first + ((n - 1) - 1)
      /\ streams[g][n - 2] = first + ((n - 2) - 1)
  BY <1>1, <1>3
<1>6. /\ streams[g][n - 1] = c - 1 /\ streams[g][n - 2] = c - 2
      /\ (c - 1) + 1 = c /\ (c - 2) + 1 = c - 1
  BY <1>2, <1>3, <1>4, <1>5
<1>7. /\ c - 1 \in AllIds /\ c - 2 \in AllIds
      /\ GroupOf(c - 1) = g /\ GroupOf(c - 2) = g
      /\ c \in ToSet(streams[g]) /\ c - 1 \in ToSet(streams[g])
  BY <1>1, <1>3, <1>4, <1>6
<1>8. c \in NextSegment(c - 1) /\ c - 1 \in NextSegment(c - 2)
  BY <1>6, <1>7 DEF NextSegment
<1>9. c \in sending \cup ended
  BY DEF c, Transmitted
<1>10. c - 1 \in ended
  BY <1>7, <1>8, <1>9 DEF FairInv, Chain
<1>11. c - 2 \in settled
  BY <1>7, <1>8, <1>10 DEF FairInv, Chain
<1>12. QED
  BY <1>11 DEF c, SegmentToJudge

LEMMA SettledGrows ==
  ASSUME [Next]_vars
  PROVE  settled \subseteq settled'
<1>1. CASE Prepare \/ AssignIds \/ CreateStreams \/ Load \/ WaitReturns \/ EndMonitor \/ Collect
           \/ Disconnect \/ MonitorEndsLoop \/ MonitorLooks \/ MonitorJudges \/ UNCHANGED vars
  BY <1>1 DEF Prepare, AssignIds, CreateStreams, Load, WaitReturns, EndMonitor, Collect, Disconnect,
              MonitorEndsLoop, MonitorLooks, MonitorJudges, trafficVars, vars
<1>2. CASE Start \/ SegmentEnds \/ PacketsArrive \/ TrafficEnds
  BY <1>2 DEF Start, SegmentEnds, PacketsArrive, TrafficEnds
<1>3. CASE WaitFails \/ MonitorEnds
  <2>1. StopTraffic \/ UNCHANGED trafficVars
    BY <1>3 DEF WaitFails, MonitorEnds
  <2>2. QED
    BY <2>1, StopLemma DEF trafficVars
<1>4. QED
  BY <1>1, <1>2, <1>3 DEF Next, MainStep, MonitorStep

LEMMA OthersDoNotJudge ==
  ASSUME [Next]_vars, ~MonitorLooks, ~MonitorJudges
  PROVE  UNCHANGED <<to_analyze, analyzed, early_exit, params>>
<1>1. CASE MainStep
  BY <1>1 DEF MainStep, Prepare, AssignIds, CreateStreams, Load, Start, WaitReturns, WaitFails,
              EndMonitor, Collect, Disconnect, monitorVars, eventVars
<1>2. CASE MonitorEndsLoop \/ MonitorEnds
  BY <1>2 DEF MonitorEndsLoop, MonitorEnds, eventVars
<1>3. CASE SegmentEnds \/ PacketsArrive \/ TrafficEnds \/ UNCHANGED vars
  BY <1>3 DEF SegmentEnds, PacketsArrive, TrafficEnds, vars, monitorVars, eventVars
<1>4. QED
  BY <1>1, <1>2, <1>3 DEF Next, MonitorStep

LEMMA ArrivedStep ==
  ASSUME BuiltInv, FairInv, [Next]_vars
  PROVE  Arrived'
<1>1. CASE MonitorLooks
  <2>1. /\ to_analyze' = [g \in Begun(monitor_pair) |-> SegmentToJudge(Candidate(g))]
        /\ params' = params /\ params.segmented
    BY <1>1 DEF MonitorLooks, FairInv, MonitorInv
  <2>2. ASSUME params.protocols = 1, NEW g \in Begun(monitor_pair)
        PROVE  SegmentToJudge(Candidate(g)) \in settled'
    <3>1. g \in Groups /\ current_index[g] < Len(streams[g]) /\ Transmitted(Candidate(g))
      BY DEF Begun, Candidates
    <3>2. SegmentToJudge(Candidate(g)) \in settled
      BY <2>1, <2>2, <3>1, JudgedHasArrived
    <3>3. QED
      BY <3>2, SettledGrows
  <2>3. QED
    BY <2>1, <2>2 DEF Arrived
<1>2. CASE MonitorJudges
  BY <1>2 DEF MonitorJudges, Arrived
<1>3. CASE ~MonitorLooks /\ ~MonitorJudges
  BY <1>3, OthersDoNotJudge, SettledGrows DEF FairInv, Arrived
<1>4. QED
  BY <1>1, <1>2, <1>3

LEMMA JudgedStep ==
  ASSUME FairInv, [Next]_vars
  PROVE  JudgedFairly'
<1>1. CASE MonitorJudges
  <2> SUFFICES ASSUME early_exit', params.protocols = 1
               PROVE  params.lossy \cap analyzed' # {}
    BY <1>1 DEF MonitorJudges, JudgedFairly
  <2> DEFINE known(g) == to_analyze[g] \in AllIds /\ Transmitted(to_analyze[g])
             reached(g) == \A h \in DOMAIN to_analyze : Rank(h) <= Rank(g) => known(h)
             judged == {to_analyze[g] : g \in {g \in DOMAIN to_analyze : reached(g)}}
  <2>1. /\ analyzed' = analyzed \cup judged
        /\ \E lossy \in SUBSET {id \in judged : MayLookLossy(id)} :
             early_exit' = (early_exit \/ (lossy # {} /\ params.monitor # "noop"))
    BY <1>1 DEF MonitorJudges
  <2>2. judged \subseteq settled
    BY <2>1 DEF FairInv, Arrived
  <2> HIDE DEF judged
  <2>3. CASE early_exit
    BY <2>1, <2>3 DEF FairInv, JudgedFairly
  <2>4. CASE ~early_exit
    <3>1. PICK id \in judged : MayLookLossy(id)
      BY <2>1, <2>4
    <3>2. id \in params.lossy
      BY <2>2, <3>1 DEF MayLookLossy
    <3>3. QED
      BY <2>1, <3>1, <3>2
  <2>5. QED
    BY <2>3, <2>4
<1>2. CASE MonitorLooks
  BY <1>2 DEF MonitorLooks, eventVars, FairInv, JudgedFairly
<1>3. CASE ~MonitorLooks /\ ~MonitorJudges
  BY <1>3, OthersDoNotJudge DEF FairInv, JudgedFairly
<1>4. QED
  BY <1>1, <1>2, <1>3

LEMMA FairStep == BuiltInv /\ FairInv /\ [Next]_vars => FairInv'
BY MonitorStepLemma, ChainStep, ArrivedStep, JudgedStep DEF FairInv

\* A trial is cut short for a segment that did lose packets, although the
\* monitor reads counters of running traffic: the two segments between the one
\* it judges and the one it sees begin give the packets time to arrive
\* (trex-txrx.py 714-771).
THEOREM JudgesFairly == Spec => []JudgedFairly
<1>1. Spec => [](BuiltInv /\ FairInv)
  BY BuiltInit, BuiltStep, FairInit, FairStep, PTL DEF Spec
<1>2. FairInv => JudgedFairly
  BY DEF FairInv
<1>3. QED
  BY <1>1, <1>2, PTL

-----------------------------------------------------------------------------
(* What is cut short is flagged.                                           *)

\* Traffic that is stopped was stopped for a reason that is remembered, and
\* main() does not come to the result before traffic and monitor are over.
CutInv ==
  /\ traffic \in {"none", "running", "complete", "stopped"}
  /\ monitor \in {"none", "looking", "judging", "finally", "ended"}
  /\ early_exit \in BOOLEAN /\ timeout \in BOOLEAN /\ force_quit \in BOOLEAN
  /\ main \in {"wait", "join"} => traffic # "none"
  /\ main = "join" => traffic # "running"
  /\ main \notin {"wait", "join", "disconnect", "done"} => traffic = "none" /\ monitor = "none"
  /\ traffic = "stopped" => timeout \/ force_quit \/ early_exit
  /\ ~result.printed => result = NoResult
  /\ result.printed =>
       /\ main \in {"disconnect", "done"}
       /\ result.timeout = timeout /\ result.force_quit = force_quit
       /\ CutShortIsFlagged

LEMMA CutInit == Init => CutInv
<1> SUFFICES ASSUME Init PROVE CutInv
  OBVIOUS
<1>1. /\ main = "connect" /\ traffic = "none" /\ monitor = "none"
      /\ early_exit = FALSE /\ timeout = FALSE /\ force_quit = FALSE /\ result = NoResult
  BY DEF Init
<1>2. ~result.printed
  BY <1>1 DEF NoResult
<1>3. QED
  BY <1>1, <1>2 DEF CutInv

\* stop() stops running traffic, or nothing.
LEMMA StopsRunning ==
  ASSUME StopTraffic
  PROVE  traffic' = traffic \/ (traffic = "running" /\ traffic' = "stopped")
BY DEF StopTraffic, trafficVars

LEMMA CutStep == CutInv /\ [Next]_vars => CutInv'
<1> SUFFICES ASSUME CutInv, [Next]_vars PROVE CutInv'
  OBVIOUS
<1> USE DEF CutInv
<1>1. CASE Prepare \/ AssignIds \/ CreateStreams \/ Load
  <2>1. /\ UNCHANGED <<traffic, monitor, early_exit, timeout, force_quit, result>>
        /\ main \notin {"wait", "join", "disconnect", "done"}
        /\ main' \notin {"wait", "join", "done"}
    BY <1>1 DEF Prepare, AssignIds, CreateStreams, Load, Step, Setup, trafficVars, monitorVars,
                eventVars, outcomeVars
  <2>2. ~result.printed
    BY <2>1
  <2>3. QED
    BY <2>1, <2>2
<1>2. CASE Start
  <2>1. /\ main = "start" /\ main' \in {"wait", "disconnect"}
        /\ UNCHANGED <<early_exit, timeout, force_quit, result>>
        /\ main' = "wait" => traffic' = "running" /\ monitor' \in {"none", "looking"}
        /\ main' # "wait" => UNCHANGED <<traffic, monitor>>
    BY <1>2 DEF Start, Step, eventVars, outcomeVars
  <2>2. ~result.printed
    BY <2>1
  <2>3. QED
    BY <2>1, <2>2
<1>3. CASE WaitReturns
  <2>1. /\ main = "wait" /\ main' = "join" /\ traffic # "running"
        /\ UNCHANGED <<traffic, monitor, early_exit, timeout, force_quit, result>>
    BY <1>3 DEF WaitReturns, trafficVars, monitorVars, eventVars, outcomeVars
  <2>2. ~result.printed
    BY <2>1
  <2>3. QED
    BY <2>1, <2>2
<1>4. CASE WaitFails
  <2>1. /\ main = "wait" /\ traffic = "running"
        /\ UNCHANGED <<monitor, early_exit, result>>
    BY <1>4 DEF WaitFails, monitorVars, eventVars
  <2>2. ~result.printed
    BY <2>1
  <2>3. CASE params.fault = "stop"
    <3>1. UNCHANGED <<traffic, timeout, force_quit>> /\ main' = "disconnect"
      BY <1>4, <2>3 DEF WaitFails, StopTraffic, trafficVars
    <3>2. QED
      BY <2>1, <2>2, <3>1
  <2>4. CASE params.fault # "stop"
    <3>1. /\ main' = "join" /\ traffic' = "stopped"
          /\ timeout' = (params.fault # "wait") /\ force_quit' = (params.fault = "wait")
      BY <1>4, <2>1, <2>4 DEF WaitFails, StopTraffic
    <3>2. timeout' \in BOOLEAN /\ force_quit' \in BOOLEAN /\ (timeout' \/ force_quit')
      BY <3>1
    <3>3. QED
      BY <2>1, <2>2, <3>1, <3>2
  <2>5. QED
    BY <2>3, <2>4
<1>5. CASE EndMonitor
  BY <1>5 DEF EndMonitor, trafficVars, monitorVars, outcomeVars, CutShortIsFlagged
<1>6. CASE Collect
  <2>1. /\ main = "join" /\ main' = "disconnect" /\ monitor \in {"none", "ended"}
        /\ UNCHANGED <<traffic, monitor, early_exit, timeout, force_quit>>
        /\ traffic \in {"complete", "stopped"}
    BY <1>6 DEF Collect, Joined, trafficVars, monitorVars, eventVars
  <2>2. ~result.printed
    BY <2>1
  <2>3. CASE result' = result
    BY <2>1, <2>2, <2>3
  <2>4. CASE result' = [printed |-> TRUE, timeout |-> timeout, force_quit |-> force_quit,
                        early_exit |-> early_exit]
    BY <2>1, <2>4 DEF CutShortIsFlagged
  <2>5. QED
    BY <1>6, <2>3, <2>4 DEF Collect
<1>7. CASE Disconnect
  <2>1. /\ main = "disconnect" /\ main' = "done"
        /\ UNCHANGED <<traffic, monitor, early_exit, timeout, force_quit, result>>
    BY <1>7 DEF Disconnect, trafficVars, monitorVars, eventVars, outcomeVars
  <2>2. QED
    BY <2>1 DEF CutShortIsFlagged
<1>8. CASE MonitorStep
  <2>1. /\ monitor \in {"looking", "judging", "finally"}
        /\ monitor' \in {"looking", "judging", "finally", "ended"}
        /\ UNCHANGED <<main, timeout, force_quit, result>>
        /\ traffic' = traffic \/ (early_exit /\ traffic = "running" /\ traffic' = "stopped")
        /\ early_exit' \in BOOLEAN /\ (early_exit => early_exit')
    <3>1. CASE MonitorEndsLoop \/ MonitorLooks
      BY <3>1 DEF MonitorEndsLoop, MonitorLooks, trafficVars, eventVars, outcomeVars
    <3>2. CASE MonitorJudges
      <4>1. \E failed \in BOOLEAN : early_exit' = (early_exit \/ failed)
        BY <3>2 DEF MonitorJudges
      <4>2. /\ monitor = "judging" /\ monitor' \in {"looking", "finally"}
            /\ UNCHANGED <<main, timeout, force_quit, result, traffic>>
        BY <3>2 DEF MonitorJudges, trafficVars, outcomeVars
      <4>3. QED
        BY <4>1, <4>2
    <3>3. CASE MonitorEnds
      <4>1. /\ monitor = "finally" /\ monitor' = "ended"
            /\ UNCHANGED <<main, timeout, force_quit, result, early_exit>>
            /\ IF early_exit THEN StopTraffic ELSE UNCHANGED trafficVars
        BY <3>3 DEF MonitorEnds, eventVars, outcomeVars
      <4>2. QED
        BY <4>1, StopsRunning DEF trafficVars
    <3>4. QED
      BY <1>8, <3>1, <3>2, <3>3 DEF MonitorStep
  <2>2. ~result.printed
    BY <2>1 DEF CutShortIsFlagged
  <2>3. main \in {"wait", "join", "disconnect", "done"}
    BY <2>1
  <2>4. QED
    BY <2>1, <2>2, <2>3
<1>9. CASE SegmentEnds \/ PacketsArrive \/ UNCHANGED vars
  <2>1. UNCHANGED <<main, traffic, monitor, early_exit, timeout, force_quit, result>>
    BY <1>9 DEF SegmentEnds, PacketsArrive, vars, trafficVars, monitorVars, eventVars, outcomeVars
  <2>2. QED
    BY <2>1 DEF CutShortIsFlagged
<1>10. CASE TrafficEnds
  <2>1. /\ UNCHANGED <<main, monitor, early_exit, timeout, force_quit, result>>
        /\ traffic = "running" /\ traffic' = "complete"
    BY <1>10 DEF TrafficEnds, monitorVars, eventVars, outcomeVars
  <2>2. ~result.printed
    BY <2>1 DEF CutShortIsFlagged
  <2>3. QED
    BY <2>1, <2>2
<1>11. QED
  BY <1>1, <1>2, <1>3, <1>4, <1>5, <1>6, <1>7, <1>8, <1>9, <1>10 DEF Next, MainStep

\* A printed result is one of traffic and of a monitor that are over, and a
\* trial that was cut short says so (trex-txrx.py 1240-1333, 779-790).
THEOREM CutShortSaysSo == Spec => []CutShortIsFlagged
<1>1. CutInv => CutShortIsFlagged
  BY DEF CutInv, CutShortIsFlagged
<1>2. QED
  BY <1>1, CutInit, CutStep, PTL DEF Spec
==============================================================================
