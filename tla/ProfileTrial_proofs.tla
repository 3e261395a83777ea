------------------------- MODULE ProfileTrial_proofs -------------------------
(***************************************************************************)
(* What trex-txrx-profile.py does for any profile, any number of device    *)
(* pairs and any number of samples: its flow group ids are unique, what is *)
(* counted under one is one chain of a stream, the chains offer the rate   *)
(* the profile says when it says, the device is taught its hosts before    *)
(* they send, and the profiler loses at most one sample.                   *)
(***************************************************************************)
EXTENDS ProfileTrial, FlowGroupIds_proofs, FiniteSetTheorems, WellFoundedInduction

-----------------------------------------------------------------------------
(* Flow group ids.                                                         *)

\* Only AllocateIds changes the flow group ids.
LEMMA IdsStepOfProfileTrial == [Next]_vars => [AllocateIds]_idVars
<1> SUFFICES ASSUME [Next]_vars PROVE [AllocateIds]_idVars
  OBVIOUS
<1>1. CASE SetUp
  <2>1. CASE AssignIds
    BY <2>1 DEF AssignIds
  <2>2. CASE LoadProfile \/ Connect \/ CreateStream \/ StartProfiler
    BY <2>2 DEF LoadProfile, Connect, CreateStream, StartProfiler
  <2>3. QED
    BY <1>1, <2>1, <2>2 DEF SetUp
<1>2. CASE MainStep
  BY <1>2 DEF MainStep, Load, Start, WaitReturns, WaitFails, EndProfiler, Collect, Disconnect
<1>3. CASE WorkerStep \/ LoggerStep \/ TrafficEnds \/ UNCHANGED vars
  BY <1>3 DEF WorkerStep, LoggerStep, TrafficEnds, vars
<1>4. QED
  BY <1>1, <1>2, <1>3 DEF Next

\* No flow group id of a trial is given to two groups, which is what lets a
\* result be told by the id it is counted under (trex-txrx-profile.py
\* 1379-1401).
THEOREM IdsOfProfileAreUnique == Spec => []UniqueIds
<1>1. Init => IdsInv
  BY IdsInitLemma DEF Init
<1>2. IdsInv /\ [Next]_vars => IdsInv'
  BY IdsStepOfProfileTrial, IdsStepLemma
<1>3. QED
  BY <1>1, <1>2, ApartLemma, PTL DEF Spec

-----------------------------------------------------------------------------
(* Numbers.                                                                *)

\* A set of numbers has a least one: what fails for some number has a first
\* failure, which is how the proofs below go without induction.
LEMMA SmallestLemma ==
  ASSUME NEW S \in SUBSET Nat, S # {}
  PROVE  \E u \in S : \A m \in S : u <= m
<1> DEFINE Less == OpToRel(<, Nat)
<1>1. IsWellFoundedOn(Less, Nat)
  BY NatLessThanWellFounded
<1>2. \A m \in Nat, u \in Nat : m < u => <<m, u>> \in Less
  BY DEF OpToRel
<1> HIDE DEF Less
<1>3. \E u \in S : \A m \in S : ~(<<m, u>> \in Less)
  BY <1>1, WFMin
<1>4. \A m \in Nat, u \in Nat : ~(m < u) => u <= m
  OBVIOUS
<1> QED
  BY <1>2, <1>3, <1>4

-----------------------------------------------------------------------------
(* Sequences of sequences.                                                 *)

\* f[i] is the i first of the sequences in one.
Joins(f, seqs, n) ==
  f = [i \in 1..n |-> IF i = 1 THEN seqs[i] ELSE f[i - 1] \o seqs[i]]

\* One sequence more.
LEMMA JoinsLonger ==
  ASSUME NEW seqs, NEW n \in Nat, n # 0, NEW f, Joins(f, seqs, n)
  PROVE  \E g : Joins(g, seqs, n + 1)
<1> DEFINE g == [i \in 1..(n + 1) |-> IF i = n + 1 THEN f[n] \o seqs[n + 1] ELSE f[i]]
<1>1. \A i \in 1..n : f[i] = IF i = 1 THEN seqs[i] ELSE f[i - 1] \o seqs[i]
  BY DEF Joins
<1>2. ASSUME NEW i \in 1..(n + 1)
      PROVE  g[i] = IF i = 1 THEN seqs[i] ELSE g[i - 1] \o seqs[i]
  <2>1. CASE i = n + 1
    <3>1. i # 1 /\ i - 1 = n /\ i - 1 \in 1..(n + 1) /\ i - 1 # n + 1
      BY <2>1
    <3> QED
      BY <2>1, <3>1
  <2>2. CASE i # n + 1
    <3>1. i \in 1..n /\ (i # 1 => i - 1 \in 1..(n + 1) /\ i - 1 # n + 1)
      BY <2>2
    <3> QED
      BY <1>1, <2>2, <3>1
  <2> QED
    BY <2>1, <2>2
<1>3. g = [i \in 1..(n + 1) |-> g[i]]
  OBVIOUS
<1> HIDE DEF g
<1>4. Joins(g, seqs, n + 1)
  BY <1>2, <1>3 DEF Joins
<1> QED
  BY <1>4

\* The joint sequences exist, from the shortest on.
LEMMA JoinsExists ==
  ASSUME NEW seqs, NEW n \in Nat, n # 0
  PROVE  \E f : Joins(f, seqs, n)
<1> DEFINE bad == {m \in Nat : m # 0 /\ ~ \E f : Joins(f, seqs, m)}
<1> SUFFICES ASSUME bad # {} PROVE FALSE
  OBVIOUS
<1>1. PICK u \in bad : \A m \in bad : u <= m
  <2>1. bad \in SUBSET Nat
    OBVIOUS
  <2> HIDE DEF bad
  <2> QED
    BY <2>1, SmallestLemma
<1>2. u # 1
  <2>1. Joins([i \in 1..1 |-> seqs[i]], seqs, 1)
    BY DEF Joins
  <2> QED
    BY <2>1
<1>3. u - 1 \in Nat /\ u - 1 # 0 /\ u - 1 + 1 = u /\ u - 1 \notin bad
  BY <1>1, <1>2
<1>4. PICK f : Joins(f, seqs, u - 1)
  BY <1>3
<1>5. \E g : Joins(g, seqs, u)
  BY <1>3, <1>4, JoinsLonger
<1> QED
  BY <1>5

\* FlattenSeq is the joint sequence of all.
LEMMA FlattenJoins ==
  ASSUME NEW S, NEW seqs \in Seq(S), Len(seqs) # 0
  PROVE  \E f : Joins(f, seqs, Len(seqs)) /\ FlattenSeq(seqs) = f[Len(seqs)]
<1> DEFINE F == CHOOSE f : Joins(f, seqs, Len(seqs))
<1>1. Joins(F, seqs, Len(seqs))
  BY JoinsExists
<1>2. FlattenSeq(seqs) = F[Len(seqs)]
  BY DEF FlattenSeq, Joins
<1> QED
  BY <1>1, <1>2

\* Element p of the joint sequence is element at[p] of sequence block[p].
LaidOut(flat, seqs, n, block, at) ==
  /\ block \in [1..Len(flat) -> 1..n]
  /\ \A p \in 1..Len(flat) : at[p] \in 1..Len(seqs[block[p]]) /\ flat[p] = seqs[block[p]][at[p]]
  /\ \A p, q \in 1..Len(flat) : p < q =>
       block[p] < block[q] \/ (block[p] = block[q] /\ at[p] < at[q])
  /\ \A b \in 1..n : \A a \in 1..Len(seqs[b]) :
       \E p \in 1..Len(flat) : block[p] = b /\ at[p] = a

\* One sequence is laid out as it is.
LEMMA LayoutFirst ==
  ASSUME NEW S, NEW seqs, seqs[1] \in Seq(S)
  PROVE  \E block, at : LaidOut(seqs[1], seqs, 1, block, at)
<1> DEFINE s == seqs[1]
           block == [p \in 1..Len(s) |-> 1]
           at == [p \in 1..Len(s) |-> p]
<1>1. Len(s) \in Nat /\ 1..1 = {1}
  OBVIOUS
<1>2. LaidOut(s, seqs, 1, block, at)
  BY <1>1 DEF LaidOut
<1> QED
  BY <1>2

\* A sequence more is laid out behind the others.
LEMMA LayoutLonger ==
  ASSUME NEW S, NEW seqs, NEW n \in Nat, NEW flat \in Seq(S), seqs[n + 1] \in Seq(S),
         NEW block, NEW at, LaidOut(flat, seqs, n, block, at)
  PROVE  \E more, there : LaidOut(flat \o seqs[n + 1], seqs, n + 1, more, there)
<1> DEFINE s == seqs[n + 1]
           longer == flat \o s
           m == Len(flat)
           more == [p \in 1..(m + Len(s)) |-> IF p <= m THEN block[p] ELSE n + 1]
           there == [p \in 1..(m + Len(s)) |-> IF p <= m THEN at[p] ELSE p - m]
<1>1. /\ m \in Nat /\ Len(s) \in Nat /\ Len(longer) = m + Len(s)
      /\ \A p \in 1..(m + Len(s)) : longer[p] = IF p <= m THEN flat[p] ELSE s[p - m]
  <2>1. s \in Seq(S)
    OBVIOUS
  <2> HIDE DEF s
  <2> QED
    BY <2>1
<1>2. \A p \in 1..m : /\ block[p] \in 1..n /\ at[p] \in 1..Len(seqs[block[p]])
                      /\ flat[p] = seqs[block[p]][at[p]]
  BY DEF LaidOut
<1>3. \A p \in 1..(m + Len(s)) :
        \/ p \in 1..m /\ more[p] = block[p] /\ there[p] = at[p] /\ longer[p] = flat[p] /\ more[p] \in 1..n
        \/ p > m /\ p - m \in 1..Len(s) /\ more[p] = n + 1 /\ there[p] = p - m /\ longer[p] = s[p - m]
  <2> TAKE p \in 1..(m + Len(s))
  <2>1. CASE p <= m
    <3>1. p \in 1..m
      BY <1>1, <2>1
    <3> QED
      BY <1>1, <1>2, <2>1, <3>1
  <2>2. CASE ~(p <= m)
    <3>1. p > m /\ p - m \in 1..Len(s)
      BY <1>1, <2>2
    <3> QED
      BY <1>1, <2>2, <3>1
  <2> QED
    BY <2>1, <2>2
<1>4. more \in [1..Len(longer) -> 1..(n + 1)]
  <2>1. \A p \in 1..(m + Len(s)) : more[p] \in 1..(n + 1)
    <3> HIDE DEF more, there, longer, m, s
    <3> QED
      BY <1>3
  <2>2. more = [p \in 1..(m + Len(s)) |-> more[p]]
    OBVIOUS
  <2> HIDE DEF more, longer
  <2> QED
    BY <1>1, <2>1, <2>2
<1>5. \A p \in 1..m : p \in 1..(m + Len(s)) /\ more[p] = block[p] /\ there[p] = at[p]
  BY <1>1
<1>6. \A a \in 1..Len(s) : m + a \in 1..(m + Len(s)) /\ more[m + a] = n + 1 /\ there[m + a] = a
  BY <1>1
<1> HIDE DEF more, there, longer
<1>7. \A p \in 1..Len(longer) :
        there[p] \in 1..Len(seqs[more[p]]) /\ longer[p] = seqs[more[p]][there[p]]
  <2> HIDE DEF m
  <2> QED
    BY <1>1, <1>2, <1>3
<1>8. \A p, q \in 1..Len(longer) : p < q =>
        more[p] < more[q] \/ (more[p] = more[q] /\ there[p] < there[q])
  <2> TAKE p, q \in 1..Len(longer)
  <2> HAVE p < q
  <2>0. p \in 1..(m + Len(s)) /\ q \in 1..(m + Len(s)) /\ m \in Nat
    BY <1>1
  <2>1. CASE q \in 1..m
    <3>1. p \in 1..m
      BY <2>0, <2>1
    <3>2. block[p] < block[q] \/ (block[p] = block[q] /\ at[p] < at[q])
      BY <2>1, <3>1 DEF LaidOut
    <3> QED
      BY <1>5, <2>1, <3>1, <3>2
  <2>2. CASE q > m
    <3>1. more[q] = n + 1 /\ there[q] = q - m
      BY <1>3, <2>0, <2>2
    <3>2. CASE p \in 1..m
      <4>1. more[p] \in 1..n
        BY <1>2, <1>5, <3>2
      <4> QED
        BY <3>1, <4>1
    <3>3. CASE p > m
      <4>1. more[p] = n + 1 /\ there[p] = p - m
        BY <1>3, <2>0, <3>3
      <4> HIDE DEF m
      <4> QED
        BY <2>0, <3>1, <4>1
    <3> QED
      BY <1>3, <2>0, <3>2, <3>3
  <2>3. q \in 1..m \/ q > m
    <3> HIDE DEF m
    <3> QED
      BY <2>0
  <2> QED
    BY <2>1, <2>2, <2>3
<1>9. \A b \in 1..(n + 1) : \A a \in 1..Len(seqs[b]) :
        \E p \in 1..Len(longer) : more[p] = b /\ there[p] = a
  <2> TAKE b \in 1..(n + 1)
  <2> TAKE a \in 1..Len(seqs[b])
  <2>1. CASE b = n + 1
    BY <1>1, <1>6, <2>1
  <2>2. CASE b \in 1..n
    <3>1. PICK p \in 1..m : block[p] = b /\ at[p] = a
      BY <2>2 DEF LaidOut
    <3> QED
      BY <1>1, <1>5, <3>1
  <2> QED
    BY <2>1, <2>2
<1>10. LaidOut(longer, seqs, n + 1, more, there)
  BY <1>4, <1>7, <1>8, <1>9 DEF LaidOut
<1> QED
  BY <1>10 DEF longer

\* FlattenSeq puts sequences behind one another.
LEMMA FlattenLemma ==
  ASSUME NEW S, NEW seqs \in Seq(Seq(S))
  PROVE  /\ FlattenSeq(seqs) \in Seq(S)
         /\ \E block, at : LaidOut(FlattenSeq(seqs), seqs, Len(seqs), block, at)
<1>1. CASE Len(seqs) = 0
  <2>1. seqs = <<>> /\ FlattenSeq(seqs) = seqs
    BY <1>1 DEF FlattenSeq
  <2>2. Len(<<>>) = 0 /\ 1..0 = {} /\ <<>> \in Seq(S)
    OBVIOUS
  <2> DEFINE none == [p \in 1..0 |-> 0]
  <2>3. LaidOut(<<>>, <<>>, 0, none, none)
    BY <2>2 DEF LaidOut
  <2> QED
    BY <1>1, <2>1, <2>2, <2>3
<1>2. CASE Len(seqs) # 0
  <2> DEFINE N == Len(seqs)
  <2>1. N \in Nat /\ \A i \in 1..N : seqs[i] \in Seq(S)
    OBVIOUS
  <2>2. PICK f : Joins(f, seqs, N) /\ FlattenSeq(seqs) = f[N]
    BY <1>2, FlattenJoins
  <2> HIDE DEF N
  <2>3. \A i \in 1..N : f[i] = IF i = 1 THEN seqs[i] ELSE f[i - 1] \o seqs[i]
    BY <2>2 DEF Joins
  <2> DEFINE Good(i) == f[i] \in Seq(S) /\ \E block, at : LaidOut(f[i], seqs, i, block, at)
             bad == {i \in 1..N : ~Good(i)}
  <2>4. bad = {}
    <3> SUFFICES ASSUME bad # {} PROVE FALSE
      OBVIOUS
    <3>1. PICK u \in bad : \A i \in bad : u <= i
      <4>1. bad \in SUBSET Nat
        BY <2>1
      <4> HIDE DEF bad
      <4> QED
        BY <4>1, SmallestLemma
    <3>2. CASE u = 1
      <4>1. f[1] = seqs[1] /\ seqs[1] \in Seq(S)
        BY <2>1, <2>3, <3>1, <3>2
      <4>2. Good(1)
        BY <4>1, LayoutFirst
      <4> QED
        BY <3>1, <3>2, <4>2
    <3>3. CASE u # 1
      <4>0. u \in 1..N
        BY <3>1
      <4>1. u - 1 \in 1..N /\ u - 1 \in Nat /\ u - 1 + 1 = u /\ u - 1 \notin bad
        <5>1. u - 1 \in 1..N /\ u - 1 \in Nat /\ u - 1 + 1 = u /\ ~(u <= u - 1)
          BY <2>1, <3>3, <4>0
        <5> HIDE DEF bad
        <5> QED
          BY <3>1, <5>1
      <4>2. Good(u - 1)
        BY <4>1
      <4>3. f[u] = f[u - 1] \o seqs[u] /\ seqs[u] \in Seq(S)
        BY <2>1, <2>3, <3>1, <3>3
      <4>4. PICK block, at : LaidOut(f[u - 1], seqs, u - 1, block, at)
        BY <4>2
      <4>5. \E more, there : LaidOut(f[u - 1] \o seqs[u], seqs, u, more, there)
        BY <4>1, <4>2, <4>3, <4>4, LayoutLonger
      <4>6. f[u] \in Seq(S)
        BY <4>2, <4>3
      <4>7. Good(u)
        BY <4>3, <4>5, <4>6
      <4> QED
        BY <3>1, <4>7
    <3> QED
      BY <3>2, <3>3
  <2>5. Good(N)
    <3>1. N \in 1..N
      BY <1>2, <2>1 DEF N
    <3> QED
      BY <2>4, <3>1
  <2> QED
    BY <2>2, <2>5 DEF N
<1> QED
  BY <1>1, <1>2

-----------------------------------------------------------------------------
(* Segments.                                                               *)

SegmentType == [type : {"tx", "null"}, duration : Int, offset : Int, isg : Int]

\* A segment is one.
LEMMA SegmentLemma ==
  ASSUME NEW type \in {"tx", "null"}, NEW duration \in Int, NEW offset \in Int
  PROVE  Segment(type, duration, offset) \in SegmentType /\ Segment(type, duration, offset).type = type
  BY DEF Segment, SegmentType

\* One turn of the loop of a stream that repeats; f is what the turns behind it
\* add.
Turn(f, duration, delay, t) ==
  LET over == t + duration
      pause == Shorter(delay, Runtime - over)
  IN  IF t >= Runtime THEN <<>>
      ELSE IF duration > Runtime - t THEN <<Segment("tx", Runtime - t, t)>>
      ELSE <<Segment("tx", duration, t)>>
             \o (IF pause > 0 \/ delay = 0
                 THEN <<Segment("null", pause, over)>> ELSE <<>>)
             \o f[over + pause]

From(m) == {t \in Nat : m <= t}
Turns(f, duration, delay, m) == f = [t \in From(m) |-> Turn(f, duration, delay, t)]

\* A turn depends on later ones only.
LEMMA TurnLemma ==
  ASSUME NEW duration \in Nat, duration # 0, NEW delay \in Nat, NEW t \in Nat,
         NEW f, NEW g, \A u \in From(t + 1) : f[u] = g[u]
  PROVE  Turn(f, duration, delay, t) = Turn(g, duration, delay, t)
<1>1. Runtime \in Nat
  BY ProfileAssumption
<1>2. CASE t >= Runtime \/ duration > Runtime - t
  BY <1>2 DEF Turn
<1>3. CASE ~(t >= Runtime \/ duration > Runtime - t)
  <2> DEFINE next == t + duration + Shorter(delay, Runtime - (t + duration))
  <2>1. next \in From(t + 1)
    BY <1>1, <1>3 DEF From, Shorter
  <2>2. f[next] = g[next]
    BY <2>1
  <2> QED
    BY <1>3, <2>2 DEF Turn
<1> QED
  BY <1>2, <1>3

\* With the turns from m on there are those from one earlier.
LEMMA TurnsEarlier ==
  ASSUME NEW duration \in Nat, duration # 0, NEW delay \in Nat, NEW m \in Nat,
         NEW f, Turns(f, duration, delay, m + 1)
  PROVE  \E g : Turns(g, duration, delay, m)
<1> DEFINE g == [t \in From(m) |-> IF t = m THEN Turn(f, duration, delay, m) ELSE f[t]]
<1>1. From(m) = {m} \cup From(m + 1) /\ m \notin From(m + 1)
  BY DEF From
<1>2. \A t \in From(m + 1) : f[t] = Turn(f, duration, delay, t)
  BY DEF Turns
<1>3. \A t \in From(m + 1) : g[t] = f[t]
  BY <1>1
<1>4. g[m] = Turn(f, duration, delay, m)
  BY <1>1
<1>5. g = [t \in From(m) |-> g[t]]
  OBVIOUS
<1> HIDE DEF g
<1>6. ASSUME NEW t \in From(m)
      PROVE  g[t] = Turn(g, duration, delay, t)
  <2>1. t \in Nat /\ \A u \in From(t + 1) : u \in From(m + 1)
    BY DEF From
  <2>2. Turn(f, duration, delay, t) = Turn(g, duration, delay, t)
    BY <1>3, <2>1, TurnLemma
  <2> QED
    BY <1>1, <1>2, <1>3, <1>4, <2>2
<1>7. Turns(g, duration, delay, m)
  BY <1>5, <1>6 DEF Turns
<1> QED
  BY <1>7

\* There is a function of all turns: the first number from which there is one
\* cannot be above 0.
LEMMA TurnsExist ==
  ASSUME NEW duration \in Nat, duration # 0, NEW delay \in Nat
  PROVE  \E f : Turns(f, duration, delay, 0)
<1> DEFINE good(k) == \E f : Turns(f, duration, delay, Runtime - k)
           bad == {k \in 0..Runtime : ~good(k)}
<1>0. Runtime \in Nat
  BY ProfileAssumption
<1>1. bad = {}
  <2> SUFFICES ASSUME bad # {} PROVE FALSE
    OBVIOUS
  <2>1. PICK u \in bad : \A k \in bad : u <= k
    <3>1. bad \in SUBSET Nat
      BY <1>0
    <3> HIDE DEF bad
    <3> QED
      BY <3>1, SmallestLemma
  <2>2. u \in 0..Runtime /\ ~good(u)
    BY <2>1
  <2>3. CASE u = 0
    <3> DEFINE f == [t \in From(Runtime) |-> <<>>]
    <3>1. \A t \in From(Runtime) : Turn(f, duration, delay, t) = <<>>
      BY <1>0 DEF From, Turn
    <3>2. Turns(f, duration, delay, Runtime)
      BY <3>1 DEF Turns
    <3>3. Runtime - 0 = Runtime
      BY <1>0
    <3> QED
      BY <2>2, <2>3, <3>2, <3>3
  <2>4. CASE u # 0
    <3>1. /\ u - 1 \in 0..Runtime /\ ~(u <= u - 1) /\ Runtime - u \in Nat
          /\ Runtime - u + 1 = Runtime - (u - 1)
      BY <1>0, <2>2, <2>4
    <3> HIDE DEF bad
    <3>2. u - 1 \notin bad
      BY <2>1, <3>1
    <3>3. PICK f : Turns(f, duration, delay, Runtime - u + 1)
      BY <3>1, <3>2 DEF bad
    <3> QED
      BY <2>2, <3>1, <3>3, TurnsEarlier
  <2> QED
    BY <2>3, <2>4
<1>2. Runtime \in 0..Runtime /\ Runtime - Runtime = 0
  BY <1>0
<1> QED
  BY <1>1, <1>2

\* The segments of a stream that repeats are the first turn and those behind it.
LEMMA RepeatedLemma ==
  ASSUME NEW stream, TxDuration(stream) \in Nat, TxDuration(stream) # 0, stream.repeat_delay \in Nat
  PROVE  Turns(RepeatedFrom(stream), TxDuration(stream), stream.repeat_delay, 0)
<1> DEFINE duration == TxDuration(stream)
           delay == stream.repeat_delay
<1>1. \E f : Turns(f, duration, delay, 0)
  BY TurnsExist
<1>2. From(0) = Nat
  BY DEF From
<1>3. RepeatedFrom(stream) = CHOOSE f : Turns(f, duration, delay, 0)
  BY <1>2 DEF RepeatedFrom, Turns, Turn
<1> HIDE DEF duration, delay
<1>4. Turns(RepeatedFrom(stream), duration, delay, 0)
  BY <1>1, <1>3
<1> QED
  BY <1>4 DEF duration, delay

\* Turns are sequences of segments: they are none behind the end of the trial,
\* and the last turn that fails would have a later one that does.
LEMMA TurnsTyped ==
  ASSUME NEW duration \in Nat, duration # 0, NEW delay \in Nat,
         NEW f, Turns(f, duration, delay, 0)
  PROVE  \A t \in Nat : /\ f[t] \in Seq(SegmentType)
                        /\ t < Runtime => Len(f[t]) # 0 /\ f[t][1].type = "tx"
<1> DEFINE good(t) == /\ f[t] \in Seq(SegmentType)
                      /\ t < Runtime => Len(f[t]) # 0 /\ f[t][1].type = "tx"
           bad == {k \in Nat : \E t \in Nat : k = Runtime - t /\ ~good(t)}
<1>0. Runtime \in Nat
  BY ProfileAssumption
<1>1. \A t \in Nat : f[t] = Turn(f, duration, delay, t)
  BY DEF Turns, From
<1>2. ASSUME NEW t \in Nat, t >= Runtime
      PROVE  good(t)
  <2>1. Turn(f, duration, delay, t) = <<>>
    BY <1>2 DEF Turn
  <2>2. f[t] = <<>> /\ <<>> \in Seq(SegmentType) /\ ~(t < Runtime)
    BY <1>0, <1>1, <1>2, <2>1
  <2> QED
    BY <2>2
<1>3. bad = {}
  <2> SUFFICES ASSUME bad # {} PROVE FALSE
    OBVIOUS
  <2>1. PICK u \in bad : \A k \in bad : u <= k
    <3>1. bad \in SUBSET Nat
      OBVIOUS
    <3> HIDE DEF bad
    <3> QED
      BY <3>1, SmallestLemma
  <2>2. PICK t \in Nat : u = Runtime - t /\ ~good(t)
    BY <2>1
  <2>3. t < Runtime /\ u \in Nat
    BY <1>0, <1>2, <2>2
  <2> DEFINE over == t + duration
             pause == Shorter(delay, Runtime - over)
             break == IF pause > 0 \/ delay = 0 THEN <<Segment("null", pause, over)>> ELSE <<>>
  <2>4. CASE duration > Runtime - t
    <3>0. ~(t >= Runtime)
      BY <1>0, <2>3
    <3>1. f[t] = <<Segment("tx", Runtime - t, t)>>
      <4>1. Turn(f, duration, delay, t) = <<Segment("tx", Runtime - t, t)>>
        BY <2>4, <3>0 DEF Turn
      <4> QED
        BY <1>1, <4>1
    <3>2. Segment("tx", Runtime - t, t) \in SegmentType /\ Segment("tx", Runtime - t, t).type = "tx"
      BY <1>0, SegmentLemma
    <3>3. good(t)
      BY <3>1, <3>2
    <3> QED
      BY <2>2, <3>3
  <2>5. CASE ~(duration > Runtime - t)
    <3>0. ~(t >= Runtime)
      BY <1>0, <2>3
    <3>1. f[t] = <<Segment("tx", duration, t)>> \o break \o f[over + pause]
      <4>1. Turn(f, duration, delay, t) = <<Segment("tx", duration, t)>> \o break \o f[over + pause]
        BY <2>5, <3>0 DEF Turn
      <4> QED
        BY <1>1, <4>1
    <3>2. over \in Nat /\ over <= Runtime /\ pause \in Nat
      BY <1>0, <2>3, <2>5 DEF Shorter
    <3>3. over + pause \in Nat /\ over + pause > t
      BY <3>2
    <3>4. f[over + pause] \in Seq(SegmentType)
      <4> DEFINE next == over + pause
      <4>1. CASE next >= Runtime
        BY <1>2, <3>3, <4>1
      <4>2. CASE ~(next >= Runtime)
        <5> HIDE DEF good
        <5>1. good(next)
          <6> SUFFICES ASSUME ~good(next) PROVE FALSE
            OBVIOUS
          <6>1. next \in Nat /\ Runtime - next \in Nat /\ Runtime - next < u
            <7> HIDE DEF over, pause
            <7> QED
              BY <1>0, <2>2, <2>3, <3>3, <4>2
          <6> HIDE DEF next
          <6>2. Runtime - next \in bad
            BY <6>1
          <6> HIDE DEF bad
          <6> QED
            BY <1>0, <2>1, <2>3, <6>1, <6>2
        <5> QED
          BY <5>1 DEF good
      <4> QED
        BY <4>1, <4>2
    <3>5. Segment("tx", duration, t) \in SegmentType /\ Segment("tx", duration, t).type = "tx"
      BY SegmentLemma
    <3>6. Segment("null", pause, over) \in SegmentType
      BY <3>2, SegmentLemma
    <3>7. break \in Seq(SegmentType)
      BY <3>6
    <3>8. good(t)
      <4> DEFINE burst == Segment("tx", duration, t)
                 rest == f[over + pause]
      <4>1. /\ burst \in SegmentType /\ break \in Seq(SegmentType) /\ rest \in Seq(SegmentType)
            /\ f[t] = <<burst>> \o break \o rest
        BY <3>1, <3>4, <3>5, <3>7
      <4> HIDE DEF break, over, pause, bad, burst, rest
      <4>2. f[t] \in Seq(SegmentType) /\ Len(f[t]) # 0 /\ f[t][1] = burst
        BY <4>1
      <4> QED
        BY <3>5, <4>2 DEF burst
    <3> QED
      BY <2>2, <3>8
  <2> QED
    BY <2>4, <2>5
<1> QED
  <2> SUFFICES ASSUME NEW t \in Nat PROVE good(t)
    OBVIOUS
  <2>1. CASE t >= Runtime
    BY <1>2, <2>1
  <2>2. CASE ~(t >= Runtime)
    <3>1. Runtime - t \in Nat
      BY <1>0, <2>2
    <3> HIDE DEF good
    <3> QED
      BY <1>3, <3>1
  <2> QED
    BY <2>1, <2>2

\* The duration of a transmission is a number.
LEMMA TxDurationLemma ==
  ASSUME NEW stream, stream.offset \in Nat, stream.offset < Runtime, stream.duration \in Nat
  PROVE  TxDuration(stream) \in Nat /\ TxDuration(stream) # 0
  BY ProfileAssumption DEF TxDuration, Shorter

\* A stream that does not repeat transmits once.
LEMMA SingleLemma ==
  ASSUME NEW stream, stream.offset \in Int, stream.duration \in Int, ~stream.repeat
  PROVE  /\ build_stream_segments(stream) \in Seq(SegmentType)
         /\ \E k : Transmissions(build_stream_segments(stream)) = {k}
<1> DEFINE over == stream.offset + TxDuration(stream)
           before == Segment("null", stream.offset, 0)
           burst == Segment("tx", TxDuration(stream), stream.offset)
           after == Segment("null", Runtime - over, over)
<1>1. /\ before \in SegmentType /\ before.type = "null"
      /\ burst \in SegmentType /\ burst.type = "tx"
      /\ after \in SegmentType /\ after.type = "null"
  <2>1. TxDuration(stream) \in Int /\ Runtime \in Int
    BY ProfileAssumption DEF TxDuration, Shorter
  <2> QED
    BY <2>1, SegmentLemma
<1> DEFINE first == IF stream.offset > 0 THEN <<before>> ELSE <<>>
           last == IF over < Runtime THEN <<after>> ELSE <<>>
<1>2. build_stream_segments(stream) = first \o (<<burst>> \o last)
  BY DEF build_stream_segments
<1> HIDE DEF over, before, burst, after
<1>3. /\ first \in Seq(SegmentType) /\ \A k \in 1..Len(first) : first[k].type = "null"
      /\ last \in Seq(SegmentType) /\ \A k \in 1..Len(last) : last[k].type = "null"
  BY <1>1
<1> HIDE DEF first, last
<1> DEFINE all == first \o (<<burst>> \o last)
           place == Len(first) + 1
<1>4. /\ all \in Seq(SegmentType) /\ Len(first) \in Nat /\ place \in 1..Len(all)
      /\ \A k \in 1..Len(all) : \/ k = place /\ all[k] = burst
                                \/ k \in 1..Len(first) /\ k # place /\ all[k] = first[k]
                                \/ k - place \in 1..Len(last) /\ k # place /\ all[k] = last[k - place]
  BY <1>1, <1>3
<1>5. DOMAIN all = 1..Len(all)
  BY <1>4
<1> HIDE DEF all, place
<1>6. Transmissions(all) = {place}
  BY <1>1, <1>3, <1>4, <1>5 DEF Transmissions
<1> QED
  BY <1>2, <1>4, <1>6 DEF all

\* The segments of a stream that repeats have a type.
LEMMA RepeatingLemma ==
  ASSUME NEW stream, stream.offset \in Nat, stream.offset < Runtime, stream.duration \in Nat,
         stream.repeat_delay \in Nat, stream.repeat
  PROVE  /\ build_stream_segments(stream) \in Seq(SegmentType)
         /\ \E k \in DOMAIN build_stream_segments(stream) :
              build_stream_segments(stream)[k].type = "tx"
<1> DEFINE first == IF stream.offset > 0 THEN <<Segment("null", stream.offset, 0)>> ELSE <<>>
           bursts == RepeatedFrom(stream)[stream.offset]
<1>1. bursts \in Seq(SegmentType) /\ Len(bursts) # 0 /\ bursts[1].type = "tx"
  BY TxDurationLemma, RepeatedLemma, TurnsTyped
<1>2. first \in Seq(SegmentType)
  <2>1. Segment("null", stream.offset, 0) \in SegmentType
    BY SegmentLemma
  <2> QED
    BY <2>1
<1>3. build_stream_segments(stream) = first \o bursts
  BY DEF build_stream_segments
<1> HIDE DEF first, bursts
<1>4. /\ first \o bursts \in Seq(SegmentType)
      /\ Len(first) + 1 \in DOMAIN (first \o bursts) /\ (first \o bursts)[Len(first) + 1] = bursts[1]
  BY <1>1, <1>2
<1> QED
  BY <1>1, <1>3, <1>4

\* A segment whose gap is taken from its offset is one.
LEMMA ShiftLemma ==
  ASSUME NEW s \in SegmentType, NEW pause \in Int
  PROVE  LET t == [s EXCEPT !.isg = pause, !.offset = s.offset - pause]
         IN  t \in SegmentType /\ t.type = s.type
<1> DEFINE o == s.offset - pause
<1>1. o \in Int
  BY DEF SegmentType
<1> HIDE DEF o
<1>2. /\ [s EXCEPT !.isg = pause, !.offset = o] \in SegmentType
      /\ [s EXCEPT !.isg = pause, !.offset = o].type = s.type
  BY <1>1 DEF SegmentType
<1> QED
  BY <1>2 DEF o

\* The pause before a segment changes its gap and its offset only.
LEMMA GapLemma ==
  ASSUME NEW segments \in Seq(SegmentType), NEW k \in 1..Len(segments)
  PROVE  WithGap(segments, k) \in SegmentType /\ WithGap(segments, k).type = segments[k].type
<1>1. segments[k] \in SegmentType
  OBVIOUS
<1>2. CASE ~Precedes(segments, k - 1)
  BY <1>1, <1>2 DEF WithGap
<1>3. CASE Precedes(segments, k - 1)
  <2>1. segments[k - 1] \in SegmentType
    BY <1>3 DEF Precedes
  <2> DEFINE s == segments[k]
             pause == segments[k - 1].duration
  <2>2. pause \in Int
    BY <2>1 DEF SegmentType
  <2>3. WithGap(segments, k) = [s EXCEPT !.isg = pause, !.offset = s.offset - pause]
    BY <1>3 DEF WithGap
  <2>4. s \in SegmentType
    BY <1>1
  <2> HIDE DEF s, pause
  <2>5. WithGap(segments, k) \in SegmentType /\ WithGap(segments, k).type = s.type
    BY <2>2, <2>3, <2>4, ShiftLemma
  <2> QED
    BY <2>5 DEF s
<1> QED
  BY <1>2, <1>3

\* What is measured is a pause or a transmission of the stream, and each
\* transmission is measured.
LEMMA MeasuredLemma ==
  ASSUME NEW segments \in Seq(SegmentType)
  PROVE  /\ build_measurement_segments(segments) \in Seq(SegmentType)
         /\ (\E k : Transmissions(segments) = {k}) =>
              \E j : Transmissions(build_measurement_segments(segments)) = {j}
<1> DEFINE parts == [k \in DOMAIN segments |->
                       IF Precedes(segments, k) THEN <<>> ELSE <<WithGap(segments, k)>>]
           flat == build_measurement_segments(segments)
<1>0. DOMAIN segments = 1..Len(segments) /\ Len(segments) \in Nat
  OBVIOUS
<1>1. /\ parts \in Seq(Seq(SegmentType)) /\ Len(parts) = Len(segments)
  <2>1. \A k \in 1..Len(segments) : parts[k] \in Seq(SegmentType)
    BY <1>0, GapLemma
  <2>2. parts = [k \in 1..Len(segments) |-> parts[k]]
    BY <1>0
  <2> HIDE DEF parts
  <2> QED
    BY <1>0, <2>1, <2>2
<1>2. \A k \in 1..Len(segments) :
        /\ Precedes(segments, k) => Len(parts[k]) = 0
        /\ ~Precedes(segments, k) => Len(parts[k]) = 1 /\ parts[k][1] = WithGap(segments, k)
  BY <1>0
<1>3. flat = FlattenSeq(parts)
  BY DEF build_measurement_segments
<1> HIDE DEF parts, flat
<1>4. flat \in Seq(SegmentType) /\ \E block, at : LaidOut(flat, parts, Len(parts), block, at)
  BY <1>1, <1>3, FlattenLemma
<1>5. PICK block, at : LaidOut(flat, parts, Len(parts), block, at)
  BY <1>4
<1>6. \A p \in 1..Len(flat) :
        block[p] \in 1..Len(segments) /\ at[p] = 1 /\ flat[p].type = segments[block[p]].type
  <2> TAKE p \in 1..Len(flat)
  <2>1. /\ block[p] \in 1..Len(segments) /\ at[p] \in 1..Len(parts[block[p]])
        /\ flat[p] = parts[block[p]][at[p]]
    BY <1>1, <1>5 DEF LaidOut
  <2>2. Len(parts[block[p]]) = 1 /\ at[p] = 1 /\ flat[p] = WithGap(segments, block[p])
    BY <1>2, <2>1
  <2> QED
    BY <2>1, <2>2, GapLemma
<1>7. ASSUME NEW k, Transmissions(segments) = {k}
      PROVE  \E j : Transmissions(flat) = {j}
  <2>1. k \in 1..Len(segments) /\ ~Precedes(segments, k)
        /\ \A b \in 1..Len(segments) : segments[b].type = "tx" <=> b = k
    BY <1>0, <1>7 DEF Transmissions, Precedes
  <2>2. PICK p \in 1..Len(flat) : block[p] = k
    <3>1. 1 \in 1..Len(parts[k])
      BY <1>2, <2>1
    <3> QED
      BY <1>1, <1>5, <2>1, <3>1 DEF LaidOut
  <2>3. \A q \in 1..Len(flat) : block[q] = k => q = p
    <3> TAKE q \in 1..Len(flat)
    <3> HAVE block[q] = k
    <3>1. ~(p < q)
      <4> SUFFICES ASSUME p < q PROVE FALSE
        OBVIOUS
      <4>1. block[p] < block[q] \/ at[p] < at[q]
        BY <1>5 DEF LaidOut
      <4> QED
        BY <1>6, <2>1, <2>2, <4>1
    <3>2. ~(q < p)
      <4> SUFFICES ASSUME q < p PROVE FALSE
        OBVIOUS
      <4>1. block[q] < block[p] \/ at[q] < at[p]
        BY <1>5 DEF LaidOut
      <4> QED
        BY <1>6, <2>1, <2>2, <4>1
    <3>3. Len(flat) \in Nat
      BY <1>4
    <3> QED
      BY <3>1, <3>2, <3>3
  <2>4. DOMAIN flat = 1..Len(flat)
    BY <1>4
  <2>5. Transmissions(flat) = {p}
    <3>1. p \in Transmissions(flat)
      BY <1>6, <2>1, <2>2, <2>4 DEF Transmissions
    <3>2. ASSUME NEW q \in Transmissions(flat) PROVE q = p
      <4>1. q \in 1..Len(flat) /\ flat[q].type = "tx"
        BY <2>4, <3>2 DEF Transmissions
      <4>2. block[q] = k
        BY <1>6, <2>1, <4>1
      <4> QED
        BY <2>3, <4>1, <4>2
    <3> QED
      BY <3>1, <3>2
  <2> QED
    BY <2>5
<1> QED
  BY <1>4, <1>7 DEF flat

\* A stream and its repetitions are cut into segments, each with as many
\* transmissions as the first.
LEMMA RepetitionsLemma ==
  ASSUME NEW stream \in StreamType, stream.offset < Runtime
  PROVE  /\ Len(Repetitions(stream)) \in Nat \ {0}
         /\ DOMAIN Repetitions(stream) = 1..Len(Repetitions(stream))
         /\ \/ Repetitions(stream) = <<stream>>
            \/ \A r \in DOMAIN Repetitions(stream) :
                 LET burst == Repetitions(stream)[r]
                 IN  ~burst.repeat /\ burst.duration \in Int /\ burst.offset \in Int
<1>1. CASE ~stream.repeat \/ stream.repeat_flows
  <2>1. Repetitions(stream) = <<stream>>
    BY <1>1 DEF Repetitions
  <2>2. Len(<<stream>>) = 1 /\ DOMAIN <<stream>> = 1..1
    OBVIOUS
  <2> QED
    BY <2>1, <2>2
<1>2. CASE ~(~stream.repeat \/ stream.repeat_flows)
  <2> DEFINE segments == build_stream_segments(stream)
             burst(k) == [stream EXCEPT !.repeat = FALSE, !.repeat_flows = TRUE,
                                        !.duration = segments[k].duration,
                                        !.offset = segments[k].offset]
             parts == [k \in DOMAIN segments |->
                         IF segments[k].type = "null" THEN <<>> ELSE <<burst(k)>>]
             Bursts == {b \in {burst(k) : k \in DOMAIN segments} :
                          ~b.repeat /\ b.duration \in Int /\ b.offset \in Int}
             flat == Repetitions(stream)
  <2>1. /\ stream.offset \in Nat /\ stream.duration \in Nat /\ stream.repeat_delay \in Nat
        /\ stream.repeat
    BY <1>2 DEF WholeSeconds, StreamType
  <2>2. /\ segments \in Seq(SegmentType)
        /\ \E k \in DOMAIN segments : segments[k].type = "tx"
    BY <2>1, RepeatingLemma
  <2>3. flat = FlattenSeq(parts)
    BY <1>2 DEF Repetitions
  <2> HIDE DEF segments
  <2>4. DOMAIN segments = 1..Len(segments) /\ Len(segments) \in Nat
    BY <2>2
  <2>5. \A k \in DOMAIN segments : burst(k) \in Bursts
    <3> TAKE k \in DOMAIN segments
    <3>0. segments[k] \in SegmentType
      BY <2>2
    <3>1. segments[k].duration \in Int /\ segments[k].offset \in Int
      BY <3>0 DEF SegmentType
    <3>2. /\ burst(k).repeat = FALSE /\ burst(k).duration = segments[k].duration
          /\ burst(k).offset = segments[k].offset
      BY DEF StreamType
    <3> HIDE DEF burst
    <3> QED
      BY <3>1, <3>2
  <2> HIDE DEF burst, Bursts
  <2>6. parts \in Seq(Seq(Bursts)) /\ Len(parts) = Len(segments)
    <3>1. \A k \in 1..Len(segments) : parts[k] \in Seq(Bursts)
      BY <2>4, <2>5
    <3>2. parts = [k \in 1..Len(segments) |-> parts[k]]
      BY <2>4
    <3> HIDE DEF parts
    <3> QED
      BY <2>4, <3>1, <3>2
  <2>7. \A k \in DOMAIN segments : segments[k].type = "tx" => Len(parts[k]) = 1
    OBVIOUS
  <2> HIDE DEF parts, flat
  <2>8. flat \in Seq(Bursts) /\ \E block, at : LaidOut(flat, parts, Len(parts), block, at)
    BY <2>3, <2>6, FlattenLemma
  <2>9. Len(flat) # 0
    <3>1. PICK k \in DOMAIN segments : segments[k].type = "tx"
      BY <2>2
    <3>2. Len(parts[k]) = 1
      BY <2>7, <3>1
    <3>3. k \in 1..Len(parts) /\ 1 \in 1..Len(parts[k])
      BY <2>4, <2>6, <3>1, <3>2
    <3>4. \E p \in 1..Len(flat) : TRUE
      BY <2>8, <3>3 DEF LaidOut
    <3>5. 1..0 = {}
      OBVIOUS
    <3> QED
      BY <3>4, <3>5
  <2>10. \A r \in DOMAIN flat : flat[r] \in Bursts
    BY <2>8
  <2>11. Len(flat) \in Nat \ {0} /\ DOMAIN flat = 1..Len(flat)
    BY <2>8, <2>9
  <2> QED
    BY <2>10, <2>11 DEF Bursts, flat
<1> QED
  BY <1>1, <1>2

\* All repetitions are measured, and with the same number of transmissions.
LEMMA SegmentsLemma ==
  ASSUME NEW stream \in StreamType, stream.offset < Runtime
  PROVE  LET all == SegmentsOf(stream)
         IN  /\ Len(all) \in Nat \ {0} /\ DOMAIN all = 1..Len(all)
             /\ \A r \in DOMAIN all :
                  /\ all[r] \in Seq(SegmentType)
                  /\ Cardinality(Transmissions(all[r])) = Cardinality(Transmissions(all[1]))
<1> DEFINE all == SegmentsOf(stream)
           reps == Repetitions(stream)
<1>1. Len(reps) \in Nat \ {0} /\ DOMAIN reps = 1..Len(reps)
  BY RepetitionsLemma
<1>2. all = [r \in DOMAIN reps |-> build_measurement_segments(build_stream_segments(reps[r]))]
  BY DEF SegmentsOf
<1>3. Len(all) = Len(reps) /\ DOMAIN all = 1..Len(reps)
  <2> HIDE DEF all, reps
  <2> QED
    BY <1>1, <1>2
<1>4. CASE reps = <<stream>>
  <2>1. Len(reps) = 1 /\ reps[1] = stream
    BY <1>4
  <2>2. build_stream_segments(stream) \in Seq(SegmentType)
    <3>0. /\ stream.offset \in Nat /\ stream.duration \in Nat /\ stream.repeat_delay \in Nat
          /\ stream.offset \in Int /\ stream.duration \in Int
      BY DEF WholeSeconds, StreamType
    <3> QED
      BY <3>0, SingleLemma, RepeatingLemma
  <2>3. \A r \in DOMAIN all : r = 1 /\ all[r] \in Seq(SegmentType)
    BY <1>1, <1>2, <1>3, <2>1, <2>2, MeasuredLemma
  <2> QED
    BY <1>1, <1>3, <2>3
<1>5. CASE \A r \in DOMAIN reps :
             LET burst == reps[r]
             IN  ~burst.repeat /\ burst.duration \in Int /\ burst.offset \in Int
  <2>1. ASSUME NEW r \in DOMAIN all
        PROVE  /\ all[r] \in Seq(SegmentType)
               /\ \E j : Transmissions(all[r]) = {j}
    <3>1. r \in DOMAIN reps
      BY <1>1, <1>3
    <3>2. /\ build_stream_segments(reps[r]) \in Seq(SegmentType)
          /\ \E k : Transmissions(build_stream_segments(reps[r])) = {k}
      BY <1>5, <3>1, SingleLemma
    <3>3. all[r] = build_measurement_segments(build_stream_segments(reps[r]))
      BY <1>2, <3>1
    <3> HIDE DEF all, reps
    <3> QED
      BY <3>2, <3>3, MeasuredLemma
  <2>2. 1 \in DOMAIN all
    BY <1>1, <1>3
  <2> HIDE DEF all
  <2>3. \A r \in DOMAIN all : Cardinality(Transmissions(all[r])) = 1
    BY <2>1, FS_Singleton
  <2> QED
    BY <1>1, <1>3, <2>1, <2>2, <2>3 DEF all
<1> QED
  BY <1>4, <1>5, RepetitionsLemma

-----------------------------------------------------------------------------
(* Streams of a chain.                                                     *)

PartType == [type : {"tx", "null"}, isg : Int, rate : Nat, packets : Int, id : Int]

\* Only the first of the substreams has the gap of their segment.
LEMMA SplitLemma ==
  ASSUME NEW part \in PartType
  PROVE  /\ Split(part) \in Seq(PartType)
         /\ \A k \in 1..Len(Split(part)) :
              /\ Split(part)[k].type = part.type /\ Split(part)[k].id = part.id
              /\ k # 1 => Split(part)[k].isg = 0
<1>0. MaxPackets \in Nat \ {0} /\ part.packets \in Int /\ part.isg \in Int
  BY ProfileAssumption DEF PartType
<1>1. CASE part.packets <= MaxPackets
  <2>1. Split(part) = <<part>>
    BY <1>1 DEF Split
  <2>2. Len(<<part>>) = 1 /\ <<part>>[1] = part /\ <<part>> \in Seq(PartType)
    OBVIOUS
  <2> QED
    BY <2>1, <2>2
<1>2. CASE ~(part.packets <= MaxPackets)
  <2> DEFINE remainder == part.packets % MaxPackets
             loops == (part.packets \div MaxPackets) - IF remainder = 0 THEN 1 ELSE 0
             count(k) == IF k <= loops THEN MaxPackets ELSE remainder
             gap(k) == IF k = 1 THEN part.isg ELSE 0
             element(k) == [part EXCEPT !.packets = count(k), !.isg = gap(k)]
  <2>1. Split(part) = [k \in 1..(loops + 1) |-> element(k)]
    BY <1>2 DEF Split
  <2>2. loops + 1 \in Nat /\ remainder \in Int
    BY <1>0, <1>2
  <2> HIDE DEF loops, remainder
  <2>3. \A k \in 1..(loops + 1) : count(k) \in Int /\ gap(k) \in Int
    BY <1>0, <2>2
  <2>4. \A k \in 1..(loops + 1) : k # 1 => gap(k) = 0
    OBVIOUS
  <2> HIDE DEF count, gap
  <2>5. \A k \in 1..(loops + 1) :
          /\ element(k) \in PartType /\ element(k).type = part.type /\ element(k).id = part.id
          /\ element(k).isg = gap(k)
    BY <2>3 DEF PartType
  <2> HIDE DEF element
  <2>6. Split(part) \in Seq(PartType) /\ Len(Split(part)) = loops + 1
        /\ \A k \in 1..(loops + 1) : Split(part)[k] = element(k)
    BY <2>1, <2>2, <2>5
  <2> QED
    BY <2>4, <2>5, <2>6
<1> QED
  BY <1>1, <1>2

\* A part of a chain has the type and the id of its segment.
LEMMA PartLemma ==
  ASSUME NEW segment \in SegmentType, NEW rate \in Nat, NEW id \in Int
  PROVE  LET part == Part(segment, rate, (rate * segment.duration) \div Second, id)
         IN  part \in PartType /\ part.type = segment.type /\ part.id = id
<1> DEFINE packets == (rate * segment.duration) \div Second
<1>1. packets \in Int
  <2>1. segment.duration \in Int /\ Second \in Nat /\ Second > 0
    BY ProfileAssumption DEF SegmentType
  <2> DEFINE n == rate * segment.duration
  <2>2. n \in Int
    BY <2>1
  <2> HIDE DEF n
  <2>3. n \div Second \in Int
    BY <2>1, <2>2
  <2> QED
    BY <2>3 DEF n
<1> HIDE DEF packets
<1>2. /\ Part(segment, rate, packets, id) \in PartType
      /\ Part(segment, rate, packets, id).type = segment.type
      /\ Part(segment, rate, packets, id).id = id
  BY <1>1 DEF Part, PartType, SegmentType
<1> QED
  BY <1>2 DEF packets

\* A stream that transmits has the id of a segment that does; if segments have
\* different ids, the second of two with one id follows without a gap.
AlongSegments(parts, segments, ids) ==
  /\ \A k \in DOMAIN parts : parts[k].type = "tx" =>
       \E b \in Transmissions(segments) : parts[k].id = ids[b]
  /\ (\A a, b \in Transmissions(segments) : ids[a] = ids[b] => a = b) =>
       \A k, l \in DOMAIN parts :
         parts[k].type = "tx" /\ parts[l].type = "tx" /\ parts[k].id = parts[l].id
           /\ k < l => parts[l].isg = 0

\* The parts of a measurement chain go along its segments.
LEMMA ChainLemma ==
  ASSUME NEW segments \in Seq(SegmentType), NEW rate \in Nat,
         NEW ids \in [1..Len(segments) -> Int]
  PROVE  AlongSegments(MeasurementChain(segments, rate, ids), segments, ids)
<1> DEFINE part(b) == Part(segments[b], rate, (rate * segments[b].duration) \div Second, ids[b])
           splits == [b \in DOMAIN segments |-> Split(part(b))]
           parts == MeasurementChain(segments, rate, ids)
<1>0. DOMAIN segments = 1..Len(segments) /\ Len(segments) \in Nat
  OBVIOUS
<1>1. \A b \in 1..Len(segments) :
        part(b) \in PartType /\ part(b).type = segments[b].type /\ part(b).id = ids[b]
  <2> TAKE b \in 1..Len(segments)
  <2>1. segments[b] \in SegmentType /\ ids[b] \in Int
    OBVIOUS
  <2> QED
    BY <2>1, PartLemma
<1>2. parts = FlattenSeq(splits)
  BY DEF MeasurementChain
<1> HIDE DEF part, parts
<1>3. \A b \in 1..Len(segments) :
        /\ splits[b] \in Seq(PartType)
        /\ \A a \in 1..Len(splits[b]) :
             /\ splits[b][a].type = segments[b].type /\ splits[b][a].id = ids[b]
             /\ a # 1 => splits[b][a].isg = 0
  <2> TAKE b \in 1..Len(segments)
  <2>1. part(b) \in PartType /\ part(b).type = segments[b].type /\ part(b).id = ids[b]
    BY <1>1
  <2>2. splits[b] = Split(part(b))
    BY <1>0
  <2> DEFINE p == part(b)
             parted == Split(p)
  <2>3. p \in PartType
    BY <2>1
  <2>4. /\ parted \in Seq(PartType)
        /\ \A k \in 1..Len(parted) :
             /\ parted[k].type = p.type /\ parted[k].id = p.id
             /\ k # 1 => parted[k].isg = 0
    BY <2>3, SplitLemma
  <2>5. p.type = segments[b].type /\ p.id = ids[b] /\ splits[b] = parted
    BY <2>1, <2>2
  <2> HIDE DEF splits, p, parted
  <2> QED
    BY <2>4, <2>5
<1>4. splits = [b \in 1..Len(segments) |-> splits[b]]
  BY <1>0
<1> HIDE DEF splits
<1>5. splits \in Seq(Seq(PartType)) /\ Len(splits) = Len(segments)
  BY <1>0, <1>3, <1>4
<1>6. parts \in Seq(PartType) /\ \E block, at : LaidOut(parts, splits, Len(splits), block, at)
  BY <1>2, <1>5, FlattenLemma
<1>7. PICK block, at : LaidOut(parts, splits, Len(splits), block, at)
  BY <1>6
<1>8. DOMAIN parts = 1..Len(parts) /\ Len(parts) \in Nat
  BY <1>6
<1>9. ASSUME NEW k \in 1..Len(parts)
      PROVE  /\ block[k] \in 1..Len(segments) /\ at[k] \in Nat /\ at[k] # 0
             /\ parts[k].type = segments[block[k]].type /\ parts[k].id = ids[block[k]]
             /\ at[k] # 1 => parts[k].isg = 0
  <2> DEFINE b == block[k]
             a == at[k]
  <2>1. b \in 1..Len(segments) /\ a \in 1..Len(splits[b]) /\ parts[k] = splits[b][a]
    BY <1>5, <1>7 DEF LaidOut
  <2> HIDE DEF a, b
  <2>2. a \in Nat /\ a # 0
    BY <2>1
  <2>3. /\ splits[b][a].type = segments[b].type /\ splits[b][a].id = ids[b]
        /\ a # 1 => splits[b][a].isg = 0
    BY <1>3, <2>1
  <2> QED
    BY <2>1, <2>2, <2>3 DEF a, b
<1>10. ASSUME NEW k \in 1..Len(parts), parts[k].type = "tx"
       PROVE  block[k] \in Transmissions(segments)
  BY <1>0, <1>9, <1>10 DEF Transmissions
<1>11. ASSUME \A a, b \in Transmissions(segments) : ids[a] = ids[b] => a = b,
              NEW k \in 1..Len(parts), NEW l \in 1..Len(parts),
              parts[k].type = "tx", parts[l].type = "tx", parts[k].id = parts[l].id, k < l
       PROVE  parts[l].isg = 0
  <2>1. block[k] = block[l]
    BY <1>9, <1>10, <1>11
  <2>2. at[k] < at[l]
    BY <1>7, <1>9, <1>11, <2>1 DEF LaidOut
  <2>3. at[l] # 1
    BY <1>9, <2>2
  <2> QED
    BY <1>9, <2>3
<1> QED
  BY <1>8, <1>9, <1>10, <1>11 DEF parts, AlongSegments

-----------------------------------------------------------------------------
(* Flow group ids of a chain.                                              *)

\* The transmissions of a sequence of segments are finitely many.
LEMMA TransmissionsLemma ==
  ASSUME NEW segments \in Seq(SegmentType)
  PROVE  /\ IsFiniteSet(Transmissions(segments)) /\ Cardinality(Transmissions(segments)) \in Nat
         /\ Transmissions(segments) \subseteq 1..Len(segments)
<1>1. /\ IsFiniteSet(1..Len(segments)) /\ Transmissions(segments) \subseteq 1..Len(segments)
  <2>1. DOMAIN segments = 1..Len(segments) /\ Len(segments) \in Nat
    OBVIOUS
  <2> QED
    BY <2>1, FS_Interval DEF Transmissions
<1> QED
  BY <1>1, FS_Subset, FS_CardinalityType

\* The ids of the transmissions of a chain lie behind its first one, those of
\* a latency stream one behind the other.
LEMMA AlongLemma ==
  ASSUME NEW segments \in Seq(SegmentType), NEW mode \in Types, NEW first \in Nat
  PROVE  LET ids == IdsAlong(segments, mode, first)
             tx == Transmissions(segments)
         IN  /\ IdsPerChain(mode, segments) \in Nat
             /\ ids \in [1..Len(segments) -> Int]
             /\ \A b \in tx : ids[b] \in first..(first + IdsPerChain(mode, segments) - 1)
             /\ mode = "latency" => \A a, b \in tx : ids[a] = ids[b] => a = b
<1> DEFINE ids == IdsAlong(segments, mode, first)
           tx == Transmissions(segments)
           before(b) == {j \in tx : j < b}
<1>0. /\ DOMAIN segments = 1..Len(segments) /\ IsFiniteSet(tx) /\ Cardinality(tx) \in Nat
      /\ tx \subseteq Nat
  <2>1. DOMAIN segments = 1..Len(segments) /\ 1..Len(segments) \subseteq Nat
    OBVIOUS
  <2> QED
    BY <2>1, TransmissionsLemma
<1>1. \A b \in 1..Len(segments) :
        ids[b] = IF segments[b].type = "null" THEN 0
                 ELSE IF mode = "default" THEN first
                 ELSE first + Cardinality(before(b))
  BY <1>0 DEF IdsAlong
<1>2. ids = [b \in 1..Len(segments) |-> ids[b]]
  BY <1>0 DEF IdsAlong
<1>3. \A b \in tx : b \in 1..Len(segments) /\ segments[b].type # "null"
  BY <1>0 DEF Transmissions
<1> HIDE DEF ids, tx
<1>4. \A b \in Nat : before(b) \subseteq tx /\ IsFiniteSet(before(b)) /\ Cardinality(before(b)) \in Nat
  BY <1>0, FS_Subset, FS_CardinalityType
<1>5. ASSUME NEW b \in tx
      PROVE  Cardinality(before(b)) < Cardinality(tx)
  <2>1. before(b) # tx
    BY <1>0, <1>5
  <2>2. Cardinality(before(b)) <= Cardinality(tx) /\ Cardinality(before(b)) # Cardinality(tx)
    BY <1>0, <1>4, <2>1, FS_Subset
  <2> QED
    BY <1>0, <1>4, <2>2
<1>6. ASSUME NEW a \in tx, NEW b \in tx, a < b
      PROVE  Cardinality(before(a)) < Cardinality(before(b))
  <2>1. before(a) \subseteq before(b) /\ a \in before(b) /\ a \notin before(a)
    <3>1. a \in Nat /\ b \in Nat /\ \A j \in tx : j \in Nat
      BY <1>0
    <3>2. \A j \in tx : j < a => j < b
      BY <1>6, <3>1
    <3>3. before(a) \subseteq before(b)
      BY <3>2
    <3>4. ~(a < a)
      BY <3>1
    <3>5. a \in before(b)
      BY <1>6
    <3>6. a \notin before(a)
      BY <3>4
    <3> QED
      BY <3>3, <3>5, <3>6
  <2>2. IsFiniteSet(before(b)) /\ Cardinality(before(a)) \in Nat /\ Cardinality(before(b)) \in Nat
    BY <1>0, <1>4
  <2> HIDE DEF before
  <2>3. Cardinality(before(a)) <= Cardinality(before(b)) /\ Cardinality(before(a)) # Cardinality(before(b))
    BY <2>1, <2>2, FS_Subset
  <2> QED
    BY <2>2, <2>3
<1>7. CASE mode = "latency"
  <2>1. IdsPerChain(mode, segments) = Cardinality(tx)
    BY <1>7 DEF IdsPerChain, tx
  <2>2. \A b \in 1..Len(segments) :
          ids[b] = IF segments[b].type = "null" THEN 0 ELSE first + Cardinality(before(b))
    BY <1>1, <1>7
  <2>3. \A b \in 1..Len(segments) : ids[b] \in Int
    <3> TAKE b \in 1..Len(segments)
    <3>1. b \in Nat
      OBVIOUS
    <3>2. Cardinality(before(b)) \in Nat
      BY <1>4, <3>1
    <3> HIDE DEF before
    <3> QED
      BY <2>2, <3>2
  <2>4. \A b \in tx : ids[b] = first + Cardinality(before(b)) /\ Cardinality(before(b)) \in Nat
    BY <1>0, <1>3, <1>4, <2>2
  <2> HIDE DEF before
  <2>5. \A a, b \in tx : ids[a] = ids[b] => a = b
    <3> SUFFICES ASSUME NEW a \in tx, NEW b \in tx, ids[a] = ids[b] PROVE a = b
      OBVIOUS
    <3>1. Cardinality(before(a)) = Cardinality(before(b))
      BY <2>4
    <3>2. ~(a < b) /\ ~(b < a)
      BY <1>6, <2>4, <3>1
    <3> QED
      BY <1>0, <3>2
  <2>6. \A b \in tx : ids[b] \in first..(first + Cardinality(tx) - 1)
    BY <1>0, <1>5, <2>4
  <2>7. ids \in [1..Len(segments) -> Int]
    BY <1>2, <2>3
  <2> QED
    BY <1>0, <2>1, <2>5, <2>6, <2>7 DEF ids, tx
<1>8. CASE mode = "default"
  <2>1. IdsPerChain(mode, segments) = 1
    BY <1>8 DEF IdsPerChain
  <2>2. \A b \in 1..Len(segments) : ids[b] = IF segments[b].type = "null" THEN 0 ELSE first
    BY <1>1, <1>8
  <2>3. ids \in [1..Len(segments) -> Int]
    BY <1>2, <2>2
  <2>4. \A b \in tx : ids[b] = first
    BY <1>3, <2>2
  <2> QED
    BY <1>8, <2>1, <2>3, <2>4 DEF ids, tx
<1> QED
  BY <1>7, <1>8 DEF Types

\* Ranges of a size, one behind the other, are apart.
LEMMA RangeLemma ==
  ASSUME NEW a \in Nat, NEW b \in Nat, NEW size \in Nat, a < b
  PROVE  a * size \in Nat /\ b * size \in Nat /\ a * size + size <= b * size
<1>1. PICK d \in Nat : b = a + 1 + d
  <2>1. b - a - 1 \in Nat /\ b = a + 1 + (b - a - 1)
    OBVIOUS
  <2> QED
    BY <2>1
<1>2. a * size \in Nat /\ d * size \in Nat
  OBVIOUS
<1>3. b * size = a * size + size + d * size
  BY <1>1
<1> QED
  BY <1>2, <1>3

\* Repetitions and packets are counted through.
LEMMA CountLemma ==
  ASSUME NEW m \in Nat, NEW p \in Nat, NEW r \in 1..m, NEW packet \in 1..p
  PROVE  /\ (r - 1) * p + packet - 1 \in Nat
         /\ (r - 1) * p + packet - 1 < m * p /\ m * p \in Nat
         /\ \A s \in 1..m, other \in 1..p :
              (s - 1) * p + other - 1 = (r - 1) * p + packet - 1 => s = r /\ other = packet
<1>1. r - 1 \in Nat /\ r - 1 < m
  OBVIOUS
<1>2. (r - 1) * p \in Nat /\ m * p \in Nat /\ (r - 1) * p + p <= m * p
  BY <1>1, RangeLemma
<1>3. ASSUME NEW s \in 1..m, NEW other \in 1..p,
             (s - 1) * p + other - 1 = (r - 1) * p + packet - 1
      PROVE  s = r /\ other = packet
  <2>1. s - 1 \in Nat
    OBVIOUS
  <2>2. (s - 1) * p \in Nat
    BY <2>1
  <2>3. CASE s < r
    <3>1. s - 1 < r - 1
      BY <2>3
    <3>2. (s - 1) * p + p <= (r - 1) * p
      BY <1>1, <2>1, <3>1, RangeLemma
    <3> DEFINE x == (s - 1) * p
               y == (r - 1) * p
    <3>3. x \in Nat /\ y \in Nat /\ x + p <= y /\ x + other - 1 = y + packet - 1
      BY <1>2, <1>3, <2>2, <3>2
    <3> HIDE DEF x, y
    <3> QED
      BY <3>3
  <2>4. CASE r < s
    <3>1. r - 1 < s - 1
      BY <2>4
    <3>2. (r - 1) * p + p <= (s - 1) * p
      BY <1>1, <2>1, <3>1, RangeLemma
    <3> DEFINE x == (s - 1) * p
               y == (r - 1) * p
    <3>3. x \in Nat /\ y \in Nat /\ y + p <= x /\ x + other - 1 = y + packet - 1
      BY <1>2, <1>3, <2>2, <3>2
    <3> HIDE DEF x, y
    <3> QED
      BY <3>3
  <2>5. CASE s = r
    <3> DEFINE y == (r - 1) * p
    <3>1. y \in Nat /\ y + other - 1 = y + packet - 1
      BY <1>2, <1>3, <2>5
    <3> HIDE DEF y
    <3>2. other = packet
      BY <3>1
    <3> QED
      BY <2>5, <3>2
  <2> QED
    BY <2>3, <2>4, <2>5
<1> DEFINE y == (r - 1) * p
           all == m * p
<1>4. y \in Nat /\ all \in Nat /\ y + p <= all
  BY <1>2
<1>5. y + packet - 1 \in Nat /\ y + packet - 1 < all
  <2> HIDE DEF y, all
  <2> QED
    BY <1>4
<1> QED
  BY <1>3, <1>4, <1>5

-----------------------------------------------------------------------------
(* The chains of a stream.                                                 *)

GroupOfChain(c) == <<c.pair, c.direction, c.mode>>

IdsOfChain(c) == {c.parts[k].id : k \in {k \in DOMAIN c.parts : c.parts[k].type = "tx"}}

\* Substreams of one segment have no gap between them.
NoGapWithin(c) ==
  c.mode = "latency" =>
    \A k, l \in DOMAIN c.parts :
      c.parts[k].type = "tx" /\ c.parts[l].type = "tx" /\ c.parts[k].id = c.parts[l].id
        /\ k < l => c.parts[l].isg = 0

PacketsOf(stream) == Cardinality(Packets(stream))
SizeOf(stream, mode) == IdsPerChain(mode, SegmentsOf(stream)[1])

\* The chain of a packet in a repetition of stream n; g is its group.
ChainOfPacket(n, g, r, packet) ==
  LET stream == profile[n]
      segments == SegmentsOf(stream)[r]
      before == (r - 1) * PacketsOf(stream) + packet - 1
  IN  Chain(n, g[1], g[2], "measurement", g[3],
            MeasurementChain(segments,
              RateOf(stream, Modes(stream, params.measure_latency), g[3]),
              IdsAlong(segments, g[3],
                pg_ids[g].start + used[g] + before * IdsPerChain(g[3], segments))))

GroupsOf(n, i) ==
  {g \in Groups : /\ g[1] = i /\ g[2] \in profile[n].traffic_direction
                  /\ g[3] \in Modes(profile[n], params.measure_latency)}

\* The packets of a stream share its rate, and nothing is left of it.
LEMMA SharersLemma ==
  ASSUME NEW stream \in StreamType
  PROVE  /\ {PacketCount(stream), Sharers(stream)} \subseteq {1, 2}
         /\ PacketCount(stream) = Copies(stream) * Sharers(stream)
         /\ stream.rate \div Sharers(stream) \in Nat
         /\ stream.rate = Sharers(stream) * (stream.rate \div Sharers(stream))
<1>1. /\ stream.protocols \in {1, 2} /\ stream.frame_type \in {"generic", "icmp", "garp"}
      /\ stream.rate \in Nat /\ stream.rate % Sharers(stream) = 0
  BY DEF StreamType
<1>2. PacketCount(stream) =
        IF stream.frame_type = "generic" THEN stream.protocols
        ELSE IF stream.frame_type = "garp" THEN 2 ELSE 1
  BY <1>1 DEF PacketCount
<1>3. Sharers(stream) \in {1, 2} /\ PacketCount(stream) \in {1, 2}
  BY <1>1, <1>2 DEF Sharers
<1>4. PacketCount(stream) = Copies(stream) * Sharers(stream)
  BY <1>1, <1>2 DEF Sharers, Copies
<1> DEFINE m == Sharers(stream)
           rate == stream.rate
<1> HIDE DEF m, rate
<1>5. rate \in Nat /\ m \in {1, 2} /\ rate % m = 0
  BY <1>1, <1>3 DEF m, rate
<1>6. rate \div m \in Nat /\ rate = m * (rate \div m)
  BY <1>5
<1> QED
  BY <1>3, <1>4, <1>6 DEF m, rate

\* Packets are numbered from 1.
LEMMA PacketsLemma ==
  ASSUME NEW stream \in StreamType
  PROVE  PacketsOf(stream) \in Nat /\ Packets(stream) = 1..PacketsOf(stream)
<1> DEFINE p == PacketCount(stream)
<1>1. p \in Nat /\ Packets(stream) = 1..p
  BY SharersLemma DEF Packets
<1> HIDE DEF p
<1>2. Cardinality(1..p) = p
  BY <1>1, FS_Interval
<1> QED
  BY <1>1, <1>2 DEF PacketsOf

\* A stream has a positive rate in each of its modes.
LEMMA ModesLemma ==
  ASSUME NEW stream \in StreamType, NEW latency \in BOOLEAN, NEW mode \in Modes(stream, latency)
  PROVE  mode \in Types /\ RateOf(stream, Modes(stream, latency), mode) \in Nat
<1> DEFINE rate == stream.rate \div Sharers(stream)
           all == (IF stream.latency /\ latency THEN {"latency"} ELSE {})
                    \cup IF stream.latency_only THEN {} ELSE {"default"}
           modes == Modes(stream, latency)
<1>1. rate \in Nat
  BY SharersLemma
<1>2. LatencyRate \in Nat \ {0}
  BY ProfileAssumption
<1>3. all \subseteq {"latency", "default"}
  OBVIOUS
<1>4. modes = {kind \in all : RateOf(stream, all, kind) > 0}
  BY DEF Modes
<1>5. \A some : /\ RateOf(stream, some, "latency") = Shorter(rate, LatencyRate)
               /\ RateOf(stream, some, "default") =
                    IF "latency" \in some THEN rate - LatencyRate ELSE rate
  BY DEF RateOf
<1> HIDE DEF rate, all, modes
<1>6. mode \in modes
  BY DEF modes
<1>7. mode \in {"latency", "default"} /\ RateOf(stream, modes, mode) \in Nat
  <2>1. mode \in all /\ RateOf(stream, all, mode) > 0
    BY <1>4, <1>6
  <2>2. CASE mode = "latency"
    BY <1>1, <1>2, <1>5, <2>2 DEF Shorter
  <2>3. CASE mode = "default"
    <3>1. "latency" \in all => rate - LatencyRate > 0
      BY <1>5, <2>1, <2>3
    <3>2. "latency" \in modes => "latency" \in all
      BY <1>4
    <3> QED
      BY <1>1, <1>2, <1>5, <2>3, <3>1, <3>2
  <2> QED
    BY <1>3, <2>1, <2>2, <2>3
<1> QED
  BY <1>7 DEF modes, Types

\* A measurement chain that is created belongs to a packet of a repetition.
LEMMA CreatedLemma ==
  ASSUME NEW n, NEW i \in Pairs, profile[n] \in StreamType, params.measure_latency \in BOOLEAN,
         NEW c \in create_stream(n, i), c.kind = "measurement"
  PROVE  /\ Measured(profile[n])
         /\ \E g \in GroupsOf(n, i), r \in DOMAIN SegmentsOf(profile[n]),
               packet \in Packets(profile[n]) : c = ChainOfPacket(n, g, r, packet)
<1>1. PICK d \in profile[n].traffic_direction :
        \/ c \in MeasurementChains(n, i, d, SegmentsOf(profile[n]))
        \/ \E segments : c \in TeachingChains(n, i, d, segments, SegmentsOf(profile[n]))
  BY DEF create_stream
<1>2. CASE \E segments : c \in TeachingChains(n, i, d, segments, SegmentsOf(profile[n]))
  BY <1>2 DEF TeachingChains, Chain
<1>3. CASE c \in MeasurementChains(n, i, d, SegmentsOf(profile[n]))
  <2>1. Measured(profile[n])
    BY <1>3 DEF MeasurementChains
  <2>2. PICK r \in DOMAIN SegmentsOf(profile[n]),
             mode \in Modes(profile[n], params.measure_latency),
             packet \in Packets(profile[n]) : c = ChainOfPacket(n, <<i, d, mode>>, r, packet)
    BY <1>3, <2>1 DEF MeasurementChains, ChainOfPacket, PacketsOf
  <2>3. <<i, d, mode>> \in GroupsOf(n, i)
    <3>1. mode \in Types
      BY ModesLemma
    <3>2. d \in Directions
      BY DEF StreamType
    <3> QED
      BY <3>1, <3>2 DEF GroupsOf, Groups
  <2> QED
    BY <2>1, <2>2, <2>3
<1> QED
  BY <1>1, <1>2, <1>3

\* Each repetition takes the ids the first one does.
LEMMA SizeLemma ==
  ASSUME NEW stream \in StreamType, ~Skipped(stream), NEW mode \in Types,
         NEW r \in DOMAIN SegmentsOf(stream)
  PROVE  /\ SizeOf(stream, mode) \in Nat
         /\ SegmentsOf(stream)[r] \in Seq(SegmentType)
         /\ IdsPerChain(mode, SegmentsOf(stream)[r]) = SizeOf(stream, mode)
<1> DEFINE all == SegmentsOf(stream)
<1>1. stream.offset \in Nat /\ stream.offset < Runtime
  BY ProfileAssumption DEF WholeSeconds, Skipped, StreamType
<1>2. /\ Len(all) \in Nat \ {0} /\ DOMAIN all = 1..Len(all)
      /\ \A s \in DOMAIN all :
           /\ all[s] \in Seq(SegmentType)
           /\ Cardinality(Transmissions(all[s])) = Cardinality(Transmissions(all[1]))
  BY <1>1, SegmentsLemma
<1>3. 1 \in DOMAIN all
  BY <1>2
<1>4. Cardinality(Transmissions(all[1])) \in Nat
  BY <1>2, <1>3, TransmissionsLemma
<1> HIDE DEF all
<1>5. IdsPerChain(mode, all[r]) = IdsPerChain(mode, all[1]) /\ IdsPerChain(mode, all[1]) \in Nat
  BY <1>2, <1>4 DEF IdsPerChain, all
<1> QED
  BY <1>2, <1>5 DEF all, SizeOf

\* The ids that are given to a packet of a repetition.
FirstOf(n, g, r, packet) ==
  pg_ids[g].start + used[g]
    + ((r - 1) * PacketsOf(profile[n]) + packet - 1) * SizeOf(profile[n], g[3])

OwnIds(n, g, r, packet) ==
  FirstOf(n, g, r, packet) .. (FirstOf(n, g, r, packet) + SizeOf(profile[n], g[3]) - 1)

\* They lie in what the stream uses of its group, apart from the others'.
LEMMA OwnIdsLemma ==
  ASSUME NEW n, NEW i, profile[n] \in StreamType, ~Skipped(profile[n]),
         NEW g \in GroupsOf(n, i), pg_ids[g].start \in Nat, used[g] \in Nat,
         NEW r \in DOMAIN SegmentsOf(profile[n]), NEW packet \in Packets(profile[n])
  PROVE  /\ FirstOf(n, g, r, packet) \in Nat
         /\ IdsNeeded(profile[n], g[3]) \in Nat
         /\ OwnIds(n, g, r, packet) \subseteq
              (pg_ids[g].start + used[g]) ..
                (pg_ids[g].start + used[g] + IdsNeeded(profile[n], g[3]) - 1)
         /\ \A s \in DOMAIN SegmentsOf(profile[n]), other \in Packets(profile[n]) :
              OwnIds(n, g, s, other) \cap OwnIds(n, g, r, packet) # {} => s = r /\ other = packet
<1> DEFINE stream == profile[n]
           m == Len(SegmentsOf(stream))
           p == PacketsOf(stream)
           size == SizeOf(stream, g[3])
           base == pg_ids[g].start + used[g]
           before(s, other) == (s - 1) * p + other - 1
<1>1. g[3] \in Types
  BY DEF GroupsOf, Groups
<1>2. size \in Nat
  BY <1>1, SizeLemma
<1>3. stream.offset < Runtime
  BY ProfileAssumption DEF WholeSeconds, Skipped, StreamType
<1>4. m \in Nat \ {0} /\ DOMAIN SegmentsOf(stream) = 1..m
  BY <1>3, SegmentsLemma
<1>5. p \in Nat /\ Packets(stream) = 1..p
  BY PacketsLemma
<1>6. base \in Nat
  OBVIOUS
<1>7. IdsNeeded(stream, g[3]) = m * p * size
  BY DEF IdsNeeded, PacketsOf, SizeOf
<1>8. \A s, other : OwnIds(n, g, s, other) =
        (base + before(s, other) * size) .. (base + before(s, other) * size + size - 1)
  BY DEF OwnIds, FirstOf
<1>9. FirstOf(n, g, r, packet) = base + before(r, packet) * size
  BY DEF FirstOf
<1>10. \A s \in 1..m, other \in 1..p :
         before(s, other) \in Nat /\ before(s, other) < m * p /\ m * p \in Nat
  <2> TAKE s \in 1..m, other \in 1..p
  <2> QED
    BY <1>4, <1>5, CountLemma
<1>11. r \in 1..m /\ packet \in 1..p
  BY <1>4, <1>5
<1>12. \A s \in 1..m, other \in 1..p :
         before(s, other) = before(r, packet) => s = r /\ other = packet
  <2>1. m \in Nat /\ p \in Nat
    BY <1>4, <1>5
  <2> HIDE DEF m, p
  <2>2. \A s \in 1..m, other \in 1..p :
          (s - 1) * p + other - 1 = (r - 1) * p + packet - 1 => s = r /\ other = packet
    BY <1>11, <2>1, CountLemma
  <2> QED
    BY <2>2
<1> HIDE DEF stream, m, p, size, base, before
<1>13. \A s \in 1..m, other \in 1..p :
         /\ before(s, other) * size \in Nat /\ m * p * size \in Nat
         /\ before(s, other) * size + size <= m * p * size
  <2> TAKE s \in 1..m, other \in 1..p
  <2>1. before(s, other) \in Nat /\ m * p \in Nat /\ before(s, other) < m * p
    BY <1>10
  <2> QED
    BY <1>2, <2>1, RangeLemma
<1>14. OwnIds(n, g, r, packet) \subseteq base .. (base + m * p * size - 1)
  <2> DEFINE x == before(r, packet) * size
             y == m * p * size
  <2>1. x \in Nat /\ y \in Nat /\ x + size <= y
    BY <1>11, <1>13
  <2>2. OwnIds(n, g, r, packet) = (base + x) .. (base + x + size - 1)
    BY <1>8
  <2> HIDE DEF x, y
  <2>3. OwnIds(n, g, r, packet) \subseteq base .. (base + y - 1)
    BY <1>2, <1>6, <2>1, <2>2
  <2> QED
    BY <2>3 DEF y
<1>15. ASSUME NEW s \in 1..m, NEW other \in 1..p,
              OwnIds(n, g, s, other) \cap OwnIds(n, g, r, packet) # {}
       PROVE  s = r /\ other = packet
  <2> DEFINE x == before(s, other) * size
             y == before(r, packet) * size
  <2>1. x \in Nat /\ y \in Nat
    BY <1>11, <1>13
  <2>2. /\ OwnIds(n, g, s, other) = (base + x) .. (base + x + size - 1)
        /\ OwnIds(n, g, r, packet) = (base + y) .. (base + y + size - 1)
    BY <1>8
  <2>3. before(s, other) \in Nat /\ before(r, packet) \in Nat
    BY <1>10, <1>11
  <2>4. before(s, other) < before(r, packet) => x + size <= y
    BY <1>2, <2>3, RangeLemma
  <2>5. before(r, packet) < before(s, other) => y + size <= x
    BY <1>2, <2>3, RangeLemma
  <2> HIDE DEF x, y
  <2>6. ~(x + size <= y) /\ ~(y + size <= x)
    BY <1>2, <1>6, <1>15, <2>1, <2>2
  <2>7. before(s, other) = before(r, packet)
    BY <2>3, <2>4, <2>5, <2>6
  <2> QED
    BY <1>12, <2>7
<1>16. FirstOf(n, g, r, packet) \in Nat
  <2> DEFINE x == before(r, packet) * size
  <2>1. x \in Nat
    BY <1>11, <1>13
  <2> HIDE DEF x
  <2>2. base + x \in Nat
    BY <1>6, <2>1
  <2> QED
    BY <1>9, <2>2 DEF x
<1>17. m * p * size \in Nat
  BY <1>11, <1>13
<1>18. \A s \in DOMAIN SegmentsOf(stream), other \in Packets(stream) :
         OwnIds(n, g, s, other) \cap OwnIds(n, g, r, packet) # {} => s = r /\ other = packet
  BY <1>4, <1>5, <1>15
<1> QED
  BY <1>7, <1>14, <1>16, <1>17, <1>18 DEF stream, base

\* What a new chain is.
LEMMA NewChainLemma ==
  ASSUME NEW n, NEW i, profile[n] \in StreamType, ~Skipped(profile[n]),
         params.measure_latency \in BOOLEAN,
         NEW g \in GroupsOf(n, i), pg_ids[g].start \in Nat, used[g] \in Nat,
         NEW r \in DOMAIN SegmentsOf(profile[n]), NEW packet \in Packets(profile[n])
  PROVE  LET c == ChainOfPacket(n, g, r, packet)
         IN  /\ GroupOfChain(c) = g /\ c.pair = i /\ c.direction = g[2] /\ c.mode = g[3]
             /\ c.stream = n /\ c.kind = "measurement"
             /\ c.flows = flow_offset[n] .. (flow_offset[n] + Flows(profile[n]) - 1)
             /\ IdsOfChain(c) \subseteq OwnIds(n, g, r, packet)
             /\ NoGapWithin(c)
<1> DEFINE c == ChainOfPacket(n, g, r, packet)
           segments == SegmentsOf(profile[n])[r]
           rate == RateOf(profile[n], Modes(profile[n], params.measure_latency), g[3])
           first == FirstOf(n, g, r, packet)
           ids == IdsAlong(segments, g[3], first)
<1>1. g[1] = i /\ g = <<g[1], g[2], g[3]>> /\ g[3] \in Types
  BY DEF GroupsOf, Groups
<1>2. /\ SizeOf(profile[n], g[3]) \in Nat /\ segments \in Seq(SegmentType)
      /\ IdsPerChain(g[3], segments) = SizeOf(profile[n], g[3])
  BY <1>1, SizeLemma
<1>3. first \in Nat
  BY OwnIdsLemma
<1>4. rate \in Nat
  <2>1. g[3] \in Modes(profile[n], params.measure_latency)
    BY DEF GroupsOf
  <2> QED
    BY <2>1, ModesLemma
<1>5. /\ c.stream = n /\ c.pair = g[1] /\ c.direction = g[2] /\ c.mode = g[3]
      /\ c.kind = "measurement"
      /\ c.flows = flow_offset[n] .. (flow_offset[n] + Flows(profile[n]) - 1)
      /\ c.parts = MeasurementChain(segments, rate, ids)
  BY <1>2 DEF ChainOfPacket, Chain, FirstOf
<1> HIDE DEF c, segments, rate, first, ids
<1>6. /\ ids \in [1..Len(segments) -> Int]
      /\ \A b \in Transmissions(segments) :
           ids[b] \in first..(first + SizeOf(profile[n], g[3]) - 1)
      /\ g[3] = "latency" =>
           \A a, b \in Transmissions(segments) : ids[a] = ids[b] => a = b
  BY <1>1, <1>2, <1>3, AlongLemma DEF ids
<1>7. /\ \A k \in DOMAIN c.parts : c.parts[k].type = "tx" =>
           \E b \in Transmissions(segments) : c.parts[k].id = ids[b]
      /\ (\A a, b \in Transmissions(segments) : ids[a] = ids[b] => a = b) =>
           \A k, l \in DOMAIN c.parts :
             c.parts[k].type = "tx" /\ c.parts[l].type = "tx" /\ c.parts[k].id = c.parts[l].id
               /\ k < l => c.parts[l].isg = 0
  <2>1. AlongSegments(MeasurementChain(segments, rate, ids), segments, ids)
    BY <1>2, <1>4, <1>6, ChainLemma
  <2>2. AlongSegments(c.parts, segments, ids)
    BY <1>5, <2>1
  <2> QED
    BY <2>2 DEF AlongSegments
<1>8. IdsOfChain(c) \subseteq OwnIds(n, g, r, packet)
  BY <1>6, <1>7 DEF IdsOfChain, OwnIds, first
<1>9. NoGapWithin(c)
  BY <1>5, <1>6, <1>7 DEF NoGapWithin
<1>10. GroupOfChain(c) = g
  BY <1>1, <1>5 DEF GroupOfChain
<1> QED
  BY <1>1, <1>5, <1>8, <1>9, <1>10 DEF c

\* A stream needs some number of ids.
LEMMA NeededLemma ==
  ASSUME NEW stream \in StreamType, ~Skipped(stream), NEW mode \in Types
  PROVE  IdsNeeded(stream, mode) \in Nat
<1> DEFINE m == Len(SegmentsOf(stream))
           p == PacketsOf(stream)
           size == SizeOf(stream, mode)
<1>1. stream.offset < Runtime
  BY ProfileAssumption DEF WholeSeconds, Skipped, StreamType
<1>2. m \in Nat /\ 1 \in DOMAIN SegmentsOf(stream)
  BY <1>1, SegmentsLemma
<1>3. size \in Nat
  BY <1>2, SizeLemma
<1>4. p \in Nat
  BY PacketsLemma
<1>5. IdsNeeded(stream, mode) = m * p * size
  BY DEF IdsNeeded, PacketsOf, SizeOf
<1> HIDE DEF m, p, size
<1> QED
  BY <1>2, <1>3, <1>4, <1>5

\* A device pair has some number of flows.
LEMMA FlowsLemma ==
  ASSUME NEW stream \in StreamType
  PROVE  Flows(stream) \in Nat
<1>1. stream.flows \in Nat /\ stream.device_pairs \subseteq 1..NumPairs /\ stream.device_pairs # {}
  BY DEF StreamType, Pairs
<1>2. IsFiniteSet(1..NumPairs)
  BY IdsAssumption, FS_Interval
<1>3. IsFiniteSet(stream.device_pairs) /\ Cardinality(stream.device_pairs) \in Nat
  BY <1>1, <1>2, FS_Subset, FS_CardinalityType
<1>4. Cardinality(stream.device_pairs) # 0
  BY <1>1, <1>3, FS_EmptySet
<1> QED
  BY <1>1, <1>3, <1>4, DivisionLemma DEF Flows

-----------------------------------------------------------------------------
(* The invariant.                                                          *)

CreateType ==
  /\ params \in Params /\ turn \in Nat
  /\ Len(profile) \in Nat /\ DOMAIN profile = 1..Len(profile)
  /\ \A n \in DOMAIN profile : profile[n] \in StreamType
  /\ flow_offset \in [DOMAIN profile -> Nat]
  /\ used \in [Groups -> Nat] /\ \A g \in Groups : used[g] <= pg_ids[g].available
  /\ main \in {"load", "connect", "ports", "ids"} => chains = {} /\ \A g \in Groups : used[g] = 0

UsedIds(g) == pg_ids[g].start .. (pg_ids[g].start + used[g] - 1)

\* A chain has ids that are used and flows before those of the next pair.
ChainTold(c) ==
  /\ GroupOfChain(c) \in Groups /\ c.stream \in DOMAIN profile
  /\ c.flows \subseteq 0..(flow_offset[c.stream] - 1)
  /\ IdsOfChain(c) \subseteq UsedIds(GroupOfChain(c))
  /\ NoGapWithin(c)

ToldApart(c, e) ==
  /\ IdsOfChain(c) \cap IdsOfChain(e) # {} => c = e
  /\ c.stream = e.stream /\ c.direction = e.direction /\ c.pair # e.pair =>
       c.flows \cap e.flows = {}

Measurements == {c \in chains : c.kind = "measurement"}

AllTold == /\ \A c \in Measurements : ChainTold(c)
           /\ \A c, e \in Measurements : ToldApart(c, e)

ToldInv == IdsInv /\ CreateType /\ AllTold

\* The invariant is stronger than the property.
LEMMA ToldImplies == ToldInv => StreamsAreTold
<1> SUFFICES ASSUME ToldInv, NEW c \in Measurements, NEW e \in Measurements
             PROVE  /\ \A k \in DOMAIN c.parts, l \in DOMAIN e.parts :
                         c.parts[k].type = "tx" /\ e.parts[l].type = "tx"
                           /\ c.parts[k].id = e.parts[l].id =>
                           /\ c = e
                           /\ c.parts[k].id \in IdsOf(<<c.pair, c.direction, c.mode>>)
                           /\ c.mode = "latency" /\ k < l => c.parts[l].isg = 0
                    /\ c.stream = e.stream /\ c.direction = e.direction /\ c.pair # e.pair =>
                         c.flows \cap e.flows = {}
  BY DEF StreamsAreTold, Measurements
<1>1. ChainTold(c) /\ ToldApart(c, e)
  BY DEF ToldInv, AllTold
<1>2. IdsOfChain(c) \subseteq IdsOf(GroupOfChain(c))
  <2> DEFINE g == GroupOfChain(c)
  <2>1. g \in Groups /\ IdsOfChain(c) \subseteq UsedIds(g)
    BY <1>1 DEF ChainTold
  <2> HIDE DEF g
  <2>2. /\ used[g] \in Nat /\ used[g] <= pg_ids[g].available
        /\ pg_ids[g].start \in Nat /\ pg_ids[g].available \in Nat
    BY <2>1 DEF ToldInv, CreateType, IdsInv, IdsType
  <2>3. UsedIds(g) \subseteq IdsOf(g)
    BY <2>2 DEF UsedIds, IdsOf
  <2> QED
    BY <2>1, <2>3 DEF g
<1>3. ASSUME NEW k \in DOMAIN c.parts, NEW l \in DOMAIN e.parts,
             c.parts[k].type = "tx", e.parts[l].type = "tx", c.parts[k].id = e.parts[l].id
      PROVE  /\ c = e
             /\ c.parts[k].id \in IdsOf(<<c.pair, c.direction, c.mode>>)
             /\ c.mode = "latency" /\ k < l => c.parts[l].isg = 0
  <2>1. c.parts[k].id \in IdsOfChain(c) /\ c.parts[k].id \in IdsOfChain(e)
    BY <1>3 DEF IdsOfChain
  <2>2. c = e
    BY <1>1, <2>1 DEF ToldApart
  <2>3. c.parts[k].id \in IdsOf(<<c.pair, c.direction, c.mode>>)
    BY <1>2, <2>1 DEF GroupOfChain
  <2>4. c.mode = "latency" /\ k < l => c.parts[l].isg = 0
    BY <1>1, <1>3, <2>2 DEF ChainTold, NoGapWithin
  <2> QED
    BY <2>2, <2>3, <2>4
<1> QED
  BY <1>1, <1>3 DEF ToldApart

\* It holds before there is a profile.
LEMMA ToldInit == Init => ToldInv
<1> SUFFICES ASSUME Init PROVE ToldInv
  OBVIOUS
<1>1. IdsInv
  BY IdsInitLemma DEF Init
<1>2. profile = <<>> /\ flow_offset = <<>> /\ chains = {} /\ turn = 0
      /\ params \in Params /\ used = [g \in Groups |-> 0]
  BY DEF Init
<1>3. Len(profile) = 0 /\ DOMAIN profile = 1..0 /\ flow_offset \in [1..0 -> Nat]
  BY <1>2
<1>4. \A g \in Groups : pg_ids[g].available \in Nat
  BY <1>1 DEF IdsInv, IdsType
<1>5. CreateType
  BY <1>2, <1>3, <1>4 DEF CreateType
<1>6. AllTold
  BY <1>2 DEF AllTold, Measurements
<1> QED
  BY <1>1, <1>5, <1>6 DEF ToldInv

\* Of two groups no id is the same, of one only ids already used are.
LEMMA NewIdsLemma ==
  ASSUME IdsInv, NEW g \in Groups, NEW h \in Groups,
         NEW a \in Nat, NEW b \in Nat, a <= b, b <= pg_ids[g].available,
         NEW x \in Nat, x <= pg_ids[h].available, g = h => x <= a
  PROVE  ((pg_ids[g].start + a) .. (pg_ids[g].start + b - 1))
           \cap (pg_ids[h].start .. (pg_ids[h].start + x - 1)) = {}
<1>1. /\ pg_ids[g].start \in Nat /\ pg_ids[g].available \in Nat
      /\ pg_ids[h].start \in Nat /\ pg_ids[h].available \in Nat
  BY DEF IdsInv, IdsType
<1>2. CASE g = h
  BY <1>1, <1>2
<1>3. CASE g # h
  <2>1. IdsOf(g) \cap IdsOf(h) = {}
    BY <1>3, ApartLemma DEF UniqueIds
  <2>2. /\ (pg_ids[g].start + a) .. (pg_ids[g].start + b - 1) \subseteq IdsOf(g)
        /\ pg_ids[h].start .. (pg_ids[h].start + x - 1) \subseteq IdsOf(h)
    BY <1>1 DEF IdsOf
  <2> QED
    BY <2>1, <2>2
<1> QED
  BY <1>2, <1>3

SettingUp == {"load", "connect", "ports", "ids"}

\* It is kept by what leaves the streams alone.
LEMMA ToldKept ==
  ASSUME ToldInv, UNCHANGED <<idVars, params, createVars>>,
         main' \in SettingUp => main \in SettingUp
  PROVE  ToldInv'
<1>1. UNCHANGED <<pg_ids, pg_id_base, pairs_done, params, profile, flow_offset, turn, used, chains>>
  BY DEF idVars, createVars
<1>2. IdsInv'
  BY <1>1, IdsStepLemma DEF ToldInv, idVars
<1>3. CreateType'
  BY <1>1 DEF ToldInv, CreateType, SettingUp
<1>4. AllTold'
  <2>1. Measurements' = Measurements
    BY <1>1 DEF Measurements
  <2>2. \A c : ChainTold(c)' = ChainTold(c)
    BY <1>1 DEF ChainTold, UsedIds
  <2>3. AllTold
    BY DEF ToldInv
  <2>4. \A c \in Measurements' : ChainTold(c)'
    BY <2>1, <2>2, <2>3 DEF AllTold
  <2>5. \A c, e \in Measurements' : ToldApart(c, e)
    BY <2>1, <2>3 DEF AllTold
  <2> QED
    BY <2>4, <2>5 DEF AllTold, ToldApart
<1> QED
  BY <1>2, <1>3, <1>4 DEF ToldInv

\* Loading a profile gives the streams their type.
LEMMA LoadKeepsTold ==
  ASSUME ToldInv, LoadProfile PROVE ToldInv'
<1>1. main = "load" /\ UNCHANGED <<idVars, params, turn, used, chains>>
  BY DEF LoadProfile
<1>2. CASE params.fault = "load"
  <2>1. main' = "done" /\ UNCHANGED <<profile, flow_offset>>
    BY <1>2 DEF LoadProfile
  <2> QED
    BY <1>1, <2>1, ToldKept DEF createVars, SettingUp
<1>3. CASE params.fault # "load"
  <2> DEFINE entries == params.entries
  <2>1. /\ profile' = [n \in DOMAIN entries |-> process_profile_stream(entries[n])]
        /\ flow_offset' = [n \in DOMAIN entries |-> 0]
    BY <1>3 DEF LoadProfile
  <2>2. ParamType(params)
    BY ParamsAssumption DEF ToldInv, CreateType
  <2>3. /\ entries \in Seq(Range(entries))
        /\ \A n \in DOMAIN entries : process_profile_stream(entries[n]) \in StreamType
    BY <2>2 DEF ParamType
  <2>4. Len(entries) \in Nat /\ DOMAIN entries = 1..Len(entries)
    BY <2>3
  <2> HIDE DEF entries
  <2>5. /\ Len(profile') = Len(entries) /\ DOMAIN profile' = 1..Len(entries)
        /\ \A n \in DOMAIN profile' : profile'[n] \in StreamType
        /\ flow_offset' \in [DOMAIN profile' -> Nat]
    <3>1. DOMAIN profile' = 1..Len(entries) /\ flow_offset' \in [1..Len(entries) -> Nat]
      BY <2>1, <2>4
    <3>2. Len(profile') = Len(entries)
      BY <2>1, <2>4
    <3>3. \A n \in DOMAIN entries : profile'[n] = process_profile_stream(entries[n])
      BY <2>1
    <3> QED
      BY <2>3, <2>4, <3>1, <3>2, <3>3
  <2>6. chains' = {} /\ \A g \in Groups : used'[g] = 0
    BY <1>1 DEF ToldInv, CreateType
  <2>7. CreateType'
    <3>1. /\ params' \in Params /\ turn' \in Nat /\ used' \in [Groups -> Nat]
          /\ \A g \in Groups : used'[g] <= pg_ids'[g].available
      BY <1>1 DEF ToldInv, CreateType, idVars
    <3> QED
      BY <2>4, <2>5, <2>6, <3>1 DEF CreateType
  <2>8. AllTold'
    BY <2>6 DEF AllTold, Measurements
  <2>9. IdsInv'
    BY <1>1, IdsStepLemma DEF ToldInv
  <2> QED
    BY <2>7, <2>8, <2>9 DEF ToldInv
<1> QED
  BY <1>2, <1>3

\* Ids are divided before one is used.
LEMMA AssignKeepsTold ==
  ASSUME ToldInv, AssignIds PROVE ToldInv'
<1>1. /\ main = "ids" /\ AllocateIds
      /\ UNCHANGED <<params, profile, flow_offset, turn, used, chains>>
  BY DEF AssignIds, createVars
<1>2. IdsInv'
  BY <1>1, IdsStepLemma DEF ToldInv
<1>3. chains = {} /\ \A g \in Groups : used[g] = 0
  BY <1>1 DEF ToldInv, CreateType
<1>4. \A g \in Groups : pg_ids'[g].available \in Nat
  BY <1>2 DEF IdsInv, IdsType
<1>5. \A g \in Groups : used'[g] <= pg_ids'[g].available
  BY <1>1, <1>3, <1>4
<1>6. CreateType'
  BY <1>1, <1>3, <1>5 DEF ToldInv, CreateType
<1>7. AllTold'
  BY <1>1, <1>3 DEF AllTold, Measurements
<1> QED
  BY <1>2, <1>6, <1>7 DEF ToldInv

\* What create_stream() and the offsets leave behind for stream n and pair i.
Created(n, i) ==
  /\ UNCHANGED <<idVars, params, main, profile>> /\ turn' = turn + 1
  /\ flow_offset' = [flow_offset EXCEPT ![n] = @ + Flows(profile[n])]
  /\ chains' = chains \cup create_stream(n, i) /\ UseIds(profile[n], i)

\* A group has the ids that are used, or the stream is not created.
LEMMA UseIdsLemma ==
  ASSUME ToldInv, NEW n \in DOMAIN profile, NEW i, ~Skipped(profile[n]),
         ~CannotCreate(profile[n], i), UseIds(profile[n], i)
  PROVE  /\ used' \in [Groups -> Nat]
         /\ \A g \in Groups : used[g] <= used'[g] /\ used'[g] <= pg_ids[g].available
         /\ Measured(profile[n]) => \A g \in GroupsOf(n, i) :
              used'[g] = used[g] + IdsNeeded(profile[n], g[3])
<1> DEFINE stream == profile[n]
           mine(g) == /\ g[1] = i /\ g[2] \in stream.traffic_direction /\ Measured(stream)
                      /\ g[3] \in Modes(stream, params.measure_latency)
<1>1. stream \in StreamType
  BY DEF ToldInv, CreateType
<1>2. /\ used' = [g \in Groups |-> used[g] + IF mine(g) THEN IdsNeeded(stream, g[3]) ELSE 0]
  BY DEF UseIds
<1>3. \A g \in Groups :
        /\ used[g] \in Nat /\ used[g] <= pg_ids[g].available /\ pg_ids[g].available \in Nat
        /\ IdsNeeded(stream, g[3]) \in Nat
  <2> TAKE g \in Groups
  <2>1. g[3] \in Types
    BY DEF Groups
  <2> QED
    BY <1>1, <2>1, NeededLemma DEF ToldInv, CreateType, IdsInv, IdsType
<1>4. ASSUME NEW g \in Groups, mine(g)
      PROVE  used[g] + IdsNeeded(stream, g[3]) <= pg_ids[g].available
  <2>1. g = <<i, g[2], g[3]>>
    BY <1>4 DEF Groups
  <2>2. ~(used[<<i, g[2], g[3]>>] + IdsNeeded(stream, g[3]) > pg_ids[<<i, g[2], g[3]>>].available)
    BY <1>4 DEF CannotCreate
  <2>3. ~(used[g] + IdsNeeded(stream, g[3]) > pg_ids[g].available)
    BY <2>1, <2>2
  <2> QED
    BY <1>3, <2>3
<1>5. \A g \in GroupsOf(n, i) : Measured(stream) => g \in Groups /\ mine(g)
  BY DEF GroupsOf
<1> HIDE DEF stream, mine
<1>6. ASSUME NEW g \in Groups
      PROVE  used'[g] \in Nat /\ used[g] <= used'[g] /\ used'[g] <= pg_ids[g].available
  BY <1>2, <1>3, <1>4
<1>7. used' \in [Groups -> Nat]
  BY <1>2, <1>6
<1> QED
  BY <1>2, <1>5, <1>6, <1>7 DEF stream

\* What is known of a chain that is created.
ToldAs(c, n, i, g, r, packet) ==
  /\ c = ChainOfPacket(n, g, r, packet) /\ g \in Groups /\ GroupOfChain(c) = g
  /\ c.stream = n /\ c.pair = i
  /\ c.flows = flow_offset[n] .. (flow_offset[n] + Flows(profile[n]) - 1)
  /\ IdsOfChain(c) \subseteq OwnIds(n, g, r, packet)
  /\ OwnIds(n, g, r, packet)
       \subseteq (pg_ids[g].start + used[g]) .. (pg_ids[g].start + used'[g] - 1)
  /\ NoGapWithin(c)

\* What a turn creates is told by its ids.
LEMMA NewTold ==
  ASSUME ToldInv, NEW n \in DOMAIN profile, NEW i \in Pairs, ~Skipped(profile[n]),
         ~CannotCreate(profile[n], i), Created(n, i),
         NEW c \in create_stream(n, i), c.kind = "measurement"
  PROVE  \E g \in GroupsOf(n, i), r \in DOMAIN SegmentsOf(profile[n]),
            packet \in Packets(profile[n]) : ToldAs(c, n, i, g, r, packet)
<1>1. profile[n] \in StreamType /\ params.measure_latency \in BOOLEAN
  <2>1. params \in Params /\ profile[n] \in StreamType
    BY DEF ToldInv, CreateType
  <2> QED
    BY <2>1, ParamsAssumption DEF ParamType
<1>2. Measured(profile[n])
  BY <1>1, CreatedLemma
<1>3. PICK g \in GroupsOf(n, i), r \in DOMAIN SegmentsOf(profile[n]),
           packet \in Packets(profile[n]) : c = ChainOfPacket(n, g, r, packet)
  BY <1>1, CreatedLemma
<1>4. g \in Groups
  BY DEF GroupsOf
<1>5. pg_ids[g].start \in Nat /\ used[g] \in Nat
  BY <1>4 DEF ToldInv, IdsInv, IdsType, CreateType
<1>6. used'[g] = used[g] + IdsNeeded(profile[n], g[3])
  BY <1>2, UseIdsLemma DEF Created
<1>7. IdsNeeded(profile[n], g[3]) \in Nat
  BY <1>1, <1>5, OwnIdsLemma
<1>8. OwnIds(n, g, r, packet) \subseteq
        (pg_ids[g].start + used[g]) ..
          (pg_ids[g].start + used[g] + IdsNeeded(profile[n], g[3]) - 1)
  BY <1>1, <1>5, OwnIdsLemma
<1>9. pg_ids[g].start + used[g] + IdsNeeded(profile[n], g[3]) - 1 = pg_ids[g].start + used'[g] - 1
  BY <1>5, <1>6, <1>7
<1>10. /\ GroupOfChain(c) = g /\ c.stream = n /\ c.pair = i
       /\ c.flows = flow_offset[n] .. (flow_offset[n] + Flows(profile[n]) - 1)
       /\ IdsOfChain(c) \subseteq OwnIds(n, g, r, packet) /\ NoGapWithin(c)
  <2> DEFINE d == ChainOfPacket(n, g, r, packet)
  <2>1. /\ GroupOfChain(d) = g /\ d.stream = n /\ d.pair = i
        /\ d.flows = flow_offset[n] .. (flow_offset[n] + Flows(profile[n]) - 1)
        /\ IdsOfChain(d) \subseteq OwnIds(n, g, r, packet) /\ NoGapWithin(d)
    BY <1>1, <1>5, NewChainLemma
  <2>2. c = d
    BY <1>3
  <2> HIDE DEF d
  <2> QED
    BY <2>1, <2>2
<1>11. OwnIds(n, g, r, packet)
         \subseteq (pg_ids[g].start + used[g]) .. (pg_ids[g].start + used'[g] - 1)
  BY <1>8, <1>9, Zenon
<1>12. ToldAs(c, n, i, g, r, packet)
  BY <1>3, <1>4, <1>10, <1>11 DEF ToldAs
<1> QED
  BY <1>12

\* A chain there was stays what it is.
LEMMA OldTold ==
  ASSUME ToldInv, NEW n \in DOMAIN profile, NEW i, ~Skipped(profile[n]),
         ~CannotCreate(profile[n], i), Created(n, i), NEW c \in Measurements
  PROVE  ChainTold(c)'
<1> DEFINE g == GroupOfChain(c)
           s == c.stream
<1>1. ChainTold(c)
  BY DEF ToldInv, AllTold
<1>2. /\ g \in Groups /\ s \in DOMAIN profile /\ c.flows \subseteq 0..(flow_offset[s] - 1)
      /\ IdsOfChain(c) \subseteq UsedIds(g) /\ NoGapWithin(c)
  BY <1>1 DEF ChainTold
<1> HIDE DEF g, s
<1>3. profile' = profile /\ pg_ids' = pg_ids
  BY DEF Created, idVars
<1>4. UsedIds(g) \subseteq UsedIds(g)'
  <2>1. used[g] \in Nat /\ used'[g] \in Nat /\ used[g] <= used'[g] /\ pg_ids[g].start \in Nat
    BY <1>2, UseIdsLemma DEF Created, ToldInv, CreateType, IdsInv, IdsType
  <2> QED
    BY <1>3, <2>1 DEF UsedIds
<1>5. c.flows \subseteq 0..(flow_offset'[s] - 1)
  <2>1. flow_offset \in [DOMAIN profile -> Nat] /\ Flows(profile[n]) \in Nat
    BY FlowsLemma DEF ToldInv, CreateType
  <2>2. flow_offset'[s] = flow_offset[s] \/ flow_offset'[s] = flow_offset[s] + Flows(profile[n])
    BY <1>2, <2>1 DEF Created
  <2>3. flow_offset[s] \in Nat
    BY <1>2, <2>1
  <2> QED
    BY <1>2, <2>1, <2>2, <2>3
<1> QED
  BY <1>2, <1>3, <1>4, <1>5 DEF ChainTold, g, s

\* A chain that is created has new ids and new flows.
LEMMA NewChainTold ==
  ASSUME ToldInv, NEW n \in DOMAIN profile, NEW i \in Pairs, ~Skipped(profile[n]),
         ~CannotCreate(profile[n], i), Created(n, i),
         NEW c \in create_stream(n, i), c.kind = "measurement"
  PROVE  ChainTold(c)'
<1>0. PICK g \in GroupsOf(n, i), r \in DOMAIN SegmentsOf(profile[n]),
           packet \in Packets(profile[n]) : ToldAs(c, n, i, g, r, packet)
  BY NewTold
<1>1. /\ g \in Groups /\ GroupOfChain(c) = g /\ c.stream = n /\ c.pair = i
      /\ c.flows = flow_offset[n] .. (flow_offset[n] + Flows(profile[n]) - 1)
      /\ IdsOfChain(c) \subseteq OwnIds(n, g, r, packet)
      /\ OwnIds(n, g, r, packet)
           \subseteq (pg_ids[g].start + used[g]) .. (pg_ids[g].start + used'[g] - 1)
      /\ NoGapWithin(c)
  BY <1>0 DEF ToldAs
<1>2. profile' = profile /\ pg_ids' = pg_ids
  BY DEF Created, idVars
<1>3. c.flows \subseteq 0..(flow_offset'[n] - 1)
  <2>1. flow_offset \in [DOMAIN profile -> Nat] /\ Flows(profile[n]) \in Nat
    BY FlowsLemma DEF ToldInv, CreateType
  <2>2. flow_offset'[n] = flow_offset[n] + Flows(profile[n])
    BY <2>1 DEF Created
  <2>3. flow_offset[n] \in Nat
    BY <2>1
  <2> QED
    BY <1>1, <2>1, <2>2, <2>3
<1>4. IdsOfChain(c) \subseteq UsedIds(g)'
  <2>1. used[g] \in Nat /\ used'[g] \in Nat /\ pg_ids[g].start \in Nat
    BY <1>1, UseIdsLemma DEF Created, ToldInv, CreateType, IdsInv, IdsType
  <2>2. (pg_ids[g].start + used[g]) .. (pg_ids[g].start + used'[g] - 1)
          \subseteq pg_ids[g].start .. (pg_ids[g].start + used'[g] - 1)
    BY <2>1
  <2>3. UsedIds(g)' = pg_ids[g].start .. (pg_ids[g].start + used'[g] - 1)
    BY <1>2 DEF UsedIds
  <2> QED
    BY <1>1, <2>2, <2>3
<1> QED
  BY <1>1, <1>2, <1>3, <1>4 DEF ChainTold

\* They are not those of a chain there was.
LEMMA NewAndOldApart ==
  ASSUME ToldInv, NEW n \in DOMAIN profile, NEW i \in Pairs, ~Skipped(profile[n]),
         ~CannotCreate(profile[n], i), Created(n, i),
         NEW c \in create_stream(n, i), c.kind = "measurement", NEW e \in Measurements
  PROVE  /\ IdsOfChain(c) \cap IdsOfChain(e) = {}
         /\ c.stream = e.stream => c.flows \cap e.flows = {}
<1>0. PICK g \in GroupsOf(n, i), r \in DOMAIN SegmentsOf(profile[n]),
           packet \in Packets(profile[n]) : ToldAs(c, n, i, g, r, packet)
  BY NewTold
<1>1. /\ g \in Groups /\ GroupOfChain(c) = g /\ c.stream = n /\ c.pair = i
      /\ c.flows = flow_offset[n] .. (flow_offset[n] + Flows(profile[n]) - 1)
      /\ IdsOfChain(c) \subseteq OwnIds(n, g, r, packet)
      /\ OwnIds(n, g, r, packet)
           \subseteq (pg_ids[g].start + used[g]) .. (pg_ids[g].start + used'[g] - 1)
      /\ NoGapWithin(c)
  BY <1>0 DEF ToldAs
<1> DEFINE h == GroupOfChain(e)
<1>2. /\ h \in Groups /\ e.stream \in DOMAIN profile
      /\ e.flows \subseteq 0..(flow_offset[e.stream] - 1) /\ IdsOfChain(e) \subseteq UsedIds(h)
  BY DEF ToldInv, AllTold, ChainTold
<1> HIDE DEF h
<1>3. IdsOfChain(c) \cap IdsOfChain(e) = {}
  <2>1. /\ used[g] \in Nat /\ used'[g] \in Nat /\ used[g] <= used'[g]
        /\ used'[g] <= pg_ids[g].available
    BY <1>1, UseIdsLemma DEF Created, ToldInv, CreateType
  <2>2. used[h] \in Nat /\ used[h] <= pg_ids[h].available
    BY <1>2 DEF ToldInv, CreateType
  <2>3. g = h => used[h] <= used[g]
    BY <2>1
  <2>4. ((pg_ids[g].start + used[g]) .. (pg_ids[g].start + used'[g] - 1))
          \cap (pg_ids[h].start .. (pg_ids[h].start + used[h] - 1)) = {}
    BY <1>1, <1>2, <2>1, <2>2, <2>3, NewIdsLemma DEF ToldInv
  <2> QED
    BY <1>1, <1>2, <2>4 DEF UsedIds
<1>4. c.stream = e.stream => c.flows \cap e.flows = {}
  <2>1. flow_offset[n] \in Nat
    BY DEF ToldInv, CreateType
  <2> QED
    BY <1>1, <1>2, <2>1
<1> QED
  BY <1>3, <1>4

\* Two new chains of one id are one.
LEMMA NewApart ==
  ASSUME ToldInv, NEW n \in DOMAIN profile, NEW i \in Pairs, ~Skipped(profile[n]),
         ~CannotCreate(profile[n], i), Created(n, i),
         NEW c \in create_stream(n, i), c.kind = "measurement",
         NEW e \in create_stream(n, i), e.kind = "measurement"
  PROVE  ToldApart(c, e)
<1>0. /\ \E g \in GroupsOf(n, i), r \in DOMAIN SegmentsOf(profile[n]),
            packet \in Packets(profile[n]) : ToldAs(c, n, i, g, r, packet)
      /\ \E h \in GroupsOf(n, i), s \in DOMAIN SegmentsOf(profile[n]),
            other \in Packets(profile[n]) : ToldAs(e, n, i, h, s, other)
  <2>1. ASSUME NEW x \in create_stream(n, i), x.kind = "measurement"
        PROVE  \E g \in GroupsOf(n, i), r \in DOMAIN SegmentsOf(profile[n]),
                  packet \in Packets(profile[n]) : ToldAs(x, n, i, g, r, packet)
    BY <2>1, NewTold
  <2> QED
    BY <2>1
<1>1. PICK g \in GroupsOf(n, i), r \in DOMAIN SegmentsOf(profile[n]),
           packet \in Packets(profile[n]) :
        /\ c = ChainOfPacket(n, g, r, packet) /\ g \in Groups /\ c.pair = i
        /\ IdsOfChain(c) \subseteq OwnIds(n, g, r, packet)
        /\ OwnIds(n, g, r, packet)
             \subseteq (pg_ids[g].start + used[g]) .. (pg_ids[g].start + used'[g] - 1)
  BY <1>0 DEF ToldAs
<1>2. PICK h \in GroupsOf(n, i), s \in DOMAIN SegmentsOf(profile[n]),
           other \in Packets(profile[n]) :
        /\ e = ChainOfPacket(n, h, s, other) /\ h \in Groups /\ e.pair = i
        /\ IdsOfChain(e) \subseteq OwnIds(n, h, s, other)
        /\ OwnIds(n, h, s, other)
             \subseteq (pg_ids[h].start + used[h]) .. (pg_ids[h].start + used'[h] - 1)
  BY <1>0 DEF ToldAs
<1>3. ASSUME IdsOfChain(c) \cap IdsOfChain(e) # {} PROVE c = e
  <2>1. OwnIds(n, g, r, packet) \cap OwnIds(n, h, s, other) # {}
    BY <1>1, <1>2, <1>3
  <2>2. \A x \in {g, h} :
          /\ used[x] \in Nat /\ used'[x] \in Nat /\ used[x] <= used'[x]
          /\ used'[x] <= pg_ids[x].available /\ pg_ids[x].start \in Nat
    BY <1>1, <1>2, UseIdsLemma DEF Created, ToldInv, CreateType, IdsInv, IdsType
  <2>3. g = h
    <3> SUFFICES ASSUME g # h PROVE FALSE
      OBVIOUS
    <3>1. ((pg_ids[g].start + used[g]) .. (pg_ids[g].start + used'[g] - 1))
            \cap (pg_ids[h].start .. (pg_ids[h].start + used'[h] - 1)) = {}
      BY <1>1, <1>2, <2>2, NewIdsLemma DEF ToldInv
    <3>2. (pg_ids[h].start + used[h]) .. (pg_ids[h].start + used'[h] - 1)
            \subseteq pg_ids[h].start .. (pg_ids[h].start + used'[h] - 1)
      BY <2>2
    <3> QED
      BY <1>1, <1>2, <2>1, <3>1, <3>2
  <2>4. profile[n] \in StreamType
    BY DEF ToldInv, CreateType
  <2>5. r = s /\ packet = other
    <3>1. OwnIds(n, g, s, other) \cap OwnIds(n, g, r, packet) # {}
      BY <2>1, <2>3
    <3>2. pg_ids[g].start \in Nat /\ used[g] \in Nat
      BY <2>2
    <3> QED
      BY <2>4, <3>1, <3>2, OwnIdsLemma
  <2> QED
    BY <1>1, <1>2, <2>3, <2>5
<1> QED
  BY <1>1, <1>2, <1>3 DEF ToldApart

\* Creating a stream keeps the invariant.
LEMMA CreatedKeepsTold ==
  ASSUME ToldInv, NEW n \in DOMAIN profile, NEW i \in Pairs, ~Skipped(profile[n]),
         ~CannotCreate(profile[n], i), Created(n, i), main = "create"
  PROVE  ToldInv'
<1>1. /\ UNCHANGED <<pg_ids, params, main, profile>> /\ turn' = turn + 1
      /\ flow_offset' = [flow_offset EXCEPT ![n] = @ + Flows(profile[n])]
      /\ chains' = chains \cup create_stream(n, i)
  BY DEF Created, idVars
<1>2. IdsInv'
  BY IdsStepLemma DEF ToldInv, Created
<1>3. CreateType'
  <2>1. used' \in [Groups -> Nat] /\ \A g \in Groups : used'[g] <= pg_ids'[g].available
    BY <1>1, UseIdsLemma DEF Created
  <2>2. flow_offset' \in [DOMAIN profile' -> Nat]
    <3>1. flow_offset \in [DOMAIN profile -> Nat] /\ Flows(profile[n]) \in Nat
      BY FlowsLemma DEF ToldInv, CreateType
    <3> QED
      BY <1>1, <3>1
  <2> QED
    BY <1>1, <2>1, <2>2 DEF ToldInv, CreateType
<1>4. ASSUME NEW c \in Measurements'
      PROVE  c \in Measurements \/ (c \in create_stream(n, i) /\ c.kind = "measurement")
  BY <1>1, <1>4 DEF Measurements
<1>5. ASSUME NEW c \in Measurements' PROVE ChainTold(c)'
  BY <1>4, <1>5, OldTold, NewChainTold
<1>6. ASSUME NEW c \in Measurements', NEW e \in Measurements' PROVE ToldApart(c, e)
  <2>1. CASE c \in Measurements /\ e \in Measurements
    BY <2>1 DEF ToldInv, AllTold
  <2>2. CASE c \in create_stream(n, i) /\ c.kind = "measurement" /\ e \in Measurements
    BY <2>2, NewAndOldApart DEF ToldApart
  <2>3. CASE c \in Measurements /\ e \in create_stream(n, i) /\ e.kind = "measurement"
    <3>1. /\ IdsOfChain(e) \cap IdsOfChain(c) = {}
          /\ e.stream = c.stream => e.flows \cap c.flows = {}
      BY <2>3, NewAndOldApart
    <3> QED
      BY <3>1 DEF ToldApart
  <2>4. CASE /\ c \in create_stream(n, i) /\ c.kind = "measurement"
             /\ e \in create_stream(n, i) /\ e.kind = "measurement"
    BY <2>4, NewApart
  <2> QED
    BY <1>4, <2>1, <2>2, <2>3, <2>4
<1>7. AllTold'
  BY <1>5, <1>6 DEF AllTold, ToldApart
<1> QED
  BY <1>2, <1>3, <1>7 DEF ToldInv

\* A stream of another pair moves at most the flows.
LEMMA PassedKeepsTold ==
  ASSUME ToldInv, NEW n \in DOMAIN profile, NEW more \in Nat,
         UNCHANGED <<idVars, params, main, profile, chains, used>>, turn' = turn + 1,
         flow_offset' = [flow_offset EXCEPT ![n] = @ + more]
  PROVE  ToldInv'
<1>1. UNCHANGED <<pg_ids, params, main, profile, chains, used>>
  BY DEF idVars
<1>2. IdsInv'
  BY IdsStepLemma DEF ToldInv
<1>3. /\ flow_offset \in [DOMAIN profile -> Nat] /\ flow_offset' \in [DOMAIN profile -> Nat]
      /\ \A s \in DOMAIN profile : flow_offset[s] <= flow_offset'[s]
  <2>1. flow_offset \in [DOMAIN profile -> Nat]
    BY DEF ToldInv, CreateType
  <2> QED
    BY <2>1
<1>4. CreateType'
  BY <1>1, <1>3 DEF ToldInv, CreateType
<1>5. Measurements' = Measurements
  BY <1>1 DEF Measurements
<1>6. ASSUME NEW c \in Measurements PROVE ChainTold(c)'
  <2> DEFINE s == c.stream
  <2>1. ChainTold(c)
    BY DEF ToldInv, AllTold
  <2>2. s \in DOMAIN profile /\ c.flows \subseteq 0..(flow_offset[s] - 1)
    BY <2>1 DEF ChainTold
  <2> HIDE DEF s
  <2>3. c.flows \subseteq 0..(flow_offset'[s] - 1)
    BY <1>3, <2>2
  <2> QED
    BY <1>1, <2>1, <2>2, <2>3 DEF ChainTold, UsedIds, s
<1>7. AllTold'
  <2>1. \A c, e \in Measurements : ToldApart(c, e)
    BY DEF ToldInv, AllTold
  <2> QED
    BY <1>5, <1>6, <2>1 DEF AllTold, ToldApart
<1> QED
  BY <1>2, <1>4, <1>7 DEF ToldInv

\* Every iteration of the loops keeps it.
LEMMA CreateKeepsTold ==
  ASSUME ToldInv, CreateStream PROVE ToldInv'
<1> DEFINE i == PairOf(turn + 1)
           n == StreamOf(turn + 1)
           stream == profile[n]
           creates == i \in stream.device_pairs /\ ~Skipped(stream)
<1>1. /\ main = "create" /\ turn < NumPairs * Len(profile) /\ UNCHANGED <<idVars, params>>
      /\ IF creates /\ CannotCreate(stream, i)
         THEN main' = "finally" /\ UNCHANGED createVars
         ELSE /\ turn' = turn + 1 /\ UNCHANGED <<main, profile>>
              /\ IF creates THEN chains' = chains \cup create_stream(n, i) /\ UseIds(stream, i)
                 ELSE UNCHANGED <<chains, used>>
              /\ flow_offset' = [flow_offset EXCEPT ![n] =
                                   @ + IF i \in stream.device_pairs THEN Flows(stream) ELSE 0]
  BY Zenon DEF CreateStream
<1>2. n \in DOMAIN profile
  <2>1. turn \in Nat /\ Len(profile) \in Nat /\ DOMAIN profile = 1..Len(profile)
    BY DEF ToldInv, CreateType
  <2>2. Len(profile) # 0
    BY <1>1, <2>1, IdsAssumption
  <2>3. (turn + 1) - 1 = turn
    BY <2>1
  <2>4. turn % Len(profile) \in 0..(Len(profile) - 1)
    BY <2>1, <2>2
  <2>5. n = (turn % Len(profile)) + 1
    BY <2>3 DEF StreamOf
  <2> HIDE DEF n
  <2> QED
    BY <2>1, <2>4, <2>5
<1> HIDE DEF i, n
<1>3. stream \in StreamType
  BY <1>2 DEF ToldInv, CreateType
<1>4. CASE creates /\ CannotCreate(stream, i)
  <2>1. main' = "finally" /\ UNCHANGED createVars
    BY <1>1, <1>4
  <2> QED
    BY <1>1, <2>1, ToldKept DEF SettingUp
<1>5. CASE creates /\ ~CannotCreate(stream, i)
  <2>1. i \in Pairs
    BY <1>3, <1>5 DEF StreamType
  <2>2. Created(n, i)
    BY <1>1, <1>5 DEF Created
  <2> QED
    BY <1>1, <1>2, <1>5, <2>1, <2>2, CreatedKeepsTold
<1>6. CASE ~creates
  <2>1. Flows(stream) \in Nat /\ 0 \in Nat
    BY <1>3, FlowsLemma
  <2>2. PICK more \in Nat : flow_offset' = [flow_offset EXCEPT ![n] = @ + more]
    BY <1>1, <1>6, <2>1
  <2>3. UNCHANGED <<idVars, params, main, profile, chains, used>> /\ turn' = turn + 1
    BY <1>1, <1>6
  <2> QED
    BY <1>2, <2>2, <2>3, PassedKeepsTold
<1> QED
  BY <1>4, <1>5, <1>6

\* Every step keeps it.
LEMMA ToldStep == ToldInv /\ [Next]_vars => ToldInv'
<1> SUFFICES ASSUME ToldInv, [Next]_vars PROVE ToldInv'
  OBVIOUS
<1>1. CASE LoadProfile
  BY <1>1, LoadKeepsTold
<1>2. CASE AssignIds
  BY <1>2, AssignKeepsTold
<1>3. CASE CreateStream
  BY <1>3, CreateKeepsTold
<1>4. CASE Connect \/ StartProfiler \/ MainStep
  <2>1. UNCHANGED <<idVars, params, createVars>> /\ (main' \in SettingUp => main \in SettingUp)
    BY <1>4 DEF Connect, StartProfiler, MainStep, Load, Start, WaitReturns, WaitFails, EndProfiler,
                Collect, Disconnect, Step, SettingUp
  <2> QED
    BY <2>1, ToldKept
<1>5. CASE WorkerStep \/ LoggerStep \/ TrafficEnds \/ UNCHANGED vars
  <2>1. UNCHANGED <<idVars, params, createVars, main>>
    BY <1>5 DEF WorkerStep, LoggerStep, TrafficEnds, vars
  <2> QED
    BY <2>1, ToldKept DEF SettingUp
<1> QED
  BY <1>1, <1>2, <1>3, <1>4, <1>5 DEF Next, SetUp

\* What a flow group id counts is one chain of a stream, for a latency stream
\* one segment of it, and device pairs that share a stream send different
\* flows: for any profile, number of pairs and counters (trex-txrx-profile.py
\* create_stream 640-1012).
THEOREM StreamsToldByIds == Spec => []StreamsAreTold
BY ToldInit, ToldStep, ToldImplies, PTL DEF Spec

-----------------------------------------------------------------------------
(* Quotients and remainders.                                               *)

\* Division with a remainder.
LEMMA QuotientLemma ==
  ASSUME NEW a \in Nat, NEW m \in Nat, m # 0
  PROVE  /\ a \div m \in Nat /\ a % m \in Nat /\ a % m < m /\ m * (a \div m) \in Nat
         /\ a = m * (a \div m) + (a % m)
  BY Z3

\* Quotient and remainder are unique.
LEMMA OneWayLemma ==
  ASSUME NEW m \in Nat, m # 0, NEW q \in Nat, NEW r \in Nat, r < m, NEW s \in Nat, NEW t \in Nat, t < m,
         m * q + r = m * s + t
  PROVE  q = s /\ r = t
<1>1. ~(q < s)
  <2> SUFFICES ASSUME q < s PROVE FALSE
    OBVIOUS
  <2>1. q * m + m <= s * m
    BY RangeLemma
  <2>2. q * m = m * q /\ s * m = m * s /\ m * q \in Nat /\ m * s \in Nat
    OBVIOUS
  <2> QED
    BY <2>1, <2>2
<1>2. ~(s < q)
  <2> SUFFICES ASSUME s < q PROVE FALSE
    OBVIOUS
  <2>1. s * m + m <= q * m
    BY RangeLemma
  <2>2. q * m = m * q /\ s * m = m * s /\ m * q \in Nat /\ m * s \in Nat
    OBVIOUS
  <2> QED
    BY <2>1, <2>2
<1>3. q = s /\ m * q \in Nat
  BY <1>1, <1>2
<1> QED
  BY <1>3

\* They are those of a multiple to which less than the divisor is added.
LEMMA RemainderLemma ==
  ASSUME NEW m \in Nat, m # 0, NEW q \in Nat, NEW r \in Nat, r < m
  PROVE  /\ m * q + r \in Nat /\ (m * q + r) % m = r /\ (m * q + r) \div m = q
<1> DEFINE a == m * q + r
<1>1. a \in Nat
  OBVIOUS
<1> HIDE DEF a
<1>2. /\ a \div m \in Nat /\ a % m \in Nat /\ a % m < m
      /\ a = m * (a \div m) + (a % m)
  BY <1>1, QuotientLemma
<1> DEFINE s == a \div m
           t == a % m
<1>3. s \in Nat /\ t \in Nat /\ t < m /\ m * q + r = m * s + t
  BY <1>2 DEF a
<1> HIDE DEF s, t
<1>4. q = s /\ r = t
  BY <1>3, OneWayLemma
<1> QED
  BY <1>1, <1>4 DEF a, s, t

\* A whole period changes no remainder.
LEMMA PeriodLemma ==
  ASSUME NEW a \in Nat, NEW m \in Nat, m # 0
  PROVE  (a + m) % m = a % m /\ (a < m => a % m = a)
<1> DEFINE q == a \div m
           r == a % m
<1>1. q \in Nat /\ r \in Nat /\ r < m /\ a = m * q + r
  BY QuotientLemma
<1> HIDE DEF q, r
<1>2. m * (q + 1) = m * q + m /\ q + 1 \in Nat /\ m * q \in Nat
  BY <1>1
<1>3. a + m = m * (q + 1) + r
  BY <1>1, <1>2
<1>4. (m * (q + 1) + r) % m = r
  BY <1>1, <1>2, RemainderLemma
<1>5. ASSUME a < m PROVE a % m = a
  <2>1. m * 0 + a = a
    OBVIOUS
  <2>2. (m * 0 + a) % m = a
    BY <1>5, RemainderLemma
  <2> QED
    BY <2>1, <2>2
<1> QED
  BY <1>3, <1>4, <1>5 DEF r

\* Sums and differences of whole seconds.
LEMMA SecondsLemma ==
  ASSUME NEW m \in WholeSeconds, NEW n \in WholeSeconds
  PROVE  m + n \in WholeSeconds /\ (n <= m => m - n \in WholeSeconds)
<1>1. Second \in Nat /\ Second # 0
  BY ProfileAssumption
<1>2. m \in Nat /\ n \in Nat /\ m % Second = 0 /\ n % Second = 0
  BY DEF WholeSeconds
<1> DEFINE a == m \div Second
           b == n \div Second
<1>3. a \in Nat /\ b \in Nat /\ m = Second * a /\ n = Second * b
  <2>1. a \in Nat /\ b \in Nat
    BY <1>1, <1>2, QuotientLemma
  <2>2. m = Second * a + 0 /\ n = Second * b + 0
    BY <1>1, <1>2, QuotientLemma
  <2>3. Second * a \in Nat /\ Second * b \in Nat
    BY <1>1, <2>1
  <2> QED
    BY <2>1, <2>2, <2>3
<1> HIDE DEF a, b
<1>4. m + n = Second * (a + b) + 0 /\ a + b \in Nat
  BY <1>1, <1>3
<1>5. (Second * (a + b) + 0) % Second = 0
  BY <1>1, <1>4, RemainderLemma
<1>6. ASSUME n <= m PROVE m - n \in WholeSeconds
  <2>1. b <= a
    <3> SUFFICES ASSUME a < b PROVE FALSE
      BY <1>3
    <3>1. a * Second + Second <= b * Second
      BY <1>1, <1>3, RangeLemma
    <3>2. a * Second = m /\ b * Second = n
      BY <1>1, <1>3
    <3> QED
      BY <1>1, <1>2, <1>6, <3>1, <3>2
  <2>2. m - n = Second * (a - b) + 0 /\ a - b \in Nat
    BY <1>1, <1>3, <2>1
  <2>3. (Second * (a - b) + 0) % Second = 0
    BY <1>1, <2>2, RemainderLemma
  <2> QED
    BY <1>2, <1>6, <2>2, <2>3 DEF WholeSeconds
<1> QED
  BY <1>2, <1>4, <1>5, <1>6 DEF WholeSeconds

-----------------------------------------------------------------------------
(* When segments transmit.                                                 *)

\* When a segment is over.
EndOf(s) == s.offset + s.isg + s.duration

\* A segment of a trial: transmissions take whole seconds.
TrialSegment ==
  {s \in SegmentType : /\ s.offset \in Nat /\ s.offset % Second = 0
                       /\ s.duration \in Nat /\ s.isg = 0 /\ EndOf(s) <= Runtime
                       /\ s.type = "tx" => s.duration \in WholeSeconds /\ s.duration # 0}

\* Transmissions and pauses take turns, one behind the other.
Follows(a, b) == b.offset = EndOf(a) /\ a.type # b.type

\* Segments one behind the other.
Timeline(segments) ==
  /\ segments \in Seq(TrialSegment)
  /\ \A k \in 1..(Len(segments) - 1) : Follows(segments[k], segments[k + 1])

\* A pause before a transmission has some length.
PausesOf(segments, m) ==
  \A k \in 1..(Len(segments) - 1) : segments[k].type = "null" => segments[k].duration >= m

\* Whether a segment, or one of some, transmits at a tick.
Covers(s, t) == s.type = "tx" /\ s.offset + s.isg <= t /\ t < EndOf(s)
Covered(segments, t) == \E k \in 1..Len(segments) : Covers(segments[k], t)

\* Two timelines one behind the other are one.
LEMMA TimelineJoin ==
  ASSUME NEW a, NEW b, NEW m, Timeline(a), Timeline(b), PausesOf(a, m), PausesOf(b, m), Len(a) # 0,
         Len(b) # 0 => /\ Follows(a[Len(a)], b[1])
                       /\ a[Len(a)].type = "null" => a[Len(a)].duration >= m
  PROVE  /\ Timeline(a \o b) /\ PausesOf(a \o b, m)
         /\ Len(a \o b) # 0 /\ (a \o b)[1] = a[1]
         /\ \A t \in Nat : Covered(a \o b, t) <=> Covered(a, t) \/ Covered(b, t)
<1> DEFINE c == a \o b
           l == Len(a)
           n == Len(b)
<1>1. /\ a \in Seq(TrialSegment) /\ b \in Seq(TrialSegment) /\ c \in Seq(TrialSegment)
      /\ l \in Nat /\ n \in Nat /\ l # 0 /\ Len(c) = l + n
  BY DEF Timeline
<1>2. /\ \A k \in 1..l : c[k] = a[k]
      /\ \A k \in 1..n : c[l + k] = b[k]
  BY <1>1
<1> HIDE DEF c
<1>3. ASSUME NEW k \in 1..(Len(c) - 1)
      PROVE  /\ Follows(c[k], c[k + 1])
             /\ c[k].type = "null" => c[k].duration >= m
  <2>1. CASE k < l
    <3>1. k \in 1..(Len(a) - 1) /\ k \in 1..l /\ k + 1 \in 1..l
      BY <1>1, <2>1
    <3> QED
      BY <1>2, <3>1 DEF Timeline, PausesOf
  <2>2. CASE k = l
    <3>1. n # 0 /\ k \in 1..l /\ 1 \in 1..n
      BY <1>1, <2>2
    <3> QED
      BY <1>2, <2>2, <3>1
  <2>3. CASE k > l
    <3>1. k - l \in 1..(Len(b) - 1) /\ k - l \in 1..n /\ (k - l) + 1 \in 1..n
          /\ l + (k - l) = k /\ l + ((k - l) + 1) = k + 1
      BY <1>1, <2>3
    <3>2. c[k] = b[k - l]
      BY <1>2, <3>1
    <3>3. c[k + 1] = b[(k - l) + 1]
      BY <1>2, <3>1
    <3> QED
      BY <3>1, <3>2, <3>3 DEF Timeline, PausesOf
  <2> QED
    BY <1>1, <2>1, <2>2, <2>3
<1>4. Timeline(c) /\ PausesOf(c, m)
  BY <1>1, <1>3 DEF Timeline, PausesOf
<1>5. ASSUME NEW t \in Nat
      PROVE  Covered(c, t) <=> Covered(a, t) \/ Covered(b, t)
  <2>1. ASSUME NEW k \in 1..Len(c), Covers(c[k], t)
        PROVE  Covered(a, t) \/ Covered(b, t)
    <3>1. CASE k <= l
      <4>1. k \in 1..l
        BY <1>1, <3>1
      <4> QED
        BY <1>2, <2>1, <4>1 DEF Covered
    <3>2. CASE k > l
      <4>1. k - l \in 1..n /\ l + (k - l) = k
        BY <1>1, <3>2
      <4> QED
        BY <1>2, <2>1, <4>1 DEF Covered
    <3> QED
      BY <1>1, <3>1, <3>2
  <2>2. ASSUME NEW k \in 1..l, Covers(a[k], t)
        PROVE  Covered(c, t)
    <3>1. k \in 1..Len(c)
      BY <1>1
    <3> QED
      BY <1>2, <2>2, <3>1 DEF Covered
  <2>3. ASSUME NEW k \in 1..n, Covers(b[k], t)
        PROVE  Covered(c, t)
    <3>1. l + k \in 1..Len(c)
      BY <1>1
    <3> QED
      BY <1>2, <2>3, <3>1 DEF Covered
  <2> QED
    BY <2>1, <2>2, <2>3 DEF Covered
<1> QED
  BY <1>1, <1>2, <1>4, <1>5 DEF c

\* A single segment is a timeline.
LEMMA TimelineOne ==
  ASSUME NEW s \in TrialSegment, NEW m
  PROVE  /\ Timeline(<<s>>) /\ PausesOf(<<s>>, m) /\ Len(<<s>>) = 1
         /\ \A t \in Nat : Covered(<<s>>, t) <=> Covers(s, t)
<1>1. Len(<<s>>) = 1 /\ <<s>> \in Seq(TrialSegment) /\ <<s>>[1] = s
  OBVIOUS
<1>2. 1..(1 - 1) = {} /\ 1..1 = {1}
  OBVIOUS
<1> QED
  BY <1>1, <1>2 DEF Timeline, PausesOf, Covered

\* No segments are a timeline, too.
LEMMA TimelineNone ==
  ASSUME NEW m
  PROVE  /\ Timeline(<<>>) /\ PausesOf(<<>>, m) /\ Len(<<>>) = 0
         /\ \A t \in Nat : ~Covered(<<>>, t)
<1>1. Len(<<>>) = 0 /\ <<>> \in Seq(TrialSegment)
  OBVIOUS
<1>2. 1..(0 - 1) = {} /\ 1..0 = {}
  OBVIOUS
<1> QED
  BY <1>1, <1>2 DEF Timeline, PausesOf, Covered

\* What Segment() makes.
LEMMA TrialSegmentLemma ==
  ASSUME NEW duration \in Nat, NEW offset \in WholeSeconds, offset + duration <= Runtime
  PROVE  /\ LET s == Segment("null", duration, offset)
            IN  /\ s \in TrialSegment /\ s.type = "null" /\ EndOf(s) = offset + duration
                /\ s.offset = offset /\ s.duration = duration /\ \A t \in Nat : ~Covers(s, t)
         /\ duration \in WholeSeconds /\ duration # 0 =>
              LET s == Segment("tx", duration, offset)
              IN  /\ s \in TrialSegment /\ s.type = "tx" /\ EndOf(s) = offset + duration
                  /\ s.offset = offset /\ s.duration = duration
                  /\ \A t \in Nat : Covers(s, t) <=> offset <= t /\ t < offset + duration
  BY DEF Segment, TrialSegment, SegmentType, EndOf, Covers, WholeSeconds

\* The transmissions of a stream that repeats are a period apart.
LEMMA TurnCovers ==
  ASSUME NEW t \in Nat, NEW duration \in Nat, duration # 0, NEW delay \in Nat, NEW u \in Nat,
         t + duration <= Runtime
  PROVE  LET over == t + duration
             next == over + Shorter(delay, Runtime - over)
         IN  (t <= u /\ u < over)
               \/ (next <= u /\ u < Runtime /\ (u - next) % (duration + delay) < duration)
             <=> t <= u /\ u < Runtime /\ (u - t) % (duration + delay) < duration
<1> DEFINE over == t + duration
           next == over + Shorter(delay, Runtime - over)
           period == duration + delay
<1>1. Runtime \in Nat /\ period \in Nat /\ period # 0 /\ over \in Nat /\ next \in Nat
  BY ProfileAssumption DEF Shorter
<1>2. CASE ~(t <= u /\ u < Runtime)
  <2>1. t <= next /\ over <= Runtime
    BY <1>1 DEF Shorter
  <2> QED
    BY <1>1, <1>2, <2>1
<1>3. CASE t <= u /\ u < Runtime /\ u - t < period
  <2> DEFINE a == u - t
  <2>0. a \in Nat /\ a < period
    BY <1>3
  <2> HIDE DEF a, period
  <2>1. a \in Nat /\ a % period = a
    BY <1>1, <2>0, PeriodLemma
  <2> USE DEF a, period
  <2>2. ~(next <= u)
    <3>1. next = t + period \/ next = Runtime
      BY <1>1 DEF Shorter
    <3> QED
      BY <1>1, <1>3, <3>1
  <2>3. u - t < duration <=> u < over
    BY <1>3
  <2> QED
    BY <1>3, <2>1, <2>2, <2>3
<1>4. CASE t <= u /\ u < Runtime /\ u - t >= period
  <2>1. next = t + period
    BY <1>1, <1>4 DEF Shorter
  <2>2. u - next \in Nat /\ (u - next) + period = u - t /\ next <= u /\ ~(u < over)
    BY <1>1, <1>4, <2>1
  <2>3. (u - t) % period = (u - next) % period
    <3> DEFINE a == u - next
    <3>1. a \in Nat /\ a + period = u - t
      BY <2>2
    <3> HIDE DEF a, next, period
    <3>2. (a + period) % period = a % period
      BY <1>1, <3>1, PeriodLemma
    <3> QED
      BY <3>1, <3>2 DEF a
  <2> QED
    BY <1>4, <2>2, <2>3
<1> QED
  BY <1>1, <1>2, <1>3, <1>4

\* What a stream that repeats adds from a time on.
TurnOnTime(segments, t, duration, delay) ==
  /\ Timeline(segments) /\ PausesOf(segments, delay)
  /\ t >= Runtime => Len(segments) = 0
  /\ t < Runtime => Len(segments) # 0 /\ segments[1].type = "tx" /\ segments[1].offset = t
  /\ \A u \in Nat : Covered(segments, u) <=>
                      t <= u /\ u < Runtime /\ (u - t) % (duration + delay) < duration

\* One turn of the loop, if those that follow are on time.
LEMMA TurnOnTimeLemma ==
  ASSUME NEW duration \in WholeSeconds, duration # 0, NEW delay \in WholeSeconds,
         NEW t \in WholeSeconds, t < Runtime, NEW f,
         \A u \in WholeSeconds : t < u => TurnOnTime(f[u], u, duration, delay)
  PROVE  TurnOnTime(Turn(f, duration, delay, t), t, duration, delay)
<1> DEFINE over == t + duration
           pause == Shorter(delay, Runtime - over)
           next == over + pause
<1>1. /\ Runtime \in WholeSeconds /\ Runtime \in Nat /\ t \in Nat /\ duration \in Nat /\ delay \in Nat
      /\ Runtime - t \in WholeSeconds /\ Runtime - t # 0
  <2>1. Runtime \in WholeSeconds /\ Runtime \in Nat /\ t \in Nat /\ duration \in Nat /\ delay \in Nat
    BY ProfileAssumption DEF WholeSeconds
  <2> QED
    BY <2>1, SecondsLemma
<1>2. CASE duration > Runtime - t
  <2> DEFINE s == Segment("tx", Runtime - t, t)
  <2>1. Turn(f, duration, delay, t) = <<s>>
    BY <1>1, <1>2 DEF Turn
  <2>2. /\ s \in TrialSegment /\ s.type = "tx" /\ s.offset = t
        /\ \A u \in Nat : Covers(s, u) <=> t <= u /\ u < t + (Runtime - t)
    BY <1>1, TrialSegmentLemma
  <2> HIDE DEF s
  <2> DEFINE one == <<s>>
  <2>3. /\ Timeline(one) /\ PausesOf(one, delay) /\ Len(one) = 1 /\ one[1] = s
        /\ \A u \in Nat : Covered(one, u) <=> Covers(s, u)
    BY <2>2, TimelineOne
  <2>4. ASSUME NEW u \in Nat, t <= u, u < Runtime
        PROVE  (u - t) % (duration + delay) < duration
    <3>1. u - t \in Nat /\ u - t < duration + delay /\ u - t < duration
          /\ duration + delay \in Nat /\ duration + delay # 0
      BY <1>1, <1>2, <2>4
    <3>2. (u - t) % (duration + delay) = u - t
      BY <3>1, PeriodLemma
    <3> QED
      BY <3>1, <3>2
  <2>5. Turn(f, duration, delay, t) = one
    BY <2>1
  <2> HIDE DEF one
  <2>6. ASSUME NEW u \in Nat
        PROVE  Covered(one, u) <=> t <= u /\ u < Runtime /\ (u - t) % (duration + delay) < duration
    <3>1. Covered(one, u) <=> t <= u /\ u < Runtime
      BY <1>1, <2>2, <2>3
    <3> QED
      BY <2>4, <3>1
  <2>7. Len(one) # 0 /\ ~(t >= Runtime)
    BY <1>1, <2>3
  <2> QED
    BY <2>2, <2>3, <2>5, <2>6, <2>7 DEF TurnOnTime
<1>3. CASE ~(duration > Runtime - t)
  <2> DEFINE burst == Segment("tx", duration, t)
             break == Segment("null", pause, over)
             rest == f[next]
  <2>1. /\ over \in WholeSeconds /\ over \in Nat /\ over <= Runtime /\ Runtime - over \in WholeSeconds
        /\ pause \in WholeSeconds /\ pause \in Nat /\ next \in WholeSeconds /\ next \in Nat
        /\ next <= Runtime /\ t < next
    <3>1. over \in WholeSeconds /\ over \in Nat /\ over <= Runtime /\ t < over
      BY <1>1, <1>3, SecondsLemma
    <3>2. Runtime - over \in WholeSeconds
      BY <1>1, <3>1, SecondsLemma
    <3>3. pause \in WholeSeconds /\ pause \in Nat /\ pause <= Runtime - over
      BY <1>1, <3>1, <3>2 DEF Shorter
    <3> HIDE DEF pause, over
    <3>4. next \in WholeSeconds
      BY <3>1, <3>3, SecondsLemma
    <3> QED
      BY <1>1, <3>1, <3>2, <3>3, <3>4
  <2>2. /\ burst \in TrialSegment /\ burst.type = "tx" /\ burst.offset = t /\ EndOf(burst) = over
        /\ \A u \in Nat : Covers(burst, u) <=> t <= u /\ u < over
        /\ break \in TrialSegment /\ break.type = "null" /\ break.offset = over
        /\ EndOf(break) = next /\ break.duration = pause /\ \A u \in Nat : ~Covers(break, u)
    BY <1>1, <2>1, TrialSegmentLemma
  <2>3. TurnOnTime(rest, next, duration, delay)
    BY <2>1
  <2>4. Turn(f, duration, delay, t)
          = <<burst>> \o (IF pause > 0 \/ delay = 0 THEN <<break>> ELSE <<>>) \o rest
    <3>1. ~(t >= Runtime)
      BY <1>1
    <3> QED
      BY <1>3, <3>1 DEF Turn
  <2>5. \A u \in Nat : (t <= u /\ u < over)
                         \/ (next <= u /\ u < Runtime /\ (u - next) % (duration + delay) < duration)
                         <=> t <= u /\ u < Runtime /\ (u - t) % (duration + delay) < duration
    BY <1>1, <2>1, TurnCovers
  <2>6. next < Runtime => pause = delay
    BY <1>1, <2>1 DEF Shorter
  <2>7. pause = 0 /\ delay # 0 => next = Runtime
    BY <1>1, <2>1 DEF Shorter
  <2> HIDE DEF burst, break, rest, pause, over, next
  <2> DEFINE one == <<burst>>
             two == <<break>>
  <2>8. /\ Timeline(one) /\ PausesOf(one, delay) /\ Len(one) = 1 /\ one[1] = burst
        /\ \A u \in Nat : Covered(one, u) <=> Covers(burst, u)
    BY <2>2, TimelineOne
  <2>9. /\ Timeline(two) /\ PausesOf(two, delay) /\ Len(two) = 1 /\ two[1] = break
        /\ \A u \in Nat : Covered(two, u) <=> Covers(break, u)
    BY <2>2, TimelineOne
  <2>10. Len(one \o two) = 2 /\ (one \o two)[2] = break
    OBVIOUS
  <2>11. Turn(f, duration, delay, t) = IF pause > 0 \/ delay = 0 THEN (one \o two) \o rest ELSE one \o rest
    BY <2>4
  <2> HIDE DEF one, two
  <2>12. /\ Timeline(rest) /\ PausesOf(rest, delay)
         /\ Len(rest) # 0 => next < Runtime /\ rest[1].type = "tx" /\ rest[1].offset = next
         /\ \A u \in Nat : Covered(rest, u) <=>
              next <= u /\ u < Runtime /\ (u - next) % (duration + delay) < duration
    BY <1>1, <2>1, <2>3 DEF TurnOnTime
  <2>13. ASSUME NEW all, Timeline(all), PausesOf(all, delay), Len(all) # 0, all[1] = burst,
                \A u \in Nat : Covered(all, u) <=> Covers(burst, u) \/ Covered(rest, u)
         PROVE  TurnOnTime(all, t, duration, delay)
    <3>1. ASSUME NEW u \in Nat
          PROVE  Covered(all, u) <=> t <= u /\ u < Runtime /\ (u - t) % (duration + delay) < duration
      BY <2>2, <2>5, <2>12, <2>13
    <3>2. ~(t >= Runtime)
      BY <1>1
    <3> QED
      BY <2>2, <2>13, <3>1, <3>2 DEF TurnOnTime
  <2>14. CASE pause > 0 \/ delay = 0
    <3> DEFINE both == one \o two
    <3>1. Len(two) # 0 => /\ Follows(one[Len(one)], two[1])
                          /\ one[Len(one)].type = "null" => one[Len(one)].duration >= delay
      BY <2>2, <2>8, <2>9 DEF Follows
    <3>2. Len(one) # 0
      BY <2>8
    <3>3. /\ Timeline(both) /\ PausesOf(both, delay) /\ Len(both) # 0 /\ both[1] = burst
          /\ \A u \in Nat : Covered(both, u) <=> Covered(one, u) \/ Covered(two, u)
      BY <2>8, <2>9, <3>1, <3>2, TimelineJoin
    <3>4. Len(both) = 2 /\ both[2] = break
      BY <2>10
    <3>5. Turn(f, duration, delay, t) = both \o rest
      BY <2>11, <2>14
    <3> HIDE DEF both
    <3>6. Len(rest) # 0 => /\ Follows(both[Len(both)], rest[1])
                           /\ both[Len(both)].type = "null" => both[Len(both)].duration >= delay
      BY <1>1, <2>2, <2>6, <2>12, <3>4 DEF Follows
    <3> DEFINE all == both \o rest
    <3>7. /\ Timeline(all) /\ PausesOf(all, delay) /\ Len(all) # 0 /\ all[1] = burst
          /\ \A u \in Nat : Covered(all, u) <=> Covered(both, u) \/ Covered(rest, u)
      BY <2>12, <3>3, <3>6, TimelineJoin
    <3> HIDE DEF all
    <3>8. \A u \in Nat : Covered(all, u) <=> Covers(burst, u) \/ Covered(rest, u)
      BY <2>2, <2>8, <2>9, <3>3, <3>7
    <3>9. TurnOnTime(all, t, duration, delay)
      BY <2>13, <3>7, <3>8
    <3> QED
      BY <3>5, <3>9 DEF all
  <2>15. CASE ~(pause > 0 \/ delay = 0)
    <3>1. Len(rest) = 0
      BY <1>1, <2>1, <2>7, <2>12, <2>15
    <3>2. Turn(f, duration, delay, t) = one \o rest
      BY <2>11, <2>15
    <3>3. Len(rest) # 0 => /\ Follows(one[Len(one)], rest[1])
                           /\ one[Len(one)].type = "null" => one[Len(one)].duration >= delay
      BY <3>1
    <3>4. Len(one) # 0
      BY <2>8
    <3> DEFINE all == one \o rest
    <3>5. /\ Timeline(all) /\ PausesOf(all, delay) /\ Len(all) # 0 /\ all[1] = burst
          /\ \A u \in Nat : Covered(all, u) <=> Covered(one, u) \/ Covered(rest, u)
      BY <2>8, <2>12, <3>3, <3>4, TimelineJoin
    <3> HIDE DEF all
    <3>6. \A u \in Nat : Covered(all, u) <=> Covers(burst, u) \/ Covered(rest, u)
      BY <2>8, <3>5
    <3>7. TurnOnTime(all, t, duration, delay)
      BY <2>13, <3>5, <3>6
    <3> QED
      BY <3>2, <3>7 DEF all
  <2> QED
    BY <2>14, <2>15
<1> QED
  BY <1>2, <1>3

\* All turns are on time: what fails at some time has a last failure.
LEMMA TurnsOnTime ==
  ASSUME NEW duration \in WholeSeconds, duration # 0, NEW delay \in WholeSeconds,
         NEW f, Turns(f, duration, delay, 0), NEW t \in WholeSeconds
  PROVE  TurnOnTime(f[t], t, duration, delay)
<1> DEFINE good(v) == TurnOnTime(f[v], v, duration, delay)
           bad == {k \in Nat : \E v \in WholeSeconds : k = Runtime - v /\ ~good(v)}
<1>0. Runtime \in Nat /\ WholeSeconds \subseteq Nat /\ duration \in Nat /\ delay \in Nat
  BY ProfileAssumption DEF WholeSeconds
<1>1. \A v \in Nat : f[v] = Turn(f, duration, delay, v)
  BY DEF Turns, From
<1>2. ASSUME NEW v \in WholeSeconds, v >= Runtime
      PROVE  good(v)
  <2>1. Turn(f, duration, delay, v) = <<>>
    BY <1>2 DEF Turn
  <2>2. f[v] = <<>>
    BY <1>0, <1>1, <2>1
  <2>3. ~(v < Runtime)
    BY <1>0, <1>2
  <2>4. \A u \in Nat : ~(v <= u /\ u < Runtime)
    BY <1>0, <1>2
  <2> QED
    BY <2>2, <2>3, <2>4, TimelineNone DEF TurnOnTime
<1>3. bad = {}
  <2> SUFFICES ASSUME bad # {} PROVE FALSE
    OBVIOUS
  <2>1. PICK k \in bad : \A l \in bad : k <= l
    <3>1. bad \in SUBSET Nat
      OBVIOUS
    <3> HIDE DEF bad
    <3> QED
      BY <3>1, SmallestLemma
  <2>2. PICK v \in WholeSeconds : k = Runtime - v /\ ~good(v)
    BY <2>1
  <2> HIDE DEF good
  <2>3. v < Runtime /\ v \in Nat /\ k \in Nat
    BY <1>0, <1>2, <2>2
  <2>4. \A u \in WholeSeconds : v < u => good(u)
    <3> SUFFICES ASSUME NEW u \in WholeSeconds, v < u, ~good(u) PROVE FALSE
      OBVIOUS
    <3>1. u < Runtime /\ u \in Nat
      BY <1>0, <1>2
    <3>2. Runtime - u \in Nat /\ Runtime - u < k
      BY <1>0, <2>2, <2>3, <3>1
    <3>3. Runtime - u \in bad
      BY <3>2
    <3> HIDE DEF bad
    <3>4. k <= Runtime - u
      BY <2>1, <3>3
    <3> QED
      BY <1>0, <2>3, <3>2, <3>4
  <2>5. TurnOnTime(Turn(f, duration, delay, v), v, duration, delay)
    BY <2>3, <2>4, TurnOnTimeLemma DEF good
  <2> QED
    BY <1>1, <2>2, <2>3, <2>5 DEF good
<1> QED
  <2> HIDE DEF good
  <2>1. CASE t >= Runtime
    BY <1>2, <2>1 DEF good
  <2>2. CASE ~(t >= Runtime)
    <3>1. Runtime - t \in Nat
      BY <1>0, <2>2
    <3>2. good(t)
      BY <1>3, <3>1
    <3> QED
      BY <3>2 DEF good
  <2> QED
    BY <2>1, <2>2

\* The segments of a stream: they begin with the trial, and cover what the
\* profile says.
SegmentsOnTime(segments, stream, m) ==
  /\ Timeline(segments) /\ PausesOf(segments, m) /\ Len(segments) # 0
  /\ \A t \in Nat : Covered(segments, t) <=> Scheduled(stream, t)

\* From the first transmission on, for a stream that does not repeat.
LEMMA SingleOnTime ==
  ASSUME NEW stream \in StreamType, stream.offset < Runtime, NEW m \in Nat, ~stream.repeat
  PROVE  LET over == stream.offset + TxDuration(stream)
             rest == <<Segment("tx", TxDuration(stream), stream.offset)>>
                       \o IF over < Runtime THEN <<Segment("null", Runtime - over, over)>> ELSE <<>>
         IN  /\ SegmentsOnTime(rest, stream, m)
             /\ rest[1].type = "tx" /\ rest[1].offset = stream.offset
<1> DEFINE duration == TxDuration(stream)
           over == stream.offset + duration
           burst == Segment("tx", duration, stream.offset)
           after == Segment("null", Runtime - over, over)
           one == <<burst>>
           last == IF over < Runtime THEN <<after>> ELSE <<>>
           rest == one \o last
<1>1. /\ stream.offset \in WholeSeconds /\ stream.offset \in Nat /\ stream.duration \in WholeSeconds
      /\ stream.duration \in Nat /\ Runtime \in WholeSeconds /\ Runtime \in Nat
  BY ProfileAssumption DEF StreamType, WholeSeconds
<1>2. Runtime - stream.offset \in WholeSeconds
  BY <1>1, SecondsLemma
<1>3. /\ duration \in WholeSeconds /\ duration \in Nat /\ duration # 0
      /\ over \in WholeSeconds /\ over \in Nat /\ over <= Runtime
      /\ Runtime - over \in Nat /\ over + (Runtime - over) = Runtime
  <2>1. duration \in WholeSeconds /\ duration \in Nat /\ duration # 0
        /\ duration <= Runtime - stream.offset
    BY <1>1, <1>2 DEF TxDuration, Shorter
  <2> HIDE DEF duration
  <2>2. over \in WholeSeconds
    BY <1>1, <2>1, SecondsLemma
  <2> QED
    BY <1>1, <2>1, <2>2
<1>4. \A t \in Nat : stream.offset <= t /\ t < over <=> Scheduled(stream, t)
  BY <1>1 DEF Scheduled, TxDuration, Shorter
<1> HIDE DEF duration, over
<1>5. /\ burst \in TrialSegment /\ burst.type = "tx" /\ burst.offset = stream.offset
      /\ EndOf(burst) = over
      /\ \A t \in Nat : Covers(burst, t) <=> stream.offset <= t /\ t < over
  BY <1>1, <1>3, TrialSegmentLemma DEF over
<1>6. /\ after \in TrialSegment /\ after.type = "null" /\ after.offset = over
      /\ \A t \in Nat : ~Covers(after, t)
  BY <1>1, <1>3, TrialSegmentLemma
<1> HIDE DEF burst, after
<1>7. /\ Timeline(one) /\ PausesOf(one, m) /\ Len(one) = 1 /\ one[1] = burst
      /\ \A t \in Nat : Covered(one, t) <=> Covers(burst, t)
  BY <1>5, TimelineOne
<1>8. /\ Timeline(last) /\ PausesOf(last, m)
      /\ Len(last) # 0 => last[1] = after
      /\ \A t \in Nat : ~Covered(last, t)
  <2>1. CASE over < Runtime
    <3>1. /\ Timeline(<<after>>) /\ PausesOf(<<after>>, m) /\ <<after>>[1] = after
          /\ \A t \in Nat : Covered(<<after>>, t) <=> Covers(after, t)
      BY <1>6, TimelineOne
    <3>2. last = <<after>>
      BY <2>1
    <3> QED
      BY <1>6, <3>1, <3>2
  <2>2. CASE ~(over < Runtime)
    <3>1. last = <<>>
      BY <2>2
    <3> QED
      BY <3>1, TimelineNone
  <2> QED
    BY <2>1, <2>2
<1> HIDE DEF one, last
<1>9. /\ Len(last) # 0 => /\ Follows(one[Len(one)], last[1])
                          /\ one[Len(one)].type = "null" => one[Len(one)].duration >= m
      /\ Len(one) # 0
  BY <1>5, <1>6, <1>7, <1>8 DEF Follows
<1>10. /\ Timeline(rest) /\ PausesOf(rest, m) /\ Len(rest) # 0 /\ rest[1] = burst
       /\ \A t \in Nat : Covered(rest, t) <=> Covered(one, t) \/ Covered(last, t)
  BY <1>7, <1>8, <1>9, TimelineJoin
<1> HIDE DEF rest
<1>11. \A t \in Nat : Covered(rest, t) <=> Scheduled(stream, t)
  BY <1>4, <1>5, <1>7, <1>8, <1>10
<1>12. SegmentsOnTime(rest, stream, m) /\ rest[1].type = "tx" /\ rest[1].offset = stream.offset
  BY <1>5, <1>10, <1>11 DEF SegmentsOnTime
<1> QED
  BY <1>12 DEF rest, last, one, after, burst, over, duration

\* For one that does.
LEMMA RepeatingOnTime ==
  ASSUME NEW stream \in StreamType, stream.offset < Runtime, stream.repeat,
         NEW m \in Nat, stream.repeat_delay >= m
  PROVE  LET rest == RepeatedFrom(stream)[stream.offset]
         IN  /\ SegmentsOnTime(rest, stream, m)
             /\ rest[1].type = "tx" /\ rest[1].offset = stream.offset
<1> DEFINE duration == TxDuration(stream)
           delay == stream.repeat_delay
           rest == RepeatedFrom(stream)[stream.offset]
           said == IF stream.duration = 0 THEN Runtime ELSE stream.duration
<1>1. /\ stream.offset \in WholeSeconds /\ stream.offset \in Nat /\ stream.duration \in WholeSeconds
      /\ stream.duration \in Nat /\ Runtime \in WholeSeconds /\ Runtime \in Nat
      /\ delay \in WholeSeconds /\ delay \in Nat /\ said \in Nat /\ said # 0
      /\ stream.offset <= Runtime
  BY ProfileAssumption DEF StreamType, WholeSeconds
<1>2. Runtime - stream.offset \in WholeSeconds
  BY <1>1, SecondsLemma
<1>3. /\ duration \in WholeSeconds /\ duration \in Nat /\ duration # 0
      /\ duration = said \/ (duration = Runtime - stream.offset /\ duration < said)
  BY <1>1, <1>2 DEF TxDuration, Shorter
<1>4. TurnOnTime(rest, stream.offset, duration, delay)
  <2>1. Turns(RepeatedFrom(stream), duration, delay, 0)
    BY <1>1, <1>3, RepeatedLemma
  <2> HIDE DEF duration, delay
  <2> QED
    BY <1>1, <1>3, <2>1, TurnsOnTime
<1> HIDE DEF duration, rest
<1>5. ASSUME NEW t \in Nat
      PROVE  Covered(rest, t) <=> Scheduled(stream, t)
  <2>1. Covered(rest, t) <=> /\ stream.offset <= t /\ t < Runtime
                             /\ (t - stream.offset) % (duration + delay) < duration
    BY <1>4 DEF TurnOnTime
  <2>2. Scheduled(stream, t) <=> /\ stream.offset <= t /\ t < Runtime
                                 /\ (t - stream.offset) % (said + delay) < said
    BY <1>1 DEF Scheduled
  <2>3. CASE duration = said
    BY <2>1, <2>2, <2>3
  <2>4. ASSUME duration = Runtime - stream.offset, duration < said,
               stream.offset <= t, t < Runtime
        PROVE  /\ (t - stream.offset) % (duration + delay) < duration
               /\ (t - stream.offset) % (said + delay) < said
    <3> DEFINE since == t - stream.offset
               short == duration + delay
               long == said + delay
    <3>1. /\ since \in Nat /\ since < duration /\ since < said /\ since < short /\ since < long
          /\ short \in Nat /\ short # 0 /\ long \in Nat /\ long # 0
      BY <1>1, <1>3, <2>4
    <3> HIDE DEF since, short, long
    <3>2. since % short = since /\ since % long = since
      BY <3>1, PeriodLemma
    <3> QED
      BY <3>1, <3>2 DEF since, short, long
  <2> QED
    BY <1>3, <2>1, <2>2, <2>3, <2>4
<1>6. PausesOf(rest, delay)
  BY <1>4 DEF TurnOnTime
<1>7. PausesOf(rest, m)
  <2>1. rest \in Seq(TrialSegment)
    BY <1>4 DEF TurnOnTime, Timeline
  <2>2. \A k \in 1..(Len(rest) - 1) : rest[k].duration \in Nat
    BY <2>1 DEF TrialSegment
  <2> QED
    BY <1>1, <1>6, <2>2 DEF PausesOf
<1> QED
  BY <1>1, <1>4, <1>5, <1>7 DEF TurnOnTime, SegmentsOnTime, rest

\* All segments of a stream.
LEMMA BuiltOnTime ==
  ASSUME NEW stream \in StreamType, stream.offset < Runtime, NEW m \in Nat,
         stream.offset = 0 \/ stream.offset >= m, stream.repeat => stream.repeat_delay >= m
  PROVE  LET segments == build_stream_segments(stream)
         IN  SegmentsOnTime(segments, stream, m) /\ segments[1].offset = 0
<1> DEFINE over == stream.offset + TxDuration(stream)
           rest == IF stream.repeat THEN RepeatedFrom(stream)[stream.offset]
                   ELSE <<Segment("tx", TxDuration(stream), stream.offset)>>
                          \o IF over < Runtime THEN <<Segment("null", Runtime - over, over)>> ELSE <<>>
           before == Segment("null", stream.offset, 0)
           one == <<before>>
           all == IF stream.offset > 0 THEN one \o rest ELSE rest
<1>0. stream.offset \in Nat /\ Runtime \in Nat /\ 0 \in WholeSeconds
  BY ProfileAssumption DEF StreamType, WholeSeconds
<1>1. build_stream_segments(stream) = all
  <2>1. CASE stream.offset > 0
    BY <2>1 DEF build_stream_segments
  <2>2. CASE ~(stream.offset > 0)
    <3>1. \E S : rest \in Seq(S)
      <4>1. CASE stream.repeat
        BY <4>1, RepeatingOnTime DEF SegmentsOnTime, Timeline
      <4>2. CASE ~stream.repeat
        BY <4>2, SingleOnTime DEF SegmentsOnTime, Timeline
      <4> QED
        BY <4>1, <4>2
    <3>2. build_stream_segments(stream) = <<>> \o rest
      BY <2>2 DEF build_stream_segments
    <3> HIDE DEF rest
    <3>3. <<>> \o rest = rest
      BY <3>1
    <3> QED
      BY <2>2, <3>2, <3>3
  <2> QED
    BY <2>1, <2>2
<1>2. SegmentsOnTime(rest, stream, m) /\ rest[1].type = "tx" /\ rest[1].offset = stream.offset
  <2>1. CASE stream.repeat
    BY <2>1, RepeatingOnTime
  <2>2. CASE ~stream.repeat
    BY <2>2, SingleOnTime
  <2> QED
    BY <2>1, <2>2
<1> HIDE DEF rest
<1>3. CASE stream.offset > 0
  <2>1. /\ before \in TrialSegment /\ before.type = "null" /\ before.offset = 0
        /\ before.duration = stream.offset /\ EndOf(before) = stream.offset
        /\ \A t \in Nat : ~Covers(before, t)
    BY <1>0, TrialSegmentLemma
  <2> HIDE DEF before
  <2>2. /\ Timeline(one) /\ PausesOf(one, m) /\ Len(one) = 1 /\ one[1] = before
        /\ \A t \in Nat : Covered(one, t) <=> Covers(before, t)
    BY <2>1, TimelineOne
  <2>3. all = one \o rest
    BY <1>3
  <2> HIDE DEF one, all
  <2>4. /\ Len(rest) # 0 => /\ Follows(one[Len(one)], rest[1])
                            /\ one[Len(one)].type = "null" => one[Len(one)].duration >= m
        /\ Len(one) # 0
    BY <1>2, <1>3, <2>1, <2>2 DEF Follows
  <2>5. Timeline(rest) /\ PausesOf(rest, m)
    BY <1>2 DEF SegmentsOnTime
  <2>6. /\ Timeline(all) /\ PausesOf(all, m) /\ Len(all) # 0 /\ all[1] = before
        /\ \A t \in Nat : Covered(all, t) <=> Covered(one, t) \/ Covered(rest, t)
    BY <2>2, <2>3, <2>4, <2>5, TimelineJoin
  <2>7. \A t \in Nat : Covered(all, t) <=> Scheduled(stream, t)
    BY <1>2, <2>1, <2>2, <2>6 DEF SegmentsOnTime
  <2> QED
    BY <1>1, <2>1, <2>6, <2>7 DEF SegmentsOnTime
<1>4. CASE ~(stream.offset > 0)
  BY <1>0, <1>1, <1>2, <1>4
<1> QED
  BY <1>3, <1>4

-----------------------------------------------------------------------------
(* What is measured of a timeline.                                         *)

\* Of things that end before the next begins, each ends before all that follow.
LEMMA OrderLemma ==
  ASSUME NEW n \in Nat, NEW begin \in [1..n -> Int], NEW end \in [1..n -> Int],
         \A k \in 1..n : begin[k] <= end[k],
         \A k \in 1..(n - 1) : end[k] <= begin[k + 1]
  PROVE  \A j, k \in 1..n : j < k => end[j] <= begin[k]
<1> DEFINE bad == {k \in 1..n : \E j \in 1..n : j < k /\ ~(end[j] <= begin[k])}
<1>1. bad = {}
  <2> SUFFICES ASSUME bad # {} PROVE FALSE
    OBVIOUS
  <2>1. PICK k \in bad : \A l \in bad : k <= l
    <3>1. bad \in SUBSET Nat
      OBVIOUS
    <3> HIDE DEF bad
    <3> QED
      BY <3>1, SmallestLemma
  <2>2. PICK j \in 1..n : k \in 1..n /\ j < k /\ ~(end[j] <= begin[k])
    BY <2>1
  <2>3. k - 1 \in 1..n /\ k - 1 \in 1..(n - 1) /\ (k - 1) + 1 = k /\ ~(k <= k - 1)
    BY <2>2
  <2> HIDE DEF bad
  <2>4. begin[k - 1] <= end[k - 1] /\ end[k - 1] <= begin[k]
    BY <2>3
  <2>5. CASE j = k - 1
    BY <2>2, <2>4, <2>5
  <2>6. CASE j # k - 1
    <3>1. j < k - 1
      BY <2>2, <2>3, <2>6
    <3>2. k - 1 \notin bad
      BY <2>1, <2>3
    <3>3. end[j] <= begin[k - 1]
      BY <2>2, <2>3, <3>1, <3>2 DEF bad
    <3> QED
      BY <2>2, <2>3, <2>4, <3>3
  <2> QED
    BY <2>5, <2>6
<1> QED
  BY <1>1

\* Segments are over before later ones begin, so a moment is in one segment.
LEMMA TimelineOrder ==
  ASSUME NEW segments, Timeline(segments)
  PROVE  /\ \A j, k \in 1..Len(segments) : j < k => EndOf(segments[j]) <= segments[k].offset
         /\ \A j, k \in 1..Len(segments), t \in Nat :
              /\ segments[j].offset <= t /\ t < EndOf(segments[j])
              /\ segments[k].offset <= t /\ t < EndOf(segments[k])
              => j = k
<1> DEFINE n == Len(segments)
           begin == [k \in 1..n |-> segments[k].offset]
           end == [k \in 1..n |-> EndOf(segments[k])]
<1>1. segments \in Seq(TrialSegment) /\ n \in Nat
  BY DEF Timeline
<1>2. ASSUME NEW k \in 1..n
      PROVE  /\ segments[k].offset \in Nat /\ EndOf(segments[k]) \in Nat
             /\ segments[k].offset <= EndOf(segments[k])
  <2>1. segments[k] \in TrialSegment
    BY <1>1
  <2> QED
    BY <2>1 DEF TrialSegment, EndOf
<1>3. \A k \in 1..(n - 1) : k \in 1..n /\ k + 1 \in 1..n /\ segments[k + 1].offset = EndOf(segments[k])
  BY <1>1 DEF Timeline, Follows
<1>4. /\ begin \in [1..n -> Int] /\ end \in [1..n -> Int]
      /\ \A k \in 1..n : begin[k] <= end[k]
      /\ \A k \in 1..(n - 1) : end[k] <= begin[k + 1]
  <2>1. begin \in [1..n -> Int] /\ end \in [1..n -> Int]
    BY <1>2
  <2>2. \A k \in 1..n : begin[k] <= end[k]
    BY <1>2
  <2>3. ASSUME NEW k \in 1..(n - 1)
        PROVE  end[k] <= begin[k + 1]
    <3>1. k \in 1..n /\ k + 1 \in 1..n /\ segments[k + 1].offset = EndOf(segments[k])
      BY <1>3
    <3>2. end[k] = EndOf(segments[k]) /\ begin[k + 1] = segments[k + 1].offset
      BY <3>1
    <3>3. EndOf(segments[k]) \in Nat
      BY <1>2, <3>1
    <3> HIDE DEF begin, end
    <3> QED
      BY <3>1, <3>2, <3>3
  <2> QED
    BY <2>1, <2>2, <2>3
<1>5. \A j, k \in 1..n : j < k => EndOf(segments[j]) <= segments[k].offset
  <2> HIDE DEF n
  <2>1. \A j, k \in 1..n : j < k => end[j] <= begin[k]
    <3> HIDE DEF begin, end
    <3> QED
      BY <1>1, <1>4, OrderLemma
  <2> QED
    BY <2>1
<1>6. ASSUME NEW j \in 1..n, NEW k \in 1..n, NEW t \in Nat,
             segments[j].offset <= t, t < EndOf(segments[j]),
             segments[k].offset <= t, t < EndOf(segments[k])
      PROVE  j = k
  <2>1. ~(j < k)
    BY <1>2, <1>5, <1>6
  <2>2. ~(k < j)
    BY <1>2, <1>5, <1>6
  <2> QED
    BY <1>1, <2>1, <2>2
<1> QED
  BY <1>5, <1>6

\* What is measured: transmissions one behind the other, each behind its gap,
\* and at the end perhaps a pause.
MeasuredTimeline(segments) ==
  /\ segments \in Seq(SegmentType)
  /\ \A k \in 1..Len(segments) :
       /\ {segments[k].offset, segments[k].isg, segments[k].duration} \subseteq Nat
       /\ segments[k].type = "tx" => segments[k].duration \in WholeSeconds \ {0}
  /\ Len(segments) # 0 => segments[1].offset = 0
  /\ \A k \in 1..(Len(segments) - 1) :
       segments[k].type = "tx" /\ segments[k + 1].offset = EndOf(segments[k])

\* The gap is the pause before.
LEMMA GapOnTime ==
  ASSUME NEW segments, Timeline(segments), NEW k \in 1..Len(segments)
  PROVE  LET s == WithGap(segments, k)
         IN  /\ s \in SegmentType /\ s.type = segments[k].type
             /\ {s.offset, s.isg, s.duration} \subseteq Nat
             /\ s.duration = segments[k].duration
             /\ s.offset + s.isg = segments[k].offset /\ EndOf(s) = EndOf(segments[k])
             /\ \A t \in Nat : Covers(s, t) <=> Covers(segments[k], t)
             /\ s.offset = IF Precedes(segments, k - 1) THEN segments[k - 1].offset
                           ELSE segments[k].offset
<1> DEFINE s == WithGap(segments, k)
<1>1. segments \in Seq(TrialSegment) /\ segments[k] \in TrialSegment /\ segments[k] \in SegmentType
      /\ segments \in Seq(SegmentType)
  <2>1. segments \in Seq(TrialSegment) /\ segments[k] \in TrialSegment
    BY DEF Timeline
  <2>2. TrialSegment \subseteq SegmentType
    BY DEF TrialSegment
  <2> QED
    BY <2>1, <2>2
<1>2. CASE ~Precedes(segments, k - 1)
  <2>1. s = segments[k]
    BY <1>2 DEF WithGap
  <2> HIDE DEF s
  <2>2. s.offset \in Nat /\ s.isg = 0 /\ s.duration \in Nat
    BY <1>1, <2>1 DEF TrialSegment
  <2>3. s.offset + s.isg = s.offset
    BY <2>2
  <2> QED
    BY <1>1, <1>2, <2>1, <2>2, <2>3 DEF s
<1>3. CASE Precedes(segments, k - 1)
  <2> DEFINE pause == segments[k - 1]
             given == segments[k]
  <2>1. k - 1 \in 1..(Len(segments) - 1) /\ pause \in TrialSegment /\ Follows(pause, given)
    <3>1. k - 1 \in 1..(Len(segments) - 1) /\ k - 1 \in 1..Len(segments) /\ (k - 1) + 1 = k
      BY <1>1, <1>3 DEF Precedes
    <3> QED
      BY <1>1, <3>1 DEF Timeline
  <2>2. /\ pause.offset \in Nat /\ pause.duration \in Nat /\ pause.isg = 0
        /\ given.offset \in Nat /\ given.duration \in Nat /\ given.isg = 0
        /\ given.offset = pause.offset + pause.duration
    BY <1>1, <2>1 DEF TrialSegment, Follows, EndOf
  <2>3. s = [given EXCEPT !.isg = pause.duration, !.offset = given.offset - pause.duration]
    BY <1>3 DEF WithGap
  <2>4. given \in SegmentType
    BY <1>1
  <2> HIDE DEF s, pause, given
  <2>5. /\ s.isg = pause.duration /\ s.offset = given.offset - pause.duration
        /\ s.duration = given.duration /\ s.type = given.type
    BY <2>3, <2>4 DEF SegmentType
  <2>6. s.offset = pause.offset /\ s.offset + s.isg = given.offset
    BY <2>2, <2>5
  <2>7. EndOf(s) = EndOf(given)
    BY <2>2, <2>5, <2>6 DEF EndOf
  <2>8. \A t \in Nat : Covers(s, t) <=> Covers(given, t)
    BY <2>2, <2>5, <2>6, <2>7 DEF Covers
  <2>9. s \in SegmentType
    BY <1>1, GapLemma DEF s
  <2> QED
    BY <1>3, <2>2, <2>5, <2>6, <2>7, <2>8, <2>9 DEF s, given, pause
<1> QED
  BY <1>2, <1>3

\* The segments that are measured, in their order, are all but the pauses
\* before transmissions.
Kept(segments, kept, block) ==
  /\ block \in [1..Len(kept) -> 1..Len(segments)]
  /\ \A p \in 1..Len(kept) : ~Precedes(segments, block[p]) /\ kept[p] = WithGap(segments, block[p])
  /\ \A p, q \in 1..Len(kept) : p < q => block[p] < block[q]
  /\ \A k \in 1..Len(segments) : ~Precedes(segments, k) => \E p \in 1..Len(kept) : block[p] = k

\* build_measurement_segments() keeps them so.
LEMMA KeptLemma ==
  ASSUME NEW segments \in Seq(SegmentType)
  PROVE  /\ build_measurement_segments(segments) \in Seq(SegmentType)
         /\ \E block : Kept(segments, build_measurement_segments(segments), block)
<1> DEFINE parts == [k \in DOMAIN segments |->
                       IF Precedes(segments, k) THEN <<>> ELSE <<WithGap(segments, k)>>]
           flat == build_measurement_segments(segments)
<1>0. DOMAIN segments = 1..Len(segments) /\ Len(segments) \in Nat
  OBVIOUS
<1>1. /\ parts \in Seq(Seq(SegmentType)) /\ Len(parts) = Len(segments)
  <2>1. \A k \in 1..Len(segments) : parts[k] \in Seq(SegmentType)
    BY <1>0, GapLemma
  <2>2. parts = [k \in 1..Len(segments) |-> parts[k]]
    BY <1>0
  <2> HIDE DEF parts
  <2> QED
    BY <1>0, <2>1, <2>2
<1>2. \A k \in 1..Len(segments) :
        /\ Precedes(segments, k) => Len(parts[k]) = 0
        /\ ~Precedes(segments, k) => Len(parts[k]) = 1 /\ parts[k][1] = WithGap(segments, k)
  BY <1>0
<1>3. flat = FlattenSeq(parts)
  BY DEF build_measurement_segments
<1> HIDE DEF parts, flat
<1>4. flat \in Seq(SegmentType) /\ \E block, at : LaidOut(flat, parts, Len(parts), block, at)
  BY <1>1, <1>3, FlattenLemma
<1>5. PICK block, at : LaidOut(flat, parts, Len(parts), block, at)
  BY <1>4
<1>6. \A p \in 1..Len(flat) :
        /\ block[p] \in 1..Len(segments) /\ at[p] = 1
        /\ ~Precedes(segments, block[p]) /\ flat[p] = WithGap(segments, block[p])
  <2> TAKE p \in 1..Len(flat)
  <2>1. /\ block[p] \in 1..Len(segments) /\ at[p] \in 1..Len(parts[block[p]])
        /\ flat[p] = parts[block[p]][at[p]]
    BY <1>1, <1>5 DEF LaidOut
  <2>2. Len(parts[block[p]]) # 0
    BY <2>1
  <2> QED
    BY <1>2, <2>1, <2>2
<1>7. \A p, q \in 1..Len(flat) : p < q => block[p] < block[q]
  <2> TAKE p, q \in 1..Len(flat)
  <2> HAVE p < q
  <2>1. block[p] < block[q] \/ at[p] < at[q]
    BY <1>5 DEF LaidOut
  <2> QED
    BY <1>6, <2>1
<1>8. ASSUME NEW k \in 1..Len(segments), ~Precedes(segments, k)
      PROVE  \E p \in 1..Len(flat) : block[p] = k
  <2>1. 1 \in 1..Len(parts[k])
    BY <1>2, <1>8
  <2> QED
    BY <1>1, <1>5, <2>1 DEF LaidOut
<1>9. block \in [1..Len(flat) -> 1..Len(segments)]
  BY <1>1, <1>5 DEF LaidOut
<1>10. Kept(segments, flat, block)
  BY <1>6, <1>7, <1>8, <1>9 DEF Kept
<1> QED
  BY <1>4, <1>10 DEF flat

\* The next one kept is the next segment, or the one behind a pause.
LEMMA NextKept ==
  ASSUME NEW segments, Timeline(segments), NEW kept \in Seq(SegmentType), NEW block,
         Kept(segments, kept, block), NEW p \in 0..(Len(kept) - 1), NEW b \in 0..(Len(segments) - 1),
         IF p = 0 THEN b = 0 ELSE block[p] = b
  PROVE  block[p + 1] = IF Precedes(segments, b + 1) THEN b + 2 ELSE b + 1
<1> DEFINE next == IF Precedes(segments, b + 1) THEN b + 2 ELSE b + 1
<1>1. /\ segments \in Seq(TrialSegment) /\ Len(segments) \in Nat /\ Len(kept) \in Nat
      /\ p + 1 \in 1..Len(kept) /\ b + 1 \in 1..Len(segments)
      /\ p \in Nat /\ b \in Nat
  BY DEF Timeline
<1>2. next \in 1..Len(segments) /\ ~Precedes(segments, next)
  <2>1. CASE Precedes(segments, b + 1)
    <3>1. b + 2 \in 1..Len(segments) /\ segments[(b + 1) + 1].type = "tx" /\ (b + 1) + 1 = b + 2
      BY <1>1, <2>1 DEF Precedes
    <3>2. ~Precedes(segments, b + 2)
      BY <3>1 DEF Precedes
    <3> QED
      BY <2>1, <3>1, <3>2
  <2>2. CASE ~Precedes(segments, b + 1)
    BY <1>1, <2>2
  <2> QED
    BY <2>1, <2>2
<1>3. PICK q \in 1..Len(kept) : block[q] = next
  BY <1>2 DEF Kept
<1>4. block[p + 1] \in Nat /\ b < block[p + 1] /\ ~Precedes(segments, block[p + 1])
  <2>1. block[p + 1] \in 1..Len(segments) /\ ~Precedes(segments, block[p + 1])
    BY <1>1 DEF Kept
  <2>2. CASE p = 0
    BY <1>1, <2>1, <2>2
  <2>3. CASE p # 0
    <3>1. p \in 1..Len(kept) /\ p < p + 1
      BY <1>1, <2>3
    <3>2. block[p] < block[p + 1]
      BY <1>1, <3>1 DEF Kept
    <3> QED
      BY <2>1, <2>3, <3>2
  <2> QED
    BY <2>2, <2>3
<1>5. next <= block[p + 1]
  BY <1>1, <1>4
<1>6. block[p + 1] <= next
  <2>1. p < q
    <3>1. CASE p = 0
      BY <1>1, <3>1
    <3>2. ASSUME p # 0, q = p PROVE FALSE
      BY <1>1, <1>3, <3>2
    <3>3. ASSUME p # 0, q < p PROVE FALSE
      <4>1. p \in 1..Len(kept)
        BY <1>1, <3>3
      <4>2. block[q] < block[p]
        BY <3>3, <4>1 DEF Kept
      <4> QED
        BY <1>1, <1>3, <3>3, <4>2
    <3> QED
      BY <1>1, <3>1, <3>2, <3>3
  <2>2. CASE q = p + 1
    BY <1>1, <1>3, <1>4, <2>2
  <2>3. CASE q # p + 1
    <3>1. p + 1 < q
      BY <1>1, <2>1, <2>3
    <3>2. block[p + 1] < block[q]
      BY <1>1, <3>1 DEF Kept
    <3> QED
      BY <1>2, <1>3, <1>4, <3>2
  <2> QED
    BY <2>2, <2>3
<1> QED
  BY <1>2, <1>4, <1>5, <1>6

\* What is measured goes on as the timeline does and covers what it covers.
LEMMA MeasuredOnTime ==
  ASSUME NEW segments, Timeline(segments), Len(segments) # 0, segments[1].offset = 0
  PROVE  LET measured == build_measurement_segments(segments)
         IN  /\ MeasuredTimeline(measured) /\ Len(measured) # 0
             /\ \A t \in Nat : Covered(measured, t) <=> Covered(segments, t)
<1> DEFINE kept == build_measurement_segments(segments)
<1>1. segments \in Seq(TrialSegment) /\ segments \in Seq(SegmentType) /\ Len(segments) \in Nat
  <2>1. segments \in Seq(TrialSegment)
    BY DEF Timeline
  <2>2. TrialSegment \subseteq SegmentType
    BY DEF TrialSegment
  <2> QED
    BY <2>1, <2>2
<1>2. kept \in Seq(SegmentType) /\ \E block : Kept(segments, kept, block)
  BY <1>1, KeptLemma
<1> HIDE DEF kept
<1>3. PICK block : Kept(segments, kept, block)
  BY <1>2
<1>4. \A p \in 1..Len(kept) : /\ block[p] \in 1..Len(segments) /\ ~Precedes(segments, block[p])
                              /\ kept[p] = WithGap(segments, block[p])
  BY <1>3 DEF Kept
<1>5. ASSUME NEW p \in 1..Len(kept)
      PROVE  LET b == block[p]
             IN  /\ kept[p].type = segments[b].type
                 /\ {kept[p].offset, kept[p].isg, kept[p].duration} \subseteq Nat
                 /\ kept[p].duration = segments[b].duration
                 /\ EndOf(kept[p]) = EndOf(segments[b])
                 /\ \A t \in Nat : Covers(kept[p], t) <=> Covers(segments[b], t)
                 /\ kept[p].offset = IF Precedes(segments, b - 1) THEN segments[b - 1].offset
                                     ELSE segments[b].offset
  <2> DEFINE b == block[p]
  <2>1. b \in 1..Len(segments) /\ kept[p] = WithGap(segments, b)
    BY <1>4
  <2> HIDE DEF b
  <2>2. LET s == WithGap(segments, b)
        IN  /\ s.type = segments[b].type
            /\ {s.offset, s.isg, s.duration} \subseteq Nat
            /\ s.duration = segments[b].duration
            /\ EndOf(s) = EndOf(segments[b])
            /\ \A t \in Nat : Covers(s, t) <=> Covers(segments[b], t)
            /\ s.offset = IF Precedes(segments, b - 1) THEN segments[b - 1].offset
                          ELSE segments[b].offset
    BY <2>1, GapOnTime
  <2> QED
    BY <2>1, <2>2 DEF b
<1>6. \A p \in 1..Len(kept) : kept[p].type = "tx" => kept[p].duration \in WholeSeconds \ {0}
  <2> TAKE p \in 1..Len(kept)
  <2>1. block[p] \in 1..Len(segments) /\ segments[block[p]] \in TrialSegment
    BY <1>1, <1>4
  <2> QED
    BY <1>5, <2>1 DEF TrialSegment
<1>7. ASSUME NEW p \in 0..(Len(kept) - 1), NEW b \in 0..(Len(segments) - 1),
             IF p = 0 THEN b = 0 ELSE block[p] = b
      PROVE  kept[p + 1].offset = segments[b + 1].offset
  <2>1. block[p + 1] = IF Precedes(segments, b + 1) THEN b + 2 ELSE b + 1
    BY <1>2, <1>3, <1>7, NextKept
  <2>2. p + 1 \in 1..Len(kept) /\ b \in Nat
    BY <1>2
  <2>3. CASE Precedes(segments, b + 1)
    <3>1. block[p + 1] = b + 2 /\ (b + 2) - 1 = b + 1
      BY <2>1, <2>2, <2>3
    <3> QED
      BY <1>5, <2>2, <2>3, <3>1
  <2>4. CASE ~Precedes(segments, b + 1)
    <3>1. block[p + 1] = b + 1 /\ (b + 1) - 1 = b
      BY <2>1, <2>2, <2>4
    <3>2. ~Precedes(segments, b)
      <4>1. CASE p = 0
        BY <1>7, <4>1 DEF Precedes
      <4>2. CASE p # 0
        <5>1. p \in 1..Len(kept)
          BY <1>2, <4>2
        <5> QED
          BY <1>4, <1>7, <4>2, <5>1
      <4> QED
        BY <4>1, <4>2
    <3> QED
      BY <1>5, <2>2, <3>1, <3>2
  <2> QED
    BY <2>3, <2>4
<1>8. Len(kept) # 0
  <2>1. Len(segments) \in 1..Len(segments) /\ ~Precedes(segments, Len(segments))
    BY <1>1 DEF Precedes
  <2>2. \E p \in 1..Len(kept) : TRUE
    BY <1>3, <2>1 DEF Kept
  <2>3. 1..0 = {}
    OBVIOUS
  <2> QED
    BY <2>2, <2>3
<1>9. kept[1].offset = 0
  <2>1. 0 \in 0..(Len(kept) - 1) /\ 0 \in 0..(Len(segments) - 1) /\ 0 + 1 = 1
    BY <1>1, <1>2, <1>8
  <2>2. kept[0 + 1].offset = segments[0 + 1].offset
    BY <1>7, <2>1
  <2> QED
    BY <2>1, <2>2
<1>10. ASSUME NEW p \in 1..(Len(kept) - 1)
       PROVE  kept[p].type = "tx" /\ kept[p + 1].offset = EndOf(kept[p])
  <2> DEFINE b == block[p]
  <2>1. /\ p \in 1..Len(kept) /\ p + 1 \in 1..Len(kept) /\ p < p + 1 /\ p # 0
        /\ p \in 0..(Len(kept) - 1)
    BY <1>2
  <2>2. b \in 1..Len(segments) /\ block[p + 1] \in 1..Len(segments) /\ b < block[p + 1]
    BY <1>4, <1>3, <2>1 DEF Kept
  <2>3. b \in 1..(Len(segments) - 1) /\ b \in 0..(Len(segments) - 1)
    BY <1>1, <2>2
  <2>4. Follows(segments[b], segments[b + 1])
    BY <2>3 DEF Timeline
  <2>5. kept[p + 1].offset = EndOf(kept[p])
    BY <1>5, <1>7, <2>1, <2>3, <2>4 DEF Follows
  <2>6. segments[b].type = "tx"
    <3>1. /\ segments[b].type \in {"tx", "null"} /\ segments[b + 1].type \in {"tx", "null"}
      <4>1. b \in 1..Len(segments) /\ b + 1 \in 1..Len(segments)
        BY <1>1, <2>3
      <4>2. segments[b] \in SegmentType /\ segments[b + 1] \in SegmentType
        BY <1>1, <4>1
      <4> QED
        BY <4>2 DEF SegmentType
    <3>2. ~Precedes(segments, b)
      BY <1>4, <2>1
    <3> QED
      BY <2>3, <2>4, <3>1, <3>2 DEF Precedes, Follows
  <2> QED
    BY <1>5, <2>1, <2>5, <2>6
<1>11. MeasuredTimeline(kept)
  BY <1>2, <1>5, <1>6, <1>9, <1>10 DEF MeasuredTimeline
<1>12. ASSUME NEW t \in Nat
       PROVE  Covered(kept, t) <=> Covered(segments, t)
  <2>1. ASSUME NEW p \in 1..Len(kept), Covers(kept[p], t)
        PROVE  Covered(segments, t)
    BY <1>4, <1>5, <2>1 DEF Covered
  <2>2. ASSUME NEW k \in 1..Len(segments), Covers(segments[k], t)
        PROVE  Covered(kept, t)
    <3>1. ~Precedes(segments, k)
      BY <2>2 DEF Covers, Precedes
    <3>2. PICK p \in 1..Len(kept) : block[p] = k
      BY <1>3, <3>1 DEF Kept
    <3> QED
      BY <1>5, <2>2, <3>2 DEF Covered
  <2> QED
    BY <2>1, <2>2 DEF Covered
<1> QED
  BY <1>8, <1>11, <1>12 DEF kept

-----------------------------------------------------------------------------
(* Repetitions.                                                            *)

\* A stream starts within the trial, behind a pause of some length if any.
Spaced(stream, m) ==
  /\ stream \in StreamType /\ stream.offset < Runtime
  /\ stream.offset = 0 \/ stream.offset >= m
  /\ stream.repeat => stream.repeat_delay >= m

\* The stream of a single transmission of another.
BurstOf(stream, s) ==
  [stream EXCEPT !.repeat = FALSE, !.repeat_flows = TRUE, !.duration = s.duration, !.offset = s.offset]

\* It transmits when that transmission does.
LEMMA BurstLemma ==
  ASSUME NEW stream \in StreamType, NEW s \in TrialSegment, s.type = "tx", NEW m,
         s.offset = 0 \/ s.offset >= m
  PROVE  /\ Spaced(BurstOf(stream, s), m)
         /\ \A t \in Nat : Scheduled(BurstOf(stream, s), t) <=> Covers(s, t)
<1> DEFINE b == BurstOf(stream, s)
<1>1. /\ s.offset \in Nat /\ s.offset % Second = 0 /\ s.isg = 0
      /\ s.duration \in Nat /\ s.duration \in WholeSeconds /\ s.duration # 0
      /\ s.offset + s.duration <= Runtime /\ EndOf(s) = s.offset + s.duration /\ Runtime \in Nat
  BY ProfileAssumption DEF TrialSegment, EndOf
<1>2. /\ b.repeat = FALSE /\ b.duration = s.duration /\ b.offset = s.offset
      /\ b \in StreamType
  <2>1. /\ b.frame_type = stream.frame_type /\ b.protocols = stream.protocols
        /\ b.rate = stream.rate
    BY DEF StreamType, BurstOf
  <2>2. b.rate % Sharers(b) = 0
    BY <2>1 DEF StreamType, Sharers, PacketCount
  <2> QED
    BY <1>1, <2>2 DEF StreamType, WholeSeconds, BurstOf
<1> HIDE DEF b
<1>3. Spaced(b, m)
  BY <1>1, <1>2 DEF Spaced
<1>4. ASSUME NEW t \in Nat
      PROVE  Scheduled(b, t) <=> Covers(s, t)
  BY <1>1, <1>2 DEF Scheduled, Covers
<1> QED
  BY <1>3, <1>4 DEF b

\* The transmissions of a timeline, in their order.
Bursts(bursts, segments, stream, block) ==
  /\ block \in [DOMAIN bursts -> 1..Len(segments)]
  /\ \A r \in DOMAIN bursts :
       segments[block[r]].type = "tx" /\ bursts[r] = BurstOf(stream, segments[block[r]])
  /\ \A r, s \in DOMAIN bursts : block[r] = block[s] => r = s
  /\ \A k \in 1..Len(segments) : segments[k].type = "tx" => \E r \in DOMAIN bursts : block[r] = k

\* A stream is taken apart into the transmissions of its segments.
LEMMA BurstsLemma ==
  ASSUME NEW stream, stream.repeat, ~stream.repeat_flows,
         build_stream_segments(stream) \in Seq(SegmentType)
  PROVE  \E block : Bursts(Repetitions(stream), build_stream_segments(stream), stream, block)
<1> DEFINE segments == build_stream_segments(stream)
           parts == [k \in DOMAIN segments |->
                       IF segments[k].type = "null" THEN <<>> ELSE <<BurstOf(stream, segments[k])>>]
           S == {BurstOf(stream, segments[k]) : k \in DOMAIN segments}
           flat == Repetitions(stream)
<1>1. flat = FlattenSeq(parts)
  BY DEF Repetitions, BurstOf
<1> HIDE DEF segments
<1>2. /\ segments \in Seq(SegmentType) /\ DOMAIN segments = 1..Len(segments) /\ Len(segments) \in Nat
      /\ \A k \in 1..Len(segments) : segments[k].type \in {"tx", "null"}
  <2>1. segments \in Seq(SegmentType)
    BY DEF segments
  <2>2. \A s \in SegmentType : s.type \in {"tx", "null"}
    BY DEF SegmentType
  <2>3. \A k \in 1..Len(segments) : segments[k] \in SegmentType
    BY <2>1
  <2> QED
    BY <2>1, <2>2, <2>3
<1>3. parts \in Seq(Seq(S)) /\ Len(parts) = Len(segments)
  <2>1. \A k \in 1..Len(segments) : BurstOf(stream, segments[k]) \in S
    BY <1>2
  <2> HIDE DEF S
  <2>2. \A k \in 1..Len(segments) : parts[k] \in Seq(S)
    BY <1>2, <2>1
  <2>3. parts = [k \in 1..Len(segments) |-> parts[k]]
    BY <1>2
  <2> HIDE DEF parts
  <2> QED
    BY <1>2, <2>2, <2>3
<1>4. \A k \in 1..Len(segments) :
        /\ segments[k].type = "null" => Len(parts[k]) = 0
        /\ segments[k].type = "tx" => Len(parts[k]) = 1 /\ parts[k][1] = BurstOf(stream, segments[k])
  BY <1>2
<1> HIDE DEF parts, S, flat
<1>5. flat \in Seq(S) /\ \E block, at : LaidOut(flat, parts, Len(parts), block, at)
  BY <1>1, <1>3, FlattenLemma
<1>6. PICK block, at : LaidOut(flat, parts, Len(parts), block, at)
  BY <1>5
<1>7. DOMAIN flat = 1..Len(flat) /\ Len(flat) \in Nat
  BY <1>5
<1>8. \A p \in 1..Len(flat) :
        /\ block[p] \in 1..Len(segments) /\ at[p] = 1 /\ segments[block[p]].type = "tx"
        /\ flat[p] = BurstOf(stream, segments[block[p]])
  <2> TAKE p \in 1..Len(flat)
  <2>1. /\ block[p] \in 1..Len(segments) /\ at[p] \in 1..Len(parts[block[p]])
        /\ flat[p] = parts[block[p]][at[p]]
    BY <1>3, <1>6 DEF LaidOut
  <2>2. Len(parts[block[p]]) # 0
    BY <2>1
  <2> QED
    BY <1>2, <1>4, <2>1, <2>2
<1>9. ASSUME NEW p \in 1..Len(flat), NEW q \in 1..Len(flat), block[p] = block[q]
      PROVE  p = q
  <2>1. block[p] \in Nat /\ at[p] = 1 /\ at[q] = 1
    BY <1>8
  <2>2. ~(p < q)
    BY <1>6, <1>9, <2>1 DEF LaidOut
  <2>3. ~(q < p)
    BY <1>6, <1>9, <2>1 DEF LaidOut
  <2> QED
    BY <2>2, <2>3
<1>10. ASSUME NEW k \in 1..Len(segments), segments[k].type = "tx"
       PROVE  \E p \in 1..Len(flat) : block[p] = k
  <2>1. 1 \in 1..Len(parts[k])
    BY <1>4, <1>10
  <2> QED
    BY <1>3, <1>6, <2>1 DEF LaidOut
<1>11. block \in [1..Len(flat) -> 1..Len(segments)]
  BY <1>3, <1>6 DEF LaidOut
<1>12. Bursts(flat, segments, stream, block)
  BY <1>7, <1>8, <1>9, <1>10, <1>11 DEF Bursts
<1> QED
  BY <1>12 DEF flat, segments

\* The repetitions share the time of the stream.
Shared(reps, stream, m) ==
  /\ DOMAIN reps = 1..Len(reps) /\ Len(reps) \in Nat
  /\ \A r \in DOMAIN reps : Spaced(reps[r], m)
  /\ \A t \in Nat : Scheduled(stream, t) <=> \E r \in DOMAIN reps : Scheduled(reps[r], t)
  /\ \A t \in Nat, r, s \in DOMAIN reps : Scheduled(reps[r], t) /\ Scheduled(reps[s], t) => r = s

\* They do, whether the stream is taken apart or not.
LEMMA RepetitionsOnTime ==
  ASSUME NEW stream, NEW m \in Nat, Spaced(stream, m)
  PROVE  Shared(Repetitions(stream), stream, m)
<1>0. stream \in StreamType
  BY DEF Spaced
<1>1. CASE ~stream.repeat \/ stream.repeat_flows
  <2>1. Repetitions(stream) = <<stream>>
    BY <1>1 DEF Repetitions
  <2> DEFINE one == <<stream>>
  <2>2. Len(one) = 1 /\ DOMAIN one = 1..1 /\ one[1] = stream
    OBVIOUS
  <2> HIDE DEF one
  <2>3. 1..1 = {1}
    OBVIOUS
  <2>4. Shared(one, stream, m)
    BY <2>2, <2>3 DEF Shared
  <2> QED
    BY <2>1, <2>4 DEF one
<1>2. CASE ~(~stream.repeat \/ stream.repeat_flows)
  <2> DEFINE segments == build_stream_segments(stream)
             reps == Repetitions(stream)
  <2>1. SegmentsOnTime(segments, stream, m) /\ segments[1].offset = 0
    BY BuiltOnTime DEF Spaced
  <2>2. /\ segments \in Seq(TrialSegment) /\ segments \in Seq(SegmentType) /\ Len(segments) \in Nat
        /\ Timeline(segments)
    <3>1. segments \in Seq(TrialSegment) /\ Timeline(segments)
      BY <2>1 DEF SegmentsOnTime, Timeline
    <3>2. TrialSegment \subseteq SegmentType
      BY DEF TrialSegment
    <3> HIDE DEF segments
    <3> QED
      BY <3>1, <3>2
  <2>3. PICK block : Bursts(reps, segments, stream, block)
    BY <1>2, <2>2, BurstsLemma
  <2>4. DOMAIN reps = 1..Len(reps) /\ Len(reps) \in Nat
    BY <1>0, RepetitionsLemma DEF Spaced
  <2> HIDE DEF segments, reps
  <2>5. ASSUME NEW r \in DOMAIN reps
        PROVE  /\ block[r] \in 1..Len(segments) /\ segments[block[r]] \in TrialSegment
               /\ Spaced(reps[r], m)
               /\ \A t \in Nat : Scheduled(reps[r], t) <=> Covers(segments[block[r]], t)
    <3> DEFINE k == block[r]
    <3>1. k \in 1..Len(segments) /\ segments[k].type = "tx" /\ reps[r] = BurstOf(stream, segments[k])
      BY <2>3 DEF Bursts
    <3>2. segments[k] \in TrialSegment
      BY <2>2, <3>1
    <3>3. segments[k].offset = 0 \/ segments[k].offset >= m
      <4>1. CASE k = 1
        BY <2>1, <4>1
      <4>2. CASE k # 1
        <5> DEFINE j == k - 1
        <5>1. j \in 1..(Len(segments) - 1) /\ j \in 1..Len(segments) /\ j + 1 = k
          BY <2>2, <3>1, <4>2
        <5> HIDE DEF j, k
        <5>2. segments[j] \in TrialSegment /\ Follows(segments[j], segments[k])
          <6>1. segments[j] \in TrialSegment
            BY <2>2, <5>1
          <6> QED
            BY <2>2, <5>1, <6>1 DEF Timeline
        <5>3. segments[j].type = "null"
          BY <3>1, <5>2 DEF Follows, TrialSegment, SegmentType
        <5>4. segments[j].duration >= m
          BY <2>1, <5>1, <5>3 DEF SegmentsOnTime, PausesOf
        <5> QED
          BY <5>1, <5>2, <5>4 DEF Follows, EndOf, TrialSegment
      <4> QED
        BY <4>1, <4>2
    <3> QED
      BY <1>0, <3>1, <3>2, <3>3, BurstLemma
  <2>6. ASSUME NEW t \in Nat
        PROVE  Scheduled(stream, t) <=> \E r \in DOMAIN reps : Scheduled(reps[r], t)
    <3>1. Scheduled(stream, t) <=> \E k \in 1..Len(segments) : Covers(segments[k], t)
      BY <2>1 DEF SegmentsOnTime, Covered
    <3>2. ASSUME NEW k \in 1..Len(segments), Covers(segments[k], t)
          PROVE  \E r \in DOMAIN reps : Scheduled(reps[r], t)
      <4>1. segments[k].type = "tx"
        BY <3>2 DEF Covers
      <4>2. PICK r \in DOMAIN reps : block[r] = k
        BY <2>3, <4>1 DEF Bursts
      <4> QED
        BY <2>5, <3>2, <4>2
    <3> QED
      BY <2>5, <3>1, <3>2
  <2>7. ASSUME NEW t \in Nat, NEW r \in DOMAIN reps, NEW s \in DOMAIN reps,
               Scheduled(reps[r], t), Scheduled(reps[s], t)
        PROVE  r = s
    <3>1. /\ Covers(segments[block[r]], t) /\ Covers(segments[block[s]], t)
          /\ block[r] \in 1..Len(segments) /\ block[s] \in 1..Len(segments)
          /\ segments[block[r]].isg = 0 /\ segments[block[s]].isg = 0
          /\ segments[block[r]].offset \in Nat /\ segments[block[s]].offset \in Nat
      BY <2>5, <2>7 DEF TrialSegment
    <3>2. block[r] = block[s]
      BY <2>2, <3>1, TimelineOrder DEF Covers
    <3> QED
      BY <2>3, <3>2 DEF Bursts
  <2>8. Shared(reps, stream, m)
    BY <2>4, <2>5, <2>6, <2>7 DEF Shared
  <2> QED
    BY <2>8 DEF reps
<1> QED
  BY <1>1, <1>2

\* What is measured of a stream, repetition by repetition.
LEMMA StreamOnTime ==
  ASSUME NEW stream \in StreamType, stream.offset < Runtime
  PROVE  LET all == SegmentsOf(stream)
         IN  /\ DOMAIN all = 1..Len(all) /\ Len(all) \in Nat
             /\ \A r \in DOMAIN all : MeasuredTimeline(all[r]) /\ Len(all[r]) # 0
             /\ \A t \in Nat : Scheduled(stream, t) <=> \E r \in DOMAIN all : Covered(all[r], t)
             /\ \A t \in Nat, r, s \in DOMAIN all : Covered(all[r], t) /\ Covered(all[s], t) => r = s
<1> DEFINE all == SegmentsOf(stream)
           reps == Repetitions(stream)
<1>1. Spaced(stream, 0)
  <2>1. stream.offset \in Nat /\ stream.repeat_delay \in Nat
    BY DEF StreamType, WholeSeconds
  <2> QED
    BY <2>1 DEF Spaced
<1>2. Shared(reps, stream, 0)
  BY <1>1, RepetitionsOnTime
<1>3. all = [r \in DOMAIN reps |-> build_measurement_segments(build_stream_segments(reps[r]))]
  BY DEF SegmentsOf
<1>4. DOMAIN all = 1..Len(all) /\ Len(all) \in Nat
  BY SegmentsLemma
<1>5. DOMAIN all = DOMAIN reps
  BY <1>3
<1> HIDE DEF reps
<1>6. ASSUME NEW r \in DOMAIN reps
      PROVE  /\ MeasuredTimeline(all[r]) /\ Len(all[r]) # 0
             /\ \A t \in Nat : Covered(all[r], t) <=> Scheduled(reps[r], t)
  <2> DEFINE segments == build_stream_segments(reps[r])
             measured == build_measurement_segments(segments)
  <2>1. SegmentsOnTime(segments, reps[r], 0) /\ segments[1].offset = 0
    BY <1>2, BuiltOnTime DEF Shared, Spaced
  <2> HIDE DEF segments
  <2>2. /\ MeasuredTimeline(measured) /\ Len(measured) # 0
        /\ \A t \in Nat : Covered(measured, t) <=> Covered(segments, t)
    BY <2>1, MeasuredOnTime DEF SegmentsOnTime
  <2>3. all[r] = measured
    BY <1>3 DEF segments
  <2> HIDE DEF measured, all
  <2> QED
    BY <2>1, <2>2, <2>3 DEF SegmentsOnTime
<1> HIDE DEF all
<1> QED
  BY <1>2, <1>4, <1>5, <1>6 DEF all, Shared

-----------------------------------------------------------------------------
(* When the parts of a chain begin.                                        *)

\* begin[k] is when part k of a chain begins.
Begun(begin, parts, n) ==
  begin = [k \in 1..n |-> parts[k].isg + IF k = 1 THEN 0 ELSE begin[k - 1] + PartTicks(parts[k - 1])]

\* One part more.
LEMMA BegunLonger ==
  ASSUME NEW parts, NEW n \in Nat, NEW f, Begun(f, parts, n)
  PROVE  \E g : Begun(g, parts, n + 1)
<1> DEFINE law(h, i) == parts[i].isg + IF i = 1 THEN 0 ELSE h[i - 1] + PartTicks(parts[i - 1])
           g == [i \in 1..(n + 1) |-> IF i = n + 1 THEN law(f, i) ELSE f[i]]
<1>1. \A i \in 1..n : f[i] = law(f, i)
  BY DEF Begun
<1>2. ASSUME NEW i \in 1..(n + 1)
      PROVE  g[i] = law(g, i)
  <2>1. i # 1 => i - 1 \in 1..n /\ i - 1 \in 1..(n + 1) /\ i - 1 # n + 1
    OBVIOUS
  <2>2. i # 1 => g[i - 1] = f[i - 1]
    BY <2>1
  <2>3. law(g, i) = law(f, i)
    BY <2>2
  <2>4. g[i] = law(f, i)
    <3>1. CASE i = n + 1
      BY <3>1
    <3>2. CASE i # n + 1
      <4>1. i \in 1..n
        BY <3>2
      <4> HIDE DEF law
      <4> QED
        BY <1>1, <3>2, <4>1
    <3> QED
      BY <3>1, <3>2
  <2> QED
    BY <2>3, <2>4
<1>3. g = [i \in 1..(n + 1) |-> g[i]]
  OBVIOUS
<1> HIDE DEF g
<1>4. Begun(g, parts, n + 1)
  BY <1>2, <1>3 DEF Begun
<1> QED
  BY <1>4

\* The recursion that they are defined by has a solution.
LEMMA BegunExists ==
  ASSUME NEW parts, NEW n \in Nat
  PROVE  \E f : Begun(f, parts, n)
<1> DEFINE bad == {m \in Nat : ~ \E f : Begun(f, parts, m)}
<1> SUFFICES ASSUME bad # {} PROVE FALSE
  OBVIOUS
<1>1. PICK u \in bad : \A m \in bad : u <= m
  <2>1. bad \in SUBSET Nat
    OBVIOUS
  <2> HIDE DEF bad
  <2> QED
    BY <2>1, SmallestLemma
<1>2. u # 0
  <2>1. 1..0 = {}
    OBVIOUS
  <2>2. Begun([i \in 1..0 |-> 0], parts, 0)
    BY <2>1 DEF Begun
  <2> QED
    BY <2>2
<1>3. u - 1 \in Nat /\ u - 1 + 1 = u /\ u - 1 \notin bad
  BY <1>1, <1>2
<1>4. PICK f : Begun(f, parts, u - 1)
  BY <1>3
<1>5. \E g : Begun(g, parts, u)
  BY <1>3, <1>4, BegunLonger
<1> QED
  BY <1>5

\* Each part begins a gap behind the end of the one before.
LEMMA BeginsLemma ==
  ASSUME NEW parts, NEW n \in Nat, DOMAIN parts = 1..n
  PROVE  \A k \in 1..n : Begins(parts)[k] =
           parts[k].isg + IF k = 1 THEN 0 ELSE Begins(parts)[k - 1] + PartTicks(parts[k - 1])
<1>1. \E f : Begun(f, parts, n)
  BY BegunExists
<1>2. Begins(parts) = CHOOSE f : Begun(f, parts, n)
  BY DEF Begins, Begun
<1>3. Begun(Begins(parts), parts, n)
  BY <1>1, <1>2
<1> DEFINE begin == Begins(parts)
<1> HIDE DEF begin
<1>4. Begun(begin, parts, n)
  BY <1>3 DEF begin
<1>5. \A k \in 1..n : begin[k] =
           parts[k].isg + IF k = 1 THEN 0 ELSE begin[k - 1] + PartTicks(parts[k - 1])
  BY <1>4 DEF Begun
<1> QED
  BY <1>5 DEF begin

\* The parts of a chain follow one another.
LEMMA ChainOrder ==
  ASSUME NEW parts, NEW n \in Nat, DOMAIN parts = 1..n,
         \A k \in 1..n : parts[k].isg \in Nat /\ PartTicks(parts[k]) \in Nat
  PROVE  /\ \A k \in 1..n : Begins(parts)[k] \in Nat
         /\ \A k, l \in 1..n, t \in Nat : Transmits(parts, k, t) /\ Transmits(parts, l, t) => k = l
<1> DEFINE begin == Begins(parts)
           ticks(k) == PartTicks(parts[k])
<1>1. \A k \in 1..n : begin[k] = parts[k].isg + IF k = 1 THEN 0 ELSE begin[k - 1] + ticks(k - 1)
  BY BeginsLemma
<1> HIDE DEF begin
<1>2. \A k \in 1..n : parts[k].isg \in Nat /\ ticks(k) \in Nat
  OBVIOUS
<1> HIDE DEF ticks
<1> DEFINE bad == {k \in 1..n : begin[k] \notin Nat}
<1>3. bad = {}
  <2> SUFFICES ASSUME bad # {} PROVE FALSE
    OBVIOUS
  <2>1. PICK k \in bad : \A l \in bad : k <= l
    <3>1. bad \in SUBSET Nat
      OBVIOUS
    <3> HIDE DEF bad
    <3> QED
      BY <3>1, SmallestLemma
  <2>2. k \in 1..n /\ begin[k] \notin Nat
    BY <2>1
  <2>3. CASE k = 1
    <3>1. begin[1] = parts[1].isg + 0
      BY <1>1, <2>2, <2>3
    <3> QED
      BY <1>2, <2>2, <2>3, <3>1
  <2>4. CASE k # 1
    <3>1. k - 1 \in 1..n /\ ~(k <= k - 1)
      BY <2>2, <2>4
    <3>2. k - 1 \notin bad
      BY <2>1, <3>1
    <3>3. begin[k - 1] \in Nat
      BY <3>1, <3>2
    <3>4. begin[k] = parts[k].isg + (begin[k - 1] + ticks(k - 1))
      BY <1>1, <2>2, <2>4
    <3>5. parts[k].isg \in Nat /\ ticks(k - 1) \in Nat
      BY <1>2, <2>2, <3>1
    <3> HIDE DEF bad
    <3> QED
      BY <2>2, <3>3, <3>4, <3>5
  <2> QED
    BY <2>3, <2>4
<1>4. \A k \in 1..n : begin[k] \in Nat
  BY <1>3
<1> DEFINE from == [k \in 1..n |-> begin[k]]
           till == [k \in 1..n |-> begin[k] + ticks(k)]
<1>5. ASSUME NEW k \in 1..(n - 1)
      PROVE  till[k] <= from[k + 1]
  <2>1. k \in 1..n /\ k + 1 \in 1..n /\ k + 1 # 1 /\ (k + 1) - 1 = k
    OBVIOUS
  <2>2. begin[k + 1] = parts[k + 1].isg + (begin[k] + ticks(k))
    BY <1>1, <2>1
  <2>3. from[k + 1] = begin[k + 1] /\ till[k] = begin[k] + ticks(k)
    BY <2>1
  <2>4. parts[k + 1].isg \in Nat /\ begin[k] + ticks(k) \in Nat
    BY <1>2, <1>4, <2>1
  <2> HIDE DEF from, till
  <2> QED
    BY <2>2, <2>3, <2>4
<1>6. /\ from \in [1..n -> Int] /\ till \in [1..n -> Int] /\ \A k \in 1..n : from[k] <= till[k]
  BY <1>2, <1>4
<1>7. \A j, k \in 1..n : j < k => till[j] <= from[k]
  <2> HIDE DEF from, till
  <2> QED
    BY <1>5, <1>6, OrderLemma
<1>8. ASSUME NEW k \in 1..n, NEW l \in 1..n, NEW t \in Nat, Transmits(parts, k, t), Transmits(parts, l, t)
      PROVE  k = l
  <2>1. begin[k] <= t /\ t < begin[k] + ticks(k) /\ begin[l] <= t /\ t < begin[l] + ticks(l)
    BY <1>8 DEF Transmits, begin, ticks
  <2>2. till[k] = begin[k] + ticks(k) /\ till[l] = begin[l] + ticks(l)
        /\ from[k] = begin[k] /\ from[l] = begin[l]
    OBVIOUS
  <2>3. begin[k] \in Nat /\ begin[l] \in Nat /\ ticks(k) \in Nat /\ ticks(l) \in Nat
    BY <1>2, <1>4
  <2> HIDE DEF from, till
  <2>4. ~(k < l) /\ ~(l < k)
    BY <1>7, <2>1, <2>2, <2>3
  <2> QED
    BY <2>4
<1> QED
  BY <1>4, <1>8 DEF begin

\* Full substreams take a whole number of ticks; the last takes what is left.
LEMMA TicksLeftLemma ==
  ASSUME NEW second \in Nat, NEW max \in Nat, NEW rate \in Nat, rate # 0, NEW q \in Nat, NEW r \in Nat,
         NEW full \in Nat, NEW duration \in Nat,
         rate * full = second * max, second * (max * q + r) = rate * duration
  PROVE  /\ q * full \in Nat /\ q * full <= duration
         /\ second * r = rate * (duration - q * full) /\ duration - q * full \in Nat
<1> DEFINE used_up == q * full
<1>1. used_up \in Nat
  OBVIOUS
<1>2. second * (max * q + r) = rate * used_up + second * r
  <2>1. second * (max * q + r) = (second * max) * q + second * r
    OBVIOUS
  <2>2. (rate * full) * q = rate * (q * full)
    OBVIOUS
  <2> QED
    BY <2>1, <2>2
<1> HIDE DEF used_up
<1>3. second * r \in Nat /\ rate * used_up \in Nat /\ rate * duration \in Nat
  BY <1>1
<1>4. used_up <= duration
  <2> SUFFICES ASSUME duration < used_up PROVE FALSE
    BY <1>1
  <2>1. duration * rate + rate <= used_up * rate
    BY <1>1, RangeLemma
  <2>2. duration * rate = rate * duration /\ used_up * rate = rate * used_up
    BY <1>1
  <2> QED
    BY <1>2, <1>3, <2>1, <2>2
<1>5. rate * (duration - used_up) = rate * duration - rate * used_up
  BY <1>1
<1> QED
  BY <1>1, <1>2, <1>3, <1>4, <1>5 DEF used_up

-----------------------------------------------------------------------------
(* Substreams.                                                             *)

\* The substreams of a part, and how long they take.
Substreams(x, part) ==
  /\ x \in Seq(PartType) /\ Len(x) # 0
  /\ \A a \in 1..Len(x) : /\ x[a].type = part.type /\ x[a].rate = part.rate
                          /\ x[a].isg = IF a = 1 THEN part.isg ELSE 0
                          /\ x[a].packets \in Nat

\* How long a substream of MaxPackets packets takes.
FullTicks(rate) == (Second * MaxPackets) \div rate

\* All substreams but the last are full.
TakesTicks(x, duration, full) ==
  /\ full \in Nat /\ (Len(x) - 1) * full \in Nat /\ (Len(x) - 1) * full <= duration
  /\ \A a \in 1..Len(x) :
       PartTicks(x[a]) = IF a < Len(x) THEN full ELSE duration - (Len(x) - 1) * full

\* SubstreamsFit for one part.
PacketsFit(packets, rate) ==
  packets > MaxPackets => packets % MaxPackets # 0 /\ (Second * MaxPackets) % rate = 0

\* A whole number divided by its divisor.
LEMMA ExactLemma ==
  ASSUME NEW m \in Nat, m # 0, NEW q \in Nat
  PROVE  (m * q) \div m = q
<1>1. m * q + 0 = m * q
  OBVIOUS
<1>2. (m * q + 0) \div m = q
  BY RemainderLemma
<1> QED
  BY <1>1, <1>2

\* It is exact for packets that fit.
LEMMA FullTicksLemma ==
  ASSUME NEW rate \in Nat, rate # 0
  PROVE  /\ FullTicks(rate) \in Nat
         /\ (Second * MaxPackets) % rate = 0 => rate * FullTicks(rate) = Second * MaxPackets
<1> DEFINE n == Second * MaxPackets
<1>1. n \in Nat
  BY ProfileAssumption
<1> HIDE DEF n
<1>2. n \div rate \in Nat /\ n = rate * (n \div rate) + (n % rate) /\ rate * (n \div rate) \in Nat
  BY <1>1, QuotientLemma
<1>3. n % rate = 0 => rate * (n \div rate) = n
  BY <1>2
<1> QED
  BY <1>2, <1>3 DEF n, FullTicks

\* Split() makes substreams, which take as long as the part should.
LEMMA SplitOnTime ==
  ASSUME NEW part \in PartType, part.rate # 0, part.packets \in Nat
  PROVE  /\ Substreams(Split(part), part)
         /\ \A duration \in Nat :
              /\ part.type = "tx" /\ Second * part.packets = part.rate * duration
              /\ PacketsFit(part.packets, part.rate)
              => TakesTicks(Split(part), duration, FullTicks(part.rate))
<1>0. /\ MaxPackets \in Nat /\ MaxPackets # 0 /\ Second \in Nat /\ Second # 0
      /\ part.isg \in Int /\ part.rate \in Nat /\ part.type \in {"tx", "null"}
  BY ProfileAssumption DEF PartType
<1>1. CASE part.packets <= MaxPackets
  <2> DEFINE x == <<part>>
             full == FullTicks(part.rate)
  <2>1. Split(part) = x
    BY <1>1 DEF Split
  <2>2. Len(x) = 1 /\ x[1] = part /\ x \in Seq(PartType) /\ 1..1 = {1}
    OBVIOUS
  <2> HIDE DEF x
  <2>3. Substreams(x, part)
    BY <2>2 DEF Substreams
  <2>4. ASSUME NEW duration \in Nat, part.type = "tx", Second * part.packets = part.rate * duration
        PROVE  TakesTicks(x, duration, full)
    <3>1. PartTicks(part) = duration
      <4>1. PartTicks(part) = (part.rate * duration) \div part.rate
        BY <2>4 DEF PartTicks
      <4> QED
        BY <1>0, <4>1, ExactLemma
    <3>2. full \in Nat
      BY <1>0, FullTicksLemma
    <3> HIDE DEF full
    <3>3. (Len(x) - 1) * full = 0
      BY <2>2, <3>2
    <3> QED
      BY <2>2, <3>1, <3>2, <3>3 DEF TakesTicks
  <2> QED
    BY <2>1, <2>3, <2>4
<1>2. CASE ~(part.packets <= MaxPackets)
  <2> DEFINE remainder == part.packets % MaxPackets
             q == part.packets \div MaxPackets
             loops == q - IF remainder = 0 THEN 1 ELSE 0
             count(k) == IF k <= loops THEN MaxPackets ELSE remainder
             gap(k) == IF k = 1 THEN part.isg ELSE 0
             element(k) == [part EXCEPT !.packets = count(k), !.isg = gap(k)]
             x == Split(part)
             full == FullTicks(part.rate)
  <2>1. x = [k \in 1..(loops + 1) |-> element(k)]
    BY <1>2 DEF Split
  <2>2. /\ q \in Nat /\ remainder \in Nat /\ part.packets = MaxPackets * q + remainder
        /\ remainder < MaxPackets
    BY <1>0, QuotientLemma
  <2> HIDE DEF remainder, q
  <2>3. q # 0
    <3> SUFFICES ASSUME q = 0 PROVE FALSE
      OBVIOUS
    <3>1. MaxPackets * q = 0
      BY <1>0
    <3> QED
      BY <1>0, <1>2, <2>2, <3>1
  <2>4. loops \in Nat /\ (remainder # 0 => loops = q)
    BY <2>2, <2>3
  <2> HIDE DEF loops
  <2>5. \A k \in 1..(loops + 1) : count(k) \in Nat /\ count(k) \in Int /\ gap(k) \in Int
    BY <1>0, <2>2, <2>4
  <2> HIDE DEF count, gap
  <2>6. \A k \in 1..(loops + 1) :
          /\ element(k) \in PartType /\ element(k).type = part.type /\ element(k).rate = part.rate
          /\ element(k).isg = gap(k) /\ element(k).packets = count(k)
    BY <2>5 DEF PartType
  <2> HIDE DEF element, x
  <2>7. x \in Seq(PartType) /\ Len(x) = loops + 1
        /\ \A k \in 1..(loops + 1) : x[k] = element(k)
    BY <2>1, <2>4, <2>6
  <2>8. Substreams(x, part)
    <3>1. Len(x) # 0
      BY <2>4, <2>7
    <3>2. \A a \in 1..Len(x) : /\ x[a].type = part.type /\ x[a].rate = part.rate
                               /\ x[a].isg = gap(a) /\ x[a].packets \in Nat
      BY <2>5, <2>6, <2>7
    <3> QED
      BY <2>7, <3>1, <3>2 DEF Substreams, gap
  <2>9. ASSUME NEW duration \in Nat, part.type = "tx", Second * part.packets = part.rate * duration,
               PacketsFit(part.packets, part.rate)
        PROVE  TakesTicks(x, duration, full)
    <3>1. remainder # 0 /\ (Second * MaxPackets) % part.rate = 0
      BY <1>0, <1>2, <2>9 DEF PacketsFit, remainder
    <3>2. full \in Nat /\ part.rate * full = Second * MaxPackets
      BY <1>0, <3>1, FullTicksLemma
    <3> HIDE DEF full
    <3>3. Second * (MaxPackets * q + remainder) = part.rate * duration
      BY <2>2, <2>9
    <3>4. /\ q * full \in Nat /\ q * full <= duration
          /\ Second * remainder = part.rate * (duration - q * full) /\ duration - q * full \in Nat
      <4> DEFINE rate == part.rate
      <4>1. rate \in Nat /\ rate # 0 /\ rate * full = Second * MaxPackets
            /\ Second * (MaxPackets * q + remainder) = rate * duration
        BY <1>0, <3>2, <3>3
      <4> HIDE DEF rate
      <4>2. /\ q * full \in Nat /\ q * full <= duration
            /\ Second * remainder = rate * (duration - q * full) /\ duration - q * full \in Nat
        BY <1>0, <2>2, <3>2, <4>1, TicksLeftLemma
      <4> QED
        BY <4>2 DEF rate
    <3>5. Len(x) - 1 = q
      BY <2>4, <2>7, <3>1
    <3>6. ASSUME NEW a \in 1..Len(x)
          PROVE  PartTicks(x[a]) = IF a < Len(x) THEN full ELSE duration - q * full
      <4>1. PartTicks(x[a]) = (Second * count(a)) \div part.rate
        <5>1. x[a].type = "tx" /\ x[a].rate = part.rate /\ x[a].packets = count(a)
          BY <2>6, <2>7, <2>9
        <5> QED
          BY <5>1 DEF PartTicks
      <4>2. CASE a < Len(x)
        <5>1. count(a) = MaxPackets
          BY <2>4, <2>7, <4>2 DEF count
        <5>2. (part.rate * full) \div part.rate = full
          BY <1>0, <3>2, ExactLemma
        <5> QED
          BY <3>2, <4>1, <4>2, <5>1, <5>2
      <4>3. CASE ~(a < Len(x))
        <5>1. count(a) = remainder
          BY <2>4, <2>7, <4>3 DEF count
        <5> DEFINE left == duration - q * full
        <5>2. left \in Nat /\ Second * remainder = part.rate * left
          BY <3>4
        <5> HIDE DEF left
        <5>3. (part.rate * left) \div part.rate = left
          BY <1>0, <5>2, ExactLemma
        <5> QED
          BY <4>1, <4>3, <5>1, <5>2, <5>3 DEF left
      <4> QED
        BY <4>2, <4>3
    <3> QED
      BY <3>2, <3>4, <3>5, <3>6 DEF TakesTicks
  <2> QED
    BY <2>8, <2>9 DEF x
<1> QED
  BY <1>0, <1>1, <1>2

\* A part takes some time, or none.
LEMMA TicksLemma ==
  ASSUME NEW part \in PartType, part.rate # 0, part.packets \in Nat
  PROVE  PartTicks(part) \in Nat
<1>1. part.rate \in Nat /\ part.rate > 0 /\ Second \in Nat
  BY ProfileAssumption DEF PartType
<1> DEFINE n == Second * part.packets
           m == part.packets + part.rate - 1
<1>2. n \in Nat /\ m \in Nat
  BY <1>1
<1> HIDE DEF n, m
<1>3. n \div part.rate \in Nat /\ m \div part.rate \in Nat
  BY <1>1, <1>2, QuotientLemma
<1>4. Second * (m \div part.rate) \in Nat
  BY <1>1, <1>3
<1> QED
  BY <1>3, <1>4 DEF PartTicks, CeilDiv, n, m

\* The next element of a joint sequence is the next of its sequence, or the
\* first of the next sequence.
LEMMA NextLaidOut ==
  ASSUME NEW flat, NEW seqs, NEW n \in Nat, n # 0, NEW block, NEW at, LaidOut(flat, seqs, n, block, at),
         Len(flat) \in Nat, \A b \in 1..n : Len(seqs[b]) \in Nat /\ Len(seqs[b]) # 0
  PROVE  /\ Len(flat) # 0 /\ block[1] = 1 /\ at[1] = 1
         /\ \A p \in 1..(Len(flat) - 1) :
              IF at[p] < Len(seqs[block[p]])
              THEN block[p + 1] = block[p] /\ at[p + 1] = at[p] + 1
              ELSE block[p + 1] = block[p] + 1 /\ at[p + 1] = 1
<1>1. \A p \in 1..Len(flat) : block[p] \in 1..n /\ at[p] \in 1..Len(seqs[block[p]])
  BY DEF LaidOut
<1>2. \A p, q \in 1..Len(flat) : p < q =>
        block[p] < block[q] \/ (block[p] = block[q] /\ at[p] < at[q])
  BY DEF LaidOut
<1>3. \A b \in 1..n : \A a \in 1..Len(seqs[b]) : \E p \in 1..Len(flat) : block[p] = b /\ at[p] = a
  BY DEF LaidOut
<1>4. PICK f \in 1..Len(flat) : block[f] = 1 /\ at[f] = 1
  <2>1. 1 \in 1..n /\ 1 \in 1..Len(seqs[1])
    OBVIOUS
  <2> QED
    BY <1>3, <2>1
<1>5. Len(flat) # 0 /\ block[1] = 1 /\ at[1] = 1
  <2>1. Len(flat) # 0 /\ 1 \in 1..Len(flat)
    BY <1>4
  <2>2. ~(1 < f)
    <3> SUFFICES ASSUME 1 < f PROVE FALSE
      OBVIOUS
    <3>1. block[1] < block[f] \/ (block[1] = block[f] /\ at[1] < at[f])
      BY <1>2, <2>1
    <3>2. block[1] \in Nat /\ block[1] >= 1 /\ at[1] \in Nat /\ at[1] >= 1
      BY <1>1, <2>1
    <3> QED
      BY <1>4, <3>1, <3>2
  <2>3. f = 1
    BY <2>2
  <2> QED
    BY <1>4, <2>1, <2>3
<1>6. ASSUME NEW p \in 1..(Len(flat) - 1), NEW b \in 1..n, NEW a \in 1..Len(seqs[b]),
             block[p] < b \/ (block[p] = b /\ at[p] < a),
             block[p + 1] > b \/ (block[p + 1] = b /\ at[p + 1] >= a)
      PROVE  block[p + 1] = b /\ at[p + 1] = a
  <2>1. PICK q \in 1..Len(flat) : block[q] = b /\ at[q] = a
    BY <1>3
  <2>2. p \in 1..Len(flat) /\ p + 1 \in 1..Len(flat)
    OBVIOUS
  <2>3. /\ block[p] \in Nat /\ at[p] \in Nat /\ block[p + 1] \in Nat /\ at[p + 1] \in Nat
        /\ b \in Nat /\ a \in Nat
    BY <1>1, <2>2
  <2>4. ~(q <= p)
    <3>1. q # p
      BY <1>6, <2>1, <2>3
    <3>2. ~(q < p)
      <4> SUFFICES ASSUME q < p PROVE FALSE
        OBVIOUS
      <4>1. b < block[p] \/ (b = block[p] /\ a < at[p])
        BY <1>2, <2>1, <2>2
      <4> QED
        BY <1>6, <2>3, <4>1
    <3> QED
      BY <3>1, <3>2
  <2>5. ~(p + 1 < q)
    <3> SUFFICES ASSUME p + 1 < q PROVE FALSE
      OBVIOUS
    <3>1. block[p + 1] < b \/ (block[p + 1] = b /\ at[p + 1] < a)
      BY <1>2, <2>1, <2>2
    <3> QED
      BY <1>6, <2>3, <3>1
  <2>6. q = p + 1
    BY <2>4, <2>5
  <2> QED
    BY <2>1, <2>6
<1>7. ASSUME NEW p \in 1..(Len(flat) - 1)
      PROVE  IF at[p] < Len(seqs[block[p]])
             THEN block[p + 1] = block[p] /\ at[p + 1] = at[p] + 1
             ELSE block[p + 1] = block[p] + 1 /\ at[p + 1] = 1
  <2>1. /\ p \in 1..Len(flat) /\ p + 1 \in 1..Len(flat) /\ p < p + 1
    OBVIOUS
  <2>2. block[p] < block[p + 1] \/ (block[p] = block[p + 1] /\ at[p] < at[p + 1])
    BY <1>2, <2>1
  <2>3. /\ block[p] \in 1..n /\ block[p + 1] \in 1..n
        /\ at[p] \in 1..Len(seqs[block[p]]) /\ at[p + 1] \in 1..Len(seqs[block[p + 1]])
        /\ Len(seqs[block[p]]) \in Nat /\ Len(seqs[block[p + 1]]) \in Nat
    BY <1>1, <2>1
  <2>4. CASE at[p] < Len(seqs[block[p]])
    <3> DEFINE b == block[p]
               a == at[p] + 1
    <3>1. b \in 1..n /\ a \in 1..Len(seqs[b]) /\ (block[p] = b /\ at[p] < a)
      BY <2>3, <2>4
    <3>2. block[p + 1] > b \/ (block[p + 1] = b /\ at[p + 1] >= a)
      BY <2>2, <2>3
    <3> HIDE DEF a, b
    <3>3. block[p + 1] = b /\ at[p + 1] = a
      BY <1>6, <3>1, <3>2
    <3> QED
      BY <2>4, <3>3 DEF a, b
  <2>5. CASE ~(at[p] < Len(seqs[block[p]]))
    <3>0. block[p] < block[p + 1]
      <4> SUFFICES ASSUME block[p] = block[p + 1], at[p] < at[p + 1] PROVE FALSE
        BY <2>2
      <4> DEFINE last == Len(seqs[block[p]])
                 a == at[p]
                 c == at[p + 1]
      <4>1. a \in 1..last /\ c \in 1..last /\ last \in Nat
        BY <2>3
      <4>2. a < c /\ ~(a < last)
        BY <2>5
      <4> HIDE DEF last, a, c
      <4> QED
        BY <4>1, <4>2
    <3> DEFINE b == block[p] + 1
    <3>1. b \in 1..n /\ block[p] < b
      <4> DEFINE c == block[p]
                 d == block[p + 1]
      <4>1. c \in 1..n /\ d \in 1..n /\ c < d /\ b = c + 1
        BY <2>3, <3>0
      <4>2. n \in Nat
        BY <1>1
      <4> HIDE DEF b, c, d
      <4> QED
        BY <4>1, <4>2 DEF c
    <3>2. block[p + 1] > b \/ (block[p + 1] = b /\ at[p + 1] >= 1)
      BY <2>3, <3>0
    <3> HIDE DEF b
    <3>3. 1 \in 1..Len(seqs[b])
      BY <3>1
    <3>4. block[p + 1] = b /\ at[p + 1] = 1
      BY <1>6, <3>1, <3>2, <3>3
    <3> QED
      BY <2>5, <3>4 DEF b
  <2> QED
    BY <2>4, <2>5
<1> QED
  BY <1>5, <1>7

\* Whole seconds take whole packets.
LEMMA WholePackets ==
  ASSUME NEW duration \in WholeSeconds, NEW rate \in Nat
  PROVE  /\ (rate * duration) \div Second \in Nat
         /\ Second * ((rate * duration) \div Second) = rate * duration
<1>1. Second \in Nat /\ Second # 0 /\ duration \in Nat /\ duration % Second = 0
  BY ProfileAssumption DEF WholeSeconds
<1> DEFINE s == duration \div Second
<1>2. s \in Nat /\ duration = Second * s
  <2>1. s \in Nat /\ Second * s \in Nat /\ duration = Second * s + (duration % Second)
    BY <1>1, QuotientLemma
  <2> QED
    BY <1>1, <2>1
<1> HIDE DEF s
<1>3. rate * duration = Second * (rate * s) /\ rate * s \in Nat
  BY <1>1, <1>2
<1>4. (Second * (rate * s)) \div Second = rate * s
  BY <1>1, <1>3, ExactLemma
<1> QED
  BY <1>3, <1>4

\* Where full substreams begin and end.
LEMMA PlacesLemma ==
  ASSUME NEW a \in Nat, a # 0, NEW full \in Nat
  PROVE  /\ (a - 1) * full \in Nat /\ a * full \in Nat /\ (a - 1) * full + full = a * full
         /\ \A c \in Nat : a <= c => a * full <= c * full /\ c * full \in Nat
<1>1. (a - 1) * full \in Nat /\ a * full \in Nat /\ (a - 1) * full + full = a * full
  OBVIOUS
<1>2. ASSUME NEW c \in Nat, a <= c
      PROVE  a * full <= c * full /\ c * full \in Nat
  <2>1. CASE a = c
    BY <1>1, <2>1
  <2>2. CASE a # c
    <3>1. a * full + full <= c * full /\ c * full \in Nat
      BY <1>2, <2>2, RangeLemma
    <3> QED
      BY <1>1, <3>1
  <2> QED
    BY <2>1, <2>2
<1> QED
  BY <1>1, <1>2

-----------------------------------------------------------------------------
(* A chain transmits while its segments do.                                *)

\* A chain transmits at its rate, and while its segments do.
OnTime(parts, segments, rate) ==
  /\ parts \in Seq(PartType)
  /\ \A k \in 1..Len(parts) : parts[k].rate = rate
  /\ \A k, l \in 1..Len(parts), t \in Nat : Transmits(parts, k, t) /\ Transmits(parts, l, t) => k = l
  /\ \A t \in Nat : (\E k \in 1..Len(parts) : Transmits(parts, k, t)) <=> Covered(segments, t)

\* The substreams of the segments of a chain.
PartsOf(segments, rate, ids) ==
  [b \in DOMAIN segments |->
     Split(Part(segments[b], rate, (rate * segments[b].duration) \div Second, ids[b]))]

\* Each segment has substreams that take as long as it does.
SplitsOnTime(splits, segments, rate) ==
  /\ splits \in Seq(Seq(PartType)) /\ Len(splits) = Len(segments)
  /\ \A b \in 1..Len(segments) :
       /\ Len(splits[b]) # 0 /\ Len(splits[b]) \in Nat
       /\ \A a \in 1..Len(splits[b]) :
            /\ splits[b][a].type = segments[b].type /\ splits[b][a].rate = rate
            /\ splits[b][a].isg = (IF a = 1 THEN segments[b].isg ELSE 0)
            /\ PartTicks(splits[b][a]) \in Nat
       /\ segments[b].type = "tx" => TakesTicks(splits[b], segments[b].duration, FullTicks(rate))

\* PartsOf is on time.
LEMMA SplitsLemma ==
  ASSUME NEW segments, MeasuredTimeline(segments), NEW rate \in Nat, rate # 0,
         NEW ids \in [1..Len(segments) -> Int],
         \A k \in Transmissions(segments) : PacketsFit((rate * segments[k].duration) \div Second, rate)
  PROVE  SplitsOnTime(PartsOf(segments, rate, ids), segments, rate)
<1> DEFINE splits == PartsOf(segments, rate, ids)
<1>0. segments \in Seq(SegmentType) /\ DOMAIN segments = 1..Len(segments) /\ Len(segments) \in Nat
  <2>1. segments \in Seq(SegmentType)
    BY DEF MeasuredTimeline
  <2> QED
    BY <2>1
<1>1. ASSUME NEW b \in 1..Len(segments)
      PROVE  /\ splits[b] \in Seq(PartType)
             /\ Len(splits[b]) # 0 /\ Len(splits[b]) \in Nat
             /\ \A a \in 1..Len(splits[b]) :
                  /\ splits[b][a].type = segments[b].type /\ splits[b][a].rate = rate
                  /\ splits[b][a].isg = (IF a = 1 THEN segments[b].isg ELSE 0)
                  /\ PartTicks(splits[b][a]) \in Nat
             /\ segments[b].type = "tx" => TakesTicks(splits[b], segments[b].duration, FullTicks(rate))
  <2> DEFINE s == segments[b]
             packets == (rate * s.duration) \div Second
             part == Part(s, rate, packets, ids[b])
             x == splits[b]
  <2>1. s \in SegmentType /\ s.duration \in Nat /\ s.isg \in Nat /\ ids[b] \in Int
        /\ (s.type = "tx" => s.duration \in WholeSeconds)
    <3>1. s \in SegmentType /\ ids[b] \in Int
      BY <1>0
    <3> QED
      BY <3>1 DEF MeasuredTimeline
  <2>2. x = Split(part)
    BY <1>0 DEF PartsOf
  <2>3. part \in PartType /\ part.type = s.type
    BY <2>1, PartLemma
  <2>4. packets \in Nat
    <3> DEFINE n == rate * s.duration
    <3>1. n \in Nat /\ Second \in Nat /\ Second # 0
      BY <2>1, ProfileAssumption
    <3> HIDE DEF n
    <3>2. n \div Second \in Nat
      BY <3>1, QuotientLemma
    <3> QED
      BY <3>2 DEF n
  <2>5. s.type = "tx" => Second * packets = rate * s.duration /\ PacketsFit(packets, rate)
    <3> SUFFICES ASSUME s.type = "tx" PROVE Second * packets = rate * s.duration /\ PacketsFit(packets, rate)
      OBVIOUS
    <3>1. b \in Transmissions(segments)
      BY <1>0 DEF Transmissions
    <3>2. PacketsFit(packets, rate)
      BY <3>1
    <3>3. Second * packets = rate * s.duration
      BY <2>1, WholePackets
    <3> QED
      BY <3>2, <3>3
  <2> HIDE DEF packets, x, s
  <2>6. part.rate = rate /\ part.isg = s.isg /\ part.packets = packets
    BY DEF Part
  <2> HIDE DEF part
  <2>7. Substreams(x, part) /\ (s.type = "tx" => TakesTicks(x, s.duration, FullTicks(rate)))
    <3>1. part.rate # 0 /\ part.packets \in Nat
      BY <2>4, <2>6
    <3>2. /\ Substreams(Split(part), part)
          /\ \A duration \in Nat :
              /\ part.type = "tx" /\ Second * part.packets = part.rate * duration
              /\ PacketsFit(part.packets, part.rate)
              => TakesTicks(Split(part), duration, FullTicks(part.rate))
      BY <2>3, <3>1, SplitOnTime
    <3> QED
      BY <2>1, <2>2, <2>3, <2>5, <2>6, <3>2
  <2>8. x \in Seq(PartType) /\ Len(x) # 0 /\ Len(x) \in Nat
        /\ \A a \in 1..Len(x) : x[a] \in PartType
    BY <2>7 DEF Substreams
  <2>9. ASSUME NEW a \in 1..Len(x)
        PROVE  /\ x[a].type = s.type /\ x[a].rate = rate
               /\ x[a].isg = (IF a = 1 THEN s.isg ELSE 0)
               /\ PartTicks(x[a]) \in Nat
    <3>1. /\ x[a].type = part.type /\ x[a].rate = part.rate
          /\ x[a].isg = (IF a = 1 THEN part.isg ELSE 0) /\ x[a].packets \in Nat
      BY <2>7 DEF Substreams
    <3>2. PartTicks(x[a]) \in Nat
      BY <2>6, <2>8, <3>1, TicksLemma
    <3> QED
      BY <2>3, <2>6, <3>1, <3>2
  <2> QED
    BY <2>7, <2>8, <2>9 DEF x, s
<1>2. splits = [b \in 1..Len(segments) |-> splits[b]]
  BY <1>0 DEF PartsOf
<1> HIDE DEF splits
<1>3. splits \in Seq(Seq(PartType)) /\ Len(splits) = Len(segments)
  BY <1>0, <1>1, <1>2
<1>4. SplitsOnTime(splits, segments, rate)
  BY <1>1, <1>3 DEF SplitsOnTime
<1> QED
  BY <1>4 DEF splits

\* The first substream that ends behind x.
LEMMA SubstreamAt ==
  ASSUME NEW full \in Nat, NEW duration \in Nat, NEW last \in Nat, last # 0, NEW x \in Nat, x < duration,
         (last - 1) * full <= duration
  PROVE  \E a \in 1..last : (a - 1) * full <= x
           /\ x < (a - 1) * full + (IF a < last THEN full ELSE duration - (last - 1) * full)
<1> DEFINE good == {a \in 1..last : a = last \/ x < a * full}
<1>1. PICK a \in good : \A c \in good : a <= c
  <2>1. good \in SUBSET Nat /\ last \in good
    OBVIOUS
  <2> HIDE DEF good
  <2> QED
    BY <2>1, SmallestLemma
<1>2. a \in 1..last /\ a \in Nat /\ a # 0
  BY <1>1
<1>3. (a - 1) * full \in Nat /\ a * full \in Nat /\ (a - 1) * full + full = a * full
  BY <1>2, PlacesLemma
<1>4. (a - 1) * full <= x
  <2>1. CASE a = 1
    <3>1. (a - 1) * full = 0
      BY <2>1
    <3> QED
      BY <3>1
  <2>2. CASE a # 1
    <3>1. a - 1 \in 1..last /\ ~(a <= a - 1) /\ a - 1 # last
      BY <1>2, <2>2
    <3>2. a - 1 \notin good
      BY <1>1, <3>1
    <3>3. ~(x < (a - 1) * full)
      BY <3>1, <3>2
    <3> QED
      BY <1>3, <3>3
  <2> QED
    BY <2>1, <2>2
<1>5. x < (a - 1) * full + (IF a < last THEN full ELSE duration - (last - 1) * full)
  <2>1. CASE a < last
    <3>1. x < a * full
      BY <1>1, <1>2, <2>1
    <3> QED
      BY <1>3, <2>1, <3>1
  <2>2. CASE ~(a < last)
    <3>1. a = last
      BY <1>2, <2>2
    <3> DEFINE y == (last - 1) * full
    <3>2. y \in Nat /\ (a - 1) * full = y
      BY <1>3, <3>1
    <3> HIDE DEF y
    <3>3. x < y + (duration - y)
      BY <3>2
    <3> QED
      BY <2>2, <3>2, <3>3 DEF y
  <2> QED
    BY <2>1, <2>2
<1> QED
  BY <1>2, <1>4, <1>5

\* Element p of a chain is substream at[p] of segment block[p].
Along(parts, segments, rate, block, at, len) ==
  \A p \in 1..Len(parts) :
    /\ block[p] \in 1..Len(segments)
    /\ len[block[p]] \in Nat /\ at[p] \in 1..len[block[p]]
    /\ parts[p].type = segments[block[p]].type /\ parts[p].rate = rate
    /\ parts[p].isg = (IF at[p] = 1 THEN segments[block[p]].isg ELSE 0)
    /\ PartTicks(parts[p]) \in Nat
    /\ segments[block[p]].type = "tx" =>
         /\ (len[block[p]] - 1) * FullTicks(rate) \in Nat
         /\ (len[block[p]] - 1) * FullTicks(rate) <= segments[block[p]].duration
         /\ PartTicks(parts[p]) = IF at[p] < len[block[p]] THEN FullTicks(rate)
              ELSE segments[block[p]].duration - (len[block[p]] - 1) * FullTicks(rate)

\* The substreams of a segment, then those of the next.
OneByOne(parts, block, at, len) ==
  /\ Len(parts) # 0 => block[1] = 1 /\ at[1] = 1
  /\ \A p \in 1..(Len(parts) - 1) :
       IF at[p] < len[block[p]]
       THEN block[p + 1] = block[p] /\ at[p + 1] = at[p] + 1
       ELSE block[p + 1] = block[p] + 1 /\ at[p + 1] = 1

\* When a substream begins.
LEMMA PlaceOnTime ==
  ASSUME NEW parts, Len(parts) \in Nat, DOMAIN parts = 1..Len(parts),
         NEW segments, MeasuredTimeline(segments), NEW rate \in Nat, rate # 0,
         NEW block, NEW at, NEW len, Along(parts, segments, rate, block, at, len),
         OneByOne(parts, block, at, len)
  PROVE  \A p \in 1..Len(parts) : parts[p].type = "tx" =>
           Begins(parts)[p] =
             segments[block[p]].offset + segments[block[p]].isg + (at[p] - 1) * FullTicks(rate)
<1> DEFINE begin == Begins(parts)
           full == FullTicks(rate)
           place(p) == (at[p] - 1) * full
           bad == {p \in 1..Len(parts) : parts[p].type = "tx" /\
                     begin[p] # segments[block[p]].offset + segments[block[p]].isg + place(p)}
<1>1. \A k \in 1..Len(parts) : begin[k] =
           parts[k].isg + IF k = 1 THEN 0 ELSE begin[k - 1] + PartTicks(parts[k - 1])
  BY BeginsLemma
<1>2. full \in Nat
  BY FullTicksLemma
<1> HIDE DEF begin, full
<1>3. /\ \A k \in 1..Len(segments) :
           {segments[k].offset, segments[k].isg, segments[k].duration} \subseteq Nat
      /\ Len(segments) # 0 => segments[1].offset = 0
      /\ \A k \in 1..(Len(segments) - 1) :
           segments[k].type = "tx" /\ segments[k + 1].offset = EndOf(segments[k])
      /\ Len(segments) \in Nat
  BY DEF MeasuredTimeline
<1> SUFFICES ASSUME bad # {} PROVE FALSE
  BY DEF begin, full
<1>4. PICK p \in bad : \A q \in bad : p <= q
  <2>1. bad \in SUBSET Nat
    OBVIOUS
  <2> HIDE DEF bad
  <2> QED
    BY <2>1, SmallestLemma
<1> DEFINE b == block[p]
<1>5. /\ p \in 1..Len(parts) /\ b \in 1..Len(segments) /\ parts[p].type = "tx" /\ at[p] \in Nat
      /\ parts[p].isg = (IF at[p] = 1 THEN segments[b].isg ELSE 0)
      /\ begin[p] # segments[b].offset + segments[b].isg + place(p)
      /\ segments[b].offset \in Nat /\ segments[b].isg \in Nat /\ segments[b].duration \in Nat
      /\ segments[b].type = "tx"
  <2>1. /\ p \in 1..Len(parts) /\ parts[p].type = "tx"
        /\ begin[p] # segments[b].offset + segments[b].isg + place(p)
    BY <1>4
  <2> HIDE DEF bad, place
  <2>2. /\ b \in 1..Len(segments) /\ len[b] \in Nat /\ at[p] \in 1..len[b]
        /\ parts[p].type = segments[b].type
        /\ parts[p].isg = (IF at[p] = 1 THEN segments[b].isg ELSE 0)
    BY <2>1 DEF Along
  <2>3. segments[b].offset \in Nat /\ segments[b].isg \in Nat /\ segments[b].duration \in Nat
    BY <1>3, <2>2
  <2> HIDE DEF b
  <2> QED
    BY <2>1, <2>2, <2>3
<1>6. CASE p = 1
  <2>1. b = 1 /\ at[p] = 1
    BY <1>5, <1>6 DEF OneByOne
  <2>2. place(p) = 0
    BY <1>2, <2>1
  <2>3. begin[p] = parts[p].isg + 0
    BY <1>1, <1>5, <1>6
  <2>4. segments[b].offset = 0 /\ parts[p].isg = segments[b].isg
    BY <1>3, <1>5, <2>1
  <2> HIDE DEF place, bad
  <2> QED
    BY <1>5, <2>2, <2>3, <2>4
<1>7. CASE p # 1
  <2> DEFINE q == p - 1
             c == block[q]
  <2>1. q \in 1..Len(parts) /\ q \in 1..(Len(parts) - 1) /\ q + 1 = p /\ ~(p <= q)
    BY <1>5, <1>7
  <2>2. q \notin bad
    BY <1>4, <2>1
  <2>3. begin[p] = parts[p].isg + (begin[q] + PartTicks(parts[q]))
    BY <1>1, <1>5, <1>7
  <2> HIDE DEF q
  <2>4. /\ c \in 1..Len(segments) /\ len[c] \in Nat /\ at[q] \in 1..len[c]
        /\ parts[q].type = segments[c].type
        /\ segments[c].offset \in Nat /\ segments[c].isg \in Nat /\ segments[c].duration \in Nat
    BY <1>3, <2>1 DEF Along
  <2>5. IF at[q] < len[c] THEN b = c /\ at[p] = at[q] + 1
        ELSE b = c + 1 /\ at[p] = 1
    BY <2>1 DEF OneByOne
  <2>6. segments[c].type = "tx"
    <3>1. CASE b = c
      BY <1>5, <3>1
    <3>2. CASE b # c
      <4>1. c \in 1..(Len(segments) - 1)
        BY <1>3, <1>5, <2>4, <2>5, <3>2
      <4> QED
        BY <1>3, <4>1
    <3> QED
      BY <3>1, <3>2
  <2> DEFINE y == (len[c] - 1) * full
  <2>7. begin[q] = segments[c].offset + segments[c].isg + place(q)
    BY <2>1, <2>2, <2>4, <2>6
  <2>8. /\ y \in Nat /\ y <= segments[c].duration
        /\ PartTicks(parts[q]) = IF at[q] < len[c] THEN full ELSE segments[c].duration - y
    BY <2>1, <2>6 DEF Along, full
  <2>9. place(q) \in Nat
    <3> DEFINE a == at[q]
               last == len[c]
    <3>1. a \in 1..last /\ last \in Nat
      BY <2>4
    <3> HIDE DEF a, last
    <3>2. a \in Nat /\ a # 0
      BY <3>1
    <3>3. (a - 1) * full \in Nat
      BY <1>2, <3>2, PlacesLemma
    <3> QED
      BY <3>3 DEF a
  <2>10. CASE at[q] < len[c]
    <3>1. b = c /\ at[p] = at[q] + 1 /\ at[q] \in Nat /\ at[q] # 0 /\ at[p] # 1
      BY <2>4, <2>5, <2>10
    <3>2. place(p) = place(q) + full
      <4>1. (at[q] - 1) * full + full = at[q] * full
        BY <1>2, <3>1, PlacesLemma
      <4>2. at[p] - 1 = at[q]
        BY <3>1
      <4>3. place(p) = at[q] * full /\ place(q) = (at[q] - 1) * full
        BY <4>2
      <4> HIDE DEF place, bad
      <4> QED
        BY <4>1, <4>3
    <3>3. begin[p] = 0 + (begin[q] + full)
      BY <1>5, <2>3, <2>8, <2>10, <3>1
    <3> DEFINE start == segments[c].offset + segments[c].isg
               x == place(q)
    <3>4. start \in Nat /\ begin[q] = start + x /\ x \in Nat
      <4> HIDE DEF bad, place, y, c
      <4>1. start \in Nat
        BY <2>4
      <4> QED
        BY <2>7, <2>9, <4>1
    <3>5. begin[p] # start + place(p)
      BY <1>5, <3>1
    <3>6. place(p) = x + full
      BY <3>2
    <3> HIDE DEF bad, place, y, b, c, start, x
    <3> QED
      BY <1>2, <3>3, <3>4, <3>5, <3>6
  <2>11. CASE ~(at[q] < len[c])
    <3>1. b = c + 1 /\ at[p] = 1 /\ at[q] = len[c]
      BY <2>4, <2>5, <2>11
    <3>2. place(p) = 0 /\ place(q) = y
      BY <1>2, <3>1
    <3>3. begin[p] = segments[b].isg + (begin[q] + (segments[c].duration - y))
      BY <1>5, <2>3, <2>8, <2>11, <3>1
    <3>4. segments[b].offset = segments[c].offset + segments[c].isg + segments[c].duration
      <4>1. c \in 1..(Len(segments) - 1)
        <5> DEFINE last == Len(segments)
        <5>1. c \in 1..last /\ b \in 1..last /\ b = c + 1 /\ last \in Nat
          BY <1>3, <1>5, <2>4, <3>1
        <5> HIDE DEF b, c, last
        <5>2. c \in 1..(last - 1)
          BY <5>1
        <5> QED
          BY <5>2 DEF last
      <4> QED
        BY <1>3, <3>1, <4>1 DEF EndOf
    <3> DEFINE start == segments[c].offset + segments[c].isg
               duration == segments[c].duration
    <3> HIDE DEF bad, place, y, b, c
    <3>5. /\ start \in Nat /\ duration \in Nat /\ begin[q] = start + y
          /\ segments[b].offset = start + duration
      <4>1. start \in Nat /\ duration \in Nat
        BY <2>4
      <4>2. begin[q] = start + place(q) /\ place(q) = y
        BY <2>7, <3>2
      <4>3. segments[b].offset = start + duration
        BY <3>4
      <4> QED
        BY <4>1, <4>2, <4>3
    <3> HIDE DEF start, duration
    <3>6. begin[p] = segments[b].isg + ((start + y) + (duration - y))
      BY <3>3, <3>5 DEF duration
    <3>7. begin[p] = segments[b].offset + segments[b].isg
      BY <1>5, <2>8, <3>5, <3>6
    <3> QED
      BY <1>5, <3>2, <3>7
  <2> QED
    BY <2>10, <2>11
<1> QED
  BY <1>6, <1>7

\* A measurement chain is on time.
LEMMA ChainOnTime ==
  ASSUME NEW segments, MeasuredTimeline(segments), NEW rate \in Nat, rate # 0, Len(segments) # 0,
         NEW ids \in [1..Len(segments) -> Int],
         \A k \in Transmissions(segments) : PacketsFit((rate * segments[k].duration) \div Second, rate)
  PROVE  OnTime(MeasurementChain(segments, rate, ids), segments, rate)
<1> DEFINE splits == PartsOf(segments, rate, ids)
           parts == MeasurementChain(segments, rate, ids)
           full == FullTicks(rate)
           n == Len(segments)
<1>1. SplitsOnTime(splits, segments, rate)
  BY SplitsLemma
<1>2. parts = FlattenSeq(splits)
  BY DEF MeasurementChain, PartsOf
<1> HIDE DEF splits, parts
<1>3. parts \in Seq(PartType) /\ \E block, at : LaidOut(parts, splits, Len(splits), block, at)
  BY <1>1, <1>2, FlattenLemma DEF SplitsOnTime
<1>4. PICK block, at : LaidOut(parts, splits, Len(splits), block, at)
  BY <1>3
<1>5. /\ Len(parts) \in Nat /\ DOMAIN parts = 1..Len(parts) /\ n \in Nat /\ Len(splits) = n
      /\ \A b \in 1..n : Len(splits[b]) \in Nat /\ Len(splits[b]) # 0
  BY <1>1, <1>3 DEF SplitsOnTime, MeasuredTimeline
<1> DEFINE len == [b \in 1..n |-> Len(splits[b])]
<1>6. \A b \in 1..n : len[b] = Len(splits[b])
  OBVIOUS
<1> HIDE DEF len, n
<1>7. Along(parts, segments, rate, block, at, len)
  <2> SUFFICES ASSUME NEW p \in 1..Len(parts)
               PROVE  /\ block[p] \in 1..n
                      /\ len[block[p]] \in Nat /\ at[p] \in 1..len[block[p]]
                      /\ parts[p].type = segments[block[p]].type /\ parts[p].rate = rate
                      /\ parts[p].isg = (IF at[p] = 1 THEN segments[block[p]].isg ELSE 0)
                      /\ PartTicks(parts[p]) \in Nat
                      /\ segments[block[p]].type = "tx" =>
                           /\ (len[block[p]] - 1) * full \in Nat
                           /\ (len[block[p]] - 1) * full <= segments[block[p]].duration
                           /\ PartTicks(parts[p]) = IF at[p] < len[block[p]] THEN full
                                ELSE segments[block[p]].duration - (len[block[p]] - 1) * full
    BY DEF Along, n, full
  <2> DEFINE b == block[p]
             a == at[p]
  <2>1. b \in 1..n /\ a \in 1..Len(splits[b]) /\ parts[p] = splits[b][a]
    BY <1>4, <1>5 DEF LaidOut
  <2> HIDE DEF a, b, full
  <2>2. /\ splits[b][a].type = segments[b].type /\ splits[b][a].rate = rate
        /\ splits[b][a].isg = (IF a = 1 THEN segments[b].isg ELSE 0)
        /\ PartTicks(splits[b][a]) \in Nat
        /\ segments[b].type = "tx" => TakesTicks(splits[b], segments[b].duration, full)
    BY <1>1, <2>1 DEF SplitsOnTime, n, full
  <2>3. segments[b].type = "tx" =>
          /\ (Len(splits[b]) - 1) * full \in Nat
          /\ (Len(splits[b]) - 1) * full <= segments[b].duration
          /\ PartTicks(splits[b][a]) = IF a < Len(splits[b]) THEN full
               ELSE segments[b].duration - (Len(splits[b]) - 1) * full
    BY <2>1, <2>2 DEF TakesTicks
  <2>4. len[b] = Len(splits[b]) /\ len[b] \in Nat
    BY <1>5, <1>6, <2>1
  <2> QED
    BY <2>1, <2>2, <2>3, <2>4 DEF a, b
<1>8. OneByOne(parts, block, at, len)
  <2>1. n # 0 /\ LaidOut(parts, splits, n, block, at)
    BY <1>4, <1>5 DEF n
  <2>2. /\ Len(parts) # 0 /\ block[1] = 1 /\ at[1] = 1
        /\ \A p \in 1..(Len(parts) - 1) :
              IF at[p] < Len(splits[block[p]])
              THEN block[p + 1] = block[p] /\ at[p + 1] = at[p] + 1
              ELSE block[p + 1] = block[p] + 1 /\ at[p + 1] = 1
    <3> DEFINE Next1(p) == IF at[p] < Len(splits[block[p]])
                           THEN block[p + 1] = block[p] /\ at[p + 1] = at[p] + 1
                           ELSE block[p + 1] = block[p] + 1 /\ at[p + 1] = 1
    <3>1. \A b \in 1..n : Len(splits[b]) \in Nat /\ Len(splits[b]) # 0
      BY <1>5
    <3>2. Len(parts) \in Nat /\ n \in Nat
      BY <1>5
    <3> QED
      BY <2>1, <3>1, <3>2, NextLaidOut
  <2>3. \A p \in 1..(Len(parts) - 1) : len[block[p]] = Len(splits[block[p]])
    <3> TAKE p \in 1..(Len(parts) - 1)
    <3>1. p \in 1..Len(parts)
      BY <1>5
    <3> QED
      BY <1>4, <1>5, <1>6, <3>1 DEF LaidOut
  <2> QED
    BY <2>2, <2>3 DEF OneByOne
<1>9. \A b \in 1..n : \A a \in 1..len[b] : \E p \in 1..Len(parts) : block[p] = b /\ at[p] = a
  BY <1>4, <1>5, <1>6 DEF LaidOut
<1>10. \A p \in 1..Len(parts) : parts[p].type = "tx" =>
           Begins(parts)[p] = segments[block[p]].offset + segments[block[p]].isg + (at[p] - 1) * full
  BY <1>5, <1>7, <1>8, PlaceOnTime
<1>11. full \in Nat
  BY FullTicksLemma
<1>12. \A b \in 1..n : {segments[b].offset, segments[b].isg, segments[b].duration} \subseteq Nat
  BY DEF MeasuredTimeline, n
<1> HIDE DEF full
<1>13. ASSUME NEW k \in 1..Len(parts)
       PROVE  parts[k].isg \in Nat /\ PartTicks(parts[k]) \in Nat /\ parts[k].rate = rate
  <2>1. block[k] \in 1..n /\ parts[k].isg = (IF at[k] = 1 THEN segments[block[k]].isg ELSE 0)
        /\ PartTicks(parts[k]) \in Nat /\ parts[k].rate = rate
    BY <1>7 DEF Along, n
  <2> QED
    BY <1>12, <2>1
<1>14. \A k, l \in 1..Len(parts), t \in Nat : Transmits(parts, k, t) /\ Transmits(parts, l, t) => k = l
  <2>1. \A k \in 1..Len(parts) : parts[k].isg \in Nat /\ PartTicks(parts[k]) \in Nat
    BY <1>13
  <2> QED
    BY <1>5, <2>1, ChainOrder
<1>15. ASSUME NEW t \in Nat, NEW p \in 1..Len(parts), Transmits(parts, p, t)
       PROVE  Covered(segments, t)
  <2> DEFINE b == block[p]
             a == at[p]
             y == (len[b] - 1) * full
             x == (a - 1) * full
  <2>1. /\ b \in 1..n /\ len[b] \in Nat /\ a \in 1..len[b] /\ parts[p].type = segments[b].type
        /\ parts[p].type = "tx"
    BY <1>7, <1>15 DEF Along, Transmits, n
  <2>2. y \in Nat /\ y <= segments[b].duration
        /\ PartTicks(parts[p]) = IF a < len[b] THEN full ELSE segments[b].duration - y
    BY <1>7, <2>1 DEF Along, n, full
  <2>3. Begins(parts)[p] = segments[b].offset + segments[b].isg + x
    BY <1>10, <2>1
  <2>4. Begins(parts)[p] <= t /\ t < Begins(parts)[p] + PartTicks(parts[p])
    BY <1>15 DEF Transmits
  <2>5. a \in Nat /\ a # 0 /\ x \in Nat /\ x + full = a * full
    <3>1. a \in Nat /\ a # 0
      BY <2>1
    <3> QED
      BY <1>11, <3>1, PlacesLemma
  <2>6. a < len[b] => x + full <= y
    <3> SUFFICES ASSUME a < len[b] PROVE a * full <= y
      BY <2>5
    <3>1. len[b] - 1 \in Nat /\ a <= len[b] - 1
      BY <2>1, <2>5
    <3> QED
      BY <1>11, <2>5, <3>1, PlacesLemma
  <2>7. ~(a < len[b]) => x = y
    BY <2>1, <2>5
  <2>8. segments[b].offset \in Nat /\ segments[b].isg \in Nat /\ segments[b].duration \in Nat
    BY <1>12, <2>1
  <2>9. Covers(segments[b], t)
    <3> HIDE DEF x, y, a, b
    <3>1. segments[b].offset + segments[b].isg <= t
      BY <2>3, <2>4, <2>5, <2>8
    <3>2. t < segments[b].offset + segments[b].isg + segments[b].duration
      <4> DEFINE start == segments[b].offset + segments[b].isg
                 duration == segments[b].duration
      <4>1. start \in Nat /\ duration \in Nat
        BY <2>8
      <4>2. t < (start + x) + PartTicks(parts[p]) /\ y <= duration
        BY <2>2, <2>3, <2>4
      <4> HIDE DEF start, duration
      <4> DEFINE ticks == PartTicks(parts[p])
      <4>3. (ticks = full /\ x + full <= y) \/ (ticks = duration - y /\ x = y)
        BY <2>2, <2>6, <2>7 DEF duration
      <4>4. t < (start + x) + ticks
        BY <4>2
      <4> HIDE DEF ticks
      <4>5. t < start + duration
        BY <1>11, <2>2, <2>5, <4>1, <4>2, <4>3, <4>4
      <4> QED
        BY <4>5 DEF start, duration
    <3> QED
      BY <2>1, <3>1, <3>2 DEF Covers, EndOf
  <2> QED
    BY <2>1, <2>9 DEF Covered, n
<1>16. ASSUME NEW t \in Nat, NEW b \in 1..n, Covers(segments[b], t)
       PROVE  \E p \in 1..Len(parts) : Transmits(parts, p, t)
  <2> DEFINE start == segments[b].offset + segments[b].isg
             duration == segments[b].duration
             last == len[b]
             y == (last - 1) * full
             x == t - start
  <2>1. start \in Nat /\ duration \in Nat /\ segments[b].type = "tx"
        /\ x \in Nat /\ x < duration
    <3>1. segments[b].offset \in Nat /\ segments[b].isg \in Nat /\ duration \in Nat
      BY <1>12
    <3>2. segments[b].type = "tx" /\ start <= t /\ t < EndOf(segments[b])
      BY <1>16 DEF Covers
    <3>3. EndOf(segments[b]) = start + duration
      BY DEF EndOf
    <3>4. start \in Nat /\ duration \in Nat
      BY <3>1
    <3> HIDE DEF start, duration
    <3>5. x \in Nat /\ x < duration
      BY <3>2, <3>3, <3>4
    <3> QED
      BY <3>2, <3>4, <3>5
  <2>2. last \in Nat /\ last # 0
    <3>1. last = Len(splits[b])
      BY <1>6
    <3> QED
      BY <1>5, <3>1
  <2>3. PICK q \in 1..Len(parts) : block[q] = b /\ at[q] = 1
    <3>1. 1 \in 1..len[b]
      BY <2>2
    <3> QED
      BY <1>9, <3>1
  <2>4. y \in Nat /\ y <= duration
    BY <1>7, <2>1, <2>3 DEF Along, full
  <2> HIDE DEF x, start
  <2>5. PICK a \in 1..last : (a - 1) * full <= x
           /\ x < (a - 1) * full + (IF a < last THEN full ELSE duration - y)
    <3> HIDE DEF last, duration
    <3> QED
      BY <1>11, <2>1, <2>2, <2>4, SubstreamAt
  <2>6. PICK p \in 1..Len(parts) : block[p] = b /\ at[p] = a
    BY <1>9, <2>5
  <2> DEFINE z == (a - 1) * full
  <2>7. z \in Nat
    <3>1. a \in Nat /\ a # 0
      BY <2>2, <2>5
    <3> QED
      BY <1>11, <3>1, PlacesLemma
  <2>8. parts[p].type = "tx" /\ PartTicks(parts[p]) = IF a < last THEN full ELSE duration - y
    BY <1>7, <2>1, <2>6 DEF Along, full
  <2>9. Begins(parts)[p] = start + z
    BY <1>10, <2>6, <2>8 DEF start
  <2>10. Transmits(parts, p, t)
    <3>1. t = start + x
      BY <2>1 DEF start, x
    <3>2. z <= x /\ x < z + PartTicks(parts[p])
      BY <2>5, <2>8
    <3>3. PartTicks(parts[p]) \in Nat
      BY <1>13
    <3> HIDE DEF z
    <3> QED
      BY <2>1, <2>7, <2>8, <2>9, <3>1, <3>2, <3>3 DEF Transmits
  <2> QED
    BY <2>10
<1>17. ASSUME NEW t \in Nat
       PROVE  (\E p \in 1..Len(parts) : Transmits(parts, p, t)) <=> Covered(segments, t)
  BY <1>15, <1>16 DEF Covered, n
<1> QED
  BY <1>3, <1>13, <1>14, <1>17 DEF OnTime, parts

-----------------------------------------------------------------------------
(* Sums.                                                                   *)

\* Of the subsets of a finite set that are not good one is smallest.
LEMMA SmallestSubset ==
  ASSUME NEW S, IsFiniteSet(S), NEW B \in SUBSET (SUBSET S), B # {}
  PROVE  \E s \in B : \A t \in B : Cardinality(t) >= Cardinality(s)
<1> DEFINE sizes == {Cardinality(s) : s \in B}
<1>1. \A s \in B : Cardinality(s) \in Nat
  BY FS_Subset, FS_CardinalityType
<1>2. sizes \in SUBSET Nat /\ sizes # {}
  BY <1>1
<1>3. PICK n \in sizes : \A m \in sizes : n <= m
  <2> HIDE DEF sizes
  <2> QED
    BY <1>2, SmallestLemma
<1>4. PICK s \in B : n = Cardinality(s)
  BY <1>3
<1>5. \A t \in B : Cardinality(t) \in sizes
  OBVIOUS
<1> HIDE DEF sizes
<1>6. \A t \in B : Cardinality(t) \in Nat /\ n <= Cardinality(t) /\ n \in Nat
  BY <1>1, <1>3, <1>4, <1>5
<1> QED
  BY <1>4, <1>6

\* What TLA+ sums up a function with: some element first, then the others.
One(s) == CHOOSE x \in s : TRUE

\* The recursion that sums them up.
Sums(g, fun, T) == g = [s \in T |-> IF s = {} THEN 0 ELSE fun[One(s)] + g[s \ {One(s)}]]

\* A set without one of its elements is smaller.
LEMMA OneLemma ==
  ASSUME NEW S, IsFiniteSet(S), NEW s \in SUBSET S, s # {}
  PROVE  /\ One(s) \in s /\ IsFiniteSet(s) /\ s \ {One(s)} \in SUBSET S
         /\ Cardinality(s) \in Nat
         /\ Cardinality(s \ {One(s)}) = Cardinality(s) - 1
<1>1. One(s) \in s
  BY DEF One
<1>2. IsFiniteSet(s) /\ Cardinality(s) \in Nat
  BY FS_Subset, FS_CardinalityType
<1> QED
  BY <1>1, <1>2, FS_RemoveElement

\* The recursion that a sum is defined by has a solution.
LEMMA SumsExist ==
  ASSUME NEW S, IsFiniteSet(S), NEW fun
  PROVE  \E g : Sums(g, fun, SUBSET S)
<1> DEFINE Small(n) == {s \in SUBSET S : Cardinality(s) <= n}
           bad == {n \in Nat : ~\E g : Sums(g, fun, Small(n))}
<1>1. ASSUME bad # {}
      PROVE  FALSE
  <2>1. PICK n \in bad : \A m \in bad : n <= m
    <3>1. bad \in SUBSET Nat
      OBVIOUS
    <3> HIDE DEF bad
    <3> QED
      BY <1>1, <3>1, SmallestLemma
  <2>2. CASE n = 0
    <3> DEFINE g == [s \in Small(0) |-> 0]
    <3>1. \A s \in Small(0) : s = {}
      BY FS_Subset, FS_EmptySet, FS_CardinalityType
    <3>2. Sums(g, fun, Small(0))
      BY <3>1 DEF Sums
    <3> QED
      BY <2>2, <3>2
  <2>3. CASE n # 0
    <3>1. n \in Nat /\ n - 1 \in Nat /\ ~(n <= n - 1)
      BY <2>3
    <3>2. PICK g : Sums(g, fun, Small(n - 1))
      BY <2>1, <3>1
    <3> DEFINE value(s) == IF s = {} THEN 0 ELSE fun[One(s)] + g[s \ {One(s)}]
               h == [s \in Small(n) |-> value(s)]
    <3>3. \A s \in Small(n - 1) : g[s] = value(s)
      BY <3>2 DEF Sums
    <3>4. ASSUME NEW s \in Small(n)
          PROVE  h[s] = IF s = {} THEN 0 ELSE fun[One(s)] + h[s \ {One(s)}]
      <4>1. CASE s = {}
        BY <4>1
      <4>2. CASE s # {}
        <5>1. s \ {One(s)} \in Small(n - 1) /\ s \ {One(s)} \in Small(n)
          BY <3>1, <4>2, OneLemma
        <5>2. h[s \ {One(s)}] = g[s \ {One(s)}]
          BY <3>3, <5>1
        <5> QED
          BY <4>2, <5>2
      <4> QED
        BY <4>1, <4>2
    <3>5. Sums(h, fun, Small(n))
      <4> HIDE DEF value, Small
      <4>1. h = [s \in Small(n) |-> h[s]]
        OBVIOUS
      <4> QED
        BY <3>4, <4>1 DEF Sums
    <3> QED
      BY <3>5
  <2> QED
    BY <2>2, <2>3
<1>2. Cardinality(S) \in Nat /\ Small(Cardinality(S)) = SUBSET S
  BY FS_CardinalityType, FS_Subset
<1> QED
  BY <1>1, <1>2

\* A sum is the value of such a solution.
LEMMA SumLemma ==
  ASSUME NEW S, IsFiniteSet(S), NEW fun
  PROVE  \E g : Sums(g, fun, SUBSET S) /\ SumFunctionOnSet(fun, S) = g[S]
<1>1. SumFunctionOnSet(fun, S) = (CHOOSE g : Sums(g, fun, SUBSET S))[S]
  BY DEF SumFunctionOnSet, FoldFunctionOnSet, MapThenFoldSet, Sums, One
<1> QED
  BY <1>1, SumsExist

\* A function has one value on one part of its domain, another on another part,
\* and is zero elsewhere.
TwoValues(fun, S, A, B, a, b) ==
  /\ A \in SUBSET S /\ B \in SUBSET S /\ A \cap B = {} /\ a \in Nat /\ b \in Nat
  /\ \A x \in A : fun[x] = a
  /\ \A x \in B : fun[x] = b
  /\ \A x \in S \ (A \cup B) : fun[x] = 0

\* Then its sum is that of two products.
LEMMA SumOfTwo ==
  ASSUME NEW S, IsFiniteSet(S), NEW fun, NEW A, NEW B, NEW a, NEW b, TwoValues(fun, S, A, B, a, b)
  PROVE  /\ Cardinality(A) \in Nat /\ Cardinality(B) \in Nat
         /\ SumFunctionOnSet(fun, S) = a * Cardinality(A) + b * Cardinality(B)
<1> USE DEF TwoValues
<1>1. PICK g : Sums(g, fun, SUBSET S) /\ SumFunctionOnSet(fun, S) = g[S]
  BY SumLemma
<1>2. \A s \in SUBSET S : g[s] = IF s = {} THEN 0 ELSE fun[One(s)] + g[s \ {One(s)}]
  BY <1>1 DEF Sums
<1> DEFINE inA(s) == Cardinality(s \cap A)
           inB(s) == Cardinality(s \cap B)
           good(s) == g[s] = a * inA(s) + b * inB(s)
           bad == {s \in SUBSET S : ~good(s)}
<1>3. \A s \in SUBSET S : /\ IsFiniteSet(s \cap A) /\ IsFiniteSet(s \cap B)
                          /\ inA(s) \in Nat /\ inB(s) \in Nat
  BY FS_Subset, FS_CardinalityType
<1>4. ASSUME bad # {}
      PROVE  FALSE
  <2>1. bad \in SUBSET (SUBSET S)
    OBVIOUS
  <2>2. PICK s \in bad : \A t \in bad : Cardinality(t) >= Cardinality(s)
    <3> HIDE DEF bad
    <3> QED
      BY <1>4, <2>1, SmallestSubset
  <2>3. s \in SUBSET S /\ ~good(s)
    OBVIOUS
  <2>4. s # {}
    <3> SUFFICES ASSUME s = {} PROVE FALSE
      OBVIOUS
    <3>1. g[s] = 0 /\ s \cap A = {} /\ s \cap B = {}
      BY <1>2, <2>3
    <3>2. inA(s) = 0 /\ inB(s) = 0
      BY <3>1, FS_EmptySet
    <3> QED
      BY <2>3, <3>1, <3>2
  <2> DEFINE x == One(s)
             rest == s \ {x}
  <2>5. x \in s /\ rest \in SUBSET S /\ Cardinality(s) \in Nat
          /\ Cardinality(rest) = Cardinality(s) - 1
    BY <2>3, <2>4, OneLemma
  <2>6. good(rest)
    <3>1. rest \notin bad
      <4> SUFFICES ASSUME rest \in bad PROVE FALSE
        OBVIOUS
      <4> HIDE DEF bad, rest
      <4>1. Cardinality(rest) >= Cardinality(s)
        BY <2>2
      <4> QED
        BY <2>5, <4>1
    <3> HIDE DEF good, rest
    <3> QED
      BY <2>5, <3>1
  <2>7. g[s] = fun[x] + g[rest]
    BY <1>2, <2>3, <2>4
  <2>8. rest \cap A = (s \cap A) \ {x} /\ rest \cap B = (s \cap B) \ {x}
    OBVIOUS
  <2> HIDE DEF x
  <2>9. x \in A => inA(rest) = inA(s) - 1
    BY <1>3, <2>3, <2>5, <2>8, FS_RemoveElement
  <2>10. x \notin A => inA(rest) = inA(s)
    <3> SUFFICES ASSUME x \notin A PROVE rest \cap A = s \cap A
      OBVIOUS
    <3> QED
      BY <2>8
  <2>11. x \in B => inB(rest) = inB(s) - 1
    BY <1>3, <2>3, <2>5, <2>8, FS_RemoveElement
  <2>12. x \notin B => inB(rest) = inB(s)
    <3> SUFFICES ASSUME x \notin B PROVE rest \cap B = s \cap B
      OBVIOUS
    <3> QED
      BY <2>8
  <2>13. inA(s) \in Nat /\ inB(s) \in Nat /\ inA(rest) \in Nat /\ inB(rest) \in Nat
    BY <1>3, <2>3, <2>5
  <2>14. g[rest] = a * inA(rest) + b * inB(rest) /\ g[s] # a * inA(s) + b * inB(s)
    BY <2>3, <2>6
  <2> HIDE DEF inA, inB, rest
  <2> DEFINE p == inA(rest)
             q == inB(rest)
  <2>15. p \in Nat /\ q \in Nat /\ a * p \in Nat /\ b * q \in Nat
    BY <2>13
  <2>16. CASE x \in A
    <3>1. fun[x] = a /\ x \notin B
      BY <2>16
    <3>2. inA(s) = p + 1 /\ inB(s) = q
      BY <2>9, <2>12, <2>13, <2>16, <3>1
    <3>3. a * (p + 1) = a * p + a
      BY <2>15
    <3> HIDE DEF p, q
    <3> QED
      BY <2>7, <2>14, <2>15, <3>1, <3>2, <3>3 DEF p, q
  <2>17. CASE x \in B
    <3>1. fun[x] = b /\ x \notin A
      BY <2>17
    <3>2. inB(s) = q + 1 /\ inA(s) = p
      BY <2>10, <2>11, <2>13, <2>17, <3>1
    <3>3. b * (q + 1) = b * q + b
      BY <2>15
    <3> HIDE DEF p, q
    <3> QED
      BY <2>7, <2>14, <2>15, <3>1, <3>2, <3>3 DEF p, q
  <2>18. CASE x \notin A /\ x \notin B
    <3>1. fun[x] = 0
      BY <2>3, <2>5, <2>18
    <3> QED
      BY <2>7, <2>10, <2>12, <2>14, <2>15, <2>18, <3>1
  <2> QED
    BY <2>16, <2>17, <2>18
<1>5. good(S)
  <2>1. S \in SUBSET S /\ S \notin bad
    BY <1>4
  <2> QED
    BY <2>1
<1>6. S \cap A = A /\ S \cap B = B
  OBVIOUS
<1> QED
  BY <1>1, <1>3, <1>5, <1>6

\* The sum of a function with one value on a part of its domain, and zero
\* elsewhere.
LEMMA SumOfOne ==
  ASSUME NEW S, IsFiniteSet(S), NEW fun, NEW A \in SUBSET S, NEW a \in Nat,
         \A x \in A : fun[x] = a, \A x \in S \ A : fun[x] = 0
  PROVE  Cardinality(A) \in Nat /\ SumFunctionOnSet(fun, S) = a * Cardinality(A)
<1> DEFINE none == {x \in S : FALSE}
           zero == 0
<1>1. none \in SUBSET S /\ A \cap none = {}
  OBVIOUS
<1>2. zero \in Nat /\ \A x \in none : fun[x] = zero
  OBVIOUS
<1>3. \A x \in S \ (A \cup none) : fun[x] = 0
  OBVIOUS
<1>4. Cardinality(none) = 0
  BY FS_EmptySet
<1> HIDE DEF none, zero
<1>5. /\ Cardinality(A) \in Nat
      /\ SumFunctionOnSet(fun, S) = a * Cardinality(A) + zero * Cardinality(none)
  <2>1. TwoValues(fun, S, A, none, a, zero)
    BY <1>1, <1>2, <1>3 DEF TwoValues
  <2> QED
    BY <2>1, SumOfTwo
<1> DEFINE product == a * Cardinality(A)
<1>6. product \in Nat
  BY <1>5
<1> HIDE DEF product
<1>7. SumFunctionOnSet(fun, S) = product + 0 * 0
  BY <1>4, <1>5 DEF product, zero
<1> QED
  BY <1>5, <1>6, <1>7 DEF product

\* The sum over nothing is 0.
LEMMA SumOfNone == \A fun : SumFunctionOnSet(fun, {}) = 0
<1> TAKE fun
<1>1. IsFiniteSet({})
  BY FS_EmptySet
<1>2. PICK g : Sums(g, fun, SUBSET {}) /\ SumFunctionOnSet(fun, {}) = g[{}]
  BY <1>1, SumLemma
<1>3. {} \in SUBSET {}
  OBVIOUS
<1>4. g[{}] = 0
  <2> DEFINE all == SUBSET {}
             value(s) == IF s = {} THEN 0 ELSE fun[One(s)] + g[s \ {One(s)}]
  <2>1. g = [s \in all |-> value(s)]
    BY <1>2 DEF Sums
  <2>2. {} \in all /\ value({}) = 0
    OBVIOUS
  <2> HIDE DEF all, value
  <2> QED
    BY <2>1, <2>2
<1> QED
  BY <1>2, <1>4

-----------------------------------------------------------------------------
(* The rate of a stream.                                                   *)

\* The image of a finite set under a function that is one to one.
LEMMA OneToOne ==
  ASSUME NEW S, IsFiniteSet(S), NEW f
  PROVE  LET T == {f[x] : x \in S}
         IN  /\ IsFiniteSet(T)
             /\ (\A x, y \in S : f[x] = f[y] => x = y) => Cardinality(T) = Cardinality(S)
<1> DEFINE T == {f[x] : x \in S}
           g == [x \in S |-> f[x]]
<1>1. g \in Surjection(S, T)
  BY DEF Surjection
<1>2. (\A x, y \in S : f[x] = f[y] => x = y) => g \in Injection(S, T)
  BY DEF Injection, IsInjective
<1> HIDE DEF g, T
<1>3. IsFiniteSet(T) /\ (g \in Injection(S, T) => Cardinality(T) = Cardinality(S))
  BY <1>1, FS_Surjection
<1> QED
  BY <1>2, <1>3 DEF T

\* The rate at which a chain transmits at some moment.
LEMMA RateAtLemma ==
  ASSUME NEW c, NEW segments, NEW rate \in Nat, OnTime(c.parts, segments, rate), NEW t \in Nat
  PROVE  RateAt(c, t) = IF Covered(segments, t) THEN rate ELSE 0
<1> DEFINE parts == c.parts
           fun == [k \in DOMAIN parts |-> parts[k].rate]
           K == {k \in DOMAIN parts : Transmits(parts, k, t)}
<1>1. /\ DOMAIN parts = 1..Len(parts) /\ Len(parts) \in Nat
      /\ \A k \in 1..Len(parts) : parts[k].rate = rate
      /\ \A k, l \in K : k = l
      /\ (\E k \in 1..Len(parts) : Transmits(parts, k, t)) <=> Covered(segments, t)
  <2>1. parts \in Seq(PartType)
    BY DEF OnTime
  <2>2. DOMAIN parts = 1..Len(parts) /\ Len(parts) \in Nat
    BY <2>1
  <2> HIDE DEF parts
  <2> QED
    BY <2>2 DEF OnTime, parts
<1>2. RateAt(c, t) = SumFunctionOnSet(fun, K)
  BY DEF RateAt
<1>3. \A k \in K : fun[k] = rate
  BY <1>1
<1>4. IsFiniteSet(K)
  <2>1. IsFiniteSet(1..Len(parts)) /\ K \subseteq 1..Len(parts)
    BY <1>1, FS_Interval
  <2> QED
    BY <2>1, FS_Subset
<1>5. Covered(segments, t) <=> K # {}
  BY <1>1
<1> HIDE DEF K, fun
<1>6. SumFunctionOnSet(fun, K) = rate * Cardinality(K)
  BY <1>3, <1>4, SumOfOne
<1>8. CASE K = {}
  BY <1>2, <1>5, <1>8, SumOfNone
<1>9. CASE K # {}
  <2>1. PICK k : K = {k}
    BY <1>1, <1>9
  <2>2. Cardinality(K) = 1
    BY <2>1, FS_Singleton
  <2> QED
    BY <1>2, <1>5, <1>6, <1>9, <2>2
<1> QED
  BY <1>8, <1>9

\* What a packet gets of the rate in a mode.
ShareOf(stream, latency, mode) ==
  IF mode \in Modes(stream, latency) THEN RateOf(stream, Modes(stream, latency), mode) ELSE 0

\* The modes share the rate of a packet.
LEMMA RatesLemma ==
  ASSUME NEW stream \in StreamType, NEW latency \in BOOLEAN
  PROVE  LET modes == Modes(stream, latency)
             rate == stream.rate \div Sharers(stream)
         IN  /\ modes \subseteq {"latency", "default"} /\ rate \in Nat
             /\ \A mode \in modes : RateOf(stream, modes, mode) \in Nat \ {0}
             /\ ShareOf(stream, latency, "latency") + ShareOf(stream, latency, "default") =
                  IF ~stream.latency_only THEN rate
                  ELSE IF stream.latency /\ latency THEN Shorter(rate, LatencyRate) ELSE 0
<1> DEFINE rate == stream.rate \div Sharers(stream)
           all == (IF stream.latency /\ latency THEN {"latency"} ELSE {})
                    \cup IF stream.latency_only THEN {} ELSE {"default"}
           modes == Modes(stream, latency)
<1>1. rate \in Nat
  BY SharersLemma
<1>2. LatencyRate \in Nat \ {0}
  BY ProfileAssumption
<1>3. /\ all \subseteq {"latency", "default"}
      /\ "latency" \in all <=> stream.latency /\ latency
      /\ "default" \in all <=> ~stream.latency_only
  OBVIOUS
<1>4. modes = {kind \in all : RateOf(stream, all, kind) > 0}
  BY DEF Modes
<1>5. \A some : /\ RateOf(stream, some, "latency") = Shorter(rate, LatencyRate)
               /\ RateOf(stream, some, "default") =
                    IF "latency" \in some THEN rate - LatencyRate ELSE rate
  BY DEF RateOf
<1> HIDE DEF rate, all, modes
<1>6. Shorter(rate, LatencyRate) = (IF rate <= LatencyRate THEN rate ELSE LatencyRate)
  BY DEF Shorter
<1>7. "latency" \in modes <=> "latency" \in all /\ rate > 0
  BY <1>1, <1>2, <1>4, <1>5, <1>6
<1>8. "default" \in modes <=>
        "default" \in all /\ IF "latency" \in all THEN rate > LatencyRate ELSE rate > 0
  BY <1>1, <1>2, <1>4, <1>5, <1>6
<1>9. ASSUME NEW mode \in modes
      PROVE  RateOf(stream, modes, mode) \in Nat \ {0}
  <2>1. mode \in {"latency", "default"}
    BY <1>3, <1>4
  <2>2. CASE mode = "latency"
    BY <1>1, <1>2, <1>5, <1>6, <1>7, <2>2
  <2>3. CASE mode = "default"
    BY <1>1, <1>2, <1>5, <1>7, <1>8, <2>3
  <2> QED
    BY <2>1, <2>2, <2>3
<1>10. ShareOf(stream, latency, "latency") =
         IF stream.latency /\ latency THEN Shorter(rate, LatencyRate) ELSE 0
  <2>1. ShareOf(stream, latency, "latency") =
          IF "latency" \in modes THEN Shorter(rate, LatencyRate) ELSE 0
    BY <1>5 DEF ShareOf, modes
  <2> QED
    BY <1>1, <1>2, <1>3, <1>6, <1>7, <2>1
<1>11. ShareOf(stream, latency, "default") =
         IF "default" \notin modes THEN 0
         ELSE IF "latency" \in modes THEN rate - LatencyRate ELSE rate
  BY <1>5 DEF ShareOf, modes
<1>12. ShareOf(stream, latency, "latency") + ShareOf(stream, latency, "default") =
         IF ~stream.latency_only THEN rate
         ELSE IF stream.latency /\ latency THEN Shorter(rate, LatencyRate) ELSE 0
  <2> DEFINE one == ShareOf(stream, latency, "latency")
             two == ShareOf(stream, latency, "default")
  <2> HIDE DEF one, two
  <2>1. CASE stream.latency_only
    <3>1. two = 0
      BY <1>3, <1>8, <1>11, <2>1 DEF two
    <3> QED
      BY <1>1, <1>2, <1>6, <1>10, <2>1, <3>1 DEF one, two
  <2>2. CASE ~stream.latency_only /\ stream.latency /\ latency
    <3>1. "latency" \in all /\ "default" \in all
      BY <1>3, <2>2
    <3>2. two = IF rate > LatencyRate THEN rate - LatencyRate ELSE 0
      BY <1>1, <1>2, <1>7, <1>8, <1>11, <3>1 DEF two
    <3>3. one = Shorter(rate, LatencyRate)
      BY <1>10, <2>2 DEF one
    <3>4. one + two = rate
      BY <1>1, <1>2, <1>6, <3>2, <3>3
    <3> QED
      BY <2>2, <3>4 DEF one, two
  <2>3. CASE ~stream.latency_only /\ ~(stream.latency /\ latency)
    <3>1. two = rate /\ one = 0
      BY <1>1, <1>3, <1>7, <1>8, <1>10, <1>11, <2>3 DEF one, two
    <3> QED
      BY <1>1, <2>3, <3>1 DEF one, two
  <2> QED
    BY <2>1, <2>2, <2>3
<1>13. modes \subseteq {"latency", "default"}
  BY <1>3, <1>4
<1> QED
  BY <1>1, <1>9, <1>12, <1>13 DEF modes, rate

\* Triples, of a pair and another element.
Triples(A, B, C) == (A \X B) \X C

\* Triples of finite sets are finitely many.
LEMMA TriplesLemma ==
  ASSUME NEW A, NEW B, NEW C
  PROVE  /\ IsFiniteSet(A) /\ IsFiniteSet(B) /\ IsFiniteSet(C) => IsFiniteSet(Triples(A, B, C))
         /\ \A a \in A, b \in B, c \in C : <<<<a, b>>, c>> \in Triples(A, B, C)
         /\ \A x \in Triples(A, B, C) : \E a \in A, b \in B, c \in C : x = <<<<a, b>>, c>>
<1> DEFINE D == A \X B
<1>1. IsFiniteSet(A) /\ IsFiniteSet(B) => IsFiniteSet(D)
  BY FS_Product
<1>2. \A a \in A, b \in B : <<a, b>> \in D
  OBVIOUS
<1>3. \A y \in D : \E a \in A, b \in B : y = <<a, b>>
  OBVIOUS
<1> HIDE DEF D
<1>4. IsFiniteSet(D) /\ IsFiniteSet(C) => IsFiniteSet(D \X C)
  BY FS_Product
<1>5. \A y \in D, c \in C : <<y, c>> \in D \X C
  OBVIOUS
<1>6. \A x \in D \X C : \E y \in D, c \in C : x = <<y, c>>
  OBVIOUS
<1>7. Triples(A, B, C) = D \X C
  BY DEF Triples, D
<1>8. ASSUME NEW x \in Triples(A, B, C)
      PROVE  \E a \in A, b \in B, c \in C : x = <<<<a, b>>, c>>
  <2>1. PICK y \in D, c \in C : x = <<y, c>>
    BY <1>6, <1>7
  <2>2. PICK a \in A, b \in B : y = <<a, b>>
    BY <1>3
  <2> QED
    BY <2>1, <2>2
<1> QED
  BY <1>1, <1>2, <1>4, <1>5, <1>7, <1>8

\* chain[x] is the chain of x = <<repetition, mode, packet>> of a stream.
Places(stream, latency) ==
  Triples(DOMAIN SegmentsOf(stream), Modes(stream, latency), Packets(stream))

\* Each is on time, and two packets that transmit have two chains.
ChainsOnTime(chain, stream, latency) ==
  \A r \in DOMAIN SegmentsOf(stream), mode \in Modes(stream, latency), packet \in Packets(stream) :
    /\ chain[<<<<r, mode>>, packet>>].mode = mode
    /\ OnTime(chain[<<<<r, mode>>, packet>>].parts, SegmentsOf(stream)[r],
              RateOf(stream, Modes(stream, latency), mode))
    /\ \A t \in Nat, other \in Packets(stream) :
         Covered(SegmentsOf(stream)[r], t)
           /\ chain[<<<<r, mode>>, packet>>] = chain[<<<<r, mode>>, other>>] => packet = other

\* Chains that are on time transmit, all together, at the rate of the stream
\* for each packet, at the times of the stream.
LEMMA OfferedTogether ==
  ASSUME NEW stream \in StreamType, stream.offset < Runtime, NEW latency \in BOOLEAN,
         NEW chain, ChainsOnTime(chain, stream, latency),
         NEW C, C = {chain[x] : x \in Places(stream, latency)}, NEW t \in Nat
  PROVE  SumFunctionOnSet([c \in C |-> RateAt(c, t)], C) =
           IF Scheduled(stream, t)
           THEN PacketsOf(stream) *
                  (ShareOf(stream, latency, "latency") + ShareOf(stream, latency, "default"))
           ELSE 0
<1> DEFINE all == SegmentsOf(stream)
           modes == Modes(stream, latency)
           packets == Packets(stream)
           rate(mode) == RateOf(stream, modes, mode)
           fun == [c \in C |-> RateAt(c, t)]
           at(r, mode, packet) == chain[<<<<r, mode>>, packet>>]
<1>1. /\ DOMAIN all = 1..Len(all) /\ Len(all) \in Nat
      /\ Scheduled(stream, t) <=> \E r \in DOMAIN all : Covered(all[r], t)
      /\ \A r, s \in DOMAIN all : Covered(all[r], t) /\ Covered(all[s], t) => r = s
  BY StreamOnTime
<1>2. /\ modes \subseteq {"latency", "default"}
      /\ \A mode \in modes : rate(mode) \in Nat
  BY RatesLemma
<1>3. IsFiniteSet(packets) /\ PacketsOf(stream) = Cardinality(packets) /\ PacketsOf(stream) \in Nat
  <2>1. PacketsOf(stream) \in Nat /\ packets = 1..PacketsOf(stream)
    BY PacketsLemma
  <2>2. PacketsOf(stream) = Cardinality(packets)
    BY DEF PacketsOf
  <2> HIDE DEF packets
  <2>3. IsFiniteSet(packets)
    BY <2>1, FS_Interval
  <2> QED
    BY <2>1, <2>2, <2>3
<1> HIDE DEF all, modes, packets, rate
<1>4. /\ IsFiniteSet(Places(stream, latency))
      /\ \A r \in DOMAIN all, mode \in modes, packet \in packets :
           <<<<r, mode>>, packet>> \in Places(stream, latency)
      /\ \A x \in Places(stream, latency) : \E r \in DOMAIN all, mode \in modes, packet \in packets :
           x = <<<<r, mode>>, packet>>
  <2>1. IsFiniteSet(DOMAIN all)
    BY <1>1, FS_Interval
  <2>2. IsFiniteSet(modes)
    <3>1. IsFiniteSet({"latency"}) /\ {"latency", "default"} = {"latency"} \cup {"default"}
      BY FS_Singleton
    <3>2. IsFiniteSet({"latency", "default"})
      BY <3>1, FS_AddElement
    <3> QED
      BY <1>2, <3>2, FS_Subset
  <2> DEFINE repetitions == DOMAIN all
  <2>3. IsFiniteSet(repetitions)
    BY <2>1
  <2> HIDE DEF repetitions
  <2>4. /\ IsFiniteSet(Triples(repetitions, modes, packets))
        /\ \A r \in repetitions, mode \in modes, packet \in packets :
             <<<<r, mode>>, packet>> \in Triples(repetitions, modes, packets)
        /\ \A x \in Triples(repetitions, modes, packets) :
             \E r \in repetitions, mode \in modes, packet \in packets : x = <<<<r, mode>>, packet>>
    BY <1>3, <2>2, <2>3, TriplesLemma
  <2> QED
    BY <2>4 DEF Places, repetitions, all, modes, packets
<1>14. IsFiniteSet(C)
  BY <1>4, OneToOne
<1>5. ASSUME NEW r \in DOMAIN all, NEW mode \in modes, NEW packet \in packets
      PROVE  /\ at(r, mode, packet) \in C /\ at(r, mode, packet).mode = mode
             /\ fun[at(r, mode, packet)] = IF Covered(all[r], t) THEN rate(mode) ELSE 0
  <2> DEFINE c == at(r, mode, packet)
  <2>1. c.mode = mode /\ OnTime(c.parts, all[r], rate(mode))
    BY DEF ChainsOnTime, all, modes, packets, rate
  <2>2. c \in C
    BY <1>4
  <2> HIDE DEF c
  <2>3. RateAt(c, t) = IF Covered(all[r], t) THEN rate(mode) ELSE 0
    BY <1>2, <2>1, RateAtLemma
  <2> QED
    BY <2>1, <2>2, <2>3 DEF c
<1> HIDE DEF fun
<1>6. \A c \in C : \E r \in DOMAIN all, mode \in modes, packet \in packets : c = at(r, mode, packet)
  <2> TAKE c \in C
  <2>1. PICK x \in Places(stream, latency) : c = chain[x]
    OBVIOUS
  <2>2. PICK r \in DOMAIN all, mode \in modes, packet \in packets : x = <<<<r, mode>>, packet>>
    BY <1>4
  <2> QED
    BY <2>1, <2>2
<1> HIDE DEF at
<1>7. CASE ~Scheduled(stream, t)
  <2>1. ASSUME NEW c \in C PROVE fun[c] = 0
    <3>1. PICK r \in DOMAIN all, mode \in modes, packet \in packets : c = at(r, mode, packet)
      BY <1>6
    <3>2. ~Covered(all[r], t)
      BY <1>1, <1>7
    <3> QED
      BY <1>5, <3>1, <3>2
  <2>2. Cardinality(C) \in Nat /\ SumFunctionOnSet(fun, C) = 0 * Cardinality(C)
    <3>1. C \in SUBSET C /\ \A x \in C \ C : fun[x] = 0
      OBVIOUS
    <3> QED
      BY <1>14, <2>1, <3>1, SumOfOne
  <2> DEFINE size == Cardinality(C)
  <2>3. size \in Nat /\ SumFunctionOnSet(fun, C) = 0 * size
    BY <2>2
  <2> HIDE DEF size
  <2>4. SumFunctionOnSet(fun, C) = 0
    BY <2>3
  <2> QED
    BY <1>7, <2>4 DEF fun
<1>8. CASE Scheduled(stream, t)
  <2>1. PICK r \in DOMAIN all : Covered(all[r], t)
    BY <1>1, <1>8
  <2> DEFINE of(mode) == IF mode \in modes THEN {at(r, mode, packet) : packet \in packets} ELSE {}
             share(mode) == ShareOf(stream, latency, mode)
             p == PacketsOf(stream)
  <2>2. ASSUME NEW mode \in {"latency", "default"}
        PROVE  /\ of(mode) \in SUBSET C
               /\ \A c \in of(mode) : c.mode = mode /\ fun[c] = share(mode)
               /\ share(mode) \in Nat
               /\ share(mode) * Cardinality(of(mode)) = share(mode) * p
    <3>1. CASE mode \notin modes
      <4>1. of(mode) = {} /\ share(mode) = 0
        BY <3>1 DEF ShareOf, modes
      <4>2. Cardinality({}) = 0
        BY FS_EmptySet
      <4> HIDE DEF of, share, p
      <4>3. share(mode) * Cardinality({}) = 0 /\ share(mode) * p = 0 /\ share(mode) \in Nat
        BY <1>3, <4>1, <4>2 DEF p
      <4> QED
        BY <4>1, <4>3
    <3>2. CASE mode \in modes
      <4>1. share(mode) = rate(mode) /\ share(mode) \in Nat
        BY <1>2, <3>2 DEF ShareOf, modes, rate
      <4>2. of(mode) = {at(r, mode, packet) : packet \in packets}
        BY <3>2
      <4>3. \A c \in of(mode) : c \in C /\ c.mode = mode /\ fun[c] = share(mode)
        BY <1>5, <2>1, <3>2, <4>1, <4>2
      <4>4. Cardinality(of(mode)) = p
        <5> DEFINE f == [packet \in packets |-> at(r, mode, packet)]
        <5>1. of(mode) = {f[x] : x \in packets}
          BY <4>2
        <5>2. \A x, y \in packets : at(r, mode, x) = at(r, mode, y) => x = y
          BY <2>1, <3>2 DEF ChainsOnTime, all, modes, packets, at
        <5>3. \A x, y \in packets : f[x] = f[y] => x = y
          BY <5>2
        <5> DEFINE T == {f[x] : x \in packets}
        <5> HIDE DEF f
        <5>4. Cardinality(T) = Cardinality(packets)
          BY <1>3, <5>3, OneToOne
        <5> HIDE DEF of
        <5> QED
          BY <1>3, <5>1, <5>4
      <4> QED
        BY <4>1, <4>3, <4>4
    <3> QED
      BY <3>1, <3>2
  <2> DEFINE A == of("latency")
             B == of("default")
  <2>3. A \cap B = {}
    BY <2>2
  <2>4. \A c \in C \ (A \cup B) : fun[c] = 0
    <3> SUFFICES ASSUME NEW c \in C \ (A \cup B) PROVE fun[c] = 0
      OBVIOUS
    <3>1. PICK s \in DOMAIN all, mode \in modes, packet \in packets : c = at(s, mode, packet)
      BY <1>6
    <3>2. s # r
      <4> SUFFICES ASSUME s = r PROVE FALSE
        OBVIOUS
      <4>1. c \in of(mode) /\ mode \in {"latency", "default"}
        BY <1>2, <3>1
      <4> QED
        BY <4>1
    <3>3. ~Covered(all[s], t)
      BY <1>1, <2>1, <3>2
    <3> QED
      BY <1>5, <3>1, <3>3
  <2>5. SumFunctionOnSet(fun, C) =
          share("latency") * Cardinality(A) + share("default") * Cardinality(B)
    <3>1. /\ A \in SUBSET C /\ B \in SUBSET C /\ share("latency") \in Nat /\ share("default") \in Nat
          /\ \A c \in A : fun[c] = share("latency")
          /\ \A c \in B : fun[c] = share("default")
      BY <2>2
    <3> HIDE DEF A, B, share
    <3> QED
      <4>1. TwoValues(fun, C, A, B, share("latency"), share("default"))
        BY <2>3, <2>4, <3>1 DEF TwoValues
      <4> QED
        BY <1>14, <4>1, SumOfTwo
  <2>6. SumFunctionOnSet(fun, C) = share("latency") * p + share("default") * p
    BY <2>2, <2>5
  <2>7. share("latency") \in Nat /\ share("default") \in Nat /\ p \in Nat
    BY <1>3, <2>2
  <2> HIDE DEF share, p
  <2>8. SumFunctionOnSet(fun, C) = p * (share("latency") + share("default"))
    BY <2>6, <2>7
  <2> QED
    BY <1>8, <2>8 DEF fun, share, p
<1> QED
  BY <1>7, <1>8 DEF fun

-----------------------------------------------------------------------------
(* What is created offers the rate of the stream.                          *)

\* The measurement chains of a direction that are created.
MeasurementsOf(n, i, d) == {c \in create_stream(n, i) : c.kind = "measurement" /\ c.direction = d}

\* The chain of a packet in a repetition and a mode.
ChainAt(n, i, d, x) == ChainOfPacket(n, <<i, d, x[1][2]>>, x[1][1], x[2])

\* A packet has a chain of its own, which is on time.
LEMMA PacketOnTime ==
  ASSUME NEW n, NEW i, profile[n] \in StreamType, ~Skipped(profile[n]),
         params.measure_latency \in BOOLEAN, SubstreamsFit(profile[n]),
         NEW g \in GroupsOf(n, i), pg_ids[g].start \in Nat, used[g] \in Nat,
         NEW r \in DOMAIN SegmentsOf(profile[n]), NEW packet \in Packets(profile[n])
  PROVE  /\ OnTime(ChainOfPacket(n, g, r, packet).parts, SegmentsOf(profile[n])[r],
                   RateOf(profile[n], Modes(profile[n], params.measure_latency), g[3]))
         /\ \A t \in Nat, other \in Packets(profile[n]) :
              Covered(SegmentsOf(profile[n])[r], t)
                /\ ChainOfPacket(n, g, r, packet) = ChainOfPacket(n, g, r, other) => packet = other
<1> DEFINE stream == profile[n]
           all == SegmentsOf(stream)
           segments == all[r]
           modes == Modes(stream, params.measure_latency)
           rate == RateOf(stream, modes, g[3])
           first == FirstOf(n, g, r, packet)
           ids == IdsAlong(segments, g[3], first)
           c == ChainOfPacket(n, g, r, packet)
<1>1. g[3] \in Types /\ g[3] \in modes
  BY DEF GroupsOf, Groups
<1>2. stream.offset < Runtime
  BY ProfileAssumption DEF WholeSeconds, Skipped, StreamType
<1>3. MeasuredTimeline(segments) /\ Len(segments) # 0
  BY <1>2, StreamOnTime
<1>4. /\ segments \in Seq(SegmentType)
      /\ IdsPerChain(g[3], segments) = SizeOf(stream, g[3])
  BY <1>1, SizeLemma
<1>5. first \in Nat
  BY OwnIdsLemma
<1>6. rate \in Nat /\ rate # 0
  BY <1>1, RatesLemma
<1>7. c.parts = MeasurementChain(segments, rate, ids)
  BY <1>4 DEF ChainOfPacket, Chain, FirstOf
<1>8. \A k \in Transmissions(segments) : PacketsFit((rate * segments[k].duration) \div Second, rate)
  BY <1>1 DEF SubstreamsFit, PacketsFit
<1> HIDE DEF c, segments, rate, first, ids
<1>9. ids \in [1..Len(segments) -> Int]
  BY <1>1, <1>4, <1>5, AlongLemma DEF ids
<1>10. OnTime(c.parts, segments, rate)
  BY <1>3, <1>6, <1>7, <1>8, <1>9, ChainOnTime
<1>11. ASSUME NEW t \in Nat, NEW other \in Packets(stream), Covered(segments, t),
              c = ChainOfPacket(n, g, r, other)
       PROVE  packet = other
  <2>1. PICK k \in 1..Len(c.parts) : c.parts[k].type = "tx"
    BY <1>10, <1>11 DEF OnTime, Transmits
  <2>2. k \in DOMAIN c.parts
    <3>1. c.parts \in Seq(PartType)
      BY <1>10 DEF OnTime
    <3> QED
      BY <3>1
  <2>3. IdsOfChain(c) # {}
    BY <2>1, <2>2 DEF IdsOfChain
  <2>4. IdsOfChain(c) \subseteq OwnIds(n, g, r, packet)
    BY NewChainLemma DEF c
  <2>5. IdsOfChain(c) \subseteq OwnIds(n, g, r, other)
    <3>1. IdsOfChain(ChainOfPacket(n, g, r, other)) \subseteq OwnIds(n, g, r, other)
      BY NewChainLemma
    <3> QED
      BY <1>11, <3>1
  <2>6. OwnIds(n, g, r, other) \cap OwnIds(n, g, r, packet) # {}
    BY <2>3, <2>4, <2>5
  <2> QED
    BY <2>6, OwnIdsLemma
<1> QED
  BY <1>10, <1>11 DEF c, segments, rate

\* What places there are.
LEMMA PlacesOf ==
  ASSUME NEW stream, NEW latency
  PROVE  /\ \A r \in DOMAIN SegmentsOf(stream), mode \in Modes(stream, latency), packet \in Packets(stream) :
              <<<<r, mode>>, packet>> \in Places(stream, latency)
         /\ \A x \in Places(stream, latency) :
              \E r \in DOMAIN SegmentsOf(stream), mode \in Modes(stream, latency), packet \in Packets(stream) :
                x = <<<<r, mode>>, packet>>
<1> DEFINE A == DOMAIN SegmentsOf(stream)
           B == Modes(stream, latency)
           C == Packets(stream)
<1>1. Places(stream, latency) = Triples(A, B, C)
  BY DEF Places
<1> HIDE DEF A, B, C
<1>2. /\ \A a \in A, b \in B, c \in C : <<<<a, b>>, c>> \in Triples(A, B, C)
      /\ \A x \in Triples(A, B, C) : \E a \in A, b \in B, c \in C : x = <<<<a, b>>, c>>
  BY TriplesLemma
<1> QED
  BY <1>1, <1>2 DEF A, B, C

\* They are one chain on time for each place.
LEMMA CreatedOnTime ==
  ASSUME NEW n, NEW i \in Pairs, profile[n] \in StreamType, ~Skipped(profile[n]),
         params.measure_latency \in BOOLEAN, SubstreamsFit(profile[n]), Measured(profile[n]),
         \A g \in Groups : pg_ids[g].start \in Nat /\ used[g] \in Nat,
         NEW d \in profile[n].traffic_direction
  PROVE  LET places == Places(profile[n], params.measure_latency)
             chain == [x \in places |-> ChainAt(n, i, d, x)]
         IN  /\ ChainsOnTime(chain, profile[n], params.measure_latency)
             /\ MeasurementsOf(n, i, d) = {chain[x] : x \in places}
<1> DEFINE stream == profile[n]
           latency == params.measure_latency
           modes == Modes(stream, latency)
           all == SegmentsOf(stream)
           packets == Packets(stream)
           places == Places(stream, latency)
           chain == [x \in places |-> ChainAt(n, i, d, x)]
           of(r, mode, packet) == ChainOfPacket(n, <<i, d, mode>>, r, packet)
<1>1. d \in Directions /\ modes \subseteq Types
  <2>1. modes \subseteq {"latency", "default"}
    BY RatesLemma
  <2> QED
    BY <2>1 DEF StreamType, Types
<1>2. /\ \A r \in DOMAIN all, mode \in modes, packet \in packets :
           <<<<r, mode>>, packet>> \in places
      /\ \A x \in places : \E r \in DOMAIN all, mode \in modes, packet \in packets :
           x = <<<<r, mode>>, packet>>
  BY PlacesOf
<1>3. \A mode \in modes : <<i, d, mode>> \in GroupsOf(n, i)
  <2> TAKE mode \in modes
  <2>1. <<i, d, mode>> \in Groups
    BY <1>1 DEF Groups
  <2> QED
    BY <2>1 DEF GroupsOf
<1> HIDE DEF places, all, modes, packets
<1>4. \A r \in DOMAIN all, mode \in modes, packet \in packets :
        chain[<<<<r, mode>>, packet>>] = of(r, mode, packet)
  BY <1>2 DEF ChainAt
<1>5. ASSUME NEW r \in DOMAIN all, NEW mode \in modes, NEW packet \in packets
      PROVE  /\ of(r, mode, packet).mode = mode /\ of(r, mode, packet).kind = "measurement"
             /\ of(r, mode, packet).direction = d
             /\ OnTime(of(r, mode, packet).parts, all[r], RateOf(stream, modes, mode))
             /\ \A t \in Nat, other \in packets :
                  Covered(all[r], t) /\ of(r, mode, packet) = of(r, mode, other) => packet = other
  <2> DEFINE g == <<i, d, mode>>
  <2>1. g \in GroupsOf(n, i) /\ pg_ids[g].start \in Nat /\ used[g] \in Nat /\ g[3] = mode /\ g[2] = d
    BY <1>3 DEF GroupsOf
  <2> HIDE DEF g
  <2>2. /\ OnTime(ChainOfPacket(n, g, r, packet).parts, all[r], RateOf(stream, modes, g[3]))
        /\ \A t \in Nat, other \in packets :
              Covered(all[r], t)
                /\ ChainOfPacket(n, g, r, packet) = ChainOfPacket(n, g, r, other) => packet = other
    BY <2>1, PacketOnTime DEF all, modes, packets
  <2>3. /\ ChainOfPacket(n, g, r, packet).mode = g[3]
        /\ ChainOfPacket(n, g, r, packet).kind = "measurement"
        /\ ChainOfPacket(n, g, r, packet).direction = g[2]
    BY DEF ChainOfPacket, Chain
  <2> QED
    BY <2>1, <2>2, <2>3 DEF g
<1> HIDE DEF of, chain
<1>6. ChainsOnTime(chain, stream, latency)
  <2> SUFFICES ASSUME NEW r \in DOMAIN all, NEW mode \in modes, NEW packet \in packets
               PROVE  /\ chain[<<<<r, mode>>, packet>>].mode = mode
                      /\ OnTime(chain[<<<<r, mode>>, packet>>].parts, all[r], RateOf(stream, modes, mode))
                      /\ \A t \in Nat, other \in packets :
                           Covered(all[r], t)
                             /\ chain[<<<<r, mode>>, packet>>] = chain[<<<<r, mode>>, other>>]
                           => packet = other
    BY DEF ChainsOnTime, all, modes, packets
  <2> QED
    BY <1>4, <1>5
<1>7. ASSUME NEW c \in MeasurementsOf(n, i, d)
      PROVE  \E x \in places : c = chain[x]
  <2>1. c \in create_stream(n, i) /\ c.kind = "measurement" /\ c.direction = d
    BY DEF MeasurementsOf
  <2>2. PICK g \in GroupsOf(n, i), r \in DOMAIN all, packet \in packets : c = ChainOfPacket(n, g, r, packet)
    BY <2>1, CreatedLemma DEF all, packets
  <2>3. c.direction = g[2]
    BY <2>2 DEF ChainOfPacket, Chain
  <2>4. g = <<i, d, g[3]>> /\ g[3] \in modes
    BY <2>1, <2>3 DEF GroupsOf, Groups, modes
  <2>5. c = of(r, g[3], packet)
    BY <2>2, <2>4 DEF of
  <2> QED
    BY <1>2, <1>4, <2>4, <2>5
<1>8. ASSUME NEW x \in places
      PROVE  chain[x] \in MeasurementsOf(n, i, d)
  <2>1. PICK r \in DOMAIN all, mode \in modes, packet \in packets : x = <<<<r, mode>>, packet>>
    BY <1>2
  <2>2. chain[x] = of(r, mode, packet)
    BY <1>4, <2>1
  <2>3. of(r, mode, packet) \in MeasurementChains(n, i, d, all)
    BY DEF of, ChainOfPacket, MeasurementChains, all, modes, packets, PacketsOf
  <2>4. of(r, mode, packet) \in create_stream(n, i)
    BY <2>3 DEF create_stream, all
  <2> QED
    BY <1>5, <2>2, <2>4 DEF MeasurementsOf
<1> QED
  BY <1>6, <1>7, <1>8 DEF chain, places

-----------------------------------------------------------------------------
(* The turns of the loop over device pairs and streams.                    *)

\* A chain is of a stream and a device pair that are done.
Owned(c, k) == c.stream = StreamOf(k) /\ c.pair = PairOf(k)

\* Chains are of turns that are done, and all are done before traffic is added.
DoneInv ==
  /\ ToldInv
  /\ \A c \in chains : \E k \in 1..turn : Owned(c, k)
  /\ main \in SettingUp => turn = 0
  /\ main \in {"warmup", "add"} => turn = NumPairs * Len(profile)

\* Device pairs and streams are numbered through.
LEMMA NumberLemma ==
  ASSUME Len(profile) \in Nat, Len(profile) # 0, NEW k \in Nat, k # 0
  PROVE  /\ StreamOf(k) \in 1..Len(profile) /\ PairOf(k) \in Nat
         /\ \A j \in Nat \ {0} : StreamOf(j) = StreamOf(k) /\ PairOf(j) = PairOf(k) => j = k
         /\ \A n \in 1..Len(profile), i \in Nat \ {0} :
              LET m == (i - 1) * Len(profile) + n
              IN  m \in Nat /\ m # 0 /\ StreamOf(m) = n /\ PairOf(m) = i
<1> DEFINE l == Len(profile)
<1>1. l \in Nat /\ l # 0
  OBVIOUS
<1> HIDE DEF l
<1>2. ASSUME NEW j \in Nat, j # 0
      PROVE  /\ StreamOf(j) \in 1..l /\ PairOf(j) \in Nat /\ l * (PairOf(j) - 1) \in Nat
             /\ j = l * (PairOf(j) - 1) + StreamOf(j)
  <2> DEFINE a == j - 1
  <2>1. a \in Nat /\ j = a + 1
    BY <1>2
  <2> HIDE DEF a
  <2>2. /\ a \div l \in Nat /\ a % l \in Nat /\ a % l < l /\ l * (a \div l) \in Nat
        /\ a = l * (a \div l) + (a % l)
    BY <1>1, <2>1, QuotientLemma
  <2>3. PairOf(j) = (a \div l) + 1 /\ StreamOf(j) = (a % l) + 1
    BY DEF PairOf, StreamOf, a, l
  <2> DEFINE q == a \div l
             r == a % l
  <2>4. q \in Nat /\ r \in Nat /\ r < l /\ l * q \in Nat /\ a = l * q + r
    BY <2>2
  <2>5. PairOf(j) = q + 1 /\ StreamOf(j) = r + 1
    BY <2>3
  <2> HIDE DEF q, r
  <2>6. PairOf(j) - 1 = q
    BY <2>4, <2>5
  <2> QED
    BY <1>1, <2>1, <2>4, <2>5, <2>6
<1>3. ASSUME NEW j \in Nat \ {0}, StreamOf(j) = StreamOf(k), PairOf(j) = PairOf(k)
      PROVE  j = k
  BY <1>2, <1>3
<1>4. ASSUME NEW n \in 1..l, NEW i \in Nat \ {0}
      PROVE  LET m == (i - 1) * l + n
             IN  m \in Nat /\ m # 0 /\ StreamOf(m) = n /\ PairOf(m) = i
  <2> DEFINE q == i - 1
             r == n - 1
             p == l * q
             m == (i - 1) * l + n
  <2>1. q \in Nat /\ r \in Nat /\ r < l /\ i = q + 1 /\ n = r + 1
    BY <1>1
  <2> HIDE DEF q, r
  <2>2. p + r \in Nat /\ (p + r) % l = r /\ (p + r) \div l = q
    BY <1>1, <2>1, RemainderLemma
  <2>3. m = p + n /\ p \in Nat
    BY <1>1, <2>1 DEF q
  <2> HIDE DEF p, m
  <2>4. m - 1 = p + r /\ m \in Nat /\ m # 0
    BY <2>1, <2>3
  <2>5. StreamOf(m) = ((p + r) % l) + 1 /\ PairOf(m) = ((p + r) \div l) + 1
    BY <2>4 DEF StreamOf, PairOf, l
  <2> QED
    BY <2>1, <2>2, <2>4, <2>5 DEF m
<1> QED
  BY <1>2, <1>3, <1>4 DEF l

\* What is created is of its stream and pair.
LEMMA CreatedOwned ==
  ASSUME NEW n, NEW i, NEW c \in create_stream(n, i)
  PROVE  c.stream = n /\ c.pair = i
<1>1. PICK d \in profile[n].traffic_direction :
        \/ c \in MeasurementChains(n, i, d, SegmentsOf(profile[n]))
        \/ \E segments : c \in TeachingChains(n, i, d, segments, SegmentsOf(profile[n]))
  BY DEF create_stream
<1>2. CASE c \in MeasurementChains(n, i, d, SegmentsOf(profile[n]))
  <2>1. Measured(profile[n])
    BY <1>2 DEF MeasurementChains
  <2>2. PICK r \in DOMAIN SegmentsOf(profile[n]),
             mode \in Modes(profile[n], params.measure_latency),
             packet \in Packets(profile[n]) : c = ChainOfPacket(n, <<i, d, mode>>, r, packet)
    BY <1>2, <2>1 DEF MeasurementChains, ChainOfPacket, PacketsOf
  <2> QED
    BY <2>2 DEF ChainOfPacket, Chain
<1>3. CASE \E segments : c \in TeachingChains(n, i, d, segments, SegmentsOf(profile[n]))
  BY <1>3 DEF TeachingChains, Chain
<1> QED
  BY <1>1, <1>2, <1>3

\* There are no chains at first.
LEMMA DoneInit == Init => DoneInv
<1> SUFFICES ASSUME Init PROVE DoneInv
  OBVIOUS
<1>1. turn = 0 /\ chains = {} /\ main = "load"
  BY DEF Init
<1> QED
  BY <1>1, ToldInit DEF DoneInv

\* What a turn of the loops over device pairs and streams does.
TurnOf(n, i) ==
  /\ main = "create" /\ main' = main /\ turn' = turn + 1 /\ UNCHANGED <<params, profile>>
  /\ n \in DOMAIN profile /\ profile[n] \in StreamType
  /\ n = StreamOf(turn + 1) /\ i = PairOf(turn + 1)
  /\ \/ /\ i \in profile[n].device_pairs /\ ~Skipped(profile[n]) /\ ~CannotCreate(profile[n], i)
        /\ chains' = chains \cup create_stream(n, i)
     \/ /\ i \notin profile[n].device_pairs \/ Skipped(profile[n])
        /\ chains' = chains

\* Any other step leaves them as they are.
NoTurn ==
  /\ chains' = chains
  /\ main' \in SettingUp => main \in SettingUp
  /\ turn' = turn
  /\ \/ UNCHANGED <<params, profile>> \/ main = "load"
  /\ main' \in {"warmup", "add"} =>
       \/ main \in {"warmup", "add"} /\ profile' = profile
       \/ turn = NumPairs * Len(profile) /\ profile' = profile

\* A step of the program is a turn, or leaves the chains alone.
LEMMA TurnsOfMain ==
  ASSUME ToldInv, [Next]_vars
  PROVE  NoTurn \/ \E n, i : TurnOf(n, i)
<1>1. CASE LoadProfile
  <2>1. main = "load" /\ main' \in {"done", "connect"} /\ UNCHANGED <<turn, chains, params>>
    BY <1>1 DEF LoadProfile
  <2> QED
    BY <2>1 DEF NoTurn, SettingUp
<1>2. CASE AssignIds
  <2>1. main = "ids" /\ main' \in {"create", "ids"} /\ UNCHANGED <<turn, chains, params, profile>>
    BY <1>2 DEF AssignIds, createVars
  <2> QED
    BY <2>1 DEF NoTurn, SettingUp
<1>3. CASE CreateStream
  <2> DEFINE i == PairOf(turn + 1)
             n == StreamOf(turn + 1)
             stream == profile[n]
             creates == i \in stream.device_pairs /\ ~Skipped(stream)
  <2>1. /\ main = "create" /\ turn < NumPairs * Len(profile) /\ UNCHANGED <<idVars, params>>
        /\ IF creates /\ CannotCreate(stream, i)
           THEN main' = "finally" /\ UNCHANGED createVars
           ELSE /\ turn' = turn + 1 /\ UNCHANGED <<main, profile>>
                /\ IF creates THEN chains' = chains \cup create_stream(n, i) /\ UseIds(stream, i)
                   ELSE UNCHANGED <<chains, used>>
                /\ flow_offset' = [flow_offset EXCEPT ![n] =
                                     @ + IF i \in stream.device_pairs THEN Flows(stream) ELSE 0]
    BY <1>3, Zenon DEF CreateStream
  <2>2. n \in DOMAIN profile /\ stream \in StreamType
    <3>1. turn \in Nat /\ Len(profile) \in Nat /\ DOMAIN profile = 1..Len(profile)
          /\ \A s \in DOMAIN profile : profile[s] \in StreamType
      BY DEF ToldInv, CreateType
    <3>2. Len(profile) # 0
      BY <2>1, <3>1, IdsAssumption
    <3>3. turn + 1 \in Nat /\ turn + 1 # 0
      BY <3>1
    <3>4. n \in 1..Len(profile)
      BY <3>1, <3>2, <3>3, NumberLemma
    <3> QED
      BY <3>1, <3>4
  <2>3. CASE creates /\ CannotCreate(stream, i)
    <3>1. main' = "finally" /\ UNCHANGED <<profile, turn, chains, params>>
      BY <2>1, <2>3 DEF createVars
    <3> QED
      BY <3>1 DEF NoTurn, SettingUp
  <2>4. CASE ~(creates /\ CannotCreate(stream, i))
    <3>1. TurnOf(n, i)
      <4> HIDE DEF i, n
      <4>1. /\ main = "create" /\ main' = main /\ turn' = turn + 1 /\ UNCHANGED <<params, profile>>
            /\ IF creates THEN chains' = chains \cup create_stream(n, i) ELSE chains' = chains
        BY <2>1, <2>4, Zenon
      <4>2. n = StreamOf(turn + 1) /\ i = PairOf(turn + 1)
        BY DEF n, i
      <4>3. CASE creates
        BY <2>2, <2>4, <4>1, <4>2, <4>3 DEF TurnOf
      <4>4. CASE ~creates
        BY <2>2, <2>4, <4>1, <4>2, <4>4 DEF TurnOf
      <4> QED
        BY <4>3, <4>4
    <3> QED
      BY <3>1
  <2> QED
    BY <2>3, <2>4
<1>4. CASE Connect \/ StartProfiler \/ MainStep
  <2>1. /\ UNCHANGED <<params, profile, turn, chains>> /\ (main' \in SettingUp => main \in SettingUp)
        /\ main' \in {"warmup", "add"} =>
             main \in {"warmup", "add"} \/ turn = NumPairs * Len(profile)
    BY <1>4 DEF Connect, StartProfiler, MainStep, Load, Start, WaitReturns, WaitFails, EndProfiler,
                Collect, Disconnect, Step, SettingUp, createVars
  <2> QED
    BY <2>1 DEF NoTurn
<1>5. CASE WorkerStep \/ LoggerStep \/ TrafficEnds \/ UNCHANGED vars
  <2>1. UNCHANGED <<params, profile, turn, chains, main>>
    BY <1>5 DEF WorkerStep, LoggerStep, TrafficEnds, vars, createVars
  <2> QED
    BY <2>1 DEF NoTurn, SettingUp
<1> QED
  BY <1>1, <1>2, <1>3, <1>4, <1>5 DEF Next, SetUp

\* So the invariant is kept.
LEMMA DoneStep == DoneInv /\ [Next]_vars => DoneInv'
<1> SUFFICES ASSUME DoneInv, [Next]_vars PROVE DoneInv'
  OBVIOUS
<1>0. ToldInv /\ ToldInv' /\ turn \in Nat
  <2>1. ToldInv
    BY DEF DoneInv
  <2> QED
    BY <2>1, ToldStep DEF ToldInv, CreateType
<1>1. CASE NoTurn
  <2>1. chains' = chains /\ turn' = turn
    BY <1>1 DEF NoTurn
  <2>2. main \in SettingUp => turn = 0 /\ chains = {}
    <3>1. main \in SettingUp => chains = {}
      BY <1>0 DEF ToldInv, CreateType, SettingUp
    <3> QED
      BY <3>1 DEF DoneInv
  <2>3. \A c \in chains' : \E k \in 1..turn' : Owned(c, k)'
    <3>1. CASE main = "load"
      BY <2>1, <2>2, <3>1 DEF SettingUp
    <3>2. CASE main # "load"
      <4>1. profile' = profile
        BY <1>1, <3>2 DEF NoTurn
      <4>2. \A c, k : Owned(c, k)' <=> Owned(c, k)
        BY <4>1 DEF Owned, StreamOf, PairOf
      <4> QED
        BY <2>1, <4>2 DEF DoneInv
    <3> QED
      BY <3>1, <3>2
  <2>4. main' \in SettingUp => turn' = 0
    BY <1>1, <2>1, <2>2 DEF NoTurn
  <2>5. main' \in {"warmup", "add"} => turn' = NumPairs * Len(profile')
    BY <1>1, <2>1 DEF NoTurn, DoneInv
  <2> QED
    BY <1>0, <2>3, <2>4, <2>5 DEF DoneInv
<1>2. CASE \E n, i : TurnOf(n, i)
  <2>1. PICK n, i : TurnOf(n, i)
    BY <1>2
  <2>2. /\ turn' = turn + 1 /\ profile' = profile /\ main' = "create"
        /\ n = StreamOf(turn + 1) /\ i = PairOf(turn + 1)
        /\ chains' = chains \/ chains' = chains \cup create_stream(n, i)
    BY <2>1 DEF TurnOf
  <2>3. \A c, k : Owned(c, k)' <=> Owned(c, k)
    BY <2>2 DEF Owned, StreamOf, PairOf
  <2>4. ASSUME NEW c \in chains'
        PROVE  \E k \in 1..turn' : Owned(c, k)'
    <3>1. CASE c \in chains
      <4>1. PICK k \in 1..turn : Owned(c, k)
        BY <3>1 DEF DoneInv
      <4>2. k \in 1..turn'
        BY <1>0, <2>2
      <4> QED
        BY <2>3, <4>1, <4>2
    <3>2. CASE c \in create_stream(n, i)
      <4>1. c.stream = n /\ c.pair = i
        BY <3>2, CreatedOwned
      <4>2. Owned(c, turn + 1) /\ turn + 1 \in 1..turn'
        BY <1>0, <2>2, <4>1 DEF Owned
      <4> QED
        BY <2>3, <4>2
    <3> QED
      BY <2>2, <3>1, <3>2
  <2>5. main' \notin SettingUp /\ main' \notin {"warmup", "add"}
    BY <2>2 DEF SettingUp
  <2> QED
    BY <1>0, <2>4, <2>5 DEF DoneInv
<1> QED
  BY <1>0, <1>1, <1>2, TurnsOfMain

-----------------------------------------------------------------------------
(* What a turn offers.                                                     *)

\* What is created of a kind and direction.
CreatedOf(n, i, d, kind) == {c \in create_stream(n, i) : c.kind = kind /\ c.direction = d}

\* The chains of a pair and a stream are created in their turn, and stay.
LEMMA ChainsOfTurn ==
  ASSUME DoneInv, NEW n, NEW i, TurnOf(n, i), NEW d, NEW kind
  PROVE  /\ i \in profile[n].device_pairs /\ ~Skipped(profile[n]) =>
              ~CannotCreate(profile[n], i) /\ ChainsOf(n, i, d, kind)' = CreatedOf(n, i, d, kind)
         /\ ~(i \in profile[n].device_pairs /\ ~Skipped(profile[n])) => ChainsOf(n, i, d, kind)' = {}
         /\ \A k \in 1..turn : ChainsOf(StreamOf(k), PairOf(k), d, kind)' =
                                 ChainsOf(StreamOf(k), PairOf(k), d, kind)
<1>1. /\ turn' = turn + 1 /\ profile' = profile
      /\ n = StreamOf(turn + 1) /\ i = PairOf(turn + 1) /\ n \in DOMAIN profile
      /\ \/ /\ i \in profile[n].device_pairs /\ ~Skipped(profile[n]) /\ ~CannotCreate(profile[n], i)
            /\ chains' = chains \cup create_stream(n, i)
         \/ /\ i \notin profile[n].device_pairs \/ Skipped(profile[n])
            /\ chains' = chains
  BY Zenon DEF TurnOf
<1>2. turn \in Nat /\ Len(profile) \in Nat /\ DOMAIN profile = 1..Len(profile) /\ Len(profile) # 0
  <2>1. turn \in Nat /\ Len(profile) \in Nat /\ DOMAIN profile = 1..Len(profile)
    BY DEF DoneInv, ToldInv, CreateType
  <2> QED
    BY <1>1, <2>1
<1>3. ASSUME NEW k \in 1..turn
      PROVE  ~(StreamOf(k) = n /\ PairOf(k) = i)
  <2>1. k \in Nat /\ k # 0 /\ turn + 1 \in Nat \ {0} /\ k # turn + 1
    BY <1>2
  <2> QED
    BY <1>1, <1>2, <2>1, NumberLemma
<1>4. ASSUME NEW c \in chains
      PROVE  ~(c.stream = n /\ c.pair = i)
  <2>1. PICK k \in 1..turn : Owned(c, k)
    BY DEF DoneInv
  <2> QED
    BY <1>3, <2>1 DEF Owned
<1>5. \A s, j : /\ StreamOf(s)' = StreamOf(s) /\ PairOf(j)' = PairOf(j)
  BY <1>1 DEF StreamOf, PairOf
<1>6. \A s, j : ChainsOf(s, j, d, kind)' =
           {c \in chains' : c.stream = s /\ c.pair = j /\ c.direction = d /\ c.kind = kind}
  BY DEF ChainsOf
<1>7. CASE chains' = chains \cup create_stream(n, i)
  <2>1. ChainsOf(n, i, d, kind)' = CreatedOf(n, i, d, kind)
    BY <1>4, <1>6, <1>7, CreatedOwned DEF CreatedOf
  <2>2. \A k \in 1..turn : ChainsOf(StreamOf(k), PairOf(k), d, kind)' =
                             ChainsOf(StreamOf(k), PairOf(k), d, kind)
    <3> TAKE k \in 1..turn
    <3> DEFINE s == StreamOf(k)
               j == PairOf(k)
    <3>1. ~(s = n /\ j = i)
      BY <1>3
    <3>2. s' = s /\ j' = j
      BY <1>5
    <3> HIDE DEF s, j
    <3>3. ChainsOf(s, j, d, kind) =
            {c \in chains : c.stream = s /\ c.pair = j /\ c.direction = d /\ c.kind = kind}
      BY DEF ChainsOf
    <3>4. \A c \in create_stream(n, i) : ~(c.stream = s /\ c.pair = j)
      BY <3>1, CreatedOwned
    <3>5. {c \in chains' : c.stream = s /\ c.pair = j /\ c.direction = d /\ c.kind = kind} =
            ChainsOf(s, j, d, kind)
      BY <1>7, <3>3, <3>4
    <3>6. ChainsOf(s, j, d, kind)' = ChainsOf(s, j, d, kind)
      BY <3>2, <3>5 DEF ChainsOf
    <3> QED
      BY <3>6 DEF s, j
  <2>3. i \in profile[n].device_pairs /\ ~Skipped(profile[n]) => ~CannotCreate(profile[n], i)
    BY <1>1
  <2>4. ~(i \in profile[n].device_pairs /\ ~Skipped(profile[n])) => ChainsOf(n, i, d, kind)' = {}
    <3> SUFFICES ASSUME ~(i \in profile[n].device_pairs /\ ~Skipped(profile[n]))
                 PROVE  ChainsOf(n, i, d, kind)' = {}
      OBVIOUS
    <3>1. chains' = chains
      BY <1>1
    <3> QED
      BY <1>4, <1>6, <3>1
  <2> QED
    BY <2>1, <2>2, <2>3, <2>4
<1>8. CASE ~(chains' = chains \cup create_stream(n, i))
  <2>1. chains' = chains /\ ~(i \in profile[n].device_pairs /\ ~Skipped(profile[n]))
    BY <1>1, <1>8
  <2>2. ChainsOf(n, i, d, kind)' = {}
    BY <1>4, <1>6, <2>1
  <2>3. \A s, j : ChainsOf(StreamOf(s), PairOf(j), d, kind)' = ChainsOf(StreamOf(s), PairOf(j), d, kind)
    BY <1>5, <2>1 DEF ChainsOf
  <2> QED
    BY <2>1, <2>2, <2>3
<1> QED
  BY <1>7, <1>8

\* What a stream and a pair offer at the end of their turn.
OffersPair(n, i) ==
  \A d \in Directions, t \in 0..(Runtime - 1) :
    LET stream == profile[n]
        measured == stream.enabled /\ Measured(stream)
    IN  /\ i \in stream.device_pairs /\ d \in stream.traffic_direction
        /\ measured /\ ~Skipped(stream) => SubstreamsFit(stream)
        => Offered(n, i, d, t) =
             IF measured /\ Scheduled(stream, t) THEN Copies(stream) * RateAsked(stream) ELSE 0

\* The packets and modes of a stream have together what is asked, as often as it
\* is offered.
LEMMA AskedLemma ==
  ASSUME NEW stream \in StreamType, params.measure_latency \in BOOLEAN
  PROVE  LET latency == params.measure_latency
         IN  Copies(stream) * RateAsked(stream) =
               PacketsOf(stream) *
                 (ShareOf(stream, latency, "latency") + ShareOf(stream, latency, "default"))
<1> DEFINE latency == params.measure_latency
           both == ShareOf(stream, latency, "latency") + ShareOf(stream, latency, "default")
           share == stream.rate \div Sharers(stream)
           m == Sharers(stream)
           copies == Copies(stream)
<1>1. both = IF ~stream.latency_only THEN share
             ELSE IF stream.latency /\ latency THEN Shorter(share, LatencyRate) ELSE 0
  BY RatesLemma
<1>2. m \in {1, 2} /\ copies \in {1, 2} /\ share \in Nat /\ stream.rate = m * share
  BY SharersLemma DEF Copies
<1>3. PacketsOf(stream) = copies * m
  <2>1. PacketsOf(stream) = PacketCount(stream)
    <3>1. Packets(stream) = 1..PacketCount(stream) /\ PacketCount(stream) \in Nat
      BY SharersLemma DEF Packets
    <3> QED
      BY <3>1, FS_Interval DEF PacketsOf
  <2> QED
    BY <2>1, SharersLemma
<1>4. RateAsked(stream) =
        IF ~stream.latency_only THEN stream.rate
        ELSE IF stream.latency /\ latency THEN Shorter(stream.rate, m * LatencyRate) ELSE 0
  BY DEF RateAsked
<1>5. LatencyRate \in Nat
  BY ProfileAssumption
<1> HIDE DEF latency, both, share, m, copies
<1>6. RateAsked(stream) = m * both
  <2>1. CASE ~stream.latency_only
    BY <1>1, <1>2, <1>4, <2>1
  <2>2. CASE stream.latency_only /\ stream.latency /\ latency
    <3>1. both = Shorter(share, LatencyRate) /\ RateAsked(stream) = Shorter(m * share, m * LatencyRate)
      BY <1>1, <1>2, <1>4, <2>2
    <3>2. Shorter(m * share, m * LatencyRate) = m * Shorter(share, LatencyRate)
      BY <1>2, <1>5 DEF Shorter
    <3> QED
      BY <3>1, <3>2
  <2>3. CASE stream.latency_only /\ ~(stream.latency /\ latency)
    BY <1>1, <1>2, <1>4, <2>3
  <2> QED
    BY <2>1, <2>2, <2>3
<1>7. both \in Nat
  BY <1>1, <1>2, <1>5 DEF Shorter
<1>8. copies * (m * both) = (copies * m) * both
  BY <1>2, <1>7
<1> QED
  BY <1>3, <1>6, <1>8 DEF both, latency, copies

\* A stream that is created offers what it should.
LEMMA CreatedOffers ==
  ASSUME NEW n, NEW i \in Pairs, profile[n] \in StreamType, ~Skipped(profile[n]),
         params.measure_latency \in BOOLEAN,
         \A g \in Groups : pg_ids[g].start \in Nat /\ used[g] \in Nat,
         NEW d \in profile[n].traffic_direction, NEW t \in 0..(Runtime - 1),
         Measured(profile[n]) => SubstreamsFit(profile[n])
  PROVE  LET C == CreatedOf(n, i, d, "measurement")
         IN  SumFunctionOnSet([c \in C |-> RateAt(c, t)], C) =
               IF Measured(profile[n]) /\ Scheduled(profile[n], t)
               THEN Copies(profile[n]) * RateAsked(profile[n]) ELSE 0
<1> DEFINE stream == profile[n]
           latency == params.measure_latency
           places == Places(stream, latency)
           C == CreatedOf(n, i, d, "measurement")
           chain == [x \in places |-> ChainAt(n, i, d, x)]
<1>1. CASE ~Measured(stream)
  <2>1. C = {}
    <3> SUFFICES ASSUME NEW c \in C PROVE FALSE
      OBVIOUS
    <3>1. c \in CreatedOf(n, i, d, "measurement")
      OBVIOUS
    <3> HIDE DEF C
    <3> QED
      BY <1>1, <3>1, CreatedLemma DEF CreatedOf
  <2> QED
    BY <1>1, <2>1, SumOfNone
<1>2. CASE Measured(stream)
  <2>1. ChainsOnTime(chain, stream, latency) /\ MeasurementsOf(n, i, d) = {chain[x] : x \in places}
    <3>1. SubstreamsFit(profile[n]) /\ Measured(profile[n])
      BY <1>2
    <3> QED
      BY <3>1, CreatedOnTime, ZenonT(40)
  <2>2. C = {chain[x] : x \in places}
    BY <2>1 DEF MeasurementsOf, CreatedOf
  <2>3. stream.offset < Runtime /\ t \in Nat
    BY ProfileAssumption DEF WholeSeconds, Skipped, StreamType
  <2> HIDE DEF C, chain
  <2>4. SumFunctionOnSet([c \in C |-> RateAt(c, t)], C) =
          IF Scheduled(stream, t)
          THEN PacketsOf(stream) *
                 (ShareOf(stream, latency, "latency") + ShareOf(stream, latency, "default"))
          ELSE 0
    BY <2>1, <2>2, <2>3, OfferedTogether
  <2>5. Copies(stream) * RateAsked(stream) =
          PacketsOf(stream) *
            (ShareOf(stream, latency, "latency") + ShareOf(stream, latency, "default"))
    BY AskedLemma
  <2> QED
    BY <1>2, <2>4, <2>5 DEF C
<1> QED
  BY <1>1, <1>2

\* A turn offers what it should.
LEMMA TurnOffers ==
  ASSUME DoneInv, NEW n, NEW i, TurnOf(n, i)
  PROVE  OffersPair(n, i)'
<1>1. profile' = profile /\ params' = params /\ profile[n] \in StreamType
  BY DEF TurnOf
<1>2. params.measure_latency \in BOOLEAN
  <2>1. params \in Params
    BY DEF DoneInv, ToldInv, CreateType
  <2> QED
    BY <2>1, ParamsAssumption DEF ParamType
<1> DEFINE stream == profile[n]
           measured == stream.enabled /\ Measured(stream)
<1>3. ASSUME NEW d \in Directions, NEW t \in 0..(Runtime - 1), i \in stream.device_pairs,
             d \in stream.traffic_direction, measured /\ ~Skipped(stream) => SubstreamsFit(stream)
      PROVE  Offered(n, i, d, t)' = IF measured /\ Scheduled(stream, t) THEN Copies(stream) * RateAsked(stream) ELSE 0
  <2> DEFINE C == ChainsOf(n, i, d, "measurement")'
  <2>1. Offered(n, i, d, t)' = SumFunctionOnSet([c \in C |-> RateAt(c, t)], C)
    BY DEF Offered
  <2>2. CASE Skipped(stream)
    <3>1. C = {}
      BY <2>2, ChainsOfTurn
    <3>2. ~(measured /\ Scheduled(stream, t))
      <4>1. stream.offset \in Nat /\ Runtime \in Nat
        BY <1>1, ProfileAssumption DEF StreamType, WholeSeconds
      <4>2. stream.enabled => stream.offset >= Runtime
        BY <2>2 DEF Skipped
      <4>3. Scheduled(stream, t) => t - stream.offset >= 0
        BY DEF Scheduled
      <4> QED
        BY <4>1, <4>2, <4>3
    <3> HIDE DEF C
    <3>3. Offered(n, i, d, t)' = 0
      BY <2>1, <3>1, SumOfNone
    <3> QED
      BY <3>2, <3>3
  <2>3. CASE ~Skipped(stream)
    <3>1. C = CreatedOf(n, i, d, "measurement")
      BY <1>3, <2>3, ChainsOfTurn
    <3>2. stream.enabled
      BY <2>3 DEF Skipped
    <3>3. i \in Pairs
      BY <1>1, <1>3 DEF StreamType
    <3>4. \A g \in Groups : pg_ids[g].start \in Nat /\ used[g] \in Nat
      BY DEF DoneInv, ToldInv, IdsInv, IdsType, CreateType
    <3> HIDE DEF C
    <3>5. SumFunctionOnSet([c \in C |-> RateAt(c, t)], C) =
               IF Measured(stream) /\ Scheduled(stream, t) THEN Copies(stream) * RateAsked(stream) ELSE 0
      BY <1>1, <1>2, <1>3, <2>3, <3>1, <3>2, <3>3, <3>4, CreatedOffers
    <3> QED
      BY <2>1, <3>2, <3>5
  <2> QED
    BY <2>2, <2>3
<1>5. SubstreamsFit(stream)' = SubstreamsFit(stream) /\ RateAsked(stream)' = RateAsked(stream)
  BY <1>1 DEF SubstreamsFit, RateAsked
<1> QED
  BY <1>1, <1>3, <1>5 DEF OffersPair

-----------------------------------------------------------------------------
(* What is created teaches.                                                *)

\* Rounding up leaves a multiple as it is.
LEMMA CeilLemma ==
  ASSUME NEW m \in Nat, m # 0, NEW q \in Nat
  PROVE  CeilDiv(m * q, m) = q
<1> DEFINE p == m * q
<1>1. m - 1 \in Nat /\ m - 1 < m
  OBVIOUS
<1>2. (p + (m - 1)) \div m = q
  BY <1>1, RemainderLemma
<1>3. p \in Nat
  OBVIOUS
<1> HIDE DEF p
<1>4. p + m - 1 = p + (m - 1)
  BY <1>3
<1> QED
  BY <1>2, <1>4 DEF CeilDiv, p

\* The products of three factors that the packets of a pause are computed from.
LEMMA ProductLemma ==
  ASSUME NEW a \in Nat, NEW b \in Nat, NEW c \in Nat
  PROVE  a * (b * c) = b * (a * c) /\ a * c \in Nat /\ b * c \in Nat
OBVIOUS

\* In the warmup a pause of whole seconds takes as long as it should, for as
\* many flows as are taught in a second.
LEMMA PauseTicks ==
  ASSUME NEW segment, segment.type = "null", segment.duration \in WholeSeconds,
         NEW rate \in Nat, rate # 0, NEW flows \in Nat, flows <= rate
  PROVE  PartTicks(Part(segment, rate, WarmupPackets(segment, flows, rate), 0)) = segment.duration
<1> DEFINE d == segment.duration
           q == d \div Second
           packets == WarmupPackets(segment, flows, rate)
<1>1. Second \in Nat /\ Second # 0 /\ d \in Nat /\ d % Second = 0
  BY ProfileAssumption DEF WholeSeconds
<1>2. q \in Nat /\ Second * q \in Nat /\ d = Second * q + (d % Second)
  <2> HIDE DEF d
  <2> QED
    BY <1>1, QuotientLemma
<1>3. d = Second * q
  <2> HIDE DEF q, d
  <2> QED
    BY <1>1, <1>2
<1> HIDE DEF q
<1>4. rate * q \in Nat
  BY <1>2
<1>5. rate * d = Second * (rate * q)
  <2> HIDE DEF d
  <2> QED
    BY <1>1, <1>2, <1>3, ProductLemma
<1>6. packets = rate * q
  <2>1. CASE flows < rate
    <3>1. packets = (rate * d) \div Second
      BY <2>1 DEF WarmupPackets
    <3>2. (Second * (rate * q)) \div Second = rate * q
      BY <1>1, <1>4, ExactLemma
    <3> QED
      BY <1>5, <3>1, <3>2
  <2>2. CASE flows = rate
    <3>1. packets = CeilDiv(rate * d, Second)
      BY <2>2 DEF WarmupPackets
    <3>2. CeilDiv(Second * (rate * q), Second) = rate * q
      BY <1>1, <1>4, CeilLemma
    <3> QED
      BY <1>5, <3>1, <3>2
  <2> QED
    BY <2>1, <2>2
<1> HIDE DEF packets
<1>7. PartTicks(Part(segment, rate, packets, 0)) = Second * CeilDiv(packets, rate)
  BY DEF PartTicks, Part
<1>8. CeilDiv(rate * q, rate) = q
  BY <1>2, CeilLemma
<1> QED
  BY <1>3, <1>6, <1>7, <1>8 DEF packets

\* How long the burst takes that teaches all flows.
BurstTicks(flows, rate) == (Second * flows) \div rate

\* The parts of a warmup chain: behind the rest of a pause a burst that ends a
\* second before a transmission, and a pause for the transmission.
LEMMA WarmParts ==
  ASSUME NEW segments, Timeline(segments), Len(segments) > 1, NEW rate \in Nat, rate # 0,
         NEW flows \in Nat, flows <= rate
  PROVE  LET parts == WarmupChain(segments, flows, rate)
         IN  /\ DOMAIN parts = 1..Len(segments)
             /\ \A k \in 1..Len(segments) :
                  /\ Precedes(segments, k) =>
                       /\ parts[k].type = "tx" /\ PartTicks(parts[k]) = BurstTicks(flows, rate)
                       /\ parts[k].isg = segments[k].duration - BurstTicks(flows, rate) - Second
                  /\ segments[k].type = "tx" =>
                       /\ parts[k].isg = 0
                       /\ PartTicks(parts[k]) =
                            segments[k].duration + IF Precedes(segments, k - 1) THEN Second ELSE 0
                       /\ ~Precedes(segments, k - 1) => k = 1
<1> DEFINE n == Len(segments)
           burst == BurstTicks(flows, rate)
           warm == build_warmup_segments(segments, burst)
           timeline == IF Standard(segments) THEN [warm EXCEPT ![1].type = "null"] ELSE warm
           parts == [k \in DOMAIN timeline |->
                       Part(timeline[k], rate, WarmupPackets(timeline[k], flows, rate), 0)]
<1>1. n \in Nat /\ DOMAIN segments = 1..n /\ \A k \in 1..n : segments[k] \in TrialSegment
  BY DEF Timeline
<1>2. DOMAIN warm = 1..n /\ DOMAIN timeline = 1..n
  BY <1>1 DEF build_warmup_segments
<1>3. Len(warm) = n /\ n # 1
  BY <1>1, <1>2
<1>4. WarmupChain(segments, flows, rate) = parts
  BY <1>3 DEF WarmupChain, BurstTicks
<1>5. Second \in Nat /\ Second # 0 /\ Second \in WholeSeconds
  BY ProfileAssumption DEF WholeSeconds
<1>6. ASSUME NEW k \in 1..n, Precedes(segments, k)
      PROVE  /\ parts[k].type = "tx" /\ PartTicks(parts[k]) = burst
             /\ parts[k].isg = segments[k].duration - burst - Second
  <2>1. ~(k = 1 /\ Standard(segments))
    BY <1>6 DEF Precedes, Standard
  <2>2. timeline[k] = warm[k]
    BY <1>2, <2>1
  <2>3. timeline[k] = [segments[k] EXCEPT !.type = "tx", !.duration = burst,
                                          !.isg = segments[k].duration - burst - Second]
    BY <1>1, <1>6, <2>2 DEF build_warmup_segments
  <2>4. /\ timeline[k].type = "tx"
        /\ timeline[k].isg = segments[k].duration - burst - Second
    BY <1>1, <2>3 DEF TrialSegment, SegmentType
  <2>5. parts[k] = Part(timeline[k], rate, flows, 0)
    BY <1>2, <2>4 DEF WarmupPackets
  <2> HIDE DEF timeline, parts, burst
  <2> QED
    BY <2>4, <2>5 DEF Part, PartTicks, burst, BurstTicks
<1>7. ASSUME NEW k \in 1..n, segments[k].type = "tx"
      PROVE  /\ parts[k].isg = 0
             /\ PartTicks(parts[k]) =
                  segments[k].duration + IF Precedes(segments, k - 1) THEN Second ELSE 0
             /\ ~Precedes(segments, k - 1) => k = 1
  <2>1. ~Precedes(segments, k)
    BY <1>7 DEF Precedes
  <2>2. segments[k] \in TrialSegment /\ segments[k].duration \in WholeSeconds /\ segments[k].isg = 0
    BY <1>1, <1>7 DEF TrialSegment
  <2>3. CASE Precedes(segments, k - 1)
    <3>1. k # 1
      BY <2>3 DEF Precedes
    <3>2. timeline[k] = warm[k]
      BY <1>2, <3>1
    <3>3. timeline[k] = [segments[k] EXCEPT !.type = "null", !.duration = @ + Second,
                                            !.offset = @ - (burst + Second)]
      BY <1>1, <2>1, <2>3, <3>2 DEF build_warmup_segments
    <3>4. /\ timeline[k].type = "null" /\ timeline[k].isg = 0
          /\ timeline[k].duration = segments[k].duration + Second
      <4> HIDE DEF timeline, burst
      <4> QED
        BY <2>2, <3>3 DEF TrialSegment, SegmentType
    <3>5. timeline[k].duration \in WholeSeconds
      BY <1>5, <2>2, <3>4, SecondsLemma
    <3>6. parts[k] = Part(timeline[k], rate, WarmupPackets(timeline[k], flows, rate), 0)
      BY <1>2
    <3> HIDE DEF timeline, parts
    <3>7. PartTicks(parts[k]) = timeline[k].duration
      BY <3>4, <3>5, <3>6, PauseTicks
    <3>8. parts[k].isg = 0
      BY <3>4, <3>6 DEF Part
    <3> QED
      BY <2>3, <3>4, <3>7, <3>8
  <2>4. CASE ~Precedes(segments, k - 1)
    <3>1. k = 1
      <4> SUFFICES ASSUME k # 1 PROVE FALSE
        OBVIOUS
      <4> DEFINE j == k - 1
      <4>1. j \in 1..(n - 1) /\ j + 1 = k
        BY <1>1
      <4> HIDE DEF j
      <4>2. Follows(segments[j], segments[k]) /\ segments[j] \in TrialSegment
        BY <1>1, <4>1 DEF Timeline
      <4>3. segments[j].type = "null"
        BY <1>7, <4>2 DEF Follows, TrialSegment, SegmentType
      <4>4. Precedes(segments, j)
        BY <1>7, <4>1, <4>3 DEF Precedes
      <4> QED
        BY <2>4, <4>4 DEF j
    <3>2. Standard(segments) /\ 1 \in DOMAIN warm
      BY <1>1, <1>2, <1>7, <3>1 DEF Standard
    <3>3. warm[1] = segments[1]
      BY <1>1, <2>1, <2>4, <3>1 DEF build_warmup_segments
    <3>4. timeline[1] = [segments[1] EXCEPT !.type = "null"]
      BY <3>2, <3>3
    <3>5. /\ timeline[1].type = "null" /\ timeline[1].isg = 0
          /\ timeline[1].duration = segments[1].duration
      BY <2>2, <3>1, <3>4 DEF TrialSegment, SegmentType
    <3>6. parts[1] = Part(timeline[1], rate, WarmupPackets(timeline[1], flows, rate), 0)
      BY <1>2, <3>1
    <3> HIDE DEF timeline, parts
    <3>7. PartTicks(parts[1]) = timeline[1].duration
      BY <2>2, <3>1, <3>5, <3>6, PauseTicks
    <3>8. parts[1].isg = 0
      BY <3>5, <3>6 DEF Part
    <3>9. segments[1].duration + 0 = segments[1].duration
      BY <2>2, <3>1 DEF WholeSeconds
    <3> QED
      BY <2>4, <3>1, <3>5, <3>7, <3>8, <3>9
  <2> QED
    BY <2>3, <2>4
<1> HIDE DEF parts
<1> QED
  BY <1>2, <1>4, <1>6, <1>7 DEF parts

\* A burst takes no time below zero.
LEMMA BurstTicksLemma ==
  ASSUME NEW flows \in Nat, NEW rate \in Nat, rate # 0
  PROVE  BurstTicks(flows, rate) \in Nat
<1> DEFINE ticks == Second * flows
<1>1. ticks \in Nat
  BY ProfileAssumption
<1> HIDE DEF ticks
<1>2. ticks \div rate \in Nat
  BY <1>1, QuotientLemma
<1> QED
  BY <1>2 DEF BurstTicks, ticks

\* What the part of a segment is to keep to in the warmup: transmissions are
\* over when they are in the trial, and a burst a second before its pause is.
WarmTime(parts, segments, burst, k) ==
  /\ segments[k].type = "tx" => Begins(parts)[k] + PartTicks(parts[k]) = EndOf(segments[k])
  /\ Precedes(segments, k) =>
       /\ Begins(parts)[k] = EndOf(segments[k]) - burst - Second
       /\ Begins(parts)[k] + PartTicks(parts[k]) = EndOf(segments[k]) - Second

\* They do.
LEMMA WarmOnTime ==
  ASSUME NEW segments, Timeline(segments), Len(segments) > 1, segments[1].offset = 0,
         NEW rate \in Nat, rate # 0, NEW flows \in Nat, flows <= rate
  PROVE  \A k \in 1..Len(segments) :
           WarmTime(WarmupChain(segments, flows, rate), segments, BurstTicks(flows, rate), k)
<1> DEFINE n == Len(segments)
           parts == WarmupChain(segments, flows, rate)
           burst == BurstTicks(flows, rate)
           begin == Begins(parts)
           good(k) == WarmTime(parts, segments, burst, k)
           bad == {k \in 1..n : ~good(k)}
<1>1. n \in Nat /\ \A k \in 1..n : segments[k] \in TrialSegment
  BY DEF Timeline
<1>2. /\ DOMAIN parts = 1..n
      /\ \A k \in 1..n :
           /\ Precedes(segments, k) =>
                /\ PartTicks(parts[k]) = burst
                /\ parts[k].isg = segments[k].duration - burst - Second
           /\ segments[k].type = "tx" =>
                /\ parts[k].isg = 0
                /\ PartTicks(parts[k]) =
                     segments[k].duration + IF Precedes(segments, k - 1) THEN Second ELSE 0
                /\ ~Precedes(segments, k - 1) => k = 1
  BY WarmParts
<1>3. burst \in Nat /\ Second \in Nat
  BY BurstTicksLemma, ProfileAssumption
<1> HIDE DEF parts, burst
<1>4. \A k \in 1..n : begin[k] = parts[k].isg + IF k = 1 THEN 0
                                                ELSE begin[k - 1] + PartTicks(parts[k - 1])
  BY <1>1, <1>2, BeginsLemma
<1> HIDE DEF begin
<1>5. ASSUME bad # {}
      PROVE  FALSE
  <2>1. PICK k \in bad : \A m \in bad : k <= m
    <3>1. bad \in SUBSET Nat
      BY <1>1
    <3> HIDE DEF bad
    <3> QED
      BY <1>5, <3>1, SmallestLemma
  <2>2. k \in 1..n /\ ~good(k)
    OBVIOUS
  <2>3. k # 1 => good(k - 1)
    <3> SUFFICES ASSUME k # 1 PROVE k - 1 \notin bad
      BY <1>1, <2>2
    <3> SUFFICES ASSUME k - 1 \in bad PROVE FALSE
      OBVIOUS
    <3>1. k <= k - 1
      BY <2>1
    <3> QED
      BY <1>1, <2>2, <3>1
  <2> HIDE DEF bad, good
  <2>4. k \in Int /\ segments[k] \in TrialSegment
    BY <1>1, <2>2
  <2> DEFINE s == segments[k]
  <2>5. s.offset \in Nat /\ s.duration \in Nat /\ s.isg = 0 /\ EndOf(s) = s.offset + s.duration
    BY <2>4 DEF TrialSegment, EndOf
  <2>6. k # 1 => /\ s.offset = EndOf(segments[k - 1]) /\ segments[k - 1].type # s.type
                 /\ segments[k - 1] \in TrialSegment /\ EndOf(segments[k - 1]) \in Nat
    <3> DEFINE j == k - 1
    <3> SUFFICES ASSUME k # 1
                 PROVE  /\ s.offset = EndOf(segments[j]) /\ segments[j].type # s.type
                        /\ segments[j] \in TrialSegment /\ EndOf(segments[j]) \in Nat
      OBVIOUS
    <3>1. j \in 1..(n - 1) /\ j + 1 = k /\ j \in 1..n
      BY <1>1, <2>2
    <3> HIDE DEF j
    <3>2. Follows(segments[j], segments[k])
      BY <3>1 DEF Timeline
    <3> QED
      BY <1>1, <2>5, <3>1, <3>2 DEF Follows
  <2>7. CASE s.type = "tx"
    <3>1. /\ parts[k].isg = 0
          /\ PartTicks(parts[k]) = s.duration + IF Precedes(segments, k - 1) THEN Second ELSE 0
          /\ ~Precedes(segments, k - 1) => k = 1
      BY <1>2, <2>2, <2>7
    <3>2. ~Precedes(segments, k)
      BY <2>7 DEF Precedes
    <3>3. CASE k = 1
      <4>1. ~Precedes(segments, k - 1)
        BY <3>3 DEF Precedes
      <4>2. begin[k] = 0
        BY <1>4, <2>2, <3>1, <3>3
      <4>3. begin[k] + PartTicks(parts[k]) = EndOf(s)
        BY <2>5, <3>1, <3>3, <4>1, <4>2
      <4> QED
        BY <2>2, <3>2, <4>3 DEF good, WarmTime, begin
    <3>4. CASE k # 1
      <4>1. Precedes(segments, k - 1)
        BY <3>1, <3>4
      <4>2. begin[k - 1] + PartTicks(parts[k - 1]) = s.offset - Second
        BY <2>3, <2>6, <3>4, <4>1 DEF good, WarmTime, begin
      <4>3. begin[k] = 0 + (s.offset - Second)
        BY <1>4, <2>2, <3>1, <3>4, <4>2
      <4>4. begin[k] + PartTicks(parts[k]) = EndOf(s)
        BY <1>3, <2>5, <3>1, <4>1, <4>3
      <4> QED
        BY <2>2, <3>2, <4>4 DEF good, WarmTime, begin
    <3> QED
      BY <3>3, <3>4
  <2>8. CASE Precedes(segments, k)
    <3>1. PartTicks(parts[k]) = burst /\ parts[k].isg = s.duration - burst - Second
      BY <1>2, <2>2, <2>8
    <3>2. s.type = "null"
      BY <2>8 DEF Precedes
    <3>3. begin[k] = EndOf(s) - burst - Second
      <4>1. CASE k = 1
        <5>1. begin[k] = parts[k].isg + 0
          BY <1>4, <2>2, <4>1
        <5> QED
          BY <1>3, <2>5, <3>1, <4>1, <5>1
      <4>2. CASE k # 1
        <5>1. segments[k - 1].type = "tx"
          BY <2>6, <3>2, <4>2 DEF TrialSegment, SegmentType
        <5>2. begin[k - 1] + PartTicks(parts[k - 1]) = s.offset
          BY <2>3, <2>6, <4>2, <5>1 DEF good, WarmTime, begin
        <5>3. begin[k] = parts[k].isg + s.offset
          BY <1>4, <2>2, <4>2, <5>2
        <5> QED
          BY <1>3, <2>5, <3>1, <5>3
      <4> QED
        BY <4>1, <4>2
    <3>4. begin[k] + PartTicks(parts[k]) = EndOf(s) - Second
      BY <1>3, <2>5, <3>1, <3>3
    <3> QED
      BY <2>2, <3>2, <3>3, <3>4 DEF good, WarmTime, begin
  <2>9. CASE s.type # "tx" /\ ~Precedes(segments, k)
    BY <2>2, <2>9 DEF good, WarmTime
  <2> QED
    BY <2>7, <2>8, <2>9
<1>6. \A k \in 1..n : good(k)
  BY <1>5
<1> QED
  BY <1>6 DEF parts, burst

\* A moment at which a timeline begins to transmit.
StartsAt(segments, t) == Covered(segments, t) /\ (t # 0 => ~Covered(segments, t - 1))

\* A transmission begins with the trial or behind a pause.
LEMMA StartLemma ==
  ASSUME NEW segments, Timeline(segments), segments[1].offset = 0, NEW m \in Nat, m # 0,
         PausesOf(segments, m),
         NEW t \in Nat, StartsAt(segments, t)
  PROVE  \E k \in 1..Len(segments) :
           /\ segments[k].type = "tx" /\ segments[k].offset = t
           /\ k = 1 <=> t = 0
           /\ k # 1 => /\ Precedes(segments, k - 1) /\ EndOf(segments[k - 1]) = t /\ t - m \in Nat
                       /\ \A u \in (t - m)..(t - 1) : ~Covered(segments, u)
<1> DEFINE n == Len(segments)
<1>1. n \in Nat /\ \A k \in 1..n : segments[k] \in TrialSegment
  BY DEF Timeline
<1>2. PICK k \in 1..n : Covers(segments[k], t)
  BY DEF StartsAt, Covered
<1>3. /\ segments[k].type = "tx" /\ segments[k].offset \in Nat /\ segments[k].isg = 0
      /\ segments[k].offset <= t /\ t < EndOf(segments[k]) /\ EndOf(segments[k]) \in Nat
  BY <1>1, <1>2 DEF Covers, TrialSegment, EndOf
<1>4. segments[k].offset = t
  <2> SUFFICES ASSUME segments[k].offset # t PROVE FALSE
    OBVIOUS
  <2>1. t # 0 /\ segments[k].offset <= t - 1 /\ t - 1 < EndOf(segments[k])
    BY <1>3
  <2>2. Covers(segments[k], t - 1)
    BY <1>3, <2>1 DEF Covers
  <2> QED
    BY <2>1, <2>2 DEF StartsAt, Covered
<1>5. k = 1 => t = 0
  BY <1>4
<1>6. ASSUME k # 1
      PROVE  /\ Precedes(segments, k - 1) /\ EndOf(segments[k - 1]) = t /\ t - m \in Nat /\ t # 0
             /\ \A u \in (t - m)..(t - 1) : ~Covered(segments, u)
  <2> DEFINE j == k - 1
  <2>1. j \in 1..(n - 1) /\ j + 1 = k /\ j \in 1..n
    BY <1>1, <1>6
  <2> HIDE DEF j
  <2>2. Follows(segments[j], segments[k]) /\ segments[j] \in TrialSegment
    BY <1>1, <2>1 DEF Timeline
  <2>3. segments[j].type = "null" /\ EndOf(segments[j]) = t
    BY <1>3, <1>4, <2>2 DEF Follows, TrialSegment, SegmentType
  <2>4. segments[j].duration >= m
    BY <2>1, <2>3 DEF PausesOf
  <2>5. segments[j].offset \in Nat /\ segments[j].duration \in Nat
        /\ t = segments[j].offset + segments[j].duration
    BY <2>2, <2>3 DEF TrialSegment, EndOf
  <2>6. t - m \in Nat /\ segments[j].offset <= t - m /\ t # 0
    <3> DEFINE from == segments[j].offset
               duration == segments[j].duration
    <3>1. from \in Nat /\ duration \in Nat /\ t = from + duration /\ duration >= m
      BY <2>4, <2>5
    <3> HIDE DEF from, duration
    <3>2. t - m \in Nat /\ from <= t - m /\ t # 0
      BY <3>1
    <3> QED
      BY <3>2 DEF from
  <2>7. t # 0
    BY <2>6
  <2>8. ASSUME NEW u \in (t - m)..(t - 1), Covered(segments, u)
        PROVE  FALSE
    <3>1. PICK l \in 1..n : Covers(segments[l], u)
      BY <2>8 DEF Covered
    <3>2. u \in Nat /\ segments[j].offset <= u /\ u < EndOf(segments[j])
      <4> DEFINE from == segments[j].offset
                 duration == segments[j].duration
      <4>1. u \in Int /\ t - m <= u /\ u <= t - 1
        BY <2>8, <2>6
      <4>2. from \in Nat /\ duration \in Nat /\ t = from + duration /\ from <= t - m
        BY <2>5, <2>6
      <4> HIDE DEF from, duration
      <4>3. u \in Nat /\ from <= u /\ u < t
        BY <4>1, <4>2
      <4> QED
        BY <2>3, <4>3 DEF from
    <3>3. segments[l].offset <= u /\ u < EndOf(segments[l]) /\ segments[l].type = "tx"
      BY <1>1, <3>1 DEF Covers, TrialSegment
    <3>4. j = l
      BY <2>1, <3>2, <3>3, TimelineOrder
    <3> QED
      BY <2>3, <3>3, <3>4
  <2>9. Precedes(segments, j)
    BY <1>3, <2>1, <2>3 DEF Precedes
  <2> QED
    BY <2>3, <2>6, <2>7, <2>8, <2>9 DEF j
<1> QED
  BY <1>3, <1>4, <1>5, <1>6

\* The segments of a repetition of a stream.
BuiltOf(stream, r) == build_stream_segments(Repetitions(stream)[r])

\* A stream with a teaching warmup has two chains for each repetition, unless
\* they are empty.
LEMMA TeachingLemma ==
  ASSUME NEW n, NEW i, NEW d \in profile[n].traffic_direction, Has(profile[n], "teaching_warmup"),
         NEW r \in DOMAIN Repetitions(profile[n])
  PROVE  LET stream == profile[n]
             warm == WarmupChain(BuiltOf(stream, r), Flows(stream), TeachingRate(stream))
             standard == StandardChain(BuiltOf(stream, r), Flows(stream), TeachingRate(stream))
         IN  /\ warm # <<>> =>
                  \E c \in CreatedOf(n, i, Other(d), "warmup") : c.parts = warm
             /\ standard # <<>> =>
                  \E c \in CreatedOf(n, i, Other(d), "standard") : c.parts = standard
<1> DEFINE stream == profile[n]
           reps == Repetitions(stream)
           segments == [s \in DOMAIN reps |-> build_stream_segments(reps[s])]
           warm == WarmupChain(BuiltOf(stream, r), Flows(stream), TeachingRate(stream))
           standard == StandardChain(BuiltOf(stream, r), Flows(stream), TeachingRate(stream))
           measured == SegmentsOf(stream)
<1>1. PICK packet : packet \in TeachingPackets(stream)
  BY DEF TeachingPackets
<1>2. segments[r] = BuiltOf(stream, r) /\ r \in DOMAIN segments
  BY DEF BuiltOf
<1>3. TeachingChains(n, i, d, segments, measured) \subseteq create_stream(n, i)
  BY DEF create_stream
<1> DEFINE c == Chain(n, i, Other(d), "warmup", packet, warm)
           e == Chain(n, i, Other(d), "standard", packet, standard)
<1> HIDE DEF segments, measured
<1>4. ASSUME warm # <<>>
      PROVE  c \in CreatedOf(n, i, Other(d), "warmup") /\ c.parts = warm
  <2>1. c.parts = warm /\ c.kind = "warmup" /\ c.direction = Other(d)
    BY DEF Chain
  <2>2. WarmupChain(segments[r], Flows(stream), TeachingRate(stream)) = warm
    BY <1>2
  <2> HIDE DEF warm
  <2>3. c \in TeachingChains(n, i, d, segments, measured)
    BY <1>1, <1>2, <1>4, <2>1, <2>2 DEF TeachingChains
  <2> QED
    BY <1>3, <2>1, <2>3 DEF CreatedOf
<1>5. ASSUME standard # <<>>
      PROVE  e \in CreatedOf(n, i, Other(d), "standard") /\ e.parts = standard
  <2>1. e.parts = standard /\ e.kind = "standard" /\ e.direction = Other(d)
    BY DEF Chain
  <2>2. StandardChain(segments[r], Flows(stream), TeachingRate(stream)) = standard
    BY <1>2
  <2> HIDE DEF standard
  <2>3. e \in TeachingChains(n, i, d, segments, measured)
    BY <1>1, <1>2, <1>5, <2>1, <2>2 DEF TeachingChains
  <2> QED
    BY <1>3, <2>1, <2>3 DEF CreatedOf
<1> QED
  BY <1>4, <1>5

\* Chains that teach a transmission of a stream at t: TaughtAt for given chains.
TaughtWith(stream, standard, warmups, t) ==
  \/ t = 0 /\ standard # {}
  \/ \E c \in warmups : \E k \in DOMAIN c.parts :
       /\ c.parts[k].type = "tx" /\ Begins(c.parts)[k] + PartTicks(c.parts[k]) = t - Second
       /\ \A u \in Begins(c.parts)[k]..(t - 1) : ~Scheduled(stream, u)

\* Each transmission of a stream is taught by a chain that is created with it.
LEMMA CreatedTeaches ==
  ASSUME NEW n, NEW i, profile[n] \in StreamType, ~Skipped(profile[n]),
         NEW d \in profile[n].traffic_direction, Has(profile[n], "teaching_warmup"),
         BurstFits(profile[n]), Flows(profile[n]) <= TeachingRate(profile[n]),
         NEW t \in 0..(Runtime - 1), Scheduled(profile[n], t), ~Scheduled(profile[n], t - 1)
  PROVE  TaughtWith(profile[n], CreatedOf(n, i, Other(d), "standard"),
                    CreatedOf(n, i, Other(d), "warmup"), t)
<1> DEFINE stream == profile[n]
           flows == Flows(stream)
           rate == TeachingRate(stream)
           burst == BurstTicks(flows, rate)
           m == burst + Second
           reps == Repetitions(stream)
<1>1. flows \in Nat /\ rate \in Nat /\ rate # 0 /\ flows <= rate
  BY FlowsLemma, ProfileAssumption DEF TeachingRate, StreamType
<1>2. burst \in Nat /\ Second \in Nat /\ Second # 0 /\ t \in Nat
  BY <1>1, BurstTicksLemma, ProfileAssumption
<1>3. m \in Nat /\ m # 0
  BY <1>2
<1>4. Spaced(stream, m)
  <2>1. /\ stream.offset = 0 \/ stream.offset >= m
        /\ stream.repeat => stream.repeat_delay >= m
    BY DEF BurstFits, BurstTicks
  <2>2. stream.offset < Runtime
    <3> HIDE DEF m
    <3> QED
      BY ProfileAssumption DEF Skipped, StreamType, WholeSeconds
  <2> HIDE DEF m
  <2> QED
    BY <2>1, <2>2 DEF Spaced
<1> HIDE DEF m, burst, flows, rate
<1>5. Shared(reps, stream, m)
  BY <1>3, <1>4, RepetitionsOnTime
<1> HIDE DEF reps
<1>6. PICK r \in DOMAIN reps : Scheduled(reps[r], t)
  BY <1>2, <1>5 DEF Shared
<1> DEFINE segments == build_stream_segments(reps[r])
           whole == build_stream_segments(stream)
<1>7. SegmentsOnTime(segments, reps[r], m) /\ segments[1].offset = 0
  BY <1>3, <1>5, BuiltOnTime DEF Shared, Spaced
<1>8. SegmentsOnTime(whole, stream, m) /\ whole[1].offset = 0
  BY <1>3, <1>4, BuiltOnTime DEF Spaced
<1>9. segments = BuiltOf(stream, r)
  BY DEF BuiltOf, reps
<1> HIDE DEF segments, whole
<1>10. StartsAt(segments, t)
  <2>1. t # 0 => t - 1 \in Nat
    BY <1>2
  <2> QED
    BY <1>2, <1>5, <1>6, <1>7, <2>1 DEF StartsAt, SegmentsOnTime, Shared
<1>11. StartsAt(whole, t)
  <2>1. t # 0 => t - 1 \in Nat
    BY <1>2
  <2> QED
    BY <1>2, <1>8, <2>1 DEF StartsAt, SegmentsOnTime
<1>12. t # 0 => t - m \in Nat /\ \A u \in (t - m)..(t - 1) : ~Scheduled(stream, u)
  <2>1. PICK l \in 1..Len(whole) :
           /\ l = 1 <=> t = 0
           /\ l # 1 => t - m \in Nat /\ \A u \in (t - m)..(t - 1) : ~Covered(whole, u)
    BY <1>2, <1>3, <1>8, <1>11, StartLemma DEF SegmentsOnTime
  <2>2. SUFFICES ASSUME t # 0 PROVE t - m \in Nat /\ \A u \in (t - m)..(t - 1) : ~Scheduled(stream, u)
    OBVIOUS
  <2>3. t - m \in Nat /\ \A u \in (t - m)..(t - 1) : u \in Nat /\ ~Covered(whole, u)
    BY <1>2, <2>1, <2>2
  <2> QED
    BY <1>8, <2>3 DEF SegmentsOnTime
<1>13. PICK k \in 1..Len(segments) :
         /\ segments[k].type = "tx" /\ segments[k].offset = t
         /\ k = 1 <=> t = 0
         /\ k # 1 => Precedes(segments, k - 1) /\ EndOf(segments[k - 1]) = t
  BY <1>2, <1>3, <1>7, <1>10, StartLemma DEF SegmentsOnTime
<1> DEFINE warm == WarmupChain(segments, flows, rate)
           standard == StandardChain(segments, flows, rate)
<1>14. /\ warm # <<>> => \E c \in CreatedOf(n, i, Other(d), "warmup") : c.parts = warm
       /\ standard # <<>> => CreatedOf(n, i, Other(d), "standard") # {}
  BY <1>9, TeachingLemma DEF flows, rate, reps
<1>15. CASE t = 0
  <2>1. standard = <<Part(segments[1], rate, flows, 0)>>
    BY <1>13, <1>15 DEF StandardChain, Standard
  <2>2. standard # <<>>
    BY <2>1
  <2> QED
    BY <1>14, <1>15, <2>2 DEF TaughtWith
<1>16. CASE t # 0
  <2> DEFINE j == k - 1
  <2>1. Timeline(segments) /\ Len(segments) \in Nat
    <3>1. Timeline(segments)
      BY <1>7 DEF SegmentsOnTime
    <3> HIDE DEF segments
    <3>2. segments \in Seq(TrialSegment)
      BY <3>1 DEF Timeline
    <3>3. Len(segments) \in Nat
      BY <3>2
    <3> QED
      BY <3>1, <3>3
  <2>2. j \in 1..Len(segments) /\ Len(segments) > 1 /\ Precedes(segments, j) /\ EndOf(segments[j]) = t
    BY <1>13, <1>16, <2>1
  <2> HIDE DEF j
  <2>3. DOMAIN warm = 1..Len(segments) /\ warm[j].type = "tx"
    BY <1>1, <2>1, <2>2, WarmParts
  <2>4. WarmTime(warm, segments, burst, j)
    BY <1>1, <1>7, <2>1, <2>2, WarmOnTime DEF burst
  <2>5. /\ Begins(warm)[j] = t - burst - Second
        /\ Begins(warm)[j] + PartTicks(warm[j]) = t - Second
    BY <2>2, <2>4 DEF WarmTime
  <2>6. t - burst - Second = t - m
    BY <1>2 DEF m
  <2>7. warm # <<>>
    BY <2>2, <2>3
  <2>8. PICK c \in CreatedOf(n, i, Other(d), "warmup") : c.parts = warm
    BY <1>14, <2>7
  <2> HIDE DEF warm
  <2>9. \A u \in Begins(warm)[j]..(t - 1) : ~Scheduled(stream, u)
    BY <1>12, <1>16, <2>5, <2>6
  <2> QED
    BY <2>2, <2>3, <2>5, <2>8, <2>9 DEF TaughtWith
<1> QED
  BY <1>15, <1>16

-----------------------------------------------------------------------------
(* What a turn leaves behind.                                              *)

\* What a stream and a pair teach at the end of their turn.
TeachesPair(n, i) ==
  \A d \in Directions :
    /\ i \in profile[n].device_pairs /\ d \in profile[n].traffic_direction
    /\ Has(profile[n], "teaching_warmup") /\ ~Skipped(profile[n]) /\ BurstFits(profile[n])
    /\ Flows(profile[n]) <= TeachingRate(profile[n])
    => TaughtBefore(n, i, d)

\* A turn teaches what it should.
LEMMA TurnTeaches ==
  ASSUME DoneInv, NEW n, NEW i, TurnOf(n, i)
  PROVE  TeachesPair(n, i)'
<1>1. profile' = profile /\ profile[n] \in StreamType
  BY DEF TurnOf
<1> DEFINE stream == profile[n]
<1>2. ASSUME NEW d \in Directions, i \in stream.device_pairs, d \in stream.traffic_direction,
             Has(stream, "teaching_warmup"), ~Skipped(stream), BurstFits(stream),
             Flows(stream) <= TeachingRate(stream),
             NEW t \in 0..(Runtime - 1), Scheduled(stream, t), ~Scheduled(stream, t - 1)
      PROVE  TaughtAt(n, i, d, t)'
  <2> DEFINE standard == CreatedOf(n, i, Other(d), "standard")
             warmups == CreatedOf(n, i, Other(d), "warmup")
  <2>1. TaughtWith(stream, standard, warmups, t)
    BY <1>1, <1>2, CreatedTeaches
  <2>2. /\ ChainsOf(n, i, Other(d), "standard")' = standard
        /\ ChainsOf(n, i, Other(d), "warmup")' = warmups
    BY <1>2, ChainsOfTurn
  <2> HIDE DEF standard, warmups
  <2> QED
    BY <1>1, <2>1, <2>2 DEF TaughtAt, TaughtWith
<1> QED
  BY <1>1, <1>2 DEF TeachesPair, TaughtBefore

\* What is offered and taught is decided by the chains of the stream and pair.
LEMMA PairKept ==
  ASSUME NEW n, NEW i, profile' = profile, params' = params, OffersPair(n, i), TeachesPair(n, i),
         \A d, kind : ChainsOf(n, i, d, kind)' = ChainsOf(n, i, d, kind)
  PROVE  OffersPair(n, i)' /\ TeachesPair(n, i)'
<1>1. \A d, t : Offered(n, i, d, t)' = Offered(n, i, d, t)
  BY DEF Offered
<1>2. \A d, t : TaughtAt(n, i, d, t)' <=> TaughtAt(n, i, d, t)
  BY DEF TaughtAt
<1>3. SubstreamsFit(profile[n])' = SubstreamsFit(profile[n])
      /\ RateAsked(profile[n])' = RateAsked(profile[n])
  BY DEF SubstreamsFit, RateAsked
<1>4. \A d : TaughtBefore(n, i, d)' <=> TaughtBefore(n, i, d)
  BY <1>2 DEF TaughtBefore
<1> QED
  BY <1>1, <1>3, <1>4 DEF OffersPair, TeachesPair

\* The invariant: the pairs of a device pair and a stream that are done offer and
\* teach what they should.
TurnInv ==
  DoneInv /\ \A k \in 1..turn :
               OffersPair(StreamOf(k), PairOf(k)) /\ TeachesPair(StreamOf(k), PairOf(k))

\* It holds at first.
LEMMA TurnInit == Init => TurnInv
<1> SUFFICES ASSUME Init PROVE TurnInv
  OBVIOUS
<1>1. turn = 0
  BY DEF Init
<1> QED
  BY <1>1, DoneInit DEF TurnInv

\* It is kept by every step.
LEMMA TurnStep == TurnInv /\ [Next]_vars => TurnInv'
<1> SUFFICES ASSUME TurnInv, [Next]_vars PROVE TurnInv'
  OBVIOUS
<1> DEFINE Pair(n, i) == OffersPair(n, i) /\ TeachesPair(n, i)
<1>1. DoneInv /\ DoneInv' /\ turn \in Nat /\ ToldInv
  <2>1. DoneInv
    BY DEF TurnInv
  <2> QED
    BY <2>1, DoneStep DEF DoneInv, ToldInv, CreateType
<1>2. CASE NoTurn
  <2>1. chains' = chains /\ turn' = turn
    BY <1>2 DEF NoTurn
  <2>2. CASE main = "load"
    <3>1. turn' = 0
      BY <1>1, <2>1, <2>2 DEF DoneInv, SettingUp
    <3> QED
      BY <1>1, <3>1 DEF TurnInv
  <2>3. CASE main # "load"
    <3>1. profile' = profile /\ params' = params
      BY <1>2, <2>3 DEF NoTurn
    <3>2. ASSUME NEW k \in 1..turn
          PROVE  Pair(StreamOf(k), PairOf(k))'
      <4>1. PICK n, i : n = StreamOf(k) /\ i = PairOf(k)
        OBVIOUS
      <4>2. StreamOf(k)' = n /\ PairOf(k)' = i
        BY <3>1, <4>1 DEF StreamOf, PairOf
      <4>3. \A d, kind : ChainsOf(n, i, d, kind)' = ChainsOf(n, i, d, kind)
        BY <2>1 DEF ChainsOf
      <4>4. Pair(n, i)
        BY <4>1 DEF TurnInv
      <4>5. Pair(n, i)'
        BY <3>1, <4>3, <4>4, PairKept
      <4> QED
        BY <4>2, <4>5 DEF OffersPair, TeachesPair
    <3> QED
      BY <1>1, <2>1, <3>2 DEF TurnInv
  <2> QED
    BY <2>2, <2>3
<1>3. CASE \E n, i : TurnOf(n, i)
  <2>1. PICK n, i : TurnOf(n, i)
    BY <1>3
  <2>2. /\ turn' = turn + 1 /\ profile' = profile /\ params' = params
        /\ n = StreamOf(turn + 1) /\ i = PairOf(turn + 1)
    BY <2>1 DEF TurnOf
  <2>3. Pair(n, i)'
    BY <1>1, <2>1, TurnOffers, TurnTeaches
  <2>4. \A s, j : StreamOf(s)' = StreamOf(s) /\ PairOf(j)' = PairOf(j)
    BY <2>2 DEF StreamOf, PairOf
  <2>5. ASSUME NEW k \in 1..turn'
        PROVE  Pair(StreamOf(k), PairOf(k))'
    <3>1. k \in 1..turn \/ k = turn + 1
      BY <1>1, <2>2
    <3>2. CASE k = turn + 1
      <4>1. StreamOf(k)' = n /\ PairOf(k)' = i
        BY <2>2, <2>4, <3>2
      <4> QED
        BY <2>3, <4>1 DEF OffersPair, TeachesPair
    <3>3. CASE k \in 1..turn
      <4>1. PICK s, j : s = StreamOf(k) /\ j = PairOf(k)
        OBVIOUS
      <4>2. StreamOf(k)' = s /\ PairOf(k)' = j
        BY <2>4, <4>1
      <4>3. \A d, kind : ChainsOf(s, j, d, kind)' = ChainsOf(s, j, d, kind)
        BY <1>1, <2>1, <3>3, <4>1, <4>2, ChainsOfTurn DEF ChainsOf
      <4>4. Pair(s, j)
        BY <3>3, <4>1 DEF TurnInv
      <4>5. Pair(s, j)'
        BY <2>2, <4>3, <4>4, PairKept
      <4> QED
        BY <4>2, <4>5 DEF OffersPair, TeachesPair
    <3> QED
      BY <3>1, <3>2, <3>3
  <2> QED
    BY <1>1, <2>5 DEF TurnInv
<1> QED
  BY <1>1, <1>2, <1>3, TurnsOfMain

\* When traffic is added all pairs are done.
LEMMA TurnImplies == TurnInv => OffersTheProfile /\ TaughtInTime
<1> SUFFICES ASSUME TurnInv, main = "add", NEW n \in DOMAIN profile, NEW i \in Pairs
             PROVE  OffersPair(n, i) /\ TeachesPair(n, i)
  BY DEF OffersTheProfile, OffersPair, TaughtInTime, TeachesPair
<1> DEFINE k == (i - 1) * Len(profile) + n
<1>1. /\ turn = NumPairs * Len(profile) /\ Len(profile) \in Nat /\ DOMAIN profile = 1..Len(profile)
      /\ NumPairs \in Nat /\ i \in 1..NumPairs
  BY IdsAssumption DEF TurnInv, DoneInv, ToldInv, CreateType, Pairs
<1>2. n \in 1..Len(profile) /\ i \in Nat \ {0} /\ Len(profile) # 0
  BY <1>1
<1>3. k \in Nat /\ k # 0 /\ StreamOf(k) = n /\ PairOf(k) = i
  BY <1>1, <1>2, NumberLemma
<1>4. k <= NumPairs * Len(profile)
  <2> DEFINE l == Len(profile)
             a == i - 1
  <2>1. a \in Nat /\ a < NumPairs /\ l \in Nat /\ n \in 1..l
    BY <1>1
  <2> HIDE DEF a, l
  <2>2. a * l \in Nat /\ NumPairs * l \in Nat /\ a * l + l <= NumPairs * l
    BY <1>1, <2>1, RangeLemma
  <2>3. a * l + n <= NumPairs * l
    BY <2>1, <2>2
  <2> QED
    BY <2>3 DEF a, l
<1>5. k \in 1..turn
  <2> DEFINE m == NumPairs * Len(profile)
  <2>1. m \in Nat /\ turn = m /\ k <= m
    BY <1>1, <1>4
  <2> HIDE DEF m, k
  <2> QED
    BY <1>3, <2>1
<1>6. OffersPair(StreamOf(k), PairOf(k)) /\ TeachesPair(StreamOf(k), PairOf(k))
  BY <1>5 DEF TurnInv
<1> QED
  BY <1>3, <1>6

\* At every moment of the trial each stream is offered at the rate, and only at
\* the times, its profile says, if its substreams fit and its rate is split
\* evenly; a garp stream of one protocol at twice its rate, a stream of latency
\* packets alone at most at --latency-rate for each protocol: for any profile,
\* number of device pairs, ticks in a second and size of a substream
\* (trex-txrx-profile.py create_stream 640-1012).
THEOREM ProfileIsOffered == Spec => []OffersTheProfile
BY TurnInit, TurnStep, TurnImplies, PTL DEF Spec

\* Every transmission of a stream with a teaching warmup is taught in time, for
\* as many flows as are taught in a second, if the burst fits in the pauses: for
\* any profile and number of device pairs (trex-txrx-profile.py
\* create_stream 684-854).
THEOREM StreamsAreTaught == Spec => []TaughtInTime
BY TurnInit, TurnStep, TurnImplies, PTL DEF Spec

-----------------------------------------------------------------------------
(* The profiler.                                                           *)

\* Samples are in the queue or in the log.  The logger does not end before the
\* event is set; then the worker adds no more than what it is about to.
SampleInv ==
  /\ sampled \in Nat /\ logged \in Nat /\ queue \in Nat
  /\ sampled = logged + queue
  /\ thread_exit \in BOOLEAN
  /\ logger = "ended" => thread_exit /\ (queue = 0 \/ (queue = 1 /\ worker # "querying"))

\* At first nothing is sampled.
LEMMA SampleInit == Init => SampleInv
<1> SUFFICES ASSUME Init PROVE SampleInv
  OBVIOUS
<1>1. sampled = 0 /\ logged = 0 /\ queue = 0 /\ thread_exit = FALSE /\ logger = "none"
  BY DEF Init
<1>2. thread_exit \in BOOLEAN
  BY <1>1, Zenon
<1>3. QED
  BY <1>1, <1>2 DEF SampleInv

\* main() leaves the samples alone.
LEMMA MainKeepsSamples ==
  ASSUME SetUp \/ MainStep \/ TrafficEnds \/ UNCHANGED vars
  PROVE  /\ UNCHANGED <<queue, sampled, logged>>
         /\ thread_exit' = thread_exit \/ thread_exit' = (thread_exit \/ worker # "none")
         /\ UNCHANGED <<worker, logger>> \/ logger' = "opening"
<1>1. CASE LoadProfile \/ Connect \/ AssignIds \/ CreateStream \/ StartProfiler
  BY <1>1 DEF LoadProfile, Connect, AssignIds, CreateStream, StartProfiler, profilerVars
<1>2. CASE Load \/ Start \/ WaitReturns \/ WaitFails \/ EndProfiler \/ Collect \/ Disconnect
  BY <1>2 DEF Load, Start, WaitReturns, WaitFails, EndProfiler, Collect, Disconnect, profilerVars
<1>3. CASE TrafficEnds \/ UNCHANGED vars
  BY <1>3 DEF TrafficEnds, vars, profilerVars
<1>4. QED
  BY <1>1, <1>2, <1>3 DEF SetUp, MainStep

\* Every step keeps the invariant of the profiler.
LEMMA SampleStep == SampleInv /\ [Next]_vars => SampleInv'
<1> SUFFICES ASSUME SampleInv, [Next]_vars PROVE SampleInv'
  OBVIOUS
<1>1. CASE SetUp \/ MainStep \/ TrafficEnds \/ UNCHANGED vars
  <2>1. /\ UNCHANGED <<queue, sampled, logged>>
        /\ thread_exit' = thread_exit \/ thread_exit' = (thread_exit \/ worker # "none")
        /\ UNCHANGED <<worker, logger>> \/ logger' = "opening"
    BY <1>1, MainKeepsSamples
  <2>2. thread_exit' \in BOOLEAN /\ (thread_exit => thread_exit')
    <3>1. thread_exit \in BOOLEAN
      BY DEF SampleInv
    <3>2. CASE thread_exit' = thread_exit
      BY <3>1, <3>2, Zenon
    <3>3. CASE thread_exit' = (thread_exit \/ worker # "none")
      BY <3>3, Zenon
    <3>4. QED
      BY <2>1, <3>2, <3>3, Zenon
  <2>3. QED
    BY <2>1, <2>2 DEF SampleInv
<1>2. CASE WorkerStep
  <2>1. UNCHANGED <<thread_exit, logger, logged>>
    BY <1>2 DEF WorkerStep
  <2>2. CASE UNCHANGED <<queue, sampled>>
    <3>1. worker' = "querying" => ~thread_exit
      BY <1>2, <2>2 DEF WorkerStep
    <3>2. QED
      BY <2>1, <2>2, <3>1 DEF SampleInv
  <2>3. CASE /\ worker = "querying" /\ worker' = "running"
             /\ queue' = queue + 1 /\ sampled' = sampled + 1
    BY <2>1, <2>3 DEF SampleInv
  <2>4. QED
    BY <1>2, <2>2, <2>3 DEF WorkerStep
<1>3. CASE LoggerStep
  <2>1. UNCHANGED <<thread_exit, worker, sampled>>
    BY <1>3 DEF LoggerStep
  <2>2. CASE LoggerOpens
    BY <2>1, <2>2 DEF LoggerOpens, SampleInv
  <2>3. CASE LoggerLogs
    BY <2>1, <2>3 DEF LoggerLogs, SampleInv
  <2>4. CASE LoggerEnds
    BY <2>1, <2>4 DEF LoggerEnds, GoesOn, SampleInv
  <2>5. QED
    BY <1>3, <2>2, <2>3, <2>4 DEF LoggerStep
<1>4. QED
  BY <1>1, <1>2, <1>3 DEF Next

\* The profiler's log lacks at most the sample that was being taken when the
\* threads were told to end, however many there were: the logger empties the
\* queue, which the worker may still append to once (trex_tg_lib.py 692-748).
THEOREM SamplesReachTheLog == Spec => []SamplesAreLogged
<1>1. SampleInv => SamplesAreLogged
  BY DEF SampleInv, SamplesAreLogged
<1>2. QED
  BY <1>1, SampleInit, SampleStep, PTL DEF Spec
==============================================================================
