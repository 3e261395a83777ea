--------------------------- MODULE AstfTrial_proofs ---------------------------
(***************************************************************************)
(* Proofs about AstfTrial, for all parameters, set-ups and seconds.        *)
(***************************************************************************)
EXTENDS AstfTrial, TLAPS

-------------------------------------------------------------------------------
(* Sums over the window.  That there is one function of sums, and what it  *)
(* ends in, is carried along while the window grows.                       *)

Counts == DOMAIN OldCounts

IsSum(f, w, c) ==
  f = [n \in 0..Len(w) |-> IF n = 0 THEN 0 ELSE f[n - 1] + w[n].counts[c]]

SumsTo(w, c, total) ==
  /\ \E f : IsSum(f, w, c)
  /\ \A f : IsSum(f, w, c) => f[Len(w)] = total

LEMMA EmptySum ==
  ASSUME NEW c
  PROVE  SumsTo(<<>>, c, 0)
<1>1. Len(<<>>) = 0 /\ 0..0 = {0}
  OBVIOUS
<1>2. IsSum([n \in {0} |-> 0], <<>>, c)
  BY <1>1 DEF IsSum
<1>3. ASSUME NEW f, IsSum(f, <<>>, c)
      PROVE  f[0] = 0
  BY <1>1, <1>3 DEF IsSum
<1> QED
  BY <1>1, <1>2, <1>3 DEF SumsTo

\* A second more in the window.
LEMMA NextSum ==
  ASSUME NEW S, NEW w \in Seq(S), NEW s \in S, NEW c, NEW total,
         SumsTo(w, c, total)
  PROVE  SumsTo(Append(w, s), c, total + s.counts[c])
<1> DEFINE longer == Append(w, s)
<1>1. /\ Len(w) \in Nat /\ Len(longer) = Len(w) + 1
      /\ \A n \in 1..Len(w) : longer[n] = w[n]
      /\ longer[Len(w) + 1] = s
  OBVIOUS
<1> HIDE DEF longer
<1> DEFINE last == Len(w) + 1
<1>2. /\ last \in 0..last /\ last # 0 /\ last - 1 = Len(w)
      /\ \A n \in 0..last : n = last \/ n \in 0..Len(w)
      /\ \A n \in 0..Len(w) : n \in 0..last /\ n # last /\ (n # 0 => n - 1 \in 0..Len(w))
      /\ \A n \in 0..Len(w) : n # 0 => n \in 1..Len(w)
  BY <1>1
<1> HIDE DEF last
<1>3. \E g : IsSum(g, longer, c)
  <2>1. PICK f : IsSum(f, w, c)
    BY DEF SumsTo
  <2> DEFINE g == [n \in 0..last |-> IF n = last THEN f[Len(w)] + s.counts[c] ELSE f[n]]
  <2>2. /\ g[last] = f[Len(w)] + s.counts[c]
        /\ \A n \in 0..Len(w) : g[n] = f[n]
    BY <1>2
  <2>3. \A n \in 0..Len(w) : f[n] = IF n = 0 THEN 0 ELSE f[n - 1] + w[n].counts[c]
    BY <2>1 DEF IsSum
  <2>4. ASSUME NEW n \in 0..last
        PROVE  g[n] = IF n = 0 THEN 0 ELSE g[n - 1] + longer[n].counts[c]
    <3>1. CASE n = last
      <4>1. g[n - 1] = f[Len(w)]
        BY <1>1, <1>2, <2>2, <3>1
      <4>2. longer[n] = s
        BY <1>1, <3>1 DEF last
      <4> QED
        BY <1>2, <2>2, <3>1, <4>1, <4>2
    <3>2. CASE n \in 0..Len(w)
      <4>1. g[n] = f[n] /\ (n # 0 => g[n - 1] = f[n - 1])
        BY <1>2, <2>2, <3>2
      <4>2. n # 0 => longer[n] = w[n]
        BY <1>1, <1>2, <3>2
      <4> QED
        BY <2>3, <3>2, <4>1, <4>2
    <3> QED
      BY <1>2, <3>1, <3>2
  <2>5. g = [n \in 0..last |-> g[n]]
    OBVIOUS
  <2> HIDE DEF g
  <2>6. IsSum(g, longer, c)
    <3>1. Len(longer) = last
      BY <1>1 DEF last
    <3> QED
      BY <2>4, <2>5, <3>1 DEF IsSum
  <2> QED
    BY <2>6
<1>4. ASSUME NEW g, IsSum(g, longer, c)
      PROVE  g[last] = total + s.counts[c]
  <2>1. Len(longer) = last
    BY <1>1 DEF last
  <2>2. \A n \in 0..last : g[n] = IF n = 0 THEN 0 ELSE g[n - 1] + longer[n].counts[c]
    BY <1>4, <2>1 DEF IsSum
  <2> DEFINE f == [n \in 0..Len(w) |-> g[n]]
  <2>3. \A n \in 0..Len(w) : f[n] = g[n]
    OBVIOUS
  <2>4. ASSUME NEW n \in 0..Len(w)
        PROVE  f[n] = IF n = 0 THEN 0 ELSE f[n - 1] + w[n].counts[c]
    <3>1. n # 0 => longer[n] = w[n] /\ f[n - 1] = g[n - 1]
      BY <1>1, <1>2, <2>3
    <3> QED
      BY <1>2, <2>2, <2>3, <3>1
  <2>5. f = [n \in 0..Len(w) |-> f[n]]
    OBVIOUS
  <2> HIDE DEF f
  <2>6. IsSum(f, w, c)
    BY <2>4, <2>5 DEF IsSum
  <2>7. f[Len(w)] = total
    BY <2>6 DEF SumsTo
  <2>8. g[last] = g[Len(w)] + s.counts[c]
    BY <1>1, <1>2, <2>2 DEF last
  <2>9. g[Len(w)] = total
    BY <1>1, <2>3, <2>7
  <2> QED
    BY <2>8, <2>9
<1>5. Len(longer) = last
  BY <1>1 DEF last
<1> QED
  BY <1>3, <1>4, <1>5 DEF SumsTo, longer

\* The sum in the properties is the one that is carried along.
LEMMA TotalIsSum ==
  ASSUME NEW c, NEW total, SumsTo(window, c, total)
  PROVE  Total(c) = total
<1> DEFINE sum == CHOOSE f : IsSum(f, window, c)
<1>1. IsSum(sum, window, c)
  BY DEF SumsTo
<1>2. sum[Len(window)] = total
  BY <1>1 DEF SumsTo
<1>3. Total(c) = sum[Len(window)]
  BY DEF Total, IsSum
<1> QED
  BY <1>2, <1>3

-------------------------------------------------------------------------------
(* Percentages and the flow table.                                         *)

\* A quotient, rounded down or up, is close to the ratio.
LEMMA QuotientBounds ==
  ASSUME NEW part \in Nat, NEW whole \in Nat, whole > 0
  PROVE  /\ part \div whole \in Nat
         /\ whole * (part \div whole) <= part
         /\ part < whole * (part \div whole) + whole
  OBVIOUS

\* A percentage within a limit: it is rounded up, so no more was lost.
LEMMA PercentWithin ==
  ASSUME NEW part \in Nat, NEW whole \in Nat, whole > 0, NEW limit \in Nat,
         Percent(part, whole) <= limit
  PROVE  100 * part <= limit * whole
<1> DEFINE above == 100 * part + whole - 1
           q == above \div whole
<1>1. above \in Nat
  OBVIOUS
<1>2. q \in Nat /\ above < whole * q + whole
  BY <1>1, QuotientBounds
<1>3. Percent(part, whole) = q
  BY DEF Percent
<1>4. q <= limit
  BY <1>3
<1>5. whole * q <= whole * limit
  BY <1>2, <1>4
<1>6. 100 * part <= whole * q
  BY <1>2
<1>7. whole * q \in Int /\ whole * limit \in Int /\ limit * whole = whole * limit
  BY <1>2
<1> QED
  BY <1>5, <1>6, <1>7

ParamsOK == trial_params \in ParamSet /\ setup \in Setups

\* A flow table of 20 or more is full enough when every template has its flows.
LEMMA FullTableShows ==
  ASSUME ParamsOK, trial_params.astf_max_flows >= 20
  PROVE  /\ FlowLimit \in Nat
         /\ 100 * FlowLimit >= 95 * trial_params.astf_max_flows
<1> DEFINE m == trial_params.astf_max_flows
           a == CpsBase("tcp")
           b == CpsBase("udp")
<1>1. m \in Nat /\ m >= 20
  BY AstfAssumption DEF ParamsOK, ParamType
<1>2. CASE trial_params.astf_protocol # "mixed"
  <2>1. FlowLimit = m
    BY <1>1, <1>2, AstfAssumption DEF FlowLimit, Limit
  <2> QED
    BY <1>1, <2>1
<1>3. CASE trial_params.astf_protocol = "mixed"
  <2>1. a \in Nat /\ b \in Nat /\ a > 0 /\ b > 0
    <3>1. setup.astf_udp_percent \in 0..100
      BY AstfTrialAssumption DEF ParamsOK, SetupType
    <3> QED
      BY <3>1 DEF CpsBase
  <2>2. FlowLimit = (m * a) \div (a + b) + (m * b) \div (a + b)
    BY <1>1, <1>3 DEF FlowLimit, Limit
  <2> HIDE DEF a, b, m
  <2> DEFINE w == a + b
             x == (m * a) \div w
             y == (m * b) \div w
  <2>3. w \in Nat /\ w > 0 /\ m * a \in Nat /\ m * b \in Nat /\ m * a + m * b = w * m
    BY <1>1, <2>1
  <2> HIDE DEF w
  <2>4. x \in Nat /\ y \in Nat /\ m * a < w * x + w /\ m * b < w * y + w
    BY <2>3, QuotientBounds
  <2> HIDE DEF x, y
  <2>5. x + y + 2 > m
    <3> SUFFICES ASSUME x + y + 2 <= m PROVE FALSE
      BY <1>1, <2>4
    <3>1. w * (x + y + 2) <= w * m
      BY <1>1, <2>3, <2>4
    <3>2. w * (x + y + 2) = (w * x + w) + (w * y + w)
      BY <2>3, <2>4
    <3>3. w * m < (w * x + w) + (w * y + w)
      <4>1. w * x \in Nat /\ w * y \in Nat
        BY <2>3, <2>4
      <4> QED
        BY <2>3, <2>4, <4>1
    <3>4. w * x \in Nat /\ w * y \in Nat /\ w * m \in Nat
      BY <1>1, <2>3, <2>4
    <3> QED
      BY <2>3, <3>1, <3>2, <3>3, <3>4
  <2>6. FlowLimit = x + y
    BY <2>2 DEF x, y, w
  <2>7. FlowLimit \in Nat /\ 100 * FlowLimit >= 95 * m
    BY <1>1, <2>4, <2>5, <2>6
  <2> QED
    BY <2>7 DEF m
<1> QED
  BY <1>2, <1>3

-------------------------------------------------------------------------------
(* The invariant.                                                          *)

\* What the window holds, and what was counted in it.
WindowOK ==
  /\ window \in Seq(Seconds)
  /\ sampled = Len(window)
  /\ counters = [counts |-> counters.counts, errors |-> counters.errors]

Measured ==
  /\ counters.counts \in [Counts -> Nat]
  /\ \A c \in Counts : SumsTo(window, c, counters.counts[c])
  /\ \A k \in DOMAIN window : window[k].errors \subseteq counters.errors
  /\ window # <<>> =>
       gauges = [tx_cps |-> AtEnd.tx_cps, flows |-> IF AtEnd.full THEN FlowLimit ELSE 1]

BeforeSample == pc \in {"connect", "configure", "load", "clear", "start", "poll", "sample"}

AstfInv ==
  /\ ParamsOK
  /\ WindowOK
  /\ BeforeSample => window = <<>>
  /\ pc \in {"sleep", "judge"} => Measured
  /\ pc = "judge" => astf = Extract(counters) /\ Len(window) = setup.runtime
  /\ trial_result # "none" => pc = "done"
  /\ PassIsEarned
  /\ QuitsWithoutTraffic

LEMMA InitInv == Init => AstfInv
<1> SUFFICES ASSUME Init PROVE AstfInv
  OBVIOUS
<1>1. ParamsOK
  BY DEF Init, ParamsOK
<1>2. WindowOK
  <2>1. window = <<>> /\ sampled = 0 /\ <<>> \in Seq(Seconds) /\ Len(<<>>) = 0
    BY DEF Init
  <2> QED
    BY <2>1 DEF Init, WindowOK
<1>3. pc \in {"connect", "sample", "clear"}
  BY DEF Init
<1> QED
  BY <1>1, <1>2, <1>3 DEF Init, AstfInv, PassIsEarned, QuitsWithoutTraffic

\* Until it is judged, a trial has no verdict.
LEMMA NoVerdictYet ==
  ASSUME AstfInv, pc # "done", trial_result' = trial_result
  PROVE  trial_result' = "none" /\ PassIsEarned' /\ QuitsWithoutTraffic'
  BY DEF AstfInv, PassIsEarned, QuitsWithoutTraffic

\* A step before the sample, or into the exception.
LEMMA BeforeSampleInv ==
  ASSUME AstfInv, BeforeSample, BeforeSample' \/ pc' = "exception",
         UNCHANGED <<trial_params, astf, trial_result, setup, window, sampled>>,
         counters' = [counts |-> counters'.counts, errors |-> counters'.errors]
  PROVE  AstfInv'
<1>1. pc # "done"
  BY DEF BeforeSample
<1>2. trial_result' = "none" /\ PassIsEarned' /\ QuitsWithoutTraffic'
  BY <1>1, NoVerdictYet
<1>3. ParamsOK' /\ WindowOK' /\ window' = <<>>
  BY DEF AstfInv, ParamsOK, WindowOK
<1>4. pc' \notin {"sleep", "judge"}
  BY DEF BeforeSample
<1> QED
  BY <1>2, <1>3, <1>4 DEF AstfInv

LEMMA PrepareInv == AstfInv /\ Prepare => AstfInv'
<1> SUFFICES ASSUME AstfInv, Prepare PROVE AstfInv'
  OBVIOUS
<1>1. BeforeSample /\ (BeforeSample' \/ pc' = "exception")
  BY DEF Prepare, Call, BeforeSample
<1>2. UNCHANGED <<trial_params, astf, trial_result, setup, window, sampled>> /\ counters' = counters
  BY DEF Prepare
<1>3. counters' = [counts |-> counters'.counts, errors |-> counters'.errors]
  BY <1>2 DEF AstfInv, WindowOK
<1> QED
  BY <1>1, <1>2, <1>3, BeforeSampleInv

LEMMA ClearedShape == Cleared = [counts |-> Cleared.counts, errors |-> Cleared.errors]
BY DEF Cleared

LEMMA ClearInv == AstfInv /\ Clear => AstfInv'
<1> SUFFICES ASSUME AstfInv, Clear PROVE AstfInv'
  OBVIOUS
<1>1. BeforeSample /\ (BeforeSample' \/ pc' = "exception")
  BY DEF Clear, Call, BeforeSample
<1>2. UNCHANGED <<trial_params, astf, trial_result, setup, window, sampled>>
  BY DEF Clear
<1>3. counters' = [counts |-> counters'.counts, errors |-> counters'.errors]
  BY ClearedShape DEF Clear, AstfInv, WindowOK
<1> QED
  BY <1>1, <1>2, <1>3, BeforeSampleInv

LEMMA PollInv == AstfInv /\ Poll => AstfInv'
<1> SUFFICES ASSUME AstfInv, Poll PROVE AstfInv'
  OBVIOUS
<1>1. BeforeSample /\ (BeforeSample' \/ pc' = "exception")
  BY DEF Poll, BeforeSample
<1>2. UNCHANGED <<trial_params, astf, trial_result, setup, window, sampled>>
  BY DEF Poll
<1>3. counters' = [counts |-> counters'.counts, errors |-> counters'.errors]
  BY DEF Poll, Elapse
<1> QED
  BY <1>1, <1>2, <1>3, BeforeSampleInv

\* The sample begins with counters at zero and no second gone.
LEMMA BeginSampleInv == AstfInv /\ BeginSample => AstfInv'
<1> SUFFICES ASSUME AstfInv, BeginSample PROVE AstfInv'
  OBVIOUS
<1>1. /\ pc = "sample" /\ (pc' = "sleep" \/ pc' = "exception")
      /\ UNCHANGED <<trial_params, astf, trial_result, setup, window, sampled>>
      /\ counters' = IF pc' = "sleep" THEN Cleared ELSE counters
  BY DEF BeginSample, Call, CountersOfSample
<1>2. trial_result' = "none" /\ PassIsEarned' /\ QuitsWithoutTraffic'
  BY <1>1, NoVerdictYet
<1>3. window' = <<>> /\ window = <<>>
  BY <1>1 DEF AstfInv, BeforeSample
<1>4. ParamsOK' /\ WindowOK'
  BY <1>1, ClearedShape DEF AstfInv, ParamsOK, WindowOK
<1>5. pc' = "sleep" => Measured'
  <2> SUFFICES ASSUME pc' = "sleep" PROVE Measured'
    OBVIOUS
  <2>1. counters'.counts = [c \in Counts |-> 0]
    BY <1>1 DEF Cleared, Nothing, Counts
  <2>2. counters'.counts \in [Counts -> Nat] /\ \A c \in Counts : counters'.counts[c] = 0
    BY <2>1
  <2>3. \A c \in Counts : SumsTo(window', c, counters'.counts[c])
    BY <1>3, <2>2, EmptySum
  <2>4. DOMAIN window' = {}
    BY <1>3
  <2> QED
    BY <1>3, <2>2, <2>3, <2>4 DEF Measured
<1> QED
  BY <1>1, <1>2, <1>3, <1>4, <1>5 DEF AstfInv, BeforeSample

LEMMA SleepInv == AstfInv /\ Sleep => AstfInv'
<1> SUFFICES ASSUME AstfInv, Sleep PROVE AstfInv'
  OBVIOUS
<1>1. /\ pc = "sleep" /\ pc' = "sleep" /\ sampled' = sampled + 1
      /\ UNCHANGED <<trial_params, astf, trial_result, setup>>
  BY DEF Sleep
<1>2. PICK s \in Seconds : Elapse(s) /\ window' = Append(window, s)
  BY DEF Sleep, PossibleSeconds
<1>3. trial_result' = "none" /\ PassIsEarned' /\ QuitsWithoutTraffic'
  BY <1>1, NoVerdictYet
<1>4. window \in Seq(Seconds) /\ sampled = Len(window) /\ Measured
  BY <1>1 DEF AstfInv, WindowOK
<1>5. /\ window' \in Seq(Seconds) /\ Len(window') = Len(window) + 1 /\ window' # <<>>
      /\ DOMAIN window = 1..Len(window) /\ DOMAIN window' = 1..Len(window')
      /\ \A k \in 1..Len(window) : window'[k] = window[k]
      /\ window'[Len(window')] = s
  BY <1>2, <1>4
<1>6. ParamsOK' /\ WindowOK'
  BY <1>1, <1>2, <1>4, <1>5 DEF AstfInv, ParamsOK, WindowOK, Elapse
<1>7. Measured'
  <2>1. /\ counters'.counts = [c \in Counts |-> counters.counts[c] + s.counts[c]]
        /\ counters'.errors = counters.errors \cup s.errors
        /\ gauges' = [tx_cps |-> s.tx_cps, flows |-> IF s.full THEN FlowLimit ELSE 1]
    BY <1>2 DEF Elapse, Nothing, Counts
  <2>2. s.counts \in [Counts -> Nat]
    <3>1. s.counts \in CountType /\ OldCounts \in CountType
      BY AstfTrialAssumption DEF SecondType
    <3>2. Counts = TcpCounts \cup UdpCounts \cup {"opackets"}
      BY <3>1 DEF CountType, Counts
    <3> QED
      BY <3>1, <3>2 DEF CountType
  <2>3. counters'.counts \in [Counts -> Nat]
    BY <1>4, <2>1, <2>2 DEF Measured
  <2>4. ASSUME NEW c \in Counts
        PROVE  SumsTo(window', c, counters'.counts[c])
    <3>1. SumsTo(window, c, counters.counts[c])
      BY <1>4 DEF Measured
    <3>2. SumsTo(Append(window, s), c, counters.counts[c] + s.counts[c])
      BY <1>4, <3>1, NextSum
    <3>3. counters'.counts[c] = counters.counts[c] + s.counts[c]
      BY <2>1
    <3> QED
      BY <1>2, <3>2, <3>3
  <2>5. ASSUME NEW k \in DOMAIN window'
        PROVE  window'[k].errors \subseteq counters'.errors
    <3>1. CASE k \in DOMAIN window
      BY <1>4, <1>5, <2>1, <3>1 DEF Measured
    <3>2. CASE k = Len(window')
      BY <1>5, <2>1, <3>2
    <3> QED
      BY <1>4, <1>5, <3>1, <3>2
  <2>6. gauges' = [tx_cps |-> AtEnd'.tx_cps, flows |-> IF AtEnd'.full THEN FlowLimit' ELSE 1]
    <3>1. AtEnd' = s
      BY <1>5 DEF AtEnd, Last
    <3>2. FlowLimit' = FlowLimit
      BY <1>1 DEF FlowLimit, Limit, CpsBase
    <3> QED
      BY <2>1, <3>1, <3>2
  <2> QED
    BY <2>3, <2>4, <2>5, <2>6 DEF Measured
<1> QED
  BY <1>1, <1>3, <1>6, <1>7 DEF AstfInv, BeforeSample

LEMMA TakeStatsInv == AstfInv /\ TakeStats => AstfInv'
<1> SUFFICES ASSUME AstfInv, TakeStats PROVE AstfInv'
  OBVIOUS
<1>1. /\ pc = "sleep" /\ sampled = setup.runtime
      /\ \/ pc' = "judge" /\ astf' = Extract(counters)
         \/ pc' = "exception"
      /\ UNCHANGED <<trial_params, trial_result, setup, counters, gauges, sampled, window>>
  BY DEF TakeStats
<1>2. trial_result' = "none" /\ PassIsEarned' /\ QuitsWithoutTraffic'
  BY <1>1, NoVerdictYet
<1>3. ParamsOK' /\ WindowOK' /\ Len(window) = setup.runtime
  BY <1>1 DEF AstfInv, ParamsOK, WindowOK
<1>4. Measured'
  <2>1. Measured
    BY <1>1 DEF AstfInv
  <2> QED
    BY <1>1, <2>1 DEF Measured, AtEnd, FlowLimit, Limit, CpsBase
<1>5. Extract(counters)' = Extract(counters)
  BY <1>1 DEF Extract
<1> QED
  BY <1>1, <1>2, <1>3, <1>4, <1>5 DEF AstfInv, BeforeSample

LEMMA ExceptionInv == AstfInv /\ Exception => AstfInv'
<1> SUFFICES ASSUME AstfInv, Exception PROVE AstfInv'
  OBVIOUS
<1>1. /\ pc' = "done" /\ trial_result' = "error"
      /\ UNCHANGED <<trial_params, setup, counters, sampled, window>>
  BY DEF Exception
<1> QED
  BY <1>1 DEF AstfInv, ParamsOK, WindowOK, BeforeSample, PassIsEarned, QuitsWithoutTraffic

-------------------------------------------------------------------------------
(* The verdict.                                                            *)

\* What is judged is what was counted in the window.
LEMMA JudgedCounts ==
  ASSUME AstfInv, pc = "judge"
  PROVE  /\ \A c \in TcpCounts \cup UdpCounts \cup {"opackets"} :
              Total(c) = counters.counts[c] /\ Total(c) \in Nat
         /\ astf = Extract(counters) /\ Len(window) = setup.runtime
<1>1. Measured /\ astf = Extract(counters) /\ Len(window) = setup.runtime
  BY DEF AstfInv
<1>2. Counts = TcpCounts \cup UdpCounts \cup {"opackets"}
  BY AstfTrialAssumption DEF CountType, Counts
<1>3. ASSUME NEW c \in Counts
      PROVE  Total(c) = counters.counts[c] /\ Total(c) \in Nat
  <2>1. SumsTo(window, c, counters.counts[c]) /\ counters.counts[c] \in Nat
    BY <1>1 DEF Measured
  <2> QED
    BY <2>1, TotalIsSum
<1> QED
  BY <1>1, <1>2, <1>3

\* The statistics in terms of the window.
LEMMA JudgedStats ==
  ASSUME AstfInv, pc = "judge"
  PROVE  /\ Attempted \in Nat
         /\ astf.connections_attempted = Attempted
         /\ astf.tx_packets = Total("opackets")
         /\ astf.connection_error_pct = Percent(Total("tcps_drops"), Attempted)
         /\ astf.retransmit_pct = Percent(Total("tcps_sndrexmitpack"), Total("tcps_sndpack"))
         /\ LET lost == Total("udps_sndpkt") - Total("udps_rcvpkt")
            IN  astf.udp_drop_pct = IF lost > 0 THEN Percent(lost, Total("udps_sndpkt")) ELSE 0
         /\ astf.cps = gauges.tx_cps /\ astf.active_flows = gauges.flows
         /\ astf.astf_errors = IF "errors" \in setup.faults THEN {} ELSE counters.errors
         /\ ~astf.force_quit /\ ~astf.timeout /\ ~astf.early_exit
<1>1. \A c \in TcpCounts \cup UdpCounts \cup {"opackets"} :
        Total(c) = counters.counts[c] /\ Total(c) \in Nat
  BY JudgedCounts
<1>2. /\ Total("tcps_connattempt") = counters.counts["tcps_connattempt"]
      /\ Total("udps_connects") = counters.counts["udps_connects"]
      /\ Total("tcps_drops") = counters.counts["tcps_drops"]
      /\ Total("tcps_sndrexmitpack") = counters.counts["tcps_sndrexmitpack"]
      /\ Total("tcps_sndpack") = counters.counts["tcps_sndpack"]
      /\ Total("udps_sndpkt") = counters.counts["udps_sndpkt"]
      /\ Total("udps_rcvpkt") = counters.counts["udps_rcvpkt"]
      /\ Total("opackets") = counters.counts["opackets"]
      /\ Attempted \in Nat
  BY <1>1 DEF TcpCounts, UdpCounts, Attempted
<1>3. astf = Extract(counters)
  BY JudgedCounts
<1>4. Attempted = counters.counts["tcps_connattempt"] + counters.counts["udps_connects"]
  BY <1>2 DEF Attempted
<1> QED
  BY <1>2, <1>3, <1>4 DEF Extract, NullStats

\* A verdict to pass means that every phase was met.
LEMMA PassMeetsPhases ==
  ASSUME Verdict = "pass", ~Warmup, ~astf.force_quit, ~astf.timeout, ~astf.early_exit
  PROVE  /\ ~ZeroTraffic /\ ~Collapsed /\ ~Saturated /\ ~CatastrophicError
         /\ ~ConnectionErrors /\ ~Retransmits /\ ~UdpDrops /\ ~UnderDelivery
<1>1. Phase7(PhasesVerdict) = PhasesVerdict
  BY DEF Phase7
<1>2. PhasesVerdict = "pass"
  BY <1>1 DEF Verdict
<1> QED
  BY <1>2 DEF PhasesVerdict

\* A verdict to quit means that there was no traffic.
LEMMA QuitMeansNoTraffic ==
  ASSUME Verdict = "quit", ~astf.force_quit, ~astf.timeout, ~astf.early_exit
  PROVE  ~Warmup /\ ZeroTraffic
<1>1. Phase7(PhasesVerdict) = PhasesVerdict
  BY DEF Phase7
<1>2. ~Warmup
  BY DEF Verdict
<1>3. PhasesVerdict = "abort"
  BY <1>1, <1>2 DEF Verdict, PhasesVerdict
<1> QED
  BY <1>2, <1>3 DEF PhasesVerdict

\* Nothing was counted in a window of no length.
LEMMA EmptyWindow ==
  ASSUME window = <<>>
  PROVE  Attempted + Total("opackets") = 0
<1>1. ASSUME NEW c
      PROVE  Total(c) = 0
  <2>1. SumsTo(window, c, 0)
    BY EmptySum
  <2> QED
    BY <2>1, TotalIsSum
<1>2. Total("tcps_connattempt") = 0 /\ Total("udps_connects") = 0 /\ Total("opackets") = 0
  BY <1>1
<1> QED
  BY <1>2 DEF Attempted

LEMMA PassIsWithinLimits ==
  ASSUME AstfInv, pc = "judge", ~ConnectionErrors, ~Retransmits, ~UdpDrops
  PROVE  WithinLimits
<1>1. trial_params \in ParamType
  BY AstfAssumption DEF AstfInv, ParamsOK
<1>2. /\ Total("tcps_drops") \in Nat /\ Total("tcps_sndrexmitpack") \in Nat
      /\ Total("tcps_sndpack") \in Nat /\ Total("udps_sndpkt") \in Nat
      /\ Total("udps_rcvpkt") \in Nat /\ Attempted \in Nat
  BY JudgedCounts, JudgedStats DEF TcpCounts, UdpCounts
<1>3. Attempted > 0 =>
        100 * Total("tcps_drops") <= trial_params.astf_max_error_pct * Attempted
  <2> SUFFICES ASSUME Attempted > 0
               PROVE  100 * Total("tcps_drops") <= trial_params.astf_max_error_pct * Attempted
    OBVIOUS
  <2>1. trial_params.astf_max_error_pct \in Nat
    BY <1>1 DEF ParamType
  <2>2. Percent(Total("tcps_drops"), Attempted) = astf.connection_error_pct
    BY JudgedStats
  <2>3. Percent(Total("tcps_drops"), Attempted) \in Int
    BY <1>2 DEF Percent
  <2>4. Percent(Total("tcps_drops"), Attempted) <= trial_params.astf_max_error_pct
    BY <2>1, <2>2, <2>3 DEF ConnectionErrors
  <2> QED
    BY <1>2, <2>1, <2>4, PercentWithin
<1>4. trial_params.astf_max_retransmit_pct # 0 /\ Total("tcps_sndpack") > 0 =>
        100 * Total("tcps_sndrexmitpack")
          <= trial_params.astf_max_retransmit_pct * Total("tcps_sndpack")
  <2> SUFFICES ASSUME trial_params.astf_max_retransmit_pct # 0, Total("tcps_sndpack") > 0
               PROVE  100 * Total("tcps_sndrexmitpack")
                        <= trial_params.astf_max_retransmit_pct * Total("tcps_sndpack")
    OBVIOUS
  <2>1. trial_params.astf_max_retransmit_pct \in Nat
    BY <1>1 DEF ParamType
  <2>2. Percent(Total("tcps_sndrexmitpack"), Total("tcps_sndpack")) = astf.retransmit_pct
    BY JudgedStats
  <2>3. Percent(Total("tcps_sndrexmitpack"), Total("tcps_sndpack")) \in Int
    BY <1>2 DEF Percent
  <2>4. Percent(Total("tcps_sndrexmitpack"), Total("tcps_sndpack"))
          <= trial_params.astf_max_retransmit_pct
    BY <2>1, <2>2, <2>3 DEF Retransmits
  <2> QED
    BY <1>2, <2>1, <2>4, PercentWithin
<1>5. ASSUME trial_params.astf_protocol # "tcp"
      PROVE  100 * (Total("udps_sndpkt") - Total("udps_rcvpkt"))
               <= UdpDropThreshold * Total("udps_sndpkt")
  <2> DEFINE lost == Total("udps_sndpkt") - Total("udps_rcvpkt")
  <2>1. UdpDropThreshold \in Nat
    BY <1>1 DEF ParamType, UdpDropThreshold
  <2>2. ~(astf.udp_drop_pct > UdpDropThreshold)
    BY <1>1, <1>5 DEF UdpDrops, ParamType
  <2>3. CASE lost > 0
    <3>1. lost \in Nat /\ Total("udps_sndpkt") > 0
      BY <1>2, <2>3
    <3>2. astf.udp_drop_pct = Percent(lost, Total("udps_sndpkt"))
      BY <2>3, JudgedStats
    <3>3. Percent(lost, Total("udps_sndpkt")) \in Int
      BY <1>2, <3>1 DEF Percent
    <3>4. Percent(lost, Total("udps_sndpkt")) <= UdpDropThreshold
      BY <2>1, <2>2, <3>2, <3>3
    <3> QED
      BY <1>2, <2>1, <3>1, <3>4, PercentWithin
  <2>4. CASE ~(lost > 0)
    <3>1. UdpDropThreshold * Total("udps_sndpkt") \in Nat
      BY <1>2, <2>1
    <3>2. lost \in Int /\ 100 * lost <= 0
      BY <1>2, <2>4
    <3> QED
      BY <3>1, <3>2
  <2> QED
    BY <2>3, <2>4
<1>6. UdpDropThreshold
        = trial_params.astf_max_udp_drop_pct
            + IF trial_params.astf_max_udp_drop_pct = 0
              THEN trial_params.astf_max_error_pct ELSE 0
  BY <1>1 DEF UdpDropThreshold, ParamType
<1> QED
  BY <1>3, <1>4, <1>5, <1>6 DEF WithinLimits

LEMMA PassEarned ==
  ASSUME AstfInv, pc = "judge", Verdict = "pass", ~Warmup
  PROVE  Earned
<1>1. /\ ~ZeroTraffic /\ ~Collapsed /\ ~Saturated /\ ~CatastrophicError
      /\ ~ConnectionErrors /\ ~Retransmits /\ ~UdpDrops /\ ~UnderDelivery
  BY JudgedStats, PassMeetsPhases
<1>2. trial_params \in ParamType /\ ParamsOK
  BY AstfAssumption DEF AstfInv, ParamsOK
<1>3. WithinLimits /\ Len(window) = setup.runtime
  BY <1>1, PassIsWithinLimits, JudgedCounts
<1>4. window # <<>>
  BY <1>1, EmptyWindow, JudgedStats DEF ZeroTraffic
<1>5. AtEnd \in Seconds
  BY <1>4 DEF AtEnd, Last, AstfInv, WindowOK
<1>6. gauges = [tx_cps |-> AtEnd.tx_cps, flows |-> IF AtEnd.full THEN FlowLimit ELSE 1]
  BY <1>4 DEF AstfInv, Measured
<1>7. /\ astf.cps = AtEnd.tx_cps /\ AtEnd.tx_cps \in Nat
      /\ astf.active_flows = IF AtEnd.full THEN FlowLimit ELSE 1
  BY <1>5, <1>6, JudgedStats, AstfTrialAssumption DEF SecondType
<1>8. Attempted > 0 \/ AtEnd.tx_cps > 0
  BY <1>1, <1>7, JudgedStats DEF Collapsed
<1>9. trial_params.astf_max_cps_deviation_pct # 0 =>
        100 * AtEnd.tx_cps
          >= (100 - trial_params.astf_max_cps_deviation_pct) * trial_params.rate
  <2> DEFINE deviation == trial_params.astf_max_cps_deviation_pct
             wanted == trial_params.rate
             cps == AtEnd.tx_cps
  <2> SUFFICES ASSUME deviation # 0
               PROVE  100 * cps >= (100 - deviation) * wanted
    OBVIOUS
  <2>1. deviation \in Nat /\ wanted \in Nat /\ cps \in Nat
    BY <1>2, <1>7 DEF ParamType
  <2>2. ~(100 * (wanted - cps) > deviation * wanted)
    BY <1>1, <1>7, <2>1 DEF UnderDelivery
  <2> HIDE DEF deviation, wanted, cps
  <2>3. (100 - deviation) * wanted = 100 * wanted - deviation * wanted
    BY <2>1
  <2>4. deviation * wanted \in Nat
    BY <2>1
  <2>5. 100 * cps >= (100 - deviation) * wanted
    BY <2>1, <2>2, <2>3, <2>4
  <2> QED
    BY <2>5
<1>10. trial_params.astf_max_flows >= 20 => ~AtEnd.full
  <2> SUFFICES ASSUME trial_params.astf_max_flows >= 20, AtEnd.full PROVE FALSE
    OBVIOUS
  <2>1. FlowLimit \in Nat /\ 100 * FlowLimit >= 95 * trial_params.astf_max_flows
    BY <1>2, FullTableShows
  <2>2. astf.active_flows = FlowLimit
    BY <1>7
  <2>3. trial_params.astf_max_flows \in Nat
    BY <1>2 DEF ParamType
  <2> QED
    BY <1>1, <2>1, <2>2, <2>3 DEF Saturated
<1>11. ASSUME "errors" \notin setup.faults, NEW k \in DOMAIN window
       PROVE  window[k].errors \cap Catastrophic \subseteq trial_params.astf_ignore_errors
  <2>1. window[k].errors \subseteq counters.errors
    BY DEF AstfInv, Measured
  <2>2. astf.astf_errors = counters.errors
    BY <1>11, JudgedStats
  <2> QED
    BY <1>1, <2>1, <2>2 DEF CatastrophicError
<1> QED
  BY <1>3, <1>8, <1>9, <1>10, <1>11 DEF Earned

\* What the properties say of the window does not change with the verdict.
LEMMA WindowSame ==
  ASSUME UNCHANGED <<trial_params, setup, window>>
  PROVE  /\ Earned' = Earned /\ Warmup' = Warmup
         /\ (Attempted + Total("opackets"))' = Attempted + Total("opackets")
  BY DEF Earned, Warmup, WithinLimits, Attempted, Total, AtEnd

LEMMA JudgeInv == AstfInv /\ Judge => AstfInv'
<1> SUFFICES ASSUME AstfInv, Judge PROVE AstfInv'
  OBVIOUS
<1>1. /\ pc = "judge" /\ pc' = "done" /\ trial_result' = Verdict
      /\ UNCHANGED <<trial_params, astf, setup, counters, gauges, sampled, window>>
  BY DEF Judge, Evaluate
<1>2. /\ Earned' = Earned /\ Warmup' = Warmup
      /\ (Attempted + Total("opackets"))' = Attempted + Total("opackets")
  BY <1>1, WindowSame
<1>3. PassIsEarned'
  BY <1>1, <1>2, PassEarned DEF PassIsEarned
<1>4. QuitsWithoutTraffic'
  <2> SUFFICES ASSUME Verdict = "quit"
               PROVE  /\ ~Warmup /\ Len(window) = setup.runtime
                      /\ Attempted + Total("opackets") = 0
    BY <1>1, <1>2 DEF QuitsWithoutTraffic
  <2>1. ~Warmup /\ ZeroTraffic
    BY <1>1, JudgedStats, QuitMeansNoTraffic
  <2> QED
    BY <1>1, <2>1, JudgedStats, JudgedCounts DEF ZeroTraffic
<1>5. ParamsOK' /\ WindowOK'
  BY <1>1 DEF AstfInv, ParamsOK, WindowOK
<1> QED
  BY <1>1, <1>3, <1>4, <1>5 DEF AstfInv, BeforeSample

LEMMA AstfInvariance == Spec => []AstfInv
<1>1. ASSUME AstfInv, UNCHANGED vars
      PROVE  AstfInv'
  <2>1. /\ UNCHANGED <<trial_params, astf, trial_result, setup, pc, counters, gauges,
                       sampled, window>>
    BY <1>1 DEF vars, clientVars
  <2>2. Earned' = Earned /\ Warmup' = Warmup
        /\ (Attempted + Total("opackets"))' = Attempted + Total("opackets")
    BY <2>1, WindowSame
  <2>3. Measured' = Measured /\ Extract(counters)' = Extract(counters)
    BY <2>1 DEF Measured, AtEnd, FlowLimit, Limit, CpsBase, Extract
  <2> QED
    BY <1>1, <2>1, <2>2, <2>3
       DEF AstfInv, ParamsOK, WindowOK, BeforeSample, PassIsEarned, QuitsWithoutTraffic
<1>2. AstfInv /\ [Next]_vars => AstfInv'
  BY <1>1, PrepareInv, ClearInv, PollInv, BeginSampleInv, SleepInv, TakeStatsInv,
     ExceptionInv, JudgeInv DEF Next
<1> QED
  BY <1>2, InitInv, PTL DEF Spec

\* A stateful trial that passes carried connections for its runtime, within
\* every limit that applies to it.
THEOREM PassesAreEarned == Spec => []PassIsEarned
<1>1. AstfInv => PassIsEarned
  BY DEF AstfInv
<1> QED
  BY <1>1, AstfInvariance, PTL

\* Only a runtime without any traffic stops the search.
THEOREM QuitsOnlyWithoutTraffic == Spec => []QuitsWithoutTraffic
<1>1. AstfInv => QuitsWithoutTraffic
  BY DEF AstfInv
<1> QED
  BY <1>1, AstfInvariance, PTL

===============================================================================
