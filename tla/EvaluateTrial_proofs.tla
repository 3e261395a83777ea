------------------------- MODULE EvaluateTrial_proofs -------------------------
(***************************************************************************)
(* Proofs about EvaluateTrial, for any number of device pairs, any limit,  *)
(* any trial parameters and any set of flaws.                              *)
(*                                                                         *)
(* The verdict is decided by the last requirement that is not met.  The    *)
(* proofs never ask which one that is: the verdict is "pass" exactly if    *)
(* there is none (RequirementsLemma), and it is a verdict that some unmet  *)
(* requirement asked for otherwise (QuitLemma).                            *)
(***************************************************************************)
EXTENDS EvaluateTrial, WellFoundedInduction, TLAPS

\* The inductive invariant: what is judged is known, and the verdict is one
\* on it.
EvalInv ==
  /\ trial_params \in ParamType
  /\ trial_stats \subseteq Flaws
  /\ trial_result = "none" \/ trial_result = Verdict

-------------------------------------------------------------------------------
(* The last unmet requirement.                                             *)

\* A bounded set of numbers that is not empty has a maximum.
LEMMA MaxLemma ==
  ASSUME NEW n \in Nat, NEW S \in SUBSET (1..n), S # {}
  PROVE  Max(S) \in S /\ \A k \in S : k <= Max(S)
<1> DEFINE bounds == {m \in Nat : \A y \in S : y <= m}
<1>1. bounds \subseteq Nat /\ n \in bounds
  OBVIOUS
<1>2. \E u \in bounds : \A m \in bounds : ~(m < u)
  <2> DEFINE Less == OpToRel(<, Nat)
  <2>1. IsWellFoundedOn(Less, Nat)
    BY NatLessThanWellFounded
  <2>2. \A m \in Nat, u \in Nat : m < u => <<m, u>> \in Less
    BY DEF OpToRel
  <2> HIDE DEF Less, bounds
  <2>3. \E u \in bounds : \A m \in bounds : ~(<<m, u>> \in Less)
    BY <1>1, <2>1, WFMin
  <2> QED
    BY <1>1, <2>2, <2>3
<1>3. PICK u \in bounds : \A m \in bounds : ~(m < u)
  BY <1>2
<1>4. u \in S
  <2> SUFFICES ASSUME u \notin S
               PROVE  FALSE
    OBVIOUS
  <2>1. u - 1 \in Nat
    <3>1. PICK y \in S : TRUE
      OBVIOUS
    <3>2. y \in 1..n /\ y <= u /\ u \in Nat
      BY <1>3, <3>1
    <3> QED
      BY <3>2
  <2>2. u - 1 \in bounds
    BY <1>3, <2>1
  <2> QED
    BY <1>3, <2>1, <2>2
<1>5. \E x \in S : \A y \in S : x >= y
  BY <1>3, <1>4
<1> QED
  BY <1>5 DEF Max

\* What the last unmet requirement says: "met" if and only if all are met,
\* and otherwise what one of them says behind which all are met.
LEMMA LastUnmetLemma ==
  ASSUME NEW n \in Nat, NEW checks, DOMAIN checks = 1..n
  PROVE  /\ LastUnmet(checks) = "met" <=> \A k \in 1..n : checks[k] = "met"
         /\ LastUnmet(checks) # "met" =>
              \E k \in 1..n : /\ checks[k] # "met" /\ LastUnmet(checks) = checks[k]
                              /\ \A l \in 1..n : l > k => checks[l] = "met"
<1> DEFINE unmet == {k \in DOMAIN checks : checks[k] # "met"}
<1>1. CASE unmet = {}
  BY <1>1 DEF LastUnmet
<1>2. CASE unmet # {}
  <2>1. unmet \in SUBSET (1..n)
    OBVIOUS
  <2>2. Max(unmet) \in unmet /\ \A k \in unmet : k <= Max(unmet)
    BY <1>2, <2>1, MaxLemma
  <2>3. LastUnmet(checks) = checks[Max(unmet)]
    BY <1>2 DEF LastUnmet
  <2>4. PICK k \in 1..n : k = Max(unmet)
    BY <2>1, <2>2
  <2>5. checks[k] # "met" /\ LastUnmet(checks) = checks[k]
    BY <2>2, <2>3, <2>4
  <2>6. \A l \in 1..n : l > k => checks[l] = "met"
    <3> SUFFICES ASSUME NEW l \in 1..n, l > k, checks[l] # "met"
                 PROVE  FALSE
      OBVIOUS
    <3>1. l \in unmet
      OBVIOUS
    <3>2. l <= k
      BY <2>2, <2>4, <3>1
    <3> QED
      BY <3>2
  <2> QED
    BY <2>5, <2>6
<1> QED
  BY <1>1, <1>2

\* Behind a verdict of "pass" every unmet requirement counts.
LEMMA PassFirstLemma ==
  ASSUME NEW b, NEW c, NEW d, "pass" \notin {b, c, d}
  PROVE  /\ LastUnmet(<<"pass", b, c, d>>) = "pass" <=> b = "met" /\ c = "met" /\ d = "met"
         /\ LastUnmet(<<"pass", b, c, d>>) \in {"pass", b, c, d} \ {"met"}
<1> DEFINE checks == <<"pass", b, c, d>>
<1>1. /\ DOMAIN checks = 1..4
      /\ checks[1] = "pass" /\ checks[2] = b /\ checks[3] = c /\ checks[4] = d
  OBVIOUS
<1> HIDE DEF checks
<1>2. /\ LastUnmet(checks) = "met" <=> \A k \in 1..4 : checks[k] = "met"
      /\ LastUnmet(checks) # "met" =>
           \E k \in 1..4 : /\ checks[k] # "met" /\ LastUnmet(checks) = checks[k]
                           /\ \A l \in 1..4 : l > k => checks[l] = "met"
  BY <1>1, LastUnmetLemma
<1>3. /\ LastUnmet(checks) = "pass" <=> b = "met" /\ c = "met" /\ d = "met"
      /\ LastUnmet(checks) \in {"pass", b, c, d} \ {"met"}
  BY <1>1, <1>2
<1> QED
  BY <1>3 DEF checks

-------------------------------------------------------------------------------
(* The verdict on the requirements.                                        *)

\* What the requirements look at in a device pair, besides its losses, and the
\* losses the granularity looks at.
PairMet(i) ==
  ~Has("off_rate", i) /\ ~Has("duplicate", i) /\ ~Has("stream_negative_loss", i)
    /\ ~Has("missing", i) /\ ~Has("ddos", i)

PairLossMet(i) ==
  /\ Granularity("segment") => ~Has("stream_loss", i)
  /\ ~Granularity("segment") =>
       ~Has("device_negative_loss", i) /\ ~Has("device_loss", i) /\ ~Has("device_latency_loss", i)

DirectionMet(d) == ~Has("negative_loss", d) /\ ~Has("loss", d) /\ ~Has("total_loss", d)

LatencyMet(d) == ~(d \in trial_params.latency_directions /\ probe_loss[d] > 1000 * MaxLossPct)

RequirementsMet ==
  /\ \A i \in 1..NumPairs : PairMet(i)
  /\ Granularity("direction") => \A d \in Directions : DirectionMet(d)
  /\ ~Granularity("direction") =>
       /\ \A d \in Directions : LatencyMet(d)
       /\ \A i \in 1..NumPairs : PairLossMet(i)

LEMMA PairsLemma == NumPairs \in Nat
BY EvaluateAssumption

\* No mode says "met" or "pass".
LEMMA ModesLemma ==
  ASSUME trial_params \in ParamType
  PROVE  /\ trial_params.duplicate_packet_failure_mode \notin {"met", "pass"}
         /\ trial_params.negative_packet_loss_mode \notin {"met", "pass"}
BY DEF ParamType

\* The groups of requirements: each is met if its requirements are, and says
\* "quit" only for what is critical.
LEMMA RateLemma ==
  ASSUME trial_params \in ParamType
  PROVE  /\ LastUnmet(RateChecks) = "met" <=> \A i \in 1..NumPairs : ~Has("off_rate", i)
         /\ LastUnmet(RateChecks) \notin {"pass", "quit"}
<1>1. NumPairs \in Nat /\ DOMAIN RateChecks = 1..NumPairs
  BY PairsLemma DEF RateChecks
<1>2. \A i \in 1..NumPairs :
        RateChecks[i] \in {"met", "retry-to-quit", "retry-to-fail"}
          /\ (RateChecks[i] = "met" <=> ~Has("off_rate", i))
  BY DEF RateChecks, Check
<1>3. /\ LastUnmet(RateChecks) = "met" <=> \A i \in 1..NumPairs : RateChecks[i] = "met"
      /\ LastUnmet(RateChecks) # "met" =>
           \E i \in 1..NumPairs : RateChecks[i] # "met" /\ LastUnmet(RateChecks) = RateChecks[i]
  BY <1>1, LastUnmetLemma
<1> QED
  BY <1>2, <1>3

LEMMA StreamLemma ==
  ASSUME trial_params \in ParamType, NEW i \in 1..NumPairs
  PROVE  /\ LastUnmet(StreamChecks(i)) = "met" <=>
              ~Has("duplicate", i) /\ ~Has("stream_negative_loss", i)
                /\ ~Has("missing", i) /\ ~Has("ddos", i)
         /\ LastUnmet(StreamChecks(i)) # "pass"
         /\ LastUnmet(StreamChecks(i)) = "quit" => PairCritical(i)
<1> DEFINE a == Check(Has("duplicate", i), trial_params.duplicate_packet_failure_mode)
           b == Check(Has("stream_negative_loss", i), trial_params.negative_packet_loss_mode)
           c == Check(Has("missing", i), "fail")
           d == Check(Has("ddos", i), "fail")
<1>1. /\ DOMAIN StreamChecks(i) = 1..4
      /\ StreamChecks(i)[1] = a /\ StreamChecks(i)[2] = b
      /\ StreamChecks(i)[3] = c /\ StreamChecks(i)[4] = d
  BY DEF StreamChecks
<1>2. /\ a = "met" <=> ~Has("duplicate", i)
      /\ b = "met" <=> ~Has("stream_negative_loss", i)
      /\ c = "met" <=> ~Has("missing", i)
      /\ d = "met" <=> ~Has("ddos", i)
      /\ "pass" \notin {a, b, c, d}
      /\ a = "quit" \/ b = "quit" => PairCritical(i)
      /\ c # "quit" /\ d # "quit"
  BY ModesLemma DEF Check, PairCritical, QuitsOnNegativeLoss
<1> HIDE DEF a, b, c, d
<1>3. /\ LastUnmet(StreamChecks(i)) = "met" <=> a = "met" /\ b = "met" /\ c = "met" /\ d = "met"
      /\ LastUnmet(StreamChecks(i)) \in {"met", a, b, c, d}
  <2>1. /\ LastUnmet(StreamChecks(i)) = "met" <=> \A k \in 1..4 : StreamChecks(i)[k] = "met"
        /\ LastUnmet(StreamChecks(i)) # "met" => \E k \in 1..4 : LastUnmet(StreamChecks(i)) = StreamChecks(i)[k]
    BY <1>1, LastUnmetLemma
  <2> QED
    BY <1>1, <2>1
<1> QED
  BY <1>2, <1>3 DEF Has

LEMMA DirectionLemma ==
  ASSUME trial_params \in ParamType, Granularity("direction"), NEW e \in Directions
  PROVE  /\ LastUnmet(DirectionChecks(e)) = "met" <=> DirectionMet(e)
         /\ LastUnmet(DirectionChecks(e)) # "pass"
         /\ LastUnmet(DirectionChecks(e)) = "quit" => DirectionCritical(e)
<1> DEFINE a == Check(Has("negative_loss", e), trial_params.negative_packet_loss_mode)
           b == Check(Has("loss", e) \/ Has("total_loss", e), "fail")
<1>1. /\ DOMAIN DirectionChecks(e) = 1..2
      /\ DirectionChecks(e)[1] = a /\ DirectionChecks(e)[2] = b
  BY DEF DirectionChecks
<1>2. /\ a = "met" <=> ~Has("negative_loss", e)
      /\ b = "met" <=> ~Has("loss", e) /\ ~Has("total_loss", e)
      /\ "pass" \notin {a, b}
      /\ a = "quit" => DirectionCritical(e)
      /\ b # "quit"
  BY ModesLemma DEF Check, DirectionCritical, QuitsOnNegativeLoss
<1> HIDE DEF a, b
<1>3. /\ LastUnmet(DirectionChecks(e)) = "met" <=> a = "met" /\ b = "met"
      /\ LastUnmet(DirectionChecks(e)) \in {"met", a, b}
  <2>1. /\ LastUnmet(DirectionChecks(e)) = "met" <=> \A k \in 1..2 : DirectionChecks(e)[k] = "met"
        /\ LastUnmet(DirectionChecks(e)) # "met" => \E k \in 1..2 : LastUnmet(DirectionChecks(e)) = DirectionChecks(e)[k]
    BY <1>1, LastUnmetLemma
  <2> QED
    BY <1>1, <2>1
<1>4. LastUnmet(DirectionChecks(e)) = "met" <=> DirectionMet(e)
  BY <1>2, <1>3 DEF DirectionMet, Has
<1>5. /\ LastUnmet(DirectionChecks(e)) # "pass"
      /\ LastUnmet(DirectionChecks(e)) = "quit" => a = "quit"
  BY <1>2, <1>3
<1>6. LastUnmet(DirectionChecks(e)) = "quit" => DirectionCritical(e)
  BY <1>2, <1>5
<1> QED
  BY <1>4, <1>5, <1>6

LEMMA PairLossLemma ==
  ASSUME trial_params \in ParamType, ~Granularity("direction"), NEW i \in 1..NumPairs
  PROVE  /\ LastUnmet(PairLossChecks(i)) = "met" <=> PairLossMet(i)
         /\ LastUnmet(PairLossChecks(i)) # "pass"
         /\ LastUnmet(PairLossChecks(i)) = "quit" => PairCritical(i)
<1>1. CASE Granularity("segment")
  <2> DEFINE a == Check(Has("stream_loss", i), "fail")
  <2>1. DOMAIN PairLossChecks(i) = 1..1 /\ PairLossChecks(i)[1] = a
    BY <1>1 DEF PairLossChecks
  <2>2. a \in {"met", "fail"} /\ (a = "met" <=> ~Has("stream_loss", i))
    BY DEF Check
  <2> HIDE DEF a
  <2>3. /\ LastUnmet(PairLossChecks(i)) = "met" <=> a = "met"
        /\ LastUnmet(PairLossChecks(i)) \in {"met", a}
    <3>1. /\ LastUnmet(PairLossChecks(i)) = "met" <=> \A k \in 1..1 : PairLossChecks(i)[k] = "met"
          /\ LastUnmet(PairLossChecks(i)) # "met" => \E k \in 1..1 : LastUnmet(PairLossChecks(i)) = PairLossChecks(i)[k]
      BY <2>1, LastUnmetLemma
    <3> QED
      BY <2>1, <3>1
  <2> QED
    BY <1>1, <2>2, <2>3 DEF PairLossMet, Has
<1>2. CASE ~Granularity("segment")
  <2> DEFINE a == Check(Has("device_negative_loss", i), trial_params.negative_packet_loss_mode)
             b == Check(Has("device_loss", i), "fail")
             c == Check(Has("device_latency_loss", i), "fail")
  <2>1. /\ DOMAIN PairLossChecks(i) = 1..3
        /\ PairLossChecks(i)[1] = a /\ PairLossChecks(i)[2] = b /\ PairLossChecks(i)[3] = c
    BY <1>2 DEF PairLossChecks
  <2>2. Granularity("device")
    BY <1>2 DEF Granularity, ParamType
  <2>3. /\ a = "met" <=> ~Has("device_negative_loss", i)
        /\ b = "met" <=> ~Has("device_loss", i)
        /\ c = "met" <=> ~Has("device_latency_loss", i)
        /\ "pass" \notin {a, b, c}
        /\ a = "quit" => PairCritical(i)
        /\ b # "quit" /\ c # "quit"
    BY <2>2, ModesLemma DEF Check, PairCritical, QuitsOnNegativeLoss
  <2> HIDE DEF a, b, c
  <2>4. /\ LastUnmet(PairLossChecks(i)) = "met" <=> a = "met" /\ b = "met" /\ c = "met"
        /\ LastUnmet(PairLossChecks(i)) \in {"met", a, b, c}
    <3>1. /\ LastUnmet(PairLossChecks(i)) = "met" <=> \A k \in 1..3 : PairLossChecks(i)[k] = "met"
          /\ LastUnmet(PairLossChecks(i)) # "met" => \E k \in 1..3 : LastUnmet(PairLossChecks(i)) = PairLossChecks(i)[k]
      BY <2>1, LastUnmetLemma
    <3> QED
      BY <2>1, <3>1
  <2> QED
    BY <1>2, <2>3, <2>4 DEF PairLossMet, Has
<1> QED
  BY <1>1, <1>2

LEMMA LossLemma ==
  ASSUME trial_params \in ParamType
  PROVE  /\ LastUnmet(LossChecks) = "met" <=>
              /\ Granularity("direction") => \A d \in Directions : DirectionMet(d)
              /\ ~Granularity("direction") =>
                   /\ \A d \in Directions : LatencyMet(d)
                   /\ \A i \in 1..NumPairs : PairLossMet(i)
         /\ LastUnmet(LossChecks) # "pass"
         /\ LastUnmet(LossChecks) = "quit" => Critical
<1>1. CASE Granularity("direction")
  <2> DEFINE a == LastUnmet(DirectionChecks("->"))
             b == LastUnmet(DirectionChecks("<-"))
  <2>1. DOMAIN LossChecks = 1..2 /\ LossChecks[1] = a /\ LossChecks[2] = b
    BY <1>1 DEF LossChecks
  <2>2. /\ a = "met" <=> DirectionMet("->")
        /\ b = "met" <=> DirectionMet("<-")
        /\ "pass" \notin {a, b}
        /\ a = "quit" => DirectionCritical("->")
        /\ b = "quit" => DirectionCritical("<-")
    BY <1>1, DirectionLemma DEF Directions
  <2> HIDE DEF a, b
  <2>3. /\ LastUnmet(LossChecks) = "met" <=> a = "met" /\ b = "met"
        /\ LastUnmet(LossChecks) \in {"met", a, b}
    <3>1. /\ LastUnmet(LossChecks) = "met" <=> \A k \in 1..2 : LossChecks[k] = "met"
          /\ LastUnmet(LossChecks) # "met" => \E k \in 1..2 : LastUnmet(LossChecks) = LossChecks[k]
      BY <2>1, LastUnmetLemma
    <3> QED
      BY <2>1, <3>1
  <2>4. /\ LastUnmet(LossChecks) = "met" <=> DirectionMet("->") /\ DirectionMet("<-")
        /\ LastUnmet(LossChecks) # "pass"
        /\ LastUnmet(LossChecks) = "quit" => DirectionCritical("->") \/ DirectionCritical("<-")
    BY <2>1, <2>2, <2>3
  <2> QED
    BY <1>1, <2>4 DEF Critical, Directions
<1>2. CASE ~Granularity("direction")
  <2> DEFINE losses == [i \in 1..NumPairs |-> LastUnmet(PairLossChecks(i))]
             a == LatencyCheck("->")
             b == LatencyCheck("<-")
             c == LastUnmet(losses)
  <2>1. /\ DOMAIN LossChecks = 1..3
        /\ LossChecks[1] = a /\ LossChecks[2] = b /\ LossChecks[3] = c
    BY <1>2 DEF LossChecks
  <2>2. /\ a = "met" <=> LatencyMet("->")
        /\ b = "met" <=> LatencyMet("<-")
        /\ a \in {"met", "fail"} /\ b \in {"met", "fail"}
    BY DEF LatencyCheck, LatencyMet, Check
  <2>3. /\ c = "met" <=> \A i \in 1..NumPairs : PairLossMet(i)
        /\ c # "pass"
        /\ c = "quit" => \E i \in 1..NumPairs : PairCritical(i)
    <3>1. NumPairs \in Nat /\ DOMAIN losses = 1..NumPairs
      BY PairsLemma
    <3>2. \A i \in 1..NumPairs :
            /\ losses[i] = "met" <=> PairLossMet(i)
            /\ losses[i] # "pass"
            /\ losses[i] = "quit" => PairCritical(i)
      BY <1>2, PairLossLemma
    <3> HIDE DEF losses
    <3>3. /\ c = "met" <=> \A i \in 1..NumPairs : losses[i] = "met"
          /\ c # "met" => \E i \in 1..NumPairs : losses[i] # "met" /\ c = losses[i]
      BY <3>1, LastUnmetLemma
    <3> QED
      BY <3>2, <3>3
  <2> HIDE DEF a, b, c
  <2>4. /\ LastUnmet(LossChecks) = "met" <=> a = "met" /\ b = "met" /\ c = "met"
        /\ LastUnmet(LossChecks) \in {"met", a, b, c}
    <3>1. /\ LastUnmet(LossChecks) = "met" <=> \A k \in 1..3 : LossChecks[k] = "met"
          /\ LastUnmet(LossChecks) # "met" => \E k \in 1..3 : LastUnmet(LossChecks) = LossChecks[k]
      BY <2>1, LastUnmetLemma
    <3> QED
      BY <2>1, <3>1
  <2>5. /\ LastUnmet(LossChecks) = "met" <=>
             /\ LatencyMet("->") /\ LatencyMet("<-")
             /\ \A i \in 1..NumPairs : PairLossMet(i)
        /\ LastUnmet(LossChecks) # "pass"
        /\ LastUnmet(LossChecks) = "quit" => \E i \in 1..NumPairs : PairCritical(i)
    BY <2>1, <2>2, <2>3, <2>4
  <2> QED
    BY <1>2, <2>5 DEF Critical, Directions
<1> QED
  BY <1>1, <1>2

\* The requirements in all: the verdict is "pass" if and only if every one is
\* met, and "quit" only if something is critical.
LEMMA RequirementsLemma ==
  ASSUME trial_params \in ParamType
  PROVE  /\ RequirementsVerdict = "pass" <=> RequirementsMet
         /\ RequirementsVerdict = "quit" => Critical
<1> DEFINE streams == [i \in 1..NumPairs |-> LastUnmet(StreamChecks(i))]
           b == LastUnmet(RateChecks)
           c == LastUnmet(streams)
           d == LastUnmet(LossChecks)
<1>1. RequirementsVerdict = LastUnmet(<<"pass", b, c, d>>)
  BY DEF RequirementsVerdict
<1>2. NumPairs \in Nat /\ DOMAIN streams = 1..NumPairs
  BY PairsLemma
<1>3. \A i \in 1..NumPairs :
        /\ streams[i] = "met" <=> ~Has("duplicate", i) /\ ~Has("stream_negative_loss", i)
                                    /\ ~Has("missing", i) /\ ~Has("ddos", i)
        /\ streams[i] # "pass"
        /\ streams[i] = "quit" => PairCritical(i)
  BY StreamLemma
<1> HIDE DEF streams, b, d
<1>4. /\ c = "met" <=> \A i \in 1..NumPairs : streams[i] = "met"
      /\ c # "met" => \E i \in 1..NumPairs : streams[i] # "met" /\ c = streams[i]
  BY <1>2, LastUnmetLemma
<1> HIDE DEF c
<1>5. /\ b = "met" <=> \A i \in 1..NumPairs : ~Has("off_rate", i)
      /\ b \notin {"pass", "quit"}
  BY RateLemma DEF b
<1>6. /\ c = "met" <=> \A i \in 1..NumPairs :
                         ~Has("duplicate", i) /\ ~Has("stream_negative_loss", i)
                           /\ ~Has("missing", i) /\ ~Has("ddos", i)
      /\ c # "pass"
      /\ c = "quit" => Critical
  BY <1>3, <1>4 DEF Critical
<1>7. /\ b = "met" /\ c = "met" /\ d = "met" <=> RequirementsMet
      /\ d # "pass"
      /\ d = "quit" => Critical
  BY <1>5, <1>6, LossLemma DEF d, RequirementsMet, PairMet
<1>8. /\ LastUnmet(<<"pass", b, c, d>>) = "pass" <=> b = "met" /\ c = "met" /\ d = "met"
      /\ LastUnmet(<<"pass", b, c, d>>) \in {"pass", b, c, d} \ {"met"}
  <2>1. "pass" \notin {b, c, d}
    BY <1>5, <1>6, <1>7
  <2> QED
    BY <2>1, PassFirstLemma, Zenon
<1>9. /\ RequirementsVerdict = "pass" <=> b = "met" /\ c = "met" /\ d = "met"
      /\ RequirementsVerdict \in {"pass", b, c, d}
  BY <1>1, <1>8
<1> QED
  BY <1>5, <1>6, <1>7, <1>9

-------------------------------------------------------------------------------
(* The verdict on the trial.                                               *)

\* Without a warmup, a trial passes only if every requirement is met, nothing
\* is critical, and nothing is wrong with the trial as a whole.
LEMMA PassLemma ==
  ASSUME trial_params \in ParamType, ~Warmup
  PROVE  Verdict = "pass" <=>
           /\ ~LossRatioMissing /\ ~Critical /\ RequirementsMet
           /\ ~Has("force_quit", "trial") /\ ~Has("early_exit", "trial")
           /\ ~Has("timeout", "trial") /\ ~Has("off_runtime", "trial")
<1>1. CASE LossRatioMissing
  BY <1>1 DEF Verdict
<1>2. CASE ~LossRatioMissing /\ Critical
  BY <1>2 DEF Verdict
<1>3. CASE ~LossRatioMissing /\ ~Critical
  <2> DEFINE requirements == RequirementsVerdict
  <2>1. Verdict = TrialVerdict(requirements)
    BY <1>3 DEF Verdict
  <2>2. requirements = "pass" <=> RequirementsMet
    BY RequirementsLemma
  <2> HIDE DEF requirements
  <2>3. TrialVerdict(requirements) = "pass" <=>
          /\ requirements = "pass"
          /\ ~Has("force_quit", "trial") /\ ~Has("early_exit", "trial")
          /\ ~Has("timeout", "trial") /\ ~Has("off_runtime", "trial")
    BY DEF TrialVerdict, Has
  <2> QED
    BY <1>3, <2>1, <2>2, <2>3
<1> QED
  BY <1>1, <1>2, <1>3

\* A flaw is one of a device pair, of a direction, or of the trial.
LEMMA PlaceLemma ==
  ASSUME NEW flaw \in Flaws
  PROVE  \/ \E f \in PairFlaws, i \in 1..NumPairs : flaw = <<f, i>>
         \/ \E f \in DirectionFlaws, d \in Directions : flaw = <<f, d>>
         \/ \E f \in TrialFlaws : flaw = <<f, "trial">>
<1>1. CASE flaw \in PairFlaws \X (1..NumPairs)
  BY <1>1
<1>2. CASE flaw \in DirectionFlaws \X Directions
  BY <1>2
<1>3. CASE flaw \in TrialFlaws \X {"trial"}
  <2>1. \E f \in TrialFlaws, t \in {"trial"} : flaw = <<f, t>>
    BY <1>3
  <2> QED
    BY <2>1
<1> QED
  BY <1>1, <1>2, <1>3 DEF Flaws

\* The flaws that are not looked for, by granularity.
LEMMA NotTestedLemma ==
  /\ Granularity("direction") =>
       NotTested = {"stream_total_loss", "stream_loss", "device_negative_loss", "device_loss",
                    "device_latency_loss"}
  /\ Granularity("device") => NotTested = {"stream_total_loss", "stream_loss"} \cup DirectionFlaws
  /\ Granularity("segment") =>
       NotTested = {"device_negative_loss", "device_loss", "device_latency_loss"}
                   \cup DirectionFlaws
BY DEF Granularity, NotTested

\* A trial that passes has no flaw that its granularity looks for.
LEMMA NoFlawLemma ==
  ASSUME trial_params \in ParamType, trial_stats \subseteq Flaws, ~Warmup,
         ~Critical, RequirementsMet,
         ~Has("force_quit", "trial"), ~Has("early_exit", "trial"),
         ~Has("timeout", "trial"), ~Has("off_runtime", "trial"),
         NEW flaw \in trial_stats
  PROVE  flaw[1] \in NotTested
<1>1. CASE \E f \in PairFlaws, i \in 1..NumPairs : flaw = <<f, i>>
  <2>1. PICK f \in PairFlaws, i \in 1..NumPairs : flaw = <<f, i>>
    BY <1>1
  <2>2. Has(f, i) /\ flaw[1] = f
    BY <2>1 DEF Has
  <2>3. PairMet(i) /\ ~PairCritical(i) /\ (~Granularity("direction") => PairLossMet(i))
    BY DEF RequirementsMet, Critical
  <2>4. f \notin {"no_packets", "wrong_port", "duplicate", "stream_negative_loss",
                  "off_rate", "missing", "ddos"}
    BY <2>2, <2>3 DEF PairMet, PairCritical
  <2>8. f \in {"stream_total_loss", "stream_loss", "device_negative_loss", "device_loss",
               "device_latency_loss"}
    BY <2>4 DEF PairFlaws
  <2>5. CASE Granularity("direction")
    BY <2>2, <2>5, <2>8, NotTestedLemma
  <2>6. CASE Granularity("device")
    <3>1. f \notin {"device_negative_loss", "device_loss", "device_latency_loss"}
      BY <2>2, <2>3, <2>6 DEF PairLossMet, Granularity
    <3> QED
      BY <2>2, <2>6, <2>8, <3>1, NotTestedLemma
  <2>7. CASE Granularity("segment")
    <3>1. f \notin {"stream_loss", "stream_total_loss"}
      BY <2>2, <2>3, <2>7 DEF PairLossMet, PairCritical, Granularity
    <3> QED
      BY <2>2, <2>7, <2>8, <3>1, NotTestedLemma
  <2> QED
    BY <2>5, <2>6, <2>7 DEF ParamType, Granularity
<1>2. CASE \E f \in DirectionFlaws, d \in Directions : flaw = <<f, d>>
  <2>1. PICK f \in DirectionFlaws, d \in Directions : flaw = <<f, d>>
    BY <1>2
  <2>2. Has(f, d) /\ flaw[1] = f
    BY <2>1 DEF Has
  <2>3. ~Granularity("direction")
    BY <2>1, <2>2 DEF RequirementsMet, DirectionMet, DirectionFlaws
  <2>4. Granularity("device") \/ Granularity("segment")
    BY <2>3 DEF Granularity, ParamType
  <2>5. f \in NotTested
    BY <2>1, <2>4, NotTestedLemma
  <2> QED
    BY <2>2, <2>5
<1>3. CASE \E f \in TrialFlaws : flaw = <<f, "trial">>
  <2>1. PICK f \in TrialFlaws : flaw = <<f, "trial">>
    BY <1>3
  <2> QED
    BY <2>1 DEF Has, TrialFlaws
<1> QED
  BY <1>1, <1>2, <1>3, PlaceLemma

\* A trial without such a flaw, and without a lost probe, passes.
Flawless ==
  /\ \A d \in trial_params.latency_directions : probe_loss[d] = 0
  /\ \A flaw \in trial_stats : flaw[1] \in NotTested

LEMMA FlawlessLemma ==
  ASSUME trial_params \in ParamType, Flawless
  PROVE  /\ ~LossRatioMissing /\ ~Critical /\ RequirementsMet
         /\ ~Has("force_quit", "trial") /\ ~Has("early_exit", "trial")
         /\ ~Has("timeout", "trial") /\ ~Has("off_runtime", "trial")
<1>1. \A f, place : Has(f, place) => f \in NotTested
  BY DEF Has, Flawless
<1>2. \A f \in {"no_packets", "wrong_port", "duplicate", "stream_negative_loss", "off_rate",
                "missing", "ddos", "force_quit", "early_exit", "timeout", "off_runtime"} :
        f \notin NotTested
  BY DEF NotTested, DirectionFlaws, Granularity, ParamType
<1>3. /\ Granularity("direction") => \A f \in DirectionFlaws : f \notin NotTested
      /\ Granularity("segment") =>
           "stream_total_loss" \notin NotTested /\ "stream_loss" \notin NotTested
      /\ Granularity("device") =>
           /\ "device_negative_loss" \notin NotTested /\ "device_loss" \notin NotTested
           /\ "device_latency_loss" \notin NotTested
  BY DEF NotTested, DirectionFlaws, Granularity
<1>4. Granularity("direction") \/ Granularity("device") \/ Granularity("segment")
  BY DEF Granularity, ParamType
<1>5. \A d \in trial_params.latency_directions :
        probe_loss[d] \notin {NoProbes, AllProbes} /\ ~(probe_loss[d] > 1000 * MaxLossPct)
  <2>1. MaxLossPct \in Nat
    BY EvaluateAssumption
  <2>2. 0 \notin {NoProbes, AllProbes} /\ ~(0 > 1000 * MaxLossPct)
    BY <2>1 DEF NoProbes, AllProbes
  <2> QED
    BY <2>2 DEF Flawless
<1>6. \A i \in 1..NumPairs : PairMet(i) /\ (~Granularity("direction") => PairLossMet(i)) /\ ~PairCritical(i)
  <2> SUFFICES ASSUME NEW i \in 1..NumPairs
               PROVE  PairMet(i) /\ (~Granularity("direction") => PairLossMet(i)) /\ ~PairCritical(i)
    OBVIOUS
  <2>1. PairMet(i)
    BY <1>1, <1>2 DEF PairMet
  <2>2. ~Granularity("direction") => PairLossMet(i)
    BY <1>1, <1>3, <1>4 DEF PairLossMet
  <2>3. ~PairCritical(i)
    BY <1>1, <1>2, <1>3 DEF PairCritical
  <2> QED
    BY <2>1, <2>2, <2>3
<1>7. \A d \in Directions : LatencyMet(d)
  BY <1>5 DEF LatencyMet
<1>8. \A d \in Directions : ~DirectionCritical(d) /\ (Granularity("direction") => DirectionMet(d))
  BY <1>1, <1>3 DEF DirectionCritical, DirectionMet, DirectionFlaws
<1>9. ~LossRatioMissing /\ ~Critical
  BY <1>5, <1>6, <1>8 DEF LossRatioMissing, Critical, LatencyCritical
<1> QED
  BY <1>1, <1>2, <1>6, <1>7, <1>8, <1>9 DEF RequirementsMet

\* The search quits on a trial only by force or for something critical.
LEMMA QuitLemma ==
  ASSUME trial_params \in ParamType, Verdict = "quit"
  PROVE  Has("force_quit", "trial") \/ (Critical /\ ~Warmup)
<1>1. CASE LossRatioMissing
  BY <1>1 DEF Verdict
<1>2. CASE ~LossRatioMissing /\ Critical /\ ~Warmup
  BY <1>2
<1>3. CASE ~LossRatioMissing /\ ~(Critical /\ ~Warmup)
  <2> DEFINE requirements == RequirementsVerdict
  <2>1. TrialVerdict(requirements) = "quit"
    BY <1>3 DEF Verdict
  <2>2. requirements = "quit" => Critical
    BY RequirementsLemma
  <2> HIDE DEF requirements
  <2>3. Has("force_quit", "trial") \/ (requirements = "quit" /\ ~Warmup)
    BY <2>1 DEF TrialVerdict
  <2> QED
    BY <2>2, <2>3
<1> QED
  BY <1>1, <1>2, <1>3

-------------------------------------------------------------------------------
(* The specification.                                                      *)

\* What is judged decides the verdict.
LEMMA SameVerdictLemma ==
  ASSUME UNCHANGED <<trial_params, trial_stats, probe_loss>>
  PROVE  Verdict' = Verdict
<1>1. /\ \A f, place : Has(f, place)' = Has(f, place)
      /\ \A level : Granularity(level)' = Granularity(level)
      /\ QuitsOnNegativeLoss' = QuitsOnNegativeLoss /\ Warmup' = Warmup
  BY DEF Has, Granularity, QuitsOnNegativeLoss, Warmup
<1>2. /\ \A i : PairCritical(i)' = PairCritical(i)
      /\ \A d : DirectionCritical(d)' = DirectionCritical(d)
      /\ \A d : LatencyCritical(d)' = LatencyCritical(d)
  BY <1>1 DEF PairCritical, DirectionCritical, LatencyCritical
<1>3. Critical' = Critical /\ LossRatioMissing' = LossRatioMissing
  BY <1>1, <1>2 DEF Critical, LossRatioMissing
<1>4. /\ \A i : StreamChecks(i)' = StreamChecks(i)
      /\ \A d : DirectionChecks(d)' = DirectionChecks(d)
      /\ \A d : LatencyCheck(d)' = LatencyCheck(d)
      /\ \A i : PairLossChecks(i)' = PairLossChecks(i)
  <2>1. \A i : StreamChecks(i)' = StreamChecks(i)
    BY <1>1 DEF StreamChecks
  <2>2. \A d : DirectionChecks(d)' = DirectionChecks(d)
    BY <1>1 DEF DirectionChecks
  <2>3. \A d : LatencyCheck(d)' = LatencyCheck(d)
    BY DEF LatencyCheck
  <2>4. \A i : PairLossChecks(i)' = PairLossChecks(i)
    BY <1>1 DEF PairLossChecks
  <2> QED
    BY <2>1, <2>2, <2>3, <2>4
<1>5. RateChecks' = RateChecks
  BY <1>1 DEF RateChecks
<1>6. LossChecks' = LossChecks
  BY <1>1, <1>4 DEF LossChecks
<1>7. RequirementsVerdict' = RequirementsVerdict
  BY <1>4, <1>5, <1>6 DEF RequirementsVerdict
<1>8. \A verdict : TrialVerdict(verdict)' = TrialVerdict(verdict)
  BY <1>1 DEF TrialVerdict
<1> QED
  BY <1>1, <1>3, <1>7, <1>8 DEF Verdict

LEMMA EvalInvariance == Spec => []EvalInv
<1>1. Init => EvalInv
  <2> SUFFICES ASSUME Init
               PROVE  EvalInv
    OBVIOUS
  <2>1. trial_params \in ParamType /\ trial_result = "none"
    BY EvaluateAssumption DEF Init
  <2>2. trial_stats \subseteq Flaws
    <3>1. CASE trial_stats = {}
      BY <3>1
    <3>2. CASE \E flaws \in [1..MaxFlaws -> Flaws] : trial_stats = Range(flaws)
      BY <3>2 DEF Range
    <3> QED
      BY <3>1, <3>2 DEF Init
  <2> QED
    BY <2>1, <2>2 DEF EvalInv
<1>2. EvalInv /\ [Evaluate]_vars => EvalInv'
  <2> SUFFICES ASSUME EvalInv, [Evaluate]_vars
               PROVE  EvalInv'
    OBVIOUS
  <2>1. /\ UNCHANGED <<trial_params, trial_stats, probe_loss>>
        /\ trial_result' = trial_result \/ trial_result' = Verdict
    BY DEF Evaluate, vars
  <2>2. Verdict' = Verdict
    BY <2>1, SameVerdictLemma
  <2> QED
    BY <2>1, <2>2 DEF EvalInv
<1> QED
  BY <1>1, <1>2, PTL DEF Spec

\* A trial passes if and only if nothing is wrong with it that its granularity
\* looks for, for any number of device pairs and any combination of flaws
\* (evaluate_trial(), 2711-3103).
THEOREM PassesRightly == Spec => []PassIffMet
<1>1. EvalInv => PassIffMet
  BY PassLemma, NoFlawLemma, FlawlessLemma DEF EvalInv, PassIffMet, Flawless
<1> QED
  BY <1>1, EvalInvariance, PTL

\* The search never quits on a trial whose flaws all ask for less: a verdict of
\* "quit" among the later requirements comes with the same flaw among the
\* critical ones.
THEOREM QuitsRightly == Spec => []QuitsForAReason
<1>1. EvalInv => QuitsForAReason
  BY QuitLemma DEF EvalInv, QuitsForAReason
<1> QED
  BY <1>1, EvalInvariance, PTL
===============================================================================
