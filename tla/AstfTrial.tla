------------------------------- MODULE AstfTrial -------------------------------
(***************************************************************************)
(* A trial of stateful traffic, by the program trex-astf.py or in process: *)
(* the client is set up, traffic is started unless it runs already, the    *)
(* connection rate is waited for, the counters are cleared, sampled after  *)
(* the runtime and made the statistics that EvaluateAstf judges.           *)
(*                                                                         *)
(* Time is counted in seconds.  What TRex counts in each is drawn from     *)
(* Seconds; counters grow from a clear_stats() to the next.  Calls that    *)
(* change nothing and whose exceptions are caught on the spot are left out.*)
(***************************************************************************)
EXTENDS EvaluateAstf, Sequences, FiniteSets, SequencesExt

CONSTANTS
  Setups,     \* how the trial is run, see SetupType
  Seconds,    \* what may happen in a second, see SecondType
  OldCounts   \* counters left by earlier traffic

TcpCounts == {"tcps_connattempt", "tcps_drops", "tcps_sndpack", "tcps_sndrexmitpack"}
UdpCounts == {"udps_connects", "udps_sndpkt", "udps_rcvpkt"}
CountType == [TcpCounts \cup UdpCounts \cup {"opackets"} -> Nat]

SecondType ==
  [counts : CountType,
   errors : SUBSET (Catastrophic \cup OtherCounters),
   rx_pps : Nat, tx_cps : Nat,
   full   : BOOLEAN]   \* every template has as many flows as it may

\* The client calls that end a trial when they raise, and the reading of the
\* error counters, after which the trial goes on.
Calls == {"connect", "configure", "load", "clear", "start", "poll", "sample", "stats",
          "stop", "errors"}

SetupType ==
  [inprocess : BOOLEAN,
   traffic_running : BOOLEAN,  \* in process: from the trial before
   runtime : Nat, astf_ramp_time : Nat,
   astf_e_duration : Nat,      \* 0: no watchdog
   astf_udp_percent : 0..100,
   faults : SUBSET Calls]

ASSUME AstfTrialAssumption ==
  /\ Setups \subseteq SetupType
  /\ \A setup \in Setups : setup.traffic_running => setup.inprocess
  /\ Seconds \subseteq SecondType
  /\ OldCounts \in CountType

VARIABLES
  setup,
  pc,        \* where the trial is
  counters,  \* of TRex, since they were cleared, with the error counters
  gauges,    \* its rates and flows, of the last second
  polls,     \* of wait_for_cps_stable()
  pps,       \* what the poll before saw, -1 before the first
  sampled,   \* seconds slept in sample_astf_trial()
  window     \* what happened in them

clientVars == <<setup, pc, counters, gauges, polls, pps, sampled, window>>
vars == <<trial_params, astf, trial_result, clientVars>>

-------------------------------------------------------------------------------
(* The profile.                                                            *)

Templates == IF trial_params.astf_protocol = "mixed" THEN {"tcp", "udp"}
             ELSE {trial_params.astf_protocol}

\* A template of mixed traffic never has a share of nothing.
CpsBase(template) ==
  LET percent == IF template = "udp" THEN setup.astf_udp_percent
                 ELSE 100 - setup.astf_udp_percent
  IN  IF percent = 0 THEN 1 ELSE percent

\* The flows of a template that TRex opens, no more.
Limit(template) ==
  IF trial_params.astf_protocol # "mixed" THEN trial_params.astf_max_flows
  ELSE (trial_params.astf_max_flows * CpsBase(template)) \div (CpsBase("tcp") + CpsBase("udp"))

FlowLimit ==
  CASE trial_params.astf_max_flows = 0 -> 1000
    [] trial_params.astf_max_flows # 0 /\ trial_params.astf_protocol = "mixed" ->
         Limit("tcp") + Limit("udp")
    [] OTHER -> Limit(trial_params.astf_protocol)

\* Traffic counts nothing of a protocol that it has no template of.
PossibleSeconds ==
  {s \in Seconds :
     \A c \in (IF "tcp" \in Templates THEN {} ELSE TcpCounts)
              \cup (IF "udp" \in Templates THEN {} ELSE UdpCounts) : s.counts[c] = 0}

-------------------------------------------------------------------------------
(* Statistics.                                                             *)

Nothing == [c \in DOMAIN OldCounts |-> 0]
Cleared == [counts |-> Nothing, errors |-> {}]

\* In percent; rounded up, as the thresholds are whole percents.
Percent(part, whole) == IF whole = 0 THEN 0 ELSE (100 * part + whole - 1) \div whole

NullStats ==
  [connections_attempted |-> 0, tx_packets |-> 0, cps |-> 0, active_flows |-> 0,
   astf_errors |-> {}, connection_error_pct |-> 0, retransmit_pct |-> 0, udp_drop_pct |-> 0,
   timeout |-> FALSE, early_exit |-> FALSE, force_quit |-> FALSE]

\* assemble_astf_result() and extract_astf_stats().  No result says that the
\* trial timed out, or was ended early.
Extract(raw) ==
  LET n == raw.counts
      attempted == n["tcps_connattempt"] + n["udps_connects"]
      lost == n["udps_sndpkt"] - n["udps_rcvpkt"]
  IN  [NullStats EXCEPT
         !.connections_attempted = attempted, !.tx_packets = n["opackets"],
         !.cps = gauges.tx_cps, !.active_flows = gauges.flows,
         !.astf_errors = IF "errors" \in setup.faults THEN {} ELSE raw.errors,
         !.connection_error_pct = Percent(n["tcps_drops"], attempted),
         !.retransmit_pct = Percent(n["tcps_sndrexmitpack"], n["tcps_sndpack"]),
         !.udp_drop_pct = IF lost > 0 THEN Percent(lost, n["udps_sndpkt"]) ELSE 0]

-------------------------------------------------------------------------------
Init ==
  /\ trial_params \in ParamSet /\ setup \in Setups
  /\ astf = NullStats /\ trial_result = "none"
  /\ pc = CASE ~setup.inprocess -> "connect"
            [] setup.inprocess /\ setup.traffic_running -> "sample"
            [] OTHER -> "clear"
  /\ counters = [counts |-> OldCounts, errors |-> {}]
  /\ gauges = [tx_cps |-> 0, flows |-> 0]
  /\ polls = 0 /\ pps = -1 /\ sampled = 0 /\ window = <<>>

MayRaise(call) == call \in setup.faults

\* A client call at `from`, with `to` behind it; when it raises there is no
\* result but one that tells to quit.
Call(from, to) ==
  /\ pc = from
  /\ \/ pc' = to
     \/ MayRaise(from) /\ pc' = "exception"

\* c.start() is not given a duration: traffic runs until it is stopped.
Prepare ==
  /\ \/ Call("connect", "configure") \/ Call("configure", "load") \/ Call("load", "clear")
     \/ Call("start", IF setup.astf_ramp_time = 0 THEN "exception" ELSE "poll")
  /\ UNCHANGED <<trial_params, astf, trial_result, setup, counters, gauges, polls, pps,
                 sampled, window>>

Clear ==
  /\ Call("clear", "start")
  /\ counters' = IF pc' = "start" THEN Cleared ELSE counters
  /\ UNCHANGED <<trial_params, astf, trial_result, setup, gauges, polls, pps, sampled, window>>

\* Mistake: the counters of the ramp are sampled, too.
CountersKept == counters

CountersOfSample == Cleared

BeginSample ==
  /\ Call("sample", "sleep")
  /\ counters' = IF pc' = "sleep" THEN CountersOfSample ELSE counters
  /\ UNCHANGED <<trial_params, astf, trial_result, setup, gauges, polls, pps, sampled, window>>

\* A second of traffic.
Elapse(s) ==
  /\ counters' = [counts |-> [c \in DOMAIN Nothing |-> counters.counts[c] + s.counts[c]],
                  errors |-> counters.errors \cup s.errors]
  /\ gauges' = [tx_cps |-> s.tx_cps, flows |-> IF s.full THEN FlowLimit ELSE 1]

NoTraffic(s) == s.counts["opackets"] = 0 /\ s.rx_pps = 0
Dist(m, n) == IF m < n THEN n - m ELSE m - n

\* The wait is given up without any traffic, and by the watchdog without an answer.
GivenUp(s) ==
  \/ polls >= setup.astf_ramp_time /\ NoTraffic(s)
  \/ /\ setup.astf_e_duration > 0 /\ polls + 1 >= setup.astf_e_duration
     /\ s.rx_pps = 0

\* Packets per second differ by less than one percent.
Stable(s) == pps > 0 /\ 100 * Dist(s.counts["opackets"], pps) < pps

MaxPolls == 3 * setup.astf_ramp_time

\* Mistake: off by one.
OneTooMany(n) == n > MaxPolls

\* The wait has been as long as it may.
LongEnough(n) == n = MaxPolls

Poll ==
  /\ pc = "poll" /\ polls < MaxPolls
  /\ \E s \in PossibleSeconds :
       /\ Elapse(s)
       /\ polls' = polls + 1
       /\ pps' = s.counts["opackets"]
       /\ \/ pc' = IF GivenUp(s) \/ Stable(s) \/ LongEnough(polls')
                   THEN "sample" ELSE "poll"
          \/ MayRaise("poll") /\ pc' = "exception"
  /\ UNCHANGED <<trial_params, astf, trial_result, setup, sampled, window>>

Sleep ==
  /\ pc = "sleep" /\ sampled < setup.runtime
  /\ sampled' = sampled + 1
  /\ \E s \in PossibleSeconds : Elapse(s) /\ window' = Append(window, s)
  /\ UNCHANGED <<trial_params, astf, trial_result, setup, pc, polls, pps>>

\* get_stats(); the program stops its traffic before it uses them.
TakeStats ==
  /\ sampled = setup.runtime
  /\ pc = "sleep"
  /\ \/ /\ pc' = "judge"
        /\ astf' = Extract(counters)
     \/ /\ MayRaise("stats") \/ (~setup.inprocess /\ MayRaise("stop"))
        /\ pc' = "exception" /\ UNCHANGED astf
  /\ UNCHANGED <<trial_params, trial_result, setup, counters, gauges, polls, pps, sampled, window>>

\* The result says "force_quit", but the status of the trial already ends the
\* search.
Exception ==
  /\ pc = "exception" /\ pc' = "done"
  /\ astf' = [NullStats EXCEPT !.force_quit = TRUE]
  /\ trial_result' = "error"
  /\ UNCHANGED <<trial_params, setup, counters, gauges, polls, pps, sampled, window>>

Judge ==
  /\ pc = "judge" /\ pc' = "done"
  /\ Evaluate
  /\ UNCHANGED <<setup, counters, gauges, polls, pps, sampled, window>>

Next == \/ Prepare \/ Clear \/ Poll \/ BeginSample \/ Sleep \/ TakeStats \/ Exception \/ Judge

\* Sleeps end and calls return.
Spec == Init /\ [][Next]_vars /\ WF_vars(Next)

-------------------------------------------------------------------------------
(* Properties.                                                             *)

\* What was counted in the window.
Total(c) ==
  LET sum[n \in 0..Len(window)] == IF n = 0 THEN 0 ELSE sum[n - 1] + window[n].counts[c]
  IN  sum[Len(window)]

AtEnd == Last(window)
Attempted == Total("tcps_connattempt") + Total("udps_connects")

\* The limits of the trial that bound what a stateful device may lose; a share
\* of nothing is within any limit.
WithinLimits ==
  /\ Attempted > 0 =>
       100 * Total("tcps_drops") <= trial_params.astf_max_error_pct * Attempted
  /\ trial_params.astf_protocol # "tcp" =>
       100 * (Total("udps_sndpkt") - Total("udps_rcvpkt"))
         <= (trial_params.astf_max_udp_drop_pct
               + IF trial_params.astf_max_udp_drop_pct = 0
                 THEN trial_params.astf_max_error_pct ELSE 0) * Total("udps_sndpkt")
  /\ trial_params.astf_max_retransmit_pct # 0 /\ Total("tcps_sndpack") > 0 =>
       100 * Total("tcps_sndrexmitpack")
         <= trial_params.astf_max_retransmit_pct * Total("tcps_sndpack")

\* Connections for the whole runtime, within the limits, at the rate that is
\* tolerated, with room in the flow table and without a catastrophe.  A flow
\* table of less than 20 may be full without being seen, and error counters that
\* could not be read are taken for none.
Earned ==
  /\ Len(window) = setup.runtime
  /\ WithinLimits
  /\ Attempted > 0 \/ AtEnd.tx_cps > 0
  /\ trial_params.astf_max_cps_deviation_pct # 0 =>
       100 * AtEnd.tx_cps
         >= (100 - trial_params.astf_max_cps_deviation_pct) * trial_params.rate
  /\ trial_params.astf_max_flows >= 20 => ~AtEnd.full
  /\ "errors" \notin setup.faults =>
       \A k \in DOMAIN window :
         window[k].errors \cap Catastrophic \subseteq trial_params.astf_ignore_errors

\* A trial that passes carried connections for its whole runtime, within every
\* limit that applies to its protocol, in that time and not in the ramp before
\* it, and at no less than the rate that is tolerated: a device that collapsed,
\* a full flow table or a trial that an exception cut short cannot look like a
\* loss-free one.
PassIsEarned == trial_result = "pass" /\ ~Warmup => Earned

\* A verdict that stops the search is one on a runtime without any traffic:
\* everything else lets it go on at a lower rate.  A warmup does not.
QuitsWithoutTraffic ==
  trial_result = "quit" =>
    /\ ~Warmup /\ Len(window) = setup.runtime
    /\ Attempted + Total("opackets") = 0

\* Every trial comes to a verdict or an error, although it waits for a rate
\* that may never be stable, of a device that may never answer.
TrialEnds == <>(trial_result # "none")
===============================================================================
