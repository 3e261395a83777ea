----------------------------- MODULE MCAstfTrial -----------------------------
(***************************************************************************)
(* Parameters and seconds of traffic for the run of AstfTrial.  A window   *)
(* has two seconds, so that a threshold is kept, reached and exceeded by   *)
(* their sum.                                                              *)
(***************************************************************************)
EXTENDS AstfTrial

Lax == [trial_mode |-> "search", rate |-> 10, astf_protocol |-> "mixed", astf_max_flows |-> 0,
        astf_ignore_errors |-> {}, astf_max_error_pct |-> 10, astf_max_retransmit_pct |-> 0,
        astf_max_udp_drop_pct |-> 0, astf_max_cps_deviation_pct |-> 0]
Strict == [Lax EXCEPT !.astf_max_flows = 21, !.astf_max_retransmit_pct = 10,
                      !.astf_max_udp_drop_pct = 20, !.astf_max_cps_deviation_pct = 50]

SomeParams ==
  {[p EXCEPT !.astf_protocol = protocol, !.trial_mode = mode, !.astf_ignore_errors = ignored] :
     p \in {Lax, Strict}, protocol \in {"tcp", "udp", "mixed"}, mode \in {"warmup", "search"},
     ignored \in {{}, {"err_cwf"}}}
  \cup {[Lax EXCEPT !.astf_max_flows = 3]}

InProcess == [inprocess |-> TRUE, traffic_running |-> FALSE, runtime |-> 2, astf_ramp_time |-> 1,
              astf_e_duration |-> 0, astf_udp_percent |-> 30, faults |-> {}]
Program == [InProcess EXCEPT !.inprocess = FALSE, !.faults = Calls]

SomeSetups == {InProcess, Program, [Program EXCEPT !.astf_e_duration = 1],
               [InProcess EXCEPT !.traffic_running = TRUE, !.faults = {"errors", "stats"}],
               [InProcess EXCEPT !.astf_ramp_time = 0]}

\* Connections, drops, packets, retransmits; UDP flows, datagrams sent and received.
Second(tcp, drops, retransmits, udp, received, rx, cps) ==
  [counts |-> [tcps_connattempt |-> tcp, tcps_drops |-> drops, tcps_sndpack |-> tcp,
               tcps_sndrexmitpack |-> retransmits, udps_connects |-> udp, udps_sndpkt |-> udp,
               udps_rcvpkt |-> received, opackets |-> tcp + udp],
   errors |-> {}, rx_pps |-> rx, tx_cps |-> cps, full |-> FALSE]

Tcp == Second(10, 0, 0, 0, 0, 10, 10)
Udp == Second(0, 0, 0, 10, 10, 10, 5)

SomeSeconds ==
  {Second(0, 0, 0, 0, 0, 0, 0), [Second(0, 0, 0, 0, 0, 1, 0) EXCEPT !.counts["opackets"] = 1],
   Tcp, Second(10, 2, 0, 0, 0, 8, 4), Second(10, 3, 0, 0, 0, 0, 10), Second(10, 0, 3, 0, 0, 10, 10),
   Udp, Second(0, 0, 0, 10, 6, 6, 5), Second(0, 0, 0, 10, 5, 6, 4), Second(5, 1, 0, 5, 5, 9, 10)}
  \cup {Second(0, 1, 1, 0, 0, 10, 10)}
  \cup {[s EXCEPT !.full = TRUE] : s \in {Tcp, Udp}}
  \cup {[s EXCEPT !.errors = {e}] : s \in {Tcp, Udp}, e \in {"err_cwf", "err_rx_throttled"}}

TenDrops == [Second(10, 0, 0, 10, 10, 0, 0).counts EXCEPT !["tcps_drops"] = 10]
==============================================================================
