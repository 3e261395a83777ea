----------------------------- MODULE SearchSession -----------------------------
(***************************************************************************)
(* What an iteration of the search loop does around the trial: it runs the *)
(* pre-trial command (which flushes the connection tracking of the device  *)
(* under test) when that is due, and it keeps the traffic of a persistent  *)
(* ASTF client at the rate the search wants.  RateSearch takes an iteration*)
(* as one step; here it is four, and every call of the TRex client may     *)
(* raise an exception.                                                     *)
(*                                                                         *)
(* trex and conntrack are the world outside: what the TRex server does, and*)
(* whether the device under test has been flushed since the last trial.    *)
(***************************************************************************)
EXTENDS RateSearch

CONSTANT Sessions  \* the sessions considered, see SessionType

\* The calls of the TRex client that a session may see fail.
ClientCalls == {"start", "stop", "reset", "load_profile", "update", "sample"}

SessionType ==
  [inprocess     : BOOLEAN,  \* persistent ASTF client, not a program per trial
   udp           : BOOLEAN,  \* --astf-protocol is udp or mixed
   flush_on_pass : BOOLEAN,  \* --astf-flush-on-pass
   pre_trial_cmd : BOOLEAN,  \* --pre-trial-cmd is given
   faults        : SUBSET ClientCalls]

ASSUME SessionsAssumption == Sessions \subseteq SessionType

VARIABLES
  session,            \* constant
  step,               \* where the loop body is
  first_trial,        \* trial_params['trial'] == 1
  prev_trial_result,  \* the verdict evaluate_trial() returned last
  trial_result,       \* what the loop made of it
  consecutive_false_positives, force_next_flush,
  traffic_running,    \* astf_client_state['traffic_running']
  trex,               \* the server: running, at which rate, ready to start
  conntrack           \* "clean" from a flush to the end of the next trial

loopVars == <<first_trial, prev_trial_result, trial_result,
              consecutive_false_positives, force_next_flush>>
sessionVars == <<searchVars, session, step, loopVars, traffic_running, trex, conntrack>>

MayFail(call) == call \in session.faults

\* Mistake: a warmup is judged like any trial.
VerdictsOfAnyTrial ==
  IF session.inprocess THEN Verdicts \ RetryVerdicts ELSE Verdicts

\* In process no verdict asks for a retry: no ASTF result reports a timeout.
VerdictsOfSession ==
  IF ~session.inprocess THEN VerdictsOf(Mode)
  ELSE IF Mode = "warmup" THEN {"pass"} ELSE Verdicts \ RetryVerdicts

SessionInit ==
  /\ Init
  /\ session \in Sessions
  /\ step = "begin"
  /\ first_trial = TRUE
  /\ prev_trial_result = "none" /\ trial_result = "none"
  /\ consecutive_false_positives = 0 /\ force_next_flush = FALSE
  /\ traffic_running = FALSE
  /\ trex = [running |-> FALSE, rate |-> 0, loaded |-> TRUE, drained |-> TRUE]
  /\ conntrack = "used"

-------------------------------------------------------------------------------
(* The client calls that stop the traffic, in their try block.             *)

Stopped(server) == [server EXCEPT !.running = FALSE]

\* What the server may be left in by stop() and, where the code follows it by
\* them and the protocol needs them, by reset() and load_profile().
StopResults(thenReset) ==
  IF thenReset /\ session.udp
  THEN {[Stopped(trex) EXCEPT !.drained = TRUE, !.loaded = TRUE]}
       \cup {trex : call \in {"stop"} \cap session.faults}
       \cup {Stopped(trex) : call \in {"reset"} \cap session.faults}
       \cup {[Stopped(trex) EXCEPT !.drained = TRUE, !.loaded = FALSE] :
               call \in {"load_profile"} \cap session.faults}
  ELSE {Stopped(trex)} \cup {trex : call \in {"stop"} \cap session.faults}

\* The flag is cleared whether the calls succeed or raise.
StopTraffic(thenReset) ==
  /\ trex' \in StopResults(thenReset)
  /\ traffic_running' = FALSE

\* Mistake: the exception is only logged.
FallBackToNothing == UNCHANGED <<trex, traffic_running>>

\* update() raised: stop(), but if that raises too the flag stays set.
FallBackToStop ==
  \/ trex' = Stopped(trex) /\ traffic_running' = FALSE
  \/ MayFail("stop") /\ UNCHANGED <<trex, traffic_running>>

-------------------------------------------------------------------------------
(* The four steps of an iteration.                                         *)

\* Mistake: traffic runs on into a final validation.
BeginTrialUnderTraffic ==
  /\ step = "begin"
  /\ step' = "pre_trial"
  /\ UNCHANGED <<searchVars, session, loopVars, traffic_running, trex, conntrack>>

\* The head of the loop: traffic does not run into a final validation.
BeginTrial ==
  /\ step = "begin"
  /\ step' = "pre_trial"
  /\ IF traffic_running /\ Mode = "validation"
     THEN StopTraffic(TRUE)
     ELSE UNCHANGED <<trex, traffic_running>>
  /\ UNCHANGED <<searchVars, session, loopVars, conntrack>>

FlushOnPassStopped == session.flush_on_pass /\ session.inprocess /\ ~traffic_running

\* Mistake: a failed trial is forgotten.
ShouldFlushAfterPass ==
  \/ first_trial
  \/ Mode = "validation"
  \/ FlushOnPassStopped
  \/ force_next_flush

ShouldFlush ==
  \/ first_trial
  \/ Mode = "validation"
  \/ prev_trial_result = "fail"
  \/ FlushOnPassStopped
  \/ force_next_flush

\* A command or a trial that fails ends the search.
EndInError ==
  /\ TrialError
  /\ UNCHANGED args
  /\ step' = "done"

Flush ==
  /\ session.pre_trial_cmd /\ ShouldFlush
  /\ force_next_flush' = FALSE
  /\ \/ /\ conntrack' = "clean"
        /\ step' = "trial"
        /\ UNCHANGED searchVars
     \/ EndInError /\ UNCHANGED conntrack
  /\ UNCHANGED <<first_trial, prev_trial_result, trial_result,
                 consecutive_false_positives>>

PreTrial ==
  /\ step = "pre_trial"
  /\ \/ Flush
     \/ /\ ~(session.pre_trial_cmd /\ ShouldFlush)
        /\ step' = "trial"
        /\ UNCHANGED <<searchVars, loopVars, conntrack>>
  /\ UNCHANGED <<session, traffic_running, trex>>

\* Traffic is started unless it runs, and sampled.  The server refuses to
\* start traffic that runs, or without a profile.
SampleInProcess ==
  LET started == [trex EXCEPT !.running = TRUE, !.rate = rate, !.drained = FALSE]
      startOK == traffic_running \/ (trex.loaded /\ ~trex.running)
      sampled == IF traffic_running THEN trex ELSE started
  IN  \/ /\ startOK
         /\ trex' = sampled /\ traffic_running' = TRUE
         /\ step' = "judge"
         /\ UNCHANGED searchVars
      \/ /\ startOK /\ MayFail("sample")
         /\ trex' = sampled /\ traffic_running' = FALSE
         /\ EndInError
      \/ /\ ~traffic_running
         /\ MayFail("start") \/ ~startOK
         /\ UNCHANGED <<trex, traffic_running>>
         /\ EndInError

RunTrial ==
  /\ step = "trial"
  /\ \/ session.inprocess /\ SampleInProcess
     \/ /\ ~session.inprocess
        /\ \/ step' = "judge" /\ UNCHANGED searchVars
           \/ EndInError
        /\ UNCHANGED <<trex, traffic_running>>
  /\ UNCHANGED <<session, loopVars, conntrack>>

\* Two false positives in a row: the tables of a stateful device have
\* collapsed, so traffic is stopped and a flush is forced.
Collapse(verdict) ==
  /\ Failed(verdict) /\ ~final_validation /\ FalsePositive
  /\ consecutive_false_positives >= 1
  /\ session.inprocess /\ traffic_running

CountFalsePositives(verdict) ==
  consecutive_false_positives' =
    CASE Failed(verdict) /\ ~final_validation ->
           IF FalsePositive /\ ~Collapse(verdict)
           THEN consecutive_false_positives + 1 ELSE 0
      [] Passed(verdict) /\ Mode = "search" -> 0
      [] OTHER -> consecutive_false_positives

Judge ==
  /\ step = "judge"
  /\ \E verdict \in VerdictsOfSession :
       /\ outcome = "searching" /\ UNCHANGED args
       /\ Trial(verdict)
       /\ prev_trial_result' = verdict
       /\ trial_result' = IF Failed(verdict) THEN "fail" ELSE verdict
       /\ CountFalsePositives(verdict)
       /\ force_next_flush' = (force_next_flush \/ Collapse(verdict))
       /\ IF Collapse(verdict) THEN StopTraffic(FALSE)
          ELSE UNCHANGED <<trex, traffic_running>>
  /\ step' = IF outcome' = "searching" THEN "between" ELSE "done"
  /\ first_trial' = FALSE
  /\ conntrack' = "used"
  /\ UNCHANGED session

\* Traffic that still runs follows the rate of the next trial: after a pass
\* it is updated on the fly, unless --astf-flush-on-pass stops it; after a
\* failure it is stopped.
Between ==
  /\ step = "between"
  /\ step' = "begin"
  /\ CASE traffic_running /\ trial_result = "pass" /\ ~final_validation
            /\ session.flush_on_pass ->
            StopTraffic(TRUE)
       [] traffic_running /\ trial_result = "pass" /\ ~final_validation
            /\ ~session.flush_on_pass ->
            \/ trex' = [trex EXCEPT !.rate = rate] /\ UNCHANGED traffic_running
            \/ MayFail("update") /\ FallBackToStop
       [] traffic_running /\ trial_result = "fail" ->
            StopTraffic(TRUE)
       [] OTHER -> UNCHANGED <<trex, traffic_running>>
  /\ UNCHANGED <<searchVars, session, loopVars, conntrack>>

SessionNext == BeginTrial \/ PreTrial \/ RunTrial \/ Judge \/ Between

SessionSpec == SessionInit /\ [][SessionNext]_sessionVars

-------------------------------------------------------------------------------
(* Properties.                                                             *)

\* update() that raises falls back to stop(); a session in which both may raise
\* can be left with traffic at the rate of the trial before.
OneWayOut == ~({"update", "stop"} \subseteq session.faults)

\* What a trial measured is traffic at the rate the search recorded for it,
\* along every path by which traffic is started, updated, kept or stopped,
\* unless update() and the stop() it falls back to may both raise.
MeasuredAtRate ==
  step = "judge" /\ session.inprocess /\ OneWayOut => trex.running /\ trex.rate = rate

\* The last trial failed because the retry limit made it fail: the loop has
\* turned its verdict into "fail", but prev_trial_result keeps the verdict.
RetriedToFail == prev_trial_result = "retry-to-fail"

\* Every trial that is promised a flushed device gets one, in every session:
\* the final validation, a trial after a failure, and in process with
\* --astf-flush-on-pass every trial ("Full per-trial isolation for
\* conntrack-sensitive DUTs").  The exception is the trial after one that the
\* retry limit made fail, which is not flushed against README-trex-astf.md:1006.
TrialIsIsolated ==
  step = "judge" /\ session.pre_trial_cmd
    /\ \/ Mode = "validation"
       \/ trial_result = "fail" /\ ~RetriedToFail
       \/ session.inprocess /\ session.flush_on_pass
    => conntrack = "clean"

FlushesTheDevice == conntrack # "clean" /\ conntrack' = "clean"

\* The device is flushed between trials and not under traffic, which would
\* fill its tables again before the trial: TRex itself is quiet whenever the
\* pre-trial command runs, unless a stop() of the session may raise: the
\* loop then takes traffic for stopped that may run on, and flushes under it,
\* against README-trex-astf.md:1445.
FlushedWhenQuiet ==
  [][FlushesTheDevice => ~trex.running \/ MayFail("stop")]_sessionVars

\* The session does to the search what RateSearch does.
SessionSearches == Spec
===============================================================================
