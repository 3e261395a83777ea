---------------------------- MODULE MCSearchSession ----------------------------
(***************************************************************************)
(* Command lines and sessions for the runs of SearchSession.               *)
(***************************************************************************)
EXTENDS SearchSession

SessionOptions == [one_shot : {FALSE}, perform_sniffs : {FALSE}, warmup_trial : BOOLEAN,
                   repeat_final_validation : BOOLEAN, disable_upward_search : {TRUE},
                   min_rate : {0}]

\* Every call may fail, or every call but one of update() and stop().
AllSessions ==
  [inprocess : {TRUE}, udp : BOOLEAN, flush_on_pass : BOOLEAN, pre_trial_cmd : BOOLEAN,
   faults : {ClientCalls, ClientCalls \ {"update"}, ClientCalls \ {"stop"}}]
  \cup [inprocess : {FALSE}, udp : {FALSE}, flush_on_pass : {FALSE},
        pre_trial_cmd : BOOLEAN, faults : {{}}]
===============================================================================
