------------------------------ MODULE MCTrialSync ------------------------------
(***************************************************************************)
(* Values for the runs of TrialSync: a child that fails exits with 1, or is*)
(* killed for lack of memory or, with the terminal, by the signal 1.       *)
(***************************************************************************)
EXTENDS TrialSync

FailOrKill == {1, -1, -9}
===============================================================================
