------------------------------- MODULE MCBsLogger -------------------------------
(***************************************************************************)
(* Values for the runs of BsLogger: the two readers of a program's output. *)
(***************************************************************************)
EXTENDS BsLogger

CONSTANTS stdout, stderr

OutputReaders == {stdout, stderr}
===============================================================================
