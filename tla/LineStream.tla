------------------------------ MODULE LineStream ------------------------------
(***************************************************************************)
(* What a reader promises of one output stream of a program: the lines are *)
(* handled in the order in which they were written, none twice and none    *)
(* left out, and once the end of the stream is told everything that was    *)
(* written on it is handled and nothing more will be.  The n-th line is the*)
(* number n.                                                               *)
(***************************************************************************)
EXTENDS Naturals

VARIABLES
  written,   \* lines written
  handled,   \* lines handled
  told       \* the end was told

vars == <<written, handled, told>>

Init == written = 0 /\ handled = 0 /\ told = FALSE

Write == ~told /\ written' = written + 1 /\ UNCHANGED <<handled, told>>

\* The last line may tell the end by itself.
Handle ==
  /\ handled < written /\ ~told
  /\ handled' = handled + 1
  /\ told' \in {FALSE, handled' = written}
  /\ UNCHANGED written

Tell == handled = written /\ told' = TRUE /\ UNCHANGED <<written, handled>>

Next == Write \/ Handle \/ Tell
Spec == Init /\ [][Next]_vars

-------------------------------------------------------------------------------
\* The end is told of a stream that is handled completely.
EndIsTheEnd == told => handled = written
===============================================================================
