------------------------- MODULE TrialResult_proofs -------------------------
(***************************************************************************)
(* The readers handle every line of every stream, whatever the traffic of  *)
(* a trial and wherever the programs end, what is judged is complete, and  *)
(* the verdict says of the traffic what it should.                         *)
(*                                                                         *)
(* Counters are added up over sets of flows.  What holds of every flow     *)
(* holds of the sums, or a smallest set of flows would break it.           *)
(***************************************************************************)
EXTENDS TrialResult, FiniteSetTheorems, WellFoundedInduction, TLAPS

\* What an end event says: everything is handled, and no more will come.
ToldIsOver ==
  \A s \in Streams : exit_event[s] =>
    handled[s] = written[s] /\ (written[s] = Lines(s) \/ ProgramOf(s) \notin alive)

\* A program that has ended wrote everything or failed.
EndedIsComplete == \A p \in Running : p \in alive \/ p \in failed \/ Complete(p)

\* The result, once it is behind the reader, has become statistics, unless it
\* raised; a reader that raised has not set its event.
ResultIsUsed ==
  /\ \A k \in 1..handled["err"] :
       Script("err")[k] = "result" => stats = "result" \/ reader["err"] = "raised"
  /\ \A s \in Streams : reader[s] = "raised" => ~exit_event[s]

ResultInv == TypeOK /\ ToldIsOver /\ EndedIsComplete /\ ResultIsUsed /\ NothingMissed

-----------------------------------------------------------------------------
\* Scripts are short, and a stream that says its end says it last.
LEMMA ScriptLemma ==
  ASSUME NEW s \in Streams
  PROVE  /\ Lines(s) \in Nat
         /\ \A k \in 1..Lines(s) : Script(s)[k] = "severed" => k = Lines(s)
<1>1. CASE s = "out"
  <2>1. CASE Script(s) = <<"text">>
    <3>1. Len(Script(s)) = 1 /\ Script(s)[1] = "text"
      BY <2>1
    <3>2. QED
      BY <3>1 DEF Lines
  <2>2. CASE Script(s) = <<"text", "severed">>
    <3>1. Len(Script(s)) = 2 /\ Script(s)[1] = "text" /\ Script(s)[2] = "severed"
      BY <2>2
    <3>2. QED
      BY <3>1 DEF Lines
  <2>3. QED
    BY <1>1, <2>1, <2>2 DEF Script
<1>2. CASE s = "err"
  <2>1. CASE Script(s) = <<"text", "result", "severed">>
    <3>1. Len(Script(s)) = 3 /\ Script(s)[1] = "text" /\ Script(s)[2] = "result" /\ Script(s)[3] = "severed"
      BY <2>1
    <3>2. QED
      BY <3>1 DEF Lines
  <2>2. CASE Script(s) = <<"streams", "profile", "result">>
    <3>1. Len(Script(s)) = 3 /\ Script(s)[1] = "streams" /\ Script(s)[2] = "profile" /\ Script(s)[3] = "result"
      BY <2>2
    <3>2. QED
      BY <3>1 DEF Lines
  <2>3. QED
    BY <1>2, <2>1, <2>2 DEF Script
<1>3. CASE s = "latency_out"
  <2>1. Len(Script(s)) = 1 /\ Script(s)[1] = "text"
    BY <1>3 DEF Script
  <2>2. QED
    BY <2>1 DEF Lines
<1>4. CASE s = "latency_err"
  <2>1. Len(Script(s)) = 1 /\ Script(s)[1] = "samples"
    BY <1>4 DEF Script
  <2>2. QED
    BY <2>1 DEF Lines
<1>5. QED
  BY <1>1, <1>2, <1>3, <1>4 DEF Streams

\* The generator's script for stderr has a result.
LEMMA ResultLemma == \E k \in 1..Lines("err") : Script("err")[k] = "result"
<1> DEFINE s == "err"
<1>1. CASE Script(s) = <<"text", "result", "severed">>
  <2>1. Len(Script(s)) = 3 /\ Script(s)[2] = "result"
    BY <1>1
  <2>2. QED
    BY <2>1 DEF Lines
<1>2. CASE Script(s) = <<"streams", "profile", "result">>
  <2>1. Len(Script(s)) = 3 /\ Script(s)[3] = "result"
    BY <1>2
  <2>2. QED
    BY <2>1 DEF Lines
<1>3. QED
  BY <1>1, <1>2 DEF Script

LEMMA InitLemma == Init => ResultInv
<1> SUFFICES ASSUME Init PROVE ResultInv
  OBVIOUS
<1>1. TypeOK
  <2>1. \A s \in Streams : handled[s] = 0 /\ written[s] = 0 /\ Lines(s) \in Nat
    BY ScriptLemma DEF Init
  <2>2. reader \in [Streams -> {"none", "reading", "raised", "ended"}]
    BY DEF Init
  <2>3. {written, handled} \subseteq [Streams -> Nat] /\ exit_event \in [Streams -> BOOLEAN]
    BY DEF Init
  <2>4. trial \in Trials /\ eval_params \in EvalParams /\ alive \subseteq Running
        /\ failed \subseteq Running \ alive /\ stats \in {"nothing", "result"} /\ latency \in BOOLEAN
    BY DEF Init
  <2>5. QED
    BY <2>1, <2>2, <2>3, <2>4 DEF TypeOK
<1>2. ToldIsOver /\ EndedIsComplete
  BY DEF Init, ToldIsOver, EndedIsComplete
<1>3. ResultIsUsed
  <2>1. handled["err"] = 0 /\ \A s \in Streams : reader[s] # "raised"
    BY DEF Init, Streams
  <2>2. QED
    BY <2>1 DEF ResultIsUsed
<1>4. NothingMissed
  BY DEF Init, NothingMissed
<1>5. QED
  BY <1>1, <1>2, <1>3, <1>4 DEF ResultInv

\* The parts of the state that the trial's parameters decide stay the same.
LEMMA SameTrialLemma ==
  ASSUME UNCHANGED <<trial, eval_params>>
  PROVE  /\ Running' = Running /\ Measured' = Measured
         /\ \A s \in Streams : Script(s)' = Script(s) /\ Lines(s)' = Lines(s)
BY DEF Running, Measured, Script, Lines

LEMMA WriteLemma ==
  ASSUME ResultInv, NEW s \in Streams, Write(s)
  PROVE  ResultInv'
<1>1. /\ written[s] \in Nat /\ handled[s] \in Nat /\ Lines(s) \in Nat /\ written[s] < Lines(s)
      /\ handled[s] <= written[s] /\ written' = [written EXCEPT ![s] = @ + 1]
      /\ handled' = handled /\ exit_event' = exit_event /\ alive' = alive /\ failed' = failed
  BY ScriptLemma DEF ResultInv, TypeOK, Write, readerVars
<1>2. /\ Running' = Running /\ Measured' = Measured
      /\ \A t \in Streams : Script(t)' = Script(t) /\ Lines(t)' = Lines(t)
  BY SameTrialLemma DEF Write
<1>3. ~exit_event[s]
  BY <1>1 DEF ResultInv, ToldIsOver, Write
<1>4. written'[s] = written[s] + 1 /\ \A t \in Streams \ {s} : written'[t] = written[t]
  BY <1>1 DEF ResultInv, TypeOK
<1>5. TypeOK'
  <2>1. written' \in [Streams -> Nat]
    BY <1>1 DEF ResultInv, TypeOK
  <2>2. \A t \in Streams : handled'[t] <= written'[t] /\ written'[t] <= Lines(t)'
    <3>1. ASSUME NEW t \in Streams, t # s
          PROVE  handled'[t] <= written'[t] /\ written'[t] <= Lines(t)'
      BY <1>1, <1>2, <1>4, <3>1 DEF ResultInv, TypeOK
    <3>2. handled'[s] <= written'[s] /\ written'[s] <= Lines(s)'
      BY <1>1, <1>2, <1>4
    <3>3. QED
      BY <3>1, <3>2
  <2>3. QED
    BY <1>1, <1>2, <2>1, <2>2 DEF ResultInv, TypeOK, Write, readerVars
<1>6. ToldIsOver'
  BY <1>1, <1>2, <1>3, <1>4 DEF ResultInv, ToldIsOver
<1>7. EndedIsComplete'
  <2>1. ASSUME NEW p \in Running, p \notin alive, p \notin failed
        PROVE  Complete(p)'
    <3>1. Complete(p) /\ ProgramOf(s) # p
      BY <2>1 DEF ResultInv, EndedIsComplete, Write
    <3>2. QED
      BY <1>2, <1>4, <3>1 DEF Complete
  <2>2. QED
    BY <1>1, <1>2, <2>1 DEF EndedIsComplete
<1>8. ResultIsUsed' /\ NothingMissed'
  BY <1>1, <1>2 DEF ResultInv, ResultIsUsed, NothingMissed, Write, readerVars, Streams
<1>9. QED
  BY <1>5, <1>6, <1>7, <1>8 DEF ResultInv

LEMMA ExitLemma ==
  ASSUME ResultInv, NEW p \in Programs, Exit(p)
  PROVE  ResultInv'
<1>1. /\ Running' = Running /\ Measured' = Measured
      /\ \A t \in Streams : Script(t)' = Script(t) /\ Lines(t)' = Lines(t)
  BY SameTrialLemma DEF Exit
<1>2. TypeOK'
  BY <1>1 DEF ResultInv, TypeOK, Exit, readerVars
<1>3. ToldIsOver'
  BY <1>1 DEF ResultInv, ToldIsOver, Exit, readerVars
<1>4. EndedIsComplete'
  <2>1. \A q \in Running : Complete(q)' = Complete(q)
    BY <1>1 DEF Complete, Exit
  <2>2. QED
    BY <1>1, <2>1 DEF ResultInv, EndedIsComplete, Exit
<1>5. ResultIsUsed' /\ NothingMissed'
  BY <1>1 DEF ResultInv, ResultIsUsed, NothingMissed, Exit, readerVars, Streams
<1>6. QED
  BY <1>2, <1>3, <1>4, <1>5 DEF ResultInv

LEMMA HandleLemma ==
  ASSUME ResultInv, NEW s \in Streams, HandleLine(s)
  PROVE  ResultInv'
<1> DEFINE line == Script(s)[handled[s] + 1]
           raises == line = "result" /\ ResultRaises
<1>1. /\ written[s] \in Nat /\ handled[s] \in Nat /\ Lines(s) \in Nat
      /\ handled[s] < written[s] /\ written[s] <= Lines(s)
      /\ exit_event \in [Streams -> BOOLEAN] /\ reader \in [Streams -> {"none", "reading", "raised", "ended"}]
      /\ reader[s] = "reading" /\ handled \in [Streams -> Nat]
  BY ScriptLemma DEF ResultInv, TypeOK, HandleLine, HasLine
<1>2. /\ handled' = [handled EXCEPT ![s] = @ + 1]
      /\ exit_event' = [exit_event EXCEPT ![s] = @ \/ EndsStream(line)]
      /\ reader' = [reader EXCEPT ![s] = IF raises THEN "raised"
                      ELSE IF line = "severed" /\ s = "err" THEN "ended" ELSE @]
      /\ stats' = IF line = "result" /\ ~raises THEN "result" ELSE stats
      /\ latency' = (latency \/ line = "samples")
      /\ written' = written /\ alive' = alive /\ failed' = failed
      /\ verdict' = verdict /\ trial' = trial /\ eval_params' = eval_params
  BY DEF HandleLine, programVars
<1>3. /\ Running' = Running /\ Measured' = Measured
      /\ \A t \in Streams : Script(t)' = Script(t) /\ Lines(t)' = Lines(t)
  BY <1>2, SameTrialLemma
<1>4. ~exit_event[s]
  BY <1>1 DEF ResultInv, ToldIsOver
<1>5. /\ handled'[s] = handled[s] + 1
      /\ exit_event'[s] = (line = "severed")
      /\ \A t \in Streams \ {s} : handled'[t] = handled[t] /\ exit_event'[t] = exit_event[t]
                                    /\ reader'[t] = reader[t]
  BY <1>1, <1>2, <1>4 DEF EndsStream
<1>6. line = "severed" => handled[s] + 1 = written[s] /\ written[s] = Lines(s)
  BY <1>1, ScriptLemma
<1>7. reader'[s] = IF raises THEN "raised"
                   ELSE IF line = "severed" /\ s = "err" THEN "ended" ELSE "reading"
  BY <1>1, <1>2
<1> HIDE DEF line, raises
<1>8. TypeOK'
  <2>1. handled' \in [Streams -> Nat] /\ exit_event' \in [Streams -> BOOLEAN]
    BY <1>1, <1>2
  <2>2. reader' \in [Streams -> {"none", "reading", "raised", "ended"}]
    BY <1>1, <1>2
  <2>3. ASSUME NEW t \in Streams
        PROVE  handled'[t] <= written'[t] /\ written'[t] <= Lines(t)'
    <3>1. CASE t = s
      BY <1>1, <1>2, <1>3, <1>5, <3>1
    <3>2. CASE t # s
      BY <1>2, <1>3, <1>5, <3>2 DEF ResultInv, TypeOK
    <3>3. QED
      BY <3>1, <3>2
  <2>4. stats' \in {"nothing", "result"}
    BY <1>2 DEF ResultInv, TypeOK
  <2>5. latency' \in BOOLEAN
    BY <1>2, Zenon DEF ResultInv, TypeOK
  <2>6. QED
    BY <1>2, <1>3, <2>1, <2>2, <2>3, <2>4, <2>5 DEF ResultInv, TypeOK
<1>9. ToldIsOver'
  <2>1. ASSUME NEW t \in Streams, exit_event'[t]
        PROVE  handled'[t] = written'[t] /\ (written'[t] = Lines(t)' \/ ProgramOf(t) \notin alive')
    <3>1. CASE t = s
      BY <1>2, <1>3, <1>5, <1>6, <2>1, <3>1
    <3>2. CASE t # s
      BY <1>2, <1>3, <1>5, <2>1, <3>2 DEF ResultInv, ToldIsOver
    <3>3. QED
      BY <3>1, <3>2
  <2>2. QED
    BY <2>1 DEF ToldIsOver
<1>10. EndedIsComplete'
  <2>1. \A p \in Running : Complete(p)' = Complete(p)
    BY <1>2, <1>3 DEF Complete
  <2>2. QED
    BY <1>2, <1>3, <2>1 DEF ResultInv, EndedIsComplete
<1>11. ResultIsUsed'
  <2>1. stats = "result" => stats' = "result"
    BY <1>2
  <2>2. ASSUME NEW k \in 1..handled'["err"], Script("err")'[k] = "result"
        PROVE  stats' = "result" \/ reader'["err"] = "raised"
    <3>1. CASE s # "err"
      BY <1>3, <1>5, <2>1, <2>2, <3>1 DEF ResultInv, ResultIsUsed, Streams
    <3>2. CASE s = "err" /\ k = handled[s] + 1
      BY <1>2, <1>3, <1>7, <2>2, <3>2 DEF line, raises
    <3>3. CASE s = "err" /\ k # handled[s] + 1
      <4>1. k \in 1..handled["err"] /\ Script("err")[k] = "result"
        BY <1>1, <1>3, <1>5, <2>2, <3>3
      <4>2. QED
        BY <1>1, <2>1, <3>3, <4>1 DEF ResultInv, ResultIsUsed
    <3>4. QED
      BY <3>1, <3>2, <3>3
  <2>3. ASSUME NEW t \in Streams, reader'[t] = "raised"
        PROVE  ~exit_event'[t]
    <3>1. CASE t = s
      BY <1>5, <1>7, <2>3, <3>1 DEF raises
    <3>2. CASE t # s
      BY <1>5, <2>3, <3>2 DEF ResultInv, ResultIsUsed
    <3>3. QED
      BY <3>1, <3>2
  <2>4. QED
    BY <2>2, <2>3 DEF ResultIsUsed
<1>12. NothingMissed'
  <2>1. stats = "result" => stats' = "result"
    BY <1>2
  <2>2. latency => latency'
    BY <1>2
  <2>3. QED
    BY <1>2, <1>3, <2>1, <2>2 DEF ResultInv, NothingMissed
<1>13. QED
  BY <1>8, <1>9, <1>10, <1>11, <1>12 DEF ResultInv

LEMMA EndLemma ==
  ASSUME ResultInv, NEW s \in Streams, End(s)
  PROVE  ResultInv'
<1>1. /\ exit_event \in [Streams -> BOOLEAN] /\ reader[s] = "reading"
      /\ reader \in [Streams -> {"none", "reading", "raised", "ended"}]
      /\ handled[s] = written[s] /\ ProgramOf(s) \notin alive
  BY DEF ResultInv, TypeOK, End
<1>2. /\ exit_event' = [exit_event EXCEPT ![s] = TRUE]
      /\ reader' = [reader EXCEPT ![s] = "ended"]
      /\ handled' = handled /\ written' = written /\ alive' = alive /\ failed' = failed
      /\ stats' = stats /\ latency' = latency
      /\ verdict' = verdict /\ trial' = trial /\ eval_params' = eval_params
  BY DEF End, programVars
<1>3. /\ Running' = Running /\ Measured' = Measured
      /\ \A t \in Streams : Script(t)' = Script(t) /\ Lines(t)' = Lines(t)
  BY <1>2, SameTrialLemma
<1>4. TypeOK'
  BY <1>1, <1>2, <1>3 DEF ResultInv, TypeOK
<1>5. ToldIsOver'
  BY <1>1, <1>2, <1>3 DEF ResultInv, ToldIsOver
<1>6. EndedIsComplete'
  <2>1. \A p \in Running : Complete(p)' = Complete(p)
    BY <1>2, <1>3 DEF Complete
  <2>2. QED
    BY <1>2, <1>3, <2>1 DEF ResultInv, EndedIsComplete
<1>7. ResultIsUsed'
  <2>1. \A t \in Streams : reader'[t] = "raised" => reader[t] = "raised" /\ t # s
    BY <1>1, <1>2
  <2>2. \A t \in Streams : reader[t] = "raised" => reader'[t] = "raised"
    BY <1>1, <1>2
  <2>3. "err" \in Streams
    BY DEF Streams
  <2>4. QED
    BY <1>1, <1>2, <1>3, <2>1, <2>2, <2>3 DEF ResultInv, ResultIsUsed
<1>8. NothingMissed'
  BY <1>2, <1>3 DEF ResultInv, NothingMissed
<1>9. QED
  BY <1>4, <1>5, <1>6, <1>7, <1>8 DEF ResultInv

\* When run_trial() has waited for everything, and no program failed, the
\* result has been read.
LEMMA WaitedLemma ==
  ASSUME ResultInv, Waited, ~Failed
  PROVE  stats = "result"
<1>1. "err" \in Read /\ "err" \in Streams /\ "generator" \in Running
  BY DEF Read, Streams, Running, ProgramOf, Programs
<1>2. exit_event["err"] /\ handled["err"] = written["err"]
  BY <1>1 DEF Waited, ResultInv, ToldIsOver
<1>3. reader["err"] # "raised"
  BY <1>1, <1>2 DEF ResultInv, ResultIsUsed
<1>4. written["err"] = Lines("err")
  <2>1. Complete("generator")
    BY <1>1 DEF Waited, Failed, ResultInv, EndedIsComplete
  <2>2. QED
    BY <1>1, <2>1 DEF Complete, ProgramOf
<1>5. QED
  BY <1>2, <1>3, <1>4, ResultLemma DEF ResultInv, ResultIsUsed

LEMMA MainLemma ==
  ASSUME ResultInv, Return \/ Judge
  PROVE  ResultInv'
<1>1. UNCHANGED <<trial, eval_params, programVars, readerVars>>
  BY DEF Return, Judge
<1>2. /\ Running' = Running /\ Measured' = Measured
      /\ \A t \in Streams : Script(t)' = Script(t) /\ Lines(t)' = Lines(t)
  BY <1>1, SameTrialLemma
<1>3. TypeOK' /\ ToldIsOver'
  BY <1>1, <1>2 DEF ResultInv, TypeOK, ToldIsOver, programVars, readerVars
<1>4. EndedIsComplete'
  <2>1. \A p \in Running : Complete(p)' = Complete(p)
    BY <1>1, <1>2 DEF Complete, programVars
  <2>2. QED
    BY <1>1, <1>2, <2>1 DEF ResultInv, EndedIsComplete, programVars
<1>5. ResultIsUsed'
  BY <1>1, <1>2 DEF ResultInv, ResultIsUsed, readerVars, Streams
<1>6. NothingMissed'
  <2>1. CASE Judge
    BY <1>1, <1>2, <2>1 DEF ResultInv, NothingMissed, Judge, readerVars
  <2>2. CASE Return /\ verdict' \notin {"error", "exception"}
    <3>1. ~FixupRaises /\ ~Failed
      BY <2>2 DEF Return
    <3>2. Measured # {} => latency
      BY <3>1 DEF FixupRaises
    <3>3. stats = "result"
      BY <2>2, <3>1, WaitedLemma DEF Return
    <3>4. QED
      BY <1>1, <1>2, <3>2, <3>3 DEF NothingMissed, readerVars
  <2>3. CASE verdict' \in {"error", "exception"}
    BY <2>3 DEF NothingMissed
  <2>4. QED
    BY <2>1, <2>2, <2>3
<1>7. QED
  BY <1>3, <1>4, <1>5, <1>6 DEF ResultInv

LEMMA StepLemma == ResultInv /\ [Next]_vars => ResultInv'
<1> SUFFICES ASSUME ResultInv, [Next]_vars PROVE ResultInv'
  OBVIOUS
<1>1. ASSUME NEW s \in Streams, Write(s) \/ HandleLine(s) \/ End(s)  PROVE ResultInv'
  BY <1>1, WriteLemma, HandleLemma, EndLemma
<1>2. ASSUME NEW p \in Programs, Exit(p)  PROVE ResultInv'
  BY <1>2, ExitLemma
<1>3. CASE Return \/ Judge
  BY <1>3, MainLemma
<1>4. CASE UNCHANGED vars
  <2>1. /\ Running' = Running /\ Measured' = Measured
        /\ \A t \in Streams : Script(t)' = Script(t) /\ Lines(t)' = Lines(t)
    BY <1>4, SameTrialLemma DEF vars
  <2>2. EndedIsComplete'
    <3>1. \A p \in Running : Complete(p)' = Complete(p)
      BY <1>4, <2>1 DEF Complete, vars, programVars
    <3>2. QED
      BY <1>4, <2>1, <3>1 DEF ResultInv, EndedIsComplete, vars, programVars
  <2>3. TypeOK' /\ ToldIsOver'
    BY <1>4, <2>1 DEF ResultInv, TypeOK, ToldIsOver, vars, programVars, readerVars
  <2>4. ResultIsUsed' /\ NothingMissed'
    BY <1>4, <2>1 DEF ResultInv, ResultIsUsed, NothingMissed, vars, programVars, readerVars, Streams
  <2>5. QED
    BY <2>2, <2>3, <2>4 DEF ResultInv
<1>5. QED
  BY <1>1, <1>2, <1>3, <1>4 DEF Next

LEMMA Invariance == Spec => []ResultInv
BY InitLemma, StepLemma, PTL DEF Spec

\* The state of the readers and of run_trial() is well typed: no line is
\* handled before it is written, and none is written beyond the script.
THEOREM TypeCorrect == Spec => []TypeOK
<1>1. ResultInv => TypeOK
  BY DEF ResultInv
<1>2. QED
  BY <1>1, Invariance, PTL

\* A trial is judged by a complete report of its programs, whatever threads
\* and programs are slow or fail (binary-search.py 1402-1433).
THEOREM NothingIsMissed == Spec => []NothingMissed
<1>1. ResultInv => NothingMissed
  BY DEF ResultInv
<1>2. QED
  BY <1>1, Invariance, PTL

-----------------------------------------------------------------------------
(* Every stream is a LineStream.                                           *)

\* What a step does to stream s.
Unread(s) == written[s] = 0 /\ handled[s] = 0 /\ exit_event[s] = FALSE

StreamStep(s) ==
  \/ /\ ~exit_event[s] /\ written'[s] = written[s] + 1
     /\ handled'[s] = handled[s] /\ exit_event'[s] = exit_event[s]
  \/ /\ handled[s] < written[s] /\ ~exit_event[s]
     /\ handled'[s] = handled[s] + 1 /\ written'[s] = written[s]
     /\ exit_event'[s] \in {FALSE, handled'[s] = written[s]}
  \/ /\ handled[s] = written[s] /\ exit_event'[s] = TRUE
     /\ written'[s] = written[s] /\ handled'[s] = handled[s]
  \/ /\ written'[s] = written[s] /\ handled'[s] = handled[s]
     /\ exit_event'[s] = exit_event[s]

LEMMA StreamLemma ==
  ASSUME ResultInv, [Next]_vars, NEW s \in Streams
  PROVE  StreamStep(s)
<1>1. /\ written \in [Streams -> Nat] /\ handled \in [Streams -> Nat]
      /\ exit_event \in [Streams -> BOOLEAN]
  BY DEF ResultInv, TypeOK
<1>2. ASSUME NEW t \in Streams, Write(t)
      PROVE  StreamStep(s)
  <2>1. /\ written' = [written EXCEPT ![t] = @ + 1]
        /\ handled' = handled /\ exit_event' = exit_event
    BY <1>2 DEF Write, readerVars
  <2>2. ~exit_event[t]
    <3>1. written[t] < Lines(t) /\ ProgramOf(t) \in alive /\ Lines(t) \in Nat /\ written[t] \in Nat
      BY <1>1, <1>2, ScriptLemma DEF Write
    <3>2. QED
      BY <3>1 DEF ResultInv, ToldIsOver
  <2>3. QED
    BY <1>1, <2>1, <2>2 DEF StreamStep
<1>3. ASSUME NEW t \in Streams, HandleLine(t)
      PROVE  StreamStep(s)
  <2> DEFINE line == Script(t)[handled[t] + 1]
  <2>1. /\ handled' = [handled EXCEPT ![t] = @ + 1] /\ written' = written
        /\ exit_event' = [exit_event EXCEPT ![t] = @ \/ EndsStream(line)]
        /\ handled[t] < written[t] /\ written[t] <= Lines(t) /\ Lines(t) \in Nat
    BY <1>3, ScriptLemma DEF HandleLine, HasLine, programVars, ResultInv, TypeOK
  <2>2. ~exit_event[t]
    BY <1>1, <2>1 DEF ResultInv, ToldIsOver
  <2>3. line = "severed" => handled[t] + 1 = written[t]
    BY <1>1, <2>1, ScriptLemma
  <2>4. exit_event'[t] = (line = "severed")
    BY <1>1, <2>1, <2>2 DEF EndsStream
  <2> HIDE DEF line
  <2>5. CASE t # s
    BY <1>1, <2>1, <2>5 DEF StreamStep
  <2>6. CASE t = s
    <3>1. handled'[s] = handled[s] + 1 /\ written'[s] = written[s]
      BY <1>1, <2>1, <2>6
    <3>2. exit_event'[s] = FALSE \/ exit_event'[s] = (handled'[s] = written[s])
      BY <1>1, <2>3, <2>4, <2>6, <3>1
    <3>3. QED
      BY <2>1, <2>2, <2>6, <3>1, <3>2 DEF StreamStep
  <2>7. QED
    BY <2>5, <2>6
<1>4. ASSUME NEW t \in Streams, End(t)
      PROVE  StreamStep(s)
  BY <1>1, <1>4 DEF End, programVars, StreamStep
<1>5. ASSUME NEW p \in Programs, Exit(p)
      PROVE  StreamStep(s)
  BY <1>5 DEF Exit, readerVars, StreamStep
<1>6. CASE Return \/ Judge \/ UNCHANGED vars
  BY <1>6 DEF Return, Judge, vars, programVars, readerVars, StreamStep
<1>7. QED
  BY <1>2, <1>3, <1>4, <1>5, <1>6 DEF Next

LEMMA UnreadLemma == Init => \A s \in Streams : Unread(s)
BY DEF Init, Unread

\* Every stream of both programs is read in order and to its end, and its end
\* is told last: the readers implement LineStream (binary-search.py 1749-2412).
THEOREM ReadersImplementLineStream == Spec => StreamsAreRead
<1>1. Init => Stdout!Init /\ Stderr!Init /\ LatencyStdout!Init /\ LatencyStderr!Init
  BY UnreadLemma DEF Unread, Streams, Stdout!Init, Stderr!Init, LatencyStdout!Init, LatencyStderr!Init
<1>2. ResultInv /\ [Next]_vars =>
        /\ [Stdout!Next]_(Stdout!vars) /\ [Stderr!Next]_(Stderr!vars)
        /\ [LatencyStdout!Next]_(LatencyStdout!vars) /\ [LatencyStderr!Next]_(LatencyStderr!vars)
  <2> SUFFICES ASSUME ResultInv, [Next]_vars
               PROVE  /\ [Stdout!Next]_(Stdout!vars) /\ [Stderr!Next]_(Stderr!vars)
                      /\ [LatencyStdout!Next]_(LatencyStdout!vars)
                      /\ [LatencyStderr!Next]_(LatencyStderr!vars)
    OBVIOUS
  <2>1. \A s \in Streams : StreamStep(s)
    BY StreamLemma
  <2>2. [Stdout!Next]_(Stdout!vars)
    BY <2>1 DEF StreamStep, Streams, Stdout!Next, Stdout!Write, Stdout!Handle, Stdout!Tell, Stdout!vars
  <2>3. [Stderr!Next]_(Stderr!vars)
    BY <2>1 DEF StreamStep, Streams, Stderr!Next, Stderr!Write, Stderr!Handle, Stderr!Tell, Stderr!vars
  <2>4. [LatencyStdout!Next]_(LatencyStdout!vars)
    BY <2>1 DEF StreamStep, Streams, LatencyStdout!Next, LatencyStdout!Write, LatencyStdout!Handle,
                LatencyStdout!Tell, LatencyStdout!vars
  <2>5. [LatencyStderr!Next]_(LatencyStderr!vars)
    BY <2>1 DEF StreamStep, Streams, LatencyStderr!Next, LatencyStderr!Write, LatencyStderr!Handle,
                LatencyStderr!Tell, LatencyStderr!vars
  <2>6. QED
    BY <2>2, <2>3, <2>4, <2>5
<1>3. QED
  BY <1>1, <1>2, Invariance, PTL DEF Spec, StreamsAreRead, Stdout!Spec, Stderr!Spec,
     LatencyStdout!Spec, LatencyStderr!Spec

-----------------------------------------------------------------------------
(* Sums over finite sets.                                                  *)

\* A set of numbers that is not empty has a least one.
LEMMA LeastLemma ==
  ASSUME NEW T \in SUBSET Nat, T # {}
  PROVE  \E n \in T : \A m \in T : ~(m < n)
<1> DEFINE Less == OpToRel(<, Nat)
<1>1. IsWellFoundedOn(Less, Nat)
  BY NatLessThanWellFounded
<1>2. \A m \in Nat, n \in Nat : m < n => <<m, n>> \in Less
  BY DEF OpToRel
<1> HIDE DEF Less
<1>3. \E n \in T : \A m \in T : ~(<<m, n>> \in Less)
  BY <1>1, WFMin
<1> QED
  BY <1>2, <1>3

\* Of the subsets of a finite set that are not good one is smallest.
LEMMA SmallestLemma ==
  ASSUME NEW S, IsFiniteSet(S), NEW B \in SUBSET (SUBSET S), B # {}
  PROVE  \E s \in B : \A t \in B : Cardinality(t) >= Cardinality(s)
<1> DEFINE sizes == {Cardinality(s) : s \in B}
<1>1. \A s \in B : Cardinality(s) \in Nat
  BY FS_Subset, FS_CardinalityType
<1>2. sizes \in SUBSET Nat /\ sizes # {}
  BY <1>1
<1>3. PICK n \in sizes : \A m \in sizes : ~(m < n)
  <2> HIDE DEF sizes
  <2> QED
    BY <1>2, LeastLemma
<1>4. PICK s \in B : n = Cardinality(s)
  BY <1>3
<1>5. \A t \in B : Cardinality(t) \in sizes
  OBVIOUS
<1> HIDE DEF sizes
<1>6. \A t \in B : Cardinality(t) \in Nat /\ ~(Cardinality(t) < n) /\ n \in Nat
  BY <1>1, <1>3, <1>4, <1>5
<1>7. \A t \in B : Cardinality(t) >= n
  BY <1>6
<1> QED
  BY <1>4, <1>7

\* What TLA+ sums up a function with: some element first, then the others.
One(s) == CHOOSE x \in s : TRUE

Sums(g, fun, T) == g = [s \in T |-> IF s = {} THEN 0 ELSE fun[One(s)] + g[s \ {One(s)}]]

\* A set without one of its elements is smaller.
LEMMA OneLemma ==
  ASSUME NEW S, IsFiniteSet(S), NEW s \in SUBSET S, s # {}
  PROVE  /\ One(s) \in s /\ IsFiniteSet(s) /\ s \ {One(s)} \in SUBSET S
         /\ Cardinality(s) \in Nat
         /\ Cardinality(s \ {One(s)}) = Cardinality(s) - 1
<1>1. One(s) \in s
  BY DEF One
<1>2. IsFiniteSet(s) /\ Cardinality(s) \in Nat
  BY FS_Subset, FS_CardinalityType
<1> QED
  BY <1>1, <1>2, FS_RemoveElement

\* The recursion that a sum is defined by has a solution.
LEMMA SumsExist ==
  ASSUME NEW S, IsFiniteSet(S), NEW fun
  PROVE  \E g : Sums(g, fun, SUBSET S)
<1> DEFINE Small(n) == {s \in SUBSET S : Cardinality(s) <= n}
           bad == {n \in Nat : ~\E g : Sums(g, fun, Small(n))}
<1>1. ASSUME bad # {}
      PROVE  FALSE
  <2>1. PICK n \in bad : \A m \in bad : ~(m < n)
    BY <1>1, LeastLemma
  <2>2. CASE n = 0
    <3> DEFINE g == [s \in Small(0) |-> 0]
    <3>1. \A s \in Small(0) : s = {}
      BY FS_Subset, FS_EmptySet, FS_CardinalityType
    <3>2. Sums(g, fun, Small(0))
      BY <3>1 DEF Sums
    <3> QED
      BY <2>2, <3>2
  <2>3. CASE n # 0
    <3>1. n \in Nat /\ n - 1 \in Nat /\ n - 1 < n
      BY <2>3
    <3>2. PICK g : Sums(g, fun, Small(n - 1))
      BY <2>1, <3>1
    <3> DEFINE value(s) == IF s = {} THEN 0 ELSE fun[One(s)] + g[s \ {One(s)}]
               h == [s \in Small(n) |-> value(s)]
    <3>3. \A s \in Small(n - 1) : g[s] = value(s)
      BY <3>2 DEF Sums
    <3>4. ASSUME NEW s \in Small(n)
          PROVE  h[s] = IF s = {} THEN 0 ELSE fun[One(s)] + h[s \ {One(s)}]
      <4>1. CASE s = {}
        BY <4>1
      <4>2. CASE s # {}
        <5>1. s \ {One(s)} \in Small(n - 1) /\ s \ {One(s)} \in Small(n)
          BY <3>1, <4>2, OneLemma
        <5>2. h[s \ {One(s)}] = g[s \ {One(s)}]
          BY <3>3, <5>1
        <5> QED
          BY <4>2, <5>2
      <4> QED
        BY <4>1, <4>2
    <3>5. Sums(h, fun, Small(n))
      <4> HIDE DEF value, Small
      <4>1. h = [s \in Small(n) |-> h[s]]
        OBVIOUS
      <4> QED
        BY <3>4, <4>1 DEF Sums
    <3> QED
      BY <3>5
  <2> QED
    BY <2>2, <2>3
<1>2. Cardinality(S) \in Nat /\ Small(Cardinality(S)) = SUBSET S
  BY FS_CardinalityType, FS_Subset
<1> QED
  BY <1>1, <1>2

\* A sum is the value of such a solution.
LEMMA SumLemma ==
  ASSUME NEW S, IsFiniteSet(S), NEW fun
  PROVE  \E g : Sums(g, fun, SUBSET S) /\ SumFunctionOnSet(fun, S) = g[S]
<1>1. SumFunctionOnSet(fun, S) = (CHOOSE g : Sums(g, fun, SUBSET S))[S]
  BY DEF SumFunctionOnSet, FoldFunctionOnSet, MapThenFoldSet, Sums, One
<1> QED
  BY <1>1, SumsExist

\* A sum of natural numbers is one, at least as large as each of them; the sum
\* of nothing is zero.
LEMMA SumOfNaturals ==
  ASSUME NEW S, IsFiniteSet(S), NEW fun, \A x \in S : fun[x] \in Nat
  PROVE  /\ SumFunctionOnSet(fun, S) \in Nat
         /\ S = {} => SumFunctionOnSet(fun, S) = 0
         /\ \A x \in S : fun[x] <= SumFunctionOnSet(fun, S)
         /\ \A x : S = {x} => SumFunctionOnSet(fun, S) = fun[x]
<1>1. PICK g : Sums(g, fun, SUBSET S) /\ SumFunctionOnSet(fun, S) = g[S]
  BY SumLemma
<1>2. \A s \in SUBSET S : g[s] = IF s = {} THEN 0 ELSE fun[One(s)] + g[s \ {One(s)}]
  BY <1>1 DEF Sums
<1> DEFINE good(s) == g[s] \in Nat /\ \A x \in s : fun[x] <= g[s]
           bad == {s \in SUBSET S : ~good(s)}
<1>3. ASSUME bad # {}
      PROVE  FALSE
  <2>1. bad \in SUBSET (SUBSET S)
    OBVIOUS
  <2>2. PICK s \in bad : \A t \in bad : Cardinality(t) >= Cardinality(s)
    <3> HIDE DEF bad
    <3> QED
      BY <1>3, <2>1, SmallestLemma
  <2>3. s \in SUBSET S /\ ~good(s)
    OBVIOUS
  <2>4. s # {}
    BY <1>2, <2>3
  <2> DEFINE rest == s \ {One(s)}
  <2>5. One(s) \in s /\ rest \in SUBSET S /\ Cardinality(s) \in Nat
          /\ Cardinality(rest) = Cardinality(s) - 1
    BY <2>3, <2>4, OneLemma
  <2>6. good(rest)
    <3>1. rest \in bad => Cardinality(rest) >= Cardinality(s)
      <4> HIDE DEF bad, rest
      <4> QED
        BY <2>2
    <3>2. rest \notin bad
      <4> HIDE DEF bad, rest
      <4> QED
        BY <2>5, <3>1
    <3> QED
      BY <2>5, <3>2
  <2>7. g[s] = fun[One(s)] + g[rest] /\ fun[One(s)] \in Nat /\ g[rest] \in Nat
    BY <1>2, <2>3, <2>4, <2>5, <2>6
  <2>8. g[s] \in Nat /\ fun[One(s)] <= g[s] /\ g[rest] <= g[s]
    BY <2>7
  <2>9. \A x \in s : x = One(s) \/ x \in rest
    OBVIOUS
  <2>10. \A x \in s : fun[x] \in Nat
    BY <2>3
  <2> HIDE DEF rest
  <2>11. \A x \in s : fun[x] <= g[s]
    BY <2>6, <2>7, <2>8, <2>9, <2>10
  <2> QED
    BY <2>3, <2>8, <2>11
<1>4. good(S)
  BY <1>3
<1>5. S = {} => g[S] = 0
  BY <1>2
<1>6. ASSUME NEW x, S = {x}
      PROVE  g[S] = fun[x]
  <2>1. One(S) = x /\ S \ {One(S)} = {} /\ fun[x] \in Nat
    BY <1>6 DEF One
  <2>2. g[{}] = 0 /\ g[S] = fun[x] + g[{}]
    BY <1>2, <1>6, <2>1
  <2> QED
    BY <2>1, <2>2
<1> QED
  BY <1>1, <1>4, <1>5, <1>6

\* What holds of the numbers holds of their sums.
LEMMA SumsCompare ==
  ASSUME NEW S, IsFiniteSet(S), NEW f, NEW h, NEW a \in Nat, NEW b \in Nat,
         \A x \in S : f[x] \in Nat /\ h[x] \in Nat /\ a * f[x] <= b * h[x]
  PROVE  a * SumFunctionOnSet(f, S) <= b * SumFunctionOnSet(h, S)
<1>1. PICK p : Sums(p, f, SUBSET S) /\ SumFunctionOnSet(f, S) = p[S]
  BY SumLemma
<1>2. PICK q : Sums(q, h, SUBSET S) /\ SumFunctionOnSet(h, S) = q[S]
  BY SumLemma
<1>3. \A s \in SUBSET S :
        /\ p[s] = IF s = {} THEN 0 ELSE f[One(s)] + p[s \ {One(s)}]
        /\ q[s] = IF s = {} THEN 0 ELSE h[One(s)] + q[s \ {One(s)}]
  BY <1>1, <1>2 DEF Sums
<1> DEFINE good(s) == p[s] \in Nat /\ q[s] \in Nat /\ a * p[s] <= b * q[s]
           bad == {s \in SUBSET S : ~good(s)}
<1>4. ASSUME bad # {}
      PROVE  FALSE
  <2>1. bad \in SUBSET (SUBSET S)
    OBVIOUS
  <2>2. PICK s \in bad : \A t \in bad : Cardinality(t) >= Cardinality(s)
    <3> HIDE DEF bad
    <3> QED
      BY <1>4, <2>1, SmallestLemma
  <2>3. s \in SUBSET S /\ ~good(s)
    OBVIOUS
  <2>4. s # {}
    <3>1. a * 0 = 0 /\ b * 0 = 0
      OBVIOUS
    <3>2. p[{}] = 0 /\ q[{}] = 0
      BY <1>3
    <3>3. good({})
      BY <3>1, <3>2
    <3> QED
      BY <2>3, <3>3
  <2> DEFINE rest == s \ {One(s)}
  <2>5. One(s) \in s /\ rest \in SUBSET S /\ Cardinality(s) \in Nat
          /\ Cardinality(rest) = Cardinality(s) - 1
    BY <2>3, <2>4, OneLemma
  <2>6. good(rest)
    <3>1. rest \in bad => Cardinality(rest) >= Cardinality(s)
      <4> HIDE DEF bad, rest
      <4> QED
        BY <2>2
    <3>2. rest \notin bad
      <4> HIDE DEF bad, rest
      <4> QED
        BY <2>5, <3>1
    <3> QED
      BY <2>5, <3>2
  <2>7. /\ p[s] = f[One(s)] + p[rest] /\ q[s] = h[One(s)] + q[rest]
        /\ f[One(s)] \in Nat /\ h[One(s)] \in Nat /\ p[rest] \in Nat /\ q[rest] \in Nat
        /\ a * f[One(s)] <= b * h[One(s)] /\ a * p[rest] <= b * q[rest]
    BY <1>3, <2>3, <2>4, <2>5, <2>6
  <2>8. ASSUME NEW u \in Nat, NEW v \in Nat, NEW w \in Nat, NEW z \in Nat,
               a * u <= b * v, a * w <= b * z
        PROVE  u + w \in Nat /\ v + z \in Nat /\ a * (u + w) <= b * (v + z)
    BY <2>8
  <2> QED
    BY <2>3, <2>7, <2>8
<1> QED
  BY <1>1, <1>2, <1>4

-----------------------------------------------------------------------------
(* The verdict is the one that EvaluateTrial_proofs is about.              *)

EP == INSTANCE EvaluateTrial_proofs WITH
    MaxLossPct <- 1000 * MaxLossPct, ParamSet <- EvalParams, ProbeLosses <- {}, MaxFlaws <- 0,
    trial_params <- ParamsOfTrial, probe_loss <- ProbeLosses, trial_result <- verdict

\* The instances of EvaluateTrial in TrialResult and here are the same.
LEMMA SameVerdict == Evaluation!Verdict = EP!Verdict
<1>1. /\ \A f, place : Evaluation!Has(f, place) = EP!Has(f, place)
      /\ \A level : Evaluation!Granularity(level) = EP!Granularity(level)
      /\ Evaluation!QuitsOnNegativeLoss = EP!QuitsOnNegativeLoss
      /\ Evaluation!Warmup = EP!Warmup
      /\ Evaluation!Directions = EP!Directions
      /\ Evaluation!NoProbes = EP!NoProbes /\ Evaluation!AllProbes = EP!AllProbes
  BY DEF Evaluation!Has, EP!Has, Evaluation!Granularity, EP!Granularity,
         Evaluation!QuitsOnNegativeLoss, EP!QuitsOnNegativeLoss, Evaluation!Warmup, EP!Warmup,
         Evaluation!Directions, EP!Directions, Evaluation!NoProbes, EP!NoProbes,
         Evaluation!AllProbes, EP!AllProbes
<1>2. /\ \A i : Evaluation!PairCritical(i) = EP!PairCritical(i)
      /\ \A d : Evaluation!DirectionCritical(d) = EP!DirectionCritical(d)
      /\ \A d : Evaluation!LatencyCritical(d) = EP!LatencyCritical(d)
  BY <1>1 DEF Evaluation!PairCritical, EP!PairCritical, Evaluation!DirectionCritical,
              EP!DirectionCritical, Evaluation!LatencyCritical, EP!LatencyCritical
<1>3. Evaluation!Critical = EP!Critical /\ Evaluation!LossRatioMissing = EP!LossRatioMissing
  BY <1>1, <1>2 DEF Evaluation!Critical, EP!Critical, Evaluation!LossRatioMissing, EP!LossRatioMissing
<1>4. /\ \A checks : Evaluation!LastUnmet(checks) = EP!LastUnmet(checks)
      /\ \A flawed, v : Evaluation!Check(flawed, v) = EP!Check(flawed, v)
  BY DEF Evaluation!LastUnmet, EP!LastUnmet, Evaluation!Check, EP!Check, Evaluation!Max, EP!Max
<1>5. \A i : Evaluation!StreamChecks(i) = EP!StreamChecks(i)
  BY <1>1, <1>4 DEF Evaluation!StreamChecks, EP!StreamChecks
<1>6. \A d : Evaluation!DirectionChecks(d) = EP!DirectionChecks(d)
  BY <1>1, <1>4 DEF Evaluation!DirectionChecks, EP!DirectionChecks
<1>7. \A d : Evaluation!LatencyCheck(d) = EP!LatencyCheck(d)
  BY <1>1, <1>4 DEF Evaluation!LatencyCheck, EP!LatencyCheck
<1>8. \A i : Evaluation!PairLossChecks(i) = EP!PairLossChecks(i)
  BY <1>1, <1>4 DEF Evaluation!PairLossChecks, EP!PairLossChecks
<1>9. Evaluation!RateChecks = EP!RateChecks
  BY <1>1, <1>4 DEF Evaluation!RateChecks, EP!RateChecks
<1>10. Evaluation!LossChecks = EP!LossChecks
  BY <1>1, <1>4, <1>6, <1>7, <1>8 DEF Evaluation!LossChecks, EP!LossChecks
<1>11. Evaluation!RequirementsVerdict = EP!RequirementsVerdict
  BY <1>4, <1>5, <1>9, <1>10 DEF Evaluation!RequirementsVerdict, EP!RequirementsVerdict
<1>12. \A v : Evaluation!TrialVerdict(v) = EP!TrialVerdict(v)
  BY <1>1 DEF Evaluation!TrialVerdict, EP!TrialVerdict
<1> QED
  BY <1>1, <1>3, <1>11, <1>12 DEF Evaluation!Verdict, EP!Verdict

LEMMA SameTypes == Evaluation!ParamType = EP!ParamType
BY DEF Evaluation!ParamType, EP!ParamType, Evaluation!Directions, EP!Directions

LEMMA Assumed == EP!EvaluateAssumption
<1>1. 1000 * MaxLossPct \in Nat /\ 1000 * MaxLossPct < 100 * 1000
  BY StatsAssumption
<1> QED
  BY <1>1, SameTypes, StatsAssumption, EvalParamsAssumption DEF EP!EvaluateAssumption

-----------------------------------------------------------------------------
(* What was counted.                                                       *)

\* Arithmetic that is needed below.
LEMMA ZeroLemma == \A n \in Nat : n + 0 = n
OBVIOUS

LEMMA ShareLemma == \A n \in Nat, t \in 0..99 : (100 - t) * n <= 100 * n
OBVIOUS

LEMMA ToleranceLemma ==
  \A n \in Nat, t \in 0..99 : ~(100 * n > (100 + t) * n) /\ ~(100 * n < (100 - t) * n)
OBVIOUS

LEMMA NoLossLemma == \A n \in Nat : n > 0 => (1000 * 1000 * (n - n)) \div n = 0
OBVIOUS

LEMMA PacketsLemma == \A n \in Nat : Packets(n) = n
BY DEF Packets, Missing

\* What flows sent and received in all.
LEMMA CountsLemma ==
  ASSUME NEW results \in [Flows -> FlowType], NEW flows \in SUBSET Flows
  PROVE  /\ IsFiniteSet(flows)
         /\ SentBy(flows, results) \in Nat /\ ReceivedOf(flows, results) \in Nat
         /\ flows = {} => SentBy(flows, results) = 0 /\ ReceivedOf(flows, results) = 0
         /\ \A f : flows = {f} => /\ SentBy(flows, results) = Packets(results[f].tx)
                                  /\ ReceivedOf(flows, results) = Packets(results[f].rx)
<1> DEFINE sent == [f \in Flows |-> Packets(results[f].tx)]
           received == [f \in Flows |-> Packets(results[f].rx)]
<1>1. IsFiniteSet(flows)
  BY StatsAssumption, FS_Subset
<1>2. \A f \in flows : sent[f] \in Nat /\ received[f] \in Nat
  BY DEF Packets, FlowType, Missing
<1>3. SentBy(flows, results) = SumFunctionOnSet(sent, flows)
      /\ ReceivedOf(flows, results) = SumFunctionOnSet(received, flows)
  BY DEF SentBy, ReceivedOf
<1>4. \A f \in flows : sent[f] = Packets(results[f].tx) /\ received[f] = Packets(results[f].rx)
  OBVIOUS
<1> HIDE DEF sent, received
<1> QED
  BY <1>1, <1>2, <1>3, <1>4, SumOfNaturals

\* Where no more is lost than may be, the rest has arrived.
LEMMA LossLemma ==
  ASSUME NEW tx \in Nat, NEW rx \in Nat, ~Lossy(tx, rx)
  PROVE  100 * rx >= (100 - MaxLossPct) * tx
BY StatsAssumption DEF Lossy

\* The flaws of a trial are those of its flows, pairs and directions.
LEMMA FlawsOfTraffic ==
  ASSUME NEW params, NEW results, NEW probes
  PROVE  LET flaws == TrafficFlaws(params, results, probes)
         IN  /\ \A f \in Examined(params) : \A flaw \in FlowFlaws(Layout[f], results[f]) :
                  <<flaw, Layout[f].pair>> \in flaws
             /\ \A i \in Pairs : \A flaw \in PairFlaws(params, PairTotals(params, results, i)) :
                  <<flaw, i>> \in flaws
             /\ \A d \in {"->", "<-"} :
                  \A flaw \in DirectionFlaws(WithProbes(params, results, probes, d)) :
                    <<flaw, d>> \in flaws
<1> DEFINE ofFlows == {FlowFlaws(Layout[f], results[f]) \X {Layout[f].pair} : f \in Examined(params)}
           ofPairs == {PairFlaws(params, PairTotals(params, results, i)) \X {i} : i \in Pairs}
           ofDirections == {DirectionFlaws(WithProbes(params, results, probes, d)) \X {d} :
                              d \in {"->", "<-"}}
<1>1. TrafficFlaws(params, results, probes) =
        (UNION ofFlows) \cup (UNION ofPairs) \cup (UNION ofDirections)
  BY DEF TrafficFlaws
<1>2. \A f \in Examined(params) : \A flaw \in FlowFlaws(Layout[f], results[f]) :
        <<flaw, Layout[f].pair>> \in UNION ofFlows
  OBVIOUS
<1>3. \A i \in Pairs : \A flaw \in PairFlaws(params, PairTotals(params, results, i)) :
        <<flaw, i>> \in UNION ofPairs
  OBVIOUS
<1>4. \A d \in {"->", "<-"} : \A flaw \in DirectionFlaws(WithProbes(params, results, probes, d)) :
        <<flaw, d>> \in UNION ofDirections
  OBVIOUS
<1> HIDE DEF ofFlows, ofPairs, ofDirections
<1> QED
  BY <1>1, <1>2, <1>3, <1>4

\* What EvaluateTrial_proofs says of this verdict.
LEMMA PassingVerdict ==
  ASSUME ParamsOfTrial \in EP!ParamType, ~EP!Warmup
  PROVE  EP!Verdict = "pass" <=>
           /\ ~EP!LossRatioMissing /\ ~EP!Critical /\ EP!RequirementsMet
           /\ ~EP!Has("force_quit", "trial") /\ ~EP!Has("early_exit", "trial")
           /\ ~EP!Has("timeout", "trial") /\ ~EP!Has("off_runtime", "trial")
BY EP!PassLemma, Assumed

LEMMA FlawlessVerdict ==
  ASSUME ParamsOfTrial \in EP!ParamType, EP!Flawless
  PROVE  /\ ~EP!LossRatioMissing /\ ~EP!Critical /\ EP!RequirementsMet
         /\ ~EP!Has("force_quit", "trial") /\ ~EP!Has("early_exit", "trial")
         /\ ~EP!Has("timeout", "trial") /\ ~EP!Has("off_runtime", "trial")
BY EP!FlawlessLemma, Assumed

\* What a trial passes without.
LEMMA PassLemma ==
  ASSUME trial \in Trials, eval_params \in EvalParams, eval_params.trial_mode # "warmup",
         Evaluation!Verdict = "pass"
  PROVE  /\ <<"early_exit", "trial">> \notin trial_stats
         /\ \A i \in Pairs : <<"no_packets", i>> \notin trial_stats
                               /\ <<"missing", i>> \notin trial_stats
         /\ eval_params.loss_granularity = "segment" =>
              \A i \in Pairs : <<"stream_total_loss", i>> \notin trial_stats
                                 /\ <<"stream_loss", i>> \notin trial_stats
         /\ eval_params.loss_granularity = "device" =>
              \A i \in Pairs : <<"device_loss", i>> \notin trial_stats
         /\ eval_params.loss_granularity = "direction" =>
              \A d \in {"->", "<-"} : <<"loss", d>> \notin trial_stats
                                        /\ <<"total_loss", d>> \notin trial_stats
<1>1. eval_params \in EP!ParamType /\ Measured \in SUBSET EP!Directions
  BY TrialsAssumption, EvalParamsAssumption, SameTypes DEF TrialType, Measured, EP!Directions
<1>2. /\ ParamsOfTrial \in EP!ParamType
      /\ ParamsOfTrial.trial_mode = eval_params.trial_mode
      /\ ParamsOfTrial.loss_granularity = eval_params.loss_granularity
  BY <1>1 DEF ParamsOfTrial, EP!ParamType
<1>3. ~EP!Warmup /\ EP!Verdict = "pass"
  BY <1>2, SameVerdict DEF EP!Warmup
<1>4. ~EP!Critical /\ EP!RequirementsMet /\ ~EP!Has("early_exit", "trial")
  BY <1>2, <1>3, PassingVerdict
<1>5. \A level : EP!Granularity(level) <=> eval_params.loss_granularity = level
  BY <1>2 DEF EP!Granularity
<1>6. \A i \in Pairs : ~EP!PairCritical(i) /\ EP!PairMet(i)
  BY <1>4 DEF EP!Critical, EP!RequirementsMet, Pairs
<1>7. \A i \in Pairs : <<"no_packets", i>> \notin trial_stats /\ <<"missing", i>> \notin trial_stats
  BY <1>6 DEF EP!PairCritical, EP!PairMet, EP!Has
<1>8. ASSUME eval_params.loss_granularity = "segment", NEW i \in Pairs
      PROVE  <<"stream_total_loss", i>> \notin trial_stats /\ <<"stream_loss", i>> \notin trial_stats
  <2>1. EP!Granularity("segment") /\ ~EP!Granularity("direction")
    BY <1>5, <1>8
  <2>2. EP!PairLossMet(i)
    BY <1>4, <2>1 DEF EP!RequirementsMet, Pairs
  <2> QED
    BY <1>6, <2>1, <2>2 DEF EP!PairCritical, EP!PairLossMet, EP!Has
<1>9. ASSUME eval_params.loss_granularity = "device", NEW i \in Pairs
      PROVE  <<"device_loss", i>> \notin trial_stats
  <2>1. ~EP!Granularity("segment") /\ ~EP!Granularity("direction")
    BY <1>5, <1>9
  <2>2. EP!PairLossMet(i)
    BY <1>4, <2>1 DEF EP!RequirementsMet, Pairs
  <2> QED
    BY <2>1, <2>2 DEF EP!PairLossMet, EP!Has
<1>10. ASSUME eval_params.loss_granularity = "direction", NEW d \in {"->", "<-"}
       PROVE  <<"loss", d>> \notin trial_stats /\ <<"total_loss", d>> \notin trial_stats
  <2>1. EP!DirectionMet(d)
    BY <1>4, <1>5, <1>10 DEF EP!RequirementsMet, EP!Directions
  <2> QED
    BY <2>1 DEF EP!DirectionMet, EP!Has
<1>11. <<"early_exit", "trial">> \notin trial_stats
  BY <1>4 DEF EP!Has
<1> QED
  BY <1>7, <1>8, <1>9, <1>10, <1>11

\* What a trial that passes promises, see PassMeansDelivered.
Promise ==
  /\ ~trial.early_exit
  /\ CASE eval_params.loss_granularity = "segment" ->
            ~trial.params.use_device_stats => \A f \in Delivering : WithinLoss({f})
       [] eval_params.loss_granularity = "device" ->
            \A i \in Pairs : WithinLoss(Of(Created(trial.params), i))
       [] eval_params.loss_granularity = "direction" ->
            \A d \in {"->", "<-"} :
              ~trial.params.measure_latency /\ d \notin Measured =>
                WithinLoss({f \in Delivering : Path[Layout[f].pair] = d})

\* A flow that is listed and without a loss flaw lost no more than it may.
LEMMA SegmentPromise ==
  ASSUME trial \in Trials, trial_stats = ResultFlaws(trial.probes),
         ~trial.params.use_device_stats, NEW f \in Delivering,
         \A i \in Pairs : /\ <<"missing", i>> \notin trial_stats
                          /\ <<"stream_total_loss", i>> \notin trial_stats
                          /\ <<"stream_loss", i>> \notin trial_stats
  PROVE  WithinLoss({f})
<1> DEFINE flow == trial.results[f]
<1>1. f \in Flows /\ f \in Created(trial.params) /\ Layout[f].traffic = "measurement"
  BY DEF Delivering, Created
<1>2. trial.results \in [Flows -> FlowType] /\ Layout[f].pair \in Pairs
  BY <1>1, TrialsAssumption, StatsAssumption DEF TrialType, LayoutType
<1>3. f \in Examined(trial.params)
  BY <1>1 DEF Examined
<1>4. \A flaw \in FlowFlaws(Layout[f], flow) : <<flaw, Layout[f].pair>> \in trial_stats
  BY <1>3, FlawsOfTraffic DEF ResultFlaws
<1>5. /\ "missing" \notin FlowFlaws(Layout[f], flow)
      /\ "stream_total_loss" \notin FlowFlaws(Layout[f], flow)
      /\ "stream_loss" \notin FlowFlaws(Layout[f], flow)
  BY <1>2, <1>4
<1>6. Listed(flow)
  BY <1>5 DEF FlowFlaws
<1>7. flow.tx > 0 => flow.rx # 0 /\ ~Lossy(flow.tx, flow.rx)
  BY <1>1, <1>5, <1>6 DEF FlowFlaws
<1>8. flow.tx \in Nat /\ flow.rx \in Nat
  BY <1>1, <1>2, <1>6 DEF Listed, FlowType
<1>9. ~Lossy(flow.tx, flow.rx)
  BY <1>7, <1>8 DEF Lossy
<1>10. Packets(flow.tx) = flow.tx /\ Packets(flow.rx) = flow.rx
  BY <1>8, PacketsLemma
<1>11. SentBy({f}, trial.results) = flow.tx /\ ReceivedOf({f}, trial.results) = flow.rx
  BY <1>1, <1>2, <1>10, CountsLemma
<1> HIDE DEF flow
<1> QED
  BY <1>8, <1>9, <1>11, LossLemma DEF WithinLoss

\* The counters of a device pair are those of its flows.
LEMMA DevicePromise ==
  ASSUME trial \in Trials, trial_stats = ResultFlaws(trial.probes), NEW i \in Pairs,
         <<"device_loss", i>> \notin trial_stats
  PROVE  WithinLoss(Of(Created(trial.params), i))
<1> DEFINE flows == Of(Created(trial.params), i)
           totals == PairTotals(trial.params, trial.results, i)
<1>1. trial.results \in [Flows -> FlowType] /\ flows \in SUBSET Flows
  BY TrialsAssumption DEF TrialType, Of, Created
<1>2. totals.tx = SentBy(flows, trial.results) /\ totals.rx = ReceivedOf(flows, trial.results)
  BY DEF PairTotals, Examined, Of
<1>3. "device_loss" \notin PairFlaws(trial.params, totals)
  BY FlawsOfTraffic DEF ResultFlaws
<1>4. ~Lossy(totals.tx, totals.rx)
  BY <1>3 DEF PairFlaws
<1> HIDE DEF flows, totals
<1>5. WithinLoss(flows)
  BY <1>1, <1>2, <1>4, CountsLemma, LossLemma DEF WithinLoss
<1> QED
  BY <1>5 DEF flows

\* No flow is a latency flow when the generator does not measure latency, and
\* what is examined then is what is created, or every device is counted.
LEMMA DirectionPromise ==
  ASSUME trial \in Trials, trial_stats = ResultFlaws(trial.probes), NEW d \in {"->", "<-"},
         ~trial.params.measure_latency, d \notin Measured,
         <<"loss", d>> \notin trial_stats, <<"total_loss", d>> \notin trial_stats
  PROVE  WithinLoss({f \in Delivering : Path[Layout[f].pair] = d})
<1> DEFINE flows == {f \in Delivering : Path[Layout[f].pair] = d}
           totals == DirectionTotals(trial.params, trial.results, d)
<1>1. trial.results \in [Flows -> FlowType] /\ flows \in SUBSET Flows
  BY TrialsAssumption DEF TrialType, Delivering, Created
<1>2. /\ SentBy(flows, trial.results) \in Nat /\ ReceivedOf(flows, trial.results) \in Nat
      /\ SentBy({}, trial.results) = 0 /\ ReceivedOf({}, trial.results) = 0
  <2> HIDE DEF flows
  <2> QED
    BY <1>1, CountsLemma
<1>3. totals.tx = SentBy(flows, trial.results) /\ totals.rx = ReceivedOf(flows, trial.results)
  <2>1. CASE trial.params.use_device_stats
    <3>1. trial.params.generator = "trex-txrx"
      BY <2>1, TrialsAssumption DEF TrialType
    <3>2. {f \in Created(trial.params) : Path[Layout[f].pair] = d} = flows
      <4>1. \A f \in Created(trial.params) : Layout[f].traffic = "measurement"
        BY <3>1, StatsAssumption DEF Created, LayoutType
      <4> QED
        BY <4>1 DEF Delivering
    <3> QED
      BY <2>1, <3>2 DEF DirectionTotals
  <2>2. CASE ~trial.params.use_device_stats
    <3>1. Examined(trial.params) = Created(trial.params)
      BY <2>2 DEF Examined
    <3>2. {f \in {g \in Created(trial.params) : Path[Layout[g].pair] = d} \cap Examined(trial.params) :
             Layout[f].traffic = "measurement"} = flows
      BY <3>1 DEF Delivering
    <3>3. Latency(flows) = {}
      BY DEF Latency, Delivering, Created
    <3>4. /\ totals.tx = SentBy(flows, trial.results) + SentBy({}, trial.results)
          /\ totals.rx = ReceivedOf(flows, trial.results) + ReceivedOf({}, trial.results)
      <4> HIDE DEF flows
      <4> QED
        BY <2>2, <3>2, <3>3 DEF DirectionTotals
    <3> HIDE DEF flows, totals
    <3> QED
      BY <1>2, <3>4, ZeroLemma
  <2> QED
    BY <2>1, <2>2
<1>4. WithProbes(trial.params, trial.results, trial.probes, d) = totals
  BY DEF WithProbes, Measured
<1>5. "loss" \notin DirectionFlaws(totals) /\ "total_loss" \notin DirectionFlaws(totals)
  BY <1>4, FlawsOfTraffic DEF ResultFlaws
<1> HIDE DEF totals, flows
<1>6. totals.tx \in Nat /\ totals.rx \in Nat
  BY <1>2, <1>3
<1>7. ~Lossy(totals.tx, totals.rx)
  BY <1>5, <1>6 DEF DirectionFlaws, Lossy
<1>8. WithinLoss(flows)
  BY <1>2, <1>3, <1>7, LossLemma DEF WithinLoss
<1> QED
  BY <1>8 DEF flows

\* At each granularity the verdict "pass" keeps the promise.
LEMMA PromiseKept ==
  ASSUME trial \in Trials, eval_params \in EvalParams, eval_params.trial_mode # "warmup",
         trial_stats = ResultFlaws(trial.probes), Evaluation!Verdict = "pass"
  PROVE  Promise
<1>1. ~trial.early_exit
  BY PassLemma DEF ResultFlaws
<1>2. CASE eval_params.loss_granularity = "segment"
  <2>1. \A i \in Pairs : /\ <<"missing", i>> \notin trial_stats
                         /\ <<"stream_total_loss", i>> \notin trial_stats
                         /\ <<"stream_loss", i>> \notin trial_stats
    BY <1>2, PassLemma
  <2> QED
    BY <1>1, <1>2, <2>1, SegmentPromise DEF Promise
<1>3. CASE eval_params.loss_granularity = "device"
  BY <1>1, <1>3, PassLemma, DevicePromise DEF Promise
<1>4. CASE eval_params.loss_granularity = "direction"
  BY <1>1, <1>4, PassLemma, DirectionPromise DEF Promise
<1>5. eval_params.loss_granularity \in {"segment", "device", "direction"}
  BY EvalParamsAssumption, SameTypes DEF EP!ParamType
<1> QED
  BY <1>2, <1>3, <1>4, <1>5

-----------------------------------------------------------------------------
(* A clean trial passes.                                                   *)

\* What arrived of what was sent: not more, and no less than it may.
Kept(tx, rx) ==
  /\ tx \in Nat /\ rx \in Nat /\ rx <= tx
  /\ tx > 0 => rx > 0
  /\ (100 - MaxLossPct) * tx <= 100 * rx

LEMMA KeptLemma ==
  ASSUME NEW tx, NEW rx, Kept(tx, rx)
  PROVE  ~Lossy(tx, rx)
BY StatsAssumption DEF Kept, Lossy

\* What holds of two counters holds of both together.
LEMMA KeptTogether ==
  ASSUME NEW tx, NEW rx, Kept(tx, rx), NEW tx2, NEW rx2, Kept(tx2, rx2)
  PROVE  Kept(tx + tx2, rx + rx2)
<1>1. 100 - MaxLossPct \in Nat
  BY StatsAssumption
<1>2. \A k \in Nat, m \in Nat, n \in Nat : k * (m + n) = k * m + k * n /\ k * m \in Nat
  OBVIOUS
<1> QED
  BY <1>1, <1>2 DEF Kept

\* What a clean flow sent and received.
LEMMA SingleLemma ==
  ASSUME trial \in Trials, CleanTraffic, NEW f \in Created(trial.params)
  PROVE  LET flow == trial.results[f]
         IN  /\ f \in Flows /\ flow.tx \in Nat /\ flow.rx \in Nat
             /\ flow.tx > 0 /\ flow.tx = Layout[f].planned /\ flow.rx <= flow.tx
             /\ ~flow.stray /\ ~flow.dup
             /\ Layout[f].traffic \in {"measurement", "ddos"}
             /\ Layout[f].traffic = "ddos" => flow.rx = 0
             /\ Layout[f].traffic = "measurement" =>
                  flow.rx > 0 /\ (100 - MaxLossPct) * flow.tx <= 100 * flow.rx
<1> DEFINE flow == trial.results[f]
<1>1. f \in Flows /\ trial.results \in [Flows -> FlowType]
  BY TrialsAssumption DEF TrialType, Created
<1>2. Layout[f].planned \in Nat /\ Layout[f].traffic \in {"measurement", "ddos"}
  BY <1>1, StatsAssumption DEF LayoutType
<1>3. CleanFlow(f)
  BY DEF CleanTraffic
<1>4. flow.tx = Layout[f].planned /\ flow.tx > 0 /\ ~flow.stray /\ ~flow.dup
  BY <1>3 DEF CleanFlow
<1>5. CASE Layout[f].traffic = "ddos"
  BY <1>1, <1>2, <1>3, <1>4, <1>5 DEF CleanFlow
<1>6. CASE Layout[f].traffic = "measurement"
  <2>1. flow.rx \in 1..flow.tx /\ WithinLoss({f})
    BY <1>3, <1>6 DEF CleanFlow
  <2>2. flow.tx \in Nat /\ flow.rx \in Nat /\ flow.rx > 0 /\ flow.rx <= flow.tx
    BY <1>2, <1>4, <2>1
  <2>3. Packets(flow.tx) = flow.tx /\ Packets(flow.rx) = flow.rx
    BY <2>2, PacketsLemma
  <2>4. SentBy({f}, trial.results) = flow.tx /\ ReceivedOf({f}, trial.results) = flow.rx
    BY <1>1, <2>3, CountsLemma
  <2>5. 100 * flow.rx >= (100 - MaxLossPct) * flow.tx
    BY <2>1, <2>4 DEF WithinLoss
  <2>6. 100 - MaxLossPct \in Nat
    BY StatsAssumption
  <2> HIDE DEF flow
  <2>7. \A k \in Nat, m \in Nat, n \in Nat : 100 * n >= k * m => k * m <= 100 * n
    OBVIOUS
  <2>8. (100 - MaxLossPct) * flow.tx <= 100 * flow.rx
    BY <2>2, <2>5, <2>6, <2>7
  <2> QED
    BY <1>1, <1>4, <1>6, <2>2, <2>8 DEF flow
<1> QED
  BY <1>2, <1>5, <1>6

\* The sums of flows of which each is clean.
LEMMA CleanSums ==
  ASSUME trial \in Trials, CleanTraffic, NEW flows \in SUBSET Created(trial.params)
  PROVE  LET tx == SentBy(flows, trial.results)
             rx == ReceivedOf(flows, trial.results)
         IN  /\ tx \in Nat /\ rx \in Nat /\ rx <= tx /\ tx = PlannedFor(flows)
             /\ (\E f \in flows : Layout[f].traffic = "measurement") => rx > 0
             /\ (\A f \in flows : Layout[f].traffic = "measurement") => Kept(tx, rx)
<1> DEFINE sent == [f \in Flows |-> Packets(trial.results[f].tx)]
           received == [f \in Flows |-> Packets(trial.results[f].rx)]
           planned == [f \in Flows |-> Layout[f].planned]
           tx == SentBy(flows, trial.results)
           rx == ReceivedOf(flows, trial.results)
           K == 100 - MaxLossPct
<1>1. flows \in SUBSET Flows /\ IsFiniteSet(flows) /\ K \in Nat
  BY StatsAssumption, FS_Subset DEF Created
<1>2. /\ tx = SumFunctionOnSet(sent, flows)
      /\ rx = SumFunctionOnSet(received, flows)
      /\ PlannedFor(flows) = SumFunctionOnSet(planned, flows)
  BY DEF SentBy, ReceivedOf, PlannedFor
<1>3. ASSUME NEW f \in flows
      PROVE  /\ sent[f] = trial.results[f].tx /\ received[f] = trial.results[f].rx
             /\ planned[f] = Layout[f].planned
  BY <1>1, SingleLemma, PacketsLemma
<1>4. \A f \in flows : /\ sent[f] \in Nat /\ received[f] \in Nat /\ planned[f] = sent[f]
                       /\ received[f] <= sent[f]
                       /\ Layout[f].traffic = "measurement" =>
                            received[f] > 0 /\ K * sent[f] <= 100 * received[f]
  BY <1>3, SingleLemma
<1> HIDE DEF sent, received, planned, tx, rx, K
<1>5. \A n \in Nat : 1 * n = n
  BY ZeroLemma
<1>6. tx \in Nat /\ rx \in Nat /\ PlannedFor(flows) \in Nat
      /\ (\A f \in flows : received[f] <= rx) /\ (flows = {} => tx = 0)
  BY <1>1, <1>2, <1>4, SumOfNaturals
<1>7. rx <= tx
  <2>1. 1 * rx <= 1 * tx
    BY <1>1, <1>2, <1>4, <1>5, SumsCompare
  <2> QED
    BY <1>5, <1>6, <2>1
<1>8. tx = PlannedFor(flows)
  <2>1. \A n \in Nat : n <= n
    BY ZeroLemma
  <2>2. 1 * tx <= 1 * PlannedFor(flows) /\ 1 * PlannedFor(flows) <= 1 * tx
    BY <1>1, <1>2, <1>4, <1>5, <2>1, SumsCompare
  <2> QED
    BY <1>5, <1>6, <2>2
<1>9. ASSUME NEW f \in flows, Layout[f].traffic = "measurement"
      PROVE  rx > 0
  BY <1>4, <1>6, <1>9
<1>10. ASSUME \A f \in flows : Layout[f].traffic = "measurement"
       PROVE  Kept(tx, rx)
  <2>1. K * tx <= 100 * rx
    BY <1>1, <1>2, <1>4, <1>10, SumsCompare
  <2>2. tx > 0 => rx > 0
    <3>1. tx > 0 => flows # {}
      BY <1>6
    <3> QED
      BY <1>9, <1>10, <3>1
  <2> QED
    BY <1>6, <1>7, <2>1, <2>2 DEF Kept, K
<1> QED
  BY <1>6, <1>7, <1>8, <1>9, <1>10 DEF tx, rx

\* A trial that nothing is wrong with, see CleanTrialPasses.
Clean ==
  /\ CleanTraffic /\ ~trial.early_exit
  /\ \A d \in Measured : trial.probes[d].tx > 0 /\ trial.probes[d].rx = trial.probes[d].tx
  /\ eval_params.loss_granularity = "device" =>
       \A f \in Created(trial.params) : Layout[f].traffic = "measurement"

\* A clean flow has no flaw.
LEMMA CleanFlows ==
  ASSUME trial \in Trials, CleanTraffic, NEW f \in Examined(trial.params)
  PROVE  FlowFlaws(Layout[f], trial.results[f]) = {}
<1> DEFINE flow == trial.results[f]
<1>1. f \in Created(trial.params)
  BY DEF Examined
<1>2. /\ flow.tx \in Nat /\ flow.rx \in Nat
      /\ flow.tx > 0 /\ flow.rx <= flow.tx
      /\ ~flow.stray /\ ~flow.dup
      /\ Layout[f].traffic = "ddos" => flow.rx = 0
      /\ Layout[f].traffic = "measurement" => flow.rx > 0 /\ Kept(flow.tx, flow.rx)
  BY <1>1, SingleLemma DEF Kept
<1>3. Layout[f].traffic = "measurement" => ~Lossy(flow.tx, flow.rx)
  BY <1>2, KeptLemma
<1>4. Listed(flow)
  BY <1>2 DEF Listed, Missing
<1> HIDE DEF flow
<1>5. \A flaw \in {"wrong_port", "missing", "duplicate", "stream_negative_loss",
                   "stream_total_loss", "stream_loss", "ddos"} :
        flaw \notin FlowFlaws(Layout[f], flow)
  <2>1. "wrong_port" \notin FlowFlaws(Layout[f], flow)
    BY <1>2 DEF FlowFlaws
  <2>2. "missing" \notin FlowFlaws(Layout[f], flow)
    BY <1>4 DEF FlowFlaws
  <2>3. "duplicate" \notin FlowFlaws(Layout[f], flow)
    BY <1>2 DEF FlowFlaws
  <2>4. "stream_negative_loss" \notin FlowFlaws(Layout[f], flow)
    BY <1>2 DEF FlowFlaws
  <2>5. "stream_total_loss" \notin FlowFlaws(Layout[f], flow)
    BY <1>2 DEF FlowFlaws
  <2>6. "stream_loss" \notin FlowFlaws(Layout[f], flow)
    BY <1>3 DEF FlowFlaws
  <2>7. "ddos" \notin FlowFlaws(Layout[f], flow)
    BY <1>2 DEF FlowFlaws
  <2> QED
    BY <2>1, <2>2, <2>3, <2>4, <2>5, <2>6, <2>7
<1>6. FlowFlaws(Layout[f], flow) = {}
  BY <1>5 DEF FlowFlaws
<1> QED
  BY <1>6 DEF flow

\* Of a device pair of clean flows, only its losses can be flawed, by DDoS
\* traffic, which counts as lost.
LEMMA CleanPairs ==
  ASSUME trial \in Trials, Clean, NEW i \in Pairs
  PROVE  LET flaws == PairFlaws(trial.params, PairTotals(trial.params, trial.results, i))
         IN  /\ flaws \subseteq {"device_loss", "device_latency_loss"}
             /\ eval_params.loss_granularity = "device" => flaws = {}
<1> DEFINE flows == Of(Created(trial.params), i)
           total == PairTotals(trial.params, trial.results, i)
<1>1. flows \in SUBSET Created(trial.params) /\ Latency(flows) \in SUBSET Created(trial.params)
  BY DEF Of, Latency
<1>2. /\ total.tx = SentBy(flows, trial.results) /\ total.rx = ReceivedOf(flows, trial.results)
      /\ total.latency_tx = SentBy(Latency(flows), trial.results)
      /\ total.latency_rx = ReceivedOf(Latency(flows), trial.results)
      /\ total.planned = PlannedFor(flows)
  <2>1. Of(IF trial.params.use_device_stats THEN Created(trial.params)
           ELSE Examined(trial.params), i) = flows
    BY DEF Examined, Of
  <2> HIDE DEF flows
  <2> QED
    BY <2>1 DEF PairTotals, flows
<1>3. \E f \in flows : Layout[f].traffic = "measurement"
  BY DEF Clean, CleanTraffic, Delivering, Of
<1>4. eval_params.loss_granularity = "device" =>
        /\ \A f \in flows : Layout[f].traffic = "measurement"
        /\ \A f \in Latency(flows) : Layout[f].traffic = "measurement"
  BY <1>1 DEF Clean
<1> HIDE DEF flows, total
<1>5. /\ total.tx \in Nat /\ total.rx \in Nat /\ total.rx <= total.tx /\ total.rx > 0
      /\ total.planned = total.tx
  BY <1>1, <1>2, <1>3, CleanSums DEF Clean
<1>6. eval_params.loss_granularity = "device" =>
        ~Lossy(total.tx, total.rx) /\ ~Lossy(total.latency_tx, total.latency_rx)
  BY <1>1, <1>2, <1>4, CleanSums, KeptLemma DEF Clean
<1>7. /\ ~(100 * total.tx > (100 + RateTolerance) * total.planned)
      /\ ~(100 * total.tx < (100 - RateTolerance) * total.planned)
  <2>1. \A n \in Nat, t \in 0..99 : ~(100 * n > (100 + t) * n) /\ ~(100 * n < (100 - t) * n)
    BY ToleranceLemma
  <2> QED
    BY <1>5, <2>1, StatsAssumption
<1>8. \A flaw \in PairFlaws(trial.params, total) : flaw \in {"device_loss", "device_latency_loss"}
  <2>1. "no_packets" \notin PairFlaws(trial.params, total)
    BY <1>5 DEF PairFlaws
  <2>2. "device_negative_loss" \notin PairFlaws(trial.params, total)
    BY <1>5 DEF PairFlaws
  <2>3. "off_rate" \notin PairFlaws(trial.params, total)
    BY <1>7 DEF PairFlaws
  <2>4. \A flaw \in PairFlaws(trial.params, total) :
          flaw \in {"no_packets", "device_negative_loss", "device_loss", "device_latency_loss",
                    "off_rate"}
    BY DEF PairFlaws
  <2> QED
    BY <2>1, <2>2, <2>3, <2>4
<1>9. eval_params.loss_granularity = "device" =>
        \A flaw \in PairFlaws(trial.params, total) : flaw \notin {"device_loss", "device_latency_loss"}
  BY <1>6 DEF PairFlaws
<1>10. /\ PairFlaws(trial.params, total) \subseteq {"device_loss", "device_latency_loss"}
       /\ eval_params.loss_granularity = "device" => PairFlaws(trial.params, total) = {}
  BY <1>8, <1>9
<1> QED
  BY <1>10 DEF total

\* A direction of clean flows has no flaw, with what ptp-latency adds to it, and
\* though it counts latency flows twice.
LEMMA CleanDirections ==
  ASSUME trial \in Trials, Clean, NEW d \in {"->", "<-"}
  PROVE  /\ DirectionFlaws(WithProbes(trial.params, trial.results, trial.probes, d)) = {}
         /\ DirectionTotals(trial.params, trial.results, d).tx \in Nat
<1> DEFINE along == {f \in Created(trial.params) : Path[Layout[f].pair] = d}
           flows == {f \in along \cap Examined(trial.params) : Layout[f].traffic = "measurement"}
           total == DirectionTotals(trial.params, trial.results, d)
           counted == WithProbes(trial.params, trial.results, trial.probes, d)
<1>1. Kept(total.tx, total.rx)
  <2>1. CASE trial.params.use_device_stats
    <3>1. trial.params.generator = "trex-txrx"
      BY <2>1, TrialsAssumption DEF TrialType
    <3>2. along \in SUBSET Created(trial.params)
          /\ \A f \in along : Layout[f].traffic = "measurement"
      BY <3>1, StatsAssumption DEF Created, LayoutType
    <3>3. /\ total.tx = SentBy(along, trial.results)
          /\ total.rx = ReceivedOf(along, trial.results)
      BY <2>1 DEF DirectionTotals
    <3> HIDE DEF along, total
    <3> QED
      BY <3>2, <3>3, CleanSums DEF Clean
  <2>2. CASE ~trial.params.use_device_stats
    <3>1. /\ flows \in SUBSET Created(trial.params) /\ Latency(flows) \in SUBSET Created(trial.params)
          /\ \A f \in flows : Layout[f].traffic = "measurement"
          /\ \A f \in Latency(flows) : Layout[f].traffic = "measurement"
      BY DEF Latency
    <3>2. /\ total.tx = SentBy(flows, trial.results) + SentBy(Latency(flows), trial.results)
          /\ total.rx = ReceivedOf(flows, trial.results) + ReceivedOf(Latency(flows), trial.results)
      BY <2>2 DEF DirectionTotals
    <3> HIDE DEF flows, total
    <3> QED
      BY <3>1, <3>2, CleanSums, KeptTogether DEF Clean
  <2> QED
    BY <2>1, <2>2
<1> HIDE DEF total
<1>2. Kept(counted.tx, counted.rx)
  <2>1. CASE d \in Measured
    <3>1. /\ trial.probes[d].tx \in Nat /\ trial.probes[d].tx > 0
          /\ trial.probes[d].rx = trial.probes[d].tx
      BY <2>1, TrialsAssumption DEF TrialType, Measured, Clean
    <3>2. Kept(trial.probes[d].tx, trial.probes[d].rx)
      <4>1. \A n \in Nat : (100 - MaxLossPct) * n <= 100 * n
        BY StatsAssumption, ShareLemma
      <4> QED
        BY <3>1, <4>1 DEF Kept
    <3>3. /\ counted.tx = total.tx + trial.probes[d].tx
          /\ counted.rx = total.rx + trial.probes[d].rx
      BY <2>1 DEF WithProbes, Measured, total
    <3> HIDE DEF counted
    <3> QED
      BY <1>1, <3>2, <3>3, KeptTogether
  <2>2. CASE d \notin Measured
    <3>1. counted = total
      BY <2>2 DEF WithProbes, Measured, total
    <3> QED
      BY <1>1, <3>1
  <2> QED
    BY <2>1, <2>2
<1> HIDE DEF counted
<1>3. DirectionFlaws(counted) = {}
  <2>1. ~Lossy(counted.tx, counted.rx)
    BY <1>2, KeptLemma
  <2>2. "negative_loss" \notin DirectionFlaws(counted)
    BY <1>2 DEF Kept, DirectionFlaws
  <2>3. "total_loss" \notin DirectionFlaws(counted)
    BY <1>2 DEF Kept, DirectionFlaws
  <2>4. "loss" \notin DirectionFlaws(counted)
    BY <2>1 DEF DirectionFlaws
  <2>5. \A flaw \in DirectionFlaws(counted) : flaw \in {"negative_loss", "total_loss", "loss"}
    BY DEF DirectionFlaws
  <2> QED
    BY <2>2, <2>3, <2>4, <2>5
<1>4. total.tx \in Nat
  BY <1>1 DEF Kept
<1> QED
  BY <1>3, <1>4 DEF total, counted

\* So a clean trial has only flaws that no granularity but "device" looks at,
LEMMA CleanFlawless ==
  ASSUME trial \in Trials, eval_params \in EvalParams, Clean,
         NEW flaw \in ResultFlaws(trial.probes)
  PROVE  flaw[1] \in {"device_loss", "device_latency_loss"}
         /\ eval_params.loss_granularity # "device"
<1> DEFINE ofFlows == {FlowFlaws(Layout[f], trial.results[f]) \X {Layout[f].pair} :
                         f \in Examined(trial.params)}
           ofPairs == {PairFlaws(trial.params, PairTotals(trial.params, trial.results, i)) \X {i} :
                         i \in Pairs}
           ofDirections == {DirectionFlaws(WithProbes(trial.params, trial.results, trial.probes, d)) \X {d} :
                              d \in {"->", "<-"}}
<1>1. flaw \in (UNION ofFlows) \cup (UNION ofPairs) \cup (UNION ofDirections)
  BY DEF ResultFlaws, TrafficFlaws, Clean
<1>2. flaw \notin UNION ofFlows
  <2>1. \A s \in ofFlows : s = {}
    BY CleanFlows DEF Clean
  <2> HIDE DEF ofFlows
  <2> QED
    BY <2>1
<1>3. flaw \notin UNION ofDirections
  <2>1. \A s \in ofDirections : s = {}
    BY CleanDirections
  <2> HIDE DEF ofDirections
  <2> QED
    BY <2>1
<1>4. CASE flaw \in UNION ofPairs
  <2>1. PICK i \in Pairs :
          flaw \in PairFlaws(trial.params, PairTotals(trial.params, trial.results, i)) \X {i}
    BY <1>4
  <2>2. flaw[1] \in PairFlaws(trial.params, PairTotals(trial.params, trial.results, i))
    BY <2>1
  <2> QED
    BY <2>2, CleanPairs
<1> HIDE DEF ofFlows, ofPairs, ofDirections
<1> QED
  BY <1>1, <1>2, <1>3, <1>4

\* and passes.
LEMMA CleanVerdict ==
  ASSUME trial \in Trials, eval_params \in EvalParams, Clean,
         trial_stats = ResultFlaws(trial.probes)
  PROVE  Evaluation!Verdict = "pass"
<1>1. eval_params \in EP!ParamType /\ Measured \in SUBSET EP!Directions
  BY TrialsAssumption, EvalParamsAssumption, SameTypes DEF TrialType, Measured, EP!Directions
<1>2. /\ ParamsOfTrial \in EP!ParamType
      /\ ParamsOfTrial.latency_directions = Measured
      /\ ParamsOfTrial.loss_granularity = eval_params.loss_granularity
  BY <1>1 DEF ParamsOfTrial, EP!ParamType
<1>3. \A d \in ParamsOfTrial.latency_directions : ProbeLosses[d] = 0
  <2>1. ASSUME NEW d \in Measured
        PROVE  ProbeLosses[d] = 0
    <3>1. /\ trial.probes[d].tx \in Nat /\ trial.probes[d].tx > 0
          /\ trial.probes[d].rx = trial.probes[d].tx
      BY TrialsAssumption DEF TrialType, Measured, Clean
    <3> QED
      BY <3>1, NoLossLemma DEF ProbeLosses, ProbeLoss
  <2> QED
    BY <1>2, <2>1
<1>4. \A flaw \in trial_stats : flaw[1] \in EP!NotTested
  <2> SUFFICES ASSUME NEW flaw \in trial_stats
               PROVE  flaw[1] \in EP!NotTested
    OBVIOUS
  <2>1. flaw[1] \in {"device_loss", "device_latency_loss"}
        /\ eval_params.loss_granularity # "device"
    BY CleanFlawless
  <2>2. EP!Granularity("direction") \/ EP!Granularity("segment")
    BY <1>2, <2>1 DEF EP!Granularity, EP!ParamType
  <2>3. "device_loss" \in EP!NotTested /\ "device_latency_loss" \in EP!NotTested
    BY <2>2, EP!NotTestedLemma, Assumed
  <2> QED
    BY <2>1, <2>3
<1>5. /\ ~EP!LossRatioMissing /\ ~EP!Critical /\ EP!RequirementsMet
      /\ ~EP!Has("force_quit", "trial") /\ ~EP!Has("early_exit", "trial")
      /\ ~EP!Has("timeout", "trial") /\ ~EP!Has("off_runtime", "trial")
  <2>1. EP!Flawless
    BY <1>3, <1>4 DEF EP!Flawless
  <2> QED
    BY <1>2, <2>1, FlawlessVerdict
<1>6. CASE EP!Warmup
  BY <1>5, <1>6, SameVerdict DEF EP!Verdict, EP!TrialVerdict
<1>7. CASE ~EP!Warmup
  <2>1. EP!Verdict = "pass"
    BY <1>2, <1>5, <1>7, PassingVerdict
  <2> QED
    BY <2>1, SameVerdict
<1> QED
  BY <1>6, <1>7

-----------------------------------------------------------------------------
(* What a verdict says of the traffic.                                     *)

\* What is judged is what was counted, and the probes' samples are there as
\* soon as their line has been read.
JudgeInv ==
  /\ verdict = "returned" =>
       trial.params.generator # "trex-astf" /\ trial_stats = ResultFlaws(trial.probes)
  /\ handled["latency_err"] > 0 => latency
  /\ PassMeansDelivered
  /\ CleanTrialPasses

\* The trial and its parameters decide all of this.
LEMMA SamePromise ==
  ASSUME UNCHANGED <<trial, eval_params>>
  PROVE  /\ Promise' = Promise /\ Clean' = Clean
         /\ ResultFlaws(trial.probes)' = ResultFlaws(trial.probes)
<1>1. /\ Delivering' = Delivering /\ Measured' = Measured
      /\ \A flows : WithinLoss(flows)' = WithinLoss(flows)
  BY DEF Delivering, Measured, WithinLoss
<1>2. \A f : CleanFlow(f)' = CleanFlow(f)
  BY <1>1 DEF CleanFlow
<1>3. CleanTraffic' = CleanTraffic
  BY <1>1, <1>2 DEF CleanTraffic
<1>4. Promise' = Promise
  BY <1>1 DEF Promise
<1>5. Clean' = Clean
  BY <1>1, <1>3 DEF Clean
<1> QED
  BY <1>4, <1>5 DEF ResultFlaws

\* The two properties in these terms.
LEMMA PromisesLemma ==
  /\ PassMeansDelivered <=> (verdict = "pass" /\ eval_params.trial_mode # "warmup" => Promise)
  /\ CleanTrialPasses <=>
       (verdict \notin {"none", "returned"} /\ failed = {}
          /\ trial.params.generator # "trex-astf" /\ Clean => verdict = "pass")
BY DEF PassMeansDelivered, Promise, CleanTrialPasses, Clean

\* Until run_trial() returns, and after the verdict, nothing is judged.
LEMMA UnjudgedLemma ==
  ASSUME JudgeInv, UNCHANGED <<trial, eval_params, trial_stats, verdict>>,
         failed' = {} => failed = {},
         handled'["latency_err"] > 0 => latency'
  PROVE  JudgeInv'
<1>1. /\ Promise' = Promise /\ Clean' = Clean
      /\ ResultFlaws(trial.probes)' = ResultFlaws(trial.probes)
  BY SamePromise
<1>2. PassMeansDelivered'
  BY <1>1, PromisesLemma DEF JudgeInv, PassMeansDelivered, Promise
<1>3. CleanTrialPasses'
  BY <1>1, PromisesLemma DEF JudgeInv, CleanTrialPasses, Clean
<1> QED
  BY <1>1, <1>2, <1>3 DEF JudgeInv

\* The only line of ptp-latency's stderr is its samples.
LEMMA SamplesLemma == Lines("latency_err") = 1 /\ Script("latency_err")[1] = "samples"
<1>1. Script("latency_err") = <<"samples">>
  BY DEF Script
<1> QED
  BY <1>1 DEF Lines

\* When every program got to its end, the samples of ptp-latency are read.
LEMMA SampledLemma ==
  ASSUME ResultInv, JudgeInv, Waited, failed = {}, Measured # {}
  PROVE  latency
<1>1. "latency_err" \in Read /\ "latency_err" \in Streams /\ "ptp-latency" \in Running
  BY DEF Read, Streams, Running, ProgramOf, Programs
<1>2. handled["latency_err"] = written["latency_err"]
  BY <1>1 DEF Waited, ResultInv, ToldIsOver
<1>3. Complete("ptp-latency")
  BY <1>1 DEF Waited, ResultInv, EndedIsComplete
<1>4. written["latency_err"] = 1
  BY <1>1, <1>3, SamplesLemma DEF Complete, ProgramOf
<1> QED
  BY <1>2, <1>4 DEF JudgeInv

\* A clean trial returns without an error.
LEMMA ReturnLemma ==
  ASSUME ResultInv, JudgeInv, Return
  PROVE  JudgeInv'
<1>1. /\ UNCHANGED <<trial, eval_params>> /\ failed' = failed
      /\ handled' = handled /\ latency' = latency /\ stats' = stats
  BY DEF Return, programVars, readerVars
<1>2. /\ Promise' = Promise /\ Clean' = Clean
      /\ ResultFlaws(trial.probes)' = ResultFlaws(trial.probes)
  BY <1>1, SamePromise
<1>3. /\ verdict' \in {"exception", "error", "astf", "returned"}
      /\ verdict' \in {"exception", "error"} => FixupRaises \/ Failed
      /\ verdict' = "astf" => trial.params.generator = "trex-astf"
      /\ verdict' = "returned" => ~Failed /\ trial.params.generator # "trex-astf"
  BY DEF Return
<1>4. verdict' = "returned" => trial_stats' = ResultFlaws(trial.probes)
  BY <1>3, WaitedLemma DEF Return
<1>5. ASSUME failed = {}, Clean, FixupRaises
      PROVE  FALSE
  <2>1. latency
    BY <1>5, SampledLemma DEF FixupRaises, Return
  <2>2. PICK d \in Measured : SentIn(d) + trial.probes[d].tx = 0
    BY <1>5, <2>1 DEF FixupRaises
  <2>3. trial \in Trials /\ d \in {"->", "<-"}
    BY TrialsAssumption DEF ResultInv, TypeOK, TrialType, Measured
  <2>4. trial.probes[d].tx \in Nat /\ trial.probes[d].tx > 0
    BY <1>5, <2>3, TrialsAssumption DEF TrialType, Measured, Clean
  <2>5. DirectionTotals(trial.params, trial.results, d).tx \in Nat
    BY <1>5, <2>3, CleanDirections
  <2> DEFINE sent == DirectionTotals(trial.params, trial.results, d).tx
  <2> HIDE DEF sent
  <2>6. sent \in Nat
    BY <2>5 DEF sent
  <2>7. SentIn(d) = sent \/ SentIn(d) = 0
    BY DEF SentIn, sent
  <2> QED
    BY <2>2, <2>4, <2>6, <2>7
<1>6. PassMeansDelivered'
  BY <1>3 DEF PassMeansDelivered
<1>7. CleanTrialPasses'
  <2> SUFFICES ASSUME verdict' \notin {"none", "returned"}, failed = {},
                      trial.params.generator # "trex-astf", Clean
               PROVE  FALSE
    BY <1>1, <1>2 DEF CleanTrialPasses, Clean
  <2>1. verdict' \in {"exception", "error"}
    BY <1>3
  <2> QED
    BY <1>3, <1>5, <2>1 DEF Failed
<1> QED
  BY <1>1, <1>2, <1>3, <1>4, <1>6, <1>7 DEF JudgeInv

\* The verdict is the one of the flaws.
LEMMA JudgeLemma ==
  ASSUME ResultInv, JudgeInv, Judge
  PROVE  JudgeInv'
<1>1. /\ UNCHANGED <<trial, eval_params>> /\ failed' = failed
      /\ handled' = handled /\ latency' = latency
      /\ verdict' = Evaluation!Verdict /\ trial_stats = ResultFlaws(trial.probes)
  BY DEF Judge, JudgeInv, programVars, readerVars
<1>2. trial \in Trials /\ eval_params \in EvalParams
  BY DEF ResultInv, TypeOK
<1>3. Promise' = Promise /\ Clean' = Clean
  BY <1>1, SamePromise
<1>4. PassMeansDelivered'
  <2> SUFFICES ASSUME verdict' = "pass", eval_params.trial_mode # "warmup"
               PROVE  Promise'
    BY <1>1 DEF PassMeansDelivered, Promise
  <2> QED
    BY <1>1, <1>2, <1>3, PromiseKept
<1>5. CleanTrialPasses'
  <2> SUFFICES ASSUME Clean'
               PROVE  verdict' = "pass"
    BY DEF CleanTrialPasses, Clean
  <2> QED
    BY <1>1, <1>2, <1>3, CleanVerdict
<1>6. /\ trial.params.generator # "trex-astf" /\ trial_stats' = trial_stats
      /\ ResultFlaws(trial.probes)' = ResultFlaws(trial.probes)
  BY <1>1, SamePromise DEF Judge, JudgeInv
<1> QED
  BY <1>1, <1>4, <1>5, <1>6 DEF JudgeInv

LEMMA JudgeStep == ResultInv /\ JudgeInv /\ [Next]_vars => JudgeInv'
<1> SUFFICES ASSUME ResultInv, JudgeInv, [Next]_vars PROVE JudgeInv'
  OBVIOUS
<1>1. ASSUME NEW s \in Streams, Write(s) \/ End(s)
      PROVE  JudgeInv'
  <2>1. /\ UNCHANGED <<trial, eval_params, trial_stats, verdict>>
        /\ failed' = failed /\ handled' = handled /\ latency' = latency
    BY <1>1 DEF Write, End, programVars, readerVars
  <2> QED
    BY <2>1, UnjudgedLemma DEF JudgeInv
<1>2. ASSUME NEW s \in Streams, HandleLine(s)
      PROVE  JudgeInv'
  <2> DEFINE line == Script(s)[handled[s] + 1]
  <2>1. /\ UNCHANGED <<trial, eval_params, trial_stats, verdict>>
        /\ failed' = failed /\ handled' = [handled EXCEPT ![s] = @ + 1]
        /\ latency' = (latency \/ line = "samples")
    BY <1>2 DEF HandleLine, programVars
  <2>2. /\ handled \in [Streams -> Nat] /\ handled[s] < written[s] /\ written[s] <= Lines(s)
        /\ written \in [Streams -> Nat]
    BY <1>2 DEF HandleLine, HasLine, ResultInv, TypeOK
  <2>3. ASSUME handled'["latency_err"] > 0
        PROVE  latency'
    <3>1. CASE s = "latency_err"
      <4>1. handled[s] = 0
        BY <2>2, <3>1, SamplesLemma
      <4>2. line = "samples"
        BY <3>1, <4>1, SamplesLemma
      <4> HIDE DEF line
      <4> QED
        BY <2>1, <4>2
    <3>2. CASE s # "latency_err"
      <4>1. handled'["latency_err"] = handled["latency_err"]
        BY <2>1, <2>2, <3>2 DEF Streams
      <4>2. latency
        BY <2>3, <4>1 DEF JudgeInv
      <4> QED
        BY <2>1, <4>2
    <3> QED
      BY <3>1, <3>2
  <2> QED
    BY <2>1, <2>3, UnjudgedLemma
<1>3. ASSUME NEW p \in Programs, Exit(p)
      PROVE  JudgeInv'
  <2>1. /\ UNCHANGED <<trial, eval_params, trial_stats, verdict>>
        /\ handled' = handled /\ latency' = latency
        /\ failed' = {} => failed = {}
    BY <1>3 DEF Exit, readerVars
  <2> QED
    BY <2>1, UnjudgedLemma DEF JudgeInv
<1>4. CASE Return
  BY <1>4, ReturnLemma
<1>5. CASE Judge
  BY <1>5, JudgeLemma
<1>6. CASE UNCHANGED vars
  BY <1>6, UnjudgedLemma DEF JudgeInv, vars, programVars, readerVars
<1> QED
  BY <1>1, <1>2, <1>3, <1>4, <1>5, <1>6 DEF Next

LEMMA JudgeInvariance == Spec => []JudgeInv
<1>1. Init => JudgeInv
  BY DEF Init, Streams, JudgeInv, PassMeansDelivered, CleanTrialPasses
<1> QED
  BY <1>1, Invariance, JudgeStep, PTL DEF Spec

\* A trial that passes delivered what --max-loss-pct asks for, at the
\* granularity it is judged at, for any layout of flows over device pairs and
\* any counters (handle_trial_process_stderr(), 1934-2412, and
\* evaluate_trial(), 2711-3103).
THEOREM PassesDeliver == Spec => []PassMeansDelivered
<1>1. JudgeInv => PassMeansDelivered
  BY DEF JudgeInv
<1> QED
  BY <1>1, JudgeInvariance, PTL

\* A trial in which every flow arrived passes, whichever flows share a device
\* pair or a direction, and whichever reader was slow (the same functions, and
\* run_trial(), 1402-1478).
THEOREM CleanTrialsPass == Spec => []CleanTrialPasses
<1>1. JudgeInv => CleanTrialPasses
  BY DEF JudgeInv
<1> QED
  BY <1>1, JudgeInvariance, PTL
==============================================================================
