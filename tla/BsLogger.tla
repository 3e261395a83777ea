-------------------------------- MODULE BsLogger --------------------------------
(***************************************************************************)
(* The log of binary-search.py.  Every thread appends its messages to a    *)
(* queue; one worker thread prints them and collects them for the file that*)
(* main() writes at its end, after it told the worker to stop and joined   *)
(* it.  An error ends the worker first, where it is found: before the try  *)
(* block of the search, or in it, so that its finally clause runs later.   *)
(***************************************************************************)
EXTENDS Naturals, Sequences

CONSTANTS
  Readers,     \* threads that log the output of the programs of a trial
  MaxSent      \* bound of the model: messages logged in all

ASSUME LoggerAssumption == MaxSent \in Nat /\ "main" \notin Readers

VARIABLES
  bs_logger_queue,
  log,             \* trial_results['log']
  sent,            \* all messages that were ever logged, in order
  worker, entry,   \* where bs_logger_worker is, the message it holds
  thread_exit,     \* bs_logger_exit is set
  main, in_try,    \* where main() is
  reading,         \* the readers that run
  in_error,        \* main() found an error and ended the worker
  written          \* the log as it is in binary-search.json, <<>> if it is not

workerVars == <<worker, entry>>
mainVars == <<main, in_try, in_error, written>>
logVars == <<bs_logger_queue, log, sent, workerVars, thread_exit, mainVars, reading>>

NoEntry == <<>>

LogInit ==
  /\ bs_logger_queue = <<>> /\ log = <<>> /\ sent = <<>>
  /\ worker = "check" /\ entry = NoEntry
  /\ thread_exit = FALSE
  /\ main = "setup" /\ in_try = FALSE /\ in_error = FALSE
  /\ reading = {}
  /\ written = <<>>

-------------------------------------------------------------------------------
(* bs_logger(), called by any thread.                                      *)

bs_logger(thread) ==
  /\ Len(sent) < MaxSent
  /\ LET msg == <<thread, Len(sent)>>
     IN  /\ bs_logger_queue' = Append(bs_logger_queue, msg)
         /\ sent' = Append(sent, msg)
  /\ UNCHANGED <<log, workerVars, thread_exit, mainVars, reading>>

MainLogs == main \in {"setup", "search", "trial", "finally"} /\ bs_logger("main")

ReaderLogs(r) == r \in reading /\ bs_logger(r)

-------------------------------------------------------------------------------
(* bs_logger_worker().                                                     *)

\* Mistake: what is still queued is left there.
LoopUntilExit ==
  /\ worker = "check"
  /\ worker' = IF ~thread_exit THEN "pop" ELSE "ended"
  /\ UNCHANGED <<bs_logger_queue, log, sent, entry, thread_exit, mainVars, reading>>

\* The loop goes on until it is told to stop and there is nothing left.
LoopAgain ==
  /\ worker = "check"
  /\ worker' = IF ~thread_exit \/ bs_logger_queue # <<>> THEN "pop" ELSE "ended"
  /\ UNCHANGED <<bs_logger_queue, log, sent, entry, thread_exit, mainVars, reading>>

\* Mistake: pop() instead of popleft().
PopRight ==
  /\ worker = "pop"
  /\ bs_logger_queue # <<>>
  /\ entry' = <<bs_logger_queue[Len(bs_logger_queue)]>>
  /\ bs_logger_queue' = SubSeq(bs_logger_queue, 1, Len(bs_logger_queue) - 1)
  /\ worker' = "print"
  /\ UNCHANGED <<log, sent, thread_exit, mainVars, reading>>

PopLeft ==
  /\ worker = "pop"
  /\ bs_logger_queue # <<>>
  /\ entry' = <<Head(bs_logger_queue)>>
  /\ bs_logger_queue' = Tail(bs_logger_queue)
  /\ worker' = "print"
  /\ UNCHANGED <<log, sent, thread_exit, mainVars, reading>>

\* IndexError: nothing to print.
NothingQueued ==
  /\ worker = "pop"
  /\ bs_logger_queue = <<>>
  /\ worker' = "check"
  /\ UNCHANGED <<bs_logger_queue, log, sent, entry, thread_exit, mainVars, reading>>

PrintEntry ==
  /\ worker = "print"
  /\ log' = log \o entry
  /\ entry' = NoEntry
  /\ worker' = "check"
  /\ UNCHANGED <<bs_logger_queue, sent, thread_exit, mainVars, reading>>

WorkerStep == LoopAgain \/ PopLeft \/ NothingQueued \/ PrintEntry

-------------------------------------------------------------------------------
(* main().                                                                 *)

MainMoves(from, to) ==
  /\ main = from /\ main' = to
  /\ UNCHANGED <<bs_logger_queue, log, sent, workerVars, written>>

EnterTry ==
  /\ MainMoves("setup", "search")
  /\ in_try' = TRUE
  /\ UNCHANGED <<in_error, thread_exit, reading>>

\* run_trial() starts the readers and joins them, unless it gives up on the
\* children: then it returns with an error and leaves them running.
StartTrial ==
  /\ MainMoves("search", "trial")
  /\ reading = {}
  /\ reading' = Readers
  /\ UNCHANGED <<in_try, in_error, thread_exit>>

ReaderEnds(r) ==
  /\ r \in reading
  /\ reading' = reading \ {r}
  /\ UNCHANGED <<bs_logger_queue, log, sent, workerVars, thread_exit, mainVars>>

EndTrial ==
  /\ MainMoves("trial", "search")
  /\ reading = {}
  /\ UNCHANGED <<in_try, in_error, thread_exit, reading>>

\* Mistake: the worker is joined without being told to stop.
CleanupWithoutNotice(from, to) ==
  /\ MainMoves(from, to)
  /\ UNCHANGED <<in_try, reading, thread_exit>>

\* bs_logger_cleanup(): the worker is told to stop, and joined.
CleanupStarts(from, to) ==
  /\ MainMoves(from, to)
  /\ thread_exit' = TRUE
  /\ UNCHANGED <<in_try, reading>>

SetupError == CleanupStarts("setup", "cleanup") /\ in_error' = TRUE

ErrorInTrial ==
  /\ \E from \in {"search", "trial"} : CleanupStarts(from, "cleanup")
  /\ in_error' = TRUE

CleanupReturns ==
  /\ MainMoves("cleanup", IF in_try THEN "finally" ELSE "ended")
  /\ worker = "ended"
  /\ UNCHANGED <<in_try, in_error, thread_exit, reading>>

\* The search ends with a result, without one, or with an exception.
LeaveTry ==
  /\ MainMoves("search", "finally")
  /\ UNCHANGED <<in_try, in_error, thread_exit, reading>>

\* "drain the log prior to writing out the file"
Drain == CleanupStarts("finally", "drain") /\ UNCHANGED in_error

Write ==
  /\ main = "drain" /\ worker = "ended"
  /\ main' = "ended"
  /\ written' = log
  /\ UNCHANGED <<bs_logger_queue, log, sent, workerVars, thread_exit, in_try, in_error,
                 reading>>

\* The file cannot be opened; the message that would say so names a variable
\* that does not exist, which raises an exception.
WriteFails ==
  /\ MainMoves("drain", "ended")
  /\ worker = "ended"
  /\ UNCHANGED <<in_try, in_error, thread_exit, reading>>

MainStep ==
  \/ EnterTry \/ StartTrial \/ EndTrial
  \/ SetupError \/ ErrorInTrial \/ CleanupReturns
  \/ LeaveTry \/ Drain \/ Write \/ WriteFails

LogNext ==
  \/ MainLogs \/ MainStep \/ WorkerStep
  \/ \E r \in Readers : ReaderLogs(r) \/ ReaderEnds(r)

LogSpec == LogInit /\ [][LogNext]_logVars

\* Threads are scheduled; join() returns when the worker has ended.
FairLogSpec == LogSpec /\ WF_logVars(WorkerStep) /\ WF_logVars(CleanupReturns) /\ WF_logVars(Write \/ WriteFails)

-------------------------------------------------------------------------------
(* Properties.                                                             *)

Threads == Readers \cup {"main"}
Messages == Threads \X Nat

LogTypeOK ==
  /\ bs_logger_queue \in Seq(Messages) /\ log \in Seq(Messages) /\ sent \in Seq(Messages)
  /\ worker \in {"check", "pop", "print", "ended"}
  /\ entry \in Seq(Messages)
  /\ main \in {"setup", "search", "trial", "cleanup", "finally", "drain", "ended"}
  /\ thread_exit \in BOOLEAN /\ in_try \in BOOLEAN /\ in_error \in BOOLEAN
  /\ reading \subseteq Readers
  /\ written \in Seq(Messages)

\* A message that was logged is in exactly one of the log, the worker's hand
\* and the queue, and the log keeps the order in which messages of different
\* threads were logged.
NothingReordered == log \o entry \o bs_logger_queue = sent

\* The file of a search that was not ended by an error holds every message,
\* the last ones included: a worker that is told to stop empties the queue
\* first, and nobody logs any more, however the threads interleave.
FileIsComplete == written # <<>> /\ ~in_error => written = sent

\* A thread that joins the worker goes on, whatever is still queued.
JoinReturns == main \in {"cleanup", "drain"} ~> main \in {"finally", "ended"}
===============================================================================
