------------------------------- MODULE TrialSync -------------------------------
(***************************************************************************)
(* The part of run_trial() of binary-search.py that starts the traffic     *)
(* generator and ptp-latency, lets both begin to measure at the same time, *)
(* and waits for them: three processes and two named semaphores, which the *)
(* parent creates only after it has started the children.  A child may fail*)
(* or be killed at any time; the generator may also hang while it connects.*)
(***************************************************************************)
EXTENDS Integers, FiniteSets

CONSTANTS
  MaxPolls,   \* acquire(timeout = 2) gives up this often before the deadline
  ExitCodes   \* of a child that fails: negative when a signal killed it

ASSUME SyncAssumption ==
  /\ MaxPolls \in Nat
  /\ ExitCodes \subseteq Int \ {0}

Children == {"tg", "latency"}
Names == {"trafficgen_child_launch", "trafficgen_child_go"}

VARIABLES
  parent,             \* where run_trial() is
  launches_remaining, polls,
  released,           \* calls of child_go_sem.release()
  retval,             \* stats['retval']
  child,              \* where each child is
  rc,                 \* the exit code of each child
  names,              \* the semaphores that exist by name
  launch_sem, go_sem, \* their values
  ready, told         \* the children that posted the one, and got the other

parentVars == <<parent, launches_remaining, polls, released, retval>>
childVars == <<child, rc, ready, told>>
semVars == <<names, launch_sem, go_sem>>
vars == <<parentVars, childVars, semVars>>

Init ==
  /\ parent = "popen_tg"
  /\ launches_remaining = 2 /\ polls = 0 /\ released = 0 /\ retval = 0
  /\ child = [c \in Children |-> "none"]
  /\ rc = [c \in Children |-> 0]
  /\ names = {} /\ launch_sem = 0 /\ go_sem = 0
  /\ ready = {} /\ told = {}

-------------------------------------------------------------------------------
(* The parent.                                                             *)

ParentMoves(from, to) == parent = from /\ parent' = to

Popen(c) == child' = [child EXCEPT ![c] = "starting"]

PopenTg ==
  /\ ParentMoves("popen_tg", "popen_latency")
  /\ Popen("tg")
  /\ UNCHANGED <<launches_remaining, polls, released, retval, rc, ready, told, semVars>>

PopenLatency ==
  /\ ParentMoves("popen_latency", "create_launch")
  /\ Popen("latency")
  /\ UNCHANGED <<launches_remaining, polls, released, retval, rc, ready, told, semVars>>

CreateSemaphore(name) ==
  /\ \/ ParentMoves("create_launch", "create_go") /\ name = "trafficgen_child_launch"
     \/ ParentMoves("create_go", "launch") /\ name = "trafficgen_child_go"
  /\ names' = names \cup {name}
  /\ UNCHANGED <<launches_remaining, polls, released, retval, launch_sem, go_sem, childVars>>

AcquireLaunch ==
  /\ parent = "launch" /\ launches_remaining > 0
  /\ launch_sem > 0
  /\ launch_sem' = launch_sem - 1
  /\ launches_remaining' = launches_remaining - 1
  /\ UNCHANGED <<parent, polls, released, retval, names, go_sem, childVars>>

\* Mistake: nobody is terminated.
TerminateNobody(victims) == UNCHANGED <<child, rc>>

\* terminate() kills the generator; ptp-latency catches the signal, which
\* ends its loops but neither its sem_wait() nor its way there.
Terminate(victims) ==
  LET killed == {c \in victims \cap {"tg"} : child[c] # "exited"}
  IN  /\ child' = [c \in Children |-> IF c \in killed THEN "exited" ELSE child[c]]
      /\ rc' = [c \in Children |-> IF c \in killed THEN -15 ELSE rc[c]]

\* Mistake: the semaphores are left behind.
AbortWithoutUnlink(victims) ==
  /\ Terminate(victims)
  /\ parent' = "returned"
  /\ retval' = 1
  /\ UNCHANGED <<launches_remaining, polls, released, semVars, ready, told>>

\* Both semaphores are unlinked and the trial is reported as an error.
Abort(victims) ==
  /\ Terminate(victims)
  /\ parent' = "returned"
  /\ retval' = 1
  /\ names' = {}
  /\ UNCHANGED <<launches_remaining, polls, released, launch_sem, go_sem, ready, told>>

\* acquire() raised BusyError.
Busy == parent = "launch" /\ launches_remaining > 0 /\ launch_sem = 0

LatencyLost == Busy /\ child["latency"] = "exited" /\ Abort({"tg"})

GeneratorLost ==
  /\ Busy /\ child["latency"] # "exited" /\ child["tg"] = "exited"
  /\ Abort({"latency"})

AllAlive == \A c \in Children : child[c] # "exited"

DeadlinePassed == Busy /\ AllAlive /\ polls >= MaxPolls /\ Abort(Children)

PollAgain ==
  /\ Busy /\ AllAlive /\ polls < MaxPolls
  /\ polls' = polls + 1
  /\ UNCHANGED <<parent, launches_remaining, released, retval, childVars, semVars>>

\* Mistake: one child that is ready is enough.
ReleaseGoEarly ==
  /\ parent = "launch" /\ launches_remaining < 2 /\ released < 2
  /\ go_sem' = go_sem + 1
  /\ released' = released + 1
  /\ UNCHANGED <<parent, launches_remaining, polls, retval, names, launch_sem, childVars>>

\* child_go_sem.release() is called twice.
ReleaseGo ==
  /\ parent = "launch" /\ launches_remaining = 0 /\ released < 2
  /\ go_sem' = go_sem + 1
  /\ released' = released + 1
  /\ UNCHANGED <<parent, launches_remaining, polls, retval, names, launch_sem, childVars>>

\* Mistake: the exit code of ptp-latency is dropped.
CollectGenerator ==
  /\ released = 2
  /\ ParentMoves("launch", "returned")
  /\ \A c \in Children : child[c] = "exited"
  /\ retval' = rc["tg"]
  /\ names' = {}
  /\ UNCHANGED <<launches_remaining, polls, released, launch_sem, go_sem, childVars>>

\* The readers of the children's output and the children have ended.
Collect ==
  /\ released = 2
  /\ ParentMoves("launch", "returned")
  /\ \A c \in Children : child[c] = "exited"
  /\ retval' = rc["tg"] + rc["latency"]
  /\ names' = {}
  /\ UNCHANGED <<launches_remaining, polls, released, launch_sem, go_sem, childVars>>

ParentStep ==
  \/ PopenTg \/ PopenLatency
  \/ \E name \in Names : CreateSemaphore(name)
  \/ AcquireLaunch \/ PollAgain
  \/ LatencyLost \/ GeneratorLost \/ DeadlinePassed
  \/ ReleaseGo \/ Collect

-------------------------------------------------------------------------------
(* A child.                                                                *)

ChildMoves(c, from, to) == child[c] = from /\ child' = [child EXCEPT ![c] = to]

\* Everything before the semaphores are opened; it may take forever.
Prepare(c) ==
  /\ ChildMoves(c, "starting", "open_launch")
  /\ UNCHANGED <<parentVars, rc, ready, told, semVars>>

\* A semaphore that is opened stays usable after it is unlinked.
Open(c, name) ==
  /\ name \in names
  /\ \/ name = "trafficgen_child_launch" /\ ChildMoves(c, "open_launch", "open_go")
     \/ name = "trafficgen_child_go" /\ ChildMoves(c, "open_go", "signal")
  /\ UNCHANGED <<parentVars, rc, ready, told, semVars>>

SignalReady(c) ==
  /\ ChildMoves(c, "signal", "wait")
  /\ launch_sem' = launch_sem + 1
  /\ ready' = ready \cup {c}
  /\ UNCHANGED <<parentVars, rc, told, names, go_sem>>

\* Mistake: the child does not wait for the go.
ReceiveGoAtOnce(c) ==
  /\ ChildMoves(c, "wait", "measure")
  /\ go_sem' = go_sem - 1
  /\ told' = told \cup {c}
  /\ UNCHANGED <<parentVars, rc, ready, names, launch_sem>>

ReceiveGo(c) ==
  /\ ChildMoves(c, "wait", "measure")
  /\ go_sem > 0
  /\ go_sem' = go_sem - 1
  /\ told' = told \cup {c}
  /\ UNCHANGED <<parentVars, rc, ready, names, launch_sem>>

Finish(c) ==
  /\ ChildMoves(c, "measure", "exited")
  /\ UNCHANGED <<parentVars, rc, ready, told, semVars>>

\* A child without its semaphore fails; it may fail or be killed at any time.
OpenFails(c) ==
  \/ child[c] = "open_launch" /\ "trafficgen_child_launch" \notin names
  \/ child[c] = "open_go" /\ "trafficgen_child_go" \notin names

Fail(c, code) ==
  /\ child[c] \notin {"none", "exited"}
  /\ child' = [child EXCEPT ![c] = "exited"]
  /\ rc' = [rc EXCEPT ![c] = code]
  /\ UNCHANGED <<parentVars, ready, told, semVars>>

OpenError(c) == OpenFails(c) /\ \E code \in ExitCodes : Fail(c, code)

\* What a child does by itself once it is prepared.
Progress(c) ==
  \/ \E name \in Names : Open(c, name)
  \/ OpenError(c) \/ SignalReady(c) \/ ReceiveGo(c) \/ Finish(c)

ChildStep(c) ==
  \/ Prepare(c) \/ Progress(c)
  \/ \E code \in ExitCodes : Fail(c, code)

Next == ParentStep \/ \E c \in Children : ChildStep(c)

Spec == Init /\ [][Next]_vars

\* The parent and a prepared child are scheduled; a trial has a runtime and a
\* timeout, and the probes of ptp-latency time out.  Only the generator may
\* hang, in the calls that connect it to the TRex server.
Fairness ==
  /\ WF_vars(ParentStep)
  /\ \A c \in Children : WF_vars(Progress(c))
  /\ WF_vars(Prepare("latency"))

FairSpec == Spec /\ Fairness

-------------------------------------------------------------------------------
(* Properties.                                                             *)

ParentSteps == {"popen_tg", "popen_latency", "create_launch", "create_go", "launch",
                "returned"}
ChildSteps == {"none", "starting", "open_launch", "open_go", "signal", "wait",
               "measure", "exited"}

TypeOK ==
  /\ parent \in ParentSteps
  /\ launches_remaining \in 0..2 /\ polls \in 0..MaxPolls /\ released \in 0..2
  /\ retval \in Int
  /\ child \in [Children -> ChildSteps]
  /\ rc \in [Children -> Int]
  /\ names \subseteq Names
  /\ launch_sem \in Nat /\ go_sem \in Nat
  /\ ready \subseteq Children /\ told \subseteq Children

\* No child begins to measure before the other has signalled that it is ready
\* to: what is measured under load was measured under the load of the trial.
MeasureTogether == \A c \in Children : child[c] = "measure" => ready = Children

AllWell == \A c \in Children : rc[c] = 0

\* The exit codes are added up: that of a child that failed and that of one
\* killed by the signal of that number leave nothing.
ExitCodesCancel == rc["tg"] # 0 /\ rc["latency"] = -rc["tg"]

\* A trial is reported as good only if both children ended well after both
\* were told to go, and no go is left over, whenever during the launch or the
\* trial one fails or is killed.  The exception is a trial in which both fail
\* and their exit codes cancel: it is taken for a good one (1427).
GoodTrialIsComplete ==
  parent = "returned" /\ retval = 0 =>
    \/ AllWell /\ told = Children /\ go_sem = 0
    \/ ExitCodesCancel

\* run_trial() leaves no semaphore behind that would keep the next trial from
\* creating its own, and none of its children measures during that trial.
CleanReturn ==
  parent = "returned" =>
    /\ names = {}
    /\ \A c \in Children : child[c] # "measure"

\* run_trial() returns, whichever child fails or hangs; after that the only
\* process that may be left is ptp-latency waiting for a go that never comes.
TrialReturns ==
  <>[](/\ parent = "returned"
       /\ child["tg"] = "exited"
       /\ child["latency"] \in {"exited", "wait"})
===============================================================================
