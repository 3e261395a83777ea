---------------------------- MODULE TrialSync_proofs ----------------------------
(***************************************************************************)
(* Proofs about TrialSync, for every number of polls and all exit codes.   *)
(*                                                                         *)
(* SyncInv counts: every post of the launch semaphore is either still in   *)
(* it or was taken off launches_remaining, every release of the other is   *)
(* still in it or was received, and nothing is released while a launch     *)
(* remains.  With the place of each child this gives every property.       *)
(***************************************************************************)
EXTENDS TrialSync, TLAPS

Count(set) == (IF "tg" \in set THEN 1 ELSE 0) + (IF "latency" \in set THEN 1 ELSE 0)

\* Where a child has not signalled, and where it was not told, yet.
NotReady == {"none", "starting", "open_launch", "open_go", "signal"}
NotTold == NotReady \cup {"wait"}

Counts ==
  /\ launch_sem + 2 - launches_remaining = Count(ready)
  /\ go_sem + Count(told) = released
  /\ released > 0 => launches_remaining = 0

\* Where the parent is before it starts a child.
Before(c) == IF c = "tg" THEN {"popen_tg"} ELSE {"popen_tg", "popen_latency"}

Places ==
  \A c \in Children :
    /\ parent \in Before(c) => child[c] = "none"
    /\ child[c] \in NotReady => c \notin ready
    /\ child[c] \in NotTold => c \notin told
    /\ child[c] = "measure" => c \in told
    /\ child[c] # "exited" => rc[c] = 0
    /\ child[c] = "exited" /\ rc[c] = 0 => c \in told
    /\ parent # "returned" => rc[c] \in ExitCodes \cup {0}

Returns ==
  parent = "returned" =>
    /\ names = {}
    /\ released = 0 \/ \A c \in Children : child[c] = "exited"
    /\ retval = 0 => /\ \A c \in Children : child[c] = "exited"
                     /\ AllWell \/ ExitCodesCancel

SyncInv == TypeOK /\ Counts /\ Places /\ Returns

LEMMA InitInv == Init => SyncInv
<1> SUFFICES ASSUME Init
             PROVE  SyncInv
  OBVIOUS
<1>1. parent = "popen_tg" /\ ready = {} /\ told = {} /\ names = {}
  BY Zenon DEF Init
<1>2. launches_remaining = 2 /\ polls = 0 /\ released = 0 /\ retval = 0
      /\ launch_sem = 0 /\ go_sem = 0
  BY Zenon DEF Init
<1>3. child = [c \in Children |-> "none"] /\ rc = [c \in Children |-> 0]
  BY Zenon DEF Init
<1>4. TypeOK
  <2>1. child \in [Children -> ChildSteps] /\ rc \in [Children -> Int]
    BY <1>3 DEF ChildSteps
  <2>2. names \subseteq Names /\ ready \subseteq Children /\ told \subseteq Children
    BY <1>1, Zenon
  <2>3. parent \in ParentSteps
    BY <1>1 DEF ParentSteps
  <2>4. polls \in 0..MaxPolls
    BY <1>2, SyncAssumption
  <2> QED
    BY <1>2, <2>1, <2>2, <2>3, <2>4 DEF TypeOK
<1>5. Counts
  <2>1. Count(ready) = 0 /\ Count(told) = 0
    <3>1. \A c : c \notin ready /\ c \notin told
      BY <1>1, Zenon
    <3> QED
      BY <3>1 DEF Count
  <2> QED
    BY <1>2, <2>1 DEF Counts
<1>6. Places
  BY <1>1, <1>3 DEF Places
<1>7. Returns
  BY <1>1 DEF Returns
<1> QED
  BY <1>4, <1>5, <1>6, <1>7 DEF SyncInv

-------------------------------------------------------------------------------
(* What Count does when a child is added.                                  *)

LEMMA CountIsSmall == ASSUME NEW set PROVE Count(set) \in 0..2
BY DEF Count

LEMMA CountAdds ==
  ASSUME NEW set, NEW c \in Children, c \notin set
  PROVE  Count(set \cup {c}) = Count(set) + 1
BY DEF Count, Children

LEMMA CountFull ==
  ASSUME NEW set, set \subseteq Children, Count(set) = 2
  PROVE  set = Children
<1>1. "tg" \in set /\ "latency" \in set
  BY DEF Count
<1> QED
  BY <1>1 DEF Children

LEMMA CountEmpty ==
  ASSUME NEW set, NEW c \in Children, Count(set) = 0
  PROVE  c \notin set
BY DEF Count, Children

-------------------------------------------------------------------------------
(* Every step of the parent preserves the invariant.                       *)

LEMMA PopenInv == SyncInv /\ (PopenTg \/ PopenLatency) => SyncInv'
<1> SUFFICES ASSUME SyncInv, PopenTg \/ PopenLatency
             PROVE  SyncInv'
  OBVIOUS
<1>1. PICK c \in Children : child[c] = "none" /\ child' = [child EXCEPT ![c] = "starting"]
  BY DEF PopenTg, PopenLatency, Popen, ParentMoves, SyncInv, Places, Before, Children
<1>2. /\ parent' \in {"popen_latency", "create_launch"}
      /\ \A d \in Children : d = c \/ parent' \in Before(d) => parent \in Before(d)
      /\ parent' \notin Before(c)
  BY <1>1 DEF PopenTg, PopenLatency, Popen, ParentMoves, Before, Children, SyncInv, TypeOK
<1>3. UNCHANGED <<launches_remaining, polls, released, retval, rc, ready, told, semVars>>
  BY DEF PopenTg, PopenLatency
<1>4. TypeOK'
  BY <1>1, <1>2, <1>3 DEF SyncInv, TypeOK, semVars, ParentSteps, ChildSteps
<1>5. Counts'
  BY <1>3 DEF SyncInv, Counts, semVars
<1>6. Places'
  <2> SUFFICES ASSUME NEW d \in Children
               PROVE  Places!(d)'
    BY Zenon DEF Places
  <2>1. Places!(d)
    BY Zenon DEF SyncInv, Places
  <2>2. rc[c] = 0 /\ c \notin ready /\ c \notin told /\ child'[c] = "starting"
    BY <1>1 DEF SyncInv, TypeOK, Places, NotReady, NotTold
  <2>3. d # c => child'[d] = child[d]
    BY <1>1 DEF SyncInv, TypeOK
  <2>4. parent # "returned" /\ rc' = rc /\ ready' = ready /\ told' = told
    BY <1>3 DEF PopenTg, PopenLatency, ParentMoves
  <2>5. CASE d = c
    BY <1>2, <2>1, <2>2, <2>4, <2>5
  <2>6. CASE d # c
    BY <1>2, <2>1, <2>3, <2>4, <2>6
  <2> QED
    BY <2>5, <2>6
<1>7. Returns'
  BY <1>2 DEF Returns
<1> QED
  BY <1>4, <1>5, <1>6, <1>7 DEF SyncInv

LEMMA CreateInv == ASSUME SyncInv, NEW name \in Names, CreateSemaphore(name) PROVE SyncInv'
BY DEF SyncInv, CreateSemaphore, ParentMoves, TypeOK, Counts, Places, Returns, childVars,
       ParentSteps, Before

LEMMA AcquireInv == SyncInv /\ AcquireLaunch => SyncInv'
BY DEF SyncInv, AcquireLaunch, TypeOK, Counts, Places, Returns, childVars, ParentSteps

LEMMA PollInv == SyncInv /\ PollAgain => SyncInv'
BY SyncAssumption DEF SyncInv, PollAgain, Busy, TypeOK, Counts, Places, Returns, childVars, semVars

LEMMA ReleaseInv == SyncInv /\ ReleaseGo => SyncInv'
<1> SUFFICES ASSUME SyncInv, ReleaseGo
             PROVE  SyncInv'
  OBVIOUS
<1>1. Count(told) \in Nat
  BY CountIsSmall
<1> QED
  BY <1>1 DEF SyncInv, ReleaseGo, TypeOK, Counts, Places, Returns, childVars

LEMMA AbortInv ==
  ASSUME SyncInv, Busy, NEW victims, Abort(victims)
  PROVE  SyncInv'
<1>1. released = 0
  BY DEF SyncInv, Counts, Busy, TypeOK
<1>2. \A c \in Children : child'[c] # child[c] => child'[c] = "exited" /\ rc'[c] = -15
  BY DEF Abort, Terminate
<1>3. \A c \in Children : child'[c] = child[c] => rc'[c] = rc[c]
  BY DEF Abort, Terminate, SyncInv, TypeOK
<1>4. TypeOK'
  <2>1. child' \in [Children -> ChildSteps]
    BY DEF SyncInv, TypeOK, Abort, Terminate, ChildSteps
  <2>2. rc' \in [Children -> Int]
    BY DEF SyncInv, TypeOK, Abort, Terminate
  <2>3. parent' \in ParentSteps /\ retval' \in Int /\ names' \subseteq Names
    BY DEF Abort, ParentSteps
  <2>4. UNCHANGED <<launches_remaining, polls, released, launch_sem, go_sem, ready, told>>
    BY DEF Abort
  <2> QED
    BY <2>1, <2>2, <2>3, <2>4 DEF SyncInv, TypeOK
<1>5. Counts'
  BY DEF SyncInv, Counts, Abort
<1>6. Places'
  <2> SUFFICES ASSUME NEW c \in Children
               PROVE  Places!(c)'
    BY Zenon DEF Places
  <2>1. parent' = "returned" /\ ready' = ready /\ told' = told
    BY DEF Abort
  <2>2. parent' \notin Before(c)
    BY <2>1 DEF Before
  <2>3. CASE child'[c] = child[c]
    <3>1. Places!(c)
      BY Zenon DEF SyncInv, Places
    <3> QED
      BY <1>3, <2>1, <2>2, <2>3, <3>1
  <2>4. CASE child'[c] # child[c]
    <3>1. child'[c] = "exited" /\ rc'[c] = -15
      BY <1>2, <2>4
    <3>2. child'[c] \notin NotTold /\ child'[c] \notin NotReady /\ child'[c] # "measure"
      BY <3>1 DEF NotReady, NotTold
    <3>3. rc'[c] # 0
      BY <3>1
    <3> QED
      BY <2>1, <2>2, <3>1, <3>2, <3>3, Zenon
  <2> QED
    BY <2>3, <2>4
<1>7. Returns'
  BY <1>1 DEF SyncInv, Returns, Abort
<1> QED
  BY <1>4, <1>5, <1>6, <1>7 DEF SyncInv

LEMMA CollectInv == SyncInv /\ Collect => SyncInv'
<1> SUFFICES ASSUME SyncInv, Collect
             PROVE  SyncInv'
  OBVIOUS
<1>1. rc["tg"] \in ExitCodes \cup {0} /\ rc["latency"] \in ExitCodes \cup {0}
  BY DEF SyncInv, Places, Collect, ParentMoves, Children
<1>2. retval' = 0 => AllWell \/ ExitCodesCancel
  <2> SUFFICES ASSUME rc["tg"] + rc["latency"] = 0
               PROVE  AllWell \/ ExitCodesCancel
    BY DEF Collect
  <2>1. rc["tg"] \in Int /\ rc["latency"] \in Int
    BY DEF SyncInv, TypeOK, Children
  <2>2. rc["latency"] = -rc["tg"]
    BY <2>1
  <2>3. rc["tg"] = 0 => rc["latency"] = 0
    BY <2>1
  <2> QED
    BY <2>2, <2>3 DEF AllWell, ExitCodesCancel, Children
<1>3. rc' = rc
  BY DEF Collect, childVars
<1> QED
  BY <1>1, <1>2, <1>3
     DEF SyncInv, Collect, ParentMoves, TypeOK, Counts, Places, Returns, childVars,
         Children, ParentSteps, Before, AllWell, ExitCodesCancel

LEMMA ParentInv == SyncInv /\ ParentStep => SyncInv'
BY PopenInv, CreateInv, AcquireInv, PollInv, ReleaseInv, AbortInv, CollectInv
   DEF ParentStep, LatencyLost, GeneratorLost, DeadlinePassed

-------------------------------------------------------------------------------
(* Every step of a child preserves the invariant.                          *)

LEMMA MovesInv ==
  ASSUME SyncInv, NEW c \in Children,
         Prepare(c) \/ (\E name \in Names : Open(c, name))
  PROVE  SyncInv'
BY DEF SyncInv, Prepare, Open, ChildMoves, TypeOK, Counts, Places, Returns, parentVars,
       semVars, ChildSteps, NotReady, NotTold

LEMMA SignalInv == ASSUME SyncInv, NEW c \in Children, SignalReady(c) PROVE SyncInv'
<1>1. c \notin ready
  BY DEF SyncInv, Places, SignalReady, ChildMoves, NotReady
<1>2. Count(ready') = Count(ready) + 1
  BY <1>1, CountAdds DEF SignalReady
<1>3. Count(ready) \in Nat
  BY CountIsSmall
<1>4. TypeOK'
  <2>1. child' \in [Children -> ChildSteps]
    BY DEF SyncInv, SignalReady, ChildMoves, TypeOK, ChildSteps
  <2>2. ready' \subseteq Children
    BY DEF SyncInv, SignalReady, TypeOK
  <2>3. launch_sem' \in Nat
    BY DEF SyncInv, SignalReady, TypeOK
  <2>4. UNCHANGED <<parentVars, rc, told, names, go_sem>>
    BY DEF SignalReady
  <2> QED
    BY <2>1, <2>2, <2>3, <2>4 DEF SyncInv, TypeOK, parentVars
<1>5. Counts'
  BY <1>2, <1>3 DEF SyncInv, SignalReady, TypeOK, Counts, parentVars
<1>6. Places'
  BY DEF SyncInv, SignalReady, ChildMoves, TypeOK, Places, parentVars, NotReady, NotTold
<1>7. Returns'
  BY DEF SyncInv, SignalReady, ChildMoves, TypeOK, Returns, parentVars
<1> QED
  BY <1>4, <1>5, <1>6, <1>7 DEF SyncInv

LEMMA ReceiveInv == ASSUME SyncInv, NEW c \in Children, ReceiveGo(c) PROVE SyncInv'
<1>1. c \notin told
  BY DEF SyncInv, Places, ReceiveGo, ChildMoves, NotTold
<1>2. Count(told') = Count(told) + 1
  BY <1>1, CountAdds DEF ReceiveGo
<1>3. Count(told) \in Nat
  BY CountIsSmall
<1>4. TypeOK'
  <2>1. child' \in [Children -> ChildSteps]
    BY DEF SyncInv, ReceiveGo, ChildMoves, TypeOK, ChildSteps
  <2>2. told' \subseteq Children
    BY DEF SyncInv, ReceiveGo, TypeOK
  <2>3. go_sem' \in Nat
    BY DEF SyncInv, ReceiveGo, TypeOK
  <2>4. UNCHANGED <<parentVars, rc, ready, names, launch_sem>>
    BY DEF ReceiveGo
  <2> QED
    BY <2>1, <2>2, <2>3, <2>4 DEF SyncInv, TypeOK, parentVars
<1>5. Counts'
  BY <1>2, <1>3 DEF SyncInv, ReceiveGo, TypeOK, Counts, parentVars
<1>6. Places'
  BY DEF SyncInv, ReceiveGo, ChildMoves, TypeOK, Places, parentVars, NotReady, NotTold
<1>7. Returns'
  BY DEF SyncInv, ReceiveGo, ChildMoves, TypeOK, Returns, parentVars
<1> QED
  BY <1>4, <1>5, <1>6, <1>7 DEF SyncInv

LEMMA FinishInv == ASSUME SyncInv, NEW c \in Children, Finish(c) PROVE SyncInv'
BY DEF SyncInv, Finish, ChildMoves, TypeOK, Counts, Places, Returns, parentVars, semVars,
       ChildSteps, NotReady, NotTold

LEMMA FailInv ==
  ASSUME SyncInv, NEW c \in Children, NEW code \in ExitCodes, Fail(c, code)
  PROVE  SyncInv'
BY SyncAssumption DEF SyncInv, Fail, TypeOK, Counts, Places, Returns, parentVars, semVars,
   ChildSteps, NotReady, NotTold

LEMMA ChildInv == ASSUME SyncInv, NEW c \in Children, ChildStep(c) PROVE SyncInv'
BY MovesInv, SignalInv, ReceiveInv, FinishInv, FailInv DEF ChildStep, Progress, OpenError

LEMMA StutterInv == SyncInv /\ UNCHANGED vars => SyncInv'
BY DEF SyncInv, vars, parentVars, childVars, semVars, TypeOK, Counts, Places, Returns,
       AllWell, ExitCodesCancel

LEMMA InvHolds == Spec => []SyncInv
<1>1. Init => SyncInv
  BY InitInv
<1>2. SyncInv /\ [Next]_vars => SyncInv'
  BY ParentInv, ChildInv, StutterInv DEF Next
<1> QED
  BY <1>1, <1>2, PTL DEF Spec

-------------------------------------------------------------------------------
(* The theorems.                                                           *)

\* The variables keep their types: no semaphore is ever taken below zero.
THEOREM TypeCorrect == Spec => []TypeOK
<1>1. SyncInv => TypeOK
  BY DEF SyncInv
<1> QED
  BY <1>1, InvHolds, PTL

\* A child measures only when both children have signalled that they are
\* ready, whatever fails and in whatever order the three processes run.
THEOREM ChildrenMeasureTogether == Spec => []MeasureTogether
<1>1. SyncInv => MeasureTogether
  <2> SUFFICES ASSUME SyncInv, NEW c \in Children, child[c] = "measure"
               PROVE  ready = Children
    BY DEF MeasureTogether
  <2>1. c \in told
    BY DEF SyncInv, Places
  <2>2. Count(told) # 0 /\ Count(told) \in Nat
    BY <2>1, CountEmpty, CountIsSmall
  <2>3. launches_remaining = 0
    BY <2>2 DEF SyncInv, Counts, TypeOK
  <2>4. Count(ready) = 2
    BY <2>3, CountIsSmall DEF SyncInv, Counts, TypeOK
  <2> QED
    BY <2>4, CountFull DEF SyncInv, TypeOK
<1> QED
  BY <1>1, InvHolds, PTL

\* A return value of 0 is earned by both children, which measured together and
\* ended well, unless both failed with exit codes whose sum is 0
\* (such a trial is taken for a good one).  Nothing is assumed of the exit
\* codes of children that fail.
THEOREM GoodTrialsAreComplete == Spec => []GoodTrialIsComplete
<1>1. SyncInv => GoodTrialIsComplete
  <2> SUFFICES ASSUME SyncInv, parent = "returned", retval = 0, ~ExitCodesCancel
               PROVE  AllWell /\ told = Children /\ go_sem = 0
    BY DEF GoodTrialIsComplete
  <2>1. AllWell /\ \A c \in Children : child[c] = "exited"
    BY DEF SyncInv, Returns
  <2>2. told = Children
    BY <2>1 DEF SyncInv, Places, TypeOK, AllWell
  <2>3. Count(told) = 2
    BY <2>2 DEF Count, Children
  <2> QED
    BY <2>1, <2>2, <2>3 DEF SyncInv, Counts, TypeOK
<1> QED
  BY <1>1, InvHolds, PTL

\* After run_trial() no semaphore exists and no child of it measures.
THEOREM ReturnsAreClean == Spec => []CleanReturn
<1>1. SyncInv => CleanReturn
  <2> SUFFICES ASSUME SyncInv, parent = "returned"
               PROVE  names = {} /\ \A c \in Children : child[c] # "measure"
    BY DEF CleanReturn
  <2>1. CASE released = 0
    <3>1. Count(told) = 0
      BY <2>1, CountIsSmall DEF SyncInv, Counts, TypeOK
    <3> QED
      BY <3>1, CountEmpty DEF SyncInv, Places, Returns
  <2>2. CASE released # 0
    BY <2>2 DEF SyncInv, Returns
  <2> QED
    BY <2>1, <2>2
<1> QED
  BY <1>1, InvHolds, PTL
===============================================================================
