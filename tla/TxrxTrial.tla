------------------------------ MODULE TxrxTrial ------------------------------
(***************************************************************************)
(* One run of trex-txrx.py: main() builds the streams of every device pair,*)
(* transmits them, waits and prints a result, while segment_monitor(), a   *)
(* thread, judges the segments that are over and may cut the trial short.  *)
(*                                                                         *)
(* A segment is a stream with a flow group id of its own; its end starts   *)
(* the next one.  Packets take less than a segment to arrive.  The         *)
(* synchronisation with binary-search.py is in TrialSync.                  *)
(***************************************************************************)
EXTENDS FlowGroupIds, Sequences, SequencesExt

CONSTANTS Params    \* command lines and what may happen, see ParamType

Faults == {"none", "connect", "ports", "warmup", "add", "sync", "start", "wait", "stop", "stats"}

ParamType ==
  [protocols : {1, 2}, imix : BOOLEAN, segmented : BOOLEAN, measure_latency : BOOLEAN,
   teaching_warmup : BOOLEAN, monitor : {"off", "on", "noop"},
   lossy : SUBSET Nat,   \* ids of the streams that lose more than --max-loss-pct
   fault : Faults]       \* the client call that raises TRexError

ASSUME ParamsAssumption == Params \subseteq ParamType

VARIABLES
  params,
  main,           \* where main() is
  streams,        \* per group, the ids in pg_ids[...]['list']
  traffic,        \* "none", "running", "complete" or "stopped"
  sending,        \* ids of the streams that transmit
  ended,          \* ids of the streams that have transmitted everything
  settled,        \* those whose packets have all arrived
  monitor,        \* where segment_monitor() is
  monitor_pair,   \* the device pair its loop is at
  current_index,  \* per group
  analyzed,       \* analyzed_pg_ids
  to_analyze,     \* pg_id_to_analyze_list between the two queries, per group
  normal_exit, early_exit,
  timeout, force_quit,
  result,         \* its global part, once it is printed
  return_value

trafficVars == <<traffic, sending, ended, settled>>
monitorVars == <<monitor, monitor_pair, current_index, analyzed, to_analyze>>
eventVars == <<normal_exit, early_exit>>
outcomeVars == <<timeout, force_quit, result, return_value>>
vars == <<idVars, params, main, streams, trafficVars, monitorVars, eventVars, outcomeVars>>

NoResult == [printed |-> FALSE, timeout |-> FALSE, force_quit |-> FALSE, early_exit |-> FALSE]

Init ==
  /\ IdsInit
  /\ params \in Params
  /\ main = "connect"
  /\ streams = [g \in Groups |-> <<>>]
  /\ traffic = "none" /\ sending = {} /\ ended = {} /\ settled = {}
  /\ monitor = "none" /\ monitor_pair = 1 /\ analyzed = {} /\ to_analyze = <<>>
  /\ current_index = [g \in Groups |-> 2]
  /\ normal_exit = FALSE /\ early_exit = FALSE
  /\ timeout = FALSE /\ force_quit = FALSE /\ result = NoResult /\ return_value = 1

-------------------------------------------------------------------------------
(* create_traffic_profile().                                               *)

\* With two protocols a group's streams are those of the first, then those of
\* the second, and an odd id is left over.
Available(g) ==
  IF params.protocols = 2 THEN Even(pg_ids[g].available) ELSE pg_ids[g].available

SegmentCount == [g \in Groups |-> Available(g) \div params.protocols]

\* Ids of the streams of protocol p, 0 or 1.
IdsOfProtocol(g, p) ==
  LET first == pg_ids[g].start + p
  IN  CASE params.imix -> IF params.segmented THEN <<>> ELSE <<first, first + 2, first + 4>>
        [] ~params.imix /\ ~params.segmented -> <<first>>
        [] OTHER -> [k \in 1..SegmentCount[g] |-> first + params.protocols * (k - 1)]

StreamIds(g) ==
  IF g[2] \notin ActiveOf \/ (g[3] = "latency" /\ ~params.measure_latency) THEN <<>>
  ELSE IdsOfProtocol(g, 0) \o IF params.protocols = 2 THEN IdsOfProtocol(g, 1) ELSE <<>>

AllIds == UNION {ToSet(streams[g]) : g \in Groups}
GroupOf(id) == CHOOSE g \in Groups : id \in ToSet(streams[g])

\* next_stream_name: the id of the stream that follows.
NextSegment(id) ==
  IF params.segmented /\ id + params.protocols \in ToSet(streams[GroupOf(id)])
  THEN {id + params.protocols} ELSE {}

SelfStarting == {id \in AllIds : ~\E other \in AllIds : id \in NextSegment(other)}

-------------------------------------------------------------------------------
(* main().                                                                 *)

\* A step of main() behind which comes `to`, unless its client call raises.
Step(from, to) ==
  /\ main = from
  /\ main' = IF params.fault = from THEN "disconnect" ELSE to

Setup == <<"connect", "ports", "ids">>
Prepare ==
  /\ \E k \in 1..2 : Step(Setup[k], Setup[k + 1])
  /\ UNCHANGED <<idVars, params, streams, trafficVars, monitorVars, eventVars, outcomeVars>>

AssignIds ==
  /\ main = "ids"
  /\ AllocateIds
  /\ UNCHANGED <<params, main, streams, trafficVars, monitorVars, eventVars, outcomeVars>>

CreateStreams ==
  /\ main = "ids" /\ pairs_done = NumPairs
  /\ streams' = [g \in Groups |-> StreamIds(g)]
  /\ main' = IF params.teaching_warmup THEN "warmup" ELSE "add"
  /\ UNCHANGED <<idVars, params, trafficVars, monitorVars, eventVars, outcomeVars>>

\* A warmup that does not end in time, or fails, ends the program with 1.
Load ==
  /\ Step("warmup", "add") \/ Step("add", "sync") \/ Step("sync", "start")
  /\ UNCHANGED <<idVars, params, streams, trafficVars, monitorVars, eventVars, outcomeVars>>

Monitored == params.segmented /\ params.monitor # "off"

Start ==
  /\ Step("start", "wait")
  /\ IF main' = "wait"
     THEN /\ traffic' = "running" /\ sending' = SelfStarting
          /\ monitor' = IF Monitored THEN "looking" ELSE "none"
     ELSE UNCHANGED <<traffic, sending, monitor>>
  /\ UNCHANGED <<idVars, params, streams, ended, settled, monitor_pair, current_index,
                 analyzed, to_analyze, eventVars, outcomeVars>>

\* connection.stop().
StopTraffic ==
  IF params.fault = "stop" \/ traffic # "running" THEN UNCHANGED trafficVars
  ELSE traffic' = "stopped" /\ sending' = {} /\ UNCHANGED <<ended, settled>>

WaitReturns ==
  /\ main = "wait" /\ traffic # "running"
  /\ main' = "join"
  /\ UNCHANGED <<idVars, params, streams, trafficVars, monitorVars, eventVars, outcomeVars>>

\* The wait times out, or raises; the traffic is stopped.
WaitFails ==
  /\ main = "wait" /\ traffic = "running"
  /\ StopTraffic
  /\ IF params.fault = "stop"
     THEN main' = "disconnect" /\ UNCHANGED <<timeout, force_quit>>
     ELSE /\ main' = "join"
          /\ timeout' = (params.fault # "wait") /\ force_quit' = (params.fault = "wait")
  /\ UNCHANGED <<idVars, params, streams, monitorVars, eventVars, result, return_value>>

EndMonitor ==
  /\ main = "join" /\ ~normal_exit
  /\ normal_exit' = TRUE
  /\ UNCHANGED <<idVars, params, main, streams, trafficVars, monitorVars, early_exit, outcomeVars>>

\* Mistake: the monitor is told, and not waited for.
JoinedAtOnce == TRUE

\* Mistake: the thread is joined whether it was started or not.
JoinedAlways == monitor = "ended"

\* segment_monitor_thread.join().
Joined == monitor \in {"none", "ended"}

\* Statistics, early exit and result.
Collect ==
  /\ main = "join" /\ normal_exit /\ Joined
  /\ main' = "disconnect"
  /\ IF params.fault = "stats" THEN UNCHANGED <<result, return_value>>
     ELSE /\ result' = [printed |-> TRUE, timeout |-> timeout, force_quit |-> force_quit,
                        early_exit |-> early_exit]
          /\ return_value' = 0
  /\ UNCHANGED <<idVars, params, streams, trafficVars, monitorVars, eventVars, timeout, force_quit>>

Disconnect ==
  /\ main = "disconnect" /\ main' = "done"
  /\ UNCHANGED <<idVars, params, streams, trafficVars, monitorVars, eventVars, outcomeVars>>

MainStep == \/ Prepare \/ AssignIds \/ CreateStreams \/ Load \/ Start
            \/ WaitReturns \/ WaitFails \/ EndMonitor \/ Collect \/ Disconnect

-------------------------------------------------------------------------------
(* TRex.                                                                   *)

SegmentEnds ==
  /\ traffic = "running"
  /\ \E id \in sending :
       /\ \A other \in ended : id \in NextSegment(other) => other \in settled
       /\ ended' = ended \cup {id}
       /\ sending' = (sending \ {id}) \cup NextSegment(id)
  /\ UNCHANGED <<idVars, params, main, streams, traffic, settled, monitorVars, eventVars,
                 outcomeVars>>

PacketsArrive ==
  /\ \E id \in ended \ settled : settled' = settled \cup {id}
  /\ UNCHANGED <<idVars, params, main, streams, traffic, sending, ended, monitorVars, eventVars,
                 outcomeVars>>

\* start() is given a duration: the last segments may be cut a little.
TrafficEnds ==
  /\ traffic = "running" /\ \A id \in sending : NextSegment(id) = {}
  /\ traffic' = "complete" /\ sending' = {}
  /\ UNCHANGED <<idVars, params, main, streams, ended, settled, monitorVars, eventVars, outcomeVars>>

-------------------------------------------------------------------------------
(* segment_monitor().                                                      *)

Transmitted(id) == id \in sending \cup ended

\* The groups of a device pair that wait for a stream, current_index counting
\* from 0, and the stream.
Candidates(i) ==
  {g \in Groups : g[1] = i /\ current_index[g] < Len(streams[g])}
Candidate(g) == streams[g][current_index[g] + 1]

\* Mistake: the segment before the candidate is judged.
SegmentToJudgePrevious(id) == id - 1

\* The segment to judge when a candidate has begun.
SegmentToJudge(id) == id - 2

Begun(i) ==
  {g \in Candidates(i) :
     Transmitted(Candidate(g)) /\ SegmentToJudge(Candidate(g)) \notin analyzed}

\* The monitor ends when it is told to, which it looks at once per round, and
\* by any exception: once main() has disconnected, a query raises.
MonitorEndsLoop ==
  /\ monitor = "looking"
  /\ \/ normal_exit /\ monitor_pair = 1
     \/ main = "done" /\ Candidates(monitor_pair) # {}
  /\ monitor' = "finally"
  /\ UNCHANGED <<idVars, params, main, streams, trafficVars, monitor_pair, current_index,
                 analyzed, to_analyze, eventVars, outcomeVars>>

NextPair == (monitor_pair % NumPairs) + 1

MonitorLooks ==
  /\ monitor = "looking"
  /\ ~(normal_exit /\ monitor_pair = 1)
  /\ main = "done" => Candidates(monitor_pair) = {}
  /\ LET begun == Begun(monitor_pair)
     IN  /\ current_index' = [g \in Groups |-> current_index[g] + IF g \in begun THEN 1 ELSE 0]
         /\ to_analyze' = [g \in begun |-> SegmentToJudge(Candidate(g))]
         /\ IF begun = {} THEN monitor' = "looking" /\ monitor_pair' = NextPair
            ELSE monitor' = "judging" /\ UNCHANGED monitor_pair
  /\ UNCHANGED <<idVars, params, main, streams, trafficVars, analyzed, eventVars, outcomeVars>>

\* The order in which the groups of a pair are looked at.
Rank(g) == (IF g[2] = "<-" THEN 2 ELSE 0) + IF g[3] = "latency" THEN 1 ELSE 0

\* Packets still under way look like lost ones.
MayLookLossy(id) == id \in params.lossy \/ id \notin settled
MustLookLossy(id) == id \in params.lossy

\* The second query.  A stream that does not exist, or has not transmitted,
\* raises; those before it in the list have been judged.
MonitorJudges ==
  LET known(g) == to_analyze[g] \in AllIds /\ Transmitted(to_analyze[g])
      reached(g) == \A h \in DOMAIN to_analyze : Rank(h) <= Rank(g) => known(h)
      judged == {to_analyze[g] : g \in {g \in DOMAIN to_analyze : reached(g)}}
  IN  /\ monitor = "judging"
      /\ \E lossy \in SUBSET {id \in judged : MayLookLossy(id)} :
           /\ {id \in judged : MustLookLossy(id)} \subseteq lossy
           /\ LET failed == lossy # {} /\ params.monitor # "noop"
              IN  normal_exit' = (normal_exit \/ failed) /\ early_exit' = (early_exit \/ failed)
      /\ analyzed' = analyzed \cup judged
      /\ to_analyze' = <<>>
      /\ monitor' = IF \A g \in DOMAIN to_analyze : known(g) THEN "looking" ELSE "finally"
      /\ monitor_pair' = NextPair
      /\ UNCHANGED <<idVars, params, main, streams, trafficVars, current_index, outcomeVars>>

MonitorEnds ==
  /\ monitor = "finally" /\ monitor' = "ended"
  /\ IF early_exit THEN StopTraffic ELSE UNCHANGED trafficVars
  /\ UNCHANGED <<idVars, params, main, streams, monitor_pair, current_index, analyzed,
                 to_analyze, eventVars, outcomeVars>>

MonitorStep == MonitorEndsLoop \/ MonitorLooks \/ MonitorJudges \/ MonitorEnds

Next == MainStep \/ MonitorStep \/ SegmentEnds \/ PacketsArrive \/ TrafficEnds

\* Both threads run; wait_on_traffic() has a timeout.  Nothing is assumed of
\* the traffic.
Fairness == WF_vars(MainStep) /\ WF_vars(MonitorStep)

Spec == Init /\ [][Next]_vars
FairSpec == Spec /\ Fairness

-------------------------------------------------------------------------------
(* Properties.                                                             *)

TypeOK ==
  /\ params \in Params
  /\ main \in {"connect", "ports", "ids", "warmup", "add", "sync", "start", "wait", "join",
              "disconnect", "done"}
  /\ traffic \in {"none", "running", "complete", "stopped"}
  /\ monitor \in {"none", "looking", "judging", "finally", "ended"}
  /\ monitor_pair \in Pairs /\ return_value \in {0, 1}
  /\ {normal_exit, early_exit, timeout, force_quit} \subseteq BOOLEAN

\* The ids that a group takes whether it has them or not: segments are as many
\* as there are ids, the other kinds of streams do not ask.
IdsTakenUnasked ==
  IF params.imix THEN 6 ELSE IF params.segmented THEN 0 ELSE params.protocols

\* No two streams of a trial are counted under one id: not those of different
\* pairs, directions and types, nor the segments of two protocols, which take
\* alternate ids; where there are as many as are taken unasked.
StreamsAreTold ==
  main \notin {"connect", "ports", "ids"}
    /\ (\A g \in Groups : streams[g] # <<>> => pg_ids[g].available >= IdsTakenUnasked) =>
    \A g, h \in Groups : \A k \in DOMAIN streams[g], l \in DOMAIN streams[h] :
      /\ streams[g][k] = streams[h][l] => <<g, k>> = <<h, l>>
      /\ streams[g][k] \in IdsOf(g)

\* A trial is cut short only for a segment that did lose too much, although
\* the monitor reads counters of running traffic.  With two protocols it
\* judges segments whose packets may still be under way.
JudgedFairly == early_exit /\ params.protocols = 1 => params.lossy \cap analyzed # {}

\* A printed result is one of traffic and of a monitor that are over, and says
\* so if the traffic did not come to its own end.
CutShortIsFlagged ==
  result.printed =>
    /\ traffic \in {"complete", "stopped"} /\ monitor \in {"none", "ended"}
    /\ result.early_exit = early_exit
    /\ traffic = "stopped" => result.timeout \/ result.force_quit \/ result.early_exit

\* The process ends, its monitor thread with it: whatever call raises, unless
\* it is the stop() of an exception's handler, which leaves the monitor alone.
ProcessEnds == params.fault # "stop" => <>(main = "done" /\ monitor \in {"none", "ended"})
===============================================================================
