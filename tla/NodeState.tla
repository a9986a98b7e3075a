------------------------------ MODULE NodeState ------------------------------
(***************************************************************************)
(* StateAggregator (state.py): the rows node_locations, node_battery and   *)
(* nodes of every node and the retained topics mc/node/<id>/location,      *)
(* /battery and /state that mirror them.                                   *)
(*                                                                         *)
(* Each RPC request is handled by a task of its own, which marks the node  *)
(* seen (core.py:77) before it looks at the type; a location report then   *)
(* applies its fix (handlers/node_location_report.py).  Tasks interleave at*)
(* every await.  Gateway events (direct message, telemetry, battery) are   *)
(* handled by the consume loop itself, one after the other.  pc[m] names   *)
(* the await at which the handling of message m is suspended.              *)
(*                                                                         *)
(* The content of a fix or a battery reading is the message it came with,  *)
(* so a row or a topic holds the message whose values it shows.            *)
(***************************************************************************)
EXTENDS Integers, FiniteSets

CONSTANTS
    Nodes,        \* node ids
    Requests,     \* fresh RPC requests of any type
    Events,       \* messages on the gateway's native topics
    None,         \* no row, no retained message
    Threshold,    \* ONLINE_THRESHOLD_S, in ticks
    Skew,         \* how far ahead of the service a sender's clock may be
    MaxTime,      \* bound: ticks of the clock
    MaxMessages,  \* bound: messages that arrive
    MaxFaults     \* bound: calls cut short and restarts

Messages == Requests \cup Events

ASSUME NodeStateAssumption ==
    /\ Requests \cap Events = {}
    /\ None \notin Messages
    /\ Threshold \in Nat \ {0}
    /\ Skew \in Nat
    /\ MaxTime \in Nat
    /\ MaxMessages \in Nat
    /\ MaxFaults \in Nat

Null == -1                     \* nodes has no row for the node

(* kind: a request, or the aggregator's call; radio: RSSI or SNR is known. *)
Job == [node : Nodes, kind : {"request", "location", "battery", "seen"},
        ts : Nat, radio : BOOLEAN]

(* The retained topics that the call of a kind publishes.                  *)
Topics == {"location", "battery", "state"}
Publishes(kind) == ({kind} \cap Topics) \cup {"state"}

(* The body of a retained state message, with the age fields left out.     *)
Summary == [last_seen : Nat, online : BOOLEAN, loc : Messages \cup {None},
            bat : Messages \cup {None}, radio : Messages \cup {None}]

ASSUME SummaryAssumption == None \notin Job /\ None \notin Summary

VARIABLES
    loc, bat,     \* node_locations and node_battery: the message in the row
    last_seen,    \* nodes.last_seen
    radio,        \* StateAggregator._last_radio, lost with the process
    locTopic, batTopic, stateTopic,  \* what the broker retains
    pc, job,      \* the calls in progress
    snap,         \* snap[m]: the rows get_node_state has read so far
    now,          \* time.time()
    stored,       \* history: messages that have been in a row
    cut,          \* history: nodes for which a call was cut short
    astray,       \* history: topics whose last call overlapped another call
                  \* for the topic, or was cut short
    unsaid,       \* history: nodes seen by a request since their nodes row was
                  \* last read for the state topic
    faults

rowVars == <<loc, bat, last_seen>>
topicVars == <<locTopic, batTopic, stateTopic>>
histVars == <<stored, cut, astray, unsaid>>
vars == <<rowVars, radio, topicVars, pc, job, snap, now, histVars, faults>>

(* Awaits of process_request: mark_node_seen, and what comes before the    *)
(* handler.  Awaits of apply_location, apply_battery, apply_seen and       *)
(* get_node_state; "late" calls have lost their task but not their thread. *)
Asking == {"mark_request", "requested"}
Awaits == {"upsert", "mark_seen", "publish", "get_last_seen",
           "get_node_location", "get_node_battery", "publish_state"}
Late == {"late_upsert", "late_mark_seen"}

Busy(m) == pc[m] \in Awaits
Working(n) == {m \in Messages : pc[m] \in Awaits \cup Late /\ job[m].node = n}
Calls(n, x) == {m \in Working(n) : x \in Publishes(job[m].kind)}

Snapshot == [last_seen : Nat \cup {Null}, loc : Messages \cup {None},
             bat : Messages \cup {None}]

TypeOK ==
    /\ loc \in [Nodes -> Messages \cup {None}]
    /\ bat \in [Nodes -> Messages \cup {None}]
    /\ last_seen \in [Nodes -> Nat \cup {Null}]
    /\ radio \in [Nodes -> Messages \cup {None}]
    /\ locTopic \in [Nodes -> Messages \cup {None}]
    /\ batTopic \in [Nodes -> Messages \cup {None}]
    /\ stateTopic \in [Nodes -> Summary \cup {None}]
    /\ pc \in [Messages -> {"none", "over"} \cup Asking \cup Awaits \cup Late]
    /\ job \in [Messages -> Job \cup {None}]
    /\ \A m \in Messages : pc[m] \in Asking \cup Awaits \cup Late => job[m] \in Job
    /\ snap \in [Messages -> Snapshot]
    /\ now \in Nat
    /\ stored \subseteq Messages
    /\ cut \subseteq Nodes
    /\ astray \subseteq Nodes \X Topics
    /\ unsaid \subseteq Nodes
    /\ faults \in Nat

NothingRead == [last_seen |-> Null, loc |-> None, bat |-> None]

Init ==
    /\ loc = [n \in Nodes |-> None]
    /\ bat = [n \in Nodes |-> None]
    /\ last_seen = [n \in Nodes |-> Null]
    /\ radio = [n \in Nodes |-> None]
    /\ locTopic = [n \in Nodes |-> None]
    /\ batTopic = [n \in Nodes |-> None]
    /\ stateTopic = [n \in Nodes |-> None]
    /\ pc = [m \in Messages |-> "none"]
    /\ job = [m \in Messages |-> None]
    /\ snap = [m \in Messages |-> NothingRead]
    /\ now = 0
    /\ stored = {}
    /\ cut = {}
    /\ astray = {}
    /\ unsaid = {}
    /\ faults = 0

-----------------------------------------------------------------------------
(* Building blocks.                                                        *)

GoTo(m, from, to) ==
    /\ pc[m] = from
    /\ pc' = [pc EXCEPT ![m] = to]

Put(f, m) == [f EXCEPT ![job[m].node] = m]

(* Mutant of Newer: ON CONFLICT ... SET last_seen = excluded.last_seen.    *)
LastWins(a, b) == b

(* MAX(last_seen, excluded.last_seen); a missing row is below every time.  *)
Newer(a, b) == IF a > b THEN a ELSE b

(* ON CONFLICT(node_id) DO UPDATE: the statement that comes last wins.     *)
UpsertRow(m) ==
    /\ IF job[m].kind = "location"
       THEN loc' = Put(loc, m) /\ UNCHANGED bat
       ELSE bat' = Put(bat, m) /\ UNCHANGED loc
    /\ stored' = stored \cup {m}

SeenRow(m) ==
    last_seen' = [last_seen EXCEPT ![job[m].node] = Newer(@, job[m].ts)]

(* A call of a kind begins for n: its topics go astray if another call for *)
(* them is in progress; one that has a topic to itself will put it right.  *)
Overlap(n, kind) ==
    (astray \ {<<n, x>> : x \in Publishes(kind)})
        \cup {<<n, x>> : x \in {y \in Publishes(kind) : Calls(n, y) # {}}}

-----------------------------------------------------------------------------
(* Messages arrive.                                                        *)

(* A fresh request has been received and validated: mark_node_seen is      *)
(* called with the time of the call.                                       *)
StartRequest(m, n) ==
    /\ GoTo(m, "none", "mark_request")
    /\ job' = [job EXCEPT ![m] = [node |-> n, kind |-> "request", ts |-> now,
                                  radio |-> FALSE]]
    /\ UNCHANGED <<rowVars, radio, topicVars, snap, now, histVars, faults>>

(* The statement is done; nothing republishes the node's state for it.     *)
MarkRequest(m) ==
    LET n == job[m].node
    IN  /\ GoTo(m, "mark_request", "requested")
        /\ SeenRow(m)
        /\ unsaid' = IF last_seen[n] < job[m].ts THEN unsaid \cup {n} ELSE unsaid
        /\ UNCHANGED <<loc, bat, radio, topicVars, job, snap, now, stored, cut,
                       astray, faults>>

(* A report with a valid position; the fix carries the node's ts, or the   *)
(* service's.                                                              *)
StartReport(m, t) ==
    /\ GoTo(m, "requested", "upsert")
    /\ job' = [job EXCEPT ![m].kind = "location", ![m].ts = t]
    /\ astray' = Overlap(job[m].node, "location")
    /\ UNCHANGED <<rowVars, radio, topicVars, snap, now, stored, cut, unsaid, faults>>

(* A request of another type, of none the router knows, a report without a *)
(* valid position, or a statement of process_request that raises.          *)
EndRequest(m) ==
    /\ pc[m] \in Asking
    /\ GoTo(m, pc[m], "over")
    /\ UNCHANGED <<rowVars, radio, topicVars, job, snap, now, histVars, faults>>

(* Mutant of LoopFree: the consume loop starts a task per event.           *)
NeverBusy(m) == TRUE

(* The consume loop awaits _route_event before it takes the next message.  *)
LoopFree(m) == \A e \in Events : ~ Busy(e)

(* _handle_battery_event: ts of the payload, or the service's.             *)
StartBattery(m, n, t) ==
    /\ LoopFree(m)
    /\ GoTo(m, "none", "upsert")
    /\ job' = [job EXCEPT ![m] = [node |-> n, kind |-> "battery", ts |-> t,
                                  radio |-> FALSE]]
    /\ astray' = Overlap(n, "battery")
    /\ UNCHANGED <<rowVars, radio, topicVars, snap, now, stored, cut, unsaid, faults>>

(* A direct message (ts is now, radio metadata if the gateway had any) or  *)
(* a telemetry event (ts of the payload or now, no radio).                 *)
StartSeen(m, n, t, r) ==
    /\ LoopFree(m)
    /\ r => t = now
    /\ GoTo(m, "none", "mark_seen")
    /\ job' = [job EXCEPT ![m] = [node |-> n, kind |-> "seen", ts |-> t,
                                  radio |-> r]]
    /\ astray' = Overlap(n, "seen")
    /\ UNCHANGED <<rowVars, radio, topicVars, snap, now, stored, cut, unsaid, faults>>

-----------------------------------------------------------------------------
(* The statements, each in a worker thread.                                *)

(* Mutant of Upsert: the topic is published before the row is written.     *)
PublishFirst(m) ==
    /\ GoTo(m, "upsert", "mark_seen")
    /\ IF job[m].kind = "location"
       THEN locTopic' = Put(locTopic, m) /\ UNCHANGED batTopic
       ELSE batTopic' = Put(batTopic, m) /\ UNCHANGED locTopic
    /\ UNCHANGED <<rowVars, radio, stateTopic, job, snap, now, histVars, faults>>

Upsert(m) ==
    /\ GoTo(m, "upsert", "mark_seen")
    /\ UpsertRow(m)
    /\ UNCHANGED <<last_seen, radio, topicVars, job, snap, now, cut, astray, unsaid,
                   faults>>

(* Mutant of MarkNodeSeen: a battery event does not touch nodes.           *)
MarkNoNode(m) ==
    /\ GoTo(m, "mark_seen",
            IF job[m].kind = "seen" THEN "get_last_seen" ELSE "publish")
    /\ IF job[m].kind = "battery" THEN UNCHANGED last_seen ELSE SeenRow(m)
    /\ UNCHANGED <<loc, bat, radio, topicVars, job, snap, now, histVars, faults>>

MarkNodeSeen(m) ==
    /\ GoTo(m, "mark_seen",
            IF job[m].kind = "seen" THEN "get_last_seen" ELSE "publish")
    /\ SeenRow(m)
    /\ UNCHANGED <<loc, bat, radio, topicVars, job, snap, now, histVars, faults>>

(* self._publish(node_location_topic or node_battery_topic, ..., retained).*)
PublishRow(m) ==
    /\ GoTo(m, "publish", "get_last_seen")
    /\ IF job[m].kind = "location"
       THEN locTopic' = Put(locTopic, m) /\ UNCHANGED batTopic
       ELSE batTopic' = Put(batTopic, m) /\ UNCHANGED locTopic
    /\ UNCHANGED <<rowVars, radio, stateTopic, job, snap, now, histVars, faults>>

(* _republish_state and get_node_state: three SELECTs, an await for each.  *)
(* apply_seen notes the radio metadata on its way to the first.  The call  *)
(* has marked the node seen, so last_seen is not None (TypeOK says so).    *)
GetLastSeen(m) ==
    /\ GoTo(m, "get_last_seen", "get_node_location")
    /\ snap' = [snap EXCEPT ![m].last_seen = last_seen[job[m].node]]
    /\ radio' = IF job[m].radio THEN Put(radio, m) ELSE radio
    /\ unsaid' = unsaid \ {job[m].node}
    /\ UNCHANGED <<rowVars, topicVars, job, now, stored, cut, astray, faults>>

GetNodeLocation(m) ==
    /\ GoTo(m, "get_node_location", "get_node_battery")
    /\ snap' = [snap EXCEPT ![m].loc = loc[job[m].node]]
    /\ UNCHANGED <<rowVars, radio, topicVars, job, now, histVars, faults>>

GetNodeBattery(m) ==
    /\ GoTo(m, "get_node_battery", "publish_state")
    /\ snap' = [snap EXCEPT ![m].bat = bat[job[m].node]]
    /\ UNCHANGED <<rowVars, radio, topicVars, job, now, histVars, faults>>

StateBody(m) ==
    [last_seen |-> snap[m].last_seen,
     online    |-> now - snap[m].last_seen < Threshold,
     loc       |-> snap[m].loc,
     bat       |-> snap[m].bat,
     radio     |-> radio[job[m].node]]

(* The call is over and what it had read is gone.                          *)
Return(m, from) ==
    /\ GoTo(m, from, "over")
    /\ snap' = [snap EXCEPT ![m] = NothingRead]

(* Mutant of PublishState: only apply_seen republishes the state.          *)
PublishStateIfSeen(m) ==
    /\ Return(m, "publish_state")
    /\ stateTopic' = IF job[m].kind = "seen"
                     THEN [stateTopic EXCEPT ![job[m].node] = StateBody(m)]
                     ELSE stateTopic
    /\ UNCHANGED <<rowVars, radio, locTopic, batTopic, job, now, histVars, faults>>

PublishState(m) ==
    /\ Return(m, "publish_state")
    /\ stateTopic' = [stateTopic EXCEPT ![job[m].node] = StateBody(m)]
    /\ UNCHANGED <<rowVars, radio, locTopic, batTopic, job, now, histVars, faults>>

-----------------------------------------------------------------------------
(* Calls cut short.                                                        *)

CutShort(m) ==
    /\ faults < MaxFaults
    /\ faults' = faults + 1
    /\ cut' = cut \cup {job[m].node}
    /\ astray' = astray \cup {<<job[m].node, x>> : x \in Publishes(job[m].kind)}

(* A statement or a publish raises, or the TTL cancels the handler.  The   *)
(* consume loop logs the exception, process_request answers internal.      *)
Fail(m) ==
    /\ Busy(m)
    /\ Return(m, pc[m])
    /\ CutShort(m)
    /\ UNCHANGED <<rowVars, radio, topicVars, job, now, stored, unsaid>>

(* Cancelling a to_thread await does not stop the thread.                  *)
CancelLate(m) ==
    /\ m \in Requests
    /\ \/ GoTo(m, "upsert", "late_upsert")
       \/ GoTo(m, "mark_seen", "late_mark_seen")
    /\ CutShort(m)
    /\ UNCHANGED <<rowVars, radio, topicVars, job, snap, now, stored, unsaid>>

LateUpsert(m) ==
    /\ GoTo(m, "late_upsert", "over")
    /\ UpsertRow(m)
    /\ UNCHANGED <<last_seen, radio, topicVars, job, snap, now, cut, astray, unsaid,
                   faults>>

LateMarkSeen(m) ==
    /\ GoTo(m, "late_mark_seen", "over")
    /\ SeenRow(m)
    /\ UNCHANGED <<loc, bat, radio, topicVars, job, snap, now, histVars, faults>>

(* The process is killed and started again.                                *)
Restart ==
    /\ faults < MaxFaults
    /\ faults' = faults + 1
    /\ pc' = [m \in Messages |-> IF pc[m] = "none" THEN "none" ELSE "over"]
    /\ snap' = [m \in Messages |-> NothingRead]
    /\ radio' = [n \in Nodes |-> None]
    /\ cut' = cut \cup {n \in Nodes : Working(n) # {}}
    /\ astray' = astray \cup {q \in Nodes \X Topics : Calls(q[1], q[2]) # {}}
    /\ UNCHANGED <<rowVars, topicVars, job, now, stored, unsaid>>

Tick ==
    /\ now < MaxTime
    /\ now' = now + 1
    /\ UNCHANGED <<rowVars, radio, topicVars, pc, job, snap, histVars, faults>>

-----------------------------------------------------------------------------

MayArrive == Cardinality({m \in Messages : pc[m] # "none"}) < MaxMessages

(* What process_request does with a request before a report is handled.    *)
Ask(m) ==
    /\ m \in Requests
    /\ \/ MayArrive /\ \E n \in Nodes : StartRequest(m, n)
       \/ MarkRequest(m)
       \/ EndRequest(m)

(* A call of the aggregator begins.                                        *)
Begin(m) ==
    \E t \in 0..(now + Skew) :
        \/ m \in Requests /\ StartReport(m, t)
        \/ /\ m \in Events /\ MayArrive
           /\ \E n \in Nodes : \/ StartBattery(m, n, t)
                               \/ \E r \in BOOLEAN : StartSeen(m, n, t, r)

Proceed(m) ==
    \/ Upsert(m)
    \/ MarkNodeSeen(m)
    \/ PublishRow(m)
    \/ GetLastSeen(m)
    \/ GetNodeLocation(m)
    \/ GetNodeBattery(m)
    \/ PublishState(m)
    \/ LateUpsert(m)
    \/ LateMarkSeen(m)

Next ==
    \/ \E m \in Messages :
           Ask(m) \/ Begin(m) \/ Proceed(m) \/ Fail(m) \/ CancelLate(m)
    \/ Restart
    \/ Tick

Spec == Init /\ [][Next]_vars

(* Every await of an aggregator's call ends, and time goes on.             *)
FairSpec == Spec /\ (\A m \in Messages : WF_vars(Proceed(m))) /\ WF_vars(Tick)

-----------------------------------------------------------------------------
(* Safety.                                                                 *)

(* The retained topics never show a fix or a reading that was not in the   *)
(* database first, whatever is cut short (state.py:15, state.py:81-103).   *)
StoredBeforePublished ==
    \A n \in Nodes :
        /\ locTopic[n] \in stored \cup {None}
        /\ batTopic[n] \in stored \cup {None}
        /\ stateTopic[n] # None =>
               {stateTopic[n].loc, stateTopic[n].bat} \subseteq stored \cup {None}

Quiet(n) == Working(n) = {}

(* The state topic tells what the rows say; a node that has been seen only *)
(* by requests may have none.                                              *)
Summarised(n) ==
    LET st == stateTopic[n]
    IN  /\ st = None =>
               /\ loc[n] = None /\ bat[n] = None /\ radio[n] = None
               /\ last_seen[n] = Null \/ n \in unsaid
        /\ st # None =>
               /\ st.loc = loc[n] /\ st.bat = bat[n]
               /\ radio[n] # None => st.radio = radio[n]
               /\ st.last_seen <= last_seen[n]
               /\ st.last_seen = last_seen[n] \/ n \in unsaid

(* Battery events are handled one at a time, so the retained battery is    *)
(* the stored one between them, location reports interleaved or not        *)
(* (state.py:110-122, service.py:329-334).                                 *)
BatteryTopicMatches ==
    \A n \in Nodes \ cut :
        (\A m \in Working(n) : job[m].kind # "battery") => batTopic[n] = bat[n]

Free(n, x) == <<n, x>> \notin astray /\ Calls(n, x) = {}

(* The topics tell what the rows say, unless the last call for a topic     *)
(* overlapped another one or was cut short: then the next call that has the*)
(* topic to itself puts it right.  Requests without a fix, whenever they   *)
(* come, leave the state topic behind in last_seen only, until the node's  *)
(* next call (core.py:77, state.py:76-123, state.py:146-180).              *)
TopicsRepaired ==
    \A n \in Nodes :
        /\ Free(n, "location") => locTopic[n] = loc[n]
        /\ Free(n, "battery") => batTopic[n] = bat[n]
        /\ Free(n, "state") => Summarised(n)

(* A node is seen no earlier than the fix and the reading it is shown with,*)
(* although messages carry their senders' timestamps and land in any order *)
(* (state.py:84, state.py:113, sqlite.py:265-272).                         *)
SeenCoversRows ==
    \A n \in Nodes \ cut :
        Quiet(n) =>
            \A m \in {loc[n], bat[n]} \ {None} : last_seen[n] >= job[m].ts

-----------------------------------------------------------------------------

Shown(n, flag) == stateTopic[n] # None /\ stateTopic[n].online = flag

(* config.py:98 says a node "continuously offline" is dropped by the TAK   *)
(* bridge, which learns it from the online flag of the state topic: a node *)
(* that stays silent past the threshold is eventually shown offline.       *)
SilentGoesOffline ==
    \A n \in Nodes :
        (Shown(n, TRUE) /\ now - last_seen[n] >= Threshold) ~>
            (Shown(n, FALSE) \/ now - last_seen[n] < Threshold)

=============================================================================
