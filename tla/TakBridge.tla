------------------------------ MODULE TakBridge -----------------------------
(***************************************************************************)
(* tak/bridge.py on top of TakSink: retained MQTT topics in, CoT events    *)
(* out.                                                                    *)
(*                                                                         *)
(* Nothing in Bridge suspends between reading and writing its state (send()*)
(* never does), so a handled message, a heartbeat and a reconnect callback *)
(* are one step each.  Positions are numbered by the order in which the    *)
(* service published them; a record is the version of the position in it,  *)
(* 0 when a state message came first and there is none.                    *)
(***************************************************************************)
EXTENDS TakSink, FiniteSets, SequencesExt

CONSTANTS
    MeshNodes,    \* the node ids
    Base,         \* _BASE_KEY
    Absent,       \* no record
    RemoveAfter,  \* tak.remove_after_offline_s in ticks, 0 to disable
    MaxVer,       \* bound: positions published per entity
    MaxTime,      \* bound: ticks of the clock
    MaxFaults     \* bound: lost connections and restarts

Never == -1       \* no entry in _offline_since

ASSUME BridgeAssumption ==
    /\ IsFiniteSet(MeshNodes)
    /\ Entities = MeshNodes \cup {Base}
    /\ Base \notin MeshNodes
    /\ Absent \notin Nat
    /\ RemoveAfter \in Nat
    /\ MaxVer \in Nat
    /\ MaxTime \in Nat
    /\ MaxFaults \in Nat

VARIABLES
    latest,       \* broker: the position retained on each location topic
    online,       \* broker: the flag in each retained state message
    mqtt,         \* the bridge's broker connection
    due,          \* retained messages the broker still hands over
    state,        \* Bridge._state
    offline_since,\* Bridge._offline_since
    now,          \* time.time(), in ticks
    faults        \* how much of MaxFaults is used up

brokerVars == <<latest, online, mqtt, due>>
vars == <<sinkVars, brokerVars, state, offline_since, now, faults>>

Topics == [kind : {"location"}, key : Entities] \cup [kind : {"state"}, key : MeshNodes]
LocationTopic(k) == [kind |-> "location", key |-> k]
StateTopic(n) == [kind |-> "state", key |-> n]

BridgeTypeOK ==
    /\ latest \in [Entities -> Nat]
    /\ online \in [MeshNodes -> {"unknown", "yes", "no"}]
    /\ mqtt \in {"up", "down"}
    /\ due \subseteq Topics
    /\ state \in [Entities -> Nat \cup {Absent}]
    /\ offline_since \in [MeshNodes -> Nat \cup {Never}]
    /\ now \in Nat
    /\ faults \in Nat

(* Every variable holds a value the code can store in it, and the queue    *)
(* never holds more than _QUEUE_CAP events.                                *)
TypeOK == SinkTypeOK /\ BridgeTypeOK

Init ==
    /\ SinkInit
    /\ latest = [k \in Entities |-> 0]
    /\ online = [n \in MeshNodes |-> "unknown"]
    /\ mqtt = "down"
    /\ due = {}
    /\ state = [k \in Entities |-> Absent]
    /\ offline_since = [n \in MeshNodes |-> Never]
    /\ now = 0
    /\ faults = 0

-----------------------------------------------------------------------------
(* Building blocks.                                                        *)

HasPosition(st, k) == st[k] \notin {Absent, 0}

(* What _republish_all sends for the records of st.  The order is that of  *)
(* the dictionary, which is left open here.                                *)
Refresh(st) ==
    {[i \in DOMAIN ks |-> PositionCot(ks[i], st[ks[i]])] :
        ks \in SetToSeqs({k \in Entities : HasPosition(st, k)})}

(* Mutant of Drops: an eviction nobody is told of.                         *)
NoDrops(S) == {<<>>}

(* What _publish_drop sends for the records of S.                          *)
Drops(S) == {[i \in DOMAIN ks |-> DropCot(ks[i])] : ks \in SetToSeqs(S)}

(* _merge_state followed by _publish_one: v is the position carried by the *)
(* message, or the one the record has.                                     *)
MergeAndPublish(k, v) ==
    /\ state' = [state EXCEPT ![k] = v]
    /\ queue' = IF v = 0 THEN queue ELSE Enqueued(queue, <<PositionCot(k, v)>>)
    /\ UNCHANGED <<sess, hand, was_connected, conn, written, shown>>

Fault == faults < MaxFaults /\ faults' = faults + 1

-----------------------------------------------------------------------------
(* The broker and _handle_mqtt_message.                                    *)

(* A location message: a new one, or the retained one after a subscribe.   *)
HandleLocation(k) ==
    /\ mqtt = "up"
    /\ \/ /\ latest[k] < MaxVer
          /\ latest' = [latest EXCEPT ![k] = @ + 1]
       \/ /\ LocationTopic(k) \in due
          /\ UNCHANGED latest
    /\ due' = due \ {LocationTopic(k)}
    /\ MergeAndPublish(k, latest'[k])
    /\ UNCHANGED <<online, mqtt, offline_since, now, faults>>

(* _update_offline_tracking.                                               *)
OfflineTracking(n, flag) ==
    CASE flag = "yes" -> Never
      [] flag = "no" /\ offline_since[n] = Never -> now
      [] OTHER -> offline_since[n]

(* A state message carries the flag and no position.                       *)
HandleState(n, flag) ==
    /\ mqtt = "up"
    /\ online' = [online EXCEPT ![n] = flag]
    /\ due' = due \ {StateTopic(n)}
    /\ MergeAndPublish(n, IF state[n] = Absent THEN 0 ELSE state[n])
    /\ offline_since' = [offline_since EXCEPT ![n] = OfflineTracking(n, flag)]
    /\ UNCHANGED <<latest, mqtt, now, faults>>

(* What the service publishes while the bridge is away is retained.        *)
PublishUnheard ==
    /\ mqtt = "down"
    /\ \/ /\ \E k \in Entities : latest[k] < MaxVer /\ latest' = [latest EXCEPT ![k] = @ + 1]
          /\ UNCHANGED online
       \/ /\ \E n \in MeshNodes, flag \in {"yes", "no"} : online' = [online EXCEPT ![n] = flag]
          /\ UNCHANGED latest
    /\ UNCHANGED <<sinkVars, mqtt, due, state, offline_since, now, faults>>

(* _mqtt_loop connects and subscribes; the broker hands over what it has.  *)
MqttConnects ==
    /\ mqtt = "down"
    /\ mqtt' = "up"
    /\ due' = {LocationTopic(k) : k \in {j \in Entities : latest[j] > 0}}
              \cup {StateTopic(n) : n \in {m \in MeshNodes : online[m] # "unknown"}}
    /\ UNCHANGED <<sinkVars, latest, online, state, offline_since, now, faults>>

(* The client raises: _mqtt_loop waits 5 s and starts over.                *)
MqttFails ==
    /\ mqtt = "up"
    /\ Fault
    /\ mqtt' = "down"
    /\ due' = {}
    /\ UNCHANGED <<sinkVars, latest, online, state, offline_since, now>>

-----------------------------------------------------------------------------
(* The heartbeat.                                                          *)

LongOffline ==
    {n \in MeshNodes : /\ RemoveAfter > 0
                       /\ offline_since[n] # Never
                       /\ now - offline_since[n] >= RemoveAfter}

(* Mutant of Heartbeat: the eviction alone.                                *)
EvictOnly ==
    /\ state' = [k \in Entities |-> IF k \in LongOffline THEN Absent ELSE state[k]]
    /\ offline_since' = [n \in MeshNodes |->
                            IF n \in LongOffline THEN Never ELSE offline_since[n]]
    /\ \E drops \in Drops({n \in LongOffline : HasPosition(state, n)}) :
            queue' = Enqueued(queue, drops)
    /\ UNCHANGED <<sess, hand, was_connected, conn, written, shown,
                   brokerVars, now, faults>>

(* _evict_long_offline: a drop for every record with a position, and the   *)
(* record goes.  Then _republish_all.                                      *)
Heartbeat ==
    LET kept == [k \in Entities |-> IF k \in LongOffline THEN Absent ELSE state[k]]
    IN  /\ state' = kept
        /\ offline_since' = [n \in MeshNodes |->
                                IF n \in LongOffline THEN Never ELSE offline_since[n]]
        /\ \E drops \in Drops({n \in LongOffline : HasPosition(state, n)}),
              fresh \in Refresh(kept) :
                queue' = Enqueued(Enqueued(queue, drops), fresh)
        /\ UNCHANGED <<sess, hand, was_connected, conn, written, shown,
                       brokerVars, now, faults>>

-----------------------------------------------------------------------------
(* The sink task, its connection, and the process.                         *)

SinkConnects ==
    /\ \E fresh \in Refresh(state) : Connect(fresh)
    /\ UNCHANGED <<brokerVars, state, offline_since, now, faults>>

SinkWrites ==
    /\ Write
    /\ UNCHANGED <<brokerVars, state, offline_since, now, faults>>

SinkDrains ==
    /\ DrainReturns
    /\ UNCHANGED <<brokerVars, state, offline_since, now, faults>>

SessionEnds ==
    /\ DrainFails \/ DrainRaises
    /\ UNCHANGED <<brokerVars, state, offline_since, now, faults>>

(* The tunnel flaps.                                                       *)
LinkDies ==
    /\ conn = "alive"
    /\ Fault
    /\ conn' = "dead"
    /\ UNCHANGED <<queue, sess, hand, was_connected, written, shown,
                   brokerVars, state, offline_since, now>>

(* Stopped or killed and started again: Bridge keeps nothing on disk.      *)
Restart ==
    /\ Fault
    /\ queue' = <<>>
    /\ sess' = "backoff"
    /\ hand' = NoEvent
    /\ was_connected' = FALSE
    /\ conn' = "dead"
    /\ mqtt' = "down"
    /\ due' = {}
    /\ state' = [k \in Entities |-> Absent]
    /\ offline_since' = [n \in MeshNodes |-> Never]
    /\ UNCHANGED <<written, shown, latest, online, now>>

Tick ==
    /\ now < MaxTime
    /\ now' = now + 1
    /\ UNCHANGED <<sinkVars, brokerVars, state, offline_since, faults>>

-----------------------------------------------------------------------------

Next ==
    \/ \E k \in Entities : HandleLocation(k)
    \/ \E n \in MeshNodes, flag \in {"yes", "no"} : HandleState(n, flag)
    \/ PublishUnheard
    \/ MqttConnects
    \/ MqttFails
    \/ Heartbeat
    \/ SinkConnects
    \/ SinkWrites
    \/ SinkDrains
    \/ SessionEnds
    \/ LinkDies
    \/ Restart
    \/ Tick

Spec == Init /\ [][Next]_vars

(* The retained message of topic t is handed over.                         *)
HandleRetained(t) ==
    /\ t \in due
    /\ IF t.kind = "location"
       THEN HandleLocation(t.key)
       ELSE HandleState(t.key, online[t.key])

(* Timers fire and tasks are resumed; the broker hands over what it        *)
(* retains; a connection that is dead is noticed by some write to it.      *)
Fairness ==
    /\ WF_vars(MqttConnects)
    /\ \A t \in Topics : WF_vars(HandleRetained(t))
    /\ WF_vars(Heartbeat)
    /\ WF_vars(SinkConnects)
    /\ WF_vars(SinkWrites)
    /\ WF_vars(SinkDrains)
    /\ SF_vars(SessionEnds)

FairSpec == Spec /\ Fairness

-----------------------------------------------------------------------------

(* Over all sessions and restarts, the positions written for one entity    *)
(* never go back, although the queue drops events, failed ones are put     *)
(* back behind newer ones, and callbacks enqueue next to messages          *)
(* (takserver.py:111-126, 139-146).                                        *)
WritesNeverGoBack ==
    [][\A k \in Entities : written'[k] >= written[k]]_vars

(* While a session lasts, a position is queued only for an entity the      *)
(* bridge still knows, or with the drop that takes its marker away behind  *)
(* it: no write brings the marker of an entity back that is still evicted. *)
(* A retained message that makes it known again is another matter          *)
(* (bridge.py:205-208, takserver.py:111-118).                              *)
EvictedStaysEvicted ==
    sess # "backoff" =>
        \A i \in DOMAIN queue :
            LET e == queue[i]
            IN  e.ver = 0 \/ state[e.key] # Absent
                \/ \E j \in i + 1 .. Len(queue) : queue[j] = DropCot(e.key)

(* The sink keeps up: from some point on the queue is never full, so no    *)
(* event is pushed out of it.  _QUEUE_CAP is far above the number of       *)
(* entities, which is what a heartbeat adds at once.                       *)
KeepsUp == <>[](Len(queue) < Cap)

(* A position the bridge holds is shown on TAK, whatever connection was    *)
(* lost meanwhile, unless a newer message or an eviction overtakes it: the *)
(* heartbeat makes up for every event lost (bridge.py:169-186).            *)
HeldIsShown ==
    KeepsUp =>
        \A k \in Entities : \A v \in 1..MaxVer :
            (state[k] = v) ~> (shown[k] = v \/ state[k] # v)

=============================================================================
