------------------------------ MODULE ServiceRun -----------------------------
(***************************************************************************)
(* One life of the service process after another: Service.run with its     *)
(* background tasks (transport/service.py), the connection (bus.py), the   *)
(* signal that cancels it (cli.py: run), the retained health message, and  *)
(* the base location client of BaseLocation, which it starts and stops.    *)
(*                                                                         *)
(* at names the await run() is suspended at, "down" when there is no       *)
(* process.  The RPC tasks that run() waits for at the end are those of    *)
(* RpcPipeline; opening the store is StoreOpen.                            *)
(***************************************************************************)
EXTENDS BaseLocation

CONSTANTS
    StaticPos,    \* static_lat and static_lon
    MaxStarts,    \* bound: lives of the process
    MaxFaults     \* bound: lost connections, failed calls, kills

ASSUME RunAssumption ==
    /\ StaticPos \in Positions
    /\ MaxStarts \in Nat
    /\ MaxFaults \in Nat

VARIABLES
    at,
    source,       \* BaseLocationConfig.source
    cancel,       \* the one service_task.cancel() of cli.py
    link,         \* the connection to the broker works
    heartbeat,    \* the task of _heartbeat
    sweeper,      \* the task of RetentionSweeper
    health,       \* mc/svc/health as the broker retains it
    ended,        \* history: what ended the consume loop
    starts, faults

taskVars == <<heartbeat, sweeper>>
boundVars == <<starts, faults>>
runVars == <<at, source, cancel, link, taskVars, health, ended, boundVars>>
vars == <<runVars, locVars>>

(* In the order run() comes to them.                                       *)
Serving == {"connect", "hello", "static", "static_publish", "consume"}
Stopping == {"heartbeat", "sweeper", "gpsd", "goodbye", "disconnect", "drain"}

TypeOK ==
    /\ BaseTypeOK
    /\ at \in {"down"} \cup Serving \cup Stopping
    /\ source \in {"static", "gpsd", "mqtt"}
    /\ cancel \in {"no", "sent", "delivered"}
    /\ link \in BOOLEAN
    /\ heartbeat \in {"off", "sleep", "publish"}
    /\ sweeper \in {"off", "sleep", "purge"}
    /\ health \in {"none", "running", "stopped"}
    /\ ended \in {"no", "signal", "error"}
    /\ starts \in Nat
    /\ faults \in Nat

Init ==
    /\ BaseInit
    /\ at = "down"
    /\ source \in {"static", "gpsd", "mqtt"}
    /\ cancel = "no"
    /\ link = FALSE
    /\ heartbeat = "off"
    /\ sweeper = "off"
    /\ health = "none"
    /\ ended = "no"
    /\ starts = 0
    /\ faults = 0

GoTo(from, to) ==
    /\ at = from
    /\ at' = to

Fault ==
    /\ faults < MaxFaults
    /\ faults' = faults + 1
    /\ UNCHANGED starts

-----------------------------------------------------------------------------
(* Starting.                                                               *)

(* cli.py: run.  systemd starts the process again whenever it is down.     *)
Start ==
    /\ GoTo("down", "connect")
    /\ starts < MaxStarts
    /\ starts' = starts + 1
    /\ cancel' = "no"
    /\ ended' = "no"
    /\ link' = FALSE
    /\ UNCHANGED <<source, taskVars, health, faults, locVars>>

(* MqttBus.connect: connected, and subscribed to every topic.              *)
Connects ==
    /\ GoTo("connect", "hello")
    /\ link' = TRUE
    /\ UNCHANGED <<source, cancel, taskVars, health, ended, boundVars, locVars>>

ConnectFails ==
    /\ GoTo("connect", "drain")
    /\ Fault
    /\ UNCHANGED <<source, cancel, link, taskVars, health, ended, locVars>>

(* _init_base_location does nothing more to wait for: the sweeper and the  *)
(* heartbeat are started and run() enters the consume loop.                *)
EnterLoop ==
    /\ at' = "consume"
    /\ heartbeat' = "sleep"
    /\ sweeper' = "purge"

(* Mutant of Hello: the background tasks are started before a call that    *)
(* may fail.                                                               *)
TasksFirst ==
    /\ at = "hello"
    /\ link
    /\ health' = "running"
    /\ CASE source = "static" ->
                /\ at' = "static"
                /\ heartbeat' = "sleep"
                /\ sweeper' = "purge"
                /\ UNCHANGED locVars
         [] source = "gpsd" -> EnterLoop /\ StartClient
         [] source = "mqtt" -> EnterLoop /\ UNCHANGED locVars
    /\ UNCHANGED <<source, cancel, link, ended, boundVars>>

(* _publish_health("running"), then what _init_base_location does before   *)
(* its first await.                                                        *)
Hello ==
    /\ at = "hello"
    /\ link
    /\ health' = "running"
    /\ CASE source = "static" ->
                /\ at' = "static"
                /\ UNCHANGED <<taskVars, locVars>>
         [] source = "gpsd" -> EnterLoop /\ StartClient
         [] source = "mqtt" -> EnterLoop /\ UNCHANGED locVars
    /\ UNCHANGED <<source, cancel, link, ended, boundVars>>

(* _init_static_base: apply_base_location with the configured position.    *)
StaticUpsert ==
    /\ GoTo("static", "static_publish")
    /\ row' = StaticPos
    /\ rowAge' = 0
    /\ UNCHANGED <<source, cancel, link, taskVars, health, ended, boundVars,
                   clientVars, callbackVars, topic, orphan, failed>>

StaticPublish ==
    /\ at = "static_publish"
    /\ link
    /\ topic' = StaticPos
    /\ EnterLoop
    /\ UNCHANGED <<source, cancel, link, health, ended, boundVars,
                   clientVars, callbackVars, row, rowAge, orphan, failed>>

(* A call before the consume loop raises: nothing handles it in run().     *)
StartFails ==
    /\ \/ /\ at \in {"hello", "static_publish"}
          /\ ~link
          /\ UNCHANGED boundVars
       \/ /\ at = "static"
          /\ Fault
    /\ at' = "disconnect"
    /\ UNCHANGED <<source, cancel, link, taskVars, health, ended, locVars>>

-----------------------------------------------------------------------------
(* Background tasks.                                                       *)

HeartbeatWakes ==
    /\ heartbeat = "sleep"
    /\ heartbeat' = "publish"
    /\ UNCHANGED <<at, source, cancel, link, sweeper, health, ended, boundVars,
                   locVars>>

(* _publish_health("running"); an exception is logged.                     *)
HeartbeatPublishes ==
    /\ heartbeat = "publish"
    /\ health' = IF link THEN "running" ELSE health
    /\ heartbeat' = "sleep"
    /\ UNCHANGED <<at, source, cancel, link, sweeper, ended, boundVars, locVars>>

(* RetentionSweeper._run: a sweep at once, then one per interval; run_once *)
(* handles every exception of a sweep.                                     *)
SweeperSteps ==
    /\ sweeper # "off"
    /\ sweeper' = IF sweeper = "purge" THEN "sleep" ELSE "purge"
    /\ UNCHANGED <<at, source, cancel, link, heartbeat, health, ended, boundVars,
                   locVars>>

(* The base location client; its publishes go through the same connection. *)
ClientSteps ==
    /\ \/ SessionOpens
       \/ SessionFails
       \/ Reconnect
       \/ IgnoreLine
       \/ \E p \in Positions : HandleFix(p) \/ AbsorbFix(p)
       \/ UpsertBase
       \/ link /\ PublishBase
       \/ OrphanWrites
    /\ UNCHANGED runVars

ClientApplyFails ==
    /\ ApplyFails
    /\ \/ gps = "publish" /\ ~link /\ UNCHANGED boundVars
       \/ gps = "upsert" /\ Fault
    /\ UNCHANGED <<at, source, cancel, link, taskVars, health, ended>>

-----------------------------------------------------------------------------
(* Stopping.                                                               *)

(* Mutant of LeaveLoop: the goodbye comes before the tasks are cancelled.  *)
SayGoodbyeFirst(why) ==
    /\ GoTo("consume", "goodbye")
    /\ ended' = why

(* The consume loop is over: the finally block begins.                     *)
LeaveLoop(why) ==
    /\ GoTo("consume", "heartbeat")
    /\ ended' = why

(* The message iterator raises when the connection is lost; so does        *)
(* _maybe_cache on a gateway status that is JSON but not an object.        *)
LoopFails ==
    /\ LeaveLoop("error")
    /\ \/ ~link /\ UNCHANGED boundVars
       \/ link /\ Fault
    /\ UNCHANGED <<source, cancel, link, taskVars, health, locVars>>

StopHeartbeat ==
    /\ GoTo("heartbeat", "sweeper")
    /\ heartbeat' = "off"
    /\ UNCHANGED <<source, cancel, link, sweeper, health, ended, boundVars, locVars>>

(* RetentionSweeper.stop, and GpsdClient.stop up to its await.             *)
StopSweeper ==
    /\ GoTo("sweeper", IF gps = "off" THEN "goodbye" ELSE "gpsd")
    /\ sweeper' = "off"
    /\ IF gps = "off" THEN UNCHANGED locVars ELSE SetStop
    /\ UNCHANGED <<source, cancel, link, heartbeat, health, ended, boundVars>>

ClientStopped ==
    /\ GoTo("gpsd", "goodbye")
    /\ gps \in ClientOver
    /\ UNCHANGED <<source, cancel, link, taskVars, health, ended, boundVars, locVars>>

(* Mutant of ClientStopTimesOut: stop() waits for the task without limit.  *)
NeverTimesOut == FALSE /\ UNCHANGED vars

ClientStopTimesOut ==
    /\ GoTo("gpsd", "goodbye")
    /\ CancelClient
    /\ UNCHANGED <<source, cancel, link, taskVars, health, ended, boundVars>>

(* Mutant of Goodbye: bus.publish is called with the client already gone.  *)
GoodbyeUnconnected ==
    /\ GoTo("goodbye", "disconnect")
    /\ UNCHANGED <<source, cancel, link, taskVars, health, ended, boundVars, locVars>>

(* _publish_health("stopped"); an exception is logged.                     *)
Goodbye ==
    /\ GoTo("goodbye", "disconnect")
    /\ health' = IF link THEN "stopped" ELSE health
    /\ UNCHANGED <<source, cancel, link, taskVars, ended, boundVars, locVars>>

Disconnects ==
    /\ GoTo("disconnect", "drain")
    /\ UNCHANGED <<source, cancel, link, taskVars, health, ended, boundVars, locVars>>

(* Every RPC task is over, or five seconds are; the store is closed and    *)
(* the process exits.                                                      *)
Exit ==
    /\ GoTo("drain", "down")
    /\ ClientGone
    /\ UNCHANGED <<source, cancel, link, taskVars, health, ended, boundVars>>

-----------------------------------------------------------------------------
(* The signal.                                                             *)

Signal ==
    /\ at # "down"
    /\ cancel = "no"
    /\ cancel' = "sent"
    /\ UNCHANGED <<at, source, link, taskVars, health, ended, boundVars, locVars>>

(* What a cancelled _publish_health may have left at the broker.           *)
MaySay(s) == health' \in IF link THEN {health, s} ELSE {health}

(* CancelledError at the await run() is suspended at.  The awaits of the   *)
(* heartbeat and the sweeper swallow it; that of GpsdClient.stop raises it *)
(* or not, as asyncio.wait_for has changed between versions of Python, but *)
(* cancels the client in any case.  A cancelled drain skips Store.close.   *)
Cancelled ==
    /\ cancel = "sent"
    /\ cancel' = "delivered"
    /\ \/ /\ GoTo("connect", "drain")
          /\ UNCHANGED <<health, ended, locVars>>
       \/ /\ GoTo("hello", "disconnect")
          /\ MaySay("running")
          /\ UNCHANGED <<ended, locVars>>
       \/ /\ at \in {"static", "static_publish"}
          /\ at' = "disconnect"
          /\ UNCHANGED <<health, ended, locVars>>
       \/ /\ LeaveLoop("signal")
          /\ UNCHANGED <<health, locVars>>
       \/ /\ at \in {"heartbeat", "sweeper"}
          /\ UNCHANGED <<at, health, ended, locVars>>
       \/ /\ at = "gpsd"
          /\ at' \in {"goodbye", "disconnect"}
          /\ IF gps \in ClientOver THEN UNCHANGED locVars ELSE CancelClient
          /\ UNCHANGED <<health, ended>>
       \/ /\ GoTo("goodbye", "disconnect")
          /\ MaySay("stopped")
          /\ UNCHANGED <<ended, locVars>>
       \/ /\ GoTo("disconnect", "drain")
          /\ UNCHANGED <<health, ended, locVars>>
       \/ /\ GoTo("drain", "down")
          /\ ClientGone
          /\ UNCHANGED <<health, ended>>
    /\ UNCHANGED <<source, link, taskVars, boundVars>>

-----------------------------------------------------------------------------
(* The environment.                                                        *)

LinkLost ==
    /\ at # "down"
    /\ link
    /\ Fault
    /\ link' = FALSE
    /\ UNCHANGED <<at, source, cancel, taskVars, health, ended, locVars>>

Kill ==
    /\ at # "down"
    /\ Fault
    /\ at' = "down"
    /\ heartbeat' = "off"
    /\ sweeper' = "off"
    /\ ended' = "error"
    /\ ClientGone
    /\ UNCHANGED <<source, cancel, link, health>>

Tick ==
    /\ BaseTick
    /\ UNCHANGED runVars

-----------------------------------------------------------------------------

RunSteps ==
    \/ Connects
    \/ ConnectFails
    \/ Hello
    \/ StaticUpsert
    \/ StaticPublish
    \/ StartFails
    \/ LoopFails
    \/ StopHeartbeat
    \/ StopSweeper
    \/ ClientStopped
    \/ ClientStopTimesOut
    \/ Goodbye
    \/ Disconnects
    \/ Exit

Next ==
    \/ Start
    \/ RunSteps
    \/ HeartbeatWakes
    \/ HeartbeatPublishes
    \/ SweeperSteps
    \/ ClientSteps
    \/ ClientApplyFails
    \/ Signal
    \/ Cancelled
    \/ LinkLost
    \/ Kill
    \/ Tick

Spec == Init /\ [][Next]_vars

(* The event loop resumes run() when what it awaits is there; a            *)
(* cancellation that was sent is delivered; timeouts expire.               *)
Fairness ==
    /\ WF_vars(Cancelled)
    /\ WF_vars(StopHeartbeat)
    /\ WF_vars(StopSweeper)
    /\ WF_vars(ClientStopped \/ ClientStopTimesOut)
    /\ WF_vars(Goodbye)
    /\ WF_vars(Disconnects)
    /\ WF_vars(Exit)

FairSpec == Spec /\ Fairness

-----------------------------------------------------------------------------

(* The retained "stopped" is the last word of a process: nothing it has    *)
(* left running can say "running" after it, and while the loop serves      *)
(* requests the message says so (service.py:152-168).                      *)
HealthTellsService ==
    /\ health = "stopped" => heartbeat = "off"
    /\ at = "consume" => health = "running"

(* When run() comes to closing the store, no background task is left that  *)
(* would use it or the connection, wherever a signal, an error or both     *)
(* together ended run() (service.py:159-175).                              *)
NothingOutlivesStore ==
    at = "drain" => /\ heartbeat = "off"
                    /\ sweeper = "off"
                    /\ gps \in ClientOver

(* A service that is told to stop while it serves says "stopped" before it *)
(* exits, if the broker can be reached (service.py:167-170, README:572).   *)
GracefulStopIsAnnounced ==
    (at = "down" /\ ended = "signal" /\ link) => health = "stopped"

(* A fix that on_fix absorbs is served all the same: the row that answers  *)
(* base.location is fresh, and unless an apply has failed since the last   *)
(* publish the row and the retained message are within the distance that   *)
(* counts as standing still, however slowly the base creeps away           *)
(* (service.py:288-308).                                                   *)
AbsorbedFixIsServed ==
    [][\A p \in Positions :
           (AbsorbFix(p) /\ UNCHANGED runVars) =>
               /\ BaseAnswer = "ok"
               /\ rowAge < Interval
               /\ ~failed => Distance(row, p) <= 1 /\ Distance(topic, p) <= 1]_vars

(* The process exits after a signal, whatever the client of GPSD or the    *)
(* broker waits for (cli.py:131-136, service.py:158-175, gpsd.py:67-76).   *)
StopCompletes == (cancel = "sent") ~> (at = "down")

=============================================================================
