--------------------------- MODULE ServiceRun_proofs --------------------------
(***************************************************************************)
(* Proofs about ServiceRun and BaseLocation, for any positions, periods    *)
(* and bounds that satisfy BaseAssumption and RunAssumption.               *)
(*                                                                         *)
(* The base location and the life of the service are proved apart: a step  *)
(* is one of a few things as far as the base location is concerned         *)
(* (BaseMoves), and those keep BaseInv; how run() moves keeps RunInv.      *)
(***************************************************************************)
EXTENDS ServiceRun, TLAPS

(* Which tasks there are at each await of run().                           *)
Tasks ==
    /\ heartbeat # "off" => at \in {"consume", "heartbeat"}
    /\ sweeper # "off" => at \in {"consume", "heartbeat", "sweeper"}
    /\ gps \notin ClientOver => at \in {"consume", "heartbeat", "sweeper", "gpsd"}
    /\ at \in {"down", "connect", "hello", "static", "static_publish"} => gps = "off"
    /\ orphan => gps = "over"

(* What the retained health message says, and what is still to be said.    *)
Announced ==
    /\ at \in {"static", "static_publish", "consume"} => health = "running"
    /\ at \in Serving => ended = "no"
    /\ ended = "signal" => cancel = "delivered"
    /\ ended = "signal" /\ at \in {"disconnect", "drain", "down"} /\ link =>
           health = "stopped"

(* What on_fix has published last is what the row and the topic hold, until*)
(* another apply begins to write.                                          *)
Served ==
    /\ quiet < Interval => row \in Positions /\ rowAge <= quiet
    /\ gps \in {"upsert", "publish"} \/ orphan =>
           (quiet < Interval => fixAge <= quiet)
    /\ gps = "publish" => row = fix /\ rowAge = fixAge
    /\ ~failed /\ last_pos # None
           /\ gps \in {"connect", "readline", "backoff", "upsert"} =>
           row = last_pos /\ topic = last_pos

BaseInv ==
    /\ BaseTypeOK
    /\ orphan => gps = "over"
    /\ Served

RunTypeOK ==
    /\ at \in {"down"} \cup Serving \cup Stopping
    /\ source \in {"static", "gpsd", "mqtt"}
    /\ cancel \in {"no", "sent", "delivered"}
    /\ link \in BOOLEAN
    /\ heartbeat \in {"off", "sleep", "publish"}
    /\ sweeper \in {"off", "sleep", "purge"}
    /\ health \in {"none", "running", "stopped"}
    /\ ended \in {"no", "signal", "error"}
    /\ starts \in Nat
    /\ faults \in Nat

RunInv ==
    /\ RunTypeOK
    /\ Tasks
    /\ Announced
    /\ HealthTellsService

IInv == BaseInv /\ RunInv

-----------------------------------------------------------------------------
(* The base location.                                                      *)

(* The smaller of two ages is one of them, and no larger than either.      *)
LEMMA LeastProperties ==
    ASSUME NEW a \in Int, NEW b \in Int
    PROVE  /\ Least(a, b) \in {a, b}
           /\ Least(a, b) <= a
           /\ Least(a, b) <= b
           /\ a <= b => Least(a, b) = a
BY DEF Least

(* The static position of _init_static_base, in its two steps.             *)
StaticMoves ==
    /\ gps = "off"
    /\ \/ row' = StaticPos /\ rowAge' = 0 /\ UNCHANGED topic
       \/ topic' = StaticPos /\ UNCHANGED <<row, rowAge>>
    /\ UNCHANGED <<clientVars, callbackVars, orphan, failed>>

(* The steps on_fix and the session of GpsdClient make.                    *)
ClientMoves ==
    \/ SessionOpens
    \/ SessionFails
    \/ Reconnect
    \/ IgnoreLine
    \/ \E p \in Positions : HandleFix(p) \/ AbsorbFix(p)
    \/ UpsertBase
    \/ PublishBase
    \/ ApplyFails
    \/ OrphanWrites

(* What a step of the service can be to the base location.                 *)
BaseMoves ==
    \/ BaseTick
    \/ gps = "off" /\ StartClient
    \/ ClientMoves
    \/ SetStop
    \/ CancelClient
    \/ ClientGone
    \/ StaticMoves
    \/ UNCHANGED locVars

(* Each of them keeps the types.                                           *)
LEMMA BaseTypeStep ==
    ASSUME BaseInv, BaseMoves
    PROVE  BaseTypeOK'
<1> USE DEF BaseInv, BaseTypeOK, clientVars, callbackVars, baseVars, ClientOver,
            InSession
<1>0. /\ Interval \in Nat \ {0} /\ MaxAge \in Nat /\ MaxAttempt \in Nat
      /\ None \notin Positions /\ StaticPos \in Positions
    BY BaseAssumption, RunAssumption DEF None
<1>1. CASE BaseTick
    BY <1>0, <1>1 DEF BaseTick, Least
<1>2. CASE StartClient
    <2>1. stop' \in BOOLEAN /\ orphan' \in BOOLEAN /\ failed' \in BOOLEAN
        BY <1>2 DEF StartClient
    <2> QED
        BY <1>0, <1>2, <2>1 DEF StartClient
<1>3. CASE SessionOpens
    BY <1>0, <1>3 DEF SessionOpens, NextLine
<1>4. CASE SessionFails
    BY <1>0, <1>4 DEF SessionFails, Least
<1>5. CASE Reconnect
    BY <1>0, <1>5 DEF Reconnect
<1>6. CASE IgnoreLine
    BY <1>0, <1>6 DEF IgnoreLine, NextLine
<1>7. ASSUME NEW p \in Positions, HandleFix(p)
      PROVE  BaseTypeOK'
    BY <1>0, <1>7 DEF HandleFix
<1>8. ASSUME NEW p \in Positions, AbsorbFix(p)
      PROVE  BaseTypeOK'
    BY <1>0, <1>8 DEF AbsorbFix, NextLine
<1>9. CASE UpsertBase
    BY <1>0, <1>9 DEF UpsertBase, WriteRow
<1>10. CASE PublishBase
    <2>1. stop' \in BOOLEAN /\ orphan' \in BOOLEAN /\ failed' \in BOOLEAN
        BY <1>10 DEF PublishBase
    <2> QED
        BY <1>0, <1>10, <2>1 DEF PublishBase, DoneWithFix, NextLine, Least
<1>11. CASE ApplyFails
    <2>1. stop' \in BOOLEAN /\ orphan' \in BOOLEAN /\ failed' \in BOOLEAN
        BY <1>11 DEF ApplyFails
    <2> QED
        BY <1>0, <1>11, <2>1 DEF ApplyFails, DoneWithFix, NextLine
<1>12. CASE OrphanWrites
    <2>1. stop' \in BOOLEAN /\ orphan' \in BOOLEAN /\ failed' \in BOOLEAN
        BY <1>12 DEF OrphanWrites
    <2> QED
        BY <1>0, <1>12, <2>1 DEF OrphanWrites, WriteRow
<1>13. CASE SetStop
    <2>1. stop' \in BOOLEAN /\ orphan' \in BOOLEAN /\ failed' \in BOOLEAN
        BY <1>13 DEF SetStop
    <2> QED
        BY <1>0, <1>13, <2>1 DEF SetStop
<1>14. CASE CancelClient
    <2>1. stop' \in BOOLEAN /\ orphan' \in BOOLEAN /\ failed' \in BOOLEAN
        BY <1>14 DEF CancelClient
    <2> QED
        BY <1>0, <1>14, <2>1 DEF CancelClient
<1>15. CASE ClientGone
    <2>1. stop' \in BOOLEAN /\ orphan' \in BOOLEAN /\ failed' \in BOOLEAN
        BY <1>15 DEF ClientGone
    <2> QED
        BY <1>0, <1>15, <2>1 DEF ClientGone
<1>16. CASE StaticMoves
    BY <1>0, <1>16 DEF StaticMoves
<1>17. CASE UNCHANGED locVars
    BY <1>17 DEF locVars
<1> QED
    BY <1>1, <1>2, <1>3, <1>4, <1>5, <1>6, <1>7, <1>8, <1>9, <1>10, <1>11, <1>12,
       <1>13, <1>14, <1>15, <1>16, <1>17
    DEF BaseMoves, ClientMoves

(* Each of them keeps what is served.                                      *)
LEMMA ServedStep ==
    ASSUME BaseInv, BaseMoves
    PROVE  (orphan => gps = "over")' /\ Served'
<1> USE DEF BaseInv, Served, clientVars, callbackVars, baseVars
<1>0. /\ Interval \in Nat \ {0} /\ MaxAge \in Nat /\ Interval <= MaxAge
      /\ fixAge \in Nat /\ rowAge \in Nat /\ quiet \in 0..Interval
      /\ rowAge <= MaxAge + 1
      /\ StaticPos \in Positions
    BY BaseAssumption, RunAssumption DEF BaseTypeOK
<1>1. CASE BaseTick
    (* All ages grow by one; quiet stops first.                            *)
    <2>1. /\ quiet' = IF quiet + 1 < Interval THEN quiet + 1 ELSE Interval
          /\ rowAge' = IF rowAge + 1 < MaxAge + 1 THEN rowAge + 1 ELSE MaxAge + 1
          /\ fix # None =>
                fixAge' = IF fixAge + 1 < MaxAge + 1 THEN fixAge + 1 ELSE MaxAge + 1
          /\ UNCHANGED <<gps, fix, last_pos, row, topic, orphan, failed>>
        BY <1>1 DEF BaseTick, Least
    <2>2. gps \in {"upsert", "publish"} \/ orphan => fix # None
        BY BaseAssumption DEF BaseTypeOK, None
    <2>3. quiet' < Interval => row' \in Positions /\ rowAge' <= quiet'
        BY <1>0, <2>1
    <2>4. gps' \in {"upsert", "publish"} \/ orphan' =>
              (quiet' < Interval => fixAge' <= quiet')
        BY <1>0, <2>1, <2>2
    <2>5. gps' = "publish" => row' = fix' /\ rowAge' = fixAge'
        BY <2>1, <2>2
    <2> QED
        BY <2>1, <2>3, <2>4, <2>5
<1>2. CASE gps = "off" /\ StartClient
    BY <1>0, <1>2 DEF StartClient
<1>3. CASE SessionOpens
    BY <1>3 DEF SessionOpens, NextLine
<1>4. CASE SessionFails
    BY <1>4 DEF SessionFails
<1>5. CASE Reconnect
    BY <1>5 DEF Reconnect
<1>6. CASE IgnoreLine
    BY <1>6 DEF IgnoreLine, NextLine
<1>7. ASSUME NEW p \in Positions, HandleFix(p)
      PROVE  (orphan => gps = "over")' /\ Served'
    BY <1>0, <1>7 DEF HandleFix
<1>8. ASSUME NEW p \in Positions, AbsorbFix(p)
      PROVE  (orphan => gps = "over")' /\ Served'
    BY <1>8 DEF AbsorbFix, NextLine
<1>9. CASE UpsertBase
    BY <1>0, <1>9 DEF UpsertBase, WriteRow, BaseTypeOK
<1>10. CASE PublishBase
    <2>1. /\ gps = "publish" /\ fix \in Positions
          /\ row = fix /\ rowAge = fixAge /\ ~orphan
          /\ quiet' = IF fixAge < Interval THEN fixAge ELSE Interval
          /\ topic' = fix /\ last_pos' = fix
          /\ gps' \in {"over", "readline"}
          /\ UNCHANGED <<row, rowAge, orphan>>
        BY <1>10 DEF PublishBase, DoneWithFix, NextLine, Least, BaseTypeOK
    <2> QED
        BY <1>0, <2>1
<1>11. CASE ApplyFails
    <2>1. /\ gps \in {"upsert", "publish"} /\ ~orphan
          /\ gps' \in {"over", "readline"}
          /\ failed'
          /\ UNCHANGED <<row, rowAge, quiet, orphan>>
        BY <1>11 DEF ApplyFails, DoneWithFix, NextLine
    <2> QED
        BY <2>1
<1>12. CASE OrphanWrites
    BY <1>0, <1>12 DEF OrphanWrites, WriteRow, BaseTypeOK
<1>13. CASE SetStop
    BY <1>13 DEF SetStop
<1>14. CASE CancelClient
    <2>1. /\ gps' = "over"
          /\ orphan' => gps = "upsert" /\ fixAge' = fixAge
          /\ UNCHANGED <<row, rowAge, quiet>>
        BY <1>14 DEF CancelClient
    <2> QED
        BY <2>1
<1>15. CASE ClientGone
    BY <1>0, <1>15 DEF ClientGone
<1>16. CASE StaticMoves
    BY <1>0, <1>16 DEF StaticMoves
<1>17. CASE UNCHANGED locVars
    BY <1>17 DEF locVars
<1> QED
    BY <1>1, <1>2, <1>3, <1>4, <1>5, <1>6, <1>7, <1>8, <1>9, <1>10, <1>11, <1>12,
       <1>13, <1>14, <1>15, <1>16, <1>17
    DEF BaseMoves, ClientMoves

(* What the greeting leads to, by the source of the base location.         *)
LEMMA HelloCases ==
    ASSUME RunTypeOK, Hello
    PROVE  \/ at' = "static" /\ UNCHANGED <<taskVars, locVars>>
           \/ EnterLoop /\ StartClient
           \/ EnterLoop /\ UNCHANGED locVars
<1>1. CASE source = "static"
    BY <1>1 DEF Hello
<1>2. CASE source = "gpsd"
    BY <1>2 DEF Hello
<1>3. CASE source = "mqtt"
    BY <1>3 DEF Hello
<1> QED
    BY <1>1, <1>2, <1>3 DEF RunTypeOK

(* A step of the service is one of these to the base location.             *)
LEMMA NextMovesBase ==
    ASSUME RunTypeOK, Tasks, Next
    PROVE  BaseMoves
<1> USE DEF BaseMoves
<1>1. CASE RunSteps
    <2>1. CASE Hello
        BY <2>1, HelloCases DEF Hello, Tasks
    <2>2. CASE StaticUpsert
        BY <2>2 DEF StaticUpsert, StaticMoves, GoTo, Tasks
    <2>3. CASE StaticPublish
        BY <2>3 DEF StaticPublish, StaticMoves, Tasks
    <2>4. CASE StopSweeper
        BY <2>4 DEF StopSweeper
    <2>5. CASE ClientStopTimesOut
        BY <2>5 DEF ClientStopTimesOut
    <2>6. CASE Exit
        BY <2>6 DEF Exit
    <2>7. CASE Connects \/ ConnectFails \/ StartFails \/ LoopFails \/ StopHeartbeat
               \/ ClientStopped \/ Goodbye \/ Disconnects
        BY <2>7 DEF Connects, ConnectFails, StartFails, LoopFails, StopHeartbeat,
                    ClientStopped, Goodbye, Disconnects
    <2> QED
        BY <1>1, <2>1, <2>2, <2>3, <2>4, <2>5, <2>6, <2>7 DEF RunSteps
<1>2. CASE ClientSteps \/ ClientApplyFails
    BY <1>2 DEF ClientSteps, ClientApplyFails, ClientMoves
<1>3. CASE Cancelled
    BY <1>3 DEF Cancelled
<1>4. CASE Kill \/ Tick
    BY <1>4 DEF Kill, Tick
<1>5. CASE Start \/ HeartbeatWakes \/ HeartbeatPublishes \/ SweeperSteps \/ Signal
           \/ LinkLost
    BY <1>5 DEF Start, HeartbeatWakes, HeartbeatPublishes, SweeperSteps, Signal,
                LinkLost
<1> QED
    BY <1>1, <1>2, <1>3, <1>4, <1>5 DEF Next

-----------------------------------------------------------------------------
(* The life of the service.                                                *)

(* Where the client's task goes in a step of its own: not back to "off",   *)
(* and nowhere once it is over.                                            *)
LEMMA ClientStaysOver ==
    ASSUME ClientMoves
    PROVE  /\ gps \in ClientOver => gps' = gps
           /\ gps \notin ClientOver => gps' # "off"
           /\ orphan' => orphan
BY DEF ClientMoves, ClientOver, SessionOpens, SessionFails, Reconnect, IgnoreLine,
       HandleFix, AbsorbFix, UpsertBase, PublishBase, ApplyFails, OrphanWrites,
       DoneWithFix, NextLine

(* Every step of run() and of the signal keeps the invariant.              *)
LEMMA RunStep ==
    ASSUME RunInv, orphan => gps = "over", Next
    PROVE  RunInv'
<1> USE DEF RunInv, RunTypeOK, Tasks, Announced, HealthTellsService, Serving,
            Stopping, ClientOver, GoTo, taskVars, boundVars
<1>1. CASE Start
    <2>1. link' \in BOOLEAN
        BY <1>1 DEF Start
    <2> QED
        BY <1>1, <2>1 DEF Start, locVars, clientVars
<1>2. CASE Connects
    BY <1>2 DEF Connects, locVars, clientVars
<1>3. CASE ConnectFails
    BY <1>3 DEF ConnectFails, Fault, locVars, clientVars
<1>4. CASE Hello
    <2>1. /\ at = "hello" /\ health' = "running"
          /\ UNCHANGED <<source, cancel, link, ended, boundVars>>
        BY <1>4 DEF Hello
    <2>2. CASE at' = "static" /\ UNCHANGED <<taskVars, locVars>>
        BY <2>1, <2>2 DEF locVars, clientVars
    <2>3. CASE EnterLoop /\ StartClient
        BY <2>1, <2>3 DEF EnterLoop, StartClient
    <2>4. CASE EnterLoop /\ UNCHANGED locVars
        BY <2>1, <2>4 DEF EnterLoop, locVars, clientVars
    <2> QED
        BY <1>4, <2>2, <2>3, <2>4, HelloCases
<1>5. CASE StaticUpsert
    BY <1>5 DEF StaticUpsert, clientVars
<1>6. CASE StaticPublish
    BY <1>6 DEF StaticPublish, EnterLoop, clientVars
<1>7. CASE StartFails
    BY <1>7 DEF StartFails, Fault, locVars, clientVars
<1>8. CASE LoopFails
    BY <1>8 DEF LoopFails, LeaveLoop, Fault, locVars, clientVars
<1>9. CASE StopHeartbeat
    BY <1>9 DEF StopHeartbeat, locVars, clientVars
<1>10. CASE StopSweeper
    BY <1>10 DEF StopSweeper, SetStop, locVars, clientVars
<1>11. CASE ClientStopped
    BY <1>11 DEF ClientStopped, locVars, clientVars
<1>12. CASE ClientStopTimesOut
    BY <1>12 DEF ClientStopTimesOut, CancelClient
<1>13. CASE Goodbye
    BY <1>13 DEF Goodbye, locVars, clientVars
<1>14. CASE Disconnects
    BY <1>14 DEF Disconnects, locVars, clientVars
<1>15. CASE Exit
    BY <1>15 DEF Exit, ClientGone
<1>16. CASE HeartbeatWakes
    BY <1>16 DEF HeartbeatWakes, locVars, clientVars
<1>17. CASE HeartbeatPublishes
    BY <1>17 DEF HeartbeatPublishes, locVars, clientVars
<1>18. CASE SweeperSteps
    BY <1>18 DEF SweeperSteps, locVars, clientVars
<1>19. CASE ClientSteps
    <2>1. ClientMoves /\ UNCHANGED runVars
        BY <1>19 DEF ClientSteps, ClientMoves
    <2> QED
        BY <2>1, ClientStaysOver DEF runVars
<1>20. CASE ClientApplyFails
    <2>1. /\ gps \notin ClientOver /\ gps' # "off" /\ ~orphan'
          /\ faults' \in Nat /\ starts' = starts
          /\ UNCHANGED <<at, source, cancel, link, taskVars, health, ended>>
        BY <1>20 DEF ClientApplyFails, ApplyFails, DoneWithFix, NextLine, Fault
    <2> QED
        BY <2>1
<1>21. CASE Signal
    BY <1>21 DEF Signal, locVars, clientVars
<1>22. CASE Cancelled
    <2>1. /\ cancel = "sent" /\ cancel' = "delivered"
          /\ UNCHANGED <<source, link, taskVars, boundVars>>
        BY <1>22 DEF Cancelled
    <2>2. CASE GoTo("connect", "drain") /\ UNCHANGED <<health, ended, locVars>>
        BY <2>1, <2>2 DEF locVars, clientVars
    <2>3. CASE GoTo("hello", "disconnect") /\ MaySay("running")
               /\ UNCHANGED <<ended, locVars>>
        BY <2>1, <2>3 DEF MaySay, locVars, clientVars
    <2>4. CASE at \in {"static", "static_publish"} /\ at' = "disconnect"
               /\ UNCHANGED <<health, ended, locVars>>
        BY <2>1, <2>4 DEF locVars, clientVars
    <2>5. CASE LeaveLoop("signal") /\ UNCHANGED <<health, locVars>>
        BY <2>1, <2>5 DEF LeaveLoop, locVars, clientVars
    <2>6. CASE at \in {"heartbeat", "sweeper"}
               /\ UNCHANGED <<at, health, ended, locVars>>
        BY <2>1, <2>6 DEF locVars, clientVars
    <2>7. CASE at = "gpsd" /\ at' \in {"goodbye", "disconnect"}
               /\ (IF gps \in ClientOver THEN UNCHANGED locVars ELSE CancelClient)
               /\ UNCHANGED <<health, ended>>
        BY <2>1, <2>7 DEF CancelClient, locVars, clientVars
    <2>8. CASE GoTo("goodbye", "disconnect") /\ MaySay("stopped")
               /\ UNCHANGED <<ended, locVars>>
        BY <2>1, <2>8 DEF MaySay, locVars, clientVars
    <2>9. CASE GoTo("disconnect", "drain") /\ UNCHANGED <<health, ended, locVars>>
        BY <2>1, <2>9 DEF locVars, clientVars
    <2>10. CASE GoTo("drain", "down") /\ ClientGone /\ UNCHANGED <<health, ended>>
        BY <2>1, <2>10 DEF ClientGone
    <2> QED
        BY <1>22, <2>2, <2>3, <2>4, <2>5, <2>6, <2>7, <2>8, <2>9, <2>10
        DEF Cancelled
<1>23. CASE LinkLost
    <2>1. link' \in BOOLEAN
        BY <1>23 DEF LinkLost
    <2> QED
        BY <1>23, <2>1 DEF LinkLost, Fault, locVars, clientVars
<1>24. CASE Kill
    BY <1>24 DEF Kill, Fault, ClientGone
<1>25. CASE Tick
    BY <1>25 DEF Tick, BaseTick, runVars
<1> QED
    BY <1>1, <1>2, <1>3, <1>4, <1>5, <1>6, <1>7, <1>8, <1>9, <1>10, <1>11, <1>12,
       <1>13, <1>14, <1>15, <1>16, <1>17, <1>18, <1>19, <1>20, <1>21, <1>22,
       <1>23, <1>24, <1>25
    DEF Next, RunSteps

-----------------------------------------------------------------------------
(* The theorems.                                                           *)

(* The two halves of the invariant say that the types are right.           *)
LEMMA TypesTogether == IInv => TypeOK
BY DEF IInv, BaseInv, RunInv, RunTypeOK, TypeOK

(* Nothing runs, nothing is stored.                                        *)
LEMMA InitInv == Init => IInv
<1> SUFFICES ASSUME Init
             PROVE  IInv
    OBVIOUS
<1>1. BaseInv
    <2>0. Interval \in Nat \ {0} /\ MaxAge \in Nat /\ MaxAttempt \in Nat
        BY BaseAssumption
    <2>1. stop \in BOOLEAN /\ orphan \in BOOLEAN /\ failed \in BOOLEAN
        BY DEF Init, BaseInit
    <2>2. BaseTypeOK
        BY <2>0, <2>1 DEF Init, BaseInit, BaseTypeOK, ClientOver
    <2> QED
        BY <2>0, <2>2 DEF Init, BaseInit, BaseInv, Served
<1>2. RunInv
    <2>1. link \in BOOLEAN
        BY DEF Init
    <2> QED
        BY <2>1 DEF Init, BaseInit, RunInv, RunTypeOK, Tasks, Announced,
                    HealthTellsService, Serving, ClientOver
<1> QED
    BY <1>1, <1>2 DEF IInv

(* Every step keeps the inductive invariant.                               *)
LEMMA NextInv == IInv /\ [Next]_vars => IInv'
<1> SUFFICES ASSUME IInv, [Next]_vars
             PROVE  IInv'
    OBVIOUS
<1>1. CASE Next
    <2>1. BaseMoves
        BY <1>1, NextMovesBase DEF IInv, RunInv
    <2>2. BaseInv'
        BY <2>1, BaseTypeStep, ServedStep DEF IInv, BaseInv
    <2>3. RunInv'
        BY <1>1, RunStep DEF IInv, BaseInv
    <2> QED
        BY <2>2, <2>3 DEF IInv
<1>2. CASE UNCHANGED vars
    <2>1. BaseMoves
        BY <1>2 DEF BaseMoves, vars
    <2>2. BaseInv'
        BY <2>1, BaseTypeStep, ServedStep DEF IInv, BaseInv
    <2>3. RunInv'
        BY <1>2 DEF IInv, vars, runVars, taskVars, boundVars, locVars, clientVars,
           RunInv, RunTypeOK, Tasks, Announced, HealthTellsService
    <2> QED
        BY <2>2, <2>3 DEF IInv
<1> QED
    BY <1>1, <1>2

(* The inductive invariant holds of every behaviour.                       *)
THEOREM Invariance == Spec => []IInv
BY InitInv, NextInv, PTL DEF Spec

(* The types hold for any positions, periods and number of lives; the index*)
(* into _RECONNECT_DELAYS stays in its range (gpsd.py:86-97).              *)
THEOREM TypeCorrect == Spec => []TypeOK
BY TypesTogether, Invariance, PTL

(* The retained health message: "stopped" is the last word of a process,   *)
(* and a service that serves says so (service.py:152-168).                 *)
THEOREM HealthIsTrue == Spec => []HealthTellsService
<1>1. IInv => HealthTellsService
    BY DEF IInv, RunInv
<1> QED
    BY <1>1, Invariance, PTL

(* Wherever signals and errors end run(), no task is left when the store is*)
(* closed (service.py:159-175).                                            *)
THEOREM TasksEndFirst == Spec => []NothingOutlivesStore
<1>1. IInv => NothingOutlivesStore
    BY DEF IInv, RunInv, Tasks, NothingOutlivesStore
<1> QED
    BY <1>1, Invariance, PTL

(* A stop while serving is announced if the broker can be reached          *)
(* (service.py:167-170).                                                   *)
THEOREM StopIsAnnounced == Spec => []GracefulStopIsAnnounced
<1>1. IInv => GracefulStopIsAnnounced
    BY DEF IInv, RunInv, Announced, GracefulStopIsAnnounced
<1> QED
    BY <1>1, Invariance, PTL

(* An absorbed fix is served by a fresh row within the distance that counts*)
(* as standing still, for any interval no longer than the age at which a   *)
(* position is stale (service.py:288-308).                                 *)
THEOREM AbsorbedIsServed == Spec => AbsorbedFixIsServed
<1>1. ASSUME IInv, NEW p \in Positions, AbsorbFix(p)
      PROVE  /\ BaseAnswer = "ok"
             /\ rowAge < Interval
             /\ ~failed => Distance(row, p) <= 1 /\ Distance(topic, p) <= 1
    <2>0. /\ Interval \in Nat /\ MaxAge \in Nat /\ Interval <= MaxAge
          /\ Positions \subseteq Nat
        BY BaseAssumption
    <2>1. /\ gps = "readline" /\ quiet < Interval
          /\ last_pos # None /\ ~(Distance(p, last_pos) > 1)
        BY <1>1 DEF AbsorbFix, Moved
    <2>2. /\ row \in Positions /\ rowAge <= quiet
          /\ rowAge \in Nat /\ quiet \in Nat
          /\ last_pos \in Positions
        BY <1>1, <2>0, <2>1 DEF IInv, BaseInv, BaseTypeOK, Served
    <2>3. rowAge < Interval
        BY <2>0, <2>1, <2>2
    <2>4. row # None /\ ~(rowAge > MaxAge)
        BY <2>0, <2>2, <2>3 DEF None
    <2>5. BaseAnswer = "ok"
        BY <2>4 DEF BaseAnswer
    <2>6. ~failed => row = last_pos /\ topic = last_pos
        BY <1>1, <2>1 DEF IInv, BaseInv, Served
    <2>7. Distance(last_pos, p) <= 1
        BY <2>0, <2>1, <2>2 DEF Distance
    <2> QED
        BY <2>3, <2>5, <2>6, <2>7
<1>2. IInv => [\A p \in Positions :
                   (AbsorbFix(p) /\ UNCHANGED runVars) =>
                       /\ BaseAnswer = "ok"
                       /\ rowAge < Interval
                       /\ ~failed => Distance(row, p) <= 1 /\ Distance(topic, p) <= 1]_vars
    BY <1>1
<1> QED
    BY <1>2, Invariance, PTL DEF AbsorbedFixIsServed

=============================================================================
