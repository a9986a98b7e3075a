----------------------------- MODULE BaseLocation ----------------------------
(***************************************************************************)
(* Where the base is: the task of GpsdClient (gpsd.py), the callback on_fix*)
(* of the service (transport/service.py), the base_state row and the       *)
(* retained topic mc/base/location that apply_base_location (state.py)     *)
(* writes, and what the handlers base.location and return_to_base answer   *)
(* from the row.                                                           *)
(*                                                                         *)
(* Positions are points on a line, in units of the distance on_fix absorbs:*)
(* it takes a fix to have moved when it is further than one unit away.  A  *)
(* time is kept as the ticks that have passed since, and counted no further*)
(* than its largest threshold, so the clock itself is not bounded.         *)
(***************************************************************************)
EXTENDS Integers

CONSTANTS
    Positions,    \* positions GPSD reports
    Interval,     \* publish_interval_s, in ticks
    MaxAge,       \* BASE_MAX_AGE_S and _MAX_AGE_S, in ticks
    MaxAttempt    \* the last index of _RECONNECT_DELAYS

(* BaseLocationConfig does not relate the two periods.  Were the interval  *)
(* the longer one, a base that stands still would be stale between two     *)
(* publishes; the defaults are 30 s and 600 s.                             *)
ASSUME BaseAssumption ==
    /\ Positions \subseteq Nat
    /\ Interval \in Nat \ {0}
    /\ MaxAge \in Nat
    /\ Interval <= MaxAge
    /\ MaxAttempt \in Nat

None == -1                     \* no position yet

VARIABLES
    gps,          \* the await the client's task is suspended at
    stop,         \* GpsdClient._stop
    attempt,      \* _run's `attempt', as an index into _RECONNECT_DELAYS
    fix, fixAge,  \* the fix on_fix is working on
    last_pos,     \* on_fix's last_pos
    quiet,        \* ticks since on_fix's last_publish
    row, rowAge,  \* base_state: position and age of key "location"
    topic,        \* mc/base/location: the position retained
    orphan,       \* a worker thread still has the upsert of a cancelled task
    failed        \* history: an apply failed after the last that succeeded

clientVars == <<gps, stop, attempt, fix, fixAge>>
callbackVars == <<last_pos, quiet>>
baseVars == <<row, rowAge, topic>>
locVars == <<clientVars, callbackVars, baseVars, orphan, failed>>

Least(a, b) == IF a < b THEN a ELSE b
Distance(a, b) == IF a < b THEN b - a ELSE a - b

ClientOver == {"off", "over"}
InSession == {"connect", "readline", "upsert", "publish"}

BaseTypeOK ==
    /\ gps \in ClientOver \cup InSession \cup {"backoff"}
    /\ stop \in BOOLEAN
    /\ attempt \in 0..MaxAttempt
    /\ fix \in Positions \cup {None}
    /\ fixAge \in 0..MaxAge + 1
    /\ (gps \in {"upsert", "publish"} \/ orphan) => fix \in Positions
    /\ last_pos \in Positions \cup {None}
    /\ quiet \in 0..Interval
    /\ row \in Positions \cup {None}
    /\ rowAge \in 0..MaxAge + 1
    /\ topic \in Positions \cup {None}
    /\ orphan \in BOOLEAN
    /\ failed \in BOOLEAN

BaseInit ==
    /\ gps = "off"
    /\ stop = FALSE
    /\ attempt = 0
    /\ fix = None
    /\ fixAge = 0
    /\ last_pos = None
    /\ quiet = Interval
    /\ row = None
    /\ rowAge = 0
    /\ topic = None
    /\ orphan = FALSE
    /\ failed = FALSE

(* time.time() advances.                                                   *)
BaseTick ==
    /\ fixAge' = IF fix = None THEN 0 ELSE Least(fixAge + 1, MaxAge + 1)
    /\ rowAge' = Least(rowAge + 1, MaxAge + 1)
    /\ quiet' = Least(quiet + 1, Interval)
    /\ UNCHANGED <<gps, stop, attempt, fix, last_pos, row, topic, orphan, failed>>

(* What base.location answers, and return_to_base as far as the base is    *)
(* concerned.                                                              *)
BaseAnswer ==
    IF row = None THEN "unavailable"
    ELSE IF rowAge > MaxAge THEN "stale" ELSE "ok"

-----------------------------------------------------------------------------
(* The task of GpsdClient.                                                 *)

(* _init_gpsd_base: a new client, a new closure on_fix, and start().       *)
StartClient ==
    /\ gps' = "connect"
    /\ stop' = FALSE
    /\ attempt' = 0
    /\ last_pos' = None
    /\ quiet' = Interval
    /\ failed' = FALSE
    /\ UNCHANGED <<fix, fixAge, baseVars, orphan>>

(* The while condition of _session, with the return that follows it.       *)
NextLine ==
    /\ gps' = IF stop THEN "over" ELSE "readline"
    /\ attempt' = IF stop THEN 0 ELSE attempt

(* open_connection, the banner if it comes, and ?WATCH have gone through.  *)
SessionOpens ==
    /\ gps = "connect"
    /\ NextLine
    /\ UNCHANGED <<stop, fix, fixAge, callbackVars, baseVars, orphan, failed>>

(* Mutant of SessionFails: the index runs past _RECONNECT_DELAYS.          *)
AttemptUnbounded ==
    /\ gps \in {"connect", "readline"}
    /\ gps' = IF stop THEN "over" ELSE "backoff"
    /\ attempt' = IF stop THEN attempt ELSE attempt + 1
    /\ UNCHANGED <<stop, fix, fixAge, callbackVars, baseVars, orphan, failed>>

(* The session ends in an exception: no connection, EOF, a reset.          *)
SessionFails ==
    /\ gps \in {"connect", "readline"}
    /\ gps' = IF stop THEN "over" ELSE "backoff"
    /\ attempt' = IF stop THEN attempt ELSE Least(attempt + 1, MaxAttempt)
    /\ UNCHANGED <<stop, fix, fixAge, callbackVars, baseVars, orphan, failed>>

(* The delay has passed, or stop() ends it.                                *)
Reconnect ==
    /\ gps = "backoff"
    /\ gps' = IF stop THEN "over" ELSE "connect"
    /\ UNCHANGED <<stop, attempt, fix, fixAge, callbackVars, baseVars, orphan, failed>>

(* on_fix is through with the fix.                                         *)
DoneWithFix ==
    /\ fix' = None
    /\ fixAge' = 0
    /\ NextLine

Moved(p) == last_pos = None \/ Distance(p, last_pos) > 1

(* A line that is no TPV, or whose fix has no position or is not accurate  *)
(* enough.                                                                 *)
IgnoreLine ==
    /\ gps = "readline"
    /\ NextLine
    /\ UNCHANGED <<stop, fix, fixAge, callbackVars, baseVars, orphan, failed>>

(* A usable fix: mode 2 or 3, numbers for its coordinates, and accurate    *)
(* enough; on_fix goes on to apply_base_location.                          *)
HandleFix(p) ==
    /\ gps = "readline"
    /\ Moved(p) \/ quiet >= Interval
    /\ gps' = "upsert"
    /\ fix' = p
    /\ fixAge' = 0
    /\ UNCHANGED <<stop, attempt, callbackVars, baseVars, orphan, failed>>

(* Mutant of AbsorbFix: last_pos follows the receiver.                     *)
AbsorbAndFollow(p) ==
    /\ gps = "readline"
    /\ ~Moved(p) /\ quiet < Interval
    /\ NextLine
    /\ last_pos' = p
    /\ UNCHANGED <<stop, fix, fixAge, quiet, baseVars, orphan, failed>>

(* on_fix returns at once: the fix is close to the one published last, and *)
(* that one is recent.                                                     *)
AbsorbFix(p) ==
    /\ gps = "readline"
    /\ ~Moved(p) /\ quiet < Interval
    /\ NextLine
    /\ UNCHANGED <<stop, fix, fixAge, callbackVars, baseVars, orphan, failed>>

WriteRow ==
    /\ row' = fix
    /\ rowAge' = fixAge

(* apply_base_location: the row, then the topic.                           *)
UpsertBase ==
    /\ gps = "upsert"
    /\ WriteRow
    /\ gps' = "publish"
    /\ UNCHANGED <<stop, attempt, fix, fixAge, callbackVars, topic, orphan, failed>>

PublishBase ==
    /\ gps = "publish"
    /\ topic' = fix
    /\ quiet' = Least(fixAge, Interval)
    /\ last_pos' = fix
    /\ failed' = FALSE
    /\ DoneWithFix
    /\ UNCHANGED <<stop, row, rowAge, orphan>>

(* on_fix raised and _session logs it: the row may be written, the message *)
(* may have reached the broker although its acknowledgement did not come.  *)
ApplyFails ==
    /\ gps \in {"upsert", "publish"}
    /\ topic' \in IF gps = "publish" THEN {topic, fix} ELSE {topic}
    /\ failed' = TRUE
    /\ DoneWithFix
    /\ UNCHANGED <<stop, callbackVars, row, rowAge, orphan>>

-----------------------------------------------------------------------------
(* GpsdClient.stop, called once when the service shuts down.               *)

SetStop ==
    /\ stop' = TRUE
    /\ UNCHANGED <<gps, attempt, fix, fixAge, callbackVars, baseVars, orphan, failed>>

(* Two seconds have passed, or the caller is cancelled itself: the task is *)
(* cancelled, but not the worker thread it may be waiting for.             *)
CancelClient ==
    /\ gps \notin ClientOver
    /\ gps' = "over"
    /\ orphan' = (gps = "upsert")
    /\ fix' = IF orphan' THEN fix ELSE None
    /\ fixAge' = IF orphan' THEN fixAge ELSE 0
    /\ failed' = (failed \/ gps \in {"upsert", "publish"})
    /\ topic' \in IF gps = "publish" THEN {topic, fix} ELSE {topic}
    /\ UNCHANGED <<stop, attempt, callbackVars, row, rowAge>>

(* The thread gets to its upsert after all.                                *)
OrphanWrites ==
    /\ orphan
    /\ WriteRow
    /\ orphan' = FALSE
    /\ fix' = None
    /\ fixAge' = 0
    /\ UNCHANGED <<gps, stop, attempt, callbackVars, topic, failed>>

(* The process is over, with whatever its threads had left to do; the row  *)
(* and the retained message stay.                                          *)
ClientGone ==
    /\ gps' = "off"
    /\ stop' = FALSE
    /\ attempt' = 0
    /\ fix' = None
    /\ fixAge' = 0
    /\ last_pos' = None
    /\ quiet' = Interval
    /\ orphan' = FALSE
    /\ failed' = FALSE
    /\ UNCHANGED baseVars

=============================================================================
