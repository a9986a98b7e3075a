---------------------------- MODULE RpcPipeline -----------------------------
(***************************************************************************)
(* The life of an RPC request: Service._handle_one and core.process_request*)
(* run as one asyncio task per delivered message, over the shared request  *)
(* tables, while the retention sweeper and the `purge' command delete rows *)
(* and the service is stopped, killed and started again.                   *)
(*                                                                         *)
(* pc[d] names the await at which the task of delivery d is suspended.     *)
(* Everything between two awaits is one step of the event loop and one     *)
(* action here.                                                            *)
(***************************************************************************)
EXTENDS RequestStore, FiniteSets

CONSTANTS
    Types,        \* values of a request's type field
    Registered,   \* the types Router has a handler for
    NoReq,        \* no validated request
    HandlerCodes, \* error codes a handler can end with
    RetentionDays,\* service.retention.days, in ticks
    CliDays,      \* values of `purge --days', in ticks
    TaskSpan,     \* longest life of a request task, in ticks
    MaxTime,      \* bound: ticks of the clock
    MaxFaults,    \* bound: store and broker errors injected
    MaxStops      \* bound: stops and crashes of the service

Request == [key : Keys, type : Types]

(* RetentionSweeper refuses days < 1, and a task is over within a day: its *)
(* handler by the clamped TTL, its publish by the client's timeout, each   *)
(* statement by sqlite's busy timeout.                                     *)
ASSUME PipelineAssumption ==
    /\ Registered \subseteq Types
    /\ NoReq \notin Request
    /\ HandlerCodes \subseteq ErrorCodes
    /\ RetentionDays \in Nat
    /\ CliDays \subseteq Nat
    /\ TaskSpan \in Nat
    /\ TaskSpan <= RetentionDays
    /\ \A days \in CliDays : TaskSpan <= days
    /\ MaxTime \in Nat
    /\ MaxFaults \in Nat
    /\ MaxStops \in Nat

VARIABLES
    svc,          \* where Service.run is
    pc,           \* the await each task is suspended at
    req,          \* the task's validated request
    fresh,        \* what record_received told the task
    resp,         \* the response the task has built: "ok" or an error code
    born,         \* when the message was delivered
    seen_ts,      \* the time.time() argument of the task's mark_node_seen
    in_flight,    \* PendingTracker._in_flight
    answered,     \* history: deliveries whose response reached the broker
    executed,     \* history: deliveries whose handler was started
    faults, stops \* how much of the fault bounds is used up

taskVars == <<pc, req, fresh, resp, born, seen_ts>>
histVars == <<answered, executed>>
envVars  == <<faults, stops>>
vars == <<storeVars, svc, taskVars, in_flight, histVars, envVars>>

(* Awaits of process_request, in the order the code reaches them.          *)
PreHandler == {"record_received", "duplicate_ev", "validated_ev", "mark_seen",
               "unknown_ev", "started_ev"}
PostHandler == {"timeout_ev", "emit", "publishing", "published_ev", "complete"}
LivePc == PreHandler \cup {"handler"} \cup PostHandler

(* A task is over: it returned, an exception escaped it, or its process    *)
(* went away under it.                                                     *)
EndedPc == {"done", "died", "lost"}

Live(d) == pc[d] \in LivePc

Responses == {"none", "ok"} \cup ErrorCodes

TaskTypeOK ==
    /\ svc \in {"running", "stopping", "draining", "down"}
    /\ pc \in [Deliveries -> {"none"} \cup LivePc \cup EndedPc]
    /\ req \in [Deliveries -> Request \cup {NoReq}]
    /\ fresh \in [Deliveries -> {"unknown", "fresh", "duplicate", "failed"}]
    /\ resp \in [Deliveries -> Responses]
    /\ born \in [Deliveries -> Nat]
    /\ seen_ts \in [Deliveries -> Nat \cup {Null}]
    /\ in_flight \in Nat
    /\ answered \subseteq Deliveries
    /\ executed \subseteq Deliveries
    /\ faults \in Nat
    /\ stops \in Nat

(* Every variable holds a value the code can store in it.                  *)
TypeOK == StoreTypeOK /\ TaskTypeOK

Init ==
    /\ StoreInit
    /\ svc = "down"
    /\ pc = [d \in Deliveries |-> "none"]
    /\ req = [d \in Deliveries |-> NoReq]
    /\ fresh = [d \in Deliveries |-> "unknown"]
    /\ resp = [d \in Deliveries |-> "none"]
    /\ born = [d \in Deliveries |-> 0]
    /\ seen_ts = [d \in Deliveries |-> Null]
    /\ in_flight = 0
    /\ answered = {}
    /\ executed = {}
    /\ faults = 0
    /\ stops = 0

-----------------------------------------------------------------------------
(* Building blocks.                                                        *)

KeyOf(d) == req[d].key

GoTo(d, from, to) ==
    /\ pc[d] = from
    /\ pc' = [pc EXCEPT ![d] = to]

(* _emit_error_final and the success path both build the response first    *)
(* and then enter _publish_and_finalize.                                   *)
Respond(d, from, r) ==
    /\ GoTo(d, from, "emit")
    /\ resp' = [resp EXCEPT ![d] = r]

InjectFault ==
    /\ faults < MaxFaults
    /\ faults' = faults + 1
    /\ UNCHANGED stops

-----------------------------------------------------------------------------
(* Service._consume_loop and Service._handle_one up to the first await.    *)

(* Not JSON, not an object, or without id and from: dropped.               *)
DeliverGarbage(d) ==
    /\ svc = "running"
    /\ GoTo(d, "none", "done")
    /\ UNCHANGED <<storeVars, svc, req, fresh, resp, born, seen_ts, in_flight,
                   histVars, envVars>>

(* Fails validation but names a sender: answered bad_request, not stored.  *)
DeliverMalformed(d) ==
    /\ svc = "running"
    /\ Respond(d, "none", "bad_request")
    /\ born' = [born EXCEPT ![d] = now]
    /\ UNCHANGED <<storeVars, svc, req, fresh, seen_ts, in_flight, histVars,
                   envVars>>

DeliverRequest(d, r) ==
    /\ svc = "running"
    /\ GoTo(d, "none", "record_received")
    /\ req' = [req EXCEPT ![d] = r]
    /\ born' = [born EXCEPT ![d] = now]
    /\ UNCHANGED <<storeVars, svc, fresh, resp, seen_ts, in_flight, histVars,
                   envVars>>

-----------------------------------------------------------------------------
(* process_request before the handler.                                     *)

RecordReceivedFresh(d) ==
    /\ GoTo(d, "record_received", "validated_ev")
    /\ InsertReceived(d, KeyOf(d))
    /\ fresh' = [fresh EXCEPT ![d] = "fresh"]
    /\ UNCHANGED <<svc, req, resp, born, seen_ts, in_flight, histVars, envVars>>

RecordReceivedDuplicate(d) ==
    /\ GoTo(d, "record_received", "duplicate_ev")
    /\ IgnoreReceived(KeyOf(d))
    /\ fresh' = [fresh EXCEPT ![d] = "duplicate"]
    /\ UNCHANGED <<svc, req, resp, born, seen_ts, in_flight, histVars, envVars>>

(* The only store call whose exception the pipeline answers.               *)
RecordReceivedFails(d) ==
    /\ Respond(d, "record_received", "internal")
    /\ InjectFault
    /\ fresh' = [fresh EXCEPT ![d] = "failed"]
    /\ UNCHANGED <<storeVars, svc, req, born, seen_ts, in_flight, histVars>>

RecordDuplicate(d) ==
    /\ Respond(d, "duplicate_ev", "duplicate")
    /\ InsertEvent(d, KeyOf(d), "rejected")
    /\ UNCHANGED <<svc, req, fresh, born, seen_ts, in_flight, histVars, envVars>>

(* time.time() is evaluated here and written by the next await.            *)
RecordValidated(d) ==
    /\ GoTo(d, "validated_ev", "mark_seen")
    /\ InsertEvent(d, KeyOf(d), "validated")
    /\ seen_ts' = [seen_ts EXCEPT ![d] = now]
    /\ UNCHANGED <<svc, req, fresh, resp, born, in_flight, histVars, envVars>>

(* mark_node_seen, then Router.resolve.                                    *)
MarkSeen(d) ==
    /\ GoTo(d, "mark_seen",
            IF req[d].type \in Registered THEN "started_ev" ELSE "unknown_ev")
    /\ MarkNodeSeen(KeyOf(d)[1], seen_ts[d])
    /\ seen_ts' = [seen_ts EXCEPT ![d] = Null]
    /\ UNCHANGED <<svc, req, fresh, resp, born, in_flight, histVars, envVars>>

(* Mutant of RejectUnknown: finalized without an answer.                   *)
RejectUnknownSilently(d) ==
    /\ GoTo(d, "unknown_ev", "complete")
    /\ resp' = [resp EXCEPT ![d] = "unknown_type"]
    /\ InsertEvent(d, KeyOf(d), "rejected")
    /\ UNCHANGED <<svc, req, fresh, born, seen_ts, in_flight, histVars, envVars>>

RejectUnknown(d) ==
    /\ Respond(d, "unknown_ev", "unknown_type")
    /\ InsertEvent(d, KeyOf(d), "rejected")
    /\ UNCHANGED <<svc, req, fresh, born, seen_ts, in_flight, histVars, envVars>>

(* handler_started is logged, then run_with_timeout counts the handler in. *)
StartHandler(d) ==
    /\ GoTo(d, "started_ev", "handler")
    /\ InsertEvent(d, KeyOf(d), "handler_started")
    /\ in_flight' = in_flight + 1
    /\ executed' = executed \cup {d}
    /\ UNCHANGED <<svc, req, fresh, resp, born, seen_ts, answered, envVars>>

-----------------------------------------------------------------------------
(* The handler ends: run_with_timeout's finally counts it out, once.       *)

HandlerCountedOut == in_flight' = IF in_flight > 0 THEN in_flight - 1 ELSE 0

HandlerReturns(d) ==
    /\ Respond(d, "handler", "ok")
    /\ HandlerCountedOut
    /\ UNCHANGED <<storeVars, svc, req, fresh, born, seen_ts, histVars, envVars>>

(* RpcError keeps its code, any other exception becomes internal.          *)
HandlerRaises(d, code) ==
    /\ Respond(d, "handler", code)
    /\ HandlerCountedOut
    /\ UNCHANGED <<storeVars, svc, req, fresh, born, seen_ts, histVars, envVars>>

(* Mutant of HandlerTimesOut: the count is only taken back on a return.    *)
TimeoutKeepsCount(d) ==
    /\ GoTo(d, "handler", "timeout_ev")
    /\ UNCHANGED <<storeVars, svc, req, fresh, resp, born, seen_ts, in_flight,
                   histVars, envVars>>

(* Mutant of HandlerTimesOut: wait_for without a timeout.                  *)
NeverTimesOut(d) == FALSE

HandlerTimesOut(d) ==
    /\ GoTo(d, "handler", "timeout_ev")
    /\ HandlerCountedOut
    /\ UNCHANGED <<storeVars, svc, req, fresh, resp, born, seen_ts, histVars,
                   envVars>>

RecordTimeout(d) ==
    /\ Respond(d, "timeout_ev", "timeout")
    /\ InsertEvent(d, KeyOf(d), "timeout")
    /\ UNCHANGED <<svc, req, fresh, born, seen_ts, in_flight, histVars, envVars>>

-----------------------------------------------------------------------------
(* Service._emit, MqttBus.publish and _publish_and_finalize.               *)

Connected == svc \in {"running", "stopping"}

(* Mutant of AfterEmit: a publish error leaves _publish_and_finalize.      *)
GiveUpAfterEmit(d) == "done"

(* Where a failed publish leads: _handle_one and _publish_and_finalize     *)
(* both swallow the exception, only the latter goes on.                    *)
AfterEmit(d) == IF req[d] = NoReq THEN "done" ELSE "complete"

(* Mutant of CallPublish: the publish is not awaited.                      *)
FireAndForget(d) ==
    /\ GoTo(d, "emit", IF Connected /\ req[d] # NoReq THEN "published_ev" ELSE AfterEmit(d))
    /\ UNCHANGED <<storeVars, svc, req, fresh, resp, born, seen_ts, in_flight,
                   histVars, envVars>>

CallPublish(d) ==
    /\ GoTo(d, "emit", IF Connected THEN "publishing" ELSE AfterEmit(d))
    /\ UNCHANGED <<storeVars, svc, req, fresh, resp, born, seen_ts, in_flight,
                   histVars, envVars>>

PublishAcked(d) ==
    /\ Connected
    /\ GoTo(d, "publishing", IF req[d] = NoReq THEN "done" ELSE "published_ev")
    /\ answered' = answered \cup {d}
    /\ UNCHANGED <<storeVars, svc, req, fresh, resp, born, seen_ts, in_flight,
                   executed, envVars>>

(* The client raises or times out; the message may have arrived all the    *)
(* same.  After the disconnect no acknowledgement can come.                *)
PublishFails(d) ==
    /\ GoTo(d, "publishing", AfterEmit(d))
    /\ IF Connected THEN InjectFault ELSE UNCHANGED envVars
    /\ answered' \in {answered, answered \cup {d}}
    /\ UNCHANGED <<storeVars, svc, req, fresh, resp, born, seen_ts, in_flight,
                   executed>>

RecordPublished(d) ==
    /\ GoTo(d, "published_ev", "complete")
    /\ InsertEvent(d, KeyOf(d), "response_published")
    /\ UNCHANGED <<svc, req, fresh, resp, born, seen_ts, in_flight, histVars,
                   envVars>>

(* Logged as "Failed to emit response" and swallowed.                      *)
RecordPublishedFails(d) ==
    /\ GoTo(d, "published_ev", "complete")
    /\ InjectFault
    /\ UNCHANGED <<storeVars, svc, req, fresh, resp, born, seen_ts, in_flight,
                   histVars>>

(* Mutant of RecordCompletion: a duplicate is finalized as a success.      *)
CompleteDuplicateOk(d) ==
    /\ GoTo(d, "complete", "done")
    /\ IF resp[d] \in {"ok", "duplicate"}
       THEN UpdateCompletion(KeyOf(d), "completed_ok", "null")
       ELSE UpdateCompletion(KeyOf(d), "completed_error", resp[d])
    /\ UNCHANGED <<svc, req, fresh, resp, born, seen_ts, in_flight, histVars,
                   envVars>>

(* Mutant of RecordCompletion: a timeout as a final state of its own.      *)
CompleteTimeoutState(d) ==
    /\ GoTo(d, "complete", "done")
    /\ CASE resp[d] = "ok" -> UpdateCompletion(KeyOf(d), "completed_ok", "null")
         [] resp[d] = "timeout" -> UpdateCompletion(KeyOf(d), "timeout", "timeout")
         [] OTHER -> UpdateCompletion(KeyOf(d), "completed_error", resp[d])
    /\ UNCHANGED <<svc, req, fresh, resp, born, seen_ts, in_flight, histVars,
                   envVars>>

RecordCompletion(d) ==
    /\ GoTo(d, "complete", "done")
    /\ IF resp[d] = "ok"
       THEN UpdateCompletion(KeyOf(d), "completed_ok", "null")
       ELSE UpdateCompletion(KeyOf(d), "completed_error", resp[d])
    /\ UNCHANGED <<svc, req, fresh, resp, born, seen_ts, in_flight, histVars,
                   envVars>>

(* An exception from a store call that nothing catches ends the task.      *)
UnguardedPc == {"duplicate_ev", "validated_ev", "mark_seen", "unknown_ev",
                "started_ev", "timeout_ev", "complete"}

StoreRaises(d) ==
    /\ pc[d] \in UnguardedPc
    /\ pc' = [pc EXCEPT ![d] = "died"]
    /\ InjectFault
    /\ UNCHANGED <<storeVars, svc, req, fresh, resp, born, seen_ts, in_flight,
                   histVars>>

-----------------------------------------------------------------------------
(* Retention.                                                              *)

(* RetentionSweeper.run_once.  Cancelling the sweeper does not stop a      *)
(* purge its worker thread has begun, so it can land while the service     *)
(* drains.                                                                 *)
Sweep ==
    /\ svc # "down"
    /\ PurgeBefore(now - RetentionDays)
    /\ UNCHANGED <<svc, taskVars, in_flight, histVars, envVars>>

(* `meshcore-rpc-services purge', a process of its own.                    *)
PurgeCli(days) ==
    /\ PurgeBefore(now - days)
    /\ UNCHANGED <<svc, taskVars, in_flight, histVars, envVars>>

-----------------------------------------------------------------------------
(* Service.run and the process around it.                                  *)

(* Store(...) opens the same file; rows left pending are not looked at.    *)
Start ==
    /\ svc = "down"
    /\ svc' = "running"
    /\ in_flight' = 0
    /\ UNCHANGED <<storeVars, taskVars, histVars, envVars>>

LoseTasks == pc' = [d \in Deliveries |-> IF Live(d) THEN "lost" ELSE pc[d]]

(* SIGTERM cancels run(), or the broker connection is lost: the consume    *)
(* loop ends, tasks go on.                                                 *)
StopConsuming ==
    /\ svc = "running"
    /\ stops < MaxStops
    /\ svc' = "stopping"
    /\ stops' = stops + 1
    /\ UNCHANGED <<storeVars, taskVars, in_flight, histVars, faults>>

(* Leaving `async with self._bus.connect()' clears the client.             *)
Disconnect ==
    /\ svc = "stopping"
    /\ svc' = "draining"
    /\ UNCHANGED <<storeVars, taskVars, in_flight, histVars, envVars>>

(* The tasks are done or the 5 s wait is over: the store is closed and     *)
(* whatever still runs can no longer write.                                *)
CloseStore ==
    /\ svc = "draining"
    /\ svc' = "down"
    /\ LoseTasks
    /\ UNCHANGED <<storeVars, req, fresh, resp, born, seen_ts, in_flight,
                   histVars, envVars>>

(* The process is killed: committed transactions stay in the WAL file.     *)
Crash ==
    /\ svc # "down"
    /\ stops < MaxStops
    /\ svc' = "down"
    /\ stops' = stops + 1
    /\ LoseTasks
    /\ UNCHANGED <<storeVars, req, fresh, resp, born, seen_ts, in_flight,
                   histVars, faults>>

(* Time passes, but no task outlives its span.                             *)
Tick ==
    /\ now < MaxTime
    /\ \A d \in Deliveries : Live(d) => now < born[d] + TaskSpan
    /\ now' = now + 1
    /\ UNCHANGED <<requests, events, last_seen, svc, taskVars, in_flight,
                   histVars, envVars>>

-----------------------------------------------------------------------------

(* The awaits of a task that end by themselves: a thread-pool statement, a *)
(* publish, or the TTL of a handler.                                       *)
Progress(d) ==
    \/ RecordReceivedFresh(d)
    \/ RecordReceivedDuplicate(d)
    \/ RecordReceivedFails(d)
    \/ RecordDuplicate(d)
    \/ RecordValidated(d)
    \/ MarkSeen(d)
    \/ RejectUnknown(d)
    \/ StartHandler(d)
    \/ HandlerTimesOut(d)
    \/ RecordTimeout(d)
    \/ CallPublish(d)
    \/ PublishAcked(d)
    \/ PublishFails(d)
    \/ RecordPublished(d)
    \/ RecordPublishedFails(d)
    \/ RecordCompletion(d)
    \/ StoreRaises(d)

(* A handler may end before its TTL, or hang.                              *)
HandlerEnds(d) ==
    \/ HandlerReturns(d)
    \/ \E code \in HandlerCodes : HandlerRaises(d, code)

Deliver(d) ==
    \/ DeliverGarbage(d)
    \/ DeliverMalformed(d)
    \/ \E r \in Request : DeliverRequest(d, r)

Purge ==
    \/ Sweep
    \/ \E days \in CliDays : PurgeCli(days)

Lifecycle ==
    \/ Start
    \/ StopConsuming
    \/ Disconnect
    \/ CloseStore
    \/ Crash

Next ==
    \/ \E d \in Deliveries : Deliver(d) \/ Progress(d) \/ HandlerEnds(d)
    \/ Purge
    \/ Lifecycle
    \/ Tick

Spec == Init /\ [][Next]_vars

(* The event loop resumes every task whose await has ended, and every one  *)
(* of these awaits ends; a handler is only promised its TTL.  A stopping   *)
(* service gets to the end of run().                                       *)
Fairness ==
    /\ \A d \in Deliveries : WF_vars(Progress(d))
    /\ WF_vars(Disconnect)
    /\ WF_vars(CloseStore)

FairSpec == Spec /\ Fairness

-----------------------------------------------------------------------------
(* Safety.                                                                 *)

(* A task told its request is fresh owns the row of that request until it  *)
(* ends: no purge takes the row from under it and no other delivery is     *)
(* ever told "fresh" for it (core.py:62, sqlite.py:209, sqlite.py:380).    *)
OwnerHoldsRow ==
    \A d \in Deliveries :
        (Live(d) /\ fresh[d] = "fresh") =>
            /\ HasRow(KeyOf(d))
            /\ requests[KeyOf(d)].by = d

(* A row whose owner returned normally is final: the pipeline reaches      *)
(* record_completion on every path that returns, publish failures and      *)
(* timeouts included (core.py:159-184).                                    *)
FinishedRowsAreFinal ==
    \A k \in Keys :
        (HasRow(k) /\ pc[requests[k].by] = "done") =>
            requests[k].final_state \in FinalStates

(* completed_ok is written for a request only by the delivery that ran its *)
(* handler to success, never by a late duplicate, a retry after a failed   *)
(* insert or the owner of an earlier, purged row with the same key         *)
(* (core.py:126, sqlite.py:256).                                           *)
OkMeansOwnerSucceeded ==
    \A k \in Keys :
        (HasRow(k) /\ requests[k].final_state = "completed_ok") =>
            LET d == requests[k].by
            IN  resp[d] = "ok" /\ d \in executed /\ KeyOf(d) = k

Logged(d, state) == \E e \in events : e.by = d /\ e.key = KeyOf(d) /\ e.state = state

(* While a row exists its audit trail does: the received event, and for a  *)
(* successful request every stage up to the handler, whatever was purged   *)
(* around it (sqlite.py:385-389, lifecycle.py:11-16).                      *)
AuditTrailKept ==
    \A k \in Keys :
        HasRow(k) =>
            LET d == requests[k].by
            IN  /\ Logged(d, "received")
                /\ (requests[k].final_state = "completed_ok") =>
                       Logged(d, "validated") /\ Logged(d, "handler_started")

(* response_published is logged only for a response the broker has taken   *)
(* (core.py:168-172: the event follows the publish inside one try).        *)
PublishedMeansAnswered ==
    \A e \in events : e.state = "response_published" => e.by \in answered

(* PendingTracker.in_flight() is the number of handlers running: every way *)
(* out of a handler counts it out exactly once (tracker.py:34-39).         *)
InFlightExact ==
    svc # "down" =>
        in_flight = Cardinality({d \in Deliveries : pc[d] = "handler"})

(* nodes.last_seen never goes back, although mark_node_seen calls carry    *)
(* timestamps taken before the await and may land in any order             *)
(* (core.py:77, sqlite.py:265-272).                                        *)
LastSeenMonotone ==
    [][\A n \in Nodes : last_seen[n] <= last_seen'[n]]_vars

LedgerOf(row) ==
    IF row = NoRow THEN NoRow
    ELSE [holder |-> row.by, closed |-> row.final_state # "null"]

Ledger == INSTANCE RequestLedger WITH
    ledger <- [k \in Keys |-> LedgerOf(requests[k])],
    Free <- NoRow

ASSUME LedgerAssumption == NoRow \notin Ledger!Entry

(* The pipeline keeps the promise of RequestLedger: one holder per key,    *)
(* only the holder executes and only once, and only closed entries are     *)
(* forgotten (sqlite.py:205-228, sqlite.py:377-394, core.py:52-99).        *)
ImplementsLedger == Ledger!LedgerSpec

-----------------------------------------------------------------------------
(* Liveness, under FairSpec.                                               *)

(* An accepted request is finalized: its owner reaches the end with the    *)
(* row final, unless an uncaught store error or the end of the process     *)
(* takes the task away (core.py:178).                                      *)
AcceptedIsFinalized ==
    \A d \in Deliveries :
        (fresh[d] = "fresh") ~>
            \/ pc[d] \in {"died", "lost"}
            \/ /\ pc[d] = "done" /\ fresh[d] = "fresh"
               /\ HasRow(KeyOf(d))
               /\ requests[KeyOf(d)].final_state \in FinalStates

(* A delivery the service could read gets an answer, the handler that hangs*)
(* and the unknown type included, unless a fault or a stop intervenes      *)
(* (core.py:100-109, service.py:384-390).                                  *)
DeliveredIsAnswered ==
    \A d \in Deliveries :
        Live(d) ~> (d \in answered \/ faults > 0 \/ stops > 0)

-----------------------------------------------------------------------------
(* What the documentation says and the code does not do.                   *)

(* README.md:253 calls completed_ok and completed_error the terminal values*)
(* of final_state: a final row is never given another final state.         *)
FinalStateIsTerminal ==
    [][\A k \in Keys :
           (/\ HasRow(k) /\ requests[k].final_state \in FinalStates
            /\ requests'[k] # NoRow)
           => requests'[k].final_state = requests[k].final_state]_vars

=============================================================================
