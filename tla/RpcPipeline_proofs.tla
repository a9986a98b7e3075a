------------------------- MODULE RpcPipeline_proofs -------------------------
(***************************************************************************)
(* Safety of RpcPipeline for every set of nodes, ids and deliveries.       *)
(*                                                                         *)
(* IInv is the inductive invariant.  It adds to the checked invariants what*)
(* each await knows (Stage), that no task outlives its span (Lifetime),    *)
(* whose a row is (RowOwner) and how far its trail has come (Trail).       *)
(* Three lemmas about a step of Next, TaskMonotone, RowSteps and           *)
(* AnswerSteps, keep the case analysis in one place.                       *)
(***************************************************************************)
EXTENDS RpcPipeline, RequestStore_proofs, FiniteSetTheorems

(* What a task has done when it is suspended at a given await.             *)
Stage(d) ==
    /\ pc[d] = "none" => req[d] = NoReq
    /\ pc[d] \in {"none", "record_received"} => fresh[d] = "unknown"
    /\ pc[d] \in PreHandler \cup {"none", "handler", "timeout_ev"} => resp[d] = "none"
    /\ pc[d] = "record_received" => req[d] \in Request
    /\ fresh[d] # "unknown" => req[d] \in Request
    /\ pc[d] = "duplicate_ev" => fresh[d] = "duplicate"
    /\ pc[d] \in {"validated_ev", "mark_seen", "unknown_ev", "started_ev",
                  "handler", "timeout_ev"} => fresh[d] = "fresh"
    /\ pc[d] \in {"emit", "publishing"} => req[d] = NoReq \/ fresh[d] # "unknown"
    /\ pc[d] \in {"published_ev", "complete"} => fresh[d] # "unknown"
    /\ pc[d] \in PostHandler \ {"timeout_ev"} => resp[d] # "none"
    /\ pc[d] \in {"handler", "timeout_ev"} => d \in executed
    /\ d \in executed => fresh[d] = "fresh" /\ pc[d] \notin PreHandler
    /\ resp[d] = "ok" => d \in executed
    /\ pc[d] = "mark_seen" => seen_ts[d] \in Nat
    /\ pc[d] = "published_ev" => d \in answered

TaskInv == TaskTypeOK /\ \A d \in Deliveries : Stage(d)

(* A service that has not started satisfies the task invariant.            *)
LEMMA TaskInit == Init => TaskInv
BY PipelineAssumption DEF Init, TaskInv, TaskTypeOK, Stage, Responses, PreHandler, PostHandler, LivePc, Null

(* Every step keeps the task invariant: the awaits of process_request are  *)
(* reached in the order of core.py:34-184, each with the locals it needs.  *)
LEMMA TaskNext == TaskInv /\ StoreTypeOK /\ [Next]_vars => TaskInv'
<1> SUFFICES ASSUME TaskInv, StoreTypeOK, [Next]_vars PROVE TaskInv'
  OBVIOUS
<1>0. now \in Nat
  BY DEF StoreTypeOK
<1> USE DEF TaskInv, TaskTypeOK, Stage, GoTo, Respond, LivePc, PreHandler,
            PostHandler, EndedPc, Responses, taskVars, histVars, envVars,
            ErrorCodes
<1>1. ASSUME NEW d \in Deliveries, Deliver(d) PROVE TaskInv'
  <2>1. CASE DeliverGarbage(d)
    BY <2>1, <1>0 DEF DeliverGarbage
  <2>2. CASE DeliverMalformed(d)
    BY <2>2, <1>0 DEF DeliverMalformed
  <2>3. ASSUME NEW r \in Request, DeliverRequest(d, r) PROVE TaskInv'
    BY <2>3, <1>0, PipelineAssumption DEF DeliverRequest
  <2> QED BY <1>1, <2>1, <2>2, <2>3 DEF Deliver
<1>2. ASSUME NEW d \in Deliveries, Progress(d) PROVE TaskInv'
  <2>1. CASE RecordReceivedFresh(d)
    BY <2>1, <1>0 DEF RecordReceivedFresh
  <2>2. CASE RecordReceivedDuplicate(d)
    BY <2>2, <1>0 DEF RecordReceivedDuplicate
  <2>3. CASE RecordReceivedFails(d)
    BY <2>3, <1>0 DEF RecordReceivedFails, InjectFault
  <2>4. CASE RecordDuplicate(d)
    BY <2>4, <1>0 DEF RecordDuplicate
  <2>5. CASE RecordValidated(d)
    BY <2>5, <1>0 DEF RecordValidated
  <2>6. CASE MarkSeen(d)
    BY <2>6, <1>0 DEF MarkSeen
  <2>7. CASE RejectUnknown(d)
    BY <2>7, <1>0 DEF RejectUnknown
  <2>8. CASE StartHandler(d)
    BY <2>8, <1>0 DEF StartHandler
  <2>9. CASE HandlerTimesOut(d)
    BY <2>9, <1>0 DEF HandlerTimesOut, HandlerCountedOut
  <2>10. CASE RecordTimeout(d)
    BY <2>10, <1>0 DEF RecordTimeout
  <2>11. CASE CallPublish(d)
    BY <2>11, <1>0 DEF CallPublish, AfterEmit
  <2>12. CASE PublishAcked(d)
    BY <2>12, <1>0 DEF PublishAcked
  <2>13. CASE PublishFails(d)
    BY <2>13, <1>0 DEF PublishFails, AfterEmit, InjectFault
  <2>14. CASE RecordPublished(d)
    BY <2>14, <1>0 DEF RecordPublished
  <2>15. CASE RecordPublishedFails(d)
    BY <2>15, <1>0 DEF RecordPublishedFails, InjectFault
  <2>16. CASE RecordCompletion(d)
    BY <2>16, <1>0 DEF RecordCompletion
  <2>17. CASE StoreRaises(d)
    BY <2>17, <1>0 DEF StoreRaises, InjectFault, UnguardedPc
  <2> QED BY <1>2, <2>1, <2>2, <2>3, <2>4, <2>5, <2>6, <2>7, <2>8, <2>9, <2>10,
             <2>11, <2>12, <2>13, <2>14, <2>15, <2>16, <2>17 DEF Progress
<1>3. ASSUME NEW d \in Deliveries, HandlerEnds(d) PROVE TaskInv'
  <2>1. CASE HandlerReturns(d)
    BY <2>1, <1>0 DEF HandlerReturns, HandlerCountedOut
  <2>2. ASSUME NEW code \in HandlerCodes, HandlerRaises(d, code) PROVE TaskInv'
    BY <2>2, <1>0, PipelineAssumption DEF HandlerRaises, HandlerCountedOut
  <2> QED BY <1>3, <2>1, <2>2 DEF HandlerEnds
<1>4. CASE Purge
  BY <1>4 DEF Purge, Sweep, PurgeCli
<1>5. CASE Lifecycle
  <2>1. CASE Start
    BY <2>1 DEF Start
  <2>2. CASE StopConsuming
    BY <2>2 DEF StopConsuming
  <2>3. CASE Disconnect
    BY <2>3 DEF Disconnect
  <2>4. CASE CloseStore
    BY <2>4 DEF CloseStore, LoseTasks, Live
  <2>5. CASE Crash
    BY <2>5 DEF Crash, LoseTasks, Live
  <2> QED BY <1>5, <2>1, <2>2, <2>3, <2>4, <2>5 DEF Lifecycle
<1>6. CASE Tick
  BY <1>6 DEF Tick
<1>7. CASE UNCHANGED vars
  BY <1>7 DEF vars
<1> QED BY <1>1, <1>2, <1>3, <1>4, <1>5, <1>6, <1>7 DEF Next


-----------------------------------------------------------------------------
(* How one step can change what the invariants speak of.                   *)

(* A task never takes back what it learned or did.                         *)
TaskMono(d) ==
    /\ fresh[d] # "unknown" => /\ fresh'[d] = fresh[d]
                               /\ req'[d] = req[d]
                               /\ born'[d] = born[d]
                               /\ pc'[d] \in LivePc => pc[d] \in LivePc
    /\ fresh'[d] = "fresh" => fresh[d] = "fresh" \/ RecordReceivedFresh(d)
    /\ pc'[d] = "done" /\ fresh[d] = "fresh" => pc[d] = "done" \/ RecordCompletion(d)
    /\ resp[d] = "ok" => resp'[d] = "ok"
    /\ d \in executed => d \in executed'
    /\ d \in executed' => d \in executed \/ StartHandler(d)
    /\ pc'[d] \in {"mark_seen", "started_ev"} =>
          pc[d] \in {"mark_seen", "started_ev"} \/ RecordValidated(d)
    /\ \/ born'[d] = now
       \/ born'[d] = born[d] /\ (pc'[d] \in LivePc => pc[d] \in LivePc)

(* Only three kinds of step touch the requests table or delete events.     *)
RowStep ==
    \/ requests' = requests /\ events \subseteq events'
    \/ \E d \in Deliveries : RecordReceivedFresh(d)
    \/ \E d \in Deliveries : RecordCompletion(d)
    \/ Purge

(* Only Tick moves the clock; a step keeps the answers given and logs a    *)
(* publish only after one.                                                 *)
AnswerStep ==
    /\ now' = now \/ Tick
    /\ answered \subseteq answered'
    /\ \A e \in events' \ events : e.state = "response_published" => e.by \in answered

(* No step takes back what a task learned or did, and each thing it can    *)
(* learn comes from one await of core.py:34-184.                           *)
LEMMA TaskMonotone ==
  ASSUME TaskInv, [Next]_vars
  PROVE  \A c \in Deliveries : TaskMono(c)
<1> USE DEF TaskMono, TaskInv, TaskTypeOK, Stage, GoTo, Respond, LivePc, PreHandler,
            PostHandler, EndedPc, taskVars, histVars
<1>1. ASSUME NEW d \in Deliveries, Deliver(d) PROVE \A c \in Deliveries : TaskMono(c)
  BY <1>1 DEF Deliver, DeliverGarbage, DeliverMalformed, DeliverRequest
<1>2. ASSUME NEW d \in Deliveries, Progress(d) PROVE \A c \in Deliveries : TaskMono(c)
  <2>1. CASE RecordReceivedFresh(d)
    BY <2>1 DEF RecordReceivedFresh
  <2>2. CASE RecordReceivedDuplicate(d)
    BY <2>2 DEF RecordReceivedDuplicate
  <2>3. CASE RecordReceivedFails(d)
    BY <2>3 DEF RecordReceivedFails
  <2>4. CASE RecordDuplicate(d)
    BY <2>4 DEF RecordDuplicate
  <2>5. CASE RecordValidated(d)
    BY <2>5 DEF RecordValidated
  <2>6. CASE MarkSeen(d)
    BY <2>6 DEF MarkSeen
  <2>7. CASE RejectUnknown(d)
    BY <2>7 DEF RejectUnknown
  <2>8. CASE StartHandler(d)
    BY <2>8 DEF StartHandler
  <2>9. CASE HandlerTimesOut(d)
    BY <2>9 DEF HandlerTimesOut
  <2>10. CASE RecordTimeout(d)
    BY <2>10 DEF RecordTimeout
  <2>11. CASE CallPublish(d)
    BY <2>11, PipelineAssumption DEF CallPublish, AfterEmit
  <2>12. CASE PublishAcked(d)
    BY <2>12, PipelineAssumption DEF PublishAcked
  <2>13. CASE PublishFails(d)
    BY <2>13, PipelineAssumption DEF PublishFails, AfterEmit
  <2>14. CASE RecordPublished(d)
    BY <2>14 DEF RecordPublished
  <2>15. CASE RecordPublishedFails(d)
    BY <2>15 DEF RecordPublishedFails
  <2>16. CASE RecordCompletion(d)
    BY <2>16 DEF RecordCompletion
  <2>17. CASE StoreRaises(d)
    BY <2>17 DEF StoreRaises, UnguardedPc
  <2> QED BY <1>2, <2>1, <2>2, <2>3, <2>4, <2>5, <2>6, <2>7, <2>8, <2>9, <2>10,
             <2>11, <2>12, <2>13, <2>14, <2>15, <2>16, <2>17 DEF Progress
<1>3. ASSUME NEW d \in Deliveries, HandlerEnds(d) PROVE \A c \in Deliveries : TaskMono(c)
  BY <1>3 DEF HandlerEnds, HandlerReturns, HandlerRaises
<1>4. CASE Purge
  BY <1>4 DEF Purge, Sweep, PurgeCli
<1>5. CASE Lifecycle
  BY <1>5 DEF Lifecycle, Start, StopConsuming, Disconnect, CloseStore, Crash,
             LoseTasks, LoseTasks, Live
<1>6. CASE Tick
  BY <1>6 DEF Tick
<1>7. CASE UNCHANGED vars
  BY <1>7 DEF vars
<1> QED BY <1>1, <1>2, <1>3, <1>4, <1>5, <1>6, <1>7 DEF Next

(* Of all steps only record_received, record_completion and a purge write  *)
(* the requests table or delete events (sqlite.py:205-263, 377-394).       *)
LEMMA RowSteps ==
  ASSUME [Next]_vars
  PROVE  RowStep
<1> USE DEF RowStep, storeVars
<1>1. ASSUME NEW d \in Deliveries, Deliver(d) PROVE RowStep
  BY <1>1 DEF Deliver, DeliverGarbage, DeliverMalformed, DeliverRequest
<1>2. ASSUME NEW d \in Deliveries, Progress(d) PROVE RowStep
  <2>1. CASE RecordReceivedFresh(d)
    BY <2>1 DEF RecordReceivedFresh
  <2>2. CASE RecordReceivedDuplicate(d)
    BY <2>2 DEF RecordReceivedDuplicate, IgnoreReceived
  <2>3. CASE RecordReceivedFails(d)
    BY <2>3 DEF RecordReceivedFails
  <2>4. CASE RecordDuplicate(d)
    BY <2>4 DEF RecordDuplicate, InsertEvent, NewEvent
  <2>5. CASE RecordValidated(d)
    BY <2>5 DEF RecordValidated, InsertEvent, NewEvent
  <2>6. CASE MarkSeen(d)
    BY <2>6 DEF MarkSeen, MarkNodeSeen
  <2>7. CASE RejectUnknown(d)
    BY <2>7 DEF RejectUnknown, InsertEvent, NewEvent
  <2>8. CASE StartHandler(d)
    BY <2>8 DEF StartHandler, InsertEvent, NewEvent
  <2>9. CASE HandlerTimesOut(d)
    BY <2>9 DEF HandlerTimesOut
  <2>10. CASE RecordTimeout(d)
    BY <2>10 DEF RecordTimeout, InsertEvent, NewEvent
  <2>11. CASE CallPublish(d)
    BY <2>11 DEF CallPublish
  <2>12. CASE PublishAcked(d)
    BY <2>12 DEF PublishAcked
  <2>13. CASE PublishFails(d)
    BY <2>13 DEF PublishFails
  <2>14. CASE RecordPublished(d)
    BY <2>14 DEF RecordPublished, InsertEvent, NewEvent
  <2>15. CASE RecordPublishedFails(d)
    BY <2>15 DEF RecordPublishedFails
  <2>16. CASE RecordCompletion(d)
    BY <2>16 DEF RecordCompletion
  <2>17. CASE StoreRaises(d)
    BY <2>17 DEF StoreRaises
  <2> QED BY <1>2, <2>1, <2>2, <2>3, <2>4, <2>5, <2>6, <2>7, <2>8, <2>9, <2>10,
             <2>11, <2>12, <2>13, <2>14, <2>15, <2>16, <2>17 DEF Progress
<1>3. ASSUME NEW d \in Deliveries, HandlerEnds(d) PROVE RowStep
  BY <1>3 DEF HandlerEnds, HandlerReturns, HandlerRaises
<1>4. CASE Purge
  BY <1>4
<1>5. CASE Lifecycle
  BY <1>5 DEF Lifecycle, Start, StopConsuming, Disconnect, CloseStore, Crash,
             LoseTasks
<1>6. CASE Tick
  BY <1>6 DEF Tick
<1>7. CASE UNCHANGED vars
  BY <1>7 DEF vars
<1> QED BY <1>1, <1>2, <1>3, <1>4, <1>5, <1>6, <1>7 DEF Next

(* response_published is inserted only after the publish before it         *)
(* returned (core.py:168-172).                                             *)
LEMMA AnswerSteps ==
  ASSUME TaskInv, [Next]_vars
  PROVE  AnswerStep
<1> USE DEF AnswerStep, TaskInv, TaskTypeOK, Stage, storeVars, histVars, GoTo
<1>1. ASSUME NEW d \in Deliveries, Deliver(d) PROVE AnswerStep
  BY <1>1 DEF Deliver, DeliverGarbage, DeliverMalformed, DeliverRequest
<1>2. ASSUME NEW d \in Deliveries, Progress(d) PROVE AnswerStep
  <2>1. CASE RecordReceivedFresh(d)
    BY <2>1 DEF RecordReceivedFresh, InsertReceived, NewEvent
  <2>2. CASE RecordReceivedDuplicate(d)
    BY <2>2 DEF RecordReceivedDuplicate, IgnoreReceived
  <2>3. CASE RecordReceivedFails(d)
    BY <2>3 DEF RecordReceivedFails
  <2>4. CASE RecordDuplicate(d)
    BY <2>4 DEF RecordDuplicate, InsertEvent, NewEvent
  <2>5. CASE RecordValidated(d)
    BY <2>5 DEF RecordValidated, InsertEvent, NewEvent
  <2>6. CASE MarkSeen(d)
    BY <2>6 DEF MarkSeen, MarkNodeSeen
  <2>7. CASE RejectUnknown(d)
    BY <2>7 DEF RejectUnknown, InsertEvent, NewEvent
  <2>8. CASE StartHandler(d)
    BY <2>8 DEF StartHandler, InsertEvent, NewEvent
  <2>9. CASE HandlerTimesOut(d)
    BY <2>9 DEF HandlerTimesOut
  <2>10. CASE RecordTimeout(d)
    BY <2>10 DEF RecordTimeout, InsertEvent, NewEvent
  <2>11. CASE CallPublish(d)
    BY <2>11 DEF CallPublish
  <2>12. CASE PublishAcked(d)
    BY <2>12 DEF PublishAcked
  <2>13. CASE PublishFails(d)
    BY <2>13 DEF PublishFails
  <2>14. CASE RecordPublished(d)
    BY <2>14 DEF RecordPublished, InsertEvent, NewEvent
  <2>15. CASE RecordPublishedFails(d)
    BY <2>15 DEF RecordPublishedFails
  <2>16. CASE RecordCompletion(d)
    BY <2>16 DEF RecordCompletion, UpdateCompletion
  <2>17. CASE StoreRaises(d)
    BY <2>17 DEF StoreRaises
  <2> QED BY <1>2, <2>1, <2>2, <2>3, <2>4, <2>5, <2>6, <2>7, <2>8, <2>9, <2>10,
             <2>11, <2>12, <2>13, <2>14, <2>15, <2>16, <2>17 DEF Progress
<1>3. ASSUME NEW d \in Deliveries, HandlerEnds(d) PROVE AnswerStep
  BY <1>3 DEF HandlerEnds, HandlerReturns, HandlerRaises
<1>4. CASE Purge
  BY <1>4 DEF Purge, PurgeBefore, Sweep, PurgeCli
<1>5. CASE Lifecycle
  BY <1>5 DEF Lifecycle, Start, StopConsuming, Disconnect, CloseStore, Crash,
             LoseTasks
<1>6. CASE Tick
  BY <1>6 DEF Tick
<1>7. CASE UNCHANGED vars
  BY <1>7 DEF vars
<1> QED BY <1>1, <1>2, <1>3, <1>4, <1>5, <1>6, <1>7 DEF Next


-----------------------------------------------------------------------------
(* The store part of the invariant.                                        *)

(* The key of a task that has reached a store call is a key.               *)
LEMMA KeyOfTask ==
  ASSUME TaskInv, NEW d \in Deliveries, req[d] \in Request
  PROVE  KeyOf(d) \in Keys /\ KeyOf(d)[1] \in Nodes
BY DEF KeyOf, Request, Keys

(* Every step of the pipeline leaves the tables well formed.               *)
LEMMA StoreNext == TaskInv /\ StoreInv /\ [Next]_vars => StoreInv'
<1> SUFFICES ASSUME TaskInv, StoreInv, [Next]_vars PROVE StoreInv'
  OBVIOUS
<1>0. ASSUME UNCHANGED storeVars PROVE StoreInv'
  BY <1>0 DEF storeVars, StoreInv, StoreTypeOK, RowTimes, HasRow
<1>1. ASSUME NEW d \in Deliveries, NEW state \in EventStates, req[d] \in Request,
             InsertEvent(d, KeyOf(d), state)
      PROVE  StoreInv'
  BY <1>1, KeyOfTask, InsertEventStore
<1>2. ASSUME NEW d \in Deliveries,
             pc[d] \in LivePc \ {"emit", "publishing"}
      PROVE  req[d] \in Request
  BY <1>2 DEF TaskInv, Stage, LivePc, PreHandler, PostHandler
<1>3. ASSUME NEW d \in Deliveries, Deliver(d) PROVE StoreInv'
  BY <1>3, <1>0 DEF Deliver, DeliverGarbage, DeliverMalformed, DeliverRequest
<1>4. ASSUME NEW d \in Deliveries, Progress(d) PROVE StoreInv'
  <2> USE DEF GoTo, Respond, LivePc, PreHandler, PostHandler, EventStates
  <2>1. CASE RecordReceivedFresh(d)
    BY <2>1, <1>2, KeyOfTask, InsertReceivedStore DEF RecordReceivedFresh
  <2>2. CASE RecordReceivedDuplicate(d)
    BY <2>2, <1>0 DEF RecordReceivedDuplicate, IgnoreReceived
  <2>3. CASE RecordReceivedFails(d)
    BY <2>3, <1>0 DEF RecordReceivedFails
  <2>4. CASE RecordDuplicate(d)
    BY <2>4, <1>1, <1>2 DEF RecordDuplicate
  <2>5. CASE RecordValidated(d)
    BY <2>5, <1>1, <1>2 DEF RecordValidated
  <2>6. CASE MarkSeen(d)
    <3>1. req[d] \in Request /\ seen_ts[d] \in Nat
      BY <2>6, <1>2 DEF MarkSeen, TaskInv, Stage
    <3> QED BY <2>6, <3>1, KeyOfTask, MarkNodeSeenStore DEF MarkSeen
  <2>7. CASE RejectUnknown(d)
    BY <2>7, <1>1, <1>2 DEF RejectUnknown
  <2>8. CASE StartHandler(d)
    BY <2>8, <1>1, <1>2 DEF StartHandler
  <2>9. CASE HandlerTimesOut(d)
    BY <2>9, <1>0 DEF HandlerTimesOut
  <2>10. CASE RecordTimeout(d)
    BY <2>10, <1>1, <1>2 DEF RecordTimeout
  <2>11. CASE CallPublish(d)
    BY <2>11, <1>0 DEF CallPublish
  <2>12. CASE PublishAcked(d)
    BY <2>12, <1>0 DEF PublishAcked
  <2>13. CASE PublishFails(d)
    BY <2>13, <1>0 DEF PublishFails
  <2>14. CASE RecordPublished(d)
    BY <2>14, <1>1, <1>2 DEF RecordPublished
  <2>15. CASE RecordPublishedFails(d)
    BY <2>15, <1>0 DEF RecordPublishedFails
  <2>16. CASE RecordCompletion(d)
    <3>1. PICK final \in FinalStates, code \in ErrorCodes \cup {"null"} :
             UpdateCompletion(KeyOf(d), final, code)
      BY <2>16 DEF RecordCompletion, TaskInv, TaskTypeOK, Stage, Responses, FinalStates
    <3> QED BY <2>16, <3>1, <1>2, KeyOfTask, UpdateCompletionStore DEF RecordCompletion
  <2>17. CASE StoreRaises(d)
    BY <2>17, <1>0 DEF StoreRaises
  <2> QED BY <1>4, <2>1, <2>2, <2>3, <2>4, <2>5, <2>6, <2>7, <2>8, <2>9, <2>10,
             <2>11, <2>12, <2>13, <2>14, <2>15, <2>16, <2>17 DEF Progress
<1>5. ASSUME NEW d \in Deliveries, HandlerEnds(d) PROVE StoreInv'
  BY <1>5, <1>0 DEF HandlerEnds, HandlerReturns, HandlerRaises
<1>6. CASE Purge
  <2>1. PICK cutoff \in Int : PurgeBefore(cutoff)
    BY <1>6, PipelineAssumption DEF Purge, Sweep, PurgeCli, StoreInv, StoreTypeOK
  <2> QED BY <2>1, PurgeStore
<1>7. CASE Lifecycle
  BY <1>7, <1>0 DEF Lifecycle, Start, StopConsuming, Disconnect, CloseStore, Crash
<1>8. CASE Tick
  <2>1. requests' = requests /\ events' = events /\ last_seen' = last_seen /\ now' = now + 1
    BY <1>8 DEF Tick
  <2>2. StoreTypeOK'
    BY <2>1 DEF StoreInv, StoreTypeOK
  <2>3. ASSUME NEW k \in Keys PROVE RowTimes(k)'
    BY <2>1, RowIsRow DEF StoreInv, StoreTypeOK, RowTimes, HasRow, Row, Null
  <2> QED BY <2>2, <2>3 DEF StoreInv
<1>9. CASE UNCHANGED vars
  BY <1>9, <1>0 DEF vars
<1> QED BY <1>3, <1>4, <1>5, <1>6, <1>7, <1>8, <1>9 DEF Next


-----------------------------------------------------------------------------
(* Time and ownership.                                                     *)

(* No task outlives its span: what Tick's guard keeps true.                *)
Lifetime(d) ==
    /\ born[d] <= now
    /\ Live(d) => now <= born[d] + TaskSpan

(* A row belongs to one delivery, which was told "fresh" for this key after*)
(* it had been delivered.                                                  *)
RowOwner(k) ==
    HasRow(k) =>
        LET d == requests[k].by
        IN  /\ fresh[d] = "fresh"
            /\ KeyOf(d) = k
            /\ born[d] <= requests[k].received_at

OwnInv == /\ TaskInv
          /\ StoreInv
          /\ \A d \in Deliveries : Lifetime(d)
          /\ \A k \in Keys : RowOwner(k)
          /\ OwnerHoldsRow

(* Every step keeps every task within its span.                            *)
LEMMA LifetimeNext ==
  ASSUME TaskInv, StoreInv, \A d \in Deliveries : Lifetime(d), [Next]_vars
  PROVE  \A d \in Deliveries : Lifetime(d)'
<1> SUFFICES ASSUME NEW d \in Deliveries PROVE Lifetime(d)'
  OBVIOUS
<1>1. TaskMono(d) /\ AnswerStep
  BY TaskMonotone, AnswerSteps
<1>2. /\ Lifetime(d) /\ now \in Nat /\ born[d] \in Nat /\ TaskSpan \in Nat
      /\ born'[d] \in Nat
  BY TaskNext, PipelineAssumption DEF TaskInv, TaskTypeOK, StoreInv, StoreTypeOK
<1>3. CASE now' = now
  BY <1>1, <1>2, <1>3 DEF TaskMono, Lifetime, Live
<1>4. CASE Tick
  <2>1. born'[d] = born[d] /\ now' = now + 1 /\ pc' = pc
    BY <1>4 DEF Tick, taskVars
  <2>2. Live(d) => now < born[d] + TaskSpan
    BY <1>4 DEF Tick
  <2> QED BY <1>2, <2>1, <2>2 DEF Lifetime, Live
<1> QED BY <1>1, <1>3, <1>4 DEF AnswerStep

(* A purge leaves the rows of live tasks alone: such a row was completed   *)
(* no earlier than its owner was delivered, and the owner is younger than  *)
(* any retention period.                                                   *)
LEMMA PurgeSparesTheLiving ==
  ASSUME OwnInv, NEW days \in Nat, TaskSpan <= days, NEW d \in Deliveries,
         Live(d), fresh[d] = "fresh"
  PROVE  ~ Expired(KeyOf(d), now - days)
<1>1. KeyOf(d) \in Keys
  BY KeyOfTask DEF OwnInv, TaskInv, Stage
<1>2. HasRow(KeyOf(d)) /\ requests[KeyOf(d)].by = d
  BY DEF OwnInv, OwnerHoldsRow
<1>3. requests[KeyOf(d)] \in Row /\ now \in Nat /\ born[d] \in Nat
  BY <1>1, <1>2, RowIsRow DEF OwnInv, StoreInv, StoreTypeOK, TaskInv, TaskTypeOK
<1>4. born[d] <= requests[KeyOf(d)].received_at
  BY <1>1, <1>2 DEF OwnInv, RowOwner
<1>5. requests[KeyOf(d)].completed_at # Null =>
        requests[KeyOf(d)].received_at <= requests[KeyOf(d)].completed_at
  BY <1>1, <1>2 DEF OwnInv, StoreInv, RowTimes
<1>6. now <= born[d] + TaskSpan
  BY DEF OwnInv, Lifetime
<1>7. TaskSpan \in Nat
  BY PipelineAssumption
<1>8. /\ requests[KeyOf(d)].received_at \in Nat
      /\ requests[KeyOf(d)].completed_at \in Nat \cup {Null}
  BY <1>3 DEF Row
<1> QED BY <1>3, <1>4, <1>5, <1>6, <1>7, <1>8 DEF Expired, Null

(* The cutoff of every purge lies at least a task's span back.             *)
LEMMA PurgeCutoff ==
  ASSUME Purge
  PROVE  /\ \E days \in Nat : TaskSpan <= days /\ PurgeBefore(now - days)
         /\ UNCHANGED <<taskVars, executed, answered>>
BY PipelineAssumption DEF Purge, Sweep, PurgeCli, taskVars, histVars

(* Every step keeps ownership: the insert makes one owner                  *)
(* (sqlite.py:209), the completion keeps it (sqlite.py:256) and the purge  *)
(* spares the living (sqlite.py:380).                                      *)
LEMMA OwnNext == OwnInv /\ [Next]_vars => OwnInv'
<1> SUFFICES ASSUME OwnInv, [Next]_vars PROVE OwnInv'
  OBVIOUS
<1>1. TaskInv' /\ StoreInv' /\ \A d \in Deliveries : Lifetime(d)'
  BY TaskNext, StoreNext, LifetimeNext DEF OwnInv, StoreInv
<1>2. \A d \in Deliveries : TaskMono(d)
  BY TaskMonotone DEF OwnInv
<1>3. ASSUME NEW k \in Keys, HasRow(k)
      PROVE  requests[k] \in Row /\ requests[k].by \in Deliveries
  BY <1>3, RowIsRow DEF OwnInv, StoreInv
<1>4. ASSUME NEW k \in Keys, HasRow(k), HasRow(k)',
             requests'[k].by = requests[k].by,
             requests'[k].received_at = requests[k].received_at
      PROVE  RowOwner(k)'
  BY <1>2, <1>3, <1>4 DEF OwnInv, RowOwner, TaskMono, KeyOf
<1>5. ASSUME NEW d \in Deliveries, fresh[d] = "fresh", Live(d)'
      PROVE  /\ Live(d) /\ KeyOf(d) \in Keys /\ KeyOf(d)' = KeyOf(d)
             /\ HasRow(KeyOf(d)) /\ requests[KeyOf(d)].by = d
  <2>1. Live(d) /\ KeyOf(d)' = KeyOf(d)
    BY <1>2, <1>5 DEF TaskMono, Live, KeyOf
  <2>2. KeyOf(d) \in Keys
    BY <1>5, KeyOfTask DEF OwnInv, TaskInv, Stage
  <2> QED BY <1>5, <2>1, <2>2 DEF OwnInv, OwnerHoldsRow
<1>6. CASE requests' = requests /\ events \subseteq events'
         /\ ~ \E d \in Deliveries : RecordReceivedFresh(d)
  <2>1. \A k \in Keys : RowOwner(k)'
    BY <1>4, <1>6 DEF HasRow, RowOwner
  <2>2. ASSUME NEW d \in Deliveries, Live(d)', fresh'[d] = "fresh"
        PROVE  HasRow(KeyOf(d))' /\ requests'[KeyOf(d)'].by = d
    <3>1. fresh[d] = "fresh"
      BY <1>2, <1>6, <2>2 DEF TaskMono
    <3> QED BY <1>5, <1>6, <2>2, <3>1 DEF HasRow
  <2> QED BY <1>1, <2>1, <2>2 DEF OwnInv, OwnerHoldsRow
<1>7. ASSUME NEW c \in Deliveries, RecordReceivedFresh(c) PROVE OwnInv'
  <2>1. /\ req[c] \in Request /\ fresh[c] = "unknown"
        /\ KeyOf(c) \in Keys /\ ~ HasRow(KeyOf(c)) /\ KeyOf(c)' = KeyOf(c)
        /\ requests' = [requests EXCEPT ![KeyOf(c)] = NewRow(c)]
        /\ fresh' = [fresh EXCEPT ![c] = "fresh"] /\ born' = born /\ now' = now
    BY <1>7, KeyOfTask
       DEF RecordReceivedFresh, InsertReceived, GoTo, OwnInv, TaskInv, Stage, KeyOf
  <2>2. requests'[KeyOf(c)] = NewRow(c) /\ \A k \in Keys \ {KeyOf(c)} : requests'[k] = requests[k]
    BY <2>1 DEF OwnInv, StoreInv, StoreTypeOK
  <2>3. ASSUME NEW k \in Keys PROVE RowOwner(k)'
    <3>1. CASE k = KeyOf(c)
      <4>1. born[c] <= now
        BY DEF OwnInv, Lifetime
      <4>2. fresh'[c] = "fresh"
        BY <2>1 DEF OwnInv, TaskInv, TaskTypeOK
      <4> QED BY <2>1, <2>2, <3>1, <4>1, <4>2 DEF RowOwner, NewRow
    <3>2. CASE k # KeyOf(c)
      BY <1>4, <2>2, <3>2 DEF HasRow, RowOwner
    <3> QED BY <3>1, <3>2
  <2>4. ASSUME NEW d \in Deliveries, Live(d)', fresh'[d] = "fresh"
        PROVE  HasRow(KeyOf(d))' /\ requests'[KeyOf(d)'].by = d
    <3>1. CASE d = c
      BY <2>1, <2>2, <3>1, NewValues DEF HasRow, NewRow, OwnInv, StoreInv, StoreTypeOK
    <3>2. CASE d # c
      <4>1. fresh[d] = "fresh"
        BY <2>1, <2>4, <3>2 DEF OwnInv, TaskInv, TaskTypeOK
      <4>2. KeyOf(d) # KeyOf(c)
        BY <1>5, <2>1, <2>4, <4>1
      <4> QED BY <1>5, <2>2, <2>4, <4>1, <4>2 DEF HasRow
    <3> QED BY <3>1, <3>2
  <2> QED BY <1>1, <2>3, <2>4 DEF OwnInv, OwnerHoldsRow
<1>8. ASSUME NEW c \in Deliveries, RecordCompletion(c) PROVE OwnInv'
  <2>1. /\ req[c] \in Request /\ KeyOf(c) \in Keys /\ fresh' = fresh
    BY <1>8, KeyOfTask DEF RecordCompletion, GoTo, OwnInv, TaskInv, Stage
  <2>2. PICK final \in FinalStates, code \in ErrorCodes \cup {"null"} :
           UpdateCompletion(KeyOf(c), final, code)
    BY <1>8 DEF RecordCompletion, OwnInv, TaskInv, TaskTypeOK, Stage, Responses,
                FinalStates, GoTo, PostHandler
  <2>3. /\ \A j \in Keys : HasRow(j)' <=> HasRow(j)
        /\ \A j \in Keys \ {KeyOf(c)} : requests'[j] = requests[j]
        /\ HasRow(KeyOf(c)) => requests'[KeyOf(c)] = Completed(requests[KeyOf(c)], final, code)
    BY <2>1, <2>2, UpdateCompletionRows DEF OwnInv, StoreInv
  <2>4. ASSUME NEW j \in Keys, HasRow(j)
        PROVE  /\ requests'[j].by = requests[j].by
               /\ requests'[j].received_at = requests[j].received_at
    <3>1. now \in Nat
      BY DEF OwnInv, StoreInv, StoreTypeOK
    <3> QED BY <1>3, <2>3, <2>4, <3>1, CompletedRow
  <2>5. \A k \in Keys : RowOwner(k)'
    BY <1>4, <2>3, <2>4 DEF RowOwner
  <2>6. ASSUME NEW d \in Deliveries, Live(d)', fresh'[d] = "fresh"
        PROVE  HasRow(KeyOf(d))' /\ requests'[KeyOf(d)'].by = d
    <3>1. HasRow(KeyOf(d)) /\ KeyOf(d) \in Keys /\ KeyOf(d)' = KeyOf(d)
          /\ requests[KeyOf(d)].by = d
      BY <1>5, <2>1, <2>6
    <3>2. requests'[KeyOf(d)] # NoRow
      BY <2>3, <3>1 DEF HasRow
    <3> QED BY <2>4, <3>1, <3>2 DEF HasRow
  <2> QED BY <1>1, <2>5, <2>6 DEF OwnInv, OwnerHoldsRow
<1>9. CASE Purge
  <2>1. PICK days \in Nat : TaskSpan <= days /\ PurgeBefore(now - days)
    BY <1>9, PurgeCutoff
  <2>2. now - days \in Int /\ fresh' = fresh
    BY <1>9, PurgeCutoff DEF OwnInv, StoreInv, StoreTypeOK, taskVars
  <2>3. /\ \A k \in Keys : HasRow(k)' <=> (HasRow(k) /\ ~ Expired(k, now - days))
        /\ \A k \in Keys : HasRow(k)' => requests'[k] = requests[k]
    BY <2>1, <2>2, PurgeRows DEF OwnInv, StoreInv
  <2>4. \A k \in Keys : RowOwner(k)'
    BY <1>4, <2>3 DEF RowOwner
  <2>5. ASSUME NEW d \in Deliveries, Live(d)', fresh'[d] = "fresh"
        PROVE  HasRow(KeyOf(d))' /\ requests'[KeyOf(d)'].by = d
    <3>1. /\ Live(d) /\ HasRow(KeyOf(d)) /\ KeyOf(d) \in Keys
          /\ KeyOf(d)' = KeyOf(d) /\ requests[KeyOf(d)].by = d
      BY <1>5, <2>2, <2>5
    <3>2. ~ Expired(KeyOf(d), now - days)
      BY <2>1, <2>2, <2>5, <3>1, PurgeSparesTheLiving
    <3>3. requests'[KeyOf(d)] # NoRow /\ requests'[KeyOf(d)] = requests[KeyOf(d)]
      BY <2>3, <3>1, <3>2 DEF HasRow
    <3> QED BY <3>1, <3>3 DEF HasRow
  <2> QED BY <1>1, <2>4, <2>5 DEF OwnInv, OwnerHoldsRow
<1> QED BY <1>6, <1>7, <1>8, <1>9, RowSteps DEF RowStep


-----------------------------------------------------------------------------
(* What the rows and events say about their owners.                        *)

(* The audit trail of a row, as far as its owner has come.                 *)
Trail(k) ==
    HasRow(k) =>
        LET d == requests[k].by
        IN  /\ Logged(d, "received")
            /\ pc[d] \in {"mark_seen", "started_ev"} => Logged(d, "validated")
            /\ d \in executed => Logged(d, "validated") /\ Logged(d, "handler_started")

IInv == /\ OwnInv
        /\ FinishedRowsAreFinal
        /\ OkMeansOwnerSucceeded
        /\ \A k \in Keys : Trail(k)
        /\ PublishedMeansAnswered

(* Every step keeps finished rows final: a fresh task returns only         *)
(* through record_completion (core.py:178).                                *)
LEMMA FinishedNext ==
  ASSUME OwnInv, FinishedRowsAreFinal, [Next]_vars
  PROVE  FinishedRowsAreFinal'
<1> SUFFICES ASSUME NEW k \in Keys, HasRow(k)', pc'[requests'[k].by] = "done"
             PROVE  requests'[k].final_state \in FinalStates
  BY DEF FinishedRowsAreFinal
<1>1. \A d \in Deliveries : TaskMono(d)
  BY TaskMonotone DEF OwnInv
<1>2. ASSUME HasRow(k), requests'[k] = requests[k],
             ~ \E d \in Deliveries : RecordCompletion(d)
      PROVE  requests'[k].final_state \in FinalStates
  <2>1. requests[k].by \in Deliveries /\ fresh[requests[k].by] = "fresh"
    BY <1>2, RowIsRow DEF OwnInv, StoreInv, RowOwner
  <2>2. pc[requests[k].by] = "done"
    BY <1>1, <1>2, <2>1 DEF TaskMono
  <2> QED BY <1>2, <2>2 DEF FinishedRowsAreFinal
<1>3. CASE requests' = requests /\ ~ \E d \in Deliveries : RecordCompletion(d)
  BY <1>2, <1>3 DEF HasRow
<1>4. ASSUME NEW c \in Deliveries, RecordReceivedFresh(c)
      PROVE  requests'[k].final_state \in FinalStates
  <2>1. /\ KeyOf(c) \in Keys /\ pc' = [pc EXCEPT ![c] = "validated_ev"]
        /\ requests' = [requests EXCEPT ![KeyOf(c)] = NewRow(c)]
    BY <1>4, KeyOfTask
       DEF RecordReceivedFresh, InsertReceived, GoTo, OwnInv, TaskInv, Stage
  <2>2. CASE k = KeyOf(c)
    <3>1. requests'[k].by = c
      BY <2>1, <2>2 DEF OwnInv, StoreInv, StoreTypeOK, NewRow
    <3>2. pc'[c] = "validated_ev"
      BY <2>1 DEF OwnInv, TaskInv, TaskTypeOK
    <3> QED BY <3>1, <3>2
  <2>3. CASE k # KeyOf(c)
    <3>1. requests'[k] = requests[k]
      BY <2>1, <2>3 DEF OwnInv, StoreInv, StoreTypeOK
    <3>2. ~ \E d \in Deliveries : RecordCompletion(d)
      <4> SUFFICES ASSUME NEW d \in Deliveries, RecordCompletion(d) PROVE FALSE
        OBVIOUS
      <4>1. pc[c] = "record_received" /\ pc'[c] = "validated_ev"
        BY <1>4, <2>1 DEF RecordReceivedFresh, GoTo, OwnInv, TaskInv, TaskTypeOK
      <4>2. pc[d] = "complete" /\ pc' = [pc EXCEPT ![d] = "done"]
        BY DEF RecordCompletion, GoTo
      <4> QED BY <4>1, <4>2 DEF OwnInv, TaskInv, TaskTypeOK
    <3> QED BY <1>2, <3>1, <3>2 DEF HasRow
  <2> QED BY <2>2, <2>3
<1>5. ASSUME NEW c \in Deliveries, RecordCompletion(c)
      PROVE  requests'[k].final_state \in FinalStates
  <2>1. KeyOf(c) \in Keys /\ now \in Nat /\ pc' = [pc EXCEPT ![c] = "done"]
    BY <1>5, KeyOfTask
       DEF RecordCompletion, GoTo, OwnInv, TaskInv, Stage, StoreInv, StoreTypeOK
  <2>2. PICK final \in FinalStates, code \in ErrorCodes \cup {"null"} :
           UpdateCompletion(KeyOf(c), final, code)
    BY <1>5 DEF RecordCompletion, OwnInv, TaskInv, TaskTypeOK, Stage, Responses,
                FinalStates, GoTo, PostHandler
  <2>3. /\ HasRow(k)
        /\ k # KeyOf(c) => requests'[k] = requests[k]
        /\ k = KeyOf(c) => requests'[k] = Completed(requests[k], final, code)
    BY <2>1, <2>2, UpdateCompletionRows DEF OwnInv, StoreInv
  <2>4. requests[k] \in Row /\ requests[k].by \in Deliveries
    BY <2>3, RowIsRow DEF OwnInv, StoreInv
  <2>5. CASE k = KeyOf(c)
    BY <2>1, <2>3, <2>4, <2>5, CompletedRow
  <2>6. CASE k # KeyOf(c)
    <3>1. KeyOf(requests[k].by) = k
      BY <2>3 DEF OwnInv, RowOwner
    <3>2. requests[k].by # c
      BY <3>1, <2>6
    <3>3. pc[requests[k].by] = "done"
      BY <2>1, <2>3, <2>4, <2>6, <3>2 DEF OwnInv, TaskInv, TaskTypeOK
    <3> QED BY <2>3, <2>6, <3>3 DEF FinishedRowsAreFinal
  <2> QED BY <2>5, <2>6
<1>6. CASE Purge
  <2>1. PICK cutoff \in Int : PurgeBefore(cutoff)
    BY <1>6, PurgeCutoff DEF OwnInv, StoreInv, StoreTypeOK
  <2>2. HasRow(k) /\ requests'[k] = requests[k]
    BY <2>1, PurgeRows DEF OwnInv, StoreInv
  <2>3. pc' = pc
    BY <1>6, PurgeCutoff DEF taskVars
  <2> QED BY <2>2, <2>3 DEF FinishedRowsAreFinal
<1> QED BY <1>3, <1>4, <1>5, <1>6, RowSteps DEF RowStep

(* Every step keeps completed_ok the word of the owner: a task that is     *)
(* not the owner ends with an error code (core.py:62-71, 52-60).           *)
LEMMA OkNext ==
  ASSUME OwnInv, OkMeansOwnerSucceeded, [Next]_vars
  PROVE  OkMeansOwnerSucceeded'
<1> SUFFICES ASSUME NEW k \in Keys, HasRow(k)',
                    requests'[k].final_state = "completed_ok"
             PROVE  /\ resp'[requests'[k].by] = "ok"
                    /\ requests'[k].by \in executed'
                    /\ KeyOf(requests[k].by)' = k
  BY DEF OkMeansOwnerSucceeded
<1>1. \A d \in Deliveries : TaskMono(d)
  BY TaskMonotone DEF OwnInv
<1>2. OwnInv'
  BY OwnNext
<1>3. KeyOf(requests[k].by)' = k
  BY <1>2 DEF OwnInv, RowOwner
<1>4. ASSUME HasRow(k), requests'[k] = requests[k]
      PROVE  resp'[requests'[k].by] = "ok" /\ requests'[k].by \in executed'
  <2>1. requests[k].by \in Deliveries
    BY <1>4, RowIsRow DEF OwnInv, StoreInv
  <2>2. resp[requests[k].by] = "ok" /\ requests[k].by \in executed
    BY <1>4 DEF OkMeansOwnerSucceeded
  <2> QED BY <1>1, <1>4, <2>1, <2>2 DEF TaskMono
<1>5. CASE requests' = requests
  BY <1>3, <1>4, <1>5 DEF HasRow
<1>6. ASSUME NEW c \in Deliveries, RecordReceivedFresh(c)
      PROVE  resp'[requests'[k].by] = "ok" /\ requests'[k].by \in executed'
  <2>1. /\ KeyOf(c) \in Keys
        /\ requests' = [requests EXCEPT ![KeyOf(c)] = NewRow(c)]
    BY <1>6, KeyOfTask
       DEF RecordReceivedFresh, InsertReceived, GoTo, OwnInv, TaskInv, Stage
  <2>2. k # KeyOf(c)
    BY <2>1 DEF OwnInv, StoreInv, StoreTypeOK, NewRow
  <2>3. requests'[k] = requests[k]
    BY <2>1, <2>2 DEF OwnInv, StoreInv, StoreTypeOK
  <2> QED BY <1>4, <2>3 DEF HasRow
<1>7. ASSUME NEW c \in Deliveries, RecordCompletion(c)
      PROVE  resp'[requests'[k].by] = "ok" /\ requests'[k].by \in executed'
  <2>1. /\ KeyOf(c) \in Keys /\ now \in Nat /\ pc[c] = "complete"
        /\ resp' = resp /\ executed' = executed
    BY <1>7, KeyOfTask
       DEF RecordCompletion, GoTo, OwnInv, TaskInv, Stage, StoreInv, StoreTypeOK, histVars
  <2>2. PICK final \in FinalStates, code \in ErrorCodes \cup {"null"} :
           /\ UpdateCompletion(KeyOf(c), final, code)
           /\ final = "completed_ok" => resp[c] = "ok"
    BY <1>7 DEF RecordCompletion, OwnInv, TaskInv, TaskTypeOK, Stage, Responses,
                FinalStates, GoTo, PostHandler
  <2>3. /\ HasRow(k)
        /\ k # KeyOf(c) => requests'[k] = requests[k]
        /\ k = KeyOf(c) => requests'[k] = Completed(requests[k], final, code)
    BY <2>1, <2>2, UpdateCompletionRows DEF OwnInv, StoreInv
  <2>4. CASE k # KeyOf(c)
    BY <1>4, <2>3, <2>4
  <2>5. CASE k = KeyOf(c)
    <3>1. requests'[k].final_state = final /\ requests'[k].by = requests[k].by
      BY <2>1, <2>3, <2>5, RowIsRow, CompletedRow DEF OwnInv, StoreInv
    <3>2. resp[c] = "ok"
      BY <2>2, <3>1
    <3>3. c \in executed /\ fresh[c] = "fresh"
      BY <3>2 DEF OwnInv, TaskInv, Stage
    <3>4. requests[k].by = c
      BY <2>1, <2>5, <3>3 DEF OwnInv, OwnerHoldsRow, Live, LivePc, PostHandler
    <3> QED BY <2>1, <3>1, <3>2, <3>3, <3>4
  <2> QED BY <2>4, <2>5
<1>8. CASE Purge
  <2>1. PICK cutoff \in Int : PurgeBefore(cutoff)
    BY <1>8, PurgeCutoff DEF OwnInv, StoreInv, StoreTypeOK
  <2>2. HasRow(k) /\ requests'[k] = requests[k]
    BY <2>1, PurgeRows DEF OwnInv, StoreInv
  <2> QED BY <1>3, <1>4, <2>2
<1> QED BY <1>3, <1>5, <1>6, <1>7, <1>8, RowSteps DEF RowStep


(* An event that stays in the table stays logged.                          *)
LEMMA LoggedKept ==
  ASSUME NEW d, NEW state, KeyOf(d)' = KeyOf(d), Logged(d, state),
         \A e \in events : e.by = d /\ e.key = KeyOf(d) => e \in events'
  PROVE  Logged(d, state)'
BY DEF Logged

(* Every step keeps the audit trail of the rows that stay                  *)
(* (sqlite.py:385-389).                                                    *)
LEMMA TrailNext ==
  ASSUME OwnInv, \A k \in Keys : Trail(k), [Next]_vars
  PROVE  \A k \in Keys : Trail(k)'
<1> SUFFICES ASSUME NEW k \in Keys, HasRow(k)' PROVE Trail(k)'
  BY DEF Trail
<1>1. \A d \in Deliveries : TaskMono(d)
  BY TaskMonotone DEF OwnInv
(* The row was there and its owner's events are kept: only the owner's own *)
(* step can ask for more.                                                  *)
<1>2. ASSUME HasRow(k), requests'[k].by = requests[k].by,
             \A e \in events : e.key = k => e \in events'
      PROVE  Trail(k)'
  <2>0. PICK d \in Deliveries : d = requests[k].by
    BY <1>2, RowIsRow DEF OwnInv, StoreInv
  <2>1. fresh[d] = "fresh" /\ KeyOf(d) = k
    BY <1>2, <2>0 DEF OwnInv, RowOwner
  <2>2. KeyOf(d)' = KeyOf(d)
    BY <1>1, <2>1 DEF TaskMono, KeyOf
  <2>3. \A state : Logged(d, state) => Logged(d, state)'
    BY <1>2, <2>1, <2>2, LoggedKept
  <2>4. Logged(d, "received")'
    BY <1>2, <2>0, <2>3 DEF Trail
  <2>5. ASSUME pc'[d] \in {"mark_seen", "started_ev"} PROVE Logged(d, "validated")'
    <3>1. CASE pc[d] \in {"mark_seen", "started_ev"}
      BY <1>2, <2>0, <2>3, <3>1 DEF Trail
    <3>2. CASE RecordValidated(d)
      <4>1. NewEvent(d, KeyOf(d), "validated") \in events'
        BY <3>2 DEF RecordValidated, InsertEvent
      <4> QED BY <2>2, <4>1 DEF Logged, NewEvent
    <3> QED BY <1>1, <2>1, <2>5, <3>1, <3>2 DEF TaskMono
  <2>6. ASSUME d \in executed' PROVE Logged(d, "validated")' /\ Logged(d, "handler_started")'
    <3>1. CASE d \in executed
      BY <1>2, <2>0, <2>3, <3>1 DEF Trail
    <3>2. CASE StartHandler(d)
      <4>1. NewEvent(d, KeyOf(d), "handler_started") \in events' /\ pc[d] = "started_ev"
        BY <3>2 DEF StartHandler, InsertEvent, GoTo
      <4>2. Logged(d, "validated")'
        BY <1>2, <2>0, <2>3, <4>1 DEF Trail
      <4>3. Logged(d, "handler_started")'
        BY <2>2, <4>1 DEF Logged, NewEvent
      <4> QED BY <4>2, <4>3
    <3> QED BY <1>1, <2>1, <2>6, <3>1, <3>2 DEF TaskMono
  <2>7. requests'[k].by = d
    BY <1>2, <2>0
  <2> QED BY <2>4, <2>5, <2>6, <2>7 DEF Trail
<1>3. CASE requests' = requests /\ events \subseteq events'
  BY <1>2, <1>3 DEF HasRow
<1>4. ASSUME NEW c \in Deliveries, RecordReceivedFresh(c) PROVE Trail(k)'
  <2>1. /\ KeyOf(c) \in Keys /\ KeyOf(c)' = KeyOf(c) /\ executed' = executed
        /\ requests' = [requests EXCEPT ![KeyOf(c)] = NewRow(c)]
        /\ events' = events \cup {NewEvent(c, KeyOf(c), "received")}
        /\ pc[c] = "record_received" /\ pc' = [pc EXCEPT ![c] = "validated_ev"]
    BY <1>4, KeyOfTask
       DEF RecordReceivedFresh, InsertReceived, GoTo, OwnInv, TaskInv, Stage,
           KeyOf, histVars
  <2>2. CASE k = KeyOf(c)
    <3>1. requests'[k].by = c
      BY <2>1, <2>2 DEF OwnInv, StoreInv, StoreTypeOK, NewRow
    <3>2. pc'[c] = "validated_ev" /\ c \notin executed'
      BY <2>1 DEF OwnInv, TaskInv, TaskTypeOK, Stage, PreHandler
    <3>3. Logged(c, "received")'
      <4>1. KeyOf(c)' = KeyOf(c) /\ NewEvent(c, KeyOf(c), "received") \in events'
        BY <2>1
      <4> QED BY <4>1 DEF Logged, NewEvent
    <3> QED BY <3>1, <3>2, <3>3 DEF Trail
  <2>3. CASE k # KeyOf(c)
    <3>1. requests'[k] = requests[k]
      BY <2>1, <2>3 DEF OwnInv, StoreInv, StoreTypeOK
    <3> QED BY <1>2, <2>1, <3>1 DEF HasRow
  <2> QED BY <2>2, <2>3
<1>5. ASSUME NEW c \in Deliveries, RecordCompletion(c) PROVE Trail(k)'
  <2>1. KeyOf(c) \in Keys /\ now \in Nat
    BY <1>5, KeyOfTask
       DEF RecordCompletion, GoTo, OwnInv, TaskInv, Stage, StoreInv, StoreTypeOK
  <2>2. PICK final \in FinalStates, code \in ErrorCodes \cup {"null"} :
           UpdateCompletion(KeyOf(c), final, code)
    BY <1>5 DEF RecordCompletion, OwnInv, TaskInv, TaskTypeOK, Stage, Responses,
                FinalStates, GoTo, PostHandler
  <2>3. /\ HasRow(k) /\ events' = events
        /\ k # KeyOf(c) => requests'[k] = requests[k]
        /\ k = KeyOf(c) => requests'[k] = Completed(requests[k], final, code)
    BY <2>1, <2>2, UpdateCompletionRows DEF OwnInv, StoreInv
  <2>4. requests'[k].by = requests[k].by
    BY <2>1, <2>3, RowIsRow, CompletedRow DEF OwnInv, StoreInv
  <2> QED BY <1>2, <2>3, <2>4
<1>6. CASE Purge
  <2>1. PICK cutoff \in Int : PurgeBefore(cutoff)
    BY <1>6, PurgeCutoff DEF OwnInv, StoreInv, StoreTypeOK
  <2>2. /\ HasRow(k) /\ requests'[k] = requests[k]
        /\ \A e \in events : HasRow(e.key)' => e \in events'
    BY <2>1, PurgeRows DEF OwnInv, StoreInv
  <2>3. \A e \in events : e.key = k => e \in events'
    <3> SUFFICES ASSUME NEW e \in events, e.key = k PROVE HasRow(e.key)'
      BY <2>2
    <3>1. requests'[e.key] = requests'[k]
      OBVIOUS
    <3> QED BY <3>1 DEF HasRow
  <2> QED BY <1>2, <2>2, <2>3
<1> QED BY <1>3, <1>4, <1>5, <1>6, RowSteps DEF RowStep

(* Every step keeps a logged publish an answered one.                      *)
LEMMA PublishedNext ==
  ASSUME TaskInv, PublishedMeansAnswered, [Next]_vars
  PROVE  PublishedMeansAnswered'
<1>1. AnswerStep
  BY AnswerSteps
<1> QED BY <1>1 DEF AnswerStep, PublishedMeansAnswered

-----------------------------------------------------------------------------
(* The inductive invariant and what it gives.                              *)

(* An empty store and a service that is down satisfy the invariant.        *)
LEMMA IInvInit == Init => IInv
<1> SUFFICES ASSUME Init PROVE IInv
  OBVIOUS
<1>1. TaskInv
  BY TaskInit
<1>2. \A k \in Keys : ~ HasRow(k)
  BY DEF Init, StoreInit, HasRow
<1>3. StoreInv
  BY <1>2 DEF Init, StoreInit, StoreInv, StoreTypeOK, RowTimes, Null
<1>4. \A d \in Deliveries : Lifetime(d)
  BY PipelineAssumption DEF Init, StoreInit, Lifetime, Live, LivePc, PreHandler, PostHandler
<1>5. OwnerHoldsRow
  BY DEF Init, OwnerHoldsRow
<1>6. PublishedMeansAnswered
  BY DEF Init, StoreInit, PublishedMeansAnswered
<1> QED BY <1>1, <1>2, <1>3, <1>4, <1>5, <1>6
        DEF IInv, OwnInv, RowOwner, Trail, FinishedRowsAreFinal, OkMeansOwnerSucceeded

(* Every step keeps the inductive invariant.                               *)
LEMMA IInvNext == IInv /\ [Next]_vars => IInv'
BY OwnNext, FinishedNext, OkNext, TrailNext, PublishedNext DEF IInv, OwnInv

(* IInv is an invariant of the pipeline.                                   *)
THEOREM Invariance == Spec => []IInv
BY IInvInit, IInvNext, PTL DEF Spec

(* Every variable keeps its type in every behaviour of the pipeline.       *)
THEOREM TypeCorrect == Spec => []TypeOK
<1>1. IInv => TypeOK
  BY DEF IInv, OwnInv, TaskInv, StoreInv, TypeOK
<1> QED BY <1>1, Invariance, PTL

(* For any nodes, ids, deliveries and retention period of at least a       *)
(* task's span: a task told "fresh" keeps its row until it ends            *)
(* (core.py:52-71 with sqlite.py:377-394).                                 *)
THEOREM OwnerKeepsRow == Spec => []OwnerHoldsRow
<1>1. IInv => OwnerHoldsRow
  BY DEF IInv, OwnInv
<1> QED BY <1>1, Invariance, PTL

(* A row whose owner returned normally is final (core.py:159-184).         *)
THEOREM FinishedIsFinal == Spec => []FinishedRowsAreFinal
<1>1. IInv => FinishedRowsAreFinal
  BY DEF IInv
<1> QED BY <1>1, Invariance, PTL

(* completed_ok is the word of the delivery that ran the handler           *)
(* (core.py:126-129 with sqlite.py:245-263).                               *)
THEOREM OkIsTheOwners == Spec => []OkMeansOwnerSucceeded
<1>1. IInv => OkMeansOwnerSucceeded
  BY DEF IInv
<1> QED BY <1>1, Invariance, PTL

(* No purge takes an event of a row that stays, and a successful row has   *)
(* every stage logged (sqlite.py:385-389).                                 *)
THEOREM TrailIsKept == Spec => []AuditTrailKept
<1>1. IInv => AuditTrailKept
  BY DEF IInv, Trail, AuditTrailKept, OkMeansOwnerSucceeded
<1> QED BY <1>1, Invariance, PTL

(* response_published is logged only after the broker took the response    *)
(* (core.py:168-172).                                                      *)
THEOREM PublishedIsAnswered == Spec => []PublishedMeansAnswered
<1>1. IInv => PublishedMeansAnswered
  BY DEF IInv
<1> QED BY <1>1, Invariance, PTL


-----------------------------------------------------------------------------
(* Action properties.                                                      *)

(* A step leaves last_seen alone or raises it (sqlite.py:265-272).         *)
LEMMA LastSeenStep ==
  ASSUME TaskInv, StoreInv, [Next]_vars
  PROVE  \A n \in Nodes : last_seen[n] <= last_seen'[n]
<1>0. ASSUME last_seen' = last_seen PROVE \A n \in Nodes : last_seen[n] <= last_seen'[n]
  BY <1>0 DEF StoreInv, StoreTypeOK, Null
<1>1. CASE \E d \in Deliveries : MarkSeen(d)
  <2>1. PICK d \in Deliveries : MarkSeen(d)
    BY <1>1
  <2>2. req[d] \in Request /\ seen_ts[d] \in Nat
    BY <2>1 DEF MarkSeen, GoTo, TaskInv, Stage
  <2> QED BY <2>1, <2>2, KeyOfTask, MarkNodeSeenStore DEF MarkSeen
<1>2. CASE ~ \E d \in Deliveries : MarkSeen(d)
  <2> USE DEF storeVars
  <2>1. ASSUME NEW d \in Deliveries, Deliver(d) PROVE last_seen' = last_seen
    BY <2>1 DEF Deliver, DeliverGarbage, DeliverMalformed, DeliverRequest
  <2>2. ASSUME NEW d \in Deliveries, Progress(d) PROVE last_seen' = last_seen
    BY <1>2, <2>2
       DEF Progress, RecordReceivedFresh, InsertReceived, RecordReceivedDuplicate,
           IgnoreReceived, RecordReceivedFails, RecordDuplicate, InsertEvent,
           RecordValidated, RejectUnknown, StartHandler, HandlerTimesOut,
           RecordTimeout, CallPublish, PublishAcked, PublishFails, RecordPublished,
           RecordPublishedFails, RecordCompletion, UpdateCompletion, StoreRaises
  <2>3. ASSUME NEW d \in Deliveries, HandlerEnds(d) PROVE last_seen' = last_seen
    BY <2>3 DEF HandlerEnds, HandlerReturns, HandlerRaises
  <2>4. CASE Purge
    BY <1>0, <2>4 DEF Purge, Sweep, PurgeCli, PurgeBefore
  <2>5. CASE Lifecycle
    BY <1>0, <2>5 DEF Lifecycle, Start, StopConsuming, Disconnect, CloseStore, Crash
  <2>6. CASE Tick
    BY <1>0, <2>6 DEF Tick
  <2>7. CASE UNCHANGED vars
    BY <1>0, <2>7 DEF vars
  <2> QED BY <1>0, <2>1, <2>2, <2>3, <2>4, <2>5, <2>6, <2>7 DEF Next
<1> QED BY <1>1, <1>2

(* last_seen never goes back, in whatever order the writes land            *)
(* (core.py:77, sqlite.py:265-272).                                        *)
THEOREM LastSeenNeverGoesBack == Spec => LastSeenMonotone
<1>1. IInv /\ [Next]_vars => [\A n \in Nodes : last_seen[n] <= last_seen'[n]]_vars
  BY LastSeenStep DEF IInv, OwnInv
<1> QED BY <1>1, Invariance, PTL DEF Spec, LastSeenMonotone


-----------------------------------------------------------------------------
(* The in-flight counter.                                                  *)

Handlers == {d \in Deliveries : pc[d] = "handler"}

(* The counter is exact while the process lives, and no task survives it.  *)
CountInv ==
    /\ IsFiniteSet(Handlers)
    /\ svc # "down" => in_flight = Cardinality(Handlers)
    /\ svc = "down" => \A d \in Deliveries : ~ Live(d)

(* No handler runs and none is counted before the first start.             *)
LEMMA CountInit == Init => CountInv
<1> SUFFICES ASSUME Init PROVE CountInv
  OBVIOUS
<1>1. Handlers = {}
  BY DEF Init, Handlers
<1> QED BY <1>1, FS_EmptySet
        DEF Init, CountInv, Live, LivePc, PreHandler, PostHandler

(* Every step keeps the count: run_with_timeout adds one on the way in     *)
(* and its finally takes one on every way out (tracker.py:34-39).          *)
LEMMA CountNext == TaskInv /\ CountInv /\ [Next]_vars => CountInv'
<1> SUFFICES ASSUME TaskInv, CountInv, [Next]_vars PROVE CountInv'
  OBVIOUS
<1>0. Cardinality(Handlers) \in Nat /\ pc \in [Deliveries -> {"none"} \cup LivePc \cup EndedPc]
  BY FS_CardinalityType DEF CountInv, TaskInv, TaskTypeOK
(* A step that leaves the set of running handlers alone.                   *)
<1>1. ASSUME Handlers' = Handlers, in_flight' = in_flight, svc' = svc,
             \A d \in Deliveries : Live(d)' => Live(d) \/ svc # "down"
      PROVE  CountInv'
  BY <1>1 DEF CountInv
<1> USE DEF GoTo, Respond, Live, LivePc, PreHandler, PostHandler, EndedPc
<1>2. ASSUME NEW d \in Deliveries, Deliver(d) PROVE CountInv'
  <2>1. /\ Handlers' = Handlers /\ in_flight' = in_flight /\ svc' = svc /\ svc = "running"
    BY <1>0, <1>2
       DEF Handlers, Deliver, DeliverGarbage, DeliverMalformed, DeliverRequest
  <2> QED BY <1>1, <2>1
<1>3. ASSUME NEW d \in Deliveries, NEW from, NEW to, GoTo(d, from, to),
             from \in LivePc \ {"handler"}, to # "handler",
             in_flight' = in_flight, svc' = svc
      PROVE  CountInv'
  <2>1. Handlers' = Handlers
    BY <1>0, <1>3 DEF Handlers
  <2>2. \A c \in Deliveries : Live(c)' => Live(c)
    BY <1>0, <1>3
  <2> QED BY <1>1, <1>3, <2>1, <2>2
<1>4. ASSUME NEW d \in Deliveries, StartHandler(d) PROVE CountInv'
  <2>1. /\ Handlers' = Handlers \cup {d} /\ d \notin Handlers
        /\ in_flight' = in_flight + 1 /\ svc' = svc
    BY <1>0, <1>4 DEF Handlers, StartHandler
  <2>2. svc # "down"
    BY <1>4 DEF StartHandler, CountInv
  <2>3. IsFiniteSet(Handlers') /\ Cardinality(Handlers') = Cardinality(Handlers) + 1
    BY <2>1, FS_AddElement DEF CountInv
  <2> QED BY <2>1, <2>2, <2>3 DEF CountInv
<1>5. ASSUME NEW d \in Deliveries, NEW to, GoTo(d, "handler", to), to # "handler",
             HandlerCountedOut, svc' = svc
      PROVE  CountInv'
  <2>1. Handlers' = Handlers \ {d} /\ d \in Handlers
    BY <1>0, <1>5 DEF Handlers
  <2>2. svc # "down"
    BY <1>5 DEF CountInv
  <2>3. IsFiniteSet(Handlers') /\ Cardinality(Handlers') = Cardinality(Handlers) - 1
    BY <2>1, FS_RemoveElement DEF CountInv
  <2>4. Cardinality(Handlers') \in Nat
    BY <2>3, FS_CardinalityType
  <2>5. in_flight' = Cardinality(Handlers')
    BY <1>0, <1>5, <2>2, <2>3, <2>4 DEF HandlerCountedOut, CountInv
  <2> QED BY <1>5, <2>2, <2>3, <2>5 DEF CountInv
<1>6. ASSUME NEW d \in Deliveries, Progress(d) PROVE CountInv'
  <2>1. CASE StartHandler(d)
    BY <1>4, <2>1
  <2>2. CASE HandlerTimesOut(d)
    BY <1>5, <2>2 DEF HandlerTimesOut
  <2>3. CASE RecordReceivedFresh(d) \/ RecordReceivedDuplicate(d) \/ RecordReceivedFails(d)
    BY <1>3, <2>3 DEF RecordReceivedFresh, RecordReceivedDuplicate, RecordReceivedFails
  <2>4. CASE RecordDuplicate(d) \/ RecordValidated(d) \/ RejectUnknown(d) \/ RecordTimeout(d)
    BY <1>3, <2>4 DEF RecordDuplicate, RecordValidated, RejectUnknown, RecordTimeout
  <2>5. CASE MarkSeen(d)
    <3>1. PICK to \in {"started_ev", "unknown_ev"} : GoTo(d, "mark_seen", to)
      BY <2>5 DEF MarkSeen
    <3> QED BY <1>3, <2>5, <3>1 DEF MarkSeen
  <2>6. CASE CallPublish(d)
    <3>1. PICK to \in {"publishing", "done", "complete"} : GoTo(d, "emit", to)
      BY <2>6 DEF CallPublish, AfterEmit
    <3> QED BY <1>3, <2>6, <3>1 DEF CallPublish
  <2>7. CASE PublishAcked(d)
    <3>1. PICK to \in {"published_ev", "done"} : GoTo(d, "publishing", to)
      BY <2>7 DEF PublishAcked
    <3> QED BY <1>3, <2>7, <3>1 DEF PublishAcked
  <2>8. CASE PublishFails(d)
    <3>1. PICK to \in {"complete", "done"} : GoTo(d, "publishing", to)
      BY <2>8 DEF PublishFails, AfterEmit
    <3> QED BY <1>3, <2>8, <3>1 DEF PublishFails
  <2>9. CASE RecordPublished(d) \/ RecordPublishedFails(d) \/ RecordCompletion(d)
    BY <1>3, <2>9 DEF RecordPublished, RecordPublishedFails, RecordCompletion
  <2>10. CASE StoreRaises(d)
    <3>1. PICK from \in UnguardedPc : GoTo(d, from, "died")
      BY <2>10 DEF StoreRaises
    <3> QED BY <1>3, <2>10, <3>1 DEF StoreRaises, UnguardedPc
  <2> QED BY <1>6, <2>1, <2>2, <2>3, <2>4, <2>5, <2>6, <2>7, <2>8, <2>9, <2>10
          DEF Progress
<1>7. ASSUME NEW d \in Deliveries, HandlerEnds(d) PROVE CountInv'
  BY <1>5, <1>7 DEF HandlerEnds, HandlerReturns, HandlerRaises
<1>8. CASE Purge
  BY <1>1, <1>8 DEF Purge, Sweep, PurgeCli, taskVars, Handlers
<1>9. CASE Lifecycle
  <2>1. CASE Start
    <3>1. Handlers' = {} /\ in_flight' = 0 /\ svc' = "running"
      BY <2>1 DEF Start, taskVars, Handlers, CountInv
    <3> QED BY <3>1, FS_EmptySet DEF CountInv
  <2>2. CASE StopConsuming \/ Disconnect
    BY <2>2 DEF StopConsuming, Disconnect, taskVars, Handlers, CountInv
  <2>3. CASE CloseStore \/ Crash
    <3>1. /\ \A d \in Deliveries : ~ Live(d)'
          /\ svc' = "down"
      BY <1>0, <2>3 DEF CloseStore, Crash, LoseTasks
    <3>2. Handlers' = {}
      BY <3>1 DEF Handlers
    <3> QED BY <3>1, <3>2, FS_EmptySet DEF CountInv
  <2> QED BY <1>9, <2>1, <2>2, <2>3 DEF Lifecycle
<1>10. CASE Tick \/ UNCHANGED vars
  BY <1>1, <1>10 DEF Tick, vars, taskVars, Handlers
<1> QED BY <1>2, <1>6, <1>7, <1>8, <1>9, <1>10 DEF Next

(* PendingTracker.in_flight() is exact for any number of concurrent        *)
(* handlers (tracker.py:34-39).                                            *)
THEOREM InFlightIsExact == Spec => []InFlightExact
<1>1. Init => TaskInv /\ CountInv
  BY TaskInit, CountInit
<1>2. TaskInv /\ IInv /\ CountInv /\ [Next]_vars => CountInv'
  BY CountNext
<1>3. IInv => TaskInv
  BY DEF IInv, OwnInv
<1>4. CountInv => InFlightExact
  BY DEF CountInv, InFlightExact, Handlers
<1> QED BY <1>1, <1>2, <1>3, <1>4, Invariance, PTL DEF Spec

=============================================================================
