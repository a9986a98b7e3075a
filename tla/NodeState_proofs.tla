--------------------------- MODULE NodeState_proofs ---------------------------
(***************************************************************************)
(* Proofs about NodeState, for any nodes, requests, events, sender clocks  *)
(* and bounds that satisfy NodeStateAssumption and SummaryAssumption.      *)
(*                                                                         *)
(* Each invariant of the module is about a node between calls.  What makes *)
(* it inductive is what a call knows at each await in between, as far as   *)
(* other calls cannot have changed it: the battery row always, because     *)
(* events are handled one at a time (BatteryInStep), and whatever a call   *)
(* has to itself: its own row and topic (RowKnown), all that it has read   *)
(* for the state topic (StateKnown).                                       *)
(***************************************************************************)
EXTENDS NodeState, TLAPS

Worked(m) == pc[m] \in Awaits \cup Late

(* m has written its row and not published it yet.                         *)
Between(m) == pc[m] \in {"mark_seen", "publish"}

(* What the calls in progress are.  Gateway events are handled one at a    *)
(* time and only reports outlive their task.                               *)
Jobs ==
    /\ \A m \in Messages :
           Worked(m) => job[m].kind \in IF m \in Requests THEN {"location"}
                                        ELSE {"battery", "seen"}
    /\ \A m \in Messages : pc[m] \in Late => m \in Requests /\ job[m].node \in cut
    /\ \A m \in Messages :
           pc[m] \in Late => \A x \in Publishes(job[m].kind) :
                                <<job[m].node, x>> \in astray
    /\ \A m \in Messages :
           job[m] \in Job /\ job[m].kind = "seen" =>
               pc[m] \notin {"upsert", "publish", "late_upsert"}
    /\ \A e, f \in Events : Busy(e) /\ Busy(f) => e = f

(* A row is written before anything says what is in it.                    *)
Stored ==
    /\ \A m \in stored : pc[m] \notin {"none"} \cup Asking /\ job[m] \in Job
    /\ \A m \in Messages :
           pc[m] \in {"mark_seen", "publish"} /\ job[m].kind # "seen" => m \in stored
    /\ \A n \in Nodes : {loc[n], bat[n]} \subseteq stored \cup {None}
    /\ \A m \in Messages : {snap[m].loc, snap[m].bat} \subseteq stored \cup {None}

(* The node of a call that reads the rows has been seen, and the call has  *)
(* read so.                                                                *)
SeenWhenRead ==
    /\ \A m \in Messages :
           pc[m] \in {"publish", "get_last_seen"} => last_seen[job[m].node] # Null
    /\ \A m \in Messages :
           pc[m] \in {"get_node_location", "get_node_battery", "publish_state"} =>
               snap[m].last_seen # Null

(* The battery row and its topic differ only while the one battery event   *)
(* of the node is between them, and the row is that event's.               *)
BatteryInStep ==
    /\ \A m \in Messages :
           Between(m) /\ job[m].kind = "battery" => bat[job[m].node] = m
    /\ \A n \in Nodes \ cut :
           \/ batTopic[n] = bat[n]
           \/ \E m \in Working(n) : job[m].kind = "battery" /\ Between(m)

Done(m) == pc[m] \in {"get_last_seen", "get_node_location", "get_node_battery",
                      "publish_state"}

(* What a call that has the topic of its row to itself knows: the row is   *)
(* its own until it publishes, and on the topic afterwards.                *)
RowKnown(m) ==
    LET n == job[m].node
    IN  <<n, job[m].kind>> \notin astray =>
            /\ job[m].kind = "location" =>
                   /\ Between(m) => loc[n] = m
                   /\ Done(m) => locTopic[n] = loc[n]
            /\ job[m].kind = "battery" =>
                   /\ Between(m) => bat[n] = m
                   /\ Done(m) => batTopic[n] = bat[n]

(* What a call that works for its node alone knows: the rows are as it has *)
(* read them, but for requests that were seen since.                       *)
StateKnown(m) ==
    LET n == job[m].node
    IN  <<n, "state">> \notin astray =>
            /\ pc[m] \in {"get_node_location", "get_node_battery", "publish_state"} =>
                   /\ snap[m].last_seen <= last_seen[n]
                   /\ snap[m].last_seen = last_seen[n] \/ n \in unsaid
            /\ pc[m] \in {"get_node_battery", "publish_state"} => snap[m].loc = loc[n]
            /\ pc[m] = "publish_state" => snap[m].bat = bat[n]

OneAtATime ==
    \A n \in Nodes, x \in Topics :
        <<n, x>> \notin astray => \A m, k \in Calls(n, x) : m = k

InStep ==
    /\ \A m \in Messages : Worked(m) => RowKnown(m) /\ StateKnown(m)
    /\ TopicsRepaired

(* A row is covered by last_seen, or its call is about to see to it.       *)
Covered ==
    \A n \in Nodes \ cut : \A m \in {loc[n], bat[n]} \ {None} :
        /\ job[m].node = n
        /\ last_seen[n] >= job[m].ts \/ pc[m] = "mark_seen"

IInv ==
    /\ TypeOK
    /\ Jobs
    /\ Stored
    /\ StoredBeforePublished
    /\ SeenWhenRead
    /\ BatteryInStep
    /\ OneAtATime
    /\ InStep
    /\ Covered

-----------------------------------------------------------------------------
(* Types.                                                                  *)

(* MAX of a time and of one that may be missing.                           *)
LEMMA NewerProperties ==
    ASSUME NEW a \in Nat \cup {Null}, NEW b \in Nat
    PROVE  /\ Newer(a, b) \in Nat
           /\ Newer(a, b) >= a
           /\ Newer(a, b) >= b
           /\ Newer(a, b) # Null
BY DEF Newer, Null

(* What the calls of each kind publish.                                    *)
LEMMA PublishesTopics ==
    /\ Publishes("location") = {"location", "state"}
    /\ Publishes("battery") = {"battery", "state"}
    /\ Publishes("seen") = {"state"}
    /\ \A kind : "state" \in Publishes(kind) /\ Publishes(kind) \subseteq Topics
    /\ \A kind : {kind} \cap Topics \subseteq Publishes(kind)
BY DEF Publishes, Topics

(* A request comes, is marked, or ends.                                    *)
LEMMA AskType ==
    ASSUME TypeOK, NEW m \in Messages, Ask(m)
    PROVE  TypeOK'
<1> USE DEF rowVars, topicVars, histVars, GoTo
<1>1. ASSUME NEW n \in Nodes, StartRequest(m, n)
      PROVE  TypeOK'
    <2>1. PICK j \in Job : job' = [job EXCEPT ![m] = j]
        BY <1>1 DEF StartRequest, Job, TypeOK
    <2>2. /\ pc' \in [Messages -> {"none", "over"} \cup Asking \cup Awaits \cup Late]
          /\ \A k \in Messages : k # m => pc'[k] = pc[k]
        BY <1>1 DEF StartRequest, TypeOK, Asking
    <2>3. /\ job' \in [Messages -> Job \cup {None}]
          /\ \A k \in Messages : pc'[k] \in Asking \cup Awaits \cup Late => job'[k] \in Job
        BY <2>1, <2>2 DEF TypeOK
    <2> QED
        BY <1>1, <2>2, <2>3 DEF StartRequest, TypeOK
<1>2. CASE MarkRequest(m)
    <2>1. job[m] \in Job /\ job[m].node \in Nodes /\ job[m].ts \in Nat
        BY <1>2 DEF MarkRequest, TypeOK, Job, Asking
    <2>2. last_seen' \in [Nodes -> Nat \cup {Null}]
        BY <1>2, <2>1, NewerProperties DEF MarkRequest, SeenRow, TypeOK
    <2>3. /\ pc' \in [Messages -> {"none", "over"} \cup Asking \cup Awaits \cup Late]
          /\ \A k \in Messages : pc'[k] \in Asking \cup Awaits \cup Late => job[k] \in Job
        BY <1>2, <2>1 DEF MarkRequest, TypeOK, Asking
    <2>4. unsaid' \subseteq Nodes
        BY <1>2, <2>1 DEF MarkRequest, TypeOK
    <2> QED
        BY <1>2, <2>2, <2>3, <2>4 DEF MarkRequest, TypeOK
<1>3. CASE EndRequest(m)
    BY <1>3 DEF EndRequest, TypeOK, Asking, Awaits, Late
<1> QED
    BY <1>1, <1>2, <1>3 DEF Ask

(* A call begins.                                                          *)
LEMMA BeginType ==
    ASSUME TypeOK, NEW m \in Messages, Begin(m)
    PROVE  TypeOK'
<1>0. PICK n \in Nodes, t \in 0..(now + Skew), kind \in {"location", "battery", "seen"} :
          /\ astray' = Overlap(n, kind)
          /\ \/ m \in Requests /\ StartReport(m, t)
             \/ m \in Events /\ StartBattery(m, n, t)
             \/ m \in Events /\ \E r \in BOOLEAN : StartSeen(m, n, t, r)
    BY DEF Begin, StartReport, StartBattery, StartSeen, GoTo, TypeOK, Job, Asking
<1>1. t \in Nat /\ now \in Nat
    BY NodeStateAssumption DEF TypeOK
<1>2. PICK j \in Job : job' = [job EXCEPT ![m] = j]
    <2>1. CASE StartReport(m, t)
        <3>1. job[m] \in Job
            BY <2>1 DEF StartReport, GoTo, TypeOK, Asking
        <3>2. [job[m] EXCEPT !.kind = "location", !.ts = t] \in Job
            BY <1>1, <3>1 DEF Job
        <3> QED
            BY <2>1, <3>2 DEF StartReport
    <2> QED
        BY <1>0, <1>1, <2>1 DEF StartBattery, StartSeen, Job
<1>3. /\ pc' \in [Messages -> {"none", "over"} \cup Asking \cup Awaits \cup Late]
      /\ \A k \in Messages : k # m => pc'[k] = pc[k]
    BY <1>0 DEF StartReport, StartBattery, StartSeen, GoTo, TypeOK, Awaits
<1>4. /\ job' \in [Messages -> Job \cup {None}]
      /\ \A k \in Messages : pc'[k] \in Asking \cup Awaits \cup Late => job'[k] \in Job
    BY <1>2, <1>3 DEF TypeOK
<1>5. astray' \subseteq Nodes \X Topics
    BY <1>0, PublishesTopics DEF Overlap, TypeOK
<1> QED
    BY <1>0, <1>3, <1>4, <1>5
    DEF StartReport, StartBattery, StartSeen, rowVars, topicVars, TypeOK

(* A call goes on.                                                         *)
LEMMA ProceedType ==
    ASSUME TypeOK, SeenWhenRead, NEW m \in Messages, Proceed(m)
    PROVE  TypeOK'
<1>0. /\ pc[m] \in Awaits \cup Late
      /\ job[m] \in Job /\ job[m].node \in Nodes /\ job[m].ts \in Nat
    BY DEF TypeOK, Proceed, Upsert, MarkNodeSeen, PublishRow, GetLastSeen,
       GetNodeLocation, GetNodeBattery, PublishState, LateUpsert, LateMarkSeen,
       Return, GoTo, Awaits, Late, Job
<1> USE DEF rowVars, topicVars, histVars, GoTo
<1>1. CASE Upsert(m)
    BY <1>0, <1>1 DEF Upsert, UpsertRow, Put, TypeOK, Asking, Awaits
<1>2. CASE MarkNodeSeen(m)
    BY <1>0, <1>2, NewerProperties DEF MarkNodeSeen, SeenRow, TypeOK, Asking, Awaits
<1>3. CASE PublishRow(m)
    BY <1>0, <1>3 DEF PublishRow, Put, TypeOK, Asking, Awaits
<1>4. CASE GetLastSeen(m)
    BY <1>0, <1>4 DEF GetLastSeen, Put, TypeOK, Asking, Awaits, Snapshot
<1>5. CASE GetNodeLocation(m)
    BY <1>0, <1>5 DEF GetNodeLocation, TypeOK, Asking, Awaits, Snapshot
<1>6. CASE GetNodeBattery(m)
    BY <1>0, <1>6 DEF GetNodeBattery, TypeOK, Asking, Awaits, Snapshot
<1>7. CASE PublishState(m)
    <2>1. snap[m] \in Snapshot /\ snap[m].last_seen # Null
        BY <1>7 DEF PublishState, Return, SeenWhenRead, TypeOK
    <2>2. StateBody(m) \in Summary
        BY <1>0, <2>1 DEF StateBody, Summary, Snapshot, TypeOK
    <2>3. NothingRead \in Snapshot
        BY DEF NothingRead, Snapshot
    <2> QED
        BY <1>0, <1>7, <2>2, <2>3 DEF PublishState, Return, TypeOK, Asking, Awaits
<1>8. CASE LateUpsert(m)
    BY <1>0, <1>8 DEF LateUpsert, UpsertRow, Put, TypeOK, Asking, Awaits
<1>9. CASE LateMarkSeen(m)
    BY <1>0, <1>9, NewerProperties DEF LateMarkSeen, SeenRow, TypeOK, Asking, Awaits
<1> QED
    BY <1>1, <1>2, <1>3, <1>4, <1>5, <1>6, <1>7, <1>8, <1>9 DEF Proceed

(* A call is cut short, the process restarted, the clock advances.         *)
LEMMA CutType ==
    ASSUME TypeOK, (\E m \in Messages : Fail(m) \/ CancelLate(m)) \/ Restart \/ Tick
    PROVE  TypeOK'
<1> USE DEF rowVars, topicVars, histVars, GoTo
<1>0. NothingRead \in Snapshot
    BY DEF NothingRead, Snapshot
<1>1. ASSUME NEW m \in Messages, Fail(m)
      PROVE  TypeOK'
    BY <1>0, <1>1, PublishesTopics
    DEF Fail, Busy, Return, CutShort, TypeOK, Asking, Awaits, Late, Job
<1>2. ASSUME NEW m \in Messages, CancelLate(m)
      PROVE  TypeOK'
    BY <1>2, PublishesTopics
    DEF CancelLate, CutShort, TypeOK, Asking, Awaits, Late, Job
<1>3. CASE Restart
    BY <1>0, <1>3 DEF Restart, TypeOK, Asking, Awaits, Late
<1>4. CASE Tick
    BY <1>4 DEF Tick, TypeOK
<1> QED
    BY <1>1, <1>2, <1>3, <1>4

-----------------------------------------------------------------------------
(* What a step changes.                                                    *)

(* A request moves before its call: nothing but last_seen changes, and the *)
(* node is noted if it does.                                               *)
Asks(m) ==
    /\ m \in Requests
    /\ pc[m] \in {"none"} \cup Asking /\ pc'[m] \in {"over"} \cup Asking
    /\ pc[m] = "none" \/ job'[m] = job[m]
    /\ job'[m] \in Job
    /\ \A k \in Messages : k # m => pc'[k] = pc[k] /\ job'[k] = job[k]
    /\ \A i \in Nodes :
           /\ last_seen'[i] \in Nat \cup {Null} /\ last_seen'[i] >= last_seen[i]
           /\ last_seen'[i] = last_seen[i] \/ i \in unsaid'
    /\ unsaid \subseteq unsaid'
    /\ UNCHANGED <<loc, bat, radio, topicVars, snap, stored, cut, astray>>

(* So it is.                                                               *)
LEMMA AskFrame ==
    ASSUME TypeOK, NEW m \in Messages, Ask(m)
    PROVE  Asks(m)
<1> USE DEF rowVars, histVars, GoTo
<1>0. /\ m \in Requests
      /\ \A i \in Nodes : last_seen[i] \in Nat \cup {Null} /\ last_seen[i] >= last_seen[i]
    BY DEF Ask, TypeOK, Null
<1>1. ASSUME NEW n \in Nodes, StartRequest(m, n)
      PROVE  Asks(m)
    BY <1>0, <1>1 DEF StartRequest, Asks, TypeOK, Job, Asking
<1>2. CASE MarkRequest(m)
    <2>1. job[m] \in Job /\ job[m].node \in Nodes /\ job[m].ts \in Nat
        BY <1>2 DEF MarkRequest, TypeOK, Job, Asking
    <2>2. /\ last_seen' = [last_seen EXCEPT ![job[m].node] = Newer(@, job[m].ts)]
          /\ unsaid' = IF last_seen[job[m].node] < job[m].ts
                       THEN unsaid \cup {job[m].node} ELSE unsaid
        BY <1>2 DEF MarkRequest, SeenRow
    <2>3. ASSUME NEW i \in Nodes
          PROVE  /\ last_seen'[i] \in Nat \cup {Null} /\ last_seen'[i] >= last_seen[i]
                 /\ last_seen'[i] = last_seen[i] \/ i \in unsaid'
        <3>1. CASE i = job[m].node
            BY <1>0, <2>1, <2>2, <3>1 DEF Newer, TypeOK, Null
        <3>2. CASE i # job[m].node
            BY <1>0, <2>1, <2>2, <3>2 DEF TypeOK
        <3> QED
            BY <3>1, <3>2
    <2> QED
        BY <1>0, <1>2, <2>1, <2>2, <2>3 DEF MarkRequest, Asks, TypeOK, Asking
<1>3. CASE EndRequest(m)
    BY <1>0, <1>3 DEF EndRequest, Asks, TypeOK, Asking
<1> QED
    BY <1>1, <1>2, <1>3 DEF Ask

(* A call begins for one node and changes no row or topic.                 *)
Begins(m, n) ==
    /\ pc[m] \in {"none", "requested"} /\ job'[m] \in Job /\ job'[m].node = n
    /\ \/ /\ m \in Requests /\ pc'[m] = "upsert" /\ job'[m].kind = "location"
       \/ /\ m \in Events /\ (\A e \in Events : ~Busy(e))
          /\ \/ pc'[m] = "upsert" /\ job'[m].kind = "battery"
             \/ pc'[m] = "mark_seen" /\ job'[m].kind = "seen"
    /\ \A k \in Messages : k # m => pc'[k] = pc[k] /\ job'[k] = job[k]
    /\ astray' = Overlap(n, job'[m].kind)
    /\ UNCHANGED <<rowVars, radio, topicVars, snap, stored, cut, unsaid>>

(* So it is.                                                               *)
LEMMA BeginFrame ==
    ASSUME TypeOK, NEW m \in Messages, Begin(m)
    PROVE  \E n \in Nodes : Begins(m, n)
<1>0. PICK t \in 0..(now + Skew) :
          \/ m \in Requests /\ StartReport(m, t)
          \/ /\ m \in Events
             /\ \E n \in Nodes : \/ StartBattery(m, n, t)
                                 \/ \E r \in BOOLEAN : StartSeen(m, n, t, r)
    BY DEF Begin
<1>1. t \in Nat /\ now \in Nat
    BY NodeStateAssumption DEF TypeOK
<1> USE DEF GoTo, TypeOK, LoopFree
<1>2. CASE m \in Requests /\ StartReport(m, t)
    <2>1. job[m] \in Job /\ job[m].node \in Nodes
        BY <1>2 DEF StartReport, Asking, Job
    <2>2. job' = [job EXCEPT ![m] = [job[m] EXCEPT !.kind = "location", !.ts = t]]
        BY <1>2 DEF StartReport
    <2>3. /\ job'[m] \in Job /\ job'[m].node = job[m].node /\ job'[m].kind = "location"
          /\ \A k \in Messages : k # m => job'[k] = job[k]
        BY <1>1, <2>1, <2>2 DEF Job
    <2> QED
        BY <1>2, <2>1, <2>3 DEF StartReport, Begins
<1>3. ASSUME m \in Events, NEW n \in Nodes, StartBattery(m, n, t)
      PROVE  Begins(m, n)
    BY <1>1, <1>3 DEF StartBattery, Begins, Job
<1>4. ASSUME m \in Events, NEW n \in Nodes, NEW q \in BOOLEAN, StartSeen(m, n, t, q)
      PROVE  Begins(m, n)
    BY <1>1, <1>4 DEF StartSeen, Begins, Job
<1> QED
    BY <1>0, <1>2, <1>3, <1>4

(* A call that moves is in progress and moves alone.                       *)
LEMMA MoveFrame ==
    ASSUME TypeOK, NEW m \in Messages, Proceed(m) \/ Fail(m) \/ CancelLate(m)
    PROVE  /\ Worked(m) /\ job[m] \in Job /\ job[m].node \in Nodes
           /\ pc'[m] \in {"over"} \cup Awaits \cup Late
           /\ \A k \in Messages : k # m => pc'[k] = pc[k] /\ snap'[k] = snap[k]
           /\ job' = job
           /\ cut \subseteq cut' /\ astray \subseteq astray' /\ stored \subseteq stored'
<1> USE DEF GoTo, Return, Worked, Awaits, Late, histVars
<1>1. CASE Proceed(m)
    BY <1>1 DEF TypeOK, Proceed, Upsert, UpsertRow, MarkNodeSeen, PublishRow,
       GetLastSeen, GetNodeLocation, GetNodeBattery, PublishState, LateUpsert,
       LateMarkSeen, Job
<1>2. CASE Fail(m)
    BY <1>2 DEF TypeOK, Fail, Busy, CutShort, Job
<1>3. CASE CancelLate(m)
    BY <1>3 DEF TypeOK, CancelLate, CutShort, Job
<1> QED
    BY <1>1, <1>2, <1>3

(* Where a call is suspended next.                                         *)
LEMMA NextAwait ==
    ASSUME TypeOK, Jobs, NEW m \in Messages, Proceed(m) \/ Fail(m) \/ CancelLate(m)
    PROVE  /\ pc'[m] \in Late => m \in Requests /\ job[m].node \in cut'
           /\ pc'[m] \in Late => \A x \in Publishes(job[m].kind) :
                                   <<job[m].node, x>> \in astray'
           /\ job[m].kind = "seen" =>
                  pc'[m] \notin {"upsert", "publish", "late_upsert"}
<1> USE DEF GoTo, Return, TypeOK, Late
<1>1. CASE Proceed(m)
    BY <1>1 DEF Proceed, Upsert, MarkNodeSeen, PublishRow,
       GetLastSeen, GetNodeLocation, GetNodeBattery, PublishState, LateUpsert,
       LateMarkSeen
<1>2. CASE Fail(m)
    BY <1>2 DEF Fail
<1>3. CASE CancelLate(m)
    BY <1>3, MoveFrame DEF CancelLate, CutShort, Jobs
<1> QED
    BY <1>1, <1>2, <1>3

(* What is said of the calls in progress.                                  *)
LEMMA JobsStep ==
    ASSUME TypeOK, Jobs, Next
    PROVE  Jobs'
<1>0. Events \subseteq Messages /\ Requests \subseteq Messages
    BY DEF Messages
<1>1. ASSUME NEW m \in Messages, Begin(m)
      PROVE  Jobs'
    <2>1. PICK n \in Nodes : Begins(m, n)
        BY <1>1, BeginFrame
    <2>2. m \in Requests => m \notin Events
        BY NodeStateAssumption
    <2>3. \A k \in Messages :
              Worked(k)' => job'[k].kind \in IF k \in Requests THEN {"location"}
                                             ELSE {"battery", "seen"}
        BY <2>1, <2>2 DEF Begins, Jobs, Worked
    <2>4. \A k \in Messages :
              pc'[k] \in Late => k \in Requests /\ job'[k].node \in cut'
        BY <2>1 DEF Begins, Jobs, Late
    <2>5. \A k \in Messages :
              job'[k] \in Job /\ job'[k].kind = "seen" =>
                  pc'[k] \notin {"upsert", "publish", "late_upsert"}
        BY <2>1 DEF Begins, Jobs
    <2>6. \A e, f \in Events : Busy(e)' /\ Busy(f)' => e = f
        BY <1>0, <2>1, <2>2 DEF Begins, Jobs, Busy
    (* A late call keeps its topics astray, for it is still there.         *)
    <2>7. ASSUME NEW k \in Messages, pc'[k] \in Late, NEW x \in Publishes(job'[k].kind)
          PROVE  <<job'[k].node, x>> \in astray'
        <3>1. k # m /\ pc[k] \in Late /\ job'[k] = job[k]
            BY <2>1, <2>7 DEF Begins, Late
        <3>2. <<job[k].node, x>> \in astray
            BY <2>7, <3>1 DEF Jobs
        <3>3. k \in Calls(job[k].node, x)
            BY <2>7, <3>1 DEF Calls, Working
        <3> QED
            BY <2>1, <3>1, <3>2, <3>3 DEF Begins, Overlap
    <2> QED
        BY <2>3, <2>4, <2>5, <2>6, <2>7 DEF Jobs
<1>5. ASSUME NEW m \in Messages, Ask(m)
      PROVE  Jobs'
    <2>1. Asks(m) /\ m \notin Events
        BY <1>5, AskFrame, NodeStateAssumption DEF Asks
    <2>2. pc'[m] \notin Awaits \cup Late \cup {"upsert", "publish", "late_upsert"}
        BY <2>1 DEF Asks, Asking, Awaits, Late
    <2> QED
        BY <1>0, <2>1, <2>2 DEF Asks, Jobs, Worked, Busy
<1>2. ASSUME NEW m \in Messages, Proceed(m) \/ Fail(m) \/ CancelLate(m)
      PROVE  Jobs'
    <2>1. m \in Events => Busy(m)
        BY <1>2, MoveFrame, NodeStateAssumption DEF Jobs, Busy, Worked
    <2> QED
        BY <1>0, <1>2, <2>1, MoveFrame, NextAwait DEF Jobs, Worked, Busy
<1>3. CASE Restart
    <2>1. \A m \in Messages : pc'[m] \in {"none", "over"}
        BY <1>3 DEF Restart
    <2> QED
        BY <1>0, <2>1 DEF Jobs, Worked, Busy, Awaits, Late
<1>4. CASE Tick
    BY <1>4 DEF Tick, Jobs, Worked, Busy, histVars
<1> QED
    BY <1>1, <1>2, <1>3, <1>4, <1>5 DEF Next

(* A row is written before anything says what is in it.                    *)
LEMMA StoredStep ==
    ASSUME TypeOK, Jobs, Stored, Next
    PROVE  Stored'
<1>0. stored \subseteq Messages
    BY DEF TypeOK
<1>1. ASSUME NEW m \in Messages, Begin(m)
      PROVE  Stored'
    <2>1. PICK n \in Nodes : Begins(m, n)
        BY <1>1, BeginFrame
    <2>2. m \notin stored
        BY <2>1 DEF Begins, Stored, Asking
    <2> QED
        BY <1>0, <2>1, <2>2 DEF Begins, Stored, rowVars
<1>5. ASSUME NEW m \in Messages, Ask(m)
      PROVE  Stored'
    <2>1. Asks(m)
        BY <1>5, AskFrame
    <2>2. m \notin stored /\ pc'[m] \notin {"mark_seen", "publish"}
        BY <2>1 DEF Asks, Stored, Asking
    <2> QED
        BY <1>0, <2>1, <2>2 DEF Asks, Stored
<1>2. ASSUME NEW m \in Messages, Proceed(m) \/ Fail(m) \/ CancelLate(m)
      PROVE  Stored'
    <2>0. stored \subseteq Messages /\ NothingRead.loc = None /\ NothingRead.bat = None
        BY DEF TypeOK, NothingRead
    <2>1. Worked(m) /\ job[m] \in Job /\ job[m].node \in Nodes /\ job' = job
        BY <1>2, MoveFrame
    <2>2. \A k \in stored' : pc'[k] \notin {"none"} \cup Asking /\ job'[k] \in Job
        <3>1. stored' \subseteq stored \cup {m}
            BY <1>2 DEF Proceed, Upsert, MarkNodeSeen, PublishRow, GetLastSeen,
               GetNodeLocation, GetNodeBattery, PublishState, LateUpsert,
               LateMarkSeen, Fail, CancelLate, UpsertRow, histVars
        <3> QED
            BY <1>2, <2>0, <2>1, <3>1, MoveFrame DEF Stored, Asking, Awaits, Late
    <2>3. \A k \in Messages :
              pc'[k] \in {"mark_seen", "publish"} /\ job'[k].kind # "seen" =>
                  k \in stored'
        <3>1. pc'[m] \in {"mark_seen", "publish"} /\ job[m].kind # "seen" =>
                  m \in stored'
            BY <1>2, <2>1 DEF Proceed, Upsert, MarkNodeSeen, PublishRow, GetLastSeen,
               GetNodeLocation, GetNodeBattery, PublishState, LateUpsert,
               LateMarkSeen, Fail, CancelLate, UpsertRow, histVars, GoTo, Return,
               TypeOK, Stored
        <3> QED
            BY <1>2, <2>1, <3>1, MoveFrame DEF Stored
    <2>4. \A n \in Nodes : {loc'[n], bat'[n]} \subseteq stored' \cup {None}
        <3>1. \/ UNCHANGED <<loc, bat>>
              \/ m \in stored' /\ loc' = Put(loc, m) /\ bat' = bat
              \/ m \in stored' /\ bat' = Put(bat, m) /\ loc' = loc
            BY <1>2 DEF Proceed, Upsert, MarkNodeSeen, PublishRow, GetLastSeen,
               GetNodeLocation, GetNodeBattery, PublishState, LateUpsert,
               LateMarkSeen, Fail, CancelLate, UpsertRow, rowVars
        <3> QED
            BY <1>2, <2>1, <3>1, MoveFrame DEF Stored, Put, TypeOK
    <2>5. \A k \in Messages : {snap'[k].loc, snap'[k].bat} \subseteq stored' \cup {None}
        <3>1. {snap'[m].loc, snap'[m].bat} \subseteq
                  {snap[m].loc, snap[m].bat, loc[job[m].node], bat[job[m].node], None}
            BY <1>2, <2>0, <2>1 DEF Proceed, Upsert, MarkNodeSeen, PublishRow,
               GetLastSeen, GetNodeLocation, GetNodeBattery, PublishState,
               LateUpsert, LateMarkSeen, Fail, CancelLate, Return, TypeOK, Snapshot
        <3> QED
            BY <1>2, <2>1, <3>1, MoveFrame DEF Stored
    <2> QED
        BY <2>2, <2>3, <2>4, <2>5 DEF Stored
<1>3. CASE Restart
    <2>1. stored \subseteq Messages /\ NothingRead.loc = None /\ NothingRead.bat = None
        BY DEF TypeOK, NothingRead
    <2> QED
        BY <1>3, <2>1 DEF Restart, Stored, rowVars, Asking
<1>4. CASE Tick
    BY <1>4 DEF Tick, Stored, rowVars, histVars
<1> QED
    BY <1>1, <1>2, <1>3, <1>4, <1>5 DEF Next

(* The topics show what is stored.                                         *)
LEMMA PublishedStep ==
    ASSUME TypeOK, Jobs, Stored, StoredBeforePublished, SeenWhenRead, Next
    PROVE  StoredBeforePublished'
<1>0. stored \subseteq stored' /\ None \notin Summary
    BY SummaryAssumption, AskFrame, BeginFrame, MoveFrame
    DEF Next, Restart, Tick, histVars, Asks, Begins
<1>1. CASE UNCHANGED topicVars
    BY <1>0, <1>1 DEF topicVars, StoredBeforePublished
<1>2. ASSUME NEW m \in Messages, PublishRow(m)
      PROVE  StoredBeforePublished'
    <2>1. m \in stored /\ job[m].node \in Nodes
        BY <1>2 DEF PublishRow, GoTo, Stored, Jobs, TypeOK, Job, Awaits
    <2> QED
        BY <1>2, <2>1 DEF PublishRow, Put, StoredBeforePublished, TypeOK, histVars
<1>3. ASSUME NEW m \in Messages, PublishState(m)
      PROVE  StoredBeforePublished'
    <2>1. /\ job[m].node \in Nodes
          /\ {StateBody(m).loc, StateBody(m).bat} \subseteq stored \cup {None}
        BY <1>3 DEF PublishState, Return, GoTo, Stored, TypeOK, Job, Awaits, StateBody
    <2> QED
        BY <1>3, <2>1 DEF PublishState, StoredBeforePublished, TypeOK, histVars
<1> QED
    BY <1>1, <1>2, <1>3, AskFrame, BeginFrame DEF Next, Proceed, Upsert,
       MarkNodeSeen, GetLastSeen, GetNodeLocation, GetNodeBattery, LateUpsert,
       LateMarkSeen, Fail, CancelLate, Restart, Tick, Asks, Begins

-----------------------------------------------------------------------------
(* Who works for a node.                                                   *)

(* A request that has no call yet works for nobody.                        *)
LEMMA AskWorking ==
    ASSUME TypeOK, NEW m \in Messages, Asks(m)
    PROVE  /\ ~Worked(m) /\ ~Worked(m)'
           /\ \A n \in Nodes : Working(n)' = Working(n) /\ m \notin Working(n)
           /\ \A n \in Nodes, x \in Topics : Calls(n, x)' = Calls(n, x)
<1>1. ~Worked(m) /\ ~Worked(m)'
    BY DEF Asks, Worked, Asking, Awaits, Late
<1>2. \A n \in Nodes : Working(n)' = Working(n) /\ m \notin Working(n)
    BY <1>1 DEF Asks, Working, Worked
<1>3. ASSUME NEW n \in Nodes, NEW x \in Topics
      PROVE  Calls(n, x)' = Calls(n, x)
    <2>1. \A k \in Working(n) : k \in Messages /\ k # m
        BY <1>2 DEF Working
    <2> QED
        BY <1>2, <2>1 DEF Asks, Calls
<1> QED
    BY <1>1, <1>2, <1>3

(* A call that begins works for its node, with whoever did already.        *)
LEMMA BeginWorking ==
    ASSUME TypeOK, NEW m \in Messages, NEW n \in Nodes, Begins(m, n)
    PROVE  /\ Working(n)' = Working(n) \cup {m}
           /\ \A i \in Nodes : m \notin Working(i)
           /\ \A i \in Nodes : i # n => Working(i)' = Working(i)
<1>1. pc[m] \notin Awaits \cup Late /\ pc'[m] \in Awaits
    BY DEF Begins, Awaits, Late
<1>2. \A i \in Nodes, k \in Messages :
          k \in Working(i)' <=> (k \in Working(i) \/ (k = m /\ i = n))
    BY <1>1 DEF Begins, Working
<1>3. \A i \in Nodes : /\ Working(i)' \subseteq Messages /\ Working(i) \subseteq Messages
                       /\ m \notin Working(i)
    BY <1>1 DEF Working
<1> QED
    BY <1>2, <1>3

(* A topic that is not astray once a call has begun is that call's alone,  *)
(* or none of its.                                                         *)
LEMMA BeginAstray ==
    ASSUME TypeOK, NEW m \in Messages, NEW n \in Nodes, Begins(m, n),
           NEW i \in Nodes, NEW x \in Topics, <<i, x>> \notin astray'
    PROVE  \/ /\ i = n /\ x \in Publishes(job'[m].kind)
              /\ Calls(i, x) = {} /\ Calls(i, x)' = {m}
           \/ /\ ~(i = n /\ x \in Publishes(job'[m].kind))
              /\ <<i, x>> \notin astray /\ Calls(i, x)' = Calls(i, x)
<1>1. \A k \in Messages : k \in Calls(i, x)' <=>
          (k \in Calls(i, x) \/ (k = m /\ i = n /\ x \in Publishes(job'[m].kind)))
    <2> SUFFICES ASSUME NEW k \in Messages
                 PROVE  k \in Calls(i, x)' <=>
                          (k \in Calls(i, x) \/
                             (k = m /\ i = n /\ x \in Publishes(job'[m].kind)))
        OBVIOUS
    <2>1. CASE k = m
        BY <2>1, BeginWorking DEF Calls
    <2>2. CASE k # m
        BY <2>2, BeginWorking DEF Begins, Calls
    <2> QED
        BY <2>1, <2>2
<1>2. Calls(i, x) \subseteq Messages /\ Calls(i, x)' \subseteq Messages
    BY DEF Calls, Working
<1>3. CASE i = n /\ x \in Publishes(job'[m].kind)
    <2>1. Calls(i, x) = {}
        BY <1>3 DEF Begins, Overlap
    <2> QED
        BY <1>1, <1>2, <1>3, <2>1
<1>4. CASE ~(i = n /\ x \in Publishes(job'[m].kind))
    <2>1. <<i, x>> \notin astray
        BY <1>4 DEF Begins, Overlap
    <2>2. Calls(i, x)' = Calls(i, x)
        BY <1>1, <1>2, <1>4
    <2> QED
        BY <1>4, <2>1, <2>2
<1> QED
    BY <1>3, <1>4

(* A call that moves touches the rows and topics of its node only.         *)
LEMMA MoveElsewhere ==
    ASSUME TypeOK, NEW m \in Messages, Proceed(m) \/ Fail(m) \/ CancelLate(m)
    PROVE  \A i \in Nodes \ {job[m].node} :
               /\ loc'[i] = loc[i] /\ bat'[i] = bat[i] /\ last_seen'[i] = last_seen[i]
               /\ radio'[i] = radio[i] /\ stateTopic'[i] = stateTopic[i]
               /\ locTopic'[i] = locTopic[i] /\ batTopic'[i] = batTopic[i]
               /\ i \in unsaid' <=> i \in unsaid
               /\ \A x : <<i, x>> \in astray' <=> <<i, x>> \in astray
               /\ Working(i)' = Working(i)
<1>1. job[m].node \in Nodes
    BY MoveFrame
<1>4. \A i \in Nodes \ {job[m].node} :
          /\ i \in unsaid' <=> i \in unsaid
          /\ \A x : <<i, x>> \in astray' <=> <<i, x>> \in astray
    BY DEF Proceed, Upsert, MarkNodeSeen, PublishRow, GetLastSeen,
       GetNodeLocation, GetNodeBattery, PublishState, LateUpsert,
       LateMarkSeen, Fail, CancelLate, CutShort, histVars
<1>2. CASE Proceed(m)
    <2>1. \A i \in Nodes \ {job[m].node} :
              /\ loc'[i] = loc[i] /\ bat'[i] = bat[i] /\ last_seen'[i] = last_seen[i]
        BY <1>1, <1>2 DEF Proceed, Upsert, MarkNodeSeen, PublishRow, GetLastSeen,
           GetNodeLocation, GetNodeBattery, PublishState, LateUpsert,
           LateMarkSeen, UpsertRow, SeenRow, Put, rowVars, TypeOK
    <2>2. \A i \in Nodes \ {job[m].node} :
              /\ radio'[i] = radio[i] /\ stateTopic'[i] = stateTopic[i]
              /\ locTopic'[i] = locTopic[i] /\ batTopic'[i] = batTopic[i]
        BY <1>1, <1>2 DEF Proceed, Upsert, MarkNodeSeen, PublishRow, GetLastSeen,
           GetNodeLocation, GetNodeBattery, PublishState, LateUpsert,
           LateMarkSeen, Put, topicVars, TypeOK
    <2> QED
        BY <1>4, <2>1, <2>2, MoveFrame DEF Working
<1>3. CASE Fail(m) \/ CancelLate(m)
    BY <1>3, <1>4, MoveFrame DEF Fail, CancelLate, rowVars, topicVars, Working
<1> QED
    BY <1>2, <1>3

(* Only calls that are already there work after a move.                    *)
LEMMA MoveWorking ==
    ASSUME TypeOK, NEW m \in Messages, Proceed(m) \/ Fail(m) \/ CancelLate(m)
    PROVE  /\ m \in Working(job[m].node)
           /\ \A n \in Nodes : Working(n)' \subseteq Working(n)
           /\ \A n \in Nodes : \A k \in Working(n) : k # m => k \in Working(n)'
           /\ \A n \in Nodes, x \in Topics :
                  /\ Calls(n, x)' \subseteq Calls(n, x)
                  /\ \A k \in Calls(n, x) : k # m => k \in Calls(n, x)'
<1>1. /\ m \in Working(job[m].node)
      /\ \A n \in Nodes : Working(n)' \subseteq Working(n)
      /\ \A n \in Nodes : \A k \in Working(n) : k # m => k \in Working(n)'
    BY MoveFrame DEF Working, Worked
<1>2. job' = job
    BY MoveFrame
<1> QED
    BY <1>1, <1>2 DEF Calls

(* No node goes back in time.                                              *)
LEMMA SeenGrows ==
    ASSUME TypeOK, Next, NEW n \in Nodes
    PROVE  /\ last_seen[n] \in Nat \cup {Null} /\ last_seen'[n] \in Nat \cup {Null}
           /\ last_seen'[n] >= last_seen[n]
<1>0. last_seen[n] \in Nat \cup {Null} /\ last_seen[n] >= last_seen[n]
    BY DEF TypeOK, Null
<1>1. CASE UNCHANGED last_seen
    BY <1>0, <1>1
<1>2. ASSUME NEW m \in Messages, Ask(m)
      PROVE  last_seen'[n] \in Nat \cup {Null} /\ last_seen'[n] >= last_seen[n]
    BY <1>2, AskFrame DEF Asks
<1>4. ASSUME NEW m \in Messages, Begin(m)
      PROVE  UNCHANGED last_seen
    BY <1>4, BeginFrame DEF Begins, rowVars
<1>3. ASSUME NEW m \in Messages, MarkNodeSeen(m) \/ LateMarkSeen(m)
      PROVE  last_seen'[n] \in Nat \cup {Null} /\ last_seen'[n] >= last_seen[n]
    <2>1. job[m].node \in Nodes /\ job[m].ts \in Nat
        BY <1>3 DEF MarkNodeSeen, LateMarkSeen, GoTo, TypeOK, Awaits, Late, Job
    <2>2. last_seen' = [last_seen EXCEPT ![job[m].node] = Newer(@, job[m].ts)]
        BY <1>3 DEF MarkNodeSeen, LateMarkSeen, SeenRow
    <2>3. /\ Newer(last_seen[n], job[m].ts) \in Nat
          /\ Newer(last_seen[n], job[m].ts) >= last_seen[n]
        BY <1>0, <2>1, NewerProperties
    <2> QED
        BY <1>0, <2>1, <2>2, <2>3 DEF TypeOK
<1> QED
    BY <1>0, <1>1, <1>2, <1>3, <1>4 DEF Next, Proceed, Upsert, PublishRow, GetLastSeen,
       GetNodeLocation, GetNodeBattery, PublishState, LateUpsert, Fail,
       CancelLate, Restart, Tick, rowVars

-----------------------------------------------------------------------------
(* What a call knows at each await.                                        *)

(* The node is seen before its rows are read.                              *)
LEMMA SeenStep ==
    ASSUME TypeOK, Jobs, SeenWhenRead, Next
    PROVE  SeenWhenRead'
<1>0. \A n \in Nodes : last_seen[n] # Null => last_seen'[n] # Null
    BY SeenGrows DEF Null
<1>1. \A k \in Messages : Worked(k) => job[k].node \in Nodes
    BY DEF TypeOK, Worked, Job
<1>2. ASSUME NEW m \in Messages, Begin(m)
      PROVE  SeenWhenRead'
    <2>1. PICK n \in Nodes : Begins(m, n)
        BY <1>2, BeginFrame
    <2> QED
        BY <1>0, <1>1, <2>1 DEF Begins, SeenWhenRead, Worked, Awaits
<1>6. ASSUME NEW m \in Messages, Ask(m)
      PROVE  SeenWhenRead'
    <2>1. Asks(m)
        BY <1>6, AskFrame
    <2> QED
        BY <1>0, <1>1, <2>1 DEF Asks, SeenWhenRead, Worked, Awaits, Asking
<1>3. ASSUME NEW m \in Messages, Proceed(m) \/ Fail(m) \/ CancelLate(m)
      PROVE  SeenWhenRead'
    <2>1. job[m].node \in Nodes /\ job[m].ts \in Nat /\ job' = job
        BY <1>3, MoveFrame DEF Job
    <2>2. pc'[m] \in {"publish", "get_last_seen"} => last_seen'[job[m].node] # Null
        <3>1. CASE MarkNodeSeen(m)
            BY <2>1, <3>1, NewerProperties DEF MarkNodeSeen, SeenRow, TypeOK
        <3>2. CASE PublishRow(m)
            BY <1>0, <2>1, <3>2 DEF PublishRow, GoTo, SeenWhenRead
        <3> QED
            BY <1>3, <3>1, <3>2 DEF Proceed, Upsert, GetLastSeen, GetNodeLocation,
               GetNodeBattery, PublishState, LateUpsert, LateMarkSeen, Fail,
               CancelLate, GoTo, Return, TypeOK
    <2>3. pc'[m] \in {"get_node_location", "get_node_battery", "publish_state"} =>
              snap'[m].last_seen # Null
        BY <1>3 DEF Proceed, Upsert, MarkNodeSeen, PublishRow, GetLastSeen,
           GetNodeLocation, GetNodeBattery, PublishState, LateUpsert,
           LateMarkSeen, Fail, CancelLate, GoTo, Return, TypeOK, SeenWhenRead,
           Snapshot
    <2> QED
        BY <1>0, <1>1, <1>3, <2>1, <2>2, <2>3, MoveFrame
        DEF SeenWhenRead, Worked, Awaits
<1>4. CASE Restart
    BY <1>4 DEF Restart, SeenWhenRead
<1>5. CASE Tick
    BY <1>5 DEF Tick, SeenWhenRead, rowVars
<1> QED
    BY <1>2, <1>3, <1>4, <1>5, <1>6 DEF Next

(* A topic that is not astray has one call at a time.                      *)
LEMMA OneStep ==
    ASSUME TypeOK, OneAtATime, Next
    PROVE  OneAtATime'
<1>1. ASSUME NEW m \in Messages, Begin(m)
      PROVE  OneAtATime'
    <2>1. PICK n \in Nodes : Begins(m, n)
        BY <1>1, BeginFrame
    <2> QED
        BY <2>1, BeginAstray DEF OneAtATime
<1>2. ASSUME NEW m \in Messages, Ask(m)
      PROVE  OneAtATime'
    <2>1. Asks(m)
        BY <1>2, AskFrame
    <2>2. astray' = astray
        BY <2>1 DEF Asks
    <2> QED
        BY <2>1, <2>2, AskWorking DEF OneAtATime
<1>3. ASSUME NEW m \in Messages, Proceed(m) \/ Fail(m) \/ CancelLate(m)
      PROVE  OneAtATime'
    BY <1>3, MoveFrame, MoveWorking DEF OneAtATime
<1>4. CASE Restart
    BY <1>4 DEF Restart, OneAtATime, Calls, Working, Awaits, Late
<1>5. CASE Tick
    BY <1>5 DEF Tick, OneAtATime, Calls, Working, histVars
<1> QED
    BY <1>1, <1>2, <1>3, <1>4, <1>5 DEF Next

(* The battery row is that of the event that is between it and its topic.  *)
LEMMA BatteryRowStep ==
    ASSUME TypeOK, Jobs, Stored, BatteryInStep, Next
    PROVE  \A k \in Messages :
               Between(k)' /\ job'[k].kind = "battery" => bat'[job'[k].node] = k
<1>0. \A k \in Messages :
          Worked(k) => /\ job[k] \in Job /\ job[k].node \in Nodes
                       /\ job[k].kind = "battery" <=> k \in Events /\ job[k].kind # "seen"
    BY NodeStateAssumption DEF Jobs, TypeOK, Job, Worked, Messages
<1>1. \A k \in Messages : Between(k) => Worked(k) /\ Busy(k)
    BY DEF Between, Worked, Busy, Awaits
<1>2. ASSUME NEW m \in Messages, Begin(m), NEW k \in Messages,
             Between(k)', job'[k].kind = "battery"
      PROVE  bat'[job'[k].node] = k
    BY <1>2, BeginFrame DEF Begins, BatteryInStep, Between, rowVars
<1>6. ASSUME NEW m \in Messages, Ask(m), NEW k \in Messages,
             Between(k)', job'[k].kind = "battery"
      PROVE  bat'[job'[k].node] = k
    BY <1>6, AskFrame DEF Asks, BatteryInStep, Between, Asking
<1>3. ASSUME NEW m \in Messages, Proceed(m) \/ Fail(m) \/ CancelLate(m),
             NEW k \in Messages, Between(k)', job'[k].kind = "battery"
      PROVE  bat'[job'[k].node] = k
    <2>1. job[m].node \in Nodes /\ job' = job /\ Worked(m)
        BY <1>3, MoveFrame
    <2>2. CASE ~((Upsert(m) \/ LateUpsert(m)) /\ job[m].kind # "location")
        <3>1. (k = m => Between(k)) /\ bat' = bat
            BY <1>3, <2>1, <2>2 DEF Between, Proceed, Upsert, UpsertRow,
               MarkNodeSeen, PublishRow, GetLastSeen, GetNodeLocation,
               GetNodeBattery, PublishState, LateUpsert, LateMarkSeen, Fail,
               CancelLate, GoTo, Return, TypeOK, rowVars
        <3> QED
            BY <1>3, <2>1, <2>2, <3>1, MoveFrame DEF BatteryInStep, Between
    <2>3. CASE (Upsert(m) \/ LateUpsert(m)) /\ job[m].kind # "location"
        <3>1. bat' = Put(bat, m)
            BY <2>3 DEF Upsert, LateUpsert, UpsertRow
        <3>2. m \in Events /\ Busy(m)
            BY <2>1, <2>3 DEF Jobs, Worked, Busy, Messages
        <3>3. k # m => Between(k) /\ k \in Events /\ Busy(k)
            BY <1>0, <1>1, <1>3, <2>1, MoveFrame DEF Between
        <3>4. k = m
            BY <3>2, <3>3 DEF Jobs
        <3> QED
            BY <2>1, <3>1, <3>4 DEF Put, TypeOK
    <2> QED
        BY <2>2, <2>3
<1>4. CASE Restart
    BY <1>4 DEF Restart, Between
<1>5. CASE Tick
    BY <1>5 DEF Tick, BatteryInStep, Between, rowVars
<1> QED
    BY <1>2, <1>3, <1>4, <1>5, <1>6 DEF Next

(* And the topic is that of the row unless such an event is there.         *)
LEMMA BatteryStep ==
    ASSUME TypeOK, Jobs, Stored, BatteryInStep, Next
    PROVE  BatteryInStep'
<1> SUFFICES ASSUME NEW n \in Nodes \ cut'
             PROVE  \/ batTopic'[n] = bat'[n]
                    \/ \E k \in Working(n)' : job'[k].kind = "battery" /\ Between(k)'
    BY BatteryRowStep DEF BatteryInStep
<1>1. ASSUME NEW m \in Messages, Begin(m)
      PROVE  \/ batTopic'[n] = bat'[n]
             \/ \E k \in Working(n)' : job'[k].kind = "battery" /\ Between(k)'
    <2>1. PICK i \in Nodes : Begins(m, i)
        BY <1>1, BeginFrame
    <2>2. Working(n) \subseteq Working(n)' /\ Working(n) \subseteq Messages \ {m}
        BY <2>1, BeginWorking DEF Working
    <2>3. n \notin cut /\ batTopic' = batTopic /\ bat' = bat
        BY <2>1 DEF Begins, topicVars, rowVars
    <2> QED
        BY <2>1, <2>2, <2>3 DEF Begins, BatteryInStep, Between
<1>5. ASSUME NEW m \in Messages, Ask(m)
      PROVE  \/ batTopic'[n] = bat'[n]
             \/ \E k \in Working(n)' : job'[k].kind = "battery" /\ Between(k)'
    <2>1. Asks(m)
        BY <1>5, AskFrame
    <2>2. Working(n) = Working(n)' /\ Working(n) \subseteq Messages \ {m}
        BY <2>1, AskWorking DEF Working
    <2>3. n \notin cut /\ batTopic' = batTopic /\ bat' = bat
        BY <2>1 DEF Asks, topicVars
    <2> QED
        BY <2>1, <2>2, <2>3 DEF Asks, BatteryInStep, Between
<1>2. ASSUME NEW m \in Messages, Proceed(m) \/ Fail(m) \/ CancelLate(m)
      PROVE  \/ batTopic'[n] = bat'[n]
             \/ \E k \in Working(n)' : job'[k].kind = "battery" /\ Between(k)'
    <2>0. n \notin cut /\ job' = job /\ Worked(m) /\ job[m].node \in Nodes
        BY <1>2, MoveFrame
    <2>1. CASE n # job[m].node
        <3>1. bat'[n] = bat[n] /\ batTopic'[n] = batTopic[n] /\ Working(n)' = Working(n)
            BY <1>2, <2>1, MoveElsewhere
        <3>2. \A k \in Working(n) : k \in Messages /\ pc'[k] = pc[k]
            BY <1>2, <2>1, MoveFrame DEF Working
        <3> QED
            BY <2>0, <3>1, <3>2 DEF BatteryInStep, Between
    <2>2. CASE n = job[m].node
        <3>1. Proceed(m) /\ ~LateUpsert(m)
            BY <1>2, <2>0, <2>2 DEF Fail, CancelLate, CutShort, LateUpsert, GoTo,
               Jobs, Late
        <3>2. CASE job[m].kind = "battery" /\ Between(m)'
            BY <1>2, <2>0, <2>2, <3>2 DEF Working, Between, Awaits
        <3>3. CASE PublishRow(m) /\ job[m].kind # "location"
            <4>1. bat[n] = m
                BY <2>0, <2>2, <3>3
                DEF PublishRow, GoTo, BatteryInStep, Between, Jobs, TypeOK, Worked
            <4> QED
                BY <2>0, <2>2, <3>3, <4>1 DEF PublishRow, Put, TypeOK, rowVars
        <3>4. CASE /\ ~(job[m].kind = "battery" /\ Between(m)')
                   /\ ~(PublishRow(m) /\ job[m].kind # "location")
            <4>1. job[m].kind = "battery" => ~Between(m)
                BY <3>1, <3>4 DEF Between, Proceed, Upsert, MarkNodeSeen, PublishRow,
                   GetLastSeen, GetNodeLocation, GetNodeBattery, PublishState,
                   LateMarkSeen, GoTo, Return, TypeOK
            <4>2. Upsert(m) => job[m].kind = "location"
                BY <2>0, <3>4
                DEF Upsert, GoTo, Between, Jobs, Worked, TypeOK
            <4>3. bat' = bat /\ batTopic' = batTopic
                BY <3>1, <3>4, <4>2 DEF Proceed, Upsert, UpsertRow, MarkNodeSeen,
                   PublishRow, GetLastSeen, GetNodeLocation, GetNodeBattery,
                   PublishState, LateMarkSeen, rowVars, topicVars
            <4>4. \A k \in Working(n) : k # m => k \in Working(n)' /\ pc'[k] = pc[k]
                BY <1>2, <2>0, MoveFrame, MoveWorking DEF Working
            <4> QED
                BY <2>0, <4>1, <4>3, <4>4 DEF BatteryInStep, Between
        <3> QED
            BY <3>2, <3>3, <3>4
    <2> QED
        BY <2>1, <2>2
<1>3. CASE Restart
    <2>1. n \notin cut /\ Working(n) = {} /\ batTopic' = batTopic /\ bat' = bat
        BY <1>3 DEF Restart, rowVars, topicVars
    <2> QED
        BY <2>1 DEF BatteryInStep
<1>4. CASE Tick
    BY <1>4 DEF Tick, BatteryInStep, Between, Working, rowVars, topicVars, histVars
<1> QED
    BY <1>1, <1>2, <1>3, <1>4, <1>5 DEF Next

-----------------------------------------------------------------------------
(* Topics and the calls that have them to themselves.                      *)

(* A request that is seen moves last_seen and notes it.                    *)
LEMMA AskInStep ==
    ASSUME TypeOK, InStep, NEW m \in Messages, Ask(m)
    PROVE  InStep'
<1>1. Asks(m)
    BY AskFrame
<1>2. UNCHANGED <<loc, bat, radio, locTopic, batTopic, stateTopic, snap, astray>>
    BY <1>1 DEF Asks, topicVars
<1>3. ASSUME NEW k \in Messages, Worked(k)'
      PROVE  RowKnown(k)' /\ StateKnown(k)'
    <2>1. k # m /\ Worked(k) /\ pc'[k] = pc[k] /\ job'[k] = job[k]
        BY <1>1, <1>3, AskWorking DEF Asks, Worked
    <2>2. RowKnown(k) /\ StateKnown(k) /\ job[k].node \in Nodes
        BY <2>1 DEF InStep, TypeOK, Worked, Job
    <2>3. RowKnown(k)'
        BY <1>2, <2>1, <2>2 DEF RowKnown, Between, Done
    <2>4. snap[k].last_seen \in Nat \cup {Null}
        BY DEF TypeOK, Snapshot
    <2>5. /\ last_seen[job[k].node] \in Nat \cup {Null}
          /\ last_seen'[job[k].node] \in Nat \cup {Null}
          /\ last_seen'[job[k].node] >= last_seen[job[k].node]
          /\ \/ last_seen'[job[k].node] = last_seen[job[k].node]
             \/ job[k].node \in unsaid'
          /\ job[k].node \in unsaid => job[k].node \in unsaid'
        BY <1>1, <2>2 DEF Asks, TypeOK
    <2>6. StateKnown(k)'
        BY <1>2, <2>1, <2>2, <2>4, <2>5 DEF StateKnown, Null
    <2> QED
        BY <2>3, <2>6
<1>4. ASSUME NEW n \in Nodes
      PROVE  /\ \A x \in Topics : Free(n, x)' => Free(n, x)
             /\ Summarised(n) => Summarised(n)'
    <2>1. \A x \in Topics : Free(n, x)' => Free(n, x)
        BY <1>1, <1>2, AskWorking DEF Free
    <2>2. /\ last_seen[n] \in Nat \cup {Null} /\ last_seen'[n] \in Nat \cup {Null}
          /\ last_seen'[n] >= last_seen[n]
          /\ last_seen'[n] = last_seen[n] \/ n \in unsaid'
          /\ n \in unsaid => n \in unsaid'
        BY <1>1 DEF Asks, TypeOK
    <2>3. stateTopic[n] # None => stateTopic[n].last_seen \in Nat
        BY DEF TypeOK, Summary
    <2> QED
        BY <1>2, <2>1, <2>2, <2>3 DEF Summarised, Null
<1> QED
    BY <1>2, <1>3, <1>4 DEF InStep, TopicsRepaired, Topics

(* A call that begins knows nothing yet, and who has a topic to himself    *)
(* still has.                                                              *)
LEMMA BeginInStep ==
    ASSUME TypeOK, InStep, OneAtATime, NEW m \in Messages, Begin(m)
    PROVE  InStep'
<1>1. PICK n \in Nodes : Begins(m, n)
    BY BeginFrame
<1>2. UNCHANGED <<loc, bat, last_seen, radio, locTopic, batTopic, stateTopic, snap, unsaid>>
    BY <1>1 DEF Begins, topicVars, rowVars
<1>3. ASSUME NEW k \in Messages, Worked(k)'
      PROVE  RowKnown(k)' /\ StateKnown(k)'
    <2>1. CASE k = m
        <3>1. pc'[m] = "upsert" \/ (pc'[m] = "mark_seen" /\ job'[m].kind = "seen")
            BY <1>1 DEF Begins
        <3> QED
            BY <2>1, <3>1 DEF RowKnown, StateKnown, Between, Done
    <2>2. CASE k # m
        <3>1. Worked(k) /\ pc'[k] = pc[k] /\ job'[k] = job[k]
            BY <1>1, <1>3, <2>2 DEF Begins, Worked
        <3>2. RowKnown(k) /\ StateKnown(k) /\ job[k].node \in Nodes /\ job[k] \in Job
            BY <3>1 DEF InStep, TypeOK, Worked, Job
        (* A topic k publishes is not astray after only if not before.     *)
        <3>3. ASSUME NEW x \in Topics, x \in Publishes(job[k].kind),
                     <<job[k].node, x>> \notin astray'
              PROVE  <<job[k].node, x>> \notin astray
            <4>1. k \in Calls(job[k].node, x)
                BY <3>1, <3>3 DEF Calls, Working, Worked
            <4> QED
                BY <1>1, <3>2, <3>3, <4>1, BeginAstray
        <3>4. RowKnown(k)'
            <4>1. CASE job[k].kind \in {"location", "battery"}
                <5>1. job[k].kind \in Topics /\ job[k].kind \in Publishes(job[k].kind)
                    BY <4>1, PublishesTopics DEF Topics
                <5>2. <<job[k].node, job[k].kind>> \notin astray' =>
                          <<job[k].node, job[k].kind>> \notin astray
                    BY <3>3, <5>1
                <5> QED
                    BY <1>2, <3>1, <3>2, <5>2 DEF RowKnown, Between, Done
            <4>2. CASE job[k].kind \notin {"location", "battery"}
                BY <3>1, <4>2 DEF RowKnown
            <4> QED
                BY <4>1, <4>2
        <3>5. <<job[k].node, "state">> \notin astray' => <<job[k].node, "state">> \notin astray
            BY <3>3, PublishesTopics DEF Topics
        <3>6. StateKnown(k)'
            BY <1>2, <3>1, <3>2, <3>5 DEF StateKnown
        <3> QED
            BY <3>4, <3>6
    <2> QED
        BY <2>1, <2>2
<1>4. ASSUME NEW i \in Nodes, NEW x \in Topics, Free(i, x)'
      PROVE  Free(i, x)
    BY <1>1, <1>4, BeginAstray DEF Free
<1>5. ASSUME NEW i \in Nodes
      PROVE  Summarised(i) => Summarised(i)'
    BY <1>2 DEF Summarised
<1> QED
    BY <1>2, <1>3, <1>4, <1>5 DEF InStep, TopicsRepaired, Topics

(* A call writes and publishes what is of its kind.                        *)
LEMMA MoveOwnKind ==
    ASSUME TypeOK, Jobs, NEW m \in Messages, Proceed(m) \/ Fail(m) \/ CancelLate(m)
    PROVE  /\ job[m].kind # "location" => loc' = loc /\ locTopic' = locTopic
           /\ job[m].kind # "battery" => bat' = bat /\ batTopic' = batTopic
<1>1. Worked(m) /\ job[m] \in Job
    BY MoveFrame
<1>2. job[m].kind \in {"location", "battery", "seen"}
    BY <1>1 DEF Jobs
<1>3. /\ Upsert(m) \/ LateUpsert(m) \/ PublishRow(m) => job[m].kind # "seen"
    BY <1>1 DEF Jobs, Upsert, LateUpsert, PublishRow, GoTo
<1>4. CASE Upsert(m) \/ LateUpsert(m)
    BY <1>2, <1>3, <1>4 DEF Upsert, LateUpsert, UpsertRow, topicVars
<1>5. CASE PublishRow(m)
    BY <1>2, <1>3, <1>5 DEF PublishRow, rowVars
<1>6. CASE ~Upsert(m) /\ ~LateUpsert(m) /\ ~PublishRow(m)
    BY <1>6 DEF Proceed, MarkNodeSeen, GetLastSeen, GetNodeLocation,
       GetNodeBattery, PublishState, LateMarkSeen, Fail, CancelLate, rowVars,
       topicVars
<1> QED
    BY <1>4, <1>5, <1>6

(* A call that moves leaves what the others know alone.                    *)
LEMMA OthersKnow ==
    ASSUME TypeOK, Jobs, OneAtATime, InStep,
           NEW m \in Messages, Proceed(m) \/ Fail(m) \/ CancelLate(m),
           NEW k \in Messages, k # m, Worked(k)'
    PROVE  RowKnown(k)' /\ StateKnown(k)'
<1> DEFINE n == job[k].node
<1>1. /\ Worked(k) /\ pc'[k] = pc[k] /\ snap'[k] = snap[k] /\ job' = job
      /\ Worked(m) /\ job[m].node \in Nodes /\ astray \subseteq astray'
    BY MoveFrame DEF Worked
<1>2. /\ RowKnown(k) /\ StateKnown(k) /\ n \in Nodes
    BY <1>1 DEF InStep, TypeOK, Worked, Job
<1>3. CASE n # job[m].node
    <2>1. /\ loc'[n] = loc[n] /\ bat'[n] = bat[n] /\ last_seen'[n] = last_seen[n]
          /\ locTopic'[n] = locTopic[n] /\ batTopic'[n] = batTopic[n]
          /\ n \in unsaid' <=> n \in unsaid
        BY <1>2, <1>3, MoveElsewhere
    <2>2. RowKnown(k)'
        BY <1>1, <1>2, <2>1 DEF RowKnown, Between, Done
    <2>3. StateKnown(k)'
        BY <1>1, <1>2, <2>1 DEF StateKnown
    <2> QED
        BY <2>2, <2>3
<1>4. CASE n = job[m].node
    <2>1. ASSUME NEW x \in Topics, x \in Publishes(job[k].kind), x \in Publishes(job[m].kind)
          PROVE  <<n, x>> \in astray'
        <3>1. m \in Calls(n, x) /\ k \in Calls(n, x)
            BY <1>1, <1>4, <2>1 DEF Calls, Working, Worked
        <3> QED
            BY <1>1, <1>2, <3>1 DEF OneAtATime
    <2>2. StateKnown(k)'
        BY <1>1, <2>1, PublishesTopics DEF StateKnown, Topics
    <2>3. CASE job[k].kind \in {"location", "battery"}
        <3>1. job[m].kind = job[k].kind => <<n, job[k].kind>> \in astray'
            BY <2>1, <2>3, PublishesTopics DEF Topics
        <3>2. job[m].kind # job[k].kind => RowKnown(k)'
            BY <1>1, <1>2, <2>3, MoveOwnKind DEF RowKnown, Between, Done
        <3> QED
            BY <1>1, <2>2, <3>1, <3>2 DEF RowKnown
    <2>4. CASE job[k].kind \notin {"location", "battery"}
        BY <1>1, <2>2, <2>4 DEF RowKnown
    <2> QED
        BY <2>2, <2>3, <2>4
<1> QED
    BY <1>3, <1>4

(* A call that goes on alone knows more at each await.                     *)
LEMMA MoverKnows ==
    ASSUME TypeOK, Jobs, InStep, NEW m \in Messages,
           Proceed(m) \/ Fail(m) \/ CancelLate(m), Worked(m)'
    PROVE  RowKnown(m)' /\ StateKnown(m)'
<1> DEFINE n == job[m].node
<1>1. /\ Worked(m) /\ job[m] \in Job /\ n \in Nodes /\ job' = job
      /\ astray \subseteq astray'
    BY MoveFrame
<1>2. RowKnown(m) /\ StateKnown(m)
    BY <1>1 DEF InStep
<1> USE DEF GoTo, TypeOK, rowVars, topicVars, histVars
<1>3. CASE Fail(m) \/ CancelLate(m)
    <2>1. \A x \in Publishes(job[m].kind) : <<n, x>> \in astray'
        BY <1>3 DEF Fail, CancelLate, CutShort
    <2>2. job[m].kind \in {"location", "battery"} => <<n, job[m].kind>> \in astray'
        BY <2>1, PublishesTopics
    <2> QED
        BY <1>1, <2>1, <2>2, PublishesTopics DEF RowKnown, StateKnown
<1>4. CASE LateUpsert(m) \/ LateMarkSeen(m) \/ PublishState(m)
    BY <1>1, <1>4 DEF LateUpsert, LateMarkSeen, PublishState, Return, Worked,
       Awaits, Late
<1>5. CASE Upsert(m)
    <2>1. pc'[m] = "mark_seen" /\ job[m].kind \in {"location", "battery"}
        BY <1>1, <1>5 DEF Upsert, Jobs
    <2>2. /\ job[m].kind = "location" => loc'[n] = m
          /\ job[m].kind = "battery" => bat'[n] = m
        BY <1>1, <1>5 DEF Upsert, UpsertRow, Put
    <2> QED
        BY <1>1, <2>1, <2>2 DEF RowKnown, StateKnown, Between, Done
<1>6. CASE MarkNodeSeen(m)
    <2>1. /\ pc[m] = "mark_seen"
          /\ pc'[m] = IF job[m].kind = "seen" THEN "get_last_seen" ELSE "publish"
          /\ UNCHANGED <<loc, bat, locTopic, batTopic, astray>>
        BY <1>6 DEF MarkNodeSeen
    <2> QED
        BY <1>1, <1>2, <2>1 DEF RowKnown, StateKnown, Between, Done
<1>7. CASE PublishRow(m)
    <2>1. /\ pc[m] = "publish" /\ pc'[m] = "get_last_seen"
          /\ UNCHANGED <<loc, bat, astray>>
          /\ job[m].kind = "location" => locTopic'[n] = m
          /\ job[m].kind = "battery" => batTopic'[n] = m
        BY <1>1, <1>7 DEF PublishRow, Put
    <2> QED
        BY <1>1, <1>2, <2>1 DEF RowKnown, StateKnown, Between, Done
<1>8. CASE GetLastSeen(m)
    <2>1. /\ pc[m] = "get_last_seen" /\ pc'[m] = "get_node_location"
          /\ UNCHANGED <<loc, bat, last_seen, locTopic, batTopic, astray>>
          /\ snap'[m].last_seen = last_seen[n]
        BY <1>1, <1>8 DEF GetLastSeen, Snapshot
    <2>2. last_seen[n] <= last_seen[n]
        BY <1>1 DEF Null
    <2> QED
        BY <1>1, <1>2, <2>1, <2>2 DEF RowKnown, StateKnown, Between, Done
<1>9. CASE GetNodeLocation(m)
    <2>1. /\ pc[m] = "get_node_location" /\ pc'[m] = "get_node_battery"
          /\ UNCHANGED <<loc, bat, last_seen, locTopic, batTopic, astray, unsaid>>
          /\ snap'[m].last_seen = snap[m].last_seen /\ snap'[m].loc = loc[n]
        BY <1>1, <1>9 DEF GetNodeLocation, Snapshot
    <2> QED
        BY <1>1, <1>2, <2>1 DEF RowKnown, StateKnown, Between, Done
<1>10. CASE GetNodeBattery(m)
    <2>1. /\ pc[m] = "get_node_battery" /\ pc'[m] = "publish_state"
          /\ UNCHANGED <<loc, bat, last_seen, locTopic, batTopic, astray, unsaid>>
          /\ snap'[m].last_seen = snap[m].last_seen /\ snap'[m].loc = snap[m].loc
          /\ snap'[m].bat = bat[n]
        BY <1>1, <1>10 DEF GetNodeBattery, Snapshot
    <2> QED
        BY <1>1, <1>2, <2>1 DEF RowKnown, StateKnown, Between, Done
<1> QED
    BY <1>3, <1>4, <1>5, <1>6, <1>7, <1>8, <1>9, <1>10 DEF Proceed

(* The state topic of a node whose only call has just published it.        *)
LEMMA PublishedSummary ==
    ASSUME TypeOK, SeenWhenRead, NEW m \in Messages, PublishState(m),
           StateKnown(m), NEW n \in Nodes, n = job[m].node,
           <<n, "state">> \notin astray
    PROVE  Summarised(n)'
<1>1. job[m] \in Job /\ job[m].node \in Nodes
    BY DEF PublishState, Return, GoTo, TypeOK, Awaits, Job
<1>2. snap[m] \in Snapshot /\ snap[m].last_seen # Null
    BY DEF PublishState, Return, GoTo, SeenWhenRead, TypeOK
<1>3. StateBody(m) \in Summary
    BY <1>1, <1>2 DEF StateBody, Summary, Snapshot, TypeOK
<1>4. StateBody(m) # None
    BY <1>3, SummaryAssumption
<1>5. stateTopic'[n] = StateBody(m)
    BY <1>1 DEF PublishState, TypeOK
<1>6. UNCHANGED <<loc, bat, last_seen, radio, job, unsaid>>
    BY DEF PublishState, rowVars, histVars
<1>7. /\ snap[m].last_seen <= last_seen[n]
      /\ snap[m].last_seen = last_seen[n] \/ n \in unsaid
      /\ snap[m].loc = loc[n] /\ snap[m].bat = bat[n]
    BY DEF StateKnown, PublishState, Return, GoTo
<1> QED
    BY <1>4, <1>5, <1>6, <1>7 DEF Summarised, StateBody

(* A topic that is free after a step of a call was free before, or has     *)
(* been published by that call.                                            *)
LEMMA FreedTopic ==
    ASSUME TypeOK, Jobs, NEW m \in Messages, Proceed(m) \/ Fail(m) \/ CancelLate(m),
           NEW n \in Nodes, NEW x \in Topics, Free(n, x)'
    PROVE  \/ Free(n, x) /\ ~(n = job[m].node /\ x \in Publishes(job[m].kind))
           \/ /\ n = job[m].node /\ x \in Publishes(job[m].kind)
              /\ PublishState(m) /\ <<n, x>> \notin astray
<1>1. /\ Worked(m) /\ job[m].node \in Nodes /\ job' = job
      /\ astray \subseteq astray'
    BY MoveFrame
<1>2. <<n, x>> \notin astray /\ \A k \in Calls(n, x) : k = m
    BY <1>1, MoveWorking DEF Free
<1>3. CASE n = job[m].node /\ x \in Publishes(job[m].kind)
    <2>1. ~Fail(m) /\ ~CancelLate(m)
        BY <1>3 DEF Fail, CancelLate, CutShort, Free
    <2>2. pc[m] \notin Late
        BY <1>2, <1>3 DEF Jobs
    <2>3. ~Worked(m)'
        BY <1>1, <1>3 DEF Free, Calls, Working, Worked
    <2>4. PublishState(m)
        BY <2>1, <2>2, <2>3 DEF Proceed, Upsert, MarkNodeSeen, PublishRow,
           GetLastSeen, GetNodeLocation, GetNodeBattery, LateUpsert,
           LateMarkSeen, GoTo, Worked, Awaits, Late, TypeOK
    <2> QED
        BY <1>2, <1>3, <2>4
<1>4. CASE ~(n = job[m].node /\ x \in Publishes(job[m].kind))
    <2>1. m \notin Calls(n, x)
        BY <1>4 DEF Calls, Working
    <2> QED
        BY <1>2, <1>4, <2>1 DEF Free
<1> QED
    BY <1>3, <1>4

(* A call moves.                                                           *)
LEMMA MoveInStep ==
    ASSUME TypeOK, Jobs, SeenWhenRead, OneAtATime, InStep,
           NEW m \in Messages, Proceed(m) \/ Fail(m) \/ CancelLate(m)
    PROVE  InStep'
<1>1. /\ Worked(m) /\ job[m].node \in Nodes /\ job[m] \in Job
      /\ RowKnown(m) /\ StateKnown(m)
    BY MoveFrame DEF InStep
<1>2. \A k \in Messages : Worked(k)' => RowKnown(k)' /\ StateKnown(k)'
    BY OthersKnow, MoverKnows
<1>3. ASSUME NEW n \in Nodes, Free(n, "location")'
      PROVE  locTopic'[n] = loc'[n]
    <2>1. CASE n = job[m].node /\ "location" \in Publishes(job[m].kind)
        <3>1. PublishState(m) /\ <<n, "location">> \notin astray
            BY <1>3, <2>1, FreedTopic DEF Topics
        <3>2. job[m].kind = "location"
            BY <2>1 DEF Publishes
        <3> QED
            BY <1>1, <2>1, <3>1, <3>2
            DEF PublishState, Return, GoTo, RowKnown, Done, rowVars
    <2>2. CASE ~(n = job[m].node /\ "location" \in Publishes(job[m].kind))
        <3>1. locTopic[n] = loc[n]
            BY <1>3, <2>2, FreedTopic DEF Topics, InStep, TopicsRepaired
        <3>2. n = job[m].node => job[m].kind # "location"
            BY <2>2, PublishesTopics
        <3> QED
            BY <3>1, <3>2, MoveElsewhere, MoveOwnKind
    <2> QED
        BY <2>1, <2>2
<1>4. ASSUME NEW n \in Nodes, Free(n, "battery")'
      PROVE  batTopic'[n] = bat'[n]
    <2>1. CASE n = job[m].node /\ "battery" \in Publishes(job[m].kind)
        <3>1. PublishState(m) /\ <<n, "battery">> \notin astray
            BY <1>4, <2>1, FreedTopic DEF Topics
        <3>2. job[m].kind = "battery"
            BY <2>1 DEF Publishes
        <3> QED
            BY <1>1, <2>1, <3>1, <3>2
            DEF PublishState, Return, GoTo, RowKnown, Done, rowVars
    <2>2. CASE ~(n = job[m].node /\ "battery" \in Publishes(job[m].kind))
        <3>1. batTopic[n] = bat[n]
            BY <1>4, <2>2, FreedTopic DEF Topics, InStep, TopicsRepaired
        <3>2. n = job[m].node => job[m].kind # "battery"
            BY <2>2, PublishesTopics
        <3> QED
            BY <3>1, <3>2, MoveElsewhere, MoveOwnKind
    <2> QED
        BY <2>1, <2>2
<1>5. ASSUME NEW n \in Nodes, Free(n, "state")'
      PROVE  Summarised(n)'
    <2>1. CASE n = job[m].node
        <3>1. PublishState(m) /\ <<n, "state">> \notin astray
            BY <1>5, <2>1, FreedTopic, PublishesTopics DEF Topics
        <3> QED
            BY <1>1, <2>1, <3>1, PublishedSummary
    <2>2. CASE n # job[m].node
        <3>1. Summarised(n)
            BY <1>5, <2>2, FreedTopic DEF Topics, InStep, TopicsRepaired
        <3>2. /\ loc'[n] = loc[n] /\ bat'[n] = bat[n] /\ last_seen'[n] = last_seen[n]
              /\ radio'[n] = radio[n] /\ stateTopic'[n] = stateTopic[n]
              /\ n \in unsaid' <=> n \in unsaid
            BY <2>2, MoveElsewhere
        <3> QED
            BY <3>1, <3>2 DEF Summarised
    <2> QED
        BY <2>1, <2>2
<1> QED
    BY <1>2, <1>3, <1>4, <1>5 DEF InStep, TopicsRepaired

(* A topic whose last call had it to itself is in step.                    *)
LEMMA InStepStep ==
    ASSUME TypeOK, Jobs, SeenWhenRead, OneAtATime, InStep, Next
    PROVE  InStep'
<1>1. CASE Restart
    <2>1. \A m \in Messages : ~Worked(m)'
        BY <1>1 DEF Restart, Worked, Awaits, Late
    <2>2. ASSUME NEW n \in Nodes, NEW x \in Topics, Free(n, x)'
          PROVE  Free(n, x)
        BY <1>1, <2>2 DEF Restart, Free
    <2>3. ASSUME NEW n \in Nodes
          PROVE  Summarised(n) => Summarised(n)'
        BY <1>1 DEF Restart, Summarised, rowVars, topicVars
    <2> QED
        BY <1>1, <2>1, <2>2, <2>3
        DEF Restart, InStep, TopicsRepaired, Topics, rowVars, topicVars
<1>2. CASE Tick
    BY <1>2 DEF Tick, InStep, TopicsRepaired, Free, Summarised, Calls, Working,
       RowKnown, StateKnown, Worked, Between, Done, rowVars, topicVars, histVars
<1> QED
    BY <1>1, <1>2, AskInStep, BeginInStep, MoveInStep DEF Next

-----------------------------------------------------------------------------
(* Rows and last_seen.                                                     *)

(* A row is covered by last_seen, or its call is about to see to it.       *)
LEMMA CoveredStep ==
    ASSUME TypeOK, Jobs, Stored, Covered, Next
    PROVE  Covered'
<1>0. \A n \in Nodes : \A k \in {loc[n], bat[n]} \ {None} :
          /\ k \in Messages /\ pc[k] \notin {"none"} \cup Asking
          /\ job[k] \in Job /\ job[k].ts \in Nat
    BY DEF Stored, TypeOK, Job
<1> SUFFICES ASSUME NEW n \in Nodes \ cut', NEW k \in {loc'[n], bat'[n]} \ {None}
             PROVE  /\ job'[k].node = n
                    /\ last_seen'[n] >= job'[k].ts \/ pc'[k] = "mark_seen"
    BY DEF Covered
<1>1. /\ last_seen[n] \in Nat \cup {Null} /\ last_seen'[n] \in Nat \cup {Null}
      /\ last_seen'[n] >= last_seen[n] /\ n \notin cut
    BY SeenGrows, AskFrame, BeginFrame, MoveFrame
    DEF Next, Asks, Begins, Restart, Tick, histVars
<1>2. ASSUME NEW m \in Messages, Ask(m) \/ Begin(m)
      PROVE  /\ job'[k].node = n
             /\ last_seen'[n] >= job'[k].ts \/ pc'[k] = "mark_seen"
    <2>1. k \in {loc[n], bat[n]} \ {None} /\ pc[m] \in {"none"} \cup Asking
        BY <1>2, AskFrame, BeginFrame DEF Asks, Begins, rowVars, Asking
    <2>2. k # m /\ k \in Messages /\ job[k].ts \in Nat
        BY <1>0, <2>1
    <2>3. pc'[k] = pc[k] /\ job'[k] = job[k]
        BY <1>2, <2>2, AskFrame, BeginFrame DEF Asks, Begins
    <2> QED
        BY <1>1, <2>1, <2>2, <2>3 DEF Covered, Null
<1>3. ASSUME NEW m \in Messages, Proceed(m) \/ Fail(m) \/ CancelLate(m)
      PROVE  /\ job'[k].node = n
             /\ last_seen'[n] >= job'[k].ts \/ pc'[k] = "mark_seen"
    <2>0. /\ job' = job /\ job[m].node \in Nodes /\ job[m].ts \in Nat
          /\ \A i \in Messages : i # m => pc'[i] = pc[i]
        BY <1>3, MoveFrame DEF Job
    <2>1. \/ k \in {loc[n], bat[n]} \ {None}
          \/ k = m /\ n = job[m].node /\ (Upsert(m) \/ LateUpsert(m))
        BY <1>3, <2>0 DEF Proceed, Upsert, UpsertRow, MarkNodeSeen, PublishRow,
           GetLastSeen, GetNodeLocation, GetNodeBattery, PublishState, LateUpsert,
           LateMarkSeen, Fail, CancelLate, rowVars, Put, TypeOK
    <2>2. CASE k = m /\ n = job[m].node
        <3>1. Proceed(m) /\ ~LateUpsert(m) /\ ~LateMarkSeen(m)
            BY <1>1, <1>3, <2>2 DEF Fail, CancelLate, CutShort, LateUpsert,
               LateMarkSeen, GoTo, Jobs, Late
        <3>2. CASE Upsert(m)
            BY <2>0, <2>2, <3>2 DEF Upsert, GoTo, TypeOK
        <3>3. CASE MarkNodeSeen(m)
            BY <1>1, <2>0, <2>2, <3>3, NewerProperties
            DEF MarkNodeSeen, SeenRow, TypeOK
        <3>4. CASE ~Upsert(m) /\ ~MarkNodeSeen(m)
            <4>1. pc[m] # "mark_seen"
                BY <3>1, <3>4 DEF Proceed, PublishRow, GetLastSeen,
                   GetNodeLocation, GetNodeBattery, PublishState, Return, GoTo
            <4>2. last_seen[n] >= job[m].ts
                BY <1>1, <2>1, <2>2, <3>1, <3>4, <4>1 DEF Covered
            <4> QED
                BY <1>1, <2>0, <2>2, <4>2 DEF Null
        <3> QED
            BY <3>2, <3>3, <3>4
    <2>3. CASE ~(k = m /\ n = job[m].node)
        <3>1. k \in {loc[n], bat[n]} \ {None} /\ k \in Messages /\ job[k].ts \in Nat
            BY <1>0, <2>1, <2>3
        <3>2. job[k].node = n /\ (last_seen[n] >= job[k].ts \/ pc[k] = "mark_seen")
            BY <1>1, <3>1 DEF Covered
        <3> QED
            BY <1>1, <2>0, <2>3, <3>1, <3>2 DEF Null
    <2> QED
        BY <2>2, <2>3
<1>4. CASE Restart
    <2>1. k \in {loc[n], bat[n]} \ {None} /\ k \in Messages
        BY <1>0, <1>4 DEF Restart, rowVars
    <2>2. Working(n) = {}
        BY <1>4 DEF Restart
    <2>3. job[k].node = n /\ pc[k] # "mark_seen"
        BY <1>1, <2>1, <2>2 DEF Covered, Working, Awaits
    <2> QED
        BY <1>1, <1>4, <2>1, <2>3 DEF Restart, Covered, rowVars
<1>5. CASE Tick
    BY <1>1, <1>5 DEF Tick, Covered, rowVars
<1> QED
    BY <1>2, <1>3, <1>4, <1>5 DEF Next

-----------------------------------------------------------------------------
(* The inductive invariant.                                                *)

(* An empty database, and nothing retained.                                *)
LEMMA InitInv == Init => IInv
<1> SUFFICES ASSUME Init
             PROVE  IInv
    OBVIOUS
<1>1. NothingRead \in Snapshot /\ NothingRead.loc = None /\ NothingRead.bat = None
    BY DEF NothingRead, Snapshot
<1>2. TypeOK
    BY <1>1 DEF Init, TypeOK, Null, Asking, Awaits, Late
<1>3. \A n \in Nodes : Working(n) = {}
    BY DEF Init, Working, Awaits, Late
<1>4. Jobs
    BY DEF Init, Jobs, Worked, Busy, Awaits, Late, Messages
<1>5. Stored /\ StoredBeforePublished /\ SeenWhenRead
    BY <1>1 DEF Init, Stored, StoredBeforePublished, SeenWhenRead
<1>6. BatteryInStep /\ OneAtATime
    BY <1>3 DEF Init, BatteryInStep, OneAtATime, Calls, Between
<1>7. InStep /\ Covered
    BY <1>3 DEF Init, InStep, TopicsRepaired, Summarised, Covered, Worked, Awaits,
       Late
<1> QED
    BY <1>2, <1>4, <1>5, <1>6, <1>7 DEF IInv

(* Every step keeps it.                                                    *)
LEMMA NextInv == IInv /\ [Next]_vars => IInv'
<1> SUFFICES ASSUME IInv, [Next]_vars
             PROVE  IInv'
    OBVIOUS
<1>1. CASE Next
    <2>1. TypeOK'
        BY <1>1, AskType, BeginType, ProceedType, CutType DEF Next, IInv
    <2>2. Jobs' /\ Stored' /\ SeenWhenRead' /\ OneAtATime'
        BY <1>1, JobsStep, StoredStep, SeenStep, OneStep DEF IInv
    <2>3. StoredBeforePublished' /\ BatteryInStep' /\ InStep' /\ Covered'
        BY <1>1, PublishedStep, BatteryStep, InStepStep, CoveredStep DEF IInv
    <2> QED
        BY <2>1, <2>2, <2>3 DEF IInv
<1>2. CASE UNCHANGED vars
    <2>1. TypeOK' /\ Jobs' /\ Stored' /\ StoredBeforePublished' /\ SeenWhenRead'
        BY <1>2 DEF IInv, vars, rowVars, topicVars, histVars, TypeOK, Jobs, Stored,
           StoredBeforePublished, SeenWhenRead, Worked, Busy
    <2>2. BatteryInStep' /\ OneAtATime' /\ InStep' /\ Covered'
        BY <1>2 DEF IInv, vars, rowVars, topicVars, histVars, BatteryInStep,
           OneAtATime, InStep, TopicsRepaired, Free, Summarised, RowKnown,
           StateKnown, Covered, Calls, Working, Worked, Between, Done
    <2> QED
        BY <2>1, <2>2 DEF IInv
<1> QED
    BY <1>1, <1>2

-----------------------------------------------------------------------------
(* The theorems.                                                           *)

(* IInv holds in every state of every behaviour of the aggregator.         *)
THEOREM Invariance == Spec => []IInv
BY InitInv, NextInv, PTL DEF Spec

(* Rows, topics and calls keep their types; in particular no state topic   *)
(* is ever published for a node that has no row in nodes.                  *)
THEOREM TypeCorrect == Spec => []TypeOK
<1>1. IInv => TypeOK
    BY DEF IInv
<1> QED
    BY <1>1, Invariance, PTL

(* No retained topic ever shows a fix or a reading that was not in the     *)
(* database first (state.py:81-103), for any number of reports interleaved,*)
(* failing, cancelled late or killed.                                      *)
THEOREM StoredFirst == Spec => []StoredBeforePublished
<1>1. IInv => StoredBeforePublished
    BY DEF IInv
<1> QED
    BY <1>1, Invariance, PTL

(* Because the consume loop awaits each gateway event, the retained        *)
(* battery is the stored one whenever no battery event of the node is in   *)
(* progress (state.py:110-122), however many reports interleave.           *)
THEOREM BatteryMirrored == Spec => []BatteryTopicMatches
<1>1. IInv => BatteryTopicMatches
    BY DEF IInv, BatteryInStep, BatteryTopicMatches
<1> QED
    BY <1>1, Invariance, PTL

(* A topic tells what the rows say unless its last call overlapped another *)
(* one or was cut short, whatever happened before, and requests without a  *)
(* fix leave the state topic behind in last_seen only (core.py:77,         *)
(* state.py:76-123, 174-180).                                              *)
THEOREM LoneCallRepairs == Spec => []TopicsRepaired
<1>1. IInv => TopicsRepaired
    BY DEF IInv, InStep
<1> QED
    BY <1>1, Invariance, PTL

(* Once its calls are over, a node was last seen no earlier than the fix   *)
(* and the reading it is shown with (state.py:84, 113), whatever clocks    *)
(* the senders have.                                                       *)
THEOREM RowsAreCovered == Spec => []SeenCoversRows
<1>1. ASSUME IInv
      PROVE  SeenCoversRows
    <2> SUFFICES ASSUME NEW n \in Nodes \ cut, Quiet(n), NEW m \in {loc[n], bat[n]} \ {None}
                 PROVE  last_seen[n] >= job[m].ts
        BY DEF SeenCoversRows
    <2>1. m \in Messages
        BY <1>1 DEF IInv, TypeOK
    <2>2. job[m].node = n /\ (last_seen[n] >= job[m].ts \/ pc[m] = "mark_seen")
        BY <1>1 DEF IInv, Covered
    <2>3. pc[m] # "mark_seen"
        BY <2>1, <2>2 DEF Quiet, Working, Awaits
    <2> QED
        BY <2>2, <2>3
<1> QED
    BY <1>1, Invariance, PTL

=============================================================================
