---------------------- MODULE RpcPipelineLedger_proofs ----------------------
(***************************************************************************)
(* RpcPipeline implements RequestLedger: under the mapping that forgets    *)
(* everything of a row but its owner and whether it is final, the first    *)
(* states agree and every step of the pipeline is a step of the ledger or  *)
(* leaves it unchanged.                                                    *)
(***************************************************************************)
EXTENDS RpcPipeline_proofs

(* The ledger variable under the refinement mapping.                       *)
Mapped == [k \in Keys |-> LedgerOf(requests[k])]

(* A row maps to an entry of the ledger.                                   *)
LEMMA LedgerEntry ==
  ASSUME NEW row \in Row
  PROVE  /\ LedgerOf(row) = [holder |-> row.by, closed |-> row.final_state # "null"]
         /\ LedgerOf(row) # NoRow
<1>1. LedgerOf(row) = [holder |-> row.by, closed |-> row.final_state # "null"]
  BY NoRowAssumption DEF LedgerOf
<1>2. LedgerOf(row) \in Ledger!Entry
  BY <1>1 DEF Ledger!Entry, Row
<1> QED BY <1>1, <1>2, LedgerAssumption

(* A key is free in the ledger exactly when it has no row.                 *)
LEMMA MappedFree ==
  ASSUME StoreTypeOK, NEW k \in Keys
  PROVE  /\ Mapped[k] = NoRow <=> ~ HasRow(k)
         /\ HasRow(k) => /\ Mapped[k].holder = requests[k].by
                         /\ Mapped[k].closed = (requests[k].final_state # "null")
<1>1. CASE HasRow(k)
  BY <1>1, RowIsRow, LedgerEntry DEF Mapped, HasRow
<1>2. CASE ~ HasRow(k)
  BY <1>2 DEF Mapped, HasRow, LedgerOf
<1> QED BY <1>1, <1>2

(* An empty requests table maps to an empty ledger.                        *)
LEMMA LedgerInitial == Init => Ledger!LedgerInit
BY DEF Init, StoreInit, Ledger!LedgerInit, LedgerOf

(* Which steps start a handler.                                            *)
LEMMA ExecutedStep ==
  ASSUME [Next]_vars
  PROVE  executed' = executed \/ \E d \in Deliveries : StartHandler(d)
<1> USE DEF histVars
<1>1. ASSUME NEW d \in Deliveries, Deliver(d) PROVE executed' = executed
  BY <1>1 DEF Deliver, DeliverGarbage, DeliverMalformed, DeliverRequest
<1>2. ASSUME NEW d \in Deliveries, Progress(d), ~ StartHandler(d)
      PROVE  executed' = executed
  BY <1>2 DEF Progress, RecordReceivedFresh, RecordReceivedDuplicate,
              RecordReceivedFails, RecordDuplicate, RecordValidated, MarkSeen,
              RejectUnknown, HandlerTimesOut, RecordTimeout, CallPublish,
              PublishAcked, PublishFails, RecordPublished, RecordPublishedFails,
              RecordCompletion, StoreRaises
<1>3. ASSUME NEW d \in Deliveries, HandlerEnds(d) PROVE executed' = executed
  BY <1>3 DEF HandlerEnds, HandlerReturns, HandlerRaises
<1>4. CASE Purge \/ Lifecycle \/ Tick
  BY <1>4 DEF Purge, Sweep, PurgeCli, Lifecycle, Start, StopConsuming, Disconnect,
              CloseStore, Crash, Tick
<1>5. CASE UNCHANGED vars
  BY <1>5 DEF vars
<1> QED BY <1>1, <1>2, <1>3, <1>4, <1>5 DEF Next

(* Every step of the pipeline is an accept, an execute, a close, a forget  *)
(* or a stutter of the ledger.                                             *)
LEMMA LedgerStep ==
  ASSUME OwnInv, OwnInv', [Next]_vars
  PROVE  Ledger!LedgerNext \/ UNCHANGED <<Mapped, executed>>
<1> USE DEF OwnInv, StoreInv
<1>0. StoreTypeOK /\ StoreTypeOK' /\ now \in Nat
  BY DEF StoreTypeOK
<1>1. ASSUME NEW d \in Deliveries, StartHandler(d) PROVE Ledger!Execute(d)
  <2>1. /\ fresh[d] = "fresh" /\ d \notin executed /\ KeyOf(d) \in Keys /\ Live(d)
        /\ requests' = requests /\ executed' = executed \cup {d}
    BY <1>1, KeyOfTask
       DEF StartHandler, GoTo, InsertEvent, TaskInv, Stage, PreHandler, Live, LivePc
  <2>2. HasRow(KeyOf(d)) /\ requests[KeyOf(d)].by = d
    BY <2>1 DEF OwnerHoldsRow
  <2>3. Mapped[KeyOf(d)] # NoRow /\ Mapped[KeyOf(d)].holder = d
    BY <1>0, <2>1, <2>2, MappedFree
  <2>4. \E k \in Keys : Ledger!Holds(d, k)
    BY <2>1, <2>3 DEF Ledger!Holds, Mapped
  <2> QED BY <2>1, <2>4 DEF Ledger!Execute
<1>2. ASSUME NEW d \in Deliveries, RecordReceivedFresh(d)
      PROVE  Ledger!Accept(d, KeyOf(d)) /\ KeyOf(d) \in Keys
  <2>1. /\ fresh[d] = "unknown" /\ KeyOf(d) \in Keys /\ ~ HasRow(KeyOf(d))
        /\ requests' = [requests EXCEPT ![KeyOf(d)] = NewRow(d)]
        /\ executed' = executed
    BY <1>2, KeyOfTask
       DEF RecordReceivedFresh, InsertReceived, GoTo, TaskInv, Stage, histVars
  <2>2. d \notin executed
    BY <2>1 DEF TaskInv, Stage
  <2>3. ASSUME NEW j \in Keys PROVE ~ Ledger!Holds(d, j)
    <3>1. HasRow(j) => requests[j].by # d
      BY <2>1 DEF RowOwner
    <3> QED BY <1>0, <3>1, MappedFree DEF Ledger!Holds, Mapped
  <2>4. LedgerOf(NewRow(d)) = [holder |-> d, closed |-> FALSE]
    BY <1>0, <2>1, NewValues, LedgerEntry DEF NewRow
  <2>5. Mapped' = [Mapped EXCEPT ![KeyOf(d)] = [holder |-> d, closed |-> FALSE]]
    BY <2>1, <2>4 DEF Mapped, StoreTypeOK
  <2>6. Mapped[KeyOf(d)] = NoRow
    BY <1>0, <2>1, MappedFree
  <2> QED BY <2>1, <2>2, <2>3, <2>5, <2>6 DEF Ledger!Accept, Mapped
<1>3. ASSUME NEW d \in Deliveries, RecordCompletion(d)
      PROVE  Ledger!LedgerNext \/ UNCHANGED <<Mapped, executed>>
  <2>1. KeyOf(d) \in Keys /\ executed' = executed
    BY <1>3, KeyOfTask DEF RecordCompletion, GoTo, TaskInv, Stage, histVars
  <2>2. PICK final \in FinalStates, code \in ErrorCodes \cup {"null"} :
           UpdateCompletion(KeyOf(d), final, code)
    BY <1>3 DEF RecordCompletion, TaskInv, TaskTypeOK, Stage, Responses,
                FinalStates, GoTo, PostHandler
  <2>3. /\ \A j \in Keys \ {KeyOf(d)} : requests'[j] = requests[j]
        /\ HasRow(KeyOf(d)) => requests'[KeyOf(d)] = Completed(requests[KeyOf(d)], final, code)
    BY <1>0, <2>1, <2>2, UpdateCompletionRows
  <2>4. CASE ~ HasRow(KeyOf(d))
    <3>1. requests' = requests
      BY <2>2, <2>4 DEF UpdateCompletion
    <3> QED BY <2>1, <3>1 DEF Mapped
  <2>5. CASE HasRow(KeyOf(d))
    <3>1. requests[KeyOf(d)] \in Row
      BY <1>0, <2>1, <2>5, RowIsRow
    <3>2. LedgerOf(requests'[KeyOf(d)]) = [holder |-> requests[KeyOf(d)].by, closed |-> TRUE]
      <4>1. /\ requests'[KeyOf(d)] \in Row
            /\ requests'[KeyOf(d)].by = requests[KeyOf(d)].by
            /\ requests'[KeyOf(d)].final_state = final
        BY <1>0, <2>3, <2>5, <3>1, CompletedRow
      <4> QED BY <4>1, LedgerEntry DEF FinalStates
    <3>3. Mapped[KeyOf(d)] = [holder |-> requests[KeyOf(d)].by,
                              closed |-> requests[KeyOf(d)].final_state # "null"]
      BY <2>1, <3>1, LedgerEntry DEF Mapped
    <3>4. Mapped' = [Mapped EXCEPT ![KeyOf(d)] = [holder |-> requests[KeyOf(d)].by, closed |-> TRUE]]
      BY <2>1, <2>3, <3>2 DEF Mapped
    <3>5. CASE requests[KeyOf(d)].final_state # "null"
      <4>1. Mapped[KeyOf(d)] = [holder |-> requests[KeyOf(d)].by, closed |-> TRUE]
        BY <3>3, <3>5
      <4>2. Mapped' = Mapped
        BY <2>1, <3>4, <4>1 DEF Mapped
      <4> QED BY <2>1, <4>2
    <3>6. CASE requests[KeyOf(d)].final_state = "null"
      <4>1. Mapped[KeyOf(d)] = [holder |-> requests[KeyOf(d)].by, closed |-> FALSE]
        BY <3>3, <3>6
      <4>2. Mapped[KeyOf(d)] # NoRow
        BY <1>0, <2>1, <2>5, MappedFree
      <4>3. Mapped' = [Mapped EXCEPT ![KeyOf(d)] =
                         [holder |-> Mapped[KeyOf(d)].holder, closed |-> TRUE]]
        BY <3>4, <4>1
      <4>4. ~ Mapped[KeyOf(d)].closed
        BY <4>1
      <4>5. Ledger!Close(KeyOf(d))
        BY <2>1, <4>2, <4>3, <4>4 DEF Ledger!Close, Mapped
      <4> QED BY <2>1, <4>5 DEF Ledger!LedgerNext
    <3> QED BY <3>5, <3>6
  <2> QED BY <2>4, <2>5
<1>4. CASE Purge
  <2>1. PICK days \in Nat : PurgeBefore(now - days)
    BY <1>4, PurgeCutoff
  <2>2. now - days \in Int /\ executed' = executed
    BY <1>0, <1>4, PurgeCutoff
  <2> DEFINE S == {k \in Keys : Expired(k, now - days)}
  <2>3. ASSUME NEW k \in Keys, k \in S PROVE Mapped[k] # NoRow /\ Mapped[k].closed
    <3>1. HasRow(k) /\ requests[k].completed_at # Null
      BY <2>3 DEF Expired
    <3>2. requests[k].final_state # "null"
      BY <3>1 DEF RowTimes
    <3> QED BY <1>0, <3>1, <3>2, MappedFree
  <2>4. Mapped' = [k \in Keys |-> IF k \in S THEN NoRow ELSE Mapped[k]]
    <3>1. requests' = [k \in Keys |-> IF Expired(k, now - days) THEN NoRow ELSE requests[k]]
      BY <2>1 DEF PurgeBefore
    <3>2. ASSUME NEW k \in Keys
          PROVE LedgerOf(requests'[k]) = IF k \in S THEN NoRow ELSE Mapped[k]
      BY <3>1 DEF LedgerOf, Mapped
    <3> QED BY <3>2 DEF Mapped
  <2>5. S \in SUBSET Keys
    OBVIOUS
  <2> HIDE DEF S
  <2>6. Ledger!Forget(S)
    BY <2>2, <2>3, <2>4, <2>5 DEF Ledger!Forget, Mapped
  <2> QED BY <2>5, <2>6 DEF Ledger!LedgerNext
<1>5. CASE requests' = requests /\ executed' = executed
  BY <1>5 DEF Mapped
<1> QED BY <1>1, <1>2, <1>3, <1>4, <1>5, RowSteps, ExecutedStep DEF RowStep, Ledger!LedgerNext

(* The pipeline implements the ledger for every instance: one holder per   *)
(* (node_id, id), executed at most once while its entry lasts, forgotten   *)
(* only after it was closed (core.py:52-99, sqlite.py:205-263, 377-394).   *)
THEOREM PipelineImplementsLedger == Spec => ImplementsLedger
<1>1. IInv /\ IInv' /\ [Next]_vars => [Ledger!LedgerNext]_(Ledger!ledgerVars)
  BY LedgerStep DEF IInv, Ledger!ledgerVars, Mapped
<1> QED BY <1>1, LedgerInitial, Invariance, PTL DEF Spec, ImplementsLedger, Ledger!LedgerSpec

=============================================================================
