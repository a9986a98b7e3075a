------------------------ MODULE RequestStore_proofs -------------------------
(***************************************************************************)
(* What each transaction of RequestStore preserves and returns, for every  *)
(* set of nodes, ids and deliveries.  The pipeline proofs cite these       *)
(* lemmas instead of opening the transactions again.                       *)
(***************************************************************************)
EXTENDS RequestStore, TLAPS

(* What a stored row means in time (sqlite.py:206, sqlite.py:253): it was  *)
(* received in the past, and is completed, at or after that, exactly when  *)
(* it has a final state.                                                   *)
RowTimes(k) ==
    HasRow(k) =>
        /\ requests[k].received_at <= now
        /\ requests[k].completed_at # Null =>
              /\ requests[k].received_at <= requests[k].completed_at
              /\ requests[k].completed_at <= now
        /\ requests[k].completed_at = Null <=> requests[k].final_state = "null"

StoreInv == StoreTypeOK /\ \A k \in Keys : RowTimes(k)

(* A row that is present is a row.                                         *)
LEMMA RowIsRow ==
  ASSUME StoreTypeOK, NEW k \in Keys, HasRow(k)
  PROVE  /\ requests[k] \in Row
         /\ requests[k].by \in Deliveries
BY DEF StoreTypeOK, HasRow, Row

(* The values the INSERT statements write are well formed.                 *)
LEMMA NewValues ==
  ASSUME now \in Nat, NEW d \in Deliveries, NEW k \in Keys
  PROVE  /\ NewRow(d) \in Row
         /\ NewRow(d) # NoRow
         /\ \A s \in EventStates : NewEvent(d, k, s) \in Event
<1>1. NewRow(d) \in Row
  BY DEF NewRow, Row, Null, FinalStates, ErrorCodes
<1>2. \A s \in EventStates : NewEvent(d, k, s) \in Event
  BY DEF NewEvent, Event
<1> QED BY <1>1, <1>2, NoRowAssumption

(* The UPDATE of _sync_record_completion rewrites three columns.           *)
LEMMA CompletedRow ==
  ASSUME now \in Nat, NEW row \in Row,
         NEW final \in FinalStates, NEW code \in ErrorCodes \cup {"null"}
  PROVE  /\ Completed(row, final, code) \in Row
         /\ Completed(row, final, code) # NoRow
         /\ Completed(row, final, code).by = row.by
         /\ Completed(row, final, code).received_at = row.received_at
         /\ Completed(row, final, code).completed_at = now
         /\ Completed(row, final, code).final_state = final
<1>1. /\ Completed(row, final, code) \in Row
      /\ Completed(row, final, code).by = row.by
      /\ Completed(row, final, code).received_at = row.received_at
      /\ Completed(row, final, code).completed_at = now
      /\ Completed(row, final, code).final_state = final
  BY DEF Completed, Row
<1> QED BY <1>1, NoRowAssumption

(* sqlite.py:205-228.                                                      *)
LEMMA InsertReceivedStore ==
  ASSUME StoreInv, NEW d \in Deliveries, NEW k \in Keys, InsertReceived(d, k)
  PROVE  StoreInv'
<1> USE DEF StoreInv
<1>1. now \in Nat /\ now' = now
  BY DEF StoreTypeOK, InsertReceived
<1>2. /\ requests' = [requests EXCEPT ![k] = NewRow(d)]
      /\ events' = events \cup {NewEvent(d, k, "received")}
      /\ last_seen' = last_seen
  BY DEF InsertReceived
<1>3. StoreTypeOK'
  BY <1>1, <1>2, NewValues DEF StoreTypeOK, EventStates
<1>4. ASSUME NEW j \in Keys PROVE RowTimes(j)'
  <2>1. CASE j = k
    <3>1. requests'[j] = NewRow(d)
      BY <1>2, <2>1 DEF StoreTypeOK
    <3> QED BY <1>1, <3>1 DEF RowTimes, HasRow, NewRow, Null
  <2>2. CASE j # k
    <3>1. requests'[j] = requests[j]
      BY <1>2, <2>2 DEF StoreTypeOK
    <3> QED BY <1>1, <3>1 DEF RowTimes, HasRow
  <2> QED BY <2>1, <2>2
<1> QED BY <1>3, <1>4

(* sqlite.py:237-243.                                                      *)
LEMMA InsertEventStore ==
  ASSUME StoreInv, NEW d \in Deliveries, NEW k \in Keys,
         NEW state \in EventStates, InsertEvent(d, k, state)
  PROVE  StoreInv'
<1> USE DEF StoreInv
<1>1. /\ requests' = requests /\ now' = now /\ last_seen' = last_seen
      /\ events' = events \cup {NewEvent(d, k, state)}
  BY DEF InsertEvent
<1>2. StoreTypeOK'
  BY <1>1, NewValues DEF StoreTypeOK
<1> QED BY <1>1, <1>2 DEF RowTimes, HasRow

(* What the completion UPDATE leaves in the table.                         *)
LEMMA UpdateCompletionRows ==
  ASSUME StoreTypeOK, NEW k \in Keys, NEW final \in FinalStates,
         NEW code \in ErrorCodes \cup {"null"}, UpdateCompletion(k, final, code)
  PROVE  /\ events' = events /\ last_seen' = last_seen /\ now' = now
         /\ requests' \in [Keys -> Row \cup {NoRow}]
         /\ \A j \in Keys : HasRow(j)' <=> HasRow(j)
         /\ \A j \in Keys \ {k} : requests'[j] = requests[j]
         /\ HasRow(k) => requests'[k] = Completed(requests[k], final, code)
<1>1. now \in Nat
  BY DEF StoreTypeOK
<1>2. CASE HasRow(k)
  <2>1. requests' = [requests EXCEPT ![k] = Completed(requests[k], final, code)]
    BY <1>2 DEF UpdateCompletion
  <2>2. /\ Completed(requests[k], final, code) \in Row
        /\ Completed(requests[k], final, code) # NoRow
    BY <1>1, <1>2, RowIsRow, CompletedRow
  <2> QED BY <2>1, <2>2, <1>2 DEF UpdateCompletion, StoreTypeOK, HasRow
<1>3. CASE ~ HasRow(k)
  BY <1>3 DEF UpdateCompletion, StoreTypeOK, HasRow
<1> QED BY <1>2, <1>3

(* sqlite.py:245-263.                                                      *)
LEMMA UpdateCompletionStore ==
  ASSUME StoreInv, NEW k \in Keys, NEW final \in FinalStates,
         NEW code \in ErrorCodes \cup {"null"}, UpdateCompletion(k, final, code)
  PROVE  StoreInv'
<1> USE DEF StoreInv
<1>1. /\ events' = events /\ last_seen' = last_seen /\ now' = now
      /\ requests' \in [Keys -> Row \cup {NoRow}]
      /\ \A j \in Keys : HasRow(j)' <=> HasRow(j)
      /\ \A j \in Keys \ {k} : requests'[j] = requests[j]
      /\ HasRow(k) => requests'[k] = Completed(requests[k], final, code)
  BY UpdateCompletionRows
<1>2. StoreTypeOK'
  BY <1>1 DEF StoreTypeOK
<1>3. ASSUME NEW j \in Keys PROVE RowTimes(j)'
  <2>1. CASE j # k
    BY <1>1, <2>1 DEF RowTimes, HasRow
  <2>2. CASE j = k /\ HasRow(k)
    <3>1. requests[k] \in Row /\ now \in Nat
      BY <2>2, RowIsRow DEF StoreTypeOK
    <3>2. /\ requests'[k].received_at = requests[k].received_at
          /\ requests'[k].completed_at = now
          /\ requests'[k].final_state = final
      BY <1>1, <2>2, <3>1, CompletedRow
    <3> QED BY <1>1, <2>2, <3>1, <3>2 DEF RowTimes, Null, FinalStates, Row
  <2>3. CASE j = k /\ ~ HasRow(k)
    BY <1>1, <2>3 DEF RowTimes
  <2> QED BY <2>1, <2>2, <2>3
<1> QED BY <1>2, <1>3

(* sqlite.py:265-272.                                                      *)
LEMMA MarkNodeSeenStore ==
  ASSUME StoreInv, NEW n \in Nodes, NEW ts \in Nat, MarkNodeSeen(n, ts)
  PROVE  /\ StoreInv'
         /\ \A m \in Nodes : last_seen[m] <= last_seen'[m]
<1> USE DEF StoreInv
<1>1. /\ requests' = requests /\ events' = events /\ now' = now
      /\ last_seen' = [last_seen EXCEPT ![n] = Later(last_seen[n], ts)]
  BY DEF MarkNodeSeen
<1>2. StoreTypeOK' /\ \A m \in Nodes : last_seen[m] <= last_seen'[m]
  BY <1>1 DEF StoreTypeOK, Later, Null
<1> QED BY <1>1, <1>2 DEF RowTimes, HasRow

(* A purge removes expired rows and keeps every event of a row that stays. *)
LEMMA PurgeRows ==
  ASSUME StoreTypeOK, NEW cutoff \in Int, PurgeBefore(cutoff)
  PROVE  /\ now' = now /\ last_seen' = last_seen /\ events' \subseteq events
         /\ requests' \in [Keys -> Row \cup {NoRow}]
         /\ \A k \in Keys : HasRow(k)' <=> (HasRow(k) /\ ~ Expired(k, cutoff))
         /\ \A k \in Keys : HasRow(k)' => requests'[k] = requests[k]
         /\ \A e \in events : HasRow(e.key)' => e \in events'
<1>1. /\ now' = now /\ last_seen' = last_seen /\ events' \subseteq events
      /\ requests' = [k \in Keys |-> IF Expired(k, cutoff) THEN NoRow ELSE requests[k]]
  BY DEF PurgeBefore
<1>2. \A k \in Keys : HasRow(k)' <=> (HasRow(k) /\ ~ Expired(k, cutoff))
  BY <1>1 DEF HasRow
<1>3. \A k \in Keys : HasRow(k)' => requests'[k] = requests[k]
  BY <1>1, <1>2 DEF HasRow
<1>4. requests' \in [Keys -> Row \cup {NoRow}]
  BY <1>1 DEF StoreTypeOK
<1>5. ASSUME NEW e \in events, HasRow(e.key)' PROVE e \in events'
  <2>1. e.key \in Keys
    BY DEF StoreTypeOK, Event
  <2>2. HasRow(e.key) /\ ~ Expired(e.key, cutoff)
    BY <1>2, <1>5, <2>1
  <2>3. e.key[2] \in {k[2] : k \in {j \in Keys : HasRow(j) /\ ~ Expired(j, cutoff)}}
    BY <2>1, <2>2
  <2> QED BY <2>3 DEF PurgeBefore
<1> QED BY <1>1, <1>2, <1>3, <1>4, <1>5

(* sqlite.py:377-394.                                                      *)
LEMMA PurgeStore ==
  ASSUME StoreInv, NEW cutoff \in Int, PurgeBefore(cutoff)
  PROVE  StoreInv'
<1> USE DEF StoreInv
<1>1. /\ now' = now /\ last_seen' = last_seen /\ events' \subseteq events
      /\ requests' \in [Keys -> Row \cup {NoRow}]
      /\ \A k \in Keys : HasRow(k)' => HasRow(k) /\ requests'[k] = requests[k]
  BY PurgeRows
<1>2. StoreTypeOK'
  BY <1>1 DEF StoreTypeOK
<1>3. \A k \in Keys : RowTimes(k)'
  BY <1>1 DEF RowTimes
<1> QED BY <1>2, <1>3

=============================================================================
