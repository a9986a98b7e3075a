---------------------------- MODULE RequestStore ----------------------------
(***************************************************************************)
(* The request tables of the SQLite store (persistence/schema.sql and the  *)
(* _sync_* methods of persistence/sqlite.py): requests, request_events and *)
(* nodes.  Every operator below is the body of one `with self._conn:'      *)
(* block, taken as one atomic transaction; the pipeline decides when a     *)
(* task runs it.  What one thread's rollback can do to another thread's    *)
(* open transaction on the shared connection is not modelled here.         *)
(*                                                                         *)
(* `by' is not a column.  It is a history field naming the delivery (the   *)
(* task) whose statement wrote the row, so that properties can say whose   *)
(* row it is.                                                              *)
(***************************************************************************)
EXTENDS Integers

CONSTANTS
    Nodes,        \* node ids: the `from' field of a request
    Ids,          \* request ids, chosen by the nodes independently of each other
    Deliveries,   \* copies of request messages the broker hands to the service
    NoRow         \* the absence of a row

Keys == Nodes \X Ids          \* PRIMARY KEY (node_id, id)

Null == -1                    \* SQL NULL in a timestamp column

ErrorCodes == {"bad_request", "unknown_type", "duplicate", "timeout",
               "internal", "stale", "unavailable"}

FinalStates == {"completed_ok", "completed_error"}

EventStates == {"received", "validated", "rejected", "handler_started",
                "response_published", "timeout"}

Row == [by           : Deliveries,
        received_at  : Nat,
        completed_at : Nat \cup {Null},
        final_state  : FinalStates \cup {"null"},
        error_code   : ErrorCodes \cup {"null"}]

Event == [key : Keys, state : EventStates, ts : Nat, by : Deliveries]

ASSUME NoRowAssumption == NoRow \notin Row

VARIABLES
    requests,     \* requests[k]: the row with primary key k, or NoRow
    events,       \* the rows of request_events
    last_seen,    \* nodes.last_seen, Null when the node has no row
    now           \* time.time(), in ticks much longer than one statement

storeVars == <<requests, events, last_seen, now>>

StoreTypeOK ==
    /\ requests \in [Keys -> Row \cup {NoRow}]
    /\ events \subseteq Event
    /\ last_seen \in [Nodes -> Nat \cup {Null}]
    /\ now \in Nat

StoreInit ==
    /\ requests = [k \in Keys |-> NoRow]
    /\ events = {}
    /\ last_seen = [n \in Nodes |-> Null]
    /\ now = 0

-----------------------------------------------------------------------------

HasRow(k) == requests[k] # NoRow

NewRow(d) == [by |-> d, received_at |-> now, completed_at |-> Null,
              final_state |-> "null", error_code |-> "null"]

NewEvent(d, k, state) == [key |-> k, state |-> state, ts |-> now, by |-> d]

(* Mutant of InsertReceived: INSERT OR REPLACE.                            *)
ReplaceReceived(d, k) ==
    /\ requests' = [requests EXCEPT ![k] = NewRow(d)]
    /\ events' = events \cup {NewEvent(d, k, "received")}
    /\ UNCHANGED <<last_seen, now>>

(* _sync_record_received when INSERT OR IGNORE inserts.                    *)
InsertReceived(d, k) ==
    /\ ~ HasRow(k)
    /\ requests' = [requests EXCEPT ![k] = NewRow(d)]
    /\ events' = events \cup {NewEvent(d, k, "received")}
    /\ UNCHANGED <<last_seen, now>>

(* _sync_record_received when it ignores: rowcount # 1, nothing written.   *)
IgnoreReceived(k) ==
    /\ HasRow(k)
    /\ UNCHANGED storeVars

InsertEvent(d, k, state) ==
    /\ events' = events \cup {NewEvent(d, k, state)}
    /\ UNCHANGED <<requests, last_seen, now>>

Completed(row, final, code) ==
    [by |-> row.by, received_at |-> row.received_at, completed_at |-> now,
     final_state |-> final, error_code |-> code]

(* UPDATE ... WHERE id = ? AND node_id = ?: whatever row is there now, and *)
(* no row at all is not an error.                                          *)
UpdateCompletion(k, final, code) ==
    /\ requests' = IF HasRow(k)
                   THEN [requests EXCEPT ![k] = Completed(@, final, code)]
                   ELSE requests
    /\ UNCHANGED <<events, last_seen, now>>

(* Mutant of Later: last_seen = excluded.last_seen, without the MAX.       *)
LatestWins(a, b) == b

Later(a, b) == IF a > b THEN a ELSE b

(* INSERT ... ON CONFLICT DO UPDATE SET last_seen = MAX(...).              *)
MarkNodeSeen(n, ts) ==
    /\ last_seen' = [last_seen EXCEPT ![n] = Later(@, ts)]
    /\ UNCHANGED <<requests, events, now>>

(* Mutant of Expired: completed_at <= cutoff.                              *)
ExpiredAtCutoff(k, cutoff) ==
    /\ HasRow(k)
    /\ requests[k].completed_at # Null
    /\ requests[k].completed_at <= cutoff

Expired(k, cutoff) ==
    /\ HasRow(k)
    /\ requests[k].completed_at # Null
    /\ requests[k].completed_at < cutoff

(* Mutant of PurgeBefore: events deleted by age alone.                     *)
PurgeEventsByAge(cutoff) ==
    /\ requests' = [k \in Keys |-> IF Expired(k, cutoff) THEN NoRow ELSE requests[k]]
    /\ events' = {e \in events : ~ (e.ts < cutoff)}
    /\ UNCHANGED <<last_seen, now>>

(* _sync_purge_before: one transaction.  The second DELETE sees the table  *)
(* the first one left, and compares request_id with the id column alone.   *)
PurgeBefore(cutoff) ==
    LET keptIds == {k[2] : k \in {j \in Keys : HasRow(j) /\ ~ Expired(j, cutoff)}}
    IN  /\ requests' = [k \in Keys |-> IF Expired(k, cutoff) THEN NoRow ELSE requests[k]]
        /\ events' = {e \in events : ~ (e.ts < cutoff /\ e.key[2] \notin keptIds)}
        /\ UNCHANGED <<last_seen, now>>

=============================================================================
