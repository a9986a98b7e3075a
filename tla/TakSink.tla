------------------------------- MODULE TakSink ------------------------------
(***************************************************************************)
(* tak/takserver.py: the bounded queue of CoT events and the task that     *)
(* writes them to the TAK Server, one session (one TCP connection) after   *)
(* another.                                                                *)
(*                                                                         *)
(* A CoT event is a uid and the version of the position it shows; version  *)
(* 0 is the `drop track' event.  send() never suspends, so a caller that   *)
(* sends several events enqueues them in one step of the event loop.       *)
(***************************************************************************)
EXTENDS Integers, Sequences

CONSTANTS
    Entities,     \* uids: the nodes and the base
    NoEvent,      \* no event in hand
    Cap           \* _QUEUE_CAP

CotEvent == [key : Entities, ver : Nat]

ASSUME SinkAssumption ==
    /\ Cap \in Nat \ {0}
    /\ NoEvent \notin CotEvent

VARIABLES
    queue,        \* TakSink._queue
    sess,         \* where _run is: between sessions, in get(), in drain()
    hand,         \* the event written and not yet drained
    was_connected,\* TakSink._was_connected
    conn,         \* the TCP connection of the session: alive or dead
    written,      \* history: newest position of each entity written so far
    shown         \* TAK Server: the position it shows, 0 for no marker

sinkVars == <<queue, sess, hand, was_connected, conn, written, shown>>

SinkTypeOK ==
    /\ queue \in Seq(CotEvent) /\ Len(queue) <= Cap
    /\ sess \in {"backoff", "get", "drain"}
    /\ hand \in CotEvent \cup {NoEvent}
    /\ (sess = "drain") <=> (hand # NoEvent)
    /\ was_connected \in BOOLEAN
    /\ conn \in {"alive", "dead"}
    /\ written \in [Entities -> Nat]
    /\ shown \in [Entities -> Nat]

SinkInit ==
    /\ queue = <<>>
    /\ sess = "backoff"
    /\ hand = NoEvent
    /\ was_connected = FALSE
    /\ conn = "dead"
    /\ written = [k \in Entities |-> 0]
    /\ shown = [k \in Entities |-> 0]

-----------------------------------------------------------------------------

PositionCot(k, v) == [key |-> k, ver |-> v]
DropCot(k) == [key |-> k, ver |-> 0]

(* Mutant of Enqueued: a queue without maxsize.                            *)
Unbounded(q, s) == q \o s

(* send() of every event of s in turn: the oldest go when the queue is full*)
Enqueued(q, s) ==
    LET all == q \o s
    IN  SubSeq(all, IF Len(all) > Cap THEN Len(all) - Cap + 1 ELSE 1, Len(all))

(* Mutant of Connect: the backlog is kept.                                 *)
ConnectKeepingBacklog(s) ==
    /\ sess = "backoff"
    /\ sess' = "get"
    /\ conn' = "alive"
    /\ queue' = IF was_connected THEN Enqueued(queue, s) ELSE queue
    /\ was_connected' = TRUE
    /\ UNCHANGED <<hand, written, shown>>

(* A backoff delay is over and open_connection succeeds.  From the second  *)
(* session on the backlog is dropped and on_reconnect sends s instead.     *)
Connect(s) ==
    /\ sess = "backoff"
    /\ sess' = "get"
    /\ conn' = "alive"
    /\ queue' = IF was_connected THEN Enqueued(<<>>, s) ELSE queue
    /\ was_connected' = TRUE
    /\ UNCHANGED <<hand, written, shown>>

(* get() and write().  What is written to a connection that is alive       *)
(* reaches the server; a dead one swallows it without a word.              *)
Write ==
    /\ sess = "get"
    /\ queue # <<>>
    /\ sess' = "drain"
    /\ hand' = Head(queue)
    /\ queue' = Tail(queue)
    /\ LET e == Head(queue)
       IN  /\ written' = [written EXCEPT ![e.key] = IF e.ver = 0 THEN @ ELSE e.ver]
           /\ shown' = IF conn = "alive" THEN [shown EXCEPT ![e.key] = e.ver] ELSE shown
    /\ UNCHANGED <<was_connected, conn>>

(* drain() returns at once while the socket buffer has room, also when the *)
(* peer is gone and nobody has noticed yet.                                *)
DrainReturns ==
    /\ sess = "drain"
    /\ sess' = "get"
    /\ hand' = NoEvent
    /\ UNCHANGED <<queue, was_connected, conn, written, shown>>

(* ConnectionError from drain(): put_nowait appends the event, if there is *)
(* room, and the session ends.                                             *)
DrainFails ==
    /\ sess = "drain"
    /\ conn = "dead"
    /\ sess' = "backoff"
    /\ queue' = IF Len(queue) < Cap THEN Append(queue, hand) ELSE queue
    /\ hand' = NoEvent
    /\ UNCHANGED <<was_connected, conn, written, shown>>

(* Any other exception (a timed out or unreachable peer) ends the session  *)
(* without the put.                                                        *)
DrainRaises ==
    /\ sess = "drain"
    /\ conn = "dead"
    /\ sess' = "backoff"
    /\ hand' = NoEvent
    /\ UNCHANGED <<queue, was_connected, conn, written, shown>>

=============================================================================
