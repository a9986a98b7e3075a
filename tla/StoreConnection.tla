--------------------------- MODULE StoreConnection ---------------------------
(***************************************************************************)
(* One sqlite3 connection shared by the worker threads of asyncio.to_thread*)
(* (persistence/sqlite.py: check_same_thread=False, no lock).  Every write *)
(* of the store is a `with self._conn:' block around one to three          *)
(* statements.  sqlite3 holds its own mutex for one statement, so threads  *)
(* interleave between statements, and the Python module decides from the   *)
(* connection's autocommit flag, which all threads share, whether to issue *)
(* BEGIN, COMMIT and ROLLBACK; it releases the interpreter lock between    *)
(* reading the flag and acting on it.  The row count of a statement is read*)
(* from the connection as well, once the statement is over.                *)
(*                                                                         *)
(* RequestStore and NodeState take a block as one atomic step; this module *)
(* shows when that is so.  A row is abstracted to the statement that wrote *)
(* it: <<c, i>> is what statement i of call c writes.                      *)
(***************************************************************************)
EXTENDS Integers, FiniteSets

CONSTANTS
    Calls,      \* store calls that write, each on a worker thread of its own
    Kind,       \* Kind[c]: which method c is
    Readers,    \* Store.counts calls
    MaxBusy,    \* bound: statements refused with "database is locked"
    MaxEnds     \* bound: kills of the process and closes of the store

(* "single" is any of the writers with one statement: record_event,        *)
(* mark_node_seen, record_gateway_snapshot and the upserts.                *)
Kinds == {"received", "completion", "purge", "single"}

ASSUME ConnectionAssumption ==
    /\ Kind \in [Calls -> Kinds]
    /\ Calls \cap Readers = {}
    /\ MaxBusy \in Nat
    /\ MaxEnds \in Nat

(* How many statements the block of c executes.                            *)
Statements(c) ==
    CASE Kind[c] = "received" -> 2    \* the row, its received event
      [] Kind[c] = "purge"    -> 3    \* requests, request_events, snapshots
      [] OTHER                -> 1

Completions == {c \in Calls : Kind[c] = "completion"}

VARIABLES
    pc,         \* where each thread is
    done,       \* done[c]: statements of c that have been executed
    wrote,      \* history: every write made, kept or not
    txn,        \* a transaction is open: the autocommit flag is off
    changes,    \* sqlite3_changes(): rows the last statement changed
    pend,       \* writes of the open transaction
    disk,       \* committed writes
    finals,     \* finals[r]: completions the first SELECT of counts saw
    pendings,   \* pendings[r]: requests the second SELECT saw without one
    shared,     \* history: calls that ran at the same time as another
    busy, ends  \* how much of the bounds is used up

callVars == <<done, wrote>>
connVars == <<txn, changes, pend, disk>>
readVars == <<finals, pendings>>
boundVars == <<busy, ends>>
vars == <<pc, callVars, connVars, readVars, shared, boundVars>>

InBlock == {"flag", "begin", "stmt", "rowcount", "exit", "commit", "unwind",
            "rollback"}
Over == {"ok", "failed", "lost"}

Active(c) == pc[c] \in InBlock

Writes(c) == {w \in wrote : w[1] = c}
AllWrites(c) == {<<c, i>> : i \in 1..Statements(c)}
Everything == UNION {AllWrites(c) : c \in Calls}

(* The connection reads its own uncommitted rows, whichever thread wrote   *)
(* them.                                                                   *)
Visible == disk \cup pend

TypeOK ==
    /\ pc \in [Calls \cup Readers -> {"idle", "second"} \cup InBlock \cup Over]
    /\ done \in [Calls -> 0..3]
    /\ wrote \subseteq Everything
    /\ txn \in BOOLEAN
    /\ changes \in 0..2
    /\ pend \subseteq Everything
    /\ disk \subseteq Everything
    /\ finals \in [Readers -> SUBSET Completions]
    /\ pendings \in [Readers -> SUBSET Completions]
    /\ shared \subseteq Calls
    /\ busy \in Nat
    /\ ends \in Nat

Init ==
    /\ pc = [t \in Calls \cup Readers |-> "idle"]
    /\ done = [c \in Calls |-> 0]
    /\ wrote = {}
    /\ txn = FALSE
    /\ changes = 0
    /\ pend = {}
    /\ disk = {}
    /\ finals = [r \in Readers |-> {}]
    /\ pendings = [r \in Readers |-> {}]
    /\ shared = {}
    /\ busy = 0
    /\ ends = 0

GoTo(t, from, to) ==
    /\ pc[t] = from
    /\ pc' = [pc EXCEPT ![t] = to]

-----------------------------------------------------------------------------
(* A write call.                                                           *)

(* A worker thread takes the call and enters its block.                    *)
StartCall(c) ==
    /\ GoTo(c, "idle", "flag")
    /\ LET others == {b \in Calls : Active(b)}
       IN  shared' = IF others = {} THEN shared ELSE shared \cup others \cup {c}
    /\ UNCHANGED <<callVars, connVars, readVars, boundVars>>

(* Mutant of ReadFlag: isolation_level=None, no implicit BEGIN.            *)
NoImplicitBegin(c) ==
    /\ GoTo(c, "flag", "stmt")
    /\ UNCHANGED <<callVars, connVars, readVars, shared, boundVars>>

(* execute() of a DML statement first looks whether a transaction is open. *)
ReadFlag(c) ==
    /\ GoTo(c, "flag", IF txn THEN "stmt" ELSE "begin")
    /\ UNCHANGED <<callVars, connVars, readVars, shared, boundVars>>

(* BEGIN is an error inside a transaction another thread has just begun.   *)
Begin(c) ==
    /\ GoTo(c, "begin", IF txn THEN "unwind" ELSE "stmt")
    /\ txn' = TRUE
    /\ UNCHANGED <<callVars, changes, pend, disk, readVars, shared, boundVars>>

(* Rows a statement can change: a DELETE of a purge any number, of which 2 *)
(* stands for more than one.                                               *)
Changed(c) == IF Kind[c] = "purge" THEN 0..2 ELSE {1}

(* Mutant of AfterStatement: one statement too many.                       *)
OneStatementMore(c) ==
    IF Kind[c] = "received" /\ done[c] = 0 THEN "rowcount"
    ELSE IF done[c] + 1 <= Statements(c) THEN "flag" ELSE "exit"

(* Mutant of AfterStatement: the last statement is followed by return, not *)
(* by the end of a `with' block.                                           *)
ReturnWithoutExit(c) ==
    IF Kind[c] = "received" /\ done[c] = 0 THEN "rowcount"
    ELSE IF done[c] + 1 < Statements(c) THEN "flag" ELSE "ok"

AfterStatement(c) ==
    IF Kind[c] = "received" /\ done[c] = 0 THEN "rowcount"
    ELSE IF done[c] + 1 < Statements(c) THEN "flag" ELSE "exit"

(* The statement joins whatever transaction is open now, or commits by     *)
(* itself when another thread has ended it meanwhile.                      *)
Execute(c) ==
    LET w == {<<c, done[c] + 1>>}
    IN  /\ GoTo(c, "stmt", AfterStatement(c))
        /\ done' = [done EXCEPT ![c] = @ + 1]
        /\ wrote' = wrote \cup w
        /\ changes' \in Changed(c)
        /\ IF txn THEN pend' = pend \cup w /\ UNCHANGED disk
                  ELSE disk' = disk \cup w /\ UNCHANGED pend
        /\ UNCHANGED <<txn, readVars, shared, boundVars>>

(* INSERT OR IGNORE finds the row there.                                   *)
InsertIgnored(c) ==
    /\ Kind[c] = "received" /\ done[c] = 0
    /\ GoTo(c, "stmt", "rowcount")
    /\ done' = [done EXCEPT ![c] = 1]
    /\ changes' = 0
    /\ UNCHANGED <<wrote, txn, pend, disk, readVars, shared, boundVars>>

(* Mutant of ReadRowcount: the early return skips the commit.              *)
ReturnUncommitted(c) ==
    /\ GoTo(c, "rowcount", IF changes = 1 THEN "flag" ELSE "ok")
    /\ UNCHANGED <<callVars, connVars, readVars, shared, boundVars>>

(* `if cur.rowcount != 1: return False' leaves the block through its normal*)
(* exit; the count is that of the connection's latest statement.           *)
ReadRowcount(c) ==
    /\ GoTo(c, "rowcount", IF changes = 1 THEN "flag" ELSE "exit")
    /\ UNCHANGED <<callVars, connVars, readVars, shared, boundVars>>

(* Another process holds the write lock longer than the busy timeout.      *)
StatementRefused(c) ==
    /\ busy < MaxBusy
    /\ GoTo(c, "stmt", "unwind")
    /\ busy' = busy + 1
    /\ UNCHANGED <<callVars, connVars, readVars, shared, ends>>

(* Connection.__exit__ without an exception: commit() does nothing when no *)
(* transaction is open.                                                    *)
ExitBlock(c) ==
    /\ GoTo(c, "exit", IF txn THEN "commit" ELSE "ok")
    /\ UNCHANGED <<callVars, connVars, readVars, shared, boundVars>>

(* COMMIT ends the one transaction there is, with the writes of every      *)
(* thread in it; it is an error when another thread was faster.            *)
Commit(c) ==
    /\ GoTo(c, "commit", IF txn THEN "ok" ELSE "unwind")
    /\ disk' = disk \cup pend
    /\ pend' = {}
    /\ txn' = FALSE
    /\ UNCHANGED <<callVars, changes, readVars, shared, boundVars>>

(* Connection.__exit__ with an exception.                                  *)
Unwind(c) ==
    /\ GoTo(c, "unwind", IF txn THEN "rollback" ELSE "failed")
    /\ UNCHANGED <<callVars, connVars, readVars, shared, boundVars>>

(* ROLLBACK takes back the writes of every thread in the transaction.      *)
Rollback(c) ==
    /\ GoTo(c, "rollback", "failed")
    /\ pend' = {}
    /\ txn' = FALSE
    /\ UNCHANGED <<callVars, changes, disk, readVars, shared, boundVars>>

-----------------------------------------------------------------------------
(* Store.counts: two SELECTs in two to_thread calls, no transaction.       *)

CountFinal(r) ==
    /\ GoTo(r, "idle", "second")
    /\ finals' = [finals EXCEPT ![r] = {c \in Completions : <<c, 1>> \in Visible}]
    /\ UNCHANGED <<callVars, connVars, pendings, shared, boundVars>>

(* Mutant of CountPending: pending is what the first SELECT left over, and *)
(* the final states are counted second.                                    *)
CountFinalSecond(r) ==
    /\ GoTo(r, "second", "ok")
    /\ pendings' = [pendings EXCEPT ![r] = Completions \ finals[r]]
    /\ finals' = [finals EXCEPT ![r] = {c \in Completions : <<c, 1>> \in Visible}]
    /\ UNCHANGED <<callVars, connVars, shared, boundVars>>

CountPending(r) ==
    /\ GoTo(r, "second", "ok")
    /\ pendings' = [pendings EXCEPT ![r] = {c \in Completions : <<c, 1>> \notin Visible}]
    /\ UNCHANGED <<callVars, connVars, finals, shared, boundVars>>

-----------------------------------------------------------------------------

(* The process is killed, or Service.run closes the store under the calls  *)
(* its 5 s wait has left over: what is not committed is gone.  A new       *)
(* process may make the calls that have not started.                       *)
ConnectionEnds ==
    /\ ends < MaxEnds
    /\ ends' = ends + 1
    /\ pc' = [t \in Calls \cup Readers |->
                  IF pc[t] \in InBlock \cup {"second"} THEN "lost" ELSE pc[t]]
    /\ txn' = FALSE
    /\ pend' = {}
    /\ UNCHANGED <<callVars, changes, disk, readVars, shared, busy>>

Step(c) ==
    \/ StartCall(c)
    \/ ReadFlag(c)
    \/ Begin(c)
    \/ Execute(c)
    \/ InsertIgnored(c)
    \/ ReadRowcount(c)
    \/ StatementRefused(c)
    \/ ExitBlock(c)
    \/ Commit(c)
    \/ Unwind(c)
    \/ Rollback(c)

Next ==
    \/ \E c \in Calls : Step(c)
    \/ \E r \in Readers : CountFinal(r) \/ CountPending(r)
    \/ ConnectionEnds

Spec == Init /\ [][Next]_vars

-----------------------------------------------------------------------------
(* Safety.                                                                 *)

(* No thread's block has gone wrong so far.                                *)
NoError == \A c \in Calls : pc[c] \notin {"unwind", "rollback", "failed"}

(* As long as no block ends in an exception, sharing the connection loses  *)
(* no write: whatever a call that returned has written is committed, by its*)
(* own COMMIT or by another thread's, and survives a kill (sqlite.py:58,   *)
(* sqlite.py:207, sqlite.py:378).  What the call reports may still be      *)
(* wrong: see FreshMeansInserted.                                          *)
NoErrorNoLoss ==
    NoError => \A c \in Calls : pc[c] = "ok" => Writes(c) \subseteq disk

(* record_received told its caller "fresh": it got past the row count.     *)
ToldFresh(c) == pc[c] = "ok" /\ Kind[c] = "received" /\ done[c] = 2
ToldDuplicate(c) == pc[c] = "ok" /\ Kind[c] = "received" /\ done[c] = 1

(* A call that had the connection to itself is all or nothing, through     *)
(* errors and kills, and told the truth: the row and its received event, or*)
(* the three deletes of a purge, are never half there, and a request is    *)
(* called fresh exactly when its row was inserted (sqlite.py:207-228,      *)
(* sqlite.py:378-393).                                                     *)
AloneIsAtomic ==
    \A c \in Calls \ shared :
        /\ pc[c] \in Over => disk \cap AllWrites(c) \in {{}, AllWrites(c)}
        /\ ToldFresh(c) => AllWrites(c) \subseteq disk
        /\ ToldDuplicate(c) => <<c, 1>> \notin disk

(* No transaction is left open when no call is running: a leftover would   *)
(* keep other processes from writing and be lost with the process          *)
(* (sqlite.py:207-222, the early return included).                         *)
NoLeakedTransaction == txn => \E c \in Calls : Active(c)

(* counts() counts no request both as final and as pending while no block  *)
(* fails, although a request may complete between its two SELECTs; it may  *)
(* miss one (sqlite.py:127-130, gateway_status.py:25).                     *)
NothingCountedTwice ==
    NoError => \A r \in Readers : finals[r] \cap pendings[r] = {}

-----------------------------------------------------------------------------

(* sqlite.py:95 says of record_received "Insert the request if new. Return *)
(* True on fresh, False on duplicate.": the answer agrees with what was    *)
(* stored.                                                                 *)
FreshMeansInserted ==
    \A c \in Calls :
        /\ ToldFresh(c) => <<c, 1>> \in disk
        /\ ToldDuplicate(c) => <<c, 1>> \notin disk

=============================================================================
