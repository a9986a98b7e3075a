------------------------------ MODULE StoreOpen ------------------------------
(***************************************************************************)
(* Opening the database: Store.__init__ and _apply_migrations              *)
(* (persistence/sqlite.py) in several processes on one file: the service,  *)
(* `initdb' and `purge' (cli.py).  executescript commits every statement on*)
(* its own, so another process, or a kill, comes between any two steps.    *)
(* Any statement may be refused: database is locked, disk full.            *)
(*                                                                         *)
(* Of the schema only what the one migration in _MIGRATIONS touches is     *)
(* kept: gateway_snapshots, the columns the migration adds to it, and      *)
(* schema_version.  A database may be as old as any release: see Init.     *)
(***************************************************************************)
EXTENDS Integers, FiniteSets

CONSTANTS
    Openers,    \* processes that open the database
    Alters,     \* ALTER statements of migration 2; three in _MIGRATIONS
    MaxFaults   \* bound: kills of a process and refused statements

ASSUME OpenAssumption ==
    /\ Alters \in Nat \ {0}
    /\ MaxFaults \in Nat

(* The target version of the last entry of _MIGRATIONS.                    *)
Latest == 2

VARIABLES
    tables,     \* tables that exist
    cols,       \* columns of gateway_snapshots that migration 2 has added
    versions,   \* the rows of schema_version
    opc,        \* how far each process is
    current,    \* _apply_migrations' `current'
    next,       \* the ALTER statement a process executes next
    disturbed,  \* history: a migration ended half way or met another one
    faults      \* how much of the bound is used up

dbVars == <<tables, cols, versions>>
vars == <<dbVars, opc, current, next, disturbed, faults>>

Migrating == {"alter", "record"}
Upgrading == {"stamp"} \cup Migrating
Opening == {"snapshots", "schema_version", "select"} \cup Upgrading
Steps == {"closed", "open", "refused", "duplicate"} \cup Opening

AllColumns == 1..Alters

TypeOK ==
    /\ tables \subseteq {"gateway_snapshots", "schema_version"}
    /\ cols \subseteq AllColumns
    /\ versions \subseteq {1, Latest}
    /\ opc \in [Openers -> Steps]
    /\ current \in [Openers -> 0..Latest]
    /\ next \in [Openers -> AllColumns]
    /\ disturbed \in BOOLEAN
    /\ faults \in Nat

(* No database yet; one from before versioning; one of version 1; one that *)
(* this release has opened before.                                         *)
Init ==
    /\ \/ tables = {} /\ versions = {} /\ cols = {}
       \/ tables = {"gateway_snapshots"} /\ versions = {} /\ cols = {}
       \/ /\ tables = {"gateway_snapshots", "schema_version"}
          /\ \/ versions = {1} /\ cols = {}
             \/ versions = {1, Latest} /\ cols = AllColumns
    /\ opc = [p \in Openers |-> "closed"]
    /\ current = [p \in Openers |-> 0]
    /\ next = [p \in Openers |-> 1]
    /\ disturbed = FALSE
    /\ faults = 0

GoTo(p, from, to) ==
    /\ opc[p] = from
    /\ opc' = [opc EXCEPT ![p] = to]

-----------------------------------------------------------------------------

(* The process starts and connects.                                        *)
Connect(p) ==
    /\ GoTo(p, "closed", "snapshots")
    /\ UNCHANGED <<dbVars, current, next, disturbed, faults>>

(* schema.sql: CREATE TABLE IF NOT EXISTS, in the order of the file.       *)
CreateSnapshots(p) ==
    /\ GoTo(p, "snapshots", "schema_version")
    /\ tables' = tables \cup {"gateway_snapshots"}
    /\ UNCHANGED <<cols, versions, current, next, disturbed, faults>>

CreateSchemaVersion(p) ==
    /\ GoTo(p, "schema_version", "select")
    /\ tables' = tables \cup {"schema_version"}
    /\ UNCHANGED <<cols, versions, current, next, disturbed, faults>>

(* The highest version recorded, 0 if there is none.                       *)
StoredVersion ==
    IF versions = {} THEN 0
    ELSE CHOOSE v \in versions : \A w \in versions : w <= v

(* Mutant of AfterSelect: a database without a version row is taken to be  *)
(* new, and new ones to be up to date.                                     *)
UnstampedIsLatest(v) ==
    IF v = 1 THEN "alter" ELSE "open"

(* Where _apply_migrations goes from the version it has read.              *)
AfterSelect(v) ==
    IF v = 0 THEN "stamp" ELSE IF v < Latest THEN "alter" ELSE "open"

(* Some process other than p acts on a version it has read.                *)
Meets(p) == \E q \in Openers \ {p} : opc[q] \in Upgrading

SelectVersion(p) ==
    LET to == AfterSelect(StoredVersion)
    IN  /\ GoTo(p, "select", to)
        /\ current' = [current EXCEPT ![p] = StoredVersion]
        /\ next' = [next EXCEPT ![p] = 1]
        /\ disturbed' = (disturbed \/ (to \in Upgrading /\ Meets(p)))
        /\ UNCHANGED <<dbVars, faults>>

StampVersion1(p) ==
    /\ GoTo(p, "stamp", "alter")
    /\ versions' = versions \cup {1}
    /\ current' = [current EXCEPT ![p] = 1]
    /\ UNCHANGED <<tables, cols, next, disturbed, faults>>

(* Mutant of AddColumn: a column that is there is passed over.             *)
AddColumnIfMissing(p) ==
    /\ opc[p] = "alter"
    /\ cols' = cols \cup {next[p]}
    /\ opc' = [opc EXCEPT ![p] = IF next[p] = Alters THEN "record" ELSE "alter"]
    /\ next' = [next EXCEPT ![p] = IF @ = Alters THEN @ ELSE @ + 1]
    /\ UNCHANGED <<tables, versions, current, disturbed, faults>>

(* Mutant of AddColumn: the version row is written before the last column. *)
RecordTooEarly(p) ==
    /\ opc[p] = "alter"
    /\ next[p] \notin cols
    /\ cols' = cols \cup {next[p]}
    /\ versions' = versions \cup {Latest}
    /\ opc' = [opc EXCEPT ![p] = IF next[p] = Alters THEN "record" ELSE "alter"]
    /\ next' = [next EXCEPT ![p] = IF @ = Alters THEN @ ELSE @ + 1]
    /\ UNCHANGED <<tables, current, disturbed, faults>>

(* Mutant of AddColumn: one statement more than the script has.            *)
OneColumnMore(p) ==
    /\ opc[p] = "alter"
    /\ next[p] \notin cols
    /\ cols' = cols \cup {next[p]}
    /\ opc' = [opc EXCEPT ![p] = IF next[p] > Alters THEN "record" ELSE "alter"]
    /\ next' = [next EXCEPT ![p] = @ + 1]
    /\ UNCHANGED <<tables, versions, current, disturbed, faults>>

(* One ALTER TABLE ... ADD COLUMN of the script, committed by itself.      *)
AddColumn(p) ==
    /\ opc[p] = "alter"
    /\ next[p] \notin cols
    /\ cols' = cols \cup {next[p]}
    /\ opc' = [opc EXCEPT ![p] = IF next[p] = Alters THEN "record" ELSE "alter"]
    /\ next' = [next EXCEPT ![p] = IF @ = Alters THEN @ ELSE @ + 1]
    /\ UNCHANGED <<tables, versions, current, disturbed, faults>>

(* "duplicate column name": the exception leaves Store.__init__, and the   *)
(* process exits (cli.py: _open_store; Service.__init__ has no handler).   *)
DuplicateColumn(p) ==
    /\ opc[p] = "alter"
    /\ next[p] \in cols
    /\ opc' = [opc EXCEPT ![p] = "duplicate"]
    /\ UNCHANGED <<dbVars, current, next, disturbed, faults>>

(* p has added a column and has not recorded the version yet.              *)
HalfWay(p) == opc[p] = "record" \/ (opc[p] = "alter" /\ next[p] > 1)

(* Another error of a statement or of a PRAGMA: it changes nothing, a      *)
(* `with' block rolls back, and the process exits the same way.  Columns   *)
(* that are committed stay.                                                *)
Refused(p) ==
    /\ opc[p] \in Opening
    /\ faults < MaxFaults
    /\ faults' = faults + 1
    /\ opc' = [opc EXCEPT ![p] = "refused"]
    /\ disturbed' = (disturbed \/ HalfWay(p))
    /\ UNCHANGED <<dbVars, current, next>>

(* Mutant of RecordVersion: the new version is only remembered in memory.  *)
RecordNothing(p) ==
    /\ GoTo(p, "record", "open")
    /\ current' = [current EXCEPT ![p] = Latest]
    /\ UNCHANGED <<dbVars, next, disturbed, faults>>

RecordVersion(p) ==
    /\ GoTo(p, "record", "open")
    /\ versions' = versions \cup {Latest}
    /\ current' = [current EXCEPT ![p] = Latest]
    /\ UNCHANGED <<tables, cols, next, disturbed, faults>>

(* Store.close, or the exit after a failed open; the process may be        *)
(* started again.                                                          *)
Close(p) ==
    /\ opc[p] \in {"open", "refused", "duplicate"}
    /\ opc' = [opc EXCEPT ![p] = "closed"]
    /\ UNCHANGED <<dbVars, current, next, disturbed, faults>>

Kill(p) ==
    /\ opc[p] # "closed"
    /\ faults < MaxFaults
    /\ faults' = faults + 1
    /\ opc' = [opc EXCEPT ![p] = "closed"]
    /\ disturbed' = (disturbed \/ HalfWay(p))
    /\ UNCHANGED <<dbVars, current, next>>

-----------------------------------------------------------------------------

OpenStep(p) ==
    \/ Connect(p)
    \/ CreateSnapshots(p)
    \/ CreateSchemaVersion(p)
    \/ SelectVersion(p)
    \/ StampVersion1(p)
    \/ AddColumn(p)
    \/ DuplicateColumn(p)
    \/ RecordVersion(p)
    \/ Refused(p)

Next ==
    \E p \in Openers : OpenStep(p) \/ Close(p) \/ Kill(p)

Spec == Init /\ [][Next]_vars

-----------------------------------------------------------------------------

(* A process that has opened the store finds every column its statements   *)
(* name, whatever the age of the database and whoever was killed or        *)
(* refused while migrating it (sqlite.py:281-291 inserts into all of them).*)
OpenHasColumns ==
    \A p \in Openers : opc[p] = "open" => cols = AllColumns

(* The version row never runs ahead of the columns: a database of version 2*)
(* has them all, so that no later open skips what is missing               *)
(* (sqlite.py:81-88).                                                      *)
VersionTellsColumns == Latest \in versions => cols = AllColumns

(* The refusal of a second ADD COLUMN is the only thing that keeps two     *)
(* processes apart: at most one is past the first column (sqlite.py:83).   *)
OneMigrator ==
    \A p, q \in Openers : HalfWay(p) /\ HalfWay(q) => p = q

(* The refusal no retry gets past, a column that is there already, comes   *)
(* only after a migration ended half way, by a kill or by an error between *)
(* its first column and its version row, or after two processes found the  *)
(* database too old at the same time.  Whatever else goes wrong while      *)
(* opening leaves a database the next open can deal with                   *)
(* (sqlite.py:71-88, cli.py:65-73).                                        *)
DuplicateOnlyDisturbed ==
    (\E p \in Openers : opc[p] = "duplicate") => disturbed

=============================================================================
