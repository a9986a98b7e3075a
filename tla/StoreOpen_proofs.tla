--------------------------- MODULE StoreOpen_proofs ---------------------------
(***************************************************************************)
(* Proofs about StoreOpen, for any set of processes, any number of ALTER   *)
(* statements and any bound on faults.                                     *)
(*                                                                         *)
(* The columns are added in order and a column that is there is refused,   *)
(* so a process at statement n knows of the columns before n (ColumnsDone),*)
(* and being past the first column excludes every other process.  As long  *)
(* as nothing has disturbed a migration, one process at most is upgrading  *)
(* and the columns are exactly the ones it has added (Calm).               *)
(***************************************************************************)
EXTENDS StoreOpen, TLAPS

(* A process begins with the first column, and what it has added is there. *)
ColumnsDone ==
    /\ \A p \in Openers : opc[p] = "stamp" => next[p] = 1
    /\ \A p \in Openers : opc[p] = "alter" => 1..(next[p] - 1) \subseteq cols
    /\ \A p \in Openers : opc[p] = "record" => cols = AllColumns

(* What is known of an upgrade that nobody has disturbed.                  *)
Calm ==
    ~disturbed =>
        /\ \A p, q \in Openers :
               opc[p] \in Upgrading /\ opc[q] \in Upgrading => p = q
        /\ \A p \in Openers : opc[p] # "duplicate"
        /\ \A p \in Openers : opc[p] = "stamp" => cols = {}
        /\ \A p \in Openers : opc[p] = "alter" => cols = 1..(next[p] - 1)
        /\ \/ cols = {}
           \/ Latest \in versions
           \/ \E p \in Openers : opc[p] \in Migrating

IInv ==
    /\ TypeOK
    /\ ColumnsDone
    /\ OpenHasColumns
    /\ VersionTellsColumns
    /\ OneMigrator
    /\ Calm

(* The highest recorded version is 2 exactly when row 2 is there           *)
(* (sqlite.py:71-73).                                                      *)
LEMMA StoredVersionLatest ==
    ASSUME TypeOK
    PROVE  /\ StoredVersion \in 0..Latest
           /\ StoredVersion = Latest <=> Latest \in versions
<1>1. CASE versions = {}
    BY <1>1 DEF StoredVersion, Latest
<1>2. CASE versions # {}
    <2>1. \E v \in versions : \A w \in versions : w <= v
        <3>1. CASE 2 \in versions
            BY <3>1 DEF TypeOK, Latest
        <3>2. CASE 2 \notin versions
            <4>1. 1 \in versions /\ \A w \in versions : w = 1
                BY <1>2, <3>2 DEF TypeOK, Latest
            <4> QED
                BY <4>1
        <3> QED
            BY <3>1, <3>2
    <2>2. /\ StoredVersion \in versions
          /\ \A w \in versions : w <= StoredVersion
        BY <1>2, <2>1 DEF StoredVersion
    <2> QED
        BY <2>2 DEF TypeOK, Latest
<1> QED
    BY <1>1, <1>2

(* A version is acted upon exactly when it is not the last one.            *)
LEMMA AfterSelectUpgrades ==
    ASSUME NEW v \in 0..Latest
    PROVE  /\ AfterSelect(v) \in {"stamp", "alter", "open"}
           /\ AfterSelect(v) = "open" <=> v = Latest
BY DEF AfterSelect, Latest

(* Every initial database satisfies the inductive invariant.               *)
LEMMA InitInv == Init => IInv
<1> SUFFICES ASSUME Init
             PROVE  IInv
    OBVIOUS
<1>1. TypeOK
    <2>1. 1 \in AllColumns
        BY OpenAssumption DEF AllColumns
    <2>2. /\ tables \subseteq {"gateway_snapshots", "schema_version"}
          /\ cols \subseteq AllColumns
          /\ versions \subseteq {1, Latest}
        BY DEF Init
    <2>3. /\ opc \in [Openers -> Steps]
          /\ current \in [Openers -> 0..Latest]
          /\ next \in [Openers -> AllColumns]
        BY <2>1 DEF Init, Steps, Latest
    <2> QED
        BY <2>2, <2>3 DEF Init, TypeOK
<1>2. VersionTellsColumns
    BY DEF Init, VersionTellsColumns, Latest
<1>3. ColumnsDone /\ OpenHasColumns /\ OneMigrator
    BY DEF Init, ColumnsDone, OpenHasColumns, OneMigrator, HalfWay
<1>4. Calm
    BY DEF Init, Calm, Upgrading, Migrating
<1> QED
    BY <1>1, <1>2, <1>3, <1>4 DEF IInv

(* Each step keeps the types.                                              *)
LEMMA TypeStep ==
    ASSUME TypeOK, NEW p \in Openers, OpenStep(p) \/ Close(p) \/ Kill(p)
    PROVE  TypeOK'
<1> USE DEF TypeOK, GoTo, dbVars, Steps, Opening, Upgrading, Migrating
<1>1. CASE Connect(p)
    BY <1>1 DEF Connect
<1>2. CASE CreateSnapshots(p)
    BY <1>2 DEF CreateSnapshots
<1>3. CASE CreateSchemaVersion(p)
    BY <1>3 DEF CreateSchemaVersion
<1>4. CASE SelectVersion(p)
    <2>1. 1 \in AllColumns
        BY OpenAssumption DEF AllColumns
    <2>2. StoredVersion \in 0..Latest
        BY StoredVersionLatest
    <2>3. AfterSelect(StoredVersion) \in {"stamp", "alter", "open"}
        BY <2>2, AfterSelectUpgrades
    <2>4. disturbed' \in BOOLEAN
        BY <1>4 DEF SelectVersion
    <2>5. /\ opc' \in [Openers -> Steps]
          /\ current' \in [Openers -> 0..Latest]
          /\ next' \in [Openers -> AllColumns]
        BY <1>4, <2>1, <2>2, <2>3 DEF SelectVersion
    <2> QED
        BY <1>4, <2>4, <2>5 DEF SelectVersion
<1>5. CASE StampVersion1(p)
    BY <1>5 DEF StampVersion1, Latest
<1>6. CASE AddColumn(p)
    <2>1. next[p] \in AllColumns
        OBVIOUS
    <2>2. next[p] # Alters => next[p] + 1 \in AllColumns
        BY <2>1, OpenAssumption DEF AllColumns
    <2> QED
        BY <1>6, <2>1, <2>2 DEF AddColumn
<1>7. CASE DuplicateColumn(p)
    BY <1>7 DEF DuplicateColumn
<1>8. CASE RecordVersion(p)
    BY <1>8 DEF RecordVersion, Latest
<1>9. CASE Close(p)
    BY <1>9 DEF Close
<1>10. CASE Kill(p)
    <2>1. disturbed' \in BOOLEAN
        BY <1>10 DEF Kill
    <2> QED
        BY <1>10, <2>1 DEF Kill
<1>11. CASE Refused(p)
    <2>1. disturbed' \in BOOLEAN
        BY <1>11 DEF Refused
    <2> QED
        BY <1>11, <2>1 DEF Refused
<1> QED
    BY <1>1, <1>2, <1>3, <1>4, <1>5, <1>6, <1>7, <1>8, <1>9, <1>10, <1>11
    DEF OpenStep

(* A step that adds no column and moves its process, not past the first    *)
(* column, to a place where it owes the columns nothing, disturbs nothing  *)
(* that is said of columns.                                                *)
LEMMA IdleColumns ==
    ASSUME TypeOK, ColumnsDone, OpenHasColumns, VersionTellsColumns, OneMigrator,
           NEW p \in Openers, NEW to \in Steps,
           to \notin {"stamp", "alter", "record", "open"},
           opc' = [opc EXCEPT ![p] = to],
           UNCHANGED <<cols, versions, next>>
    PROVE  /\ ColumnsDone' /\ OpenHasColumns'
           /\ VersionTellsColumns' /\ OneMigrator'
BY DEF TypeOK, ColumnsDone, OpenHasColumns, VersionTellsColumns, OneMigrator,
       HalfWay, AllColumns

(* Each step keeps what is said of columns.                                *)
LEMMA ColumnStep ==
    ASSUME TypeOK, ColumnsDone, OpenHasColumns, VersionTellsColumns, OneMigrator,
           NEW p \in Openers, OpenStep(p) \/ Close(p) \/ Kill(p)
    PROVE  /\ ColumnsDone' /\ OpenHasColumns'
           /\ VersionTellsColumns' /\ OneMigrator'
<1> USE DEF GoTo, dbVars
<1>1. CASE Connect(p)
    BY <1>1, IdleColumns DEF Connect, Steps, Opening
<1>2. CASE CreateSnapshots(p)
    BY <1>2, IdleColumns DEF CreateSnapshots, Steps, Opening
<1>3. CASE CreateSchemaVersion(p)
    BY <1>3, IdleColumns DEF CreateSchemaVersion, Steps, Opening
<1>4. CASE SelectVersion(p)
    <2>1. /\ AfterSelect(StoredVersion) \in {"stamp", "alter", "open"}
          /\ AfterSelect(StoredVersion) = "open" => cols = AllColumns
        BY StoredVersionLatest, AfterSelectUpgrades DEF VersionTellsColumns
    <2>2. /\ opc' = [opc EXCEPT ![p] = AfterSelect(StoredVersion)]
          /\ next' = [next EXCEPT ![p] = 1]
          /\ UNCHANGED <<cols, versions>>
        BY <1>4 DEF SelectVersion
    <2>3. ColumnsDone' /\ OpenHasColumns'
        BY <2>1, <2>2 DEF TypeOK, ColumnsDone, OpenHasColumns, AllColumns
    <2>4. VersionTellsColumns' /\ OneMigrator'
        BY <2>1, <2>2 DEF TypeOK, VersionTellsColumns, OneMigrator, HalfWay,
                          AllColumns
    <2> QED
        BY <2>3, <2>4
<1>5. CASE StampVersion1(p)
    <2>1. /\ opc[p] = "stamp"
          /\ opc' = [opc EXCEPT ![p] = "alter"]
          /\ versions' = versions \cup {1}
          /\ UNCHANGED <<cols, next>>
        BY <1>5 DEF StampVersion1
    <2>2. ColumnsDone' /\ OpenHasColumns'
        BY <2>1 DEF TypeOK, ColumnsDone, OpenHasColumns, AllColumns
    <2>3. VersionTellsColumns'
        BY <2>1 DEF VersionTellsColumns, Latest
    <2>4. OneMigrator'
        BY <2>1 DEF TypeOK, ColumnsDone, OneMigrator, HalfWay, AllColumns
    <2> QED
        BY <2>2, <2>3, <2>4
<1>6. CASE AddColumn(p)
    <2>1. /\ opc[p] = "alter"
          /\ next[p] \in AllColumns
          /\ next[p] \notin cols
          /\ cols' = cols \cup {next[p]}
          /\ opc' = [opc EXCEPT
                       ![p] = IF next[p] = Alters THEN "record" ELSE "alter"]
          /\ next' = [next EXCEPT
                        ![p] = IF next[p] = Alters THEN next[p] ELSE next[p] + 1]
          /\ UNCHANGED versions
        BY <1>6 DEF AddColumn, TypeOK
    <2>2. 1..(next[p] - 1) \subseteq cols
        BY <2>1 DEF ColumnsDone
    (* Nobody can be past all columns while one is missing.                *)
    <2>3. \A q \in Openers : opc[q] \notin {"record", "open"}
        BY <2>1 DEF ColumnsDone, OpenHasColumns
    <2>4. Latest \notin versions
        BY <2>1 DEF VersionTellsColumns
    <2>5. next[p] = Alters => cols' = AllColumns
        <3>1. next[p] = Alters => AllColumns \subseteq cols'
            BY <2>1, <2>2, OpenAssumption DEF AllColumns
        <3>2. cols' \subseteq AllColumns
            BY <2>1 DEF TypeOK
        <3> QED
            BY <3>1, <3>2
    <2>6. ColumnsDone'
        <3> SUFFICES ASSUME NEW q \in Openers
                     PROVE  /\ opc'[q] = "stamp" => next'[q] = 1
                            /\ opc'[q] = "alter" => 1..(next'[q] - 1) \subseteq cols'
                            /\ opc'[q] = "record" => cols' = AllColumns
            BY DEF ColumnsDone
        <3>1. CASE q = p
            BY <2>1, <2>2, <2>5, <3>1 DEF TypeOK, AllColumns
        <3>2. CASE q # p
            BY <2>1, <2>3, <3>2 DEF TypeOK, ColumnsDone
        <3> QED
            BY <3>1, <3>2
    <2>7. OpenHasColumns'
        BY <2>1, <2>3 DEF TypeOK, OpenHasColumns
    <2>8. VersionTellsColumns'
        BY <2>1, <2>4 DEF VersionTellsColumns
    <2>9. OneMigrator'
        (* Whoever is past the first column has added it, so p is too.     *)
        <3>1. ASSUME NEW q \in Openers, q # p, opc[q] = "alter", next[q] > 1
              PROVE  FALSE
            <4>1. 1 \in cols
                BY <3>1 DEF TypeOK, ColumnsDone, AllColumns
            <4>2. next[p] > 1
                BY <4>1, <2>1 DEF AllColumns
            <4> QED
                BY <3>1, <4>2, <2>1 DEF OneMigrator, HalfWay
        <3>2. \A q \in Openers \ {p} : ~HalfWay(q)'
            BY <2>1, <2>3, <3>1 DEF TypeOK, HalfWay
        <3> QED
            BY <3>2 DEF OneMigrator
    <2> QED
        BY <2>6, <2>7, <2>8, <2>9
<1>7. CASE DuplicateColumn(p)
    BY <1>7, IdleColumns DEF DuplicateColumn, Steps
<1>8. CASE RecordVersion(p)
    <2>1. /\ opc[p] = "record"
          /\ opc' = [opc EXCEPT ![p] = "open"]
          /\ cols = AllColumns
          /\ versions' = versions \cup {Latest}
          /\ UNCHANGED <<cols, next>>
        BY <1>8 DEF RecordVersion, ColumnsDone
    <2> QED
        BY <2>1 DEF TypeOK, ColumnsDone, OpenHasColumns, VersionTellsColumns,
                    OneMigrator, HalfWay
<1>9. CASE Close(p)
    BY <1>9, IdleColumns DEF Close, Steps
<1>10. CASE Kill(p)
    BY <1>10, IdleColumns DEF Kill, Steps
<1>11. CASE Refused(p)
    BY <1>11, IdleColumns DEF Refused, Steps
<1> QED
    BY <1>1, <1>2, <1>3, <1>4, <1>5, <1>6, <1>7, <1>8, <1>9, <1>10, <1>11
    DEF OpenStep

(* A step outside the upgrade keeps Calm: neither end of it is Upgrading,  *)
(* it meets no column, and it leaves the columns and the versions alone.     *)
LEMMA IdleCalm ==
    ASSUME TypeOK, Calm,
           NEW p \in Openers, NEW to \in Steps,
           opc[p] \notin Upgrading, to \notin Upgrading, to # "duplicate",
           opc' = [opc EXCEPT ![p] = to],
           UNCHANGED <<cols, versions>>,
           disturbed => disturbed',
           \A q \in Openers : q # p => next'[q] = next[q]
    PROVE  Calm'
<1> SUFFICES ASSUME ~disturbed'
             PROVE  /\ \A q, r \in Openers :
                           opc'[q] \in Upgrading /\ opc'[r] \in Upgrading => q = r
                    /\ \A q \in Openers : opc'[q] # "duplicate"
                    /\ \A q \in Openers : opc'[q] = "stamp" => cols' = {}
                    /\ \A q \in Openers :
                           opc'[q] = "alter" => cols' = 1..(next'[q] - 1)
                    /\ \/ cols' = {}
                       \/ Latest \in versions'
                       \/ \E q \in Openers : opc'[q] \in Migrating
    BY DEF Calm
<1>1. ~disturbed
    OBVIOUS
<1>2. \A q \in Openers :
          \/ q = p /\ opc'[q] \notin Upgrading /\ opc'[q] # "duplicate"
          \/ q # p /\ opc'[q] = opc[q] /\ next'[q] = next[q]
    BY DEF TypeOK
<1>3. (\E q \in Openers : opc[q] \in Migrating) =>
          \E q \in Openers : opc'[q] \in Migrating
    BY DEF TypeOK, Upgrading
<1> QED
    BY <1>1, <1>2, <1>3 DEF Calm, Upgrading, Migrating

(* A process that ends, in whatever way but on a duplicate column, keeps   *)
(* Calm if it marks a migration it leaves half way.                        *)
LEMMA EndCalm ==
    ASSUME TypeOK, Calm,
           NEW p \in Openers, NEW to \in {"closed", "refused"},
           opc' = [opc EXCEPT ![p] = to],
           UNCHANGED <<cols, versions, next>>,
           disturbed' = (disturbed \/ HalfWay(p))
    PROVE  Calm'
<1> SUFFICES ASSUME ~disturbed'
             PROVE  Calm'
    BY DEF Calm
<1>1. ~disturbed /\ ~HalfWay(p)
    OBVIOUS
<1>2. \A q \in Openers : opc'[q] = IF q = p THEN to ELSE opc[q]
    BY DEF TypeOK
(* Before its first column p leaves none behind.                           *)
<1>3. opc[p] \in Migrating => cols = {}
    <2>1. opc[p] \in Migrating => opc[p] = "alter" /\ next[p] = 1
        BY <1>1 DEF HalfWay, Migrating, TypeOK, AllColumns
    <2>2. 1..(1 - 1) = {}
        OBVIOUS
    <2> QED
        BY <1>1, <2>1, <2>2 DEF Calm
<1>4. \/ cols = {}
      \/ Latest \in versions
      \/ \E q \in Openers : opc'[q] \in Migrating
    BY <1>1, <1>2, <1>3 DEF Calm
<1> QED
    BY <1>1, <1>2, <1>4 DEF Calm, Upgrading, Migrating

(* Each step keeps Calm.                                                   *)
LEMMA CalmStep ==
    ASSUME TypeOK, ColumnsDone, VersionTellsColumns, Calm,
           NEW p \in Openers, OpenStep(p) \/ Close(p) \/ Kill(p)
    PROVE  Calm'
<1> USE DEF GoTo, dbVars
<1>1. CASE Connect(p)
    BY <1>1, IdleCalm DEF Connect, Steps, Opening, Upgrading,
                         Migrating
<1>2. CASE CreateSnapshots(p)
    BY <1>2, IdleCalm DEF CreateSnapshots, Steps, Opening, Upgrading,
                         Migrating
<1>3. CASE CreateSchemaVersion(p)
    BY <1>3, IdleCalm DEF CreateSchemaVersion, Steps, Opening, Upgrading,
                         Migrating
<1>4. CASE SelectVersion(p)
    <2>1. /\ AfterSelect(StoredVersion) \in {"stamp", "alter", "open"}
          /\ AfterSelect(StoredVersion) = "open" <=> Latest \in versions
        BY StoredVersionLatest, AfterSelectUpgrades
    <2>2. /\ opc[p] = "select"
          /\ opc' = [opc EXCEPT ![p] = AfterSelect(StoredVersion)]
          /\ next' = [next EXCEPT ![p] = 1]
          /\ UNCHANGED <<cols, versions>>
          /\ disturbed => disturbed'
        BY <1>4 DEF SelectVersion
    <2>3. CASE AfterSelect(StoredVersion) = "open"
        <3>1. \A q \in Openers : q # p => next'[q] = next[q]
            BY <2>2 DEF TypeOK
        <3> QED
            BY <2>2, <2>3, <3>1, IdleCalm DEF Steps, Upgrading, Migrating
    <2>4. CASE AfterSelect(StoredVersion) \in {"stamp", "alter"}
        <3> SUFFICES ASSUME ~disturbed'
                     PROVE  Calm'
            BY DEF Calm
        <3>1. /\ ~disturbed
              /\ \A q \in Openers : opc[q] \notin Upgrading
            BY <1>4, <2>2, <2>4 DEF SelectVersion, Meets, Upgrading, Migrating
        <3>2. cols = {}
            BY <2>1, <2>4, <3>1 DEF Calm, Upgrading
        <3>3. \A q \in Openers :
                  \/ q = p /\ opc'[q] \in {"stamp", "alter"} /\ next'[q] = 1
                  \/ q # p /\ opc'[q] = opc[q]
            BY <2>2, <2>4 DEF TypeOK
        <3>4. cols' = {} /\ 1..(1 - 1) = {}
            BY <2>2, <3>2
        <3> QED
            BY <3>1, <3>3, <3>4 DEF Calm, Upgrading, Migrating
    <2> QED
        BY <2>1, <2>3, <2>4
<1>5. CASE StampVersion1(p)
    <2>1. /\ opc[p] = "stamp"
          /\ next[p] = 1
          /\ \A q \in Openers : opc'[q] = IF q = p THEN "alter" ELSE opc[q]
          /\ versions \subseteq versions'
          /\ UNCHANGED <<cols, next, disturbed>>
        BY <1>5 DEF StampVersion1, TypeOK, ColumnsDone
    <2>2. 1..(1 - 1) = {}
        OBVIOUS
    <2> QED
        BY <2>1, <2>2 DEF Calm, Upgrading, Migrating
<1>6. CASE AddColumn(p)
    <2>1. /\ opc[p] = "alter"
          /\ next[p] \in AllColumns
          /\ cols' = cols \cup {next[p]}
          /\ \A q \in Openers :
                 opc'[q] = IF q # p THEN opc[q]
                           ELSE IF next[p] = Alters THEN "record" ELSE "alter"
          /\ next'[p] = IF next[p] = Alters THEN next[p] ELSE next[p] + 1
          /\ UNCHANGED <<versions, disturbed>>
        BY <1>6 DEF AddColumn, TypeOK
    <2> SUFFICES ASSUME ~disturbed
                 PROVE  Calm'
        BY <2>1 DEF Calm
    <2>2. /\ cols = 1..(next[p] - 1)
          /\ \A q \in Openers : q # p => opc[q] \notin Upgrading
          /\ \A q \in Openers : opc[q] # "duplicate"
        BY <2>1 DEF Calm, Upgrading, Migrating
    <2>3. next[p] # Alters => cols' = 1..(next'[p] - 1)
        BY <2>1, <2>2 DEF AllColumns
    <2>4. \A q \in Openers :
              \/ q = p /\ opc'[q] \in Migrating
              \/ q # p /\ opc'[q] = opc[q]
        BY <2>1 DEF Migrating
    <2>5. \A q \in Openers :
              opc'[q] = "alter" => q = p /\ next[p] # Alters
        BY <2>1, <2>2 DEF Upgrading, Migrating
    <2> QED
        BY <2>2, <2>3, <2>4, <2>5 DEF Calm, Upgrading, Migrating
<1>7. CASE DuplicateColumn(p)
    (* Undisturbed, the columns are the ones before next[p].               *)
    <2>1. disturbed
        BY <1>7 DEF DuplicateColumn, Calm, TypeOK, AllColumns
    <2> QED
        BY <1>7, <2>1 DEF DuplicateColumn, Calm
<1>8. CASE RecordVersion(p)
    <2>1. /\ opc[p] = "record"
          /\ \A q \in Openers : opc'[q] = IF q = p THEN "open" ELSE opc[q]
          /\ Latest \in versions'
          /\ UNCHANGED <<cols, next, disturbed>>
        BY <1>8 DEF RecordVersion, TypeOK
    <2> QED
        BY <2>1 DEF Calm, Upgrading, Migrating
<1>9. CASE Close(p)
    BY <1>9, IdleCalm DEF Close, Steps, Upgrading, Migrating
<1>10. CASE Kill(p)
    BY <1>10, EndCalm DEF Kill
<1>11. CASE Refused(p)
    BY <1>11, EndCalm DEF Refused
<1> QED
    BY <1>1, <1>2, <1>3, <1>4, <1>5, <1>6, <1>7, <1>8, <1>9, <1>10, <1>11
    DEF OpenStep

(* Every step of every process keeps the inductive invariant.              *)
LEMMA NextInv == IInv /\ [Next]_vars => IInv'
<1> SUFFICES ASSUME IInv, [Next]_vars
             PROVE  IInv'
    OBVIOUS
<1>1. CASE Next
    BY <1>1, TypeStep, ColumnStep, CalmStep DEF IInv, Next
<1>2. CASE UNCHANGED vars
    BY <1>2 DEF IInv, vars, dbVars, TypeOK, ColumnsDone, OpenHasColumns,
                VersionTellsColumns, OneMigrator, HalfWay,
                Calm
<1> QED
    BY <1>1, <1>2

(* The inductive invariant holds of every behaviour.                       *)
THEOREM Invariance == Spec => []IInv
BY InitInv, NextInv, PTL DEF Spec

(* The types hold for any number of processes and statements.              *)
THEOREM TypeCorrect == Spec => []TypeOK
<1>1. IInv => TypeOK
    BY DEF IInv
<1> QED
    BY <1>1, Invariance, PTL

(* Whoever has opened the store finds all columns (sqlite.py:281-291),     *)
(* however many processes open it at once and are killed while they do.    *)
THEOREM OpenFindsColumns == Spec => []OpenHasColumns
<1>1. IInv => OpenHasColumns
    BY DEF IInv
<1> QED
    BY <1>1, Invariance, PTL

(* The version row never runs ahead of the columns (sqlite.py:81-88).      *)
THEOREM VersionIsTrue == Spec => []VersionTellsColumns
<1>1. IInv => VersionTellsColumns
    BY DEF IInv
<1> QED
    BY <1>1, Invariance, PTL

(* The refusal of a second ADD COLUMN lets one process through             *)
(* (sqlite.py:83), although the version is read without a lock.            *)
THEOREM RefusalExcludes == Spec => []OneMigrator
<1>1. IInv => OneMigrator
    BY DEF IInv
<1> QED
    BY <1>1, Invariance, PTL

(* An open meets a column that is there only after a migration ended half  *)
(* way, killed or refused, or met another one (sqlite.py:71-88): whatever  *)
(* else interrupts an open can be repaired by opening again.               *)
THEOREM UndisturbedOpens == Spec => []DuplicateOnlyDisturbed
<1>1. IInv => DuplicateOnlyDisturbed
    BY DEF IInv, Calm, DuplicateOnlyDisturbed
<1> QED
    BY <1>1, Invariance, PTL

=============================================================================
