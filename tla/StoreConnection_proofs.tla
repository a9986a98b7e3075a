------------------------ MODULE StoreConnection_proofs ------------------------
(***************************************************************************)
(* Proofs about StoreConnection, for any calls of any kinds, any number of *)
(* them at a time, and any number of refused statements and kills.         *)
(*                                                                         *)
(* Until the first block has failed, a write is on disk or in the open     *)
(* transaction, and a call that has returned has its writes on disk, since *)
(* it found the transaction closed or closed it itself (Kept).  A call that*)
(* no other overlaps finds no transaction open, because none is left over  *)
(* (NoLeakedTransaction), so that its writes are where a transaction of    *)
(* its own would have them (Alone).                                        *)
(***************************************************************************)
EXTENDS StoreConnection, TLAPS

(* Of the writes of c, S holds the first k.                                *)
Holds(S, c, k) ==
    \A i \in 1..Statements(c) : <<c, i>> \in S <=> i <= k

(* How far a block has come at each of its steps.                          *)
Progress ==
    \A c \in Calls :
        /\ pc[c] = "idle" => done[c] = 0
        /\ pc[c] \in {"flag", "begin", "stmt"} => done[c] < Statements(c)
        /\ pc[c] = "rowcount" => Kind[c] = "received" /\ done[c] = 1

(* Nothing is stored that was not written, nothing written that was not    *)
(* executed, and nothing is pending without a transaction.                 *)
Accounted ==
    /\ disk \cup pend \subseteq wrote
    /\ \A c \in Calls : \A i \in 1..3 : <<c, i>> \in wrote => i <= done[c]
    /\ ~txn => pend = {}

NoFailure == \A c \in Calls : pc[c] # "failed"

(* Until a block has failed, only a kill takes writes back.                *)
Kept ==
    NoFailure =>
        \A c \in Calls : \A i \in 1..3 :
            <<c, i>> \in wrote =>
                /\ pc[c] = "lost" \/ <<c, i>> \in disk \cup pend
                /\ pc[c] = "ok" => <<c, i>> \in disk

(* Until a block has failed, what the first SELECT of counts saw is there  *)
(* for the second.                                                         *)
Counted ==
    \A r \in Readers :
        /\ pc[r] # "ok" => pendings[r] = {}
        /\ NoFailure =>
              /\ pc[r] = "second" => \A c \in finals[r] : <<c, 1>> \in Visible
              /\ finals[r] \cap pendings[r] = {}

(* Two calls that are in their blocks at the same time are both marked.    *)
Marked ==
    \A b, c \in Calls : Active(b) /\ Active(c) /\ b # c => {b, c} \subseteq shared

(* Of a call that has left its block without an exception, or is about to  *)
(* commit: everything, or nothing of a request that was there.             *)
WholeOrDuplicate(S, c) ==
    \/ done[c] = Statements(c) /\ Holds(S, c, Statements(c))
    \/ Kind[c] = "received" /\ done[c] = 1 /\ Holds(S, c, 0)

(* Where the writes of a call are that has the connection to itself.       *)
Alone(c) ==
    /\ pc[c] # "ok" => Holds(disk, c, 0)
    /\ ~Active(c) => Holds(pend, c, 0)
    /\ pc[c] \in {"flag", "begin", "stmt"} => Holds(pend, c, done[c])
    /\ pc[c] = "flag" => (txn <=> done[c] > 0)
    /\ pc[c] = "begin" => ~txn /\ done[c] = 0
    /\ pc[c] \in {"stmt", "rowcount", "exit", "commit"} => txn
    /\ pc[c] = "rowcount" => changes \in {0, 1} /\ Holds(pend, c, changes)
    /\ pc[c] \in {"exit", "commit"} => WholeOrDuplicate(pend, c)
    /\ pc[c] = "ok" => WholeOrDuplicate(disk, c)

IInv ==
    /\ TypeOK
    /\ Progress
    /\ Accounted
    /\ NoLeakedTransaction
    /\ Kept
    /\ Counted
    /\ Marked
    /\ \A c \in Calls \ shared : Alone(c)

-----------------------------------------------------------------------------
(* Facts about the operators.                                              *)

(* A block has one to three statements, that of record_received two.       *)
LEMMA StatementsType ==
    ASSUME NEW c \in Calls
    PROVE  /\ Statements(c) \in 1..3
           /\ Kind[c] = "received" => Statements(c) = 2
<1>1. CASE Kind[c] = "received"
    BY <1>1 DEF Statements
<1>2. CASE Kind[c] = "purge"
    BY <1>2 DEF Statements
<1>3. CASE Kind[c] \notin {"received", "purge"}
    BY <1>3 DEF Statements
<1> QED
    BY <1>1, <1>2, <1>3

(* A write is a call and the number of one of its statements.              *)
LEMMA WritesArePairs ==
    /\ \A w \in Everything :
           \E c \in Calls : \E i \in 1..Statements(c) : w = <<c, i>>
    /\ \A c \in Calls : \A i \in 1..Statements(c) : <<c, i>> \in Everything
BY DEF Everything, AllWrites

(* Where a thread goes after a statement is in its block.                  *)
LEMMA AfterStatementType ==
    ASSUME NEW c \in Calls
    PROVE  AfterStatement(c) \in {"rowcount", "flag", "exit"}
BY DEF AfterStatement

-----------------------------------------------------------------------------
(* The initial state.                                                      *)

(* No call has been made.                                                  *)
LEMMA InitInv == Init => IInv
<1> SUFFICES ASSUME Init
             PROVE  IInv
    OBVIOUS
<1>1. TypeOK
    <2>1. /\ pc \in [Calls \cup Readers ->
                     {"idle", "second"} \cup InBlock \cup Over]
          /\ done \in [Calls -> 0..3]
        BY DEF Init
    <2>2. /\ finals \in [Readers -> SUBSET Completions]
          /\ pendings \in [Readers -> SUBSET Completions]
        BY DEF Init
    <2>3. txn \in BOOLEAN
        BY DEF Init
    <2>4. wrote \subseteq Everything /\ pend \subseteq Everything
          /\ disk \subseteq Everything /\ shared \subseteq Calls
        BY DEF Init
    <2>5. changes \in 0..2 /\ busy \in Nat /\ ends \in Nat
        BY DEF Init
    <2> QED
        BY <2>1, <2>2, <2>3, <2>4, <2>5 DEF TypeOK
<1>2. /\ \A c \in Calls : pc[c] = "idle" /\ done[c] = 0
      /\ \A r \in Readers : pc[r] = "idle"
    BY DEF Init
<1>3. Progress /\ Accounted /\ NoLeakedTransaction /\ Kept
    BY <1>2 DEF Init, Progress, Accounted, NoLeakedTransaction, Kept
<1>4. Counted
    BY <1>2 DEF Init, Counted
<1>5. Marked
    BY <1>2 DEF Marked, Active, InBlock
<1>6. ASSUME NEW c \in Calls
      PROVE  Alone(c)
    <2>1. Holds(disk, c, 0) /\ Holds(pend, c, 0)
        BY StatementsType DEF Init, Holds
    <2> QED
        BY <1>2, <2>1 DEF Alone, Active
<1> QED
    BY <1>1, <1>3, <1>4, <1>5, <1>6 DEF IInv

-----------------------------------------------------------------------------
(* Types and progress.                                                     *)

(* Each step of a call keeps the types and moves on in its block.          *)
LEMMA TypeStep ==
    ASSUME TypeOK, Progress, NEW c \in Calls, Step(c)
    PROVE  TypeOK' /\ Progress'
<1> USE DEF TypeOK, Progress, GoTo, callVars, connVars, readVars, boundVars,
            InBlock, Over
<1>0. /\ Statements(c) \in 1..3
      /\ Kind[c] = "received" => Statements(c) = 2
    BY StatementsType
<1>1. CASE StartCall(c)
    <2>1. shared' \subseteq Calls
        BY <1>1 DEF StartCall
    <2> QED
        BY <1>0, <1>1, <2>1 DEF StartCall
<1>2. CASE ReadFlag(c)
    BY <1>2 DEF ReadFlag
<1>3. CASE Begin(c)
    BY <1>3 DEF Begin
<1>4. CASE Execute(c)
    <2>1. /\ done[c] < Statements(c)
          /\ <<c, done[c] + 1>> \in Everything
          /\ done[c] + 1 \in 0..3
        BY <1>0, <1>4, WritesArePairs DEF Execute
    <2>2. changes' \in 0..2
        BY <1>4 DEF Execute, Changed
    <2>3. TypeOK'
        BY <1>4, <2>1, <2>2, AfterStatementType DEF Execute
    <2>4. /\ \A b \in Calls : b # c => pc'[b] = pc[b] /\ done'[b] = done[b]
          /\ pc'[c] = AfterStatement(c)
          /\ done'[c] = done[c] + 1
        BY <1>4 DEF Execute
    <2>5. Progress'
        BY <1>0, <2>1, <2>4 DEF AfterStatement, Statements
    <2> QED
        BY <2>3, <2>5
<1>5. CASE InsertIgnored(c)
    BY <1>5 DEF InsertIgnored
<1>6. CASE ReadRowcount(c)
    BY <1>0, <1>6 DEF ReadRowcount
<1>7. CASE StatementRefused(c)
    BY <1>7 DEF StatementRefused
<1>8. CASE ExitBlock(c)
    BY <1>8 DEF ExitBlock
<1>9. CASE Commit(c)
    BY <1>9 DEF Commit
<1>10. CASE Unwind(c)
    BY <1>10 DEF Unwind
<1>11. CASE Rollback(c)
    BY <1>11 DEF Rollback
<1> QED
    BY <1>1, <1>2, <1>3, <1>4, <1>5, <1>6, <1>7, <1>8, <1>9, <1>10, <1>11 DEF Step

(* So do counts() and the end of the connection.                           *)
LEMMA OtherTypeStep ==
    ASSUME TypeOK, Progress,
           \/ \E r \in Readers : CountFinal(r) \/ CountPending(r)
           \/ ConnectionEnds
    PROVE  TypeOK' /\ Progress'
<1> USE DEF TypeOK, Progress, GoTo, callVars, connVars, readVars, boundVars
<1>1. CASE \E r \in Readers : CountFinal(r) \/ CountPending(r)
    <2>1. PICK r \in Readers : CountFinal(r) \/ CountPending(r)
        BY <1>1
    <2>2. \A c \in Calls : pc'[c] = pc[c]
        BY <2>1, ConnectionAssumption DEF CountFinal, CountPending
    <2>3. /\ finals' \in [Readers -> SUBSET Completions]
          /\ pendings' \in [Readers -> SUBSET Completions]
        BY <2>1 DEF CountFinal, CountPending
    <2>4. pc' \in [Calls \cup Readers ->
                      {"idle", "second"} \cup InBlock \cup Over]
        BY <2>1 DEF CountFinal, CountPending, Over
    <2> QED
        BY <2>1, <2>2, <2>3, <2>4 DEF CountFinal, CountPending
<1>2. CASE ConnectionEnds
    <2>1. pc' \in [Calls \cup Readers ->
                      {"idle", "second"} \cup InBlock \cup Over]
        BY <1>2 DEF ConnectionEnds, Over
    <2>2. \A c \in Calls : pc'[c] \in {pc[c], "lost"}
        BY <1>2 DEF ConnectionEnds
    <2>3. txn' \in BOOLEAN /\ pend' \subseteq Everything
        BY <1>2 DEF ConnectionEnds
    <2> QED
        BY <1>2, <2>1, <2>2, <2>3 DEF ConnectionEnds
<1> QED
    BY <1>1, <1>2

-----------------------------------------------------------------------------
(* What a step changes.                                                    *)

(* A call moves nobody else, and leaves what counts() has read alone.      *)
LEMMA StepFrame ==
    ASSUME TypeOK, NEW c \in Calls, Step(c)
    PROVE  /\ \A t \in Calls \cup Readers : t # c => pc'[t] = pc[t]
           /\ UNCHANGED readVars
BY DEF TypeOK, GoTo, Step, StartCall, ReadFlag, Begin, Execute, InsertIgnored,
       ReadRowcount, StatementRefused, ExitBlock, Commit, Unwind, Rollback

(* A step that touches neither rows nor the transaction.                   *)
Idle(c) ==
    \/ StartCall(c) \/ ReadFlag(c) \/ ReadRowcount(c) \/ StatementRefused(c)
    \/ ExitBlock(c) \/ Unwind(c)

(* What such steps leave alone.                                            *)
LEMMA IdleFrame ==
    ASSUME NEW c \in Calls, Idle(c)
    PROVE  UNCHANGED <<callVars, connVars>>
BY DEF Idle, StartCall, ReadFlag, ReadRowcount, StatementRefused, ExitBlock, Unwind

(* Every step keeps the account of the writes.                             *)
LEMMA AccountedStep ==
    ASSUME TypeOK, Progress, Accounted, Next
    PROVE  Accounted'
<1> USE DEF Accounted, callVars, connVars
<1>1. ASSUME NEW c \in Calls, Step(c)
      PROVE  Accounted'
    <2>1. CASE Idle(c)
        BY <2>1, IdleFrame
    <2>2. CASE Begin(c)
        BY <2>2 DEF Begin
    <2>3. CASE Execute(c)
        <3>1. /\ wrote' = wrote \cup {<<c, done[c] + 1>>}
              /\ disk' \cup pend' = disk \cup pend \cup {<<c, done[c] + 1>>}
              /\ ~txn' => pend' = pend
              /\ txn' = txn
            BY <2>3 DEF Execute
        <3>2. \A b \in Calls : done[b] \in 0..3 /\
                  done'[b] = IF b = c THEN done[b] + 1 ELSE done[b]
            BY <2>3 DEF Execute, TypeOK
        <3>3. ASSUME NEW b \in Calls, NEW i \in 1..3, <<b, i>> \in wrote'
              PROVE  i <= done'[b]
            <4>1. CASE <<b, i>> \in wrote
                <5>1. i <= done[b]
                    BY <4>1
                <5> QED
                    BY <3>2, <5>1
            <4>2. CASE <<b, i>> = <<c, done[c] + 1>>
                <5>1. b = c /\ i = done[c] + 1
                    BY <4>2
                <5> QED
                    BY <3>2, <5>1
            <4> QED
                BY <3>1, <3>3, <4>1, <4>2
        <3>4. disk' \cup pend' \subseteq wrote'
            BY <3>1
        <3>5. ~txn' => pend' = {}
            BY <3>1
        <3> QED
            BY <3>3, <3>4, <3>5
    <2>4. CASE InsertIgnored(c)
        BY <2>4 DEF InsertIgnored, TypeOK
    <2>5. CASE Commit(c)
        BY <2>5 DEF Commit
    <2>6. CASE Rollback(c)
        BY <2>6 DEF Rollback
    <2> QED
        BY <1>1, <2>1, <2>2, <2>3, <2>4, <2>5, <2>6 DEF Step, Idle
<1>2. CASE \E r \in Readers : CountFinal(r) \/ CountPending(r)
    BY <1>2 DEF CountFinal, CountPending
<1>3. CASE ConnectionEnds
    BY <1>3 DEF ConnectionEnds
<1> QED
    BY <1>1, <1>2, <1>3 DEF Next

(* Whoever leaves its block finds no transaction, or ends the one there is.*)
LEMMA LeakStep ==
    ASSUME TypeOK, NoLeakedTransaction, Next
    PROVE  NoLeakedTransaction'
<1>1. ASSUME NEW c \in Calls, Step(c)
      PROVE  txn' => pc'[c] \in InBlock \/ (txn /\ ~Active(c))
    <2> USE DEF TypeOK, GoTo, connVars, InBlock
    <2>1. CASE Execute(c)
        BY <2>1, AfterStatementType DEF Execute
    <2>2. CASE ~Execute(c)
        BY <1>1, <2>2 DEF Step, StartCall, ReadFlag, Begin, InsertIgnored,
           ReadRowcount, StatementRefused, ExitBlock, Commit, Unwind, Rollback
    <2> QED
        BY <2>1, <2>2
<1>2. ASSUME NEW c \in Calls, Step(c)
      PROVE  NoLeakedTransaction'
    BY <1>1, <1>2, StepFrame DEF NoLeakedTransaction, Active
<1>3. CASE \E r \in Readers : CountFinal(r) \/ CountPending(r)
    <2>1. txn' = txn /\ \A c \in Calls : pc'[c] = pc[c]
        BY <1>3, ConnectionAssumption
        DEF TypeOK, GoTo, connVars, CountFinal, CountPending
    <2> QED
        BY <2>1 DEF NoLeakedTransaction, Active
<1>4. CASE ConnectionEnds
    BY <1>4 DEF ConnectionEnds, NoLeakedTransaction
<1> QED
    BY <1>2, <1>3, <1>4 DEF Next

-----------------------------------------------------------------------------
(* Until the first failure.                                                *)

(* A call that has failed stays failed, so there was no failure before.    *)
LEMMA FailureStays ==
    ASSUME TypeOK, Next, NoFailure'
    PROVE  NoFailure
<1>1. ASSUME NEW b \in Calls, pc[b] = "failed"
      PROVE  pc'[b] = "failed"
    <2>1. ASSUME NEW c \in Calls, Step(c)
          PROVE  c # b
        BY <1>1, <2>1 DEF GoTo, Step, StartCall, ReadFlag, Begin, Execute,
           InsertIgnored, ReadRowcount, StatementRefused, ExitBlock, Commit,
           Unwind, Rollback
    <2>2. CASE \E c \in Calls : Step(c)
        BY <1>1, <2>1, <2>2, StepFrame
    <2>3. CASE \E r \in Readers : CountFinal(r) \/ CountPending(r)
        BY <1>1, <2>3, ConnectionAssumption DEF TypeOK, GoTo, CountFinal, CountPending
    <2>4. CASE ConnectionEnds
        BY <1>1, <2>4 DEF ConnectionEnds, InBlock
    <2> QED
        BY <2>2, <2>3, <2>4 DEF Next
<1> QED
    BY <1>1 DEF NoFailure

(* Every step but a rollback keeps the writes, and a call returns only when*)
(* its own are on disk.                                                    *)
LEMMA KeptStep ==
    ASSUME TypeOK, Progress, Accounted, Kept, Next
    PROVE  Kept'
<1> SUFFICES ASSUME NoFailure', NEW b \in Calls, NEW i \in 1..3, <<b, i>> \in wrote'
             PROVE  /\ pc'[b] = "lost" \/ <<b, i>> \in disk' \cup pend'
                    /\ pc'[b] = "ok" => <<b, i>> \in disk'
    BY DEF Kept
<1>0. <<b, i>> \in wrote => /\ pc[b] = "lost" \/ <<b, i>> \in disk \cup pend
                            /\ pc[b] = "ok" => <<b, i>> \in disk
    BY FailureStays DEF Kept
<1>1. ASSUME NEW c \in Calls, Step(c)
      PROVE  /\ pc'[b] = "lost" \/ <<b, i>> \in disk' \cup pend'
             /\ pc'[b] = "ok" => <<b, i>> \in disk'
    <2>0. b # c => pc'[b] = pc[b]
        BY <1>1, StepFrame
    <2> USE DEF callVars, connVars, GoTo
    <2>1. CASE Idle(c)
        <3>1. <<b, i>> \in wrote /\ UNCHANGED <<disk, pend>>
            BY <2>1, IdleFrame
        <3>2. pc[c] # "lost" /\ (pc'[c] = "ok" => pend = {})
            BY <2>1 DEF TypeOK, Accounted, Idle, StartCall, ReadFlag, ReadRowcount,
                        StatementRefused, ExitBlock, Unwind
        <3> QED
            BY <1>0, <2>0, <3>1, <3>2
    <2>2. CASE Begin(c)
        BY <1>0, <2>0, <2>2 DEF Begin, TypeOK
    <2>3. CASE Execute(c)
        <3>1. /\ wrote' = wrote \cup {<<c, done[c] + 1>>}
              /\ disk' \cup pend' = disk \cup pend \cup {<<c, done[c] + 1>>}
              /\ disk \subseteq disk'
              /\ pc[c] = "stmt" /\ pc'[c] \notin {"ok", "lost"}
            BY <2>3, AfterStatementType DEF Execute, TypeOK
        <3> QED
            BY <1>0, <2>0, <3>1
    <2>4. CASE InsertIgnored(c)
        BY <1>0, <2>0, <2>4 DEF InsertIgnored, TypeOK
    <2>5. CASE Commit(c)
        BY <1>0, <2>0, <2>5 DEF Commit, TypeOK
    <2>6. CASE Rollback(c)
        BY <2>6 DEF Rollback, TypeOK, NoFailure
    <2> QED
        BY <1>1, <2>1, <2>2, <2>3, <2>4, <2>5, <2>6 DEF Step, Idle
<1>2. CASE \E r \in Readers : CountFinal(r) \/ CountPending(r)
    <2>1. pc'[b] = pc[b] /\ UNCHANGED <<wrote, disk, pend>>
        BY <1>2, ConnectionAssumption
        DEF TypeOK, GoTo, callVars, connVars, CountFinal, CountPending
    <2> QED
        BY <1>0, <2>1
<1>3. CASE ConnectionEnds
    <2>1. /\ pc'[b] = IF pc[b] \in InBlock \cup {"second"} THEN "lost" ELSE pc[b]
          /\ UNCHANGED <<wrote, done, disk>>
        BY <1>3 DEF ConnectionEnds, callVars
    <2>2. pc[b] \notin {"idle", "failed"}
        <3>1. i <= done[b]
            BY <2>1 DEF Accounted
        <3> QED
            BY <3>1, FailureStays DEF Progress, TypeOK, NoFailure
    <2> QED
        BY <1>0, <2>1, <2>2 DEF TypeOK, Over
<1> QED
    BY <1>1, <1>2, <1>3 DEF Next

(* What counts() has seen stays visible while it goes on.                  *)
LEMMA CountedStep ==
    ASSUME TypeOK, Accounted, Counted, Next
    PROVE  Counted'
<1>1. ASSUME NEW c \in Calls, Step(c)
      PROVE  Counted'
    <2>1. NoFailure' => Visible \subseteq Visible'
        <3> USE DEF Visible, callVars, connVars, GoTo
        <3>1. CASE Idle(c)
            BY <3>1, IdleFrame
        <3>2. CASE Rollback(c)
            BY <3>2 DEF Rollback, TypeOK, NoFailure
        <3>3. CASE Begin(c) \/ Execute(c) \/ InsertIgnored(c) \/ Commit(c)
            BY <3>3 DEF Begin, Execute, InsertIgnored, Commit
        <3> QED
            BY <1>1, <3>1, <3>2, <3>3 DEF Step, Idle
    <2>2. \A r \in Readers : pc'[r] = pc[r]
        BY <1>1, StepFrame, ConnectionAssumption
    <2>3. UNCHANGED <<finals, pendings>>
        BY <1>1, StepFrame DEF readVars
    <2>4. NoFailure' => NoFailure
        BY FailureStays
    <2> QED
        BY <2>1, <2>2, <2>3, <2>4 DEF Counted
<1>2. ASSUME NEW r \in Readers, CountFinal(r)
      PROVE  Counted'
    <2>1. /\ pc[r] = "idle" /\ pc'[r] = "second"
          /\ \A q \in Readers : q # r => pc'[q] = pc[q] /\ finals'[q] = finals[q]
          /\ finals'[r] = {c \in Completions : <<c, 1>> \in Visible}
          /\ UNCHANGED <<pendings, disk, pend>>
          /\ NoFailure' => NoFailure
        BY <1>2, FailureStays DEF CountFinal, GoTo, TypeOK, connVars
    <2>2. pendings[r] = {}
        BY <2>1 DEF Counted
    <2> QED
        BY <2>1, <2>2 DEF Counted, Visible
<1>3. ASSUME NEW r \in Readers, CountPending(r)
      PROVE  Counted'
    <2>1. /\ pc[r] = "second" /\ pc'[r] = "ok"
          /\ \A q \in Readers : q # r => pc'[q] = pc[q] /\ pendings'[q] = pendings[q]
          /\ pendings'[r] = {c \in Completions : <<c, 1>> \notin Visible}
          /\ UNCHANGED <<finals, disk, pend>>
          /\ NoFailure' => NoFailure
        BY <1>3, FailureStays DEF CountPending, GoTo, TypeOK, connVars
    <2>2. NoFailure => finals[r] \cap pendings'[r] = {}
        BY <2>1 DEF Counted
    <2> QED
        BY <2>1, <2>2 DEF Counted, Visible
<1>4. CASE ConnectionEnds
    <2>1. /\ \A r \in Readers :
                 pc'[r] = IF pc[r] \in InBlock \cup {"second"} THEN "lost" ELSE pc[r]
          /\ UNCHANGED <<finals, pendings>>
          /\ NoFailure' => NoFailure
        BY <1>4, FailureStays DEF ConnectionEnds, readVars
    <2> QED
        BY <2>1 DEF Counted, InBlock
<1> QED
    BY <1>1, <1>2, <1>3, <1>4 DEF Next

-----------------------------------------------------------------------------
(* Calls that have the connection to themselves.                           *)

(* shared only grows.  A call that moves was in its block, unless it starts*)
(* and marks everybody it meets.                                           *)
LEMMA SharedSteps ==
    ASSUME NEW c \in Calls, Step(c)
    PROVE  /\ shared \subseteq shared'
           /\ StartCall(c) \/ Active(c)
BY DEF Active, InBlock, GoTo, Step, StartCall, ReadFlag, Begin, Execute,
       InsertIgnored, ReadRowcount, StatementRefused, ExitBlock, Commit, Unwind,
       Rollback

(* Two calls in their blocks know of each other.                           *)
LEMMA MarkedStep ==
    ASSUME TypeOK, Marked, Next
    PROVE  Marked' /\ shared \subseteq shared'
<1>1. ASSUME NEW c \in Calls, Step(c)
      PROVE  Marked'
    <2>1. CASE StartCall(c)
        <3>1. /\ \A b \in Calls : b # c => pc'[b] = pc[b]
              /\ \A b \in Calls : Active(b) => {b, c} \subseteq shared'
            BY <2>1 DEF StartCall, GoTo, TypeOK
        <3> QED
            BY <1>1, <3>1, SharedSteps DEF Marked, Active
    <2>2. CASE Active(c)
        <3>1. \A b \in Calls : Active(b)' => Active(b)
            BY <1>1, <2>2, StepFrame DEF Active
        <3> QED
            BY <1>1, <3>1, SharedSteps DEF Marked
    <2> QED
        BY <1>1, <2>1, <2>2, SharedSteps
<1>2. CASE \E r \in Readers : CountFinal(r) \/ CountPending(r)
    <2>1. UNCHANGED shared /\ \A b \in Calls : pc'[b] = pc[b]
        BY <1>2, ConnectionAssumption DEF TypeOK, GoTo, CountFinal, CountPending
    <2> QED
        BY <2>1 DEF Marked, Active
<1>3. CASE ConnectionEnds
    <2>1. UNCHANGED shared /\ \A b \in Calls : ~Active(b)'
        BY <1>3 DEF ConnectionEnds, Active, InBlock
    <2> QED
        BY <2>1 DEF Marked
<1>4. shared \subseteq shared'
    <2>1. CASE \E c \in Calls : Step(c)
        BY <2>1, SharedSteps
    <2>2. CASE ~\E c \in Calls : Step(c)
        BY <2>2 DEF Next, CountFinal, CountPending, ConnectionEnds
    <2> QED
        BY <2>1, <2>2
<1> QED
    BY <1>1, <1>2, <1>3, <1>4 DEF Next

(* A write of one call is none of another's.                               *)
LEMMA HoldsOthers ==
    ASSUME NEW b \in Calls, NEW c \in Calls, b # c, NEW S, NEW j, NEW k
    PROVE  Holds(S \cup {<<c, j>>}, b, k) <=> Holds(S, b, k)
BY DEF Holds

(* The next write of a call.                                               *)
LEMMA HoldsNext ==
    ASSUME NEW c \in Calls, NEW S, NEW k \in Nat, Holds(S, c, k)
    PROVE  Holds(S \cup {<<c, k + 1>>}, c, k + 1)
<1> SUFFICES ASSUME NEW i \in 1..Statements(c)
             PROVE  <<c, i>> \in S \cup {<<c, k + 1>>} <=> i <= k + 1
    BY DEF Holds
<1>1. <<c, i>> \in S <=> i <= k
    BY DEF Holds
<1>2. <<c, i>> = <<c, k + 1>> <=> i = k + 1
    OBVIOUS
<1>3. i \in Nat
    BY StatementsType
<1> QED
    BY <1>1, <1>2, <1>3

(* What COMMIT moves to the disk.                                          *)
LEMMA HoldsCommitted ==
    ASSUME NEW c \in Calls, NEW S, NEW T, NEW k \in Nat, Holds(S, c, 0), Holds(T, c, k)
    PROVE  Holds(S \cup T, c, k) /\ Holds({}, c, 0)
<1>1. \A i \in 1..Statements(c) : i \in Nat /\ ~(i <= 0)
    BY StatementsType
<1> QED
    BY <1>1 DEF Holds

(* A step of another call does not reach the writes of a call that is alone*)
LEMMA AloneOther ==
    ASSUME TypeOK, Accounted, Marked, NEW b \in Calls, NEW c \in Calls, b # c,
           Alone(b), b \notin shared', Step(c)
    PROVE  Alone(b)'
<1>0. pc'[b] = pc[b]
    BY StepFrame
<1>1. CASE StartCall(c)
    <2>1. UNCHANGED <<done, txn, changes, pend, disk>>
        BY <1>1 DEF StartCall, callVars, connVars
    <2> QED
        BY <1>0, <2>1 DEF Alone, Active, WholeOrDuplicate, Holds
<1>2. CASE Active(c)
    <2>1. ~Active(b)
        BY <1>2, SharedSteps DEF Marked
    <2>2. Holds(pend, b, 0) /\ done'[b] = done[b]
        BY <2>1 DEF Alone, TypeOK, Step, StartCall, ReadFlag, Begin, Execute,
           InsertIgnored, ReadRowcount, StatementRefused, ExitBlock, Commit, Unwind,
           Rollback, callVars
    <2>3. /\ \A k \in Nat : Holds(disk, b, k) => Holds(disk', b, k)
          /\ Holds(pend', b, 0)
        <3>1. CASE Execute(c)
            <4>1. /\ disk' = disk \/ disk' = disk \cup {<<c, done[c] + 1>>}
                  /\ pend' = pend \/ pend' = pend \cup {<<c, done[c] + 1>>}
                BY <3>1 DEF Execute
            <4> QED
                BY <2>2, <4>1, HoldsOthers
        <3>2. CASE Commit(c)
            <4>1. disk' = disk \cup pend /\ pend' = {}
                BY <3>2 DEF Commit
            <4>2. Holds({}, b, 0)
                BY <2>2, HoldsCommitted
            <4>3. \A i \in 1..Statements(b) : <<b, i>> \notin pend
                BY <2>2, StatementsType DEF Holds
            <4> QED
                BY <4>1, <4>2, <4>3 DEF Holds
        <3>3. CASE Rollback(c)
            <4>1. Holds({}, b, 0)
                BY <2>2, HoldsCommitted
            <4> QED
                BY <3>3, <4>1 DEF Rollback
        <3>4. CASE Idle(c) \/ Begin(c) \/ InsertIgnored(c)
            BY <2>2, <3>4, IdleFrame DEF Begin, InsertIgnored, connVars
        <3> QED
            BY <3>1, <3>2, <3>3, <3>4 DEF Step, Idle
    <2>4. Statements(b) \in Nat
        BY StatementsType
    <2>5. WholeOrDuplicate(disk, b) => WholeOrDuplicate(disk, b)'
        BY <2>2, <2>3, <2>4 DEF WholeOrDuplicate
    <2> QED
        BY <1>0, <2>1, <2>3, <2>5 DEF Alone, Active, InBlock
<1> QED
    BY <1>1, <1>2, SharedSteps

(* A step of the call itself, when nobody is in a block beside it.         *)
LEMMA AloneOwn ==
    ASSUME TypeOK, Progress, Accounted, NoLeakedTransaction, NEW c \in Calls,
           Alone(c), c \notin shared', Step(c)
    PROVE  Alone(c)'
<1>0. /\ Statements(c) \in 1..3
      /\ Kind[c] = "received" => Statements(c) = 2
      /\ done[c] \in 0..3
    BY StatementsType DEF TypeOK
<1> USE DEF GoTo, callVars, connVars
<1>1. CASE StartCall(c)
    <2>1. /\ pc[c] = "idle" /\ pc'[c] = "flag"
          /\ \A b \in Calls : ~Active(b)
          /\ UNCHANGED <<done, txn, changes, pend, disk>>
        BY <1>1 DEF StartCall, TypeOK
    <2>2. ~txn /\ done[c] = 0
        BY <2>1 DEF NoLeakedTransaction, Progress
    <2>3. Holds(disk, c, 0) /\ Holds(pend, c, 0)
        BY <2>1 DEF Alone
    <2> QED
        BY <2>1, <2>2, <2>3 DEF Alone, Active, InBlock, Holds
<1>2. CASE ReadFlag(c)
    <2>1. /\ pc[c] = "flag" /\ pc'[c] = IF txn THEN "stmt" ELSE "begin"
          /\ UNCHANGED <<done, txn, changes, pend, disk>>
        BY <1>2 DEF ReadFlag, TypeOK
    <2> QED
        BY <1>0, <2>1 DEF Alone, Active, InBlock, Holds
<1>3. CASE Begin(c)
    <2>1. /\ pc[c] = "begin" /\ pc'[c] = "stmt" /\ txn'
          /\ UNCHANGED <<done, changes, pend, disk>>
        BY <1>3 DEF Begin, TypeOK, Alone
    <2> QED
        BY <1>0, <2>1 DEF Alone, Active, InBlock, Holds
<1>4. CASE Execute(c)
    <2>1. /\ pc[c] = "stmt" /\ pc'[c] = AfterStatement(c)
          /\ txn /\ txn' /\ disk' = disk
          /\ pend' = pend \cup {<<c, done[c] + 1>>}
          /\ done'[c] = done[c] + 1
          /\ done[c] < Statements(c)
          /\ Kind[c] # "purge" => changes' = 1
        BY <1>4 DEF Execute, Changed, TypeOK, Alone, Progress
    <2>2. /\ Holds(disk, c, 0) /\ Holds(pend', c, done[c] + 1)
        BY <1>0, <2>1, HoldsNext DEF Alone
    <2>3. Holds(disk', c, 0)
        BY <2>1, <2>2
    <2>4. CASE AfterStatement(c) = "rowcount"
        <3>1. changes' = 1 /\ done[c] = 0
            BY <2>1, <2>4 DEF AfterStatement
        <3> QED
            BY <2>1, <2>2, <2>3, <2>4, <3>1 DEF Alone, Active, InBlock
    <2>5. CASE AfterStatement(c) = "flag"
        BY <1>0, <2>1, <2>2, <2>3, <2>5 DEF Alone, Active, InBlock
    <2>6. CASE AfterStatement(c) = "exit"
        <3>1. done[c] + 1 = Statements(c)
            BY <1>0, <2>1, <2>6 DEF AfterStatement
        <3>2. WholeOrDuplicate(pend, c)'
            BY <2>1, <2>2, <3>1 DEF WholeOrDuplicate
        <3> QED
            BY <2>1, <2>3, <2>6, <3>2 DEF Alone, Active, InBlock
    <2> QED
        BY <2>4, <2>5, <2>6, AfterStatementType
<1>5. CASE InsertIgnored(c)
    <2>1. /\ pc[c] = "stmt" /\ pc'[c] = "rowcount"
          /\ changes' = 0 /\ txn /\ done[c] = 0
          /\ UNCHANGED <<txn, pend, disk>>
        BY <1>5 DEF InsertIgnored, TypeOK, Alone
    <2>2. Holds(disk, c, 0) /\ Holds(pend, c, 0)
        BY <2>1 DEF Alone
    <2> QED
        BY <2>1, <2>2 DEF Alone, Active, InBlock, Holds
<1>6. CASE ReadRowcount(c)
    <2>1. /\ pc[c] = "rowcount" /\ pc'[c] = IF changes = 1 THEN "flag" ELSE "exit"
          /\ txn /\ changes \in {0, 1} /\ Holds(pend, c, changes)
          /\ Kind[c] = "received" /\ done[c] = 1
          /\ Holds(disk, c, 0)
          /\ UNCHANGED <<done, txn, changes, pend, disk>>
        BY <1>6 DEF ReadRowcount, TypeOK, Alone, Progress
    <2>2. Holds(disk', c, 0) /\ Holds(pend', c, changes)
        BY <2>1
    <2>3. changes = 0 => WholeOrDuplicate(pend, c)'
        BY <2>1, <2>2 DEF WholeOrDuplicate
    <2> QED
        BY <2>1, <2>2, <2>3 DEF Alone, Active, InBlock
<1>7. CASE StatementRefused(c) \/ Unwind(c) \/ Rollback(c)
    <2>1. /\ pc[c] # "ok"
          /\ pc'[c] \in {"unwind", "rollback", "failed"}
          /\ UNCHANGED disk
          /\ pc'[c] = "failed" => pend' = {}
        BY <1>7 DEF StatementRefused, Unwind, Rollback, TypeOK, Accounted
    <2>2. Holds(disk, c, 0) /\ Holds({}, c, 0)
        <3>1. Holds(disk, c, 0)
            BY <2>1 DEF Alone
        <3>2. \A i \in 1..Statements(c) : ~(i <= 0)
            BY <1>0
        <3> QED
            BY <3>1, <3>2 DEF Holds
    <2>3. Holds(disk', c, 0) /\ (pc'[c] = "failed" => Holds(pend', c, 0))
        BY <2>1, <2>2
    <2> QED
        BY <2>1, <2>3 DEF Alone, Active, InBlock
<1>8. CASE ExitBlock(c)
    <2>1. /\ pc[c] = "exit" /\ pc'[c] = "commit"
          /\ UNCHANGED <<done, txn, pend, disk>>
        BY <1>8 DEF ExitBlock, TypeOK, Alone
    <2> QED
        BY <2>1 DEF Alone, Active, InBlock, WholeOrDuplicate, Holds
<1>9. CASE Commit(c)
    <2>1. /\ pc[c] = "commit" /\ pc'[c] = "ok"
          /\ disk' = disk \cup pend /\ pend' = {} /\ UNCHANGED done
        BY <1>9 DEF Commit, TypeOK, Alone
    <2>2. Holds(disk, c, 0) /\ WholeOrDuplicate(pend, c)
        BY <2>1 DEF Alone
    <2>3. \A k \in Nat : Holds(pend, c, k) => Holds(disk', c, k) /\ Holds(pend', c, 0)
        BY <2>1, <2>2, HoldsCommitted
    <2>4. WholeOrDuplicate(disk, c)' /\ Holds(pend', c, 0)
        BY <1>0, <2>1, <2>2, <2>3 DEF WholeOrDuplicate
    <2> QED
        BY <2>1, <2>4 DEF Alone, Active, InBlock
<1> QED
    BY <1>1, <1>2, <1>3, <1>4, <1>5, <1>6, <1>7, <1>8, <1>9 DEF Step

(* Every step keeps what is said of calls that are alone.                  *)
LEMMA AloneStep ==
    ASSUME IInv, Next, NEW b \in Calls, b \notin shared'
    PROVE  Alone(b)'
<1>0. b \notin shared /\ Alone(b)
    BY MarkedStep DEF IInv
<1>1. CASE \E c \in Calls : Step(c)
    BY <1>0, <1>1, AloneOther, AloneOwn DEF IInv
<1>2. CASE \E r \in Readers : CountFinal(r) \/ CountPending(r)
    <2>1. pc'[b] = pc[b] /\ UNCHANGED <<done, txn, changes, pend, disk>>
        BY <1>2, ConnectionAssumption
        DEF IInv, TypeOK, GoTo, callVars, connVars, CountFinal, CountPending
    <2> QED
        BY <1>0, <2>1 DEF Alone, Active, WholeOrDuplicate, Holds
<1>3. CASE ConnectionEnds
    <2>1. /\ pc'[b] = IF pc[b] \in InBlock \cup {"second"} THEN "lost" ELSE pc[b]
          /\ pend' = {}
          /\ UNCHANGED <<done, disk>>
        BY <1>3 DEF ConnectionEnds, callVars
    <2>2. Holds({}, b, 0)
        BY StatementsType DEF Holds
    <2>3. Holds(pend', b, 0)
        BY <2>1, <2>2
    <2> QED
        BY <1>0, <2>1, <2>3 DEF Alone, Active, InBlock, WholeOrDuplicate, Holds
<1> QED
    BY <1>1, <1>2, <1>3 DEF Next

-----------------------------------------------------------------------------
(* The theorems.                                                           *)

(* Every step keeps the inductive invariant.                               *)
LEMMA NextInv == IInv /\ [Next]_vars => IInv'
<1> SUFFICES ASSUME IInv, [Next]_vars
             PROVE  IInv'
    OBVIOUS
<1>1. CASE Next
    <2>1. TypeOK' /\ Progress'
        BY <1>1, TypeStep, OtherTypeStep DEF IInv, Next
    <2>2. Accounted' /\ NoLeakedTransaction' /\ Kept' /\ Counted' /\ Marked'
        BY <1>1, AccountedStep, LeakStep, KeptStep, CountedStep, MarkedStep DEF IInv
    <2>3. \A c \in Calls \ shared' : Alone(c)'
        BY <1>1, AloneStep
    <2> QED
        BY <2>1, <2>2, <2>3 DEF IInv
<1>2. CASE UNCHANGED vars
    BY <1>2 DEF IInv, vars, callVars, connVars, readVars, boundVars, TypeOK,
       Progress, Accounted, NoLeakedTransaction, Kept, NoFailure, Counted, Visible,
       Marked, Alone, Active, WholeOrDuplicate, Holds
<1> QED
    BY <1>1, <1>2

(* The inductive invariant holds of every behaviour.                       *)
THEOREM Invariance == Spec => []IInv
BY InitInv, NextInv, PTL DEF Spec

(* The types hold, whatever calls share the connection.                    *)
THEOREM TypeCorrect == Spec => []TypeOK
<1>1. IInv => TypeOK
    BY DEF IInv
<1> QED
    BY <1>1, Invariance, PTL

(* The early return of record_received and every exception included, no    *)
(* block leaves a transaction behind (sqlite.py:207-222).                  *)
THEOREM NothingLeaks == Spec => []NoLeakedTransaction
<1>1. IInv => NoLeakedTransaction
    BY DEF IInv
<1> QED
    BY <1>1, Invariance, PTL

(* As long as no block ends in an exception, any number of threads may     *)
(* share the connection and what a call has written when it returns is     *)
(* committed (sqlite.py:58, sqlite.py:207, sqlite.py:378).                 *)
THEOREM ReturnedIsCommitted == Spec => []NoErrorNoLoss
<1>1. IInv => NoErrorNoLoss
    <2> SUFFICES ASSUME IInv, NoError, NEW c \in Calls, pc[c] = "ok",
                        NEW w \in Writes(c)
                 PROVE  w \in disk
        BY DEF NoErrorNoLoss
    <2>1. w \in wrote /\ w[1] = c /\ w \in Everything
        BY DEF IInv, TypeOK, Writes
    <2>2. PICK b \in Calls : \E i \in 1..Statements(b) : w = <<b, i>>
        BY <2>1, WritesArePairs
    <2>3. PICK i \in 1..3 : w = <<b, i>>
        BY <2>2, StatementsType
    <2>4. b = c
        BY <2>1, <2>3
    <2> QED
        BY <2>1, <2>3, <2>4 DEF IInv, Kept, NoFailure, NoError
<1> QED
    BY <1>1, Invariance, PTL

(* However many calls run between the two SELECTs of counts(), it counts no*)
(* request twice unless a block fails (sqlite.py:127-130).                 *)
THEOREM CountsAreDisjoint == Spec => []NothingCountedTwice
<1>1. IInv => NothingCountedTwice
    BY DEF IInv, Counted, NothingCountedTwice, NoFailure, NoError
<1> QED
    BY <1>1, Invariance, PTL

(* A call that no other call overlaps is all or nothing and tells its      *)
(* caller the truth, whoever used the connection before it and however     *)
(* those calls ended (sqlite.py:207-228, sqlite.py:378-393).               *)
THEOREM AtomicWhenAlone == Spec => []AloneIsAtomic
<1>1. IInv => AloneIsAtomic
    <2> SUFFICES ASSUME IInv, NEW c \in Calls \ shared
                 PROVE  /\ pc[c] \in Over =>
                               disk \cap AllWrites(c) \in {{}, AllWrites(c)}
                        /\ ToldFresh(c) => AllWrites(c) \subseteq disk
                        /\ ToldDuplicate(c) => <<c, 1>> \notin disk
        BY DEF AloneIsAtomic
    <2>1. /\ Statements(c) \in 1..3
          /\ Kind[c] = "received" => Statements(c) = 2
        BY StatementsType
    <2>2. Alone(c)
        BY DEF IInv
    <2>3. Holds(disk, c, 0) => disk \cap AllWrites(c) = {} /\ <<c, 1>> \notin disk
        BY <2>1 DEF Holds, AllWrites
    <2>4. Holds(disk, c, Statements(c)) => AllWrites(c) \subseteq disk
        BY <2>1 DEF Holds, AllWrites
    <2>5. pc[c] # "ok" => Holds(disk, c, 0)
        BY <2>2 DEF Alone
    <2>6. pc[c] = "ok" => WholeOrDuplicate(disk, c)
        BY <2>2 DEF Alone
    <2>7. pc[c] \in Over => disk \cap AllWrites(c) \in {{}, AllWrites(c)}
        BY <2>3, <2>4, <2>5, <2>6 DEF WholeOrDuplicate
    <2>8. ToldFresh(c) => AllWrites(c) \subseteq disk
        BY <2>4, <2>6 DEF ToldFresh, WholeOrDuplicate
    <2>9. ToldDuplicate(c) => <<c, 1>> \notin disk
        BY <2>1, <2>3, <2>6 DEF ToldDuplicate, WholeOrDuplicate
    <2> QED
        BY <2>7, <2>8, <2>9
<1> QED
    BY <1>1, Invariance, PTL

=============================================================================
