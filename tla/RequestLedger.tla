---------------------------- MODULE RequestLedger ---------------------------
(***************************************************************************)
(* What request deduplication promises, with the pipeline's tasks, events, *)
(* clock and restarts left out.                                            *)
(*                                                                         *)
(* The ledger holds at most one entry per (node_id, id).  An entry has one *)
(* holder, the delivery that opened it, and only the holder may run a      *)
(* handler, once.  Retention may forget an entry only after it was closed, *)
(* and a handler never runs for an entry that has been forgotten.          *)
(***************************************************************************)

CONSTANTS
    Keys,         \* (node_id, id) pairs
    Deliveries,   \* request messages handed to the service
    Free          \* no entry under this key

VARIABLES
    ledger,       \* ledger[k]: Free or the entry under key k
    executed      \* deliveries whose handler was started

ledgerVars == <<ledger, executed>>

Entry == [holder : Deliveries, closed : BOOLEAN]

LedgerInit ==
    /\ ledger = [k \in Keys |-> Free]
    /\ executed = {}

Holds(d, k) == ledger[k] # Free /\ ledger[k].holder = d

(* A first delivery opens an entry under a free key.                       *)
Accept(d, k) ==
    /\ ledger[k] = Free
    /\ \A j \in Keys : ~ Holds(d, j)
    /\ d \notin executed
    /\ ledger' = [ledger EXCEPT ![k] = [holder |-> d, closed |-> FALSE]]
    /\ UNCHANGED executed

Execute(d) ==
    /\ d \notin executed
    /\ \E k \in Keys : Holds(d, k)
    /\ executed' = executed \cup {d}
    /\ UNCHANGED ledger

Close(k) ==
    /\ ledger[k] # Free
    /\ ~ ledger[k].closed
    /\ ledger' = [ledger EXCEPT ![k] = [holder |-> @.holder, closed |-> TRUE]]
    /\ UNCHANGED executed

(* Retention drops any set of closed entries at once.                      *)
Forget(S) ==
    /\ \A k \in S : ledger[k] # Free /\ ledger[k].closed
    /\ ledger' = [k \in Keys |-> IF k \in S THEN Free ELSE ledger[k]]
    /\ UNCHANGED executed

LedgerNext ==
    \/ \E d \in Deliveries, k \in Keys : Accept(d, k)
    \/ \E d \in Deliveries : Execute(d)
    \/ \E k \in Keys : Close(k)
    \/ \E S \in SUBSET Keys : Forget(S)

LedgerSpec == LedgerInit /\ [][LedgerNext]_ledgerVars

=============================================================================
