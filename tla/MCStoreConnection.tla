------------------------- MODULE MCStoreConnection --------------------------
(***************************************************************************)
(* Constants for model checking StoreConnection.                           *)
(***************************************************************************)
EXTENDS StoreConnection

CONSTANTS recv, comp, purge, seen, status

MCCalls == {recv, comp, purge}
MCTwoCalls == {recv, seen}
MCReaders == {status}

MCKind == [c \in Calls |->
              CASE c = recv  -> "received"
                [] c = comp  -> "completion"
                [] c = purge -> "purge"
                [] OTHER     -> "single"]

=============================================================================
