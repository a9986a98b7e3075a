---------------------------- MODULE MCTakBridge -----------------------------
(***************************************************************************)
(* Constants for model checking TakBridge: one field node and the base.    *)
(***************************************************************************)
EXTENDS TakBridge

CONSTANTS n1, base

MCNodes == {n1}
MCEntities == {n1, base}

=============================================================================
