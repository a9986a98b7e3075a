----------------------------- MODULE MCStoreOpen -----------------------------
(***************************************************************************)
(* Constants for model checking StoreOpen: the service and two commands.   *)
(***************************************************************************)
EXTENDS StoreOpen, TLC

CONSTANTS service, initdb, purge

MCOpeners == {service, initdb, purge}

MCSymmetry == Permutations(MCOpeners)

=============================================================================
