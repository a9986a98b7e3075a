---------------------------- MODULE MCServiceRun ----------------------------
(***************************************************************************)
(* Constants for model checking ServiceRun: a base that creeps away needs  *)
(* three positions, each within reach of the next and not of the third.    *)
(***************************************************************************)
EXTENDS ServiceRun

MCPositions == 0..2

=============================================================================
