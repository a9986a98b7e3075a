---------------------------- MODULE MCNodeState -----------------------------
(***************************************************************************)
(* Constants for model checking NodeState.                                 *)
(***************************************************************************)
EXTENDS NodeState, TLC

CONSTANTS n1, r1, r2, r3, e1, e2

MCNodes == {n1}
MCRequests == {r1, r2, r3}
MCEvents == {e1, e2}
MCOneEvent == {e1}

(* Requests are interchangeable, and so are events.                        *)
MCSymmetry == Permutations(Requests) \cup Permutations(Events)

=============================================================================
