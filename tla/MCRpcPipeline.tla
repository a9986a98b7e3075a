--------------------------- MODULE MCRpcPipeline ----------------------------
(***************************************************************************)
(* Constants for model checking RpcPipeline.                               *)
(***************************************************************************)
EXTENDS RpcPipeline, TLC

CONSTANTS n1, n2, i1, i2, d1, d2, d3

MCTwoNodes == {n1, n2}
MCOneNode == {n1}
MCOneId == {i1}
MCTwoIds == {i1, i2}
MCThree == {d1, d2, d3}
MCTwo == {d1, d2}
MCTypes == {"echo", "nosuch"}
MCRegistered == {"echo"}

(* Deliveries, nodes and ids are each interchangeable.                     *)
MCSymmetry == Permutations(Deliveries) \cup Permutations(Nodes) \cup Permutations(Ids)

=============================================================================
