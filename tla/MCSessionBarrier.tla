-------------------------- MODULE MCSessionBarrier --------------------------
(***************************************************************************)
(* Instances of SessionBarrier for TLC.                                    *)
(***************************************************************************)
EXTENDS SessionBarrier, TLC

CONSTANTS n1, n2, n3

TwoNodes == {n1, n2}
ThreeNodes == {n1, n2, n3}
Symmetry == Permutations(Node)
=============================================================================
