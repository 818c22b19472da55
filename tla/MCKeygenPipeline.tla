-------------------------- MODULE MCKeygenPipeline --------------------------
(***************************************************************************)
(* Instances of KeygenPipeline for TLC.                                    *)
(***************************************************************************)
EXTENDS KeygenPipeline, TLC

CONSTANTS n1, n2, r1, r2, ecdsa, eddsa

Nodes == {n1, n2}
OneRequest == {r1}
TwoRequests == {r1, r2}
OneCurve == {ecdsa}
BothCurves == {ecdsa, eddsa}
Symmetry == Permutations(Node) \cup Permutations(Curve)
=============================================================================
