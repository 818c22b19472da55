--------------------------- MODULE MCPeerRegistry ---------------------------
(***************************************************************************)
(* Instances of PeerRegistry for TLC.                                      *)
(***************************************************************************)
EXTENDS PeerRegistry, TLC

CONSTANTS n1, n2

TwoNodes == {n1, n2}
Symmetry == Permutations(Node)
=============================================================================
