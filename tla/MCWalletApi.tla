---------------------------- MODULE MCWalletApi ----------------------------
(***************************************************************************)
(* Instances of WalletApi for TLC.                                         *)
(***************************************************************************)
EXTENDS WalletApi

CONSTANTS c1, c2, c3

TwoCalls == {c1, c2}
ThreeCalls == {c1, c2, c3}
=============================================================================
