----------------------------- MODULE MCReshare -----------------------------
(***************************************************************************)
(* Instances of Reshare for TLC.                                           *)
(***************************************************************************)
EXTENDS Reshare

CONSTANTS n1, n2, n3, e1, e2

ThreeNodes == {n1, n2, n3}
FirstTwo == {n1, n2}
OneEvent == {e1}
TwoEvents == {e1, e2}

OneAuthorizer ==
  [Enabled |-> TRUE, RequiredAuthorizers |-> {"alice"},
   AuthorizerPublicKeys |-> [id \in {"alice"} |-> "p256"]]

ByInitiator == [key |-> "initiator", over |-> "reshare"]

Approval(raw) ==
  [key |-> "alice", over |-> [InitiatorRaw |-> raw, InitiatorSig |-> ByInitiator],
   AuthorizerID |-> "alice"]

Ask(id, nodes, raw) ==
  [SessionID |-> id, KeyType |-> "secp256k1", NodeIDs |-> nodes, NewThreshold |-> 1,
   Raw |-> "reshare", Signature |-> ByInitiator, AuthorizerSignatures |-> {Approval(raw)}]

\* n1 leaves the committee and n3 joins it.
Rotate == {Ask("s", {n2, n3}, "reshare")}

\* The other way round, a request without SessionID, and one whose approval is
\* of another request.
All ==
  {Ask("s", {n2, n3}, "reshare"), Ask("s", {n1, n2}, "reshare"),
   Ask("", {n2, n3}, "reshare"), Ask("s", {n2, n3}, "sign")}
=============================================================================
