------------------------- MODULE MCSigningPipeline -------------------------
(***************************************************************************)
(* Instances of SigningPipeline for TLC.                                   *)
(***************************************************************************)
EXTENDS SigningPipeline, TLC

CONSTANTS n1, n2, n3, r1

TwoNodes == {n1, n2}
ThreeNodes == {n1, n2, n3}
LastTwo == {n2, n3}
OneRequest == {r1}

OneAuthorizer ==
  [Enabled |-> TRUE, RequiredAuthorizers |-> {"alice"},
   AuthorizerPublicKeys |-> [id \in {"alice", "bob"} |-> "ed25519"]]

ByInitiator == [key |-> "initiator", over |-> "tx"]

By(id, over) == [key |-> id, over |-> over, AuthorizerID |-> id]

Ask(keyType, auths) ==
  [KeyType |-> keyType, Raw |-> "tx", Signature |-> ByInitiator,
   AuthorizerSignatures |-> auths]

OfThis == [InitiatorRaw |-> "tx", InitiatorSig |-> ByInitiator]
OfAnother == [InitiatorRaw |-> "tx0", InitiatorSig |-> ByInitiator]

Good == {Ask("secp256k1", {By("alice", OfThis)})}

\* A request for the other curve with a signature nobody demands, a key type
\* nobody knows, and a demanded signature over another transaction.
Others ==
  {Ask("ed25519", {By("alice", OfThis), By("bob", OfThis)}),
   Ask("sr25519", {By("alice", OfThis)}),
   Ask("secp256k1", {By("alice", OfAnother)})}

Symmetry == Permutations(Participants)
=============================================================================
