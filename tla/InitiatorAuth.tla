--------------------------- MODULE InitiatorAuth ---------------------------
(***************************************************************************)
(* The checks of pkg/identity/identity.go on the message of an initiator,  *)
(* as operators.  A signature is a record of the key that made it and of   *)
(* the bytes it is over; the arithmetic of Ed25519 and P-256 is taken to   *)
(* be correct, which fields a signature covers and which signatures are    *)
(* demanded is what the code decides.                                      *)
(***************************************************************************)
CONSTANTS
  initiatorAlgorithm,  \* event_initiator_algorithm
  authConfig           \* Enabled, RequiredAuthorizers, AuthorizerPublicKeys

Algorithms == {"ed25519", "p256"}

\* A node whose configuration names another algorithm does not start: see
\* loadInitiatorKeys, and the Fatal calls of loadAuthorizationConfig.
ASSUME ConfigAssumption ==
  /\ initiatorAlgorithm \in Algorithms
  /\ authConfig.Enabled \in BOOLEAN
  /\ authConfig.RequiredAuthorizers \subseteq STRING
  /\ \A id \in DOMAIN authConfig.AuthorizerPublicKeys :
       authConfig.AuthorizerPublicKeys[id] \in Algorithms

InitiatorSignature == [key : STRING, over : STRING]

AuthorizerSignature ==
  [AuthorizerID : STRING, key : STRING,
   over : [InitiatorRaw : STRING, InitiatorSig : InitiatorSignature]]

\* The one key that loadInitiatorKeys puts into the store.
initiatorKey == [Algorithm |-> initiatorAlgorithm,
                 P256 |-> initiatorAlgorithm = "p256"]

\* The keys loadAuthorizationConfig has parsed.
cachedAuthorizerKeys ==
  IF authConfig.Enabled THEN DOMAIN authConfig.AuthorizerPublicKeys ELSE {}

NoSignature == [key |-> "none", over |-> "none"]

Signed(sig, key, over) == sig.key = key /\ sig.over = over

verifyEd25519(msg) ==
  msg.Signature # NoSignature /\ Signed(msg.Signature, "initiator", msg.Raw)

verifyP256(msg) == initiatorKey.P256 /\ Signed(msg.Signature, "initiator", msg.Raw)

VerifyInitiatorMessage(msg) ==
  \/ initiatorKey.Algorithm = "ed25519" /\ verifyEd25519(msg)
  \/ initiatorKey.Algorithm = "p256" /\ verifyP256(msg)

\* An authorizer signs the message together with the initiator's signature.
ComposeAuthorizerRaw(msg) == [InitiatorRaw |-> msg.Raw, InitiatorSig |-> msg.Signature]

verifyAuthorizerSignature(raw, sig) ==
  sig.AuthorizerID \in cachedAuthorizerKeys /\ Signed(sig, sig.AuthorizerID, raw)

RequiredPresent(msg) ==
  authConfig.RequiredAuthorizers \subseteq
    {sig.AuthorizerID : sig \in msg.AuthorizerSignatures}

MutAuthorizeInitiatorMessage(msg) == ~authConfig.Enabled \/ RequiredPresent(msg)

\* Every required authorizer is there, and every signature that is there is
\* verified, the ones nobody requires too.
AuthorizeInitiatorMessage(msg) ==
  authConfig.Enabled =>
    /\ RequiredPresent(msg)
    /\ \A sig \in msg.AuthorizerSignatures :
         verifyAuthorizerSignature(ComposeAuthorizerRaw(msg), sig)

=============================================================================
