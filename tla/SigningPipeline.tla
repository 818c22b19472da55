-------------------------- MODULE SigningPipeline --------------------------
(***************************************************************************)
(* The life of signing requests for ONE wallet.                            *)
(*                                                                         *)
(* The stream and the signing consumer (pkg/eventconsumer/sign_consumer.go)*)
(* follow the discipline of KeygenPipeline; other than there, a request    *)
(* whose deliveries are used up is answered by the timeout consumer        *)
(* (timeout_consumer.go).  handleSigningEvent of the event consumer        *)
(* drops an event that is not authentic without a word, takes the entry of *)
(* activeSessions for good, chooses the committee from its own view of the *)
(* ready peers and leaves signing to a goroutine without a timeout         *)
(* (pkg/mpc/ecdsa_signing_session.go, eddsa_signing_session.go).           *)
(*                                                                         *)
(* The topics of a session are made of the wallet and the transaction, so  *)
(* that sessions of different attempts of one request hear each other.     *)
(* The TSS library is external: a party may finish once it has heard the   *)
(* party of every member of its committee, it may raise an error, and it   *)
(* may never finish.                                                       *)
(***************************************************************************)
EXTENDS Integers, FiniteSets, InitiatorAuth

CONSTANTS
  Node,          \* the nodes of the cluster
  Participants,  \* the nodes that hold a share of the wallet (key info)
  Threshold,     \* t of the wallet: t + 1 parties sign
  Request,       \* signing requests, each for a transaction of its own
  Message,       \* the contents a client may give a request
  Consumers,     \* nodes that consume: waitForSufficientPeers has returned
  Slots,         \* max_concurrent_signing
  MaxDeliver,    \* deliveries JetStream makes of one message
  MaxAttempts,   \* bound: events published to the nodes
  MaxFaults      \* bound: crashes, failing calls and TSS errors, together

ASSUME NodeAssumption ==
  IsFiniteSet(Node) /\ Participants \subseteq Node /\ Consumers \subseteq Node
ASSUME MessageAssumption ==
  Message \subseteq
    [KeyType : STRING, Raw : STRING, Signature : InitiatorSignature,
     AuthorizerSignatures : SUBSET AuthorizerSignature]
ASSUME BoundAssumption ==
  /\ Threshold \in Nat /\ Slots \in Nat \ {0} /\ MaxDeliver \in Nat \ {0}
  /\ MaxAttempts \in Nat /\ MaxFaults \in Nat

VARIABLES
  up,          \* up[n]: the process of n runs
  message,     \* message[r]: the state of a request in the stream
  request,     \* request[r]: its contents, a set with at most one member
  deliveries,  \* deliveries[r]: how often it has been delivered
  inbox,       \* inbox[n][r]: deliveries of r whose callback has not begun
  attempts,    \* how many attempts have been published
  origin,      \* origin[a]: the request attempt a was made of
  waiting,     \* waiting[n]: the attempt n's signing consumer waits for, or 0
  advisory,    \* advisory[n]: MAX_DELIVERIES advisories n has not handled
  phase,       \* phase[n][a]: how far n has come with attempt a
  committee,   \* committee[n][a]: the parties of n's session
  probed,      \* probed[n][a]: peers the barrier has found subscribed
  heard,       \* heard[n][a]: peers whose party has been heard
  failing,     \* failing[n][a]: an error waits in ErrCh
  stopped,     \* stopped[n][a]: doneCh is closed
  active,      \* active[n]: requests with an entry in activeSessions
  reply,       \* attempts with a reply in the inbox of the waiting consumer
  result,      \* result[a]: the result in the result queue for attempt a
  refused,     \* requests with an error under the key of the bare txID
  lost,        \* requests with a result that could not be enqueued
  signers,     \* signers[r]: nodes whose party has started on r
  faults       \* bounded by MaxFaults

streamVars == <<message, request, deliveries, inbox, attempts, origin, waiting, advisory>>
runVars == <<phase, committee, probed, heard, failing, stopped, active, signers>>
queueVars == <<reply, result, refused, lost>>
vars == <<up, faults, streamVars, runVars, queueVars>>

Attempt == 1..MaxAttempts

\* none: not received; queued: in signingMsgBuffer; barrier: in
\* WaitForPeersReady; signing: Sign runs; signed: the result is enqueued and
\* the session closed; stuck: nothing runs but the subscriptions remain;
\* ended: no session.
Phases == {"none", "queued", "barrier", "signing", "signed", "stuck", "ended"}

Subscribed == {"barrier", "signing", "stuck"}

NoResult == [kind |-> "none", by |-> {}]
ErrorResult(n) == [kind |-> "error", by |-> {n}]
Signature(k, n) == [kind |-> k, by |-> {n}]

Fault == faults < MaxFaults /\ faults' = faults + 1

\* The topics ComposeBroadcastTopic and ComposeDirectTopic of a session name
\* the wallet and the transaction, never the SessionID.
SameTopics(a, b) == origin[a] = origin[b]

-----------------------------------------------------------------------------
Init ==
  /\ up = [n \in Node |-> TRUE]
  /\ message = [r \in Request |-> "absent"]
  /\ request = [r \in Request |-> {}]
  /\ deliveries = [r \in Request |-> 0]
  /\ inbox = [n \in Node |-> [r \in Request |-> 0]]
  /\ attempts = 0
  /\ origin = [a \in Attempt |-> {}]
  /\ waiting = [n \in Node |-> 0]
  /\ advisory = [n \in Node |-> {}]
  /\ phase = [n \in Node |-> [a \in Attempt |-> "none"]]
  /\ committee = [n \in Node |-> [a \in Attempt |-> {}]]
  /\ probed = [n \in Node |-> [a \in Attempt |-> {}]]
  /\ heard = [n \in Node |-> [a \in Attempt |-> {}]]
  /\ failing = [n \in Node |-> [a \in Attempt |-> FALSE]]
  /\ stopped = [n \in Node |-> [a \in Attempt |-> FALSE]]
  /\ active = [n \in Node |-> {}]
  /\ reply = {}
  /\ result = [a \in Attempt |-> NoResult]
  /\ refused = {}
  /\ lost = {}
  /\ signers = [r \in Request |-> {}]
  /\ faults = 0

-----------------------------------------------------------------------------
(* The stream of requests and the signing consumer.                        *)

\* SignTransaction of the client signs the message and publishes it.
SignTransaction(r, m) ==
  /\ message[r] = "absent"
  /\ message' = [message EXCEPT ![r] = "stored"]
  /\ request' = [request EXCEPT ![r] = {m}]
  /\ UNCHANGED <<up, faults, deliveries, inbox, attempts, origin, waiting,
                 advisory, runVars, queueVars>>

\* Run: a signing consumer that has seen t + 1 ready peers once shares the
\* durable consumer; at most MaxAckPending messages are unacknowledged.
Deliver(n, r) ==
  /\ up[n] /\ n \in Consumers /\ message[r] = "stored"
  /\ Cardinality({q \in Request : message[q] = "delivered"}) < Slots
  /\ message' = [message EXCEPT ![r] = "delivered"]
  /\ deliveries' = [deliveries EXCEPT ![r] = @ + 1]
  /\ inbox' = [inbox EXCEPT ![n][r] = @ + 1]
  /\ UNCHANGED <<up, faults, request, attempts, origin, waiting, advisory,
                 runVars, queueVars>>

InProgress(r) == \E n \in Node : up[n] /\ waiting[n] # 0 /\ r \in origin[waiting[n]]

MutRedeliver(r) ==
  /\ message' = [message EXCEPT ![r] =
       IF @ # "delivered" THEN @
       ELSE IF deliveries[r] < MaxDeliver THEN "stored" ELSE "exhausted"]
  /\ UNCHANGED <<advisory, lost>>

MutRedeliverOnceMore(r) ==
  /\ message' = [message EXCEPT ![r] =
       IF @ # "delivered" THEN @
       ELSE IF deliveries[r] <= MaxDeliver THEN "stored" ELSE "exhausted"]
  /\ UNCHANGED <<advisory, lost>>

\* A message that is not acknowledged goes back to the stream.  When its
\* deliveries are used up JetStream sends an advisory to the nodes that run.
Redeliver(r) ==
  /\ message' = [message EXCEPT ![r] =
       IF @ # "delivered" THEN @
       ELSE IF deliveries[r] < MaxDeliver THEN "stored" ELSE "exhausted"]
  /\ IF message'[r] = "exhausted" /\ message[r] # "exhausted"
     THEN /\ advisory' = [n \in Node |-> IF up[n] THEN advisory[n] \cup {r} ELSE advisory[n]]
          /\ lost' = IF \E n \in Node : up[n] THEN lost ELSE lost \cup {r}
     ELSE UNCHANGED <<advisory, lost>>

Acknowledge(r) == message' = [message EXCEPT ![r] = "acked"]

\* AckWait expires for a message in the buffer of a busy consumer, or whose
\* consumer has died.
AckWaitExpires(r) ==
  /\ message[r] = "delivered" /\ ~InProgress(r)
  /\ Redeliver(r)
  /\ UNCHANGED <<up, faults, request, deliveries, inbox, attempts, origin,
                 waiting, runVars, reply, result, refused>>

TakeFromInbox(n, r) ==
  /\ up[n] /\ inbox[n][r] > 0 /\ waiting[n] = 0
  /\ inbox' = [inbox EXCEPT ![n][r] = @ - 1]

MutHandleSigningError(r) == UNCHANGED refused

\* handleSigningError: the client sends no SessionID, so that the key is that
\* of the bare transaction.
handleSigningError(r) == refused' = refused \cup {r}

\* handleSigningEvent of the signing consumer, first part: the message cannot
\* be decoded or too few peers are ready.  An error that cannot be enqueued is
\* logged, an Ack that fails is ignored.
RejectRequest(n, r) ==
  /\ TakeFromInbox(n, r)
  /\ \/ handleSigningError(r) /\ Acknowledge(r) /\ UNCHANGED <<lost, faults>>
     \/ lost' = lost \cup {r} /\ Acknowledge(r) /\ Fault /\ UNCHANGED refused
     \/ handleSigningError(r) /\ Fault /\ UNCHANGED <<message, lost>>
  /\ UNCHANGED <<up, request, deliveries, attempts, origin, waiting, advisory,
                 runVars, reply, result>>

\* The inbox cannot be subscribed or the event cannot be published: NAK.
PublishFails(n, r) ==
  /\ TakeFromInbox(n, r) /\ Fault
  /\ Redeliver(r)
  /\ UNCHANGED <<up, request, deliveries, attempts, origin, waiting, runVars,
                 reply, result, refused>>

\* Second part: publish the event with a fresh SessionID and a reply inbox.
\* Core NATS delivers it at most once to each node that runs.
PublishEvent(n, r) ==
  /\ TakeFromInbox(n, r)
  /\ attempts < MaxAttempts
  /\ attempts' = attempts + 1
  /\ origin' = [origin EXCEPT ![attempts'] = {r}]
  /\ waiting' = [waiting EXCEPT ![n] = attempts']
  /\ \E missed \in SUBSET {m \in Node : up[m]} :
       /\ IF missed = {} THEN UNCHANGED faults ELSE Fault
       /\ phase' = [m \in Node |-> [phase[m] EXCEPT
            ![attempts'] = IF up[m] /\ m \notin missed THEN "queued" ELSE "ended"]]
  /\ UNCHANGED <<up, message, request, deliveries, advisory, committee, probed,
                 heard, failing, stopped, active, signers, queueVars>>

\* The reply inbox is unsubscribed when handleSigningEvent returns.
Unsubscribe(n) ==
  waiting' = [waiting EXCEPT ![n] = 0] /\ reply' = reply \ {waiting[n]}

\* Third part: acknowledge on the first reply, whoever sent it.
AckOnReply(n) ==
  /\ up[n] /\ waiting[n] \in reply
  /\ \E r \in origin[waiting[n]] : Acknowledge(r)
  /\ Unsubscribe(n)
  /\ UNCHANGED <<up, faults, request, deliveries, inbox, attempts, origin,
                 advisory, runVars, result, refused, lost>>

\* The Ack fails, which is only logged.
AckFails(n) ==
  /\ up[n] /\ waiting[n] \in reply /\ Fault
  /\ Unsubscribe(n)
  /\ UNCHANGED <<up, message, request, deliveries, inbox, attempts, origin,
                 advisory, runVars, result, refused, lost>>

\* No reply within signingResponseTimeout: NAK.
NakOnTimeout(n) ==
  /\ up[n] /\ waiting[n] # 0 /\ waiting[n] \notin reply
  /\ \E r \in origin[waiting[n]] : Redeliver(r)
  /\ Unsubscribe(n)
  /\ UNCHANGED <<up, faults, request, deliveries, inbox, attempts, origin,
                 runVars, result, refused>>

\* The timeout consumer of n: the error goes under the key of the bare
\* transaction too, so that the copies of the advisory that other nodes hold
\* add nothing; a message that has been acknowledged in the meantime cannot be
\* read any more.
HandleAdvisory(n, r) ==
  /\ up[n] /\ r \in advisory[n]
  /\ \/ /\ message[r] = "exhausted" /\ refused' = refused \cup {r}
        /\ advisory' = [m \in Node |-> advisory[m] \ {r}]
        /\ UNCHANGED <<lost, faults>>
     \/ /\ message[r] = "exhausted" /\ lost' = lost \cup {r} /\ Fault
        /\ advisory' = [advisory EXCEPT ![n] = @ \ {r}]
        /\ UNCHANGED refused
     \/ /\ message[r] = "acked"
        /\ advisory' = [advisory EXCEPT ![n] = @ \ {r}]
        /\ UNCHANGED <<refused, lost, faults>>
  /\ UNCHANGED <<up, message, request, deliveries, inbox, attempts, origin,
                 waiting, runVars, reply, result>>

-----------------------------------------------------------------------------
(* handleSigningEvent of the event consumer on node n for attempt a.       *)

MutEnqueue(a, res) ==
  result' = [result EXCEPT ![a] = IF @ = NoResult /\ res.kind # "error" THEN res ELSE @]

\* JetStream keeps the first message with an idempotency key, and that key is
\* made of the transaction and the SessionID, the same on every node.
Enqueue(a, res) == result' = [result EXCEPT ![a] = IF @ = NoResult THEN res ELSE @]

\* sendReplyToRemoveMsg: once the consumer has stopped waiting its inbox has
\* been unsubscribed.
Reply(a) == reply' = reply \cup {b \in {a} : \E n \in Node : waiting[n] = b}

\* handleSigningSessionError: a result that cannot be enqueued and a reply
\* that cannot be published are logged.
handleSigningSessionError(n, a) ==
  \/ Enqueue(a, ErrorResult(n)) /\ Reply(a) /\ UNCHANGED <<lost, faults>>
  \/ Enqueue(a, ErrorResult(n)) /\ Fault /\ UNCHANGED <<reply, lost>>
  \/ lost' = lost \cup origin[a] /\ Reply(a) /\ Fault /\ UNCHANGED result

\* What a session that does not sign any more knew of its peers is of no use.
Forget(n, a) ==
  /\ committee' = [committee EXCEPT ![n][a] = {}]
  /\ probed' = [probed EXCEPT ![n][a] = {}]
  /\ heard' = [heard EXCEPT ![n][a] = {}]

GoTo(n, a, p) == phase' = [phase EXCEPT ![n][a] = p]

\* Slots of the semaphore: a handler holds one until Sign has been started.
Handling(n) == {a \in Attempt : phase[n][a] = "barrier"}

Content(a) == UNION {request[r] : r \in origin[a]}

Authentic(a) ==
  \A m \in Content(a) : VerifyInitiatorMessage(m) /\ AuthorizeInitiatorMessage(m)

TakeEvent(n, a) ==
  /\ up[n] /\ phase[n][a] = "queued" /\ Cardinality(Handling(n)) < Slots

tryAddSession(n, a) ==
  /\ origin[a] \cap active[n] = {}
  /\ active' = [active EXCEPT ![n] = @ \cup origin[a]]

\* Neither an error result nor a reply.
DropUnauthentic(n, a) ==
  /\ TakeEvent(n, a) /\ ~Authentic(a)
  /\ GoTo(n, a, "ended")
  /\ UNCHANGED <<up, faults, streamVars, committee, probed, heard, failing,
                 stopped, active, signers, queueVars>>

\* The transaction has an entry in activeSessions already, from this or from
\* an earlier attempt.
RefuseDuplicate(n, a) ==
  /\ TakeEvent(n, a) /\ Authentic(a) /\ origin[a] \cap active[n] # {}
  /\ handleSigningSessionError(n, a)
  /\ GoTo(n, a, "ended")
  /\ UNCHANGED <<up, streamVars, committee, probed, heard, failing, stopped,
                 active, signers, refused>>

getReadyPeersForSession(ready) == Participants \cap ready

Sufficient(c) == Cardinality(c) >= Threshold + 1

ensureNodeIsParticipant(n) == n \in Participants

\* Init of the sessions: the committee is compared with the key info again.
EcdsaInit(m, c) == m.KeyType = "secp256k1" /\ Sufficient(c \cap Participants)
EddsaInit(m, c) == m.KeyType = "ed25519" /\ Sufficient(c \cap Participants)

\* CreateSigningSession or Init fails: the key type, too few ready peers, or
\* a key info or a share that cannot be read.  The entry stays.
RefuseSession(n, a) ==
  /\ TakeEvent(n, a) /\ Authentic(a) /\ tryAddSession(n, a)
  /\ \/ /\ \/ \E m \in Content(a) : m.KeyType \notin {"secp256k1", "ed25519"}
           \/ \E ready \in SUBSET Node :
                n \in ready /\ ~Sufficient(getReadyPeersForSession(ready))
        /\ handleSigningSessionError(n, a)
     \/ /\ Fault /\ Enqueue(a, ErrorResult(n)) /\ Reply(a)
        /\ UNCHANGED lost
  /\ GoTo(n, a, "ended")
  /\ UNCHANGED <<up, streamVars, committee, probed, heard, failing, stopped,
                 signers, refused>>

\* ErrNotInParticipantList: skip without a reply.  The entry stays.
SkipNotParticipant(n, a) ==
  /\ TakeEvent(n, a) /\ Authentic(a) /\ tryAddSession(n, a)
  /\ ~ensureNodeIsParticipant(n)
  /\ \E ready \in SUBSET Node :
       n \in ready /\ Sufficient(getReadyPeersForSession(ready))
  /\ \A m \in Content(a) : m.KeyType \in {"secp256k1", "ed25519"}
  /\ GoTo(n, a, "ended")
  /\ UNCHANGED <<up, faults, streamVars, committee, probed, heard, failing,
                 stopped, signers, queueVars>>

\* The committee is what n believes to be ready; other nodes have their own
\* view.  ListenToIncomingMessageAsync subscribes the session.
CreateSigningSession(n, a) ==
  /\ TakeEvent(n, a) /\ Authentic(a) /\ tryAddSession(n, a)
  /\ ensureNodeIsParticipant(n)
  /\ \E ready \in SUBSET Node :
       LET c == getReadyPeersForSession(ready) IN
       /\ n \in ready /\ Sufficient(c)
       /\ \E m \in Content(a) : EcdsaInit(m, c) \/ EddsaInit(m, c)
       /\ committee' = [committee EXCEPT ![n][a] = c]
  /\ GoTo(n, a, "barrier")
  /\ UNCHANGED <<up, faults, streamVars, probed, heard, failing, stopped,
                 signers, queueVars>>

\* A peer answers if any session with the same topics is subscribed there.
ProbeBarrier(n, a, p) ==
  /\ up[n] /\ phase[n][a] = "barrier" /\ p \in committee[n][a] \ ({n} \cup probed[n][a])
  /\ up[p] /\ \E b \in Attempt : SameTopics(a, b) /\ phase[p][b] \in Subscribed
  /\ probed' = [probed EXCEPT ![n][a] = @ \cup {p}]
  /\ UNCHANGED <<up, faults, streamVars, phase, committee, heard, failing,
                 stopped, active, signers, queueVars>>

BarrierPassed(n, a) == probed[n][a] = committee[n][a] \ {n}

\* PeerReadyTimeout, or the session has been stopped while a peer did not
\* answer: an error result, and nobody calls Stop or Close.
BarrierFails(n, a) ==
  /\ up[n] /\ phase[n][a] = "barrier" /\ ~BarrierPassed(n, a)
  /\ handleSigningSessionError(n, a)
  /\ GoTo(n, a, "stuck")
  /\ Forget(n, a)
  /\ UNCHANGED <<up, streamVars, failing, stopped, active, signers, refused>>

\* The party starts and sends its messages; sessions with the same topics and
\* the same committee make use of them.
StartSigning(n, a) ==
  /\ up[n] /\ phase[n][a] = "barrier" /\ BarrierPassed(n, a)
  /\ GoTo(n, a, "signing")
  /\ probed' = [probed EXCEPT ![n][a] = {}]
  /\ signers' = [r \in Request |-> IF r \in origin[a] THEN signers[r] \cup {n} ELSE signers[r]]
  /\ heard' = [m \in Node |-> [b \in Attempt |->
       IF /\ m # n /\ SameTopics(a, b) /\ phase[m][b] \in {"barrier", "signing"}
          /\ committee[m][b] = committee[n][a]
       THEN heard[m][b] \cup {n} ELSE heard[m][b]]]
  /\ UNCHANGED <<up, faults, streamVars, committee, failing, stopped, active,
                 queueVars>>

MutStop(n, a) == UNCHANGED stopped

\* Stop closes doneCh; it does not unsubscribe.
Stop(n, a) == stopped' = [stopped EXCEPT ![n][a] = TRUE]

\* endCh delivers (external).
PartyFinished(n, a) ==
  phase[n][a] = "signing" /\ heard[n][a] = committee[n][a] \ {n}

\* Sign enqueues the result and closes the session, which stops it.  A
\* session that has been stopped may still take this case of the select.
Finish(n, a, kind) ==
  /\ up[n] /\ PartyFinished(n, a)
  /\ Enqueue(a, Signature(kind, n))
  /\ GoTo(n, a, "signed")
  /\ Stop(n, a)
  /\ Forget(n, a)
  /\ UNCHANGED <<up, faults, streamVars, failing, active, signers, reply,
                 refused, lost>>

\* R, S and the recovery id.
EcdsaSign(n, a) ==
  /\ \E m \in Content(a) : m.KeyType = "secp256k1"
  /\ Finish(n, a, "secp256k1")

\* The 64 bytes of an EdDSA signature.
EddsaSign(n, a) ==
  /\ \E m \in Content(a) : m.KeyType = "ed25519"
  /\ Finish(n, a, "ed25519")

\* onSuccess: the watcher ends and the reply is sent.
OnSuccess(n, a) ==
  /\ up[n] /\ phase[n][a] = "signed"
  /\ GoTo(n, a, "ended")
  /\ \/ Reply(a) /\ UNCHANGED faults
     \/ Fault /\ UNCHANGED reply
  /\ failing' = [failing EXCEPT ![n][a] = FALSE]
  /\ stopped' = [stopped EXCEPT ![n][a] = FALSE]
  /\ UNCHANGED <<up, streamVars, committee, probed, heard, active, signers,
                 result, refused, lost>>

\* The signature does not verify or the success cannot be enqueued: sendErr,
\* which gives up when the session has been stopped, and Sign returns.
SignFails(n, a) ==
  /\ up[n] /\ PartyFinished(n, a) /\ Fault
  /\ failing' = [failing EXCEPT ![n][a] = ~stopped[n][a]]
  /\ GoTo(n, a, "stuck")
  /\ Forget(n, a)
  /\ UNCHANGED <<up, streamVars, stopped, active, signers, queueVars>>

\* Messages reach n from the party of a peer that it cannot make use of.
Disturbed(n, a) ==
  \E m \in Node \ {n}, b \in Attempt :
    SameTopics(a, b) /\ phase[m][b] = "signing" /\ committee[m][b] # committee[n][a]

\* sendErr of the party or of a message that cannot be used: a fault of the
\* network or of a peer, or the message of a party it has no use for.
SessionError(n, a) ==
  /\ up[n] /\ phase[n][a] \in Subscribed /\ ~failing[n][a] /\ ~stopped[n][a]
  /\ IF Disturbed(n, a) THEN UNCHANGED faults ELSE Fault
  /\ failing' = [failing EXCEPT ![n][a] = TRUE]
  /\ UNCHANGED <<up, streamVars, phase, committee, probed, heard, stopped,
                 active, signers, queueVars>>

\* The watcher of handleSigningEvent answers with the error, stops the session
\* and ends.  It may also find the error of a session that has just succeeded.
WatchError(n, a) ==
  /\ up[n] /\ failing[n][a]
  /\ handleSigningSessionError(n, a)
  /\ failing' = [failing EXCEPT ![n][a] = FALSE]
  /\ Stop(n, a)
  /\ UNCHANGED <<up, streamVars, phase, committee, probed, heard, active,
                 signers, refused>>

\* Sign returns on doneCh; the subscriptions stay.
SignStopped(n, a) ==
  /\ up[n] /\ phase[n][a] = "signing" /\ stopped[n][a]
  /\ GoTo(n, a, "stuck")
  /\ Forget(n, a)
  /\ UNCHANGED <<up, faults, streamVars, failing, stopped, active, signers,
                 queueVars>>

\* cleanupStaleSessions: an entry is half an hour old.  The request has been
\* settled by then and every delivery of it has run into a timeout at the
\* latest, but Sign has none and may still be running.
cleanupStaleSessions(n, r) ==
  /\ up[n] /\ r \in active[n] /\ message[r] \in {"acked", "exhausted"}
  /\ ~InProgress(r) /\ \A m \in Node : inbox[m][r] = 0
  /\ \A a \in Attempt : r \in origin[a] => phase[n][a] \notin {"queued", "barrier"}
  /\ active' = [active EXCEPT ![n] = @ \ {r}]
  /\ UNCHANGED <<up, faults, streamVars, phase, committee, probed, heard,
                 failing, stopped, signers, queueVars>>

-----------------------------------------------------------------------------
(* Crash and restart: Badger and Consul survive, nothing else does.        *)

Crash(n) ==
  /\ up[n] /\ Fault
  /\ up' = [up EXCEPT ![n] = FALSE]
  /\ inbox' = [inbox EXCEPT ![n] = [r \in Request |-> 0]]
  /\ Unsubscribe(n)
  /\ advisory' = [advisory EXCEPT ![n] = {}]
  /\ phase' = [phase EXCEPT ![n] =
       [a \in Attempt |-> IF a <= attempts THEN "ended" ELSE "none"]]
  /\ committee' = [committee EXCEPT ![n] = [a \in Attempt |-> {}]]
  /\ probed' = [probed EXCEPT ![n] = [a \in Attempt |-> {}]]
  /\ heard' = [heard EXCEPT ![n] = [a \in Attempt |-> {}]]
  /\ failing' = [failing EXCEPT ![n] = [a \in Attempt |-> FALSE]]
  /\ stopped' = [stopped EXCEPT ![n] = [a \in Attempt |-> FALSE]]
  /\ active' = [active EXCEPT ![n] = {}]
  /\ UNCHANGED <<message, request, deliveries, attempts, origin, signers, result, refused,
                 lost>>

Restart(n) ==
  /\ ~up[n]
  /\ up' = [up EXCEPT ![n] = TRUE]
  /\ UNCHANGED <<faults, streamVars, runVars, queueVars>>

-----------------------------------------------------------------------------
Stream(r) ==
  \/ \E m \in Message : SignTransaction(r, m)
  \/ AckWaitExpires(r)
  \/ \E n \in Node : Deliver(n, r)

Consume(n) ==
  \/ \E r \in Request :
       \/ RejectRequest(n, r) \/ PublishFails(n, r) \/ PublishEvent(n, r)
       \/ HandleAdvisory(n, r) \/ cleanupStaleSessions(n, r)
  \/ AckOnReply(n) \/ AckFails(n) \/ NakOnTimeout(n)

Admit(n, a) ==
  \/ DropUnauthentic(n, a) \/ RefuseDuplicate(n, a) \/ RefuseSession(n, a)
  \/ SkipNotParticipant(n, a) \/ CreateSigningSession(n, a)

Barrier(n, a) ==
  \/ \E p \in Node : ProbeBarrier(n, a, p)
  \/ BarrierFails(n, a) \/ StartSigning(n, a)

Run(n, a) ==
  \/ EcdsaSign(n, a) \/ EddsaSign(n, a) \/ SignFails(n, a) \/ SignStopped(n, a)
  \/ OnSuccess(n, a) \/ SessionError(n, a) \/ WatchError(n, a)

Next ==
  \/ \E r \in Request : Stream(r)
  \/ \E n \in Node : Consume(n) \/ Crash(n) \/ Restart(n)
  \/ \E n \in Node, a \in Attempt : Admit(n, a) \/ Barrier(n, a) \/ Run(n, a)

Spec == Init /\ [][Next]_vars

(***************************************************************************)
(* What the goroutines and timers of a running node do by themselves, and  *)
(* a party that has heard all its peers.  Nothing promises that a peer     *)
(* answers the barrier, that it starts its party or that a node that has   *)
(* crashed comes back.  No step can be undone, so that fairness to a node  *)
(* as a whole is fairness to each of its goroutines.                       *)
(***************************************************************************)
Progress(n) ==
  \/ AckOnReply(n) \/ NakOnTimeout(n)
  \/ \E r \in Request : RejectRequest(n, r) \/ PublishEvent(n, r) \/ HandleAdvisory(n, r)
  \/ \E a \in Attempt :
       \/ Admit(n, a) \/ BarrierFails(n, a) \/ StartSigning(n, a)
       \/ EcdsaSign(n, a) \/ EddsaSign(n, a) \/ SignStopped(n, a)
       \/ OnSuccess(n, a) \/ WatchError(n, a)

Fairness ==
  /\ \A r \in Request : WF_vars(AckWaitExpires(r) \/ \E n \in Node : Deliver(n, r))
  /\ \A n \in Node : WF_vars(Progress(n))

FairSpec == Spec /\ Fairness

-----------------------------------------------------------------------------
(* Properties.                                                             *)

\* Every variable has the type the Go declarations give it.
TypeOK ==
  /\ up \in [Node -> BOOLEAN]
  /\ message \in [Request -> {"absent", "stored", "delivered", "acked", "exhausted"}]
  /\ request \in [Request -> SUBSET Message]
  /\ deliveries \in [Request -> 0..MaxDeliver]
  /\ inbox \in [Node -> [Request -> 0..MaxDeliver]]
  /\ attempts \in 0..MaxAttempts
  /\ origin \in [Attempt -> SUBSET Request]
  /\ waiting \in [Node -> 0..MaxAttempts]
  /\ advisory \in [Node -> SUBSET Request]
  /\ phase \in [Node -> [Attempt -> Phases]]
  /\ committee \in [Node -> [Attempt -> SUBSET Participants]]
  /\ probed \in [Node -> [Attempt -> SUBSET Node]]
  /\ heard \in [Node -> [Attempt -> SUBSET Node]]
  /\ failing \in [Node -> [Attempt -> BOOLEAN]]
  /\ stopped \in [Node -> [Attempt -> BOOLEAN]]
  /\ active \in [Node -> SUBSET Request]
  /\ reply \subseteq Attempt
  /\ result \in [Attempt -> [kind : {"none", "error", "secp256k1", "ed25519"},
                             by : SUBSET Node]]
  /\ refused \subseteq Request
  /\ lost \subseteq Request
  /\ signers \in [Request -> SUBSET Node]
  /\ faults \in 0..MaxFaults

\* Requests a client can read a result of.
Answered ==
  {r \in Request : r \in refused \/ \E a \in Attempt : r \in origin[a] /\ result[a] # NoResult}

\* A signature that a client receives was asked for: the message of the
\* initiator and the signature of every required authorizer are over this very
\* transaction, t + 1 participants have started a party for it, each on its
\* own check, and it is of the curve asked for.
SignatureIsAuthorised ==
  \A a \in Attempt : result[a].kind \notin {"none", "error"} =>
    \A r \in origin[a] :
      /\ Cardinality(signers[r]) >= Threshold + 1
      /\ \A m \in request[r] :
           /\ m.KeyType = result[a].kind
           /\ m.Signature = [key |-> "initiator", over |-> m.Raw]
           /\ authConfig.Enabled => \A id \in authConfig.RequiredAuthorizers :
                \E sig \in m.AuthorizerSignatures :
                  /\ sig.AuthorizerID = id /\ sig.key = id
                  /\ sig.over = [InitiatorRaw |-> m.Raw, InitiatorSig |-> m.Signature]

\* An error makes Sign return "instead of leaking forever on outCh/endCh"
\* (handleSigningEvent), although the watcher, the party and the barrier run
\* on their own.
FailedSessionStops ==
  \A n \in Node, a \in Attempt :
    (phase[n][a] = "signing" /\ failing[n][a]) ~> phase[n][a] # "signing"

\* The signing pipeline implements the promise a client relies on.
Service == INSTANCE RequestService WITH
  submitted <- {r \in Request : message[r] # "absent"},
  answered <- Answered,
  unreported <- lost,
  retired <- {r \in Request : message[r] = "acked"}

\* The stream gives up no request whose client has no result to read, and no
\* answer is taken back: on every path of handleSigningEvent and of the signing
\* consumer the Ack comes after the result, through redeliveries, duplicate
\* refusals, late copies and crashes.
ImplementsRequestService == Service!Spec

\* Every request that is submitted is answered, if only by the timeout
\* consumer, as long as some node does not crash (MaxFaults is below the
\* number of nodes) and the result queue accepts the answer.
RequestIsAnswered == Service!EveryRequestIsAnswered

\* The comment on signingResponseTimeout says that "the event consumer always
\* finishes first and sends a reply before the signing consumer gives up".
\* The code does not keep this: see "Promises the code does not keep" in the README.
EventConsumerFinishes ==
  \A n \in Node, a \in Attempt : phase[n][a] = "signing" ~> phase[n][a] # "signing"
=============================================================================
