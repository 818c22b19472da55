--------------------------- MODULE KeygenPipeline ---------------------------
(***************************************************************************)
(* The life of the key generation requests of ONE wallet.                  *)
(*                                                                         *)
(* A client publishes requests to a JetStream stream.  The keygen consumer *)
(* of some node (pkg/eventconsumer/keygen_consumer.go) takes a request and *)
(* publishes it to every node as an attempt with a fresh SessionID and a   *)
(* reply inbox; it acknowledges the request when the first node replies.   *)
(* The event consumer of each node (pkg/eventconsumer/event_consumer.go)   *)
(* runs the attempt: it creates one session per curve                      *)
(* (pkg/mpc/ecdsa_keygen_session.go, eddsa_keygen_session.go), passes the  *)
(* readiness barrier, runs the TSS parties and publishes a result under an *)
(* idempotency key made of the SessionID.                                  *)
(*                                                                         *)
(* The TSS library is external: a party may finish once it has heard the   *)
(* party of the same attempt on every peer, and it may also never finish.  *)
(* Other wallets are not modelled; their events may keep one of this       *)
(* wallet waiting in the buffer of a node for as long as they please.      *)
(*                                                                         *)
(* An operator whose name begins with Mut is a plausible mistake in the    *)
(* definition that follows it: nothing uses it, and putting it in the      *)
(* place of that definition shows that a property notices.                 *)
(***************************************************************************)
EXTENDS Integers, FiniteSets

CONSTANTS
  Node,          \* the nodes of the cluster
  Curve,         \* the key types a wallet gets: ECDSA and EdDSA
  Request,       \* messages a client publishes, all for the same wallet
  Authentic,     \* the requests whose signatures pass verification
  Slots,         \* max_concurrent_keygen
  MaxDeliver,    \* deliveries JetStream makes of one message
  MaxAttempts,   \* bound: events published to the nodes
  MaxFaults,     \* bound: crashes and failing calls, taken together
  BlindReads     \* TRUE: reading the key info from Consul may fail

ASSUME NodeAssumption == IsFiniteSet(Node)
ASSUME CurveAssumption == Curve # {}
ASSUME AuthenticAssumption == Authentic \subseteq Request
ASSUME BoundAssumption ==
  /\ Slots \in Nat \ {0} /\ MaxDeliver \in Nat \ {0}
  /\ MaxAttempts \in Nat /\ MaxFaults \in Nat /\ BlindReads \in BOOLEAN

VARIABLES
  up,          \* up[n]: the process of n runs
  message,     \* message[r]: the state of a request in the stream
  deliveries,  \* deliveries[r]: how often it has been delivered
  inbox,       \* inbox[n]: deliveries whose callback has not begun
  attempts,    \* how many attempts have been published
  origin,      \* origin[a]: the request attempt a was made of
  waiting,     \* waiting[n]: the attempt n's keygen consumer waits for, or 0
  reply,       \* attempts some node has replied to
  handler,     \* handler[n][a]: how far n has come with attempt a
  session,     \* session[n][a][k]: the session of curve k
  probed,      \* probed[n][a][k]: peers the barrier has found subscribed
  heard,       \* heard[n][a][k]: peers whose party of a has been heard
  failed,      \* failed[n][a]: curves whose watcher received an error
  active,      \* active[n]: activeSessions has an entry for the wallet
  share,       \* share[n][k]: attempt of the key share in Badger, or 0
  keyInfo,     \* curves with a key info in Consul
  stored,      \* stored[n]: attempt of the stored creation result, or 0
  result,      \* result[a]: the result in the result queue for attempt a
  rejected,    \* requests answered with an error by a keygen consumer
  dropped,     \* requests whose rejection did not reach the result queue
  lost,        \* attempts with a result that could not be enqueued
  faults       \* bounded by MaxFaults

streamVars == <<message, deliveries, inbox, attempts, origin, waiting, rejected, dropped>>
runVars == <<handler, session, probed, heard, failed, active>>
diskVars == <<share, keyInfo, stored>>
queueVars == <<reply, result, lost>>
vars == <<up, faults, streamVars, runVars, diskVars, queueVars>>

Attempt == 1..MaxAttempts

Phases == {"none", "queued", "checked", "barrier", "generating", "storing", "ended"}

\* none: not created; listening: subscribed; started: GenerateKey runs;
\* shared: the share is in Badger; stuck: GenerateKey returned with an error,
\* the subscriptions remain; closed: Close has been called.
SessionStates == {"none", "listening", "started", "shared", "stuck", "closed"}

Subscribed == {"listening", "started", "shared", "stuck"}

NoResult == [kind |-> "none", key |-> 0]
ErrorResult == [kind |-> "error", key |-> 0]
Success(b) == [kind |-> "success", key |-> b]

Fault == faults < MaxFaults /\ faults' = faults + 1

getPeers(n) == Node \ {n}

-----------------------------------------------------------------------------
Init ==
  /\ up = [n \in Node |-> TRUE]
  /\ message = [r \in Request |-> "absent"]
  /\ deliveries = [r \in Request |-> 0]
  /\ inbox = [n \in Node |-> {}]
  /\ attempts = 0
  /\ origin = [a \in Attempt |-> {}]
  /\ waiting = [n \in Node |-> 0]
  /\ reply = {}
  /\ handler = [n \in Node |-> [a \in Attempt |-> "none"]]
  /\ session = [n \in Node |-> [a \in Attempt |-> [k \in Curve |-> "none"]]]
  /\ probed = [n \in Node |-> [a \in Attempt |-> [k \in Curve |-> {}]]]
  /\ heard = [n \in Node |-> [a \in Attempt |-> [k \in Curve |-> {}]]]
  /\ failed = [n \in Node |-> [a \in Attempt |-> {}]]
  /\ active = [n \in Node |-> FALSE]
  /\ share = [n \in Node |-> [k \in Curve |-> 0]]
  /\ keyInfo = {}
  /\ stored = [n \in Node |-> 0]
  /\ result = [a \in Attempt |-> NoResult]
  /\ rejected = {}
  /\ dropped = {}
  /\ lost = {}
  /\ faults = 0

-----------------------------------------------------------------------------
(* The stream of requests.                                                 *)

\* CreateWallet of the client publishes the request.
CreateWallet(r) ==
  /\ message[r] = "absent"
  /\ message' = [message EXCEPT ![r] = "stored"]
  /\ UNCHANGED <<up, faults, deliveries, inbox, attempts, origin, waiting,
                 rejected, dropped, runVars, diskVars, queueVars>>

\* JetStream hands a message to one of the nodes that share the consumer, if
\* fewer than MaxAckPending (max_concurrent_keygen) are unacknowledged.
Deliver(n, r) ==
  /\ up[n] /\ message[r] = "stored"
  /\ Cardinality({q \in Request : message[q] = "delivered"}) < Slots
  /\ message' = [message EXCEPT ![r] = "delivered"]
  /\ deliveries' = [deliveries EXCEPT ![r] = @ + 1]
  /\ inbox' = [inbox EXCEPT ![n] = @ \cup {r}]
  /\ UNCHANGED <<up, faults, attempts, origin, waiting, rejected, dropped,
                 runVars, diskVars, queueVars>>

MutReturned(r) == IF deliveries[r] <= MaxDeliver THEN "stored" ELSE "exhausted"

\* What becomes of a message that was not acknowledged.
Returned(r) == IF deliveries[r] < MaxDeliver THEN "stored" ELSE "exhausted"

MutInProgress(r) == TRUE

InProgress(r) == \E n \in Node : up[n] /\ waiting[n] # 0 /\ r \in origin[waiting[n]]

\* AckWait expires: nobody calls InProgress for a message that only sits in
\* the buffer of a busy consumer, or whose consumer has died.  A copy in a
\* buffer stays there.
AckWaitExpires(r) ==
  /\ message[r] = "delivered" /\ ~InProgress(r)
  /\ message' = [message EXCEPT ![r] = Returned(r)]
  /\ UNCHANGED <<up, faults, deliveries, inbox, attempts, origin, waiting,
                 rejected, dropped, runVars, diskVars, queueVars>>

Settle(r, s) == message' = [message EXCEPT ![r] = IF @ = "acked" THEN @ ELSE s]

TakeFromInbox(n, r) ==
  /\ up[n] /\ r \in inbox[n] /\ waiting[n] = 0
  /\ inbox' = [inbox EXCEPT ![n] = @ \ {r}]

Drop(r) == dropped' = dropped \cup ({r} \ rejected) /\ UNCHANGED rejected

\* The client sends no SessionID, so that the idempotency key of the error is
\* the wallet alone and JetStream drops a second one.
handleKeygenError(r) ==
  IF rejected = {} THEN rejected' = {r} /\ UNCHANGED dropped ELSE Drop(r)

\* handleKeygenEvent, first part: the message cannot be decoded or the peers
\* are not ready.  An error that cannot be enqueued is only logged, and an Ack
\* that fails is ignored.
RejectRequest(n, r) ==
  /\ TakeFromInbox(n, r)
  /\ \/ handleKeygenError(r) /\ Settle(r, "acked") /\ UNCHANGED faults
     \/ Drop(r) /\ Settle(r, "acked") /\ Fault
     \/ handleKeygenError(r) /\ UNCHANGED message /\ Fault
  /\ UNCHANGED <<up, deliveries, attempts, origin, waiting, runVars,
                 diskVars, queueVars>>

\* handleKeygenEvent: the inbox cannot be subscribed or the event cannot be
\* published, the message is NAKed.
PublishFails(n, r) ==
  /\ TakeFromInbox(n, r) /\ Fault
  /\ Settle(r, Returned(r))
  /\ UNCHANGED <<up, deliveries, attempts, origin, waiting, rejected, dropped,
                 runVars, diskVars, queueVars>>

\* handleKeygenEvent, second part: publish the event with a fresh SessionID.
\* Every node that runs puts it into its buffer, but core NATS delivers at
\* most once.
PublishEvent(n, r) ==
  /\ TakeFromInbox(n, r)
  /\ attempts < MaxAttempts
  /\ attempts' = attempts + 1
  /\ origin' = [origin EXCEPT ![attempts'] = {r}]
  /\ waiting' = [waiting EXCEPT ![n] = attempts']
  /\ \E missed \in SUBSET {m \in Node : up[m]} :
       /\ IF missed = {} THEN UNCHANGED faults ELSE Fault
       /\ handler' = [m \in Node |-> [handler[m] EXCEPT
            ![attempts'] = IF up[m] /\ m \notin missed THEN "queued" ELSE "ended"]]
  /\ UNCHANGED <<up, message, deliveries, rejected, dropped, session,
                 probed, heard, failed, active, diskVars, queueVars>>

\* handleKeygenEvent, third part: acknowledge on the first reply, whoever
\* sent it and whatever it says.
AckOnReply(n) ==
  /\ up[n] /\ waiting[n] \in reply
  /\ \E r \in origin[waiting[n]] : Settle(r, "acked")
  /\ waiting' = [waiting EXCEPT ![n] = 0]
  /\ UNCHANGED <<up, faults, deliveries, inbox, attempts, origin, rejected,
                 dropped, runVars, diskVars, queueVars>>

\* The Ack itself fails, which is only logged: AckWait will expire.
AckFails(n) ==
  /\ up[n] /\ waiting[n] \in reply
  /\ Fault
  /\ waiting' = [waiting EXCEPT ![n] = 0]
  /\ UNCHANGED <<up, message, deliveries, inbox, attempts, origin, rejected,
                 dropped, runVars, diskVars, queueVars>>

\* No reply within keygenResponseTimeout: NAK.
NakOnTimeout(n) ==
  /\ up[n] /\ waiting[n] # 0 /\ waiting[n] \notin reply
  /\ \E r \in origin[waiting[n]] : Settle(r, Returned(r))
  /\ waiting' = [waiting EXCEPT ![n] = 0]
  /\ UNCHANGED <<up, faults, deliveries, inbox, attempts, origin, rejected,
                 dropped, runVars, diskVars, queueVars>>

-----------------------------------------------------------------------------
(* handleKeyGenEvent on node n for attempt a.                              *)

MutEnqueue(a, res) ==
  result' = [result EXCEPT ![a] = IF @ = NoResult /\ res # ErrorResult THEN res ELSE @]

\* JetStream keeps the first message with an idempotency key.
Enqueue(a, res) ==
  result' = [result EXCEPT ![a] = IF @ = NoResult THEN res ELSE @]

\* handleKeygenSessionError after a fault.  When the error cannot be enqueued
\* either, that is logged and the reply is sent all the same.
AnswerWithError(a) ==
  /\ reply' = reply \cup {a}
  /\ \/ Enqueue(a, ErrorResult) /\ UNCHANGED lost
     \/ lost' = lost \cup {a} /\ UNCHANGED result

\* Enqueue a result and reply; a result that cannot be enqueued is an error,
\* a reply that cannot be published is only logged.
Answer(a, res) ==
  \/ reply' = reply \cup {a} /\ Enqueue(a, res) /\ UNCHANGED <<lost, faults>>
  \/ Enqueue(a, res) /\ Fault /\ UNCHANGED <<reply, lost>>
  \/ Fault /\ AnswerWithError(a)

GoTo(n, a, p) == handler' = [handler EXCEPT ![n][a] = p]

Running(n) == {a \in Attempt : handler[n][a] \notin {"none", "queued", "ended"}}

MutRelease(n, held) == UNCHANGED active

\* removeSession, deferred once tryAddSession has succeeded.
Release(n, held) == active' = [active EXCEPT ![n] = @ /\ ~held]

\* The handler of an attempt returns: the deferred calls cancel the watchers
\* and, once tryAddSession has succeeded, remove the session.  Nobody calls
\* Stop or Close on the sessions.
Return(n, a, held) ==
  /\ GoTo(n, a, "ended")
  /\ Release(n, held)
  /\ probed' = [probed EXCEPT ![n][a] = [k \in Curve |-> {}]]
  /\ failed' = [failed EXCEPT ![n][a] = {}]

\* A worker takes the event, and it is an authentic one for a wallet without
\* a stored result.
BeginHandler(n, a) ==
  /\ up[n] /\ handler[n][a] = "queued" /\ Cardinality(Running(n)) < Slots
  /\ origin[a] \subseteq Authentic /\ stored[n] = 0
  /\ GoTo(n, a, "checked")
  /\ UNCHANGED <<up, faults, streamVars, session, probed, heard, failed, active,
                 diskVars, queueVars>>

\* A worker takes the event and answers it at once: with an error if the
\* message is not authentic or Badger cannot be read, else with the stored
\* result.
AnswerAtOnce(n, a) ==
  /\ up[n] /\ handler[n][a] = "queued" /\ Cardinality(Running(n)) < Slots
  /\ \/ ~(origin[a] \subseteq Authentic) /\ Answer(a, ErrorResult)
     \/ origin[a] \subseteq Authentic /\ stored[n] # 0 /\ Answer(a, Success(stored[n]))
     \/ Fault /\ AnswerWithError(a)
  /\ Return(n, a, FALSE)
  /\ UNCHANGED <<up, streamVars, session, heard, diskVars>>

\* tryAddSession fails: another handler of this wallet is at work.
RefuseDuplicate(n, a) ==
  /\ up[n] /\ handler[n][a] = "checked" /\ active[n]
  /\ Answer(a, ErrorResult)
  /\ Return(n, a, FALSE)
  /\ UNCHANGED <<up, streamVars, session, heard, diskVars>>

\* tryAddSession succeeds but CreateKeyGenSession fails: the peers are not
\* ready or a key info exists.
RefuseSession(n, a) ==
  /\ up[n] /\ handler[n][a] = "checked" /\ ~active[n]
  /\ Answer(a, ErrorResult)
  /\ Return(n, a, TRUE)
  /\ UNCHANGED <<up, streamVars, session, heard, diskVars>>

MutKeyExists == FALSE

KeyExists == keyInfo # {}

\* Both sessions are created and subscribe.  A failing read of the key info
\* is taken for a key that does not exist.
CreateKeyGenSession(n, a) ==
  /\ up[n] /\ handler[n][a] = "checked" /\ ~active[n]
  /\ IF KeyExists THEN BlindReads /\ Fault ELSE UNCHANGED faults
  /\ active' = [active EXCEPT ![n] = TRUE]
  /\ GoTo(n, a, "barrier")
  /\ session' = [session EXCEPT ![n][a] = [k \in Curve |-> "listening"]]
  /\ UNCHANGED <<up, streamVars, probed, heard, failed, diskVars, queueVars>>

\* WaitForPeersReady: a peer answers on the barrier topic of the wallet if any
\* session of any attempt is subscribed to it there.
ProbeBarrier(n, a, k, p) ==
  /\ up[n] /\ handler[n][a] = "barrier" /\ p \in getPeers(n) \ probed[n][a][k]
  /\ up[p] /\ \E b \in Attempt : session[p][b][k] \in Subscribed
  /\ probed' = [probed EXCEPT ![n][a][k] = @ \cup {p}]
  /\ UNCHANGED <<up, faults, streamVars, handler, session, heard, failed,
                 active, diskVars, queueVars>>

BarrierPassed(n, a) == \A k \in Curve : probed[n][a][k] = getPeers(n)

\* PeerReadyTimeout: an error result, and the sessions stay subscribed.
BarrierTimesOut(n, a) ==
  /\ up[n] /\ handler[n][a] = "barrier" /\ ~BarrierPassed(n, a)
  /\ Answer(a, ErrorResult)
  /\ Return(n, a, TRUE)
  /\ UNCHANGED <<up, streamVars, session, heard, diskVars>>

\* Both GenerateKey goroutines start their party; what a party sends reaches
\* every session of the wallet that is subscribed on a peer.
GenerateKey(n, a) ==
  /\ up[n] /\ handler[n][a] = "barrier" /\ BarrierPassed(n, a)
  /\ GoTo(n, a, "generating")
  /\ probed' = [probed EXCEPT ![n][a] = [k \in Curve |-> {}]]
  /\ session' = [session EXCEPT ![n][a] = [k \in Curve |-> "started"]]
  /\ heard' = [m \in Node |-> [heard[m] EXCEPT ![a] =
       [k \in Curve |-> IF m # n /\ session[m][a][k] \in Subscribed
                        THEN @[k] \cup {n} ELSE @[k]]]]
  /\ UNCHANGED <<up, faults, streamVars, failed, active, diskVars, queueVars>>

\* The party finishes (external): the share is put into Badger.
SaveShare(n, a, k) ==
  /\ up[n] /\ session[n][a][k] = "started" /\ heard[n][a][k] = getPeers(n)
  /\ share' = [share EXCEPT ![n][k] = a]
  /\ session' = [session EXCEPT ![n][a][k] = "shared"]
  /\ UNCHANGED <<up, faults, streamVars, handler, probed, heard, failed, active,
                 keyInfo, stored, queueVars>>

\* The key info goes to Consul, the session is closed and done() is called.
SaveKeyInfo(n, a, k) ==
  /\ up[n] /\ session[n][a][k] = "shared"
  /\ keyInfo' = keyInfo \cup {k}
  /\ session' = [session EXCEPT ![n][a][k] = "closed"]
  /\ heard' = [heard EXCEPT ![n][a][k] = {}]
  /\ UNCHANGED <<up, faults, streamVars, handler, probed, failed, active, share,
                 stored, queueVars>>

\* An error on ErrCh: the watcher answers with it while the handler goes on.
\* GenerateKey either continues or, when a write failed, returns.
SessionError(n, a, k) ==
  /\ up[n] /\ handler[n][a] \in {"barrier", "generating"}
  /\ session[n][a][k] \in {"listening", "started", "shared"}
  /\ k \notin failed[n][a]
  /\ failed' = [failed EXCEPT ![n][a] = @ \cup {k}]
  /\ Fault /\ AnswerWithError(a)
  /\ \/ /\ session[n][a][k] # "listening"
        /\ session' = [session EXCEPT ![n][a][k] = "stuck"]
     \/ UNCHANGED session
  /\ UNCHANGED <<up, streamVars, handler, probed, heard, active, diskVars>>

MutAllDone(n, a) ==
  \E k \in Curve : session[n][a][k] = "closed" \/ k \in failed[n][a]

AllDone(n, a) ==
  \A k \in Curve : session[n][a][k] = "closed" \/ k \in failed[n][a]

\* doneAll with an error in errorChan: it has been answered, just return.
ReturnAfterError(n, a) ==
  /\ up[n] /\ handler[n][a] = "generating" /\ AllDone(n, a) /\ failed[n][a] # {}
  /\ Return(n, a, TRUE)
  /\ UNCHANGED <<up, faults, streamVars, session, heard, diskVars, queueVars>>

\* doneAll without an error: StoreWalletCreationResult.
StoreWalletCreationResult(n, a) ==
  /\ up[n] /\ handler[n][a] = "generating" /\ AllDone(n, a) /\ failed[n][a] = {}
  /\ stored' = [stored EXCEPT ![n] = a]
  /\ GoTo(n, a, "storing")
  /\ UNCHANGED <<up, faults, streamVars, session, probed, heard, failed, active,
                 share, keyInfo, queueVars>>

\* The write fails: an error result for a wallet whose keys exist.
StoreFails(n, a) ==
  /\ up[n] /\ handler[n][a] = "generating" /\ AllDone(n, a) /\ failed[n][a] = {}
  /\ Fault /\ AnswerWithError(a)
  /\ Return(n, a, TRUE)
  /\ UNCHANGED <<up, streamVars, session, heard, diskVars>>

\* The success is published and replied to.
PublishSuccess(n, a) ==
  /\ up[n] /\ handler[n][a] = "storing"
  /\ Answer(a, Success(a))
  /\ Return(n, a, TRUE)
  /\ UNCHANGED <<up, streamVars, session, heard, diskVars>>

\* KeyGenTimeOut: an error result, and the parties keep running.
KeyGenTimeOut(n, a) ==
  /\ up[n] /\ handler[n][a] = "generating"
  /\ Answer(a, ErrorResult)
  /\ Return(n, a, TRUE)
  /\ UNCHANGED <<up, streamVars, session, heard, diskVars>>

-----------------------------------------------------------------------------
(* Crash and restart: Badger and Consul survive, nothing else does.        *)

Crash(n) ==
  /\ up[n] /\ Fault
  /\ up' = [up EXCEPT ![n] = FALSE]
  /\ inbox' = [inbox EXCEPT ![n] = {}]
  /\ waiting' = [waiting EXCEPT ![n] = 0]
  /\ handler' = [handler EXCEPT ![n] =
       [a \in Attempt |-> IF a <= attempts THEN "ended" ELSE "none"]]
  /\ session' = [session EXCEPT ![n] = [a \in Attempt |-> [k \in Curve |-> "none"]]]
  /\ probed' = [probed EXCEPT ![n] = [a \in Attempt |-> [k \in Curve |-> {}]]]
  /\ heard' = [heard EXCEPT ![n] = [a \in Attempt |-> [k \in Curve |-> {}]]]
  /\ failed' = [failed EXCEPT ![n] = [a \in Attempt |-> {}]]
  /\ active' = [active EXCEPT ![n] = FALSE]
  /\ UNCHANGED <<message, deliveries, attempts, origin, rejected, dropped,
                 diskVars, queueVars>>

Restart(n) ==
  /\ ~up[n]
  /\ up' = [up EXCEPT ![n] = TRUE]
  /\ UNCHANGED <<faults, streamVars, runVars, diskVars, queueVars>>

-----------------------------------------------------------------------------
Stream(r) ==
  \/ CreateWallet(r) \/ AckWaitExpires(r)
  \/ \E n \in Node : Deliver(n, r)

Consume(n) ==
  \/ \E r \in Request : RejectRequest(n, r) \/ PublishFails(n, r) \/ PublishEvent(n, r)
  \/ AckOnReply(n) \/ AckFails(n) \/ NakOnTimeout(n)

Admit(n, a) ==
  \/ BeginHandler(n, a) \/ AnswerAtOnce(n, a)
  \/ RefuseDuplicate(n, a) \/ RefuseSession(n, a) \/ CreateKeyGenSession(n, a)

Barrier(n, a) ==
  \/ \E k \in Curve, p \in Node : ProbeBarrier(n, a, k, p)
  \/ BarrierTimesOut(n, a) \/ GenerateKey(n, a)

Party(n, a, k) == SaveShare(n, a, k) \/ SaveKeyInfo(n, a, k) \/ SessionError(n, a, k)

Conclude(n, a) ==
  \/ ReturnAfterError(n, a) \/ StoreWalletCreationResult(n, a) \/ StoreFails(n, a)
  \/ PublishSuccess(n, a) \/ KeyGenTimeOut(n, a)

Next ==
  \/ \E r \in Request : Stream(r)
  \/ \E n \in Node : Consume(n) \/ Crash(n) \/ Restart(n)
  \/ \E n \in Node, a \in Attempt :
       Admit(n, a) \/ Barrier(n, a) \/ Conclude(n, a)
       \/ \E k \in Curve : Party(n, a, k)

Spec == Init /\ [][Next]_vars

(***************************************************************************)
(* Goroutines of a running node are scheduled and its timers fire; the     *)
(* stream delivers to some running node.  Nothing promises that a TSS      *)
(* party finishes, that a peer answers the barrier or that a node that has *)
(* crashed comes back.                                                     *)
(***************************************************************************)
Fairness ==
  /\ \A r \in Request :
       WF_vars(AckWaitExpires(r)) /\ WF_vars(\E n \in Node : Deliver(n, r))
  /\ \A n \in Node :
       /\ WF_vars(\E r \in Request : RejectRequest(n, r) \/ PublishEvent(n, r))
       /\ WF_vars(AckOnReply(n)) /\ WF_vars(NakOnTimeout(n))
       /\ \A a \in Attempt :
            /\ WF_vars(Admit(n, a)) /\ WF_vars(Conclude(n, a))
            /\ WF_vars(GenerateKey(n, a) \/ BarrierTimesOut(n, a))

FairSpec == Spec /\ Fairness

-----------------------------------------------------------------------------
(* Properties.                                                             *)

\* Every variable has the type the Go declarations give it.
TypeOK ==
  /\ up \in [Node -> BOOLEAN]
  /\ message \in [Request -> {"absent", "stored", "delivered", "acked", "exhausted"}]
  /\ deliveries \in [Request -> 0..MaxDeliver]
  /\ inbox \in [Node -> SUBSET Request]
  /\ attempts \in 0..MaxAttempts
  /\ origin \in [Attempt -> SUBSET Request]
  /\ waiting \in [Node -> 0..MaxAttempts]
  /\ reply \subseteq Attempt
  /\ handler \in [Node -> [Attempt -> Phases]]
  /\ session \in [Node -> [Attempt -> [Curve -> SessionStates]]]
  /\ probed \in [Node -> [Attempt -> [Curve -> SUBSET Node]]]
  /\ heard \in [Node -> [Attempt -> [Curve -> SUBSET Node]]]
  /\ failed \in [Node -> [Attempt -> SUBSET Curve]]
  /\ active \in [Node -> BOOLEAN]
  /\ share \in [Node -> [Curve -> 0..MaxAttempts]]
  /\ keyInfo \subseteq Curve
  /\ stored \in [Node -> 0..MaxAttempts]
  /\ result \in [Attempt -> [kind : {"none", "error", "success"}, key : 0..MaxAttempts]]
  /\ rejected \subseteq Request
  /\ dropped \subseteq Request
  /\ lost \subseteq Attempt
  /\ faults \in 0..MaxFaults

\* A request leaves the stream acknowledged only when its client has a result
\* to read, unless the result queue itself refused it: the reply that makes
\* the keygen consumer acknowledge is sent after the result is enqueued, on
\* every path of handleKeyGenEvent, through crashes and redeliveries.
AckedRequestIsAnswered ==
  \A r \in Request : message[r] = "acked" =>
    \/ r \in rejected \cup dropped
    \/ \E a \in Attempt : r \in origin[a] /\ (result[a] # NoResult \/ a \in lost)

\* A creation result that a node has stored, and will replay, and a success
\* that a client has been told of, stand for keys that exist: shares of both
\* curves in the Badger store of the node and key infos in Consul, although
\* each of these is written by a step of its own that may fail.  The node that
\* stored the result also names the very attempt, as long as Consul can be read.
SuccessHasKeys ==
  /\ \A n \in Node : stored[n] # 0 =>
       keyInfo = Curve /\ \A k \in Curve : share[n][k] # 0
  /\ \A a \in Attempt : result[a].kind = "success" =>
       \E n \in Node : stored[n] # 0 /\ (BlindReads \/ stored[n] = result[a].key)

\* A wallet is created once per node: a stored creation result is never
\* replaced, whatever duplicate requests, redeliveries and late parties come
\* after it (tryAddSession and the key info check of CreateKeyGenSession), as
\* long as Consul can be read: a failing read counts as "no such key".
StoredResultNeverChanges ==
  [][~BlindReads => \A n \in Node : stored[n] # 0 => stored'[n] = stored[n]]_vars

\* The creation results that two nodes store, and will replay to later
\* requests, come from the same attempt, so that they name the same wallet,
\* although the nodes pass the barrier, finish and crash on their own.  Two key
\* infos that cannot be read are enough to break it.
NodesAgreeOnWallet ==
  ~BlindReads =>
    \A n, m \in Node : stored[n] # 0 /\ stored[m] # 0 => stored[n] = stored[m]

\* As long as some node runs, no request stays in the stream undecided: it is
\* acknowledged or its deliveries are used up, although its consumer may
\* crash, time out, or hold a copy it has not looked at.
RequestIsSettled ==
  []<>(\E n \in Node : up[n]) =>
    \A r \in Request :
      (message[r] = "stored") ~> (message[r] \in {"acked", "exhausted"})

\* The entry of activeSessions is released whatever becomes of the sessions,
\* "so it can be retried" (removeSession): no wallet stays locked.
GuardIsReleased == \A n \in Node : active[n] ~> ~active[n]

\* The comment above tryAddSession in handleKeyGenEvent says that it guards
\* against a second session of a wallet on the same NATS topics.
\* The code does not keep this: see "Promises the code does not keep" in the README.
NoSecondSession ==
  \A n \in Node, k \in Curve :
    Cardinality({a \in Attempt : session[n][a][k] \in Subscribed}) <= 1

\* An error is returned to the client whenever a request finds the cluster not
\* ready (changelog: "Return error when cluster is not ready when sending
\* generate key event").
\* The code does not keep this: see "Promises the code does not keep" in the README.
RejectedRequestIsAnswered == dropped = {}
=============================================================================
