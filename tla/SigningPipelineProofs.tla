----------------------- MODULE SigningPipelineProofs -----------------------
(***************************************************************************)
(* Proofs about SigningPipeline, for any number of nodes, requests,        *)
(* deliveries, attempts and faults: its type invariant, that every         *)
(* signature was asked for and authorised, and that the pipeline           *)
(* implements RequestService.                                              *)
(***************************************************************************)
EXTENDS SigningPipeline, FiniteSetTheorems, TLAPS

-----------------------------------------------------------------------------
(* First invariant: the stream, the attempts and the result queue.         *)

\* A message in the stream has a delivery left.
StoredHasDelivery ==
  \A r \in Request : message[r] \in {"absent", "stored"} => deliveries[r] < MaxDeliver

\* What lies in the inboxes has been delivered.
InboxDelivered ==
  /\ \A r \in Request : message[r] = "absent" => deliveries[r] = 0
  /\ \A n \in Node, r \in Request : inbox[n][r] <= deliveries[r]

\* An attempt that was not published belongs to no request, and nobody has
\* begun with it.
FreshAttempts ==
  \A a \in Attempt : a > attempts =>
    /\ origin[a] = {}
    /\ result[a] = NoResult /\ a \notin reply
    /\ \A n \in Node : phase[n][a] = "none" /\ heard[n][a] = {} /\ ~failing[n][a]

\* An attempt is made of one request that has been submitted.
OneOrigin ==
  \A a \in Attempt : \A r \in origin[a] : origin[a] = {r} /\ message[r] # "absent"

\* A reply is sent after the result was enqueued, or could not be.
RepliedHasResult ==
  \A a \in reply : result[a] # NoResult \/ origin[a] \subseteq lost

\* Sign closes its session after it has enqueued the result.
SignedHasResult ==
  \A n \in Node, a \in Attempt : phase[n][a] = "signed" => result[a] # NoResult

StreamInv ==
  /\ TypeOK
  /\ StoredHasDelivery
  /\ InboxDelivered
  /\ FreshAttempts
  /\ OneOrigin
  /\ RepliedHasResult
  /\ SignedHasResult


-----------------------------------------------------------------------------
(* The parts of TypeOK, by the group of variables.                         *)

StreamTypes ==
  /\ message \in [Request -> {"absent", "stored", "delivered", "acked", "exhausted"}]
  /\ request \in [Request -> SUBSET Message]
  /\ deliveries \in [Request -> 0..MaxDeliver]
  /\ inbox \in [Node -> [Request -> 0..MaxDeliver]]
  /\ attempts \in 0..MaxAttempts
  /\ origin \in [Attempt -> SUBSET Request]
  /\ waiting \in [Node -> 0..MaxAttempts]
  /\ advisory \in [Node -> SUBSET Request]

RunTypes ==
  /\ phase \in [Node -> [Attempt -> Phases]]
  /\ committee \in [Node -> [Attempt -> SUBSET Participants]]
  /\ probed \in [Node -> [Attempt -> SUBSET Node]]
  /\ heard \in [Node -> [Attempt -> SUBSET Node]]
  /\ failing \in [Node -> [Attempt -> BOOLEAN]]
  /\ stopped \in [Node -> [Attempt -> BOOLEAN]]
  /\ active \in [Node -> SUBSET Request]
  /\ signers \in [Request -> SUBSET Node]

Results == [kind : {"none", "error", "secp256k1", "ed25519"}, by : SUBSET Node]

QueueTypes ==
  /\ reply \subseteq Attempt
  /\ result \in [Attempt -> Results]
  /\ refused \subseteq Request
  /\ lost \subseteq Request

RestTypes == up \in [Node -> BOOLEAN] /\ faults \in 0..MaxFaults

LEMMA TypeParts ==
  /\ TypeOK <=> StreamTypes /\ RunTypes /\ QueueTypes /\ RestTypes
  /\ TypeOK' <=> StreamTypes' /\ RunTypes' /\ QueueTypes' /\ RestTypes'
  BY DEF TypeOK, StreamTypes, RunTypes, QueueTypes, RestTypes, Results

LEMMA FaultType == ASSUME TypeOK, Fault PROVE faults' \in 0..MaxFaults
  BY BoundAssumption DEF TypeOK, Fault

LEMMA InitStream == Init => StreamInv
  BY BoundAssumption
  DEF Init, StreamInv, TypeOK, Phases, Attempt, NoResult, StoredHasDelivery,
      InboxDelivered, FreshAttempts, OneOrigin, RepliedHasResult, SignedHasResult

-----------------------------------------------------------------------------
(* Answers.                                                                *)

\* What every way of answering attempt a with res does to the result queue.
QueueStep(a, res) ==
  /\ reply' \subseteq reply \cup {a}
  /\ result' \in {result, [result EXCEPT ![a] = IF @ = NoResult THEN res ELSE @]}
  /\ lost' \in {lost, lost \cup origin[a]}
  /\ result' = result \/ lost' = lost
  /\ reply' = reply \/ result'[a] # NoResult \/ origin[a] \subseteq lost'
  /\ refused' = refused

LEMMA ResultTypes ==
  /\ NoResult \in Results
  /\ \A n \in Node : ErrorResult(n) \in Results \ {NoResult}
  /\ \A n \in Node, k \in {"secp256k1", "ed25519"} :
       Signature(k, n) \in Results \ {NoResult}
  BY DEF Results, NoResult, ErrorResult, Signature

LEMMA EnqueueStep ==
  ASSUME TypeOK, NEW a \in Attempt, NEW res \in Results \ {NoResult},
         Enqueue(a, res), reply' \subseteq reply \cup {a}, UNCHANGED <<lost, refused>>
  PROVE  QueueStep(a, res)
  BY DEF TypeOK, Enqueue, QueueStep

LEMMA ErrorStep ==
  ASSUME TypeOK, NEW n \in Node, NEW a \in Attempt,
         handleSigningSessionError(n, a), UNCHANGED refused
  PROVE  QueueStep(a, ErrorResult(n)) /\ faults' \in 0..MaxFaults
<1>1. ErrorResult(n) \in Results \ {NoResult}
  BY ResultTypes
<1>2. faults' \in 0..MaxFaults
  BY FaultType DEF handleSigningSessionError, TypeOK
<1>3. CASE Enqueue(a, ErrorResult(n)) /\ Reply(a) /\ UNCHANGED lost
  BY <1>1, <1>2, <1>3, EnqueueStep DEF Reply
<1>4. CASE Enqueue(a, ErrorResult(n)) /\ UNCHANGED <<reply, lost>>
  BY <1>1, <1>2, <1>4, EnqueueStep
<1>5. CASE lost' = lost \cup origin[a] /\ Reply(a) /\ UNCHANGED result
  BY <1>2, <1>5 DEF QueueStep, Reply
<1> QED BY <1>2, <1>3, <1>4, <1>5 DEF handleSigningSessionError

\* A step of a session: it answers its attempt or leaves the queue alone, and
\* it does not begin with an attempt that was not published.
LEMMA SessionStep ==
  ASSUME StreamInv, NEW a \in Attempt, a <= attempts, NEW res \in Results,
         QueueStep(a, res), RunTypes', RestTypes', UNCHANGED streamVars,
         \A n \in Node, b \in Attempt :
           b > attempts => /\ phase'[n][b] = phase[n][b] /\ heard'[n][b] = heard[n][b]
                           /\ failing'[n][b] = failing[n][b],
         \A n \in Node, b \in Attempt :
           phase'[n][b] = "signed" => phase[n][b] = "signed" \/ result'[b] # NoResult
  PROVE  StreamInv'
<1> USE DEF streamVars
<1>1. StreamTypes'
  BY DEF StreamInv, TypeOK, StreamTypes
<1>2. attempts \in Int /\ a \in Int
  BY BoundAssumption DEF StreamInv, TypeOK, Attempt
<1>3. QueueTypes'
  <2>1. QueueTypes /\ origin[a] \subseteq Request
    BY TypeParts DEF StreamInv, StreamTypes
  <2> QED BY <2>1 DEF QueueTypes, QueueStep
<1>4. StoredHasDelivery' /\ InboxDelivered' /\ OneOrigin'
  BY DEF StreamInv, StoredHasDelivery, InboxDelivered, OneOrigin
<1>5. FreshAttempts'
  <2> SUFFICES ASSUME NEW b \in Attempt, b > attempts
               PROVE  result'[b] = NoResult /\ origin[b] = {} /\ b \notin reply'
                      /\ \A n \in Node : phase'[n][b] = "none" /\ heard'[n][b] = {} /\ ~failing'[n][b]
    BY DEF FreshAttempts
  <2>1. /\ result[b] = NoResult /\ origin[b] = {} /\ b \notin reply
        /\ \A n \in Node : phase[n][b] = "none" /\ heard[n][b] = {} /\ ~failing[n][b]
    BY DEF StreamInv, FreshAttempts
  <2>2. a # b
    BY <1>2
  <2>3. result'[b] = result[b]
    BY <2>2 DEF StreamInv, TypeOK, QueueStep
  <2> QED BY <2>1, <2>2, <2>3 DEF QueueStep
<1>6. RepliedHasResult'
  <2> SUFFICES ASSUME NEW b \in reply' PROVE result'[b] # NoResult \/ origin[b] \subseteq lost'
    BY DEF RepliedHasResult
  <2>1. CASE b = a /\ b \notin reply
    BY <2>1 DEF QueueStep
  <2>2. CASE b \in reply
    <3>1. result[b] # NoResult \/ origin[b] \subseteq lost
      BY <2>2 DEF StreamInv, RepliedHasResult
    <3>2. b \in Attempt
      BY <2>2 DEF StreamInv, TypeOK
    <3>3. result[b] # NoResult => result'[b] = result[b]
      BY <3>2 DEF StreamInv, TypeOK, QueueStep
    <3> QED BY <3>1, <3>3 DEF QueueStep
  <2> QED BY <2>1, <2>2 DEF QueueStep
<1>7. SignedHasResult'
  <2>1. \A b \in Attempt : result[b] # NoResult => result'[b] # NoResult
    BY DEF StreamInv, TypeOK, QueueStep
  <2> QED BY <2>1 DEF StreamInv, SignedHasResult
<1> QED BY <1>1, <1>3, <1>4, <1>5, <1>6, <1>7, TypeParts DEF StreamInv

\* The special case that the queue is left alone.
LEMMA QuietStep ==
  ASSUME StreamInv, NEW a \in Attempt, a <= attempts,
         RunTypes', RestTypes', UNCHANGED <<streamVars, queueVars>>,
         \A n \in Node, b \in Attempt :
           b > attempts => /\ phase'[n][b] = phase[n][b] /\ heard'[n][b] = heard[n][b]
                           /\ failing'[n][b] = failing[n][b],
         \A n \in Node, b \in Attempt : phase'[n][b] = "signed" => phase[n][b] = "signed"
  PROVE  StreamInv'
<1>1. QueueStep(a, NoResult)
  BY DEF QueueStep, queueVars
<1> QED BY <1>1, ResultTypes, SessionStep

-----------------------------------------------------------------------------
(* The stream and the signing consumer.                                    *)

\* A message that goes back to the stream has a delivery left, and the request
\* is lost if there is nobody to hear the advisory.
LEMMA RedeliverStep ==
  ASSUME StreamInv, NEW r \in Request, Redeliver(r)
  PROVE  /\ message' \in [Request -> {"absent", "stored", "delivered", "acked", "exhausted"}]
         /\ \A q \in Request : message'[q] # message[q] =>
              /\ q = r /\ message[q] = "delivered"
              /\ message'[q] \in {"stored", "exhausted"}
              /\ message'[q] = "stored" => deliveries[q] < MaxDeliver
         /\ advisory' \in [Node -> SUBSET Request]
         /\ lost' \in {lost, lost \cup {r}}
         /\ lost' # lost => message[r] = "delivered"
<1>1. message \in [Request -> {"absent", "stored", "delivered", "acked", "exhausted"}]
  BY DEF StreamInv, TypeOK
<1>2. advisory \in [Node -> SUBSET Request]
  BY DEF StreamInv, TypeOK
<1> QED BY <1>1, <1>2 DEF Redeliver

\* A step of the stream or of a consumer that makes no new attempt.
LEMMA ConsumerStep ==
  ASSUME StreamInv, StreamTypes', RestTypes',
         StoredHasDelivery', InboxDelivered',
         refused' \subseteq Request, lost' \subseteq Request, lost \subseteq lost',
         reply' \subseteq reply, UNCHANGED <<attempts, origin, result, runVars>>,
         \A r \in Request : message[r] # "absent" => message'[r] # "absent"
  PROVE  StreamInv'
<1> USE DEF runVars
<1>1. TypeOK'
  BY TypeParts DEF StreamInv, RunTypes, QueueTypes
<1>2. FreshAttempts'
  BY DEF StreamInv, FreshAttempts
<1>3. OneOrigin'
  BY DEF StreamInv, TypeOK, OneOrigin
<1>4. RepliedHasResult' /\ SignedHasResult'
  BY DEF StreamInv, RepliedHasResult, SignedHasResult
<1> QED BY <1>1, <1>2, <1>3, <1>4 DEF StreamInv

LEMMA RedeliverKeeps ==
  ASSUME StreamInv, NEW r \in Request, Redeliver(r), RestTypes',
         inbox' \in [Node -> [Request -> 0..MaxDeliver]],
         \A m \in Node, q \in Request : inbox'[m][q] <= inbox[m][q],
         waiting' \in [Node -> 0..MaxAttempts], reply' \subseteq reply,
         UNCHANGED <<request, deliveries, attempts, origin, result, refused, runVars>>
  PROVE  StreamInv'
<1>1. StreamTypes'
  BY RedeliverStep DEF StreamInv, TypeOK, StreamTypes
<1>2. StoredHasDelivery'
  BY RedeliverStep DEF StreamInv, StoredHasDelivery
<1>3. InboxDelivered'
  <2>1. \A q \in Request : message'[q] = "absent" => message[q] = "absent"
    BY RedeliverStep
  <2>2. \A m \in Node, q \in Request : inbox'[m][q] <= deliveries'[q]
    BY BoundAssumption DEF StreamInv, InboxDelivered, TypeOK
  <2> QED BY <2>1, <2>2 DEF StreamInv, InboxDelivered
<1>4. \A q \in Request : message[q] # "absent" => message'[q] # "absent"
  BY RedeliverStep
<1>5. lost' \subseteq Request /\ lost \subseteq lost' /\ refused' \subseteq Request
  <2>1. lost \subseteq Request /\ refused \subseteq Request
    BY DEF StreamInv, TypeOK
  <2>2. lost' \in {lost, lost \cup {r}}
    BY RedeliverStep
  <2> QED BY <2>1, <2>2
<1> QED BY <1>1, <1>2, <1>3, <1>4, <1>5, ConsumerStep

LEMMA StreamStep ==
  ASSUME StreamInv, NEW r \in Request, Stream(r) PROVE StreamInv'
<1> USE DEF runVars, queueVars
<1>1. ASSUME NEW m \in Message, SignTransaction(r, m) PROVE StreamInv'
  <2>1. StreamTypes' /\ RestTypes'
    BY <1>1 DEF SignTransaction, StreamInv, TypeOK, StreamTypes, RestTypes
  <2>2. StoredHasDelivery' /\ InboxDelivered'
    BY <1>1 DEF SignTransaction, StreamInv, TypeOK, StoredHasDelivery, InboxDelivered
  <2>3. \A q \in Request : message[q] # "absent" => message'[q] # "absent"
    BY <1>1 DEF SignTransaction, StreamInv, TypeOK
  <2> QED BY <1>1, <2>1, <2>2, <2>3, ConsumerStep DEF SignTransaction, StreamInv, TypeOK
<1>2. CASE AckWaitExpires(r)
  <2>1. /\ RestTypes' /\ inbox' \in [Node -> [Request -> 0..MaxDeliver]]
        /\ \A m \in Node, q \in Request : inbox'[m][q] <= inbox[m][q]
        /\ waiting' \in [Node -> 0..MaxAttempts]
    BY <1>2, BoundAssumption DEF AckWaitExpires, StreamInv, TypeOK, RestTypes
  <2> QED BY <1>2, <2>1, RedeliverKeeps DEF AckWaitExpires
<1>3. ASSUME NEW n \in Node, Deliver(n, r) PROVE StreamInv'
  <2>1. deliveries[r] < MaxDeliver
    BY <1>3 DEF Deliver, StreamInv, StoredHasDelivery
  <2>2. inbox[n][r] <= deliveries[r]
    BY DEF StreamInv, InboxDelivered
  <2>3. StreamTypes' /\ RestTypes'
    BY <1>3, <2>1, <2>2, BoundAssumption
    DEF Deliver, StreamInv, TypeOK, StreamTypes, RestTypes
  <2>4. StoredHasDelivery'
    BY <1>3 DEF Deliver, StreamInv, TypeOK, StoredHasDelivery
  <2>5. InboxDelivered'
    BY <1>3, BoundAssumption DEF Deliver, StreamInv, TypeOK, InboxDelivered
  <2>6. \A q \in Request : message[q] # "absent" => message'[q] # "absent"
    BY <1>3 DEF Deliver, StreamInv, TypeOK
  <2> QED BY <1>3, <2>3, <2>4, <2>5, <2>6, ConsumerStep DEF Deliver, StreamInv, TypeOK
<1> QED BY <1>1, <1>2, <1>3 DEF Stream

LEMMA TakeStep ==
  ASSUME StreamInv, NEW n \in Node, NEW r \in Request, TakeFromInbox(n, r)
  PROVE  /\ inbox' \in [Node -> [Request -> 0..MaxDeliver]]
         /\ \A m \in Node, q \in Request : inbox'[m][q] <= inbox[m][q]
         /\ message[r] # "absent"
<1>1. inbox \in [Node -> [Request -> 0..MaxDeliver]]
  BY DEF StreamInv, TypeOK
<1>2. inbox[n][r] \in 0..MaxDeliver /\ inbox[n][r] > 0
  BY <1>1 DEF TakeFromInbox
<1>3. message[r] # "absent"
  BY <1>2, BoundAssumption DEF StreamInv, InboxDelivered
<1> QED BY <1>1, <1>2, <1>3, BoundAssumption DEF TakeFromInbox

LEMMA UnsubscribeStep ==
  ASSUME TypeOK, NEW n \in Node, Unsubscribe(n)
  PROVE  waiting' \in [Node -> 0..MaxAttempts] /\ reply' \subseteq reply
  BY BoundAssumption DEF TypeOK, Unsubscribe

\* Acknowledging, or leaving the message as it is, keeps the stream right.
LEMMA AcknowledgeKeeps ==
  ASSUME StreamInv, NEW r \in Request, message' = message \/ Acknowledge(r),
         message[r] # "absent",
         inbox' \in [Node -> [Request -> 0..MaxDeliver]],
         \A m \in Node, q \in Request : inbox'[m][q] <= inbox[m][q],
         waiting' \in [Node -> 0..MaxAttempts],
         advisory' \in [Node -> SUBSET Request],
         RestTypes', reply' \subseteq reply,
         refused' \in {refused, refused \cup {r}}, lost' \in {lost, lost \cup {r}},
         UNCHANGED <<request, deliveries, attempts, origin, result, runVars>>
  PROVE  StreamInv'
<1>1. /\ message' \in [Request -> {"absent", "stored", "delivered", "acked", "exhausted"}]
      /\ \A q \in Request : message'[q] = message[q] \/ (q = r /\ message'[q] = "acked")
  BY DEF StreamInv, TypeOK, Acknowledge
<1>2. StreamTypes'
  BY <1>1 DEF StreamInv, TypeOK, StreamTypes
<1>3. StoredHasDelivery'
  BY <1>1 DEF StreamInv, StoredHasDelivery
<1>4. InboxDelivered'
  <2>1. \A q \in Request : message'[q] = "absent" => message[q] = "absent"
    BY <1>1
  <2>2. \A m \in Node, q \in Request : inbox'[m][q] <= deliveries'[q]
    BY BoundAssumption DEF StreamInv, InboxDelivered, TypeOK
  <2> QED BY <2>1, <2>2 DEF StreamInv, InboxDelivered
<1>5. \A q \in Request : message[q] # "absent" => message'[q] # "absent"
  BY <1>1
<1>6. lost' \subseteq Request /\ lost \subseteq lost' /\ refused' \subseteq Request
  BY DEF StreamInv, TypeOK
<1> QED BY <1>2, <1>3, <1>4, <1>5, <1>6, ConsumerStep

LEMMA PublishEventStep ==
  ASSUME StreamInv, NEW n \in Node, NEW r \in Request, PublishEvent(n, r)
  PROVE  StreamInv'
<1>1. /\ attempts \in Nat /\ attempts' = attempts + 1
      /\ attempts' \in 0..MaxAttempts /\ attempts' \in Attempt
  BY BoundAssumption DEF PublishEvent, StreamInv, TypeOK, Attempt
<1>2. origin' = [origin EXCEPT ![attempts'] = {r}]
  BY DEF PublishEvent
<1>3. /\ phase' \in [Node -> [Attempt -> Phases]]
      /\ \A m \in Node, b \in Attempt : b # attempts' => phase'[m][b] = phase[m][b]
      /\ \A m \in Node : phase'[m][attempts'] # "signed"
  <2>1. PICK missed \in SUBSET {m \in Node : up[m]} :
          phase' = [m \in Node |-> [phase[m] EXCEPT
            ![attempts'] = IF up[m] /\ m \notin missed THEN "queued" ELSE "ended"]]
    BY DEF PublishEvent
  <2>2. phase \in [Node -> [Attempt -> Phases]]
    BY DEF StreamInv, TypeOK
  <2>3. {"queued", "ended"} \subseteq Phases
    BY DEF Phases
  <2> QED BY <1>1, <2>1, <2>2, <2>3
<1>4. faults' \in 0..MaxFaults
  BY FaultType DEF PublishEvent, StreamInv, TypeOK
<1>5. TypeOK'
  <2>1. StreamTypes'
    BY <1>1, <1>2, TakeStep DEF PublishEvent, StreamInv, TypeOK, StreamTypes
  <2>2. RunTypes'
    BY <1>3 DEF PublishEvent, StreamInv, TypeOK, RunTypes
  <2>3. QueueTypes' /\ RestTypes'
    BY <1>4, TypeParts DEF PublishEvent, StreamInv, QueueTypes, RestTypes, queueVars
  <2> QED BY <2>1, <2>2, <2>3, TypeParts
<1>6. StoredHasDelivery'
  BY DEF PublishEvent, StreamInv, StoredHasDelivery
<1>7. InboxDelivered'
  <2>1. \A m \in Node, q \in Request : inbox'[m][q] <= deliveries'[q]
    <3>1. deliveries' = deliveries /\ TakeFromInbox(n, r)
      BY DEF PublishEvent
    <3> QED BY <3>1, TakeStep, BoundAssumption DEF StreamInv, InboxDelivered, TypeOK
  <2> QED BY <2>1 DEF PublishEvent, StreamInv, InboxDelivered
<1>8. FreshAttempts'
  <2>1. \A b \in Attempt : b \in Int
    BY DEF Attempt
  <2>2. \A b \in Attempt : b > attempts' => b > attempts /\ b # attempts'
    BY <1>1, <2>1
  <2>3. \A b \in Attempt : b # attempts' => origin'[b] = origin[b]
    BY <1>2 DEF StreamInv, TypeOK
  <2>4. UNCHANGED <<heard, failing, result, reply>>
    BY DEF PublishEvent, queueVars
  <2> QED BY <1>3, <2>2, <2>3, <2>4 DEF StreamInv, FreshAttempts
<1>9. OneOrigin'
  BY <1>1, <1>2, TakeStep DEF PublishEvent, StreamInv, TypeOK, OneOrigin
<1>10. RepliedHasResult'
  <2>1. attempts' \notin reply
    BY <1>1 DEF StreamInv, FreshAttempts
  <2>2. \A b \in reply : origin'[b] = origin[b]
    BY <1>2, <2>1 DEF StreamInv, TypeOK
  <2> QED BY <2>2 DEF PublishEvent, StreamInv, RepliedHasResult, queueVars
<1>11. SignedHasResult'
  BY <1>3 DEF PublishEvent, StreamInv, SignedHasResult, queueVars
<1> QED BY <1>5, <1>6, <1>7, <1>8, <1>9, <1>10, <1>11 DEF StreamInv

LEMMA ConsumeStep ==
  ASSUME StreamInv, NEW n \in Node, Consume(n) PROVE StreamInv'
<1>0. TypeOK
  BY DEF StreamInv
<1>1. ASSUME NEW r \in Request, RejectRequest(n, r) PROVE StreamInv'
  <2>1. TakeFromInbox(n, r)
    BY <1>1 DEF RejectRequest
  <2>2. /\ message' = message \/ Acknowledge(r)
        /\ refused' \in {refused, refused \cup {r}} /\ lost' \in {lost, lost \cup {r}}
        /\ RestTypes'
    BY <1>0, <1>1, FaultType DEF RejectRequest, handleSigningError, RestTypes, TypeOK
  <2>3. waiting' \in [Node -> 0..MaxAttempts] /\ advisory' \in [Node -> SUBSET Request]
    BY <1>0, <1>1 DEF RejectRequest, TypeOK
  <2>4. UNCHANGED <<request, deliveries, attempts, origin, result, runVars, reply>>
    BY <1>1 DEF RejectRequest
  <2> QED BY <2>1, <2>2, <2>3, <2>4, TakeStep, AcknowledgeKeeps
<1>2. ASSUME NEW r \in Request, PublishFails(n, r) PROVE StreamInv'
  <2>1. TakeFromInbox(n, r) /\ Redeliver(r)
    BY <1>2 DEF PublishFails
  <2>2. RestTypes' /\ waiting' \in [Node -> 0..MaxAttempts]
    BY <1>0, <1>2, FaultType DEF PublishFails, RestTypes, TypeOK
  <2>3. UNCHANGED <<request, deliveries, attempts, origin, result, refused, runVars, reply>>
    BY <1>2 DEF PublishFails
  <2> QED BY <2>1, <2>2, <2>3, TakeStep, RedeliverKeeps
<1>3. ASSUME NEW r \in Request, HandleAdvisory(n, r) PROVE StreamInv'
  <2>1. message[r] # "absent"
    BY <1>3 DEF HandleAdvisory
  <2>2. /\ refused' \in {refused, refused \cup {r}} /\ lost' \in {lost, lost \cup {r}}
        /\ RestTypes'
    BY <1>0, <1>3, FaultType DEF HandleAdvisory, RestTypes, TypeOK
  <2>3. advisory' \in [Node -> SUBSET Request]
    <3>1. advisory \in [Node -> SUBSET Request]
      BY <1>0 DEF TypeOK
    <3>2. \/ advisory' = [m \in Node |-> advisory[m] \ {r}]
          \/ advisory' = [advisory EXCEPT ![n] = @ \ {r}]
      BY <1>3 DEF HandleAdvisory
    <3> QED BY <3>1, <3>2
  <2>4. UNCHANGED <<message, request, deliveries, inbox, attempts, origin, waiting, result,
                    runVars, reply>>
    BY <1>3 DEF HandleAdvisory
  <2>5. /\ waiting' \in [Node -> 0..MaxAttempts]
        /\ inbox' \in [Node -> [Request -> 0..MaxDeliver]]
        /\ \A m \in Node, q \in Request : inbox'[m][q] <= inbox[m][q]
    BY <1>0, <2>4, BoundAssumption DEF TypeOK
  <2> QED BY <2>1, <2>2, <2>3, <2>4, <2>5, AcknowledgeKeeps
<1>4. ASSUME NEW r \in Request, cleanupStaleSessions(n, r) PROVE StreamInv'
  <2>1. RunTypes' /\ RestTypes'
    BY <1>0, <1>4 DEF cleanupStaleSessions, RunTypes, RestTypes, TypeOK
  <2>2. UNCHANGED <<streamVars, queueVars, phase, heard, failing>>
    BY <1>4 DEF cleanupStaleSessions
  <2>3. StreamTypes' /\ QueueTypes'
    BY <2>2, TypeParts DEF StreamInv, StreamTypes, QueueTypes, streamVars, queueVars
  <2>4. /\ StoredHasDelivery' /\ InboxDelivered' /\ FreshAttempts' /\ OneOrigin'
        /\ RepliedHasResult' /\ SignedHasResult'
    BY <2>2
    DEF StreamInv, StoredHasDelivery, InboxDelivered, FreshAttempts, OneOrigin,
        RepliedHasResult, SignedHasResult, streamVars, queueVars
  <2> QED BY <2>1, <2>3, <2>4, TypeParts DEF StreamInv
<1>5. ASSUME waiting[n] \in reply, NEW r \in origin[waiting[n]], Acknowledge(r) \/ message' = message,
             Unsubscribe(n), RestTypes',
             UNCHANGED <<request, deliveries, inbox, attempts, origin, advisory, runVars,
                         result, refused, lost>>
      PROVE  StreamInv'
  <2>1. r \in Request /\ message[r] # "absent"
    BY <1>0, <1>5 DEF StreamInv, OneOrigin, TypeOK
  <2>2. /\ inbox' \in [Node -> [Request -> 0..MaxDeliver]]
        /\ \A m \in Node, q \in Request : inbox'[m][q] <= inbox[m][q]
        /\ advisory' \in [Node -> SUBSET Request]
    BY <1>0, <1>5, BoundAssumption DEF TypeOK
  <2> QED BY <1>0, <1>5, <2>1, <2>2, UnsubscribeStep, AcknowledgeKeeps
<1>6. CASE AckOnReply(n)
  <2>1. RestTypes'
    BY <1>0, <1>6 DEF AckOnReply, RestTypes, TypeOK
  <2> QED BY <1>5, <1>6, <2>1 DEF AckOnReply
<1>7. CASE AckFails(n)
  <2>1. RestTypes' /\ Unsubscribe(n)
    BY <1>0, <1>7, FaultType DEF AckFails, RestTypes, TypeOK
  <2>2. StreamTypes'
    BY <1>0, <1>7, <2>1, UnsubscribeStep DEF AckFails, StreamTypes, TypeOK
  <2>3. StoredHasDelivery' /\ InboxDelivered'
    BY <1>7 DEF AckFails, StreamInv, StoredHasDelivery, InboxDelivered
  <2> QED BY <1>0, <1>7, <2>1, <2>2, <2>3, UnsubscribeStep, ConsumerStep DEF AckFails, TypeOK
<1>8. CASE NakOnTimeout(n)
  <2>1. PICK r \in origin[waiting[n]] : Redeliver(r)
    BY <1>8 DEF NakOnTimeout
  <2>2. r \in Request
    BY <1>0, <1>8, <2>1, BoundAssumption DEF NakOnTimeout, TypeOK, Attempt
  <2>3. RestTypes' /\ Unsubscribe(n)
    BY <1>0, <1>8 DEF NakOnTimeout, RestTypes, TypeOK
  <2>4. /\ inbox' \in [Node -> [Request -> 0..MaxDeliver]]
        /\ \A m \in Node, q \in Request : inbox'[m][q] <= inbox[m][q]
    BY <1>0, <1>8, BoundAssumption DEF NakOnTimeout, TypeOK
  <2>5. UNCHANGED <<request, deliveries, attempts, origin, result, refused, runVars>>
    BY <1>8 DEF NakOnTimeout
  <2> QED BY <1>0, <2>1, <2>2, <2>3, <2>4, <2>5, UnsubscribeStep, RedeliverKeeps
<1> QED BY <1>1, <1>2, <1>3, <1>4, <1>6, <1>7, <1>8, PublishEventStep DEF Consume

-----------------------------------------------------------------------------
(* The event consumer and the sessions.                                    *)

LEMMA BegunIsPublished ==
  ASSUME StreamInv, NEW n \in Node, NEW a \in Attempt,
         phase[n][a] # "none" \/ failing[n][a]
  PROVE  a <= attempts
<1>1. a \in Int /\ attempts \in Int
  BY BoundAssumption DEF StreamInv, TypeOK, Attempt
<1>2. ~(a > attempts)
  BY DEF StreamInv, FreshAttempts
<1> QED BY <1>1, <1>2

\* A step that touches the session of n for the published attempt a only, and
\* starts no party.
OwnSession(n, a) ==
  /\ RunTypes'
  /\ signers' = signers
  /\ \A m \in Node, b \in Attempt : m # n \/ b # a =>
       /\ phase'[m][b] = phase[m][b] /\ heard'[m][b] = heard[m][b]
       /\ committee'[m][b] = committee[m][b] /\ failing'[m][b] = failing[m][b]

LEMMA OwnQuiet ==
  ASSUME StreamInv, NEW n \in Node, NEW a \in Attempt, a <= attempts, OwnSession(n, a),
         RestTypes', UNCHANGED <<streamVars, queueVars>>,
         phase'[n][a] = "signed" => phase[n][a] = "signed"
  PROVE  StreamInv'
<1>1. attempts \in Int /\ a \in Int
  BY BoundAssumption DEF StreamInv, TypeOK, Attempt
<1>2. \A b \in Attempt : b \in Int /\ (b > attempts => b # a)
  BY <1>1 DEF Attempt
<1> QED BY <1>2, QuietStep DEF OwnSession

LEMMA OwnAnswer ==
  ASSUME StreamInv, NEW n \in Node, NEW a \in Attempt, a <= attempts, OwnSession(n, a),
         NEW res \in Results, QueueStep(a, res), RestTypes', UNCHANGED streamVars,
         phase'[n][a] = "signed" => phase[n][a] = "signed" \/ result'[a] # NoResult
  PROVE  StreamInv'
<1>1. attempts \in Int /\ a \in Int
  BY BoundAssumption DEF StreamInv, TypeOK, Attempt
<1>2. \A b \in Attempt : b \in Int /\ (b > attempts => b # a)
  BY <1>1 DEF Attempt
<1> QED BY <1>2, SessionStep DEF OwnSession

\* The same with an error for an answer.
LEMMA OwnError ==
  ASSUME StreamInv, NEW n \in Node, NEW a \in Attempt, a <= attempts, OwnSession(n, a),
         handleSigningSessionError(n, a), UNCHANGED <<up, streamVars, refused>>,
         phase'[n][a] = "signed" => phase[n][a] = "signed"
  PROVE  StreamInv'
<1>1. QueueStep(a, ErrorResult(n)) /\ faults' \in 0..MaxFaults
  BY ErrorStep DEF StreamInv
<1>2. RestTypes'
  BY <1>1 DEF StreamInv, TypeOK, RestTypes
<1> QED BY <1>1, <1>2, ResultTypes, OwnAnswer

LEMMA AdmitStep ==
  ASSUME StreamInv, NEW n \in Node, NEW a \in Attempt, Admit(n, a)
  PROVE  StreamInv' /\ OwnSession(n, a) /\ a <= attempts
<1> USE DEF GoTo, RunTypes
<1>0. TypeOK /\ RunTypes /\ origin[a] \subseteq Request
  BY DEF StreamInv, TypeOK
<1>1. a <= attempts
  <2>1. phase[n][a] = "queued"
    BY DEF Admit, DropUnauthentic, RefuseDuplicate, RefuseSession, SkipNotParticipant,
           CreateSigningSession, TakeEvent
  <2> QED BY <2>1, BegunIsPublished
<1>2. {"ended", "barrier"} \subseteq Phases
  BY DEF Phases
<1>3. CASE DropUnauthentic(n, a)
  <2>1. OwnSession(n, a) /\ (phase'[n][a] = "signed" => phase[n][a] = "signed")
    BY <1>0, <1>2, <1>3 DEF DropUnauthentic, OwnSession
  <2> QED BY <1>0, <1>1, <1>3, <2>1, OwnQuiet DEF DropUnauthentic, RestTypes, TypeOK
<1>4. CASE RefuseDuplicate(n, a)
  <2>1. OwnSession(n, a) /\ (phase'[n][a] = "signed" => phase[n][a] = "signed")
    BY <1>0, <1>2, <1>4 DEF RefuseDuplicate, OwnSession
  <2> QED BY <1>0, <1>1, <1>4, <2>1, OwnError DEF RefuseDuplicate
<1>5. CASE RefuseSession(n, a)
  <2>1. OwnSession(n, a) /\ (phase'[n][a] = "signed" => phase[n][a] = "signed")
    BY <1>0, <1>2, <1>5 DEF RefuseSession, OwnSession, tryAddSession
  <2>2. CASE handleSigningSessionError(n, a)
    BY <1>0, <1>1, <1>5, <2>1, <2>2, OwnError DEF RefuseSession
  <2>3. CASE Fault /\ Enqueue(a, ErrorResult(n)) /\ Reply(a) /\ UNCHANGED lost
    <3>1. QueueStep(a, ErrorResult(n))
      BY <1>0, <1>5, <2>3, ResultTypes, EnqueueStep DEF RefuseSession, Reply
    <3>2. RestTypes'
      BY <1>0, <1>5, <2>3, FaultType DEF RefuseSession, RestTypes, TypeOK
    <3> QED BY <1>1, <1>5, <2>1, <3>1, <3>2, ResultTypes, OwnAnswer DEF RefuseSession
  <2> QED BY <1>5, <2>2, <2>3 DEF RefuseSession
<1>6. CASE SkipNotParticipant(n, a)
  <2>1. OwnSession(n, a) /\ (phase'[n][a] = "signed" => phase[n][a] = "signed")
    BY <1>0, <1>2, <1>6 DEF SkipNotParticipant, OwnSession, tryAddSession
  <2> QED BY <1>0, <1>1, <1>6, <2>1, OwnQuiet DEF SkipNotParticipant, RestTypes, TypeOK
<1>7. CASE CreateSigningSession(n, a)
  <2>1. PICK ready \in SUBSET Node :
          committee' = [committee EXCEPT ![n][a] = getReadyPeersForSession(ready)]
    BY <1>7 DEF CreateSigningSession
  <2>2. getReadyPeersForSession(ready) \subseteq Participants
    BY DEF getReadyPeersForSession
  <2>3. OwnSession(n, a) /\ (phase'[n][a] = "signed" => phase[n][a] = "signed")
    BY <1>0, <1>2, <1>7, <2>1, <2>2 DEF CreateSigningSession, OwnSession, tryAddSession
  <2> QED BY <1>0, <1>1, <1>7, <2>3, OwnQuiet DEF CreateSigningSession, RestTypes, TypeOK
<1> QED BY <1>3, <1>4, <1>5, <1>6, <1>7 DEF Admit

LEMMA BarrierOwn ==
  ASSUME StreamInv, NEW n \in Node, NEW a \in Attempt,
         BarrierFails(n, a) \/ \E p \in Node : ProbeBarrier(n, a, p)
  PROVE  StreamInv' /\ OwnSession(n, a) /\ a <= attempts
<1> USE DEF GoTo, Forget, RunTypes
<1>0. TypeOK /\ RunTypes
  BY DEF StreamInv, TypeOK
<1>1. a <= attempts
  BY BegunIsPublished DEF BarrierFails, ProbeBarrier
<1>2. CASE BarrierFails(n, a)
  <2>1. OwnSession(n, a) /\ (phase'[n][a] = "signed" => phase[n][a] = "signed")
    BY <1>0, <1>2 DEF BarrierFails, OwnSession, Phases
  <2> QED BY <1>0, <1>1, <1>2, <2>1, OwnError DEF BarrierFails
<1>3. ASSUME NEW p \in Node, ProbeBarrier(n, a, p) PROVE StreamInv' /\ OwnSession(n, a)
  <2>1. OwnSession(n, a) /\ (phase'[n][a] = "signed" => phase[n][a] = "signed")
    BY <1>0, <1>3 DEF ProbeBarrier, OwnSession
  <2> QED BY <1>0, <1>1, <1>3, <2>1, OwnQuiet DEF ProbeBarrier, RestTypes, TypeOK
<1> QED BY <1>1, <1>2, <1>3

\* Starting a party makes itself heard in other sessions, of the same request.
LEMMA StartSigningStep ==
  ASSUME StreamInv, NEW n \in Node, NEW a \in Attempt, StartSigning(n, a)
  PROVE  StreamInv'
<1>0. TypeOK /\ RunTypes
  BY DEF StreamInv, TypeOK, RunTypes
<1>1. a <= attempts
  BY BegunIsPublished DEF StartSigning
<1>2. RunTypes'
  <2>1. phase' \in [Node -> [Attempt -> Phases]]
    BY <1>0 DEF StartSigning, GoTo, RunTypes, Phases
  <2>2. heard' \in [Node -> [Attempt -> SUBSET Node]]
    BY <1>0 DEF StartSigning, RunTypes
  <2>3. signers' \in [Request -> SUBSET Node]
    BY <1>0 DEF StartSigning, RunTypes
  <2>4. probed' \in [Node -> [Attempt -> SUBSET Node]]
    BY <1>0 DEF StartSigning, RunTypes
  <2> QED BY <1>0, <2>1, <2>2, <2>3, <2>4 DEF StartSigning, RunTypes
<1>3. ASSUME NEW m \in Node, NEW b \in Attempt, b > attempts
      PROVE  /\ phase'[m][b] = phase[m][b] /\ heard'[m][b] = heard[m][b]
             /\ failing'[m][b] = failing[m][b]
  <2>1. a # b
    BY <1>1, <1>3, BoundAssumption DEF StreamInv, TypeOK, Attempt
  <2>2. phase[m][b] = "none"
    BY <1>3 DEF StreamInv, FreshAttempts
  <2>3. heard'[m][b] = heard[m][b]
    BY <2>2 DEF StartSigning
  <2>4. phase'[m][b] = phase[m][b]
    BY <1>0, <2>1 DEF StartSigning, GoTo, RunTypes
  <2> QED BY <2>3, <2>4 DEF StartSigning
<1>4. \A m \in Node, b \in Attempt : phase'[m][b] = "signed" => phase[m][b] = "signed"
  BY <1>0 DEF StartSigning, GoTo, RunTypes
<1> QED BY <1>0, <1>1, <1>2, <1>3, <1>4, QuietStep DEF StartSigning, RestTypes, TypeOK

LEMMA FinishStep ==
  ASSUME StreamInv, NEW n \in Node, NEW a \in Attempt, NEW k \in {"secp256k1", "ed25519"},
         Finish(n, a, k)
  PROVE  StreamInv' /\ OwnSession(n, a) /\ a <= attempts /\ QueueStep(a, Signature(k, n))
<1> USE DEF GoTo, Forget, Stop, RunTypes
<1>0. TypeOK /\ RunTypes
  BY DEF StreamInv, TypeOK
<1>1. a <= attempts
  BY BegunIsPublished DEF Finish, PartyFinished
<1>2. OwnSession(n, a)
  BY <1>0 DEF Finish, OwnSession, Phases
<1>3. QueueStep(a, Signature(k, n)) /\ Signature(k, n) \in Results
  BY <1>0, ResultTypes, EnqueueStep DEF Finish
<1>4. result'[a] # NoResult
  BY <1>0, ResultTypes DEF Finish, Enqueue, TypeOK
<1> QED BY <1>0, <1>1, <1>2, <1>3, <1>4, OwnAnswer DEF Finish, RestTypes, TypeOK

LEMMA RunOwn ==
  ASSUME StreamInv, NEW n \in Node, NEW a \in Attempt,
         \/ SignFails(n, a) \/ SignStopped(n, a) \/ OnSuccess(n, a)
         \/ SessionError(n, a) \/ WatchError(n, a)
  PROVE  StreamInv' /\ OwnSession(n, a) /\ a <= attempts
<1> USE DEF GoTo, Forget, Stop, RunTypes
<1>0. TypeOK /\ RunTypes
  BY DEF StreamInv, TypeOK
<1>1. a <= attempts
  BY BegunIsPublished
  DEF SignFails, PartyFinished, SignStopped, OnSuccess, SessionError, WatchError, Subscribed
<1>2. {"ended", "stuck"} \subseteq Phases
  BY DEF Phases
<1>3. CASE SignFails(n, a)
  <2>1. OwnSession(n, a) /\ (phase'[n][a] = "signed" => phase[n][a] = "signed")
    BY <1>0, <1>2, <1>3 DEF SignFails, OwnSession
  <2> QED BY <1>0, <1>1, <1>3, <2>1, FaultType, OwnQuiet DEF SignFails, RestTypes, TypeOK
<1>4. CASE SignStopped(n, a)
  <2>1. OwnSession(n, a) /\ (phase'[n][a] = "signed" => phase[n][a] = "signed")
    BY <1>0, <1>2, <1>4 DEF SignStopped, OwnSession
  <2> QED BY <1>0, <1>1, <1>4, <2>1, OwnQuiet DEF SignStopped, RestTypes, TypeOK
<1>5. CASE OnSuccess(n, a)
  <2>1. OwnSession(n, a) /\ (phase'[n][a] = "signed" => phase[n][a] = "signed")
    BY <1>0, <1>2, <1>5 DEF OnSuccess, OwnSession
  <2>2. RestTypes'
    BY <1>0, <1>5, FaultType DEF OnSuccess, RestTypes, TypeOK
  <2>3. QueueStep(a, NoResult)
    BY <1>5 DEF StreamInv, SignedHasResult, OnSuccess, QueueStep, Reply
  <2> QED BY <1>1, <1>5, <2>1, <2>2, <2>3, ResultTypes, OwnAnswer DEF OnSuccess
<1>6. CASE SessionError(n, a)
  <2>1. OwnSession(n, a) /\ (phase'[n][a] = "signed" => phase[n][a] = "signed")
    BY <1>0, <1>6 DEF SessionError, OwnSession
  <2>2. RestTypes'
    BY <1>0, <1>6, FaultType DEF SessionError, RestTypes, TypeOK
  <2> QED BY <1>1, <1>6, <2>1, <2>2, OwnQuiet DEF SessionError
<1>7. CASE WatchError(n, a)
  <2>1. OwnSession(n, a) /\ (phase'[n][a] = "signed" => phase[n][a] = "signed")
    BY <1>0, <1>7 DEF WatchError, OwnSession
  <2> QED BY <1>0, <1>1, <1>7, <2>1, OwnError DEF WatchError
<1> QED BY <1>1, <1>3, <1>4, <1>5, <1>6, <1>7

LEMMA CrashStep ==
  ASSUME StreamInv, NEW n \in Node, Crash(n) \/ Restart(n) PROVE StreamInv'
<1>1. CASE Crash(n)
  <2> USE <1>1 DEF Crash
  <2>0. TypeOK /\ faults' \in 0..MaxFaults /\ Unsubscribe(n)
    BY FaultType DEF StreamInv
  <2>1. StreamTypes' /\ RestTypes'
    BY <2>0, UnsubscribeStep, BoundAssumption DEF TypeOK, StreamTypes, RestTypes
  <2>2. phase' \in [Node -> [Attempt -> Phases]]
    BY <2>0 DEF TypeOK, Phases
  <2>3. RunTypes'
    BY <2>0, <2>2 DEF TypeOK, RunTypes
  <2>4. QueueTypes'
    BY <2>0, UnsubscribeStep, TypeParts DEF QueueTypes
  <2>5. StoredHasDelivery' /\ OneOrigin'
    BY DEF StreamInv, StoredHasDelivery, OneOrigin
  <2>6. InboxDelivered'
    BY <2>0, BoundAssumption DEF StreamInv, InboxDelivered, TypeOK
  <2>7. FreshAttempts'
    <3>1. ASSUME NEW b \in Attempt, b > attempts
          PROVE  \A m \in Node : phase'[m][b] = "none" /\ heard'[m][b] = {} /\ ~failing'[m][b]
      <4>1. ~(b <= attempts)
        BY <2>0, <3>1, BoundAssumption DEF TypeOK, Attempt
      <4> QED BY <2>0, <3>1, <4>1 DEF StreamInv, FreshAttempts, TypeOK
    <3> QED BY <2>0, <3>1, UnsubscribeStep DEF StreamInv, FreshAttempts
  <2>8. RepliedHasResult'
    BY <2>0, UnsubscribeStep DEF StreamInv, RepliedHasResult
  <2>9. SignedHasResult'
    BY <2>0 DEF StreamInv, SignedHasResult, TypeOK
  <2> QED BY <2>1, <2>3, <2>4, <2>5, <2>6, <2>7, <2>8, <2>9, TypeParts DEF StreamInv
<1>2. CASE Restart(n)
  BY <1>2
  DEF Restart, StreamInv, TypeOK, StoredHasDelivery, InboxDelivered, FreshAttempts,
      OneOrigin, RepliedHasResult, SignedHasResult, streamVars, runVars, queueVars
<1> QED BY <1>1, <1>2

LEMMA StutterStream == ASSUME StreamInv, UNCHANGED vars PROVE StreamInv'
  BY DEF vars, StreamInv, TypeOK, StoredHasDelivery, InboxDelivered, FreshAttempts,
         OneOrigin, RepliedHasResult, SignedHasResult, streamVars, runVars, queueVars

LEMMA NextStream == StreamInv /\ [Next]_vars => StreamInv'
<1> SUFFICES ASSUME StreamInv, [Next]_vars PROVE StreamInv'
  OBVIOUS
<1>1. ASSUME NEW n \in Node, NEW a \in Attempt, Barrier(n, a) PROVE StreamInv'
  BY <1>1, BarrierOwn, StartSigningStep DEF Barrier
<1>2. ASSUME NEW n \in Node, NEW a \in Attempt, Run(n, a) PROVE StreamInv'
  BY <1>2, FinishStep, RunOwn DEF Run, EcdsaSign, EddsaSign
<1> QED BY <1>1, <1>2, StreamStep, ConsumeStep, CrashStep, AdmitStep, StutterStream DEF Next

LEMMA StreamInvHolds == Spec => []StreamInv
  BY InitStream, NextStream, PTL DEF Spec

-----------------------------------------------------------------------------
(* Second invariant: what the sessions of the nodes are entitled to.       *)


\* A request has one content, and none before it is submitted.
OneContent ==
  \A r \in Request :
    /\ message[r] = "absent" => request[r] = {}
    /\ \A m1, m2 \in request[r] : m1 = m2

\* A node is in the barrier or signs on its own check of the request, in a
\* committee of at least t + 1.
SessionChecked ==
  \A n \in Node, a \in Attempt : phase[n][a] \in {"barrier", "signing"} =>
    Authentic(a) /\ Sufficient(committee[n][a])

\* A party that signs, or that has been heard, has started.
PartyStarted ==
  \A n \in Node, a \in Attempt : \A r \in origin[a] :
    /\ phase[n][a] = "signing" => n \in signers[r]
    /\ heard[n][a] \subseteq signers[r]

SessionInv ==
  /\ OneContent
  /\ SessionChecked
  /\ PartyStarted
  /\ SignatureIsAuthorised

LEMMA InitSession == Init => SessionInv
  BY DEF Init, SessionInv, OneContent, SessionChecked, PartyStarted,
         SignatureIsAuthorised, NoResult, Attempt

\* Every required authorizer and the initiator have signed m.
LEMMA AuthenticMeansSigned ==
  ASSUME NEW m \in Message, VerifyInitiatorMessage(m), AuthorizeInitiatorMessage(m)
  PROVE  /\ m.Signature = [key |-> "initiator", over |-> m.Raw]
         /\ authConfig.Enabled => \A id \in authConfig.RequiredAuthorizers :
              \E sig \in m.AuthorizerSignatures :
                /\ sig.AuthorizerID = id /\ sig.key = id
                /\ sig.over = [InitiatorRaw |-> m.Raw, InitiatorSig |-> m.Signature]
<1>1. m.Signature \in [key : STRING, over : STRING]
  BY MessageAssumption DEF InitiatorSignature
<1>2. m.Signature.key = "initiator" /\ m.Signature.over = m.Raw
  BY DEF VerifyInitiatorMessage, verifyEd25519, verifyP256, Signed
<1>3. m.Signature = [key |-> "initiator", over |-> m.Raw]
  BY <1>1, <1>2
<1>4. ASSUME authConfig.Enabled, NEW id \in authConfig.RequiredAuthorizers
      PROVE  \E sig \in m.AuthorizerSignatures :
                /\ sig.AuthorizerID = id /\ sig.key = id
                /\ sig.over = [InitiatorRaw |-> m.Raw, InitiatorSig |-> m.Signature]
  <2>1. PICK sig \in m.AuthorizerSignatures : sig.AuthorizerID = id
    BY <1>4 DEF AuthorizeInitiatorMessage, RequiredPresent
  <2>2. verifyAuthorizerSignature(ComposeAuthorizerRaw(m), sig)
    BY <1>4, <2>1 DEF AuthorizeInitiatorMessage
  <2> QED BY <2>1, <2>2 DEF verifyAuthorizerSignature, Signed, ComposeAuthorizerRaw
<1> QED BY <1>3, <1>4

\* A result is taken over as it is, or it is no signature.
NoNewSignature ==
  \A a \in Attempt : result'[a] = result[a] \/ result'[a].kind \in {"none", "error"}

LEMMA ErrorIsNoSignature ==
  ASSUME TypeOK, NEW a \in Attempt, NEW n \in Node,
         QueueStep(a, ErrorResult(n)) \/ QueueStep(a, NoResult)
  PROVE  NoNewSignature
<1>1. ErrorResult(n).kind = "error" /\ NoResult.kind = "none"
  BY DEF ErrorResult, NoResult
<1>2. result \in [Attempt -> Results]
  BY TypeParts DEF QueueTypes
<1> QED BY <1>1, <1>2 DEF QueueStep, NoNewSignature

\* What is authorised stays so while requests and origins are kept.
LEMMA SignaturesKept ==
  ASSUME SessionInv, NoNewSignature, UNCHANGED <<request, origin, signers>>
  PROVE  SignatureIsAuthorised'
<1> SUFFICES ASSUME NEW a \in Attempt, result'[a].kind \notin {"none", "error"}
             PROVE  result'[a] = result[a]
  BY DEF SessionInv, SignatureIsAuthorised
<1> QED BY DEF NoNewSignature

\* A step of a session that neither starts a party nor finishes one.
LEMMA SessionKept ==
  ASSUME SessionInv, NEW n \in Node, NEW a \in Attempt, OwnSession(n, a),
         UNCHANGED streamVars, NoNewSignature,
         phase'[n][a] \in {"barrier", "signing"} =>
           Authentic(a) /\ Sufficient(committee'[n][a]),
         phase'[n][a] = "signing" => phase[n][a] = "signing",
         heard'[n][a] \subseteq heard[n][a]
  PROVE  SessionInv'
<1> USE DEF streamVars
<1>1. OneContent'
  BY DEF SessionInv, OneContent
<1>2. SessionChecked'
  <2>1. \A b \in Attempt : Authentic(b)' <=> Authentic(b)
    BY DEF Authentic, Content
  <2> QED BY <2>1 DEF SessionInv, SessionChecked, OwnSession, Sufficient
<1>3. PartyStarted'
  BY DEF SessionInv, PartyStarted, OwnSession
<1>4. SignatureIsAuthorised'
  BY SignaturesKept DEF OwnSession
<1> QED BY <1>1, <1>2, <1>3, <1>4 DEF SessionInv

\* A step of the stream or of a consumer that makes no new attempt and stores
\* no new request.
LEMMA ConsumerKept ==
  ASSUME SessionInv,
         UNCHANGED <<request, origin, result, phase, committee, heard, signers>>,
         \A r \in Request : message'[r] = "absent" => message[r] = "absent"
  PROVE  SessionInv'
<1>1. OneContent'
  BY DEF SessionInv, OneContent
<1>2. \A b \in Attempt : Authentic(b)' <=> Authentic(b)
  BY DEF Authentic, Content
<1>3. SessionChecked'
  BY <1>2 DEF SessionInv, SessionChecked, Sufficient
<1>4. PartyStarted' /\ SignatureIsAuthorised'
  BY DEF SessionInv, PartyStarted, SignatureIsAuthorised
<1> QED BY <1>1, <1>3, <1>4 DEF SessionInv

\* A client may submit a request whatever the nodes do: nobody works on it.
LEMMA SubmitSession ==
  ASSUME StreamInv, SessionInv, NEW r \in Request, NEW m \in Message, SignTransaction(r, m)
  PROVE  SessionInv'
<1> USE DEF SignTransaction, runVars, queueVars
<1>1. request \in [Request -> SUBSET Message] /\ message[r] = "absent"
      /\ message \in [Request -> {"absent", "stored", "delivered", "acked", "exhausted"}]
  BY DEF StreamInv, TypeOK
<1>2. OneContent'
  BY <1>1 DEF SessionInv, OneContent
<1>3. \A a \in Attempt : \A q \in origin[a] : q \in Request /\ q # r
  BY <1>1 DEF StreamInv, TypeOK, OneOrigin
<1>4. \A a \in Attempt : \A q \in origin[a] : request'[q] = request[q]
  BY <1>1, <1>3
<1>5. \A a \in Attempt : Authentic(a)' <=> Authentic(a)
  BY <1>4 DEF Authentic, Content
<1>6. SessionChecked'
  BY <1>5 DEF SessionInv, SessionChecked, Sufficient
<1>7. PartyStarted'
  BY DEF SessionInv, PartyStarted
<1>8. SignatureIsAuthorised'
  BY <1>4 DEF SessionInv, SignatureIsAuthorised
<1> QED BY <1>2, <1>6, <1>7, <1>8 DEF SessionInv

LEMMA PublishEventSession ==
  ASSUME StreamInv, SessionInv, NEW n \in Node, NEW r \in Request, PublishEvent(n, r)
  PROVE  SessionInv'
<1> DEFINE new == attempts'
<1>1. /\ new \in Attempt /\ new > attempts /\ origin' = [origin EXCEPT ![new] = {r}]
      /\ UNCHANGED <<message, request, result, committee, heard, signers>>
  BY BoundAssumption DEF PublishEvent, StreamInv, TypeOK, Attempt, queueVars
<1>2. /\ \A b \in Attempt : b # new => origin'[b] = origin[b]
      /\ result[new] = NoResult /\ \A m \in Node : heard[m][new] = {}
  BY <1>1 DEF StreamInv, FreshAttempts, TypeOK
<1>3. \A m \in Node, b \in Attempt :
        IF b = new THEN phase'[m][b] \in {"queued", "ended"} ELSE phase'[m][b] = phase[m][b]
  <2>1. PICK missed \in SUBSET {m \in Node : up[m]} :
          phase' = [m \in Node |-> [phase[m] EXCEPT
            ![new] = IF up[m] /\ m \notin missed THEN "queued" ELSE "ended"]]
    BY DEF PublishEvent
  <2>2. phase \in [Node -> [Attempt -> Phases]]
    BY DEF StreamInv, TypeOK
  <2> QED BY <1>1, <2>1, <2>2
<1>4. OneContent'
  BY <1>1 DEF SessionInv, OneContent
<1>5. \A b \in Attempt : b # new => (Authentic(b)' <=> Authentic(b))
  BY <1>1, <1>2 DEF Authentic, Content
<1>6. SessionChecked'
  BY <1>1, <1>3, <1>5 DEF SessionInv, SessionChecked, Sufficient
<1>7. PartyStarted'
  BY <1>1, <1>2, <1>3 DEF SessionInv, PartyStarted
<1>8. SignatureIsAuthorised'
  <2>1. NoResult.kind = "none"
    BY DEF NoResult
  <2>2. \A b \in Attempt : result'[b].kind \notin {"none", "error"} => b # new
    BY <1>1, <1>2, <2>1
  <2> QED BY <1>1, <1>2, <2>2 DEF SessionInv, SignatureIsAuthorised
<1> QED BY <1>4, <1>6, <1>7, <1>8 DEF SessionInv

LEMMA ConsumeSession ==
  ASSUME StreamInv, SessionInv, NEW n \in Node, Consume(n) PROVE SessionInv'
<1>1. ASSUME NEW r \in Request, PublishEvent(n, r) PROVE SessionInv'
  BY <1>1, PublishEventSession
<1> DEFINE Kept ==
      /\ UNCHANGED <<request, origin, result, phase, committee, heard, signers>>
      /\ \A r \in Request : message'[r] = "absent" => message[r] = "absent"
<1>2. ASSUME ~\E r \in Request : PublishEvent(n, r) PROVE Kept
  <2> USE DEF runVars, queueVars, streamVars
  <2>1. message \in [Request -> {"absent", "stored", "delivered", "acked", "exhausted"}]
    BY DEF StreamInv, TypeOK
  <2>2. ASSUME NEW r, Acknowledge(r) \/ message' = message
        PROVE  \A q \in Request : message'[q] = "absent" => message[q] = "absent"
    BY <2>1, <2>2 DEF Acknowledge
  <2>3. ASSUME NEW r \in Request, RejectRequest(n, r) PROVE Kept
    BY <2>2, <2>3 DEF RejectRequest
  <2>4. ASSUME NEW r \in Request, PublishFails(n, r) PROVE Kept
    BY <2>4, RedeliverStep DEF PublishFails
  <2>5. ASSUME NEW r \in Request, HandleAdvisory(n, r) \/ cleanupStaleSessions(n, r) PROVE Kept
    BY <2>5 DEF HandleAdvisory, cleanupStaleSessions
  <2>6. CASE AckOnReply(n) \/ AckFails(n)
    BY <2>2, <2>6 DEF AckOnReply, AckFails
  <2>7. CASE NakOnTimeout(n)
    <3>1. PICK r \in origin[waiting[n]] : Redeliver(r)
      BY <2>7 DEF NakOnTimeout
    <3>2. r \in Request
      BY <2>7, <3>1, BoundAssumption DEF NakOnTimeout, StreamInv, TypeOK, Attempt
    <3> QED BY <2>7, <3>1, <3>2, RedeliverStep DEF NakOnTimeout
  <2> QED BY <1>2, <2>3, <2>4, <2>5, <2>6, <2>7 DEF Consume
<1> QED BY <1>1, <1>2, ConsumerKept

LEMMA StreamSession ==
  ASSUME StreamInv, SessionInv, NEW r \in Request, Stream(r) PROVE SessionInv'
<1> USE DEF runVars, queueVars
<1>1. ASSUME NEW m \in Message, SignTransaction(r, m) PROVE SessionInv'
  BY <1>1, SubmitSession
<1>2. CASE AckWaitExpires(r)
  BY <1>2, RedeliverStep, ConsumerKept DEF AckWaitExpires
<1>3. ASSUME NEW n \in Node, Deliver(n, r) PROVE SessionInv'
  <2>1. \A q \in Request : message'[q] = "absent" => message[q] = "absent"
    BY <1>3 DEF Deliver, StreamInv, TypeOK
  <2> QED BY <1>3, <2>1, ConsumerKept DEF Deliver
<1> QED BY <1>1, <1>2, <1>3 DEF Stream

\* The handler makes a session only of a request that it has verified, with a
\* committee of at least t + 1.
LEMMA AdmitSession ==
  ASSUME StreamInv, SessionInv, NEW n \in Node, NEW a \in Attempt, Admit(n, a)
  PROVE  SessionInv'
<1> USE DEF GoTo
<1>0. TypeOK /\ phase \in [Node -> [Attempt -> Phases]] /\ OwnSession(n, a)
  BY AdmitStep DEF StreamInv, TypeOK
<1>1. CASE DropUnauthentic(n, a) \/ SkipNotParticipant(n, a)
  <2>1. NoNewSignature
    BY <1>1 DEF DropUnauthentic, SkipNotParticipant, queueVars, NoNewSignature
  <2>2. phase'[n][a] = "ended" /\ heard' = heard
    BY <1>0, <1>1 DEF DropUnauthentic, SkipNotParticipant
  <2> QED BY <1>0, <1>1, <2>1, <2>2, SessionKept DEF DropUnauthentic, SkipNotParticipant
<1>2. CASE RefuseDuplicate(n, a) \/ RefuseSession(n, a)
  <2>1. QueueStep(a, ErrorResult(n))
    <3>1. CASE handleSigningSessionError(n, a)
      BY <1>0, <1>2, <3>1, ErrorStep DEF RefuseDuplicate, RefuseSession
    <3>2. CASE Enqueue(a, ErrorResult(n)) /\ Reply(a) /\ UNCHANGED <<lost, refused>>
      BY <1>0, <3>2, ResultTypes, EnqueueStep DEF Reply
    <3> QED BY <1>2, <3>1, <3>2 DEF RefuseDuplicate, RefuseSession
  <2>2. phase'[n][a] = "ended" /\ heard' = heard /\ UNCHANGED streamVars
    BY <1>0, <1>2 DEF RefuseDuplicate, RefuseSession
  <2> QED BY <1>0, <2>1, <2>2, ErrorIsNoSignature, SessionKept
<1>3. CASE CreateSigningSession(n, a)
  <2>1. PICK ready \in SUBSET Node :
          /\ Sufficient(getReadyPeersForSession(ready))
          /\ committee' = [committee EXCEPT ![n][a] = getReadyPeersForSession(ready)]
    BY <1>3 DEF CreateSigningSession
  <2>2. Sufficient(committee'[n][a])
    BY <1>0, <2>1 DEF TypeOK
  <2>3. phase'[n][a] = "barrier" /\ heard' = heard /\ UNCHANGED streamVars /\ Authentic(a)
    BY <1>0, <1>3 DEF CreateSigningSession
  <2>4. NoNewSignature
    BY <1>3 DEF CreateSigningSession, queueVars, NoNewSignature
  <2> QED BY <1>0, <2>2, <2>3, <2>4, SessionKept
<1> QED BY <1>1, <1>2, <1>3 DEF Admit

\* The steps of a session that end it or keep its phase.
LEMMA QuietSession ==
  ASSUME StreamInv, SessionInv, NEW n \in Node, NEW a \in Attempt,
         \/ BarrierFails(n, a) \/ \E p \in Node : ProbeBarrier(n, a, p)
         \/ SignFails(n, a) \/ SignStopped(n, a) \/ OnSuccess(n, a)
         \/ SessionError(n, a) \/ WatchError(n, a)
  PROVE  SessionInv'
<1> USE DEF GoTo, Forget
<1>0. TypeOK /\ RunTypes /\ OwnSession(n, a)
  BY BarrierOwn, RunOwn, TypeParts DEF StreamInv
<1>1. NoNewSignature
  <2>1. CASE BarrierFails(n, a) \/ WatchError(n, a)
    BY <1>0, <2>1, ErrorStep, ErrorIsNoSignature DEF BarrierFails, WatchError
  <2>2. CASE result' = result
    BY <2>2 DEF NoNewSignature
  <2> QED BY <2>1, <2>2
          DEF ProbeBarrier, SignFails, SignStopped, OnSuccess, SessionError, queueVars
<1>2. \/ phase'[n][a] = phase[n][a] /\ committee'[n][a] = committee[n][a]
      \/ phase'[n][a] \in {"stuck", "ended"}
  BY <1>0
  DEF BarrierFails, ProbeBarrier, SignFails, SignStopped, OnSuccess, SessionError, WatchError,
      RunTypes
<1>3. heard'[n][a] \subseteq heard[n][a]
  BY <1>0
  DEF BarrierFails, ProbeBarrier, SignFails, SignStopped, OnSuccess, SessionError, WatchError,
      RunTypes
<1>4. UNCHANGED streamVars
  BY DEF BarrierFails, ProbeBarrier, SignFails, SignStopped, OnSuccess, SessionError, WatchError
<1>5. phase[n][a] \in {"barrier", "signing"} => Authentic(a) /\ Sufficient(committee[n][a])
  BY DEF SessionInv, SessionChecked
<1> QED BY <1>0, <1>1, <1>2, <1>3, <1>4, <1>5, SessionKept

\* The party of n starts, and those who hear of it work on the same request.
LEMMA StartSession ==
  ASSUME StreamInv, SessionInv, NEW n \in Node, NEW a \in Attempt, StartSigning(n, a)
  PROVE  SessionInv'
<1>0. RunTypes /\ origin \in [Attempt -> SUBSET Request] /\ UNCHANGED <<streamVars, queueVars>>
  BY TypeParts DEF StreamInv, StreamTypes, StartSigning
<1>1. UNCHANGED <<message, request, origin, result, committee>>
  BY DEF StartSigning, streamVars, queueVars
<1>2. \A m \in Node, b \in Attempt : Authentic(b)' <=> Authentic(b)
  BY <1>1 DEF Authentic, Content
<1>3. \A m \in Node, b \in Attempt :
        phase'[m][b] = IF m = n /\ b = a THEN "signing" ELSE phase[m][b]
  BY <1>0 DEF StartSigning, GoTo, RunTypes
<1>4. /\ \A r \in Request : signers[r] \subseteq signers'[r]
      /\ \A r \in origin[a] : n \in signers'[r]
  BY <1>0 DEF StartSigning, RunTypes
<1>5. \A m \in Node, b \in Attempt :
        \/ heard'[m][b] = heard[m][b]
        \/ heard'[m][b] = heard[m][b] \cup {n} /\ origin[b] = origin[a]
  BY <1>0 DEF StartSigning, SameTopics
<1>6. OneContent'
  BY <1>1 DEF SessionInv, OneContent
<1>7. SessionChecked'
  <2>1. Authentic(a) /\ Sufficient(committee[n][a])
    BY DEF StartSigning, SessionInv, SessionChecked
  <2> QED BY <1>1, <1>2, <1>3, <2>1 DEF SessionInv, SessionChecked, Sufficient
<1>8. PartyStarted'
  <2> SUFFICES ASSUME NEW m \in Node, NEW b \in Attempt, NEW r \in origin[b]
               PROVE  /\ phase'[m][b] = "signing" => m \in signers'[r]
                      /\ heard'[m][b] \subseteq signers'[r]
    BY <1>1 DEF PartyStarted
  <2>1. r \in Request /\ signers[r] \subseteq signers'[r]
    BY <1>0, <1>4
  <2>2. phase[m][b] = "signing" => m \in signers[r]
    BY DEF SessionInv, PartyStarted
  <2>3. heard[m][b] \subseteq signers[r]
    BY DEF SessionInv, PartyStarted
  <2> QED BY <1>3, <1>4, <1>5, <2>1, <2>2, <2>3
<1>9. SignatureIsAuthorised'
  <2> SUFFICES ASSUME NEW b \in Attempt, result[b].kind \notin {"none", "error"},
                      NEW r \in origin[b]
               PROVE  Cardinality(signers'[r]) >= Threshold + 1
    BY <1>1 DEF SessionInv, SignatureIsAuthorised
  <2>1. Cardinality(signers[r]) >= Threshold + 1
    BY DEF SessionInv, SignatureIsAuthorised
  <2>2. r \in Request /\ signers[r] \subseteq signers'[r]
    BY <1>0, <1>4
  <2>3. signers'[r] \subseteq Node
    BY <2>2, StartSigningStep, TypeParts DEF StreamInv, RunTypes
  <2>4. IsFiniteSet(signers'[r])
    BY <2>3, NodeAssumption, FS_Subset
  <2>5. /\ Cardinality(signers[r]) <= Cardinality(signers'[r])
        /\ Cardinality(signers[r]) \in Nat /\ Cardinality(signers'[r]) \in Nat
    BY <2>2, <2>4, FS_Subset, FS_CardinalityType
  <2> QED BY <2>1, <2>5, BoundAssumption
<1> QED BY <1>6, <1>7, <1>8, <1>9 DEF SessionInv

\* Whoever finishes has heard t + 1 parties, its own among them, each started
\* by a node that had checked the request.
LEMMA FinishSession ==
  ASSUME StreamInv, SessionInv, NEW n \in Node, NEW a \in Attempt,
         NEW k \in {"secp256k1", "ed25519"}, \E m \in Content(a) : m.KeyType = k,
         Finish(n, a, k)
  PROVE  SessionInv'
<1>0. /\ TypeOK /\ OwnSession(n, a) /\ QueueStep(a, Signature(k, n))
      /\ phase[n][a] = "signing" /\ heard[n][a] = committee[n][a] \ {n}
      /\ UNCHANGED streamVars
  BY FinishStep DEF StreamInv, Finish, PartyFinished
<1>1. UNCHANGED <<message, request, origin, signers>>
  BY <1>0 DEF OwnSession, streamVars
<1>2. OneContent'
  BY <1>1 DEF SessionInv, OneContent
<1>3. phase'[n][a] = "signed" /\ heard'[n][a] = {}
  BY <1>0 DEF Finish, GoTo, Forget, TypeOK
<1>4. SessionChecked'
  <2>1. \A b \in Attempt : Authentic(b)' <=> Authentic(b)
    BY <1>1 DEF Authentic, Content
  <2> QED BY <1>0, <1>3, <2>1 DEF SessionInv, SessionChecked, OwnSession, Sufficient
<1>5. PartyStarted'
  BY <1>0, <1>1, <1>3 DEF SessionInv, PartyStarted, OwnSession
<1>6. ASSUME NEW r \in origin[a]
      PROVE  /\ Cardinality(signers[r]) >= Threshold + 1
             /\ \A m \in request[r] :
                  m.KeyType = k /\ VerifyInitiatorMessage(m) /\ AuthorizeInitiatorMessage(m)
                  /\ m \in Message
  <2>1. r \in Request /\ origin[a] = {r}
    BY <1>0 DEF StreamInv, TypeOK, OneOrigin
  <2>2. Content(a) = request[r] /\ request[r] \subseteq Message
    BY <1>0, <2>1 DEF Content, TypeOK
  <2>3. Authentic(a) /\ Sufficient(committee[n][a])
    BY <1>0 DEF SessionInv, SessionChecked
  <2>4. committee[n][a] \subseteq signers[r]
    BY <1>0 DEF SessionInv, PartyStarted
  <2>5. IsFiniteSet(signers[r])
    BY <1>0, <2>1, NodeAssumption, FS_Subset DEF TypeOK
  <2>6. /\ Cardinality(committee[n][a]) <= Cardinality(signers[r])
        /\ Cardinality(committee[n][a]) \in Nat /\ Cardinality(signers[r]) \in Nat
    BY <2>4, <2>5, FS_Subset, FS_CardinalityType
  <2>7. Cardinality(signers[r]) >= Threshold + 1
    BY <2>3, <2>6, BoundAssumption DEF Sufficient
  <2>8. \A m \in request[r] : m.KeyType = k
    BY <2>1, <2>2 DEF SessionInv, OneContent
  <2> QED BY <2>2, <2>3, <2>7, <2>8 DEF Authentic
<1>7. SignatureIsAuthorised'
  <2> SUFFICES ASSUME NEW b \in Attempt, result'[b].kind \notin {"none", "error"}
               PROVE  \/ result'[b] = result[b]
                      \/ b = a /\ result'[b].kind = k
    BY <1>1, <1>6, AuthenticMeansSigned DEF SessionInv, SignatureIsAuthorised
  <2>1. Signature(k, n).kind = k
    BY DEF Signature
  <2> QED BY <1>0, <2>1 DEF QueueStep, TypeOK
<1> QED BY <1>2, <1>4, <1>5, <1>7 DEF SessionInv

LEMMA CrashSession ==
  ASSUME StreamInv, SessionInv, NEW n \in Node, Crash(n) \/ Restart(n) PROVE SessionInv'
<1>1. CASE Restart(n)
  BY <1>1, ConsumerKept DEF Restart, streamVars, runVars, queueVars
<1>2. CASE Crash(n)
  <2>0. UNCHANGED <<message, request, origin, signers, result>>
    BY <1>2 DEF Crash
  <2>1. \A m \in Node, b \in Attempt :
          \/ phase'[m][b] \in {"ended", "none"} /\ heard'[m][b] = {}
          \/ /\ phase'[m][b] = phase[m][b] /\ heard'[m][b] = heard[m][b]
             /\ committee'[m][b] = committee[m][b]
    BY <1>2 DEF Crash, StreamInv, TypeOK
  <2>2. OneContent' /\ SignatureIsAuthorised'
    BY <2>0 DEF SessionInv, OneContent, SignatureIsAuthorised
  <2>3. \A b \in Attempt : Authentic(b)' <=> Authentic(b)
    BY <2>0 DEF Authentic, Content
  <2>4. SessionChecked'
    BY <2>1, <2>3 DEF SessionInv, SessionChecked, Sufficient
  <2>5. PartyStarted'
    BY <2>0, <2>1 DEF SessionInv, PartyStarted
  <2> QED BY <2>2, <2>4, <2>5 DEF SessionInv
<1> QED BY <1>1, <1>2

LEMMA NextSession == StreamInv /\ SessionInv /\ [Next]_vars => SessionInv'
<1> SUFFICES ASSUME StreamInv, SessionInv, [Next]_vars PROVE SessionInv'
  OBVIOUS
<1>1. ASSUME NEW n \in Node, NEW a \in Attempt, Barrier(n, a) PROVE SessionInv'
  BY <1>1, QuietSession, StartSession DEF Barrier
<1>2. ASSUME NEW n \in Node, NEW a \in Attempt, Run(n, a) PROVE SessionInv'
  BY <1>2, FinishSession, QuietSession DEF Run, EcdsaSign, EddsaSign
<1>3. CASE UNCHANGED vars
  BY <1>3, ConsumerKept DEF vars, streamVars, runVars, queueVars
<1> QED BY <1>1, <1>2, <1>3, StreamSession, ConsumeSession, CrashSession, AdmitSession DEF Next

LEMMA SessionInvHolds == Spec => []SessionInv
  BY StreamInvHolds, InitSession, NextSession, PTL DEF Spec

-----------------------------------------------------------------------------
\* Every variable of the pipeline keeps its type, with any number of nodes,
\* requests, attempts and faults.
THEOREM SigningTypeCorrect == Spec => []TypeOK
<1>1. StreamInv => TypeOK
  BY DEF StreamInv
<1> QED BY <1>1, StreamInvHolds, PTL

\* No client receives a signature that the initiator and the required
\* authorizers have not signed for, that fewer than t + 1 nodes have taken part
\* in, or that is of another curve, whatever is delivered again, crashes or
\* times out (handleSigningEvent, VerifyInitiatorMessage and
\* AuthorizeInitiatorMessage of the nodes).
THEOREM SignaturesAreAuthorised == Spec => []SignatureIsAuthorised
<1>1. SessionInv => SignatureIsAuthorised
  BY DEF SessionInv
<1> QED BY <1>1, SessionInvHolds, PTL

-----------------------------------------------------------------------------
(* The pipeline implements RequestService.                                 *)

Submitted == {r \in Request : message[r] # "absent"}
Retired == {r \in Request : message[r] = "acked"}

LEMMA InitRefines == Init => Service!Init
  BY DEF Init, Service!Init, Answered

LEMMA StutterRefines ==
  ASSUME Submitted' = Submitted, Answered' = Answered, lost' = lost, Retired' = Retired
  PROVE  UNCHANGED Service!vars
  BY DEF Service!vars, Submitted, Retired

\* A step that is about one submitted request is a step of the service, if the
\* request is not retired without an answer.
LEMMA OneRequestRefines ==
  ASSUME NEW r \in Request, r \in Submitted, Submitted' = Submitted,
         Answered' \in {Answered, Answered \cup {r}},
         lost' \in {lost, lost \cup {r}},
         Retired' \in {Retired, Retired \cup {r}},
         Answered' = Answered \/ lost' = lost,
         r \in Retired' \ Retired => r \in Answered' \cup lost'
  PROVE  Service!Next \/ UNCHANGED Service!vars
<1> USE DEF Submitted, Retired
<1>1. CASE Answered' # Answered
  <2>1. Service!Answer(r)
    BY <1>1 DEF Service!Answer
  <2> QED BY <2>1 DEF Service!Next
<1>2. CASE Answered' = Answered /\ lost' # lost
  <2>1. Service!FailToReport(r)
    BY <1>2 DEF Service!FailToReport
  <2> QED BY <2>1 DEF Service!Next
<1>3. CASE Answered' = Answered /\ lost' = lost /\ Retired' # Retired
  <2>1. Service!Retire(r)
    BY <1>3 DEF Service!Retire
  <2> QED BY <2>1 DEF Service!Next
<1> QED BY <1>1, <1>2, <1>3, StutterRefines

\* An answer of a session is about the one request its attempt was made of.
LEMMA QueueRefines ==
  ASSUME StreamInv, NEW a \in Attempt, NEW res, QueueStep(a, res), UNCHANGED streamVars
  PROVE  Service!Next \/ UNCHANGED Service!vars
<1>1. Submitted' = Submitted /\ Retired' = Retired
  BY DEF Submitted, Retired, streamVars
<1>2. /\ result \in [Attempt -> Results] /\ origin' = origin
      /\ origin[a] \subseteq Request
  BY TypeParts DEF StreamInv, QueueTypes, StreamTypes, streamVars
<1>3. \A b \in Attempt : b # a => result'[b] = result[b]
  BY <1>2 DEF QueueStep
<1>4. result[a] # NoResult => result'[a] = result[a]
  BY <1>2 DEF QueueStep
<1>5. CASE origin[a] = {}
  <2>1. Answered' = Answered
    BY <1>2, <1>3, <1>5 DEF Answered, QueueStep
  <2>2. lost' = lost
    BY <1>5 DEF QueueStep
  <2> QED BY <1>1, <2>1, <2>2, StutterRefines
<1>6. ASSUME NEW r \in origin[a] PROVE Service!Next \/ UNCHANGED Service!vars
  <2>1. r \in Request /\ origin[a] = {r} /\ r \in Submitted
    BY <1>2 DEF StreamInv, OneOrigin, Submitted
  <2>2. Answered \subseteq Answered' /\ Answered' \subseteq Answered \cup {r}
    BY <1>2, <1>3, <1>4, <2>1 DEF Answered, QueueStep
  <2>3. Answered' \in {Answered, Answered \cup {r}}
    BY <2>2
  <2>4. lost' \in {lost, lost \cup {r}}
    BY <2>1 DEF QueueStep
  <2>5. Answered' = Answered \/ lost' = lost
    BY <1>2 DEF QueueStep, Answered
  <2> QED BY <1>1, <2>1, <2>3, <2>4, <2>5, OneRequestRefines
<1> QED BY <1>5, <1>6

\* Steps that leave stream and queue alone.
LEMMA QuietRefines ==
  ASSUME UNCHANGED <<message, origin, result, refused, lost>>
  PROVE  UNCHANGED Service!vars
  BY StutterRefines DEF Submitted, Retired, Answered

\* A message goes back to the stream; at worst nobody hears the advisory.
LEMMA RedeliverRefines ==
  ASSUME StreamInv, NEW r \in Request, Redeliver(r), UNCHANGED <<origin, result, refused>>
  PROVE  Service!Next \/ UNCHANGED Service!vars
<1>1. Submitted' = Submitted /\ Retired' = Retired
  BY RedeliverStep DEF Submitted, Retired
<1>2. Answered' = Answered
  BY DEF Answered
<1>3. CASE lost' = lost
  BY <1>1, <1>2, <1>3, StutterRefines
<1>4. CASE lost' # lost
  <2>1. r \in Submitted /\ lost' = lost \cup {r}
    BY <1>4, RedeliverStep DEF Submitted
  <2> QED BY <1>1, <1>2, <2>1, OneRequestRefines
<1> QED BY <1>3, <1>4

\* An error under the key of the bare transaction, an acknowledgement, or both.
LEMMA AcknowledgeRefines ==
  ASSUME StreamInv, NEW r \in Request, message[r] # "absent",
         message' = message \/ Acknowledge(r), UNCHANGED <<origin, result>>,
         refused' \in {refused, refused \cup {r}}, lost' \in {lost, lost \cup {r}},
         refused' = refused \/ lost' = lost,
         Acknowledge(r) => r \in Answered' \cup lost'
  PROVE  Service!Next \/ UNCHANGED Service!vars
<1>1. message \in [Request -> {"absent", "stored", "delivered", "acked", "exhausted"}]
  BY DEF StreamInv, TypeOK
<1>2. r \in Submitted /\ Submitted' = Submitted
  BY <1>1 DEF Submitted, Acknowledge
<1>3. Retired' \in {Retired, Retired \cup {r}}
  BY <1>1 DEF Retired, Acknowledge
<1>4. Answered' \in {Answered, Answered \cup {r}}
  BY DEF Answered
<1>5. refused' = refused => Answered' = Answered
  BY DEF Answered
<1>6. r \in Retired' \ Retired => Acknowledge(r)
  BY DEF Retired
<1> QED BY <1>2, <1>3, <1>4, <1>5, <1>6, OneRequestRefines

LEMMA StreamRefines ==
  ASSUME StreamInv, NEW r \in Request, Stream(r)
  PROVE  Service!Next \/ UNCHANGED Service!vars
<1>0. message \in [Request -> {"absent", "stored", "delivered", "acked", "exhausted"}]
  BY DEF StreamInv, TypeOK
<1>1. ASSUME NEW m \in Message, SignTransaction(r, m) PROVE Service!Next
  <2>1. /\ r \notin Submitted /\ Submitted' = Submitted \cup {r} /\ Retired' = Retired
    BY <1>0, <1>1 DEF SignTransaction, Submitted, Retired
  <2>2. Answered' = Answered /\ lost' = lost
    BY <1>1 DEF SignTransaction, Answered, queueVars
  <2>3. Service!Submit(r)
    BY <2>1, <2>2 DEF Service!Submit, Submitted, Retired
  <2> QED BY <2>3 DEF Service!Next
<1>2. CASE AckWaitExpires(r)
  BY <1>2, RedeliverRefines DEF AckWaitExpires
<1>3. ASSUME NEW n \in Node, Deliver(n, r) PROVE UNCHANGED Service!vars
  <2>1. Submitted' = Submitted /\ Retired' = Retired
    BY <1>0, <1>3 DEF Deliver, Submitted, Retired
  <2>2. Answered' = Answered /\ lost' = lost
    BY <1>3 DEF Deliver, Answered, queueVars
  <2> QED BY <2>1, <2>2, StutterRefines
<1> QED BY <1>1, <1>2, <1>3 DEF Stream

LEMMA ConsumeRefines ==
  ASSUME StreamInv, NEW n \in Node, Consume(n)
  PROVE  Service!Next \/ UNCHANGED Service!vars
<1>1. ASSUME NEW r \in Request, RejectRequest(n, r)
      PROVE  Service!Next \/ UNCHANGED Service!vars
  <2>1. message[r] # "absent"
    BY <1>1, TakeStep DEF RejectRequest
  <2>2. /\ message' = message \/ Acknowledge(r)
        /\ refused' \in {refused, refused \cup {r}} /\ lost' \in {lost, lost \cup {r}}
        /\ refused' = refused \/ lost' = lost
        /\ r \in refused' \cup lost'
        /\ UNCHANGED <<origin, result>>
    BY <1>1 DEF RejectRequest, handleSigningError
  <2>3. r \in Answered' \cup lost'
    BY <2>2 DEF Answered
  <2> QED BY <2>1, <2>2, <2>3, AcknowledgeRefines
<1>2. ASSUME NEW r \in Request, PublishFails(n, r)
      PROVE  Service!Next \/ UNCHANGED Service!vars
  BY <1>2, RedeliverRefines DEF PublishFails
<1>3. ASSUME NEW r \in Request, PublishEvent(n, r) PROVE UNCHANGED Service!vars
  <2>1. /\ attempts' \in Attempt /\ attempts' > attempts
        /\ origin' = [origin EXCEPT ![attempts'] = {r}]
        /\ UNCHANGED <<message, result, refused, lost>>
    BY <1>3, BoundAssumption DEF PublishEvent, StreamInv, TypeOK, Attempt, queueVars
  <2>2. /\ result[attempts'] = NoResult /\ origin[attempts'] = {}
        /\ origin \in [Attempt -> SUBSET Request]
    BY <2>1 DEF StreamInv, FreshAttempts, TypeOK
  <2>3. Answered' = Answered
    BY <2>1, <2>2 DEF Answered
  <2> QED BY <2>1, <2>3, StutterRefines DEF Submitted, Retired
<1>4. ASSUME NEW r \in Request, HandleAdvisory(n, r)
      PROVE  Service!Next \/ UNCHANGED Service!vars
  <2>2. /\ message' = message /\ message[r] # "absent"
        /\ refused' \in {refused, refused \cup {r}} /\ lost' \in {lost, lost \cup {r}}
        /\ refused' = refused \/ lost' = lost
        /\ UNCHANGED <<origin, result>>
    BY <1>4 DEF HandleAdvisory
  <2>3. r \in Submitted /\ Submitted' = Submitted /\ Retired' = Retired
    BY <2>2 DEF Submitted, Retired
  <2>4. Answered' \in {Answered, Answered \cup {r}} /\ (refused' = refused => Answered' = Answered)
    BY <2>2 DEF Answered
  <2> QED BY <2>2, <2>3, <2>4, OneRequestRefines
<1>5. ASSUME NEW r \in Request, cleanupStaleSessions(n, r) PROVE UNCHANGED Service!vars
  BY <1>5, QuietRefines DEF cleanupStaleSessions, streamVars, queueVars
<1>6. CASE AckOnReply(n)
  <2>1. PICK r \in origin[waiting[n]] : Acknowledge(r)
    BY <1>6 DEF AckOnReply
  <2>2. waiting[n] \in Attempt /\ r \in Request /\ message[r] # "absent"
    BY <1>6, <2>1 DEF AckOnReply, StreamInv, TypeOK, OneOrigin
  <2>3. result[waiting[n]] # NoResult \/ r \in lost
    BY <1>6, <2>1 DEF AckOnReply, StreamInv, RepliedHasResult
  <2>4. UNCHANGED <<origin, result, refused, lost>>
    BY <1>6 DEF AckOnReply
  <2>5. r \in Answered' \cup lost'
    BY <2>1, <2>2, <2>3, <2>4 DEF Answered
  <2> QED BY <2>1, <2>2, <2>4, <2>5, AcknowledgeRefines
<1>7. CASE AckFails(n)
  BY <1>7, QuietRefines DEF AckFails
<1>8. CASE NakOnTimeout(n)
  <2>1. PICK r \in origin[waiting[n]] : Redeliver(r)
    BY <1>8 DEF NakOnTimeout
  <2>2. r \in Request
    BY <1>8, <2>1, BoundAssumption DEF NakOnTimeout, StreamInv, TypeOK, Attempt
  <2> QED BY <1>8, <2>1, <2>2, RedeliverRefines DEF NakOnTimeout
<1> QED BY <1>1, <1>2, <1>3, <1>4, <1>5, <1>6, <1>7, <1>8 DEF Consume

LEMMA AdmitRefines ==
  ASSUME StreamInv, NEW n \in Node, NEW a \in Attempt, Admit(n, a)
  PROVE  Service!Next \/ UNCHANGED Service!vars
<1> USE DEF streamVars, queueVars
<1>0. TypeOK
  BY DEF StreamInv
<1>1. CASE DropUnauthentic(n, a) \/ SkipNotParticipant(n, a) \/ CreateSigningSession(n, a)
  BY <1>1, QuietRefines DEF DropUnauthentic, SkipNotParticipant, CreateSigningSession
<1>2. CASE RefuseDuplicate(n, a) \/ RefuseSession(n, a)
  <2>1. QueueStep(a, ErrorResult(n))
    <3>1. CASE handleSigningSessionError(n, a)
      BY <1>0, <1>2, <3>1, ErrorStep DEF RefuseDuplicate, RefuseSession
    <3>2. CASE Enqueue(a, ErrorResult(n)) /\ Reply(a) /\ UNCHANGED <<lost, refused>>
      BY <1>0, <3>2, ResultTypes, EnqueueStep DEF Reply
    <3> QED BY <1>2, <3>1, <3>2 DEF RefuseDuplicate, RefuseSession
  <2> QED BY <1>2, <2>1, QueueRefines DEF RefuseDuplicate, RefuseSession
<1> QED BY <1>1, <1>2 DEF Admit

LEMMA SessionRefines ==
  ASSUME StreamInv, NEW n \in Node, NEW a \in Attempt, Barrier(n, a) \/ Run(n, a)
  PROVE  Service!Next \/ UNCHANGED Service!vars
<1> USE DEF streamVars, queueVars
<1>0. TypeOK
  BY DEF StreamInv
<1>1. CASE \/ StartSigning(n, a) \/ \E p \in Node : ProbeBarrier(n, a, p)
           \/ SignFails(n, a) \/ SignStopped(n, a) \/ OnSuccess(n, a) \/ SessionError(n, a)
  BY <1>1, QuietRefines
  DEF StartSigning, ProbeBarrier, SignFails, SignStopped, OnSuccess, SessionError
<1>2. CASE BarrierFails(n, a) \/ WatchError(n, a)
  <2>1. QueueStep(a, ErrorResult(n))
    BY <1>0, <1>2, ErrorStep DEF BarrierFails, WatchError
  <2> QED BY <1>2, <2>1, QueueRefines DEF BarrierFails, WatchError
<1>3. ASSUME NEW k \in {"secp256k1", "ed25519"}, Finish(n, a, k)
      PROVE  Service!Next \/ UNCHANGED Service!vars
  BY <1>3, FinishStep, QueueRefines DEF Finish
<1> QED BY <1>1, <1>2, <1>3 DEF Barrier, Run, EcdsaSign, EddsaSign

LEMMA NextRefines ==
  StreamInv /\ [Next]_vars => [Service!Next]_(Service!vars)
<1> SUFFICES ASSUME StreamInv, [Next]_vars PROVE Service!Next \/ UNCHANGED Service!vars
  OBVIOUS
<1>1. ASSUME NEW n \in Node, Crash(n) \/ Restart(n) PROVE UNCHANGED Service!vars
  BY <1>1, QuietRefines DEF Crash, Restart, streamVars, queueVars
<1>2. CASE UNCHANGED vars
  BY <1>2, QuietRefines DEF vars, streamVars, queueVars
<1> QED BY <1>1, <1>2, StreamRefines, ConsumeRefines, AdmitRefines, SessionRefines DEF Next

\* The signing consumer, the timeout consumer and the handlers of the nodes
\* together keep the promise of RequestService: the stream gives up no request
\* without a result for its client or a result that the queue refused, and no
\* answer is taken back.
THEOREM SigningImplementsService == Spec => ImplementsRequestService
<1>1. Spec => Service!Spec
  BY InitRefines, NextRefines, StreamInvHolds, PTL DEF Spec, Service!Spec
<1> QED BY <1>1 DEF ImplementsRequestService
=============================================================================
