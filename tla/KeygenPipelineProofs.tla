------------------------ MODULE KeygenPipelineProofs ------------------------
(***************************************************************************)
(* Proofs about KeygenPipeline, for any number of nodes, curves, requests, *)
(* deliveries, attempts and faults: its type invariant, that an            *)
(* acknowledged request has been answered, that a success stands for keys  *)
(* that exist, that a node creates a wallet once, and that the nodes agree *)
(* on it.                                                                  *)
(***************************************************************************)
EXTENDS KeygenPipeline, TLAPS

-----------------------------------------------------------------------------
(* First invariant: what is acknowledged has been answered.                *)

\* An attempt that was not published belongs to no request.
FreshAttempts == \A a \in Attempt : a > attempts => origin[a] = {}

\* A reply is sent after the result was enqueued, or could not be.
RepliedHasResult == \A a \in reply : result[a] # NoResult \/ a \in lost

\* A message in the stream has a delivery left.
StoredHasDelivery ==
  \A r \in Request : message[r] \in {"absent", "stored"} => deliveries[r] < MaxDeliver

StreamInv ==
  /\ TypeOK
  /\ StoredHasDelivery
  /\ FreshAttempts
  /\ RepliedHasResult
  /\ AckedRequestIsAnswered

LEMMA InitStream == Init => StreamInv
  BY BoundAssumption
  DEF Init, StreamInv, TypeOK, Phases, SessionStates, Attempt, NoResult,
      StoredHasDelivery, FreshAttempts, RepliedHasResult, AckedRequestIsAnswered

Results == [kind : {"none", "error", "success"}, key : 0..MaxAttempts]

\* What Enqueue, and so every way of answering, does to the result queue.
QueueGrows(a, res) ==
  /\ reply' \subseteq reply \cup {a}
  /\ result' \in [Attempt -> Results]
  /\ lost' \subseteq Attempt /\ lost \subseteq lost'
  /\ result'[a] # NoResult \/ a \in lost'
  /\ \A b \in Attempt : result'[b] \in {result[b], res, ErrorResult}
  /\ \A b \in Attempt : result[b] # NoResult => result'[b] = result[b]

LEMMA ErrorQueue ==
  ASSUME TypeOK, NEW a \in Attempt, NEW res \in Results, AnswerWithError(a)
  PROVE  QueueGrows(a, res)
<1>1. ErrorResult \in Results /\ ErrorResult # NoResult
  BY BoundAssumption DEF Results, ErrorResult, NoResult
<1>2. result \in [Attempt -> Results] /\ lost \subseteq Attempt
  BY DEF TypeOK, Results
<1>3. CASE Enqueue(a, ErrorResult) /\ UNCHANGED lost
  BY <1>1, <1>2, <1>3 DEF AnswerWithError, Enqueue, QueueGrows
<1>4. CASE lost' = lost \cup {a} /\ UNCHANGED result
  BY <1>2, <1>4 DEF AnswerWithError, QueueGrows
<1> QED BY <1>3, <1>4 DEF AnswerWithError

LEMMA AnswerQueue ==
  ASSUME TypeOK, NEW a \in Attempt, NEW res \in Results \ {NoResult}, Answer(a, res)
  PROVE  QueueGrows(a, res) /\ faults' \in 0..MaxFaults
<1>1. CASE Fault /\ AnswerWithError(a)
  BY <1>1, ErrorQueue, BoundAssumption DEF Fault, TypeOK
<1>2. CASE reply' = reply \cup {a} /\ Enqueue(a, res) /\ UNCHANGED <<lost, faults>>
  BY <1>2 DEF Enqueue, QueueGrows, TypeOK, Results
<1>3. CASE Enqueue(a, res) /\ Fault /\ UNCHANGED <<reply, lost>>
  BY <1>3, BoundAssumption DEF Enqueue, Fault, QueueGrows, TypeOK, Results
<1> QED BY <1>1, <1>2, <1>3 DEF Answer

\* An answer keeps what StreamInv says of the queue.
LEMMA QueueStep ==
  ASSUME StreamInv, NEW a \in Attempt, NEW res \in Results, QueueGrows(a, res),
         UNCHANGED streamVars
  PROVE  /\ reply' \subseteq Attempt /\ result' \in [Attempt -> Results]
         /\ lost' \subseteq Attempt
         /\ RepliedHasResult' /\ AckedRequestIsAnswered'
<1>1. reply' \subseteq Attempt /\ result' \in [Attempt -> Results] /\ lost' \subseteq Attempt
  BY DEF StreamInv, TypeOK, QueueGrows
<1>2. RepliedHasResult'
  BY DEF StreamInv, TypeOK, QueueGrows, RepliedHasResult
<1>3. AckedRequestIsAnswered'
  BY DEF StreamInv, QueueGrows, AckedRequestIsAnswered, streamVars
<1> QED BY <1>1, <1>2, <1>3

\* The part of TypeOK about a node at work.
RunTypes ==
  /\ handler \in [Node -> [Attempt -> Phases]]
  /\ session \in [Node -> [Attempt -> [Curve -> SessionStates]]]
  /\ probed \in [Node -> [Attempt -> [Curve -> SUBSET Node]]]
  /\ heard \in [Node -> [Attempt -> [Curve -> SUBSET Node]]]
  /\ failed \in [Node -> [Attempt -> SUBSET Curve]]
  /\ active \in [Node -> BOOLEAN]

LEMMA ReturnTypes ==
  ASSUME RunTypes, NEW n \in Node, NEW a \in Attempt, NEW held \in BOOLEAN,
         Return(n, a, held), UNCHANGED <<session, heard>>
  PROVE  RunTypes'
  BY DEF RunTypes, Return, Release, GoTo, Phases

\* An action that answers, returns and touches nothing else.
LEMMA AnswerAndReturn ==
  ASSUME StreamInv, NEW n \in Node, NEW a \in Attempt, NEW held \in BOOLEAN,
         NEW res \in Results, QueueGrows(a, res), faults' \in 0..MaxFaults,
         Return(n, a, held), UNCHANGED <<up, streamVars, session, heard, diskVars>>
  PROVE  StreamInv'
<1>1. RunTypes'
  BY ReturnTypes DEF StreamInv, TypeOK, RunTypes
<1>2. StoredHasDelivery' /\ FreshAttempts'
  BY DEF StreamInv, StoredHasDelivery, FreshAttempts, streamVars
<1> QED BY <1>1, <1>2, QueueStep
        DEF StreamInv, TypeOK, RunTypes, Results, streamVars, diskVars

LEMMA StreamStep ==
  ASSUME StreamInv, NEW r \in Request, Stream(r) PROVE StreamInv'
<1> USE BoundAssumption
    DEF StreamInv, TypeOK, StoredHasDelivery, FreshAttempts, RepliedHasResult,
        AckedRequestIsAnswered, runVars, diskVars, queueVars
<1>1. CASE CreateWallet(r)
  BY <1>1 DEF CreateWallet
<1>2. CASE AckWaitExpires(r)
  BY <1>2 DEF AckWaitExpires, Returned
<1>3. ASSUME NEW n \in Node, Deliver(n, r) PROVE StreamInv'
  BY <1>3 DEF Deliver
<1> QED BY <1>1, <1>2, <1>3 DEF Stream

\* The keygen consumer: the only step that acknowledges on a reply is
\* AckOnReply, and RejectRequest has answered itself.
LEMMA ConsumeStep ==
  ASSUME StreamInv, NEW n \in Node, Consume(n) PROVE StreamInv'
<1> USE BoundAssumption
    DEF StreamInv, TypeOK, StoredHasDelivery, FreshAttempts, RepliedHasResult,
        AckedRequestIsAnswered, runVars, diskVars, queueVars, Settle, TakeFromInbox,
        handleKeygenError, Drop
<1>1. ASSUME NEW r \in Request, RejectRequest(n, r) PROVE StreamInv'
  <2>1. \A q \in Request : message'[q] = "acked" => message[q] = "acked" \/ q = r
    BY <1>1 DEF RejectRequest
  <2>2. /\ rejected \subseteq rejected' /\ rejected' \subseteq Request
        /\ dropped \subseteq dropped' /\ dropped' \subseteq Request
        /\ r \in rejected' \cup dropped'
    BY <1>1 DEF RejectRequest
  <2>3. AckedRequestIsAnswered'
    BY <1>1, <2>1, <2>2 DEF RejectRequest
  <2>4. faults' \in 0..MaxFaults
    BY <1>1 DEF RejectRequest, Fault
  <2>5. /\ message' \in [Request -> {"absent", "stored", "delivered", "acked", "exhausted"}]
        /\ StoredHasDelivery'
    <3>1. message' = message \/ message' = [message EXCEPT ![r] = "acked"]
      BY <1>1 DEF RejectRequest
    <3>2. deliveries' = deliveries
      BY <1>1 DEF RejectRequest
    <3>3. CASE message' = message
      BY <3>2, <3>3
    <3>4. CASE message' = [message EXCEPT ![r] = "acked"]
      BY <3>2, <3>4
    <3> QED BY <3>1, <3>3, <3>4
  <2>6. TypeOK' /\ FreshAttempts' /\ RepliedHasResult'
    BY <1>1, <2>2, <2>4, <2>5 DEF RejectRequest
  <2> QED BY <2>3, <2>5, <2>6
<1>2. ASSUME NEW r \in Request, PublishFails(n, r) PROVE StreamInv'
  BY <1>2 DEF PublishFails, Returned, Fault
<1>3. ASSUME NEW r \in Request, PublishEvent(n, r) PROVE StreamInv'
  <2>1. attempts' \in Attempt
    BY <1>3 DEF PublishEvent, Attempt
  <2>2. handler' \in [Node -> [Attempt -> Phases]]
    BY <1>3, <2>1 DEF PublishEvent, Phases
  <2>3. /\ origin' \in [Attempt -> SUBSET Request]
        /\ \A a \in Attempt : origin[a] \subseteq origin'[a]
        /\ FreshAttempts'
    BY <1>3, <2>1 DEF PublishEvent, Attempt
  <2>4. waiting' \in [Node -> 0..MaxAttempts]
    BY <1>3, <2>1 DEF PublishEvent, Attempt
  <2>5. /\ attempts' \in 0..MaxAttempts /\ inbox' \in [Node -> SUBSET Request]
        /\ faults' \in 0..MaxFaults
    BY <1>3, <2>1 DEF PublishEvent, Attempt, Fault
  <2>6. TypeOK'
    BY <1>3, <2>2, <2>3, <2>4, <2>5 DEF PublishEvent
  <2>7. AckedRequestIsAnswered'
    BY <1>3, <2>3 DEF PublishEvent
  <2>8. StoredHasDelivery' /\ RepliedHasResult'
    BY <1>3 DEF PublishEvent
  <2> QED BY <2>3, <2>6, <2>7, <2>8
<1>4. CASE AckOnReply(n)
  <2>1. PICK r \in origin[waiting[n]] : Settle(r, "acked")
    BY <1>4 DEF AckOnReply
  <2>2. waiting[n] \in Attempt /\ r \in Request
    BY <1>4, <2>1 DEF AckOnReply
  <2>3. result[waiting[n]] # NoResult \/ waiting[n] \in lost
    BY <1>4 DEF AckOnReply
  <2>4. \A q \in Request : message'[q] = "acked" => message[q] = "acked" \/ q = r
    BY <2>1, <2>2
  <2>5. AckedRequestIsAnswered'
    BY <1>4, <2>1, <2>2, <2>3, <2>4 DEF AckOnReply
  <2>6. message' \in [Request -> {"absent", "stored", "delivered", "acked", "exhausted"}]
        /\ StoredHasDelivery'
    BY <1>4, <2>1, <2>2 DEF AckOnReply
  <2> QED BY <1>4, <2>5, <2>6 DEF AckOnReply
<1>5. CASE NakOnTimeout(n)
  <2>1. PICK r \in origin[waiting[n]] : Settle(r, Returned(r))
    BY <1>5 DEF NakOnTimeout
  <2>2. waiting[n] \in Attempt /\ r \in Request
    BY <1>5, <2>1 DEF NakOnTimeout, Attempt
  <2>3. \A q \in Request : message'[q] = "acked" => message[q] = "acked"
    BY <2>1, <2>2 DEF Returned
  <2>4. message' \in [Request -> {"absent", "stored", "delivered", "acked", "exhausted"}]
        /\ StoredHasDelivery'
    BY <1>5, <2>1, <2>2 DEF NakOnTimeout, Returned
  <2> QED BY <1>5, <2>3, <2>4 DEF NakOnTimeout
<1>6. CASE AckFails(n)
  BY <1>6 DEF AckFails, Fault
<1> QED BY <1>1, <1>2, <1>3, <1>4, <1>5, <1>6 DEF Consume

LEMMA AdmitStep ==
  ASSUME StreamInv, NEW n \in Node, NEW a \in Attempt, Admit(n, a) PROVE StreamInv'
<1>0. ErrorResult \in Results \ {NoResult}
      /\ \A b \in 0..MaxAttempts : Success(b) \in Results \ {NoResult}
  BY BoundAssumption DEF Results, ErrorResult, NoResult, Success
<1>1. CASE BeginHandler(n, a)
  BY <1>1 DEF BeginHandler, GoTo, Phases, StreamInv, TypeOK, StoredHasDelivery,
     FreshAttempts, RepliedHasResult, AckedRequestIsAnswered, streamVars, diskVars, queueVars
<1>2. CASE AnswerAtOnce(n, a)
  <2>1. PICK res \in {ErrorResult, Success(stored[n])} : Answer(a, res)
    BY <1>2 DEF AnswerAtOnce, Answer
  <2>2. res \in Results \ {NoResult}
    BY <1>0 DEF StreamInv, TypeOK
  <2> QED BY <1>2, <2>1, <2>2, AnswerQueue, AnswerAndReturn DEF AnswerAtOnce, StreamInv
<1>3. CASE RefuseDuplicate(n, a)
  BY <1>0, <1>3, AnswerQueue, AnswerAndReturn DEF RefuseDuplicate, StreamInv
<1>4. CASE RefuseSession(n, a)
  BY <1>0, <1>4, AnswerQueue, AnswerAndReturn DEF RefuseSession, StreamInv
<1>5. CASE CreateKeyGenSession(n, a)
  BY <1>5, BoundAssumption DEF CreateKeyGenSession, GoTo, Fault, Phases,
     SessionStates, StreamInv, TypeOK, StoredHasDelivery, FreshAttempts,
     RepliedHasResult, AckedRequestIsAnswered, streamVars, diskVars, queueVars
<1> QED BY <1>1, <1>2, <1>3, <1>4, <1>5 DEF Admit

LEMMA BarrierStep ==
  ASSUME StreamInv, NEW n \in Node, NEW a \in Attempt, Barrier(n, a) PROVE StreamInv'
<1>0. ErrorResult \in Results \ {NoResult}
  BY BoundAssumption DEF Results, ErrorResult, NoResult
<1>1. ASSUME NEW k \in Curve, NEW p \in Node, ProbeBarrier(n, a, k, p) PROVE StreamInv'
  BY <1>1 DEF ProbeBarrier, StreamInv, TypeOK, StoredHasDelivery,
     FreshAttempts, RepliedHasResult, AckedRequestIsAnswered, streamVars, diskVars, queueVars
<1>2. CASE BarrierTimesOut(n, a)
  BY <1>0, <1>2, AnswerQueue, AnswerAndReturn DEF BarrierTimesOut, StreamInv
<1>3. CASE GenerateKey(n, a)
  <2>1. RunTypes'
    <3>1. heard' \in [Node -> [Attempt -> [Curve -> SUBSET Node]]]
      BY <1>3 DEF GenerateKey, StreamInv, TypeOK
    <3>2. session' \in [Node -> [Attempt -> [Curve -> SessionStates]]]
          /\ handler' \in [Node -> [Attempt -> Phases]]
      BY <1>3 DEF GenerateKey, GoTo, StreamInv, TypeOK, Phases, SessionStates
    <3>3. probed' \in [Node -> [Attempt -> [Curve -> SUBSET Node]]]
      BY <1>3 DEF GenerateKey, StreamInv, TypeOK
    <3> QED BY <1>3, <3>1, <3>2, <3>3 DEF GenerateKey, StreamInv, TypeOK, RunTypes
  <2> QED BY <1>3, <2>1 DEF GenerateKey, RunTypes, StreamInv, TypeOK,
     StoredHasDelivery, FreshAttempts, RepliedHasResult, AckedRequestIsAnswered,
     streamVars, diskVars, queueVars
<1> QED BY <1>1, <1>2, <1>3 DEF Barrier

LEMMA PartyStep ==
  ASSUME StreamInv, NEW n \in Node, NEW a \in Attempt, NEW k \in Curve, Party(n, a, k)
  PROVE  StreamInv'
<1>1. CASE SaveShare(n, a, k)
  <2>1. share' \in [Node -> [Curve -> 0..MaxAttempts]]
        /\ session' \in [Node -> [Attempt -> [Curve -> SessionStates]]]
    BY <1>1, BoundAssumption DEF SaveShare, StreamInv, TypeOK, SessionStates, Attempt
  <2> QED BY <1>1, <2>1 DEF SaveShare, StreamInv, TypeOK,
     StoredHasDelivery, FreshAttempts, RepliedHasResult, AckedRequestIsAnswered,
     streamVars, queueVars
<1>2. CASE SaveKeyInfo(n, a, k)
  BY <1>2 DEF SaveKeyInfo, StreamInv, TypeOK, SessionStates,
     StoredHasDelivery, FreshAttempts, RepliedHasResult, AckedRequestIsAnswered,
     streamVars, queueVars
<1>3. CASE SessionError(n, a, k)
  <2>1. ErrorResult \in Results
    BY BoundAssumption DEF Results, ErrorResult
  <2>2. QueueGrows(a, ErrorResult) /\ UNCHANGED streamVars
    BY <1>3, <2>1, ErrorQueue DEF SessionError, StreamInv
  <2>3. RunTypes'
    <3>0. session \in [Node -> [Attempt -> [Curve -> SessionStates]]]
          /\ "stuck" \in SessionStates
      BY DEF StreamInv, TypeOK, SessionStates
    <3>1. session' \in [Node -> [Attempt -> [Curve -> SessionStates]]]
      <4>1. CASE session' = [session EXCEPT ![n][a][k] = "stuck"]
        BY <3>0, <4>1
      <4>2. CASE session' = session
        BY <3>0, <4>2
      <4> QED BY <1>3, <4>1, <4>2 DEF SessionError
    <3>2. failed' \in [Node -> [Attempt -> SUBSET Curve]]
      BY <1>3 DEF SessionError, StreamInv, TypeOK
    <3> QED BY <1>3, <3>1, <3>2 DEF SessionError, StreamInv, TypeOK, RunTypes
  <2>4. faults' \in 0..MaxFaults
    BY <1>3, BoundAssumption DEF SessionError, Fault, StreamInv, TypeOK
  <2>5. StoredHasDelivery' /\ FreshAttempts'
    BY <2>2 DEF StreamInv, StoredHasDelivery, FreshAttempts, streamVars
  <2> QED BY <1>3, <2>1, <2>2, <2>3, <2>4, <2>5, QueueStep
          DEF SessionError, StreamInv, TypeOK, RunTypes, Results, streamVars, diskVars
<1> QED BY <1>1, <1>2, <1>3 DEF Party

LEMMA ConcludeStep ==
  ASSUME StreamInv, NEW n \in Node, NEW a \in Attempt, Conclude(n, a) PROVE StreamInv'
<1>0. ErrorResult \in Results \ {NoResult} /\ Success(a) \in Results \ {NoResult}
  BY BoundAssumption DEF Results, ErrorResult, NoResult, Success, Attempt
<1>1. CASE ReturnAfterError(n, a)
  <2>1. RunTypes'
    BY <1>1, ReturnTypes DEF ReturnAfterError, StreamInv, TypeOK, RunTypes
  <2> QED BY <1>1, <2>1 DEF ReturnAfterError, RunTypes, StreamInv, TypeOK,
     StoredHasDelivery, FreshAttempts, RepliedHasResult, AckedRequestIsAnswered,
     streamVars, diskVars, queueVars
<1>2. CASE StoreWalletCreationResult(n, a)
  <2>1. stored' \in [Node -> 0..MaxAttempts] /\ handler' \in [Node -> [Attempt -> Phases]]
    BY <1>2, BoundAssumption
    DEF StoreWalletCreationResult, GoTo, StreamInv, TypeOK, Phases, Attempt
  <2> QED BY <1>2, <2>1 DEF StoreWalletCreationResult, StreamInv, TypeOK,
     StoredHasDelivery, FreshAttempts, RepliedHasResult, AckedRequestIsAnswered,
     streamVars, queueVars
<1>3. CASE StoreFails(n, a)
  <2>1. faults' \in 0..MaxFaults
    BY <1>3, BoundAssumption DEF StoreFails, Fault, StreamInv, TypeOK
  <2> QED BY <1>0, <1>3, <2>1, ErrorQueue, AnswerAndReturn DEF StoreFails, StreamInv
<1>4. CASE PublishSuccess(n, a)
  BY <1>0, <1>4, AnswerQueue, AnswerAndReturn DEF PublishSuccess, StreamInv
<1>5. CASE KeyGenTimeOut(n, a)
  BY <1>0, <1>5, AnswerQueue, AnswerAndReturn DEF KeyGenTimeOut, StreamInv
<1> QED BY <1>1, <1>2, <1>3, <1>4, <1>5 DEF Conclude

LEMMA CrashStep ==
  ASSUME StreamInv, NEW n \in Node, Crash(n) \/ Restart(n) PROVE StreamInv'
<1>1. CASE Crash(n)
  <2>1. RunTypes'
    BY <1>1 DEF Crash, StreamInv, TypeOK, RunTypes, Phases, SessionStates
  <2>2. faults' \in 0..MaxFaults
    BY <1>1, BoundAssumption DEF Crash, Fault, StreamInv, TypeOK
  <2>3. /\ up' \in [Node -> BOOLEAN] /\ inbox' \in [Node -> SUBSET Request]
        /\ waiting' \in [Node -> 0..MaxAttempts]
    BY <1>1, BoundAssumption DEF Crash, StreamInv, TypeOK
  <2> QED BY <1>1, <2>1, <2>2, <2>3 DEF Crash, RunTypes, StreamInv, TypeOK,
     StoredHasDelivery, FreshAttempts, RepliedHasResult, AckedRequestIsAnswered,
     diskVars, queueVars
<1>2. CASE Restart(n)
  BY <1>2 DEF Restart, StreamInv, TypeOK, StoredHasDelivery, FreshAttempts,
     RepliedHasResult, AckedRequestIsAnswered, streamVars, runVars, diskVars, queueVars
<1> QED BY <1>1, <1>2

LEMMA NextStream == StreamInv /\ [Next]_vars => StreamInv'
<1> SUFFICES ASSUME StreamInv, [Next]_vars PROVE StreamInv'
  OBVIOUS
<1>1. CASE UNCHANGED vars
  BY <1>1 DEF vars, StreamInv, TypeOK, StoredHasDelivery, FreshAttempts,
     RepliedHasResult, AckedRequestIsAnswered, streamVars, runVars, diskVars, queueVars
<1>2. CASE Next
  BY <1>2, StreamStep, ConsumeStep, CrashStep, AdmitStep, BarrierStep, PartyStep,
     ConcludeStep DEF Next
<1> QED BY <1>1, <1>2

LEMMA StreamInvHolds == Spec => []StreamInv
  BY InitStream, NextStream, PTL DEF Spec

\* Every reachable state is well typed.
THEOREM KeygenTypeCorrect == Spec => []TypeOK
<1>1. StreamInv => TypeOK
  BY DEF StreamInv
<1> QED BY <1>1, StreamInvHolds, PTL

\* A request is acknowledged only when its client has a result to read or the
\* result queue refused it (handleKeygenEvent and sendReplyToRemoveMsg).
THEOREM AckedIsAnswered == Spec => []AckedRequestIsAnswered
<1>1. StreamInv => AckedRequestIsAnswered
  BY DEF StreamInv
<1> QED BY <1>1, StreamInvHolds, PTL

-----------------------------------------------------------------------------
(* Second invariant: a success stands for keys, and is the only one.       *)

Held == {"barrier", "generating", "storing"}

\* The share is written before the key info, and both before the session is
\* closed.
SessionHasKeys ==
  \A n \in Node, a \in Attempt, k \in Curve :
    /\ session[n][a][k] \in {"shared", "closed"} => share[n][k] # 0
    /\ session[n][a][k] = "closed" => k \in keyInfo

StoredHasKeys ==
  \A n \in Node : stored[n] # 0 =>
    keyInfo = Curve /\ \A k \in Curve : share[n][k] # 0

\* tryAddSession admits one handler at a time.
HeldIsActive == \A n \in Node, a \in Attempt : handler[n][a] \in Held => active[n]

OneHeld ==
  \A n \in Node : \A a, b \in Attempt :
    handler[n][a] \in Held /\ handler[n][b] \in Held => a = b

StoringIsStored ==
  \A n \in Node, a \in Attempt : handler[n][a] = "storing" => stored[n] = a

\* No handler is at work on a wallet whose creation result is stored.
NoRerun ==
  ~BlindReads => \A n \in Node, a \in Attempt :
    stored[n] # 0 => handler[n][a] \notin {"barrier", "generating"}

SuccessIsStored ==
  \A a \in Attempt : result[a].kind = "success" =>
    \E n \in Node : stored[n] # 0 /\ (BlindReads \/ stored[n] = result[a].key)

GuardInv == HeldIsActive /\ OneHeld /\ StoringIsStored /\ NoRerun

WalletInv ==
  /\ SessionHasKeys
  /\ StoredHasKeys
  /\ GuardInv
  /\ SuccessIsStored

LEMMA InitWallet == Init => WalletInv
  BY DEF Init, WalletInv, GuardInv, SessionHasKeys, StoredHasKeys, HeldIsActive,
     OneHeld, StoringIsStored, NoRerun, SuccessIsStored, Held, NoResult

\* A step that leaves the handlers past tryAddSession, the sessions, the disks
\* and the results alone.
LEMMA QuietStep ==
  ASSUME WalletInv, UNCHANGED <<session, active, diskVars, result>>,
         \A n \in Node, a \in Attempt :
           handler'[n][a] \in Held => handler'[n][a] = handler[n][a]
  PROVE  WalletInv'
  BY DEF WalletInv, GuardInv, SessionHasKeys, StoredHasKeys, HeldIsActive,
     OneHeld, StoringIsStored, NoRerun, SuccessIsStored, Held, diskVars

\* Return gives up the entry of activeSessions only for the handler that has
\* it, or when nobody has it.
LEMMA ReturnGuard ==
  ASSUME StreamInv, WalletInv, NEW n \in Node, NEW a \in Attempt, NEW held \in BOOLEAN,
         held => handler[n][a] \in Held \/ ~active[n],
         Return(n, a, held), UNCHANGED diskVars
  PROVE  GuardInv'
<1>1. /\ handler \in [Node -> [Attempt -> Phases]] /\ active \in [Node -> BOOLEAN]
      /\ handler' = [handler EXCEPT ![n][a] = "ended"]
      /\ active' = [active EXCEPT ![n] = active[n] /\ ~held]
      /\ stored' = stored
  BY DEF StreamInv, TypeOK, Return, Release, GoTo, diskVars
<1>2. \A m \in Node, b \in Attempt :
        handler'[m][b] \in Held => handler'[m][b] = handler[m][b] /\ ~(m = n /\ b = a)
  BY <1>1 DEF Held
<1>3. HeldIsActive'
  <2> SUFFICES ASSUME NEW m \in Node, NEW b \in Attempt, handler'[m][b] \in Held
               PROVE  active'[m]
    BY DEF HeldIsActive, Held
  <2>1. active[m] /\ handler[m][b] \in Held /\ ~(m = n /\ b = a)
    BY <1>2 DEF WalletInv, GuardInv, HeldIsActive
  <2>2. m = n => ~held
    BY <2>1 DEF WalletInv, GuardInv, OneHeld
  <2> QED BY <1>1, <2>1, <2>2
<1>4. OneHeld' /\ StoringIsStored' /\ NoRerun'
  BY <1>1, <1>2 DEF WalletInv, GuardInv, OneHeld, StoringIsStored, NoRerun, Held
<1> QED BY <1>3, <1>4 DEF GuardInv

\* An action that answers with an error, or with what is stored, and returns.
LEMMA WalletReturn ==
  ASSUME StreamInv, WalletInv, NEW n \in Node, NEW a \in Attempt, NEW held \in BOOLEAN,
         held => handler[n][a] \in Held \/ ~active[n],
         NEW res \in Results, QueueGrows(a, res),
         res = ErrorResult \/ (stored[n] # 0 /\ res = Success(stored[n])),
         Return(n, a, held), UNCHANGED <<session, diskVars>>
  PROVE  WalletInv'
<1>1. GuardInv'
  BY ReturnGuard
<1>2. SessionHasKeys' /\ StoredHasKeys'
  BY DEF WalletInv, SessionHasKeys, StoredHasKeys, diskVars
<1>3. SuccessIsStored'
  <2> SUFFICES ASSUME NEW b \in Attempt, result'[b].kind = "success"
               PROVE  \E m \in Node : stored[m] # 0 /\ (BlindReads \/ stored[m] = result'[b].key)
    BY DEF SuccessIsStored, diskVars
  <2>1. CASE result'[b] = result[b]
    BY <2>1 DEF WalletInv, SuccessIsStored
  <2>2. CASE result'[b] = res /\ res # ErrorResult
    BY <2>2 DEF Success
  <2>3. result'[b] # ErrorResult
    BY DEF ErrorResult
  <2> QED BY <2>1, <2>2, <2>3 DEF QueueGrows
<1> QED BY <1>1, <1>2, <1>3 DEF WalletInv

\* The stream and its consumers do not touch a node that is at work.
LEMMA StreamWallet ==
  ASSUME StreamInv, WalletInv,
         \/ \E r \in Request : Stream(r)
         \/ \E n \in Node : Consume(n) \/ Restart(n)
  PROVE  WalletInv'
<1>1. CASE UNCHANGED <<runVars, diskVars, queueVars>>
  BY <1>1, QuietStep DEF runVars, diskVars, queueVars
<1>2. ASSUME NEW n \in Node, NEW r \in Request, PublishEvent(n, r) PROVE WalletInv'
  <2>1. \A m \in Node, a \in Attempt :
          handler'[m][a] \in Held => handler'[m][a] = handler[m][a]
    BY <1>2 DEF PublishEvent, StreamInv, TypeOK, Held
  <2> QED BY <1>2, <2>1, QuietStep DEF PublishEvent, diskVars, queueVars
<1> QED BY <1>1, <1>2
        DEF Stream, CreateWallet, AckWaitExpires, Deliver, Consume, RejectRequest,
            PublishFails, AckOnReply, AckFails, NakOnTimeout, Restart

LEMMA CrashWallet ==
  ASSUME StreamInv, WalletInv, NEW n \in Node, Crash(n) PROVE WalletInv'
<1>1. \A m \in Node, a \in Attempt :
        handler'[m][a] \in Held => m # n /\ handler'[m][a] = handler[m][a]
  BY DEF Crash, StreamInv, TypeOK, Held
<1>2. \A m \in Node : m # n => active'[m] = active[m]
  BY DEF Crash, StreamInv, TypeOK
<1>3. GuardInv'
  BY <1>1, <1>2 DEF Crash, diskVars, WalletInv, GuardInv, HeldIsActive, OneHeld,
     StoringIsStored, NoRerun, Held
<1>4. SessionHasKeys'
  BY DEF Crash, diskVars, StreamInv, TypeOK, WalletInv, SessionHasKeys
<1>5. StoredHasKeys' /\ SuccessIsStored'
  BY DEF Crash, diskVars, queueVars, WalletInv, StoredHasKeys, SuccessIsStored
<1> QED BY <1>3, <1>4, <1>5 DEF WalletInv

LEMMA AdmitWallet ==
  ASSUME StreamInv, WalletInv, NEW n \in Node, NEW a \in Attempt, Admit(n, a)
  PROVE  WalletInv'
<1>0. ErrorResult \in Results \ {NoResult}
      /\ \A b \in 0..MaxAttempts : Success(b) \in Results \ {NoResult}
  BY BoundAssumption DEF Results, ErrorResult, NoResult, Success
<1>1. CASE BeginHandler(n, a)
  <2>1. \A m \in Node, b \in Attempt :
          handler'[m][b] \in Held => handler'[m][b] = handler[m][b]
    BY <1>1 DEF BeginHandler, GoTo, StreamInv, TypeOK, Held
  <2> QED BY <1>1, <2>1, QuietStep DEF BeginHandler, diskVars, queueVars
<1>2. CASE AnswerAtOnce(n, a)
  <2>1. CASE Answer(a, ErrorResult)
    BY <1>0, <1>2, <2>1, AnswerQueue, WalletReturn DEF AnswerAtOnce, StreamInv
  <2>2. CASE stored[n] # 0 /\ Answer(a, Success(stored[n]))
    <3>1. Success(stored[n]) \in Results \ {NoResult}
      BY <1>0 DEF StreamInv, TypeOK
    <3> QED BY <1>2, <2>2, <3>1, AnswerQueue, WalletReturn DEF AnswerAtOnce, StreamInv
  <2> QED BY <1>2, <2>1, <2>2 DEF AnswerAtOnce, Answer
<1>3. CASE RefuseDuplicate(n, a)
  BY <1>0, <1>3, AnswerQueue, WalletReturn DEF RefuseDuplicate, StreamInv
<1>4. CASE RefuseSession(n, a)
  BY <1>0, <1>4, AnswerQueue, WalletReturn DEF RefuseSession, StreamInv
<1>5. CASE CreateKeyGenSession(n, a)
  <2>1. /\ handler \in [Node -> [Attempt -> Phases]] /\ active \in [Node -> BOOLEAN]
        /\ handler' = [handler EXCEPT ![n][a] = "barrier"]
        /\ active' = [active EXCEPT ![n] = TRUE]
        /\ stored' = stored
    BY <1>5 DEF CreateKeyGenSession, GoTo, StreamInv, TypeOK, diskVars
  <2>2. \A b \in Attempt : handler[n][b] \notin Held
    BY <1>5 DEF CreateKeyGenSession, WalletInv, GuardInv, HeldIsActive
  <2>3. HeldIsActive' /\ OneHeld' /\ StoringIsStored'
    BY <2>1, <2>2 DEF WalletInv, GuardInv, HeldIsActive, OneHeld, StoringIsStored, Held
  <2>4. ~BlindReads => stored[n] = 0
    BY <1>5, CurveAssumption DEF CreateKeyGenSession, KeyExists, WalletInv, StoredHasKeys
  <2>5. NoRerun'
    BY <2>1, <2>4 DEF WalletInv, GuardInv, NoRerun
  <2>6. SessionHasKeys'
    BY <1>5 DEF CreateKeyGenSession, diskVars, StreamInv, TypeOK, WalletInv, SessionHasKeys
  <2>7. StoredHasKeys' /\ SuccessIsStored'
    BY <1>5 DEF CreateKeyGenSession, diskVars, queueVars, WalletInv, StoredHasKeys,
       SuccessIsStored
  <2> QED BY <2>3, <2>5, <2>6, <2>7 DEF WalletInv, GuardInv
<1> QED BY <1>1, <1>2, <1>3, <1>4, <1>5 DEF Admit

LEMMA BarrierWallet ==
  ASSUME StreamInv, WalletInv, NEW n \in Node, NEW a \in Attempt, Barrier(n, a)
  PROVE  WalletInv'
<1>0. ErrorResult \in Results \ {NoResult}
  BY BoundAssumption DEF Results, ErrorResult, NoResult
<1>1. ASSUME NEW k \in Curve, NEW p \in Node, ProbeBarrier(n, a, k, p) PROVE WalletInv'
  BY <1>1, QuietStep DEF ProbeBarrier, diskVars, queueVars
<1>2. CASE BarrierTimesOut(n, a)
  <2>1. handler[n][a] \in Held
    BY <1>2 DEF BarrierTimesOut, Held
  <2> QED BY <1>0, <1>2, <2>1, AnswerQueue, WalletReturn DEF BarrierTimesOut, StreamInv
<1>3. CASE GenerateKey(n, a)
  <2>1. /\ handler \in [Node -> [Attempt -> Phases]] /\ handler[n][a] = "barrier"
        /\ handler' = [handler EXCEPT ![n][a] = "generating"]
        /\ active' = active /\ stored' = stored
    BY <1>3 DEF GenerateKey, GoTo, StreamInv, TypeOK, diskVars
  <2>2. GuardInv'
    BY <2>1 DEF WalletInv, GuardInv, HeldIsActive, OneHeld, StoringIsStored, NoRerun, Held
  <2>3. SessionHasKeys'
    BY <1>3 DEF GenerateKey, diskVars, StreamInv, TypeOK, WalletInv, SessionHasKeys
  <2>4. StoredHasKeys' /\ SuccessIsStored'
    BY <1>3 DEF GenerateKey, diskVars, queueVars, WalletInv, StoredHasKeys, SuccessIsStored
  <2> QED BY <2>2, <2>3, <2>4 DEF WalletInv
<1> QED BY <1>1, <1>2, <1>3 DEF Barrier

LEMMA PartyWallet ==
  ASSUME StreamInv, WalletInv, NEW n \in Node, NEW a \in Attempt, NEW k \in Curve,
         Party(n, a, k)
  PROVE  WalletInv'
<1>1. CASE SaveShare(n, a, k)
  <2>1. \A m \in Node, c \in Curve : share[m][c] # 0 => share'[m][c] # 0
    BY <1>1 DEF SaveShare, StreamInv, TypeOK, Attempt
  <2>2. share'[n][k] # 0
    BY <1>1 DEF SaveShare, StreamInv, TypeOK, Attempt
  <2>3. SessionHasKeys'
    BY <1>1, <2>1, <2>2 DEF SaveShare, StreamInv, TypeOK, WalletInv, SessionHasKeys
  <2>4. StoredHasKeys' /\ SuccessIsStored' /\ GuardInv'
    BY <1>1, <2>1 DEF SaveShare, queueVars, WalletInv, StoredHasKeys, SuccessIsStored,
       GuardInv, HeldIsActive, OneHeld, StoringIsStored, NoRerun
  <2> QED BY <2>3, <2>4 DEF WalletInv
<1>2. CASE SaveKeyInfo(n, a, k)
  <2>1. SessionHasKeys'
    BY <1>2 DEF SaveKeyInfo, StreamInv, TypeOK, WalletInv, SessionHasKeys
  <2>2. StoredHasKeys' /\ SuccessIsStored' /\ GuardInv'
    BY <1>2 DEF SaveKeyInfo, queueVars, WalletInv, StoredHasKeys, SuccessIsStored,
       GuardInv, HeldIsActive, OneHeld, StoringIsStored, NoRerun
  <2> QED BY <2>1, <2>2 DEF WalletInv
<1>3. CASE SessionError(n, a, k)
  <2>1. ErrorResult \in Results
    BY BoundAssumption DEF Results, ErrorResult
  <2>2. QueueGrows(a, ErrorResult)
    BY <1>3, <2>1, ErrorQueue DEF SessionError, StreamInv
  <2>3. \A b \in Attempt : result'[b].kind = "success" => result'[b] = result[b]
    BY <2>2 DEF QueueGrows, ErrorResult
  <2>4. \A m \in Node, b \in Attempt, c \in Curve :
          session'[m][b][c] \in {"shared", "closed"} => session'[m][b][c] = session[m][b][c]
    <3>1. CASE session' = [session EXCEPT ![n][a][k] = "stuck"]
      BY <3>1 DEF StreamInv, TypeOK
    <3>2. CASE session' = session
      BY <3>2
    <3> QED BY <1>3, <3>1, <3>2 DEF SessionError
  <2>5. SessionHasKeys'
    BY <1>3, <2>4 DEF SessionError, diskVars, WalletInv, SessionHasKeys
  <2>6. StoredHasKeys' /\ SuccessIsStored' /\ GuardInv'
    BY <1>3, <2>3 DEF SessionError, diskVars, WalletInv, StoredHasKeys, SuccessIsStored,
       GuardInv, HeldIsActive, OneHeld, StoringIsStored, NoRerun
  <2> QED BY <2>5, <2>6 DEF WalletInv
<1> QED BY <1>1, <1>2, <1>3 DEF Party

LEMMA ConcludeWallet ==
  ASSUME StreamInv, WalletInv, NEW n \in Node, NEW a \in Attempt, Conclude(n, a)
  PROVE  WalletInv'
<1>0. ErrorResult \in Results \ {NoResult} /\ Success(a) \in Results \ {NoResult}
  BY BoundAssumption DEF Results, ErrorResult, NoResult, Success, Attempt
<1>h. handler[n][a] \in Held
  BY DEF Conclude, ReturnAfterError, StoreWalletCreationResult, StoreFails,
     PublishSuccess, KeyGenTimeOut, Held
<1>1. CASE ReturnAfterError(n, a)
  <2>1. GuardInv'
    BY <1>1, <1>h, ReturnGuard DEF ReturnAfterError
  <2> QED BY <1>1, <2>1 DEF ReturnAfterError, diskVars, queueVars, WalletInv,
     SessionHasKeys, StoredHasKeys, SuccessIsStored
<1>2. CASE StoreWalletCreationResult(n, a)
  <2>1. /\ handler \in [Node -> [Attempt -> Phases]] /\ handler[n][a] = "generating"
        /\ handler' = [handler EXCEPT ![n][a] = "storing"]
        /\ stored \in [Node -> 0..MaxAttempts]
        /\ stored' = [stored EXCEPT ![n] = a]
        /\ active' = active
    BY <1>2 DEF StoreWalletCreationResult, GoTo, StreamInv, TypeOK
  <2>2. \A b \in Attempt : b # a => handler[n][b] \notin Held
    BY <1>h DEF WalletInv, GuardInv, OneHeld
  <2>3. HeldIsActive' /\ OneHeld'
    BY <1>h, <2>1 DEF WalletInv, GuardInv, HeldIsActive, OneHeld, Held
  <2>4. StoringIsStored'
    BY <2>1, <2>2 DEF WalletInv, GuardInv, StoringIsStored, Held
  <2>5. NoRerun'
    BY <2>1, <2>2 DEF WalletInv, GuardInv, NoRerun, Held
  <2>6. \A k \in Curve : share[n][k] # 0 /\ k \in keyInfo
    BY <1>2 DEF StoreWalletCreationResult, AllDone, WalletInv, SessionHasKeys
  <2>7. StoredHasKeys'
    BY <1>2, <2>1, <2>6 DEF StoreWalletCreationResult, StreamInv, TypeOK, WalletInv,
       StoredHasKeys
  <2>8. ~BlindReads => stored[n] = 0
    BY <2>1 DEF WalletInv, GuardInv, NoRerun
  <2>9. a # 0 /\ \A m \in Node : stored[m] # 0 => stored'[m] # 0 /\ (BlindReads \/ stored'[m] = stored[m])
    BY <2>1, <2>8 DEF Attempt
  <2>10. SuccessIsStored'
    BY <1>2, <2>9 DEF StoreWalletCreationResult, queueVars, WalletInv, SuccessIsStored
  <2>11. SessionHasKeys'
    BY <1>2 DEF StoreWalletCreationResult, WalletInv, SessionHasKeys
  <2> QED BY <2>3, <2>4, <2>5, <2>7, <2>10, <2>11 DEF WalletInv, GuardInv
<1>3. CASE StoreFails(n, a)
  BY <1>0, <1>h, <1>3, ErrorQueue, WalletReturn DEF StoreFails, StreamInv
<1>4. CASE PublishSuccess(n, a)
  <2>1. stored[n] = a /\ a # 0
    BY <1>4 DEF PublishSuccess, WalletInv, GuardInv, StoringIsStored, Attempt
  <2> QED BY <1>0, <1>h, <1>4, <2>1, AnswerQueue, WalletReturn DEF PublishSuccess, StreamInv
<1>5. CASE KeyGenTimeOut(n, a)
  BY <1>0, <1>h, <1>5, AnswerQueue, WalletReturn DEF KeyGenTimeOut, StreamInv
<1> QED BY <1>1, <1>2, <1>3, <1>4, <1>5 DEF Conclude

LEMMA NextWallet == StreamInv /\ WalletInv /\ [Next]_vars => WalletInv'
<1> SUFFICES ASSUME StreamInv, WalletInv, [Next]_vars PROVE WalletInv'
  OBVIOUS
<1>1. CASE UNCHANGED vars
  BY <1>1, QuietStep DEF vars, runVars, diskVars, queueVars
<1>2. CASE Next
  BY <1>2, StreamWallet, CrashWallet, AdmitWallet, BarrierWallet, PartyWallet,
     ConcludeWallet DEF Next
<1> QED BY <1>1, <1>2

LEMMA WalletInvHolds == Spec => []WalletInv
  BY InitWallet, NextWallet, StreamInvHolds, PTL DEF Spec

\* A stored or published success stands for key shares of every curve on the
\* node and key infos in Consul (GenerateKey and handleKeyGenEvent).
THEOREM SuccessIsBacked == Spec => []SuccessHasKeys
<1>1. WalletInv => SuccessHasKeys
  BY DEF WalletInv, StoredHasKeys, SuccessIsStored, SuccessHasKeys
<1> QED BY <1>1, WalletInvHolds, PTL

\* A node creates a wallet once: its stored creation result is never replaced
\* as long as key infos can be read (tryAddSession, CreateKeyGenSession).
THEOREM WalletCreatedOnce == Spec => StoredResultNeverChanges
<1>1. StreamInv /\ WalletInv /\ [Next]_vars =>
        [~BlindReads => \A n \in Node : stored[n] # 0 => stored'[n] = stored[n]]_vars
  <2> SUFFICES ASSUME StreamInv, WalletInv, Next, ~BlindReads,
                      NEW n \in Node, stored[n] # 0
               PROVE  stored'[n] = stored[n]
    OBVIOUS
  <2>1. ASSUME NEW m \in Node, NEW a \in Attempt, StoreWalletCreationResult(m, a)
        PROVE  stored'[n] = stored[n]
    <3>1. stored[m] = 0
      BY <2>1 DEF StoreWalletCreationResult, WalletInv, GuardInv, NoRerun
    <3> QED BY <2>1, <3>1 DEF StoreWalletCreationResult, StreamInv, TypeOK
  <2>2. ASSUME NEW r \in Request, Stream(r) PROVE stored' = stored
    BY <2>2 DEF Stream, CreateWallet, AckWaitExpires, Deliver, diskVars
  <2>3. ASSUME NEW m \in Node, Consume(m) \/ Crash(m) \/ Restart(m) PROVE stored' = stored
    BY <2>3 DEF Consume, RejectRequest, PublishFails, PublishEvent, AckOnReply,
       AckFails, NakOnTimeout, Crash, Restart, diskVars
  <2>4. ASSUME NEW m \in Node, NEW a \in Attempt, Admit(m, a) PROVE stored' = stored
    BY <2>4 DEF Admit, BeginHandler, AnswerAtOnce, RefuseDuplicate, RefuseSession,
       CreateKeyGenSession, diskVars
  <2>5. ASSUME NEW m \in Node, NEW a \in Attempt, Barrier(m, a) PROVE stored' = stored
    BY <2>5 DEF Barrier, ProbeBarrier, BarrierTimesOut, GenerateKey, diskVars
  <2>6. ASSUME NEW m \in Node, NEW a \in Attempt, NEW k \in Curve, Party(m, a, k)
        PROVE  stored' = stored
    BY <2>6 DEF Party, SaveShare, SaveKeyInfo, SessionError, diskVars
  <2>7. ASSUME NEW m \in Node, NEW a \in Attempt, Conclude(m, a)
        PROVE  stored'[n] = stored[n]
    BY <2>1, <2>7 DEF Conclude, ReturnAfterError, StoreFails, PublishSuccess,
       KeyGenTimeOut, diskVars
  <2> QED BY <2>2, <2>3, <2>4, <2>5, <2>6, <2>7 DEF Next
<1> QED BY <1>1, StreamInvHolds, WalletInvHolds, PTL DEF Spec, StoredResultNeverChanges

-----------------------------------------------------------------------------
(* Third invariant: the nodes that store a result store the same one.      *)

Early == {"none", "queued", "checked"}

\* A node that has not created the sessions of an attempt has heard nobody.
EarlyIsFresh ==
  \A n \in Node, a \in Attempt :
    /\ a > attempts => handler[n][a] = "none"
    /\ handler[n][a] \in Early =>
         /\ stored[n] # a
         /\ \A k \in Curve : session[n][a][k] = "none" /\ heard[n][a][k] = {}

\* n has begun attempt a and not given it up, and has heard the party of p
\* start while it had.
Together(n, a, p) ==
  /\ handler[n][a] \in Held \/ stored[n] = a
  /\ \/ stored[n] = a
     \/ \E k \in Curve : p \in heard[n][a][k] \/ session[n][a][k] \in {"shared", "closed"}

\* Two nodes are never each in an attempt that the other has left: p has left
\* b when it starts a, so that what p has heard of b is of no use to it.
NoCross ==
  ~BlindReads =>
    \A n, p \in Node, a, b \in Attempt :
      n # p /\ Together(n, a, p) /\ Together(p, b, n) => a = b

AgreeInv == EarlyIsFresh /\ NoCross

LEMMA InitAgree == Init => AgreeInv
  BY DEF Init, AgreeInv, EarlyIsFresh, NoCross, Together, Held, Attempt

\* A step after which nobody has heard anybody new.
LEMMA NothingHeard ==
  ASSUME NoCross,
         \A n, p \in Node, a \in Attempt :
           n # p /\ (Together(n, a, p))' => Together(n, a, p)
  PROVE  NoCross'
  BY DEF NoCross

\* A step of the handlers that leaves the sessions and the disks alone.
LEMMA HandlerAgree ==
  ASSUME AgreeInv, UNCHANGED <<session, heard, stored, attempts>>,
         \A n \in Node, a \in Attempt :
           \/ handler'[n][a] = handler[n][a]
           \/ handler[n][a] # "none" /\ handler'[n][a] = "ended"
           \/ handler[n][a] = "queued" /\ handler'[n][a] = "checked"
  PROVE  AgreeInv'
<1>1. EarlyIsFresh'
  BY DEF AgreeInv, EarlyIsFresh, Early
<1>2. \A n, p \in Node, a \in Attempt : (Together(n, a, p))' => Together(n, a, p)
  BY DEF Together, Held
<1> QED BY <1>1, <1>2, NothingHeard DEF AgreeInv

LEMMA ReturnAgree ==
  ASSUME StreamInv, AgreeInv, NEW n \in Node, NEW a \in Attempt, NEW held \in BOOLEAN,
         handler[n][a] # "none", Return(n, a, held),
         UNCHANGED <<session, heard, stored, attempts>>
  PROVE  AgreeInv'
<1>1. \A m \in Node, b \in Attempt :
        \/ handler'[m][b] = handler[m][b]
        \/ handler[m][b] # "none" /\ handler'[m][b] = "ended"
  BY DEF Return, GoTo, StreamInv, TypeOK
<1> QED BY <1>1, HandlerAgree

LEMMA PublishAgree ==
  ASSUME StreamInv, AgreeInv, NEW n \in Node, NEW r \in Request, PublishEvent(n, r)
  PROVE  AgreeInv'
<1>1. /\ attempts \in Nat /\ attempts' = attempts + 1 /\ attempts' \in Attempt
      /\ UNCHANGED <<session, heard, stored>>
  BY BoundAssumption DEF PublishEvent, StreamInv, TypeOK, Attempt, diskVars
<1>2. \A m \in Node, a \in Attempt :
        /\ a # attempts' => handler'[m][a] = handler[m][a]
        /\ a = attempts' => handler'[m][a] \in {"queued", "ended"}
  BY <1>1 DEF PublishEvent, StreamInv, TypeOK
<1>3. \A m \in Node : handler[m][attempts'] = "none"
  BY <1>1 DEF AgreeInv, EarlyIsFresh
<1>4. EarlyIsFresh'
  <2> SUFFICES ASSUME NEW m \in Node, NEW a \in Attempt
               PROVE  /\ a > attempts' => handler'[m][a] = "none"
                      /\ handler'[m][a] \in Early =>
                           /\ stored[m] # a
                           /\ \A k \in Curve : session[m][a][k] = "none" /\ heard[m][a][k] = {}
    BY <1>1 DEF EarlyIsFresh
  <2>1. a \in Nat
    BY BoundAssumption DEF Attempt
  <2>2. CASE a = attempts'
    <3>1. handler[m][a] \in Early /\ ~(a > attempts')
      BY <1>1, <1>3, <2>2 DEF Early
    <3> QED BY <3>1 DEF AgreeInv, EarlyIsFresh
  <2>3. CASE a # attempts'
    BY <1>1, <1>2, <2>1, <2>3 DEF AgreeInv, EarlyIsFresh
  <2> QED BY <2>2, <2>3
<1>5. \A m, p \in Node, a \in Attempt : (Together(m, a, p))' => Together(m, a, p)
  BY <1>1, <1>2 DEF Together, Held
<1> QED BY <1>4, <1>5, NothingHeard DEF AgreeInv

LEMMA StreamAgree ==
  ASSUME StreamInv, AgreeInv,
         \/ \E r \in Request : Stream(r)
         \/ \E n \in Node : Consume(n) \/ Restart(n)
  PROVE  AgreeInv'
<1>1. CASE UNCHANGED <<session, heard, stored, attempts, handler>>
  BY <1>1, HandlerAgree
<1>2. ASSUME NEW n \in Node, NEW r \in Request, PublishEvent(n, r) PROVE AgreeInv'
  BY <1>2, PublishAgree
<1> QED BY <1>1, <1>2
        DEF Stream, CreateWallet, AckWaitExpires, Deliver, Consume, RejectRequest,
            PublishFails, AckOnReply, AckFails, NakOnTimeout, Restart, streamVars,
            runVars, diskVars

LEMMA CrashAgree ==
  ASSUME StreamInv, AgreeInv, NEW n \in Node, Crash(n) PROVE AgreeInv'
<1>1. /\ UNCHANGED <<stored, attempts>>
      /\ \A m \in Node, a \in Attempt : m # n =>
           handler'[m][a] = handler[m][a] /\ heard'[m][a] = heard[m][a]
           /\ session'[m][a] = session[m][a]
      /\ \A a \in Attempt :
           /\ handler'[n][a] = IF a <= attempts THEN "ended" ELSE "none"
           /\ \A k \in Curve : session'[n][a][k] = "none" /\ heard'[n][a][k] = {}
  BY DEF Crash, StreamInv, TypeOK, diskVars
<1>2. attempts \in Nat /\ \A a \in Attempt : a \in Nat
  BY BoundAssumption DEF StreamInv, TypeOK, Attempt
<1>3. EarlyIsFresh'
  <2>1. ASSUME NEW a \in Attempt
        PROVE  /\ a > attempts => handler'[n][a] = "none"
               /\ handler'[n][a] \in Early => stored[n] # a
    BY <1>1, <1>2 DEF AgreeInv, EarlyIsFresh, Early
  <2> QED BY <1>1, <2>1 DEF AgreeInv, EarlyIsFresh
<1>4. \A m, p \in Node, a \in Attempt : (Together(m, a, p))' => Together(m, a, p)
  BY <1>1 DEF Together
<1> QED BY <1>3, <1>4, NothingHeard DEF AgreeInv

LEMMA AdmitAgree ==
  ASSUME StreamInv, AgreeInv, NEW n \in Node, NEW a \in Attempt, Admit(n, a)
  PROVE  AgreeInv'
<1>1. CASE BeginHandler(n, a)
  <2>1. \A m \in Node, b \in Attempt :
          \/ handler'[m][b] = handler[m][b]
          \/ handler[m][b] = "queued" /\ handler'[m][b] = "checked"
    BY <1>1 DEF BeginHandler, GoTo, StreamInv, TypeOK
  <2> QED BY <1>1, <2>1, HandlerAgree DEF BeginHandler, streamVars, diskVars
<1>2. CASE AnswerAtOnce(n, a)
  BY <1>2, ReturnAgree DEF AnswerAtOnce, streamVars, diskVars
<1>3. CASE RefuseDuplicate(n, a)
  BY <1>3, ReturnAgree DEF RefuseDuplicate, streamVars, diskVars
<1>4. CASE RefuseSession(n, a)
  BY <1>4, ReturnAgree DEF RefuseSession, streamVars, diskVars
<1>5. CASE CreateKeyGenSession(n, a)
  <2>1. /\ UNCHANGED <<stored, attempts, heard>> /\ handler[n][a] = "checked"
        /\ handler'[n][a] = "barrier"
        /\ \A k \in Curve : session'[n][a][k] = "listening"
        /\ \A m \in Node, b \in Attempt : ~(m = n /\ b = a) =>
             handler'[m][b] = handler[m][b] /\ session'[m][b] = session[m][b]
    BY <1>5 DEF CreateKeyGenSession, GoTo, StreamInv, TypeOK, streamVars, diskVars
  <2>2. ~(a > attempts) /\ stored[n] # a /\ \A k \in Curve : heard[n][a][k] = {}
    BY <2>1 DEF AgreeInv, EarlyIsFresh, Early
  <2>3. EarlyIsFresh'
    <3> SUFFICES ASSUME NEW m \in Node, NEW b \in Attempt
                 PROVE  /\ b > attempts => handler'[m][b] = "none"
                        /\ handler'[m][b] \in Early =>
                             /\ stored[m] # b
                             /\ \A k \in Curve :
                                  session'[m][b][k] = "none" /\ heard[m][b][k] = {}
      BY <2>1 DEF EarlyIsFresh
    <3>1. CASE m = n /\ b = a
      BY <2>1, <2>2, <3>1 DEF Early
    <3>2. CASE ~(m = n /\ b = a)
      BY <2>1, <3>2 DEF AgreeInv, EarlyIsFresh
    <3> QED BY <3>1, <3>2
  <2>4. \A m, p \in Node, b \in Attempt : (Together(m, b, p))' => Together(m, b, p)
    BY <2>1, <2>2 DEF Together
  <2> QED BY <2>3, <2>4, NothingHeard DEF AgreeInv
<1> QED BY <1>1, <1>2, <1>3, <1>4, <1>5 DEF Admit

\* The only step after which somebody has heard somebody new: p starts its
\* party of a, and has then left every other attempt.
LEMMA GenerateAgree ==
  ASSUME StreamInv, WalletInv, AgreeInv, NEW p \in Node, NEW a \in Attempt,
         GenerateKey(p, a)
  PROVE  AgreeInv'
<1>1. /\ UNCHANGED <<stored, attempts>> /\ handler[p][a] = "barrier"
      /\ handler'[p][a] = "generating"
      /\ \A m \in Node, b \in Attempt : ~(m = p /\ b = a) =>
           handler'[m][b] = handler[m][b] /\ session'[m][b] = session[m][b]
      /\ \A k \in Curve : session'[p][a][k] = "started"
  BY DEF GenerateKey, GoTo, StreamInv, TypeOK, streamVars, diskVars
<1>2. \A m \in Node, b \in Attempt, k \in Curve :
        heard'[m][b][k] = IF b = a /\ m # p /\ session[m][b][k] \in Subscribed
                          THEN heard[m][b][k] \cup {p} ELSE heard[m][b][k]
  BY DEF GenerateKey, StreamInv, TypeOK
<1>3. EarlyIsFresh'
  <2> SUFFICES ASSUME NEW m \in Node, NEW b \in Attempt
               PROVE  /\ b > attempts => handler'[m][b] = "none"
                      /\ handler'[m][b] \in Early =>
                           /\ stored[m] # b
                           /\ \A k \in Curve :
                                session'[m][b][k] = "none" /\ heard'[m][b][k] = {}
    BY <1>1 DEF EarlyIsFresh
  <2>1. CASE m = p /\ b = a
    <3>1. ~(b > attempts)
      BY <1>1, <2>1 DEF AgreeInv, EarlyIsFresh
    <3> QED BY <1>1, <2>1, <3>1 DEF Early
  <2>2. CASE ~(m = p /\ b = a)
    <3>1. handler'[m][b] = handler[m][b] /\ session'[m][b] = session[m][b]
      BY <1>1, <2>2
    <3>2. ASSUME NEW k \in Curve, handler[m][b] \in Early
          PROVE  session[m][b][k] = "none" /\ heard'[m][b][k] = {}
      <4>1. session[m][b][k] = "none" /\ heard[m][b][k] = {}
        BY <3>2 DEF AgreeInv, EarlyIsFresh
      <4>2. session[m][b][k] \notin Subscribed
        BY <4>1 DEF Subscribed
      <4> QED BY <1>2, <4>1, <4>2
    <3> QED BY <3>1, <3>2 DEF AgreeInv, EarlyIsFresh
  <2> QED BY <2>1, <2>2
<1>4. ASSUME NEW m \in Node, NEW q \in Node, NEW b \in Attempt,
             m # q, (Together(m, b, q))', ~(q = p /\ b = a)
      PROVE  Together(m, b, q)
  <2>1. handler[m][b] \in Held \/ stored[m] = b
    <3>1. CASE m = p /\ b = a
      BY <1>1, <3>1 DEF Held
    <3>2. CASE ~(m = p /\ b = a)
      BY <1>1, <1>4, <3>2 DEF Together
    <3> QED BY <3>1, <3>2
  <2>2. ASSUME NEW k \in Curve, q \in heard'[m][b][k] PROVE q \in heard[m][b][k]
    <3>1. \/ heard'[m][b][k] = heard[m][b][k]
          \/ b = a /\ heard'[m][b][k] = heard[m][b][k] \cup {p}
      BY <1>2
    <3>2. CASE heard'[m][b][k] = heard[m][b][k]
      BY <2>2, <3>2
    <3>3. CASE b = a /\ heard'[m][b][k] = heard[m][b][k] \cup {p}
      <4>1. q # p
        BY <1>4, <3>3
      <4> QED BY <2>2, <3>3, <4>1
    <3> QED BY <3>1, <3>2, <3>3
  <2>3. ASSUME NEW k \in Curve, session'[m][b][k] \in {"shared", "closed"}
        PROVE  session[m][b][k] \in {"shared", "closed"}
    <3>1. ~(m = p /\ b = a)
      BY <1>1, <2>3
    <3> QED BY <1>1, <2>3, <3>1
  <2> QED BY <1>1, <1>4, <2>1, <2>2, <2>3 DEF Together
<1>5. ASSUME ~BlindReads, NEW q \in Node, NEW b \in Attempt, b # a
      PROVE  ~Together(p, b, q) /\ ~(Together(p, b, q))'
  <2>1. handler[p][b] \notin Held
    BY <1>1, <1>5 DEF WalletInv, GuardInv, OneHeld, Held
  <2>2. stored[p] # b
    BY <1>1, <1>5, BoundAssumption DEF WalletInv, GuardInv, NoRerun, Attempt
  <2> QED BY <1>1, <1>5, <2>1, <2>2 DEF Together
<1>6. NoCross'
  <2> SUFFICES ASSUME ~BlindReads, NEW m \in Node, NEW q \in Node, NEW b \in Attempt,
                      NEW c \in Attempt, m # q, (Together(m, b, q))', (Together(q, c, m))'
               PROVE  b = c
    BY DEF NoCross
  <2>1. CASE Together(m, b, q) /\ Together(q, c, m)
    BY <2>1 DEF AgreeInv, NoCross
  <2>2. CASE q = p /\ b = a
    BY <1>5, <2>2
  <2>3. CASE m = p /\ c = a
    BY <1>5, <2>3
  <2> QED BY <1>4, <2>1, <2>2, <2>3
<1> QED BY <1>3, <1>6 DEF AgreeInv

LEMMA BarrierAgree ==
  ASSUME StreamInv, WalletInv, AgreeInv, NEW n \in Node, NEW a \in Attempt, Barrier(n, a)
  PROVE  AgreeInv'
<1>1. ASSUME NEW k \in Curve, NEW p \in Node, ProbeBarrier(n, a, k, p) PROVE AgreeInv'
  BY <1>1, HandlerAgree DEF ProbeBarrier, streamVars, diskVars
<1>2. CASE BarrierTimesOut(n, a)
  BY <1>2, ReturnAgree DEF BarrierTimesOut, streamVars, diskVars
<1>3. CASE GenerateKey(n, a)
  BY <1>3, GenerateAgree
<1> QED BY <1>1, <1>2, <1>3 DEF Barrier

\* A party that finishes has heard every peer, so that it stays together with
\* each of them when its session is closed and forgets whom it has heard.
LEMMA PartyAgree ==
  ASSUME StreamInv, AgreeInv, NEW n \in Node, NEW a \in Attempt, NEW k \in Curve,
         Party(n, a, k)
  PROVE  AgreeInv'
<1>1. /\ UNCHANGED <<handler, stored, attempts>>
      /\ session[n][a][k] \in {"listening", "started", "shared"}
  BY DEF Party, SaveShare, SaveKeyInfo, SessionError, streamVars, diskVars
<1>2. /\ \A m \in Node, b \in Attempt, c \in Curve : ~(m = n /\ b = a /\ c = k) =>
           session'[m][b][c] = session[m][b][c] /\ heard'[m][b][c] = heard[m][b][c]
      /\ heard'[n][a][k] \subseteq heard[n][a][k]
      /\ session'[n][a][k] \in {"shared", "closed"} =>
           session[n][a][k] \in {"shared", "closed"} \/ heard[n][a][k] = getPeers(n)
  <2>1. CASE SaveShare(n, a, k)
    BY <2>1 DEF SaveShare, StreamInv, TypeOK
  <2>2. CASE SaveKeyInfo(n, a, k)
    BY <2>2 DEF SaveKeyInfo, StreamInv, TypeOK
  <2>3. CASE SessionError(n, a, k)
    <3>1. CASE session' = [session EXCEPT ![n][a][k] = "stuck"]
      BY <2>3, <3>1 DEF SessionError, StreamInv, TypeOK
    <3>2. CASE session' = session
      BY <2>3, <3>2 DEF SessionError
    <3> QED BY <2>3, <3>1, <3>2 DEF SessionError
  <2> QED BY <2>1, <2>2, <2>3 DEF Party
<1>3. handler[n][a] \notin Early
  BY <1>1 DEF AgreeInv, EarlyIsFresh
<1>4. EarlyIsFresh'
  <2>1. ASSUME NEW m \in Node, NEW b \in Attempt, handler[m][b] \in Early, NEW c \in Curve
        PROVE  session'[m][b][c] = "none" /\ heard'[m][b][c] = {}
    BY <1>2, <1>3, <2>1 DEF AgreeInv, EarlyIsFresh
  <2> QED BY <1>1, <2>1 DEF AgreeInv, EarlyIsFresh
<1>5. ASSUME NEW m \in Node, NEW p \in Node, NEW b \in Attempt,
             m # p, (Together(m, b, p))'
      PROVE  Together(m, b, p)
  <2>1. CASE stored[m] = b
    BY <2>1 DEF Together
  <2>2. ASSUME NEW c \in Curve,
               p \in heard'[m][b][c] \/ session'[m][b][c] \in {"shared", "closed"}
        PROVE  p \in heard[m][b][c] \/ session[m][b][c] \in {"shared", "closed"}
    <3>1. CASE m = n /\ b = a /\ c = k
      BY <1>2, <1>5, <2>2, <3>1 DEF getPeers
    <3>2. CASE ~(m = n /\ b = a /\ c = k)
      BY <1>2, <2>2, <3>2
    <3> QED BY <3>1, <3>2
  <2> QED BY <1>1, <1>5, <2>1, <2>2 DEF Together
<1> QED BY <1>4, <1>5, NothingHeard DEF AgreeInv

LEMMA ConcludeAgree ==
  ASSUME StreamInv, AgreeInv, NEW n \in Node, NEW a \in Attempt, Conclude(n, a)
  PROVE  AgreeInv'
<1>1. CASE ReturnAfterError(n, a)
  BY <1>1, ReturnAgree DEF ReturnAfterError, streamVars, diskVars
<1>2. CASE StoreWalletCreationResult(n, a)
  <2>1. /\ UNCHANGED <<session, heard, attempts>> /\ handler[n][a] = "generating"
        /\ handler'[n][a] = "storing" /\ stored'[n] = a
        /\ \A m \in Node : m # n => stored'[m] = stored[m]
        /\ \A m \in Node, b \in Attempt : ~(m = n /\ b = a) => handler'[m][b] = handler[m][b]
        /\ \A k \in Curve : session[n][a][k] = "closed"
    BY <1>2 DEF StoreWalletCreationResult, AllDone, GoTo, StreamInv, TypeOK, streamVars
  <2>2. EarlyIsFresh'
    <3> SUFFICES ASSUME NEW m \in Node, NEW b \in Attempt
                 PROVE  /\ b > attempts => handler'[m][b] = "none"
                        /\ handler'[m][b] \in Early =>
                             /\ stored'[m] # b
                             /\ \A k \in Curve :
                                  session[m][b][k] = "none" /\ heard[m][b][k] = {}
      BY <2>1 DEF EarlyIsFresh
    <3>1. CASE m = n /\ b = a
      <4>1. ~(b > attempts)
        BY <2>1, <3>1 DEF AgreeInv, EarlyIsFresh
      <4> QED BY <2>1, <3>1, <4>1 DEF Early
    <3>2. CASE ~(m = n /\ b = a)
      BY <2>1, <3>2 DEF AgreeInv, EarlyIsFresh
    <3> QED BY <3>1, <3>2
  <2>3. ASSUME NEW p \in Node PROVE Together(n, a, p)
    BY <2>1, CurveAssumption DEF Together, Held
  <2>4. ASSUME NEW m \in Node, NEW p \in Node, NEW b \in Attempt,
               m # p, (Together(m, b, p))'
        PROVE  Together(m, b, p)
    <3>1. CASE m = n /\ b = a
      BY <2>3, <3>1
    <3>2. CASE m = n /\ b # a
      BY <2>1, <2>4, <3>2 DEF Together
    <3>3. CASE m # n
      BY <2>1, <2>4, <3>3 DEF Together
    <3> QED BY <3>1, <3>2, <3>3
  <2> QED BY <2>2, <2>4, NothingHeard DEF AgreeInv
<1>3. CASE StoreFails(n, a)
  BY <1>3, ReturnAgree DEF StoreFails, streamVars, diskVars
<1>4. CASE PublishSuccess(n, a)
  BY <1>4, ReturnAgree DEF PublishSuccess, streamVars, diskVars
<1>5. CASE KeyGenTimeOut(n, a)
  BY <1>5, ReturnAgree DEF KeyGenTimeOut, streamVars, diskVars
<1> QED BY <1>1, <1>2, <1>3, <1>4, <1>5 DEF Conclude

LEMMA NextAgree == StreamInv /\ WalletInv /\ AgreeInv /\ [Next]_vars => AgreeInv'
<1> SUFFICES ASSUME StreamInv, WalletInv, AgreeInv, [Next]_vars PROVE AgreeInv'
  OBVIOUS
<1>1. CASE UNCHANGED vars
  BY <1>1, HandlerAgree DEF vars, streamVars, runVars, diskVars
<1>2. CASE Next
  BY <1>2, StreamAgree, CrashAgree, AdmitAgree, BarrierAgree, PartyAgree, ConcludeAgree
     DEF Next
<1> QED BY <1>1, <1>2

\* The nodes that store a creation result store that of the same attempt, as
\* long as key infos can be read: a party finishes only after it has heard the
\* peers of its own attempt, and a node that starts an attempt has left the
\* ones before it (tryAddSession, CreateKeyGenSession, GenerateKey).
THEOREM NodesAgree == Spec => []NodesAgreeOnWallet
<1>1. StreamInv /\ AgreeInv => NodesAgreeOnWallet
  <2> SUFFICES ASSUME StreamInv, AgreeInv, ~BlindReads, NEW n \in Node, NEW m \in Node,
                      stored[n] # 0, stored[m] # 0
               PROVE  stored[n] = stored[m]
    BY DEF NodesAgreeOnWallet
  <2>1. stored[n] \in Attempt /\ stored[m] \in Attempt
    BY BoundAssumption DEF StreamInv, TypeOK, Attempt
  <2>2. Together(n, stored[n], m) /\ Together(m, stored[m], n)
    BY DEF Together
  <2> QED BY <2>1, <2>2 DEF AgreeInv, NoCross
<1>2. Spec => []AgreeInv
  BY InitAgree, NextAgree, StreamInvHolds, WalletInvHolds, PTL DEF Spec
<1> QED BY <1>1, <1>2, StreamInvHolds, PTL
=============================================================================
