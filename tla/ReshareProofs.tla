--------------------------- MODULE ReshareProofs ---------------------------
(***************************************************************************)
(* Proofs about Reshare, for any number of nodes, requests, versions and   *)
(* faults: its type invariant, that the version the key info names is held *)
(* by a participant, and that every new share comes from an authorised     *)
(* request and enough old members.                                         *)
(***************************************************************************)
EXTENDS Reshare, FiniteSetTheorems, TLAPS

-----------------------------------------------------------------------------
(* The inductive invariant.                                                *)

\* A request is published once.
OneContent == \A e \in Event : \A m \in request[e] : request[e] = {m}

\* Requests wait at most once, and a node makes the sessions of a request when
\* it is the first and its handler has come that far.
QueueOK(n) ==
  /\ \A i \in 1..Len(queue[n]) : request[queue[n][i]] # {}
  /\ \A i, j \in 1..Len(queue[n]) : queue[n][i] = queue[n][j] => i = j
  /\ \A i \in 1..Len(queue[n]) :
       i > 1 \/ stage[n] \in {"idle", "created"} => session[n][queue[n][i]] = NoSession
  /\ stage[n] = "created" => queue[n] # <<>> /\ Valid(Content(Head(queue[n])))

\* p is an old member that has started a party for the new committee.
Started(p, committee) ==
  \E b \in Event : request[b] # {} /\ NodeIDs(b) = committee /\ p \in starters[b]

\* What CreateReshareSession has checked before a session has a view.
Checked(v, e) ==
  /\ v.New = NodeIDs(e) /\ Valid(Content(e))
  /\ Cardinality(v.Old) >= v.Threshold + 1
  /\ v.Threshold \in Thresholds(v.Version)

\* The share is in Badger before the key info names it.
SharePut(n, e) ==
  \E v \in view[n][e] :
    /\ view[n][e] = {v} /\ v.Version + 1 \in Version /\ e \in share[n][v.Version + 1]

SessionOK(n, e) ==
  /\ session[n][e] # NoSession \/ view[n][e] # {} => request[e] # {}
  /\ session[n][e] = NoSession => heard[n][e] = {}
  /\ IsFiniteSet(view[n][e]) /\ \A v \in view[n][e] : Checked(v, e)
  /\ session[n][e]["new"] # "none" => n \in NodeIDs(e)
  /\ session[n][e]["new"] = "running" /\ session[n][e]["old"] # "none" => n \in starters[e]
  /\ session[n][e]["new"] = "shared" => SharePut(n, e)
  /\ \A v \in view[n][e] : view[n][e] = {v} =>
       \A p \in heard[n][e] \cap v.Old : Started(p, v.New)

DiskOK ==
  /\ keyInfo.Threshold \in Thresholds(keyInfo.Version)
  /\ \A n \in Node : share[n][1] = {}
  /\ \A n \in Node, v \in Version : \A e \in share[n][v] : request[e] # {}

ReshareInv ==
  /\ TypeOK
  /\ OneContent
  /\ \A n \in Node : QueueOK(n)
  /\ \A n \in Node, e \in Event : SessionOK(n, e)
  /\ DiskOK
  /\ CurrentVersionIsHeld
  /\ RotationIsAuthorised

-----------------------------------------------------------------------------
(* The parts of TypeOK, by the group of variables.                         *)

HandlerTypes ==
  /\ up \in [Node -> BOOLEAN]
  /\ queue \in [Node -> Seq(Event)]
  /\ stage \in [Node -> {"idle", "created", "barrier", "running"}]
  /\ view \in [Node -> [Event -> SUBSET Views]]
  /\ session \in [Node -> [Event -> [Role -> SessionStates]]]
  /\ probed \in [Node -> SUBSET Node]
  /\ heard \in [Node -> [Event -> SUBSET Node]]
  /\ raised \in [Node -> [Event -> SUBSET Role]]
  /\ reported \in [Node -> [Event -> SUBSET Role]]

KeyInfos == [Version : Version, ParticipantPeerIDs : SUBSET Node, Threshold : Nat]

StoreTypes ==
  /\ request \in [Event -> SUBSET Message]
  /\ original \subseteq FirstParticipants
  /\ share \in [Node -> [Version -> SUBSET Event]]
  /\ keyInfo \in KeyInfos
  /\ starters \in [Event -> SUBSET Node]

ResultTypes ==
  /\ result \in [Event -> {"none", "error", "success"}]
  /\ lost \subseteq Event
  /\ faults \in 0..MaxFaults

LEMMA TypeParts ==
  /\ TypeOK <=> HandlerTypes /\ StoreTypes /\ ResultTypes
  /\ TypeOK' <=> HandlerTypes' /\ StoreTypes' /\ ResultTypes'
  BY DEF TypeOK, HandlerTypes, StoreTypes, ResultTypes, KeyInfos

LEMMA FaultType == ASSUME TypeOK, Fault PROVE faults' \in 0..MaxFaults
  BY BoundAssumption DEF TypeOK, Fault

LEMMA EnqueueType ==
  ASSUME TypeOK, NEW e \in Event, NEW res \in {"error", "success"}, Enqueue(e, res)
  PROVE  result' \in [Event -> {"none", "error", "success"}]
  BY DEF TypeOK, Enqueue

LEMMA ErrorType ==
  ASSUME TypeOK, NEW e \in Event, handleReshareSessionError(e) PROVE ResultTypes'
<1>1. ResultTypes
  BY TypeParts
<1> QED BY <1>1, FaultType, EnqueueType DEF handleReshareSessionError, ResultTypes, resultVars

\* What the head of a queue is, and what is left of it.
LEMMA HeadType ==
  ASSUME TypeOK, NEW n \in Node, queue[n] # <<>>
  PROVE  /\ Head(queue[n]) \in Event /\ Head(queue[n]) = queue[n][1]
         /\ Len(queue[n]) \in Nat \ {0} /\ Tail(queue[n]) \in Seq(Event)
         /\ Len(Tail(queue[n])) = Len(queue[n]) - 1
         /\ \A i \in 1..Len(Tail(queue[n])) : Tail(queue[n])[i] = queue[n][i + 1]
<1>1. queue[n] \in Seq(Event)
  BY DEF TypeOK
<1> QED BY <1>1

LEMMA ContentType ==
  ASSUME TypeOK, NEW e \in Event, request[e] # {}
  PROVE  /\ Content(e) \in request[e] /\ Content(e) \in Message
         /\ NodeIDs(e) \subseteq Node /\ Content(e).NewThreshold \in Nat
<1>1. Content(e) \in request[e]
  BY DEF Content
<1>2. Content(e) \in Message
  BY <1>1 DEF TypeOK
<1> QED BY <1>1, <1>2, MessageAssumption DEF NodeIDs

LEMMA ViewType ==
  ASSUME TypeOK, NEW n \in Node, NEW e \in Event, NEW v \in view[n][e]
  PROVE  /\ v \in Views /\ v.Version \in Version /\ v.Threshold \in Nat
         /\ v.Old \subseteq Node /\ v.New \subseteq Node
         /\ view[n][e] = {v} => View(n, e) = v
<1>1. v \in Views
  BY DEF TypeOK
<1> QED BY <1>1 DEF Views, View

LEMMA NoneIsNoSession ==
  ASSUME NEW n \in Node, NEW e \in Event
  PROVE  /\ TypeOK => (session[n][e] = NoSession
                       <=> \A role \in Role : session[n][e][role] = "none")
         /\ TypeOK' => (session'[n][e] = NoSession
                        <=> \A role \in Role : session'[n][e][role] = "none")
  BY DEF TypeOK, NoSession

-----------------------------------------------------------------------------
(* What only grows: published requests, shares and old members.            *)

Grows ==
  /\ \A e \in Event : request[e] # {} => request'[e] = request[e]
  /\ \A n \in Node, v \in Version : share[n][v] \subseteq share'[n][v]
  /\ \A e \in Event : starters[e] \subseteq starters'[e]

LEMMA NextGrows == ASSUME TypeOK, [Next]_vars PROVE Grows
<1>0. /\ request \in [Event -> SUBSET Message] /\ starters \in [Event -> SUBSET Node]
      /\ share \in [Node -> [Version -> SUBSET Event]]
  BY DEF TypeOK
<1>1. ASSUME NEW e \in Event, NEW m \in Message, Resharing(e, m) PROVE Grows
  BY <1>0, <1>1 DEF Resharing, Grows, diskVars
<1>2. ASSUME NEW n \in Node, Handle(n) PROVE Grows
  <2>1. CASE StartReshare(n)
    BY <1>0, <2>1 DEF StartReshare, Grows, diskVars
  <2> QED
    BY <1>2, <2>1
    DEF Handle, Grows, diskVars, RejectEvent, CreateFails, CreateOldSession,
        CreateNewSession, SkipEvent, InitFails, BarrierFails, FinishHandler, WatchError
<1>3. ASSUME NEW n \in Node, NEW e \in Event, Party(n, e) PROVE Grows
  BY <1>0, <1>3 DEF Party, Grows, diskVars, OldPartyEnds, PutShare, SaveKeyInfo
<1>4. ASSUME NEW n \in Node,
             \/ Crash(n) \/ Restart(n) \/ \E p \in Node : ProbeBarrier(n, p)
             \/ \E e \in Event, role \in Role : SessionError(n, e, role)
      PROVE  Grows
  BY <1>4 DEF Grows, diskVars, Crash, Restart, ProbeBarrier, SessionError
<1>5. CASE UNCHANGED vars
  BY <1>5 DEF Grows, vars, diskVars
<1> QED BY <1>1, <1>2, <1>3, <1>4, <1>5 DEF Next

LEMMA ContentKept ==
  ASSUME Grows, NEW e \in Event, request[e] # {}
  PROVE  /\ request'[e] = request[e] /\ Content(e)' = Content(e)
         /\ NodeIDs(e)' = NodeIDs(e)
  BY DEF Grows, Content, NodeIDs

LEMMA ThresholdsGrow ==
  ASSUME TypeOK, DiskOK, Grows, NEW v \in Version
  PROVE  Thresholds(v) \subseteq Thresholds(v)'
<1>1. CASE v = 1
  BY <1>1 DEF Thresholds
<1>2. CASE v # 1
  <2> SUFFICES ASSUME NEW n \in Node, NEW e \in share[n][v]
               PROVE  Content(e).NewThreshold \in Thresholds(v)'
    BY <1>2 DEF Thresholds
  <2>1. e \in Event /\ request[e] # {}
    BY DEF TypeOK, DiskOK
  <2>2. Content(e)' = Content(e)
    BY <2>1, ContentKept
  <2>3. e \in share'[n][v]
    BY DEF Grows
  <2> QED BY <1>2, <2>2, <2>3 DEF Thresholds
<1> QED BY <1>1, <1>2

LEMMA StartedGrows ==
  ASSUME Grows, NEW p, NEW committee, Started(p, committee)
  PROVE  Started(p, committee)'
<1>1. PICK b \in Event : request[b] # {} /\ NodeIDs(b) = committee /\ p \in starters[b]
  BY DEF Started
<1>2. request'[b] # {} /\ NodeIDs(b)' = committee /\ p \in starters'[b]
  BY <1>1, ContentKept DEF Grows
<1> QED BY <1>2 DEF Started

LEMMA TookPartIsStarted ==
  ASSUME NEW e \in Event
  PROVE  /\ \A p : p \in TookPart(e) <=> Started(p, NodeIDs(e))
         /\ \A p : p \in TookPart(e)' <=> Started(p, NodeIDs(e))'
  BY DEF TookPart, Started

LEMMA CheckedKept ==
  ASSUME TypeOK, DiskOK, Grows, NEW e \in Event, request[e] # {},
         NEW v \in Views, Checked(v, e)
  PROVE  Checked(v, e)'
<1>1. v.Version \in Version
  BY DEF Views
<1> QED BY <1>1, ContentKept, ThresholdsGrow DEF Checked

-----------------------------------------------------------------------------
(* How a step leaves the sessions, the queues and the disks in order.      *)

\* The state of a session has moved on and it may have heard more, what it was
\* created with is the same.
SessionMoved(n, e) ==
  /\ view'[n][e] = view[n][e]
  /\ \A role \in Role : session'[n][e][role] = "none" <=> session[n][e][role] = "none"
  /\ session'[n][e]["new"] = "running" =>
       \/ session[n][e]["new"] = "running"
       \/ session[n][e]["old"] # "none" => n \in starters'[e]
  /\ session'[n][e]["new"] = "shared" =>
       session[n][e]["new"] = "shared" \/ SharePut(n, e)'
  /\ session[n][e] = NoSession => heard'[n][e] = heard[n][e]
  /\ \A p \in heard'[n][e] \ heard[n][e] : \A v \in view[n][e] :
       view[n][e] = {v} /\ p \in v.Old => Started(p, v.New)'

LEMMA SessionStep ==
  ASSUME ReshareInv, TypeOK', Grows, NEW n \in Node, NEW e \in Event, SessionMoved(n, e)
  PROVE  SessionOK(n, e)'
<1> USE DEF Role
<1>0. SessionOK(n, e) /\ TypeOK /\ DiskOK
  BY DEF ReshareInv
<1>1. session'[n][e] = NoSession <=> session[n][e] = NoSession
  BY <1>0, NoneIsNoSession DEF SessionMoved
<1>2. session'[n][e] # NoSession \/ view'[n][e] # {} => request[e] # {} /\ request'[e] # {}
  BY <1>0, <1>1, ContentKept DEF SessionOK, SessionMoved
<1>3. session'[n][e] = NoSession => heard'[n][e] = {}
  BY <1>0, <1>1 DEF SessionOK, SessionMoved
<1>4. ASSUME NEW v \in view'[n][e] PROVE Checked(v, e)'
  BY <1>0, <1>2, <1>4, CheckedKept, ViewType DEF SessionOK, SessionMoved
<1>9. IsFiniteSet(view'[n][e])
  BY <1>0 DEF SessionOK, SessionMoved
<1>5. session'[n][e]["new"] # "none" => n \in NodeIDs(e)'
  <2> HAVE session'[n][e]["new"] # "none"
  <2>1. session'[n][e] # NoSession
    BY NoneIsNoSession
  <2> QED BY <1>0, <1>2, <2>1, ContentKept DEF SessionOK, SessionMoved
<1>6. session'[n][e]["new"] = "running" /\ session'[n][e]["old"] # "none" => n \in starters'[e]
  BY <1>0 DEF SessionOK, SessionMoved, Grows
<1>7. session'[n][e]["new"] = "shared" => SharePut(n, e)'
  <2>1. SharePut(n, e) => SharePut(n, e)'
    BY DEF SharePut, SessionMoved, Grows
  <2> QED BY <1>0, <2>1 DEF SessionOK, SessionMoved
<1>8. ASSUME NEW v \in view'[n][e], view'[n][e] = {v}, NEW p \in heard'[n][e] \cap v.Old
      PROVE  Started(p, v.New)'
  BY <1>0, <1>8, StartedGrows DEF SessionOK, SessionMoved
<1> QED BY <1>2, <1>3, <1>4, <1>5, <1>6, <1>7, <1>8, <1>9 DEF SessionOK

LEMMA SessionSame ==
  ASSUME ReshareInv, TypeOK', Grows, NEW n \in Node, NEW e \in Event,
         view'[n][e] = view[n][e], heard'[n][e] = heard[n][e],
         session'[n][e] = session[n][e]
  PROVE  SessionOK(n, e)'
  BY SessionStep DEF SessionMoved

\* A node may make anything of the view of a request it has no session for, if
\* it has checked it.
LEMMA SessionReviewed ==
  ASSUME ReshareInv, TypeOK', Grows, NEW n \in Node, NEW e \in Event,
         session[n][e] = NoSession, session'[n][e] = NoSession,
         heard'[n][e] = heard[n][e], request[e] # {},
         IsFiniteSet(view'[n][e]), \A v \in view'[n][e] : Checked(v, e)'
  PROVE  SessionOK(n, e)'
<1>1. heard'[n][e] = {}
  BY DEF ReshareInv, SessionOK
<1>2. request'[e] # {}
  BY ContentKept
<1>3. session'[n][e]["new"] = "none"
  BY DEF NoSession, Role
<1> QED BY <1>1, <1>2, <1>3 DEF SessionOK

\* The queue is the same and no session was made of what waits in it.
LEMMA QueueSame ==
  ASSUME ReshareInv, Grows, NEW n \in Node, queue'[n] = queue[n],
         stage'[n] = stage[n],
         \A e \in Event : session[n][e] = NoSession => session'[n][e] = NoSession
  PROVE  QueueOK(n)'
<1>0. TypeOK /\ QueueOK(n) /\ queue[n] \in Seq(Event)
  BY DEF ReshareInv, TypeOK
<1>1. \A i \in 1..Len(queue[n]) : queue[n][i] \in Event
  BY <1>0
<1>2. \A i \in 1..Len(queue[n]) : request'[queue[n][i]] # {}
  BY <1>0, <1>1, ContentKept DEF QueueOK
<1>3. stage[n] = "created" => Content(Head(queue[n]))' = Content(Head(queue[n]))
  <2> HAVE stage[n] = "created"
  <2>1. Head(queue[n]) \in Event /\ Head(queue[n]) = queue[n][1] /\ 1 \in 1..Len(queue[n])
    BY <1>0, HeadType DEF QueueOK
  <2> QED BY <1>0, <2>1, ContentKept DEF QueueOK, Content
<1> QED BY <1>0, <1>1, <1>2, <1>3 DEF QueueOK

\* The handler returns.
LEMMA QueueReturned ==
  ASSUME ReshareInv, Grows, NEW n \in Node, queue[n] # <<>>, queue'[n] = Tail(queue[n]),
         stage'[n] = "idle",
         \A e \in Event : e # Head(queue[n]) => session'[n][e] = session[n][e]
  PROVE  QueueOK(n)'
<1>0. TypeOK /\ QueueOK(n) /\ queue[n] \in Seq(Event)
  BY DEF ReshareInv, TypeOK
<1>1. \A i \in 1..Len(queue[n]) : queue[n][i] \in Event /\ request'[queue[n][i]] # {}
  BY <1>0, ContentKept DEF QueueOK
<1>2. /\ Head(queue[n]) = queue[n][1] /\ Len(queue[n]) \in Nat \ {0}
      /\ Len(queue'[n]) = Len(queue[n]) - 1
      /\ \A i \in 1..Len(queue'[n]) : queue'[n][i] = queue[n][i + 1]
  BY <1>0, HeadType
<1>3. \A i \in 1..Len(queue'[n]) :
        /\ i + 1 \in 1..Len(queue[n]) /\ i + 1 > 1 /\ queue'[n][i] = queue[n][i + 1]
        /\ queue'[n][i] \in Event /\ queue'[n][i] # Head(queue[n])
  <2> TAKE i \in 1..Len(queue'[n])
  <2>1. i + 1 \in 1..Len(queue[n]) /\ 1 \in 1..Len(queue[n]) /\ i + 1 # 1 /\ i + 1 > 1
    BY <1>2
  <2> QED BY <1>0, <1>1, <1>2, <2>1 DEF QueueOK
<1>4. \A i \in 1..Len(queue'[n]) :
        request'[queue'[n][i]] # {} /\ session'[n][queue'[n][i]] = NoSession
  BY <1>0, <1>1, <1>3 DEF QueueOK
<1>5. \A i, j \in 1..Len(queue'[n]) : queue'[n][i] = queue'[n][j] => i = j
  <2> TAKE i, j \in 1..Len(queue'[n])
  <2> HAVE queue'[n][i] = queue'[n][j]
  <2>1. i + 1 = j + 1
    BY <1>0, <1>3 DEF QueueOK
  <2> QED BY <2>1
<1> QED BY <1>4, <1>5 DEF QueueOK

\* The handler goes on with the head of the queue.
LEMMA QueueHandled ==
  ASSUME ReshareInv, Grows, NEW n \in Node, queue[n] # <<>>, queue'[n] = queue[n],
         stage'[n] \in {"barrier", "running"},
         \A e \in Event : e # Head(queue[n]) => session'[n][e] = session[n][e]
  PROVE  QueueOK(n)'
<1>0. TypeOK /\ QueueOK(n) /\ queue[n] \in Seq(Event)
  BY DEF ReshareInv, TypeOK
<1>1. \A i \in 1..Len(queue[n]) : queue[n][i] \in Event /\ request'[queue[n][i]] # {}
  BY <1>0, ContentKept DEF QueueOK
<1>2. Head(queue[n]) = queue[n][1] /\ 1 \in 1..Len(queue[n])
  BY <1>0, HeadType
<1>3. ASSUME NEW i \in 1..Len(queue[n]), i > 1
      PROVE  session'[n][queue[n][i]] = NoSession
  <2>1. queue[n][i] # Head(queue[n])
    BY <1>0, <1>2, <1>3 DEF QueueOK
  <2> QED BY <1>0, <1>1, <1>3, <2>1 DEF QueueOK
<1> QED BY <1>0, <1>1, <1>3 DEF QueueOK

\* What RotationIsAuthorised says of one share.
RotationOK(e, v) ==
  /\ \E t \in Thresholds(v - 1) : Cardinality(TookPart(e)) >= t + 1
  /\ \A m \in request[e] :
       /\ m.Signature = [key |-> "initiator", over |-> m.Raw]
       /\ authConfig.Enabled => \A id \in authConfig.RequiredAuthorizers :
            \E sig \in m.AuthorizerSignatures :
              /\ sig.AuthorizerID = id /\ sig.key = id
              /\ sig.over = [InitiatorRaw |-> m.Raw, InitiatorSig |-> m.Signature]

LEMMA RotationParts ==
  /\ RotationIsAuthorised <=>
       \A n \in Node, v \in Version : \A e \in share[n][v] : RotationOK(e, v)
  /\ RotationIsAuthorised' <=>
       \A n \in Node, v \in Version : \A e \in share'[n][v] : RotationOK(e, v)'
  BY DEF RotationIsAuthorised, RotationOK

LEMMA ThresholdsAreNat ==
  ASSUME TypeOK, DiskOK, NEW v \in Version PROVE Thresholds(v) \subseteq Nat
<1>1. \A n \in Node : \A e \in share[n][v] : Content(e).NewThreshold \in Nat
  BY ContentType DEF TypeOK, DiskOK
<1> QED BY <1>1, BoundAssumption DEF Thresholds

LEMMA TookPartFinite ==
  ASSUME TypeOK, NEW e \in Event
  PROVE  TookPart(e) \subseteq Node /\ IsFiniteSet(TookPart(e)) /\ Cardinality(TookPart(e)) \in Nat
<1>1. TookPart(e) \subseteq Node
  BY DEF TookPart, TypeOK
<1> QED BY <1>1, NodeAssumption, FS_Subset, FS_CardinalityType

LEMMA RotationKept ==
  ASSUME TypeOK, TypeOK', DiskOK, Grows, NEW e \in Event, NEW v \in Version, v # 1,
         request[e] # {}, RotationOK(e, v)
  PROVE  RotationOK(e, v)'
<1>1. v - 1 \in Version
  BY BoundAssumption DEF Version
<1>2. PICK t \in Thresholds(v - 1) : Cardinality(TookPart(e)) >= t + 1
  BY DEF RotationOK
<1>3. t \in Thresholds(v - 1)' /\ t \in Nat
  BY <1>1, <1>2, ThresholdsGrow, ThresholdsAreNat
<1>4. TookPart(e) \subseteq TookPart(e)'
  BY TookPartIsStarted, StartedGrows, ContentKept
<1>5. Cardinality(TookPart(e)') >= Cardinality(TookPart(e))
  <2>1. IsFiniteSet(TookPart(e)')
    <3>1. TookPart(e)' \subseteq Node
      BY DEF TookPart, TypeOK
    <3> QED BY <3>1, NodeAssumption, FS_Subset
  <2> QED BY <1>4, <2>1, FS_Subset
<1>6. Cardinality(TookPart(e)') >= t + 1
  <2>1. Cardinality(TookPart(e)) \in Nat
    BY TookPartFinite
  <2>2. Cardinality(TookPart(e)') \in Nat
    <3>1. TookPart(e)' \subseteq Node
      BY DEF TookPart, TypeOK
    <3> QED BY <3>1, NodeAssumption, FS_Subset, FS_CardinalityType
  <2> QED BY <1>2, <1>3, <1>5, <2>1, <2>2
<1>7. request'[e] = request[e]
  BY ContentKept
<1> QED BY <1>3, <1>6, <1>7 DEF RotationOK

DisksOK == DiskOK /\ CurrentVersionIsHeld /\ RotationIsAuthorised

\* Nothing is written.
LEMMA DisksSame ==
  ASSUME ReshareInv, TypeOK', Grows, UNCHANGED diskVars
  PROVE  DisksOK'
<1> USE DEF diskVars
<1>0. TypeOK /\ DiskOK /\ RotationIsAuthorised /\ CurrentVersionIsHeld
  BY DEF ReshareInv
<1>1. DiskOK'
  <2>1. PICK w \in Version : w = keyInfo.Version
    BY <1>0 DEF TypeOK
  <2>2. keyInfo'.Threshold \in Thresholds(w)'
    BY <1>0, <2>1, ThresholdsGrow DEF DiskOK
  <2>3. \A n \in Node, v \in Version : \A e \in share'[n][v] : request'[e] # {}
    <3>1. ASSUME NEW n \in Node, NEW v \in Version, NEW e \in share[n][v]
          PROVE  request'[e] # {}
      <4>1. e \in Event /\ request[e] # {}
        BY <1>0 DEF DiskOK, TypeOK
      <4> QED BY <4>1 DEF Grows
    <3> QED BY <3>1
  <2> QED BY <1>0, <2>1, <2>2, <2>3 DEF DiskOK, Thresholds
<1>2. CurrentVersionIsHeld'
  BY <1>0 DEF CurrentVersionIsHeld, Holds
<1>3. RotationIsAuthorised'
  <2> SUFFICES ASSUME NEW n \in Node, NEW v \in Version, NEW e \in share[n][v]
               PROVE  RotationOK(e, v)'
    BY RotationParts
  <2>1. e \in Event /\ request[e] # {} /\ v # 1
    BY <1>0 DEF TypeOK, DiskOK
  <2> QED BY <1>0, <2>1, RotationParts, RotationKept
<1> QED BY <1>1, <1>2, <1>3 DEF DisksOK

LEMMA OneContentKept ==
  ASSUME ReshareInv, UNCHANGED request PROVE OneContent'
  BY DEF ReshareInv, OneContent

\* The parts of the invariant after a step.
LEMMA InvParts ==
  ASSUME TypeOK', OneContent', \A n \in Node : QueueOK(n)',
         \A n \in Node, e \in Event : SessionOK(n, e)', DisksOK'
  PROVE  ReshareInv'
  BY DEF ReshareInv, DisksOK

-----------------------------------------------------------------------------
(* Init and the requests.                                                  *)

LEMMA InitInv == Init => ReshareInv
<1> SUFFICES ASSUME Init PROVE ReshareInv
  OBVIOUS
<1>0. 1 \in Version /\ Version \subseteq Int
  BY BoundAssumption DEF Version
<1>1. TypeOK
  <2>1. keyInfo \in KeyInfos
    BY <1>0, NodeAssumption, BoundAssumption DEF Init, KeyInfos
  <2>2. HandlerTypes
    BY DEF Init, HandlerTypes, Nothing, NoSession, SessionStates
  <2>3. StoreTypes /\ ResultTypes
    BY <2>1, BoundAssumption DEF Init, StoreTypes, ResultTypes, Nothing
  <2> QED BY <2>2, <2>3, TypeParts
<1>2. OneContent /\ \A n \in Node : QueueOK(n)
  BY DEF Init, OneContent, QueueOK
<1>3. ASSUME NEW n \in Node, NEW e \in Event PROVE SessionOK(n, e)
  <2>1. view[n][e] = {} /\ heard[n][e] = {} /\ session[n][e] = NoSession
    BY DEF Init, Nothing
  <2>2. session[n][e]["new"] = "none"
    BY <2>1 DEF NoSession, Role
  <2> QED BY <2>1, <2>2, FS_EmptySet DEF SessionOK
<1>4. DiskOK /\ RotationIsAuthorised
  BY <1>0 DEF Init, DiskOK, RotationIsAuthorised, Thresholds
<1>5. CurrentVersionIsHeld
  <2>1. PICK n \in original : TRUE
    BY DEF Init
  <2> QED BY <2>1 DEF Init, CurrentVersionIsHeld, Holds
<1> QED BY <1>1, <1>2, <1>3, <1>4, <1>5 DEF ReshareInv

LEMMA ResharingStep ==
  ASSUME ReshareInv, Grows, NEW e \in Event, NEW m \in Message, Resharing(e, m)
  PROVE  ReshareInv'
<1>0. TypeOK /\ HandlerTypes /\ StoreTypes /\ ResultTypes
  BY TypeParts DEF ReshareInv
<1>1. PICK missed \in SUBSET {n \in Node : up[n]} :
        queue' = [n \in Node |-> IF up[n] /\ n \notin missed
                                 THEN Append(queue[n], e) ELSE queue[n]]
  BY DEF Resharing
<1>2. TypeOK'
  <2>1. queue' \in [Node -> Seq(Event)]
    BY <1>0, <1>1 DEF HandlerTypes
  <2>2. HandlerTypes'
    BY <1>0, <2>1 DEF HandlerTypes, Resharing
  <2>3. StoreTypes'
    BY <1>0 DEF StoreTypes, Resharing, diskVars
  <2>4. ResultTypes'
    BY <1>0, FaultType DEF ResultTypes, Resharing, resultVars
  <2> QED BY <2>2, <2>3, <2>4, TypeParts
<1>3. OneContent'
  BY <1>0 DEF ReshareInv, OneContent, Resharing, StoreTypes
<1>4. ASSUME NEW n \in Node PROVE QueueOK(n)'
  <2>0. UNCHANGED <<stage, session>>
    BY DEF Resharing
  <2>1. CASE queue'[n] = queue[n]
    BY <2>0, <2>1, QueueSame
  <2>2. CASE queue'[n] = Append(queue[n], e)
    <3>1. queue[n] \in Seq(Event) /\ QueueOK(n)
      BY <1>0 DEF HandlerTypes, ReshareInv
    <3>2. /\ Len(queue[n]) \in Nat /\ Len(queue'[n]) = Len(queue[n]) + 1
          /\ queue'[n][Len(queue[n]) + 1] = e
          /\ \A i \in 1..Len(queue[n]) : queue'[n][i] = queue[n][i] /\ queue[n][i] \in Event
          /\ queue'[n] # <<>> /\ (queue[n] # <<>> => Head(queue'[n]) = Head(queue[n]))
      BY <2>2, <3>1
    <3>3. request[e] = {} /\ request'[e] # {}
      BY <1>0 DEF Resharing, StoreTypes
    <3>4. session[n][e] = NoSession
      BY <3>3 DEF ReshareInv, SessionOK
    <3>5. \A i \in 1..Len(queue[n]) :
            queue[n][i] # e /\ request[queue[n][i]] # {} /\ request'[queue[n][i]] # {}
      BY <3>1, <3>2, <3>3, ContentKept DEF QueueOK
    <3>6. \A i \in 1..Len(queue'[n]) :
            \/ i = Len(queue[n]) + 1 /\ queue'[n][i] = e
            \/ i \in 1..Len(queue[n]) /\ queue'[n][i] = queue[n][i]
      BY <3>2
    <3>7. \A i \in 1..Len(queue'[n]) : request'[queue'[n][i]] # {}
      BY <3>3, <3>5, <3>6
    <3>8. \A i, j \in 1..Len(queue'[n]) : queue'[n][i] = queue'[n][j] => i = j
      BY <3>1, <3>5, <3>6 DEF QueueOK
    <3>9. \A i \in 1..Len(queue'[n]) :
            i > 1 \/ stage[n] \in {"idle", "created"} => session[n][queue'[n][i]] = NoSession
      BY <3>1, <3>4, <3>6 DEF QueueOK
    <3>10. stage[n] = "created" => queue'[n] # <<>> /\ Valid(Content(Head(queue[n])))'
      <4> HAVE stage[n] = "created"
      <4>1. queue[n] # <<>> /\ Valid(Content(Head(queue[n])))
        BY <3>1 DEF QueueOK
      <4>2. PICK h \in Event : h = Head(queue[n]) /\ h = queue[n][1] /\ 1 \in 1..Len(queue[n])
        BY <1>0, <4>1, HeadType
      <4>3. request'[h] = request[h]
        BY <3>5, <4>2, ContentKept
      <4>4. Head(queue'[n]) = h
        BY <3>2, <4>1, <4>2
      <4>5. request'[Head(queue'[n])] = request[Head(queue[n])]
        BY <4>2, <4>3, <4>4
      <4>6. Content(Head(queue[n]))' = Content(Head(queue[n]))
        BY <4>5 DEF Content
      <4> QED
        BY <3>2, <4>1, <4>6
        DEF Valid, VerifyInitiatorMessage, AuthorizeInitiatorMessage,
            sessionTypeFromKeyType
    <3> QED BY <2>0, <3>7, <3>8, <3>9, <3>10 DEF QueueOK
  <2> QED BY <1>1, <2>1, <2>2
<1>5. \A n \in Node, b \in Event : SessionOK(n, b)'
  BY <1>2, SessionSame DEF Resharing
<1>6. DisksOK'
  BY <1>2, DisksSame DEF Resharing
<1> QED BY <1>2, <1>3, <1>4, <1>5, <1>6, InvParts

-----------------------------------------------------------------------------
(* The handler.                                                            *)

\* The request a handler is at has been published, and there is no session for
\* it before the handler makes one.
LEMMA HeadOK ==
  ASSUME ReshareInv, NEW n \in Node, queue[n] # <<>>
  PROVE  \E e \in Event :
           /\ e = Head(queue[n]) /\ request[e] # {}
           /\ stage[n] \in {"idle", "created"} => session[n][e] = NoSession
           /\ stage[n] = "created" => Valid(Content(e))
<1>1. TypeOK /\ QueueOK(n)
  BY DEF ReshareInv
<1>2. /\ Head(queue[n]) \in Event /\ Head(queue[n]) = queue[n][1]
      /\ 1 \in 1..Len(queue[n])
  BY <1>1, HeadType
<1> QED BY <1>1, <1>2 DEF QueueOK

\* Steps of the handler write to no disk, and only to their own node.
LEMMA ReturnStep ==
  ASSUME ReshareInv, Grows, NEW n \in Node, queue[n] # <<>>, Return(n),
         NEW e \in Event, e = Head(queue[n]), ResultTypes',
         \/ view' = view
         \/ session[n][e] = NoSession /\ view' = [view EXCEPT ![n][e] = {}],
         UNCHANGED <<up, request, session, heard, raised, reported, diskVars, starters>>
  PROVE  ReshareInv'
<1>0. TypeOK /\ HandlerTypes /\ StoreTypes
  BY TypeParts DEF ReshareInv
<1>1. TypeOK'
  <2>1. HandlerTypes'
    <3>1. queue' \in [Node -> Seq(Event)]
      BY <1>0, HeadType DEF HandlerTypes, Return
    <3>2. view' \in [Node -> [Event -> SUBSET Views]]
      <4>1. view \in [Node -> [Event -> SUBSET Views]] /\ {} \in SUBSET Views
        BY <1>0 DEF HandlerTypes
      <4> QED BY <4>1
    <3> QED BY <1>0, <3>1, <3>2 DEF HandlerTypes, Return
  <2>2. StoreTypes'
    BY <1>0 DEF StoreTypes, diskVars
  <2> QED BY <2>1, <2>2, TypeParts
<1>2. ASSUME NEW p \in Node PROVE QueueOK(p)'
  <2>1. CASE p = n
    BY <1>0, <2>1, QueueReturned DEF Return, HandlerTypes
  <2>2. CASE p # n
    BY <1>0, <2>2, QueueSame DEF Return, HandlerTypes
  <2> QED BY <2>1, <2>2
<1>3. ASSUME NEW p \in Node, NEW b \in Event PROVE SessionOK(p, b)'
  <2>1. CASE view'[p][b] = view[p][b]
    BY <1>1, <2>1, SessionSame
  <2>2. CASE p = n /\ b = e /\ session[n][e] = NoSession /\ view'[n][e] = {}
    <3>1. request[e] # {}
      BY HeadOK
    <3> QED BY <1>1, <2>2, <3>1, SessionReviewed, FS_EmptySet
  <2> QED BY <1>0, <2>1, <2>2 DEF HandlerTypes
<1> QED BY <1>1, <1>2, <1>3, OneContentKept, DisksSame, InvParts

LEMMA ReturnActions ==
  ASSUME ReshareInv, Grows, NEW n \in Node,
         RejectEvent(n) \/ CreateFails(n) \/ SkipEvent(n) \/ InitFails(n) \/ FinishHandler(n)
  PROVE  ReshareInv'
<1>0. TypeOK /\ queue[n] # <<>> /\ Return(n)
  BY DEF ReshareInv, RejectEvent, CreateFails, SkipEvent, InitFails, FinishHandler, At
<1>1. PICK e \in Event :
        /\ e = Head(queue[n])
        /\ stage[n] \in {"idle", "created"} => session[n][e] = NoSession
  BY <1>0, HeadOK
<1>2. ResultTypes
  BY <1>0, TypeParts
<1>3. CASE RejectEvent(n)
  BY <1>0, <1>1, <1>3, ErrorType, ReturnStep DEF RejectEvent
<1>4. CASE CreateFails(n)
  <2>1. ResultTypes'
    BY <1>0, <1>1, <1>2, <1>4, ErrorType, EnqueueType, FaultType DEF CreateFails, ResultTypes
  <2> QED BY <1>0, <1>1, <1>4, <2>1, ReturnStep DEF CreateFails, At
<1>5. CASE SkipEvent(n)
  <2>1. ResultTypes'
    BY <1>2, <1>5 DEF SkipEvent, ResultTypes, resultVars
  <2> QED BY <1>0, <1>1, <1>5, <2>1, ReturnStep DEF SkipEvent
<1>6. CASE InitFails(n)
  BY <1>0, <1>1, <1>6, ErrorType, ReturnStep DEF InitFails, At
<1>7. CASE FinishHandler(n)
  <2>1. ResultTypes'
    BY <1>0, <1>1, <1>2, <1>7, EnqueueType, FaultType
    DEF FinishHandler, ResultTypes, resultVars
  <2> QED BY <1>0, <1>1, <1>7, <2>1, ReturnStep DEF FinishHandler
<1> QED BY <1>3, <1>4, <1>5, <1>6, <1>7

\* The view of a member that has found enough of the others ready.
LEMMA SeenChecked ==
  ASSUME ReshareInv, Grows, NEW n \in Node, NEW e \in Event, request[e] # {},
         Valid(Content(e)), NEW ready \in SUBSET Node, NEW role \in Role,
         Sufficient(n, e, ready, role), Member(n, e, role)
  PROVE  \E s \in Views : s = Seen(e, ready) /\ Checked(s, e) /\ Checked(s, e)'
<1>0. TypeOK /\ DiskOK
  BY DEF ReshareInv
<1>1. keyInfo \in KeyInfos
  BY <1>0, TypeParts DEF StoreTypes
<1>2. NodeIDs(e) \subseteq Node /\ Content(e).NewThreshold \in Nat
  BY <1>0, ContentType
<1>3. Seen(e, ready) \in Views
  BY <1>1, <1>2 DEF Seen, Views, KeyInfos, getReadyPeersForSession
<1>4. PICK s \in Views : s = Seen(e, ready)
  BY <1>3
<1>5. /\ s.New = NodeIDs(e) /\ s.Version = keyInfo.Version
      /\ s.Threshold = keyInfo.Threshold /\ s.Old = getReadyPeersForSession(ready)
  BY <1>4 DEF Seen
<1>6. Cardinality(s.Old) >= s.Threshold + 1
  BY <1>5 DEF Sufficient, Member
<1>7. Checked(s, e)
  BY <1>0, <1>5, <1>6 DEF Checked, DiskOK
<1> QED BY <1>0, <1>4, <1>7, CheckedKept

LEMMA CreateOldStep ==
  ASSUME ReshareInv, Grows, NEW n \in Node, CreateOldSession(n) PROVE ReshareInv'
<1>0. TypeOK /\ HandlerTypes /\ StoreTypes /\ ResultTypes
  BY TypeParts DEF ReshareInv
<1>1. PICK e \in Event : e = Head(queue[n]) /\ request[e] # {} /\ session[n][e] = NoSession
  BY HeadOK DEF CreateOldSession, At
<1>2. PICK ready \in SUBSET Node :
        /\ Sufficient(n, e, ready, "old")
        /\ view' = [view EXCEPT ![n][e] = {v \in {Seen(e, ready)} : Member(n, e, "old")}]
  BY <1>1 DEF CreateOldSession
<1>3. Valid(Content(e)) /\ queue[n] # <<>> /\ stage' = [stage EXCEPT ![n] = "created"]
      /\ UNCHANGED <<up, faults, request, queue, session, probed, heard, raised,
                     reported, diskVars, resultVars, starters>>
  BY <1>1 DEF CreateOldSession, At
<1>4. PICK made \in SUBSET Views :
        /\ view' = [view EXCEPT ![n][e] = made] /\ IsFiniteSet(made)
        /\ \A v \in made : Checked(v, e)'
  <2>1. CASE Member(n, e, "old")
    <3>1. PICK s \in Views : s = Seen(e, ready) /\ Checked(s, e)'
      BY <1>1, <1>2, <1>3, <2>1, SeenChecked DEF Role
    <3>2. {v \in {Seen(e, ready)} : Member(n, e, "old")} = {s}
      BY <2>1, <3>1
    <3> QED BY <1>2, <3>1, <3>2, FS_Singleton
  <2>2. CASE ~Member(n, e, "old")
    <3>1. {v \in {Seen(e, ready)} : Member(n, e, "old")} = {}
      BY <2>2
    <3> QED BY <1>2, <3>1, FS_EmptySet
  <2> QED BY <2>1, <2>2
<1>5. view' \in [Node -> [Event -> SUBSET Views]]
  <2>1. view \in [Node -> [Event -> SUBSET Views]]
    BY <1>0 DEF HandlerTypes
  <2> QED BY <1>4, <2>1
<1>6. TypeOK'
  <2>1. HandlerTypes'
    BY <1>0, <1>3, <1>5 DEF HandlerTypes
  <2>2. StoreTypes' /\ ResultTypes'
    BY <1>0, <1>3 DEF StoreTypes, ResultTypes, diskVars, resultVars
  <2> QED BY <2>1, <2>2, TypeParts
<1>7. ASSUME NEW p \in Node PROVE QueueOK(p)'
  <2>1. CASE p # n
    BY <1>0, <1>3, <2>1, QueueSame DEF HandlerTypes
  <2>2. CASE p = n
    <3>1. QueueOK(n) /\ stage[n] = "idle" /\ stage'[n] = "created"
      BY <1>0, <1>3 DEF ReshareInv, CreateOldSession, At, HandlerTypes
    <3>2. Valid(Content(Head(queue[n])))'
      BY <1>1, <1>3 DEF Content
    <3> QED BY <1>3, <2>2, <3>1, <3>2 DEF QueueOK
  <2> QED BY <2>1, <2>2
<1>8. ASSUME NEW p \in Node, NEW b \in Event PROVE SessionOK(p, b)'
  <2>1. CASE p = n /\ b = e
    <3>1. view'[n][e] = made
      BY <1>0, <1>4 DEF HandlerTypes
    <3> QED BY <1>1, <1>3, <1>4, <1>6, <2>1, <3>1, SessionReviewed
  <2>2. CASE ~(p = n /\ b = e)
    <3>1. view'[p][b] = view[p][b]
      BY <1>0, <1>4, <2>2 DEF HandlerTypes
    <3> QED BY <1>3, <1>6, <3>1, SessionSame
  <2> QED BY <2>1, <2>2
<1> QED BY <1>3, <1>6, <1>7, <1>8, OneContentKept, DisksSame, InvParts

LEMMA CreateNewStep ==
  ASSUME ReshareInv, Grows, NEW n \in Node, CreateNewSession(n) PROVE ReshareInv'
<1>0. TypeOK /\ HandlerTypes /\ StoreTypes /\ ResultTypes
  BY TypeParts DEF ReshareInv
<1>1. PICK e \in Event :
        /\ e = Head(queue[n]) /\ request[e] # {} /\ session[n][e] = NoSession
        /\ Valid(Content(e))
  BY HeadOK DEF CreateNewSession, At
<1>2. PICK ready \in SUBSET Node :
        /\ Sufficient(n, e, ready, "new")
        /\ view' = [view EXCEPT ![n][e] =
                      view[n][e] \cup {v \in {Seen(e, ready)} : Member(n, e, "new")}]
        /\ session' = [session EXCEPT ![n][e] =
             [role \in Role |->
                IF IF role = "new" THEN Member(n, e, "new") ELSE view[n][e] # {}
                THEN "listening" ELSE "none"]]
  BY <1>1 DEF CreateNewSession
<1>3. queue[n] # <<>> /\ stage' = [stage EXCEPT ![n] = "barrier"]
      /\ UNCHANGED <<up, faults, request, queue, probed, heard, raised,
                     reported, diskVars, resultVars, starters>>
  BY <1>1 DEF CreateNewSession, At
<1>4. SessionOK(n, e)
  BY DEF ReshareInv
<1>5. PICK more \in SUBSET Views :
        /\ view' = [view EXCEPT ![n][e] = view[n][e] \cup more] /\ IsFiniteSet(more)
        /\ \A v \in more : Checked(v, e)'
  <2>1. CASE Member(n, e, "new")
    <3>1. PICK s \in Views : s = Seen(e, ready) /\ Checked(s, e)'
      BY <1>1, <1>2, <1>3, <2>1, SeenChecked DEF Role
    <3>2. {v \in {Seen(e, ready)} : Member(n, e, "new")} = {s}
      BY <2>1, <3>1
    <3> QED BY <1>2, <3>1, <3>2, FS_Singleton
  <2>2. CASE ~Member(n, e, "new")
    <3>1. {v \in {Seen(e, ready)} : Member(n, e, "new")} = {}
      BY <2>2
    <3> QED BY <1>2, <3>1, FS_EmptySet
  <2> QED BY <2>1, <2>2
<1>6. TypeOK'
  <2>1. view' \in [Node -> [Event -> SUBSET Views]]
    <3>1. view \in [Node -> [Event -> SUBSET Views]]
      BY <1>0 DEF HandlerTypes
    <3>2. view[n][e] \cup more \in SUBSET Views
      BY <3>1
    <3> QED BY <1>5, <3>1, <3>2
  <2>2. session' \in [Node -> [Event -> [Role -> SessionStates]]]
    <3>1. [role \in Role |->
             IF IF role = "new" THEN Member(n, e, "new") ELSE view[n][e] # {}
             THEN "listening" ELSE "none"] \in [Role -> SessionStates]
      BY DEF SessionStates
    <3>2. session \in [Node -> [Event -> [Role -> SessionStates]]]
      BY <1>0 DEF HandlerTypes
    <3> QED BY <1>2, <3>1, <3>2
  <2>3. HandlerTypes'
    BY <1>0, <1>3, <2>1, <2>2 DEF HandlerTypes
  <2>4. StoreTypes' /\ ResultTypes'
    BY <1>0, <1>3 DEF StoreTypes, ResultTypes, diskVars, resultVars
  <2> QED BY <2>3, <2>4, TypeParts
<1>7. ASSUME NEW p \in Node PROVE QueueOK(p)'
  <2>1. CASE p # n
    BY <1>0, <1>2, <1>3, <2>1, QueueSame DEF HandlerTypes
  <2>2. CASE p = n
    BY <1>0, <1>1, <1>2, <1>3, <2>2, QueueHandled DEF HandlerTypes
  <2> QED BY <2>1, <2>2
<1>8. SessionOK(n, e)'
  <2>1. heard'[n][e] = {} /\ request'[e] # {}
    BY <1>1, <1>3, <1>4 DEF SessionOK
  <2>2. view'[n][e] = view[n][e] \cup more
    BY <1>0, <1>5 DEF HandlerTypes
  <2>3. IsFiniteSet(view'[n][e])
    BY <1>4, <1>5, <2>2, FS_Union DEF SessionOK
  <2>4. \A v \in view'[n][e] : Checked(v, e)'
    <3>1. ASSUME NEW v \in view[n][e] PROVE Checked(v, e)'
      BY <1>0, <1>1, <1>4, ViewType, CheckedKept DEF SessionOK, ReshareInv
    <3> QED BY <1>5, <2>2, <3>1
  <2>5. session'[n][e]["new"] = IF Member(n, e, "new") THEN "listening" ELSE "none"
    BY <1>0, <1>2 DEF HandlerTypes, Role
  <2>6. session'[n][e]["new"] # "none" => n \in NodeIDs(e)'
    BY <1>3, <2>5 DEF Member, NodeIDs, Content
  <2> QED BY <2>1, <2>3, <2>4, <2>5, <2>6 DEF SessionOK
<1>9. ASSUME NEW p \in Node, NEW b \in Event, ~(p = n /\ b = e) PROVE SessionOK(p, b)'
  <2>1. view'[p][b] = view[p][b] /\ session'[p][b] = session[p][b]
    BY <1>0, <1>2, <1>9 DEF HandlerTypes
  <2> QED BY <1>3, <1>6, <2>1, SessionSame
<1> QED BY <1>3, <1>6, <1>7, <1>8, <1>9, OneContentKept, DisksSame, InvParts

LEMMA BarrierFailsStep ==
  ASSUME ReshareInv, Grows, NEW n \in Node, BarrierFails(n) PROVE ReshareInv'
<1>0. TypeOK /\ HandlerTypes /\ StoreTypes /\ ResultTypes
  BY TypeParts DEF ReshareInv
<1>1. PICK e \in Event : e = Head(queue[n])
  BY HeadOK DEF BarrierFails, At
<1>2. /\ queue[n] # <<>> /\ Return(n) /\ handleReshareSessionError(e)
      /\ session' = [session EXCEPT ![n][e] =
           [role \in Role |-> IF session[n][e][role] = "none" THEN "none" ELSE "stuck"]]
      /\ UNCHANGED <<up, request, view, heard, raised, reported, diskVars, starters>>
  BY <1>0, <1>1 DEF BarrierFails, At, HandlerTypes
<1>3. /\ \A role \in Role :
           session'[n][e][role] = IF session[n][e][role] = "none" THEN "none" ELSE "stuck"
      /\ \A p \in Node, b \in Event : ~(p = n /\ b = e) => session'[p][b] = session[p][b]
  BY <1>0, <1>2 DEF HandlerTypes
<1>4. TypeOK'
  <2>1. session' \in [Node -> [Event -> [Role -> SessionStates]]]
    <3>1. [role \in Role |-> IF session[n][e][role] = "none" THEN "none" ELSE "stuck"]
            \in [Role -> SessionStates]
      BY DEF SessionStates
    <3>2. session \in [Node -> [Event -> [Role -> SessionStates]]]
      BY <1>0 DEF HandlerTypes
    <3> QED BY <1>2, <3>1, <3>2
  <2>2. queue' \in [Node -> Seq(Event)]
    BY <1>0, <1>2, HeadType DEF HandlerTypes, Return
  <2>3. HandlerTypes'
    BY <1>0, <1>2, <2>1, <2>2 DEF HandlerTypes, Return
  <2>4. StoreTypes' /\ ResultTypes'
    BY <1>0, <1>2, ErrorType DEF StoreTypes, diskVars
  <2> QED BY <2>3, <2>4, TypeParts
<1>5. ASSUME NEW p \in Node PROVE QueueOK(p)'
  <2>1. CASE p = n
    <3>1. queue'[n] = Tail(queue[n]) /\ stage'[n] = "idle"
      BY <1>0, <1>2 DEF Return, HandlerTypes
    <3> QED BY <1>1, <1>2, <1>3, <2>1, <3>1, QueueReturned
  <2>2. CASE p # n
    <3>1. queue'[p] = queue[p] /\ stage'[p] = stage[p]
      BY <1>0, <1>2, <2>2 DEF Return, HandlerTypes
    <3> QED BY <1>3, <2>2, <3>1, QueueSame
  <2> QED BY <2>1, <2>2
<1>6. ASSUME NEW p \in Node, NEW b \in Event PROVE SessionOK(p, b)'
  <2>1. CASE p = n /\ b = e
    <3>1. SessionMoved(n, e)
      BY <1>2, <1>3 DEF SessionMoved, Role
    <3> QED BY <1>4, <2>1, <3>1, SessionStep
  <2>2. CASE ~(p = n /\ b = e)
    BY <1>2, <1>3, <1>4, <2>2, SessionSame
  <2> QED BY <2>1, <2>2
<1> QED BY <1>2, <1>4, <1>5, <1>6, OneContentKept, DisksSame, InvParts

\* Whoever hears n has its view; n is of the old committee of that view only
\* with a party in it, and then it is one of the starters.
LEMMA StartReshareStep ==
  ASSUME ReshareInv, Grows, NEW n \in Node, StartReshare(n) PROVE ReshareInv'
<1>0. TypeOK /\ HandlerTypes /\ StoreTypes /\ ResultTypes
  BY TypeParts DEF ReshareInv
<1>1. PICK e \in Event : e = Head(queue[n]) /\ request[e] # {}
  BY HeadOK DEF StartReshare, At
<1>2. /\ queue[n] # <<>>
      /\ session' = [session EXCEPT ![n][e] =
           [role \in Role |-> IF session[n][e][role] = "none" THEN "none" ELSE "running"]]
      /\ starters' = [starters EXCEPT ![e] =
           IF session[n][e]["old"] = "none" THEN starters[e] ELSE starters[e] \cup {n}]
      /\ heard' = [m \in Node |-> [b \in Event |->
           IF /\ m # n /\ view[m][b] = view[n][e] /\ Cardinality(view[n][e]) = 1
              /\ HasParties(n, e)
              /\ \E role \in Role : session[m][b][role] \in {"listening", "running"}
           THEN heard[m][b] \cup {n} ELSE heard[m][b]]]
  BY <1>0, <1>1 DEF StartReshare, At, HandlerTypes, StoreTypes
<1>3. /\ stage' = [stage EXCEPT ![n] = "running"] /\ probed' = [probed EXCEPT ![n] = {}]
      /\ UNCHANGED <<up, faults, request, queue, view, raised, reported, diskVars,
                     resultVars>>
  BY DEF StartReshare
<1>4. /\ \A role \in Role :
           session'[n][e][role] = IF session[n][e][role] = "none" THEN "none" ELSE "running"
      /\ \A p \in Node, b \in Event : ~(p = n /\ b = e) => session'[p][b] = session[p][b]
  BY <1>0, <1>2 DEF HandlerTypes
<1>5. TypeOK'
  <2>1. session' \in [Node -> [Event -> [Role -> SessionStates]]]
    <3>1. [role \in Role |-> IF session[n][e][role] = "none" THEN "none" ELSE "running"]
            \in [Role -> SessionStates]
      BY DEF SessionStates
    <3>2. session \in [Node -> [Event -> [Role -> SessionStates]]]
      BY <1>0 DEF HandlerTypes
    <3> QED BY <1>2, <3>1, <3>2
  <2>2. heard' \in [Node -> [Event -> SUBSET Node]]
    <3>1. \A m \in Node, b \in Event : heard[m][b] \subseteq Node
      BY <1>0 DEF HandlerTypes
    <3>2. \A m \in Node, b \in Event : heard[m][b] \cup {n} \in SUBSET Node
      BY <3>1
    <3> QED BY <1>2, <3>1, <3>2
  <2>3. HandlerTypes'
    BY <1>0, <1>3, <2>1, <2>2 DEF HandlerTypes
  <2>4. starters' \in [Event -> SUBSET Node]
    BY <1>0, <1>2 DEF StoreTypes
  <2>5. StoreTypes' /\ ResultTypes'
    BY <1>0, <1>3, <2>4 DEF StoreTypes, ResultTypes, diskVars, resultVars
  <2> QED BY <2>3, <2>5, TypeParts
<1>6. ASSUME NEW p \in Node PROVE QueueOK(p)'
  <2>1. CASE p = n
    <3>1. queue'[n] = queue[n] /\ stage'[n] = "running"
      BY <1>0, <1>3 DEF HandlerTypes
    <3> QED BY <1>1, <1>2, <1>4, <2>1, <3>1, QueueHandled
  <2>2. CASE p # n
    <3>1. queue'[p] = queue[p] /\ stage'[p] = stage[p]
      BY <1>0, <1>3, <2>2 DEF HandlerTypes
    <3> QED BY <1>4, <2>2, <3>1, QueueSame
  <2> QED BY <2>1, <2>2
<1>7. session[n][e]["old"] # "none" => n \in starters'[e]
  BY <1>0, <1>2 DEF StoreTypes
<1>8. ASSUME NEW p \in Node, NEW b \in Event PROVE SessionMoved(p, b)
  <2>1. view'[p][b] = view[p][b]
    BY <1>3
  <2>2. \A role \in Role : session'[p][b][role] = "none" <=> session[p][b][role] = "none"
    BY <1>4
  <2>3. session'[p][b]["new"] = "running" =>
          \/ session[p][b]["new"] = "running"
          \/ session[p][b]["old"] # "none" => p \in starters'[b]
    BY <1>4, <1>7
  <2>4. session'[p][b]["new"] = "shared" => session[p][b]["new"] = "shared"
    BY <1>4 DEF Role
  <2>5. heard'[p][b] # heard[p][b] =>
          /\ heard'[p][b] = heard[p][b] \cup {n} /\ p # n /\ view[p][b] = view[n][e]
          /\ HasParties(n, e) /\ session[p][b] # NoSession
    BY <1>2 DEF NoSession
  <2>6. ASSUME NEW q \in heard'[p][b] \ heard[p][b], NEW v \in view[p][b],
               view[p][b] = {v}, q \in v.Old
        PROVE  Started(q, v.New)'
    <3>1. q = n /\ v \in view[n][e] /\ HasParties(n, e)
      BY <2>5, <2>6
    <3>2. n \in starters'[e]
      BY <1>7, <2>6, <3>1 DEF HasParties
    <3>3. v.New = NodeIDs(e)
      BY <3>1 DEF ReshareInv, SessionOK, Checked
    <3>4. request'[e] # {} /\ NodeIDs(e)' = NodeIDs(e)
      BY <1>1, ContentKept
    <3> QED BY <3>1, <3>2, <3>3, <3>4 DEF Started
  <2> QED BY <2>1, <2>2, <2>3, <2>4, <2>5, <2>6 DEF SessionMoved
<1>9. \A p \in Node, b \in Event : SessionOK(p, b)'
  BY <1>5, <1>8, SessionStep
<1> QED BY <1>3, <1>5, <1>6, <1>9, OneContentKept, DisksSame, InvParts

LEMMA QuietStep ==
  ASSUME ReshareInv, Grows, TypeOK',
         UNCHANGED <<request, queue, stage, view, session, heard, diskVars, starters>>
  PROVE  ReshareInv'
  BY QueueSame, SessionSame, OneContentKept, DisksSame, InvParts

LEMMA ProbeStep ==
  ASSUME ReshareInv, Grows, NEW n \in Node, NEW p \in Node, ProbeBarrier(n, p)
  PROVE  ReshareInv'
<1>0. HandlerTypes /\ StoreTypes /\ ResultTypes
  BY TypeParts DEF ReshareInv
<1>1. HandlerTypes'
  BY <1>0 DEF HandlerTypes, ProbeBarrier
<1>2. StoreTypes' /\ ResultTypes'
  BY <1>0 DEF StoreTypes, ResultTypes, ProbeBarrier, diskVars, resultVars
<1> QED BY <1>1, <1>2, TypeParts, QuietStep DEF ProbeBarrier

LEMMA WatchStep ==
  ASSUME ReshareInv, Grows, NEW n \in Node, NEW role \in Role, WatchError(n, role)
  PROVE  ReshareInv'
<1>0. TypeOK /\ HandlerTypes /\ StoreTypes
  BY TypeParts DEF ReshareInv
<1>1. PICK e \in Event : e = Head(queue[n])
  BY HeadOK DEF WatchError, At
<1>2. HandlerTypes'
  <2>1. reported' = [reported EXCEPT ![n][e] = reported[n][e] \cup {role}]
    BY <1>0, <1>1 DEF WatchError, HandlerTypes
  <2>2. reported \in [Node -> [Event -> SUBSET Role]]
    BY <1>0 DEF HandlerTypes
  <2>3. reported[n][e] \cup {role} \in SUBSET Role
    BY <2>2
  <2>4. reported' \in [Node -> [Event -> SUBSET Role]]
    BY <2>1, <2>2, <2>3
  <2> QED BY <1>0, <2>4 DEF HandlerTypes, WatchError
<1>3. ResultTypes'
  BY <1>0, <1>1, ErrorType DEF WatchError
<1>4. StoreTypes'
  BY <1>0 DEF StoreTypes, WatchError, diskVars
<1> QED BY <1>2, <1>3, <1>4, TypeParts, QuietStep DEF WatchError

LEMMA HandleStep ==
  ASSUME ReshareInv, Grows, NEW n \in Node, Handle(n) PROVE ReshareInv'
  BY ReturnActions, CreateOldStep, CreateNewStep, BarrierFailsStep, StartReshareStep,
     WatchStep DEF Handle

-----------------------------------------------------------------------------
(* The parties.                                                            *)

LEMMA GoToType ==
  ASSUME TypeOK, NEW n \in Node, NEW e \in Event, NEW role \in Role,
         NEW s \in SessionStates, GoTo(n, e, role, s)
  PROVE  /\ session' \in [Node -> [Event -> [Role -> SessionStates]]]
         /\ session'[n][e][role] = s
         /\ \A r \in Role : r # role => session'[n][e][r] = session[n][e][r]
         /\ \A p \in Node, b \in Event : ~(p = n /\ b = e) => session'[p][b] = session[p][b]
<1>1. session \in [Node -> [Event -> [Role -> SessionStates]]]
  BY DEF TypeOK
<1> QED BY <1>1 DEF GoTo

\* A session moves on, and that is all that happens in memory.
LEMMA GoToStep ==
  ASSUME ReshareInv, TypeOK', Grows, NEW n \in Node, NEW e \in Event, NEW role \in Role,
         NEW s \in {"closed", "stuck", "shared"}, GoTo(n, e, role, s),
         session[n][e][role] # "none",
         s = "shared" => SharePut(n, e)',
         UNCHANGED <<request, queue, stage, view, heard>>
  PROVE  /\ OneContent' /\ \A p \in Node : QueueOK(p)'
         /\ \A p \in Node, b \in Event : SessionOK(p, b)'
<1>0. TypeOK /\ s \in SessionStates
  BY DEF ReshareInv, SessionStates
<1>1. /\ session'[n][e][role] = s
      /\ \A r \in Role : r # role => session'[n][e][r] = session[n][e][r]
      /\ \A p \in Node, b \in Event : ~(p = n /\ b = e) => session'[p][b] = session[p][b]
  BY <1>0, GoToType
<1>2. SessionMoved(n, e)
  BY <1>1 DEF SessionMoved, Role
<1>3. session[n][e] # NoSession
  BY <1>0, NoneIsNoSession
<1>4. \A p \in Node, b \in Event : session[p][b] = NoSession => session'[p][b] = NoSession
  BY <1>1, <1>3
<1>5. \A p \in Node : QueueOK(p)'
  BY <1>4, QueueSame
<1>6. ASSUME NEW p \in Node, NEW b \in Event PROVE SessionOK(p, b)'
  <2>1. CASE p = n /\ b = e
    BY <1>2, <2>1, SessionStep
  <2>2. CASE ~(p = n /\ b = e)
    BY <1>1, <2>2, SessionSame
  <2> QED BY <2>1, <2>2
<1> QED BY <1>5, <1>6, OneContentKept

LEMMA OldPartyStep ==
  ASSUME ReshareInv, Grows, NEW n \in Node, NEW e \in Event, OldPartyEnds(n, e)
  PROVE  ReshareInv'
<1>0. TypeOK /\ HandlerTypes /\ StoreTypes /\ ResultTypes
  BY TypeParts DEF ReshareInv
<1>1. /\ "old" \in Role /\ "closed" \in SessionStates /\ GoTo(n, e, "old", "closed")
      /\ session[n][e]["old"] # "none"
  BY DEF OldPartyEnds, PartyFinished, Role, SessionStates
<1>2. TypeOK'
  <2>1. HandlerTypes'
    BY <1>0, <1>1, GoToType DEF HandlerTypes, OldPartyEnds
  <2>2. StoreTypes' /\ ResultTypes'
    BY <1>0 DEF StoreTypes, ResultTypes, OldPartyEnds, diskVars, resultVars
  <2> QED BY <2>1, <2>2, TypeParts
<1>3. DisksOK'
  BY <1>2, DisksSame DEF OldPartyEnds
<1> QED BY <1>1, <1>2, <1>3, GoToStep, InvParts DEF OldPartyEnds

\* Every required authorizer and the initiator have signed m.
LEMMA ValidMeansSigned ==
  ASSUME NEW m \in Message, Valid(m)
  PROVE  /\ m.Signature = [key |-> "initiator", over |-> m.Raw]
         /\ authConfig.Enabled => \A id \in authConfig.RequiredAuthorizers :
              \E sig \in m.AuthorizerSignatures :
                /\ sig.AuthorizerID = id /\ sig.key = id
                /\ sig.over = [InitiatorRaw |-> m.Raw, InitiatorSig |-> m.Signature]
<1>0. VerifyInitiatorMessage(m) /\ AuthorizeInitiatorMessage(m)
  BY DEF Valid
<1>1. m.Signature \in [key : STRING, over : STRING]
  BY MessageAssumption DEF InitiatorSignature
<1>2. m.Signature.key = "initiator" /\ m.Signature.over = m.Raw
  BY <1>0 DEF VerifyInitiatorMessage, verifyEd25519, verifyP256, Signed
<1>3. m.Signature = [key |-> "initiator", over |-> m.Raw]
  BY <1>1, <1>2
<1>4. ASSUME authConfig.Enabled, NEW id \in authConfig.RequiredAuthorizers
      PROVE  \E sig \in m.AuthorizerSignatures :
               /\ sig.AuthorizerID = id /\ sig.key = id
               /\ sig.over = [InitiatorRaw |-> m.Raw, InitiatorSig |-> m.Signature]
  <2>1. PICK sig \in m.AuthorizerSignatures : sig.AuthorizerID = id
    BY <1>0, <1>4 DEF AuthorizeInitiatorMessage, RequiredPresent
  <2>2. verifyAuthorizerSignature(ComposeAuthorizerRaw(m), sig)
    BY <1>0, <1>4, <2>1 DEF AuthorizeInitiatorMessage
  <2> QED BY <2>1, <2>2 DEF verifyAuthorizerSignature, Signed, ComposeAuthorizerRaw
<1> QED BY <1>3, <1>4

\* The old committee of a party that has finished: everyone else in it has
\* been heard, and n itself has a party of its own in it.
LEMMA FinishedTookPart ==
  ASSUME ReshareInv, NEW n \in Node, NEW e \in Event, PartyFinished(n, e, "new")
  PROVE  \E v \in view[n][e] :
           /\ view[n][e] = {v} /\ View(n, e) = v /\ v.Version \in Version
           /\ request[e] # {}
           /\ RotationOK(e, v.Version + 1)
<1>0. TypeOK /\ DiskOK /\ SessionOK(n, e)
  BY DEF ReshareInv
<1>1. PICK v : view[n][e] = {v}
  BY <1>0, FS_Singleton DEF PartyFinished, SessionOK
<1>2. /\ v \in view[n][e] /\ View(n, e) = v /\ v.Version \in Version /\ v.Threshold \in Nat
      /\ v.Old \subseteq Node
  BY <1>0, <1>1, ViewType
<1>3. request[e] # {} /\ Checked(v, e)
  BY <1>0, <1>2 DEF SessionOK
<1>4. ASSUME NEW p \in v.Old PROVE Started(p, v.New)
  <2>1. CASE p # n
    <3>1. p \in heard[n][e]
      BY <1>2, <2>1 DEF PartyFinished
    <3> QED BY <1>0, <1>1, <1>2, <3>1 DEF SessionOK
  <2>2. CASE p = n
    <3>1. session[n][e]["new"] = "running" /\ session[n][e]["old"] # "none"
      BY <1>2, <2>2 DEF PartyFinished, HasParties
    <3>2. n \in starters[e]
      BY <1>0, <3>1 DEF SessionOK
    <3> QED BY <1>3, <2>2, <3>2 DEF Started, Checked
  <2> QED BY <2>1, <2>2
<1>5. v.Old \subseteq TookPart(e)
  BY <1>3, <1>4, TookPartIsStarted DEF Checked
<1>6. Cardinality(v.Old) <= Cardinality(TookPart(e)) /\ Cardinality(v.Old) \in Nat
      /\ Cardinality(TookPart(e)) \in Nat
  BY <1>0, <1>5, TookPartFinite, FS_Subset, FS_CardinalityType
<1>7. Cardinality(TookPart(e)) >= v.Threshold + 1 /\ v.Threshold \in Thresholds(v.Version)
  BY <1>2, <1>3, <1>6 DEF Checked
<1>8. (v.Version + 1) - 1 = v.Version
  BY <1>2, BoundAssumption DEF Version
<1>9. \A m \in request[e] : m = Content(e) /\ m \in Message /\ Valid(m)
  BY <1>0, <1>3, ContentType DEF ReshareInv, OneContent, Checked
<1>10. RotationOK(e, v.Version + 1)
  <2>1. \E t \in Thresholds((v.Version + 1) - 1) : Cardinality(TookPart(e)) >= t + 1
    BY <1>7, <1>8
  <2> QED BY <2>1, <1>9, ValidMeansSigned DEF RotationOK
<1> QED BY <1>1, <1>2, <1>3, <1>10

LEMMA PutShareStep ==
  ASSUME ReshareInv, Grows, NEW n \in Node, NEW e \in Event, PutShare(n, e)
  PROVE  ReshareInv'
<1>0. TypeOK /\ HandlerTypes /\ StoreTypes /\ ResultTypes /\ DiskOK
  BY TypeParts DEF ReshareInv
<1>1. PICK v \in view[n][e] :
        /\ view[n][e] = {v} /\ View(n, e) = v /\ v.Version \in Version
        /\ request[e] # {} /\ RotationOK(e, v.Version + 1)
  BY FinishedTookPart DEF PutShare
<1>2. PICK w \in Version : w = v.Version + 1 /\ w # 1
  BY <1>1, BoundAssumption DEF PutShare, Version
<1>3. share' = [share EXCEPT ![n][w] = share[n][w] \cup {e}]
  BY <1>0, <1>1, <1>2 DEF PutShare, StoreTypes
<1>4. /\ "new" \in Role /\ "shared" \in SessionStates /\ GoTo(n, e, "new", "shared")
      /\ session[n][e]["new"] # "none"
      /\ UNCHANGED <<up, faults, request, queue, stage, view, probed, heard, raised,
                     reported, original, keyInfo, resultVars, starters>>
  BY DEF PutShare, PartyFinished, Role, SessionStates
<1>5. share' \in [Node -> [Version -> SUBSET Event]]
  <2>1. share \in [Node -> [Version -> SUBSET Event]]
    BY <1>0 DEF StoreTypes
  <2>2. share[n][w] \cup {e} \in SUBSET Event
    BY <2>1
  <2> QED BY <1>3, <2>1, <2>2
<1>6. TypeOK'
  <2>1. HandlerTypes'
    BY <1>0, <1>4, GoToType DEF HandlerTypes
  <2>2. StoreTypes' /\ ResultTypes'
    BY <1>0, <1>4, <1>5 DEF StoreTypes, ResultTypes, resultVars
  <2> QED BY <2>1, <2>2, TypeParts
<1>7. /\ \A p \in Node, u \in Version : \A b \in share'[p][u] :
           b \in share[p][u] \/ (p = n /\ u = w /\ b = e)
      /\ e \in share'[n][w]
      /\ \A p \in Node : share'[p][1] = share[p][1]
  <2>1. share \in [Node -> [Version -> SUBSET Event]] /\ 1 \in Version
    BY <1>0, BoundAssumption DEF StoreTypes, Version
  <2> QED BY <1>2, <1>3, <2>1
<1>8. SharePut(n, e)'
  BY <1>1, <1>2, <1>4, <1>7 DEF SharePut
<1>9. DiskOK'
  <2>1. PICK k \in Version : k = keyInfo.Version
    BY <1>0 DEF StoreTypes, KeyInfos
  <2>2. keyInfo'.Threshold \in Thresholds(k)'
    BY <1>0, <1>4, <2>1, ThresholdsGrow DEF DiskOK
  <2>3. ASSUME NEW p \in Node, NEW u \in Version, NEW b \in share'[p][u]
        PROVE  request'[b] # {}
    BY <1>0, <1>1, <1>4, <1>7 DEF DiskOK
  <2> QED BY <1>0, <1>4, <1>7, <2>1, <2>2, <2>3 DEF DiskOK, Thresholds
<1>10. CurrentVersionIsHeld'
  <2>1. PICK p \in keyInfo.ParticipantPeerIDs : Holds(p, keyInfo.Version)
    BY DEF ReshareInv, CurrentVersionIsHeld
  <2>2. p \in Node /\ keyInfo.Version \in Version
    BY <1>0, <2>1 DEF StoreTypes, KeyInfos
  <2>3. share[p][keyInfo.Version] \subseteq share'[p][keyInfo.Version]
    BY <2>2 DEF Grows
  <2> QED BY <1>4, <2>1, <2>3 DEF CurrentVersionIsHeld, Holds
<1>11. RotationIsAuthorised'
  <2> SUFFICES ASSUME NEW p \in Node, NEW u \in Version, NEW b \in share'[p][u]
               PROVE  RotationOK(b, u)'
    BY RotationParts
  <2>1. CASE b \in share[p][u]
    <3>1. b \in Event /\ request[b] # {} /\ u # 1 /\ RotationOK(b, u)
      BY <1>0, <2>1, RotationParts DEF StoreTypes, DiskOK, ReshareInv
    <3> QED BY <1>0, <1>6, <3>1, RotationKept
  <2>2. CASE u = w /\ b = e
    <3>1. RotationOK(e, w)
      BY <1>1, <1>2
    <3> QED BY <1>0, <1>1, <1>2, <1>6, <2>2, <3>1, RotationKept
  <2> QED BY <1>7, <2>1, <2>2
<1>12. DisksOK'
  BY <1>9, <1>10, <1>11 DEF DisksOK
<1> QED BY <1>4, <1>6, <1>8, <1>12, GoToStep, InvParts

LEMMA SaveKeyInfoStep ==
  ASSUME ReshareInv, Grows, NEW n \in Node, NEW e \in Event, SaveKeyInfo(n, e)
  PROVE  ReshareInv'
<1>0. TypeOK /\ HandlerTypes /\ StoreTypes /\ ResultTypes /\ DiskOK /\ SessionOK(n, e)
  BY TypeParts DEF ReshareInv
<1>1. PICK v \in view[n][e] :
        /\ view[n][e] = {v} /\ v.Version + 1 \in Version /\ e \in share[n][v.Version + 1]
  BY <1>0 DEF SaveKeyInfo, SessionOK, SharePut
<1>2. View(n, e) = v /\ v.Version \in Version
  BY <1>0, <1>1, ViewType
<1>3. PICK w \in Version : w = v.Version + 1 /\ w # 1
  BY <1>1, <1>2, BoundAssumption DEF Version
<1>4. n \in NodeIDs(e)
  BY <1>0 DEF SaveKeyInfo, SessionOK
<1>5. /\ request[e] # {} /\ NodeIDs(e) \subseteq Node /\ Content(e).NewThreshold \in Nat
  BY <1>0, <1>1, ContentType DEF SessionOK
<1>6. /\ "new" \in Role /\ "closed" \in SessionStates /\ GoTo(n, e, "new", "closed")
      /\ session[n][e]["new"] # "none"
      /\ UNCHANGED <<up, faults, request, queue, stage, view, probed, heard, raised,
                     reported, original, share, resultVars, starters>>
  BY DEF SaveKeyInfo, Role, SessionStates
<1>7. keyInfo' = [Version |-> w, ParticipantPeerIDs |-> NodeIDs(e),
                  Threshold |-> Content(e).NewThreshold]
  BY <1>2, <1>3 DEF SaveKeyInfo
<1>8. TypeOK'
  <2>1. HandlerTypes'
    BY <1>0, <1>6, GoToType DEF HandlerTypes
  <2>2. keyInfo' \in KeyInfos
    BY <1>5, <1>7 DEF KeyInfos
  <2>3. StoreTypes' /\ ResultTypes'
    BY <1>0, <1>6, <2>2 DEF StoreTypes, ResultTypes, resultVars
  <2> QED BY <2>1, <2>3, TypeParts
<1>9. keyInfo'.Version = w /\ keyInfo'.ParticipantPeerIDs = NodeIDs(e)
      /\ keyInfo'.Threshold = Content(e).NewThreshold
  BY <1>7
<1>10. DiskOK'
  <2>1. Content(e).NewThreshold \in Thresholds(w)
    BY <1>1, <1>3 DEF Thresholds
  <2>2. Content(e).NewThreshold \in Thresholds(w)'
    BY <1>0, <2>1, ThresholdsGrow
  <2>3. keyInfo'.Threshold \in Thresholds(keyInfo.Version)'
    BY <1>9, <2>2 DEF Thresholds
  <2> QED BY <1>0, <1>6, <2>3 DEF DiskOK
<1>11. CurrentVersionIsHeld'
  BY <1>1, <1>3, <1>4, <1>6, <1>9 DEF CurrentVersionIsHeld, Holds
<1>12. RotationIsAuthorised'
  <2> SUFFICES ASSUME NEW p \in Node, NEW u \in Version, NEW b \in share[p][u]
               PROVE  RotationOK(b, u)'
    BY <1>6, RotationParts
  <2>1. b \in Event /\ request[b] # {} /\ u # 1 /\ RotationOK(b, u)
    BY <1>0, RotationParts DEF StoreTypes, DiskOK, ReshareInv
  <2> QED BY <1>0, <1>8, <2>1, RotationKept
<1>13. DisksOK'
  BY <1>10, <1>11, <1>12 DEF DisksOK
<1> QED BY <1>6, <1>8, <1>13, GoToStep, InvParts

LEMMA SessionErrorStep ==
  ASSUME ReshareInv, Grows, NEW n \in Node, NEW e \in Event, NEW role \in Role,
         SessionError(n, e, role)
  PROVE  ReshareInv'
<1>0. TypeOK /\ HandlerTypes /\ StoreTypes /\ ResultTypes
  BY TypeParts DEF ReshareInv
<1>1. "stuck" \in SessionStates /\ session[n][e][role] # "none"
  BY DEF SessionError, SessionStates
<1>2. TypeOK'
  <2>1. session' \in [Node -> [Event -> [Role -> SessionStates]]]
    BY <1>0, <1>1, GoToType DEF SessionError, HandlerTypes
  <2>2. raised' \in [Node -> [Event -> SUBSET Role]]
    <3>1. raised \in [Node -> [Event -> SUBSET Role]]
      BY <1>0 DEF HandlerTypes
    <3>2. raised[n][e] \cup {role} \in SUBSET Role
      BY <3>1
    <3> QED BY <3>1, <3>2 DEF SessionError
  <2>3. HandlerTypes'
    BY <1>0, <2>1, <2>2 DEF HandlerTypes, SessionError
  <2>4. StoreTypes' /\ ResultTypes'
    BY <1>0, FaultType DEF StoreTypes, ResultTypes, SessionError, diskVars, resultVars
  <2> QED BY <2>3, <2>4, TypeParts
<1>3. DisksOK'
  BY <1>2, DisksSame DEF SessionError
<1>4. CASE GoTo(n, e, role, "stuck")
  BY <1>1, <1>2, <1>3, <1>4, GoToStep, InvParts DEF SessionError
<1>5. CASE UNCHANGED session
  BY <1>2, <1>5, QuietStep DEF SessionError
<1> QED BY <1>4, <1>5 DEF SessionError

-----------------------------------------------------------------------------
(* Crash and restart.                                                      *)

LEMMA CrashStep ==
  ASSUME ReshareInv, Grows, NEW n \in Node, Crash(n) PROVE ReshareInv'
<1>0. TypeOK /\ HandlerTypes /\ StoreTypes /\ ResultTypes
  BY TypeParts DEF ReshareInv
<1>1. TypeOK'
  <2>1. Nothing \in [Event -> SUBSET Views] /\ Nothing \in [Event -> SUBSET Node]
        /\ Nothing \in [Event -> SUBSET Role]
    BY DEF Nothing
  <2>2. [e \in Event |-> NoSession] \in [Event -> [Role -> SessionStates]]
    BY DEF NoSession, SessionStates
  <2>3. <<>> \in Seq(Event)
    OBVIOUS
  <2>4. HandlerTypes'
    BY <1>0, <2>1, <2>2, <2>3 DEF HandlerTypes, Crash
  <2>5. StoreTypes' /\ ResultTypes'
    BY <1>0, FaultType DEF StoreTypes, ResultTypes, Crash, diskVars, resultVars
  <2> QED BY <2>4, <2>5, TypeParts
<1>2. ASSUME NEW p \in Node PROVE QueueOK(p)'
  <2>1. CASE p = n
    <3>1. queue'[n] = <<>> /\ stage'[n] = "idle"
      BY <1>0 DEF Crash, HandlerTypes
    <3> QED BY <2>1, <3>1 DEF QueueOK
  <2>2. CASE p # n
    <3>1. queue'[p] = queue[p] /\ stage'[p] = stage[p] /\ session'[p] = session[p]
      BY <1>0, <2>2 DEF Crash, HandlerTypes
    <3> QED BY <3>1, QueueSame
  <2> QED BY <2>1, <2>2
<1>3. ASSUME NEW p \in Node, NEW b \in Event PROVE SessionOK(p, b)'
  <2>1. CASE p = n
    <3>1. view'[n][b] = {} /\ heard'[n][b] = {} /\ session'[n][b] = NoSession
      BY <1>0 DEF Crash, HandlerTypes, Nothing
    <3>2. session'[n][b]["new"] = "none"
      BY <3>1 DEF NoSession, Role
    <3> QED BY <2>1, <3>1, <3>2, FS_EmptySet DEF SessionOK
  <2>2. CASE p # n
    <3>1. view'[p] = view[p] /\ heard'[p] = heard[p] /\ session'[p] = session[p]
      BY <1>0, <2>2 DEF Crash, HandlerTypes
    <3> QED BY <1>1, <3>1, SessionSame
  <2> QED BY <2>1, <2>2
<1> QED BY <1>1, <1>2, <1>3, OneContentKept, DisksSame, InvParts DEF Crash

LEMMA RestartStep ==
  ASSUME ReshareInv, Grows, NEW n \in Node, Restart(n) PROVE ReshareInv'
<1>0. HandlerTypes /\ StoreTypes /\ ResultTypes
  BY TypeParts DEF ReshareInv
<1>1. HandlerTypes'
  BY <1>0 DEF HandlerTypes, Restart, handlerVars
<1>2. StoreTypes' /\ ResultTypes'
  BY <1>0 DEF StoreTypes, ResultTypes, Restart, diskVars, resultVars
<1> QED BY <1>1, <1>2, TypeParts, QuietStep DEF Restart, handlerVars

LEMMA NextInv == ReshareInv /\ [Next]_vars => ReshareInv'
<1> SUFFICES ASSUME ReshareInv, [Next]_vars PROVE ReshareInv'
  OBVIOUS
<1>1. Grows
  BY NextGrows DEF ReshareInv
<1>2. CASE UNCHANGED vars
  <2>1. TypeOK'
    BY <1>2 DEF ReshareInv, TypeOK, vars, handlerVars, diskVars, resultVars
  <2> QED BY <1>1, <1>2, <2>1, QuietStep DEF vars, handlerVars, diskVars
<1>3. ASSUME NEW n \in Node, NEW e \in Event, Party(n, e) PROVE ReshareInv'
  BY <1>1, <1>3, OldPartyStep, PutShareStep, SaveKeyInfoStep DEF Party
<1> QED
  BY <1>1, <1>2, <1>3, ResharingStep, HandleStep, CrashStep, RestartStep, ProbeStep,
     SessionErrorStep DEF Next

LEMMA ReshareInvHolds == Spec => []ReshareInv
  BY InitInv, NextInv, PTL DEF Spec

-----------------------------------------------------------------------------
\* Every variable of the resharing keeps its type, with any number of nodes,
\* requests, versions and faults.
THEOREM ReshareTypeCorrect == Spec => []TypeOK
<1>1. ReshareInv => TypeOK
  BY DEF ReshareInv
<1> QED BY <1>1, ReshareInvHolds, PTL

\* Whatever requests are handled side by side and wherever a node crashes
\* between the Put into Badger and the Save into Consul, a participant of the
\* key info holds the share of the version it names.
THEOREM CurrentVersionAlwaysHeld == Spec => []CurrentVersionIsHeld
<1>1. ReshareInv => CurrentVersionIsHeld
  BY DEF ReshareInv
<1> QED BY <1>1, ReshareInvHolds, PTL

\* Every share that a new member puts into Badger was asked for by the
\* initiator and approved by every required authorizer, and more old members
\* than the threshold of the version before have taken part, each after its own
\* checks (consumeReshareEvent, CreateReshareSession).
THEOREM RotationsAreAuthorised == Spec => []RotationIsAuthorised
<1>1. ReshareInv => RotationIsAuthorised
  BY DEF ReshareInv
<1> QED BY <1>1, ReshareInvHolds, PTL
=============================================================================
