------------------------------ MODULE Reshare ------------------------------
(***************************************************************************)
(* Resharing of ONE key: consumeReshareEvent of the event consumer,        *)
(* CreateReshareSession of the node and the sessions of                    *)
(* pkg/mpc/ecdsa_resharing_session.go and eddsa_resharing_session.go.      *)
(*                                                                         *)
(* A client publishes the request over core NATS.  The subscription of a   *)
(* node handles one request after the other; a handler makes up to two     *)
(* sessions, one as a member of the old and one as a member of the new     *)
(* committee, and waits for both without a timeout.  A member of the new   *)
(* committee puts its share under the next version into Badger and then    *)
(* overwrites the key info in Consul.                                      *)
(*                                                                         *)
(* The TSS library is external: the parties of a node finish once they     *)
(* have heard every node of both committees that started with the same     *)
(* view (key version, old committee, new committee), or never.             *)
(***************************************************************************)
EXTENDS Integers, FiniteSets, Sequences, InitiatorAuth

CONSTANTS
  Node,              \* the nodes of the cluster
  Event,             \* resharing requests a client may publish
  Message,           \* the contents it may give one
  FirstParticipants, \* the participants of the key at version 1
  FirstThreshold,    \* and its threshold
  MaxVersion,        \* bound: versions of the key
  MaxFaults          \* bound: crashes, failing calls and TSS errors, together

ASSUME NodeAssumption == IsFiniteSet(Node) /\ FirstParticipants \subseteq Node
ASSUME MessageAssumption ==
  Message \subseteq
    [SessionID : STRING, KeyType : STRING, NodeIDs : SUBSET Node, NewThreshold : Nat,
     Raw : STRING, Signature : InitiatorSignature,
     AuthorizerSignatures : SUBSET AuthorizerSignature]
ASSUME BoundAssumption ==
  /\ FirstThreshold \in Nat /\ Cardinality(FirstParticipants) > FirstThreshold
  /\ MaxVersion \in Nat \ {0} /\ MaxFaults \in Nat

VARIABLES
  up,        \* up[n]: the process of n runs
  request,   \* request[e]: the contents of a published request, at most one
  queue,     \* queue[n]: requests the subscription of n has not handled
  stage,     \* stage[n]: how far the handler of n has come with the first
  view,      \* view[n][e]: what n's sessions were created with, at most one
  session,   \* session[n][e][role]: the state of a session
  probed,    \* probed[n]: peers the barriers have found subscribed
  heard,     \* heard[n][e]: nodes whose parties n has heard
  raised,    \* raised[n][e]: roles with an error in ErrCh
  reported,  \* reported[n][e]: roles whose error has been answered
  original,  \* the participants that hold the share of version 1
  share,     \* share[n][v]: requests whose share n has put under version v
  keyInfo,   \* the key info in Consul
  result,    \* result[e]: the result in the result queue
  lost,      \* requests with a result that could not be enqueued
  starters,  \* starters[e]: old members that have started a party
  faults     \* bounded by MaxFaults

handlerVars == <<queue, stage, view, session, probed, heard, raised, reported>>
diskVars == <<original, share, keyInfo>>
resultVars == <<result, lost>>
vars == <<up, faults, request, handlerVars, diskVars, resultVars, starters>>

Role == {"old", "new"}

Version == 1..MaxVersion

\* none: nil; listening: subscribed; running: Reshare runs; shared: the share
\* is in Badger; closed: done() and Close(); stuck: Reshare has returned with
\* an error, the subscriptions remain.
SessionStates == {"none", "listening", "running", "shared", "closed", "stuck"}

Subscribed == {"listening", "running", "shared", "stuck"}

Fault == faults < MaxFaults /\ faults' = faults + 1

Content(e) == CHOOSE m \in request[e] : TRUE

NodeIDs(e) == Content(e).NodeIDs

View(n, e) == CHOOSE v \in view[n][e] : TRUE

Holds(n, v) == share[n][v] # {} \/ (v = 1 /\ n \in original)

Nothing == [e \in Event |-> {}]
NoSession == [role \in Role |-> "none"]

-----------------------------------------------------------------------------
\* A participant may lack its share of the first version, as after a crash
\* before the Put of an earlier resharing.
Init ==
  /\ up = [n \in Node |-> TRUE]
  /\ request = [e \in Event |-> {}]
  /\ queue = [n \in Node |-> <<>>]
  /\ stage = [n \in Node |-> "idle"]
  /\ view = [n \in Node |-> Nothing]
  /\ session = [n \in Node |-> [e \in Event |-> NoSession]]
  /\ probed = [n \in Node |-> {}]
  /\ heard = [n \in Node |-> Nothing]
  /\ raised = [n \in Node |-> Nothing]
  /\ reported = [n \in Node |-> Nothing]
  /\ original \in (SUBSET FirstParticipants) \ {{}}
  /\ share = [n \in Node |-> [v \in Version |-> {}]]
  /\ keyInfo = [Version |-> 1, ParticipantPeerIDs |-> FirstParticipants,
                Threshold |-> FirstThreshold]
  /\ result = [e \in Event |-> "none"]
  /\ lost = {}
  /\ starters = Nothing
  /\ faults = 0

\* Resharing of the client: core NATS, at most once to each node that runs.
Resharing(e, m) ==
  /\ request[e] = {}
  /\ request' = [request EXCEPT ![e] = {m}]
  /\ \E missed \in SUBSET {n \in Node : up[n]} :
       /\ IF missed = {} THEN UNCHANGED faults ELSE Fault
       /\ queue' = [n \in Node |-> IF up[n] /\ n \notin missed
                                   THEN Append(queue[n], e) ELSE queue[n]]
  /\ UNCHANGED <<up, stage, view, session, probed, heard, raised, reported,
                 diskVars, resultVars, starters>>

-----------------------------------------------------------------------------
(* The handler of node n.                                                  *)

\* One result per SessionID of the request: JetStream keeps the first.
Enqueue(e, res) ==
  result' = [result EXCEPT ![e] = IF @ = "none" THEN res ELSE @]

\* A request without a SessionID cannot be answered, and an error that cannot
\* be enqueued is only logged.
handleReshareSessionError(e) ==
  \/ Content(e).SessionID = "" /\ UNCHANGED <<resultVars, faults>>
  \/ Content(e).SessionID # "" /\ Enqueue(e, "error") /\ UNCHANGED <<lost, faults>>
  \/ Content(e).SessionID # "" /\ Fault /\ lost' = lost \cup {e} /\ UNCHANGED result

\* The handler returns; nobody calls Stop or Close on its sessions.
Return(n) ==
  /\ queue' = [queue EXCEPT ![n] = Tail(@)]
  /\ stage' = [stage EXCEPT ![n] = "idle"]
  /\ probed' = [probed EXCEPT ![n] = {}]

At(n, s) == up[n] /\ queue[n] # <<>> /\ stage[n] = s

sessionTypeFromKeyType(m) == m.KeyType \in {"secp256k1", "ed25519"}

MutValid(m) == m.SessionID # "" /\ VerifyInitiatorMessage(m)

Valid(m) ==
  /\ m.SessionID # ""
  /\ VerifyInitiatorMessage(m) /\ AuthorizeInitiatorMessage(m)
  /\ sessionTypeFromKeyType(m)

RejectEvent(n) ==
  /\ At(n, "idle")
  /\ LET e == Head(queue[n]) IN
     ~Valid(Content(e)) /\ handleReshareSessionError(e)
  /\ Return(n)
  /\ UNCHANGED <<up, request, view, session, heard, raised, reported, diskVars,
                 starters>>

getReadyPeersForSession(ready) == keyInfo.ParticipantPeerIDs \cap ready

\* The checks of CreateReshareSession that end in an error, on what n takes
\* for the ready peers.
Sufficient(n, e, ready, role) ==
  /\ Cardinality(ready) >= Content(e).NewThreshold + 1
  /\ Cardinality(NodeIDs(e)) >= Content(e).NewThreshold + 1
  /\ NodeIDs(e) \subseteq ready
  /\ n \in (IF role = "new" THEN NodeIDs(e) ELSE keyInfo.ParticipantPeerIDs) =>
       Cardinality(getReadyPeersForSession(ready)) >= keyInfo.Threshold + 1

\* The session of a role is nil when n is not of its committee.
Member(n, e, role) ==
  n \in (IF role = "new" THEN NodeIDs(e) ELSE keyInfo.ParticipantPeerIDs)

\* What the parties are made of: the version and the old committee as n reads
\* and sees them now, and the new committee.
Seen(e, ready) ==
  [Version |-> keyInfo.Version, Threshold |-> keyInfo.Threshold,
   Old |-> getReadyPeersForSession(ready), New |-> NodeIDs(e),
   NewThreshold |-> Content(e).NewThreshold]

CreateFails(n) ==
  /\ At(n, "idle") \/ At(n, "created")
  /\ LET e == Head(queue[n]) IN
     /\ Valid(Content(e))
     /\ \/ /\ \E ready \in SUBSET Node : n \in ready /\
                ~Sufficient(n, e, ready, IF stage[n] = "idle" THEN "old" ELSE "new")
           /\ handleReshareSessionError(e)
        \/ Fault /\ Enqueue(e, "error") /\ UNCHANGED lost
     /\ view' = [view EXCEPT ![n][e] = {}]
  /\ Return(n)
  /\ UNCHANGED <<up, request, session, heard, raised, reported, diskVars, starters>>

\* createSession(false).
CreateOldSession(n) ==
  /\ At(n, "idle")
  /\ LET e == Head(queue[n]) IN
     /\ Valid(Content(e))
     /\ \E ready \in SUBSET Node :
          /\ n \in ready /\ Sufficient(n, e, ready, "old")
          /\ view' = [view EXCEPT ![n][e] = {v \in {Seen(e, ready)} : Member(n, e, "old")}]
  /\ stage' = [stage EXCEPT ![n] = "created"]
  /\ UNCHANGED <<up, faults, request, queue, session, probed, heard, raised,
                 reported, diskVars, resultVars, starters>>

\* createSession(true) reads the key info and the ready peers once more, then
\* Init and the subscriptions.  Two sessions made of different views have no
\* view in common with anyone.
CreateNewSession(n) ==
  /\ At(n, "created")
  /\ LET e == Head(queue[n]) IN
     \E ready \in SUBSET Node :
       LET both == view[n][e] \cup {v \in {Seen(e, ready)} : Member(n, e, "new")}
       IN
       /\ n \in ready /\ Sufficient(n, e, ready, "new")
       /\ both # {}
       /\ view[n][e] # {} => Holds(n, View(n, e).Version)
       /\ view' = [view EXCEPT ![n][e] = both]
       /\ session' = [session EXCEPT ![n][e] =
            [role \in Role |->
               IF IF role = "new" THEN Member(n, e, "new") ELSE view[n][e] # {}
               THEN "listening" ELSE "none"]]
  /\ stage' = [stage EXCEPT ![n] = "barrier"]
  /\ UNCHANGED <<up, faults, request, queue, probed, heard, raised, reported,
                 diskVars, resultVars, starters>>

\* Neither in the old nor in the new committee.
SkipEvent(n) ==
  /\ At(n, "created")
  /\ LET e == Head(queue[n]) IN view[n][e] = {} /\ ~Member(n, e, "new")
  /\ Return(n)
  /\ UNCHANGED <<up, faults, request, view, session, heard, raised, reported,
                 diskVars, resultVars, starters>>

\* Init of the old session: there is no share of that version in Badger
\* (loadOldShareDataGeneric).
InitFails(n) ==
  /\ At(n, "created")
  /\ LET e == Head(queue[n]) IN
     /\ view[n][e] # {} /\ ~Holds(n, View(n, e).Version)
     /\ handleReshareSessionError(e)
     /\ view' = [view EXCEPT ![n][e] = {}]
  /\ Return(n)
  /\ UNCHANGED <<up, request, session, heard, raised, reported, diskVars, starters>>

\* The peers that the barriers of n's sessions ask.
BarrierPeers(n, e) ==
  (UNION {IF session[n][e][role] = "none" THEN {}
          ELSE IF role = "new" THEN v.New ELSE v.Old :
            role \in Role, v \in view[n][e]}) \ {n}

\* The barriers of the two committees have the same topics, so that any
\* session of the key answers.
ProbeBarrier(n, p) ==
  /\ At(n, "barrier") /\ p \in BarrierPeers(n, Head(queue[n])) \ probed[n]
  /\ up[p] /\ \E b \in Event, role \in Role : session[p][b][role] \in Subscribed
  /\ probed' = [probed EXCEPT ![n] = @ \cup {p}]
  /\ UNCHANGED <<up, faults, request, queue, stage, view, session, heard,
                 raised, reported, diskVars, resultVars, starters>>

BarrierFails(n) ==
  /\ At(n, "barrier")
  /\ LET e == Head(queue[n]) IN
     /\ probed[n] # BarrierPeers(n, e)
     /\ handleReshareSessionError(e)
     /\ session' = [session EXCEPT ![n][e] =
          [role \in Role |-> IF @[role] = "none" THEN "none" ELSE "stuck"]]
  /\ Return(n)
  /\ UNCHANGED <<up, request, view, heard, raised, reported, diskVars, starters>>

MutLegacyCommitteePeers(v) == {}

\* GetLegacyCommitteePeers.
LegacyCommitteePeers(v) == v.Old \ v.New

\* Whom a session is subscribed to.
Listened(v, role) ==
  IF role = "new" THEN v.New \cup LegacyCommitteePeers(v) ELSE v.Old \cup v.New

\* n has a party for each committee of its view that it is in; it may have none
\* in the old one when the key info changed between its two sessions.
HasParties(n, e) ==
  \A v \in view[n][e] : n \in v.Old => session[n][e]["old"] # "none"

\* The parties of n start and send to every session of the key.
StartReshare(n) ==
  /\ At(n, "barrier")
  /\ LET e == Head(queue[n]) IN
     /\ probed[n] = BarrierPeers(n, e)
     /\ session' = [session EXCEPT ![n][e] =
          [role \in Role |-> IF @[role] = "none" THEN "none" ELSE "running"]]
     /\ starters' = [starters EXCEPT ![e] =
          IF session[n][e]["old"] = "none" THEN @ ELSE @ \cup {n}]
     /\ heard' = [m \in Node |-> [b \in Event |->
          IF /\ m # n /\ view[m][b] = view[n][e] /\ Cardinality(view[n][e]) = 1
             /\ HasParties(n, e)
             /\ \E role \in Role : session[m][b][role] \in {"listening", "running"}
          THEN heard[m][b] \cup {n} ELSE heard[m][b]]]
  /\ stage' = [stage EXCEPT ![n] = "running"]
  /\ probed' = [probed EXCEPT ![n] = {}]
  /\ UNCHANGED <<up, faults, request, queue, view, raised, reported, diskVars,
                 resultVars>>

\* endCh delivers (external).
PartyFinished(n, e, role) ==
  /\ session[n][e][role] = "running" /\ Cardinality(view[n][e]) = 1
  /\ HasParties(n, e)
  /\ LET v == View(n, e) IN
     (v.Old \cup v.New) \ {n} \subseteq heard[n][e] \cap Listened(v, role)

GoTo(n, e, role, s) == session' = [session EXCEPT ![n][e][role] = s]

\* Reshare of the old session ends without save data.
OldPartyEnds(n, e) ==
  /\ up[n] /\ PartyFinished(n, e, "old")
  /\ GoTo(n, e, "old", "closed")
  /\ UNCHANGED <<up, faults, request, queue, stage, view, probed, heard, raised,
                 reported, diskVars, resultVars, starters>>

MutPutShare(n, e) ==
  /\ up[n] /\ PartyFinished(n, e, "new") /\ View(n, e).Version < MaxVersion
  /\ keyInfo' = [Version |-> View(n, e).Version + 1,
                 ParticipantPeerIDs |-> NodeIDs(e), Threshold |-> Content(e).NewThreshold]
  /\ GoTo(n, e, "new", "shared")
  /\ UNCHANGED <<up, faults, request, queue, stage, view, probed, heard, raised,
                 reported, original, share, resultVars, starters>>

\* Reshare of the new session: first the share goes into Badger, under the
\* version after the one the session was created with.
PutShare(n, e) ==
  /\ up[n] /\ PartyFinished(n, e, "new") /\ View(n, e).Version < MaxVersion
  /\ share' = [share EXCEPT ![n][View(n, e).Version + 1] = @ \cup {e}]
  /\ GoTo(n, e, "new", "shared")
  /\ UNCHANGED <<up, faults, request, queue, stage, view, probed, heard, raised,
                 reported, original, keyInfo, resultVars, starters>>

MutSaveKeyInfo(n, e) ==
  /\ up[n] /\ session[n][e]["new"] = "shared"
  /\ keyInfo' = [Version |-> View(n, e).Version + 2,
                 ParticipantPeerIDs |-> NodeIDs(e), Threshold |-> Content(e).NewThreshold]
  /\ GoTo(n, e, "new", "closed")
  /\ UNCHANGED <<up, faults, request, queue, stage, view, probed, heard, raised,
                 reported, original, share, resultVars, starters>>

\* Then the key info in Consul is overwritten and the session closed.
SaveKeyInfo(n, e) ==
  /\ up[n] /\ session[n][e]["new"] = "shared"
  /\ keyInfo' = [Version |-> View(n, e).Version + 1,
                 ParticipantPeerIDs |-> NodeIDs(e), Threshold |-> Content(e).NewThreshold]
  /\ GoTo(n, e, "new", "closed")
  /\ UNCHANGED <<up, faults, request, queue, stage, view, probed, heard, raised,
                 reported, original, share, resultVars, starters>>

\* A peer that has no session to take the messages of n.
Unreachable(n, e) ==
  \E v \in view[n][e] : \E p \in (v.Old \cup v.New) \ {n} :
    ~up[p] \/ \A b \in Event, role \in Role : session[p][b][role] \notin Subscribed

\* A write fails and Reshare returns, or the party or a message raises an
\* error and Reshare goes on: it does not look at doneCh.
SessionError(n, e, role) ==
  /\ up[n] /\ session[n][e][role] \in {"running", "shared"}
  /\ role \notin raised[n][e]
  /\ raised' = [raised EXCEPT ![n][e] = @ \cup {role}]
  /\ \/ /\ role = "new" /\ Fault
        /\ session[n][e][role] = "shared" \/ PartyFinished(n, e, "new")
        /\ GoTo(n, e, role, "stuck")
     \/ /\ session[n][e][role] = "running" /\ UNCHANGED session
        /\ IF Unreachable(n, e) THEN UNCHANGED faults ELSE Fault
  /\ UNCHANGED <<up, request, queue, stage, view, probed, heard, reported,
                 diskVars, resultVars, starters>>

Waits(n, e) ==
  {role \in Role : session[n][e][role] \notin {"none", "closed"}} \ reported[n][e]

\* The watcher of a role answers with the error and calls done().
WatchError(n, role) ==
  /\ At(n, "running")
  /\ LET e == Head(queue[n]) IN
     /\ role \in raised[n][e] \ reported[n][e]
     /\ handleReshareSessionError(e)
     /\ reported' = [reported EXCEPT ![n][e] = @ \cup {role}]
  /\ UNCHANGED <<up, request, queue, stage, view, session, probed, heard,
                 raised, diskVars, starters>>

\* wg.Wait returns.  A new member whose session has a public key publishes the
\* success; a success that cannot be enqueued becomes an error.
FinishHandler(n) ==
  /\ At(n, "running")
  /\ LET e == Head(queue[n]) IN
     /\ Waits(n, e) = {}
     /\ IF session[n][e]["new"] = "closed" /\ "new" \notin reported[n][e]
        THEN \/ Enqueue(e, "success") /\ UNCHANGED <<lost, faults>>
             \/ Fault /\ Enqueue(e, "error") /\ UNCHANGED lost
             \/ Fault /\ lost' = lost \cup {e} /\ UNCHANGED result
        ELSE UNCHANGED <<resultVars, faults>>
  /\ Return(n)
  /\ UNCHANGED <<up, request, view, session, heard, raised, reported, diskVars,
                 starters>>

-----------------------------------------------------------------------------
(* Crash and restart: Badger and Consul survive, nothing else does.        *)

Crash(n) ==
  /\ up[n] /\ Fault
  /\ up' = [up EXCEPT ![n] = FALSE]
  /\ queue' = [queue EXCEPT ![n] = <<>>]
  /\ stage' = [stage EXCEPT ![n] = "idle"]
  /\ view' = [view EXCEPT ![n] = Nothing]
  /\ session' = [session EXCEPT ![n] = [e \in Event |-> NoSession]]
  /\ probed' = [probed EXCEPT ![n] = {}]
  /\ heard' = [heard EXCEPT ![n] = Nothing]
  /\ raised' = [raised EXCEPT ![n] = Nothing]
  /\ reported' = [reported EXCEPT ![n] = Nothing]
  /\ UNCHANGED <<request, diskVars, resultVars, starters>>

Restart(n) ==
  /\ ~up[n]
  /\ up' = [up EXCEPT ![n] = TRUE]
  /\ UNCHANGED <<faults, request, handlerVars, diskVars, resultVars, starters>>

-----------------------------------------------------------------------------
Handle(n) ==
  \/ RejectEvent(n) \/ CreateFails(n) \/ CreateOldSession(n) \/ CreateNewSession(n)
  \/ SkipEvent(n) \/ InitFails(n) \/ BarrierFails(n) \/ StartReshare(n)
  \/ FinishHandler(n) \/ \E role \in Role : WatchError(n, role)

Party(n, e) == OldPartyEnds(n, e) \/ PutShare(n, e) \/ SaveKeyInfo(n, e)

Next ==
  \/ \E e \in Event, m \in Message : Resharing(e, m)
  \/ \E n \in Node :
       \/ Handle(n) \/ Crash(n) \/ Restart(n)
       \/ \E p \in Node : ProbeBarrier(n, p)
       \/ \E e \in Event : Party(n, e) \/ \E role \in Role : SessionError(n, e, role)

Spec == Init /\ [][Next]_vars

(***************************************************************************)
(* The handler of a running node goes on, and so do its parties once they  *)
(* have heard everyone.                                                    *)
(***************************************************************************)
FairSpec ==
  Spec /\ \A n \in Node : WF_vars(Handle(n) \/ \E e \in Event : Party(n, e))

-----------------------------------------------------------------------------
(* Properties.                                                             *)

Views ==
  [Version : Version, Threshold : Nat, Old : SUBSET Node, New : SUBSET Node,
   NewThreshold : Nat]

\* Every variable has the type the Go declarations give it.
TypeOK ==
  /\ up \in [Node -> BOOLEAN]
  /\ request \in [Event -> SUBSET Message]
  /\ queue \in [Node -> Seq(Event)]
  /\ stage \in [Node -> {"idle", "created", "barrier", "running"}]
  /\ view \in [Node -> [Event -> SUBSET Views]]
  /\ session \in [Node -> [Event -> [Role -> SessionStates]]]
  /\ probed \in [Node -> SUBSET Node]
  /\ heard \in [Node -> [Event -> SUBSET Node]]
  /\ raised \in [Node -> [Event -> SUBSET Role]]
  /\ reported \in [Node -> [Event -> SUBSET Role]]
  /\ original \subseteq FirstParticipants
  /\ share \in [Node -> [Version -> SUBSET Event]]
  /\ keyInfo \in [Version : Version, ParticipantPeerIDs : SUBSET Node, Threshold : Nat]
  /\ result \in [Event -> {"none", "error", "success"}]
  /\ lost \subseteq Event
  /\ starters \in [Event -> SUBSET Node]
  /\ faults \in 0..MaxFaults

\* The version that the key info names exists: some participant has its share
\* in Badger, wherever a node crashes and whoever wrote the key info last.
\* Nobody could sign or reshare any more with a version nobody holds.
CurrentVersionIsHeld ==
  \E n \in keyInfo.ParticipantPeerIDs : Holds(n, keyInfo.Version)

\* The thresholds the key has had with version v: two requests may make the
\* same version.
Thresholds(v) ==
  IF v = 1 THEN {FirstThreshold}
  ELSE {Content(e).NewThreshold : e \in UNION {share[n][v] : n \in Node}}

\* The old members that have taken part in e, or in a request for the same new
\* committee: their sessions share the topics and may mix.
TookPart(e) ==
  UNION {starters[b] : b \in {b \in Event : request[b] # {} /\ NodeIDs(b) = NodeIDs(e)}}

\* A share of a new version comes from a request that the initiator and every
\* required authorizer have signed, and t + 1 old members have taken part, each
\* on its own check, t being the threshold of the version before.
RotationIsAuthorised ==
  \A n \in Node, v \in Version : \A e \in share[n][v] :
    /\ \E t \in Thresholds(v - 1) : Cardinality(TookPart(e)) >= t + 1
    /\ \A m \in request[e] :
         /\ m.Signature = [key |-> "initiator", over |-> m.Raw]
         /\ authConfig.Enabled => \A id \in authConfig.RequiredAuthorizers :
              \E sig \in m.AuthorizerSignatures :
                /\ sig.AuthorizerID = id /\ sig.key = id
                /\ sig.over = [InitiatorRaw |-> m.Raw, InitiatorSig |-> m.Signature]

\* The nodes see the same committees.
ViewsAgree ==
  \A n, m \in Node, e \in Event :
    view[n][e] # {} /\ view[m][e] # {} => view[n][e] = view[m][e]

\* The handlers wait without a timeout, but they do not wait for each other
\* for ever: unless a fault occurs or two nodes take different peers for
\* ready, a request that carries a SessionID is answered.
ReshareIsAnswered ==
  [](faults = 0 /\ ViewsAgree) =>
    \A e \in Event :
      (\E m \in request[e] : m.SessionID # "") ~> result[e] # "none"

\* The comment on doneCh in session.go says that it is closed on an error and
\* that "Sign/Reshare goroutines select on this": after a failure that the
\* client has been told of, the session of that node writes nothing more.
\* The code does not keep this: see "Promises the code does not keep" in the README.
FailedReshareWritesNothing ==
  [][\A n \in Node, e \in Event :
       "new" \in reported[n][e] /\ session[n][e]["new"] = "running"
         => session'[n][e]["new"] # "shared"]_vars
=============================================================================
