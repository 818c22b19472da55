------------------------- MODULE PeerRegistryProofs -------------------------
(***************************************************************************)
(* Machine-checked proofs about PeerRegistry, for any finite set of nodes, *)
(* any threshold and any bound on the faults.                              *)
(*                                                                         *)
(* The inductive invariant is TypeOK, the count invariant and three facts  *)
(* that neither of them gives: a node registers and lists only peers       *)
(* (OnlyPeers), it never holds a key for itself (NoOwnKey), and, if        *)
(* checkAndUpdateReadyState is not preempted, ready implies a full table   *)
(* (FlagIsExact).  That isECDHReady may compare counts instead of sets     *)
(* follows because both sets are subsets of the same finite set of peers.  *)
(***************************************************************************)
EXTENDS PeerRegistry, FiniteSetTheorems, TLAPS

OnlyPeers ==
  \A n \in Node : /\ readyPeers[n] \subseteq getPeerIDsExceptSelf(n)
                  /\ listing[n] \subseteq getPeerIDsExceptSelf(n)

NoOwnKey ==
  /\ \A n \in Node : symKey[n][n] = 0
  /\ \A m \in wire : m.to # m.from

FlagIsExact ==
  ~RacyCheck =>
    \A n \in Node : /\ ~setting[n]
                    /\ ready[n] => readyPeers[n] = getPeerIDsExceptSelf(n)

\* The epoch of a process that has a key pair is at least one.
EpochStarted == \A n \in Node : Running(n) \/ keyPair[n] => epoch[n] # 0

IInv == /\ TypeOK
        /\ ReadyCountMatchesMap
        /\ OnlyPeers
        /\ NoOwnKey
        /\ FlagIsExact
        /\ EpochStarted

-----------------------------------------------------------------------------
(* Facts about the cardinalities that the registry compares.               *)

LEMMA FinitePeers ==
  ASSUME NEW n \in Node, NEW S, S \subseteq Node
  PROVE  /\ IsFiniteSet(S)
         /\ Cardinality(S) \in Nat
  BY NodeAssumption, FS_Subset, FS_CardinalityType

\* A set of peers as large as the set of all peers is that set: the reason
\* why comparing counts is enough.
LEMMA FullByCount ==
  ASSUME NEW n \in Node, NEW S, S \subseteq getPeerIDsExceptSelf(n),
         Cardinality(S) = Cardinality(getPeerIDsExceptSelf(n))
  PROVE  S = getPeerIDsExceptSelf(n)
  <1>1. IsFiniteSet(getPeerIDsExceptSelf(n))
    BY FinitePeers DEF getPeerIDsExceptSelf
  <1> QED BY <1>1, FS_Subset

\* Disconnecting gone and registering joined moves the size of the table by
\* exactly the two sizes.
LEMMA CountStep ==
  ASSUME NEW R, R \subseteq Node, NEW gone, gone \subseteq R,
         NEW L, L \subseteq Node
  PROVE  Cardinality((R \ gone) \cup (L \ (R \ gone))) =
           Cardinality(R) - Cardinality(gone) + Cardinality(L \ (R \ gone))
  <1> DEFINE K == R \ gone
             J == L \ K
  <1>1. /\ IsFiniteSet(R) /\ IsFiniteSet(gone) /\ IsFiniteSet(K) /\ IsFiniteSet(J)
    BY NodeAssumption, FS_Subset
  <1>2. R \cap gone = gone
    OBVIOUS
  <1>3. Cardinality(K) = Cardinality(R) - Cardinality(gone)
    BY <1>1, <1>2, FS_Difference
  <1>4. K \cap J = {}
    OBVIOUS
  <1>5. Cardinality(K \cup J) = Cardinality(K) + Cardinality(J) - Cardinality(K \cap J)
    <2> HIDE DEF K, J
    <2> QED BY <1>1, FS_Union
  <1>6. /\ Cardinality(K) \in Nat /\ Cardinality(J) \in Nat
        /\ Cardinality(R) \in Nat /\ Cardinality(gone) \in Nat
    <2> HIDE DEF K, J
    <2> QED BY <1>1, FS_CardinalityType
  <1>7. Cardinality(K \cap J) = 0
    BY <1>4, FS_EmptySet
  <1> QED BY <1>3, <1>5, <1>6, <1>7

-----------------------------------------------------------------------------
LEMMA InitIInv == Init => IInv
  <1> SUFFICES ASSUME Init PROVE IInv
    OBVIOUS
  <1>1. TypeOK
    BY MaxFailuresAssumption, MaxFaultsAssumption DEF Init, TypeOK, Phases, Message
  <1>2. ReadyCountMatchesMap
    BY FS_EmptySet DEF Init, ReadyCountMatchesMap
  <1>3. OnlyPeers /\ NoOwnKey /\ FlagIsExact /\ EpochStarted
    BY DEF Init, OnlyPeers, NoOwnKey, FlagIsExact, EpochStarted, Running
  <1> QED BY <1>1, <1>2, <1>3 DEF IInv

\* The keys a broadcast puts on the wire are messages from p to others.
LEMMA BroadcastType ==
  ASSUME TypeOK, EpochStarted, NoOwnKey, NEW p \in Node, epoch[p] # 0,
         BroadcastPublicKey(p)
  PROVE  wire' \subseteq Message /\ \A m \in wire' : m.to # m.from
  BY DEF TypeOK, NoOwnKey, BroadcastPublicKey, Listeners, Message

LEMMA BootStep ==
  ASSUME IInv, NEW n \in Node, Boot(n)
  PROVE  IInv'
  <1> USE DEF IInv
  <1>1. CASE Start(n)
    <2>1. TypeOK'
      BY <1>1 DEF TypeOK, Start, Phases
    <2>2. ReadyCountMatchesMap'
      BY <1>1, FS_EmptySet DEF ReadyCountMatchesMap, Start, TypeOK
    <2>3. OnlyPeers' /\ NoOwnKey'
      BY <1>1 DEF OnlyPeers, NoOwnKey, Start, TypeOK
    <2>4. FlagIsExact'
      BY <1>1 DEF FlagIsExact, Start, TypeOK
    <2>5. EpochStarted'
      BY <1>1 DEF EpochStarted, Running, Start, TypeOK
    <2> QED BY <2>1, <2>2, <2>3, <2>4, <2>5
  <1>2. CASE StartECDHExchange(n)
    <2>1. epoch[n] # 0
      BY <1>2 DEF StartECDHExchange, EpochStarted, Running
    <2>2. wire' \subseteq Message /\ \A m \in wire' : m.to # m.from
      BY <1>2, <2>1, BroadcastType DEF StartECDHExchange
    <2>3. TypeOK'
      BY <1>2, <2>2 DEF TypeOK, StartECDHExchange, Phases
    <2>4. NoOwnKey'
      BY <1>2, <2>2 DEF NoOwnKey, StartECDHExchange
    <2>5. ReadyCountMatchesMap' /\ OnlyPeers' /\ FlagIsExact'
      BY <1>2 DEF ReadyCountMatchesMap, OnlyPeers, FlagIsExact, StartECDHExchange
    <2>6. EpochStarted'
      BY <1>2, <2>1 DEF EpochStarted, Running, StartECDHExchange, TypeOK
    <2> QED BY <2>3, <2>4, <2>5, <2>6
  <1>3. CASE PutReady(n) \/ ListenHealth(n)
    <2>1. TypeOK'
      BY <1>3 DEF TypeOK, PutReady, ListenHealth, Phases
    <2>2. ReadyCountMatchesMap' /\ OnlyPeers' /\ FlagIsExact' /\ NoOwnKey'
      BY <1>3 DEF ReadyCountMatchesMap, OnlyPeers, FlagIsExact, NoOwnKey,
                  PutReady, ListenHealth
    <2>3. EpochStarted'
      BY <1>3 DEF EpochStarted, Running, PutReady, ListenHealth, TypeOK
    <2> QED BY <2>1, <2>2, <2>3
  <1> QED BY <1>1, <1>2, <1>3 DEF Boot

LEMMA ExchangeStep ==
  ASSUME IInv, NEW n \in Node, Exchange(n)
  PROVE  IInv'
  <1> USE DEF IInv
  <1>1. CASE TriggerECDHExchange(n)
    <2>1. wire' \subseteq Message /\ \A m \in wire' : m.to # m.from
      <3>1. CASE keyPair[n]
        <4>1. epoch[n] # 0
          BY <3>1 DEF EpochStarted
        <4> QED BY <1>1, <3>1, <4>1, BroadcastType DEF TriggerECDHExchange
      <3>2. CASE ~keyPair[n]
        BY <1>1, <3>2 DEF TriggerECDHExchange, TypeOK, NoOwnKey
      <3> QED BY <3>1, <3>2
    <2>2. TypeOK'
      BY <1>1, <2>1 DEF TypeOK, TriggerECDHExchange
    <2>3. NoOwnKey'
      BY <1>1, <2>1 DEF NoOwnKey, TriggerECDHExchange
    <2>4. ReadyCountMatchesMap' /\ OnlyPeers' /\ FlagIsExact' /\ EpochStarted'
      BY <1>1 DEF ReadyCountMatchesMap, OnlyPeers, FlagIsExact, EpochStarted,
                  Running, TriggerECDHExchange
    <2> QED BY <2>2, <2>3, <2>4
  <1>2. CASE SetReady(n)
    <2>1. TypeOK'
      BY <1>2 DEF TypeOK, SetReady
    <2>2. FlagIsExact'
      BY <1>2 DEF FlagIsExact, SetReady
    <2>3. ReadyCountMatchesMap' /\ OnlyPeers' /\ NoOwnKey' /\ EpochStarted'
      BY <1>2 DEF ReadyCountMatchesMap, OnlyPeers, NoOwnKey, EpochStarted,
                  Running, SetReady
    <2> QED BY <2>1, <2>2, <2>3
  <1>3. ASSUME NEW m \in wire, m.to = n, ReceivePublicKey(m)
        PROVE  IInv'
    <2>1. m \in Message
      BY DEF TypeOK
    <2>2. TypeOK'
      <3>1. symKey' \in [Node -> [Node -> Nat]] /\ wire' \subseteq Message
        BY <1>3, <2>1 DEF ReceivePublicKey, TypeOK, Message
      <3>2. ready' \in [Node -> BOOLEAN] /\ setting' \in [Node -> BOOLEAN]
        BY <1>3, RacyCheckAssumption DEF ReceivePublicKey, TypeOK
      <3> QED BY <1>3, <3>1, <3>2 DEF ReceivePublicKey, TypeOK
    <2>3. NoOwnKey'
      BY <1>3, <2>1 DEF NoOwnKey, ReceivePublicKey, TypeOK, Message
    <2>4. FlagIsExact'
      <3> SUFFICES ASSUME ~RacyCheck, NEW k \in Node
                   PROVE  /\ ~setting'[k]
                          /\ ready'[k] => readyPeers'[k] = getPeerIDsExceptSelf(k)
        BY DEF FlagIsExact
      <3>1. readyPeers' = readyPeers
        BY <1>3 DEF ReceivePublicKey
      <3>2. ~setting'[k]
        BY <1>3 DEF ReceivePublicKey, FlagIsExact, TypeOK
      <3>3. ASSUME ready'[k] PROVE readyPeers'[k] = getPeerIDsExceptSelf(k)
        <4>1. CASE ready[k]
          BY <3>1, <4>1 DEF FlagIsExact
        <4>2. CASE ~ready[k]
          <5>1. k = n /\ Cardinality(readyPeers'[n]) = Cardinality(getPeerIDsExceptSelf(n))
            BY <1>3, <3>3, <4>2 DEF ReceivePublicKey, TypeOK, AllConditionsMet
          <5>2. readyPeers'[n] \subseteq getPeerIDsExceptSelf(n)
            BY <3>1 DEF OnlyPeers
          <5> QED BY <5>1, <5>2, FullByCount
        <4> QED BY <4>1, <4>2
      <3> QED BY <3>2, <3>3
    <2>5. ReadyCountMatchesMap' /\ OnlyPeers' /\ EpochStarted'
      BY <1>3 DEF ReadyCountMatchesMap, OnlyPeers, EpochStarted, Running,
                  ReceivePublicKey
    <2> QED BY <2>2, <2>3, <2>4, <2>5
  <1> QED BY <1>1, <1>2, <1>3 DEF Exchange

\* One tick of WatchPeersReady: the counter follows the table, and a node
\* that is marked ready afterwards has registered every peer.
LEMMA ApplyListingStep ==
  ASSUME IInv, NEW n \in Node, ApplyListing(n)
  PROVE  /\ IInv'
         /\ ready'[n] => readyPeers'[n] = getPeerIDsExceptSelf(n)
  <1> USE DEF IInv
  <1> DEFINE complete == Cardinality(listing[n]) = Cardinality(getPeerIDsExceptSelf(n))
             gone     == IF complete THEN {} ELSE readyPeers[n] \ listing[n]
             kept     == readyPeers[n] \ gone
             joined   == listing[n] \ kept
  <1>1. /\ listing[n] \subseteq getPeerIDsExceptSelf(n)
        /\ readyPeers[n] \subseteq getPeerIDsExceptSelf(n)
        /\ gone \subseteq readyPeers[n]
        /\ getPeerIDsExceptSelf(n) \subseteq Node
    BY DEF OnlyPeers, getPeerIDsExceptSelf
  <1>2. /\ readyPeers' = [readyPeers EXCEPT ![n] = kept \cup joined]
        /\ readyCount' = [readyCount EXCEPT
                            ![n] = @ - Cardinality(gone) + Cardinality(joined)]
        /\ symKey' = [symKey EXCEPT
                        ![n] = [p \in Node |-> IF p \in gone THEN 0 ELSE symKey[n][p]]]
        /\ bcast' = [bcast EXCEPT ![n] = @ \/ joined # {}]
        /\ ready' = [ready EXCEPT ![n] = (complete /\ @) \/ AllConditionsMet(n)']
        /\ watch' = [watch EXCEPT ![n] = "idle"]
        /\ listing' = [listing EXCEPT ![n] = {}]
        /\ UNCHANGED <<consul, phase, link, epoch, keyPair, wire, failures,
                       setting, faults>>
    BY DEF ApplyListing, Complete, Gone, Joined, StaysReady
  <1>3. kept \cup joined \subseteq getPeerIDsExceptSelf(n)
    BY <1>1
  <1>4. readyPeers'[n] \subseteq getPeerIDsExceptSelf(n)
    BY <1>2, <1>3 DEF TypeOK
  <1>5. /\ Cardinality(gone) \in Nat
        /\ Cardinality(joined) \in Nat
    BY <1>1, FinitePeers
  <1>6. TypeOK'
    <2>1. readyPeers' \in [Node -> SUBSET Node] /\ listing' \in [Node -> SUBSET Node]
      BY <1>1, <1>2, <1>3 DEF TypeOK
    <2>2. readyCount' \in [Node -> Int]
      <3> HIDE DEF gone, joined
      <3> QED BY <1>2, <1>5 DEF TypeOK
    <2>3. symKey' \in [Node -> [Node -> Nat]]
      <3> HIDE DEF gone
      <3> QED BY <1>2 DEF TypeOK
    <2>4. bcast' \in [Node -> BOOLEAN] /\ ready' \in [Node -> BOOLEAN]
      <3> HIDE DEF complete, joined
      <3> QED BY <1>2 DEF TypeOK, AllConditionsMet
    <2> QED BY <1>2, <2>1, <2>2, <2>3, <2>4 DEF TypeOK
  <1>7. ReadyCountMatchesMap'
    <2> SUFFICES ASSUME NEW k \in Node
                 PROVE  readyCount'[k] = 1 + Cardinality(readyPeers'[k])
      BY DEF ReadyCountMatchesMap
    <2>1. CASE k = n
      <3>1. Cardinality(kept \cup joined) =
              Cardinality(readyPeers[n]) - Cardinality(gone) + Cardinality(joined)
        <4> HIDE DEF gone
        <4> QED BY <1>1, CountStep
      <3>2. readyPeers'[n] = kept \cup joined
        BY <1>2 DEF TypeOK
      <3>3. readyCount'[n] = readyCount[n] - Cardinality(gone) + Cardinality(joined)
        BY <1>2 DEF TypeOK
      <3>4. readyCount[n] = 1 + Cardinality(readyPeers[n])
        BY DEF ReadyCountMatchesMap
      <3>5. Cardinality(readyPeers[n]) \in Nat
        BY <1>1, FinitePeers
      <3> HIDE DEF gone, joined, kept
      <3> QED BY <1>5, <2>1, <3>1, <3>2, <3>3, <3>4, <3>5
    <2>2. CASE k # n
      BY <1>2, <2>2 DEF TypeOK, ReadyCountMatchesMap
    <2> QED BY <2>1, <2>2
  <1>8. OnlyPeers'
    BY <1>2, <1>4 DEF OnlyPeers, TypeOK
  <1>9. NoOwnKey'
    <2> HIDE DEF gone
    <2> QED BY <1>2 DEF NoOwnKey, TypeOK
  <1>10. ASSUME ready'[n] PROVE readyPeers'[n] = getPeerIDsExceptSelf(n)
    <2>1. CASE complete
      <3>1. listing[n] = getPeerIDsExceptSelf(n)
        BY <1>1, <2>1, FullByCount
      <3>2. kept \cup joined = getPeerIDsExceptSelf(n)
        BY <1>1, <3>1
      <3> QED BY <1>2, <3>2 DEF TypeOK
    <2>2. CASE ~complete
      <3>1. AllConditionsMet(n)'
        <4> HIDE DEF complete
        <4> QED BY <1>2, <1>10, <2>2 DEF TypeOK
      <3>2. Cardinality(readyPeers'[n]) = Cardinality(getPeerIDsExceptSelf(n))
        BY <3>1 DEF AllConditionsMet
      <3> QED BY <1>4, <3>2, FullByCount
    <2> QED BY <2>1, <2>2
  <1>11. FlagIsExact'
    <2> SUFFICES ASSUME ~RacyCheck, NEW k \in Node
                 PROVE  /\ ~setting'[k]
                        /\ ready'[k] => readyPeers'[k] = getPeerIDsExceptSelf(k)
      BY DEF FlagIsExact
    <2>1. CASE k = n
      BY <1>2, <1>10, <2>1 DEF FlagIsExact
    <2>2. CASE k # n
      BY <1>2, <2>2 DEF FlagIsExact, TypeOK
    <2> QED BY <2>1, <2>2
  <1>12. EpochStarted'
    BY <1>2 DEF EpochStarted, Running
  <1> QED BY <1>6, <1>7, <1>8, <1>9, <1>10, <1>11, <1>12

LEMMA WatchStep ==
  ASSUME IInv, NEW n \in Node, Watch(n)
  PROVE  IInv'
  <1> USE DEF IInv
  <1>1. CASE ListReady(n) \/ ListReadyFails(n)
    <2>1. TypeOK'
      <3>1. CASE ListReady(n)
        BY <3>1 DEF TypeOK, ListReady
      <3>2. CASE ListReadyFails(n)
        <4>1. faults' \in 0..MaxFaults
          BY <3>2, MaxFaultsAssumption DEF TypeOK, ListReadyFails, Fault
        <4> QED BY <3>2, <4>1 DEF TypeOK, ListReadyFails
      <3> QED BY <1>1, <3>1, <3>2
    <2>2. OnlyPeers'
      <3>1. UNCHANGED readyPeers
        BY <1>1 DEF ListReady, ListReadyFails
      <3>2. /\ consul \subseteq Node
            /\ listing \in [Node -> SUBSET Node]
        BY DEF TypeOK
      <3>3. \/ listing' = [listing EXCEPT ![n] = consul \ {n}]
            \/ listing' = [listing EXCEPT ![n] = {}]
        BY <1>1 DEF ListReady, ListReadyFails
      <3>4. \A m \in Node : listing'[m] \subseteq Node \ {m}
        <4>1. \A m \in Node : listing[m] \subseteq Node \ {m}
          BY DEF OnlyPeers, getPeerIDsExceptSelf
        <4> QED BY <3>2, <3>3, <4>1
      <3> QED BY <3>1, <3>4 DEF OnlyPeers, getPeerIDsExceptSelf
    <2>3. ReadyCountMatchesMap' /\ NoOwnKey' /\ FlagIsExact' /\ EpochStarted'
      BY <1>1 DEF ReadyCountMatchesMap, NoOwnKey, FlagIsExact, EpochStarted,
                  Running, ListReady, ListReadyFails
    <2> QED BY <2>1, <2>2, <2>3
  <1>2. CASE ApplyListing(n)
    BY <1>2, ApplyListingStep
  <1> QED BY <1>1, <1>2 DEF Watch

LEMMA HealthStep ==
  ASSUME IInv, NEW n \in Node, NEW p \in Node, Health(n, p)
  PROVE  IInv'
  <1> USE DEF IInv
  <1>1. TypeOK'
    <2>1. CASE ProbeAnswered(n, p)
      <3>1. failures' \in [Node -> [Node -> 0..(MaxFailures - 1)]]
        BY <2>1, MaxFailuresAssumption DEF TypeOK, ProbeAnswered
      <3>2. bcast' \in [Node -> BOOLEAN]
        BY <2>1 DEF TypeOK, ProbeAnswered, Rebroadcast, isECDHReady
      <3> QED BY <2>1, <3>1, <3>2 DEF TypeOK, ProbeAnswered
    <2>2. CASE ProbeUnanswered(n, p)
      <3>1. failures' \in [Node -> [Node -> 0..(MaxFailures - 1)]]
        <4>1. failures[n][p] \in 0..(MaxFailures - 1)
          BY DEF TypeOK
        <4>2. PICK v \in 0..(MaxFailures - 1) :
                failures' = [failures EXCEPT ![n][p] = v]
          BY <2>2, <4>1, MaxFailuresAssumption DEF ProbeUnanswered, Evicts
        <4> QED BY <4>2 DEF TypeOK
      <3>2. consul' \subseteq Node /\ faults' \in 0..MaxFaults
        BY <2>2, MaxFaultsAssumption DEF TypeOK, ProbeUnanswered, DeleteReady, Fault
      <3> QED BY <2>2, <3>1, <3>2 DEF TypeOK, ProbeUnanswered
    <2> QED BY <2>1, <2>2 DEF Health
  <1>2. /\ ReadyCountMatchesMap' /\ OnlyPeers' /\ NoOwnKey'
        /\ FlagIsExact' /\ EpochStarted'
    BY DEF ReadyCountMatchesMap, OnlyPeers, NoOwnKey, FlagIsExact, EpochStarted,
           Running, Health, ProbeAnswered, ProbeUnanswered
  <1> QED BY <1>1, <1>2

LEMMA FailureStep ==
  ASSUME IInv, NEW n \in Node, Failure(n)
  PROVE  IInv'
  <1> USE DEF IInv
  <1>1. CASE Stop(n)
    <2>1. TypeOK'
      BY <1>1, MaxFaultsAssumption, MaxFailuresAssumption
         DEF TypeOK, Stop, Fault, Phases
    <2>2. ReadyCountMatchesMap'
      BY <1>1, FS_EmptySet DEF ReadyCountMatchesMap, Stop, TypeOK
    <2>3. OnlyPeers' /\ NoOwnKey' /\ FlagIsExact'
      BY <1>1 DEF OnlyPeers, NoOwnKey, FlagIsExact, Stop, TypeOK
    <2>4. EpochStarted'
      BY <1>1 DEF EpochStarted, Running, Stop, TypeOK
    <2> QED BY <2>1, <2>2, <2>3, <2>4
  <1>2. CASE Resign(n) \/ LoseLink(n) \/ RestoreLink(n)
    <2>1. TypeOK'
      <3>1. CASE Resign(n)
        <4>1. consul' \subseteq Node /\ faults' \in 0..MaxFaults
          BY <3>1, MaxFaultsAssumption DEF TypeOK, Resign, DeleteReady, Fault
        <4> QED BY <3>1, <4>1 DEF TypeOK, Resign, Phases
      <3>3. CASE RestoreLink(n)
        BY <3>3 DEF TypeOK, RestoreLink
      <3>2. CASE LoseLink(n)
        <4>1. faults' \in 0..MaxFaults
          BY <3>2, MaxFaultsAssumption DEF TypeOK, LoseLink, Fault
        <4> QED BY <3>2, <4>1 DEF TypeOK, LoseLink
      <3> QED BY <1>2, <3>1, <3>2, <3>3
    <2>2. ReadyCountMatchesMap' /\ OnlyPeers' /\ FlagIsExact' /\ NoOwnKey'
      BY <1>2 DEF ReadyCountMatchesMap, OnlyPeers, FlagIsExact, NoOwnKey,
                  Resign, LoseLink, RestoreLink
    <2>3. EpochStarted'
      BY <1>2 DEF EpochStarted, Running, Resign, LoseLink, RestoreLink, TypeOK
    <2> QED BY <2>1, <2>2, <2>3
  <1> QED BY <1>1, <1>2 DEF Failure

LEMMA NextIInv == IInv /\ [Next]_vars => IInv'
  <1> SUFFICES ASSUME IInv, [Next]_vars PROVE IInv'
    OBVIOUS
  <1>1. CASE Next
    BY <1>1, BootStep, ExchangeStep, WatchStep, FailureStep, HealthStep DEF Next
  <1>2. CASE UNCHANGED vars
    BY <1>2 DEF vars, IInv, TypeOK, ReadyCountMatchesMap, OnlyPeers, NoOwnKey,
                FlagIsExact, EpochStarted, Running
  <1> QED BY <1>1, <1>2

LEMMA IInvHolds == Spec => []IInv
  BY InitIInv, NextIInv, PTL DEF Spec

-----------------------------------------------------------------------------
\* The variables of every registry stay within their types.
THEOREM RegistryTypeCorrect == Spec => []TypeOK
  <1>1. IInv => TypeOK
    BY DEF IInv
  <1> QED BY IInvHolds, <1>1, PTL

\* readyCount equals one plus the number of registered peers in every
\* reachable state, for every number of nodes and every schedule of joins,
\* departures, crashes and failed listings.
THEOREM ReadyCountIsExact == Spec => []ReadyCountMatchesMap
  <1>1. IInv => ReadyCountMatchesMap
    BY DEF IInv
  <1> QED BY IInvHolds, <1>1, PTL

\* If checkAndUpdateReadyState is not preempted, ArePeersReady implies that
\* every peer is registered and that a symmetric key is held for each peer.
THEOREM ReadyImpliesAllKeys == Spec => []ReadyNodeHasAllKeys
  <1>1. IInv => ReadyNodeHasAllKeys
    <2> SUFFICES ASSUME IInv, ~RacyCheck, NEW n \in Node, ArePeersReady(n)
                 PROVE  /\ readyPeers[n] = getPeerIDsExceptSelf(n)
                        /\ symmetricKeys(n) = getPeerIDsExceptSelf(n)
      BY DEF ReadyNodeHasAllKeys
    <2>1. readyPeers[n] = getPeerIDsExceptSelf(n)
      BY DEF IInv, FlagIsExact, ArePeersReady
    <2>2. symmetricKeys(n) \subseteq getPeerIDsExceptSelf(n)
      BY DEF IInv, NoOwnKey, symmetricKeys, getPeerIDsExceptSelf
    <2>3. Cardinality(getPeerIDsExceptSelf(n)) \in Nat
      BY FinitePeers DEF getPeerIDsExceptSelf
    <2>4. Cardinality(symmetricKeys(n)) = Cardinality(getPeerIDsExceptSelf(n))
      BY <2>1, <2>3 DEF IInv, ReadyCountMatchesMap, ArePeersReady, isECDHReady
    <2> QED BY <2>1, <2>2, <2>4, FullByCount
  <1> QED BY IInvHolds, <1>1, PTL

\* Preempted or not, a tick of WatchPeersReady leaves ready set only when
\* every peer is registered.
THEOREM TickRepairsReady == Spec => TickCorrectsReady
  <1> DEFINE Corrected(n) == watch[n] = "listed" /\ watch'[n] = "idle" /\ ready'[n]
                               => readyPeers'[n] = getPeerIDsExceptSelf(n)
  <1>1. ASSUME IInv, [Next]_vars
        PROVE  [\A n \in Node : Corrected(n)]_vars
    <2> SUFFICES ASSUME Next, NEW n \in Node, watch[n] = "listed",
                        watch'[n] = "idle", ready'[n]
                 PROVE  readyPeers'[n] = getPeerIDsExceptSelf(n)
      BY <1>1
    <2>1. ApplyListing(n) \/ Stop(n)
      <3>1. PICK k \in Node : \/ Boot(k) \/ Exchange(k) \/ Watch(k) \/ Failure(k)
                              \/ \E p \in Node : Health(k, p)
        BY DEF Next
      <3>2. watch'[n] # watch[n]
        OBVIOUS
      <3>3. ~Boot(k)
        BY <3>2 DEF Boot, Start, StartECDHExchange, PutReady, ListenHealth
      <3>4. ~Exchange(k)
        BY <3>2 DEF Exchange, TriggerECDHExchange, SetReady, ReceivePublicKey
      <3>5. ~\E p \in Node : Health(k, p)
        BY <3>2 DEF Health, ProbeAnswered, ProbeUnanswered
      <3>6. ASSUME Watch(k) PROVE ApplyListing(n)
        <4>1. \E v : watch' = [watch EXCEPT ![k] = v]
          BY <3>6 DEF Watch, ListReady, ListReadyFails, ApplyListing
        <4>2. k = n
          BY <1>1, <3>2, <4>1 DEF IInv, TypeOK
        <4>3. ~ListReady(n) /\ ~ListReadyFails(n)
          BY DEF ListReady, ListReadyFails
        <4> QED BY <3>6, <4>2, <4>3 DEF Watch
      <3>7. Failure(k) => Stop(n)
        BY <1>1, <3>2 DEF Failure, Resign, Stop, LoseLink, RestoreLink, IInv, TypeOK
      <3> QED BY <3>1, <3>3, <3>4, <3>5, <3>6, <3>7
    <2>2. CASE ApplyListing(n)
      BY <1>1, <2>2, ApplyListingStep
    <2>3. CASE Stop(n)
      BY <1>1, <2>3 DEF Stop, IInv, TypeOK
    <2> QED BY <2>1, <2>2, <2>3
  <1>2. IInv /\ [Next]_vars => [\A n \in Node : Corrected(n)]_vars
    BY <1>1
  <1> QED BY IInvHolds, <1>2, PTL DEF Spec, TickCorrectsReady
=============================================================================
