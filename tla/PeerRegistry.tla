---------------------------- MODULE PeerRegistry ----------------------------
(***************************************************************************)
(* The peer registry of an MPC node (pkg/mpc/registry.go) together with    *)
(* the ECDH key exchange it drives (pkg/mpc/key_exchange_session.go) and   *)
(* the table of symmetric keys (pkg/identity/identity.go).                 *)
(*                                                                         *)
(* Every node runs three activities: WatchPeersReady lists the Consul      *)
(* directory ready/ once a second and connects or disconnects peers;       *)
(* checkPeersHealth probes every listed peer and deletes the Consul entry  *)
(* of one that does not answer; the NATS dispatcher delivers the public    *)
(* keys that peers broadcast.  A key pair is generated per process start,  *)
(* so a public key is identified by its owner and the owner's epoch.       *)
(*                                                                         *)
(* An operator whose name begins with Mut is a plausible mistake in the    *)
(* definition that follows it: nothing uses it, and putting it in the      *)
(* place of that definition shows that a property notices.                 *)
(***************************************************************************)
EXTENDS Integers, FiniteSets

CONSTANTS
  Node,          \* the configured nodes (the peers/ directory of Consul)
  Threshold,     \* mpc_threshold
  MaxFailures,   \* consecutive failed probes before a peer is evicted
  MaxFaults,     \* bound: process ends, failing calls to Consul and losses
                 \* of the NATS connection, taken together
  RacyCheck      \* TRUE: the NATS goroutine may be preempted between the
                 \* test and the assignment of checkAndUpdateReadyState

ASSUME NodeAssumption == IsFiniteSet(Node)
ASSUME ThresholdAssumption == Threshold \in Nat \ {0}
ASSUME MaxFailuresAssumption == MaxFailures \in Nat \ {0}
ASSUME MaxFaultsAssumption == MaxFaults \in Nat
ASSUME RacyCheckAssumption == RacyCheck \in BOOLEAN

VARIABLES
  consul,     \* nodes with an entry under ready/
  phase,      \* how far the process of a node has come, see Phases
  link,       \* link[n]: n is connected to NATS
  epoch,      \* epoch[n]: how many processes of n have been started
  keyPair,    \* keyPair[n]: the process of n has generated its ECDH key pair
  wire,       \* public keys on their way to a subscriber
  readyPeers, \* readyPeers[n]: the peers that n's readyMap maps to true
  readyCount, \* readyCount[n]: the atomic counter, it includes n itself
  ready,      \* ready[n]: n's flag "all peers are ready"
  symKey,     \* symKey[n][p]: epoch of p's public key behind n's symmetric
              \* key for p, 0 when n has none
  watch,      \* watch[n] = "listed": WatchPeersReady holds a listing
  listing,    \* listing[n]: the peers in that listing
  failures,   \* failures[n][p]: consecutive probes without responders
  bcast,      \* bcast[n]: a triggerECDHExchange goroutine of n is runnable
  setting,    \* setting[n]: the NATS goroutine found all conditions met and
              \* has yet to assign ready
  faults      \* how many faults have happened, bounded by MaxFaults

vars == <<consul, phase, link, epoch, keyPair, wire, readyPeers, readyCount,
          ready, symKey, watch, listing, failures, bcast, setting,
          faults>>

(***************************************************************************)
(* off: no process; booting: NewNode has started WatchPeersReady;          *)
(* exchanging: startECDHExchange is done; listed: the Consul entry has     *)
(* been put; serving: the health topic is subscribed; resigned: Resign has *)
(* been called on shutdown, NATS is not yet drained.                       *)
(***************************************************************************)
Phases == {"off", "booting", "exchanging", "listed", "serving", "resigned"}

Running(n) == phase[n] # "off"

getPeerIDsExceptSelf(n) == Node \ {n}

Fault == faults < MaxFaults /\ faults' = faults + 1

Message == [to : Node, from : Node, epoch : Nat \ {0}]

-----------------------------------------------------------------------------
(* The predicates of the registry.                                         *)

symmetricKeys(n) == {p \in Node : symKey[n][p] # 0}

\* CheckSymmetricKeyComplete compares the number of keys with a count; it
\* does not ask whose keys they are.
isECDHReady(n) == Cardinality(symmetricKeys(n)) = readyCount[n] - 1

ArePeersReady(n) == ready[n] /\ isECDHReady(n)

AreMajorityReady(n) == readyCount[n] >= Threshold + 1 /\ isECDHReady(n)

\* The condition under which checkAndUpdateReadyState marks the node ready.
AllConditionsMet(n) ==
  /\ Cardinality(readyPeers[n]) = Cardinality(getPeerIDsExceptSelf(n))
  /\ isECDHReady(n)

-----------------------------------------------------------------------------
Init ==
  /\ consul = {}
  /\ phase = [n \in Node |-> "off"]
  /\ link = [n \in Node |-> TRUE]
  /\ epoch = [n \in Node |-> 0]
  /\ keyPair = [n \in Node |-> FALSE]
  /\ wire = {}
  /\ readyPeers = [n \in Node |-> {}]
  /\ readyCount = [n \in Node |-> 1]
  /\ ready = [n \in Node |-> FALSE]
  /\ symKey = [n \in Node |-> [p \in Node |-> 0]]
  /\ watch = [n \in Node |-> "idle"]
  /\ listing = [n \in Node |-> {}]
  /\ failures = [n \in Node |-> [p \in Node |-> 0]]
  /\ bcast = [n \in Node |-> FALSE]
  /\ setting = [n \in Node |-> FALSE]
  /\ faults = 0

\* NewRegistry with an empty readyMap, readyCount 1 and no symmetric keys,
\* and NewNode starting WatchPeersReady.
Start(n) ==
  /\ phase[n] = "off"
  /\ phase' = [phase EXCEPT ![n] = "booting"]
  /\ epoch' = [epoch EXCEPT ![n] = @ + 1]
  /\ readyPeers' = [readyPeers EXCEPT ![n] = {}]
  /\ readyCount' = [readyCount EXCEPT ![n] = 1]
  /\ ready' = [ready EXCEPT ![n] = FALSE]
  /\ symKey' = [symKey EXCEPT ![n] = [p \in Node |-> 0]]
  /\ UNCHANGED <<consul, link, keyPair, wire, watch, listing, failures, bcast,
                 setting, faults>>

\* Subscribers of the topic ecdh:exchange that a publication of p reaches.
Listeners(p) ==
  IF link[p] THEN {n \in Node \ {p} : keyPair[n] /\ link[n]} ELSE {}

\* BroadcastPublicKey: core NATS, at most once, no copy for absent nodes.
BroadcastPublicKey(p) ==
  wire' = wire \cup {[to |-> n, from |-> p, epoch |-> epoch[p]] : n \in Listeners(p)}

\* startECDHExchange, first step of Ready: generate the key pair, subscribe,
\* broadcast.
StartECDHExchange(n) ==
  /\ phase[n] = "booting"
  /\ phase' = [phase EXCEPT ![n] = "exchanging"]
  /\ keyPair' = [keyPair EXCEPT ![n] = TRUE]
  /\ BroadcastPublicKey(n)
  /\ UNCHANGED <<consul, link, epoch, readyPeers, readyCount, ready, symKey,
                 watch, listing, failures, bcast, setting, faults>>

\* Ready, second step: put ready/<node>.
PutReady(n) ==
  /\ phase[n] = "exchanging"
  /\ phase' = [phase EXCEPT ![n] = "listed"]
  /\ consul' = consul \cup {n}
  /\ UNCHANGED <<link, epoch, keyPair, wire, readyPeers, readyCount, ready,
                 symKey, watch, listing, failures, bcast, setting,
                 faults>>

\* Ready, third step: subscribe to the health topic.
ListenHealth(n) ==
  /\ phase[n] = "listed"
  /\ phase' = [phase EXCEPT ![n] = "serving"]
  /\ UNCHANGED <<consul, link, epoch, keyPair, wire, readyPeers, readyCount,
                 ready, symKey, watch, listing, failures, bcast, setting,
                 faults>>

\* triggerECDHExchange runs in a goroutine of its own; without a key pair
\* BroadcastPublicKey returns an error that is only logged.
TriggerECDHExchange(n) ==
  /\ bcast[n]
  /\ bcast' = [bcast EXCEPT ![n] = FALSE]
  /\ IF keyPair[n] THEN BroadcastPublicKey(n) ELSE UNCHANGED wire
  /\ UNCHANGED <<consul, phase, link, epoch, keyPair, readyPeers, readyCount,
                 ready, symKey, watch, listing, failures, setting,
                 faults>>

\* The subscription handler of ListenKeyExchange: store the derived key and,
\* when the number of keys is the number of peers, run
\* checkAndUpdateReadyState in the NATS goroutine.
ReceivePublicKey(m) ==
  LET n == m.to
  IN /\ m \in wire
     /\ \A k \in wire : k.to = n /\ k.from = m.from => m.epoch <= k.epoch
     /\ ~setting[n]
     /\ wire' = wire \ {m}
     /\ symKey' = [symKey EXCEPT ![n][m.from] = m.epoch]
     /\ UNCHANGED <<consul, phase, link, epoch, keyPair, readyPeers, readyCount,
                    watch, listing, failures, bcast, faults>>
     /\ LET met == /\ Cardinality(symmetricKeys(n)') = Cardinality(getPeerIDsExceptSelf(n))
                   /\ AllConditionsMet(n)'
        IN /\ setting' = [setting EXCEPT ![n] = met /\ RacyCheck]
           /\ ready' = [ready EXCEPT ![n] = @ \/ (met /\ ~RacyCheck)]

\* The assignment of checkAndUpdateReadyState, when it comes late.
SetReady(n) ==
  /\ setting[n]
  /\ setting' = [setting EXCEPT ![n] = FALSE]
  /\ ready' = [ready EXCEPT ![n] = TRUE]
  /\ UNCHANGED <<consul, phase, link, epoch, keyPair, wire, readyPeers,
                 readyCount, symKey, watch, listing, failures, bcast,
                 faults>>

-----------------------------------------------------------------------------
(* WatchPeersReady: one tick lists ready/ and then applies the listing.    *)

ListReady(n) ==
  /\ Running(n) /\ watch[n] = "idle"
  /\ watch' = [watch EXCEPT ![n] = "listed"]
  /\ listing' = [listing EXCEPT ![n] = consul \ {n}]
  /\ UNCHANGED <<consul, phase, link, epoch, keyPair, wire, readyPeers,
                 readyCount, ready, symKey, failures, bcast, setting,
                 faults>>

\* A failed List is logged and its nil result is used as an empty listing.
ListReadyFails(n) ==
  /\ Running(n) /\ watch[n] = "idle"
  /\ Fault
  /\ watch' = [watch EXCEPT ![n] = "listed"]
  /\ listing' = [listing EXCEPT ![n] = {}]
  /\ UNCHANGED <<consul, phase, link, epoch, keyPair, wire, readyPeers,
                 readyCount, ready, symKey, failures, bcast, setting>>

Complete(n) == Cardinality(listing[n]) = Cardinality(getPeerIDsExceptSelf(n))

MutGone(n) == {}

\* The peers that are disconnected: only an incomplete listing is searched for
\* peers that it no longer contains.
Gone(n) == IF Complete(n) THEN {} ELSE readyPeers[n] \ listing[n]

MutJoined(n) == listing[n]

\* The peers that registerReadyPairs finds new.
Joined(n) == listing[n] \ (readyPeers[n] \ Gone(n))

MutStaysReady(n) == ready[n]

\* An incomplete listing clears the flag.
StaysReady(n) == Complete(n) /\ ready[n]

\* Peers that are gone lose their key; then registerReadyPairs registers the
\* listed ones and runs checkAndUpdateReadyState.
ApplyListing(n) ==
  /\ Running(n) /\ watch[n] = "listed"
  /\ watch' = [watch EXCEPT ![n] = "idle"]
  /\ listing' = [listing EXCEPT ![n] = {}]
  /\ readyPeers' = [readyPeers EXCEPT ![n] = (@ \ Gone(n)) \cup Joined(n)]
  /\ readyCount' = [readyCount EXCEPT
                      ![n] = @ - Cardinality(Gone(n)) + Cardinality(Joined(n))]
  /\ symKey' = [symKey EXCEPT
                  ![n] = [p \in Node |-> IF p \in Gone(n) THEN 0 ELSE symKey[n][p]]]
  /\ bcast' = [bcast EXCEPT ![n] = @ \/ Joined(n) # {}]
  /\ ready' = [ready EXCEPT ![n] = StaysReady(n) \/ AllConditionsMet(n)']
  /\ UNCHANGED <<consul, phase, link, epoch, keyPair, wire, failures,
                 setting, faults>>

-----------------------------------------------------------------------------
(* checkPeersHealth: probe the peers that are listed, one by one.          *)

Answers(p) == phase[p] \in {"serving", "resigned"} /\ link[p]

MutRebroadcast(n) == FALSE

\* The health handler of a peer broadcasts again when the prober n reports
\* that it is not ECDH ready.
Rebroadcast(n) == link[n] /\ ~isECDHReady(n)

MutEvicts(c) == c > MaxFailures

\* c consecutive probes without responders evict a peer.
Evicts(c) == c >= MaxFailures

\* SendToOtherWithRetry succeeds, or fails with an error other than "no
\* responders" because n itself has lost NATS.
ProbeAnswered(n, p) ==
  /\ Running(n) /\ p \in consul \ {n}
  /\ link[n] => Answers(p)
  /\ failures' = [failures EXCEPT ![n][p] = 0]
  /\ bcast' = [bcast EXCEPT ![p] = @ \/ Rebroadcast(n)]
  /\ UNCHANGED <<consul, phase, link, epoch, keyPair, wire, readyPeers,
                 readyCount, ready, symKey, watch, listing, setting, faults>>

\* Delete removes ready/<node>; its error is only logged.
DeleteReady(p) ==
  \/ consul' = consul \ {p} /\ UNCHANGED faults
  \/ Fault /\ UNCHANGED consul

\* "no responders": after MaxFailures in a row the Consul entry is deleted.
ProbeUnanswered(n, p) ==
  /\ Running(n) /\ p \in consul \ {n}
  /\ link[n] /\ ~Answers(p)
  /\ IF Evicts(failures[n][p] + 1)
     THEN /\ DeleteReady(p)
          /\ failures' = [failures EXCEPT ![n][p] = 0]
     ELSE /\ failures' = [failures EXCEPT ![n][p] = @ + 1]
          /\ UNCHANGED <<consul, faults>>
  /\ UNCHANGED <<phase, link, epoch, keyPair, wire, readyPeers, readyCount,
                 ready, symKey, watch, listing, bcast, setting>>

-----------------------------------------------------------------------------
(* The shutdown of a node and the failures of its environment.             *)

Resign(n) ==
  /\ phase[n] \in {"listed", "serving"}
  /\ phase' = [phase EXCEPT ![n] = "resigned"]
  /\ DeleteReady(n)
  /\ UNCHANGED <<link, epoch, keyPair, wire, readyPeers, readyCount, ready,
                 symKey, watch, listing, failures, bcast, setting>>

\* The process ends: after Resign, or by a crash that leaves its Consul
\* entry behind.  Everything the process held in memory is gone.
Stop(n) ==
  /\ Running(n)
  /\ Fault
  /\ phase' = [phase EXCEPT ![n] = "off"]
  /\ keyPair' = [keyPair EXCEPT ![n] = FALSE]
  /\ wire' = {m \in wire : m.to # n}
  /\ readyPeers' = [readyPeers EXCEPT ![n] = {}]
  /\ readyCount' = [readyCount EXCEPT ![n] = 1]
  /\ ready' = [ready EXCEPT ![n] = FALSE]
  /\ symKey' = [symKey EXCEPT ![n] = [p \in Node |-> 0]]
  /\ watch' = [watch EXCEPT ![n] = "idle"]
  /\ listing' = [listing EXCEPT ![n] = {}]
  /\ failures' = [failures EXCEPT ![n] = [p \in Node |-> 0]]
  /\ bcast' = [bcast EXCEPT ![n] = FALSE]
  /\ setting' = [setting EXCEPT ![n] = FALSE]
  /\ link' = [link EXCEPT ![n] = TRUE]
  /\ UNCHANGED <<consul, epoch>>

\* A running node loses NATS: what was under way to it is lost.
LoseLink(n) ==
  /\ Running(n) /\ link[n]
  /\ Fault
  /\ link' = [link EXCEPT ![n] = FALSE]
  /\ wire' = {m \in wire : m.to # n}
  /\ UNCHANGED <<consul, phase, epoch, keyPair, readyPeers, readyCount, ready,
                 symKey, watch, listing, failures, bcast, setting>>

\* The NATS client reconnects and restores the subscriptions.
RestoreLink(n) ==
  /\ Running(n) /\ ~link[n]
  /\ link' = [link EXCEPT ![n] = TRUE]
  /\ UNCHANGED <<consul, phase, epoch, keyPair, wire, readyPeers, readyCount,
                 ready, symKey, watch, listing, failures, bcast, setting,
                 faults>>

-----------------------------------------------------------------------------
Boot(n) == Start(n) \/ StartECDHExchange(n) \/ PutReady(n) \/ ListenHealth(n)

Exchange(n) ==
  \/ TriggerECDHExchange(n)
  \/ SetReady(n)
  \/ \E m \in {k \in wire : k.to = n} : ReceivePublicKey(m)

Watch(n) == ListReady(n) \/ ListReadyFails(n) \/ ApplyListing(n)

Health(n, p) == ProbeAnswered(n, p) \/ ProbeUnanswered(n, p)

Failure(n) == Resign(n) \/ Stop(n) \/ LoseLink(n) \/ RestoreLink(n)

Next ==
  \E n \in Node : Boot(n) \/ Exchange(n) \/ Watch(n) \/ Failure(n)
                  \/ \E p \in Node : Health(n, p)

Spec == Init /\ [][Next]_vars

(***************************************************************************)
(* The loops of a running node keep turning and NATS delivers what it has  *)
(* accepted; nobody promises that a node is started, stays up, or gets its *)
(* connection back.                                                        *)
(***************************************************************************)
Fairness ==
  \A n \in Node :
    /\ WF_vars(ListReady(n)) /\ WF_vars(ApplyListing(n))
    /\ WF_vars(TriggerECDHExchange(n)) /\ WF_vars(SetReady(n))
    /\ WF_vars(\E m \in {k \in wire : k.to = n} : ReceivePublicKey(m))
    /\ \A p \in Node : WF_vars(Health(n, p))

FairSpec == Spec /\ Fairness

-----------------------------------------------------------------------------
(* Properties.                                                             *)

\* Every variable has the type the Go declarations give it.
TypeOK ==
  /\ consul \subseteq Node
  /\ phase \in [Node -> Phases]
  /\ link \in [Node -> BOOLEAN]
  /\ epoch \in [Node -> Nat]
  /\ keyPair \in [Node -> BOOLEAN]
  /\ wire \subseteq Message
  /\ readyPeers \in [Node -> SUBSET Node]
  /\ readyCount \in [Node -> Int]
  /\ ready \in [Node -> BOOLEAN]
  /\ symKey \in [Node -> [Node -> Nat]]
  /\ watch \in [Node -> {"idle", "listed"}]
  /\ listing \in [Node -> SUBSET Node]
  /\ failures \in [Node -> [Node -> 0..(MaxFailures - 1)]]
  /\ bcast \in [Node -> BOOLEAN]
  /\ setting \in [Node -> BOOLEAN]
  /\ faults \in 0..MaxFaults

\* The atomic counter readyCount, which GetReadyPeersCount hands to the
\* session constructors and isECDHReady subtracts one from, never drifts from
\* the readyMap it is kept beside (registry.go, registerReadyPairs and the
\* disconnect branch of WatchPeersReady), whatever joins, leaves and failed
\* listings happen.
ReadyCountMatchesMap ==
  \A n \in Node : readyCount[n] = 1 + Cardinality(readyPeers[n])

\* ArePeersReady, the guard of key generation, lets a node through only when
\* it has registered every peer and holds a symmetric key for each one of
\* them, although isECDHReady only compares two counts.  It is stated for
\* executions in which checkAndUpdateReadyState is not preempted.
ReadyNodeHasAllKeys ==
  ~RacyCheck =>
    \A n \in Node : ArePeersReady(n) =>
      /\ readyPeers[n] = getPeerIDsExceptSelf(n)
      /\ symmetricKeys(n) = getPeerIDsExceptSelf(n)

\* The comment of the field says "ready is true when all peers are ready".
\* The code does not keep this: see "Promises the code does not keep" in the README.
ReadyMeansAllPeersReady ==
  \A n \in Node : ready[n] => readyPeers[n] = getPeerIDsExceptSelf(n)

\* The comment of AreMajorityReady promises that symmetric keys are fully
\* established among all ready peers.
\* The code does not keep this: see "Promises the code does not keep" in the README.
MajorityReadyMeansKeysEstablished ==
  \A n \in Node : AreMajorityReady(n) => readyPeers[n] \subseteq symmetricKeys(n)

\* A flag that the preempted checkAndUpdateReadyState left set by mistake
\* does not survive the next tick of WatchPeersReady: after a tick the node
\* is marked ready only if every peer is registered.
TickCorrectsReady ==
  [][\A n \in Node :
       watch[n] = "listed" /\ watch'[n] = "idle" /\ ready'[n]
         => readyPeers'[n] = getPeerIDsExceptSelf(n)]_vars

Stable == consul = Node /\ \A n \in Node : phase[n] = "serving" /\ link[n]

\* Once every node stays up, connected and listed in Consul, all of them
\* become ready and stay so, whatever crashes, failed listings, lost
\* broadcasts and evictions came before: the re-broadcast that the health
\* handler triggers (registry.go, Ready) repairs every missing key.
StableClusterBecomesReady ==
  <>[]Stable => <>[](\A n \in Node : ArePeersReady(n))

\* A peer that died is disconnected by every node that stays up and connected,
\* although nobody deletes its Consul entry on its behalf except the
\* failure counter of checkPeersHealth.
DeadPeerIsDisconnected ==
  \A n, p \in Node :
    <>[](phase[p] = "off" /\ phase[n] = "serving" /\ link[n])
      => <>[](p \notin readyPeers[n])
=============================================================================
