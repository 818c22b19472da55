--------------------------- MODULE SessionBarrier ---------------------------
(***************************************************************************)
(* How the sessions of one MPC run come together (pkg/mpc/session.go):     *)
(* every party subscribes to the broadcast topic and to the direct topics  *)
(* of its peers, opens its barrier topic, asks every peer's barrier topic  *)
(* for an answer (WaitForPeersReady) and only then starts its TSS party.   *)
(*                                                                         *)
(* Direct messages are NATS requests that are repeated until answered;     *)
(* broadcasts are core NATS publications, which a node that is not yet     *)
(* subscribed never sees.  The rounds of the TSS library are abstracted to *)
(* one broadcast and one direct message from every party to every other.   *)
(*                                                                         *)
(* An operator whose name begins with Mut is a plausible mistake in the    *)
(* definition that follows it: nothing uses it, and putting it in the      *)
(* place of that definition shows that a property notices.                 *)
(***************************************************************************)
EXTENDS Integers, FiniteSets

CONSTANTS
  Node,       \* the participants of the session
  MaxFaults   \* bound: failing subscriptions and barrier timeouts

ASSUME NodeAssumption == IsFiniteSet(Node)
ASSUME MaxFaultsAssumption == MaxFaults \in Nat

VARIABLES
  phase,      \* phase[n]: how far the session of n has come, see Phases
  broadcast,  \* broadcast[n]: the broadcast subscription, made by a goroutine
  direct,     \* direct[n]: senders whose direct topic n is subscribed to
  skipped,    \* skipped[n]: senders for whom that subscription failed
  answering,  \* answering[n]: n is subscribed to its own barrier topic
  probed,     \* probed[n]: peers that have answered n
  gotDirect,  \* gotDirect[n]: peers whose direct message has arrived
  gotBcast,   \* gotBcast[n]: peers whose broadcast has arrived
  faults      \* bounded by MaxFaults

vars == <<phase, broadcast, direct, skipped, answering, probed, gotDirect,
          gotBcast, faults>>

Phases == {"created", "subscribing", "barrier", "started", "failed", "closed"}

MutPeers(n) == Node

Peers(n) == Node \ {n}

Fault == faults < MaxFaults /\ faults' = faults + 1

Init ==
  /\ phase = [n \in Node |-> "created"]
  /\ broadcast = [n \in Node |-> "none"]
  /\ direct = [n \in Node |-> {}]
  /\ skipped = [n \in Node |-> {}]
  /\ answering = [n \in Node |-> FALSE]
  /\ probed = [n \in Node |-> {}]
  /\ gotDirect = [n \in Node |-> {}]
  /\ gotBcast = [n \in Node |-> {}]
  /\ faults = 0

-----------------------------------------------------------------------------
(* ListenToIncomingMessageAsync.                                           *)

\* subscribeBroadcastAsync only spawns a goroutine.
SpawnBroadcast(n) ==
  /\ phase[n] = "created"
  /\ phase' = [phase EXCEPT ![n] = "subscribing"]
  /\ broadcast' = [broadcast EXCEPT ![n] = "spawned"]
  /\ UNCHANGED <<direct, skipped, answering, probed, gotDirect, gotBcast, faults>>

\* The goroutine subscribes, whenever it is scheduled.
SubscribeBroadcast(n) ==
  /\ broadcast[n] = "spawned"
  /\ broadcast' = [broadcast EXCEPT ![n] = "active"]
  /\ UNCHANGED <<phase, direct, skipped, answering, probed, gotDirect, gotBcast,
                 faults>>

\* Its Subscribe fails: an error on ErrCh, which the barrier does not ask for.
SubscribeBroadcastFails(n) ==
  /\ broadcast[n] = "spawned"
  /\ Fault
  /\ broadcast' = [broadcast EXCEPT ![n] = "failed"]
  /\ UNCHANGED <<phase, direct, skipped, answering, probed, gotDirect, gotBcast>>

\* subscribeDirectTopicAsync: Listen subscribes and flushes.
SubscribeDirect(n, p) ==
  /\ phase[n] = "subscribing" /\ p \notin direct[n] \cup skipped[n]
  /\ direct' = [direct EXCEPT ![n] = @ \cup {p}]
  /\ UNCHANGED <<phase, broadcast, skipped, answering, probed, gotDirect,
                 gotBcast, faults>>

\* A failing Listen is reported on ErrCh and the loop goes on.
SubscribeDirectFails(n, p) ==
  /\ phase[n] = "subscribing" /\ p \notin direct[n] \cup skipped[n]
  /\ Fault
  /\ skipped' = [skipped EXCEPT ![n] = @ \cup {p}]
  /\ UNCHANGED <<phase, broadcast, direct, answering, probed, gotDirect, gotBcast>>

-----------------------------------------------------------------------------
(* WaitForPeersReady.                                                      *)

MutListening(n) == TRUE

\* ListenToIncomingMessageAsync has been through the loop over all parties.
Listening(n) == direct[n] \cup skipped[n] = Node

ListenBarrier(n) ==
  /\ phase[n] = "subscribing" /\ Listening(n)
  /\ phase' = [phase EXCEPT ![n] = "barrier"]
  /\ answering' = [answering EXCEPT ![n] = TRUE]
  /\ UNCHANGED <<broadcast, direct, skipped, probed, gotDirect, gotBcast, faults>>

ListenBarrierFails(n) ==
  /\ phase[n] = "subscribing" /\ Listening(n)
  /\ Fault
  /\ phase' = [phase EXCEPT ![n] = "failed"]
  /\ UNCHANGED <<broadcast, direct, skipped, answering, probed, gotDirect, gotBcast>>

\* The request to the peer's barrier topic is answered.
ProbePeer(n, p) ==
  /\ phase[n] = "barrier" /\ p \in Peers(n) \ probed[n] /\ answering[p]
  /\ probed' = [probed EXCEPT ![n] = @ \cup {p}]
  /\ UNCHANGED <<phase, broadcast, direct, skipped, answering, gotDirect,
                 gotBcast, faults>>

MutAllAnswered(n) == probed[n] = Node

\* The loop over the peers leaves out the node itself.
AllAnswered(n) == probed[n] = Peers(n)

\* PeerReadyTimeout: the caller reports the error; nobody closes the session.
BarrierTimesOut(n) ==
  /\ phase[n] = "barrier" /\ ~AllAnswered(n)
  /\ Fault
  /\ phase' = [phase EXCEPT ![n] = "failed"]
  /\ UNCHANGED <<broadcast, direct, skipped, answering, probed, gotDirect, gotBcast>>

-----------------------------------------------------------------------------
(* The TSS party.                                                          *)

\* The party starts and broadcasts: handleTssMessage publishes once.
StartParty(n) ==
  /\ phase[n] = "barrier" /\ AllAnswered(n)
  /\ phase' = [phase EXCEPT ![n] = "started"]
  /\ gotBcast' = [p \in Node |->
       IF p # n /\ broadcast[p] = "active" THEN gotBcast[p] \cup {n} ELSE gotBcast[p]]
  /\ UNCHANGED <<broadcast, direct, skipped, answering, probed, gotDirect, faults>>

\* handleTssMessage, SendToOther: answered by a subscribed peer, else tried
\* again.
SendDirect(n, p) ==
  /\ phase[n] = "started" /\ p \in Peers(n)
  /\ n \in direct[p] \ gotDirect[p]
  /\ gotDirect' = [gotDirect EXCEPT ![p] = @ \cup {n}]
  /\ UNCHANGED <<phase, broadcast, direct, skipped, answering, probed, gotBcast,
                 faults>>

\* The party has everything it needs and its own messages have been sent
\* (external).
PartyDone(n) ==
  /\ gotDirect[n] = Peers(n) /\ gotBcast[n] = Peers(n)
  /\ \A p \in Peers(n) : n \in gotDirect[p]

\* Close unsubscribes.
Close(n) ==
  /\ phase[n] = "started" /\ PartyDone(n)
  /\ phase' = [phase EXCEPT ![n] = "closed"]
  /\ broadcast' = [broadcast EXCEPT ![n] = "none"]
  /\ direct' = [direct EXCEPT ![n] = {}]
  /\ answering' = [answering EXCEPT ![n] = FALSE]
  /\ UNCHANGED <<skipped, probed, gotDirect, gotBcast, faults>>

-----------------------------------------------------------------------------
Listen(n) ==
  \/ SpawnBroadcast(n) \/ SubscribeBroadcast(n) \/ SubscribeBroadcastFails(n)
  \/ \E p \in Node : SubscribeDirect(n, p) \/ SubscribeDirectFails(n, p)

WaitForPeersReady(n) ==
  \/ ListenBarrier(n) \/ ListenBarrierFails(n) \/ BarrierTimesOut(n)
  \/ \E p \in Node : ProbePeer(n, p)

Run(n) == StartParty(n) \/ Close(n) \/ \E p \in Node : SendDirect(n, p)

Next == \E n \in Node : Listen(n) \/ WaitForPeersReady(n) \/ Run(n)

Spec == Init /\ [][Next]_vars

\* Goroutines are scheduled and requests to a subscribed peer are answered.
Fairness ==
  \A n \in Node :
    /\ WF_vars(SpawnBroadcast(n)) /\ WF_vars(SubscribeBroadcast(n))
    /\ WF_vars(ListenBarrier(n)) /\ WF_vars(StartParty(n)) /\ WF_vars(Close(n))
    /\ \A p \in Node :
         WF_vars(SubscribeDirect(n, p)) /\ WF_vars(ProbePeer(n, p)) /\ WF_vars(SendDirect(n, p))

FairSpec == Spec /\ Fairness

-----------------------------------------------------------------------------
(* Properties.                                                             *)

\* Every variable has the type the Go declarations give it, and nobody waits
\* for or hears from itself.
TypeOK ==
  /\ phase \in [Node -> Phases]
  /\ broadcast \in [Node -> {"none", "spawned", "active", "failed"}]
  /\ direct \in [Node -> SUBSET Node]
  /\ skipped \in [Node -> SUBSET Node]
  /\ answering \in [Node -> BOOLEAN]
  /\ probed \in [Node -> SUBSET Node]
  /\ gotDirect \in [Node -> SUBSET Node]
  /\ gotBcast \in [Node -> SUBSET Node]
  /\ faults \in 0..MaxFaults
  /\ \A n \in Node : n \notin probed[n] \cup gotDirect[n] \cup gotBcast[n]

\* The barrier keeps its promise for direct messages: when a party starts,
\* every peer holds the direct subscription for it and keeps it until the
\* peer has that party's message, unless Listen failed there.  It takes the
\* barrier topic of every peer to be opened last and closed last.
StartedMeansDirectSubscribed ==
  \A n \in Node : phase[n] = "started" =>
    \A p \in Peers(n) : n \in direct[p] \cup skipped[p] \cup gotDirect[p]

\* The comments say that the barrier verifies that all peers have their
\* subscriptions active before the protocol starts.  A subscription that
\* was refused is left out, as it is reported elsewhere.
\* The code does not keep this: see "Promises the code does not keep" in the README.
StartedMeansBroadcastSubscribed ==
  \A n \in Node : phase[n] = "started" =>
    \A p \in Peers(n) : broadcast[p] \in {"active", "failed"} \/ phase[p] = "closed"

Missed(p) == \E n \in Peers(p) : phase[n] \in {"started", "closed"} /\ n \notin gotBcast[p]

\* Nobody waits for somebody who has left: without failing subscriptions and
\* timeouts every session runs to its end, or some broadcast was published
\* before its receiver was subscribed, and then no session can end.
SessionsFinish ==
  [](faults = 0) =>
    <>[](\A n \in Node : phase[n] = "closed") \/ <>[](\E p \in Node : Missed(p))
=============================================================================
