------------------------ MODULE SessionBarrierProofs ------------------------
(***************************************************************************)
(* Proofs about SessionBarrier: its type invariant, and the promise of the *)
(* barrier for direct messages, for any set of participants.               *)
(***************************************************************************)
EXTENDS SessionBarrier, TLAPS

\* The barrier topic is opened after the last direct subscription was made or
\* reported as failed.
AnsweringIsSubscribed ==
  \A p \in Node : answering[p] => direct[p] \cup skipped[p] = Node

\* A peer that has answered still answers, or has closed.
ProbedAnswers ==
  \A n \in Node : \A p \in probed[n] : answering[p] \/ phase[p] = "closed"

\* A closed session has every direct message it was sent.
ClosedHasAll == \A p \in Node : phase[p] = "closed" => gotDirect[p] = Peers(p)

\* A party starts after the last probe.
StartedHasProbed == \A n \in Node : phase[n] = "started" => probed[n] = Peers(n)

IInv ==
  /\ TypeOK
  /\ AnsweringIsSubscribed
  /\ ProbedAnswers
  /\ ClosedHasAll
  /\ StartedHasProbed

LEMMA InitIInv == Init => IInv
  BY MaxFaultsAssumption
  DEF Init, IInv, TypeOK, Phases, AnsweringIsSubscribed, ProbedAnswers,
      ClosedHasAll, StartedHasProbed

\* ListenToIncomingMessageAsync only adds subscriptions.
LEMMA ListenStep == ASSUME IInv, NEW n \in Node, Listen(n) PROVE IInv'
<1> USE MaxFaultsAssumption
    DEF IInv, TypeOK, Phases, AnsweringIsSubscribed, ProbedAnswers,
        ClosedHasAll, StartedHasProbed
<1>1. CASE SpawnBroadcast(n)
  BY <1>1 DEF SpawnBroadcast
<1>2. CASE SubscribeBroadcast(n)
  BY <1>2 DEF SubscribeBroadcast
<1>3. ASSUME NEW p \in Node, SubscribeDirect(n, p) PROVE IInv'
  BY <1>3 DEF SubscribeDirect
<1>4. ASSUME NEW p \in Node, SubscribeDirectFails(n, p) PROVE IInv'
  BY <1>4 DEF SubscribeDirectFails, Fault
<1>5. CASE SubscribeBroadcastFails(n)
  BY <1>5 DEF SubscribeBroadcastFails, Fault
<1> QED BY <1>1, <1>2, <1>3, <1>4, <1>5 DEF Listen

LEMMA WaitStep == ASSUME IInv, NEW n \in Node, WaitForPeersReady(n) PROVE IInv'
<1> USE MaxFaultsAssumption
    DEF IInv, TypeOK, Phases, AnsweringIsSubscribed, ProbedAnswers,
        ClosedHasAll, StartedHasProbed
<1>1. CASE ListenBarrier(n)
  BY <1>1 DEF ListenBarrier, Listening
<1>2. CASE ListenBarrierFails(n)
  BY <1>2 DEF ListenBarrierFails, Fault
<1>3. CASE BarrierTimesOut(n)
  BY <1>3 DEF BarrierTimesOut, Fault
<1>4. ASSUME NEW p \in Node, ProbePeer(n, p) PROVE IInv'
  BY <1>4 DEF ProbePeer, Peers
<1> QED BY <1>1, <1>2, <1>3, <1>4 DEF WaitForPeersReady

\* Only Close gives up subscriptions, and it has all direct messages.
LEMMA RunStep == ASSUME IInv, NEW n \in Node, Run(n) PROVE IInv'
<1> USE MaxFaultsAssumption
    DEF IInv, TypeOK, Phases, AnsweringIsSubscribed, ProbedAnswers,
        ClosedHasAll, StartedHasProbed
<1>1. CASE StartParty(n)
  BY <1>1 DEF StartParty, AllAnswered
<1>2. CASE Close(n)
  BY <1>2 DEF Close, PartyDone
<1>3. ASSUME NEW p \in Node, SendDirect(n, p) PROVE IInv'
  BY <1>3 DEF SendDirect, Peers
<1> QED BY <1>1, <1>2, <1>3 DEF Run

LEMMA NextIInv == IInv /\ [Next]_vars => IInv'
<1> SUFFICES ASSUME IInv, [Next]_vars PROVE IInv'
  OBVIOUS
<1>1. CASE UNCHANGED vars
  BY <1>1 DEF vars, IInv, TypeOK, AnsweringIsSubscribed, ProbedAnswers,
              ClosedHasAll, StartedHasProbed
<1>2. CASE Next
  BY <1>2, ListenStep, WaitStep, RunStep DEF Next
<1> QED BY <1>1, <1>2

LEMMA IInvHolds == Spec => []IInv
  BY InitIInv, NextIInv, PTL DEF Spec

\* Every reachable state is well typed (the fields of session in session.go).
THEOREM BarrierTypeCorrect == Spec => []TypeOK
<1>1. IInv => TypeOK
  BY DEF IInv
<1> QED BY <1>1, IInvHolds, PTL

\* When a party starts, every peer is subscribed to its direct messages and
\* stays so until it has them, for any number of participants
\* (WaitForPeersReady and Close of session.go).
THEOREM BarrierCoversDirect == Spec => []StartedMeansDirectSubscribed
<1>1. IInv => StartedMeansDirectSubscribed
  <2> SUFFICES ASSUME IInv, NEW n \in Node, phase[n] = "started",
                      NEW p \in Peers(n)
               PROVE n \in direct[p] \cup skipped[p] \cup gotDirect[p]
    BY DEF StartedMeansDirectSubscribed
  <2>1. p \in Node /\ p \in probed[n] /\ n \in Peers(p)
    BY DEF IInv, StartedHasProbed, Peers
  <2>2. CASE answering[p]
    BY <2>1, <2>2 DEF IInv, AnsweringIsSubscribed
  <2>3. CASE phase[p] = "closed"
    BY <2>1, <2>3 DEF IInv, ClosedHasAll
  <2> QED BY <2>1, <2>2, <2>3 DEF IInv, ProbedAnswers
<1> QED BY <1>1, IInvHolds, PTL
=============================================================================
