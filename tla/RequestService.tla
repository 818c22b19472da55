--------------------------- MODULE RequestService ---------------------------
(***************************************************************************)
(* What a client may rely on when it publishes a request to a stream of    *)
(* the cluster: the request is kept until there is an answer to it, there  *)
(* is an answer in the end, and it stays.  The one exception is an answer  *)
(* that the result queue does not accept, which the nodes only log.        *)
(***************************************************************************)
CONSTANT Request

VARIABLES
  submitted,   \* requests the stream has accepted
  answered,    \* requests with a result for the client to read
  unreported,  \* requests with an answer that could not be enqueued
  retired      \* requests the stream has removed as acknowledged

vars == <<submitted, answered, unreported, retired>>

Init ==
  /\ submitted = {} /\ answered = {} /\ unreported = {} /\ retired = {}

Submit(r) ==
  /\ r \notin submitted
  /\ submitted' = submitted \cup {r}
  /\ UNCHANGED <<answered, unreported, retired>>

\* An answer may settle the request in the same step; later answers to the
\* same request change nothing.
Answer(r) ==
  /\ r \in submitted \ answered
  /\ answered' = answered \cup {r}
  /\ retired' \in {retired, retired \cup {r}}
  /\ UNCHANGED <<submitted, unreported>>

FailToReport(r) ==
  /\ r \in submitted \ unreported
  /\ unreported' = unreported \cup {r}
  /\ retired' \in {retired, retired \cup {r}}
  /\ UNCHANGED <<submitted, answered>>

Retire(r) ==
  /\ r \in (answered \cup unreported) \ retired
  /\ retired' = retired \cup {r}
  /\ UNCHANGED <<submitted, answered, unreported>>

Next == \E r \in Request : Submit(r) \/ Answer(r) \/ FailToReport(r) \/ Retire(r)

Spec == Init /\ [][Next]_vars

\* The client hears of every request in the end.
EveryRequestIsAnswered ==
  \A r \in Request : r \in submitted ~> r \in answered \cup unreported
=============================================================================
