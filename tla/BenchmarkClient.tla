--------------------------- MODULE BenchmarkClient ---------------------------
(***************************************************************************)
(* One run of `mpcium-cli benchmark' (cmd/mpcium-cli/benchmark.go) over    *)
(* the client library (pkg/client/client.go): the main goroutine that      *)
(* submits operations one after the other, the callback that completes     *)
(* them as results arrive, and the WaitGroup that joins the two.           *)
(*                                                                         *)
(* The loops of keygen, signing and resharing are copies of each other.    *)
(* They differ in how a result finds its operation: by a unique ID, or,    *)
(* for resharing, as the first one of the wallet that is not complete.     *)
(*                                                                         *)
(* The cluster and JetStream are external.  A request that is published    *)
(* may be answered, once; a result may be delivered again.  A publish that *)
(* reports an error may have been stored all the same.                     *)
(***************************************************************************)
EXTENDS Integers, FiniteSets, Sequences, FiniteSetsExt

CONSTANTS
  NumOps,    \* the operations of the run
  MaxFaults  \* bound: failing calls and repeated deliveries, together

ASSUME NumOpsAssumption == NumOps \in Nat \ {0}
ASSUME BoundAssumption == MaxFaults \in Nat

VARIABLES
  kind,      \* which benchmark it is
  pc,        \* how far the main goroutine has come
  results,   \* the operations so far, each an Operation
  wg,        \* the counter of the WaitGroup
  stored,    \* operations whose request has reached the cluster
  refused,   \* operations whose request the client has reported as failed
  answer,    \* answer[op]: the result the cluster has sent
  queue,     \* operations whose result is in the queue
  report,    \* what calculateBenchmarkResult has counted
  faults     \* bounded by MaxFaults

clusterVars == <<stored, answer>>
vars == <<kind, pc, results, wg, refused, queue, report, faults, clusterVars>>

Kinds == {"keygen", "sign", "reshare"}

Op == 1..NumOps

\* The result of an operation of an earlier run, of the same wallet.
Earlier == 0

\* OperationResult, without the times and the texts.
Operation == [Completed : BOOLEAN, Success : BOOLEAN]

Fault == faults < MaxFaults /\ faults' = faults + 1

\* The consumer is durable: NewMessageQueue finds what an earlier run with the
\* same client ID has not read.
NewMessageQueue == {{}, {Earlier}}

Init ==
  /\ kind \in Kinds
  /\ pc = "start"
  /\ results = <<>>
  /\ wg = 0
  /\ stored = {}
  /\ refused = {}
  /\ answer = [op \in {Earlier} \cup Op |-> IF op = Earlier THEN "success" ELSE "none"]
  /\ queue \in NewMessageQueue
  /\ report = [successful |-> 0, failed |-> 0]
  /\ faults = 0

-----------------------------------------------------------------------------
(* The main goroutine.                                                     *)

\* createMPCClient and the call that sets up the listener: a failure of either
\* ends the command.
createMPCClient ==
  /\ pc = "start"
  /\ \/ pc' = "loop" /\ UNCHANGED faults
     \/ pc' = "failed" /\ Fault
  /\ UNCHANGED <<kind, results, wg, refused, queue, report, clusterVars>>

\* The operation is in results, under the lock, before it is counted.
AppendResult ==
  /\ pc = "loop" /\ Len(results) < NumOps
  /\ results' = Append(results, [Completed |-> FALSE, Success |-> FALSE])
  /\ pc' = "appended"
  /\ UNCHANGED <<kind, wg, refused, queue, report, faults, clusterVars>>

MutAddOperation ==
  /\ pc = "appended"
  /\ wg' = wg + 2
  /\ pc' = "added"
  /\ UNCHANGED <<kind, results, refused, queue, report, faults, clusterVars>>

\* wg.Add(1), without the lock.
AddOperation ==
  /\ pc = "appended"
  /\ wg' = wg + 1
  /\ pc' = "added"
  /\ UNCHANGED <<kind, results, refused, queue, report, faults, clusterVars>>

\* CreateWallet, SignTransaction or Resharing.
PublishRequest ==
  /\ pc = "added"
  /\ stored' = stored \cup {Len(results)}
  /\ pc' = "loop"
  /\ UNCHANGED <<kind, results, wg, refused, queue, report, faults, answer>>

\* It returns an error: nothing was sent, or only the acknowledgement is lost.
PublishFails ==
  /\ pc = "added" /\ Fault
  /\ stored' \in {stored, stored \cup {Len(results)}}
  /\ refused' = refused \cup {Len(results)}
  /\ pc' = "refused"
  /\ UNCHANGED <<kind, results, wg, queue, report, answer>>

\* The error branch, under the lock, completes the operation whatever its
\* result was.
CompleteRefused ==
  /\ pc = "refused"
  /\ results' = [results EXCEPT ![Len(results)] = [Completed |-> TRUE, Success |-> FALSE]]
  /\ pc' = "completed"
  /\ UNCHANGED <<kind, wg, refused, queue, report, faults, clusterVars>>

\* WaitGroup.Done panics when it makes the counter negative.
Counted(next) == IF wg > 0 THEN next ELSE "panic"

MutDoneRefused ==
  /\ pc = "completed"
  /\ pc' = "loop"
  /\ UNCHANGED <<kind, results, wg, refused, queue, report, faults, clusterVars>>

DoneRefused ==
  /\ pc = "completed"
  /\ wg' = wg - 1
  /\ pc' = Counted("loop")
  /\ UNCHANGED <<kind, results, refused, queue, report, faults, clusterVars>>

\* All operations are submitted: a goroutine waits for the counter.
Wait ==
  /\ pc = "loop" /\ Len(results) = NumOps
  /\ pc' = "waiting"
  /\ UNCHANGED <<kind, results, wg, refused, queue, report, faults, clusterVars>>

Successful == {i \in DOMAIN results : results[i].Completed /\ results[i].Success}

\* An operation that is not complete counts as failed.
calculateBenchmarkResult ==
  report' = [successful |-> Cardinality(Successful),
             failed |-> Len(results) - Cardinality(Successful)]

\* The channel `done', or the timeout.  The results are then read without the
\* lock: a result that comes in meanwhile is counted or it is not.
Finish ==
  /\ pc = "waiting"
  /\ pc' \in {"timeout"} \cup {p \in {"done"} : wg = 0}
  /\ calculateBenchmarkResult
  /\ UNCHANGED <<kind, results, wg, refused, queue, faults, clusterVars>>

-----------------------------------------------------------------------------
(* The results.                                                            *)

Running == pc \notin {"start", "failed", "done", "timeout", "panic"}

\* The cluster (external).
AnswerRequest(op) ==
  /\ op \in stored /\ answer[op] = "none"
  /\ \E a \in {"success", "error"} : answer' = [answer EXCEPT ![op] = a]
  /\ queue' = queue \cup {op}
  /\ UNCHANGED <<kind, pc, results, wg, refused, report, faults, stored>>

Pending == {i \in DOMAIN results : ~results[i].Completed}

MutUniqueMatch(op) == {op} \cap DOMAIN results

\* The callbacks of runKeygenBenchmark and runSignBenchmark.
UniqueMatch(op) == {op} \cap Pending

\* The callback of runReshareBenchmark: whose result it is cannot be told.
FirstOfWallet(op) == IF Pending = {} THEN {} ELSE {Min(Pending)}

Match(op) == IF kind = "reshare" THEN FirstOfWallet(op) ELSE UniqueMatch(op)

MutComplete(i, a) ==
  results' = [results EXCEPT ![i] = [Completed |-> TRUE, Success |-> TRUE]]

Complete(i, a) ==
  results' = [results EXCEPT ![i] = [Completed |-> TRUE, Success |-> a = "success"]]

\* The whole callback runs under the lock, wg.Done included.
OnResult(op) ==
  \/ /\ Match(op) = {}
     /\ UNCHANGED <<pc, results, wg>>
  \/ \E i \in Match(op) :
       /\ Complete(i, answer[op])
       /\ wg' = wg - 1
       /\ pc' = Counted(pc)

\* The handler has no error to return for a result that it can read, so the
\* message is acknowledged; without the Ack it is delivered again.
Dequeue(op) ==
  /\ Running /\ op \in queue
  /\ OnResult(op)
  /\ \/ queue' = queue \ {op} /\ UNCHANGED faults
     \/ queue' = queue /\ Fault
  /\ UNCHANGED <<kind, refused, report, clusterVars>>

-----------------------------------------------------------------------------
SubmitOperation ==
  AppendResult \/ AddOperation \/ PublishRequest \/ PublishFails
  \/ CompleteRefused \/ DoneRefused

Next ==
  \/ createMPCClient \/ SubmitOperation \/ Wait \/ Finish
  \/ \E op \in Op : AnswerRequest(op)
  \/ \E op \in queue : Dequeue(op)

Spec == Init /\ [][Next]_vars

-----------------------------------------------------------------------------
(* Properties.                                                             *)

\* Every variable has the type the Go declarations give it.
TypeOK ==
  /\ kind \in Kinds
  /\ pc \in {"start", "failed", "loop", "appended", "added", "refused", "completed",
             "waiting", "done", "timeout", "panic"}
  /\ results \in Seq(Operation) /\ Len(results) <= NumOps
  /\ wg \in -1..NumOps
  /\ stored \subseteq Op
  /\ refused \subseteq Op
  /\ answer \in [{Earlier} \cup Op -> {"none", "success", "error"}]
  /\ queue \subseteq {Earlier} \cup Op
  /\ report \in [successful : 0..NumOps, failed : 0..NumOps]
  /\ faults \in 0..MaxFaults

\* The run never waits for its timeout when every operation is complete:
\* whichever of the callback and the error branch completes an operation, the
\* counter goes down for it.
WaitHasReason == pc = "waiting" /\ Pending = {} => wg <= 0

\* "All operations completed", says the comment at `case <-done'.  With unique
\* IDs it is true, and the counter never goes below zero, whatever is delivered
\* again or left over from an earlier run, as long as no request that was
\* reported as failed had been stored.
DoneMeansCompleted ==
  kind # "reshare" /\ refused \cap stored = {} =>
    pc # "panic" /\ (pc = "done" => Pending = {})

\* The operations that the report calls successful are operations that the
\* cluster has carried out, for unique IDs.
ReportIsReal ==
  kind # "reshare" =>
    report.successful <= Cardinality({op \in Op : answer[op] = "success"})
=============================================================================
