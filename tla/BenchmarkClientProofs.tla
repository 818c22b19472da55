----------------------- MODULE BenchmarkClientProofs -----------------------
(***************************************************************************)
(* Proofs about BenchmarkClient, for any number of operations and faults:  *)
(* its type invariant, and what the WaitGroup and the report mean.         *)
(***************************************************************************)
EXTENDS BenchmarkClient, FiniteSetTheorems, NaturalsInduction, SequenceTheorems, TLAPS

-----------------------------------------------------------------------------
(* The inductive invariant.                                                *)

\* Who has been published, refused, answered.
SubmitOK ==
  /\ queue \subseteq {Earlier} \cup stored
  /\ stored \cup refused \subseteq 1..Len(results)
  /\ pc \in {"appended", "added", "refused", "completed"} => Len(results) > 0
  /\ pc \in {"appended", "added"} => Len(results) \notin stored \cup refused
  /\ pc = "refused" => Len(results) \in refused
  /\ pc = "done" => wg = 0

\* How far the counter is ahead of the operations that are not complete, while
\* the main goroutine is between the two steps of an operation.
Ahead == IF pc = "completed" THEN 1 ELSE IF pc = "appended" THEN -1 ELSE 0

CounterOK ==
  /\ pc = "panic" => wg = -1
  /\ pc # "panic" => wg >= 0 /\ wg <= Cardinality(Pending) + Ahead
  /\ wg <= Len(results) + (IF pc = "appended" THEN -1 ELSE 0)

\* What holds of the benchmarks that know their operations by a unique ID:
\* when no refused request was stored, an operation is completed once.
Unique == kind # "reshare" /\ refused \cap stored = {}

UniqueOK ==
  Unique =>
    /\ pc # "panic"
    /\ wg = Cardinality(Pending) + Ahead
    /\ \A i \in 1..Len(results) : results[i].Completed =>
         i \in stored \/ (i \in refused /\ ~(pc = "refused" /\ i = Len(results)))

SuccessOK ==
  kind # "reshare" =>
    \A i \in 1..Len(results) : results[i].Completed /\ results[i].Success =>
      answer[i] = "success"

BenchmarkInv ==
  /\ TypeOK
  /\ SubmitOK
  /\ CounterOK
  /\ UniqueOK
  /\ SuccessOK
  /\ ReportIsReal

-----------------------------------------------------------------------------
(* The operations that are not complete.                                   *)

LEMMA LeastNat ==
  ASSUME NEW S, S \subseteq Nat, S # {}
  PROVE  \E x \in S : \A y \in S : x <= y
<1>1. PICK x \in S : \A y \in S : ~(<<y, x>> \in OpToRel(<, Nat))
  BY WFMin, NatLessThanWellFounded, Zenon
<1>2. \A y \in S : ~(y < x)
  BY <1>1 DEF OpToRel
<1> QED BY <1>2

\* The operations of results are a finite set, of as many as its length.
LEMMA PendingFinite ==
  ASSUME results \in Seq(Operation)
  PROVE  /\ Len(results) \in Nat /\ DOMAIN results = 1..Len(results)
         /\ Pending \subseteq 1..Len(results) /\ IsFiniteSet(Pending)
         /\ Cardinality(Pending) \in Nat
<1>1. Len(results) \in Nat /\ DOMAIN results = 1..Len(results)
  BY LenProperties
<1>2. IsFiniteSet(1..Len(results))
  BY <1>1, FS_Interval
<1>3. Pending \subseteq 1..Len(results)
  BY <1>1 DEF Pending
<1> QED BY <1>1, <1>2, <1>3, FS_Subset, FS_CardinalityType

\* The first operation of the wallet that is not complete.
LEMMA MinPending ==
  ASSUME results \in Seq(Operation), Pending # {} PROVE Min(Pending) \in Pending
<1>1. Pending \subseteq Nat
  BY PendingFinite
<1>2. \E x \in Pending : \A y \in Pending : x <= y
  BY <1>1, LeastNat
<1> QED BY <1>2 DEF Min

\* A new operation is not complete.
LEMMA AppendPending ==
  ASSUME results \in Seq(Operation),
         results' = Append(results, [Completed |-> FALSE, Success |-> FALSE])
  PROVE  /\ results' \in Seq(Operation) /\ Len(results') = Len(results) + 1
         /\ \A i \in 1..Len(results) : results'[i] = results[i]
         /\ ~results'[Len(results')].Completed
         /\ Cardinality(Pending') = Cardinality(Pending) + 1
<1> DEFINE new == [Completed |-> FALSE, Success |-> FALSE]
<1>1. new \in Operation
  BY DEF Operation
<1>2. /\ results' \in Seq(Operation) /\ Len(results') = Len(results) + 1
      /\ \A i \in 1..Len(results) : results'[i] = results[i]
      /\ results'[Len(results) + 1] = new
  BY <1>1, AppendProperties
<1>3. /\ Len(results) \in Nat /\ DOMAIN results = 1..Len(results)
      /\ DOMAIN results' = 1..(Len(results) + 1)
  BY <1>2, LenProperties
<1>4. Pending' = Pending \cup {Len(results) + 1}
  BY <1>2, <1>3 DEF Pending
<1>5. IsFiniteSet(Pending) /\ Len(results) + 1 \notin Pending
  BY <1>3, PendingFinite
<1>6. Cardinality(Pending') = Cardinality(Pending) + 1
  BY <1>4, <1>5, FS_AddElement
<1>7. results'[Len(results')].Completed = FALSE
  BY <1>2
<1> QED BY <1>2, <1>6, <1>7

\* A completed operation is not pending any more, and no other changes.
LEMMA CompletePending ==
  ASSUME results \in Seq(Operation), NEW i \in 1..Len(results), NEW b \in BOOLEAN,
         results' = [results EXCEPT ![i] = [Completed |-> TRUE, Success |-> b]]
  PROVE  /\ results' \in Seq(Operation) /\ Len(results') = Len(results)
         /\ \A j \in 1..Len(results) : j # i => results'[j] = results[j]
         /\ results'[i] = [Completed |-> TRUE, Success |-> b]
         /\ i \in Pending => Cardinality(Pending') = Cardinality(Pending) - 1
         /\ i \notin Pending => Cardinality(Pending') = Cardinality(Pending)
<1> DEFINE new == [Completed |-> TRUE, Success |-> b]
<1>1. new \in Operation
  BY DEF Operation
<1>2. /\ results' \in Seq(Operation) /\ Len(results') = Len(results)
      /\ \A j \in 1..Len(results) : j # i => results'[j] = results[j]
      /\ results'[i] = new
  BY <1>1, ExceptSeq, LenProperties
<1>3. DOMAIN results' = 1..Len(results) /\ DOMAIN results = 1..Len(results)
  BY <1>2, LenProperties
<1>4. Pending' = Pending \ {i}
  BY <1>2, <1>3 DEF Pending
<1>5. IsFiniteSet(Pending)
  BY PendingFinite
<1>6. CASE i \in Pending
  BY <1>2, <1>4, <1>5, <1>6, FS_RemoveElement
<1>7. CASE i \notin Pending
  <2>1. Pending' = Pending
    BY <1>4, <1>7
  <2> QED BY <1>2, <1>7, <2>1
<1> QED BY <1>6, <1>7

\* The report counts operations that there are.
LEMMA SuccessfulCount ==
  ASSUME results \in Seq(Operation)
  PROVE  Cardinality(Successful) \in 0..Len(results)
<1>1. Len(results) \in Nat /\ DOMAIN results = 1..Len(results)
  BY LenProperties
<1>2. IsFiniteSet(1..Len(results)) /\ Cardinality(1..Len(results)) = Len(results)
  <2>1. Len(results) - 1 + 1 = Len(results) /\ (1 > Len(results) => Len(results) = 0)
    BY <1>1
  <2> QED BY <1>1, <2>1, FS_Interval
<1>3. Successful \subseteq 1..Len(results)
  BY <1>1 DEF Successful
<1>4. /\ IsFiniteSet(Successful)
      /\ Cardinality(Successful) <= Cardinality(1..Len(results))
  BY <1>2, <1>3, FS_Subset
<1> QED BY <1>1, <1>2, <1>4, FS_CardinalityType

\* A larger set of answers has no fewer members.
LEMMA AnsweredMonotone ==
  ASSUME NEW S, S \subseteq Op, NEW T, T \subseteq S
  PROVE  /\ Cardinality(T) \in Nat /\ Cardinality(S) \in Nat
         /\ Cardinality(T) <= Cardinality(S)
<1>1. IsFiniteSet(Op)
  BY NumOpsAssumption, FS_Interval DEF Op
<1>2. IsFiniteSet(S)
  BY <1>1, FS_Subset
<1> QED BY <1>2, FS_Subset, FS_CardinalityType

-----------------------------------------------------------------------------
(* The invariant holds initially, and every action keeps it.               *)

LEMMA BenchmarkInit ==
  ASSUME Init PROVE BenchmarkInv
<1>1. results = <<>> /\ Len(results) = 0 /\ results \in Seq(Operation)
  BY DEF Init
<1>2. Pending = {}
  BY <1>1 DEF Pending
<1>3. Cardinality(Pending) = 0
  BY <1>2, FS_EmptySet
<1>4. TypeOK
  BY <1>1, NumOpsAssumption, BoundAssumption
     DEF Init, TypeOK, Kinds, Op, Earlier, NewMessageQueue
<1>5. SubmitOK
  BY <1>1 DEF Init, SubmitOK, NewMessageQueue
<1>6. CounterOK
  BY <1>1, <1>3 DEF Init, CounterOK, Ahead
<1>7. UniqueOK
  BY <1>1, <1>3 DEF Init, UniqueOK, Ahead
<1>8. SuccessOK
  BY <1>1 DEF SuccessOK
<1>9. ReportIsReal
  <2> DEFINE S == {op \in Op : answer[op] = "success"}
  <2>1. Cardinality(S) \in Nat
    BY AnsweredMonotone
  <2>2. report.successful = 0
    BY DEF Init
  <2> QED BY <2>1, <2>2 DEF ReportIsReal
<1> QED BY <1>4, <1>5, <1>6, <1>7, <1>8, <1>9 DEF BenchmarkInv

\* The steps of the main goroutine that leave the operations and the report.
LEMMA SameResults ==
  ASSUME results' = results PROVE Pending' = Pending
BY DEF Pending

LEMMA SameReport ==
  ASSUME ReportIsReal, UNCHANGED <<kind, report, answer>> PROVE ReportIsReal'
BY DEF ReportIsReal

LEMMA SameSuccess ==
  ASSUME SuccessOK, UNCHANGED <<kind, results, answer>> PROVE SuccessOK'
BY DEF SuccessOK

LEMMA CreateStep ==
  ASSUME BenchmarkInv, createMPCClient PROVE BenchmarkInv'
<1> USE DEF createMPCClient, clusterVars
<1>1. UNCHANGED <<kind, results, wg, refused, queue, report, stored, answer>>
  OBVIOUS
<1>2. pc = "start" /\ pc' \in {"loop", "failed"} /\ faults' \in 0..MaxFaults
  BY BoundAssumption DEF BenchmarkInv, TypeOK, Fault
<1>3. TypeOK'
  BY <1>1, <1>2 DEF BenchmarkInv, TypeOK
<1>4. SubmitOK'
  BY <1>1, <1>2 DEF BenchmarkInv, SubmitOK
<1>5. CounterOK'
  BY <1>1, <1>2, SameResults DEF BenchmarkInv, CounterOK, Ahead
<1>6. UniqueOK'
  BY <1>1, <1>2, SameResults DEF BenchmarkInv, UniqueOK, Unique, Ahead
<1> QED BY <1>1, <1>3, <1>4, <1>5, <1>6, SameSuccess, SameReport DEF BenchmarkInv

LEMMA AppendStep ==
  ASSUME BenchmarkInv, AppendResult PROVE BenchmarkInv'
<1> USE DEF AppendResult, clusterVars
<1>1. /\ UNCHANGED <<kind, wg, refused, queue, report, faults, stored, answer>>
      /\ pc = "loop" /\ pc' = "appended" /\ Len(results) < NumOps
      /\ results \in Seq(Operation) /\ Len(results) \in Nat
  BY PendingFinite DEF BenchmarkInv, TypeOK
<1>2. /\ results' \in Seq(Operation) /\ Len(results') = Len(results) + 1
      /\ \A i \in 1..Len(results) : results'[i] = results[i]
      /\ ~results'[Len(results')].Completed
      /\ Cardinality(Pending') = Cardinality(Pending) + 1
  BY <1>1, AppendPending
<1>3. TypeOK'
  BY <1>1, <1>2, NumOpsAssumption DEF BenchmarkInv, TypeOK
<1>4. SubmitOK'
  BY <1>1, <1>2 DEF BenchmarkInv, SubmitOK
<1>5. Cardinality(Pending) \in Nat /\ wg \in Int
  BY <1>1, PendingFinite DEF BenchmarkInv, TypeOK
<1>6. CounterOK'
  BY <1>1, <1>2, <1>5 DEF BenchmarkInv, CounterOK, Ahead
<1>7. UniqueOK'
  BY <1>1, <1>2, <1>5 DEF BenchmarkInv, UniqueOK, Unique, Ahead
<1>8. SuccessOK'
  BY <1>1, <1>2 DEF BenchmarkInv, SuccessOK
<1> QED BY <1>1, <1>3, <1>4, <1>6, <1>7, <1>8, SameReport DEF BenchmarkInv

LEMMA AddStep ==
  ASSUME BenchmarkInv, AddOperation PROVE BenchmarkInv'
<1> USE DEF AddOperation, clusterVars
<1>1. /\ UNCHANGED <<kind, results, refused, queue, report, faults, stored, answer>>
      /\ pc = "appended" /\ pc' = "added" /\ wg' = wg + 1
      /\ results \in Seq(Operation) /\ Len(results) \in Nat /\ Len(results) <= NumOps
      /\ wg \in -1..NumOps /\ Cardinality(Pending) \in Nat
  BY PendingFinite DEF BenchmarkInv, TypeOK
<1>2. Pending' = Pending
  BY <1>1, SameResults
<1>3. wg >= 0 /\ wg <= Cardinality(Pending) - 1 /\ wg <= Len(results) - 1
  BY <1>1 DEF BenchmarkInv, CounterOK, Ahead
<1>4. TypeOK'
  BY <1>1, <1>3, NumOpsAssumption DEF BenchmarkInv, TypeOK
<1>5. SubmitOK'
  BY <1>1 DEF BenchmarkInv, SubmitOK
<1>6. CounterOK'
  BY <1>1, <1>2, <1>3 DEF CounterOK, Ahead
<1>7. UniqueOK'
  BY <1>1, <1>2 DEF BenchmarkInv, UniqueOK, Unique, Ahead
<1> QED BY <1>1, <1>4, <1>5, <1>6, <1>7, SameSuccess, SameReport DEF BenchmarkInv

LEMMA PublishStep ==
  ASSUME BenchmarkInv, PublishRequest \/ PublishFails PROVE BenchmarkInv'
<1> USE DEF PublishRequest, PublishFails
<1>1. /\ UNCHANGED <<kind, results, wg, queue, report, answer>>
      /\ pc = "added" /\ pc' \in {"loop", "refused"} /\ faults' \in 0..MaxFaults
      /\ stored' \in {stored, stored \cup {Len(results)}}
      /\ pc' = "loop" => refused' = refused
      /\ pc' = "refused" => refused' = refused \cup {Len(results)}
  BY BoundAssumption DEF BenchmarkInv, TypeOK, Fault
<1>2. /\ results \in Seq(Operation) /\ Len(results) \in 1..NumOps
      /\ Len(results) \notin stored \cup refused
  BY <1>1, PendingFinite DEF BenchmarkInv, TypeOK, SubmitOK
<1>3. TypeOK'
  BY <1>1, <1>2 DEF BenchmarkInv, TypeOK, Op
<1>4. SubmitOK'
  BY <1>1, <1>2 DEF BenchmarkInv, SubmitOK
<1>5. CounterOK'
  BY <1>1, SameResults DEF BenchmarkInv, CounterOK, Ahead
<1>6. UniqueOK'
  <2> SUFFICES ASSUME Unique' PROVE UniqueOK'
    BY DEF UniqueOK
  <2>1. Unique
    BY <1>1 DEF Unique
  <2>2. wg = Cardinality(Pending)
    BY <1>1, <2>1, PendingFinite DEF BenchmarkInv, UniqueOK, Ahead, TypeOK
  <2>3. Ahead' = 0 /\ Pending' = Pending
    BY <1>1, SameResults DEF Ahead
  <2>4. wg' = Cardinality(Pending') + Ahead'
    BY <1>1, <2>2, <2>3, PendingFinite, <1>2
  <2>5. ASSUME NEW i \in 1..Len(results), results[i].Completed
        PROVE  i \in stored' \/ (i \in refused' /\ ~(pc' = "refused" /\ i = Len(results)))
    BY <1>1, <1>2, <2>1, <2>5 DEF BenchmarkInv, UniqueOK
  <2> QED BY <1>1, <2>4, <2>5 DEF UniqueOK
<1> QED BY <1>1, <1>3, <1>4, <1>5, <1>6, SameSuccess, SameReport DEF BenchmarkInv

\* The error branch.  When no refused request was stored, nothing but this
\* branch completes the operation it is about.
LEMMA CompleteStep ==
  ASSUME BenchmarkInv, CompleteRefused PROVE BenchmarkInv'
<1>1. /\ UNCHANGED <<kind, wg, refused, queue, report, faults, stored, answer>>
      /\ pc = "refused" /\ pc' = "completed"
      /\ results \in Seq(Operation) /\ Len(results) \in 1..Len(results)
      /\ Len(results) \in refused /\ wg \in Int /\ Cardinality(Pending) \in Nat
  BY PendingFinite DEF CompleteRefused, clusterVars, BenchmarkInv, TypeOK, SubmitOK
<1>2. PICK n \in 1..Len(results) : n = Len(results)
  BY <1>1
<1>3. /\ results' \in Seq(Operation) /\ Len(results') = Len(results)
      /\ \A j \in 1..Len(results) : j # n => results'[j] = results[j]
      /\ results'[n] = [Completed |-> TRUE, Success |-> FALSE]
      /\ n \in Pending => Cardinality(Pending') = Cardinality(Pending) - 1
      /\ n \notin Pending => Cardinality(Pending') = Cardinality(Pending)
  <2>1. results' = [results EXCEPT ![n] = [Completed |-> TRUE, Success |-> FALSE]]
    BY <1>2 DEF CompleteRefused
  <2> QED BY <1>1, <2>1, CompletePending
<1>4. TypeOK'
  BY <1>1, <1>3 DEF BenchmarkInv, TypeOK
<1>5. SubmitOK'
  BY <1>1, <1>3 DEF BenchmarkInv, SubmitOK
<1>6. CounterOK'
  <2>1. wg >= 0 /\ wg <= Cardinality(Pending) /\ wg <= Len(results)
    BY <1>1, PendingFinite DEF BenchmarkInv, CounterOK, Ahead
  <2>2. Cardinality(Pending) <= Cardinality(Pending') + 1
    BY <1>1, <1>3
  <2>3. Cardinality(Pending') \in Int /\ Len(results) \in Nat
    BY <1>1, <1>3, PendingFinite
  <2> QED BY <1>1, <1>3, <2>1, <2>2, <2>3 DEF CounterOK, Ahead
<1>7. UniqueOK'
  <2> SUFFICES ASSUME Unique' PROVE UniqueOK'
    BY DEF UniqueOK
  <2>1. Unique
    BY <1>1 DEF Unique
  <2>2. n \in Pending
    BY <1>1, <1>2, <2>1, PendingFinite DEF BenchmarkInv, UniqueOK, Unique, Pending
  <2>3. wg = Cardinality(Pending)
    BY <1>1, <2>1 DEF BenchmarkInv, UniqueOK, Ahead
  <2>4. wg' = Cardinality(Pending') + Ahead'
    BY <1>1, <1>3, <2>2, <2>3 DEF Ahead
  <2>5. ASSUME NEW i \in 1..Len(results), results'[i].Completed
        PROVE  i \in stored \/ i \in refused
    BY <1>1, <1>2, <1>3, <2>1, <2>5 DEF BenchmarkInv, UniqueOK
  <2> QED BY <1>1, <1>3, <2>4, <2>5 DEF UniqueOK
<1>8. SuccessOK'
  BY <1>1, <1>2, <1>3 DEF BenchmarkInv, SuccessOK
<1> QED BY <1>1, <1>4, <1>5, <1>6, <1>7, <1>8, SameReport DEF BenchmarkInv

LEMMA DoneStep ==
  ASSUME BenchmarkInv, DoneRefused PROVE BenchmarkInv'
<1> USE DEF DoneRefused, clusterVars
<1>1. /\ UNCHANGED <<kind, results, refused, queue, report, faults, stored, answer>>
      /\ pc = "completed" /\ wg' = wg - 1
      /\ pc' = IF wg > 0 THEN "loop" ELSE "panic"
      /\ results \in Seq(Operation) /\ Len(results) \in Nat
      /\ wg \in -1..NumOps /\ Cardinality(Pending) \in Nat
  BY PendingFinite DEF BenchmarkInv, TypeOK, Counted
<1>2. Pending' = Pending
  BY <1>1, SameResults
<1>3. wg >= 0 /\ wg <= Cardinality(Pending) + 1 /\ wg <= Len(results)
  BY <1>1 DEF BenchmarkInv, CounterOK, Ahead
<1>4. TypeOK'
  BY <1>1, <1>3, NumOpsAssumption DEF BenchmarkInv, TypeOK
<1>5. SubmitOK'
  BY <1>1 DEF BenchmarkInv, SubmitOK
<1>6. CounterOK'
  BY <1>1, <1>2, <1>3 DEF CounterOK, Ahead
<1>7. UniqueOK'
  BY <1>1, <1>2 DEF BenchmarkInv, UniqueOK, Unique, Ahead
<1> QED BY <1>1, <1>4, <1>5, <1>6, <1>7, SameSuccess, SameReport DEF BenchmarkInv

LEMMA WaitStep ==
  ASSUME BenchmarkInv, Wait PROVE BenchmarkInv'
<1> USE DEF Wait, clusterVars
<1>1. /\ UNCHANGED <<kind, results, wg, refused, queue, report, faults, stored, answer>>
      /\ pc = "loop" /\ pc' = "waiting"
  OBVIOUS
<1>2. TypeOK'
  BY <1>1 DEF BenchmarkInv, TypeOK
<1>3. SubmitOK'
  BY <1>1 DEF BenchmarkInv, SubmitOK
<1>4. CounterOK'
  BY <1>1, SameResults DEF BenchmarkInv, CounterOK, Ahead
<1>5. UniqueOK'
  BY <1>1, SameResults DEF BenchmarkInv, UniqueOK, Unique, Ahead
<1> QED BY <1>1, <1>2, <1>3, <1>4, <1>5, SameSuccess, SameReport DEF BenchmarkInv

\* What the report counts as successful are operations that were answered so.
LEMMA FinishStep ==
  ASSUME BenchmarkInv, Finish PROVE BenchmarkInv'
<1> USE DEF Finish, clusterVars
<1>1. /\ UNCHANGED <<kind, results, wg, refused, queue, faults, stored, answer>>
      /\ pc = "waiting" /\ pc' \in {"timeout", "done"} /\ (pc' = "done" => wg = 0)
      /\ report' = [successful |-> Cardinality(Successful),
                    failed |-> Len(results) - Cardinality(Successful)]
      /\ results \in Seq(Operation) /\ Len(results) \in 0..NumOps
  BY NumOpsAssumption, PendingFinite DEF BenchmarkInv, TypeOK, calculateBenchmarkResult
<1>2. Cardinality(Successful) \in 0..Len(results)
  BY <1>1, SuccessfulCount
<1>3. TypeOK'
  <2>1. report' \in [successful : 0..NumOps, failed : 0..NumOps]
    BY <1>1, <1>2, NumOpsAssumption
  <2> QED BY <1>1, <2>1 DEF BenchmarkInv, TypeOK
<1>4. SubmitOK'
  BY <1>1 DEF BenchmarkInv, SubmitOK
<1>5. CounterOK'
  BY <1>1, SameResults DEF BenchmarkInv, CounterOK, Ahead
<1>6. UniqueOK'
  BY <1>1, SameResults DEF BenchmarkInv, UniqueOK, Unique, Ahead
<1>7. ReportIsReal'
  <2> SUFFICES ASSUME kind' # "reshare" PROVE ReportIsReal'
    BY DEF ReportIsReal
  <2> DEFINE S == {op \in Op : answer[op] = "success"}
  <2>1. DOMAIN results = 1..Len(results) /\ \A i \in 1..Len(results) : i \in Op
    BY <1>1, PendingFinite, NumOpsAssumption DEF Op
  <2>2. ASSUME NEW i \in Successful PROVE i \in S
    BY <1>1, <2>1 DEF BenchmarkInv, SuccessOK, Successful
  <2>3. Cardinality(Successful) <= Cardinality(S)
    BY <2>2, AnsweredMonotone
  <2>4. report'.successful = Cardinality(Successful)
    BY <1>1
  <2> QED BY <1>1, <2>3, <2>4 DEF ReportIsReal
<1> QED BY <1>1, <1>3, <1>4, <1>5, <1>6, <1>7, SameSuccess DEF BenchmarkInv

\* An answer is given once, so what has been reported stays true.
LEMMA AnswerStep ==
  ASSUME BenchmarkInv, NEW op \in Op, AnswerRequest(op) PROVE BenchmarkInv'
<1> USE DEF AnswerRequest
<1>1. /\ UNCHANGED <<kind, pc, results, wg, refused, report, faults, stored>>
      /\ op \in stored /\ answer[op] = "none" /\ queue' = queue \cup {op}
  OBVIOUS
<1>2. PICK a \in {"success", "error"} : answer' = [answer EXCEPT ![op] = a]
  OBVIOUS
<1>3. /\ answer \in [{Earlier} \cup Op -> {"none", "success", "error"}]
      /\ answer' \in [{Earlier} \cup Op -> {"none", "success", "error"}]
      /\ \A i \in Op : answer[i] = "success" => answer'[i] = "success"
  BY <1>1, <1>2 DEF BenchmarkInv, TypeOK
<1>4. TypeOK'
  BY <1>1, <1>3 DEF BenchmarkInv, TypeOK
<1>5. SubmitOK'
  BY <1>1 DEF BenchmarkInv, SubmitOK
<1>6. CounterOK'
  BY <1>1, SameResults DEF BenchmarkInv, CounterOK, Ahead
<1>7. UniqueOK'
  BY <1>1, SameResults DEF BenchmarkInv, UniqueOK, Unique, Ahead
<1>8. SuccessOK'
  <2>1. Len(results) \in Nat /\ \A i \in 1..Len(results) : i \in Op
    BY PendingFinite, NumOpsAssumption DEF BenchmarkInv, TypeOK, Op
  <2> QED BY <1>1, <1>3, <2>1 DEF BenchmarkInv, SuccessOK
<1>9. ReportIsReal'
  <2> SUFFICES ASSUME kind' # "reshare" PROVE ReportIsReal'
    BY DEF ReportIsReal
  <2> DEFINE S == {i \in Op : answer[i] = "success"}
             T == {i \in Op : answer'[i] = "success"}
  <2>1. S \subseteq T
    BY <1>3
  <2>2. Cardinality(S) <= Cardinality(T) /\ Cardinality(S) \in Nat /\ Cardinality(T) \in Nat
    BY <2>1, AnsweredMonotone
  <2>3. report.successful <= Cardinality(S)
    BY <1>1 DEF BenchmarkInv, ReportIsReal
  <2>4. report.successful \in Nat
    BY NumOpsAssumption DEF BenchmarkInv, TypeOK
  <2>5. report.successful <= Cardinality(T)
    <3> HIDE DEF S, T
    <3> QED BY <2>2, <2>3, <2>4
  <2> QED BY <1>1, <2>5 DEF ReportIsReal
<1> QED BY <1>4, <1>5, <1>6, <1>7, <1>8, <1>9 DEF BenchmarkInv

\* The operation that a result completes is one that was not complete; by its
\* ID, it is the one that was asked for, which is not the one being submitted.
LEMMA MatchFacts ==
  ASSUME BenchmarkInv, NEW op \in queue, NEW i \in Match(op)
  PROVE  /\ i \in Pending
         /\ kind # "reshare" => i = op /\ i \in stored
<1>1. CASE kind = "reshare"
  <2>1. results \in Seq(Operation)
    BY DEF BenchmarkInv, TypeOK
  <2>2. Pending # {} /\ i = Min(Pending)
    BY <1>1 DEF Match, FirstOfWallet
  <2> QED BY <1>1, <2>1, <2>2, MinPending
<1>2. CASE kind # "reshare"
  <2>1. i = op /\ i \in Pending
    BY <1>2 DEF Match, UniqueMatch
  <2>2. i # Earlier
    BY <2>1, PendingFinite DEF BenchmarkInv, TypeOK, Earlier
  <2> QED BY <2>1, <2>2 DEF BenchmarkInv, SubmitOK
<1> QED BY <1>1, <1>2

\* With unique IDs the counter does not go below zero: of the operations that
\* are not complete, only the one being submitted may not be counted yet.
LEMMA CounterPositive ==
  ASSUME BenchmarkInv, Unique, NEW i \in Pending, i \in stored PROVE wg > 0
<1>1. /\ results \in Seq(Operation) /\ IsFiniteSet(Pending) /\ Cardinality(Pending) \in Nat
      /\ wg = Cardinality(Pending) + Ahead
  BY PendingFinite DEF BenchmarkInv, TypeOK, UniqueOK
<1>2. Cardinality(Pending) > 0
  BY <1>1, FS_EmptySet
<1>3. CASE pc # "appended"
  BY <1>1, <1>2, <1>3 DEF Ahead
<1>4. CASE pc = "appended"
  <2>0. Len(results) \in Nat /\ Len(results) > 0
    BY <1>1, <1>4, PendingFinite DEF BenchmarkInv, SubmitOK
  <2>1. PICK n \in 1..Len(results) : n = Len(results)
    BY <2>0
  <2>2. n \notin stored \cup refused
    BY <1>4, <2>1 DEF BenchmarkInv, SubmitOK
  <2>3. n \in Pending /\ n # i
    BY <1>1, <2>2, PendingFinite DEF BenchmarkInv, UniqueOK, Pending
  <2>4. IsFiniteSet(Pending \ {n}) /\ Cardinality(Pending \ {n}) = Cardinality(Pending) - 1
    BY <1>1, <2>3, FS_RemoveElement
  <2>5. Pending \ {n} # {}
    BY <2>3
  <2>6. Cardinality(Pending \ {n}) \in Nat /\ Cardinality(Pending \ {n}) # 0
    BY <2>4, <2>5, FS_EmptySet, FS_CardinalityType
  <2>7. Ahead = -1
    BY <1>4 DEF Ahead
  <2> QED BY <1>1, <2>4, <2>6, <2>7
<1> QED BY <1>3, <1>4

\* The callback that completes operation i.
LEMMA OnResultStep ==
  ASSUME BenchmarkInv, Running, NEW op \in queue, NEW i \in Match(op),
         Complete(i, answer[op]), wg' = wg - 1, pc' = Counted(pc),
         UNCHANGED <<kind, refused, report, stored, answer>>,
         queue' \subseteq queue, faults' \in 0..MaxFaults
  PROVE  BenchmarkInv'
<1>0. PICK b \in BOOLEAN : b = (answer[op] = "success")
  BY Zenon
<1>1. /\ i \in Pending /\ i \in 1..Len(results)
      /\ kind # "reshare" => i = op /\ i \in stored
      /\ results \in Seq(Operation) /\ Len(results) \in Nat
      /\ Cardinality(Pending) \in Nat /\ wg \in -1..NumOps
  BY MatchFacts, PendingFinite DEF BenchmarkInv, TypeOK
<1>2. /\ results' \in Seq(Operation) /\ Len(results') = Len(results)
      /\ \A j \in 1..Len(results) : j # i => results'[j] = results[j]
      /\ results'[i] = [Completed |-> TRUE, Success |-> b]
      /\ Cardinality(Pending') = Cardinality(Pending) - 1
  <2>1. results' = [results EXCEPT ![i] = [Completed |-> TRUE, Success |-> b]]
    BY <1>0, Zenon DEF Complete
  <2> QED BY <1>1, <2>1, CompletePending
<1>3. /\ pc # "panic" /\ pc # "done" /\ wg >= 0 /\ wg <= Cardinality(Pending) + Ahead
      /\ wg <= Len(results) + (IF pc = "appended" THEN -1 ELSE 0)
  BY DEF BenchmarkInv, CounterOK, Running
<1>4. pc' = IF wg > 0 THEN pc ELSE "panic"
  BY DEF Counted
<1>5. TypeOK'
  BY <1>1, <1>2, <1>3, <1>4, NumOpsAssumption DEF BenchmarkInv, TypeOK
<1>6. SubmitOK'
  BY <1>2, <1>3, <1>4 DEF BenchmarkInv, SubmitOK
<1>7. CounterOK'
  <2>1. CASE wg > 0
    <3>1. pc' = pc /\ Ahead' = Ahead /\ Ahead \in Int
      BY <1>4, <2>1 DEF Ahead
    <3>2. wg' >= 0 /\ wg' <= Cardinality(Pending') + Ahead'
      BY <1>1, <1>2, <1>3, <2>1, <3>1
    <3>3. wg' <= Len(results') + (IF pc' = "appended" THEN -1 ELSE 0)
      BY <1>1, <1>2, <1>3, <3>1
    <3> QED BY <1>3, <3>1, <3>2, <3>3 DEF CounterOK
  <2>2. CASE ~(wg > 0)
    <3>1. pc' = "panic" /\ wg' = -1
      BY <1>1, <1>3, <1>4, <2>2
    <3> QED BY <1>1, <1>2, <3>1 DEF CounterOK
  <2> QED BY <2>1, <2>2
<1>8. UniqueOK'
  <2> SUFFICES ASSUME Unique' PROVE UniqueOK'
    BY DEF UniqueOK
  <2>1. Unique /\ kind # "reshare"
    BY DEF Unique
  <2>2. wg > 0
    BY <1>1, <2>1, CounterPositive
  <2>3. pc' = pc /\ Ahead' = Ahead /\ Ahead \in Int
    BY <1>4, <2>2 DEF Ahead
  <2>4. wg = Cardinality(Pending) + Ahead
    BY <2>1 DEF BenchmarkInv, UniqueOK
  <2>5. wg' = Cardinality(Pending') + Ahead'
    BY <1>1, <1>2, <2>3, <2>4
  <2>6. ASSUME NEW j \in 1..Len(results), results'[j].Completed
        PROVE  j \in stored \/ (j \in refused /\ ~(pc = "refused" /\ j = Len(results)))
    BY <1>1, <1>2, <2>1, <2>6 DEF BenchmarkInv, UniqueOK
  <2> QED BY <1>2, <1>3, <2>3, <2>5, <2>6 DEF UniqueOK
<1>9. SuccessOK'
  <2>0. results'[i].Success = b
    BY <1>2
  <2> SUFFICES ASSUME kind # "reshare", NEW j \in 1..Len(results),
                      results'[j].Completed, results'[j].Success
               PROVE  answer[j] = "success"
    BY <1>2 DEF SuccessOK
  <2>1. CASE j = i
    <3>1. answer[op] = "success"
      BY <1>0, <2>0, <2>1, Zenon
    <3> QED BY <1>1, <2>1, <3>1
  <2>2. CASE j # i
    BY <1>2, <2>2 DEF BenchmarkInv, SuccessOK
  <2> QED BY <2>1, <2>2
<1> QED BY <1>5, <1>6, <1>7, <1>8, <1>9, SameReport DEF BenchmarkInv

LEMMA DequeueStep ==
  ASSUME BenchmarkInv, NEW op \in queue, Dequeue(op) PROVE BenchmarkInv'
<1>1. /\ UNCHANGED <<kind, refused, report, stored, answer>>
      /\ queue' \subseteq queue /\ faults' \in 0..MaxFaults /\ Running
  BY BoundAssumption DEF Dequeue, clusterVars, BenchmarkInv, TypeOK, Fault
<1>2. CASE UNCHANGED <<pc, results, wg>>
  <2>1. Pending' = Pending /\ Ahead' = Ahead
    BY <1>2, SameResults DEF Ahead
  <2>2. TypeOK'
    BY <1>1, <1>2 DEF BenchmarkInv, TypeOK
  <2>3. SubmitOK' /\ CounterOK' /\ UniqueOK'
    BY <1>1, <1>2, <2>1 DEF BenchmarkInv, SubmitOK, CounterOK, UniqueOK, Unique
  <2> QED BY <1>1, <1>2, <2>2, <2>3, SameSuccess, SameReport DEF BenchmarkInv
<1>3. ASSUME NEW i \in Match(op), Complete(i, answer[op]), wg' = wg - 1, pc' = Counted(pc)
      PROVE  BenchmarkInv'
  BY <1>1, <1>3, OnResultStep
<1> QED BY <1>2, <1>3 DEF Dequeue, OnResult

-----------------------------------------------------------------------------
(* The theorems.                                                           *)

LEMMA BenchmarkStep ==
  ASSUME BenchmarkInv, [Next]_vars PROVE BenchmarkInv'
<1>1. CASE createMPCClient
  BY <1>1, CreateStep
<1>2. CASE AppendResult
  BY <1>2, AppendStep
<1>3. CASE AddOperation
  BY <1>3, AddStep
<1>4. CASE PublishRequest \/ PublishFails
  BY <1>4, PublishStep
<1>5. CASE CompleteRefused
  BY <1>5, CompleteStep
<1>6. CASE DoneRefused
  BY <1>6, DoneStep
<1>7. CASE Wait
  BY <1>7, WaitStep
<1>8. CASE Finish
  BY <1>8, FinishStep
<1>9. ASSUME NEW op \in Op, AnswerRequest(op) PROVE BenchmarkInv'
  BY <1>9, AnswerStep
<1>10. ASSUME NEW op \in queue, Dequeue(op) PROVE BenchmarkInv'
  BY <1>10, DequeueStep
<1>11. CASE UNCHANGED vars
  <2>1. UNCHANGED <<kind, pc, results, wg, refused, queue, report, faults, stored, answer>>
    BY <1>11 DEF vars, clusterVars
  <2>2. TypeOK' /\ SubmitOK'
    BY <2>1 DEF BenchmarkInv, TypeOK, SubmitOK
  <2>3. CounterOK' /\ UniqueOK'
    BY <2>1, SameResults DEF BenchmarkInv, CounterOK, UniqueOK, Unique, Ahead
  <2> QED BY <2>1, <2>2, <2>3, SameSuccess, SameReport DEF BenchmarkInv
<1> QED BY <1>1, <1>2, <1>3, <1>4, <1>5, <1>6, <1>7, <1>8, <1>9, <1>10, <1>11
        DEF Next, SubmitOperation

LEMMA BenchmarkInvariant == Spec => []BenchmarkInv
BY BenchmarkInit, BenchmarkStep, PTL DEF Spec

\* The variables keep their types: the counter does not exceed the operations
\* of the run, and is at least -1, where WaitGroup.Done panics.
THEOREM BenchmarkTypeCorrect == Spec => []TypeOK
BY BenchmarkInvariant, PTL DEF BenchmarkInv

\* The run never waits for its timeout when every operation is complete.
THEOREM WaitsHaveReason == Spec => []WaitHasReason
<1>1. ASSUME BenchmarkInv PROVE WaitHasReason
  <2> SUFFICES ASSUME pc = "waiting", Pending = {} PROVE wg <= 0
    BY DEF WaitHasReason
  <2>1. Cardinality(Pending) = 0
    BY FS_EmptySet
  <2> QED BY <1>1, <2>1 DEF BenchmarkInv, CounterOK, Ahead
<1> QED BY <1>1, BenchmarkInvariant, PTL

\* "All operations completed" is true of a benchmark with unique IDs none of
\* whose refused requests was stored, and its counter does not panic.
THEOREM DoneIsCompleted == Spec => []DoneMeansCompleted
<1>1. ASSUME BenchmarkInv PROVE DoneMeansCompleted
  <2> SUFFICES ASSUME Unique PROVE pc # "panic" /\ (pc = "done" => Pending = {})
    BY DEF DoneMeansCompleted, Unique
  <2>1. pc # "panic" /\ wg = Cardinality(Pending) + Ahead
    BY <1>1 DEF BenchmarkInv, UniqueOK
  <2>2. ASSUME pc = "done" PROVE Pending = {}
    <3>1. wg = 0 /\ Ahead = 0 /\ IsFiniteSet(Pending) /\ Cardinality(Pending) \in Nat
      BY <1>1, <2>2, PendingFinite DEF BenchmarkInv, TypeOK, SubmitOK, Ahead
    <3> QED BY <2>1, <3>1, FS_EmptySet
  <2> QED BY <2>1, <2>2
<1> QED BY <1>1, BenchmarkInvariant, PTL

\* The report of a benchmark with unique IDs calls no more operations
\* successful than the cluster has carried out.
THEOREM ReportsAreReal == Spec => []ReportIsReal
BY BenchmarkInvariant, PTL DEF BenchmarkInv
=============================================================================
