------------------------- MODULE StressTesterProofs -------------------------
(***************************************************************************)
(* Proofs about StressTester, for any set of threads, any window and any   *)
(* number of completions and reports.                                      *)
(***************************************************************************)
EXTENDS StressTester, FiniteSetTheorems, TLAPS

USE ThreadsFinite, WindowAssumption, BoundAssumption, EndingsAssumption
USE DEF workerVars, counterVars, reporterVars, totals

\* The window fills once and is then kept full.
WindowInv ==
    \A t \in Threads :
      /\ pc[t] = "fill"  => open[t] < requestsPerThread
      /\ pc[t] # "fill"  => open[t] = requestsPerThread
      /\ pc[t] \in {"latency", "completed", "count"} => outcome[t] \in Outcomes

\* Each pass over the counters begins with the first of them.
ItemInv == reporter \notin {"print", "reset"} => item = 1

\* The workers at one position.
At(p) == {t \in Threads : pc[t] = p}

\* completed is ahead of latency by at most one per worker, less those that are
\* still to add to it; only between the two resets is there no such bound.
LatencyFollows ==
    /\ reporter # "reset_completed" =>
         completed + Cardinality(At("completed")) <= latency + Cardinality(Threads)
    /\ reporter = "latency" => comp <= latency + Cardinality(Threads)

\* The inductive invariant.
IInv == TypeOK /\ WindowInv /\ ItemInv /\ OnlyWindowMissed

\* What bounds the skew is an invariant of its own, on top of the types.
SkewInv == LatencyFollows /\ AverageSkewIsBounded

-----------------------------------------------------------------------------
\* The counters have three different names.
LEMMA NamesAre ==
    /\ Names = {"authorized", "non_authorized", "failed"}
    /\ DOMAIN Counters = 1 .. 3 /\ Len(Counters) = 3
    /\ \A i \in 1 .. 3 : Counters[i] \in Names
    /\ \A i, j \in 1 .. 3 : Counters[i] = Counters[j] => i = j
    /\ \A k \in Names : \E i \in 1 .. 3 : Counters[i] = k
  BY DEF Names, Counters

\* Each outcome is counted in one of them.
LEMMA CounterOfType == \A s \in Outcomes : CounterOf(s) \in Names
  BY NamesAre DEF CounterOf, Outcomes

\* Nothing is open, counted or printed when the test begins.
LEMMA InitInv == Init => IInv
  BY NamesAre DEF Init, IInv, TypeOK, WindowInv, ItemInv, OnlyWindowMissed, PrintedNotReset

\* A worker only adds to the counters and keeps its window.
LEMMA WorkerStep ==
    ASSUME IInv, NEW t \in Threads, Run(t)
    PROVE  IInv'
<1>1. CASE Fill(t) \/ Completion(t) \/ AddLatency(t) \/ AddCompleted(t) \/ Resend(t)
  <2>1. UNCHANGED <<count, reporterVars, totals>>
    BY <1>1 DEF Fill, Completion, AddLatency, AddCompleted, Resend
  <2>2. ItemInv' /\ OnlyWindowMissed'
    BY <2>1 DEF IInv, ItemInv, OnlyWindowMissed, PrintedNotReset
  <2>3. TypeOK' /\ WindowInv'
    <3>1. CASE Fill(t)
      BY <2>1, <3>1 DEF Fill, IInv, TypeOK, WindowInv
    <3>2. CASE Completion(t)
      BY <2>1, <3>2 DEF Completion, IInv, TypeOK, WindowInv
    <3>3. CASE AddLatency(t)
      BY <2>1, <3>3 DEF AddLatency, IInv, TypeOK, WindowInv
    <3>4. CASE AddCompleted(t)
      BY <2>1, <3>4 DEF AddCompleted, IInv, TypeOK, WindowInv
    <3>5. CASE Resend(t)
      BY <2>1, <3>5 DEF Resend, IInv, TypeOK, WindowInv
    <3>6. QED
      BY <1>1, <3>1, <3>2, <3>3, <3>4, <3>5
  <2>4. QED
    BY <2>2, <2>3 DEF IInv
<1>2. CASE CountOutcome(t)
  <2> DEFINE k == CounterOf(outcome[t])
  <2>1. outcome[t] \in Outcomes /\ k \in Names
    BY <1>2, CounterOfType DEF CountOutcome, IInv, WindowInv
  <2>2. /\ count' = [count EXCEPT ![k] = @ + 1]
        /\ added' = [added EXCEPT ![k] = @ + 1]
        /\ UNCHANGED reporterVars
    BY <1>2 DEF CountOutcome
  <2> DEFINE late == \E i \in DOMAIN Counters : Counters[i] = k /\ PrintedNotReset(i)
  <2>3. missed' = [missed EXCEPT ![k] = @ + IF late THEN 1 ELSE 0]
    BY <1>2 DEF CountOutcome
  <2>4. TypeOK' /\ WindowInv'
    <3>1. missed' \in [Names -> Nat]
      <4> HIDE DEF late, k
      <4>1. (IF late THEN 1 ELSE 0) \in {0, 1}
        OBVIOUS
      <4>2. QED
        BY <2>1, <2>3, <4>1 DEF IInv, TypeOK
    <3>2. QED
      BY <1>2, <2>1, <2>2, <3>1 DEF CountOutcome, IInv, TypeOK, WindowInv
  <2>5. ASSUME NEW i \in DOMAIN Counters
        PROVE  LET c == Counters[i]
               IN  printed'[c] + missed'[c] + (IF PrintedNotReset(i)' THEN 0 ELSE count'[c])
                     = added'[c]
    <3>1. PrintedNotReset(i)' <=> PrintedNotReset(i)
      BY <2>2 DEF PrintedNotReset
    <3>2. CASE Counters[i] = k
      <4>1. late <=> PrintedNotReset(i)
        BY <3>2, NamesAre
      <4> HIDE DEF late, k
      <4>2. QED
        BY <2>1, <2>2, <2>3, <3>1, <3>2, <4>1, NamesAre DEF IInv, TypeOK, OnlyWindowMissed
    <3>3. CASE Counters[i] # k
      <4> HIDE DEF late, k
      <4>1. QED
        BY <2>1, <2>2, <2>3, <3>1, <3>3, NamesAre DEF IInv, TypeOK, OnlyWindowMissed
    <3>4. QED
      BY <3>2, <3>3
  <2>6. OnlyWindowMissed'
    BY <2>5 DEF OnlyWindowMissed
  <2>7. ItemInv'
    BY <2>2 DEF IInv, ItemInv
  <2>8. QED
    BY <2>4, <2>6, <2>7 DEF IInv
<1>3. QED
  BY <1>1, <1>2 DEF Run

\* What is printed is reset, in the same order, before it can be printed again.
LEMMA ReportStep ==
    ASSUME IInv, Report
    PROVE  IInv'
<1>1. WindowInv'
  BY DEF Report, LoadCompleted, LoadLatency, PrintCounter, ResetCounter, ResetLatency,
         ResetCompleted, IInv, WindowInv
<1>2. CASE LoadCompleted \/ LoadLatency \/ ResetLatency \/ ResetCompleted
  <2>1. TypeOK' /\ ItemInv'
    BY <1>2 DEF LoadCompleted, LoadLatency, ResetLatency, ResetCompleted, IInv, TypeOK,
                ItemInv
  <2>2. UNCHANGED <<count, printed, totals>>
    BY <1>2 DEF LoadCompleted, LoadLatency, ResetLatency, ResetCompleted
  <2>3. \A i \in DOMAIN Counters : ~PrintedNotReset(i) /\ ~PrintedNotReset(i)'
    BY <1>2, NamesAre DEF LoadCompleted, LoadLatency, ResetLatency, ResetCompleted, IInv,
                          ItemInv, PrintedNotReset
  <2>4. OnlyWindowMissed'
    BY <2>2, <2>3 DEF IInv, OnlyWindowMissed
  <2>5. QED
    BY <1>1, <2>1, <2>4 DEF IInv
<1>3. CASE PrintCounter
  <2>1. TypeOK' /\ ItemInv'
    BY <1>3, NamesAre DEF PrintCounter, IInv, TypeOK, ItemInv
  <2>2. /\ ~PrintedNotReset(item)
        /\ \A i \in 1 .. 3 : PrintedNotReset(i)' <=> i = item \/ PrintedNotReset(i)
    BY <1>3, NamesAre DEF PrintCounter, IInv, TypeOK, PrintedNotReset
  <2>3. /\ printed' = [printed EXCEPT ![Counters[item]] = @ + count[Counters[item]]]
        /\ UNCHANGED <<count, totals>>
    BY <1>3 DEF PrintCounter
  <2>4. OnlyWindowMissed'
    BY <2>2, <2>3, NamesAre DEF IInv, TypeOK, OnlyWindowMissed
  <2>5. QED
    BY <1>1, <2>1, <2>4 DEF IInv
<1>4. CASE ResetCounter
  <2>1. TypeOK' /\ ItemInv'
    BY <1>4, NamesAre DEF ResetCounter, IInv, TypeOK, ItemInv
  <2>2. /\ PrintedNotReset(item)
        /\ \A i \in 1 .. 3 : PrintedNotReset(i)' <=> i # item /\ PrintedNotReset(i)
    BY <1>4, NamesAre DEF ResetCounter, IInv, TypeOK, PrintedNotReset
  <2>3. /\ count' = [count EXCEPT ![Counters[item]] = 0]
        /\ UNCHANGED <<printed, totals>>
    BY <1>4 DEF ResetCounter
  <2>4. OnlyWindowMissed'
    BY <2>2, <2>3, NamesAre DEF IInv, TypeOK, OnlyWindowMissed
  <2>5. QED
    BY <1>1, <2>1, <2>4 DEF IInv
<1>5. QED
  BY <1>2, <1>3, <1>4 DEF Report

-----------------------------------------------------------------------------
\* IInv holds throughout a test.
THEOREM Invariance == Spec => []IInv
<1>1. ASSUME IInv, [Next]_vars PROVE IInv'
  <2>1. CASE UNCHANGED vars
    BY <1>1, <2>1 DEF vars, IInv, TypeOK, WindowInv, ItemInv, OnlyWindowMissed, PrintedNotReset
  <2>2. QED
    BY <1>1, <2>1, WorkerStep, ReportStep DEF Next
<1>2. QED
  BY InitInv, <1>1, PTL DEF Spec

\* No thread has more calls open than its window, however calls end
\* (StressTester.cpp:52-86).
THEOREM TypeCorrect == Spec => []TypeOK
<1>1. IInv => TypeOK
  BY DEF IInv
<1>2. QED
  BY Invariance, <1>1, PTL

\* Outcomes are missed between a load and the reset, and only there; none is
\* reported twice (StressTester.cpp:70-81, 117-127).
THEOREM MissedInTheWindowOnly == Spec => []OnlyWindowMissed
<1>1. IInv => OnlyWindowMissed
  BY DEF IInv
<1>2. QED
  BY Invariance, <1>1, PTL

-----------------------------------------------------------------------------
\* Counting the workers at a position: there are at most as many as workers.
LEMMA AtFinite ==
    \A p : /\ IsFiniteSet(At(p))
           /\ Cardinality(At(p)) \in Nat /\ Cardinality(Threads) \in Nat
           /\ Cardinality(At(p)) <= Cardinality(Threads)
<1>1. ASSUME NEW p
      PROVE  IsFiniteSet(At(p)) /\ Cardinality(At(p)) <= Cardinality(Threads)
  BY FS_Subset DEF At
<1>2. QED
  BY <1>1, FS_CardinalityType

\* A worker that comes to a position is one more there, one that leaves it one less.
LEMMA Move ==
    ASSUME TypeOK, NEW t \in Threads, NEW q, q # pc[t],
           pc' = [pc EXCEPT ![t] = q]
    PROVE  Cardinality(At("completed"))' =
             IF q = "completed" THEN Cardinality(At("completed")) + 1
             ELSE IF pc[t] = "completed" THEN Cardinality(At("completed")) - 1
             ELSE Cardinality(At("completed"))
<1>1. CASE q = "completed"
  <2>1. At("completed")' = At("completed") \cup {t} /\ t \notin At("completed")
    BY <1>1 DEF At, TypeOK
  <2>2. QED
    BY <1>1, <2>1, AtFinite, FS_AddElement
<1>2. CASE q # "completed" /\ pc[t] = "completed"
  <2>1. At("completed")' = At("completed") \ {t} /\ t \in At("completed")
    BY <1>2 DEF At, TypeOK
  <2>2. QED
    BY <1>2, <2>1, AtFinite, FS_RemoveElement
<1>3. CASE q # "completed" /\ pc[t] # "completed"
  <2>1. At("completed")' = At("completed")
    BY <1>3 DEF At, TypeOK
  <2>2. QED
    BY <1>3, <2>1
<1>4. QED
  BY <1>1, <1>2, <1>3

\* A worker adds a latency when it comes to "completed" and to completed when
\* it leaves.
LEMMA WorkerSkew ==
    ASSUME TypeOK, SkewInv, NEW t \in Threads, Run(t)
    PROVE  SkewInv'
<1>1. UNCHANGED reporterVars
  BY DEF Run, Fill, Completion, AddLatency, AddCompleted, CountOutcome, Resend
<1>2. /\ Cardinality(At("completed")) \in Nat /\ Cardinality(Threads) \in Nat
      /\ completed \in Nat /\ latency \in Nat /\ comp \in Nat
  BY AtFinite DEF TypeOK
<1>3. CASE AddLatency(t)
  <2>1. Cardinality(At("completed"))' = Cardinality(At("completed")) + 1
    BY <1>3, Move DEF AddLatency
  <2>2. latency' = latency + 1 /\ completed' = completed
    BY <1>3 DEF AddLatency
  <2>3. QED
    BY <1>1, <1>2, <2>1, <2>2 DEF SkewInv, LatencyFollows, AverageSkewIsBounded
<1>4. CASE AddCompleted(t)
  <2>1. Cardinality(At("completed"))' = Cardinality(At("completed")) - 1
    <3>1. pc[t] = "completed" /\ pc' = [pc EXCEPT ![t] = "count"]
      BY <1>4 DEF AddCompleted
    <3>2. "count" # pc[t] /\ "count" # "completed"
      BY <3>1
    <3>3. QED
      BY <3>1, <3>2, Move
  <2>2. latency' = latency /\ completed' = completed + 1
    BY <1>4 DEF AddCompleted
  <2>3. QED
    BY <1>1, <1>2, <2>1, <2>2 DEF SkewInv, LatencyFollows, AverageSkewIsBounded
<1>5. CASE Fill(t) \/ Completion(t) \/ CountOutcome(t) \/ Resend(t)
  <2> DEFINE elsewhere == {"fill", "next", "latency", "count", "resend"}
  <2>1. pc[t] \in elsewhere /\ \E q \in elsewhere : pc' = [pc EXCEPT ![t] = q]
    <3>1. CASE Fill(t)
      BY <3>1 DEF Fill
    <3>2. CASE Completion(t) \/ CountOutcome(t) \/ Resend(t)
      BY <3>2 DEF Completion, CountOutcome, Resend
    <3>3. QED
      BY <1>5, <3>1, <3>2
  <2>2. At("completed")' = At("completed")
    BY <2>1 DEF At, TypeOK
  <2>3. latency' = latency /\ completed' = completed
    BY <1>5 DEF Fill, Completion, CountOutcome, Resend
  <2>4. QED
    BY <1>1, <2>2, <2>3 DEF SkewInv, LatencyFollows, AverageSkewIsBounded
<1>6. QED
  BY <1>3, <1>4, <1>5 DEF Run

\* completed is loaded before latency, and a report ends with both at zero, but
\* for the calls of workers that are between the two.
LEMMA ReportSkew ==
    ASSUME TypeOK, SkewInv, Report
    PROVE  SkewInv'
<1>1. /\ Cardinality(At("completed")) \in Nat /\ Cardinality(Threads) \in Nat
      /\ Cardinality(At("completed")) <= Cardinality(Threads)
      /\ completed \in Nat /\ latency \in Nat /\ comp \in Nat /\ lat \in Nat
  BY AtFinite DEF TypeOK
<1>2. pc' = pc
  BY DEF Report, LoadCompleted, LoadLatency, PrintCounter, ResetCounter, ResetLatency,
         ResetCompleted
<1>3. At("completed")' = At("completed")
  BY <1>2 DEF At
<1>4. CASE LoadCompleted
  BY <1>1, <1>3, <1>4 DEF LoadCompleted, SkewInv, LatencyFollows, AverageSkewIsBounded
<1>5. CASE LoadLatency
  BY <1>1, <1>3, <1>5 DEF LoadLatency, SkewInv, LatencyFollows, AverageSkewIsBounded
<1>6. CASE PrintCounter
  BY <1>3, <1>6 DEF PrintCounter, SkewInv, LatencyFollows, AverageSkewIsBounded
<1>7. CASE ResetCounter
  BY <1>3, <1>7 DEF ResetCounter, SkewInv, LatencyFollows, AverageSkewIsBounded
<1>8. CASE ResetLatency
  BY <1>8 DEF ResetLatency, SkewInv, LatencyFollows, AverageSkewIsBounded
<1>9. CASE ResetCompleted
  BY <1>1, <1>3, <1>9 DEF ResetCompleted, SkewInv, LatencyFollows, AverageSkewIsBounded
<1>10. QED
  BY <1>4, <1>5, <1>6, <1>7, <1>8, <1>9 DEF Report

\* However the workers interleave with the resets, and however long the test
\* runs, a printed average is over at most one call per worker more than have
\* their latency in the sum (StressTester.cpp:62-68, 117-127).
THEOREM SkewBounded == Spec => []AverageSkewIsBounded
<1>1. Init => SkewInv
  <2>1. Init => At("completed") = {}
    BY DEF Init, At
  <2>2. Cardinality({}) = 0
    BY FS_EmptySet
  <2>3. Cardinality(Threads) \in Nat
    BY AtFinite
  <2>4. QED
    BY <2>1, <2>2, <2>3 DEF Init, SkewInv, LatencyFollows, AverageSkewIsBounded
<1>2. ASSUME TypeOK, SkewInv, [Next]_vars PROVE SkewInv'
  <2>1. CASE UNCHANGED vars
    BY <1>2, <2>1 DEF vars, SkewInv, LatencyFollows, AverageSkewIsBounded, At
  <2>2. QED
    BY <1>2, <2>1, WorkerSkew, ReportSkew DEF Next
<1>3. SkewInv => AverageSkewIsBounded
  BY DEF SkewInv
<1>4. QED
  BY <1>1, <1>2, <1>3, TypeCorrect, PTL DEF Spec
=============================================================================
