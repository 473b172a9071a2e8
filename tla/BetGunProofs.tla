---------------------------- MODULE BetGunProofs ----------------------------
(***************************************************************************)
(* Proofs about BetGun, for any number of workers, calls and reports.      *)
(***************************************************************************)
EXTENDS BetGun, FiniteSetTheorems, TLAPS

\* The workers at one position.
At(p) == {w \in Workers : pc[w] = p}

\* As much of TypeOK as the sums below need.
Counts ==
    /\ pc      \in [Workers -> {"loop", "call", "latency", "completed", "count", "returned"}]
    /\ outcome \in [Workers -> Names \cup {None}]
    /\ \A w \in Workers : pc[w] \in {"latency", "completed", "count"} => outcome[w] \in Names
    /\ count   \in [Names -> Nat]
    /\ printed \in [Names -> Nat]
    /\ added   \in [Names -> Nat]
    /\ completed \in Nat /\ latency \in Nat
    /\ compTaken \in Nat /\ latTaken \in Nat
    /\ item \in DOMAIN Counters

\* The sum of latencies is ahead of completed by the calls between the two.
LatencyLeads ==
    latTaken + latency = compTaken + completed + Cardinality(At("completed"))

\* CompletedIsAllOfThem, in terms of At.
Balanced ==
    compTaken + completed =
      added["success"] + added["rejected"] + added["failed"] + Cardinality(At("count"))

\* The inductive invariant.
IInv == Counts /\ NothingLost /\ Balanced /\ LatencyLeads /\ NoLatencyOwed

-----------------------------------------------------------------------------
USE WorkersFinite
USE DEF workerVars, counterVars, reporterVars

\* The three counters of outcomes.
LEMMA NamesAre == Names = {"success", "rejected", "failed"} /\ DOMAIN Counters = 1 .. 3
  BY DEF Names, Counters

\* Counting the workers at a position needs only that there are finitely many.
LEMMA AtFinite == \A p : IsFiniteSet(At(p)) /\ Cardinality(At(p)) \in Nat
<1>1. ASSUME NEW p PROVE IsFiniteSet(At(p))
  BY FS_Subset DEF At
<1>2. QED
  BY <1>1, FS_CardinalityType

\* When one worker moves, one leaves its position and one enters another.
LEMMA Move ==
    ASSUME Counts, NEW w \in Workers, NEW q, q # pc[w],
           pc' = [pc EXCEPT ![w] = q]
    PROVE  \A p : Cardinality(At(p))' = IF p = q THEN Cardinality(At(p)) + 1
                                       ELSE IF p = pc[w] THEN Cardinality(At(p)) - 1
                                       ELSE Cardinality(At(p))
<1>1. ASSUME NEW p, p = q
      PROVE  Cardinality(At(p))' = Cardinality(At(p)) + 1
  <2>1. At(p)' = At(p) \cup {w} /\ w \notin At(p)
    BY <1>1 DEF At, Counts
  <2>2. QED
    BY <2>1, AtFinite, FS_AddElement
<1>2. ASSUME NEW p, p # q, p = pc[w]
      PROVE  Cardinality(At(p))' = Cardinality(At(p)) - 1
  <2>1. At(p)' = At(p) \ {w} /\ w \in At(p)
    BY <1>2 DEF At, Counts
  <2>2. QED
    BY <2>1, AtFinite, FS_RemoveElement
<1>3. ASSUME NEW p, p # q, p # pc[w]
      PROVE  At(p)' = At(p)
  BY <1>3 DEF At, Counts
<1>4. QED
  BY <1>1, <1>2, <1>3

\* Fire starts with all counters at zero and nobody past the loop.
LEMMA InitInv == Init => IInv
<1>1. Init => At("completed") = {} /\ At("count") = {}
  BY DEF Init, At
<1>2. Cardinality({}) = 0
  BY FS_EmptySet
<1>3. Init => Counts /\ NothingLost
  BY NamesAre DEF Init, Counts, NothingLost
<1>4. QED
  BY <1>1, <1>2, <1>3, NamesAre
     DEF Init, IInv, Balanced, LatencyLeads, NoLatencyOwed

\* The steps of a worker outside the counters of outcomes.
LEMMA WorkerStep ==
    ASSUME IInv, NEW w \in Workers,
           \/ WorkerReturns(w) \/ StartCall(w) \/ CallAnswered(w) \/ CallCancelled(w)
           \/ AddLatency(w) \/ AddCompleted(w)
    PROVE  IInv'
<1> DEFINE Positions == {"loop", "call", "latency", "completed", "count", "returned"}
<1>1. PICK q \in Positions :
        /\ q # pc[w] /\ pc' = [pc EXCEPT ![w] = q]
        /\ pc[w] = "latency" <=> q = "completed"
        /\ pc[w] = "completed" <=> q = "count"
        /\ pc[w] # "count"
        /\ q \in {"latency", "completed", "count"} =>
             outcome'[w] \in Names /\ outcome' \in [Workers -> Names \cup {None}]
  <2>1. CASE WorkerReturns(w)
    BY <2>1 DEF WorkerReturns
  <2>2. CASE StartCall(w)
    BY <2>2 DEF StartCall
  <2>3. CASE CallAnswered(w)
    BY <2>3 DEF CallAnswered, IInv, Counts
  <2>4. CASE CallCancelled(w)
    BY <2>4, NamesAre DEF CallCancelled, IInv, Counts
  <2>5. CASE AddLatency(w)
    BY <2>5 DEF AddLatency, IInv, Counts
  <2>6. CASE AddCompleted(w)
    BY <2>6 DEF AddCompleted, IInv, Counts
  <2>7. QED
    BY <2>1, <2>2, <2>3, <2>4, <2>5, <2>6
<1>2. /\ UNCHANGED <<count, reporterVars, added>>
      /\ latency' = IF q = "completed" THEN latency + 1 ELSE latency
      /\ completed' = IF q = "count" THEN completed + 1 ELSE completed
      /\ \A v \in Workers \ {w} : outcome'[v] = outcome[v]
      /\ outcome' \in [Workers -> Names \cup {None}]
  BY <1>1, NamesAre DEF WorkerReturns, StartCall, CallAnswered, CallCancelled,
         AddLatency, AddCompleted, IInv, Counts
<1>3. Counts'
  <2>1. pc' \in [Workers -> Positions]
    BY <1>1 DEF IInv, Counts
  <2>2. \A v \in Workers : pc'[v] \in {"latency", "completed", "count"}
                             => outcome'[v] \in Names
    BY <1>1, <1>2 DEF IInv, Counts
  <2>3. QED
    BY <1>2, <2>1, <2>2 DEF IInv, Counts
<1>4. /\ Cardinality(At("completed"))' =
            IF q = "completed" THEN Cardinality(At("completed")) + 1
            ELSE IF q = "count" THEN Cardinality(At("completed")) - 1
            ELSE Cardinality(At("completed"))
      /\ Cardinality(At("count"))' =
            IF q = "count" THEN Cardinality(At("count")) + 1
            ELSE Cardinality(At("count"))
  BY <1>1, Move DEF IInv
<1>5. Cardinality(At("completed")) \in Nat /\ Cardinality(At("count")) \in Nat
  BY AtFinite
<1>6. Balanced' /\ LatencyLeads'
  BY <1>2, <1>4, <1>5, NamesAre DEF IInv, Counts, Balanced, LatencyLeads
<1>7. NothingLost' /\ NoLatencyOwed'
  BY <1>2 DEF IInv, NothingLost, NoLatencyOwed
<1>8. QED
  BY <1>3, <1>6, <1>7 DEF IInv

\* A worker counts the outcome of its call.
LEMMA CountStep ==
    ASSUME IInv, NEW w \in Workers, CountOutcome(w)
    PROVE  IInv'
<1> DEFINE k == outcome[w]
<1>1. k \in Names
  BY DEF CountOutcome, IInv, Counts
<1>2. /\ pc[w] = "count" /\ pc' = [pc EXCEPT ![w] = "loop"]
      /\ outcome' = [outcome EXCEPT ![w] = None]
      /\ count' = [count EXCEPT ![k] = @ + 1]
      /\ added' = [added EXCEPT ![k] = @ + 1]
      /\ UNCHANGED <<completed, latency, reporterVars>>
  BY DEF CountOutcome
<1> HIDE DEF k
<1>3. Counts'
  BY <1>1, <1>2 DEF IInv, Counts
<1>4. NothingLost'
  BY <1>1, <1>2 DEF IInv, Counts, NothingLost
<1>5. /\ Cardinality(At("completed"))' = Cardinality(At("completed"))
      /\ Cardinality(At("count"))' = Cardinality(At("count")) - 1
  BY <1>2, Move DEF IInv
<1>6. Cardinality(At("completed")) \in Nat /\ Cardinality(At("count")) \in Nat
  BY AtFinite
<1>7. added'["success"] + added'["rejected"] + added'["failed"]
        = added["success"] + added["rejected"] + added["failed"] + 1
  BY <1>1, <1>2, NamesAre DEF IInv, Counts
<1>8. \A n \in Names : added[n] \in Nat /\ added'[n] \in Nat
  BY <1>3 DEF IInv, Counts
<1>9. Balanced'
  BY <1>2, <1>5, <1>6, <1>7, <1>8, NamesAre DEF IInv, Counts, Balanced
<1>10. LatencyLeads' /\ NoLatencyOwed'
  BY <1>2, <1>5 DEF IInv, LatencyLeads, NoLatencyOwed
<1>11. QED
  BY <1>3, <1>4, <1>9, <1>10 DEF IInv

\* The end of the context, Fire's return and the steps of the reporter.
LEMMA ReportStep ==
    ASSUME IInv, CtxEnds \/ FireReturns \/ Report
    PROVE  IInv'
<1>1. UNCHANGED <<workerVars, added>>
  BY DEF CtxEnds, FireReturns, Report, ReporterReturns, SwapCompleted, SwapLatency,
         SwapCounter
<1>2. \A p : At(p)' = At(p)
  BY <1>1 DEF At
<1>3. Cardinality(At("completed")) \in Nat /\ Cardinality(At("count")) \in Nat
  BY AtFinite
<1>4. CASE CtxEnds \/ FireReturns \/ ReporterReturns
  <2>1. UNCHANGED <<workerVars, counterVars, item, printed, compTaken, latTaken, added>>
    BY <1>4 DEF CtxEnds, FireReturns, ReporterReturns
  <2>2. reporter' = "latency" <=> reporter = "latency"
    BY <1>4 DEF CtxEnds, FireReturns, ReporterReturns
  <2>3. QED
    BY <1>2, <2>1, <2>2 DEF IInv, Counts, NothingLost, Balanced, LatencyLeads,
           NoLatencyOwed
<1>5. CASE SwapCompleted
  BY <1>1, <1>2, <1>3, <1>5 DEF SwapCompleted, IInv, Counts, NothingLost, Balanced,
         LatencyLeads, NoLatencyOwed
<1>6. CASE SwapLatency
  BY <1>1, <1>2, <1>3, <1>6 DEF SwapLatency, IInv, Counts, NothingLost, Balanced,
         LatencyLeads, NoLatencyOwed
<1>7. CASE SwapCounter
  <2>1. Counters[item] \in Names
    BY DEF IInv, Counts, Names
  <2>2. item' \in DOMAIN Counters
    BY <1>7, NamesAre DEF SwapCounter, IInv, Counts, Counters
  <2>3. /\ printed' = [printed EXCEPT ![Counters[item]] = @ + count[Counters[item]]]
        /\ count' = [count EXCEPT ![Counters[item]] = 0]
        /\ UNCHANGED <<completed, latency, compTaken, latTaken>>
    BY <1>7 DEF SwapCounter
  <2>4. Counts'
    BY <1>1, <2>1, <2>2, <2>3 DEF IInv, Counts
  <2>5. NothingLost'
    BY <1>1, <2>1, <2>3 DEF IInv, Counts, NothingLost
  <2>6. reporter # "latency" /\ reporter' # "latency"
    BY <1>7 DEF SwapCounter
  <2>7. Balanced' /\ LatencyLeads' /\ NoLatencyOwed'
    BY <1>1, <1>2, <2>3, <2>6 DEF IInv, Balanced, LatencyLeads, NoLatencyOwed
  <2>8. QED
    BY <2>4, <2>5, <2>7 DEF IInv
<1>8. QED
  BY <1>4, <1>5, <1>6, <1>7 DEF Report

-----------------------------------------------------------------------------
\* The counters stay in step with one another however workers and reporter
\* interleave (betgun.go:83-99, 116-134).
THEOREM Invariance == Spec => []IInv
<1>1. ASSUME IInv, [Next]_vars PROVE IInv'
  <2>1. CASE UNCHANGED vars
    BY <1>1, <2>1 DEF vars, IInv, Counts, NothingLost, Balanced, LatencyLeads,
           NoLatencyOwed, At
  <2>2. CASE CtxEnds \/ FireReturns \/ Report
    BY <1>1, <2>2, ReportStep
  <2>3. ASSUME NEW w \in Workers, Worker(w) PROVE IInv'
    BY <1>1, <2>3, WorkerStep, CountStep DEF Worker
  <2>4. QED
    BY <1>1, <2>1, <2>2, <2>3 DEF Next
<1>2. QED
  BY InitInv, <1>1, PTL DEF Spec

\* Swap(0) loses no outcome and prints none twice (betgun.go:131).
THEOREM SwapLosesNothing == Spec => []NothingLost
<1>1. IInv => NothingLost
  BY DEF IInv
<1>2. QED
  BY Invariance, <1>1, PTL

\* completed is the sum of the three outcomes, but for calls that are just being
\* counted (betgun.go:29, 88-98).
THEOREM CompletedCountsAll == Spec => []CompletedIsAllOfThem
<1>1. IInv => CompletedIsAllOfThem
  BY DEF IInv, Balanced, At, CompletedIsAllOfThem
<1>2. QED
  BY Invariance, <1>1, PTL

\* No report divides the latencies by calls whose latency it has not taken
\* (betgun.go:125-129).
THEOREM LatencyTakenFirst == Spec => []NoLatencyOwed
<1>1. IInv => NoLatencyOwed
  BY DEF IInv
<1>2. QED
  BY Invariance, <1>1, PTL
=============================================================================
