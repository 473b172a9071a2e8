------------------------------- MODULE BetGun -------------------------------
(***************************************************************************)
(* The load generator of the betting service, Services/bet_service/betgun: *)
(* worker goroutines that call PlaceBet back to back and count the         *)
(* outcomes in atomics, and a reporter that takes the counters once a      *)
(* second with Swap(0).  All of them stop when the context ends.           *)
(*                                                                         *)
(* Every Add and Swap is a step.  The latency of a call is one unit, so    *)
(* that a sum of latencies counts calls.                                   *)
(***************************************************************************)
EXTENDS Naturals, Sequences, FiniteSets

CONSTANTS Workers,   \* goroutines running worker()
          MaxCalls,  \* bound: calls that each of them starts
          None

ASSUME WorkersFinite   == IsFiniteSet(Workers)
ASSUME BoundAssumption == MaxCalls \in Nat

\* The counters of outcomes, in the order in which report() takes them.
Counters == <<"success", "rejected", "failed">>
Names    == {Counters[i] : i \in DOMAIN Counters}

VARIABLES
    ctxDone,   \* the context of Fire is cancelled or past its deadline
    pc,        \* pc[w]: where worker w is
    outcome,   \* outcome[w]: the counter its last call belongs to, or None
    calls,     \* calls[w]: calls it has started
    count,     \* count[k]: the atomics success, rejected and failed
    completed, \* g.completed
    latency,   \* g.totalLatNs
    fire,      \* Fire: "running" or "returned"
    reporter,  \* where report() is
    item,      \* the counter it takes next
    printed,   \* printed[k]: sum of what it took from count[k]
    compTaken, latTaken,  \* sums of what it took from completed and latency
    added      \* added[k]: how often count[k] was incremented

workerVars   == <<pc, outcome, calls>>
counterVars  == <<count, completed, latency>>
reporterVars == <<reporter, item, printed, compTaken, latTaken>>
vars         == <<ctxDone, workerVars, counterVars, fire, reporterVars, added>>

Init ==
    /\ ctxDone = FALSE
    /\ pc      = [w \in Workers |-> "loop"]
    /\ outcome = [w \in Workers |-> None]
    /\ calls   = [w \in Workers |-> 0]
    /\ count   = [k \in Names |-> 0]
    /\ completed = 0 /\ latency = 0
    /\ fire = "running"
    /\ reporter = "tick" /\ item = 1
    /\ printed = [k \in Names |-> 0]
    /\ compTaken = 0 /\ latTaken = 0
    /\ added = [k \in Names |-> 0]

\* The duration is over, or a signal has arrived.
CtxEnds ==
    /\ ~ctxDone
    /\ ctxDone' = TRUE
    /\ UNCHANGED <<workerVars, counterVars, fire, reporterVars, added>>

-----------------------------------------------------------------------------
(* worker() and sendOne() *)

WorkerReturns(w) ==
    /\ pc[w] = "loop"
    /\ ctxDone
    /\ pc' = [pc EXCEPT ![w] = "returned"]
    /\ UNCHANGED <<ctxDone, outcome, calls, counterVars, fire, reporterVars, added>>

StartCall(w) ==
    /\ pc[w] = "loop"
    /\ ~ctxDone
    /\ calls[w] < MaxCalls
    /\ calls' = [calls EXCEPT ![w] = @ + 1]
    /\ pc' = [pc EXCEPT ![w] = "call"]
    /\ UNCHANGED <<ctxDone, outcome, counterVars, fire, reporterVars, added>>

\* Variant: calls that failed are not timed.
AnsweredUntimed(w) ==
    /\ pc[w] = "call"
    /\ \E k \in Names :
         /\ outcome' = [outcome EXCEPT ![w] = k]
         /\ pc' = [pc EXCEPT ![w] = IF k = "failed" THEN "completed" ELSE "latency"]
    /\ UNCHANGED <<ctxDone, calls, counterVars, fire, reporterVars, added>>

\* PlaceBet returns with a response or an error.
CallAnswered(w) ==
    /\ pc[w] = "call"
    /\ \E k \in Names : outcome' = [outcome EXCEPT ![w] = k]
    /\ pc' = [pc EXCEPT ![w] = "latency"]
    /\ UNCHANGED <<ctxDone, calls, counterVars, fire, reporterVars, added>>

\* Variant: PlaceBet is not given the context of Fire.
CallOutlivesContext(w) ==
    /\ pc[w] = "call"
    /\ ctxDone
    /\ UNCHANGED vars

\* PlaceBet returns an error because the context has ended.
CallCancelled(w) ==
    /\ pc[w] = "call"
    /\ ctxDone
    /\ outcome' = [outcome EXCEPT ![w] = "failed"]
    /\ pc' = [pc EXCEPT ![w] = "latency"]
    /\ UNCHANGED <<ctxDone, calls, counterVars, fire, reporterVars, added>>

AddLatency(w) ==
    /\ pc[w] = "latency"
    /\ latency' = latency + 1
    /\ pc' = [pc EXCEPT ![w] = "completed"]
    /\ UNCHANGED <<ctxDone, outcome, calls, count, completed, fire, reporterVars, added>>

AddCompleted(w) ==
    /\ pc[w] = "completed"
    /\ completed' = completed + 1
    /\ pc' = [pc EXCEPT ![w] = "count"]
    /\ UNCHANGED <<ctxDone, outcome, calls, count, latency, fire, reporterVars, added>>

\* Variant: a worker that notices the end of the context leaves without counting.
LeaveUncounted(w) ==
    /\ pc[w] = "count"
    /\ IF ctxDone
         THEN UNCHANGED <<count, added>>
         ELSE /\ count' = [count EXCEPT ![outcome[w]] = @ + 1]
              /\ added' = [added EXCEPT ![outcome[w]] = @ + 1]
    /\ outcome' = [outcome EXCEPT ![w] = None]
    /\ pc' = [pc EXCEPT ![w] = "loop"]
    /\ UNCHANGED <<ctxDone, calls, completed, latency, fire, reporterVars>>

CountOutcome(w) ==
    /\ pc[w] = "count"
    /\ count' = [count EXCEPT ![outcome[w]] = @ + 1]
    /\ added' = [added EXCEPT ![outcome[w]] = @ + 1]
    /\ outcome' = [outcome EXCEPT ![w] = None]
    /\ pc' = [pc EXCEPT ![w] = "loop"]
    /\ UNCHANGED <<ctxDone, calls, completed, latency, fire, reporterVars>>

\* wg.Wait()
FireReturns ==
    /\ fire = "running"
    /\ \A w \in Workers : pc[w] = "returned"
    /\ fire' = "returned"
    /\ UNCHANGED <<ctxDone, workerVars, counterVars, reporterVars, added>>

-----------------------------------------------------------------------------
(* report(), for which Fire does not wait *)

ReporterReturns ==
    /\ reporter = "tick"
    /\ ctxDone
    /\ reporter' = "returned"
    /\ UNCHANGED <<ctxDone, workerVars, counterVars, fire, item, printed,
                   compTaken, latTaken, added>>

\* The ticker may win over a context that is done: select picks either.
SwapCompleted ==
    /\ reporter = "tick"
    /\ compTaken' = compTaken + completed
    /\ completed' = 0
    /\ reporter' = IF completed > 0 THEN "latency" ELSE "print"
    /\ UNCHANGED <<ctxDone, workerVars, count, latency, fire, item, printed,
                   latTaken, added>>

SwapLatency ==
    /\ reporter = "latency"
    /\ latTaken' = latTaken + latency
    /\ latency' = 0
    /\ reporter' = "print"
    /\ UNCHANGED <<ctxDone, workerVars, count, completed, fire, item,
                   printed, compTaken, added>>

\* Variant: Load instead of Swap.
SwapForgetful ==
    LET k == Counters[item]
    IN  /\ reporter = "print"
        /\ printed' = [printed EXCEPT ![k] = @ + count[k]]
        /\ IF item < Len(Counters)
             THEN item' = item + 1 /\ UNCHANGED reporter
             ELSE item' = 1 /\ reporter' = "tick"
        /\ UNCHANGED <<ctxDone, workerVars, counterVars, fire, compTaken,
                       latTaken, added>>

\* The arguments of Printf, from left to right.
SwapCounter ==
    LET k == Counters[item]
    IN  /\ reporter = "print"
        /\ printed' = [printed EXCEPT ![k] = @ + count[k]]
        /\ count' = [count EXCEPT ![k] = 0]
        /\ IF item < Len(Counters)
             THEN item' = item + 1 /\ UNCHANGED reporter
             ELSE item' = 1 /\ reporter' = "tick"
        /\ UNCHANGED <<ctxDone, workerVars, completed, latency, fire, compTaken,
                       latTaken, added>>

-----------------------------------------------------------------------------
Worker(w) ==
    \/ WorkerReturns(w) \/ StartCall(w)
    \/ CallAnswered(w) \/ CallCancelled(w)
    \/ AddLatency(w) \/ AddCompleted(w) \/ CountOutcome(w)

Report == ReporterReturns \/ SwapCompleted \/ SwapLatency \/ SwapCounter

Next ==
    \/ CtxEnds
    \/ \E w \in Workers : Worker(w)
    \/ Report
    \/ FireReturns

Spec == Init /\ [][Next]_vars

\* The timer of the context goes off, and goroutines run on.  A call need not be
\* answered; it does return once its context has ended.
Fairness ==
    /\ WF_vars(CtxEnds)
    /\ WF_vars(FireReturns)
    /\ \A w \in Workers :
         /\ WF_vars(WorkerReturns(w))
         /\ WF_vars(CallCancelled(w))
         /\ WF_vars(AddLatency(w) \/ AddCompleted(w) \/ CountOutcome(w))

FairSpec == Spec /\ Fairness

-----------------------------------------------------------------------------
(* Properties. *)

MaxTotal == MaxCalls * Cardinality(Workers)

\* Every variable keeps its type, and no total exceeds the number of calls.
TypeOK ==
    /\ ctxDone \in BOOLEAN
    /\ pc \in [Workers -> {"loop", "call", "latency", "completed", "count", "returned"}]
    /\ outcome \in [Workers -> Names \cup {None}]
    /\ calls   \in [Workers -> 0 .. MaxCalls]
    /\ count   \in [Names -> 0 .. MaxTotal]
    /\ completed \in 0 .. MaxTotal
    /\ latency   \in 0 .. MaxTotal
    /\ fire \in {"running", "returned"}
    /\ reporter \in {"tick", "latency", "print", "returned"}
    /\ item \in DOMAIN Counters
    /\ printed \in [Names -> 0 .. MaxTotal]
    /\ compTaken \in 0 .. MaxTotal
    /\ latTaken  \in 0 .. MaxTotal
    /\ added \in [Names -> 0 .. MaxTotal]

\* Swap(0) loses no outcome and reports none twice, whenever the workers add to
\* the counters: what was printed and what is still there is what was counted.
NothingLost == \A k \in Names : printed[k] + count[k] = added[k]

\* completed is "all of the above" (betgun.go:29): over all reports it runs ahead
\* of success, rejected and failed by the calls that are just being counted, and
\* when Fire has returned by none.
CompletedIsAllOfThem ==
    compTaken + completed =
      added["success"] + added["rejected"] + added["failed"]
        + Cardinality({w \in Workers : pc[w] = "count"})

\* The sum of latencies a report divides is never behind the calls it is divided
\* by: up to any finished report, the latency of every call taken from completed
\* has been taken as well, in that report or an earlier one.
NoLatencyOwed == reporter # "latency" => latTaken >= compTaken

\* Once the context has ended, Fire returns, even if the server never answers.
FireEnds == ctxDone ~> fire = "returned"
=============================================================================
