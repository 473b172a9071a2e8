---------------------------- MODULE StressTester ----------------------------
(***************************************************************************)
(* The load generator of the login service, Client/StressTester.cpp: each  *)
(* worker thread keeps a window of asynchronous Login calls open and       *)
(* counts their outcomes in atomics; once a second the main thread prints  *)
(* the counters one by one and then resets them one by one.                *)
(*                                                                         *)
(* Every load, store and fetch_add is a step.  The latency of a call is    *)
(* one unit, so that a sum of latencies counts calls.                      *)
(***************************************************************************)
EXTENDS Naturals, Sequences, FiniteSets

CONSTANTS Threads,            \* worker threads
          requestsPerThread,  \* the window of each
          Endings,            \* how calls do end in the instance at hand
          MaxCompletions,     \* bound: completions each worker handles
          None

ASSUME ThreadsFinite    == IsFiniteSet(Threads)
ASSUME WindowAssumption == requestsPerThread \in Nat \ {0}
ASSUME BoundAssumption  == MaxCompletions \in Nat

\* How a Login call can end; "OTHER" is any other status or a failed transport.
Outcomes == {"OK", "NOT_FOUND", "UNAUTHENTICATED", "OTHER"}

ASSUME EndingsAssumption == Endings \subseteq Outcomes

\* The counters of outcomes, in the order in which they are printed and reset.
Counters == <<"authorized", "non_authorized", "failed">>
Names    == {Counters[i] : i \in DOMAIN Counters}

VARIABLES
    pc,        \* pc[t]: where worker t is in run()
    open,      \* open[t]: AsyncCalls t has created and not deleted
    outcome,   \* outcome[t]: how the call it is handling ended, or None
    handled,   \* handled[t]: completions it has taken from its queue
    count,     \* count[k]: the atomic _authorized, _non_authorized or _failed
    completed, \* _completed
    latency,   \* _total_latency_ns
    reporter,  \* where the main thread is in its loop
    item,      \* the counter it prints or resets next
    comp, lat, \* what it has loaded from completed and latency
    printed,   \* printed[k]: sum of the values it has printed for k
    added,     \* history: added[k], how often count[k] was incremented
    missed     \* history: missed[k], how often that was between the load of
               \* count[k] for a report and its reset

workerVars   == <<pc, open, outcome, handled>>
counterVars  == <<count, completed, latency>>
reporterVars == <<reporter, item, comp, lat, printed>>
totals       == <<added, missed>>
vars         == <<workerVars, counterVars, reporterVars, totals>>

Init ==
    /\ pc      = [t \in Threads |-> "fill"]
    /\ open    = [t \in Threads |-> 0]
    /\ outcome = [t \in Threads |-> None]
    /\ handled = [t \in Threads |-> 0]
    /\ count   = [k \in Names |-> 0]
    /\ completed = 0 /\ latency = 0
    /\ reporter = "sleep" /\ item = 1
    /\ comp = 0 /\ lat = 0
    /\ printed = [k \in Names |-> 0]
    /\ added   = [k \in Names |-> 0]
    /\ missed  = [k \in Names |-> 0]

-----------------------------------------------------------------------------
(* run() *)

\* The loop that sends the first requestsPerThread calls.
Fill(t) ==
    /\ pc[t] = "fill"
    /\ open' = [open EXCEPT ![t] = @ + 1]
    /\ pc' = [pc EXCEPT ![t] = IF open'[t] = requestsPerThread THEN "next" ELSE @]
    /\ UNCHANGED <<outcome, handled, counterVars, reporterVars, totals>>

\* Next returns one of the open calls.
Completion(t) ==
    /\ pc[t] = "next"
    /\ handled[t] < MaxCompletions
    /\ open[t] > 0
    /\ \E s \in Endings : outcome' = [outcome EXCEPT ![t] = s]
    /\ handled' = [handled EXCEPT ![t] = @ + 1]
    /\ pc' = [pc EXCEPT ![t] = "latency"]
    /\ UNCHANGED <<open, counterVars, reporterVars, totals>>

AddLatency(t) ==
    /\ pc[t] = "latency"
    /\ latency' = latency + 1
    /\ pc' = [pc EXCEPT ![t] = "completed"]
    /\ UNCHANGED <<open, outcome, handled, count, completed, reporterVars, totals>>

AddCompleted(t) ==
    /\ pc[t] = "completed"
    /\ completed' = completed + 1
    /\ pc' = [pc EXCEPT ![t] = "count"]
    /\ UNCHANGED <<open, outcome, handled, count, latency, reporterVars, totals>>

CounterOf(s) == CASE s = "OK"        -> "authorized"
                  [] s = "NOT_FOUND" -> "non_authorized"
                  [] OTHER           -> "failed"

\* Counter i has been printed in this report and still holds what was printed.
PrintedNotReset(i) ==
    \/ reporter = "print" /\ i < item
    \/ reporter = "reset" /\ i >= item

CountOutcome(t) ==
    LET k == CounterOf(outcome[t])
        late == \E i \in DOMAIN Counters : Counters[i] = k /\ PrintedNotReset(i)
    IN  /\ pc[t] = "count"
        /\ count' = [count EXCEPT ![k] = @ + 1]
        /\ added' = [added EXCEPT ![k] = @ + 1]
        /\ missed' = [missed EXCEPT ![k] = @ + IF late THEN 1 ELSE 0]
        /\ pc' = [pc EXCEPT ![t] = "resend"]
        /\ UNCHANGED <<open, outcome, handled, completed, latency, reporterVars>>

\* Variant: the AsyncCall is not deleted.
ResendWithoutDelete(t) ==
    /\ pc[t] = "resend"
    /\ open' = [open EXCEPT ![t] = @ + 1]
    /\ outcome' = [outcome EXCEPT ![t] = None]
    /\ pc' = [pc EXCEPT ![t] = "next"]
    /\ UNCHANGED <<handled, counterVars, reporterVars, totals>>

\* delete call; sendRequest(threadId)
Resend(t) ==
    /\ pc[t] = "resend"
    /\ open' = [open EXCEPT ![t] = (@ - 1) + 1]
    /\ outcome' = [outcome EXCEPT ![t] = None]
    /\ pc' = [pc EXCEPT ![t] = "next"]
    /\ UNCHANGED <<handled, counterVars, reporterVars, totals>>

-----------------------------------------------------------------------------
(* testUserService(), the loop of the main thread *)

\* The second is over.
LoadCompleted ==
    /\ reporter = "sleep"
    /\ comp' = completed
    /\ reporter' = IF completed > 0 THEN "latency" ELSE "print"
    /\ UNCHANGED <<workerVars, counterVars, item, lat, printed, totals>>

LoadLatency ==
    /\ reporter = "latency"
    /\ lat' = latency
    /\ reporter' = "print"
    /\ UNCHANGED <<workerVars, counterVars, item, comp, printed, totals>>

PrintCounter ==
    LET k == Counters[item]
    IN  /\ reporter = "print"
        /\ printed' = [printed EXCEPT ![k] = @ + count[k]]
        /\ IF item < Len(Counters)
             THEN item' = item + 1 /\ UNCHANGED reporter
             ELSE item' = 1 /\ reporter' = "reset"
        /\ UNCHANGED <<workerVars, counterVars, comp, lat, totals>>

\* Variant: the counter is left as it is.
CounterNotReset ==
    /\ reporter = "reset"
    /\ IF item < Len(Counters)
         THEN item' = item + 1 /\ UNCHANGED reporter
         ELSE item' = 1 /\ reporter' = "reset_latency"
    /\ UNCHANGED <<workerVars, counterVars, comp, lat, printed, totals>>

\* refreshCounters(): a plain store of 0 to each, whatever was added meanwhile.
ResetCounter ==
    /\ reporter = "reset"
    /\ count' = [count EXCEPT ![Counters[item]] = 0]
    /\ IF item < Len(Counters)
         THEN item' = item + 1 /\ UNCHANGED reporter
         ELSE item' = 1 /\ reporter' = "reset_latency"
    /\ UNCHANGED <<workerVars, completed, latency, comp, lat, printed, totals>>

ResetLatency ==
    /\ reporter = "reset_latency"
    /\ latency' = 0
    /\ reporter' = "reset_completed"
    /\ UNCHANGED <<workerVars, count, completed, item, comp, lat, printed, totals>>

\* Variant: _completed goes on counting.
CompletedNotReset ==
    /\ reporter = "reset_completed"
    /\ reporter' = "sleep"
    /\ comp' = 0 /\ lat' = 0
    /\ UNCHANGED <<workerVars, counterVars, item, printed, totals>>

ResetCompleted ==
    /\ reporter = "reset_completed"
    /\ completed' = 0
    /\ reporter' = "sleep"
    /\ comp' = 0 /\ lat' = 0
    /\ UNCHANGED <<workerVars, count, latency, item, printed, totals>>

-----------------------------------------------------------------------------
Run(t) == \/ Fill(t) \/ Completion(t) \/ AddLatency(t) \/ AddCompleted(t)
          \/ CountOutcome(t) \/ Resend(t)

Report == \/ LoadCompleted \/ LoadLatency \/ PrintCounter
          \/ ResetCounter \/ ResetLatency \/ ResetCompleted

Next == (\E t \in Threads : Run(t)) \/ Report

Spec == Init /\ [][Next]_vars

-----------------------------------------------------------------------------
(* Properties. *)

\* Every variable keeps its type; no thread ever has more calls open than its
\* window.
TypeOK ==
    /\ pc \in [Threads -> {"fill", "next", "latency", "completed", "count", "resend"}]
    /\ open    \in [Threads -> 0 .. requestsPerThread]
    /\ outcome \in [Threads -> Outcomes \cup {None}]
    /\ handled \in [Threads -> 0 .. MaxCompletions]
    /\ count   \in [Names -> Nat]
    /\ {completed, latency, comp, lat} \subseteq Nat
    /\ reporter \in {"sleep", "latency", "print", "reset", "reset_latency",
                     "reset_completed"}
    /\ item \in DOMAIN Counters
    /\ printed \in [Names -> Nat]
    /\ added   \in [Names -> Nat]
    /\ missed  \in [Names -> Nat]

\* The reports miss exactly the outcomes that were counted between the load of a
\* counter and its reset: every other one is printed once, or is still in its
\* counter and will be; nothing is printed twice.
OnlyWindowMissed ==
    \A i \in DOMAIN Counters :
      LET k == Counters[i]
      IN  printed[k] + missed[k] + (IF PrintedNotReset(i) THEN 0 ELSE count[k])
            = added[k]

\* The average is taken over calls whose latency is in the sum, but for at most
\* one per worker: the skew of the unsynchronised resets does not build up from
\* line to line.
AverageSkewIsBounded ==
    reporter = "print" /\ comp > 0 => comp <= lat + Cardinality(Threads)
=============================================================================
