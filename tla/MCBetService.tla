---------------------------- MODULE MCBetService ----------------------------
(* Finite instances of BetService. *)
EXTENDS BetService

CONSTANTS StartBalance,  \* balance every user starts with
          Cancellable    \* calls whose context may end early

MCInitBalance == [u \in Users |-> StartBalance]

\* Bounds for liveness with many calls: only some calls are cancelled, no handler
\* loses its connection before it has returned, and the process is killed only
\* while no call is in a transaction.  Any statement and COMMIT may still fail,
\* and Serve may fail at any moment.
Bounded ==
    \A c \in Calls :
        /\ ctxDone'[c] => c \in Cancellable
        /\ tx'[c] = "orphan" => pc'[c] \in Ended
        /\ main' = "start" /\ pc'[c] = "dead" => tx'[c] = "none"

BoundedService == /\ ServiceInit
                  /\ [][ServiceNext /\ Bounded]_serviceVars
                  /\ Fairness /\ WF_serviceVars(Main)
=============================================================================
