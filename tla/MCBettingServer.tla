--------------------------- MODULE MCBettingServer ---------------------------
(* Finite instances of BettingServer. *)
EXTENDS BettingServer, TLC

CONSTANTS StartBalance,  \* balance every user starts with
          MaxCancelled   \* contexts that end early, at most

MCInitBalance == [u \in Users |-> StartBalance]

CallSymmetry == Permutations(Calls)

\* One request at most names an id without a row, and few clients cancel.
BoundedInit ==
    /\ Init
    /\ Cardinality({c \in Calls : req[c].user \notin Users}) <= 1

Bounded == Cardinality({c \in Calls : ctxDone'[c]}) <= MaxCancelled

BoundedSpec == BoundedInit /\ [][Next /\ Bounded]_vars
=============================================================================
