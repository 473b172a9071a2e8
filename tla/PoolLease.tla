------------------------------ MODULE PoolLease ------------------------------
(***************************************************************************)
(* What PostgresConnectionPool promises its callers, whatever mutexes and  *)
(* wake-ups lie underneath: a connection is lent to one thread at a time   *)
(* and none is ever lost.                                                  *)
(***************************************************************************)
CONSTANTS Threads, Conns, None

VARIABLES idle,  \* connections nobody has
          held   \* held[t]: the connection lent to t, or None

Init ==
    /\ idle = Conns
    /\ held = [t \in Threads |-> None]

Lend(t) ==
    /\ held[t] = None
    /\ \E c \in idle : /\ held' = [held EXCEPT ![t] = c]
                       /\ idle' = idle \ {c}

GiveBack(t) ==
    /\ held[t] # None
    /\ idle' = idle \cup {held[t]}
    /\ held' = [held EXCEPT ![t] = None]

Next == \E t \in Threads : Lend(t) \/ GiveBack(t)

Spec == Init /\ [][Next]_<<idle, held>>
=============================================================================
