----------------------------- MODULE UserService -----------------------------
(***************************************************************************)
(* The synchronous login service of UserService.h and UserService.cpp over *)
(* the connection pool with all its locking: gRPC calls Login on a thread  *)
(* of its own, Login takes a PooledConnection and a read_transaction, and  *)
(* every way out of it, an exception included, destroys them in the        *)
(* opposite order.                                                         *)
(***************************************************************************)
EXTENDS ConnectionPool

VARIABLES
    noop,    \* NOOP_FLAG is defined
    service, \* what the constructor left: "start", "pool", "nullptr", or "dead"
    at,      \* at[t]: where thread t is in Login
    txn,     \* connections with a transaction open
    broken   \* connections that have lost their server

serviceVars == <<noop, service, at, txn, broken>>
loginVars   == <<vars, serviceVars>>

LoginInit ==
    /\ Init
    /\ noop \in BOOLEAN
    /\ service = "start"
    /\ at = [t \in Threads |-> "idle"]
    /\ txn = {} /\ broken = {}

\* The constructor: a std::exception leaves it without a pool, the const char*
\* that the pool throws for a connection that is not open goes uncaught.
Construct ==
    /\ service = "start"
    /\ service' \in {"pool", "nullptr", "dead"}
    /\ UNCHANGED <<vars, noop, at, txn, broken>>

\* A server goes away under a connection; the transaction on it is over.
ConnLost(c) ==
    /\ service = "pool"
    /\ c \notin broken
    /\ broken' = broken \cup {c}
    /\ txn' = txn \ {c}
    /\ UNCHANGED <<vars, noop, service, at>>

-----------------------------------------------------------------------------
(* Login(context, request, response) *)

Goto(t, p) == at' = [at EXCEPT ![t] = p]

Call(t) ==
    /\ service \in {"pool", "nullptr"}
    /\ at[t] = "idle"
    /\ Goto(t, "login")
    /\ UNCHANGED <<vars, noop, service, txn, broken>>

\* OK with NOOP_FLAG, UNAVAILABLE without a pool.
ReturnEarly(t) ==
    /\ at[t] = "login"
    /\ noop \/ service = "nullptr"
    /\ Goto(t, "return")
    /\ UNCHANGED <<vars, noop, service, txn, broken>>

\* PooledConnection(*_pool)
TakeConnection(t) ==
    /\ at[t] = "login"
    /\ ~noop /\ service = "pool"
    /\ Acquire(t)
    /\ Goto(t, "acquire")
    /\ UNCHANGED <<noop, service, txn, broken>>

\* pqxx::read_transaction txn(connection.get())
BeginRead(t) ==
    /\ at[t] = "acquire" /\ pc[t] = "using"
    /\ held[t] \notin broken
    /\ txn' = txn \cup {held[t]}
    /\ Goto(t, "query")
    /\ UNCHANGED <<vars, noop, service, broken>>

\* SELECT ... WHERE email = $1, and a return: NOT_FOUND without a row, OK or
\* UNAUTHENTICATED by the password in it.
Query(t) ==
    /\ at[t] = "query"
    /\ held[t] \notin broken
    /\ Goto(t, "endtxn")
    /\ UNCHANGED <<vars, noop, service, txn, broken>>

\* Variant: the exception is handled without giving the connection back.
ThrowsAway(t) ==
    /\ at[t] = "query" \/ (at[t] = "acquire" /\ pc[t] = "using")
    /\ Goto(t, "idle")
    /\ UNCHANGED <<vars, noop, service, txn, broken>>

\* Variant: an exception leaves the transaction behind.
ThrowsPastTransaction(t) ==
    /\ at[t] = "query" \/ (at[t] = "acquire" /\ pc[t] = "using")
    /\ Goto(t, "release")
    /\ UNCHANGED <<vars, noop, service, txn, broken>>

\* pqxx throws out of Login, and gRPC makes UNKNOWN of it: from the constructor of
\* the transaction, or with the transaction open from the query or from as<>.  The
\* connection need not be broken for any of it.
DatabaseThrows(t) ==
    /\ \/ at[t] = "acquire" /\ pc[t] = "using" /\ Goto(t, "release")
       \/ at[t] = "query" /\ Goto(t, "endtxn")
    /\ UNCHANGED <<vars, noop, service, txn, broken>>

\* ~read_transaction, declared last and so destroyed first.
EndTransaction(t) ==
    /\ at[t] = "endtxn"
    /\ txn' = txn \ {held[t]}
    /\ Goto(t, "release")
    /\ UNCHANGED <<vars, noop, service, broken>>

\* ~PooledConnection
GiveBack(t) ==
    /\ at[t] = "release"
    /\ Release(t)
    /\ Goto(t, "return")
    /\ UNCHANGED <<noop, service, txn, broken>>

Reply(t) ==
    /\ at[t] = "return" /\ pc[t] = "out"
    /\ Goto(t, "idle")
    /\ UNCHANGED <<vars, noop, service, txn, broken>>

\* The steps inside acquire() and release().
InPool(t) ==
    /\ \/ Lock(t) \/ Sleep(t) \/ TakeFront(t)
       \/ LockToRelease(t) \/ Push(t) \/ Notify(t)
    /\ UNCHANGED serviceVars

Wake(t) == SpuriousWakeup(t) /\ UNCHANGED serviceVars

Login(t) ==
    \/ ReturnEarly(t) \/ TakeConnection(t)
    \/ BeginRead(t) \/ Query(t) \/ DatabaseThrows(t)
    \/ EndTransaction(t) \/ GiveBack(t) \/ Reply(t)
    \/ InPool(t)

LoginNext ==
    \/ Construct
    \/ \E t \in Threads : Call(t) \/ Login(t) \/ Wake(t)
    \/ \E c \in Conns : ConnLost(c)

LoginSpec == LoginInit /\ [][LoginNext]_loginVars

\* Threads run on; a query is answered or fails.
FairLogin == LoginSpec /\ \A t \in Threads : WF_loginVars(Login(t))

-----------------------------------------------------------------------------
(* Properties. *)

\* Whichever way Login is left, no connection lies in the queue with a
\* transaction open on it, a transaction belongs to a thread that is at work,
\* and a thread that is back with gRPC holds no connection and is not waiting
\* for one.
ConnectionsComeBackClean ==
    /\ txn \cap Idle = {}
    /\ \A c \in txn : \E t \in Threads : held[t] = c /\ at[t] \in {"query", "endtxn"}
    /\ \A t \in Threads : at[t] = "idle" => pc[t] = "out" /\ held[t] = None

\* Calls that want a connection keep returning, however many wait and however
\* many connections have lost their server: no wake-up and no connection is lost
\* on the way through Login and the pool.
CallsKeepReturning ==
    (\E t \in Threads : at[t] = "acquire") ~> (\E t \in Threads : at[t] = "return")
=============================================================================
