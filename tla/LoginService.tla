----------------------------- MODULE LoginService -----------------------------
(***************************************************************************)
(* The asynchronous login service: AsyncUserService (completion queues and *)
(* one worker thread for each), CallHandler (one heap object per RPC, its  *)
(* own address being the tag gRPC hands back) and the connection pool,     *)
(* taken at the level of PoolLease.                                        *)
(*                                                                         *)
(* A CallHandler is named by its address, and an address that was deleted  *)
(* can be handed out again by the next "new".  gRPC is modelled by what    *)
(* the code relies on: it matches an arriving RPC with a registered        *)
(* handler, and puts one event into the handler's queue for the match and  *)
(* one for the end of Finish.                                              *)
(***************************************************************************)
EXTENDS Naturals, Sequences, FiniteSets

CONSTANTS NumThreads,       \* completion queues, and workers
          HANDLERS_PER_CQ,
          Addresses,        \* where "new" can put a CallHandler
          Rpcs,             \* Login calls of the clients
          Emails,           \* e-mail addresses clients send
          Passwords,        \* passwords clients send
          Stored,           \* Stored[e]: users.password of the row with e-mail e,
                            \* None for NULL
          Conns,            \* connections of the pool
          None

Workers == 1 .. NumThreads

ASSUME ThreadsAssumption  == NumThreads \in Nat \ {0}
ASSUME HandlersAssumption == HANDLERS_PER_CQ \in Nat \ {0}
ASSUME StoredAssumption   == DOMAIN Stored \subseteq Emails
ASSUME FiniteAssumption   == IsFiniteSet(Addresses) /\ IsFiniteSet(Conns)
ASSUME NoneAssumption     == None \notin Addresses \cup Rpcs \cup Conns \cup Emails

VARIABLES
    noop,       \* NOOP_FLAG is defined, a matter of the build
    \* run()
    created,    \* CallHandlers it has constructed
    started,    \* workers it has started
    \* CallHandlers
    state,      \* state[a]: _state, or "free" where there is no object
    cq,         \* cq[a]: its _cq
    rpcOf,      \* rpcOf[a]: the RPC that _ctx, _request and _responder belong to
    out,        \* out[a]: status and _response, or None
    \* gRPC
    registered, \* handlers whose RequestLogin waits for an RPC
    finishing,  \* handlers whose Finish is under way
    queue,      \* queue[q]: events of completion queue q
    rpc,        \* rpc[r]: what has become of RPC r
    reply,      \* reply[r]: what its client was told, or None
    req,        \* req[r]: its LoginRequest
    \* workerLoop
    pc,         \* pc[q]: where worker q is
    cur,        \* cur[q]: the handler it is in proceed() of
    \* the pool
    poolUp,     \* its constructor succeeded
    idle, held, \* as in PoolLease
    txn,        \* connections with a transaction open
    broken      \* connections that have lost their server

handlerVars == <<state, cq, rpcOf, out>>
grpcVars    == <<registered, finishing, queue, rpc, reply, req>>
dbVars      == <<poolUp, idle, held, txn, broken>>
mainVars    == <<noop, created, started>>
vars        == <<mainVars, handlerVars, grpcVars, pc, cur, dbVars>>

Lease == INSTANCE PoolLease WITH Threads <- Workers

Statuses == {"OK", "UNAVAILABLE", "NOT_FOUND", "UNAUTHENTICATED", "INTERNAL"}

\* Status, and the user whose id and token the LoginResponse carries.
Replies == [status : Statuses, user : Emails \cup {None}]

Reply(s, u) == [status |-> s, user |-> u]

ASSUME RepliesAssumption == None \notin Replies

Positions == {"off", "next", "spawn", "login", "begin", "query", "endtxn",
              "release", "finish"}

Init ==
    /\ noop \in BOOLEAN
    /\ created = 0 /\ started = 0
    /\ state  = [a \in Addresses |-> "free"]
    /\ cq     = [a \in Addresses |-> None]
    /\ rpcOf  = [a \in Addresses |-> None]
    /\ out    = [a \in Addresses |-> None]
    /\ registered = {} /\ finishing = {}
    /\ queue  = [q \in Workers |-> <<>>]
    /\ rpc    = [r \in Rpcs |-> "unsent"]
    /\ reply  = [r \in Rpcs |-> None]
    /\ req \in [Rpcs -> [email : Emails, password : Passwords]]
    /\ pc     = [q \in Workers |-> "off"]
    /\ cur    = [q \in Workers |-> None]
    /\ poolUp \in BOOLEAN
    /\ Lease!Init
    /\ txn = {} /\ broken = {}

-----------------------------------------------------------------------------
(* gRPC, the network and the database. *)

Arrive(r) ==
    /\ rpc[r] = "unsent"
    /\ rpc' = [rpc EXCEPT ![r] = "pending"]
    /\ UNCHANGED <<mainVars, handlerVars, registered, finishing, queue, reply,
                   req, pc, cur, dbVars>>

\* The client cancels, or its deadline expires.
Drop(r) ==
    /\ rpc[r] \in {"pending", "matched"}
    /\ rpc' = [rpc EXCEPT ![r] = "dropped"]
    /\ UNCHANGED <<mainVars, handlerVars, registered, finishing, queue, reply,
                   req, pc, cur, dbVars>>

\* An RPC goes to some registered handler, whose queue is told.
Match(r, a) ==
    /\ rpc[r] = "pending"
    /\ a \in registered
    /\ registered' = registered \ {a}
    /\ rpcOf' = [rpcOf EXCEPT ![a] = r]
    /\ rpc' = [rpc EXCEPT ![r] = "matched"]
    /\ queue' = [queue EXCEPT ![cq[a]] = Append(@, [tag |-> a, ok |-> TRUE])]
    /\ UNCHANGED <<mainVars, state, cq, out, finishing, reply, req, pc, cur,
                   dbVars>>

\* Finish has put the reply on the wire, or found the call dead.
FinishDone(a) ==
    LET r == rpcOf[a]
        ok == rpc[r] # "dropped"
    IN  /\ a \in finishing
        /\ finishing' = finishing \ {a}
        /\ queue' = [queue EXCEPT ![cq[a]] = Append(@, [tag |-> a, ok |-> ok])]
        /\ IF ok
             THEN /\ rpc' = [rpc EXCEPT ![r] = "answered"]
                  /\ reply' = [reply EXCEPT ![r] = out[a]]
             ELSE UNCHANGED <<rpc, reply>>
        /\ UNCHANGED <<mainVars, handlerVars, registered, req, pc, cur, dbVars>>

\* The database goes away under a connection.
ConnLost(c) ==
    /\ poolUp
    /\ c \notin broken
    /\ broken' = broken \cup {c}
    /\ txn' = txn \ {c}
    /\ UNCHANGED <<mainVars, handlerVars, grpcVars, pc, cur, poolUp, idle, held>>

-----------------------------------------------------------------------------
(* run() *)

\* RequestLogin(..., tag): the next RPC that is free may go to this handler.
RequestLogin(a) == registered' = registered \cup {a}

\* new CallHandler(...): the constructor calls RequestLogin.
New(a, q) ==
    /\ state[a] = "free"
    /\ cq' = [cq EXCEPT ![a] = q]
    /\ RequestLogin(a)

\* HANDLERS_PER_CQ handlers on each queue, queue by queue.
CreateHandler ==
    /\ created < NumThreads * HANDLERS_PER_CQ
    /\ created' = created + 1
    /\ \E a \in Addresses : /\ New(a, created \div HANDLERS_PER_CQ + 1)
                            /\ state' = [state EXCEPT ![a] = "WAIT"]
    /\ UNCHANGED <<noop, started, rpcOf, out, finishing, queue, rpc, reply, req, pc,
                   cur, dbVars>>

StartWorker ==
    /\ created = NumThreads * HANDLERS_PER_CQ
    /\ started < NumThreads
    /\ started' = started + 1
    /\ pc' = [pc EXCEPT ![started + 1] = "next"]
    /\ UNCHANGED <<noop, created, handlerVars, grpcVars, cur, dbVars>>

-----------------------------------------------------------------------------
(* workerLoop() and proceed() *)

\* cq->Next returns the tag of a handler in state WAIT.
NextRequest(q) ==
    LET e == Head(queue[q])
    IN  /\ pc[q] = "next"
        /\ queue[q] # <<>>
        /\ e.ok /\ state[e.tag] = "WAIT"
        /\ queue' = [queue EXCEPT ![q] = Tail(@)]
        /\ cur' = [cur EXCEPT ![q] = e.tag]
        /\ pc' = [pc EXCEPT ![q] = "spawn"]
        /\ UNCHANGED <<mainVars, handlerVars, registered, finishing, rpc, reply,
                       req, dbVars>>

\* Variant: a handler that has finished is not deleted.
NotDeleted(q) ==
    LET e == Head(queue[q])
    IN  /\ pc[q] = "next"
        /\ queue[q] # <<>>
        /\ ~e.ok \/ state[e.tag] = "FINISH"
        /\ queue' = [queue EXCEPT ![q] = Tail(@)]
        /\ UNCHANGED <<mainVars, handlerVars, registered, finishing, rpc, reply,
                       req, pc, cur, dbVars>>

\* cq->Next returns the tag of a handler that has finished, or a tag that is
\* not ok: the handler is deleted.
NextDelete(q) ==
    LET e == Head(queue[q])
    IN  /\ pc[q] = "next"
        /\ queue[q] # <<>>
        /\ ~e.ok \/ state[e.tag] = "FINISH"
        /\ queue' = [queue EXCEPT ![q] = Tail(@)]
        /\ state' = [state EXCEPT ![e.tag] = "free"]
        /\ cq' = [cq EXCEPT ![e.tag] = None]
        /\ rpcOf' = [rpcOf EXCEPT ![e.tag] = None]
        /\ out' = [out EXCEPT ![e.tag] = None]
        /\ UNCHANGED <<mainVars, registered, finishing, rpc, reply, req, pc, cur,
                       dbVars>>

\* Variant: no successor.
SpawnMissing(q) ==
    /\ pc[q] = "spawn"
    /\ state' = [state EXCEPT ![cur[q]] = "FINISH"]
    /\ pc' = [pc EXCEPT ![q] = "login"]
    /\ UNCHANGED <<mainVars, cq, rpcOf, out, grpcVars, cur, dbVars>>

\* Variant: instead of a successor the handler registers itself once more.
SpawnSelf(q) ==
    /\ pc[q] = "spawn"
    /\ RequestLogin(cur[q])
    /\ pc' = [pc EXCEPT ![q] = "login"]
    /\ UNCHANGED <<mainVars, handlerVars, finishing, queue, rpc, reply, req, cur,
                   dbVars>>

\* Variant: _state stays WAIT.
SpawnInWait(q) ==
    /\ pc[q] = "spawn"
    /\ \E a \in Addresses : /\ New(a, q)
                            /\ state' = [state EXCEPT ![a] = "WAIT"]
    /\ pc' = [pc EXCEPT ![q] = "login"]
    /\ UNCHANGED <<mainVars, rpcOf, out, finishing, queue, rpc, reply, req, cur,
                   dbVars>>

\* The successor first, then _state = FINISH.
Spawn(q) ==
    /\ pc[q] = "spawn"
    /\ \E a \in Addresses :
         /\ New(a, q)
         /\ state' = [state EXCEPT ![a] = "WAIT", ![cur[q]] = "FINISH"]
    /\ pc' = [pc EXCEPT ![q] = "login"]
    /\ UNCHANGED <<mainVars, rpcOf, out, finishing, queue, rpc, reply, req, cur,
                   dbVars>>

\* _responder.Finish(_response, status, this)
Finish(q) ==
    /\ pc[q] = "finish"
    /\ finishing' = finishing \cup {cur[q]}
    /\ pc' = [pc EXCEPT ![q] = "next"]
    /\ cur' = [cur EXCEPT ![q] = None]
    /\ UNCHANGED <<mainVars, handlerVars, registered, queue, rpc, reply, req,
                   dbVars>>

-----------------------------------------------------------------------------
(* handleLogin() *)

\* handleLogin has its result; what is left is to leave by way of position p.
Return(q, s, u, p) ==
    /\ out' = [out EXCEPT ![cur[q]] = Reply(s, u)]
    /\ pc' = [pc EXCEPT ![q] = p]

NoopLogin(q) ==
    /\ noop
    /\ pc[q] = "login"
    /\ Return(q, "OK", None, "finish")
    /\ UNCHANGED <<mainVars, state, cq, rpcOf, grpcVars, cur, dbVars>>

\* The service runs without a pool when its constructor threw.
LoginWithoutPool(q) ==
    /\ ~noop
    /\ pc[q] = "login"
    /\ ~poolUp
    /\ Return(q, "UNAVAILABLE", None, "finish")
    /\ UNCHANGED <<mainVars, state, cq, rpcOf, grpcVars, cur, dbVars>>

\* PooledConnection conn(*_pool): waits while there is no idle connection.
AcquireConnection(q) ==
    /\ ~noop
    /\ pc[q] = "login"
    /\ poolUp
    /\ Lease!Lend(q)
    /\ pc' = [pc EXCEPT ![q] = "begin"]
    /\ UNCHANGED <<mainVars, handlerVars, grpcVars, cur, poolUp, txn, broken>>

\* pqxx::read_transaction txn(conn.get())
BeginRead(q) ==
    /\ pc[q] = "begin"
    /\ held[q] \notin broken
    /\ txn' = txn \cup {held[q]}
    /\ pc' = [pc EXCEPT ![q] = "query"]
    /\ UNCHANGED <<mainVars, handlerVars, grpcVars, cur, poolUp, idle, held, broken>>

\* SELECT id, password FROM users WHERE email = $1, and what follows from it.
\* The password of the request is compared with the column as it stands; of a
\* NULL no string can be made, which is a case of DatabaseThrows.
Query(q) ==
    LET r == req[rpcOf[cur[q]]]
    IN  /\ pc[q] = "query"
        /\ held[q] \notin broken
        /\ \/ /\ r.email \notin DOMAIN Stored
              /\ Return(q, "NOT_FOUND", None, "endtxn")
           \/ /\ r.email \in DOMAIN Stored
              /\ Stored[r.email] # None
              /\ r.password # Stored[r.email]
              /\ Return(q, "UNAUTHENTICATED", None, "endtxn")
           \/ /\ r.email \in DOMAIN Stored
              /\ Stored[r.email] # None
              /\ r.password = Stored[r.email]
              /\ Return(q, "OK", r.email, "endtxn")
        /\ UNCHANGED <<mainVars, state, cq, rpcOf, grpcVars, cur, dbVars>>

\* Variant: after an exception the connection is not given back.
ExceptionLeaks(q) ==
    /\ pc[q] \in {"begin", "query"}
    /\ Return(q, "INTERNAL", None, "finish")
    /\ held' = [held EXCEPT ![q] = None]
    /\ txn' = txn \ {held[q]}
    /\ UNCHANGED <<mainVars, state, cq, rpcOf, grpcVars, cur, poolUp, idle, broken>>

\* Variant: an exception leaves the transaction behind.
ExceptionKeepsTransaction(q) ==
    /\ pc[q] \in {"begin", "query"}
    /\ Return(q, "INTERNAL", None, "release")
    /\ UNCHANGED <<mainVars, state, cq, rpcOf, grpcVars, cur, dbVars>>

\* pqxx throws and the stack is unwound: from the constructor of the transaction,
\* or with the transaction open from the query or from as<>, which does not take
\* NULL.  The connection need not be broken for any of it.
DatabaseThrows(q) ==
    /\ pc[q] \in {"begin", "query"}
    /\ Return(q, "INTERNAL", None, IF pc[q] = "begin" THEN "release" ELSE "endtxn")
    /\ UNCHANGED <<mainVars, state, cq, rpcOf, grpcVars, cur, dbVars>>

\* ~read_transaction, before ~PooledConnection.
EndTransaction(q) ==
    /\ pc[q] = "endtxn"
    /\ txn' = txn \ {held[q]}
    /\ pc' = [pc EXCEPT ![q] = "release"]
    /\ UNCHANGED <<mainVars, handlerVars, grpcVars, cur, poolUp, idle, held, broken>>

\* ~PooledConnection, whatever state the connection is in.
ReleaseConnection(q) ==
    /\ pc[q] = "release"
    /\ Lease!GiveBack(q)
    /\ pc' = [pc EXCEPT ![q] = "finish"]
    /\ UNCHANGED <<mainVars, handlerVars, grpcVars, cur, poolUp, txn, broken>>

-----------------------------------------------------------------------------
Run == CreateHandler \/ StartWorker

WorkerLoop(q) ==
    \/ NextRequest(q) \/ NextDelete(q)
    \/ Spawn(q)
    \/ NoopLogin(q) \/ LoginWithoutPool(q)
    \/ AcquireConnection(q) \/ BeginRead(q) \/ Query(q) \/ DatabaseThrows(q)
    \/ EndTransaction(q) \/ ReleaseConnection(q)
    \/ Finish(q)

Next ==
    \/ Run
    \/ \E q \in Workers : WorkerLoop(q)
    \/ \E r \in Rpcs : Arrive(r) \/ Drop(r) \/ \E a \in Addresses : Match(r, a)
    \/ \E a \in Addresses : FinishDone(a)
    \/ \E c \in Conns : ConnLost(c)

Spec == Init /\ [][Next]_vars

\* Threads run on, and gRPC matches what can be matched and completes what was
\* begun.  A query is answered or fails: there is no fairness to break a
\* connection, cancel a call or send one.
Fairness ==
    /\ WF_vars(Run)
    /\ \A q \in Workers : WF_vars(WorkerLoop(q))
    /\ \A r \in Rpcs : WF_vars(\E a \in Addresses : Match(r, a))
    /\ \A a \in Addresses : WF_vars(FinishDone(a))

FairSpec == Spec /\ Fairness

-----------------------------------------------------------------------------
(* Properties. *)

Live == {a \in Addresses : state[a] # "free"}

\* Every variable keeps its type; no reply has a status Login does not know.
TypeOK ==
    /\ noop \in BOOLEAN
    /\ created \in 0 .. NumThreads * HANDLERS_PER_CQ
    /\ started \in 0 .. NumThreads
    /\ state \in [Addresses -> {"free", "WAIT", "FINISH"}]
    /\ cq    \in [Addresses -> Workers \cup {None}]
    /\ rpcOf \in [Addresses -> Rpcs \cup {None}]
    /\ out   \in [Addresses -> Replies \cup {None}]
    /\ registered \subseteq Addresses
    /\ finishing \subseteq Addresses
    /\ queue \in [Workers -> Seq([tag : Addresses, ok : BOOLEAN])]
    /\ rpc   \in [Rpcs -> {"unsent", "pending", "matched", "answered", "dropped"}]
    /\ reply \in [Rpcs -> Replies \cup {None}]
    /\ req   \in [Rpcs -> [email : Emails, password : Passwords]]
    /\ pc    \in [Workers -> Positions]
    /\ cur   \in [Workers -> Addresses \cup {None}]
    /\ poolUp \in BOOLEAN
    /\ idle \subseteq Conns
    /\ held  \in [Workers -> Conns \cup {None}]
    /\ txn \subseteq Conns
    /\ broken \subseteq Conns

\* The places in which gRPC or a worker has the address of handler a.
References(a) ==
    LET InQueue(q) == {<<"event", q, i>> : i \in {j \in DOMAIN queue[q] : queue[q][j].tag = a}}
    IN  (UNION {InQueue(q) : q \in Workers})
          \cup {<<"worker", q>> : q \in {w \in Workers : cur[w] = a}}
          \cup {<<"registered">> : x \in registered \cap {a}}
          \cup {<<"finishing">> : x \in finishing \cap {a}}

\* A CallHandler that exists is known to gRPC or to a worker in exactly one
\* place, and one that was deleted in none: no handler is used after its
\* "delete this", deleted twice, or forgotten.
OneReferencePerHandler ==
    \A a \in Addresses :
      IF a \in Live THEN \E place \in References(a) : References(a) = {place}
                    ELSE References(a) = {}

\* However busy its worker is, each queue has exactly HANDLERS_PER_CQ handlers in
\* state WAIT once run() has made them: a successor exists before the work on a
\* request begins.
AlwaysListening ==
    created = NumThreads * HANDLERS_PER_CQ =>
      \A q \in Workers :
        Cardinality({a \in Live : cq[a] = q /\ state[a] = "WAIT"}) = HANDLERS_PER_CQ

\* What a client is told is what its own request calls for: OK with the user of
\* that e-mail only for the password in the table, NOT_FOUND and UNAUTHENTICATED
\* only for what the table says of it, and INTERNAL only where the database was
\* asked.  A row without a password has no other answer than INTERNAL.
Fits(answer, r) ==
    LET known == req[r].email \in DOMAIN Stored
        readable == known /\ Stored[req[r].email] # None
        valid == readable /\ req[r].password = Stored[req[r].email]
    IN  /\ answer.status = "OK" =>
             \/ noop /\ answer.user = None
             \/ ~noop /\ poolUp /\ valid /\ answer.user = req[r].email
        /\ answer.status = "NOT_FOUND"       => ~noop /\ poolUp /\ ~known
        /\ answer.status = "UNAUTHENTICATED" => ~noop /\ poolUp /\ readable /\ ~valid
        /\ answer.status = "UNAVAILABLE"     => ~noop /\ ~poolUp
        /\ answer.status = "INTERNAL"        => ~noop /\ poolUp
        /\ answer.status # "OK"              => answer.user = None

ReplyFitsRequest == \A r \in Rpcs : reply[r] # None => Fits(reply[r], r)

\* A client is told once, and never after it has gone away.
AnsweredOnce ==
    [][\A r \in Rpcs :
         /\ rpc[r] \in {"answered", "dropped"} => UNCHANGED <<rpc[r], reply[r]>>
         /\ \A a \in finishing \ finishing' :
              rpcOf[a] = r => rpc[r] \in {"matched", "dropped"}]_vars

\* A connection goes back to the pool without a transaction, and a worker that
\* is back in its loop holds none, whichever way handleLogin was left.
ConnectionsComeBackClean ==
    /\ txn \cap idle = {}
    /\ \A q \in Workers : pc[q] \in {"off", "next", "spawn", "login", "finish"}
                            => held[q] = None

\* With at least as many connections as workers there is always an idle one for
\* each worker that has none: nobody ever waits in acquire(), and no path out of
\* handleLogin loses a connection.
EnoughConnections ==
    NumThreads <= Cardinality(Conns) =>
      Cardinality({q \in Workers : held[q] = None}) <= Cardinality(idle)

\* Every RPC that arrives is answered, unless its client goes away first.
EveryRpcAnswered ==
    \A r \in Rpcs : rpc[r] = "pending" ~> rpc[r] \in {"answered", "dropped"}
=============================================================================
