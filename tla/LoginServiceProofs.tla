-------------------------- MODULE LoginServiceProofs --------------------------
(***************************************************************************)
(* Proofs about LoginService, for any number of workers, handlers, RPCs    *)
(* and connections.                                                        *)
(***************************************************************************)
EXTENDS LoginService, FiniteSetTheorems, TLAPS

Events == [tag : Addresses, ok : BOOLEAN]

\* Handlers with an event in queue q.
Tags(q) == {queue[q][i].tag : i \in DOMAIN queue[q]}

\* Positions of a worker in proceed(), and in handleLogin() with a connection.
Working == Positions \ {"off", "next"}
Owning  == {"begin", "query", "endtxn", "release"}

\* What a handler looks like, by where its address is.
IsRegistered(a) == state[a] = "WAIT" /\ rpcOf[a] = None /\ out[a] = None

IsQueued(e, q) ==
    /\ state[e.tag] # "free" /\ cq[e.tag] = q /\ rpcOf[e.tag] \in Rpcs
    /\ state[e.tag] = "WAIT" => e.ok /\ out[e.tag] = None

IsServed(a, q) ==
    /\ state[a] = IF pc[q] = "spawn" THEN "WAIT" ELSE "FINISH"
    /\ cq[a] = q /\ rpcOf[a] \in Rpcs
    /\ pc[q] \in {"endtxn", "release", "finish"} => out[a] # None

IsFinishing(a) == state[a] = "FINISH" /\ rpcOf[a] \in Rpcs /\ out[a] # None

HandlerInv ==
    /\ \A a \in Addresses : IF state[a] = "free" THEN rpcOf[a] = None /\ out[a] = None
                                                 ELSE cq[a] \in Workers
    /\ \A a \in registered : IsRegistered(a)
    /\ \A q \in Workers : \A i \in DOMAIN queue[q] : IsQueued(queue[q][i], q)
    /\ \A q \in Workers : IF pc[q] \in Working THEN cur[q] # None /\ IsServed(cur[q], q)
                                               ELSE cur[q] = None
    /\ \A a \in finishing : IsFinishing(a)

\* Addresses are in one place at a time, as far as states do not tell, and none
\* is forgotten.
PlaceInv ==
    /\ \A q \in Workers : \A i, j \in DOMAIN queue[q] :
         queue[q][i].tag = queue[q][j].tag => i = j
    /\ \A q \in Workers : Tags(q) \cap finishing = {}
                          /\ cur[q] \notin Tags(q) \cup finishing
    /\ \A a \in Live : \/ a \in registered \cup finishing
                       \/ \E q \in Workers : a \in Tags(q) \cup {cur[q]}

\* Every RPC has one handler at most, and is open until its answer is out.
RpcInv ==
    /\ \A a, b \in Addresses : rpcOf[a] = rpcOf[b] /\ rpcOf[a] # None => a = b
    /\ \A a \in Addresses : rpcOf[a] # None => rpc[rpcOf[a]] \notin {"unsent", "pending"}
    /\ \A a \in finishing : rpc[rpcOf[a]] # "answered"
    /\ \A q \in Workers : pc[q] \in Working => rpc[rpcOf[cur[q]]] # "answered"
    /\ \A q \in Workers : \A i \in DOMAIN queue[q] :
         state[queue[q][i].tag] = "WAIT" => rpc[rpcOf[queue[q][i].tag]] # "answered"

\* A worker has a connection, and a transaction, exactly where the code says.
PoolInv ==
    /\ \A q \in Workers : held[q] # None <=> pc[q] \in Owning
    /\ \A q \in Workers : pc[q] \in Owning => ~noop /\ poolUp
    /\ \A q, w \in Workers : held[q] = held[w] /\ held[q] # None => q = w
    /\ \A c \in Conns : c \in idle <=> \A q \in Workers : held[q] # c
    /\ \A c \in txn : \E q \in Workers : held[q] = c /\ pc[q] \in {"query", "endtxn"}

AnswerInv == \A a \in Addresses : out[a] # None => Fits(out[a], rpcOf[a])

\* Workers that run() has not started yet.
StartInv == \A q \in Workers : started < q => pc[q] = "off"

\* The inductive invariant.
IInv == /\ TypeOK /\ StartInv /\ HandlerInv /\ PlaceInv /\ RpcInv /\ PoolInv /\ AnswerInv
        /\ ReplyFitsRequest

-----------------------------------------------------------------------------
\* What is in a sequence over S is in S.
LEMMA ElementOf ==
    ASSUME NEW S, NEW s \in Seq(S), NEW i \in DOMAIN s
    PROVE  s[i] \in S
OBVIOUS

\* Taking the first event from a queue that has every handler at most once.
LEMMA TailTags ==
    ASSUME NEW s \in Seq(Events), s # <<>>,
           \A i, j \in DOMAIN s : s[i].tag = s[j].tag => i = j
    PROVE  /\ Head(s) \in Events /\ 1 \in DOMAIN s /\ Head(s) = s[1]
           /\ Tail(s) \in Seq(Events)
           /\ \A i, j \in DOMAIN Tail(s) : Tail(s)[i].tag = Tail(s)[j].tag => i = j
           /\ \A i \in DOMAIN Tail(s) : \E j \in DOMAIN s :
                Tail(s)[i] = s[j] /\ s[j].tag # Head(s).tag
           /\ \A j \in DOMAIN s : s[j].tag # Head(s).tag =>
                \E i \in DOMAIN Tail(s) : Tail(s)[i] = s[j]
<1>1. /\ Len(s) \in Nat \ {0}
      /\ DOMAIN s = 1 .. Len(s)
      /\ Head(s) = s[1] /\ s[1] \in Events
  OBVIOUS
<1>2. /\ Tail(s) \in Seq(Events)
      /\ DOMAIN Tail(s) = 1 .. Len(s) - 1
      /\ \A i \in 1 .. Len(s) - 1 : Tail(s)[i] = s[i + 1]
  BY <1>1
<1>3. \A i, j \in DOMAIN Tail(s) : Tail(s)[i].tag = Tail(s)[j].tag => i = j
  BY <1>1, <1>2
<1>4. ASSUME NEW i \in DOMAIN Tail(s)
      PROVE  \E j \in DOMAIN s : Tail(s)[i] = s[j] /\ s[j].tag # Head(s).tag
  <2>1. i + 1 \in DOMAIN s /\ i + 1 # 1 /\ 1 \in DOMAIN s /\ Tail(s)[i] = s[i + 1]
    BY <1>1, <1>2
  <2>2. s[i + 1].tag # s[1].tag
    BY <2>1
  <2>3. QED
    BY <1>1, <2>1, <2>2
<1>5. ASSUME NEW j \in DOMAIN s, s[j].tag # Head(s).tag
      PROVE  \E i \in DOMAIN Tail(s) : Tail(s)[i] = s[j]
  <2>1. j - 1 \in DOMAIN Tail(s) /\ Tail(s)[j - 1] = s[j]
    BY <1>1, <1>2, <1>5
  <2>2. QED
    BY <2>1
<1>6. QED
  BY <1>1, <1>2, <1>3, <1>4, <1>5

\* Appending an event for a handler that is not in the queue.
LEMMA AppendTags ==
    ASSUME NEW s \in Seq(Events), NEW e \in Events,
           \A i, j \in DOMAIN s : s[i].tag = s[j].tag => i = j,
           \A i \in DOMAIN s : s[i].tag # e.tag
    PROVE  /\ Append(s, e) \in Seq(Events)
           /\ \A i, j \in DOMAIN Append(s, e) :
                Append(s, e)[i].tag = Append(s, e)[j].tag => i = j
           /\ \A i \in DOMAIN s : i \in DOMAIN Append(s, e) /\ Append(s, e)[i] = s[i]
           /\ \E i \in DOMAIN Append(s, e) : Append(s, e)[i] = e
           /\ \A i \in DOMAIN Append(s, e) : Append(s, e)[i] = e \/ i \in DOMAIN s
<1> DEFINE t == Append(s, e)
           n == Len(s) + 1
<1>1. /\ t \in Seq(Events)
      /\ n \in Nat
      /\ DOMAIN s = 1 .. Len(s)
      /\ DOMAIN t = DOMAIN s \cup {n}
      /\ n \notin DOMAIN s
      /\ t[n] = e
      /\ \A i \in DOMAIN s : t[i] = s[i]
  OBVIOUS
<1> HIDE DEF t, n
<1>2. \A i, j \in DOMAIN t : t[i].tag = t[j].tag => i = j
  BY <1>1
<1>3. QED
  BY <1>1, <1>2 DEF t

-----------------------------------------------------------------------------
\* The invariant holds before run() has done anything.
LEMMA InitInv == Init => IInv
<1> SUFFICES ASSUME Init PROVE IInv
  OBVIOUS
<1>1. TypeOK
  BY ThreadsAssumption, HandlersAssumption
     DEF Init, TypeOK, Workers, Positions, Lease!Init
<1>2. HandlerInv /\ PlaceInv /\ RpcInv /\ AnswerInv
  BY DEF Init, HandlerInv, PlaceInv, RpcInv, AnswerInv, Working, Live, Tags
<1>3. PoolInv
  BY NoneAssumption DEF Init, PoolInv, Owning, Lease!Init
<1>4. ReplyFitsRequest
  BY DEF Init, ReplyFitsRequest
<1>5. StartInv
  BY DEF Init, StartInv
<1>6. QED
  BY <1>1, <1>2, <1>3, <1>4, <1>5 DEF IInv

\* Which queue the next handler is made for.
LEMMA QueueOf ==
    ASSUME NEW c \in Nat, NEW h \in Nat \ {0}, NEW n \in Nat, c < n * h
    PROVE  /\ c \div h \in Nat /\ c \div h < n
           /\ (c \div h) * h <= c /\ c < (c \div h) * h + h
<1>1. /\ c \div h \in Nat
      /\ (c \div h) * h <= c /\ c < (c \div h) * h + h
  <2>1. c = (h * (c \div h)) + (c % h) /\ c % h \in 0 .. h - 1 /\ c \div h \in Nat
    OBVIOUS
  <2>2. (c \div h) * h = h * (c \div h) /\ (c \div h) * h \in Nat
    BY <2>1
  <2>3. QED
    BY <2>1, <2>2
<1>2. ASSUME c \div h >= n PROVE FALSE
  <2>1. (c \div h) * h >= n * h
    BY <1>1, <1>2
  <2>2. QED
    BY <1>1, <2>1
<1>3. QED
  BY <1>1, <1>2

\* Types, for all actions.
LEMMA TypeStep == IInv /\ [Next]_vars => TypeOK'
<1> SUFFICES ASSUME IInv, [Next]_vars PROVE TypeOK'
  OBVIOUS
<1> USE DEF TypeOK, mainVars, handlerVars, grpcVars, dbVars
<1>1. TypeOK
  BY DEF IInv
<1>2. /\ \A q \in Workers : queue[q] # <<>> =>
           Head(queue[q]) \in Events /\ Tail(queue[q]) \in Seq(Events)
      /\ \A q \in Workers : pc[q] \in Working => cur[q] \in Addresses
      /\ \A q \in Workers : pc[q] \in Owning => held[q] \in Conns
  <2>1. ASSUME NEW q \in Workers, queue[q] # <<>>
        PROVE  Head(queue[q]) \in Events /\ Tail(queue[q]) \in Seq(Events)
    BY <1>1, <2>1, TailTags DEF IInv, PlaceInv, Events
  <2>2. QED
    BY <1>1, <2>1 DEF IInv, HandlerInv, PoolInv
<1>2a. ASSUME NEW q \in Workers, NEW s \in Statuses, NEW u \in Emails \cup {None},
              NEW p \in Positions, Return(q, s, u, p)
       PROVE  /\ out' \in [Addresses -> Replies \cup {None}]
              /\ pc' \in [Workers -> Positions]
  <2>1. Reply(s, u) \in Replies
    BY DEF Reply, Replies
  <2>2. QED
    BY <1>1, <1>2a, <2>1 DEF Return
<1>3. CASE UNCHANGED vars
  BY <1>1, <1>3 DEF vars
<1>4. CASE CreateHandler
  <2>1. created' \in 0 .. NumThreads * HANDLERS_PER_CQ
    BY <1>1, <1>4, ThreadsAssumption, HandlersAssumption DEF CreateHandler
  <2>2. created \div HANDLERS_PER_CQ + 1 \in Workers
    <3>0. /\ created \in Nat /\ created < NumThreads * HANDLERS_PER_CQ
          /\ NumThreads \in Nat /\ HANDLERS_PER_CQ \in Nat \ {0}
      BY <1>1, <1>4, ThreadsAssumption, HandlersAssumption DEF CreateHandler
    <3>1. created \div HANDLERS_PER_CQ \in Nat
          /\ created \div HANDLERS_PER_CQ < NumThreads
      BY <3>0, QueueOf
    <3>2. QED
      BY <3>1, ThreadsAssumption DEF Workers
  <2>3. QED
    BY <1>1, <1>4, <2>1, <2>2 DEF CreateHandler, New, RequestLogin
<1>5. CASE StartWorker
  <2>1. started + 1 \in Workers
    BY <1>1, <1>5, ThreadsAssumption DEF StartWorker, Workers
  <2>2. started' \in 0 .. NumThreads
    BY <1>1, <1>5, ThreadsAssumption DEF StartWorker
  <2>3. QED
    BY <1>1, <1>5, <2>1, <2>2 DEF StartWorker, Positions
<1>6. ASSUME NEW q \in Workers, WorkerLoop(q) PROVE TypeOK'
  <2>1. CASE NextRequest(q)
    BY <1>1, <1>2, <2>1 DEF NextRequest, Positions, Events
  <2>2. CASE NextDelete(q)
    BY <1>1, <1>2, <2>2 DEF NextDelete, Events
  <2>3. CASE Spawn(q)
    <3>1. PICK a \in Addresses :
            /\ cq' = [cq EXCEPT ![a] = q]
            /\ registered' = registered \cup {a}
            /\ state' = [state EXCEPT ![a] = "WAIT", ![cur[q]] = "FINISH"]
      BY <2>3 DEF Spawn, New, RequestLogin
    <3>2. /\ state' \in [Addresses -> {"free", "WAIT", "FINISH"}]
          /\ cq' \in [Addresses -> Workers \cup {None}]
          /\ pc' \in [Workers -> Positions]
      BY <1>1, <2>3, <3>1 DEF Spawn, Positions
    <3>3. QED
      BY <1>1, <2>3, <3>1, <3>2 DEF Spawn
  <2>4. CASE Finish(q)
    BY <1>1, <1>2, <2>4 DEF Finish, Positions, Working
  <2>5. CASE NoopLogin(q) \/ LoginWithoutPool(q) \/ DatabaseThrows(q)
    <3>1. /\ out' \in [Addresses -> Replies \cup {None}]
          /\ pc' \in [Workers -> Positions]
      <4>1. CASE pc[q] = "begin"
        BY <1>1, <1>2a, <2>5, <4>1 DEF NoopLogin, LoginWithoutPool, DatabaseThrows,
                                       Statuses, Positions
      <4>2. CASE pc[q] # "begin"
        BY <1>1, <1>2a, <2>5, <4>2 DEF NoopLogin, LoginWithoutPool, DatabaseThrows,
                                       Statuses, Positions
      <4>3. QED
        BY <4>1, <4>2
    <3>2. QED
      BY <1>1, <2>5, <3>1 DEF NoopLogin, LoginWithoutPool, DatabaseThrows
  <2>6. CASE Query(q)
    <3>1. /\ out' \in [Addresses -> Replies \cup {None}]
          /\ pc' \in [Workers -> Positions]
      BY <1>1, <1>2a, <2>6, StoredAssumption DEF Query, Statuses, Positions
    <3>2. QED
      BY <1>1, <2>6, <3>1 DEF Query
  <2>7. CASE AcquireConnection(q)
    BY <1>1, <2>7 DEF AcquireConnection, Lease!Lend, Positions
  <2>8. CASE BeginRead(q) \/ EndTransaction(q) \/ ReleaseConnection(q)
    <3>1. CASE BeginRead(q)
      BY <1>1, <1>2, <3>1 DEF BeginRead, Positions, Owning
    <3>2. CASE EndTransaction(q)
      BY <1>1, <3>2 DEF EndTransaction, Positions
    <3>3. CASE ReleaseConnection(q)
      BY <1>1, <1>2, <3>3 DEF ReleaseConnection, Lease!GiveBack, Positions, Owning
    <3>4. QED
      BY <2>8, <3>1, <3>2, <3>3
  <2>9. QED
    BY <1>6, <2>1, <2>2, <2>3, <2>4, <2>5, <2>6, <2>7, <2>8 DEF WorkerLoop
<1>7. ASSUME NEW r \in Rpcs, Arrive(r) \/ Drop(r) PROVE TypeOK'
  BY <1>1, <1>7 DEF Arrive, Drop
<1>8. ASSUME NEW r \in Rpcs, NEW a \in Addresses, Match(r, a) PROVE TypeOK'
  <2>1. cq[a] \in Workers
    BY <1>1, <1>8 DEF Match, IInv, HandlerInv, IsRegistered
  <2>2. Append(queue[cq[a]], [tag |-> a, ok |-> TRUE]) \in Seq([tag : Addresses, ok : BOOLEAN])
    <3>1. queue[cq[a]] \in Seq([tag : Addresses, ok : BOOLEAN])
      BY <1>1, <2>1
    <3>2. [tag |-> a, ok |-> TRUE] \in [tag : Addresses, ok : BOOLEAN]
      OBVIOUS
    <3>3. QED
      BY <3>1, <3>2
  <2>3. QED
    BY <1>1, <1>8, <2>1, <2>2 DEF Match
<1>9. ASSUME NEW a \in Addresses, FinishDone(a) PROVE TypeOK'
  <2>1. cq[a] \in Workers /\ rpcOf[a] \in Rpcs
    BY <1>1, <1>9 DEF FinishDone, IInv, HandlerInv, IsFinishing
  <2>2. Append(queue[cq[a]], [tag |-> a, ok |-> rpc[rpcOf[a]] # "dropped"])
          \in Seq([tag : Addresses, ok : BOOLEAN])
    <3>1. queue[cq[a]] \in Seq([tag : Addresses, ok : BOOLEAN])
      BY <1>1, <2>1
    <3>2. [tag |-> a, ok |-> rpc[rpcOf[a]] # "dropped"] \in [tag : Addresses, ok : BOOLEAN]
      OBVIOUS
    <3>3. QED
      BY <3>1, <3>2
  <2>3. queue' \in [Workers -> Seq([tag : Addresses, ok : BOOLEAN])]
    <3>1. queue' = [queue EXCEPT ![cq[a]] =
                      Append(@, [tag |-> a, ok |-> rpc[rpcOf[a]] # "dropped"])]
      BY <1>9 DEF FinishDone
    <3>2. queue \in [Workers -> Seq([tag : Addresses, ok : BOOLEAN])]
      BY <1>1
    <3>3. QED
      BY <2>1, <2>2, <3>1, <3>2
  <2>4. /\ rpc' \in [Rpcs -> {"unsent", "pending", "matched", "answered", "dropped"}]
        /\ reply' \in [Rpcs -> Replies \cup {None}]
    <3>1. CASE rpc[rpcOf[a]] = "dropped"
      BY <1>1, <1>9, <3>1 DEF FinishDone
    <3>2. CASE rpc[rpcOf[a]] # "dropped"
      <4>1. /\ rpc' = [rpc EXCEPT ![rpcOf[a]] = "answered"]
            /\ reply' = [reply EXCEPT ![rpcOf[a]] = out[a]]
        BY <1>9, <3>2 DEF FinishDone
      <4>2. out[a] \in Replies \cup {None}
        BY <1>1
      <4>3. /\ rpc \in [Rpcs -> {"unsent", "pending", "matched", "answered", "dropped"}]
            /\ reply \in [Rpcs -> Replies \cup {None}]
        BY <1>1
      <4>4. QED
        BY <4>1, <4>2, <4>3
    <3>3. QED
      BY <3>1, <3>2
  <2>5. finishing' \subseteq Addresses
    BY <1>1, <1>9 DEF FinishDone
  <2>6. QED
    BY <1>1, <1>9, <2>3, <2>4, <2>5 DEF FinishDone
<1>10. ASSUME NEW c \in Conns, ConnLost(c) PROVE TypeOK'
  BY <1>1, <1>10 DEF ConnLost
<1>11. QED
  BY <1>3, <1>4, <1>5, <1>6, <1>7, <1>8, <1>9, <1>10 DEF Next, Run

\* No worker runs before it is started.
LEMMA StartStep == IInv /\ [Next]_vars => StartInv'
<1> SUFFICES ASSUME IInv, [Next]_vars PROVE StartInv'
  OBVIOUS
<1>1. TypeOK /\ StartInv
  BY DEF IInv
<1>2. CASE UNCHANGED <<started, pc>>
  BY <1>1, <1>2 DEF StartInv
<1>3. CASE StartWorker
  <2>1. /\ started' = started + 1 /\ started \in Nat
        /\ \A q \in Workers : q # started + 1 => pc'[q] = pc[q]
        /\ Workers \subseteq Nat
    BY <1>1, <1>3, ThreadsAssumption DEF TypeOK, StartWorker, Workers
  <2>2. QED
    BY <1>1, <2>1 DEF StartInv
<1>4. ASSUME NEW q \in Workers, WorkerLoop(q) PROVE StartInv'
  <2>1. pc[q] # "off" /\ started' = started
    BY <1>4 DEF WorkerLoop, mainVars, NextRequest, NextDelete, Spawn, NoopLogin,
                LoginWithoutPool, AcquireConnection, BeginRead, Query, DatabaseThrows,
                EndTransaction, ReleaseConnection, Finish
  <2>2. pc' = pc \/ \E p \in Positions : pc' = [pc EXCEPT ![q] = p]
    BY <1>4 DEF WorkerLoop, Positions, Return, NextRequest, NextDelete, Spawn, NoopLogin,
                LoginWithoutPool, AcquireConnection, BeginRead, Query, DatabaseThrows,
                EndTransaction, ReleaseConnection, Finish
  <2>3. \A w \in Workers \ {q} : pc'[w] = pc[w]
    BY <1>1, <2>2 DEF TypeOK
  <2>4. QED
    BY <1>1, <2>1, <2>3 DEF StartInv
<1>5. QED
  <2>1. \/ UNCHANGED <<started, pc>> \/ StartWorker
        \/ \E q \in Workers : WorkerLoop(q)
    BY DEF Next, vars, Run, mainVars, CreateHandler, Arrive, Drop, Match, FinishDone, ConnLost
  <2>2. QED
    BY <1>2, <1>3, <1>4, <2>1

-----------------------------------------------------------------------------
\* Where an address is, it is nowhere else.
LEMMA Apart ==
    ASSUME IInv
    PROVE  /\ \A q \in Workers : Tags(q) \subseteq Live /\ \A a \in Tags(q) : cq[a] = q
           /\ \A q \in Workers : cur[q] # None => cur[q] \in Live /\ cq[cur[q]] = q
           /\ registered \subseteq Live /\ finishing \subseteq Live
           /\ \A a \in registered : /\ a \notin finishing
                                    /\ \A q \in Workers : a \notin Tags(q) /\ cur[q] # a
<1>1. TypeOK /\ HandlerInv
  BY DEF IInv
<1>2. ASSUME NEW q \in Workers, NEW a \in Tags(q)
      PROVE  a \in Live /\ cq[a] = q /\ rpcOf[a] \in Rpcs
  <2>1. PICK i \in DOMAIN queue[q] : a = queue[q][i].tag
    BY DEF Tags
  <2>2. queue[q][i].tag \in Addresses
    <3>1. queue[q] \in Seq(Events)
      BY <1>1 DEF TypeOK, Events
    <3>2. queue[q][i] \in Events
      BY <3>1, ElementOf
    <3>3. QED
      BY <3>2 DEF Events
  <2>3. IsQueued(queue[q][i], q)
    BY <1>1 DEF HandlerInv
  <2>4. QED
    BY <2>1, <2>2, <2>3 DEF IsQueued, Live
<1>3. ASSUME NEW q \in Workers, cur[q] # None
      PROVE  cur[q] \in Live /\ cq[cur[q]] = q /\ rpcOf[cur[q]] \in Rpcs
  <2>1. cur[q] \in Addresses /\ IsServed(cur[q], q)
    BY <1>1, <1>3 DEF TypeOK, HandlerInv
  <2>2. QED
    BY <2>1 DEF IsServed, Live
<1>4. \A a \in registered : a \in Live /\ rpcOf[a] = None /\ state[a] = "WAIT"
  BY <1>1 DEF TypeOK, HandlerInv, IsRegistered, Live
<1>5. \A a \in finishing : a \in Live /\ state[a] = "FINISH"
  BY <1>1 DEF TypeOK, HandlerInv, IsFinishing, Live
<1>6. ASSUME NEW a \in registered
      PROVE  /\ a \notin finishing
             /\ \A q \in Workers : a \notin Tags(q) /\ cur[q] # a
  <2>1. a # None /\ None \notin Rpcs
    BY <1>1, NoneAssumption DEF TypeOK
  <2>2. QED
    BY <1>2, <1>3, <1>4, <1>5, <2>1
<1>7. QED
  BY <1>2, <1>3, <1>4, <1>5, <1>6

\* gRPC puts an event into queue q.
Enqueued(q, e) ==
    /\ \A w \in Workers : \A i, j \in DOMAIN queue'[w] :
         queue'[w][i].tag = queue'[w][j].tag => i = j
    /\ \A w \in Workers : Tags(w)' = IF w = q THEN Tags(q) \cup {e.tag} ELSE Tags(w)
    /\ \A w \in Workers : \A i \in DOMAIN queue'[w] :
         \/ w = q /\ queue'[w][i] = e
         \/ \E j \in DOMAIN queue[w] : queue'[w][i] = queue[w][j]

LEMMA Enqueue ==
    ASSUME IInv, NEW q \in Workers, NEW e \in Events, e.tag \notin Tags(q),
           queue' = [queue EXCEPT ![q] = Append(@, e)]
    PROVE  Enqueued(q, e)
<1>1. /\ queue \in [Workers -> Seq(Events)]
      /\ \A w \in Workers : \A i, j \in DOMAIN queue[w] :
           queue[w][i].tag = queue[w][j].tag => i = j
      /\ \A i \in DOMAIN queue[q] : queue[q][i].tag # e.tag
  BY DEF IInv, TypeOK, PlaceInv, Events, Tags
<1>2. /\ queue'[q] = Append(queue[q], e)
      /\ \A w \in Workers \ {q} : queue'[w] = queue[w]
  BY <1>1
<1>3. /\ \A i, j \in DOMAIN queue'[q] : queue'[q][i].tag = queue'[q][j].tag => i = j
      /\ \A i \in DOMAIN queue[q] : i \in DOMAIN queue'[q] /\ queue'[q][i] = queue[q][i]
      /\ \E i \in DOMAIN queue'[q] : queue'[q][i] = e
      /\ \A i \in DOMAIN queue'[q] : queue'[q][i] = e \/ i \in DOMAIN queue[q]
  <2> DEFINE s == queue[q]
  <2>1. s \in Seq(Events)
    BY <1>1
  <2>2. /\ \A i, j \in DOMAIN s : s[i].tag = s[j].tag => i = j
        /\ \A i \in DOMAIN s : s[i].tag # e.tag
    BY <1>1
  <2> HIDE DEF s
  <2>3. /\ \A i, j \in DOMAIN Append(s, e) :
             Append(s, e)[i].tag = Append(s, e)[j].tag => i = j
        /\ \A i \in DOMAIN s : i \in DOMAIN Append(s, e) /\ Append(s, e)[i] = s[i]
        /\ \E i \in DOMAIN Append(s, e) : Append(s, e)[i] = e
        /\ \A i \in DOMAIN Append(s, e) : Append(s, e)[i] = e \/ i \in DOMAIN s
    BY <2>1, <2>2, AppendTags
  <2>4. QED
    BY <1>2, <2>3 DEF s
<1>4. Tags(q)' = Tags(q) \cup {e.tag}
  BY <1>3 DEF Tags
<1>5. \A w \in Workers \ {q} : Tags(w)' = Tags(w)
  BY <1>2 DEF Tags
<1>6. /\ \A w \in Workers : \A i, j \in DOMAIN queue'[w] :
           queue'[w][i].tag = queue'[w][j].tag => i = j
      /\ \A w \in Workers : Tags(w)' = IF w = q THEN Tags(q) \cup {e.tag} ELSE Tags(w)
      /\ \A w \in Workers : \A i \in DOMAIN queue'[w] :
           \/ w = q /\ queue'[w][i] = e
           \/ \E j \in DOMAIN queue[w] : queue'[w][i] = queue[w][j]
  BY <1>1, <1>2, <1>3, <1>4, <1>5
<1>7. QED
  BY <1>6 DEF Enqueued

\* A worker takes the first event from its queue.
Dequeued(q, e) ==
    /\ e \in Events /\ e.tag \in Tags(q) /\ IsQueued(e, q)
    /\ state[e.tag] = "WAIT" => rpc[rpcOf[e.tag]] # "answered"
    /\ \A w \in Workers : \A i, j \in DOMAIN queue'[w] :
         queue'[w][i].tag = queue'[w][j].tag => i = j
    /\ \A w \in Workers : Tags(w)' = IF w = q THEN Tags(q) \ {e.tag} ELSE Tags(w)
    /\ \A w \in Workers : \A i \in DOMAIN queue'[w] :
         \E j \in DOMAIN queue[w] : queue'[w][i] = queue[w][j]

LEMMA Dequeue ==
    ASSUME IInv, NEW q \in Workers, queue[q] # <<>>, NEW h, h = Head(queue[q]),
           queue' = [queue EXCEPT ![q] = Tail(@)]
    PROVE  Dequeued(q, h)
<1>1. /\ queue \in [Workers -> Seq(Events)]
      /\ \A w \in Workers : \A i, j \in DOMAIN queue[w] :
           queue[w][i].tag = queue[w][j].tag => i = j
  BY DEF IInv, TypeOK, PlaceInv, Events
<1>2. /\ queue'[q] = Tail(queue[q])
      /\ \A w \in Workers \ {q} : queue'[w] = queue[w]
  BY <1>1
<1> DEFINE s == queue[q]
<1>3. s \in Seq(Events) /\ s # <<>> /\ h = Head(s)
      /\ \A i, j \in DOMAIN s : s[i].tag = s[j].tag => i = j
  BY <1>1
<1>4. queue'[q] = Tail(s)
  BY <1>2
<1> HIDE DEF s
<1>5. /\ h \in Events /\ 1 \in DOMAIN s /\ h = s[1]
      /\ \A i, j \in DOMAIN Tail(s) : Tail(s)[i].tag = Tail(s)[j].tag => i = j
      /\ \A i \in DOMAIN Tail(s) : \E j \in DOMAIN s :
           Tail(s)[i] = s[j] /\ s[j].tag # h.tag
      /\ \A j \in DOMAIN s : s[j].tag # h.tag =>
           \E i \in DOMAIN Tail(s) : Tail(s)[i] = s[j]
  <2>1. /\ Head(s) \in Events /\ 1 \in DOMAIN s /\ Head(s) = s[1]
        /\ \A i, j \in DOMAIN Tail(s) : Tail(s)[i].tag = Tail(s)[j].tag => i = j
        /\ \A i \in DOMAIN Tail(s) : \E j \in DOMAIN s :
             Tail(s)[i] = s[j] /\ s[j].tag # Head(s).tag
        /\ \A j \in DOMAIN s : s[j].tag # Head(s).tag =>
             \E i \in DOMAIN Tail(s) : Tail(s)[i] = s[j]
    BY <1>3, TailTags
  <2>2. h = Head(s)
    BY <1>3
  <2>3. QED
    BY <2>1, <2>2
<1>6. h.tag \in Tags(q) /\ IsQueued(h, q)
      /\ (state[h.tag] = "WAIT" => rpc[rpcOf[h.tag]] # "answered")
  BY <1>5 DEF s, Tags, IInv, HandlerInv, RpcInv
<1>7. Tags(q)' = Tags(q) \ {h.tag}
  <2>1. Tags(q)' = {Tail(s)[i].tag : i \in DOMAIN Tail(s)}
    BY <1>4 DEF Tags
  <2>2. Tags(q) = {s[i].tag : i \in DOMAIN s}
    BY DEF Tags, s
  <2>3. QED
    BY <1>5, <2>1, <2>2
<1>8. \A w \in Workers \ {q} : Tags(w)' = Tags(w)
  BY <1>2 DEF Tags
<1>9. \A w \in Workers : \A i, j \in DOMAIN queue'[w] :
        queue'[w][i].tag = queue'[w][j].tag => i = j
  <2>1. \A i, j \in DOMAIN queue'[q] : queue'[q][i].tag = queue'[q][j].tag => i = j
    <3> DEFINE t == Tail(s)
    <3>1. queue'[q] = t /\ \A i, j \in DOMAIN t : t[i].tag = t[j].tag => i = j
      BY <1>4, <1>5
    <3> HIDE DEF t
    <3>2. QED
      BY <3>1
  <2>2. ASSUME NEW w \in Workers \ {q}
        PROVE  \A i, j \in DOMAIN queue'[w] : queue'[w][i].tag = queue'[w][j].tag => i = j
    <3>1. /\ queue'[w] = queue[w]
          /\ \A i, j \in DOMAIN queue[w] : queue[w][i].tag = queue[w][j].tag => i = j
      BY <1>1, <1>2
    <3> DEFINE t == queue'[w]
               u == queue[w]
    <3>2. t = u /\ \A i, j \in DOMAIN u : u[i].tag = u[j].tag => i = j
      BY <3>1
    <3> HIDE DEF t, u
    <3>3. \A i, j \in DOMAIN t : t[i].tag = t[j].tag => i = j
      BY <3>2
    <3>4. QED
      BY <3>3 DEF t
  <2>3. QED
    BY <2>1, <2>2
<1>10. \A w \in Workers : \A i \in DOMAIN queue'[w] :
         \E j \in DOMAIN queue[w] : queue'[w][i] = queue[w][j]
  <2>1. \A i \in DOMAIN queue'[q] : \E j \in DOMAIN queue[q] : queue'[q][i] = queue[q][j]
    BY <1>4, <1>5 DEF s
  <2>2. QED
    BY <1>2, <2>1
<1>11. h \in Events
  BY <1>5
<1>12. QED
  BY <1>6, <1>7, <1>8, <1>9, <1>10, <1>11 DEF Dequeued

-----------------------------------------------------------------------------
\* The pool's part of the invariant looks at a worker only to see if it owns.
LEMMA PoolSame ==
    ASSUME PoolInv, UNCHANGED <<noop, dbVars>>,
           \A q \in Workers : \/ pc'[q] = pc[q]
                              \/ pc[q] \notin Owning /\ pc'[q] \notin Owning
    PROVE  PoolInv'
<1>1. UNCHANGED <<noop, poolUp, idle, held, txn>>
  BY DEF dbVars
<1>2. \A q \in Workers : /\ pc'[q] \in Owning <=> pc[q] \in Owning
                         /\ pc[q] \in {"query", "endtxn"} => pc'[q] = pc[q]
  BY DEF Owning
<1>3. QED
  BY <1>1, <1>2 DEF PoolInv

\* An answer goes on fitting its request.
LEMMA AnswersKept ==
    ASSUME AnswerInv, ReplyFitsRequest, UNCHANGED <<noop, req, poolUp>>,
           \A a \in Addresses : out'[a] # None => /\ out'[a] = out[a]
                                                  /\ rpcOf'[a] = rpcOf[a],
           \A r \in Rpcs : reply'[r] # None =>
             \/ reply'[r] = reply[r]
             \/ \E a \in Addresses : /\ out[a] # None /\ rpcOf[a] = r
                                     /\ reply'[r] = out[a]
    PROVE  AnswerInv' /\ ReplyFitsRequest'
<1>1. ASSUME NEW answer, NEW r, Fits(answer, r)
      PROVE  /\ answer.status = "OK" =>
                  \/ noop' /\ answer.user = None
                  \/ /\ ~noop' /\ poolUp' /\ req'[r].email \in DOMAIN Stored
                     /\ Stored[req'[r].email] # None
                     /\ req'[r].password = Stored[req'[r].email]
                     /\ answer.user = req'[r].email
             /\ answer.status = "NOT_FOUND" =>
                  ~noop' /\ poolUp' /\ req'[r].email \notin DOMAIN Stored
             /\ answer.status = "UNAUTHENTICATED" =>
                  /\ ~noop' /\ poolUp' /\ req'[r].email \in DOMAIN Stored
                  /\ Stored[req'[r].email] # None
                  /\ req'[r].password # Stored[req'[r].email]
             /\ answer.status = "UNAVAILABLE" => ~noop' /\ ~poolUp'
             /\ answer.status = "INTERNAL" => ~noop' /\ poolUp'
             /\ answer.status # "OK" => answer.user = None
  BY <1>1 DEF Fits
<1>2. ASSUME NEW a \in Addresses, out'[a] # None
      PROVE  Fits(out[a], rpcOf[a])'
  <2>1. Fits(out[a], rpcOf[a]) /\ out'[a] = out[a] /\ rpcOf'[a] = rpcOf[a]
    BY <1>2 DEF AnswerInv
  <2>2. QED
    BY <1>1, <2>1 DEF Fits
<1>3. ASSUME NEW r \in Rpcs, reply'[r] # None
      PROVE  Fits(reply[r], r)'
  <2>1. Fits(reply'[r], r)
    BY <1>3 DEF AnswerInv, ReplyFitsRequest
  <2>2. QED
    BY <1>1, <2>1 DEF Fits
<1>4. QED
  BY <1>2, <1>3 DEF AnswerInv, ReplyFitsRequest

\* A call arrives, or is given up.
LEMMA NetworkStep ==
    ASSUME IInv, TypeOK', StartInv', NEW r \in Rpcs, Arrive(r) \/ Drop(r)
    PROVE  IInv'
<1> USE DEF mainVars, handlerVars, dbVars
<1>1. TypeOK /\ HandlerInv /\ PlaceInv /\ RpcInv /\ PoolInv /\ AnswerInv /\ ReplyFitsRequest
  BY DEF IInv
<1>2. /\ UNCHANGED <<state, cq, rpcOf, out, registered, finishing, queue, reply, req,
                     pc, cur, noop, dbVars>>
      /\ \A s \in Rpcs \ {r} : rpc'[s] = rpc[s]
      /\ rpc'[r] # "answered"
      /\ rpc'[r] \in {"unsent", "pending"} => rpc[r] \in {"unsent", "pending"}
  BY <1>1 DEF TypeOK, Arrive, Drop
<1>3. HandlerInv' /\ PlaceInv'
  BY <1>1, <1>2 DEF HandlerInv, PlaceInv, IsRegistered, IsQueued, IsServed, IsFinishing,
                    Tags, Live
<1>4. RpcInv'
  <2>1. \A s \in Rpcs : /\ rpc'[s] = "answered" => rpc[s] = "answered"
                        /\ rpc'[s] \in {"unsent", "pending"} => rpc[s] \in {"unsent", "pending"}
    BY <1>2
  <2>2. /\ \A a \in Addresses : rpcOf[a] # None => rpcOf[a] \in Rpcs
        /\ \A a \in finishing : rpcOf[a] \in Rpcs
        /\ \A q \in Workers : pc[q] \in Working => rpcOf[cur[q]] \in Rpcs
        /\ \A q \in Workers : \A i \in DOMAIN queue[q] : rpcOf[queue[q][i].tag] \in Rpcs
    BY <1>1 DEF TypeOK, HandlerInv, IsQueued, IsServed, IsFinishing
  <2>3. QED
    BY <1>1, <1>2, <2>1, <2>2 DEF RpcInv
<1>5. PoolInv' /\ AnswerInv' /\ ReplyFitsRequest'
  BY <1>1, <1>2, PoolSame, AnswersKept
<1>6. QED
  BY <1>3, <1>4, <1>5 DEF IInv

\* An RPC goes to a registered handler.
LEMMA MatchStep ==
    ASSUME IInv, TypeOK', StartInv', NEW r \in Rpcs, NEW a \in Addresses, Match(r, a)
    PROVE  IInv'
<1> USE DEF mainVars, handlerVars, dbVars
<1>1. TypeOK /\ HandlerInv /\ PlaceInv /\ RpcInv /\ PoolInv /\ AnswerInv /\ ReplyFitsRequest
  BY DEF IInv
<1>0. PICK q \in Workers : q = cq[a]
  BY <1>1 DEF Match, HandlerInv, IsRegistered
<1> DEFINE e == [tag |-> a, ok |-> TRUE]
<1>2. /\ a \in registered /\ rpc[r] = "pending"
      /\ registered' = registered \ {a}
      /\ rpcOf' = [rpcOf EXCEPT ![a] = r]
      /\ rpc' = [rpc EXCEPT ![r] = "matched"]
      /\ UNCHANGED <<state, cq, out, finishing, reply, req, pc, cur, noop, dbVars>>
  BY DEF Match
<1>3. /\ state[a] = "WAIT" /\ rpcOf[a] = None /\ out[a] = None
      /\ e \in Events /\ e.tag = a /\ e.ok
      /\ a \notin finishing
      /\ \A w \in Workers : a \notin Tags(w) /\ cur[w] # a
  BY <1>1, <1>2, Apart DEF HandlerInv, IsRegistered, Events
<1>4. queue' = [queue EXCEPT ![q] = Append(@, e)]
  BY <1>0 DEF Match
<1> HIDE DEF e
<1>5. /\ \A w \in Workers : \A i, j \in DOMAIN queue'[w] :
           queue'[w][i].tag = queue'[w][j].tag => i = j
      /\ \A w \in Workers : Tags(w)' = IF w = q THEN Tags(q) \cup {a} ELSE Tags(w)
      /\ \A w \in Workers : \A i \in DOMAIN queue'[w] :
           \/ w = q /\ queue'[w][i] = e
           \/ \E j \in DOMAIN queue[w] : queue'[w][i] = queue[w][j]
  <2>1. e \in Events /\ e.tag \notin Tags(q) /\ e.tag = a
    BY <1>3
  <2>2. Enqueued(q, e)
    BY <1>4, <2>1, Enqueue
  <2>3. QED
    BY <2>1, <2>2 DEF Enqueued
<1>6. ASSUME NEW w \in Workers, NEW i \in DOMAIN queue[w]
      PROVE  queue[w][i].tag # a /\ queue[w][i].tag \in Addresses
  <2>1. queue[w][i].tag \in Tags(w)
    BY DEF Tags
  <2>2. QED
    BY <1>3, <2>1, Apart DEF Live
<1>7. /\ rpcOf'[a] = r /\ \A b \in Addresses \ {a} : rpcOf'[b] = rpcOf[b]
      /\ rpc'[r] = "matched" /\ \A s \in Rpcs \ {r} : rpc'[s] = rpc[s]
  BY <1>1, <1>2 DEF TypeOK
<1>8. /\ \A b \in Addresses : rpcOf[b] # r
      /\ None \notin Addresses /\ None \notin Rpcs
  BY <1>1, <1>2, NoneAssumption DEF RpcInv
<1>9. HandlerInv'
  <2>1. \A b \in Addresses : IF state'[b] = "free" THEN rpcOf'[b] = None /\ out'[b] = None
                                                   ELSE cq'[b] \in Workers
    BY <1>1, <1>2, <1>3, <1>7 DEF HandlerInv
  <2>2. \A b \in registered' : IsRegistered(b)'
    BY <1>1, <1>2, <1>7 DEF TypeOK, HandlerInv, IsRegistered
  <2>3. ASSUME NEW w \in Workers, NEW i \in DOMAIN queue'[w]
        PROVE  IsQueued(queue[w][i], w)'
    <3>1. CASE w = q /\ queue'[w][i] = e
      BY <1>0, <1>2, <1>3, <1>7, <3>1 DEF IsQueued
    <3>2. CASE \E j \in DOMAIN queue[w] : queue'[w][i] = queue[w][j]
      <4>1. PICK j \in DOMAIN queue[w] : queue'[w][i] = queue[w][j]
        BY <3>2
      <4>2. IsQueued(queue[w][j], w)
        BY <1>1 DEF HandlerInv
      <4>3. QED
        BY <1>2, <1>6, <1>7, <4>1, <4>2 DEF IsQueued
    <3>3. QED
      BY <1>5, <3>1, <3>2
  <2>4. \A w \in Workers : IF pc'[w] \in Working THEN cur'[w] # None /\ IsServed(cur[w], w)'
                                                 ELSE cur'[w] = None
    BY <1>1, <1>2, <1>3, <1>7 DEF TypeOK, HandlerInv, IsServed
  <2>5. \A b \in finishing' : IsFinishing(b)'
    BY <1>1, <1>2, <1>3, <1>7 DEF TypeOK, HandlerInv, IsFinishing
  <2>6. QED
    BY <2>1, <2>2, <2>3, <2>4, <2>5 DEF HandlerInv
<1>10. PlaceInv'
  <2>1. \A w \in Workers : Tags(w)' \cap finishing' = {}
                           /\ cur'[w] \notin Tags(w)' \cup finishing'
    BY <1>1, <1>2, <1>3, <1>5 DEF PlaceInv
  <2>2. ASSUME NEW b \in Live'
        PROVE  b \in registered' \cup finishing' \/ \E w \in Workers : b \in Tags(w)' \cup {cur'[w]}
    <3>1. CASE b = a
      BY <1>3, <1>5, <3>1
    <3>2. CASE b # a
      <4>1. b \in Live
        BY <1>2 DEF Live
      <4>2. b \in registered \cup finishing \/ \E w \in Workers : b \in Tags(w) \cup {cur[w]}
        BY <1>1, <4>1 DEF PlaceInv
      <4>3. QED
        BY <1>2, <1>5, <3>2, <4>2
    <3>3. QED
      BY <3>1, <3>2
  <2>3. QED
    BY <1>5, <2>1, <2>2 DEF PlaceInv
<1>11. RpcInv'
  <2>1. \A b, c \in Addresses : rpcOf'[b] = rpcOf'[c] /\ rpcOf'[b] # None => b = c
    BY <1>1, <1>7, <1>8 DEF RpcInv
  <2>2. \A b \in Addresses \ {a} : rpcOf[b] # None => rpc'[rpcOf'[b]] = rpc[rpcOf[b]]
    BY <1>1, <1>7, <1>8 DEF TypeOK
  <2>3. \A b \in Addresses : rpcOf'[b] # None => rpc'[rpcOf'[b]] \notin {"unsent", "pending"}
    <3>1. rpc'[rpcOf'[a]] = "matched"
      BY <1>7
    <3>2. \A b \in Addresses \ {a} :
            rpcOf[b] # None => rpc[rpcOf[b]] \notin {"unsent", "pending"}
      BY <1>1 DEF RpcInv
    <3>3. QED
      BY <1>7, <2>2, <3>1, <3>2
  <2>4. \A b \in finishing' : rpc'[rpcOf'[b]] # "answered"
    BY <1>1, <1>2, <1>3, <1>8, <2>2 DEF TypeOK, HandlerInv, IsFinishing, RpcInv
  <2>5. \A w \in Workers : pc'[w] \in Working => rpc'[rpcOf'[cur'[w]]] # "answered"
    BY <1>1, <1>2, <1>3, <1>8, <2>2 DEF TypeOK, HandlerInv, IsServed, RpcInv
  <2>6. ASSUME NEW w \in Workers, NEW i \in DOMAIN queue'[w], state'[queue'[w][i].tag] = "WAIT"
        PROVE  rpc'[rpcOf'[queue'[w][i].tag]] # "answered"
    <3>1. CASE w = q /\ queue'[w][i] = e
      BY <1>3, <1>7, <3>1
    <3>2. CASE \E j \in DOMAIN queue[w] : queue'[w][i] = queue[w][j]
      <4>1. PICK j \in DOMAIN queue[w] : queue'[w][i] = queue[w][j]
        BY <3>2
      <4>2. IsQueued(queue[w][j], w)
        BY <1>1 DEF HandlerInv
      <4>3. rpc[rpcOf[queue[w][j].tag]] # "answered"
        BY <1>1, <1>2, <2>6, <4>1 DEF RpcInv
      <4>4. QED
        BY <1>6, <1>8, <2>2, <4>1, <4>2, <4>3 DEF IsQueued
    <3>3. QED
      BY <1>5, <3>1, <3>2
  <2>7. QED
    BY <2>1, <2>3, <2>4, <2>5, <2>6 DEF RpcInv
<1>12. PoolInv' /\ AnswerInv' /\ ReplyFitsRequest'
  <2>1. PoolInv'
    BY <1>1, <1>2, PoolSame
  <2>2. \A b \in Addresses : out'[b] # None => out'[b] = out[b] /\ rpcOf'[b] = rpcOf[b]
    BY <1>2, <1>3, <1>7
  <2>3. QED
    BY <1>1, <1>2, <2>1, <2>2, AnswersKept
<1>13. QED
  BY <1>9, <1>10, <1>11, <1>12 DEF IInv

\* A Finish comes to its end.
LEMMA FinishDoneStep ==
    ASSUME IInv, TypeOK', StartInv', NEW a \in Addresses, FinishDone(a)
    PROVE  IInv'
<1> USE DEF mainVars, handlerVars, dbVars
<1>1. TypeOK /\ HandlerInv /\ PlaceInv /\ RpcInv /\ PoolInv /\ AnswerInv /\ ReplyFitsRequest
  BY DEF IInv
<1>2. a \in finishing /\ state[a] = "FINISH" /\ rpcOf[a] \in Rpcs /\ out[a] # None
      /\ cq[a] \in Workers
  BY <1>1 DEF FinishDone, HandlerInv, IsFinishing
<1>3. PICK q \in Workers : q = cq[a]
  BY <1>2
<1>4. PICK r \in Rpcs : r = rpcOf[a]
  BY <1>2
<1>5. PICK e \in Events : e = [tag |-> a, ok |-> rpc[r] # "dropped"]
  <2>1. [tag |-> a, ok |-> rpc[r] # "dropped"] \in Events
    BY DEF Events
  <2>2. QED
    BY <2>1
<1>6. /\ finishing' = finishing \ {a}
      /\ queue' = [queue EXCEPT ![q] = Append(@, e)]
      /\ UNCHANGED <<state, cq, rpcOf, out, registered, req, pc, cur, noop, dbVars>>
  BY <1>3, <1>4, <1>5 DEF FinishDone
<1>7. /\ rpc'[r] \in {"answered", "dropped"}
      /\ reply'[r] = reply[r] \/ reply'[r] = out[a]
      /\ \A s \in Rpcs \ {r} : rpc'[s] = rpc[s] /\ reply'[s] = reply[s]
  <2>1. CASE rpc[r] # "dropped"
    BY <1>1, <1>4, <2>1 DEF FinishDone, TypeOK
  <2>2. CASE rpc[r] = "dropped"
    BY <1>1, <1>4, <2>2 DEF FinishDone, TypeOK
  <2>3. QED
    BY <2>1, <2>2
<1>8. /\ e.tag = a
      /\ \A w \in Workers : a \notin Tags(w) /\ cur[w] # a
      /\ a \notin registered
  BY <1>1, <1>2, <1>5, Apart DEF PlaceInv
<1>9. /\ \A w \in Workers : \A i, j \in DOMAIN queue'[w] :
           queue'[w][i].tag = queue'[w][j].tag => i = j
      /\ \A w \in Workers : Tags(w)' = IF w = q THEN Tags(q) \cup {a} ELSE Tags(w)
      /\ \A w \in Workers : \A i \in DOMAIN queue'[w] :
           \/ w = q /\ queue'[w][i] = e
           \/ \E j \in DOMAIN queue[w] : queue'[w][i] = queue[w][j]
  <2>1. /\ e \in Events /\ e.tag \notin Tags(q)
        /\ queue' = [queue EXCEPT ![q] = Append(@, e)]
    BY <1>6, <1>8
  <2>2. Enqueued(q, e)
    BY <2>1, Enqueue
  <2>3. QED
    BY <1>8, <2>2 DEF Enqueued
<1>10. ASSUME NEW w \in Workers, NEW i \in DOMAIN queue[w]
       PROVE  queue[w][i].tag # a /\ queue[w][i].tag \in Addresses
  <2>1. queue[w][i].tag \in Tags(w)
    BY DEF Tags
  <2>2. QED
    BY <1>8, <2>1, Apart DEF Live
<1>11. \A b \in Addresses \ {a} : rpcOf[b] # None => rpcOf[b] \in Rpcs \ {r}
  BY <1>1, <1>4 DEF TypeOK, RpcInv
<1>12. HandlerInv'
  <2>1. ASSUME NEW w \in Workers, NEW i \in DOMAIN queue'[w]
        PROVE  IsQueued(queue[w][i], w)'
    <3>1. CASE w = q /\ queue'[w][i] = e
      BY <1>2, <1>3, <1>6, <1>8, <3>1 DEF IsQueued
    <3>2. CASE \E j \in DOMAIN queue[w] : queue'[w][i] = queue[w][j]
      <4>1. PICK j \in DOMAIN queue[w] : queue'[w][i] = queue[w][j]
        BY <3>2
      <4>2. IsQueued(queue[w][j], w)
        BY <1>1 DEF HandlerInv
      <4>3. QED
        BY <1>6, <4>1, <4>2 DEF IsQueued
    <3>3. QED
      BY <1>9, <3>1, <3>2
  <2>2. QED
    BY <1>1, <1>6, <2>1 DEF HandlerInv, IsRegistered, IsServed, IsFinishing
<1>13. PlaceInv'
  <2>1. \A w \in Workers : Tags(w)' \cap finishing' = {}
                           /\ cur'[w] \notin Tags(w)' \cup finishing'
    BY <1>1, <1>6, <1>8, <1>9 DEF PlaceInv
  <2>2. ASSUME NEW b \in Live'
        PROVE  b \in registered' \cup finishing' \/ \E w \in Workers : b \in Tags(w)' \cup {cur'[w]}
    <3>1. CASE b = a
      BY <1>9, <3>1
    <3>2. CASE b # a
      <4>1. b \in Live
        BY <1>6 DEF Live
      <4>2. b \in registered \cup finishing \/ \E w \in Workers : b \in Tags(w) \cup {cur[w]}
        BY <1>1, <4>1 DEF PlaceInv
      <4>3. QED
        BY <1>6, <1>9, <3>2, <4>2
    <3>3. QED
      BY <3>1, <3>2
  <2>3. QED
    BY <1>9, <2>1, <2>2 DEF PlaceInv
<1>14. RpcInv'
  <2>1. \A b \in Addresses : rpcOf[b] # None => rpc'[rpcOf[b]] \notin {"unsent", "pending"}
    BY <1>1, <1>4, <1>7, <1>11 DEF RpcInv
  <2>2. \A b \in Addresses \ {a} : rpcOf[b] # None => rpc'[rpcOf[b]] = rpc[rpcOf[b]]
    BY <1>7, <1>11
  <2>3. None \notin Rpcs
    BY NoneAssumption
  <2>4. \A b \in finishing' : rpc'[rpcOf'[b]] # "answered"
    BY <1>1, <1>6, <2>2, <2>3 DEF TypeOK, HandlerInv, IsFinishing, RpcInv
  <2>5. \A w \in Workers : pc'[w] \in Working => rpc'[rpcOf'[cur'[w]]] # "answered"
    BY <1>1, <1>6, <1>8, <2>2, <2>3 DEF TypeOK, HandlerInv, IsServed, RpcInv
  <2>6. ASSUME NEW w \in Workers, NEW i \in DOMAIN queue'[w], state'[queue'[w][i].tag] = "WAIT"
        PROVE  rpc'[rpcOf'[queue'[w][i].tag]] # "answered"
    <3>1. CASE w = q /\ queue'[w][i] = e
      BY <1>2, <1>6, <1>8, <2>6, <3>1
    <3>2. CASE \E j \in DOMAIN queue[w] : queue'[w][i] = queue[w][j]
      <4>1. PICK j \in DOMAIN queue[w] : queue'[w][i] = queue[w][j]
        BY <3>2
      <4>2. IsQueued(queue[w][j], w)
        BY <1>1 DEF HandlerInv
      <4>3. rpc[rpcOf[queue[w][j].tag]] # "answered"
        BY <1>1, <1>6, <2>6, <4>1 DEF RpcInv
      <4>4. QED
        BY <1>6, <1>10, <2>2, <2>3, <4>1, <4>2, <4>3 DEF IsQueued
    <3>3. QED
      BY <1>9, <3>1, <3>2
  <2>7. QED
    BY <1>1, <1>6, <2>1, <2>4, <2>5, <2>6 DEF RpcInv
<1>15. PoolInv' /\ AnswerInv' /\ ReplyFitsRequest'
  <2>1. PoolInv'
    BY <1>1, <1>6, PoolSame
  <2>2. \A s \in Rpcs : reply'[s] # None =>
          \/ reply'[s] = reply[s]
          \/ \E b \in Addresses : out[b] # None /\ rpcOf[b] = s /\ reply'[s] = out[b]
    BY <1>2, <1>4, <1>7
  <2>3. QED
    BY <1>1, <1>6, <2>1, <2>2, AnswersKept
<1>16. QED
  BY <1>12, <1>13, <1>14, <1>15 DEF IInv

\* A connection breaks.
LEMMA ConnLostStep ==
    ASSUME IInv, TypeOK', StartInv', NEW c \in Conns, ConnLost(c)
    PROVE  IInv'
<1> USE DEF mainVars, handlerVars, grpcVars
<1>1. TypeOK /\ HandlerInv /\ PlaceInv /\ RpcInv /\ PoolInv /\ AnswerInv /\ ReplyFitsRequest
  BY DEF IInv
<1>2. /\ UNCHANGED <<state, cq, rpcOf, out, registered, finishing, queue, rpc, reply, req,
                     pc, cur, noop, poolUp, idle, held>>
      /\ txn' \subseteq txn /\ broken' # {}
  BY DEF ConnLost
<1>3. HandlerInv' /\ PlaceInv' /\ RpcInv'
  BY <1>1, <1>2 DEF HandlerInv, PlaceInv, RpcInv, IsRegistered, IsQueued, IsServed,
                    IsFinishing, Tags, Live
<1>4. PoolInv'
  BY <1>1, <1>2 DEF PoolInv
<1>5. AnswerInv' /\ ReplyFitsRequest'
  BY <1>1, <1>2, AnswersKept
<1>6. QED
  BY <1>3, <1>4, <1>5 DEF IInv

\* A step of worker q inside handleLogin().
LEMMA LoginStep ==
    ASSUME IInv, TypeOK', NEW q \in Workers, NEW p \in Working \ {"spawn"},
           pc[q] \in Working \ {"spawn"}, pc' = [pc EXCEPT ![q] = p],
           UNCHANGED <<state, cq, rpcOf, registered, finishing, queue, rpc, cur>>,
           \A a \in Addresses : a # cur[q] => out'[a] = out[a],
           p \in {"endtxn", "release", "finish"} => out'[cur[q]] # None
    PROVE  HandlerInv' /\ PlaceInv' /\ RpcInv'
<1>1. TypeOK /\ HandlerInv /\ PlaceInv /\ RpcInv
  BY DEF IInv
<1>2. PICK a \in Addresses : a = cur[q]
  BY <1>1 DEF TypeOK, HandlerInv
<1>3. /\ pc'[q] = p /\ \A w \in Workers \ {q} : pc'[w] = pc[w]
      /\ \A w \in Workers : pc'[w] \in Working <=> pc[w] \in Working
  BY <1>1 DEF TypeOK
<1>4. /\ state[a] = "FINISH" /\ cq[a] = q /\ a \notin finishing
      /\ \A w \in Workers : a \notin Tags(w)
      /\ \A w \in Workers \ {q} : cur[w] # a
  <2>1. state[a] = "FINISH" /\ cq[a] = q /\ a \notin finishing /\ a \notin Tags(q)
    BY <1>1, <1>2 DEF HandlerInv, IsServed, PlaceInv
  <2>2. a # None
    BY NoneAssumption
  <2>3. QED
    BY <2>1, <2>2, Apart
<1>5. HandlerInv'
  <2>1. \A b \in Addresses : IF state'[b] = "free" THEN rpcOf'[b] = None /\ out'[b] = None
                                                   ELSE cq'[b] \in Workers
    BY <1>1, <1>2, <1>4 DEF HandlerInv
  <2>2. \A b \in registered' : IsRegistered(b)'
    BY <1>1, <1>2, <1>4 DEF TypeOK, HandlerInv, IsRegistered
  <2>3. ASSUME NEW w \in Workers, NEW i \in DOMAIN queue[w]
        PROVE  IsQueued(queue[w][i], w)'
    <3>1. queue[w][i].tag \in Tags(w) /\ IsQueued(queue[w][i], w)
      BY <1>1 DEF Tags, HandlerInv
    <3>2. queue[w][i].tag # a /\ queue[w][i].tag \in Addresses
      BY <1>4, <3>1, Apart DEF Live
    <3>3. QED
      BY <1>2, <3>1, <3>2 DEF IsQueued
  <2>4. ASSUME NEW w \in Workers
        PROVE  IF pc'[w] \in Working THEN cur'[w] # None /\ IsServed(cur[w], w)'
                                     ELSE cur'[w] = None
    <3>1. CASE w = q
      BY <1>1, <1>2, <1>3, <1>4, <3>1, NoneAssumption DEF HandlerInv, IsServed
    <3>2. CASE w # q
      BY <1>1, <1>2, <1>3, <1>4, <3>2 DEF TypeOK, HandlerInv, IsServed
    <3>3. QED
      BY <3>1, <3>2
  <2>5. \A b \in finishing' : IsFinishing(b)'
    BY <1>1, <1>2, <1>4 DEF TypeOK, HandlerInv, IsFinishing
  <2>6. QED
    BY <2>1, <2>2, <2>3, <2>4, <2>5 DEF HandlerInv
<1>6. PlaceInv'
  BY <1>1 DEF PlaceInv, Live, Tags
<1>7. RpcInv'
  BY <1>1, <1>3 DEF RpcInv
<1>8. QED
  BY <1>5, <1>6, <1>7

\* An answer that is new fits.
LEMMA AnswerStep ==
    ASSUME IInv, NEW q \in Workers, cur[q] \in Addresses, NEW s \in Statuses,
           NEW u \in Emails \cup {None}, Fits(Reply(s, u), rpcOf[cur[q]]),
           out' = [out EXCEPT ![cur[q]] = Reply(s, u)],
           UNCHANGED <<noop, req, poolUp, broken, rpcOf, reply>>
    PROVE  /\ AnswerInv' /\ ReplyFitsRequest'
           /\ \A a \in Addresses : a # cur[q] => out'[a] = out[a]
           /\ out'[cur[q]] = Reply(s, u) /\ Reply(s, u) # None
<1>1. TypeOK /\ AnswerInv /\ ReplyFitsRequest
  BY DEF IInv
<1>2. /\ \A a \in Addresses : out'[a] = IF a = cur[q] THEN Reply(s, u) ELSE out[a]
      /\ Reply(s, u) # None
  BY <1>1, RepliesAssumption DEF TypeOK, Reply, Replies
<1>3. \A a \in Addresses : out'[a] # None => Fits(out'[a], rpcOf[a])
  BY <1>1, <1>2 DEF AnswerInv
<1>4. AnswerInv' /\ ReplyFitsRequest'
  BY <1>1, <1>3 DEF AnswerInv, ReplyFitsRequest, Fits
<1>5. QED
  BY <1>2, <1>4

\* A worker goes from one position with a connection to another.
LEMMA PoolMove ==
    ASSUME IInv, UNCHANGED <<noop, dbVars>>, NEW q \in Workers, NEW p \in Owning,
           pc[q] \in Owning, pc' = [pc EXCEPT ![q] = p],
           pc[q] # "begin" => p = "endtxn", pc[q] \in {"begin", "query"}
    PROVE  PoolInv'
<1>1. TypeOK /\ PoolInv
  BY DEF IInv
<1>2. /\ \A w \in Workers : pc'[w] \in Owning <=> pc[w] \in Owning
      /\ \A w \in Workers : pc[w] \in {"query", "endtxn"} => pc'[w] \in {"query", "endtxn"}
  BY <1>1 DEF TypeOK, Owning
<1>3. UNCHANGED <<noop, poolUp, idle, held, txn>>
  BY DEF dbVars
<1>4. QED
  BY <1>1, <1>2, <1>3 DEF PoolInv

\* Steps of handleLogin() that settle the answer.
LEMMA ReturnStep ==
    ASSUME IInv, TypeOK', StartInv', NEW q \in Workers,
           NoopLogin(q) \/ LoginWithoutPool(q) \/ Query(q) \/ DatabaseThrows(q)
    PROVE  IInv'
<1> USE DEF mainVars, grpcVars
<1>1. TypeOK /\ HandlerInv /\ PoolInv
  BY DEF IInv
<1>2. /\ pc[q] \in {"login", "begin", "query"}
      /\ UNCHANGED <<noop, state, cq, rpcOf, registered, finishing, queue, rpc, reply, req,
                     cur, dbVars>>
  BY DEF NoopLogin, LoginWithoutPool, Query, DatabaseThrows
<1>3. pc[q] \in Working \ {"spawn"} /\ cur[q] \in Addresses
  BY <1>1, <1>2 DEF TypeOK, HandlerInv, Working, Positions
<1> DEFINE r == rpcOf[cur[q]]
<1>4. \E s \in Statuses, u \in Emails \cup {None}, p \in Working \ {"spawn"} :
        /\ Fits(Reply(s, u), r) /\ Return(q, s, u, p)
        /\ IF pc[q] = "login" THEN p = "finish"
                              ELSE p \in Owning /\ (pc[q] # "begin" => p = "endtxn")
  <2>1. CASE NoopLogin(q)
    <3>1. Fits(Reply("OK", None), r) /\ Return(q, "OK", None, "finish") /\ pc[q] = "login"
      BY <2>1 DEF NoopLogin, Fits, Reply
    <3>2. QED
      BY <3>1 DEF Statuses, Working, Positions
  <2>2. CASE LoginWithoutPool(q)
    <3>1. Fits(Reply("UNAVAILABLE", None), r) /\ Return(q, "UNAVAILABLE", None, "finish")
          /\ pc[q] = "login"
      BY <2>2 DEF LoginWithoutPool, Fits, Reply
    <3>2. QED
      BY <3>1 DEF Statuses, Working, Positions
  <2>3. CASE Query(q)
    <3>1. /\ pc[q] = "query" /\ ~noop /\ poolUp
          /\ "endtxn" \in Owning /\ "endtxn" \in Working \ {"spawn"}
          /\ "OK" \in Statuses /\ "NOT_FOUND" \in Statuses /\ "UNAUTHENTICATED" \in Statuses
      BY <1>1, <2>3 DEF Query, PoolInv, Owning, Working, Positions, Statuses
    <3>2. CASE req[r].email \notin DOMAIN Stored
      <4>1. Fits(Reply("NOT_FOUND", None), r) /\ Return(q, "NOT_FOUND", None, "endtxn")
        BY <2>3, <3>1, <3>2 DEF Query, Fits, Reply
      <4>2. QED
        BY <3>1, <4>1
    <3>3. CASE /\ req[r].email \in DOMAIN Stored /\ Stored[req[r].email] # None
               /\ req[r].password # Stored[req[r].email]
      <4>1. Fits(Reply("UNAUTHENTICATED", None), r)
            /\ Return(q, "UNAUTHENTICATED", None, "endtxn")
        BY <2>3, <3>1, <3>3 DEF Query, Fits, Reply
      <4>2. QED
        BY <3>1, <4>1
    <3>4. CASE /\ req[r].email \in DOMAIN Stored /\ Stored[req[r].email] # None
               /\ req[r].password = Stored[req[r].email]
      <4>1. PICK u \in Emails : u = req[r].email
        BY <3>4, StoredAssumption
      <4>2. Fits(Reply("OK", u), r)
        BY <3>1, <3>4, <4>1 DEF Fits, Reply
      <4>3. Return(q, "OK", u, "endtxn")
        BY <2>3, <3>4, <4>1 DEF Query
      <4>4. QED
        BY <3>1, <4>2, <4>3
    <3>5. QED
      BY <2>3, <3>2, <3>3, <3>4 DEF Query
  <2>4. CASE DatabaseThrows(q)
    <3>1. Fits(Reply("INTERNAL", None), r)
      <4>1. ~noop /\ poolUp
        BY <1>1, <2>4 DEF DatabaseThrows, PoolInv, Owning
      <4>2. QED
        BY <4>1 DEF Fits, Reply
    <3>2. /\ "release" \in Owning \cap (Working \ {"spawn"})
          /\ "endtxn" \in Owning \cap (Working \ {"spawn"})
          /\ "INTERNAL" \in Statuses
      BY DEF Owning, Working, Positions, Statuses
    <3>3. CASE pc[q] = "begin"
      <4>1. Return(q, "INTERNAL", None, "release")
        BY <2>4, <3>3 DEF DatabaseThrows
      <4>2. QED
        BY <3>1, <3>2, <3>3, <4>1
    <3>4. CASE pc[q] # "begin"
      <4>1. Return(q, "INTERNAL", None, "endtxn") /\ pc[q] = "query"
        BY <2>4, <3>4 DEF DatabaseThrows
      <4>2. QED
        BY <3>1, <3>2, <4>1
    <3>5. QED
      BY <3>3, <3>4
  <2>5. QED
    BY <2>1, <2>2, <2>3, <2>4
<1>5. PICK s \in Statuses, u \in Emails \cup {None}, p \in Working \ {"spawn"} :
        /\ Fits(Reply(s, u), r) /\ Return(q, s, u, p)
        /\ IF pc[q] = "login" THEN p = "finish"
                              ELSE p \in Owning /\ (pc[q] # "begin" => p = "endtxn")
  BY <1>4
<1>6. /\ out' = [out EXCEPT ![cur[q]] = Reply(s, u)]
      /\ pc' = [pc EXCEPT ![q] = p]
  BY <1>5 DEF Return
<1>7. UNCHANGED <<poolUp, broken>>
  BY <1>2 DEF dbVars
<1>8. /\ AnswerInv' /\ ReplyFitsRequest'
      /\ \A a \in Addresses : a # cur[q] => out'[a] = out[a]
      /\ out'[cur[q]] # None
  <2>1. /\ AnswerInv' /\ ReplyFitsRequest'
        /\ \A a \in Addresses : a # cur[q] => out'[a] = out[a]
        /\ out'[cur[q]] = Reply(s, u) /\ Reply(s, u) # None
    BY <1>2, <1>3, <1>5, <1>6, <1>7, AnswerStep
  <2>2. QED
    BY <2>1
<1>9. HandlerInv' /\ PlaceInv' /\ RpcInv'
  BY <1>2, <1>3, <1>6, <1>8, LoginStep
<1>10. PoolInv'
  <2>1. CASE pc[q] = "login"
    <3>1. \A w \in Workers :
            \/ pc'[w] = pc[w]
            \/ pc[w] \notin Owning /\ pc'[w] \notin Owning
      <4>1. p = "finish" /\ pc \in [Workers -> Positions]
        BY <1>1, <1>5, <2>1 DEF TypeOK
      <4>2. pc'[q] = "finish" /\ \A w \in Workers \ {q} : pc'[w] = pc[w]
        BY <1>6, <4>1
      <4>3. pc[q] \notin Owning /\ pc'[q] \notin Owning
        BY <2>1, <4>2 DEF Owning
      <4>4. QED
        BY <4>2, <4>3
    <3>2. QED
      BY <1>1, <1>2, <3>1, PoolSame
  <2>2. CASE pc[q] # "login"
    <3>1. pc[q] \in Owning /\ p \in Owning /\ pc[q] \in {"begin", "query"}
      BY <1>2, <1>5, <2>2 DEF Owning
    <3>2. QED
      BY <1>2, <1>5, <1>6, <2>2, <3>1, PoolMove
  <2>3. QED
    BY <2>1, <2>2
<1>11. QED
  BY <1>8, <1>9, <1>10 DEF IInv

\* Steps of handleLogin() that concern the connection.
LEMMA ConnectionStep ==
    ASSUME IInv, TypeOK', StartInv', NEW q \in Workers,
           \/ AcquireConnection(q) \/ BeginRead(q)
           \/ EndTransaction(q) \/ ReleaseConnection(q)
    PROVE  IInv'
<1> USE DEF mainVars, handlerVars, grpcVars
<1>1. TypeOK /\ HandlerInv /\ PoolInv /\ AnswerInv /\ ReplyFitsRequest
  BY DEF IInv
<1>2. /\ UNCHANGED <<noop, state, cq, rpcOf, out, registered, finishing, queue, rpc, reply,
                     req, cur, poolUp, broken>>
  BY DEF AcquireConnection, BeginRead, EndTransaction, ReleaseConnection
<1>3. PICK p \in Working \ {"spawn"} :
        /\ pc' = [pc EXCEPT ![q] = p]
        /\ pc[q] \in Working \ {"spawn"}
        /\ p \in {"endtxn", "release", "finish"} => pc[q] \in {"endtxn", "release"}
  BY DEF AcquireConnection, BeginRead, EndTransaction, ReleaseConnection, Working, Positions
<1>4. HandlerInv' /\ PlaceInv' /\ RpcInv'
  <2>1. p \in {"endtxn", "release", "finish"} => out'[cur[q]] # None
    BY <1>1, <1>2, <1>3 DEF HandlerInv, IsServed
  <2>2. \A a \in Addresses : a # cur[q] => out'[a] = out[a]
    BY <1>2
  <2>3. QED
    BY <1>2, <1>3, <2>1, <2>2, LoginStep
<1>5. AnswerInv' /\ ReplyFitsRequest'
  BY <1>1, <1>2, AnswersKept
<1>6. \A w \in Workers \ {q} : pc'[w] = pc[w]
  BY <1>1, <1>3 DEF TypeOK
<1>7. PoolInv'
  <2>1. CASE AcquireConnection(q)
    <3>1. PICK c \in idle : held' = [held EXCEPT ![q] = c] /\ idle' = idle \ {c}
      BY <2>1 DEF AcquireConnection, Lease!Lend
    <3>2. c \in Conns /\ c # None /\ held[q] = None /\ \A w \in Workers : held[w] # c
      <4>1. c \in Conns /\ c # None
        BY <1>1, NoneAssumption DEF TypeOK
      <4>2. \A w \in Workers : held[w] # c
        BY <1>1, <4>1 DEF PoolInv
      <4>3. held[q] = None
        BY <2>1 DEF AcquireConnection, Lease!Lend
      <4>4. QED
        BY <4>1, <4>2, <4>3
    <3>3. /\ held'[q] = c /\ \A w \in Workers \ {q} : held'[w] = held[w]
          /\ pc'[q] = "begin" /\ pc[q] = "login" /\ txn' = txn
          /\ ~noop' /\ poolUp'
      BY <1>1, <1>2, <2>1, <3>1 DEF TypeOK, AcquireConnection
    <3>4. /\ \A w \in Workers : held'[w] # None <=> pc'[w] \in Owning
          /\ \A w \in Workers : pc'[w] \in Owning => ~noop' /\ poolUp'
          /\ \A v, w \in Workers : held'[v] = held'[w] /\ held'[v] # None => v = w
      BY <1>1, <1>2, <1>6, <3>2, <3>3 DEF PoolInv, Owning
    <3>5. ASSUME NEW d \in Conns
          PROVE  d \in idle' <=> \A w \in Workers : held'[w] # d
      <4>1. CASE d = c
        BY <3>1, <3>3, <4>1
      <4>2. CASE d # c
        <5>1. d \in idle' <=> d \in idle
          BY <3>1, <4>2
        <5>2. d \in idle <=> \A w \in Workers : held[w] # d
          BY <1>1 DEF PoolInv
        <5>3. d # None
          BY NoneAssumption
        <5>4. QED
          BY <3>2, <3>3, <4>2, <5>1, <5>2, <5>3
      <4>3. QED
        BY <4>1, <4>2
    <3>6. \A d \in txn' : \E w \in Workers : held'[w] = d /\ pc'[w] \in {"query", "endtxn"}
      BY <1>1, <1>6, <3>3 DEF PoolInv
    <3>7. QED
      BY <3>4, <3>5, <3>6 DEF PoolInv
  <2>2. CASE BeginRead(q)
    <3>1. /\ pc[q] = "begin" /\ pc'[q] = "query" /\ txn' = txn \cup {held[q]}
          /\ UNCHANGED <<idle, held>>
      BY <1>1, <2>2 DEF TypeOK, BeginRead
    <3>2. QED
      BY <1>1, <1>2, <1>6, <3>1 DEF PoolInv, Owning
  <2>3. CASE EndTransaction(q)
    <3>1. /\ pc[q] = "endtxn" /\ pc'[q] = "release" /\ txn' = txn \ {held[q]}
          /\ UNCHANGED <<idle, held>>
      BY <1>1, <2>3 DEF TypeOK, EndTransaction
    <3>2. QED
      BY <1>1, <1>2, <1>6, <3>1 DEF PoolInv, Owning
  <2>4. CASE ReleaseConnection(q)
    <3>1. /\ pc[q] = "release" /\ pc'[q] = "finish" /\ txn' = txn
          /\ held[q] \in Conns /\ idle' = idle \cup {held[q]}
          /\ held'[q] = None /\ \A w \in Workers \ {q} : held'[w] = held[w]
      BY <1>1, <2>4 DEF TypeOK, PoolInv, Owning, ReleaseConnection, Lease!GiveBack
    <3>2. None \notin Conns
      BY NoneAssumption
    <3>3. /\ \A w \in Workers : held'[w] # None <=> pc'[w] \in Owning
          /\ \A w \in Workers : pc'[w] \in Owning => ~noop' /\ poolUp'
          /\ \A v, w \in Workers : held'[v] = held'[w] /\ held'[v] # None => v = w
      BY <1>1, <1>2, <1>6, <3>1 DEF PoolInv, Owning
    <3>4. \A c \in Conns : c \in idle' <=> \A w \in Workers : held'[w] # c
      BY <1>1, <3>1, <3>2 DEF PoolInv
    <3>5. \A c \in txn' : \E w \in Workers : held'[w] = c /\ pc'[w] \in {"query", "endtxn"}
      BY <1>1, <1>6, <3>1 DEF PoolInv
    <3>6. QED
      BY <3>3, <3>4, <3>5 DEF PoolInv
  <2>5. QED
    BY <2>1, <2>2, <2>3, <2>4
<1>8. QED
  BY <1>4, <1>5, <1>7 DEF IInv

\* Finish: gRPC has the handler from here on.
LEMMA FinishStep ==
    ASSUME IInv, TypeOK', StartInv', NEW q \in Workers, Finish(q)
    PROVE  IInv'
<1> USE DEF mainVars, handlerVars, dbVars
<1>1. TypeOK /\ HandlerInv /\ PlaceInv /\ RpcInv /\ PoolInv /\ AnswerInv /\ ReplyFitsRequest
  BY DEF IInv
<1>2. /\ UNCHANGED <<state, cq, rpcOf, out, registered, queue, rpc, reply, req, noop, dbVars>>
      /\ finishing' = finishing \cup {cur[q]}
      /\ pc[q] = "finish" /\ pc'[q] = "next" /\ cur'[q] = None
      /\ \A w \in Workers \ {q} : pc'[w] = pc[w] /\ cur'[w] = cur[w]
  BY <1>1 DEF TypeOK, Finish
<1>3. PICK a \in Addresses : a = cur[q]
  BY <1>1, <1>2 DEF TypeOK, HandlerInv, Working, Positions
<1>4. /\ IsFinishing(a) /\ cq[a] = q
      /\ \A w \in Workers : a \notin Tags(w)
      /\ \A w \in Workers \ {q} : cur[w] # a
      /\ rpc[rpcOf[a]] # "answered"
  <2>1. pc[q] \in Working
    BY <1>2 DEF Working, Positions
  <2>2. IsServed(a, q) /\ rpc[rpcOf[a]] # "answered" /\ a \notin Tags(q)
    BY <1>1, <1>3, <2>1 DEF HandlerInv, RpcInv, PlaceInv
  <2>3. IsFinishing(a) /\ cq[a] = q /\ a # None
    BY <1>2, <2>2, NoneAssumption DEF IsServed, IsFinishing
  <2>4. QED
    BY <2>2, <2>3, Apart
<1>5. "next" \notin Working /\ None \notin Addresses
  BY NoneAssumption DEF Working
<1>6. HandlerInv'
  <2>1. \A w \in Workers : IF pc'[w] \in Working THEN cur'[w] # None /\ IsServed(cur[w], w)'
                                                 ELSE cur'[w] = None
    BY <1>1, <1>2, <1>5 DEF HandlerInv, IsServed
  <2>2. \A b \in finishing' : IsFinishing(b)'
    BY <1>1, <1>2, <1>3, <1>4 DEF HandlerInv, IsFinishing
  <2>3. QED
    BY <1>1, <1>2, <2>1, <2>2 DEF HandlerInv, IsRegistered, IsQueued
<1>7. PlaceInv'
  <2>1. \A w \in Workers : Tags(w)' = Tags(w) /\ Tags(w) \subseteq Live
    BY <1>2, Apart DEF Tags
  <2>2. \A w \in Workers : /\ Tags(w)' \cap finishing' = {}
                           /\ cur'[w] \notin Tags(w)' \cup finishing'
    <3>1. \A w \in Workers : Tags(w)' \cap finishing' = {}
      BY <1>1, <1>2, <1>3, <1>4, <2>1 DEF PlaceInv
    <3>2. None \notin finishing' /\ \A w \in Workers : None \notin Tags(w)
      BY <1>5, <2>1 DEF TypeOK, Live
    <3>3. \A w \in Workers \ {q} : cur'[w] \notin Tags(w)' \cup finishing'
      BY <1>1, <1>2, <1>3, <1>4, <2>1 DEF PlaceInv
    <3>4. QED
      BY <1>2, <2>1, <3>1, <3>2, <3>3
  <2>3. \A b \in Live' : \/ b \in registered' \cup finishing'
                         \/ \E w \in Workers : b \in Tags(w)' \cup {cur'[w]}
    <3>1. Live' = Live
      BY <1>2 DEF Live
    <3>2. QED
      BY <1>1, <1>2, <2>1, <3>1 DEF PlaceInv
  <2>4. QED
    BY <1>1, <1>2, <2>2, <2>3 DEF PlaceInv
<1>8. RpcInv'
  <2>1. \A b \in finishing' : rpc'[rpcOf'[b]] # "answered"
    BY <1>1, <1>2, <1>3, <1>4 DEF RpcInv
  <2>2. \A w \in Workers : pc'[w] \in Working => rpc'[rpcOf'[cur'[w]]] # "answered"
    BY <1>1, <1>2, <1>5 DEF RpcInv
  <2>3. QED
    BY <1>1, <1>2, <2>1, <2>2 DEF RpcInv
<1>9. PoolInv'
  <2>1. \A w \in Workers : \/ pc'[w] = pc[w]
                           \/ pc[w] \notin Owning /\ pc'[w] \notin Owning
    BY <1>2 DEF Owning
  <2>2. QED
    BY <1>1, <1>2, <2>1, PoolSame
<1>10. AnswerInv' /\ ReplyFitsRequest'
  BY <1>1, <1>2, AnswersKept
<1>11. QED
  BY <1>6, <1>7, <1>8, <1>9, <1>10 DEF IInv

\* run() starts a worker.
LEMMA StartWorkerStep ==
    ASSUME IInv, TypeOK', StartInv', StartWorker
    PROVE  IInv'
<1> USE DEF mainVars, handlerVars, grpcVars
<1>1. /\ TypeOK /\ StartInv /\ HandlerInv /\ PlaceInv /\ RpcInv /\ PoolInv /\ AnswerInv
      /\ ReplyFitsRequest
  BY DEF IInv
<1>2. PICK q \in Workers : q = started + 1
  BY <1>1, ThreadsAssumption DEF TypeOK, StartWorker, Workers
<1>3. started < q /\ pc[q] = "off"
  <2>1. started < q
    BY <1>1, <1>2 DEF TypeOK
  <2>2. QED
    BY <1>1, <2>1 DEF StartInv
<1>4. /\ UNCHANGED <<noop, state, cq, rpcOf, out, registered, finishing, queue, rpc, reply,
                     req, cur, dbVars>>
      /\ pc'[q] = "next" /\ \A w \in Workers \ {q} : pc'[w] = pc[w]
  BY <1>1, <1>2 DEF TypeOK, StartWorker
<1>5. pc[q] \notin Working /\ pc'[q] \notin Working /\ pc[q] \notin Owning /\ pc'[q] \notin Owning
  BY <1>3, <1>4 DEF Working, Owning
<1>6. \A w \in Workers : pc'[w] = pc[w] \/ pc'[w] \notin Working
  BY <1>4, <1>5
<1>7. HandlerInv'
  <2>1. \A w \in Workers : IF pc'[w] \in Working THEN cur'[w] # None /\ IsServed(cur[w], w)'
                                                 ELSE cur'[w] = None
    BY <1>1, <1>4, <1>5 DEF HandlerInv, IsServed
  <2>2. QED
    BY <1>1, <1>4, <2>1 DEF HandlerInv, IsRegistered, IsQueued, IsFinishing
<1>8. PlaceInv'
  BY <1>1, <1>4 DEF PlaceInv, Live, Tags
<1>9. RpcInv'
  BY <1>1, <1>4, <1>6 DEF RpcInv
<1>10. PoolInv'
  <2>1. \A w \in Workers : \/ pc'[w] = pc[w]
                           \/ pc[w] \notin Owning /\ pc'[w] \notin Owning
    BY <1>4, <1>5
  <2>2. QED
    BY <1>1, <1>4, <2>1, PoolSame
<1>11. AnswerInv' /\ ReplyFitsRequest'
  <2>1. UNCHANGED <<poolUp, broken>>
    BY <1>4 DEF dbVars
  <2>2. QED
    BY <1>1, <1>4, <2>1, AnswersKept
<1>12. QED
  BY <1>7, <1>8, <1>9, <1>10, <1>11 DEF IInv

\* A worker takes a request from its queue.
LEMMA NextRequestStep ==
    ASSUME IInv, TypeOK', StartInv', NEW q \in Workers, NextRequest(q)
    PROVE  IInv'
<1> USE DEF mainVars, handlerVars
<1>1. TypeOK /\ HandlerInv /\ PlaceInv /\ RpcInv /\ PoolInv /\ AnswerInv /\ ReplyFitsRequest
  BY DEF IInv
<1>2. PICK e : e = Head(queue[q])
  OBVIOUS
<1>3. Dequeued(q, e)
  BY <1>2, Dequeue DEF NextRequest
<1>4. PICK a \in Addresses : a = e.tag
  BY <1>3 DEF Dequeued, Events
<1>5. /\ UNCHANGED <<noop, state, cq, rpcOf, out, registered, finishing, rpc, reply, req,
                     dbVars>>
      /\ state[a] = "WAIT" /\ pc[q] = "next" /\ pc'[q] = "spawn" /\ cur'[q] = a
      /\ \A w \in Workers \ {q} : pc'[w] = pc[w] /\ cur'[w] = cur[w]
  BY <1>1, <1>2, <1>4 DEF TypeOK, NextRequest
<1>6. /\ a \in Tags(q) /\ cq[a] = q /\ rpcOf[a] \in Rpcs /\ rpc[rpcOf[a]] # "answered"
      /\ \A w \in Workers : \A i, j \in DOMAIN queue'[w] :
           queue'[w][i].tag = queue'[w][j].tag => i = j
      /\ \A w \in Workers : Tags(w)' = IF w = q THEN Tags(q) \ {a} ELSE Tags(w)
      /\ \A w \in Workers : \A i \in DOMAIN queue'[w] :
           \E j \in DOMAIN queue[w] : queue'[w][i] = queue[w][j]
  BY <1>3, <1>4, <1>5 DEF Dequeued, IsQueued
<1>7. /\ a \notin finishing
      /\ \A w \in Workers \ {q} : a \notin Tags(w)
      /\ a # None /\ "spawn" \in Working /\ pc[q] \notin Working
  <2>1. a \notin finishing
    BY <1>1, <1>6 DEF PlaceInv
  <2>2. QED
    BY <1>5, <1>6, <2>1, Apart, NoneAssumption DEF Working, Positions
<1>8. HandlerInv'
  <2>1. ASSUME NEW w \in Workers, NEW i \in DOMAIN queue'[w]
        PROVE  IsQueued(queue[w][i], w)'
    <3>1. PICK j \in DOMAIN queue[w] : queue'[w][i] = queue[w][j]
      BY <1>6
    <3>2. IsQueued(queue[w][j], w)
      BY <1>1 DEF HandlerInv
    <3>3. QED
      BY <1>5, <3>1, <3>2 DEF IsQueued
  <2>2. \A w \in Workers : IF pc'[w] \in Working THEN cur'[w] # None /\ IsServed(cur[w], w)'
                                                 ELSE cur'[w] = None
    BY <1>1, <1>5, <1>6, <1>7 DEF HandlerInv, IsServed
  <2>3. QED
    BY <1>1, <1>5, <2>1, <2>2 DEF HandlerInv, IsRegistered, IsFinishing
<1>9. PlaceInv'
  <2>1. \A w \in Workers : /\ Tags(w)' \cap finishing' = {}
                           /\ cur'[w] \notin Tags(w)' \cup finishing'
    BY <1>1, <1>5, <1>6, <1>7 DEF PlaceInv
  <2>2. ASSUME NEW b \in Live'
        PROVE  \/ b \in registered' \cup finishing'
               \/ \E w \in Workers : b \in Tags(w)' \cup {cur'[w]}
    <3>1. CASE b = a
      BY <1>5, <3>1
    <3>2. CASE b # a
      <4>1. b \in Live /\ b # None
        BY <1>5, NoneAssumption DEF Live
      <4>2. \/ b \in registered \cup finishing
            \/ \E w \in Workers : b \in Tags(w) \cup {cur[w]}
        BY <1>1, <4>1 DEF PlaceInv
      <4>3. cur[q] = None
        BY <1>1, <1>7 DEF HandlerInv
      <4>4. QED
        BY <1>5, <1>6, <3>2, <4>1, <4>2, <4>3
    <3>3. QED
      BY <3>1, <3>2
  <2>3. QED
    BY <1>6, <2>1, <2>2 DEF PlaceInv
<1>10. RpcInv'
  <2>1. \A w \in Workers : pc'[w] \in Working => rpc'[rpcOf'[cur'[w]]] # "answered"
    BY <1>1, <1>5, <1>6 DEF RpcInv
  <2>2. ASSUME NEW w \in Workers, NEW i \in DOMAIN queue'[w], state'[queue'[w][i].tag] = "WAIT"
        PROVE  rpc'[rpcOf'[queue'[w][i].tag]] # "answered"
    <3>1. PICK j \in DOMAIN queue[w] : queue'[w][i] = queue[w][j]
      BY <1>6
    <3>2. QED
      BY <1>1, <1>5, <2>2, <3>1 DEF RpcInv
  <2>3. QED
    BY <1>1, <1>5, <2>1, <2>2 DEF RpcInv
<1>11. PoolInv'
  <2>1. \A w \in Workers : \/ pc'[w] = pc[w]
                           \/ pc[w] \notin Owning /\ pc'[w] \notin Owning
    BY <1>5 DEF Owning
  <2>2. QED
    BY <1>1, <1>5, <2>1, PoolSame
<1>12. AnswerInv' /\ ReplyFitsRequest'
  <2>1. UNCHANGED <<poolUp, broken>>
    BY <1>5 DEF dbVars
  <2>2. QED
    BY <1>1, <1>5, <2>1, AnswersKept
<1>13. QED
  BY <1>8, <1>9, <1>10, <1>11, <1>12 DEF IInv

\* A worker deletes a handler.
LEMMA NextDeleteStep ==
    ASSUME IInv, TypeOK', StartInv', NEW q \in Workers, NextDelete(q)
    PROVE  IInv'
<1> USE DEF mainVars
<1>1. TypeOK /\ HandlerInv /\ PlaceInv /\ RpcInv /\ PoolInv /\ AnswerInv /\ ReplyFitsRequest
  BY DEF IInv
<1>2. PICK e : e = Head(queue[q])
  OBVIOUS
<1>3. Dequeued(q, e)
  BY <1>2, Dequeue DEF NextDelete
<1>4. PICK a \in Addresses : a = e.tag
  BY <1>3 DEF Dequeued, Events
<1>5. /\ UNCHANGED <<noop, registered, finishing, rpc, reply, req, pc, cur, dbVars>>
      /\ pc[q] = "next"
      /\ state'[a] = "free" /\ cq'[a] = None /\ rpcOf'[a] = None /\ out'[a] = None
      /\ \A b \in Addresses \ {a} : /\ state'[b] = state[b] /\ cq'[b] = cq[b]
                                    /\ rpcOf'[b] = rpcOf[b] /\ out'[b] = out[b]
  BY <1>1, <1>2, <1>4 DEF TypeOK, NextDelete
<1>6. /\ a \in Tags(q) /\ cq[a] = q /\ state[a] # "WAIT"
      /\ \A w \in Workers : \A i, j \in DOMAIN queue'[w] :
           queue'[w][i].tag = queue'[w][j].tag => i = j
      /\ \A w \in Workers : Tags(w)' = IF w = q THEN Tags(q) \ {a} ELSE Tags(w)
      /\ \A w \in Workers : \A i \in DOMAIN queue'[w] :
           \E j \in DOMAIN queue[w] : queue'[w][i] = queue[w][j]
  <2>1. state[e.tag] # "WAIT"
    BY <1>2, <1>3 DEF NextDelete, Dequeued, IsQueued
  <2>2. QED
    BY <1>3, <1>4, <2>1 DEF Dequeued, IsQueued
<1>7. /\ a \notin finishing /\ a \notin registered
      /\ \A w \in Workers : a \notin Tags(w)' /\ cur[w] # a
      /\ None \notin Addresses
  <2>1. a \notin finishing /\ a \notin registered /\ cur[q] = None
    BY <1>1, <1>5, <1>6, Apart DEF PlaceInv, HandlerInv, Working
  <2>2. None \notin Addresses
    BY NoneAssumption
  <2>3. \A w \in Workers \ {q} : a \notin Tags(w) /\ cur[w] # a
    BY <1>6, <2>2, Apart
  <2>4. QED
    BY <1>6, <2>1, <2>2, <2>3
<1>8. ASSUME NEW w \in Workers, NEW i \in DOMAIN queue'[w]
      PROVE  \E j \in DOMAIN queue[w] :
               /\ queue'[w][i] = queue[w][j] /\ IsQueued(queue[w][j], w)
               /\ queue[w][j].tag \in Addresses \ {a}
  <2>1. PICK j \in DOMAIN queue[w] : queue'[w][i] = queue[w][j]
    BY <1>6
  <2>2. IsQueued(queue[w][j], w)
    BY <1>1 DEF HandlerInv
  <2>3. queue[w][j].tag \in Addresses
    <3>1. queue[w][j].tag \in Tags(w)
      BY DEF Tags
    <3>2. QED
      BY <3>1, Apart DEF Live
  <2>4. queue'[w][i].tag \in Tags(w)'
    BY DEF Tags
  <2>5. QED
    BY <1>7, <2>1, <2>2, <2>3, <2>4
<1>9. HandlerInv'
  <2>1. \A b \in Addresses : IF state'[b] = "free" THEN rpcOf'[b] = None /\ out'[b] = None
                                                   ELSE cq'[b] \in Workers
    BY <1>1, <1>5 DEF HandlerInv
  <2>2. ASSUME NEW b \in registered' PROVE IsRegistered(b)'
    <3>1. b \in Addresses \ {a} /\ b \in registered
      BY <1>1, <1>5, <1>7 DEF TypeOK
    <3>2. state'[b] = state[b] /\ rpcOf'[b] = rpcOf[b] /\ out'[b] = out[b]
      BY <1>5, <3>1
    <3>3. QED
      BY <1>1, <3>1, <3>2 DEF HandlerInv, IsRegistered
  <2>3. \A w \in Workers : \A i \in DOMAIN queue'[w] : IsQueued(queue[w][i], w)'
    BY <1>5, <1>8 DEF IsQueued
  <2>4. \A w \in Workers : IF pc'[w] \in Working THEN cur'[w] # None /\ IsServed(cur[w], w)'
                                                 ELSE cur'[w] = None
    BY <1>1, <1>5, <1>7 DEF TypeOK, HandlerInv, IsServed
  <2>5. ASSUME NEW b \in finishing' PROVE IsFinishing(b)'
    <3>1. b \in Addresses \ {a} /\ b \in finishing
      BY <1>1, <1>5, <1>7 DEF TypeOK
    <3>2. state'[b] = state[b] /\ rpcOf'[b] = rpcOf[b] /\ out'[b] = out[b]
      BY <1>5, <3>1
    <3>3. QED
      BY <1>1, <3>1, <3>2 DEF HandlerInv, IsFinishing
  <2>6. QED
    BY <2>1, <2>2, <2>3, <2>4, <2>5 DEF HandlerInv
<1>10. PlaceInv'
  <2>1. \A w \in Workers : /\ Tags(w)' \cap finishing' = {}
                           /\ cur'[w] \notin Tags(w)' \cup finishing'
    BY <1>1, <1>5, <1>6 DEF PlaceInv
  <2>2. ASSUME NEW b \in Live'
        PROVE  \/ b \in registered' \cup finishing'
               \/ \E w \in Workers : b \in Tags(w)' \cup {cur'[w]}
    <3>1. b \in Live /\ b # a
      BY <1>5 DEF Live
    <3>2. \/ b \in registered \cup finishing
          \/ \E w \in Workers : b \in Tags(w) \cup {cur[w]}
      BY <1>1, <3>1 DEF PlaceInv
    <3>3. QED
      BY <1>5, <1>6, <3>1, <3>2
  <2>3. QED
    BY <1>6, <2>1, <2>2 DEF PlaceInv
<1>11. RpcInv'
  <2>1. \A b, c \in Addresses : rpcOf'[b] = rpcOf'[c] /\ rpcOf'[b] # None => b = c
    BY <1>1, <1>5 DEF RpcInv
  <2>2. \A b \in Addresses : rpcOf'[b] # None => rpc'[rpcOf'[b]] \notin {"unsent", "pending"}
    <3>1. \A b \in Addresses : rpcOf'[b] # None => rpcOf'[b] = rpcOf[b]
      BY <1>5
    <3>2. QED
      BY <1>1, <1>5, <3>1 DEF RpcInv
  <2>3. \A b \in finishing' : rpc'[rpcOf'[b]] # "answered"
    <3>1. \A b \in finishing : rpcOf'[b] = rpcOf[b]
      BY <1>1, <1>5, <1>7 DEF TypeOK
    <3>2. QED
      BY <1>1, <1>5, <3>1 DEF RpcInv
  <2>4. ASSUME NEW w \in Workers, pc'[w] \in Working PROVE rpc'[rpcOf'[cur'[w]]] # "answered"
    <3>1. cur[w] \in Addresses \ {a} /\ pc[w] \in Working
      BY <1>1, <1>5, <1>7, <2>4 DEF TypeOK, HandlerInv
    <3>2. QED
      BY <1>1, <1>5, <3>1 DEF RpcInv
  <2>5. ASSUME NEW w \in Workers, NEW i \in DOMAIN queue'[w], state'[queue'[w][i].tag] = "WAIT"
        PROVE  rpc'[rpcOf'[queue'[w][i].tag]] # "answered"
    <3>1. PICK j \in DOMAIN queue[w] : queue'[w][i] = queue[w][j]
                                       /\ queue[w][j].tag \in Addresses \ {a}
      BY <1>8
    <3>2. QED
      BY <1>1, <1>5, <2>5, <3>1 DEF RpcInv
  <2>6. QED
    BY <2>1, <2>2, <2>3, <2>4, <2>5 DEF RpcInv
<1>12. PoolInv'
  BY <1>1, <1>5, PoolSame
<1>13. AnswerInv' /\ ReplyFitsRequest'
  <2>1. UNCHANGED <<poolUp, broken>>
    BY <1>5 DEF dbVars
  <2>2. \A b \in Addresses : out'[b] # None => out'[b] = out[b] /\ rpcOf'[b] = rpcOf[b]
    BY <1>5
  <2>3. QED
    BY <1>1, <1>5, <2>1, <2>2, AnswersKept
<1>14. QED
  BY <1>9, <1>10, <1>11, <1>12, <1>13 DEF IInv

\* An address that is free is in no place.
LEMMA FreeIsNowhere ==
    ASSUME IInv, NEW a \in Addresses, state[a] = "free"
    PROVE  /\ rpcOf[a] = None /\ out[a] = None
           /\ a \notin registered /\ a \notin finishing
           /\ \A w \in Workers : a \notin Tags(w) /\ cur[w] # a
           /\ \A w \in Workers : \A i \in DOMAIN queue[w] :
                queue[w][i].tag \in Addresses \ {a}
<1>1. a \notin Live /\ rpcOf[a] = None /\ out[a] = None
  BY DEF Live, IInv, HandlerInv
<1>2. \A w \in Workers : a \notin Tags(w) /\ cur[w] # a
  <2>1. a # None
    BY NoneAssumption
  <2>2. QED
    BY <1>1, <2>1, Apart
<1>3. ASSUME NEW w \in Workers, NEW i \in DOMAIN queue[w]
      PROVE  queue[w][i].tag \in Addresses \ {a}
  <2>1. queue[w][i].tag \in Tags(w)
    BY DEF Tags
  <2>2. QED
    BY <1>1, <2>1, Apart DEF Live
<1>4. QED
  BY <1>1, <1>2, <1>3, Apart

\* A handler is made, by run() or by a worker that is about to call handleLogin.
LEMMA NewHandler ==
    ASSUME IInv, TypeOK', StartInv', NEW a \in Addresses, NEW q \in Workers,
           state[a] = "free", cq' = [cq EXCEPT ![a] = q], RequestLogin(a),
           UNCHANGED <<noop, rpcOf, out, finishing, queue, rpc, reply, req, cur, dbVars>>,
           state'[a] = "WAIT",
           \A b \in Addresses \ {a} :
             state'[b] = IF \E w \in Workers : cur[w] = b /\ pc'[w] # pc[w]
                           THEN "FINISH" ELSE state[b],
           \A w \in Workers : pc'[w] # pc[w] => pc[w] = "spawn" /\ pc'[w] = "login"
    PROVE  IInv'
<1>1. TypeOK /\ HandlerInv /\ PlaceInv /\ RpcInv /\ PoolInv /\ AnswerInv /\ ReplyFitsRequest
  BY DEF IInv
<1>2. /\ registered' = registered \cup {a}
      /\ cq'[a] = q /\ \A b \in Addresses \ {a} : cq'[b] = cq[b]
  BY <1>1 DEF TypeOK, RequestLogin
<1>3. /\ rpcOf[a] = None /\ out[a] = None
      /\ a \notin registered /\ a \notin finishing
      /\ \A w \in Workers : a \notin Tags(w) /\ cur[w] # a
      /\ \A w \in Workers : \A i \in DOMAIN queue[w] : queue[w][i].tag \in Addresses \ {a}
      /\ None \notin Addresses
  BY FreeIsNowhere, NoneAssumption
<1>4. /\ \A w \in Workers : pc'[w] \in Working <=> pc[w] \in Working
      /\ \A w \in Workers : \/ pc'[w] = pc[w]
                            \/ pc[w] \notin Owning /\ pc'[w] \notin Owning
  <2>1. /\ "spawn" \in Working /\ "login" \in Working
        /\ "spawn" \notin Owning /\ "login" \notin Owning
    BY DEF Working, Positions, Owning
  <2>2. QED
    BY <2>1
<1>5. ASSUME NEW w \in Workers, NEW i \in DOMAIN queue[w]
      PROVE  state'[queue[w][i].tag] = state[queue[w][i].tag]
  <2>1. queue[w][i].tag \in Tags(w)
    BY DEF Tags
  <2>2. \A v \in Workers : cur[v] # queue[w][i].tag
    <3>1. cur[w] # queue[w][i].tag
      BY <1>1, <2>1 DEF PlaceInv
    <3>2. \A v \in Workers \ {w} : cur[v] # queue[w][i].tag
      BY <1>3, <2>1, Apart
    <3>3. QED
      BY <3>1, <3>2
  <2>3. QED
    BY <1>3, <2>2
<1>6. \A b \in registered \cup finishing : b \in Addresses \ {a} /\ state'[b] = state[b]
  BY <1>1, <1>3, Apart DEF TypeOK, PlaceInv
<1>7. HandlerInv'
  <2>1. ASSUME NEW b \in Addresses
        PROVE  IF state'[b] = "free" THEN rpcOf'[b] = None /\ out'[b] = None
                                     ELSE cq'[b] \in Workers
    <3>1. CASE b = a
      BY <1>2, <3>1
    <3>2. CASE b # a /\ state[b] = "free"
      <4>1. rpcOf[b] = None /\ out[b] = None /\ \A w \in Workers : cur[w] # b
        BY <3>2, FreeIsNowhere
      <4>2. state'[b] = "free"
        BY <3>2, <4>1
      <4>3. QED
        BY <4>1, <4>2
    <3>3. CASE b # a /\ state[b] # "free"
      BY <1>1, <1>2, <3>3 DEF HandlerInv
    <3>4. QED
      BY <3>1, <3>2, <3>3
  <2>2. ASSUME NEW b \in registered' PROVE IsRegistered(b)'
    <3>1. CASE b = a
      BY <1>3, <3>1 DEF IsRegistered
    <3>2. CASE b # a
      BY <1>1, <1>2, <1>6, <3>2 DEF HandlerInv, IsRegistered
    <3>3. QED
      BY <3>1, <3>2
  <2>3. ASSUME NEW w \in Workers, NEW i \in DOMAIN queue[w]
        PROVE  IsQueued(queue[w][i], w)'
    <3>1. IsQueued(queue[w][i], w)
      BY <1>1 DEF HandlerInv
    <3>2. QED
      BY <1>2, <1>3, <1>5, <3>1 DEF IsQueued
  <2>4. ASSUME NEW w \in Workers
        PROVE  IF pc'[w] \in Working THEN cur'[w] # None /\ IsServed(cur[w], w)'
                                     ELSE cur'[w] = None
    <3>1. CASE pc[w] \notin Working
      BY <1>1, <1>4, <3>1 DEF HandlerInv
    <3>2. CASE pc[w] \in Working
      <4>1. /\ cur[w] \in Addresses \ {a} /\ IsServed(cur[w], w)
            /\ \A v \in Workers \ {w} : cur[v] # cur[w]
        <5>1. cur[w] # None /\ IsServed(cur[w], w)
          BY <1>1, <3>2 DEF HandlerInv
        <5>2. cur[w] \in Addresses
          BY <1>1, <5>1 DEF TypeOK
        <5>3. \A v \in Workers \ {w} : cur[v] # cur[w]
          BY <5>1, Apart
        <5>4. QED
          BY <1>3, <5>1, <5>2, <5>3
      <4>2. CASE pc'[w] = pc[w]
        <5>1. state'[cur[w]] = state[cur[w]]
          BY <4>1, <4>2
        <5>2. QED
          BY <1>2, <1>4, <3>2, <4>1, <4>2, <5>1, <1>3 DEF IsServed
      <4>3. CASE pc'[w] # pc[w]
        <5>1. state'[cur[w]] = "FINISH" /\ pc'[w] = "login"
          BY <4>1, <4>3
        <5>2. QED
          BY <1>2, <1>4, <3>2, <4>1, <5>1, <1>3 DEF IsServed
      <4>4. QED
        BY <4>2, <4>3
    <3>3. QED
      BY <3>1, <3>2
  <2>5. \A b \in finishing' : IsFinishing(b)'
    BY <1>1, <1>6 DEF HandlerInv, IsFinishing
  <2>6. QED
    BY <2>1, <2>2, <2>3, <2>4, <2>5 DEF HandlerInv
<1>8. PlaceInv'
  <2>1. \A w \in Workers : Tags(w)' = Tags(w)
    BY DEF Tags
  <2>2. ASSUME NEW b \in Live'
        PROVE  \/ b \in registered' \cup finishing'
               \/ \E w \in Workers : b \in Tags(w)' \cup {cur'[w]}
    <3>1. CASE b = a
      BY <1>2, <3>1
    <3>2. CASE b # a
      <4>1. b \in Live
        <5>1. b \in Addresses /\ state'[b] # "free"
          BY DEF Live
        <5>2. CASE state[b] = "free"
          <6>1. \A w \in Workers : cur[w] # b
            BY <5>1, <5>2, FreeIsNowhere
          <6>2. QED
            BY <3>2, <5>1, <5>2, <6>1
        <5>3. QED
          BY <5>1, <5>2 DEF Live
      <4>2. QED
        BY <1>1, <1>2, <2>1, <4>1 DEF PlaceInv
    <3>3. QED
      BY <3>1, <3>2
  <2>3. QED
    BY <1>1, <2>1, <2>2 DEF PlaceInv
<1>9. RpcInv'
  <2>1. \A w \in Workers : pc'[w] \in Working => rpc'[rpcOf'[cur'[w]]] # "answered"
    BY <1>1, <1>4 DEF RpcInv
  <2>2. \A w \in Workers : \A i \in DOMAIN queue'[w] :
          state'[queue'[w][i].tag] = "WAIT" => rpc'[rpcOf'[queue'[w][i].tag]] # "answered"
    BY <1>1, <1>5 DEF RpcInv
  <2>3. QED
    BY <1>1, <2>1, <2>2 DEF RpcInv
<1>10. PoolInv'
  BY <1>1, <1>4, PoolSame
<1>11. AnswerInv' /\ ReplyFitsRequest'
  <2>1. UNCHANGED <<poolUp, broken>>
    BY DEF dbVars
  <2>2. QED
    BY <1>1, <2>1, AnswersKept
<1>12. QED
  BY <1>7, <1>8, <1>9, <1>10, <1>11 DEF IInv

\* run() makes a handler.
LEMMA CreateHandlerStep ==
    ASSUME IInv, TypeOK', StartInv', CreateHandler
    PROVE  IInv'
<1>1. TypeOK
  BY DEF IInv
<1>2. PICK q \in Workers : q = created \div HANDLERS_PER_CQ + 1
  <2>1. /\ created \in Nat /\ created < NumThreads * HANDLERS_PER_CQ
        /\ NumThreads \in Nat /\ HANDLERS_PER_CQ \in Nat \ {0}
    BY <1>1, ThreadsAssumption, HandlersAssumption DEF TypeOK, CreateHandler
  <2>2. created \div HANDLERS_PER_CQ \in Nat /\ created \div HANDLERS_PER_CQ < NumThreads
    BY <2>1, QueueOf
  <2>3. QED
    BY <2>2, ThreadsAssumption DEF Workers
<1>3. PICK a \in Addresses : New(a, q) /\ state' = [state EXCEPT ![a] = "WAIT"]
  BY <1>2 DEF CreateHandler
<1>4. UNCHANGED <<noop, rpcOf, out, finishing, queue, rpc, reply, req, pc, cur, dbVars>>
  BY DEF CreateHandler
<1>5. state'[a] = "WAIT" /\ \A b \in Addresses \ {a} : state'[b] = state[b]
  BY <1>1, <1>3 DEF TypeOK
<1>6. state[a] = "free" /\ cq' = [cq EXCEPT ![a] = q] /\ RequestLogin(a)
  BY <1>3 DEF New
<1>7. \A b \in Addresses \ {a} :
        state'[b] = IF \E w \in Workers : cur[w] = b /\ pc'[w] # pc[w]
                      THEN "FINISH" ELSE state[b]
  BY <1>4, <1>5
<1>8. QED
  BY <1>4, <1>5, <1>6, <1>7, NewHandler

\* A handler makes its successor.
LEMMA SpawnStep ==
    ASSUME IInv, TypeOK', StartInv', NEW q \in Workers, Spawn(q)
    PROVE  IInv'
<1>1. TypeOK /\ HandlerInv
  BY DEF IInv
<1>2. PICK a \in Addresses :
        New(a, q) /\ state' = [state EXCEPT ![a] = "WAIT", ![cur[q]] = "FINISH"]
  BY DEF Spawn
<1>3. /\ UNCHANGED <<noop, rpcOf, out, finishing, queue, rpc, reply, req, cur, dbVars>>
      /\ pc[q] = "spawn" /\ pc'[q] = "login" /\ \A w \in Workers \ {q} : pc'[w] = pc[w]
  BY <1>1 DEF TypeOK, Spawn, mainVars
<1>4. state[a] = "free" /\ cq' = [cq EXCEPT ![a] = q] /\ RequestLogin(a)
  BY <1>2 DEF New
<1>5. cur[q] \in Addresses \ {a} /\ \A v \in Workers \ {q} : cur[v] # cur[q]
  <2>1. pc[q] \in Working
    BY <1>3 DEF Working, Positions
  <2>2. cur[q] \in Addresses /\ cur[q] # None
    BY <1>1, <2>1 DEF TypeOK, HandlerInv
  <2>3. cur[q] # a
    BY <1>4, FreeIsNowhere
  <2>4. QED
    BY <2>2, <2>3, Apart
<1>6. /\ state'[a] = "WAIT" /\ state'[cur[q]] = "FINISH"
      /\ \A b \in Addresses \ {a, cur[q]} : state'[b] = state[b]
  BY <1>1, <1>2, <1>5 DEF TypeOK
<1>7. \A b \in Addresses \ {a} :
        state'[b] = IF \E w \in Workers : cur[w] = b /\ pc'[w] # pc[w]
                      THEN "FINISH" ELSE state[b]
  BY <1>3, <1>5, <1>6
<1>8. QED
  BY <1>3, <1>4, <1>6, <1>7, NewHandler

-----------------------------------------------------------------------------
\* The invariant holds in every state that is reached.
THEOREM Invariance == Spec => []IInv
<1>1. IInv /\ [Next]_vars => IInv'
  <2> SUFFICES ASSUME IInv, [Next]_vars PROVE IInv'
    OBVIOUS
  <2>1. TypeOK' /\ StartInv'
    BY TypeStep, StartStep
  <2>2. CASE UNCHANGED vars
    <3>1. HandlerInv' /\ PlaceInv' /\ RpcInv'
      BY <2>2 DEF IInv, vars, mainVars, handlerVars, grpcVars, HandlerInv, PlaceInv, RpcInv,
                  IsRegistered, IsQueued, IsServed, IsFinishing, Tags, Live
    <3>2. PoolInv' /\ AnswerInv' /\ ReplyFitsRequest'
      BY <2>2 DEF IInv, vars, mainVars, handlerVars, grpcVars, dbVars, PoolInv, AnswerInv,
                  ReplyFitsRequest, Fits
    <3>3. QED
      BY <2>1, <3>1, <3>2 DEF IInv
  <2>3. CASE Run
    BY <2>1, <2>3, CreateHandlerStep, StartWorkerStep DEF Run
  <2>4. ASSUME NEW q \in Workers, WorkerLoop(q) PROVE IInv'
    BY <2>1, <2>4, NextRequestStep, NextDeleteStep, SpawnStep, ReturnStep, ConnectionStep,
       FinishStep DEF WorkerLoop
  <2>5. ASSUME NEW r \in Rpcs, Arrive(r) \/ Drop(r) \/ \E a \in Addresses : Match(r, a)
        PROVE  IInv'
    BY <2>1, <2>5, NetworkStep, MatchStep
  <2>6. QED
    BY <2>1, <2>2, <2>3, <2>4, <2>5, FinishDoneStep, ConnLostStep DEF Next
<1>2. QED
  BY InitInv, <1>1, PTL DEF Spec

\* Every variable keeps its type, and no reply has a status that Login does not
\* know (handleLogin in CallHandler.h).
THEOREM TypeCorrect == Spec => []TypeOK
<1>1. IInv => TypeOK
  BY DEF IInv
<1>2. QED
  BY Invariance, <1>1, PTL

\* What a client of Login is told is what its own request, the table and the
\* state of the database call for.
THEOREM RepliesFit == Spec => []ReplyFitsRequest
<1>1. IInv => ReplyFitsRequest
  BY DEF IInv
<1>2. QED
  BY Invariance, <1>1, PTL

\* Connections are in the pool without a transaction, and a worker outside
\* handleLogin has none.
THEOREM ConnectionsClean == Spec => []ConnectionsComeBackClean
<1>1. IInv => ConnectionsComeBackClean
  <2> SUFFICES ASSUME IInv PROVE ConnectionsComeBackClean
    OBVIOUS
  <2>1. TypeOK /\ PoolInv
    BY DEF IInv
  <2>2. txn \cap idle = {}
    BY <2>1 DEF TypeOK, PoolInv
  <2>3. \A q \in Workers :
          pc[q] \in {"off", "next", "spawn", "login", "finish"} => held[q] = None
    BY <2>1 DEF PoolInv, Owning
  <2>4. QED
    BY <2>2, <2>3 DEF ConnectionsComeBackClean
<1>2. QED
  BY Invariance, <1>1, PTL

\* What is in References(a).
LEMMA ReferenceIs ==
    ASSUME NEW a, NEW p
    PROVE  p \in References(a) <=>
             \/ \E q \in Workers : \E i \in DOMAIN queue[q] :
                  queue[q][i].tag = a /\ p = <<"event", q, i>>
             \/ \E q \in Workers : cur[q] = a /\ p = <<"worker", q>>
             \/ a \in registered /\ p = <<"registered">>
             \/ a \in finishing /\ p = <<"finishing">>
<1> DEFINE Ev == UNION {{<<"event", q, i>> : i \in {j \in DOMAIN queue[q] : queue[q][j].tag = a}} :
                          q \in Workers}
           Wk == {<<"worker", q>> : q \in {w \in Workers : cur[w] = a}}
           Rg == {<<"registered">> : x \in registered \cap {a}}
           Fi == {<<"finishing">> : x \in finishing \cap {a}}
<1>1. p \in Ev <=> \E q \in Workers : \E i \in DOMAIN queue[q] :
                     queue[q][i].tag = a /\ p = <<"event", q, i>>
  OBVIOUS
<1>2. p \in Wk <=> \E q \in Workers : cur[q] = a /\ p = <<"worker", q>>
  OBVIOUS
<1>3. p \in Rg <=> a \in registered /\ p = <<"registered">>
  OBVIOUS
<1>4. p \in Fi <=> a \in finishing /\ p = <<"finishing">>
  OBVIOUS
<1>5. References(a) = ((Ev \cup Wk) \cup Rg) \cup Fi
  BY DEF References
<1> HIDE DEF Ev, Wk, Rg, Fi
<1>6. QED
  BY <1>1, <1>2, <1>3, <1>4, <1>5

\* A handler that exists is known in exactly one place, and one that was deleted
\* in none: nothing is used after "delete this", deleted twice or forgotten.
THEOREM HandlersUsedOnce == Spec => []OneReferencePerHandler
<1>1. IInv => OneReferencePerHandler
  <2> SUFFICES ASSUME IInv, NEW a \in Addresses
               PROVE  IF a \in Live THEN \E place \in References(a) : References(a) = {place}
                                    ELSE References(a) = {}
    BY DEF OneReferencePerHandler
  <2>0. TypeOK /\ HandlerInv /\ PlaceInv /\ a # None
    BY NoneAssumption DEF IInv
  <2>1. \A q \in Workers : \A i \in DOMAIN queue[q] : queue[q][i].tag = a => a \in Tags(q)
    BY DEF Tags
  <2>3. CASE a \notin Live
    <3>1. a \notin registered /\ a \notin finishing
          /\ \A q \in Workers : a \notin Tags(q) /\ cur[q] # a
      BY <2>0, <2>3, Apart
    <3>2. \A x : x \notin References(a)
      BY <2>1, <3>1, ReferenceIs
    <3>3. QED
      BY <2>3, <3>2
  <2>4. CASE a \in registered
    <3>1. a \in Live /\ a \notin finishing /\ \A q \in Workers : a \notin Tags(q) /\ cur[q] # a
      BY <2>4, Apart
    <3>2. \A x : x \in References(a) <=> x = <<"registered">>
      BY <2>1, <2>4, <3>1, ReferenceIs
    <3>3. <<"registered">> \in References(a) /\ References(a) = {<<"registered">>}
      BY <3>2
    <3>4. QED
      BY <3>1, <3>3
  <2>5. CASE a \in finishing
    <3>1. a \in Live /\ a \notin registered /\ \A q \in Workers : a \notin Tags(q) /\ cur[q] # a
      BY <2>0, <2>5, Apart DEF PlaceInv
    <3>2. \A x : x \in References(a) <=> x = <<"finishing">>
      BY <2>1, <2>5, <3>1, ReferenceIs
    <3>3. <<"finishing">> \in References(a) /\ References(a) = {<<"finishing">>}
      BY <3>2
    <3>4. QED
      BY <3>1, <3>3
  <2>6. ASSUME NEW q \in Workers, a \in Tags(q)
        PROVE  a \in Live /\ \E p \in References(a) : References(a) = {p}
    <3>1. PICK i \in DOMAIN queue[q] : queue[q][i].tag = a
      BY <2>6 DEF Tags
    <3>2. \A j \in DOMAIN queue[q] : queue[q][j].tag = a => j = i
      BY <2>0, <3>1 DEF PlaceInv
    <3>3. /\ a \in Live /\ a \notin finishing /\ a \notin registered
          /\ \A w \in Workers \ {q} : a \notin Tags(w)
          /\ \A w \in Workers : cur[w] # a
      <4>1. a \in Live /\ a \notin finishing /\ a \notin registered /\ cur[q] # a /\ cq[a] = q
        BY <2>0, <2>6, Apart DEF PlaceInv
      <4>2. QED
        BY <2>0, <4>1, Apart
    <3>4. \A x : x \in References(a) <=> x = <<"event", q, i>>
      BY <2>1, <3>1, <3>2, <3>3, ReferenceIs
    <3>5. <<"event", q, i>> \in References(a) /\ References(a) = {<<"event", q, i>>}
      BY <3>4
    <3>6. QED
      BY <3>3, <3>5
  <2>7. ASSUME NEW q \in Workers, a = cur[q]
        PROVE  a \in Live /\ \E p \in References(a) : References(a) = {p}
    <3>1. /\ a \in Live /\ a \notin finishing /\ a \notin registered
          /\ \A w \in Workers : a \notin Tags(w)
          /\ \A w \in Workers \ {q} : cur[w] # a
      <4>1. a \in Live /\ a \notin finishing /\ a \notin registered /\ a \notin Tags(q)
            /\ cq[a] = q
        BY <2>0, <2>7, Apart DEF PlaceInv
      <4>2. QED
        BY <2>0, <4>1, Apart
    <3>2. \A x : x \in References(a) <=> x = <<"worker", q>>
      BY <2>1, <2>7, <3>1, ReferenceIs
    <3>3. <<"worker", q>> \in References(a) /\ References(a) = {<<"worker", q>>}
      BY <3>2
    <3>4. QED
      BY <3>1, <3>3
  <2>8. QED
    BY <2>0, <2>3, <2>4, <2>5, <2>6, <2>7 DEF PlaceInv
<1>2. QED
  BY Invariance, <1>1, PTL

\* A client is told once, and never after it has gone away.
THEOREM ToldOnce == Spec => AnsweredOnce
<1>1. ASSUME IInv, [Next]_vars
      PROVE  \A r \in Rpcs :
               /\ rpc[r] \in {"answered", "dropped"} => rpc'[r] = rpc[r] /\ reply'[r] = reply[r]
               /\ \A a \in finishing \ finishing' :
                    rpcOf[a] = r => rpc[r] \in {"matched", "dropped"}
  <2>0. TypeOK /\ HandlerInv /\ RpcInv
    BY <1>1 DEF IInv
  <2>1. ASSUME NEW r \in Rpcs, NEW a \in finishing, rpcOf[a] = r
        PROVE  rpc[r] \in {"matched", "dropped"}
    <3>1. a \in Addresses /\ rpcOf[a] # None
      BY <2>0, <2>1, NoneAssumption DEF TypeOK
    <3>2. rpc[r] \notin {"unsent", "pending", "answered"}
      BY <2>0, <2>1, <3>1 DEF RpcInv
    <3>3. rpc[r] \in {"unsent", "pending", "matched", "answered", "dropped"}
      BY <2>0 DEF TypeOK
    <3>4. QED
      BY <3>2, <3>3
  <2>2. ASSUME NEW r \in Rpcs, rpc[r] \in {"answered", "dropped"}
        PROVE  rpc'[r] = rpc[r] /\ reply'[r] = reply[r]
    <3>1. CASE UNCHANGED <<rpc, reply>>
      BY <3>1
    <3>2. ASSUME NEW s \in Rpcs, Arrive(s) \/ Drop(s) \/ \E a \in Addresses : Match(s, a)
          PROVE  rpc'[r] = rpc[r] /\ reply'[r] = reply[r]
      BY <2>0, <2>2, <3>2 DEF TypeOK, Arrive, Drop, Match
    <3>3. ASSUME NEW a \in Addresses, FinishDone(a)
          PROVE  rpc'[r] = rpc[r] /\ reply'[r] = reply[r]
      <4>1. CASE rpc[rpcOf[a]] = "dropped"
        BY <3>3, <4>1 DEF FinishDone
      <4>2. CASE rpc[rpcOf[a]] # "dropped"
        <5>1. a \in finishing /\ rpc[rpcOf[a]] # "answered"
          BY <2>0, <3>3 DEF FinishDone, RpcInv
        <5>2. r # rpcOf[a]
          BY <2>2, <4>2, <5>1
        <5>3. /\ rpc' = [rpc EXCEPT ![rpcOf[a]] = "answered"]
              /\ reply' = [reply EXCEPT ![rpcOf[a]] = out[a]]
          BY <3>3, <4>2 DEF FinishDone
        <5>4. QED
          BY <2>0, <5>2, <5>3 DEF TypeOK
      <4>3. QED
        BY <4>1, <4>2
    <3>4. \/ UNCHANGED <<rpc, reply>>
          \/ \E s \in Rpcs : Arrive(s) \/ Drop(s) \/ \E a \in Addresses : Match(s, a)
          \/ \E a \in Addresses : FinishDone(a)
      <4>1. ASSUME NEW q \in Workers, WorkerLoop(q) PROVE UNCHANGED <<rpc, reply>>
        BY <4>1 DEF WorkerLoop, grpcVars, NextRequest, NextDelete, Spawn, NoopLogin,
                    LoginWithoutPool, AcquireConnection, BeginRead, Query, DatabaseThrows,
                    EndTransaction, ReleaseConnection, Finish
      <4>2. ASSUME Run \/ (\E c \in Conns : ConnLost(c)) \/ UNCHANGED vars
            PROVE  UNCHANGED <<rpc, reply>>
        BY <4>2 DEF Run, CreateHandler, StartWorker, ConnLost, vars, grpcVars
      <4>3. QED
        BY <1>1, <4>1, <4>2 DEF Next
    <3>5. QED
      BY <3>1, <3>2, <3>3, <3>4
  <2>3. QED
    BY <2>1, <2>2
<1>2. IInv /\ [Next]_vars =>
        [\A r \in Rpcs :
           /\ rpc[r] \in {"answered", "dropped"} => UNCHANGED <<rpc[r], reply[r]>>
           /\ \A a \in finishing \ finishing' :
                rpcOf[a] = r => rpc[r] \in {"matched", "dropped"}]_vars
  BY <1>1
<1>3. QED
  BY Invariance, <1>2, PTL DEF Spec, AnsweredOnce

\* With at least as many connections as workers nobody waits for a connection:
\* there is an idle one for each worker that has none.
THEOREM NobodyWaits == Spec => []EnoughConnections
<1>1. IInv => EnoughConnections
  <2> SUFFICES ASSUME IInv, NumThreads <= Cardinality(Conns)
               PROVE  Cardinality({q \in Workers : held[q] = None}) <= Cardinality(idle)
    BY DEF EnoughConnections
  <2> DEFINE Without == {q \in Workers : held[q] = None}
             Having  == {q \in Workers : held[q] # None}
             Lent    == Conns \ idle
             Holder  == [c \in Lent |-> CHOOSE q \in Workers : held[q] = c]
  <2>1. TypeOK /\ PoolInv /\ None \notin Conns
    BY NoneAssumption DEF IInv
  <2>2. IsFiniteSet(Workers) /\ Cardinality(Workers) = NumThreads /\ NumThreads \in Nat
    BY ThreadsAssumption, FS_Interval DEF Workers
  <2>3. /\ Workers \ Without = Having /\ Workers \cap Without = Without
        /\ Conns \cap idle = idle
    BY <2>1 DEF TypeOK
  <2>4. /\ IsFiniteSet(Having) /\ IsFiniteSet(Without) /\ IsFiniteSet(idle)
        /\ Cardinality(Having) = NumThreads - Cardinality(Without)
        /\ Cardinality(Lent) = Cardinality(Conns) - Cardinality(idle)
    <3>1. IsFiniteSet(Having) /\ Cardinality(Having) = NumThreads - Cardinality(Without)
      BY <2>2, <2>3, FS_Difference
    <3>2. Cardinality(Lent) = Cardinality(Conns) - Cardinality(idle)
      BY <2>3, FiniteAssumption, FS_Difference
    <3>3. IsFiniteSet(Without)
      BY <2>2, FS_Subset
    <3>4. IsFiniteSet(idle)
      BY <2>1, FiniteAssumption, FS_Subset DEF TypeOK
    <3>5. QED
      BY <3>1, <3>2, <3>3, <3>4
  <2>5. \A c \in Lent : Holder[c] \in Having /\ held[Holder[c]] = c
    <3>1. \A c \in Lent : \E q \in Workers : held[q] = c
      BY <2>1 DEF PoolInv
    <3>2. \A c \in Lent : Holder[c] \in Workers /\ held[Holder[c]] = c
      BY <3>1
    <3>3. QED
      BY <2>1, <3>2
  <2>6. Holder \in Injection(Lent, Having)
    <3> HIDE DEF Lent, Having
    <3>1. Holder \in [Lent -> Having] /\ \A c, d \in Lent : Holder[c] = Holder[d] => c = d
      BY <2>5
    <3>2. QED
      BY <3>1 DEF Injection, IsInjective
  <2>7. Cardinality(Lent) <= Cardinality(Having)
    BY <2>4, <2>6, FS_Injection
  <2>8. /\ Cardinality(Without) \in Nat /\ Cardinality(idle) \in Nat
        /\ Cardinality(Conns) \in Nat
    BY <2>4, FiniteAssumption, FS_CardinalityType
  <2> HIDE DEF Without, Having, Lent
  <2>9. Cardinality(Without) <= Cardinality(idle)
    BY <2>2, <2>4, <2>7, <2>8
  <2>10. QED
    BY <2>9 DEF Without
<1>2. QED
  BY Invariance, <1>1, PTL

-----------------------------------------------------------------------------
(* How many handlers wait on each queue. *)

Waiting(q) == {a \in Live : cq[a] = q /\ state[a] = "WAIT"}

\* Of so many handlers run() has created, queue by queue, those of queue q.
Made(q, n) == IF n <= (q - 1) * HANDLERS_PER_CQ THEN 0
              ELSE IF n >= q * HANDLERS_PER_CQ THEN HANDLERS_PER_CQ
              ELSE n - (q - 1) * HANDLERS_PER_CQ

CountInv == \A q \in Workers : Cardinality(Waiting(q)) = Made(q, created)

\* The next handler that run() creates counts for the queue it is created for.
LEMMA OneMore ==
    ASSUME NEW n \in Nat, n < NumThreads * HANDLERS_PER_CQ, NEW q \in Workers
    PROVE  Made(q, n + 1) =
             IF q = n \div HANDLERS_PER_CQ + 1 THEN Made(q, n) + 1 ELSE Made(q, n)
<1> DEFINE h == HANDLERS_PER_CQ
           d == n \div h
<1>1. h \in Nat \ {0} /\ NumThreads \in Nat /\ q \in Nat \ {0}
  BY ThreadsAssumption, HandlersAssumption DEF Workers
<1>2. d \in Nat /\ d * h <= n /\ n < d * h + h
  BY <1>1, QueueOf
<1> HIDE DEF d, h
<1>3. PICK m \in Nat : m = q - 1
  BY <1>1
<1>4. /\ m * h \in Nat /\ d * h \in Nat
      /\ q * h = m * h + h
  <2>1. q = m + 1
    BY <1>1, <1>3
  <2>2. (m + 1) * h = m * h + h
    BY <1>1
  <2>3. QED
    BY <1>1, <1>2, <2>1, <2>2
<1>5. \A i, j \in Nat : i < j => i * h + h <= j * h
  <2> SUFFICES ASSUME NEW i \in Nat, NEW j \in Nat, i < j PROVE i * h + h <= j * h
    OBVIOUS
  <2>1. PICK k \in Nat : j = i + 1 + k
    BY j - (i + 1) \in Nat
  <2>2. j * h = i * h + h + k * h /\ k * h \in Nat /\ i * h \in Nat
    BY <1>1, <2>1
  <2>3. QED
    BY <1>1, <2>2
<1>6. Made(q, n) = IF n <= m * h THEN 0 ELSE IF n >= m * h + h THEN h ELSE n - m * h
  BY <1>3, <1>4 DEF Made, h
<1>7. Made(q, n + 1) = IF n + 1 <= m * h THEN 0
                       ELSE IF n + 1 >= m * h + h THEN h ELSE n + 1 - m * h
  BY <1>3, <1>4 DEF Made, h
<1>8. CASE q = d + 1
  <2>1. m = d
    BY <1>1, <1>2, <1>3, <1>8
  <2>2. QED
    BY <1>1, <1>2, <1>4, <1>6, <1>7, <1>8, <2>1 DEF d, h
<1>9. CASE q # d + 1
  <2>1. m < d \/ d < m
    BY <1>1, <1>2, <1>3, <1>9
  <2>2. CASE m < d
    <3>1. m * h + h <= d * h
      BY <1>2, <1>5, <2>2
    <3>2. Made(q, n) = h /\ Made(q, n + 1) = h
      BY <1>1, <1>2, <1>4, <1>6, <1>7, <3>1
    <3>3. QED
      BY <1>9, <3>2 DEF d, h
  <2>3. CASE d < m
    <3>1. d * h + h <= m * h
      BY <1>2, <1>5, <2>3
    <3>2. Made(q, n) = 0 /\ Made(q, n + 1) = 0
      BY <1>1, <1>2, <1>4, <1>6, <1>7, <3>1
    <3>3. QED
      BY <1>9, <3>2 DEF d, h
  <2>4. QED
    BY <2>1, <2>2, <2>3
<1>10. QED
  BY <1>8, <1>9

\* However busy its worker is, a queue has HANDLERS_PER_CQ handlers waiting from
\* the moment run() has made them: proceed() makes the successor first.
THEOREM SomebodyListens == Spec => []AlwaysListening
<1>1. Init => CountInv
  <2> SUFFICES ASSUME Init, NEW q \in Workers
               PROVE  Cardinality(Waiting(q)) = Made(q, created)
    BY DEF CountInv
  <2>1. Waiting(q) = {} /\ created = 0
    BY DEF Init, Waiting, Live
  <2>2. (q - 1) * HANDLERS_PER_CQ \in Nat
    <3>1. q - 1 \in Nat
      BY ThreadsAssumption DEF Workers
    <3>2. QED
      BY <3>1, HandlersAssumption
  <2>3. Made(q, 0) = 0
    BY <2>2 DEF Made
  <2>4. QED
    BY <2>1, <2>3, FS_EmptySet
<1>2. IInv /\ CountInv /\ [Next]_vars => CountInv'
  <2> SUFFICES ASSUME IInv, CountInv, [Next]_vars, NEW q \in Workers
               PROVE  Cardinality(Waiting(q)') = Made(q, created')
    BY DEF CountInv, Made
  <2>0. /\ TypeOK /\ Cardinality(Waiting(q)) = Made(q, created)
        /\ \A w \in Workers : IsFiniteSet(Waiting(w))
    <3>1. \A w \in Workers : Waiting(w) \subseteq Addresses
      BY DEF Waiting, Live
    <3>2. QED
      BY <3>1, FiniteAssumption, FS_Subset DEF IInv, CountInv
  <2>1. CASE UNCHANGED <<created, state, cq>>
    <3>1. Waiting(q)' = Waiting(q)
      BY <2>1 DEF Waiting, Live
    <3>2. QED
      BY <2>0, <2>1, <3>1
  <2>2. CASE CreateHandler
    <3>1. PICK k : k = created \div HANDLERS_PER_CQ + 1
      OBVIOUS
    <3>2. PICK a \in Addresses : /\ state[a] = "free" /\ cq' = [cq EXCEPT ![a] = k]
                                 /\ state' = [state EXCEPT ![a] = "WAIT"]
      BY <2>2, <3>1 DEF CreateHandler, New
    <3>3. created \in Nat /\ created' = created + 1 /\ created < NumThreads * HANDLERS_PER_CQ
      BY <2>0, <2>2 DEF TypeOK, CreateHandler
    <3>4. Made(q, created') = IF q = k THEN Made(q, created) + 1 ELSE Made(q, created)
      BY <3>1, <3>3, OneMore
    <3>5. CASE q = k
      <4>1. Waiting(q)' = Waiting(q) \cup {a} /\ a \notin Waiting(q)
        BY <2>0, <3>2, <3>5 DEF TypeOK, Waiting, Live
      <4>2. Cardinality(Waiting(q) \cup {a}) = Cardinality(Waiting(q)) + 1
        BY <2>0, <4>1, FS_AddElement
      <4>3. QED
        BY <2>0, <3>4, <3>5, <4>1, <4>2
    <3>6. CASE q # k
      <4>1. Waiting(q)' = Waiting(q)
        BY <2>0, <3>2, <3>6 DEF TypeOK, Waiting, Live
      <4>2. QED
        BY <2>0, <3>4, <3>6, <4>1
    <3>7. QED
      BY <3>5, <3>6
  <2>3. ASSUME NEW w \in Workers, Spawn(w)
        PROVE  Cardinality(Waiting(q)') = Made(q, created')
    <3>1. PICK a \in Addresses :
            /\ state[a] = "free" /\ cq' = [cq EXCEPT ![a] = w]
            /\ state' = [state EXCEPT ![a] = "WAIT", ![cur[w]] = "FINISH"]
      BY <2>3 DEF Spawn, New
    <3>2. created' = created /\ pc[w] = "spawn"
      BY <2>3 DEF Spawn, mainVars
    <3>3. PICK b \in Addresses : b = cur[w]
      BY <2>0, <3>2 DEF TypeOK, IInv, HandlerInv, Working, Positions
    <3>4. state[b] = "WAIT" /\ cq[b] = w /\ a # b
      <4>1. pc[w] \in Working
        BY <3>2 DEF Working, Positions
      <4>2. IsServed(b, w)
        BY <3>3, <4>1 DEF IInv, HandlerInv
      <4>3. QED
        BY <3>1, <3>2, <4>2 DEF IsServed
    <3>5. /\ state'[a] = "WAIT" /\ state'[b] = "FINISH"
          /\ \A x \in Addresses \ {a, b} : state'[x] = state[x]
          /\ cq'[a] = w /\ \A x \in Addresses \ {a} : cq'[x] = cq[x]
      BY <2>0, <3>1, <3>3, <3>4 DEF TypeOK
    <3>6. CASE q = w
      <4>1. /\ Waiting(q)' = (Waiting(q) \ {b}) \cup {a}
            /\ a \notin Waiting(q) \ {b} /\ b \in Waiting(q)
        BY <3>1, <3>4, <3>5, <3>6 DEF Waiting, Live
      <4>2. /\ IsFiniteSet(Waiting(q) \ {b})
            /\ Cardinality(Waiting(q) \ {b}) = Cardinality(Waiting(q)) - 1
        BY <2>0, <4>1, FS_RemoveElement
      <4>3. Cardinality((Waiting(q) \ {b}) \cup {a}) = Cardinality(Waiting(q) \ {b}) + 1
        BY <4>1, <4>2, FS_AddElement
      <4>4. Cardinality(Waiting(q)) \in Nat
        BY <2>0, FS_CardinalityType
      <4>5. QED
        BY <2>0, <3>2, <4>1, <4>2, <4>3, <4>4
    <3>7. CASE q # w
      <4>1. Waiting(q)' = Waiting(q)
        BY <3>1, <3>4, <3>5, <3>7 DEF Waiting, Live
      <4>2. QED
        BY <2>0, <3>2, <4>1
    <3>8. QED
      BY <3>6, <3>7
  <2>4. ASSUME NEW w \in Workers, NextDelete(w)
        PROVE  Cardinality(Waiting(q)') = Made(q, created')
    <3>1. PICK e : e = Head(queue[w])
      OBVIOUS
    <3>2. Dequeued(w, e)
      BY <2>4, <3>1, Dequeue DEF NextDelete
    <3>3. PICK a \in Addresses : a = e.tag
      BY <3>2 DEF Dequeued, Events
    <3>4. state[a] # "WAIT"
      BY <2>4, <3>1, <3>2, <3>3 DEF NextDelete, Dequeued, IsQueued
    <3>5. /\ created' = created /\ state'[a] = "free"
          /\ \A x \in Addresses \ {a} : state'[x] = state[x] /\ cq'[x] = cq[x]
      BY <2>0, <2>4, <3>1, <3>3 DEF TypeOK, NextDelete, mainVars
    <3>6. Waiting(q)' = Waiting(q)
      BY <3>4, <3>5 DEF Waiting, Live
    <3>7. QED
      BY <2>0, <3>5, <3>6
  <2>5. ASSUME NEW w \in Workers, WorkerLoop(w)
        PROVE  UNCHANGED <<created, state, cq>> \/ Spawn(w) \/ NextDelete(w)
    BY <2>5 DEF WorkerLoop, mainVars, handlerVars, NextRequest, NoopLogin, LoginWithoutPool,
                AcquireConnection, BeginRead, Query, DatabaseThrows, EndTransaction,
                ReleaseConnection, Finish
  <2>6. \/ UNCHANGED <<created, state, cq>> \/ CreateHandler
        \/ \E w \in Workers : WorkerLoop(w)
    BY DEF Next, Run, vars, mainVars, handlerVars, StartWorker, Arrive, Drop, Match,
           FinishDone, ConnLost
  <2>7. QED
    BY <2>1, <2>2, <2>3, <2>4, <2>5, <2>6
<1>3. IInv /\ CountInv => AlwaysListening
  <2> SUFFICES ASSUME CountInv, created = NumThreads * HANDLERS_PER_CQ, NEW q \in Workers
               PROVE  Cardinality(Waiting(q)) = HANDLERS_PER_CQ
    BY DEF AlwaysListening, Waiting
  <2>1. Cardinality(Waiting(q)) = Made(q, NumThreads * HANDLERS_PER_CQ)
    BY DEF CountInv
  <2> DEFINE h == HANDLERS_PER_CQ
             n == NumThreads
  <2>2. h \in Nat \ {0} /\ n \in Nat /\ q \in Nat \ {0} /\ q <= n
    BY ThreadsAssumption, HandlersAssumption DEF Workers
  <2>3. PICK k \in Nat : n = q + k
    BY <2>2, n - q \in Nat
  <2>4. PICK m \in Nat : q = m + 1
    BY <2>2, q - 1 \in Nat
  <2> HIDE DEF n, h
  <2>5. /\ q * h = m * h + h /\ m * h \in Nat /\ (q - 1) * h = m * h
        /\ n * h = m * h + h + k * h /\ k * h \in Nat
    <3>1. q - 1 = m /\ n = m + 1 + k
      BY <2>2, <2>3, <2>4
    <3>2. (m + 1) * h = m * h + h /\ (m + 1 + k) * h = m * h + h + k * h
          /\ m * h \in Nat /\ k * h \in Nat
      BY <2>2
    <3>3. QED
      BY <2>4, <3>1, <3>2
  <2>6. ~(n * h <= (q - 1) * h) /\ n * h >= q * h
    BY <2>2, <2>5
  <2>7. QED
    BY <2>1, <2>6 DEF Made, n, h
<1>4. QED
  BY <1>1, <1>2, <1>3, Invariance, PTL DEF Spec
=============================================================================
