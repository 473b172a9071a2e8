--------------------------- MODULE ConnectionPool ---------------------------
(***************************************************************************)
(* PostgresConnectionPool of Services/login_service/ConnectionPool.h: a    *)
(* queue of connections behind a mutex and a condition variable, used by   *)
(* threads that acquire() a connection, work with it and release() it, as  *)
(* the constructor and the destructor of PooledConnection do.              *)
(*                                                                         *)
(* std::condition_variable is modelled by what the standard allows: wait   *)
(* gives up the mutex and goes to sleep in one step, notify_one wakes any  *)
(* one sleeper, a sleeper may also wake for no reason, and a thread that   *)
(* was woken still has to get the mutex back.                              *)
(***************************************************************************)
EXTENDS Naturals, Sequences, FiniteSets, Functions

CONSTANTS Threads,  \* threads that use the pool
          Conns,    \* the connections its constructor opened
          None

ASSUME NoneIsNoConn   == None \notin Conns
ASSUME NoneIsNoThread == None \notin Threads
ASSUME ConnsFinite    == IsFiniteSet(Conns)
ASSUME ThreadsFinite  == IsFiniteSet(Threads)

VARIABLES
    pc,     \* pc[t]: where thread t is in acquire() or release()
    mutex,  \* the thread that holds _mutex, or None
    pool,   \* _pool, a FIFO queue
    held    \* held[t]: what its PooledConnection owns, or None

vars == <<pc, mutex, pool, held>>

\* Positions: not using the pool; about to lock in acquire(); testing the
\* predicate of wait; asleep; woken without the mutex; returned from acquire();
\* about to lock in release(); about to push; about to notify.
Positions == {"out", "acquire", "test", "asleep", "woken", "using",
              "release", "push", "notify"}

\* Positions inside a critical section.
Locked == {"test", "push", "notify"}

\* Positions between acquire()'s return and release()'s push.
Owning == {"using", "release", "push"}

At(position) == {t \in Threads : pc[t] \in position}

Idle == {pool[i] : i \in DOMAIN pool}

Lent == {held[t] : t \in Threads} \ {None}

Init ==
    /\ pc    = [t \in Threads |-> "out"]
    /\ mutex = None
    /\ pool \in Bijection(1 .. Cardinality(Conns), Conns)
    /\ held  = [t \in Threads |-> None]

-----------------------------------------------------------------------------
(* acquire() *)

Acquire(t) ==
    /\ pc[t] = "out"
    /\ pc' = [pc EXCEPT ![t] = "acquire"]
    /\ UNCHANGED <<mutex, pool, held>>

\* unique_lock lock(_mutex), and the wait getting the mutex back.
Lock(t) ==
    /\ pc[t] \in {"acquire", "woken"}
    /\ mutex = None
    /\ mutex' = t
    /\ pc' = [pc EXCEPT ![t] = "test"]
    /\ UNCHANGED <<pool, held>>

Sleep(t) ==
    /\ pc[t] = "test"
    /\ pool = <<>>
    /\ mutex' = None
    /\ pc' = [pc EXCEPT ![t] = "asleep"]
    /\ UNCHANGED <<pool, held>>

SpuriousWakeup(t) ==
    /\ pc[t] = "asleep"
    /\ pc' = [pc EXCEPT ![t] = "woken"]
    /\ UNCHANGED <<mutex, pool, held>>

\* Variant: front() without pop().
TakeWithoutPop(t) ==
    /\ pc[t] = "test"
    /\ pool # <<>>
    /\ held' = [held EXCEPT ![t] = Head(pool)]
    /\ mutex' = None
    /\ pc' = [pc EXCEPT ![t] = "using"]
    /\ UNCHANGED pool

TakeFront(t) ==
    /\ pc[t] = "test"
    /\ pool # <<>>
    /\ held' = [held EXCEPT ![t] = Head(pool)]
    /\ pool' = Tail(pool)
    /\ mutex' = None
    /\ pc' = [pc EXCEPT ![t] = "using"]

-----------------------------------------------------------------------------
(* release() *)

Release(t) ==
    /\ pc[t] = "using"
    /\ pc' = [pc EXCEPT ![t] = "release"]
    /\ UNCHANGED <<mutex, pool, held>>

LockToRelease(t) ==
    /\ pc[t] = "release"
    /\ mutex = None
    /\ mutex' = t
    /\ pc' = [pc EXCEPT ![t] = "push"]
    /\ UNCHANGED <<pool, held>>

\* Variant: the connection is closed instead of pushed.
ConnectionDropped(t) ==
    /\ pc[t] = "push"
    /\ held' = [held EXCEPT ![t] = None]
    /\ pc' = [pc EXCEPT ![t] = "notify"]
    /\ UNCHANGED <<mutex, pool>>

Push(t) ==
    /\ pc[t] = "push"
    /\ pool' = Append(pool, held[t])
    /\ held' = [held EXCEPT ![t] = None]
    /\ pc' = [pc EXCEPT ![t] = "notify"]
    /\ UNCHANGED mutex

\* Variant: nobody is notified.
NoNotify(t) ==
    /\ pc[t] = "notify"
    /\ pc' = [pc EXCEPT ![t] = "out"]
    /\ mutex' = None
    /\ UNCHANGED <<pool, held>>

\* notify_one, and the end of the lock_guard's scope.  Whom it wakes is the
\* library's choice.
Notify(t) ==
    /\ pc[t] = "notify"
    /\ IF At({"asleep"}) = {}
         THEN pc' = [pc EXCEPT ![t] = "out"]
         ELSE \E w \in At({"asleep"}) :
                pc' = [pc EXCEPT ![t] = "out", ![w] = "woken"]
    /\ mutex' = None
    /\ UNCHANGED <<pool, held>>

-----------------------------------------------------------------------------
Step(t) ==
    \/ Lock(t) \/ Sleep(t) \/ TakeFront(t)
    \/ Release(t) \/ LockToRelease(t) \/ Push(t) \/ Notify(t)

Next == \E t \in Threads : Acquire(t) \/ SpuriousWakeup(t) \/ Step(t)

Spec == Init /\ [][Next]_vars

-----------------------------------------------------------------------------
(* Properties. *)

\* Every variable keeps its type; acquire() hands out nothing but connections
\* the constructor opened.
TypeOK ==
    /\ pc    \in [Threads -> Positions]
    /\ mutex \in Threads \cup {None}
    /\ pool  \in Seq(Conns)
    /\ held  \in [Threads -> Conns \cup {None}]

\* Every connection is in exactly one place: once in the queue, or with exactly
\* one thread.  A connection two threads use at once, or one that went astray,
\* would break it.
EachConnectionInOnePlace ==
    /\ \A i, j \in DOMAIN pool : pool[i] = pool[j] => i = j
    /\ \A t, u \in Threads : held[t] = held[u] /\ held[t] # None => t = u
    /\ Idle \cap Lent = {}
    /\ Idle \cup Lent = Conns

\* No wake-up is lost: while somebody sleeps, each idle connection is matched by
\* a thread that is awake and will look at the queue, or by a notification that
\* is about to be sent.
NoLostWakeup ==
    At({"asleep"}) # {} => Len(pool) <= Cardinality(At({"woken", "test", "notify"}))

Lease == INSTANCE PoolLease WITH idle <- Idle

\* acquire() and release(), with all their locking, lend and take back one
\* connection at a time.
ImplementsLease == Lease!Spec
=============================================================================
