-------------------------- MODULE UserServiceProofs --------------------------
(***************************************************************************)
(* Proofs about ConnectionPool and about UserService, which uses it, for   *)
(* any number of threads and connections.  Login uses the pool as          *)
(* ConnectionPool describes its users, so what is proved of the pool in    *)
(* the first part holds of the service; the second part shows that no      *)
(* connection comes back to the pool with a transaction.                   *)
(***************************************************************************)
EXTENDS UserService, FiniteSetTheorems, TLAPS

-----------------------------------------------------------------------------
(* The pool. *)

\* The mutex is held by the one thread inside a critical section.
MutexInv == \A t \in Threads : pc[t] \in Locked <=> mutex = t

\* A thread has a connection exactly between acquire() and release()'s push.
OwnInv == \A t \in Threads : pc[t] \in Owning <=> held[t] # None

\* The inductive invariant.
IInv == TypeOK /\ MutexInv /\ OwnInv /\ EachConnectionInOnePlace

-----------------------------------------------------------------------------
\* Taking the front of the queue leaves a queue of the other connections.
LEMMA TailFacts ==
    ASSUME NEW S, NEW s \in Seq(S), s # <<>>,
           \A i, j \in DOMAIN s : s[i] = s[j] => i = j
    PROVE  /\ Head(s) \in S
           /\ Tail(s) \in Seq(S)
           /\ \A i, j \in DOMAIN Tail(s) : Tail(s)[i] = Tail(s)[j] => i = j
           /\ {Tail(s)[i] : i \in DOMAIN Tail(s)} = {s[i] : i \in DOMAIN s} \ {Head(s)}
           /\ Head(s) \in {s[i] : i \in DOMAIN s}
<1>1. /\ Len(s) \in Nat \ {0}
      /\ DOMAIN s = 1 .. Len(s)
      /\ Head(s) = s[1]
  OBVIOUS
<1>2. /\ Tail(s) \in Seq(S)
      /\ DOMAIN Tail(s) = 1 .. Len(s) - 1
      /\ \A i \in 1 .. Len(s) - 1 : Tail(s)[i] = s[i + 1]
  BY <1>1
<1>3. \A i, j \in DOMAIN Tail(s) : Tail(s)[i] = Tail(s)[j] => i = j
  BY <1>1, <1>2
<1>4. ASSUME NEW x PROVE x \in {Tail(s)[i] : i \in DOMAIN Tail(s)}
                           <=> x \in {s[i] : i \in DOMAIN s} \ {Head(s)}
  <2>1. ASSUME NEW i \in 1 .. Len(s) - 1, x = Tail(s)[i]
        PROVE  x \in {s[j] : j \in DOMAIN s} \ {Head(s)}
    <3>1. x = s[i + 1] /\ i + 1 \in DOMAIN s /\ i + 1 # 1 /\ 1 \in DOMAIN s
      BY <1>1, <1>2, <2>1
    <3>2. QED
      BY <1>1, <3>1
  <2>2. ASSUME NEW i \in DOMAIN s, x = s[i], x # Head(s)
        PROVE  x \in {Tail(s)[j] : j \in DOMAIN Tail(s)}
    <3>1. i - 1 \in DOMAIN Tail(s)
      BY <1>1, <1>2, <2>2
    <3>2. Tail(s)[i - 1] = x
      BY <1>1, <1>2, <2>2, <3>1
    <3>3. QED
      BY <3>1, <3>2
  <2>3. QED
    BY <1>2, <2>1, <2>2
<1>5. QED
  BY <1>1, <1>2, <1>3, <1>4

\* Pushing a connection that is not in the queue adds it, once.
LEMMA AppendFacts ==
    ASSUME NEW S, NEW s \in Seq(S), NEW x \in S,
           \A i, j \in DOMAIN s : s[i] = s[j] => i = j,
           x \notin {s[i] : i \in DOMAIN s}
    PROVE  /\ Append(s, x) \in Seq(S)
           /\ \A i, j \in DOMAIN Append(s, x) :
                Append(s, x)[i] = Append(s, x)[j] => i = j
           /\ {Append(s, x)[i] : i \in DOMAIN Append(s, x)}
                = {s[i] : i \in DOMAIN s} \cup {x}
<1> DEFINE a == Append(s, x)
           n == Len(s) + 1
<1>1. /\ a \in Seq(S)
      /\ n \in Nat
      /\ DOMAIN s = 1 .. Len(s)
      /\ DOMAIN a = DOMAIN s \cup {n}
      /\ n \notin DOMAIN s
      /\ a[n] = x
      /\ \A i \in DOMAIN s : a[i] = s[i]
  OBVIOUS
<1> HIDE DEF a, n
<1>2. \A i, j \in DOMAIN a : a[i] = a[j] => i = j
  BY <1>1
<1>3. {a[i] : i \in DOMAIN a} = {s[i] : i \in DOMAIN s} \cup {x}
  BY <1>1
<1>4. QED
  BY <1>1, <1>2, <1>3 DEF a

-----------------------------------------------------------------------------
\* The invariant holds before anything has run.
LEMMA InitInv == Init => IInv
<1> SUFFICES ASSUME Init PROVE IInv
  OBVIOUS
<1>1. /\ pool \in [1 .. Cardinality(Conns) -> Conns]
      /\ \A i, j \in DOMAIN pool : pool[i] = pool[j] => i = j
      /\ Idle = Conns
  BY DEF Init, Bijection, Injection, Surjection, IsInjective, Idle
<1>2. Cardinality(Conns) \in Nat
  BY ConnsFinite, FS_CardinalityType
<1>3. pool \in Seq(Conns)
  BY <1>1, <1>2
<1>4. TypeOK
  BY <1>3 DEF Init, TypeOK, Positions
<1>5. MutexInv /\ OwnInv
  BY NoneIsNoThread DEF Init, MutexInv, OwnInv, Locked, Owning
<1>6. Lent = {}
  BY DEF Init, Lent
<1>7. \A t, u \in Threads : held[t] = held[u] /\ held[t] # None => t = u
  BY DEF Init
<1>8. QED
  BY <1>1, <1>4, <1>5, <1>6, <1>7 DEF IInv, EachConnectionInOnePlace

\* Steps that only lock, sleep, wake and notify.
LEMMA WaitingStep ==
    ASSUME IInv, NEW t \in Threads,
           \/ Acquire(t) \/ Lock(t) \/ Sleep(t) \/ SpuriousWakeup(t)
           \/ Release(t) \/ LockToRelease(t) \/ Notify(t)
    PROVE  IInv'
<1>1. UNCHANGED <<pool, held>>
  BY DEF Acquire, Lock, Sleep, SpuriousWakeup, Release, LockToRelease, Notify
<1>2. EachConnectionInOnePlace'
  BY <1>1 DEF IInv, EachConnectionInOnePlace, Idle, Lent
<1>3. CASE Acquire(t) \/ SpuriousWakeup(t) \/ Release(t)
  <2>1. TypeOK'
    BY <1>3 DEF Acquire, SpuriousWakeup, Release, IInv, TypeOK, Positions
  <2>2. MutexInv' /\ OwnInv'
    BY <1>3 DEF Acquire, SpuriousWakeup, Release, IInv, TypeOK, MutexInv, OwnInv,
           Locked, Owning
  <2>3. QED
    BY <1>2, <2>1, <2>2 DEF IInv
<1>4. CASE Lock(t) \/ LockToRelease(t)
  <2>1. TypeOK'
    BY <1>4 DEF Lock, LockToRelease, IInv, TypeOK, Positions
  <2>2. MutexInv'
    BY <1>4, NoneIsNoThread DEF Lock, LockToRelease, IInv, TypeOK, MutexInv, Locked
  <2>3. OwnInv'
    BY <1>4 DEF Lock, LockToRelease, IInv, TypeOK, OwnInv, Owning
  <2>4. QED
    BY <1>2, <2>1, <2>2, <2>3 DEF IInv
<1>5. CASE Sleep(t)
  <2>1. TypeOK'
    BY <1>5 DEF Sleep, IInv, TypeOK, Positions
  <2>2. MutexInv' /\ OwnInv'
    BY <1>5, NoneIsNoThread DEF Sleep, IInv, TypeOK, MutexInv, OwnInv, Locked, Owning
  <2>3. QED
    BY <1>2, <2>1, <2>2 DEF IInv
<1>6. CASE Notify(t)
  <2>1. /\ pc[t] = "notify" /\ mutex' = None
        /\ \E w \in Threads : /\ w = t \/ pc[w] = "asleep"
                              /\ pc' = [pc EXCEPT ![t] = "out",
                                                 ![w] = IF w = t THEN "out" ELSE "woken"]
    BY <1>6 DEF Notify, At, IInv, TypeOK
  <2>2. PICK w \in Threads : /\ w = t \/ pc[w] = "asleep"
                             /\ pc' = [pc EXCEPT ![t] = "out",
                                                ![w] = IF w = t THEN "out" ELSE "woken"]
    BY <2>1
  <2>3. TypeOK'
    BY <1>1, <2>1, <2>2 DEF IInv, TypeOK, Positions
  <2>4. MutexInv'
    BY <2>1, <2>2, NoneIsNoThread DEF IInv, TypeOK, MutexInv, Locked
  <2>5. OwnInv'
    BY <1>1, <2>1, <2>2 DEF IInv, TypeOK, OwnInv, Owning
  <2>6. QED
    BY <1>2, <2>3, <2>4, <2>5 DEF IInv
<1>7. QED
  BY <1>3, <1>4, <1>5, <1>6

\* acquire() moves the front of the queue to the caller.
LEMMA TakeStep ==
    ASSUME IInv, NEW t \in Threads, TakeFront(t)
    PROVE  /\ IInv'
           /\ Lease!Lend(t)
<1>1. /\ pc[t] = "test" /\ pool # <<>> /\ pool \in Seq(Conns)
      /\ held' = [held EXCEPT ![t] = Head(pool)]
      /\ pool' = Tail(pool)
      /\ mutex' = None
      /\ pc' = [pc EXCEPT ![t] = "using"]
  BY DEF TakeFront, IInv, TypeOK
<1>2. /\ Head(pool) \in Conns
      /\ Tail(pool) \in Seq(Conns)
      /\ \A i, j \in DOMAIN pool' : pool'[i] = pool'[j] => i = j
      /\ Idle' = Idle \ {Head(pool)}
      /\ Head(pool) \in Idle
  BY <1>1, TailFacts DEF IInv, EachConnectionInOnePlace, Idle
<1>3. held[t] = None
  BY <1>1 DEF IInv, OwnInv, Owning
<1>4. TypeOK'
  BY <1>1, <1>2 DEF IInv, TypeOK, Positions
<1>5. MutexInv'
  BY <1>1, NoneIsNoThread DEF IInv, TypeOK, MutexInv, Locked
<1>6. OwnInv'
  BY <1>1, <1>2, NoneIsNoConn DEF IInv, TypeOK, OwnInv, Owning
<1>7. EachConnectionInOnePlace'
  <2>1. \A u \in Threads : held[u] # Head(pool)
    BY <1>2, NoneIsNoConn DEF IInv, EachConnectionInOnePlace, Lent
  <2>2. \A u, v \in Threads : held'[u] = held'[v] /\ held'[u] # None => u = v
    BY <1>1, <2>1 DEF IInv, TypeOK, EachConnectionInOnePlace
  <2>3. Lent' = Lent \cup {Head(pool)}
    BY <1>1, <1>2, <1>3, NoneIsNoConn DEF IInv, TypeOK, Lent
  <2>4. Idle' \cap Lent' = {} /\ Idle' \cup Lent' = Conns
    BY <1>2, <2>3 DEF IInv, EachConnectionInOnePlace
  <2>5. QED
    BY <1>2, <2>2, <2>4 DEF EachConnectionInOnePlace
<1>8. Lease!Lend(t)
  BY <1>1, <1>2, <1>3 DEF Lease!Lend
<1>9. QED
  BY <1>4, <1>5, <1>6, <1>7, <1>8 DEF IInv

\* release() moves the caller's connection to the back of the queue.
LEMMA PushStep ==
    ASSUME IInv, NEW t \in Threads, Push(t)
    PROVE  /\ IInv'
           /\ Lease!GiveBack(t)
<1>1. /\ pc[t] = "push" /\ pool \in Seq(Conns)
      /\ pool' = Append(pool, held[t])
      /\ held' = [held EXCEPT ![t] = None]
      /\ pc' = [pc EXCEPT ![t] = "notify"]
      /\ mutex' = mutex
  BY DEF Push, IInv, TypeOK
<1>2. held[t] # None /\ held[t] \in Conns
  BY <1>1 DEF IInv, TypeOK, OwnInv, Owning
<1>3. held[t] \notin Idle
  BY <1>2 DEF IInv, EachConnectionInOnePlace, Lent
<1>4. /\ pool' \in Seq(Conns)
      /\ \A i, j \in DOMAIN pool' : pool'[i] = pool'[j] => i = j
      /\ Idle' = Idle \cup {held[t]}
  BY <1>1, <1>2, <1>3, AppendFacts DEF IInv, EachConnectionInOnePlace, Idle
<1>5. TypeOK'
  BY <1>1, <1>4 DEF IInv, TypeOK, Positions
<1>6. MutexInv'
  BY <1>1 DEF IInv, TypeOK, MutexInv, Locked
<1>7. OwnInv'
  BY <1>1 DEF IInv, TypeOK, OwnInv, Owning
<1>8. EachConnectionInOnePlace'
  <2>1. \A u, v \in Threads : held'[u] = held'[v] /\ held'[u] # None => u = v
    BY <1>1 DEF IInv, TypeOK, EachConnectionInOnePlace
  <2>2. Lent' = Lent \ {held[t]}
    BY <1>1, <1>2 DEF IInv, TypeOK, EachConnectionInOnePlace, Lent
  <2>3. held[t] \in Lent
    BY <1>2 DEF Lent
  <2>4. Idle' \cap Lent' = {} /\ Idle' \cup Lent' = Conns
    BY <1>4, <2>2, <2>3 DEF IInv, EachConnectionInOnePlace
  <2>5. QED
    BY <1>4, <2>1, <2>4 DEF EachConnectionInOnePlace
<1>9. Lease!GiveBack(t)
  BY <1>1, <1>2, <1>4 DEF Lease!GiveBack
<1>10. QED
  BY <1>5, <1>6, <1>7, <1>8, <1>9 DEF IInv

\* IInv holds initially and every step keeps it.
THEOREM Invariance == Spec => []IInv
<1>1. ASSUME IInv, [Next]_vars PROVE IInv'
  <2>1. CASE UNCHANGED vars
    <3>1. TypeOK' /\ MutexInv' /\ OwnInv'
      BY <1>1, <2>1 DEF vars, IInv, TypeOK, MutexInv, OwnInv
    <3>2. EachConnectionInOnePlace'
      BY <1>1, <2>1 DEF vars, IInv, EachConnectionInOnePlace, Idle, Lent
    <3>3. QED
      BY <3>1, <3>2 DEF IInv
  <2>2. ASSUME NEW t \in Threads, Acquire(t) \/ SpuriousWakeup(t) \/ Step(t)
        PROVE  IInv'
    BY <1>1, <2>2, WaitingStep, TakeStep, PushStep DEF Step
  <2>3. QED
    BY <1>1, <2>1, <2>2 DEF Next
<1>2. QED
  BY InitInv, <1>1, PTL DEF Spec

\* acquire() returns nothing but connections the constructor opened
\* (ConnectionPool.h:40-56).
THEOREM TypeCorrect == Spec => []TypeOK
<1>1. IInv => TypeOK
  BY DEF IInv
<1>2. QED
  BY Invariance, <1>1, PTL

\* No connection is ever lost, queued twice or used by two threads at once
\* (ConnectionPool.h:40-56).
THEOREM NoConnectionLostOrShared == Spec => []EachConnectionInOnePlace
<1>1. IInv => EachConnectionInOnePlace
  BY DEF IInv
<1>2. QED
  BY Invariance, <1>1, PTL

\* With all its locking, waiting and waking, the pool lends and takes back one
\* connection at a time (ConnectionPool.h:40-56, 67-75).
THEOREM LeaseRefinement == Spec => ImplementsLease
<1>1. Init => Lease!Init
  <2>1. Init => Idle = Conns
    BY InitInv DEF Init, Bijection, Surjection, Injection, Idle
  <2>2. QED
    BY <2>1 DEF Init, Lease!Init
<1>2. ASSUME IInv, [Next]_vars PROVE [Lease!Next]_<<Idle, held>>
  <2>1. ASSUME NEW t \in Threads, TakeFront(t) \/ Push(t) PROVE Lease!Next
    BY <1>2, <2>1, TakeStep, PushStep DEF Lease!Next
  <2>2. ASSUME NEW t \in Threads,
               \/ Acquire(t) \/ Lock(t) \/ Sleep(t) \/ SpuriousWakeup(t)
               \/ Release(t) \/ LockToRelease(t) \/ Notify(t)
        PROVE  UNCHANGED <<Idle, held>>
    BY <2>2 DEF Acquire, Lock, Sleep, SpuriousWakeup, Release, LockToRelease,
           Notify, Idle
  <2>3. UNCHANGED vars => UNCHANGED <<Idle, held>>
    BY DEF vars, Idle
  <2>4. QED
    BY <1>2, <2>1, <2>2, <2>3 DEF Next, Step
<1>3. QED
  BY <1>1, <1>2, Invariance, PTL DEF Spec, ImplementsLease, Lease!Spec

-----------------------------------------------------------------------------
\* The threads that will look at the queue, or are about to wake one that will.
Attentive == At({"woken", "test", "notify"})

\* There are finitely many of them, with or without one more or less.
LEMMA AttentiveFinite ==
    /\ IsFiniteSet(Attentive) /\ Cardinality(Attentive) \in Nat
    /\ \A t : t \in Attentive => Cardinality(Attentive \ {t}) = Cardinality(Attentive) - 1
    /\ \A t : t \notin Attentive => Cardinality(Attentive \cup {t}) = Cardinality(Attentive) + 1
<1>1. IsFiniteSet(Attentive)
  BY ThreadsFinite, FS_Subset DEF Attentive, At
<1>2. QED
  BY <1>1, FS_CardinalityType, FS_AddElement, FS_RemoveElement

\* A thread that takes the front leaves one connection less and is one less to
\* look; one that pushes adds one connection and a notification; a notification
\* wakes a thread that will look.
LEMMA WakeupStep ==
    ASSUME IInv, NoLostWakeup, NEW t \in Threads,
           Acquire(t) \/ SpuriousWakeup(t) \/ Step(t)
    PROVE  NoLostWakeup'
<1> SUFFICES ASSUME At({"asleep"})' # {}
             PROVE  Len(pool') <= Cardinality(Attentive')
  BY DEF NoLostWakeup, Attentive
<1>1. /\ pc \in [Threads -> Positions]
      /\ pool \in Seq(Conns) /\ Len(pool) \in Nat
      /\ Cardinality(Attentive) \in Nat
  BY AttentiveFinite DEF IInv, TypeOK
<1>2. CASE Acquire(t) \/ Release(t) \/ LockToRelease(t)
  <2>1. Attentive' = Attentive /\ At({"asleep"})' = At({"asleep"}) /\ pool' = pool
    BY <1>1, <1>2 DEF Acquire, Release, LockToRelease, Attentive, At
  <2>2. QED
    BY <2>1 DEF NoLostWakeup, Attentive
<1>3. CASE Lock(t) \/ SpuriousWakeup(t)
  <2>1. At({"asleep"})' \subseteq At({"asleep"}) /\ pool' = pool
    BY <1>1, <1>3 DEF Lock, SpuriousWakeup, At
  <2>2. Attentive' = Attentive \cup {t}
    BY <1>1, <1>3 DEF Lock, SpuriousWakeup, Attentive, At
  <2>3. Cardinality(Attentive') \in Nat /\ Cardinality(Attentive') >= Cardinality(Attentive)
    <3>1. CASE t \in Attentive
      <4>1. Attentive' = Attentive
        BY <2>2, <3>1, Zenon
      <4>2. QED
        BY <4>1, <1>1
    <3>2. CASE t \notin Attentive
      BY <2>2, <3>2, <1>1, AttentiveFinite
    <3>3. QED
      BY <3>1, <3>2
  <2>4. Len(pool) <= Cardinality(Attentive)
    BY <2>1 DEF NoLostWakeup, Attentive
  <2>5. QED
    BY <1>1, <2>1, <2>3, <2>4
<1>4. CASE Sleep(t)
  <2>1. pool' = pool /\ Len(pool) = 0
    BY <1>4 DEF Sleep
  <2>2. Attentive' = Attentive \ {t} /\ t \in Attentive
    BY <1>1, <1>4 DEF Sleep, Attentive, At
  <2>3. Cardinality(Attentive') \in Nat
    BY <2>2, AttentiveFinite, FS_RemoveElement, FS_CardinalityType
  <2>4. QED
    BY <2>1, <2>3
<1>5. CASE TakeFront(t)
  <2>1. At({"asleep"})' \subseteq At({"asleep"}) /\ pool # <<>> /\ pool' = Tail(pool)
    BY <1>1, <1>5 DEF TakeFront, At
  <2>2. Attentive' = Attentive \ {t} /\ t \in Attentive
    BY <1>1, <1>5 DEF TakeFront, Attentive, At
  <2>3. Len(pool') = Len(pool) - 1
    BY <1>1, <2>1
  <2>4. Len(pool) <= Cardinality(Attentive)
    BY <2>1 DEF NoLostWakeup, Attentive
  <2>5. Cardinality(Attentive') = Cardinality(Attentive) - 1
    BY <2>2, AttentiveFinite
  <2>6. QED
    BY <1>1, <2>3, <2>4, <2>5
<1>6. CASE Push(t)
  <2>1. At({"asleep"})' \subseteq At({"asleep"}) /\ pool' = Append(pool, held[t])
    BY <1>1, <1>6 DEF Push, At
  <2>2. Attentive' = Attentive \cup {t} /\ t \notin Attentive
    BY <1>1, <1>6 DEF Push, Attentive, At
  <2>3. Len(pool') = Len(pool) + 1
    BY <1>1, <2>1
  <2>4. Len(pool) <= Cardinality(Attentive)
    BY <2>1 DEF NoLostWakeup, Attentive
  <2>5. Cardinality(Attentive') = Cardinality(Attentive) + 1
    BY <2>2, AttentiveFinite
  <2>6. QED
    BY <1>1, <2>3, <2>4, <2>5
<1>7. CASE Notify(t)
  <2>1. pc[t] = "notify" /\ pool' = pool
    BY <1>7 DEF Notify
  <2>2. At({"asleep"}) # {}
    BY <1>1, <1>7 DEF Notify, At
  <2>3. PICK w \in At({"asleep"}) : pc' = [pc EXCEPT ![t] = "out", ![w] = "woken"]
    BY <1>7, <2>2 DEF Notify
  <2>4. w \in Threads /\ pc[w] = "asleep" /\ w # t
    BY <2>1, <2>3 DEF At
  <2>5. /\ Attentive' = (Attentive \ {t}) \cup {w}
        /\ t \in Attentive /\ w \notin Attentive \ {t}
    BY <1>1, <2>1, <2>3, <2>4 DEF Attentive, At
  <2>6. IsFiniteSet(Attentive \ {t})
    BY AttentiveFinite, FS_RemoveElement
  <2>7. Cardinality(Attentive') = Cardinality(Attentive \ {t}) + 1
    BY <2>5, <2>6, FS_AddElement
  <2>8. Cardinality(Attentive \ {t}) = Cardinality(Attentive) - 1
    BY <2>5, AttentiveFinite
  <2>9. Len(pool) <= Cardinality(Attentive)
    BY <2>2 DEF NoLostWakeup, Attentive
  <2>10. QED
    BY <1>1, <2>1, <2>7, <2>8, <2>9
<1>8. QED
  BY <1>2, <1>3, <1>4, <1>5, <1>6, <1>7 DEF Step

\* A thread that sleeps beside an idle connection is always about to be joined by
\* one that is awake and will take it (ConnectionPool.h:42-47, 53-55).
THEOREM WakeupsSuffice == Spec => []NoLostWakeup
<1>1. Init => NoLostWakeup
  BY DEF Init, NoLostWakeup, At
<1>2. ASSUME IInv, NoLostWakeup, [Next]_vars PROVE NoLostWakeup'
  <2>1. CASE UNCHANGED vars
    BY <1>2, <2>1 DEF vars, NoLostWakeup, At
  <2>2. QED
    BY <1>2, <2>1, WakeupStep DEF Next
<1>3. QED
  BY <1>1, <1>2, Invariance, PTL DEF Spec

-----------------------------------------------------------------------------
(* The service. *)

\* Where thread t is in the pool, by where it is in Login.
PoolPlace(t) ==
    /\ at[t] \in {"idle", "login"} => pc[t] = "out"
    /\ at[t] \in {"query", "endtxn", "release"} => pc[t] = "using"
    /\ at[t] = "acquire" => pc[t] \in {"acquire", "test", "asleep", "woken", "using"}
    /\ at[t] = "return" => pc[t] \in {"out", "release", "push", "notify"}

PlaceInv ==
    /\ at \in [Threads -> {"idle", "login", "acquire", "query", "endtxn",
                           "release", "return"}]
    /\ \A t \in Threads : PoolPlace(t)

\* A transaction belongs to a thread between its constructor and destructor.
TxnInv == \A c \in txn : \E t \in Threads : held[t] = c /\ at[t] \in {"query", "endtxn"}

\* The inductive invariant of the service, beside that of the pool.
LoginInv == PlaceInv /\ TxnInv

-----------------------------------------------------------------------------
\* Every step of the service is a step of the pool or leaves it alone.
LEMMA PoolStep == LoginNext => [Next]_vars
<1> SUFFICES ASSUME LoginNext PROVE [Next]_vars
  OBVIOUS
<1>1. CASE Construct \/ \E c \in Conns : ConnLost(c)
  BY <1>1 DEF Construct, ConnLost
<1>2. ASSUME NEW t \in Threads, Call(t) PROVE [Next]_vars
  BY <1>2 DEF Call
<1>3. ASSUME NEW t \in Threads, Login(t) PROVE [Next]_vars
  <2>1. CASE ReturnEarly(t) \/ BeginRead(t) \/ Query(t) \/ DatabaseThrows(t)
             \/ EndTransaction(t) \/ Reply(t)
    BY <2>1 DEF ReturnEarly, BeginRead, Query, DatabaseThrows, EndTransaction, Reply
  <2>2. CASE TakeConnection(t) \/ GiveBack(t) \/ InPool(t)
    BY <2>2 DEF TakeConnection, GiveBack, InPool, Next, Step
  <2>3. QED
    BY <1>3, <2>1, <2>2 DEF Login
<1>4. ASSUME NEW t \in Threads, Wake(t) PROVE [Next]_vars
  BY <1>4 DEF Wake, Next
<1>5. QED
  BY <1>1, <1>2, <1>3, <1>4 DEF LoginNext

\* What is proved of the pool for all its users holds with Login as its user
\* (UserService.h:46-48, ConnectionPool.h:64-82).
THEOREM LoginUsesPool == LoginSpec => Spec
<1>1. LoginInit => Init
  BY DEF LoginInit
<1>2. [LoginNext]_loginVars => [Next]_vars
  BY PoolStep DEF loginVars
<1>3. QED
  BY <1>1, <1>2, PTL DEF LoginSpec, Spec

-----------------------------------------------------------------------------
LEMMA LoginInitInv == LoginInit => LoginInv
  BY DEF LoginInit, Init, LoginInv, PlaceInv, PoolPlace, TxnInv

\* A step of Login outside the pool.
LEMMA OutsideStep ==
    ASSUME IInv, LoginInv, NEW t \in Threads,
           \/ Call(t) \/ ReturnEarly(t) \/ TakeConnection(t) \/ BeginRead(t)
           \/ Query(t) \/ DatabaseThrows(t) \/ EndTransaction(t) \/ GiveBack(t)
           \/ Reply(t)
    PROVE  LoginInv'
<1>1. /\ pc \in [Threads -> Positions]
      /\ at \in [Threads -> {"idle", "login", "acquire", "query", "endtxn",
                             "release", "return"}]
      /\ PoolPlace(t)
  BY DEF IInv, TypeOK, LoginInv, PlaceInv
<1>2. /\ UNCHANGED held
      /\ \A u \in Threads \ {t} : UNCHANGED <<at[u], pc[u]>>
  BY <1>1 DEF Call, ReturnEarly, TakeConnection, BeginRead, Query, DatabaseThrows,
              EndTransaction, GiveBack, Reply, Goto, Acquire, Release, vars
<1>3. /\ at' \in [Threads -> {"idle", "login", "acquire", "query", "endtxn",
                              "release", "return"}]
      /\ PoolPlace(t)'
  BY <1>1 DEF Call, ReturnEarly, TakeConnection, BeginRead, Query, DatabaseThrows,
              EndTransaction, GiveBack, Reply, Goto, Acquire, Release, vars, PoolPlace
<1>4. PlaceInv'
  <2>1. ASSUME NEW u \in Threads \ {t} PROVE PoolPlace(u)'
    BY <1>2 DEF LoginInv, PlaceInv, PoolPlace
  <2>2. QED
    BY <1>3, <2>1 DEF PlaceInv
<1>5. TxnInv'
  <2>1. CASE EndTransaction(t)
    <3>1. txn' = txn \ {held[t]}
      BY <2>1 DEF EndTransaction
    <3>2. QED
      BY <1>2, <3>1 DEF LoginInv, TxnInv
  <2>2. CASE BeginRead(t)
    <3>1. txn' = txn \cup {held[t]} /\ at'[t] = "query"
      BY <1>1, <2>2 DEF BeginRead, Goto
    <3>2. at[t] = "acquire"
      BY <2>2 DEF BeginRead
    <3>3. QED
      BY <1>2, <3>1, <3>2 DEF LoginInv, TxnInv
  <2>3. CASE Query(t) \/ DatabaseThrows(t)
    <3>1. txn' = txn /\ (at[t] = "query" => at'[t] = "endtxn") /\ at[t] # "endtxn"
      BY <1>1, <2>3 DEF Query, DatabaseThrows, Goto
    <3>2. QED
      BY <1>2, <3>1 DEF LoginInv, TxnInv
  <2>4. CASE Call(t) \/ ReturnEarly(t) \/ TakeConnection(t) \/ GiveBack(t) \/ Reply(t)
    <3>1. txn' = txn /\ at[t] \notin {"query", "endtxn"}
      BY <2>4 DEF Call, ReturnEarly, TakeConnection, GiveBack, Reply
    <3>2. QED
      BY <1>2, <3>1 DEF LoginInv, TxnInv
  <2>5. QED
    BY <2>1, <2>2, <2>3, <2>4
<1>6. QED
  BY <1>4, <1>5 DEF LoginInv

\* A step inside the pool: a thread with a transaction is not in it.
LEMMA InsideStep ==
    ASSUME IInv, LoginInv, NEW t \in Threads, InPool(t) \/ Wake(t)
    PROVE  LoginInv'
<1>1. /\ pc \in [Threads -> Positions] /\ held \in [Threads -> Conns \cup {None}]
      /\ UNCHANGED <<at, txn>>
  BY DEF IInv, TypeOK, InPool, Wake, serviceVars
<1>2. /\ pc[t] \notin {"out", "using"}
      /\ \A u \in Threads \ {t} : UNCHANGED held[u]
      /\ \A u \in Threads \ {t} : pc[u] # "asleep" => UNCHANGED pc[u]
      /\ \A u \in Threads \ {t} : pc[u] = "asleep" => pc'[u] \in {"asleep", "woken"}
  BY <1>1 DEF InPool, Wake, Lock, Sleep, TakeFront, LockToRelease, Push, Notify, At,
              SpuriousWakeup
<1>3. /\ pc[t] \in {"acquire", "test", "asleep", "woken"}
           => pc'[t] \in {"test", "asleep", "woken", "using"}
      /\ pc[t] \in {"release", "push", "notify"} => pc'[t] \in {"push", "notify", "out"}
  BY <1>1 DEF InPool, Wake, Lock, Sleep, TakeFront, LockToRelease, Push, Notify, At,
              SpuriousWakeup
<1>4. ASSUME NEW u \in Threads PROVE PoolPlace(u)'
  <2>1. PoolPlace(u)
    BY DEF LoginInv, PlaceInv
  <2>2. CASE u = t
    BY <1>1, <1>2, <1>3, <2>1, <2>2 DEF PoolPlace, Positions
  <2>3. CASE u # t
    BY <1>1, <1>2, <2>1, <2>3 DEF PoolPlace
  <2>4. QED
    BY <2>2, <2>3
<1>5. TxnInv'
  <2>1. at[t] \notin {"query", "endtxn"}
    BY <1>2 DEF LoginInv, PlaceInv, PoolPlace
  <2>2. QED
    BY <1>1, <1>2, <2>1 DEF LoginInv, TxnInv
<1>6. QED
  BY <1>1, <1>4, <1>5 DEF LoginInv, PlaceInv

\* LoginInv holds throughout.
THEOREM LoginInvariance == LoginSpec => [](IInv /\ LoginInv)
<1>1. ASSUME IInv, LoginInv, [LoginNext]_loginVars PROVE LoginInv'
  <2>1. CASE UNCHANGED loginVars
    BY <1>1, <2>1 DEF loginVars, serviceVars, vars, LoginInv, PlaceInv, PoolPlace, TxnInv
  <2>2. CASE Construct
    BY <1>1, <2>2 DEF Construct, vars, LoginInv, PlaceInv, PoolPlace, TxnInv
  <2>3. CASE \E c \in Conns : ConnLost(c)
    BY <1>1, <2>3 DEF ConnLost, vars, LoginInv, PlaceInv, PoolPlace, TxnInv
  <2>4. ASSUME NEW t \in Threads, Call(t) \/ Login(t) \/ Wake(t) PROVE LoginInv'
    BY <1>1, <2>4, OutsideStep, InsideStep DEF Login
  <2>5. QED
    BY <1>1, <2>1, <2>2, <2>3, <2>4 DEF LoginNext
<1>2. QED
  BY LoginInitInv, <1>1, LoginUsesPool, Invariance, PTL DEF LoginSpec

\* Whichever way Login is left, the transaction is over before the connection is
\* in the queue, and the thread has no connection left (UserService.h:46-65,
\* ConnectionPool.h:72-75).
THEOREM NothingLeftOpen == LoginSpec => []ConnectionsComeBackClean
<1>1. ASSUME IInv, LoginInv PROVE ConnectionsComeBackClean
  <2>1. ASSUME NEW c \in txn, c \in Idle PROVE FALSE
    <3>1. PICK t \in Threads : held[t] = c /\ at[t] \in {"query", "endtxn"}
      BY <1>1, <2>1 DEF LoginInv, TxnInv
    <3>2. held[t] # None
      BY <1>1, <3>1 DEF LoginInv, PlaceInv, PoolPlace, IInv, OwnInv, Owning
    <3>3. c \in Lent
      BY <3>1, <3>2 DEF Lent
    <3>4. QED
      BY <1>1, <2>1, <3>3 DEF IInv, EachConnectionInOnePlace
  <2>2. ASSUME NEW t \in Threads, at[t] = "idle" PROVE pc[t] = "out" /\ held[t] = None
    BY <1>1, <2>2 DEF LoginInv, PlaceInv, PoolPlace, IInv, OwnInv, Owning
  <2>3. QED
    BY <1>1, <2>1, <2>2 DEF ConnectionsComeBackClean, LoginInv, TxnInv
<1>2. QED
  BY LoginInvariance, <1>1, PTL

\* With Login as its user too, the pool never shares or loses a connection.
THEOREM ServiceSharesNoConnection == LoginSpec => []EachConnectionInOnePlace
  BY LoginUsesPool, NoConnectionLostOrShared, PTL

\* No thread in Login misses the wake-up it needs.
THEOREM ServiceLosesNoWakeup == LoginSpec => []NoLostWakeup
  BY LoginUsesPool, WakeupsSuffice, PTL

\* Seen from Login, the pool is a lease.
THEOREM ServiceLeases == LoginSpec => ImplementsLease
  BY LoginUsesPool, LeaseRefinement, PTL
=============================================================================
