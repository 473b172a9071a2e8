------------------------- MODULE BettingSystemProofs -------------------------
(***************************************************************************)
(* Proofs about the betting service in its surroundings: BetService, the   *)
(* process that starts and stops around any number of PlaceBet handlers,   *)
(* and DatabaseFiller, a second client of the same database.  Both rest on *)
(* the steps proved in BettingServerProofs.                                *)
(***************************************************************************)
EXTENDS BetService, DatabaseFiller, BettingServerProofs

USE BalanceAssumption, NoneAssumption, BatchAssumption, GrantsAssumption,
    FillerAssumption
USE DEF InTransaction, Ended, handlerVars, dbVars, mainVars

-----------------------------------------------------------------------------
(* The process. *)

\* A handler between its arrival and its end.
Running(c) == pc[c] \notin {"idle"} \cup Ended

\* Handlers run only while Serve does and GracefulStop has not returned.
ServedInv ==
    \A c \in Calls : Running(c) => main = "serving" /\ stopper \in {"waiting", "draining"}

\* The pool that main() has, by how far it has come.
PoolInv ==
    /\ main = "start" => dbPool = "none"
    /\ main \in {"listen", "serve", "serving"}
         => dbPool = IF noopMode THEN "nil" ELSE "open"
    /\ main = "close" => dbPool = "open"

\* With noopMode no handler gets past the first statement.
NoopInv == noopMode => \A c \in Calls : pc[c] \notin InTransaction

\* The inductive invariant of the process.
ProcessInv == ServiceTypeOK /\ ServedInv /\ PoolInv /\ NoopInv

-----------------------------------------------------------------------------
\* No process has begun, no handler runs.
LEMMA ServiceInitInv == ServiceInit => ProcessInv
  BY DEF ServiceInit, Init, ProcessInv, ServiceTypeOK, ServedInv, PoolInv, NoopInv, Running

\* The steps of main() and of the goroutine that waits for the signal.
LEMMA MainStep ==
    ASSUME ProcessInv, Main \/ Signal
    PROVE  ProcessInv'
<1>1. pc' = pc /\ noopMode' = noopMode
  BY DEF Main, Signal, OpenPool, Listen, Serve, ServeReturns, ClosePool, BeginDrain,
         EndDrain, vars
<1>2. \A c \in Calls : Running(c)' <=> Running(c)
  BY <1>1 DEF Running
<1>3. NoopInv'
  BY <1>1 DEF ProcessInv, NoopInv
<1>4. CASE OpenPool
  BY <1>1, <1>2, <1>3, <1>4 DEF OpenPool, Fatal, ProcessInv, ServiceTypeOK, ServedInv, PoolInv
<1>5. CASE Listen
  BY <1>1, <1>2, <1>3, <1>5 DEF Listen, Fatal, ProcessInv, ServiceTypeOK, ServedInv, PoolInv
<1>6. CASE Serve
  BY <1>1, <1>2, <1>3, <1>6 DEF Serve, Fatal, ProcessInv, ServiceTypeOK, ServedInv, PoolInv
<1>7. CASE ServeReturns
  BY <1>1, <1>2, <1>3, <1>7 DEF ServeReturns, ProcessInv, ServiceTypeOK, ServedInv, PoolInv
<1>8. CASE ClosePool
  BY <1>1, <1>2, <1>3, <1>8 DEF ClosePool, ProcessInv, ServiceTypeOK, ServedInv, PoolInv
<1>9. CASE BeginDrain
  BY <1>1, <1>2, <1>3, <1>9 DEF BeginDrain, ProcessInv, ServiceTypeOK, ServedInv, PoolInv
<1>10. CASE EndDrain
  BY <1>1, <1>2, <1>3, <1>10 DEF EndDrain, Busy, Running, ProcessInv, ServiceTypeOK, ServedInv,
         PoolInv
<1>11. CASE Signal
  BY <1>1, <1>2, <1>3, <1>11 DEF Signal, ProcessInv, ServiceTypeOK, ServedInv, PoolInv
<1>12. QED
  BY <1>4, <1>5, <1>6, <1>7, <1>8, <1>9, <1>10, <1>11 DEF Main

\* A handler that has not arrived or has ended does not run again by itself, and
\* only without noopMode does it enter a transaction.
LEMMA HandleStep ==
    ASSUME TypeOK, ProcessInv, NEW c \in Calls, Handle(c)
    PROVE  ProcessInv'
<1>1. /\ \A d \in Calls : Running(d)' => Running(d)
      /\ noopMode' = noopMode
      /\ noopMode => \A d \in Calls : pc'[d] \in InTransaction => pc[d] \in InTransaction
  <2>1. CASE Cancel(c) \/ ConnLost(c) \/ Backend(c)
    BY <2>1 DEF Cancel, ConnLost, Backend, BackendAborts, BackendCommits, Running
  <2>2. CASE PlaceBet(c)
    BY <2>2 DEF PlaceBet, NoopReply, Begin, BeginFails, SelectForUpdate, SelectNoRows,
           CheckBalance, UpdateBalance, InsertBet, StatementFails, ExecutedInVain, Executed,
           Commit, CommitFails, Rollback, Return, Goto, TypeOK, Running
  <2>3. QED
    BY <2>1, <2>2 DEF Handle
<1>2. UNCHANGED mainVars
  BY DEF Handle
<1>3. QED
  BY <1>1, <1>2 DEF ProcessInv, ServiceTypeOK, ServedInv, PoolInv, NoopInv

\* A call is let in by a serving process only.
LEMMA AcceptStep ==
    ASSUME TypeOK, ProcessInv, NEW c \in Calls, Accept(c)
    PROVE  ProcessInv'
<1>1. pc' = [pc EXCEPT ![c] = "begin"] /\ UNCHANGED <<noopMode, mainVars>>
  BY DEF Accept, Receive
<1>2. main = "serving" /\ stopper = "waiting"
  BY DEF Accept
<1>3. QED
  BY <1>1, <1>2 DEF TypeOK, ProcessInv, ServiceTypeOK, ServedInv, PoolInv, NoopInv, Running

\* When Serve fails the handlers end with the process.
LEMMA ServeFailsStep ==
    ASSUME ProcessInv, ServeFails
    PROVE  ProcessInv'
<1>1. /\ \A c \in Calls : pc'[c] \in {"idle"} \cup Ended
      /\ noopMode' = noopMode
  <2>1. CASE Crash
    BY <2>1 DEF Crash
  <2>2. CASE Busy = {} /\ UNCHANGED vars
    BY <2>2 DEF Busy, vars
  <2>3. QED
    BY <2>1, <2>2 DEF ServeFails
<1>2. QED
  BY <1>1 DEF ServeFails, Fatal, ProcessInv, ServiceTypeOK, ServedInv, PoolInv, NoopInv,
         Running

\* The process starts again without handlers.
LEMMA KillStep ==
    ASSUME ProcessInv, Kill
    PROVE  ProcessInv'
<1>1. /\ \A c \in Calls : pc'[c] \in {"idle"} \cup Ended
      /\ noopMode' = noopMode
  BY DEF Kill, Crash
<1>2. QED
  BY <1>1 DEF Kill, ProcessInv, ServiceTypeOK, ServedInv, PoolInv, NoopInv, Running

-----------------------------------------------------------------------------
\* The process, whatever its start-up and shutdown do, runs PlaceBet as
\* BettingServer describes it: all that is proved of Spec holds of the process.
THEOREM ServiceRunsPlaceBet == ServiceSpec => Spec
<1>1. ServiceInit => Init
  BY DEF ServiceInit
<1>2. ASSUME [ServiceNext]_serviceVars PROVE [Next]_vars
  <2>1. CASE Signal \/ Main
    BY <2>1 DEF Signal, Main, OpenPool, Listen, Serve, ServeReturns, ClosePool,
           BeginDrain, EndDrain
  <2>2. CASE Kill \/ ServeFails
    BY <2>2 DEF Kill, ServeFails, Next
  <2>3. ASSUME NEW c \in Calls, Accept(c) \/ Handle(c) PROVE Next
    BY <2>3 DEF Accept, Handle, Next
  <2>4. CASE UNCHANGED serviceVars
    BY <2>4 DEF serviceVars
  <2>5. QED
    BY <1>2, <2>1, <2>2, <2>3, <2>4 DEF ServiceNext
<1>3. QED
  BY <1>1, <1>2, PTL DEF ServiceSpec, Spec

\* ProcessInv holds from start-up on.
THEOREM ProcessInvariance == ServiceSpec => []ProcessInv
<1>1. ASSUME TypeOK, ProcessInv, [ServiceNext]_serviceVars PROVE ProcessInv'
  <2>1. CASE Signal \/ Main
    BY <1>1, <2>1, MainStep
  <2>2. CASE Kill \/ ServeFails
    BY <1>1, <2>2, KillStep, ServeFailsStep
  <2>3. ASSUME NEW c \in Calls, Accept(c) \/ Handle(c) PROVE ProcessInv'
    BY <1>1, <2>3, AcceptStep, HandleStep
  <2>4. CASE UNCHANGED serviceVars
    BY <1>1, <2>4 DEF serviceVars, vars, ProcessInv, ServiceTypeOK, ServedInv, PoolInv,
           NoopInv, Running
  <2>5. QED
    BY <1>1, <2>1, <2>2, <2>3, <2>4 DEF ServiceNext
<1>2. QED
  BY ServiceInitInv, ServiceRunsPlaceBet, TypeCorrect, <1>1, PTL DEF ServiceSpec

\* No handler meets a pool that is nil, not yet open or already closed
\* (main.go:24-32, server.go:28-33).
THEOREM PoolOutlivesHandlers == ServiceSpec => []PoolOpenWhileUsed
<1>1. ProcessInv => PoolOpenWhileUsed
  BY DEF ProcessInv, ServedInv, PoolInv, NoopInv, Running, PoolOpenWhileUsed
<1>2. QED
  BY ProcessInvariance, <1>1, PTL

\* When the deferred Close runs, every call has been answered and no transaction
\* is open (main.go:30, 42-51).
THEOREM DrainIsComplete == ServiceSpec => []DrainedBeforeExit
<1>1. ProcessInv /\ IInv => DrainedBeforeExit
  BY DEF ProcessInv, ServedInv, Running, Busy, IInv, CallInv, TxInv, DrainedBeforeExit
<1>2. QED
  BY ProcessInvariance, ServiceRunsPlaceBet, Invariance, <1>1, PTL

-----------------------------------------------------------------------------
(* The filler and the betting service on one database. *)

\* The types of what the filler works with.
FillerTypes ==
    /\ fill      \in {"idle", "insert", "update", "commit"}
    /\ connector \in {"open", "lost"}
    /\ work      \in TxStates
    /\ inserted  \in 0 .. BATCH
    /\ seeded    \in Nat
    /\ granted   \in [Users -> Grants \cup {None}]
    /\ topUps    \in [Users -> Seq(Grants)]

\* Nothing of a call is pending, or everything is.
Clean    == inserted = 0 /\ \A u \in Users : granted[u] = None
Complete == \/ inserted = BATCH /\ \A u \in Users : granted[u] = None
            \/ inserted = 0 /\ \A u \in Users : granted[u] # None

\* How far the filler's transaction has come agrees with how far the filler has,
\* and what can still commit is all of a call.
WorkInv ==
    /\ work = "open" => fill # "idle"
    /\ work \in {"orphan", "indoubt"} => connector = "lost"
    /\ work \in {"none", "committed", "aborted"} => Clean
    /\ work = "open" /\ fill = "insert" => \A u \in Users : granted[u] = None
    /\ work = "open" /\ fill = "update" => inserted = 0
    /\ (work = "open" /\ fill = "commit") \/ work = "indoubt" => Complete

\* A row that will go up is locked, so that no call relies on its balance.
GrantInv == \A u \in Users : granted[u] # None => lock[u] = Filler

\* What COMMIT has made of the calls so far.
DoneInv ==
    /\ \E k \in Nat : seeded = k * BATCH
    /\ \A u, v \in Users : Len(topUps[u]) = Len(topUps[v])

\* The inductive invariant of the filler and the betting service together.
FillerInv == CallInv /\ FillerTypes /\ WorkInv /\ GrantInv /\ DoneInv

-----------------------------------------------------------------------------
\* Before the first call nothing is pending.
LEMMA FillerInitInv == FillerInit => FillerInv /\ MoneyConserved
<1> SUFFICES ASSUME FillerInit PROVE FillerInv /\ MoneyConserved
  OBVIOUS
<1>1. CallInv
  BY InitInv DEF FillerInit, IInv
<1>2. FillerTypes /\ WorkInv /\ GrantInv
  BY DEF FillerInit, FillerTypes, WorkInv, GrantInv, Clean, TxStates
<1>3. DoneInv
  <2>1. 0 = 0 * BATCH
    OBVIOUS
  <2>2. QED
    BY <2>1 DEF FillerInit, DoneInv
<1>4. MoneyConserved
  <2>1. bets = <<>> /\ balance = InitBalance /\ topUps = [u \in Users |-> <<>>]
    BY DEF FillerInit, Init
  <2>2. ASSUME NEW u \in Users PROVE L!Staked(u) = 0 /\ L!Total(topUps[u]) = 0
    <3>1. L!Stakes(u) = <<>>
      BY <2>1 DEF L!Stakes
    <3>2. QED
      BY <2>1, <3>1, TotalEmpty DEF L!Staked
  <2>3. QED
    BY <2>1, <2>2 DEF MoneyConserved
<1>5. QED
  BY <1>1, <1>2, <1>3, <1>4 DEF FillerInv

\* A step of the betting service keeps what the filler relies on: it touches no
\* row lock of the filler.
LEMMA ServiceStep ==
    ASSUME FillerInv, Next, UNCHANGED fillerVars
    PROVE  FillerInv'
<1>1. CallInv'
  BY CallStep DEF FillerInv
<1>2. FillerTypes' /\ WorkInv' /\ DoneInv'
  BY DEF FillerInv, fillerVars, FillerTypes, WorkInv, DoneInv, Clean, Complete
<1>3. GrantInv'
  <2>1. \A u \in Users : lock[u] = Filler => lock'[u] = Filler
    BY LockStep DEF FillerInv, CallInv, CallsLock
  <2>2. QED
    BY <2>1 DEF FillerInv, GrantInv, fillerVars
<1>4. QED
  BY <1>1, <1>2, <1>3 DEF FillerInv

\* What a session does to row locks that no call holds, and to balances of rows
\* that no call has locked, leaves every call what it relies on.
LEMMA OtherSession ==
    ASSUME CallInv, UNCHANGED <<handlerVars, tx, writes, bets>>,
           lock' = [u \in Users |-> lock'[u]],
           \A u \in Users : lock[u] \in Calls => lock'[u] = lock[u],
           balance' \in [Users -> Int],
           \A u \in Users : balance'[u] >= balance[u],
           \A u \in Users : lock[u] \in Calls => balance'[u] = balance[u]
    PROVE  CallInv'
<1>1. Types'
  <2>1. bets' \in Seq(L!Row)
    BY DEF CallInv, Types
  <2>2. QED
    BY <2>1 DEF CallInv, Types
<1>2. TxInv' /\ ResultInv'
  BY DEF CallInv, TxInv, ResultInv
<1>3. RowInv'
  BY DEF CallInv, RowInv
<1>4. LockInv'
  BY DEF CallInv, LockInv, MayCommit
<1>5. NoOverdraft'
  BY DEF CallInv, Types, NoOverdraft
<1>6. QED
  BY <1>1, <1>2, <1>3, <1>4, <1>5 DEF CallInv

\* The steps of the filler that end no transaction.
LEMMA FillerStep ==
    ASSUME FillerInv,
           \/ testFillUsers \/ fillUpBalances \/ AllRowsDone \/ FillerLost
           \/ FillerThrows /\ work # "open"
    PROVE  FillerInv' /\ UNCHANGED <<balance, bets, topUps>>
<1>1. UNCHANGED <<balance, bets, topUps, seeded>>
  BY DEF testFillUsers, fillUpBalances, Call, InsertUser, UpdateRow, AllRowsDone, FillerLost,
         FillerThrows, vars
<1>2. DoneInv'
  BY <1>1 DEF FillerInv, DoneInv
<1>3. CASE \E u \in Users : UpdateRow(u)
  <2>1. PICK u \in Users : UpdateRow(u)
    BY <1>3
  <2>2. PICK g \in Grants : granted' = [granted EXCEPT ![u] = g]
    BY <2>1 DEF UpdateRow
  <2>3. lock' = [lock EXCEPT ![u] = Filler] /\ lock[u] = None
    BY <2>1 DEF UpdateRow
  <2>4. lock' = [v \in Users |-> lock'[v]]
    BY <2>3 DEF FillerInv, CallInv, Types
  <2>5. balance \in [Users -> Int] /\ \A v \in Users : balance[v] >= balance[v]
    BY DEF FillerInv, CallInv, Types
  <2>6. \A v \in Users : lock[v] \in Calls => lock'[v] = lock[v]
    BY <2>3 DEF FillerInv, CallInv, Types
  <2>7. CallInv'
    BY <2>1, <2>4, <2>5, <2>6, <1>1, OtherSession DEF FillerInv, UpdateRow
  <2>8. FillerTypes'
    BY <2>1, <2>2 DEF FillerInv, FillerTypes, UpdateRow
  <2>9. WorkInv'
    BY <2>1, <2>2 DEF FillerInv, FillerTypes, WorkInv, UpdateRow, Clean, Complete
  <2>10. GrantInv'
    BY <2>2, <2>3 DEF FillerInv, FillerTypes, CallInv, Types, GrantInv
  <2>11. QED
    BY <1>1, <1>2, <2>7, <2>8, <2>9, <2>10 DEF FillerInv
<1>4. CASE ~(\E u \in Users : UpdateRow(u))
  <2>1. UNCHANGED vars
    BY <1>4 DEF testFillUsers, fillUpBalances, Call, InsertUser, AllRowsDone, FillerLost,
         FillerThrows
  <2>2. CallInv'
    BY <2>1, StutterStep DEF FillerInv
  <2>3. granted' = granted /\ lock' = lock
    BY <1>4, <2>1 DEF testFillUsers, fillUpBalances, Call, InsertUser, AllRowsDone, FillerLost,
         FillerThrows, vars
  <2>4. GrantInv'
    BY <2>3 DEF FillerInv, GrantInv
  <2>5. CASE Call("insert") \/ Call("update")
    BY <1>1, <2>5, <1>2, <2>2, <2>3, <2>4 DEF Call, FillerInv, FillerTypes, WorkInv, Clean, Complete,
       TxStates
  <2>6. CASE InsertUser
    BY <1>1, <2>6, <1>2, <2>2, <2>3, <2>4 DEF InsertUser, FillerInv, FillerTypes, WorkInv, Clean,
       Complete
  <2>7. CASE AllRowsDone
    BY <1>1, <2>7, <1>2, <2>2, <2>3, <2>4 DEF AllRowsDone, FillerInv, FillerTypes, WorkInv, Clean,
       Complete
  <2>8. CASE FillerLost
    BY <1>1, <2>8, <1>2, <2>2, <2>3, <2>4 DEF FillerLost, FillerInv, FillerTypes, WorkInv, Clean,
       Complete, TxStates
  <2>9. CASE FillerThrows /\ work # "open"
    BY <1>1, <2>9, <1>2, <2>2, <2>3, <2>4 DEF FillerThrows, FillerInv, FillerTypes, WorkInv, Clean,
       Complete
  <2>10. QED
    BY <1>1, <1>4, <2>5, <2>6, <2>7, <2>8, <2>9 DEF testFillUsers, fillUpBalances
<1>5. QED
  BY <1>3, <1>4

\* The filler's transaction ends, one way or the other.
Ends(outcome) ==
    /\ EndWork(outcome)
    /\ fill' \in {fill, "idle"}
    /\ fill' = "idle" \/ work # "open"
    /\ UNCHANGED connector

\* Its row locks are gone, and with them what it was going to add.
LEMMA EndStep ==
    ASSUME FillerInv, NEW outcome \in {"committed", "aborted"}, Ends(outcome)
    PROVE  /\ lock' = [u \in Users |-> lock'[u]]
           /\ \A u \in Users : lock[u] \in Calls => lock'[u] = lock[u]
           /\ WorkInv' /\ GrantInv'
           /\ seeded' \in Nat /\ topUps' \in [Users -> Seq(Grants)] => FillerTypes'
<1> USE DEF Ends, EndWork
<1>1. lock' = [u \in Users |-> IF lock[u] = Filler THEN None ELSE lock[u]]
  BY DEF UnlockAll
<1>2. lock' = [u \in Users |-> lock'[u]] /\ \A u \in Users : lock[u] \in Calls => lock'[u] = lock[u]
  BY <1>1
<1>3. inserted' = 0 /\ granted' = [u \in Users |-> None]
  OBVIOUS
<1>4. WorkInv' /\ GrantInv'
  BY <1>3 DEF FillerInv, WorkInv, GrantInv, Clean
<1>5. 0 \in 0 .. BATCH
  OBVIOUS
<1>6. seeded' \in Nat /\ topUps' \in [Users -> Seq(Grants)] => FillerTypes'
  BY <1>3, <1>5 DEF FillerInv, FillerTypes, TxStates
<1>7. QED
  BY <1>2, <1>4, <1>6

\* A transaction that is rolled back leaves no trace.
LEMMA UndoStep ==
    ASSUME FillerInv, Undo, Ends("aborted")
    PROVE  FillerInv' /\ UNCHANGED <<balance, bets, topUps>>
<1>1. UNCHANGED <<handlerVars, tx, writes, bets, balance, seeded, topUps>>
  BY DEF Undo, EndWork
<1>2. balance \in [Users -> Int] /\ \A u \in Users : balance[u] >= balance[u]
  BY DEF FillerInv, CallInv, Types
<1>3. CallInv'
  BY <1>1, <1>2, EndStep, OtherSession DEF FillerInv
<1>4. FillerTypes' /\ WorkInv' /\ GrantInv'
  BY <1>1, EndStep DEF FillerInv, FillerTypes
<1>5. DoneInv'
  BY <1>1 DEF FillerInv, DoneInv
<1>6. QED
  BY <1>1, <1>3, <1>4, <1>5 DEF FillerInv

\* What a balance has gone up by can be added up.
LEMMA TopUpsAreInts == \A s \in Seq(Grants) : s \in Seq(Int)
<1> TAKE s \in Seq(Grants)
<1>1. Len(s) \in Nat /\ s \in [1 .. Len(s) -> Grants]
  OBVIOUS
<1>2. \A i \in 1 .. Len(s) : s[i] \in Grants
  BY <1>1
<1>3. \A g \in Grants : g \in Int
  <2>1. \A g \in Grants : g \in Nat
    BY Zenon
  <2>2. QED
    BY <2>1
<1>4. s \in [1 .. Len(s) -> Int]
  BY <1>1, <1>2, <1>3
<1>5. QED
  BY <1>1, <1>4

\* A transaction that commits has all of its call's work in it, and adds to
\* balances that no call of PlaceBet is working with.
LEMMA PublishStep ==
    ASSUME FillerInv, Publish, Ends("committed"),
           (work = "open" /\ fill = "commit") \/ work = "indoubt"
    PROVE  FillerInv' /\ (MoneyConserved => MoneyConserved')
<1>1. Complete
  BY DEF FillerInv, WorkInv
<1>2. UNCHANGED <<handlerVars, tx, writes, bets>>
  BY DEF Publish, EndWork
<1>3. /\ \A u \in Users : balance[u] \in Int /\ balance[u] >= 0
      /\ granted \in [Users -> Grants \cup {None}]
      /\ topUps \in [Users -> Seq(Grants)]
  BY DEF FillerInv, CallInv, Types, NoOverdraft, FillerTypes
<1>4. balance' = [u \in Users |-> IF granted[u] = None THEN balance[u]
                                  ELSE balance[u] + granted[u]]
  BY DEF Publish, ToppedUp
<1>5. topUps' = [u \in Users |-> IF granted[u] = None THEN topUps[u]
                                 ELSE Append(topUps[u], granted[u])]
  BY DEF Publish
<1>grants. \A u \in Users : granted[u] # None => granted[u] \in Nat
  BY <1>3
<1>6. ASSUME NEW u \in Users PROVE balance'[u] \in Int /\ balance'[u] >= balance[u]
  <2>1. balance[u] \in Int /\ balance[u] >= 0
    BY <1>3
  <2>2. CASE granted[u] = None
    BY <1>4, <2>1, <2>2
  <2>3. CASE granted[u] # None
    <3>1. granted[u] \in Nat /\ balance'[u] = balance[u] + granted[u]
      BY <1>4, <1>grants, <2>3
    <3>2. QED
      BY <2>1, <3>1
  <2>4. QED
    BY <2>2, <2>3
<1>7. \A u \in Users : lock[u] \in Calls => balance'[u] = balance[u]
  BY <1>4 DEF FillerInv, GrantInv
<1>8. balance' \in [Users -> Int]
  BY <1>4, <1>6
<1>9. CallInv'
  BY <1>2, <1>6, <1>7, <1>8, EndStep, OtherSession DEF FillerInv
<1>10. ASSUME NEW u \in Users
       PROVE  /\ topUps'[u] \in Seq(Grants)
              /\ Len(topUps'[u]) = Len(topUps[u]) + IF granted[u] = None THEN 0 ELSE 1
  <2>1. topUps[u] \in Seq(Grants) /\ granted[u] \in Grants \cup {None}
    BY <1>3
  <2>2. CASE granted[u] = None
    <3>1. topUps'[u] = topUps[u] /\ Len(topUps[u]) \in Nat
      BY <1>5, <2>1, <2>2
    <3>2. QED
      BY <2>1, <2>2, <3>1
  <2>3. CASE granted[u] # None
    <3>1. topUps'[u] = Append(topUps[u], granted[u]) /\ granted[u] \in Grants
      BY <1>5, <2>1, <2>3
    <3>2. QED
      BY <2>1, <2>3, <3>1
  <2>4. QED
    BY <2>2, <2>3
<1>11. topUps' \in [Users -> Seq(Grants)]
  BY <1>5, <1>10
<1>12. seeded' = seeded + inserted /\ inserted \in 0 .. BATCH /\ seeded \in Nat
  BY DEF Publish, FillerInv, FillerTypes
<1>13. FillerTypes' /\ WorkInv' /\ GrantInv'
  BY <1>11, <1>12, EndStep
<1>14. DoneInv'
  <2>1. \E k \in Nat : seeded' = k * BATCH
    <3>1. PICK k \in Nat : seeded = k * BATCH
      BY DEF FillerInv, DoneInv
    <3>2. seeded' = k * BATCH \/ seeded' = k * BATCH + BATCH
      BY <1>1, <1>12, <3>1 DEF Complete
    <3>3. k * BATCH + BATCH = (k + 1) * BATCH /\ k + 1 \in Nat
      OBVIOUS
    <3>4. QED
      BY <3>2, <3>3
  <2>2. \A u, v \in Users : Len(topUps'[u]) = Len(topUps'[v])
    <3>1. \A u, v \in Users : Len(topUps[u]) = Len(topUps[v])
      BY DEF FillerInv, DoneInv
    <3>2. \A u, v \in Users : granted[u] = None <=> granted[v] = None
      BY <1>1 DEF Complete
    <3>3. QED
      BY <1>10, <3>1, <3>2
  <2>3. QED
    BY <2>1, <2>2 DEF DoneInv
<1>15. FillerInv'
  BY <1>9, <1>13, <1>14 DEF FillerInv
<1>16. ASSUME MoneyConserved, NEW u \in Users
       PROVE  balance'[u] + L!Staked(u)' = InitBalance[u] + L!Total(topUps'[u])
  <2>1. L!Staked(u)' = L!Staked(u)
    BY <1>2 DEF L!Staked, L!Stakes
  <2>2. balance[u] + L!Staked(u) = InitBalance[u] + L!Total(topUps[u])
    BY <1>16 DEF MoneyConserved
  <2>3. CASE granted[u] = None
    BY <1>4, <1>5, <2>1, <2>2, <2>3
  <2>4. CASE granted[u] # None
    <3>1. granted[u] \in Int /\ balance[u] \in Int /\ InitBalance[u] \in Int
      BY <1>3, <1>grants, <2>4
    <3>2. topUps[u] \in Seq(Int)
      BY <1>3, TopUpsAreInts
    <3>3. L!Total(topUps'[u]) = L!Total(topUps[u]) + granted[u]
      BY <1>5, <2>4, <3>1, <3>2, TotalAppend
    <3>4. balance'[u] = balance[u] + granted[u]
      BY <1>4, <2>4
    <3>5. L!Staked(u) \in Int
      BY StakedType DEF FillerInv, CallInv
    <3>6. L!Total(topUps[u]) \in Int
      <4>1. PICK f : Sums(f, topUps[u], Len(topUps[u]))
        BY <3>2, SumsExist
      <4>2. QED
        BY <3>2, <4>1, TotalIsLast
    <3>7. QED
      BY <2>1, <2>2, <3>1, <3>3, <3>4, <3>5, <3>6
  <2>5. QED
    BY <2>3, <2>4
<1>17. QED
  BY <1>15, <1>16 DEF MoneyConserved

\* The inductive invariant holds, and no money is lost or made up, as balances
\* are topped up under running bets and either side fails anywhere
\* (DatabaseFiller.h:26-77, server.go:34-67).
THEOREM FillerInvariance == FillerSpec => [](FillerInv /\ MoneyConserved)
<1>1. ASSUME FillerInv, MoneyConserved, [FillerNext]_allVars
      PROVE  FillerInv' /\ MoneyConserved'
  <2>1. ASSUME FillerInv', UNCHANGED <<balance, bets, topUps>>
        PROVE  MoneyConserved'
    BY <1>1, <2>1 DEF MoneyConserved, L!Staked, L!Stakes
  <2>2. CASE Next /\ UNCHANGED fillerVars
    <3>1. FillerInv'
      BY <1>1, <2>2, ServiceStep
    <3>2. ASSUME NEW u \in Users
          PROVE  balance'[u] + L!Staked(u)' = InitBalance[u] + L!Total(topUps'[u])
      <4>1. topUps' = topUps
        BY <2>2 DEF fillerVars
      <4>2. balance'[u] + L!Staked(u)' = balance[u] + L!Staked(u)
        BY <1>1, <2>2, ConservationStep DEF FillerInv
      <4>3. QED
        BY <1>1, <4>1, <4>2 DEF MoneyConserved
    <3>3. QED
      BY <3>1, <3>2 DEF MoneyConserved
  <2>3. CASE testFillUsers \/ fillUpBalances \/ AllRowsDone \/ FillerLost
    BY <1>1, <2>1, <2>3, FillerStep
  <2>4. CASE FillerThrows
    <3>1. CASE work = "open"
      <4>1. Undo /\ Ends("aborted")
        BY <2>4, <3>1 DEF FillerThrows, Undo, Ends
      <4>2. QED
        BY <1>1, <2>1, <4>1, UndoStep
    <3>2. CASE work # "open"
      BY <1>1, <2>1, <2>4, <3>2, FillerStep
    <3>3. QED
      BY <3>1, <3>2
  <2>5. CASE FillerCommits
    <3>1. Publish /\ Ends("committed") /\ work = "open" /\ fill = "commit"
      BY <2>5 DEF FillerCommits, Publish, Ends
    <3>2. QED
      BY <1>1, <3>1, PublishStep
  <2>6. CASE FillerBackend
    <3>1. UNCHANGED <<fill, connector>>
      BY <2>6 DEF FillerBackend
    <3>2. CASE work \in {"orphan", "indoubt"} /\ Undo
      <4>1. Ends("aborted")
        BY <3>1, <3>2 DEF Undo, Ends
      <4>2. QED
        BY <1>1, <2>1, <3>2, <4>1, UndoStep
    <3>3. CASE work = "indoubt" /\ Publish
      <4>1. Ends("committed")
        BY <3>1, <3>3 DEF Publish, Ends
      <4>2. QED
        BY <1>1, <3>3, <4>1, PublishStep
    <3>4. QED
      BY <2>6, <3>2, <3>3 DEF FillerBackend
  <2>7. CASE UNCHANGED allVars
    <3>1. CallInv'
      BY <1>1, <2>7, StutterStep DEF FillerInv, allVars
    <3>2. UNCHANGED <<lock, balance, bets>> /\ UNCHANGED fillerVars
      BY <2>7 DEF allVars, vars
    <3>3. FillerTypes' /\ WorkInv' /\ GrantInv' /\ DoneInv'
      BY <1>1, <3>2 DEF FillerInv, fillerVars, FillerTypes, WorkInv, GrantInv, DoneInv, Clean,
         Complete
    <3>4. FillerInv'
      BY <3>1, <3>3 DEF FillerInv
    <3>5. QED
      BY <2>1, <3>2, <3>4 DEF fillerVars
  <2>8. QED
    BY <1>1, <2>2, <2>3, <2>4, <2>5, <2>6, <2>7 DEF FillerNext, Fill
<1>2. QED
  BY FillerInitInv, <1>1, PTL DEF FillerSpec

\* Neither a stake nor a top-up is lost, and none counts twice.
THEOREM TopUpsConserveMoney == FillerSpec => []MoneyConserved
  BY FillerInvariance, PTL

\* Whatever fails, a call of the filler has done all of its work or nothing
\* (DatabaseFiller.h:26-77).
THEOREM CallsAreAllOrNothing == FillerSpec => []AllOrNothing
<1>1. FillerInv => AllOrNothing
  <2>1. \A k \in Nat : (k * BATCH) % BATCH = 0
    OBVIOUS
  <2>2. QED
    BY <2>1 DEF FillerInv, DoneInv, AllOrNothing
<1>2. QED
  BY FillerInvariance, <1>1, PTL

\* Top-ups under running bets break none of what PlaceBet promises its clients:
\* its answers tell the truth and no balance becomes negative (server.go:38-67).
THEOREM PromisesUnderTopUps ==
    FillerSpec => [](SuccessIsRecorded /\ FailureIsUnrecorded /\ NoOverdraft)
<1>1. CallInv => SuccessIsRecorded /\ FailureIsUnrecorded /\ NoOverdraft
  BY DEF CallInv, ResultInv, RowInv, SuccessIsRecorded, FailureIsUnrecorded, L!Recorded
<1>2. FillerInv => CallInv
  BY DEF FillerInv
<1>3. QED
  BY FillerInvariance, <1>1, <1>2, PTL
=============================================================================
