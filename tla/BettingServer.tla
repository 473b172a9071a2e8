---------------------------- MODULE BettingServer ----------------------------
(***************************************************************************)
(* BettingServer.PlaceBet of Services/bet_service/server.go: the handler   *)
(* goroutines that gRPC starts, the pgx transaction each of them runs, and *)
(* the part of PostgreSQL those transactions rely on (row locks, commit,   *)
(* sessions that outlive their client).                                    *)
(*                                                                         *)
(* One handler is one element of Calls.  Each of its database statements   *)
(* is a step, because another handler, a cancelled context, a lost         *)
(* connection or the death of the process can come between any two.        *)
(* Amounts are integers (minor units of the currency).                     *)
(***************************************************************************)
EXTENDS Integers, Sequences, FiniteSets

CONSTANTS Calls,       \* PlaceBet invocations
          Users,       \* ids of the rows of table users
          UserIds,     \* ids a request may name
          Amounts,     \* stakes a request may name
          InitBalance, \* InitBalance[u]: users.balance at the start
          MaxConns,    \* connections pgxpool opens at most
          None         \* no holder, no response yet

ASSUME UsersAssumption    == Users \subseteq UserIds
ASSUME AmountsAssumption  == Amounts \subseteq Int
ASSUME BalanceAssumption  == InitBalance \in [Users -> Nat]
ASSUME MaxConnsAssumption == MaxConns \in Nat \ {0}
ASSUME NoneAssumption     == None \notin Calls

VARIABLES
    noopMode, \* the compile-time constant of server.go
    pc,       \* pc[c]: the statement of PlaceBet that c executes next
    req,      \* req[c]: its PlaceBetRequest
    ctxDone,  \* ctxDone[c]: its context is cancelled or past its deadline
    seen,     \* seen[c]: the Go local "balance"
    result,   \* result[c]: the response it returns, None before that
    tx,       \* tx[c]: state of its transaction in PostgreSQL
    writes,   \* writes[c]: tables its transaction has changed so far
    lock,     \* lock[u]: the transaction holding the lock on row u
    balance,  \* balance[u]: committed users.balance
    bets      \* committed rows of bets, in commit order

handlerVars == <<noopMode, pc, req, ctxDone, seen, result>>
dbVars      == <<tx, writes, lock, balance, bets>>
vars        == <<handlerVars, dbVars>>

L == INSTANCE BetLedger

\* Statements of PlaceBet during which its transaction owns a connection of
\* the pool: from a successful Begin to the deferred Rollback.
InTransaction == {"select", "check", "update", "insert", "commit", "rollback"}

\* A handler has returned, or died with its process.
Ended == {"done", "dead"}

Statements == {"idle", "begin"} \cup InTransaction \cup Ended

\* A transaction in PostgreSQL: an orphan has lost its client, one in doubt
\* has lost it with COMMIT under way.
TxStates == {"none", "open", "orphan", "indoubt", "committed", "aborted"}

\* The stages at which PlaceBet gives up, as the Error field tells them apart.
Stages == {"begin", "select", "insufficient", "update", "insert", "commit"}

Errors == Stages \cup {""}

\* PlaceBetResponse.
Response == [success : BOOLEAN, error : Errors, newBalance : Int]

Failure(stage) == [success |-> FALSE, error |-> stage, newBalance |-> 0]

Success(b) == [success |-> TRUE, error |-> "", newBalance |-> b]

\* PlaceBetRequest; event_id and outcome travel with the call and decide
\* nothing.
Request == [user : UserIds, amount : Amounts]

\* newBalance := balance - req.Amount
newBalance(c) == seen[c] - req[c].amount

Init ==
    /\ noopMode \in BOOLEAN
    /\ pc      = [c \in Calls |-> "idle"]
    /\ req     \in [Calls -> Request]
    /\ ctxDone = [c \in Calls |-> FALSE]
    /\ seen    = [c \in Calls |-> 0]
    /\ result  = [c \in Calls |-> None]
    /\ tx      = [c \in Calls |-> "none"]
    /\ writes  = [c \in Calls |-> {}]
    /\ lock    = [u \in Users |-> None]
    /\ balance = InitBalance
    /\ bets    = <<>>

-----------------------------------------------------------------------------
(* PostgreSQL, as PlaceBet uses it. *)

\* The transaction ends: whatever row locks it held are free again.
Unlock(c) == lock' = [u \in Users |-> IF lock[u] = c THEN None ELSE lock[u]]

Abort(c) ==
    /\ tx' = [tx EXCEPT ![c] = "aborted"]
    /\ Unlock(c)
    /\ UNCHANGED <<writes, balance, bets>>

\* COMMIT makes all of the transaction's changes visible at once.
Apply(c) ==
    /\ tx' = [tx EXCEPT ![c] = "committed"]
    /\ Unlock(c)
    /\ balance' = IF "users" \in writes[c]
                    THEN [balance EXCEPT ![req[c].user] = newBalance(c)]
                    ELSE balance
    /\ bets' = IF "bets" \in writes[c]
                 THEN Append(bets, L!Bet(c, req[c].user, req[c].amount))
                 ELSE bets
    /\ UNCHANGED writes

\* A session whose client is gone is rolled back once the server notices,
\* and one whose client is gone with COMMIT under way goes either way.
BackendAborts(c) ==
    /\ tx[c] \in {"orphan", "indoubt"}
    /\ Abort(c)
    /\ UNCHANGED handlerVars

BackendCommits(c) ==
    /\ tx[c] = "indoubt"
    /\ Apply(c)
    /\ UNCHANGED handlerVars

\* The connection breaks under a transaction, at any moment.
ConnLost(c) ==
    /\ tx[c] = "open"
    /\ tx' = [tx EXCEPT ![c] = "orphan"]
    /\ UNCHANGED <<handlerVars, writes, lock, balance, bets>>

-----------------------------------------------------------------------------
(* gRPC: a request arrives, its context ends early. *)

Receive(c) ==
    /\ pc[c] = "idle"
    /\ pc' = [pc EXCEPT ![c] = "begin"]
    /\ UNCHANGED <<noopMode, req, ctxDone, seen, result, dbVars>>

Cancel(c) ==
    /\ pc[c] \notin {"idle"} \cup Ended
    /\ ~ctxDone[c]
    /\ ctxDone' = [ctxDone EXCEPT ![c] = TRUE]
    /\ UNCHANGED <<noopMode, pc, req, seen, result, dbVars>>

-----------------------------------------------------------------------------
(* PlaceBet. *)

Goto(c, s) == pc' = [pc EXCEPT ![c] = s]

Return(c, r, s) ==
    /\ result' = [result EXCEPT ![c] = r]
    /\ Goto(c, s)

\* A statement can succeed: the connection is up and the context still live.
Usable(c) == tx[c] = "open" /\ ~ctxDone[c]

NoopReply(c) ==
    /\ noopMode
    /\ pc[c] = "begin"
    /\ Return(c, Success(1000), "done")
    /\ UNCHANGED <<noopMode, req, ctxDone, seen, dbVars>>

\* pool.Begin: waits for one of the pool's connections, then starts the
\* transaction on it.
Begin(c) ==
    /\ ~noopMode
    /\ pc[c] = "begin"
    /\ ~ctxDone[c]
    /\ Cardinality({d \in Calls : pc[d] \in InTransaction}) < MaxConns
    /\ tx' = [tx EXCEPT ![c] = "open"]
    /\ Goto(c, "select")
    /\ UNCHANGED <<noopMode, req, ctxDone, seen, result, writes, lock, balance, bets>>

\* No transaction, hence nothing deferred: PlaceBet returns straight away.
BeginFails(c) ==
    /\ ~noopMode
    /\ pc[c] = "begin"
    /\ Return(c, Failure("begin"), "done")
    /\ UNCHANGED <<noopMode, req, ctxDone, seen, dbVars>>

\* Variant: the balance is read without FOR UPDATE.
SelectWithoutLock(c) ==
    /\ pc[c] = "select"
    /\ Usable(c)
    /\ req[c].user \in Users
    /\ seen' = [seen EXCEPT ![c] = balance[req[c].user]]
    /\ Goto(c, "check")
    /\ UNCHANGED <<noopMode, req, ctxDone, result, tx, writes, lock, balance, bets>>

\* SELECT ... FOR UPDATE waits for the row lock and then reads the row as
\* last committed.
SelectForUpdate(c) ==
    /\ pc[c] = "select"
    /\ Usable(c)
    /\ req[c].user \in Users
    /\ lock[req[c].user] = None
    /\ lock' = [lock EXCEPT ![req[c].user] = c]
    /\ seen' = [seen EXCEPT ![c] = balance[req[c].user]]
    /\ Goto(c, "check")
    /\ UNCHANGED <<noopMode, req, ctxDone, result, tx, writes, balance, bets>>

\* Scan reports that there is no such row.
SelectNoRows(c) ==
    /\ pc[c] = "select"
    /\ Usable(c)
    /\ req[c].user \notin Users
    /\ Return(c, Failure("select"), "rollback")
    /\ UNCHANGED <<noopMode, req, ctxDone, seen, dbVars>>

\* Variant: the balance is not compared with the stake.
BalanceUnchecked(c) ==
    /\ pc[c] = "check"
    /\ Goto(c, "update")
    /\ UNCHANGED <<noopMode, req, ctxDone, seen, result, dbVars>>

CheckBalance(c) ==
    /\ pc[c] = "check"
    /\ IF seen[c] < req[c].amount
         THEN Return(c, Failure("insufficient"), "rollback")
         ELSE Goto(c, "update") /\ UNCHANGED result
    /\ UNCHANGED <<noopMode, req, ctxDone, seen, dbVars>>

\* Variant: UPDATE is sent through the pool instead of the transaction.
UpdateOutsideTransaction(c) ==
    /\ pc[c] = "update"
    /\ Usable(c)
    /\ balance' = [balance EXCEPT ![req[c].user] = newBalance(c)]
    /\ Goto(c, "insert")
    /\ UNCHANGED <<noopMode, req, ctxDone, seen, result, tx, writes, lock, bets>>

\* UPDATE takes the row lock itself when the transaction does not have it.
UpdateBalance(c) ==
    /\ pc[c] = "update"
    /\ Usable(c)
    /\ lock[req[c].user] \in {None, c}
    /\ lock' = [lock EXCEPT ![req[c].user] = c]
    /\ writes' = [writes EXCEPT ![c] = @ \cup {"users"}]
    /\ Goto(c, "insert")
    /\ UNCHANGED <<noopMode, req, ctxDone, seen, result, tx, balance, bets>>

InsertBet(c) ==
    /\ pc[c] = "insert"
    /\ Usable(c)
    /\ writes' = [writes EXCEPT ![c] = @ \cup {"bets"}]
    /\ Goto(c, "commit")
    /\ UNCHANGED <<noopMode, req, ctxDone, seen, result, tx, lock, balance, bets>>

\* A statement returns an error: rejected by the server, the connection
\* broken or the context done.
StatementFails(c) ==
    /\ pc[c] \in {"select", "update", "insert"}
    /\ Return(c, Failure(pc[c]), "rollback")
    /\ UNCHANGED <<noopMode, req, ctxDone, seen, dbVars>>

\* What the session has done when it has executed the statement of c.
Executed(c) ==
    \/ /\ pc[c] \in {"select", "update"}
       /\ req[c].user \in Users
       /\ lock[req[c].user] \in {None, c}
       /\ lock' = [lock EXCEPT ![req[c].user] = c]
       /\ writes' = IF pc[c] = "update" THEN [writes EXCEPT ![c] = @ \cup {"users"}]
                                        ELSE writes
    \/ /\ pc[c] = "insert"
       /\ writes' = [writes EXCEPT ![c] = @ \cup {"bets"}]
       /\ UNCHANGED lock

\* A statement is executed and yet returns an error: its answer is lost, comes
\* after the context is done, or cannot be scanned.  The lock and the change it
\* made stay with the transaction until that ends.
ExecutedInVain(c) ==
    /\ tx[c] \in {"open", "orphan"}
    /\ Executed(c)
    /\ Return(c, Failure(pc[c]), "rollback")
    /\ UNCHANGED <<noopMode, req, ctxDone, seen, tx, balance, bets>>

\* Commit also hands the connection back, and closes the transaction, so
\* that the deferred Rollback has nothing left to do.
Commit(c) ==
    /\ pc[c] = "commit"
    /\ Usable(c)
    /\ Apply(c)
    /\ Return(c, Success(newBalance(c)), "done")
    /\ UNCHANGED <<noopMode, req, ctxDone, seen>>

\* Variant: the error of Commit is not looked at.
CommitErrorIgnored(c) ==
    /\ pc[c] = "commit"
    /\ tx' = [tx EXCEPT ![c] = IF @ = "open" THEN "indoubt" ELSE @]
    /\ Return(c, Success(newBalance(c)), "done")
    /\ UNCHANGED <<noopMode, req, ctxDone, seen, writes, lock, balance, bets>>

\* Commit returns an error.  If the connection was up, COMMIT may have been
\* sent and its answer lost.
CommitFails(c) ==
    /\ pc[c] = "commit"
    /\ tx' = [tx EXCEPT ![c] = IF @ = "open" THEN "indoubt" ELSE @]
    /\ Return(c, Failure("commit"), "done")
    /\ UNCHANGED <<noopMode, req, ctxDone, seen, writes, lock, balance, bets>>

\* Variant: nothing is deferred.
NoDeferredRollback(c) ==
    /\ pc[c] = "rollback"
    /\ Goto(c, "done")
    /\ UNCHANGED <<noopMode, req, ctxDone, seen, result, dbVars>>

\* Variant: Commit is deferred instead of Rollback.
DeferredCommit(c) ==
    /\ pc[c] = "rollback"
    /\ Goto(c, "done")
    /\ IF Usable(c) THEN Apply(c) ELSE UNCHANGED dbVars
    /\ UNCHANGED <<noopMode, req, ctxDone, seen, result>>

\* The deferred Rollback runs with the request's own context.  When that is
\* done, or the connection broken, pgx drops the connection instead, and the
\* transaction is left to the server.
Rollback(c) ==
    /\ pc[c] = "rollback"
    /\ Goto(c, "done")
    /\ \/ /\ Usable(c)
          /\ Abort(c)
       \/ /\ ~Usable(c)
          /\ tx' = [tx EXCEPT ![c] = IF @ = "open" THEN "orphan" ELSE @]
          /\ UNCHANGED <<writes, lock, balance, bets>>
    /\ UNCHANGED <<noopMode, req, ctxDone, seen, result>>

\* The process dies and is started again: every running handler is gone, and
\* with it the client end of its transaction.
Crash ==
    /\ \E c \in Calls : pc[c] \notin {"idle"} \cup Ended
    /\ pc' = [c \in Calls |-> IF pc[c] \in {"idle"} \cup Ended
                                THEN pc[c] ELSE "dead"]
    /\ tx' = [c \in Calls |->
                CASE tx[c] = "open" /\ pc[c] = "commit" -> "indoubt"
                  [] tx[c] = "open" /\ pc[c] # "commit" -> "orphan"
                  [] OTHER -> tx[c]]
    /\ UNCHANGED <<noopMode, req, ctxDone, seen, result, writes, lock, balance, bets>>

-----------------------------------------------------------------------------
PlaceBet(c) ==
    \/ NoopReply(c)
    \/ Begin(c) \/ BeginFails(c)
    \/ SelectForUpdate(c) \/ SelectNoRows(c)
    \/ CheckBalance(c)
    \/ UpdateBalance(c)
    \/ InsertBet(c)
    \/ StatementFails(c) \/ ExecutedInVain(c)
    \/ Commit(c) \/ CommitFails(c)
    \/ Rollback(c)

Backend(c) == BackendAborts(c) \/ BackendCommits(c)

Next ==
    \/ \E c \in Calls : \/ Receive(c) \/ Cancel(c)
                        \/ PlaceBet(c)
                        \/ ConnLost(c) \/ Backend(c)
    \/ Crash

Spec == Init /\ [][Next]_vars
\* The handler runs on as long as nothing stops it.  An error that has a
\* cause is reported; one without a cause need not happen.  PostgreSQL notices
\* lost clients.  Waiters for a connection and for a row lock are queued, so
\* they are served when their turn keeps coming.
Broken(c) == ctxDone[c] \/ tx[c] # "open"

Fairness ==
    \A c \in Calls :
        /\ WF_vars(NoopReply(c) \/ CheckBalance(c) \/ Rollback(c))
        /\ WF_vars(SelectNoRows(c) \/ UpdateBalance(c) \/ InsertBet(c) \/ Commit(c))
        /\ WF_vars(ctxDone[c] /\ BeginFails(c))
        /\ WF_vars(Broken(c) /\ (StatementFails(c) \/ CommitFails(c)))
        /\ WF_vars(Backend(c))
        /\ SF_vars(Begin(c))
        /\ SF_vars(SelectForUpdate(c))

FairSpec == Spec /\ Fairness

-----------------------------------------------------------------------------
(* Properties. *)

\* Every variable keeps its type; in particular a response is one of the
\* literals PlaceBet returns.
TypeOK ==
    /\ noopMode \in BOOLEAN
    /\ pc      \in [Calls -> Statements]
    /\ req     \in [Calls -> Request]
    /\ ctxDone \in [Calls -> BOOLEAN]
    /\ seen    \in [Calls -> Int]
    /\ result  \in [Calls -> {None} \cup Response]
    /\ tx      \in [Calls -> TxStates]
    /\ writes  \in [Calls -> SUBSET {"users", "bets"}]
    /\ lock    \in [Users -> Calls \cup {None}]
    /\ balance \in [Users -> Int]
    /\ bets    \in Seq(L!Row)

\* Money is conserved: what a user has left and what the table bets says the
\* user staked always add up to the initial balance.  Lost updates between
\* concurrent PlaceBet calls, or a commit that loses one of the two writes,
\* would break it.
Conservation == \A u \in Users : balance[u] + L!Staked(u) = InitBalance[u]

\* The check of server.go:46 is made on a value that is still the balance when
\* the transaction commits: no interleaving drives a balance below zero.
NoOverdraft == \A u \in Users : balance[u] >= 0

\* No row of bets strictly between i and j is one of user u.
NoneBetween(u, i, j) == \A k \in i+1 .. j-1 : bets[k].user # u

\* The balances PlaceBet works out form one chain per user in commit order:
\* each bet starts from the balance the user's previous bet left behind, and
\* the last one is the balance now stored.  So every NewBalance that is
\* reported is what a serial execution would have reported.
BalancesChain ==
    \A u \in Users :
      /\ \A j \in DOMAIN bets : bets[j].user = u =>
           /\ NoneBetween(u, 0, j) => seen[bets[j].call] = InitBalance[u]
           /\ \A i \in 1 .. j-1 :
                bets[i].user = u /\ NoneBetween(u, i, j)
                  => seen[bets[j].call] = newBalance(bets[i].call)
           /\ NoneBetween(u, j, Len(bets) + 1)
                => balance[u] = newBalance(bets[j].call)
      /\ NoneBetween(u, 0, Len(bets) + 1) => balance[u] = InitBalance[u]

\* A client that is told Success = TRUE has its bet in the table, whatever
\* happens to the connection, the context or the process.
SuccessIsRecorded ==
    ~noopMode =>
      \A c \in Calls : result[c] # None /\ result[c].success => L!Recorded(c)

\* A client that is told Success = FALSE has no bet in the table and will not
\* get one later, unless the error came from COMMIT itself, whose outcome
\* PlaceBet does not know.
FailureIsUnrecorded ==
    \A c \in Calls :
        /\ result[c] # None
        /\ ~result[c].success
        /\ result[c].error # "commit"
        => ~L!Recorded(c) /\ tx[c] \notin {"indoubt", "committed"}

\* The statements of PlaceBet, however interleaved and interrupted, change
\* the database the way the one-step ledger does.
ImplementsLedger == L!Spec

\* Every call that reaches PlaceBet gets its answer (or dies with the process):
\* no set of handlers blocks itself on the pool or on row locks.
EveryCallReturns == \A c \in Calls : pc[c] = "begin" ~> pc[c] \in Ended

\* No row stays locked for good, also when the handler that locked it has
\* already returned and left the transaction behind.
RowsGetUnlocked == \A u \in Users : []<>(lock[u] = None)
=============================================================================
