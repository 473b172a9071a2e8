------------------------- MODULE BettingServerProofs -------------------------
(***************************************************************************)
(* Proofs about BettingServer, for any number of calls, users, connections *)
(* and any stakes.                                                         *)
(***************************************************************************)
EXTENDS BettingServer, WellFoundedInduction, TLAPS

\* The transaction of c can still commit.
MayCommit(c) ==
    \/ tx[c] = "open" /\ pc[c] \in {"check", "update", "insert", "commit"}
    \/ tx[c] = "indoubt"

\* How far the transaction has come agrees with how far the handler has.
TxInv ==
    \A c \in Calls :
        /\ pc[c] \in {"idle", "begin"} => tx[c] = "none" /\ writes[c] = {}
        /\ pc[c] \in InTransaction => tx[c] \in {"open", "orphan", "aborted"}
        /\ pc[c] \in {"select", "check", "update"} => writes[c] = {}
        /\ pc[c] = "insert" => writes[c] = {"users"}
        /\ pc[c] = "commit" => writes[c] = {"users", "bets"}
        /\ tx[c] = "open" => pc[c] \in InTransaction
        /\ tx[c] = "indoubt" => pc[c] \in Ended /\ writes[c] = {"users", "bets"}

\* What PlaceBet read is still true when it acts on it: the row lock is held,
\* the row is unchanged, and the stake was found to be covered.
LockInv ==
    \A c \in Calls :
        /\ MayCommit(c) => /\ req[c].user \in Users
                           /\ lock[req[c].user] = c
                           /\ seen[c] = balance[req[c].user]
        /\ pc[c] \in {"update", "insert", "commit"} \/ tx[c] = "indoubt"
             => seen[c] >= req[c].amount

\* A row of bets stands for exactly one committed transaction.
RowInv ==
    /\ \A i \in DOMAIN bets :
         /\ tx[bets[i].call] = "committed"
         /\ bets[i].user = req[bets[i].call].user
         /\ bets[i].amount = req[bets[i].call].amount
    /\ \A c \in Calls : tx[c] = "committed" => \E i \in DOMAIN bets : bets[i].call = c

\* What a handler has answered agrees with where its transaction can still go.
ResultInv ==
    \A c \in Calls :
        /\ pc[c] \in {"idle", "begin", "select", "check", "update", "insert", "commit"}
             => result[c] = None
        /\ result[c] # None /\ result[c].success /\ ~noopMode => tx[c] = "committed"
        /\ result[c] # None /\ ~result[c].success /\ result[c].error # "commit"
             => tx[c] \notin {"indoubt", "committed"}

\* The types of what the handlers and their transactions work with.  A row lock
\* may be held by any session, also by one that is no call of PlaceBet.
Types ==
    /\ pc      \in [Calls -> Statements]
    /\ req     \in [Calls -> Request]
    /\ ctxDone \in [Calls -> BOOLEAN]
    /\ seen    \in [Calls -> Int]
    /\ result  \in [Calls -> {None} \cup Response]
    /\ tx      \in [Calls -> TxStates]
    /\ writes  \in [Calls -> SUBSET {"users", "bets"}]
    /\ lock    = [u \in Users |-> lock[u]]
    /\ balance \in [Users -> Int]
    /\ bets    \in Seq(L!Row)

\* What every step of PlaceBet keeps, whoever else works on the tables.
CallInv == Types /\ TxInv /\ LockInv /\ RowInv /\ ResultInv /\ NoOverdraft

\* The inductive invariant.
IInv == CallInv /\ TypeOK

-----------------------------------------------------------------------------
USE UsersAssumption, AmountsAssumption, BalanceAssumption, NoneAssumption
USE DEF InTransaction, Ended, handlerVars, dbVars

\* Every refusal of PlaceBet is a PlaceBetResponse with its own stage as the error.
LEMMA FailureResponse ==
    ASSUME NEW stage \in Stages
    PROVE  /\ Failure(stage) \in Response
           /\ ~Failure(stage).success
           /\ Failure(stage).error = stage
<1>1. Failure(stage) \in Response
  <2>1. stage \in Errors
    BY DEF Errors
  <2>2. FALSE \in BOOLEAN
    BY Zenon
  <2>3. QED
    BY <2>1, <2>2 DEF Failure, Response
<1>2. Failure(stage).success = FALSE /\ Failure(stage).error = stage
  BY DEF Failure
<1>3. QED
  BY <1>1, <1>2

\* The answer of a bet that went through is a PlaceBetResponse.
LEMMA SuccessResponse ==
    \A b \in Int : Success(b) \in Response /\ Success(b).success
  BY DEF Success, Response, Errors

\* The types of the fields of a PlaceBetRequest.
LEMMA RequestType == \A r \in Request : r.user \in UserIds /\ r.amount \in Int
  BY DEF Request

\* The invariant holds before anything has run.
LEMMA InitInv == Init => IInv
  BY DEF Init, IInv, CallInv, Types, TypeOK, TxInv, LockInv, RowInv, ResultInv, NoOverdraft, MayCommit, Statements, TxStates

\* Each row of bets was written by one of the calls.
LEMMA RowCall == Types => \A i \in DOMAIN bets : bets[i].call \in Calls
<1>1. \A r \in L!Row : r.call \in Calls
  BY DEF L!Row
<1>2. Types => \A i \in DOMAIN bets : bets[i] \in L!Row
  BY DEF Types
<1>3. QED
  BY <1>1, <1>2

\* What RowInv says concerns only committed transactions.
LEMMA RowsUnchanged ==
    ASSUME RowInv, Types, UNCHANGED <<req, bets>>,
           \A d \in Calls : (tx'[d] = "committed") <=> (tx[d] = "committed")
    PROVE  RowInv'
  BY RowCall DEF RowInv

\* The steps of a handler that end no transaction.
LEMMA HandlerStep ==
    ASSUME CallInv, NEW c \in Calls,
           \/ Receive(c) \/ Cancel(c) \/ NoopReply(c) \/ Begin(c) \/ BeginFails(c)
           \/ SelectForUpdate(c) \/ SelectNoRows(c) \/ CheckBalance(c)
           \/ UpdateBalance(c) \/ InsertBet(c) \/ StatementFails(c)
           \/ ExecutedInVain(c) \/ CommitFails(c) \/ ConnLost(c)
    PROVE  CallInv'
<1>1. UNCHANGED <<noopMode, req, balance, bets>>
  BY DEF Receive, Cancel, NoopReply, Begin, BeginFails, SelectForUpdate,
         SelectNoRows, CheckBalance, UpdateBalance, InsertBet, StatementFails,
         ExecutedInVain, CommitFails, ConnLost
<1>2. \A d \in Calls : (tx'[d] = "committed") <=> (tx[d] = "committed")
  <2>1. CASE Begin(c) \/ CommitFails(c) \/ ConnLost(c)
    BY <2>1 DEF Begin, CommitFails, ConnLost, CallInv, Types, TxInv
  <2>2. CASE ~(Begin(c) \/ CommitFails(c) \/ ConnLost(c))
    BY <2>2 DEF Receive, Cancel, NoopReply, BeginFails, SelectForUpdate,
           SelectNoRows, CheckBalance, UpdateBalance, InsertBet, StatementFails,
           ExecutedInVain
  <2>3. QED
    BY <2>1, <2>2
<1>3. RowInv'
  BY <1>1, <1>2, RowsUnchanged DEF CallInv
<1>4. NoOverdraft'
  BY <1>1 DEF CallInv, NoOverdraft
<1>5. CASE Receive(c)
  <2> USE <1>5 DEF Receive
  <2>1. Types'
    BY DEF CallInv, Types, Statements
  <2>2. TxInv'
    BY DEF CallInv, Types, TxInv
  <2>3. LockInv'
    BY RequestType DEF CallInv, Types, TxInv, LockInv, MayCommit
  <2>4. ResultInv'
    BY DEF CallInv, Types, TxInv, ResultInv
  <2>5. QED
    BY <1>3, <1>4, <2>1, <2>2, <2>3, <2>4 DEF CallInv
<1>6. CASE Cancel(c)
  <2> USE <1>6 DEF Cancel
  <2>1. Types'
    BY DEF CallInv, Types
  <2>2. TxInv'
    BY DEF CallInv, Types, TxInv
  <2>3. LockInv'
    BY RequestType DEF CallInv, Types, TxInv, LockInv, MayCommit
  <2>4. ResultInv'
    BY DEF CallInv, Types, TxInv, ResultInv
  <2>5. QED
    BY <1>3, <1>4, <2>1, <2>2, <2>3, <2>4 DEF CallInv
<1>7. CASE NoopReply(c)
  <2> USE <1>7 DEF NoopReply, Goto, Return
  <2>1. Types'
    BY SuccessResponse DEF CallInv, Types, Statements
  <2>2. TxInv'
    BY DEF CallInv, Types, TxInv
  <2>3. LockInv'
    BY RequestType DEF CallInv, Types, TxInv, LockInv, MayCommit
  <2>4. ResultInv'
    BY SuccessResponse DEF CallInv, Types, TxInv, ResultInv
  <2>5. QED
    BY <1>3, <1>4, <2>1, <2>2, <2>3, <2>4 DEF CallInv
<1>8. CASE Begin(c)
  <2> USE <1>8 DEF Begin, Goto
  <2>1. Types'
    BY DEF CallInv, Types, Statements, TxStates
  <2>2. TxInv'
    BY DEF CallInv, Types, TxInv
  <2>3. LockInv'
    BY RequestType DEF CallInv, Types, TxInv, LockInv, MayCommit
  <2>4. ResultInv'
    BY DEF CallInv, Types, TxInv, ResultInv
  <2>5. QED
    BY <1>3, <1>4, <2>1, <2>2, <2>3, <2>4 DEF CallInv
<1>9. CASE BeginFails(c)
  <2> USE <1>9 DEF BeginFails, Goto, Return
  <2>1. Types'
    BY FailureResponse DEF CallInv, Types, Statements, Stages
  <2>2. TxInv'
    BY DEF CallInv, Types, TxInv
  <2>3. LockInv'
    BY RequestType DEF CallInv, Types, TxInv, LockInv, MayCommit
  <2>4. ResultInv'
    BY FailureResponse DEF CallInv, Types, TxInv, ResultInv, Stages
  <2>5. QED
    BY <1>3, <1>4, <2>1, <2>2, <2>3, <2>4 DEF CallInv
<1>10. CASE SelectForUpdate(c)
  <2> USE <1>10 DEF SelectForUpdate, Goto, Usable
  <2>1. Types'
    BY DEF CallInv, Types, Statements
  <2>2. TxInv'
    BY DEF CallInv, Types, TxInv
  <2>3. LockInv'
    BY RequestType DEF CallInv, Types, TxInv, LockInv, MayCommit
  <2>4. ResultInv'
    BY DEF CallInv, Types, TxInv, ResultInv
  <2>5. QED
    BY <1>3, <1>4, <2>1, <2>2, <2>3, <2>4 DEF CallInv
<1>11. CASE SelectNoRows(c)
  <2> USE <1>11 DEF SelectNoRows, Goto, Return, Usable
  <2>1. Types'
    BY FailureResponse DEF CallInv, Types, Statements, Stages
  <2>2. TxInv'
    BY DEF CallInv, Types, TxInv
  <2>3. LockInv'
    BY RequestType DEF CallInv, Types, TxInv, LockInv, MayCommit
  <2>4. ResultInv'
    BY FailureResponse DEF CallInv, Types, TxInv, ResultInv, Stages
  <2>5. QED
    BY <1>3, <1>4, <2>1, <2>2, <2>3, <2>4 DEF CallInv
<1>12. CASE CheckBalance(c)
  <2>1. CASE seen[c] < req[c].amount
    <3> USE <1>12, <2>1 DEF CheckBalance, Goto, Return
    <3>1. Failure("insufficient") \in Response
      BY FailureResponse DEF Stages
    <3>2. result' \in [Calls -> {None} \cup Response]
      BY <3>1 DEF CallInv, Types
    <3>3. pc' \in [Calls -> Statements]
      BY DEF CallInv, Types, Statements
    <3>4. Types'
      BY <3>2, <3>3 DEF CallInv, Types
    <3>5. TxInv'
      BY DEF CallInv, Types, TxInv
    <3>6. LockInv'
      BY RequestType DEF CallInv, Types, TxInv, LockInv, MayCommit
    <3>7. /\ tx[c] \notin {"indoubt", "committed"} /\ tx' = tx
          /\ pc' = [pc EXCEPT ![c] = "rollback"]
          /\ result' = [result EXCEPT ![c] = Failure("insufficient")]
          /\ ~Failure("insufficient").success
      BY FailureResponse DEF CallInv, TxInv, Stages
    <3>8. ResultInv'
      BY <3>7 DEF CallInv, Types, ResultInv
    <3>9. QED
      BY <1>3, <1>4, <3>4, <3>5, <3>6, <3>8 DEF CallInv
  <2>2. CASE ~(seen[c] < req[c].amount)
    <3> USE <1>12, <2>2 DEF CheckBalance, Goto
    <3>1. Types'
      BY DEF CallInv, Types, Statements
    <3>2. TxInv'
      BY DEF CallInv, Types, TxInv
    <3>3. LockInv'
      BY RequestType DEF CallInv, Types, TxInv, LockInv, MayCommit
    <3>4. ResultInv'
      BY DEF CallInv, Types, ResultInv
    <3>5. QED
      BY <1>3, <1>4, <3>1, <3>2, <3>3, <3>4 DEF CallInv
  <2>3. QED
    BY <2>1, <2>2
<1>13. CASE UpdateBalance(c)
  <2> USE <1>13 DEF UpdateBalance, Goto, Usable
  <2>1. Types'
    BY DEF CallInv, Types, Statements
  <2>2. TxInv'
    BY DEF CallInv, Types, TxInv
  <2>3. LockInv'
    BY RequestType DEF CallInv, Types, TxInv, LockInv, MayCommit
  <2>4. ResultInv'
    BY DEF CallInv, Types, TxInv, ResultInv
  <2>5. QED
    BY <1>3, <1>4, <2>1, <2>2, <2>3, <2>4 DEF CallInv
<1>14. CASE InsertBet(c)
  <2> USE <1>14 DEF InsertBet, Goto, Usable
  <2>1. Types'
    BY DEF CallInv, Types, Statements
  <2>2. TxInv'
    BY DEF CallInv, Types, TxInv
  <2>3. LockInv'
    BY RequestType DEF CallInv, Types, TxInv, LockInv, MayCommit
  <2>4. ResultInv'
    BY DEF CallInv, Types, TxInv, ResultInv
  <2>5. QED
    BY <1>3, <1>4, <2>1, <2>2, <2>3, <2>4 DEF CallInv
<1>15. CASE StatementFails(c)
  <2> USE <1>15 DEF StatementFails, Goto, Return
  <2>1. Types'
    BY FailureResponse DEF CallInv, Types, Statements, Stages
  <2>2. TxInv'
    BY DEF CallInv, Types, TxInv
  <2>3. LockInv'
    BY RequestType DEF CallInv, Types, TxInv, LockInv, MayCommit
  <2>4. ResultInv'
    BY FailureResponse DEF CallInv, Types, TxInv, ResultInv, Stages
  <2>5. QED
    BY <1>3, <1>4, <2>1, <2>2, <2>3, <2>4 DEF CallInv
<1>16. CASE CommitFails(c)
  <2> USE <1>16 DEF CommitFails, Goto, Return
  <2>1. Types'
    BY FailureResponse DEF CallInv, Types, Statements, TxStates, Stages
  <2>2. TxInv'
    BY DEF CallInv, Types, TxInv
  <2>3. LockInv'
    BY RequestType DEF CallInv, Types, TxInv, LockInv, MayCommit
  <2>4. ResultInv'
    BY FailureResponse DEF CallInv, Types, TxInv, ResultInv, Stages
  <2>5. QED
    BY <1>3, <1>4, <2>1, <2>2, <2>3, <2>4 DEF CallInv
<1>17. CASE ConnLost(c)
  <2> USE <1>17 DEF ConnLost
  <2>1. Types'
    BY DEF CallInv, Types, TxStates
  <2>2. TxInv'
    BY DEF CallInv, Types, TxInv
  <2>3. LockInv'
    BY RequestType DEF CallInv, Types, TxInv, LockInv, MayCommit
  <2>4. ResultInv'
    BY DEF CallInv, Types, TxInv, ResultInv
  <2>5. QED
    BY <1>3, <1>4, <2>1, <2>2, <2>3, <2>4 DEF CallInv
<1>18. CASE ExecutedInVain(c)
  <2>1. pc[c] \in {"select", "update", "insert"} /\ pc[c] \in Stages
    BY <1>18 DEF ExecutedInVain, Executed, Stages
  <2>2. Failure(pc[c]) \in Response /\ ~Failure(pc[c]).success
    BY <2>1, FailureResponse
  <2>3. /\ pc' = [pc EXCEPT ![c] = "rollback"]
        /\ result' = [result EXCEPT ![c] = Failure(pc[c])]
        /\ tx[c] \in {"open", "orphan"}
        /\ UNCHANGED <<noopMode, req, ctxDone, seen, tx, balance, bets>>
    BY <1>18 DEF ExecutedInVain, Return, Goto
  <2>4. \/ /\ req[c].user \in Users
           /\ lock[req[c].user] \in {None, c}
           /\ lock' = [lock EXCEPT ![req[c].user] = c]
           /\ writes' = writes \/ writes' = [writes EXCEPT ![c] = @ \cup {"users"}]
        \/ writes' = [writes EXCEPT ![c] = @ \cup {"bets"}] /\ lock' = lock
    BY <1>18 DEF ExecutedInVain, Executed
  <2>5. Types'
    <3>1. writes' \in [Calls -> SUBSET {"users", "bets"}]
      <4>1. writes \in [Calls -> SUBSET {"users", "bets"}]
        BY DEF CallInv, Types
      <4>2. PICK t \in {"users", "bets"} :
              writes' = writes \/ writes' = [writes EXCEPT ![c] = @ \cup {t}]
        BY <2>4
      <4>3. writes[c] \cup {t} \in SUBSET {"users", "bets"}
        BY <4>1
      <4>4. QED
        BY <4>1, <4>2, <4>3
    <3>2. lock' = [u \in Users |-> lock'[u]]
      BY <2>4 DEF CallInv, Types
    <3>3. pc' \in [Calls -> Statements] /\ result' \in [Calls -> {None} \cup Response]
      BY <2>2, <2>3 DEF CallInv, Types, Statements
    <3>4. QED
      BY <2>3, <3>1, <3>2, <3>3 DEF CallInv, Types
  <2>6. TxInv'
    BY <2>1, <2>3, <2>4 DEF CallInv, Types, TxInv
  <2>7. LockInv'
    <3>1. ASSUME NEW d \in Calls
          PROVE  /\ MayCommit(d)' => /\ req[d].user \in Users
                                     /\ lock'[req[d].user] = d
                                     /\ seen[d] = balance[req[d].user]
                 /\ pc'[d] \in {"update", "insert", "commit"} \/ tx[d] = "indoubt"
                      => seen[d] >= req[d].amount
      <4>1. CASE d = c
        BY <2>3, <4>1 DEF MayCommit, CallInv, Types
      <4>2. CASE d # c
        <5>1. pc'[d] = pc[d] /\ (MayCommit(d)' => MayCommit(d))
          BY <2>3, <4>2 DEF MayCommit, CallInv, Types
        <5>2. MayCommit(d) => lock'[req[d].user] = lock[req[d].user]
          BY <2>4, <4>2 DEF CallInv, Types, LockInv
        <5>3. QED
          BY <5>1, <5>2 DEF CallInv, LockInv
      <4>3. QED
        BY <4>1, <4>2
    <3>2. QED
      BY <2>3, <3>1 DEF LockInv
  <2>8. ResultInv'
    BY <2>2, <2>3 DEF CallInv, Types, TxInv, ResultInv
  <2>9. QED
    BY <1>3, <1>4, <2>5, <2>6, <2>7, <2>8 DEF CallInv
<1>19. QED
  BY <1>5, <1>6, <1>7, <1>8, <1>9, <1>10, <1>11, <1>12, <1>13, <1>14, <1>15, <1>16, <1>17, <1>18

\* Rolling back, by the handler or by the server, ends a transaction that
\* committed nothing.
LEMMA AbortStep ==
    ASSUME CallInv, NEW c \in Calls, BackendAborts(c) \/ Rollback(c)
    PROVE  CallInv'
<1> USE DEF Abort, Unlock
<1>1. UNCHANGED <<noopMode, req, balance, bets>>
  BY DEF BackendAborts, Rollback
<1>2. tx[c] # "committed"
  BY DEF BackendAborts, Rollback, CallInv, TxInv
<1>3. \E s \in TxStates \ {"committed"} : tx' = [tx EXCEPT ![c] = s]
  BY <1>2 DEF BackendAborts, Rollback, CallInv, Types, TxStates
<1>4. RowInv'
  <2>1. \A d \in Calls : (tx'[d] = "committed") <=> (tx[d] = "committed")
    BY <1>2, <1>3 DEF CallInv, Types
  <2>2. QED
    BY <1>1, <2>1, RowsUnchanged DEF CallInv
<1>5. NoOverdraft'
  BY <1>1 DEF CallInv, NoOverdraft
<1>6. CASE BackendAborts(c)
  <2> USE <1>6 DEF BackendAborts
  <2>1. Types'
    BY DEF CallInv, Types, TxStates
  <2>2. TxInv'
    BY DEF CallInv, Types, TxInv
  <2>3. LockInv'
    BY RequestType DEF CallInv, Types, TxInv, LockInv, MayCommit
  <2>4. ResultInv'
    BY DEF CallInv, Types, ResultInv
  <2>5. QED
    BY <1>4, <1>5, <2>1, <2>2, <2>3, <2>4 DEF CallInv
<1>7. CASE Rollback(c)
  <2> USE <1>7 DEF Rollback, Usable, Goto
  <2>1. Types'
    BY DEF CallInv, Types, TxStates, Statements
  <2>2. TxInv'
    BY DEF CallInv, Types, TxInv
  <2>3. LockInv'
    BY RequestType DEF CallInv, Types, TxInv, LockInv, MayCommit
  <2>4. ResultInv'
    BY DEF CallInv, Types, TxInv, ResultInv
  <2>5. QED
    BY <1>4, <1>5, <2>1, <2>2, <2>3, <2>4 DEF CallInv
<1>8. QED
  BY <1>6, <1>7

\* The death of the process leaves every transaction either without a COMMIT
\* or in doubt.
LEMMA CrashStep == ASSUME CallInv, Crash PROVE CallInv'
<1>1. Types'
  BY DEF Crash, CallInv, Types, TxStates, Statements
<1>2. TxInv'
  BY DEF Crash, CallInv, Types, TxInv
<1>3. LockInv'
  BY RequestType DEF Crash, CallInv, Types, TxInv, LockInv, MayCommit
<1>4. RowInv'
  <2>1. \A d \in Calls : (tx'[d] = "committed") <=> (tx[d] = "committed")
    BY DEF Crash
  <2>2. UNCHANGED <<req, bets>>
    BY DEF Crash
  <2>3. QED
    BY <2>1, <2>2, RowsUnchanged DEF CallInv
<1>5. ResultInv'
  BY DEF Crash, CallInv, Types, TxInv, ResultInv
<1>6. NoOverdraft'
  BY DEF Crash, CallInv, NoOverdraft
<1>7. QED
  BY <1>1, <1>2, <1>3, <1>4, <1>5, <1>6 DEF CallInv

-----------------------------------------------------------------------------
\* When a transaction commits, both of its writes take effect, on a balance
\* that is still the one the handler checked.
LEMMA ApplyIsPlace ==
    ASSUME CallInv, NEW c \in Calls, Apply(c),
           (tx[c] = "open" /\ pc[c] = "commit") \/ tx[c] = "indoubt"
    PROVE  /\ req[c].user \in Users
           /\ lock[req[c].user] = c
           /\ newBalance(c) \in Nat
           /\ balance' = [balance EXCEPT ![req[c].user] = newBalance(c)]
           /\ bets' = Append(bets, L!Bet(c, req[c].user, req[c].amount))
           /\ L!Bet(c, req[c].user, req[c].amount) \in L!Row
           /\ L!Place(c, req[c].user, req[c].amount)
<1>1. writes[c] = {"users", "bets"}
  BY DEF CallInv, TxInv
<1>2. /\ req[c].user \in Users
      /\ lock[req[c].user] = c
      /\ seen[c] = balance[req[c].user]
      /\ seen[c] >= req[c].amount
  BY DEF CallInv, LockInv, MayCommit
<1>3. /\ req[c].amount \in Int /\ req[c].amount \in Amounts
      /\ seen[c] \in Int
  BY DEF CallInv, Types, Request
<1>4. newBalance(c) = balance[req[c].user] - req[c].amount /\ newBalance(c) \in Nat
  BY <1>2, <1>3 DEF newBalance
<1>5. /\ balance' = [balance EXCEPT ![req[c].user] = newBalance(c)]
      /\ bets' = Append(bets, L!Bet(c, req[c].user, req[c].amount))
  BY <1>1 DEF Apply
<1>6. L!Bet(c, req[c].user, req[c].amount) \in L!Row
  BY <1>2, <1>3 DEF L!Bet, L!Row
<1>7. ~L!Recorded(c)
  BY DEF CallInv, RowInv, L!Recorded
<1>8. QED
  BY <1>2, <1>4, <1>5, <1>6, <1>7 DEF L!Place

\* The row a commit adds is the only one that changes what RowInv says.
LEMMA ApplyStep ==
    ASSUME CallInv, NEW c \in Calls, Commit(c) \/ BackendCommits(c)
    PROVE  CallInv'
<1> DEFINE u == req[c].user
           row == L!Bet(c, u, req[c].amount)
<1>1. Apply(c) /\ ((tx[c] = "open" /\ pc[c] = "commit") \/ tx[c] = "indoubt")
  BY DEF Commit, BackendCommits, Usable
<1>2. /\ u \in Users
      /\ lock[u] = c
      /\ newBalance(c) \in Nat
      /\ balance' = [balance EXCEPT ![u] = newBalance(c)]
      /\ bets' = Append(bets, row)
      /\ row \in L!Row
  BY <1>1, ApplyIsPlace
<1>3. /\ tx' = [tx EXCEPT ![c] = "committed"]
      /\ lock' = [v \in Users |-> IF lock[v] = c THEN None ELSE lock[v]]
      /\ UNCHANGED writes
  BY <1>1 DEF Apply, Unlock
<1>4. UNCHANGED <<noopMode, req, ctxDone, seen>>
  BY DEF Commit, BackendCommits
<1>5. \/ pc' = [pc EXCEPT ![c] = "done"]
         /\ result' = [result EXCEPT ![c] = Success(newBalance(c))]
         /\ pc[c] = "commit"
      \/ UNCHANGED <<pc, result>> /\ tx[c] = "indoubt"
  BY DEF Commit, BackendCommits, Return, Goto
<1> HIDE DEF u, row
<1>6. Types'
  <2>1. bets' \in Seq(L!Row)
    BY <1>2 DEF CallInv, Types
  <2>2. pc' \in [Calls -> Statements]
    BY <1>5 DEF CallInv, Types, Statements
  <2>3. result' \in [Calls -> {None} \cup Response]
    <3>1. Success(newBalance(c)) \in Response
      BY <1>2, SuccessResponse
    <3>2. QED
      BY <1>5, <3>1 DEF CallInv, Types
  <2>4. balance' \in [Users -> Int]
    BY <1>2 DEF CallInv, Types
  <2>5. lock' = [v \in Users |-> lock'[v]]
    BY <1>3 DEF CallInv, Types
  <2>6. tx' \in [Calls -> TxStates]
    BY <1>3 DEF CallInv, Types, TxStates
  <2>7. QED
    BY <1>3, <1>4, <2>1, <2>2, <2>3, <2>4, <2>5, <2>6 DEF CallInv, Types
<1>7. TxInv'
  BY <1>3, <1>5 DEF CallInv, Types, TxInv
<1>8. LockInv'
  BY <1>2, <1>3, <1>4, <1>5, RequestType DEF CallInv, Types, TxInv, LockInv, MayCommit
<1>9. RowInv'
  <2>1. bets \in Seq(L!Row)
    BY DEF CallInv, Types
  <2>2. DOMAIN bets' = DOMAIN bets \cup {Len(bets) + 1}
    BY <1>2, <2>1
  <2>3. \A i \in DOMAIN bets : bets'[i] = bets[i] /\ bets[i].call \in Calls
    BY <1>2, <2>1, RowCall DEF CallInv
  <2>4. bets'[Len(bets) + 1] = row
    BY <1>2, <2>1
  <2>5. row.call = c /\ row.user = req[c].user /\ row.amount = req[c].amount
    BY DEF row, u, L!Bet
  <2>6. tx'[c] = "committed" /\ \A d \in Calls \ {c} : tx'[d] = tx[d]
    BY <1>3 DEF CallInv, Types
  <2>7. ASSUME NEW i \in DOMAIN bets'
        PROVE  /\ tx'[bets'[i].call] = "committed"
               /\ bets'[i].user = req'[bets'[i].call].user
               /\ bets'[i].amount = req'[bets'[i].call].amount
    <3>1. CASE i \in DOMAIN bets
      BY <1>4, <2>3, <2>6, <3>1 DEF CallInv, RowInv
    <3>2. CASE i = Len(bets) + 1
      BY <1>4, <2>4, <2>5, <2>6, <3>2
    <3>3. QED
      BY <2>2, <3>1, <3>2
  <2>8. ASSUME NEW d \in Calls, tx'[d] = "committed"
        PROVE  \E i \in DOMAIN bets' : bets'[i].call = d
    <3>1. CASE d = c
      BY <2>2, <2>4, <2>5, <3>1
    <3>2. CASE d # c
      BY <2>2, <2>3, <2>6, <2>8, <3>2 DEF CallInv, RowInv
    <3>3. QED
      BY <3>1, <3>2
  <2>9. QED
    BY <2>7, <2>8 DEF RowInv
<1>10. ResultInv'
  BY <1>2, <1>3, <1>4, <1>5, SuccessResponse DEF CallInv, Types, ResultInv
<1>11. NoOverdraft'
  BY <1>2 DEF CallInv, Types, NoOverdraft
<1>12. QED
  BY <1>6, <1>7, <1>8, <1>9, <1>10, <1>11 DEF CallInv

\* A step that changes nothing keeps the invariant.
LEMMA StutterStep == ASSUME CallInv, UNCHANGED vars PROVE CallInv'
<1>1. Types' /\ TxInv'
  BY DEF vars, CallInv, Types, TxInv
<1>2. LockInv' /\ ResultInv'
  BY DEF vars, CallInv, LockInv, ResultInv, MayCommit
<1>3. RowInv' /\ NoOverdraft'
  BY DEF vars, CallInv, RowInv, NoOverdraft
<1>4. QED
  BY <1>1, <1>2, <1>3 DEF CallInv

\* Every step of the server, of PostgreSQL and of the environment keeps what the
\* calls rely on.
LEMMA CallStep == ASSUME CallInv, Next PROVE CallInv'
<1>1. CASE Crash
  BY <1>1, CrashStep
<1>2. ASSUME NEW c \in Calls,
             Receive(c) \/ Cancel(c) \/ PlaceBet(c) \/ ConnLost(c) \/ Backend(c)
      PROVE  CallInv'
  <2>1. CASE Commit(c) \/ BackendCommits(c)
    BY <2>1, ApplyStep
  <2>2. CASE Rollback(c) \/ BackendAborts(c)
    BY <2>2, AbortStep
  <2>3. CASE ~(Commit(c) \/ BackendCommits(c) \/ Rollback(c) \/ BackendAborts(c))
    BY <1>2, <2>3, HandlerStep DEF PlaceBet, Backend
  <2>4. QED
    BY <2>1, <2>2, <2>3
<1>3. QED
  BY <1>1, <1>2 DEF Next

\* A row that changes hands goes from one of the calls, or nobody, to another.
CallsLock ==
    /\ lock' = [u \in Users |-> lock'[u]]
    /\ \A u \in Users : lock'[u] # lock[u] => {lock[u], lock'[u]} \subseteq Calls \cup {None}

\* A step of the betting service locks a row for one of its calls, if it is free,
\* or frees the rows of one of its calls.
LEMMA LockStep == ASSUME Types, Next PROVE CallsLock
<1>1. ASSUME lock' = lock PROVE CallsLock
  BY <1>1 DEF Types, CallsLock
<1>2. ASSUME NEW c \in Calls, Unlock(c) PROVE CallsLock
  BY <1>2 DEF Unlock, CallsLock
<1>3. ASSUME NEW c \in Calls, NEW u, lock[u] \in {None, c}, lock' = [lock EXCEPT ![u] = c]
      PROVE  CallsLock
  BY <1>3 DEF Types, CallsLock
<1>4. CASE Crash
  BY <1>1, <1>4 DEF Crash
<1>5. ASSUME NEW c \in Calls,
             Receive(c) \/ Cancel(c) \/ PlaceBet(c) \/ ConnLost(c) \/ Backend(c)
      PROVE  CallsLock
  <2>1. CASE SelectForUpdate(c) \/ UpdateBalance(c)
    BY <1>3, <2>1 DEF SelectForUpdate, UpdateBalance
  <2>2. CASE Commit(c) \/ Rollback(c) \/ Backend(c)
    BY <1>1, <1>2, <2>2 DEF Commit, Rollback, Backend, BackendAborts, BackendCommits, Abort,
           Apply
  <2>3. CASE ExecutedInVain(c)
    BY <1>1, <1>3, <2>3 DEF ExecutedInVain, Executed
  <2>4. CASE ~(\/ SelectForUpdate(c) \/ UpdateBalance(c) \/ ExecutedInVain(c)
               \/ Commit(c) \/ Rollback(c) \/ Backend(c))
    BY <1>1, <1>5, <2>4 DEF Receive, Cancel, PlaceBet, NoopReply, Begin, BeginFails,
           SelectNoRows, CheckBalance, InsertBet, StatementFails, CommitFails, ConnLost
  <2>5. QED
    BY <2>1, <2>2, <2>3, <2>4
<1>6. QED
  BY <1>4, <1>5 DEF Next

\* The build is the build for good.
LEMMA BuildStep == ASSUME [Next]_vars PROVE noopMode' = noopMode
  BY DEF Next, vars, Receive, Cancel, PlaceBet, NoopReply, Begin, BeginFails, SelectForUpdate,
         SelectNoRows, CheckBalance, UpdateBalance, InsertBet, StatementFails, ExecutedInVain,
         Commit, CommitFails, Rollback, ConnLost, Backend, BackendAborts, BackendCommits, Crash

-----------------------------------------------------------------------------
\* IInv holds initially and every step of the server, of PostgreSQL and of the
\* environment keeps it.
THEOREM Invariance == Spec => []IInv
<1>1. ASSUME IInv, [Next]_vars PROVE IInv'
  <2>1. CallInv'
    BY <1>1, CallStep, StutterStep DEF IInv
  <2>2. lock' \in [Users -> Calls \cup {None}]
    <3>1. CASE UNCHANGED vars
      BY <1>1, <3>1 DEF vars, IInv, TypeOK
    <3>2. CASE Next
      BY <1>1, <3>2, LockStep DEF IInv, CallInv, TypeOK, CallsLock
    <3>3. QED
      BY <1>1, <3>1, <3>2
  <2>3. noopMode' \in BOOLEAN
    <3>1. noopMode \in BOOLEAN /\ noopMode' = noopMode
      BY <1>1, BuildStep DEF IInv, TypeOK
    <3>2. QED
      BY <3>1
  <2>4. QED
    BY <2>1, <2>2, <2>3 DEF IInv, CallInv, Types, TypeOK
<1>2. QED
  BY InitInv, <1>1, PTL DEF Spec

\* PlaceBet never stores a value of the wrong kind and never returns anything
\* but the responses written in it (server.go:28-67).
THEOREM TypeCorrect == Spec => []TypeOK
<1>1. IInv => TypeOK
  BY DEF IInv
<1>2. QED
  BY Invariance, <1>1, PTL

\* No number of concurrent calls, whatever their statements' order and their
\* failures, takes a balance below zero (server.go:41-55).
THEOREM NeverOverdrawn == Spec => []NoOverdraft
<1>1. IInv => NoOverdraft
  BY DEF IInv, CallInv
<1>2. QED
  BY Invariance, <1>1, PTL

\* Success = TRUE is returned only for a bet that is in the table (server.go:64-67).
THEOREM SuccessMeansRecorded == Spec => []SuccessIsRecorded
<1>1. IInv => SuccessIsRecorded
  BY DEF IInv, CallInv, ResultInv, RowInv, SuccessIsRecorded, L!Recorded
<1>2. QED
  BY Invariance, <1>1, PTL

\* Success = FALSE from any statement before COMMIT means that the bet is not
\* in the table and that its transaction can no longer commit (server.go:38-62).
THEOREM FailureMeansUnrecorded == Spec => []FailureIsUnrecorded
<1>1. IInv => FailureIsUnrecorded
  BY DEF IInv, CallInv, ResultInv, RowInv, FailureIsUnrecorded, L!Recorded
<1>2. QED
  BY Invariance, <1>1, PTL

\* Only a commit changes what is stored.
LEMMA OnlyCommits ==
    ASSUME [Next]_vars
    PROVE  \/ UNCHANGED <<balance, bets>>
           \/ \E c \in Calls : Commit(c) \/ BackendCommits(c)
<1>1. ASSUME NEW c \in Calls, ~Commit(c), ~BackendCommits(c),
             Receive(c) \/ Cancel(c) \/ PlaceBet(c) \/ ConnLost(c) \/ Backend(c)
      PROVE  UNCHANGED <<balance, bets>>
  BY <1>1 DEF Receive, Cancel, PlaceBet, NoopReply, Begin, BeginFails,
         SelectForUpdate, SelectNoRows, CheckBalance, UpdateBalance, InsertBet,
         StatementFails, ExecutedInVain, CommitFails, Rollback, ConnLost, Backend,
         BackendAborts, Abort
<1>2. Crash \/ UNCHANGED vars => UNCHANGED <<balance, bets>>
  BY DEF Crash, vars
<1>3. QED
  BY <1>1, <1>2 DEF Next

\* The statements of PlaceBet implement the one-step ledger: every step leaves
\* balances and bets alone, except a commit, which is one Place.
THEOREM Refinement == Spec => ImplementsLedger
<1>1. Init => L!Init
  BY DEF Init, L!Init
<1>2. ASSUME IInv, [Next]_vars PROVE [L!Next]_<<balance, bets>>
  <2>1. ASSUME NEW c \in Calls, Commit(c) \/ BackendCommits(c)
        PROVE  L!Next
    <3>1. Apply(c) /\ ((tx[c] = "open" /\ pc[c] = "commit") \/ tx[c] = "indoubt")
      BY <2>1 DEF Commit, BackendCommits, Usable
    <3>2. /\ req[c].user \in Users
          /\ L!Place(c, req[c].user, req[c].amount)
      BY <1>2, <3>1, ApplyIsPlace DEF IInv
    <3>3. req[c].amount \in Amounts
      BY <1>2 DEF IInv, TypeOK, Request
    <3>4. QED
      BY <3>2, <3>3 DEF L!Next
  <2>2. QED
    BY <1>2, <2>1, OnlyCommits
<1>3. QED
  BY <1>1, <1>2, Invariance, PTL DEF Spec, ImplementsLedger, L!Spec

-----------------------------------------------------------------------------
(* Concurrent PlaceBet calls are serial: the balances they work out form one *)
(* chain for each user.  The induction is over the steps of BettingServer; it *)
(* rests on LockInv, by which a handler that may commit has read the balance  *)
(* as it is.                                                                  *)

\* Neither the rows nor what their calls have read changes.
LEMMA ChainUnchanged ==
    ASSUME CallInv, BalancesChain, UNCHANGED <<req, balance, bets>>,
           \A d \in Calls : tx[d] = "committed" => seen'[d] = seen[d]
    PROVE  BalancesChain'
<1>1. \A i \in DOMAIN bets : seen'[bets[i].call] = seen[bets[i].call]
  BY RowCall DEF CallInv, RowInv
<1>2. bets \in Seq(L!Row)
  BY DEF CallInv, Types
<1>3. DOMAIN bets = 1 .. Len(bets) /\ Len(bets) \in Nat
  BY <1>2
<1>4. \A i \in DOMAIN bets : newBalance(bets[i].call)' = newBalance(bets[i].call)
  BY <1>1 DEF newBalance
<1>5. \A v, i, j : NoneBetween(v, i, j)' <=> NoneBetween(v, i, j)
  BY DEF NoneBetween
<1>6. ASSUME NEW v \in Users, NEW j \in DOMAIN bets, bets[j].user = v
      PROVE  /\ NoneBetween(v, 0, j)' => seen'[bets[j].call] = InitBalance[v]
             /\ \A i \in 1 .. j-1 :
                  bets[i].user = v /\ NoneBetween(v, i, j)'
                    => seen'[bets[j].call] = newBalance(bets[i].call)'
             /\ NoneBetween(v, j, Len(bets) + 1)'
                  => balance[v] = newBalance(bets[j].call)'
  <2>1. \A i \in 1 .. j-1 : i \in DOMAIN bets
    BY <1>3
  <2>2. QED
    BY <1>1, <1>4, <1>5, <1>6, <2>1 DEF BalancesChain
<1>7. ASSUME NEW v \in Users, NoneBetween(v, 0, Len(bets) + 1)'
      PROVE  balance[v] = InitBalance[v]
  BY <1>5, <1>7 DEF BalancesChain
<1>8. QED
  BY <1>6, <1>7 DEF BalancesChain

\* A commit adds one link: the balance it starts from is the one now stored.
LEMMA ChainApply ==
    ASSUME CallInv, BalancesChain, NEW c \in Calls, Commit(c) \/ BackendCommits(c)
    PROVE  BalancesChain'
<1>1. Apply(c) /\ ((tx[c] = "open" /\ pc[c] = "commit") \/ tx[c] = "indoubt")
  BY DEF Commit, BackendCommits, Usable
<1>2. PICK u \in Users : u = req[c].user
  BY <1>1, ApplyIsPlace
<1>bets. bets \in Seq(L!Row)
  BY DEF CallInv, Types
<1>3. PICK n \in Nat : n = Len(bets)
  BY <1>bets
<1>4. /\ balance' = [balance EXCEPT ![u] = newBalance(c)]
      /\ bets' = Append(bets, L!Bet(c, u, req[c].amount))
  BY <1>1, <1>2, ApplyIsPlace
<1>5. seen[c] = balance[u]
  BY <1>1, <1>2 DEF CallInv, LockInv, MayCommit
<1>6. seen' = seen /\ req' = req
  BY DEF Commit, BackendCommits
<1>7. balance'[u] = newBalance(c) /\ \A v \in Users \ {u} : balance'[v] = balance[v]
  BY <1>4 DEF CallInv, Types
<1>8. /\ DOMAIN bets = 1 .. n
      /\ Len(bets') = n + 1 /\ DOMAIN bets' = 1 .. n + 1
      /\ \A k \in 1 .. n : bets'[k] = bets[k]
      /\ bets'[n + 1] = L!Bet(c, u, req[c].amount)
  BY <1>3, <1>4 DEF CallInv, Types
<1>9. bets'[n + 1].call = c /\ bets'[n + 1].user = u
  BY <1>8 DEF L!Bet
\* What the calls of the rows worked out.
<1>link. /\ \A i \in 1 .. n : newBalance(bets[i].call)' = newBalance(bets[i].call)
         /\ newBalance(bets[n + 1].call)' = newBalance(c)
  BY <1>6, <1>8, <1>9 DEF newBalance
\* Looking at the old rows only.
<1>10. ASSUME NEW v, NEW i \in Nat, NEW j \in 1 .. n + 1
       PROVE  NoneBetween(v, i, j)' <=> NoneBetween(v, i, j)
  BY <1>8 DEF NoneBetween
\* Looking at the new row as well.
<1>11. ASSUME NEW v, NEW i \in 0 .. n, NoneBetween(v, i, n + 2)'
       PROVE  v # u /\ NoneBetween(v, i, n + 1)
  <2>1. n + 1 \in i + 1 .. (n + 2) - 1
    BY <1>8
  <2>2. v # u
    BY <1>9, <1>11, <2>1 DEF NoneBetween
  <2>3. NoneBetween(v, i, n + 1)
    BY <1>8, <1>11 DEF NoneBetween
  <2>4. QED
    BY <2>2, <2>3
<1>12. ASSUME NEW v \in Users, NEW j \in 1 .. n + 1, bets'[j].user = v,
              NoneBetween(v, 0, j)'
       PROVE  seen'[bets'[j].call] = InitBalance[v]
  <2>1. NoneBetween(v, 0, j)
    BY <1>10, <1>12
  <2>2. CASE j = n + 1
    BY <1>3, <1>5, <1>6, <1>9, <1>12, <2>1, <2>2 DEF BalancesChain
  <2>3. CASE j \in 1 .. n
    BY <1>6, <1>8, <1>12, <2>1, <2>3 DEF BalancesChain
  <2>4. QED
    BY <1>8, <2>2, <2>3
<1>13. ASSUME NEW v \in Users, NEW j \in 1 .. n + 1, bets'[j].user = v,
              NEW i \in 1 .. j-1, bets'[i].user = v, NoneBetween(v, i, j)'
       PROVE  seen'[bets'[j].call] = newBalance(bets[i].call)'
  <2>1. i \in 1 .. n /\ bets'[i] = bets[i] /\ i \in Nat
    BY <1>8
  <2>2. NoneBetween(v, i, j)
    BY <1>10, <1>13, <2>1
  <2>3. CASE j = n + 1
    <3>1. v = u
      BY <1>9, <1>13, <2>3
    <3>2. i \in DOMAIN bets /\ bets[i].user = u /\ NoneBetween(u, i, Len(bets) + 1)
      BY <1>3, <1>8, <1>13, <2>1, <2>2, <2>3, <3>1
    <3>3. balance[u] = newBalance(bets[i].call)
      BY <3>2 DEF BalancesChain
    <3>4. QED
      BY <1>5, <1>6, <1>link, <1>9, <2>1, <2>3, <3>3
  <2>4. CASE j \in 1 .. n
    <3>1. bets'[j] = bets[j] /\ j \in DOMAIN bets
      BY <1>8, <2>4
    <3>2. QED
      BY <1>6, <1>link, <1>13, <2>1, <2>2, <3>1 DEF BalancesChain
  <2>5. QED
    BY <1>8, <2>3, <2>4
<1>14. ASSUME NEW v \in Users, NEW j \in 1 .. n + 1, bets'[j].user = v,
              NoneBetween(v, j, n + 2)'
       PROVE  balance'[v] = newBalance(bets[j].call)'
  <2>1. CASE j = n + 1
    BY <1>link, <1>7, <1>9, <1>14, <2>1
  <2>2. CASE j \in 1 .. n
    <3>1. v # u /\ NoneBetween(v, j, n + 1)
      BY <1>8, <1>11, <1>14, <2>2
    <3>2. bets'[j] = bets[j] /\ j \in DOMAIN bets
      BY <1>8, <2>2
    <3>3. balance[v] = newBalance(bets[j].call)
      BY <1>3, <1>14, <3>1, <3>2 DEF BalancesChain
    <3>4. QED
      BY <1>14, <1>link, <1>7, <2>2, <3>1, <3>2, <3>3
  <2>3. QED
    BY <1>8, <2>1, <2>2
<1>15. ASSUME NEW v \in Users, NoneBetween(v, 0, n + 2)'
       PROVE  balance'[v] = InitBalance[v]
  <2>1. v # u /\ NoneBetween(v, 0, n + 1)
    BY <1>8, <1>11, <1>15
  <2>2. QED
    BY <1>3, <1>7, <2>1 DEF BalancesChain
<1>16. Len(bets') + 1 = n + 2
  BY <1>8
<1>17. QED
  BY <1>8, <1>12, <1>13, <1>14, <1>15, <1>16 DEF BalancesChain

-----------------------------------------------------------------------------
\* Whatever the order of the statements of concurrent calls and whatever fails,
\* the balances they read and report are those of a serial execution in commit
\* order (server.go:41-67).
THEOREM Serial == Spec => []BalancesChain
<1>1. Init => BalancesChain
  BY DEF Init, BalancesChain
<1>2. ASSUME CallInv, BalancesChain, [Next]_vars PROVE BalancesChain'
  <2>1. CASE UNCHANGED vars \/ Crash
    BY <1>2, <2>1, ChainUnchanged DEF vars, Crash
  <2>2. ASSUME NEW c \in Calls, Commit(c) \/ BackendCommits(c)
        PROVE  BalancesChain'
    BY <1>2, <2>2, ChainApply
  <2>3. ASSUME NEW c \in Calls, SelectForUpdate(c) PROVE BalancesChain'
    <3>1. \A d \in Calls : tx[d] = "committed" => seen'[d] = seen[d]
      BY <1>2, <2>3 DEF SelectForUpdate, CallInv, Types, TxInv
    <3>2. UNCHANGED <<req, balance, bets>>
      BY <2>3 DEF SelectForUpdate
    <3>3. QED
      BY <1>2, <3>1, <3>2, ChainUnchanged
  <2>4. ASSUME NEW c \in Calls,
               Receive(c) \/ Cancel(c) \/ PlaceBet(c) \/ ConnLost(c) \/ Backend(c),
               ~Commit(c), ~BackendCommits(c), ~SelectForUpdate(c)
        PROVE  BalancesChain'
    <3>1. UNCHANGED <<req, seen, balance, bets>>
      BY <2>4 DEF Receive, Cancel, PlaceBet, NoopReply, Begin, BeginFails,
             SelectNoRows, CheckBalance, UpdateBalance, InsertBet, StatementFails,
             ExecutedInVain, CommitFails, Rollback, ConnLost, Backend, BackendAborts, Abort
    <3>2. QED
      BY <1>2, <3>1, ChainUnchanged
  <2>5. QED
    BY <1>2, <2>1, <2>2, <2>3, <2>4 DEF Next
<1>3. IInv => CallInv
  BY DEF IInv
<1>4. QED
  BY <1>1, <1>2, <1>3, Invariance, PTL DEF Spec

-----------------------------------------------------------------------------
(* Sums.  What Total computes is shown by induction over the length of the *)
(* sequence; the induction is the statement about sets that NatSets makes. *)

\* A set of naturals that has 0 and the successor of everything in it has all:
\* the least natural outside it would have its predecessor inside.
LEMMA NatSets ==
    ASSUME NEW T \in SUBSET Nat, 0 \in T, \A n \in T : n + 1 \in T
    PROVE  T = Nat
<1> DEFINE less == OpToRel(<, Nat)
<1>1. \A m, n \in Nat : <<m, n>> \in less <=> m < n
  BY DEF OpToRel
<1>2. IsWellFoundedOn(less, Nat)
  BY NatLessThanWellFounded
<1> HIDE DEF less
<1>3. ASSUME Nat \ T # {} PROVE FALSE
  <2>1. PICK x \in Nat \ T : \A y \in Nat \ T : ~(<<y, x>> \in less)
    BY <1>2, <1>3, WFMin
  <2>2. x # 0 /\ x - 1 \in Nat /\ x - 1 < x
    <3>1. x \in Nat /\ x # 0
      OBVIOUS
    <3>2. QED
      BY <3>1
  <2>3. <<x - 1, x>> \in less
    BY <1>1, <2>2
  <2>4. x - 1 \in T
    BY <2>1, <2>2, <2>3
  <2>5. QED
    BY <2>2, <2>4
<1>4. QED
  BY <1>3

\* The partial sums of w up to the n-th.
Sums(f, w, n) == f = [i \in 0 .. n |-> IF i = 0 THEN 0 ELSE f[i - 1] + w[i]]

\* There are partial sums of every sequence.
LEMMA SumsExist ==
    ASSUME NEW w \in Seq(Int)
    PROVE  \E f \in [0 .. Len(w) -> Int] : Sums(f, w, Len(w))
<1> DEFINE T == {n \in Nat : n <= Len(w) => \E f \in [0 .. n -> Int] : Sums(f, w, n)}
<1>1. 0 \in T
  <2> DEFINE f == [i \in 0 .. 0 |-> 0]
  <2>1. f \in [0 .. 0 -> Int] /\ Sums(f, w, 0)
    BY DEF Sums
  <2>2. QED
    BY <2>1
<1>2. ASSUME NEW n \in T PROVE n + 1 \in T
  <2>1. SUFFICES ASSUME n + 1 <= Len(w)
                 PROVE  \E g \in [0 .. n + 1 -> Int] : Sums(g, w, n + 1)
    BY <1>2
  <2>2. PICK f \in [0 .. n -> Int] : Sums(f, w, n)
    BY <1>2, <2>1
  <2>3. n \in Nat /\ w[n + 1] \in Int /\ f[n] \in Int
    BY <1>2, <2>1
  <2> DEFINE g == [i \in 0 .. n + 1 |-> IF i = n + 1 THEN f[n] + w[n + 1] ELSE f[i]]
  <2>4. g \in [0 .. n + 1 -> Int]
    BY <2>3
  <2>5. \A i \in 0 .. n : f[i] = IF i = 0 THEN 0 ELSE f[i - 1] + w[i]
    BY <2>2 DEF Sums
  <2>6. ASSUME NEW i \in 0 .. n + 1
        PROVE  g[i] = IF i = 0 THEN 0 ELSE g[i - 1] + w[i]
    <3>1. CASE i = n + 1
      <4>1. n \in 0 .. n + 1 /\ g[n] = f[n] /\ g[n + 1] = f[n] + w[n + 1] /\ (n + 1) - 1 = n
        BY <2>3
      <4>2. QED
        BY <2>3, <3>1, <4>1
    <3>2. CASE i \in 0 .. n
      <4>1. i \in Nat /\ g[i] = f[i]
        BY <2>3, <3>2
      <4>2. CASE i = 0
        BY <2>5, <3>2, <4>1, <4>2
      <4>3. CASE i # 0
        <5>1. i - 1 \in 0 .. n
          BY <2>3, <3>2, <4>1, <4>3
        <5>2. g[i - 1] = f[i - 1]
          BY <2>3, <5>1
        <5>3. QED
          BY <2>5, <3>2, <4>1, <4>3, <5>2
      <4>4. QED
        BY <4>2, <4>3
    <3>3. QED
      BY <2>3, <3>1, <3>2
  <2>7. Sums(g, w, n + 1)
    BY <2>4, <2>6 DEF Sums
  <2>8. QED
    BY <2>4, <2>7
<1> HIDE DEF T
<1>3. T = Nat
  BY <1>1, <1>2, NatSets DEF T
<1>4. QED
  BY <1>3 DEF T

\* They are the same wherever two sequences agree.
LEMMA SumsAgree ==
    ASSUME NEW v, NEW w, NEW m \in Nat, NEW n \in Nat, NEW f, NEW g,
           Sums(f, v, m), Sums(g, w, n), m <= n,
           \A i \in 1 .. m : v[i] = w[i]
    PROVE  f[m] = g[m]
<1> DEFINE T == {k \in Nat : k <= m => f[k] = g[k]}
<1>0. /\ \A i \in 0 .. m : f[i] = IF i = 0 THEN 0 ELSE f[i - 1] + v[i]
      /\ \A i \in 0 .. n : g[i] = IF i = 0 THEN 0 ELSE g[i - 1] + w[i]
  BY DEF Sums
<1>1. 0 \in T
  BY <1>0
<1>2. ASSUME NEW k \in T PROVE k + 1 \in T
  BY <1>0, <1>2
<1> HIDE DEF T
<1>3. T = Nat
  BY <1>1, <1>2, NatSets DEF T
<1>4. QED
  BY <1>3 DEF T

\* Total is the last of the partial sums.
LEMMA TotalIsLast ==
    ASSUME NEW w \in Seq(Int), NEW f, Sums(f, w, Len(w))
    PROVE  L!Total(w) = f[Len(w)] /\ L!Total(w) \in Int
<1> DEFINE sum == CHOOSE g : g = [i \in 0 .. Len(w) |-> IF i = 0 THEN 0 ELSE g[i - 1] + w[i]]
<1>1. PICK h \in [0 .. Len(w) -> Int] : Sums(h, w, Len(w))
  BY SumsExist
<1>2. Sums(sum, w, Len(w))
  BY <1>1 DEF Sums
<1>3. L!Total(w) = sum[Len(w)]
  BY DEF L!Total
<1> HIDE DEF sum
<1>4. Len(w) \in Nat
  OBVIOUS
<1>5. sum[Len(w)] = f[Len(w)] /\ sum[Len(w)] = h[Len(w)]
  BY <1>1, <1>2, <1>4, SumsAgree
<1>6. h[Len(w)] \in Int
  BY <1>1, <1>4
<1>7. QED
  BY <1>3, <1>5, <1>6

\* The empty sequence adds up to zero.
LEMMA TotalEmpty == L!Total(<<>>) = 0
<1> DEFINE f == [i \in 0 .. 0 |-> 0]
<1>1. Sums(f, <<>>, 0) /\ f[0] = 0
  BY DEF Sums
<1>2. <<>> \in Seq(Int) /\ Len(<<>>) = 0
  OBVIOUS
<1> HIDE DEF f
<1>3. QED
  BY <1>1, <1>2, TotalIsLast

\* What is appended is added.
LEMMA TotalAppend ==
    ASSUME NEW w \in Seq(Int), NEW x \in Int
    PROVE  L!Total(Append(w, x)) = L!Total(w) + x
<1> DEFINE v == Append(w, x)
           n == Len(w)
<1>1. /\ v \in Seq(Int) /\ Len(v) = n + 1 /\ n \in Nat
      /\ \A i \in 1 .. n : v[i] = w[i]
      /\ v[n + 1] = x
  OBVIOUS
<1>2. PICK f : Sums(f, w, n)
  BY SumsExist
<1>3. PICK g : Sums(g, v, n + 1)
  BY <1>1, SumsExist
<1>4. L!Total(w) = f[n] /\ L!Total(v) = g[n + 1]
  BY <1>1, <1>2, <1>3, TotalIsLast
<1> HIDE DEF v, n
<1>5. f[n] = g[n]
  BY <1>1, <1>2, <1>3, SumsAgree
<1>6. g[n + 1] = g[n] + x
  <2>1. \A i \in 0 .. n + 1 : g[i] = IF i = 0 THEN 0 ELSE g[i - 1] + v[i]
    BY <1>3 DEF Sums
  <2>2. n + 1 \in 0 .. n + 1 /\ n + 1 # 0 /\ (n + 1) - 1 = n
    BY <1>1
  <2>3. QED
    BY <1>1, <2>1, <2>2
<1>7. QED
  BY <1>4, <1>5, <1>6 DEF v

-----------------------------------------------------------------------------
(* Money is conserved. *)

\* The stakes of a user are integers and have a sum.
LEMMA StakedType ==
    ASSUME Types, NEW u
    PROVE  L!Stakes(u) \in Seq(Int) /\ L!Staked(u) \in Int
<1>1. bets \in Seq(L!Row) /\ \A r \in L!Row : r.amount \in Int
  BY DEF Types, L!Row
<1>2. L!Stakes(u) \in Seq(Int)
  <2>1. \A i \in 1 .. Len(bets) : bets[i].amount \in Int
    BY <1>1
  <2>2. L!Stakes(u) \in [1 .. Len(bets) -> Int]
    BY <2>1 DEF L!Stakes
  <2>3. Len(bets) \in Nat
    BY <1>1
  <2>4. QED
    BY <2>2, <2>3
<1>3. QED
  <2>1. PICK f : Sums(f, L!Stakes(u), Len(L!Stakes(u)))
    BY <1>2, SumsExist
  <2>2. L!Total(L!Stakes(u)) \in Int
    BY <1>2, <2>1, TotalIsLast
  <2>3. QED
    BY <1>2, <2>2 DEF L!Staked

\* A new row adds its amount to what its user has staked.
LEMMA StakedAppend ==
    ASSUME Types, NEW r \in L!Row, bets' = Append(bets, r), NEW u
    PROVE  L!Staked(u)' = L!Staked(u) + IF r.user = u THEN r.amount ELSE 0
<1> DEFINE x == IF r.user = u THEN r.amount ELSE 0
           n == Len(bets)
<1>1. /\ bets \in Seq(L!Row) /\ n \in Nat
      /\ Len(bets') = n + 1 /\ bets'[n + 1] = r
      /\ \A i \in 1 .. n : bets'[i] = bets[i]
  BY DEF Types
<1>2. x \in Int
  <2>1. r.amount \in Int
    BY DEF L!Row
  <2>2. QED
    BY <2>1
<1>3. L!Stakes(u) \in Seq(Int) /\ Len(L!Stakes(u)) = n
  <2>1. L!Stakes(u) \in Seq(Int)
    BY StakedType
  <2>2. Len(L!Stakes(u)) = n
    BY <1>1 DEF L!Stakes
  <2>3. QED
    BY <2>1, <2>2
<1>4. L!Stakes(u)' = Append(L!Stakes(u), x)
  <2>1. L!Stakes(u)' = [i \in 1 .. n + 1 |-> IF bets'[i].user = u THEN bets'[i].amount ELSE 0]
    BY <1>1 DEF L!Stakes
  <2>2. Append(L!Stakes(u), x) = [i \in 1 .. n + 1 |-> IF i = n + 1 THEN x ELSE L!Stakes(u)[i]]
    BY <1>1, <1>2, <1>3
  <2>3. \A i \in 1 .. n : L!Stakes(u)[i] = IF bets[i].user = u THEN bets[i].amount ELSE 0
    BY DEF L!Stakes
  <2>4. QED
    BY <1>1, <2>1, <2>2, <2>3
<1>5. L!Total(L!Stakes(u)') = L!Total(L!Stakes(u)) + x
  BY <1>2, <1>3, <1>4, TotalAppend
<1>6. QED
  BY <1>5 DEF L!Staked

\* A commit takes from the balance what it adds to the user's stakes.
LEMMA ConservationStep ==
    ASSUME CallInv, [Next]_vars, NEW u \in Users
    PROVE  balance'[u] + L!Staked(u)' = balance[u] + L!Staked(u)
<1>1. CASE UNCHANGED <<balance, bets>>
  <2>1. L!Staked(u)' = L!Staked(u)
    BY <1>1 DEF L!Staked, L!Stakes
  <2>2. QED
    BY <1>1, <2>1
<1>2. ASSUME NEW c \in Calls, Commit(c) \/ BackendCommits(c)
      PROVE  balance'[u] + L!Staked(u)' = balance[u] + L!Staked(u)
  <2>1. Apply(c) /\ ((tx[c] = "open" /\ pc[c] = "commit") \/ tx[c] = "indoubt")
    BY <1>2 DEF Commit, BackendCommits, Usable
  <2>2. PICK v \in Users, a \in Int : v = req[c].user /\ a = req[c].amount
    BY <2>1, ApplyIsPlace, RequestType DEF CallInv, Types
  <2>3. PICK r \in L!Row : r = L!Bet(c, v, a)
    BY <2>1, <2>2, ApplyIsPlace
  <2>4. /\ balance' = [balance EXCEPT ![v] = @ - a]
        /\ bets' = Append(bets, r)
    BY <2>1, <2>2, <2>3, ApplyIsPlace DEF L!Place
  <2>5. r.user = v /\ r.amount = a
    BY <2>3 DEF L!Bet
  <2>6. L!Staked(u)' = L!Staked(u) + IF v = u THEN a ELSE 0
    BY <2>4, <2>5, StakedAppend DEF CallInv
  <2>7. L!Staked(u) \in Int /\ balance[u] \in Int
    BY StakedType DEF CallInv, Types
  <2>8. balance'[u] = balance[u] - IF v = u THEN a ELSE 0
    BY <2>2, <2>4, <2>7 DEF CallInv, Types
  <2>9. QED
    BY <2>2, <2>6, <2>7, <2>8
<1>3. QED
  BY <1>1, <1>2, OnlyCommits

\* What is gone from a balance is in the table bets and the other way round,
\* whatever the interleaving and wherever a call is cut short (server.go:50-62).
THEOREM MoneyIsConserved == Spec => []Conservation
<1>1. Init => Conservation
  <2>1. ASSUME Init, NEW u PROVE L!Staked(u) = 0
    <3>1. bets = <<>>
      BY <2>1 DEF Init
    <3>2. L!Stakes(u) = <<>>
      BY <3>1 DEF L!Stakes
    <3>3. QED
      BY <3>2, TotalEmpty DEF L!Staked
  <2>2. QED
    BY <2>1 DEF Init, Conservation
<1>2. ASSUME IInv, Conservation, [Next]_vars PROVE Conservation'
  <2>1. ASSUME NEW u \in Users PROVE balance'[u] + L!Staked(u)' = InitBalance[u]
    BY <1>2, ConservationStep DEF IInv, Conservation
  <2>2. QED
    BY <2>1 DEF Conservation
<1>3. QED
  BY <1>1, <1>2, Invariance, PTL DEF Spec
=============================================================================
