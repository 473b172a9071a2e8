---------------------------- MODULE DatabaseFiller ----------------------------
(***************************************************************************)
(* DatabaseFiller of src/Client/DatabaseFiller.h, run against the database *)
(* while bet_service takes bets: testFillUsers inserts BATCH users and     *)
(* fillUpBalances adds a random amount to every balance, each in one       *)
(* transaction on the one connection the object opened.                    *)
(*                                                                         *)
(* UPDATE without WHERE takes the rows one after the other: it waits for   *)
(* the lock of a row and then adds to the balance as last committed.       *)
(***************************************************************************)
EXTENDS BettingServer

CONSTANTS BATCH,    \* users one testFillUsers inserts
          Grants,   \* amounts a balance may go up by
          MaxFills, \* bound of the model: calls of the two functions
          Filler    \* holder of the row locks of fillUpBalances

ASSUME BatchAssumption  == BATCH \in Nat \ {0}
ASSUME GrantsAssumption == Grants \subseteq Nat /\ None \notin Grants
ASSUME FillerAssumption == Filler \notin Calls \cup {None}

VARIABLES
    fill,      \* where the filler is
    connector, \* its connection: "open" or "lost"
    work,      \* its transaction, as tx in BettingServer
    inserted,  \* rows its transaction has inserted
    seeded,    \* rows of users it has committed
    granted,   \* granted[u]: what its transaction adds to row u, None before
    fills,     \* history: calls so far
    topUps     \* history: topUps[u], what every COMMIT has added to row u

fillerVars == <<fill, connector, work, inserted, seeded, granted, fills, topUps>>
allVars    == <<vars, fillerVars>>

FillerInit ==
    /\ Init
    /\ fill = "idle" /\ connector = "open" /\ work = "none"
    /\ inserted = 0 /\ seeded = 0
    /\ granted = [u \in Users |-> None]
    /\ fills = 0 /\ topUps = [u \in Users |-> <<>>]

-----------------------------------------------------------------------------
(* PostgreSQL, for this session. *)

UnlockAll == lock' = [u \in Users |-> IF lock[u] = Filler THEN None ELSE lock[u]]

EndWork(outcome) ==
    /\ work' = outcome
    /\ UnlockAll
    /\ inserted' = 0
    /\ granted' = [u \in Users |-> None]
    /\ UNCHANGED <<handlerVars, tx, writes, bets, fills>>

Undo == EndWork("aborted") /\ UNCHANGED <<balance, seeded, topUps>>

\* Every row that was updated, and every row that was inserted, at once.
ToppedUp(u) == IF granted[u] = None THEN balance[u] ELSE balance[u] + granted[u]

Publish ==
    /\ EndWork("committed")
    /\ balance' = [u \in Users |-> ToppedUp(u)]
    /\ seeded' = seeded + inserted
    /\ topUps' = [u \in Users |-> IF granted[u] = None THEN topUps[u]
                                   ELSE Append(topUps[u], granted[u])]

FillerLost ==
    /\ connector = "open"
    /\ connector' = "lost"
    /\ work' = CASE work # "open" -> work
                 [] work = "open" /\ fill = "commit" -> "indoubt"
                 [] OTHER -> "orphan"
    /\ UNCHANGED <<vars, fill, inserted, seeded, granted, fills, topUps>>

FillerBackend ==
    /\ \/ work \in {"orphan", "indoubt"} /\ Undo
       \/ work = "indoubt" /\ Publish
    /\ UNCHANGED <<fill, connector>>

-----------------------------------------------------------------------------
(* testFillUsers() and fillUpBalances() *)

\* is_open(), and pqxx::work; without a connection the call does nothing.
Call(f) ==
    /\ fill = "idle"
    /\ connector = "open"
    /\ fills < MaxFills
    /\ fills' = fills + 1
    /\ fill' = f
    /\ work' = "open"
    /\ UNCHANGED <<vars, connector, inserted, seeded, granted, topUps>>

\* INSERT INTO users, with a hash that could be computed.
InsertUser ==
    /\ fill = "insert"
    /\ work = "open"
    /\ inserted < BATCH
    /\ inserted' = inserted + 1
    /\ UNCHANGED <<vars, fill, connector, work, seeded, granted, fills, topUps>>

\* Variant: the row is updated without waiting for its lock.
UpdateLockedRow(u) ==
    /\ fill = "update"
    /\ work = "open"
    /\ granted[u] = None
    /\ \E g \in Grants : granted' = [granted EXCEPT ![u] = g]
    /\ UNCHANGED <<vars, fill, connector, work, inserted, seeded, fills, topUps>>

\* UPDATE users SET balance = balance + ..., one row of it.
UpdateRow(u) ==
    /\ fill = "update"
    /\ work = "open"
    /\ granted[u] = None
    /\ lock[u] = None
    /\ lock' = [lock EXCEPT ![u] = Filler]
    /\ \E g \in Grants : granted' = [granted EXCEPT ![u] = g]
    /\ UNCHANGED <<handlerVars, tx, writes, balance, bets>>
    /\ UNCHANGED <<fill, connector, work, inserted, seeded, fills, topUps>>

\* Variant: commit() after every row.
CommitEachRow ==
    /\ fill = "update" /\ \E u \in Users : granted[u] # None
    /\ fill' = "commit"
    /\ UNCHANGED <<vars, connector, work, inserted, seeded, granted, fills, topUps>>

AllRowsDone ==
    /\ \/ fill = "insert" /\ inserted = BATCH
       \/ fill = "update" /\ \A u \in Users : granted[u] # None
    /\ fill' = "commit"
    /\ UNCHANGED <<vars, connector, work, inserted, seeded, granted, fills, topUps>>

FillerCommits ==
    /\ fill = "commit"
    /\ work = "open"
    /\ Publish
    /\ fill' = "idle"
    /\ UNCHANGED connector

\* Variant: the exception leaves the transaction as it is.
WorkLeftOpen ==
    /\ fill \in {"insert", "update"}
    /\ fill' = "idle"
    /\ UNCHANGED <<vars, connector, work, inserted, seeded, granted, fills, topUps>>

\* A statement or COMMIT is rejected, a password cannot be hashed, or the connection
\* is lost: the exception destroys the transaction, which aborts it.
FillerThrows ==
    /\ fill \in {"insert", "update", "commit"}
    /\ fill' = "idle"
    /\ IF work = "open" THEN Undo
       ELSE UNCHANGED <<vars, work, inserted, seeded, granted, fills, topUps>>
    /\ UNCHANGED connector

testFillUsers  == Call("insert") \/ InsertUser
fillUpBalances == Call("update") \/ \E u \in Users : UpdateRow(u)

Fill == \/ testFillUsers \/ fillUpBalances
        \/ AllRowsDone \/ FillerCommits \/ FillerThrows

FillerNext ==
    \/ Next /\ UNCHANGED fillerVars
    \/ Fill
    \/ FillerLost \/ FillerBackend

FillerSpec == FillerInit /\ [][FillerNext]_allVars

\* The program runs on, a wait for a row lock ends when its turn keeps coming,
\* and the handlers and PostgreSQL go on as in BettingServer.
FillerFairness ==
    /\ Fairness
    /\ WF_allVars(InsertUser \/ AllRowsDone \/ FillerCommits)
    /\ WF_allVars(connector = "lost" /\ FillerThrows)
    /\ WF_allVars(FillerBackend)
    /\ \A u \in Users : SF_allVars(UpdateRow(u))

FairFiller == FillerSpec /\ FillerFairness

-----------------------------------------------------------------------------
(* Properties. *)

\* Money is conserved while balances are topped up under running bets: neither
\* a stake nor a top-up is lost, and none counts twice.
MoneyConserved ==
    \A u \in Users : balance[u] + L!Staked(u) = InitBalance[u] + L!Total(topUps[u])

\* "fillUpBalances() - assigns a random balance (5000-100000) to every user row"
\* (DatabaseFiller.h:13): a row that was filled and not bet on since has one of the
\* amounts that can be drawn.
BalanceIsAssigned ==
    \A u \in Users : topUps[u] # <<>> /\ L!Staked(u) = 0 => balance[u] \in Grants

\* Whatever fails, a call has done all of its work or nothing: every user has
\* been topped up as often as every other, and users come BATCH at a time.
AllOrNothing ==
    /\ \A u, v \in Users : Len(topUps[u]) = Len(topUps[v])
    /\ seeded % BATCH = 0

\* fillUpBalances and PlaceBet never block each other for good, though the one
\* collects the locks of all rows while the other holds one: every call of
\* either ends.
NobodyBlocksForGood ==
    /\ fill # "idle" ~> fill = "idle"
    /\ EveryCallReturns
=============================================================================
