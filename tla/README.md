# Verification of bet_service

TLA+ models of the betting platform under `src/`, the TLC configurations that
check them, and proofs that TLAPS checks. Every module is written from the
source; the map from definitions to source lines is in `PROJECT.json`.

    tlc -config BettingServer.cfg MCBettingServer      # a run
    tlapm BettingServerProofs.tla                      # the proofs of a module

## 1. The system

| Part | Source | State | Operations |
|---|---|---|---|
| betting service, handler | `Services/bet_service/server.go` | none of its own; tables `users` and `bets`; a transaction per call | `PlaceBet` |
| betting service, process | `main.go`, `db.go` | the pool pointer, the gRPC server, the signal context | start, listen, serve, drain, close |
| betting load generator | `Services/bet_service/betgun` | five atomic counters, a context | `Fire`, `worker`, `sendOne`, `report` |
| connection pool | `Services/login_service/ConnectionPool.h` | queue, mutex, condition variable | `acquire`, `release`, RAII in `PooledConnection` |
| login service | `AsyncUserService.*`, `CallHandler.*`, `main.cpp` | completion queues, worker threads, heap-allocated handlers, the pool | `run`, `workerLoop`, `proceed`, `handleLogin` |
| login service, synchronous variant | `UserService.*` | the pool | `Login`; not built by `CMakeLists.txt` |
| messages of the login service | `user_service.pb.h`, `user_service.pb.cc` (generated) | has-bits, values, a pointer to a `User` | accessors, ownership, copy, merge, swap, serialize, parse |
| login load generator | `Client/StressTester.*` | five atomics, a window of calls per thread | `run`, `sendRequest`, `testUserService`, `refreshCounters` |
| database seeding | `Client/DatabaseFiller.h`, `Client/MetaData.h` | table `users`; one connection | `testFillUsers`, `fillUpBalances` |
| gateway | `Server/` | none between requests; a stack buffer | `SignIn`; or a TCP accept loop |

How they interact. The load generators call the services over gRPC. The two
services share no memory with anything; they meet in PostgreSQL, where
`DatabaseFiller` writes the rows that `handleLogin` reads and `PlaceBet`
updates; `fillUpBalances` updates the same balances while bets may run. Inside the login service the completion queue is what links gRPC to
the workers: the tag of an event is the address of a `CallHandler`. Inside the
betting service each call is a goroutine, and `main` must not close the pool
under one.

What is hard:

- two `PlaceBet` transactions on one row, with a balance that is read, compared
  and written in three statements;
- failures between those statements: a cancelled context (with which the
  deferred `Rollback` is called as well), a lost connection, a dead process, a
  `COMMIT` whose answer does not arrive;
- waiting for a connection while holding none, and for a row lock while holding
  a connection;
- the shutdown of the betting service: signal, `GracefulStop`, `Serve`, and a
  deferred `Close`;
- handlers that delete themselves and whose addresses are in the hands of gRPC;
- the condition variable of the pool;
- counters that a reporter reads and resets while workers add to them;
- a bulk `UPDATE` that collects the locks of all rows among transactions that
  hold one each;
- exceptions of pqxx that nothing in `UserService::Login` catches;
- one buffer, one read and no error check per TCP client, one client at a time;
- has-bits, values and pointers of protobuf messages that must agree through any
  sequence of calls.

The committed code is built with `noopMode = true` (`server.go:23`) and
`NOOP_FLAG` (`UserService.h:9`): neither service touches its database. Both are
variables that get either value at the start and never change, `noopMode` of
`BettingServer` and `noop` of `LoginService` and `UserService`: every run covers both
builds.

## 2. Modules

| Module | Models | Stands on |
|---|---|---|
| `BetLedger` | what `PlaceBet` promises: one indivisible step per bet | |
| `BettingServer` | `PlaceBet`, statement by statement, with its database | refines `BetLedger` |
| `BetService` | `main.go` around the handlers | extends `BettingServer` |
| `BetGun` | the betting load generator | |
| `PoolLease` | what the pool promises: one connection lent at a time | |
| `ConnectionPool` | `acquire` and `release` down to lock, wait and notify | refines `PoolLease` |
| `LoginService` | run, workers, handlers, gRPC's queues | uses the actions of `PoolLease` |
| `UserService` | the synchronous `Login` on gRPC's threads | extends `ConnectionPool` |
| `SeededLogin` | `LoginService` between the rows `DatabaseFiller` writes and the requests `StressTester` sends | extends `LoginService` |
| `DatabaseFiller` | `testFillUsers` and `fillUpBalances` beside running bets | extends `BettingServer` |
| `Messages` | the generated classes `User`, `LoginRequest`, `LoginResponse` | |
| `StressTester` | the login load generator | |
| `Gateway` | `Server/`: the choice of the transport and the TCP loop | |
| `BettingServerProofs` | theorems about `BettingServer` | extends it |
| `BettingSystemProofs` | theorems about `BetService` and `DatabaseFiller` | extends both and `BettingServerProofs` |
| `UserServiceProofs` | theorems about `ConnectionPool` and `UserService` | extends `UserService` |
| `LoginServiceProofs`, `MessagesProofs`, `GatewayProofs`, `BetGunProofs`, `StressTesterProofs` | theorems | extend the modules they are about |
| `MC*` | instances for TLC | |

A definition introduced by a comment that starts with "Variant:" is a plausible
mistake in the action after it. No specification uses it; put in the place of
that action it makes one of the properties fail, which shows that the property
can be broken.

### BettingServer

One element of `Calls` is one invocation. `pc` is the statement that comes next;
`seen` is the Go local `balance`; `result` the response. `tx`, `writes`, `lock`,
`balance` and `bets` belong to PostgreSQL: a transaction is open, orphaned (its
client is gone and the server has not noticed), in doubt (the same, with COMMIT
under way), committed or aborted; its changes become visible only in `Apply`.
`SELECT ... FOR UPDATE` waits for the row lock and reads the row as last
committed, which is what READ COMMITTED does after a wait. `StatementFails`
stands for the error returns of statements and is possible at any time, for
the server may reject anything; in `ExecutedInVain` the server has executed the
statement all the same, so that its row lock and its change stay with the
transaction until `Rollback` (a `FOR UPDATE` granted after the client cancelled, a
`Scan` that fails). `Rollback` is the deferred call, which with a
dead context or connection only drops the connection. `Begin` waits while
`MaxConns` transactions are under way. `Crash` ends all handlers of the process
at once.

### BetService

`main`, `stopper` (the goroutine at `main.go:42`), `dbPool` and `signalled`. A
call gets in only while `Serve` runs and nothing drains. `log.Fatalf` ends the
process without the deferred calls. A handler's steps are those of
`BettingServer`, unchanged. `Accept` is gRPC's part. `Serve` may also return an error
while handlers run (`ServeFails`), which ends them with the process. With `noopMode`
the pool stays nil, and `PoolOpenWhileUsed` says that neither a handler nor the
deferred `Close` uses it.

### ConnectionPool

`wait` with a predicate is a loop: `test`, then either go to sleep, giving up the
mutex in the same step, or take the front. `Notify` wakes any one sleeper and is
still inside the critical section, as in the code. Spurious wake-ups can happen
and are never counted on.

### LoginService

`state[a]` is "free" where no object lives; `New` may reuse an address right
after `delete this`, which is what makes stale tags dangerous. gRPC is three
external actions: a registered handler is matched with an RPC (`Match`), a
`Finish` completes with the event's `ok` depending on whether the client is
still there (`FinishDone`), clients leave (`Drop`). `run` first makes all
handlers and then starts the workers, so RPCs can be matched before any worker
runs. `handleLogin` keeps the order in which C++ unwinds: transaction, then
connection. `DatabaseThrows` is any exception of pqxx: from the constructor of the
transaction, from the query, or from `as<>` on a NULL column, the last two with the
transaction open, on a connection that may be in order. The table `Stored` has `None`
for a NULL password. The pool appears through the actions of `PoolLease`; that
`ConnectionPool` refines it is proved.

### UserService

gRPC calls `Login` on threads of its own (`Call`, the lambda in
`user_service.grpc.pb.cc`); `at[t]` is the statement in `Login`, `pc[t]` the place
in the pool, with all the locking of `ConnectionPool`. What pqxx throws leaves
`Login` (`DatabaseThrows`), whether or not the connection is broken, and only
destructors run: first that of the transaction, then that of the connection. The pool's constructor throws a `const
char*` for a connection that is not open, which `catch (const std::exception&)`
lets pass: `Construct` may leave the process dead.

### SeededLogin

A string that is put together from a name, a surname and a number is the record of
them, and a hash is not the string it was made of. `emails` and `passwords` are the
tables of `MetaData.h`: entry `i` of both has the same number, the e-mails are
distinct, and the accounts fit the way `testFillUsers` draws them. Every request
carries the entry that `generateLoginData` uses.

### DatabaseFiller

One more session beside those of `BettingServer`, with the same `lock` and
`balance`. `UPDATE` without `WHERE` takes the rows in any order, one at a time,
waiting for each lock. Rows that `testFillUsers` inserts are counted in `seeded`;
they are not among `Users`, because no bet can name an id before it is known. The
`SELECT COUNT` decides a log line only. Any statement may throw, COMMIT on a live
connection included. When the connection is gone, the functions
do nothing, which is no action.

### Messages

An action is one call of the generated interface by a program that keeps to its
rules, as the services and clients do. Two fields stand for their class's: a set of
has-bits and a value for each. A `User` of a `LoginRequest` is an address in `mem`
with the place it lies in (heap or arena); `app` is the program's own claim to it,
after `release_user` or one of its kin. `set_allocated_user` takes a `User` that lies
where the request does, hands one from the heap to the request's arena (`TakeUser`),
and copies one that lies in another arena, which keeps the original (`TakeCopy`).
What the runtime does below these classes
is taken as given.

### Gateway

`responserType` chooses between the gRPC server, whose `SignIn` keeps nothing and is
left out, and the TCP loop.
Bytes are numbered, so that the array can be seen to keep those of earlier clients.
Whether they parse decides a log line only. `link[c]` says how the client has
left its connection; a reset makes `remote_endpoint` throw, `accept` may throw at any
time, and the `catch` stands outside the loop.

### StressTester, BetGun

The atomics one by one. A latency is one unit, so the sum of latencies counts
the calls it covers. `added`, `missed`, `printed`, `compTaken` and `latTaken` are
bookkeeping of the model: what was added to a counter, what of it fell between a
load and the reset after it, and what the reports took.

## 3. Runs

| Run | cfg | Instance | Asks |
|---|---|---|---|
| betting_safety | `BettingServer.cfg` | 3 calls, 1 account and an id without a row, 2 connections, stakes 1 and 2 from balance 2, either build | conservation, no overdraft, serial balances, honest answers, refinement of `BetLedger` |
| betting_process | `BetService.cfg` | 3 calls on 1 row, 2 connections, either build; see `Bounded` | pool and shutdown order, a `Serve` that fails; rows are unlocked, a signal ends the process |
| filler | `DatabaseFiller.cfg` | 1 call on one of 2 rows, 2 calls of the filler, 2 users per batch | conservation with top-ups, all or nothing, no deadlock over row locks |
| filler_assigns | `FilledBalance.cfg` | 1 row with a balance | **violated**, see below |
| user_service | `UserService.cfg` | 4 threads, 2 connections | no connection lost, shared or left with a transaction, no lost wake-up, refinement of `PoolLease`, calls keep returning |
| login_safety | `LoginService.cfg` | 2 queues with 1 handler, 2 RPCs, 4 addresses, 2 connections, a row, a row with NULL and no row, either build | handler life cycle, replies, connections |
| login_liveness | `LoginServiceLive.cfg` | the same with 1 connection | every RPC is answered |
| messages | `Messages.cfg` | 2 requests with 3 addresses, heap and 2 arenas; 2 responses | has-bits, ownership, merge against the wire format |
| gateway | `Gateway.cfg` | 3 clients, messages of 4 bytes, a buffer of 3 | no stale bytes, nobody is forgotten |
| stress_counters | `StressTester.cfg` | 2 threads, window 2, 2 completions each | what the reports miss, the window, bounded skew |
| betgun | `BetGun.cfg` | 2 workers, 2 calls each | nothing lost, consistent totals, termination |
| login_seeded_user | `SeededLogin.cfg` | 2 accounts, 1 RPC | **violated**, see below |

Why the bounds are enough. Lost updates and stale checks need two transactions on
one row; the third call of betting_safety makes chains of bets and a call that
waits for the pool while two compete for the row. It does so in betting_process as
well, where `Bounded` keeps the graph small enough for its liveness properties: one
client of the three may cancel, no handler loses its connection before it has
returned, and the process is killed only while no call is in a transaction (it may
end through `Serve` at any moment, and any statement or COMMIT may fail).
betting_safety has only the limit on cancellations, and one request at most that names
no row: connections break and the process dies anywhere. That no set of handlers blocks itself on
the pool and on row locks is part of `SignalEndsProcess`: a signal can come while any
of them wait, and then `GracefulStop` waits for them. Two stakes and a balance of two
give calls that succeed, that are refused at once, and that are refused because
of another. In filler, two rows are what a deadlock over row locks needs, and a
single bet suffices for the other side of it; two fills make a top-up that is
repeated. In user_service, two threads can sleep while two return connections, and
a notification can be taken by a thread that comes in between; the theorems about
the pool hold for any number. In messages, a third address is what a `User` that
belongs to the program needs beside the two requests'. In gateway, a buffer of
three bytes cuts a message of four. In
LoginService, addresses are one for each registered handler plus one for each
RPC, so `new` always finds one and reuse happens. Two workers against a reporter
give each atomic step another one to come in between; `MaxCompletions` and
`MaxCalls` bound the calls, not the reports, of which there are any number.
`CHECK_DEADLOCK FALSE` is set where the system may really stop (all calls made,
process exited or dead, no client left); the messages' calls never come to an end,
and there deadlock is checked.

### What the violated runs show

**login_seeded_user.** `CallHandler.cpp:58` compares the password sent with the
column; `DatabaseFiller.h:44-55` stores an Argon2id hash there. No seeded user can
log in once `NOOP_FLAG` is off.

**filler_assigns.** `DatabaseFiller.h:13` says that `fillUpBalances` assigns a random
balance; `DatabaseFiller.h:71` adds it to the one that is there. A user with balance 1
who is topped up by 3 ends with 4. The other properties of `DatabaseFiller` are about
what the code does: whatever is added is added once and never lost.

Three more observations, which the models contain without a property that fails.
`StressTester.cpp:120-126` loads, prints, then stores 0, so completions in between
are in no line: `OnlyWindowMissed` says that these and no others are missed
(`betgun.go` uses `Swap(0)`, for which `NothingLost` holds). What is printed as
"invalid login\pass" is NOT_FOUND only; a wrong password counts as failed
(`CounterOf`). And `TcpResponserImpl.h:49` reads once: of a message that arrives in
two segments the first is taken for the whole, which is why `OnlyOwnBytes` promises a
beginning of what the client sent and no more.

### Fairness

- `BettingServer`: goroutines run on (weak fairness of the handler's own steps);
  an error that has a cause is reported in the end, one without a cause need not
  happen; PostgreSQL notices lost clients. Strong fairness for `Begin` and
  `SelectForUpdate`: the semaphore of pgxpool and the lock queue of PostgreSQL
  are served in order, so a waiter's turn comes although others are served first.
  `Bounded` restricts which clients cancel and when connections break, which takes
  nothing from the fairness: neither has to happen.
- `BetService`: in addition, `main` and its goroutine run on. No signal has to come,
  and `Serve` does not have to fail.
- `DatabaseFiller`: in addition, the filler runs on and PostgreSQL serves row locks
  in order (strong fairness of `UpdateRow`); no statement has to fail, and nobody
  has to call the filler.
- `UserService`: a thread in `Login`, `acquire` or `release` goes on; nobody has to
  call `Login`, no wake-up is spurious on purpose, no connection has to break. Weak
  fairness is enough: `CallsKeepReturning` is about the threads together, for a
  condition variable promises no single thread its turn.
- `Gateway`: the one thread runs on; `accept` does not have to throw. That no client is silent for ever is the
  hypothesis of `EveryClientIsRead`, not an assumption of the model.
- `LoginService`: threads run on, gRPC matches and completes. Nothing is assumed
  of clients or of the failure of connections; a query does end.
- `BetGun`: the timer goes off, goroutines run on, a call returns once its
  context is done. That a call is answered is not assumed.

## 4. Proofs

**BettingServerProofs**, for any number of calls, users and connections, any
integer stakes, and either build. `NoOverdraft` is not inductive:
one has to know that the balance a handler read is still there when it commits.
`IInv` adds

- `TxInv`: how far a transaction has come agrees with the handler's position; in
  particular a transaction that can still commit after its client is gone has
  both of its changes in it;
- `LockInv`: as long as a transaction may commit, it holds the lock on its row,
  the row is what it read, and the stake was found to be covered;
- `RowInv`: rows of `bets` and committed transactions correspond;
- `ResultInv`: what an answer says agrees with what can still become of the
  transaction.

The lemmas show that the steps that end no transaction (`HandlerStep`), an abort
(`AbortStep`), a crash (`CrashStep`) and a commit (`ApplyStep`) keep it;
`ApplyIsPlace` shows that a commit is one step of the ledger. From this follow
`TypeCorrect`, `NeverOverdrawn`, `SuccessMeansRecorded`,
`FailureMeansUnrecorded` and `Refinement`. Assumptions: those named in
the module (`Users` among the ids a request can name, integer stakes, initial
balances not negative, `None` not a call).

`MoneyIsConserved`: what an account has left and its bets have staked is what it
began with. The step is the same as for the ledger, a commit; what it needs is
that a sum over a sequence with one element more is the sum and that element
(`TotalAppend`). The sums are recursive functions on the length of the sequence,
and that lemma is shown by induction: the library's induction theorems take an
operator and cannot be used here, but a set of naturals that has 0 and with each
member its successor has them all (`NatSets`, from the well-foundedness of <), and
sets can be instantiated.

`Serial`: the balances reported are those of a serial
execution. Only a commit changes `bets`; it appends one row, and by `LockInv` what
that call read is the present balance, which the chain so far says is what the
last bet on the row left (`ChainApply`, by cases of which of the two rows is the
new one). `NoneBetween` says that a bet is the next one on its account.

**BettingSystemProofs.** `ServiceRunsPlaceBet` shows that every step of the process is
a step of `BettingServer` or leaves its variables alone, so all of the above holds
of the process. `ProcessInv` adds that handlers run only while `Serve` does and
`GracefulStop` has not returned, and which pool `main` has by how far it has come;
`PoolOutlivesHandlers` and `DrainIsComplete` follow, the second together with
`TxInv`.

For `DatabaseFiller` beside the handlers, any rows, top-ups and batch size: its
transactions share rows and locks with those of the handlers, so `FillerInv` is the
part of `BettingServer`'s invariant that does not depend on who else writes
balances (`CallInv`), and

- `WorkInv`: what the filler's transaction can still commit is all of a call;
- `GrantInv`: a row that will go up is locked by the filler, so no handler that may
  commit has read it;
- `DoneInv`: what has been committed is whole calls.

`ServiceStep` and `OtherSession` are the two sides of sharing: the handlers touch no
lock of the filler, and what the filler does to rows that no handler has locked
leaves every handler what it relies on. Results: `TopUpsConserveMoney`,
`CallsAreAllOrNothing`, and `PromisesUnderTopUps`, that `PlaceBet`'s answers stay
honest and no balance goes below zero while the filler is at work.

**UserServiceProofs**, first the pool, for any finite sets of threads and connections.
`EachConnectionInOnePlace` needs that the mutex is held by the one thread in a
critical section (`MutexInv`) and that a thread owns a connection exactly between
the return of `acquire` and the push of `release` (`OwnInv`). `TailFacts` and
`AppendFacts` say what taking the front and pushing do to a queue without
repetitions. Results: `TypeCorrect`, `NoConnectionLostOrShared`,
`LeaseRefinement`. `WakeupsSuffice` shows that no wake-up is lost, by counting the
threads that will still look at the queue or notify (`Attentive`): a push brings
its notification with it, and a thread takes at most the connection it was
counted for.

**BetGunProofs**, for any finite set of workers. `compTaken + completed` is ahead of
the outcomes by the workers between the two `Add`s (`Balanced`), the latency sum
is ahead of `completed` by those one step earlier (`LatencyLeads`); `Move` says how
these sets change when a worker moves. Because a report swaps `completed` before
the latency, no latency is owed. Results: `SwapLosesNothing`,
`CompletedCountsAll`, `LatencyTakenFirst`.

Then the service. `LoginUsesPool` shows that every step of the service is a step of `ConnectionPool`
or leaves its variables alone (`PoolStep`), so `ServiceSharesNoConnection`,
`ServiceLosesNoWakeup` and `ServiceLeases` are theorems of the service. Its own
invariant ties the place in `Login` to the place in the pool and every open
transaction to the one thread that holds its connection; that two threads do not
hold the same one is taken from the pool's invariant. `NothingLeftOpen` follows.

**LoginServiceProofs**, for any number of workers, handlers and RPCs, any finite
set of addresses and connections, any table of passwords, and either build.
`OneReferencePerHandler` is about all places at once, so the invariant has to say
what each place implies. `IInv` consists of

- `HandlerInv`: what a handler looks like by where its address is: registered (in
  state WAIT, with no RPC), in an event of its own queue, in `proceed` (WAIT until
  the successor is made, FINISH from there on), or in a `Finish` under way;
- `PlaceInv`: places that these looks do not tell apart exclude each other, no two
  events carry one tag, and every handler that exists is in some place;
- `RpcInv`: an RPC has one handler at most, and stays open until that one's
  `Finish` is done;
- `PoolInv`: a worker has a connection, and a transaction, exactly between the
  statements that take and end them;
  (an exception that is thrown with the transaction open leaves by way of its end);
- `AnswerInv`: an answer that is settled fits the request of its handler; and
  `StartInv`, about workers that are yet to start.

`Apart` draws from it that a place excludes every other; `Enqueue` and `Dequeue`
say what an event that comes or goes does to the tags of a queue; `NewHandler` is
what run() and a worker have in common when they make a handler. Results:
`TypeCorrect`, `HandlersUsedOnce`, `RepliesFit`, `ToldOnce`, `ConnectionsClean`.
`NobodyWaits` counts: by `PoolInv` the connections that are lent go one to one to
the workers that have one. `SomebodyListens` has an invariant of its own, the
number of waiting handlers of each queue by how many run() has made (`Made`,
`OneMore`): a worker takes one out of WAIT in the step that puts another in, and
a handler that is deleted was not waiting.

**StressTesterProofs**, for any finite set of threads and any window.
`OnlyWindowMissed` is exact, and becomes inductive together with types and the place
of `item` in the report (`ItemInv`). `WindowInv` is what bounds the calls a thread
has open. `SkewBounded` needs `LatencyFollows`: `completed` is ahead of the latency
sum by at most one per worker, less the workers that are still to add to
`completed`, at every moment but between the two resets. Results: `TypeCorrect`,
`MissedInTheWindowOnly`, `SkewBounded`.

**GatewayProofs**, for any finite set of clients, any lengths of messages and of the
buffer. `OnlyOwnBytes` is inductive with the types, of which the needed one is that
there is a client in hand exactly from `accept` to the end of the iteration. Result:
`NothingShowsThrough`.

**MessagesProofs**, for any number of objects, addresses, arenas and values.
`HasBitConsistency` is not inductive, because a `LoginRequest` that is merged,
cleared or parsed into changes the `User` it points to, which must not be another's;
`OneOwner` counts, which is awkward step by step. `IInv` consists of

- `Holds`: a request with its bit has a `User`; the one it has exists, lies where the
  request does, is not the program's, and is blank when the bit is not set;
- `Apart`: two requests have different ones;
- `Kept`: a `User` is a well-formed message whose bits and values agree (`Sound`),
  and some request or the program has a claim to it;
- `ResponseInv`: a `LoginResponse` is `Sound`.

A call touches few objects. `TouchedOnly` says that a step which touches only the
requests in a set, what they point to, what the program owns and what is unused, and
leaves those in order, leaves everything in order; each kind of call then has a
lemma of its own (`OneUserKept`, `ClearKeeps`, `ReleaseKeeps`, `TakeUserKeeps`, `TakeCopyKeeps`, ...).
`WireAgrees` rests on what parsing, counting bytes and parsing the occurrences of a
field compute. All three go through a sequence by a recursive function, and the
lemmas about `Walk` show, with `NatSets` again, that there is such a function, that
it stays in its set, and that one element more is one step more. From that,
`ParseOnto`: parsing what is written of a message puts its written fields over what
was parsed before. Results: `BitsTellTheTruth`, `UsersAreOwned`, `WireAgrees`.

Every invariant and every `[][A]_v` or refinement that a passing run checks is thus
proved. Only model-checked: the liveness properties `RowsGetUnlocked`,
`SignalEndsProcess`, `NobodyBlocksForGood`, `CallsKeepReturning`,
`EveryRpcAnswered`, `FireEnds` and `EveryClientIsRead`, because fairness and ENABLED
are out of the prover's reach.

## 5. Not modelled

- `float64`: rounding, NaN, and NULL balances. Amounts are integers.
- The difference between a failed transaction and an open one in PostgreSQL
  (statements after an error): `PlaceBet` sends none but ROLLBACK.
- The time pgxpool takes to replace a connection it dropped.
- `~AsyncUserService`: `main.cpp` cannot reach it (`run()` joins workers that only
  the destructor stops). A null server from `BuildAndStart`.
- NULL ids, and e-mail addresses that occur twice in `users`.
- `SignIn`, which echoes an id and keeps nothing.
- Unknown fields, cached sizes, descriptors and reflection of the generated
  messages; the callback and generic variants of the generated stubs, which no
  program here uses; the generated Go code, whose only logic is the method handler.
- What a program does that breaks the rules of the generated classes.
- The commented-out code (`utilDatabaseConnection`, the TCP reply) and build files.

## 6. Plan

Done: all components of section 1, and proofs of every safety property of the runs.
Next, most important first:

1. That `LoginService` over `ConnectionPool`, with all its locking, implements
   `LoginService` over `PoolLease`, as `UserService` does for its own pool.
2. The safety half of the liveness properties: that a thread which waits is never
   without a step somebody else can take (`NobodyBlocksForGood` for any number of
   rows locked in any order, the handlers' place in the pool of `BettingServer`).
3. That `BetService` with the filler beside it implements `BetLedger` with top-ups.
