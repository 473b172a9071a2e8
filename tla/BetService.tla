------------------------------ MODULE BetService ------------------------------
(***************************************************************************)
(* The process of Services/bet_service/main.go around the PlaceBet handlers*)
(* of BettingServer: it opens the pool (not with noopMode), listens, serves*)
(* and, when a signal arrives, drains the gRPC server, whereupon Serve     *)
(* returns and the deferred p.Close() runs.                                *)
(***************************************************************************)
EXTENDS BettingServer

VARIABLES
    main,      \* where main() is
    dbPool,    \* the pool: "none" yet, "nil" for noopMode, "open", "closed"
    stopper,   \* the goroutine that waits for the signal
    signalled  \* the context of NotifyContext is done

mainVars    == <<main, dbPool, stopper, signalled>>
serviceVars == <<vars, mainVars>>

\* Handlers that run.
Busy == {c \in Calls : pc[c] \notin {"idle"} \cup Ended}

ServiceInit ==
    /\ Init
    /\ main = "start"
    /\ dbPool = "none"
    /\ stopper = "none"
    /\ signalled = FALSE

\* SIGINT or SIGTERM; main() has asked for it first thing.
Signal ==
    /\ main \notin {"exited", "fatal"}
    /\ ~signalled
    /\ signalled' = TRUE
    /\ UNCHANGED <<vars, main, dbPool, stopper>>

\* log.Fatalf ends the process on the spot, nothing that was deferred runs.
Fatal == main' = "fatal" /\ UNCHANGED dbPool

OpenPool ==
    /\ main = "start"
    /\ IF noopMode
         THEN dbPool' = "nil" /\ main' = "listen"
         ELSE \/ dbPool' = "open" /\ main' = "listen"
              \/ Fatal
    /\ UNCHANGED <<vars, stopper, signalled>>

\* net.Listen, and the goroutine for the signal.
Listen ==
    /\ main = "listen"
    /\ \/ main' = "serve" /\ stopper' = "waiting" /\ UNCHANGED dbPool
       \/ Fatal /\ UNCHANGED stopper
    /\ UNCHANGED <<vars, signalled>>

\* <-ctx.Done(), and GracefulStop shuts the door.
BeginDrain ==
    /\ stopper = "waiting"
    /\ main # "fatal"
    /\ signalled
    /\ stopper' = "draining"
    /\ UNCHANGED <<vars, main, dbPool, signalled>>

\* Serve finds the server stopped when the signal was quicker.
Serve ==
    /\ main = "serve"
    /\ IF stopper = "waiting"
         THEN main' = "serving" /\ UNCHANGED dbPool
         ELSE Fatal
    /\ UNCHANGED <<vars, stopper, signalled>>

\* Variant: calls are still let in while the server drains.
AcceptWhileDraining(c) ==
    /\ main = "serving"
    /\ Receive(c)
    /\ UNCHANGED mainVars

\* A call gets in unless the server is draining.
Accept(c) ==
    /\ main = "serving"
    /\ stopper = "waiting"
    /\ Receive(c)
    /\ UNCHANGED mainVars

\* Variant: Stop instead of GracefulStop.
StopAtOnce ==
    /\ stopper = "draining"
    /\ stopper' = "stopped"
    /\ UNCHANGED <<vars, main, dbPool, signalled>>

\* GracefulStop returns when every handler has.
EndDrain ==
    /\ stopper = "draining"
    /\ Busy = {}
    /\ stopper' = "stopped"
    /\ UNCHANGED <<vars, main, dbPool, signalled>>

\* The listener breaks while the server serves: log.Fatalf ends the process with
\* whatever handlers are running, and nothing closes the pool.
ServeFails ==
    /\ main = "serving"
    /\ stopper = "waiting"
    /\ Crash \/ (Busy = {} /\ UNCHANGED vars)
    /\ Fatal
    /\ UNCHANGED <<stopper, signalled>>

\* Serve returns nil, once GracefulStop is through.
ServeReturns ==
    /\ main = "serving"
    /\ stopper = "stopped"
    /\ main' = IF noopMode THEN "exited" ELSE "close"
    /\ UNCHANGED <<vars, dbPool, stopper, signalled>>

\* Close waits until every connection has been given back.
ClosePool ==
    /\ main = "close"
    /\ \A c \in Calls : pc[c] \notin InTransaction
    /\ dbPool' = "closed"
    /\ main' = "exited"
    /\ UNCHANGED <<vars, stopper, signalled>>

\* The process is killed with calls under way, and started again.
Kill ==
    /\ Crash
    /\ main' = "start" /\ dbPool' = "none"
    /\ stopper' = "none" /\ signalled' = FALSE

Main == \/ OpenPool \/ Listen \/ Serve \/ ServeReturns \/ ClosePool
        \/ BeginDrain \/ EndDrain

\* A handler's own steps, and those of its connection and its session.
Handle(c) == /\ Cancel(c) \/ PlaceBet(c) \/ ConnLost(c) \/ Backend(c)
             /\ UNCHANGED mainVars

ServiceNext ==
    \/ Signal \/ Main \/ ServeFails \/ Kill
    \/ \E c \in Calls : Accept(c) \/ Handle(c)

ServiceSpec == ServiceInit /\ [][ServiceNext]_serviceVars

FairService == ServiceSpec /\ Fairness /\ WF_serviceVars(Main)

-----------------------------------------------------------------------------
(* Properties. *)

\* Every variable of the process keeps its type; the pool is nil only on purpose,
\* and closed only at the very end.
ServiceTypeOK ==
    /\ main \in {"start", "listen", "serve", "serving", "close", "exited", "fatal"}
    /\ dbPool \in {"none", "nil", "open", "closed"}
    /\ stopper \in {"none", "waiting", "draining", "stopped"}
    /\ signalled \in BOOLEAN
    /\ dbPool = "nil" => noopMode
    /\ dbPool = "closed" => main = "exited"

\* Nobody ever meets a pool that is nil, not open yet or closed already: neither a
\* handler, whose part in server.go agrees with main.go on noopMode and which the
\* pool outlives, nor the deferred Close.
PoolOpenWhileUsed ==
    /\ \A c \in Calls :
         pc[c] \in InTransaction \/ (pc[c] = "begin" /\ ~noopMode) => dbPool = "open"
    /\ main = "close" => dbPool = "open"

\* A signal cuts no call short: when Serve has returned, every call that was let
\* in has been answered, and no transaction is open on a connection that Close is
\* about to take away.
DrainedBeforeExit ==
    main \in {"close", "exited"} => Busy = {} /\ \A c \in Calls : tx[c] # "open"

\* A signal ends the process in the end: no handler keeps the drain waiting.
SignalEndsProcess ==
    signalled ~> main \in {"exited", "fatal"} \/ ~signalled
=============================================================================
