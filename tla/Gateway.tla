------------------------------- MODULE Gateway -------------------------------
(***************************************************************************)
(* The gateway of src/Server: main() of Server.cpp picks one transport and *)
(* calls its handle().  TcpResponserImpl accepts one connection at a time, *)
(* reads once into a stack buffer, parses and logs; of GrpcResponserImpl,  *)
(* whose SignIn keeps nothing, only the start is here.  TCP is modelled by *)
(* what the loop relies on: a queue of connections, bytes that arrive in   *)
(* pieces, an end of stream, a reset.                                      *)
(***************************************************************************)
EXTENDS Naturals, SequencesExt

CONSTANTS Clients,
          UserBytes,  \* UserBytes[c]: length of the User message c sends
          BufLen,     \* size of the array data
          None

ASSUME ClientsAssumption == None \notin Clients
ASSUME BytesAssumption   == UserBytes \in [Clients -> Nat]
ASSUME BufferAssumption  == BufLen \in Nat \ {0}

VARIABLES
    responserType, \* "grpc" or "socket", fixed at compile time
    portFree,      \* nobody else has port 8080
    server,        \* where handle() is
    link,          \* link[c]: the connection, as client c left it
    sent,          \* sent[c]: how many bytes of its message have arrived
    backlog,       \* connections the kernel has completed, oldest first
    cur,           \* the client on the other end of socket
    data,          \* the array data, as the last iteration left it
    log            \* what was printed: the client and its raw payload

clientVars == <<link, sent>>
vars == <<responserType, portFree, server, clientVars, backlog, cur, data, log>>

\* What client c sends: its own bytes, in order.
Payload(c) == [i \in 1 .. UserBytes[c] |-> <<c, i>>]

\* main(): the strategy, and the port both of them bind.
Init ==
    /\ responserType \in {"grpc", "socket"}
    /\ portFree \in BOOLEAN
    /\ server = "start"
    /\ link = [c \in Clients |-> "none"]
    /\ sent = [c \in Clients |-> 0]
    /\ backlog = <<>>
    /\ cur = None
    /\ data = [i \in 1 .. BufLen |-> None]
    /\ log = <<>>

-----------------------------------------------------------------------------
(* Clients and the network. *)

Listening == responserType = "socket" /\ server \in {"accept", "endpoints", "read"}

Connect(c) ==
    /\ Listening
    /\ link[c] = "none"
    /\ link' = [link EXCEPT ![c] = "open"]
    /\ backlog' = Append(backlog, c)
    /\ UNCHANGED <<responserType, portFree, server, sent, cur, data, log>>

\* A segment arrives, with any part of what is still to come.
Deliver(c) ==
    /\ link[c] = "open"
    /\ \E n \in sent[c] + 1 .. UserBytes[c] : sent' = [sent EXCEPT ![c] = n]
    /\ UNCHANGED <<responserType, portFree, server, link, backlog, cur, data, log>>

\* The client closes its side, perhaps early, or the connection is reset, and
\* what was not read is lost.
HangUp(c) ==
    /\ \/ link[c] = "open" /\ link' = [link EXCEPT ![c] = "shut"]
       \/ link[c] \in {"open", "shut"} /\ link' = [link EXCEPT ![c] = "reset"]
    /\ UNCHANGED <<responserType, portFree, server, sent, backlog, cur, data, log>>

-----------------------------------------------------------------------------
(* handle() *)

\* Neither transport survives a port that is taken: the acceptor's constructor
\* throws outside the try, BuildAndStart returns the null that Wait() is called on.
Start ==
    /\ server = "start"
    /\ server' = IF ~portFree THEN "crashed"
                 ELSE IF responserType = "grpc" THEN "wait" ELSE "accept"
    /\ UNCHANGED <<responserType, portFree, clientVars, backlog, cur, data, log>>

Accept ==
    /\ server = "accept"
    /\ backlog # <<>>
    /\ cur' = Head(backlog)
    /\ backlog' = Tail(backlog)
    /\ server' = "endpoints"
    /\ UNCHANGED <<responserType, portFree, clientVars, data, log>>

\* accept() throws, and the catch stands outside the loop: handle() returns and
\* main() with it.
AcceptThrows ==
    /\ server = "accept"
    /\ server' = "ended"
    /\ UNCHANGED <<responserType, portFree, clientVars, backlog, cur, data, log>>

\* remote_endpoint() throws when the peer has reset the connection, with the
\* same end.
Endpoints ==
    /\ server = "endpoints"
    /\ server' = IF link[cur] = "reset" THEN "ended" ELSE "read"
    /\ UNCHANGED <<responserType, portFree, clientVars, backlog, cur, data, log>>

\* The iteration ends: the socket is destroyed, and with it the connection.
NextIteration ==
    /\ server' = "accept"
    /\ cur' = None
    /\ link' = [link EXCEPT ![cur] = "closed"]
    /\ UNCHANGED <<responserType, portFree, sent, backlog>>

\* read_some puts the n bytes that are there over the front of the array.
Fill(n) == data' = [i \in 1 .. BufLen |-> IF i <= n THEN <<cur, i>> ELSE data[i]]

\* ParseFromArray is given these bytes, and whatever it makes of them the loop
\* prints and goes on.
LogUser(bytes) == log' = Append(log, [client |-> cur, bytes |-> bytes])

\* Variant: the array is parsed to its end instead of to len.
ReadWholeArray ==
    /\ server = "read"
    /\ link[cur] # "reset" /\ sent[cur] > 0
    /\ Fill(IF sent[cur] < BufLen THEN sent[cur] ELSE BufLen)
    /\ LogUser(SelectSeq(data', LAMBDA b : b # None))
    /\ NextIteration

\* One read_some returns what has arrived, as far as the array holds it.
ReadSome ==
    /\ server = "read"
    /\ link[cur] # "reset" /\ sent[cur] > 0
    /\ LET len == IF sent[cur] < BufLen THEN sent[cur] ELSE BufLen
       IN  Fill(len) /\ LogUser(SubSeq(data', 1, len))
    /\ NextIteration

\* Variant: the loop reads again until there are bytes.
ReadUntilBytes ==
    /\ server = "read"
    /\ link[cur] = "reset" \/ (link[cur] = "shut" /\ sent[cur] = 0)
    /\ UNCHANGED vars

\* End of stream or an error: len is 0, the error is not looked at, and what is
\* printed is a User with no field set.
ReadNothing ==
    /\ server = "read"
    /\ link[cur] = "reset" \/ (link[cur] = "shut" /\ sent[cur] = 0)
    /\ LogUser(<<>>)
    /\ UNCHANGED data
    /\ NextIteration

handle == Start \/ Accept \/ Endpoints \/ ReadSome \/ ReadNothing

Next ==
    \/ handle \/ AcceptThrows
    \/ \E c \in Clients : Connect(c) \/ Deliver(c) \/ HangUp(c)

Spec == Init /\ [][Next]_vars

\* The thread of main() runs on; nobody has to connect, send or hang up, and no
\* system call has to fail.
FairSpec == Spec /\ WF_vars(handle)

-----------------------------------------------------------------------------
(* Properties. *)

\* What is printed for a client is a beginning of what that client sent: the
\* array, which keeps the bytes of earlier clients, never shows through.
OnlyOwnBytes ==
    \A i \in DOMAIN log : IsPrefix(log[i].bytes, Payload(log[i].client))

\* A client waits for good only behind one that neither sends nor hangs up, or
\* when a reset or accept() has ended the server: a client that is gone, or whose message
\* is cut short, does not hold up the others.
Stalled == server = "read" /\ link[cur] = "open" /\ sent[cur] = 0

Logged(c) == \E i \in DOMAIN log : log[i].client = c

EveryClientIsRead ==
    []<>~Stalled =>
      \A c \in Clients : link[c] = "open" ~> Logged(c) \/ server = "ended"
=============================================================================
