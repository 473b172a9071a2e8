---------------------------- MODULE GatewayProofs ----------------------------
(***************************************************************************)
(* Proofs about Gateway, for any number of clients, any lengths of their   *)
(* messages and any size of the array data.                                *)
(***************************************************************************)
EXTENDS Gateway, SequenceTheorems, TLAPS

\* What is printed for one connection.
Entry == [client : Clients, bytes : Seq(Clients \X Nat)]

\* The types of what handle() works with; there is a socket from the accept to
\* the end of the iteration, and none before.
Types ==
    /\ server \in {"start", "accept", "endpoints", "read", "wait", "crashed", "ended"}
    /\ sent \in [Clients -> Nat]
    /\ \A c \in Clients : sent[c] <= UserBytes[c]
    /\ backlog \in Seq(Clients)
    /\ log \in Seq(Entry)
    /\ cur \in Clients \cup {None}
    /\ server \in {"start", "accept"} => cur = None
    /\ server \in {"endpoints", "read"} => cur \in Clients

\* The inductive invariant.
IInv == Types /\ OnlyOwnBytes

-----------------------------------------------------------------------------
USE ClientsAssumption, BytesAssumption, BufferAssumption

\* Nothing has been read before the server starts.
LEMMA InitInv == Init => IInv
<1> SUFFICES ASSUME Init PROVE IInv
  OBVIOUS
<1>1. server = "start" /\ backlog = <<>> /\ log = <<>> /\ cur = None
      /\ sent = [c \in Clients |-> 0]
  BY DEF Init
<1>2. Types
  BY <1>1 DEF Types
<1>3. OnlyOwnBytes
  BY <1>1 DEF OnlyOwnBytes
<1>4. QED
  BY <1>2, <1>3 DEF IInv

\* A client that connects joins those waiting.
LEMMA ConnectStep == ASSUME IInv, NEW c \in Clients, Connect(c) PROVE IInv'
<1>1. UNCHANGED <<server, sent, cur, log>> /\ backlog' = Append(backlog, c)
  BY DEF Connect
<1>2. Types'
  BY <1>1 DEF IInv, Types
<1>3. OnlyOwnBytes'
  BY <1>1 DEF IInv, OnlyOwnBytes, Payload
<1>4. QED
  BY <1>2, <1>3 DEF IInv

\* The client taken from the front of the queue is the one in hand.
LEMMA AcceptStep == ASSUME IInv, Accept PROVE IInv'
<1>1. /\ server = "accept" /\ server' = "endpoints" /\ backlog # <<>>
      /\ cur' = Head(backlog) /\ backlog' = Tail(backlog)
      /\ UNCHANGED <<sent, log>>
  BY DEF Accept, clientVars
<1>2. Head(backlog) \in Clients /\ Tail(backlog) \in Seq(Clients)
  <2>1. backlog \in Seq(Clients)
    BY DEF IInv, Types
  <2>2. QED
    BY <1>1, <2>1, HeadTailProperties
<1>3. Types'
  BY <1>1, <1>2 DEF IInv, Types
<1>4. OnlyOwnBytes'
  BY <1>1 DEF IInv, OnlyOwnBytes, Payload
<1>5. QED
  BY <1>3, <1>4 DEF IInv

\* What ReadSome and ReadNothing have in common: bytes are printed for the client
\* in hand, and its connection is gone.
Prints(bytes) == server = "read" /\ LogUser(bytes) /\ NextIteration

\* The client in hand joins those printed.
LEMMA PrintStep ==
    ASSUME IInv, NEW bytes \in Seq(Clients \X Nat), Prints(bytes),
           IsPrefix(bytes, Payload(cur))
    PROVE  IInv'
<1>1. /\ server = "read" /\ server' = "accept" /\ cur' = None
      /\ UNCHANGED <<sent, backlog>>
  BY DEF Prints, NextIteration
<1>2. cur \in Clients /\ log \in Seq(Entry) /\ backlog \in Seq(Clients)
  BY <1>1 DEF IInv, Types
<1>3. PICK e \in Entry : e = [client |-> cur, bytes |-> bytes] /\ log' = Append(log, e)
  <2>1. [client |-> cur, bytes |-> bytes] \in Entry
    BY <1>2 DEF Entry
  <2>2. QED
    BY <2>1 DEF Prints, LogUser
<1>4. e.client = cur /\ e.bytes = bytes
  BY <1>3
<1>5. PICK n \in Nat : n = Len(log)
  BY <1>2
<1>6. /\ DOMAIN log = 1 .. n /\ DOMAIN log' = 1 .. n + 1
      /\ \A i \in 1 .. n : log'[i] = log[i]
      /\ log'[n + 1] = e
  BY <1>2, <1>3, <1>5
<1>7. Types'
  <2>1. log' \in Seq(Entry)
    BY <1>2, <1>3
  <2>2. QED
    BY <1>1, <2>1 DEF IInv, Types
<1>8. OnlyOwnBytes'
  <2>1. ASSUME NEW i \in 1 .. n + 1
        PROVE  IsPrefix(log'[i].bytes, Payload(log'[i].client))
    <3>1. CASE i = n + 1
      BY <1>4, <1>6, <3>1
    <3>2. CASE i \in 1 .. n
      BY <1>6, <3>2 DEF IInv, OnlyOwnBytes
    <3>3. QED
      BY <3>1, <3>2
  <2>2. \A c : Payload(c)' = Payload(c)
    BY DEF Payload
  <2>3. QED
    BY <1>6, <2>1, <2>2 DEF OnlyOwnBytes
<1>9. QED
  BY <1>7, <1>8 DEF IInv

\* s has n elements of S in front, and t is these.
HasFront(s, n, S)   == \A i \in 1 .. n : s[i] \in S
IsFront(t, s, n, S) == t \in Seq(S) /\ Len(t) = n /\ \A i \in 1 .. n : t[i] = s[i]

\* SubSeq takes what is in front.
LEMMA FrontOf ==
    ASSUME NEW S, NEW s, NEW n \in Nat \ {0}, HasFront(s, n, S)
    PROVE  IsFront(SubSeq(s, 1, n), s, n, S)
<1>1. /\ SubSeq(s, 1, n) \in Seq(S)
      /\ Len(SubSeq(s, 1, n)) = n
      /\ \A i \in 1 .. n - 1 + 1 : SubSeq(s, 1, n)[i] = s[1 + i - 1]
  BY SubSeqProperties DEF HasFront
<1>2. QED
  BY <1>1 DEF IsFront

\* What read_some has put at the front of the array is a beginning of what the
\* client sent.
LEMMA ReadStep == ASSUME IInv, ReadSome PROVE IInv'
<1>1. cur \in Clients /\ sent[cur] \in Nat /\ sent[cur] > 0 /\ sent[cur] <= UserBytes[cur]
      /\ UserBytes[cur] \in Nat
  BY DEF ReadSome, IInv, Types
<1>2. PICK len \in 1 .. BufLen :
        /\ len <= UserBytes[cur]
        /\ Fill(len)
        /\ LogUser(SubSeq(data', 1, len))
  <2> DEFINE m == IF sent[cur] < BufLen THEN sent[cur] ELSE BufLen
  <2>1. m \in 1 .. BufLen /\ m <= UserBytes[cur]
    BY <1>1
  <2>2. Fill(m) /\ LogUser(SubSeq(data', 1, m))
    BY DEF ReadSome
  <2> HIDE DEF m
  <2>3. QED
    BY <2>1, <2>2
<1>3. \A i \in 1 .. len : data'[i] = <<cur, i>>
  BY <1>2 DEF Fill
<1>4. /\ SubSeq(data', 1, len) \in Seq(Clients \X Nat)
      /\ Len(SubSeq(data', 1, len)) = len
      /\ \A i \in 1 .. len : SubSeq(data', 1, len)[i] = <<cur, i>>
  <2>1. \A i \in 1 .. len : data'[i] \in Clients \X Nat
    BY <1>1, <1>3
  <2>2. QED
    BY <1>3, <2>1, FrontOf DEF HasFront, IsFront
<1>5. IsPrefix(SubSeq(data', 1, len), Payload(cur))
  <2>1. PICK s \in Seq(Clients \X Nat) : s = SubSeq(data', 1, len)
    BY <1>4
  <2>2. Payload(cur) \in Seq(Clients \X Nat) /\ Len(Payload(cur)) = UserBytes[cur]
        /\ \A i \in 1 .. UserBytes[cur] : Payload(cur)[i] = <<cur, i>>
    <3>1. Payload(cur) \in [1 .. UserBytes[cur] -> Clients \X Nat]
      BY <1>1 DEF Payload
    <3>2. \A i \in 1 .. UserBytes[cur] : Payload(cur)[i] = <<cur, i>>
      BY DEF Payload
    <3>3. Payload(cur) \in Seq(Clients \X Nat) /\ Len(Payload(cur)) = UserBytes[cur]
      BY <1>1, <3>1
    <3>4. QED
      BY <3>2, <3>3
  <2>3. SubSeq(s, 1, Len(s)) = s
    BY <2>1, SubSeqFull
  <2>4. SubSeq(Payload(cur), 1, len) = s
    <3>1. /\ SubSeq(Payload(cur), 1, len) \in Seq(Clients \X Nat)
          /\ Len(SubSeq(Payload(cur), 1, len)) = len
          /\ \A i \in 1 .. len : SubSeq(Payload(cur), 1, len)[i] = <<cur, i>>
      <4>1. PICK q \in Seq(Clients \X Nat) : q = Payload(cur)
        BY <2>2
      <4>2. \A i \in 1 .. len : q[i] = <<cur, i>> /\ q[i] \in Clients \X Nat
        BY <1>1, <1>2, <2>2, <4>1
      <4>3. /\ SubSeq(q, 1, len) \in Seq(Clients \X Nat)
            /\ Len(SubSeq(q, 1, len)) = len
            /\ \A i \in 1 .. len : SubSeq(q, 1, len)[i] = q[i]
        <5>1. len \in Nat \ {0}
          BY <1>2
        <5>2. HasFront(q, len, Clients \X Nat)
          BY <4>2 DEF HasFront
        <5>3. IsFront(SubSeq(q, 1, len), q, len, Clients \X Nat)
          BY <5>1, <5>2, FrontOf
        <5>4. QED
          BY <5>3 DEF IsFront
      <4>4. QED
        BY <4>1, <4>2, <4>3
    <3>2. QED
      BY <1>4, <2>1, <3>1, SeqEqual
  <2>5. QED
    BY <1>2, <1>4, <2>1, <2>2, <2>3, <2>4 DEF IsPrefix
<1>6. Prints(SubSeq(data', 1, len))
  BY <1>2 DEF Prints, ReadSome
<1>7. QED
  BY <1>4, <1>5, <1>6, PrintStep

\* No bytes are a beginning of every message.
LEMMA ReadNothingStep == ASSUME IInv, ReadNothing PROVE IInv'
<1>1. Prints(<<>>)
  BY DEF ReadNothing, Prints
<1>2. cur \in Clients /\ UserBytes[cur] \in Nat
  BY DEF ReadNothing, IInv, Types
<1>3. Payload(cur) \in Seq(Clients \X Nat)
  <2>1. Payload(cur) \in [1 .. UserBytes[cur] -> Clients \X Nat]
    BY <1>2 DEF Payload
  <2>2. QED
    BY <1>2, <2>1
<1>4. IsPrefix(<<>>, Payload(cur))
  <2>1. SubSeq(<<>>, 1, 0) = <<>> /\ SubSeq(Payload(cur), 1, 0) = <<>>
    BY SubSeqEmpty
  <2>2. Len(<<>>) = 0 /\ Len(Payload(cur)) \in Nat
    BY <1>3
  <2>3. QED
    BY <2>1, <2>2 DEF IsPrefix
<1>5. <<>> \in Seq(Clients \X Nat)
  OBVIOUS
<1>6. QED
  BY <1>1, <1>4, <1>5, PrintStep

\* The other steps of handle() and of the clients print nothing and move no one.
LEMMA OtherStep ==
    ASSUME IInv,
           \/ Start \/ Endpoints \/ AcceptThrows \/ UNCHANGED vars
           \/ \E c \in Clients : Deliver(c) \/ HangUp(c)
    PROVE  IInv'
<1>1. UNCHANGED <<cur, backlog, log>>
  BY DEF Start, Endpoints, AcceptThrows, Deliver, HangUp, vars
<1>2. Types'
  <2>1. CASE Start \/ Endpoints \/ AcceptThrows
    BY <1>1, <2>1 DEF Start, Endpoints, AcceptThrows, clientVars, IInv, Types
  <2>2. CASE UNCHANGED vars \/ \E c \in Clients : HangUp(c)
    BY <1>1, <2>2 DEF HangUp, vars, clientVars, IInv, Types
  <2>3. ASSUME NEW c \in Clients, Deliver(c) PROVE Types'
    <3>1. PICK n \in sent[c] + 1 .. UserBytes[c] : sent' = [sent EXCEPT ![c] = n]
      BY <2>3 DEF Deliver
    <3>2. n \in Nat /\ n <= UserBytes[c]
      BY <3>1 DEF IInv, Types
    <3>3. server' = server
      BY <2>3 DEF Deliver
    <3>4. QED
      BY <1>1, <3>1, <3>2, <3>3 DEF IInv, Types
  <2>4. QED
    BY <2>1, <2>2, <2>3
<1>3. OnlyOwnBytes'
  BY <1>1 DEF IInv, OnlyOwnBytes, Payload
<1>4. QED
  BY <1>2, <1>3 DEF IInv

-----------------------------------------------------------------------------
\* IInv holds initially and every step keeps it.
THEOREM Invariance == Spec => []IInv
<1>1. ASSUME IInv, [Next]_vars PROVE IInv'
  BY <1>1, ConnectStep, AcceptStep, ReadStep, ReadNothingStep, OtherStep DEF Next, handle
<1>2. QED
  BY InitInv, <1>1, PTL DEF Spec

\* What earlier clients left in the array never shows in what is printed
\* (TcpResponserImpl.h).
THEOREM NothingShowsThrough == Spec => []OnlyOwnBytes
<1>1. IInv => OnlyOwnBytes
  BY DEF IInv
<1>2. QED
  BY Invariance, <1>1, PTL
=============================================================================
