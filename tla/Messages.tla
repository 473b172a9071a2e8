------------------------------- MODULE Messages -------------------------------
(***************************************************************************)
(* The message classes User, LoginRequest and LoginResponse that the login *)
(* service and its clients work on (user_service.pb.h, user_service.pb.cc):*)
(* has-bits beside values, a User behind a pointer inside a LoginRequest,  *)
(* on the heap or in an arena, and the wire format.                        *)
(*                                                                         *)
(* An action is one call of the classes' interface by a program that keeps *)
(* to their rules.  The protobuf runtime underneath is external.  Unknown  *)
(* fields and cached sizes are left out.                                   *)
(***************************************************************************)
EXTENDS Naturals, Sequences, FiniteSets, SequencesExt

CONSTANTS Addresses, \* where a User can lie
          Requests,  \* LoginRequest objects
          Responses, \* LoginResponse objects
          Arenas,
          Heap,      \* the place of what lies in no arena
          Values,    \* values of fields that are not the default
          Size,      \* Size[v]: bytes of value v on the wire
          Default,   \* "" or 0
          None

ASSUME HeapAssumption    == Heap \notin Arenas
ASSUME DefaultAssumption == Default \notin Values
ASSUME SizeAssumption    == Size \in [Values -> Nat]
ASSUME NoneAssumption    == None \notin Addresses \cup Values \cup {Default}

VARIABLES
    about, \* the class this behaviour's calls are about: they share no state
    mem,   \* mem[a]: the User at address a, or None
    req,   \* req[r]: where the LoginRequest r lies, its has-bit and user_
    app,   \* app[a]: the program's own claim to the User at a
    rsp    \* rsp[s]: the LoginResponse s

requestVars == <<mem, req, app>>
vars == <<about, requestVars, rsp>>

Places == Arenas \cup {Heap}

-----------------------------------------------------------------------------
(* Messages with scalar fields: User and LoginResponse. *)

\* Fields by number.
User_fields          == <<"password", "email">>
LoginResponse_fields == <<"token", "user_id">>

\* The messages with such fields.
Message(fields) == [has : SUBSET ToSet(fields),
                    val : [ToSet(fields) -> Values \cup {Default}]]

ASSUME NoneIsNoUser == None \notin [home : Places, msg : Message(User_fields)]

\* The default instances.
Blank(fields)         == [has |-> {}, val |-> [f \in ToSet(fields) |-> Default]]
User_default          == Blank(User_fields)
LoginResponse_default == Blank(LoginResponse_fields)

Set(m, f, v) == [has |-> m.has \cup {f}, val |-> [m.val EXCEPT ![f] = v]]
Unset(m, f)  == [has |-> m.has \ {f}, val |-> [m.val EXCEPT ![f] = Default]]

\* What one accessor call can make of field f: set_f, mutable_f (which may write
\* nothing), set_allocated_f; clear_f, release_f, set_allocated_f(nullptr).
Access(m, f) ==
    {Set(m, f, v) : v \in Values \cup {Default, m.val[f]}} \cup {Unset(m, f)}

password(m) == Access(m, "password")
email(m)    == Access(m, "email")
token(m)    == Access(m, "token")
user_id(m)  == Access(m, "user_id")

\* Clear() looks only at strings whose bit is set; a number is reset anyway.
Numbers  == {"user_id"}
Clear(m) == [has |-> {},
             val |-> [f \in DOMAIN m.val |->
                        IF f \in m.has \cup Numbers THEN Default ELSE m.val[f]]]

\* A field that is present and not empty is merged and written.
Written(m, f) == f \in m.has /\ m.val[f] # Default

\* Variant: what is present but empty overwrites too.
MergeOverwrites(to, from) ==
    [has |-> to.has \cup from.has,
     val |-> [f \in DOMAIN to.val |-> IF f \in from.has THEN from.val[f] ELSE to.val[f]]]

\* MergeImpl: what is written overwrites.
MergeImpl(to, from) ==
    [has |-> to.has \cup from.has,
     val |-> [f \in DOMAIN to.val |-> IF Written(from, f) THEN from.val[f] ELSE to.val[f]]]

\* _InternalSerialize: by number.
OnWire(m, f) == IF Written(m, f) THEN <<<<f, m.val[f]>>>> ELSE <<>>

Serialize(m, fields) == OnWire(m, fields[1]) \o OnWire(m, fields[2])

\* ByteSizeLong: a byte for the tag, and the value.
FieldSize(m, f) == IF Written(m, f) THEN 1 + Size[m.val[f]] ELSE 0

ByteSizeLong(m, fields) == FieldSize(m, fields[1]) + FieldSize(m, fields[2])

\* The parse table: every field on the wire sets its bit and its value.
Parse(m, wire) ==
    LET read[i \in 0 .. Len(wire)] ==
          IF i = 0 THEN m ELSE Set(read[i - 1], wire[i][1], wire[i][2])
    IN  read[Len(wire)]

-----------------------------------------------------------------------------
(* LoginRequest: a has-bit, and user_, which may point to a User without it. *)

\* What request->user() reads: the default instance when there is none.
user(r) == IF req[r].user = None THEN User_default ELSE mem[req[r].user].msg

\* On the wire: the User as a field of its own, when the has-bit is set.
SerializeRequest(r) ==
    IF req[r].has THEN <<Serialize(user(r), User_fields)>> ELSE <<>>

\* Every occurrence of the field is parsed into one and the same User.
ParseUsers(m, wire) ==
    LET read[i \in 0 .. Len(wire)] == IF i = 0 THEN m ELSE Parse(read[i - 1], wire[i])
    IN  read[Len(wire)]

Unused == {a \in Addresses : mem[a] = None}

\* A User is constructed at an unused address, in request r's place.
At(r, m) == [home |-> req[r].place, msg |-> m]

\* Clear() of the request: the User is kept, and cleared if the bit was set.
Cleared(r) == IF req[r].has THEN Clear(user(r)) ELSE user(r)

\* The User of r becomes m, one being constructed if there is none.
Become(r, m) ==
    IF req[r].user = None
      THEN \E a \in Unused : /\ mem' = [mem EXCEPT ![a] = At(r, m)]
                             /\ req' = [req EXCEPT ![r].has = TRUE, ![r].user = a]
      ELSE /\ mem' = [mem EXCEPT ![req[r].user].msg = m]
           /\ req' = [req EXCEPT ![r].has = TRUE]

Init ==
    /\ about \in {"LoginRequest", "LoginResponse"}
    /\ mem = [a \in Addresses |-> None]
    /\ req \in [Requests -> [place : Places, has : {FALSE}, user : {None}]]
    /\ app = [a \in Addresses |-> "none"]
    /\ rsp = [s \in Responses |-> LoginResponse_default]

\* mutable_user(), and one accessor of the User it returns.
mutable_user(r) ==
    /\ \E m \in {user(r)} \cup password(user(r)) \cup email(user(r)) : Become(r, m)
    /\ UNCHANGED app

\* Variant: the User is left as it is.
ClearBitOnly(r) ==
    /\ req' = [req EXCEPT ![r].has = FALSE]
    /\ UNCHANGED <<mem, app>>

clear_user(r) ==
    /\ mem' = [a \in Addresses |-> IF a = req[r].user
                                     THEN [mem[a] EXCEPT !.msg = Clear(@)] ELSE mem[a]]
    /\ req' = [req EXCEPT ![r].has = FALSE]
    /\ UNCHANGED app

ClearRequest(r) ==
    /\ mem' = [a \in Addresses |-> IF a = req[r].user
                                     THEN [mem[a] EXCEPT !.msg = Cleared(r)] ELSE mem[a]]
    /\ req' = [req EXCEPT ![r].has = FALSE]
    /\ UNCHANGED app

\* ~LoginRequest deletes the User (the arena does, in an arena), and a new
\* LoginRequest is constructed in the same place.
Reconstruct(r) ==
    /\ mem' = [a \in Addresses |-> IF a = req[r].user THEN None ELSE mem[a]]
    /\ req' = [req EXCEPT ![r].has = FALSE, ![r].user = None]
    /\ UNCHANGED app

\* The copy constructor.
CopyConstruct(r, q) ==
    /\ req[r].user = None /\ ~req[r].has
    /\ req[q].has
    /\ Become(r, user(q))
    /\ UNCHANGED app

\* MergeImpl of the request.
MergeRequest(r, q) ==
    /\ r # q
    /\ IF req[q].has THEN Become(r, MergeImpl(user(r), user(q)))
                     ELSE UNCHANGED <<mem, req>>
    /\ UNCHANGED app

\* CopyFrom: Clear and MergeFrom.
CopyFrom(r, q) ==
    /\ r # q
    /\ IF req[q].has THEN /\ Become(r, MergeImpl(Cleared(r), user(q)))
                          /\ UNCHANGED app
                     ELSE ClearRequest(r)

\* r.ParseFromString(q.SerializeAsString()), as between a client and a server.
Transfer(r, q) ==
    /\ r # q
    /\ IF req[q].has THEN /\ Become(r, ParseUsers(Cleared(r), SerializeRequest(q)))
                          /\ UNCHANGED app
                     ELSE ClearRequest(r)

InternalSwap(r, q) ==
    /\ req' = [req EXCEPT ![r] = req[q], ![q] = req[r]]
    /\ UNCHANGED <<mem, app>>

\* Swap() moves pointers inside one place, and the move assignment too; across
\* places the one is left to the runtime, which copies, and the other copies.
Swap(r, q) ==
    /\ r # q
    /\ req[r].place = req[q].place
    /\ InternalSwap(r, q)

Move(r, q) == IF req[r].place = req[q].place THEN Swap(r, q) ELSE CopyFrom(r, q)

-----------------------------------------------------------------------------
(* Users that pass between a request and the program. *)

\* release_user(): the program must delete what it gets, which for a request in
\* an arena is a duplicate on the heap.
release_user(r) ==
    LET u == req[r].user
    IN  /\ u # None
        /\ req' = [req EXCEPT ![r].has = FALSE, ![r].user = None]
        /\ IF req[r].place = Heap
             THEN app' = [app EXCEPT ![u] = "owned"] /\ UNCHANGED mem
             ELSE \E a \in Unused :
                    /\ mem' = [mem EXCEPT ![u] = None, ![a] = [home |-> Heap, msg |-> user(r)]]
                    /\ app' = [app EXCEPT ![a] = "owned"]

\* unsafe_arena_release_user(): the pointer itself, which the arena goes on owning.
unsafe_arena_release_user(r) ==
    LET u == req[r].user
    IN  /\ u # None
        /\ req' = [req EXCEPT ![r].has = FALSE, ![r].user = None]
        /\ app' = [app EXCEPT ![u] = IF req[r].place = Heap THEN "owned" ELSE "lent"]
        /\ UNCHANGED mem

\* The old User of r is deleted, or left to its arena, and the one at a takes
\* its place; a = None is nullptr.
TakeUser(r, a) ==
    /\ mem' = [b \in Addresses |-> CASE b = req[r].user -> None
                                     [] b = a -> [mem[b] EXCEPT !.home = req[r].place]
                                     [] OTHER -> mem[b]]
    /\ req' = [req EXCEPT ![r].has = a # None, ![r].user = a]
    /\ app' = [b \in Addresses |-> IF b = a THEN "none" ELSE app[b]]

\* The old User of r goes, and a copy of the one at a, which stays where it is,
\* takes its place.
TakeCopy(r, a) ==
    /\ \E c \in Unused :
         /\ mem' = [b \in Addresses |-> CASE b = req[r].user -> None
                                          [] b = c -> At(r, mem[a].msg)
                                          [] OTHER -> mem[b]]
         /\ req' = [req EXCEPT ![r].has = TRUE, ![r].user = c]
    /\ UNCHANGED app

\* Variant: the pointer is taken, wherever it points.
TakeUnchecked(r, a) ==
    /\ a \in Addresses /\ app[a] # "none"
    /\ mem' = [b \in Addresses |-> IF b = req[r].user THEN None ELSE mem[b]]
    /\ req' = [req EXCEPT ![r].has = TRUE, ![r].user = a]
    /\ app' = [app EXCEPT ![a] = "none"]

\* set_allocated_user(), of nullptr or of a User the program has.  One that lies
\* elsewhere goes through GetOwnedMessage, which hands a User from the heap to the
\* request's arena and copies one that lies in an arena.
set_allocated_user(r, a) ==
    \/ /\ a = None \/ (a \in Addresses /\ app[a] # "none" /\ mem[a].home \in {Heap, req[r].place})
       /\ TakeUser(r, a)
    \/ /\ a \in Addresses
       /\ app[a] # "none" /\ mem[a].home \notin {Heap, req[r].place}
       /\ TakeCopy(r, a)

\* unsafe_arena_set_allocated_user(): a User that lies where the request does.
unsafe_arena_set_allocated_user(r, a) ==
    /\ a \in Addresses
    /\ app[a] # "none" /\ mem[a].home = req[r].place
    /\ TakeUser(r, a)

\* The program deletes a User of its own, or forgets one that an arena owns.
Discard(a) ==
    /\ app[a] # "none"
    /\ mem' = [mem EXCEPT ![a] = None]
    /\ app' = [app EXCEPT ![a] = "none"]
    /\ UNCHANGED req

RequestCall ==
    /\ about = "LoginRequest"
    /\ \/ \E r \in Requests :
            \/ mutable_user(r) \/ clear_user(r) \/ ClearRequest(r) \/ Reconstruct(r)
            \/ release_user(r) \/ unsafe_arena_release_user(r)
            \/ \E a \in Addresses \cup {None} :
                 set_allocated_user(r, a) \/ unsafe_arena_set_allocated_user(r, a)
            \/ \E q \in Requests :
                 \/ CopyConstruct(r, q) \/ MergeRequest(r, q) \/ CopyFrom(r, q)
                 \/ Transfer(r, q) \/ Swap(r, q) \/ Move(r, q)
       \/ \E a \in Addresses : Discard(a)
    /\ UNCHANGED <<about, rsp>>

-----------------------------------------------------------------------------
(* LoginResponse *)

ResponseAccess(s) == \E m \in token(rsp[s]) \cup user_id(rsp[s]) :
                       rsp' = [rsp EXCEPT ![s] = m]

ResponseClear(s) == rsp' = [rsp EXCEPT ![s] = Clear(@)]

ResponseReconstruct(s) == rsp' = [rsp EXCEPT ![s] = LoginResponse_default]

ResponseMerge(s, t) == rsp' = [rsp EXCEPT ![s] = MergeImpl(@, rsp[t])]

ResponseCopy(s, t) == rsp' = [rsp EXCEPT ![s] = MergeImpl(Clear(@), rsp[t])]

ResponseTransfer(s, t) ==
    rsp' = [rsp EXCEPT ![s] = Parse(Clear(@), Serialize(rsp[t], LoginResponse_fields))]

ResponseSwap(s, t) == rsp' = [rsp EXCEPT ![s] = rsp[t], ![t] = rsp[s]]

ResponseCall ==
    /\ about = "LoginResponse"
    /\ \E s \in Responses :
         \/ ResponseAccess(s) \/ ResponseClear(s) \/ ResponseReconstruct(s)
         \/ \E t \in Responses \ {s} :
              \/ ResponseMerge(s, t) \/ ResponseCopy(s, t)
              \/ ResponseTransfer(s, t) \/ ResponseSwap(s, t)
    /\ UNCHANGED <<about, requestVars>>

Next == RequestCall \/ ResponseCall

Spec == Init /\ [][Next]_vars

-----------------------------------------------------------------------------
(* Properties. *)

Bitless(m) == \A f \in DOMAIN m.val : f \notin m.has => m.val[f] = Default

\* CheckHasBitConsistency: a field whose bit is not set has its default value,
\* through every sequence of calls, so a getter, which does not look at the bit,
\* never shows what was cleared or sent in an earlier request; and a request
\* with its bit set has a User.
HasBitConsistency ==
    /\ \A a \in Addresses : mem[a] # None => Bitless(mem[a].msg)
    /\ \A s \in Responses : Bitless(rsp[s])
    /\ \A r \in Requests : IF req[r].has THEN req[r].user # None
                           ELSE user(r) = User_default

\* Every User there is has one owner, which is the request that points to it or
\* the program, and lies where its owner does: none is deleted twice, used after
\* its end, shared by two requests, or forgotten.
OneOwner ==
    LET Claims(a) == {r \in Requests : req[r].user = a}
    IN  /\ \A a \in Addresses :
             Cardinality(Claims(a)) + Cardinality({a} \cap {b \in Addresses : app[b] # "none"})
               = IF mem[a] = None THEN 0 ELSE 1
        /\ \A r \in Requests : req[r].user # None => mem[req[r].user].home = req[r].place
        /\ \A a \in Addresses : app[a] = "owned" => mem[a].home = Heap

\* What a reader gets to see of a message.
Seen(m) == m.val

\* The bytes of what is written.
Bytes(wire) ==
    LET sum[i \in 0 .. Len(wire)] == IF i = 0 THEN 0 ELSE sum[i - 1] + 1 + Size[wire[i][2]]
    IN  sum[Len(wire)]

\* The wire format and MergeFrom agree: two messages written one after the other
\* and parsed as one read as the second merged into the first, a message that is
\* parsed reads as the one that was written, and ByteSizeLong, by which the
\* buffer is made, is what is written.
MergeIsConcatenation ==
    /\ \A r, q \in Requests :
         Seen(ParseUsers(User_default, SerializeRequest(r) \o SerializeRequest(q)))
           = Seen(IF req[q].has THEN MergeImpl(user(r), user(q)) ELSE user(r))
    /\ \A s, t \in Responses :
         Seen(Parse(LoginResponse_default, Serialize(rsp[s], LoginResponse_fields)
                                             \o Serialize(rsp[t], LoginResponse_fields)))
           = Seen(MergeImpl(rsp[s], rsp[t]))
    /\ \A s \in Responses :
         ByteSizeLong(rsp[s], LoginResponse_fields)
           = Bytes(Serialize(rsp[s], LoginResponse_fields))
    /\ \A r \in Requests :
         ByteSizeLong(user(r), User_fields) = Bytes(Serialize(user(r), User_fields))
=============================================================================
