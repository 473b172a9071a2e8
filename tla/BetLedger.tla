------------------------------ MODULE BetLedger ------------------------------
(***************************************************************************)
(* What the betting service promises of its database, whatever statements, *)
(* locks and failures lie underneath: a request is either recorded as a    *)
(* bet and paid for in one indivisible step, or it leaves no trace.        *)
(***************************************************************************)
EXTENDS Integers, Sequences

CONSTANTS Calls,       \* identities of PlaceBet requests
          Users,       \* ids of the rows of table users
          Amounts,     \* stakes a request may name
          InitBalance  \* InitBalance[u]: users.balance before the first bet

VARIABLES balance,     \* balance[u]: committed users.balance
          bets         \* committed rows of table bets, in commit order

Row == [call : Calls, user : Users, amount : Amounts]

Bet(c, u, a) == [call |-> c, user |-> u, amount |-> a]

Recorded(c) == \E i \in DOMAIN bets : bets[i].call = c

Init ==
    /\ balance = InitBalance
    /\ bets = <<>>

\* A request is recorded once, and only when the balance covers it.
Place(c, u, a) ==
    /\ ~Recorded(c)
    /\ balance[u] >= a
    /\ balance' = [balance EXCEPT ![u] = @ - a]
    /\ bets' = Append(bets, Bet(c, u, a))

Next == \E c \in Calls, u \in Users, a \in Amounts : Place(c, u, a)

Spec == Init /\ [][Next]_<<balance, bets>>

-----------------------------------------------------------------------------
\* The sum of a sequence of integers.
Total(s) == LET sum[i \in 0 .. Len(s)] == IF i = 0 THEN 0 ELSE sum[i - 1] + s[i]
            IN  sum[Len(s)]

\* Everything user u has staked, added up over the table bets.
Stakes(u) == [i \in 1 .. Len(bets) |-> IF bets[i].user = u THEN bets[i].amount ELSE 0]
Staked(u) == Total(Stakes(u))
=============================================================================
