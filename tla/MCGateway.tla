------------------------------ MODULE MCGateway ------------------------------
(* Finite instances of Gateway: every client's message has one length.        *)
EXTENDS Gateway

CONSTANT MessageLength

MCUserBytes == [c \in Clients |-> MessageLength]
=============================================================================
