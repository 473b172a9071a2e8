---------------------------- MODULE MCSeededLogin ----------------------------
(* Two accounts that differ in name only, and clients that use the second. *)
EXTENDS SeededLogin

CONSTANTS smith, jones, abbott, n1

MCDraws == <<[name |-> smith, surname |-> abbott, number |-> n1],
             [name |-> jones, surname |-> abbott, number |-> n1]>>

MCEmails    == {emails[i] : i \in DOMAIN Draws}
MCPasswords == {passwords[i] : i \in DOMAIN Draws}
=============================================================================
