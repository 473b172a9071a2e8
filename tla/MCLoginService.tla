--------------------------- MODULE MCLoginService ---------------------------
(* Finite instances of LoginService: a user whose row has the password in    *)
(* plain text, and one whose row has none.                                   *)
EXTENDS LoginService, TLC

CONSTANTS user, blank, stranger,  \* e-mails: a row, a row with NULL, no row
          right, wrong            \* what users.password holds, and something else

MCEmails    == {user, blank, stranger}
MCPasswords == {right, wrong}
MCStored    == [e \in {user, blank} |-> IF e = user THEN right ELSE None]

\* For runs that do not care what is asked.
MCEmailsOne    == {user}
MCPasswordsOne == {right}
MCStoredOne    == [e \in {user} |-> right]

LoginSymmetry == Permutations(Addresses) \cup Permutations(Rpcs) \cup Permutations(Conns)
=============================================================================
