----------------------------- MODULE SeededLogin -----------------------------
(***************************************************************************)
(* LoginService between the program that fills its table and the one that  *)
(* calls it: DatabaseFiller::testFillUsers has written the rows,           *)
(* MetaData.h lists the accounts they are for, and StressTester logs in    *)
(* with one entry of that list.  A string built from a name, a surname and *)
(* a number is the record of what it is built from.                        *)
(***************************************************************************)
EXTENDS LoginService

CONSTANTS Draws, \* the name, surname and number drawn for each account, in order
          Index  \* the entry that StressTester uses

\* NAME_SURNAME_number@gmail.com and pass_number
EmailOf(d)    == [name |-> d.name, surname |-> d.surname, number |-> d.number]
PasswordOf(d) == [number |-> d.number]

\* The tables of MetaData.h: entry i of each is for account i.
emails    == [i \in DOMAIN Draws |-> EmailOf(Draws[i])]
passwords == [i \in DOMAIN Draws |-> PasswordOf(Draws[i])]

\* crypto_pwhash_str: a salted hash, which is never the password itself.
crypto_pwhash_str(password) == [argon2id |-> password]

\* Column password of table users, as testFillUsers fills it: an e-mail contains
\* the number that the password is made of.
FilledPasswords ==
    [e \in {emails[i] : i \in DOMAIN Draws} |-> crypto_pwhash_str(PasswordOf(e))]

\* The fixed entry of both tables.
generateLoginData == [email |-> emails[Index], password |-> passwords[Index]]

\* sendRequest puts it into every request.
SeededInit == Init /\ req = [r \in Rpcs |-> generateLoginData]

SeededSpec == SeededInit /\ [][Next]_vars

\* Login "validates email/password against PostgreSQL": a user who gives the
\* password the account was created with is never told that it is wrong.
RegisteredPasswordAccepted ==
    \A r \in Rpcs, i \in DOMAIN Draws :
        /\ reply[r] # None
        /\ req[r] = [email |-> emails[i], password |-> passwords[i]]
        => reply[r].status # "UNAUTHENTICATED"
=============================================================================
