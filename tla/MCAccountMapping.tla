-------------------------- MODULE MCAccountMapping --------------------------
(* Instances of AccountMapping for TLC.                                     *)
EXTENDS AccountMapping, TLC

CONSTANTS c1, c2, acct1, acct2, iban1, iban2

OneConn == [a \in {acct1, acct2} |-> c1]
TwoConns == [a \in {acct1, acct2} |-> IF a = acct1 THEN c1 ELSE c2]
\* A current account, and one without an IBAN, a credit card for instance.
OneIban == [a \in {acct1, acct2} |-> IF a = acct1 THEN iban1 ELSE None]
OwnIbans == [a \in {acct1, acct2} |-> IF a = acct1 THEN iban1 ELSE iban2]

Everything == EnvEvents
Editing == {"edit iban"}
Alike == Permutations(BankAccount \ Disabled)
=============================================================================
