-------------------------- MODULE MCTransactionSync --------------------------
(* Instances of TransactionSync for TLC.                                    *)
EXTENDS TransactionSync

\* Every account hangs on one connection, t1 on a1 and t2 on a2 (or on a1).
CONSTANTS c1, c2, a1, a2, t1, t2

TwoConnOf == [a \in {a1, a2} |-> IF a = a1 THEN c1 ELSE c2]

OneAccountConnOf == [a \in {a1} |-> c1]
OnlyT1 == [t \in {t1} |-> a1]

SerialEnv == EnvEvents \ {"link", "unlink"}
Nothing == {}
LateLinks == {"link"}
PatientBank == {"challenge", "refuse"}
OverlapEnv == {"kill", "link", "unlink"}
=============================================================================
