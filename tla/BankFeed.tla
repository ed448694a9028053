------------------------------ MODULE BankFeed ------------------------------
(***************************************************************************)
(* What the transaction sync promises the ledger, whatever the number of   *)
(* workers, their order and their failures: a transaction that finAPI      *)
(* delivered becomes a Bank Transaction at most once, a run's rows appear  *)
(* together, and a row that is there stays.                                *)
(***************************************************************************)
EXTENDS Naturals

CONSTANT Tx                    \* transactions of the bank

VARIABLES
  delivered,                   \* what finAPI holds for us
  ledger                       \* Bank Transaction rows per transaction

vars == <<delivered, ledger>>

TypeOK == /\ delivered \subseteq Tx
          /\ ledger \in [Tx -> Nat]

Init == /\ delivered \in SUBSET Tx
        /\ ledger = [t \in Tx |-> 0]

\* finAPI receives new transactions from the bank.
Deliver(S) == /\ delivered' = delivered \cup S
              /\ UNCHANGED ledger

\* A run publishes the rows it made: each for a delivered transaction that
\* had none.
Import(S) == /\ S \subseteq delivered
             /\ \A t \in S : ledger[t] = 0
             /\ ledger' = [t \in Tx |-> IF t \in S THEN 1 ELSE ledger[t]]
             /\ UNCHANGED delivered

Next == \E S \in SUBSET Tx : Deliver(S) \/ Import(S)

Spec == Init /\ [][Next]_vars
=============================================================================
