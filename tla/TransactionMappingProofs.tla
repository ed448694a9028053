---------------------- MODULE TransactionMappingProofs ----------------------
(***************************************************************************)
(* Proofs about TransactionMapping for any numbers and amounts.            *)
(***************************************************************************)
EXTENDS TransactionMapping, TLAPS

\* The table has one row per key.
OneRowPerKey == \A row, other \in rows : row.key = other.key => row = other

\* A row under finAPI's prefix comes from finAPI.
OwnRows == \A row \in rows : row.key.prefix = "finapi:" => \E t \in delivered : t.id = row.key.number

MappingInv == MappingTypeOK /\ OneRowPerKey /\ OwnRows /\ LedgerIsComplete

\* What a row of the table is, from an amount.
LEMMA AmountSplits ==
  ASSUME NEW a \in Int
  PROVE  /\ Deposit(a) \in Nat /\ Withdrawal(a) \in Nat
         /\ Deposit(a) - Withdrawal(a) = a
         /\ Deposit(a) = 0 \/ Withdrawal(a) = 0
  BY DEF Deposit, Withdrawal

\* The table is empty in the beginning.
LEMMA MappingInvInit == MappingInit => MappingInv
  BY DEF MappingInit, MappingInv, MappingTypeOK, OneRowPerKey, OwnRows, LedgerIsComplete

\* A row under a key the table has not leaves the others what they were.
LEMMA RowAdded ==
  ASSUME MappingInv, NEW new \in Row, new.key \notin Keys,
         rows' = rows \cup {new}
  PROVE  /\ OneRowPerKey' /\ rows' \subseteq Row
         /\ \A t \in delivered : \E row \in rows' :
              /\ \A other \in rows' : other.key = row.key => other = row
              /\ row.key.prefix = "finapi:" /\ row.key.number = t.id
              /\ t.amount # NoAmount => row.deposit - row.withdrawal = t.amount
              /\ row.deposit = 0 \/ row.withdrawal = 0
<1> USE DEF MappingInv, MappingTypeOK
<1>1. \A row \in rows : row.key # new.key
  BY DEF Keys
<1>2. OneRowPerKey'
  BY <1>1 DEF OneRowPerKey
<1>3. ASSUME NEW t \in delivered
      PROVE  \E row \in rows' :
               /\ \A other \in rows' : other.key = row.key => other = row
               /\ row.key.prefix = "finapi:" /\ row.key.number = t.id
               /\ t.amount # NoAmount => row.deposit - row.withdrawal = t.amount
               /\ row.deposit = 0 \/ row.withdrawal = 0
  <2>1. PICK row \in rows : /\ row.key.prefix = "finapi:" /\ row.key.number = t.id
                            /\ t.amount # NoAmount => row.deposit - row.withdrawal = t.amount
                            /\ row.deposit = 0 \/ row.withdrawal = 0
    BY DEF LedgerIsComplete
  <2>2. \A other \in rows' : other.key = row.key => other = row
    BY <1>1, <2>1 DEF OneRowPerKey
  <2> QED BY <2>1, <2>2
<1> QED BY <1>2, <1>3

\* A delivered transaction whose number was not there before brings a row.
LEMMA ImportKeeps ==
  ASSUME MappingInv, NEW id \in Id, NEW amount \in Amount \cup {NoAmount},
         NEW dates \in DateFields, Import(id, amount, dates)
  PROVE  MappingInv'
<1> USE DEF MappingInv, MappingTypeOK
<1> DEFINE t == [id |-> id, amount |-> amount, dates |-> dates]
           new == MapTransaction(t)
<1>1. /\ \A d \in delivered : d.id # id
      /\ delivered' = delivered \cup {[id |-> id, amount |-> amount]}
      /\ rows' = IF TransactionId(id) \in Keys THEN rows ELSE rows \cup {new}
  BY DEF Import
<1>2. TransactionId(id) = [prefix |-> "finapi:", number |-> id]
  BY DEF TransactionId
<1>3. TransactionId(id) \notin Keys
  BY <1>1, <1>2 DEF OwnRows, Keys
<1>4. rows' = rows \cup {new}
  BY <1>1, <1>3
<1>5. ParseAmount(amount) \in Int /\ (amount # NoAmount => ParseAmount(amount) = amount)
  BY MappingAssumption DEF ParseAmount
<1>6. /\ new.key = TransactionId(id) /\ new.deposit = Deposit(ParseAmount(amount))
      /\ new.withdrawal = Withdrawal(ParseAmount(amount)) /\ new.date = DateOf(dates)
      /\ new = [key |-> TransactionId(id), deposit |-> Deposit(ParseAmount(amount)),
                withdrawal |-> Withdrawal(ParseAmount(amount)), date |-> DateOf(dates)]
  BY DEF MapTransaction
<1>7. DateOf(dates) \in {"day", NoDate}
  BY DEF DateOf, ParseDate
<1>8. new \in Row
  <2>1. TransactionId(id) \in [prefix : {"", "finapi:"}, number : Id]
    BY <1>2
  <2>2. Deposit(ParseAmount(amount)) \in Nat /\ Withdrawal(ParseAmount(amount)) \in Nat
    BY <1>5, AmountSplits
  <2> QED BY <1>6, <1>7, <2>1, <2>2 DEF Row
<1>9. /\ OneRowPerKey' /\ rows' \subseteq Row
      /\ \A u \in delivered : \E row \in rows' :
           /\ \A other \in rows' : other.key = row.key => other = row
           /\ row.key.prefix = "finapi:" /\ row.key.number = u.id
           /\ u.amount # NoAmount => row.deposit - row.withdrawal = u.amount
           /\ row.deposit = 0 \/ row.withdrawal = 0
  BY <1>3, <1>4, <1>6, <1>8, RowAdded
<1>10. OwnRows'
  <2> SUFFICES ASSUME NEW row \in rows', row.key.prefix = "finapi:"
               PROVE  \E u \in delivered' : u.id = row.key.number
    BY DEF OwnRows
  <2>1. CASE row \in rows
    BY <1>1, <2>1 DEF OwnRows
  <2>2. CASE row = new
    <3>1. row.key.number = id
      BY <1>2, <1>6, <2>2
    <3>2. [id |-> id, amount |-> amount] \in delivered' /\ [id |-> id, amount |-> amount].id = id
      BY <1>1
    <3> QED BY <3>1, <3>2
  <2> QED BY <1>4, <2>1, <2>2
<1>11. LedgerIsComplete'
  <2>1. /\ new \in rows' /\ \A other \in rows' : other.key = new.key => other = new
        /\ new.key.prefix = "finapi:" /\ new.key.number = id
        /\ amount # NoAmount => new.deposit - new.withdrawal = amount
        /\ new.deposit = 0 \/ new.withdrawal = 0
    BY <1>2, <1>4, <1>5, <1>6, <1>9, AmountSplits DEF OneRowPerKey
  <2> QED BY <1>1, <1>9, <2>1 DEF LedgerIsComplete
<1>12. delivered' \subseteq [id : Id, amount : Amount \cup {NoAmount}]
  BY <1>1
<1> QED BY <1>9, <1>10, <1>11, <1>12

\* Another feed's row has another key.
LEMMA OtherFeedKeeps ==
  ASSUME MappingInv, NEW id \in Id, NEW amount \in Amount, OtherFeed(id, amount)
  PROVE  MappingInv'
<1> DEFINE key == [prefix |-> "", number |-> id]
           new == [key |-> key, deposit |-> Deposit(amount),
                   withdrawal |-> Withdrawal(amount), date |-> "day"]
<1>1. key \notin Keys /\ rows' = rows \cup {new} /\ UNCHANGED delivered
  BY DEF OtherFeed
<1>2. new \in Row /\ new.key = key /\ key.prefix = ""
  BY MappingAssumption, AmountSplits DEF Row
<1>3. /\ OneRowPerKey' /\ rows' \subseteq Row
      /\ \A u \in delivered : \E row \in rows' :
           /\ \A other \in rows' : other.key = row.key => other = row
           /\ row.key.prefix = "finapi:" /\ row.key.number = u.id
           /\ u.amount # NoAmount => row.deposit - row.withdrawal = u.amount
           /\ row.deposit = 0 \/ row.withdrawal = 0
  BY <1>1, <1>2, RowAdded
<1>4. OwnRows'
  BY <1>1, <1>2 DEF MappingInv, OwnRows
<1> QED BY <1>1, <1>3, <1>4 DEF MappingInv, MappingTypeOK, LedgerIsComplete

\* Every step keeps the invariant.
LEMMA MappingInvStep == MappingInv /\ [MappingNext]_mappingVars => MappingInv'
<1> SUFFICES ASSUME MappingInv, [MappingNext]_mappingVars PROVE MappingInv'
  OBVIOUS
<1>1. CASE UNCHANGED mappingVars
  BY <1>1 DEF mappingVars, MappingInv, MappingTypeOK, OneRowPerKey, OwnRows, LedgerIsComplete
<1> QED BY <1>1, ImportKeeps, OtherFeedKeeps DEF MappingNext

\* Every variable keeps its type.
THEOREM MappingTypeCorrect == MappingSpec => []MappingTypeOK
<1>1. MappingInv => MappingTypeOK
  BY DEF MappingInv
<1> QED BY <1>1, MappingInvInit, MappingInvStep, PTL DEF MappingSpec

\* Each delivered transaction has its one row, with its amount.
THEOREM LedgerComplete == MappingSpec => []LedgerIsComplete
<1>1. MappingInv => LedgerIsComplete
  BY DEF MappingInv
<1> QED BY <1>1, MappingInvInit, MappingInvStep, PTL DEF MappingSpec

=============================================================================
