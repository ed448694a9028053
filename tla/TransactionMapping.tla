-------------------------- MODULE TransactionMapping --------------------------
(***************************************************************************)
(* mapping.py: the Bank Transaction that map_transaction makes of one of   *)
(* finAPI's, next to the rows that other bank feeds write into the same    *)
(* table under numbers of their own.                                       *)
(***************************************************************************)
EXTENDS Integers

CONSTANTS
  Id,                  \* numbers, finAPI's and those of other feeds
  Amount,              \* amounts, in cents
  NoAmount,            \* one that cannot be parsed
  NoDate

ASSUME MappingAssumption == Amount \subseteq Int /\ NoAmount \notin Int

Feeds == {"finapi", "other"}

\* Dates as finAPI writes them: with a time part, without, or something else.
Written == {"day", "day and time", "garbled", NoDate}
DateFields == [bankBookingDate : Written, valueDate : Written, finapiBookingDate : Written]

VARIABLES
  delivered,           \* finAPI: number and amount of the transactions it has
  rows                 \* the table: a row per key

mappingVars == <<delivered, rows>>

MappingInit == delivered = {} /\ rows = {}

----------------------------------------------------------------------------
(* The conversion.                                                         *)

\* Slip: the number goes without the prefix.
TransactionIdBare(id) == [prefix |-> "", number |-> id]

TransactionId(id) == [prefix |-> "finapi:", number |-> id]

\* What cannot be parsed counts as nothing.
ParseAmount(amount) == IF amount = NoAmount THEN 0 ELSE amount

\* The first ten characters are the date, or there is none.
ParseDate(written) == IF written \in {"day", "day and time"} THEN "day" ELSE NoDate

\* The first that is given, whether it can be parsed or not.
DateOf(dates) ==
  ParseDate(IF dates.bankBookingDate # NoDate THEN dates.bankBookingDate
            ELSE IF dates.valueDate # NoDate THEN dates.valueDate
            ELSE dates.finapiBookingDate)

Deposit(amount) == IF amount > 0 THEN amount ELSE 0
Withdrawal(amount) == IF amount < 0 THEN -amount ELSE 0

MapTransaction(t) ==
  [key |-> TransactionId(t.id),
   deposit |-> Deposit(ParseAmount(t.amount)),
   withdrawal |-> Withdrawal(ParseAmount(t.amount)),
   date |-> DateOf(t.dates)]

Keys == {row.key : row \in rows}

----------------------------------------------------------------------------

\* create_bank_transaction, of one that finAPI delivers.
Import(id, amount, dates) ==
  LET t == [id |-> id, amount |-> amount, dates |-> dates]
  IN /\ \A d \in delivered : d.id # id
     /\ delivered' = delivered \cup {[id |-> id, amount |-> amount]}
     /\ rows' = IF TransactionId(id) \in Keys THEN rows ELSE rows \cup {MapTransaction(t)}

\* Another feed writes a row under a number of its own.
OtherFeed(id, amount) ==
  LET key == [prefix |-> "", number |-> id]
  IN /\ key \notin Keys
     /\ rows' = rows \cup {[key |-> key, deposit |-> Deposit(amount),
                            withdrawal |-> Withdrawal(amount), date |-> "day"]}
     /\ UNCHANGED delivered

MappingNext ==
  \E id \in Id :
     \/ \E amount \in Amount \cup {NoAmount}, dates \in DateFields : Import(id, amount, dates)
     \/ \E amount \in Amount : OtherFeed(id, amount)

MappingSpec == MappingInit /\ [][MappingNext]_mappingVars

----------------------------------------------------------------------------
(* Properties.                                                             *)

\* A row of the table, of any feed.
Row == [key : [prefix : {"", "finapi:"}, number : Id],
        deposit : Nat, withdrawal : Nat, date : {"day", NoDate}]

MappingTypeOK ==
  /\ delivered \subseteq [id : Id, amount : Amount \cup {NoAmount}]
  /\ rows \subseteq Row

\* "We map every transaction": whatever other feeds wrote under the same numbers, each one
\* finAPI delivered has exactly one row, which moves the balance by its amount, to one side.
LedgerIsComplete ==
  \A t \in delivered :
    \E row \in rows :
      /\ \A other \in rows : other.key = row.key => other = row
      /\ row.key.prefix = "finapi:" /\ row.key.number = t.id
      /\ t.amount # NoAmount => row.deposit - row.withdrawal = t.amount
      /\ row.deposit = 0 \/ row.withdrawal = 0

=============================================================================
