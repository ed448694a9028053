--------------------------- MODULE AccountMapping ---------------------------
(***************************************************************************)
(* Which native Bank Account a finAPI account feeds (sca.py from           *)
(* map_accounts on, and what of the bank connection document and of the    *)
(* discovery calls it): the rows of the account table, the mirror          *)
(* integration_id, the IBAN match and the IBAN that is written back.       *)
(*                                                                         *)
(* A request is one database transaction and this module serves one at a   *)
(* time: a failed one is rolled back, that is, it did not happen, and a    *)
(* save of a document that changed since it was read is refused.  IBANs    *)
(* are taken as normalised (normalize_iban strips blanks and case).        *)
(***************************************************************************)

CONSTANTS
  Conn, Acct,          \* connections and accounts of the finAPI user
  ConnOf,              \* connection of an account
  BankAccount,         \* native Bank Accounts
  Disabled,            \* those that are disabled
  Iban, IbanOf,        \* IBANs; what the bank reports for an account, or None
  None,                \* no Bank Account, no IBAN, no id
  Absent,              \* an account without a row
  FormIban,            \* what users type into the IBAN column of the table
  Env                  \* what users and finAPI may do besides, of EnvEvents

EnvEvents == {"relist", "edit iban", "delete"}

ASSUME MappingAssumption ==
  /\ ConnOf \in [Acct -> Conn]
  /\ IbanOf \in [Acct -> Iban \cup {None}]
  /\ Disabled \subseteq BankAccount
  /\ None \notin Iban \cup BankAccount \cup Acct \cup {Absent}
  /\ Absent \notin BankAccount
  /\ FormIban \subseteq Iban \cup {None}
  /\ Env \subseteq EnvEvents

VARIABLES
  listed,              \* finAPI: accounts that it lists at present
  docs,                \* connections that have a document
  row,                 \* account table: Absent, None or a Bank Account
  rowIban,             \* account table: the IBAN column, None without a row
  known,               \* known_account_ids of all documents
  integration, iban,   \* Bank Account: integration_id and iban
  pc,                  \* the request: "idle", "next", "map" or "save"
  queue, doing, todo,  \* connections to do, the one being done, its accounts
  restore,             \* argument include_removed
  own,                 \* history: the iban an accountant entered, else None
  entered,             \* history: IBANs that users typed into a row
  dropped              \* history: accounts whose row a user deleted

bankVars    == <<integration, iban>>
docVars     == <<docs, row, rowIban, known>>
requestVars == <<pc, queue, doing, todo, restore>>
ghostVars   == <<own, entered, dropped>>
vars == <<listed, docVars, bankVars, requestVars, ghostVars>>

AccountsOf(c) == {a \in Acct : ConnOf[a] = c}
Linked(c) == {a \in AccountsOf(c) : row[a] \in BankAccount}

Init ==
  /\ listed \in SUBSET Acct
  /\ docs \in SUBSET Conn
  /\ row = [a \in Acct |-> Absent] /\ rowIban = [a \in Acct |-> None] /\ known = {}
  /\ integration = [b \in BankAccount |-> None]
  /\ iban \in [BankAccount -> Iban \cup {None}]
  /\ "edit iban" \notin Env => \A b \in BankAccount : iban[b] = None
  /\ own = iban /\ entered = {} /\ dropped = {}
  /\ pc = "idle" /\ queue = {} /\ doing \in Conn /\ todo = {} /\ restore = FALSE

----------------------------------------------------------------------------
(* The native Bank Account.                                                *)

\* find_bank_account_by_iban: any of the enabled ones that carry the IBAN.
Matching(a) == {b \in BankAccount \ Disabled : IbanOf[a] # None /\ iban[b] = IbanOf[a]}

\* The Bank Account that has to give up account a before b gets it.
Previous(b, a) ==
  LET holders == {x \in BankAccount \ {b} : integration[x] = a}
  IN IF integration[b] = a \/ holders = {} THEN {None} ELSE holders

\* Slips: the previous holder keeps the id; the IBAN is written into its place.
StampedTwice(b, a, previous) == [integration EXCEPT ![b] = a]
StampedIban(b, a, previous) == [integration EXCEPT ![b] = IbanOf[a]]

\* Slip: a Bank Account that holds an id already is not stamped again.
StampedOnce(b, a, previous) ==
  IF integration[b] # None THEN integration
  ELSE [x \in BankAccount |-> IF x = b THEN a ELSE IF x = previous THEN None ELSE integration[x]]

\* stamp_integration_id: the previous holder is released, b holds a.
Stamped(b, a, previous) ==
  [x \in BankAccount |-> IF x = b THEN a ELSE IF x = previous THEN None ELSE integration[x]]

\* _release_bank_account: the IBAN goes with the id when it is the row's, i.
Released(i, previous) ==
  [x \in BankAccount |-> IF x = previous /\ iban[x] = i THEN None ELSE iban[x]]

\* Slip: the IBAN of the row wins over the one that is there.
BackfilledAlways(ibans, b, i) == [ibans EXCEPT ![b] = i]

\* backfill_iban: an IBAN is written where there is none.
Backfilled(ibans, b, i) ==
  IF ibans[b] = None THEN [ibans EXCEPT ![b] = i] ELSE ibans

----------------------------------------------------------------------------
(* Requests.                                                               *)

Serve(conns, all) ==
  /\ pc = "idle"
  /\ pc' = "next" /\ queue' = conns /\ restore' = all
  /\ UNCHANGED <<listed, docVars, bankVars, doing, todo, ghostVars>>

\* refresh_accounts; also what _complete does after an import or a re-consent.
RefreshAccounts(c, all) == c \in docs /\ Serve({c}, all)

\* discover_connections: all that finAPI has, old and new.
DiscoverConnections == Serve(Conn, FALSE)

\* Slip: known_account_ids holds the last listing instead of all of them.
NextConnectionForgets ==
  /\ pc = "next"
  /\ \E c \in queue :
       /\ doing' = c
       /\ queue' = queue \ {c}
       /\ docs' = docs \cup {c}
       /\ todo' = listed \cap AccountsOf(c)
       /\ known' = known \ (AccountsOf(c) \ listed)
  /\ pc' = "map"
  /\ UNCHANGED <<listed, row, rowIban, bankVars, restore, ghostVars>>

\* The document is read or created, the accounts are listed.
NextConnection ==
  /\ pc = "next"
  /\ \E c \in queue :
       /\ doing' = c
       /\ queue' = queue \ {c}
       /\ docs' = docs \cup {c}
       /\ todo' = listed \cap AccountsOf(c)
  /\ pc' = "map"
  /\ UNCHANGED <<listed, row, rowIban, known, bankVars, restore, ghostVars>>

\* One account of map_accounts.  A row that stays or comes gets finAPI's IBAN
\* back, whatever was typed there.  The id becomes known; the code writes all
\* ids of the listing after the loop, which reads none of them in between.
MapAccount(a) ==
  /\ pc = "map" /\ a \in todo
  /\ todo' = todo \ {a}
  /\ known' = known \cup {a}
  /\ IF row[a] = Absent /\ a \in known /\ ~restore
     THEN UNCHANGED <<row, rowIban, bankVars, dropped>>
     ELSE /\ rowIban' = [rowIban EXCEPT ![a] = IbanOf[a]]
          /\ dropped' = IF restore THEN dropped \ {a} ELSE dropped
          /\ \E b \in IF row[a] \in BankAccount THEN {row[a]}
                      ELSE IF Matching(a) # {} THEN Matching(a) ELSE {None} :
               /\ row' = [row EXCEPT ![a] = b]
               /\ IF b = None THEN UNCHANGED bankVars
                  ELSE \E previous \in Previous(b, a) :
                         /\ integration' = Stamped(b, a, previous)
                         /\ iban' = Released(IbanOf[a], previous)
  /\ UNCHANGED <<listed, docs, pc, queue, doing, restore, own, entered>>

\* doc.save(): on_update goes over the rows that are linked.
SaveDocument ==
  /\ pc = "map" /\ todo = {}
  /\ pc' = "save"
  /\ todo' = Linked(doing)
  /\ UNCHANGED <<listed, docVars, bankVars, queue, doing, restore, ghostVars>>

\* A user saves the form: rows deleted, Bank Accounts picked, exchanged, cleared,
\* and an IBAN typed into rows, for the column is editable.
UserSave(c) ==
  /\ pc = "idle" /\ c \in docs
  /\ \E table \in [Acct -> BankAccount \cup {None, Absent}] :
       /\ \A a \in Acct : ConnOf[a] # c \/ row[a] = Absent => table[a] = row[a]
       /\ row' = table
       /\ dropped' = dropped \cup {a \in AccountsOf(c) : row[a] # Absent /\ table[a] = Absent}
       /\ todo' = {a \in AccountsOf(c) : table[a] \in BankAccount}
       /\ LET kept == {a \in AccountsOf(c) : table[a] # Absent}
              Column(at, i) == [a \in Acct |-> IF a \in at THEN i
                                              ELSE IF table[a] = Absent THEN None ELSE rowIban[a]]
          IN \/ rowIban' = Column({}, None) /\ UNCHANGED entered
             \/ \E at \in SUBSET kept \ {{}}, i \in FormIban :
                  rowIban' = Column(at, i) /\ entered' = entered \cup {i}
  /\ doing' = c
  /\ pc' = "save"
  /\ UNCHANGED <<listed, docs, known, bankVars, queue, restore, own>>

\* One row of on_update: stamp_integration_id, then backfill_iban, both with the
\* IBAN that stands in the row.
SaveRow(a) ==
  /\ pc = "save" /\ a \in todo
  /\ todo' = todo \ {a}
  /\ \E previous \in Previous(row[a], a) :
       /\ integration' = Stamped(row[a], a, previous)
       /\ iban' = Backfilled(Released(rowIban[a], previous), row[a], rowIban[a])
  /\ UNCHANGED <<listed, docVars, pc, queue, doing, restore, ghostVars>>

RequestEnds ==
  /\ pc = "save" /\ todo = {}
  /\ pc' = IF queue = {} THEN "idle" ELSE "next"
  /\ UNCHANGED <<listed, docVars, bankVars, queue, doing, todo, restore, ghostVars>>

----------------------------------------------------------------------------
(* Around the requests.                                                    *)

\* finAPI starts or stops to list an account.
Relist(a) ==
  /\ "relist" \in Env
  /\ listed' = IF a \in listed THEN listed \ {a} ELSE listed \cup {a}
  /\ UNCHANGED <<docVars, bankVars, requestVars, ghostVars>>

\* An accountant enters or clears the IBAN of a Bank Account.
EditBankAccount(b, i) ==
  /\ "edit iban" \in Env /\ pc = "idle"
  /\ iban' = [iban EXCEPT ![b] = i]
  /\ own' = [own EXCEPT ![b] = i]
  /\ UNCHANGED <<listed, docVars, integration, requestVars, entered, dropped>>

\* The document is deleted with its table; the Bank Accounts keep their fields.
DeleteConnection(c) ==
  /\ "delete" \in Env /\ pc = "idle" /\ c \in docs
  /\ docs' = docs \ {c}
  /\ row' = [a \in Acct |-> IF ConnOf[a] = c THEN Absent ELSE row[a]]
  /\ rowIban' = [a \in Acct |-> IF ConnOf[a] = c THEN None ELSE rowIban[a]]
  /\ known' = known \ AccountsOf(c)
  /\ dropped' = dropped \ AccountsOf(c)
  /\ UNCHANGED <<listed, bankVars, requestVars, own, entered>>

Next ==
  \/ \E c \in Conn : \/ \E all \in BOOLEAN : RefreshAccounts(c, all)
                     \/ UserSave(c) \/ DeleteConnection(c)
  \/ DiscoverConnections \/ NextConnection \/ SaveDocument \/ RequestEnds
  \/ \E a \in Acct : MapAccount(a) \/ SaveRow(a) \/ Relist(a)
  \/ \E b \in BankAccount, i \in Iban \cup {None} : EditBankAccount(b, i)

Spec == Init /\ [][Next]_vars

----------------------------------------------------------------------------
(* Properties.                                                             *)

\* Every field of the table, the Bank Accounts and the request has its type.
TypeOK ==
  /\ listed \in SUBSET Acct /\ docs \in SUBSET Conn
  /\ row \in [Acct -> BankAccount \cup {None, Absent}] /\ known \in SUBSET Acct
  /\ rowIban \in [Acct -> Iban \cup {None}]
  /\ integration \in [BankAccount -> Acct \cup {None}]
  /\ iban \in [BankAccount -> Iban \cup {None}]
  /\ pc \in {"idle", "next", "map", "save"}
  /\ queue \in SUBSET Conn /\ doing \in Conn /\ todo \in SUBSET Acct
  /\ restore \in BOOLEAN
  /\ own \in [BankAccount -> Iban \cup {None}]
  /\ entered \in SUBSET (Iban \cup {None}) /\ dropped \in SUBSET Acct

\* The unique index on integration_id is never hit: at every write of every
\* request, in whatever order rows exchange their Bank Accounts, no two Bank
\* Accounts hold the same finAPI account.
IntegrationUnique ==
  \A b, x \in BankAccount :
    integration[b] = integration[x] /\ integration[b] # None => b = x

\* A row that has its Bank Account for itself finds its id mirrored there once a
\* request is over, after any exchange of mappings, release, refresh or deletion.
\* Holds for a single connection.
LinkedIsMirrored ==
  pc = "idle" =>
    \A a \in Acct :
      /\ row[a] \in BankAccount
      /\ \A x \in Acct \ {a} : row[x] # row[a]
      => integration[row[a]] = a

\* A row the user deleted stays deleted until someone restores it: through
\* refreshes, re-consents and discoveries, and when finAPI stops to list the
\* account for a while.
RemovedStaysRemoved == \A a \in dropped : row[a] = Absent

\* An IBAN an accountant entered is never overwritten nor cleared, however the
\* mapping around it is corrected, unless it is the IBAN of a finAPI account or
\* somebody typed it into a row of the account table.
ForeignIbanKept ==
  \A b \in BankAccount :
    own[b] \notin {None} \cup entered \cup {IbanOf[a] : a \in Acct} => iban[b] = own[b]

\* The same for every IBAN an accountant entered, as _release_bank_account says.
OwnIbanKept == \A b \in BankAccount : own[b] # None => iban[b] = own[b]

=============================================================================
