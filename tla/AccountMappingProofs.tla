------------------------ MODULE AccountMappingProofs ------------------------
(***************************************************************************)
(* Proofs about AccountMapping for every number of connections, accounts,  *)
(* Bank Accounts and IBANs.                                                *)
(***************************************************************************)
EXTENDS AccountMapping, TLAPS

----------------------------------------------------------------------------
(* Types.                                                                  *)

\* The previous holder is a Bank Account that holds the account, or nobody.
LEMMA PreviousType ==
  ASSUME TypeOK, NEW b \in BankAccount, NEW a \in Acct, NEW p \in Previous(b, a)
  PROVE  /\ p \in (BankAccount \ {b}) \cup {None}
         /\ p # None => integration[p] = a
         /\ p = None => \/ integration[b] = a
                        \/ \A x \in BankAccount \ {b} : integration[x] # a
  BY MappingAssumption DEF Previous

\* Stamping, releasing and writing back leave accounts and IBANs in their fields.
LEMMA MirrorType ==
  ASSUME TypeOK, NEW b \in BankAccount, NEW a \in Acct, NEW p \in Previous(b, a),
         NEW i \in Iban \cup {None}
  PROVE  /\ Stamped(b, a, p) \in [BankAccount -> Acct \cup {None}]
         /\ Released(i, p) \in [BankAccount -> Iban \cup {None}]
         /\ Backfilled(Released(i, p), b, i) \in [BankAccount -> Iban \cup {None}]
<1>1. Stamped(b, a, p) \in [BankAccount -> Acct \cup {None}]
  BY DEF TypeOK, Stamped
<1>2. Released(i, p) \in [BankAccount -> Iban \cup {None}]
  BY DEF TypeOK, Released
<1>3. Backfilled(Released(i, p), b, i) \in [BankAccount -> Iban \cup {None}]
  BY <1>2 DEF Backfilled
<1> QED BY <1>1, <1>2, <1>3

\* What one account of the refresh does to its row and to the Bank Accounts.
LEMMA MapEffect ==
  ASSUME TypeOK, NEW a \in Acct, MapAccount(a)
  PROVE  /\ row' \in [Acct -> BankAccount \cup {None, Absent}]
         /\ rowIban' \in {rowIban, [rowIban EXCEPT ![a] = IbanOf[a]]}
         /\ \/ UNCHANGED <<row, integration, iban, dropped>> /\ row[a] = Absent
            \/ /\ \E b \in BankAccount \cup {None} : row' = [row EXCEPT ![a] = b]
               /\ dropped' = IF restore THEN dropped \ {a} ELSE dropped
               /\ (row[a] = Absent => a \notin known \/ restore)
               /\ \/ UNCHANGED <<integration, iban>>
                  \/ \E b \in BankAccount : \E p \in Previous(b, a) :
                       integration' = Stamped(b, a, p) /\ iban' = Released(IbanOf[a], p)
<1>1. CASE row[a] = Absent /\ a \in known /\ ~restore
  BY <1>1 DEF MapAccount, TypeOK, bankVars
<1>2. CASE ~(row[a] = Absent /\ a \in known /\ ~restore)
  <2>1. PICK b \in IF row[a] \in BankAccount THEN {row[a]}
                   ELSE IF Matching(a) # {} THEN Matching(a) ELSE {None} :
          /\ row' = [row EXCEPT ![a] = b]
          /\ IF b = None THEN UNCHANGED bankVars
             ELSE \E p \in Previous(b, a) :
                    integration' = Stamped(b, a, p) /\ iban' = Released(IbanOf[a], p)
    BY <1>2 DEF MapAccount
  <2>2. b \in BankAccount \cup {None}
    BY <2>1 DEF Matching
  <2>3. dropped' = IF restore THEN dropped \ {a} ELSE dropped
    BY <1>2 DEF MapAccount
  <2>4. /\ row' \in [Acct -> BankAccount \cup {None, Absent}]
        /\ rowIban' = [rowIban EXCEPT ![a] = IbanOf[a]]
    BY <1>2, <2>1, <2>2 DEF TypeOK, MapAccount
  <2>5. \/ UNCHANGED <<integration, iban>>
        \/ \E x \in BankAccount : \E p \in Previous(x, a) :
             integration' = Stamped(x, a, p) /\ iban' = Released(IbanOf[a], p)
    BY <2>1, <2>2 DEF bankVars
  <2> QED BY <1>2, <2>1, <2>2, <2>3, <2>4, <2>5
<1> QED BY <1>1, <1>2

\* A row that is saved is linked: the work of a save is its linked rows.
ToSave == pc = "save" => \A a \in todo : row[a] \in BankAccount

Typed == TypeOK /\ ToSave

\* The initial states are well typed.
LEMMA TypedInit == Init => Typed
  BY MappingAssumption DEF Init, Typed, TypeOK, ToSave

\* Every step keeps the types.
LEMMA TypedStep == Typed /\ [Next]_vars => Typed'
<1> SUFFICES ASSUME Typed, [Next]_vars PROVE Typed'
  OBVIOUS
<1> USE DEF Typed, ToSave
<1>1. ASSUME NEW c \in Conn, NEW all \in BOOLEAN, RefreshAccounts(c, all) PROVE Typed'
  BY <1>1 DEF RefreshAccounts, Serve, TypeOK, docVars, bankVars, ghostVars
<1>2. ASSUME NEW c \in Conn, UserSave(c) PROVE Typed'
  <2>1. rowIban' \in [Acct -> Iban \cup {None}] /\ entered' \in SUBSET (Iban \cup {None})
    BY <1>2, MappingAssumption DEF UserSave, TypeOK
  <2> QED BY <1>2, <2>1 DEF UserSave, TypeOK, bankVars, AccountsOf
<1>3. ASSUME NEW c \in Conn, DeleteConnection(c) PROVE Typed'
  BY <1>3 DEF DeleteConnection, TypeOK, bankVars, requestVars
<1>4. CASE DiscoverConnections
  BY <1>4 DEF DiscoverConnections, Serve, TypeOK, docVars, bankVars, ghostVars
<1>5. CASE NextConnection
  BY <1>5 DEF NextConnection, TypeOK, bankVars, ghostVars
<1>6. CASE SaveDocument
  BY <1>6 DEF SaveDocument, Linked, AccountsOf, TypeOK, docVars, bankVars, ghostVars
<1>7. CASE RequestEnds
  BY <1>7 DEF RequestEnds, TypeOK, docVars, bankVars, ghostVars
<1>8. ASSUME NEW a \in Acct, MapAccount(a) PROVE Typed'
  <2>1. /\ row' \in [Acct -> BankAccount \cup {None, Absent}]
        /\ rowIban' \in [Acct -> Iban \cup {None}]
        /\ dropped' \in SUBSET Acct
    BY <1>8, MapEffect, MappingAssumption DEF TypeOK
  <2>2. integration' \in [BankAccount -> Acct \cup {None}] /\ iban' \in [BankAccount -> Iban \cup {None}]
    <3>1. CASE UNCHANGED <<integration, iban>>
      BY <3>1 DEF TypeOK
    <3>2. CASE ~UNCHANGED <<integration, iban>>
      <4>1. PICK b \in BankAccount : \E p \in Previous(b, a) :
              integration' = Stamped(b, a, p) /\ iban' = Released(IbanOf[a], p)
        BY <1>8, <3>2, MapEffect
      <4> QED BY <4>1, MirrorType, MappingAssumption
    <3> QED BY <3>1, <3>2
  <2> QED BY <1>8, <2>1, <2>2 DEF MapAccount, TypeOK
<1>9. ASSUME NEW a \in Acct, SaveRow(a) PROVE Typed'
  <2>1. rowIban[a] \in Iban \cup {None}
    BY DEF TypeOK
  <2>2. integration' \in [BankAccount -> Acct \cup {None}] /\ iban' \in [BankAccount -> Iban \cup {None}]
    BY <1>9, <2>1, MirrorType DEF SaveRow
  <2> QED BY <1>9, <2>2 DEF SaveRow, TypeOK, docVars, ghostVars
<1>10. ASSUME NEW a \in Acct, Relist(a) PROVE Typed'
  BY <1>10 DEF Relist, TypeOK, docVars, bankVars, requestVars, ghostVars
<1>11. ASSUME NEW b \in BankAccount, NEW i \in Iban \cup {None}, EditBankAccount(b, i) PROVE Typed'
  BY <1>11 DEF EditBankAccount, TypeOK, docVars, requestVars
<1>12. CASE UNCHANGED vars
  BY <1>12 DEF vars, TypeOK, docVars, bankVars, requestVars, ghostVars
<1> QED BY <1>1, <1>2, <1>3, <1>4, <1>5, <1>6, <1>7, <1>8, <1>9, <1>10, <1>11, <1>12 DEF Next

\* Every field keeps its type in every instance.
THEOREM TypeCorrect == Spec => []TypeOK
<1>1. Typed => TypeOK
  BY DEF Typed
<1> QED BY <1>1, TypedInit, TypedStep, PTL DEF Spec

----------------------------------------------------------------------------
(* The unique index.                                                       *)

\* Stamping releases the only other holder, so the ids stay unique.
LEMMA StampedUnique ==
  ASSUME Typed, IntegrationUnique, NEW b \in BankAccount, NEW a \in Acct,
         NEW p \in Previous(b, a), integration' = Stamped(b, a, p)
  PROVE  IntegrationUnique'
<1>1. \A x \in BankAccount \ {b} : integration'[x] # a
  <2> SUFFICES ASSUME NEW x \in BankAccount \ {b} PROVE integration'[x] # a
    OBVIOUS
  <2>1. CASE p = x
    BY <2>1, MappingAssumption DEF Stamped
  <2>2. CASE p # x
    <3>1. integration'[x] = integration[x]
      BY <2>2 DEF Stamped
    <3>2. integration[x] # a
      BY <2>2, PreviousType, MappingAssumption DEF Typed, IntegrationUnique
    <3> QED BY <3>1, <3>2
  <2> QED BY <2>1, <2>2
<1>2. \A x \in BankAccount \ {b} : integration'[x] \in {integration[x], None}
  BY DEF Stamped
<1>3. integration'[b] = a
  BY DEF Stamped
<1> QED BY <1>1, <1>2, <1>3 DEF IntegrationUnique

\* Only the stamp writes integration_id.
LEMMA UniqueStep == Typed /\ IntegrationUnique /\ [Next]_vars => IntegrationUnique'
<1> SUFFICES ASSUME Typed, IntegrationUnique, [Next]_vars PROVE IntegrationUnique'
  OBVIOUS
<1>1. CASE UNCHANGED integration
  BY <1>1 DEF IntegrationUnique
<1>2. ASSUME NEW a \in Acct, MapAccount(a), ~UNCHANGED integration PROVE IntegrationUnique'
  <2>1. PICK b \in BankAccount : \E p \in Previous(b, a) : integration' = Stamped(b, a, p)
    BY <1>2, MapEffect DEF Typed
  <2> QED BY <2>1, StampedUnique
<1>3. ASSUME NEW a \in Acct, SaveRow(a) PROVE IntegrationUnique'
  BY <1>3, StampedUnique DEF SaveRow, Typed, ToSave
<1>4. ASSUME ~UNCHANGED integration PROVE \E a \in Acct : MapAccount(a) \/ SaveRow(a)
  BY <1>4 DEF Next, vars, bankVars, RefreshAccounts, Serve, DiscoverConnections, UserSave,
              DeleteConnection, NextConnection, SaveDocument, RequestEnds, Relist,
              EditBankAccount
<1> QED BY <1>1, <1>2, <1>3, <1>4

\* No write of any request meets the unique index of integration_id.
THEOREM UniqueMirror == Spec => []IntegrationUnique
<1>1. Init => IntegrationUnique
  BY DEF Init, IntegrationUnique
<1> QED BY <1>1, TypedInit, TypedStep, UniqueStep, PTL DEF Spec

----------------------------------------------------------------------------
(* Rows that were deleted.                                                 *)

\* What has a row, or had one that a user deleted, is known.
DroppedIsKnown ==
  \A a \in Acct : /\ row[a] # Absent => a \in known
                  /\ a \in dropped => row[a] = Absent /\ a \in known

\* A refresh adds rows for accounts nobody deleted only, unless it restores them.
LEMMA DroppedStep == Typed /\ DroppedIsKnown /\ [Next]_vars => DroppedIsKnown'
<1> SUFFICES ASSUME Typed, DroppedIsKnown, [Next]_vars PROVE DroppedIsKnown'
  OBVIOUS
<1> USE DEF DroppedIsKnown
<1>1. ASSUME NEW a \in Acct, MapAccount(a) PROVE DroppedIsKnown'
  <2>1. known' = known \cup {a}
    BY <1>1 DEF MapAccount
  <2>2. CASE UNCHANGED <<row, dropped>>
    BY <2>1, <2>2
  <2>3. CASE /\ \E b \in BankAccount \cup {None} : row' = [row EXCEPT ![a] = b]
             /\ dropped' = IF restore THEN dropped \ {a} ELSE dropped
             /\ row[a] = Absent => a \notin known \/ restore
    <3>1. a \notin dropped'
      BY <2>3
    <3>2. dropped' \subseteq dropped
      BY <2>3
    <3> QED BY <2>1, <2>3, <3>1, <3>2 DEF Typed, TypeOK
  <2> QED BY <1>1, <2>2, <2>3, MapEffect DEF Typed
<1>2. ASSUME NEW c \in Conn, UserSave(c) PROVE DroppedIsKnown'
  BY <1>2 DEF UserSave, AccountsOf
<1>3. ASSUME NEW c \in Conn, DeleteConnection(c) PROVE DroppedIsKnown'
  BY <1>3 DEF DeleteConnection, AccountsOf
<1>4. CASE UNCHANGED <<row, known, dropped>>
  BY <1>4
<1>5. \/ UNCHANGED <<row, known, dropped>>
      \/ \E a \in Acct : MapAccount(a)
      \/ \E c \in Conn : UserSave(c) \/ DeleteConnection(c)
  BY DEF Next, vars, docVars, ghostVars, RefreshAccounts, Serve, DiscoverConnections,
         NextConnection, SaveDocument, RequestEnds, SaveRow, Relist, EditBankAccount
<1> QED BY <1>1, <1>2, <1>3, <1>4, <1>5

\* A row the user deleted stays deleted until it is asked back.
THEOREM RemovedRowsStay == Spec => []RemovedStaysRemoved
<1>1. Init => DroppedIsKnown
  BY DEF Init, DroppedIsKnown
<1>2. Typed /\ DroppedIsKnown => RemovedStaysRemoved
  BY DEF DroppedIsKnown, RemovedStaysRemoved, Typed, TypeOK
<1> QED BY <1>1, <1>2, TypedInit, TypedStep, DroppedStep, PTL DEF Spec

----------------------------------------------------------------------------
(* IBANs of the accountant.                                                *)

\* The IBAN column holds what finAPI reports or what a user typed there.
ColumnIsKnown == \A a \in Acct : rowIban[a] \in {None, IbanOf[a]} \cup entered

\* A refresh writes finAPI's IBAN, a save what was there or what is typed now.
LEMMA ColumnStep == Typed /\ ColumnIsKnown /\ [Next]_vars => ColumnIsKnown'
<1> SUFFICES ASSUME Typed, ColumnIsKnown, [Next]_vars PROVE ColumnIsKnown'
  OBVIOUS
<1> USE DEF ColumnIsKnown
<1>1. ASSUME NEW a \in Acct, MapAccount(a) PROVE ColumnIsKnown'
  BY <1>1, MapEffect DEF MapAccount, Typed, TypeOK
<1>2. ASSUME NEW c \in Conn, UserSave(c) PROVE ColumnIsKnown'
  BY <1>2 DEF UserSave
<1>3. ASSUME NEW c \in Conn, DeleteConnection(c) PROVE ColumnIsKnown'
  BY <1>3 DEF DeleteConnection
<1>4. CASE UNCHANGED <<rowIban, entered>>
  BY <1>4
<1>5. \/ UNCHANGED <<rowIban, entered>>
      \/ \E a \in Acct : MapAccount(a)
      \/ \E c \in Conn : UserSave(c) \/ DeleteConnection(c)
  BY DEF Next, vars, docVars, ghostVars, RefreshAccounts, Serve, DiscoverConnections,
         NextConnection, SaveDocument, RequestEnds, SaveRow, Relist, EditBankAccount
<1> QED BY <1>1, <1>2, <1>3, <1>4, <1>5

\* Releasing clears the IBAN of a row only, writing back fills gaps only.
LEMMA ForeignStep == Typed /\ ColumnIsKnown /\ ForeignIbanKept /\ [Next]_vars => ForeignIbanKept'
<1> SUFFICES ASSUME Typed, ColumnIsKnown, ForeignIbanKept, [Next]_vars PROVE ForeignIbanKept'
  OBVIOUS
<1> USE DEF ForeignIbanKept
<1>1. ASSUME NEW a \in Acct, MapAccount(a), ~UNCHANGED iban PROVE ForeignIbanKept'
  <2>1. PICK b \in BankAccount : \E p \in Previous(b, a) : iban' = Released(IbanOf[a], p)
    BY <1>1, MapEffect DEF Typed
  <2>2. UNCHANGED <<own, entered>>
    BY <1>1 DEF MapAccount
  <2> QED BY <2>1, <2>2 DEF Released
<1>2. ASSUME NEW a \in Acct, SaveRow(a) PROVE ForeignIbanKept'
  <2> DEFINE i == rowIban[a]
  <2>1. PICK p : iban' = Backfilled(Released(i, p), row[a], i)
    BY <1>2 DEF SaveRow
  <2>2. UNCHANGED <<own, entered>>
    BY <1>2 DEF SaveRow, ghostVars
  <2>3. \A x \in BankAccount : iban[x] # None /\ iban[x] # i => iban'[x] = iban[x]
    <3>1. Released(i, p) = [x \in BankAccount |-> IF x = p /\ iban[x] = i THEN None ELSE iban[x]]
      BY DEF Released
    <3> QED BY <2>1, <3>1 DEF Backfilled
  <2>4. i \in {None} \cup entered \cup {IbanOf[x] : x \in Acct}
    BY DEF ColumnIsKnown
  <2> QED BY <2>2, <2>3, <2>4
<1>3. ASSUME NEW b \in BankAccount, NEW i \in Iban \cup {None}, EditBankAccount(b, i)
      PROVE  ForeignIbanKept'
  BY <1>3 DEF EditBankAccount, Typed, TypeOK
<1>4. ASSUME NEW c \in Conn, UserSave(c) PROVE ForeignIbanKept'
  <2>1. UNCHANGED <<iban, own>> /\ entered \subseteq entered'
    BY <1>4 DEF UserSave, bankVars
  <2> QED BY <2>1
<1>5. CASE UNCHANGED <<iban, own, entered>>
  BY <1>5
<1>6. \/ UNCHANGED <<iban, own, entered>>
      \/ \E a \in Acct : SaveRow(a) \/ (MapAccount(a) /\ ~UNCHANGED iban)
      \/ \E c \in Conn : UserSave(c)
      \/ \E b \in BankAccount, i \in Iban \cup {None} : EditBankAccount(b, i)
  BY DEF Next, vars, bankVars, ghostVars, RefreshAccounts, Serve, DiscoverConnections,
         NextConnection, SaveDocument, RequestEnds, DeleteConnection, Relist, MapAccount
<1> QED BY <1>1, <1>2, <1>3, <1>4, <1>5, <1>6

\* Nothing the app does touches an IBAN of the accountant that no finAPI account has
\* and nobody typed into a row.
THEOREM ForeignIbans == Spec => []ForeignIbanKept
<1>1. Init => ForeignIbanKept /\ ColumnIsKnown
  BY DEF Init, ForeignIbanKept, ColumnIsKnown
<1> QED BY <1>1, TypedInit, TypedStep, ColumnStep, ForeignStep, PTL DEF Spec

----------------------------------------------------------------------------
(* One connection: every link is mirrored.                                 *)

\* A row that has its Bank Account to itself.
Alone(a) == row[a] \in BankAccount /\ \A x \in Acct \ {a} : row[x] # row[a]

\* Once a save has been at a row, and when no request is under way, it is mirrored.
SavedIsMirrored ==
  \A a \in Acct :
    /\ pc = "idle" \/ (pc = "save" /\ a \notin todo)
    /\ Alone(a)
    => integration[row[a]] = a

\* Every step keeps the mirror.
LEMMA MirroredStep ==
  ASSUME \A c, d \in Conn : c = d, Typed, SavedIsMirrored, [Next]_vars
  PROVE  SavedIsMirrored'
<1> USE MappingAssumption DEF Typed, TypeOK
<1>0. \A c \in Conn : AccountsOf(c) = Acct
  BY DEF AccountsOf
<1>1. ASSUME NEW c \in Conn, NEW all \in BOOLEAN, RefreshAccounts(c, all) PROVE SavedIsMirrored'
  BY <1>1 DEF RefreshAccounts, Serve, SavedIsMirrored
<1>2. CASE DiscoverConnections \/ NextConnection
  BY <1>2 DEF DiscoverConnections, Serve, NextConnection, SavedIsMirrored
<1>3. ASSUME NEW a \in Acct, MapAccount(a) PROVE SavedIsMirrored'
  BY <1>3 DEF MapAccount, SavedIsMirrored
<1>4. CASE SaveDocument
  <2>1. todo' = {a \in Acct : row[a] \in BankAccount} /\ UNCHANGED row /\ pc' = "save"
    BY <1>0, <1>4 DEF SaveDocument, Linked, docVars
  <2> QED BY <2>1 DEF SavedIsMirrored, Alone
<1>5. ASSUME NEW c \in Conn, UserSave(c) PROVE SavedIsMirrored'
  <2>1. todo' = {a \in Acct : row'[a] \in BankAccount} /\ pc' = "save"
    BY <1>0, <1>5 DEF UserSave
  <2> QED BY <2>1 DEF SavedIsMirrored, Alone
<1>6. ASSUME NEW a \in Acct, SaveRow(a) PROVE SavedIsMirrored'
  <2> DEFINE b == row[a]
  <2>1. b \in BankAccount /\ pc = "save" /\ UNCHANGED <<pc, row>> /\ todo' = todo \ {a}
    BY <1>6 DEF SaveRow, ToSave, docVars
  <2>2. PICK p \in Previous(b, a) : integration' = Stamped(b, a, p)
    BY <1>6 DEF SaveRow
  <2>3. integration'[b] = a
    BY <2>1, <2>2 DEF Stamped
  <2>4. ASSUME NEW x \in Acct \ {a}, x \notin todo, Alone(x) PROVE integration'[row[x]] = x
    <3>1. integration[row[x]] = x /\ row[x] \in BankAccount /\ row[x] # b
      BY <2>1, <2>4 DEF SavedIsMirrored, Alone
    <3>2. p # row[x]
      BY <2>1, <2>2, <3>1, PreviousType
    <3> QED BY <2>1, <2>2, <3>1, <3>2 DEF Stamped
  <2> QED BY <2>1, <2>3, <2>4 DEF SavedIsMirrored, Alone
<1>7. CASE RequestEnds
  BY <1>7 DEF RequestEnds, docVars, bankVars, SavedIsMirrored, Alone
<1>8. ASSUME NEW a \in Acct, Relist(a) PROVE SavedIsMirrored'
  BY <1>8 DEF Relist, docVars, bankVars, requestVars, SavedIsMirrored, Alone
<1>9. ASSUME NEW b \in BankAccount, NEW i \in Iban \cup {None}, EditBankAccount(b, i)
      PROVE  SavedIsMirrored'
  BY <1>9 DEF EditBankAccount, docVars, requestVars, SavedIsMirrored, Alone
<1>10. ASSUME NEW c \in Conn, DeleteConnection(c) PROVE SavedIsMirrored'
  <2>1. \A a \in Acct : row'[a] = Absent
    BY <1>10 DEF DeleteConnection
  <2> QED BY <2>1 DEF SavedIsMirrored, Alone
<1>11. CASE UNCHANGED vars
  BY <1>11 DEF vars, docVars, bankVars, requestVars, SavedIsMirrored, Alone
<1> QED BY <1>1, <1>2, <1>3, <1>4, <1>5, <1>6, <1>7, <1>8, <1>9, <1>10, <1>11 DEF Next

\* With one connection, however rows exchange their Bank Accounts, each that has one to
\* itself finds its id there when the request is over.
THEOREM LinksAreMirrored ==
  ASSUME \A c, d \in Conn : c = d PROVE Spec => []LinkedIsMirrored
<1>1. Init => SavedIsMirrored
  BY MappingAssumption DEF Init, SavedIsMirrored, Alone
<1>2. SavedIsMirrored => LinkedIsMirrored
  BY DEF SavedIsMirrored, LinkedIsMirrored, Alone
<1>3. Typed /\ SavedIsMirrored /\ [Next]_vars => SavedIsMirrored'
  BY MirroredStep
<1> QED BY <1>1, <1>2, <1>3, TypedInit, TypedStep, PTL DEF Spec

=============================================================================
