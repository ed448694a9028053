------------------------------ MODULE BankSetup ------------------------------
(***************************************************************************)
(* From the bank search to the first request of an import or a re-consent: *)
(* search_bank, render_banks and start_sca of the form, its two editable   *)
(* fields, get_login_fields, and the document the server then reads.  A    *)
(* credential is known by the bank and interface whose login fields asked  *)
(* for it.                                                                 *)
(***************************************************************************)
EXTENDS Sequences, FiniteSets

CONSTANTS
  Tab,
  Bank,
  Offers,              \* the interfaces of each bank in finAPI's directory, in its order
  NoBank, NoRequest

XS2A == "XS2A"
Interface == {XS2A, "FINTS_SERVER"}

ASSUME SetupAssumption == Offers \in [Bank -> {<<>>} \cup {<<i>> : i \in Interface}
                                              \cup {<<i, j>> : i, j \in Interface}]

Offered(bank) == {Offers[bank][k] : k \in DOMAIN Offers[bank]}

\* A bank of which the directory lists no interfaces is taken to have any.
Has(bank, interface) == Offered(bank) = {} \/ interface \in Offered(bank)

VARIABLES
  stored,              \* the document: bank and interface, and typed, of the history
  importedFrom,        \* the bank of its finAPI connection, or NoBank
  tab,                 \* tabs: the form's choice, edits not saved, copy fresh, imported
  dialog,              \* Bank Login: what its fields are for, and the button; or NoRequest
  request              \* just made to the bank: what it names, what its fields were for; or NoRequest

setupVars == <<stored, importedFrom, tab, dialog, request>>

\* Typed: bank or interface were set by hand since a result of the search was clicked.
Choice == [bank : Bank \cup {NoBank}, interface : Interface, typed : BOOLEAN]

Loaded == [form |-> stored, dirty |-> FALSE, fresh |-> TRUE, imported |-> importedFrom # NoBank]

SetupInit ==
  /\ stored = [bank |-> NoBank, interface |-> XS2A, typed |-> FALSE] /\ importedFrom = NoBank
  /\ tab = [t \in Tab |-> Loaded]
  /\ dialog = [t \in Tab |-> NoRequest] /\ request = NoRequest

OpenForm(t) ==
  /\ dialog[t] = NoRequest
  /\ tab' = [tab EXCEPT ![t] = Loaded]
  /\ request' = NoRequest /\ UNCHANGED <<stored, importedFrom, dialog>>

\* Slip: the interface of the bank that was chosen before is kept.
AsBefore(bank, interface) == interface

\* A bank that does not offer the interface changes it to the first it has.
Fitting(bank, interface) ==
  IF Has(bank, interface) THEN interface ELSE Offers[bank][1]

\* A result of the search is clicked.
PickBank(t, bank) ==
  /\ dialog[t] = NoRequest
  /\ tab' = [tab EXCEPT ![t].form = [bank |-> bank, interface |-> Fitting(bank, @.interface),
                                     typed |-> FALSE],
                        ![t].dirty = TRUE]
  /\ request' = NoRequest /\ UNCHANGED <<stored, importedFrom, dialog>>

\* finAPI Bank ID and Banking Interface are ordinary fields: nothing compares the two.
EditChoice(t) ==
  /\ dialog[t] = NoRequest
  /\ \E choice \in Choice :
       /\ choice.typed /\ tab' = [tab EXCEPT ![t].form = choice, ![t].dirty = TRUE]
  /\ request' = NoRequest /\ UNCHANGED <<stored, importedFrom, dialog>>

\* A save: the copies of the other tabs become stale.
SavedBy(t) ==
  /\ tab[t].fresh /\ stored' = tab[t].form
  /\ tab' = [u \in Tab |-> IF u = t THEN [tab[t] EXCEPT !.dirty = FALSE]
                           ELSE [tab[u] EXCEPT !.fresh = FALSE]]

SaveForm(t) ==
  /\ dialog[t] = NoRequest /\ tab[t].dirty /\ SavedBy(t)
  /\ request' = NoRequest /\ UNCHANGED <<importedFrom, dialog>>

\* Slip: start_sca does not save what was picked.
NothingToSave(t) == FALSE

MustSave(t) == tab[t].dirty

\* What get_login_fields looks up: the interface wanted, or the first the bank has.
FieldsOf(choice) ==
  [choice EXCEPT !.interface =
     IF Has(choice.bank, @) THEN @ ELSE Offers[choice.bank][1]]

\* start_sca: unsaved edits are saved first, which a stale form is refused; then the
\* bank's login fields are shown.
AskLogin(t) ==
  /\ dialog[t] = NoRequest /\ tab[t].form.bank # NoBank   \* asked for before the login
  /\ IF MustSave(t) THEN SavedBy(t) ELSE UNCHANGED <<stored, tab>>
  /\ dialog' = [dialog EXCEPT ![t] = [fields |-> FieldsOf(tab[t].form), update |-> tab[t].imported]]
  /\ request' = NoRequest /\ UNCHANGED importedFrom

\* Cancel, or the search for the fields fails.
CloseDialog(t) ==
  /\ dialog[t] # NoRequest
  /\ dialog' = [dialog EXCEPT ![t] = NoRequest]
  /\ request' = NoRequest /\ UNCHANGED <<stored, importedFrom, tab>>

\* start of sca.py reads the stored document; an import may come through, and its save
\* makes the forms stale.  The interface of a re-consent is that of the document, its
\* bank the one the connection was imported from.
Start(t) ==
  /\ dialog[t] # NoRequest
  /\ LET update == dialog[t].update
         named == [stored EXCEPT !.bank = IF update THEN importedFrom ELSE @]
     IN /\ named.bank # NoBank
        /\ request' = [named |-> named, asked |-> dialog[t].fields, fresh |-> tab[t].fresh,
                       update |-> update, repicked |-> named.bank # stored.bank]
        /\ importedFrom' \in {importedFrom} \cup {b \in {named.bank} : ~update}
  /\ dialog' = [dialog EXCEPT ![t] = NoRequest]
  /\ tab' = IF importedFrom' = importedFrom THEN tab
            ELSE [u \in Tab |-> [tab[u] EXCEPT !.fresh = FALSE]]
  /\ UNCHANGED stored

SetupNext ==
  \E t \in Tab :
     \/ OpenForm(t) \/ EditChoice(t) \/ SaveForm(t) \/ AskLogin(t) \/ CloseDialog(t) \/ Start(t)
     \/ \E bank \in Bank : PickBank(t, bank)

SetupSpec == SetupInit /\ [][SetupNext]_setupVars

----------------------------------------------------------------------------
(* Properties.                                                             *)

SetupTypeOK ==
  /\ stored \in Choice /\ importedFrom \in Bank \cup {NoBank}
  /\ tab \in [Tab -> [form : Choice, dirty : BOOLEAN, fresh : BOOLEAN, imported : BOOLEAN]]
  /\ dialog \in [Tab -> [fields : Choice, update : BOOLEAN] \cup {NoRequest}]
  /\ request \in [named : Choice, asked : Choice, fresh : BOOLEAN, update : BOOLEAN,
                  repicked : BOOLEAN] \cup {NoRequest}

\* "Picking an interface the bank does not expose fails later, deep inside the SCA
\* flow": what the search filled in and nobody edited since never does, whichever bank
\* and interface stood there before, and whichever tab saved.
ImportIsOffered ==
  request # NoRequest /\ ~request.update /\ ~request.named.typed
    => Has(request.named.bank, request.named.interface)

\* Credentials go to the bank and interface whose login fields asked for them, unless
\* another tab saved another choice while the dialog was open, another bank was set
\* after the import, which a re-consent does not go to, or the interface is one that the
\* bank does not have, where the fields are those of the first it has.
CredentialsFit ==
  request # NoRequest /\ request.fresh /\ ~request.repicked
      /\ Has(request.named.bank, request.named.interface)
    => request.asked = request.named

=============================================================================
