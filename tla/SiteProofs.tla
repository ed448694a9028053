----------------------------- MODULE SiteProofs -----------------------------
(***************************************************************************)
(* Proofs about parts of a site: the documents of connections, the choice  *)
(* of a bank, the registration and the Desk; and about the site of all     *)
(* parts, which share no state.                                            *)
(***************************************************************************)
EXTENDS Site, TransactionPagesProofs, TransactionMappingProofs, FinApiClientProofs, TLAPS

----------------------------------------------------------------------------
(* Adoption: any number of documents, connections and discoveries.         *)

\* The index holds.
IdsAreUnique == \A d, e \in Document : idOf[d] \in Connection /\ idOf[d] = idOf[e] => d = e

\* What was adopted is somewhere.
AdoptedIsKept == \A i \in adopted : \E d \in Document : idOf[d] = i

\* A snapshot is right about the documents that nobody touched.
SnapshotsAreTrue ==
  \A r \in Discovery, d \in Document :
    \A snapshot \in lookup[r] : d \in unmodified[r] => snapshot[d] = idOf[d]

\* A document that imports has no id yet.
ImportsAreNew == \A d \in Document : importing[d] # "no" => idOf[d] = NoId

AdoptionInv == AdoptionTypeOK /\ IdsAreUnique /\ AdoptedIsKept /\ SnapshotsAreTrue /\ ImportsAreNew

\* There is nothing in the beginning.
LEMMA AdoptionInvInit == AdoptionInit => AdoptionInv
  BY AdoptionAssumption
  DEF AdoptionInit, AdoptionInv, AdoptionTypeOK, IdsAreUnique, AdoptedIsKept, SnapshotsAreTrue, ImportsAreNew, Ids

\* One document gets an id that no other has.
LEMMA GivesOne ==
  ASSUME AdoptionInv, NEW d \in Document, NEW id \in Ids,
         id \in Connection => ~Taken(id),
         idOf' = [idOf EXCEPT ![d] = id], Touches({d}),
         adopted' \subseteq adopted, idOf[d] \in Connection => idOf[d] \notin adopted',
         UNCHANGED lookup
  PROVE  IdsAreUnique' /\ AdoptedIsKept' /\ SnapshotsAreTrue'
<1> USE DEF AdoptionInv, AdoptionTypeOK
<1>1. \A e \in Document : idOf'[e] = IF e = d THEN id ELSE idOf[e]
  OBVIOUS
<1>2. IdsAreUnique'
  BY <1>1 DEF IdsAreUnique, Taken
<1>3. AdoptedIsKept'
  <2> SUFFICES ASSUME NEW i \in adopted' PROVE \E e \in Document : idOf'[e] = i
    BY DEF AdoptedIsKept
  <2>1. i \in adopted /\ i \in Connection /\ i # idOf[d]
    OBVIOUS
  <2>2. PICK e \in Document : idOf[e] = i
    BY <2>1 DEF AdoptedIsKept
  <2> QED BY <1>1, <2>1, <2>2
<1>4. SnapshotsAreTrue'
  BY <1>1 DEF SnapshotsAreTrue, Touches
<1> QED BY <1>2, <1>3, <1>4

\* A discovery gives new documents the ids that no document has.
LEMMA DiscoverySavesKeeps ==
  ASSUME AdoptionInv, NEW r \in Discovery, DiscoverySaves(r) PROVE AdoptionInv'
<1> USE DEF AdoptionInv, AdoptionTypeOK
<1>1. PICK snapshot \in lookup[r] :
       LET known == UNION {Found(snapshot, i) : i \in offer[r]}
           new   == {i \in offer[r] : Found(snapshot, i) = {}}
           free  == {d \in Document : ~Exists(d)}
       IN /\ known \subseteq unmodified[r]
          /\ \A i \in new : ~Taken(i)
          /\ \E name \in [new -> free] :
               /\ \A i, k \in new : name[i] = name[k] => i = k
               /\ idOf' = [d \in Document |-> IF \E i \in new : name[i] = d
                                              THEN CHOOSE i \in new : name[i] = d
                                              ELSE idOf[d]]
               /\ Touches(known \cup {name[i] : i \in new})
  BY DEF DiscoverySaves
<1> DEFINE known == UNION {Found(snapshot, i) : i \in offer[r]}
           new   == {i \in offer[r] : Found(snapshot, i) = {}}
           free  == {d \in Document : ~Exists(d)}
<1>2. known \subseteq unmodified[r] /\ \A i \in new : ~Taken(i)
  BY <1>1
<1>3. PICK name \in [new -> free] :
        /\ \A i, k \in new : name[i] = name[k] => i = k
        /\ idOf' = [d \in Document |-> IF \E i \in new : name[i] = d
                                       THEN CHOOSE i \in new : name[i] = d
                                       ELSE idOf[d]]
        /\ Touches(known \cup {name[i] : i \in new})
  BY <1>1
<1>4. /\ adopted' = adopted \cup offer[r] /\ UNCHANGED <<atFinApi, importing>>
      /\ lookup' = [lookup EXCEPT ![r] = {}] /\ offer' = [offer EXCEPT ![r] = {}]
  BY DEF DiscoverySaves, Ended
<1>5. new \subseteq Connection /\ offer[r] \subseteq Connection
  OBVIOUS
<1>6. \A i \in new : name[i] \in Document /\ idOf[name[i]] = NoDocument /\ idOf'[name[i]] = i
  <2> TAKE i \in new
  <2>1. name[i] \in free
    OBVIOUS
  <2>2. \A k \in new : name[k] = name[i] => k = i
    BY <1>3
  <2>3. (CHOOSE k \in new : name[k] = name[i]) = i
    BY <2>2
  <2>4. name[i] \in Document /\ idOf[name[i]] = NoDocument
    BY <2>1 DEF Exists
  <2> QED BY <1>3, <2>3, <2>4
<1>7. \A d \in Document : (\A i \in new : name[i] # d) => idOf'[d] = idOf[d]
  BY <1>3
<1>8. \A d \in Document : idOf[d] \in Connection => idOf'[d] = idOf[d]
  BY <1>6, <1>7, AdoptionAssumption
<1>9. AdoptionTypeOK'
  <2>1. \A d \in Document : idOf'[d] \in Ids
    BY <1>5, <1>6, <1>7 DEF Ids
  <2>2. idOf' \in [Document -> Ids]
    BY <1>3, <2>1
  <2>3. unmodified' \in [Discovery -> SUBSET Document]
    BY <1>3 DEF Touches
  <2> QED BY <1>4, <1>5, <2>2, <2>3
<1>10. IdsAreUnique'
  <2> SUFFICES ASSUME NEW d \in Document, NEW e \in Document,
                      idOf'[d] \in Connection, idOf'[d] = idOf'[e]
               PROVE  d = e
    BY DEF IdsAreUnique
  <2>1. CASE \E i \in new : name[i] = d
    <3>1. PICK i \in new : name[i] = d
      BY <2>1
    <3>2. PICK k \in new : name[k] = e
      <4>1. ~Taken(i) /\ idOf'[name[i]] = i /\ i \in Connection
        BY <1>2, <1>5, <1>6
      <4> QED BY <1>7, <3>1, <4>1 DEF Taken
    <3> QED BY <1>6, <3>1, <3>2
  <2>2. CASE \E i \in new : name[i] = e
    <3>1. PICK i \in new : name[i] = e
      BY <2>2
    <3>2. PICK k \in new : name[k] = d
      <4>1. ~Taken(i) /\ idOf'[name[i]] = i /\ i \in Connection
        BY <1>2, <1>5, <1>6
      <4> QED BY <1>7, <3>1, <4>1 DEF Taken
    <3> QED BY <1>6, <3>1, <3>2
  <2>3. CASE (\A i \in new : name[i] # d) /\ (\A i \in new : name[i] # e)
    BY <1>7, <2>3 DEF IdsAreUnique
  <2> QED BY <2>1, <2>2, <2>3
<1>11. AdoptedIsKept'
  <2> SUFFICES ASSUME NEW i \in adopted \cup offer[r]
               PROVE  \E d \in Document : idOf'[d] = i
    BY <1>4 DEF AdoptedIsKept
  <2>1. CASE i \in adopted
    <3>1. PICK d \in Document : idOf[d] = i
      BY <2>1 DEF AdoptedIsKept
    <3>2. i \in Connection
      BY <2>1
    <3> QED BY <1>8, <3>1, <3>2
  <2>2. CASE i \in new
    BY <1>6, <2>2
  <2>3. CASE i \in offer[r] /\ Found(snapshot, i) # {}
    <3>1. PICK d \in Document : snapshot[d] = i
      BY <2>3 DEF Found
    <3>2. d \in unmodified[r]
      BY <1>2, <2>3, <3>1 DEF Found
    <3>3. idOf[d] = i /\ i \in Connection
      BY <1>5, <2>3, <3>1, <3>2 DEF SnapshotsAreTrue
    <3> QED BY <1>8, <3>3
  <2> QED BY <2>1, <2>2, <2>3
<1>12. SnapshotsAreTrue'
  <2> SUFFICES ASSUME NEW q \in Discovery, NEW d \in Document,
                      NEW s \in lookup'[q], d \in unmodified'[q]
               PROVE  s[d] = idOf'[d]
    BY DEF SnapshotsAreTrue
  <2>1. q # r /\ s \in lookup[q]
    BY <1>4
  <2>2. d \in unmodified[q] /\ \A i \in new : name[i] # d
    BY <1>3 DEF Touches
  <2> QED BY <1>7, <2>1, <2>2 DEF SnapshotsAreTrue
<1>13. ImportsAreNew'
  <2> SUFFICES ASSUME NEW d \in Document, importing[d] # "no" PROVE idOf'[d] = NoId
    BY <1>4 DEF ImportsAreNew
  <2>1. idOf[d] = NoId
    BY DEF ImportsAreNew
  <2>2. \A i \in new : name[i] # d
    BY <1>6, <2>1, AdoptionAssumption
  <2> QED BY <1>7, <2>1, <2>2
<1> QED BY <1>9, <1>10, <1>11, <1>12, <1>13

\* Every step keeps the invariant.
LEMMA AdoptionInvStep == AdoptionInv /\ [AdoptionNext]_adoptionVars => AdoptionInv'
<1> SUFFICES ASSUME AdoptionInv, [AdoptionNext]_adoptionVars PROVE AdoptionInv'
  OBVIOUS
<1> USE DEF AdoptionInv, AdoptionTypeOK
<1>1. ASSUME NEW d \in Document, StartImport(d) \/ Imported(d) \/ ImportFails(d)
      PROVE  AdoptionInv'
  <2>1. UNCHANGED <<idOf, lookup, offer, unmodified, adopted>>
    BY <1>1 DEF StartImport, Imported, ImportFails
  <2>2. atFinApi' \subseteq Connection
        /\ importing' \in [Document -> Connection \cup {"no", "asked"}]
    BY <1>1 DEF StartImport, Imported, ImportFails
  <2>3. ImportsAreNew'
    BY <1>1, <2>1 DEF ImportsAreNew, StartImport, Imported, ImportFails
  <2> QED BY <2>1, <2>2, <2>3 DEF IdsAreUnique, AdoptedIsKept, SnapshotsAreTrue
<1>2. ASSUME NEW d \in Document, ImportSaves(d) PROVE AdoptionInv'
  <2>1. /\ importing[d] \in Connection /\ Exists(d) /\ ~Taken(importing[d])
        /\ idOf' = [idOf EXCEPT ![d] = importing[d]]
        /\ Touches({d}) /\ UNCHANGED <<atFinApi, lookup, offer, adopted>>
        /\ importing' = [importing EXCEPT ![d] = "no"]
    BY <1>2 DEF ImportSaves
  <2>2. idOf[d] \notin Connection /\ importing[d] \in Ids
    BY <2>1, AdoptionAssumption DEF ImportsAreNew, Ids
  <2>3. IdsAreUnique' /\ AdoptedIsKept' /\ SnapshotsAreTrue'
    BY <2>1, <2>2, GivesOne
  <2> QED BY <2>1, <2>2, <2>3 DEF Touches, ImportsAreNew
<1>3. ASSUME NEW d \in Document, NewDocument(d) PROVE AdoptionInv'
  <2>1. /\ ~Exists(d) /\ idOf' = [idOf EXCEPT ![d] = NoId] /\ Touches({d})
        /\ UNCHANGED <<atFinApi, importing, lookup, offer, adopted>>
    BY <1>3 DEF NewDocument
  <2>2. idOf[d] \notin Connection /\ NoId \notin Connection /\ NoId \in Ids
    BY <2>1, AdoptionAssumption DEF Exists, Ids
  <2>3. IdsAreUnique' /\ AdoptedIsKept' /\ SnapshotsAreTrue'
    BY <2>1, <2>2, GivesOne
  <2> QED BY <2>1, <2>2, <2>3, AdoptionAssumption DEF Touches, ImportsAreNew, Exists
<1>4. ASSUME NEW d \in Document, DeleteDocument(d) PROVE AdoptionInv'
  <2>1. /\ idOf' = [idOf EXCEPT ![d] = NoDocument] /\ Touches({d})
        /\ importing' = [importing EXCEPT ![d] = "no"] /\ adopted' = adopted \ {idOf[d]}
        /\ UNCHANGED <<atFinApi, lookup, offer>>
    BY <1>4 DEF DeleteDocument
  <2>2. NoDocument \notin Connection /\ NoDocument \in Ids
    BY AdoptionAssumption DEF Ids
  <2>3. IdsAreUnique' /\ AdoptedIsKept' /\ SnapshotsAreTrue'
    BY <2>1, <2>2, GivesOne
  <2> QED BY <2>1, <2>2, <2>3, AdoptionAssumption DEF Touches, ImportsAreNew, Exists
<1>5. ASSUME NEW r \in Discovery, Discover(r) PROVE AdoptionInv'
  <2>1. /\ lookup' = [lookup EXCEPT ![r] = {idOf}] /\ offer' = [offer EXCEPT ![r] = {}]
        /\ unmodified' = [unmodified EXCEPT ![r] = Document]
        /\ UNCHANGED <<idOf, atFinApi, importing, adopted>>
    BY <1>5 DEF Discover
  <2>2. SnapshotsAreTrue'
    <3> SUFFICES ASSUME NEW q \in Discovery, NEW d \in Document,
                        NEW s \in lookup'[q], d \in unmodified'[q]
                 PROVE  s[d] = idOf'[d]
      BY DEF SnapshotsAreTrue
    <3>1. CASE q = r
      BY <2>1, <3>1
    <3>2. CASE q # r
      BY <2>1, <3>2 DEF SnapshotsAreTrue
    <3> QED BY <3>1, <3>2
  <2> QED BY <2>1, <2>2 DEF IdsAreUnique, AdoptedIsKept, ImportsAreNew
<1>6. ASSUME NEW r \in Discovery, ListConnections(r) \/ DiscoveryFails(r)
      PROVE  AdoptionInv'
  <2>1. /\ UNCHANGED <<idOf, atFinApi, importing, unmodified, adopted>>
        /\ lookup' \in {lookup, [lookup EXCEPT ![r] = {}]}
        /\ offer' \in {[offer EXCEPT ![r] = atFinApi], [offer EXCEPT ![r] = {}]}
    BY <1>6 DEF ListConnections, DiscoveryFails, Ended
  <2> QED BY <2>1 DEF IdsAreUnique, AdoptedIsKept, SnapshotsAreTrue, ImportsAreNew
<1>7. CASE ImportedElsewhere
  BY <1>7 DEF ImportedElsewhere, IdsAreUnique, AdoptedIsKept, SnapshotsAreTrue, ImportsAreNew
<1>8. CASE UNCHANGED adoptionVars
  BY <1>8 DEF adoptionVars, IdsAreUnique, AdoptedIsKept, SnapshotsAreTrue, ImportsAreNew
<1> QED BY <1>1, <1>2, <1>3, <1>4, <1>5, <1>6, <1>7, <1>8, DiscoverySavesKeeps
        DEF AdoptionNext

\* Every variable keeps its type.
THEOREM AdoptionTypeCorrect == AdoptionSpec => []AdoptionTypeOK
<1>1. AdoptionInv => AdoptionTypeOK
  BY DEF AdoptionInv
<1> QED BY <1>1, AdoptionInvInit, AdoptionInvStep, PTL DEF AdoptionSpec

\* A connection that a discovery listed has exactly one document until that is deleted.
THEOREM AdoptedExactlyOnce == AdoptionSpec => []AdoptedOnce
<1>1. AdoptionInv => AdoptedOnce
  <2> SUFFICES ASSUME AdoptionInv, NEW i \in adopted
               PROVE  \E d \in Document : {e \in Document : idOf[e] = i} = {d}
    BY DEF AdoptedOnce
  <2>1. i \in Connection
    BY DEF AdoptionInv, AdoptionTypeOK
  <2>2. PICK d \in Document : idOf[d] = i
    BY DEF AdoptionInv, AdoptedIsKept
  <2> QED BY <2>1, <2>2 DEF AdoptionInv, IdsAreUnique
<1> QED BY <1>1, AdoptionInvInit, AdoptionInvStep, PTL DEF AdoptionSpec

----------------------------------------------------------------------------
(* BankSetup: any number of tabs, banks and offers.                        *)

\* A choice of the search names an interface that its bank has.
Fits(choice) ==
  ~choice.typed /\ choice.bank # NoBank => Has(choice.bank, choice.interface)

\* Every choice of the search that is stored or shown fits.
ChoicesFit == Fits(stored) /\ \A t \in Tab : Fits(tab[t].form)

\* A form that is up to date and not edited shows what is stored; a dialog over one has
\* the fields of what is stored.
FreshShowsStored ==
  \A t \in Tab :
    tab[t].fresh => /\ ~tab[t].dirty => tab[t].form = stored
                    /\ dialog[t] # NoRequest => tab[t].form = stored /\ dialog[t].fields = FieldsOf(stored)

SetupInv ==
  /\ SetupTypeOK /\ ChoicesFit /\ FreshShowsStored /\ ImportIsOffered /\ CredentialsFit

\* What a bank offers are interfaces, the first of them among them.
LEMMA FirstIsOffered ==
  ASSUME NEW bank \in Bank
  PROVE  /\ Offered(bank) \subseteq Interface
         /\ Offered(bank) # {} => Offers[bank][1] \in Offered(bank)
<1>1. Offers[bank] \in {<<>>} \cup {<<i>> : i \in Interface} \cup {<<i, j>> : i, j \in Interface}
  BY SetupAssumption
<1>2. CASE Offers[bank] = <<>>
  BY <1>2 DEF Offered
<1>3. CASE Offers[bank] \in {<<i>> : i \in Interface}
  <2>1. PICK i \in Interface : Offers[bank] = <<i>>
    BY <1>3
  <2>2. DOMAIN Offers[bank] = {1} /\ Offers[bank][1] = i
    BY <2>1
  <2> QED BY <2>2 DEF Offered
<1>4. CASE Offers[bank] \in {<<i, j>> : i, j \in Interface}
  <2>1. PICK i \in Interface, j \in Interface : Offers[bank] = <<i, j>>
    BY <1>4
  <2>2. DOMAIN Offers[bank] = {1, 2} /\ Offers[bank][1] = i /\ Offers[bank][2] = j
    BY <2>1
  <2> QED BY <2>2 DEF Offered
<1> QED BY <1>1, <1>2, <1>3, <1>4

\* The fields are those of a choice, and of the choice itself if its bank has it.
LEMMA FieldsOfChoice ==
  ASSUME NEW choice \in Choice, choice.bank # NoBank
  PROVE  /\ FieldsOf(choice) \in Choice
         /\ Has(choice.bank, choice.interface) => FieldsOf(choice) = choice
<1>1. choice.bank \in Bank /\ choice.interface \in Interface
  BY DEF Choice
<1>2. CASE Has(choice.bank, choice.interface)
  <2>1. FieldsOf(choice) = [choice EXCEPT !.interface = choice.interface]
    BY <1>2 DEF FieldsOf
  <2> QED BY <2>1 DEF Choice
<1>3. CASE ~Has(choice.bank, choice.interface)
  <2>1. FieldsOf(choice) = [choice EXCEPT !.interface = Offers[choice.bank][1]]
    BY <1>3 DEF FieldsOf
  <2>2. Offers[choice.bank][1] \in Interface
    BY <1>1, <1>3, FirstIsOffered DEF Has
  <2> QED BY <1>3, <2>1, <2>2 DEF Choice
<1> QED BY <1>2, <1>3

\* Nothing is chosen in the beginning.
LEMMA SetupInvInit == SetupInit => SetupInv
<1> SUFFICES ASSUME SetupInit PROVE SetupInv
  OBVIOUS
<1>1. stored \in Choice
  BY DEF SetupInit, Choice, Interface
<1>2. Loaded \in [form : Choice, dirty : BOOLEAN, fresh : BOOLEAN, imported : BOOLEAN]
      /\ Loaded.form = stored
  BY <1>1 DEF Loaded
<1>3. SetupTypeOK
  BY <1>1, <1>2 DEF SetupInit, SetupTypeOK
<1> QED BY <1>2, <1>3
        DEF SetupInit, SetupInv, ChoicesFit, Fits, FreshShowsStored, ImportIsOffered, CredentialsFit

\* A save stores what the form shows and makes the other forms stale.
LEMMA SaveFormKeeps ==
  ASSUME SetupInv, NEW t \in Tab, SavedBy(t),
         dialog[t] = NoRequest
  PROVE  /\ stored' \in Choice
         /\ tab' \in [Tab -> [form : Choice, dirty : BOOLEAN, fresh : BOOLEAN, imported : BOOLEAN]]
         /\ ChoicesFit'
         /\ tab'[t].form = stored' /\ ~tab'[t].dirty
         /\ \A u \in Tab \ {t} : ~tab'[u].fresh
<1> USE DEF SetupInv, SetupTypeOK, SavedBy
<1>1. tab'[t] = [tab[t] EXCEPT !.dirty = FALSE]
      /\ \A u \in Tab \ {t} : tab'[u] = [tab[u] EXCEPT !.fresh = FALSE]
  OBVIOUS
<1>2. \A u \in Tab : tab'[u].form = tab[u].form
  BY <1>1
<1>3. stored' = tab[t].form /\ stored' \in Choice
  OBVIOUS
<1>4. tab' \in [Tab -> [form : Choice, dirty : BOOLEAN, fresh : BOOLEAN, imported : BOOLEAN]]
  OBVIOUS
<1>5. ChoicesFit'
  BY <1>2, <1>3 DEF ChoicesFit, Fits
<1>6. ~tab'[t].dirty /\ \A u \in Tab \ {t} : ~tab'[u].fresh
  BY <1>1
<1> QED BY <1>2, <1>3, <1>4, <1>5, <1>6

\* Every step keeps the invariant.
LEMMA SetupInvStep == SetupInv /\ [SetupNext]_setupVars => SetupInv'
<1> SUFFICES ASSUME SetupInv, [SetupNext]_setupVars PROVE SetupInv'
  OBVIOUS
<1> USE DEF SetupInv, SetupTypeOK
<1> DEFINE Tabs == [form : Choice, dirty : BOOLEAN, fresh : BOOLEAN, imported : BOOLEAN]
<1>0. request' = NoRequest => ImportIsOffered' /\ CredentialsFit'
  BY DEF ImportIsOffered, CredentialsFit
<1>1. ASSUME NEW t \in Tab, OpenForm(t) PROVE SetupInv'
  <2>1. dialog[t] = NoRequest /\ tab' = [tab EXCEPT ![t] = Loaded]
        /\ request' = NoRequest /\ UNCHANGED <<stored, importedFrom, dialog>>
    BY <1>1 DEF OpenForm
  <2>2. Loaded \in Tabs /\ Loaded.form = stored
    BY DEF Loaded
  <2>3. tab' \in [Tab -> Tabs] /\ tab'[t] = Loaded /\ \A u \in Tab \ {t} : tab'[u] = tab[u]
    BY <2>1, <2>2
  <2>4. ChoicesFit' /\ FreshShowsStored'
    BY <2>1, <2>2, <2>3 DEF ChoicesFit, Fits, FreshShowsStored
  <2> QED BY <1>0, <2>1, <2>3, <2>4
<1>2. ASSUME NEW t \in Tab, NEW choice \in Choice, Fits(choice), dialog[t] = NoRequest,
             tab' = [tab EXCEPT ![t].form = choice, ![t].dirty = TRUE],
             request' = NoRequest, UNCHANGED <<stored, importedFrom, dialog>>
      PROVE  SetupInv'
  <2>1. tab' \in [Tab -> Tabs] /\ tab'[t].form = choice /\ tab'[t].dirty
        /\ \A u \in Tab \ {t} : tab'[u] = tab[u]
    BY <1>2
  <2>2. ChoicesFit' /\ FreshShowsStored'
    BY <1>2, <2>1 DEF ChoicesFit, Fits, FreshShowsStored
  <2> QED BY <1>0, <1>2, <2>1, <2>2
<1>3. ASSUME NEW t \in Tab, NEW bank \in Bank, PickBank(t, bank) PROVE SetupInv'
  <2> DEFINE picked == [bank |-> bank, interface |-> Fitting(bank, tab[t].form.interface),
                        typed |-> FALSE]
  <2>1. dialog[t] = NoRequest /\ request' = NoRequest /\ UNCHANGED <<stored, importedFrom, dialog>>
        /\ tab' = [tab EXCEPT ![t].form = picked, ![t].dirty = TRUE]
    BY <1>3 DEF PickBank
  <2>2. tab[t].form \in Choice /\ tab[t].form.interface \in Interface
    BY DEF Choice
  <2>3. picked \in Choice /\ Fits(picked)
    BY <2>2, FirstIsOffered DEF Fitting, Fits, Has, Choice
  <2> HIDE DEF picked
  <2> QED BY <1>2, <2>1, <2>3
<1>4. ASSUME NEW t \in Tab, EditChoice(t) PROVE SetupInv'
  <2>1. PICK choice \in Choice :
          choice.typed /\ tab' = [tab EXCEPT ![t].form = choice, ![t].dirty = TRUE]
    BY <1>4 DEF EditChoice
  <2>2. Fits(choice)
    BY <2>1 DEF Fits
  <2>3. dialog[t] = NoRequest /\ request' = NoRequest /\ UNCHANGED <<stored, importedFrom, dialog>>
    BY <1>4 DEF EditChoice
  <2> QED BY <1>2, <2>1, <2>2, <2>3
<1>5. ASSUME NEW t \in Tab, SaveForm(t) PROVE SetupInv'
  <2>1. dialog[t] = NoRequest /\ SavedBy(t) /\ request' = NoRequest
        /\ UNCHANGED <<importedFrom, dialog>>
    BY <1>5 DEF SaveForm
  <2>2. FreshShowsStored'
    BY <2>1, SaveFormKeeps DEF FreshShowsStored
  <2> QED BY <1>0, <2>1, <2>2, SaveFormKeeps
<1>6. ASSUME NEW t \in Tab, AskLogin(t) PROVE SetupInv'
  <2> DEFINE fields == FieldsOf(tab[t].form)
  <2>1. /\ dialog[t] = NoRequest /\ tab[t].form.bank # NoBank
        /\ IF MustSave(t) THEN SavedBy(t) ELSE UNCHANGED <<stored, tab>>
        /\ dialog' = [dialog EXCEPT ![t] = [fields |-> fields, update |-> tab[t].imported]]
        /\ request' = NoRequest /\ UNCHANGED importedFrom
    BY <1>6 DEF AskLogin
  <2>2. fields \in Choice
    BY <2>1, FieldsOfChoice
  <2>3. dialog' \in [Tab -> [fields : Choice, update : BOOLEAN] \cup {NoRequest}]
        /\ dialog'[t].fields = fields /\ \A u \in Tab \ {t} : dialog'[u] = dialog[u]
    BY <2>1, <2>2
  <2>4. CASE MustSave(t)
    <3>1. SavedBy(t)
      BY <2>1, <2>4
    <3>2. tab'[t].form = tab[t].form /\ tab[t].form = stored'
      BY <3>1 DEF SavedBy
    <3>3. FreshShowsStored'
      BY <2>1, <2>3, <3>1, <3>2, SaveFormKeeps DEF FreshShowsStored
    <3> QED BY <1>0, <2>1, <2>3, <3>1, <3>3, SaveFormKeeps
  <2>5. CASE ~MustSave(t)
    <3>1. UNCHANGED <<stored, tab>> /\ ~tab[t].dirty
      BY <2>1, <2>5 DEF MustSave
    <3>2. FreshShowsStored'
      BY <2>3, <3>1 DEF FreshShowsStored
    <3> QED BY <1>0, <2>1, <2>3, <3>1, <3>2 DEF ChoicesFit, Fits
  <2> QED BY <2>4, <2>5
<1>7. ASSUME NEW t \in Tab, CloseDialog(t) PROVE SetupInv'
  <2>1. dialog' = [dialog EXCEPT ![t] = NoRequest] /\ request' = NoRequest
        /\ UNCHANGED <<stored, importedFrom, tab>>
    BY <1>7 DEF CloseDialog
  <2> QED BY <1>0, <2>1 DEF ChoicesFit, Fits, FreshShowsStored
<1>8. ASSUME NEW t \in Tab, Start(t) PROVE SetupInv'
  <2> DEFINE update == dialog[t].update
             named == [stored EXCEPT !.bank = IF update THEN importedFrom ELSE stored.bank]
  <2>1. /\ dialog[t] # NoRequest /\ named.bank # NoBank
        /\ request' = [named |-> named, asked |-> dialog[t].fields, fresh |-> tab[t].fresh,
                       update |-> update, repicked |-> named.bank # stored.bank]
        /\ importedFrom' \in {importedFrom} \cup {b \in {named.bank} : ~update}
        /\ dialog' = [dialog EXCEPT ![t] = NoRequest] /\ UNCHANGED stored
        /\ tab' = IF importedFrom' = importedFrom THEN tab
                  ELSE [u \in Tab |-> [tab[u] EXCEPT !.fresh = FALSE]]
    BY <1>8 DEF Start
  <2>2. update \in BOOLEAN /\ dialog[t].fields \in Choice
    BY <2>1
  <2>3. /\ named \in Choice /\ (~update => named = stored)
        /\ (named.bank = stored.bank => named = stored)
    BY DEF Choice
  <2>4. importedFrom' \in Bank \cup {NoBank}
    BY <2>1, <2>3 DEF Choice
  <2>5. \A u \in Tab : /\ tab'[u] \in Tabs /\ tab'[u].form = tab[u].form
                       /\ tab'[u].fresh => tab'[u] = tab[u]
    BY <2>1
  <2>6. tab' \in [Tab -> Tabs]
    BY <2>1
  <2>7. SetupTypeOK'
    BY <2>1, <2>2, <2>3, <2>4, <2>6
  <2>8. ChoicesFit'
    BY <2>1, <2>5 DEF ChoicesFit, Fits
  <2>9. FreshShowsStored'
    BY <2>1, <2>5 DEF FreshShowsStored
  <2>10. ImportIsOffered'
    BY <2>1, <2>3 DEF ImportIsOffered, ChoicesFit, Fits
  <2>11. CredentialsFit'
    <3>1. tab[t].fresh => dialog[t].fields = FieldsOf(stored)
      BY <2>1 DEF FreshShowsStored
    <3>2. stored.bank # NoBank /\ Has(stored.bank, stored.interface) => FieldsOf(stored) = stored
      BY FieldsOfChoice
    <3>3. named.bank = stored.bank /\ Has(named.bank, named.interface) /\ tab[t].fresh
            => dialog[t].fields = named
      BY <2>1, <2>3, <3>1, <3>2
    <3> HIDE DEF named, update
    <3> QED BY <2>1, <3>3 DEF CredentialsFit
  <2> QED BY <2>7, <2>8, <2>9, <2>10, <2>11
<1>9. CASE UNCHANGED setupVars
  BY <1>9 DEF setupVars, ChoicesFit, Fits, FreshShowsStored, ImportIsOffered, CredentialsFit
<1> QED BY <1>1, <1>3, <1>4, <1>5, <1>6, <1>7, <1>8, <1>9 DEF SetupNext

\* Every variable keeps its type.
THEOREM SetupTypeCorrect == SetupSpec => []SetupTypeOK
<1>1. SetupInv => SetupTypeOK
  BY DEF SetupInv
<1> QED BY <1>1, SetupInvInit, SetupInvStep, PTL DEF SetupSpec

\* No import names an interface that its bank has not, unless the choice was edited by
\* hand since the search made it.
THEOREM ImportsAreOffered == SetupSpec => []ImportIsOffered
<1>1. SetupInv => ImportIsOffered
  BY DEF SetupInv
<1> QED BY <1>1, SetupInvInit, SetupInvStep, PTL DEF SetupSpec

\* The credentials of a request are those that its bank and interface ask for, if the
\* bank has the interface and the form was not overtaken.
THEOREM CredentialsAreAskedFor == SetupSpec => []CredentialsFit
<1>1. SetupInv => CredentialsFit
  BY DEF SetupInv
<1> QED BY <1>1, SetupInvInit, SetupInvStep, PTL DEF SetupSpec

----------------------------------------------------------------------------
(* Registration: the record and the user at finAPI.                        *)

\* A form that may be saved shows what is stored.
FormIsTrue == form.fresh => (form.shows = "dots" <=> password # NoPassword)

\* Nobody may save a registration over another password than the one it read.
FreshHasRead ==
  \A r \in Request : req[r].pc # "idle" /\ req[r].fresh => req[r].read = password

\* As long as nobody types another one, a password stays what a request read.
ReadIsKept ==
  ~edited => \A r \in Request :
    req[r].pc # "idle" /\ req[r].read # NoPassword => req[r].read = password

\* An answer that waits for the save is the password at finAPI.
AnswerIsTrue ==
  \A r \in Request : req[r].pc = "save" =>
    /\ req[r].answer = pool[req[r].at] /\ req[r].answer \in Passwords
    /\ req[r].read # NoPassword => req[r].answer = req[r].read

\* A registered record has the password at finAPI, as long as nobody types another one.
RecordIsTrue == registered /\ ~edited => password = pool[home]

\* Who registered had a user, and one with a password of one's own had that given.
UserIsThere ==
  /\ registered => pool[home] \in Passwords
  /\ \A e \in Environment : given[e] => pool[e] \in Passwords

RegistrationInv ==
  /\ RegistrationTypeOK /\ FormIsTrue /\ FreshHasRead /\ ReadIsKept /\ AnswerIsTrue
  /\ UserIsThere /\ RecordIsTrue /\ CrashKeepsOwnPassword

\* In the beginning nobody is registered.
LEMMA RegistrationInvInit == RegistrationInit => RegistrationInv
<1> SUFFICES ASSUME RegistrationInit PROVE RegistrationInv
  OBVIOUS
<1> USE DEF RegistrationInit
<1>1. RegistrationTypeOK
  BY DEF RegistrationTypeOK, Idle, Closed, Environment
<1>2. FormIsTrue /\ FreshHasRead /\ ReadIsKept /\ AnswerIsTrue
  BY DEF FormIsTrue, FreshHasRead, ReadIsKept, AnswerIsTrue, Idle, Closed
<1>3. UserIsThere /\ RecordIsTrue /\ CrashKeepsOwnPassword
  BY DEF UserIsThere, RecordIsTrue, CrashKeepsOwnPassword
<1> QED BY <1>1, <1>2, <1>3 DEF RegistrationInv

\* Saving a form keeps the password, or somebody typed another one.
LEMMA SaveUserKeeps == ASSUME RegistrationInv, SaveUser PROVE RegistrationInv'
<1> USE RegistrationAssumption DEF RegistrationInv, RegistrationTypeOK
<1>1. /\ UNCHANGED <<environment, pool, registered, home, given>> /\ belongs' \in Environment
      /\ form' = [shows |-> "closed", fresh |-> FALSE]
      /\ \A r \in Request : /\ ~req'[r].fresh /\ req'[r].pc = req[r].pc
                            /\ req'[r].read = req[r].read /\ req'[r].at = req[r].at
                            /\ req'[r].answer = req[r].answer
  BY DEF SaveUser, StaleRequests, Closed
<1>2. req' \in [Request -> [pc : {"idle", "create", "save"}, read : Passwords \cup {NoPassword},
                            answer : Passwords \cup {NoPassword}, at : Environment,
                            fresh : BOOLEAN]]
  BY DEF SaveUser, StaleRequests
<1>3. FormIsTrue' /\ FreshHasRead' /\ AnswerIsTrue' /\ UserIsThere'
  BY <1>1 DEF FormIsTrue, FreshHasRead, AnswerIsTrue, UserIsThere
<1>4. CASE UNCHANGED <<password, edited>>
  BY <1>1, <1>2, <1>3, <1>4 DEF ReadIsKept, RecordIsTrue, CrashKeepsOwnPassword
<1>5. ASSUME password' \in (Own \cup {NoPassword}) \ {password},
             edited' = (\/ edited \/ \E e \in Environment : pool[e] # NoUser
                        \/ \E r \in Request : req[r].pc # "idle")
      PROVE  RegistrationInv'
  <2>1. password' \in Passwords \cup {NoPassword} /\ edited' \in BOOLEAN
    BY <1>5 DEF Passwords
  <2>2. ASSUME ~edited'
        PROVE  /\ \A e \in Environment : pool[e] = NoUser
               /\ \A r \in Request : req[r].pc = "idle"
    BY <1>5, <2>2
  <2>3. ReadIsKept'
    BY <1>1, <2>2 DEF ReadIsKept
  <2>4. RecordIsTrue' /\ CrashKeepsOwnPassword'
    BY <1>1, <2>2 DEF RecordIsTrue, CrashKeepsOwnPassword, UserIsThere
  <2> QED BY <1>1, <1>2, <1>3, <2>1, <2>3, <2>4
<1>6. form.shows = "dots" <=> password # NoPassword
  BY DEF SaveUser, FormAccepted, FormIsTrue
<1> QED BY <1>4, <1>5, <1>6 DEF SaveUser

\* A user is created once in an environment, with the password that was read.
LEMMA CreateUserKeeps ==
  ASSUME RegistrationInv, NEW r \in Request, CreateUser(r) PROVE RegistrationInv'
<1> USE RegistrationAssumption DEF RegistrationInv, RegistrationTypeOK
<1> DEFINE e == req[r].at
<1>1. /\ UNCHANGED <<environment, belongs, password, registered, form, home, edited>>
      /\ req[r].pc = "create" /\ e \in Environment
  BY DEF CreateUser
<1>2. FormIsTrue'
  BY <1>1 DEF FormIsTrue
<1>3. CASE pool[e] # NoUser
  <2>1. UNCHANGED <<pool, given>> /\ req' = [req EXCEPT ![r] = Idle]
    BY <1>3 DEF CreateUser
  <2>2. Idle \in [pc : {"idle", "create", "save"}, read : Passwords \cup {NoPassword},
                  answer : Passwords \cup {NoPassword}, at : Environment, fresh : BOOLEAN]
    BY DEF Idle, Environment
  <2>3. Idle.pc = "idle"
    BY DEF Idle
  <2> QED BY <1>1, <1>2, <2>1, <2>2, <2>3
          DEF FreshHasRead, ReadIsKept, AnswerIsTrue, UserIsThere, RecordIsTrue,
              CrashKeepsOwnPassword
<1>4. CASE pool[e] = NoUser
  <2> DEFINE created == Created(e, req[r].read)
  <2>1. /\ created \in Passwords
        /\ req[r].read # NoPassword => created = req[r].read
    BY <1>1 DEF Created, Passwords
  <2>2. /\ pool' = [pool EXCEPT ![e] = created]
        /\ given' = [given EXCEPT ![e] = req[r].read # NoPassword]
        /\ \/ req' = [req EXCEPT ![r].pc = "save", ![r].answer = pool'[e]]
           \/ req' = [req EXCEPT ![r] = Idle]
    BY <1>4 DEF CreateUser
  <2> HIDE DEF created
  <2> DEFINE own == req[r].read # NoPassword
  <2>10. own \in BOOLEAN /\ given' = [given EXCEPT ![e] = own]
    BY <2>2
  <2> HIDE DEF own
  <2>11. /\ given' \in [Environment -> BOOLEAN] /\ given'[e] = own
         /\ \A f \in Environment \ {e} : given'[f] = given[f]
    BY <1>1, <2>10
  <2> USE DEF own
  <2>3. /\ pool' \in [Environment -> Passwords \cup {NoUser}]
        /\ given' \in [Environment -> BOOLEAN]
        /\ pool'[e] = created
        /\ \A f \in Environment \ {e} : pool'[f] = pool[f] /\ given'[f] = given[f]
        /\ given'[e] => req[r].read # NoPassword
    BY <1>1, <2>1, <2>2, <2>11
  <2>4. /\ req' \in [Request -> [pc : {"idle", "create", "save"}, read : Passwords \cup {NoPassword},
                          answer : Passwords \cup {NoPassword}, at : Environment,
                          fresh : BOOLEAN]]
        /\ \A q \in Request \ {r} : req'[q] = req[q]
        /\ \/ req'[r].pc = "idle"
           \/ /\ req'[r].pc = "save" /\ req'[r].answer = created /\ req'[r].at = e
              /\ req'[r].read = req[r].read /\ req'[r].fresh = req[r].fresh
    <3>1. CASE req' = [req EXCEPT ![r] = Idle]
      BY <3>1 DEF Idle, Environment
    <3>2. CASE req' = [req EXCEPT ![r].pc = "save", ![r].answer = pool'[e]]
      <4> DEFINE new == [req[r] EXCEPT !.pc = "save", !.answer = created]
      <4>1. /\ new \in [pc : {"idle", "create", "save"}, read : Passwords \cup {NoPassword},
                         answer : Passwords \cup {NoPassword}, at : Environment,
                         fresh : BOOLEAN]
            /\ new.pc = "save" /\ new.answer = created /\ new.at = e
            /\ new.read = req[r].read /\ new.fresh = req[r].fresh
        BY <2>1
      <4>2. req' = [req EXCEPT ![r] = new]
        BY <2>3, <3>2
      <4> HIDE DEF new
      <4> QED BY <4>1, <4>2
    <3> QED BY <2>2, <3>1, <3>2
  <2>5. FreshHasRead' /\ ReadIsKept'
    BY <1>1, <2>4 DEF FreshHasRead, ReadIsKept
  <2>6. AnswerIsTrue'
    <3> SUFFICES ASSUME NEW q \in Request, req'[q].pc = "save"
                 PROVE  /\ req'[q].answer = pool'[req'[q].at] /\ req'[q].answer \in Passwords
                        /\ req'[q].read # NoPassword => req'[q].answer = req'[q].read
      BY DEF AnswerIsTrue
    <3>1. CASE q = r
      BY <2>1, <2>3, <2>4, <3>1
    <3>2. CASE q # r
      <4>1. req'[q] = req[q] /\ pool[req[q].at] \in Passwords
        BY <2>4, <3>2 DEF AnswerIsTrue
      <4>2. req[q].at # e /\ req[q].at \in Environment
        BY <1>4, <4>1
      <4> QED BY <2>3, <4>1, <4>2 DEF AnswerIsTrue
    <3> QED BY <3>1, <3>2
  <2>7. UserIsThere'
    BY <1>1, <2>1, <2>3 DEF UserIsThere
  <2>8. RecordIsTrue'
    BY <1>1, <1>4, <2>3 DEF RecordIsTrue, UserIsThere
  <2>9. CrashKeepsOwnPassword'
    <3> SUFFICES ASSUME NEW f \in Environment, given'[f], ~edited PROVE password = pool'[f]
      BY <1>1 DEF CrashKeepsOwnPassword
    <3>1. CASE f = e
      BY <1>1, <2>1, <2>3, <3>1 DEF ReadIsKept
    <3>2. CASE f # e
      BY <2>3, <3>2 DEF CrashKeepsOwnPassword
    <3> QED BY <3>1, <3>2
  <2> QED BY <1>1, <1>2, <2>3, <2>4, <2>5, <2>6, <2>7, <2>8, <2>9
<1> QED BY <1>3, <1>4

\* The save of a registration leaves the password that finAPI has.
LEMMA SaveRegisteredKeeps ==
  ASSUME RegistrationInv, NEW r \in Request, SaveRegistered(r) PROVE RegistrationInv'
<1> USE RegistrationAssumption DEF RegistrationInv, RegistrationTypeOK
<1>1. UNCHANGED <<environment, belongs, pool, given, edited>> /\ req[r].pc = "save"
  BY DEF SaveRegistered
<1>2. Idle.pc = "idle" /\
      Idle \in [pc : {"idle", "create", "save"}, read : Passwords \cup {NoPassword},
                answer : Passwords \cup {NoPassword}, at : Environment, fresh : BOOLEAN]
  BY DEF Idle, Environment
<1>3. CASE ~req[r].fresh
  <2>1. req' = [req EXCEPT ![r] = Idle] /\ UNCHANGED <<password, registered, home, form>>
    BY <1>3 DEF SaveRegistered
  <2> QED BY <1>1, <1>2, <2>1
          DEF FormIsTrue, FreshHasRead, ReadIsKept, AnswerIsTrue, UserIsThere,
              RecordIsTrue, CrashKeepsOwnPassword
<1>4. CASE req[r].fresh
  <2>1. /\ password' = Kept(req[r].read, req[r].answer)
        /\ registered' = TRUE /\ home' = req[r].at
        /\ form' = [form EXCEPT !.fresh = FALSE]
        /\ req' = [StaleRequests EXCEPT ![r] = Idle]
    BY <1>4 DEF SaveRegistered
  <2>2. req[r].read = password
    BY <1>1, <1>4 DEF FreshHasRead
  <2>3. /\ password' = pool[req[r].at] /\ password' \in Passwords
        /\ password # NoPassword => password' = password
    BY <1>1, <2>1, <2>2 DEF AnswerIsTrue, Kept
  <2>4. StaleRequests \in [Request -> [pc : {"idle", "create", "save"},
                                       read : Passwords \cup {NoPassword},
                                       answer : Passwords \cup {NoPassword}, at : Environment,
                                       fresh : BOOLEAN]]
    BY DEF StaleRequests
  <2>5. /\ req' \in [Request -> [pc : {"idle", "create", "save"},
                                 read : Passwords \cup {NoPassword},
                                 answer : Passwords \cup {NoPassword}, at : Environment,
                                 fresh : BOOLEAN]]
        /\ req'[r].pc = "idle"
        /\ \A q \in Request \ {r} : req'[q] = [req[q] EXCEPT !.fresh = FALSE]
    BY <1>2, <2>1, <2>4 DEF StaleRequests
  <2>6. \A q \in Request \ {r} : /\ req'[q].pc = req[q].pc /\ req'[q].read = req[q].read
                                 /\ req'[q].at = req[q].at /\ req'[q].answer = req[q].answer
                                 /\ ~req'[q].fresh
    BY <2>5
  <2>7. FormIsTrue' /\ FreshHasRead'
    BY <2>1, <2>5, <2>6 DEF FormIsTrue, FreshHasRead
  <2>8. ReadIsKept' /\ AnswerIsTrue'
    BY <1>1, <2>3, <2>5, <2>6 DEF ReadIsKept, AnswerIsTrue
  <2>9. UserIsThere' /\ RecordIsTrue'
    BY <1>1, <2>1, <2>3 DEF UserIsThere, RecordIsTrue
  <2>10. CrashKeepsOwnPassword'
    BY <1>1, <2>3 DEF CrashKeepsOwnPassword, UserIsThere
  <2>11. form' \in [shows : {"closed", "nothing", "dots"}, fresh : BOOLEAN]
    BY <2>1
  <2> QED BY <1>1, <2>1, <2>3, <2>5, <2>7, <2>8, <2>9, <2>10, <2>11
<1> QED BY <1>3, <1>4

\* Every step keeps the record and the user at finAPI together.
LEMMA RegistrationInvStep ==
  RegistrationInv /\ [RegistrationNext]_registrationVars => RegistrationInv'
<1> SUFFICES ASSUME RegistrationInv, [RegistrationNext]_registrationVars PROVE RegistrationInv'
  OBVIOUS
<1> USE DEF RegistrationInv, RegistrationTypeOK
<1>1. CASE SwitchEnvironment
  BY <1>1 DEF SwitchEnvironment, FormIsTrue, FreshHasRead, ReadIsKept, AnswerIsTrue,
              UserIsThere, RecordIsTrue, CrashKeepsOwnPassword
<1>2. CASE OpenUser
  BY <1>2 DEF OpenUser, FormIsTrue, FreshHasRead, ReadIsKept, AnswerIsTrue,
              UserIsThere, RecordIsTrue, CrashKeepsOwnPassword
<1>3. ASSUME NEW r \in Request, Register(r) PROVE RegistrationInv'
  <2>1. /\ UNCHANGED <<environment, belongs, pool, password, registered, form, home, given, edited>>
        /\ req' = [req EXCEPT ![r] = [pc |-> "create", read |-> password,
                                      answer |-> NoPassword, at |-> environment,
                                      fresh |-> TRUE]]
    BY <1>3 DEF Register
  <2> QED BY <2>1 DEF FormIsTrue, FreshHasRead, ReadIsKept, AnswerIsTrue,
                      UserIsThere, RecordIsTrue, CrashKeepsOwnPassword
<1>4. CASE UNCHANGED registrationVars
  BY <1>4 DEF registrationVars, FormIsTrue, FreshHasRead, ReadIsKept, AnswerIsTrue,
              UserIsThere, RecordIsTrue, CrashKeepsOwnPassword
<1> QED BY <1>1, <1>2, <1>3, <1>4, SaveUserKeeps, CreateUserKeeps, SaveRegisteredKeeps
        DEF RegistrationNext

\* The record, finAPI, forms and requests keep their types.
THEOREM RegistrationTypeCorrect == RegistrationSpec => []RegistrationTypeOK
<1>1. RegistrationInv => RegistrationTypeOK
  BY DEF RegistrationInv
<1> QED BY <1>1, RegistrationInvInit, RegistrationInvStep, PTL DEF RegistrationSpec

\* Whatever forms, tabs and lost replies do, a registered record can log in where it was
\* registered, if that is the environment the record names.
THEOREM RegisteredLogsIn == RegistrationSpec => []RegisteredCanLogIn
<1>1. RegistrationInv => RegisteredCanLogIn
  BY RegistrationAssumption
  DEF RegistrationInv, RecordIsTrue, UserIsThere, RegisteredCanLogIn, LogsIn
<1> QED BY <1>1, RegistrationInvInit, RegistrationInvStep, PTL DEF RegistrationSpec

\* A crash never costs a password of one's own.
THEOREM OwnPasswordSurvives == RegistrationSpec => []CrashKeepsOwnPassword
<1>1. RegistrationInv => CrashKeepsOwnPassword
  BY DEF RegistrationInv
<1> QED BY <1>1, RegistrationInvInit, RegistrationInvStep, PTL DEF RegistrationSpec

----------------------------------------------------------------------------
(* Installation: what each step of setup can count on.                     *)

\* In a run in which nothing outside failed, every step finds what it needs.
StepFindsAll ==
  clean =>
    /\ step \notin {"workspace", "aborted"} => workspace = "current"
    /\ step \in {"sidebar", "tile", "caches", "idle"} => icon \in {"none", "App"}
    /\ step \in {"tile", "caches", "idle"} => sidebar
    /\ step \in {"caches", "idle"} => icon = "App"
    /\ step = "idle" => cached

InstallationInv == InstallationTypeOK /\ MigrateNeverAborts /\ StepFindsAll

\* Nothing is there in the beginning.
LEMMA InstallationInvInit == InstallationInit => InstallationInv
  BY DEF InstallationInit, InstallationInv, InstallationTypeOK, MigrateNeverAborts, StepFindsAll

\* Every step of setup, of bench and of people keeps that.
LEMMA InstallationInvStep ==
  InstallationInv /\ [InstallationNext]_siteVars => InstallationInv'
<1> SUFFICES ASSUME InstallationInv, [InstallationNext]_siteVars PROVE InstallationInv'
  OBVIOUS
<1> USE DEF InstallationInv, InstallationTypeOK, MigrateNeverAborts, StepFindsAll
<1>1. CASE BenchRuns
  BY <1>1 DEF BenchRuns, Between
<1>2. CASE DeskChanges
  BY <1>2 DEF DeskChanges, Between
<1>3. ASSUME Ends
      PROVE  /\ installed' \in BOOLEAN
             /\ installed' => installed \/ step' = "idle"
  BY <1>3, Zenon DEF Ends
<1>4. CASE EnsureWorkspace
  <2>0. Ends /\ UNCHANGED <<sidebar, icon, cached>>
    BY <1>4, Zenon DEF EnsureWorkspace
  <2>1. CASE workspace' = "current" /\ step' = "stale icon" /\ UNCHANGED clean
    BY <1>3, <2>0, <2>1
  <2>2. CASE clean' = FALSE /\ step' = Raised /\ UNCHANGED workspace
    <3>1. step' = "idle" \/ (step' = "aborted" /\ ~installed)
      BY <2>2, Zenon DEF Raised
    <3> QED BY <1>3, <2>0, <2>2, <3>1
  <2> QED BY <1>4, <2>1, <2>2, Zenon DEF EnsureWorkspace
<1>5. CASE DropStaleIcon
  <2>0. Ends /\ UNCHANGED <<workspace, sidebar>> /\ step = "stale icon"
    BY <1>5, Zenon DEF DropStaleIcon
  <2>1. CASE /\ IF NameTaken THEN icon' = "none" /\ cached' = FALSE ELSE UNCHANGED <<icon, cached>>
             /\ step' = "sidebar" /\ UNCHANGED clean
    <3>1. icon' \in {"none", "App"} /\ cached' \in BOOLEAN
      BY <2>1, Zenon DEF NameTaken
    <3> QED BY <1>3, <2>0, <2>1, <3>1
  <2>2. CASE clean' = FALSE /\ step' = Raised /\ UNCHANGED <<icon, cached>>
    <3>1. step' = "idle" \/ (step' = "aborted" /\ ~installed)
      BY <2>2, Zenon DEF Raised
    <3> QED BY <1>3, <2>0, <2>2, <3>1
  <2> QED BY <1>5, <2>1, <2>2, Zenon DEF DropStaleIcon
<1>6. CASE BuildSidebar
  <2>0. Ends /\ UNCHANGED <<workspace, icon, cached>> /\ step = "sidebar"
    BY <1>6, Zenon DEF BuildSidebar
  <2>1. CASE sidebar' = (sidebar \/ workspace # "none") /\ step' = "tile" /\ UNCHANGED clean
    <3>1. sidebar' \in BOOLEAN /\ (workspace = "current" => sidebar')
      BY <2>1
    <3> QED BY <1>3, <2>0, <2>1, <3>1
  <2>2. CASE clean' = FALSE /\ step' = "idle" /\ UNCHANGED sidebar
    BY <1>3, <2>0, <2>2
  <2> QED BY <1>6, <2>1, <2>2, Zenon DEF BuildSidebar
<1>7. CASE BuildTile
  <2>0. Ends /\ UNCHANGED <<workspace, sidebar>> /\ step = "tile"
    BY <1>7, Zenon DEF BuildTile
  <2>1. CASE /\ sidebar /\ icon \in {"none", "App"} /\ icon' = "App" /\ step' = "caches"
             /\ cached' = (cached /\ icon = "App") /\ UNCHANGED clean
    <3>1. cached' \in BOOLEAN
      BY <2>1
    <3> QED BY <1>3, <2>0, <2>1, <3>1
  <2>2. CASE /\ ~(sidebar /\ icon \in {"none", "App"}) /\ step' = "idle"
             /\ UNCHANGED <<icon, cached, clean>>
    <3>1. ~clean
      BY <2>0, <2>2
    <3> QED BY <1>3, <2>0, <2>2, <3>1
  <2>3. CASE clean' = FALSE /\ step' = "idle" /\ UNCHANGED <<icon, cached>>
    BY <1>3, <2>0, <2>3
  <2> QED BY <1>7, <2>1, <2>2, <2>3, Zenon DEF BuildTile
<1>8. CASE DropCaches
  BY <1>3, <1>8 DEF DropCaches
<1>9. CASE UNCHANGED siteVars
  BY <1>9 DEF siteVars
<1> QED BY <1>1, <1>2, <1>4, <1>5, <1>6, <1>7, <1>8, <1>9 DEF InstallationNext

\* The Desk and the steps of setup keep their types.
THEOREM InstallationTypeCorrect == InstallationSpec => []InstallationTypeOK
<1>1. InstallationInv => InstallationTypeOK
  BY DEF InstallationInv
<1> QED BY <1>1, InstallationInvInit, InstallationInvStep, PTL DEF InstallationSpec

\* Once the app is installed, no migration aborts in it.
THEOREM MigrationsGoOn == InstallationSpec => []MigrateNeverAborts
<1>1. InstallationInv => MigrateNeverAborts
  BY DEF InstallationInv
<1> QED BY <1>1, InstallationInvInit, InstallationInvStep, PTL DEF InstallationSpec

\* A run in which nothing outside fails leaves the Desk complete, after any history.
THEOREM CleanRunsComplete == InstallationSpec => []CleanRunCompletes
<1>1. InstallationInv => CleanRunCompletes
  BY DEF InstallationInv, StepFindsAll, CleanRunCompletes
<1> QED BY <1>1, InstallationInvInit, InstallationInvStep, PTL DEF InstallationSpec

----------------------------------------------------------------------------
(* The site: what is proved of each part holds with the others beside it.  *)

\* A step of the site is one of its part, and a stutter of every other.
LEMMA PartsTakeTurns ==
  ASSUME [SiteNext]_everything
  PROVE  /\ [Next]_vars /\ [MappingNext]_mappingVars /\ [ClientNext]_clientVars
         /\ [QuotaNext]_quotaVars /\ [RegistrationNext]_registrationVars
         /\ [SetupNext]_setupVars /\ [AdoptionNext]_adoptionVars
         /\ [InstallationNext]_siteVars
<1>1. CASE UNCHANGED everything
  BY <1>1 DEF everything
<1>2. CASE Others("pages") /\ Next
  BY <1>2 DEF Others
<1>3. CASE Others("mapping") /\ MappingNext
  BY <1>3 DEF Others
<1>4. CASE Others("client") /\ ClientNext
  BY <1>4 DEF Others
<1>5. CASE Others("quota") /\ QuotaNext
  BY <1>5 DEF Others
<1>6. CASE Others("registration") /\ RegistrationNext
  BY <1>6 DEF Others
<1>7. CASE Others("setup") /\ SetupNext
  BY <1>7 DEF Others
<1>8. CASE Others("adoption") /\ AdoptionNext
  BY <1>8 DEF Others
<1>9. CASE Others("installation") /\ InstallationNext
  BY <1>9 DEF Others
<1> QED BY <1>1, <1>2, <1>3, <1>4, <1>5, <1>6, <1>7, <1>8, <1>9 DEF SiteNext

\* Beside the others, each part (the read, mapping.py, the client, the quota, register,
\* the bank search, the discovery, install.py) behaves as it does alone, so that the
\* theorems about it hold of the site.
THEOREM PartsBehave ==
  SiteSpec => /\ Spec /\ MappingSpec /\ ClientSpec /\ QuotaSpec /\ RegistrationSpec
              /\ SetupSpec /\ AdoptionSpec /\ InstallationSpec
<1>1. SiteInit => /\ Init /\ MappingInit /\ ClientInit /\ QuotaInit /\ RegistrationInit
                  /\ SetupInit /\ AdoptionInit /\ InstallationInit
  BY DEF SiteInit
<1>2. [SiteNext]_everything
        => /\ [Next]_vars /\ [MappingNext]_mappingVars /\ [ClientNext]_clientVars
           /\ [QuotaNext]_quotaVars /\ [RegistrationNext]_registrationVars
           /\ [SetupNext]_setupVars /\ [AdoptionNext]_adoptionVars
           /\ [InstallationNext]_siteVars
  BY PartsTakeTurns
<1> QED BY <1>1, <1>2, PTL
        DEF SiteSpec, Spec, MappingSpec, ClientSpec, QuotaSpec, RegistrationSpec, SetupSpec,
            AdoptionSpec, InstallationSpec

\* The variables of all parts of the site have their types.
THEOREM SiteTypeCorrect == SiteSpec => []PartsTypeOK
<1>1. /\ TypeOK /\ MappingTypeOK /\ ClientTypeOK /\ QuotaTypeOK /\ RegistrationTypeOK
      /\ SetupTypeOK /\ AdoptionTypeOK /\ InstallationTypeOK
      => PartsTypeOK
  BY DEF PartsTypeOK
<1> QED BY <1>1, PartsBehave, TypeCorrect, MappingTypeCorrect, ClientTypeCorrect,
           QuotaTypeCorrect, RegistrationTypeCorrect, SetupTypeCorrect,
           AdoptionTypeCorrect, InstallationTypeCorrect, PTL

=============================================================================
