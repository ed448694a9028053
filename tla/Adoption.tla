------------------------------- MODULE Adoption -------------------------------
(***************************************************************************)
(* Which document stands for which connection at finAPI: imports, whose    *)
(* reply may be lost, and discover_connections, which adopts what finAPI   *)
(* has.  A discovery looks connections up in the snapshot of its           *)
(* transaction; it lists them later, and saves later still.                *)
(***************************************************************************)
CONSTANTS
  Document, Connection,
  Discovery,           \* discoveries that can run at once
  NoId, NoDocument

ASSUME AdoptionAssumption ==
  NoId # NoDocument /\ {NoId, NoDocument, "no", "asked"} \cap Connection = {}

VARIABLES
  idOf,                \* finapi_connection_id of a document; NoId, or NoDocument
  atFinApi,            \* the connections finAPI has
  importing,           \* document: "no", "asked", or the id finAPI answered
  lookup, offer,       \* discovery: idOf in its snapshot, what finAPI listed; or {}
  unmodified,          \* discovery: documents nobody saved since its snapshot
  adopted              \* history: what discoveries brought in, and nobody deleted since

adoptionVars == <<idOf, atFinApi, importing, lookup, offer, unmodified, adopted>>

Ids == Connection \cup {NoId, NoDocument}

AdoptionInit ==
  /\ idOf = [d \in Document |-> NoDocument] /\ atFinApi = {}
  /\ importing = [d \in Document |-> "no"]
  /\ lookup = [r \in Discovery |-> {}] /\ offer = [r \in Discovery |-> {}]
  /\ unmodified = [r \in Discovery |-> {}] /\ adopted = {}

Exists(d) == idOf[d] # NoDocument

\* Slip: the field has lost its unique index.
TakenUnindexed(i) == FALSE

\* The unique index of finapi_connection_id.
Taken(i) == \E d \in Document : idOf[d] = i

\* Documents in ds are saved, created or deleted.
Touches(ds) == unmodified' = [r \in Discovery |-> unmodified[r] \ ds]

----------------------------------------------------------------------------
(* An import per document; ScaFlow has the steps and tabs of one.          *)

StartImport(d) ==
  /\ idOf[d] = NoId /\ importing[d] = "no"
  /\ importing' = [importing EXCEPT ![d] = "asked"]
  /\ UNCHANGED <<idOf, atFinApi, lookup, offer, unmodified, adopted>>

\* finAPI creates the connection.  The reply may be lost.
Imported(d) ==
  /\ importing[d] = "asked"
  /\ \E i \in Connection \ atFinApi :
       /\ atFinApi' = atFinApi \cup {i}
       /\ \E answer \in {i, "no"} : importing' = [importing EXCEPT ![d] = answer]
  /\ UNCHANGED <<idOf, lookup, offer, unmodified, adopted>>

ImportSaves(d) ==
  /\ importing[d] \in Connection /\ Exists(d) /\ ~Taken(importing[d])
  /\ idOf' = [idOf EXCEPT ![d] = importing[d]]
  /\ importing' = [importing EXCEPT ![d] = "no"]
  /\ Touches({d})
  /\ UNCHANGED <<atFinApi, lookup, offer, adopted>>

\* Refused, cancelled, or not saved, for one of many reasons.
ImportFails(d) ==
  /\ importing[d] # "no"
  /\ importing' = [importing EXCEPT ![d] = "no"]
  /\ UNCHANGED <<idOf, atFinApi, lookup, offer, unmodified, adopted>>

\* Another system, or finAPI's own web form, imports one for the same user.
ImportedElsewhere ==
  /\ \E i \in Connection \ atFinApi : atFinApi' = atFinApi \cup {i}
  /\ UNCHANGED <<idOf, importing, lookup, offer, unmodified, adopted>>

----------------------------------------------------------------------------
(* discover_connections.                                                   *)

\* The first read of the request.
Discover(r) ==
  /\ lookup[r] = {}
  /\ lookup' = [lookup EXCEPT ![r] = {idOf}] /\ offer' = [offer EXCEPT ![r] = {}]
  /\ unmodified' = [unmodified EXCEPT ![r] = Document]
  /\ UNCHANGED <<idOf, atFinApi, importing, adopted>>

\* get_bank_connections.
ListConnections(r) ==
  /\ lookup[r] # {} /\ offer[r] = {}
  /\ offer' = [offer EXCEPT ![r] = atFinApi]
  /\ UNCHANGED <<idOf, atFinApi, importing, lookup, unmodified, adopted>>

\* The document with that finapi_connection_id.
Found(snapshot, i) == {d \in Document : snapshot[d] = i}

Ended(r) == lookup' = [lookup EXCEPT ![r] = {}] /\ offer' = [offer EXCEPT ![r] = {}]

\* One transaction for all of them.  A document that was saved or deleted since the
\* snapshot, and one that took an id meanwhile, make the whole request fail.
DiscoverySaves(r) ==
  /\ offer[r] # {}
  /\ \E snapshot \in lookup[r] :
       LET known == UNION {Found(snapshot, i) : i \in offer[r]}
           new   == {i \in offer[r] : Found(snapshot, i) = {}}
           free  == {d \in Document : ~Exists(d)}
       IN /\ known \subseteq unmodified[r]
          /\ \A i \in new : ~Taken(i)
          /\ \E name \in [new -> free] :
               /\ \A i, k \in new : name[i] = name[k] => i = k
               /\ idOf' = [d \in Document |-> IF \E i \in new : name[i] = d
                                              THEN CHOOSE i \in new : name[i] = d
                                              ELSE idOf[d]]
               /\ Touches(known \cup {name[i] : i \in new})
  /\ adopted' = adopted \cup offer[r]
  /\ Ended(r)
  /\ UNCHANGED <<atFinApi, importing>>

\* Refused, or finAPI fails on the way: nothing of it stays.
DiscoveryFails(r) ==
  /\ lookup[r] # {} /\ Ended(r)
  /\ UNCHANGED <<idOf, atFinApi, importing, unmodified, adopted>>

----------------------------------------------------------------------------
(* The Desk.                                                               *)

NewDocument(d) ==
  /\ ~Exists(d)
  /\ idOf' = [idOf EXCEPT ![d] = NoId] /\ Touches({d})
  /\ UNCHANGED <<atFinApi, importing, lookup, offer, adopted>>

DeleteDocument(d) ==
  /\ Exists(d)
  /\ idOf' = [idOf EXCEPT ![d] = NoDocument] /\ Touches({d})
  /\ importing' = [importing EXCEPT ![d] = "no"]
  /\ adopted' = adopted \ {idOf[d]}
  /\ UNCHANGED <<atFinApi, lookup, offer>>

AdoptionNext ==
  \/ \E d \in Document : \/ StartImport(d) \/ Imported(d) \/ ImportSaves(d) \/ ImportFails(d)
                         \/ NewDocument(d) \/ DeleteDocument(d)
  \/ \E r \in Discovery : \/ Discover(r) \/ ListConnections(r)
                          \/ DiscoverySaves(r) \/ DiscoveryFails(r)
  \/ ImportedElsewhere

AdoptionSpec == AdoptionInit /\ [][AdoptionNext]_adoptionVars

----------------------------------------------------------------------------
(* Properties.                                                             *)

AdoptionTypeOK ==
  /\ idOf \in [Document -> Ids] /\ atFinApi \subseteq Connection
  /\ importing \in [Document -> Connection \cup {"no", "asked"}]
  /\ lookup \in [Discovery -> SUBSET [Document -> Ids]]
  /\ offer \in [Discovery -> SUBSET Connection]
  /\ unmodified \in [Discovery -> SUBSET Document] /\ adopted \subseteq Connection

\* A connection whose import lost its reply, or that another system imported, has one
\* document after a discovery listed it, and keeps it until somebody deletes it, whatever
\* imports and other discoveries of the same connection do meanwhile.
AdoptedOnce ==
  \A i \in adopted : \E d \in Document : {e \in Document : idOf[e] = i} = {d}

=============================================================================
