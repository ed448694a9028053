--------------------------- MODULE ConsentWatchdog ---------------------------
(***************************************************************************)
(* check_consent_expiry and what else writes the status and consent_expiry *)
(* of one imported connection: a re-consent, a discovery, the form, syncs. *)
(* A date is here the number of days left until it, so that time may go on *)
(* for ever; 0 stands for today and for every day past.                    *)
(***************************************************************************)
EXTENDS Naturals

CONSTANTS
  ConsentDays,         \* PSD2: how long the bank's consent runs (DEFAULT_CONSENT_DAYS)
  WarningDays,         \* finAPI Settings: consent_warning_days
  LatestDate,          \* bound: the latest date that people type
  MaxMissed,           \* bound: days in a row on which the daily job may fail
  ExpiryListed,        \* does finAPI tell the expiry in its list of connections?
  NoCopy, Stale

ASSUME ConsentAssumption ==
  /\ ConsentDays \in Nat /\ WarningDays \in Nat /\ MaxMissed \in Nat
  /\ MaxMissed < WarningDays /\ WarningDays < ConsentDays
  /\ LatestDate \in Nat /\ ConsentDays <= LatestDate
  /\ ExpiryListed \in BOOLEAN

Status == {"Pending", "Connected", "Update Required", "Error"}
DaysLeft == 0 .. ConsentDays

\* What the document may hold: a date, or none, which is later than all of them.
NoExpiry == LatestDate + 1
Dates == 0 .. NoExpiry

ASSUME CopyAssumption == NoCopy \notin Dates /\ Stale \notin Dates /\ NoCopy # Stale

\* Requests that read the whole document and save it later.  The snapshot of their
\* transaction is older than the answers of finAPI and the bank that they wait for.
Writer == {"form", "reconsent", "discovery"}

VARIABLES
  consent,             \* the bank: days until its consent lapses
  expiry, status,      \* the document: consent_expiry, status
  enabled,             \* the document: sync_enabled
  copy,                \* the expiry a writer will save; Stale: modified since it was read
  granted,             \* the bank has answered the re-consent under way
  syncing,             \* the status a running sync has read, or NoCopy
  listed,              \* what a running watchdog has read, or NoCopy
  idle,                \* days, today included, without a complete run of the watchdog
  warned,              \* history: people were told of the lapse of this consent
  overlooked,          \* history: a run passed over the connection, in the consent's last days
  typed                \* history: the document's expiry is one that people typed

record == <<expiry, status, enabled>>
consentVars == <<consent, record, copy, granted, syncing, listed, idle, warned, overlooked,
                 typed>>

ConsentInit ==
  /\ consent = ConsentDays /\ expiry = ConsentDays
  /\ status = "Connected" /\ enabled = TRUE
  /\ copy = [w \in Writer |-> NoCopy] /\ granted = FALSE
  /\ syncing = NoCopy /\ listed = NoCopy
  /\ idle = 0 /\ warned = FALSE /\ overlooked = FALSE /\ typed = FALSE

Aged(days) == IF days \in {0, NoExpiry} THEN days ELSE days - 1

----------------------------------------------------------------------------
(* Whole documents.  Frappe refuses to save one whose row was modified     *)
(* after the request's snapshot was taken.                                 *)

\* Slip: a save does not tell that the row was modified.
ModifiedUnnoticed(others) == copy

\* A save, or a set_value, stamps modified: copies that others hold are stale.
Modified(others) ==
  [w \in Writer |-> IF w \in others /\ copy[w] # NoCopy THEN Stale ELSE copy[w]]

\* The form is opened or reloaded; or the last step of a re-consent reaches the server,
\* which has no expiry to save before the bank answers.
Reads(w) ==
  /\ \/ w = "form" /\ copy' = [copy EXCEPT ![w] = expiry]
     \/ w = "reconsent" /\ copy[w] = NoCopy /\ copy' = [copy EXCEPT ![w] = NoExpiry]
  /\ UNCHANGED <<consent, record, granted, syncing, listed, idle, warned, overlooked, typed>>

\* Slip: the default is counted from the expiry that finAPI tells.
ListedExpiryExtended == consent + ConsentDays

\* What consent_expiry makes of a connection that finAPI lists: the expiry it tells,
\* or the PSD2 default counted from today.
ListedExpiry == IF ExpiryListed THEN consent ELSE ConsentDays

DiscoveryReads ==
  /\ copy["discovery"] = NoCopy
  /\ copy' = [copy EXCEPT !["discovery"] = ListedExpiry]
  /\ UNCHANGED <<consent, record, granted, syncing, listed, idle, warned, overlooked, typed>>

\* The authentication is finished at the bank, the document not yet saved.
Granted ==
  /\ copy["reconsent"] # NoCopy /\ ~granted
  /\ granted' = TRUE
  /\ copy' = [copy EXCEPT !["reconsent"] = IF @ = Stale THEN Stale ELSE ConsentDays]
  /\ consent' = ConsentDays /\ warned' = FALSE /\ overlooked' = FALSE
  /\ listed' = IF listed = NoCopy THEN NoCopy ELSE [listed EXCEPT !.current = FALSE]
  /\ UNCHANGED <<record, syncing, idle, typed>>

Accepted(w) == copy[w] \notin {NoCopy, Stale}

\* _complete and discovery set Connected and the expiry of their copy; in the form people
\* set status and sync_enabled as they like, and any expiry or none.
Saves(w) ==
  /\ Accepted(w) /\ (w = "reconsent" => granted)
  /\ \/ expiry' = copy[w] /\ typed' = (typed /\ w = "form")
     \/ w = "form" /\ expiry' \in Dates /\ typed' = TRUE
  /\ IF w = "form" THEN status' \in Status /\ enabled' \in BOOLEAN
                   ELSE status' = "Connected" /\ UNCHANGED enabled
  /\ copy' = [Modified(Writer) EXCEPT ![w] = NoCopy]
  /\ granted' = (granted /\ w # "reconsent")
  /\ UNCHANGED <<consent, syncing, listed, idle, warned, overlooked>>

\* Refused, failed on the way, or the form is closed.
GivesUp(w) ==
  /\ copy[w] # NoCopy
  /\ copy' = [copy EXCEPT ![w] = NoCopy]
  /\ granted' = (granted /\ w # "reconsent")
  /\ UNCHANGED <<consent, record, syncing, listed, idle, warned, overlooked, typed>>

----------------------------------------------------------------------------
(* A sync writes single fields and leaves modified alone.                  *)

SyncReads ==
  /\ syncing = NoCopy /\ syncing' = status
  /\ UNCHANGED <<consent, record, copy, granted, listed, idle, warned, overlooked, typed>>

\* Stage one done (which takes a consent), a TAN demanded, an exception, or no change.
SyncWrites ==
  /\ syncing # NoCopy /\ syncing' = NoCopy
  /\ \/ consent > 0 /\ status' = IF syncing # "Connected" THEN "Connected" ELSE status
     \/ status' \in {"Update Required", "Error", status}
  /\ UNCHANGED <<consent, expiry, enabled, copy, granted, listed, idle, warned, overlooked, typed>>

----------------------------------------------------------------------------
(* The daily job.                                                          *)

\* Slip: the filter forgets those a sync has flagged already.
WatchedConnected == enabled /\ status = "Connected"

\* The filter on the documents, and the one on the date, which none never meets.
Watched == enabled /\ status \in {"Connected", "Update Required"}
InLastDays == expiry <= WarningDays

\* History: what keeps the lapse that is near from a run.
Overlooks ==
  /\ consent <= WarningDays
  /\ ~enabled \/ status \in {"Error", "Pending"} \/ (typed /\ ~InLastDays)

Lists ==
  /\ listed = NoCopy
  /\ IF Watched /\ InLastDays
     THEN /\ listed' = [expired |-> expiry = 0, current |-> TRUE]
          /\ UNCHANGED <<idle, overlooked>>
     ELSE /\ idle' = 0 /\ UNCHANGED listed
          /\ overlooked' = (overlooked \/ Overlooks)
  /\ UNCHANGED <<consent, record, copy, granted, syncing, warned, typed>>

\* Slip: the status of what has expired is left as it is.
StatusKept == status

StatusFlagged == IF listed.expired THEN "Update Required" ELSE status

\* The status by set_value, which stamps modified, and a notification for everybody.
Notifies ==
  /\ listed # NoCopy /\ listed' = NoCopy
  /\ status' = StatusFlagged
  /\ copy' = IF listed.expired THEN Modified(Writer) ELSE copy
  /\ warned' = (warned \/ listed.current)
  /\ idle' = 0
  /\ UNCHANGED <<consent, expiry, enabled, granted, syncing, overlooked, typed>>

\* The job fails and is rolled back.
WatchdogFails ==
  /\ listed # NoCopy /\ listed' = NoCopy
  /\ UNCHANGED <<consent, record, copy, granted, syncing, idle, warned, overlooked, typed>>

\* The job ends on its day, and does not fail for more than MaxMissed days in a row.
NextDay ==
  /\ listed = NoCopy /\ idle <= MaxMissed
  /\ idle' = idle + 1
  /\ consent' = Aged(consent) /\ expiry' = Aged(expiry)
  /\ copy' = [w \in Writer |-> IF copy[w] \in Dates THEN Aged(copy[w]) ELSE copy[w]]
  /\ UNCHANGED <<status, enabled, granted, syncing, listed, warned, overlooked, typed>>

ConsentNext ==
  \/ \E w \in Writer : Reads(w) \/ Saves(w) \/ GivesUp(w)
  \/ DiscoveryReads \/ Granted
  \/ SyncReads \/ SyncWrites
  \/ Lists \/ Notifies \/ WatchdogFails
  \/ NextDay

\* Days pass, and the daily job gets through sooner or later.
ConsentFairness ==
  WF_consentVars(NextDay) /\ WF_consentVars(Lists) /\ SF_consentVars(Notifies)

ConsentSpec == ConsentInit /\ [][ConsentNext]_consentVars
FairConsentSpec == ConsentSpec /\ ConsentFairness

----------------------------------------------------------------------------
(* Properties.                                                             *)

\* A consent has at most its length left, the document a date or none.
ConsentTypeOK ==
  /\ consent \in DaysLeft /\ expiry \in Dates
  /\ status \in Status /\ enabled \in BOOLEAN
  /\ copy \in [Writer -> Dates \cup {NoCopy, Stale}] /\ granted \in BOOLEAN
  /\ syncing \in Status \cup {NoCopy}
  /\ listed \in [expired : BOOLEAN, current : BOOLEAN] \cup {NoCopy}
  /\ idle \in 0 .. MaxMissed + 1
  /\ warned \in BOOLEAN /\ overlooked \in BOOLEAN /\ typed \in BOOLEAN

\* "Warn before a 90-day consent lapses": no consent ends at the bank without a
\* notification before, unless the job came by in the consent's last days when the
\* connection was disabled, in Error, or back in Pending (which it does not look at), or
\* when it held a later date, or none, that somebody had typed.
LapseIsAnnounced == consent = 0 => warned \/ overlooked

\* No save puts back the expiry of an older consent: neither the form nor a discovery
\* that read it before a re-consent.  What people type goes back and is replaced.
RenewedConsentKept == [][NextDay \/ typed \/ typed' \/ expiry' >= expiry]_consentVars

\* A lapsed consent shows in the status, unless somebody renews it, takes the connection
\* out of the watchdog's sight, or types a date that is still to come, or none.
LapseGetsFlagged ==
  consent = 0 ~> \/ consent > 0 \/ status = "Update Required" \/ ~Watched
                 \/ typed /\ expiry > 0

=============================================================================
