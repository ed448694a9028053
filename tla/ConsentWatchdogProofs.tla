------------------------ MODULE ConsentWatchdogProofs ------------------------
(***************************************************************************)
(* Proofs about ConsentWatchdog for every length of a consent, of the      *)
(* warning and of a series of failing jobs.                                *)
(***************************************************************************)
EXTENDS ConsentWatchdog, TLAPS

\* Days left and none are numbers, none the greatest.
LEMMA DatesAreNumbers ==
  /\ DaysLeft \subseteq Dates /\ NoExpiry \in Dates /\ ConsentDays \in DaysLeft
  /\ Dates \subseteq Nat /\ \A d \in DaysLeft : d # NoExpiry
  BY ConsentAssumption DEF DaysLeft, Dates, NoExpiry

\* A day less is still a date, days that are left stay ahead of no more.
LEMMA AgedDays ==
  /\ \A a \in DaysLeft : Aged(a) \in DaysLeft
  /\ \A a \in Dates : Aged(a) \in Dates
  /\ \A a \in Dates, b \in Dates : a <= b => Aged(a) <= Aged(b)
<1>1. ConsentDays \in Nat /\ LatestDate \in Nat /\ ConsentDays <= LatestDate
  BY ConsentAssumption
<1>2. ASSUME NEW a \in DaysLeft PROVE Aged(a) \in DaysLeft
  BY <1>1 DEF Aged, DaysLeft, NoExpiry
<1>3. ASSUME NEW a \in Dates PROVE Aged(a) \in Dates
  BY <1>1 DEF Aged, Dates, NoExpiry
<1>4. ASSUME NEW a \in Dates, NEW b \in Dates, a <= b PROVE Aged(a) <= Aged(b)
  BY <1>1, <1>4 DEF Aged, Dates, NoExpiry
<1> QED BY <1>2, <1>3, <1>4

\* The document begins as the import left it.
LEMMA InitTyped == ConsentInit => ConsentTypeOK
<1> SUFFICES ASSUME ConsentInit PROVE ConsentTypeOK
  OBVIOUS
<1>1. consent \in DaysLeft /\ expiry \in Dates /\ idle \in 0 .. MaxMissed + 1
  BY ConsentAssumption, DatesAreNumbers DEF ConsentInit
<1>2. status \in Status /\ enabled \in BOOLEAN /\ granted \in BOOLEAN
  BY DEF ConsentInit, Status
<1>3. warned \in BOOLEAN /\ overlooked \in BOOLEAN /\ typed \in BOOLEAN
  BY DEF ConsentInit
<1>4. copy \in [Writer -> Dates \cup {NoCopy, Stale}]
  BY DEF ConsentInit
<1>5. /\ syncing \in Status \cup {NoCopy}
      /\ listed \in [expired : BOOLEAN, current : BOOLEAN] \cup {NoCopy}
  BY DEF ConsentInit
<1> QED BY <1>1, <1>2, <1>3, <1>4, <1>5 DEF ConsentTypeOK

\* A stale copy is a copy.
LEMMA ModifiedTyped ==
  ASSUME copy \in [Writer -> Dates \cup {NoCopy, Stale}], NEW others \in SUBSET Writer
  PROVE  Modified(others) \in [Writer -> Dates \cup {NoCopy, Stale}]
  BY DEF Modified

\* What a request reads is a copy of the document.
LEMMA ReadTyped ==
  ASSUME ConsentTypeOK, NEW w \in Writer, NEW days \in Dates
  PROVE  [copy EXCEPT ![w] = days] \in [Writer -> Dates \cup {NoCopy, Stale}]
  BY DEF ConsentTypeOK

\* Every step keeps the types.
LEMMA StepTyped == ConsentTypeOK /\ [ConsentNext]_consentVars => ConsentTypeOK'
<1> SUFFICES ASSUME ConsentTypeOK, [ConsentNext]_consentVars PROVE ConsentTypeOK'
  OBVIOUS
<1> USE DEF ConsentTypeOK, record
<1>0. /\ ConsentDays \in DaysLeft /\ 0 \in 0 .. MaxMissed + 1
      /\ MaxMissed \in Nat
  BY ConsentAssumption DEF DaysLeft
<1>1. ASSUME NEW w \in Writer, Reads(w) PROVE ConsentTypeOK'
  BY <1>1, ReadTyped, DatesAreNumbers DEF Reads
<1>2. ASSUME NEW w \in Writer, Saves(w) PROVE ConsentTypeOK'
  <2>1. copy[w] \in Dates
    BY <1>2 DEF Saves, Accepted
  <2>2. expiry' \in Dates /\ typed' \in BOOLEAN
    BY <1>2, <2>1 DEF Saves
  <2>3. status' \in Status /\ enabled' \in BOOLEAN
    BY <1>2 DEF Saves, Status
  <2>4. copy' \in [Writer -> Dates \cup {NoCopy, Stale}]
    BY <1>2, ModifiedTyped DEF Saves
  <2>5. granted' \in BOOLEAN
    BY <1>2 DEF Saves
  <2> QED BY <1>2, <2>2, <2>3, <2>4, <2>5 DEF Saves
<1>3. ASSUME NEW w \in Writer, GivesUp(w) PROVE ConsentTypeOK'
  <2>1. granted' \in BOOLEAN
    BY <1>3 DEF GivesUp
  <2> QED BY <1>3, <2>1 DEF GivesUp
<1>4. CASE DiscoveryReads
  <2>1. ListedExpiry \in Dates /\ "discovery" \in Writer
    BY DatesAreNumbers DEF ListedExpiry, Writer
  <2> QED BY <1>4, <2>1, ReadTyped DEF DiscoveryReads
<1>5. CASE Granted
  <2>2. copy' \in [Writer -> Dates \cup {NoCopy, Stale}]
    BY <1>5, DatesAreNumbers DEF Granted
  <2>3. listed' \in [expired : BOOLEAN, current : BOOLEAN] \cup {NoCopy}
    BY <1>5 DEF Granted
  <2> QED BY <1>0, <1>5, <2>2, <2>3 DEF Granted
<1>6. CASE SyncReads
  BY <1>6 DEF SyncReads
<1>7. CASE SyncWrites
  <2>1. status' \in Status
    BY <1>7 DEF SyncWrites, Status
  <2> QED BY <1>7, <2>1 DEF SyncWrites
<1>8. CASE Lists
  <2>1. listed' \in [expired : BOOLEAN, current : BOOLEAN] \cup {NoCopy}
    <3>1. (expiry = 0) \in BOOLEAN
      BY Zenon
    <3>2. [expired |-> expiry = 0, current |-> TRUE] \in [expired : BOOLEAN, current : BOOLEAN]
      BY <3>1, Zenon
    <3> QED BY <1>8, <3>2, Zenon DEF Lists
  <2>2. idle' \in 0 .. MaxMissed + 1 /\ overlooked' \in BOOLEAN
    BY <1>0, <1>8 DEF Lists, Overlooks, InLastDays
  <2> QED BY <1>8, <2>1, <2>2 DEF Lists
<1>9. CASE Notifies
  <2>1. copy' \in [Writer -> Dates \cup {NoCopy, Stale}]
    BY <1>9, ModifiedTyped DEF Notifies
  <2>2. status' \in Status
    BY <1>9 DEF Notifies, StatusFlagged, Status
  <2>3. warned' \in BOOLEAN
    <3>1. warned' = (warned \/ listed.current)
      BY <1>9 DEF Notifies
    <3>2. (warned \/ listed.current) \in BOOLEAN
      BY Zenon
    <3> QED BY <3>1, <3>2, Zenon
  <2> QED BY <1>0, <1>9, <2>1, <2>2, <2>3 DEF Notifies
<1>10. CASE WatchdogFails
  BY <1>10 DEF WatchdogFails
<1>11. CASE NextDay
  <2>1. consent' \in DaysLeft /\ expiry' \in Dates
    BY <1>11, AgedDays DEF NextDay
  <2>2. idle' \in 0 .. MaxMissed + 1
    BY <1>0, <1>11 DEF NextDay
  <2>3. copy' \in [Writer -> Dates \cup {NoCopy, Stale}]
    BY <1>11, AgedDays DEF NextDay
  <2> QED BY <1>11, <2>1, <2>2, <2>3 DEF NextDay
<1>12. CASE UNCHANGED consentVars
  BY <1>12 DEF consentVars
<1> QED BY <1>1, <1>2, <1>3, <1>4, <1>5, <1>6, <1>7, <1>8, <1>9, <1>10, <1>11, <1>12
        DEF ConsentNext

\* Every variable keeps its type.
THEOREM ConsentTypeCorrect == ConsentSpec => []ConsentTypeOK
  BY InitTyped, StepTyped, PTL DEF ConsentSpec

----------------------------------------------------------------------------
(* The warning in time.  The days that are left and the days since the     *)
(* last complete run always exceed the warning days together, unless that  *)
(* run spoke up: each day takes one from the former and adds one to the    *)
(* latter.  It takes an expiry that, unless people typed it, is never      *)
(* later than the lapse.                                                   *)

NeverLate ==
  /\ typed \/ expiry <= consent
  /\ copy["discovery"] \in Dates => copy["discovery"] <= consent
  /\ granted => copy["reconsent"] # NoCopy
  /\ granted /\ copy["reconsent"] \in Dates => copy["reconsent"] <= consent
  /\ copy["form"] \in Dates => copy["form"] = expiry

AnnouncedInTime ==
  /\ warned \/ overlooked \/ consent + idle > WarningDays
  /\ listed # NoCopy /\ ~listed.current => consent = ConsentDays

WatchInv == ConsentTypeOK /\ NeverLate /\ AnnouncedInTime

\* Nothing has lapsed when the connection was imported.
LEMMA InitWatched == ConsentInit => WatchInv
<1> SUFFICES ASSUME ConsentInit PROVE NeverLate /\ AnnouncedInTime
  BY InitTyped DEF WatchInv
<1>1. NeverLate
  BY ConsentAssumption, CopyAssumption DEF ConsentInit, NeverLate, Writer
<1>2. AnnouncedInTime
  BY ConsentAssumption DEF ConsentInit, AnnouncedInTime
<1> QED BY <1>1, <1>2

\* Whoever modifies the document leaves no copy behind that could be saved.
LEMMA ModifiedStale ==
  ASSUME NEW w \in Writer
  PROVE  /\ Modified(Writer)[w] \notin Dates
         /\ copy[w] # NoCopy => Modified(Writer)[w] # NoCopy
  BY CopyAssumption DEF Modified

\* A save leaves no copy that could be saved, its own included.
LEMMA SavedStale ==
  ASSUME NEW w \in Writer, Saves(w), copy \in [Writer -> Dates \cup {NoCopy, Stale}]
  PROVE  \A v \in Writer : /\ copy'[v] \notin Dates
                           /\ v # w /\ copy[v] # NoCopy => copy'[v] # NoCopy
<1>1. copy' = [Modified(Writer) EXCEPT ![w] = NoCopy]
  BY DEF Saves
<1>2. Modified(Writer) \in [Writer -> Dates \cup {NoCopy, Stale}]
  BY ModifiedTyped
<1> QED BY <1>1, <1>2, ModifiedStale, CopyAssumption

\* The writers.
LEMMA Writers == "form" \in Writer /\ "reconsent" \in Writer /\ "discovery" \in Writer
  BY DEF Writer

\* No writer postpones the expiry beyond the lapse, if finAPI lists it; only people do.
LEMMA StepNeverLate ==
  ASSUME ExpiryListed, WatchInv, [ConsentNext]_consentVars PROVE NeverLate'
<1> USE DEF NeverLate, record
<1>0. /\ ConsentTypeOK /\ NeverLate /\ consent \in DaysLeft /\ consent \in Dates
      /\ expiry \in Dates /\ Dates \subseteq Nat /\ consent <= ConsentDays /\ ConsentDays \in Dates
      /\ copy \in [Writer -> Dates \cup {NoCopy, Stale}]
  BY DatesAreNumbers DEF WatchInv, ConsentTypeOK, DaysLeft
<1>1. ASSUME NEW w \in Writer, Reads(w) PROVE NeverLate'
  <2>1. UNCHANGED <<consent, expiry, typed, granted>>
    BY <1>1 DEF Reads
  <2>2. CASE w = "form" /\ copy' = [copy EXCEPT ![w] = expiry]
    BY <1>0, <2>1, <2>2, Writers
  <2>3. CASE w = "reconsent" /\ copy[w] = NoCopy /\ copy' = [copy EXCEPT ![w] = NoExpiry]
    BY <1>0, <2>1, <2>3, Writers
  <2> QED BY <1>1, <2>2, <2>3 DEF Reads
<1>2. ASSUME NEW w \in Writer, Saves(w) PROVE NeverLate'
  <2>1. \A v \in Writer : /\ copy'[v] \notin Dates
                          /\ v # w /\ copy[v] # NoCopy => copy'[v] # NoCopy
    BY <1>0, <1>2, SavedStale
  <2>2. /\ copy[w] \in Dates /\ (w = "reconsent" => granted) /\ UNCHANGED consent
        /\ granted' = (granted /\ w # "reconsent")
    BY <1>0, <1>2 DEF Saves, Accepted
  <2>3. typed' \/ expiry' <= consent'
    <3>1. CASE expiry' = copy[w] /\ typed' = (typed /\ w = "form")
      BY <1>0, <2>2, <3>1 DEF Writer
    <3>2. CASE w = "form" /\ expiry' \in Dates /\ typed' = TRUE
      BY <3>2
    <3> QED BY <1>2, <3>1, <3>2 DEF Saves
  <2> QED BY <1>0, <2>1, <2>2, <2>3, Writers
<1>3. ASSUME NEW w \in Writer, GivesUp(w) PROVE NeverLate'
  <2>1. /\ UNCHANGED <<consent, expiry, typed>> /\ copy' = [copy EXCEPT ![w] = NoCopy]
        /\ granted' = (granted /\ w # "reconsent")
    BY <1>3 DEF GivesUp
  <2> QED BY <1>0, <2>1, Writers, CopyAssumption
<1>4. CASE DiscoveryReads
  <2>1. ListedExpiry = consent
    BY DEF ListedExpiry
  <2> QED BY <1>0, <1>4, <2>1, Writers DEF DiscoveryReads
<1>5. CASE Granted
  <2>1. /\ consent' = ConsentDays /\ UNCHANGED <<expiry, typed>> /\ copy["reconsent"] # NoCopy
        /\ copy' = [copy EXCEPT !["reconsent"] = IF @ = Stale THEN Stale ELSE ConsentDays]
    BY <1>5 DEF Granted
  <2>2. typed' \/ expiry' <= consent'
    BY <1>0, <2>1
  <2>3. copy'["reconsent"] \in {Stale, ConsentDays}
    BY <1>0, <2>1, Writers
  <2>4. copy'["form"] = copy["form"] /\ copy'["discovery"] = copy["discovery"]
    BY <1>0, <2>1, Writers
  <2>5. ASSUME copy'["discovery"] \in Dates PROVE copy'["discovery"] <= consent'
    <3>1. copy["discovery"] \in Nat /\ copy["discovery"] <= consent
      BY <1>0, <2>4, <2>5
    <3>2. consent \in Nat /\ ConsentDays \in Nat /\ consent <= ConsentDays
      BY <1>0
    <3> QED BY <2>1, <2>4, <3>1, <3>2
  <2> QED BY <1>0, <2>1, <2>2, <2>3, <2>4, <2>5, CopyAssumption
<1>6. CASE SyncReads \/ SyncWrites \/ Lists \/ WatchdogFails \/ UNCHANGED consentVars
  <2>1. UNCHANGED <<consent, expiry, copy, granted, typed>>
    BY <1>6 DEF SyncReads, SyncWrites, Lists, WatchdogFails, consentVars
  <2> QED BY <1>0, <2>1
<1>7. CASE Notifies
  <2>1. UNCHANGED <<consent, expiry, granted, typed>>
        /\ copy' = IF listed.expired THEN Modified(Writer) ELSE copy
    BY <1>7 DEF Notifies
  <2> QED BY <1>0, <2>1, ModifiedStale, Writers
<1>8. CASE NextDay
  <2>1. /\ consent' = Aged(consent) /\ expiry' = Aged(expiry) /\ UNCHANGED <<granted, typed>>
        /\ copy' = [w \in Writer |-> IF copy[w] \in Dates THEN Aged(copy[w]) ELSE copy[w]]
    BY <1>8 DEF NextDay
  <2>2. typed' \/ expiry' <= consent'
    BY <1>0, <2>1, AgedDays
  <2>3. \A w \in Writer : IF copy[w] \in Dates THEN copy'[w] = Aged(copy[w]) /\ copy'[w] \in Dates
                          ELSE copy'[w] = copy[w]
    BY <2>1, AgedDays
  <2>4. granted' => copy'["reconsent"] # NoCopy
    BY <1>0, <2>1, <2>3, Writers, CopyAssumption
  <2>5. \A w \in Writer : copy[w] \in Dates /\ copy[w] <= consent => copy'[w] <= consent'
    BY <1>0, <2>1, <2>3, AgedDays
  <2> QED BY <1>0, <2>1, <2>2, <2>3, <2>4, <2>5, Writers
<1> QED BY <1>1, <1>2, <1>3, <1>4, <1>5, <1>6, <1>7, <1>8 DEF ConsentNext

\* The sum of the days never shrinks while nobody was told.
LEMMA StepInTime ==
  ASSUME WatchInv, [ConsentNext]_consentVars PROVE AnnouncedInTime'
<1> USE DEF AnnouncedInTime, record
<1>0. /\ ConsentTypeOK /\ NeverLate /\ AnnouncedInTime
      /\ consent \in Nat /\ expiry \in Nat /\ idle \in Nat /\ (typed \/ expiry <= consent)
      /\ ConsentDays \in Nat /\ WarningDays \in Nat /\ WarningDays < ConsentDays
  BY ConsentAssumption, DatesAreNumbers DEF WatchInv, ConsentTypeOK, NeverLate, DaysLeft
<1>1. ASSUME NEW w \in Writer, Reads(w) \/ Saves(w) \/ GivesUp(w) PROVE AnnouncedInTime'
  <2>1. UNCHANGED <<consent, idle, listed, warned, overlooked>>
    BY <1>1 DEF Reads, Saves, GivesUp
  <2> QED BY <1>0, <2>1
<1>2. CASE \/ DiscoveryReads \/ SyncReads \/ SyncWrites \/ UNCHANGED consentVars
  <2>1. UNCHANGED <<consent, idle, listed, warned, overlooked>>
    BY <1>2 DEF DiscoveryReads, SyncReads, SyncWrites, consentVars
  <2> QED BY <1>0, <2>1
<1>3. CASE Granted
  BY <1>0, <1>3 DEF Granted
<1>4. CASE Lists
  <2>1. CASE Watched /\ InLastDays
    <3>1. listed' = [expired |-> expiry = 0, current |-> TRUE]
      BY <1>4, <2>1 DEF Lists
    <3>2. UNCHANGED <<consent, idle, warned, overlooked>> /\ listed'.current
      BY <1>4, <2>1, <3>1 DEF Lists
    <3> QED BY <1>0, <3>2
  <2>2. CASE ~(Watched /\ InLastDays)
    <3>1. /\ UNCHANGED <<consent, listed, warned>> /\ idle' = 0
          /\ overlooked' = (overlooked \/ Overlooks)
      BY <1>4, <2>2 DEF Lists
    <3>2. CASE consent <= WarningDays
      <4>1. CASE ~Watched
        <5>1. ~enabled \/ status \in {"Error", "Pending"}
          BY <1>0, <4>1 DEF Watched, ConsentTypeOK, Status
        <5> QED BY <1>0, <3>1, <3>2, <5>1 DEF Overlooks
      <4>2. CASE ~InLastDays
        <5>1. typed
          BY <1>0, <3>2, <4>2 DEF InLastDays
        <5> QED BY <1>0, <3>1, <3>2, <4>2, <5>1 DEF Overlooks
      <4> QED BY <2>2, <4>1, <4>2
    <3>3. CASE ~(consent <= WarningDays)
      BY <1>0, <3>1, <3>3
    <3> QED BY <3>2, <3>3
  <2> QED BY <2>1, <2>2
<1>5. CASE Notifies
  <2>1. /\ listed' = NoCopy /\ idle' = 0 /\ UNCHANGED <<consent, overlooked>>
        /\ warned' = (warned \/ listed.current) /\ listed # NoCopy
    BY <1>5 DEF Notifies
  <2>2. CASE listed.current
    BY <2>1, <2>2
  <2>3. CASE ~listed.current
    <3>1. consent' + idle' > WarningDays
      BY <1>0, <2>1, <2>3
    <3> QED BY <2>1, <3>1
  <2> QED BY <2>2, <2>3
<1>6. CASE WatchdogFails
  BY <1>0, <1>6 DEF WatchdogFails
<1>7. CASE NextDay
  <2>1. consent' + idle' >= consent + idle
    BY <1>0, <1>7 DEF NextDay, Aged
  <2>2. consent' \in Nat /\ idle' \in Nat
    BY <1>0, <1>7 DEF NextDay, Aged
  <2> QED BY <1>0, <1>7, <2>1, <2>2 DEF NextDay
<1> QED BY <1>1, <1>2, <1>3, <1>4, <1>5, <1>6, <1>7 DEF ConsentNext

\* If finAPI tells the expiry of the connections it lists, no consent lapses without a
\* warning, whoever saves the document meanwhile and whatever people type: only a run
\* that met a date of theirs beyond the last days, or did not look, lets one pass.
THEOREM LapsesAreAnnounced == ASSUME ExpiryListed PROVE ConsentSpec => []LapseIsAnnounced
<1>1. WatchInv /\ [ConsentNext]_consentVars => WatchInv'
  BY StepTyped, StepNeverLate, StepInTime DEF WatchInv
<1>2. WatchInv => LapseIsAnnounced
  <2> SUFFICES ASSUME WatchInv, consent = 0, ~(warned \/ overlooked) PROVE FALSE
    BY DEF LapseIsAnnounced
  <2>1. idle <= MaxMissed + 1 /\ idle \in Nat
    BY ConsentAssumption DEF WatchInv, ConsentTypeOK
  <2>2. idle > WarningDays
    BY <2>1 DEF WatchInv, AnnouncedInTime
  <2> QED BY <2>1, <2>2, ConsentAssumption
<1> QED BY <1>1, <1>2, InitWatched, PTL DEF ConsentSpec

----------------------------------------------------------------------------
(* A renewed consent stays.  A copy that may still be saved is no older    *)
(* than the document.                                                      *)

FreshIsLatest ==
  ~typed => /\ copy["discovery"] \in Dates => expiry <= copy["discovery"]
            /\ granted /\ copy["reconsent"] \in Dates => expiry <= copy["reconsent"]

LEMMA StepFresh ==
  ASSUME ExpiryListed, WatchInv, FreshIsLatest, [ConsentNext]_consentVars PROVE FreshIsLatest'
<1> USE DEF FreshIsLatest, record
<1>0. /\ ConsentTypeOK /\ NeverLate /\ consent \in DaysLeft
      /\ expiry \in Dates /\ Dates \subseteq Nat /\ consent <= ConsentDays /\ ConsentDays \in Dates
      /\ copy \in [Writer -> Dates \cup {NoCopy, Stale}]
  BY DatesAreNumbers DEF WatchInv, ConsentTypeOK, DaysLeft
<1>1. ASSUME NEW w \in Writer, Reads(w) PROVE FreshIsLatest'
  <2>1. UNCHANGED <<expiry, typed, granted>> /\ copy'["discovery"] = copy["discovery"]
        /\ (copy'["reconsent"] = copy["reconsent"] \/ ~granted)
    BY <1>0, <1>1, Writers DEF Reads, NeverLate
  <2> QED BY <2>1
<1>2. ASSUME NEW w \in Writer, Saves(w) PROVE FreshIsLatest'
  BY <1>0, <1>2, SavedStale, Writers
<1>3. ASSUME NEW w \in Writer, GivesUp(w) PROVE FreshIsLatest'
  <2>1. /\ UNCHANGED <<expiry, typed>> /\ copy' = [copy EXCEPT ![w] = NoCopy]
        /\ granted' = (granted /\ w # "reconsent")
    BY <1>3 DEF GivesUp
  <2> QED BY <1>0, <2>1, Writers, CopyAssumption
<1>4. CASE DiscoveryReads
  <2>1. ListedExpiry = consent
    BY DEF ListedExpiry
  <2> QED BY <1>0, <1>4, <2>1, Writers DEF DiscoveryReads, NeverLate
<1>5. CASE Granted
  <2>1. /\ UNCHANGED <<expiry, typed>>
        /\ copy' = [copy EXCEPT !["reconsent"] = IF @ = Stale THEN Stale ELSE ConsentDays]
    BY <1>5 DEF Granted
  <2>2. copy'["reconsent"] \in {Stale, ConsentDays} /\ copy'["discovery"] = copy["discovery"]
    BY <1>0, <2>1, Writers
  <2>3. ~typed => expiry <= ConsentDays
    BY <1>0 DEF NeverLate, DaysLeft
  <2> QED BY <2>1, <2>2, <2>3, CopyAssumption
<1>6. CASE SyncReads \/ SyncWrites \/ Lists \/ WatchdogFails \/ UNCHANGED consentVars
  <2>1. UNCHANGED <<expiry, copy, granted, typed>>
    BY <1>6 DEF SyncReads, SyncWrites, Lists, WatchdogFails, consentVars
  <2> QED BY <2>1
<1>7. CASE Notifies
  <2>1. UNCHANGED <<expiry, granted, typed>>
        /\ copy' = IF listed.expired THEN Modified(Writer) ELSE copy
    BY <1>7 DEF Notifies
  <2> QED BY <2>1, ModifiedStale, Writers
<1>8. CASE NextDay
  <2>1. /\ expiry' = Aged(expiry) /\ UNCHANGED <<granted, typed>>
        /\ copy' = [w \in Writer |-> IF copy[w] \in Dates THEN Aged(copy[w]) ELSE copy[w]]
    BY <1>8 DEF NextDay
  <2>2. \A w \in Writer : copy'[w] \in Dates => copy[w] \in Dates /\ copy'[w] = Aged(copy[w])
    BY <2>1
  <2>3. \A w \in Writer : copy'[w] \in Dates /\ expiry <= copy[w] => expiry' <= copy'[w]
    BY <1>0, <2>1, <2>2, AgedDays
  <2> QED BY <2>1, <2>2, <2>3, Writers
<1> QED BY <1>1, <1>2, <1>3, <1>4, <1>5, <1>6, <1>7, <1>8 DEF ConsentNext

\* Only the calendar and people bring an expiry nearer: no save of any writer puts back
\* an older one than finAPI told.
THEOREM RenewalsStay == ASSUME ExpiryListed PROVE ConsentSpec => RenewedConsentKept
<1>1. ConsentInit => FreshIsLatest
  BY CopyAssumption DEF ConsentInit, FreshIsLatest, Writer
<1>2. WatchInv /\ FreshIsLatest /\ [ConsentNext]_consentVars => WatchInv' /\ FreshIsLatest'
  BY StepTyped, StepNeverLate, StepInTime, StepFresh DEF WatchInv
<1>3. WatchInv /\ FreshIsLatest /\ [ConsentNext]_consentVars
        => [NextDay \/ typed \/ typed' \/ expiry' >= expiry]_consentVars
  <2> SUFFICES ASSUME WatchInv, FreshIsLatest, ConsentNext, ~typed, ~typed'
               PROVE  NextDay \/ expiry' >= expiry
    BY DEF consentVars
  <2>0. /\ ConsentTypeOK /\ NeverLate /\ expiry >= expiry /\ expiry \in Nat
        /\ copy \in [Writer -> Dates \cup {NoCopy, Stale}] /\ Dates \subseteq Nat
    BY DatesAreNumbers DEF WatchInv, ConsentTypeOK
  <2>1. ASSUME NEW w \in Writer, Saves(w) PROVE expiry' >= expiry
    <3>1. copy[w] \in Dates /\ expiry' = copy[w] /\ (w = "reconsent" => granted)
      BY <2>0, <2>1 DEF Saves, Accepted
    <3> QED BY <2>0, <3>1 DEF FreshIsLatest, NeverLate, Writer
  <2>2. ASSUME NEW w \in Writer, Reads(w) \/ GivesUp(w) PROVE expiry' >= expiry
    BY <2>0, <2>2 DEF Reads, GivesUp, record
  <2>3. CASE \/ DiscoveryReads \/ Granted \/ SyncReads \/ SyncWrites
             \/ Lists \/ Notifies \/ WatchdogFails
    BY <2>0, <2>3
    DEF DiscoveryReads, Granted, SyncReads, SyncWrites, Lists, Notifies, WatchdogFails, record
  <2> QED BY <2>1, <2>2, <2>3 DEF ConsentNext
<1> QED BY <1>1, <1>2, <1>3, InitWatched, PTL DEF ConsentSpec, RenewedConsentKept

=============================================================================
