# Verification of erpnext_finapi

`erpnext_finapi` feeds ERPNext's ledger from a bank through finAPI. These TLA+ modules model the
parts of it that keep state and can go wrong between two steps, TLC checks them on small
instances, and TLAPS proves what matters most for every instance. Everything is translated from
`src/`; what the code relies on but does not contain (MariaDB, Frappe's jobs, finAPI, the bank, the
people at the Desk) is modelled from how the code uses it and marked `external` in `PROJECT.json`.

## 1. The system

| Part | State it keeps | Operations | Talks to |
|---|---|---|---|
| Transaction sync (`sync.py`, `tasks.py`, `hooks.py`) | `status`, `last_sync`, `last_error` of a connection, `Bank Transaction` rows, `finAPI Sync Log` | the cron run over all connections, **Sync Now** of one, both `sync_connection` | finAPI (update, then read), the ledger |
| SCA flow (`sca.py`, the form's dialogs) | the cached session with the login credentials, `finapi_connection_id`, `status`, `consent_expiry` | `start`, `submit_step`, `cancel`, `_complete`, `on_trash` | finAPI (import/update), the cache, the mapping |
| Account mapping (`sca.py` from `map_accounts` on, `on_update`) | account table, `known_account_ids`, `Bank Account.integration_id` and `.iban` | refresh, discovery, saves of the form | finAPI (accounts), native Bank Accounts |
| finAPI client (`finapi/client.py`) | a token per client object | one method per endpoint, paged reads | finAPI over HTTP |
| Session (`session.py`) | none | `get_user_session`, `psu_headers` | client, settings |
| Consent watchdog (`sync.check_consent_expiry`) | `status` | the daily job | notifications |
| finAPI user (`finapi_user.py`) | the password and flags of the registration; documents it creates | `register`, `discover_connections` | finAPI, mapping |
| Bank search (`finapi_bank_connection.js`, `.py`) | `finapi_bank_id`, `interface`, the dialog | `search_banks`, `start_sca`, `get_login_fields` | finAPI, SCA flow |
| Transaction mapping (`finapi/mapping.py`) | none | `map_transaction`, `transaction_id` | the table other feeds write too |
| Installation (`install.py`) | workspace, sidebar, app tile, caches | `after_install`, `after_migrate` | Frappe's builders |
| Settings, web form, permissions | their records | forms | |

How they interact. The sync and the mapping meet in the account table: a row with a
`bank_account` is what the sync reads for. The sync and the SCA flow meet in `status`: a bank that
demands a TAN turns it to `Update Required`, a completed flow back to `Connected`. All requests and
jobs meet in the database and, for the SCA flow, in one cache key per connection.

What is hard, and what makes each part correct:

* **Sync.** Jobs overlap (the cron run in one worker, Sync Now in another, over the same
  connection), read the database as it was when they began, publish at their end or never. finAPI
  stores asynchronously. The cursor is a *date*, stamped at the *end* of a run for what was read at
  its *beginning*. Correct means: nothing is lost behind the cursor, nothing is doubled, an error
  is visible, and what the bank books arrives.
* **SCA flow.** The key names the connection, not the flow: tabs and users read and overwrite each
  other's credentials while requests wait for the bank. Correct means: a hash goes with the
  credentials it was issued for, and nobody's credentials outlive their flow.
* **Mapping.** `integration_id` is unique, mappings are exchanged and corrected, and which IBAN was
  written by the app is not recorded. Correct means: no duplicate key on the way, ids mirrored,
  deleted rows stay deleted, the accountant's IBANs stay.
* **Paged read.** Pages are numbered while the list grows and shrinks. Correct means: complete, or
  short by no more than finAPI took away.
* **Consent.** The expiry of a consent is written by re-consents and discoveries, the status by
  those, by syncs and by the watchdog, whole documents next to single fields, and the daily job may
  fail. Correct means: no consent lapses unannounced, no renewal is overwritten.
* **Quota.** Cron jobs wait in a queue, a job has no web request to take PSU metadata from. Correct
  means: the schedule makes no more unattended updates in any 24 hours than PSD2 grants. It does
  make a fifth when an evening job waits past its hour, for the schedule leaves no room (section 3).
* **Registration and adoption.** finAPI does its part before the document is saved, and the reply or
  the worker may be lost between; lookups are of a snapshot. Correct means: one document for one
  connection, a registered record that can log in.
* **Bank search.** What a dialog asked for and what the server reads from the document are two
  states, with other tabs between, and bank and interface are ordinary fields that people edit.
  Correct means: credentials go where their fields came from.
* **Replies.** finAPI says "authenticate" with an error status, and gateways answer with pages of
  their own. Correct means: a challenge goes on, an error is recorded.
* **Installation.** Steps depend on what earlier runs, people and Frappe left. Correct means: a
  migration never aborts for cosmetics, and repairs what is missing.

`PROJECT.json` lists the components, and under `hazards` each of these at its line.

## 2. Modules

| Module | Models | Used by |
|---|---|---|
| `BankFeed` | the promise to the ledger (abstract) | `TransactionSync` refines it |
| `TransactionSync` | both stages, all jobs, the database and finAPI around them | `MCTransactionSync`, `TransactionSyncProofs` |
| `ScaFlow` | the endpoints, the dialogs, the cache | `MCScaFlow`, `ScaFlowProofs` |
| `AccountMapping` | account table, mirror, IBANs | `MCAccountMapping`, `AccountMappingProofs` |
| `TransactionRead` | what the read promises its caller (abstract) | `TransactionPages` refines it, `TransactionSync` takes it |
| `TransactionPages` | the loop over the pages | `Site`, `TransactionPagesProofs` |
| `ConsentWatchdog` | the consent's expiry and everybody who writes it or the status | `MCConsentWatchdog`, `ConsentWatchdogProofs` |
| `TransactionMapping` | `mapping.py`, next to other feeds | `Site`, `TransactionMappingProofs` |
| `FinApiClient` | from finAPI's reply to what the caller makes of it | `Site`, `FinApiClientProofs` |
| `UnattendedQuota` | the cron hours, the queue, PSU headers | `Site`, `FinApiClientProofs` |
| `Registration` | `register`, crashes, other tabs | `Site`, `SiteProofs` |
| `BankSetup` | from the bank search to the first request | `Site`, `SiteProofs` |
| `Adoption` | imports and discoveries of the same connections | `Site`, `SiteProofs` |
| `Installation` | `install.py` | `Site`, `SiteProofs` |
| `Site` | the eight parts above that share no state | `MCSite`, `SiteProofs` |

`Site` puts eight parts that share no state into one specification: the initial state picks a part, and
only this part moves, so that their state spaces add up instead of multiplying to interleavings that
mean nothing. Their definitions therefore carry the part's name where two would collide.

The operators commented "Slip" are plausible mistakes next to the definition they would replace;
no specification uses them. With one in place of the definition, TLC must find the property broken
that `PROJECT.json` lists beside it: that shows the property depends on the code being as it is.

### TransactionSync

A *job* is a cron run or a Sync Now. Its program counter follows `sync_connection`: `next` (choose
the next connection), `update` (stage one), `read` and `reading` (stage two, before and during the
read), `create` (one Bank Transaction after another). `FinishSync` is the end of the `try` block, `Abandon` the handler, `LogEntry` the log both
write.

* *Database.* A Frappe job is one transaction: `Begin` takes the snapshot (`seen`) of InnoDB's
  REPEATABLE READ, writes collect in `newStatus`, `newError`, `newSync`, `newLog`, `inserted`,
  `unsubmitted`, and `Commit` publishes them together; `KillWorker` drops them (rollback).
  `db_set` writes single fields, so `Commit` leaves the fields alone the job did not write. A run
  that ends well empties `last_error` when its own copy of the document shows none
  (`sync.py:90-91`): of two overlapping jobs the later one can wipe the error of the other. The
  handler of `sync_connection` swallows exceptions, so a failed run commits what it had inserted.
* *Unique index.* ERPNext declares `Bank Transaction.transaction_id` unique; the index, unlike the
  snapshot, sees the rows of others. `UniqueIndex` turns it off, to ask what the `exists()` test
  is worth alone. Waiting for another job's row lock is only delay; that it ends in an error
  (duplicate key, lock timeout) is `InsertFails`. A deadlock, which would roll back the whole job and
  let it go on, is not modelled.
* *finAPI.* `FetchFromBank` makes the bank's transactions be fetched, `Store` stores each later,
  under the date of that day. The settle time of the code (`POST_UPDATE_SETTLE_SECONDS`) promises
  nothing, so none is assumed.
* *The read* takes time, in which finAPI stores, days pass and other jobs commit: `AskTransactions`
  takes what matches when the read begins, `ReadTransactions` adds any part of what came in since.
  That is the answer of `TransactionRead`, which the loop over the pages implements
  (`ReadIsOneAnswer`), up to `max_pages` pages and as long as finAPI takes nothing away and answers
  in JSON; this module assumes those three.
* *Failures.* Stage one: done, TAN demanded (510), refused (`FinApiError`), or a transport error,
  which is no `FinApiError`, reaches the handler, and may come after finAPI got the request
  (`UpdateTimesOut`). Session and read fail through `CallFails`, insert and submit through their own.
* *Days.* The clock counts days; `Tick` may come in the middle of a run, `MaxRunDays` times at most
  (the job's RQ timeout is 1500 s, so 1 is what the code has). `OverlapDays` is the effective value: the
  code reads `sync_overlap_days or 2`.
* *History.* `vouched` and `coveredFrom` record since when an account's link has been seen and
  synced; `asked` and `fetched` in the log what stage one did. Only properties read them.

### ScaFlow

A tab has a form, or a challenge on display (a dialog with Cancel, or a notice without: redirect and
decoupled), and at most one request (Frappe freezes the page). A request reads the document or the
cache (`Start`, `SubmitStep`), writes the session it holds over whatever the cache has by then
(`StoreSession`), opens a session with finAPI in `auth` (`get_user_session`), waits for finAPI in
`call`, and saves in `complete`. finAPI may answer without an id: `CompletedId` then keeps the
document's. `ReceiveChallenge` is the 510 branch of `_send`, `CallFails` the handler, `ReceiveDone`
and `CompleteSaves`/`CompleteFails` the end. `stale` stands for Frappe's check that a document was
not modified since it was read. The cache is no transaction: what a failed request stored stays.
A set of credentials is a `Flow`; `ended` are the flows that are over for their user, `excused`
those of them for which `EndedIsForgotten` grants an exception. `orderly` records whether the tabs
took turns so far: each flow began while no other tab had a request or a challenge, from a form that
shows the document as it is (`TakesTurn`).

### AccountMapping

One request at a time: a request is a database transaction, and Frappe refuses a document that
changed since it was read. `MapAccount` is one turn of `map_accounts`, `SaveRow` one of `on_update`,
so every intermediate write that the unique index could object to is a state. `UserSave` gives the
form any table a user can make of it: rows deleted, Bank Accounts picked, exchanged, cleared, also
one Bank Account for two rows, which the form does not prevent, and an IBAN typed into rows. The IBAN
column is editable, and `on_update` releases and writes back what stands there; the next refresh
puts finAPI's IBAN back. `FormIban` is what users type, one IBAN per save, in as many rows as they like. `find_bank_account_by_iban` returns any
enabled match. IBANs are compared normalised, so they are values here. `own`,
`entered` (IBANs typed into a row) and `dropped` are history.

### TransactionPages

The loop of `get_transactions`: finAPI inserts anywhere, because nothing in `src/` says how it orders,
and takes away (`Remove`: a deletion or a merge). `pageCount` is any number that fits the size, a
missing or zero one counts as 1, as in the code. `GarbledPage` is a reply of status 2xx whose body is
no JSON: `_parse_body` wraps it, `get` finds no transactions and no paging, and the read ends there.
`gone` and `garbled` are history.

`TransactionRead` is what the caller may rely on: `Call`, one `Answer`, `End`, with transactions
arriving and being taken away between them. The answer holds nothing that finAPI never had, misses no
more of what matched at the call than was taken away, and after a failure there is none. In
`Read == INSTANCE TransactionRead` the list is the set it holds, `ReadPage` a stutter unless it is the
last page, and the pages read so far are not yet an answer.

### ConsentWatchdog

One imported connection. A date is the number of days left until it, so that time goes on for ever
in finitely many states. `Reads`/`Saves` are whole-document writers (the form, `_complete`,
discovery); `Accepted` is Frappe's check that the row was not modified since it was read, `Modified`
what a save or `set_value` does to the copies of others. A sync reads the status and writes it by
`db_set` without touching `modified`. `Lists` is the query of `check_consent_expiry`, `Notifies` its
loop, `WatchdogFails` a job that is rolled back. `ListedExpiry` is what `consent_expiry` makes of a
listed connection: the date finAPI tells, or 90 days from *today*; `ExpiryListed` says which.
`consent_expiry` is an editable field: a save of the form may write any date up to `LatestDate`, or
none (`NoExpiry`, later than all dates: the query never lists it).
`warned`, `overlooked` and `typed` are history: that people were told of this lapse; that a job passed
over the connection in its last days because it was disabled, in `Error` or in `Pending`, or had a
later date, or none, that people typed; that the document's expiry is one they typed.
Simplified: every consent runs `ConsentDays`; a job ends on the day it began.

### TransactionMapping, FinApiClient

`MapTransaction` is the function of that name: key, side, amount, date (the first field that is given,
parsed or not). `Import` is `create_bank_transaction` with its `exists()` test; `OtherFeed` stands for
whatever else writes Bank Transactions, under numbers that finAPI may use too.

`FinApiClient` takes a reply (a class of status, a shape of body, or none) through `_parse_body`,
`_request` and the `except` clauses of each caller in their order: `Handled` picks the first clause
whose class the exception `Is`. The callers are stage one of a sync (`Updated`), an SCA step (`Sent`)
and Test Connection. A client object asks for one token in each of these calls, so its token cache is
not met.

### UnattendedQuota, Registration

`NextHour` makes the cron job due at the hours of `hooks.py`; `RunCron` runs it, up to `MaxDelay` hours
later; `AskSync` captures the headers in the web request, `RunAsked` uses them in the worker. Of the
past, `recent` keeps the unattended updates of the last 24 hours that the schedule and Sync Now make.
`sync_now_foreground`, which nothing in `src/` calls, is not in the module: from a console it has no
request, so that what a developer runs there is an unattended update on top of the schedule's.

`Registration` splits `register` where the world can interfere: the read of the record (`Register`),
finAPI's answer (`CreateUser`, after which reply or worker may be lost), the save
(`SaveRegistered`). People edit the password (stored ones show as dots) and the record's environment,
and switch that of the settings. `register` creates the user in the environment of the settings,
whatever the record's is; `get_user_session` refuses a record of another one (`LogsIn`).

### BankSetup, Adoption, Installation

`BankSetup` follows a choice from the search result (`PickBank`, with `Fitting`, what
`render_banks` does to the interface) over the save that `start_sca` makes first, and the login fields
(`FieldsOf`), to `Start`, where the server reads the document. Bank and interface are ordinary fields as well, set
by hand to anything (`EditChoice`; `wiki/SCA-Flows.md:60` says to test both interfaces for a bank), and
nothing compares the two. For an interface that the bank lacks `get_login_fields` takes the first it
has (`FieldsOf`), while the request names the one in the document. A credential is known by the bank and
interface whose fields asked for it. `typed` is history: bank or interface were set by hand since a
result of the search was clicked.

`Adoption`: `Imported` is the moment finAPI has the connection, its reply may be lost;
`Discover`, `ListConnections` and `DiscoverySaves` are the snapshot, the list and the one transaction of
`discover_connections`. `Taken` is the unique index, `unmodified` Frappe's check. There is one import
per document at a time here; `ScaFlow` has its tabs.

`Installation` is `setup` step by step, any of which may raise, and who handles it (`Raised`, Frappe's
builders). `DeskChanges` is what people, releases and Frappe do between runs.

## 3. Runs

All bounds are constants of the `.cfg`; no other bound is in the modules than `LastDay` (the clock
stops) and the sets.

| Run | Instance | What it shows |
|---|---|---|
| `sync_overlap` | 1 connection, 1 account, 1 transaction, 2 jobs at once, 3 days | `CursorCovers`; implements `BankFeed` (`FeedSpec`) |
| `sync_serial` | 2 connections, 2 accounts, 1 transaction, 1 worker, no unique index, all failures | `NoDouble`, `CleanLogIsFresh`, `SuccessRestoresSchedule`, `OffScheduleSaysWhy`, `TypeOK` |
| `sync_live` | 1 connection, a bank that may demand TANs and refuse for ever | liveness: `StoredReachesLedger`, `BookedReachesLedger` |
| `sca_tabs` | 2 tabs, 3 flows, 3 hashes, 2 ids, every failure | `HashMatchesCredentials`, `EndedIsForgotten`, `TypeOK`; while the tabs take turns `AnswerMatchesChallenge`, `ConnectionIdKept` |
| `mapping_one` | 1 connection, 2 accounts (one has an IBAN), 3 Bank Accounts (one disabled), that IBAN and another one, which users also type into rows | `IntegrationUnique`, `LinkedIsMirrored`, `RemovedStaysRemoved`, `ForeignIbanKept`, `TypeOK` |
| `consent_watch` | a consent of 3 days, warning at 2, the job failing on 1 day in a row, all writers, dates up to 4 days ahead or none typed | `LapseIsAnnounced`, `RenewedConsentKept`, `ConsentTypeOK`; liveness: `LapseGetsFlagged` |
| `site_parts` | see below | `ReadIsComplete`, `MissesAtMostRemoved`, `LedgerIsComplete`, `ChallengeGoesOn`, `ErrorsAreRecorded`, `QuotaKept`, `RegisteredCanLogIn`, `CrashKeepsOwnPassword`, `ImportIsOffered`, `CredentialsFit`, `AdoptedOnce`, `MigrateNeverAborts`, `CleanRunCompletes`, `PartsTypeOK` (all types); implements `TransactionRead` (`ReadSpec`) |

Why these bounds are enough to meet the hazards: the cursor arithmetic involves one transaction and
the order of two commits, and three days let a run cross midnight and its cursor pass a date;
doubling needs two jobs and one transaction; two connections make the loop of the cron run go on
after a failure; the shared cache key needs two tabs and two flows, and three hashes let one flow be
challenged twice, two ids are what it takes to exchange one for the other; exchanging two rows over
two Bank Accounts is the smallest exchange, one of the IBANs is that of an account and the other that
of none, and the account without an IBAN gets one from the row when somebody types it. A consent of three days with a warning at two has a day before the
warning, one to miss and one to catch up. In `site_parts`: five transactions exceed two pages of two
by one; amounts are -5.01, 0 and 5.01, numbers two; the day has its 24 hours and the cron's 7, 11,
15 and 19, with delays up to 3 hours, the longest before the next job; two registering requests and
two passwords of one's own; two tabs over three banks, one with another interface only, one with
both, one without any; two documents, two connections and two discoveries, the smallest race for an
id. Symmetry is used in runs of invariants and action properties only, over sets whose members the modules do not distinguish.

Runs that show where the code and what is said of it part (each a `finding` with the quoted line):

| Run | The code | What is said |
|---|---|---|
| `sync_late_link` | an account linked after its connection was synced starts at the connection's cursor: a silent gap | "gaps are silent" is what the overlap is to prevent |
| `sync_duplicates` | overlapping syncs: the second ends in Error on the unique index | "duplicates cost nothing" |
| `sca_setup_failure` | a refused session leaves the credentials cached | cleared "on success, cancel and failure alike" |
| `consent_postponed` | without an expiry in finAPI's list, a discovery writes 90 days from today although nobody authenticated: the warning never comes | "Warn before a 90-day consent lapses" |
| `mapping_own_iban` | a corrected mapping clears an IBAN the accountant entered | "only cleared when it is the one this mapping wrote" |

Where a property needs an exception or a condition, it states what the code does beyond it:

* `EndedIsForgotten` excuses the flows that finAPI gave no session or no hash, and those with another
  request under way when they ended: a challenge that arrives after a cancel from another tab, or
  after the document was deleted, stores the credentials again (`sca.py:149`).
* `OffScheduleSaysWhy` and `SuccessRestoresSchedule` are what there is instead of a retry: any
  exception, also a timeout, sets `Error`, and the scheduled run selects no connection in `Error`
  (`sync.py:45`), until a person acts. They are checked with one worker and false of two: the later
  of two overlapping runs may wipe the other's `last_error`, or go by a status that is no longer so.
* A submit that fails leaves a draft (`drafts`, `SubmitFails`) that later runs take for done.
* `LinkedIsMirrored` is for one connection and for rows that have their Bank Account to themselves:
  `integration_id` has room for one account and is written for the rows of the saved document only.
  An IBAN written on the way to a correction can stay behind, as only the last holder is released.
* `AnswerMatchesChallenge` and `ConnectionIdKept` hold while the tabs take turns (`orderly`). Flows that
  overlap overwrite each other's session, so that an answer goes out with the hash of another
  challenge. And a tab whose form is stale, also one that starts long after the other has finished,
  still offers the import: `start` does not ask whether the document has a connection, finAPI imports
  a second one, and `finapi_connection_id` is exchanged.
* `ForeignIbanKept` is for an IBAN that no finAPI account carries and nobody typed into a row: what
  stands in the row is what release and backfill act on.
* `ReadIsComplete` ends at `max_pages` pages: beyond them the read stops without an error. It excepts
  a 2xx page that is no JSON, which counts as an empty last page, and reads finAPI removed from:
  there, `MissesAtMostRemoved` bounds the loss.
* `LapseIsAnnounced` excepts connections the job passes over in their last days: disabled, in `Error`
  (any failed sync), set to `Pending`, or with a later date, or none, that somebody typed into the
  form; `LapseGetsFlagged` excepts such a date as well, until it comes. `RenewedConsentKept` speaks of
  stale copies: an expiry that people type may go back, and the next re-consent or discovery
  replaces it.
* `LedgerIsComplete` says nothing of the sum of an amount that cannot be parsed: it becomes a row of
  0.00, which later reads take for done.
* `QuotaKept` allows one more when a job was late: an evening run that slips past the hour counts
  towards the next day's four. Four cron hours leave no room, so that a delay of an hour breaks the
  cap that `hooks.py:27-29` goes by; without the exception the property is false. It does not count
  what is run from a console (`sync_now_foreground`).
* `ErrorsAreRecorded` is for error replies with an object or text for a body; a timeout, and garbage
  in a token reply, are raised, as `TransactionSync` has them.
* `RegisteredCanLogIn` and `CrashKeepsOwnPassword` end where people type another password.
  `RegisteredCanLogIn` is for a registration in the environment that the settings and the record name:
  a record of the other environment is registered all the same, in that of the settings, and
  `get_user_session` refuses it. A password that finAPI made up is lost with the reply that carries it, or with the worker.
* `ImportIsOffered` is for what the search filled in; a bank or an interface typed since then may not
  go together, which nothing checks before finAPI does, although `get_login_fields` and the search
  both have the list of interfaces.
* `CredentialsFit` excepts a choice another tab saved while the dialog was open, a bank set anew
  after the import, which a re-consent does not go to, and an interface the bank does not have: its
  dialog shows the fields of the bank's first interface, and the credentials go to finAPI under the
  other.
* `AdoptedOnce` holds through a discovery that runs during an import; the import's save then fails on
  the unique id, after the user's authentication.
* `CursorCovers` speaks of accounts from the first sync on that saw their link: `sync_late_link`.

`CHECK_DEADLOCK FALSE` stands in the ScaFlow runs, where flows and hashes are finite sets that run
out, and in `site_parts`, where transactions and numbers do.

**Fairness** (`FairConsentSpec`, the run `consent_watch`): days pass (weak fairness of `NextDay`), the
scheduler starts the daily job (weak fairness of `Lists`), and it gets through sooner or later
although it may fail now and then (strong fairness of `Notifies`). That it does not fail for more
than `MaxMissed` days in a row is a bound of the module, which `LapseIsAnnounced` needs. Nothing is
assumed of people, syncs and discoveries.

**Fairness** (`FairSpec`, the run `sync_live`): a worker that runs keeps running
(weak fairness of `JobStep`); the scheduler's run comes up again and again whatever Sync Now does in
between (strong fairness of `SyncAllConnections`: the cron entry of `hooks.py` and a queue that
workers empty); finAPI stores what it fetched (weak fairness of `Store`). Nothing is assumed of the
people, the bank's answers, or the clock; `BookedReachesLedger` states its condition, that stage one
succeeds now and then, itself. The transport does not fail in this run: a failed call takes the
connection off the schedule, and then nothing arrives.

## 4. Proofs

`tlapm` proves, for every value of the constants that satisfies the named assumptions:

| Theorem | Statement |
|---|---|
| `TransactionSyncProofs!TypeCorrect` | `Spec => []TypeOK` |
| `TransactionSyncProofs!CursorCorrect` | `Spec => []CursorCovers` |
| `TransactionSyncProofs!FeedRefinement` | `ASSUME UniqueIndex PROVE Spec => FeedSpec` |
| `TransactionSyncProofs!NeverDoubled` | `ASSUME UniqueIndex PROVE Spec => []NoDouble` |
| `TransactionSyncProofs!CleanLogs` | `Spec => []CleanLogIsFresh` |
| `TransactionSyncProofs!SuccessRestores`, `ErrorsAreExplained`, `ExistsTestSuffices` | `ASSUME Workers = 1 PROVE Spec => []SuccessRestoresSchedule`, likewise `OffScheduleSaysWhy`, `NoDouble` |
| `ScaFlowProofs!TypeCorrect`, `HashesMatch`, `OnlyExcusedRemain` | `TypeOK`, `HashMatchesCredentials`, `EndedIsForgotten` |
| `ScaFlowProofs!AnswersMatch`, `ConnectionStays` | `Spec => []AnswerMatchesChallenge`, `Spec => ConnectionIdKept` |
| `AccountMappingProofs!TypeCorrect`, `UniqueMirror`, `RemovedRowsStay`, `ForeignIbans` | `TypeOK`, `IntegrationUnique`, `RemovedStaysRemoved`, `ForeignIbanKept` |
| `AccountMappingProofs!LinksAreMirrored` | `ASSUME` one connection `PROVE Spec => []LinkedIsMirrored` |
| `TransactionPagesProofs!TypeCorrect`, `NothingMissed`, `FewMissed` | `TypeOK`, `ReadIsComplete`, `MissesAtMostRemoved` |
| `TransactionPagesProofs!ReadIsOneAnswer` | `Spec => ReadSpec` |
| `ConsentWatchdogProofs!ConsentTypeCorrect` | `ConsentTypeOK` |
| `ConsentWatchdogProofs!LapsesAreAnnounced`, `RenewalsStay` | `ASSUME ExpiryListed PROVE ConsentSpec => []LapseIsAnnounced`, likewise `RenewedConsentKept` |
| `TransactionMappingProofs!MappingTypeCorrect`, `LedgerComplete` | `MappingTypeOK`, `LedgerIsComplete` |
| `FinApiClientProofs!ClientTypeCorrect`, `ChallengesGoOn`, `ErrorsStayRecorded` | `ClientTypeOK`, `ChallengeGoesOn`, `ErrorsAreRecorded` |
| `FinApiClientProofs!QuotaTypeCorrect` | `QuotaTypeOK` |
| `FinApiClientProofs!QuotaIsKept` | `ASSUME Cardinality(CronHours) <= Quota PROVE QuotaSpec => []QuotaKept` |
| `SiteProofs!AdoptionTypeCorrect`, `AdoptedExactlyOnce` | `AdoptionTypeOK`, `AdoptedOnce` |
| `SiteProofs!SetupTypeCorrect`, `ImportsAreOffered`, `CredentialsAreAskedFor` | `SetupTypeOK`, `ImportIsOffered`, `CredentialsFit` |
| `SiteProofs!RegistrationTypeCorrect`, `RegisteredLogsIn`, `OwnPasswordSurvives` | `RegistrationTypeOK`, `RegisteredCanLogIn`, `CrashKeepsOwnPassword` |
| `SiteProofs!InstallationTypeCorrect`, `MigrationsGoOn`, `CleanRunsComplete` | `InstallationTypeOK`, `MigrateNeverAborts`, `CleanRunCompletes` |
| `SiteProofs!PartsBehave`, `SiteTypeCorrect` | `SiteSpec => Spec /\ MappingSpec /\ ...` (every part's), `SiteSpec => []PartsTypeOK` |

*Assumptions.* `ShapeAssumption` and its likes say what kind of thing a constant is.
`DaysAssumption` carries content: `MaxRunDays <= OverlapDays` (a run is not longer than the
overlap), `OverlapDays <= InitialDays` and `2 * MaxRunDays <= InitialDays` (the first read reaches
back further than any overlap). The defaults, 1, 2 and 90, satisfy it, and TLC evaluates it in
every run. `ConsentAssumption`: `MaxMissed < WarningDays < ConsentDays`, so that the warning window is
longer than the job's failures and shorter than a consent (14 of 90 days by default). `QuotaAssumption`:
a cron job is run before the next is due, that is, its delay is shorter than the time between any two
cron hours (`HoursBetween`). `RegistrationAssumption`: the marks for "no password" and "no user" are not
passwords. An administrator may set `sync_overlap_days` larger than `initial_sync_days`; nothing is
claimed of that.

*CursorCorrect.* `CursorCovers` is not inductive: it does not know what a running job is about to
stamp. `Core` adds, for every job: its snapshot and dates are not of the future (`Past`, `JobPast`),
what it saw of the ledger is still there (`JobSaw`), what its cursor will skip is in the ledger
already (`SkippedIsKnown`), what its window holds is in the ledger, in its own rows, or still on
its list (`LoopKeeps`, `StampKeeps`), and of two jobs the one that did not see a link began no later
(`LinkOrder`). The hard step is a commit that moves the cursor while another job is under way with an
older one; it rests on `MaxRunDays <= OverlapDays`.

*FeedRefinement.* A step of the sync is a stutter of `BankFeed`, a `Store` is its `Deliver`, a
`Commit` its `Import`. `FeedInv` says that a job's inserted rows are of stored transactions, not in
the ledger and not inserted by another job, which the unique index guarantees.

*CleanLogs and the serial syncs.* `Run` says of a job, whatever the others do, that what it is about to
write of a connection fits together: nothing is written of connections it has not come to
(`Ahead`); after stage one the connection is back, or an error is noted (`AfterStageOne`); an
`Error` comes with its reason, no error with a connection that is back, and the log agrees (`Told`).
`CleanLogIsFresh` follows for overlapping jobs too. With one worker, `Serial` adds that the snapshot
still shows the ledger, that a connection it shows as Connected still is, and that one it shows
without an error is not in `Error`: nobody else writes a status but back to Connected. A run empties
`last_error` only where it brought the connection back or its snapshot showed none (`Clear`). The other three follow, and each is violated by two overlapping jobs.

*ScaFlow.* `Issued` extends `HashMatchesCredentials` by the hash on display and by hashes nobody was
given; `Forgotten` extends `EndedIsForgotten` by the requests that still carry a flow's
credentials. `TurnInv` speaks of tabs that have taken turns: one at most is busy (`OneBusy`), while a
challenge is on display, the hash that is cached is its own, beside its credentials (`CachedIsShown`),
and the session that is cached or sent and the id finAPI answered with fit the connection of the
document (`RequestFits`, `AnswerFits`), because the form that offered the import knew that there was
none.

*AccountMapping.* `IntegrationUnique` is inductive over the types;
`RemovedStaysRemoved` needs that every dropped account is known (`DroppedIsKnown`), as the loop of
`map_accounts` keeps it; `ForeignIbanKept` that the IBAN column holds finAPI's IBAN or one that
somebody typed (`ColumnIsKnown`). `SavedIsMirrored` carries `LinkedIsMirrored` through the rows of a save: a row that the save has
been at, and that has its Bank Account to itself, is mirrored; a save of the only connection goes over
all linked rows, whatever left them unmirrored before.

*TransactionPages.* `Progress` says of what was held at the beginning, and is there still: what is
neither read nor behind the pages read so far (`Skipped`) is no more than finAPI took away since. An
insertion moves things further back; a removal moves at most one more in front of the next page,
and is counted in `gone` itself. This needs that the list has no duplicates (`Listed`). At the end no
page is left; `ReadIsComplete` is the case without a removal.

*ConsentWatchdog.* `LapseIsAnnounced` rests on a sum: unless people were told or the job overlooked the
connection, the days left and the days without a complete run together exceed the warning days
(`AnnouncedInTime`): a day takes one from the former and adds one to the latter, and a complete run in
the window tells. It takes that no expiry, in the document or in a copy, is later than the lapse, unless people typed it
(`NeverLate`), which is where `ExpiryListed` comes in. `RenewedConsentKept` takes that a copy which
may still be saved is no older than the document (`FreshIsLatest`).

*ReadIsOneAnswer.* `Insert` is an `Arrive`, `Remove` a `TakeAway`, the last page or a garbled one the
`Answer`. That an insertion adds one to the set and a removal takes one from it, and so that the
length of the list is the size of the set (`SizeCounts`), needs the list without duplicates; that
nothing is made up is `NothingMadeUp`: what was read is still there or was taken away since. The
bound on what the answer misses is that of `FewMissed`.

*FinApiClient.* The invariant is the types and the two properties, for each holds when a reply has been
handled and says nothing before. The work is in the lemmas: which exceptions a request or a token can
raise (`ExceptionsOfRequest`, `ExceptionsOfToken`), and what the clauses make of each, in their order
and by the class hierarchy of `exceptions.py` (`HandledToken`, `HandledCalls`).

*UnattendedQuota.* Counting needs to know where the updates come from. Sync Now's jobs carry headers
(`AskedIsAttended`), so every update in `recent` is of a cron instant at most `MaxDelay` hours before it,
and late if there are hours between (`RecentWasDue`, `WaitingWasDue`). Since two cron instants are
further apart than the delay (`ScheduleGap`), that instant is unique (`DueIsUnique`), and no instant has
two updates (`RunOnce`). The instants of the updates of the last 24 hours are then as many as the cron
hours of a day, with at most one more that lies before them and whose update was late
(`UpdatesBounded`): that is the exception `QuotaKept` grants.

*TransactionMapping.* `OneRowPerKey` and `OwnRows`: a key has one row, and one with the prefix is of
what finAPI delivered. *Adoption.* The index gives `IdsAreUnique`; `AdoptedIsKept` says that an adopted
connection has a document, `SnapshotsAreTrue` that what a discovery found in its snapshot and nobody
touched since still holds, `ImportsAreNew` that only a document without an id waits for an import.
*BankSetup.* `ChoicesFit`: every choice, stored or on a form, that was not typed by hand names an
interface its bank has;
`FreshShowsStored`: a fresh form without edits, and the dialog over a fresh form, are about what is
stored.

*Registration.* A form that would be accepted shows whether the record has a password
(`FormIsTrue`), a request whose copy is fresh has read the stored one (`FreshHasRead`), a request that
read one keeps it on the way (`ReadIsKept`), an answer that is still to be saved is the user's password
(`AnswerIsTrue`), the password of a registered record is that of the user it was registered as
(`RecordIsTrue`), and a password given at the creation is that of a user who exists (`UserIsThere`).
*Installation.* `StepFindsAll`: what the steps behind a run that has not failed were to leave is
there. *Site.* A step of the site is one of its part and a stutter of the others (`PartsTakeTurns`).

Only model-checked: liveness (`StoredReachesLedger`, `BookedReachesLedger`, `LapseGetsFlagged`), which
is out of the prover's reach. Every other property of the passing runs is stated by a theorem: for all values of the
constants, or under the condition that the theorem's `ASSUME` names. Where a run has a narrower or a
wider instance than its theorem, the table above says so: `NoDouble` is proved with the unique index for
any number of jobs, and without it for one at a time, which is the instance of `sync_serial`;
`LinkedIsMirrored`, `QuotaKept` and the properties of the consent are run under the condition they are
proved from.

## 5. Not modelled, and the plan

Not modelled: `permissions.py` (a test of roles, no state), the web form record (nothing
calls it yet), the wording of errors, the methods of the client that nothing calls,
`last_integration_date` (written, read by nothing in `src/`), and how `last_sync` and `last_error` are
put back by a whole-document save that was read before a sync: Frappe does not see the sync's writes
as a modification, so a document read before a sync and saved after it restores the older cursor,
which costs a longer read, and the older error text. A row lock or a deadlock of MariaDB that rolls back the whole transaction is
not modelled either.

Next, in this order:

1. `AccountMapping` with two requests at once and two connections (two documents that fill the IBAN of
   one Bank Account).
2. `TransactionSync` over a finAPI that takes transactions away, with `CursorCovers` for what is left.
