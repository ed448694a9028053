--------------------------- MODULE TransactionSync ---------------------------
(***************************************************************************)
(* The two-stage transaction sync (erpnext_finapi/sync.py): several jobs   *)
(* (the cron run over all connections, "Sync Now" of one connection) run   *)
(* the same code side by side.  A job is one database transaction of       *)
(* Frappe: it reads the snapshot its first query took, sees its own        *)
(* writes, and publishes them at its end, or never when the worker dies.   *)
(*                                                                         *)
(* Time is counted in days because both the cursor (minImportDate) and     *)
(* finAPI's import date are dates.  A connection of this model has been    *)
(* imported, that is, it has a finapi_connection_id.                       *)
(***************************************************************************)
EXTENDS Integers, FiniteSets

CONSTANTS
  Conn, Account, Tx,   \* bank connections, their finAPI accounts, transactions
  ConnOf, AccountOf,   \* connection of an account, account of a transaction
  Job, Cron,           \* slots that can run a sync; Cron is the scheduler's
  Workers,             \* how many syncs may run at the same time
  Enabled,             \* connections with sync_enabled, auto_sync being on
  InitiallyLinked,     \* accounts with a Bank Account from the beginning
  OverlapDays,         \* finAPI Settings.sync_overlap_days
  InitialDays,         \* finAPI Settings.initial_sync_days
  MaxRunDays,          \* midnights a run can span before its worker's timeout
  LastDay,             \* bound: the day the model's clock stops at
  UniqueIndex,         \* Bank Transaction.transaction_id has a unique index
  Env                  \* what the surroundings of a run of TLC may do, of EnvEvents

EnvEvents == {"challenge", "refuse", "call fails", "insert fails", "submit fails",
              "kill", "link", "unlink", "reconsent"}

ASSUME ShapeAssumption ==
  /\ Conn # {}
  /\ ConnOf \in [Account -> Conn]
  /\ AccountOf \in [Tx -> Account]
  /\ Cron \in Job
  /\ Enabled \subseteq Conn
  /\ InitiallyLinked \subseteq Account
  /\ UniqueIndex \in BOOLEAN
  /\ Env \subseteq EnvEvents

ASSUME DaysAssumption ==
  /\ OverlapDays \in Nat /\ InitialDays \in Nat
  /\ MaxRunDays \in Nat /\ LastDay \in Nat /\ Workers \in Nat
  /\ MaxRunDays <= OverlapDays
  /\ OverlapDays <= InitialDays
  /\ 2 * MaxRunDays <= InitialDays

Never == -1                                 \* no date
Unwritten == "unwritten"                    \* a field a job has not set
Status == {"Connected", "Update Required", "Error"}
Error == {"none", "TAN required", "refused", "nothing linked", "failed"}
AnyConn == CHOOSE c \in Conn : TRUE        \* conn of a job that is idle
Log == [status : {"none", "Success", "Partial", "Error"},
        error : Error, asked : BOOLEAN, fetched : BOOLEAN]

VARIABLES
  day,                 \* the calendar
  \* the bank and finAPI
  booked,              \* transactions on the bank's books
  fetching,            \* fetched from the bank, not yet stored by finAPI
  storedOn,            \* finAPI's import date, Never until stored
  \* the committed database
  status, lastError, lastSync,   \* fields of a connection
  linked,              \* accounts whose row has a bank_account
  rows, drafts,        \* Bank Transaction rows per transaction; unsubmitted ones
  syncLog,             \* the last finAPI Sync Log of a connection; asked and
                       \* fetched tell what stage one did, for properties only
  \* a job
  pc, todo, conn,      \* control; connections to do; the one being done
  askBank,             \* argument update_bank
  updated,             \* stage one delivered
  begun, seen,         \* day and content of the snapshot
  since, batch,        \* the cursor used per connection; transactions to write
  newStatus, newError, newSync, newLog, inserted, unsubmitted,  \* its writes
  \* history, read by properties only
  vouched,             \* accounts linked from the job's snapshot until now
  coveredFrom          \* import date from which an account is kept complete

clockVars  == <<day>>
finapiVars == <<booked, fetching, storedOn>>
fieldVars  == <<status, lastError, lastSync, syncLog>>
ledgerVars == <<rows, drafts>>
dbVars     == <<fieldVars, linked, ledgerVars>>
flowVars   == <<pc, todo, conn, askBank, updated>>
readVars   == <<begun, seen, since, batch>>
writeVars  == <<newStatus, newError, newSync, newLog, inserted, unsubmitted>>
ghostVars  == <<vouched, coveredFrom>>
vars == <<clockVars, finapiVars, dbVars, flowVars, readVars, writeVars, ghostVars>>

Active == {j \in Job : pc[j] # "idle"}
AccountsOf(c) == {a \in Account : ConnOf[a] = c}
TxOf(c) == {t \in Tx : ConnOf[AccountOf[t]] = c}
Stored == {t \in Tx : storedOn[t] # Never}
Ledger == {t \in Tx : rows[t] > 0}

Snapshot == [status |-> status, error |-> lastError, sync |-> lastSync,
             linked |-> linked, known |-> Ledger]
NoSnapshot == [status |-> [c \in Conn |-> "Connected"], error |-> [c \in Conn |-> "none"],
               sync |-> [c \in Conn |-> Never], linked |-> {}, known |-> {}]
NoLog == [status |-> "none", error |-> "none", asked |-> FALSE, fetched |-> FALSE]

\* Without a finAPI history there is nothing before the first day; a connection
\* found by discovery brings transactions finAPI stored earlier.
Init ==
  /\ day = InitialDays
  /\ \E old \in SUBSET Tx, d \in 0 .. InitialDays :
       /\ booked = old
       /\ storedOn = [t \in Tx |-> IF t \in old THEN d ELSE Never]
  /\ fetching = {}
  /\ status = [c \in Conn |-> "Connected"]
  /\ lastError = [c \in Conn |-> "none"]
  /\ lastSync = [c \in Conn |-> Never]
  /\ linked = InitiallyLinked
  /\ rows = [t \in Tx |-> 0]
  /\ drafts = {}
  /\ syncLog = [c \in Conn |-> NoLog]
  /\ pc = [j \in Job |-> "idle"]
  /\ todo = [j \in Job |-> {}]
  /\ conn = [j \in Job |-> AnyConn]
  /\ askBank = [j \in Job |-> FALSE]
  /\ updated = [j \in Job |-> FALSE]
  /\ begun = [j \in Job |-> 0]
  /\ seen = [j \in Job |-> NoSnapshot]
  /\ since = [j \in Job |-> [c \in Conn |-> 0]]
  /\ batch = [j \in Job |-> {}]
  /\ newStatus = [j \in Job |-> [c \in Conn |-> Unwritten]]
  /\ newError = [j \in Job |-> [c \in Conn |-> Unwritten]]
  /\ newSync = [j \in Job |-> [c \in Conn |-> Never]]
  /\ newLog = [j \in Job |-> [c \in Conn |-> NoLog]]
  /\ inserted = [j \in Job |-> {}]
  /\ unsubmitted = [j \in Job |-> {}]
  /\ vouched = [j \in Job |-> {}]
  /\ coveredFrom = [a \in Account |-> Never]

----------------------------------------------------------------------------
(* The calendar, the bank, finAPI and the people around a job.             *)

\* A run ends, or its worker is stopped, before MaxRunDays midnights passed.
Tick ==
  /\ day < LastDay
  /\ \A j \in Active : day - begun[j] < MaxRunDays
  /\ day' = day + 1
  /\ UNCHANGED <<finapiVars, dbVars, flowVars, readVars, writeVars, ghostVars>>

Book(t) ==
  /\ t \notin booked
  /\ booked' = booked \cup {t}
  /\ UNCHANGED <<clockVars, fetching, storedOn, dbVars, flowVars, readVars, writeVars, ghostVars>>

\* finAPI stores fetched transactions asynchronously, under today's import date.
Store(t) ==
  /\ t \in fetching
  /\ fetching' = fetching \ {t}
  /\ storedOn' = [storedOn EXCEPT ![t] = day]
  /\ UNCHANGED <<clockVars, booked, dbVars, flowVars, readVars, writeVars, ghostVars>>

\* Someone, or the IBAN match of a refresh, picks a Bank Account for a row.
Link(a) ==
  /\ "link" \in Env /\ a \notin linked
  /\ linked' = linked \cup {a}
  /\ UNCHANGED <<clockVars, finapiVars, fieldVars, ledgerVars, flowVars, readVars,
                 writeVars, ghostVars>>

\* The row is cleared or deleted; nobody vouches for the account any more.
Unlink(a) ==
  /\ "unlink" \in Env /\ a \in linked
  /\ linked' = linked \ {a}
  /\ vouched' = [j \in Job |-> vouched[j] \ {a}]
  /\ coveredFrom' = [coveredFrom EXCEPT ![a] = Never]
  /\ UNCHANGED <<clockVars, finapiVars, fieldVars, ledgerVars, flowVars, readVars, writeVars>>

\* A person completes an SCA update of the connection.
Reconsent(c) ==
  /\ "reconsent" \in Env /\ status[c] # "Connected"
  /\ status' = [status EXCEPT ![c] = "Connected"]
  /\ lastError' = [lastError EXCEPT ![c] = "none"]
  /\ UNCHANGED <<clockVars, finapiVars, lastSync, syncLog, linked, ledgerVars, flowVars,
                 readVars, writeVars, ghostVars>>

----------------------------------------------------------------------------
(* A job.                                                                   *)

\* The first query of a job fixes what it will see of the database.
Begin(j, conns, ask) ==
  /\ pc[j] = "idle"
  /\ Cardinality(Active) < Workers
  /\ pc' = [pc EXCEPT ![j] = "next"]
  /\ todo' = [todo EXCEPT ![j] = conns]
  /\ askBank' = [askBank EXCEPT ![j] = ask]
  /\ begun' = [begun EXCEPT ![j] = day]
  /\ seen' = [seen EXCEPT ![j] = Snapshot]
  /\ vouched' = [vouched EXCEPT ![j] = linked]
  /\ UNCHANGED <<clockVars, finapiVars, dbVars, conn, updated, since, batch,
                 writeVars, coveredFrom>>

\* What the scheduled run selects: sync_enabled and not in error.
Eligible == {c \in Enabled : status[c] \in {"Connected", "Update Required"}}

SyncAllConnections == Eligible # {} /\ Begin(Cron, Eligible, TRUE)

SyncNow(j, c, ask) == j # Cron /\ Begin(j, {c}, ask)

\* The session with finAPI comes first; CallFails is where it is refused.
NextConnection(j) ==
  /\ pc[j] = "next"
  /\ \E c \in todo[j] :
       /\ conn' = [conn EXCEPT ![j] = c]
       /\ todo' = [todo EXCEPT ![j] = @ \ {c}]
  /\ updated' = [updated EXCEPT ![j] = FALSE]
  /\ pc' = [pc EXCEPT ![j] = IF askBank[j] THEN "update" ELSE "read"]
  /\ UNCHANGED <<clockVars, finapiVars, dbVars, askBank, readVars, writeVars, ghostVars>>

\* Slip: the error is taken from what the run wrote, never from the document.
DocErrorOfRun(j) == newError[j][conn[j]]

\* The fields of the document in the job's hands: read once, then its own writes.
DocStatus(j) == IF newStatus[j][conn[j]] = Unwritten
                THEN seen[j].status[conn[j]] ELSE newStatus[j][conn[j]]
DocError(j) == IF newError[j][conn[j]] = Unwritten
               THEN seen[j].error[conn[j]] ELSE newError[j][conn[j]]

SetStatus(j, s) == newStatus' = [newStatus EXCEPT ![j][conn[j]] = s]
SetError(j, e) == newError' = [newError EXCEPT ![j][conn[j]] = e]

\* Slip: stage one is skipped, finAPI keeps its old snapshot.
FetchNothing(c) == UNCHANGED fetching

\* finAPI fetches what the bank has booked and will store it presently.
FetchFromBank(c) == fetching' = fetching \cup ((booked \cap TxOf(c)) \ Stored)

\* Slip: stage one clears the error and leaves the status alone.
UpdateFetchedKeepsStatus(j) ==
  /\ pc[j] = "update"
  /\ FetchFromBank(conn[j])
  /\ SetError(j, "none")
  /\ updated' = [updated EXCEPT ![j] = TRUE]
  /\ pc' = [pc EXCEPT ![j] = "read"]
  /\ UNCHANGED <<clockVars, booked, storedOn, dbVars, todo, conn, askBank, readVars,
                 newStatus, newSync, newLog, inserted, unsubmitted, ghostVars>>

\* Stage one succeeds.  The status is written only when the document differs.
UpdateFetched(j) ==
  /\ pc[j] = "update"
  /\ FetchFromBank(conn[j])
  /\ IF DocStatus(j) # "Connected" THEN SetStatus(j, "Connected") ELSE UNCHANGED newStatus
  /\ SetError(j, "none")
  /\ updated' = [updated EXCEPT ![j] = TRUE]
  /\ pc' = [pc EXCEPT ![j] = "read"]
  /\ UNCHANGED <<clockVars, booked, storedOn, dbVars, todo, conn, askBank, readVars,
                 newSync, newLog, inserted, unsubmitted, ghostVars>>

\* HTTP 510: the bank insists on a TAN; the run reads what finAPI already has.
UpdateChallenged(j) ==
  /\ pc[j] = "update" /\ "challenge" \in Env
  /\ SetStatus(j, "Update Required")
  /\ SetError(j, "TAN required")
  /\ pc' = [pc EXCEPT ![j] = "read"]
  /\ UNCHANGED <<clockVars, finapiVars, dbVars, todo, conn, askBank, updated, readVars,
                 newSync, newLog, inserted, unsubmitted, ghostVars>>

\* Slip: the refusal is swallowed.
UpdateRefusedSilently(j) ==
  /\ pc[j] = "update" /\ "refuse" \in Env
  /\ pc' = [pc EXCEPT ![j] = "read"]
  /\ UNCHANGED <<clockVars, finapiVars, dbVars, todo, conn, askBank, updated, readVars,
                 writeVars, ghostVars>>

\* finAPI answers with an error status: a FinApiError, recorded only.
UpdateRefused(j) ==
  /\ pc[j] = "update" /\ "refuse" \in Env
  /\ SetError(j, "refused")
  /\ pc' = [pc EXCEPT ![j] = "read"]
  /\ UNCHANGED <<clockVars, finapiVars, dbVars, todo, conn, askBank, updated, readVars,
                 newStatus, newSync, newLog, inserted, unsubmitted, ghostVars>>

\* Nothing to ask finAPI for; the run is stamped and logged all the same.
ReadNothingLinked(j) ==
  /\ pc[j] = "read"
  /\ AccountsOf(conn[j]) \cap seen[j].linked = {}
  /\ SetError(j, "nothing linked")
  /\ pc' = [pc EXCEPT ![j] = "create"]
  /\ UNCHANGED <<clockVars, finapiVars, dbVars, todo, conn, askBank, updated, readVars,
                 newStatus, newSync, newLog, inserted, unsubmitted, ghostVars>>

\* Slip: the overlap is forgotten.
SyncSinceWithoutOverlap(j) ==
  IF seen[j].sync[conn[j]] # Never THEN seen[j].sync[conn[j]] ELSE day - InitialDays

\* The cursor: minImportDate of the read.
SyncSince(j) == IF seen[j].sync[conn[j]] # Never
                THEN seen[j].sync[conn[j]] - OverlapDays
                ELSE day - InitialDays

\* What finAPI stored since the cursor, for the accounts that had a Bank Account in
\* the snapshot.
Matching(j, cursor) ==
  {t \in TxOf(conn[j]) \cap Stored :
     AccountOf[t] \in seen[j].linked /\ storedOn[t] >= cursor}

\* The read begins.  Whatever matches now will be in its answer, see TransactionRead.
AskTransactions(j) ==
  /\ pc[j] = "read"
  /\ AccountsOf(conn[j]) \cap seen[j].linked # {}
  /\ since' = [since EXCEPT ![j][conn[j]] = SyncSince(j)]
  /\ batch' = [batch EXCEPT ![j] = Matching(j, SyncSince(j))]
  /\ pc' = [pc EXCEPT ![j] = "reading"]
  /\ UNCHANGED <<clockVars, finapiVars, dbVars, todo, conn, askBank, updated, begun, seen,
                 writeVars, ghostVars>>

\* The answer.  Of what finAPI stored while the pages were read, any part is in it.
ReadTransactions(j) ==
  /\ pc[j] = "reading"
  /\ \E late \in SUBSET Matching(j, since[j][conn[j]]) :
       batch' = [batch EXCEPT ![j] = @ \cup late]
  /\ pc' = [pc EXCEPT ![j] = "create"]
  /\ UNCHANGED <<clockVars, finapiVars, dbVars, todo, conn, askBank, updated, begun, seen,
                 since, writeVars, ghostVars>>

\* Slip: only the rows of the run itself are looked up.
KnownToRun(j, t) == t \in inserted[j]

\* The exists() test: the snapshot and the job's own rows, never another's.
Known(j, t) == t \in seen[j].known \/ t \in inserted[j]

\* Slip: the field has lost its unique index.
ConflictUnindexed(j, t) == FALSE

\* The unique index sees what the snapshot does not: rows committed since, and
\* rows another job has not committed yet.
Conflict(j, t) == /\ UniqueIndex
                  /\ \/ t \in Ledger
                     \/ \E i \in Job \ {j} : t \in inserted[i]

SkipKnown(j, t) ==
  /\ pc[j] = "create" /\ t \in batch[j]
  /\ Known(j, t)
  /\ batch' = [batch EXCEPT ![j] = @ \ {t}]
  /\ UNCHANGED <<clockVars, finapiVars, dbVars, flowVars, begun, seen, since, writeVars,
                 ghostVars>>

CreateBankTransaction(j, t) ==
  /\ pc[j] = "create" /\ t \in batch[j]
  /\ ~Known(j, t) /\ ~Conflict(j, t)
  /\ inserted' = [inserted EXCEPT ![j] = @ \cup {t}]
  /\ batch' = [batch EXCEPT ![j] = @ \ {t}]
  /\ UNCHANGED <<clockVars, finapiVars, dbVars, flowVars, begun, seen, since, newStatus,
                 newError, newSync, newLog, unsubmitted, ghostVars>>

LogEntry(j, s, e) ==
  newLog' = [newLog EXCEPT ![j][conn[j]] =
               [status |-> s, error |-> e, asked |-> askBank[j], fetched |-> updated[j]]]

\* Slip: the reason is logged, but not noted on the connection.
AbandonUnexplained(j) ==
  /\ SetStatus(j, "Error")
  /\ UNCHANGED newError
  /\ LogEntry(j, "Error", "failed")
  /\ batch' = [batch EXCEPT ![j] = {}]
  /\ pc' = [pc EXCEPT ![j] = "next"]
  /\ UNCHANGED <<todo, conn, askBank, updated, begun, seen, since, newSync>>

\* The exception handler of a run: what was inserted so far stays.
Abandon(j) ==
  /\ SetStatus(j, "Error")
  /\ SetError(j, "failed")
  /\ LogEntry(j, "Error", "failed")
  /\ batch' = [batch EXCEPT ![j] = {}]
  /\ pc' = [pc EXCEPT ![j] = "next"]
  /\ UNCHANGED <<todo, conn, askBank, updated, begun, seen, since, newSync>>

\* The session with finAPI cannot be had (a token refused, no password, the
\* environment guard), or a page of the read raises.
CallFails(j) ==
  /\ "call fails" \in Env
  /\ \/ pc[j] \in {"update", "reading"}
     \/ pc[j] = "read" /\ (askBank[j] => AccountsOf(conn[j]) \cap seen[j].linked # {})
  /\ Abandon(j)
  /\ UNCHANGED <<clockVars, finapiVars, dbVars, inserted, unsubmitted, ghostVars>>

\* Stage one raises something that is no FinApiError: the transport, a timeout.
\* finAPI got the request all the same; when it did not, see CallFails.
UpdateTimesOut(j) ==
  /\ "call fails" \in Env
  /\ pc[j] = "update"
  /\ FetchFromBank(conn[j])
  /\ Abandon(j)
  /\ UNCHANGED <<clockVars, booked, storedOn, dbVars, inserted, unsubmitted, ghostVars>>

InsertFails(j, t) ==
  /\ pc[j] = "create" /\ t \in batch[j] /\ ~Known(j, t)
  /\ Conflict(j, t) \/ "insert fails" \in Env
  /\ Abandon(j)
  /\ UNCHANGED <<clockVars, finapiVars, dbVars, inserted, unsubmitted, ghostVars>>

\* The row is in, its submission raises: a draft stays behind.
SubmitFails(j, t) ==
  /\ "submit fails" \in Env
  /\ pc[j] = "create" /\ t \in batch[j]
  /\ ~Known(j, t) /\ ~Conflict(j, t)
  /\ inserted' = [inserted EXCEPT ![j] = @ \cup {t}]
  /\ unsubmitted' = [unsubmitted EXCEPT ![j] = @ \cup {t}]
  /\ Abandon(j)
  /\ UNCHANGED <<clockVars, finapiVars, dbVars, ghostVars>>

\* The end of a run that raised nothing.  The cursor is the date of the end.  A
\* document without an error has its empty field written once more, over what
\* another job has committed there since the snapshot.
FinishSync(j) ==
  /\ pc[j] = "create" /\ batch[j] = {}
  /\ newSync' = [newSync EXCEPT ![j][conn[j]] = day]
  /\ IF DocError(j) = "none" THEN SetError(j, "none") ELSE UNCHANGED newError
  /\ LogEntry(j, IF DocStatus(j) = "Update Required" THEN "Partial" ELSE "Success",
              DocError(j))
  /\ pc' = [pc EXCEPT ![j] = "next"]
  /\ UNCHANGED <<clockVars, finapiVars, dbVars, todo, conn, askBank, updated, readVars,
                 newStatus, inserted, unsubmitted, ghostVars>>

Forget(j) ==
  /\ pc' = [pc EXCEPT ![j] = "idle"]
  /\ todo' = [todo EXCEPT ![j] = {}]
  /\ conn' = [conn EXCEPT ![j] = AnyConn]
  /\ askBank' = [askBank EXCEPT ![j] = FALSE]
  /\ updated' = [updated EXCEPT ![j] = FALSE]
  /\ begun' = [begun EXCEPT ![j] = 0]
  /\ seen' = [seen EXCEPT ![j] = NoSnapshot]
  /\ since' = [since EXCEPT ![j] = [c \in Conn |-> 0]]
  /\ batch' = [batch EXCEPT ![j] = {}]
  /\ newStatus' = [newStatus EXCEPT ![j] = [c \in Conn |-> Unwritten]]
  /\ newError' = [newError EXCEPT ![j] = [c \in Conn |-> Unwritten]]
  /\ newSync' = [newSync EXCEPT ![j] = [c \in Conn |-> Never]]
  /\ newLog' = [newLog EXCEPT ![j] = [c \in Conn |-> NoLog]]
  /\ inserted' = [inserted EXCEPT ![j] = {}]
  /\ unsubmitted' = [unsubmitted EXCEPT ![j] = {}]
  /\ vouched' = [vouched EXCEPT ![j] = {}]

\* The job is done: its writes become visible, all at once.  db_set writes single
\* fields, so the others keep what was committed meanwhile.
Commit(j) ==
  /\ pc[j] = "next" /\ todo[j] = {}
  /\ status' = [c \in Conn |-> IF newStatus[j][c] = Unwritten THEN status[c]
                               ELSE newStatus[j][c]]
  /\ lastError' = [c \in Conn |-> IF newError[j][c] = Unwritten THEN lastError[c]
                                  ELSE newError[j][c]]
  /\ lastSync' = [c \in Conn |-> IF newSync[j][c] = Never THEN lastSync[c]
                                 ELSE newSync[j][c]]
  /\ syncLog' = [c \in Conn |-> IF newLog[j][c] = NoLog THEN syncLog[c] ELSE newLog[j][c]]
  /\ rows' = [t \in Tx |-> IF t \in inserted[j] THEN rows[t] + 1 ELSE rows[t]]
  /\ drafts' = drafts \cup unsubmitted[j]
  /\ coveredFrom' = [a \in Account |->
                       IF /\ coveredFrom[a] = Never /\ a \in vouched[j]
                          /\ newSync[j][ConnOf[a]] # Never
                       THEN since[j][ConnOf[a]] ELSE coveredFrom[a]]
  /\ Forget(j)
  /\ UNCHANGED <<clockVars, finapiVars, linked>>

\* The worker dies; the database rolls the transaction back.
KillWorker(j) ==
  /\ "kill" \in Env /\ j \in Active
  /\ Forget(j)
  /\ UNCHANGED <<clockVars, finapiVars, dbVars, coveredFrom>>

JobStep(j) ==
  \/ NextConnection(j)
  \/ UpdateFetched(j) \/ UpdateChallenged(j) \/ UpdateRefused(j) \/ UpdateTimesOut(j)
  \/ ReadNothingLinked(j) \/ AskTransactions(j) \/ ReadTransactions(j) \/ CallFails(j)
  \/ \E t \in Tx : \/ SkipKnown(j, t) \/ CreateBankTransaction(j, t)
                   \/ InsertFails(j, t) \/ SubmitFails(j, t)
  \/ FinishSync(j) \/ Commit(j)

Next ==
  \/ SyncAllConnections
  \/ \E j \in Job, c \in Conn, ask \in BOOLEAN : SyncNow(j, c, ask)
  \/ \E j \in Job : JobStep(j) \/ KillWorker(j)
  \/ Tick
  \/ \E t \in Tx : Book(t) \/ Store(t)
  \/ \E a \in Account : Link(a) \/ Unlink(a)
  \/ \E c \in Conn : Reconsent(c)

Spec == Init /\ [][Next]_vars

\* A worker keeps working, the scheduler's turn comes again and again in the
\* queue, and finAPI stores what it fetched.
Fairness ==
  /\ \A j \in Job : WF_vars(JobStep(j))
  /\ SF_vars(SyncAllConnections)
  /\ WF_vars(\E t \in Tx : Store(t))

FairSpec == Spec /\ Fairness

----------------------------------------------------------------------------
(* Properties.                                                              *)

Dates == {d \in Nat : d >= InitialDays}     \* the days a job can run on

Snapshots == [status : [Conn -> Status], error : [Conn -> Error],
              sync : [Conn -> Dates \cup {Never}], linked : SUBSET Account,
              known : SUBSET Tx]

\* Every variable of the sync, its database and its surroundings has its type.
TypeOK ==
  /\ day \in Dates
  /\ booked \in SUBSET Tx /\ fetching \in SUBSET Tx
  /\ storedOn \in [Tx -> Nat \cup {Never}]
  /\ status \in [Conn -> Status] /\ lastError \in [Conn -> Error]
  /\ lastSync \in [Conn -> Dates \cup {Never}]
  /\ linked \in SUBSET Account
  /\ rows \in [Tx -> Nat] /\ drafts \in SUBSET Tx
  /\ syncLog \in [Conn -> Log]
  /\ pc \in [Job -> {"idle", "next", "update", "read", "reading", "create"}]
  /\ todo \in [Job -> SUBSET Conn] /\ conn \in [Job -> Conn]
  /\ askBank \in [Job -> BOOLEAN] /\ updated \in [Job -> BOOLEAN]
  /\ begun \in [Job -> Nat]
  /\ seen \in [Job -> Snapshots]
  /\ since \in [Job -> [Conn -> Nat]]
  /\ batch \in [Job -> SUBSET Tx]
  /\ newStatus \in [Job -> [Conn -> Status \cup {Unwritten}]]
  /\ newError \in [Job -> [Conn -> Error \cup {Unwritten}]]
  /\ newSync \in [Job -> [Conn -> Dates \cup {Never}]]
  /\ newLog \in [Job -> [Conn -> Log]]
  /\ inserted \in [Job -> SUBSET Tx] /\ unsubmitted \in [Job -> SUBSET Tx]
  /\ vouched \in [Job -> SUBSET Account]
  /\ coveredFrom \in [Account -> Nat \cup {Never}]

\* A gap in the ledger is silent, so the cursor may leave a date behind only when
\* everything finAPI imported up to it is in the ledger, for every account whose
\* link has stood since a run read it: _sync_since with its overlap, the stamp at
\* the end of the run, a midnight in between, and jobs that overtake each other.
CursorCovers ==
  \A t \in Stored :
    LET a == AccountOf[t] IN
      /\ coveredFrom[a] # Never
      /\ coveredFrom[a] <= storedOn[t]
      /\ storedOn[t] < lastSync[ConnOf[a]] - OverlapDays
      => t \in Ledger

\* The same promise without the history: for every account that has a Bank
\* Account now and what finAPI stored since the first day, as the comment on the
\* overlap in _sync_since reads.
CursorCoversLinked ==
  \A t \in Stored :
    /\ AccountOf[t] \in linked /\ storedOn[t] >= InitialDays
    /\ storedOn[t] < lastSync[ConnOf[AccountOf[t]]] - OverlapDays
    => t \in Ledger

\* The exists() test of create_bank_transaction alone, without the unique index,
\* keeps re-reads and retries from doubling a row when syncs run one at a time.
NoDouble == \A t \in Tx : rows[t] <= 1

\* A sync log that shows no error after the bank was asked means that the bank
\* delivered: a connection never goes stale behind a clean log.
CleanLogIsFresh ==
  \A c \in Conn :
    /\ syncLog[c].status \in {"Success", "Partial"}
    /\ syncLog[c].error = "none"
    /\ syncLog[c].asked
    => syncLog[c].fetched

\* After a sync that asked the bank and succeeded the connection is Connected
\* again, so the scheduler goes on with it.  Holds for syncs one at a time.
SuccessRestoresSchedule ==
  \A c \in Conn :
    syncLog[c].status = "Success" /\ syncLog[c].fetched => status[c] = "Connected"

\* A connection the scheduler leaves aside says why: an Error is never left without
\* its reason by the runs that follow it.  Holds for syncs one at a time.
OffScheduleSaysWhy == \A c \in Conn : status[c] = "Error" => lastError[c] # "none"

\* Re-reading an overlapping window costs nothing: no run fails on what an
\* earlier or a parallel run imported.
DuplicatesCostNothing == \A c \in Conn : syncLog[c].status # "Error"

\* What finAPI stores for a linked account, from the first day on, reaches the
\* ledger: through TAN demands and refusals of stage one, through runs that read
\* before finAPI stored and runs that end a day later, as long as the schedule runs.
StoredReachesLedger ==
  \A t \in Tx : (storedOn[t] >= InitialDays /\ AccountOf[t] \in InitiallyLinked)
                ~> t \in Ledger

\* What the bank books for a linked account reaches the ledger if only stage one
\* succeeds now and then: asking the bank, the asynchronous store, the TAN demands
\* and refusals in between, and the cursor together.
BookedReachesLedger ==
  (\A c \in Conn : []<>(\E j \in Job : conn[j] = c /\ updated[j])) =>
    \A t \in Tx : (t \in booked \ Stored /\ AccountOf[t] \in InitiallyLinked)
                  ~> t \in Ledger

Feed == INSTANCE BankFeed WITH delivered <- Stored, ledger <- rows

\* With the unique index, overlapping jobs, failures and dying workers together
\* still feed the ledger as BankFeed promises.
FeedSpec == Feed!Spec
=============================================================================
