------------------------ MODULE TransactionSyncProofs ------------------------
(***************************************************************************)
(* Proofs about TransactionSync for every number of connections, accounts, *)
(* transactions, jobs and days: its type invariant, CursorCovers, that it  *)
(* implements BankFeed, what a log tells, and, for one worker, that a      *)
(* connection comes back to the schedule or says why not.                  *)
(***************************************************************************)
EXTENDS TransactionSync, FiniteSetTheorems, TLAPS

----------------------------------------------------------------------------
(* The inductive invariant behind CursorCovers.                            *)

\* No date lies in the future.
Past ==
  /\ \A t \in Tx : storedOn[t] <= day
  /\ \A c \in Conn : lastSync[c] <= day

\* A job began at most MaxRunDays ago, and its snapshot is of that day.
JobPast ==
  \A j \in Job :
    pc[j] # "idle" =>
      /\ begun[j] <= day /\ day <= begun[j] + MaxRunDays
      /\ \A c \in Conn : seen[j].sync[c] <= begun[j]
      /\ \A c \in Conn : newSync[j][c] <= day

\* The ledger and the standing links contain what a job saw of them.
JobSaw ==
  \A j \in Job : /\ seen[j].known \subseteq Ledger
                 /\ vouched[j] \subseteq seen[j].linked
                 /\ vouched[j] \subseteq linked

\* A job does a connection once, and an idle job has written nothing.
JobOnce ==
  \A j \in Job :
    /\ pc[j] \notin {"idle", "next"} => /\ conn[j] \notin todo[j]
                                        /\ newSync[j][conn[j]] = Never
    /\ \A c \in todo[j] : newSync[j][c] = Never
    /\ pc[j] = "idle" => /\ inserted[j] = {} /\ vouched[j] = {} /\ todo[j] = {}
                         /\ \A c \in Conn : newSync[j][c] = Never

\* An account kept complete is linked, and its connection was synced.
CoveredIsLinked ==
  \A a \in Account : coveredFrom[a] # Never =>
    a \in linked /\ lastSync[ConnOf[a]] # Never

\* A job that did not see a link that another job saw began no later.
LinkOrder ==
  \A i, j \in Job : \A a \in vouched[j] :
    pc[i] # "idle" /\ pc[j] # "idle" /\ a \notin seen[i].linked => begun[i] <= begun[j]

\* The latest date a job's cursor can have.
LatestSince(j, c) == IF seen[j].sync[c] = Never
                     THEN begun[j] + MaxRunDays - InitialDays
                     ELSE seen[j].sync[c] - OverlapDays

\* Up to where the ledger has to be complete before a job reads.
Settled(j, a) == IF a \in seen[j].linked THEN LatestSince(j, ConnOf[a]) ELSE begun[j]

\* What a job's cursor skips is in the ledger already.
SkippedIsKnown ==
  \A j \in Job : \A t \in Tx :
    /\ pc[j] # "idle" /\ storedOn[t] # Never
    /\ coveredFrom[AccountOf[t]] # Never
    /\ coveredFrom[AccountOf[t]] <= storedOn[t]
    /\ storedOn[t] < Settled(j, AccountOf[t])
    => t \in Ledger

\* The transactions a run over c has to take care of.
InWindow(j, c, t) ==
  /\ storedOn[t] # Never /\ ConnOf[AccountOf[t]] = c
  /\ AccountOf[t] \in seen[j].linked
  /\ since[j][c] <= storedOn[t] /\ storedOn[t] < begun[j]

\* From the read on, each of them is still to do, or known, or written.
LoopKeeps ==
  \A j \in Job : pc[j] \in {"reading", "create"} =>
    /\ \A t \in Tx : InWindow(j, conn[j], t) =>
                       t \in batch[j] \/ t \in Ledger \/ t \in inserted[j]
    /\ \A a \in seen[j].linked :
         ConnOf[a] = conn[j] => since[j][conn[j]] <= LatestSince(j, conn[j])

\* Once the cursor is stamped, each of them is known or written.
StampKeeps ==
  \A j \in Job : \A c \in Conn : newSync[j][c] # Never =>
    /\ \A t \in Tx : InWindow(j, c, t) => t \in Ledger \/ t \in inserted[j]
    /\ \A a \in seen[j].linked :
         ConnOf[a] = c => since[j][c] <= LatestSince(j, c)

IInv == /\ TypeOK /\ Past /\ JobPast /\ JobSaw /\ JobOnce
        /\ CoveredIsLinked /\ LinkOrder /\ SkippedIsKnown
        /\ LoopKeeps /\ StampKeeps /\ CursorCovers

----------------------------------------------------------------------------
(* Type correctness.                                                       *)

USE DEF clockVars, finapiVars, fieldVars, ledgerVars, dbVars, flowVars, readVars,
        writeVars, ghostVars

\* There is a connection to be AnyConn.
LEMMA AnyConnType == AnyConn \in Conn
  BY ShapeAssumption DEF AnyConn, ShapeAssumption

\* The initial states are well typed.
LEMMA TypeInit == Init => TypeOK
  <1> SUFFICES ASSUME Init PROVE TypeOK
    OBVIOUS
  <1>1. storedOn \in [Tx -> Nat \cup {Never}] /\ booked \in SUBSET Tx
    <2> PICK old \in SUBSET Tx, d \in 0 .. InitialDays :
          /\ booked = old
          /\ storedOn = [t \in Tx |-> IF t \in old THEN d ELSE Never]
      BY DEF Init
    <2> QED BY DaysAssumption DEF DaysAssumption, Never
  <1> QED BY <1>1, AnyConnType, ShapeAssumption, DaysAssumption
          DEF Init, TypeOK, ShapeAssumption, DaysAssumption, Never, Unwritten, Status,
              Error, Log, NoLog, Snapshots, NoSnapshot, Dates

\* A job that gives up leaves well-typed fields behind.
LEMMA TypeAbandon ==
  ASSUME TypeOK, NEW j \in Job, Abandon(j)
  PROVE  /\ pc' \in [Job -> {"idle", "next", "update", "read", "reading", "create"}]
         /\ todo' \in [Job -> SUBSET Conn] /\ conn' \in [Job -> Conn]
         /\ askBank' \in [Job -> BOOLEAN] /\ updated' \in [Job -> BOOLEAN]
         /\ begun' \in [Job -> Nat] /\ seen' \in [Job -> Snapshots]
         /\ since' \in [Job -> [Conn -> Nat]] /\ batch' \in [Job -> SUBSET Tx]
         /\ newStatus' \in [Job -> [Conn -> Status \cup {Unwritten}]]
         /\ newError' \in [Job -> [Conn -> Error \cup {Unwritten}]]
         /\ newSync' \in [Job -> [Conn -> Dates \cup {Never}]]
         /\ newLog' \in [Job -> [Conn -> Log]]
  BY DEF TypeOK, Abandon, SetStatus, SetError, LogEntry, Status, Error, Log

\* A slot that is given back is well typed.
LEMMA TypeForget ==
  ASSUME TypeOK, NEW j \in Job, Forget(j)
  PROVE  /\ pc' \in [Job -> {"idle", "next", "update", "read", "reading", "create"}]
         /\ todo' \in [Job -> SUBSET Conn] /\ conn' \in [Job -> Conn]
         /\ askBank' \in [Job -> BOOLEAN] /\ updated' \in [Job -> BOOLEAN]
         /\ begun' \in [Job -> Nat] /\ seen' \in [Job -> Snapshots]
         /\ since' \in [Job -> [Conn -> Nat]] /\ batch' \in [Job -> SUBSET Tx]
         /\ newStatus' \in [Job -> [Conn -> Status \cup {Unwritten}]]
         /\ newError' \in [Job -> [Conn -> Error \cup {Unwritten}]]
         /\ newSync' \in [Job -> [Conn -> Dates \cup {Never}]]
         /\ newLog' \in [Job -> [Conn -> Log]]
         /\ inserted' \in [Job -> SUBSET Tx] /\ unsubmitted' \in [Job -> SUBSET Tx]
         /\ vouched' \in [Job -> SUBSET Account]
  BY AnyConnType DEF TypeOK, Forget, Unwritten, Never, Status, Error, Log, NoLog,
                            NoSnapshot, Snapshots

\* Every step keeps the types.
LEMMA TypeStep ==
  ASSUME TypeOK, [Next]_vars
  PROVE  TypeOK'
  <1>0. Snapshot \in Snapshots
    BY DEF TypeOK, Snapshot, Snapshots, Ledger
  <1>1. CASE SyncAllConnections
    <2>1. Cron \in Job /\ Eligible \in SUBSET Conn
      BY ShapeAssumption DEF ShapeAssumption, Eligible
    <2> QED BY <1>0, <1>1, <2>1 DEF TypeOK, SyncAllConnections, Begin, Dates
  <1>2. ASSUME NEW j \in Job, NEW c \in Conn, NEW ask \in BOOLEAN, SyncNow(j, c, ask)
        PROVE  TypeOK'
    BY <1>0, <1>2 DEF TypeOK, SyncNow, Begin, Dates
  <1>3. ASSUME NEW j \in Job, JobStep(j) PROVE TypeOK'
    <2>1. CASE NextConnection(j)
      BY <2>1 DEF TypeOK, NextConnection
    <2>2. CASE UpdateFetched(j)
      <3>1. newStatus' \in [Job -> [Conn -> Status \cup {Unwritten}]]
        <4>1. SetStatus(j, "Connected") \/ UNCHANGED newStatus
          BY <2>2 DEF UpdateFetched
        <4>2. CASE SetStatus(j, "Connected")
          <5>1. "Connected" \in Status \cup {Unwritten}
            BY DEF Status
          <5> QED BY <1>3, <4>2, <5>1 DEF TypeOK, SetStatus
        <4> QED BY <4>1, <4>2 DEF TypeOK
      <3> QED BY <2>2, <3>1 DEF TypeOK, UpdateFetched, FetchFromBank, SetError, TxOf, Error
    <2>3. CASE UpdateChallenged(j)
      BY <2>3 DEF TypeOK, UpdateChallenged, SetStatus, SetError, Status, Error
    <2>4. CASE UpdateRefused(j)
      BY <2>4 DEF TypeOK, UpdateRefused, SetError, Status, Error
    <2>5. CASE UpdateTimesOut(j)
      BY <2>5, TypeAbandon DEF TypeOK, UpdateTimesOut, FetchFromBank, TxOf
    <2>6. CASE ReadNothingLinked(j)
      BY <2>6 DEF TypeOK, ReadNothingLinked, SetError, Status, Error
    <2>7. CASE AskTransactions(j)
      <3>1. SyncSince(j) \in Nat
        <4>1. conn[j] \in Conn /\ seen[j].sync \in [Conn -> Dates \cup {Never}]
          BY <1>3 DEF TypeOK, Snapshots
        <4> QED BY <4>1, DaysAssumption
                DEF TypeOK, SyncSince, DaysAssumption, Never, Dates
      <3> QED BY <2>7, <3>1 DEF TypeOK, AskTransactions, Matching, TxOf
    <2>15. CASE ReadTransactions(j)
      BY <2>15 DEF TypeOK, ReadTransactions, Matching, TxOf
    <2>8. CASE CallFails(j)
      BY <2>8, TypeAbandon DEF TypeOK, CallFails
    <2>9. ASSUME NEW t \in Tx, SkipKnown(j, t) PROVE TypeOK'
      BY <2>9 DEF TypeOK, SkipKnown
    <2>10. ASSUME NEW t \in Tx, CreateBankTransaction(j, t) PROVE TypeOK'
      BY <2>10 DEF TypeOK, CreateBankTransaction
    <2>11. ASSUME NEW t \in Tx, InsertFails(j, t) PROVE TypeOK'
      BY <2>11, TypeAbandon DEF TypeOK, InsertFails
    <2>12. ASSUME NEW t \in Tx, SubmitFails(j, t) PROVE TypeOK'
      BY <2>12, TypeAbandon DEF TypeOK, SubmitFails
    <2>13. CASE FinishSync(j)
      <3>1. DocError(j) \in Error
        BY <1>3 DEF TypeOK, DocError, Snapshots, Unwritten
      <3>2. newError' \in [Job -> [Conn -> Error \cup {Unwritten}]]
        <4>1. SetError(j, "none") \/ UNCHANGED newError
          BY <2>13 DEF FinishSync
        <4>2. CASE SetError(j, "none")
          <5>1. "none" \in Error \cup {Unwritten}
            BY DEF Error
          <5> QED BY <1>3, <4>2, <5>1 DEF TypeOK, SetError
        <4> QED BY <4>1, <4>2 DEF TypeOK
      <3> QED BY <2>13, <3>1, <3>2 DEF TypeOK, FinishSync, LogEntry, Log
    <2>14. CASE Commit(j)
      <3>1. /\ status' \in [Conn -> Status] /\ lastError' \in [Conn -> Error]
            /\ lastSync' \in [Conn -> Dates \cup {Never}] /\ syncLog' \in [Conn -> Log]
            /\ rows' \in [Tx -> Nat] /\ drafts' \in SUBSET Tx
        BY <1>3, <2>14 DEF TypeOK, Commit
      <3>2. coveredFrom' \in [Account -> Nat \cup {Never}]
        BY <1>3, <2>14, ShapeAssumption DEF TypeOK, Commit, ShapeAssumption
      <3> QED BY <1>3, <2>14, <3>1, <3>2, TypeForget DEF TypeOK, Commit
    <2> QED BY <1>3, <2>1, <2>2, <2>3, <2>4, <2>5, <2>6, <2>7, <2>8, <2>9, <2>10,
               <2>11, <2>12, <2>13, <2>14, <2>15 DEF JobStep
  <1>4. ASSUME NEW j \in Job, KillWorker(j) PROVE TypeOK'
    BY <1>4, TypeForget DEF TypeOK, KillWorker
  <1>5. CASE Tick
    <2>1. day' \in Dates
      <3>1. day \in Dates /\ day' = day + 1
        BY <1>5 DEF TypeOK, Tick
      <3> QED BY <3>1, DaysAssumption DEF Dates, DaysAssumption
    <2> QED BY <1>5, <2>1 DEF TypeOK, Tick
  <1>6. ASSUME NEW t \in Tx, Book(t) \/ Store(t) PROVE TypeOK'
    <2>1. CASE Book(t)
      BY <2>1 DEF TypeOK, Book
    <2>2. CASE Store(t)
      <3>1. storedOn' \in [Tx -> Nat \cup {Never}] /\ fetching' \in SUBSET Tx
        BY <2>2 DEF TypeOK, Store, Dates
      <3> QED BY <2>2, <3>1 DEF TypeOK, Store
    <2> QED BY <1>6, <2>1, <2>2
  <1>7. ASSUME NEW a \in Account, Link(a) \/ Unlink(a) PROVE TypeOK'
    <2>1. CASE Link(a)
      BY <2>1 DEF TypeOK, Link
    <2>2. CASE Unlink(a)
      BY <2>2 DEF TypeOK, Unlink, Never
    <2> QED BY <1>7, <2>1, <2>2
  <1>8. ASSUME NEW c \in Conn, Reconsent(c) PROVE TypeOK'
    BY <1>8 DEF TypeOK, Reconsent, Status, Error
  <1>9. CASE UNCHANGED vars
    BY <1>9 DEF TypeOK, vars
  <1> QED BY <1>1, <1>2, <1>3, <1>4, <1>5, <1>6, <1>7, <1>8, <1>9 DEF Next

\* The type invariant holds for every instance.
THEOREM TypeCorrect == Spec => []TypeOK
  <1>1. Init => TypeOK
    BY TypeInit
  <1>2. TypeOK /\ [Next]_vars => TypeOK'
    BY TypeStep
  <1> QED BY <1>1, <1>2, PTL DEF Spec

----------------------------------------------------------------------------
(* CursorCovers.                                                           *)

\* What the invariant needs of the types.
CoreTypes ==
  /\ day \in Nat
  /\ storedOn \in [Tx -> Int] /\ lastSync \in [Conn -> Int] /\ rows \in [Tx -> Nat]
  /\ linked \in SUBSET Account /\ coveredFrom \in [Account -> Int]
  /\ pc \in [Job -> {"idle", "next", "update", "read", "reading", "create"}]
  /\ todo \in [Job -> SUBSET Conn] /\ conn \in [Job -> Conn]
  /\ begun \in [Job -> Nat] /\ seen \in [Job -> Snapshots]
  /\ \A j \in Job, c \in Conn : seen[j].sync[c] \in Int
  /\ since \in [Job -> [Conn -> Int]] /\ batch \in [Job -> SUBSET Tx]
  /\ newSync \in [Job -> [Conn -> Int]] /\ inserted \in [Job -> SUBSET Tx]
  /\ vouched \in [Job -> SUBSET Account]
  /\ \A t \in Tx : AccountOf[t] \in Account
  /\ \A a \in Account : ConnOf[a] \in Conn

\* The type invariant gives the part of it that the invariant reasons with.
LEMMA CoreTyping == TypeOK => CoreTypes
  <1> SUFFICES ASSUME TypeOK PROVE CoreTypes
    OBVIOUS
  <1>1. /\ Dates \cup {Never} \subseteq Int /\ Nat \cup {Never} \subseteq Int
        /\ Dates \subseteq Nat
    BY DEF Dates, Never
  <1>2. storedOn \in [Tx -> Int] /\ lastSync \in [Conn -> Int] /\ coveredFrom \in [Account -> Int]
    BY <1>1 DEF TypeOK
  <1>3. newSync \in [Job -> [Conn -> Int]] /\ since \in [Job -> [Conn -> Int]]
    BY <1>1 DEF TypeOK
  <1>4. \A j \in Job, c \in Conn : seen[j].sync[c] \in Int
    BY <1>1 DEF TypeOK, Snapshots
  <1>5. \A t \in Tx : AccountOf[t] \in Account
    BY ShapeAssumption DEF ShapeAssumption
  <1>6. \A a \in Account : ConnOf[a] \in Conn
    BY ShapeAssumption DEF ShapeAssumption
  <1> QED BY <1>1, <1>2, <1>3, <1>4, <1>5, <1>6 DEF TypeOK, CoreTypes

\* Everything of the invariant but the types.
Core == /\ Past /\ JobPast /\ JobSaw /\ JobOnce /\ CoveredIsLinked /\ LinkOrder
        /\ SkippedIsKnown /\ LoopKeeps /\ StampKeeps /\ CursorCovers

\* Before the first job nothing is covered and nothing is skipped.
LEMMA CoreInit == Init => Core
  <1> SUFFICES ASSUME Init PROVE Core
    OBVIOUS
  <1>1. \A t \in Tx : storedOn[t] <= day
    <2> PICK old \in SUBSET Tx, d \in 0 .. InitialDays :
          /\ booked = old
          /\ storedOn = [t \in Tx |-> IF t \in old THEN d ELSE Never]
      BY DEF Init
    <2> QED BY DaysAssumption DEF Init, DaysAssumption, Never
  <1>2. \A c \in Conn : lastSync[c] <= day
    BY DaysAssumption DEF Init, DaysAssumption, Never
  <1>3. Past
    BY <1>1, <1>2 DEF Past
  <1>4. JobPast /\ JobSaw /\ JobOnce
    BY DEF Init, JobPast, JobSaw, JobOnce, NoSnapshot
  <1>5. CoveredIsLinked /\ LinkOrder /\ SkippedIsKnown /\ CursorCovers
    BY ShapeAssumption
       DEF Init, CoveredIsLinked, LinkOrder, SkippedIsKnown, CursorCovers, Stored,
           ShapeAssumption
  <1>6. LoopKeeps /\ StampKeeps
    BY DEF Init, LoopKeeps, StampKeeps
  <1> QED BY <1>3, <1>4, <1>5, <1>6 DEF Core

\* The steps of a job between its snapshot and its end.
Work(j) ==
  \/ NextConnection(j)
  \/ UpdateFetched(j) \/ UpdateChallenged(j) \/ UpdateRefused(j) \/ UpdateTimesOut(j)
  \/ ReadNothingLinked(j) \/ AskTransactions(j) \/ ReadTransactions(j) \/ CallFails(j)
  \/ \E t \in Tx : \/ SkipKnown(j, t) \/ CreateBankTransaction(j, t)
                   \/ InsertFails(j, t) \/ SubmitFails(j, t)
  \/ FinishSync(j)

\* They leave alone what others see, and what the job saw.
LEMMA WorkFrame ==
  ASSUME CoreTypes, NEW j \in Job, Work(j)
  PROVE  /\ UNCHANGED <<day, storedOn, lastSync, linked, rows, coveredFrom, vouched,
                        begun, seen>>
         /\ pc[j] # "idle" /\ pc'[j] # "idle"
         /\ \A i \in Job \ {j} : pc'[i] = pc[i]
  <1> USE DEF CoreTypes
  <1>1. CASE NextConnection(j)
    BY <1>1 DEF NextConnection
  <1>2. CASE UpdateFetched(j)
    BY <1>2 DEF UpdateFetched
  <1>3. CASE UpdateChallenged(j) \/ UpdateRefused(j)
    BY <1>3 DEF UpdateChallenged, UpdateRefused
  <1>4. CASE UpdateTimesOut(j) \/ CallFails(j)
    BY <1>4 DEF UpdateTimesOut, CallFails, Abandon
  <1>5. CASE ReadNothingLinked(j) \/ AskTransactions(j) \/ ReadTransactions(j)
    BY <1>5 DEF ReadNothingLinked, AskTransactions, ReadTransactions
  <1>6. CASE \E t \in Tx : SkipKnown(j, t) \/ CreateBankTransaction(j, t)
    BY <1>6 DEF SkipKnown, CreateBankTransaction
  <1>7. CASE \E t \in Tx : InsertFails(j, t) \/ SubmitFails(j, t)
    BY <1>7 DEF InsertFails, SubmitFails, Abandon
  <1>8. CASE FinishSync(j)
    BY <1>8 DEF FinishSync
  <1> QED BY <1>1, <1>2, <1>3, <1>4, <1>5, <1>6, <1>7, <1>8 DEF Work

\* So a working job keeps every part of the invariant that speaks of these only.
LEMMA WorkKeepsShared ==
  ASSUME CoreTypes, Core, NEW j \in Job, Work(j)
  PROVE  /\ Past' /\ JobSaw' /\ CoveredIsLinked' /\ LinkOrder' /\ SkippedIsKnown'
         /\ CursorCovers'
  <1>1. /\ UNCHANGED <<day, storedOn, lastSync, linked, rows, coveredFrom, vouched,
                       begun, seen>>
        /\ \A i \in Job : pc'[i] # "idle" => pc[i] # "idle"
    BY WorkFrame
  <1>2. Past' /\ JobSaw' /\ CoveredIsLinked'
    BY <1>1 DEF Core, Past, JobSaw, CoveredIsLinked, Ledger
  <1>3. LinkOrder'
    BY <1>1 DEF Core, LinkOrder
  <1>4. SkippedIsKnown'
    BY <1>1 DEF Core, SkippedIsKnown, Settled, LatestSince, Ledger
  <1>5. CursorCovers'
    BY <1>1 DEF Core, CursorCovers, Stored, Ledger
  <1> QED BY <1>2, <1>3, <1>4, <1>5

\* What a working job does to its own cursor stamp, list and rows.
LEMMA WorkOwn ==
  ASSUME CoreTypes, Core, NEW j \in Job, Work(j)
  PROVE  /\ \A i \in Job \ {j} : /\ newSync'[i] = newSync[i] /\ since'[i] = since[i]
                                 /\ batch'[i] = batch[i] /\ inserted'[i] = inserted[i]
                                 /\ todo'[i] = todo[i] /\ conn'[i] = conn[i]
         /\ inserted[j] \subseteq inserted'[j]
         /\ todo'[j] \subseteq todo[j]
  <1> USE DEF CoreTypes
  <1>1. CASE NextConnection(j)
    BY <1>1 DEF NextConnection
  <1>2. CASE UpdateFetched(j)
    BY <1>2 DEF UpdateFetched
  <1>3. CASE UpdateChallenged(j) \/ UpdateRefused(j)
    BY <1>3 DEF UpdateChallenged, UpdateRefused
  <1>4. CASE UpdateTimesOut(j) \/ CallFails(j)
    BY <1>4 DEF UpdateTimesOut, CallFails, Abandon
  <1>5. CASE ReadNothingLinked(j) \/ AskTransactions(j) \/ ReadTransactions(j)
    BY <1>5 DEF ReadNothingLinked, AskTransactions, ReadTransactions
  <1>6. CASE \E t \in Tx : SkipKnown(j, t) \/ CreateBankTransaction(j, t)
    BY <1>6 DEF SkipKnown, CreateBankTransaction
  <1>7. ASSUME NEW t \in Tx, InsertFails(j, t)
        PROVE  /\ UNCHANGED <<todo, conn, newSync, since, inserted>>
               /\ \A i \in Job \ {j} : batch'[i] = batch[i]
    BY <1>7 DEF InsertFails, Abandon
  <1>9. ASSUME NEW t \in Tx, SubmitFails(j, t)
        PROVE  /\ UNCHANGED <<todo, conn, newSync, since>>
               /\ \A i \in Job \ {j} : batch'[i] = batch[i] /\ inserted'[i] = inserted[i]
               /\ inserted[j] \subseteq inserted'[j]
    BY <1>9 DEF SubmitFails, Abandon
  <1>8. CASE FinishSync(j)
    BY <1>8 DEF FinishSync
  <1> QED BY <1>1, <1>2, <1>3, <1>4, <1>5, <1>6, <1>7, <1>8, <1>9 DEF Work

\* A job that is not at the end of its loop stamps nothing.
LEMMA WorkKeepsStamp ==
  ASSUME CoreTypes, Core, NEW j \in Job, Work(j), ~FinishSync(j)
  PROVE  newSync'[j] = newSync[j]
  BY DEF Work, CoreTypes, NextConnection, UpdateFetched, UpdateChallenged, UpdateRefused,
         UpdateTimesOut, CallFails, Abandon, ReadNothingLinked, AskTransactions, ReadTransactions,
         SkipKnown, CreateBankTransaction, InsertFails, SubmitFails

\* Only the read sets a cursor, that of the connection in hand.
LEMMA WorkKeepsSince ==
  ASSUME CoreTypes, Core, NEW j \in Job, Work(j), NEW c \in Conn,
         AskTransactions(j) => c # conn[j]
  PROVE  since'[j][c] = since[j][c]
  <1>1. CASE AskTransactions(j)
    BY <1>1 DEF AskTransactions, CoreTypes
  <1>2. CASE ~AskTransactions(j)
    BY <1>2 DEF Work, NextConnection, UpdateFetched, UpdateChallenged, UpdateRefused,
                UpdateTimesOut, CallFails, Abandon, ReadNothingLinked, ReadTransactions,
                SkipKnown, CreateBankTransaction, InsertFails, SubmitFails, FinishSync
  <1> QED BY <1>1, <1>2

\* A working job does each connection once and stamps with today's date.
LEMMA WorkKeepsOnce ==
  ASSUME CoreTypes, Core, NEW j \in Job, Work(j)
  PROVE  JobPast' /\ JobOnce'
  <1> USE DEF CoreTypes
  <1>1. /\ UNCHANGED <<day, begun, seen, vouched>>
        /\ pc[j] # "idle" /\ pc'[j] # "idle" /\ \A i \in Job \ {j} : pc'[i] = pc[i]
    BY WorkFrame
  <1>2. \A c \in Conn : newSync'[j][c] <= day
    <2>1. CASE FinishSync(j)
      <3>1. /\ newSync' = [newSync EXCEPT ![j][conn[j]] = day]
            /\ \A c \in Conn : newSync[j][c] <= day
        BY <1>1, <2>1 DEF FinishSync, Core, JobPast
      <3> QED BY <3>1
    <2>2. CASE ~FinishSync(j)
      BY <1>1, <2>2, WorkKeepsStamp DEF Core, JobPast
    <2> QED BY <2>1, <2>2
  <1>3. JobPast'
    BY <1>1, <1>2, WorkOwn DEF Core, JobPast
  <1>4. /\ pc'[j] \notin {"idle", "next"} => conn'[j] \notin todo'[j] /\ newSync'[j][conn'[j]] = Never
        /\ \A c \in todo'[j] : newSync'[j][c] = Never
    <2>1. CASE NextConnection(j)
      BY <2>1 DEF NextConnection, Core, JobOnce
    <2>2. CASE FinishSync(j)
      BY <2>2 DEF FinishSync, Core, JobOnce
    <2>3. CASE ~NextConnection(j) /\ ~FinishSync(j)
      <3>1. conn'[j] = conn[j] /\ todo'[j] = todo[j] /\ pc[j] # "next"
        BY <2>3 DEF Work, UpdateFetched, UpdateChallenged, UpdateRefused,
                    UpdateTimesOut, CallFails, Abandon, ReadNothingLinked, AskTransactions,
                    ReadTransactions, SkipKnown, CreateBankTransaction, InsertFails, SubmitFails
      <3> QED BY <1>1, <2>3, <3>1, WorkKeepsStamp DEF Core, JobOnce
    <2> QED BY <2>1, <2>2, <2>3
  <1> QED BY <1>1, <1>3, <1>4, WorkOwn DEF Core, JobOnce

\* The window of a connection moves with the read only.
LEMMA WindowSame ==
  ASSUME CoreTypes, Core, NEW i \in Job, NEW c \in Conn, NEW t \in Tx,
         UNCHANGED <<storedOn, begun, seen>>, since'[i][c] = since[i][c]
  PROVE  /\ InWindow(i, c, t)' <=> InWindow(i, c, t)
         /\ LatestSince(i, c)' = LatestSince(i, c)
  BY DEF InWindow, LatestSince

\* The read lists its window, and its cursor is not too late.
LEMMA ReadWindow ==
  ASSUME CoreTypes, Core, NEW j \in Job, AskTransactions(j)
  PROVE  /\ \A t \in Tx : InWindow(j, conn[j], t)' => t \in batch'[j]
         /\ since'[j][conn[j]] <= LatestSince(j, conn[j])
  <1>1. /\ storedOn' = storedOn /\ seen' = seen /\ begun' = begun /\ conn[j] \in Conn
        /\ since'[j][conn[j]] = SyncSince(j)
        /\ batch'[j] = {t \in TxOf(conn[j]) \cap Stored :
                          AccountOf[t] \in seen[j].linked /\ storedOn[t] >= SyncSince(j)}
    BY DEF AskTransactions, Matching, CoreTypes
  <1>2. \A t \in Tx : InWindow(j, conn[j], t)' => t \in batch'[j]
    <2> SUFFICES ASSUME NEW t \in Tx, InWindow(j, conn[j], t)'
                 PROVE  t \in batch'[j]
      OBVIOUS
    <2>1. /\ storedOn[t] # Never /\ ConnOf[AccountOf[t]] = conn[j]
          /\ AccountOf[t] \in seen[j].linked /\ since'[j][conn[j]] <= storedOn[t]
      BY <1>1 DEF InWindow, AskTransactions
    <2>2. storedOn[t] \in Int /\ SyncSince(j) \in Int
      BY <1>1, DaysAssumption DEF CoreTypes, SyncSince, DaysAssumption
    <2> QED BY <1>1, <2>1, <2>2 DEF TxOf, Stored
  <1>3. day <= begun[j] + MaxRunDays
    BY DEF AskTransactions, Core, JobPast
  <1>4. SyncSince(j) <= LatestSince(j, conn[j])
    BY <1>1, <1>3, DaysAssumption DEF CoreTypes, SyncSince, LatestSince, DaysAssumption
  <1> QED BY <1>1, <1>2, <1>4

\* A job that is in the loop, or comes to it, keeps its list complete.
LEMMA WorkKeepsLoop ==
  ASSUME CoreTypes, Core, NEW j \in Job, Work(j)
  PROVE  LoopKeeps'
  <1> USE DEF CoreTypes
  <1>0. /\ UNCHANGED <<storedOn, begun, seen>> /\ Ledger' = Ledger
        /\ \A i \in Job \ {j} : pc'[i] = pc[i]
    BY WorkFrame DEF Ledger
  <1>1. ASSUME NEW i \in Job \ {j}, pc'[i] \in {"reading", "create"}
        PROVE  /\ \A t \in Tx : InWindow(i, conn[i], t)' =>
                                  t \in batch'[i] \/ t \in Ledger' \/ t \in inserted'[i]
               /\ \A a \in seen'[i].linked :
                    ConnOf[a] = conn[i] => since'[i][conn[i]] <= LatestSince(i, conn[i])'
               /\ conn'[i] = conn[i]
    <2>1. /\ since'[i] = since[i] /\ batch'[i] = batch[i] /\ inserted'[i] = inserted[i]
          /\ conn'[i] = conn[i] /\ pc[i] \in {"reading", "create"} /\ conn[i] \in Conn
      BY <1>0, <1>1, WorkOwn
    <2>2. \A t \in Tx : InWindow(i, conn[i], t)' <=> InWindow(i, conn[i], t)
      BY <1>0, <2>1, WindowSame
    <2>3. LatestSince(i, conn[i])' = LatestSince(i, conn[i])
      BY <1>0, <2>1 DEF LatestSince
    <2> QED BY <1>0, <2>1, <2>2, <2>3 DEF Core, LoopKeeps
  <1>2. ASSUME pc'[j] \in {"reading", "create"}
        PROVE  /\ \A t \in Tx : InWindow(j, conn[j], t)' =>
                                  t \in batch'[j] \/ t \in Ledger' \/ t \in inserted'[j]
               /\ \A a \in seen'[j].linked :
                    ConnOf[a] = conn[j] => since'[j][conn[j]] <= LatestSince(j, conn[j])'
               /\ conn'[j] = conn[j]
    <2>1. CASE AskTransactions(j)
      <3>1. conn' = conn
        BY <2>1 DEF AskTransactions
      <3>2. LatestSince(j, conn[j])' = LatestSince(j, conn[j])
        BY <1>0, <3>1 DEF LatestSince
      <3> QED BY <2>1, <3>1, <3>2, ReadWindow
    <2>2. CASE ReadNothingLinked(j)
      <3>1. conn' = conn /\ \A a \in Account : a \in seen[j].linked => ConnOf[a] # conn[j]
        BY <2>2 DEF ReadNothingLinked, AccountsOf
      <3>2. seen[j].linked \subseteq Account
        BY DEF Snapshots
      <3> QED BY <1>0, <3>1, <3>2 DEF InWindow
    <2>6. CASE ReadTransactions(j)
      <3>1. /\ conn' = conn /\ since' = since /\ pc[j] = "reading" /\ conn[j] \in Conn
            /\ batch[j] \subseteq batch'[j] /\ inserted' = inserted
        BY <2>6 DEF ReadTransactions
      <3>2. \A t \in Tx : InWindow(j, conn[j], t)' <=> InWindow(j, conn[j], t)
        BY <1>0, <3>1, WindowSame
      <3>3. LatestSince(j, conn[j])' = LatestSince(j, conn[j])
        BY <1>0, <3>1 DEF LatestSince
      <3> QED BY <1>0, <3>1, <3>2, <3>3 DEF Core, LoopKeeps
    <2>3. CASE \E t \in Tx : SkipKnown(j, t) \/ CreateBankTransaction(j, t)
      <3> PICK u \in Tx : SkipKnown(j, u) \/ CreateBankTransaction(j, u)
        BY <2>3
      <3>1. /\ conn' = conn /\ since' = since /\ pc[j] = "create" /\ conn[j] \in Conn
            /\ batch'[j] = batch[j] \ {u} /\ inserted[j] \subseteq inserted'[j]
            /\ u \in seen[j].known \/ u \in inserted'[j]
        BY DEF SkipKnown, CreateBankTransaction, Known
      <3>2. \A t \in Tx : InWindow(j, conn[j], t)' <=> InWindow(j, conn[j], t)
        BY <1>0, <3>1, WindowSame
      <3>3. LatestSince(j, conn[j])' = LatestSince(j, conn[j])
        BY <1>0, <3>1 DEF LatestSince
      <3>4. seen[j].known \subseteq Ledger
        BY DEF Core, JobSaw
      <3> QED BY <1>0, <3>1, <3>2, <3>3, <3>4 DEF Core, LoopKeeps
    <2>4. CASE \/ NextConnection(j) \/ UpdateFetched(j) \/ UpdateChallenged(j)
               \/ UpdateRefused(j) \/ UpdateTimesOut(j) \/ CallFails(j) \/ FinishSync(j)
      BY <1>2, <2>4 DEF NextConnection, UpdateFetched, UpdateChallenged, UpdateRefused,
                        UpdateTimesOut, CallFails, Abandon, FinishSync
    <2>5. CASE \E t \in Tx : InsertFails(j, t) \/ SubmitFails(j, t)
      BY <1>2, <2>5 DEF InsertFails, SubmitFails, Abandon
    <2> QED BY <2>1, <2>2, <2>3, <2>4, <2>5, <2>6 DEF Work
  <1> SUFFICES ASSUME NEW i \in Job, pc'[i] \in {"reading", "create"}
               PROVE  /\ conn'[i] = conn[i]
                      /\ \A t \in Tx : InWindow(i, conn[i], t)' =>
                                  t \in batch'[i] \/ t \in Ledger' \/ t \in inserted'[i]
                      /\ \A a \in seen'[i].linked :
                           ConnOf[a] = conn[i] => since'[i][conn[i]] <= LatestSince(i, conn[i])'
    BY DEF LoopKeeps, InWindow, LatestSince
  <1> QED BY <1>1, <1>2

\* A stamp is set when the list is empty; a stamped connection is not read again.
LEMMA WorkKeepsStamps ==
  ASSUME CoreTypes, Core, NEW j \in Job, Work(j)
  PROVE  StampKeeps'
  <1> USE DEF CoreTypes
  <1>0. /\ UNCHANGED <<storedOn, begun, seen>> /\ Ledger' = Ledger
    BY WorkFrame DEF Ledger
  <1> SUFFICES ASSUME NEW i \in Job, NEW c \in Conn, newSync'[i][c] # Never
               PROVE  /\ \A t \in Tx : InWindow(i, c, t)' => t \in Ledger' \/ t \in inserted'[i]
                      /\ \A a \in seen'[i].linked :
                           ConnOf[a] = c => since'[i][c] <= LatestSince(i, c)'
    BY DEF StampKeeps
  <1>1. since'[i][c] = since[i][c] /\ inserted[i] \subseteq inserted'[i]
    <2>1. CASE i # j
      BY <2>1, WorkOwn
    <2>2. CASE i = j
      <3>1. AskTransactions(j) => c # conn[j]
        <4> SUFFICES ASSUME AskTransactions(j) PROVE newSync[j] = newSync'[j] /\ newSync[j][conn[j]] = Never
          BY <2>2
        <4> QED BY DEF AskTransactions, Core, JobOnce
      <3> QED BY <2>2, <3>1, WorkOwn, WorkKeepsSince
    <2> QED BY <2>1, <2>2
  <1>2. /\ \A t \in Tx : InWindow(i, c, t)' <=> InWindow(i, c, t)
        /\ LatestSince(i, c)' = LatestSince(i, c)
    BY <1>0, <1>1, WindowSame DEF LatestSince
  <1>3. CASE newSync[i][c] # Never
    BY <1>0, <1>1, <1>2, <1>3 DEF Core, StampKeeps
  <1>4. CASE newSync[i][c] = Never
    <2>1. i = j /\ FinishSync(j)
      BY <1>4, WorkOwn, WorkKeepsStamp
    <2>2. c = conn[j] /\ pc[j] = "create" /\ batch[j] = {}
      BY <1>4, <2>1 DEF FinishSync
    <2> QED BY <1>0, <1>1, <1>2, <2>1, <2>2 DEF Core, LoopKeeps
  <1> QED BY <1>3, <1>4

\* A working job keeps the invariant.
LEMMA WorkKeeps ==
  ASSUME CoreTypes, Core, NEW j \in Job, Work(j)
  PROVE  Core'
  BY WorkKeepsShared, WorkKeepsOnce, WorkKeepsLoop, WorkKeepsStamps DEF Core

\* Every job's cursor, and what has to be settled before it reads, lies in its past.
LEMMA SettledEarly ==
  ASSUME CoreTypes, Core, NEW j \in Job, pc[j] # "idle", NEW a \in Account
  PROVE  Settled(j, a) <= begun[j]
  BY DaysAssumption DEF CoreTypes, Core, JobPast, Settled, LatestSince, DaysAssumption

\* A midnight keeps the invariant: no run lasts longer than MaxRunDays.
LEMMA TickKeeps == ASSUME CoreTypes, Core, Tick PROVE Core'
  <1> USE DEF CoreTypes
  <1>1. /\ day' = day + 1
        /\ UNCHANGED <<storedOn, lastSync, linked, rows, pc, todo, conn, begun, seen, since,
                       batch, newSync, inserted, vouched, coveredFrom>>
    BY DEF Tick
  <1>2. Past'
    BY <1>1 DEF Core, Past
  <1>3. JobPast'
    <2> SUFFICES ASSUME NEW j \in Job, pc[j] # "idle"
                 PROVE  /\ begun[j] <= day + 1 /\ day + 1 <= begun[j] + MaxRunDays
                        /\ \A c \in Conn : seen[j].sync[c] <= begun[j]
                        /\ \A c \in Conn : newSync[j][c] <= day + 1
      BY <1>1 DEF JobPast
    <2>1. day - begun[j] < MaxRunDays
      BY DEF Tick, Active
    <2> QED BY <2>1, DaysAssumption DEF Core, JobPast, DaysAssumption
  <1>4. JobSaw' /\ JobOnce' /\ CoveredIsLinked' /\ LinkOrder'
    BY <1>1 DEF Core, JobSaw, JobOnce, CoveredIsLinked, LinkOrder, Ledger
  <1>5. SkippedIsKnown' /\ CursorCovers'
    BY <1>1 DEF Core, SkippedIsKnown, Settled, LatestSince, CursorCovers, Stored, Ledger
  <1>6. LoopKeeps' /\ StampKeeps'
    BY <1>1 DEF Core, LoopKeeps, StampKeeps, InWindow, LatestSince, Ledger
  <1> QED BY <1>2, <1>3, <1>4, <1>5, <1>6 DEF Core

\* What is stored today lies behind no cursor and in no running job's window.
LEMMA StoreKeeps == ASSUME CoreTypes, Core, NEW u \in Tx, Store(u) PROVE Core'
  <1> USE DEF CoreTypes
  <1>1. /\ storedOn' = [storedOn EXCEPT ![u] = day]
        /\ UNCHANGED <<day, lastSync, linked, rows, pc, todo, conn, begun, seen, since,
                       batch, newSync, inserted, vouched, coveredFrom>>
    BY DEF Store
  <1>2. Past' /\ JobPast'
    BY <1>1 DEF Core, Past, JobPast
  <1>3. JobSaw' /\ JobOnce' /\ CoveredIsLinked' /\ LinkOrder'
    BY <1>1 DEF Core, JobSaw, JobOnce, CoveredIsLinked, LinkOrder, Ledger
  <1>4. SkippedIsKnown'
    <2> SUFFICES ASSUME NEW j \in Job, NEW t \in Tx, pc[j] # "idle",
                        storedOn'[t] # Never, coveredFrom[AccountOf[t]] # Never,
                        coveredFrom[AccountOf[t]] <= storedOn'[t],
                        storedOn'[t] < Settled(j, AccountOf[t])
                 PROVE  t \in Ledger
      BY <1>1 DEF SkippedIsKnown, Settled, LatestSince, Ledger
    <2>1. Settled(j, AccountOf[t]) <= day /\ Settled(j, AccountOf[t]) \in Int
      <3>1. Settled(j, AccountOf[t]) <= begun[j] /\ begun[j] <= day
        BY SettledEarly DEF Core, JobPast
      <3> QED BY <3>1, DaysAssumption DEF Settled, LatestSince, DaysAssumption
    <2>2. t # u
      BY <1>1, <2>1
    <2> QED BY <1>1, <2>2 DEF Core, SkippedIsKnown
  <1>5. CursorCovers'
    <2> SUFFICES ASSUME NEW t \in Tx, storedOn'[t] # Never, coveredFrom[AccountOf[t]] # Never,
                        coveredFrom[AccountOf[t]] <= storedOn'[t],
                        storedOn'[t] < lastSync[ConnOf[AccountOf[t]]] - OverlapDays
                 PROVE  t \in Ledger
      BY <1>1 DEF CursorCovers, Stored, Ledger
    <2>1. t # u
      BY <1>1, DaysAssumption DEF Core, Past, DaysAssumption
    <2> QED BY <1>1, <2>1 DEF Core, CursorCovers, Stored
  <1>6. \A j \in Job, c \in Conn, t \in Tx :
          InWindow(j, c, t)' /\ pc[j] # "idle" => InWindow(j, c, t)
    <2> SUFFICES ASSUME NEW j \in Job, NEW c \in Conn, NEW t \in Tx,
                        InWindow(j, c, t)', pc[j] # "idle"
                 PROVE  InWindow(j, c, t)
      OBVIOUS
    <2>1. begun[j] <= day /\ storedOn'[t] < begun[j]
      BY <1>1 DEF Core, JobPast, InWindow
    <2>2. t # u
      BY <1>1, <2>1
    <2> QED BY <1>1, <2>2 DEF InWindow
  <1>7. \A j \in Job, c \in Conn : newSync[j][c] # Never => pc[j] # "idle"
    BY DEF Core, JobOnce
  <1>8. LoopKeeps'
    BY <1>1, <1>6 DEF Core, LoopKeeps, LatestSince, Ledger
  <1>9. StampKeeps'
    BY <1>1, <1>6, <1>7 DEF Core, StampKeeps, LatestSince, Ledger
  <1> QED BY <1>2, <1>3, <1>4, <1>5, <1>8, <1>9 DEF Core

\* A link that comes is nobody's history yet; one that goes takes its history along.
LEMMA LinkKeeps == ASSUME CoreTypes, Core, NEW b \in Account, Link(b) \/ Unlink(b) PROVE Core'
  <1> USE DEF CoreTypes
  <1>1. /\ UNCHANGED <<day, storedOn, lastSync, rows, pc, todo, conn, begun, seen, since,
                       batch, newSync, inserted>>
        /\ \A j \in Job : vouched'[j] \subseteq vouched[j] /\ vouched'[j] \subseteq linked'
        /\ \A a \in Account : coveredFrom'[a] # Never =>
             coveredFrom'[a] = coveredFrom[a] /\ a \in linked'
    <2>1. CASE Link(b)
      BY <2>1 DEF Link, Core, JobSaw, CoveredIsLinked
    <2>2. CASE Unlink(b)
      <3>1. \A a \in Account : a # b => coveredFrom'[a] = coveredFrom[a]
        BY <2>2 DEF Unlink
      <3>2. coveredFrom'[b] = Never /\ linked' = linked \ {b}
        BY <2>2 DEF Unlink
      <3>3. \A j \in Job : vouched'[j] = vouched[j] \ {b}
        BY <2>2 DEF Unlink
      <3> QED BY <2>2, <3>1, <3>2, <3>3 DEF Unlink, Core, JobSaw, CoveredIsLinked
    <2> QED BY <2>1, <2>2
  <1>2. Past' /\ JobPast'
    BY <1>1 DEF Core, Past, JobPast
  <1>3. JobSaw'
    BY <1>1 DEF Core, JobSaw, Ledger
  <1>4. JobOnce' /\ CoveredIsLinked' /\ LinkOrder'
    BY <1>1 DEF Core, JobOnce, CoveredIsLinked, LinkOrder
  <1>5. SkippedIsKnown' /\ CursorCovers'
    BY <1>1 DEF Core, SkippedIsKnown, Settled, LatestSince, CursorCovers, Stored, Ledger
  <1>6. LoopKeeps' /\ StampKeeps'
    BY <1>1 DEF Core, LoopKeeps, StampKeeps, InWindow, LatestSince, Ledger
  <1> QED BY <1>2, <1>3, <1>4, <1>5, <1>6 DEF Core

\* Nothing of the invariant changes with these variables alone.
LEMMA IdleKeeps ==
  ASSUME CoreTypes, Core,
         UNCHANGED <<day, storedOn, lastSync, linked, rows, pc, todo, conn, begun, seen, since,
                     batch, newSync, inserted, vouched, coveredFrom>>
  PROVE  Core'
  BY DEF Core, Past, JobPast, JobSaw, JobOnce, CoveredIsLinked, LinkOrder, SkippedIsKnown,
         Settled, LatestSince, CursorCovers, Stored, Ledger, LoopKeeps, StampKeeps, InWindow

\* A new job sees a database in which everything behind its cursor is known.
LEMMA BeginKeeps ==
  ASSUME CoreTypes, Core, NEW j \in Job, NEW conns \in SUBSET Conn, NEW ask,
         Begin(j, conns, ask)
  PROVE  Core'
  <1> USE DEF CoreTypes
  <1>1. /\ UNCHANGED <<day, storedOn, lastSync, linked, rows, conn, since, batch, newSync,
                       inserted, coveredFrom>>
        /\ pc[j] = "idle" /\ pc'[j] = "next" /\ \A i \in Job \ {j} : pc'[i] = pc[i]
        /\ begun'[j] = day /\ \A i \in Job \ {j} : begun'[i] = begun[i]
        /\ vouched'[j] = linked /\ \A i \in Job \ {j} : vouched'[i] = vouched[i]
        /\ todo'[j] = conns /\ \A i \in Job \ {j} : todo'[i] = todo[i]
        /\ Ledger' = Ledger
    BY DEF Begin, Ledger
  <1>2. /\ seen'[j].sync = lastSync /\ seen'[j].linked = linked /\ seen'[j].known = Ledger
        /\ \A i \in Job \ {j} : seen'[i] = seen[i]
    BY DEF Begin, Snapshot
  <1>3. newSync[j] \in [Conn -> Int] /\ \A c \in Conn : newSync[j][c] = Never
    BY <1>1 DEF Core, JobOnce
  <1>4. Past' /\ CoveredIsLinked' /\ CursorCovers'
    BY <1>1 DEF Core, Past, CoveredIsLinked, CursorCovers, Stored
  <1>5. JobPast'
    <2>1. /\ day <= day + MaxRunDays
          /\ \A c \in Conn : lastSync[c] <= day /\ newSync[j][c] <= day
      BY <1>3, DaysAssumption DEF Core, Past, DaysAssumption, Never
    <2> SUFFICES ASSUME NEW i \in Job, pc'[i] # "idle"
                 PROVE  /\ begun'[i] <= day /\ day <= begun'[i] + MaxRunDays
                        /\ \A c \in Conn : seen'[i].sync[c] <= begun'[i]
                        /\ \A c \in Conn : newSync[i][c] <= day
      BY <1>1 DEF JobPast
    <2>2. CASE i = j
      BY <1>1, <1>2, <2>1, <2>2
    <2>3. CASE i # j
      BY <1>1, <1>2, <2>3 DEF Core, JobPast
    <2> QED BY <2>2, <2>3
  <1>6. JobSaw'
    BY <1>1, <1>2 DEF Core, JobSaw
  <1>7. JobOnce'
    <2> SUFFICES ASSUME NEW i \in Job
                 PROVE  /\ pc'[i] \notin {"idle", "next"} =>
                             conn[i] \notin todo'[i] /\ newSync[i][conn[i]] = Never
                        /\ \A c \in todo'[i] : newSync[i][c] = Never
                        /\ pc'[i] = "idle" => /\ inserted[i] = {} /\ vouched'[i] = {}
                                              /\ todo'[i] = {}
                                              /\ \A c \in Conn : newSync[i][c] = Never
      BY <1>1 DEF JobOnce
    <2>1. CASE i = j
      BY <1>1, <1>3, <2>1
    <2>2. CASE i # j
      BY <1>1, <2>2 DEF Core, JobOnce
    <2> QED BY <2>1, <2>2
  <1>8. LinkOrder'
    <2> SUFFICES ASSUME NEW i \in Job, NEW k \in Job, NEW a \in vouched'[k],
                        pc'[i] # "idle", pc'[k] # "idle", a \notin seen'[i].linked
                 PROVE  begun'[i] <= begun'[k]
      BY DEF LinkOrder
    <2>1. a \in linked
      BY <1>1 DEF Core, JobSaw
    <2>2. i # j
      BY <1>2, <2>1
    <2>3. CASE k = j
      BY <1>1, <2>2, <2>3 DEF Core, JobPast
    <2>4. CASE k # j
      BY <1>1, <1>2, <2>2, <2>4 DEF Core, LinkOrder
    <2> QED BY <2>3, <2>4
  <1>9. SkippedIsKnown'
    <2> SUFFICES ASSUME NEW i \in Job, NEW t \in Tx, pc'[i] # "idle", storedOn[t] # Never,
                        coveredFrom[AccountOf[t]] # Never,
                        coveredFrom[AccountOf[t]] <= storedOn[t],
                        storedOn[t] < Settled(i, AccountOf[t])'
                 PROVE  t \in Ledger
      BY <1>1 DEF SkippedIsKnown
    <2>1. CASE i = j
      <3>1. AccountOf[t] \in linked /\ lastSync[ConnOf[AccountOf[t]]] # Never
        BY DEF Core, CoveredIsLinked
      <3>2. Settled(i, AccountOf[t])' = lastSync[ConnOf[AccountOf[t]]] - OverlapDays
        BY <1>2, <2>1, <3>1 DEF Settled, LatestSince
      <3>3. t \in Stored /\ storedOn[t] < lastSync[ConnOf[AccountOf[t]]] - OverlapDays
        BY <3>2 DEF Stored
      <3> QED BY <3>3 DEF Core, CursorCovers
    <2>2. CASE i # j
      <3>1. Settled(i, AccountOf[t])' = Settled(i, AccountOf[t])
        BY <1>1, <1>2, <2>2 DEF Settled, LatestSince
      <3> QED BY <1>1, <2>2, <3>1 DEF Core, SkippedIsKnown
    <2> QED BY <2>1, <2>2
  <1>10. \A i \in Job \ {j}, c \in Conn : /\ \A t \in Tx : InWindow(i, c, t)' <=> InWindow(i, c, t)
                                          /\ LatestSince(i, c)' = LatestSince(i, c)
    BY <1>1, <1>2 DEF InWindow, LatestSince
  <1>11. LoopKeeps'
    <2> SUFFICES ASSUME NEW i \in Job, pc'[i] \in {"reading", "create"}
                 PROVE  /\ \A t \in Tx : InWindow(i, conn[i], t)' =>
                                  t \in batch[i] \/ t \in Ledger \/ t \in inserted[i]
                        /\ \A a \in seen'[i].linked :
                             ConnOf[a] = conn[i] => since[i][conn[i]] <= LatestSince(i, conn[i])'
      BY <1>1 DEF LoopKeeps, InWindow, LatestSince
    <2>1. i # j /\ pc[i] \in {"reading", "create"} /\ seen'[i] = seen[i]
      BY <1>1, <1>2
    <2>2. /\ \A t \in Tx : InWindow(i, conn[i], t)' <=> InWindow(i, conn[i], t)
          /\ LatestSince(i, conn[i])' = LatestSince(i, conn[i])
      BY <1>1, <2>1 DEF InWindow, LatestSince
    <2> QED BY <2>1, <2>2 DEF Core, LoopKeeps
  <1>12. StampKeeps'
    <2> SUFFICES ASSUME NEW i \in Job, NEW c \in Conn, newSync[i][c] # Never
                 PROVE  /\ \A t \in Tx : InWindow(i, c, t)' => t \in Ledger \/ t \in inserted[i]
                        /\ \A a \in seen'[i].linked :
                             ConnOf[a] = c => since[i][c] <= LatestSince(i, c)'
      BY <1>1 DEF StampKeeps
    <2>1. i # j
      BY <1>3
    <2> QED BY <1>2, <1>10, <2>1 DEF Core, StampKeeps
  <1> QED BY <1>4, <1>5, <1>6, <1>7, <1>8, <1>9, <1>11, <1>12 DEF Core

\* Giving a slot back leaves the other jobs as they were.
LEMMA ForgetOwn ==
  ASSUME CoreTypes, NEW j \in Job, Forget(j)
  PROVE  /\ \A i \in Job \ {j} :
              /\ pc'[i] = pc[i] /\ todo'[i] = todo[i] /\ conn'[i] = conn[i]
              /\ begun'[i] = begun[i] /\ seen'[i] = seen[i] /\ since'[i] = since[i]
              /\ batch'[i] = batch[i] /\ newSync'[i] = newSync[i]
              /\ inserted'[i] = inserted[i] /\ vouched'[i] = vouched[i]
         /\ pc'[j] = "idle" /\ todo'[j] = {} /\ inserted'[j] = {} /\ vouched'[j] = {}
         /\ seen'[j].known = {} /\ \A c \in Conn : newSync'[j][c] = Never
  BY DEF CoreTypes, Forget, NoSnapshot

\* A slot given back keeps what the invariant says of the jobs, whatever the
\* database gained at the same time.
LEMMA ForgetKeepsJobs ==
  ASSUME CoreTypes, Core, NEW j \in Job, Forget(j),
         UNCHANGED <<day, storedOn, linked>>, Ledger \subseteq Ledger'
  PROVE  JobPast' /\ JobSaw' /\ JobOnce' /\ LinkOrder' /\ LoopKeeps' /\ StampKeeps'
  <1> USE ForgetOwn DEF CoreTypes
  <1>1. JobPast'
    BY DEF Core, JobPast
  <1>2. JobSaw'
    <2> SUFFICES ASSUME NEW i \in Job
                 PROVE  /\ seen'[i].known \subseteq Ledger'
                        /\ vouched'[i] \subseteq seen'[i].linked
                        /\ vouched'[i] \subseteq linked'
      BY DEF JobSaw
    <2> QED BY DEF Core, JobSaw
  <1>3. JobOnce'
    <2> SUFFICES ASSUME NEW i \in Job
                 PROVE  /\ pc'[i] \notin {"idle", "next"} =>
                             conn'[i] \notin todo'[i] /\ newSync'[i][conn'[i]] = Never
                        /\ \A c \in todo'[i] : newSync'[i][c] = Never
                        /\ pc'[i] = "idle" =>
                             /\ inserted'[i] = {} /\ vouched'[i] = {} /\ todo'[i] = {}
                             /\ \A c \in Conn : newSync'[i][c] = Never
      BY DEF JobOnce
    <2>1. CASE i = j
      BY <2>1
    <2>2. CASE i # j
      BY <2>2 DEF Core, JobOnce
    <2> QED BY <2>1, <2>2
  <1>4. LinkOrder'
    <2> SUFFICES ASSUME NEW i \in Job, NEW k \in Job, NEW a \in vouched'[k],
                        pc'[i] # "idle", pc'[k] # "idle", a \notin seen'[i].linked
                 PROVE  begun'[i] <= begun'[k]
      BY DEF LinkOrder
    <2>1. i # j /\ k # j
      OBVIOUS
    <2> QED BY <2>1 DEF Core, LinkOrder
  <1>5. \A i \in Job \ {j}, c \in Conn : /\ \A t \in Tx : InWindow(i, c, t)' <=> InWindow(i, c, t)
                                         /\ LatestSince(i, c)' = LatestSince(i, c)
    BY DEF InWindow, LatestSince
  <1>6. LoopKeeps'
    <2> SUFFICES ASSUME NEW i \in Job, pc'[i] \in {"reading", "create"}
                 PROVE  /\ \A t \in Tx : InWindow(i, conn[i], t)' =>
                                  t \in batch'[i] \/ t \in Ledger' \/ t \in inserted'[i]
                        /\ \A a \in seen'[i].linked :
                             ConnOf[a] = conn[i] => since'[i][conn[i]] <= LatestSince(i, conn[i])'
                        /\ conn'[i] = conn[i]
      BY DEF LoopKeeps, InWindow, LatestSince
    <2>1. i # j /\ pc[i] \in {"reading", "create"} /\ conn'[i] = conn[i]
      OBVIOUS
    <2>2. /\ \A t \in Tx : InWindow(i, conn[i], t)' <=> InWindow(i, conn[i], t)
          /\ LatestSince(i, conn[i])' = LatestSince(i, conn[i])
      BY <2>1 DEF InWindow, LatestSince
    <2> QED BY <2>1, <2>2 DEF Core, LoopKeeps
  <1>7. StampKeeps'
    <2> SUFFICES ASSUME NEW i \in Job, NEW c \in Conn, newSync'[i][c] # Never
                 PROVE  /\ \A t \in Tx : InWindow(i, c, t)' => t \in Ledger' \/ t \in inserted'[i]
                        /\ \A a \in seen'[i].linked :
                             ConnOf[a] = c => since'[i][c] <= LatestSince(i, c)'
      BY DEF StampKeeps
    <2>1. i # j
      OBVIOUS
    <2> QED BY <1>5, <2>1 DEF Core, StampKeeps
  <1> QED BY <1>1, <1>2, <1>3, <1>4, <1>6, <1>7

\* A worker that dies takes its writes with it.
LEMMA KillKeeps == ASSUME CoreTypes, Core, NEW j \in Job, KillWorker(j) PROVE Core'
  <1> USE ForgetOwn DEF CoreTypes
  <1>1. Forget(j) /\ UNCHANGED <<day, storedOn, lastSync, linked, rows, coveredFrom>> /\ Ledger' = Ledger
    BY DEF KillWorker, Ledger
  <1>2. Past' /\ CoveredIsLinked' /\ CursorCovers'
    BY <1>1 DEF Core, Past, CoveredIsLinked, CursorCovers, Stored
  <1>3. SkippedIsKnown'
    <2> SUFFICES ASSUME NEW i \in Job, NEW t \in Tx, pc'[i] # "idle", storedOn[t] # Never,
                        coveredFrom[AccountOf[t]] # Never,
                        coveredFrom[AccountOf[t]] <= storedOn[t],
                        storedOn[t] < Settled(i, AccountOf[t])'
                 PROVE  t \in Ledger
      BY <1>1 DEF SkippedIsKnown
    <2>1. i # j
      BY <1>1
    <2>2. Settled(i, AccountOf[t])' = Settled(i, AccountOf[t])
      BY <1>1, <2>1 DEF Settled, LatestSince
    <2> QED BY <1>1, <2>1, <2>2 DEF Core, SkippedIsKnown
  <1> QED BY <1>1, <1>2, <1>3, ForgetKeepsJobs DEF Core

\* What a commit publishes.
LEMMA CommitEffect ==
  ASSUME CoreTypes, Core, NEW j \in Job, Commit(j)
  PROVE  /\ Forget(j) /\ pc[j] = "next" /\ UNCHANGED <<day, storedOn, linked>>
         /\ Ledger' = Ledger \cup inserted[j]
         /\ \A c \in Conn : /\ newSync[j][c] = Never => lastSync'[c] = lastSync[c]
                            /\ newSync[j][c] # Never => lastSync'[c] = newSync[j][c]
         /\ \A a \in Account :
              \/ coveredFrom'[a] = coveredFrom[a]
              \/ /\ coveredFrom[a] = Never /\ a \in vouched[j]
                 /\ newSync[j][ConnOf[a]] # Never
                 /\ coveredFrom'[a] = since[j][ConnOf[a]]
  <1>1. Ledger' = Ledger \cup inserted[j]
    <2>1. \A t \in Tx : rows'[t] > 0 <=> (rows[t] > 0 \/ t \in inserted[j])
      BY DEF Commit, CoreTypes
    <2> QED BY <2>1 DEF Ledger, CoreTypes
  <1> QED BY <1>1 DEF Commit, CoreTypes

\* A stamp of the job lies at most OverlapDays after its snapshot.
LEMMA StampEarly ==
  ASSUME CoreTypes, Core, NEW j \in Job, pc[j] # "idle", NEW c \in Conn
  PROVE  newSync[j][c] - OverlapDays <= begun[j]
  BY DaysAssumption DEF CoreTypes, Core, JobPast, DaysAssumption

\* An account the commit starts to vouch for is complete up to the job's snapshot.
LEMMA NewlyCovered ==
  ASSUME CoreTypes, Core, NEW j \in Job, Commit(j),
         NEW t \in Tx, storedOn[t] # Never,
         coveredFrom[AccountOf[t]] = Never, AccountOf[t] \in vouched[j],
         newSync[j][ConnOf[AccountOf[t]]] # Never,
         since[j][ConnOf[AccountOf[t]]] <= storedOn[t], storedOn[t] < begun[j]
  PROVE  t \in Ledger'
  <1>1. InWindow(j, ConnOf[AccountOf[t]], t)
    BY DEF InWindow, Core, JobSaw
  <1> QED BY <1>1, CommitEffect DEF CoreTypes, Core, StampKeeps

\* A commit moves the cursor over nothing that is missing.
LEMMA CommitKeepsCursor ==
  ASSUME CoreTypes, Core, NEW j \in Job, Commit(j)
  PROVE  CursorCovers'
  <1> USE DEF CoreTypes
  <1> SUFFICES ASSUME NEW t \in Tx, storedOn[t] # Never,
                      coveredFrom'[AccountOf[t]] # Never,
                      coveredFrom'[AccountOf[t]] <= storedOn[t],
                      storedOn[t] < lastSync'[ConnOf[AccountOf[t]]] - OverlapDays
               PROVE  t \in Ledger'
    BY CommitEffect DEF CursorCovers, Stored
  <1> DEFINE a == AccountOf[t]
             c == ConnOf[AccountOf[t]]
  <1>0. a \in Account /\ c \in Conn /\ Ledger \subseteq Ledger' /\ pc[j] # "idle"
    BY CommitEffect
  <1>1. CASE newSync[j][c] = Never
    <2>1. lastSync'[c] = lastSync[c] /\ coveredFrom'[a] = coveredFrom[a]
      BY <1>0, <1>1, CommitEffect
    <2> QED BY <1>0, <2>1 DEF Core, CursorCovers, Stored
  <1>2. CASE newSync[j][c] # Never
    <2>1. storedOn[t] < begun[j]
      <3>1. lastSync'[c] = newSync[j][c]
        BY <1>0, <1>2, CommitEffect
      <3>2. newSync[j][c] - OverlapDays <= begun[j] /\ newSync[j][c] \in Int
        BY <1>0, StampEarly
      <3> QED BY <3>1, <3>2, DaysAssumption DEF DaysAssumption
    <2>2. CASE coveredFrom[a] = Never
      BY <1>0, <1>2, <2>1, <2>2, CommitEffect, NewlyCovered
    <2>3. CASE coveredFrom[a] # Never
      <3>1. coveredFrom'[a] = coveredFrom[a]
        BY <1>0, <2>3, CommitEffect
      <3>2. CASE storedOn[t] < Settled(j, a)
        BY <1>0, <2>3, <3>1, <3>2 DEF Core, SkippedIsKnown
      <3>3. CASE ~(storedOn[t] < Settled(j, a))
        <4>1. a \in seen[j].linked
          BY <2>1, <3>3 DEF Settled
        <4>2. since[j][c] <= LatestSince(j, c)
          BY <1>0, <1>2, <4>1 DEF Core, StampKeeps
        <4>3. LatestSince(j, c) <= storedOn[t]
          <5>1. Settled(j, a) = LatestSince(j, c)
            BY <4>1 DEF Settled
          <5>2. LatestSince(j, c) \in Int
            BY <1>0, DaysAssumption DEF LatestSince, DaysAssumption
          <5> QED BY <3>3, <5>1, <5>2
        <4>4. since[j][c] <= storedOn[t]
          <5>1. LatestSince(j, c) \in Int /\ since[j][c] \in Int /\ storedOn[t] \in Int
            BY <1>0, DaysAssumption DEF LatestSince, DaysAssumption
          <5> QED BY <4>2, <4>3, <5>1
        <4>5. InWindow(j, c, t)
          BY <2>1, <4>1, <4>4 DEF InWindow
        <4> QED BY <1>0, <1>2, <4>5, CommitEffect DEF Core, StampKeeps
      <3> QED BY <3>2, <3>3
    <2> QED BY <2>2, <2>3
  <1> QED BY <1>1, <1>2

\* The other jobs, whose cursors are older or whose snapshots are, find it settled.
LEMMA CommitKeepsSkipped ==
  ASSUME CoreTypes, Core, NEW j \in Job, Commit(j)
  PROVE  SkippedIsKnown'
  <1> USE DEF CoreTypes
  <1> SUFFICES ASSUME NEW i \in Job, NEW t \in Tx, pc'[i] # "idle", storedOn[t] # Never,
                      coveredFrom'[AccountOf[t]] # Never,
                      coveredFrom'[AccountOf[t]] <= storedOn[t],
                      storedOn[t] < Settled(i, AccountOf[t])'
               PROVE  t \in Ledger'
    BY CommitEffect DEF SkippedIsKnown
  <1> DEFINE a == AccountOf[t]
             c == ConnOf[AccountOf[t]]
  <1>1. /\ i # j /\ pc[i] # "idle" /\ begun'[i] = begun[i] /\ seen'[i] = seen[i]
        /\ pc[j] # "idle" /\ a \in Account /\ c \in Conn
    BY CommitEffect, ForgetOwn
  <1>2. storedOn[t] < Settled(i, a)
    BY <1>1 DEF Settled, LatestSince
  <1>3. CASE coveredFrom[a] # Never
    <2>1. coveredFrom'[a] = coveredFrom[a]
      BY <1>1, <1>3, CommitEffect
    <2> QED BY <1>1, <1>2, <1>3, <2>1, CommitEffect DEF Core, SkippedIsKnown
  <1>4. CASE coveredFrom[a] = Never
    <2>1. /\ a \in vouched[j] /\ newSync[j][c] # Never
          /\ coveredFrom'[a] = since[j][c]
      BY <1>1, <1>4, CommitEffect
    <2>2. Settled(i, a) <= begun[j]
      <3>1. /\ begun[i] <= day /\ day <= begun[j] + MaxRunDays
            /\ seen[i].sync[c] <= begun[i]
        BY <1>1 DEF Core, JobPast
      <3>2. CASE a \in seen[i].linked
        BY <1>1, <3>1, <3>2, DaysAssumption DEF Settled, LatestSince, DaysAssumption
      <3>3. CASE a \notin seen[i].linked
        BY <1>1, <2>1, <3>3 DEF Core, LinkOrder, Settled
      <3> QED BY <3>2, <3>3
    <2>3. storedOn[t] < begun[j]
      <3>1. Settled(i, a) \in Int
        BY <1>1, DaysAssumption DEF Settled, LatestSince, DaysAssumption
      <3> QED BY <1>2, <2>2, <3>1
    <2> QED BY <1>1, <1>4, <2>1, <2>3, NewlyCovered
  <1> QED BY <1>3, <1>4

\* A commit keeps the invariant, part by part.
LEMMA CommitKeeps == ASSUME CoreTypes, Core, NEW j \in Job, Commit(j) PROVE Core'
  <1> USE DEF CoreTypes
  <1>1. pc[j] # "idle"
    BY CommitEffect
  <1>2. Past'
    <2> SUFFICES ASSUME NEW c \in Conn PROVE lastSync'[c] <= day
      BY CommitEffect DEF Core, Past
    <2>1. newSync[j][c] <= day /\ lastSync[c] <= day
      BY <1>1 DEF Core, JobPast, Past
    <2> QED BY <2>1, CommitEffect
  <1>3. CoveredIsLinked'
    <2> SUFFICES ASSUME NEW a \in Account, coveredFrom'[a] # Never
                 PROVE  a \in linked /\ lastSync'[ConnOf[a]] # Never
      BY CommitEffect DEF CoveredIsLinked
    <2>1. CASE coveredFrom'[a] = coveredFrom[a]
      BY <2>1, CommitEffect DEF Core, CoveredIsLinked
    <2>2. CASE a \in vouched[j] /\ newSync[j][ConnOf[a]] # Never
      BY <2>2, CommitEffect DEF Core, JobSaw
    <2> QED BY <2>1, <2>2, CommitEffect
  <1>4. JobPast' /\ JobSaw' /\ JobOnce' /\ LinkOrder' /\ LoopKeeps' /\ StampKeeps'
    BY CommitEffect, ForgetKeepsJobs
  <1> QED BY <1>2, <1>3, <1>4, CommitKeepsSkipped, CommitKeepsCursor DEF Core

\* Every step keeps the invariant.
LEMMA CoreStep == ASSUME CoreTypes, Core, [Next]_vars PROVE Core'
  <1>1. CASE SyncAllConnections
    <2>1. Eligible \in SUBSET Conn /\ Cron \in Job
      BY ShapeAssumption DEF ShapeAssumption, Eligible
    <2> QED BY <1>1, <2>1, BeginKeeps DEF SyncAllConnections
  <1>2. ASSUME NEW j \in Job, NEW c \in Conn, NEW ask \in BOOLEAN, SyncNow(j, c, ask)
        PROVE  Core'
    BY <1>2, BeginKeeps DEF SyncNow
  <1>3. ASSUME NEW j \in Job, JobStep(j) PROVE Core'
    <2>1. Work(j) \/ Commit(j)
      BY <1>3 DEF JobStep, Work
    <2> QED BY <2>1, WorkKeeps, CommitKeeps
  <1>4. ASSUME NEW j \in Job, KillWorker(j) PROVE Core'
    BY <1>4, KillKeeps
  <1>5. CASE Tick
    BY <1>5, TickKeeps
  <1>6. ASSUME NEW t \in Tx, Store(t) PROVE Core'
    BY <1>6, StoreKeeps
  <1>7. ASSUME NEW a \in Account, Link(a) \/ Unlink(a) PROVE Core'
    BY <1>7, LinkKeeps
  <1>8. CASE (\E t \in Tx : Book(t)) \/ (\E c \in Conn : Reconsent(c)) \/ UNCHANGED vars
    BY <1>8, IdleKeeps DEF Book, Reconsent, vars
  <1> QED BY <1>1, <1>2, <1>3, <1>4, <1>5, <1>6, <1>7, <1>8 DEF Next

\* The cursor of a connection never leaves a gap behind: for every number of jobs,
\* however they overlap, fail or die, and for every setting of the two windows that
\* DaysAssumption allows.
THEOREM CursorCorrect == Spec => []CursorCovers
  <1>1. Init => TypeOK /\ Core
    BY TypeInit, CoreInit
  <1>2. TypeOK /\ Core /\ [Next]_vars => (TypeOK /\ Core)'
    BY TypeStep, CoreStep, CoreTyping
  <1>3. Core => CursorCovers
    BY DEF Core
  <1> QED BY <1>1, <1>2, <1>3, PTL DEF Spec

----------------------------------------------------------------------------
(* BankFeed.                                                               *)

\* Given the unique index: what a job has written is delivered, missing in the
\* ledger, and written by no other job.
FeedInv ==
  /\ \A j \in Job : /\ batch[j] \subseteq Stored /\ inserted[j] \subseteq Stored
                    /\ inserted[j] \cap Ledger = {}
  /\ \A i, j \in Job : i # j => inserted[i] \cap inserted[j] = {}
  /\ NoDouble

\* An empty ledger and idle jobs fit BankFeed.
LEMMA FeedInit == Init => FeedInv
  BY DEF Init, FeedInv, NoDouble

\* A row is written for a transaction of the list that is neither in the ledger
\* nor in the hands of another job.
LEMMA FeedWrite ==
  ASSUME FeedInv, CoreTypes, UniqueIndex, NEW j \in Job, NEW t \in Tx,
         CreateBankTransaction(j, t) \/ SubmitFails(j, t)
  PROVE  FeedInv'
  <1>1. /\ t \in batch[j] /\ t \notin Ledger
        /\ \A i \in Job \ {j} : t \notin inserted[i]
        /\ UNCHANGED <<storedOn, rows>>
        /\ inserted'[j] = inserted[j] \cup {t}
        /\ \A i \in Job \ {j} : inserted'[i] = inserted[i]
        /\ \A i \in Job : batch'[i] \subseteq batch[i]
    <2>1. CASE CreateBankTransaction(j, t)
      BY <2>1 DEF CreateBankTransaction, Conflict, CoreTypes
    <2>2. CASE SubmitFails(j, t)
      BY <2>2 DEF SubmitFails, Abandon, Conflict, CoreTypes
    <2> QED BY <2>1, <2>2
  <1>2. Stored' = Stored /\ Ledger' = Ledger /\ NoDouble'
    BY <1>1 DEF FeedInv, Stored, Ledger, NoDouble
  <1>3. \A i \in Job : /\ batch'[i] \subseteq Stored' /\ inserted'[i] \subseteq Stored'
                       /\ inserted'[i] \cap Ledger' = {}
    <2> SUFFICES ASSUME NEW i \in Job
                 PROVE  /\ batch'[i] \subseteq Stored /\ inserted'[i] \subseteq Stored
                        /\ inserted'[i] \cap Ledger = {}
      BY <1>2
    <2>1. /\ batch[i] \subseteq Stored /\ inserted[i] \subseteq Stored
          /\ inserted[i] \cap Ledger = {} /\ batch[j] \subseteq Stored
      BY DEF FeedInv
    <2>2. batch'[i] \subseteq batch[i]
      BY <1>1
    <2>3. CASE i = j
      BY <1>1, <2>1, <2>2, <2>3
    <2>4. CASE i # j
      BY <1>1, <2>1, <2>2, <2>4
    <2> QED BY <2>3, <2>4
  <1>4. \A i, k \in Job : i # k => inserted'[i] \cap inserted'[k] = {}
    <2> SUFFICES ASSUME NEW i \in Job, NEW k \in Job, i # k
                 PROVE  inserted'[i] \cap inserted'[k] = {}
      OBVIOUS
    <2>1. inserted[i] \cap inserted[k] = {}
      BY DEF FeedInv
    <2>2. CASE i = j
      BY <1>1, <2>1, <2>2
    <2>3. CASE k = j
      BY <1>1, <2>1, <2>3
    <2>4. CASE i # j /\ k # j
      BY <1>1, <2>1, <2>4
    <2> QED BY <2>2, <2>3, <2>4
  <1> QED BY <1>2, <1>3, <1>4 DEF FeedInv

\* Every step keeps FeedInv and is a step of BankFeed or none.
LEMMA FeedStep ==
  ASSUME FeedInv, CoreTypes, UniqueIndex, [Next]_vars
  PROVE  FeedInv' /\ [Feed!Next]_(Feed!vars)
  <1> USE DEF CoreTypes
  <1>1. CASE /\ UNCHANGED <<storedOn, rows>>
             /\ \A i \in Job : inserted'[i] \subseteq inserted[i] /\ batch'[i] \subseteq batch[i]
    <2>1. FeedInv'
      BY <1>1 DEF FeedInv, Stored, Ledger, NoDouble
    <2>2. UNCHANGED Feed!vars
      BY <1>1 DEF Feed!vars, Stored
    <2> QED BY <2>1, <2>2
  <1>2. ASSUME NEW j \in Job, NEW t \in Tx, CreateBankTransaction(j, t) \/ SubmitFails(j, t)
        PROVE  FeedInv' /\ [Feed!Next]_(Feed!vars)
    <2>1. UNCHANGED <<storedOn, rows>>
      BY <1>2 DEF CreateBankTransaction, SubmitFails
    <2>2. UNCHANGED Feed!vars
      BY <2>1 DEF Feed!vars, Stored
    <2> QED BY <1>2, <2>2, FeedWrite
  <1>3. ASSUME NEW j \in Job, AskTransactions(j) \/ ReadTransactions(j)
        PROVE  FeedInv' /\ [Feed!Next]_(Feed!vars)
    <2>1. /\ UNCHANGED <<storedOn, rows, inserted>> /\ batch'[j] \subseteq Stored
          /\ \A i \in Job \ {j} : batch'[i] = batch[i]
      BY <1>3 DEF AskTransactions, ReadTransactions, Matching, FeedInv
    <2>2. UNCHANGED Feed!vars
      BY <2>1 DEF Feed!vars, Stored
    <2> QED BY <2>1, <2>2 DEF FeedInv, Stored, Ledger, NoDouble
  <1>4. ASSUME NEW t \in Tx, Store(t)
        PROVE  FeedInv' /\ [Feed!Next]_(Feed!vars)
    <2>1. /\ UNCHANGED <<rows, inserted, batch>> /\ Stored' = Stored \cup {t}
      BY <1>4 DEF Store, Stored, Never
    <2>2. FeedInv'
      BY <2>1 DEF FeedInv, Ledger, NoDouble
    <2>3. Feed!Deliver({t})
      BY <2>1 DEF Feed!Deliver
    <2> QED BY <2>2, <2>3 DEF Feed!Next
  <1>5. ASSUME NEW j \in Job, Commit(j)
        PROVE  FeedInv' /\ [Feed!Next]_(Feed!vars)
    <2>1. /\ storedOn' = storedOn
          /\ rows' = [t \in Tx |-> IF t \in inserted[j] THEN rows[t] + 1 ELSE rows[t]]
          /\ inserted'[j] = {} /\ \A i \in Job \ {j} : inserted'[i] = inserted[i]
          /\ batch'[j] = {} /\ \A i \in Job \ {j} : batch'[i] = batch[i]
      BY <1>5 DEF Commit, Forget
    <2>2. \A t \in inserted[j] : rows[t] = 0
      BY DEF FeedInv, Ledger
    <2>3. rows' = [t \in Tx |-> IF t \in inserted[j] THEN 1 ELSE rows[t]]
      BY <2>1, <2>2
    <2>4. Ledger' = Ledger \cup inserted[j]
      BY <2>3 DEF Ledger
    <2>5. FeedInv'
      <3>1. NoDouble'
        BY <2>3 DEF FeedInv, NoDouble
      <3>2. \A i \in Job : /\ batch'[i] \subseteq Stored' /\ inserted'[i] \subseteq Stored'
                           /\ inserted'[i] \cap Ledger' = {}
        BY <2>1, <2>4 DEF FeedInv, Stored
      <3> QED BY <2>1, <3>1, <3>2 DEF FeedInv
    <2>6. Feed!Import(inserted[j])
      BY <2>1, <2>2, <2>3 DEF Feed!Import, FeedInv, Stored
    <2> QED BY <2>5, <2>6 DEF Feed!Next
  <1>6. ASSUME NEW j \in Job, KillWorker(j)
        PROVE  FeedInv' /\ [Feed!Next]_(Feed!vars)
    <2>1. /\ UNCHANGED <<storedOn, rows>>
          /\ \A i \in Job : inserted'[i] \subseteq inserted[i] /\ batch'[i] \subseteq batch[i]
      BY <1>6 DEF KillWorker, Forget
    <2> QED BY <1>1, <2>1
  <1>7. ASSUME NEW j \in Job, NEW t \in Tx, SkipKnown(j, t) \/ InsertFails(j, t)
        PROVE  FeedInv' /\ [Feed!Next]_(Feed!vars)
    <2>1. /\ UNCHANGED <<storedOn, rows>>
          /\ \A i \in Job : inserted'[i] \subseteq inserted[i] /\ batch'[i] \subseteq batch[i]
      BY <1>7 DEF SkipKnown, InsertFails, Abandon
    <2> QED BY <1>1, <2>1
  <1>8. ASSUME NEW j \in Job,
               \/ NextConnection(j) \/ UpdateFetched(j) \/ UpdateChallenged(j)
               \/ UpdateRefused(j) \/ UpdateTimesOut(j) \/ CallFails(j)
               \/ ReadNothingLinked(j) \/ FinishSync(j)
        PROVE  FeedInv' /\ [Feed!Next]_(Feed!vars)
    <2>1. /\ UNCHANGED <<storedOn, rows>>
          /\ \A i \in Job : inserted'[i] \subseteq inserted[i] /\ batch'[i] \subseteq batch[i]
      BY <1>8 DEF NextConnection, UpdateFetched, UpdateChallenged, UpdateRefused, UpdateTimesOut,
                  CallFails, Abandon, ReadNothingLinked, FinishSync
    <2> QED BY <1>1, <2>1
  <1>9. CASE \/ SyncAllConnections
             \/ \E j \in Job, c \in Conn, ask \in BOOLEAN : SyncNow(j, c, ask)
             \/ Tick \/ (\E t \in Tx : Book(t)) \/ (\E a \in Account : Link(a) \/ Unlink(a))
             \/ (\E c \in Conn : Reconsent(c)) \/ UNCHANGED vars
    <2>1. UNCHANGED <<storedOn, rows, inserted, batch>>
      BY <1>9 DEF SyncAllConnections, SyncNow, Begin, Tick, Book, Link, Unlink, Reconsent, vars
    <2> QED BY <1>1, <2>1
  <1> QED BY <1>2, <1>3, <1>4, <1>5, <1>6, <1>7, <1>8, <1>9 DEF Next, JobStep

\* With the unique index of the Bank Transaction the jobs together implement
\* BankFeed, in particular no transaction is ever doubled.
THEOREM FeedRefinement == ASSUME UniqueIndex PROVE Spec => FeedSpec
  <1>1. Init => Feed!Init
    BY DEF Init, Feed!Init, Stored
  <1>2. Init => TypeOK /\ FeedInv
    BY TypeInit, FeedInit
  <1>3. TypeOK /\ FeedInv /\ [Next]_vars => (TypeOK /\ FeedInv)'
    BY TypeStep, FeedStep, CoreTyping
  <1>4. TypeOK /\ FeedInv /\ [Next]_vars => [Feed!Next]_(Feed!vars)
    BY FeedStep, CoreTyping
  <1> QED BY <1>1, <1>2, <1>3, <1>4, PTL DEF Spec, FeedSpec, Feed!Spec

\* create_bank_transaction never doubles a row, whatever overlaps or fails.
THEOREM NeverDoubled == ASSUME UniqueIndex PROVE Spec => []NoDouble
  <1>1. Init => TypeOK /\ FeedInv
    BY TypeInit, FeedInit
  <1>2. TypeOK /\ FeedInv /\ [Next]_vars => (TypeOK /\ FeedInv)'
    BY TypeStep, FeedStep, CoreTyping
  <1>3. FeedInv => NoDouble
    BY DEF FeedInv
  <1> QED BY <1>1, <1>2, <1>3, PTL DEF Spec

----------------------------------------------------------------------------
(* What a run writes about one connection, and syncs one at a time.        *)

\* A job has written nothing about a connection.
Pristine(j, c) ==
  newStatus[j][c] = Unwritten /\ newError[j][c] = Unwritten /\ newLog[j][c] = NoLog

\* The connection will be Connected, by the job or since its snapshot.
Back(j, c) ==
  \/ newStatus[j][c] = "Connected"
  \/ newStatus[j][c] = Unwritten /\ seen[j].status[c] = "Connected"

\* The snapshot showed no error, and the job has noted none.
Clear(j, c) == seen[j].error[c] = "none" /\ newStatus[j][c] # "Error"

\* Nothing is written ahead of the loop over the connections.
Ahead(j) ==
  /\ pc[j] = "idle" => todo[j] = {} /\ inserted[j] = {} /\ \A c \in Conn : Pristine(j, c)
  /\ \A c \in todo[j] : Pristine(j, c)
  /\ pc[j] = "update" => Pristine(j, conn[j]) /\ ~updated[j]
  /\ pc[j] \in {"update", "read", "reading", "create"} =>
       /\ conn[j] \notin todo[j] /\ newLog[j][conn[j]] = NoLog
       /\ newStatus[j][conn[j]] # "Error"

\* After stage one, the connection is back, or its document has an error.
AfterStageOne(j) ==
  pc[j] \in {"read", "reading", "create"} =>
    /\ updated[j] => Back(j, conn[j])
    /\ askBank[j] /\ ~updated[j] => newError[j][conn[j]] \notin {Unwritten, "none"}

CleanLog(log) ==
  log.status \in {"Success", "Partial"} /\ log.error = "none" /\ log.asked => log.fetched

\* What a run leaves about a connection fits together.
Told(j, c) ==
  /\ newStatus[j][c] = "Error" => newError[j][c] = "failed"
  /\ newError[j][c] = "none" => Back(j, c) \/ Clear(j, c)
  /\ CleanLog(newLog[j][c])
  /\ newLog[j][c].status = "Success" /\ newLog[j][c].fetched => Back(j, c)
  /\ newLog[j][c] = NoLog /\ newStatus[j][c] # Unwritten
       => pc[j] \in {"read", "reading", "create"} /\ conn[j] = c

Run(j) == Ahead(j) /\ AfterStageOne(j) /\ \A c \in Conn : Told(j, c)

RunInv == \A j \in Job : Run(j)

\* What is true of one job at a time.
Serial ==
  /\ \A i, j \in Job : pc[i] # "idle" /\ pc[j] # "idle" => i = j
  /\ \A j \in Job : pc[j] # "idle" =>
       /\ seen[j].known = Ledger
       /\ \A c \in Conn : /\ seen[j].status[c] = "Connected" => status[c] = "Connected"
                          /\ seen[j].error[c] = "none" => status[c] # "Error"
  /\ \A j \in Job : inserted[j] \cap Ledger = {}
  /\ NoDouble /\ SuccessRestoresSchedule /\ OffScheduleSaysWhy

\* The types these need.
RunTypes ==
  /\ pc \in [Job -> {"idle", "next", "update", "read", "reading", "create"}]
  /\ todo \in [Job -> SUBSET Conn] /\ conn \in [Job -> Conn]
  /\ askBank \in [Job -> BOOLEAN] /\ updated \in [Job -> BOOLEAN]
  /\ seen \in [Job -> Snapshots]
  /\ newStatus \in [Job -> [Conn -> Status \cup {Unwritten}]]
  /\ newError \in [Job -> [Conn -> Error \cup {Unwritten}]]
  /\ newLog \in [Job -> [Conn -> Log]] /\ inserted \in [Job -> SUBSET Tx]

\* A job of which nothing changed.
Same(i) ==
  /\ pc'[i] = pc[i] /\ todo'[i] = todo[i] /\ conn'[i] = conn[i]
  /\ askBank'[i] = askBank[i] /\ updated'[i] = updated[i] /\ seen'[i] = seen[i]
  /\ newStatus'[i] = newStatus[i] /\ newError'[i] = newError[i] /\ newLog'[i] = newLog[i]
  /\ inserted'[i] = inserted[i]

\* Its account stays.
LEMMA SameKeepsRun == ASSUME NEW i \in Job, Run(i), Same(i) PROVE Run(i)'
  BY DEF Run, Same, Ahead, AfterStageOne, Told, Back, Clear, Pristine

\* A step of a job changes no other.
LEMMA WorkIsOwn ==
  ASSUME RunTypes, NEW j \in Job, Work(j), NEW i \in Job, i # j PROVE Same(i)
  <1> USE DEF RunTypes, Same
  <1>1. CASE NextConnection(j)
    BY <1>1 DEF NextConnection
  <1>2. CASE UpdateFetched(j)
    BY <1>2 DEF UpdateFetched, SetStatus, SetError
  <1>3. CASE UpdateChallenged(j) \/ UpdateRefused(j)
    BY <1>3 DEF UpdateChallenged, UpdateRefused, SetStatus, SetError
  <1>4. CASE UpdateTimesOut(j) \/ CallFails(j)
    BY <1>4 DEF UpdateTimesOut, CallFails, Abandon, SetStatus, SetError, LogEntry
  <1>5. CASE ReadNothingLinked(j) \/ AskTransactions(j) \/ ReadTransactions(j)
    BY <1>5 DEF ReadNothingLinked, AskTransactions, ReadTransactions, SetError
  <1>6. CASE \E t \in Tx : SkipKnown(j, t) \/ CreateBankTransaction(j, t)
    BY <1>6 DEF SkipKnown, CreateBankTransaction
  <1>7. CASE \E t \in Tx : InsertFails(j, t) \/ SubmitFails(j, t)
    BY <1>7 DEF InsertFails, SubmitFails, Abandon, SetStatus, SetError, LogEntry
  <1>8. CASE FinishSync(j)
    BY <1>8 DEF FinishSync, SetError, LogEntry
  <1> QED BY <1>1, <1>2, <1>3, <1>4, <1>5, <1>6, <1>7, <1>8 DEF Work

\* A run that raised something leaves Error and its reason.
LEMMA AbandonKeepsRun ==
  ASSUME RunTypes, NEW j \in Job, Run(j), pc[j] \in {"update", "read", "reading", "create"}, Abandon(j)
  PROVE  Run(j)'
  <1> USE DEF RunTypes, Abandon, SetStatus, SetError, LogEntry
  <1>1. \A c \in Conn \ {conn[j]} : /\ newStatus'[j][c] = newStatus[j][c]
                                    /\ newError'[j][c] = newError[j][c]
                                    /\ newLog'[j][c] = newLog[j][c]
    OBVIOUS
  <1>2. /\ newStatus'[j][conn[j]] = "Error" /\ newError'[j][conn[j]] = "failed"
        /\ newLog'[j][conn[j]].status = "Error" /\ newLog'[j][conn[j]].error = "failed"
    OBVIOUS
  <1>3. pc'[j] = "next" /\ todo'[j] = todo[j] /\ seen'[j] = seen[j] /\ conn'[j] = conn[j]
    OBVIOUS
  <1>4. Ahead(j)'
    BY <1>1, <1>3 DEF Run, Ahead, Pristine
  <1>5. AfterStageOne(j)'
    BY <1>3 DEF AfterStageOne
  <1>6. ASSUME NEW c \in Conn PROVE Told(j, c)'
    <2>1. CASE c = conn[j]
      BY <1>2, <2>1 DEF Told, CleanLog, NoLog
    <2>2. CASE c # conn[j]
      BY <1>1, <1>3, <2>2 DEF Run, Told, Back, Clear
    <2> QED BY <2>1, <2>2
  <1> QED BY <1>4, <1>5, <1>6 DEF Run

\* A step of a run that writes no log keeps its account of the connections it is not at.
LEMMA OthersTold ==
  ASSUME NEW j \in Job, Run(j), NEW c \in Conn, c # conn[j],
         pc[j] \in {"update", "read", "reading", "create"},
         conn'[j] = conn[j], seen'[j] = seen[j],
         newStatus'[j][c] = newStatus[j][c], newError'[j][c] = newError[j][c],
         newLog'[j][c] = newLog[j][c]
  PROVE  Told(j, c)'
  BY DEF Run, Told, Back, Clear

\* Stage one.
LEMMA StageOneKeepsRun ==
  ASSUME RunTypes, NEW j \in Job, Run(j),
         UpdateFetched(j) \/ UpdateChallenged(j) \/ UpdateRefused(j)
  PROVE  Run(j)'
  <1> USE DEF RunTypes
  <1>0. conn[j] \in Conn /\ Pristine(j, conn[j]) /\ ~updated[j] /\ conn[j] \notin todo[j]
    BY DEF UpdateFetched, UpdateChallenged, UpdateRefused, Run, Ahead
  <1>1. /\ pc'[j] = "read" /\ UNCHANGED <<todo, conn, askBank, newLog, seen, inserted>>
        /\ pc[j] = "update"
    BY DEF UpdateFetched, UpdateChallenged, UpdateRefused
  <1>2. \A c \in Conn \ {conn[j]} : newStatus'[j][c] = newStatus[j][c] /\ newError'[j][c] = newError[j][c]
    <2>1. CASE UpdateFetched(j)
      BY <1>0, <2>1 DEF UpdateFetched, SetStatus, SetError
    <2>2. CASE UpdateChallenged(j)
      BY <1>0, <2>2 DEF UpdateChallenged, SetStatus, SetError
    <2>3. CASE UpdateRefused(j)
      BY <1>0, <2>3 DEF UpdateRefused, SetError
    <2> QED BY <2>1, <2>2, <2>3
  <1>3. \/ updated'[j] /\ newError'[j][conn[j]] = "none" /\ Back(j, conn[j])'
           /\ newStatus'[j][conn[j]] # "Error"
        \/ /\ newError'[j][conn[j]] \in {"TAN required", "refused"} /\ ~updated'[j]
           /\ newStatus'[j][conn[j]] # "Error"
    <2>1. CASE UpdateFetched(j)
      <3>1. updated'[j] /\ newError'[j][conn[j]] = "none" /\ seen'[j] = seen[j]
        BY <1>0, <2>1 DEF UpdateFetched, SetError
      <3>2. CASE DocStatus(j) # "Connected"
        BY <1>0, <1>1, <2>1, <3>1, <3>2 DEF UpdateFetched, SetStatus, Back
      <3>3. CASE DocStatus(j) = "Connected"
        BY <1>0, <1>1, <2>1, <3>1, <3>3 DEF UpdateFetched, DocStatus, Back, Pristine, Unwritten
      <3> QED BY <3>1, <3>2, <3>3 DEF Back, Unwritten
    <2>2. CASE UpdateChallenged(j)
      BY <1>0, <2>2 DEF UpdateChallenged, SetStatus, SetError
    <2>3. CASE UpdateRefused(j)
      BY <1>0, <2>3 DEF UpdateRefused, SetError, Pristine, Unwritten
    <2> QED BY <2>1, <2>2, <2>3
  <1>4. Ahead(j)'
    BY <1>0, <1>1, <1>2, <1>3 DEF Run, Ahead, Pristine
  <1>5. AfterStageOne(j)'
    BY <1>1, <1>3 DEF AfterStageOne, Unwritten
  <1>6. Told(j, conn[j])'
    <2>1. newLog'[j][conn[j]] = NoLog /\ conn'[j] = conn[j]
      BY <1>0, <1>1 DEF Pristine
    <2>2. CleanLog(NoLog) /\ NoLog.status # "Success"
      BY DEF CleanLog, NoLog
    <2> QED BY <1>1, <1>3, <2>1, <2>2 DEF Told, Back
  <1>7. \A c \in Conn \ {conn[j]} : Told(j, c)'
    BY <1>1, <1>2, OthersTold
  <1> QED BY <1>1, <1>4, <1>5, <1>6, <1>7 DEF Run

\* The read, and the loop over what it brought.
LEMMA ReadKeepsRun ==
  ASSUME RunTypes, NEW j \in Job, Run(j),
         ReadNothingLinked(j) \/ AskTransactions(j) \/ ReadTransactions(j)
           \/ \E t \in Tx : SkipKnown(j, t) \/ CreateBankTransaction(j, t)
  PROVE  Run(j)'
  <1> USE DEF RunTypes
  <1>1. /\ pc[j] \in {"read", "reading", "create"} /\ pc'[j] \in {"reading", "create"}
        /\ UNCHANGED <<todo, conn, askBank, updated, newStatus, newLog, seen>>
    BY DEF ReadNothingLinked, AskTransactions, ReadTransactions, SkipKnown,
              CreateBankTransaction
  <1>2. UNCHANGED newError \/ SetError(j, "nothing linked")
    BY DEF ReadNothingLinked, AskTransactions, ReadTransactions, SkipKnown,
              CreateBankTransaction
  <1>3. /\ conn[j] \in Conn /\ newError'[j][conn[j]] \in {newError[j][conn[j]], "nothing linked"}
        /\ \A c \in Conn \ {conn[j]} : newError'[j][c] = newError[j][c]
    <2>1. CASE UNCHANGED newError
      BY <2>1
    <2>2. CASE SetError(j, "nothing linked")
      BY <2>2 DEF SetError
    <2> QED BY <1>2, <2>1, <2>2
  <1>4. Ahead(j)'
    BY <1>1, <1>3 DEF Run, Ahead, Pristine
  <1>5. AfterStageOne(j)'
    BY <1>1, <1>3 DEF Run, AfterStageOne, Back, Unwritten
  <1>6. Told(j, conn[j])'
    BY <1>1, <1>3 DEF Run, Told, Ahead, Back, Clear
  <1>7. \A c \in Conn \ {conn[j]} : Told(j, c)'
    BY <1>1, <1>3, OthersTold
  <1> QED BY <1>1, <1>4, <1>5, <1>6, <1>7 DEF Run

\* The log of a run that raised nothing.
LEMMA FinishKeepsRun == ASSUME RunTypes, NEW j \in Job, Run(j), FinishSync(j) PROVE Run(j)'
  <1> USE DEF RunTypes
  <1>1. /\ pc[j] = "create" /\ pc'[j] = "next"
        /\ UNCHANGED <<todo, conn, askBank, updated, newStatus, seen, inserted>>
    BY DEF FinishSync
  <1>2. \A c \in Conn \ {conn[j]} : /\ newLog'[j][c] = newLog[j][c]
                                    /\ newError'[j][c] = newError[j][c]
    <2>1. \A c \in Conn \ {conn[j]} : newLog'[j][c] = newLog[j][c]
      BY DEF FinishSync, LogEntry
    <2>2. SetError(j, "none") \/ UNCHANGED newError
      BY DEF FinishSync
    <2>3. CASE SetError(j, "none")
      BY <2>1, <2>3 DEF SetError
    <2> QED BY <2>1, <2>2, <2>3
  <1>3. /\ newLog'[j][conn[j]].status \in {"Success", "Partial"}
        /\ newLog'[j][conn[j]].error = DocError(j)
        /\ newLog'[j][conn[j]].asked = askBank[j]
        /\ newLog'[j][conn[j]].fetched = updated[j]
    BY DEF FinishSync, LogEntry
  <1>8. \/ newError'[j][conn[j]] = newError[j][conn[j]]
        \/ newError'[j][conn[j]] = "none" /\ DocError(j) = "none"
    <2>1. (SetError(j, "none") /\ DocError(j) = "none") \/ UNCHANGED newError
      BY DEF FinishSync
    <2>2. CASE SetError(j, "none") /\ DocError(j) = "none"
      BY <2>2 DEF SetError
    <2> QED BY <2>1, <2>2
  <1>4. Ahead(j)'
    BY <1>1, <1>2 DEF Run, Ahead, Pristine
  <1>5. AfterStageOne(j)'
    BY <1>1 DEF AfterStageOne
  <1>6. Told(j, conn[j])'
    <2>1. newLog'[j][conn[j]] # NoLog
      BY <1>3 DEF NoLog
    <2>2. CleanLog(newLog'[j][conn[j]])
      BY <1>1, <1>3 DEF CleanLog, Run, AfterStageOne, DocError
    <2>3. newLog'[j][conn[j]].fetched => Back(j, conn[j])'
      BY <1>1, <1>3 DEF Run, AfterStageOne, Back
    <2>4. newStatus'[j][conn[j]] # "Error"
      BY <1>1 DEF Run, Ahead
    <2>5. newError'[j][conn[j]] = "none" => (Back(j, conn[j]) \/ Clear(j, conn[j]))'
      <3> SUFFICES ASSUME newError'[j][conn[j]] = "none" PROVE Back(j, conn[j]) \/ Clear(j, conn[j])
        BY <1>1 DEF Back, Clear
      <3>1. newError[j][conn[j]] = "none" \/ seen[j].error[conn[j]] = "none"
        BY <1>8 DEF DocError
      <3> QED BY <1>1, <2>4, <3>1 DEF Run, Told, Clear
    <2> QED BY <1>1, <2>1, <2>2, <2>3, <2>4, <2>5 DEF Run, Told, Back
  <1>7. \A c \in Conn \ {conn[j]} : Told(j, c)'
    BY <1>1, <1>2, OthersTold
  <1> QED BY <1>1, <1>4, <1>5, <1>6, <1>7 DEF Run

\* Every step of a job keeps its account.
LEMMA WorkKeepsRun == ASSUME RunTypes, NEW j \in Job, Run(j), Work(j) PROVE Run(j)'
  <1>1. CASE NextConnection(j)
    BY <1>1 DEF RunTypes, NextConnection, Run, Ahead, AfterStageOne, Told, Back, Clear, Pristine, Unwritten
  <1>2. CASE UpdateFetched(j) \/ UpdateChallenged(j) \/ UpdateRefused(j)
    BY <1>2, StageOneKeepsRun
  <1>3. CASE UpdateTimesOut(j) \/ CallFails(j)
    BY <1>3, AbandonKeepsRun DEF UpdateTimesOut, CallFails
  <1>4. CASE \E t \in Tx : InsertFails(j, t) \/ SubmitFails(j, t)
    BY <1>4, AbandonKeepsRun DEF InsertFails, SubmitFails
  <1>5. CASE FinishSync(j)
    BY <1>5, FinishKeepsRun
  <1> QED BY <1>1, <1>2, <1>3, <1>4, <1>5, ReadKeepsRun DEF Work

\* A slot that begins, or is given back, has written nothing.
Unused(j) ==
  /\ todo[j] \subseteq Conn /\ inserted[j] = {} /\ \A c \in Conn : Pristine(j, c)
  /\ pc[j] = "idle" => todo[j] = {}
  /\ pc[j] \in {"idle", "next"}

\* All is well with such a slot.
LEMMA UnusedRun == \A j \in Job : Unused(j) => Run(j)
  <1> SUFFICES ASSUME NEW j \in Job, Unused(j) PROVE Run(j)
    OBVIOUS
  <1>1. \A c \in Conn : newLog[j][c] = NoLog /\ newStatus[j][c] = Unwritten /\ newError[j][c] = Unwritten
    BY DEF Unused, Pristine
  <1>2. CleanLog(NoLog) /\ NoLog.status # "Success"
    BY DEF CleanLog, NoLog
  <1>3. Ahead(j) /\ AfterStageOne(j)
    BY DEF Unused, Ahead, AfterStageOne
  <1>4. \A c \in Conn : Told(j, c)
    BY <1>1, <1>2 DEF Told, Unwritten
  <1> QED BY <1>3, <1>4 DEF Run

\* The same after a step.
LEMMA UnusedRunNext == (\A j \in Job : Unused(j) => Run(j))'
  BY UnusedRun, PTL

\* The type invariant gives these types.
LEMMA RunTyping == TypeOK => RunTypes
  BY DEF TypeOK, RunTypes

\* No slot is used at the beginning.
LEMMA RunInit == Init => RunInv
  BY UnusedRun DEF Init, RunInv, Unused, Pristine

\* A job that begins.
LEMMA BeginKeepsRun ==
  ASSUME RunTypes, RunInv, NEW j \in Job, NEW conns \in SUBSET Conn, NEW ask, Begin(j, conns, ask)
  PROVE  RunInv'
  <1> USE DEF RunTypes
  <1>1. /\ pc'[j] = "next" /\ todo'[j] = conns
        /\ UNCHANGED <<newStatus, newError, newLog, inserted>> /\ pc[j] = "idle"
    BY DEF Begin
  <1>2. Unused(j)'
    BY <1>1 DEF RunInv, Run, Ahead, Pristine, Unused
  <1>3. Run(j)'
    BY <1>2, UnusedRunNext
  <1>4. ASSUME NEW i \in Job, i # j PROVE Run(i)'
    <2>1. Same(i)
      BY <1>4 DEF Begin, Same
    <2> QED BY <2>1, SameKeepsRun DEF RunInv
  <1> QED BY <1>3, <1>4 DEF RunInv

\* A slot that is given back.
LEMMA ForgetIsUnused ==
  ASSUME RunTypes, NEW j \in Job, Forget(j)
  PROVE  /\ Unused(j)' /\ pc'[j] = "idle"
         /\ \A i \in Job \ {j} : Same(i)
  BY DEF RunTypes, Forget, Unused, Pristine, Same

\* The account of the jobs survives that.
LEMMA ForgetKeepsRun == ASSUME RunTypes, RunInv, NEW j \in Job, Forget(j) PROVE RunInv'
  <1>1. Run(j)'
    BY ForgetIsUnused, UnusedRunNext
  <1>2. ASSUME NEW i \in Job, i # j PROVE Run(i)'
    BY <1>2, ForgetIsUnused, SameKeepsRun DEF RunInv
  <1> QED BY <1>1, <1>2 DEF RunInv

\* Steps outside the jobs.
Around ==
  \/ Tick \/ \E t \in Tx : Book(t) \/ Store(t)
  \/ \E a \in Account : Link(a) \/ Unlink(a)
  \/ \E c \in Conn : Reconsent(c)
  \/ UNCHANGED vars

\* They leave every job as it is, and the rows, the logs and all but the statuses of
\* those that are connected.
LEMMA AroundFrame ==
  ASSUME TypeOK, Around
  PROVE  /\ UNCHANGED <<pc, todo, conn, askBank, updated, seen, newStatus, newError, newLog,
                        inserted, rows, syncLog>>
         /\ \A c \in Conn : \/ status'[c] = status[c] /\ lastError'[c] = lastError[c]
                            \/ status'[c] = "Connected"
  <1>1. CASE Tick \/ \E t \in Tx : Book(t) \/ Store(t)
    BY <1>1 DEF Tick, Book, Store
  <1>2. CASE \E a \in Account : Link(a) \/ Unlink(a)
    BY <1>2 DEF Link, Unlink
  <1>3. ASSUME NEW d \in Conn, Reconsent(d) PROVE
              /\ UNCHANGED <<pc, todo, conn, askBank, updated, seen, newStatus, newError, newLog,
                             inserted, rows, syncLog>>
              /\ \A c \in Conn : \/ status'[c] = status[c] /\ lastError'[c] = lastError[c]
                                 \/ status'[c] = "Connected"
    BY <1>3 DEF Reconsent, TypeOK
  <1>4. CASE UNCHANGED vars
    BY <1>4 DEF vars
  <1> QED BY <1>1, <1>2, <1>3, <1>4 DEF Around

\* The kinds of steps there are.
LEMMA StepKinds ==
  ASSUME [Next]_vars
  PROVE  \/ \E j \in Job, conns \in SUBSET Conn, ask \in BOOLEAN : Begin(j, conns, ask)
         \/ \E j \in Job : Work(j) \/ Commit(j) \/ KillWorker(j)
         \/ Around
  <1>1. CASE SyncAllConnections
    BY <1>1, ShapeAssumption DEF SyncAllConnections, Eligible, ShapeAssumption
  <1>2. ASSUME NEW j \in Job, NEW c \in Conn, NEW ask \in BOOLEAN, SyncNow(j, c, ask)
        PROVE  \E i \in Job, conns \in SUBSET Conn, a \in BOOLEAN : Begin(i, conns, a)
    BY <1>2 DEF SyncNow
  <1>3. ASSUME NEW j \in Job, JobStep(j) PROVE Work(j) \/ Commit(j)
    BY <1>3 DEF JobStep, Work
  <1> QED BY <1>1, <1>2, <1>3 DEF Next, Around

\* Every step keeps what runs write about connections together.
LEMMA RunStep == ASSUME TypeOK, RunInv, [Next]_vars PROVE RunInv'
  <1>0. RunTypes
    BY RunTyping
  <1>1. ASSUME NEW j \in Job, NEW conns \in SUBSET Conn, NEW ask \in BOOLEAN, Begin(j, conns, ask)
        PROVE  RunInv'
    BY <1>0, <1>1, BeginKeepsRun
  <1>2. ASSUME NEW j \in Job, Work(j) PROVE RunInv'
    <2>1. Run(j)'
      BY <1>0, <1>2, WorkKeepsRun DEF RunInv
    <2>2. ASSUME NEW i \in Job, i # j PROVE Run(i)'
      BY <1>0, <1>2, <2>2, WorkIsOwn, SameKeepsRun DEF RunInv
    <2> QED BY <2>1, <2>2 DEF RunInv
  <1>3. ASSUME NEW j \in Job, Commit(j) \/ KillWorker(j) PROVE RunInv'
    BY <1>0, <1>3, ForgetKeepsRun DEF Commit, KillWorker
  <1>4. CASE Around
    <2>1. \A i \in Job : Same(i)
      BY <1>4, AroundFrame DEF Same
    <2> QED BY <2>1, SameKeepsRun DEF RunInv
  <1> QED BY <1>1, <1>2, <1>3, <1>4, StepKinds

\* What each step leaves of the logs: only a commit writes one.
LEMMA LogsStep ==
  ASSUME TypeOK, RunInv, CleanLogIsFresh, [Next]_vars PROVE CleanLogIsFresh'
  <1>0. CleanLogIsFresh = \A c \in Conn : CleanLog(syncLog[c])
    BY DEF CleanLogIsFresh, CleanLog
  <1>1. UNCHANGED syncLog \/ \E j \in Job : Commit(j)
    <2>1. ASSUME NEW j \in Job, Work(j) PROVE UNCHANGED syncLog
      BY <2>1 DEF Work, NextConnection, UpdateFetched, UpdateChallenged, UpdateRefused,
                  UpdateTimesOut, ReadNothingLinked, AskTransactions, ReadTransactions, CallFails, SkipKnown,
                  CreateBankTransaction, InsertFails, SubmitFails, FinishSync
    <2> QED BY <2>1, StepKinds, AroundFrame DEF Begin, KillWorker
  <1>2. CASE UNCHANGED syncLog
    BY <1>2 DEF CleanLogIsFresh
  <1>3. ASSUME NEW j \in Job, Commit(j) PROVE CleanLogIsFresh'
    <2>1. \A c \in Conn : syncLog'[c] \in {syncLog[c], newLog[j][c]}
      BY <1>3 DEF Commit
    <2>2. \A c \in Conn : CleanLog(syncLog[c]) /\ CleanLog(newLog[j][c])
      BY <1>0 DEF RunInv, Run, Told
    <2>3. ASSUME NEW c \in Conn PROVE CleanLog(syncLog'[c])
      BY <2>1, <2>2
    <2> QED BY <2>3 DEF CleanLogIsFresh, CleanLog
  <1> QED BY <1>1, <1>2, <1>3

\* However syncs overlap, fail or die, a log without an error after the bank was
\* asked means that the bank delivered.
THEOREM CleanLogs == Spec => []CleanLogIsFresh
  <1>1. Init => TypeOK /\ RunInv /\ CleanLogIsFresh
    <2>1. Init => CleanLogIsFresh
      BY DEF Init, CleanLogIsFresh, NoLog
    <2> QED BY <2>1, TypeInit, RunInit
  <1>2. TypeOK /\ RunInv /\ CleanLogIsFresh /\ [Next]_vars => (TypeOK /\ RunInv /\ CleanLogIsFresh)'
    BY TypeStep, RunStep, LogsStep
  <1> QED BY <1>1, <1>2, PTL DEF Spec

----------------------------------------------------------------------------
(* One worker: what is true of syncs one at a time.                        *)

\* Nothing has been synced at the beginning.
LEMMA SerialInit == Init => Serial
  <1> SUFFICES ASSUME Init PROVE Serial
    OBVIOUS
  <1>1. Ledger = {} /\ NoDouble
    BY DEF Init, Ledger, NoDouble
  <1>2. SuccessRestoresSchedule /\ OffScheduleSaysWhy
    BY DEF Init, SuccessRestoresSchedule, OffScheduleSaysWhy
  <1>3. \A j \in Job : pc[j] = "idle" /\ inserted[j] = {}
    BY DEF Init
  <1> QED BY <1>1, <1>2, <1>3 DEF Serial

\* With one worker, a job begins when no other is active.
LEMMA BeginAlone ==
  ASSUME Workers = 1, Serial, NEW j \in Job, NEW conns, NEW ask, Begin(j, conns, ask)
  PROVE  \A i \in Job : pc[i] = "idle"
  <1> SUFFICES ASSUME NEW i \in Job, pc[i] # "idle" PROVE FALSE
    OBVIOUS
  <1>1. Active = {i}
    BY DEF Serial, Active
  <1>2. Cardinality(Active) = 1
    BY <1>1, FS_Singleton
  <1> QED BY <1>2 DEF Begin

\* It sees the database as it is.
LEMMA BeginKeepsSerial ==
  ASSUME Workers = 1, TypeOK, Serial, NEW j \in Job, NEW conns \in SUBSET Conn, NEW ask \in BOOLEAN,
         Begin(j, conns, ask)
  PROVE  Serial'
  <1>1. /\ \A i \in Job : pc[i] = "idle"
        /\ \A i \in Job \ {j} : pc'[i] = pc[i]
        /\ seen'[j].known = Ledger /\ seen'[j].status = status /\ seen'[j].error = lastError
        /\ UNCHANGED <<status, lastError, syncLog, rows, inserted>>
    BY BeginAlone DEF Begin, TypeOK, Snapshot
  <1>2. Ledger' = Ledger
    BY <1>1 DEF Ledger
  <1>3. (NoDouble /\ SuccessRestoresSchedule /\ OffScheduleSaysWhy)'
    BY <1>1 DEF Serial, NoDouble, SuccessRestoresSchedule, OffScheduleSaysWhy
  <1>4. \A c \in Conn : lastError[c] = "none" => status[c] # "Error"
    BY DEF Serial, OffScheduleSaysWhy
  <1> QED BY <1>1, <1>2, <1>3, <1>4 DEF Serial

\* A working job adds to what it will insert, and to nothing that others see.
LEMMA WorkInserts ==
  ASSUME TypeOK, NEW j \in Job, Work(j)
  PROVE  /\ UNCHANGED <<status, lastError, syncLog, rows, seen>>
         /\ \A i \in Job : pc'[i] # "idle" => pc[i] # "idle"
         /\ \A i \in Job : \A t \in inserted'[i] :
              t \in inserted[i] \/ (i = j /\ t \notin seen[j].known)
  <1> USE DEF TypeOK
  <1>1. CASE NextConnection(j)
    BY <1>1 DEF NextConnection
  <1>2. CASE UpdateFetched(j)
    BY <1>2 DEF UpdateFetched
  <1>3. CASE UpdateChallenged(j) \/ UpdateRefused(j)
    BY <1>3 DEF UpdateChallenged, UpdateRefused
  <1>4. CASE UpdateTimesOut(j) \/ CallFails(j)
    BY <1>4 DEF UpdateTimesOut, CallFails, Abandon
  <1>5. CASE ReadNothingLinked(j) \/ AskTransactions(j) \/ ReadTransactions(j)
    BY <1>5 DEF ReadNothingLinked, AskTransactions, ReadTransactions
  <1>6. CASE \E t \in Tx : SkipKnown(j, t) \/ CreateBankTransaction(j, t)
    BY <1>6 DEF SkipKnown, CreateBankTransaction, Known
  <1>7. CASE \E t \in Tx : InsertFails(j, t)
    BY <1>7 DEF InsertFails, Abandon
  <1>9. ASSUME NEW t \in Tx, SubmitFails(j, t)
        PROVE  /\ UNCHANGED <<status, lastError, syncLog, rows, seen>>
               /\ \A i \in Job : pc'[i] # "idle" => pc[i] # "idle"
               /\ \A i \in Job : \A u \in inserted'[i] :
                    u \in inserted[i] \/ (i = j /\ u \notin seen[j].known)
    <2>1. /\ UNCHANGED <<status, lastError, syncLog, rows, seen>>
          /\ \A i \in Job : pc'[i] # "idle" => pc[i] # "idle"
      BY <1>9 DEF SubmitFails, Abandon
    <2>2. t \notin seen[j].known /\ inserted' = [inserted EXCEPT ![j] = @ \cup {t}]
      BY <1>9 DEF SubmitFails, Known
    <2> QED BY <2>1, <2>2
  <1>8. CASE FinishSync(j)
    BY <1>8 DEF FinishSync
  <1> QED BY <1>1, <1>2, <1>3, <1>4, <1>5, <1>6, <1>7, <1>8, <1>9 DEF Work

\* So nothing it writes was in its snapshot, which is the ledger.
LEMMA WorkKeepsSerial ==
  ASSUME TypeOK, Serial, NEW j \in Job, Work(j) PROVE Serial'
  <1>1. Ledger' = Ledger
    BY WorkInserts DEF Ledger
  <1>2. pc[j] # "idle"
    BY CoreTyping, WorkFrame
  <1>3. (NoDouble /\ SuccessRestoresSchedule /\ OffScheduleSaysWhy)'
    BY WorkInserts DEF Serial, NoDouble, SuccessRestoresSchedule, OffScheduleSaysWhy
  <1>4. \A i \in Job : (inserted[i] \cap Ledger)' = {}
    BY <1>1, <1>2, WorkInserts DEF Serial
  <1>5. \A i \in Job : pc'[i] # "idle" =>
          /\ seen'[i].known = Ledger'
          /\ \A c \in Conn : /\ seen'[i].status[c] = "Connected" => status'[c] = "Connected"
                             /\ seen'[i].error[c] = "none" => status'[c] # "Error"
    BY <1>1, WorkInserts DEF Serial
  <1>6. \A i, k \in Job : pc'[i] # "idle" /\ pc'[k] # "idle" => i = k
    BY WorkInserts DEF Serial
  <1> QED BY <1>3, <1>4, <1>5, <1>6 DEF Serial

\* A slot given back by the only job: nobody has seen anything.
LEMMA ForgetKeepsAlone ==
  ASSUME TypeOK, Serial, NEW j \in Job, pc[j] # "idle", Forget(j)
  PROVE  \A i \in Job : pc'[i] = "idle"
  BY DEF TypeOK, Serial, Forget

\* What the only job commits.
LEMMA CommitKeepsSerial ==
  ASSUME TypeOK, RunInv, Serial, NEW j \in Job, Commit(j) PROVE Serial'
  <1>1. pc[j] = "next" /\ Forget(j)
    BY DEF Commit
  <1>2. \A i \in Job : pc'[i] = "idle"
    BY <1>1, ForgetKeepsAlone
  <1>3. \A i \in Job : inserted'[i] = {}
    <2>1. ASSUME NEW i \in Job, i # j PROVE inserted[i] = {}
      BY <1>1, <2>1 DEF Serial, RunInv, Run, Ahead
    <2> QED BY <1>1, <2>1 DEF Forget, TypeOK
  <1>4. NoDouble'
    <2>1. \A t \in Tx : t \in inserted[j] => rows[t] = 0
      BY DEF Serial, Ledger, TypeOK
    <2> QED BY <2>1 DEF Commit, Serial, NoDouble, TypeOK
  <1>9. ASSUME NEW c \in Conn PROVE Told(j, c)
    BY DEF RunInv, Run
  <1>5. ASSUME NEW c \in Conn
        PROVE  /\ newLog[j][c] = NoLog => newStatus[j][c] = Unwritten
               /\ seen[j].status[c] = "Connected" => status[c] = "Connected"
               /\ seen[j].error[c] = "none" => status[c] # "Error"
    <2>2. newLog[j][c] = NoLog => newStatus[j][c] = Unwritten
      BY <1>1, <1>9 DEF Told
    <2>3. seen[j].status[c] = "Connected" => status[c] = "Connected"
      BY <1>1, <1>5 DEF Serial
    <2>4. seen[j].error[c] = "none" => status[c] # "Error"
      BY <1>1, <1>5 DEF Serial
    <2> QED BY <2>2, <2>3, <2>4
  <1>6. ASSUME NEW c \in Conn, Back(j, c) PROVE status'[c] = "Connected"
    BY <1>5, <1>6 DEF Commit, Back, Unwritten
  <1>7. SuccessRestoresSchedule'
    <2> SUFFICES ASSUME NEW c \in Conn, syncLog'[c].status = "Success", syncLog'[c].fetched
                 PROVE  status'[c] = "Connected"
      BY DEF SuccessRestoresSchedule
    <2>1. CASE newLog[j][c] = NoLog
      BY <1>5, <2>1 DEF Commit, Serial, SuccessRestoresSchedule
    <2>2. CASE newLog[j][c] # NoLog
      BY <1>6, <1>9, <2>2 DEF Commit, Told
    <2> QED BY <2>1, <2>2
  <1>8. OffScheduleSaysWhy'
    <2> SUFFICES ASSUME NEW c \in Conn, status'[c] = "Error", lastError'[c] = "none"
                 PROVE  FALSE
      BY DEF OffScheduleSaysWhy
    <2>1. ~Back(j, c)
      BY <1>6
    <2>4. ~Clear(j, c)
      BY <1>5 DEF Commit, Clear
    <2>2. newError[j][c] = Unwritten /\ lastError[c] = "none"
      BY <1>9, <2>1, <2>4 DEF Commit, Told, Unwritten
    <2>3. newStatus[j][c] = Unwritten /\ status[c] = "Error"
      BY <1>9, <2>2 DEF Commit, Told, Unwritten
    <2> QED BY <2>2, <2>3 DEF Serial, OffScheduleSaysWhy
  <1> QED BY <1>2, <1>3, <1>4, <1>7, <1>8 DEF Serial

\* What a killed job wrote is gone.
LEMMA KillKeepsSerial ==
  ASSUME TypeOK, RunInv, Serial, NEW j \in Job, KillWorker(j) PROVE Serial'
  <1>1. pc[j] # "idle" /\ Forget(j) /\ UNCHANGED <<status, lastError, syncLog, rows>>
    BY DEF KillWorker, Active
  <1>2. \A i \in Job : pc'[i] = "idle"
    BY <1>1, ForgetKeepsAlone
  <1>3. \A i \in Job : inserted'[i] = {}
    <2>1. ASSUME NEW i \in Job, i # j PROVE inserted[i] = {}
      BY <1>1, <2>1 DEF Serial, RunInv, Run, Ahead
    <2> QED BY <1>1, <2>1 DEF Forget, TypeOK
  <1>4. (NoDouble /\ SuccessRestoresSchedule /\ OffScheduleSaysWhy)'
    BY <1>1 DEF Serial, NoDouble, SuccessRestoresSchedule, OffScheduleSaysWhy
  <1> QED BY <1>2, <1>3, <1>4 DEF Serial

\* People only bring a status back to Connected.
LEMMA AroundKeepsSerial == ASSUME TypeOK, Serial, Around PROVE Serial'
  <1>1. Ledger' = Ledger
    BY AroundFrame DEF Ledger
  <1>2. NoDouble' /\ SuccessRestoresSchedule' /\ OffScheduleSaysWhy'
    BY AroundFrame DEF Serial, NoDouble, SuccessRestoresSchedule, OffScheduleSaysWhy
  <1>3. \A i \in Job : pc'[i] # "idle" =>
          /\ seen'[i].known = Ledger'
          /\ \A c \in Conn : /\ seen'[i].status[c] = "Connected" => status'[c] = "Connected"
                             /\ seen'[i].error[c] = "none" => status'[c] # "Error"
    BY <1>1, AroundFrame DEF Serial
  <1>4. /\ \A i, k \in Job : pc'[i] # "idle" /\ pc'[k] # "idle" => i = k
        /\ \A i \in Job : (inserted[i] \cap Ledger)' = {}
    BY <1>1, AroundFrame DEF Serial
  <1> QED BY <1>2, <1>3, <1>4 DEF Serial

\* Every step.
LEMMA SerialStep == ASSUME Workers = 1, TypeOK, RunInv, Serial, [Next]_vars PROVE Serial'
  BY StepKinds, BeginKeepsSerial, WorkKeepsSerial, CommitKeepsSerial, KillKeepsSerial,
     AroundKeepsSerial

SerialInv == TypeOK /\ RunInv /\ Serial

\* For every instance with one worker.
LEMMA SerialHolds == ASSUME Workers = 1 PROVE Spec => []SerialInv
  <1>1. Init => SerialInv
    BY TypeInit, RunInit, SerialInit DEF SerialInv
  <1>2. SerialInv /\ [Next]_vars => SerialInv'
    BY TypeStep, RunStep, SerialStep DEF SerialInv
  <1> QED BY <1>1, <1>2, PTL DEF Spec

\* With one worker, a sync that asked the bank and succeeded leaves its connection where
\* the scheduler goes on with it.
THEOREM SuccessRestores == ASSUME Workers = 1 PROVE Spec => []SuccessRestoresSchedule
  <1>1. SerialInv => SuccessRestoresSchedule
    BY DEF SerialInv, Serial
  <1> QED BY <1>1, SerialHolds, PTL

\* With one worker, a connection in Error has its reason noted.
THEOREM ErrorsAreExplained == ASSUME Workers = 1 PROVE Spec => []OffScheduleSaysWhy
  <1>1. SerialInv => OffScheduleSaysWhy
    BY DEF SerialInv, Serial
  <1> QED BY <1>1, SerialHolds, PTL

\* With one worker, the exists() test is enough against doubled rows, index or not.
THEOREM ExistsTestSuffices == ASSUME Workers = 1 PROVE Spec => []NoDouble
  <1>1. SerialInv => NoDouble
    BY DEF SerialInv, Serial
  <1> QED BY <1>1, SerialHolds, PTL
=============================================================================
