-------------------------- MODULE TransactionPages --------------------------
(***************************************************************************)
(* FinApiClient.get_transactions: all matching transactions, page by page, *)
(* while finAPI stores new ones and may take some away.  Nothing is known  *)
(* of finAPI's order: a new transaction comes in anywhere.  The caller,    *)
(* TransactionSync, goes by what TransactionRead promises of the answer.   *)
(***************************************************************************)
EXTENDS Naturals, FiniteSets

CONSTANTS
  Tx,                  \* transactions that match the query
  PerPage,             \* page size in force: the smaller of per_page and finAPI's
  MaxPages             \* argument max_pages

ASSUME PagesAssumption == PerPage \in Nat \ {0} /\ MaxPages \in Nat \ {0}

VARIABLES
  size, list,          \* finAPI: how many match, and in which order
  pc,                  \* "idle", "reading" or "done"
  page, transactions,  \* the loop of the code, its result
  held,                \* history: what matched when the read began
  gone,                \* history: what finAPI took away since, which does not come back
  garbled              \* history: a page of this read was no JSON

vars == <<size, list, pc, page, transactions, held, gone, garbled>>

Positions == 1 .. size
Held == {list[i] : i \in Positions}

Init ==
  /\ size = 0 /\ list = <<>>
  /\ pc = "idle" /\ page = 1 /\ transactions = {} /\ held = {}
  /\ gone = {} /\ garbled = FALSE

\* finAPI stores a transaction; those behind it move on by one place.
Insert(t, k) ==
  /\ t \notin Held \cup gone
  /\ size' = size + 1
  /\ list' = [i \in 1 .. size + 1 |-> IF i < k THEN list[i]
                                      ELSE IF i = k THEN t ELSE list[i - 1]]
  /\ UNCHANGED <<pc, page, transactions, held, gone, garbled>>

\* finAPI deletes or merges the one at k; those behind it move up by one place.
Remove(k) ==
  /\ size' = size - 1
  /\ list' = [i \in 1 .. size - 1 |-> IF i < k THEN list[i] ELSE list[i + 1]]
  /\ gone' = IF pc = "idle" THEN gone ELSE gone \cup {list[k]}
  /\ UNCHANGED <<pc, page, transactions, held, garbled>>

Begin ==
  /\ pc = "idle"
  /\ pc' = "reading" /\ page' = 1 /\ transactions' = {} /\ held' = Held
  /\ UNCHANGED <<size, list, gone, garbled>>

\* Slip: a page is one transaction short.
OnShortPage(p) == {i \in Positions : (p - 1) * PerPage < i /\ i < p * PerPage}

\* Positions of a page.
OnPage(p) == {i \in Positions : (p - 1) * PerPage < i /\ i <= p * PerPage}

\* Slip: the last page does not count unless it is full.
IsRoundedDown(n, count) == count * PerPage <= n /\ n < (count + 1) * PerPage

\* What finAPI answers as pageCount for n transactions.
IsPageCount(n, count) == n <= count * PerPage /\ (count = 0 \/ (count - 1) * PerPage < n)

\* Slip: the guard against endless paging is missing.
IsLastUnguarded(batch, count) == page >= count \/ batch = {}

\* The loop ends with the last page, an empty one, or the guard.
IsLast(batch, count) == page >= count \/ batch = {} \/ page = MaxPages

\* A pageCount of 0 counts as 1.
ReadPage ==
  /\ pc = "reading"
  /\ LET batch == {list[i] : i \in OnPage(page)}
     IN \E count \in 0 .. size :
          /\ IsPageCount(size, count)
          /\ transactions' = transactions \cup batch
          /\ IF IsLast(batch, IF count = 0 THEN 1 ELSE count)
             THEN pc' = "done" /\ UNCHANGED page
             ELSE page' = page + 1 /\ UNCHANGED pc
  /\ UNCHANGED <<size, list, held, gone, garbled>>

\* Status 2xx with a body that is no JSON: an empty page, and there are no others.
GarbledPage ==
  /\ pc = "reading"
  /\ pc' = "done" /\ garbled' = TRUE
  /\ UNCHANGED <<size, list, page, transactions, held, gone>>

Forgotten == transactions' = {} /\ page' = 1 /\ held' = {} /\ gone' = {} /\ garbled' = FALSE

\* Slip: a failure ends the loop, and what was read so far is returned.
CallEndsEarly ==
  /\ pc = "reading" /\ pc' = "done"
  /\ UNCHANGED <<size, list, page, transactions, held, gone, garbled>>

\* Any failure raises, and what was read so far is gone with it.
CallFails ==
  /\ pc = "reading" /\ pc' = "idle" /\ Forgotten
  /\ UNCHANGED <<size, list>>

\* The caller has the result.
Return ==
  /\ pc = "done" /\ pc' = "idle" /\ Forgotten
  /\ UNCHANGED <<size, list>>

Next ==
  \/ \E t \in Tx, k \in 1 .. size + 1 : Insert(t, k)
  \/ \E k \in Positions : Remove(k)
  \/ Begin \/ ReadPage \/ GarbledPage \/ CallFails \/ Return

Spec == Init /\ [][Next]_vars

----------------------------------------------------------------------------
(* Properties.                                                             *)

\* Sizes, positions and pages are numbers, the list is one of transactions.
TypeOK ==
  /\ size \in Nat /\ list \in [Positions -> Tx]
  /\ pc \in {"idle", "reading", "done"}
  /\ page \in 1 .. MaxPages
  /\ transactions \in SUBSET Tx /\ held \in SUBSET Tx
  /\ gone \in SUBSET Tx /\ garbled \in BOOLEAN

\* Up to max_pages pages, a read returns whatever matched when it began, although
\* the pages move under it: new transactions repeat old ones and hide none.  This is
\* as long as finAPI takes none away and answers no page with something else.
ReadIsComplete ==
  pc = "done" /\ size <= MaxPages * PerPage /\ gone = {} /\ ~garbled
    => held \subseteq transactions

\* Each one that finAPI takes away moves the pages up and hides at most one other: the
\* read misses no more of what is still there.
MissesAtMostRemoved ==
  pc = "done" /\ size + Cardinality(gone) <= MaxPages * PerPage /\ ~garbled
    => Cardinality((held \cap Held) \ transactions) <= Cardinality(gone)

Read == INSTANCE TransactionRead
          WITH there <- Held, state <- pc, Limit <- MaxPages * PerPage,
               answer <- IF pc = "done" THEN transactions ELSE {}

\* The loop over moving pages is one answer to one question: it makes nothing up, hands
\* on no part of a read that failed, and misses no more than TransactionRead allows.
ReadSpec == Read!Spec

=============================================================================
