--------------------------- MODULE TransactionRead ---------------------------
(***************************************************************************)
(* What get_transactions promises its caller, however finAPI cuts its      *)
(* answer into pages: one answer about the time from the call to the       *)
(* return, during which finAPI stores transactions and takes some away.    *)
(***************************************************************************)
EXTENDS Naturals, FiniteSets

CONSTANTS
  Tx,                  \* transactions that match the query
  Limit                \* how many can be read at all

VARIABLES
  there,               \* what matches at finAPI
  state,               \* of the read: "idle", "reading" or "done"
  answer,              \* what the caller gets
  held, gone,          \* what matched at the call; what finAPI took away since
  garbled              \* finAPI answered with something else

vars == <<there, state, answer, held, gone, garbled>>

Init ==
  /\ there = {} /\ state = "idle" /\ answer = {}
  /\ held = {} /\ gone = {} /\ garbled = FALSE

\* finAPI stores a transaction.
Arrive(t) ==
  /\ t \notin there \cup gone
  /\ there' = there \cup {t}
  /\ UNCHANGED <<state, answer, held, gone, garbled>>

\* finAPI deletes or merges one.
TakeAway(t) ==
  /\ t \in there
  /\ there' = there \ {t}
  /\ gone' = IF state = "idle" THEN gone ELSE gone \cup {t}
  /\ UNCHANGED <<state, answer, held, garbled>>

Call ==
  /\ state = "idle" /\ state' = "reading" /\ held' = there
  /\ UNCHANGED <<there, answer, gone, garbled>>

\* Nothing is made up, and of what matched all the time at most one is missed for each
\* that was taken away.  Of transactions that came in meanwhile, any may be in it.
Answer ==
  /\ state = "reading" /\ state' = "done"
  /\ answer' \in SUBSET (there \cup gone)
  /\ garbled' \in BOOLEAN
  /\ ~garbled' /\ Cardinality(there) + Cardinality(gone) <= Limit
     => Cardinality((held \cap there) \ answer') <= Cardinality(gone)
  /\ UNCHANGED <<there, held, gone>>

\* The caller has the answer, or an exception and no part of one.
End ==
  /\ state # "idle" /\ state' = "idle"
  /\ answer' = {} /\ held' = {} /\ gone' = {} /\ garbled' = FALSE
  /\ UNCHANGED there

Next ==
  \/ \E t \in Tx : Arrive(t) \/ TakeAway(t)
  \/ Call \/ Answer \/ End

Spec == Init /\ [][Next]_vars
=============================================================================
