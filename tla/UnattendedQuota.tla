--------------------------- MODULE UnattendedQuota ---------------------------
(***************************************************************************)
(* The PSD2 quota of one connection: the cron instants of hooks.py, the    *)
(* queue that delays their jobs, and Sync Now, whose job carries the PSU   *)
(* metadata of the web request that asked for it.  Time goes on for ever:  *)
(* of the past, only the unattended updates of the last 24 hours are kept. *)
(* Counted are the updates of the schedule and of Sync Now; what a         *)
(* developer runs from a console (sync_now_foreground), which has no       *)
(* request either, comes on top and is not here.                           *)
(***************************************************************************)
EXTENDS Naturals, FiniteSets

CONSTANTS
  HoursPerDay,         \* 24
  CronHours,           \* hooks.py: 7, 11, 15, 19
  MaxDelay             \* bound: hours a job waits for a worker

\* From one hour to the next time that it is another.
HoursBetween(g, h) == IF g < h THEN h - g ELSE h - g + HoursPerDay

\* A cron job is run before the next one is due.
ASSUME QuotaAssumption ==
  /\ HoursPerDay \in Nat \ {0} /\ MaxDelay \in Nat
  /\ CronHours \subseteq 0 .. HoursPerDay - 1
  /\ \A g, h \in CronHours : MaxDelay < HoursBetween(g, h)

Quota == 4             \* PSD2_UNATTENDED_UPDATES_PER_DAY

VARIABLES
  hour,                \* the time of day
  waiting,             \* the hours the cron job in the queue has waited; {} without one
  asked,               \* Sync Now's jobs in the queue: do they carry PSU headers?
  recent               \* unattended updates of the last 24 hours: age, and was it late?

quotaVars == <<hour, waiting, asked, recent>>

QuotaInit == hour = 0 /\ waiting = {} /\ asked = {} /\ recent = {}

\* The request's metadata: there is none outside a web request.
PsuHeaders(inRequest) == inRequest

\* Slip: sync_now leaves it to the job to ask for the headers.
CapturedByWorker == PsuHeaders(FALSE)

Captured == PsuHeaders(TRUE)

\* A person asks; the job is queued with the headers of the request.
AskSync ==
  /\ asked' = asked \cup {Captured}
  /\ UNCHANGED <<hour, waiting, recent>>

Update(attended, late) ==
  recent' = IF attended THEN recent ELSE recent \cup {[age |-> 0, late |-> late]}

RunAsked ==
  /\ \E headers \in asked : asked' = asked \ {headers} /\ Update(headers, FALSE)
  /\ UNCHANGED <<hour, waiting>>

\* The scheduled run has no request.
RunCron ==
  /\ \E delay \in waiting : Update(PsuHeaders(FALSE), delay > 0)
  /\ waiting' = {}
  /\ UNCHANGED <<hour, asked>>

Due(h) == h \in CronHours

NextHour ==
  /\ MaxDelay \notin waiting
  /\ hour' = IF hour = HoursPerDay - 1 THEN 0 ELSE hour + 1
  /\ waiting' = {delay + 1 : delay \in waiting} \cup {d \in {0} : Due(hour')}
  /\ recent' = {[r EXCEPT !.age = @ + 1] : r \in {q \in recent : q.age < HoursPerDay - 1}}
  /\ UNCHANGED asked

QuotaNext == AskSync \/ RunAsked \/ RunCron \/ NextHour

QuotaSpec == QuotaInit /\ [][QuotaNext]_quotaVars

----------------------------------------------------------------------------
(* Properties.                                                             *)

QuotaTypeOK ==
  /\ hour \in 0 .. HoursPerDay - 1 /\ waiting \subseteq 0 .. MaxDelay /\ Cardinality(waiting) <= 1
  /\ asked \subseteq BOOLEAN
  /\ recent \subseteq [age : 0 .. HoursPerDay - 1, late : BOOLEAN]

\* "unattended updates are capped at 4 per 24h and connection": whatever people ask
\* for on the form, no 24 hours see more from the schedule, but for one more if a job
\* among them was late (an evening run that slips counts towards the next day's four).
QuotaKept ==
  Cardinality(recent) <= Quota + IF \E r \in recent : r.late THEN 1 ELSE 0

=============================================================================
