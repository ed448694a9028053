-------------------------- MODULE FinApiClientProofs --------------------------
(***************************************************************************)
(* Proofs about the client: what its callers make of each answer, and how  *)
(* often a connection is updated unattended.                               *)
(***************************************************************************)
EXTENDS FinApiClient, UnattendedQuota, FiniteSetTheorems, TLAPS

----------------------------------------------------------------------------
(* What the clauses of the callers make of each exception.                 *)

Exceptions == {"Timeout", "AttributeError", "ScaChallengeRequired", "FinApiAuthError",
               "FinApiError", "none"}

\* _request raises nothing else; of a challenge with an answer in it, that; and of an
\* error that finAPI or a gateway answers, a FinApiError.
LEMMA ExceptionsOfRequest ==
  ASSUME NEW r \in Reply \cup {NoReply}, NEW sca \in BOOLEAN
  PROVE  /\ Exception(r, sca) \in Exceptions
         /\ r # NoReply /\ sca /\ r.status = "510" /\ r.body # "list"
              => Exception(r, sca) = "ScaChallengeRequired"
         /\ r # NoReply /\ r.status # "2xx" /\ r.body # "list"
              => Is(Exception(r, sca), "FinApiError")
  BY DEF Exception, Parsed, Exceptions, Reply, HttpStatus, ReplyBody, Is

\* Nor does _token.
LEMMA ExceptionsOfToken ==
  ASSUME NEW r \in Reply \cup {NoReply}
  PROVE  /\ TokenException(r) \in Exceptions
         /\ r # NoReply /\ r.status # "2xx" /\ r.body # "list"
              => Is(TokenException(r), "FinApiError")
  BY DEF TokenException, Exception, Parsed, Exceptions, Reply, HttpStatus, ReplyBody, Is

\* Of two clauses, the first that takes an exception handles it.
LEMMA HandledByTwo ==
  ASSUME NEW a, NEW b, NEW exception
  PROVE  Handled(<<a, b>>, exception) =
           IF Is(exception, a.class) THEN a.result
           ELSE IF Is(exception, b.class) THEN b.result ELSE "raised"
<1> DEFINE takers == {i \in DOMAIN <<a, b>> : Is(exception, <<a, b>>[i].class)}
<1>1. takers = {i \in {1, 2} : IF i = 1 THEN Is(exception, a.class) ELSE Is(exception, b.class)}
  OBVIOUS
<1>2. Handled(<<a, b>>, exception) =
        IF takers = {} THEN "raised"
        ELSE <<a, b>>[CHOOSE i \in takers : \A k \in takers : i <= k].result
  BY DEF Handled
<1> HIDE DEF takers
<1>3. CASE Is(exception, a.class)
  <2>1. 1 \in takers /\ takers \subseteq {1, 2}
    BY <1>1, <1>3
  <2> DEFINE first == CHOOSE i \in takers : \A k \in takers : i <= k
  <2>2. \E i \in takers : \A k \in takers : i <= k
    BY <2>1
  <2>3. first \in takers /\ \A k \in takers : first <= k
    BY <2>2
  <2> HIDE DEF first
  <2>4. first = 1
    BY <2>1, <2>3
  <2>5. Handled(<<a, b>>, exception) = <<a, b>>[first].result
    BY <1>2, <2>1 DEF first
  <2> QED BY <1>3, <2>4, <2>5
<1>4. CASE ~Is(exception, a.class) /\ Is(exception, b.class)
  <2>1. takers = {2}
    BY <1>1, <1>4
  <2> QED BY <1>2, <1>4, <2>1
<1>5. CASE ~Is(exception, a.class) /\ ~Is(exception, b.class)
  <2>1. takers = {}
    BY <1>1, <1>5
  <2> QED BY <1>2, <1>5, <2>1
<1> QED BY <1>3, <1>4, <1>5

\* Only Test Connection handles what the token raises.
LEMMA HandledToken ==
  ASSUME NEW exception
  PROVE  Handled(TokenHandlers, exception) =
           IF caller = "test" /\ Is(exception, "FinApiError") THEN "reported" ELSE "raised"
<1>1. CASE caller # "test"
  <2>1. TokenHandlers = <<>>
    BY <1>1 DEF TokenHandlers
  <2>2. {i \in DOMAIN <<>> : Is(exception, <<>>[i].class)} = {}
    OBVIOUS
  <2> QED BY <1>1, <2>1, <2>2 DEF Handled
<1>2. CASE caller = "test"
  <2> DEFINE h == [class |-> "FinApiError", result |-> "reported"]
             takers == {i \in DOMAIN <<h>> : Is(exception, <<h>>[i].class)}
  <2>1. takers = IF Is(exception, "FinApiError") THEN {1} ELSE {}
    OBVIOUS
  <2>2. Handled(<<h>>, exception) =
          IF takers = {} THEN "raised"
          ELSE <<h>>[CHOOSE i \in takers : \A k \in takers : i <= k].result
    BY DEF Handled
  <2>3. <<h>>[1].result = "reported"
    OBVIOUS
  <2> HIDE DEF takers, h
  <2>4. Handled(<<h>>, exception) = IF Is(exception, "FinApiError") THEN "reported" ELSE "raised"
    BY <2>1, <2>2, <2>3
  <2> QED BY <1>2, <2>4 DEF TokenHandlers, h
<1> QED BY <1>1, <1>2

\* What stage one and a step of a flow make of an exception.
LEMMA HandledCalls ==
  ASSUME NEW exception
  PROVE  /\ Handled(UpdateHandlers, exception) =
              IF Is(exception, "ScaChallengeRequired") THEN "challenged"
              ELSE IF Is(exception, "FinApiError") THEN "refused" ELSE "raised"
         /\ Handled(SendHandlers, exception) =
              IF Is(exception, "ScaChallengeRequired") THEN "challenged" ELSE "raised"
<1>1. UpdateHandlers = <<Challenged, Refused>>
  BY DEF UpdateHandlers
<1>2. SendHandlers = <<Challenged, [class |-> "Exception", result |-> "raised"]>>
  BY DEF SendHandlers
<1> QED BY <1>1, <1>2, HandledByTwo DEF Challenged, Refused

----------------------------------------------------------------------------
(* The calls.                                                              *)

ClientInv == ClientTypeOK /\ ChallengeGoesOn /\ ErrorsAreRecorded

\* Every step keeps the types and what is promised of each reply.
LEMMA ClientStep == ClientInv /\ [ClientNext]_clientVars => ClientInv'
<1> SUFFICES ASSUME ClientInv, [ClientNext]_clientVars PROVE ClientInv'
  OBVIOUS
<1> USE DEF ClientInv, ClientTypeOK, ChallengeGoesOn, ErrorsAreRecorded
<1>1. CASE StageOne \/ TestConnection \/ StartFlow \/ NextStep
  BY <1>1 DEF StageOne, TestConnection, StartFlow, NextStep, Ask
<1>2. CASE DropFlow
  BY <1>2 DEF DropFlow
<1>3. ASSUME NEW r \in Reply \cup {NoReply}, TokenAnswered(r) PROVE ClientInv'
  BY <1>3, ExceptionsOfToken, HandledToken DEF TokenAnswered, Replied
<1>4. ASSUME NEW r \in Reply \cup {NoReply}, Updated(r) PROVE ClientInv'
  <2>1. Exception(r, TRUE) = "none" => ~(r.status = "510" /\ r.body # "list") \/ r = NoReply
    BY ExceptionsOfRequest
  <2>2. result' = IF Exception(r, TRUE) = "none" THEN "fetched"
                  ELSE IF Is(Exception(r, TRUE), "ScaChallengeRequired") THEN "challenged"
                  ELSE IF Is(Exception(r, TRUE), "FinApiError") THEN "refused" ELSE "raised"
    BY <1>4, HandledCalls DEF Updated
  <2>3. /\ r # NoReply /\ r.status = "510" /\ r.body # "list"
             => Exception(r, TRUE) = "ScaChallengeRequired"
        /\ r # NoReply /\ r.status # "2xx" /\ r.body # "list"
              => Is(Exception(r, TRUE), "FinApiError")
    BY ExceptionsOfRequest
  <2>4. Is("ScaChallengeRequired", "ScaChallengeRequired") /\ "ScaChallengeRequired" # "none"
    BY DEF Is
  <2> QED BY <1>4, <2>2, <2>3, <2>4 DEF Updated, Replied
<1>5. ASSUME NEW r \in Reply \cup {NoReply}, Sent(r) PROVE ClientInv'
  <2>1. result' = IF Exception(r, TRUE) = "none"
                  THEN IF r.body \in {"list", "null"} THEN "raised" ELSE "completed"
                  ELSE IF Is(Exception(r, TRUE), "ScaChallengeRequired") THEN "challenged"
                  ELSE "raised"
    BY <1>5, HandledCalls DEF Sent
  <2>2. r # NoReply /\ r.status = "510" /\ r.body # "list"
          => Exception(r, TRUE) = "ScaChallengeRequired"
    BY ExceptionsOfRequest
  <2>3. Is("ScaChallengeRequired", "ScaChallengeRequired") /\ "ScaChallengeRequired" # "none"
    BY DEF Is
  <2> QED BY <1>5, <2>1, <2>2, <2>3 DEF Sent, Replied, HasChallenge
<1>6. CASE UNCHANGED clientVars
  BY <1>6 DEF clientVars
<1> QED BY <1>1, <1>2, <1>3, <1>4, <1>5, <1>6 DEF ClientNext

\* No call has been made.
LEMMA ClientInvInit == ClientInit => ClientInv
  BY DEF ClientInit, ClientInv, ClientTypeOK, ChallengeGoesOn, ErrorsAreRecorded

\* Whatever is answered, callers, replies and results have their types.
THEOREM ClientTypeCorrect == ClientSpec => []ClientTypeOK
<1>1. ClientInv => ClientTypeOK
  BY DEF ClientInv
<1> QED BY <1>1, ClientInvInit, ClientStep, PTL DEF ClientSpec

\* Wherever finAPI puts its challenge, a sync goes on and a flow can answer it.
THEOREM ChallengesGoOn == ClientSpec => []ChallengeGoesOn
<1>1. ClientInv => ChallengeGoesOn
  BY DEF ClientInv
<1> QED BY <1>1, ClientInvInit, ClientStep, PTL DEF ClientSpec

\* No error that is answered to stage one or to Test Connection raises.
THEOREM ErrorsStayRecorded == ClientSpec => []ErrorsAreRecorded
<1>1. ClientInv => ErrorsAreRecorded
  BY DEF ClientInv
<1> QED BY <1>1, ClientInvInit, ClientStep, PTL DEF ClientSpec

----------------------------------------------------------------------------
(* The quota: every unattended update is of an hour of the schedule.       *)

\* The time of day, some hours ago.
HoursAgo(x) == IF x <= hour THEN hour - x
               ELSE IF x <= hour + HoursPerDay THEN hour - x + HoursPerDay
               ELSE hour - x + 2 * HoursPerDay

\* The cron job of which an update of this age is was due so long ago.
WasDue(x, age) == x \in age .. age + MaxDelay /\ HoursAgo(x) \in CronHours

\* Sync Now's jobs carry headers.
AskedIsAttended == asked \subseteq {TRUE}

\* A cron job in the queue has waited since its hour.
WaitingWasDue ==
  /\ \A d, e \in waiting : d = e
  /\ \A d \in waiting : WasDue(d, 0)

\* Every update is of a cron job, and late when that was due in an earlier hour.
RecentWasDue ==
  \A r \in recent : \E x \in Nat : WasDue(x, r.age) /\ (r.late <=> x # r.age)

\* No cron job is run twice, and the one in the queue was not run yet.
RunOnce ==
  \A r \in recent, x \in Nat : WasDue(x, r.age) =>
    /\ x \notin waiting
    /\ \A s \in recent : WasDue(x, s.age) => r = s

QuotaTypes ==
  /\ hour \in 0 .. HoursPerDay - 1 /\ waiting \subseteq 0 .. MaxDelay
  /\ recent \subseteq [age : 0 .. HoursPerDay - 1, late : BOOLEAN]

QuotaInv == QuotaTypes /\ AskedIsAttended /\ WaitingWasDue /\ RecentWasDue /\ RunOnce

\* A schedule with an hour has delays of less than a day.
LEMMA DelayIsShort == CronHours # {} => MaxDelay < HoursPerDay
<1> SUFFICES ASSUME NEW h \in CronHours PROVE MaxDelay < HoursPerDay
  OBVIOUS
<1>1. MaxDelay < HoursBetween(h, h) /\ h \in 0 .. HoursPerDay - 1
  BY QuotaAssumption
<1> QED BY <1>1, QuotaAssumption DEF HoursBetween

\* Between two hours of the schedule there is more than the longest delay.
LEMMA ScheduleGap ==
  ASSUME hour \in 0 .. HoursPerDay - 1,
         NEW x \in 0 .. 2 * HoursPerDay - 1, NEW y \in 0 .. 2 * HoursPerDay - 1, x < y,
         HoursAgo(x) \in CronHours, HoursAgo(y) \in CronHours
  PROVE  MaxDelay < y - x
<1>1. MaxDelay < HoursBetween(HoursAgo(y), HoursAgo(x)) /\ MaxDelay < HoursPerDay
  BY QuotaAssumption, DelayIsShort
<1> QED BY <1>1, QuotaAssumption DEF HoursAgo, HoursBetween

\* An update is of one cron job.
LEMMA DueIsUnique ==
  ASSUME QuotaTypes, NEW age \in 0 .. HoursPerDay - 1, NEW x \in Nat, NEW y \in Nat,
         WasDue(x, age), WasDue(y, age)
  PROVE  x = y
<1>1. MaxDelay < HoursPerDay
  BY DelayIsShort DEF WasDue
<1>2. x \in 0 .. 2 * HoursPerDay - 1 /\ y \in 0 .. 2 * HoursPerDay - 1
  BY <1>1, QuotaAssumption DEF WasDue
<1>3. ~(x < y) /\ ~(y < x)
  BY <1>2, ScheduleGap, QuotaAssumption DEF WasDue, QuotaTypes
<1> QED BY <1>3

\* Nothing has happened in the beginning.
LEMMA QuotaInvInit == QuotaInit => QuotaInv
  BY QuotaAssumption
  DEF QuotaInit, QuotaInv, QuotaTypes, AskedIsAttended, WaitingWasDue, RecentWasDue, RunOnce

\* The next hour takes everything an hour further back.
LEMMA NextHourKeeps == ASSUME QuotaInv, NextHour PROVE QuotaInv'
<1> USE QuotaAssumption DEF QuotaInv, QuotaTypes
<1>1. hour' \in 0 .. HoursPerDay - 1
  BY DEF NextHour
<1>2. ASSUME NEW x \in 0 .. 2 * HoursPerDay - 1 PROVE HoursAgo(x + 1)' = HoursAgo(x)
  BY <1>2 DEF NextHour, HoursAgo
<1>3. waiting' = {d + 1 : d \in waiting} \cup {d \in {0} : Due(hour')} /\ waiting' \subseteq 0 .. MaxDelay
  BY DEF NextHour
<1>4. recent' = {[r EXCEPT !.age = @ + 1] : r \in {q \in recent : q.age < HoursPerDay - 1}}
  BY DEF NextHour
<1>5. recent' \subseteq [age : 0 .. HoursPerDay - 1, late : BOOLEAN]
  BY <1>4
<1>6. ASSUME NEW r \in recent'
      PROVE  \E q \in recent : /\ q.age < HoursPerDay - 1 /\ r.age = q.age + 1
                               /\ r.late = q.late /\ r = [q EXCEPT !.age = @ + 1]
  BY <1>4, <1>6
<1>7. \A age \in Nat, x \in Nat : WasDue(x, age) => MaxDelay < HoursPerDay
  BY DelayIsShort DEF WasDue
<1>8. ASSUME NEW age \in 0 .. HoursPerDay - 2, NEW x \in Nat
      PROVE  WasDue(x + 1, age + 1)' <=> WasDue(x, age)
  <2>1. CASE x \in age .. age + MaxDelay /\ MaxDelay < HoursPerDay
    <3>1. x \in 0 .. 2 * HoursPerDay - 1
      BY <2>1
    <3> QED BY <1>2, <2>1, <3>1 DEF WasDue
  <2>2. CASE ~(x \in age .. age + MaxDelay)
    BY <2>2 DEF WasDue
  <2>3. CASE CronHours = {}
    BY <2>3 DEF WasDue
  <2> QED BY <2>1, <2>2, <2>3, DelayIsShort
<1>9. AskedIsAttended'
  BY DEF NextHour, AskedIsAttended
<1>10. WaitingWasDue'
  <2>1. ASSUME NEW d \in waiting PROVE WasDue(d + 1, 0)' /\ ~Due(hour')
    <3>1. WasDue(d, 0) /\ d # MaxDelay /\ MaxDelay < HoursPerDay /\ d \in 0 .. MaxDelay
      BY <2>1, DelayIsShort DEF WaitingWasDue, WasDue, NextHour
    <3>2. HoursAgo(d + 1)' \in CronHours /\ d + 1 \in 0 .. MaxDelay
      BY <1>2, <3>1 DEF WasDue
    <3>4. hour' \notin CronHours
      <4>1. SUFFICES ASSUME hour' \in CronHours PROVE FALSE
        OBVIOUS
      <4>2. MaxDelay < HoursBetween(HoursAgo(d + 1)', hour')
        BY <3>2, <4>1
      <4> QED BY <3>1, <4>2 DEF NextHour, HoursAgo, HoursBetween
    <3> QED BY <3>2, <3>4 DEF WasDue, Due
  <2>2. Due(hour') => WasDue(0, 0)'
    BY <1>1 DEF Due, WasDue, HoursAgo
  <2> QED BY <1>3, <2>1, <2>2 DEF WaitingWasDue
<1>11. RecentWasDue'
  <2> SUFFICES ASSUME NEW r \in recent'
               PROVE  \E x \in Nat : WasDue(x, r.age)' /\ (r.late <=> x # r.age)
    BY DEF RecentWasDue
  <2>1. PICK q \in recent : q.age < HoursPerDay - 1 /\ r.age = q.age + 1 /\ r.late = q.late
    BY <1>6
  <2>2. PICK x \in Nat : WasDue(x, q.age) /\ (q.late <=> x # q.age)
    BY DEF RecentWasDue
  <2>3. q.age \in 0 .. HoursPerDay - 2
    BY <2>1
  <2> QED BY <1>8, <2>1, <2>2, <2>3
<1>12. RunOnce'
  <2> SUFFICES ASSUME NEW r \in recent', NEW x \in Nat, WasDue(x, r.age)'
               PROVE  /\ x \notin waiting'
                      /\ \A s \in recent' : WasDue(x, s.age)' => r = s
    BY DEF RunOnce
  <2>1. PICK q \in recent : q.age \in 0 .. HoursPerDay - 2 /\ r.age = q.age + 1
                            /\ r = [q EXCEPT !.age = @ + 1]
    BY <1>6
  <2>2. x - 1 \in Nat /\ x = (x - 1) + 1
    BY <2>1 DEF WasDue
  <2>3. WasDue(x - 1, q.age)
    BY <1>8, <2>1, <2>2
  <2>4. x \notin waiting'
    BY <1>3, <2>2, <2>3 DEF RunOnce
  <2>5. ASSUME NEW s \in recent', WasDue(x, s.age)' PROVE r = s
    <3>1. PICK p \in recent : p.age \in 0 .. HoursPerDay - 2 /\ s.age = p.age + 1
                              /\ s = [p EXCEPT !.age = @ + 1]
      BY <1>6
    <3>2. WasDue(x - 1, p.age)
      BY <1>8, <2>2, <2>5, <3>1
    <3> QED BY <2>1, <2>2, <2>3, <3>1, <3>2 DEF RunOnce
  <2> QED BY <2>4, <2>5
<1> QED BY <1>1, <1>3, <1>5, <1>9, <1>10, <1>11, <1>12

\* The scheduled run is the only unattended one.
LEMMA RunCronKeeps == ASSUME QuotaInv, RunCron PROVE QuotaInv'
<1> USE QuotaAssumption DEF QuotaInv, QuotaTypes
<1>1. PICK d \in waiting : recent' = recent \cup {[age |-> 0, late |-> d > 0]}
  BY DEF RunCron, Update, PsuHeaders
<1>2. waiting' = {} /\ UNCHANGED <<hour, asked>> /\ WasDue(d, 0) /\ d \in Nat
  BY DEF RunCron, WaitingWasDue
<1> DEFINE new == [age |-> 0, late |-> d > 0]
<1>3. \A x, age : WasDue(x, age)' <=> WasDue(x, age)
  BY <1>2 DEF WasDue, HoursAgo
<1>4. new.age = 0 /\ (new.late <=> d # 0) /\ new \in [age : 0 .. HoursPerDay - 1, late : BOOLEAN]
  <2>1. (d > 0) <=> d # 0
    BY <1>2
  <2>2. 0 \in 0 .. HoursPerDay - 1 /\ (d > 0) \in BOOLEAN
    OBVIOUS
  <2> QED BY <2>1, <2>2, Zenon
<1> HIDE DEF new
<1>5. RecentWasDue'
  BY <1>1, <1>2, <1>3, <1>4 DEF RecentWasDue, new
<1>6. ASSUME NEW x \in Nat, WasDue(x, new.age) PROVE \A s \in recent : ~WasDue(x, s.age)
  <2>1. x = d
    BY <1>2, <1>4, <1>6, DueIsUnique
  <2> QED BY <2>1 DEF RunOnce
<1>7. RunOnce'
  BY <1>1, <1>2, <1>3, <1>6 DEF RunOnce, new
<1> QED BY <1>1, <1>2, <1>4, <1>5, <1>7 DEF AskedIsAttended, WaitingWasDue, new

\* Every step keeps the books.
LEMMA QuotaInvStep == QuotaInv /\ [QuotaNext]_quotaVars => QuotaInv'
<1> SUFFICES ASSUME QuotaInv, [QuotaNext]_quotaVars PROVE QuotaInv'
  OBVIOUS
<1>1. ASSUME AskSync \/ RunAsked PROVE QuotaInv'
  <2>1. UNCHANGED <<hour, waiting, recent>>
    BY <1>1 DEF AskSync, RunAsked, Update, QuotaInv, AskedIsAttended
  <2>2. AskedIsAttended'
    BY <1>1 DEF AskSync, RunAsked, Captured, PsuHeaders, QuotaInv, AskedIsAttended
  <2> QED BY <2>1, <2>2 DEF QuotaInv, QuotaTypes, WaitingWasDue, RecentWasDue, RunOnce, WasDue,
                            HoursAgo
<1>2. CASE UNCHANGED quotaVars
  BY <1>2 DEF quotaVars, QuotaInv, QuotaTypes, AskedIsAttended, WaitingWasDue, RecentWasDue,
              RunOnce, WasDue, HoursAgo
<1> QED BY <1>1, <1>2, NextHourKeeps, RunCronKeeps DEF QuotaNext

\* The hour, the queue and the updates have their types.
THEOREM QuotaTypeCorrect == QuotaSpec => []QuotaTypeOK
<1>1. QuotaInv => QuotaTypeOK
  <2> SUFFICES ASSUME QuotaInv PROVE QuotaTypeOK
    OBVIOUS
  <2>1. Cardinality(waiting) <= 1
    <3>1. CASE waiting = {}
      BY <3>1, FS_EmptySet
    <3>2. ASSUME NEW d \in waiting PROVE Cardinality(waiting) <= 1
      <4>1. waiting = {d}
        BY <3>2 DEF QuotaInv, WaitingWasDue
      <4> QED BY <4>1, FS_Singleton
    <3> QED BY <3>1, <3>2
  <2> QED BY <2>1 DEF QuotaInv, QuotaTypes, AskedIsAttended, QuotaTypeOK
<1> QED BY <1>1, QuotaInvInit, QuotaInvStep, PTL DEF QuotaSpec

\* A day has no more updates that were due in it than the schedule has hours, and one
\* more at most, which is late.
LEMMA UpdatesBounded ==
  ASSUME QuotaInv
  PROVE  /\ Cardinality(recent) \in Nat /\ Cardinality(CronHours) \in Nat
         /\ Cardinality(recent) <= Cardinality(CronHours) + 1
         /\ (\A r \in recent : ~r.late) => Cardinality(recent) <= Cardinality(CronHours)
<1> USE QuotaAssumption DEF QuotaInv, QuotaTypes
<1> DEFINE due == [r \in recent |-> CHOOSE x \in Nat : WasDue(x, r.age) /\ (r.late <=> x # r.age)]
           today == {r \in recent : due[r] < HoursPerDay}
           before == recent \ today
           hourOf == [r \in today |-> HoursAgo(due[r])]
<1>1. ASSUME NEW r \in recent
      PROVE  /\ due[r] \in Nat /\ WasDue(due[r], r.age) /\ (r.late <=> due[r] # r.age)
             /\ MaxDelay < HoursPerDay /\ due[r] < HoursPerDay + MaxDelay
             /\ due[r] \in 0 .. 2 * HoursPerDay - 1 /\ HoursAgo(due[r]) \in CronHours
  <2>1. due[r] \in Nat /\ WasDue(due[r], r.age) /\ (r.late <=> due[r] # r.age)
    BY DEF RecentWasDue
  <2>2. MaxDelay < HoursPerDay
    BY <2>1, DelayIsShort DEF WasDue
  <2>3. r.age \in 0 .. HoursPerDay - 1
    OBVIOUS
  <2> QED BY <2>1, <2>2, <2>3 DEF WasDue
<1> HIDE DEF due
<1>2. IsFiniteSet(CronHours) /\ Cardinality(CronHours) \in Nat
  <2>1. IsFiniteSet(0 .. HoursPerDay - 1)
    BY FS_Interval
  <2> QED BY <2>1, FS_Subset, FS_CardinalityType
<1>3. IsFiniteSet(today) /\ Cardinality(today) <= Cardinality(CronHours)
  <2>1. hourOf \in [today -> CronHours]
    BY <1>1
  <2>2. ASSUME NEW r \in today, NEW s \in today, hourOf[r] = hourOf[s] PROVE r = s
    <3>1. HoursAgo(due[r]) = HoursAgo(due[s]) /\ due[r] < HoursPerDay /\ due[s] < HoursPerDay
      BY <2>2
    <3>2. due[r] = due[s]
      BY <1>1, <3>1 DEF HoursAgo
    <3> QED BY <1>1, <3>2 DEF RunOnce
  <2>3. hourOf \in Injection(today, CronHours)
    BY <2>1, <2>2 DEF Injection, IsInjective
  <2> HIDE DEF hourOf, today
  <2> QED BY <1>2, <2>3, FS_Injection
<1>4. ASSUME NEW r \in before, NEW s \in before PROVE r = s
  <2>1. ~(due[r] < due[s]) /\ ~(due[s] < due[r])
    BY <1>1, ScheduleGap
  <2>2. due[r] = due[s]
    BY <1>1, <2>1
  <2> QED BY <1>1, <2>2 DEF RunOnce
<1>5. \A r \in before : r.late
  BY <1>1
<1>6. recent = today \cup before
  OBVIOUS
<1>7. Cardinality(today) \in Nat
  <2> HIDE DEF today
  <2> QED BY <1>3, FS_CardinalityType
<1>8. ASSUME NEW r \in before
      PROVE  Cardinality(recent) = Cardinality(today) + 1
  <2>1. recent = today \cup {r} /\ r \notin today
    BY <1>4, <1>8
  <2> HIDE DEF today
  <2> QED BY <1>3, <2>1, FS_AddElement
<1> HIDE DEF today, before
<1>9. CASE before = {}
  <2>1. recent = today
    BY <1>6, <1>9
  <2> QED BY <1>2, <1>3, <1>7, <2>1
<1>10. ASSUME NEW r \in before PROVE r \in recent /\ r.late
  BY <1>5, <1>6, <1>10
<1>11. CASE before # {}
  <2>1. Cardinality(recent) = Cardinality(today) + 1
    BY <1>8, <1>11
  <2>2. \E r \in recent : r.late
    BY <1>10, <1>11
  <2> QED BY <1>2, <1>3, <1>7, <2>1, <2>2
<1> QED BY <1>9, <1>11

\* With as many hours in the schedule as the quota allows, whatever people ask for in
\* between, no 24 hours see more, but for one more when a job was late.
THEOREM QuotaIsKept == ASSUME Cardinality(CronHours) <= Quota PROVE QuotaSpec => []QuotaKept
<1>1. QuotaInv => QuotaKept
  <2> SUFFICES ASSUME QuotaInv PROVE QuotaKept
    OBVIOUS
  <2>1. CASE \E r \in recent : r.late
    BY <2>1, UpdatesBounded DEF QuotaKept, Quota
  <2>2. CASE \A r \in recent : ~r.late
    BY <2>2, UpdatesBounded DEF QuotaKept, Quota
  <2> QED BY <2>1, <2>2
<1> QED BY <1>1, QuotaInvInit, QuotaInvStep, PTL DEF QuotaSpec

===============================================================================
