---------------------------- MODULE FinApiClient ----------------------------
(***************************************************************************)
(* How FinApiClient turns a reply into a result or an exception, and what  *)
(* its three kinds of caller make of it: stage one of a sync, a step of an *)
(* SCA flow, and Test Connection.  TransactionSync and ScaFlow choose      *)
(* among these outcomes; here they are derived from the reply.             *)
(***************************************************************************)
EXTENDS Naturals, Sequences

CONSTANT NoReply       \* the transport fails

HttpStatus == {"2xx", "401/403", "510", "other"}

\* JSON objects that have what was asked for, or not; a challenge where finAPI nests it,
\* or on top; text that is no JSON; and JSON that is no object.
ReplyBody == {"asked", "bare", "nested", "top", "text", "list", "null"}
Reply == [status : HttpStatus, body : ReplyBody]

VARIABLES
  caller,              \* "sync", "sca" or "test"; "nobody" between calls
  at,                  \* waiting for the "token" or the "call"; "done"
  reply, expectSca,    \* the last reply, and to what
  result,              \* what the caller made of it
  flow                 \* the cached SCA session: "none", "started", or its "hash"

clientVars == <<caller, at, reply, expectSca, result, flow>>

ClientInit ==
  /\ caller = "nobody" /\ at = "done" /\ reply = NoReply /\ expectSca = FALSE
  /\ result = "none" /\ flow = "none"

----------------------------------------------------------------------------
(* exceptions.py and the except clauses, which are tried in their order.   *)

Is(exception, class) ==
  \/ exception = class \/ class = "Exception"
  \/ class = "FinApiError" /\ exception \in {"FinApiAuthError", "ScaChallengeRequired"}

\* What the first handler makes of it that takes the exception.
Handled(handlers, exception) ==
  LET takers == {i \in DOMAIN handlers : Is(exception, handlers[i].class)}
  IN IF takers = {} THEN "raised"
     ELSE handlers[CHOOSE i \in takers : \A k \in takers : i <= k].result

----------------------------------------------------------------------------
(* The client.                                                             *)

\* Slip: a body that is no JSON raises before the status is looked at.
ParsedStrictly(body) == IF body = "text" THEN "ValueError" ELSE "none"

\* What _parse_body raises: text that is no JSON becomes an object around it.
Parsed(body) == "none"

\* Does the body hold a multiStepAuthentication, and so a hash?
HasChallenge(body) == body \in {"nested", "top"}

\* _request: the exception, or "none".
Exception(r, sca) ==
  IF r = NoReply THEN "Timeout"
  ELSE IF Parsed(r.body) # "none" THEN Parsed(r.body)
  ELSE IF r.status = "510" /\ sca
       THEN IF r.body = "list" THEN "AttributeError" ELSE "ScaChallengeRequired"
  ELSE IF r.status = "401/403" THEN "FinApiAuthError"
  ELSE IF r.status # "2xx" THEN "FinApiError" ELSE "none"

\* _token: the access token has to be in it.
TokenException(r) ==
  IF Exception(r, FALSE) # "none" THEN Exception(r, FALSE)
  ELSE IF r.body \in {"list", "null"} THEN "AttributeError"
  ELSE IF r.body # "asked" THEN "FinApiAuthError" ELSE "none"

----------------------------------------------------------------------------
(* The callers.  Each opens a client of its own, which asks for one token. *)

Ask(who) ==
  /\ caller' = who /\ at' = "token" /\ reply' = NoReply /\ expectSca' = FALSE
  /\ result' = "none"

StageOne == at = "done" /\ Ask("sync") /\ UNCHANGED flow
TestConnection == at = "done" /\ Ask("test") /\ UNCHANGED flow
StartFlow == at = "done" /\ Ask("sca") /\ flow' = "started"
NextStep == at = "done" /\ flow = "hash" /\ Ask("sca") /\ UNCHANGED flow

\* The flow is cancelled or expires.
DropFlow ==
  /\ at = "done" /\ flow # "none" /\ flow' = "none"
  /\ UNCHANGED <<caller, at, reply, expectSca, result>>

Replied(r, sca) == reply' = r /\ expectSca' = sca /\ UNCHANGED caller

\* Only Test Connection has its token in a try block.
TokenHandlers ==
  IF caller = "test" THEN <<[class |-> "FinApiError", result |-> "reported"]>> ELSE <<>>

TokenAnswered(r) ==
  /\ at = "token" /\ Replied(r, FALSE)
  /\ IF TokenException(r) # "none"
     THEN at' = "done" /\ result' = Handled(TokenHandlers, TokenException(r))
     ELSE IF caller = "test" THEN at' = "done" /\ result' = "ok"
     ELSE at' = "call" /\ UNCHANGED result
  /\ UNCHANGED flow

Challenged == [class |-> "ScaChallengeRequired", result |-> "challenged"]
Refused == [class |-> "FinApiError", result |-> "refused"]

\* Slip: the general clause comes first, and a challenge is a FinApiError too.
GeneralFirst == <<Refused, Challenged>>

UpdateHandlers == <<Challenged, Refused>>

\* _update_bank_connection.  What a success holds is not looked at.
Updated(r) ==
  /\ at = "call" /\ caller = "sync" /\ Replied(r, TRUE) /\ at' = "done"
  /\ result' = IF Exception(r, TRUE) = "none" THEN "fetched"
               ELSE Handled(UpdateHandlers, Exception(r, TRUE))
  /\ UNCHANGED flow

SendHandlers == <<Challenged, [class |-> "Exception", result |-> "raised"]>>

\* _send: a challenge is cached with its hash, anything else ends the flow.
Sent(r) ==
  /\ at = "call" /\ caller = "sca" /\ Replied(r, TRUE) /\ at' = "done"
  /\ result' = IF Exception(r, TRUE) # "none" THEN Handled(SendHandlers, Exception(r, TRUE))
               ELSE IF r.body \in {"list", "null"} THEN "raised" ELSE "completed"
  /\ flow' = IF result' # "challenged" THEN "none"
             ELSE IF HasChallenge(r.body) THEN "hash" ELSE "started"

ClientNext ==
  \/ StageOne \/ TestConnection \/ StartFlow \/ NextStep \/ DropFlow
  \/ \E r \in Reply \cup {NoReply} : TokenAnswered(r) \/ Updated(r) \/ Sent(r)

ClientSpec == ClientInit /\ [][ClientNext]_clientVars

----------------------------------------------------------------------------
(* Properties.                                                             *)

ClientTypeOK ==
  /\ caller \in {"nobody", "sync", "sca", "test"} /\ at \in {"token", "call", "done"}
  /\ reply \in Reply \cup {NoReply} /\ expectSca \in BOOLEAN
  /\ result \in {"none", "ok", "reported", "raised", "fetched", "challenged", "refused",
                 "completed"}
  /\ flow \in {"none", "started", "hash"}

\* "This is NOT a failure": a challenge, nested or on top, flags the connection for a
\* manual update in a sync, and in a flow can be answered with its hash.
ChallengeGoesOn ==
  /\ at = "done" /\ expectSca /\ reply # NoReply
  /\ reply.status = "510" /\ reply.body \in {"nested", "top"}
  /\ result # "none"
  => result = "challenged" /\ (caller = "sca" /\ flow # "none" => flow = "hash")

\* "Do not abort the sync": no error that finAPI, or a gateway before it with a page of
\* its own, answers to stage one ends the run, nor does Test Connection raise on one.
ErrorsAreRecorded ==
  /\ at = "done" /\ reply # NoReply /\ reply.status # "2xx" /\ reply.body # "list"
  /\ caller = "test" \/ (caller = "sync" /\ expectSca)
  => result # "raised"

=============================================================================
