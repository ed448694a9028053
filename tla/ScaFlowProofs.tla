---------------------------- MODULE ScaFlowProofs ----------------------------
(***************************************************************************)
(* Proofs about ScaFlow for every number of tabs, flows, hashes and ids:   *)
(* its type invariant, that a hash stays with the credentials it was       *)
(* issued for, which credentials can outlive their flow, and that tabs     *)
(* which take turns answer what they show and keep their connection.       *)
(***************************************************************************)
EXTENDS ScaFlow, TLAPS

----------------------------------------------------------------------------
(* Types.                                                                  *)

\* A tab that shows a challenge knows whose it is.
ShownIsReal == \A t \in Tab : ui[t] # "form" => shown[t].flow # None

\* A request that is under way carries credentials.
SentIsReal == \A t \in Tab : pc[t] \in Sending => sess[t].flow # None

\* A tab that waits for an answer shows its form.
AsksInForm == \A t \in Tab : pc[t] # "idle" => ui[t] = "form"

Typed == TypeOK /\ ShownIsReal /\ SentIsReal /\ AsksInForm

\* A cache that was emptied is well typed, and so is what a tab without a challenge shows.
LEMMA EmptyTypes ==
  /\ NoSession \in Sessions
  /\ NoChallenge \in [flow : Flow \cup {None}, hash : Hash \cup {None}]
  BY DEF NoSession, Sessions, Modes, NoChallenge

\* The initial states are well typed.
LEMMA TypedInit == Init => Typed
  BY NoneAssumption, EmptyTypes
  DEF Init, Typed, TypeOK, ShownIsReal, SentIsReal, AsksInForm, Sending

\* A request that holds a well-typed session has well-typed fields.
LEMMA TypedHold ==
  ASSUME Typed, NEW t \in Tab, NEW s \in Sessions, s.flow # None, HoldSession(t, s)
  PROVE  /\ sess' \in [Tab -> Sessions]
         /\ pc' \in [Tab -> {"idle", "complete"} \cup Sending]
         /\ stale' \in [Tab -> BOOLEAN] /\ newId' \in [Tab -> ConnId \cup {None}]
         /\ SentIsReal'
  BY DEF Typed, TypeOK, SentIsReal, HoldSession, Sending

\* So has a request that is answered.
LEMMA TypedReturn ==
  ASSUME Typed, NEW t \in Tab, Return(t)
  PROVE  /\ sess' \in [Tab -> Sessions]
         /\ pc' \in [Tab -> {"idle", "complete"} \cup Sending]
         /\ stale' \in [Tab -> BOOLEAN] /\ newId' \in [Tab -> ConnId \cup {None}]
         /\ SentIsReal'
  BY EmptyTypes DEF Typed, TypeOK, SentIsReal, Return, Sending

\* A challenge is forgotten by a tab that shows its form from now on.
LEMMA TypedForget ==
  ASSUME Typed, NEW t \in Tab, ForgetChallenge(t), ui'[t] = "form",
         \A u \in Tab \ {t} : ui'[u] = ui[u]
  PROVE  /\ shown' \in [Tab -> [flow : Flow \cup {None}, hash : Hash \cup {None}]]
         /\ ShownIsReal'
  BY EmptyTypes DEF Typed, TypeOK, ShownIsReal, ForgetChallenge

\* Every step keeps the types.
LEMMA TypedStep == Typed /\ [Next]_vars => Typed'
<1> SUFFICES ASSUME Typed, [Next]_vars PROVE Typed'
  OBVIOUS
<1> USE NoneAssumption DEF Typed
<1>1. ASSUME NEW t \in Tab, NEW mode \in Modes, Start(t, mode) PROVE Typed'
  <2>1. PICK f \in Flow \ started :
          /\ started' = started \cup {f}
          /\ HoldSession(t, [flow |-> f, mode |-> mode, id |-> docConn, hash |-> None])
    BY <1>1 DEF Start
  <2>2. [flow |-> f, mode |-> mode, id |-> docConn, hash |-> None] \in Sessions
    BY DEF TypeOK, Sessions
  <2>3. f # None
    OBVIOUS
  <2>4. /\ sess' \in [Tab -> Sessions]
        /\ pc' \in [Tab -> {"idle", "complete"} \cup Sending]
        /\ stale' \in [Tab -> BOOLEAN] /\ newId' \in [Tab -> ConnId \cup {None}]
        /\ SentIsReal'
    BY <2>1, <2>2, <2>3, TypedHold
  <2>5. AsksInForm'
    BY <1>1, <2>1 DEF Start, LoginEntered, HoldSession, AsksInForm, TypeOK, tabVars
  <2>6. ShownIsReal' /\ started' \in SUBSET Flow
    BY <1>1, <2>1 DEF Start, ShownIsReal, TypeOK, tabVars
  <2>7. orderly' \in BOOLEAN
    BY <1>1 DEF Start
  <2> QED BY <1>1, <2>4, <2>5, <2>6, <2>7 DEF Start, TypeOK, docVars, finapiVars, tabVars, endVars
<1>2. ASSUME NEW t \in Tab, SubmitStep(t) PROVE Typed'
  <2>1. /\ sess' \in [Tab -> Sessions]
        /\ pc' \in [Tab -> {"idle", "complete"} \cup Sending]
        /\ stale' \in [Tab -> BOOLEAN] /\ newId' \in [Tab -> ConnId \cup {None}]
        /\ SentIsReal'
    BY <1>2, TypedHold DEF SubmitStep, Cached, TypeOK
  <2>2. AsksInForm' /\ ShownIsReal'
    BY <1>2 DEF SubmitStep, HoldSession, AsksInForm, ShownIsReal, TypeOK
  <2> QED BY <1>2, <2>1, <2>2 DEF SubmitStep, TypeOK, docVars, finapiVars, ghostVars, endVars
<1>3. ASSUME NEW t \in Tab, StoreSession(t) PROVE Typed'
  BY <1>3 DEF StoreSession, TypeOK, ShownIsReal, SentIsReal, AsksInForm, Sending, docVars,
              finapiVars, tabVars, ghostVars, endVars
<1>4. ASSUME NEW t \in Tab, SubmitRejected(t) PROVE Typed'
  <2>1. shown[t].flow \in Flow
    BY <1>4 DEF SubmitRejected, Displays, ShownIsReal, TypeOK
  <2>2. /\ shown' \in [Tab -> [flow : Flow \cup {None}, hash : Hash \cup {None}]]
        /\ ShownIsReal'
    BY <1>4, TypedForget DEF SubmitRejected, TypeOK
  <2>3. ended' \in SUBSET Flow /\ excused' \in SUBSET Flow
    BY <1>4, <2>1 DEF SubmitRejected, TypeOK
  <2> QED BY <1>4, <2>2, <2>3 DEF SubmitRejected, TypeOK, SentIsReal, AsksInForm, docVars,
                                  finapiVars, reqVars
<1>5. ASSUME NEW t \in Tab, Cancel(t) PROVE Typed'
  <2>1. shown[t].flow \in Flow
    BY <1>5 DEF Cancel, ShownIsReal, TypeOK
  <2>2. /\ shown' \in [Tab -> [flow : Flow \cup {None}, hash : Hash \cup {None}]]
        /\ ShownIsReal'
    BY <1>5, TypedForget DEF Cancel, TypeOK
  <2>3. cache' \in Sessions /\ ended' \in SUBSET Flow /\ excused' \in SUBSET Flow
    BY <1>5, <2>1, EmptyTypes DEF Cancel, End, TypeOK, endVars
  <2> QED BY <1>5, <2>2, <2>3 DEF Cancel, TypeOK, SentIsReal, AsksInForm, docVars,
                                  finapiVars, reqVars
<1>6. ASSUME NEW t \in Tab, Authenticated(t) PROVE Typed'
  BY <1>6 DEF Authenticated, TypeOK, ShownIsReal, SentIsReal, AsksInForm, Sending, docVars,
              finapiVars, tabVars, ghostVars, endVars
<1>7. ASSUME NEW t \in Tab, SessionFails(t) PROVE Typed'
  <2>1. sess[t].flow \in Flow
    BY <1>7 DEF SessionFails, SentIsReal, Sending, TypeOK, Sessions
  <2>2. /\ shown' \in [Tab -> [flow : Flow \cup {None}, hash : Hash \cup {None}]]
        /\ ShownIsReal'
    BY <1>7, TypedForget DEF SessionFails, AsksInForm
  <2>3. AsksInForm'
    BY <1>7 DEF SessionFails, Return, AsksInForm, TypeOK
  <2> QED BY <1>7, <2>1, <2>2, <2>3, TypedReturn DEF SessionFails, TypeOK, docVars, finapiVars
<1>8. ASSUME NEW t \in Tab, ReceiveChallenge(t) PROVE Typed'
  <2>1. PICK h \in Hash \cup {None}, dialog \in {"dialog", "notice"} :
          /\ owner' = [g \in Hash |-> IF g = h THEN sess[t].flow ELSE owner[g]]
          /\ cache' = [sess[t] EXCEPT !.hash = h]
          /\ shown' = [shown EXCEPT ![t] = [flow |-> sess[t].flow, hash |-> h]]
          /\ ui' = [ui EXCEPT ![t] = dialog]
    BY <1>8 DEF ReceiveChallenge, Displays
  <2>2. sess[t].flow \in Flow /\ cache' \in Sessions
    BY <1>8, <2>1 DEF ReceiveChallenge, SentIsReal, Sending, TypeOK, Sessions
  <2>3. AsksInForm' /\ ShownIsReal'
    BY <1>8, <2>1, <2>2 DEF ReceiveChallenge, Return, AsksInForm, ShownIsReal, TypeOK
  <2> QED BY <1>8, <2>1, <2>2, <2>3, TypedReturn
          DEF ReceiveChallenge, TypeOK, docVars, ghostVars, endVars
<1>9. ASSUME NEW t \in Tab, CallFails(t) PROVE Typed'
  <2>1. sess[t].flow \in Flow
    BY <1>9 DEF CallFails, SentIsReal, Sending, TypeOK, Sessions
  <2>2. /\ shown' \in [Tab -> [flow : Flow \cup {None}, hash : Hash \cup {None}]]
        /\ ShownIsReal'
    BY <1>9, TypedForget DEF CallFails, AsksInForm
  <2>3. known' \in SUBSET ConnId /\ cache' \in Sessions
    BY <1>9, EmptyTypes DEF CallFails, TypeOK
  <2>4. AsksInForm'
    BY <1>9 DEF CallFails, Return, AsksInForm, TypeOK
  <2> QED BY <1>9, <2>1, <2>2, <2>3, <2>4, TypedReturn DEF CallFails, End, TypeOK, docVars
<1>10. ASSUME NEW t \in Tab, ReceiveDone(t) PROVE Typed'
  <2>1. sess[t].flow \in Flow
    BY <1>10 DEF ReceiveDone, SentIsReal, Sending, TypeOK, Sessions
  <2>2. /\ shown' \in [Tab -> [flow : Flow \cup {None}, hash : Hash \cup {None}]]
        /\ ShownIsReal'
    BY <1>10, TypedForget DEF ReceiveDone, AsksInForm
  <2>3. known' \in SUBSET ConnId /\ newId' \in [Tab -> ConnId \cup {None}]
    BY <1>10 DEF ReceiveDone, TypeOK
  <2>4. SentIsReal' /\ AsksInForm'
    BY <1>10 DEF ReceiveDone, SentIsReal, AsksInForm, Sending, TypeOK
  <2> QED BY <1>10, <2>1, <2>2, <2>3, <2>4, EmptyTypes
          DEF ReceiveDone, End, TypeOK, docVars
<1>11. ASSUME NEW t \in Tab, CompleteSaves(t) PROVE Typed'
  <2>1. CompletedId(t) \in ConnId \cup {None}
    BY DEF CompletedId, TypeOK
  <2>2. /\ SentIsReal' /\ AsksInForm' /\ ShownIsReal'
        /\ pc' \in [Tab -> {"idle", "complete"} \cup Sending]
    BY <1>11 DEF CompleteSaves, SentIsReal, AsksInForm, ShownIsReal, Sending, TypeOK
  <2> QED BY <1>11, <2>1, <2>2
          DEF CompleteSaves, SavedUnder, TypeOK, finapiVars, ghostVars, endVars
<1>12. ASSUME NEW t \in Tab, CompleteFails(t) PROVE Typed'
  BY <1>12, TypedReturn
     DEF CompleteFails, Return, TypeOK, ShownIsReal, AsksInForm, docVars, finapiVars, tabVars,
         ghostVars, endVars
<1>13. ASSUME NEW t \in Tab, Dismiss(t) PROVE Typed'
  <2>1. /\ shown' \in [Tab -> [flow : Flow \cup {None}, hash : Hash \cup {None}]]
        /\ ShownIsReal'
    BY <1>13, TypedForget DEF Dismiss, TypeOK
  <2> QED BY <1>13, <2>1 DEF Dismiss, TypeOK, SentIsReal, AsksInForm, docVars, finapiVars,
                             reqVars, ghostVars, endVars
<1>14. ASSUME NEW t \in Tab, OpenForm(t) PROVE Typed'
  BY <1>14 DEF OpenForm, TypeOK, ShownIsReal, SentIsReal, AsksInForm, docVars, finapiVars,
               reqVars, ghostVars, endVars
<1>15. CASE UserSave
  BY <1>15 DEF UserSave, TypeOK, ShownIsReal, SentIsReal, AsksInForm, docVars, finapiVars,
               tabVars, ghostVars, endVars
<1>16. CASE Trash
  <2>1. {sess[u].flow : u \in {v \in Tab : pc[v] \in Sending}} \in SUBSET Flow
    BY DEF TypeOK, SentIsReal, Sessions
  <2> QED BY <1>16, <2>1, EmptyTypes
          DEF Trash, TypeOK, ShownIsReal, SentIsReal, AsksInForm, finapiVars, tabVars, reqVars
<1>17. CASE Expire
  BY <1>17, EmptyTypes DEF Expire, TypeOK, ShownIsReal, SentIsReal, AsksInForm, docVars,
                           finapiVars, tabVars, reqVars, ghostVars, endVars
<1>18. CASE UNCHANGED vars
  BY <1>18 DEF vars, TypeOK, ShownIsReal, SentIsReal, AsksInForm, docVars, finapiVars, tabVars,
               reqVars, ghostVars, endVars
<1> QED BY <1>1, <1>2, <1>3, <1>4, <1>5, <1>6, <1>7, <1>8, <1>9, <1>10, <1>11, <1>12,
           <1>13, <1>14, <1>15, <1>16, <1>17, <1>18 DEF Next

\* Whatever the tabs do, every variable keeps its type.
THEOREM TypeCorrect == Spec => []TypeOK
<1>1. Typed => TypeOK
  BY DEF Typed
<1> QED BY <1>1, TypedInit, TypedStep, PTL DEF Spec

----------------------------------------------------------------------------
(* What a step leaves of requests, displays, the cache and finAPI's hashes. *)

\* A request that is under way was before, or begins with this step; what its tab
\* shows stays.
LEMMA RequestsKeep ==
  ASSUME Typed, [Next]_vars, NEW u \in Tab, pc'[u] \in Sending
  PROVE  /\ shown'[u] = shown[u]
         /\ \/ pc[u] \in Sending /\ sess'[u] = sess[u]
            \/ (\E mode \in Modes : Start(u, mode)) \/ SubmitStep(u)
<1> DEFINE Kept == shown'[u] = shown[u] /\ pc[u] \in Sending /\ sess'[u] = sess[u]
<1> USE DEF Typed, TypeOK, Sending
<1>1. ASSUME NEW t \in Tab, NEW mode \in Modes, Start(t, mode)
      PROVE  shown'[u] = shown[u] /\ (Kept \/ u = t)
  BY <1>1 DEF Start, HoldSession, tabVars
<1>2. ASSUME NEW t \in Tab, SubmitStep(t) PROVE shown'[u] = shown[u] /\ (Kept \/ u = t)
  BY <1>2 DEF SubmitStep, HoldSession
<1>3. ASSUME NEW t \in Tab, StoreSession(t) \/ Authenticated(t) PROVE Kept
  BY <1>3 DEF StoreSession, Authenticated, tabVars
<1>4. ASSUME NEW t \in Tab, SubmitRejected(t) \/ Cancel(t) PROVE Kept
  BY <1>4 DEF SubmitRejected, Cancel, ForgetChallenge, reqVars
<1>5. ASSUME NEW t \in Tab, SessionFails(t) \/ CallFails(t) \/ ReceiveChallenge(t) PROVE Kept
  BY <1>5 DEF SessionFails, CallFails, ReceiveChallenge, ForgetChallenge, Return
<1>6. ASSUME NEW t \in Tab, ReceiveDone(t) PROVE Kept
  BY <1>6 DEF ReceiveDone, ForgetChallenge
<1>7. ASSUME NEW t \in Tab, CompleteSaves(t) \/ CompleteFails(t) PROVE Kept
  BY <1>7 DEF CompleteSaves, CompleteFails, Return, tabVars
<1>8. ASSUME NEW t \in Tab, Dismiss(t) \/ OpenForm(t) PROVE Kept
  BY <1>8 DEF Dismiss, OpenForm, ForgetChallenge, reqVars
<1>9. CASE UserSave \/ Trash \/ Expire \/ UNCHANGED vars
  BY <1>9 DEF UserSave, Trash, Expire, vars, tabVars, reqVars
<1> QED BY <1>1, <1>2, <1>3, <1>4, <1>5, <1>6, <1>7, <1>8, <1>9 DEF Next

\* A challenge on display was there before, or arrives with this step.
LEMMA DisplaysKeep ==
  ASSUME Typed, [Next]_vars, NEW u \in Tab, ui'[u] # "form"
  PROVE  (ui[u] # "form" /\ shown'[u] = shown[u]) \/ ReceiveChallenge(u)
<1> DEFINE Kept == ui[u] # "form" /\ shown'[u] = shown[u]
<1> USE DEF Typed, TypeOK, AsksInForm
<1>1. ASSUME NEW t \in Tab, NEW mode \in Modes, Start(t, mode) PROVE Kept
  BY <1>1 DEF Start, tabVars
<1>2. ASSUME NEW t \in Tab, SubmitStep(t) \/ StoreSession(t) \/ Authenticated(t) PROVE Kept
  BY <1>2 DEF SubmitStep, StoreSession, Authenticated, tabVars
<1>3. ASSUME NEW t \in Tab, SubmitRejected(t) \/ Cancel(t) \/ Dismiss(t) \/ OpenForm(t)
      PROVE  Kept
  BY <1>3 DEF SubmitRejected, Cancel, Dismiss, OpenForm, ForgetChallenge
<1>4. ASSUME NEW t \in Tab, SessionFails(t) \/ CallFails(t) \/ ReceiveDone(t) PROVE Kept
  BY <1>4 DEF SessionFails, CallFails, ReceiveDone, ForgetChallenge
<1>5. ASSUME NEW t \in Tab, ReceiveChallenge(t) PROVE Kept \/ u = t
  BY <1>5 DEF ReceiveChallenge
<1>6. ASSUME NEW t \in Tab, CompleteSaves(t) \/ CompleteFails(t) PROVE Kept
  BY <1>6 DEF CompleteSaves, CompleteFails, tabVars
<1>7. CASE UserSave \/ Trash \/ Expire \/ UNCHANGED vars
  BY <1>7 DEF UserSave, Trash, Expire, vars, tabVars
<1> QED BY <1>1, <1>2, <1>3, <1>4, <1>5, <1>6, <1>7 DEF Next

\* An answer that waits to be written was there before, or arrives with this step.
LEMMA AnswersKeep ==
  ASSUME Typed, [Next]_vars, NEW u \in Tab, pc'[u] = "complete"
  PROVE  (pc[u] = "complete" /\ newId'[u] = newId[u]) \/ ReceiveDone(u)
<1> DEFINE Kept == pc[u] = "complete" /\ newId'[u] = newId[u]
<1> USE DEF Typed, TypeOK
<1>1. ASSUME NEW t \in Tab, NEW mode \in Modes, Start(t, mode) PROVE Kept
  BY <1>1 DEF Start, HoldSession
<1>2. ASSUME NEW t \in Tab, SubmitStep(t) \/ StoreSession(t) \/ Authenticated(t) PROVE Kept
  BY <1>2 DEF SubmitStep, HoldSession, StoreSession, Authenticated
<1>3. ASSUME NEW t \in Tab, SubmitRejected(t) \/ Cancel(t) \/ Dismiss(t) \/ OpenForm(t)
      PROVE  Kept
  BY <1>3 DEF SubmitRejected, Cancel, Dismiss, OpenForm, reqVars
<1>4. ASSUME NEW t \in Tab, SessionFails(t) \/ CallFails(t) \/ ReceiveChallenge(t) PROVE Kept
  BY <1>4 DEF SessionFails, CallFails, ReceiveChallenge, Return
<1>5. ASSUME NEW t \in Tab, ReceiveDone(t) PROVE Kept \/ u = t
  BY <1>5 DEF ReceiveDone
<1>6. ASSUME NEW t \in Tab, CompleteSaves(t) PROVE Kept
  BY <1>6 DEF CompleteSaves
<1>7. ASSUME NEW t \in Tab, CompleteFails(t) PROVE Kept
  BY <1>7 DEF CompleteFails, Return
<1>8. CASE UserSave \/ Trash \/ Expire \/ UNCHANGED vars
  BY <1>8 DEF UserSave, Trash, Expire, vars, reqVars
<1> QED BY <1>1, <1>2, <1>3, <1>4, <1>5, <1>6, <1>7, <1>8 DEF Next

\* The cache keeps or loses its session, or a request stores its own.
LEMMA CacheKeeps ==
  ASSUME [Next]_vars
  PROVE  \/ cache' \in {cache, NoSession}
         \/ \E t \in Tab : StoreSession(t) \/ ReceiveChallenge(t)
BY DEF Next, Start, SubmitStep, SubmitRejected, Cancel, Authenticated, SessionFails, CallFails,
       ReceiveDone, CompleteSaves, CompleteFails, Dismiss, OpenForm, UserSave, Trash, Expire, vars

\* A hash is handed out with a challenge only.
LEMMA OwnersKeep ==
  ASSUME [Next]_vars PROVE UNCHANGED owner \/ \E t \in Tab : ReceiveChallenge(t)
BY DEF Next, Start, SubmitStep, StoreSession, SubmitRejected, Cancel, Authenticated, SessionFails,
       CallFails, ReceiveDone, CompleteSaves, CompleteFails, Dismiss, OpenForm, UserSave, Trash,
       Expire, vars, finapiVars

\* What a challenge brings: the session of its request, with the hash or none.
LEMMA ChallengeBrings ==
  ASSUME Typed, NEW t \in Tab, ReceiveChallenge(t)
  PROVE  \E h \in Hash \cup {None} :
           /\ h # None => owner[h] = None
           /\ owner' = [g \in Hash |-> IF g = h THEN sess[t].flow ELSE owner[g]]
           /\ cache'.flow = sess[t].flow /\ cache'.hash = h
           /\ cache'.mode = sess[t].mode /\ cache'.id = sess[t].id
           /\ shown'[t].flow = sess[t].flow /\ shown'[t].hash = h
<1>1. PICK h \in Hash \cup {None} :
        /\ h # None => owner[h] = None
        /\ owner' = [g \in Hash |-> IF g = h THEN sess[t].flow ELSE owner[g]]
        /\ cache' = [sess[t] EXCEPT !.hash = h]
        /\ shown' = [shown EXCEPT ![t] = [flow |-> sess[t].flow, hash |-> h]]
  BY DEF ReceiveChallenge
<1>2. sess[t] \in Sessions
  BY DEF Typed, TypeOK
<1>3. /\ cache'.flow = sess[t].flow /\ cache'.hash = h
      /\ cache'.mode = sess[t].mode /\ cache'.id = sess[t].id
  BY <1>1, <1>2 DEF Sessions
<1>4. shown'[t] = [flow |-> sess[t].flow, hash |-> h]
  BY <1>1 DEF Typed, TypeOK
<1> QED BY <1>1, <1>3, <1>4

----------------------------------------------------------------------------
(* A hash stays with the credentials it was issued for.                    *)

\* Every step keeps the hashes where they belong.
LEMMA IssuedStep == Typed /\ HashMatchesCredentials /\ [Next]_vars => HashMatchesCredentials'
<1> SUFFICES ASSUME Typed, HashMatchesCredentials, [Next]_vars PROVE HashMatchesCredentials'
  OBVIOUS
<1> USE NoneAssumption
<1>1. ASSUME NEW g \in Hash, owner[g] # None PROVE owner'[g] = owner[g]
  <2>1. CASE UNCHANGED owner
    BY <2>1
  <2>2. ASSUME NEW t \in Tab, ReceiveChallenge(t) PROVE owner'[g] = owner[g]
    BY <1>1, <2>2, ChallengeBrings
  <2> QED BY <2>1, <2>2, OwnersKeep
<1>2. ASSUME NEW u \in Tab, pc[u] \in Sending, sess[u].hash # None
      PROVE  owner[sess[u].hash] = sess[u].flow /\ owner'[sess[u].hash] = sess[u].flow
  <2>1. owner[sess[u].hash] = sess[u].flow /\ sess[u].flow # None /\ sess[u].hash \in Hash
    BY <1>2 DEF HashMatchesCredentials, Typed, TypeOK, SentIsReal, Sessions
  <2> QED BY <1>1, <2>1
<1>3. ASSUME NEW u \in Tab, pc'[u] \in Sending, sess'[u].hash # None
      PROVE  owner'[sess'[u].hash] = sess'[u].flow
  <2>1. CASE pc[u] \in Sending /\ sess'[u] = sess[u]
    BY <1>2, <1>3, <2>1
  <2>2. ASSUME NEW mode \in Modes, Start(u, mode) PROVE FALSE
    <3>1. PICK f \in Flow :
            HoldSession(u, [flow |-> f, mode |-> mode, id |-> docConn, hash |-> None])
      BY <2>2 DEF Start
    <3> QED BY <1>3, <3>1 DEF HoldSession, Typed, TypeOK
  <2>3. CASE SubmitStep(u)
    <3>1. sess'[u] = cache /\ UNCHANGED owner
      BY <2>3 DEF SubmitStep, HoldSession, finapiVars, Typed, TypeOK
    <3> QED BY <1>3, <3>1 DEF HashMatchesCredentials
  <2> QED BY <1>3, <2>1, <2>2, <2>3, RequestsKeep
<1>4. cache'.hash # None => owner'[cache'.hash] = cache'.flow
  <2>1. ASSUME NEW t \in Tab, ReceiveChallenge(t), cache'.hash # None
        PROVE  owner'[cache'.hash] = cache'.flow
    BY <2>1, ChallengeBrings
  <2>2. ASSUME NEW t \in Tab, StoreSession(t), cache'.hash # None
        PROVE  owner'[cache'.hash] = cache'.flow
    BY <1>2, <2>2 DEF StoreSession, Sending
  <2>3. CASE cache' = NoSession
    BY <2>3 DEF NoSession
  <2>4. CASE cache' = cache /\ UNCHANGED owner
    BY <2>4 DEF HashMatchesCredentials
  <2> QED BY <2>1, <2>2, <2>3, <2>4, CacheKeeps, OwnersKeep
<1> QED BY <1>3, <1>4 DEF HashMatchesCredentials

\* However tabs overtake each other on the shared key, no hash is sent or kept
\* beside the credentials of another flow.
THEOREM HashesMatch == Spec => []HashMatchesCredentials
<1>1. Init => HashMatchesCredentials
  BY DEF Init, HashMatchesCredentials, NoSession, Sending
<1> QED BY <1>1, TypedInit, TypedStep, IssuedStep, PTL DEF Spec

----------------------------------------------------------------------------
(* Which credentials can outlive their flow.                               *)

\* Only flows that were started are cached, on their way, on display or over.
Begun ==
  /\ Cached => cache.flow \in started
  /\ ended \subseteq started
  /\ \A t \in Tab : /\ pc[t] \in Sending => sess[t].flow \in started
                    /\ ui[t] # "form" => shown[t].flow \in started

\* Every request of a flow that is over is excused, since it may store it again.
SentIsExcused ==
  \A t \in Tab : pc[t] \in Sending /\ sess[t].flow \in ended => sess[t].flow \in excused

Forgotten == Begun /\ SentIsExcused /\ EndedIsForgotten

\* Every step leaves only started flows behind.
LEMMA BegunStep == ASSUME Typed, Begun, [Next]_vars PROVE Begun'
<1> USE NoneAssumption
<1>1. started \subseteq started'
  BY DEF Next, Start, SubmitStep, StoreSession, SubmitRejected, Cancel, Authenticated,
         SessionFails, ReceiveChallenge, CallFails, ReceiveDone, CompleteSaves, CompleteFails,
         Dismiss, OpenForm, UserSave, Trash, Expire, vars
<1>2. ASSUME NEW u \in Tab, pc'[u] \in Sending PROVE sess'[u].flow \in started'
  <2>1. CASE pc[u] \in Sending /\ sess'[u] = sess[u]
    BY <1>1, <2>1 DEF Begun
  <2>2. ASSUME NEW mode \in Modes, Start(u, mode) PROVE sess'[u].flow \in started'
    <3>1. PICK f \in Flow \ started :
            /\ started' = started \cup {f}
            /\ HoldSession(u, [flow |-> f, mode |-> mode, id |-> docConn, hash |-> None])
      BY <2>2 DEF Start
    <3> QED BY <3>1 DEF HoldSession, Typed, TypeOK
  <2>3. CASE SubmitStep(u)
    BY <1>1, <2>3 DEF SubmitStep, HoldSession, Begun, Typed, TypeOK
  <2> QED BY <1>2, <2>1, <2>2, <2>3, RequestsKeep
<1>3. ASSUME NEW u \in Tab, ui'[u] # "form" PROVE shown'[u].flow \in started'
  <2>1. CASE ReceiveChallenge(u)
    BY <1>1, <2>1, ChallengeBrings DEF ReceiveChallenge, Sending, Begun
  <2> QED BY <1>1, <1>3, <2>1, DisplaysKeep DEF Begun
<1>4. Cached' => cache'.flow \in started'
  <2>1. ASSUME NEW t \in Tab, StoreSession(t) PROVE cache'.flow \in started'
    BY <1>1, <2>1 DEF StoreSession, Sending, Begun
  <2>2. ASSUME NEW t \in Tab, ReceiveChallenge(t) PROVE cache'.flow \in started'
    BY <1>1, <2>2, ChallengeBrings DEF ReceiveChallenge, Sending, Begun
  <2> QED BY <1>1, <2>1, <2>2, CacheKeeps DEF Cached, NoSession, Begun
<1>5. ended' \subseteq started'
  <2>1. ASSUME NEW t \in Tab, SubmitRejected(t) \/ Cancel(t) PROVE ended' \subseteq started'
    BY <1>1, <2>1 DEF SubmitRejected, Cancel, Displays, End, endVars, Begun
  <2>2. ASSUME NEW t \in Tab, SessionFails(t) \/ CallFails(t) \/ ReceiveDone(t)
        PROVE  ended' \subseteq started'
    BY <1>1, <2>2 DEF SessionFails, CallFails, ReceiveDone, End, Sending, Begun
  <2>3. CASE Trash
    BY <1>1, <2>3 DEF Trash
  <2>4. CASE UNCHANGED ended
    BY <1>1, <2>4 DEF Begun
  <2>5. \/ UNCHANGED ended \/ Trash
        \/ \E t \in Tab : \/ SubmitRejected(t) \/ Cancel(t) \/ SessionFails(t) \/ CallFails(t)
                          \/ ReceiveDone(t)
    BY DEF Next, Start, SubmitStep, StoreSession, Authenticated, ReceiveChallenge,
           CompleteSaves, CompleteFails, Dismiss, OpenForm, UserSave, Expire, vars, ghostVars,
           endVars
  <2> QED BY <2>1, <2>2, <2>3, <2>4, <2>5
<1> QED BY <1>2, <1>3, <1>4, <1>5 DEF Begun

\* A flow that ends without another request of its own, or excused, with an empty cache.
LEMMA EndExcuses ==
  ASSUME Typed, Forgotten, [Next]_vars, NEW t \in Tab, NEW f, End(t, f), cache' = NoSession,
         pc'[t] \notin Sending, UNCHANGED started,
         \A u \in Tab : pc'[u] \in Sending => pc[u] \in Sending /\ sess'[u] = sess[u]
  PROVE  SentIsExcused' /\ EndedIsForgotten'
<1>1. EndedIsForgotten'
  BY DEF Cached, EndedIsForgotten, NoSession
<1>2. SentIsExcused'
  BY DEF Forgotten, SentIsExcused, End, Running
<1> QED BY <1>1, <1>2

\* Every step leaves behind only what it may.
LEMMA ForgottenStep == Typed /\ Forgotten /\ [Next]_vars => Forgotten'
<1> SUFFICES ASSUME Typed, Forgotten, [Next]_vars PROVE SentIsExcused' /\ EndedIsForgotten'
  BY BegunStep DEF Forgotten
<1> USE NoneAssumption
<1>1. ASSUME NEW t \in Tab, NEW mode \in Modes, Start(t, mode)
      PROVE  SentIsExcused' /\ EndedIsForgotten'
  <2>1. PICK f \in Flow \ started :
          HoldSession(t, [flow |-> f, mode |-> mode, id |-> docConn, hash |-> None])
    BY <1>1 DEF Start
  <2>2. UNCHANGED <<cache, ended, excused>> /\ f \notin ended
    BY <1>1 DEF Start, endVars, Forgotten, Begun
  <2> QED BY <2>1, <2>2
          DEF HoldSession, Forgotten, SentIsExcused, EndedIsForgotten, Cached, Sending, Typed,
              TypeOK
<1>2. ASSUME NEW t \in Tab, SubmitStep(t) PROVE SentIsExcused' /\ EndedIsForgotten'
  BY <1>2 DEF SubmitStep, HoldSession, ghostVars, endVars, Forgotten, SentIsExcused,
              EndedIsForgotten, Cached, Sending, Typed, TypeOK
<1>3. ASSUME NEW t \in Tab, StoreSession(t) PROVE SentIsExcused' /\ EndedIsForgotten'
  <2>1. /\ cache' = sess[t] /\ UNCHANGED <<sess, ended, excused>> /\ pc[t] \in Sending
        /\ \A u \in Tab : pc'[u] \in Sending => pc[u] \in Sending
    BY <1>3 DEF StoreSession, ghostVars, endVars, Sending, Typed, TypeOK
  <2> QED BY <2>1 DEF Forgotten, SentIsExcused, EndedIsForgotten
<1>4. ASSUME NEW t \in Tab, SubmitRejected(t) PROVE SentIsExcused' /\ EndedIsForgotten'
  <2> DEFINE f == shown[t].flow
  <2>1. /\ UNCHANGED <<cache, pc, sess>> /\ ended' = ended \cup {f}
        /\ excused \subseteq excused' /\ pc[t] \notin Sending
    BY <1>4 DEF SubmitRejected, reqVars, Sending
  <2>2. cache.flow = f \/ Running(f, t) # {} => f \in excused'
    BY <1>4 DEF SubmitRejected
  <2>3. \A u \in Tab : pc[u] \in Sending /\ sess[u].flow = f => u \in Running(f, t)
    BY <2>1 DEF Running
  <2> HIDE DEF f
  <2> QED BY <2>1, <2>2, <2>3 DEF Forgotten, SentIsExcused, EndedIsForgotten, Cached
<1>5. ASSUME NEW t \in Tab, Cancel(t) PROVE SentIsExcused' /\ EndedIsForgotten'
  <2>1. UNCHANGED <<started, sess, pc>> /\ pc[t] = "idle"
    BY <1>5 DEF Cancel, reqVars
  <2>2. CASE docLive
    BY <1>5, <2>1, <2>2, EndExcuses DEF Cancel, Sending
  <2>3. CASE ~docLive
    BY <1>5, <2>1, <2>3 DEF Cancel, endVars, Forgotten, SentIsExcused, EndedIsForgotten, Cached
  <2> QED BY <2>2, <2>3
<1>6. ASSUME NEW t \in Tab, Authenticated(t) PROVE SentIsExcused' /\ EndedIsForgotten'
  BY <1>6 DEF Authenticated, ghostVars, endVars, Forgotten, SentIsExcused, EndedIsForgotten,
              Cached, Sending, Typed, TypeOK
<1>7. ASSUME NEW t \in Tab, SessionFails(t) PROVE SentIsExcused' /\ EndedIsForgotten'
  BY <1>7 DEF SessionFails, Return, Forgotten, SentIsExcused, EndedIsForgotten, Cached, Sending,
              Typed, TypeOK
<1>8. ASSUME NEW t \in Tab, ReceiveChallenge(t) PROVE SentIsExcused' /\ EndedIsForgotten'
  <2>1. cache'.flow = sess[t].flow /\ UNCHANGED <<ended, excused>>
    BY <1>8, ChallengeBrings DEF ReceiveChallenge, ghostVars, endVars
  <2>2. \A u \in Tab : pc'[u] \in Sending => pc[u] \in Sending /\ sess'[u] = sess[u]
    BY <1>8 DEF ReceiveChallenge, Return, Sending, Typed, TypeOK
  <2>3. sess[t].flow \in ended => sess[t].flow \in excused
    BY <1>8 DEF ReceiveChallenge, Forgotten, SentIsExcused, Sending
  <2> QED BY <2>1, <2>2, <2>3 DEF Forgotten, SentIsExcused, EndedIsForgotten
<1>9. ASSUME NEW t \in Tab, CallFails(t) \/ ReceiveDone(t)
      PROVE  SentIsExcused' /\ EndedIsForgotten'
  <2>1. /\ UNCHANGED started /\ cache' = NoSession /\ End(t, sess[t].flow)
        /\ pc'[t] \notin Sending
        /\ \A u \in Tab : pc'[u] \in Sending => pc[u] \in Sending /\ sess'[u] = sess[u]
    BY <1>9 DEF CallFails, ReceiveDone, Return, Sending, Typed, TypeOK
  <2> QED BY <2>1, EndExcuses
<1>10. ASSUME NEW t \in Tab, CompleteSaves(t) \/ CompleteFails(t)
       PROVE  SentIsExcused' /\ EndedIsForgotten'
  BY <1>10 DEF CompleteSaves, CompleteFails, Return, ghostVars, endVars, Forgotten,
               SentIsExcused, EndedIsForgotten, Cached, Sending, Typed, TypeOK
<1>11. ASSUME NEW t \in Tab, Dismiss(t) \/ OpenForm(t) PROVE SentIsExcused' /\ EndedIsForgotten'
  BY <1>11 DEF Dismiss, OpenForm, reqVars, ghostVars, endVars, Forgotten, SentIsExcused,
               EndedIsForgotten, Cached
<1>12. CASE Trash
  BY <1>12 DEF Trash, NoSession, reqVars, Forgotten, SentIsExcused, EndedIsForgotten, Cached
<1>13. CASE UserSave \/ Expire \/ UNCHANGED vars
  BY <1>13 DEF UserSave, Expire, vars, NoSession, reqVars, ghostVars, endVars, Forgotten,
               SentIsExcused, EndedIsForgotten, Cached
<1> QED BY <1>1, <1>2, <1>3, <1>4, <1>5, <1>6, <1>7, <1>8, <1>9, <1>10, <1>11, <1>12, <1>13
        DEF Next

\* Credentials outlive their flow in the three ways EndedIsForgotten names only.
THEOREM OnlyExcusedRemain == Spec => []EndedIsForgotten
<1>1. Init => Forgotten
  BY DEF Init, Forgotten, Begun, SentIsExcused, EndedIsForgotten, Cached, NoSession, Sending
<1>2. Forgotten => EndedIsForgotten
  BY DEF Forgotten
<1> QED BY <1>1, <1>2, TypedInit, TypedStep, ForgottenStep, PTL DEF Spec

----------------------------------------------------------------------------
(* Tabs that take turns: their answers and their connection.               *)

\* A tab with a request or a challenge.
Busy(t) == pc[t] # "idle" \/ ui[t] # "form"

OneBusy == \A t, u \in Tab : Busy(t) /\ Busy(u) => t = u

\* A session imports while there is no connection, and updates the one there is.
Fits(s) == IF s.mode = "import" THEN docConn = None ELSE s.id = docConn

RequestFits == \A t \in Tab : pc[t] \in Sending => Fits(sess[t])

\* While a challenge is on display, the hash that is cached is the one it came with.
CachedIsShown ==
  \A t \in Tab : ui[t] # "form" /\ cache.hash # None
    => cache.hash = shown[t].hash /\ cache.flow = shown[t].flow /\ Fits(cache)

\* The id that finAPI answered with is the first, or the one the document has.
AnswerFits ==
  \A t \in Tab : pc[t] = "complete" => docConn \in {None, CompletedId(t)}

InTurn ==
  /\ OneBusy /\ RequestFits /\ CachedIsShown /\ AnswerFits
  /\ AnswerMatchesChallenge

TurnInv == orderly => InTurn

\* A tab becomes busy when it starts a flow.
LEMMA BusyKeeps ==
  ASSUME Typed, [Next]_vars, NEW u \in Tab, Busy(u)'
  PROVE  Busy(u) \/ \E mode \in Modes : Start(u, mode)
<1>1. CASE ui'[u] # "form"
  BY <1>1, DisplaysKeep DEF Busy, ReceiveChallenge
<1>2. CASE pc'[u] \in Sending
  BY <1>2, RequestsKeep DEF Busy, Sending, SubmitStep, Displays
<1>3. CASE pc'[u] = "complete"
  BY <1>3, AnswersKeep DEF Busy, ReceiveDone
<1>4. pc'[u] \in {"idle", "complete"} \cup Sending
  BY TypedStep DEF Typed, TypeOK
<1> QED BY <1>1, <1>2, <1>3, <1>4 DEF Busy

\* Tabs that take turns have always done so, and a flow begins in turn.
LEMMA OrderlyKeeps ==
  ASSUME [Next]_vars, orderly'
  PROVE  orderly /\ \A t \in Tab, mode \in Modes : Start(t, mode) => TakesTurn(t)
<1>1. ASSUME NEW t \in Tab, NEW mode \in Modes, Start(t, mode) PROVE orderly /\ TakesTurn(t)
  BY <1>1 DEF Start
<1>2. UNCHANGED orderly \/ \E t \in Tab, mode \in Modes : Start(t, mode)
  BY DEF Next, SubmitStep, StoreSession, SubmitRejected, Cancel, Authenticated, SessionFails,
         ReceiveChallenge, CallFails, ReceiveDone, CompleteSaves, CompleteFails, Dismiss,
         OpenForm, UserSave, Trash, Expire, vars, ghostVars
<1> QED BY <1>1, <1>2

\* Only an answered flow changes finapi_connection_id.
LEMMA DocConnKeeps ==
  ASSUME [Next]_vars PROVE docConn' = docConn \/ \E t \in Tab : CompleteSaves(t)
BY DEF Next, Start, SubmitStep, StoreSession, SubmitRejected, Cancel, Authenticated, SessionFails,
       ReceiveChallenge, CallFails, ReceiveDone, CompleteFails, Dismiss, OpenForm, UserSave,
       Trash, Expire, vars, docVars

\* It leaves the id as it is, unless there was none.
LEMMA AnswersKeepId ==
  ASSUME InTurn, [Next]_vars, docConn # None PROVE docConn' = docConn
<1>1. ASSUME NEW t \in Tab, CompleteSaves(t) PROVE docConn' = docConn
  BY <1>1 DEF CompleteSaves, InTurn, AnswerFits
<1> QED BY <1>1, DocConnKeeps

\* Every step of tabs that take turns leaves all in order.
LEMMA TurnStep == Typed /\ TurnInv /\ [Next]_vars => TurnInv'
<1> SUFFICES ASSUME Typed, TurnInv, [Next]_vars, orderly' PROVE InTurn'
  BY DEF TurnInv
<1> USE NoneAssumption
<1>0. InTurn
  BY OrderlyKeeps DEF TurnInv
<1>1. ASSUME NEW t \in Tab, NEW mode \in Modes, Start(t, mode)
      PROVE  \A u \in Tab \ {t} : ~Busy(u)
  BY <1>1, OrderlyKeeps DEF TakesTurn, Busy
<1>2. OneBusy'
  <2> SUFFICES ASSUME NEW t \in Tab, NEW u \in Tab, Busy(t)', Busy(u)' PROVE t = u
    BY DEF OneBusy
  <2>1. \/ Busy(t) /\ Busy(u)
        \/ \E mode \in Modes : Start(t, mode) /\ (Busy(u) \/ \E m \in Modes : Start(u, m))
        \/ \E mode \in Modes : Start(u, mode) /\ Busy(t)
    BY BusyKeeps
  <2>2. ASSUME NEW m \in Modes, NEW mode \in Modes, Start(t, mode), Start(u, m) PROVE t = u
    <3>1. pc'[t] = "store" /\ pc[u] = "idle" /\ pc'[u] = "store"
      BY <2>2 DEF Start, LoginEntered, HoldSession, Typed, TypeOK
    <3> QED BY <2>2, <3>1 DEF Start, HoldSession, Typed, TypeOK
  <2> QED BY <1>0, <1>1, <2>1, <2>2 DEF InTurn, OneBusy
\* The answer that saves the document leaves no tab busy.
<1>3. ASSUME NEW t \in Tab, CompleteSaves(t)
      PROVE  \A u \in Tab : ~Busy(u)'
  <2>1. \A u \in Tab \ {t} : ~Busy(u)
    BY <1>0, <1>3 DEF CompleteSaves, InTurn, OneBusy, Busy
  <2>2. /\ \A u \in Tab \ {t} : pc'[u] = pc[u] /\ ui'[u] = ui[u]
        /\ pc'[t] = "idle" /\ ui'[t] = ui[t] /\ ui[t] = "form"
    BY <1>3 DEF CompleteSaves, Typed, TypeOK, AsksInForm
  <2> QED BY <2>1, <2>2 DEF Busy
<1>4. ASSUME NEW u \in Tab, Busy(u)' PROVE docConn' = docConn
  BY <1>3, <1>4, DocConnKeeps
<1>5. ASSUME NEW u \in Tab, pc'[u] \in Sending
      PROVE  /\ Fits(sess'[u])
             /\ sess'[u].hash # None
                  => sess'[u].hash = shown'[u].hash /\ sess'[u].flow = shown'[u].flow
  <2>1. CASE pc[u] \in Sending /\ sess'[u] = sess[u]
    <3>1. shown'[u] = shown[u]
      BY <1>5, RequestsKeep
    <3>2. orderly
      BY OrderlyKeeps
    <3> QED BY <1>0, <2>1, <3>1, <3>2 DEF InTurn, RequestFits, AnswerMatchesChallenge
  <2>2. ASSUME NEW mode \in Modes, Start(u, mode) PROVE Fits(sess'[u]) /\ sess'[u].hash = None
    <3>1. PICK f \in Flow :
            HoldSession(u, [flow |-> f, mode |-> mode, id |-> docConn, hash |-> None])
      BY <2>2 DEF Start
    <3>2. sess'[u] = [flow |-> f, mode |-> mode, id |-> docConn, hash |-> None]
      BY <3>1 DEF HoldSession, Typed, TypeOK
    <3>3. mode = "import" => docConn = None
      BY <2>2, OrderlyKeeps DEF Start, LoginEntered, Offered, TakesTurn
    <3> QED BY <3>2, <3>3 DEF Fits
  <2>3. CASE SubmitStep(u)
    <3>1. /\ sess'[u] = cache /\ shown'[u] = shown[u] /\ cache.hash # None
          /\ ui[u] # "form"
      BY <2>3 DEF SubmitStep, Displays, HoldSession, Typed, TypeOK
    <3> QED BY <1>0, <3>1 DEF InTurn, CachedIsShown
  <2> QED BY <1>5, <2>1, <2>2, <2>3, RequestsKeep
<1>6. RequestFits' /\ AnswerMatchesChallenge'
  <2>1. ASSUME NEW u \in Tab, pc'[u] \in Sending PROVE docConn' = docConn
    BY <1>4, <2>1 DEF Busy, Sending
  <2> QED BY <1>5, <2>1 DEF RequestFits, Fits, AnswerMatchesChallenge
<1>7. CachedIsShown'
  <2> SUFFICES ASSUME NEW u \in Tab, ui'[u] # "form", cache'.hash # None
               PROVE  /\ cache'.hash = shown'[u].hash /\ cache'.flow = shown'[u].flow
                      /\ Fits(cache')
    BY <1>4 DEF CachedIsShown, Fits, Busy
  <2>1. CASE ReceiveChallenge(u)
    <3>1. Fits(sess[u])
      BY <1>0, <2>1 DEF ReceiveChallenge, InTurn, RequestFits, Sending
    <3> QED BY <2>1, <3>1, ChallengeBrings DEF Fits
  <2>2. CASE ui[u] # "form" /\ shown'[u] = shown[u]
    <3>1. ASSUME NEW t \in Tab, StoreSession(t) \/ ReceiveChallenge(t) PROVE FALSE
      <4>1. pc[t] # "idle" /\ pc[u] = "idle"
        BY <2>2, <3>1 DEF StoreSession, ReceiveChallenge, Typed, AsksInForm
      <4> QED BY <1>0, <2>2, <4>1 DEF InTurn, OneBusy, Busy
    <3>2. cache' = cache
      BY <3>1, CacheKeeps DEF NoSession
    <3> QED BY <1>0, <2>2, <3>2 DEF InTurn, CachedIsShown
  <2> QED BY <2>1, <2>2, DisplaysKeep
<1>8. AnswerFits'
  <2> SUFFICES ASSUME NEW u \in Tab, pc'[u] = "complete"
               PROVE  docConn \in {None, CompletedId(u)'}
    BY <1>4 DEF AnswerFits, Busy
  <2>0. docConn' = docConn
    BY <1>4 DEF Busy
  <2>1. CASE ReceiveDone(u)
    <3>1. PICK i \in ConnId :
            /\ IF sess[u].mode = "update" THEN i = sess[u].id ELSE i \notin known
            /\ \E answered \in {i, None} : newId' = [newId EXCEPT ![u] = answered]
      BY <2>1 DEF ReceiveDone
    <3>2. Fits(sess[u]) /\ sess[u].mode \in Modes
      BY <1>0, <2>1 DEF ReceiveDone, InTurn, RequestFits, Sending, Typed, TypeOK, Sessions
    <3>3. docConn \in {None, i} /\ newId'[u] \in {i, None}
      BY <3>1, <3>2 DEF Fits, Modes, Typed, TypeOK
    <3>4. CompletedId(u)' \in {i, docConn}
      BY <2>0, <3>3 DEF CompletedId
    <3>5. CompletedId(u)' = i \/ newId'[u] = None
      BY <3>3 DEF CompletedId
    <3> QED BY <2>0, <3>3, <3>4, <3>5 DEF CompletedId
  <2>2. CASE pc[u] = "complete" /\ newId'[u] = newId[u]
    BY <1>0, <2>0, <2>2 DEF InTurn, AnswerFits, CompletedId
  <2> QED BY <2>1, <2>2, AnswersKeep
<1> QED BY <1>2, <1>6, <1>7, <1>8 DEF InTurn

\* The initial states are in order.
LEMMA TurnInit == Init => TurnInv
  BY NoneAssumption
  DEF Init, TurnInv, InTurn, OneBusy, Busy, RequestFits, CachedIsShown, AnswerFits,
      AnswerMatchesChallenge, NoSession, Sending

\* While the tabs take turns, every TAN goes out with the hash it answers.
THEOREM AnswersMatch == Spec => []AnswerMatchesChallenge
<1>1. TurnInv => AnswerMatchesChallenge
  BY DEF TurnInv, InTurn, AnswerMatchesChallenge
<1> QED BY <1>1, TurnInit, TurnStep, TypedInit, TypedStep, PTL DEF Spec

\* While the tabs take turns, finapi_connection_id is never exchanged.
THEOREM ConnectionStays == Spec => ConnectionIdKept
<1>1. TurnInv /\ [Next]_vars => [docConn # None /\ orderly => docConn' = docConn]_vars
  BY AnswersKeepId DEF TurnInv
<1> QED BY <1>1, TurnInit, TurnStep, TypedInit, TypedStep, PTL DEF Spec, ConnectionIdKept

=============================================================================
