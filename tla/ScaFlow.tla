------------------------------- MODULE ScaFlow -------------------------------
(***************************************************************************)
(* Strong Customer Authentication of one bank connection (sca.py, its      *)
(* endpoints and the dialogs of the form).  The login credentials of a     *)
(* flow wait in the cache between the steps, under a key that names the    *)
(* connection only: every tab and every user shares it.                    *)
(*                                                                         *)
(* A tab sends one request at a time (the page is frozen meanwhile); the   *)
(* requests of different tabs interleave.  A request stores its session    *)
(* ("store"), opens one with finAPI ("auth"), calls finAPI ("call"), and   *)
(* may then save the document ("complete").                                *)
(***************************************************************************)
EXTENDS FiniteSets

CONSTANTS
  Tab,                 \* browser tabs, of one or of several users
  Flow,                \* flows that can be started: a set of credentials each
  Hash,                \* hashes finAPI can hand out with a challenge
  ConnId,              \* ids finAPI can give to a connection it imports
  None,                \* no flow, no hash, no id
  Env                  \* what the surroundings may do, of EnvEvents

EnvEvents == {"session fails", "call fails", "no hash", "save", "trash", "expire"}

ASSUME NoneAssumption == None \notin Flow \cup Hash \cup ConnId
ASSUME EnvAssumption == Env \subseteq EnvEvents

Modes == {"import", "update"}
Displays == {"dialog", "notice"}    \* of a challenge, with and without Cancel
Sessions == [flow : Flow \cup {None}, mode : Modes, id : ConnId \cup {None},
             hash : Hash \cup {None}]
NoSession == [flow |-> None, mode |-> "import", id |-> None, hash |-> None]
NoChallenge == [flow |-> None, hash |-> None]
Sending == {"store", "auth", "call"}    \* a request with credentials in hand

VARIABLES
  docLive, docConn,    \* the document exists; its finapi_connection_id
  cache,               \* the cached session, NoSession when there is none
  started,             \* flows whose credentials a user has typed in
  owner,               \* finAPI: the flow a hash was handed out to
  known,               \* finAPI: connections it has
  ui,                  \* tab: "form", "dialog" (with Cancel) or "notice" (without)
  view,                \* tab: finapi_connection_id in the loaded form
  shown,               \* tab: flow and hash of the challenge on display
  pc, sess, newId,     \* request of a tab: control, its session, the id it got
  stale,               \* request of a tab: the document was saved since it was read
  ended, excused,      \* history: flows that are over; those that ended without
                       \* session with finAPI, without hash, or with another
                       \* request of theirs still running
  orderly              \* history: the tabs took turns, see TakesTurn

docVars   == <<docLive, docConn>>
finapiVars == <<owner, known>>
tabVars   == <<ui, view, shown>>
reqVars   == <<pc, sess, newId, stale>>
endVars   == <<ended, excused>>
ghostVars == <<endVars, orderly>>
vars == <<docVars, cache, started, finapiVars, tabVars, reqVars, ghostVars>>

Init ==
  /\ docLive = TRUE
  /\ docConn \in ConnId \cup {None}
  /\ cache = NoSession
  /\ started = {}
  /\ owner = [h \in Hash |-> None]
  /\ known = {docConn} \ {None}
  /\ ui = [t \in Tab |-> "form"]
  /\ view = [t \in Tab |-> docConn]
  /\ shown = [t \in Tab |-> NoChallenge]
  /\ pc = [t \in Tab |-> "idle"]
  /\ sess = [t \in Tab |-> NoSession]
  /\ newId = [t \in Tab |-> None]
  /\ stale = [t \in Tab |-> FALSE]
  /\ ended = {} /\ excused = {} /\ orderly = TRUE

Cached == cache.flow # None

\* Requests that still carry the credentials of flow f, other than t's own.
Running(f, t) == {u \in Tab \ {t} : pc[u] \in Sending /\ sess[u].flow = f}

\* Tab t's request, or its user, ends flow f.
End(t, f) ==
  /\ ended' = ended \cup {f}
  /\ excused' = excused \cup {g \in {f} : Running(g, t) # {}}

\* The request of t has read the document and holds session s.
HoldSession(t, s) ==
  /\ sess' = [sess EXCEPT ![t] = s]
  /\ pc' = [pc EXCEPT ![t] = "store"]
  /\ UNCHANGED <<newId, stale>>

\* The request of t is answered; what it held is gone.
Return(t) ==
  /\ pc' = [pc EXCEPT ![t] = "idle"]
  /\ sess' = [sess EXCEPT ![t] = NoSession]
  /\ newId' = [newId EXCEPT ![t] = None]
  /\ stale' = [stale EXCEPT ![t] = FALSE]

ForgetChallenge(t) == shown' = [shown EXCEPT ![t] = NoChallenge]

\* A flow that begins in t while no other tab has a request or a challenge, from a
\* form that shows the document as it is.
TakesTurn(t) ==
  /\ view[t] = docConn
  /\ \A u \in Tab \ {t} : pc[u] = "idle" /\ ui[u] = "form"

----------------------------------------------------------------------------
(* The endpoints.                                                          *)

\* Slip: both are offered at any time.
OfferedAlways(t, mode) == TRUE

\* The buttons of the form: the import while it knows of no finAPI connection,
\* the update when it does.
Offered(t, mode) == view[t] = None <=> mode = "import"

\* start_sca: the user of a tab has filled in the login fields the bank declares.
LoginEntered(t, mode) ==
  /\ pc[t] = "idle" /\ ui[t] = "form"
  /\ Offered(t, mode)

\* start_import / start_update.  The server asks for the bank id, which is set, and
\* for an update for a connection; an import may come when there is one.
Start(t, mode) ==
  /\ LoginEntered(t, mode) /\ docLive
  /\ mode = "update" => docConn # None
  /\ \E f \in Flow \ started :
       /\ started' = started \cup {f}
       /\ HoldSession(t, [flow |-> f, mode |-> mode, id |-> docConn, hash |-> None])
  /\ orderly' = (orderly /\ TakesTurn(t))
  /\ UNCHANGED <<docVars, cache, finapiVars, tabVars, endVars>>

\* submit_sca_step: the answer goes with whatever session the cache holds.
SubmitStep(t) ==
  /\ pc[t] = "idle" /\ ui[t] \in Displays /\ docLive
  /\ Cached /\ cache.hash # None
  /\ HoldSession(t, cache)
  /\ ui' = [ui EXCEPT ![t] = "form"]
  /\ UNCHANGED <<docVars, cache, started, finapiVars, view, shown, ghostVars>>

\* The session is stored whole, over whatever has been stored since it was loaded.
StoreSession(t) ==
  /\ pc[t] = "store"
  /\ cache' = sess[t]
  /\ pc' = [pc EXCEPT ![t] = "auth"]
  /\ UNCHANGED <<docVars, started, finapiVars, tabVars, sess, newId, stale, ghostVars>>

\* No session, or one without a hash: the user is told to start again.
SubmitRejected(t) ==
  /\ pc[t] = "idle" /\ ui[t] \in Displays
  /\ ~docLive \/ ~Cached \/ cache.hash = None
  /\ ui' = [ui EXCEPT ![t] = "form"]
  /\ ended' = ended \cup {shown[t].flow}
  /\ excused' = excused \cup
       {f \in {shown[t].flow} : cache.flow = f \/ Running(f, t) # {}}
  /\ ForgetChallenge(t)
  /\ UNCHANGED <<docVars, cache, started, finapiVars, view, reqVars, orderly>>

\* Slip: Cancel answers without a challenge on display.
CancelAnywhere(t) ==
  /\ pc[t] = "idle"
  /\ ui' = [ui EXCEPT ![t] = "form"]
  /\ ForgetChallenge(t)
  /\ IF docLive THEN cache' = NoSession /\ End(t, shown[t].flow)
                ELSE UNCHANGED <<cache, endVars>>
  /\ UNCHANGED <<docVars, started, finapiVars, view, reqVars, orderly>>

\* The Cancel button of a dialog: it empties the key, whoever's session is in it.
Cancel(t) ==
  /\ pc[t] = "idle" /\ ui[t] = "dialog"
  /\ ui' = [ui EXCEPT ![t] = "form"]
  /\ ForgetChallenge(t)
  /\ IF docLive
     THEN /\ cache' = NoSession
          /\ End(t, shown[t].flow)
     ELSE UNCHANGED <<cache, endVars>>
  /\ UNCHANGED <<docVars, started, finapiVars, view, reqVars, orderly>>

----------------------------------------------------------------------------
(* One step towards finAPI (_send).                                         *)

Authenticated(t) ==
  /\ pc[t] = "auth"
  /\ pc' = [pc EXCEPT ![t] = "call"]
  /\ UNCHANGED <<docVars, cache, started, finapiVars, tabVars, sess, newId, stale, ghostVars>>

\* get_user_session raises; it stands before the try block.
SessionFails(t) ==
  /\ "session fails" \in Env /\ pc[t] = "auth"
  /\ Return(t)
  /\ ended' = ended \cup {sess[t].flow}
  /\ excused' = excused \cup {sess[t].flow}
  /\ ForgetChallenge(t)
  /\ UNCHANGED <<docVars, cache, started, finapiVars, ui, view, orderly>>

\* Slip: the new hash goes into whatever session the cache holds by now.
ReceiveChallengeIntoCache(t) ==
  /\ pc[t] = "call"
  /\ \E h \in Hash \cup {None}, dialog \in Displays :
       /\ IF h = None THEN "no hash" \in Env ELSE owner[h] = None
       /\ owner' = [g \in Hash |-> IF g = h THEN sess[t].flow ELSE owner[g]]
       /\ cache' = [cache EXCEPT !.hash = h]
       /\ shown' = [shown EXCEPT ![t] = [flow |-> sess[t].flow, hash |-> h]]
       /\ ui' = [ui EXCEPT ![t] = dialog]
  /\ Return(t)
  /\ UNCHANGED <<docVars, started, known, view, ghostVars>>

\* Slip: the hash of the first challenge is kept.
ReceiveChallengeKeepsHash(t) ==
  /\ pc[t] = "call"
  /\ \E h \in Hash \cup {None}, dialog \in Displays :
       /\ IF h = None THEN "no hash" \in Env ELSE owner[h] = None
       /\ owner' = [g \in Hash |-> IF g = h THEN sess[t].flow ELSE owner[g]]
       /\ cache' = [sess[t] EXCEPT !.hash = IF @ = None THEN h ELSE @]
       /\ shown' = [shown EXCEPT ![t] = [flow |-> sess[t].flow, hash |-> h]]
       /\ ui' = [ui EXCEPT ![t] = dialog]
  /\ Return(t)
  /\ UNCHANGED <<docVars, started, known, view, ghostVars>>

\* HTTP 510: the session is stored again, with the running hash, if there is one.
ReceiveChallenge(t) ==
  /\ pc[t] = "call"
  /\ \E h \in Hash \cup {None}, dialog \in Displays :
       /\ IF h = None THEN "no hash" \in Env ELSE owner[h] = None
       /\ owner' = [g \in Hash |-> IF g = h THEN sess[t].flow ELSE owner[g]]
       /\ cache' = [sess[t] EXCEPT !.hash = h]
       /\ shown' = [shown EXCEPT ![t] = [flow |-> sess[t].flow, hash |-> h]]
       /\ ui' = [ui EXCEPT ![t] = dialog]
  /\ Return(t)
  /\ UNCHANGED <<docVars, started, known, view, ghostVars>>

\* Slip: a failure leaves the session where it is.
CallFailsKeepsSession(t) ==
  /\ "call fails" \in Env /\ pc[t] = "call"
  /\ End(t, sess[t].flow)
  /\ Return(t) /\ ForgetChallenge(t)
  /\ UNCHANGED <<docVars, cache, started, finapiVars, ui, view, orderly>>

\* Any other failure, also a reply that is lost after finAPI did its part.
CallFails(t) ==
  /\ "call fails" \in Env /\ pc[t] = "call"
  /\ \/ UNCHANGED known
     \/ sess[t].mode = "import" /\ \E i \in ConnId \ known : known' = known \cup {i}
  /\ cache' = NoSession
  /\ End(t, sess[t].flow)
  /\ Return(t) /\ ForgetChallenge(t)
  /\ UNCHANGED <<docVars, started, owner, ui, view, orderly>>

\* The bank is satisfied: an import creates a connection, an update keeps its own.
\* The id may be missing from the answer.
ReceiveDone(t) ==
  /\ pc[t] = "call"
  /\ \E i \in ConnId :
       /\ IF sess[t].mode = "update" THEN i = sess[t].id ELSE i \notin known
       /\ known' = known \cup {i}
       /\ \E answered \in {i, None} : newId' = [newId EXCEPT ![t] = answered]
  /\ cache' = NoSession
  /\ End(t, sess[t].flow)
  /\ ForgetChallenge(t)
  /\ sess' = [sess EXCEPT ![t] = NoSession]
  /\ pc' = [pc EXCEPT ![t] = "complete"]
  /\ UNCHANGED <<docVars, started, owner, ui, view, stale, orderly>>

\* The id the document will have.
CompletedId(t) == IF newId[t] = None THEN docConn ELSE newId[t]

\* A save of the document; the requests that have read it hold an old one.
SavedUnder(t) == [u \in Tab |-> u # t /\ pc[u] # "idle"]

\* The document is saved if nobody saved or deleted it since the request read it;
\* the form reloads.
CompleteSaves(t) ==
  /\ pc[t] = "complete" /\ docLive /\ ~stale[t]
  /\ docConn' = CompletedId(t)
  /\ view' = [view EXCEPT ![t] = CompletedId(t)]
  /\ pc' = [pc EXCEPT ![t] = "idle"]
  /\ newId' = [newId EXCEPT ![t] = None]
  /\ stale' = SavedUnder(t)
  /\ UNCHANGED <<docLive, cache, started, finapiVars, ui, shown, sess, ghostVars>>

\* The accounts cannot be read, or the document is not the one that was read.
CompleteFails(t) ==
  /\ pc[t] = "complete"
  /\ ~docLive \/ stale[t] \/ "call fails" \in Env
  /\ Return(t)
  /\ UNCHANGED <<docVars, cache, started, finapiVars, tabVars, ghostVars>>

----------------------------------------------------------------------------
(* Around the flows.                                                        *)

\* A dialog is closed by its cross, a notice by its only other way out.
Dismiss(t) ==
  /\ pc[t] = "idle" /\ ui[t] \in Displays
  /\ ui' = [ui EXCEPT ![t] = "form"]
  /\ ForgetChallenge(t)
  /\ UNCHANGED <<docVars, cache, started, finapiVars, view, reqVars, ghostVars>>

\* The form is opened or reloaded.
OpenForm(t) ==
  /\ pc[t] = "idle" /\ ui[t] = "form" /\ docLive
  /\ view' = [view EXCEPT ![t] = docConn]
  /\ UNCHANGED <<docVars, cache, started, finapiVars, ui, shown, reqVars, ghostVars>>

UserSave ==
  /\ "save" \in Env /\ docLive
  /\ stale' = [u \in Tab |-> pc[u] # "idle"]
  /\ UNCHANGED <<docVars, cache, started, finapiVars, tabVars, pc, sess, newId, ghostVars>>

Trash ==
  /\ "trash" \in Env /\ docLive
  /\ docLive' = FALSE
  /\ cache' = NoSession
  /\ ended' = started
  /\ excused' = excused \cup {sess[u].flow : u \in {v \in Tab : pc[v] \in Sending}}
  /\ UNCHANGED <<docConn, started, finapiVars, tabVars, reqVars, orderly>>

\* SESSION_TTL_SECONDS after it was last stored.
Expire ==
  /\ "expire" \in Env /\ Cached
  /\ cache' = NoSession
  /\ UNCHANGED <<docVars, started, finapiVars, tabVars, reqVars, ghostVars>>

Next ==
  \/ \E t \in Tab : \/ \E mode \in Modes : Start(t, mode)
                    \/ SubmitStep(t) \/ SubmitRejected(t) \/ Cancel(t)
                    \/ StoreSession(t) \/ Authenticated(t) \/ SessionFails(t)
                    \/ ReceiveChallenge(t) \/ CallFails(t) \/ ReceiveDone(t)
                    \/ CompleteSaves(t) \/ CompleteFails(t)
                    \/ Dismiss(t) \/ OpenForm(t)
  \/ UserSave \/ Trash \/ Expire

Spec == Init /\ [][Next]_vars

----------------------------------------------------------------------------
(* Properties.                                                              *)

\* Every variable holds a value of its kind; a session is stored or sent whole,
\* with its credentials, mode, connection id and hash.
TypeOK ==
  /\ docLive \in BOOLEAN /\ docConn \in ConnId \cup {None}
  /\ cache \in Sessions /\ started \in SUBSET Flow
  /\ owner \in [Hash -> Flow \cup {None}] /\ known \in SUBSET ConnId
  /\ ui \in [Tab -> {"form", "dialog", "notice"}]
  /\ view \in [Tab -> ConnId \cup {None}]
  /\ shown \in [Tab -> [flow : Flow \cup {None}, hash : Hash \cup {None}]]
  /\ pc \in [Tab -> {"idle", "complete"} \cup Sending]
  /\ sess \in [Tab -> Sessions] /\ newId \in [Tab -> ConnId \cup {None}]
  /\ stale \in [Tab -> BOOLEAN]
  /\ ended \in SUBSET Flow /\ excused \in SUBSET Flow /\ orderly \in BOOLEAN

\* However tabs overtake each other on the shared key, a hash is only ever sent
\* to finAPI, or kept for the next step, beside the credentials it was issued for.
HashMatchesCredentials ==
  /\ cache.hash # None => owner[cache.hash] = cache.flow
  /\ \A t \in Tab : pc[t] \in Sending /\ sess[t].hash # None
                      => owner[sess[t].hash] = sess[t].flow

\* Success, cancel, failure and deletion leave no credentials behind, nor do they
\* come back: but for a flow that finAPI gave no session or no hash, or that had
\* another request under way when it ended.
EndedIsForgotten == Cached /\ cache.flow \in ended => cache.flow \in excused

\* The same without exceptions, as sca.py and the dialog put it.
DroppedWhenFlowEnds == Cached => cache.flow \notin ended

\* While the tabs take turns, the TAN a user types goes out with the hash of the
\* challenge it answers, through expiry, dismissed dialogs, failures and restarts.
AnswerMatchesChallenge ==
  orderly =>
    \A t \in Tab : pc[t] \in Sending /\ sess[t].hash # None
      => sess[t].hash = shown[t].hash /\ sess[t].flow = shown[t].flow

\* While the tabs take turns, an imported connection stays on its finAPI connection:
\* no flow, retry or re-consent exchanges finapi_connection_id.
ConnectionIdKept ==
  [][docConn # None /\ orderly => docConn' = docConn]_vars
=============================================================================
