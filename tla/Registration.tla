----------------------------- MODULE Registration -----------------------------
(***************************************************************************)
(* register of one finAPI User: create_user at finAPI, in the environment  *)
(* of the settings whatever the record's is, then the save of the record.  *)
(* Between the two the worker may die, the reply be lost, the form be      *)
(* saved, or another tab ask for a second creation.                        *)
(***************************************************************************)
EXTENDS Naturals

CONSTANTS
  Request,             \* requests that can be under way at once
  Own,                 \* passwords people choose
  Generated(_),        \* the one finAPI makes up in an environment
  NoPassword, NoUser

Environment == {"Sandbox", "Live"}
Passwords == Own \cup {Generated(e) : e \in Environment}

ASSUME RegistrationAssumption == NoPassword \notin Passwords /\ NoUser \notin Passwords

VARIABLES
  environment,         \* finAPI Settings
  pool,                \* finAPI: the password of the user in each environment, or NoUser
  belongs,             \* the record: its environment
  password, registered,  \* the record: finapi_password, is_registered
  form,                \* what a form shows as the password, and is its copy fresh
  req,                 \* requests: pc, password read, answer, environment, copy fresh
  home,                \* history: the environment of the registration saved last
  given,               \* history: was a password given when the user was created
  edited               \* history: people typed another one since, or meanwhile

registrationVars ==
  <<environment, belongs, pool, password, registered, form, req, home, given, edited>>

Idle == [pc |-> "idle", read |-> NoPassword, answer |-> NoPassword,
         at |-> "Sandbox", fresh |-> FALSE]
Closed == [shows |-> "closed", fresh |-> FALSE]

RegistrationInit ==
  /\ environment = "Sandbox" /\ belongs = "Sandbox" /\ pool = [e \in Environment |-> NoUser]
  /\ password = NoPassword /\ registered = FALSE
  /\ form = Closed /\ req = [r \in Request |-> Idle]
  /\ home = "Sandbox" /\ given = [e \in Environment |-> FALSE] /\ edited = FALSE

\* A save makes the copies that requests hold stale.
StaleRequests == [r \in Request |-> [req[r] EXCEPT !.fresh = FALSE]]

----------------------------------------------------------------------------
(* The Desk.                                                               *)

SwitchEnvironment ==
  /\ environment' \in Environment \ {environment}
  /\ UNCHANGED <<belongs, pool, password, registered, form, req, home, given, edited>>

\* A stored password is shown as dots.
OpenUser ==
  /\ form' = [shows |-> IF password = NoPassword THEN "nothing" ELSE "dots", fresh |-> TRUE]
  /\ UNCHANGED <<environment, belongs, pool, password, registered, req, home, given, edited>>

FormAccepted == form.fresh

\* Dots leave the stored password alone, people type another or clear it.
SaveUser ==
  /\ FormAccepted /\ belongs' \in Environment
  /\ \/ password' = (IF form.shows = "dots" THEN password ELSE NoPassword) /\ UNCHANGED edited
     \/ /\ password' \in (Own \cup {NoPassword}) \ {password}
        /\ edited' = (\/ edited \/ \E e \in Environment : pool[e] # NoUser
                      \/ \E r \in Request : req[r].pc # "idle")
  /\ form' = Closed /\ req' = StaleRequests
  /\ UNCHANGED <<environment, pool, registered, home, given>>

----------------------------------------------------------------------------
(* register.  The form offers it until the record is registered; a tab     *)
(* that was opened earlier still does.                                     *)

Register(r) ==
  /\ req[r].pc = "idle"
  /\ req' = [req EXCEPT ![r] = [pc |-> "create", read |-> password, answer |-> NoPassword,
                                at |-> environment, fresh |-> TRUE]]
  /\ UNCHANGED <<environment, belongs, pool, password, registered, form, home, given, edited>>

\* Slip: the record's password is not passed on.
CreatedAnew(e, own) == Generated(e)

\* The new user's password: the one given, or else one of finAPI's.
Created(e, own) == IF own = NoPassword THEN Generated(e) ELSE own

\* finAPI refuses a user it has.  The reply, or the worker, may be lost afterwards.
CreateUser(r) ==
  LET e == req[r].at
  IN /\ req[r].pc = "create"
     /\ IF pool[e] # NoUser
        THEN req' = [req EXCEPT ![r] = Idle] /\ UNCHANGED <<pool, given>>
        ELSE /\ pool' = [pool EXCEPT ![e] = Created(e, req[r].read)]
             /\ given' = [given EXCEPT ![e] = req[r].read # NoPassword]
             /\ \/ req' = [req EXCEPT ![r].pc = "save", ![r].answer = pool'[e]]
                \/ req' = [req EXCEPT ![r] = Idle]
     /\ UNCHANGED <<environment, belongs, password, registered, form, home, edited>>

\* Slip: the password that finAPI made up is not kept.
KeptOfRecord(own, answer) == own

Kept(own, answer) == IF own = NoPassword THEN answer ELSE own

\* Refused when the record was saved meanwhile.
SaveRegistered(r) ==
  /\ req[r].pc = "save"
  /\ IF req[r].fresh
     THEN /\ password' = Kept(req[r].read, req[r].answer)
          /\ registered' = TRUE /\ home' = req[r].at
          /\ form' = [form EXCEPT !.fresh = FALSE]
          /\ req' = [StaleRequests EXCEPT ![r] = Idle]
     ELSE req' = [req EXCEPT ![r] = Idle] /\ UNCHANGED <<password, registered, home, form>>
  /\ UNCHANGED <<environment, belongs, pool, given, edited>>

RegistrationNext ==
  \/ SwitchEnvironment \/ OpenUser \/ SaveUser
  \/ \E r \in Request : Register(r) \/ CreateUser(r) \/ SaveRegistered(r)

RegistrationSpec == RegistrationInit /\ [][RegistrationNext]_registrationVars

----------------------------------------------------------------------------
(* Properties.                                                             *)

RegistrationTypeOK ==
  /\ {environment, belongs, home} \subseteq Environment
  /\ pool \in [Environment -> Passwords \cup {NoUser}]
  /\ password \in Passwords \cup {NoPassword} /\ registered \in BOOLEAN
  /\ form \in [shows : {"closed", "nothing", "dots"}, fresh : BOOLEAN]
  /\ req \in [Request -> [pc : {"idle", "create", "save"}, read : Passwords \cup {NoPassword},
                          answer : Passwords \cup {NoPassword}, at : Environment,
                          fresh : BOOLEAN]]
  /\ given \in [Environment -> BOOLEAN] /\ edited \in BOOLEAN

\* get_user_session: the record belongs to the environment of the settings and has a
\* password, which finAPI accepts there.
LogsIn == belongs = environment /\ password # NoPassword /\ password = pool[environment]

\* Who was registered in the environment that settings and record name can log in there,
\* whatever forms, other tabs and lost replies did, as long as nobody typed another
\* password.  (A record of the other environment is registered all the same.)
RegisteredCanLogIn ==
  registered /\ ~edited /\ home = environment /\ belongs = environment => LogsIn

\* With a password of one's own, a crash between create_user and the save costs the
\* flag only: the record still has what finAPI has.
CrashKeepsOwnPassword ==
  \A e \in Environment : given[e] /\ ~edited => password = pool[e]

=============================================================================
