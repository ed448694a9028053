------------------------------- MODULE MCSite -------------------------------
(* An instance of Site: two or three of everything, and the cron's hours.  *)
EXTENDS Site, TLC

CONSTANTS volks, spar, old     \* banks

Cents == {-501, 0, 501}
CronInstants == {7, 11, 15, 19}
MadeUp(environ) == <<environ>>
Directory == volks :> <<"FINTS_SERVER">> @@ spar :> <<"XS2A", "FINTS_SERVER">> @@ old :> <<>>
=============================================================================
