-------------------------- MODULE MCConsentWatchdog --------------------------
(* Instances of ConsentWatchdog for TLC.                                      *)
EXTENDS ConsentWatchdog
=============================================================================
