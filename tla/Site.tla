-------------------------------- MODULE Site --------------------------------
(***************************************************************************)
(* The parts of a site that share no state, side by side: the initial      *)
(* state picks a part, and only this part moves.  The state spaces add up, *)
(* instead of multiplying to interleavings that mean nothing.              *)
(***************************************************************************)
EXTENDS TransactionPages, TransactionMapping, FinApiClient, UnattendedQuota,
        Registration, BankSetup, Adoption, Installation

VARIABLE part

everything == <<part, vars, mappingVars, clientVars, quotaVars, registrationVars, setupVars,
                adoptionVars, siteVars>>

SiteInit ==
  /\ part \in {"pages", "mapping", "client", "quota", "registration", "setup",
               "adoption", "installation"}
  /\ Init /\ MappingInit /\ ClientInit /\ QuotaInit /\ RegistrationInit /\ SetupInit
  /\ AdoptionInit /\ InstallationInit

Others(moving) ==
  /\ moving = part /\ UNCHANGED part
  /\ moving # "pages" => UNCHANGED vars
  /\ moving # "mapping" => UNCHANGED mappingVars
  /\ moving # "client" => UNCHANGED clientVars
  /\ moving # "quota" => UNCHANGED quotaVars
  /\ moving # "registration" => UNCHANGED registrationVars
  /\ moving # "setup" => UNCHANGED setupVars
  /\ moving # "adoption" => UNCHANGED adoptionVars
  /\ moving # "installation" => UNCHANGED siteVars

SiteNext ==
  \/ Others("pages") /\ Next
  \/ Others("mapping") /\ MappingNext
  \/ Others("client") /\ ClientNext
  \/ Others("quota") /\ QuotaNext
  \/ Others("registration") /\ RegistrationNext
  \/ Others("setup") /\ SetupNext
  \/ Others("adoption") /\ AdoptionNext
  \/ Others("installation") /\ InstallationNext

SiteSpec == SiteInit /\ [][SiteNext]_everything

----------------------------------------------------------------------------
(* Properties.                                                             *)

\* The types of every part's variables.
PartsTypeOK ==
  /\ TypeOK /\ MappingTypeOK /\ ClientTypeOK /\ QuotaTypeOK /\ RegistrationTypeOK
  /\ SetupTypeOK /\ AdoptionTypeOK /\ InstallationTypeOK
=============================================================================
