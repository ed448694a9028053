\* A short calendar; every writer, syncs, failing jobs.
CONSTANTS
  ConsentDays = 3
  WarningDays = 2
  LatestDate = 4
  MaxMissed = 1
  ExpiryListed = TRUE
  NoCopy = NoCopy
  Stale = Stale
SPECIFICATION FairConsentSpec
INVARIANTS ConsentTypeOK LapseIsAnnounced
PROPERTIES RenewedConsentKept LapseGetsFlagged
