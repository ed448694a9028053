\* finAPI does not tell the expiry in its list of connections; the job never fails.
CONSTANTS
  ConsentDays = 4
  WarningDays = 2
  LatestDate = 4
  MaxMissed = 0
  ExpiryListed = FALSE
  NoCopy = NoCopy
  Stale = Stale
SPECIFICATION ConsentSpec
INVARIANT LapseIsAnnounced
