\* The parts of a site that share no state, side by side in one run.
CONSTANTS
  Tx = {t1, t2, t3, t4, t5}
  PerPage = 2
  MaxPages = 2
  Id = {1, 2}
  Amount <- Cents
  NoAmount = NoAmount
  NoDate = NoDate
  NoReply = NoReply
  HoursPerDay = 24
  CronHours <- CronInstants
  MaxDelay = 3
  Request = {r1, r2}
  Own = {o1, o2}
  Generated <- MadeUp
  NoPassword = NoPassword
  NoUser = NoUser
  Tab = {a, b}
  volks = volks
  spar = spar
  old = old
  Bank = {volks, spar, old}
  Offers <- Directory
  NoBank = NoBank
  NoRequest = NoRequest
  Document = {d1, d2}
  Connection = {i1, i2}
  Discovery = {x1, x2}
  NoId = NoId
  NoDocument = NoDocument
SPECIFICATION SiteSpec
INVARIANTS
  PartsTypeOK
  ReadIsComplete MissesAtMostRemoved LedgerIsComplete
  ChallengeGoesOn ErrorsAreRecorded QuotaKept
  RegisteredCanLogIn CrashKeepsOwnPassword
  ImportIsOffered CredentialsFit AdoptedOnce
  MigrateNeverAborts CleanRunCompletes
PROPERTY ReadSpec
CHECK_DEADLOCK FALSE
