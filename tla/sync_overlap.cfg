\* Two jobs on one connection overlap and die; the account is linked late, unlinked and linked again.
CONSTANTS
  c1 = c1
  c2 = c2
  a1 = a1
  a2 = a2
  t1 = t1
  t2 = t2
  Conn = {c1}
  Account = {a1}
  Tx = {t1}
  ConnOf <- OneAccountConnOf
  AccountOf <- OnlyT1
  Job = {cron, web}
  Cron = cron
  Workers = 2
  Enabled = {c1}
  InitiallyLinked = {}
  OverlapDays = 1
  InitialDays = 2
  MaxRunDays = 1
  LastDay = 4
  UniqueIndex = TRUE
  Env <- OverlapEnv
SPECIFICATION Spec
INVARIANTS CursorCovers
PROPERTY FeedSpec
