\* One worker, two connections: the loop of the scheduled run and Sync Now take turns, and everything that can fail fails.
CONSTANTS
  c1 = c1
  c2 = c2
  a1 = a1
  a2 = a2
  t1 = t1
  t2 = t2
  Conn = {c1, c2}
  Account = {a1, a2}
  Tx = {t1}
  ConnOf <- TwoConnOf
  AccountOf <- OnlyT1
  Job = {cron, web}
  Cron = cron
  Workers = 1
  Enabled = {c1, c2}
  InitiallyLinked = {a1}
  OverlapDays = 1
  InitialDays = 2
  MaxRunDays = 1
  LastDay = 2
  UniqueIndex = FALSE
  Env <- SerialEnv
SPECIFICATION Spec
INVARIANTS TypeOK NoDouble CleanLogIsFresh SuccessRestoresSchedule OffScheduleSaysWhy
