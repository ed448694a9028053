\* The cron run and Sync Now overlap; nothing fails.
CONSTANTS
  c1 = c1
  c2 = c2
  a1 = a1
  a2 = a2
  t1 = t1
  t2 = t2
  Conn = {c1}
  Account = {a1}
  Tx = {t1}
  ConnOf <- OneAccountConnOf
  AccountOf <- OnlyT1
  Job = {cron, web}
  Cron = cron
  Workers = 2
  Enabled = {c1}
  InitiallyLinked = {a1}
  OverlapDays = 1
  InitialDays = 2
  MaxRunDays = 1
  LastDay = 2
  UniqueIndex = TRUE
  Env <- Nothing
SPECIFICATION Spec
INVARIANT DuplicatesCostNothing
