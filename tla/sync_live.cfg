\* The scheduled run against a bank that demands TANs and refuses: what finAPI stores, and what the bank delivers, arrives.
CONSTANTS
  c1 = c1
  c2 = c2
  a1 = a1
  a2 = a2
  t1 = t1
  t2 = t2
  Conn = {c1}
  Account = {a1}
  Tx = {t1}
  ConnOf <- OneAccountConnOf
  AccountOf <- OnlyT1
  Job = {cron, web}
  Cron = cron
  Workers = 1
  Enabled = {c1}
  InitiallyLinked = {a1}
  OverlapDays = 1
  InitialDays = 2
  MaxRunDays = 1
  LastDay = 4
  UniqueIndex = TRUE
  Env <- PatientBank
SPECIFICATION FairSpec
PROPERTIES StoredReachesLedger BookedReachesLedger
