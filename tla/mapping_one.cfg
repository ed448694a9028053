\* One connection with two accounts, three Bank Accounts, one of them disabled; one account has an IBAN. An accountant enters that IBAN and another one, a user types the other one into rows, finAPI lists accounts on and off.
CONSTANTS
  c1 = c1
  c2 = c2
  acct1 = acct1
  acct2 = acct2
  iban1 = iban1
  iban2 = iban2
  Conn = {c1}
  Acct = {acct1, acct2}
  ConnOf <- OneConn
  BankAccount = {b1, b2, b3}
  Disabled = {b3}
  Iban = {iban1, iban2}
  IbanOf <- OneIban
  None = None
  Absent = Absent
  FormIban = {iban2}
  Env <- Everything
SPECIFICATION Spec
SYMMETRY Alike
INVARIANTS TypeOK IntegrationUnique LinkedIsMirrored RemovedStaysRemoved ForeignIbanKept
