\* A corrected mapping; the Bank Account had its IBAN from an accountant.
CONSTANTS
  c1 = c1
  c2 = c2
  acct1 = acct1
  acct2 = acct2
  iban1 = iban1
  iban2 = iban2
  Conn = {c1}
  Acct = {acct1, acct2}
  ConnOf <- OneConn
  BankAccount = {b1, b2}
  Disabled = {}
  Iban = {iban1, iban2}
  IbanOf <- OwnIbans
  None = None
  Absent = Absent
  FormIban = {}
  Env <- Editing
SPECIFICATION Spec
INVARIANT OwnIbanKept
