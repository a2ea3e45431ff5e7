\* Two requests at a time on up to three accounts.
SPECIFICATION Spec
CONSTANTS
  Emails = {e1, e2, e3}
  Passwords = {p, q}
  NoPassword = NoPassword
  NoVendor = NoVendor
  TokenIds = {k}
  Sessions = {s1, s2}
SYMMETRY MCSymmetry
INVARIANTS
  TypeOK
  RowsTogether
  LinkSpentIffActive
  SignupsNotInvented
  SessionKept
PROPERTY PasswordFinal
CHECK_DEADLOCK FALSE
