\* Two requests that activate one account: the link documented as of one use sets
\* two passwords.
SPECIFICATION Spec
CONSTANTS
  Emails = {e1}
  Passwords = {p, q}
  NoPassword = NoPassword
  NoVendor = NoVendor
  TokenIds = {k}
  Sessions = {s1, s2}
PROPERTY LinkUsedOnce
CHECK_DEADLOCK FALSE
