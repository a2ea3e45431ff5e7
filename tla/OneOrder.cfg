\* One order, every kind of user, up to two lines of two variants.
SPECIFICATION Spec
CONSTANTS
  a = a
  v = v
  c = c
  w = w
  x = x
  y = y
  Admins = {a}
  Vendors = {v}
  Clients = {c}
  Wholesalers = {w}
  VendorOf <- MCVendorOf
  NoVendor = NoVendor
  Persons = {}
  NoPerson = NoPerson
  NoTotal = NoTotal
  Nobody = Nobody
  Variants = {x, y}
  RetailPrice <- MCRetailPrice
  ListPrice <- MCListPrice
  Quantities = {1}
  MaxLines = 2
  MaxAttempts = 2
  FirstYear = 2025
  MaxYear = 2026
  OrderIds = {o1}
INVARIANTS
  TypeOK
  HistoryIsPath
  AttemptsNumbered
  TotalCharged
  MarkedOnce
  DatesAgree
  WholesaleGoesDirect
  RetailNeedsAdmin
  StageAgrees
  RevenuesReconcile
PROPERTIES
  FinalIsFrozen
CHECK_DEADLOCK FALSE
