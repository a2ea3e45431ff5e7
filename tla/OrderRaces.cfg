\* Two requests at a time on one order of up to two lines, to its delivery, or creating
\* up to three orders around a New Year.
SPECIFICATION MCRacesSpec
CONSTANTS
  v = v
  x = x
  y = y
  Admins = {a}
  Vendors = {v}
  Clients = {c}
  Wholesalers = {}
  VendorOf <- MCVendorOf
  NoVendor = NoVendor
  Persons = {}
  NoPerson = NoPerson
  NoTotal = NoTotal
  Nobody = Nobody
  Variants = {x}
  RetailPrice <- MCRetailPrice
  ListPrice <- MCListPrice
  Quantities = {1}
  MaxLines = 2
  MaxAttempts = 1
  FirstYear = 2025
  MaxYear = 2026
  MaxEntries = 6
  OrderIds = {o1, o2, o3}
  Sessions = {s1, s2}
SYMMETRY MCSymmetry
INVARIANTS
  TypeOK
  NumbersDense
  HistoryEndsAtStatus
  ChargesAvailable
  DatesAgree
  AttemptsNotInvented
CHECK_DEADLOCK FALSE
