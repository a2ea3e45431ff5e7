\* Two requests at a time on two orders, never both on the same one.
SPECIFICATION MCExclusiveSpec
CONSTANTS
  v = v
  x = x
  y = y
  Admins = {a}
  Vendors = {v}
  Clients = {c}
  Wholesalers = {}
  VendorOf <- MCVendorOf
  NoVendor = NoVendor
  Persons = {}
  NoPerson = NoPerson
  NoTotal = NoTotal
  Nobody = Nobody
  Variants = {x}
  RetailPrice <- MCRetailPrice
  ListPrice <- MCListPrice
  Quantities = {1}
  MaxLines = 1
  MaxAttempts = 0
  FirstYear = 2025
  MaxYear = 2026
  MaxEntries = 4
  OrderIds = {o1, o2}
  Sessions = {s1, s2}
SYMMETRY MCSymmetry
PROPERTY ImplementsSerial
CHECK_DEADLOCK FALSE
