\* Two requests at a time on the same order: a final status is overwritten.
SPECIFICATION Spec
CONSTANTS
  v = v
  x = x
  y = y
  Admins = {a}
  Vendors = {v}
  Clients = {c}
  Wholesalers = {}
  VendorOf <- MCVendorOf
  NoVendor = NoVendor
  Persons = {}
  NoPerson = NoPerson
  NoTotal = NoTotal
  Nobody = Nobody
  Variants = {x}
  RetailPrice <- MCRetailPrice
  ListPrice <- MCListPrice
  Quantities = {1}
  MaxLines = 1
  MaxAttempts = 0
  FirstYear = 2025
  MaxYear = 2025
  MaxEntries = 4
  OrderIds = {o1}
  Sessions = {s1, s2}
PROPERTIES
  FinalIsFinal
CHECK_DEADLOCK FALSE
