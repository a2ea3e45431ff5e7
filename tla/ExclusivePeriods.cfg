\* Two requests at a time, never on the same vendor: two vendors, three orders and three
\* weeks, with percentages that change.
SPECIFICATION ExclusiveSpec
CONSTANTS
  v1 = v1
  v2 = v2
  o1 = o1
  o2 = o2
  o3 = o3
  o4 = o4
  Vendors = {v1, v2}
  NoVendor = NoVendor
  Parcels = {o1, o2, o3}
  SellerOf <- MCSellerOf
  TotalOf <- MCTiedTotalOf
  Percentages = {0, 2500}
  NoPercentage = NoPercentage
  ActivePercentage = 3000
  MaxWeek = 3
  Sessions = {s1, s2}
SYMMETRY MCTiedSymmetry
INVARIANTS
  TypeOK
  BaseIsSales
  AmountExplained
PROPERTIES
  ClosedWeeks
  PaidStaysPaid
  ImplementsSerial
CHECK_DEADLOCK FALSE
