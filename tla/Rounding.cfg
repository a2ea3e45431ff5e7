\* The percentage never changes: recalculating rounds the sum, not the parts.
SPECIFICATION Spec
CONSTANTS
  v1 = v1
  v2 = v2
  o1 = o1
  o2 = o2
  o3 = o3
  o4 = o4
  Vendors = {v1}
  NoVendor = NoVendor
  Parcels = {o1, o2}
  SellerOf <- MCSellerOf
  TotalOf <- MCTotalOf
  Percentages = {}
  NoPercentage = NoPercentage
  ActivePercentage = 3000
  MaxWeek = 3
PROPERTIES
  RecalculationAgrees
CHECK_DEADLOCK FALSE
