\* Two orders of one vendor delivered at the same time, then a recalculation alone.
SPECIFICATION AloneSpec
CONSTANTS
  v1 = v1
  v2 = v2
  o1 = o1
  o2 = o2
  o3 = o3
  o4 = o4
  Vendors = {v1}
  NoVendor = NoVendor
  Parcels = {o1, o2}
  SellerOf <- MCSellerOf
  TotalOf <- MCTotalOf
  Percentages = {}
  NoPercentage = NoPercentage
  ActivePercentage = 3000
  MaxWeek = 2
  Sessions = {s1, s2}
PROPERTIES
  RecalculatedFromScratch
CHECK_DEADLOCK FALSE
