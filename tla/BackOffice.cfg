SPECIFICATION MCSpec
CONSTANTS
  MaxRequests = 3
  Routes <- MCRoutes
  Threads = 2
  Connections = 1
  MaxCommits = 1
  lab1 = lab1
  lab2 = lab2
  som = som
  labial = labial
  sombra = sombra
  MaxJobs = 3
  Workers = {w1, w2}
  MockProducts <- MCMockProducts
  Names = {labial, sombra}
  MockName <- MCMockName
  Category = cosmeticos
  a = a
  b = b
  labialx = labialx
  labialy = labialy
  x = x
  y = y
  category = category
  Skus = {a, b}
  Titles = {labialx, labialy}
  NameOf <- MCNameOf
  BrandOf <- MCBrandOf
  CategoryOf <- MCCategoryOf
  ProductIds = {1, 2}
  Sheet <- MCSheet
  MaxRows = 3
  OtherSkus = {a}
  NoTemplate = NoTemplate
  o1 = o1
  o2 = o2
  v1 = v1
  v2 = v2
  ShipOrders = {o1, o2}
  Vendors = {v1, v2}
  VendorOf <- MCVendorOf
  Persons = {courier, stranger}
  Couriers = {courier}
  Clerks = {c1, c2}
  OrderLists <- MCOrderLists
  MaxShipments = 2
  RetailPrices = {5, NoValue}
  ListPrice = 3
  OfferPrices = {4}
  OfferPcts = {50}
  MaxTime = 2
  NoValue = NoValue
INVARIANTS
  NoTwins
  ShipmentsCover
  OfferAnnounced
PROPERTIES
  EveryRequestEnds
  ImplementsJobs
  StoresRowsSinceLastError
  PlaceholderExplained
CHECK_DEADLOCK FALSE
