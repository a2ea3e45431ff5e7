\* One product with an offer and one reader, who buys what was shown.
SPECIFICATION OffersSpec
CONSTANTS
  RetailPrices = {5}
  ListPrice = 3
  OfferPrices = {4}
  OfferPcts = {50}
  MaxTime = 2
  NoValue = NoValue
INVARIANT OfferCharged
CHECK_DEADLOCK FALSE
