\* One shopper and three requests; a lost response, a second mount of the page (a
\* load, or a return to it while its submit runs on), a change of the cart and a
\* failing call.
SPECIFICATION StorefrontSpec
CONSTANTS
  k1 = k1
  k2 = k2
  k3 = k3
  k4 = k4
  ann = ann
  bob = bob
  Requests = {r1, r2, r3}
  Keys = {k1, k2, k3, k4}
  Shoppers = {ann}
  Carts <- MCCarts
  Products <- MCProducts
  Shelf <- MCShelf
  Prices = {1}
  StockLevels = {1}
  Jobs <- MCJobs
  NoJob = NoJob
  NoOrder = NoOrder
  MaxEdits = 0
  MaxFaults = 1
  MaxCrashes = 0
  MaxLosses = 1
  MaxMounts = 1
  MaxChanges = 1
  MaxQuantity = 2
SYMMETRY StorefrontSymmetry
CHECK_DEADLOCK FALSE
INVARIANTS
  StorefrontTypeOK
  KeyChargedOnce
  ShownOrderMatchesCart
PROPERTIES
  ClearedWasBought
