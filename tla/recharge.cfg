\* A page that waits, as for a response that is lost, is mounted once more.
SPECIFICATION StorefrontSpec
CONSTANTS
  k1 = k1
  k2 = k2
  k3 = k3
  k4 = k4
  ann = ann
  bob = bob
  Requests = {r1, r2}
  Keys = {k1, k2}
  Shoppers = {ann}
  Carts <- OneCart
  Products <- MCProducts
  Shelf <- MCShelf
  Prices = {1}
  StockLevels = {1}
  Jobs <- MCJobs
  NoJob = NoJob
  NoOrder = NoOrder
  MaxEdits = 0
  MaxFaults = 0
  MaxCrashes = 0
  MaxLosses = 1
  MaxMounts = 1
  MaxChanges = 0
  MaxQuantity = 2
SYMMETRY StorefrontSymmetry
CHECK_DEADLOCK FALSE
INVARIANTS
  ChargedOncePerCart
