\* Two overlapping requests with one key.
SPECIFICATION Spec
CONSTANTS
  r1 = r1
  r2 = r2
  r3 = r3
  Requests = {r1, r2}
  Keys = {"k1", "k2"}
  Products <- MCProducts
  Shelf <- MCShelf
  Prices = {1}
  StockLevels = {1}
  Jobs <- RivalJobs
  NoJob = NoJob
  NoOrder = NoOrder
  MaxEdits = 0
  MaxFaults = 0
  MaxCrashes = 0
SYMMETRY RequestSymmetry
CHECK_DEADLOCK FALSE
INVARIANTS
  NeverChargedTwice
