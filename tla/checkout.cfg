\* Two requests on two keys, under an admin edit, a failing call and a crash.
SPECIFICATION Spec
CONSTANTS
  r1 = r1
  r2 = r2
  r3 = r3
  Requests = {r1, r2}
  Keys = {"k1", "k2"}
  Products <- MCProducts
  Shelf <- MCShelf
  Prices = {1}
  StockLevels = {1}
  Jobs <- AllJobs
  NoJob = NoJob
  NoOrder = NoOrder
  MaxEdits = 1
  MaxFaults = 1
  MaxCrashes = 1
CHECK_DEADLOCK FALSE
INVARIANTS
  StockNeverNegative
  OneOrderPerKey
  OrdersArePaid
  StockConserved
  NeverOversold
  OrderMatchesCart
  RefusalLeavesNoTrace
  ChargesAreRecorded
PROPERTIES
  ImplementsPurchase
  Responds
  PaidBecomesOrder
