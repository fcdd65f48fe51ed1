SPECIFICATION Spec
CONSTANTS
  c1 = c1
  c2 = c2
  stock = stock
  Clients = {c1, c2}
  Symbols = {stock}
  InitialCash = 9
  Price = 3
  Slip = 1
  Fee = 1
  MaxQty = 2
  MaxOrders = 3
  MaxResets = 2
  MaxFaults = 1
  NoClient = NoClient
SYMMETRY ClientSymmetry
INVARIANT BooksBalance
INVARIANT ExposedBeforeShort
INVARIANT RejectedLeavesNoTrade
CHECK_DEADLOCK FALSE
