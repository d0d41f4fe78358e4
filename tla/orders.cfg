SPECIFICATION OrdersSpec
CONSTANTS
  MaxSubmits = 2
  Attempts = 3
  Faults = {"lose", "reject", "refuse_cancel", "raise"}
  order1 = order1
  order2 = order2
  mint = mint
  Orders <- BothOrders
  Mints <- OneMint
  MintOf <- OfOneMint
  Ttl = 2
  Timeout = 1
  MaxAge = 4
  Tries = 2
  Patience = 1
INVARIANTS TypeOK OneOrderPerSubmit RestingIsTracked SwapTypes OneSwapPerOrder FailedMeansUnfilled
PROPERTIES NoStaleBuy NoRedundantSweep EveryOrderAnswered
CHECK_DEADLOCK FALSE
