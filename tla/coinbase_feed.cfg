SPECIFICATION FairSpec
CONSTANTS
  MaxVersion = 3
  MaxTrades = 2
  MaxFaults = 3
  MaxChannel = 3
  Faults = {"lose", "duplicate", "unnumbered", "error", "close"}
INVARIANTS TypeOK BookNeverWrong BookFollowsChannel
PROPERTIES EventuallyResynced
CHECK_DEADLOCK FALSE
