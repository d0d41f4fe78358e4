SPECIFICATION BooksSpec
CONSTANTS
  MaxLevels = 3
  Ticks = {1, 2, 3, 4, 5}
  Qtys = {0, 1, 3}
  Depth = 2
  Prices = {10, 11, 14}
  Sizes = {0, 1, 2}
  ReanchorEvery = 2
  MaxPrints = 4
  Curves <- ThreeCurves
  StepNum = 3
  StepDen = 2
  KeptNum = 2
  KeptDen = 3
  SynthLevels = 2
  TakerQtys <- BuyAndSale
  MaxTime = 2
  MaxTaker = 2
  MaxStops = 2
  MaxPending = 2
INVARIANTS TypeOK ExactUntilEvicted LevelsAreVenues MomentsOfTape StaleOnlyWhereBlind
PROPERTIES RebuildWalksTheCurve
CHECK_DEADLOCK FALSE
