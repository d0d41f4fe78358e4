SPECIFICATION LayersSpec
SYMMETRY LeaderSymmetry
CONSTANTS
  StartingEquity = 20
  MaxDailyDdPct = 10
  MaxGrossPct = 50
  SigmaTargetPct = 10
  BaseNotional = 6
  MinNotional = 2
  MinEdgeBps = 0
  MaxDay = 1
  Leaders = {BTC, SOL}
  LogPrices = {0, 1, 3}
  NoClose = NoClose
  CorrWindow = 2
  TrendinessMaxPct = 40
  VolFloorSquared = 2
  Equities <- SomeEquities
  MaxSamples = 3
  Sigmas = {0, 1, 3, 4}
  Vwaps = {0, 20}
  OpenNotionals = {0, 3, 4, 5, 8, 12}
  short = short
  long = long
  longer = longer
  huge = huge
  States <- FourStates
  Length <- Lengths
  HeadRoom = 1
  NoState = NoState
  SlotRoom = 3
  Mixes <- AllMixes
  MaxSeq = 3
  MaxDeaths = 2
INVARIANTS TypeOK MarkIsDaysPeak LatchedIffDrawdown SizingRespectsCap WindowIsMove HaltMeansFall
INVARIANTS LoadsKeptOrTried LoadsWholeStates
