CONSTANTS
  btc = btc
  doge = doge
  Instruments = {btc}
  Leaders = {btc}
  Kind <- OnClob
  Books <- DayViews
  EnableNightQuoting = TRUE
  Attempts = 1
  Faults = {"crash", "raise", "reject", "clear"}
  MaxDay = 1
  MaxPnl = 0
  StartingEquity = 100
  MaxDailyDdPct = 10
  MaxGrossPct = 50
  SigmaTargetPct = 10
  BaseNotional = 32
  MinNotional = 20
  MinEdgeBps = 2000
  EntryZ = 20
  ExitZ = 0
  ObiMin = 15
  ObiFlip <- NegObi
  NightK = 35
  MinSigma = 0
  MinVolume = 0
SPECIFICATION Spec
INVARIANTS TypeOK GateFollowsRisk LedgerMatchesPosition QuoteIsGoverned
PROPERTIES ImplementsLifecycle
