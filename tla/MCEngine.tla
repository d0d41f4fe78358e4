------------------------------ MODULE MCEngine ------------------------------
(***************************************************************************)
(* Small instances of Engine for TLC.  Every view has VWAP 20 and sigma 2; *)
(* an entry needs a z-score of -2.                                         *)
(***************************************************************************)
EXTENDS Engine, TLC

View(bid, ask, obi) ==
  [bid |-> bid, ask |-> ask, last |-> 18, obi |-> obi, vwap |-> 20, sigma |-> 2, volume |-> 10]

Dip      == View(14, 18, 40)    \* z = -2 with bid support: an entry
Plunge   == View(10, 14, 40)    \* z = -4: an entry, and a breach for a holder
Back     == View(18, 22, 0)     \* reverted to VWAP
AskWall  == View(14, 18, -40)   \* support collapsed
BidsOnly == View(14, 0, 100)    \* one-sided

DipViews  == {Dip}
WallViews == {Dip, Plunge, AskWall, BidsOnly}
FallViews == {Dip, Plunge}
DayViews  == {Dip, Plunge, Back}

CONSTANTS btc, doge

OnClob  == [i \in Instruments |-> "CLOB"]
OnCurve == [i \in Instruments |-> "CURVE"]
NegObi  == -30
OneOfEach == (btc :> "CLOB") @@ (doge :> "CURVE")
=============================================================================
