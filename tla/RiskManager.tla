----------------------------- MODULE RiskManager -----------------------------
(***************************************************************************)
(* The portfolio risk layer (python/meanrev/risk.py): a daily drawdown     *)
(* breaker that latches, the verdict of the leader-correlation filter, and *)
(* position sizing inside a gross-exposure cap.                            *)
(*                                                                         *)
(* Money is an integer number of account units; percentages are integers   *)
(* and every comparison of ratios in the code is cross-multiplied, so no   *)
(* rounding enters a comparison.  Sizes round down to a unit of money.     *)
(***************************************************************************)
EXTENDS Integers

CONSTANTS
  StartingEquity,   \* RiskManager(cfg, starting_equity)
  MaxDailyDdPct,    \* max_daily_dd_pct
  MaxGrossPct,      \* max_gross_exposure_pct
  SigmaTargetPct,   \* sigma_target_daily, in percent
  BaseNotional,     \* base_notional
  MinNotional,      \* min_notional
  MinEdgeBps,       \* min_edge_bps = 2 * fee_bps_per_side + min_profit_bps
  MaxDay            \* bound: the last UTC day the clock reaches

(* What a sensible RiskConfig satisfies; the class validates nothing.      *)
ASSUME RiskConfigAssumption ==
  /\ StartingEquity \in Nat \ {0}
  /\ MaxDailyDdPct \in 1..100
  /\ MaxGrossPct \in Nat /\ SigmaTargetPct \in Nat \ {0} /\ MinEdgeBps \in Nat
  /\ BaseNotional \in Nat \ {0} /\ MinNotional \in 1..BaseNotional
  /\ MaxDay \in Nat

VARIABLES
  equity,           \* _equity: the last mark-to-market equity
  hwm,              \* _hwm: the day's high-water mark
  hwm_day,          \* _hwm_day: the UTC day hwm belongs to
  breaker_latched,  \* _breaker_latched
  breakdown         \* what _breakdown() answers until the next leader close

riskVars == <<equity, hwm, hwm_day, breaker_latched, breakdown>>

MaxOf(a, b) == IF a >= b THEN a ELSE b
MinOf(a, b) == IF a <= b THEN a ELSE b

Days == 0..MaxDay

RiskTypeOK ==
  /\ equity \in Int /\ hwm \in Int
  /\ hwm_day \in Days
  /\ breaker_latched \in BOOLEAN /\ breakdown \in BOOLEAN

RiskInit ==
  /\ equity = StartingEquity /\ hwm = StartingEquity /\ hwm_day = 0
  /\ breaker_latched = FALSE /\ breakdown = FALSE

(* A process start on UTC day d builds a fresh RiskManager.                *)
RiskRestart(d) ==
  /\ equity' = StartingEquity /\ hwm' = StartingEquity /\ hwm_day' = d
  /\ breaker_latched' = FALSE /\ breakdown' = FALSE

(* dd_pct >= max_daily_dd_pct, with dd_pct = 0 when the peak is not positive *)
Breached(peak, e) == peak > 0 /\ 100 * (peak - e) >= MaxDailyDdPct * peak

(* Variants of OnEquity a property must tell from it: the day's mark is    *)
(* only set at the day roll; the latch follows the current drawdown; the   *)
(* mark is dated by the day it expires.                                    *)
OnEquityFixedMark(e, d) ==
  LET peak == IF d # hwm_day THEN e ELSE hwm
  IN  /\ hwm_day' = d /\ equity' = e /\ hwm' = peak
      /\ breaker_latched' = ((breaker_latched /\ d = hwm_day) \/ Breached(peak, e))

OnEquityUnlatching(e, d) ==
  LET peak == MaxOf(IF d # hwm_day THEN e ELSE hwm, e)
  IN  /\ hwm_day' = d /\ equity' = e /\ hwm' = peak
      /\ breaker_latched' = Breached(peak, e)

OnEquityDatedAhead(e, d) ==
  LET peak == MaxOf(IF d # hwm_day THEN e ELSE hwm, e)
  IN  /\ hwm_day' = d + 1 /\ equity' = e /\ hwm' = peak
      /\ breaker_latched' = ((breaker_latched /\ d = hwm_day) \/ Breached(peak, e))

(* on_equity, read at UTC day d: roll the day if the date changed, raise   *)
(* the mark, latch the breaker on a breach.                                *)
OnEquity(e, d) ==
  LET rolled == d # hwm_day
      peak   == MaxOf(IF rolled THEN e ELSE hwm, e)
  IN  /\ hwm_day' = d
      /\ equity' = e
      /\ hwm' = peak
      /\ breaker_latched' = \/ breaker_latched /\ ~rolled
                            \/ Breached(peak, e)

(* on_leader_price: a 5-minute close moves the window, after which the     *)
(* filter answers either way (CorrelationFilter computes the answer).      *)
OnLeaderPrice == breakdown' \in BOOLEAN

Halted == breaker_latched \/ breakdown

(* The room left under the gross cap, in whole units of money.             *)
Headroom(gross) == MaxOf(((MaxGrossPct * equity) \div 100) - gross, 0)

(* base_notional * min(1, sigma_target / (sigma / vwap)), rounded down     *)
VolScaled(sigma, vwap) ==
  IF 100 * sigma <= SigmaTargetPct * vwap
  THEN BaseNotional
  ELSE (BaseNotional * SigmaTargetPct * vwap) \div (100 * sigma)

(* Variant: sized by volatility alone, blind to what is already open.      *)
PositionNotionalUncapped(sigma, vwap, gross) ==
  IF Halted \/ sigma <= 0 \/ vwap <= 0 \/ VolScaled(sigma, vwap) < MinNotional
  THEN 0 ELSE VolScaled(sigma, vwap)

PositionNotional(sigma, vwap, gross) ==
  LET notional == MinOf(VolScaled(sigma, vwap), Headroom(gross))
  IN  IF Halted \/ sigma <= 0 \/ vwap <= 0 \/ notional < MinNotional
      THEN 0 ELSE notional
=============================================================================
