------------------------------ MODULE RiskLayer ------------------------------
(***************************************************************************)
(* The risk layer on its own (python/meanrev/risk.py): the breaker and the *)
(* sizing of RiskManager with the leader filter of CorrelationFilter,      *)
(* driven by any equity and any leader close.  It keeps the history of     *)
(* what it was told, every equity sample since the day's mark was set: the *)
(* code has a high-water mark and a latch, and the history says what the   *)
(* two must amount to.                                                     *)
(***************************************************************************)
EXTENDS RiskManager, CorrelationFilter

CONSTANTS
  Equities,     \* the equities a sample may report
  MaxSamples,   \* bound: samples in one day
  Sigmas,       \* the volatilities an order may be sized for,
  Vwaps,        \* at these rolling prices,
  OpenNotionals \* with this much already open

ASSUME LayerAssumption ==
  /\ Equities \subseteq Int /\ MaxSamples \in Nat
  /\ Sigmas \subseteq Nat /\ Vwaps \subseteq Nat /\ OpenNotionals \subseteq Int

VARIABLE samples   \* history: the equity samples of hwm_day, oldest first

vars == <<riskVars, filterVars, samples>>

Init == RiskInit /\ FilterInit /\ samples = <<StartingEquity>>

(* One sample, on the same day or on a later one.                          *)
Sample ==
  \E e \in Equities, d \in hwm_day..MaxDay :
    /\ d = hwm_day => Len(samples) < MaxSamples
    /\ OnEquity(e, d)
    /\ samples' = IF d = hwm_day THEN Append(samples, e) ELSE <<e>>
    /\ UNCHANGED <<breakdown, filterVars>>

(* One five-minute close, and the verdict every caller of halted reads     *)
(* until the next one.                                                     *)
LeaderClose ==
  /\ \E l \in Leaders, price \in LogPrices : LeaderPriced(l, price)
  /\ breakdown' = Breakdown'
  /\ UNCHANGED <<equity, hwm, hwm_day, breaker_latched, samples>>

Next == Sample \/ LeaderClose

Spec == Init /\ [][Next]_vars

TypeOK ==
  /\ RiskTypeOK /\ FilterTypeOK
  /\ samples \in Seq(Int) /\ samples # <<>>

(* The mark is the day's peak and equity the latest sample.                *)
MarkIsDaysPeak ==
  /\ \E j \in 1..Len(samples) : hwm = samples[j]
  /\ \A j \in 1..Len(samples) : samples[j] <= hwm
  /\ equity = samples[Len(samples)]

(* A fall from equity a to equity b loses the daily limit of a or more.    *)
Drawdown(a, b) == a > 0 /\ 100 * (a - b) >= MaxDailyDdPct * a

(* The breaker is latched exactly when, between some two samples of the    *)
(* day, equity fell by the limit or more.  So it trips on a fall from a    *)
(* peak however long ago and however small the last step; a bounce or a    *)
(* new peak does not release it; a new day does; and a loss that crosses   *)
(* midnight counts from the first sample of the new day only.              *)
LatchedIffDrawdown ==
  breaker_latched <=>
    \E k \in 1..Len(samples) : \E j \in 1..k : Drawdown(samples[j], samples[k])

(* Any order sized by position_notional fits under the gross cap next to   *)
(* what is already open, is neither dust nor above the base size, and is   *)
(* nothing at all while trading is halted or volatility unknown.           *)
SizeFits(sigma, vwap, gross) ==
  LET size == PositionNotional(sigma, vwap, gross)
  IN  \/ size = 0
      \/ /\ ~Halted /\ sigma > 0 /\ vwap > 0
         /\ size \in MinNotional..BaseNotional
         /\ 100 * (gross + size) <= MaxGrossPct * equity

SizingRespectsCap ==
  \A sigma \in Sigmas, vwap \in Vwaps, gross \in OpenNotionals : SizeFits(sigma, vwap, gross)
=============================================================================
