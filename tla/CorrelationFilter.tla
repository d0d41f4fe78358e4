-------------------------- MODULE CorrelationFilter --------------------------
(***************************************************************************)
(* The leader-correlation filter of the risk layer (python/meanrev/risk.py *)
(* on_leader_price and _breakdown).  Prices are logarithms, in integers,   *)
(* so a log-return is a difference of two closes; the trendiness limit is  *)
(* in percent and the volatility floor is compared squared.                *)
(***************************************************************************)
EXTENDS Integers, Sequences, FiniteSetsExt

CONSTANTS
  Leaders,           \* "BTC" and "SOL"
  LogPrices,         \* the closes a leader may print
  NoClose,           \* no close yet
  CorrWindow,        \* corr_window
  TrendinessMaxPct,  \* corr_trendiness_max, in percent
  VolFloorSquared    \* corr_vol_floor, squared

ASSUME FilterAssumption ==
  /\ LogPrices \subseteq Int /\ NoClose \notin LogPrices
  /\ CorrWindow \in Nat \ {0} /\ TrendinessMaxPct \in 0..100 /\ VolFloorSquared \in Nat

VARIABLES
  last_price,      \* [Leaders -> close or NoClose]: _last_price
  leader_returns,  \* [Leaders -> returns, oldest first]: _leader_returns
  closes           \* history: the last CorrWindow + 1 closes of each leader

filterVars == <<last_price, leader_returns, closes>>

FilterInit ==
  /\ last_price = [l \in Leaders |-> NoClose]
  /\ leader_returns = [l \in Leaders |-> <<>>]
  /\ closes = [l \in Leaders |-> <<>>]

(* A deque of maximal length n forgets its oldest element.                 *)
Latest(s, n) == IF Len(s) > n THEN SubSeq(s, Len(s) - n + 1, Len(s)) ELSE s

(* Variant: returns are taken from the first close ever printed.           *)
LeaderPricedAnchored(l, price) ==
  /\ last_price' = [last_price EXCEPT ![l] = IF @ = NoClose THEN price ELSE @]
  /\ leader_returns' =
       IF last_price[l] = NoClose THEN leader_returns
       ELSE [leader_returns EXCEPT ![l] = Latest(Append(@, price - last_price[l]), CorrWindow)]
  /\ closes' = [closes EXCEPT ![l] = Latest(Append(@, price), CorrWindow + 1)]

(* on_leader_price: one five-minute close of one leader.                   *)
LeaderPriced(l, price) ==
  /\ last_price' = [last_price EXCEPT ![l] = price]
  /\ leader_returns' =
       IF last_price[l] = NoClose THEN leader_returns
       ELSE [leader_returns EXCEPT ![l] = Latest(Append(@, price - last_price[l]), CorrWindow)]
  /\ closes' = [closes EXCEPT ![l] = Latest(Append(@, price), CorrWindow + 1)]

AbsOf(x) == IF x < 0 THEN -x ELSE x
SumOf(f(_), s) == MapThenSumSet(LAMBDA k : f(s[k]), DOMAIN s)

Gross(l) == SumOf(AbsOf, leader_returns[l])
Net(l) == SumOf(LAMBDA r : r, leader_returns[l])
Squares(l) == SumOf(LAMBDA r : r * r, leader_returns[l])

(* Variant of BreaksDown: a rise halts as well as a fall.                  *)
BreaksEitherWay(l) ==
  /\ Len(leader_returns[l]) >= CorrWindow \div 2
  /\ Gross(l) > 0
  /\ 100 * AbsOf(Net(l)) > TrendinessMaxPct * Gross(l)
  /\ Squares(l) > VolFloorSquared

(* One leader breaks down: enough data, a net fall, most of the path in    *)
(* one direction, and enough of it.                                        *)
BreaksDown(l) ==
  /\ Len(leader_returns[l]) >= CorrWindow \div 2
  /\ Gross(l) > 0
  /\ Net(l) < 0
  /\ 100 * AbsOf(Net(l)) > TrendinessMaxPct * Gross(l)
  /\ Squares(l) > VolFloorSquared

Breakdown == \E l \in Leaders : BreaksDown(l)

FilterTypeOK ==
  /\ last_price \in [Leaders -> LogPrices \cup {NoClose}]
  /\ leader_returns \in [Leaders -> Seq(Int)]
  /\ \A l \in Leaders : Len(leader_returns[l]) <= CorrWindow

(* The window slides with the prices: the returns kept are those between   *)
(* the last closes, so what they add up to is the leader's move from the   *)
(* first close of the window to the last.                                  *)
WindowIsMove == \A l \in Leaders :
  closes[l] # <<>> =>
    /\ Len(leader_returns[l]) = Len(closes[l]) - 1
    /\ Net(l) = closes[l][Len(closes[l])] - closes[l][1]

(* "Unidirectional downward": a halt means that a leader closed below the  *)
(* start of its window, and that its rises within the window gave back     *)
(* less than the share of the path the trendiness limit leaves.  With the  *)
(* limit at 50% or more the falls are more than three times the rises.     *)
HaltMeansFall == Breakdown =>
  \E l \in Leaders :
    LET c == closes[l]
        moves == [k \in 1..(Len(c) - 1) |-> c[k + 1] - c[k]]
        rises == SumOf(LAMBDA m : IF m > 0 THEN m ELSE 0, moves)
        falls == SumOf(LAMBDA m : IF m < 0 THEN -m ELSE 0, moves)
    IN  /\ Len(c) > 1 /\ c[Len(c)] < c[1]
        /\ (100 - TrendinessMaxPct) * falls > (100 + TrendinessMaxPct) * rises
=============================================================================
