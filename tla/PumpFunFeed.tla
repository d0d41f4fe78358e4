----------------------------- MODULE PumpFunFeed -----------------------------
(***************************************************************************)
(* The pump.fun market-data task of one token (stream_market_data,         *)
(* _rebuild_synthetic_book and the taker flow,                             *)
(* python/meanrev/exchanges/pumpfun_dex.py): every account notification    *)
(* projects the constant-product curve onto price levels, tilted by the    *)
(* decayed net taker flow.                                                 *)
(*                                                                         *)
(* Prices, flow and tilt are exact: the spacing of the levels and the part *)
(* of the flow a clock tick keeps are fractions, prices are scaled by      *)
(* PriceScale and quantities of a level by Scale, so that they are         *)
(* integers.  The square roots are rounded down to a unit of tokens, and   *)
(* such units may be as small as one likes.                                *)
(***************************************************************************)
EXTENDS Integers, Sequences, Functions

CONSTANTS
  Curves,       \* reserves [sol, tok] the curve takes
  StepNum, StepDen,  \* 1 + SYNTH_SPACING, as a fraction
  KeptNum, KeptDen,  \* what a clock tick leaves of the flow, as a fraction
  SynthLevels,  \* SYNTH_LEVELS
  TakerQtys,    \* signed quantities of taker trades
  MaxTime,      \* bound: clock ticks
  MaxTaker,     \* bound: taker trades
  MaxStops,     \* bound: connections broken or closed
  MaxPending    \* bound: notifications in flight

ASSUME CurveAssumption ==
  /\ StepDen \in Nat \ {0} /\ StepNum \in Nat /\ StepNum > StepDen
  /\ KeptDen \in Nat \ {0} /\ KeptNum \in 1..KeptDen
  /\ SynthLevels \in Nat \ {0}
  /\ Curves \subseteq [sol : Nat, tok : Nat] /\ TakerQtys \subseteq Int \ {0}
  /\ {MaxTime, MaxTaker, MaxStops, MaxPending} \subseteq Nat

(* x ** n.                                                                 *)
Power(x, n) ==
  LET p[k \in Nat] == IF k = 0 THEN 1 ELSE x * p[k - 1]
  IN  p[n]

Drained(c) == c.sol <= 0 \/ c.tok <= 0

(* The units the reserves are counted in are small: the curve's price is a *)
(* whole number of units of SOL, and every level takes some units of       *)
(* tokens (for 20 levels half a percent apart, 423 units do).              *)
ASSUME UnitsAssumption ==
  \A c \in Curves : ~Drained(c) =>
    /\ c.sol % c.tok = 0
    /\ 4 * StepNum * StepNum * Power(StepNum, SynthLevels)
         <= c.tok * c.tok * (StepNum - StepDen) * (StepNum - StepDen) * Power(StepDen, SynthLevels)

VARIABLES
  curve,      \* the chain: the reserves
  stream,     \* "connecting", "open", "closed" (by the node), "backoff"
  pending,    \* notifications in flight, oldest first
  synth,      \* the local book, NoLevels after a clear
  flow,       \* _flow of the token: [amount, ts]
  clock,      \* time, in ticks
  tape,       \* history: the taker trades the task has read
  stops,      \* history: connections broken or closed
  closed      \* history: one was closed in good order since the book was built

curveVars == <<curve, stream, pending, synth, flow, clock, tape, stops, closed>>

NoLevels == [asks |-> <<>>, bids |-> <<>>]

CurveInit ==
  /\ curve \in {c \in Curves : ~Drained(c)}
  /\ stream = "connecting" /\ pending = <<>>
  /\ synth = NoLevels /\ flow = [amount |-> 0, ts |-> 0]
  /\ clock = 0 /\ tape = <<>> /\ stops = 0 /\ closed = FALSE

(***************************************************************************)
(* The projection.                                                         *)
(***************************************************************************)
PriceScale == Power(StepNum, SynthLevels) * Power(StepDen, SynthLevels)
K(c) == c.sol * c.tok
Root(n) == CHOOSE r \in 0..n : r * r <= n /\ n < (r + 1) * (r + 1)
Scale(c) == c.tok * Power(KeptDen, MaxTime)

Middle(c) == (c.sol * PriceScale) \div c.tok
AskPrice(c, i) == (Middle(c) * Power(StepNum, i)) \div Power(StepDen, i)
BidPrice(c, i) == (Middle(c) * Power(StepDen, i)) \div Power(StepNum, i)

(* Tokens the curve releases up to an ask, and absorbs down to a bid.      *)
AskCum(c, i) == c.tok - Root((K(c) * PriceScale) \div AskPrice(c, i))
BidCum(c, i) == Root((K(c) * PriceScale) \div BidPrice(c, i)) - c.tok

(* Variant of DecayedFlow: the flow of the whole session.                  *)
UndecayedFlow == flow.amount

DecayedFlow ==
  (flow.amount * Power(KeptNum, clock - flow.ts)) \div Power(KeptDen, clock - flow.ts)

(* The flow in units of 1% of the reserve, at most one half either way.    *)
Skew(c) ==
  LET half == Scale(c) \div 2
  IN  IF DecayedFlow > half THEN half
      ELSE IF DecayedFlow < -half THEN -half
      ELSE DecayedFlow

(* _rebuild_synthetic_book: every level holds what it adds.                *)
Projection(c) ==
  [asks |-> [i \in 1..SynthLevels |->
      [price |-> AskPrice(c, i),
       qty |-> (AskCum(c, i) - (IF i = 1 THEN 0 ELSE AskCum(c, i - 1))) * (Scale(c) - Skew(c))]],
   bids |-> [i \in 1..SynthLevels |->
      [price |-> BidPrice(c, i),
       qty |-> (BidCum(c, i) - (IF i = 1 THEN 0 ELSE BidCum(c, i - 1))) * (Scale(c) + Skew(c))]]]

(***************************************************************************)
(* The task.                                                               *)
(***************************************************************************)
Told == pending # <<>> /\ stream \in {"open", "closed"}

Subscribe ==
  /\ stream \in {"connecting", "backoff"}
  /\ stream' = "open" /\ pending' = <<>>
  /\ UNCHANGED <<curve, synth, flow, clock, tape, stops, closed>>

(* An account notification.  A drained curve leaves the book as it was.    *)
ReadCurve ==
  /\ Told /\ Head(pending).kind = "account"
  /\ LET c == Head(pending).curve IN
     IF Drained(c) THEN UNCHANGED <<synth, closed>>
     ELSE synth' = Projection(c) /\ closed' = FALSE
  /\ pending' = Tail(pending)
  /\ UNCHANGED <<curve, stream, flow, clock, tape, stops>>

(* A taker print: _bump_flow.  The levels keep their tilt until the next   *)
(* account notification.                                                   *)
ReadTrade ==
  /\ Told /\ Head(pending).kind = "logs"
  /\ flow' = [amount |-> DecayedFlow + Head(pending).qty * Power(KeptDen, MaxTime), ts |-> clock]
  /\ tape' = Append(tape, [qty |-> Head(pending).qty, ts |-> clock])
  /\ pending' = Tail(pending)
  /\ UNCHANGED <<curve, stream, synth, clock, stops, closed>>

(* Variant of StreamBreaks: the book is left as it was.                    *)
StreamBreaksQuietly ==
  /\ stream # "backoff" /\ stops < MaxStops
  /\ stream' = "backoff" /\ pending' = <<>> /\ stops' = stops + 1
  /\ UNCHANGED <<curve, synth, flow, clock, tape, closed>>

(* Connecting, reading or decoding raises, the last messages of a closed   *)
(* connection included: the book is dropped.                               *)
StreamBreaks ==
  /\ stream # "backoff" /\ stops < MaxStops
  /\ stream' = "backoff" /\ pending' = <<>> /\ stops' = stops + 1
  /\ synth' = NoLevels
  /\ UNCHANGED <<curve, flow, clock, tape, closed>>

(* The iteration over a closed connection just ends: the task connects     *)
(* again, and the book stays.                                              *)
StreamEnds ==
  /\ stream = "closed" /\ pending = <<>>
  /\ stream' = "connecting" /\ closed' = TRUE
  /\ UNCHANGED <<curve, pending, synth, flow, clock, tape, stops>>

(***************************************************************************)
(* The node and the chain (external): a subscription tells of changes,     *)
(* never of the state it starts from.                                      *)
(***************************************************************************)
Notify(message) ==
  IF stream = "open" THEN Len(pending) < MaxPending /\ pending' = Append(pending, message)
  ELSE UNCHANGED pending

CurveMoves ==
  /\ \E c \in Curves \ {curve} :
       curve' = c /\ Notify([kind |-> "account", curve |-> c, qty |-> 0])
  /\ UNCHANGED <<stream, synth, flow, clock, tape, stops, closed>>

TakerTrades ==
  /\ stream = "open" /\ Len(tape) + Len(pending) < MaxTaker
  /\ \E q \in TakerQtys : Notify([kind |-> "logs", curve |-> curve, qty |-> q])
  /\ UNCHANGED <<curve, stream, synth, flow, clock, tape, stops, closed>>

NodeCloses ==
  /\ stream = "open" /\ stops < MaxStops
  /\ stream' = "closed" /\ stops' = stops + 1
  /\ UNCHANGED <<curve, pending, synth, flow, clock, tape, closed>>

TimePasses ==
  /\ clock < MaxTime /\ clock' = clock + 1
  /\ UNCHANGED <<curve, stream, pending, synth, flow, tape, stops, closed>>

CurveNext ==
  \/ Subscribe \/ ReadCurve \/ ReadTrade \/ StreamBreaks \/ StreamEnds
  \/ CurveMoves \/ TakerTrades \/ NodeCloses \/ TimePasses

CurveSpec == CurveInit /\ [][CurveNext]_curveVars

(***************************************************************************)
(* Properties.                                                             *)
(***************************************************************************)
(* What the reserve of tokens is once the curve has moved to a price, in   *)
(* whole units: the product of the reserves stays K.                       *)
TokensLeft(c, price) ==
  CHOOSE t \in 0..(c.tok * PriceScale) :
    t * t * price <= K(c) * PriceScale /\ K(c) * PriceScale < (t + 1) * (t + 1) * price

Held(levels, i) == SumFunction([k \in 1..i |-> levels[k].qty])

(* The net taker flow by its definition: every trade, decayed by its own   *)
(* age.                                                                    *)
TapeFlow ==
  SumFunction([k \in DOMAIN tape |->
    tape[k].qty * Power(KeptNum, clock - tape[k].ts)
                * Power(KeptDen, MaxTime - (clock - tape[k].ts))])

(* Projected by the constant product alone: to take all levels up to a     *)
(* price is to walk the curve there, tilted one way by the tape's flow in  *)
(* percent of the reserve, but for more than half of it never; both sides  *)
(* always quote, in order, around the curve's price.                       *)
WalksTheCurve(c, book) ==
  LET half == Scale(c) \div 2
      tilt == CHOOSE s \in -half..half :
                \/ s = TapeFlow
                \/ s = half /\ TapeFlow > s
                \/ s = -half /\ TapeFlow < s
  IN  \A i \in 1..SynthLevels :
        LET ask == book.asks[i] bid == book.bids[i] IN
        /\ ask.qty > 0 /\ bid.qty > 0 /\ bid.price < Middle(c) /\ Middle(c) < ask.price
        /\ i > 1 => book.asks[i - 1].price < ask.price /\ bid.price < book.bids[i - 1].price
        /\ Held(book.asks, i) = (Scale(c) - tilt) * (c.tok - TokensLeft(c, ask.price))
        /\ Held(book.bids, i) = (Scale(c) + tilt) * (TokensLeft(c, bid.price) - c.tok)

(* Flow "can tilt OBI but never fabricate a one-sided book": every book    *)
(* that is built walks the curve it was told of, with the flow of the tape *)
(* as it is at that moment, however trades, updates and silences alternate.*)
RebuildWalksTheCurve ==
  [][synth' # synth /\ synth' # NoLevels => WalksTheCurve(Head(pending).curve, synth')]_curveVars

(* A book that is shown is the curve's as soon as no update is in flight,  *)
(* but for two blind spots: the curve is drained, or a connection closed   *)
(* in good order since the book was built and moves went untold.           *)
StaleOnlyWhereBlind ==
  synth # NoLevels /\ (\A k \in DOMAIN pending : pending[k].kind # "account")
    => Drained(curve) \/ closed \/ stream = "closed" \/ synth.asks[1].price = AskPrice(curve, 1)
=============================================================================
