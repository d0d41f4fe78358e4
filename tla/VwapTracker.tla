----------------------------- MODULE VwapTracker -----------------------------
(***************************************************************************)
(* The running moments behind VWAP, sigma and the z-score                  *)
(* (cpp/include/order_book.hpp, class VwapTracker): sums over the trades   *)
(* in the space of offsets from an anchor, which is moved to the VWAP      *)
(* every REANCHOR_EVERY trades; saved in and restored from a checkpoint.   *)
(* Sums are exact rationals where the code has doubles.                    *)
(***************************************************************************)
EXTENDS Integers, Sequences, SequencesExt, Rationals

CONSTANTS
  Prices, Sizes,   \* of trades; a size may be 0
  ReanchorEvery,   \* REANCHOR_EVERY
  MaxPrints        \* bound: trades with a size

ASSUME TrackerAssumption ==
  Prices \subseteq Int /\ Sizes \subseteq Nat /\ ReanchorEvery \in Nat \ {0} /\ MaxPrints \in Nat

VARIABLES
  s0, s1, s2, anchor, n,  \* the members
  prints,                 \* history: the trades the sums stand for
  saved                   \* the tracker in the last checkpoint, with its prints

trackerVars == <<s0, s1, s2, anchor, n, prints, saved>>

Tracker == [s0 |-> s0, s1 |-> s1, s2 |-> s2, anchor |-> anchor, n |-> n, prints |-> prints]
Fresh0 == [s0 |-> 0, s1 |-> Zero, s2 |-> Zero, anchor |-> Zero, n |-> 0, prints |-> <<>>]

Becomes(t) ==
  /\ s0' = t.s0 /\ s1' = t.s1 /\ s2' = t.s2 /\ anchor' = t.anchor /\ n' = t.n
  /\ prints' = t.prints

TrackerInit ==
  /\ s0 = 0 /\ s1 = Zero /\ s2 = Zero /\ anchor = Zero /\ n = 0 /\ prints = <<>>
  /\ saved = Fresh0

(* Variant of Folded: the second moment is not moved with the anchor.      *)
FoldedFirstOnly(t) ==
  [t EXCEPT !.s1 = Zero, !.anchor = Plus(@, Over(t.s1, t.s0))]

(* fold_anchor.                                                            *)
Folded(t) ==
  LET m == Over(t.s1, t.s0) IN
  [t EXCEPT !.s2 = Minus(@, Times(m, Minus(Times(<<2, 1>>, t.s1), Times(m, <<t.s0, 1>>)))),
            !.s1 = Zero,
            !.anchor = Plus(@, m)]

(* on_trade: the first trade is the anchor.                                *)
Added(price, size) ==
  LET a == IF n = 0 THEN <<price, 1>> ELSE anchor
      d == Minus(<<price, 1>>, a)
  IN  [s0 |-> s0 + size, s1 |-> Plus(s1, Times(d, <<size, 1>>)),
       s2 |-> Plus(s2, Times(Times(d, d), <<size, 1>>)), anchor |-> a, n |-> n + 1,
       prints |-> Append(prints, [price |-> price, size |-> size])]

OnTrade(price, size) ==
  /\ size > 0 => Len(prints) < MaxPrints
  /\ IF size <= 0 THEN UNCHANGED <<s0, s1, s2, anchor, n, prints>>
     ELSE LET t == Added(price, size)
          IN  Becomes(IF t.n % ReanchorEvery = 0 THEN Folded(t) ELSE t)
  /\ UNCHANGED saved

SaveTracker == saved' = Tracker /\ UNCHANGED <<s0, s1, s2, anchor, n, prints>>

(* Variant of RestoreTracker: the trade count starts again.                *)
RestoreUncounted == Becomes([saved EXCEPT !.n = 0]) /\ UNCHANGED saved

(* restore, in a process that starts from the checkpoint.                  *)
RestoreTracker == Becomes(saved) /\ UNCHANGED saved

TrackerNext ==
  \/ \E price \in Prices, size \in Sizes : OnTrade(price, size)
  \/ SaveTracker \/ RestoreTracker

TrackerSpec == TrackerInit /\ [][TrackerNext]_trackerVars

Vwap == Plus(anchor, Over(s1, s0))
Variance == Minus(Over(s2, s0), Times(Over(s1, s0), Over(s1, s0)))

(***************************************************************************)
(* The moments by their definition.                                        *)
(***************************************************************************)
Volumes(tape) == SumFunction([k \in DOMAIN tape |-> tape[k].size])
Notional(tape) == SumFunction([k \in DOMAIN tape |-> tape[k].price * tape[k].size])
SecondMoment(tape) == SumFunction([k \in DOMAIN tape |-> tape[k].price * tape[k].price * tape[k].size])

(* Wherever the anchor stands, however often it was moved, and whatever    *)
(* restarts lie between, volume, VWAP and variance are those of the trades *)
(* themselves.                                                             *)
MomentsOfTape ==
  LET volume == Volumes(prints)
      notional == Notional(prints)
  IN  /\ s0 = volume /\ n = Len(prints)
      /\ s0 > 0 => /\ Vwap = Rat(notional, volume)
                   /\ Variance = Rat(SecondMoment(prints) * volume - notional * notional, volume * volume)
=============================================================================
