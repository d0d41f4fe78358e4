------------------------------ MODULE BookSide ------------------------------
(***************************************************************************)
(* One side of the local order book (cpp/include/order_book.hpp, class     *)
(* BookSide): a sorted array of bounded length that level-2 deltas insert  *)
(* into, replace in and delete from, evicting the worst level when full.   *)
(* The history variable venue is the side as the venue has it: what the    *)
(* same deltas make of a map without a bound.                              *)
(***************************************************************************)
EXTENDS Integers, Sequences, SequencesExt, FiniteSetsExt

CONSTANTS
  MaxLevels,   \* MAX_LEVELS
  Ticks,       \* prices, in ticks
  Qtys,        \* quantities a delta may set; 0 deletes
  Depth        \* obi_depth

ASSUME SideAssumption ==
  /\ MaxLevels \in Nat \ {0} /\ Depth \in Nat
  /\ Ticks \subseteq Nat /\ Qtys \subseteq Nat

VARIABLES
  side,      \* side_, set by the constructor
  levels,    \* levels_[0 .. count_), best first
  venue,     \* history: [Ticks -> Nat], the venue's side
  evicted    \* history: some level has been dropped for want of room

vars == <<side, levels, venue, evicted>>

TypeOK ==
  /\ side \in {"BID", "ASK"}
  /\ levels \in Seq([tick : Ticks, qty : Nat]) /\ Len(levels) <= MaxLevels
  /\ venue \in [Ticks -> Nat]
  /\ evicted \in BOOLEAN

Init ==
  /\ side \in {"BID", "ASK"}
  /\ levels = <<>>
  /\ venue = [t \in Ticks |-> 0]
  /\ evicted = FALSE

(* Bids sort downwards, asks upwards.                                      *)
Better(s, t) == IF side = "BID" THEN s > t ELSE s < t

(* Variant of LowerBound: the search goes past an equal tick.              *)
LowerBoundPast(t) ==
  1 + Cardinality({k \in DOMAIN levels : levels[k].tick = t \/ Better(levels[k].tick, t)})

(* The binary search for t over [lo, hi), counting from 1.                 *)
Search(t) ==
  LET ends == 1..(Len(levels) + 1)
      search[range \in ends \X ends] ==
        LET lo == range[1]
            hi == range[2]
            mid == (lo + hi) \div 2
        IN  IF lo >= hi THEN lo
            ELSE IF Better(levels[mid].tick, t) THEN search[<<mid + 1, hi>>]
            ELSE search[<<lo, mid>>]
  IN  search

(* lower_bound, over all the levels.                                       *)
LowerBound(t) == Search(t)[<<1, Len(levels) + 1>>]

Found(t) == LowerBound(t) <= Len(levels) /\ levels[LowerBound(t)].tick = t

Full == Len(levels) = MaxLevels

(* Variants of Deleted and Upserted: a deleted level stays with quantity   *)
(* 0; a replacement adds to the quantity; a full side grows.               *)
DeletedInPlace(t) ==
  IF Found(t) THEN [levels EXCEPT ![LowerBound(t)].qty = 0] ELSE levels

UpsertedAdding(t, q) ==
  LET at == LowerBound(t) IN
  IF Found(t) THEN [levels EXCEPT ![at].qty = levels[at].qty + q]
  ELSE IF Full /\ at > MaxLevels THEN levels
  ELSE InsertAt(IF Full THEN Front(levels) ELSE levels, at, [tick |-> t, qty |-> q])

UpsertedUnbounded(t, q) ==
  LET at == LowerBound(t)
      level == [tick |-> t, qty |-> q]
  IN  IF Found(t) THEN [levels EXCEPT ![at] = level] ELSE InsertAt(levels, at, level)

(* What a delta makes of the array.                                        *)
Deleted(t) == IF Found(t) THEN RemoveAt(levels, LowerBound(t)) ELSE levels

Upserted(t, q) ==
  LET at == LowerBound(t)
      level == [tick |-> t, qty |-> q]
  IN  IF Found(t) THEN [levels EXCEPT ![at] = level]
      ELSE IF Full /\ at > MaxLevels THEN levels
      ELSE IF Full THEN InsertAt(Front(levels), at, level)
      ELSE InsertAt(levels, at, level)

ApplyDelta(t, q) ==
  /\ levels' = IF q = 0 THEN Deleted(t) ELSE Upserted(t, q)
  /\ evicted' = (evicted \/ (q # 0 /\ ~Found(t) /\ Full))
  /\ venue' = [venue EXCEPT ![t] = q]
  /\ UNCHANGED side

(* clear(), as every resync does before the venue's snapshot: both start   *)
(* again from nothing.                                                     *)
Clear ==
  /\ levels' = <<>> /\ evicted' = FALSE
  /\ venue' = [t \in Ticks |-> 0]
  /\ UNCHANGED side

Next == (\E t \in Ticks, q \in Qtys : ApplyDelta(t, q)) \/ Clear

Spec == Init /\ [][Next]_vars

(* volume(depth): what the imbalance sums.                                 *)
Volume == FoldFunctionOnSet(+, 0, [k \in DOMAIN levels |-> levels[k].qty],
                            1..(IF Depth < Len(levels) THEN Depth ELSE Len(levels)))

(***************************************************************************)
(* The same from the venue's side.                                         *)
(***************************************************************************)
Quoted == {t \in Ticks : venue[t] > 0}

(* How many quoted ticks are better.                                       *)
Rank(t) == Cardinality({s \in Quoted : Better(s, t)})

VenueSide ==
  LET Nth(k) == CHOOSE t \in Quoted : Rank(t) = k - 1
  IN  [k \in 1..Cardinality(Quoted) |-> [tick |-> Nth(k), qty |-> venue[Nth(k)]]]

VenueVolume == MapThenSumSet(LAMBDA t : venue[t], {t \in Quoted : Rank(t) < Depth})

(* As long as the array never overflowed, search, insertion, replacement   *)
(* and deletion keep it exactly the venue's side, best level first, and    *)
(* the volume behind the imbalance is the venue's.                         *)
ExactUntilEvicted == ~evicted => levels = VenueSide /\ Volume = VenueVolume

(* Overflow or not, the array stays sorted without repeats, and a level    *)
(* it holds is the venue's, with the venue's quantity: an eviction only    *)
(* ever hides levels, it never leaves a stale one behind.                  *)
LevelsAreVenues ==
  /\ \A j, k \in DOMAIN levels : j < k => Better(levels[j].tick, levels[k].tick)
  /\ \A k \in DOMAIN levels : levels[k].qty > 0 /\ levels[k].qty = venue[levels[k].tick]
=============================================================================
