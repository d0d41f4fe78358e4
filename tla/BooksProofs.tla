---------------------------- MODULE BooksProofs ----------------------------
(***************************************************************************)
(* Proofs about the local books: one side of the level-2 book              *)
(* (BookSide), for an array of any length and any deltas; the book         *)
(* projected from a bonding curve (PumpFunFeed), for any curves, any ratio *)
(* between the levels and any number of them, and any number of taker      *)
(* trades, broken and closed connections; and the moments of the trade     *)
(* tape (VwapTracker), for any trades.  The three share no variable.       *)
(***************************************************************************)
EXTENDS BookSide, PumpFunFeed, VwapTracker, DataLemmas, TLAPS

(***************************************************************************)
(* One side of the book: the inductive invariant.                          *)
(***************************************************************************)
Levels == [tick : Ticks, qty : Nat]

Sorted ==
  \A j, k \in 1..Len(levels) : j < k => Better(levels[j].tick, levels[k].tick)

Live ==
  \A k \in 1..Len(levels) : levels[k].qty > 0 /\ levels[k].qty = venue[levels[k].tick]

(* Until a level is dropped for want of room, none is missing.             *)
NoneMissing ==
  ~evicted => \A t \in Ticks : venue[t] > 0 => \E k \in 1..Len(levels) : levels[k].tick = t

SideIInv == TypeOK /\ Sorted /\ Live /\ NoneMissing

LEMMA SideFacts ==
  ASSUME TypeOK
  PROVE  /\ levels \in Seq(Levels) /\ Len(levels) \in Nat /\ Len(levels) <= MaxLevels
         /\ MaxLevels \in Nat /\ MaxLevels > 0
         /\ \A k \in 1..Len(levels) : /\ levels[k] \in Levels /\ levels[k].tick \in Ticks
                                      /\ levels[k].tick \in Int /\ levels[k].qty \in Nat
         /\ \A t \in Ticks : t \in Int /\ venue[t] \in Nat
<1>1. levels \in Seq(Levels)
  BY DEF TypeOK, Levels
<1>2. Len(levels) \in Nat /\ \A k \in 1..Len(levels) : levels[k] \in Levels
  BY <1>1, ElementOfSeq
<1>3. \A l \in Levels : l.tick \in Ticks /\ l.qty \in Nat
  BY DEF Levels
<1>4. \A t \in Ticks : t \in Int
  BY SideAssumption
<1>5. \A k \in 1..Len(levels) : /\ levels[k] \in Levels /\ levels[k].tick \in Ticks
                                 /\ levels[k].tick \in Int /\ levels[k].qty \in Nat
  BY <1>2, <1>3, <1>4
<1>6. \A t \in Ticks : t \in Int /\ venue[t] \in Nat
  BY <1>4 DEF TypeOK
<1> QED
  BY <1>1, <1>2, <1>5, <1>6, SideAssumption DEF TypeOK

(* Bids downwards or asks upwards, the ticks are in a strict order.        *)
LEMMA BetterOrders ==
  ASSUME NEW a \in Int, NEW b \in Int, side \in {"BID", "ASK"}
  PROVE  /\ ~Better(a, a)
         /\ Better(a, b) => a # b /\ ~Better(b, a)
         /\ a # b => Better(a, b) \/ Better(b, a)
         /\ \A c \in Int : Better(a, b) /\ Better(b, c) => Better(a, c)
BY DEF Better

(***************************************************************************)
(* The binary search.                                                      *)
(***************************************************************************)

(* What Search(t) is defined as, in terms of f.                            *)
Halved(t, f) ==
  [range \in (1..(Len(levels) + 1)) \X (1..(Len(levels) + 1)) |->
     IF range[1] >= range[2] THEN range[1]
     ELSE IF Better(levels[(range[1] + range[2]) \div 2].tick, t)
          THEN f[<<(range[1] + range[2]) \div 2 + 1, range[2]>>]
          ELSE f[<<range[1], (range[1] + range[2]) \div 2>>]]

LEMMA SearchIsHalved ==
  ASSUME NEW t, NEW f, f = Halved(t, f)
  PROVE  Search(t) = Halved(t, Search(t))
BY Zenon DEF Search, Halved

LEMMA HalvedAt ==
  ASSUME NEW t, NEW f, NEW m, m = Len(levels) + 1, NEW lo \in 1..m, NEW hi \in 1..m
  PROVE  Halved(t, f)[<<lo, hi>>] =
           IF lo >= hi THEN lo
           ELSE IF Better(levels[(lo + hi) \div 2].tick, t) THEN f[<<(lo + hi) \div 2 + 1, hi>>]
           ELSE f[<<lo, (lo + hi) \div 2>>]
<1>1. <<lo, hi>> \in (1..m) \X (1..m) /\ <<lo, hi>>[1] = lo /\ <<lo, hi>>[2] = hi
  OBVIOUS
<1> QED
  BY <1>1 DEF Halved

(* In sorted levels, those better than t come before the others.           *)
LEMMA SplitAt ==
  ASSUME TypeOK, Sorted, NEW t \in Ticks, NEW L \in Nat, L = Len(levels)
  PROVE  \E pos \in 1..L + 1 : \A k \in 1..L : Better(levels[k].tick, t) <=> k < pos
<1> DEFINE S == {k \in 1..L + 1 : k = L + 1 \/ ~Better(levels[k].tick, t)}
<1>1. S \in SUBSET Nat /\ L + 1 \in S
  OBVIOUS
<1>2. PICK pos \in S : \A k \in S : pos <= k
  <2> HIDE DEF S
  <2> QED
    BY <1>1, LeastOf
<1>3. /\ t \in Int /\ side \in {"BID", "ASK"} /\ \A k \in 1..L : levels[k].tick \in Int
  BY SideFacts DEF TypeOK
<1>4. ASSUME NEW k \in 1..L PROVE Better(levels[k].tick, t) <=> k < pos
  <2>1. CASE k < pos
    <3>1. k \notin S /\ k \in 1..L + 1
      BY <1>2, <2>1
    <3> QED
      BY <2>1, <3>1
  <2>2. CASE k = pos
    BY <1>2, <2>2
  <2>3. CASE k > pos
    <3>1. pos \in 1..L /\ ~Better(levels[pos].tick, t) /\ ~(k < pos)
      BY <1>2, <2>3
    <3>2. Better(levels[pos].tick, levels[k].tick)
      BY <2>3, <3>1 DEF Sorted
    <3> QED
      BY <1>3, <3>1, <3>2, BetterOrders
  <2> QED
    BY <2>1, <2>2, <2>3
<1>5. pos \in 1..L + 1
  OBVIOUS
<1> QED
  BY <1>4, <1>5

(* lower_bound finds that place, in an array of any length.                *)
LEMMA SearchFinds ==
  ASSUME TypeOK, Sorted, NEW t \in Ticks, NEW L \in Nat, L = Len(levels),
         NEW m \in Nat, m = L + 1, NEW pos \in 1..m, \A k \in 1..L : Better(levels[k].tick, t) <=> k < pos
  PROVE  LowerBound(t) = pos
<1> DEFINE ends == 1..m
           Half(lo, hi) == (lo + hi) \div 2
           Clamp(lo, hi) == IF lo >= hi \/ pos < lo THEN lo ELSE IF pos > hi THEN hi ELSE pos
           found == [range \in (1..m) \X (1..m) |-> Clamp(range[1], range[2])]
<1>1. \A lo, hi \in ends : lo < hi =>
        Half(lo, hi) \in lo..hi - 1 /\ Half(lo, hi) \in 1..L /\ Half(lo, hi) + 1 \in ends
  OBVIOUS
<1>2. found = Halved(t, found)
  <2>1. ASSUME NEW range \in (1..m) \X (1..m)
        PROVE  found[range] = Halved(t, found)[range]
    <3>1. PICK lo \in ends, hi \in ends : range = <<lo, hi>>
      OBVIOUS
    <3>2. \A a, b \in ends : found[<<a, b>>] = Clamp(a, b)
      <4>1. \A a, b \in ends : /\ <<a, b>> \in (1..m) \X (1..m)
                               /\ <<a, b>>[1] = a /\ <<a, b>>[2] = b
        OBVIOUS
      <4> QED
        BY <4>1
    <3> HIDE DEF found
    <3>3. Halved(t, found)[<<lo, hi>>] =
            IF lo >= hi THEN lo
            ELSE IF Better(levels[Half(lo, hi)].tick, t) THEN found[<<Half(lo, hi) + 1, hi>>]
            ELSE found[<<lo, Half(lo, hi)>>]
      BY HalvedAt
    <3>4. CASE lo >= hi
      BY <3>1, <3>2, <3>3, <3>4
    <3>5. CASE lo < hi
      <4> DEFINE mid == Half(lo, hi)
      <4>1. mid \in lo..hi - 1 /\ mid \in 1..L /\ mid + 1 \in ends /\ mid \in ends
        BY <1>1, <3>5
      <4>2. ~(lo >= hi) /\ (Better(levels[mid].tick, t) <=> mid < pos)
        BY <3>5, <4>1
      <4> HIDE DEF mid
      <4>3. Halved(t, found)[<<lo, hi>>] = IF mid < pos THEN Clamp(mid + 1, hi) ELSE Clamp(lo, mid)
        BY <3>2, <3>3, <4>1, <4>2 DEF mid
      <4>4. Clamp(lo, hi) = IF mid < pos THEN Clamp(mid + 1, hi) ELSE Clamp(lo, mid)
        BY <4>1, <4>2
      <4> QED
        BY <3>1, <3>2, <4>3, <4>4
    <3> QED
      BY <3>4, <3>5
  <2>2. found = [range \in (1..m) \X (1..m) |-> found[range]]
    OBVIOUS
  <2> HIDE DEF found
  <2>3. Halved(t, found) = [range \in (1..m) \X (1..m) |-> Halved(t, found)[range]]
    BY DEF Halved
  <2> QED
    BY <2>1, <2>2, <2>3
<1>3. Search(t) = Halved(t, Search(t))
  <2> HIDE DEF found
  <2> QED
    BY <1>2, SearchIsHalved
<1> DEFINE Astray(d) == \E lo, hi \in ends :
             hi - lo = d /\ lo <= pos /\ pos <= hi /\ Search(t)[<<lo, hi>>] # pos
           S == {d \in 0..L : Astray(d)}
<1>4. S = {}
  <2> SUFFICES ASSUME S # {} PROVE FALSE
    OBVIOUS
  <2>1. PICK d \in S : \A e \in S : d <= e
    <3>1. S \in SUBSET Nat
      OBVIOUS
    <3>2. PICK x \in S : TRUE
      OBVIOUS
    <3> HIDE DEF S
    <3> QED
      BY <3>1, <3>2, LeastOf
  <2>2. d \in 0..L /\ Astray(d)
    OBVIOUS
  <2>3. PICK lo \in ends, hi \in ends :
          hi - lo = d /\ lo <= pos /\ pos <= hi /\ Search(t)[<<lo, hi>>] # pos
    BY <2>2
  <2>4. \A a, b \in ends : a <= pos /\ pos <= b /\ b - a < d => Search(t)[<<a, b>>] = pos
    <3> SUFFICES ASSUME NEW a \in ends, NEW b \in ends, a <= pos, pos <= b, b - a < d,
                        Search(t)[<<a, b>>] # pos
                 PROVE  FALSE
      OBVIOUS
    <3>1. b - a \in 0..L /\ ~(d <= b - a)
      BY <2>2
    <3>2. Astray(b - a)
      OBVIOUS
    <3>3. b - a \in S
      BY <3>1, <3>2
    <3> HIDE DEF S
    <3> QED
      BY <2>1, <3>1, <3>3
  <2> HIDE DEF S, Astray
  <2>5. Search(t)[<<lo, hi>>] =
          IF lo >= hi THEN lo
          ELSE IF Better(levels[Half(lo, hi)].tick, t) THEN Search(t)[<<Half(lo, hi) + 1, hi>>]
          ELSE Search(t)[<<lo, Half(lo, hi)>>]
    BY <1>3, HalvedAt
  <2>6. CASE lo >= hi
    BY <2>3, <2>5, <2>6
  <2>7. CASE lo < hi
    <3> DEFINE mid == Half(lo, hi)
    <3>1. mid \in lo..hi - 1 /\ mid \in 1..L /\ mid + 1 \in ends /\ mid \in ends
      BY <1>1, <2>7
    <3>2. ~(lo >= hi) /\ (Better(levels[mid].tick, t) <=> mid < pos)
      BY <2>7, <3>1
    <3>3. Search(t)[<<lo, hi>>] = IF mid < pos THEN Search(t)[<<mid + 1, hi>>] ELSE Search(t)[<<lo, mid>>]
      BY <2>5, <3>2
    <3> HIDE DEF mid
    <3>4. CASE mid < pos
      <4>1. mid + 1 <= pos /\ hi - (mid + 1) < d
        BY <2>3, <3>1, <3>4
      <4> QED
        BY <2>3, <2>4, <3>1, <3>3, <3>4, <4>1
    <3>5. CASE ~(mid < pos)
      <4>1. pos <= mid /\ mid - lo < d
        BY <2>3, <3>1, <3>5
      <4> QED
        BY <2>3, <2>4, <3>1, <3>3, <3>5, <4>1
    <3> QED
      BY <3>4, <3>5
  <2> QED
    BY <2>6, <2>7
<1>5. Search(t)[<<1, m>>] = pos
  <2> SUFFICES ASSUME Search(t)[<<1, m>>] # pos PROVE FALSE
    OBVIOUS
  <2>1. 1 \in ends /\ m \in ends /\ m - 1 = L /\ 1 <= pos /\ pos <= m /\ L \in 0..L
    OBVIOUS
  <2>2. Astray(L)
    BY <2>1
  <2>3. L \in S
    BY <2>1, <2>2
  <2> QED
    BY <1>4, <2>3
<1> QED
  BY <1>5 DEF LowerBound

LEMMA LowerBoundIs ==
  ASSUME TypeOK, Sorted, NEW t \in Ticks, NEW L \in Nat, L = Len(levels)
  PROVE  /\ LowerBound(t) \in 1..L + 1
         /\ \A k \in 1..L : Better(levels[k].tick, t) <=> k < LowerBound(t)
<1>1. PICK m \in Nat : m = L + 1
  OBVIOUS
<1>2. PICK pos \in 1..m : \A k \in 1..L : Better(levels[k].tick, t) <=> k < pos
  BY <1>1, SplitAt
<1>3. LowerBound(t) = pos
  BY <1>1, <1>2, SearchFinds
<1> QED
  BY <1>1, <1>2, <1>3

(* A tick is found where it is, once, or it is nowhere and everything from *)
(* its place on is worse.                                                  *)
LEMMA FoundIs ==
  ASSUME TypeOK, Sorted, NEW t \in Ticks, NEW L \in Nat, L = Len(levels),
         NEW p \in Nat, p = LowerBound(t)
  PROVE  /\ p \in 1..L + 1 /\ \A k \in 1..L : k < p => Better(levels[k].tick, t)
         /\ Found(t) => /\ p \in 1..L /\ levels[p].tick = t
                        /\ \A k \in 1..L : k # p => levels[k].tick # t
         /\ ~Found(t) => \A k \in 1..L : /\ levels[k].tick # t
                                         /\ k >= p => Better(t, levels[k].tick)
<1>1. p \in 1..L + 1 /\ \A k \in 1..L : Better(levels[k].tick, t) <=> k < p
  BY LowerBoundIs
<1>2. /\ t \in Int /\ side \in {"BID", "ASK"} /\ \A k \in 1..L : levels[k].tick \in Int
  BY SideFacts DEF TypeOK
<1>3. Found(t) <=> p <= L /\ levels[p].tick = t
  BY DEF Found
<1>4. ASSUME Found(t) PROVE p \in 1..L /\ levels[p].tick = t /\ \A k \in 1..L : k # p => levels[k].tick # t
  <2>1. p \in 1..L /\ levels[p].tick = t
    BY <1>1, <1>3, <1>4
  <2>2. \A k \in 1..L : k < p \/ k = p \/ p < k
    BY <2>1
  <2>3. \A k \in 1..L : k # p => Better(levels[k].tick, levels[p].tick) \/ Better(levels[p].tick, levels[k].tick)
    BY <2>1, <2>2 DEF Sorted
  <2> QED
    BY <1>2, <2>1, <2>3, BetterOrders
<1>5. ASSUME ~Found(t), NEW k \in 1..L
      PROVE  levels[k].tick # t /\ (k >= p => Better(t, levels[k].tick))
  <2>1. CASE k < p
    BY <1>1, <1>2, <2>1, BetterOrders
  <2>2. CASE k >= p
    <3>1. p \in 1..L /\ ~Better(levels[p].tick, t) /\ levels[p].tick # t
      BY <1>1, <1>3, <1>5, <2>2
    <3>2. Better(t, levels[p].tick)
      BY <1>2, <3>1, BetterOrders
    <3>3. Better(t, levels[k].tick)
      <4>1. CASE k = p
        BY <3>2, <4>1
      <4>2. CASE k > p
        <5>1. Better(levels[p].tick, levels[k].tick)
          BY <3>1, <4>2 DEF Sorted
        <5>2. levels[p].tick \in Int /\ levels[k].tick \in Int
          BY <1>2, <3>1
        <5> QED
          BY <1>2, <3>2, <5>1, <5>2, BetterOrders
      <4> QED
        BY <2>2, <3>1, <4>1, <4>2
    <3>4. levels[k].tick # t
      BY <1>2, <3>3, BetterOrders
    <3> QED
      BY <3>3, <3>4
  <2> QED
    BY <1>1, <2>1, <2>2
<1> QED
  BY <1>1, <1>4, <1>5

(***************************************************************************)
(* The deltas.                                                             *)
(***************************************************************************)

LEMMA LevelReplaced ==
  ASSUME levels \in Seq(Levels), NEW p \in 1..Len(levels), NEW level \in Levels,
         levels' = [levels EXCEPT ![p] = level]
  PROVE  /\ levels' \in Seq(Levels) /\ Len(levels') = Len(levels) /\ levels'[p] = level
         /\ \A k \in 1..Len(levels) : k # p => levels'[k] = levels[k]
<1>1. levels' \in Seq(Levels) /\ Len(levels') = Len(levels)
  BY ExceptSeq
<1>2. \A k \in 1..Len(levels) : levels'[k] = IF k = p THEN level ELSE levels[k]
  BY ExceptSeq
<1> QED
  BY <1>1, <1>2

(* rest is all the levels, or all but the worst.                           *)
LEMMA LevelEntered ==
  ASSUME NEW rest \in Seq(Levels), NEW p \in Nat, p - 1 \in 0..Len(rest), NEW level \in Levels,
         \A i \in 1..Len(rest) : rest[i] = levels[i], levels' = InsertAt(rest, p, level)
  PROVE  /\ levels' \in Seq(Levels) /\ Len(levels') = Len(rest) + 1 /\ levels'[p] = level
         /\ \A i \in 1..Len(rest) : /\ i < p => levels'[i] = levels[i]
                                    /\ i >= p => levels'[i + 1] = levels[i]
<1> DEFINE t == InsertAt(rest, p, level)
<1>1. t \in Seq(Levels) /\ Len(t) = Len(rest) + 1 /\ t[p] = level
  BY InsertAtIs
<1>2. \A i \in 1..p - 1 : t[i] = rest[i]
  BY InsertAtIs
<1>3. \A i \in 1..Len(rest) : i >= p => t[i + 1] = rest[i]
  BY InsertAtIs
<1> HIDE DEF t
<1>4. levels' = t
  BY DEF t
<1>5. \A i \in 1..Len(rest) : i < p => i \in 1..p - 1
  OBVIOUS
<1> QED
  BY <1>1, <1>2, <1>3, <1>4, <1>5

(* Without the level a delta deletes, the others are as they were.         *)
LEMMA DeleteKeeps ==
  ASSUME SideIInv, NEW t \in Ticks, levels' = Deleted(t),
         venue' = [venue EXCEPT ![t] = 0], UNCHANGED <<side, evicted>>
  PROVE  SideIInv'
<1>1. /\ TypeOK /\ Sorted /\ Live /\ NoneMissing
  BY DEF SideIInv
<1>2. PICK L \in Nat : L = Len(levels)
  BY <1>1, SideFacts
<1>3. PICK p \in Nat : p = LowerBound(t)
  BY <1>1, <1>2, LowerBoundIs
<1>4. /\ levels \in Seq(Levels) /\ L <= MaxLevels /\ MaxLevels \in Nat
      /\ \A k \in 1..L : levels[k].tick \in Ticks
  BY <1>1, <1>2, SideFacts
<1>5. /\ venue' \in [Ticks -> Nat] /\ venue'[t] = 0
      /\ \A u \in Ticks : u # t => venue'[u] = venue[u]
  BY <1>1 DEF TypeOK
<1>6. CASE Found(t)
  <2>1. p \in 1..L /\ levels[p].tick = t /\ \A k \in 1..L : k # p => levels[k].tick # t
    BY <1>1, <1>2, <1>3, <1>6, FoundIs
  <2>2. levels' = RemoveAt(levels, p)
    BY <1>3, <1>6 DEF Deleted
  <2>3. PICK m \in Nat : m = L - 1
    BY <2>1
  <2>4. /\ levels' \in Seq(Levels) /\ Len(levels') = m
        /\ \A i \in 1..m : levels'[i] = IF i < p THEN levels[i] ELSE levels[i + 1]
    <3>1. p \in 1..Len(levels) /\ Len(levels) - 1 = m
      BY <1>2, <2>1, <2>3
    <3> QED
      BY <1>4, <2>2, <3>1, RemoveAtIs
  <2>5. TypeOK'
    BY <1>1, <1>4, <1>5, <2>3, <2>4 DEF TypeOK, Levels
  <2>6. Sorted'
    <3> SUFFICES ASSUME NEW j \in 1..m, NEW k \in 1..m, j < k
                 PROVE  Better(levels[j].tick, levels[k].tick)'
      BY <2>4 DEF Sorted
    <3>1. PICK a \in 1..L, b \in 1..L : a < b /\ levels'[j] = levels[a] /\ levels'[k] = levels[b]
      <4>1. CASE k < p
        <5>1. j \in 1..L /\ k \in 1..L /\ j < p
          BY <2>3, <4>1
        <5> QED
          BY <2>4, <4>1, <5>1
      <4>2. CASE ~(k < p) /\ j < p
        <5>1. j \in 1..L /\ k + 1 \in 1..L /\ j < k + 1
          BY <2>3, <4>2
        <5> QED
          BY <2>4, <4>2, <5>1
      <4>3. CASE ~(j < p)
        <5>1. j + 1 \in 1..L /\ k + 1 \in 1..L /\ j + 1 < k + 1 /\ ~(k < p)
          BY <2>1, <2>3, <4>3
        <5> QED
          BY <2>4, <4>3, <5>1
      <4> QED
        BY <4>1, <4>2, <4>3
    <3>2. Better(levels[a].tick, levels[b].tick)
      BY <1>1, <1>2, <3>1 DEF Sorted
    <3> QED
      BY <3>1, <3>2 DEF Better
  <2>7. Live'
    <3> SUFFICES ASSUME NEW k \in 1..m
                 PROVE  levels'[k].qty > 0 /\ levels'[k].qty = venue'[levels'[k].tick]
      BY <2>4 DEF Live
    <3>1. PICK a \in 1..L : a # p /\ levels'[k] = levels[a]
      <4>1. CASE k < p
        <5>1. k \in 1..L /\ k # p
          BY <2>3, <4>1
        <5> QED
          BY <2>4, <4>1, <5>1
      <4>2. CASE ~(k < p)
        <5>1. k + 1 \in 1..L /\ k + 1 # p
          BY <2>1, <2>3, <4>2
        <5> QED
          BY <2>4, <4>2, <5>1
      <4> QED
        BY <4>1, <4>2
    <3>2. levels[a].tick # t /\ levels[a].tick \in Ticks
      BY <1>4, <2>1, <3>1
    <3> QED
      BY <1>1, <1>2, <1>5, <3>1, <3>2 DEF Live
  <2>8. NoneMissing'
    <3> SUFFICES ASSUME ~evicted, NEW u \in Ticks, venue'[u] > 0
                 PROVE  \E k \in 1..m : levels'[k].tick = u
      BY <2>4 DEF NoneMissing
    <3>1. u # t /\ venue[u] > 0
      BY <1>5
    <3>2. PICK a \in 1..L : levels[a].tick = u
      BY <1>1, <1>2, <3>1 DEF NoneMissing
    <3>3. a # p
      BY <2>1, <3>1, <3>2
    <3>4. CASE a < p
      <4>1. a \in 1..m
        BY <2>1, <2>3, <3>4
      <4> QED
        BY <2>4, <3>2, <3>4, <4>1
    <3>5. CASE a > p
      <4>1. a - 1 \in 1..m /\ ~(a - 1 < p) /\ a - 1 + 1 = a
        BY <2>1, <2>3, <3>5
      <4> QED
        BY <2>4, <3>2, <4>1
    <3> QED
      BY <2>1, <3>3, <3>4, <3>5
  <2> QED
    BY <2>5, <2>6, <2>7, <2>8 DEF SideIInv
<1>7. CASE ~Found(t)
  <2>1. \A k \in 1..L : levels[k].tick # t
    BY <1>1, <1>2, <1>3, <1>7, FoundIs
  <2>2. levels' = levels
    BY <1>7 DEF Deleted
  <2>3. TypeOK' /\ Sorted'
    BY <1>1, <1>5, <2>2 DEF TypeOK, Sorted, Better
  <2>4. Live'
    BY <1>1, <1>2, <1>4, <1>5, <2>1, <2>2 DEF Live
  <2>5. NoneMissing'
    BY <1>1, <1>5, <2>2 DEF NoneMissing
  <2> QED
    BY <2>3, <2>4, <2>5 DEF SideIInv
<1> QED
  BY <1>6, <1>7

(* A level that is there takes the new quantity.                           *)
LEMMA ReplaceKeeps ==
  ASSUME SideIInv, NEW t \in Ticks, NEW q \in Nat \ {0}, Found(t),
         levels' = [levels EXCEPT ![LowerBound(t)] = [tick |-> t, qty |-> q]],
         venue' = [venue EXCEPT ![t] = q], UNCHANGED <<side, evicted>>
  PROVE  SideIInv'
<1>1. /\ TypeOK /\ Sorted /\ Live /\ NoneMissing
  BY DEF SideIInv
<1>2. PICK L \in Nat : L = Len(levels)
  BY <1>1, SideFacts
<1>3. PICK p \in Nat : p = LowerBound(t)
  BY <1>1, <1>2, LowerBoundIs
<1>4. /\ levels \in Seq(Levels) /\ L <= MaxLevels /\ MaxLevels \in Nat
      /\ \A k \in 1..L : levels[k].tick \in Ticks
  BY <1>1, <1>2, SideFacts
<1>5. /\ venue' \in [Ticks -> Nat] /\ venue'[t] = q
      /\ \A u \in Ticks : u # t => venue'[u] = venue[u]
  BY <1>1 DEF TypeOK
<1>6. p \in 1..L /\ levels[p].tick = t /\ \A k \in 1..L : k # p => levels[k].tick # t
  BY <1>1, <1>2, <1>3, FoundIs
<1>7. PICK level \in Levels : level = [tick |-> t, qty |-> q] /\ level.tick = t /\ level.qty = q
  <2>1. [tick |-> t, qty |-> q] \in Levels
    BY DEF Levels
  <2> QED
    BY <2>1
<1>8. /\ levels' \in Seq(Levels) /\ Len(levels') = L
      /\ levels'[p] = level /\ \A k \in 1..L : k # p => levels'[k] = levels[k]
  <2>1. levels' = [levels EXCEPT ![p] = level] /\ p \in 1..Len(levels)
    BY <1>2, <1>3, <1>6, <1>7
  <2> QED
    BY <1>2, <1>4, <2>1, LevelReplaced
<1>9. \A k \in 1..L : levels'[k].tick = levels[k].tick
  BY <1>6, <1>7, <1>8
<1>10. TypeOK'
  BY <1>1, <1>4, <1>5, <1>8 DEF TypeOK, Levels
<1>11. Sorted'
  BY <1>1, <1>2, <1>8, <1>9 DEF Sorted, Better
<1>12. Live'
  <2> SUFFICES ASSUME NEW k \in 1..L
               PROVE  levels'[k].qty > 0 /\ levels'[k].qty = venue'[levels'[k].tick]
    BY <1>8 DEF Live
  <2>1. CASE k = p
    BY <1>5, <1>7, <1>8, <2>1
  <2>2. CASE k # p
    BY <1>1, <1>2, <1>4, <1>5, <1>6, <1>8, <2>2 DEF Live
  <2> QED
    BY <2>1, <2>2
<1>13. NoneMissing'
  <2> SUFFICES ASSUME ~evicted, NEW u \in Ticks, venue'[u] > 0
               PROVE  \E k \in 1..L : levels'[k].tick = u
    BY <1>8 DEF NoneMissing
  <2>1. CASE u = t
    BY <1>6, <1>9, <2>1
  <2>2. CASE u # t
    BY <1>1, <1>2, <1>5, <1>9, <2>2 DEF NoneMissing
  <2> QED
    BY <2>1, <2>2
<1> QED
  BY <1>10, <1>11, <1>12, <1>13 DEF SideIInv

EntersAt(t, q, p, c) ==
  /\ c <= Len(levels) /\ c < MaxLevels /\ p = LowerBound(t) /\ p - 1 \in 0..c
  /\ levels' \in Seq(Levels) /\ Len(levels') = c + 1
  /\ levels'[p].tick = t /\ levels'[p].qty = q
  /\ \A i \in 1..c : /\ i < p => levels'[i] = levels[i]
                     /\ i >= p => levels'[i + 1] = levels[i]
  /\ venue' = [venue EXCEPT ![t] = q] /\ UNCHANGED side
  /\ evicted' \in BOOLEAN /\ (~evicted' => ~evicted /\ c = Len(levels))

(* A level that is not there enters at its place, into all the levels or   *)
(* into what is left of them without the worst.                            *)
LEMMA InsertKeeps ==
  ASSUME SideIInv, NEW t \in Ticks, NEW q \in Nat \ {0}, ~Found(t),
         NEW c \in Nat, NEW p \in Nat, EntersAt(t, q, p, c)
  PROVE  SideIInv'
<1>1. TypeOK /\ Sorted /\ Live /\ NoneMissing
  BY DEF SideIInv
<1> PICK L \in Nat : L = Len(levels)
  BY <1>1, SideFacts
<1>2. /\ c <= L /\ c < MaxLevels /\ p = LowerBound(t) /\ p - 1 \in 0..c
      /\ levels' \in Seq(Levels) /\ Len(levels') = c + 1
      /\ levels'[p].tick = t /\ levels'[p].qty = q
      /\ \A i \in 1..c : /\ i < p => levels'[i] = levels[i]
                         /\ i >= p => levels'[i + 1] = levels[i]
      /\ venue' = [venue EXCEPT ![t] = q] /\ UNCHANGED side
      /\ evicted' \in BOOLEAN /\ (~evicted' => ~evicted /\ c = L)
  BY DEF EntersAt
<1>3. /\ \A k \in 1..L : k < p => Better(levels[k].tick, t)
      /\ \A k \in 1..L : levels[k].tick # t /\ (k >= p => Better(t, levels[k].tick))
  <2>1. p = LowerBound(t)
    BY <1>2
  <2>2. \A k \in 1..L : k < p => Better(levels[k].tick, t)
    BY <1>1, <2>1, FoundIs
  <2>3. \A k \in 1..L : levels[k].tick # t /\ (k >= p => Better(t, levels[k].tick))
    BY <1>1, <2>1, FoundIs
  <2> QED
    BY <2>2, <2>3
<1> USE <1>2
<1>4. /\ MaxLevels \in Nat /\ \A k \in 1..L : levels[k].tick \in Ticks
  BY <1>1, SideFacts
<1>5. /\ venue' \in [Ticks -> Nat] /\ venue'[t] = q
      /\ \A u \in Ticks : u # t => venue'[u] = venue[u]
  BY <1>1 DEF TypeOK
<1>6. PICK m \in Nat : m = c + 1 /\ p \in 1..m
  OBVIOUS
<1>7. /\ \A i \in 1..m : i < p => i \in 1..L /\ levels'[i] = levels[i]
      /\ \A i \in 1..m : i > p => i - 1 \in 1..L /\ i - 1 >= p /\ levels'[i] = levels[i - 1]
  <2>1. ASSUME NEW i \in 1..m, i < p PROVE i \in 1..L /\ levels'[i] = levels[i]
    <3>1. i \in 1..c /\ i \in 1..L
      BY <1>6, <2>1
    <3> QED
      BY <2>1, <3>1
  <2>2. ASSUME NEW i \in 1..m, i > p PROVE i - 1 \in 1..L /\ i - 1 >= p /\ levels'[i] = levels[i - 1]
    <3>1. i - 1 \in 1..c /\ i - 1 >= p /\ i - 1 + 1 = i /\ i - 1 \in 1..L
      BY <1>6, <2>2
    <3> QED
      BY <3>1
  <2> QED
    BY <2>1, <2>2
<1>8. TypeOK'
  <2>1. Len(levels') <= MaxLevels
    BY <1>4, <1>6
  <2>2. levels' \in Seq([tick : Ticks, qty : Nat])
    BY <1>6 DEF Levels
  <2> QED
    BY <1>1, <1>5, <2>1, <2>2 DEF TypeOK
<1>9. Sorted'
  <2> SUFFICES ASSUME NEW j \in 1..m, NEW k \in 1..m, j < k
               PROVE  Better(levels[j].tick, levels[k].tick)'
    BY <1>6 DEF Sorted
  <2>1. Better(levels'[j].tick, levels'[k].tick)
    <3>1. CASE k < p
      <4>1. j < p
        BY <1>6, <3>1
      <4> QED
        BY <1>1, <1>7, <3>1, <4>1 DEF Sorted
    <3>2. CASE k = p
      BY <1>3, <1>7, <3>2
    <3>3. CASE k > p /\ j < p
      <4>1. j < k - 1 /\ k - 1 \in 1..L /\ j \in 1..L /\ levels'[j] = levels[j] /\ levels'[k] = levels[k - 1]
        BY <1>6, <1>7, <3>3
      <4> QED
        BY <1>1, <4>1 DEF Sorted
    <3>4. CASE j = p
      <4>1. k > p /\ levels'[j].tick = t
        BY <3>4
      <4>2. k - 1 \in 1..L /\ k - 1 >= p /\ levels'[k] = levels[k - 1]
        BY <1>7, <4>1
      <4> QED
        BY <1>3, <4>1, <4>2
    <3>5. CASE j > p
      <4>1. /\ j - 1 < k - 1 /\ k > p /\ k - 1 \in 1..L /\ j - 1 \in 1..L
            /\ levels'[j] = levels[j - 1] /\ levels'[k] = levels[k - 1]
        BY <1>6, <1>7, <3>5
      <4> QED
        BY <1>1, <4>1 DEF Sorted
    <3> QED
      BY <1>6, <3>1, <3>2, <3>3, <3>4, <3>5
  <2> QED
    BY <2>1 DEF Better
<1>10. Live'
  <2> SUFFICES ASSUME NEW k \in 1..m
               PROVE  levels'[k].qty > 0 /\ levels'[k].qty = venue'[levels'[k].tick]
    BY <1>6 DEF Live
  <2>1. CASE k = p
    BY <1>5, <2>1
  <2>2. CASE k # p
    <3>1. PICK a \in 1..L : levels'[k] = levels[a]
      <4>1. CASE k < p
        BY <1>7, <4>1
      <4>2. CASE k > p
        BY <1>7, <4>2
      <4>3. k < p \/ k > p
        BY <1>6, <2>2
      <4> QED
        BY <4>1, <4>2, <4>3
    <3>2. levels[a].qty > 0 /\ levels[a].qty = venue[levels[a].tick]
      BY <1>1, SideFacts DEF Live
    <3>3. venue'[levels[a].tick] = venue[levels[a].tick]
      BY <1>3, <1>4, <1>5
    <3> QED
      BY <3>1, <3>2, <3>3
  <2> QED
    BY <2>1, <2>2
<1>11. NoneMissing'
  <2> SUFFICES ASSUME ~evicted, c = L, NEW u \in Ticks, venue'[u] > 0
               PROVE  \E k \in 1..m : levels'[k].tick = u
    BY <1>6 DEF NoneMissing
  <2>1. CASE u = t
    BY <1>6, <2>1
  <2>2. CASE u # t
    <3>1. PICK a \in 1..L : levels[a].tick = u
      BY <1>1, <1>5, <2>2 DEF NoneMissing
    <3>2. CASE a < p
      <4>1. a \in 1..m
        BY <1>6
      <4> QED
        BY <1>7, <3>1, <3>2, <4>1
    <3>3. CASE a >= p
      <4>1. a + 1 \in 1..m /\ a + 1 > p /\ a + 1 - 1 = a
        BY <1>6, <3>3
      <4>2. levels'[a + 1] = levels[a]
        BY <1>7, <4>1
      <4> QED
        BY <3>1, <4>1, <4>2
    <3> QED
      BY <1>6, <3>2, <3>3
  <2> QED
    BY <2>1, <2>2
<1> QED
  BY <1>8, <1>9, <1>10, <1>11 DEF SideIInv

LEMMA UpsertKeeps ==
  ASSUME SideIInv, NEW t \in Ticks, NEW q \in Nat \ {0}, levels' = Upserted(t, q),
         evicted' = (evicted \/ (~Found(t) /\ Full)),
         venue' = [venue EXCEPT ![t] = q], UNCHANGED side
  PROVE  SideIInv'
<1>1. TypeOK /\ Sorted /\ Live /\ NoneMissing
  BY DEF SideIInv
<1>2. PICK L \in Nat : L = Len(levels)
  BY <1>1, SideFacts
<1>3. PICK p \in Nat : p = LowerBound(t)
  BY <1>1, <1>2, LowerBoundIs
<1>4. /\ levels \in Seq(Levels) /\ L <= MaxLevels /\ MaxLevels \in Nat /\ MaxLevels > 0
      /\ \A k \in 1..L : levels[k].tick \in Ticks
  BY <1>1, <1>2, SideFacts
<1>5. p \in 1..L + 1
  BY <1>1, <1>2, <1>3, LowerBoundIs
<1>6. PICK level \in Levels : level = [tick |-> t, qty |-> q] /\ level.tick = t /\ level.qty = q
  <2>1. [tick |-> t, qty |-> q] \in Levels
    BY DEF Levels
  <2> QED
    BY <2>1
<1>7. CASE Found(t)
  <2>1. levels' = [levels EXCEPT ![LowerBound(t)] = [tick |-> t, qty |-> q]]
    BY <1>7 DEF Upserted
  <2>2. evicted' = evicted
    BY <1>1, <1>7 DEF TypeOK
  <2> QED
    BY <1>7, <2>1, <2>2, ReplaceKeeps
<1>8. CASE ~Found(t) /\ Full /\ p > MaxLevels
  <2>1. levels' = levels /\ evicted'
    BY <1>3, <1>8 DEF Upserted
  <2>2. \A k \in 1..L : levels[k].tick # t
    BY <1>1, <1>2, <1>3, <1>8, FoundIs
  <2>3. venue' \in [Ticks -> Nat] /\ \A u \in Ticks : u # t => venue'[u] = venue[u]
    BY <1>1 DEF TypeOK
  <2>4. TypeOK' /\ Sorted'
    BY <1>1, <2>1, <2>3 DEF TypeOK, Sorted, Better
  <2>5. Live'
    BY <1>1, <1>2, <1>4, <2>1, <2>2, <2>3 DEF Live
  <2>6. NoneMissing'
    BY <2>1 DEF NoneMissing
  <2> QED
    BY <2>4, <2>5, <2>6 DEF SideIInv
<1>9. CASE ~Found(t) /\ Full /\ p <= MaxLevels
  <2>1. L = MaxLevels /\ levels # <<>>
    BY <1>2, <1>4, <1>9, EmptySeq DEF Full
  <2>2. PICK rest \in Seq(Levels) : rest = Front(levels)
    BY <1>4, <2>1, FrontIs
  <2>3. PICK c \in Nat : c = L - 1
    BY <1>4, <2>1
  <2>4. Len(rest) = c /\ \A i \in 1..c : rest[i] = levels[i]
    <3>1. /\ Len(Front(levels)) = Len(levels) - 1
          /\ \A i \in 1..Len(levels) - 1 : Front(levels)[i] = levels[i]
      BY <1>4, <2>1, FrontIs
    <3>2. Len(rest) = c
      BY <1>2, <2>2, <2>3, <3>1
    <3>3. ASSUME NEW i \in 1..c PROVE rest[i] = levels[i]
      <4>1. i \in 1..Len(levels) - 1
        BY <1>2, <2>3
      <4> QED
        BY <2>2, <3>1, <4>1
    <3> QED
      BY <3>2, <3>3
  <2>5. levels' = InsertAt(rest, p, level)
    BY <1>3, <1>4, <1>6, <1>9, <2>2 DEF Upserted
  <2>6. p - 1 \in 0..c
    BY <1>5, <1>9, <2>1, <2>3
  <2>7. /\ levels' \in Seq(Levels) /\ Len(levels') = c + 1 /\ levels'[p] = level
        /\ \A i \in 1..c : /\ i < p => levels'[i] = levels[i]
                           /\ i >= p => levels'[i + 1] = levels[i]
    BY <2>4, <2>5, <2>6, LevelEntered
  <2>8. evicted' = TRUE
    BY <1>9
  <2>9. c <= L /\ c < MaxLevels
    BY <2>1, <2>3
  <2>10. EntersAt(t, q, p, c)
    BY <1>2, <1>3, <1>6, <2>6, <2>7, <2>8, <2>9 DEF EntersAt
  <2> QED
    BY <1>9, <2>10, InsertKeeps
<1>10. CASE ~Found(t) /\ ~Full
  <2>1. L < MaxLevels
    BY <1>2, <1>4, <1>10 DEF Full
  <2>2. levels' = InsertAt(levels, p, level)
    BY <1>3, <1>6, <1>10 DEF Upserted
  <2>3. p - 1 \in 0..L
    BY <1>5
  <2>4. /\ levels' \in Seq(Levels) /\ Len(levels') = L + 1 /\ levels'[p] = level
        /\ \A i \in 1..L : /\ i < p => levels'[i] = levels[i]
                           /\ i >= p => levels'[i + 1] = levels[i]
    BY <1>2, <1>4, <2>2, <2>3, LevelEntered
  <2>5. evicted' = evicted /\ evicted' \in BOOLEAN
    BY <1>1, <1>10 DEF TypeOK
  <2>6. EntersAt(t, q, p, L)
    BY <1>2, <1>3, <1>6, <2>1, <2>3, <2>4, <2>5 DEF EntersAt
  <2> QED
    BY <1>10, <2>6, InsertKeeps
<1> QED
  BY <1>4, <1>5, <1>7, <1>8, <1>9, <1>10

(***************************************************************************)
(* The invariant is inductive.                                             *)
(***************************************************************************)
Emptied ==
  side \in {"BID", "ASK"} /\ levels = <<>> /\ venue = [t \in Ticks |-> 0] /\ evicted = FALSE

LEMMA EmptiedIs == Emptied => SideIInv
<1> SUFFICES ASSUME Emptied PROVE SideIInv
  OBVIOUS
<1>1. <<>> \in Seq([tick : Ticks, qty : Nat]) /\ levels = <<>> /\ Len(levels) = 0
  BY EmptySeq DEF Emptied
<1>2. TypeOK
  <2>1. Len(levels) <= MaxLevels /\ levels \in Seq([tick : Ticks, qty : Nat])
    BY <1>1, SideAssumption
  <2>2. venue \in [Ticks -> Nat] /\ evicted \in BOOLEAN /\ side \in {"BID", "ASK"}
    BY DEF Emptied
  <2> QED
    BY <2>1, <2>2 DEF TypeOK
<1>3. Sorted /\ Live
  BY <1>1 DEF Sorted, Live
<1>4. NoneMissing
  BY DEF Emptied, NoneMissing
<1> QED
  BY <1>2, <1>3, <1>4 DEF SideIInv

LEMMA SideInitially == Init => SideIInv
BY EmptiedIs DEF Init, Emptied

LEMMA SideKeeps == SideIInv /\ [Next]_vars => SideIInv'
<1> SUFFICES ASSUME SideIInv, [Next]_vars PROVE SideIInv'
  OBVIOUS
<1>1. ASSUME NEW t \in Ticks, NEW q \in Qtys, ApplyDelta(t, q) PROVE SideIInv'
  <2>1. q \in Nat
    BY SideAssumption
  <2>2. /\ venue' = [venue EXCEPT ![t] = q] /\ UNCHANGED side
        /\ levels' = IF q = 0 THEN Deleted(t) ELSE Upserted(t, q)
        /\ evicted' = (evicted \/ (q # 0 /\ ~Found(t) /\ Full))
    BY <1>1 DEF ApplyDelta
  <2>3. evicted \in BOOLEAN
    BY DEF SideIInv, TypeOK
  <2>4. CASE q = 0
    <3>1. evicted' = evicted /\ levels' = Deleted(t) /\ venue' = [venue EXCEPT ![t] = 0]
      BY <2>2, <2>3, <2>4
    <3> QED
      BY <2>2, <3>1, DeleteKeeps
  <2>5. CASE q # 0
    <3>1. evicted' = (evicted \/ (~Found(t) /\ Full)) /\ levels' = Upserted(t, q) /\ q \in Nat \ {0}
      BY <2>1, <2>2, <2>5
    <3> QED
      BY <2>2, <3>1, UpsertKeeps
  <2> QED
    BY <2>4, <2>5
<1>2. CASE Clear
  <2>1. Emptied'
    BY <1>2 DEF Clear, Emptied, SideIInv, TypeOK
  <2> QED
    BY <2>1, EmptiedIs, PTL
<1>3. CASE UNCHANGED vars
  BY <1>3 DEF vars, SideIInv, TypeOK, Sorted, Better, Live, NoneMissing
<1> QED
  BY <1>1, <1>2, <1>3 DEF Next

(***************************************************************************)
(* Theorems about a side.                                                  *)
(***************************************************************************)

(* The array holds levels and never more than there is room for, whatever  *)
(* deltas come (BookSide::apply_delta).                                    *)
THEOREM SideTypesTheorem == Spec => []TypeOK
<1>1. SideIInv => TypeOK
  BY DEF SideIInv
<1> QED
  BY <1>1, SideInitially, SideKeeps, PTL DEF Spec

(* For an array of any length, the binary search with the shifts that make *)
(* and fill gaps keeps it sorted and every level in it the venue's.        *)
THEOREM LevelsTheorem == Spec => []LevelsAreVenues
<1>1. SideIInv => LevelsAreVenues
  <2> SUFFICES ASSUME SideIInv PROVE LevelsAreVenues
    OBVIOUS
  <2>1. DOMAIN levels = 1..Len(levels)
    BY SideFacts, LenProperties DEF SideIInv
  <2> QED
    BY <2>1 DEF SideIInv, Sorted, Live, LevelsAreVenues
<1> QED
  BY <1>1, SideInitially, SideKeeps, PTL DEF Spec

(* And as long as no level was dropped for want of room, the array has     *)
(* every tick the venue quotes: with the theorem before, it is the venue's *)
(* side, best level first.                                                 *)
THEOREM NoneMissingTheorem == Spec => [](~evicted => \A t \in Quoted : \E k \in 1..Len(levels) : levels[k].tick = t)
<1>1. SideIInv => (~evicted => \A t \in Quoted : \E k \in 1..Len(levels) : levels[k].tick = t)
  BY DEF SideIInv, NoneMissing, Quoted
<1> QED
  BY <1>1, SideInitially, SideKeeps, PTL DEF Spec

(* The ticks of the array.                                                 *)
TickAt == [k \in 1..Len(levels) |-> levels[k].tick]

(* With none missing they are the venue's, numbered from the best.         *)
LEMMA TicksAreQuoted ==
  ASSUME SideIInv, ~evicted
  PROVE  /\ OneToOne(TickAt, 1..Len(levels))
         /\ Quoted = {TickAt[k] : k \in 1..Len(levels)}
         /\ \A j, k \in 1..Len(levels) : Better(TickAt[j], TickAt[k]) <=> j < k
<1>0. TypeOK /\ Sorted /\ Live /\ NoneMissing /\ side \in {"BID", "ASK"}
  BY DEF SideIInv, TypeOK
<1>1. /\ Len(levels) \in Nat
      /\ \A k \in 1..Len(levels) : TickAt[k] = levels[k].tick /\ TickAt[k] \in Ticks /\ TickAt[k] \in Int
  BY <1>0, SideFacts DEF TickAt
<1>2. \A j, k \in 1..Len(levels) : j < k => Better(TickAt[j], TickAt[k])
  BY <1>0, <1>1 DEF Sorted
<1>3. \A j, k \in 1..Len(levels) : j < k \/ j = k \/ k < j
  BY <1>1
<1>4. \A a, b \in Int : ~Better(a, a) /\ (Better(a, b) => a # b /\ ~Better(b, a))
  BY <1>0, BetterOrders
<1>5. ASSUME NEW j \in 1..Len(levels), NEW k \in 1..Len(levels)
      PROVE  (Better(TickAt[j], TickAt[k]) <=> j < k) /\ (TickAt[j] = TickAt[k] => j = k)
  <2>1. CASE j < k
    BY <1>1, <1>2, <1>4, <2>1
  <2>2. CASE j = k
    BY <1>1, <1>4, <2>2
  <2>3. CASE k < j
    <3>1. Better(TickAt[k], TickAt[j]) /\ ~(j < k)
      BY <1>1, <1>2, <2>3
    <3> QED
      BY <1>1, <1>4, <3>1
  <2> QED
    BY <1>3, <2>1, <2>2, <2>3
<1>6. Quoted = {TickAt[k] : k \in 1..Len(levels)}
  <2>1. \A t \in Quoted : \E k \in 1..Len(levels) : TickAt[k] = t
    BY <1>0, <1>1 DEF NoneMissing, Quoted
  <2>2. \A k \in 1..Len(levels) : TickAt[k] \in Quoted
    BY <1>0, <1>1 DEF Live, Quoted
  <2> QED
    BY <2>1, <2>2
<1> QED
  BY <1>5, <1>6 DEF OneToOne

LEMMA RankIs ==
  ASSUME SideIInv, ~evicted, NEW k \in 1..Len(levels)
  PROVE  Rank(TickAt[k]) = k - 1
<1>0. Len(levels) \in Nat
  BY SideFacts DEF SideIInv
<1>1. k - 1 \in Nat /\ 1..(k - 1) \subseteq 1..Len(levels)
      /\ \A j \in 1..Len(levels) : j < k <=> j \in 1..(k - 1)
  BY <1>0
<1>2. OneToOne(TickAt, 1..(k - 1))
  BY <1>1, TicksAreQuoted DEF OneToOne
<1>3. {s \in Quoted : Better(s, TickAt[k])} = {TickAt[j] : j \in 1..(k - 1)}
  <2>1. /\ Quoted = {TickAt[j] : j \in 1..Len(levels)}
        /\ \A j \in 1..Len(levels) : Better(TickAt[j], TickAt[k]) <=> j < k
    BY TicksAreQuoted
  <2> QED
    BY <1>1, <2>1
<1>4. Cardinality({TickAt[j] : j \in 1..(k - 1)}) = k - 1
  BY <1>1, <1>2, CountIs
<1> QED
  BY <1>3, <1>4 DEF Rank

LEMMA SideIsVenues ==
  ASSUME SideIInv, ~evicted
  PROVE  levels = VenueSide
<1>1. /\ OneToOne(TickAt, 1..Len(levels)) /\ Quoted = {TickAt[k] : k \in 1..Len(levels)}
      /\ Len(levels) \in Nat /\ levels \in Seq(Levels)
  BY TicksAreQuoted, SideFacts DEF SideIInv
<1>2. Cardinality(Quoted) = Len(levels)
  BY <1>1, CountIs
<1> DEFINE Nth(k) == CHOOSE t \in Quoted : Rank(t) = k - 1
<1>3. ASSUME NEW k \in 1..Len(levels) PROVE Nth(k) = TickAt[k]
  <2>1. TickAt[k] \in Quoted /\ Rank(TickAt[k]) = k - 1
    BY <1>1, RankIs
  <2>2. ASSUME NEW t \in Quoted, Rank(t) = k - 1 PROVE t = TickAt[k]
    <3>1. PICK j \in 1..Len(levels) : t = TickAt[j]
      BY <1>1
    <3>2. Rank(t) = j - 1
      BY <3>1, RankIs
    <3>3. j = k
      BY <1>1, <2>2, <3>2
    <3> QED
      BY <3>1, <3>3
  <2> QED
    BY <2>1, <2>2
<1> HIDE DEF Nth
<1>4. ASSUME NEW k \in 1..Len(levels) PROVE levels[k] = [tick |-> Nth(k), qty |-> venue[Nth(k)]]
  <2>1. levels[k] \in Levels /\ levels[k].tick = Nth(k)
    BY <1>3, SideFacts DEF SideIInv, TickAt
  <2>2. levels[k].qty = venue[Nth(k)]
    BY <2>1 DEF SideIInv, Live
  <2> QED
    BY <2>1, <2>2 DEF Levels
<1>5. levels = [k \in 1..Len(levels) |-> levels[k]]
  BY <1>1, LenProperties
<1>6. levels = [k \in 1..Len(levels) |-> [tick |-> Nth(k), qty |-> venue[Nth(k)]]]
  BY <1>4, <1>5
<1> QED
  BY <1>2, <1>6 DEF VenueSide, Nth

(* The sums over the best levels, as the equations of the folds.           *)
Shown == 1..(IF Depth < Len(levels) THEN Depth ELSE Len(levels))
BestQuoted == {t \in Quoted : Rank(t) < Depth}
Quantities == [k \in DOMAIN levels |-> levels[k].qty]

LEMMA VolumeIs ==
  ASSUME IsFiniteSet(Shown)
  PROVE  \E f : Sums(Quantities, Shown, f) /\ Volume = f[Shown]
<1>1. PICK f : Sums(Quantities, Shown, f)
  BY SumExists
<1>2. Volume = FoldFunctionOnSet(+, 0, Quantities, Shown)
  BY Zenon DEF Volume, Shown, Quantities
<1>3. \E g : Sums(Quantities, Shown, g) /\ FoldFunctionOnSet(+, 0, Quantities, Shown) = g[Shown]
  BY <1>1, Zenon DEF Sums, SumStep, FoldFunctionOnSet, MapThenFoldSet
<1> QED
  BY <1>2, <1>3

LEMMA VenueVolumeIs ==
  ASSUME IsFiniteSet(BestQuoted)
  PROVE  \E f : Sums(venue, BestQuoted, f) /\ VenueVolume = f[BestQuoted]
<1>1. PICK f : Sums(venue, BestQuoted, f)
  BY SumExists
<1>2. VenueVolume = MapThenSumSet(LAMBDA t : venue[t], BestQuoted)
  BY DEF VenueVolume, BestQuoted
<1>3. \E g : Sums(venue, BestQuoted, g) /\ MapThenSumSet(LAMBDA t : venue[t], BestQuoted) = g[BestQuoted]
  BY <1>1, Zenon DEF Sums, SumStep, MapThenSumSet, MapThenFoldSet
<1> QED
  BY <1>2, <1>3

LEMMA VolumeIsVenues ==
  ASSUME SideIInv, ~evicted
  PROVE  Volume = VenueVolume
<1>1. /\ OneToOne(TickAt, 1..Len(levels)) /\ Quoted = {TickAt[k] : k \in 1..Len(levels)}
  BY TicksAreQuoted
<1>2. /\ Len(levels) \in Nat /\ DOMAIN levels = 1..Len(levels)
      /\ \A k \in 1..Len(levels) : levels[k].qty \in Nat /\ levels[k].tick \in Ticks
      /\ \A t \in Ticks : venue[t] \in Nat
  BY SideFacts, LenProperties DEF SideIInv
<1>3. PICK m \in Nat : /\ Shown = 1..m /\ m <= Len(levels)
                       /\ \A k \in 1..Len(levels) : k - 1 < Depth <=> k \in 1..m
  <2>1. Depth \in Nat
    BY SideAssumption
  <2>2. CASE Depth < Len(levels)
    <3>1. Shown = 1..Depth
      BY <2>2 DEF Shown
    <3>2. \A k \in 1..Len(levels) : k - 1 < Depth <=> k \in 1..Depth
      BY <1>2, <2>1
    <3> QED
      BY <1>2, <2>1, <2>2, <3>1, <3>2
  <2>3. CASE ~(Depth < Len(levels))
    <3>1. Shown = 1..Len(levels)
      BY <2>3 DEF Shown
    <3>2. \A k \in 1..Len(levels) : k - 1 < Depth <=> k \in 1..Len(levels)
      BY <1>2, <2>1, <2>3
    <3>3. Len(levels) \in Nat /\ Len(levels) <= Len(levels)
      BY <1>2
    <3> HIDE DEF Shown
    <3> QED
      BY <3>1, <3>2, <3>3, Zenon
  <2> QED
    BY <2>2, <2>3
<1>4. 1..m \subseteq 1..Len(levels)
  BY <1>2, <1>3
<1>5. BestQuoted = {TickAt[k] : k \in Shown}
  <2>1. \A k \in 1..Len(levels) : Rank(TickAt[k]) < Depth <=> k \in Shown
    BY <1>3, RankIs
  <2> QED
    BY <1>1, <1>3, <1>4, <2>1 DEF BestQuoted
<1>6. OneToOne(TickAt, Shown)
  BY <1>1, <1>3, <1>4 DEF OneToOne
<1>7. IsFiniteSet(Shown) /\ IsFiniteSet(BestQuoted)
  <2>1. IsFiniteSet(Shown)
    BY <1>3, FS_Interval
  <2>2. IsFiniteSet({TickAt[k] : k \in 1..m})
    BY <1>3, <1>6, CountIs
  <2> QED
    BY <1>3, <1>5, <2>1, <2>2
<1>8. \A k \in Shown : Quantities[k] = venue[TickAt[k]] /\ Quantities[k] \in Int
  <2>1. \A k \in 1..Len(levels) : Quantities[k] = levels[k].qty /\ TickAt[k] = levels[k].tick
    BY <1>2 DEF Quantities, TickAt
  <2>2. DOMAIN levels = 1..Len(levels) /\ \A k \in 1..Len(levels) : venue[levels[k].tick] = levels[k].qty
    BY <1>2 DEF SideIInv, Live
  <2>3. \A k \in 1..Len(levels) : Quantities[k] = venue[TickAt[k]] /\ Quantities[k] \in Int
    BY <1>2, <2>1, <2>2
  <2> QED
    BY <1>3, <1>4, <2>3
<1>9. IntTerms(Quantities, Shown) /\ IntTerms(venue, BestQuoted)
  <2>1. IntTerms(venue, BestQuoted)
    BY <1>2 DEF IntTerms, BestQuoted, Quoted
  <2> QED
    BY <1>8, <2>1 DEF IntTerms
<1>10. Renames(TickAt, Shown, BestQuoted, Quantities, venue)
  BY <1>5, <1>6, <1>8 DEF Renames
<1>11. PICK f : Sums(Quantities, Shown, f) /\ Volume = f[Shown]
  BY <1>7, VolumeIs
<1>12. PICK g : Sums(venue, BestQuoted, g) /\ VenueVolume = g[BestQuoted]
  BY <1>7, VenueVolumeIs
<1>13. f[Shown] = g[BestQuoted]
  BY <1>7, <1>9, <1>10, <1>11, <1>12, SumsMatch
<1> QED
  BY <1>11, <1>12, <1>13

(* As long as no level was dropped for want of room, the array is exactly  *)
(* the venue's side, best level first, and what the imbalance sums is the  *)
(* volume of the venue's best levels (BookSide::apply_delta and volume),   *)
(* for any room, any depth and any deltas.                                 *)
THEOREM ExactTheorem == Spec => []ExactUntilEvicted
<1>1. SideIInv => ExactUntilEvicted
  BY SideIsVenues, VolumeIsVenues DEF ExactUntilEvicted
<1> QED
  BY <1>1, SideInitially, SideKeeps, PTL DEF Spec

(***************************************************************************)
(* The book of a bonding curve: the inductive invariant.                   *)
(***************************************************************************)
Notifications == [kind : {"account", "logs"}, curve : Curves, qty : Int]

StreamTypes ==
  /\ stream \in {"connecting", "open", "closed", "backoff"}
  /\ pending \in Seq(Notifications) /\ curve \in Curves /\ closed \in BOOLEAN

(* Notification k is the newest one in flight that tells of the curve.     *)
NewestTold(k) ==
  /\ pending[k].kind = "account"
  /\ \A j \in 1..Len(pending) : j > k => pending[j].kind # "account"

NoneTold == \A k \in 1..Len(pending) : pending[k].kind # "account"

(* A subscription tells of every change that comes after it.               *)
NewestIsCurve ==
  stream = "open" =>
    \A k \in 1..Len(pending) : NewestTold(k) => pending[k].curve = curve

(* While no connection is open nothing is in flight, and a book that is    *)
(* still shown is one that outlived a connection closed in good order.     *)
OffLine ==
  stream \in {"connecting", "backoff"} => pending = <<>> /\ (synth = NoLevels \/ closed)

ShownIsCurve ==
  stream = "open" /\ NoneTold /\ synth # NoLevels =>
    Drained(curve) \/ closed \/ synth.asks[1].price = AskPrice(curve, 1)

CurveIInv == StreamTypes /\ NewestIsCurve /\ OffLine /\ ShownIsCurve

(***************************************************************************)
(* Notifications in flight.                                                *)
(***************************************************************************)
LEMMA PendingFacts ==
  ASSUME pending \in Seq(Notifications)
  PROVE  /\ Len(pending) \in Nat
         /\ \A k \in 1..Len(pending) : pending[k] \in Notifications
BY ElementOfSeq

(* A notification is read: the newest of those left is the newest before,  *)
(* and if none is left that tells of the curve, the one read was it.       *)
LEMMA ReadNext ==
  ASSUME StreamTypes, Told, pending' = Tail(pending)
  PROVE  /\ pending' \in Seq(Notifications) /\ Len(pending) >= 1 /\ Head(pending) = pending[1]
         /\ Head(pending) \in Notifications
         /\ \A k \in 1..Len(pending') : /\ k + 1 \in 1..Len(pending) /\ pending'[k] = pending[k + 1]
                                        /\ NewestTold(k)' => NewestTold(k + 1)
         /\ NoneTold' /\ Head(pending).kind = "account" => NewestTold(1)
         /\ NoneTold' /\ Head(pending).kind # "account" => NoneTold
<1>1. /\ pending \in Seq(Notifications) /\ Len(pending) \in Nat /\ pending # <<>>
      /\ \A k \in 1..Len(pending) : pending[k] \in Notifications
  BY PendingFacts DEF StreamTypes, Told
<1>2. Len(pending) >= 1
  BY <1>1, EmptySeq
<1>3. /\ pending' \in Seq(Notifications) /\ Len(pending') = Len(pending) - 1
      /\ Head(pending) = pending[1]
      /\ \A k \in 1..Len(pending) - 1 : pending'[k] = pending[k + 1]
  BY <1>1, HeadTailProperties
<1>4. \A j \in 1..Len(pending) : j = 1 \/ (j - 1 \in 1..Len(pending') /\ pending[j] = pending'[j - 1])
  <2> SUFFICES ASSUME NEW j \in 1..Len(pending), j # 1
               PROVE  j - 1 \in 1..Len(pending') /\ pending[j] = pending'[j - 1]
    OBVIOUS
  <2>1. j - 1 \in 1..Len(pending) - 1 /\ j - 1 + 1 = j
    BY <1>1
  <2> QED
    BY <1>3, <2>1
<1>5. ASSUME NEW k \in 1..Len(pending')
      PROVE  /\ k + 1 \in 1..Len(pending) /\ pending'[k] = pending[k + 1]
             /\ NewestTold(k)' => NewestTold(k + 1)
  <2>1. k + 1 \in 1..Len(pending) /\ pending'[k] = pending[k + 1]
    BY <1>1, <1>3
  <2>2. \A j \in 1..Len(pending) : j > k + 1 => j # 1 /\ j - 1 > k
    BY <1>1
  <2>3. NewestTold(k)' => NewestTold(k + 1)
    BY <1>4, <2>1, <2>2 DEF NewestTold
  <2> QED
    BY <2>1, <2>3
<1>6. NoneTold' /\ Head(pending).kind = "account" => NewestTold(1)
  <2>1. \A j \in 1..Len(pending) : j > 1 => j # 1
    BY <1>1
  <2> QED
    BY <1>3, <1>4, <2>1 DEF NoneTold, NewestTold
<1>7. NoneTold' /\ Head(pending).kind # "account" => NoneTold
  BY <1>3, <1>4 DEF NoneTold
<1>8. Head(pending) \in Notifications
  BY <1>1, <1>2, <1>3
<1> QED
  BY <1>2, <1>3, <1>5, <1>6, <1>7, <1>8

(* A notification is sent: one that tells of the curve is the newest, and  *)
(* any other leaves the newest what it was.                                *)
LEMMA NotifiedLast ==
  ASSUME StreamTypes, NEW msg \in Notifications, pending' = Append(pending, msg)
  PROVE  /\ pending' \in Seq(Notifications)
         /\ msg.kind = "account" =>
              /\ ~NoneTold'
              /\ \A k \in 1..Len(pending') : NewestTold(k)' => pending'[k] = msg
         /\ msg.kind # "account" =>
              /\ NoneTold' => NoneTold
              /\ \A k \in 1..Len(pending') : NewestTold(k)' =>
                   k \in 1..Len(pending) /\ NewestTold(k) /\ pending'[k] = pending[k]
<1>1. pending \in Seq(Notifications) /\ Len(pending) \in Nat
  BY PendingFacts DEF StreamTypes
<1>2. /\ pending' \in Seq(Notifications) /\ Len(pending') = Len(pending) + 1
      /\ pending'[Len(pending) + 1] = msg
      /\ \A k \in 1..Len(pending) : pending'[k] = pending[k]
  BY <1>1
<1>3. /\ Len(pending) + 1 \in 1..Len(pending')
      /\ \A k \in 1..Len(pending) : k \in 1..Len(pending') /\ Len(pending) + 1 > k
      /\ \A k \in 1..Len(pending') : k \in 1..Len(pending) \/ k = Len(pending) + 1
  BY <1>1, <1>2
<1>4. msg.kind = "account" =>
        ~NoneTold' /\ \A k \in 1..Len(pending') : NewestTold(k)' => pending'[k] = msg
  BY <1>2, <1>3 DEF NoneTold, NewestTold
<1>5. ASSUME msg.kind # "account"
      PROVE  /\ NoneTold' => NoneTold
             /\ \A k \in 1..Len(pending') : NewestTold(k)' =>
                  k \in 1..Len(pending) /\ NewestTold(k) /\ pending'[k] = pending[k]
  <2>1. NoneTold' => NoneTold
    BY <1>2, <1>3 DEF NoneTold
  <2>2. ASSUME NEW k \in 1..Len(pending'), NewestTold(k)'
        PROVE  k \in 1..Len(pending) /\ NewestTold(k) /\ pending'[k] = pending[k]
    <3>1. k # Len(pending) + 1
      BY <1>2, <1>5, <2>2 DEF NewestTold
    <3> QED
      BY <1>2, <1>3, <2>2, <3>1 DEF NewestTold
  <2> QED
    BY <2>1, <2>2
<1> QED
  BY <1>2, <1>4, <1>5

(* The best ask of a projection is one spacing above the curve's price.    *)
LEMMA BestAskIs == ASSUME NEW c PROVE Projection(c).asks[1].price = AskPrice(c, 1)
<1>1. 1 \in 1..SynthLevels
  BY CurveAssumption
<1> QED
  BY <1>1 DEF Projection

(***************************************************************************)
(* The invariant is inductive.                                             *)
(***************************************************************************)
LEMMA CurveInitially == CurveInit => CurveIInv
<1> SUFFICES ASSUME CurveInit PROVE CurveIInv
  OBVIOUS
<1>1. pending = <<>> /\ pending \in Seq(Notifications) /\ Len(pending) = 0
  BY EmptySeq DEF CurveInit
<1> QED
  BY <1>1 DEF CurveInit, CurveIInv, StreamTypes, NewestIsCurve, OffLine, ShownIsCurve

(* Nothing on the stream changes, and what is shown stays.                 *)
LEMMA CurveStill ==
  ASSUME CurveIInv, UNCHANGED <<stream, pending, curve, synth, closed>>
  PROVE  CurveIInv'
BY DEF CurveIInv, StreamTypes, NewestIsCurve, NewestTold, OffLine, ShownIsCurve, NoneTold

LEMMA ReadCurveKeeps == ASSUME CurveIInv, ReadCurve PROVE CurveIInv'
<1> DEFINE c == Head(pending).curve
<1>1. /\ StreamTypes /\ Told /\ Head(pending).kind = "account" /\ pending' = Tail(pending)
      /\ UNCHANGED <<curve, stream>> /\ stream \in {"open", "closed"}
      /\ \/ Drained(c) /\ UNCHANGED <<synth, closed>>
         \/ ~Drained(c) /\ synth' = Projection(c) /\ closed' = FALSE
  BY DEF ReadCurve, Told, CurveIInv
<1>2. /\ pending' \in Seq(Notifications) /\ Head(pending) = pending[1] /\ Len(pending) >= 1
      /\ \A k \in 1..Len(pending') : /\ k + 1 \in 1..Len(pending) /\ pending'[k] = pending[k + 1]
                                     /\ NewestTold(k)' => NewestTold(k + 1)
      /\ NoneTold' => NewestTold(1)
  BY <1>1, ReadNext
<1>3. StreamTypes'
  BY <1>1, <1>2 DEF StreamTypes
<1>4. NewestIsCurve'
  BY <1>1, <1>2 DEF CurveIInv, NewestIsCurve
<1>5. OffLine'
  BY <1>1 DEF OffLine
<1>6. ShownIsCurve'
  <2> SUFFICES ASSUME stream' = "open", NoneTold', synth' # NoLevels
               PROVE  Drained(curve') \/ closed' \/ synth'.asks[1].price = AskPrice(curve', 1)
    BY DEF ShownIsCurve
  <2>1. 1 \in 1..Len(pending)
    BY <1>1, <1>2, PendingFacts DEF StreamTypes
  <2>2. c = curve'
    BY <1>1, <1>2, <2>1 DEF CurveIInv, NewestIsCurve
  <2>3. CASE Drained(c)
    BY <2>2, <2>3
  <2>4. CASE synth' = Projection(c)
    BY <2>2, <2>4, BestAskIs
  <2> QED
    BY <1>1, <2>3, <2>4
<1> QED
  BY <1>3, <1>4, <1>5, <1>6 DEF CurveIInv

LEMMA ReadTradeKeeps == ASSUME CurveIInv, ReadTrade PROVE CurveIInv'
<1>1. /\ StreamTypes /\ Told /\ Head(pending).kind # "account" /\ pending' = Tail(pending)
      /\ UNCHANGED <<curve, stream, synth, closed>> /\ stream \in {"open", "closed"}
  BY DEF ReadTrade, Told, CurveIInv
<1>2. /\ pending' \in Seq(Notifications)
      /\ \A k \in 1..Len(pending') : /\ k + 1 \in 1..Len(pending) /\ pending'[k] = pending[k + 1]
                                     /\ NewestTold(k)' => NewestTold(k + 1)
      /\ NoneTold' => NoneTold
  BY <1>1, ReadNext
<1>3. StreamTypes'
  BY <1>1, <1>2 DEF StreamTypes
<1>4. NewestIsCurve'
  BY <1>1, <1>2 DEF CurveIInv, NewestIsCurve
<1>5. OffLine'
  BY <1>1 DEF OffLine
<1>6. ShownIsCurve'
  BY <1>1, <1>2 DEF CurveIInv, ShownIsCurve
<1> QED
  BY <1>3, <1>4, <1>5, <1>6 DEF CurveIInv

LEMMA CurveMovesKeeps == ASSUME CurveIInv, CurveMoves PROVE CurveIInv'
<1>1. PICK c \in Curves \ {curve} :
        curve' = c /\ Notify([kind |-> "account", curve |-> c, qty |-> 0])
  BY DEF CurveMoves
<1>2. UNCHANGED <<stream, synth, closed>> /\ StreamTypes
  BY DEF CurveMoves, CurveIInv
<1>3. PICK msg \in Notifications : msg = [kind |-> "account", curve |-> c, qty |-> 0]
  <2>1. c \in Curves /\ 0 \in Int
    OBVIOUS
  <2>2. [kind |-> "account", curve |-> c, qty |-> 0] \in Notifications
    BY <2>1 DEF Notifications
  <2> QED
    BY <2>2
<1>4. CASE stream = "open"
  <2>1. pending' = Append(pending, msg) /\ msg.kind = "account" /\ msg.curve = curve'
    BY <1>1, <1>3, <1>4 DEF Notify
  <2>2. /\ pending' \in Seq(Notifications) /\ ~NoneTold'
        /\ \A k \in 1..Len(pending') : NewestTold(k)' => pending'[k] = msg
    BY <1>2, <2>1, NotifiedLast
  <2> QED
    BY <1>1, <1>2, <1>4, <2>1, <2>2
       DEF CurveIInv, StreamTypes, NewestIsCurve, OffLine, ShownIsCurve
<1>5. CASE stream # "open"
  <2>1. UNCHANGED pending
    BY <1>1, <1>5 DEF Notify
  <2> QED
    BY <1>1, <1>2, <1>5, <2>1
       DEF CurveIInv, StreamTypes, NewestIsCurve, OffLine, ShownIsCurve
<1> QED
  BY <1>4, <1>5

LEMMA TakerTradesKeeps == ASSUME CurveIInv, TakerTrades PROVE CurveIInv'
<1>1. /\ stream = "open" /\ StreamTypes /\ curve \in Curves
      /\ UNCHANGED <<curve, stream, synth, closed>>
  BY DEF TakerTrades, CurveIInv, StreamTypes
<1>2. PICK q \in TakerQtys : Notify([kind |-> "logs", curve |-> curve, qty |-> q])
  BY DEF TakerTrades
<1>3. PICK msg \in Notifications : msg = [kind |-> "logs", curve |-> curve, qty |-> q]
  BY <1>1, CurveAssumption DEF Notifications
<1>4. pending' = Append(pending, msg) /\ msg.kind # "account"
  BY <1>1, <1>2, <1>3 DEF Notify
<1>5. /\ pending' \in Seq(Notifications) /\ (NoneTold' => NoneTold)
      /\ \A k \in 1..Len(pending') : NewestTold(k)' =>
           k \in 1..Len(pending) /\ NewestTold(k) /\ pending'[k] = pending[k]
  BY <1>1, <1>4, NotifiedLast
<1>6. StreamTypes'
  BY <1>1, <1>5 DEF StreamTypes
<1>7. NewestIsCurve'
  BY <1>1, <1>5 DEF CurveIInv, NewestIsCurve
<1>8. OffLine'
  BY <1>1 DEF OffLine
<1>9. ShownIsCurve'
  BY <1>1, <1>5 DEF CurveIInv, ShownIsCurve
<1> QED
  BY <1>6, <1>7, <1>8, <1>9 DEF CurveIInv

LEMMA CurveKeeps == CurveIInv /\ [CurveNext]_curveVars => CurveIInv'
<1> SUFFICES ASSUME CurveIInv, [CurveNext]_curveVars PROVE CurveIInv'
  OBVIOUS
<1>1. StreamTypes /\ <<>> \in Seq(Notifications) /\ Len(<<>>) = 0
  BY EmptySeq DEF CurveIInv
<1>2. CASE Subscribe
  <2>1. /\ stream' = "open" /\ pending' = <<>> /\ UNCHANGED <<curve, synth, closed>>
        /\ (synth = NoLevels \/ closed)
    BY <1>2 DEF Subscribe, CurveIInv, OffLine
  <2> QED
    BY <1>1, <2>1 DEF CurveIInv, StreamTypes, NewestIsCurve, OffLine, ShownIsCurve
<1>3. CASE ReadCurve
  BY <1>3, ReadCurveKeeps
<1>4. CASE ReadTrade
  BY <1>4, ReadTradeKeeps
<1>5. CASE StreamBreaks
  BY <1>1, <1>5
     DEF StreamBreaks, CurveIInv, StreamTypes, NewestIsCurve, OffLine, ShownIsCurve
<1>6. CASE StreamEnds
  BY <1>1, <1>6
     DEF StreamEnds, CurveIInv, StreamTypes, NewestIsCurve, OffLine, ShownIsCurve
<1>7. CASE CurveMoves
  BY <1>7, CurveMovesKeeps
<1>8. CASE TakerTrades
  BY <1>8, TakerTradesKeeps
<1>9. CASE NodeCloses
  BY <1>1, <1>9
     DEF NodeCloses, CurveIInv, StreamTypes, NewestIsCurve, OffLine, ShownIsCurve
<1>10. CASE TimePasses
  BY <1>10, CurveStill DEF TimePasses
<1>11. CASE UNCHANGED curveVars
  BY <1>11, CurveStill DEF curveVars
<1> QED
  BY <1>2, <1>3, <1>4, <1>5, <1>6, <1>7, <1>8, <1>9, <1>10, <1>11 DEF CurveNext

(***************************************************************************)
(* The theorem about the curve.                                            *)
(***************************************************************************)

(* The synthetic book is stale only where the adapter cannot know: for any *)
(* curves, moves, trades, breaks and closings (stream_market_data,         *)
(* _rebuild_synthetic_book).                                               *)
THEOREM StaleTheorem == CurveSpec => []StaleOnlyWhereBlind
<1>1. CurveIInv => StaleOnlyWhereBlind
  <2> SUFFICES ASSUME CurveIInv, synth # NoLevels,
                      \A k \in DOMAIN pending : pending[k].kind # "account",
                      ~Drained(curve), ~closed, stream # "closed"
               PROVE  synth.asks[1].price = AskPrice(curve, 1)
    BY DEF StaleOnlyWhereBlind
  <2>1. stream = "open"
    BY DEF CurveIInv, StreamTypes, OffLine
  <2>2. NoneTold
    BY LenProperties DEF CurveIInv, StreamTypes, NoneTold
  <2> QED
    BY <2>1, <2>2 DEF CurveIInv, ShownIsCurve
<1> QED
  BY <1>1, CurveInitially, CurveKeeps, PTL DEF CurveSpec

(***************************************************************************)
(* Powers.                                                                 *)
(***************************************************************************)
Powers(x, p) == p = [k \in Nat |-> IF k = 0 THEN 1 ELSE x * p[k - 1]]

(* p has the powers of x up to the L-th.                                   *)
PowersUpTo(x, p, L) ==
  /\ p[0] = 1 /\ \A k \in 0..L : p[k] \in Int
  /\ \A k \in Nat : k < L => p[k + 1] = x * p[k]

(* There are as many as wanted, one more after another,                    *)
LEMMA SomePowers ==
  ASSUME NEW x \in Int, NEW L \in Nat
  PROVE  \E p : PowersUpTo(x, p, L)
<1> DEFINE S == {m \in Nat : ~\E p : PowersUpTo(x, p, m)}
<1> SUFFICES ASSUME L \in S PROVE FALSE
  OBVIOUS
<1>1. PICK m \in S : \A k \in S : m <= k
  <2>1. S \in SUBSET Nat
    OBVIOUS
  <2> HIDE DEF S
  <2> QED
    BY <2>1, LeastOf
<1>2. m \in Nat /\ ~\E p : PowersUpTo(x, p, m)
  OBVIOUS
<1>3. m # 0
  <2> DEFINE p == [k \in Nat |-> 1]
  <2>1. PowersUpTo(x, p, 0)
    BY DEF PowersUpTo
  <2> QED
    BY <1>2, <2>1
<1>4. m - 1 \in Nat /\ ~(m <= m - 1) /\ m - 1 + 1 = m
  BY <1>2, <1>3
<1>5. m - 1 \notin S
  BY <1>1, <1>4
<1>6. PICK p : PowersUpTo(x, p, m - 1)
  BY <1>4, <1>5
<1> HIDE DEF S
<1> DEFINE q == [k \in Nat |-> IF k = m THEN x * p[m - 1] ELSE p[k]]
<1>7. q[0] = 1 /\ q[m] = x * q[m - 1] /\ \A k \in Nat : k < m => q[k] = p[k]
  BY <1>2, <1>3, <1>4, <1>6 DEF PowersUpTo
<1>8. p[m - 1] \in Int
  BY <1>4, <1>6 DEF PowersUpTo
<1>9. ASSUME NEW k \in 0..m PROVE q[k] \in Int
  <2>1. CASE k = m
    BY <1>2, <1>8, <2>1
  <2>2. CASE k # m
    <3>1. k \in 0..m - 1 /\ k \in Nat /\ k < m
      BY <1>2, <2>2
    <3> QED
      BY <1>6, <1>7, <3>1 DEF PowersUpTo
  <2> QED
    BY <2>1, <2>2
<1>10. ASSUME NEW k \in Nat, k < m PROVE q[k + 1] = x * q[k]
  <2>1. CASE k + 1 = m
    <3>1. k = m - 1
      BY <1>2, <2>1
    <3> HIDE DEF q
    <3> QED
      BY <1>7, <2>1, <3>1
  <2>2. CASE k + 1 # m
    <3>1. k + 1 \in Nat /\ k + 1 < m /\ k < m - 1
      BY <1>2, <1>10, <2>2
    <3>2. q[k + 1] = p[k + 1] /\ q[k] = p[k] /\ p[k + 1] = x * p[k]
      BY <1>6, <1>7, <1>10, <3>1 DEF PowersUpTo
    <3> QED
      BY <3>2
  <2> QED
    BY <2>1, <2>2
<1> HIDE DEF q
<1>11. PowersUpTo(x, q, m)
  BY <1>7, <1>9, <1>10 DEF PowersUpTo
<1> QED
  BY <1>2, <1>11

(* they are the same however many are taken,                               *)
LEMMA SamePowers ==
  ASSUME NEW x \in Int, NEW L \in Nat, NEW p, NEW q, PowersUpTo(x, p, L + 1), PowersUpTo(x, q, L)
  PROVE  p[L] = q[L]
<1> DEFINE S == {k \in 0..L : p[k] # q[k]}
<1> SUFFICES ASSUME L \in S PROVE FALSE
  OBVIOUS
<1>1. PICK m \in S : \A k \in S : m <= k
  <2>1. S \in SUBSET Nat
    OBVIOUS
  <2> HIDE DEF S
  <2> QED
    BY <2>1, LeastOf
<1>2. m \in 0..L /\ p[m] # q[m]
  OBVIOUS
<1>3. m # 0
  BY <1>2 DEF PowersUpTo
<1>4. PICK k \in 0..L : k = m - 1 /\ k + 1 = m /\ k < L /\ k < L + 1 /\ k \in Nat /\ ~(m <= k)
  BY <1>2, <1>3
<1>5. p[k] = q[k]
  BY <1>1, <1>4
<1> HIDE DEF S
<1>6. p[k + 1] = x * p[k] /\ q[k + 1] = x * q[k]
  BY <1>4 DEF PowersUpTo
<1> QED
  BY <1>2, <1>4, <1>5, <1>6

(* so all of them are.                                                     *)
LEMMA PowersExist ==
  ASSUME NEW x \in Int
  PROVE  \E p : Powers(x, p)
<1> DEFINE Up(L) == CHOOSE p : PowersUpTo(x, p, L)
           g == [L \in Nat |-> Up(L)[L]]
<1>1. ASSUME NEW L \in Nat PROVE PowersUpTo(x, Up(L), L)
  BY SomePowers
<1> HIDE DEF Up
<1>2. g[0] = 1
  BY <1>1 DEF PowersUpTo
<1>3. ASSUME NEW L \in Nat, L # 0 PROVE g[L] = x * g[L - 1]
  <2>1. PICK m \in Nat : m = L - 1 /\ m + 1 = L /\ m < L
    BY <1>3
  <2>2. PowersUpTo(x, Up(m + 1), m + 1) /\ PowersUpTo(x, Up(m), m)
    BY <1>1, <2>1
  <2>3. Up(m + 1)[m] = Up(m)[m]
    BY <2>2, SamePowers
  <2>4. Up(L)[L] = x * Up(L)[m]
    BY <1>1, <2>1 DEF PowersUpTo
  <2> QED
    BY <2>1, <2>3, <2>4
<1>4. g = [L \in Nat |-> g[L]]
  OBVIOUS
<1> HIDE DEF g
<1>5. g = [L \in Nat |-> IF L = 0 THEN 1 ELSE x * g[L - 1]]
  BY <1>2, <1>3, <1>4
<1> QED
  BY <1>5 DEF Powers

LEMMA PowerNext ==
  ASSUME NEW x \in Int
  PROVE  Power(x, 0) = 1 /\ \A L \in Nat : Power(x, L + 1) = x * Power(x, L)
<1> DEFINE p == CHOOSE q : Powers(x, q)
<1>1. Powers(x, p)
  BY PowersExist
<1>2. \A L : Power(x, L) = p[L]
  BY DEF Power, Powers
<1> HIDE DEF p
<1>3. p[0] = 1 /\ \A L \in Nat : p[L + 1] = x * p[L]
  <2>1. \A k \in Nat : p[k] = IF k = 0 THEN 1 ELSE x * p[k - 1]
    BY <1>1 DEF Powers
  <2>2. \A L \in Nat : L + 1 \in Nat /\ L + 1 # 0 /\ L + 1 - 1 = L
    OBVIOUS
  <2> QED
    BY <2>1, <2>2
<1> QED
  BY <1>2, <1>3

LEMMA PowerPositive ==
  ASSUME NEW x \in Positive, NEW L \in Nat
  PROVE  Power(x, L) \in Positive
<1> DEFINE S == {m \in Nat : Power(x, m) \notin Positive}
<1> SUFFICES ASSUME L \in S PROVE FALSE
  OBVIOUS
<1>1. PICK m \in S : \A k \in S : m <= k
  <2>1. S \in SUBSET Nat
    OBVIOUS
  <2> HIDE DEF S
  <2> QED
    BY <2>1, LeastOf
<1>2. m \in Nat /\ Power(x, m) \notin Positive
  OBVIOUS
<1>3. x \in Int
  BY DEF Positive
<1>4. m # 0
  BY <1>2, <1>3, PowerNext DEF Positive
<1>5. PICK k \in Nat : m = k + 1 /\ ~(m <= k)
  <2>1. m - 1 \in Nat /\ m = m - 1 + 1 /\ ~(m <= m - 1)
    BY <1>2, <1>4
  <2> QED
    BY <2>1
<1>6. Power(x, k) \in Positive
  BY <1>1, <1>5
<1> HIDE DEF S
<1>7. Power(x, m) = x * Power(x, k)
  BY <1>3, <1>5, PowerNext
<1> QED
  BY <1>2, <1>6, <1>7 DEF Positive

LEMMA PowerPlus ==
  ASSUME NEW x \in Positive, NEW L \in Nat, NEW j \in Nat
  PROVE  Power(x, L + j) = Power(x, L) * Power(x, j)
<1> DEFINE S == {m \in Nat : Power(x, L + m) # Power(x, L) * Power(x, m)}
<1> SUFFICES ASSUME j \in S PROVE FALSE
  OBVIOUS
<1>1. PICK m \in S : \A k \in S : m <= k
  <2>1. S \in SUBSET Nat
    OBVIOUS
  <2> HIDE DEF S
  <2> QED
    BY <2>1, LeastOf
<1>2. m \in Nat /\ Power(x, L + m) # Power(x, L) * Power(x, m)
  OBVIOUS
<1>3. x \in Int /\ Power(x, L) \in Int
  BY PowerPositive DEF Positive
<1>4. m # 0
  <2>1. Power(x, 0) = 1 /\ L + 0 = L
    BY <1>3, PowerNext
  <2> QED
    BY <1>2, <1>3, <2>1
<1>5. PICK k \in Nat : m = k + 1 /\ ~(m <= k)
  <2>1. m - 1 \in Nat /\ m = m - 1 + 1 /\ ~(m <= m - 1)
    BY <1>2, <1>4
  <2> QED
    BY <2>1
<1>6. Power(x, L + k) = Power(x, L) * Power(x, k)
  BY <1>1, <1>5
<1> HIDE DEF S
<1>7. Power(x, m) = x * Power(x, k) /\ Power(x, L + m) = x * Power(x, L + k)
  <2>1. L + k \in Nat /\ L + m = L + k + 1
    BY <1>5
  <2> QED
    BY <1>3, <1>5, <2>1, PowerNext
<1>8. Power(x, k) \in Int
  BY PowerPositive DEF Positive
<1> QED
  BY <1>2, <1>3, <1>6, <1>7, <1>8

(***************************************************************************)
(* The projection of a curve.                                              *)
(***************************************************************************)
LEMMA QuotientIs ==
  ASSUME NEW b \in Positive, NEW k \in Int, NEW a, a = b * k
  PROVE  a \div b = k
BY DEF Positive

LEMMA Scaled ==
  ASSUME NEW a \in Positive, NEW x \in Int, NEW y \in Int
  PROVE  (a * x < a * y <=> x < y) /\ (a * x <= a * y <=> x <= y)
<1>1. PICK d \in Int : d = y - x
  OBVIOUS
<1>2. a * y = a * x + a * d /\ a * d \in Int /\ a * x \in Int
  BY <1>1 DEF Positive
<1>3. (a * d > 0 <=> d > 0) /\ (a * d >= 0 <=> d >= 0)
  BY DEF Positive
<1> QED
  BY <1>1, <1>2, <1>3

(* r is the root of total / price, rounded down.                           *)
RootOf(r, price, total) ==
  r * r * price <= total /\ total < (r + 1) * (r + 1) * price

LEMMA RootExists ==
  ASSUME NEW price \in Positive, NEW total \in Nat
  PROVE  \E r \in Nat : RootOf(r, price, total)
<1> DEFINE S == {r \in Nat : total < (r + 1) * (r + 1) * price}
<1>1. total \in S
  <2>1. (total + 1) * (total + 1) * price = total + 1 + (total + 1) * ((total + 1) * price - 1)
    BY DEF Positive
  <2>2. (total + 1) * price - 1 \in Nat
    BY DEF Positive
  <2>3. (total + 1) * ((total + 1) * price - 1) \in Nat
    BY <2>2
  <2> QED
    BY <2>1, <2>3
<1>2. PICK r \in S : \A k \in S : r <= k
  <2>1. S \in SUBSET Nat
    OBVIOUS
  <2> HIDE DEF S
  <2> QED
    BY <1>1, <2>1, LeastOf
<1>3. r \in Nat /\ total < (r + 1) * (r + 1) * price
  OBVIOUS
<1>4. r * r * price <= total
  <2>1. CASE r = 0
    BY <2>1 DEF Positive
  <2>2. CASE r # 0
    <3>1. r - 1 \in Nat /\ ~(r <= r - 1) /\ r - 1 + 1 = r
      BY <1>3, <2>2
    <3>2. ~(total < r * r * price)
      BY <1>2, <3>1
    <3> HIDE DEF S
    <3>3. r * r * price \in Int
      BY <1>3 DEF Positive
    <3> QED
      BY <3>2, <3>3
  <2> QED
    BY <2>1, <2>2
<1> QED
  BY <1>3, <1>4 DEF RootOf

(* A smaller number's square is smaller.                                   *)
LEMMA Squares ==
  ASSUME NEW a \in Nat, NEW b \in Nat
  PROVE  (a <= b <=> a * a <= b * b) /\ (a < b <=> a * a < b * b)
<1>1. b * b - a * a = (b - a) * (b + a)
  OBVIOUS
<1>2. a < b => (b - a) * (b + a) > 0
  OBVIOUS
<1>3. b < a => (a - b) * (b + a) > 0 /\ (b - a) * (b + a) = -((a - b) * (b + a))
  OBVIOUS
<1>4. a = b => a * a = b * b
  OBVIOUS
<1> QED
  BY <1>1, <1>2, <1>3, <1>4

LEMMA OneRoot ==
  ASSUME NEW price \in Positive, NEW total \in Nat, NEW r \in Nat, NEW s \in Nat,
         RootOf(r, price, total), RootOf(s, price, total)
  PROVE  r = s
<1>1. ASSUME NEW a \in Nat, NEW b \in Nat, RootOf(a, price, total), RootOf(b, price, total) PROVE a <= b
  <2>1. price * (a * a) < price * ((b + 1) * (b + 1))
    BY <1>1 DEF RootOf, Positive
  <2>2. a * a < (b + 1) * (b + 1)
    BY <2>1, Scaled
  <2>3. a < b + 1
    BY <2>2, Squares
  <2> QED
    BY <2>3
<1> QED
  BY <1>1

LEMMA RootOfQuotient ==
  ASSUME NEW price \in Positive, NEW total \in Nat, NEW r \in Nat, RootOf(r, price, total)
  PROVE  RootOf(r, 1, total \div price) /\ total \div price \in Nat /\ r <= total \div price
<1>1. PICK k \in Nat, rest \in Nat : k = total \div price /\ total = price * k + rest /\ rest < price
  <2>1. total \div price \in Nat /\ total % price \in Nat /\ total % price < price
        /\ total = price * (total \div price) + (total % price)
    BY DEF Positive
  <2> QED
    BY <2>1
<1>2. PICK sq \in Nat : sq = r * r
  OBVIOUS
<1>3. PICK next \in Nat : next = (r + 1) * (r + 1)
  OBVIOUS
<1>4. price * sq <= price * k + rest /\ price * k + rest < price * next
  BY <1>1, <1>2, <1>3 DEF RootOf, Positive
<1>5. price * sq < price * (k + 1) /\ price * k < price * next
  <2>1. price * (k + 1) = price * k + price
    BY DEF Positive
  <2>2. price * sq \in Int /\ price * k \in Int /\ price * next \in Int
    BY DEF Positive
  <2> QED
    BY <1>1, <1>4, <2>1, <2>2 DEF Positive
<1>6. sq < k + 1 /\ k < next
  BY <1>5, Scaled
<1>7. r <= sq
  BY <1>2
<1> QED
  BY <1>1, <1>2, <1>3, <1>6, <1>7 DEF RootOf

(* Of two prices a step of p / q apart, the lower has the larger root,     *)
(* unless both roots are small,                                            *)
LEMMA RootsApart ==
  ASSUME NEW p \in Positive, NEW q \in Positive, q < p,
         NEW low \in Positive, NEW high \in Positive, low * p = high * q,
         NEW total \in Nat, NEW r \in Nat, NEW s \in Nat,
         RootOf(r, high, total), RootOf(s, low, total), s <= r
  PROVE  (r + 1) * (p - q) < 2 * p
<1>1. PICK n1 \in Positive : n1 = r + 1
  BY DEF Positive
<1>2. PICK sq \in Nat : sq = r * r
  OBVIOUS
<1>3. PICK next \in Nat : next = n1 * n1
  BY DEF Positive
<1>4. high * sq <= total /\ total < low * ((s + 1) * (s + 1))
  BY <1>2 DEF RootOf, Positive
<1>5. PICK over \in Nat : over = (s + 1) * (s + 1)
  OBVIOUS
<1>6. over <= next
  <2>1. s + 1 \in Nat /\ n1 \in Nat /\ s + 1 <= n1
    BY <1>1 DEF Positive
  <2> QED
    BY <1>3, <1>5, <2>1, Squares
<1>7. high * sq < low * next
  <2>1. low * over <= low * next
    BY <1>6, Scaled DEF Positive
  <2> QED
    BY <1>4, <1>5, <2>1 DEF Positive
<1>8. high * (p * sq) < high * (q * next)
  <2>1. p * (high * sq) < p * (low * next)
    BY <1>7, Scaled DEF Positive
  <2>2. p * (low * next) = high * (q * next)
    <3>1. p * (low * next) = (low * p) * next /\ (high * q) * next = high * (q * next)
      BY DEF Positive
    <3> QED
      BY <3>1
  <2>3. p * (high * sq) = high * (p * sq)
    BY DEF Positive
  <2> QED
    BY <2>1, <2>2, <2>3
<1>9. p * sq < q * next
  BY <1>8, Scaled DEF Positive
<1>10. n1 * (n1 * (p - q)) < n1 * (2 * p)
  <2>1. p * sq = p * (n1 * n1) - n1 * (2 * p) + p
    BY <1>1, <1>2 DEF Positive
  <2>2. n1 * (n1 * (p - q)) = p * (n1 * n1) - q * next
    BY <1>3 DEF Positive
  <2> QED
    BY <1>9, <2>1, <2>2 DEF Positive
<1>11. n1 * (p - q) < 2 * p
  <2>1. n1 * (p - q) \in Int /\ 2 * p \in Int
    BY DEF Positive
  <2> QED
    BY <1>10, <2>1, Scaled
<1> QED
  BY <1>1, <1>11

(* which no root within P / Q of the middle price is, when the tokens are  *)
(* enough.                                                                 *)
LEMMA RootsLarge ==
  ASSUME NEW p \in Positive, NEW q \in Positive, q < p, NEW P \in Positive, NEW Q \in Positive,
         NEW tok \in Positive, NEW mid \in Positive, NEW price \in Positive,
         price * Q <= mid * P, 4 * p * p * P <= tok * tok * (p - q) * (p - q) * Q,
         NEW r \in Nat, RootOf(r, price, tok * tok * mid)
  PROVE  2 * p < (r + 1) * (p - q)
<1>1. PICK d \in Positive : d = p - q
  <2>1. p - q \in Positive
    BY DEF Positive
  <2> QED
    BY <2>1
<1>2. PICK next \in Positive : next = (r + 1) * (r + 1)
  <2>1. (r + 1) * (r + 1) \in Positive
    BY DEF Positive
  <2> QED
    BY <2>1
<1>3. PICK own \in Positive : own = tok * tok
  <2>1. tok * tok \in Positive
    BY DEF Positive
  <2> QED
    BY <2>1
<1>4. mid * (own * Q) < mid * (next * P)
  <2>1. own * mid < next * price
    BY <1>2, <1>3 DEF RootOf
  <2>2. Q * (own * mid) < Q * (next * price)
    <3>1. own * mid \in Int /\ next * price \in Int
      BY DEF Positive
    <3> QED
      BY <2>1, <3>1, Scaled
  <2>3. next * (price * Q) <= next * (mid * P)
    <3>1. price * Q \in Int /\ mid * P \in Int
      BY DEF Positive
    <3> QED
      BY <3>1, Scaled
  <2>4. Q * (own * mid) = mid * (own * Q) /\ Q * (next * price) = next * (price * Q)
        /\ next * (mid * P) = mid * (next * P)
    BY DEF Positive
  <2>5. mid * (own * Q) \in Int /\ next * (price * Q) \in Int /\ mid * (next * P) \in Int
    BY DEF Positive
  <2> QED
    BY <2>2, <2>3, <2>4, <2>5
<1>5. own * Q < next * P
  <2>1. own * Q \in Int /\ next * P \in Int
    BY DEF Positive
  <2> QED
    BY <1>4, <2>1, Scaled
<1>6. PICK dd \in Positive : dd = d * d
  <2>1. d * d \in Positive
    BY DEF Positive
  <2> QED
    BY <2>1
<1>7. P * (4 * p * p) < P * (next * dd)
  <2>1. dd * (own * Q) < dd * (next * P)
    <3>1. own * Q \in Int /\ next * P \in Int
      BY DEF Positive
    <3> QED
      BY <1>5, <3>1, Scaled
  <2>2. tok * tok * (p - q) * (p - q) * Q = dd * (own * Q)
    BY <1>1, <1>3, <1>6 DEF Positive
  <2>3. 4 * p * p * P = P * (4 * p * p) /\ dd * (next * P) = P * (next * dd)
    BY DEF Positive
  <2>4. P * (4 * p * p) \in Int /\ dd * (own * Q) \in Int /\ P * (next * dd) \in Int
    BY DEF Positive
  <2> QED
    BY <2>1, <2>2, <2>3, <2>4
<1>8. 4 * p * p < next * dd
  <2>1. 4 * p * p \in Int /\ next * dd \in Int
    BY DEF Positive
  <2> QED
    BY <1>7, <2>1, Scaled
<1>9. (2 * p) * (2 * p) < ((r + 1) * d) * ((r + 1) * d)
  <2>1. 4 * p * p = (2 * p) * (2 * p)
    BY DEF Positive
  <2>2. next * dd = ((r + 1) * d) * ((r + 1) * d)
    BY <1>2, <1>6 DEF Positive
  <2> QED
    BY <1>8, <2>1, <2>2
<1>10. 2 * p \in Nat /\ (r + 1) * d \in Nat
  BY DEF Positive
<1>11. 2 * p < (r + 1) * d
  BY <1>9, <1>10, Squares
<1> QED
  BY <1>1, <1>11

LEMMA SpacingIs ==
  /\ StepNum \in Positive /\ StepDen \in Positive /\ StepNum \in Int /\ StepDen \in Int
  /\ StepDen < StepNum /\ SynthLevels \in Nat
BY CurveAssumption DEF Positive

(* The larger of two numbers has the larger powers.                        *)
LEMMA PowersOrder ==
  ASSUME NEW x \in Positive, NEW y \in Positive, x <= y, NEW k \in Nat
  PROVE  Power(x, k) <= Power(y, k)
<1> DEFINE S == {m \in Nat : ~(Power(x, m) <= Power(y, m))}
<1> SUFFICES ASSUME k \in S PROVE FALSE
  OBVIOUS
<1>1. PICK m \in S : \A j \in S : m <= j
  <2>1. S \in SUBSET Nat
    OBVIOUS
  <2> HIDE DEF S
  <2> QED
    BY <2>1, LeastOf
<1>2. m \in Nat /\ ~(Power(x, m) <= Power(y, m))
  OBVIOUS
<1>3. x \in Int /\ y \in Int
  BY DEF Positive
<1>4. m # 0
  BY <1>2, <1>3, PowerNext
<1>5. PICK j \in Nat : m = j + 1 /\ ~(m <= j)
  <2>1. m - 1 \in Nat /\ m = m - 1 + 1 /\ ~(m <= m - 1)
    BY <1>2, <1>4
  <2> QED
    BY <2>1
<1>6. Power(x, j) <= Power(y, j)
  BY <1>1, <1>5
<1> HIDE DEF S
<1>7. PICK X \in Positive : X = Power(x, j)
  BY PowerPositive
<1>8. PICK Y \in Positive : Y = Power(y, j)
  BY PowerPositive
<1>9. Power(x, m) = x * X /\ Power(y, m) = y * Y
  BY <1>3, <1>5, <1>7, <1>8, PowerNext
<1>10. x * X <= x * Y /\ Y * x <= Y * y
  BY <1>3, <1>6, <1>7, <1>8, Scaled DEF Positive
<1> QED
  BY <1>2, <1>9, <1>10 DEF Positive

(* A curve that is not drained, in its units: tok tokens, each at s, and   *)
(* the price in the scale of the levels.                                   *)
InUnits(c, s, tok, mid) ==
  /\ c.tok = tok /\ c.sol = tok * s /\ Middle(c) = mid /\ mid = s * PriceScale
  /\ K(c) * PriceScale = tok * tok * mid

LEMMA UnitsAre ==
  ASSUME NEW c \in Curves, ~Drained(c)
  PROVE  \E s \in Positive, tok \in Positive, mid \in Positive : InUnits(c, s, tok, mid)
<1>1. PICK tok \in Positive : tok = c.tok
  <2>1. c.tok \in Positive
    BY CurveAssumption DEF Drained, Positive
  <2> QED
    BY <2>1
<1>2. PICK s \in Positive : c.sol = tok * s
  <2>1. PICK sol \in Positive : sol = c.sol /\ sol % tok = 0
    <3>1. c.sol \in Positive /\ c.sol % c.tok = 0
      BY CurveAssumption, UnitsAssumption DEF Drained, Positive
    <3> QED
      BY <1>1, <3>1
  <2>2. sol \div tok \in Int /\ sol = tok * (sol \div tok)
    BY <2>1 DEF Positive
  <2>3. sol \div tok \in Positive
    BY <2>2 DEF Positive
  <2> QED
    BY <2>1, <2>2, <2>3
<1>3. PICK scale \in Positive : scale = PriceScale
  <2>1. Power(StepNum, SynthLevels) \in Positive /\ Power(StepDen, SynthLevels) \in Positive
    BY SpacingIs, PowerPositive
  <2>2. Power(StepNum, SynthLevels) * Power(StepDen, SynthLevels) \in Positive
    BY <2>1 DEF Positive
  <2> QED
    BY <2>2 DEF PriceScale
<1>4. PICK mid \in Positive : mid = s * scale
  <2>1. s * scale \in Positive
    BY DEF Positive
  <2> QED
    BY <2>1
<1>5. Middle(c) = mid
  <2>1. tok * s * scale = tok * mid
    BY <1>4 DEF Positive
  <2>2. (tok * s * scale) \div tok = mid
    BY <2>1, QuotientIs DEF Positive
  <2> QED
    BY <1>1, <1>2, <1>3, <2>2 DEF Middle
<1>6. K(c) * PriceScale = tok * tok * mid
  <2>1. tok * s * tok * scale = tok * tok * mid
    BY <1>4 DEF Positive
  <2> QED
    BY <1>1, <1>2, <1>3, <2>1 DEF K
<1> QED
  BY <1>1, <1>2, <1>3, <1>4, <1>5, <1>6 DEF InUnits

(* The prices of level i, in the powers of the spacing's fraction up to    *)
(* the level and beyond it; level 0 is the curve's price.                  *)
Around(i, a, b, A, B) ==
  /\ a = Power(StepNum, i) /\ b = Power(StepDen, i)
  /\ A = Power(StepNum, SynthLevels - i) /\ B = Power(StepDen, SynthLevels - i)

Quotes(c, i, ask, bid) == ask = AskPrice(c, i) /\ bid = BidPrice(c, i)

LEMMA AroundIs ==
  ASSUME NEW i \in 0..SynthLevels
  PROVE  \E a \in Positive, b \in Positive, A \in Positive, B \in Positive :
           /\ Around(i, a, b, A, B) /\ PriceScale = a * A * (b * B)
           /\ Power(StepNum, SynthLevels) = a * A /\ Power(StepDen, SynthLevels) = b * B
           /\ b <= a /\ B <= A
<1>1. i \in Nat /\ SynthLevels - i \in Nat /\ i + (SynthLevels - i) = SynthLevels
  BY SpacingIs
<1>2. PICK a \in Positive : a = Power(StepNum, i)
  BY <1>1, SpacingIs, PowerPositive
<1>3. PICK b \in Positive : b = Power(StepDen, i)
  BY <1>1, SpacingIs, PowerPositive
<1>4. PICK A \in Positive : A = Power(StepNum, SynthLevels - i)
  BY <1>1, SpacingIs, PowerPositive
<1>5. PICK B \in Positive : B = Power(StepDen, SynthLevels - i)
  BY <1>1, SpacingIs, PowerPositive
<1>6. Power(StepNum, SynthLevels) = a * A
  <2>1. Power(StepNum, i + (SynthLevels - i)) = a * A
    BY <1>1, <1>2, <1>4, SpacingIs, PowerPlus
  <2> QED
    BY <1>1, <2>1
<1>7. Power(StepDen, SynthLevels) = b * B
  <2>1. Power(StepDen, i + (SynthLevels - i)) = b * B
    BY <1>1, <1>3, <1>5, SpacingIs, PowerPlus
  <2> QED
    BY <1>1, <2>1
<1>8. b <= a /\ B <= A
  <2>1. StepDen <= StepNum
    BY SpacingIs
  <2> QED
    BY <1>1, <1>2, <1>3, <1>4, <1>5, <2>1, SpacingIs, PowersOrder
<1> QED
  BY <1>2, <1>3, <1>4, <1>5, <1>6, <1>7, <1>8 DEF Around, PriceScale

LEMMA PricesAre ==
  ASSUME NEW c, NEW s \in Positive, NEW tok \in Positive, NEW mid \in Positive, InUnits(c, s, tok, mid),
         NEW i \in 0..SynthLevels,
         NEW a \in Positive, NEW b \in Positive, NEW A \in Positive, NEW B \in Positive,
         Around(i, a, b, A, B), PriceScale = a * A * (b * B)
  PROVE  Quotes(c, i, s * a * a * A * B, s * b * b * A * B)
<1>1. mid = s * (a * A * (b * B))
  BY DEF InUnits
<1>2. AskPrice(c, i) = s * a * a * A * B
  <2>1. mid * a = b * (s * a * a * A * B) /\ s * a * a * A * B \in Int
    BY <1>1 DEF Positive
  <2>2. (mid * a) \div b = s * a * a * A * B
    BY <2>1, QuotientIs
  <2> QED
    BY <2>2 DEF AskPrice, InUnits, Around
<1>3. BidPrice(c, i) = s * b * b * A * B
  <2>1. mid * b = a * (s * b * b * A * B) /\ s * b * b * A * B \in Int
    BY <1>1 DEF Positive
  <2>2. (mid * b) \div a = s * b * b * A * B
    BY <2>1, QuotientIs
  <2> QED
    BY <2>2 DEF BidPrice, InUnits, Around
<1> QED
  BY <1>2, <1>3 DEF Quotes

(* No level is farther from the curve's price than the last.               *)
Within(price, mid) ==
  price * Power(StepDen, SynthLevels) <= mid * Power(StepNum, SynthLevels)

LEMMA PricesWithin ==
  ASSUME NEW c, NEW s \in Positive, NEW tok \in Positive, NEW mid \in Positive, InUnits(c, s, tok, mid),
         NEW i \in 0..SynthLevels
  PROVE  \E ask \in Positive, bid \in Positive :
           Quotes(c, i, ask, bid) /\ Within(ask, mid) /\ Within(bid, mid) /\ s <= ask /\ s <= bid
<1>1. PICK a \in Positive, b \in Positive, A \in Positive, B \in Positive :
        /\ Around(i, a, b, A, B) /\ PriceScale = a * A * (b * B)
        /\ Power(StepNum, SynthLevels) = a * A /\ Power(StepDen, SynthLevels) = b * B
        /\ b <= a /\ B <= A
  BY AroundIs
<1>2. PICK ask \in Positive : ask = s * a * a * A * B
  <2>1. s * a * a * A * B \in Positive
    BY DEF Positive
  <2> QED
    BY <2>1
<1>3. PICK bid \in Positive : bid = s * b * b * A * B
  <2>1. s * b * b * A * B \in Positive
    BY DEF Positive
  <2> QED
    BY <2>1
<1>4. Quotes(c, i, ask, bid)
  BY <1>1, <1>2, <1>3, PricesAre
<1>5. mid = s * (a * A * (b * B))
  BY <1>1 DEF InUnits
<1>6. ask * (b * B) <= mid * (a * A)
  <2>1. PICK w \in Positive : w = s * a * a * A * b * B
    <3>1. s * a * a * A * b * B \in Positive
      BY DEF Positive
    <3> QED
      BY <3>1
  <2>2. ask * (b * B) = w * B /\ mid * (a * A) = w * A
    BY <1>2, <1>5, <2>1 DEF Positive
  <2>3. w * B <= w * A
    BY <1>1, Scaled DEF Positive
  <2> QED
    BY <2>2, <2>3
<1>7. bid * (b * B) <= mid * (a * A)
  <2>1. bid <= ask
    <3>1. b * b <= a * a
      BY <1>1, Squares DEF Positive
    <3>2. (s * A * B) * (b * b) <= (s * A * B) * (a * a)
      <4>1. s * A * B \in Positive /\ b * b \in Int /\ a * a \in Int
        BY DEF Positive
      <4> QED
        BY <3>1, <4>1, Scaled
    <3>3. bid = (s * A * B) * (b * b) /\ ask = (s * A * B) * (a * a)
      BY <1>2, <1>3 DEF Positive
    <3> QED
      BY <3>2, <3>3
  <2>2. (b * B) * bid <= (b * B) * ask
    <3>1. b * B \in Positive /\ bid \in Int /\ ask \in Int
      BY DEF Positive
    <3> QED
      BY <2>1, <3>1, Scaled
  <2>3. (b * B) * bid = bid * (b * B) /\ (b * B) * ask = ask * (b * B)
    BY DEF Positive
  <2>4. bid * (b * B) \in Int /\ ask * (b * B) \in Int /\ mid * (a * A) \in Int
    BY DEF Positive
  <2> QED
    BY <1>6, <2>2, <2>3, <2>4
<1>8. s <= ask /\ s <= bid
  <2>1. ASSUME NEW k \in Positive PROVE s <= s * k
    <3>1. s * 1 <= s * k
      BY Scaled DEF Positive
    <3> QED
      BY <3>1 DEF Positive
  <2>2. a * a * A * B \in Positive /\ b * b * A * B \in Positive
    BY DEF Positive
  <2>3. ask = s * (a * a * A * B) /\ bid = s * (b * b * A * B)
    BY <1>2, <1>3 DEF Positive
  <2> QED
    BY <2>1, <2>2, <2>3
<1> QED
  BY <1>1, <1>4, <1>6, <1>7, <1>8 DEF Within

(* From one level to the next the prices are the spacing apart.            *)
LEMMA PricesApart ==
  ASSUME NEW c, NEW s \in Positive, NEW tok \in Positive, NEW mid \in Positive, InUnits(c, s, tok, mid),
         NEW i \in 1..SynthLevels,
         NEW ask \in Positive, NEW bid \in Positive, Quotes(c, i, ask, bid),
         NEW ask0 \in Positive, NEW bid0 \in Positive, Quotes(c, i - 1, ask0, bid0)
  PROVE  ask * StepDen = ask0 * StepNum /\ bid0 * StepDen = bid * StepNum
<1>1. PICK j \in 0..SynthLevels :
        /\ i \in 0..SynthLevels /\ j = i - 1 /\ j \in Nat /\ j + 1 = i
        /\ SynthLevels - i \in Nat /\ SynthLevels - j = SynthLevels - i + 1
  <2>1. /\ i \in 0..SynthLevels /\ i - 1 \in 0..SynthLevels /\ i - 1 \in Nat /\ i - 1 + 1 = i
        /\ SynthLevels - i \in Nat /\ SynthLevels - (i - 1) = SynthLevels - i + 1
    BY SpacingIs
  <2> QED
    BY <2>1
<1>2. PICK a \in Positive, b \in Positive, A \in Positive, B \in Positive :
        Around(i, a, b, A, B) /\ PriceScale = a * A * (b * B)
  BY <1>1, AroundIs
<1>3. PICK a0 \in Positive, b0 \in Positive, A0 \in Positive, B0 \in Positive :
        Around(j, a0, b0, A0, B0) /\ PriceScale = a0 * A0 * (b0 * B0)
  BY <1>1, AroundIs
<1>4. PICK p \in Positive : p = StepNum
  BY SpacingIs
<1>5. PICK q \in Positive : q = StepDen
  BY SpacingIs
<1>6. a = p * a0 /\ b = q * b0
  <2>1. Power(p, j + 1) = p * Power(p, j) /\ Power(q, j + 1) = q * Power(q, j)
    BY <1>1, <1>4, <1>5, SpacingIs, PowerNext
  <2> QED
    BY <1>1, <1>2, <1>3, <1>4, <1>5, <2>1 DEF Around
<1>7. A0 = p * A /\ B0 = q * B
  <2>1. Power(p, SynthLevels - i + 1) = p * Power(p, SynthLevels - i)
        /\ Power(q, SynthLevels - i + 1) = q * Power(q, SynthLevels - i)
    BY <1>1, <1>4, <1>5, SpacingIs, PowerNext
  <2> QED
    BY <1>1, <1>2, <1>3, <1>4, <1>5, <2>1 DEF Around
<1>8. ask = s * a * a * A * B /\ bid = s * b * b * A * B
  BY <1>1, <1>2, PricesAre DEF Quotes
<1>9. ask0 = s * a0 * a0 * A0 * B0 /\ bid0 = s * b0 * b0 * A0 * B0
  BY <1>1, <1>3, PricesAre DEF Quotes
<1>10. ask * q = ask0 * p
  BY <1>6, <1>7, <1>8, <1>9 DEF Positive
<1>11. bid0 * q = bid * p
  BY <1>6, <1>7, <1>8, <1>9 DEF Positive
<1> QED
  BY <1>4, <1>5, <1>10, <1>11

(* Level 0 is the curve itself.                                            *)
LEMMA NoLevelYet ==
  ASSUME NEW c, NEW s \in Positive, NEW tok \in Positive, NEW mid \in Positive, InUnits(c, s, tok, mid)
  PROVE  Quotes(c, 0, mid, mid) /\ RootOf(tok, mid, tok * tok * mid)
<1>1. Power(StepNum, 0) = 1 /\ Power(StepDen, 0) = 1
  BY SpacingIs, PowerNext
<1>2. (mid * 1) \div 1 = mid
  BY DEF Positive
<1>3. tok * tok * mid <= tok * tok * mid /\ tok * tok * mid < (tok + 1) * (tok + 1) * mid
  <2>1. (tok + 1) * (tok + 1) * mid = tok * tok * mid + 2 * tok * mid + mid
    BY DEF Positive
  <2>2. tok * tok * mid \in Int /\ 2 * tok * mid \in Nat
    BY DEF Positive
  <2> QED
    BY <2>1, <2>2 DEF Positive
<1> QED
  BY <1>1, <1>2, <1>3 DEF Quotes, AskPrice, BidPrice, InUnits, RootOf

(* What the tokens left at a price are, wherever they are computed.        *)
LEMMA LeftIs ==
  ASSUME NEW c, NEW s \in Positive, NEW tok \in Positive, NEW mid \in Positive, InUnits(c, s, tok, mid),
         NEW price \in Positive, s <= price, NEW r \in Nat, RootOf(r, price, tok * tok * mid)
  PROVE  TokensLeft(c, price) = r /\ Root((K(c) * PriceScale) \div price) = r
<1>1. PICK total \in Nat : total = tok * tok * mid /\ K(c) * PriceScale = total
  <2>1. tok * tok * mid \in Nat
    BY DEF Positive
  <2> QED
    BY <2>1 DEF InUnits
<1>2. RootOf(r, price, total)
  BY <1>1
<1>3. TokensLeft(c, price) = r
  <2>1. PICK scale \in Positive : scale = PriceScale
    <3>1. Power(StepNum, SynthLevels) \in Positive /\ Power(StepDen, SynthLevels) \in Positive
      BY SpacingIs, PowerPositive
    <3>2. Power(StepNum, SynthLevels) * Power(StepDen, SynthLevels) \in Positive
      BY <3>1 DEF Positive
    <3> QED
      BY <3>2 DEF PriceScale
  <2>2. PICK bound \in Nat : bound = tok * scale
    <3>1. tok * scale \in Nat
      BY DEF Positive
    <3> QED
      BY <3>1
  <2>3. r <= bound
    <3>1. PICK sq \in Nat : sq = r * r
      OBVIOUS
    <3>2. s * sq <= s * (tok * tok * scale)
      <4>1. sq * s <= sq * price
        <5>1. CASE sq = 0
          BY <5>1 DEF Positive
        <5>2. CASE sq # 0
          <6>1. sq \in Positive /\ s \in Int /\ price \in Int
            BY <5>2 DEF Positive
          <6> QED
            BY <6>1, Scaled
        <5> QED
          BY <5>1, <5>2
      <4>2. sq * price <= total
        BY <1>2, <3>1 DEF RootOf
      <4>3. total = s * (tok * tok * scale)
        BY <1>1, <2>1 DEF InUnits, Positive
      <4>4. sq * s \in Int /\ sq * price \in Int /\ sq * s = s * sq
        BY DEF Positive
      <4> QED
        BY <4>1, <4>2, <4>3, <4>4
    <3>3. sq <= tok * tok * scale
      <4>1. tok * tok * scale \in Int
        BY DEF Positive
      <4> QED
        BY <3>2, <4>1, Scaled
    <3>4. tok * tok * scale <= bound * bound
      <4>1. PICK k \in Positive : k = tok * tok * scale
        <5>1. tok * tok * scale \in Positive
          BY DEF Positive
        <5> QED
          BY <5>1
      <4>2. k * 1 <= k * scale
        BY Scaled DEF Positive
      <4>3. k * scale = bound * bound
        BY <2>2, <4>1 DEF Positive
      <4> QED
        BY <4>1, <4>2, <4>3 DEF Positive
    <3>5. r * r <= bound * bound
      <4>1. tok * tok * scale \in Int /\ bound * bound \in Int
        BY DEF Positive
      <4> QED
        BY <3>1, <3>3, <3>4, <4>1
    <3> QED
      BY <3>5, Squares
  <2>4. r \in 0..bound
    BY <2>3
  <2>5. \A k \in 0..bound : RootOf(k, price, total) => k = r
    BY <1>2, OneRoot
  <2>6. (CHOOSE k \in 0..bound : RootOf(k, price, total)) = r
    BY <1>2, <2>4, <2>5
  <2> QED
    BY <1>1, <2>1, <2>2, <2>6 DEF TokensLeft, InUnits, RootOf
<1>4. PICK k \in Nat : k = total \div price /\ RootOf(r, 1, k) /\ r <= k
  BY <1>2, RootOfQuotient
<1>5. Root(k) = r
  <2>1. r \in 0..k /\ 1 \in Positive
    BY <1>4 DEF Positive
  <2>2. \A j \in 0..k : RootOf(j, 1, k) => j = r
    BY <1>4, <2>1, OneRoot
  <2>3. \A j \in 0..k : RootOf(j, 1, k) <=> j * j <= k /\ k < (j + 1) * (j + 1)
    BY DEF RootOf
  <2>4. r * r <= k /\ k < (r + 1) * (r + 1) /\ \A j \in 0..k : j * j <= k /\ k < (j + 1) * (j + 1) => j = r
    BY <1>4, <2>1, <2>2, <2>3
  <2> QED
    BY <2>1, <2>4 DEF Root
<1> QED
  BY <1>1, <1>3, <1>4, <1>5

(* The prices of a level and the roots there.                              *)
Rooted(c, i, tok, mid, ask, bid, low, high) ==
  /\ Quotes(c, i, ask, bid) /\ Within(ask, mid) /\ Within(bid, mid)
  /\ RootOf(low, ask, tok * tok * mid) /\ RootOf(high, bid, tok * tok * mid)
  /\ AskCum(c, i) = tok - low /\ TokensLeft(c, ask) = low
  /\ BidCum(c, i) = high - tok /\ TokensLeft(c, bid) = high

LEMMA LevelIs ==
  ASSUME NEW c, NEW s \in Positive, NEW tok \in Positive, NEW mid \in Positive, InUnits(c, s, tok, mid),
         NEW i \in 0..SynthLevels
  PROVE  \E ask \in Positive, bid \in Positive, low \in Nat, high \in Nat :
           Rooted(c, i, tok, mid, ask, bid, low, high)
<1>1. PICK ask \in Positive, bid \in Positive :
        Quotes(c, i, ask, bid) /\ Within(ask, mid) /\ Within(bid, mid) /\ s <= ask /\ s <= bid
  BY PricesWithin
<1>2. tok * tok * mid \in Nat
  BY DEF Positive
<1>3. PICK low \in Nat : RootOf(low, ask, tok * tok * mid)
  BY <1>2, RootExists
<1>4. PICK high \in Nat : RootOf(high, bid, tok * tok * mid)
  BY <1>2, RootExists
<1>5. TokensLeft(c, ask) = low /\ Root((K(c) * PriceScale) \div ask) = low
  BY <1>1, <1>3, LeftIs
<1>6. TokensLeft(c, bid) = high /\ Root((K(c) * PriceScale) \div bid) = high
  BY <1>1, <1>4, LeftIs
<1>7. AskCum(c, i) = tok - low /\ BidCum(c, i) = high - tok
  BY <1>1, <1>5, <1>6 DEF AskCum, BidCum, Quotes, InUnits
<1> QED
  BY <1>1, <1>3, <1>4, <1>5, <1>6, <1>7 DEF Rooted

(* A level of a projected curve beside the price and the level before it.  *)
InOrder(c, i) ==
  /\ BidPrice(c, i) < Middle(c) /\ Middle(c) < AskPrice(c, i)
  /\ i > 1 => AskPrice(c, i - 1) < AskPrice(c, i) /\ BidPrice(c, i) < BidPrice(c, i - 1)

WalksThere(c, i) ==
  /\ AskCum(c, i) \in Int /\ AskCum(c, i) = c.tok - TokensLeft(c, AskPrice(c, i))
  /\ BidCum(c, i) \in Int /\ BidCum(c, i) = TokensLeft(c, BidPrice(c, i)) - c.tok

AddsSome(c, i) ==
  /\ AskCum(c, i) - (IF i = 1 THEN 0 ELSE AskCum(c, i - 1)) \in Positive
  /\ BidCum(c, i) - (IF i = 1 THEN 0 ELSE BidCum(c, i - 1)) \in Positive

LEMMA LevelsWalk ==
  ASSUME NEW c \in Curves, ~Drained(c), NEW i \in 1..SynthLevels
  PROVE  WalksThere(c, i)
<1>1. PICK s \in Positive, tok \in Positive, mid \in Positive : InUnits(c, s, tok, mid)
  BY UnitsAre
<1>2. i \in 0..SynthLevels
  BY SpacingIs
<1>3. PICK ask \in Positive, bid \in Positive, low \in Nat, high \in Nat :
        Rooted(c, i, tok, mid, ask, bid, low, high)
  BY <1>1, <1>2, LevelIs
<1>4. tok - low \in Int /\ high - tok \in Int
  BY DEF Positive
<1> QED
  BY <1>1, <1>3, <1>4 DEF WalksThere, Rooted, Quotes, InUnits

(* From each level to the next the price moves and tokens change hands.    *)
LEMMA NextLevel ==
  ASSUME NEW c \in Curves, ~Drained(c), NEW i \in 1..SynthLevels
  PROVE  /\ AskPrice(c, i - 1) < AskPrice(c, i) /\ BidPrice(c, i) < BidPrice(c, i - 1)
         /\ AskCum(c, i) - AskCum(c, i - 1) \in Positive
         /\ BidCum(c, i) - BidCum(c, i - 1) \in Positive
<1>1. PICK s \in Positive, tok \in Positive, mid \in Positive : InUnits(c, s, tok, mid)
  BY UnitsAre
<1>2. i \in 0..SynthLevels /\ i - 1 \in 0..SynthLevels
  BY SpacingIs
<1>3. PICK ask \in Positive, bid \in Positive, low \in Nat, high \in Nat :
        Rooted(c, i, tok, mid, ask, bid, low, high)
  BY <1>1, <1>2, LevelIs
<1>4. PICK ask0 \in Positive, bid0 \in Positive, low0 \in Nat, high0 \in Nat :
        Rooted(c, i - 1, tok, mid, ask0, bid0, low0, high0)
  BY <1>1, <1>2, LevelIs
<1>5. PICK p \in Positive : p = StepNum
  BY SpacingIs
<1>6. PICK q \in Positive : q = StepDen /\ q < p
  BY <1>5, SpacingIs
<1>7. ask0 * p = ask * q /\ bid * p = bid0 * q
  <2>1. ask * StepDen = ask0 * StepNum /\ bid0 * StepDen = bid * StepNum
    BY <1>1, <1>3, <1>4, PricesApart DEF Rooted
  <2> QED
    BY <1>5, <1>6, <2>1
<1>8. PICK total \in Nat : total = tok * tok * mid
  <2>1. tok * tok * mid \in Nat
    BY DEF Positive
  <2> QED
    BY <2>1
<1>9. PICK P \in Positive : P = Power(StepNum, SynthLevels)
  BY SpacingIs, PowerPositive
<1>10. PICK Q \in Positive : Q = Power(StepDen, SynthLevels)
  BY SpacingIs, PowerPositive
<1>11. 4 * p * p * P <= tok * tok * (p - q) * (p - q) * Q
  BY <1>1, <1>5, <1>6, <1>9, <1>10, UnitsAssumption DEF InUnits
<1>12. ASSUME NEW lower \in Positive, NEW upper \in Positive, lower * p = upper * q, upper * Q <= mid * P,
              NEW r \in Nat, NEW t \in Nat, RootOf(r, upper, total), RootOf(t, lower, total)
       PROVE  lower < upper /\ r < t
  <2>1. lower < upper
    <3>1. q * upper < p * upper
      <4>1. upper * q < upper * p
        BY <1>6, Scaled DEF Positive
      <4> QED
        BY <4>1 DEF Positive
    <3>2. p * lower < p * upper
      BY <1>12, <3>1 DEF Positive
    <3> QED
      BY <3>2, Scaled DEF Positive
  <2>2. 2 * p < (r + 1) * (p - q)
    BY <1>6, <1>8, <1>11, <1>12, RootsLarge
  <2>3. ASSUME t <= r PROVE FALSE
    <3>1. (r + 1) * (p - q) < 2 * p
      BY <1>6, <1>12, <2>3, RootsApart
    <3>2. (r + 1) * (p - q) \in Int /\ 2 * p \in Int
      BY DEF Positive
    <3> QED
      BY <2>2, <3>1, <3>2
  <2> QED
    BY <2>1, <2>3
<1>13. ask0 < ask /\ low < low0
  <2>1. ask * Q <= mid * P /\ RootOf(low, ask, total) /\ RootOf(low0, ask0, total)
    BY <1>3, <1>4, <1>8, <1>9, <1>10 DEF Rooted, Within
  <2> QED
    BY <1>7, <1>12, <2>1
<1>14. bid < bid0 /\ high0 < high
  <2>1. bid0 * Q <= mid * P /\ RootOf(high, bid, total) /\ RootOf(high0, bid0, total)
    BY <1>3, <1>4, <1>8, <1>9, <1>10 DEF Rooted, Within
  <2> QED
    BY <1>7, <1>12, <2>1
<1>15. tok - low - (tok - low0) \in Positive /\ high - tok - (high0 - tok) \in Positive
  BY <1>13, <1>14 DEF Positive
<1> QED
  BY <1>3, <1>4, <1>13, <1>14, <1>15 DEF Rooted, Quotes

LEMMA LevelsAdd ==
  ASSUME NEW c \in Curves, ~Drained(c), NEW i \in 1..SynthLevels
  PROVE  AddsSome(c, i)
<1>1. CASE i # 1
  BY <1>1, NextLevel DEF AddsSome
<1>2. CASE i = 1
  <2>1. PICK s \in Positive, tok \in Positive, mid \in Positive : InUnits(c, s, tok, mid)
    BY UnitsAre
  <2>2. i - 1 = 0 /\ 0 \in 0..SynthLevels
    BY <1>2, SpacingIs
  <2>3. PICK ask \in Positive, bid \in Positive, low \in Nat, high \in Nat :
          Rooted(c, 0, tok, mid, ask, bid, low, high)
    BY <2>1, <2>2, LevelIs
  <2>4. ask = mid /\ bid = mid /\ RootOf(tok, mid, tok * tok * mid)
    BY <2>1, <2>3, NoLevelYet DEF Rooted, Quotes
  <2>5. low = tok /\ high = tok
    <3>1. tok * tok * mid \in Nat /\ tok \in Nat
      BY DEF Positive
    <3> QED
      BY <2>3, <2>4, <3>1, OneRoot DEF Rooted
  <2>6. AskCum(c, 0) = 0 /\ BidCum(c, 0) = 0
    BY <2>3, <2>5 DEF Rooted, Positive
  <2>7. AskCum(c, i) - 0 \in Positive /\ BidCum(c, i) - 0 \in Positive
    BY <2>2, <2>6, NextLevel
  <2> QED
    BY <1>2, <2>7 DEF AddsSome
<1> QED
  BY <1>1, <1>2

(* So the prices lie in order around the curve's.                          *)
LEMMA LevelsInOrder ==
  ASSUME NEW c \in Curves, ~Drained(c), NEW i \in 1..SynthLevels
  PROVE  InOrder(c, i)
<1>1. PICK s \in Positive, tok \in Positive, mid \in Positive : InUnits(c, s, tok, mid)
  BY UnitsAre
<1>2. PICK a \in Positive, b \in Positive, A \in Positive, B \in Positive :
        /\ Around(i, a, b, A, B) /\ PriceScale = a * A * (b * B) /\ b <= a
  <2>1. i \in 0..SynthLevels
    BY SpacingIs
  <2> QED
    BY <2>1, AroundIs
<1>3. b < a
  <2>1. PICK k \in Nat : i = k + 1
    <3>1. i - 1 \in Nat /\ i = i - 1 + 1
      OBVIOUS
    <3> QED
      BY <3>1
  <2>2. PICK p \in Positive : p = StepNum
    BY SpacingIs
  <2>3. PICK q \in Positive : q = StepDen /\ q < p
    BY <2>2, SpacingIs
  <2>4. PICK X \in Positive : X = Power(p, k)
    BY PowerPositive
  <2>5. PICK Y \in Positive : Y = Power(q, k) /\ Y <= X
    <3>1. q <= p
      BY <2>3 DEF Positive
    <3> QED
      BY <2>4, <3>1, PowerPositive, PowersOrder
  <2>6. a = p * X /\ b = q * Y
    BY <1>2, <2>1, <2>2, <2>3, <2>4, <2>5, SpacingIs, PowerNext DEF Around
  <2>7. q * Y <= q * X /\ X * q < X * p
    BY <2>3, <2>5, Scaled DEF Positive
  <2> QED
    BY <2>6, <2>7 DEF Positive
<1>4. PICK ask \in Positive : ask = s * a * a * A * B
  <2>1. s * a * a * A * B \in Positive
    BY DEF Positive
  <2> QED
    BY <2>1
<1>5. PICK bid \in Positive : bid = s * b * b * A * B
  <2>1. s * b * b * A * B \in Positive
    BY DEF Positive
  <2> QED
    BY <2>1
<1>6. PICK w \in Positive : w = s * A * B
  <2>1. s * A * B \in Positive
    BY DEF Positive
  <2> QED
    BY <2>1
<1>7. mid = (w * b) * a /\ ask = (w * a) * a /\ bid = (w * b) * b /\ mid = (w * a) * b
  BY <1>1, <1>2, <1>4, <1>5, <1>6 DEF InUnits, Positive
<1>8. bid < mid /\ mid < ask
  <2>1. w * b \in Positive /\ w * a \in Positive /\ a \in Int /\ b \in Int
    BY DEF Positive
  <2> QED
    BY <1>3, <1>7, <2>1, Scaled
<1>9. ask = AskPrice(c, i) /\ bid = BidPrice(c, i)
  <2>1. i \in 0..SynthLevels
    BY SpacingIs
  <2>2. Quotes(c, i, s * a * a * A * B, s * b * b * A * B)
    BY <1>1, <1>2, <2>1, PricesAre
  <2> QED
    BY <1>4, <1>5, <2>2 DEF Quotes
<1> QED
  BY <1>1, <1>8, <1>9, NextLevel DEF InOrder, InUnits

(* Levels that hold what they add hold all of it, up to any of them.       *)
HoldWhatTheyAdd(shown, cum, w) ==
  \A k \in 1..SynthLevels : shown[k].qty = (cum[k] - (IF k = 1 THEN 0 ELSE cum[k - 1])) * w

LEMMA HeldIs ==
  ASSUME NEW shown, NEW cum, IntTerms(cum, 1..SynthLevels), NEW w \in Int,
         HoldWhatTheyAdd(shown, cum, w), NEW i \in 1..SynthLevels
  PROVE  Held(shown, i) = w * cum[i]
<1>1. SynthLevels \in Nat /\ i \in Nat /\ i <= SynthLevels
  BY CurveAssumption
<1> DEFINE c == [k \in 1..i + 1 |-> IF k = 1 THEN 0 ELSE cum[k - 1] * w]
           v == [k \in 1..i |-> shown[k].qty]
<1>2. \A k \in 1..SynthLevels : cum[k] \in Int
  BY DEF IntTerms
<1>3. ASSUME NEW k \in 1..i + 1 PROVE c[k] \in Int
  <2>1. CASE k = 1
    BY <2>1
  <2>2. CASE k # 1
    <3>1. k - 1 \in 1..SynthLevels
      BY <1>1, <2>2
    <3>2. cum[k - 1] * w \in Int
      BY <1>2, <3>1
    <3> QED
      BY <2>2, <3>2
  <2> QED
    BY <2>1, <2>2
<1>4. ASSUME NEW k \in 1..i PROVE v[k] = c[k + 1] - c[k]
  <2>1. k \in 1..SynthLevels /\ k \in 1..i + 1 /\ k + 1 \in 1..i + 1 /\ k + 1 # 1 /\ k + 1 - 1 = k
    BY <1>1
  <2>2. c[k + 1] = cum[k] * w
    BY <2>1
  <2>3. cum[k] \in Int
    BY <1>2, <2>1
  <2>4. v[k] = (cum[k] - (IF k = 1 THEN 0 ELSE cum[k - 1])) * w
    BY <2>1 DEF HoldWhatTheyAdd
  <2>5. CASE k = 1
    <3>1. v[k] = (cum[k] - 0) * w /\ c[k] = 0
      BY <2>1, <2>4, <2>5
    <3> HIDE DEF v, c
    <3> QED
      BY <2>2, <2>3, <3>1
  <2>6. CASE k # 1
    <3>1. v[k] = (cum[k] - cum[k - 1]) * w /\ c[k] = cum[k - 1] * w
      BY <2>1, <2>4, <2>6
    <3>2. cum[k - 1] \in Int
      BY <1>1, <1>2, <2>6
    <3> HIDE DEF v, c
    <3> QED
      BY <2>2, <2>3, <3>1, <3>2
  <2> QED
    BY <2>5, <2>6
<1>5. c[1] = 0 /\ c[i + 1] = cum[i] * w
  BY <1>1
<1>6. DOMAIN v = 1..i /\ Held(shown, i) = SumFunction(v)
  BY DEF Held
<1> HIDE DEF c, v
<1>7. IntTerms(c, 1..i + 1) /\ MoveTerms(c, v, i)
  BY <1>3, <1>4 DEF IntTerms, MoveTerms
<1>8. IsFiniteSet(1..i)
  BY <1>1, FS_Interval
<1>9. PICK f : Sums(v, 1..i, f) /\ SumFunction(v) = f[1..i]
  BY <1>6, <1>8, SumFunctionIs
<1>10. f[1..i] = c[i + 1] - c[1]
  BY <1>1, <1>7, <1>9, SumTelescopes
<1>11. cum[i] \in Int
  BY <1>2
<1> QED
  BY <1>5, <1>6, <1>9, <1>10, <1>11

(***************************************************************************)
(* The decayed flow is the flow of the tape.                               *)
(***************************************************************************)
TakerTrade == [qty : Int, ts : Nat]

(* Trades read until time at.                                              *)
ReadUntil(trades, at) ==
  /\ at \in 0..MaxTime
  /\ trades \in Seq(TakerTrade) /\ \A k \in 1..Len(trades) : trades[k].ts <= at

(* A trade counts with its quantity, less with every tick.                 *)
Weight(trade, at) ==
  trade.qty * Power(KeptNum, at - trade.ts) * Power(KeptDen, MaxTime - (at - trade.ts))
Weights(trades, at) == [k \in 1..Len(trades) |-> Weight(trades[k], at)]

FlowTypes ==
  /\ ReadUntil(tape, clock)
  /\ flow \in [amount : Int, ts : Nat] /\ flow.ts <= clock

(* The stored flow is the tape's, as it was at its time.                   *)
FlowIInv ==
  /\ FlowTypes
  /\ flow.amount * Power(KeptNum, clock - flow.ts) = Power(KeptDen, clock - flow.ts) * TapeFlow

LEMMA KeptIs ==
  /\ KeptNum \in Positive /\ KeptDen \in Positive /\ KeptNum \in Int /\ KeptDen \in Int
  /\ MaxTime \in Nat /\ MaxTime \in Int
BY CurveAssumption DEF Positive

LEMMA KeptPowers ==
  /\ Power(KeptNum, 0) = 1 /\ Power(KeptDen, 0) = 1
  /\ \A e \in Nat : Power(KeptNum, e) \in Positive /\ Power(KeptNum, e) \in Int
                    /\ Power(KeptNum, e + 1) = KeptNum * Power(KeptNum, e)
  /\ \A e \in Nat : Power(KeptDen, e) \in Positive /\ Power(KeptDen, e) \in Int
                    /\ Power(KeptDen, e + 1) = KeptDen * Power(KeptDen, e)
<1>1. Power(KeptNum, 0) = 1 /\ \A e \in Nat : Power(KeptNum, e + 1) = KeptNum * Power(KeptNum, e)
  BY KeptIs, PowerNext
<1>2. Power(KeptDen, 0) = 1 /\ \A e \in Nat : Power(KeptDen, e + 1) = KeptDen * Power(KeptDen, e)
  BY KeptIs, PowerNext
<1>3. \A e \in Nat : Power(KeptNum, e) \in Positive /\ Power(KeptDen, e) \in Positive
  BY KeptIs, PowerPositive
<1>4. \A e \in Nat : Power(KeptNum, e) \in Int /\ Power(KeptDen, e) \in Int
  BY <1>3 DEF Positive
<1> QED
  BY <1>1, <1>2, <1>3, <1>4

(* Terms in a proportion have sums in that proportion.                     *)
Proportional(a, v, b, w, D) == \A x \in D : a * v[x] = b * w[x]

LEMMA SumsScale ==
  ASSUME NEW D, IsFiniteSet(D), NEW a \in Int, NEW b \in Int, NEW v, NEW w,
         IntTerms(v, D), IntTerms(w, D), Proportional(a, v, b, w, D),
         NEW f, NEW g, Sums(v, D, f), Sums(w, D, g)
  PROVE  a * f[D] = b * g[D]
<1>1. Adds(v, D, f) /\ Adds(w, D, g)
  BY SumIs
<1>2. \A s \in SUBSET D : \A x \in s : f[s] = v[x] + f[s \ {x}] /\ g[s] = w[x] + g[s \ {x}]
  BY <1>1 DEF Adds
<1> DEFINE T == {s \in SUBSET D : a * f[s] # b * g[s]}
<1> SUFFICES ASSUME NEW t0 \in T PROVE FALSE
  OBVIOUS
<1>3. PICK s \in T : \A t \in T : ~(Cardinality(t) < Cardinality(s))
  <2>1. T \in SUBSET (SUBSET D)
    OBVIOUS
  <2> HIDE DEF T
  <2> QED
    BY <2>1, SmallestOf
<1>4. s \in SUBSET D /\ a * f[s] # b * g[s] /\ s # {}
  <2>1. a * f[{}] = b * g[{}]
    BY <1>1 DEF Adds
  <2> QED
    BY <2>1
<1>5. PICK x \in s : TRUE
  BY <1>4
<1>6. s \ {x} \in SUBSET D /\ Cardinality(s \ {x}) < Cardinality(s)
  <2>1. s \ {x} \in SUBSET D /\ Cardinality(s) \in Nat \ {0} /\ Cardinality(s \ {x}) = Cardinality(s) - 1
    BY <1>4, OneLess
  <2> QED
    BY <2>1
<1>7. a * f[s \ {x}] = b * g[s \ {x}]
  BY <1>3, <1>6
<1> HIDE DEF T
<1>8. f[s] = v[x] + f[s \ {x}] /\ g[s] = w[x] + g[s \ {x}]
  BY <1>2, <1>4
<1>9. PICK fr \in Int : fr = f[s \ {x}]
  BY <1>1, <1>6 DEF Adds
<1>10. PICK gr \in Int : gr = g[s \ {x}]
  BY <1>1, <1>6 DEF Adds
<1>11. PICK vx \in Int : vx = v[x]
  BY <1>4 DEF IntTerms
<1>12. PICK wx \in Int : wx = w[x]
  BY <1>4 DEF IntTerms
<1>13. a * vx = b * wx
  BY <1>4, <1>11, <1>12 DEF Proportional
<1>14. a * (vx + fr) = b * (wx + gr)
  BY <1>7, <1>9, <1>10, <1>13
<1> QED
  BY <1>4, <1>8, <1>9, <1>10, <1>11, <1>12, <1>14

LEMMA WeightsAre ==
  ASSUME NEW at, NEW trades, ReadUntil(trades, at)
  PROVE  /\ DOMAIN trades = 1..Len(trades) /\ Len(trades) \in Nat
         /\ \A k \in 1..Len(trades) :
              /\ trades[k] \in TakerTrade /\ trades[k].qty \in Int /\ trades[k].ts \in Nat /\ trades[k].ts <= at
              /\ MaxTime - (at - trades[k].ts) \in Nat /\ Weight(trades[k], at) \in Int
         /\ IntTerms(Weights(trades, at), 1..Len(trades))
<1>1. DOMAIN trades = 1..Len(trades) /\ Len(trades) \in Nat /\ \A k \in 1..Len(trades) : trades[k] \in TakerTrade
  BY ElementOfSeq, LenProperties DEF ReadUntil
<1>2. ASSUME NEW k \in 1..Len(trades)
      PROVE  /\ trades[k].qty \in Int /\ trades[k].ts \in Nat /\ trades[k].ts <= at
             /\ MaxTime - (at - trades[k].ts) \in Nat /\ Weight(trades[k], at) \in Int
  <2>1. trades[k].qty \in Int /\ trades[k].ts \in Nat /\ trades[k].ts <= at
    BY <1>1 DEF TakerTrade, ReadUntil
  <2>2. PICK rest \in Nat, age \in Nat : rest = MaxTime - (at - trades[k].ts) /\ age = at - trades[k].ts
    <3>1. PICK now \in Nat : now = at /\ now <= MaxTime
      BY KeptIs DEF ReadUntil
    <3>2. PICK ts \in Nat : ts = trades[k].ts /\ ts <= now
      BY <2>1, <3>1
    <3>3. MaxTime - (now - ts) \in Nat /\ now - ts \in Nat
      BY <3>1, <3>2, KeptIs
    <3> QED
      BY <3>1, <3>2, <3>3
  <2>3. Power(KeptDen, rest) \in Int /\ Power(KeptNum, age) \in Int
    BY KeptPowers
  <2>4. trades[k].qty * Power(KeptNum, age) * Power(KeptDen, rest) \in Int
    BY <2>1, <2>3
  <2> QED
    BY <2>1, <2>2, <2>4 DEF Weight
<1> QED
  BY <1>1, <1>2 DEF IntTerms, Weights

LEMMA TapeFlowIs ==
  ASSUME NEW at, NEW trades, ReadUntil(trades, at)
  PROVE  /\ SumFunction(Weights(trades, at)) \in Int
         /\ \E f : /\ Sums(Weights(trades, at), 1..Len(trades), f)
                   /\ SumFunction(Weights(trades, at)) = f[1..Len(trades)]
<1>1. PICK L \in Nat : L = Len(trades) /\ DOMAIN trades = 1..L
  BY WeightsAre
<1>2. PICK v : v = Weights(trades, at) /\ DOMAIN v = 1..L
  <2>1. DOMAIN Weights(trades, at) = 1..L
    BY <1>1 DEF Weights
  <2> QED
    BY <2>1
<1>3. IsFiniteSet(1..L) /\ IntTerms(v, 1..L)
  BY <1>1, <1>2, WeightsAre, FS_Interval
<1>4. PICK f : Sums(v, 1..L, f) /\ SumFunction(v) = f[1..L]
  BY <1>2, <1>3, SumFunctionIs
<1>5. Adds(v, 1..L, f)
  BY <1>3, <1>4, SumIs
<1>6. f[1..L] \in Int
  BY <1>5 DEF Adds
<1> QED
  BY <1>1, <1>2, <1>4, <1>6

(* The tape's flow, before and after a step.                               *)
LEMMA TapeFlowSums ==
  /\ FlowTypes => TapeFlow = SumFunction(Weights(tape, clock))
  /\ FlowTypes' => TapeFlow' = SumFunction(Weights(tape', clock'))
<1>1. FlowTypes => DOMAIN tape = 1..Len(tape)
  BY WeightsAre DEF FlowTypes
<1>2. FlowTypes' => DOMAIN tape' = 1..Len(tape')
  BY WeightsAre DEF FlowTypes
<1> QED
  BY <1>1, <1>2 DEF TapeFlow, Weights, Weight

(* The decayed flow is a whole number of units: nothing is rounded.        *)
LEMMA FlowIsDecayed == ASSUME FlowIInv PROVE DecayedFlow = TapeFlow /\ TapeFlow \in Int
<1>1. PICK d \in Nat : d = clock - flow.ts
  <2>1. clock - flow.ts \in Nat
    BY KeptIs DEF FlowIInv, FlowTypes, ReadUntil
  <2> QED
    BY <2>1
<1>2. Power(KeptDen, d) \in Positive /\ TapeFlow \in Int
  BY KeptPowers, TapeFlowIs, TapeFlowSums DEF FlowIInv, FlowTypes
<1>3. flow.amount * Power(KeptNum, d) = Power(KeptDen, d) * TapeFlow
  BY <1>1 DEF FlowIInv
<1> QED
  BY <1>1, <1>2, <1>3, QuotientIs DEF DecayedFlow

LEMMA FlowInitially == CurveInit => FlowIInv
<1> SUFFICES ASSUME CurveInit PROVE FlowIInv
  OBVIOUS
<1>1. tape = <<>> /\ tape \in Seq(TakerTrade) /\ Len(tape) = 0
  BY EmptySeq DEF CurveInit
<1>2. FlowTypes
  BY <1>1, KeptIs DEF CurveInit, FlowTypes, ReadUntil
<1>3. TapeFlow = 0
  <2>1. PICK v : v = Weights(tape, clock)
    OBVIOUS
  <2>2. PICK f : Sums(v, 1..Len(tape), f) /\ SumFunction(v) = f[1..Len(tape)]
    BY <1>2, <2>1, TapeFlowIs DEF FlowTypes
  <2>3. 1..Len(tape) = {}
    BY <1>1
  <2>4. f[1..Len(tape)] = 0
    BY <2>2, <2>3 DEF Sums, SumStep
  <2> QED
    BY <1>2, <2>1, <2>2, <2>4, TapeFlowSums
<1>4. Power(KeptNum, clock - flow.ts) = 1 /\ Power(KeptDen, clock - flow.ts) = 1
  <2>1. clock - flow.ts = 0
    BY DEF CurveInit
  <2> QED
    BY <2>1, KeptPowers
<1> QED
  BY <1>2, <1>3, <1>4 DEF CurveInit, FlowIInv

(* A tick passes: every trade counts the kept part of what it did.         *)
LEMMA TimePassesKeepsFlow == ASSUME FlowIInv, TimePasses PROVE FlowIInv'
<1>1. clock' = clock + 1 /\ clock < MaxTime /\ tape' = tape /\ flow' = flow /\ FlowTypes
  BY DEF TimePasses, FlowIInv
<1>2. PICK L \in Nat : L = Len(tape)
  BY WeightsAre, <1>1 DEF FlowTypes
<1>3. FlowTypes'
  <2>1. clock' \in 0..MaxTime /\ clock <= clock' /\ clock \in Int
    BY <1>1, KeptIs DEF FlowTypes, ReadUntil
  <2>2. flow.ts <= clock'
    BY <1>1, <2>1 DEF FlowTypes
  <2>3. \A k \in 1..Len(tape) : tape[k].ts <= clock'
    BY <1>1, <2>1, WeightsAre DEF FlowTypes
  <2> QED
    BY <1>1, <2>1, <2>2, <2>3 DEF FlowTypes, ReadUntil
<1>4. PICK v : v = Weights(tape, clock)
  OBVIOUS
<1>5. PICK w : w = Weights(tape, clock')
  OBVIOUS
<1>6. PICK f : Sums(v, 1..L, f) /\ TapeFlow = f[1..L] /\ TapeFlow \in Int
  BY <1>1, <1>2, <1>4, TapeFlowIs, TapeFlowSums DEF FlowTypes
<1>7. PICK g : Sums(w, 1..L, g) /\ TapeFlow' = g[1..L] /\ TapeFlow' \in Int
  BY <1>1, <1>2, <1>3, <1>5, TapeFlowIs, TapeFlowSums DEF FlowTypes
<1>8. ASSUME NEW k \in 1..L PROVE KeptNum * v[k] = KeptDen * w[k]
  <2>1. PICK qty \in Int : qty = tape[k].qty
    BY <1>1, <1>2, WeightsAre DEF FlowTypes
  <2>2. PICK ts \in Nat : ts = tape[k].ts /\ ts <= clock
    BY <1>1, <1>2, WeightsAre DEF FlowTypes
  <2>3. PICK e \in Nat : e = MaxTime - (clock' - ts) /\ e + 1 = MaxTime - (clock - ts)
    <3>1. PICK now \in Nat : now = clock /\ clock' = now + 1 /\ now < MaxTime
      BY <1>1, KeptIs DEF FlowTypes, ReadUntil
    <3>2. MaxTime - (now + 1 - ts) \in Nat /\ MaxTime - (now + 1 - ts) + 1 = MaxTime - (now - ts)
      BY <2>2, <3>1, KeptIs
    <3> QED
      BY <3>1, <3>2
  <2>4. PICK age \in Nat : age = clock - ts /\ age + 1 = clock' - ts
    <3>1. PICK now \in Nat : now = clock /\ clock' = now + 1
      BY <1>1, KeptIs DEF FlowTypes, ReadUntil
    <3>2. now - ts \in Nat /\ now - ts + 1 = now + 1 - ts
      BY <2>2, <3>1
    <3> QED
      BY <3>1, <3>2
  <2>5. PICK P \in Int : P = Power(KeptNum, age) /\ Power(KeptNum, age + 1) = KeptNum * P
    BY KeptPowers
  <2>6. PICK Q \in Int : Q = Power(KeptDen, e) /\ Power(KeptDen, e + 1) = KeptDen * Q
    BY KeptPowers
  <2>7. v[k] = qty * P * (KeptDen * Q) /\ w[k] = qty * (KeptNum * P) * Q
    BY <1>1, <1>2, <1>4, <1>5, <2>1, <2>2, <2>3, <2>4, <2>5, <2>6 DEF Weights, Weight
  <2> QED
    BY <2>7, KeptIs
<1>9. IntTerms(v, 1..L) /\ IntTerms(w, 1..L)
  BY <1>1, <1>2, <1>3, <1>4, <1>5, WeightsAre DEF FlowTypes
<1>10. Proportional(KeptNum, v, KeptDen, w, 1..L)
  BY <1>8 DEF Proportional
<1>11. KeptNum * TapeFlow = KeptDen * TapeFlow'
  <2>1. IsFiniteSet(1..L)
    BY FS_Interval
  <2>2. KeptNum * f[1..L] = KeptDen * g[1..L]
    BY <1>6, <1>7, <1>9, <1>10, <2>1, KeptIs, SumsScale
  <2> QED
    BY <1>6, <1>7, <2>2
<1>12. PICK d \in Nat : d = clock - flow.ts /\ d + 1 = clock' - flow.ts
  <2>1. clock - flow.ts \in Nat /\ clock - flow.ts + 1 = clock' - flow.ts
    BY <1>1, KeptIs DEF FlowTypes, ReadUntil
  <2> QED
    BY <2>1
<1>13. PICK P \in Int : P = Power(KeptNum, d) /\ Power(KeptNum, d + 1) = KeptNum * P
  BY KeptPowers
<1>14. PICK Q \in Int : Q = Power(KeptDen, d) /\ Power(KeptDen, d + 1) = KeptDen * Q
  BY KeptPowers
<1>15. PICK amount \in Int : amount = flow.amount
  BY <1>1 DEF FlowTypes
<1>16. PICK before \in Int : before = TapeFlow
  BY <1>6
<1>17. PICK now \in Int : now = TapeFlow'
  BY <1>7
<1>18. amount * P = Q * before
  BY <1>12, <1>13, <1>14, <1>15, <1>16 DEF FlowIInv
<1>19. amount * (KeptNum * P) = KeptDen * Q * now
  <2>1. amount * (KeptNum * P) = KeptNum * (Q * before)
    BY <1>18, KeptIs
  <2>2. KeptNum * (Q * before) = Q * (KeptNum * before)
    BY KeptIs
  <2>3. Q * (KeptNum * before) = Q * (KeptDen * now)
    BY <1>11, <1>16, <1>17
  <2>4. Q * (KeptDen * now) = KeptDen * Q * now
    BY KeptIs
  <2> QED
    BY <2>1, <2>2, <2>3, <2>4
<1>20. flow'.amount * Power(KeptNum, clock' - flow'.ts) = Power(KeptDen, clock' - flow'.ts) * TapeFlow'
  BY <1>1, <1>12, <1>13, <1>14, <1>15, <1>17, <1>19
<1> QED
  BY <1>3, <1>20 DEF FlowIInv

(* A trade is read: the flow until now, and the trade in full.             *)
LEMMA ReadTradeKeepsFlow == ASSUME FlowIInv, CurveIInv, ReadTrade PROVE FlowIInv'
<1>1. PICK qty \in Int : qty = Head(pending).qty
  <2>1. Head(pending) \in Notifications
    BY ReadNext DEF ReadTrade, CurveIInv
  <2> QED
    BY <2>1 DEF Notifications
<1>2. /\ flow' = [amount |-> DecayedFlow + qty * Power(KeptDen, MaxTime), ts |-> clock]
      /\ tape' = Append(tape, [qty |-> qty, ts |-> clock]) /\ clock' = clock
      /\ FlowTypes /\ ReadUntil(tape, clock)
  BY <1>1 DEF ReadTrade, FlowIInv, FlowTypes
<1>3. clock \in Nat /\ clock <= MaxTime
  BY <1>2, KeptIs DEF ReadUntil
<1>4. PICK trade \in TakerTrade : trade = [qty |-> qty, ts |-> clock] /\ trade.qty = qty /\ trade.ts = clock
  <2>1. [qty |-> qty, ts |-> clock] \in TakerTrade
    BY <1>3 DEF TakerTrade
  <2> QED
    BY <2>1
<1>5. PICK L \in Nat : L = Len(tape)
  BY <1>2, WeightsAre
<1>6. /\ tape' \in Seq(TakerTrade) /\ Len(tape') = L + 1 /\ tape'[L + 1] = trade
      /\ \A k \in 1..L : tape'[k] = tape[k]
  BY <1>2, <1>4, <1>5, AppendProperties DEF ReadUntil
<1>7. PICK full \in Int : full = Power(KeptDen, MaxTime)
  BY KeptPowers, KeptIs
<1>8. DecayedFlow = TapeFlow /\ TapeFlow \in Int
  BY FlowIsDecayed
<1>9. FlowTypes' /\ ReadUntil(tape', clock)
  <2>1. \A k \in 1..L + 1 : k \in 1..L \/ k = L + 1
    OBVIOUS
  <2>2. \A k \in 1..Len(tape') : tape'[k].ts <= clock
    BY <1>2, <1>3, <1>4, <1>5, <1>6, <2>1, WeightsAre
  <2>3. flow' \in [amount : Int, ts : Nat] /\ flow'.ts = clock
    BY <1>2, <1>3, <1>7, <1>8
  <2>4. clock \in 0..MaxTime /\ flow'.ts <= clock
    BY <1>3, <2>3, KeptIs
  <2> QED
    BY <1>2, <1>6, <2>2, <2>3, <2>4 DEF FlowTypes, ReadUntil
<1>10. PICK v : v = Weights(tape, clock)
  OBVIOUS
<1>11. PICK w : w = Weights(tape', clock)
  OBVIOUS
<1>12. TapeFlow = SumFunction(v) /\ TapeFlow' = SumFunction(w)
  BY <1>2, <1>9, <1>10, <1>11, TapeFlowSums
<1>13. DOMAIN v = 1..L /\ DOMAIN w = 1..L + 1
  BY <1>5, <1>6, <1>10, <1>11 DEF Weights
<1>14. \A k \in 1..L : w[k] = v[k]
  <2>1. \A k \in 1..L : k \in 1..L + 1
    OBVIOUS
  <2> QED
    BY <1>5, <1>6, <1>10, <1>11, <2>1 DEF Weights
<1>15. IntTerms(w, 1..L + 1)
  BY <1>6, <1>9, <1>11, WeightsAre
<1>16. w[L + 1] = qty * full
  <2>1. clock - clock = 0 /\ MaxTime - 0 = MaxTime /\ L + 1 \in 1..L + 1
    BY <1>3, KeptIs
  <2>2. w[L + 1] = qty * 1 * full
    BY <1>4, <1>6, <1>7, <1>11, <2>1, KeptPowers DEF Weights, Weight
  <2> QED
    BY <2>2
<1>17. TapeFlow' = TapeFlow + qty * full
  BY <1>12, <1>13, <1>14, <1>15, <1>16, SumOfOneMore
<1>18. clock' - flow'.ts = 0 /\ flow'.amount = TapeFlow + qty * full
  BY <1>2, <1>3, <1>7, <1>8
<1>19. flow'.amount * Power(KeptNum, clock' - flow'.ts) = Power(KeptDen, clock' - flow'.ts) * TapeFlow'
  <2>1. PICK now \in Int : now = TapeFlow + qty * full
    BY <1>8
  <2> QED
    BY <1>17, <1>18, <2>1, KeptPowers
<1> QED
  BY <1>9, <1>19 DEF FlowIInv

LEMMA FlowStill == ASSUME FlowIInv, UNCHANGED <<clock, flow, tape>> PROVE FlowIInv'
BY DEF FlowIInv, FlowTypes, ReadUntil, TapeFlow

LEMMA FlowKeeps == FlowIInv /\ CurveIInv /\ [CurveNext]_curveVars => FlowIInv'
<1> SUFFICES ASSUME FlowIInv, CurveIInv, [CurveNext]_curveVars PROVE FlowIInv'
  OBVIOUS
<1>1. CASE ReadTrade
  BY <1>1, ReadTradeKeepsFlow
<1>2. CASE TimePasses
  BY <1>2, TimePassesKeepsFlow
<1>3. CASE Subscribe \/ ReadCurve \/ StreamBreaks \/ StreamEnds
  BY <1>3, FlowStill DEF Subscribe, ReadCurve, StreamBreaks, StreamEnds
<1>4. CASE CurveMoves \/ TakerTrades \/ NodeCloses \/ UNCHANGED curveVars
  BY <1>4, FlowStill DEF CurveMoves, TakerTrades, NodeCloses, curveVars
<1> QED
  BY <1>1, <1>2, <1>3, <1>4 DEF CurveNext

(***************************************************************************)
(* The theorem about the projection.                                       *)
(***************************************************************************)

(* What the tilt has to be, of a flow and a bound on it.                   *)
Tilts(s, total, half) ==
  \/ s = total
  \/ s = half /\ total > s
  \/ s = -half /\ total < s

(* There is one: within the bound the flow itself, beyond it the bound.    *)
LEMMA OneTilt ==
  ASSUME NEW total \in Int, NEW half \in Nat, NEW s \in -half..half, Tilts(s, total, half)
  PROVE  (CHOOSE r \in -half..half : Tilts(r, total, half)) = s
<1>1. ASSUME NEW r \in -half..half, Tilts(r, total, half) PROVE r = s
  BY <1>1 DEF Tilts
<1> QED
  BY <1>1

LEMMA SkewIs ==
  ASSUME NEW c \in Curves, ~Drained(c), FlowIInv
  PROVE  /\ Skew(c) \in Int /\ Scale(c) - Skew(c) \in Positive /\ Scale(c) + Skew(c) \in Positive
         /\ Skew(c) = CHOOSE s \in -(Scale(c) \div 2)..(Scale(c) \div 2) : Tilts(s, TapeFlow, Scale(c) \div 2)
<1>1. PICK scale \in Positive : scale = Scale(c)
  <2>1. PICK tok \in Positive : tok = c.tok
    <3>1. c.tok \in Positive
      BY CurveAssumption DEF Drained, Positive
    <3> QED
      BY <3>1
  <2>2. PICK full \in Positive : full = Power(KeptDen, MaxTime)
    BY KeptPowers, KeptIs
  <2>3. tok * full \in Positive
    BY DEF Positive
  <2> QED
    BY <2>1, <2>2, <2>3 DEF Scale
<1>2. PICK half \in Nat : half = scale \div 2 /\ half < scale
  <2>1. scale \div 2 \in Nat /\ scale \div 2 < scale
    BY DEF Positive
  <2> QED
    BY <2>1
<1>3. PICK total \in Int : total = TapeFlow /\ total = DecayedFlow
  BY FlowIsDecayed
<1>4. PICK s \in -half..half : s = Skew(c) /\ Tilts(s, total, half)
  <2>1. CASE total > half
    <3>1. Skew(c) = half /\ half \in -half..half
      BY <1>1, <1>2, <1>3, <2>1 DEF Skew
    <3> QED
      BY <2>1, <3>1 DEF Tilts
  <2>2. CASE total < -half
    <3>1. Skew(c) = -half /\ -half \in -half..half /\ ~(total > half)
      BY <1>1, <1>2, <1>3, <2>2 DEF Skew
    <3> QED
      BY <2>2, <3>1 DEF Tilts
  <2>3. CASE ~(total > half) /\ ~(total < -half)
    <3>1. Skew(c) = total /\ total \in -half..half
      BY <1>1, <1>2, <1>3, <2>3 DEF Skew
    <3> QED
      BY <2>3, <3>1 DEF Tilts
  <2> QED
    BY <2>1, <2>2, <2>3
<1>5. scale - s \in Positive /\ scale + s \in Positive
  BY <1>2 DEF Positive
<1>6. (CHOOSE r \in -half..half : Tilts(r, total, half)) = s
  BY <1>4, OneTilt
<1> QED
  BY <1>1, <1>2, <1>3, <1>4, <1>5, <1>6

(* What a projection's levels show.                                        *)
LEMMA ProjectionIs ==
  ASSUME NEW c, NEW i \in 1..SynthLevels
  PROVE  /\ Projection(c).asks[i].price = AskPrice(c, i)
         /\ Projection(c).bids[i].price = BidPrice(c, i)
         /\ Projection(c).asks[i].qty =
              (AskCum(c, i) - (IF i = 1 THEN 0 ELSE AskCum(c, i - 1))) * (Scale(c) - Skew(c))
         /\ Projection(c).bids[i].qty =
              (BidCum(c, i) - (IF i = 1 THEN 0 ELSE BidCum(c, i - 1))) * (Scale(c) + Skew(c))
BY DEF Projection

(* Skewed by the tape's flow, the projection walks the curve.              *)
LEMMA ProjectionWalks ==
  ASSUME NEW c \in Curves, ~Drained(c), FlowIInv
  PROVE  WalksTheCurve(c, Projection(c))
<1>1. SynthLevels \in Nat
  BY CurveAssumption
<1>2. PICK more \in Positive : more = Scale(c) + Skew(c)
  BY SkewIs
<1>3. PICK less \in Positive : less = Scale(c) - Skew(c)
  BY SkewIs
<1>4. PICK book : book = Projection(c)
  OBVIOUS
<1>5. \A k \in 1..SynthLevels :
        /\ book.asks[k].price = AskPrice(c, k) /\ book.bids[k].price = BidPrice(c, k)
        /\ book.asks[k].qty = (AskCum(c, k) - (IF k = 1 THEN 0 ELSE AskCum(c, k - 1))) * less
        /\ book.bids[k].qty = (BidCum(c, k) - (IF k = 1 THEN 0 ELSE BidCum(c, k - 1))) * more
  BY <1>2, <1>3, <1>4, ProjectionIs
<1>6. \A k \in 1..SynthLevels : InOrder(c, k) /\ WalksThere(c, k) /\ AddsSome(c, k)
  BY LevelsInOrder, LevelsWalk, LevelsAdd
<1> DEFINE asked == [k \in 1..SynthLevels |-> AskCum(c, k)]
           bidden == [k \in 1..SynthLevels |-> BidCum(c, k)]
<1>7. IntTerms(asked, 1..SynthLevels) /\ IntTerms(bidden, 1..SynthLevels)
  BY <1>6 DEF IntTerms, WalksThere
<1>8. HoldWhatTheyAdd(book.asks, asked, less) /\ HoldWhatTheyAdd(book.bids, bidden, more)
  <2> SUFFICES ASSUME NEW k \in 1..SynthLevels
               PROVE  /\ book.asks[k].qty = (asked[k] - (IF k = 1 THEN 0 ELSE asked[k - 1])) * less
                      /\ book.bids[k].qty = (bidden[k] - (IF k = 1 THEN 0 ELSE bidden[k - 1])) * more
    BY DEF HoldWhatTheyAdd
  <2>1. CASE k = 1
    BY <1>5, <2>1
  <2>2. CASE k # 1
    <3>1. k - 1 \in 1..SynthLevels
      BY <1>1, <2>2
    <3>2. asked[k - 1] = AskCum(c, k - 1) /\ bidden[k - 1] = BidCum(c, k - 1)
      BY <3>1
    <3>3. asked[k] = AskCum(c, k) /\ bidden[k] = BidCum(c, k)
      OBVIOUS
    <3> QED
      BY <1>5, <2>2, <3>2, <3>3
  <2> QED
    BY <2>1, <2>2
<1>9. \A k \in 1..SynthLevels : asked[k] = AskCum(c, k) /\ bidden[k] = BidCum(c, k)
  OBVIOUS
<1> HIDE DEF asked, bidden
<1>10. less \in Int /\ more \in Int
  BY DEF Positive
<1>11. ASSUME NEW i \in 1..SynthLevels
       PROVE  /\ Held(book.asks, i) = less * (c.tok - TokensLeft(c, book.asks[i].price))
              /\ Held(book.bids, i) = more * (TokensLeft(c, book.bids[i].price) - c.tok)
  <2>1. Held(book.asks, i) = less * asked[i]
    BY <1>7, <1>8, <1>10, HeldIs
  <2>2. Held(book.bids, i) = more * bidden[i]
    BY <1>7, <1>8, <1>10, HeldIs
  <2> QED
    BY <1>5, <1>6, <1>9, <2>1, <2>2 DEF WalksThere
<1>12. ASSUME NEW i \in 1..SynthLevels PROVE book.asks[i].qty > 0 /\ book.bids[i].qty > 0
  <2>1. PICK a \in Positive : a = AskCum(c, i) - (IF i = 1 THEN 0 ELSE AskCum(c, i - 1))
    BY <1>6 DEF AddsSome
  <2>2. PICK b \in Positive : b = BidCum(c, i) - (IF i = 1 THEN 0 ELSE BidCum(c, i - 1))
    BY <1>6 DEF AddsSome
  <2>3. book.asks[i].qty = a * less /\ book.bids[i].qty = b * more
    BY <1>5, <2>1, <2>2
  <2> QED
    BY <2>3 DEF Positive
<1>13. ASSUME NEW i \in 1..SynthLevels
       PROVE  /\ book.bids[i].price < Middle(c) /\ Middle(c) < book.asks[i].price
              /\ i > 1 => /\ book.asks[i - 1].price < book.asks[i].price
                          /\ book.bids[i].price < book.bids[i - 1].price
  <2>1. i > 1 => i - 1 \in 1..SynthLevels
    BY <1>1
  <2> QED
    BY <1>5, <1>6, <2>1 DEF InOrder
<1>14. PICK half : half = Scale(c) \div 2
  OBVIOUS
<1>15. Skew(c) = CHOOSE s \in -half..half : Tilts(s, TapeFlow, half)
  BY <1>14, SkewIs
<1> QED
  BY <1>2, <1>3, <1>4, <1>11, <1>12, <1>13, <1>14, <1>15 DEF WalksTheCurve, Tilts

(* For any curves, any number of levels, any ratio between them (the       *)
(* code's 1.005 included), any part of the flow a tick leaves and any      *)
(* trades: every book that is built quotes both sides, in order around the *)
(* curve's price, holds up to every level what a walk along the curve      *)
(* takes there, rounded to a unit of tokens, and leans by the flow of      *)
(* every trade that was read, decayed by its own age, but never by more    *)
(* than half.  UnitsAssumption only says that the units the reserves are   *)
(* counted in are small (_rebuild_synthetic_book, _bump_flow,              *)
(* _decayed_flow).                                                         *)
THEOREM RebuildTheorem == CurveSpec => RebuildWalksTheCurve
<1>1. CurveIInv /\ FlowIInv /\ [CurveNext]_curveVars =>
        (synth' # synth /\ synth' # NoLevels => WalksTheCurve(Head(pending).curve, synth'))
  <2> SUFFICES ASSUME CurveIInv, FlowIInv, [CurveNext]_curveVars, synth' # synth, synth' # NoLevels
               PROVE  WalksTheCurve(Head(pending).curve, synth')
    OBVIOUS
  <2>1. ReadCurve
    BY DEF CurveNext, curveVars, Subscribe, ReadTrade, StreamBreaks, StreamEnds, CurveMoves,
           TakerTrades, NodeCloses, TimePasses
  <2>2. Head(pending) \in Notifications
    BY <2>1, ReadNext DEF ReadCurve, CurveIInv
  <2>3. PICK c \in Curves : c = Head(pending).curve
    BY <2>2 DEF Notifications
  <2>4. ~Drained(c) /\ synth' = Projection(c)
    BY <2>1, <2>3 DEF ReadCurve
  <2> QED
    BY <2>3, <2>4, ProjectionWalks
<1> QED
  BY <1>1, CurveInitially, CurveKeeps, FlowInitially, FlowKeeps, PTL DEF CurveSpec, RebuildWalksTheCurve

(***************************************************************************)
(* The trade tape's moments.                                               *)
(***************************************************************************)

(* The moments about an anchor a / b of trades with volume vol, notional   *)
(* val and second moment sq, in the tracker's form.                        *)
First(val, vol, a, b) == Rat(val * b - a * vol, b)
Second(sq, val, vol, a, b) == Rat(sq * b * b - 2 * a * val * b + a * a * vol, b * b)

(* What a trade of w at p adds to volume, notional and second moment.      *)
OneMore(p, w, sq, val, vol, sq2, val2, vol2) ==
  sq2 = sq + p * p * w /\ val2 = val + p * w /\ vol2 = vol + w

(* Then it adds this to the sums; d is its distance from the anchor.       *)
MomentsAdd(d, w, sq, val, vol, sq2, val2, vol2, a, b) ==
  /\ Plus(First(val, vol, a, b), Times(d, <<w, 1>>)) = First(val2, vol2, a, b)
  /\ Plus(Second(sq, val, vol, a, b), Times(Times(d, d), <<w, 1>>)) = Second(sq2, val2, vol2, a, b)

LEMMA AddMoments ==
  ASSUME NEW sq \in Int, NEW val \in Int, NEW vol \in Int, NEW a \in Int, NEW b \in Positive,
         NEW p \in Int, NEW w \in Int, NEW d, d = Minus(<<p, 1>>, Rat(a, b)),
         NEW sq2, NEW val2, NEW vol2, OneMore(p, w, sq, val, vol, sq2, val2, vol2)
  PROVE  MomentsAdd(d, w, sq, val, vol, sq2, val2, vol2, a, b)
<1>1. 1 \in Positive /\ b \in Int /\ b * b \in Positive /\ b * b * 1 \in Positive /\ b * 1 \in Positive
  BY DEF Positive
<1>2. PICK x \in Int : x = p * b - a
  BY <1>1
<1>3. d = Rat(x, b)
  <2>1. d = Rat(p * b - a * 1, 1 * b)
    <3>1. <<p, 1>> = Rat(p, 1)
      BY WholeIs
    <3>2. Minus(Rat(p, 1), Rat(a, b)) = Rat(p * b - a * 1, 1 * b)
      BY <1>1, PlusIs
    <3> QED
      BY <3>1, <3>2
  <2>2. p * b - a * 1 = x /\ 1 * b = b
    BY <1>1, <1>2
  <2> QED
    BY <2>1, <2>2
<1>4. Times(d, <<w, 1>>) = Rat(x * w, b) /\ Times(Times(d, d), <<w, 1>>) = Rat(x * x * w, b * b)
  <2>1. x * x \in Int /\ b * 1 = b /\ b * b * 1 = b * b
    BY <1>1
  <2>2. <<w, 1>> = Rat(w, 1)
    BY WholeIs
  <2>3. Times(d, d) = Rat(x * x, b * b)
    BY <1>3, TimesIs
  <2>4. Times(Rat(x * x, b * b), Rat(w, 1)) = Rat(x * x * w, b * b * 1)
    BY <1>1, <2>1, TimesIs
  <2>5. Times(Rat(x, b), Rat(w, 1)) = Rat(x * w, b * 1)
    BY <1>1, TimesIs
  <2> QED
    BY <1>3, <2>1, <2>2, <2>3, <2>4, <2>5
<1>5. PICK f \in Int, g \in Int : f = val * b - a * vol /\ g = (val + p * w) * b - a * (vol + w)
  BY <1>1
<1>6. f + x * w = g
  BY <1>1, <1>2, <1>5
<1>7. Plus(Rat(f, b), Rat(x * w, b)) = Rat(g, b)
  <2>1. Plus(Rat(f, b), Rat(x * w, b)) = Rat(f * b + (x * w) * b, b * b)
    BY PlusIs
  <2>2. (f * b + (x * w) * b) * b = g * (b * b)
    BY <1>1, <1>6
  <2>3. f * b + (x * w) * b \in Int
    BY <1>1
  <2> QED
    BY <1>1, <2>1, <2>2, <2>3, RatSame
<1>8. PICK h \in Int, k \in Int :
        /\ h = sq * b * b - 2 * a * val * b + a * a * vol
        /\ k = (sq + p * p * w) * b * b - 2 * a * (val + p * w) * b + a * a * (vol + w)
  BY <1>1
<1>9. h + x * x * w = k
  <2>1. x * x * w = p * p * w * b * b - 2 * a * (p * w) * b + a * a * w
    BY <1>1, <1>2
  <2> QED
    BY <1>1, <1>8, <2>1
<1>10. Plus(Rat(h, b * b), Rat(x * x * w, b * b)) = Rat(k, b * b)
  <2>1. PICK c \in Positive : c = b * b
    BY <1>1
  <2>2. PICK y \in Int : y = x * x * w
    OBVIOUS
  <2>3. Plus(Rat(h, c), Rat(y, c)) = Rat(h * c + y * c, c * c)
    BY PlusIs
  <2>4. c \in Int /\ c * c \in Positive /\ h * c + y * c \in Int
    BY DEF Positive
  <2>5. h + y = k
    BY <1>9, <2>2
  <2>6. (h * c + y * c) * c = k * (c * c)
    BY <2>4, <2>5
  <2> QED
    BY <2>1, <2>2, <2>3, <2>4, <2>6, RatSame
<1> QED
  BY <1>4, <1>5, <1>7, <1>8, <1>10 DEF First, Second, OneMore, MomentsAdd

(* VWAP and variance do not depend on where the anchor stands, and moving  *)
(* it by the mean of the offsets, m, puts it at the VWAP.                  *)
AnchorFree(sq, val, vol, a, b, m) ==
  /\ Plus(Rat(a, b), m) = Rat(val, vol)
  /\ Minus(Over(Second(sq, val, vol, a, b), vol), Times(m, m)) = Rat(sq * vol - val * val, vol * vol)
  /\ Minus(Second(sq, val, vol, a, b),
           Times(m, Minus(Times(<<2, 1>>, First(val, vol, a, b)), Times(m, <<vol, 1>>))))
       = Second(sq, val, vol, val, vol)
  /\ First(val, vol, val, vol) = Zero

LEMMA MeanIsAnchorFree ==
  ASSUME NEW sq \in Int, NEW val \in Int, NEW vol \in Positive, NEW a \in Int, NEW b \in Positive,
         NEW m, m = Over(First(val, vol, a, b), vol)
  PROVE  AnchorFree(sq, val, vol, a, b, m)
<1>1. PICK x \in Int, h \in Int, u \in Int, c \in Positive, v \in Positive, e \in Positive :
        /\ x = val * b - a * vol /\ h = sq * b * b - 2 * a * val * b + a * a * vol
        /\ u = sq * vol - val * val /\ c = b * b /\ v = b * vol /\ e = c * vol
  <2>1. b * b \in Positive /\ b * vol \in Positive /\ (b * b) * vol \in Positive
    BY DEF Positive
  <2> QED
    BY <2>1 DEF Positive
<1>2. First(val, vol, a, b) = Rat(x, b) /\ Second(sq, val, vol, a, b) = Rat(h, c)
  BY <1>1 DEF First, Second
<1>3. /\ 1 \in Positive /\ vol * vol \in Positive /\ v * v \in Positive /\ c * v \in Positive
      /\ e * (v * v) \in Positive /\ c * e \in Positive /\ b * v \in Positive
  BY DEF Positive
<1>4. m = Rat(x, v)
  BY <1>1, <1>2, OverIs
<1>5. h * vol - x * x = c * u
  BY <1>1 DEF Positive
<1>6. Plus(Rat(a, b), m) = Rat(val, vol)
  <2>1. Plus(Rat(a, b), m) = Rat(a * v + x * b, b * v)
    BY <1>4, PlusIs
  <2>2. (a * v + x * b) * vol = val * (b * v) /\ a * v + x * b \in Int
    BY <1>1 DEF Positive
  <2> QED
    BY <1>3, <2>1, <2>2, RatSame
<1>7. Minus(Over(Rat(h, c), vol), Times(m, m)) = Rat(u, vol * vol)
  <2>1. Over(Rat(h, c), vol) = Rat(h, e) /\ Times(m, m) = Rat(x * x, v * v)
    <3>1. Over(Rat(h, c), vol) = Rat(h, e)
      BY <1>1, OverIs
    <3>2. Times(Rat(x, v), Rat(x, v)) = Rat(x * x, v * v)
      BY TimesIs
    <3> QED
      BY <1>4, <3>1, <3>2
  <2>2. x * x \in Int /\ h * (v * v) - (x * x) * e \in Int
    BY DEF Positive
  <2>3. Minus(Rat(h, e), Rat(x * x, v * v)) = Rat(h * (v * v) - (x * x) * e, e * (v * v))
    BY <1>3, <2>2, PlusIs
  <2>4. (h * (v * v) - (x * x) * e) * (vol * vol) = u * (e * (v * v))
    <3>1. v * v = e * vol
      BY <1>1 DEF Positive
    <3>2. (h * (e * vol) - (x * x) * e) = e * (h * vol - x * x)
      BY DEF Positive
    <3>3. (e * (c * u)) * (vol * vol) = u * (e * (e * vol))
      BY <1>1 DEF Positive
    <3> QED
      BY <1>5, <3>1, <3>2, <3>3
  <2>5. Rat(h * (v * v) - (x * x) * e, e * (v * v)) = Rat(u, vol * vol)
    BY <1>3, <2>2, <2>4, RatSame
  <2> QED
    BY <2>1, <2>3, <2>5
<1>8. Minus(Times(<<2, 1>>, Rat(x, b)), Times(m, <<vol, 1>>)) = Rat(x, b)
  <2>1. <<2, 1>> = Rat(2, 1) /\ <<vol, 1>> = Rat(vol, 1) /\ vol \in Int
    BY WholeIs DEF Positive
  <2>2. Times(<<2, 1>>, Rat(x, b)) = Rat(2 * x, b)
    <3>1. Times(Rat(2, 1), Rat(x, b)) = Rat(2 * x, 1 * b) /\ 1 * b = b
      BY <1>3, TimesIs DEF Positive
    <3> QED
      BY <2>1, <3>1
  <2>3. Times(m, <<vol, 1>>) = Rat(x, b)
    <3>1. Times(Rat(x, v), Rat(vol, 1)) = Rat(x * vol, v * 1) /\ v * 1 = v
      BY <1>3, <2>1, TimesIs DEF Positive
    <3>2. (x * vol) * b = x * v /\ x * vol \in Int
      BY <1>1 DEF Positive
    <3>3. Rat(x * vol, v) = Rat(x, b)
      BY <3>2, RatSame
    <3> QED
      BY <1>4, <2>1, <3>1, <3>3
  <2>4. Minus(Rat(2 * x, b), Rat(x, b)) = Rat((2 * x) * b - x * b, c)
    BY <1>1, PlusIs
  <2>5. ((2 * x) * b - x * b) * b = x * c /\ (2 * x) * b - x * b \in Int
    BY <1>1 DEF Positive
  <2>6. Rat((2 * x) * b - x * b, c) = Rat(x, b)
    BY <2>5, RatSame
  <2> QED
    BY <2>2, <2>3, <2>4, <2>6
<1>9. Minus(Rat(h, c), Times(m, Rat(x, b))) = Second(sq, val, vol, val, vol)
  <2>1. Times(m, Rat(x, b)) = Rat(x * x, e)
    <3>1. Times(m, Rat(x, b)) = Rat(x * x, v * b) /\ v * b = e
      BY <1>1, <1>4, TimesIs DEF Positive
    <3> QED
      BY <3>1
  <2>2. x * x \in Int /\ h * e - (x * x) * c \in Int /\ u * vol \in Int
    BY DEF Positive
  <2>3. Minus(Rat(h, c), Rat(x * x, e)) = Rat(h * e - (x * x) * c, c * e)
    BY <2>2, PlusIs
  <2>4. (h * e - (x * x) * c) * (vol * vol) = (u * vol) * (c * e)
    <3>1. h * e - (x * x) * c = c * (h * vol - x * x)
      BY <1>1 DEF Positive
    <3>2. (c * (c * u)) * (vol * vol) = (u * vol) * (c * (c * vol))
      BY DEF Positive
    <3> QED
      BY <1>1, <1>5, <3>1, <3>2
  <2>5. Rat(h * e - (x * x) * c, c * e) = Rat(u * vol, vol * vol)
    BY <1>3, <2>2, <2>4, RatSame
  <2>6. sq * vol * vol - 2 * val * val * vol + val * val * vol = u * vol
    BY <1>1 DEF Positive
  <2> QED
    BY <2>1, <2>3, <2>5, <2>6 DEF Second
<1>10. First(val, vol, val, vol) = Zero
  <2>1. val * vol - val * vol = 0 /\ 0 * 1 = 0 * vol
    BY DEF Positive
  <2>2. Rat(0, vol) = Rat(0, 1)
    BY <1>3, <2>1, RatSame
  <2> QED
    BY <2>1, <2>2, WholeIs DEF First, Zero
<1> QED
  BY <1>1, <1>2, <1>6, <1>7, <1>8, <1>9, <1>10 DEF AnchorFree

(***************************************************************************)
(* The inductive invariant.                                                *)
(***************************************************************************)
Pairs == Int \X Positive
Trades == [price : Int, size : Positive]
Trackers == [s0 : Nat, s1 : Pairs, s2 : Pairs, anchor : Pairs, n : Nat, prints : Seq(Trades)]

AboutAnchor(t, a, b) ==
  /\ t.anchor = Rat(a, b)
  /\ t.s1 = First(Notional(t.prints), t.s0, a, b)
  /\ t.s2 = Second(SecondMoment(t.prints), Notional(t.prints), t.s0, a, b)

(* Wherever the anchor stands, the sums are the moments about it.          *)
MomentsKept(t) ==
  /\ t \in Trackers /\ t.n = Len(t.prints) /\ t.s0 = Volumes(t.prints)
  /\ Notional(t.prints) \in Int /\ SecondMoment(t.prints) \in Int
  /\ \E a \in Int, b \in Positive : AboutAnchor(t, a, b)

TrackerIInv == MomentsKept(Tracker) /\ MomentsKept(saved)

LEMMA RatIsPair == ASSUME NEW p \in Int, NEW q \in Positive PROVE Rat(p, q) \in Pairs
BY RatIs DEF Pairs

LEMMA MomentsArePairs ==
  ASSUME NEW sq \in Int, NEW val \in Int, NEW vol \in Int, NEW a \in Int, NEW b \in Positive
  PROVE  First(val, vol, a, b) \in Pairs /\ Second(sq, val, vol, a, b) \in Pairs
<1>1. PICK x \in Int, y \in Int, c \in Positive :
        x = val * b - a * vol /\ y = sq * b * b - 2 * a * val * b + a * a * vol /\ c = b * b
  BY DEF Positive
<1>2. Rat(x, b) \in Pairs /\ Rat(y, c) \in Pairs
  BY RatIsPair
<1> QED
  BY <1>1, <1>2 DEF First, Second

(* What one more trade adds.                                               *)
LEMMA OneMoreTrade ==
  ASSUME NEW traded \in Seq(Trades), NEW x \in Trades
  PROVE  /\ Append(traded, x) \in Seq(Trades) /\ Len(Append(traded, x)) = Len(traded) + 1
         /\ Volumes(Append(traded, x)) = Volumes(traded) + x.size
         /\ Notional(Append(traded, x)) = Notional(traded) + x.price * x.size
         /\ SecondMoment(Append(traded, x)) = SecondMoment(traded) + x.price * x.price * x.size
<1> DEFINE longer == Append(traded, x)
<1>1. PICK len \in Nat : len = Len(traded)
  BY LenProperties
<1>2. /\ longer \in Seq(Trades) /\ DOMAIN traded = 1..len /\ DOMAIN longer = 1..len + 1
      /\ Len(longer) = len + 1
      /\ longer[len + 1] = x /\ \A k \in 1..len : longer[k] = traded[k]
  <2>1. longer \in Seq(Trades) /\ Len(longer) = len + 1 /\ longer[len + 1] = x
        /\ \A k \in 1..len : longer[k] = traded[k]
    BY <1>1, AppendProperties
  <2> HIDE DEF longer
  <2> QED
    BY <1>1, <2>1, LenProperties
<1> HIDE DEF longer
<1>3. \A k \in 1..len + 1 : longer[k].price \in Int /\ longer[k].size \in Int
  <2>1. \A k \in 1..len + 1 : longer[k] \in Trades
    BY <1>2, ElementOfSeq
  <2> QED
    BY <2>1 DEF Trades, Positive
<1>4. len + 1 \in 1..len + 1
  OBVIOUS
<1>5. \A k \in 1..len : k \in 1..len + 1
  OBVIOUS
<1>6. Volumes(longer) = Volumes(traded) + x.size
  <2> DEFINE v == [k \in DOMAIN traded |-> traded[k].size]
             w == [k \in DOMAIN longer |-> longer[k].size]
  <2>1. DOMAIN v = 1..len /\ DOMAIN w = 1..len + 1 /\ (\A k \in 1..len : w[k] = v[k])
        /\ IntTerms(w, 1..len + 1) /\ w[len + 1] = x.size
    BY <1>2, <1>3, <1>4, <1>5 DEF IntTerms
  <2>2. Volumes(longer) = SumFunction(w) /\ Volumes(traded) = SumFunction(v)
    BY DEF Volumes
  <2> HIDE DEF v, w
  <2> QED
    BY <2>1, <2>2, SumOfOneMore
<1>7. Notional(longer) = Notional(traded) + x.price * x.size
  <2> DEFINE v == [k \in DOMAIN traded |-> traded[k].price * traded[k].size]
             w == [k \in DOMAIN longer |-> longer[k].price * longer[k].size]
  <2>1. DOMAIN v = 1..len /\ DOMAIN w = 1..len + 1 /\ (\A k \in 1..len : w[k] = v[k])
        /\ IntTerms(w, 1..len + 1) /\ w[len + 1] = x.price * x.size
    BY <1>2, <1>3, <1>4, <1>5 DEF IntTerms
  <2>2. Notional(longer) = SumFunction(w) /\ Notional(traded) = SumFunction(v)
    BY DEF Notional
  <2> HIDE DEF v, w
  <2> QED
    BY <2>1, <2>2, SumOfOneMore
<1>8. SecondMoment(longer) = SecondMoment(traded) + x.price * x.price * x.size
  <2> DEFINE v == [k \in DOMAIN traded |-> traded[k].price * traded[k].price * traded[k].size]
             w == [k \in DOMAIN longer |-> longer[k].price * longer[k].price * longer[k].size]
  <2>1. DOMAIN v = 1..len /\ DOMAIN w = 1..len + 1 /\ (\A k \in 1..len : w[k] = v[k])
        /\ IntTerms(w, 1..len + 1) /\ w[len + 1] = x.price * x.price * x.size
    BY <1>2, <1>3, <1>4, <1>5 DEF IntTerms
  <2>2. SecondMoment(longer) = SumFunction(w) /\ SecondMoment(traded) = SumFunction(v)
    BY DEF SecondMoment
  <2> HIDE DEF v, w
  <2> QED
    BY <2>1, <2>2, SumOfOneMore
<1> QED
  BY <1>1, <1>2, <1>6, <1>7, <1>8 DEF longer

(* A tape without a trade has no moments, about any anchor.                *)
LEMMA NoTrades ==
  /\ Volumes(<<>>) = 0 /\ Notional(<<>>) = 0 /\ SecondMoment(<<>>) = 0
  /\ \A a \in Int, b \in Positive : First(0, 0, a, b) = Zero /\ Second(0, 0, 0, a, b) = Zero
<1>1. ASSUME NEW v, DOMAIN v = {} PROVE SumFunction(v) = 0
  <2>1. PICK f : Sums(v, {}, f) /\ SumFunction(v) = f[{}]
    BY <1>1, FS_EmptySet, SumFunctionIs
  <2> QED
    BY <2>1 DEF Sums, SumStep
<1>2. Volumes(<<>>) = 0 /\ Notional(<<>>) = 0 /\ SecondMoment(<<>>) = 0
  <2>1. DOMAIN <<>> = {}
    OBVIOUS
  <2>2. Volumes(<<>>) = 0
    BY <1>1, <2>1 DEF Volumes
  <2>3. Notional(<<>>) = 0
    BY <1>1, <2>1 DEF Notional
  <2>4. SecondMoment(<<>>) = 0
    BY <1>1, <2>1 DEF SecondMoment
  <2> QED
    BY <2>2, <2>3, <2>4
<1>3. ASSUME NEW a \in Int, NEW b \in Positive
      PROVE  First(0, 0, a, b) = Zero /\ Second(0, 0, 0, a, b) = Zero
  <2>1. 1 \in Positive /\ b * b \in Positive /\ 0 * b - a * 0 = 0
        /\ 0 * b * b - 2 * a * 0 * b + a * a * 0 = 0 /\ 0 * 1 = 0 * b /\ 0 * 1 = 0 * (b * b)
    BY DEF Positive
  <2>2. Rat(0, b) = Rat(0, 1) /\ Rat(0, b * b) = Rat(0, 1)
    BY <2>1, RatSame
  <2> QED
    BY <2>1, <2>2, WholeIs DEF First, Second, Zero
<1> QED
  BY <1>2, <1>3

LEMMA AddedKeeps ==
  ASSUME MomentsKept(Tracker), NEW price \in Int, NEW size \in Positive
  PROVE  MomentsKept(Added(price, size)) /\ Added(price, size).s0 \in Positive
<1>1. /\ Tracker \in Trackers /\ n = Len(prints) /\ s0 = Volumes(prints)
      /\ Notional(prints) \in Int /\ SecondMoment(prints) \in Int
      /\ \E a \in Int, b \in Positive : AboutAnchor(Tracker, a, b)
  BY DEF MomentsKept, Tracker
<1>2. s0 \in Nat /\ n \in Nat /\ prints \in Seq(Trades) /\ s0 + size \in Positive /\ size \in Int
  BY <1>1 DEF Tracker, Trackers, Positive
<1>3. PICK val \in Int, sq \in Int : val = Notional(prints) /\ sq = SecondMoment(prints)
  BY <1>1
<1>4. PICK from : from = IF n = 0 THEN <<price, 1>> ELSE anchor
  OBVIOUS
<1>5. PICK a \in Int, b \in Positive :
        from = Rat(a, b) /\ s1 = First(val, s0, a, b) /\ s2 = Second(sq, val, s0, a, b)
  <2>1. PICK a \in Int, b \in Positive :
          anchor = Rat(a, b) /\ s1 = First(val, s0, a, b) /\ s2 = Second(sq, val, s0, a, b)
    BY <1>1, <1>3 DEF AboutAnchor, Tracker
  <2>2. CASE n = 0
    <3>1. prints = <<>>
      BY <1>1, <1>2, <2>2, EmptySeq
    <3>2. val = 0 /\ sq = 0 /\ s0 = 0
      BY <1>1, <1>3, <3>1, NoTrades
    <3>3. 1 \in Positive /\ from = Rat(price, 1)
      BY <1>4, <2>2, WholeIs DEF Positive
    <3>4. s1 = First(0, 0, price, 1) /\ s2 = Second(0, 0, 0, price, 1)
      BY <2>1, <3>2, <3>3, NoTrades
    <3> QED
      BY <3>2, <3>3, <3>4
  <2>3. CASE n # 0
    BY <1>4, <2>1, <2>3
  <2> QED
    BY <2>2, <2>3
<1>6. PICK trade \in Trades : trade = [price |-> price, size |-> size]
  BY DEF Trades
<1>7. trade.price = price /\ trade.size = size
  BY <1>6
<1>8. PICK traded \in Seq(Trades) : traded = Append(prints, trade)
  BY <1>2, OneMoreTrade
<1>9. /\ Len(traded) = n + 1 /\ Volumes(traded) = s0 + size
      /\ Notional(traded) = val + price * size
      /\ SecondMoment(traded) = sq + price * price * size
  BY <1>1, <1>2, <1>3, <1>7, <1>8, OneMoreTrade
<1>10. PICK d : d = Minus(<<price, 1>>, from)
  OBVIOUS
<1>11. PICK t1, t2 : /\ t1 = Plus(s1, Times(d, <<size, 1>>))
                     /\ t2 = Plus(s2, Times(Times(d, d), <<size, 1>>))
  OBVIOUS
<1>12. PICK t : t = [s0 |-> s0 + size, s1 |-> t1, s2 |-> t2, anchor |-> from, n |-> n + 1, prints |-> traded]
  OBVIOUS
<1>13. Added(price, size) = t
  BY <1>4, <1>6, <1>8, <1>10, <1>11, <1>12 DEF Added
<1>14. /\ t.s0 = s0 + size /\ t.s1 = t1 /\ t.s2 = t2 /\ t.anchor = from
       /\ t.n = n + 1 /\ t.prints = traded
  BY <1>12
<1>15. PICK newVal \in Int, newSq \in Int, newVol \in Int :
         newVal = val + price * size /\ newSq = sq + price * price * size /\ newVol = s0 + size
  BY <1>2
<1>16. t1 = First(newVal, newVol, a, b) /\ t2 = Second(newSq, newVal, newVol, a, b)
  <2>1. s0 \in Int
    BY <1>2
  <2>2. d = Minus(<<price, 1>>, Rat(a, b))
    BY <1>5, <1>10
  <2>3. OneMore(price, size, sq, val, s0, newSq, newVal, newVol)
    BY <1>15 DEF OneMore
  <2>4. MomentsAdd(d, size, sq, val, s0, newSq, newVal, newVol, a, b)
    BY <1>2, <2>1, <2>2, <2>3, AddMoments
  <2> QED
    BY <1>5, <1>11, <2>4 DEF MomentsAdd
<1>17. t \in Trackers
  <2>1. t1 \in Pairs /\ t2 \in Pairs /\ from \in Pairs
    BY <1>5, <1>15, <1>16, MomentsArePairs, RatIsPair
  <2>2. s0 + size \in Nat /\ n + 1 \in Nat
    BY <1>2 DEF Positive
  <2> QED
    BY <1>12, <2>1, <2>2 DEF Trackers
<1>18. AboutAnchor(t, a, b)
  BY <1>5, <1>9, <1>14, <1>15, <1>16 DEF AboutAnchor
<1>19. MomentsKept(t)
  BY <1>9, <1>14, <1>15, <1>17, <1>18 DEF MomentsKept
<1> QED
  BY <1>2, <1>13, <1>14, <1>19

(* fold_anchor puts the anchor at the VWAP.                                *)
LEMMA FoldedKeeps ==
  ASSUME NEW t, MomentsKept(t), t.s0 \in Positive
  PROVE  MomentsKept(Folded(t))
<1>1. /\ t \in Trackers /\ t.n = Len(t.prints) /\ t.s0 = Volumes(t.prints)
      /\ \E a \in Int, b \in Positive : AboutAnchor(t, a, b)
  BY DEF MomentsKept
<1>2. PICK val \in Int, sq \in Int, vol \in Positive :
        val = Notional(t.prints) /\ sq = SecondMoment(t.prints) /\ vol = t.s0
  BY DEF MomentsKept
<1>3. PICK a \in Int, b \in Positive :
        t.anchor = Rat(a, b) /\ t.s1 = First(val, vol, a, b) /\ t.s2 = Second(sq, val, vol, a, b)
  BY <1>1, <1>2 DEF AboutAnchor
<1>4. PICK m : m = Over(t.s1, t.s0)
  OBVIOUS
<1>5. /\ Plus(t.anchor, m) = Rat(val, vol)
      /\ Minus(t.s2, Times(m, Minus(Times(<<2, 1>>, t.s1), Times(m, <<t.s0, 1>>))))
           = Second(sq, val, vol, val, vol)
      /\ Zero = First(val, vol, val, vol)
  <2>1. m = Over(First(val, vol, a, b), vol)
    BY <1>2, <1>3, <1>4
  <2>2. AnchorFree(sq, val, vol, a, b, m)
    BY <2>1, MeanIsAnchorFree
  <2> QED
    BY <1>2, <1>3, <2>2 DEF AnchorFree
<1>6. PICK u : u = [t EXCEPT !.s2 = Second(sq, val, vol, val, vol), !.s1 = Zero, !.anchor = Rat(val, vol)]
  OBVIOUS
<1>7. Folded(t) = u
  BY <1>4, <1>5, <1>6 DEF Folded
<1>8. /\ u.s0 = vol /\ u.s1 = First(val, vol, val, vol) /\ u.s2 = Second(sq, val, vol, val, vol)
      /\ u.anchor = Rat(val, vol) /\ u.n = t.n /\ u.prints = t.prints
  BY <1>1, <1>2, <1>5, <1>6 DEF Trackers
<1>9. u \in Trackers
  <2>1. vol \in Int
    BY DEF Positive
  <2>2. First(val, vol, val, vol) \in Pairs /\ Second(sq, val, vol, val, vol) \in Pairs /\ Rat(val, vol) \in Pairs
    BY <2>1, MomentsArePairs, RatIsPair
  <2> QED
    BY <1>1, <1>5, <1>6, <2>2 DEF Trackers
<1>10. AboutAnchor(u, val, vol)
  BY <1>2, <1>8 DEF AboutAnchor
<1>11. val \in Int /\ vol \in Positive
  OBVIOUS
<1> QED
  BY <1>1, <1>2, <1>7, <1>8, <1>9, <1>10, <1>11 DEF MomentsKept

LEMMA BecomesIs == ASSUME NEW t \in Trackers, Becomes(t) PROVE Tracker' = t
BY DEF Becomes, Tracker, Trackers

LEMMA TrackerInitially == TrackerInit => TrackerIInv
<1> SUFFICES ASSUME TrackerInit PROVE TrackerIInv
  OBVIOUS
<1>1. Tracker = Fresh0 /\ saved = Fresh0
  BY DEF TrackerInit, Tracker, Fresh0
<1>2. 0 \in Int /\ 1 \in Positive /\ Zero = Rat(0, 1) /\ Zero \in Pairs
  BY WholeIs DEF Zero, Positive, Pairs
<1>3. <<>> \in Seq(Trades) /\ Len(<<>>) = 0
  BY EmptySeq
<1>4. Fresh0 \in Trackers
  BY <1>2, <1>3 DEF Fresh0, Trackers
<1>5. AboutAnchor(Fresh0, 0, 1)
  BY <1>2, NoTrades DEF AboutAnchor, Fresh0
<1>6. Fresh0.n = 0 /\ Fresh0.prints = <<>> /\ Fresh0.s0 = 0
  BY DEF Fresh0
<1>7. MomentsKept(Fresh0)
  BY <1>2, <1>3, <1>4, <1>5, <1>6, NoTrades DEF MomentsKept
<1> QED
  BY <1>1, <1>7 DEF TrackerIInv

LEMMA TrackerKeeps == TrackerIInv /\ [TrackerNext]_trackerVars => TrackerIInv'
<1> SUFFICES ASSUME TrackerIInv, [TrackerNext]_trackerVars PROVE TrackerIInv'
  OBVIOUS
<1>0. MomentsKept(Tracker) /\ MomentsKept(saved)
  BY DEF TrackerIInv
<1>1. ASSUME NEW t, MomentsKept(t), Becomes(t) PROVE MomentsKept(Tracker')
  BY <1>1, BecomesIs DEF MomentsKept
<1>2. ASSUME NEW price \in Prices, NEW size \in Sizes, OnTrade(price, size)
      PROVE  MomentsKept(Tracker') /\ MomentsKept(saved')
  <2>1. price \in Int /\ size \in Nat /\ saved' = saved
    BY <1>2, TrackerAssumption DEF OnTrade
  <2>2. CASE size <= 0
    BY <1>0, <1>2, <2>1, <2>2 DEF OnTrade, Tracker
  <2>3. CASE ~(size <= 0)
    <3>1. size \in Positive
      BY <2>1, <2>3 DEF Positive
    <3>2. PICK t : t = Added(price, size)
      OBVIOUS
    <3>3. MomentsKept(t) /\ t.s0 \in Positive
      BY <1>0, <2>1, <3>1, <3>2, AddedKeeps
    <3>4. Becomes(IF t.n % ReanchorEvery = 0 THEN Folded(t) ELSE t)
      BY <1>2, <2>3, <3>2 DEF OnTrade
    <3>5. CASE t.n % ReanchorEvery = 0
      <4>1. Becomes(Folded(t)) /\ MomentsKept(Folded(t))
        BY <3>3, <3>4, <3>5, FoldedKeeps
      <4> QED
        BY <1>0, <1>1, <2>1, <4>1
    <3>6. CASE ~(t.n % ReanchorEvery = 0)
      <4>1. Becomes(t)
        BY <3>4, <3>6
      <4> QED
        BY <1>0, <1>1, <2>1, <3>3, <4>1
    <3> QED
      BY <3>5, <3>6
  <2> QED
    BY <2>2, <2>3
<1>3. CASE SaveTracker
  BY <1>0, <1>3 DEF SaveTracker, Tracker, TrackerIInv
<1>4. CASE RestoreTracker
  <2>1. MomentsKept(Tracker') /\ saved' = saved
    BY <1>0, <1>1, <1>4 DEF RestoreTracker
  <2> QED
    BY <1>0, <2>1 DEF TrackerIInv
<1>5. CASE UNCHANGED trackerVars
  BY <1>0, <1>5 DEF trackerVars, Tracker, TrackerIInv
<1> QED
  BY <1>2, <1>3, <1>4, <1>5 DEF TrackerNext, TrackerIInv

(* For any trades, however often the anchor moved and the tracker was      *)
(* restored, its volume, VWAP and variance are those of the tape.          *)
THEOREM MomentsTheorem == TrackerSpec => []MomentsOfTape
<1>1. TrackerIInv => MomentsOfTape
  <2> SUFFICES ASSUME TrackerIInv PROVE MomentsOfTape
    OBVIOUS
  <2>1. /\ n = Len(prints) /\ s0 = Volumes(prints) /\ s0 \in Nat
        /\ Notional(prints) \in Int /\ SecondMoment(prints) \in Int
        /\ \E a \in Int, b \in Positive : AboutAnchor(Tracker, a, b)
    BY DEF TrackerIInv, MomentsKept, Tracker, Trackers
  <2>2. PICK val \in Int, sq \in Int : val = Notional(prints) /\ sq = SecondMoment(prints)
    BY <2>1
  <2>3. ASSUME s0 > 0
        PROVE  Vwap = Rat(val, s0) /\ Variance = Rat(sq * s0 - val * val, s0 * s0)
    <3>1. s0 \in Positive
      BY <2>1, <2>3 DEF Positive
    <3>2. PICK a \in Int, b \in Positive :
            anchor = Rat(a, b) /\ s1 = First(val, s0, a, b) /\ s2 = Second(sq, val, s0, a, b)
      BY <2>1, <2>2 DEF AboutAnchor, Tracker
    <3>3. PICK m : m = Over(s1, s0)
      OBVIOUS
    <3>4. Plus(anchor, m) = Rat(val, s0)
          /\ Minus(Over(s2, s0), Times(m, m)) = Rat(sq * s0 - val * val, s0 * s0)
      <4>1. PICK vol \in Positive : vol = s0
        BY <3>1
      <4>2. m = Over(First(val, vol, a, b), vol)
        BY <3>2, <3>3, <4>1
      <4>3. AnchorFree(sq, val, vol, a, b, m)
        BY <4>2, MeanIsAnchorFree
      <4> QED
        BY <3>2, <4>1, <4>3 DEF AnchorFree
    <3> QED
      BY <3>3, <3>4 DEF Vwap, Variance
  <2> QED
    BY <2>1, <2>2, <2>3 DEF MomentsOfTape
<1> QED
  BY <1>1, TrackerInitially, TrackerKeeps, PTL DEF TrackerSpec
=============================================================================
