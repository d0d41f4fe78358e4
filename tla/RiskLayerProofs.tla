--------------------------- MODULE RiskLayerProofs ---------------------------
(***************************************************************************)
(* Proofs about RiskLayer: for every starting equity, limit, set of        *)
(* equities, leaders and closes, and number of days.                       *)
(***************************************************************************)
EXTENDS RiskLayer, DataLemmas, TLAPS

(* What _leader_returns keeps is never longer than corr_window.            *)
LEMMA LatestFits ==
  ASSUME NEW s \in Seq(Int), NEW n \in Nat
  PROVE  Latest(s, n) \in Seq(Int) /\ Len(Latest(s, n)) <= n
<1>1. CASE Len(s) > n
  <2>1. Len(s) - n + 1 \in 1..(Len(s) + 1) /\ Len(s) \in 0..Len(s)
    BY <1>1, LenProperties, SMT
  <2>2. SubSeq(s, Len(s) - n + 1, Len(s)) \in Seq(Int)
    BY <2>1, <1>1, LenProperties, SMT
  <2>3. Len(SubSeq(s, Len(s) - n + 1, Len(s))) = n
    BY <2>1, <1>1, LenProperties, SMT
  <2> QED
    BY <1>1, <2>2, <2>3 DEF Latest
<1>2. CASE ~(Len(s) > n)
  BY <1>2, LenProperties, SMT DEF Latest
<1> QED
  BY <1>1, <1>2

(* on_leader_price keeps closes closes and the returns a window of them.   *)
LEMMA LeaderPricedTypes ==
  ASSUME FilterTypeOK, NEW l \in Leaders, NEW price \in LogPrices, LeaderPriced(l, price)
  PROVE  FilterTypeOK'
<1> USE DEF FilterTypeOK
<1>1. last_price' \in [Leaders -> LogPrices \cup {NoClose}]
  BY DEF LeaderPriced
<1>2. CASE last_price[l] = NoClose
  BY <1>1, <1>2 DEF LeaderPriced
<1>3. CASE last_price[l] # NoClose
  <2> DEFINE s == Append(leader_returns[l], price - last_price[l])
  <2>1. price - last_price[l] \in Int
    <3>1. last_price[l] \in LogPrices
      BY <1>3
    <3>2. price \in Int /\ last_price[l] \in Int
      BY <3>1, FilterAssumption, Zenon
    <3> QED
      BY <3>2
  <2>2. leader_returns[l] \in Seq(Int)
    OBVIOUS
  <2>3. s \in Seq(Int) /\ CorrWindow \in Nat
    BY <2>1, <2>2, FilterAssumption, SMT
  <2>4. leader_returns' = [leader_returns EXCEPT ![l] = Latest(s, CorrWindow)]
    BY <1>3 DEF LeaderPriced
  <2> HIDE DEF s
  <2>5. Latest(s, CorrWindow) \in Seq(Int) /\ Len(Latest(s, CorrWindow)) <= CorrWindow
    BY <2>3, LatestFits
  <2>6. leader_returns' \in [Leaders -> Seq(Int)]
    BY <2>4, <2>5
  <2>7. \A k \in Leaders : Len(leader_returns'[k]) <= CorrWindow
    BY <2>4, <2>5
  <2> QED
    BY <1>1, <2>6, <2>7
<1> QED
  BY <1>2, <1>3

(* Day by day and close by close, risk.py's attributes stay what they were *)
(* declared as, and a leader's window never outgrows corr_window: the      *)
(* types every other proof here starts from.                               *)
THEOREM TypeCorrect == Spec => []TypeOK
<1>1. Init => TypeOK
  <2> SUFFICES ASSUME Init PROVE TypeOK
    OBVIOUS
  <2>1. equity \in Int /\ hwm \in Int /\ hwm_day \in Days
    BY RiskConfigAssumption DEF Init, RiskInit, Days
  <2>2. breaker_latched \in BOOLEAN /\ breakdown \in BOOLEAN
    BY DEF Init, RiskInit
  <2>3. samples \in Seq(Int) /\ samples # <<>>
    BY RiskConfigAssumption DEF Init
  <2>4. FilterTypeOK
    <3>1. last_price \in [Leaders -> LogPrices \cup {NoClose}]
      BY DEF Init, FilterInit
    <3>2. leader_returns \in [Leaders -> Seq(Int)]
      BY DEF Init, FilterInit
    <3>3. \A l \in Leaders : Len(leader_returns[l]) <= CorrWindow
      BY FilterAssumption DEF Init, FilterInit
    <3> QED
      BY <3>1, <3>2, <3>3 DEF FilterTypeOK
  <2> QED
    BY <2>1, <2>2, <2>3, <2>4 DEF TypeOK, RiskTypeOK
<1>2. TypeOK /\ [Next]_vars => TypeOK'
  <2> SUFFICES ASSUME TypeOK, [Next]_vars PROVE TypeOK'
    OBVIOUS
  <2> USE DEF TypeOK, RiskTypeOK, Days
  <2>1. CASE Sample
    <3>1. PICK e \in Equities, d \in hwm_day..MaxDay :
            /\ OnEquity(e, d)
            /\ samples' = IF d = hwm_day THEN Append(samples, e) ELSE <<e>>
            /\ UNCHANGED <<breakdown, filterVars>>
      BY <2>1 DEF Sample
    <3>2. e \in Int /\ d \in Days
      BY RiskConfigAssumption, LayerAssumption, SMT
    <3>3. equity' \in Int /\ hwm' \in Int /\ hwm_day' \in Days
      BY <3>1, <3>2 DEF OnEquity, MaxOf
    <3>4. breaker_latched' \in BOOLEAN /\ breakdown' \in BOOLEAN
      BY <3>1 DEF OnEquity
    <3>5. samples' \in Seq(Int) /\ samples' # <<>>
      BY <3>1, <3>2, SMT
    <3>6. FilterTypeOK'
      BY <3>1 DEF filterVars, FilterTypeOK
    <3> QED
      BY <3>3, <3>4, <3>5, <3>6
  <2>2. CASE LeaderClose
    <3>1. FilterTypeOK'
      BY <2>2, LeaderPricedTypes DEF LeaderClose
    <3>2. breakdown' \in BOOLEAN
      <4>1. Breakdown' \in BOOLEAN
        BY Zenon DEF Breakdown
      <4> QED
        BY <2>2, <4>1, Zenon DEF LeaderClose
    <3> QED
      BY <2>2, <3>1, <3>2 DEF LeaderClose
  <2>3. CASE UNCHANGED vars
    BY <2>3 DEF vars, riskVars, filterVars, FilterTypeOK
  <2> QED
    BY <2>1, <2>2, <2>3 DEF Next
<1> QED
  BY <1>1, <1>2, PTL DEF Spec

(* A fall that breaches the limit from some sample breaches it from the    *)
(* peak: this is what lets risk.py keep one mark instead of the history.   *)
LEMMA PeakDecides ==
  ASSUME NEW peak \in Int, NEW s \in Int, NEW e \in Int,
         s <= peak, s > 0, 100 * (s - e) >= MaxDailyDdPct * s
  PROVE  Breached(peak, e)
<1> DEFINE room == 100 - MaxDailyDdPct
<1>1. MaxDailyDdPct \in Int /\ room \in Int /\ room >= 0
  BY RiskConfigAssumption, SMT
<1>2. room * (peak - s) >= 0
  <2>1. \A a, b \in Int : a >= 0 /\ b >= 0 => a * b >= 0
    BY SMT
  <2>2. peak - s \in Int /\ peak - s >= 0
    BY SMT
  <2> HIDE DEF room
  <2> QED
    BY <1>1, <2>1, <2>2
<1>3. room * (peak - s) = (100 * peak - MaxDailyDdPct * peak) - (100 * s - MaxDailyDdPct * s)
  BY <1>1, SMT
<1>4. MaxDailyDdPct * peak \in Int /\ MaxDailyDdPct * s \in Int
  BY <1>1, SMT
<1>5. 100 * (peak - e) >= MaxDailyDdPct * peak
  BY <1>2, <1>3, <1>4, SMT
<1> QED
  BY <1>5, SMT DEF Breached

(* The mark and the latch, with the types they need: inductive as a whole, *)
(* because a sample is judged against the mark only and the mark has to be *)
(* known to stand for every sample of the day.                             *)
IInv == TypeOK /\ MarkIsDaysPeak /\ LatchedIffDrawdown

(* After a sample, the mark is the peak of the day and equity is the last  *)
(* sample.                                                                 *)
LEMMA SampleKeepsMark ==
  ASSUME IInv, TypeOK', Sample
  PROVE  MarkIsDaysPeak'
<1> USE DEF IInv, TypeOK, RiskTypeOK, MarkIsDaysPeak
<1>1. PICK e \in Equities, d \in hwm_day..MaxDay :
        /\ OnEquity(e, d)
        /\ samples' = IF d = hwm_day THEN Append(samples, e) ELSE <<e>>
  BY DEF Sample
<1>2. e \in Int
  BY LayerAssumption
<1>3. CASE d = hwm_day
  <2>1. samples' = Append(samples, e) /\ hwm' = MaxOf(hwm, e) /\ equity' = e
    BY <1>1, <1>3 DEF OnEquity
  <2>2. Len(samples') = Len(samples) + 1 /\ Len(samples) \in Nat
    BY <2>1, <1>2
  <2>3. \A j \in 1..Len(samples) : samples'[j] = samples[j]
    BY <2>1, <1>2
  <2>4. samples'[Len(samples) + 1] = e
    BY <2>1, <1>2
  <2>5. \A j \in 1..Len(samples') : samples'[j] <= hwm'
    <3> TAKE j \in 1..Len(samples')
    <3>1. CASE j \in 1..Len(samples)
      BY <3>1, <2>1, <2>3, <1>2 DEF MaxOf
    <3>2. CASE j = Len(samples) + 1
      BY <3>2, <2>1, <2>4, <1>2 DEF MaxOf
    <3>3. j \in 1..Len(samples) \/ j = Len(samples) + 1
      <4>1. \A m \in Nat : \A i \in 1..(m + 1) : i \in 1..m \/ i = m + 1
        BY SMT
      <4>2. j \in 1..(Len(samples) + 1)
        BY <2>2, Zenon
      <4> QED
        BY <4>1, <4>2, <2>2, Zenon
    <3> QED
      BY <3>1, <3>2, <3>3, Zenon
  <2>6. \E j \in 1..Len(samples') : hwm' = samples'[j]
    <3>1. CASE hwm >= e
      <4>1. PICK j \in 1..Len(samples) : hwm = samples[j]
        OBVIOUS
      <4> QED
        BY <3>1, <4>1, <2>1, <2>2, <2>3 DEF MaxOf
    <3>2. CASE ~(hwm >= e)
      BY <3>2, <2>1, <2>2, <2>4 DEF MaxOf
    <3> QED
      BY <3>1, <3>2
  <2> QED
    BY <2>1, <2>2, <2>4, <2>5, <2>6
<1>4. CASE d # hwm_day
  <2>1. samples' = <<e>> /\ hwm' = e /\ equity' = e
    BY <1>1, <1>2, <1>4 DEF OnEquity, MaxOf
  <2> QED
    BY <2>1, <1>2
<1> QED
  BY <1>3, <1>4

(* After a sample, the breaker is latched iff the day has seen a drawdown. *)
LEMMA SampleKeepsLatch ==
  ASSUME IInv, TypeOK', MarkIsDaysPeak', Sample
  PROVE  LatchedIffDrawdown'
<1> USE DEF IInv, TypeOK, RiskTypeOK
<1>1. PICK e \in Equities, d \in hwm_day..MaxDay :
        /\ OnEquity(e, d)
        /\ samples' = IF d = hwm_day THEN Append(samples, e) ELSE <<e>>
  BY DEF Sample
<1>2. e \in Int /\ hwm' \in Int
  BY LayerAssumption
<1> DEFINE n == Len(samples')
<1>3. n \in Nat \ {0} /\ samples'[n] = e
  BY <1>1, <1>2, SMT DEF MarkIsDaysPeak, OnEquity
<1>4. Breached(hwm', e) <=> \E j \in 1..n : Drawdown(samples'[j], samples'[n])
  <2>1. ASSUME NEW j \in 1..n, Drawdown(samples'[j], samples'[n])
        PROVE  Breached(hwm', e)
    <3>1. samples'[j] \in Int /\ samples'[j] <= hwm'
      BY <1>3 DEF MarkIsDaysPeak
    <3>2. samples'[j] > 0 /\ 100 * (samples'[j] - e) >= MaxDailyDdPct * samples'[j]
      BY <2>1, <1>3 DEF Drawdown
    <3> QED
      BY <3>1, <3>2, <1>2, PeakDecides
  <2>2. ASSUME Breached(hwm', e)
        PROVE  \E j \in 1..n : Drawdown(samples'[j], samples'[n])
    <3>1. PICK j \in 1..n : hwm' = samples'[j]
      BY DEF MarkIsDaysPeak
    <3>2. Drawdown(samples'[j], samples'[n])
      BY <2>2, <3>1, <1>3 DEF Breached, Drawdown
    <3> QED
      BY <3>2
  <2> QED
    BY <2>1, <2>2
<1>5. CASE d = hwm_day
  <2>1. samples' = Append(samples, e) /\ n = Len(samples) + 1 /\ Len(samples) \in Nat
    BY <1>1, <1>2, <1>5
  <2>2. \A j \in 1..Len(samples) : samples'[j] = samples[j]
    BY <2>1, <1>2
  <2>3. breaker_latched' <=> breaker_latched \/ Breached(hwm', e)
    BY <1>1, <1>5 DEF OnEquity
  <2>4. ASSUME NEW k \in 1..Len(samples), NEW j \in 1..k
        PROVE  Drawdown(samples'[j], samples'[k]) <=> Drawdown(samples[j], samples[k])
    <3>1. j \in 1..Len(samples)
      BY <2>1, SMT
    <3> QED
      BY <3>1, <2>2 DEF Drawdown
  <2>5. 1..n = 1..Len(samples) \cup {n}
    BY <2>1, SMT
  <2> QED
    BY <1>4, <2>3, <2>4, <2>5 DEF LatchedIffDrawdown
<1>6. CASE d # hwm_day
  <2>1. samples' = <<e>>
    BY <1>1, <1>6
  <2>2. n = 1
    BY <2>1
  <2>3. breaker_latched' <=> Breached(hwm', e)
    BY <1>1, <1>6 DEF OnEquity
  <2>4. 1..n = {n}
    BY <2>2, SMT
  <2> QED
    BY <1>4, <2>3, <2>4 DEF LatchedIffDrawdown
<1> QED
  BY <1>5, <1>6

(* At the start the only sample is the starting equity.                    *)
LEMMA InitIInv == Init /\ TypeOK => IInv
<1> SUFFICES ASSUME Init, TypeOK PROVE IInv
  OBVIOUS
<1>1. Len(samples) \in Nat
  BY DEF Init
<1>2. Len(samples) = 1 /\ samples[1] = StartingEquity /\ StartingEquity \in Nat \ {0}
  BY RiskConfigAssumption DEF Init
<1>3. MarkIsDaysPeak
  <2>1. hwm = samples[1] /\ equity = samples[1] /\ 1 \in 1..Len(samples)
    BY <1>2 DEF Init, RiskInit
  <2>2. \A j \in 1..Len(samples) : j = 1
    BY <1>2, SMT
  <2>3. samples[1] <= hwm
    BY <2>1, <1>2, SMT
  <2> QED
    BY <2>1, <2>2, <2>3, <1>2, Zenon DEF MarkIsDaysPeak
<1>4. ~Drawdown(StartingEquity, StartingEquity)
  <2>1. 100 * (StartingEquity - StartingEquity) = 0
    BY <1>2, SMT
  <2>2. \A a, b \in Int : a > 0 /\ b > 0 => ~(0 >= a * b)
    BY SMT
  <2>3. MaxDailyDdPct \in Int /\ MaxDailyDdPct > 0 /\ StartingEquity \in Int /\ StartingEquity > 0
    BY <1>2, RiskConfigAssumption, SMT
  <2> QED
    BY <1>2, <2>1, <2>2, <2>3 DEF Drawdown
<1>5. \A k \in 1..Len(samples) : k = 1 /\ \A j \in 1..k : j = 1
  BY <1>2, SMT
<1>6. LatchedIffDrawdown
  BY <1>4, <1>5 DEF Init, RiskInit, LatchedIffDrawdown
<1> QED
  BY <1>3, <1>6 DEF IInv

(* Mark and latch together are inductive: the code compares a sample with  *)
(* the mark only, so the latch is right only as long as the mark is.       *)
LEMMA MarkAndLatch == Spec => []IInv
<1>1. Init /\ TypeOK => IInv
  BY InitIInv
<1>2. IInv /\ TypeOK' /\ [Next]_vars => IInv'
  <2> SUFFICES ASSUME IInv, TypeOK', [Next]_vars PROVE IInv'
    OBVIOUS
  <2>1. CASE Sample
    BY <2>1, SampleKeepsMark, SampleKeepsLatch DEF IInv
  <2>2. CASE LeaderClose
    BY <2>2 DEF LeaderClose, IInv, MarkIsDaysPeak, LatchedIffDrawdown
  <2>3. CASE UNCHANGED vars
    BY <2>3 DEF vars, riskVars, IInv, MarkIsDaysPeak, LatchedIffDrawdown
  <2> QED
    BY <2>1, <2>2, <2>3 DEF Next
<1> QED
  BY <1>1, <1>2, TypeCorrect, PTL DEF Spec

(* The high-water mark of risk.py is the highest equity of the day.        *)
THEOREM MarkIsHighest == Spec => []MarkIsDaysPeak
<1>1. IInv => MarkIsDaysPeak
  BY DEF IInv
<1> QED
  BY <1>1, MarkAndLatch, PTL

(* The breaker of risk.py is latched exactly when some two samples of the  *)
(* day are a drawdown of the limit or more.                                *)
THEOREM BreakerRemembersDrawdowns == Spec => []LatchedIffDrawdown
<1>1. IInv => LatchedIffDrawdown
  BY DEF IInv
<1> QED
  BY <1>1, MarkAndLatch, PTL

(* position_notional never sizes an order past the gross cap, whatever     *)
(* equity, volatility and open exposure it is called with.                 *)
THEOREM SizeFitsUnderCap ==
  ASSUME TypeOK, NEW sigma \in Nat, NEW vwap \in Nat, NEW gross \in Int
  PROVE  SizeFits(sigma, vwap, gross)
<1> DEFINE cap == (MaxGrossPct * equity) \div 100
<1> DEFINE room == Headroom(gross)
<1> DEFINE scaled == VolScaled(sigma, vwap)
<1> DEFINE refused == Halted \/ sigma <= 0 \/ vwap <= 0 \/ MinOf(scaled, room) < MinNotional
<1>a. CASE refused
  BY <1>a, Zenon DEF SizeFits, PositionNotional
<1> SUFFICES ASSUME ~refused PROVE SizeFits(sigma, vwap, gross)
  BY <1>a
<1>1. MaxGrossPct * equity \in Int
  BY RiskConfigAssumption DEF TypeOK, RiskTypeOK
<1>2. cap \in Int /\ 100 * cap <= MaxGrossPct * equity
  BY <1>1, SMT
<1>3. room \in Int /\ room = MaxOf(cap - gross, 0)
  BY <1>2 DEF Headroom, MaxOf
<1>4. scaled \in Int /\ scaled <= BaseNotional
  <2>1. CASE 100 * sigma <= SigmaTargetPct * vwap
    BY <2>1, RiskConfigAssumption DEF VolScaled
  <2>2. CASE ~(100 * sigma <= SigmaTargetPct * vwap)
    <3> DEFINE want == BaseNotional * SigmaTargetPct * vwap
    <3> DEFINE have == 100 * sigma
    <3>1. want \in Int /\ have \in Int /\ have > 0 /\ BaseNotional \in Int
      BY RiskConfigAssumption, SMT
    <3>2. want <= BaseNotional * have
      <4>1. \A a, b, c \in Nat : b <= c => a * b <= a * c
        BY SMT
      <4>2. SigmaTargetPct * vwap \in Nat /\ have \in Nat /\ SigmaTargetPct * vwap <= have
        BY <2>2, RiskConfigAssumption, SMT
      <4>3. want = BaseNotional * (SigmaTargetPct * vwap)
        BY RiskConfigAssumption, SMT
      <4> HIDE DEF want, have
      <4> QED
        BY <4>1, <4>2, <4>3, RiskConfigAssumption
    <3>3. \A a, b, c \in Int : b > 0 /\ a <= c * b => a \div b <= c /\ a \div b \in Int
      BY SMT
    <3>4. want \div have <= BaseNotional /\ want \div have \in Int
      <4> HIDE DEF want, have
      <4> QED
        BY <3>1, <3>2, <3>3
    <3> QED
      BY <2>2, <3>4 DEF VolScaled
  <2> QED
    BY <2>1, <2>2
<1>5. BaseNotional \in Int /\ MinNotional \in Int /\ MinNotional >= 1
  BY RiskConfigAssumption
<1>6. MinOf(scaled, room) \in MinNotional..BaseNotional
  BY <1>3, <1>4, <1>5 DEF MinOf
<1>7. MinOf(scaled, room) <= cap - gross
  BY <1>2, <1>3, <1>4, <1>5, <1>6 DEF MinOf, MaxOf
<1>8. MinOf(scaled, room) \in Int
  BY <1>5, <1>6
<1>9. 100 * (gross + MinOf(scaled, room)) <= MaxGrossPct * equity
  BY <1>1, <1>2, <1>7, <1>8
<1>10. PositionNotional(sigma, vwap, gross) = MinOf(scaled, room)
  BY Zenon DEF PositionNotional
<1>11. ~Halted /\ sigma > 0 /\ vwap > 0
  BY SMT
<1> QED
  BY <1>6, <1>9, <1>10, <1>11, Zenon DEF SizeFits

(* The same as an invariant of the risk layer: at any point of any day,    *)
(* whatever position_notional answers still fits under the gross cap.      *)
THEOREM OrdersFitUnderCap == Spec => []SizingRespectsCap
<1>1. TypeOK => SizingRespectsCap
  <2> SUFFICES ASSUME TypeOK,
                      NEW sigma \in Sigmas, NEW vwap \in Vwaps, NEW gross \in OpenNotionals
               PROVE  SizeFits(sigma, vwap, gross)
    BY DEF SizingRespectsCap
  <2>1. sigma \in Nat /\ vwap \in Nat /\ gross \in Int
    BY LayerAssumption
  <2> QED
    BY <2>1, SizeFitsUnderCap
<1> QED
  BY <1>1, TypeCorrect, PTL

(***************************************************************************)
(* The leader filter.                                                      *)
(***************************************************************************)

(* r is the returns between the closes c.                                  *)
MovesOf(c, r) == Len(r) = Len(c) - 1 /\ \A k \in 1..Len(r) : r[k] = c[k + 1] - c[k]

(* The window: both deques forget at the same pace, so what _leader_returns *)
(* keeps is the returns between the closes kept.                           *)
WindowInv ==
  /\ closes \in [Leaders -> Seq(LogPrices)]
  /\ \A l \in Leaders :
       IF closes[l] = <<>> THEN last_price[l] = NoClose /\ leader_returns[l] = <<>>
       ELSE last_price[l] = closes[l][Len(closes[l])] /\ MovesOf(closes[l], leader_returns[l])

(* t is s from its element number d + 1 on.                                *)
Suffix(t, s, n, d) == Len(t) = n /\ \A k \in 1..n : t[k] = s[k + d]

LEMMA LatestIs ==
  ASSUME NEW S, NEW s \in Seq(S), NEW n \in Nat, NEW d \in Nat, Len(s) = n + d
  PROVE  Latest(s, n) \in Seq(S) /\ Suffix(Latest(s, n), s, n, d)
<1> DEFINE m == n + d
<1>1. CASE d > 0
  <2>1. m > n /\ m - n + 1 \in Int /\ m - n + 1 >= 1 /\ m \in 0..m
    BY <1>1
  <2>2. \A i \in m - n + 1..m : s[i] \in S
    <3>1. \A i \in 1..m : s[i] \in S
      BY ElementOfSeq
    <3> QED
      BY <2>1, <3>1
  <2>3. Latest(s, n) = SubSeq(s, m - n + 1, m)
    BY <2>1 DEF Latest
  <2>4. /\ SubSeq(s, m - n + 1, m) \in Seq(S)
        /\ Len(SubSeq(s, m - n + 1, m)) = IF m - n + 1 <= m THEN m - (m - n + 1) + 1 ELSE 0
        /\ \A i \in 1..m - (m - n + 1) + 1 : SubSeq(s, m - n + 1, m)[i] = s[(m - n + 1) + i - 1]
    BY <2>1, <2>2, SubSeqProperties
  <2>5. Len(Latest(s, n)) = n
    BY <2>1, <2>3, <2>4
  <2>6. \A k \in 1..n : Latest(s, n)[k] = s[k + d]
    <3>1. \A k \in 1..n : k \in 1..m - (m - n + 1) + 1 /\ (m - n + 1) + k - 1 = k + d
      BY <1>1
    <3> QED
      BY <2>3, <2>4, <3>1
  <2> QED
    BY <2>3, <2>4, <2>5, <2>6 DEF Suffix
<1>2. CASE d = 0
  <2>1. Latest(s, n) = s
    BY <1>2 DEF Latest
  <2>2. \A k \in 1..n : k + d = k
    BY <1>2
  <2> QED
    BY <1>2, <2>1, <2>2 DEF Suffix
<1> QED
  BY <1>1, <1>2

LEMMA MovesGrow ==
  ASSUME NEW c \in Seq(LogPrices), NEW n \in Nat, Len(c) = n + 1, NEW r \in Seq(Int),
         MovesOf(c, r), NEW price \in LogPrices
  PROVE  MovesOf(Append(c, price), Append(r, price - c[n + 1]))
<1>1. Len(r) = n /\ \A k \in 1..n : r[k] = c[k + 1] - c[k]
  BY DEF MovesOf
<1> DEFINE c2 == Append(c, price)
           r2 == Append(r, price - c[n + 1])
<1>2. Len(c2) = n + 2 /\ c2[n + 2] = price /\ \A k \in 1..n + 1 : c2[k] = c[k]
  OBVIOUS
<1>3. c[n + 1] \in Int /\ price \in Int
  <2>1. c[n + 1] \in LogPrices
    BY ElementOfSeq
  <2> QED
    BY <2>1, FilterAssumption
<1>4. Len(r2) = n + 1 /\ r2[n + 1] = price - c[n + 1] /\ \A k \in 1..n : r2[k] = r[k]
  BY <1>1, <1>3
<1> HIDE DEF c2, r2
<1>5. ASSUME NEW k \in 1..n + 1 PROVE r2[k] = c2[k + 1] - c2[k]
  <2>1. CASE k = n + 1
    BY <1>2, <1>4, <2>1
  <2>2. CASE k # n + 1
    <3>1. k \in 1..n /\ k \in 1..n + 1 /\ k + 1 \in 1..n + 1
      BY <2>2
    <3> QED
      BY <1>1, <1>2, <1>4, <3>1
  <2> QED
    BY <2>1, <2>2
<1>6. MovesOf(c2, r2)
  BY <1>2, <1>4, <1>5 DEF MovesOf
<1> QED
  BY <1>6 DEF c2, r2

LEMMA MovesSlide ==
  ASSUME NEW c \in Seq(LogPrices), NEW m \in Nat, Len(c) = m + 1, NEW r \in Seq(Int),
         MovesOf(c, r), NEW n \in Nat
  PROVE  MovesOf(Latest(c, n + 1), Latest(r, n))
<1>1. Len(r) = m /\ \A k \in 1..m : r[k] = c[k + 1] - c[k]
  BY DEF MovesOf
<1>2. CASE m > n
  <2>1. PICK d \in Nat, n1 \in Nat : m = n + d /\ n1 = n + 1 /\ m + 1 = n1 + d
    <3>1. m - n \in Nat /\ n + 1 \in Nat
      BY <1>2
    <3> QED
      BY <3>1
  <2>2. Len(r) = n + d /\ Len(c) = n1 + d
    BY <1>1, <2>1
  <2>3. Suffix(Latest(c, n1), c, n1, d) /\ Suffix(Latest(r, n), r, n, d)
    BY <2>2, LatestIs
  <2>4. ASSUME NEW k \in 1..n
        PROVE  Latest(r, n)[k] = Latest(c, n1)[k + 1] - Latest(c, n1)[k]
    <3>1. k + d \in 1..m /\ k \in 1..n1 /\ k + 1 \in 1..n1 /\ k + 1 + d = k + d + 1
      BY <2>1
    <3>2. r[k + d] = c[k + d + 1] - c[k + d]
      BY <1>1, <3>1
    <3>3. Latest(c, n1)[k + 1] = c[k + d + 1] /\ Latest(c, n1)[k] = c[k + d]
      BY <2>3, <3>1 DEF Suffix
    <3>4. Latest(r, n)[k] = r[k + d]
      BY <2>3 DEF Suffix
    <3> QED
      BY <3>2, <3>3, <3>4
  <2>5. Len(Latest(c, n1)) = n1 /\ Len(Latest(r, n)) = n
    BY <2>3 DEF Suffix
  <2> QED
    BY <2>1, <2>4, <2>5 DEF MovesOf
<1>3. CASE ~(m > n)
  <2>1. n + 1 \in Nat /\ m + 1 \in Nat /\ ~(m + 1 > n + 1)
    BY <1>3
  <2>2. Latest(c, n + 1) = c /\ Latest(r, n) = r
    BY <1>1, <1>3, <2>1 DEF Latest
  <2> QED
    BY <2>2
<1> QED
  BY <1>2, <1>3

(* One close of one leader.                                                *)
LEMMA LeaderPricedKeeps ==
  ASSUME FilterTypeOK, WindowInv, NEW l \in Leaders, NEW price \in LogPrices, LeaderPriced(l, price)
  PROVE  WindowInv'
<1>1. /\ closes[l] \in Seq(LogPrices) /\ leader_returns[l] \in Seq(Int)
      /\ CorrWindow \in Nat \ {0} /\ price # NoClose
  BY FilterAssumption DEF WindowInv, FilterTypeOK
<1>2. /\ closes' = [closes EXCEPT ![l] = Latest(Append(closes[l], price), CorrWindow + 1)]
      /\ last_price' = [last_price EXCEPT ![l] = price]
  BY DEF LeaderPriced
<1>3. \A k \in Leaders \ {l} : /\ closes'[k] = closes[k] /\ last_price'[k] = last_price[k]
                               /\ leader_returns'[k] = leader_returns[k]
  BY DEF LeaderPriced, WindowInv, FilterTypeOK
<1> DEFINE c2 == Append(closes[l], price)
<1>4. c2 \in Seq(LogPrices) /\ Len(c2) \in Nat \ {0} /\ c2[Len(c2)] = price
  BY <1>1
<1>5. /\ closes'[l] = Latest(c2, CorrWindow + 1) /\ closes'[l] \in Seq(LogPrices)
      /\ closes'[l] # <<>> /\ closes'[l][Len(closes'[l])] = price /\ last_price'[l] = price
  <2>1. closes'[l] = Latest(c2, CorrWindow + 1) /\ last_price'[l] = price
    BY <1>2 DEF WindowInv, FilterTypeOK
  <2> HIDE DEF c2
  <2>2. PICK n \in Nat : n = CorrWindow + 1 /\ n > 0
    BY <1>1
  <2>3. CASE Len(c2) >= n
    <3>1. PICK d \in Nat : Len(c2) = n + d
      <4>1. Len(c2) - n \in Nat
        BY <1>4, <2>3
      <4> QED
        BY <4>1
    <3>2. Latest(c2, n) \in Seq(LogPrices) /\ Suffix(Latest(c2, n), c2, n, d)
      BY <1>4, <3>1, LatestIs
    <3>3. Latest(c2, n) # <<>> /\ Latest(c2, n)[Len(Latest(c2, n))] = price
      <4>1. n \in 1..n
        BY <2>2
      <4>2. Len(Latest(c2, n)) = n /\ Latest(c2, n)[n] = c2[n + d]
        BY <3>2, <4>1 DEF Suffix
      <4> QED
        BY <1>4, <2>2, <3>1, <4>2
    <3> QED
      BY <2>1, <2>2, <3>2, <3>3
  <2>4. CASE Len(c2) < n
    <3>1. Latest(c2, n) = c2 /\ c2 # <<>>
      BY <1>4, <2>4 DEF Latest
    <3> QED
      BY <1>4, <2>1, <2>2, <3>1
  <2> QED
    BY <1>4, <2>2, <2>3, <2>4
<1>6. MovesOf(closes'[l], leader_returns'[l])
  <2>1. CASE closes[l] = <<>>
    <3>1. last_price[l] = NoClose /\ leader_returns[l] = <<>>
      BY <2>1 DEF WindowInv
    <3>2. leader_returns'[l] = <<>>
      BY <3>1 DEF LeaderPriced
    <3>3. c2 = <<price>>
      BY <2>1
    <3>4. Latest(c2, CorrWindow + 1) = c2
      <4>1. Len(c2) = 1 /\ ~(1 > CorrWindow + 1)
        BY <1>1, <3>3
      <4> QED
        BY <4>1 DEF Latest
    <3> QED
      BY <1>5, <3>2, <3>3, <3>4 DEF MovesOf
  <2>2. CASE closes[l] # <<>>
    <3>1. last_price[l] = closes[l][Len(closes[l])] /\ MovesOf(closes[l], leader_returns[l])
      BY <2>2 DEF WindowInv
    <3>2. PICK n \in Nat : Len(closes[l]) = n + 1
      <4>1. Len(closes[l]) \in Nat /\ Len(closes[l]) # 0
        BY <1>1, <2>2, EmptySeq
      <4>2. Len(closes[l]) - 1 \in Nat
        BY <4>1
      <4> QED
        BY <4>1, <4>2
    <3>3. last_price[l] = closes[l][n + 1] /\ n + 1 \in 1..Len(closes[l])
      BY <3>1, <3>2
    <3>4. last_price[l] \in LogPrices
      BY <1>1, <3>3, ElementOfSeq
    <3>5. last_price[l] # NoClose /\ price - last_price[l] \in Int
      <4>1. last_price[l] # NoClose /\ last_price[l] \in Int /\ price \in Int
        BY <3>4, FilterAssumption, Zenon
      <4> QED
        BY <4>1
    <3> DEFINE r2 == Append(leader_returns[l], price - last_price[l])
    <3>6. leader_returns'[l] = Latest(r2, CorrWindow)
      BY <3>5 DEF LeaderPriced, FilterTypeOK
    <3>7. MovesOf(c2, r2)
      BY <1>1, <3>1, <3>2, <3>3, MovesGrow
    <3>8. r2 \in Seq(Int) /\ Len(c2) = (n + 1) + 1 /\ n + 1 \in Nat /\ CorrWindow \in Nat
      BY <1>1, <3>2, <3>5
    <3> HIDE DEF c2, r2
    <3> QED
      BY <1>4, <1>5, <3>6, <3>7, <3>8, MovesSlide
  <2> QED
    BY <2>1, <2>2
<1>7. closes' \in [Leaders -> Seq(LogPrices)]
  BY <1>2, <1>5 DEF WindowInv
<1>8. \A k \in Leaders : IF closes'[k] = <<>> THEN last_price'[k] = NoClose /\ leader_returns'[k] = <<>>
                         ELSE /\ last_price'[k] = closes'[k][Len(closes'[k])]
                              /\ MovesOf(closes'[k], leader_returns'[k])
  <2> HIDE DEF c2
  <2>1. \A k \in Leaders \ {l} :
          IF closes'[k] = <<>> THEN last_price'[k] = NoClose /\ leader_returns'[k] = <<>>
          ELSE /\ last_price'[k] = closes'[k][Len(closes'[k])]
               /\ MovesOf(closes'[k], leader_returns'[k])
    BY <1>3 DEF WindowInv
  <2> QED
    BY <1>5, <1>6, <2>1
<1> QED
  BY <1>7, <1>8 DEF WindowInv, MovesOf

(* What the sums over a window are.                                        *)
LEMMA NetIs ==
  ASSUME NEW l, IsFiniteSet(DOMAIN leader_returns[l])
  PROVE  \E f : /\ Sums(leader_returns[l], DOMAIN leader_returns[l], f)
                /\ Net(l) = f[DOMAIN leader_returns[l]]
<1>1. PICK f : Sums(leader_returns[l], DOMAIN leader_returns[l], f)
  BY SumExists
<1> QED
  BY <1>1, Zenon DEF Sums, SumStep, Net, SumOf, MapThenSumSet, MapThenFoldSet

(* A step of a sum of sizes, written with the operator the fold applies.   *)
AbsStep(r, f, s) ==
  IF s = {} THEN 0 ELSE AbsOf(r[CHOOSE x \in s : TRUE]) + f[s \ {CHOOSE x \in s : TRUE}]

LEMMA AbsSumIs ==
  ASSUME NEW r, IsFiniteSet(DOMAIN r), NEW v, v = [k \in DOMAIN r |-> AbsOf(r[k])]
  PROVE  \E f : Sums(v, DOMAIN r, f) /\ SumOf(AbsOf, r) = f[DOMAIN r]
<1>1. ASSUME NEW f, NEW s \in SUBSET (DOMAIN r) PROVE SumStep(v, f, s) = AbsStep(r, f, s)
  <2>1. s # {} => (CHOOSE x \in s : TRUE) \in DOMAIN r
    OBVIOUS
  <2> QED
    BY <2>1 DEF SumStep, AbsStep
<1>2. \A f : [s \in SUBSET (DOMAIN r) |-> SumStep(v, f, s)] = [s \in SUBSET (DOMAIN r) |-> AbsStep(r, f, s)]
  BY <1>1
<1>3. PICK f : Sums(v, DOMAIN r, f)
  BY SumExists
<1>4. f = [s \in SUBSET (DOMAIN r) |-> AbsStep(r, f, s)]
  BY <1>2, <1>3 DEF Sums
<1>5. PICK g : g = [s \in SUBSET (DOMAIN r) |-> AbsStep(r, g, s)] /\ SumOf(AbsOf, r) = g[DOMAIN r]
  BY <1>4, Zenon DEF AbsStep, SumOf, MapThenSumSet, MapThenFoldSet
<1> QED
  BY <1>2, <1>5 DEF Sums

RiseOf(m) == IF m > 0 THEN m ELSE 0
FallOf(m) == IF m < 0 THEN -m ELSE 0

RiseStep(r, f, s) ==
  IF s = {} THEN 0 ELSE RiseOf(r[CHOOSE x \in s : TRUE]) + f[s \ {CHOOSE x \in s : TRUE}]

LEMMA RiseSumIs ==
  ASSUME NEW r, IsFiniteSet(DOMAIN r), NEW v, v = [k \in DOMAIN r |-> RiseOf(r[k])]
  PROVE  \E f : Sums(v, DOMAIN r, f) /\ SumOf(LAMBDA m : IF m > 0 THEN m ELSE 0, r) = f[DOMAIN r]
<1>1. ASSUME NEW f, NEW s \in SUBSET (DOMAIN r) PROVE SumStep(v, f, s) = RiseStep(r, f, s)
  <2>1. s # {} => (CHOOSE x \in s : TRUE) \in DOMAIN r
    OBVIOUS
  <2> QED
    BY <2>1 DEF SumStep, RiseStep
<1>2. \A f : [s \in SUBSET (DOMAIN r) |-> SumStep(v, f, s)] = [s \in SUBSET (DOMAIN r) |-> RiseStep(r, f, s)]
  BY <1>1
<1>3. PICK f : Sums(v, DOMAIN r, f)
  BY SumExists
<1>4. f = [s \in SUBSET (DOMAIN r) |-> RiseStep(r, f, s)]
  BY <1>2, <1>3 DEF Sums
<1>5. PICK g : g = [s \in SUBSET (DOMAIN r) |-> RiseStep(r, g, s)]
               /\ SumOf(LAMBDA m : IF m > 0 THEN m ELSE 0, r) = g[DOMAIN r]
  BY <1>4, Zenon DEF RiseStep, RiseOf, SumOf, MapThenSumSet, MapThenFoldSet
<1> QED
  BY <1>2, <1>5 DEF Sums

FallStep(r, f, s) ==
  IF s = {} THEN 0 ELSE FallOf(r[CHOOSE x \in s : TRUE]) + f[s \ {CHOOSE x \in s : TRUE}]

LEMMA FallSumIs ==
  ASSUME NEW r, IsFiniteSet(DOMAIN r), NEW v, v = [k \in DOMAIN r |-> FallOf(r[k])]
  PROVE  \E f : Sums(v, DOMAIN r, f) /\ SumOf(LAMBDA m : IF m < 0 THEN -m ELSE 0, r) = f[DOMAIN r]
<1>1. ASSUME NEW f, NEW s \in SUBSET (DOMAIN r) PROVE SumStep(v, f, s) = FallStep(r, f, s)
  <2>1. s # {} => (CHOOSE x \in s : TRUE) \in DOMAIN r
    OBVIOUS
  <2> QED
    BY <2>1 DEF SumStep, FallStep
<1>2. \A f : [s \in SUBSET (DOMAIN r) |-> SumStep(v, f, s)] = [s \in SUBSET (DOMAIN r) |-> FallStep(r, f, s)]
  BY <1>1
<1>3. PICK f : Sums(v, DOMAIN r, f)
  BY SumExists
<1>4. f = [s \in SUBSET (DOMAIN r) |-> FallStep(r, f, s)]
  BY <1>2, <1>3 DEF Sums
<1>5. PICK g : g = [s \in SUBSET (DOMAIN r) |-> FallStep(r, g, s)]
               /\ SumOf(LAMBDA m : IF m < 0 THEN -m ELSE 0, r) = g[DOMAIN r]
  BY <1>4, Zenon DEF FallStep, FallOf, SumOf, MapThenSumSet, MapThenFoldSet
<1> QED
  BY <1>2, <1>5 DEF Sums

(***************************************************************************)
(* What the filter adds up.                                                *)
(***************************************************************************)
LEMMA WindowFacts ==
  ASSUME FilterTypeOK, WindowInv, NEW l \in Leaders, closes[l] # <<>>
  PROVE  \E n \in Nat :
           /\ Len(closes[l]) = n + 1 /\ Len(leader_returns[l]) = n /\ DOMAIN leader_returns[l] = 1..n
           /\ \A k \in 1..n + 1 : closes[l][k] \in Int
           /\ \A k \in 1..n : leader_returns[l][k] = closes[l][k + 1] - closes[l][k]
<1>1. closes[l] \in Seq(LogPrices) /\ leader_returns[l] \in Seq(Int)
      /\ MovesOf(closes[l], leader_returns[l])
  BY DEF WindowInv, FilterTypeOK
<1>2. PICK n \in Nat : Len(closes[l]) = n + 1
  <2>1. Len(closes[l]) \in Nat /\ Len(closes[l]) # 0
    BY <1>1, EmptySeq
  <2>2. Len(closes[l]) - 1 \in Nat
    BY <2>1
  <2> QED
    BY <2>1, <2>2
<1>3. Len(leader_returns[l]) = n
      /\ \A k \in 1..n : leader_returns[l][k] = closes[l][k + 1] - closes[l][k]
  BY <1>1, <1>2 DEF MovesOf
<1>4. DOMAIN leader_returns[l] = 1..n
  BY <1>1, <1>3, LenProperties
<1>5. ASSUME NEW k \in 1..n + 1 PROVE closes[l][k] \in Int
  <2>1. closes[l][k] \in LogPrices
    BY <1>1, <1>2, ElementOfSeq
  <2> QED
    BY <2>1, FilterAssumption, Zenon
<1> QED
  BY <1>2, <1>3, <1>4, <1>5

LEMMA NetIsMove ==
  ASSUME FilterTypeOK, WindowInv, NEW l \in Leaders, closes[l] # <<>>
  PROVE  /\ Len(leader_returns[l]) = Len(closes[l]) - 1
         /\ Net(l) = closes[l][Len(closes[l])] - closes[l][1]
<1>1. PICK n \in Nat :
        /\ Len(closes[l]) = n + 1 /\ Len(leader_returns[l]) = n /\ DOMAIN leader_returns[l] = 1..n
        /\ \A k \in 1..n + 1 : closes[l][k] \in Int
        /\ \A k \in 1..n : leader_returns[l][k] = closes[l][k + 1] - closes[l][k]
  BY WindowFacts
<1>2. IsFiniteSet(DOMAIN leader_returns[l])
  BY <1>1, FS_Interval
<1>3. PICK f : Sums(leader_returns[l], 1..n, f) /\ Net(l) = f[1..n]
  BY <1>1, <1>2, NetIs
<1>4. f[1..n] = closes[l][n + 1] - closes[l][1]
  <2>1. IntTerms(closes[l], 1..n + 1) /\ MoveTerms(closes[l], leader_returns[l], n)
    BY <1>1 DEF IntTerms, MoveTerms
  <2> QED
    BY <1>3, <2>1, SumTelescopes
<1> QED
  BY <1>1, <1>3, <1>4

(* A leader that breaks down closed below the start of its window, and its *)
(* rises gave back less than the trendiness limit leaves.                  *)
LEMMA FallOutweighs ==
  ASSUME FilterTypeOK, WindowInv, NEW l \in Leaders, BreaksDown(l)
  PROVE  LET c == closes[l]
             moves == [k \in 1..(Len(c) - 1) |-> c[k + 1] - c[k]]
             rises == SumOf(LAMBDA m : IF m > 0 THEN m ELSE 0, moves)
             falls == SumOf(LAMBDA m : IF m < 0 THEN -m ELSE 0, moves)
         IN  /\ Len(c) > 1 /\ c[Len(c)] < c[1]
             /\ (100 - TrendinessMaxPct) * falls > (100 + TrendinessMaxPct) * rises
<1> DEFINE c == closes[l]
           r == leader_returns[l]
           moves == [k \in 1..(Len(c) - 1) |-> c[k + 1] - c[k]]
           rises == SumOf(LAMBDA m : IF m > 0 THEN m ELSE 0, moves)
           falls == SumOf(LAMBDA m : IF m < 0 THEN -m ELSE 0, moves)
<1>1. closes[l] # <<>>
  <2> SUFFICES ASSUME closes[l] = <<>> PROVE FALSE
    OBVIOUS
  <2>1. DOMAIN leader_returns[l] = {}
    BY DEF WindowInv
  <2>2. PICK f : Sums(leader_returns[l], {}, f) /\ Net(l) = f[{}]
    BY <2>1, NetIs, FS_EmptySet
  <2>3. f[{}] = 0
    BY <2>2 DEF Sums, SumStep
  <2> QED
    BY <2>2, <2>3 DEF BreaksDown
<1>2. PICK n \in Nat :
        /\ Len(c) = n + 1 /\ Len(r) = n /\ DOMAIN r = 1..n
        /\ \A k \in 1..n + 1 : c[k] \in Int
        /\ \A k \in 1..n : r[k] = c[k + 1] - c[k]
  BY <1>1, WindowFacts
<1>3. r = moves
  <2>1. r = [k \in 1..n |-> r[k]]
    <3>1. r \in Seq(Int)
      BY DEF FilterTypeOK
    <3>2. r \in [1..Len(r) -> Int]
      BY <3>1, LenProperties
    <3> QED
      BY <1>2, <3>2
  <2>2. moves = [k \in 1..n |-> c[k + 1] - c[k]]
    BY <1>2
  <2> HIDE DEF r, moves, c
  <2> QED
    BY <1>2, <2>1, <2>2
<1>4. IsFiniteSet(DOMAIN r) /\ \A k \in 1..n : r[k] \in Int
  <2>1. \A k \in 1..n : k \in 1..n + 1 /\ k + 1 \in 1..n + 1
    OBVIOUS
  <2>2. IsFiniteSet(1..n)
    BY FS_Interval
  <2> HIDE DEF r, c
  <2> QED
    BY <1>2, <2>1, <2>2
<1> DEFINE abs == [k \in DOMAIN r |-> AbsOf(r[k])]
           up == [k \in DOMAIN r |-> RiseOf(r[k])]
           down == [k \in DOMAIN r |-> FallOf(r[k])]
<1>5. PICK f : Sums(abs, DOMAIN r, f) /\ SumOf(AbsOf, r) = f[DOMAIN r]
  BY <1>4, AbsSumIs
<1>6. PICK g : Sums(up, DOMAIN r, g) /\ SumOf(LAMBDA m : IF m > 0 THEN m ELSE 0, r) = g[DOMAIN r]
  BY <1>4, RiseSumIs
<1>7. PICK h : Sums(down, DOMAIN r, h) /\ SumOf(LAMBDA m : IF m < 0 THEN -m ELSE 0, r) = h[DOMAIN r]
  BY <1>4, FallSumIs
<1>8. PICK e : Sums(r, DOMAIN r, e) /\ Net(l) = e[DOMAIN r]
  BY <1>4, NetIs
<1>9. /\ IntTerms(abs, DOMAIN r) /\ IntTerms(up, DOMAIN r) /\ IntTerms(down, DOMAIN r)
      /\ IntTerms(r, DOMAIN r)
      /\ AddTerms(abs, up, down, DOMAIN r) /\ AddTerms(up, r, down, DOMAIN r)
  <2> HIDE DEF r
  <2> QED
    BY <1>2, <1>4 DEF IntTerms, AddTerms, AbsOf, RiseOf, FallOf
<1> HIDE DEF abs, up, down
<1>10. PICK D : D = DOMAIN r /\ IsFiniteSet(D)
  BY <1>4
<1>11. f[D] = g[D] + h[D] /\ g[D] = e[D] + h[D]
  <2> HIDE DEF r
  <2>1. Sums(abs, D, f) /\ Sums(up, D, g) /\ Sums(down, D, h) /\ Sums(r, D, e)
    BY <1>5, <1>6, <1>7, <1>8, <1>10
  <2>2. IntTerms(abs, D) /\ IntTerms(up, D) /\ IntTerms(down, D) /\ IntTerms(r, D)
    BY <1>9, <1>10
  <2>3. AddTerms(abs, up, down, D) /\ AddTerms(up, r, down, D)
    BY <1>9, <1>10
  <2>4. f[D] = g[D] + h[D]
    BY <1>10, <2>1, <2>2, <2>3, SumsAdd
  <2>5. g[D] = e[D] + h[D]
    BY <1>10, <2>1, <2>2, <2>3, SumsAdd
  <2> QED
    BY <2>4, <2>5
<1>12. g[DOMAIN r] \in Int /\ h[DOMAIN r] \in Int /\ e[DOMAIN r] \in Int
  <2>1. Adds(up, DOMAIN r, g) /\ Adds(down, DOMAIN r, h) /\ Adds(r, DOMAIN r, e)
    BY <1>4, <1>6, <1>7, <1>8, <1>9, SumIs
  <2> QED
    BY <2>1 DEF Adds
<1>13. /\ rises \in Int /\ falls \in Int /\ Net(l) \in Int
       /\ Gross(l) = rises + falls /\ rises = Net(l) + falls
  <2>1. rises = g[DOMAIN r] /\ falls = h[DOMAIN r]
    BY <1>3, <1>6, <1>7
  <2>2. Gross(l) = f[DOMAIN r]
    BY <1>5 DEF Gross
  <2> QED
    BY <1>8, <1>10, <1>11, <1>12, <2>1, <2>2
<1>14. /\ Net(l) < 0 /\ 100 * AbsOf(Net(l)) > TrendinessMaxPct * Gross(l)
       /\ TrendinessMaxPct \in Int
  BY FilterAssumption DEF BreaksDown
<1>15. Net(l) = c[Len(c)] - c[1]
  BY <1>1, NetIsMove
<1>16. Len(c) > 1 /\ c[Len(c)] < c[1]
  <2>1. c[n + 1] \in Int /\ c[1] \in Int /\ c[n + 1] - c[1] < 0
    BY <1>2, <1>14, <1>15
  <2> QED
    BY <1>2, <2>1
<1> HIDE DEF rises, falls
<1>17. (100 - TrendinessMaxPct) * falls > (100 + TrendinessMaxPct) * rises
  <2>1. AbsOf(Net(l)) = falls - rises
    BY <1>13, <1>14 DEF AbsOf
  <2>2. \A T, a, b \in Int : 100 * (b - a) > T * (a + b) => (100 - T) * b > (100 + T) * a
    OBVIOUS
  <2> QED
    BY <1>13, <1>14, <2>1, <2>2
<1> QED
  BY <1>16, <1>17 DEF rises, falls

(* The returns are always those between the closes kept: a slide of the    *)
(* window drops the oldest of both.                                        *)
LEMMA WindowInvariant == Spec => [](TypeOK /\ WindowInv)
<1>1. Init => WindowInv
  BY DEF Init, FilterInit, WindowInv
<1>2. TypeOK /\ WindowInv /\ [Next]_vars => WindowInv'
  <2> SUFFICES ASSUME TypeOK, WindowInv, [Next]_vars PROVE WindowInv'
    OBVIOUS
  <2>1. CASE LeaderClose
    BY <2>1, LeaderPricedKeeps DEF LeaderClose, TypeOK
  <2>2. CASE Sample \/ UNCHANGED vars
    <3>1. UNCHANGED filterVars
      BY <2>2 DEF Sample, vars
    <3> QED
      BY <3>1 DEF filterVars, WindowInv, MovesOf
  <2> QED
    BY <2>1, <2>2 DEF Next
<1> QED
  BY <1>1, <1>2, TypeCorrect, PTL DEF Spec

(* The window of returns adds up to the leader's move over the window, for *)
(* a window of any length and any number of closes (on_leader_price).      *)
THEOREM WindowTheorem == Spec => []WindowIsMove
<1>1. TypeOK /\ WindowInv => WindowIsMove
  BY NetIsMove DEF WindowIsMove, TypeOK
<1> QED
  BY <1>1, WindowInvariant, PTL

(* A halt of the leader filter means a fall of a leader: below the start   *)
(* of its window, and in one direction (_breakdown).                       *)
THEOREM HaltTheorem == Spec => []HaltMeansFall
<1>1. TypeOK /\ WindowInv => HaltMeansFall
  BY FallOutweighs DEF HaltMeansFall, Breakdown, TypeOK
<1> QED
  BY <1>1, WindowInvariant, PTL
=============================================================================
