------------------------ MODULE PumpFunOrdersProofs ------------------------
(***************************************************************************)
(* Proofs about PumpFunOrders: for any set of orders and of tokens, any    *)
(* time to live, timeout, patience and number of attempts, with any number *)
(* of orders screening, queueing and sending at a time.                    *)
(***************************************************************************)
EXTENDS PumpFunOrders, FiniteSetTheorems, TLAPS

(***************************************************************************)
(* The inductive invariant.                                                *)
(***************************************************************************)

(* Who sweeps a token holds its lock, and stands first in its queue.       *)
SweeperHolds == \A t \in Orders : Sweeping(t) => Holds(t)

(* How long ago a token that reads as clean can have turned: by the chain  *)
(* itself, by a sweep under way, by a cached report.                       *)
ReportsAge ==
  /\ \A m \in Mints : ~dirty[m] => clean_age[m] = 0
  /\ \A t \in Orders : stage[t] = "report" /\ ~sweep[t].toxic
       => clean_age[MintOf[t]] <= sweep[t].age
  /\ \A m \in Mints : Fresh(m) /\ cache[m].tradeable
       => clean_age[m] <= cache[m].age + Timeout

ScreenInv == ScreenTypes /\ SweeperHolds /\ ReportsAge

(* An order has no verdict before its screen is over.                      *)
Unanswered ==
  \A t \in Orders : swap[t].phase \in {"idle", "screening"} => verdict[t] = "none"

(* The age of the verdict a buy under way was sent on.                     *)
BuysAge ==
  \A t \in Orders : Sending(t) /\ swap[t].side = "buy"
    => clean_age[MintOf[t]] < Ttl + Timeout + (swap[t].attempt - 1) * Patience + swap[t].waited

(* One transaction is signed for an order, before its first attempt.       *)
SignedOnce ==
  /\ \A t \in Orders : Sending(t) => swap[t].signed = 1 /\ swap[t].attempt \in 1..Tries
  /\ \A r \in requests : r[3] = 1
  /\ \A tx \in accepted : tx[2] = 1

(* What was sent was sent by an attempt, and what was accepted was sent.   *)
OnTheWire(t) == (\E r \in requests : r[1] = t) \/ (\E tx \in accepted : tx[1] = t)

SentByAttempt ==
  /\ \A t \in Orders : OnTheWire(t) => swap[t].phase \in {"sending", "ok", "error", "raised"}
  /\ \A t \in Orders : OnTheWire(t) => swap[t].attempt > 0
  /\ \A r \in requests : r[2] <= swap[r[1]].attempt

(* The only attempt of an order is answered once: while its request is on  *)
(* its way nothing was accepted, and when it was refused nothing is left.  *)
AnsweredOnce ==
  \A t \in Orders : swap[t].attempt = 1 =>
    /\ (\E r \in requests : r[1] = t) => ~\E tx \in accepted : tx[1] = t
    /\ swap[t].phase = "error" => ~OnTheWire(t)

(* The types of what the adapter itself keeps, beside those of the screen. *)
Progress ==
  [side : {"none", "buy", "sell"},
   phase : {"idle", "screening", "sending", "ok", "error", "blocked", "raised"},
   attempt : 0..Tries, signed : 0..Tries, waited : 0..Patience]

WireTypes ==
  /\ swap \in [Orders -> Progress]
  /\ requests \subseteq Orders \X (1..Tries) \X (1..Tries)
  /\ landed \subseteq accepted /\ accepted \subseteq Orders \X (1..Tries)

WireInv == WireTypes /\ SignedOnce /\ SentByAttempt /\ AnsweredOnce

SwapIInv == ScreenInv /\ Unanswered /\ BuysAge /\ WireInv

(***************************************************************************)
(* The screen.                                                             *)
(***************************************************************************)
ScreenMoves(t) ==
  \/ ScreenFromCache(t) \/ ScreenLocks(t) \/ WakeSatisfied(t) \/ WakeSweeps(t)
  \/ ChainRead(t) \/ SweepEnds(t) \/ SweepRaises(t)

LEMMA AppendToQueue ==
  ASSUME NEW S, NEW q \in Seq(S), NEW x \in S
  PROVE  /\ Append(q, x) \in Seq(S) /\ Append(q, x) # <<>>
         /\ q # <<>> => Head(Append(q, x)) = Head(q)
         /\ q = <<>> => Head(Append(q, x)) = x
<1>1. /\ Append(q, x) \in Seq(S) /\ Len(Append(q, x)) = Len(q) + 1 /\ Len(q) \in Nat
      /\ Append(q, x)[Len(q) + 1] = x
      /\ \A i \in 1..Len(q) : Append(q, x)[i] = q[i]
  OBVIOUS
<1>2. q # <<>> => 1 \in 1..Len(q)
  OBVIOUS
<1>3. q = <<>> => Len(q) = 0
  OBVIOUS
<1> QED
  BY <1>1, <1>2, <1>3

(* A step of one screen moves that order only.                             *)
LEMMA ScreenTouchesOne ==
  ASSUME ScreenTypes, NEW t \in Orders, ScreenMoves(t)
  PROVE  /\ stage' \in [Orders -> {"out", "waiting", "queries", "report"}]
         /\ verdict' \in [Orders -> {"none", "tradeable", "toxic", "raised"}]
         /\ sweep' \in [Orders -> [toxic : BOOLEAN, age : 0..Timeout]]
         /\ \A u \in Orders : u # t => /\ stage'[u] = stage[u] /\ sweep'[u] = sweep[u]
                                       /\ verdict'[u] = verdict[u]
         /\ UNCHANGED <<dirty, clean_age>>
<1>1. Timeout \in Nat /\ NoSweep \in [toxic : BOOLEAN, age : 0..Timeout]
  BY ScreenAssumption DEF NoSweep
<1>2. ASSUME NEW outcome \in {"tradeable", "toxic", "raised"}, Leave(t, outcome)
      PROVE  /\ stage' \in [Orders -> {"out", "waiting", "queries", "report"}]
             /\ verdict' \in [Orders -> {"none", "tradeable", "toxic", "raised"}]
             /\ sweep' \in [Orders -> [toxic : BOOLEAN, age : 0..Timeout]]
             /\ \A u \in Orders : u # t => /\ stage'[u] = stage[u] /\ sweep'[u] = sweep[u]
                                           /\ verdict'[u] = verdict[u]
  BY <1>1, <1>2 DEF Leave, ScreenTypes
<1>3. ASSUME NEW next \in {"waiting", "queries", "report"}, Reach(t, next)
      PROVE  /\ stage' \in [Orders -> {"out", "waiting", "queries", "report"}]
             /\ verdict' \in [Orders -> {"none", "tradeable", "toxic", "raised"}]
             /\ \A u \in Orders : u # t => stage'[u] = stage[u] /\ verdict'[u] = verdict[u]
  BY <1>3 DEF Reach, ScreenTypes
<1>4. \A report : Outcome(report) \in {"tradeable", "toxic", "raised"}
  BY DEF Outcome
<1>5. CASE ScreenFromCache(t)
  BY <1>2, <1>4, <1>5 DEF ScreenFromCache, Chain
<1>6. CASE ScreenLocks(t)
  <2>1. (IF lock[MintOf[t]] = <<>> THEN "queries" ELSE "waiting") \in {"waiting", "queries", "report"}
    OBVIOUS
  <2> QED
    BY <2>1, <1>3, <1>6 DEF ScreenLocks, Chain, ScreenTypes
<1>7. CASE WakeSatisfied(t)
  BY <1>2, <1>4, <1>7 DEF WakeSatisfied, Chain
<1>8. CASE WakeSweeps(t)
  BY <1>3, <1>8 DEF WakeSweeps, Chain, ScreenTypes
<1>9. CASE ChainRead(t)
  <2>1. [toxic |-> dirty[MintOf[t]], age |-> 0] \in [toxic : BOOLEAN, age : 0..Timeout]
    BY <1>1, ScreenAssumption DEF ScreenTypes
  <2>2. /\ sweep' \in [Orders -> [toxic : BOOLEAN, age : 0..Timeout]]
        /\ \A u \in Orders : u # t => sweep'[u] = sweep[u]
    BY <2>1, <1>9 DEF ChainRead, ScreenTypes
  <2> QED
    BY <2>2, <1>3, <1>9 DEF ChainRead, Chain
<1>10. CASE SweepEnds(t)
  BY <1>2, <1>4, <1>10 DEF SweepEnds, Chain
<1>11. CASE SweepRaises(t)
  BY <1>2, <1>11 DEF SweepRaises, Chain
<1> QED
  BY <1>5, <1>6, <1>7, <1>8, <1>9, <1>10, <1>11 DEF ScreenMoves

(* Only the queue of its own token is changed, by the order at its end or  *)
(* the one at its head.                                                    *)
LEMMA QueueKeeps ==
  ASSUME ScreenInv, NEW t \in Orders, ScreenMoves(t)
  PROVE  lock' \in [Mints -> Seq(Orders)] /\ SweeperHolds'
<1> USE DEF ScreenInv
<1> DEFINE m == MintOf[t]
<1>1. /\ m \in Mints /\ lock \in [Mints -> Seq(Orders)] /\ lock[m] \in Seq(Orders)
      /\ \A u \in Orders : MintOf[u] \in Mints
  BY ScreenAssumption DEF ScreenTypes
<1>2. /\ stage' \in [Orders -> {"out", "waiting", "queries", "report"}]
      /\ \A u \in Orders : u # t => stage'[u] = stage[u]
      /\ stage \in [Orders -> {"out", "waiting", "queries", "report"}]
  BY ScreenTouchesOne DEF ScreenTypes
<1>3. \A u \in Orders : Sweeping(u) => Holds(u)
  BY DEF SweeperHolds
<1>4. CASE UNCHANGED lock /\ (stage'[t] \in {"queries", "report"} => Holds(t))
  BY <1>1, <1>2, <1>3, <1>4 DEF SweeperHolds, Sweeping, Holds
<1>5. CASE lock' = [lock EXCEPT ![m] = Tail(@)] /\ Holds(t) /\ stage'[t] = "out"
  <2>1. lock' \in [Mints -> Seq(Orders)]
    BY <1>1, <1>5 DEF Holds
  <2>2. ASSUME NEW u \in Orders, Sweeping(u)' PROVE Holds(u)'
    <3>1. u # t /\ Sweeping(u) /\ Holds(u)
      BY <1>2, <1>3, <1>5, <2>2 DEF Sweeping
    <3>2. MintOf[u] # m
      BY <3>1, <1>5 DEF Holds
    <3> QED
      BY <1>1, <1>5, <3>1, <3>2 DEF Holds
  <2> QED
    BY <2>1, <2>2 DEF SweeperHolds
<1>6. CASE ScreenLocks(t)
  <2> DEFINE q == Append(lock[m], t)
  <2>1. /\ q \in Seq(Orders) /\ q # <<>> /\ (lock[m] # <<>> => Head(q) = Head(lock[m]))
        /\ (lock[m] = <<>> => Head(q) = t)
    BY <1>1, AppendToQueue
  <2>2. lock' = [lock EXCEPT ![m] = q]
    BY <1>6 DEF ScreenLocks
  <2> HIDE DEF q
  <2>3. lock' \in [Mints -> Seq(Orders)] /\ lock'[m] = q /\ \A n \in Mints : n # m => lock'[n] = lock[n]
    BY <1>1, <2>1, <2>2
  <2>4. ASSUME NEW u \in Orders, u # t, Sweeping(u)' PROVE Holds(u)'
    <3>1. Holds(u)
      BY <1>2, <1>3, <2>4 DEF Sweeping
    <3> QED
      BY <1>1, <2>1, <2>3, <3>1 DEF Holds
  <2>5. ASSUME Sweeping(t)' PROVE Holds(t)'
    <3>1. lock[m] = <<>>
      BY <1>2, <1>6, <2>5 DEF ScreenLocks, Reach, Sweeping, ScreenTypes
    <3> QED
      BY <2>1, <2>3, <3>1 DEF Holds
  <2> QED
    BY <2>3, <2>4, <2>5 DEF SweeperHolds
<1>7. CASE ScreenFromCache(t)
  BY <1>2, <1>4, <1>7 DEF ScreenFromCache, Leave, ScreenTypes
<1>8. CASE WakeSatisfied(t)
  BY <1>5, <1>8 DEF WakeSatisfied, Woken, Release, Leave, ScreenTypes
<1>9. CASE WakeSweeps(t)
  BY <1>4, <1>9 DEF WakeSweeps, Woken
<1>10. CASE ChainRead(t)
  BY <1>3, <1>4, <1>10 DEF ChainRead, Sweeping
<1>11. CASE SweepEnds(t) \/ SweepRaises(t)
  BY <1>3, <1>5, <1>11 DEF SweepEnds, SweepRaises, Release, Leave, Sweeping, ScreenTypes
<1> QED
  BY <1>6, <1>7, <1>8, <1>9, <1>10, <1>11 DEF ScreenMoves

LEMMA CacheKeeps ==
  ASSUME ScreenInv, NEW t \in Orders, ScreenMoves(t)
  PROVE  cache' \in [Mints -> Reports] /\ ReportsAge'
<1> USE DEF ScreenInv
<1> DEFINE m == MintOf[t]
<1>1. /\ m \in Mints /\ \A u \in Orders : MintOf[u] \in Mints
      /\ Ttl \in Nat \ {0} /\ Timeout \in Nat \ {0} /\ MaxAge \in Nat
      /\ cache \in [Mints -> Reports] /\ clean_age \in [Mints -> Ages]
      /\ dirty \in [Mints -> BOOLEAN]
      /\ sweep \in [Orders -> [toxic : BOOLEAN, age : 0..Timeout]]
  BY ScreenAssumption DEF ScreenTypes
<1>2. /\ UNCHANGED <<dirty, clean_age>>
      /\ stage' \in [Orders -> {"out", "waiting", "queries", "report"}]
      /\ \A u \in Orders : u # t => stage'[u] = stage[u] /\ sweep'[u] = sweep[u]
  BY ScreenTouchesOne
<1>3. CASE SweepEnds(t)
  <2> DEFINE report == [tradeable |-> ~sweep[t].toxic, age |-> 0]
  <2>1. /\ stage[t] = "report" /\ cache' = [cache EXCEPT ![m] = report] /\ stage'[t] = "out"
    BY <1>3 DEF SweepEnds, Leave, ScreenTypes
  <2>2. report \in Reports
    BY <1>1 DEF Reports
  <2>3. cache'[m] = report /\ \A n \in Mints : n # m => cache'[n] = cache[n]
    BY <1>1, <2>1
  <2>4. ~sweep[t].toxic => clean_age[m] <= Timeout
    BY <1>1, <2>1 DEF ReportsAge, Ages
  <2>5. cache' \in [Mints -> Reports]
    BY <1>1, <2>1, <2>2
  <2>6. \A n \in Mints : ~dirty'[n] => clean_age'[n] = 0
    BY <1>2 DEF ReportsAge
  <2>7. \A u \in Orders : stage'[u] = "report" /\ ~sweep'[u].toxic
          => clean_age'[MintOf[u]] <= sweep'[u].age
    BY <1>2, <2>1 DEF ReportsAge
  <2>8. \A n \in Mints : Fresh(n)' /\ cache'[n].tradeable
          => clean_age'[n] <= cache'[n].age + Timeout
    <3> SUFFICES ASSUME NEW n \in Mints, Fresh(n)', cache'[n].tradeable
                 PROVE  clean_age'[n] <= cache'[n].age + Timeout
      OBVIOUS
    <3>1. CASE n = m
      <4>1. cache'[n] = report /\ report.age = 0
        BY <2>3, <3>1
      <4>2. report.tradeable = ~sweep[t].toxic
        BY Zenon
      <4>3. ~sweep[t].toxic
        BY <3>1, <4>1, <4>2, Zenon
      <4>4. clean_age[m] <= Timeout
        BY <2>4, <4>3
      <4> HIDE DEF report
      <4> QED
        BY <1>1, <1>2, <3>1, <4>1, <4>4 DEF Ages
    <3>2. CASE n # m
      BY <1>2, <2>3, <3>2 DEF ReportsAge, Fresh
    <3> QED
      BY <3>1, <3>2
  <2> QED
    BY <2>5, <2>6, <2>7, <2>8 DEF ReportsAge
<1>4. CASE ChainRead(t)
  <2>1. /\ UNCHANGED cache /\ sweep'[t] = [toxic |-> dirty[m], age |-> 0]
    BY <1>1, <1>4 DEF ChainRead
  <2>2. ~dirty[m] => clean_age[m] = 0
    BY <1>1 DEF ReportsAge
  <2>3. \A u \in Orders : stage'[u] = "report" /\ ~sweep'[u].toxic
          => clean_age'[MintOf[u]] <= sweep'[u].age
    BY <1>1, <1>2, <2>1, <2>2 DEF ReportsAge
  <2> QED
    BY <1>1, <1>2, <2>1, <2>3 DEF ReportsAge, Fresh
<1>5. CASE UNCHANGED cache /\ stage'[t] # "report"
  BY <1>1, <1>2, <1>5 DEF ReportsAge, Fresh
<1> QED
  BY <1>3, <1>4, <1>5, <1>1
     DEF ScreenMoves, ScreenFromCache, ScreenLocks, WakeSatisfied, WakeSweeps, SweepRaises,
         Leave, Reach, ScreenTypes

LEMMA ScreenKeeps ==
  ASSUME ScreenInv, NEW t \in Orders, ScreenMoves(t)
  PROVE  ScreenInv'
BY ScreenTouchesOne, QueueKeeps, CacheKeeps DEF ScreenInv, ScreenTypes

(* A verdict of "tradeable" is at most a time to live and one query old.   *)
LEMMA VerdictAge ==
  ASSUME ScreenInv, NEW t \in Orders, ScreenMoves(t), verdict[t] = "none",
         verdict'[t] = "tradeable"
  PROVE  clean_age[MintOf[t]] < Ttl + Timeout
<1> USE DEF ScreenInv
<1> DEFINE m == MintOf[t]
<1>1. /\ m \in Mints /\ Ttl \in Nat \ {0} /\ Timeout \in Nat \ {0}
      /\ cache[m] \in Reports /\ clean_age[m] \in Int
      /\ sweep[t] \in [toxic : BOOLEAN, age : 0..Timeout]
  BY ScreenAssumption DEF ScreenTypes, Ages
<1>2. verdict \in [Orders -> {"none", "tradeable", "toxic", "raised"}]
  BY DEF ScreenTypes
<1>3. CASE ScreenFromCache(t) \/ WakeSatisfied(t)
  <2>1. Fresh(m) /\ cache[m].tradeable
    BY <1>2, <1>3 DEF ScreenFromCache, WakeSatisfied, Leave, Outcome
  <2> QED
    BY <1>1, <2>1 DEF ReportsAge, Fresh, Reports
<1>4. CASE SweepEnds(t)
  <2>1. stage[t] = "report" /\ ~sweep[t].toxic
    BY <1>2, <1>4 DEF SweepEnds, Leave, Outcome
  <2> QED
    BY <1>1, <2>1 DEF ReportsAge
<1>5. CASE SweepRaises(t)
  BY <1>2, <1>5 DEF SweepRaises, Leave
<1>6. CASE ScreenLocks(t) \/ WakeSweeps(t) \/ ChainRead(t)
  BY <1>6 DEF ScreenLocks, WakeSweeps, ChainRead, Reach
<1> QED
  BY <1>3, <1>4, <1>5, <1>6 DEF ScreenMoves

(* A sweep is begun by who finds the queue empty or stands at its head, so *)
(* by no other than the only one who may.                                  *)
LEMMA SweepBegins ==
  ASSUME ScreenInv, NEW t \in Orders, ScreenMoves(t), NEW u \in Orders,
         ~Sweeping(u), Sweeping(u)'
  PROVE  /\ ~Fresh(MintOf[u])
         /\ \A v \in Orders : MintOf[v] = MintOf[u] => ~Sweeping(v)
<1> USE DEF ScreenInv
<1>1. u = t /\ stage[t] \notin {"queries", "report"} /\ stage'[t] \in {"queries", "report"}
  BY ScreenTouchesOne DEF Sweeping
<1>2. stage \in [Orders -> {"out", "waiting", "queries", "report"}]
  BY DEF ScreenTypes
<1>3. ScreenLocks(t) \/ WakeSweeps(t)
  BY <1>1, <1>2 DEF ScreenMoves, ScreenFromCache, WakeSatisfied, ChainRead, SweepEnds, SweepRaises, Leave
<1>4. ~Fresh(MintOf[t])
  BY <1>3 DEF ScreenLocks, WakeSweeps
<1>5. lock[MintOf[t]] = <<>> \/ Holds(t)
  BY <1>1, <1>2, <1>3 DEF ScreenLocks, WakeSweeps, Woken, Reach
<1>6. \A v \in Orders : MintOf[v] = MintOf[t] /\ Holds(v) => v = t
  BY <1>5 DEF Holds
<1> QED
  BY <1>1, <1>4, <1>6 DEF SweeperHolds, Sweeping

(* Time and the chain.                                                     *)
LEMMA ScreenWorld ==
  ASSUME ScreenInv, ScreenTick \/ ChainMoves
  PROVE  /\ ScreenInv' /\ UNCHANGED <<stage, verdict, lock>>
         /\ ScreenTick => \A m \in Mints : clean_age'[m] <= clean_age[m] + 1
         /\ ChainMoves => \A m \in Mints : clean_age'[m] <= clean_age[m]
<1> USE DEF ScreenInv
<1>1. /\ \A u \in Orders : MintOf[u] \in Mints
      /\ Ttl \in Nat \ {0} /\ Timeout \in Nat \ {0} /\ MaxAge \in Nat
      /\ cache \in [Mints -> Reports] /\ clean_age \in [Mints -> 0..MaxAge]
      /\ dirty \in [Mints -> BOOLEAN]
      /\ sweep \in [Orders -> [toxic : BOOLEAN, age : 0..Timeout]]
      /\ UNCHANGED <<stage, verdict, lock>>
  BY ScreenAssumption DEF ScreenTypes, Ages, ScreenTick, ChainMoves
<1>2. SweeperHolds'
  BY <1>1 DEF SweeperHolds, Sweeping, Holds
<1>3. CASE ScreenTick
  <2>1. /\ \A t \in Orders : sweep[t].age < Timeout
        /\ cache' = [m \in Mints |-> [cache[m] EXCEPT !.age = Older(@, Ttl)]]
        /\ sweep' = [t \in Orders |-> IF stage[t] = "report" THEN [sweep[t] EXCEPT !.age = @ + 1]
                                      ELSE sweep[t]]
        /\ clean_age' = [m \in Mints |-> IF dirty[m] THEN Older(clean_age[m], MaxAge) ELSE 0]
        /\ UNCHANGED dirty
    BY <1>3 DEF ScreenTick
  <2>2. ASSUME NEW m \in Mints
        PROVE  /\ cache'[m] \in Reports /\ cache'[m].tradeable = cache[m].tradeable
               /\ Fresh(m)' => Fresh(m) /\ cache'[m].age = cache[m].age + 1
    <3>1. cache[m] \in Reports /\ cache'[m] = [cache[m] EXCEPT !.age = Older(@, Ttl)]
      BY <1>1, <2>1
    <3>2. /\ cache[m].age \in 0..Ttl /\ cache[m].tradeable \in BOOLEAN
          /\ cache'[m].age = Older(cache[m].age, Ttl) /\ cache'[m].tradeable = cache[m].tradeable
      BY <3>1 DEF Reports
    <3>3. cache'[m] \in Reports
      BY <1>1, <3>1, <3>2 DEF Reports, Older
    <3> QED
      BY <1>1, <3>2, <3>3 DEF Older, Fresh
  <2>3. ASSUME NEW t \in Orders
        PROVE  /\ sweep'[t] \in [toxic : BOOLEAN, age : 0..Timeout]
               /\ sweep'[t].toxic = sweep[t].toxic
               /\ stage[t] = "report" => sweep'[t].age = sweep[t].age + 1
    <3>1. sweep[t].age \in 0..Timeout /\ sweep[t].age < Timeout
      BY <1>1, <2>1
    <3> QED
      BY <1>1, <2>1, <3>1
  <2>4. ASSUME NEW m \in Mints
        PROVE  /\ clean_age'[m] \in 0..MaxAge /\ clean_age'[m] <= clean_age[m] + 1
               /\ ~dirty'[m] => clean_age'[m] = 0
    BY <1>1, <2>1 DEF Older
  <2>5. ScreenTypes'
    <3>1. cache' \in [Mints -> Reports]
      BY <2>1, <2>2
    <3>2. sweep' \in [Orders -> [toxic : BOOLEAN, age : 0..Timeout]]
      BY <2>1, <2>3
    <3>3. clean_age' \in [Mints -> Ages]
      BY <2>1, <2>4 DEF Ages
    <3> QED
      BY <1>1, <2>1, <3>1, <3>2, <3>3 DEF ScreenTypes
  <2>6. ReportsAge'
    <3>1. \A t \in Orders : stage'[t] = "report" /\ ~sweep'[t].toxic
            => clean_age'[MintOf[t]] <= sweep'[t].age
      BY <1>1, <2>3, <2>4 DEF ReportsAge
    <3>2. \A m \in Mints : Fresh(m)' /\ cache'[m].tradeable
            => clean_age'[m] <= cache'[m].age + Timeout
      <4> SUFFICES ASSUME NEW m \in Mints, Fresh(m)', cache'[m].tradeable
                   PROVE  clean_age'[m] <= cache'[m].age + Timeout
        OBVIOUS
      <4>1. clean_age[m] <= cache[m].age + Timeout
        BY <2>2 DEF ReportsAge
      <4>2. cache[m].age \in Int /\ clean_age[m] \in Int /\ clean_age'[m] \in Int
        BY <1>1, <2>4 DEF Reports
      <4> QED
        BY <1>1, <2>2, <2>4, <4>1, <4>2
    <3> QED
      BY <2>4, <3>1, <3>2 DEF ReportsAge
  <2>7. \A m \in Mints : clean_age'[m] <= clean_age[m] + 1
    BY <2>4
  <2>8. ~ChainMoves \/ \A m \in Mints : clean_age'[m] <= clean_age[m]
    <3> SUFFICES ASSUME ChainMoves PROVE \A m \in Mints : clean_age'[m] <= clean_age[m]
      OBVIOUS
    <3> QED
      BY <1>1 DEF ChainMoves
  <2> QED
    BY <1>1, <1>2, <2>5, <2>6, <2>7, <2>8
<1>4. CASE ChainMoves
  <2>1. PICK m \in Mints :
          /\ dirty' = [dirty EXCEPT ![m] = ~@]
          /\ clean_age' = [clean_age EXCEPT ![m] = IF dirty[m] THEN 0 ELSE @]
    BY <1>4 DEF ChainMoves
  <2>2. UNCHANGED <<cache, sweep>>
    BY <1>4 DEF ChainMoves
  <2>3. \A n \in Mints : clean_age'[n] \in 0..MaxAge /\ clean_age'[n] <= clean_age[n]
    BY <1>1, <2>1
  <2>4. \A n \in Mints : ~dirty'[n] => clean_age'[n] = 0
    BY <1>1, <2>1 DEF ReportsAge
  <2>5. ScreenTypes'
    BY <1>1, <2>1, <2>2, <2>3 DEF ScreenTypes, Ages
  <2>6. ReportsAge'
    <3>1. \A t \in Orders : stage'[t] = "report" /\ ~sweep'[t].toxic
            => clean_age'[MintOf[t]] <= sweep'[t].age
      BY <1>1, <2>2, <2>3 DEF ReportsAge
    <3>2. \A n \in Mints : cache[n].age \in Int
      BY <1>1 DEF Reports
    <3>3. \A n \in Mints : Fresh(n)' /\ cache'[n].tradeable
            => clean_age'[n] <= cache'[n].age + Timeout
      BY <1>1, <2>2, <2>3, <3>2 DEF ReportsAge, Fresh
    <3> QED
      BY <2>4, <3>1, <3>3 DEF ReportsAge
  <2>7. \A n \in Mints : clean_age'[n] <= clean_age[n] + 1
    BY <1>1, <2>3
  <2> QED
    BY <1>1, <1>2, <2>3, <2>5, <2>6, <2>7
<1> QED
  BY <1>3, <1>4

(***************************************************************************)
(* What is on the wire.                                                    *)
(***************************************************************************)

(* An attempt adds one request, of the transaction that was signed first.  *)
LEMMA SendKeeps ==
  ASSUME WireInv, NEW t \in Orders, NEW side \in {"none", "buy", "sell"}, NEW a \in 1..Tries,
         SendSwap(t, side, a, 1), (a > 1 /\ a > swap[t].attempt) \/ ~OnTheWire(t)
  PROVE  WireInv'
<1> USE DEF WireInv
<1> DEFINE new == [side |-> side, phase |-> "sending", attempt |-> a, signed |-> 1, waited |-> 0]
<1>1. /\ swap' = [swap EXCEPT ![t] = new] /\ requests' = requests \cup {<<t, a, 1>>}
      /\ UNCHANGED <<accepted, landed>>
  BY DEF SendSwap
<1>2. Tries \in Nat \ {0} /\ Patience \in Nat \ {0} /\ 1 \in 1..Tries
  BY SwapAssumption
<1>3. new \in Progress
  BY <1>2 DEF Progress
<1>4. new.phase = "sending" /\ new.attempt = a /\ new.signed = 1
  OBVIOUS
<1> HIDE DEF new
<1>5. swap'[t] = new /\ \A u \in Orders : u # t => swap'[u] = swap[u]
  BY <1>1 DEF WireTypes
<1>6. WireTypes'
  BY <1>1, <1>2, <1>3 DEF WireTypes
<1>7. SignedOnce'
  BY <1>1, <1>4, <1>5 DEF SignedOnce, Sending
<1>8. \A u \in Orders : u # t => (OnTheWire(u)' <=> OnTheWire(u))
  BY <1>1 DEF OnTheWire
<1>9. SentByAttempt'
  <2>1. \A u \in Orders : OnTheWire(u)' =>
          swap'[u].phase \in {"sending", "ok", "error", "raised"} /\ swap'[u].attempt > 0
    BY <1>4, <1>5, <1>8 DEF SentByAttempt
  <2>2. ASSUME NEW r \in requests PROVE r[2] <= swap'[r[1]].attempt
    <3>1. r[1] \in Orders /\ r[2] \in Int /\ r[2] <= swap[r[1]].attempt
      BY DEF WireTypes, SentByAttempt
    <3>2. swap[t].attempt \in Int
      BY DEF WireTypes, Progress
    <3>3. r[1] = t => a > swap[t].attempt
      BY DEF OnTheWire
    <3> QED
      BY <1>4, <1>5, <3>1, <3>2, <3>3
  <2>3. \A r \in requests' : r[2] <= swap'[r[1]].attempt
    BY <1>1, <1>4, <1>5, <2>2
  <2> QED
    BY <2>1, <2>3 DEF SentByAttempt
<1>10. AnsweredOnce'
  <2> SUFFICES ASSUME NEW u \in Orders, swap'[u].attempt = 1
               PROVE  /\ (\E r \in requests' : r[1] = u) => ~\E tx \in accepted' : tx[1] = u
                      /\ swap'[u].phase = "error" => ~OnTheWire(u)'
    BY DEF AnsweredOnce
  <2>1. CASE u = t
    <3>1. ~\E tx \in accepted : tx[1] = t
      BY <1>4, <1>5, <2>1 DEF OnTheWire
    <3> QED
      BY <1>1, <1>4, <1>5, <2>1, <3>1
  <2>2. CASE u # t
    <3>1. (\E r \in requests' : r[1] = u) => (\E r \in requests : r[1] = u)
      BY <1>1, <2>2
    <3> QED
      BY <1>1, <1>5, <1>8, <2>2, <3>1 DEF AnsweredOnce
  <2> QED
    BY <2>1, <2>2
<1> QED
  BY <1>6, <1>7, <1>9, <1>10

(* A step that leaves the wire alone, and does not make an error of what   *)
(* was sent nor unsend it.                                                 *)
LEMMA PhaseKeeps ==
  ASSUME WireInv, UNCHANGED wireVars, NEW t \in Orders, NEW new \in Progress,
         swap' = [swap EXCEPT ![t] = new],
         new.phase # "sending", new.attempt = swap[t].attempt,
         \/ new.phase = "raised"
         \/ ~OnTheWire(t)
  PROVE  WireInv'
<1> USE DEF WireInv
<1>1. swap'[t] = new /\ \A u \in Orders : u # t => swap'[u] = swap[u]
  BY DEF WireTypes
<1>2. UNCHANGED <<requests, accepted, landed>> /\ \A u \in Orders : OnTheWire(u)' <=> OnTheWire(u)
  BY DEF wireVars, OnTheWire
<1>3. WireTypes'
  BY <1>2 DEF WireTypes
<1>4. SignedOnce'
  BY <1>1, <1>2 DEF SignedOnce, Sending
<1>5. SentByAttempt'
  BY <1>1, <1>2, <1>3 DEF SentByAttempt, WireTypes
<1>6. AnsweredOnce'
  <2> SUFFICES ASSUME NEW u \in Orders, swap'[u].attempt = 1
               PROVE  /\ (\E r \in requests : r[1] = u) => ~\E tx \in accepted : tx[1] = u
                      /\ swap'[u].phase = "error" => ~OnTheWire(u)
    BY <1>2 DEF AnsweredOnce
  <2>1. swap[u].attempt = 1
    BY <1>1
  <2>2. /\ (\E r \in requests : r[1] = u) => ~\E tx \in accepted : tx[1] = u
        /\ swap[u].phase = "error" => ~OnTheWire(u)
    BY <2>1 DEF AnsweredOnce
  <2>3. swap'[u].phase = "error" => swap[u].phase = "error" \/ ~OnTheWire(u)
    BY <1>1
  <2> QED
    BY <2>2, <2>3
<1> QED
  BY <1>3, <1>4, <1>5, <1>6

LEMMA FinishKeeps ==
  ASSUME WireInv, NEW t \in Orders, NEW phase \in {"raised", "blocked"}, Finish(t, phase),
         phase = "blocked" => ~OnTheWire(t)
  PROVE  WireInv' /\ swap'[t].phase = phase /\ \A u \in Orders : u # t => swap'[u] = swap[u]
<1> DEFINE new == [swap[t] EXCEPT !.phase = phase, !.waited = 0]
<1>1. swap \in [Orders -> Progress] /\ swap[t] \in Progress /\ 0 \in 0..Patience
  BY SwapAssumption DEF WireInv, WireTypes
<1>2. new \in Progress /\ new.phase = phase /\ new.attempt = swap[t].attempt
  BY <1>1 DEF Progress
<1>3. UNCHANGED wireVars /\ swap' = [swap EXCEPT ![t] = new]
  BY <1>1 DEF Finish
<1> HIDE DEF new
<1>4. WireInv'
  BY <1>2, <1>3, PhaseKeeps
<1> QED
  BY <1>1, <1>2, <1>3, <1>4

LEMMA Unsent ==
  ASSUME SwapIInv, NEW t \in Orders, swap[t].phase \in {"idle", "screening"}
  PROVE  ~OnTheWire(t) /\ verdict[t] = "none"
BY DEF SwapIInv, WireInv, SentByAttempt, Unanswered

(***************************************************************************)
(* The steps of an order.                                                  *)
(***************************************************************************)

(* The transaction is built and sent, or building it raises.               *)
LEMMA BuildKeeps ==
  ASSUME WireInv, NEW t \in Orders, NEW side \in {"buy", "sell"}, BuildAndSend(t, side),
         ~OnTheWire(t)
  PROVE  /\ WireInv' /\ \A u \in Orders : u # t => swap'[u] = swap[u]
         /\ \/ swap'[t].phase = "raised"
            \/ swap'[t].phase = "sending" /\ swap'[t].side = side /\ swap'[t].attempt = 1
               /\ swap'[t].waited = 0
<1>1. 1 \in 1..Tries /\ swap \in [Orders -> Progress]
  BY SwapAssumption DEF WireInv, WireTypes
<1>2. CASE Finish(t, "raised")
  BY <1>2, FinishKeeps
<1>3. CASE SendSwap(t, side, 1, 1)
  <2>1. WireInv'
    BY <1>1, <1>3, SendKeeps
  <2> QED
    BY <1>1, <1>3, <2>1 DEF SendSwap
<1> QED
  BY <1>2, <1>3 DEF BuildAndSend

(* An order begins, or its screen goes on.                                 *)
LEMMA ScreeningKeeps ==
  ASSUME SwapIInv, NEW t \in Orders, Buy(t) \/ Resume(t)
  PROVE  SwapIInv'
<1>1. /\ ScreenMoves(t) /\ Screened(t) /\ swap[t].phase \in {"idle", "screening"}
  BY DEF Buy, Resume, ScreenMoves
<1>2. ScreenInv /\ WireInv /\ ~OnTheWire(t) /\ verdict[t] = "none" /\ swap \in [Orders -> Progress]
  BY <1>1, Unsent DEF SwapIInv, WireInv, WireTypes
<1>3. /\ ScreenInv' /\ UNCHANGED clean_age
      /\ verdict'[t] \in {"none", "tradeable", "toxic", "raised"}
      /\ \A u \in Orders : u # t => verdict'[u] = verdict[u]
  BY <1>1, <1>2, ScreenKeeps, ScreenTouchesOne DEF ScreenInv
<1>4. /\ \A u \in Orders : u # t => swap'[u] = swap[u]
      /\ WireInv'
      /\ swap'[t].phase \in {"idle", "screening"} => verdict'[t] = "none"
      /\ Sending(t)' => verdict'[t] = "tradeable" /\ swap'[t].attempt = 1 /\ swap'[t].waited = 0
  <2>1. CASE verdict'[t] = "none"
    <3> DEFINE new == [swap[t] EXCEPT !.side = "buy", !.phase = "screening"]
    <3>1. new \in Progress /\ new.phase = "screening" /\ new.attempt = swap[t].attempt
      BY <1>2 DEF Progress
    <3>2. UNCHANGED wireVars /\ swap' = [swap EXCEPT ![t] = new]
      BY <1>1, <2>1, <1>2 DEF Screened
    <3> HIDE DEF new
    <3>3. WireInv'
      BY <1>2, <3>1, <3>2, PhaseKeeps
    <3> QED
      BY <1>2, <2>1, <3>1, <3>2, <3>3 DEF Sending
  <2>2. CASE verdict'[t] = "tradeable"
    <3>1. BuildAndSend(t, "buy")
      BY <1>1, <2>2 DEF Screened
    <3> QED
      BY <1>2, <2>2, <3>1, BuildKeeps DEF Sending
  <2>3. CASE verdict'[t] = "toxic"
    <3>1. Finish(t, "blocked")
      BY <1>1, <2>3 DEF Screened
    <3> QED
      BY <1>2, <3>1, FinishKeeps DEF Sending
  <2>4. CASE verdict'[t] = "raised"
    <3>1. Finish(t, "raised")
      BY <1>1, <2>4 DEF Screened
    <3> QED
      BY <1>2, <3>1, FinishKeeps DEF Sending
  <2> QED
    BY <1>3, <2>1, <2>2, <2>3, <2>4
<1>5. Unanswered'
  BY <1>3, <1>4 DEF Unanswered, SwapIInv
<1>6. BuysAge'
  <2>1. ASSUME Sending(t)' PROVE clean_age[MintOf[t]] < Ttl + Timeout
    BY <1>1, <1>2, <1>4, <2>1, VerdictAge
  <2>2. Patience \in Nat /\ Ttl \in Nat /\ Timeout \in Nat
    BY SwapAssumption, ScreenAssumption
  <2>3. ASSUME Sending(t)'
        PROVE  clean_age'[MintOf[t]] < Ttl + Timeout + (swap'[t].attempt - 1) * Patience + swap'[t].waited
    <3>1. (swap'[t].attempt - 1) * Patience = 0 /\ swap'[t].waited = 0
      BY <1>4, <2>2, <2>3
    <3>2. clean_age'[MintOf[t]] < Ttl + Timeout + 0 + 0
      BY <1>3, <2>1, <2>2, <2>3
    <3> QED
      BY <3>1, <3>2
  <2>4. ASSUME NEW u \in Orders, u # t, Sending(u)', swap'[u].side = "buy"
        PROVE  clean_age'[MintOf[u]] < Ttl + Timeout + (swap'[u].attempt - 1) * Patience + swap'[u].waited
    BY <1>3, <1>4, <2>4 DEF BuysAge, SwapIInv, Sending
  <2> QED
    BY <2>3, <2>4 DEF BuysAge
<1> QED
  BY <1>3, <1>4, <1>5, <1>6 DEF SwapIInv

LEMMA SellKeeps ==
  ASSUME SwapIInv, NEW t \in Orders, Sell(t)
  PROVE  SwapIInv'
<1>1. swap[t].phase = "idle" /\ BuildAndSend(t, "sell") /\ UNCHANGED screenVars
  BY DEF Sell
<1>2. WireInv /\ ~OnTheWire(t)
  BY <1>1, Unsent DEF SwapIInv
<1>3. /\ WireInv' /\ \A u \in Orders : u # t => swap'[u] = swap[u]
      /\ \/ swap'[t].phase = "raised"
         \/ swap'[t].phase = "sending" /\ swap'[t].side = "sell"
  BY <1>1, <1>2, BuildKeeps
<1>4. ScreenInv'
  BY <1>1 DEF SwapIInv, ScreenInv, screenVars, ScreenTypes, SweeperHolds, Sweeping, Holds, ReportsAge, Fresh
<1>5. Unanswered' /\ BuysAge'
  BY <1>1, <1>3 DEF SwapIInv, Unanswered, BuysAge, Sending, screenVars
<1> QED
  BY <1>3, <1>4, <1>5 DEF SwapIInv

LEMMA OneMore ==
  ASSUME NEW a \in Int, NEW p \in Int
  PROVE  (a - 1) * p + p = (a + 1 - 1) * p /\ (a - 1) * p \in Int
BY SMT

(* A retry, or the end of them.  An attempt has had its whole patience     *)
(* when the next one is sent.                                              *)
LEMMA RetryKeeps ==
  ASSUME SwapIInv, NEW t \in Orders, Resend(t) \/ GiveUp(t)
  PROVE  SwapIInv'
<1>1. Sending(t) /\ UNCHANGED screenVars
  BY DEF Resend, GiveUp
<1>2. /\ WireInv /\ swap[t] \in Progress /\ swap[t].signed = 1 /\ swap[t].attempt \in 1..Tries
      /\ swap \in [Orders -> Progress]
  BY <1>1 DEF SwapIInv, WireInv, WireTypes, SignedOnce
<1>3. /\ WireInv' /\ swap'[t].phase \notin {"idle", "screening"}
      /\ \A u \in Orders : u # t => swap'[u] = swap[u]
      /\ Sending(t)' => /\ swap'[t].side = swap[t].side /\ swap'[t].waited = 0
                        /\ swap'[t].attempt = swap[t].attempt + 1
  <2>1. CASE GiveUp(t)
    BY <1>2, <2>1, FinishKeeps DEF GiveUp, Sending
  <2>2. CASE Resend(t)
    <3>1. swap[t].side \in {"none", "buy", "sell"} /\ swap[t].attempt + 1 > swap[t].attempt
      BY <1>2 DEF Progress
    <3>2. SendSwap(t, swap[t].side, swap[t].attempt + 1, 1) /\ swap[t].attempt + 1 \in 1..Tries
      BY <1>2, <2>2, SwapAssumption DEF Resend
    <3>3. WireInv'
      BY <1>2, <3>1, <3>2, SendKeeps
    <3> QED
      BY <1>2, <3>2, <3>3 DEF SendSwap
  <2> QED
    BY <2>1, <2>2
<1>4. ScreenInv'
  BY <1>1 DEF SwapIInv, ScreenInv, screenVars, ScreenTypes, SweeperHolds, Sweeping, Holds, ReportsAge, Fresh
<1>5. Unanswered'
  BY <1>1, <1>3 DEF SwapIInv, Unanswered, screenVars
<1>6. BuysAge'
  <2> SUFFICES ASSUME NEW u \in Orders, Sending(u)', swap'[u].side = "buy"
               PROVE  clean_age[MintOf[u]]
                        < Ttl + Timeout + (swap'[u].attempt - 1) * Patience + swap'[u].waited
    BY <1>1 DEF BuysAge, screenVars
  <2>1. CASE u = t
    <3>1. clean_age[MintOf[t]] < Ttl + Timeout + (swap[t].attempt - 1) * Patience + swap[t].waited
      BY <1>1, <1>3, <2>1 DEF SwapIInv, BuysAge
    <3>2. /\ swap[t].waited \in 0..Patience /\ Patience \in Nat /\ Ttl \in Nat /\ Timeout \in Nat
          /\ clean_age[MintOf[t]] \in Int
      BY <1>2, SwapAssumption, ScreenAssumption DEF Progress, SwapIInv, ScreenInv, ScreenTypes, Ages
    <3>3. swap'[t].attempt = swap[t].attempt + 1 /\ swap'[t].waited = 0
      BY <1>3, <2>1
    <3> QED
      BY <1>2, <2>1, <3>1, <3>2, <3>3, OneMore
  <2>2. CASE u # t
    BY <1>3, <2>2 DEF SwapIInv, BuysAge, Sending
  <2> QED
    BY <2>1, <2>2
<1> QED
  BY <1>3, <1>4, <1>5, <1>6 DEF SwapIInv

(* An order that attempted once has one request on its way, or none.       *)
LEMMA OneRequest ==
  ASSUME WireInv, NEW r \in requests, NEW q \in requests, q[1] = r[1], swap[r[1]].attempt = 1
  PROVE  q = r
<1>1. \A x \in requests : x[2] \in 1..Tries /\ x[2] <= swap[x[1]].attempt /\ x[3] = 1
  BY DEF WireInv, WireTypes, SignedOnce, SentByAttempt
<1>2. r[2] = 1 /\ q[2] = 1 /\ r[3] = 1 /\ q[3] = 1
  BY <1>1, SwapAssumption
<1>3. \A x \in requests : x = <<x[1], x[2], x[3]>>
  BY DEF WireInv, WireTypes
<1> QED
  BY <1>2, <1>3

(* An answer takes its request off the wire.                               *)
LEMMA AnswerKeeps ==
  ASSUME SwapIInv, Accept \/ Refuse
  PROVE  SwapIInv'
<1>1. PICK r \in requests :
        \/ accepted' = accepted \cup {<<r[1], r[3]>>} /\ Answer(r, "ok")
        \/ UNCHANGED accepted /\ Answer(r, "error")
  BY DEF Accept, Refuse
<1> DEFINE t == r[1]
<1>2. /\ WireInv /\ t \in Orders /\ r[3] = 1 /\ swap \in [Orders -> Progress]
      /\ 1 \in 1..Tries /\ 0 \in 0..Patience /\ swap[t] \in Progress
  BY SwapAssumption DEF SwapIInv, WireInv, WireTypes, SignedOnce
<1>3. requests' = requests \ {r} /\ UNCHANGED <<screenVars, landed>>
  BY <1>1 DEF Answer
<1>4. /\ swap' \in [Orders -> Progress]
      /\ \A u \in Orders : u # t => swap'[u] = swap[u]
      /\ swap'[t].attempt = swap[t].attempt /\ swap'[t].side = swap[t].side
      /\ swap'[t].signed = swap[t].signed
      /\ \/ swap'[t] = swap[t]
         \/ Sending(t) /\ swap'[t].phase = "ok" /\ accepted' = accepted \cup {<<t, 1>>}
         \/ Sending(t) /\ swap'[t].phase = "error" /\ UNCHANGED accepted
  <2>1. CASE UNCHANGED swap
    BY <1>2, <2>1
  <2>2. ASSUME NEW phase \in {"ok", "error"}, Sending(t),
               swap' = [swap EXCEPT ![t].phase = phase, ![t].waited = 0]
        PROVE  /\ swap' \in [Orders -> Progress]
               /\ \A u \in Orders : u # t => swap'[u] = swap[u]
               /\ swap'[t].attempt = swap[t].attempt /\ swap'[t].side = swap[t].side
               /\ swap'[t].signed = swap[t].signed /\ swap'[t].phase = phase
    <3> DEFINE new == [swap[t] EXCEPT !.phase = phase, !.waited = 0]
    <3>1. /\ new \in Progress /\ new.phase = phase /\ new.attempt = swap[t].attempt
          /\ new.side = swap[t].side /\ new.signed = swap[t].signed
      BY <1>2 DEF Progress
    <3>2. swap' = [swap EXCEPT ![t] = new]
      BY <1>2, <2>2
    <3> HIDE DEF new
    <3> QED
      BY <1>2, <3>1, <3>2
  <2> QED
    BY <1>1, <1>2, <2>1, <2>2 DEF Answer
<1>5. /\ accepted \subseteq accepted' /\ accepted' \subseteq accepted \cup {<<t, 1>>}
  BY <1>1, <1>2
<1>6. \A u \in Orders : OnTheWire(u)' => OnTheWire(u)
  BY <1>3, <1>5 DEF OnTheWire
<1>7. WireTypes'
  BY <1>2, <1>3, <1>4, <1>5 DEF WireInv, WireTypes
<1>8. SignedOnce'
  <2>1. \A u \in Orders : Sending(u)' => swap'[u].signed = 1 /\ swap'[u].attempt \in 1..Tries
    BY <1>2, <1>4 DEF WireInv, SignedOnce, Sending
  <2>2. (\A q \in requests' : q[3] = 1) /\ (\A tx \in accepted' : tx[2] = 1)
    BY <1>2, <1>3, <1>5 DEF WireInv, SignedOnce
  <2> QED
    BY <2>1, <2>2 DEF SignedOnce
<1>9. SentByAttempt'
  <2>1. \A u \in Orders : OnTheWire(u)' =>
          swap'[u].phase \in {"sending", "ok", "error", "raised"} /\ swap'[u].attempt > 0
    BY <1>2, <1>4, <1>6 DEF WireInv, SentByAttempt
  <2>2. \A q \in requests' : q[2] <= swap'[q[1]].attempt
    BY <1>2, <1>3, <1>4 DEF WireInv, WireTypes, SentByAttempt
  <2> QED
    BY <2>1, <2>2 DEF SentByAttempt
<1>10. AnsweredOnce'
  <2> SUFFICES ASSUME NEW u \in Orders, swap'[u].attempt = 1
               PROVE  /\ (\E q \in requests' : q[1] = u) => ~\E tx \in accepted' : tx[1] = u
                      /\ swap'[u].phase = "error" => ~OnTheWire(u)'
    BY DEF AnsweredOnce
  <2>1. /\ (\E q \in requests : q[1] = u) => ~\E tx \in accepted : tx[1] = u
        /\ swap[u].phase = "error" => ~OnTheWire(u)
    BY <1>2, <1>4 DEF WireInv, AnsweredOnce
  <2>2. CASE u = t
    <3>1. ~\E q \in requests' : q[1] = t
      BY <1>2, <1>3, <1>4, <2>2, OneRequest
    <3>2. swap'[t].phase = "error" => swap[t].phase = "error" \/ UNCHANGED accepted
      BY <1>4
    <3>3. ~\E tx \in accepted : tx[1] = t
      BY <2>1, <2>2
    <3> QED
      BY <1>6, <2>1, <2>2, <3>1, <3>2, <3>3 DEF OnTheWire
  <2>3. CASE u # t
    <3>1. /\ (\E q \in requests' : q[1] = u) => (\E q \in requests : q[1] = u)
          /\ (\E tx \in accepted' : tx[1] = u) => (\E tx \in accepted : tx[1] = u)
      BY <1>3, <1>5, <2>3
    <3> QED
      BY <1>4, <1>6, <2>1, <2>3, <3>1
  <2> QED
    BY <2>2, <2>3
<1>11. ScreenInv'
  BY <1>3 DEF SwapIInv, ScreenInv, screenVars, ScreenTypes, SweeperHolds, Sweeping, Holds, ReportsAge, Fresh
<1>12. Unanswered'
  BY <1>2, <1>3, <1>4 DEF SwapIInv, Unanswered, screenVars
<1>13. BuysAge'
  BY <1>2, <1>3, <1>4 DEF SwapIInv, BuysAge, screenVars, Sending
<1> QED
  BY <1>7, <1>8, <1>9, <1>10, <1>11, <1>12, <1>13 DEF SwapIInv, WireInv

LEMMA LandKeeps ==
  ASSUME SwapIInv, Land
  PROVE  SwapIInv'
<1>1. /\ landed' \subseteq accepted /\ UNCHANGED <<screenVars, swap, requests, accepted>>
  BY DEF Land, SwapIInv, WireInv, WireTypes
<1>2. WireInv'
  BY <1>1 DEF SwapIInv, WireInv, WireTypes, SignedOnce, Sending, SentByAttempt, OnTheWire, AnsweredOnce
<1>3. ScreenInv'
  BY <1>1 DEF SwapIInv, ScreenInv, screenVars, ScreenTypes, SweeperHolds, Sweeping, Holds, ReportsAge, Fresh
<1>4. Unanswered' /\ BuysAge'
  BY <1>1 DEF SwapIInv, Unanswered, BuysAge, screenVars, Sending
<1> QED
  BY <1>2, <1>3, <1>4 DEF SwapIInv

(* A tick makes tokens and attempts older together, and a token that turns *)
(* back is clean now.                                                      *)
LEMMA TimeKeeps ==
  ASSUME SwapIInv, SwapTick \/ TokenTurns
  PROVE  SwapIInv'
<1>1. /\ ScreenInv /\ WireInv /\ (ScreenTick \/ ChainMoves)
      /\ swap \in [Orders -> Progress] /\ Patience \in Nat /\ \A t \in Orders : MintOf[t] \in Mints
      /\ Ttl \in Nat /\ Timeout \in Nat
  BY SwapAssumption, ScreenAssumption DEF SwapIInv, WireInv, WireTypes, SwapTick, TokenTurns
<1>2. /\ ScreenInv' /\ UNCHANGED verdict
      /\ ScreenTick => \A m \in Mints : clean_age'[m] <= clean_age[m] + 1
      /\ ChainMoves => \A m \in Mints : clean_age'[m] <= clean_age[m]
  BY <1>1, ScreenWorld
<1>3. \A m \in Mints : clean_age[m] \in Int /\ clean_age'[m] \in Int
  <2>1. clean_age \in [Mints -> 0..MaxAge] /\ clean_age' \in [Mints -> 0..MaxAge]
    BY <1>1, <1>2 DEF ScreenInv, ScreenTypes, Ages
  <2> QED
    BY <2>1
<1>4. /\ swap' \in [Orders -> Progress]
      /\ \A t \in Orders : /\ swap'[t].phase = swap[t].phase /\ swap'[t].side = swap[t].side
                           /\ swap'[t].attempt = swap[t].attempt /\ swap'[t].signed = swap[t].signed
      /\ \A t \in Orders : Sending(t) => clean_age'[MintOf[t]] - clean_age[MintOf[t]]
                                           <= swap'[t].waited - swap[t].waited
  <2>1. CASE SwapTick
    <3>1. /\ \A t \in Orders : swap[t].waited < Patience
          /\ swap' = [t \in Orders |-> IF Sending(t) THEN [swap[t] EXCEPT !.waited = @ + 1] ELSE swap[t]]
          /\ ScreenTick
      BY <2>1 DEF SwapTick
    <3>2. ASSUME NEW t \in Orders
          PROVE  /\ swap'[t] \in Progress
                 /\ swap'[t].phase = swap[t].phase /\ swap'[t].side = swap[t].side
                 /\ swap'[t].attempt = swap[t].attempt /\ swap'[t].signed = swap[t].signed
                 /\ Sending(t) => swap'[t].waited = swap[t].waited + 1
                 /\ swap[t].waited \in Int
      <4>1. swap[t] \in Progress /\ swap[t].waited < Patience /\ swap[t].waited \in 0..Patience
        BY <1>1, <3>1 DEF Progress
      <4>2. CASE Sending(t)
        BY <1>1, <3>1, <4>1, <4>2 DEF Progress
      <4>3. CASE ~Sending(t)
        BY <3>1, <4>1, <4>3
      <4> QED
        BY <4>2, <4>3
    <3>3. swap' \in [Orders -> Progress]
      BY <3>1, <3>2
    <3>4. \A m \in Mints : clean_age'[m] <= clean_age[m] + 1 /\ clean_age[m] \in Int /\ clean_age'[m] \in Int
      BY <1>2, <1>3, <3>1
    <3> QED
      BY <1>1, <3>2, <3>3, <3>4
  <2>2. CASE TokenTurns
    <3>1. UNCHANGED swap /\ ChainMoves
      BY <2>2 DEF TokenTurns
    <3>2. \A m \in Mints : clean_age'[m] <= clean_age[m] /\ clean_age[m] \in Int /\ clean_age'[m] \in Int
      BY <1>2, <1>3, <3>1
    <3>3. \A t \in Orders : swap[t].waited \in Int
      <4>1. \A p \in Progress : p.waited \in Int
        BY <1>1 DEF Progress
      <4> QED
        BY <1>1, <4>1
    <3> QED
      BY <1>1, <3>1, <3>2, <3>3
  <2> QED
    BY <2>1, <2>2
<1>5. WireInv'
  <2>1. UNCHANGED <<requests, accepted, landed>>
    BY DEF SwapTick, TokenTurns, wireVars
  <2>2. \A t \in Orders : OnTheWire(t)' <=> OnTheWire(t)
    BY <2>1 DEF OnTheWire
  <2>3. WireTypes'
    BY <1>1, <1>4, <2>1 DEF WireInv, WireTypes
  <2>4. SignedOnce'
    BY <1>1, <1>4, <2>1 DEF WireInv, SignedOnce, Sending
  <2>5. SentByAttempt'
    BY <1>1, <1>4, <2>1, <2>2 DEF WireInv, WireTypes, SentByAttempt
  <2>6. AnsweredOnce'
    BY <1>1, <1>4, <2>1, <2>2 DEF WireInv, AnsweredOnce
  <2> QED
    BY <2>3, <2>4, <2>5, <2>6 DEF WireInv
<1>6. Unanswered'
  BY <1>2, <1>4 DEF SwapIInv, Unanswered
<1>7. BuysAge'
  <2> SUFFICES ASSUME NEW t \in Orders, Sending(t)', swap'[t].side = "buy"
               PROVE  clean_age'[MintOf[t]]
                        < Ttl + Timeout + (swap'[t].attempt - 1) * Patience + swap'[t].waited
    BY DEF BuysAge
  <2>1. Sending(t) /\ swap[t].side = "buy" /\ swap'[t].attempt = swap[t].attempt
    BY <1>4 DEF Sending
  <2>2. clean_age[MintOf[t]] < Ttl + Timeout + (swap[t].attempt - 1) * Patience + swap[t].waited
    BY <2>1 DEF SwapIInv, BuysAge
  <2>3. /\ clean_age[MintOf[t]] \in Int /\ clean_age'[MintOf[t]] \in Int
        /\ swap[t].waited \in Int /\ swap'[t].waited \in Int /\ swap[t].attempt \in Int
    BY <1>1, <1>2, <1>4, ScreenAssumption DEF ScreenInv, ScreenTypes, Ages, Progress
  <2>4. (swap[t].attempt - 1) * Patience \in Int
    BY <1>1, <2>3, OneMore
  <2>5. clean_age'[MintOf[t]] - clean_age[MintOf[t]] <= swap'[t].waited - swap[t].waited
    BY <1>4, <2>1
  <2> QED
    BY <1>1, <2>1, <2>2, <2>3, <2>4, <2>5
<1> QED
  BY <1>2, <1>5, <1>6, <1>7 DEF SwapIInv

LEMMA SwapInitially == SwapInit => SwapIInv
<1> SUFFICES ASSUME SwapInit PROVE SwapIInv
  OBVIOUS
<1>1. /\ Ttl \in Nat \ {0} /\ Timeout \in Nat \ {0} /\ MaxAge \in Nat /\ Patience \in Nat /\ Tries \in Nat
      /\ \A t \in Orders : MintOf[t] \in Mints
  BY SwapAssumption, ScreenAssumption
<1>2. NoSwap \in Progress /\ NoReport \in Reports /\ NoSweep \in [toxic : BOOLEAN, age : 0..Timeout]
  BY <1>1 DEF NoSwap, Progress, NoReport, Reports, NoSweep
<1>3. /\ swap = [t \in Orders |-> NoSwap] /\ requests = {} /\ accepted = {} /\ landed = {}
      /\ cache = [m \in Mints |-> NoReport] /\ lock = [m \in Mints |-> <<>>]
      /\ stage = [t \in Orders |-> "out"] /\ sweep = [t \in Orders |-> NoSweep]
      /\ verdict = [t \in Orders |-> "none"] /\ dirty \in [Mints -> BOOLEAN]
      /\ clean_age = [m \in Mints |-> IF dirty[m] THEN MaxAge ELSE 0]
  BY DEF SwapInit, ScreenInit
<1>4. ScreenTypes
  <2>1. clean_age \in [Mints -> Ages]
    BY <1>1, <1>3 DEF Ages
  <2> QED
    BY <1>2, <1>3, <2>1 DEF ScreenTypes
<1>5. SweeperHolds /\ ReportsAge
  <2>1. \A m \in Mints : ~Fresh(m)
    BY <1>1, <1>3 DEF Fresh, NoReport
  <2> QED
    BY <1>1, <1>3, <2>1 DEF SweeperHolds, Sweeping, ReportsAge
<1>6. \A t \in Orders : swap[t].phase = "idle" /\ swap[t].attempt = 0 /\ ~OnTheWire(t)
  BY <1>3 DEF NoSwap, OnTheWire
<1>7. Unanswered /\ BuysAge
  BY <1>3, <1>6 DEF Unanswered, BuysAge, Sending
<1>8. WireInv
  BY <1>2, <1>3, <1>6 DEF WireInv, WireTypes, SignedOnce, SentByAttempt, AnsweredOnce, Sending
<1> QED
  BY <1>4, <1>5, <1>7, <1>8 DEF SwapIInv, ScreenInv

LEMMA SwapStutters == SwapIInv /\ UNCHANGED swapVars => SwapIInv'
<1> SUFFICES ASSUME SwapIInv, UNCHANGED swapVars PROVE SwapIInv'
  OBVIOUS
<1>1. UNCHANGED <<screenVars, swap, requests, accepted, landed>>
  BY DEF swapVars
<1>2. WireInv'
  BY <1>1 DEF SwapIInv, WireInv, WireTypes, SignedOnce, Sending, SentByAttempt, OnTheWire, AnsweredOnce
<1>3. ScreenInv'
  BY <1>1 DEF SwapIInv, ScreenInv, screenVars, ScreenTypes, SweeperHolds, Sweeping, Holds, ReportsAge, Fresh
<1>4. Unanswered' /\ BuysAge'
  BY <1>1 DEF SwapIInv, Unanswered, BuysAge, screenVars, Sending
<1> QED
  BY <1>2, <1>3, <1>4 DEF SwapIInv

LEMMA SwapInvariant == SwapSpec => []SwapIInv
<1>1. SwapIInv /\ [SwapNext]_swapVars => SwapIInv'
  BY ScreeningKeeps, SellKeeps, RetryKeeps, AnswerKeeps, LandKeeps, TimeKeeps, SwapStutters
     DEF SwapNext, Swapping
<1> QED
  BY <1>1, SwapInitially, PTL DEF SwapSpec

(***************************************************************************)
(* The theorems.                                                           *)
(***************************************************************************)

(* Every variable of screen and order entry keeps its type; the clock of   *)
(* no order or query runs past its bound.                                  *)
THEOREM SwapTypesTheorem == SwapSpec => []SwapTypes
<1>1. SwapIInv => SwapTypes
  BY DEF SwapIInv, ScreenInv, WireInv, WireTypes, Progress, SwapTypes
<1> QED
  BY <1>1, SwapInvariant, PTL

(* However often an order is retried, whatever was lost or late, the chain *)
(* executes at most one transaction for it.                                *)
THEOREM OneSwapTheorem == SwapSpec => []OneSwapPerOrder
<1>1. SwapIInv => OneSwapPerOrder
  <2> SUFFICES ASSUME SwapIInv, NEW t \in Orders
               PROVE  Cardinality({tx \in landed : tx[1] = t}) <= 1
    BY DEF OneSwapPerOrder
  <2> DEFINE mine == {tx \in landed : tx[1] = t}
  <2>1. \A tx \in landed : tx = <<tx[1], 1>>
    <3>1. landed \subseteq Orders \X (1..Tries) /\ \A tx \in landed : tx[2] = 1
      BY DEF SwapIInv, WireInv, WireTypes, SignedOnce
    <3> QED
      BY <3>1
  <2>2. mine \subseteq {<<t, 1>>}
    BY <2>1
  <2>3. mine = {} \/ mine = {<<t, 1>>}
    BY <2>2
  <2> HIDE DEF mine
  <2>4. Cardinality(mine) <= 1
    <3>1. CASE mine = {}
      BY <3>1, FS_EmptySet
    <3>2. CASE mine = {<<t, 1>>}
      <4>1. Cardinality({<<t, 1>>}) = 1
        BY FS_Singleton, Zenon
      <4> QED
        BY <3>2, <4>1
    <3> QED
      BY <2>3, <3>1, <3>2
  <2> QED
    BY <2>4 DEF mine
<1> QED
  BY <1>1, SwapInvariant, PTL

(* Nothing was accepted of an order that is blocked, or that its only      *)
(* attempt reported as failed.                                             *)
THEOREM FailedTheorem == SwapSpec => []FailedMeansUnfilled
<1>1. SwapIInv => FailedMeansUnfilled
  <2> SUFFICES ASSUME SwapIInv, NEW t \in Orders, \E tx \in accepted : tx[1] = t
               PROVE  \/ swap[t].phase \in {"sending", "ok", "raised"}
                      \/ swap[t].phase = "error" /\ swap[t].attempt > 1
    BY DEF FailedMeansUnfilled
  <2>1. OnTheWire(t)
    BY DEF OnTheWire
  <2>2. /\ swap[t].phase \in {"sending", "ok", "error", "raised"} /\ swap[t].attempt > 0
        /\ swap[t].attempt = 1 => swap[t].phase # "error"
    BY <2>1 DEF SwapIInv, WireInv, SentByAttempt, AnsweredOnce
  <2>3. swap[t].attempt \in Nat
    BY SwapAssumption DEF SwapIInv, WireInv, WireTypes, Progress
  <2> QED
    BY <2>2, <2>3
<1> QED
  BY <1>1, SwapInvariant, PTL

(* Only what is sent counts as an attempt.                                 *)
LEMMA AttemptsAreSent ==
  ASSUME WireInv, NEW u \in Orders
  PROVE  /\ \A phase : Finish(u, phase) =>
              \A t \in Orders : swap'[t].attempt = swap[t].attempt /\ swap'[t].side = swap[t].side
         /\ \A side, a, n : SendSwap(u, side, a, n) =>
              /\ swap'[u].attempt = a /\ swap'[u].side = side
              /\ \A t \in Orders : t # u => swap'[t] = swap[t]
<1>1. swap \in [Orders -> Progress] /\ swap[u] \in Progress
  BY DEF WireInv, WireTypes
<1>2. ASSUME NEW phase, Finish(u, phase), NEW t \in Orders
      PROVE  swap'[t].attempt = swap[t].attempt /\ swap'[t].side = swap[t].side
  <2> DEFINE new == [swap[u] EXCEPT !.phase = phase, !.waited = 0]
  <2>1. new.attempt = swap[u].attempt /\ new.side = swap[u].side
    BY <1>1 DEF Progress
  <2>2. swap' = [swap EXCEPT ![u] = new]
    BY <1>1, <1>2 DEF Finish
  <2> HIDE DEF new
  <2> QED
    BY <1>1, <2>1, <2>2
<1>3. ASSUME NEW side, NEW a, NEW n, SendSwap(u, side, a, n)
      PROVE  /\ swap'[u].attempt = a /\ swap'[u].side = side
             /\ \A t \in Orders : t # u => swap'[t] = swap[t]
  BY <1>1, <1>3 DEF SendSwap
<1> QED
  BY <1>2, <1>3

(* However screens are shared, queued for and failed, a buy is sent on a   *)
(* verdict no older than the cache, the query and its retries make it.     *)
THEOREM NoStaleBuyTheorem == SwapSpec => NoStaleBuy
<1>1. SwapIInv /\ [SwapNext]_swapVars =>
        \A t \in Orders : swap[t]'.side = "buy" /\ swap[t]'.attempt > swap[t].attempt
          => clean_age[MintOf[t]] < Ttl + Timeout + swap[t].attempt * Patience
  <2> SUFFICES ASSUME SwapIInv, [SwapNext]_swapVars, NEW t \in Orders,
                      swap'[t].side = "buy", swap'[t].attempt > swap[t].attempt
               PROVE  clean_age[MintOf[t]] < Ttl + Timeout + swap[t].attempt * Patience
    OBVIOUS
  <2>1. /\ WireInv
        /\ swap \in [Orders -> Progress] /\ swap[t] \in Progress /\ swap[t].attempt \in Nat
        /\ Patience \in Nat /\ Ttl \in Nat /\ Timeout \in Nat
        /\ MintOf[t] \in Mints /\ clean_age[MintOf[t]] \in Int
    <3>1. /\ WireInv /\ swap \in [Orders -> Progress] /\ swap[t] \in Progress
          /\ clean_age \in [Mints -> Ages]
      BY DEF SwapIInv, WireInv, WireTypes, ScreenInv, ScreenTypes
    <3>2. swap[t].attempt \in 0..Tries
      BY <3>1 DEF Progress
    <3>3. MintOf[t] \in Mints /\ clean_age[MintOf[t]] \in Ages
      BY <3>1, ScreenAssumption
    <3> QED
      BY <3>1, <3>2, <3>3, SwapAssumption, ScreenAssumption DEF Ages
  <2>2. ASSUME NEW u \in Orders, Buy(u) \/ Resume(u)
        PROVE  clean_age[MintOf[t]] < Ttl + Timeout + swap[t].attempt * Patience
    <3>1. ScreenMoves(u) /\ Screened(u) /\ swap[u].phase \in {"idle", "screening"}
      BY <2>2 DEF Buy, Resume, ScreenMoves
    <3>2. verdict'[u] \in {"none", "tradeable", "toxic", "raised"}
      BY <3>1, ScreenTouchesOne DEF SwapIInv, ScreenInv
    <3>3. u = t /\ verdict'[u] = "tradeable" /\ swap'[t].attempt = 1
      <4>1. CASE verdict'[u] = "none"
        <5>1. swap' = [swap EXCEPT ![u].side = "buy", ![u].phase = "screening"]
          BY <3>1, <4>1 DEF Screened
        <5>2. swap[u] \in Progress
          BY <2>1
        <5>3. swap'[u].attempt = swap[u].attempt
          BY <2>1, <5>1, <5>2 DEF Progress
        <5> QED
          BY <2>1, <5>1, <5>3
      <4>2. CASE verdict'[u] \in {"toxic", "raised"}
        <5>1. Finish(u, "blocked") \/ Finish(u, "raised")
          BY <3>1, <4>2 DEF Screened
        <5> QED
          BY <2>1, <5>1, AttemptsAreSent
      <4>3. CASE verdict'[u] = "tradeable"
        <5>1. BuildAndSend(u, "buy")
          BY <3>1, <4>3 DEF Screened
        <5> QED
          BY <2>1, <4>3, <5>1, AttemptsAreSent DEF BuildAndSend
      <4> QED
        BY <3>2, <4>1, <4>2, <4>3
    <3>4. clean_age[MintOf[t]] < Ttl + Timeout
      BY <3>1, <3>3, Unsent, VerdictAge DEF SwapIInv
    <3>5. swap[t].attempt = 0
      BY <2>1, <3>3
    <3> QED
      BY <2>1, <3>4, <3>5
  <2>3. ASSUME NEW u \in Orders, Sell(u)
        PROVE  FALSE
    <3>1. Finish(u, "raised") \/ SendSwap(u, "sell", 1, 1)
      BY <2>3 DEF Sell, BuildAndSend
    <3> QED
      BY <2>1, <3>1, AttemptsAreSent
  <2>4. ASSUME NEW u \in Orders, Resend(u)
        PROVE  clean_age[MintOf[t]] < Ttl + Timeout + swap[t].attempt * Patience
    <3>1. u = t /\ Sending(t) /\ swap[t].side = "buy"
      BY <2>1, <2>4 DEF Resend, SendSwap
    <3>2. clean_age[MintOf[t]] < Ttl + Timeout + (swap[t].attempt - 1) * Patience + swap[t].waited
      BY <3>1 DEF SwapIInv, BuysAge
    <3>3. swap[t].waited \in 0..Patience
      BY <2>1 DEF Progress
    <3>4. (swap[t].attempt - 1) * Patience + Patience = swap[t].attempt * Patience
          /\ (swap[t].attempt - 1) * Patience \in Int
      BY <2>1, OneMore
    <3> QED
      BY <2>1, <3>2, <3>3, <3>4
  <2>5. CASE \/ \E u \in Orders : GiveUp(u)
             \/ Accept \/ Refuse \/ Land \/ SwapTick \/ TokenTurns \/ UNCHANGED swapVars
    <3>1. swap'[t].attempt = swap[t].attempt
      <4>1. CASE \E u \in Orders : GiveUp(u)
        BY <2>1, <4>1, AttemptsAreSent DEF GiveUp
      <4>2. CASE Accept \/ Refuse
        <5>1. PICK r \in requests : \/ UNCHANGED swap
                                   \/ \E phase : swap' = [swap EXCEPT ![r[1]].phase = phase,
                                                                    ![r[1]].waited = 0]
          BY <4>2 DEF Accept, Refuse, Answer
        <5>2. r[1] \in Orders
          BY <2>1 DEF WireInv, WireTypes
        <5>3. swap[r[1]] \in Progress
          BY <2>1, <5>2
        <5>4. ASSUME NEW phase, swap' = [swap EXCEPT ![r[1]].phase = phase, ![r[1]].waited = 0]
              PROVE  swap'[t].attempt = swap[t].attempt
          <6> DEFINE new == [swap[r[1]] EXCEPT !.phase = phase, !.waited = 0]
          <6>1. new.attempt = swap[r[1]].attempt
            BY <5>3 DEF Progress
          <6>2. swap' = [swap EXCEPT ![r[1]] = new]
            BY <2>1, <5>2, <5>4
          <6> HIDE DEF new
          <6> QED
            BY <2>1, <5>2, <6>1, <6>2
        <5> QED
          BY <5>1, <5>4
      <4>3. CASE Land \/ TokenTurns \/ UNCHANGED swapVars
        BY <4>3 DEF Land, TokenTurns, swapVars
      <4>4. CASE SwapTick
        <5>1. swap'[t] = IF Sending(t) THEN [swap[t] EXCEPT !.waited = @ + 1] ELSE swap[t]
          BY <4>4 DEF SwapTick
        <5> QED
          BY <2>1, <5>1 DEF Progress
      <4> QED
        BY <2>5, <4>1, <4>2, <4>3, <4>4
    <3> QED
      BY <2>1, <3>1
  <2> QED
    BY <2>2, <2>3, <2>4, <2>5 DEF SwapNext, Swapping
<1> QED
  BY <1>1, SwapInvariant, PTL DEF SwapSpec, NoStaleBuy

(* A sweep begins only when no report is fresh and no other sweep of the   *)
(* token is under way, whichever task queued, woke or failed before.       *)
THEOREM NoRedundantSweepTheorem == SwapSpec => NoRedundantSweep
<1>1. SwapIInv /\ [SwapNext]_swapVars =>
        \A t \in Orders : ~Sweeping(t) /\ Sweeping(t)' =>
          /\ ~Fresh(MintOf[t])
          /\ \A u \in Orders : MintOf[u] = MintOf[t] => ~Sweeping(u)
  <2> SUFFICES ASSUME SwapIInv, [SwapNext]_swapVars, NEW t \in Orders, ~Sweeping(t), Sweeping(t)'
               PROVE  /\ ~Fresh(MintOf[t])
                      /\ \A u \in Orders : MintOf[u] = MintOf[t] => ~Sweeping(u)
    OBVIOUS
  <2>1. ASSUME NEW v \in Orders, Buy(v) \/ Resume(v)
        PROVE  /\ ~Fresh(MintOf[t])
               /\ \A u \in Orders : MintOf[u] = MintOf[t] => ~Sweeping(u)
    <3>1. ScreenMoves(v) /\ ScreenInv
      BY <2>1 DEF Buy, Resume, ScreenMoves, SwapIInv
    <3> QED
      BY <3>1, SweepBegins
  <2>2. UNCHANGED stage => FALSE
    BY DEF Sweeping
  <2> QED
    BY <2>1, <2>2 DEF SwapNext, Swapping, Sell, Resend, GiveUp, Accept, Refuse, Answer, Land, SwapTick,
       ScreenTick, TokenTurns, ChainMoves, swapVars, screenVars
<1> QED
  BY <1>1, SwapInvariant, PTL DEF SwapSpec, NoRedundantSweep
=============================================================================
