---------------------------- MODULE EngineProofs ----------------------------
(***************************************************************************)
(* Proofs about Engine: for any set of instruments on any venues, any book *)
(* views, thresholds and sizes, any number of retries, days, crashes and   *)
(* restarts.                                                               *)
(***************************************************************************)
EXTENDS Engine, DataLemmas, TLAPS

(***************************************************************************)
(* The regime gate.                                                        *)
(***************************************************************************)

(* resolve: a halt dominates the clock, and every answer is a regime.      *)
LEMMA ResolveHalted ==
  ASSUME NEW kind, NEW night \in BOOLEAN
  PROVE  Resolve(kind, TRUE, night) = "HALTED"
  BY DEF Resolve

LEMMA ResolveRegime ==
  ASSUME NEW kind, NEW halted \in BOOLEAN, NEW night \in BOOLEAN
  PROVE  Resolve(kind, halted, night) \in Regimes
  BY DEF Resolve, Regimes

(* engine.py's control loop never leaves a gate open behind a halt.        *)
THEOREM GateTheorem == Spec => []GateFollowsRisk
<1>1. Init => GateFollowsRisk
  BY DEF Init, RiskInit, GateFollowsRisk, Halted
<1>2. GateFollowsRisk /\ [Next]_vars => GateFollowsRisk'
  <2> SUFFICES ASSUME GateFollowsRisk, [Next]_vars PROVE GateFollowsRisk'
    OBVIOUS
  <2>1. CASE ControlTick
    <3>1. PICK night \in BOOLEAN :
            regime' = [i \in Instruments |-> Resolve(Kind[i], Halted', night)]
      BY <2>1 DEF ControlTick, SetRegimes
    <3>2. ASSUME Halted', NEW i \in Instruments PROVE regime'[i] = "HALTED"
      <4>1. Halted' = TRUE
        BY <3>2, Zenon DEF Halted
      <4>2. regime'[i] = Resolve(Kind[i], TRUE, night)
        BY <3>1, <4>1, Zenon
      <4> QED
        BY <4>2, ResolveHalted
    <3> QED
      BY <3>2 DEF GateFollowsRisk
  <2>2. CASE Restart
    BY <2>2 DEF Restart, LoadCheckpoints, RiskRestart, GateFollowsRisk, Halted
  <2>3. CASE UNCHANGED <<regime, breaker_latched, breakdown>>
    BY <2>3 DEF GateFollowsRisk, Halted
  <2>4. ASSUME NEW i \in Instruments,
               \/ FrameApplied(i) \/ FeedCleared(i)
               \/ Decides(i) \/ Answered(i) \/ Retransmit(i) \/ Checkpoint(i)
        PROVE  UNCHANGED <<regime, breaker_latched, breakdown>>
    BY <2>4 DEF FrameApplied, FeedCleared, Decides, Flush, Enter, Exit, Requote, Trail,
                Answered, EntryAcked, SellAcked, QuoteAcked, CancelReturned, Rejected,
                RouterRaises, Retransmit, Checkpoint, signalVars, riskVars
  <2>5. CASE Crash
    BY <2>5, <2>3 DEF Crash, signalVars, riskVars
  <2>6. CASE UNCHANGED vars
    BY <2>6, <2>3 DEF vars, signalVars, riskVars
  <2> QED
    BY <2>1, <2>2, <2>3, <2>4, <2>5, <2>6 DEF Next
<1> QED
  BY <1>1, <1>2, PTL DEF Spec

(***************************************************************************)
(* Types.                                                                  *)
(***************************************************************************)

(* Every book an instrument can show is a record of the expected shape,    *)
(* and clearing it yields another.                                         *)
LEMMA ViewsAreBookViews ==
  ASSUME NEW b \in Views
  PROVE  b \in BookViews /\ Cleared(b) \in Views
<1>1. CASE b \in Books
  BY <1>1, BooksAssumption DEF Views
<1>2. CASE b = EmptyBook
  <2>1. EmptyBook \in BookViews
    BY DEF EmptyBook, BookViews
  <2>2. Cleared(EmptyBook) = EmptyBook
    BY DEF Cleared, EmptyBook
  <2> QED
    BY <1>2, <2>1, <2>2 DEF Views
<1>3. CASE b \in {Cleared(v) : v \in Books}
  <2>1. PICK v \in Books : b = Cleared(v)
    BY <1>3
  <2>2. v \in BookViews
    BY BooksAssumption
  <2>3. b \in BookViews
    BY <2>1, <2>2 DEF Cleared, BookViews
  <2>4. Cleared(b) = b
    BY <2>1, <2>2 DEF Cleared, BookViews
  <2> QED
    BY <1>3, <2>3, <2>4 DEF Views
<1> QED
  BY <1>1, <1>2, <1>3 DEF Views

LEMMA MidIsPrice ==
  ASSUME NEW b \in BookViews
  PROVE  Mid(b) \in Nat
<1>1. b.bid \in Nat /\ b.ask \in Nat /\ b.last \in Nat
  BY DEF BookViews
<1> QED
  BY <1>1 DEF Mid

(* The router calls the engine makes are well formed.                      *)
LEMMA CallType ==
  ASSUME NEW op \in Ops, NEW qty \in Nat, NEW px \in Nat
  PROVE  Call(op, qty, px) \in Calls
  BY EngineAssumption DEF Call, Calls

LEMMA IdleType == Idle \in Calls
  BY EngineAssumption DEF Idle, Calls, Ops

(* The engine's bookkeeping keeps its types, through restarts too: what a  *)
(* checkpoint gives back is a position, a regime and a book.               *)
THEOREM ControlTypesTheorem == Spec => []ControlTypeOK
<1>1. Init => ControlTypeOK
  BY IdleType DEF Init, SignalInit, ControlTypeOK, SignalTypeOK, Prices, Views, Regimes
<1>2. ControlTypeOK /\ [Next]_vars => ControlTypeOK'
  <2> SUFFICES ASSUME ControlTypeOK, [Next]_vars PROVE ControlTypeOK'
    OBVIOUS
  <2> USE DEF ControlTypeOK, SignalTypeOK
  <2>1. ASSUME NEW i \in Instruments, FrameApplied(i) PROVE ControlTypeOK'
    BY <2>1 DEF FrameApplied, Views, signalVars, ledgerVars
  <2>2. ASSUME NEW i \in Instruments, FeedCleared(i) PROVE ControlTypeOK'
    BY <2>2, ViewsAreBookViews DEF FeedCleared, signalVars, ledgerVars
  <2>3. ASSUME NEW i \in Instruments, Flush(i) PROVE ControlTypeOK'
    <3>1. Call("cancel", 0, 0) \in Calls
      BY CallType DEF Ops
    <3>2. (IF i \in open_orders THEN Call("cancel", 0, 0) ELSE Idle) \in Calls
      BY <3>1, IdleType
    <3> QED
      BY <2>3, <3>2 DEF Flush, Prices
  <2>4. ASSUME NEW i \in Instruments, Enter(i) PROVE ControlTypeOK'
    <3>1. PICK qty \in 1..BaseNotional :
            call' = [call EXCEPT ![i] = Call("enter", qty, book[i].ask)]
      BY <2>4 DEF Enter
    <3>2. book[i].ask \in Nat
      BY ViewsAreBookViews DEF BookViews
    <3>3. Call("enter", qty, book[i].ask) \in Calls
      BY <3>2, CallType, RiskConfigAssumption DEF Ops, Orders
    <3> QED
      BY <2>4, <3>1, <3>3 DEF Enter, signalVars, ledgerVars
  <2>5. ASSUME NEW i \in Instruments, Exit(i) PROVE ControlTypeOK'
    <3>1. book[i].bid \in Nat /\ position[i] \in Nat
      BY ViewsAreBookViews DEF BookViews
    <3>2. Call("exit", position[i], book[i].bid) \in Calls
      BY <3>1, CallType DEF Ops, Orders, Sells
    <3> QED
      BY <2>5, <3>2 DEF Exit, signalVars, ledgerVars
  <2>6. ASSUME NEW i \in Instruments, Requote(i) PROVE ControlTypeOK'
    <3>1. book[i] \in BookViews /\ DeepBidPrice(book[i]) > 0
      BY <2>6, ViewsAreBookViews DEF Requote
    <3>2. DeepBidPrice(book[i]) \in Nat
      <4>1. book[i].vwap \in Nat /\ book[i].sigma \in Nat /\ NightK \in Nat
        BY <3>1, SignalConfigAssumption DEF BookViews
      <4> QED
        BY <3>1, <4>1 DEF DeepBidPrice
    <3>3. \A op \in {"requote", "quote"} : Call(op, 0, DeepBidPrice(book[i])) \in Calls
      BY <3>2, CallType DEF Ops, Orders
    <3> QED
      BY <2>6, <3>3 DEF Requote, signalVars, ledgerVars
  <2>7. ASSUME NEW i \in Instruments, Trail(i) PROVE ControlTypeOK'
    <3>1. Mid(book[i]) \in Nat /\ book[i].sigma \in Nat /\ position[i] \in Nat
      BY ViewsAreBookViews, MidIsPrice DEF BookViews
    <3>2. MaxOf(trail_stops[i], TrailProposal(book[i])) \in Nat
      BY <3>1 DEF Prices, MaxOf, TrailProposal
    <3>3. Call("trail", position[i], Mid(book[i])) \in Calls
      BY <3>1, CallType DEF Ops, Orders, Sells
    <3>4. trail_stops' \in Prices /\ call' \in [Instruments -> Calls]
      BY <2>7, <3>2, <3>3 DEF Trail, Prices
    <3> QED
      BY <2>7, <3>4 DEF Trail, signalVars
  <2>8. ASSUME NEW i \in Instruments, EntryAcked(i) PROVE ControlTypeOK'
    <3>1. call[i].qty \in Nat /\ call[i].px \in Nat
      BY DEF Calls
    <3> QED
      BY <2>8, <3>1, IdleType DEF EntryAcked, SetPosition, Prices, Recorded
  <2>9. ASSUME NEW i \in Instruments, SellAcked(i) PROVE ControlTypeOK'
    BY <2>9, IdleType DEF SellAcked, SetPosition, Prices, Recorded
  <2>10. ASSUME NEW i \in Instruments, QuoteAcked(i) PROVE ControlTypeOK'
    <3>1. call[i].px \in Nat
      BY DEF Calls
    <3> QED
      BY <2>10, <3>1, IdleType DEF QuoteAcked, Prices, Recorded, signalVars
  <2>11. ASSUME NEW i \in Instruments, CancelReturned(i) PROVE ControlTypeOK'
    <3>1. call[i].px \in Nat
      BY DEF Calls
    <3>2. Call("quote", 0, call[i].px) \in Calls
      BY <3>1, CallType DEF Ops, Orders
    <3> QED
      BY <2>11, <3>2, IdleType DEF CancelReturned, signalVars
  <2>12. ASSUME NEW i \in Instruments, Rejected(i) PROVE ControlTypeOK'
    BY <2>12, IdleType DEF Rejected, signalVars, ledgerVars
  <2>13. ASSUME NEW i \in Instruments, Retransmit(i) PROVE ControlTypeOK'
    <3>1. [call[i] EXCEPT !.sent = call[i].sent + 1] \in Calls
      BY <2>13, EngineAssumption DEF Retransmit, Calls
    <3>2. call' = [call EXCEPT ![i] = [call[i] EXCEPT !.sent = call[i].sent + 1]]
      BY <2>13 DEF Retransmit
    <3> QED
      BY <2>13, <3>1, <3>2 DEF Retransmit, signalVars, ledgerVars
  <2>14. ASSUME NEW i \in Instruments, RouterRaises(i) PROVE ControlTypeOK'
    BY <2>14 DEF RouterRaises, signalVars, ledgerVars
  <2>15. ASSUME NEW i \in Instruments, Checkpoint(i) PROVE ControlTypeOK'
    BY <2>15 DEF Checkpoint, signalVars, ledgerVars
  <2>16. CASE ControlTick
    <3>1. PICK night \in BOOLEAN :
            SetRegimes([i \in Instruments |-> Resolve(Kind[i], Halted', night)])
      BY <2>16 DEF ControlTick
    <3>2. Halted' \in BOOLEAN
      BY DEF Halted
    <3>3. [i \in Instruments |-> Resolve(Kind[i], Halted', night)] \in [Instruments -> Regimes]
      BY <3>2, ResolveRegime
    <3>4. regime' \in [Instruments -> Regimes] /\ posture_dirty' \in [Instruments -> BOOLEAN]
      BY <3>1, <3>3, Zenon DEF SetRegimes
    <3> QED
      BY <2>16, <3>4 DEF ControlTick, ledgerVars
  <2>17. CASE Crash
    BY <2>17 DEF Crash, signalVars, ledgerVars
  <2>18. CASE Restart
    <3>1. \A i \in Instruments : /\ ckpt[i].regime \in Regimes /\ ckpt[i].position \in Nat
                                 /\ ckpt[i].book \in Views
      OBVIOUS
    <3>2. regime' \in [Instruments -> Regimes] /\ position' \in [Instruments -> Nat]
          /\ book' \in [Instruments -> Views]
      BY <2>18, <3>1 DEF Restart, LoadCheckpoints
    <3>3. posture_dirty' \in [Instruments -> BOOLEAN]
      BY <2>18 DEF Restart, LoadCheckpoints
    <3>4. trail_stops' \in Prices /\ deep_bids' \in Prices /\ avg_entry' \in Prices
      BY <2>18 DEF Restart, LoadCheckpoints, Prices
    <3>5. call' \in [Instruments -> Calls] /\ ckpt' = ckpt /\ phase' = "starting"
          /\ open_orders' = {}
      BY <2>18, IdleType DEF Restart, LoadCheckpoints
    <3> QED
      BY <3>2, <3>3, <3>4, <3>5
  <2>19. CASE UNCHANGED vars
    BY <2>19 DEF vars, signalVars, ledgerVars
  <2> QED
    BY <2>1, <2>2, <2>3, <2>4, <2>5, <2>6, <2>7, <2>8, <2>9, <2>10, <2>11, <2>12, <2>13,
       <2>14, <2>15, <2>16, <2>17, <2>18, <2>19 DEF Next, Decides, Answered
<1> QED
  BY <1>1, <1>2, PTL DEF Spec

(* The money accounts.                                                     *)

(* One lot at one price is worth an integer, held or sold.                 *)
LEMMA ProfitIsInt ==
  ASSUME ControlTypeOK, NEW i \in Instruments
  PROVE  Unrealized(i) \in Int /\ SaleProfit(i) \in Int
<1>1. position[i] \in Nat /\ avg_entry[i] \in Nat /\ call[i].qty \in Nat /\ call[i].px \in Nat
  BY DEF ControlTypeOK, SignalTypeOK, Prices, Calls
<1>2. Mid(book[i]) \in Nat
  BY ViewsAreBookViews, MidIsPrice DEF ControlTypeOK
<1>3. ASSUME NEW q \in Nat, NEW a \in Nat, NEW b \in Nat PROVE q * (a - b) \in Int
  BY <1>3
<1>4. position[i] * (Mid(book[i]) - avg_entry[i]) \in Int
  BY <1>1, <1>2, <1>3
<1>5. call[i].qty * (call[i].px - avg_entry[i]) \in Int
  BY <1>1, <1>3
<1> QED
  BY <1>4, <1>5 DEF Unrealized, SaleProfit

(* The profit of the whole portfolio is one too: a sum over its            *)
(* instruments, of which there are finitely many.                          *)
LEMMA TotalIsInt ==
  ASSUME ControlTypeOK, realized_pnl \in Int
  PROVE  TotalPnl \in Int
<1> DEFINE worth == [i \in Instruments |-> Unrealized(i)]
           WorthStep(f, s) == IF s = {} THEN 0
                              ELSE Unrealized(CHOOSE i \in s : TRUE) + f[s \ {CHOOSE i \in s : TRUE}]
<1>1. IsFiniteSet(Instruments)
  BY EngineAssumption
<1>2. ASSUME NEW f, NEW s \in SUBSET Instruments PROVE SumStep(worth, f, s) = WorthStep(f, s)
  <2>1. s # {} => (CHOOSE i \in s : TRUE) \in Instruments
    OBVIOUS
  <2> QED
    BY <2>1 DEF SumStep
<1>3. \A f : [s \in SUBSET Instruments |-> SumStep(worth, f, s)] = [s \in SUBSET Instruments |-> WorthStep(f, s)]
  BY <1>2
<1>4. PICK f : Sums(worth, Instruments, f)
  BY <1>1, SumExists
<1>5. f = [s \in SUBSET Instruments |-> WorthStep(f, s)]
  BY <1>3, <1>4 DEF Sums
<1>6. PICK g : /\ g = [s \in SUBSET Instruments |-> WorthStep(g, s)]
               /\ MapThenSumSet(Unrealized, Instruments) = g[Instruments]
  BY <1>5, Zenon DEF MapThenSumSet, MapThenFoldSet
<1>7. Sums(worth, Instruments, g)
  BY <1>3, <1>6 DEF Sums
<1>8. IntTerms(worth, Instruments)
  BY ProfitIsInt DEF IntTerms
<1> HIDE DEF worth
<1>9. Adds(worth, Instruments, g)
  BY <1>1, <1>7, <1>8, SumIs
<1>10. g[Instruments] \in Int
  BY <1>9 DEF Adds
<1> QED
  BY <1>6, <1>10 DEF TotalPnl

MoneyTypeOK == RiskTypeOK /\ realized_pnl \in Int

(* Equity, the day's mark and realized P&L are amounts of money whatever   *)
(* is held, sold or never filled, on days of any number of samples.        *)
THEOREM EngineTypesTheorem == Spec => []TypeOK
<1>0. StartingEquity \in Int /\ 0 \in Days /\ \A n \in Days : n..MaxDay \subseteq Days
  BY RiskConfigAssumption DEF Days
<1>1. Init => MoneyTypeOK
  <2> SUFFICES ASSUME Init PROVE MoneyTypeOK
    OBVIOUS
  <2>1. RiskInit /\ realized_pnl = 0
    BY DEF Init
  <2>2. equity \in Int /\ hwm \in Int /\ hwm_day \in Days /\ realized_pnl \in Int
    BY <1>0, <2>1 DEF RiskInit
  <2>3. breaker_latched \in BOOLEAN /\ breakdown \in BOOLEAN
    BY <2>1, Zenon DEF RiskInit
  <2> QED
    BY <2>2, <2>3 DEF MoneyTypeOK, RiskTypeOK
<1>2. MoneyTypeOK /\ ControlTypeOK /\ [Next]_vars => MoneyTypeOK'
  <2> SUFFICES ASSUME MoneyTypeOK, ControlTypeOK, [Next]_vars PROVE MoneyTypeOK'
    OBVIOUS
  <2>0. RiskTypeOK /\ realized_pnl \in Int /\ TotalPnl \in Int
    BY TotalIsInt DEF MoneyTypeOK
  <2>1. CASE ControlTick
    <3>1. PICK d \in hwm_day..MaxDay : OnEquity(StartingEquity + TotalPnl, d)
      BY <2>1 DEF ControlTick
    <3>2. breakdown' \in BOOLEAN /\ realized_pnl' = realized_pnl
      BY <2>0, <2>1 DEF ControlTick, OnLeaderPrice, RiskTypeOK, ledgerVars
    <3>3. StartingEquity + TotalPnl \in Int /\ d \in Days
      BY <2>0, RiskConfigAssumption DEF RiskTypeOK, Days
    <3>4. equity' \in Int /\ hwm' \in Int /\ hwm_day' \in Days
      BY <2>0, <3>1, <3>3 DEF OnEquity, MaxOf, RiskTypeOK
    <3>5. breaker_latched' \in BOOLEAN
      BY <3>1, Zenon DEF OnEquity
    <3> QED
      BY <2>0, <3>2, <3>4, <3>5 DEF MoneyTypeOK, RiskTypeOK
  <2>2. CASE Restart
    <3>1. PICK d \in hwm_day..MaxDay : RiskRestart(d)
      BY <2>2 DEF Restart
    <3>2. d \in Days
      BY <1>0, <2>0 DEF RiskTypeOK
    <3>3. equity' \in Int /\ hwm' \in Int /\ hwm_day' \in Days
      BY <1>0, <3>1, <3>2 DEF RiskRestart
    <3>4. breaker_latched' \in BOOLEAN /\ breakdown' \in BOOLEAN
      BY <3>1, Zenon DEF RiskRestart
    <3>5. realized_pnl' \in Int
      BY <2>2 DEF Restart
    <3> QED
      BY <3>3, <3>4, <3>5 DEF MoneyTypeOK, RiskTypeOK
  <2>3. ASSUME NEW i \in Instruments, SellAcked(i) PROVE MoneyTypeOK'
    <3>1. SaleProfit(i) \in Int
      BY ProfitIsInt
    <3> QED
      BY <2>0, <2>3, <3>1 DEF SellAcked, riskVars, MoneyTypeOK, RiskTypeOK
  <2>4. CASE UNCHANGED <<riskVars, realized_pnl>>
    BY <2>0, <2>4 DEF riskVars, MoneyTypeOK, RiskTypeOK
  <2>5. ASSUME NEW i \in Instruments, ~SellAcked(i),
               \/ FrameApplied(i) \/ FeedCleared(i)
               \/ Decides(i) \/ Answered(i) \/ Retransmit(i) \/ Checkpoint(i)
        PROVE  UNCHANGED <<riskVars, realized_pnl>>
    BY <2>5 DEF FrameApplied, FeedCleared, Decides, Flush, Enter, Exit, Requote, Trail,
                Answered, EntryAcked, QuoteAcked, CancelReturned, Rejected,
                RouterRaises, Retransmit, Checkpoint, ledgerVars
  <2>6. CASE Crash
    BY <2>4, <2>6 DEF Crash, ledgerVars
  <2>7. CASE UNCHANGED vars
    BY <2>4, <2>7 DEF vars, ledgerVars
  <2> QED
    BY <2>1, <2>2, <2>3, <2>4, <2>5, <2>6, <2>7 DEF Next
<1>3. ControlTypeOK /\ MoneyTypeOK => TypeOK
  BY DEF TypeOK, MoneyTypeOK
<1> QED
  BY <1>1, <1>2, <1>3, ControlTypesTheorem, PTL DEF Spec

(***************************************************************************)
(* The ledgers.                                                            *)
(***************************************************************************)

(* An entry in flight buys something: with it, the ledger's claim is       *)
(* inductive (an acknowledged entry makes the position positive).          *)
EntriesBuy == \A i \in Instruments : call[i].op = "enter" => call[i].qty > 0

LedgerIInv == LedgerMatchesPosition /\ EntriesBuy

(* Both together are inductive.                                            *)
LEMMA LedgerInvariant == Spec => []LedgerIInv
<1>1. Init => LedgerIInv
  BY DEF Init, SignalInit, LedgerIInv, LedgerMatchesPosition, EntriesBuy, Idle, Sells
<1>2. LedgerIInv /\ ControlTypeOK /\ [Next]_vars => LedgerIInv'
  <2> SUFFICES ASSUME LedgerIInv, ControlTypeOK, [Next]_vars PROVE LedgerIInv'
    OBVIOUS
  <2> USE DEF LedgerIInv, LedgerMatchesPosition, EntriesBuy
  <2>0. /\ position \in [Instruments -> Nat] /\ call \in [Instruments -> Calls]
        /\ trail_stops \in Prices /\ avg_entry \in Prices
    BY DEF ControlTypeOK, SignalTypeOK
  <2>1. CASE UNCHANGED <<position, trail_stops, avg_entry, call>>
    BY <2>1
  <2>2. ASSUME NEW i \in Instruments,
               FrameApplied(i) \/ FeedCleared(i) \/ RouterRaises(i) \/ Checkpoint(i)
        PROVE  LedgerIInv'
    BY <2>2, <2>1 DEF FrameApplied, FeedCleared, RouterRaises, Checkpoint, signalVars,
                      ledgerVars
  <2>3. ASSUME NEW i \in Instruments, NEW c, call' = [call EXCEPT ![i] = c],
               c.op \notin Sells \cup {"enter"},
               UNCHANGED <<position, trail_stops, avg_entry>>
        PROVE  LedgerIInv'
    BY <2>0, <2>3
  <2>4. ASSUME NEW i \in Instruments, Flush(i) PROVE LedgerIInv'
    <3>1. Call("cancel", 0, 0).op \notin Sells \cup {"enter"}
          /\ Idle.op \notin Sells \cup {"enter"}
      BY DEF Call, Idle, Sells
    <3> QED
      BY <2>3, <2>4, <3>1 DEF Flush
  <2>5. ASSUME NEW i \in Instruments, Enter(i) PROVE LedgerIInv'
    <3>1. PICK qty \in 1..BaseNotional :
            call' = [call EXCEPT ![i] = Call("enter", qty, book[i].ask)]
      BY <2>5 DEF Enter
    <3>2. position[i] = 0 /\ qty > 0
      BY <2>5, <2>0, RiskConfigAssumption DEF Enter, WantsEntry
    <3>3. UNCHANGED <<position, trail_stops, avg_entry>>
      BY <2>5 DEF Enter, signalVars, ledgerVars
    <3> QED
      BY <2>0, <3>1, <3>2, <3>3 DEF Call, Sells
  <2>6. ASSUME NEW i \in Instruments, Exit(i) PROVE LedgerIInv'
    <3>1. position[i] > 0 /\ UNCHANGED <<position, trail_stops, avg_entry>>
      BY <2>6 DEF Exit, WantsExit, signalVars, ledgerVars
    <3>2. call' = [call EXCEPT ![i] = Call("exit", position[i], book[i].bid)]
      BY <2>6 DEF Exit
    <3> QED
      BY <2>0, <3>1, <3>2 DEF Call, Sells
  <2>7. ASSUME NEW i \in Instruments, Requote(i) PROVE LedgerIInv'
    <3>1. \A op \in {"requote", "quote"} :
            Call(op, 0, DeepBidPrice(book[i])).op \notin Sells \cup {"enter"}
      BY DEF Call, Sells
    <3> QED
      BY <2>3, <2>7, <3>1 DEF Requote, signalVars, ledgerVars
  <2>8. ASSUME NEW i \in Instruments, Trail(i) PROVE LedgerIInv'
    <3>1. position[i] > 0 /\ UNCHANGED <<position, avg_entry>>
      BY <2>8 DEF Trail, WantsTrail, signalVars
    <3>2. \A j \in Instruments : j # i => trail_stops'[j] = trail_stops[j]
      BY <2>8, <2>0 DEF Trail, Prices
    <3>3. CASE UNCHANGED call
      BY <2>0, <3>1, <3>2, <3>3
    <3>4. CASE call' = [call EXCEPT ![i] = Call("trail", position[i], Mid(book[i]))]
      BY <2>0, <3>1, <3>2, <3>4 DEF Call, Sells
    <3> QED
      BY <2>8, <3>3, <3>4 DEF Trail
  <2>9. ASSUME NEW i \in Instruments, EntryAcked(i) PROVE LedgerIInv'
    <3>1. call[i].op = "enter" /\ call[i].qty > 0 /\ call[i].qty \in Nat /\ position[i] = 0
      BY <2>9, <2>0 DEF EntryAcked, Calls
    <3>2. position' = [position EXCEPT ![i] = position[i] + call[i].qty]
          /\ call' = [call EXCEPT ![i] = Idle]
          /\ UNCHANGED trail_stops
      BY <2>9 DEF EntryAcked, SetPosition
    <3>3. \A j \in Instruments : j # i => avg_entry'[j] = avg_entry[j]
      BY <2>9, <2>0 DEF EntryAcked, Prices
    <3> QED
      BY <2>0, <3>1, <3>2, <3>3 DEF Idle, Sells
  <2>10. ASSUME NEW i \in Instruments, SellAcked(i) PROVE LedgerIInv'
    <3>1. /\ position' = [position EXCEPT ![i] = 0]
          /\ trail_stops' = [trail_stops EXCEPT ![i] = 0]
          /\ avg_entry' = [avg_entry EXCEPT ![i] = 0]
          /\ call' = [call EXCEPT ![i] = Idle]
      BY <2>10 DEF SellAcked, SetPosition
    <3> QED
      BY <2>0, <3>1 DEF Idle, Sells, Prices
  <2>11. ASSUME NEW i \in Instruments, QuoteAcked(i) \/ Rejected(i) PROVE LedgerIInv'
    <3>1. Idle.op \notin Sells \cup {"enter"}
      BY DEF Idle, Sells
    <3> QED
      BY <2>3, <2>11, <3>1 DEF QuoteAcked, Rejected, signalVars, ledgerVars
  <2>12. ASSUME NEW i \in Instruments, CancelReturned(i) PROVE LedgerIInv'
    <3>1. Idle.op \notin Sells \cup {"enter"}
          /\ Call("quote", 0, call[i].px).op \notin Sells \cup {"enter"}
      BY DEF Idle, Call, Sells
    <3> QED
      BY <2>3, <2>12, <3>1 DEF CancelReturned, signalVars
  <2>13. ASSUME NEW i \in Instruments, Retransmit(i) PROVE LedgerIInv'
    <3>1. \A j \in Instruments : call'[j].op = call[j].op /\ call'[j].qty = call[j].qty
      BY <2>13, <2>0 DEF Retransmit, Calls
    <3>2. UNCHANGED <<position, trail_stops, avg_entry>>
      BY <2>13 DEF Retransmit, signalVars, ledgerVars
    <3> QED
      BY <3>1, <3>2
  <2>14. CASE ControlTick \/ Crash
    BY <2>14, <2>1 DEF ControlTick, Crash, ledgerVars, signalVars
  <2>15. CASE Restart
    BY <2>15 DEF Restart, LoadCheckpoints, Idle, Sells
  <2>16. CASE UNCHANGED vars
    BY <2>16, <2>1 DEF vars, signalVars, ledgerVars
  <2> QED
    BY <2>2, <2>4, <2>5, <2>6, <2>7, <2>8, <2>9, <2>10, <2>11, <2>12, <2>13, <2>14, <2>15,
       <2>16 DEF Next, Decides, Answered
<1> QED
  BY <1>1, <1>2, ControlTypesTheorem, PTL DEF Spec

(* No step of the engine applies an order to a position other than the one *)
(* it was sized for, and no price outlives its position: position guards   *)
(* are read before the await, and nothing else touches the position until  *)
(* the answer.                                                             *)
THEOREM LedgerTheorem == Spec => []LedgerMatchesPosition
<1>1. LedgerIInv => LedgerMatchesPosition
  BY DEF LedgerIInv
<1> QED
  BY <1>1, LedgerInvariant, PTL

(***************************************************************************)
(* The night quote.                                                        *)
(***************************************************************************)

(* A night bid never escapes the posture flush, however the control loop   *)
(* and a cancel-replace in flight interleave.                              *)
THEOREM QuoteTheorem == Spec => []QuoteIsGoverned
<1> DEFINE Quoting(i) == deep_bids[i] # 0 \/ call[i].op \in {"requote", "quote"}
<1>1. Init => QuoteIsGoverned
  BY DEF Init, QuoteIsGoverned, Idle
<1>2. QuoteIsGoverned /\ ControlTypeOK /\ [Next]_vars => QuoteIsGoverned'
  <2> SUFFICES ASSUME QuoteIsGoverned, ControlTypeOK, [Next]_vars PROVE QuoteIsGoverned'
    OBVIOUS
  <2>0. /\ call \in [Instruments -> Calls] /\ deep_bids \in Prices
        /\ regime \in [Instruments -> Regimes] /\ posture_dirty \in [Instruments -> BOOLEAN]
    BY DEF ControlTypeOK, SignalTypeOK
  <2>1. ASSUME UNCHANGED <<regime, posture_dirty>>,
               \A j \in Instruments : Quoting(j)' => Quoting(j)
        PROVE  QuoteIsGoverned'
    BY <2>1 DEF QuoteIsGoverned
  <2>2. ASSUME NEW i \in Instruments,
               \/ FrameApplied(i) \/ FeedCleared(i) \/ RouterRaises(i) \/ Checkpoint(i)
        PROVE  QuoteIsGoverned'
    BY <2>2, <2>1 DEF FrameApplied, FeedCleared, RouterRaises, Checkpoint, signalVars,
                      ledgerVars
  <2>3. ASSUME NEW i \in Instruments, Flush(i) PROVE QuoteIsGoverned'
    <3>1. ~Quoting(i)'
      BY <2>3, <2>0 DEF Flush, Call, Idle, Prices
    <3>2. \A j \in Instruments : j # i => /\ deep_bids'[j] = deep_bids[j] /\ call'[j] = call[j]
                                         /\ posture_dirty'[j] = posture_dirty[j]
      BY <2>3, <2>0 DEF Flush, Prices
    <3>3. UNCHANGED regime
      BY <2>3 DEF Flush
    <3> QED
      BY <3>1, <3>2, <3>3 DEF QuoteIsGoverned
  <2>4. ASSUME NEW i \in Instruments, Enter(i) \/ Exit(i) PROVE QuoteIsGoverned'
    <3>1. \A k \in Instruments : call'[k] = call[k] \/ call'[k].op \in {"enter", "exit"}
      BY <2>4, <2>0 DEF Enter, Exit, Call
    <3>2. UNCHANGED <<regime, posture_dirty, deep_bids>>
      BY <2>4 DEF Enter, Exit, signalVars, ledgerVars
    <3> QED
      BY <3>1, <3>2, <2>1
  <2>5. ASSUME NEW i \in Instruments, Requote(i) PROVE QuoteIsGoverned'
    <3>1. regime[i] = "CEX_NIGHT_PASSIVE" /\ UNCHANGED <<regime, posture_dirty, deep_bids>>
      BY <2>5 DEF Requote, WantsDeepBid, signalVars, ledgerVars
    <3>2. \A j \in Instruments : j # i => call'[j] = call[j]
      BY <2>5, <2>0 DEF Requote
    <3> QED
      BY <3>1, <3>2 DEF QuoteIsGoverned
  <2>6. ASSUME NEW i \in Instruments, Trail(i) PROVE QuoteIsGoverned'
    <3>1. \A j \in Instruments : call'[j] = call[j] \/ call'[j].op = "trail"
      BY <2>6, <2>0 DEF Trail, Call
    <3>2. UNCHANGED <<regime, posture_dirty, deep_bids>>
      BY <2>6 DEF Trail, signalVars
    <3> QED
      BY <3>1, <3>2, <2>1
  <2>7. ASSUME NEW i \in Instruments, EntryAcked(i) \/ SellAcked(i) \/ Rejected(i)
        PROVE  QuoteIsGoverned'
    <3>1. call' = [call EXCEPT ![i] = Idle] /\ UNCHANGED <<regime, posture_dirty, deep_bids>>
      BY <2>7 DEF EntryAcked, SellAcked, Rejected, signalVars, ledgerVars
    <3> QED
      BY <3>1, <2>0, <2>1 DEF Idle
  <2>8. ASSUME NEW i \in Instruments, QuoteAcked(i) PROVE QuoteIsGoverned'
    <3>1. call[i].op = "quote" /\ call' = [call EXCEPT ![i] = Idle]
          /\ UNCHANGED <<regime, posture_dirty>>
          /\ deep_bids' = [deep_bids EXCEPT ![i] = call[i].px]
      BY <2>8 DEF QuoteAcked, signalVars
    <3> QED
      BY <3>1, <2>0, <2>1 DEF Idle, Prices
  <2>9. ASSUME NEW i \in Instruments, CancelReturned(i) PROVE QuoteIsGoverned'
    <3>1. UNCHANGED <<regime, posture_dirty, deep_bids>>
      BY <2>9 DEF CancelReturned, signalVars
    <3>2. \A j \in Instruments :
            call'[j].op \in {"requote", "quote"} => call[j].op \in {"requote", "quote"}
      BY <2>9, <2>0 DEF CancelReturned, Call, Idle
    <3> QED
      BY <3>1, <3>2, <2>1
  <2>10. ASSUME NEW i \in Instruments, Retransmit(i) PROVE QuoteIsGoverned'
    <3>1. \A j \in Instruments : call'[j].op = call[j].op
      BY <2>10, <2>0 DEF Retransmit, Calls
    <3>2. UNCHANGED <<regime, posture_dirty, deep_bids>>
      BY <2>10 DEF Retransmit, signalVars, ledgerVars
    <3> QED
      BY <3>1, <3>2, <2>1
  <2>11. CASE ControlTick
    <3>1. PICK new \in {[i \in Instruments |-> Resolve(Kind[i], Halted', night)] :
                          night \in BOOLEAN} : SetRegimes(new)
      BY <2>11 DEF ControlTick
    <3>2. \A j \in Instruments :
            posture_dirty'[j] \/ (posture_dirty[j] = FALSE /\ regime'[j] = regime[j])
      BY <3>1, <2>0 DEF SetRegimes
    <3>3. \A j \in Instruments : posture_dirty[j] => posture_dirty'[j]
      BY <3>1, <2>0 DEF SetRegimes
    <3>4. UNCHANGED <<call, deep_bids>>
      BY <2>11 DEF ControlTick, ledgerVars
    <3> QED
      BY <3>2, <3>3, <3>4 DEF QuoteIsGoverned
  <2>12. CASE Crash
    BY <2>12, <2>1 DEF Crash, ledgerVars, signalVars
  <2>13. CASE Restart
    BY <2>13 DEF Restart, LoadCheckpoints, Idle, QuoteIsGoverned
  <2>14. CASE UNCHANGED vars
    BY <2>14, <2>1 DEF vars, signalVars, ledgerVars
  <2> QED
    BY <2>2, <2>3, <2>4, <2>5, <2>6, <2>7, <2>8, <2>9, <2>10, <2>11, <2>12, <2>13, <2>14
       DEF Next, Decides, Answered
<1> QED
  BY <1>1, <1>2, ControlTypesTheorem, PTL DEF Spec

(***************************************************************************)
(* The trailing stop.                                                      *)
(***************************************************************************)

(* engine.py's "the stop only ever moves UP" holds across every other      *)
(* task's steps and every answer, until the position is sold.              *)
THEOREM StopTheorem == Spec => StopNeverLoosens
<1>1. ControlTypeOK /\ [Next]_vars =>
        [\A i \in Instruments :
           phase = "up" /\ position'[i] > 0 => trail_stops'[i] >= trail_stops[i]]_vars
  <2> SUFFICES ASSUME ControlTypeOK, Next,
                      NEW j \in Instruments, phase = "up", position'[j] > 0
               PROVE  trail_stops'[j] >= trail_stops[j]
    BY Zenon
  <2>0. /\ \A i \in Instruments : trail_stops[i] \in Nat
        /\ position \in [Instruments -> Nat] /\ trail_stops \in Prices
    BY DEF ControlTypeOK, SignalTypeOK, Prices
  <2>1. CASE UNCHANGED trail_stops
    BY <2>0, <2>1
  <2>2. ASSUME NEW i \in Instruments, Trail(i)
        PROVE  trail_stops'[j] >= trail_stops[j]
    <3>1. trail_stops' = [trail_stops EXCEPT ![i] =
                            MaxOf(trail_stops[i], TrailProposal(book[i]))]
      BY <2>2 DEF Trail
    <3>2. TrailProposal(book[i]) \in Int
      <4>1. book[i] \in Views
        BY DEF ControlTypeOK
      <4>2. Mid(book[i]) \in Nat /\ book[i].sigma \in Nat
        BY <4>1, ViewsAreBookViews, MidIsPrice DEF BookViews
      <4> QED
        BY <4>2 DEF TrailProposal
    <3> QED
      BY <2>0, <3>1, <3>2 DEF Prices, MaxOf
  <2>3. ASSUME NEW i \in Instruments, SellAcked(i)
        PROVE  trail_stops'[j] >= trail_stops[j]
    <3>1. position' = [position EXCEPT ![i] = 0]
          /\ trail_stops' = [trail_stops EXCEPT ![i] = 0]
      BY <2>3 DEF SellAcked, SetPosition
    <3>2. j # i
      BY <3>1, <2>0
    <3> QED
      BY <3>1, <3>2, <2>0 DEF Prices
  <2>4. ASSUME NEW i \in Instruments,
               \/ FrameApplied(i) \/ FeedCleared(i) \/ Flush(i) \/ Enter(i) \/ Exit(i)
               \/ Requote(i) \/ EntryAcked(i) \/ QuoteAcked(i) \/ CancelReturned(i)
               \/ Rejected(i) \/ RouterRaises(i) \/ Retransmit(i) \/ Checkpoint(i)
        PROVE  UNCHANGED trail_stops
    BY <2>4 DEF FrameApplied, FeedCleared, Flush, Enter, Exit, Requote, EntryAcked,
                QuoteAcked, CancelReturned, Rejected, RouterRaises, Retransmit, Checkpoint,
                ledgerVars
  <2>5. CASE ControlTick \/ Crash
    BY <2>5, <2>1 DEF ControlTick, Crash, ledgerVars
  <2>6. CASE Restart
    BY <2>6 DEF Restart, LoadCheckpoints
  <2> QED
    BY <2>1, <2>2, <2>3, <2>4, <2>5, <2>6 DEF Next, Decides, Answered
<1> QED
  BY <1>1, ControlTypesTheorem, PTL DEF Spec, StopNeverLoosens

(***************************************************************************)
(* The life of a trade.                                                    *)
(***************************************************************************)

(* A step of one instrument that keeps the rest is a move of its trade, or *)
(* none when its stage is kept too.                                        *)
LEMMA LifeMoves ==
  ASSUME NEW i \in Instruments, NEW to, phase = "up", UNCHANGED <<riskVars, phase, ckpt>>,
         Stage(i)' = to, \A j \in Instruments : j # i => Stage(j)' = Stage(j)
  PROVE  Life!Moves(i, Stage(i), to)
<1>1. [j \in Instruments |-> Stage(j)]' = [[j \in Instruments |-> Stage(j)] EXCEPT ![i] = to]
  OBVIOUS
<1>2. Halted' = Halted
  BY DEF riskVars, Halted
<1> QED
  BY <1>1, <1>2 DEF Life!Moves

LEMMA LifeStutters ==
  ASSUME UNCHANGED <<riskVars, phase, ckpt>>,
         \A j \in Instruments : Stage(j)' = Stage(j)
  PROVE  UNCHANGED Life!lifeVars
<1>1. Halted' = Halted
  BY DEF riskVars, Halted
<1> QED
  BY <1>1 DEF Life!lifeVars

(* The engine implements the life of a trade for any set of instruments:   *)
(* every step of it is one move of one instrument, a control round, a      *)
(* save, a stop or a restart there, or changes nothing there.              *)
THEOREM LifecycleTheorem == Spec => ImplementsLifecycle
<1>1. Init => Life!Init
  BY DEF Init, SignalInit, RiskInit, Halted, Life!Init, Stage, Held, Idle, Sells
<1>2. ControlTypeOK /\ GateFollowsRisk /\ LedgerIInv /\ [Next]_vars
        => [Life!Next]_(Life!lifeVars)
  <2> SUFFICES ASSUME ControlTypeOK, GateFollowsRisk, LedgerIInv, [Next]_vars
               PROVE  [Life!Next]_(Life!lifeVars)
    OBVIOUS
  <2>0. position \in [Instruments -> Nat] /\ call \in [Instruments -> Calls]
    BY DEF ControlTypeOK, SignalTypeOK
  <2>1. CASE UNCHANGED <<riskVars, phase, position, call, ckpt>>
    <3>1. \A j \in Instruments : Stage(j)' = Stage(j)
      BY <2>1 DEF Stage
    <3> QED
      BY <2>1, <3>1, LifeStutters
  <2>2. ASSUME NEW i \in Instruments, FrameApplied(i) \/ FeedCleared(i)
        PROVE  [Life!Next]_(Life!lifeVars)
    BY <2>2, <2>1 DEF FrameApplied, FeedCleared, signalVars
  <2>3. ASSUME NEW i \in Instruments, NEW c, call' = [call EXCEPT ![i] = c],
               c.op \notin Sells \cup {"enter"}, call[i].op \notin Sells \cup {"enter"},
               UNCHANGED <<riskVars, phase, position, ckpt>>
        PROVE  [Life!Next]_(Life!lifeVars)
    <3>1. \A j \in Instruments : Stage(j)' = Stage(j)
      BY <2>0, <2>3 DEF Stage
    <3> QED
      BY <2>3, <3>1, LifeStutters
  <2>4. ASSUME NEW i \in Instruments, Flush(i) \/ Requote(i)
        PROVE  [Life!Next]_(Life!lifeVars)
    <3>1. /\ \A op \in {"cancel", "requote", "quote"}, px \in {0, DeepBidPrice(book[i])} :
               Call(op, 0, px).op \notin Sells \cup {"enter"}
          /\ Idle.op \notin Sells \cup {"enter"}
      BY DEF Call, Idle, Sells
    <3>2. PICK c : call' = [call EXCEPT ![i] = c] /\ c.op \notin Sells \cup {"enter"}
      BY <2>4, <3>1 DEF Flush, Requote
    <3> QED
      BY <2>3, <2>4, <3>1, <3>2 DEF Flush, Requote, Awake, signalVars
  <2>5. ASSUME NEW i \in Instruments, Enter(i) PROVE Life!Next
    <3>1. PICK qty \in 1..BaseNotional :
            call' = [call EXCEPT ![i] = Call("enter", qty, book[i].ask)]
      BY <2>5 DEF Enter
    <3>2. phase = "up" /\ call[i] = Idle /\ position[i] <= 0 /\ regime[i] = "NORMAL"
          /\ UNCHANGED <<riskVars, phase, position, ckpt>>
      BY <2>5 DEF Enter, Awake, WantsEntry, signalVars
    <3>3. Stage(i) = "flat" /\ Stage(i)' = "buying"
          /\ \A j \in Instruments : j # i => Stage(j)' = Stage(j)
      BY <2>0, <3>1, <3>2 DEF Stage, Held, Call, Idle, Sells
    <3>4. ~Halted
      BY <3>2 DEF GateFollowsRisk
    <3>5. Life!Moves(i, "flat", "buying")
      BY <3>2, <3>3, LifeMoves
    <3> QED
      BY <3>4, <3>5 DEF Life!Next, Life!Buy
  <2>6. ASSUME NEW i \in Instruments, NEW op \in Sells, NEW px,
               call' = [call EXCEPT ![i] = Call(op, position[i], px)],
               Awake(i), position[i] > 0, UNCHANGED <<riskVars, phase, position, ckpt>>
        PROVE  Life!Next
    <3>1. Stage(i) = "long" /\ Stage(i)' = "selling"
          /\ \A j \in Instruments : j # i => Stage(j)' = Stage(j)
      BY <2>0, <2>6 DEF Stage, Held, Call, Awake, Idle, Sells
    <3>2. Life!Moves(i, "long", "selling")
      BY <2>6, <3>1, LifeMoves DEF Awake
    <3> QED
      BY <3>2 DEF Life!Next, Life!Sell
  <2>7. ASSUME NEW i \in Instruments, Exit(i) PROVE Life!Next
    <3>1. "exit" \in Sells
      BY DEF Sells
    <3> QED
      BY <2>6, <2>7, <3>1 DEF Exit, WantsExit, signalVars
  <2>8. ASSUME NEW i \in Instruments, Trail(i) PROVE [Life!Next]_(Life!lifeVars)
    <3>1. "trail" \in Sells
      BY DEF Sells
    <3>2. Awake(i) /\ position[i] > 0 /\ UNCHANGED <<riskVars, phase, position, ckpt>>
      BY <2>8 DEF Trail, WantsTrail, signalVars
    <3>3. CASE UNCHANGED call
      BY <2>1, <3>2, <3>3
    <3>4. CASE call' = [call EXCEPT ![i] = Call("trail", position[i], Mid(book[i]))]
      BY <2>6, <3>1, <3>2, <3>4
    <3> QED
      BY <2>8, <3>3, <3>4 DEF Trail
  <2>9. ASSUME NEW i \in Instruments, EntryAcked(i) PROVE Life!Next
    <3>1. call[i].op = "enter" /\ call[i].qty > 0 /\ call[i].qty \in Nat /\ position[i] = 0
      BY <2>9, <2>0 DEF EntryAcked, Calls, LedgerIInv, LedgerMatchesPosition, EntriesBuy
    <3>2. position' = [position EXCEPT ![i] = position[i] + call[i].qty]
          /\ call' = [call EXCEPT ![i] = Idle]
          /\ phase = "up" /\ UNCHANGED <<riskVars, phase, ckpt>>
      BY <2>9 DEF EntryAcked, SetPosition
    <3>3. Stage(i) = "buying" /\ Stage(i)' = "long"
          /\ \A j \in Instruments : j # i => Stage(j)' = Stage(j)
      BY <2>0, <3>1, <3>2 DEF Stage, Held, Idle, Sells
    <3>4. Life!Moves(i, "buying", "long")
      BY <3>2, <3>3, LifeMoves
    <3> QED
      BY <3>4 DEF Life!Next, Life!Bought
  <2>10. ASSUME NEW i \in Instruments, SellAcked(i) PROVE Life!Next
    <3>1. call[i].op \in Sells /\ position' = [position EXCEPT ![i] = 0]
          /\ call' = [call EXCEPT ![i] = Idle]
          /\ phase = "up" /\ UNCHANGED <<riskVars, phase, ckpt>>
      BY <2>10 DEF SellAcked, SetPosition
    <3>2. Stage(i) = "selling" /\ Stage(i)' = "flat"
          /\ \A j \in Instruments : j # i => Stage(j)' = Stage(j)
      BY <2>0, <3>1 DEF Stage, Held, Idle, Sells
    <3>3. Life!Moves(i, "selling", "flat")
      BY <3>1, <3>2, LifeMoves
    <3> QED
      BY <3>3 DEF Life!Next, Life!Sold
  <2>11. ASSUME NEW i \in Instruments, QuoteAcked(i) \/ CancelReturned(i)
         PROVE  [Life!Next]_(Life!lifeVars)
    <3>1. /\ Call("quote", 0, call[i].px).op \notin Sells \cup {"enter"}
          /\ Idle.op \notin Sells \cup {"enter"}
      BY DEF Call, Idle, Sells
    <3>2. call[i].op \notin Sells \cup {"enter"}
      BY <2>11 DEF QuoteAcked, CancelReturned, Sells
    <3> QED
      BY <2>3, <2>11, <3>1, <3>2 DEF QuoteAcked, CancelReturned, signalVars
  <2>12. ASSUME NEW i \in Instruments, Rejected(i) PROVE [Life!Next]_(Life!lifeVars)
    <3>1. call' = [call EXCEPT ![i] = Idle] /\ phase = "up"
          /\ UNCHANGED <<riskVars, phase, position, ckpt>>
      BY <2>12 DEF Rejected, signalVars
    <3>2. Stage(i)' = Held(position[i]) /\ \A j \in Instruments : j # i => Stage(j)' = Stage(j)
      BY <2>0, <3>1 DEF Stage, Idle, Sells
    <3>3. CASE call[i].op = "enter"
      <4>1. Stage(i) = "buying" /\ Held(position[i]) = "flat"
        BY <3>3 DEF Stage, Held, LedgerIInv, LedgerMatchesPosition
      <4>2. Life!Moves(i, "buying", "flat")
        BY <3>1, <3>2, <4>1, LifeMoves
      <4> QED
        BY <4>2 DEF Life!Next, Life!Missed
    <3>4. CASE call[i].op \in Sells
      <4>1. Stage(i) = "selling" /\ Held(position[i]) = "long"
        BY <3>4 DEF Stage, Held, Sells, LedgerIInv, LedgerMatchesPosition
      <4>2. Life!Moves(i, "selling", "long")
        BY <3>1, <3>2, <4>1, LifeMoves
      <4> QED
        BY <4>2 DEF Life!Next, Life!Kept
    <3>5. CASE call[i].op \notin Sells \cup {"enter"}
      <4>1. Idle.op \notin Sells \cup {"enter"}
        BY DEF Idle, Sells
      <4> QED
        BY <2>3, <3>1, <3>5, <4>1
    <3> QED
      BY <3>3, <3>4, <3>5
  <2>13. ASSUME NEW i \in Instruments, Retransmit(i) PROVE [Life!Next]_(Life!lifeVars)
    <3>1. \A j \in Instruments : call'[j].op = call[j].op
      BY <2>13, <2>0 DEF Retransmit, Calls
    <3>2. UNCHANGED <<riskVars, phase, position, ckpt>>
      BY <2>13 DEF Retransmit, signalVars
    <3> QED
      BY <3>1, <3>2, LifeStutters DEF Stage
  <2>14. ASSUME NEW i \in Instruments, Checkpoint(i) PROVE Life!Next
    <3>1. phase = "up" /\ UNCHANGED <<riskVars, phase, position, call>>
          /\ ckpt' = [ckpt EXCEPT ![i] =
                [position |-> position[i], regime |-> regime[i], book |-> book[i]]]
      BY <2>14 DEF Checkpoint, signalVars
    <3>2. Held(position[i]) = IF Stage(i) \in {"flat", "buying"} THEN "flat" ELSE "long"
      BY <2>0 DEF Stage, Held, Sells, LedgerIInv, LedgerMatchesPosition
    <3>3. \A j \in Instruments : Stage(j)' = Stage(j)
      BY <3>1 DEF Stage
    <3>4. ckpt \in [Instruments -> [position : Nat, regime : Regimes, book : Views]]
      BY DEF ControlTypeOK
    <3>5. /\ Held(ckpt'[i].position) = Held(position[i])
          /\ \A j \in Instruments : j # i => ckpt'[j] = ckpt[j]
      BY <3>1, <3>4
    <3>6. Halted' = Halted
      BY <3>1 DEF riskVars, Halted
    <3>7. [j \in Instruments |-> Held(ckpt[j].position)]'
            = [[j \in Instruments |-> Held(ckpt[j].position)]
                 EXCEPT ![i] = Held(position[i])]
      BY <3>5
    <3>8. UNCHANGED [j \in Instruments |-> Stage(j)]
      BY <3>3
    <3>9. [j \in Instruments |-> Stage(j)][i] = Stage(i)
      OBVIOUS
    <3>10. Life!Save(i)
      <4>1. (phase = "up") /\ UNCHANGED <<Halted, phase = "up">>
        BY <3>1, <3>6
      <4> QED
        BY <3>2, <3>7, <3>8, <3>9, <4>1 DEF Life!Save
    <3> QED
      BY <3>10 DEF Life!Next
  <2>15. CASE ControlTick
    <3>1. phase' = "up" /\ UNCHANGED <<position, call, ckpt>>
      BY <2>15 DEF ControlTick
    <3>2. \A j \in Instruments : Stage(j)' = Stage(j)
      BY <3>1 DEF Stage
    <3>3. Halted' \in BOOLEAN
      BY Zenon DEF Halted
    <3> QED
      BY <3>1, <3>2, <3>3 DEF Life!Next, Life!ControlRound
  <2>16. ASSUME phase' = "down", UNCHANGED <<riskVars, position, call, ckpt>>
         PROVE  [Life!Next]_(Life!lifeVars)
    <3>1. \A j \in Instruments : Stage(j)' = Stage(j)
      BY <2>16 DEF Stage
    <3>2. Halted' = Halted
      BY <2>16 DEF riskVars, Halted
    <3>3. CASE phase = "up"
      BY <2>16, <3>1, <3>2, <3>3 DEF Life!Next, Life!Stop
    <3>4. CASE phase # "up"
      BY <2>16, <3>1, <3>2, <3>4 DEF Life!lifeVars
    <3> QED
      BY <3>3, <3>4
  <2>17. CASE Crash
    BY <2>16, <2>17 DEF Crash, signalVars
  <2>18. ASSUME NEW i \in Instruments, RouterRaises(i) PROVE [Life!Next]_(Life!lifeVars)
    BY <2>16, <2>18 DEF RouterRaises, signalVars
  <2>19. CASE Restart
    <3>1. phase = "down" /\ phase' = "starting" /\ UNCHANGED ckpt
      BY <2>19 DEF Restart, LoadCheckpoints
    <3>2. \A j \in Instruments : Stage(j)' = Held(ckpt[j].position)
      BY <2>19 DEF Restart, LoadCheckpoints, Stage, Idle, Sells
    <3>3. Halted' = FALSE
      BY <2>19 DEF Restart, RiskRestart, Halted
    <3> QED
      BY <3>1, <3>2, <3>3 DEF Life!Next, Life!Resume
  <2>20. CASE UNCHANGED vars
    BY <2>20, <2>1 DEF vars, signalVars
  <2> QED
    BY <2>2, <2>4, <2>5, <2>7, <2>8, <2>9, <2>10, <2>11, <2>12, <2>13, <2>14, <2>15, <2>17,
       <2>18, <2>19, <2>20 DEF Next, Decides, Answered
<1> QED
  BY <1>1, <1>2, ControlTypesTheorem, GateTheorem, LedgerInvariant, PTL
     DEF Spec, ImplementsLifecycle, Life!Spec
=============================================================================
