------------------------------- MODULE Engine -------------------------------
(***************************************************************************)
(* The strategy engine (python/meanrev/engine.py): one event loop runs,    *)
(* for every instrument, a market-data task, a signal loop and a           *)
(* checkpoint loop, and one control loop over the whole portfolio.         *)
(*                                                                         *)
(* A task runs without interruption between two awaits, so a step is the   *)
(* code from one await to the next.  A signal loop awaits the router; its  *)
(* call is in flight meanwhile and every other task may run before the     *)
(* answer.  The wake-up event only shortens the wait (the heartbeat wakes  *)
(* the loop anyway), so a signal loop with no call in flight may wake at   *)
(* any time; a wake-up that decides nothing is a stuttering step.          *)
(***************************************************************************)
EXTENDS SignalGenerator, RiskManager, FiniteSetsExt

CONSTANTS
  Kind,                \* [Instruments -> {"CLOB", "CURVE"}]: router.kind
  Leaders,             \* the instruments whose base is BTC or SOL
  Books,               \* the book views a market-data frame can leave behind
  EnableNightQuoting,  \* enable_night_quoting
  Attempts,            \* attempts of ExchangeRouter._retry
  Faults,              \* which faults of the environment a run explores
  MaxPnl               \* bound: no entry once realized P&L has left -MaxPnl..MaxPnl

FaultKinds == {"crash", "raise", "reject", "retransmit", "clear"}

ASSUME EngineAssumption ==
  /\ IsFiniteSet(Instruments)
  /\ Kind \in [Instruments -> {"CLOB", "CURVE"}]
  /\ Leaders \subseteq Instruments
  /\ EnableNightQuoting \in BOOLEAN
  /\ Attempts \in Nat \ {0} /\ MaxPnl \in Nat
  /\ Faults \subseteq FaultKinds

(* Views have even quotes, and the smallest order is worth at least a lot  *)
(* at any price, so that rounding to lots never turns an order into none.  *)
ASSUME BooksAssumption ==
  /\ Books \subseteq BookViews
  /\ \A b \in Books : b.bid % 2 = 0 /\ b.ask % 2 = 0 /\ Mid(b) <= MinNotional

(* What a book can look like: as a frame left it, cleared, or never filled. *)
Views == Books \cup {Cleared(b) : b \in Books} \cup {EmptyBook}

VARIABLES
  phase,         \* "down", "starting" (state restored, tasks not yet run), "up"
  book,          \* [Instruments -> view]: _books
  trail_stops,   \* [Instruments -> price], 0 when absent: _trail_stops
  deep_bids,     \* [Instruments -> tenths of a price], 0 when absent: _deep_bids
  avg_entry,     \* [Instruments -> price], 0 when absent: _avg_entry
  realized_pnl,  \* _realized_pnl
  open_orders,   \* the instruments whose adapter has an order on record
  call,          \* [Instruments -> the router call the signal loop awaits]
  ckpt           \* [Instruments -> what the checkpoint file holds]

(* What only the memory of the process holds.                              *)
ledgerVars == <<trail_stops, deep_bids, avg_entry, realized_pnl, open_orders>>
vars == <<signalVars, riskVars, phase, book, ledgerVars, call, ckpt>>

Call(op, qty, px) == [op |-> op, qty |-> qty, px |-> px, sent |-> 1]
Idle == [op |-> "idle", qty |-> 0, px |-> 0, sent |-> 0]

Sells  == {"exit", "trail"}
Orders == {"enter", "quote"} \cup Sells
Ops    == {"idle", "cancel", "requote"} \cup Orders

Calls  == [op : Ops, qty : Nat, px : Nat, sent : 0..Attempts]

Prices == [Instruments -> Nat]
OrderBooks == {i \in Instruments : Kind[i] = "CLOB"}

(* The type invariant: the control state with the prices it keeps, and the *)
(* money accounts.                                                         *)
ControlTypeOK ==
  /\ SignalTypeOK
  /\ phase \in {"down", "starting", "up"}
  /\ book \in [Instruments -> Views]
  /\ trail_stops \in Prices /\ deep_bids \in Prices /\ avg_entry \in Prices
  /\ open_orders \subseteq OrderBooks
  /\ call \in [Instruments -> Calls]
  /\ ckpt \in [Instruments -> [position : Nat, regime : Regimes, book : Views]]

TypeOK == ControlTypeOK /\ RiskTypeOK /\ realized_pnl \in Int

Init ==
  /\ SignalInit /\ RiskInit
  /\ phase = "starting"
  /\ book = [i \in Instruments |-> EmptyBook]
  /\ trail_stops = [i \in Instruments |-> 0]
  /\ deep_bids = [i \in Instruments |-> 0]
  /\ avg_entry = [i \in Instruments |-> 0]
  /\ realized_pnl = 0
  /\ open_orders = {}
  /\ call = [i \in Instruments |-> Idle]
  /\ ckpt = [i \in Instruments |-> [position |-> 0, regime |-> "NORMAL", book |-> EmptyBook]]

(***************************************************************************)
(* Accounts.                                                               *)
(***************************************************************************)
Unrealized(i) ==
  IF avg_entry[i] # 0 /\ position[i] > 0 /\ Mid(book[i]) > 0
  THEN position[i] * (Mid(book[i]) - avg_entry[i]) ELSE 0

TotalPnl == realized_pnl + MapThenSumSet(Unrealized, Instruments)

OpenNotional(i) ==
  position[i] * (IF Mid(book[i]) > 0 THEN Mid(book[i]) ELSE avg_entry[i])

GrossExposure == MapThenSumSet(OpenNotional, Instruments)

(***************************************************************************)
(* Market data and the control loop.                                       *)
(***************************************************************************)
FrameApplied(i) ==
  /\ phase = "up"
  /\ \E b \in Books : book' = [book EXCEPT ![i] = b]
  /\ UNCHANGED <<signalVars, riskVars, phase, ledgerVars, call, ckpt>>

(* A sequence gap or a transport error: the adapter drops the levels.      *)
FeedCleared(i) ==
  /\ phase = "up" /\ "clear" \in Faults
  /\ book' = [book EXCEPT ![i] = Cleared(book[i])]
  /\ UNCHANGED <<signalVars, riskVars, phase, ledgerVars, call, ckpt>>

(* Variant of Resolve: the night is looked at before the halt.             *)
ResolveNightFirst(kind, halted, night) ==
  IF night THEN IF kind = "CLOB" THEN "CEX_NIGHT_PASSIVE" ELSE "DEX_NIGHT_EXIT_ONLY"
  ELSE IF halted THEN "HALTED" ELSE "NORMAL"

(* NightMarketRegime.resolve                                               *)
Resolve(kind, halted, night) ==
  CASE halted -> "HALTED"
    [] ~halted /\ night -> IF kind = "CLOB" THEN "CEX_NIGHT_PASSIVE" ELSE "DEX_NIGHT_EXIT_ONLY"
    [] OTHER -> "NORMAL"

(* Variant of ControlTick: halted is read before the samples are taken.    *)
ControlTickReadsFirst ==
  /\ phase # "down"
  /\ phase' = "up"
  /\ IF \E i \in Leaders : Mid(book[i]) > 0 THEN OnLeaderPrice ELSE UNCHANGED breakdown
  /\ \E d \in hwm_day..MaxDay : OnEquity(StartingEquity + TotalPnl, d)
  /\ \E night \in BOOLEAN :
       SetRegimes([i \in Instruments |-> Resolve(Kind[i], Halted, night)])
  /\ UNCHANGED <<position, book, ledgerVars, call, ckpt>>

(* One round of the control loop: sample the leaders, mark equity to       *)
(* market, then set every instrument's regime, with no await in between.   *)
ControlTick ==
  /\ phase # "down"
  /\ phase' = "up"
  /\ IF \E i \in Leaders : Mid(book[i]) > 0 THEN OnLeaderPrice ELSE UNCHANGED breakdown
  /\ \E d \in hwm_day..MaxDay : OnEquity(StartingEquity + TotalPnl, d)
  /\ \E night \in BOOLEAN :
       SetRegimes([i \in Instruments |-> Resolve(Kind[i], Halted', night)])
  /\ UNCHANGED <<position, book, ledgerVars, call, ckpt>>

(***************************************************************************)
(* The signal loop, from its wake-up to the router call it awaits.         *)
(***************************************************************************)
Awake(i) == phase = "up" /\ call[i] = Idle

(* cancel_all suspends only if the adapter has an order to name: with none  *)
(* on record, as always on a curve, it returns in the same step.            *)
Flush(i) ==
  /\ Awake(i) /\ WantsFlush(i)
  /\ posture_dirty' = [posture_dirty EXCEPT ![i] = FALSE]
  /\ deep_bids' = [deep_bids EXCEPT ![i] = 0]
  /\ call' = [call EXCEPT ![i] = IF i \in open_orders THEN Call("cancel", 0, 0) ELSE Idle]
  /\ UNCHANGED <<regime, position, riskVars, phase, book, trail_stops, avg_entry,
                 realized_pnl, open_orders, ckpt>>

(* The reversion from mid to VWAP pays the round-trip fees.                *)
EdgeClearsFees(b) == 10000 * (b.vwap - Mid(b)) >= MinEdgeBps * Mid(b)

Enter(i) ==
  LET b == book[i] IN
  /\ Awake(i) /\ WantsEntry(i, b)
  /\ b.ask > 0 /\ Mid(b) > 0
  /\ EdgeClearsFees(b)
  /\ realized_pnl \in -MaxPnl..MaxPnl
  /\ \E qty \in 1..BaseNotional :
       /\ qty = PositionNotional(b.sigma, b.vwap, GrossExposure) \div Mid(b)
       /\ call' = [call EXCEPT ![i] = Call("enter", qty, b.ask)]
  /\ UNCHANGED <<signalVars, riskVars, phase, book, ledgerVars, ckpt>>

Exit(i) ==
  /\ Awake(i) /\ WantsExit(i, book[i])
  /\ book[i].bid > 0
  /\ call' = [call EXCEPT ![i] = Call("exit", position[i], book[i].bid)]
  /\ UNCHANGED <<signalVars, riskVars, phase, book, ledgerVars, ckpt>>

(* Replace the night bid: cancel_all, then the new order, in one step when  *)
(* there is nothing to cancel.  It is due once it is 30 s old or fair value *)
(* has moved a tenth of a sigma: with its age left free, at any time.       *)
Requote(i) ==
  LET b == book[i] IN
  /\ Awake(i) /\ WantsDeepBid(i, b) /\ EnableNightQuoting
  /\ DeepBidPrice(b) > 0
  /\ PositionNotional(b.sigma, b.vwap, GrossExposure) > 0
  /\ call' = [call EXCEPT ![i] =
       Call(IF i \in open_orders THEN "requote" ELSE "quote", 0, DeepBidPrice(b))]
  /\ UNCHANGED <<signalVars, riskVars, phase, book, ledgerVars, ckpt>>

(* Variant of Trail: the latest proposal is the stop.                      *)
TrailUnratcheted(i) ==
  /\ Awake(i) /\ WantsTrail(i, book[i])
  /\ trail_stops' = [trail_stops EXCEPT ![i] = TrailProposal(book[i])]
  /\ UNCHANGED <<signalVars, riskVars, phase, book, deep_bids, avg_entry, realized_pnl,
                 open_orders, call, ckpt>>

(* Ratchet the stop; sell at market when mid has crossed below it.         *)
Trail(i) ==
  LET b    == book[i]
      stop == MaxOf(trail_stops[i], TrailProposal(b))
  IN
  /\ Awake(i) /\ WantsTrail(i, b)
  /\ trail_stops' = [trail_stops EXCEPT ![i] = stop]
  /\ IF Mid(b) < stop
     THEN call' = [call EXCEPT ![i] = Call("trail", position[i], Mid(b))]
     ELSE UNCHANGED call
  /\ UNCHANGED <<signalVars, riskVars, phase, book, deep_bids, avg_entry, realized_pnl,
                 open_orders, ckpt>>

(***************************************************************************)
(* The router's answers.                                                   *)
(***************************************************************************)

(* An order book's adapter records the id of every order it was told of;   *)
(* nothing removes it but a cancel_all that returns.                       *)
Recorded(i) == open_orders' = open_orders \cup ({i} \cap OrderBooks)

EntryAcked(i) ==
  /\ phase = "up" /\ call[i].op = "enter"
  /\ Recorded(i)
  /\ SetPosition(i, position[i] + call[i].qty)
  /\ avg_entry' = [avg_entry EXCEPT ![i] = call[i].px]
  /\ call' = [call EXCEPT ![i] = Idle]
  /\ UNCHANGED <<regime, posture_dirty, riskVars, phase, book, trail_stops, deep_bids,
                 realized_pnl, ckpt>>

(* A position whose entry is unknown is closed at no profit.               *)
SaleProfit(i) ==
  IF avg_entry[i] = 0 THEN 0 ELSE call[i].qty * (call[i].px - avg_entry[i])

SellAcked(i) ==
  /\ phase = "up" /\ call[i].op \in Sells
  /\ Recorded(i)
  /\ SetPosition(i, 0)
  /\ trail_stops' = [trail_stops EXCEPT ![i] = 0]
  /\ avg_entry' = [avg_entry EXCEPT ![i] = 0]
  /\ realized_pnl' = realized_pnl + SaleProfit(i)
  /\ call' = [call EXCEPT ![i] = Idle]
  /\ UNCHANGED <<regime, posture_dirty, riskVars, phase, book, deep_bids, ckpt>>

QuoteAcked(i) ==
  /\ phase = "up" /\ call[i].op = "quote"
  /\ Recorded(i)
  /\ deep_bids' = [deep_bids EXCEPT ![i] = call[i].px]
  /\ call' = [call EXCEPT ![i] = Idle]
  /\ UNCHANGED <<signalVars, riskVars, phase, book, trail_stops, avg_entry, realized_pnl,
                 ckpt>>

(* cancel_all returned: a flush is over, a requote goes on to its order.   *)
CancelReturned(i) ==
  /\ phase = "up" /\ call[i].op \in {"cancel", "requote"}
  /\ call' = [call EXCEPT ![i] = IF call[i].op = "cancel" THEN Idle
                                 ELSE Call("quote", 0, call[i].px)]
  /\ open_orders' = open_orders \ {i}
  /\ UNCHANGED <<signalVars, riskVars, phase, book, trail_stops, deep_bids, avg_entry,
                 realized_pnl, ckpt>>

Rejected(i) ==
  /\ phase = "up" /\ "reject" \in Faults /\ call[i].op \in Orders
  /\ call' = [call EXCEPT ![i] = Idle]
  /\ UNCHANGED <<signalVars, riskVars, phase, book, ledgerVars, ckpt>>

(* Variant of Retransmit: one attempt too many.                            *)
RetransmitOnceMore(i) ==
  /\ phase = "up" /\ "retransmit" \in Faults
  /\ call[i].op # "idle" /\ call[i].sent <= Attempts
  /\ call' = [call EXCEPT ![i].sent = call[i].sent + 1]
  /\ UNCHANGED <<signalVars, riskVars, phase, book, ledgerVars, ckpt>>

(* _retry: a transient transport failure, and the same request once more.  *)
Retransmit(i) ==
  /\ phase = "up" /\ "retransmit" \in Faults
  /\ call[i].op # "idle" /\ call[i].sent < Attempts
  /\ call' = [call EXCEPT ![i].sent = call[i].sent + 1]
  /\ UNCHANGED <<signalVars, riskVars, phase, book, ledgerVars, ckpt>>

(* The call raises: gather re-raises in run(), which cancels every task,   *)
(* closes the routers and ends; nothing is cancelled, sold or saved.       *)
RouterRaises(i) ==
  /\ phase = "up" /\ "raise" \in Faults /\ call[i].op # "idle"
  /\ phase' = "down"
  /\ UNCHANGED <<signalVars, riskVars, book, ledgerVars, call, ckpt>>

(***************************************************************************)
(* Checkpoints, crashes and restarts.                                      *)
(***************************************************************************)

(* Only a run that restarts reads checkpoints: the others take none.       *)
Restarts == Faults \cap {"crash", "raise"} # {}

Checkpoint(i) ==
  /\ phase = "up" /\ Restarts
  /\ ckpt' = [ckpt EXCEPT ![i] =
       [position |-> position[i], regime |-> regime[i], book |-> book[i]]]
  /\ UNCHANGED <<signalVars, riskVars, phase, book, ledgerVars, call>>

Crash ==
  /\ phase # "down" /\ "crash" \in Faults
  /\ phase' = "down"
  /\ UNCHANGED <<signalVars, riskVars, book, ledgerVars, call, ckpt>>

(* _init_instrument of every instrument in a new process: what the         *)
(* checkpoint holds (set_regime marks a change from the constructor's      *)
(* NORMAL), and no call under way.                                         *)
LoadCheckpoints ==
  /\ phase = "down" /\ phase' = "starting"
  /\ regime' = [i \in Instruments |-> ckpt[i].regime]
  /\ posture_dirty' = [i \in Instruments |-> ckpt[i].regime # "NORMAL"]
  /\ position' = [i \in Instruments |-> ckpt[i].position]
  /\ book' = [i \in Instruments |-> ckpt[i].book]
  /\ call' = [i \in Instruments |-> Idle]
  /\ UNCHANGED ckpt

(* Variants of Restart: the risk manager is carried over although the      *)
(* gates come from the checkpoints; the ledgers are carried over although  *)
(* the positions come from the checkpoints.                                *)
RestartKeepsRisk ==
  /\ LoadCheckpoints /\ UNCHANGED riskVars
  /\ trail_stops' = [i \in Instruments |-> 0] /\ deep_bids' = [i \in Instruments |-> 0]
  /\ avg_entry' = [i \in Instruments |-> 0] /\ realized_pnl' = 0 /\ open_orders' = {}

RestartKeepsLedgers ==
  /\ LoadCheckpoints /\ UNCHANGED ledgerVars
  /\ \E d \in hwm_day..MaxDay : RiskRestart(d)

(* A new process: the checkpoints, a fresh risk manager, empty ledgers.    *)
Restart ==
  /\ LoadCheckpoints
  /\ \E d \in hwm_day..MaxDay : RiskRestart(d)
  /\ trail_stops' = [i \in Instruments |-> 0]
  /\ deep_bids' = [i \in Instruments |-> 0]
  /\ avg_entry' = [i \in Instruments |-> 0]
  /\ realized_pnl' = 0
  /\ open_orders' = {}

Answered(i) ==
  EntryAcked(i) \/ SellAcked(i) \/ QuoteAcked(i) \/ CancelReturned(i) \/ Rejected(i)
    \/ RouterRaises(i)

Decides(i) == Flush(i) \/ Enter(i) \/ Exit(i) \/ Requote(i) \/ Trail(i)

Next ==
  \/ \E i \in Instruments :
       \/ FrameApplied(i) \/ FeedCleared(i)
       \/ Decides(i) \/ Answered(i) \/ Retransmit(i)
       \/ Checkpoint(i)
  \/ ControlTick
  \/ Crash
  \/ Restart

Spec == Init /\ [][Next]_vars

(***************************************************************************)
(* Fairness.  The event loop runs every ready task: a woken signal loop    *)
(* gets to evaluate (the heartbeat wakes it every 250 ms), the control     *)
(* loop runs every second, and every call returns or raises (the session   *)
(* has a timeout and _retry a bounded number of attempts).  One assumption *)
(* is about the venue and not the code: a sale submitted again and again   *)
(* is accepted some time.                                                  *)
(***************************************************************************)
LoopFairness ==
  /\ WF_vars(ControlTick)
  /\ \A i \in Instruments :
       WF_vars(Flush(i)) /\ WF_vars(Exit(i)) /\ WF_vars(Answered(i))

VenueAcceptsSales == \A i \in Instruments : SF_vars(SellAcked(i))

FairSpec == Spec /\ LoopFairness /\ VenueAcceptsSales

(***************************************************************************)
(* Safety.                                                                 *)
(***************************************************************************)

(* While the risk layer says halted, every instrument's gate is HALTED:    *)
(* the control loop leaves no await between learning of a breach and       *)
(* closing the gates, over day rolls, leader samples and restarts.         *)
GateFollowsRisk == Halted => \A i \in Instruments : regime[i] = "HALTED"

(* The engine's ledgers are about a position it holds, and the order in    *)
(* flight was sized for the position it will be applied to: no stop or     *)
(* entry price outlives its position, no second entry is under way on an   *)
(* open position, no sale is for more or less than is held.                *)
LedgerMatchesPosition == \A i \in Instruments :
  /\ avg_entry[i] # 0 \/ trail_stops[i] # 0 => position[i] > 0
  /\ call[i].op = "enter" => position[i] = 0
  /\ call[i].op \in Sells => position[i] > 0 /\ call[i].qty = position[i]

(* A resting night bid, recorded or about to be, belongs to the night      *)
(* regime, or a flush that cancels it is still owed.  However often the    *)
(* control loop changes its mind during an await, no bid is forgotten.     *)
QuoteIsGoverned == \A i \in Instruments :
  deep_bids[i] # 0 \/ call[i].op \in {"requote", "quote"} =>
    regime[i] = "CEX_NIGHT_PASSIVE" \/ posture_dirty[i]

(* While a position is held its stop never loosens and never disappears,   *)
(* through regime changes, cleared books and answers in flight; only a     *)
(* sale or the end of the process removes it.                              *)
StopNeverLoosens ==
  [][\A i \in Instruments :
       phase = "up" /\ position'[i] > 0 => trail_stops'[i] >= trail_stops[i]]_vars

(* Seen from outside, every instrument goes through the life of a trade as *)
(* TradeLifecycle describes it: however decisions, answers, control rounds *)
(* and restarts interleave, no buy is begun on a position or in a halted   *)
(* portfolio, no sale without one, and no answer is booked twice.          *)
Held(qty) == IF qty > 0 THEN "long" ELSE "flat"

Stage(i) ==
  CASE call[i].op = "enter" -> "buying"
    [] call[i].op \in Sells -> "selling"
    [] OTHER -> Held(position[i])

Life == INSTANCE TradeLifecycle WITH
  stage <- [i \in Instruments |-> Stage(i)],
  saved <- [i \in Instruments |-> Held(ckpt[i].position)],
  halted <- Halted,
  running <- (phase = "up")

ImplementsLifecycle == Life!Spec

(***************************************************************************)
(* Liveness.                                                               *)
(***************************************************************************)

(* A night bid left over when the night ends, or when trading halts, is    *)
(* taken back.                                                             *)
StaleQuotePulled == \A i \in Instruments :
  (phase = "up" /\ deep_bids[i] # 0 /\ regime[i] # "CEX_NIGHT_PASSIVE")
    ~> (deep_bids[i] = 0 \/ phase # "up")

(* A halt that lasts empties the book: an instrument that stays HALTED     *)
(* with a bid to hit ends up, and stays, without a position.               *)
HaltFlattens == \A i \in Instruments :
  <>[](phase = "up" /\ regime[i] = "HALTED" /\ book[i].bid > 0) => <>[](position[i] = 0)

(***************************************************************************)
(* What the documentation promises and the code does not keep.             *)
(***************************************************************************)

(* risk.py: "total open notional may never exceed this share of equity".   *)
GrossWithinCap == 100 * GrossExposure <= MaxGrossPct * equity

(* README: "a stale Python-side flag can never leak an order during a      *)
(* halt": no buy order is sent, or sent again, for a halted instrument.    *)
NoBuySentWhileHalted ==
  [][\A i \in Instruments :
       call'[i] # call[i] /\ call'[i].op \in {"enter", "quote"} => regime[i] # "HALTED"]_vars

(* state.py: a restart "resumes with the risk layer in exactly the state   *)
(* it halted in": within a day, a restart keeps a tripped breaker.         *)
BreakerSurvivesRestart ==
  [][phase = "down" /\ phase' = "starting" /\ hwm_day' = hwm_day
       => breaker_latched' = breaker_latched]_vars
=============================================================================
