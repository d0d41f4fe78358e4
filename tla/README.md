# Verification of the mean-reversion engine

TLA+ modules, TLC instances and TLAPS proofs for the trading engine in this repository: a Python event
loop (`src/python/meanrev`) over a C++ core (`src/cpp/include`). `PROJECT.json` lists components, runs,
mutants, the line map, findings, hazards and theorems; this file says how they fit together.

## 1. The system

| component | source | state it keeps | operations |
|---|---|---|---|
| Strategy engine | `engine.py` | books, signal generators, `_trail_stops`, `_deep_bids`, `_avg_entry`, `_realized_pnl` | `run`, `_init_instrument`, `_control_loop`, `_signal_loop`, `_checkpoint_loop`, the P&L accounts |
| Signal generator | `signal_generator.hpp` | `regime_`, `position_`, `posture_dirty_` | `set_regime`, `set_position`, `evaluate` |
| Risk manager | `risk.py` | equity, high-water mark and its day, the latch, leader closes and returns | `on_equity`, `on_leader_price`, `halted`, `position_notional` |
| Night regime | `regime.py` | none | `resolve` |
| Router contract | `router.py` | none | `_retry`, the abstract order and feed calls |
| Coinbase adapter | `coinbase_cex.py` | connection, `last_seq`, `_open_orders` | `stream_market_data`, `_dispatch`, `submit_order`, `cancel_all` |
| Order book | `order_book.hpp` | two `BookSide` arrays, `VwapTracker` sums, last trade | `apply_delta`, `clear`, `volume`, `on_trade`, `fold_anchor`, `snapshot`, `restore` |
| Book checkpoint | `checkpoint.hpp` | two slots in a mapped file, `seq_` | `save`, `load` |
| Portfolio checkpoint | `state.py` | two slots of JSON in a mapped file, `_seq` | `save`, `load`, `close` (no part of the engine opens the file) |
| pump.fun adapter | `pumpfun_dex.py` | synthetic book, `_flow`, swaps under way | `stream_market_data`, `_rebuild_synthetic_book`, `_bump_flow`, `submit_order`, `_submit_jito_bundle`, `_submit_rpc` |
| Toxicity screen | `toxicity.py` | `_cache` with a time to live, one lock per token | `screen`, `_run_screen` |
| Bindings, UI, example, tests | `bindings.cpp`, `ui.py`, `trade_example.py`, `tests/` | none of the program's | glue, drawing, configuration |

**How they interact.** Everything runs on one asyncio event loop. For every instrument there is a
market-data task (adapter → `OrderBook`, then an event wakes the signal loop), a signal loop
(`evaluate` → router call → ledgers) and a checkpoint loop; one control loop marks equity, feeds the
leaders to the filter and pushes a regime into every signal generator. All shared state is plain
attributes; the only places where another task can run are the awaits.

**What is hard.** (a) A signal loop decides, awaits a router call for up to several attempts with
backoff, and books the answer on state it read before the await. (b) The control loop changes regimes
in the middle of such a call. (c) Several instruments share equity and one exposure cap. (d) A process
can stop anywhere, with a file half written and calls in flight. (e) The feed loses, repeats and
breaks. (f) Order requests and their answers are lost or late. (g) Concurrent buys of a token share one
screen, and its verdict ages while orders wait and retry. The hazards in `PROJECT.json` are these,
each at its line.

**What makes each part correct.** Engine: gates follow the risk layer, ledgers follow positions, night
bids are always governed, stops only tighten, a halt ends flat. Risk: the latch is exactly "there was a
drawdown today", sizes fit under the cap, a filter halt means a fall. Book and feed: the local book is
the venue's or visibly empty. Checkpoints: an atomic durable cell. Orders: one order per submit, and no
order forgotten; one swap per order, and no buy on an expired screen. Statistics: the moments of the tape.

## 2. Modules

| module | models | notes |
|---|---|---|
| `SignalGenerator` | `signal_generator.hpp`, and of `order_book.hpp` what `evaluate` reads | variables `regime`, `position`, `posture_dirty`; one predicate per action `evaluate` can return |
| `RiskManager` | `risk.py` breaker and sizing | `OnEquity`, `PositionNotional`; the filter's verdict is `breakdown` |
| `Engine` | `engine.py`, `regime.py`, `_retry`, with the two above | one action per stretch of code between awaits; composes `SignalGenerator` and `RiskManager` by `EXTENDS`; implements `TradeLifecycle` |
| `TradeLifecycle` | abstract specification | what the trading of every instrument looks like from outside |
| `CorrelationFilter` | `risk.py` `on_leader_price`, `_breakdown` | exact log-return arithmetic over a sliding window |
| `RiskLayer` | the whole of `risk.py` | composes `RiskManager` and `CorrelationFilter`, with the history of the day's samples |
| `DurableCell` | abstract specification | what a checkpoint promises: a cell that holds the last value saved |
| `Checkpointer` | `checkpoint.hpp` | `save` store by store, the page cache, the disk, kills and power losses; implements `DurableCell` |
| `PortfolioCheckpoint` | `state.py` | the same of the file without a checksum |
| `CoinbaseFeed` | `stream_market_data`, `_dispatch` | against a venue with a versioned book and a faulty network |
| `BookSide` | class `BookSide` | against the venue's side as an unbounded map |
| `Rationals` | the doubles of `VwapTracker` | exact rationals in lowest terms, operators only |
| `VwapTracker` | class `VwapTracker` | running moments in exact rationals, against the trades |
| `CoinbaseOrders` | `submit_order`, `cancel_all`, `_retry` | against a venue that fills, rejects and refuses, and a network that delays |
| `ToxicityScreen` | `toxicity.py` | operations only: it has no behaviour but its callers' |
| `PumpFunOrders` | `pumpfun_dex.py` order entry, `_retry` | `EXTENDS ToxicityScreen`; against a block engine, a chain and a network that delays |
| `PumpFunFeed` | `pumpfun_dex.py` feed, projection and flow | against a node and a bonding curve |
| `MCEngine`, `MCCheckpoints` | instances | values and symmetry for TLC |
| `MCRiskLayer`, `MCOrders`, `MCBooks` | instances of several parts that share no state | section 3 |
| `EngineProofs`, `RiskLayerProofs`, `CoinbaseOrdersProofs`, `PumpFunOrdersProofs`, `CoinbaseFeedProofs` | theorems about the module of that name | section 5 |
| `CheckpointProofs` | theorems about `Checkpointer` and `PortfolioCheckpoint` | section 5 |
| `BooksProofs` | theorems about `BookSide`, `PumpFunFeed` and `VwapTracker` | section 5 |
| `DataLemmas` | lemmas about numbers, sequences, sums and rationals that several proofs cite | section 5 |

### Engine

`phase` is the life of the process: `starting` (state restored, nothing decided yet), `up`, `down`. The first
`ControlTick` makes it `up`: every other task begins by waiting, for its connection, its event or its interval,
and the control loop alone starts with work, so its first round comes before any other effect.
`call[i]` is the router call the signal loop of `i` awaits, with the number of attempts sent. A signal
loop with no call may wake at any time, because the 250 ms heartbeat wakes it anyway.

| code | actions |
|---|---|
| `_control_loop` body | `ControlTick` |
| `_signal_loop`, `CANCEL` | `Flush`, `CancelReturned` |
| `_signal_loop`, `ENTER` | `Enter`, `EntryAcked`, `Rejected` |
| `_signal_loop`, `EXIT` | `Exit`, `SellAcked`, `Rejected` |
| `_signal_loop`, `DEEP_BID` | `Requote`, `CancelReturned`, `QuoteAcked`, `Rejected` |
| `_signal_loop`, `TRAIL` | `Trail`, `SellAcked`, `Rejected` |
| `_retry` | `Retransmit`, `RouterRaises` |
| `run`'s failure path | `RouterRaises` (`gather` re-raises and every task ends) |
| `_checkpoint_loop` | `Checkpoint` |
| `__init__`, `_init_instrument` | `Init`, `Restart` (`LoadCheckpoints`) |
| the adapters' effect on a book | `FrameApplied`, `FeedCleared` |

Prices are half ticks and z-scores tenths of a sigma, so every comparison is exact in integers. A book is
a *view*: the fields `evaluate` and the engine read. `open_orders` has the instruments whose adapter keeps an
order on record (every accepted order puts one there, and only `cancel_all` takes them out): the await of a
`cancel_all` suspends the loop only then. With nothing on record, and always on pump.fun, it returns at once, so
`Flush` is then over in one step and `Requote` goes straight to the new bid. Abstracted: the age of a resting
night bid (a requote is possible at any time), and the clock (night or day is free at every control round, days only
advance). `MaxPnl` stops entries once realized P&L has left a range: it is the bound that keeps the
state space finite.

### TradeLifecycle

Every instrument goes round `flat`, `buying`, `long`, `selling`; a portfolio halts and resumes, is saved
instrument by instrument, stops and is taken up again. The engine's `call[i]` and `position[i]` give the
stage, the checkpoint's position what is saved, `Halted` and `phase` the rest. What the map to it loses is
what an observer of the trades cannot see: books, regimes, night quotes, attempts, amounts and money. A
step of the engine that moved two instruments at once, began a buy on a position, sold what it does not
hold, or booked an answer twice would be no step of `TradeLifecycle`.

### Checkpointer and PortfolioCheckpoint

A save is five stores and the commit; between any two the process may be killed, and then the page cache
keeps what was stored. The disk is a second copy, updated page by page in any order; after a power loss
the file is the disk. The CRC is exact (no collision), the payload has two parts on the two pages a slot
spans. The stores are taken in program order, as the compiled x86 code makes them visible to another
process through the mapping; nothing in the source forbids a compiler to reorder them, and the CRC covers
the payload in that case too.

`PortfolioCheckpoint` has the same shape with the code's differences: the header is written last and in two
stores (sequence and length, 12 bytes), there is no checksum, a slot counts when the sequences at both ends
agree and the JSON parses, and a save ends with an `msync` that waits. Pages lie as in the file: slots of
64 KiB + 20 bytes, so slot 1's header shares a page with slot 0's trailer. Whether a payload made of the
halves of two states, cut at the header's length, parses depends on the bytes, also when the two differ in length:
`Mixes` is whatever set of halves and lengths does, and the instance takes all of them. *One* state's payload,
cut short or continued by the rest of an older one, does not parse: an object is closed by its last brace. A state
larger than a slot (`SlotRoom`) is refused before anything is changed (`Fits`).

### The books: CoinbaseFeed, BookSide, VwapTracker, PumpFunFeed

The venue's book is a version number in `CoinbaseFeed`: an update is right only on top of the version
before it, and a book that matches no version is `Wrong`. A loss that the numbering cannot show (the first
message of a connection, or one beside an unnumbered message) is a separate fault, `lose_blind`, that the
run leaves out: section 6 says what it does.

`VwapTracker` keeps the code's members (`s0`, `s1`, `s2`, `anchor`, `n`) as exact rationals, and beside them the
list of trades they stand for; `fold_anchor` comes every `ReanchorEvery` trades (2 in the instance, 65536 in the
code), and a checkpoint and restore at any point. In `PumpFunFeed` the ratio between two levels (`StepNum /
StepDen`, 201/200 in the code) and what a clock tick leaves of the flow (`KeptNum / KeptDen`, as close to a power of
one half as one likes) are fractions;
prices are scaled by a power of both so that each is an integer, and so is the flow. The two square roots of a
level are rounded down to a unit of tokens. `UnitsAssumption` asks that the reserves are counted in units small
enough: the price is a whole number of units of SOL per unit of tokens (units of SOL may be as small as one
likes), and every level takes a unit of tokens or more (for the code's 20 levels half a percent apart a reserve
of 423 units is enough). The projection is then the code's, level by level; `WalksTheCurve` states what it
should be from the constant product alone. `_decode_curve` and `_decode_trade` are seams without a body: their
answer is what their docstrings say, and an exception (`StreamBreaks`) is possible at every moment, also while
the rest of a closed connection is read.

### Orders: CoinbaseOrders, ToxicityScreen, PumpFunOrders

In `CoinbaseOrders` the network may delay a request past the
end of the call that sent it, and lose any answer; the venue recognizes a repeated `client_order_id`.
`orphaned` is a history variable: the orders the adapter gave up knowing, and on which of three occasions.

| code | actions |
|---|---|
| `screen`: cache hit; lock free or taken | `ScreenFromCache`; `ScreenLocks` |
| `screen` under the lock: second look at the cache | `WakeSatisfied`, `WakeSweeps` |
| `_run_screen`: facts of the launch, then the dev cluster | `ChainRead`, `SweepEnds`, `SweepRaises` |
| pump.fun `submit_order` | `Buy`, `Sell`, `Resume` |
| `_submit_jito_bundle`, `_submit_rpc` over `_retry` | `SendSwap`, `Resend`, `GiveUp`, `Answer` |

Times are ages, capped where nothing tells them apart, so the clock has no bound. `ScreenTick` and `SwapTick`
let no attempt, with its backoff, outlast `Patience`: that is the HTTP session's timeout. That no query outlasts
`Timeout` is an assumption: the screen's queries are seams without a body, and nothing in the code limits them.
The lock queue is first come, first served, as `asyncio.Lock` is. `landed` is what the chain executed; it
executes one signed transaction once, which is what makes a repeat safe. `submit_order` may be called for
several orders of one token at once, as the code's comments have it; the engine itself calls it for one order
per token at a time.

## 3. Runs

Passing runs, with what they settle and the bounds.

- **engine_clob**: one CLOB instrument, three views (dip, plunge, back at VWAP), night quoting,
  two days, every fault but retransmission, checkpoints and restarts at any time (about 1.2 million
  states). One position at a time is the code's rule (`position <= 0` to enter), so one round trip and what
  may follow it reaches every ledger state. It also shows `TradeLifecycle` implemented through
  every fault.
- **engine_pair**: one CLOB and one bonding-curve instrument with two attempts a call: the life of a trade of
  two instruments under one halt, and the trailing stop that only a curve has. The invariants of `engine_clob`
  are proved for any number of instruments, so they are not run a second time.
- **engine_live**: liveness under fairness, section 4, over four views: dip, plunge, support collapsed and a
  one-sided book.
- **risk_layer**: `risk.py` against every sequence of three samples a day over two days from five equities
  that straddle the 10% limit of every possible peak, and every sequence of closes of two leaders; the
  three prices give single steps, mixed and one-sided windows around the trendiness limit. And `state.py`, the file
  meant to keep that state: a portfolio state that fits on the page of its header, two of different lengths that do
  not and one that fits in no slot, whatever the halves parse as, three saves between opens and two failures: enough
  for a failure in what a first failure left.
- **checkpoints**: the book's file with two values and sequence numbers up to 3 (each slot overwritten at
  least once, and numbers reused after a power loss), and its refinement of `DurableCell`.
- **coinbase_feed**: three changes of the venue's book, three faults, three messages in flight: enough for
  a fault during the resync after a fault.
- **books**: a side of three levels with five prices, both orders: every position of an insertion in an empty,
  partial and full array; four trades of three prices with a re-anchoring every second one: two folds, with a
  restore before, between and after; the feed with a curve before and after a sale that quarters its price and a
  drained one, two levels at a ratio of 3/2, two ticks that leave two thirds of the flow, two taker trades both
  ways (beyond the cap of the tilt and within) and two connections lost.
- **orders**: Coinbase with two submits and three attempts: a first attempt that arrives after the call of the
  next submit has begun. pump.fun with two orders of one token and two attempts each, a time to live of two
  and queries of one: one order waits for the other's sweep, finds it failed, fresh or expired.

`risk_layer`, `books` and `orders` are instances of several modules each. Their parts share no variable and
call nothing of one another, so a run picks one part at the start (`at_work`), follows it through all its
states and leaves the others where they begin: a product of the parts would multiply the states and add no
behaviour of any of them.

Runs that end in a violation, each a disagreement between the text of the repository and its code
(`findings`): **gross_cap**, **halt_requote**, **restart_breaker**, **orders_refused**.

Deadlock is checked but where the system may stop at a bound: `coinbase_feed` once the versions are used up
and everything is delivered; `orders` and `orders_refused` once every submit or order is over; `books` once
the bounds on connections, clock ticks and trades are used up.

## 4. Fairness

`engine_live` assumes of the loop what asyncio and the code give: `ControlTick` runs every second; a signal loop
that could flush or exit gets to do it, since the heartbeat wakes it every 250 ms; a call is answered or raises,
since the HTTP session has a timeout and `_retry` a bounded number of attempts. It assumes one thing of the
venue: a sale that is submitted over and over is accepted some time (strong fairness of `SellAcked`). Without it
a venue that rejects every sale defeats `HaltFlattens`, and no code could help. Nothing is assumed of entries,
quotes, frames or leader samples. `StaleQuotePulled` speaks of the engine's record: the code forgets the bid
when the flush begins (`_deep_bids.pop` comes before the await of `cancel_all`), and what the venue makes of the
cancellation is `orders_refused`. `HaltFlattens` speaks of a process that stays up: one raising call ends every
loop, and nothing in the code starts it again. In `coinbase_feed` the task keeps running and the venue keeps
sending (`Adapter`, `VenueSends`), and faults are finitely many by bound: `EventuallyResynced` speaks about a
network that calms down. In `orders`, `SwapFairness` lets every order of pump.fun go on when its query, its turn
at the lock or its next attempt is there: the event loop runs what is ready, and attempts end by the session's
timeout. That a query ends, with an answer or an exception, is an assumption about the seams that the code
leaves without a body. Nothing is assumed of the chain, of the block engine's answers or of the orders that are
begun.

## 5. Proofs

A theorem holds for every value of the constants that satisfies the named assumption of its module
(`…Assumption`, evaluated by TLC on the instances); where it needs more, it says so in its statement. The
bounds that keep TLC's state spaces finite (`MaxSaves`, `MaxSubmits`, `MaxChannel`, …) are constants like the
others: the proofs hold whatever they are. Each proof is of one inductive invariant, a conjunction of named
parts; before its proof TLC checked it on the instance of section 3, with two exceptions named below.

**Engine and risk layer** (`RiskConfigAssumption`, `SignalConfigAssumption`, `EngineAssumption`,
`BooksAssumption`, `FilterAssumption`, `LayerAssumption`)

- `GateTheorem`: `GateFollowsRisk` is inductive by itself. Only `ControlTick` and `Restart` touch the gate
  or the risk state; `Resolve` answers HALTED whatever the clock once the *new* halt is known.
- `ControlTypesTheorem`: types of control state, ledgers, calls and checkpoints; used by the next four.
- `EngineTypesTheorem` (`TypeOK`): equity, mark and realized P&L are integers too. The portfolio's worth is a sum
  over its instruments, which is why `EngineAssumption` says that there are finitely many (see *Sums* below).
- `LedgerTheorem` (with `LedgerInvariant`): `LedgerMatchesPosition` needs `EntriesBuy` (an entry in flight is
  for a positive quantity), without which an acknowledged entry could record a price for no position.
- `QuoteTheorem`: `QuoteIsGoverned` is inductive with the types: a regime change marks the posture dirty,
  only a flush cleans it, and a flush cannot run while a quote is in flight.
- `StopTheorem`: no step lowers a stop while the position is held.
- `LifecycleTheorem`: the engine implements `TradeLifecycle`. Every action is shown to be one move of one
  instrument or a stutter of the abstract state; the invariants above are what the moves need. Answers need
  `LedgerMatchesPosition` (an entry in flight means no position, a sale in flight means one), and a purchase
  needs `GateFollowsRisk` (a regime that lets it through means no halt). `LifeMoves` and `LifeStutters` say
  once how a change of one stage looks through the refinement.
- `TypeCorrect` (risk layer): including that a window never outgrows `corr_window` (`LatestFits`).
- `MarkIsHighest`: the mark is the highest sample of the day (from `MarkAndLatch`, below).
- `BreakerRemembersDrawdowns`: the latch is exactly the existence of a drawdown between two samples of the day.
  The inductive invariant of both (`MarkAndLatch`) is `TypeOK /\ MarkIsDaysPeak /\ LatchedIffDrawdown`: the code
  compares a sample with the mark only, so the mark has to stand for all samples. The arithmetic is
  `PeakDecides`: a breach against any sample is a breach against the peak, which needs the limit to be at most
  100%.
- `WindowTheorem`: a leader's returns add up to its move over the window (`WindowIsMove`). The invariant
  `WindowInv` says it return by return: each one kept is the difference of two neighbouring closes kept, so a full
  window that drops its oldest return drops the oldest close with it; the sum then telescopes.
- `HaltTheorem`: a halt means a fall (`HaltMeansFall`), from the same invariant: the path is rises plus falls, the
  move rises minus falls, whatever the trendiness limit.
- `SizeFitsUnderCap`, `OrdersFitUnderCap`: a size fits beside what is open, at any equity, also negative.

**Coinbase orders** (`OrdersAssumption`: at least one attempt; any set of faults). `OrdersIInv` has, beside
the types and `RestingIsTracked` itself:

- `DrawnIds`: client ids are drawn in order and nothing names one not yet drawn; with it `OneOrderTheorem` follows.
- `Attempted`: requests of a submit still on the network are earlier attempts of the call under way. This is
  what makes a late first attempt harmless: it carries the id of its repeat.
- `AnswersTrue`: an answer "ok" means that the venue knows the order; an error on the *first* attempt means it
  does not and that no request of it is left. After a repeat an error says nothing: the first may have arrived.
- `KeepsAccepted` and `OnItsWay`: what the adapter keeps was accepted, and an order not yet at the venue is kept,
  being sent or `orphaned`. Without the second `TrackingTheorem` would fail at the arrival of a delayed attempt.

**Book checkpoint** (`CheckpointAssumption`; any values, saves, kills and power losses). `CheckpointIInv`:

- `Parity`: a slot is only written under sequence numbers of its own parity, on the mapping and on the disk.
- `CrcWhole`: a CRC is that of a whole payload some save began, so a mixture never matches (`TornTheorem`).
- `SaveProgress`: what each store of a save has left in the slot it writes.
- `StandsAtNewest`: between saves the process stands at the newest slot of the mapping; during one the *other*
  slot is what a recovery returned at its beginning (`SparesTheorem`), and the slot being written is older.

`CellTheorem` is the refinement of `DurableCell`: the stores before the commit are stutters, the commit is the
cell's `Settle`, a kill gives the old value or the new one, and a power loss what the disk has.

**Portfolio checkpoint** (`PortfolioAssumption`; any states and lengths, saves, kills and power losses, pages
written back in any order). `PortfolioIInv` has, beside types and parity:

- `PutsMade` and `Standing`: what the stores of a save have left in its slot; the other slot is the state the
  process stood at, so that whatever the slot being written looks like, load finds that state or the new one.
- `InOrder`: until a header was caught half written no slot is ahead of the one load takes. This is what keeps a
  slot torn by an earlier failure from being completed under a sequence used again.
- `OnDisk`: as long as the process trusts only what is on the disk (`~unflushed`), the disk is the mapping, or it is
  that of a save in the middle (`MidSave`): the slot being written has the old header *with* the old head or the new
  head, since they share a page.

`LoadsTheorem` (`LoadsKeptOrTried`) and `WholeStatesTheorem` (`LoadsWholeStates`) follow; their named exceptions
are those of section 6, and `InOrder` and `OnDisk` are what fails under them.

**pump.fun orders and screen** (`ScreenAssumption`, `SwapAssumption`). `SwapIInv` has four parts, each preserved
by itself once the ones before it are known: `ScreenInv` (a sweep holds its token's lock; how long ago a token
that reads as clean can have turned, through chain, sweep and cache), `Unanswered` (no verdict before the screen
ends), `BuysAge` (the same age for a buy under way: a time to live, a query, the waits of its attempts) and
`WireInv` (one transaction signed before the first attempt; what is on the wire or accepted was sent by an
attempt; the only attempt of an order is answered once). `OneSwapTheorem` and `FailedTheorem` follow from the
last; `NoStaleBuyTheorem` and `NoRedundantSweepTheorem` are action properties, shown action by action.

**Coinbase feed** (`FeedAssumption`). `FeedTypesTheorem` holds under every set of faults. `BookTheorem` and
`ChannelTheorem` are stated under `"lose_blind" \notin Faults`, as the run has it: section 6 says what such a loss
does. `ConnectionInv` says that *there is* a history of the connection (`log`, the version of the venue's book at
each number) and a place in it for every message in flight (`at`) such that the message says what the history has
there, and that the local book is the history's at the place read last. Every fault is then a change of `at`
alone: a loss leaves a hole the next number shows, a repetition names a place twice. This is the invariant TLC
did not check beforehand (it quantifies over functions); the run checks the properties that follow from it.

**Order book side** (`SideAssumption`; an array of any length, any ticks and quantities). `SideIInv` is the
types, `Sorted`, `Live` (a level is the venue's) and `NoneMissing` (until an eviction no quoted tick is
missing); the last is `NoneMissingTheorem`. The insertion, replacement and deletion keep it because the binary
search finds *the* place of a tick. `Search(t)` is a recursive function, so that place has to be proved by
induction: `SearchIsHalved` gives its defining equation (there is a function that satisfies it, the one that
clamps the place to the interval), and `SearchFinds` takes a shortest interval on which it is wrong. Both need
only `LeastOf` of `DataLemmas`, the least element of a set of naturals, which follows from the well-foundedness
of `<` and needs no theorem with an operator as parameter. `InsertAtIs` and `RemoveAtIs` say once what the
library's operators on sequences do.

`ExactTheorem` is `ExactUntilEvicted`. By `NoneMissing` and `Sorted` the array numbers the quoted ticks from the
best (`TicksAreQuoted`), so a level's index is the number of better quoted ticks (`RankIs`, from `CountIs`), the
definition `VenueSide` and `VenueVolume` are stated by. The code's sum runs over indices and the venue's over
ticks: `SumsMatch` says that a sum does not depend on what its terms are called.

**pump.fun feed** (`CurveAssumption`, `UnitsAssumption`). `CurveIInv`: the newest notification in flight tells
of the curve as it is (`NewestIsCurve`), nothing is in flight off line and a book shown then outlived a
connection closed in good order (`OffLine`), and with none in flight a book that is shown is the curve's but for
the named exceptions (`ShownIsCurve`). `StaleTheorem` is `StaleOnlyWhereBlind`.

`RebuildTheorem` is the action property `RebuildWalksTheCurve`, and has three parts:

- *The flow.* The code keeps one number and the time of its last change; the property speaks of every trade and
  its own age. `FlowIInv` is the link between them: the tape's flow is the stored amount times what the ticks
  since have left of it. It holds through a tick because every weight of the tape shrinks in the same proportion
  (`TimePassesKeepsFlow`, by `SumsScale`) and through a trade because the sum gets one term more
  (`ReadTradeKeepsFlow`, by `SumOfOneMore`). Hence `DecayedFlow` is the tape's flow whenever it is read
  (`FlowIsDecayed`), with no rounding.
- *The levels.* A price and its root are given by inequalities (`RootOf`: the tokens left are the most whose
  square times the price stays within the product), which one number satisfies (`OneRoot`) and which the code's
  root of a quotient and the property's walk along the curve satisfy alike (`LeftIs`, `LevelIs`). `PricesAre`
  computes the prices from the powers of the ratio; they move away from the curve's (`PricesApart`). Roots of prices
  one ratio apart differ by a unit of tokens at least, as long as they are as large as `UnitsAssumption` makes them
  (`RootsApart`, `RootsLarge`). So every level adds a positive quantity (`NextLevel`, `LevelsAdd`), and the code's
  `max(..., 0.0)` never takes effect.
- *The sums.* What a level holds is a difference, so what all levels up to it hold telescopes (`HeldIs`), and the
  cap of the tilt at one half keeps both sides positive (`SkewIs`).

`Power` is a recursive function of its exponent, since the prover knows nothing of `^`: `PowersExist` shows that
its equation has a solution, `PowerPlus`, `PowerPositive` and `PowersOrder` are the laws the proof needs.

**Trade tape** (`TrackerAssumption`; any prices, sizes, and number of trades between two folds). `TrackerIInv`
says of the tracker, and of the one saved: wherever the anchor stands, `s1` and `s2` are the first and second
moment of the trades about it, in lowest terms. TLC did not check it as it stands, since it says that there is
some fraction the anchor is equal to; it checked it of the anchor's own terms. A trade adds its own term
(`AddMoments`), a fold moves the anchor and re-bases both sums (`FoldedKeeps`), and what `Vwap` and `Variance` make
of the moments does not depend on the anchor (`MeanIsAnchorFree`), which is `MomentsTheorem`. Lowest terms are what
makes equality of sums the equality of pairs: `RatSame` shows that equal fractions have the same lowest terms, so
every step comes down to an identity between polynomials, which the SMT solver decides once the fractions are
gone (`PlusIs`, `TimesIs`, `OverIs`).

**Sums** (`DataLemmas`). The library's fold over a set is a recursive function, chosen by its equation. `SumExists`
shows that the equation has a solution over any finite set (by least cardinality, again from `LeastOf`), `SumIs`
that any element can be added first, `SumTelescopes` and `SumsAdd` are what the leader filter's sums need,
`SumsMatch` with `CountIs` what the book's depth volume does, and `SumFunctionIs` with `SumOfOneMore` what the sums
over a growing tape do.

Only model-checked, and why:

- `HaltFlattens`, `StaleQuotePulled`, `EventuallyResynced` and `EveryOrderAnswered`, the liveness properties:
  fairness is out of the prover's reach.

Every invariant and every action property of a passing run is a theorem. What the theorems leave open is what the
models abstract: floating point above all (section 7).

## 6. Disagreements between text and code

With a run: the exposure cap is exceeded by two entries sized at the same moment (`gross_cap`); a night bid that
replaces an acknowledged one is sent after a halt that came during the `cancel_all` (`halt_requote`); the
breaker's latch is lost at a restart (`restart_breaker`); a refused batch cancel is taken for done
(`orders_refused`).

Seen while modelling, without a run of their own:

- A restored position has no entry price, so it is marked at no profit and no loss (`engine.py:151`).
- After a restart the heartbeat evaluates the checkpoint's book before any snapshot (`engine.py:112`).
- `_retry` sends an entry again although a halt came between attempts (`router.py:157`): with
  `EnableNightQuoting = FALSE`, `Attempts = 2` and `"retransmit"` among its faults, the instance of `halt_requote`
  violates `NoBuySentWhileHalted` this way.
- When a re-quote is refused after its `cancel_all`, `_deep_bids` still names the bid that was cancelled
  (`engine.py:379`), so the throttle takes it for resting until it is stale.
- The breaker latches when equity falls "more than" the limit (`risk.py:6`); the code compares with `>=`.
- A websocket closed in good order leaves the book shown while changes are missed (`coinbase_cex.py:152`).
- A message without a number, or the loss of the first one of a connection, hides a gap
  (`coinbase_cex.py:155`, `:163`): a run with `lose_blind` among its faults violates `BookNeverWrong`.
- Levels evicted from a full side are missing at the top once the better ones are deleted
  (`order_book.hpp:74`), where the comment promises the top of the book.
- A power loss can find both slots torn, since MS_ASYNC orders nothing, where the documentation promises at
  worst one. `DurableCell` therefore lets a power loss take the cell to nothing. It can also return a
  payload whose save never finished, whole but under an older sequence number.
- After a restart `cancel_all` knows no order and asks for nothing (`coinbase_cex.py:232`).
- `state.py` claims "the same torn-write discipline" without a checksum. `LoadsKeptOrTried` and
  `LoadsWholeStates` say when it holds and name the exceptions TLC found: a power loss during a save of more
  than one page, or a kill between the two stores of the header, can make `load` return the first half of one
  state with the second half of another; a sequence number used again after a failure can complete a slot that
  was torn; and a process that restarts after a kill trusts pages only the cache holds, so its first save can
  overwrite the one slot that is on the disk.
- `_submit_rpc` is "exits only — never used for entries" (`pumpfun_dex.py:240`); nothing enforces it: a buy
  with `use_mev_protection` off takes it.
- A swap may be reported as failed although it was executed: its first attempt lands, the answer is lost, and
  the repeat is answered with an error (`pumpfun_dex.py:234`). `FailedMeansUnfilled` names this exception.
- A pump.fun connection closed in good order leaves the book (`pumpfun_dex.py:108`), and the new subscription
  tells of changes only; a drained curve leaves the last book too (`:140`). `StaleOnlyWhereBlind` names both.
- Every new subscription to `market_trades` starts with recent trades; after a reconnect they are counted into
  VWAP and sigma a second time (`coinbase_cex.py:187`). "Session" statistics never end: nothing calls
  `VwapTracker::reset`.
- `signal_generator.hpp` and the engine treat an accepted limit order as filled (`engine.py:317`); the code
  says so itself.

## 7. Not modelled

Floating point (VWAP sums, decay and log returns are exact here, the square roots of the projection exact to a
unit of tokens); the rounding of prices to ticks and of quantities to lots (the assumption `BooksAssumption`
keeps every order at least a lot); JSON, signing and the encoding of a swap, which the code leaves
unimplemented; the fills streams, which the engine does not read; the tick-size lookup; `microprice` and
`spread_bps`, which only the dashboard reads; retuning a signal generator at run time; `ui.py`,
`trade_example.py`, bindings and packaging, which change no state. The bindings release the interpreter lock
during a call, but every call is made from the one event-loop thread.

## 8. Plan

Done: `SignalGenerator`, `RiskManager`, `Engine`, `CorrelationFilter`, `RiskLayer`, `DurableCell`,
`Checkpointer`, `CoinbaseFeed`, `BookSide`, `CoinbaseOrders`, `TradeLifecycle` with its refinement checked and
proved, `ToxicityScreen`, `PumpFunOrders`, `PumpFunFeed`, `VwapTracker`, `PortfolioCheckpoint`; the proofs of
section 5, which cover every invariant and action property of the passing runs.

Left:

- The engine over `CoinbaseOrders`: the tracked position against the venue's inventory.
