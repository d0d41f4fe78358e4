--------------------------- MODULE SignalGenerator ---------------------------
(***************************************************************************)
(* The C++ signal generator (cpp/include/signal_generator.hpp), one per    *)
(* instrument: the regime gate, the tracked position and the one-shot      *)
(* posture flush, and the decision evaluate() takes on a view of the book. *)
(*                                                                         *)
(* A book view is the record of what evaluate() and the engine read of an  *)
(* OrderBook: best bid and ask (0 when that side is empty), the last trade *)
(* price, the imbalance in percent, and VWAP, sigma and volume of the      *)
(* session's tape.  Prices are in half ticks and both quotes of a view are *)
(* even, so the mid is exact; z-scores are in tenths of a sigma.           *)
(***************************************************************************)
EXTENDS Integers

CONSTANTS
  Instruments,
  EntryZ, ExitZ,     \* entry_z, exit_z, in tenths of a sigma
  ObiMin, ObiFlip,   \* obi_min, obi_flip, in percent
  NightK,            \* night_k, in tenths of a sigma
  MinSigma, MinVolume

ASSUME SignalConfigAssumption ==
  /\ EntryZ \in Nat /\ ExitZ \in Int /\ NightK \in Nat
  /\ ObiMin \in -100..100 /\ ObiFlip \in -100..100
  /\ MinSigma \in Nat /\ MinVolume \in Nat

Regimes == {"NORMAL", "CEX_NIGHT_PASSIVE", "DEX_NIGHT_EXIT_ONLY", "HALTED"}

VARIABLES
  regime,         \* [Instruments -> Regimes]: regime_
  position,       \* [Instruments -> Nat]: position_, the long inventory
  posture_dirty   \* [Instruments -> BOOLEAN]: posture_dirty_

signalVars == <<regime, position, posture_dirty>>

SignalTypeOK ==
  /\ regime \in [Instruments -> Regimes]
  /\ position \in [Instruments -> Nat]
  /\ posture_dirty \in [Instruments -> BOOLEAN]

SignalInit ==
  /\ regime = [i \in Instruments |-> "NORMAL"]
  /\ position = [i \in Instruments |-> 0]
  /\ posture_dirty = [i \in Instruments |-> FALSE]

(* Variant: a set_regime that changes nothing withdraws the flush owed.    *)
SetRegimesForgetful(new) ==
  /\ posture_dirty' = [i \in Instruments |-> new[i] # regime[i]]
  /\ regime' = new

(* set_regime on every instrument: a change asks for a posture flush.      *)
SetRegimes(new) ==
  /\ posture_dirty' = [i \in Instruments |-> posture_dirty[i] \/ new[i] # regime[i]]
  /\ regime' = new

SetPosition(i, qty) == position' = [position EXCEPT ![i] = qty]

(***************************************************************************)
(* What evaluate() reads of a book.                                        *)
(***************************************************************************)
BookViews ==
  [bid : Nat, ask : Nat, last : Nat, obi : -100..100, vwap : Nat, sigma : Nat, volume : Nat]

EmptyBook ==
  [bid |-> 0, ask |-> 0, last |-> 0, obi |-> 0, vwap |-> 0, sigma |-> 0, volume |-> 0]

(* OrderBook::clear drops the levels and keeps the tape and the last trade. *)
Cleared(b) ==
  [bid |-> 0, ask |-> 0, last |-> b.last, obi |-> 0,
   vwap |-> b.vwap, sigma |-> b.sigma, volume |-> b.volume]

Mid(b) == IF b.bid = 0 \/ b.ask = 0 THEN b.last ELSE (b.bid + b.ask) \div 2

StatsReady(b) == b.sigma > MinSigma /\ b.volume > MinVolume

(* vwap_zscore, in tenths, compared without dividing by sigma.             *)
ZAtLeast(b, z) == 10 * (Mid(b) - b.vwap) >= z * b.sigma
ZAtMost(b, z)  == 10 * (Mid(b) - b.vwap) <= z * b.sigma

(* vwap_band(-night_k), in tenths of a price unit.                         *)
DeepBidPrice(b) == 10 * b.vwap - NightK * b.sigma

(* The trailing stop proposed: one sigma under mid.                        *)
TrailProposal(b) == Mid(b) - b.sigma

(***************************************************************************)
(* The action evaluate() returns, one predicate per action.  The flush     *)
(* wins over everything; what follows depends on the regime.               *)
(***************************************************************************)
(* Variant: the flush is for taking up the night posture only.             *)
WantsFlushAtNight(i) == posture_dirty[i] /\ regime[i] = "CEX_NIGHT_PASSIVE"

WantsFlush(i) == posture_dirty[i]

(* Variant of WantsEntry: whatever is held.                                *)
WantsEntryAgain(i, b) ==
  /\ ~posture_dirty[i] /\ regime[i] = "NORMAL"
  /\ StatsReady(b) /\ ZAtMost(b, -EntryZ) /\ b.obi >= ObiMin

WantsEntry(i, b) ==
  /\ ~posture_dirty[i] /\ regime[i] = "NORMAL" /\ position[i] <= 0
  /\ StatsReady(b) /\ ZAtMost(b, -EntryZ) /\ b.obi >= ObiMin

(* Variant: a halt waits for reversion like every other exit.              *)
WantsExitReverted(i, b) ==
  /\ ~posture_dirty[i] /\ position[i] > 0 /\ StatsReady(b) /\ ZAtLeast(b, ExitZ)

WantsExit(i, b) ==
  /\ ~posture_dirty[i] /\ position[i] > 0
  /\ \/ regime[i] = "HALTED"
     \/ StatsReady(b) /\ ZAtLeast(b, ExitZ)
     \/ regime[i] = "NORMAL" /\ StatsReady(b) /\ b.obi <= ObiFlip

(* Variant of WantsTrail: whether or not there is a position.              *)
WantsTrailFlat(i, b) ==
  /\ ~posture_dirty[i] /\ regime[i] = "DEX_NIGHT_EXIT_ONLY"
  /\ ~(StatsReady(b) /\ ZAtLeast(b, ExitZ))

WantsTrail(i, b) ==
  /\ ~posture_dirty[i] /\ regime[i] = "DEX_NIGHT_EXIT_ONLY" /\ position[i] > 0
  /\ ~(StatsReady(b) /\ ZAtLeast(b, ExitZ))

WantsDeepBid(i, b) ==
  /\ ~posture_dirty[i] /\ regime[i] = "CEX_NIGHT_PASSIVE" /\ position[i] <= 0
  /\ StatsReady(b)
=============================================================================
