---------------------------- MODULE PumpFunOrders ----------------------------
(***************************************************************************)
(* Order entry at pump.fun (submit_order and its two ways to send a swap,  *)
(* python/meanrev/exchanges/pumpfun_dex.py, over the _retry of router.py), *)
(* with the toxicity screen in front of every buy.  Any number of orders   *)
(* may be under way.  The two ways to send differ in the address and are   *)
(* one here.  Building the transaction, a venue seam, succeeds or raises.  *)
(*                                                                         *)
(* A transaction is <<order, n>>, n the attempt it was signed for.  The    *)
(* chain executes one signed transaction at most once.                     *)
(***************************************************************************)
EXTENDS ToxicityScreen, FiniteSets

CONSTANTS
  Tries,      \* attempts of _retry
  Patience    \* the longest an attempt takes, with the backoff after it

ASSUME SwapAssumption ==
  /\ Tries \in Nat \ {0} /\ Patience \in Nat \ {0}
  /\ MaxAge >= Ttl + Timeout + (Tries - 1) * Patience

VARIABLES
  swap,       \* [Orders -> submit_order's progress]
  requests,   \* <<order, attempt, n>>: requests on their way to the block engine
  accepted,   \* transactions the block engine accepted
  landed      \* transactions the chain executed

swapVars == <<screenVars, swap, requests, accepted, landed>>
wireVars == <<requests, accepted, landed>>

NoSwap == [side |-> "none", phase |-> "idle", attempt |-> 0, signed |-> 0, waited |-> 0]

SwapTypes ==
  /\ ScreenTypes
  /\ swap \in [Orders -> [side : {"none", "buy", "sell"},
                          phase : {"idle", "screening", "sending", "ok", "error", "blocked", "raised"},
                          attempt : 0..Tries, signed : 0..Tries, waited : 0..Patience]]
  /\ requests \subseteq Orders \X (1..Tries) \X (1..Tries)
  /\ landed \subseteq accepted /\ accepted \subseteq Orders \X (1..Tries)

SwapInit ==
  /\ ScreenInit
  /\ swap = [t \in Orders |-> NoSwap]
  /\ requests = {} /\ accepted = {} /\ landed = {}

Finish(t, phase) ==
  /\ swap' = [swap EXCEPT ![t].phase = phase, ![t].waited = 0]
  /\ UNCHANGED wireVars

SendSwap(t, side, attempt, signed) ==
  /\ swap' = [swap EXCEPT ![t] = [side |-> side, phase |-> "sending", attempt |-> attempt,
                                  signed |-> signed, waited |-> 0]]
  /\ requests' = requests \cup {<<t, attempt, signed>>}
  /\ UNCHANGED <<accepted, landed>>

(* _build_swap_tx: signed once, before the first attempt, or an exception. *)
BuildAndSend(t, side) ==
  SendSwap(t, side, 1, 1) \/ Finish(t, "raised")

(* What submit_order makes of screen(), in the step in which it returns.   *)
Screened(t) ==
  CASE verdict'[t] = "none"      -> /\ swap' = [swap EXCEPT ![t].side = "buy", ![t].phase = "screening"]
                                    /\ UNCHANGED wireVars
    [] verdict'[t] = "tradeable" -> BuildAndSend(t, "buy")
    [] verdict'[t] = "toxic"     -> Finish(t, "blocked")
    [] verdict'[t] = "raised"    -> Finish(t, "raised")

Buy(t) ==
  /\ swap[t].phase = "idle"
  /\ ScreenFromCache(t) \/ ScreenLocks(t)
  /\ Screened(t)

(* A sale is not screened.                                                 *)
Sell(t) ==
  /\ swap[t].phase = "idle"
  /\ BuildAndSend(t, "sell")
  /\ UNCHANGED screenVars

(* The suspended screen goes on, and the order with it.                    *)
Resume(t) ==
  /\ swap[t].phase = "screening"
  /\ \/ WakeSatisfied(t) \/ WakeSweeps(t)
     \/ ChainRead(t) \/ SweepEnds(t) \/ SweepRaises(t)
  /\ Screened(t)

Sending(t) == swap[t].phase = "sending"

(* Variants of Resend: the transaction is built anew for every attempt;    *)
(* there is one attempt too many.                                          *)
ResendOnceMore(t) ==
  /\ Sending(t) /\ swap[t].attempt <= Tries
  /\ SendSwap(t, swap[t].side, swap[t].attempt + 1, swap[t].signed)
  /\ UNCHANGED screenVars

ResendSigned(t) ==
  /\ Sending(t) /\ swap[t].attempt < Tries
  /\ SendSwap(t, swap[t].side, swap[t].attempt + 1, swap[t].attempt + 1)
  /\ UNCHANGED screenVars

(* A transient failure, with or without the request having arrived: the    *)
(* same signed transaction goes out again.                                 *)
Resend(t) ==
  /\ Sending(t) /\ swap[t].attempt < Tries
  /\ SendSwap(t, swap[t].side, swap[t].attempt + 1, swap[t].signed)
  /\ UNCHANGED screenVars

(* Variant of GiveUp: an exception is made a rejection.                    *)
GiveUpQuietly(t) ==
  /\ Sending(t)
  /\ Finish(t, "error")
  /\ UNCHANGED screenVars

(* The last attempt fails, or the answer is not one _retry retries on.     *)
GiveUp(t) ==
  /\ Sending(t)
  /\ Finish(t, "raised")
  /\ UNCHANGED screenVars

(***************************************************************************)
(* Block engine and chain (external).                                      *)
(***************************************************************************)
(* A request arrives, or not; its answer is read if it is the attempt      *)
(* under way and the answer is not lost.                                   *)
Answer(r, phase) ==
  /\ requests' = requests \ {r}
  /\ \/ /\ Sending(r[1]) /\ swap[r[1]].attempt = r[2]
        /\ swap' = [swap EXCEPT ![r[1]].phase = phase, ![r[1]].waited = 0]
     \/ UNCHANGED swap
  /\ UNCHANGED <<screenVars, landed>>

Accept == \E r \in requests : accepted' = accepted \cup {<<r[1], r[3]>>} /\ Answer(r, "ok")
Refuse == \E r \in requests : UNCHANGED accepted /\ Answer(r, "error")

Land == \E tx \in accepted \ landed :
  /\ landed' = landed \cup {tx}
  /\ UNCHANGED <<screenVars, swap, requests, accepted>>

SwapTick ==
  /\ \A t \in Orders : swap[t].waited < Patience
  /\ ScreenTick
  /\ swap' = [t \in Orders |-> IF Sending(t) THEN [swap[t] EXCEPT !.waited = @ + 1] ELSE swap[t]]
  /\ UNCHANGED wireVars

TokenTurns == ChainMoves /\ UNCHANGED <<swap, wireVars>>

Swapping(t) == Resume(t) \/ Resend(t) \/ GiveUp(t)

SwapNext ==
  \/ \E t \in Orders : Buy(t) \/ Sell(t) \/ Swapping(t)
  \/ Accept \/ Refuse \/ Land
  \/ SwapTick \/ TokenTurns

SwapSpec == SwapInit /\ [][SwapNext]_swapVars

(* The event loop runs a task whose query, lock or answer is there, and    *)
(* queries and attempts end, since the HTTP session has a timeout.         *)
SwapFairness == \A t \in Orders : WF_swapVars(Swapping(t))

(***************************************************************************)
(* Properties.                                                             *)
(***************************************************************************)

(* "Toxicity gate on every BUY", with what caching and retrying cost: when *)
(* a buy is sent, its token was clean at most a time to live and one query *)
(* ago, and an attempt's time more for every retry, however orders share   *)
(* screens, queue for them and see them fail.                              *)
NoStaleBuy ==
  [][\A t \in Orders : swap[t]'.side = "buy" /\ swap[t]'.attempt > swap[t].attempt
       => clean_age[MintOf[t]] < Ttl + Timeout + swap[t].attempt * Patience]_swapVars

(* toxicity.py: concurrent buys "must not fan out into N identical RPC     *)
(* forensic sweeps": a sweep begins only when no other is under way for    *)
(* the token and the last report has expired.                              *)
Sweeping(t) == stage[t] \in {"queries", "report"}

NoRedundantSweep ==
  [][\A t \in Orders : ~Sweeping(t) /\ Sweeping(t)' =>
       /\ ~Fresh(MintOf[t])
       /\ \A u \in Orders : MintOf[u] = MintOf[t] => ~Sweeping(u)]_swapVars

(* router.py: "a timeout-then-retry can never double-fill": whatever is    *)
(* retried, lost or late, one order is executed at most once.              *)
OneSwapPerOrder ==
  \A t \in Orders : Cardinality({tx \in landed : tx[1] = t}) <= 1

(* An order reported as failed was not executed, but in the two ways the   *)
(* adapter cannot know of: the call raised, or an error answered a retry.  *)
FailedMeansUnfilled ==
  \A t \in Orders : (\E tx \in accepted : tx[1] = t) =>
    \/ swap[t].phase \in {"sending", "ok", "raised"}
    \/ swap[t].phase = "error" /\ swap[t].attempt > 1

(* Every order that is begun is answered or raises: no screen waits for    *)
(* ever behind one that failed.                                            *)
EveryOrderAnswered ==
  \A t \in Orders :
    swap[t].phase \in {"screening", "sending"}
      ~> swap[t].phase \in {"ok", "error", "blocked", "raised"}
=============================================================================
