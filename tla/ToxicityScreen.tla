--------------------------- MODULE ToxicityScreen ---------------------------
(***************************************************************************)
(* The toxicity screen of pump.fun tokens (python/meanrev/toxicity.py): a  *)
(* cache with a time to live in front of a forensic sweep of two chain     *)
(* queries, with one lock per token.  screen() is called by order tasks;   *)
(* an action here runs from one suspension of the task to the next, and    *)
(* verdict tells the caller what it got.                                   *)
(*                                                                         *)
(* Times are kept as ages, capped where they stop to matter, so that no    *)
(* bound on the clock is needed.  The queries themselves are venue seams   *)
(* without a body: an answer is what its docstring says it returns, and an *)
(* exception, which is all the stub gives, is possible at each.            *)
(***************************************************************************)
EXTENDS Integers, Sequences

CONSTANTS
  Orders,     \* order tasks
  Mints,      \* tokens
  MintOf,     \* [Orders -> Mints]
  Ttl,        \* SCREEN_TTL_S
  Timeout,    \* the longest a chain query takes to answer
  MaxAge      \* bound: ages are not told apart from here on

ASSUME ScreenAssumption ==
  /\ MintOf \in [Orders -> Mints]
  /\ Ttl \in Nat \ {0} /\ Timeout \in Nat \ {0}
  /\ MaxAge \in Nat /\ MaxAge > Ttl + Timeout

VARIABLES
  cache,      \* _cache: [Mints -> report or NoReport]
  lock,       \* _locks: [Mints -> Seq(Orders)], the holder first, then those who wait
  stage,      \* [Orders -> where screen() is suspended]
  sweep,      \* [Orders -> [toxic, age]]: what the sweep found, and how long ago
  verdict,    \* [Orders -> what screen() returned]
  dirty,      \* the chain: [Mints -> BOOLEAN], a bundled launch or a dev cluster
  clean_age   \* history: how long ago the token was last clean

screenVars == <<cache, lock, stage, sweep, verdict, dirty, clean_age>>

Ages == 0..MaxAge
Reports == [tradeable : BOOLEAN, age : 0..Ttl]
NoReport == [tradeable |-> FALSE, age |-> Ttl]
NoSweep == [toxic |-> FALSE, age |-> 0]
Older(age, most) == IF age < most THEN age + 1 ELSE age

ScreenTypes ==
  /\ cache \in [Mints -> Reports]
  /\ lock \in [Mints -> Seq(Orders)]
  /\ stage \in [Orders -> {"out", "waiting", "queries", "report"}]
  /\ sweep \in [Orders -> [toxic : BOOLEAN, age : 0..Timeout]]
  /\ verdict \in [Orders -> {"none", "tradeable", "toxic", "raised"}]
  /\ dirty \in [Mints -> BOOLEAN] /\ clean_age \in [Mints -> Ages]

ScreenInit ==
  /\ cache = [m \in Mints |-> NoReport] /\ lock = [m \in Mints |-> <<>>]
  /\ stage = [t \in Orders |-> "out"] /\ sweep = [t \in Orders |-> NoSweep]
  /\ verdict = [t \in Orders |-> "none"]
  /\ dirty \in [Mints -> BOOLEAN]
  /\ clean_age = [m \in Mints |-> IF dirty[m] THEN MaxAge ELSE 0]

(* Variant of Fresh: a cached report is good for ever.                     *)
FreshForEver(m) == cache[m] # NoReport

Fresh(m) == cache[m].age < Ttl

Outcome(report) == IF report.tradeable THEN "tradeable" ELSE "toxic"

(* screen() leaves: with a verdict, holding no lock.                       *)
Leave(t, outcome) ==
  /\ stage' = [stage EXCEPT ![t] = "out"]
  /\ sweep' = [sweep EXCEPT ![t] = NoSweep]
  /\ verdict' = [verdict EXCEPT ![t] = outcome]

Release(t) == lock' = [lock EXCEPT ![MintOf[t]] = Tail(@)]
Reach(t, next) == stage' = [stage EXCEPT ![t] = next] /\ UNCHANGED verdict
Chain == UNCHANGED <<dirty, clean_age>>

(* screen() up to its first suspension: the cache answers, or the task     *)
(* gets the lock of a token nobody screens and starts the sweep (nothing   *)
(* can have changed for the second look at the cache), or it queues.       *)
ScreenFromCache(t) ==
  /\ Fresh(MintOf[t])
  /\ Leave(t, Outcome(cache[MintOf[t]]))
  /\ UNCHANGED <<cache, lock>> /\ Chain

ScreenLocks(t) ==
  /\ ~Fresh(MintOf[t])
  /\ lock' = [lock EXCEPT ![MintOf[t]] = Append(@, t)]
  /\ Reach(t, IF lock[MintOf[t]] = <<>> THEN "queries" ELSE "waiting")
  /\ UNCHANGED <<cache, sweep>> /\ Chain

Holds(t) == lock[MintOf[t]] # <<>> /\ Head(lock[MintOf[t]]) = t
Woken(t) == stage[t] = "waiting" /\ Holds(t)

(* Variant of WakeSatisfied and WakeSweeps: no second look at the cache.   *)
WakeSweepsAgain(t) ==
  /\ Woken(t)
  /\ Reach(t, "queries")
  /\ UNCHANGED <<cache, lock, sweep>> /\ Chain

(* The lock is passed on, first come first served, and the second look at  *)
(* the cache decides.                                                      *)
WakeSatisfied(t) ==
  /\ Woken(t) /\ Fresh(MintOf[t])
  /\ Leave(t, Outcome(cache[MintOf[t]])) /\ Release(t)
  /\ UNCHANGED cache /\ Chain

WakeSweeps(t) ==
  /\ Woken(t) /\ ~Fresh(MintOf[t])
  /\ Reach(t, "queries")
  /\ UNCHANGED <<cache, lock, sweep>> /\ Chain

(* _run_screen: the query for the launch, whose facts never change, and    *)
(* then for the dev cluster, which is read some time before the answer is  *)
(* there.                                                                  *)
ChainRead(t) ==
  /\ stage[t] = "queries"
  /\ sweep' = [sweep EXCEPT ![t] = [toxic |-> dirty[MintOf[t]], age |-> 0]]
  /\ Reach(t, "report")
  /\ UNCHANGED <<cache, lock>> /\ Chain

(* The report is made, dated and cached when the last answer is there, and *)
(* the lock released.                                                      *)
SweepEnds(t) ==
  LET report == [tradeable |-> ~sweep[t].toxic, age |-> 0] IN
  /\ stage[t] = "report"
  /\ cache' = [cache EXCEPT ![MintOf[t]] = report]
  /\ Leave(t, Outcome(report)) /\ Release(t)
  /\ Chain

(* Variant of SweepRaises: the lock is not released.                       *)
SweepRaisesLocked(t) ==
  /\ stage[t] \in {"queries", "report"}
  /\ Leave(t, "raised")
  /\ UNCHANGED <<cache, lock>> /\ Chain

(* A query raises: the lock is released and nothing cached.                *)
SweepRaises(t) ==
  /\ stage[t] \in {"queries", "report"}
  /\ Leave(t, "raised") /\ Release(t)
  /\ UNCHANGED cache /\ Chain

(* The chain (external): a token turns and, as supply moves, may turn back. *)
ChainMoves ==
  /\ \E m \in Mints :
       /\ dirty' = [dirty EXCEPT ![m] = ~@]
       /\ clean_age' = [clean_age EXCEPT ![m] = IF dirty[m] THEN 0 ELSE @]
  /\ UNCHANGED <<cache, lock, stage, sweep, verdict>>

(* Time passes, but no query outlasts its timeout.                         *)
ScreenTick ==
  /\ \A t \in Orders : sweep[t].age < Timeout
  /\ cache' = [m \in Mints |-> [cache[m] EXCEPT !.age = Older(@, Ttl)]]
  /\ sweep' = [t \in Orders |-> IF stage[t] = "report" THEN [sweep[t] EXCEPT !.age = @ + 1]
                                ELSE sweep[t]]
  /\ clean_age' = [m \in Mints |-> IF dirty[m] THEN Older(clean_age[m], MaxAge) ELSE 0]
  /\ UNCHANGED <<lock, stage, verdict, dirty>>
=============================================================================
