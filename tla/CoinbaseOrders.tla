--------------------------- MODULE CoinbaseOrders ---------------------------
(***************************************************************************)
(* Order entry at Coinbase for one symbol (submit_order and cancel_all of  *)
(* python/meanrev/exchanges/coinbase_cex.py over the _retry of             *)
(* python/meanrev/router.py), against a venue that keeps the orders and a  *)
(* network that delays and loses requests and answers.                     *)
(*                                                                         *)
(* The signal loop makes one call at a time.  An order is identified by    *)
(* its client id, which the venue uses to recognize a repeat; the venue's  *)
(* own order id stands for it one to one.                                  *)
(***************************************************************************)
EXTENDS Integers, FiniteSets

CONSTANTS
  MaxSubmits,   \* bound: submit_order calls
  Attempts,     \* attempts of _retry
  Faults        \* which faults a run explores

FaultKinds == {"lose", "reject", "refuse_cancel", "raise"}

ASSUME OrdersAssumption ==
  MaxSubmits \in Nat /\ Attempts \in Nat \ {0} /\ Faults \subseteq FaultKinds

(* Client ids: more than the submits, so that a reuse is not the bound's.  *)
Ids == 1..(MaxSubmits * Attempts)

VARIABLES
  call,         \* the call the signal loop awaits
  reply,        \* the venue's answer to the attempt under way, if any
  open_orders,  \* _open_orders of the symbol
  wire,         \* requests on their way to the venue
  venue,        \* [Ids -> what the venue knows of the order]
  orphaned,     \* history: orders the adapter gave up knowing
  submits,      \* history: submit_order calls made
  next_id       \* history: the next client id token_hex draws

vars == <<call, reply, open_orders, wire, venue, orphaned, submits, next_id>>

NoCall == [op |-> "none", ids |-> {}, attempt |-> 0]
Request(op, ids, attempt) == [op |-> op, ids |-> ids, attempt |-> attempt]
Requests == [op : {"none", "submit", "cancel"}, ids : SUBSET Ids, attempt : 0..Attempts]

TypeOK ==
  /\ call \in Requests
  /\ reply \in {"none", "ok", "error"}
  /\ open_orders \subseteq Ids /\ orphaned \subseteq Ids
  /\ wire \subseteq Requests
  /\ venue \in [Ids -> {"unknown", "open", "filled", "cancelled"}]
  /\ submits \in 0..MaxSubmits

Init ==
  /\ call = NoCall /\ reply = "none" /\ open_orders = {} /\ wire = {}
  /\ venue = [id \in Ids |-> "unknown"]
  /\ orphaned = {} /\ submits = 0 /\ next_id = 1

(***************************************************************************)
(* The adapter.                                                            *)
(***************************************************************************)
Send(request) ==
  /\ call' = request
  /\ wire' = wire \cup {request}
  /\ reply' = "none"

(* submit_order: the client id is drawn once, before the first attempt.    *)
Submit ==
  /\ call = NoCall /\ submits < MaxSubmits
  /\ Send(Request("submit", {next_id}, 1))
  /\ submits' = submits + 1 /\ next_id' = next_id + 1
  /\ UNCHANGED <<open_orders, venue, orphaned>>

(* Variant of CancelAll: one order is named, and all are forgotten.        *)
CancelAnyOne ==
  /\ call = NoCall /\ open_orders # {}
  /\ Send(Request("cancel", {CHOOSE id \in open_orders : TRUE}, 1))
  /\ UNCHANGED <<open_orders, venue, orphaned, submits, next_id>>

(* cancel_all: the ids it will name are read before the request; with no   *)
(* order known it returns without one (a stuttering step).                 *)
CancelAll ==
  /\ call = NoCall /\ open_orders # {}
  /\ Send(Request("cancel", open_orders, 1))
  /\ UNCHANGED <<open_orders, venue, orphaned, submits, next_id>>

(* Variants of Retry: every attempt draws a client id of its own; there is *)
(* one attempt too many.                                                   *)
RetryFreshId ==
  /\ call # NoCall /\ "lose" \in Faults /\ call.attempt < Attempts
  /\ next_id \in Ids
  /\ Send(Request(call.op, IF call.op = "submit" THEN {next_id} ELSE call.ids,
                  call.attempt + 1))
  /\ next_id' = next_id + 1
  /\ UNCHANGED <<open_orders, venue, orphaned, submits>>

RetryOnceMore ==
  /\ call # NoCall /\ "lose" \in Faults /\ call.attempt <= Attempts
  /\ Send(Request(call.op, call.ids, call.attempt + 1))
  /\ UNCHANGED <<open_orders, venue, orphaned, submits, next_id>>

(* A transient failure, with or without the request having arrived: the    *)
(* same body goes out again.                                               *)
Retry ==
  /\ call # NoCall /\ "lose" \in Faults /\ call.attempt < Attempts
  /\ Send(Request(call.op, call.ids, call.attempt + 1))
  /\ UNCHANGED <<open_orders, venue, orphaned, submits, next_id>>

Return ==
  /\ call' = NoCall /\ reply' = "none"
  /\ UNCHANGED <<wire, venue, submits, next_id>>

(* Variant: an accepted order is not remembered.                           *)
SubmitReturnsOnly ==
  /\ call.op = "submit" /\ reply # "none"
  /\ UNCHANGED <<open_orders, orphaned>>
  /\ Return

(* An error is final for the order of a single attempt; after a retry an   *)
(* earlier attempt may still arrive, and nobody will know.                 *)
SubmitReturns ==
  /\ call.op = "submit" /\ reply # "none"
  /\ open_orders' = IF reply = "ok" THEN open_orders \cup call.ids ELSE open_orders
  /\ orphaned' = IF reply = "error" /\ call.attempt > 1 THEN orphaned \cup call.ids ELSE orphaned
  /\ Return

(* cancel_all reads the answer and does not look at its status: it forgets *)
(* the orders of a refused cancel too.                                     *)
CancelReturns ==
  /\ call.op = "cancel" /\ reply # "none"
  /\ open_orders' = {}
  /\ orphaned' = IF reply = "error" THEN orphaned \cup call.ids ELSE orphaned
  /\ Return

(* The last attempt fails, or the answer is not one _retry retries on: the *)
(* engine goes down with it, and a new process knows of no order.          *)
Raise ==
  /\ call # NoCall /\ "raise" \in Faults
  /\ open_orders' = {}
  /\ orphaned' = orphaned \cup open_orders \cup call.ids
  /\ Return

(***************************************************************************)
(* The venue (external): it accepts an order once per client id, fills a   *)
(* resting order when it pleases, and cancels what it is asked to.         *)
(***************************************************************************)
Answers(request, answer) ==
  /\ wire' = wire \ {request}
  /\ reply' = IF request = call /\ reply = "none" THEN answer ELSE reply
  /\ UNCHANGED <<call, open_orders, orphaned, submits, next_id>>

VenueAccepts == \E request \in wire :
  /\ request.op = "submit"
  /\ venue' = [id \in Ids |-> IF id \in request.ids /\ venue[id] = "unknown"
                              THEN "open" ELSE venue[id]]
  /\ Answers(request, "ok")

VenueRejects == \E request \in wire :
  /\ request.op = "submit" /\ "reject" \in Faults
  /\ \A id \in request.ids : venue[id] = "unknown"
  /\ Answers(request, "error")
  /\ UNCHANGED venue

VenueCancels == \E request \in wire :
  /\ request.op = "cancel"
  /\ venue' = [id \in Ids |-> IF id \in request.ids /\ venue[id] = "open"
                              THEN "cancelled" ELSE venue[id]]
  /\ Answers(request, "ok")

VenueRefusesCancel == \E request \in wire :
  /\ request.op = "cancel" /\ "refuse_cancel" \in Faults
  /\ Answers(request, "error")
  /\ UNCHANGED venue

VenueFills == \E id \in Ids :
  /\ venue[id] = "open"
  /\ venue' = [venue EXCEPT ![id] = "filled"]
  /\ UNCHANGED <<call, reply, open_orders, wire, orphaned, submits, next_id>>

Adapter == Submit \/ CancelAll \/ Retry \/ SubmitReturns \/ CancelReturns \/ Raise
Venue == VenueAccepts \/ VenueRejects \/ VenueCancels \/ VenueRefusesCancel \/ VenueFills

Next == Adapter \/ Venue

Spec == Init /\ [][Next]_vars

(***************************************************************************)
(* Properties.                                                             *)
(***************************************************************************)
Placed == {id \in Ids : venue[id] # "unknown"}
Resting == {id \in Ids : venue[id] = "open"}

(* router.py: "a timeout-then-retry can never double-fill": however many   *)
(* attempts a call takes and however late its requests arrive, even after  *)
(* the call returned, the venue holds at most one order per submit_order.  *)
OneOrderPerSubmit == Cardinality(Placed) <= submits

(* Every order resting at the venue can still be cancelled, because its id *)
(* is known to the adapter or about to be, but for those it lost in one of *)
(* three ways: the call raised, a cancel was refused, or an error answered *)
(* a retry while an earlier attempt was still under way.                   *)
RestingIsTracked == Resting \subseteq open_orders \cup call.ids \cup orphaned

(* router.py: cancel_all must "pull every resting order": when it returns  *)
(* nothing rests at the venue.                                             *)
CancelPullsEverything ==
  [][CancelReturns => Resting' = {}]_vars
=============================================================================
