------------------------ MODULE CoinbaseOrdersProofs ------------------------
(***************************************************************************)
(* Proofs about CoinbaseOrders: for any number of submits and attempts and *)
(* any combination of faults.                                              *)
(***************************************************************************)
EXTENDS CoinbaseOrders, FiniteSetTheorems, TLAPS

(***************************************************************************)
(* The inductive invariant.                                                *)
(***************************************************************************)
Submits(request) == request.op = "submit"

(* Client ids are drawn in order, and nothing names one not yet drawn.     *)
DrawnIds ==
  /\ next_id = submits + 1
  /\ \A request \in wire \cup {call} : request.ids \subseteq 1..submits
  /\ open_orders \subseteq 1..submits
  /\ \A id \in Ids : venue[id] # "unknown" => id <= submits

(* A submit under way is the last one drawn, and the requests the network  *)
(* still holds of it are its attempts so far.                              *)
Attempted ==
  /\ call.op = "none" => call = NoCall
  /\ Submits(call) => call.ids = {submits}
  /\ \A request \in wire \cup {call} : request.op # "none" => request.attempt > 0
  /\ \A request \in wire : request.op # "none"
  /\ \A request \in wire : Submits(call) /\ Submits(request) /\ submits \in request.ids
       => request.ids = call.ids /\ request.attempt <= call.attempt

(* What an answer read by the adapter says of the orders of its call.      *)
AnswersTrue ==
  /\ Submits(call) /\ reply = "ok" => \A id \in call.ids : venue[id] # "unknown"
  /\ Submits(call) /\ reply = "error" /\ call.attempt = 1 =>
       /\ \A id \in call.ids : venue[id] = "unknown"
       /\ \A request \in wire : Submits(request) => request.ids \cap call.ids = {}
  /\ call.op = "cancel" /\ reply = "ok" =>
       \A id \in call.ids : venue[id] \in {"filled", "cancelled"}

(* The adapter keeps only orders the venue accepted, and a cancel names    *)
(* all of them.                                                            *)
KeepsAccepted ==
  /\ \A id \in open_orders : venue[id] # "unknown"
  /\ call.op = "cancel" => call.ids = open_orders

(* An order that is not at the venue yet, but on its way there, is tracked *)
(* as one that rests.                                                      *)
OnItsWay ==
  \A request \in wire : Submits(request) =>
    \A id \in request.ids :
      venue[id] = "unknown" => id \in open_orders \cup call.ids \cup orphaned

OrdersIInv ==
  /\ TypeOK /\ DrawnIds /\ Attempted /\ AnswersTrue /\ KeepsAccepted /\ OnItsWay
  /\ RestingIsTracked

(***************************************************************************)
(* Facts about the bounds and about what a step does.                      *)
(***************************************************************************)
LEMMA IdsAreNaturals == Ids \subseteq Nat
<1>1. MaxSubmits * Attempts \in Int
  BY OrdersAssumption, SMT
<1> QED
  BY <1>1 DEF Ids

LEMMA SubmitsAreIds == ASSUME NEW n \in 1..MaxSubmits PROVE n \in Ids
<1>1. MaxSubmits \in Nat /\ Attempts \in Nat /\ Attempts >= 1
  BY OrdersAssumption
<1>2. MaxSubmits * Attempts >= MaxSubmits
  BY <1>1, SMT
<1> QED
  BY <1>1, <1>2 DEF Ids

LEMMA RequestTypes ==
  ASSUME NEW op \in {"submit", "cancel"}, NEW ids \in SUBSET Ids, NEW attempt \in 1..Attempts
  PROVE  /\ Request(op, ids, attempt) \in Requests
         /\ Request(op, ids, attempt).op = op /\ Request(op, ids, attempt).ids = ids
         /\ Request(op, ids, attempt).attempt = attempt
BY OrdersAssumption DEF Request, Requests

LEMMA NoCallFacts == NoCall \in Requests /\ NoCall.op = "none" /\ NoCall.ids = {}
BY OrdersAssumption DEF NoCall, Requests

LEMMA OrdersInit == Init => OrdersIInv
<1> SUFFICES ASSUME Init PROVE OrdersIInv
  OBVIOUS
<1> USE NoCallFacts DEF Init
<1>1. TypeOK
  BY OrdersAssumption DEF TypeOK
<1>2. DrawnIds /\ Attempted /\ KeepsAccepted /\ OnItsWay /\ AnswersTrue /\ RestingIsTracked
  BY DEF DrawnIds, Attempted, AnswersTrue, KeepsAccepted, OnItsWay, RestingIsTracked, Resting, Submits
<1> QED
  BY <1>1, <1>2 DEF OrdersIInv

(* submit_order draws an id that nothing names yet.                        *)
LEMMA SubmitKeeps == OrdersIInv /\ Submit => OrdersIInv'
<1> SUFFICES ASSUME OrdersIInv, Submit PROVE OrdersIInv'
  OBVIOUS
<1> USE DEF OrdersIInv
<1> DEFINE new == Request("submit", {next_id}, 1)
<1>1. /\ call = NoCall /\ submits \in 0..MaxSubmits /\ submits < MaxSubmits
      /\ call' = new /\ wire' = wire \cup {new} /\ reply' = "none"
      /\ submits' = submits + 1 /\ next_id' = next_id + 1 /\ next_id = submits + 1
      /\ UNCHANGED <<open_orders, venue, orphaned>>
  BY DEF Submit, Send, TypeOK, DrawnIds
<1>2. next_id \in Ids /\ next_id = submits' /\ submits' \in 0..MaxSubmits /\ MaxSubmits \in Nat
  BY <1>1, SubmitsAreIds, OrdersAssumption
<1>3. /\ new \in Requests /\ new.op = "submit" /\ new.ids = {submits'} /\ new.attempt = 1
  BY <1>2, RequestTypes, OrdersAssumption
<1> HIDE DEF new
<1>4. TypeOK'
  BY <1>1, <1>2, <1>3 DEF TypeOK
<1>5. DrawnIds'
  BY <1>1, <1>2, <1>3, IdsAreNaturals DEF DrawnIds, TypeOK
<1>6. Attempted'
  BY <1>1, <1>2, <1>3 DEF Attempted, Submits, DrawnIds, TypeOK
<1>7. AnswersTrue' /\ KeepsAccepted'
  BY <1>1, <1>3 DEF AnswersTrue, KeepsAccepted
<1>8. OnItsWay'
  BY <1>1, <1>3, NoCallFacts DEF OnItsWay, Submits
<1>9. RestingIsTracked'
  BY <1>1, NoCallFacts DEF RestingIsTracked, Resting
<1> QED
  BY <1>4, <1>5, <1>6, <1>7, <1>8, <1>9

(* cancel_all names the orders it knows.                                   *)
LEMMA CancelKeeps == OrdersIInv /\ CancelAll => OrdersIInv'
<1> SUFFICES ASSUME OrdersIInv, CancelAll PROVE OrdersIInv'
  OBVIOUS
<1> USE DEF OrdersIInv
<1> DEFINE new == Request("cancel", open_orders, 1)
<1>1. /\ call = NoCall /\ call' = new /\ wire' = wire \cup {new} /\ reply' = "none"
      /\ UNCHANGED <<open_orders, venue, orphaned, submits, next_id>>
  BY DEF CancelAll, Send
<1>2. new \in Requests /\ new.op = "cancel" /\ new.ids = open_orders /\ new.attempt = 1
  BY RequestTypes, OrdersAssumption DEF TypeOK
<1> HIDE DEF new
<1>3. TypeOK'
  BY <1>1, <1>2 DEF TypeOK
<1>4. DrawnIds'
  BY <1>1, <1>2 DEF DrawnIds
<1>5. Attempted'
  BY <1>1, <1>2 DEF Attempted, Submits
<1>6. AnswersTrue' /\ KeepsAccepted'
  BY <1>1, <1>2 DEF AnswersTrue, KeepsAccepted, Submits
<1>7. OnItsWay' /\ RestingIsTracked'
  BY <1>1, <1>2, NoCallFacts DEF OnItsWay, RestingIsTracked, Resting, Submits
<1> QED
  BY <1>3, <1>4, <1>5, <1>6, <1>7

(* _retry sends the same body, which adds an attempt to those known.       *)
LEMMA RetryKeeps == OrdersIInv /\ Retry => OrdersIInv'
<1> SUFFICES ASSUME OrdersIInv, Retry PROVE OrdersIInv'
  OBVIOUS
<1> USE DEF OrdersIInv
<1> DEFINE new == Request(call.op, call.ids, call.attempt + 1)
<1>1. /\ call # NoCall /\ call.attempt < Attempts
      /\ call' = new /\ wire' = wire \cup {new} /\ reply' = "none"
      /\ UNCHANGED <<open_orders, venue, orphaned, submits, next_id>>
  BY DEF Retry, Send
<1>2. /\ call.op \in {"submit", "cancel"} /\ call.ids \in SUBSET Ids /\ call.attempt \in 1..Attempts
      /\ call.attempt + 1 \in 1..Attempts
  BY <1>1, OrdersAssumption DEF TypeOK, Requests, Attempted
<1>3. /\ new \in Requests /\ new.op = call.op /\ new.ids = call.ids
      /\ new.attempt = call.attempt + 1
  BY <1>2, RequestTypes
<1> HIDE DEF new
<1>4. TypeOK'
  BY <1>1, <1>3 DEF TypeOK
<1>5. DrawnIds' /\ KeepsAccepted' /\ AnswersTrue'
  BY <1>1, <1>3 DEF DrawnIds, KeepsAccepted, AnswersTrue
<1>6. Attempted'
  <2>1. \A request \in wire : request.attempt \in Int
    BY DEF TypeOK, Requests
  <2> QED
    BY <1>1, <1>2, <1>3, <2>1 DEF Attempted, Submits
<1>7. OnItsWay' /\ RestingIsTracked'
  BY <1>1, <1>3 DEF OnItsWay, RestingIsTracked, Resting, Submits
<1> QED
  BY <1>4, <1>5, <1>6, <1>7

(* submit_order returns: its order is known, refused, or given up.         *)
LEMMA SubmitReturnsKeeps == OrdersIInv /\ SubmitReturns => OrdersIInv'
<1> SUFFICES ASSUME OrdersIInv, SubmitReturns PROVE OrdersIInv'
  OBVIOUS
<1> USE DEF OrdersIInv
<1>1. /\ call.op = "submit" /\ reply # "none" /\ call' = NoCall /\ reply' = "none"
      /\ UNCHANGED <<wire, venue, submits, next_id>>
      /\ open_orders' = IF reply = "ok" THEN open_orders \cup call.ids ELSE open_orders
      /\ orphaned' = IF reply = "error" /\ call.attempt > 1 THEN orphaned \cup call.ids
                     ELSE orphaned
  BY DEF SubmitReturns, Return
<1>2. call.ids \subseteq Ids /\ reply \in {"ok", "error"} /\ call.attempt \in Nat /\ call.attempt > 0
  BY <1>1, OrdersAssumption DEF TypeOK, Requests, Attempted
<1>3. TypeOK'
  BY <1>1, <1>2, NoCallFacts DEF TypeOK
<1>4. DrawnIds'
  BY <1>1, NoCallFacts DEF DrawnIds
<1>5. Attempted' /\ AnswersTrue'
  BY <1>1, NoCallFacts DEF Attempted, AnswersTrue, Submits
<1>6. KeepsAccepted'
  BY <1>1, NoCallFacts DEF KeepsAccepted, AnswersTrue, Submits
<1>7. \/ \A id \in call.ids : id \in open_orders' \cup orphaned'
      \/ /\ \A id \in call.ids : venue[id] = "unknown"
         /\ \A request \in wire : Submits(request) => request.ids \cap call.ids = {}
  BY <1>1, <1>2 DEF AnswersTrue, Submits
<1>8. open_orders \subseteq open_orders' /\ orphaned \subseteq orphaned'
  BY <1>1
<1>9. OnItsWay'
  BY <1>1, <1>7, <1>8 DEF OnItsWay, Submits
<1>10. RestingIsTracked'
  BY <1>1, <1>7, <1>8 DEF RestingIsTracked, Resting
<1> QED
  BY <1>3, <1>4, <1>5, <1>6, <1>9, <1>10

(* cancel_all returns: what it forgets was taken back, or is orphaned.     *)
LEMMA CancelReturnsKeeps == OrdersIInv /\ CancelReturns => OrdersIInv'
<1> SUFFICES ASSUME OrdersIInv, CancelReturns PROVE OrdersIInv'
  OBVIOUS
<1> USE DEF OrdersIInv
<1>1. /\ call.op = "cancel" /\ reply # "none" /\ call' = NoCall /\ reply' = "none"
      /\ UNCHANGED <<wire, venue, submits, next_id>>
      /\ open_orders' = {}
      /\ orphaned' = IF reply = "error" THEN orphaned \cup call.ids ELSE orphaned
  BY DEF CancelReturns, Return
<1>2. call.ids \subseteq Ids /\ reply \in {"ok", "error"} /\ call.ids = open_orders
  BY <1>1 DEF TypeOK, Requests, KeepsAccepted
<1>3. TypeOK'
  BY <1>1, <1>2, NoCallFacts DEF TypeOK
<1>4. DrawnIds' /\ Attempted' /\ AnswersTrue' /\ KeepsAccepted'
  BY <1>1, NoCallFacts DEF DrawnIds, Attempted, AnswersTrue, KeepsAccepted, Submits
<1>5. \A id \in open_orders \cup call.ids :
        venue[id] \in {"filled", "cancelled"} \/ id \in orphaned'
  BY <1>1, <1>2 DEF AnswersTrue
<1>6. OnItsWay' /\ RestingIsTracked'
  BY <1>1, <1>5, NoCallFacts DEF OnItsWay, RestingIsTracked, Resting, Submits
<1> QED
  BY <1>3, <1>4, <1>6

(* A call that raises orphans what was known and what was under way.       *)
LEMMA RaiseKeeps == OrdersIInv /\ Raise => OrdersIInv'
<1> SUFFICES ASSUME OrdersIInv, Raise PROVE OrdersIInv'
  OBVIOUS
<1> USE DEF OrdersIInv
<1>1. /\ call' = NoCall /\ reply' = "none" /\ UNCHANGED <<wire, venue, submits, next_id>>
      /\ open_orders' = {} /\ orphaned' = orphaned \cup open_orders \cup call.ids
  BY DEF Raise, Return
<1>2. TypeOK'
  BY <1>1, NoCallFacts DEF TypeOK, Requests
<1>3. DrawnIds' /\ Attempted' /\ AnswersTrue' /\ KeepsAccepted'
  BY <1>1, NoCallFacts DEF DrawnIds, Attempted, AnswersTrue, KeepsAccepted, Submits
<1>4. OnItsWay' /\ RestingIsTracked'
  BY <1>1, NoCallFacts DEF OnItsWay, RestingIsTracked, Resting, Submits
<1> QED
  BY <1>2, <1>3, <1>4

(***************************************************************************)
(* The venue.                                                              *)
(***************************************************************************)

(* A request the venue takes off the wire was well formed, and for the     *)
(* adapter nothing but the reply changes.                                  *)
LEMMA AnswersStep ==
  ASSUME TypeOK, NEW request \in wire, NEW answer \in {"ok", "error"}, Answers(request, answer)
  PROVE  /\ request \in Requests /\ wire' = wire \ {request}
         /\ reply' \in {"none", "ok", "error"}
         /\ reply' = reply \/ (request = call /\ reply = "none" /\ reply' = answer)
         /\ UNCHANGED <<call, open_orders, orphaned, submits, next_id>>
BY DEF Answers, TypeOK

(* An accepted order is of an id drawn and, if it rests now, was on its    *)
(* way before.                                                             *)
LEMMA AcceptsKeeps == OrdersIInv /\ VenueAccepts => OrdersIInv'
<1> SUFFICES ASSUME OrdersIInv, NEW request \in wire, request.op = "submit",
                    venue' = [id \in Ids |-> IF id \in request.ids /\ venue[id] = "unknown"
                                             THEN "open" ELSE venue[id]],
                    Answers(request, "ok")
             PROVE  OrdersIInv'
  BY DEF VenueAccepts
<1> USE DEF OrdersIInv
<1>1. /\ request \in Requests /\ wire' = wire \ {request}
      /\ reply' \in {"none", "ok", "error"}
      /\ reply' = reply \/ (request = call /\ reply = "none" /\ reply' = "ok")
      /\ UNCHANGED <<call, open_orders, orphaned, submits, next_id>>
  BY AnswersStep
<1>2. \A id \in Ids : /\ venue'[id] = "unknown" => venue[id] = "unknown" /\ id \notin request.ids
                      /\ venue[id] # "unknown" => venue'[id] = venue[id]
  OBVIOUS
<1>3. request.ids \subseteq Ids /\ call.ids \subseteq Ids /\ open_orders \subseteq Ids
  BY <1>1 DEF TypeOK, Requests
<1>4. TypeOK'
  BY <1>1 DEF TypeOK
<1>5. DrawnIds'
  BY <1>1, <1>3, IdsAreNaturals DEF DrawnIds, TypeOK
<1>6. Attempted' /\ KeepsAccepted'
  BY <1>1, <1>2, <1>3 DEF Attempted, KeepsAccepted, Submits
<1>7. AnswersTrue'
  BY <1>1, <1>2, <1>3 DEF AnswersTrue, Submits
<1>8. OnItsWay'
  <2>1. \A r \in wire : r.ids \subseteq Ids
    BY DEF TypeOK, Requests
  <2> QED
    BY <1>1, <1>2, <2>1 DEF OnItsWay, Submits
<1>9. RestingIsTracked'
  BY <1>1, <1>3 DEF RestingIsTracked, Resting, OnItsWay, Submits
<1> QED
  BY <1>4, <1>5, <1>6, <1>7, <1>8, <1>9

(* A first attempt that is refused leaves nothing of its order behind.     *)
LEMMA RejectsKeeps == OrdersIInv /\ VenueRejects => OrdersIInv'
<1> SUFFICES ASSUME OrdersIInv, NEW request \in wire, request.op = "submit",
                    \A id \in request.ids : venue[id] = "unknown", UNCHANGED venue,
                    Answers(request, "error")
             PROVE  OrdersIInv'
  BY DEF VenueRejects
<1> USE DEF OrdersIInv
<1>1. /\ request \in Requests /\ wire' = wire \ {request}
      /\ reply' \in {"none", "ok", "error"}
      /\ reply' = reply \/ (request = call /\ reply = "none" /\ reply' = "error")
      /\ UNCHANGED <<call, open_orders, orphaned, submits, next_id>>
  BY AnswersStep
<1>2. TypeOK'
  BY <1>1 DEF TypeOK
<1>3. DrawnIds' /\ Attempted' /\ KeepsAccepted' /\ OnItsWay' /\ RestingIsTracked'
  BY <1>1 DEF DrawnIds, Attempted, KeepsAccepted, OnItsWay, RestingIsTracked, Resting, Submits
<1>4. AnswersTrue'
  <2>1. CASE reply' = reply
    BY <1>1, <2>1 DEF AnswersTrue, Submits
  <2>2. CASE request = call /\ reply' = "error" /\ call.attempt = 1
    <3>1. ASSUME NEW r \in wire', Submits(r), r.ids \cap call.ids # {} PROVE FALSE
      <4>1. r \in wire /\ r # call /\ r \in Requests /\ call.ids = {submits}
        BY <1>1, <2>2, <3>1 DEF TypeOK, Attempted, Submits
      <4>2. r.ids = call.ids /\ r.attempt <= 1 /\ r.attempt > 0 /\ r.op = call.op
        BY <4>1, <2>2, <3>1 DEF Attempted, Submits
      <4>3. r.attempt = call.attempt
        BY <4>1, <4>2, <2>2 DEF Requests
      <4> QED
        BY <4>1, <4>2, <4>3, <1>1, <2>2 DEF Requests
    <3> QED
      BY <1>1, <2>2, <3>1 DEF AnswersTrue, Submits
  <2>3. CASE request = call /\ reply' = "error" /\ call.attempt # 1
    BY <1>1, <2>3 DEF AnswersTrue, Submits
  <2> QED
    BY <1>1, <2>1, <2>2, <2>3
<1> QED
  BY <1>2, <1>3, <1>4

(* A cancel leaves none of the orders it names open, also a late one of an *)
(* earlier call.                                                           *)
LEMMA CancelsKeeps == OrdersIInv /\ VenueCancels => OrdersIInv'
<1> SUFFICES ASSUME OrdersIInv, NEW request \in wire, request.op = "cancel",
                    venue' = [id \in Ids |-> IF id \in request.ids /\ venue[id] = "open"
                                             THEN "cancelled" ELSE venue[id]],
                    Answers(request, "ok")
             PROVE  OrdersIInv'
  BY DEF VenueCancels
<1> USE DEF OrdersIInv
<1>1. /\ request \in Requests /\ wire' = wire \ {request}
      /\ reply' \in {"none", "ok", "error"}
      /\ reply' = reply \/ (request = call /\ reply = "none" /\ reply' = "ok")
      /\ UNCHANGED <<call, open_orders, orphaned, submits, next_id>>
  BY AnswersStep
<1>2. \A id \in Ids : /\ venue'[id] = "unknown" <=> venue[id] = "unknown"
                      /\ venue'[id] = "open" => venue[id] = "open" /\ id \notin request.ids
                      /\ venue[id] \in {"filled", "cancelled"} => venue'[id] = venue[id]
  BY DEF TypeOK
<1>3. call.ids \subseteq Ids /\ open_orders \subseteq Ids /\ \A r \in wire : r.ids \subseteq Ids
  BY DEF TypeOK, Requests
<1>4. TypeOK'
  BY <1>1 DEF TypeOK
<1>5. DrawnIds' /\ Attempted' /\ KeepsAccepted'
  BY <1>1, <1>2, <1>3 DEF DrawnIds, Attempted, KeepsAccepted, Submits
<1>6. OnItsWay' /\ RestingIsTracked'
  BY <1>1, <1>2, <1>3 DEF OnItsWay, RestingIsTracked, Resting, Submits
<1>7. AnswersTrue'
  <2>1. \A id \in Ids : venue'[id] \in {"unknown", "open", "filled", "cancelled"}
    BY <1>4 DEF TypeOK
  <2>2. CASE reply' = reply
    BY <1>1, <1>2, <1>3, <2>1, <2>2 DEF AnswersTrue, Submits
  <2>3. CASE request = call /\ reply' = "ok"
    BY <1>1, <1>2, <1>3, <2>1, <2>3 DEF AnswersTrue, Submits, KeepsAccepted
  <2> QED
    BY <1>1, <2>2, <2>3
<1> QED
  BY <1>4, <1>5, <1>6, <1>7

LEMMA RefusesKeeps == OrdersIInv /\ VenueRefusesCancel => OrdersIInv'
<1> SUFFICES ASSUME OrdersIInv, NEW request \in wire, request.op = "cancel", UNCHANGED venue,
                    Answers(request, "error")
             PROVE  OrdersIInv'
  BY DEF VenueRefusesCancel
<1> USE DEF OrdersIInv
<1>1. /\ request \in Requests /\ wire' = wire \ {request}
      /\ reply' \in {"none", "ok", "error"}
      /\ reply' = reply \/ (request = call /\ reply = "none" /\ reply' = "error")
      /\ UNCHANGED <<call, open_orders, orphaned, submits, next_id>>
  BY AnswersStep
<1>2. TypeOK'
  BY <1>1 DEF TypeOK
<1>3. DrawnIds' /\ Attempted' /\ KeepsAccepted' /\ OnItsWay' /\ RestingIsTracked'
  BY <1>1 DEF DrawnIds, Attempted, KeepsAccepted, OnItsWay, RestingIsTracked, Resting, Submits
<1>4. AnswersTrue'
  BY <1>1 DEF AnswersTrue, Submits
<1> QED
  BY <1>2, <1>3, <1>4

LEMMA FillsKeeps == OrdersIInv /\ VenueFills => OrdersIInv'
<1> SUFFICES ASSUME OrdersIInv, NEW filled \in Ids, venue[filled] = "open",
                    venue' = [venue EXCEPT ![filled] = "filled"],
                    UNCHANGED <<call, reply, open_orders, wire, orphaned, submits, next_id>>
             PROVE  OrdersIInv'
  BY DEF VenueFills
<1> USE DEF OrdersIInv
<1>1. \A id \in Ids : /\ venue'[id] = "unknown" <=> venue[id] = "unknown"
                      /\ venue'[id] = "open" => venue[id] = "open"
                      /\ venue[id] \in {"filled", "cancelled"} => venue'[id] = venue[id]
  BY DEF TypeOK
<1>2. call.ids \subseteq Ids /\ open_orders \subseteq Ids /\ \A r \in wire : r.ids \subseteq Ids
  BY DEF TypeOK, Requests
<1>3. TypeOK'
  BY DEF TypeOK
<1>4. DrawnIds' /\ Attempted' /\ KeepsAccepted'
  BY <1>1, <1>2 DEF DrawnIds, Attempted, KeepsAccepted, Submits
<1>5. AnswersTrue' /\ OnItsWay' /\ RestingIsTracked'
  BY <1>1, <1>2 DEF AnswersTrue, OnItsWay, RestingIsTracked, Resting, Submits
<1> QED
  BY <1>3, <1>4, <1>5

(***************************************************************************)
(* The theorems.                                                           *)
(***************************************************************************)
LEMMA OrdersInvariant == Spec => []OrdersIInv
<1>1. OrdersIInv /\ UNCHANGED vars => OrdersIInv'
  BY DEF OrdersIInv, vars, TypeOK, DrawnIds, Attempted, AnswersTrue, KeepsAccepted, OnItsWay,
         RestingIsTracked, Resting, Submits
<1>2. OrdersIInv /\ [Next]_vars => OrdersIInv'
  BY <1>1, SubmitKeeps, CancelKeeps, RetryKeeps, SubmitReturnsKeeps, CancelReturnsKeeps, RaiseKeeps,
     AcceptsKeeps, RejectsKeeps, CancelsKeeps, RefusesKeeps, FillsKeeps
     DEF Next, Adapter, Venue
<1> QED
  BY <1>2, OrdersInit, PTL DEF Spec

(* The adapter's and the venue's state keep their types.                   *)
THEOREM OrdersTypes == Spec => []TypeOK
<1>1. OrdersIInv => TypeOK
  BY DEF OrdersIInv
<1> QED
  BY <1>1, OrdersInvariant, PTL

(* Retries never place a second order: every order at the venue has an id  *)
(* of its own, drawn by one submit_order.                                  *)
THEOREM OneOrderTheorem == Spec => []OneOrderPerSubmit
<1>1. OrdersIInv => OneOrderPerSubmit
  <2> SUFFICES ASSUME OrdersIInv PROVE Cardinality(Placed) <= submits
    BY DEF OneOrderPerSubmit
  <2>1. submits \in Nat /\ Placed \subseteq 1..submits
    BY IdsAreNaturals, OrdersAssumption DEF OrdersIInv, TypeOK, DrawnIds, Placed, Ids
  <2>2. IsFiniteSet(1..submits) /\ Cardinality(1..submits) = submits
    BY <2>1, FS_Interval
  <2>3. Cardinality(Placed) <= Cardinality(1..submits)
    BY <2>1, <2>2, FS_Subset
  <2> QED
    BY <2>2, <2>3
<1> QED
  BY <1>1, OrdersInvariant, PTL

(* No resting order is forgotten but in the three ways orphaned records.   *)
THEOREM TrackingTheorem == Spec => []RestingIsTracked
<1>1. OrdersIInv => RestingIsTracked
  BY DEF OrdersIInv
<1> QED
  BY <1>1, OrdersInvariant, PTL
=============================================================================
