--------------------------- MODULE TradeLifecycle ---------------------------
(***************************************************************************)
(* What the engine promises of its trading, seen from outside: every       *)
(* instrument goes round flat, buying, long, selling, one step at a time.  *)
(* A buy is begun only for an instrument that is flat, in a portfolio that *)
(* is not halted; a sale only of what is held; a refused order leaves      *)
(* things as they were.  The process can stop at any time, and the next    *)
(* one takes every instrument up as it was held when it was last saved.    *)
(***************************************************************************)
CONSTANT Instruments

VARIABLES
  stage,    \* [Instruments -> "flat", "buying", "long" or "selling"]
  saved,    \* [Instruments -> "flat" or "long"]
  halted,   \* the risk layer's word for the portfolio
  running   \* a process is up, and its first control round over

lifeVars == <<stage, saved, halted, running>>

Init ==
  /\ stage = [i \in Instruments |-> "flat"] /\ saved = stage
  /\ halted = FALSE /\ running = FALSE

Moves(i, from, to) ==
  /\ running /\ stage[i] = from
  /\ stage' = [stage EXCEPT ![i] = to]
  /\ UNCHANGED <<saved, halted, running>>

Buy(i)    == ~halted /\ Moves(i, "flat", "buying")
Bought(i) == Moves(i, "buying", "long")
Missed(i) == Moves(i, "buying", "flat")
Sell(i)   == Moves(i, "long", "selling")
Sold(i)   == Moves(i, "selling", "flat")
Kept(i)   == Moves(i, "selling", "long")

(* A purchase that is not answered is not yet held, a sale still is.       *)
Save(i) ==
  /\ running
  /\ saved' = [saved EXCEPT ![i] = IF stage[i] \in {"flat", "buying"} THEN "flat" ELSE "long"]
  /\ UNCHANGED <<stage, halted, running>>

ControlRound ==
  /\ running' = TRUE /\ halted' \in BOOLEAN
  /\ UNCHANGED <<stage, saved>>

Stop == running /\ running' = FALSE /\ UNCHANGED <<stage, saved, halted>>

Resume ==
  /\ ~running
  /\ stage' = saved /\ halted' = FALSE
  /\ UNCHANGED <<saved, running>>

Next ==
  \/ \E i \in Instruments :
       Buy(i) \/ Bought(i) \/ Missed(i) \/ Sell(i) \/ Sold(i) \/ Kept(i) \/ Save(i)
  \/ ControlRound \/ Stop \/ Resume

Spec == Init /\ [][Next]_lifeVars
=============================================================================
