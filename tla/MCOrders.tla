------------------------------ MODULE MCOrders ------------------------------
(***************************************************************************)
(* A small instance of order entry at both venues for TLC.  The adapters   *)
(* share no state, so a run follows one of them, chosen at the start, in   *)
(* full and leaves the other where it begins: their interleavings would    *)
(* show nothing that the two runs do not.                                  *)
(***************************************************************************)
EXTENDS CoinbaseOrders, PumpFunOrders

CONSTANTS order1, order2, mint  \* model values

VARIABLE at_work  \* the adapter the run follows

BothOrders == {order1, order2}
OneMint == {mint}
OfOneMint == [t \in BothOrders |-> mint]

OrdersInit == at_work \in {"coinbase", "pumpfun"} /\ Init /\ SwapInit

OrdersNext ==
  /\ UNCHANGED at_work
  /\ \/ at_work = "coinbase" /\ Next /\ UNCHANGED swapVars
     \/ at_work = "pumpfun" /\ SwapNext /\ UNCHANGED vars

OrdersSpec == OrdersInit /\ [][OrdersNext]_<<at_work, vars, swapVars>> /\ SwapFairness
=============================================================================
