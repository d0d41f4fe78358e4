------------------------------- MODULE MCBooks -------------------------------
(***************************************************************************)
(* A small instance for TLC of what a book is made of: one side of levels, *)
(* the trade tape's moments, and the feed that projects a bonding curve.   *)
(* They share no state, so a run follows one of them, chosen at the start, *)
(* and leaves the others where they begin.                                 *)
(***************************************************************************)
EXTENDS BookSide, VwapTracker, PumpFunFeed

VARIABLE at_work  \* the part the run follows

(* A curve before and after a sale that quarters its price, and drained.   *)
ThreeCurves == {[sol |-> 48, tok |-> 12], [sol |-> 24, tok |-> 24], [sol |-> 48, tok |-> 0]}
BuyAndSale == {5, -8}

BooksInit == at_work \in {"side", "tape", "curve"} /\ Init /\ TrackerInit /\ CurveInit

BooksNext ==
  /\ UNCHANGED at_work
  /\ \/ at_work = "side" /\ Next /\ UNCHANGED <<trackerVars, curveVars>>
     \/ at_work = "tape" /\ TrackerNext /\ UNCHANGED <<vars, curveVars>>
     \/ at_work = "curve" /\ CurveNext /\ UNCHANGED <<vars, trackerVars>>

BooksSpec == BooksInit /\ [][BooksNext]_<<at_work, vars, trackerVars, curveVars>>
=============================================================================
