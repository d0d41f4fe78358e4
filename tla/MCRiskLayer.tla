---------------------------- MODULE MCRiskLayer ----------------------------
(***************************************************************************)
(* Small instances, for TLC, of the risk layer and of the portfolio file   *)
(* written to keep its state.  The engine does not open the file, so the   *)
(* two share nothing: a run follows one of them, chosen at the start, and  *)
(* leaves the other as it is created.                                      *)
(*                                                                         *)
(* With a limit of 10% of a peak near 20, the equities straddle the breach *)
(* of every peak, and one of them is not positive.  Of the portfolio's     *)
(* states one fits on the page of its header, two of different lengths do  *)
(* not, one fits in no slot, and whatever can parse of the halves of two   *)
(* does.                                                                   *)
(***************************************************************************)
EXTENDS RiskLayer, PortfolioCheckpoint, TLC

CONSTANTS short, long, longer, huge  \* model values

VARIABLE at_work  \* the part the run follows

SomeEquities == {-1, 17, 18, 20, 22}
LeaderSymmetry == Permutations(Leaders)

FourStates == {short, long, longer, huge}
Lengths == short :> 1 @@ long :> 2 @@ longer :> 3 @@ huge :> 4
AllMixes == FourStates \X FourStates \X (1..4)

LayersInit == at_work \in {"risk", "portfolio"} /\ Init /\ PortfolioInit

LayersNext ==
  /\ UNCHANGED at_work
  /\ \/ at_work = "risk" /\ Next /\ UNCHANGED portfolioVars
     \/ at_work = "portfolio" /\ PortfolioNext /\ UNCHANGED vars

LayersSpec == LayersInit /\ [][LayersNext]_<<at_work, vars, portfolioVars>>
=============================================================================
