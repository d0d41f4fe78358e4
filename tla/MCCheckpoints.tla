---------------------------- MODULE MCCheckpoints ----------------------------
(***************************************************************************)
(* A small instance of the book's checkpoint file for TLC.  No definition  *)
(* of Checkpointer tells one value from another, so states equal up to     *)
(* their names are one.                                                    *)
(***************************************************************************)
EXTENDS Checkpointer, TLC

ValueSymmetry == Permutations(Values)
=============================================================================
