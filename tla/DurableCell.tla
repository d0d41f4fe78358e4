----------------------------- MODULE DurableCell -----------------------------
(***************************************************************************)
(* What a checkpoint promises its engine: a cell that holds the last value *)
(* whose save was completed.  A killed process forgets the save under way  *)
(* and nothing else; after a power loss the cell holds nothing, or a value *)
(* that was given to it at some time, complete.                            *)
(***************************************************************************)
CONSTANTS Values, None

VARIABLES
  cell,      \* the value a recovery would return, None when there is none
  begun,     \* every value whose save was begun
  before,    \* what the cell held when the save under way began
  pending,   \* the value being saved, None between saves
  process    \* "up", "killed" or "unpowered"

cellVars == <<cell, begun, before, pending, process>>

Init == cell = None /\ begun = {} /\ before = None /\ pending = None /\ process = "up"

BeginSave ==
  /\ process = "up" /\ pending = None
  /\ pending' \in Values /\ begun' = begun \cup {pending'}
  /\ before' = cell
  /\ UNCHANGED <<cell, process>>

(* Until the save returns, the cell holds the old value or the new one.    *)
Settle ==
  /\ process = "up" /\ pending # None
  /\ cell' \in {before, pending}
  /\ UNCHANGED <<pending, process, begun, before>>

EndSave ==
  /\ process = "up" /\ pending # None
  /\ cell' = pending /\ pending' = None /\ before' = None
  /\ UNCHANGED <<process, begun>>

Kill ==
  /\ process = "up"
  /\ process' = "killed" /\ pending' = None /\ before' = None
  /\ UNCHANGED <<cell, begun>>

PowerLoss ==
  /\ process = "up"
  /\ process' = "unpowered" /\ pending' = None /\ before' = None
  /\ cell' \in begun \cup {None}
  /\ UNCHANGED begun

Recover ==
  /\ process # "up"
  /\ process' = "up"
  /\ UNCHANGED <<cell, begun, before, pending>>

Next == BeginSave \/ Settle \/ EndSave \/ Kill \/ PowerLoss \/ Recover

Spec == Init /\ [][Next]_cellVars
=============================================================================
