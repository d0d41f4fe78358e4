------------------------- MODULE PortfolioCheckpoint -------------------------
(***************************************************************************)
(* The portfolio file (python/meanrev/state.py): two slots written in      *)
(* turn, [seq, length, payload, seq], with no checksum; a slot counts when *)
(* its sequences agree and its payload parses.                             *)
(*                                                                         *)
(* A save is cut into the stores it makes and the msync that ends it,      *)
(* which returns when every page is on the disk.  Pages lie as in the      *)
(* file: the header of a slot shares its page with the head of the payload *)
(* (and, in slot 1, with the trailer of slot 0); a payload longer than     *)
(* that has its tail on pages of its own.  One state's payload, cut short  *)
(* or followed by the rest of an older one, does not parse: it is one JSON *)
(* object.  The head of one and the tail of another, cut at the header's   *)
(* length, may (Mixes), whatever the lengths of the two.                   *)
(***************************************************************************)
EXTENDS Integers

CONSTANTS
  States,      \* portfolio states
  Length,      \* [States -> Nat \ {0}]: bytes of JSON
  HeadRoom,    \* bytes of payload on the page of the header
  NoState,     \* nothing stored yet
  SlotRoom,    \* _SLOT_PAYLOAD
  Mixes,       \* the <<head, tail, length>> of two states' halves that parse
  MaxSeq,      \* bound: the highest sequence number
  MaxDeaths    \* bound: kills and power losses together

ASSUME PortfolioAssumption ==
  /\ NoState \notin States /\ Length \in [States -> Nat \ {0}]
  /\ {HeadRoom, SlotRoom, MaxSeq, MaxDeaths} \subseteq Nat
  /\ Mixes \subseteq States \X States \X Nat

VARIABLES
  file,      \* [0..1 -> slot]: the mapping, that is the page cache
  platter,   \* [0..1 -> slot]: what is on the disk
  saved_seq, \* _seq
  store,     \* the next step of the save under way, "idle" between saves
  state,     \* the state being saved
  host,      \* "up", "killed" or "unpowered"
  deaths,    \* kills and power losses so far
  kept,      \* history: the state of the last save that returned, or of the last load
  tried,     \* history: the state of the last save that was begun
  unflushed, \* history: the last load read pages not on the disk, and no save returned since
  exposed    \* history: there was a power loss during a save, or a kill between the
             \* two stores of a header

portfolioVars == <<file, platter, saved_seq, store, state, host, deaths, kept, tried, unflushed, exposed>>

BlankSlot == [seq |-> 0, length |-> 0, head |-> NoState, tail |-> NoState, trailer |-> 0]

PortfolioInit ==
  /\ file = [s \in 0..1 |-> BlankSlot] /\ platter = file
  /\ saved_seq = 0 /\ store = "idle" /\ state = NoState /\ host = "up" /\ deaths = 0
  /\ kept = NoState /\ tried = NoState /\ unflushed = FALSE /\ exposed = FALSE

(***************************************************************************)
(* _latest.                                                                *)
(***************************************************************************)
IsLong(length) == length > HeadRoom

Parses(slot) ==
  \/ /\ slot.head # NoState /\ Length[slot.head] = slot.length
     /\ IsLong(slot.length) => slot.tail = slot.head
  \/ /\ <<slot.head, slot.tail, slot.length>> \in Mixes /\ slot.tail # slot.head
     /\ IsLong(slot.length) /\ IsLong(Length[slot.head])

Intact(slot) == slot.seq # 0 /\ slot.seq = slot.trailer /\ slot.length <= SlotRoom /\ Parses(slot)

LatestSlot(f) == {s \in 0..1 : Intact(f[s]) /\ (Intact(f[1 - s]) => f[1 - s].seq < f[s].seq)}

LatestSeq(f) == IF LatestSlot(f) = {} THEN 0 ELSE f[CHOOSE s \in LatestSlot(f) : TRUE].seq

(* The halves of the payload load() returns.                               *)
Loaded(f) ==
  IF LatestSlot(f) = {} THEN [head |-> NoState, tail |-> NoState]
  ELSE LET slot == f[CHOOSE s \in LatestSlot(f) : TRUE]
       IN  [head |-> slot.head, tail |-> IF IsLong(slot.length) THEN slot.tail ELSE slot.head]

(***************************************************************************)
(* save, store by store.                                                   *)
(***************************************************************************)
(* One that does not fit raises before anything is changed.                *)
Fits(s) == Length[s] <= SlotRoom

SaveState ==
  /\ host = "up" /\ store = "idle" /\ saved_seq < MaxSeq
  /\ state' \in {s \in States : Fits(s)} /\ tried' = state'
  /\ saved_seq' = saved_seq + 1 /\ store' = "head"
  /\ UNCHANGED <<file, platter, host, deaths, kept, unflushed, exposed>>

(* Variant of Slot: one slot for every save.                               *)
SlotAlwaysFirst == 0 * saved_seq

Slot == saved_seq % 2

Put(at, next, slot) ==
  /\ host = "up" /\ store = at
  /\ store' = next /\ file' = [file EXCEPT ![Slot] = slot]
  /\ UNCHANGED <<platter, saved_seq, state, host, deaths, kept, tried, unflushed, exposed>>

PutHead == Put("head", IF IsLong(Length[state]) THEN "tail" ELSE "trailer",
               [file[Slot] EXCEPT !.head = state])
PutTail == Put("tail", "trailer", [file[Slot] EXCEPT !.tail = state])
PutTrailer == Put("trailer", "header", [file[Slot] EXCEPT !.trailer = saved_seq])

(* The twelve bytes of a header are two stores, in an order that is        *)
(* memcpy's.                                                               *)
PutSeq ==
  \/ Put("header", "length", [file[Slot] EXCEPT !.seq = saved_seq])
  \/ Put("seq", "flush", [file[Slot] EXCEPT !.seq = saved_seq])
PutLength ==
  \/ Put("header", "seq", [file[Slot] EXCEPT !.length = Length[state]])
  \/ Put("length", "flush", [file[Slot] EXCEPT !.length = Length[state]])

(* flush() returns: every page is on the disk.                             *)
FlushReturns ==
  /\ host = "up" /\ store = "flush" /\ platter = file
  /\ store' = "idle" /\ state' = NoState
  /\ kept' = state /\ unflushed' = FALSE
  /\ UNCHANGED <<file, platter, saved_seq, host, deaths, tried, exposed>>

(***************************************************************************)
(* The kernel and failures (external), and the next process.               *)
(***************************************************************************)
WritePage(zero, one) ==
  /\ platter' = [platter EXCEPT ![0] = zero, ![1] = one]
  /\ UNCHANGED <<file, saved_seq, store, state, host, deaths, kept, tried, unflushed, exposed>>

Front(s) == [platter[s] EXCEPT !.seq = file[s].seq, !.length = file[s].length, !.head = file[s].head]

WriteBack ==
  \/ WritePage(Front(0), platter[1])
  \/ WritePage([platter[0] EXCEPT !.tail = file[0].tail], platter[1])
  \/ WritePage([platter[0] EXCEPT !.trailer = file[0].trailer], Front(1))
  \/ WritePage(platter[0], [platter[1] EXCEPT !.tail = file[1].tail])
  \/ WritePage(platter[0], [platter[1] EXCEPT !.trailer = file[1].trailer])

Dies(how) ==
  /\ host = "up" /\ host' = how /\ store' = "idle" /\ state' = NoState
  /\ deaths < MaxDeaths /\ deaths' = deaths + 1
  /\ UNCHANGED <<platter, saved_seq, kept, tried, unflushed>>

KillHost ==
  /\ Dies("killed") /\ UNCHANGED file
  /\ exposed' = (exposed \/ store \in {"seq", "length"})

CutPower ==
  /\ Dies("unpowered") /\ file' = platter
  /\ exposed' = (exposed \/ store # "idle" \/ platter # file)

(* Variant of OpenFile: _seq starts at 0.                                  *)
OpenFileFromZero ==
  /\ host # "up" /\ host' = "up" /\ saved_seq' = 0
  /\ kept' = Loaded(file).head /\ unflushed' = (platter # file)
  /\ UNCHANGED <<file, platter, store, state, deaths, tried, exposed>>

(* __init__ and load: _seq is that of the newest slot that counts.         *)
OpenFile ==
  /\ host # "up" /\ host' = "up" /\ saved_seq' = LatestSeq(file)
  /\ kept' = Loaded(file).head /\ unflushed' = (platter # file)
  /\ UNCHANGED <<file, platter, store, state, deaths, tried, exposed>>

PortfolioNext ==
  \/ SaveState \/ PutHead \/ PutTail \/ PutTrailer \/ PutSeq \/ PutLength \/ FlushReturns
  \/ WriteBack \/ KillHost \/ CutPower \/ OpenFile

PortfolioSpec == PortfolioInit /\ [][PortfolioNext]_portfolioVars

(***************************************************************************)
(* Properties.                                                             *)
(***************************************************************************)

(* A load begins with the state of the last save that returned or of the  *)
(* one under way: a save never harms the slot the other one left.  After a *)
(* kill that holds without exception.  A power loss keeps it only if it is *)
(* the first failure of its kind (exposed) and no restart since the last   *)
(* save that returned found pages that only the cache holds: one that      *)
(* trusts what only the page cache holds overwrites, with its first save,  *)
(* the slot that is on the disk, and one that uses a sequence number again *)
(* can complete a slot the power loss had left torn.                       *)
LoadsKeptOrTried ==
  /\ host # "unpowered" => Loaded(file).head \in {kept, tried}
  /\ ~unflushed /\ ~exposed => Loaded(platter).head \in {kept, tried}

(* "The same torn-write discipline": without a checksum it holds for every *)
(* kill but one between the two stores of a header and, as long as the     *)
(* payload fits on the page of its header, for every power loss.  Only     *)
(* after one of these can load() return the halves of two longer states.   *)
LoadsWholeStates ==
  Loaded(file).head # Loaded(file).tail => exposed /\ IsLong(Length[Loaded(file).head])
=============================================================================
