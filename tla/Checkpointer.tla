---------------------------- MODULE Checkpointer ----------------------------
(***************************************************************************)
(* The memory-mapped checkpoint file of one instrument                     *)
(* (cpp/include/checkpoint.hpp): two slots written in turn, each a header  *)
(* with sequence and CRC, a payload and a trailer with the sequence again. *)
(*                                                                         *)
(* A save is cut into the stores it makes, because a process can be killed *)
(* between any two of them and the page cache keeps those already made.    *)
(* The payload is stored in two parts.  After a power loss only what the   *)
(* kernel has written back remains; it writes back a page at any time and  *)
(* in any order (MS_ASYNC waits for nothing).  A slot spans two pages, the *)
(* first with the header and the head of the payload, the second with the  *)
(* tail and the trailer.  (In the file one page holds both the trailer of  *)
(* slot 0 and the header of slot 1; written back apart, they lose more.)   *)
(* The CRC is modelled as exact.                                           *)
(***************************************************************************)
EXTENDS Integers, FiniteSets

CONSTANTS
  Values,    \* what may be saved: book, tape, position and regime together
  None,      \* no payload yet
  MaxSaves   \* bound: the highest sequence number

ASSUME CheckpointAssumption == None \notin Values /\ MaxSaves \in Nat

Slots == {0, 1}
Parts == Values \cup {None}

VARIABLES
  map,      \* [Slots -> slot]: the mapping, that is the page cache
  disk,     \* [Slots -> slot]: what has been written back
  seq,      \* seq_
  step,     \* the next store of the save under way, "idle" between saves
  payload,  \* the value being saved
  process,  \* "up" (and loaded), "killed" or "unpowered"
  begun,    \* history: every value whose save was begun
  before    \* history: what a recovery returned when the save under way began

vars == <<map, disk, seq, step, payload, process, begun, before>>

(* A slot of a fresh file: all zeroes, so no magic, length or sequence.    *)
ZeroSlot == [hseq |-> 0, crc |-> <<None, None>>, head |-> None, tail |-> None, tseq |-> 0]

SlotType ==
  [hseq : 0..MaxSaves, crc : Parts \X Parts, head : Parts, tail : Parts, tseq : 0..MaxSaves]

Steps == {"idle", "head", "tail", "trailer", "crc", "commit"}

TypeOK ==
  /\ map \in [Slots -> SlotType] /\ disk \in [Slots -> SlotType]
  /\ seq \in 0..MaxSaves
  /\ step \in Steps
  /\ payload \in Parts
  /\ process \in {"up", "killed", "unpowered"}
  /\ begun \subseteq Values /\ before \in Parts

Init ==
  /\ map = [s \in Slots |-> ZeroSlot] /\ disk = [s \in Slots |-> ZeroSlot]
  /\ seq = 0 /\ step = "idle" /\ payload = None
  /\ process = "up" /\ begun = {} /\ before = None

(***************************************************************************)
(* load: the newest slot that is not torn.                                 *)
(***************************************************************************)
(* Variant of Valid: the sequence numbers agree, the CRC is not looked at. *)
ValidBySequence(slot) == slot.hseq # 0 /\ slot.hseq = slot.tseq

Valid(slot) ==
  /\ slot.hseq # 0 /\ slot.hseq = slot.tseq
  /\ slot.crc = <<slot.head, slot.tail>>

Newest(file) ==
  {s \in Slots : Valid(file[s]) /\ \A t \in Slots : Valid(file[t]) => file[t].hseq <= file[s].hseq}

(* The sequence and the payload load() takes from a file; 0 and None when  *)
(* it finds no valid slot and returns false.                               *)
LoadedSeq(file) ==
  IF Newest(file) = {} THEN 0 ELSE file[CHOOSE s \in Newest(file) : TRUE].hseq

LoadedValue(file) ==
  IF Newest(file) = {} THEN None ELSE file[CHOOSE s \in Newest(file) : TRUE].head

(***************************************************************************)
(* save, store by store.                                                   *)
(***************************************************************************)
BeginSave ==
  /\ process = "up" /\ step = "idle" /\ seq < MaxSaves
  /\ seq' = seq + 1
  /\ payload' \in Values /\ begun' = begun \cup {payload'}
  /\ before' = LoadedValue(map)
  /\ step' = "head"
  /\ UNCHANGED <<map, disk, process>>

(* Variant of Target: one slot for every save.                             *)
TargetAlwaysFirst == 0 * seq

Target == seq % 2

Store(at, next, slot) ==
  /\ process = "up" /\ step = at
  /\ step' = next
  /\ map' = [map EXCEPT ![Target] = slot]
  /\ UNCHANGED <<disk, seq, process, begun>>

StoreHead    == Store("head", "tail", [map[Target] EXCEPT !.head = payload]) /\ UNCHANGED <<payload, before>>
StoreTail    == Store("tail", "trailer", [map[Target] EXCEPT !.tail = payload]) /\ UNCHANGED <<payload, before>>
StoreTrailer == Store("trailer", "crc", [map[Target] EXCEPT !.tseq = seq]) /\ UNCHANGED <<payload, before>>
StoreCrc ==
  /\ Store("crc", "commit",
           [map[Target] EXCEPT !.crc = <<map[Target].head, map[Target].tail>>])
  /\ UNCHANGED <<payload, before>>
Commit ==
  /\ Store("commit", "idle", [map[Target] EXCEPT !.hseq = seq])
  /\ payload' = None /\ before' = None

(***************************************************************************)
(* The kernel, failures and recovery.                                      *)
(***************************************************************************)
WriteBackFirst(s) ==
  /\ disk' = [disk EXCEPT ![s] = [map[s] EXCEPT !.tail = disk[s].tail, !.tseq = disk[s].tseq]]
  /\ UNCHANGED <<map, seq, step, payload, process, begun, before>>

WriteBackSecond(s) ==
  /\ disk' = [disk EXCEPT ![s] = [disk[s] EXCEPT !.tail = map[s].tail, !.tseq = map[s].tseq]]
  /\ UNCHANGED <<map, seq, step, payload, process, begun, before>>

Stopped(cause) ==
  /\ process = "up" /\ process' = cause
  /\ step' = "idle" /\ payload' = None /\ before' = None

(* The process is killed: the page cache keeps every store it made.        *)
Kill == Stopped("killed") /\ UNCHANGED <<map, disk, seq, begun>>

(* The machine fails: the file is what was written back.                   *)
PowerLoss == Stopped("unpowered") /\ map' = disk /\ UNCHANGED <<disk, seq, begun>>

Opened(loaded) ==
  /\ process # "up" /\ process' = "up"
  /\ seq' = loaded
  /\ UNCHANGED <<map, disk, step, payload, begun, before>>

(* Variants of Recover: load() leaves seq_ at 0, or ahead by one.          *)
RecoverFromZero == Opened(0)
RecoverAhead == Opened(LoadedSeq(map) + 1)

(* A new process opens the file and loads: seq_ is 0 in its constructor    *)
(* and the loaded sequence after a successful load.                        *)
Recover == Opened(LoadedSeq(map))

Next ==
  \/ BeginSave
  \/ StoreHead \/ StoreTail \/ StoreTrailer \/ StoreCrc \/ Commit
  \/ \E s \in Slots : WriteBackFirst(s) \/ WriteBackSecond(s)
  \/ Kill \/ PowerLoss
  \/ Recover

Spec == Init /\ [][Next]_vars

(***************************************************************************)
(* Properties.                                                             *)
(***************************************************************************)

(* A value load() trusts is a whole one: no mixture of two saves, wherever *)
(* the process or the machine stopped and whatever pages got to the disk.  *)
NeverRestoresTorn ==
  \A file \in {map, disk} : \A s \in Slots :
    Valid(file[s]) => file[s].head = file[s].tail /\ file[s].head \in Values

(* The slot a save is overwriting is never the one a recovery needs, also  *)
(* after recoveries that found less than was saved: whenever the target is *)
(* the newest valid slot, it is whole with the very value being saved.     *)
SavesSpareNewest ==
  step # "idle" /\ Target \in Newest(map) => LoadedValue(map) = payload

(* The file behaves as one durable cell: killed at any store, a process    *)
(* finds the last value saved or the one being saved, and after a power    *)
(* loss one that was given to save at some time, or none.                  *)
Cell == INSTANCE DurableCell WITH cell <- LoadedValue(map), pending <- payload

ImplementsCell == Cell!Spec
=============================================================================
