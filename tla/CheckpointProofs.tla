------------------------- MODULE CheckpointProofs -------------------------
(***************************************************************************)
(* Proofs about the two checkpoint files, Checkpointer and                 *)
(* PortfolioCheckpoint: for any values or states of any lengths, any       *)
(* number of saves, write-backs, kills and power losses, with sequence     *)
(* numbers used again.                                                     *)
(***************************************************************************)
EXTENDS Checkpointer, PortfolioCheckpoint, TLAPS

(***************************************************************************)
(* The book file: the inductive invariant.                                 *)
(***************************************************************************)

(* A slot is only ever written under sequence numbers of its own parity.   *)
Parity(f) == \A s \in Slots : f[s].hseq # 0 => f[s].hseq % 2 = s

(* A CRC is that of a whole payload, and no header has a sequence without  *)
(* one: both are on the same page.                                         *)
CrcWhole(f) == \A s \in Slots :
  /\ f[s].crc[1] = f[s].crc[2] /\ f[s].crc[1] \in begun \cup {None}
  /\ f[s].hseq # 0 => f[s].crc[1] \in begun

Other == 1 - Target

(* What the save under way has stored.                                     *)
SaveProgress ==
  /\ step = "idle" => payload = None
  /\ step # "idle" => process = "up" /\ payload \in begun /\ seq > 0
  /\ step \in {"tail", "trailer", "crc", "commit"} => map[Target].head = payload
  /\ step \in {"trailer", "crc", "commit"} => map[Target].tail = payload
  /\ step \in {"crc", "commit"} => map[Target].tseq = seq
  /\ step = "commit" => map[Target].crc = <<payload, payload>>

(* Between saves the process stands at the newest slot; during one the     *)
(* other slot is still what a recovery returned at its beginning.          *)
StandsAtNewest ==
  /\ process = "up" /\ step = "idle" => seq = LoadedSeq(map)
  /\ step # "idle" =>
       /\ IF seq = 1 THEN ~Valid(map[Other]) ELSE Valid(map[Other]) /\ map[Other].hseq = seq - 1
       /\ before = IF seq = 1 THEN None ELSE map[Other].head
  /\ step = "head" => (Valid(map[Target]) => map[Target].hseq < seq - 1)

CheckpointIInv ==
  /\ TypeOK /\ Parity(map) /\ Parity(disk) /\ CrcWhole(map) /\ CrcWhole(disk)
  /\ SaveProgress /\ StandsAtNewest

Files == [Slots -> SlotType]

(***************************************************************************)
(* What load takes from a file.                                            *)
(***************************************************************************)
LEMMA SlotNumbers ==
  ASSUME NEW n \in Nat
  PROVE  n % 2 \in Slots /\ 1 - (n % 2) \in Slots /\ 1 - (n % 2) # n % 2
         /\ (n + 1) % 2 = 1 - (n % 2)
BY SMT DEF Slots

LEMMA OnlyTwoSlots ==
  ASSUME NEW s \in Slots, NEW t \in Slots
  PROVE  1 - s \in Slots /\ 1 - s # s /\ t \in {s, 1 - s} /\ 1 - (1 - s) = s
BY SMT DEF Slots

(* A valid slot that no other valid one matches is what load takes.        *)
LEMMA NewestIs ==
  ASSUME NEW f \in Files, NEW s \in Slots, Valid(f[s]),
         Valid(f[1 - s]) => f[1 - s].hseq < f[s].hseq
  PROVE  /\ Newest(f) = {s} /\ LoadedSeq(f) = f[s].hseq
         /\ LoadedValue(f) = f[s].head
<1>1. \A t \in Slots : t \in {s, 1 - s} /\ f[t].hseq \in Int
  BY OnlyTwoSlots, CheckpointAssumption DEF Files, SlotType
<1>2. s \in Newest(f)
  BY <1>1 DEF Newest
<1>3. \A t \in Newest(f) : t = s
  BY <1>1, OnlyTwoSlots DEF Newest
<1>4. Newest(f) = {s}
  BY <1>2, <1>3
<1>5. (CHOOSE t \in Newest(f) : TRUE) = s
  BY <1>4
<1> QED
  BY <1>4, <1>5 DEF LoadedSeq, LoadedValue

LEMMA NothingValid ==
  ASSUME NEW f \in Files, \A s \in Slots : ~Valid(f[s])
  PROVE  Newest(f) = {} /\ LoadedSeq(f) = 0 /\ LoadedValue(f) = None
<1>1. Newest(f) = {}
  BY DEF Newest
<1> QED
  BY <1>1 DEF LoadedSeq, LoadedValue

(* load finds nothing, or one slot that is newer than the other: two valid *)
(* slots of different parity never have the same sequence.                 *)
LEMMA LoadFinds ==
  ASSUME NEW f \in Files, Parity(f)
  PROVE  \/ /\ \A s \in Slots : ~Valid(f[s])
            /\ LoadedSeq(f) = 0 /\ LoadedValue(f) = None
         \/ \E s \in Slots :
              /\ Valid(f[s]) /\ (Valid(f[1 - s]) => f[1 - s].hseq < f[s].hseq)
              /\ Newest(f) = {s} /\ LoadedSeq(f) = f[s].hseq
              /\ LoadedValue(f) = f[s].head
<1>1. CASE \A s \in Slots : ~Valid(f[s])
  BY <1>1, NothingValid
<1>2. ASSUME NEW s \in Slots, Valid(f[s]), ~Valid(f[1 - s])
      PROVE  /\ Newest(f) = {s} /\ LoadedSeq(f) = f[s].hseq
             /\ LoadedValue(f) = f[s].head
  BY <1>2, NewestIs
<1>3. ASSUME NEW s \in Slots, Valid(f[s]), Valid(f[1 - s]), f[1 - s].hseq < f[s].hseq
      PROVE  /\ Newest(f) = {s} /\ LoadedSeq(f) = f[s].hseq
             /\ LoadedValue(f) = f[s].head
  BY <1>3, NewestIs
<1>4. ASSUME NEW s \in Slots, Valid(f[s]), Valid(f[1 - s])
      PROVE  f[1 - s].hseq # f[s].hseq
  <2>1. f[s].hseq % 2 = s /\ f[1 - s].hseq % 2 = 1 - s
    BY <1>4, OnlyTwoSlots DEF Parity, Valid
  <2> QED
    BY <2>1, OnlyTwoSlots
<1>5. \A s \in Slots : f[s].hseq \in Int /\ 1 - s \in Slots /\ 1 - (1 - s) = s
  BY OnlyTwoSlots, CheckpointAssumption DEF Files, SlotType, Slots
<1>6. CASE \E s \in Slots : Valid(f[s])
  <2>1. PICK s \in Slots : Valid(f[s])
    BY <1>6
  <2>2. CASE ~Valid(f[1 - s])
    BY <2>1, <2>2, <1>2
  <2>3. CASE Valid(f[1 - s]) /\ f[1 - s].hseq < f[s].hseq
    BY <2>1, <2>3, <1>3
  <2>4. CASE Valid(f[1 - s]) /\ f[s].hseq < f[1 - s].hseq
    <3>1. PICK t \in Slots : t = 1 - s /\ 1 - t = s
      BY <1>5
    <3>2. /\ Valid(f[t]) /\ Valid(f[1 - t]) /\ f[1 - t].hseq < f[t].hseq
      BY <2>1, <2>4, <3>1
    <3> QED
      BY <3>2, <1>3
  <2> QED
    BY <2>1, <2>2, <2>3, <2>4, <1>4, <1>5
<1> QED
  BY <1>1, <1>6

(* A slot that passes the check holds one whole value that was given to a  *)
(* save.                                                                   *)
LEMMA ValidIsWhole ==
  ASSUME NEW f \in Files, CrcWhole(f), NEW s \in Slots, Valid(f[s])
  PROVE  f[s].head = f[s].tail /\ f[s].head \in begun
BY DEF CrcWhole, Valid, Files, SlotType, Parts

(***************************************************************************)
(* The invariant is preserved.                                             *)
(***************************************************************************)
LEMMA ProofTypes ==
  ASSUME TypeOK
  PROVE  /\ map \in Files /\ disk \in Files /\ seq \in Nat
         /\ Target \in Slots /\ Other \in Slots /\ Other = 1 - Target /\ Other # Target
         /\ \A s \in Slots : s \in {Target, Other}
         /\ \A s \in Slots : map[s].hseq \in Nat /\ disk[s].hseq \in Nat
<1>1. seq \in Nat
  BY CheckpointAssumption DEF TypeOK
<1>2. map \in Files /\ disk \in Files
  BY DEF TypeOK, Files
<1>3. \A s \in Slots : map[s].hseq \in Nat /\ disk[s].hseq \in Nat
  BY <1>2, CheckpointAssumption DEF Files, SlotType
<1> QED
  BY <1>1, <1>2, <1>3, SlotNumbers, OnlyTwoSlots DEF Target, Other

LEMMA CheckpointInit == Init => CheckpointIInv
<1> SUFFICES ASSUME Init PROVE CheckpointIInv
  OBVIOUS
<1>1. ZeroSlot \in SlotType /\ ZeroSlot.hseq = 0 /\ ZeroSlot.crc = <<None, None>>
  BY CheckpointAssumption DEF ZeroSlot, SlotType, Parts
<1>2. /\ map \in Files /\ disk \in Files
      /\ \A s \in Slots : map[s] = ZeroSlot /\ disk[s] = ZeroSlot
  BY <1>1 DEF Init, Files
<1>3. TypeOK
  BY <1>2, CheckpointAssumption DEF Init, TypeOK, Files, Steps, Parts
<1>4. Parity(map) /\ Parity(disk) /\ CrcWhole(map) /\ CrcWhole(disk)
  BY <1>1, <1>2 DEF Parity, CrcWhole
<1>5. LoadedSeq(map) = 0
  BY <1>1, <1>2, NothingValid DEF Valid
<1>6. SaveProgress /\ StandsAtNewest
  BY <1>5 DEF Init, SaveProgress, StandsAtNewest
<1> QED
  BY <1>3, <1>4, <1>6 DEF CheckpointIInv

(* A save begins: the target is the slot a recovery would not take.        *)
LEMMA BeginKeeps == CheckpointIInv /\ BeginSave => CheckpointIInv'
<1> SUFFICES ASSUME CheckpointIInv, BeginSave PROVE CheckpointIInv'
  OBVIOUS
<1> USE DEF CheckpointIInv
<1>1. /\ process = "up" /\ step = "idle" /\ seq < MaxSaves /\ seq' = seq + 1
      /\ payload' \in Values /\ begun' = begun \cup {payload'}
      /\ before' = LoadedValue(map) /\ step' = "head" /\ UNCHANGED <<map, disk, process>>
  BY DEF BeginSave
<1>2. /\ map \in Files /\ disk \in Files /\ seq \in Nat
      /\ seq = LoadedSeq(map)
  BY <1>1, ProofTypes DEF StandsAtNewest
<1>3. /\ Target' = (seq + 1) % 2 /\ Target' \in Slots /\ Other' \in Slots
      /\ Other' = seq % 2 /\ Target' = 1 - Other'
  BY <1>1, <1>2, SlotNumbers DEF Target, Other
<1>4. ASSUME seq = 0 PROVE before' \in Parts /\ StandsAtNewest'
  <2>1. \A s \in Slots : ~Valid(map[s])
    BY <1>2, <1>4, LoadFinds DEF Valid
  <2>2. before' = None
    BY <2>1, <1>1, <1>2, NothingValid
  <2>3. before' \in Parts /\ StandsAtNewest'
    BY <1>1, <1>3, <1>4, <2>1, <2>2 DEF StandsAtNewest, Parts
  <2> QED
    BY <2>3
<1>5. ASSUME seq # 0 PROVE before' \in Parts /\ StandsAtNewest'
  <2>1. PICK s \in Slots :
          /\ Valid(map[s]) /\ (Valid(map[1 - s]) => map[1 - s].hseq < map[s].hseq)
          /\ map[s].hseq = seq /\ before' = map[s].head
    BY <1>1, <1>2, <1>5, LoadFinds
  <2>2. s = Other' /\ 1 - s = Target'
    BY <2>1, <1>3, <1>5 DEF Parity
  <2>3. before' \in Parts
    BY <2>1, <1>2 DEF Files, SlotType
  <2>4. StandsAtNewest'
    BY <2>1, <2>2, <1>1, <1>2, <1>5 DEF StandsAtNewest
  <2> QED
    BY <2>3, <2>4
<1>6. TypeOK'
  BY <1>1, <1>2, <1>4, <1>5, CheckpointAssumption DEF TypeOK, Steps, Parts
<1>7. Parity(map)' /\ Parity(disk)' /\ CrcWhole(map)' /\ CrcWhole(disk)'
  BY <1>1 DEF Parity, CrcWhole
<1>8. SaveProgress'
  BY <1>1, <1>2 DEF SaveProgress
<1>9. StandsAtNewest'
  BY <1>4, <1>5
<1> QED
  BY <1>6, <1>7, <1>8, <1>9

(* A store that leaves sequence and CRC of the header alone.               *)
LEMMA StoreKeeps ==
  ASSUME CheckpointIInv, NEW at, NEW next \in {"tail", "trailer", "crc"},
         NEW slot \in SlotType, at # "idle", step = at,
         Store(at, next, slot), UNCHANGED <<payload, before>>,
         slot.hseq = map[Target].hseq, slot.crc = map[Target].crc,
         slot.head = payload,
         next \in {"trailer", "crc"} => slot.tail = payload,
         next = "crc" => slot.tseq = seq
  PROVE  CheckpointIInv'
<1> USE DEF CheckpointIInv
<1>1. /\ process = "up" /\ step' = next /\ map' = [map EXCEPT ![Target] = slot]
      /\ UNCHANGED <<disk, seq, process, begun, payload, before, Target, Other>>
  BY DEF Store, Target, Other
<1>2. /\ map \in Files /\ seq \in Nat /\ Target \in Slots /\ Other \in Slots /\ Other # Target
  BY ProofTypes
<1>3. map'[Target] = slot /\ map'[Other] = map[Other] /\ map' \in Files
      /\ \A s \in Slots : s # Target => map'[s] = map[s]
  BY <1>1, <1>2 DEF Files
<1>4. TypeOK'
  BY <1>1, <1>3 DEF TypeOK, Files, Steps
<1>5. Parity(map)' /\ Parity(disk)' /\ CrcWhole(map)' /\ CrcWhole(disk)'
  BY <1>1, <1>2, <1>3 DEF Parity, CrcWhole
<1>6. SaveProgress'
  BY <1>1, <1>2, <1>3 DEF SaveProgress
<1>7. StandsAtNewest'
  BY <1>1, <1>3 DEF StandsAtNewest
<1> QED
  BY <1>4, <1>5, <1>6, <1>7

LEMMA StoresKeep ==
  CheckpointIInv /\ (StoreHead \/ StoreTail \/ StoreTrailer) => CheckpointIInv'
<1> SUFFICES ASSUME CheckpointIInv, StoreHead \/ StoreTail \/ StoreTrailer PROVE CheckpointIInv'
  OBVIOUS
<1>1. map \in Files /\ seq \in Nat /\ Target \in Slots /\ payload \in Parts /\ seq \in 0..MaxSaves
  BY ProofTypes DEF CheckpointIInv, TypeOK
<1>2. map[Target] \in SlotType
  BY <1>1 DEF Files
<1>3. CASE StoreHead
  <2> DEFINE slot == [map[Target] EXCEPT !.head = payload]
  <2>1. /\ slot \in SlotType /\ slot.hseq = map[Target].hseq /\ slot.crc = map[Target].crc
        /\ slot.head = payload
    BY <1>1, <1>2 DEF SlotType
  <2>3. Store("head", "tail", slot) /\ step = "head" /\ UNCHANGED <<payload, before>>
    BY <1>3 DEF StoreHead, Store
  <2> HIDE DEF slot
  <2> QED
    BY <2>1, <2>3, StoreKeeps
<1>4. CASE StoreTail
  <2> DEFINE slot == [map[Target] EXCEPT !.tail = payload]
  <2>1. /\ slot \in SlotType /\ slot.hseq = map[Target].hseq /\ slot.crc = map[Target].crc
        /\ slot.head = map[Target].head /\ slot.tail = payload
    BY <1>1, <1>2 DEF SlotType
  <2>2. map[Target].head = payload
    BY <1>4 DEF StoreTail, Store, CheckpointIInv, SaveProgress
  <2>3. Store("tail", "trailer", slot) /\ step = "tail" /\ UNCHANGED <<payload, before>>
    BY <1>4 DEF StoreTail, Store
  <2> HIDE DEF slot
  <2> QED
    BY <2>1, <2>2, <2>3, StoreKeeps
<1>5. CASE StoreTrailer
  <2> DEFINE slot == [map[Target] EXCEPT !.tseq = seq]
  <2>1. /\ slot \in SlotType /\ slot.hseq = map[Target].hseq /\ slot.crc = map[Target].crc
        /\ slot.head = map[Target].head /\ slot.tail = map[Target].tail /\ slot.tseq = seq
    BY <1>1, <1>2 DEF SlotType
  <2>2. map[Target].head = payload /\ map[Target].tail = payload
    BY <1>5 DEF StoreTrailer, Store, CheckpointIInv, SaveProgress
  <2>3. Store("trailer", "crc", slot) /\ step = "trailer" /\ UNCHANGED <<payload, before>>
    BY <1>5 DEF StoreTrailer, Store
  <2> HIDE DEF slot
  <2> QED
    BY <2>1, <2>2, <2>3, StoreKeeps
<1> QED
  BY <1>3, <1>4, <1>5

(* The CRC is taken of a payload that is there in full.                    *)
LEMMA CrcKeeps == CheckpointIInv /\ StoreCrc => CheckpointIInv'
<1> SUFFICES ASSUME CheckpointIInv, StoreCrc PROVE CheckpointIInv'
  OBVIOUS
<1> USE DEF CheckpointIInv
<1>1. /\ process = "up" /\ step = "crc" /\ step' = "commit"
      /\ map' = [map EXCEPT ![Target] =
                   [map[Target] EXCEPT !.crc = <<map[Target].head, map[Target].tail>>]]
      /\ UNCHANGED <<disk, seq, process, begun, payload, before, Target, Other>>
  BY DEF StoreCrc, Store, Target, Other
<1>2. /\ map \in Files /\ seq \in Nat /\ Target \in Slots /\ Other \in Slots /\ Other # Target
  BY ProofTypes
<1>3. /\ map[Target].head = payload /\ map[Target].tail = payload /\ map[Target].tseq = seq
      /\ payload \in begun /\ seq > 0 /\ payload \in Parts
  BY <1>1 DEF SaveProgress, TypeOK
<1>4. /\ map'[Target] \in SlotType
      /\ map'[Target].crc = <<payload, payload>> /\ map'[Target].hseq = map[Target].hseq
      /\ map'[Target].head = payload /\ map'[Target].tail = payload /\ map'[Target].tseq = seq
      /\ \A s \in Slots : s # Target => map'[s] = map[s]
  BY <1>1, <1>2, <1>3 DEF Files, SlotType
<1>5. map' \in Files
  BY <1>1, <1>2, <1>4 DEF Files
<1>6. TypeOK'
  BY <1>1, <1>5 DEF TypeOK, Files, Steps
<1>7. Parity(map)' /\ Parity(disk)'
  BY <1>1, <1>4 DEF Parity
<1>8. CrcWhole(map)' /\ CrcWhole(disk)'
  BY <1>1, <1>3, <1>4 DEF CrcWhole
<1>9. SaveProgress'
  BY <1>1, <1>3, <1>4 DEF SaveProgress
<1>10. StandsAtNewest'
  BY <1>1, <1>2, <1>4 DEF StandsAtNewest
<1> QED
  BY <1>6, <1>7, <1>8, <1>9, <1>10

(* The commit makes the target the newest slot.                            *)
LEMMA CommitSettles ==
  ASSUME CheckpointIInv, Commit
  PROVE  CheckpointIInv' /\ LoadedValue(map)' = payload
<1> USE DEF CheckpointIInv
<1>1. /\ process = "up" /\ step = "commit" /\ step' = "idle"
      /\ map' = [map EXCEPT ![Target] = [map[Target] EXCEPT !.hseq = seq]]
      /\ payload' = None /\ before' = None
      /\ UNCHANGED <<disk, seq, process, begun, Target, Other>>
  BY DEF Commit, Store, Target, Other
<1>2. /\ map \in Files /\ seq \in Nat /\ Target \in Slots /\ Other \in Slots /\ Other # Target
      /\ Other = 1 - Target /\ seq \in 0..MaxSaves
  BY ProofTypes DEF TypeOK
<1>3. /\ map[Target].head = payload /\ map[Target].tail = payload /\ map[Target].tseq = seq
      /\ map[Target].crc = <<payload, payload>> /\ payload \in begun /\ seq > 0
  BY <1>1 DEF SaveProgress
<1>4. /\ map'[Target] \in SlotType
      /\ map'[Target].crc = <<payload, payload>> /\ map'[Target].hseq = seq
      /\ map'[Target].head = payload /\ map'[Target].tail = payload /\ map'[Target].tseq = seq
      /\ \A s \in Slots : s # Target => map'[s] = map[s]
  BY <1>1, <1>2, <1>3 DEF Files, SlotType
<1>5. map' \in Files
  BY <1>1, <1>2, <1>4 DEF Files
<1>6. TypeOK'
  BY <1>1, <1>5 DEF TypeOK, Files, Steps, Parts
<1>7. Parity(map)' /\ Parity(disk)'
  BY <1>1, <1>2, <1>4 DEF Parity, Target
<1>8. CrcWhole(map)' /\ CrcWhole(disk)'
  BY <1>1, <1>3, <1>4 DEF CrcWhole
<1>9. SaveProgress'
  BY <1>1 DEF SaveProgress
<1>10. Valid(map'[Target])
  BY <1>3, <1>4 DEF Valid
<1>11. Valid(map'[1 - Target]) => map'[1 - Target].hseq < map'[Target].hseq
  BY <1>1, <1>2, <1>4 DEF StandsAtNewest
<1>12. LoadedSeq(map') = seq /\ LoadedValue(map') = payload
  BY <1>2, <1>4, <1>5, <1>10, <1>11, NewestIs
<1>13. StandsAtNewest'
  BY <1>1, <1>12 DEF StandsAtNewest
<1> QED
  BY <1>6, <1>7, <1>8, <1>9, <1>12, <1>13

(* Pages reach the disk one by one.                                        *)
LEMMA WriteBackKeeps ==
  ASSUME CheckpointIInv, NEW s \in Slots, WriteBackFirst(s) \/ WriteBackSecond(s)
  PROVE  CheckpointIInv'
<1> USE DEF CheckpointIInv
<1>1. /\ UNCHANGED <<map, seq, step, payload, process, begun, before, Target, Other>>
  BY DEF WriteBackFirst, WriteBackSecond, Target, Other
<1>2. map \in Files /\ disk \in Files
  BY ProofTypes
<1>3. PICK slot \in SlotType :
        /\ disk' = [disk EXCEPT ![s] = slot]
        /\ \/ slot.hseq = map[s].hseq /\ slot.crc = map[s].crc
           \/ slot.hseq = disk[s].hseq /\ slot.crc = disk[s].crc
  <2>1. map[s] \in SlotType /\ disk[s] \in SlotType
    BY <1>2 DEF Files
  <2>2. CASE WriteBackFirst(s)
    <3> DEFINE slot == [map[s] EXCEPT !.tail = disk[s].tail, !.tseq = disk[s].tseq]
    <3>1. slot \in SlotType /\ slot.hseq = map[s].hseq /\ slot.crc = map[s].crc
      BY <2>1 DEF SlotType
    <3> QED
      BY <2>2, <3>1 DEF WriteBackFirst
  <2>3. CASE WriteBackSecond(s)
    <3> DEFINE slot == [disk[s] EXCEPT !.tail = map[s].tail, !.tseq = map[s].tseq]
    <3>1. slot \in SlotType /\ slot.hseq = disk[s].hseq /\ slot.crc = disk[s].crc
      BY <2>1 DEF SlotType
    <3> QED
      BY <2>3, <3>1 DEF WriteBackSecond
  <2> QED
    BY <2>2, <2>3
<1>4. disk' \in Files /\ disk'[s] = slot /\ \A t \in Slots : t # s => disk'[t] = disk[t]
  BY <1>2, <1>3 DEF Files
<1>5. TypeOK'
  BY <1>1, <1>4 DEF TypeOK, Files
<1>6. Parity(map)' /\ Parity(disk)' /\ CrcWhole(map)' /\ CrcWhole(disk)'
  BY <1>1, <1>3, <1>4 DEF Parity, CrcWhole
<1>7. SaveProgress' /\ StandsAtNewest'
  BY <1>1 DEF SaveProgress, StandsAtNewest
<1> QED
  BY <1>5, <1>6, <1>7

(* Nothing about a save survives the end of the process.                   *)
LEMMA FailuresKeep == CheckpointIInv /\ (Kill \/ PowerLoss) => CheckpointIInv'
<1> SUFFICES ASSUME CheckpointIInv, Kill \/ PowerLoss PROVE CheckpointIInv'
  OBVIOUS
<1> USE DEF CheckpointIInv
<1>1. /\ process' \in {"killed", "unpowered"} /\ step' = "idle" /\ payload' = None
      /\ before' = None /\ map' \in {map, disk} /\ UNCHANGED <<disk, seq, begun>>
  BY DEF Kill, PowerLoss, Stopped
<1>2. TypeOK'
  BY <1>1 DEF TypeOK, Steps, Parts
<1>3. Parity(map)' /\ Parity(disk)' /\ CrcWhole(map)' /\ CrcWhole(disk)'
  BY <1>1 DEF Parity, CrcWhole
<1>4. SaveProgress' /\ StandsAtNewest'
  BY <1>1 DEF SaveProgress, StandsAtNewest
<1> QED
  BY <1>2, <1>3, <1>4

LEMMA RecoverKeeps == CheckpointIInv /\ Recover => CheckpointIInv'
<1> SUFFICES ASSUME CheckpointIInv, Recover PROVE CheckpointIInv'
  OBVIOUS
<1> USE DEF CheckpointIInv
<1>1. /\ process # "up" /\ process' = "up" /\ seq' = LoadedSeq(map)
      /\ UNCHANGED <<map, disk, step, payload, begun, before>>
  BY DEF Recover, Opened
<1>2. step = "idle" /\ payload = None
  BY <1>1 DEF SaveProgress
<1>3. LoadedSeq(map) \in 0..MaxSaves
  <2>1. map \in Files /\ \A s \in Slots : map[s].hseq \in 0..MaxSaves
    BY ProofTypes DEF Files, SlotType
  <2> QED
    BY <2>1, LoadFinds, CheckpointAssumption
<1>4. TypeOK'
  BY <1>1, <1>3 DEF TypeOK
<1>5. Parity(map)' /\ Parity(disk)' /\ CrcWhole(map)' /\ CrcWhole(disk)'
  BY <1>1 DEF Parity, CrcWhole
<1>6. SaveProgress' /\ StandsAtNewest'
  BY <1>1, <1>2 DEF SaveProgress, StandsAtNewest
<1> QED
  BY <1>4, <1>5, <1>6

LEMMA CheckpointInvariant == Spec => []CheckpointIInv
<1>1. CheckpointIInv /\ UNCHANGED vars => CheckpointIInv'
  BY DEF CheckpointIInv, vars, TypeOK, Parity, CrcWhole, SaveProgress, StandsAtNewest, Target, Other
<1>2. CheckpointIInv /\ [Next]_vars => CheckpointIInv'
  BY <1>1, BeginKeeps, StoresKeep, CrcKeeps, CommitSettles, WriteBackKeeps, FailuresKeep, RecoverKeeps
     DEF Next
<1> QED
  BY <1>2, CheckpointInit, PTL DEF Spec

(***************************************************************************)
(* The theorems.                                                           *)
(***************************************************************************)

(* While a save is under way a recovery returns what it would have         *)
(* returned before it, or the value being saved, whole.                    *)
LEMMA DuringSave ==
  CheckpointIInv /\ step # "idle" =>
    /\ LoadedValue(map) \in {before, payload}
    /\ Target \in Newest(map) => LoadedValue(map) = payload
<1> SUFFICES ASSUME CheckpointIInv, step # "idle"
             PROVE  /\ LoadedValue(map) \in {before, payload}
                    /\ Target \in Newest(map) => LoadedValue(map) = payload
  OBVIOUS
<1> USE DEF CheckpointIInv
<1>1. /\ map \in Files /\ seq \in Nat /\ Target \in Slots /\ Other \in Slots /\ Other = 1 - Target
      /\ Other # Target /\ \A s \in Slots : s \in {Target, Other}
  BY ProofTypes
<1>2. Valid(map[Other]) => before = map[Other].head /\ map[Other].hseq = seq - 1
  BY DEF StandsAtNewest
<1>3. ~Valid(map[Other]) => before = None /\ seq = 1
  BY DEF StandsAtNewest
<1>4. Valid(map[Target]) => IF step = "head" THEN map[Target].hseq < seq - 1
                            ELSE map[Target].head = payload
  BY DEF StandsAtNewest, SaveProgress, TypeOK, Steps
<1>5. CASE \A s \in Slots : ~Valid(map[s])
  BY <1>1, <1>3, <1>5, NothingValid
<1>6. ASSUME NEW s \in Slots, Valid(map[s]), Valid(map[1 - s]) => map[1 - s].hseq < map[s].hseq,
             Newest(map) = {s}, LoadedValue(map) = map[s].head
      PROVE  /\ LoadedValue(map) \in {before, payload}
             /\ Target \in Newest(map) => LoadedValue(map) = payload
  <2>1. CASE s = Other
    BY <1>1, <1>2, <1>6, <2>1
  <2>2. CASE s = Target
    <3>1. step # "head"
      <4> SUFFICES ASSUME step = "head" PROVE FALSE
        OBVIOUS
      <4>1. map[Target].hseq < seq - 1 /\ map[Target].hseq \in Nat
        BY <1>1, <1>4, <1>6, <2>2, ProofTypes
      <4>2. Valid(map[Other]) /\ map[Other].hseq = seq - 1
        BY <1>1, <1>2, <1>3, <4>1
      <4> QED
        BY <1>1, <1>6, <2>2, <4>1, <4>2
    <3> QED
      BY <1>4, <1>6, <2>2, <3>1
  <2> QED
    BY <1>1, <1>6, <2>1, <2>2
<1> QED
  BY <1>1, <1>5, <1>6, LoadFinds

(* Both copies of the file keep the shape of two slots, and save's local   *)
(* state its types, through kills and power losses.                        *)
THEOREM CheckpointTypes == Spec => []TypeOK
<1>1. CheckpointIInv => TypeOK
  BY DEF CheckpointIInv
<1> QED
  BY <1>1, CheckpointInvariant, PTL

(* load never trusts a mixture of two saves, wherever the process or the   *)
(* machine stopped.                                                        *)
THEOREM TornTheorem == Spec => []NeverRestoresTorn
<1>1. CheckpointIInv => NeverRestoresTorn
  <2> SUFFICES ASSUME CheckpointIInv, NEW f \in {map, disk}, NEW s \in Slots, Valid(f[s])
               PROVE  f[s].head = f[s].tail /\ f[s].head \in Values
    BY DEF NeverRestoresTorn
  <2>1. f \in Files /\ CrcWhole(f) /\ begun \subseteq Values
    BY ProofTypes DEF CheckpointIInv, TypeOK
  <2> QED
    BY <2>1, ValidIsWhole
<1> QED
  BY <1>1, CheckpointInvariant, PTL

(* No save harms the slot a recovery needs.                                *)
THEOREM SparesTheorem == Spec => []SavesSpareNewest
<1>1. CheckpointIInv => SavesSpareNewest
  BY DuringSave DEF SavesSpareNewest
<1> QED
  BY <1>1, CheckpointInvariant, PTL

(* The file implements the durable cell: every store of a save leaves the  *)
(* cell at the old value or at the new one, its commit settles it.         *)
THEOREM CellTheorem == Spec => ImplementsCell
<1>1. Init => Cell!Init
  <2> SUFFICES ASSUME Init PROVE Cell!Init
    OBVIOUS
  <2>1. ZeroSlot \in SlotType /\ ~Valid(ZeroSlot)
    BY CheckpointAssumption DEF ZeroSlot, SlotType, Parts, Valid
  <2>2. map \in Files /\ \A s \in Slots : ~Valid(map[s])
    BY <2>1 DEF Init, Files
  <2>3. LoadedValue(map) = None
    BY <2>2, NothingValid
  <2> QED
    BY <2>3 DEF Init, Cell!Init
<1>2. CheckpointIInv /\ CheckpointIInv' /\ [Next]_vars => [Cell!Next]_(Cell!cellVars)
  <2> SUFFICES ASSUME CheckpointIInv, CheckpointIInv', [Next]_vars
               PROVE  [Cell!Next]_(Cell!cellVars)
    OBVIOUS
  <2>1. CASE UNCHANGED <<map, begun, before, payload, process>>
    BY <2>1 DEF Cell!cellVars, LoadedValue, Newest
  <2>2. CASE BeginSave
    <3>1. payload = None
      BY <2>2 DEF BeginSave, CheckpointIInv, SaveProgress
    <3>2. LoadedValue(map)' = LoadedValue(map)
      BY <2>2 DEF BeginSave, LoadedValue, Newest
    <3> QED
      BY <2>2, <3>1, <3>2 DEF BeginSave, Cell!Next, Cell!BeginSave
  <2>3. CASE StoreHead \/ StoreTail \/ StoreTrailer \/ StoreCrc
    <3>1. /\ process = "up" /\ step # "idle" /\ step' # "idle"
          /\ UNCHANGED <<payload, process, begun, before>>
      BY <2>3 DEF StoreHead, StoreTail, StoreTrailer, StoreCrc, Store
    <3>2. payload # None
      BY <3>1, CheckpointAssumption DEF CheckpointIInv, SaveProgress, TypeOK
    <3>3. (LoadedValue(map) \in {before, payload})'
      <4>1. CheckpointIInv' /\ (step # "idle")' => (LoadedValue(map) \in {before, payload})'
        BY DuringSave, PTL
      <4> QED
        BY <3>1, <4>1
    <3> QED
      BY <3>1, <3>2, <3>3 DEF Cell!Next, Cell!Settle
  <2>4. CASE Commit
    <3>1. LoadedValue(map)' = payload
      BY <2>4, CommitSettles
    <3>2. payload # None
      BY <2>4, CheckpointAssumption DEF Commit, Store, CheckpointIInv, SaveProgress, TypeOK
    <3> QED
      BY <2>4, <3>1, <3>2 DEF Commit, Store, Cell!Next, Cell!EndSave
  <2>5. ASSUME NEW s \in Slots, WriteBackFirst(s) \/ WriteBackSecond(s)
        PROVE  [Cell!Next]_(Cell!cellVars)
    BY <2>1, <2>5 DEF WriteBackFirst, WriteBackSecond
  <2>6. CASE Kill
    <3>1. LoadedValue(map)' = LoadedValue(map)
      BY <2>6 DEF Kill, LoadedValue, Newest
    <3> QED
      BY <2>6, <3>1 DEF Kill, Stopped, Cell!Next, Cell!Kill
  <2>7. CASE PowerLoss
    <3>1. LoadedValue(disk) \in begun \cup {None}
      <4>1. disk \in Files /\ Parity(disk) /\ CrcWhole(disk)
        BY ProofTypes DEF CheckpointIInv
      <4> QED
        BY <4>1, LoadFinds, ValidIsWhole
    <3>2. LoadedValue(map)' = LoadedValue(disk)
      BY <2>7 DEF PowerLoss, LoadedValue, Newest
    <3> QED
      BY <2>7, <3>1, <3>2 DEF PowerLoss, Stopped, Cell!Next, Cell!PowerLoss
  <2>8. CASE Recover
    <3>1. LoadedValue(map)' = LoadedValue(map)
      BY <2>8 DEF Recover, Opened, LoadedValue, Newest
    <3> QED
      BY <2>8, <3>1 DEF Recover, Opened, Cell!Next, Cell!Recover
  <2>9. CASE UNCHANGED vars
    BY <2>1, <2>9 DEF vars
  <2> QED
    BY <2>2, <2>3, <2>4, <2>5, <2>6, <2>7, <2>8, <2>9 DEF Next
<1> QED
  BY <1>1, <1>2, CheckpointInvariant, PTL DEF Spec, ImplementsCell, Cell!Spec

(***************************************************************************)
(* The portfolio file: what its save leaves, on the mapping and the disk.  *)
(***************************************************************************)
StateOrNone == States \cup {NoState}
PageSlot == [seq : Nat, length : Nat, head : StateOrNone, tail : StateOrNone, trailer : Nat]
PortfolioFiles == [Slots -> PageSlot]

PortfolioTypes ==
  /\ file \in PortfolioFiles /\ platter \in PortfolioFiles
  /\ saved_seq \in Nat /\ deaths \in Nat
  /\ store \in {"idle", "head", "tail", "trailer", "header", "seq", "length", "flush"}
  /\ host \in {"up", "killed", "unpowered"}
  /\ {state, kept, tried} \subseteq StateOrNone

(* A slot only has sequences of its own parity.                            *)
OwnParity(f) == \A s \in Slots : f[s].seq # 0 => f[s].seq % 2 = s

Spare == 1 - Slot

(* What the save under way has stored.                                     *)
PutsMade ==
  /\ store # "idle" => host = "up" /\ state \in States /\ Fits(state) /\ state = tried /\ saved_seq > 0
  /\ store \notin {"idle", "head"} => file[Slot].head = state
  /\ store \notin {"idle", "head", "tail"} =>
       (IsLong(Length[state]) => file[Slot].tail = state)
  /\ store \in {"header", "seq", "length", "flush"} => file[Slot].trailer = saved_seq
  /\ store \in {"length", "flush"} => file[Slot].seq = saved_seq
  /\ store \in {"seq", "flush"} => file[Slot].length = Length[state]

(* The slot a save leaves alone is what the process stood at before it.    *)
SpareStands ==
  IF saved_seq = 1 THEN ~Intact(file[Spare]) /\ kept = NoState
  ELSE Intact(file[Spare]) /\ file[Spare].seq = saved_seq - 1 /\ kept = file[Spare].head

Standing ==
  /\ store # "idle" => SpareStands
  /\ store = "head" => (Intact(file[Slot]) => file[Slot].seq < saved_seq - 1)
  /\ store = "idle" /\ host = "up" => saved_seq = LatestSeq(file) /\ kept = Loaded(file).head
  /\ host = "killed" \/ (host = "unpowered" /\ ~exposed) => Loaded(file).head \in {kept, tried}

Whole(slot) == IsLong(slot.length) => slot.tail = slot.head

(* Until a header is caught half written no slot is ahead of the newest.   *)
InOrder == ~exposed =>
  /\ store = "idle" => /\ \A s \in Slots : file[s].seq <= LatestSeq(file)
                       /\ Loaded(file).head = Loaded(file).tail
  /\ store # "idle" => file[Spare].seq < saved_seq /\ (Intact(file[Spare]) => Whole(file[Spare]))
  /\ store \in {"head", "tail", "trailer", "header", "seq"} => file[Slot].seq < saved_seq

(* What a save in the middle has left, on the mapping and on the disk.     *)
SlotIsTrieds(f) == f[Slot].head = tried \/ f[Slot].seq < saved_seq

MidSave ==
  /\ saved_seq > 0 /\ SpareStands /\ platter[Spare] = file[Spare]
  /\ SlotIsTrieds(file) /\ SlotIsTrieds(platter)

OnDisk == ~unflushed /\ ~exposed =>
  /\ store = "idle" /\ host # "killed" => platter = file
  /\ store # "idle" => MidSave
  /\ host = "killed" => platter = file \/ MidSave

PortfolioIInv ==
  /\ PortfolioTypes /\ OwnParity(file) /\ OwnParity(platter)
  /\ PutsMade /\ Standing /\ InOrder /\ OnDisk

LEMMA SlotBefore ==
  ASSUME NEW n \in Nat, n > 0
  PROVE  n - 1 \in Nat /\ (n - 1) % 2 = 1 - (n % 2)
BY SMT

LEMMA IntactIs ==
  ASSUME NEW slot \in PageSlot, Intact(slot)
  PROVE  /\ slot.seq \in Nat \ {0} /\ slot.trailer = slot.seq
         /\ slot.head \in States /\ (IsLong(slot.length) => IsLong(Length[slot.head]))
<1>1. slot.seq \in Nat \ {0} /\ slot.trailer = slot.seq
  BY DEF PageSlot, Intact
<1>2. CASE slot.head # NoState /\ Length[slot.head] = slot.length
  BY <1>1, <1>2 DEF PageSlot, StateOrNone
<1>3. CASE /\ <<slot.head, slot.tail, slot.length>> \in Mixes
           /\ IsLong(slot.length) /\ IsLong(Length[slot.head])
  <2>1. <<slot.head, slot.tail, slot.length>> \in States \X States \X Nat
    BY <1>3, PortfolioAssumption
  <2> QED
    BY <1>1, <1>3, <2>1
<1> QED
  BY <1>2, <1>3 DEF Intact, Parses

TailLoaded(slot) == IF IsLong(slot.length) THEN slot.tail ELSE slot.head

(* An intact slot that no other one matches is what load takes.            *)
LEMMA LatestIs ==
  ASSUME NEW f \in PortfolioFiles, NEW s \in Slots, Intact(f[s]),
         Intact(f[1 - s]) => f[1 - s].seq < f[s].seq
  PROVE  /\ LatestSeq(f) = f[s].seq /\ Loaded(f).head = f[s].head
         /\ Loaded(f).tail = TailLoaded(f[s])
<1>1. \A t \in Slots : t \in {s, 1 - s} /\ 1 - s \in Slots /\ 1 - s # s /\ 1 - (1 - s) = s
  BY OnlyTwoSlots
<1>2. f[s].seq \in Nat /\ f[1 - s].seq \in Nat
  BY <1>1 DEF PortfolioFiles, PageSlot
<1>3. s \in LatestSlot(f)
  BY <1>1 DEF LatestSlot, Slots
<1>4. ~(1 - s \in LatestSlot(f))
  BY <1>1, <1>2 DEF LatestSlot
<1>5. LatestSlot(f) \subseteq Slots
  BY DEF LatestSlot, Slots
<1>6. LatestSlot(f) = {s}
  BY <1>1, <1>3, <1>4, <1>5
<1>7. (CHOOSE t \in LatestSlot(f) : TRUE) = s
  BY <1>6
<1> QED
  BY <1>6, <1>7 DEF LatestSeq, Loaded, TailLoaded

LEMMA NothingIntact ==
  ASSUME NEW f \in PortfolioFiles, \A s \in Slots : ~Intact(f[s])
  PROVE  LatestSeq(f) = 0 /\ Loaded(f).head = NoState /\ Loaded(f).tail = NoState
<1>1. LatestSlot(f) = {}
  BY DEF LatestSlot, Slots
<1> QED
  BY <1>1 DEF LatestSeq, Loaded

IsLatest(f, s) ==
  /\ Intact(f[s]) /\ (Intact(f[1 - s]) => f[1 - s].seq < f[s].seq)
  /\ LatestSeq(f) = f[s].seq /\ Loaded(f).head = f[s].head
  /\ Loaded(f).tail = TailLoaded(f[s])

NoneIntact(f) ==
  /\ \A s \in Slots : ~Intact(f[s])
  /\ LatestSeq(f) = 0 /\ Loaded(f).head = NoState /\ Loaded(f).tail = NoState

(* Two intact slots never have the same sequence: load finds nothing, or   *)
(* one slot that is newer than the other.                                  *)
LEMMA LoadFindsOne ==
  ASSUME NEW f \in PortfolioFiles, OwnParity(f)
  PROVE  NoneIntact(f) \/ \E s \in Slots : IsLatest(f, s)
<1>1. CASE \A s \in Slots : ~Intact(f[s])
  BY <1>1, NothingIntact DEF NoneIntact
<1>2. ASSUME NEW s \in Slots, Intact(f[s]), Intact(f[1 - s]) => f[1 - s].seq < f[s].seq
      PROVE  IsLatest(f, s)
  BY <1>2, LatestIs DEF IsLatest
<1>3. ASSUME NEW s \in Slots, Intact(f[s]), Intact(f[1 - s])
      PROVE  f[s].seq < f[1 - s].seq \/ f[1 - s].seq < f[s].seq
  <2>0. 1 - s \in Slots /\ 1 - s # s
    BY OnlyTwoSlots
  <2>1. f[s].seq \in Nat \ {0} /\ f[1 - s].seq \in Nat \ {0}
    BY <1>3, <2>0, IntactIs DEF PortfolioFiles
  <2>2. f[s].seq % 2 = s /\ f[1 - s].seq % 2 = 1 - s
    BY <2>0, <2>1 DEF OwnParity
  <2>3. f[s].seq # f[1 - s].seq
    BY <2>0, <2>2
  <2> QED
    BY <2>1, <2>3
<1>4. ASSUME NEW s \in Slots, Intact(f[s]) PROVE \E t \in Slots : IsLatest(f, t)
  <2>1. 1 - s \in Slots /\ 1 - (1 - s) = s
    BY OnlyTwoSlots
  <2>2. CASE Intact(f[1 - s]) => f[1 - s].seq < f[s].seq
    BY <1>2, <1>4, <2>2
  <2>3. CASE Intact(f[1 - s]) /\ f[s].seq < f[1 - s].seq
    <3>1. IsLatest(f, 1 - s)
      BY <1>2, <2>1, <2>3
    <3> QED
      BY <2>1, <3>1
  <2> QED
    BY <1>3, <1>4, <2>2, <2>3
<1> QED
  BY <1>1, <1>4

(* What the slot a save leaves alone guarantees, whatever the save wrote.  *)
StandsIn(f) ==
  IF saved_seq = 1 THEN ~Intact(f[Spare]) /\ kept = NoState
  ELSE Intact(f[Spare]) /\ f[Spare].seq = saved_seq - 1 /\ kept = f[Spare].head

LEMMA SlotsOfSave ==
  ASSUME PortfolioTypes, saved_seq > 0
  PROVE  /\ saved_seq \in Nat \ {0} /\ Slot \in Slots /\ Spare \in Slots /\ Spare # Slot
         /\ 1 - Spare = Slot /\ 1 - Slot = Spare /\ \A s \in Slots : s \in {Slot, Spare}
         /\ saved_seq % 2 = Slot /\ (saved_seq - 1) % 2 = Spare
<1>1. saved_seq \in Nat \ {0}
  BY DEF PortfolioTypes
<1>2. (saved_seq - 1) % 2 = Spare
  BY <1>1, SlotBefore DEF Spare, Slot
<1>3. Slot \in Slots /\ Spare \in Slots /\ Spare # Slot
  BY <1>1, SlotNumbers DEF Spare, Slot
<1>4. 1 - Spare = Slot /\ 1 - Slot = Spare /\ \A s \in Slots : s \in {Slot, Spare}
  <2>1. Spare = 1 - Slot
    BY DEF Spare
  <2> QED
    BY <1>3, <2>1, OnlyTwoSlots
<1> QED
  BY <1>1, <1>2, <1>3, <1>4 DEF Slot

(* As long as the slot being written has a sequence below the save's, it   *)
(* is behind the spare one.                                                *)
LEMMA BehindSpare ==
  ASSUME PortfolioTypes, saved_seq > 0, NEW f \in PortfolioFiles, OwnParity(f), StandsIn(f),
         Intact(f[Slot]) => f[Slot].seq < saved_seq
  PROVE  IF saved_seq = 1 THEN NoneIntact(f) ELSE IsLatest(f, Spare) /\ LatestSeq(f) = saved_seq - 1
<1>1. /\ saved_seq \in Nat \ {0} /\ Slot \in Slots /\ Spare \in Slots /\ Spare # Slot
      /\ 1 - Spare = Slot /\ \A s \in Slots : s \in {Slot, Spare}
      /\ (saved_seq - 1) % 2 = Spare
  BY SlotsOfSave
<1>2. f[Slot].seq \in Nat
  BY <1>1 DEF PortfolioFiles, PageSlot
<1>3. CASE saved_seq = 1
  <2>1. ~Intact(f[Slot])
    BY <1>2, <1>3 DEF Intact
  <2>2. \A s \in Slots : ~Intact(f[s])
    BY <1>1, <1>3, <2>1 DEF StandsIn
  <2>3. NoneIntact(f)
    BY <2>2, NothingIntact DEF NoneIntact
  <2> QED
    BY <1>3, <2>3
<1>4. CASE saved_seq # 1
  <2>1. Intact(f[Spare]) /\ f[Spare].seq = saved_seq - 1
    BY <1>4 DEF StandsIn
  <2>2. f[Slot].seq # saved_seq - 1 \/ f[Slot].seq = 0
    BY <1>1 DEF OwnParity
  <2>3. Intact(f[Slot]) => f[Slot].seq < f[Spare].seq
    BY <1>1, <1>2, <1>4, <2>1, <2>2
  <2>4. IsLatest(f, Spare)
    BY <1>1, <2>1, <2>3, LatestIs DEF IsLatest
  <2> QED
    BY <1>4, <2>1, <2>4 DEF IsLatest
<1> QED
  BY <1>3, <1>4

LEMMA LoadsInSave ==
  ASSUME PortfolioTypes, saved_seq > 0, NEW f \in PortfolioFiles, OwnParity(f), StandsIn(f),
         f[Slot].head = tried \/ (Intact(f[Slot]) => f[Slot].seq < saved_seq)
  PROVE  Loaded(f).head \in {kept, tried}
<1>1. /\ saved_seq \in Nat \ {0} /\ Slot \in Slots /\ Spare \in Slots
      /\ \A s \in Slots : s \in {Slot, Spare}
  BY SlotsOfSave
<1>2. CASE Intact(f[Slot]) => f[Slot].seq < saved_seq
  <2>1. IF saved_seq = 1 THEN NoneIntact(f) ELSE IsLatest(f, Spare)
    BY <1>2, BehindSpare
  <2> QED
    BY <2>1 DEF NoneIntact, IsLatest, StandsIn
<1>3. CASE f[Slot].head = tried
  <2>1. CASE NoneIntact(f)
    BY <1>1, <2>1 DEF NoneIntact, StandsIn
  <2>2. ASSUME NEW s \in Slots, IsLatest(f, s) PROVE Loaded(f).head \in {kept, tried}
    <3>1. CASE s = Slot
      BY <1>3, <2>2, <3>1 DEF IsLatest
    <3>2. CASE s = Spare
      BY <2>2, <3>2 DEF IsLatest, StandsIn
    <3> QED
      BY <1>1, <3>1, <3>2
  <2> QED
    BY <2>1, <2>2, LoadFindsOne
<1> QED
  BY <1>2, <1>3

LEMMA StandsInFile == SpareStands <=> StandsIn(file)
BY DEF SpareStands, StandsIn

(* What the fields of the slot being written are after a store.            *)
Fields(number, length, head, tail, trailer) ==
  /\ file'[Slot].seq = number /\ file'[Slot].length = length
  /\ file'[Slot].head = head /\ file'[Slot].tail = tail /\ file'[Slot].trailer = trailer

Made(at, next, number, length, head, tail, trailer) ==
  store = at /\ store' = next /\ Fields(number, length, head, tail, trailer)

PutEffect ==
  LET old == file[Slot]
  IN  /\ host = "up" /\ store # "idle"
      /\ UNCHANGED <<platter, saved_seq, state, host, deaths, kept, tried, unflushed, exposed>>
      /\ file' \in PortfolioFiles /\ file'[Spare] = file[Spare]
      /\ \/ /\ Made("head", "tail", old.seq, old.length, state, old.tail, old.trailer)
            /\ IsLong(Length[state])
         \/ /\ Made("head", "trailer", old.seq, old.length, state, old.tail, old.trailer)
            /\ ~IsLong(Length[state])
         \/ Made("tail", "trailer", old.seq, old.length, old.head, state, old.trailer)
         \/ Made("trailer", "header", old.seq, old.length, old.head, old.tail, saved_seq)
         \/ Made("header", "length", saved_seq, old.length, old.head, old.tail, old.trailer)
         \/ Made("seq", "flush", saved_seq, old.length, old.head, old.tail, old.trailer)
         \/ Made("header", "seq", old.seq, Length[state], old.head, old.tail, old.trailer)
         \/ Made("length", "flush", old.seq, Length[state], old.head, old.tail, old.trailer)

LEMMA OnePut ==
  ASSUME PortfolioTypes, PutsMade, NEW at, NEW next, NEW slot \in PageSlot, at # "idle",
         Put(at, next, slot)
  PROVE  /\ host = "up" /\ store = at /\ store' = next /\ saved_seq > 0
         /\ UNCHANGED <<platter, saved_seq, state, host, deaths, kept, tried, unflushed, exposed>>
         /\ file' \in PortfolioFiles /\ file'[Slot] = slot /\ file'[Spare] = file[Spare]
<1>1. /\ host = "up" /\ store = at /\ store' = next /\ file' = [file EXCEPT ![Slot] = slot]
      /\ UNCHANGED <<platter, saved_seq, state, host, deaths, kept, tried, unflushed, exposed>>
  BY DEF Put
<1>2. saved_seq > 0
  BY <1>1 DEF PutsMade
<1>3. Slot \in Slots /\ Spare \in Slots /\ Spare # Slot
  BY <1>2, SlotsOfSave
<1>4. file \in [Slots -> PageSlot]
  BY DEF PortfolioTypes, PortfolioFiles
<1>5. file' \in [Slots -> PageSlot] /\ file'[Slot] = slot /\ file'[Spare] = file[Spare]
  BY <1>1, <1>3, <1>4
<1> QED
  BY <1>1, <1>2, <1>5 DEF PortfolioFiles

LEMMA PutsHave ==
  ASSUME PortfolioTypes, PutsMade,
         PutHead \/ PutTail \/ PutTrailer \/ PutSeq \/ PutLength
  PROVE  PutEffect
<1>0. store # "idle"
  BY DEF PutHead, PutTail, PutTrailer, PutSeq, PutLength, Put
<1>1. state \in States /\ saved_seq > 0
  BY <1>0 DEF PutsMade
<1>2. Slot \in Slots
  BY <1>1, SlotsOfSave
<1>3. file[Slot] \in PageSlot /\ saved_seq \in Nat
  BY <1>2 DEF PortfolioTypes, PortfolioFiles
<1>4. Length[state] \in Nat /\ state \in StateOrNone
  BY <1>1, PortfolioAssumption DEF StateOrNone
<1> DEFINE old == file[Slot]
           Rest == /\ host = "up" /\ store # "idle"
                   /\ UNCHANGED <<platter, saved_seq, state, host, deaths, kept, tried, unflushed, exposed>>
                   /\ file' \in PortfolioFiles /\ file'[Spare] = file[Spare]
<1>5. ASSUME NEW at, NEW next, NEW slot \in PageSlot, at # "idle", Put(at, next, slot)
      PROVE  Rest /\ store = at /\ store' = next /\ file'[Slot] = slot
  BY <1>5, OnePut
<1>6. CASE PutHead
  <2>0. [old EXCEPT !.head = state] \in PageSlot
    BY <1>3, <1>4 DEF PageSlot
  <2>1. ASSUME NEW next, Put("head", next, [old EXCEPT !.head = state])
        PROVE  Rest /\ Made("head", next, old.seq, old.length, state, old.tail, old.trailer)
    <3>1. Rest /\ store = "head" /\ store' = next /\ file'[Slot] = [old EXCEPT !.head = state]
      BY <1>5, <2>0, <2>1
    <3>2. Fields(old.seq, old.length, state, old.tail, old.trailer)
      BY <1>3, <3>1 DEF Fields, PageSlot
    <3> QED
      BY <3>1, <3>2 DEF Made
  <2>2. CASE IsLong(Length[state])
    <3>1. Put("head", "tail", [old EXCEPT !.head = state])
      BY <1>6, <2>2 DEF PutHead
    <3> QED
      BY <2>1, <2>2, <3>1 DEF PutEffect
  <2>3. CASE ~IsLong(Length[state])
    <3>1. Put("head", "trailer", [old EXCEPT !.head = state])
      BY <1>6, <2>3 DEF PutHead
    <3> QED
      BY <2>1, <2>3, <3>1 DEF PutEffect
  <2> QED
    BY <2>2, <2>3
<1>7. CASE PutTail
  <2>1. [old EXCEPT !.tail = state] \in PageSlot /\ Put("tail", "trailer", [old EXCEPT !.tail = state])
    BY <1>3, <1>4, <1>7 DEF PageSlot, PutTail
  <2>2. Rest /\ store = "tail" /\ store' = "trailer" /\ file'[Slot] = [old EXCEPT !.tail = state]
    BY <1>5, <2>1
  <2>3. Fields(old.seq, old.length, old.head, state, old.trailer)
    BY <1>3, <2>2 DEF Fields, PageSlot
  <2> QED
    BY <2>2, <2>3 DEF PutEffect, Made
<1>8. CASE PutTrailer
  <2>1. [old EXCEPT !.trailer = saved_seq] \in PageSlot
        /\ Put("trailer", "header", [old EXCEPT !.trailer = saved_seq])
    BY <1>3, <1>8 DEF PageSlot, PutTrailer
  <2>2. Rest /\ store = "trailer" /\ store' = "header" /\ file'[Slot] = [old EXCEPT !.trailer = saved_seq]
    BY <1>5, <2>1
  <2>3. Fields(old.seq, old.length, old.head, old.tail, saved_seq)
    BY <1>3, <2>2 DEF Fields, PageSlot
  <2> QED
    BY <2>2, <2>3 DEF PutEffect, Made
<1>9. CASE PutSeq
  <2>0. [old EXCEPT !.seq = saved_seq] \in PageSlot
    BY <1>3 DEF PageSlot
  <2>1. ASSUME NEW at, NEW next, at # "idle", Put(at, next, [old EXCEPT !.seq = saved_seq])
        PROVE  Rest /\ Made(at, next, saved_seq, old.length, old.head, old.tail, old.trailer)
    <3>1. Rest /\ store = at /\ store' = next /\ file'[Slot] = [old EXCEPT !.seq = saved_seq]
      BY <1>5, <2>0, <2>1
    <3>2. Fields(saved_seq, old.length, old.head, old.tail, old.trailer)
      BY <1>3, <3>1 DEF Fields, PageSlot
    <3> QED
      BY <3>1, <3>2 DEF Made
  <2>2. \/ Put("header", "length", [old EXCEPT !.seq = saved_seq])
        \/ Put("seq", "flush", [old EXCEPT !.seq = saved_seq])
    BY <1>9 DEF PutSeq
  <2>3. Rest /\ \/ Made("header", "length", saved_seq, old.length, old.head, old.tail, old.trailer)
                \/ Made("seq", "flush", saved_seq, old.length, old.head, old.tail, old.trailer)
    BY <2>1, <2>2
  <2> QED
    BY <2>3 DEF PutEffect
<1>10. CASE PutLength
  <2>0. [old EXCEPT !.length = Length[state]] \in PageSlot
    BY <1>3, <1>4 DEF PageSlot
  <2>1. ASSUME NEW at, NEW next, at # "idle", Put(at, next, [old EXCEPT !.length = Length[state]])
        PROVE  Rest /\ Made(at, next, old.seq, Length[state], old.head, old.tail, old.trailer)
    <3>1. Rest /\ store = at /\ store' = next /\ file'[Slot] = [old EXCEPT !.length = Length[state]]
      BY <1>5, <2>0, <2>1
    <3>2. Fields(old.seq, Length[state], old.head, old.tail, old.trailer)
      BY <1>3, <3>1 DEF Fields, PageSlot
    <3> QED
      BY <3>1, <3>2 DEF Made
  <2>2. \/ Put("header", "seq", [old EXCEPT !.length = Length[state]])
        \/ Put("length", "flush", [old EXCEPT !.length = Length[state]])
    BY <1>10 DEF PutLength
  <2>3. Rest /\ \/ Made("header", "seq", old.seq, Length[state], old.head, old.tail, old.trailer)
                \/ Made("length", "flush", old.seq, Length[state], old.head, old.tail, old.trailer)
    BY <2>1, <2>2
  <2> QED
    BY <2>3 DEF PutEffect
<1> QED
  BY <1>6, <1>7, <1>8, <1>9, <1>10

(* A store of a save keeps the invariant.                                  *)
LEMMA PutKeeps ==
  ASSUME PortfolioIInv, PutEffect
  PROVE  PortfolioIInv'
<1> USE DEF PortfolioIInv
<1>0. /\ host = "up" /\ store # "idle" /\ host' = "up" /\ store' \notin {"idle", "head"}
      /\ platter' = platter /\ saved_seq' = saved_seq /\ state' = state /\ deaths' = deaths
      /\ kept' = kept /\ tried' = tried /\ unflushed' = unflushed /\ exposed' = exposed
      /\ file' \in PortfolioFiles /\ file'[Spare] = file[Spare]
      /\ store' \in {"tail", "trailer", "header", "seq", "length", "flush"}
  BY DEF PutEffect, Made
<1>1. /\ state \in States /\ state = tried /\ saved_seq > 0
  BY <1>0 DEF PutsMade
<1>2. /\ saved_seq \in Nat \ {0} /\ Slot \in Slots /\ Spare \in Slots /\ Spare # Slot
      /\ \A s \in Slots : s \in {Slot, Spare}
      /\ saved_seq % 2 = Slot /\ Slot' = Slot /\ Spare' = Spare
  BY <1>0, <1>1, SlotsOfSave DEF Slot, Spare
<1>3. PortfolioTypes'
  BY <1>0 DEF PortfolioTypes
<1>4. PutsMade'
  BY <1>0, <1>1, <1>2 DEF PutsMade, PutEffect, Made, Fields
<1>5. OwnParity(file)' /\ OwnParity(platter)'
  <2>1. file'[Slot].seq = file[Slot].seq \/ file'[Slot].seq = saved_seq
    BY DEF PutEffect, Made, Fields
  <2>2. \A s \in Slots : file'[s].seq # 0 => file'[s].seq % 2 = s
    BY <1>0, <1>2, <2>1 DEF OwnParity
  <2> QED
    BY <1>0, <2>2 DEF OwnParity
<1>6. SpareStands' /\ SpareStands
  BY <1>0, <1>2 DEF Standing, SpareStands
<1>7. Standing'
  BY <1>0, <1>6 DEF Standing
<1>8. InOrder'
  <2>0. ASSUME ~exposed
        PROVE  /\ file[Spare].seq < saved_seq /\ (Intact(file[Spare]) => Whole(file[Spare]))
               /\ store \in {"head", "tail", "trailer", "header", "seq"} => file[Slot].seq < saved_seq
    BY <1>0, <2>0, Zenon DEF InOrder
  <2>1. ASSUME ~exposed, store' \in {"head", "tail", "trailer", "header", "seq"}
        PROVE  file'[Slot].seq < saved_seq
    <3>1. file'[Slot].seq = file[Slot].seq /\ store \in {"head", "tail", "trailer", "header", "seq"}
      BY <2>1 DEF PutEffect, Made, Fields
    <3> QED
      BY <2>0, <2>1, <3>1
  <2>2. ASSUME ~exposed
        PROVE  file'[Spare].seq < saved_seq /\ (Intact(file'[Spare]) => Whole(file'[Spare]))
    BY <1>0, <2>0, <2>2
  <2>3. store' # "idle"
    BY <1>0
  <2> QED
    BY <1>0, <1>2, <2>1, <2>2, <2>3, Zenon DEF InOrder
<1>9. OnDisk'
  <2>1. SlotIsTrieds(file)'
    BY <1>0, <1>1, <1>2, <1>4 DEF PutsMade, SlotIsTrieds
  <2>2. ASSUME ~unflushed, ~exposed PROVE MidSave'
    BY <1>0, <1>2, <1>6, <2>1, <2>2 DEF OnDisk, MidSave, SlotIsTrieds
  <2> QED
    BY <1>0, <2>2 DEF OnDisk
<1> QED
  BY <1>3, <1>4, <1>5, <1>7, <1>8, <1>9

(* A process stands at the newest intact slot, if there is one.            *)
LEMMA SaveKeeps ==
  ASSUME PortfolioIInv, SaveState
  PROVE  PortfolioIInv'
<1>0. /\ host = "up" /\ store = "idle" /\ state' \in States /\ Fits(state') /\ tried' = state'
      /\ saved_seq' = saved_seq + 1 /\ store' = "head" /\ host' = "up"
      /\ UNCHANGED <<file, platter, deaths, kept, unflushed, exposed>>
  BY DEF SaveState
<1>1. /\ PortfolioTypes /\ OwnParity(file) /\ OwnParity(platter)
      /\ file \in PortfolioFiles /\ platter \in PortfolioFiles
  BY DEF PortfolioIInv, PortfolioTypes
<1>2. saved_seq \in Nat /\ saved_seq = LatestSeq(file) /\ kept = Loaded(file).head
  BY <1>0 DEF PortfolioIInv, PortfolioTypes, Standing
<1>3. PortfolioTypes'
  BY <1>0, <1>1, <1>2 DEF PortfolioTypes, StateOrNone
<1>4. /\ saved_seq' \in Nat \ {0} /\ saved_seq' - 1 = saved_seq
      /\ Spare' = saved_seq % 2 /\ Slot' = 1 - (saved_seq % 2) /\ Spare' = 1 - Slot' /\ Slot' = 1 - Spare'
      /\ Slot' \in Slots /\ Spare' \in Slots
  <2>1. /\ saved_seq % 2 \in Slots /\ 1 - (saved_seq % 2) \in Slots
        /\ (saved_seq + 1) % 2 = 1 - (saved_seq % 2)
    BY <1>2, SlotNumbers
  <2>2. Slot' = 1 - (saved_seq % 2) /\ Spare' = 1 - Slot'
    BY <1>0, <2>1 DEF Slot, Spare
  <2>3. 1 - (1 - (saved_seq % 2)) = saved_seq % 2
    BY <2>1, OnlyTwoSlots
  <2> QED
    BY <1>0, <1>2, <2>1, <2>2, <2>3
<1>5. \/ saved_seq = 0 /\ NoneIntact(file)
      \/ saved_seq # 0 /\ IsLatest(file, Spare')
  <2>1. CASE NoneIntact(file)
    BY <1>2, <2>1 DEF NoneIntact
  <2>2. ASSUME NEW s \in Slots, IsLatest(file, s) PROVE saved_seq # 0 /\ IsLatest(file, Spare')
    <3>1. file[s].seq = saved_seq /\ Intact(file[s])
      BY <1>2, <2>2 DEF IsLatest
    <3>2. file[s].seq # 0
      BY <1>1, <3>1, IntactIs DEF PortfolioFiles
    <3>3. s = saved_seq % 2
      BY <1>1, <3>1, <3>2 DEF OwnParity
    <3> QED
      BY <1>4, <2>2, <3>1, <3>2, <3>3
  <2> QED
    BY <1>1, <2>1, <2>2, LoadFindsOne
<1>6. SpareStands'
  <2>1. CASE saved_seq = 0 /\ NoneIntact(file)
    BY <1>0, <1>2, <1>4, <2>1 DEF NoneIntact, SpareStands
  <2>2. CASE saved_seq # 0 /\ IsLatest(file, Spare')
    <3>1. saved_seq' # 1 /\ file' = file /\ kept' = kept
      BY <1>0, <1>2, <2>2
    <3>2. Intact(file[Spare']) /\ file[Spare'].seq = saved_seq' - 1 /\ kept = file[Spare'].head
      BY <1>2, <1>4, <2>2, Zenon DEF IsLatest
    <3> QED
      BY <3>1, <3>2 DEF SpareStands
  <2> QED
    BY <1>5, <2>1, <2>2
<1>7. Intact(file[Slot']) => file[Slot'].seq < saved_seq
  BY <1>2, <1>4, <1>5 DEF NoneIntact, IsLatest
<1>8. PutsMade'
  BY <1>0, <1>4 DEF PutsMade
<1>9. Standing'
  BY <1>0, <1>4, <1>6, <1>7 DEF Standing
<1>10. ASSUME ~exposed
       PROVE  /\ \A s \in Slots : file[s].seq < saved_seq'
              /\ Intact(file[Spare']) => Whole(file[Spare'])
  <2>1. (\A s \in Slots : file[s].seq <= saved_seq) /\ Loaded(file).head = Loaded(file).tail
    BY <1>0, <1>2, <1>10, Zenon DEF PortfolioIInv, InOrder
  <2>2. \A s \in Slots : file[s].seq \in Nat
    BY <1>1 DEF PortfolioFiles, PageSlot
  <2>3. \A s \in Slots : file[s].seq < saved_seq'
    BY <1>0, <1>2, <2>1, <2>2
  <2>4. Intact(file[Spare']) => Whole(file[Spare'])
    BY <1>4, <1>5, <2>1 DEF NoneIntact, IsLatest, TailLoaded, Whole
  <2> QED
    BY <2>3, <2>4
<1>11. InOrder'
  <2>1. store' # "idle" /\ file' = file /\ exposed' = exposed
    BY <1>0
  <2> QED
    BY <1>4, <1>10, <2>1, Zenon DEF InOrder
<1>12. OnDisk'
  <2>1. ASSUME ~unflushed, ~exposed PROVE MidSave'
    <3>1. platter = file
      BY <1>0, <2>1, Zenon DEF PortfolioIInv, OnDisk
    <3>2. file[Slot'].seq < saved_seq'
      BY <1>4, <1>10, <2>1
    <3> QED
      BY <1>0, <1>4, <1>6, <3>1, <3>2 DEF MidSave, SlotIsTrieds
  <2>2. store' = "head" /\ host' = "up" /\ exposed' = exposed /\ unflushed' = unflushed
    BY <1>0
  <2> QED
    BY <2>1, <2>2 DEF OnDisk
<1> QED
  BY <1>0, <1>1, <1>3, <1>8, <1>9, <1>11, <1>12 DEF PortfolioIInv

(* Once its header is whole, the slot being written is what load takes.    *)
LEMMA WrittenIsLatest ==
  ASSUME PortfolioTypes, PutsMade, SpareStands, store = "flush"
  PROVE  IsLatest(file, Slot) /\ file[Slot].seq = saved_seq /\ file[Slot].head = state /\ Whole(file[Slot])
         /\ file[Slot].head = tried
<1>1. state \in States /\ Fits(state) /\ state = tried /\ saved_seq > 0
  BY DEF PutsMade
<1>2. /\ saved_seq \in Nat \ {0} /\ Slot \in Slots /\ Spare \in Slots /\ 1 - Slot = Spare
  BY <1>1, SlotsOfSave
<1>3. /\ file[Slot].seq = saved_seq /\ file[Slot].trailer = saved_seq /\ file[Slot].head = state
      /\ file[Slot].length = Length[state] /\ (IsLong(Length[state]) => file[Slot].tail = state)
  BY DEF PutsMade
<1>4. state # NoState
  BY <1>1, PortfolioAssumption
<1>5. Intact(file[Slot]) /\ Whole(file[Slot])
  BY <1>1, <1>2, <1>3, <1>4 DEF Intact, Parses, Whole, Fits
<1>6. Intact(file[1 - Slot]) => file[1 - Slot].seq < file[Slot].seq
  BY <1>2, <1>3 DEF SpareStands
<1>7. file \in PortfolioFiles
  BY DEF PortfolioTypes
<1>8. IsLatest(file, Slot)
  BY <1>2, <1>5, <1>6, <1>7, LatestIs DEF IsLatest
<1> QED
  BY <1>1, <1>3, <1>5, <1>8

LEMMA FlushKeeps ==
  ASSUME PortfolioIInv, FlushReturns
  PROVE  PortfolioIInv'
<1>0. /\ host = "up" /\ store = "flush" /\ platter = file /\ store' = "idle" /\ state' = NoState
      /\ kept' = state /\ unflushed' = FALSE /\ host' = "up"
      /\ UNCHANGED <<file, platter, saved_seq, deaths, tried, exposed>>
  BY DEF FlushReturns
<1>1. /\ PortfolioTypes /\ OwnParity(file) /\ OwnParity(platter) /\ PutsMade /\ SpareStands
  BY <1>0 DEF PortfolioIInv, Standing
<1>2. /\ IsLatest(file, Slot) /\ file[Slot].seq = saved_seq /\ file[Slot].head = state /\ Whole(file[Slot])
  BY <1>0, <1>1, WrittenIsLatest
<1>3. /\ saved_seq \in Nat \ {0} /\ Slot \in Slots /\ \A s \in Slots : s \in {Slot, Spare}
  <2>1. saved_seq > 0
    BY <1>0, <1>1 DEF PutsMade
  <2> QED
    BY <1>1, <2>1, SlotsOfSave
<1>4. PortfolioTypes'
  BY <1>0, <1>1 DEF PortfolioTypes, StateOrNone
<1>5. LatestSeq(file) = saved_seq /\ Loaded(file).head = state /\ Loaded(file).head = Loaded(file).tail
  BY <1>2 DEF IsLatest, TailLoaded, Whole
<1>6. PutsMade' /\ Standing'
  BY <1>0, <1>5 DEF PutsMade, Standing
<1>7. InOrder'
  <2>1. ASSUME ~exposed PROVE \A s \in Slots : file[s].seq <= saved_seq
    <3>1. file[Spare].seq < saved_seq
      BY <1>0, <2>1 DEF PortfolioIInv, InOrder
    <3>2. \A s \in Slots : file[s].seq \in Nat
      BY <1>1 DEF PortfolioTypes, PortfolioFiles, PageSlot
    <3>3. \A s \in Slots : file[s].seq < saved_seq \/ file[s].seq = saved_seq
      BY <1>2, <1>3, <3>1
    <3> QED
      BY <1>3, <3>2, <3>3
  <2>2. store' = "idle" /\ file' = file /\ exposed' = exposed
    BY <1>0
  <2> QED
    BY <1>5, <2>1, <2>2 DEF InOrder
<1>8. OnDisk'
  BY <1>0 DEF OnDisk
<1> QED
  BY <1>0, <1>1, <1>4, <1>6, <1>7, <1>8 DEF PortfolioIInv

(* What a process leaves when it dies: between saves the state it stood    *)
(* at; during one the state of the save or the one before.                 *)
LEMMA DeathLoads ==
  ASSUME PortfolioIInv, host = "up"
  PROVE  Loaded(file).head \in {kept, tried}
<1>1. PortfolioTypes /\ OwnParity(file) /\ PutsMade /\ Standing /\ file \in PortfolioFiles
  BY DEF PortfolioIInv, PortfolioTypes
<1>2. CASE store = "idle"
  BY <1>1, <1>2 DEF Standing
<1>3. CASE store # "idle"
  <2>1. saved_seq > 0 /\ state = tried /\ StandsIn(file)
    BY <1>1, <1>3, StandsInFile DEF PutsMade, Standing
  <2>2. saved_seq \in Nat /\ Slot \in Slots
    BY <1>1, <2>1, SlotsOfSave
  <2>3. file[Slot].seq \in Nat
    BY <1>1, <2>2 DEF PortfolioFiles, PageSlot
  <2>4. file[Slot].head = tried \/ (Intact(file[Slot]) => file[Slot].seq < saved_seq)
    <3>1. CASE store = "head"
      BY <1>1, <2>2, <2>3, <3>1 DEF Standing
    <3>2. CASE store # "head"
      BY <1>1, <1>3, <2>1, <3>2 DEF PutsMade
    <3> QED
      BY <3>1, <3>2
  <2> QED
    BY <1>1, <2>1, <2>4, LoadsInSave
<1> QED
  BY <1>2, <1>3

(* Unless the header is half written, no slot is ahead of what load takes. *)
LEMMA DeathInOrder ==
  ASSUME PortfolioIInv, host = "up", ~exposed, store \notin {"seq", "length"}
  PROVE  /\ \A s \in Slots : file[s].seq <= LatestSeq(file)
         /\ Loaded(file).head = Loaded(file).tail
<1>1. PortfolioTypes /\ OwnParity(file) /\ PutsMade /\ Standing /\ file \in PortfolioFiles
  BY DEF PortfolioIInv, PortfolioTypes
<1>2. InOrder
  BY DEF PortfolioIInv
<1>3. CASE store = "idle"
  BY <1>2, <1>3, Zenon DEF InOrder
<1>4. CASE store # "idle"
  <2>1. saved_seq > 0 /\ SpareStands /\ StandsIn(file)
    BY <1>1, <1>4, StandsInFile DEF PutsMade, Standing
  <2>2. saved_seq \in Nat \ {0} /\ Slot \in Slots /\ \A s \in Slots : s \in {Slot, Spare}
    BY <1>1, <2>1, SlotsOfSave
  <2>3. \A s \in Slots : file[s].seq \in Nat
    BY <1>1 DEF PortfolioFiles, PageSlot
  <2>4. file[Spare].seq < saved_seq /\ (Intact(file[Spare]) => Whole(file[Spare]))
    BY <1>2, <1>4, Zenon DEF InOrder
  <2>5. CASE store = "flush"
    <3>1. IsLatest(file, Slot) /\ file[Slot].seq = saved_seq /\ Whole(file[Slot])
      BY <1>1, <2>1, <2>5, WrittenIsLatest
    <3>2. LatestSeq(file) = saved_seq /\ Loaded(file).head = Loaded(file).tail
      BY <3>1 DEF IsLatest, TailLoaded, Whole
    <3>3. \A s \in Slots : file[s].seq < saved_seq \/ file[s].seq = saved_seq
      BY <2>2, <2>4, <3>1
    <3> QED
      BY <2>2, <2>3, <3>2, <3>3
  <2>6. CASE store \in {"head", "tail", "trailer", "header"}
    <3>1. file[Slot].seq < saved_seq
      BY <1>2, <2>6 DEF InOrder
    <3>2. IF saved_seq = 1 THEN NoneIntact(file)
          ELSE IsLatest(file, Spare) /\ LatestSeq(file) = saved_seq - 1
      BY <1>1, <2>1, <3>1, BehindSpare
    <3>3. LatestSeq(file) = saved_seq - 1 /\ Loaded(file).head = Loaded(file).tail
      <4>1. CASE saved_seq = 1
        BY <3>2, <4>1 DEF NoneIntact
      <4>2. CASE saved_seq # 1
        BY <2>4, <3>2, <4>2 DEF IsLatest, TailLoaded, Whole
      <4> QED
        BY <4>1, <4>2
    <3>4. \A s \in Slots : file[s].seq < saved_seq
      BY <2>2, <2>4, <3>1
    <3> QED
      BY <2>2, <2>3, <3>3, <3>4
  <2> QED
    BY <1>1, <1>4, <2>5, <2>6 DEF PortfolioTypes
<1> QED
  BY <1>3, <1>4

LEMMA KillKeeps ==
  ASSUME PortfolioIInv, KillHost
  PROVE  PortfolioIInv'
<1>0. /\ host = "up" /\ host' = "killed" /\ store' = "idle" /\ state' = NoState
      /\ deaths' = deaths + 1 /\ file' = file
      /\ UNCHANGED <<platter, saved_seq, kept, tried, unflushed>>
      /\ exposed' = (exposed \/ store \in {"seq", "length"})
  BY DEF KillHost, Dies
<1>1. /\ PortfolioTypes /\ OwnParity(file) /\ OwnParity(platter) /\ OnDisk
  BY DEF PortfolioIInv
<1>2. PortfolioTypes'
  BY <1>0, <1>1 DEF PortfolioTypes, StateOrNone
<1>3. PutsMade'
  BY <1>0 DEF PutsMade
<1>4. Standing'
  <2>1. Loaded(file).head \in {kept, tried}
    BY <1>0, DeathLoads
  <2> QED
    BY <1>0, <2>1 DEF Standing
<1>5. exposed' = FALSE \/ exposed' = TRUE
  BY <1>0, Zenon
<1>6. ~exposed' => ~exposed /\ store \notin {"seq", "length"}
  BY <1>0, Zenon
<1>7. InOrder'
  <2>1. ASSUME ~exposed' PROVE /\ \A s \in Slots : file[s].seq <= LatestSeq(file)
                              /\ Loaded(file).head = Loaded(file).tail
    BY <1>0, <1>6, <2>1, DeathInOrder
  <2>2. store' = "idle" /\ file' = file
    BY <1>0
  <2> QED
    BY <2>1, <2>2 DEF InOrder
<1>8. OnDisk'
  <2>1. ASSUME ~unflushed, ~exposed' PROVE platter' = file' \/ MidSave'
    <3>1. CASE store = "idle"
      BY <1>0, <1>1, <1>6, <2>1, <3>1 DEF OnDisk
    <3>2. CASE store # "idle"
      <4>1. MidSave
        BY <1>1, <1>6, <2>1, <3>2, Zenon DEF OnDisk
      <4>2. MidSave'
        BY <1>0, <4>1 DEF MidSave, SpareStands, SlotIsTrieds, Spare, Slot
      <4> QED
        BY <4>2
    <3> QED
      BY <3>1, <3>2
  <2>2. host' = "killed" /\ store' = "idle" /\ unflushed' = unflushed
    BY <1>0
  <2> QED
    BY <2>1, <2>2 DEF OnDisk
<1> QED
  BY <1>0, <1>1, <1>2, <1>3, <1>4, <1>7, <1>8 DEF PortfolioIInv

LEMMA PowerKeeps ==
  ASSUME PortfolioIInv, CutPower
  PROVE  PortfolioIInv'
<1>0. /\ host = "up" /\ host' = "unpowered" /\ store' = "idle" /\ state' = NoState
      /\ deaths' = deaths + 1 /\ file' = platter
      /\ UNCHANGED <<platter, saved_seq, kept, tried, unflushed>>
      /\ exposed' = (exposed \/ store # "idle" \/ platter # file)
  BY DEF CutPower, Dies
<1>1. /\ PortfolioTypes /\ OwnParity(file) /\ OwnParity(platter) /\ Standing /\ InOrder
  BY DEF PortfolioIInv
<1>2. PortfolioTypes'
  BY <1>0, <1>1 DEF PortfolioTypes, StateOrNone
<1>3. PutsMade'
  BY <1>0 DEF PutsMade
<1>4. ~exposed' => ~exposed /\ store = "idle" /\ platter = file
  BY <1>0, Zenon
<1>5. Standing'
  <2>1. ASSUME ~exposed' PROVE Loaded(platter).head \in {kept, tried}
    BY <1>0, <1>4, <2>1, DeathLoads
  <2> QED
    BY <1>0, <2>1 DEF Standing
<1>6. InOrder'
  <2>1. ASSUME ~exposed' PROVE /\ \A s \in Slots : platter[s].seq <= LatestSeq(platter)
                              /\ Loaded(platter).head = Loaded(platter).tail
    BY <1>1, <1>4, <2>1, Zenon DEF InOrder
  <2>2. store' = "idle" /\ file' = platter
    BY <1>0
  <2> QED
    BY <2>1, <2>2 DEF InOrder
<1>7. OnDisk'
  <2>1. platter' = file' /\ store' = "idle" /\ host' = "unpowered"
    BY <1>0
  <2> QED
    BY <2>1 DEF OnDisk
<1> QED
  BY <1>0, <1>1, <1>2, <1>3, <1>5, <1>6, <1>7 DEF PortfolioIInv

LEMMA OpenKeeps ==
  ASSUME PortfolioIInv, OpenFile
  PROVE  PortfolioIInv'
<1>0. /\ host # "up" /\ host' = "up" /\ saved_seq' = LatestSeq(file)
      /\ kept' = Loaded(file).head /\ unflushed' = (platter # file)
      /\ UNCHANGED <<file, platter, store, state, deaths, tried, exposed>>
  BY DEF OpenFile
<1>1. /\ PortfolioTypes /\ OwnParity(file) /\ OwnParity(platter) /\ PutsMade /\ InOrder
      /\ file \in PortfolioFiles
  BY DEF PortfolioIInv, PortfolioTypes
<1>2. store = "idle"
  BY <1>0, <1>1 DEF PutsMade
<1>3. LatestSeq(file) \in Nat /\ Loaded(file).head \in StateOrNone
  <2>1. CASE NoneIntact(file)
    BY <2>1 DEF NoneIntact, StateOrNone
  <2>2. ASSUME NEW s \in Slots, IsLatest(file, s)
        PROVE  LatestSeq(file) \in Nat /\ Loaded(file).head \in StateOrNone
    BY <1>1, <2>2 DEF IsLatest, PortfolioFiles, PageSlot
  <2> QED
    BY <1>1, <2>1, <2>2, LoadFindsOne
<1>4. PortfolioTypes'
  BY <1>0, <1>1, <1>3 DEF PortfolioTypes
<1>5. PutsMade' /\ Standing'
  BY <1>0, <1>2 DEF PutsMade, Standing
<1>6. InOrder'
  <2>1. store' = "idle" /\ file' = file /\ exposed' = exposed
    BY <1>0, <1>2
  <2> QED
    BY <1>1, <1>2, <2>1, Zenon DEF InOrder
<1>7. OnDisk'
  <2>1. ~unflushed' => platter' = file'
    BY <1>0, Zenon
  <2>2. store' = "idle" /\ host' = "up"
    BY <1>0, <1>2
  <2> QED
    BY <2>1, <2>2 DEF OnDisk
<1> QED
  BY <1>0, <1>1, <1>4, <1>5, <1>6, <1>7 DEF PortfolioIInv

(* A page written back leaves, in each slot, the disk's sequence with the  *)
(* disk's head or the mapping's with the mapping's: they share a page.     *)
PageOf(s) ==
  /\ platter'[s] \in PageSlot
  /\ \/ platter'[s].seq = platter[s].seq /\ platter'[s].head = platter[s].head
     \/ platter'[s].seq = file[s].seq /\ platter'[s].head = file[s].head
  /\ platter[s] = file[s] => platter'[s] = file[s]

LEMMA PagesWritten ==
  ASSUME PortfolioTypes, WriteBack
  PROVE  /\ UNCHANGED <<file, saved_seq, store, state, host, deaths, kept, tried, unflushed, exposed>>
         /\ platter' \in PortfolioFiles /\ PageOf(0) /\ PageOf(1)
<1>0. UNCHANGED <<file, saved_seq, store, state, host, deaths, kept, tried, unflushed, exposed>>
  BY DEF WriteBack, WritePage
<1>1. file \in [Slots -> PageSlot] /\ platter \in [Slots -> PageSlot] /\ 0 \in Slots /\ 1 \in Slots
  BY DEF PortfolioTypes, PortfolioFiles, Slots
<1>2. file[0] \in PageSlot /\ file[1] \in PageSlot /\ platter[0] \in PageSlot /\ platter[1] \in PageSlot
  BY <1>1
<1> DEFINE Page(s, slot) ==
             /\ slot \in PageSlot
             /\ \/ slot.seq = platter[s].seq /\ slot.head = platter[s].head
                \/ slot.seq = file[s].seq /\ slot.head = file[s].head
             /\ platter[s] = file[s] => slot = file[s]
<1>3. ASSUME NEW s \in Slots
      PROVE  /\ Page(s, platter[s]) /\ Page(s, Front(s))
             /\ Page(s, [platter[s] EXCEPT !.tail = file[s].tail])
             /\ Page(s, [platter[s] EXCEPT !.trailer = file[s].trailer])
  <2>1. file[s] \in PageSlot /\ platter[s] \in PageSlot
    BY <1>1
  <2>2. Page(s, platter[s])
    BY <2>1
  <2>3. Page(s, Front(s))
    BY <2>1 DEF PageSlot, Front
  <2>4. Page(s, [platter[s] EXCEPT !.tail = file[s].tail])
    BY <2>1 DEF PageSlot
  <2>5. Page(s, [platter[s] EXCEPT !.trailer = file[s].trailer])
    BY <2>1 DEF PageSlot
  <2> QED
    BY <2>2, <2>3, <2>4, <2>5
<1>4. PICK zero, one : WritePage(zero, one) /\ Page(0, zero) /\ Page(1, one)
  <2> HIDE DEF Page
  <2>1. ASSUME NEW s \in Slots
        PROVE  /\ Page(s, platter[s]) /\ Page(s, Front(s))
               /\ Page(s, [platter[s] EXCEPT !.tail = file[s].tail])
               /\ Page(s, [platter[s] EXCEPT !.trailer = file[s].trailer])
    BY <1>3
  <2> QED
    BY <1>1, <2>1 DEF WriteBack
<1>5. platter' = [platter EXCEPT ![0] = zero, ![1] = one]
  BY <1>4 DEF WritePage
<1>6. platter'[0] = zero /\ platter'[1] = one /\ platter' \in [Slots -> PageSlot]
  BY <1>1, <1>4, <1>5
<1> QED
  BY <1>0, <1>4, <1>6 DEF PageOf, PortfolioFiles

LEMMA PageWriteKeeps ==
  ASSUME PortfolioIInv, WriteBack
  PROVE  PortfolioIInv'
<1>1. /\ PortfolioTypes /\ OwnParity(file) /\ OwnParity(platter)
      /\ file \in PortfolioFiles /\ platter \in PortfolioFiles
  BY DEF PortfolioIInv, PortfolioTypes
<1>2. /\ UNCHANGED <<file, saved_seq, store, state, host, deaths, kept, tried, unflushed, exposed>>
      /\ platter' \in PortfolioFiles
  BY <1>1, PagesWritten
<1>3. \A s \in Slots : PageOf(s)
  <2>1. PageOf(0) /\ PageOf(1)
    BY <1>1, PagesWritten
  <2> QED
    BY <2>1 DEF Slots
<1>4. PortfolioTypes' /\ PutsMade'
  BY <1>2 DEF PortfolioIInv, PortfolioTypes, PutsMade, Slot
<1>5. OwnParity(platter)' /\ OwnParity(file)'
  <2>1. \A s \in Slots : platter'[s].seq # 0 => platter'[s].seq % 2 = s
    BY <1>1, <1>3 DEF OwnParity, PageOf
  <2> QED
    BY <1>1, <1>2, <2>1 DEF OwnParity
<1>6. Standing'
  BY <1>2 DEF PortfolioIInv, Standing, SpareStands, Spare, Slot
<1>7. InOrder'
  BY <1>2 DEF PortfolioIInv, InOrder, Spare, Slot
<1>8. MidSave => MidSave'
  <2> SUFFICES ASSUME MidSave PROVE MidSave'
    OBVIOUS
  <2>1. Slot \in Slots /\ Spare \in Slots /\ Slot' = Slot /\ Spare' = Spare
    BY <1>1, <1>2, SlotsOfSave DEF MidSave, Slot, Spare
  <2>2. platter'[Spare] = file[Spare]
    BY <1>3, <2>1 DEF MidSave, PageOf
  <2>3. SlotIsTrieds(platter')
    BY <1>3, <2>1 DEF MidSave, PageOf, SlotIsTrieds
  <2>4. SpareStands'
    BY <1>2, <2>1 DEF MidSave, SpareStands
  <2> QED
    BY <1>2, <2>1, <2>2, <2>3, <2>4 DEF MidSave, SlotIsTrieds
<1>9. platter = file => platter' = file'
  <2> SUFFICES ASSUME platter = file PROVE platter' = file
    BY <1>2
  <2>1. \A s \in Slots : platter'[s] = file[s]
    BY <1>3 DEF PageOf
  <2> QED
    BY <1>1, <1>2, <2>1 DEF PortfolioFiles
<1>10. OnDisk'
  BY <1>2, <1>8, <1>9 DEF PortfolioIInv, OnDisk
<1> QED
  BY <1>4, <1>5, <1>6, <1>7, <1>10 DEF PortfolioIInv

LEMMA PortfolioInvariant == PortfolioSpec => []PortfolioIInv
<1>1. PortfolioInit => PortfolioIInv
  <2> SUFFICES ASSUME PortfolioInit PROVE PortfolioIInv
    OBVIOUS
  <2>1. /\ file = [s \in Slots |-> BlankSlot] /\ platter = file
        /\ saved_seq = 0 /\ store = "idle" /\ state = NoState /\ host = "up" /\ deaths = 0
        /\ kept = NoState /\ tried = NoState
    BY DEF PortfolioInit, Slots
  <2>2. BlankSlot \in PageSlot /\ BlankSlot.seq = 0 /\ ~Intact(BlankSlot)
    BY DEF BlankSlot, PageSlot, StateOrNone, Intact
  <2>3. file \in PortfolioFiles /\ \A s \in Slots : file[s].seq = 0 /\ ~Intact(file[s])
    BY <2>1, <2>2 DEF PortfolioFiles
  <2>4. LatestSeq(file) = 0 /\ Loaded(file).head = NoState /\ Loaded(file).tail = NoState
    BY <2>3, NothingIntact
  <2>5. PortfolioTypes /\ OwnParity(file) /\ OwnParity(platter) /\ PutsMade
    BY <2>1, <2>3 DEF PortfolioTypes, StateOrNone, OwnParity, PutsMade
  <2>6. Standing /\ InOrder /\ OnDisk
    BY <2>1, <2>3, <2>4 DEF Standing, InOrder, OnDisk
  <2> QED
    BY <2>5, <2>6 DEF PortfolioIInv
<1>2. PortfolioIInv /\ [PortfolioNext]_portfolioVars => PortfolioIInv'
  <2> SUFFICES ASSUME PortfolioIInv, [PortfolioNext]_portfolioVars PROVE PortfolioIInv'
    OBVIOUS
  <2>1. CASE PutHead \/ PutTail \/ PutTrailer \/ PutSeq \/ PutLength
    <3>1. PutEffect
      BY <2>1, PutsHave DEF PortfolioIInv
    <3> QED
      BY <3>1, PutKeeps
  <2>2. CASE UNCHANGED portfolioVars
    BY <2>2 DEF portfolioVars, PortfolioIInv, PortfolioTypes, OwnParity, PutsMade, Standing, InOrder,
                OnDisk, MidSave, SlotIsTrieds, SpareStands, Spare, Slot
  <2> QED
    BY <2>1, <2>2, SaveKeeps, FlushKeeps, PageWriteKeeps, KillKeeps, PowerKeeps, OpenKeeps
       DEF PortfolioNext
<1> QED
  BY <1>1, <1>2, PTL DEF PortfolioSpec

(* state.py: load() begins with the state of the last save that returned   *)
(* or of the one under way, for any states and lengths, any number of      *)
(* saves, kills and power losses, and pages written back in any order, but *)
(* for the failures the property names.                                    *)
THEOREM LoadsTheorem == PortfolioSpec => []LoadsKeptOrTried
<1>1. PortfolioIInv => LoadsKeptOrTried
  <2> SUFFICES ASSUME PortfolioIInv PROVE LoadsKeptOrTried
    OBVIOUS
  <2>1. /\ PortfolioTypes /\ OwnParity(file) /\ OwnParity(platter) /\ Standing /\ OnDisk
        /\ platter \in PortfolioFiles
    BY DEF PortfolioIInv, PortfolioTypes
  <2>2. ASSUME host # "unpowered" PROVE Loaded(file).head \in {kept, tried}
    <3>1. CASE host = "up"
      BY <3>1, DeathLoads
    <3>2. CASE host = "killed"
      BY <2>1, <3>2 DEF Standing
    <3> QED
      BY <2>1, <2>2, <3>1, <3>2 DEF PortfolioTypes
  <2>3. ASSUME MidSave PROVE Loaded(platter).head \in {kept, tried}
    <3>1. saved_seq > 0 /\ StandsIn(platter)
      BY <2>3 DEF MidSave, SpareStands, StandsIn
    <3>2. platter[Slot].head = tried \/ (Intact(platter[Slot]) => platter[Slot].seq < saved_seq)
      BY <2>3 DEF MidSave, SlotIsTrieds
    <3> QED
      BY <2>1, <3>1, <3>2, LoadsInSave
  <2>4. ASSUME ~unflushed, ~exposed PROVE Loaded(platter).head \in {kept, tried}
    <3>1. Loaded(file).head \in {kept, tried}
      <4>1. CASE host = "unpowered"
        BY <2>1, <2>4, <4>1 DEF Standing
      <4> QED
        BY <2>2, <4>1
    <3>2. platter = file \/ MidSave
      BY <2>1, <2>4, Zenon DEF OnDisk
    <3> QED
      BY <2>3, <3>1, <3>2
  <2> QED
    BY <2>2, <2>4 DEF LoadsKeptOrTried
<1> QED
  BY <1>1, PortfolioInvariant, PTL

(* state.py's "torn-write discipline": load() never returns the halves of  *)
(* two states, but after a kill between the two stores of a header or a    *)
(* power loss during a save, and then only of states longer than a page.   *)
THEOREM WholeStatesTheorem == PortfolioSpec => []LoadsWholeStates
<1>1. PortfolioIInv => LoadsWholeStates
  <2> SUFFICES ASSUME PortfolioIInv, Loaded(file).head # Loaded(file).tail
               PROVE  exposed /\ IsLong(Length[Loaded(file).head])
    BY DEF LoadsWholeStates
  <2>1. PortfolioTypes /\ OwnParity(file) /\ PutsMade /\ Standing /\ InOrder /\ file \in PortfolioFiles
    BY DEF PortfolioIInv, PortfolioTypes
  <2>2. PICK s \in Slots : IsLatest(file, s)
    BY <2>1, LoadFindsOne DEF NoneIntact
  <2>3. ~Whole(file[s]) /\ Intact(file[s]) /\ Loaded(file).head = file[s].head
    BY <2>2 DEF IsLatest, TailLoaded, Whole
  <2>4. IsLong(Length[Loaded(file).head])
    BY <2>1, <2>3, IntactIs DEF Whole, PortfolioFiles
  <2>5. ASSUME ~exposed PROVE FALSE
    <3>1. store # "idle"
      BY <2>1, <2>5, Zenon DEF InOrder
    <3>2. /\ saved_seq > 0 /\ state \in States /\ SpareStands /\ StandsIn(file)
      BY <2>1, <3>1, StandsInFile DEF PutsMade, Standing
    <3>3. Intact(file[Spare]) => Whole(file[Spare])
      BY <2>1, <2>5, <3>1, Zenon DEF InOrder
    <3>4. s = Slot /\ Slot \in Slots
      BY <2>1, <2>2, <2>3, <3>2, <3>3, SlotsOfSave
    <3>5. ~(file[Slot].seq < saved_seq)
      <4>1. ASSUME file[Slot].seq < saved_seq PROVE FALSE
        <5>1. IF saved_seq = 1 THEN NoneIntact(file) ELSE IsLatest(file, Spare)
          BY <2>1, <3>2, <4>1, BehindSpare
        <5>2. ~NoneIntact(file)
          BY <2>2 DEF NoneIntact, IsLatest
        <5>3. Intact(file[Spare]) /\ Loaded(file).head = file[Spare].head /\ Loaded(file).tail = TailLoaded(file[Spare])
          BY <5>1, <5>2 DEF IsLatest
        <5> QED
          BY <3>3, <5>3 DEF Whole, TailLoaded
      <4> QED
        BY <4>1
    <3>6. store \in {"length", "flush"}
      BY <2>1, <2>5, <3>1, <3>5 DEF InOrder, PortfolioTypes
    <3>7. file[Slot].head = state /\ (IsLong(Length[state]) => file[Slot].tail = state)
      BY <2>1, <3>6 DEF PutsMade
    <3>8. IsLong(file[Slot].length) => IsLong(Length[state])
      BY <2>1, <2>3, <3>4, <3>7, IntactIs DEF PortfolioFiles
    <3> QED
      BY <2>3, <3>4, <3>7, <3>8 DEF Whole
  <2> QED
    BY <2>4, <2>5
<1> QED
  BY <1>1, PortfolioInvariant, PTL
=============================================================================
