---------------------------- MODULE CoinbaseFeed ----------------------------
(***************************************************************************)
(* The Coinbase market-data task of one instrument                         *)
(* (python/meanrev/exchanges/coinbase_cex.py, stream_market_data and       *)
(* _dispatch), against a venue that sends, on every connection, numbered   *)
(* messages: one snapshot of the book, then the changes in order.          *)
(*                                                                         *)
(* The venue's book is its version number; every change makes the next     *)
(* version.  The local book is the version it equals, Empty after a clear, *)
(* or Wrong once it equals no version the venue has had.                   *)
(***************************************************************************)
EXTENDS Integers, Sequences, SequencesExt

CONSTANTS
  MaxVersion,    \* bound: changes of the venue's book
  MaxTrades,     \* bound: trade reports come among that many first messages
  MaxFaults,     \* bound: faults of the network and the venue
  MaxChannel,    \* bound: messages in flight
  Faults         \* which faults a run explores

FaultKinds == {"lose", "lose_blind", "duplicate", "unnumbered", "error", "close"}

ASSUME FeedAssumption ==
  /\ MaxVersion \in Nat /\ MaxTrades \in Nat /\ MaxFaults \in Nat /\ MaxChannel \in Nat \ {0}
  /\ Faults \subseteq FaultKinds

VARIABLES
  link,       \* "connecting", "open", "closed" (by the venue), "backoff"
  channel,    \* messages in flight on this connection, oldest first
  next_seq,   \* the venue's next sequence_num on this connection
  version,    \* the venue's book
  sent,       \* the version the venue last sent on this connection, NoSeq before the snapshot
  last_seq,   \* last_seq, NoSeq for None
  book,       \* the local book
  faults      \* faults so far

vars == <<link, channel, next_seq, version, sent, last_seq, book, faults>>

NoSeq == -1
Empty == -1
Wrong == -2
Versions == 0..MaxVersion
Fault(kind) == kind \in Faults /\ faults < MaxFaults /\ faults' = faults + 1

Message(seq, kind, v) == [seq |-> seq, kind |-> kind, version |-> v]
Messages ==
  [seq : Int, kind : {"snapshot", "update", "trades"}, version : Versions]

TypeOK ==
  /\ link \in {"connecting", "open", "closed", "backoff"}
  /\ channel \in Seq(Messages) /\ Len(channel) <= MaxChannel
  /\ next_seq \in Nat
  /\ version \in Versions /\ sent \in Versions \cup {NoSeq}
  /\ last_seq \in Nat \cup {NoSeq}
  /\ book \in Versions \cup {Empty, Wrong}
  /\ faults \in 0..MaxFaults

Init ==
  /\ link = "connecting" /\ channel = <<>> /\ next_seq = 0
  /\ version = 0 /\ sent = NoSeq
  /\ last_seq = NoSeq /\ book = Empty /\ faults = 0

(* The number read before message k will be.                               *)
SeqBefore(k) == IF k = 1 THEN last_seq ELSE channel[k - 1].seq

(***************************************************************************)
(* The venue and the network.                                              *)
(***************************************************************************)
VenueMoves ==
  /\ version < MaxVersion
  /\ version' = version + 1
  /\ UNCHANGED <<link, channel, next_seq, sent, last_seq, book, faults>>

(* The book channel opens with the snapshot and sends a change for every   *)
(* later version.  Trade reports share its numbering; beyond the bound one *)
(* still follows every lost message, because the market goes on trading.   *)
VenueSends ==
  /\ link = "open" /\ Len(channel) < MaxChannel
  /\ \/ /\ next_seq < MaxTrades \/ SeqBefore(Len(channel) + 1) # next_seq - 1
        /\ channel' = Append(channel, Message(next_seq, "trades", 0))
        /\ UNCHANGED sent
     \/ /\ sent = NoSeq
        /\ sent' = version
        /\ channel' = Append(channel, Message(next_seq, "snapshot", version))
     \/ /\ sent # NoSeq /\ sent < version
        /\ sent' = sent + 1
        /\ channel' = Append(channel, Message(next_seq, "update", sent + 1))
  /\ next_seq' = next_seq + 1
  /\ UNCHANGED <<link, version, last_seq, book, faults>>

(* What tells the adapter of the loss of message k are the numbers on both *)
(* sides of it: an unnumbered neighbour, or none before it, hides the loss. *)
(* Such a loss is a fault of its own, "lose_blind".                        *)
Unnoticed(k) ==
  \/ SeqBefore(k) = NoSeq
  \/ k < Len(channel) /\ channel[k + 1].seq = NoSeq

Lose ==
  /\ \E k \in DOMAIN channel :
       /\ Fault(IF Unnoticed(k) THEN "lose_blind" ELSE "lose")
       /\ channel' = RemoveAt(channel, k)
  /\ UNCHANGED <<link, next_seq, version, sent, last_seq, book>>

(* A message without a sequence number; sent right after a lost one it     *)
(* hides that loss as well.                                                *)
VenueSendsUnnumbered ==
  /\ link = "open" /\ Len(channel) < MaxChannel
  /\ "lose_blind" \in Faults \/ SeqBefore(Len(channel) + 1) \in {NoSeq, next_seq - 1}
  /\ Fault("unnumbered")
  /\ channel' = Append(channel, Message(NoSeq, "trades", 0))
  /\ UNCHANGED <<link, next_seq, version, sent, last_seq, book>>

Duplicate ==
  /\ Len(channel) < MaxChannel
  /\ Fault("duplicate")
  /\ \E k \in DOMAIN channel : channel' = InsertAt(channel, k, channel[k])
  /\ UNCHANGED <<link, next_seq, version, sent, last_seq, book>>

(* Connecting, reading or dispatching raises: what is in flight is lost,    *)
(* the book is dropped and the task waits a second.                        *)
Break ==
  /\ link # "backoff" /\ Fault("error")
  /\ link' = "backoff" /\ channel' = <<>>
  /\ book' = Empty
  /\ UNCHANGED <<next_seq, version, sent, last_seq>>

(* The venue closes the connection in good order, after its last message.  *)
VenueCloses ==
  /\ link = "open" /\ Fault("close")
  /\ link' = "closed"
  /\ UNCHANGED <<channel, next_seq, version, sent, last_seq, book>>

(***************************************************************************)
(* The adapter.                                                            *)
(***************************************************************************)
Connect ==
  /\ link \in {"connecting", "backoff"}
  /\ link' = "open" /\ channel' = <<>> /\ next_seq' = 0 /\ sent' = NoSeq
  /\ last_seq' = NoSeq
  /\ UNCHANGED <<version, book, faults>>

(* Variants of Gap: only a jump ahead is a gap; only a repeat is one.      *)
GapAheadOnly(msg) == last_seq # NoSeq /\ msg.seq > last_seq + 1
GapBackOnly(msg) == last_seq # NoSeq /\ msg.seq # NoSeq /\ msg.seq <= last_seq

Gap(msg) == last_seq # NoSeq /\ msg.seq \notin {NoSeq, last_seq + 1}

(* Variant of Dispatched: a snapshot is laid over the levels already there. *)
DispatchedOnTop(msg) ==
  CASE msg.kind = "snapshot" -> IF book \in {Empty, msg.version} THEN msg.version ELSE Wrong
    [] msg.kind = "update"   -> IF book = msg.version - 1 THEN msg.version ELSE Wrong
    [] OTHER                 -> book

(* What a message makes of the local book: a snapshot replaces it, a       *)
(* change is right only on top of the version before it.                   *)
Dispatched(msg) ==
  CASE msg.kind = "snapshot" -> msg.version
    [] msg.kind = "update"   -> IF book = msg.version - 1 THEN msg.version ELSE Wrong
    [] OTHER                 -> book

Readable == link \in {"open", "closed"} /\ channel # <<>>

(* Variant of ReadGap: drop the book and read on.                          *)
ReadGapAndStay ==
  /\ Readable /\ Gap(Head(channel))
  /\ book' = Empty
  /\ last_seq' = Head(channel).seq /\ channel' = Tail(channel)
  /\ UNCHANGED <<link, next_seq, version, sent, faults>>

(* A gap: drop the book, leave the connection, connect again at once.      *)
ReadGap ==
  /\ Readable /\ Gap(Head(channel))
  /\ book' = Empty
  /\ link' = "connecting" /\ channel' = <<>>
  /\ UNCHANGED <<next_seq, version, sent, last_seq, faults>>

ReadMessage ==
  /\ Readable /\ ~Gap(Head(channel))
  /\ last_seq' = Head(channel).seq
  /\ book' = Dispatched(Head(channel))
  /\ channel' = Tail(channel)
  /\ UNCHANGED <<link, next_seq, version, sent, faults>>

(* Variant of ReadEnd: the task ends with the connection.                  *)
ReadEndForGood ==
  /\ link = "closed" /\ channel = <<>>
  /\ link' = "ended"
  /\ UNCHANGED <<channel, next_seq, version, sent, last_seq, book, faults>>

(* The iteration over a closed connection ends without an exception: the   *)
(* task connects again, and the book stays as it was.                      *)
ReadEnd ==
  /\ link = "closed" /\ channel = <<>>
  /\ link' = "connecting"
  /\ UNCHANGED <<channel, next_seq, version, sent, last_seq, book, faults>>

Adapter == Connect \/ ReadGap \/ ReadMessage \/ ReadEnd
Venue == VenueMoves \/ VenueSends
Network == VenueSendsUnnumbered \/ Lose \/ Duplicate \/ Break \/ VenueCloses

Next == Adapter \/ Venue \/ Network

Spec == Init /\ [][Next]_vars

(* The adapter's task keeps running and the venue keeps sending.           *)
FairSpec == Spec /\ WF_vars(Adapter) /\ WF_vars(VenueSends)

(***************************************************************************)
(* Properties.                                                             *)
(***************************************************************************)

(* No book the venue never had: a message lost between two numbered ones, *)
(* repeated or cut off by a break never leaves changes applied on the      *)
(* wrong base, in whatever order losses, repeats and breaks come.          *)
BookNeverWrong == book # Wrong

(* While a connection is read, a book that is shown misses nothing that    *)
(* was sent: with no message in flight it is the version last sent.        *)
BookFollowsChannel ==
  link = "open" /\ book # Empty /\ last_seq # NoSeq /\ channel = <<>> /\ next_seq = last_seq + 1
    => book = sent \/ sent = NoSeq

(* A book that was dropped comes back: whatever interrupts a resync, the   *)
(* task reaches a snapshot in the end and shows a book of the venue's.     *)
EventuallyResynced == (book = Empty) ~> (book \in Versions)
=============================================================================
