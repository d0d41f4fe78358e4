------------------------- MODULE CoinbaseFeedProofs -------------------------
(***************************************************************************)
(* Proofs about CoinbaseFeed: for any length of the venue's history, any   *)
(* number of trades and faults and any number of messages in flight.       *)
(***************************************************************************)
EXTENDS CoinbaseFeed, DataLemmas, TLAPS

(***************************************************************************)
(* The inductive invariant.                                                *)
(***************************************************************************)

(* A message has a sequence number of the venue's, or none.                *)
Numbered == \A k \in 1..Len(channel) : channel[k].seq \in Nat \cup {NoSeq}

FeedTypes == TypeOK /\ Numbered

(* What message number n says, if log[n] is the version that was sent with *)
(* it or last before it.                                                   *)
Says(msg, n, log) ==
  \/ msg.kind = "snapshot" /\ msg.version = log[n]
  \/ msg.kind = "update" /\ msg.version = log[n] /\ msg.version > 0 /\ msg.version - 1 = log[n - 1]
  \/ msg.kind = "trades" /\ log[n] = log[n - 1]

Logs == [Int -> Versions \cup {NoSeq}]

(* The place of every message in flight among those the venue sent on this *)
(* connection: at[k] is the number of message k, or of the last numbered   *)
(* one before it.  at[0] is the place of the message read last.  Around an *)
(* unnumbered message, where the adapter cannot notice it, nothing is lost.*)
Placed(log, at) ==
  /\ log[next_seq - 1] = sent
  /\ \A k \in 0..Len(channel) : at[k] < next_seq
  /\ last_seq \in {NoSeq, at[0]}
  /\ \A k \in 1..Len(channel) :
       IF channel[k].seq = NoSeq
       THEN at[k] = at[k - 1] /\ channel[k].kind = "trades"
       ELSE /\ at[k] = channel[k].seq /\ Says(channel[k], at[k], log)
            /\ SeqBefore(k) = NoSeq => at[k] = at[k - 1] + 1
  /\ SeqBefore(Len(channel) + 1) = NoSeq => at[Len(channel)] = next_seq - 1

(* The local book is the one the venue had sent when it sent what was read *)
(* last; before the snapshot is read, it is what it was.                   *)
BookAt(log, at) == log[at[0]] # NoSeq => book = log[at[0]]

ConnectionInv ==
  \E log \in Logs, at \in [0..Len(channel) -> Int] : Placed(log, at) /\ BookAt(log, at)

FeedIInv ==
  /\ FeedTypes /\ book # Wrong
  /\ link \in {"open", "closed"} => ConnectionInv

LEMMA ChannelFacts ==
  ASSUME FeedTypes
  PROVE  /\ channel \in Seq(Messages) /\ Len(channel) \in Nat
         /\ \A k \in 1..Len(channel) : /\ channel[k] \in Messages
                                       /\ channel[k].seq \in Nat \cup {NoSeq}
                                       /\ channel[k].version \in Versions
         /\ next_seq \in Nat /\ last_seq \in Nat \cup {NoSeq} /\ MaxChannel \in Nat
<1>1. channel \in Seq(Messages)
  BY DEF FeedTypes, TypeOK
<1>2. Len(channel) \in Nat /\ \A k \in 1..Len(channel) : channel[k] \in Messages
  BY <1>1, ElementOfSeq
<1>3. \A m \in Messages : m.version \in Versions
  BY DEF Messages
<1> QED
  BY <1>1, <1>2, <1>3, FeedAssumption DEF FeedTypes, TypeOK, Numbered

(***************************************************************************)
(* Types.                                                                  *)
(***************************************************************************)
LEMMA FeedInitially == Init => FeedIInv
<1> SUFFICES ASSUME Init PROVE FeedIInv
  OBVIOUS
<1>1. channel = <<>> /\ channel \in Seq(Messages) /\ Len(channel) = 0
  BY EmptySeq DEF Init
<1>2. FeedTypes
  BY <1>1, FeedAssumption DEF Init, FeedTypes, TypeOK, Numbered, Versions, Empty, NoSeq
<1> QED
  BY <1>2 DEF Init, FeedIInv, Empty, Wrong

(* One more message at the end of the channel.                             *)
LEMMA SentTypes ==
  ASSUME FeedTypes, Len(channel) < MaxChannel, NEW msg \in Messages, msg.seq \in Nat \cup {NoSeq},
         channel' = Append(channel, msg)
  PROVE  /\ channel' \in Seq(Messages) /\ Len(channel') = Len(channel) + 1
         /\ Len(channel') <= MaxChannel /\ Numbered'
         /\ channel'[Len(channel) + 1] = msg
         /\ \A k \in 1..Len(channel) : channel'[k] = channel[k]
<1>1. /\ channel \in Seq(Messages) /\ Len(channel) \in Nat /\ MaxChannel \in Nat
      /\ \A k \in 1..Len(channel) : channel[k].seq \in Nat \cup {NoSeq}
  BY ChannelFacts
<1>2. /\ channel' \in Seq(Messages) /\ Len(channel') = Len(channel) + 1
      /\ channel'[Len(channel) + 1] = msg
      /\ \A k \in 1..Len(channel) : channel'[k] = channel[k]
  BY <1>1
<1>3. \A k \in 1..Len(channel') : k \in 1..Len(channel) \/ k = Len(channel) + 1
  BY <1>1, <1>2
<1>4. Numbered'
  BY <1>1, <1>2, <1>3 DEF Numbered
<1> QED
  BY <1>1, <1>2, <1>4

(* The message at the head is taken off the channel.                       *)
LEMMA ReadTypes ==
  ASSUME FeedTypes, channel # <<>>, channel' = Tail(channel)
  PROVE  /\ Head(channel) = channel[1] /\ channel[1] \in Messages
         /\ channel[1].seq \in Nat \cup {NoSeq} /\ channel[1].version \in Versions
         /\ Len(channel) >= 1
         /\ channel' \in Seq(Messages) /\ Len(channel') = Len(channel) - 1
         /\ Len(channel') <= MaxChannel /\ Numbered'
         /\ \A k \in 1..Len(channel) - 1 : channel'[k] = channel[k + 1]
<1>1. /\ channel \in Seq(Messages) /\ Len(channel) \in Nat /\ Len(channel) <= MaxChannel
      /\ MaxChannel \in Nat
      /\ \A k \in 1..Len(channel) : /\ channel[k] \in Messages
                                    /\ channel[k].seq \in Nat \cup {NoSeq}
                                    /\ channel[k].version \in Versions
  BY ChannelFacts DEF FeedTypes, TypeOK
<1>2. Len(channel) >= 1
  BY <1>1, EmptySeq
<1>3. /\ channel' \in Seq(Messages) /\ Len(channel') = Len(channel) - 1
      /\ \A k \in 1..Len(channel) - 1 : channel'[k] = channel[k + 1]
  BY <1>1, HeadTailProperties
<1>4. Numbered'
  BY <1>1, <1>2, <1>3 DEF Numbered
<1> QED
  BY <1>1, <1>2, <1>3, <1>4

LEMMA LostTypes ==
  ASSUME FeedTypes, NEW k \in 1..Len(channel), channel' = RemoveAt(channel, k)
  PROVE  /\ channel' \in Seq(Messages) /\ Len(channel') = Len(channel) - 1
         /\ Len(channel') <= MaxChannel /\ Numbered'
         /\ \A i \in 1..Len(channel) - 1 : channel'[i] = IF i < k THEN channel[i] ELSE channel[i + 1]
<1>1. /\ channel \in Seq(Messages) /\ Len(channel) \in Nat /\ Len(channel) <= MaxChannel
      /\ MaxChannel \in Nat
      /\ \A i \in 1..Len(channel) : channel[i].seq \in Nat \cup {NoSeq}
  BY ChannelFacts DEF FeedTypes, TypeOK
<1>2. /\ channel' \in Seq(Messages) /\ Len(channel') = Len(channel) - 1
      /\ \A i \in 1..Len(channel) - 1 : channel'[i] = IF i < k THEN channel[i] ELSE channel[i + 1]
  BY <1>1, RemoveAtIs
<1>3. Numbered'
  BY <1>1, <1>2 DEF Numbered
<1> QED
  BY <1>1, <1>2, <1>3

LEMMA RepeatedTypes ==
  ASSUME FeedTypes, Len(channel) < MaxChannel, NEW k \in 1..Len(channel),
         channel' = InsertAt(channel, k, channel[k])
  PROVE  /\ channel' \in Seq(Messages) /\ Len(channel') = Len(channel) + 1
         /\ Len(channel') <= MaxChannel /\ Numbered'
         /\ \A i \in 1..Len(channel) + 1 : channel'[i] = IF i <= k THEN channel[i] ELSE channel[i - 1]
<1>1. /\ channel \in Seq(Messages) /\ Len(channel) \in Nat /\ MaxChannel \in Nat
      /\ \A i \in 1..Len(channel) : channel[i].seq \in Nat \cup {NoSeq}
  BY ChannelFacts
<1>2. /\ channel' \in Seq(Messages) /\ Len(channel') = Len(channel) + 1
      /\ \A i \in 1..Len(channel) + 1 : channel'[i] = IF i <= k THEN channel[i] ELSE channel[i - 1]
  <2> DEFINE twice == InsertAt(channel, k, channel[k])
  <2>1. channel[k] \in Messages /\ k \in Nat /\ k - 1 \in 0..Len(channel)
    BY <1>1, ChannelFacts
  <2>2. twice \in Seq(Messages) /\ Len(twice) = Len(channel) + 1
    BY <1>1, <2>1, InsertAtIs
  <2>3. /\ twice[k] = channel[k] /\ \A i \in 1..k - 1 : twice[i] = channel[i]
        /\ \A i \in 1..Len(channel) : i >= k => twice[i + 1] = channel[i]
    BY <1>1, <2>1, InsertAtIs
  <2> HIDE DEF twice
  <2>4. channel' = twice
    BY DEF twice
  <2>5. ASSUME NEW i \in 1..Len(channel) + 1
        PROVE  twice[i] = IF i <= k THEN channel[i] ELSE channel[i - 1]
    <3>1. CASE i < k
      <4>1. i \in 1..k - 1 /\ i <= k
        BY <1>1, <3>1
      <4> QED
        BY <2>3, <4>1
    <3>2. CASE i = k
      BY <2>3, <3>2
    <3>3. CASE i > k
      <4>1. i - 1 \in 1..Len(channel) /\ i - 1 >= k /\ i - 1 + 1 = i /\ ~(i <= k)
        BY <1>1, <3>3
      <4> QED
        BY <2>3, <4>1
    <3> QED
      BY <1>1, <3>1, <3>2, <3>3
  <2> QED
    BY <2>2, <2>4, <2>5
<1>3. Numbered'
  BY <1>1, <1>2 DEF Numbered
<1> QED
  BY <1>1, <1>2, <1>3

LEMMA FirstVersion == 0 \in Versions
BY FeedAssumption DEF Versions

(* The messages the venue sends.                                           *)
LEMMA MessagesSent ==
  ASSUME NEW n \in Nat \cup {NoSeq}, NEW v \in Versions
  PROVE  \A kind \in {"snapshot", "update", "trades"} :
              /\ Message(n, kind, v) \in Messages
              /\ Message(n, kind, v).seq = n /\ Message(n, kind, v).kind = kind
              /\ Message(n, kind, v).version = v
BY DEF Message, Messages, NoSeq

LEMMA TypesKeep == FeedTypes /\ [Next]_vars => FeedTypes'
<1> SUFFICES ASSUME FeedTypes, [Next]_vars PROVE FeedTypes'
  OBVIOUS
<1>1. /\ MaxVersion \in Nat /\ MaxFaults \in Nat /\ MaxChannel \in Nat \ {0}
      /\ <<>> \in Seq(Messages) /\ Len(<<>>) = 0
  BY FeedAssumption, EmptySeq
<1>2. \A kind : Fault(kind) => faults' \in 0..MaxFaults
  BY <1>1 DEF Fault, FeedTypes, TypeOK
<1>3. CASE Connect
  BY <1>1, <1>3 DEF Connect, FeedTypes, TypeOK, Numbered
<1>4. CASE ReadGap
  BY <1>1, <1>4 DEF ReadGap, FeedTypes, TypeOK, Numbered
<1>5. CASE ReadMessage
  <2>1. channel # <<>> /\ channel' = Tail(channel) /\ last_seq' = Head(channel).seq
        /\ book' = Dispatched(Head(channel)) /\ UNCHANGED <<link, next_seq, version, sent, faults>>
    BY <1>5 DEF ReadMessage, Readable
  <2>2. /\ channel' \in Seq(Messages) /\ Len(channel') <= MaxChannel /\ Numbered'
        /\ last_seq' \in Nat \cup {NoSeq} /\ Head(channel).version \in Versions
    BY <2>1, ReadTypes
  <2>3. book' \in Versions \cup {Empty, Wrong}
    BY <2>1, <2>2 DEF Dispatched, FeedTypes, TypeOK
  <2> QED
    BY <2>1, <2>2, <2>3 DEF FeedTypes, TypeOK
<1>6. CASE ReadEnd
  BY <1>6 DEF ReadEnd, FeedTypes, TypeOK, Numbered
<1>7. CASE VenueMoves
  BY <1>1, <1>7 DEF VenueMoves, FeedTypes, TypeOK, Numbered, Versions
<1>8. CASE VenueSends
  <2>1. next_seq \in Nat /\ version \in Versions /\ sent \in Versions \cup {NoSeq}
    BY DEF FeedTypes, TypeOK
  <2>2. PICK msg \in Messages : /\ msg.seq = next_seq /\ channel' = Append(channel, msg)
                                /\ sent' \in Versions \cup {NoSeq}
    <3>1. CASE channel' = Append(channel, Message(next_seq, "trades", 0)) /\ UNCHANGED sent
      BY <2>1, <3>1, FirstVersion, MessagesSent
    <3>2. CASE channel' = Append(channel, Message(next_seq, "snapshot", version)) /\ sent' = version
      BY <2>1, <3>2, MessagesSent
    <3>3. CASE /\ sent # NoSeq /\ sent < version /\ sent' = sent + 1
               /\ channel' = Append(channel, Message(next_seq, "update", sent + 1))
      <4>1. sent + 1 \in Versions
        BY <1>1, <2>1, <3>3 DEF Versions
      <4> QED
        BY <2>1, <3>3, <4>1, MessagesSent
    <3> QED
      BY <1>8, <3>1, <3>2, <3>3 DEF VenueSends
  <2>3. channel' \in Seq(Messages) /\ Len(channel') <= MaxChannel /\ Numbered'
    BY <1>8, <2>1, <2>2, SentTypes DEF VenueSends
  <2>4. next_seq' \in Nat /\ UNCHANGED <<link, version, last_seq, book, faults>>
    BY <1>8, <2>1 DEF VenueSends
  <2> QED
    BY <2>2, <2>3, <2>4 DEF FeedTypes, TypeOK
<1>9. CASE VenueSendsUnnumbered
  <2>1. Message(NoSeq, "trades", 0) \in Messages /\ Message(NoSeq, "trades", 0).seq = NoSeq
    BY FirstVersion, MessagesSent
  <2>2. channel' \in Seq(Messages) /\ Len(channel') <= MaxChannel /\ Numbered'
    BY <1>9, <2>1, SentTypes DEF VenueSendsUnnumbered
  <2> QED
    BY <1>2, <1>9, <2>2 DEF VenueSendsUnnumbered, FeedTypes, TypeOK
<1>10. CASE Lose
  <2>1. PICK k \in 1..Len(channel) : channel' = RemoveAt(channel, k)
    BY <1>10, ChannelFacts, LenProperties DEF Lose
  <2>2. channel' \in Seq(Messages) /\ Len(channel') <= MaxChannel /\ Numbered'
    BY <2>1, LostTypes
  <2> QED
    BY <1>2, <1>10, <2>2 DEF Lose, FeedTypes, TypeOK
<1>11. CASE Duplicate
  <2>1. PICK k \in 1..Len(channel) : channel' = InsertAt(channel, k, channel[k])
    BY <1>11, ChannelFacts, LenProperties DEF Duplicate
  <2>2. channel' \in Seq(Messages) /\ Len(channel') <= MaxChannel /\ Numbered'
    BY <1>11, <2>1, RepeatedTypes DEF Duplicate
  <2> QED
    BY <1>2, <1>11, <2>2 DEF Duplicate, FeedTypes, TypeOK
<1>12. CASE Break
  BY <1>1, <1>2, <1>12 DEF Break, FeedTypes, TypeOK, Numbered
<1>13. CASE VenueCloses
  BY <1>2, <1>13 DEF VenueCloses, FeedTypes, TypeOK, Numbered
<1>14. CASE UNCHANGED vars
  BY <1>14 DEF vars, FeedTypes, TypeOK, Numbered
<1> QED
  BY <1>3, <1>4, <1>5, <1>6, <1>7, <1>8, <1>9, <1>10, <1>11, <1>12, <1>13, <1>14
     DEF Next, Adapter, Venue, Network

(***************************************************************************)
(* The places of the messages, step by step, for a feed that loses nothing *)
(* where the numbers cannot tell.                                          *)
(***************************************************************************)

(* A connection begins with nothing sent and nothing read.                 *)
LEMMA ConnectPlaces ==
  ASSUME FeedIInv, Connect
  PROVE  ConnectionInv' /\ book' # Wrong
<1>1. /\ channel' = <<>> /\ next_seq' = 0 /\ sent' = NoSeq /\ last_seq' = NoSeq
      /\ UNCHANGED <<version, book, faults>>
  BY DEF Connect
<1>2. Len(channel') = 0
  BY <1>1, EmptySeq
<1> DEFINE log == [n \in Int |-> NoSeq]
           at == [k \in 0..0 |-> -1]
<1>3. log \in Logs /\ at \in [0..Len(channel') -> Int] /\ at[0] = -1 /\ \A n \in Int : log[n] = NoSeq
  BY <1>2 DEF Logs
<1> HIDE DEF log, at
<1>4. Placed(log, at)'
  BY <1>1, <1>2, <1>3 DEF Placed, NoSeq
<1>5. BookAt(log, at)'
  BY <1>3 DEF BookAt
<1>6. ConnectionInv'
  BY <1>3, <1>4, <1>5 DEF ConnectionInv
<1> QED
  BY <1>1, <1>6 DEF FeedIInv

(* A numbered message is sent.                                             *)
LEMMA SendPlaces ==
  ASSUME FeedIInv, VenueSends
  PROVE  ConnectionInv'
<1>1. /\ link = "open" /\ Len(channel) < MaxChannel /\ next_seq' = next_seq + 1
      /\ UNCHANGED <<link, version, last_seq, book, faults>>
  BY DEF VenueSends
<1>2. /\ FeedTypes /\ next_seq \in Nat
      /\ version \in Versions /\ sent \in Versions \cup {NoSeq} /\ MaxVersion \in Nat
      /\ \A k \in 1..Len(channel) : channel[k].seq \in Nat \cup {NoSeq}
  BY ChannelFacts, FeedAssumption DEF FeedIInv, FeedTypes, TypeOK
<1> PICK len \in Nat : len = Len(channel)
  BY <1>2, ChannelFacts
<1>3. PICK log \in Logs, at \in [0..len -> Int] : Placed(log, at) /\ BookAt(log, at)
  BY <1>1 DEF FeedIInv, ConnectionInv
<1>4. PICK msg \in Messages :
        /\ channel' = Append(channel, msg) /\ msg.seq = next_seq
        /\ sent' \in Versions \cup {NoSeq}
        /\ \/ msg.kind = "trades" /\ sent' = sent
           \/ msg.kind = "snapshot" /\ sent' = msg.version
           \/ /\ msg.kind = "update" /\ sent' = msg.version /\ msg.version > 0
              /\ msg.version - 1 = sent
  <2>1. CASE channel' = Append(channel, Message(next_seq, "trades", 0)) /\ UNCHANGED sent
    BY <1>2, <2>1, FirstVersion, MessagesSent
  <2>2. CASE channel' = Append(channel, Message(next_seq, "snapshot", version)) /\ sent' = version
    BY <1>2, <2>2, MessagesSent
  <2>3. CASE /\ sent # NoSeq /\ sent < version /\ sent' = sent + 1
             /\ channel' = Append(channel, Message(next_seq, "update", sent + 1))
    <3>1. sent \in Int /\ sent + 1 \in Versions /\ sent + 1 > 0 /\ sent + 1 - 1 = sent
      BY <1>2, <2>3 DEF Versions
    <3> DEFINE m == Message(next_seq, "update", sent + 1)
    <3>2. m \in Messages /\ m.seq = next_seq /\ m.kind = "update" /\ m.version = sent + 1
      BY <1>2, <3>1, MessagesSent
    <3>3. channel' = Append(channel, m) /\ sent' = sent + 1
      BY <2>3
    <3> HIDE DEF m
    <3> QED
      BY <3>1, <3>2, <3>3
  <2> QED
    BY <2>1, <2>2, <2>3 DEF VenueSends
<1>5. /\ Len(channel') = len + 1 /\ channel'[len + 1] = msg
      /\ \A k \in 1..len : channel'[k] = channel[k]
  BY <1>1, <1>2, <1>4, SentTypes
<1>6. PICK log2 \in Logs :
        log2[next_seq] = sent' /\ \A n \in Int : n < next_seq => log2[n] = log[n]
  <2>1. /\ [log EXCEPT ![next_seq] = sent'] \in Logs
        /\ [log EXCEPT ![next_seq] = sent'][next_seq] = sent'
        /\ \A n \in Int : n < next_seq => [log EXCEPT ![next_seq] = sent'][n] = log[n]
    BY <1>2, <1>3, <1>4 DEF Logs
  <2> QED
    BY <2>1
<1>7. PICK at2 \in [0..len + 1 -> Int] :
        at2[len + 1] = next_seq /\ \A k \in 0..len : at2[k] = at[k]
  <2> DEFINE new == [k \in 0..len + 1 |-> IF k <= len THEN at[k] ELSE next_seq]
  <2>1. new \in [0..len + 1 -> Int] /\ new[len + 1] = next_seq /\ \A k \in 0..len : new[k] = at[k]
    BY <1>2, <1>3
  <2> QED
    BY <2>1
<1>8. \A k \in 1..len + 1 : SeqBefore(k)' = SeqBefore(k)
  BY <1>1, <1>2, <1>5 DEF SeqBefore
<1>9. SeqBefore(len + 2)' = next_seq
  BY <1>2, <1>4, <1>5 DEF SeqBefore
<1>10. Placed(log2, at2)'
  <2>1. log2[next_seq' - 1] = sent'
    BY <1>1, <1>2, <1>6
  <2>2. \A k \in 0..len : at[k] < next_seq /\ at[k] \in Int
    BY <1>3 DEF Placed
  <2>3. \A k \in 0..len + 1 : at2[k] < next_seq'
    BY <1>1, <1>2, <1>7, <2>2
  <2>4. last_seq' \in {NoSeq, at2[0]}
    BY <1>1, <1>2, <1>3, <1>7 DEF Placed
  <2>5. ASSUME NEW k \in 1..len
        PROVE  IF channel'[k].seq = NoSeq
               THEN at2[k] = at2[k - 1] /\ channel'[k].kind = "trades"
               ELSE /\ at2[k] = channel'[k].seq /\ Says(channel'[k], at2[k], log2)
                    /\ SeqBefore(k)' = NoSeq => at2[k] = at2[k - 1] + 1
    <3>1. at2[k] = at[k] /\ at2[k - 1] = at[k - 1] /\ channel'[k] = channel[k]
          /\ SeqBefore(k)' = SeqBefore(k)
      <4>1. k \in 0..len /\ k - 1 \in 0..len /\ k \in 1..len + 1
        OBVIOUS
      <4> QED
        BY <4>1, <1>5, <1>7, <1>8
    <3>2. at[k] \in Int /\ at[k] < next_seq /\ at[k] - 1 < next_seq
      BY <1>2, <2>2
    <3>3. log2[at[k]] = log[at[k]] /\ log2[at[k] - 1] = log[at[k] - 1]
      BY <1>6, <3>2
    <3> QED
      BY <1>3, <3>1, <3>3 DEF Placed, Says
  <2>6. LET k == len + 1
        IN  IF channel'[k].seq = NoSeq
            THEN at2[k] = at2[k - 1] /\ channel'[k].kind = "trades"
            ELSE /\ at2[k] = channel'[k].seq /\ Says(channel'[k], at2[k], log2)
                 /\ SeqBefore(k)' = NoSeq => at2[k] = at2[k - 1] + 1
    <3>1. channel'[len + 1] = msg /\ msg.seq = next_seq /\ next_seq # NoSeq /\ at2[len + 1] = next_seq
      BY <1>2, <1>4, <1>5, <1>7 DEF NoSeq
    <3>2. log2[next_seq - 1] = sent
      BY <1>2, <1>3, <1>6 DEF Placed
    <3>3. Says(msg, next_seq, log2)
      BY <1>4, <1>6, <3>2 DEF Says
    <3>4. SeqBefore(len + 1)' = NoSeq => next_seq = at2[len] + 1
      BY <1>2, <1>3, <1>7, <1>8 DEF Placed
    <3>5. len + 1 - 1 = len
      BY <1>2
    <3> QED
      BY <3>1, <3>3, <3>4, <3>5
  <2>7. \A k \in 1..len + 1 : k \in 1..len \/ k = len + 1
    BY <1>2
  <2>8. SeqBefore(len + 2)' = NoSeq => at2[len + 1] = next_seq' - 1
    BY <1>1, <1>2, <1>7
  <2>9. Len(channel') + 1 = len + 2
    BY <1>2, <1>5
  <2> QED
    BY <1>5, <2>1, <2>3, <2>4, <2>5, <2>6, <2>7, <2>8, <2>9 DEF Placed
<1>11. BookAt(log2, at2)'
  <2>1. at[0] \in Int /\ at[0] < next_seq /\ at2[0] = at[0]
    BY <1>2, <1>3, <1>7 DEF Placed
  <2> QED
    BY <1>1, <1>3, <1>6, <2>1 DEF BookAt
<1> QED
  BY <1>5, <1>6, <1>7, <1>10, <1>11 DEF ConnectionInv

(* What is true of the messages in flight and their places, and what the   *)
(* next three lemmas start from.                                           *)
LEMMA Places ==
  ASSUME FeedIInv, link \in {"open", "closed"}
  PROVE  \E len \in Nat : \E log \in Logs, at \in [0..len -> Int] :
           /\ len = Len(channel) /\ Placed(log, at) /\ BookAt(log, at)
           /\ FeedTypes /\ book # Wrong /\ next_seq \in Nat /\ last_seq \in Nat \cup {NoSeq}
           /\ \A k \in 1..len : channel[k].seq \in Nat \cup {NoSeq}
<1>1. /\ FeedTypes /\ Len(channel) \in Nat /\ next_seq \in Nat /\ last_seq \in Nat \cup {NoSeq}
      /\ \A k \in 1..Len(channel) : channel[k].seq \in Nat \cup {NoSeq}
  BY ChannelFacts DEF FeedIInv
<1>2. PICK log \in Logs, at \in [0..Len(channel) -> Int] : Placed(log, at) /\ BookAt(log, at)
  BY DEF FeedIInv, ConnectionInv
<1> QED
  BY <1>1, <1>2 DEF FeedIInv

(* A message without a number is sent where the numbers before it are whole.*)
LEMMA UnnumberedPlaces ==
  ASSUME FeedIInv, VenueSendsUnnumbered, "lose_blind" \notin Faults
  PROVE  ConnectionInv'
<1>1. /\ link = "open" /\ Len(channel) < MaxChannel
      /\ SeqBefore(Len(channel) + 1) \in {NoSeq, next_seq - 1}
      /\ channel' = Append(channel, Message(NoSeq, "trades", 0))
      /\ UNCHANGED <<link, next_seq, version, sent, last_seq, book>>
  BY DEF VenueSendsUnnumbered
<1>2. PICK len \in Nat : \E log \in Logs, at \in [0..len -> Int] :
           /\ len = Len(channel) /\ Placed(log, at) /\ BookAt(log, at)
           /\ FeedTypes /\ book # Wrong /\ next_seq \in Nat /\ last_seq \in Nat \cup {NoSeq}
           /\ \A k \in 1..len : channel[k].seq \in Nat \cup {NoSeq}
  BY <1>1, Places
<1>3. PICK log \in Logs, at \in [0..len -> Int] :
           /\ len = Len(channel) /\ Placed(log, at) /\ BookAt(log, at)
           /\ FeedTypes /\ book # Wrong /\ next_seq \in Nat /\ last_seq \in Nat \cup {NoSeq}
           /\ \A k \in 1..len : channel[k].seq \in Nat \cup {NoSeq}
  BY <1>2
<1>4. PICK msg \in Messages : msg.seq = NoSeq /\ msg.kind = "trades" /\ channel' = Append(channel, msg)
  <2> DEFINE m == Message(NoSeq, "trades", 0)
  <2>1. m \in Messages /\ m.seq = NoSeq /\ m.kind = "trades"
    BY FirstVersion DEF Message, Messages, NoSeq
  <2>2. channel' = Append(channel, m)
    BY <1>1
  <2> HIDE DEF m
  <2> QED
    BY <2>1, <2>2
<1>5. /\ Len(channel') = len + 1 /\ channel'[len + 1] = msg
      /\ \A k \in 1..len : channel'[k] = channel[k]
  BY <1>1, <1>3, <1>4, SentTypes
<1>6. PICK at2 \in [0..len + 1 -> Int] :
        at2[len + 1] = at[len] /\ \A k \in 0..len : at2[k] = at[k]
  <2> DEFINE new == [k \in 0..len + 1 |-> IF k <= len THEN at[k] ELSE at[len]]
  <2>1. new \in [0..len + 1 -> Int] /\ new[len + 1] = at[len] /\ \A k \in 0..len : new[k] = at[k]
    BY <1>3
  <2> QED
    BY <2>1
<1>7. \A k \in 1..len + 1 : SeqBefore(k)' = SeqBefore(k)
  BY <1>1, <1>5 DEF SeqBefore
<1>8. at[len] = next_seq - 1
  <2>1. CASE SeqBefore(len + 1) = NoSeq
    BY <1>3, <2>1 DEF Placed
  <2>2. CASE SeqBefore(len + 1) # NoSeq /\ len = 0
    BY <1>1, <1>3, <2>2 DEF Placed, SeqBefore
  <2>3. CASE SeqBefore(len + 1) # NoSeq /\ len > 0
    <3>1. len \in 1..Len(channel) /\ SeqBefore(len + 1) = channel[len].seq
      BY <1>3, <2>3 DEF SeqBefore
    <3> QED
      BY <1>1, <1>3, <2>3, <3>1 DEF Placed
  <2> QED
    BY <2>1, <2>2, <2>3
<1>9. Placed(log, at2)'
  <2>1. log[next_seq' - 1] = sent' /\ last_seq' \in {NoSeq, at2[0]}
    BY <1>1, <1>3, <1>6 DEF Placed
  <2>2. \A k \in 0..len + 1 : at2[k] < next_seq'
    <3>1. \A k \in 0..len : at[k] < next_seq
      BY <1>3 DEF Placed
    <3>2. \A k \in 0..len + 1 : k \in 0..len \/ k = len + 1
      OBVIOUS
    <3> QED
      BY <1>1, <1>3, <1>6, <1>8, <3>1, <3>2
  <2>3. ASSUME NEW k \in 1..len
        PROVE  IF channel'[k].seq = NoSeq
               THEN at2[k] = at2[k - 1] /\ channel'[k].kind = "trades"
               ELSE /\ at2[k] = channel'[k].seq /\ Says(channel'[k], at2[k], log)
                    /\ SeqBefore(k)' = NoSeq => at2[k] = at2[k - 1] + 1
    <3>1. k \in 0..len /\ k - 1 \in 0..len /\ k \in 1..len + 1
      OBVIOUS
    <3>2. at2[k] = at[k] /\ at2[k - 1] = at[k - 1] /\ channel'[k] = channel[k]
          /\ SeqBefore(k)' = SeqBefore(k)
      BY <3>1, <1>5, <1>6, <1>7
    <3> QED
      BY <1>3, <3>2 DEF Placed
  <2>4. channel'[len + 1].seq = NoSeq /\ at2[len + 1] = at2[len + 1 - 1]
        /\ channel'[len + 1].kind = "trades"
    BY <1>4, <1>5, <1>6
  <2>5. ASSUME NEW k \in 1..len + 1
        PROVE  IF channel'[k].seq = NoSeq
               THEN at2[k] = at2[k - 1] /\ channel'[k].kind = "trades"
               ELSE /\ at2[k] = channel'[k].seq /\ Says(channel'[k], at2[k], log)
                    /\ SeqBefore(k)' = NoSeq => at2[k] = at2[k - 1] + 1
    <3>1. CASE k \in 1..len
      BY <2>3, <3>1
    <3>2. CASE k = len + 1
      BY <2>4, <3>2
    <3> QED
      BY <3>1, <3>2
  <2>6. at2[len + 1] = next_seq' - 1
    BY <1>1, <1>6, <1>8
  <2> QED
    BY <1>5, <2>1, <2>2, <2>5, <2>6 DEF Placed
<1>10. BookAt(log, at2)'
  BY <1>1, <1>3, <1>6 DEF BookAt
<1> QED
  BY <1>5, <1>9, <1>10 DEF ConnectionInv

(* A message is lost between two numbered ones.                            *)
LEMMA LosePlaces ==
  ASSUME FeedIInv, Lose, "lose_blind" \notin Faults, link \in {"open", "closed"}
  PROVE  ConnectionInv'
<1>1. PICK len \in Nat : \E log \in Logs, at \in [0..len -> Int] :
           /\ len = Len(channel) /\ Placed(log, at) /\ BookAt(log, at)
           /\ FeedTypes /\ book # Wrong /\ next_seq \in Nat /\ last_seq \in Nat \cup {NoSeq}
           /\ \A k \in 1..len : channel[k].seq \in Nat \cup {NoSeq}
  BY Places
<1>2. PICK log \in Logs, at \in [0..len -> Int] :
           /\ len = Len(channel) /\ Placed(log, at) /\ BookAt(log, at)
           /\ FeedTypes /\ book # Wrong /\ next_seq \in Nat /\ last_seq \in Nat \cup {NoSeq}
           /\ \A k \in 1..len : channel[k].seq \in Nat \cup {NoSeq}
  BY <1>1
<1>3. PICK k \in 1..len : ~Unnoticed(k) /\ channel' = RemoveAt(channel, k)
  <2>1. DOMAIN channel = 1..len
    BY <1>2, ChannelFacts, LenProperties
  <2> QED
    BY <2>1 DEF Lose, Fault
<1>4. UNCHANGED <<link, next_seq, version, sent, last_seq, book>>
  BY DEF Lose
<1>5. SeqBefore(k) # NoSeq /\ (k < len => channel[k + 1].seq # NoSeq)
  BY <1>2, <1>3 DEF Unnoticed
<1>6. PICK m \in Nat : m = len - 1
  OBVIOUS
<1>7. Len(channel') = m /\ \A i \in 1..m : channel'[i] = IF i < k THEN channel[i] ELSE channel[i + 1]
  BY <1>2, <1>3, <1>6, LostTypes
<1>8. PICK at2 \in [0..m -> Int] : \A i \in 0..m : at2[i] = IF i < k THEN at[i] ELSE at[i + 1]
  <2> DEFINE new == [i \in 0..m |-> IF i < k THEN at[i] ELSE at[i + 1]]
  <2>1. new \in [0..m -> Int] /\ \A i \in 0..m : new[i] = IF i < k THEN at[i] ELSE at[i + 1]
    BY <1>2, <1>6
  <2> QED
    BY <2>1
<1>9. \A i \in 1..m + 1 : SeqBefore(i)' = IF i <= k THEN SeqBefore(i) ELSE SeqBefore(i + 1)
  <2> SUFFICES ASSUME NEW i \in 1..m + 1
               PROVE  SeqBefore(i)' = IF i <= k THEN SeqBefore(i) ELSE SeqBefore(i + 1)
    OBVIOUS
  <2>1. CASE i = 1
    BY <1>4, <2>1 DEF SeqBefore
  <2>2. CASE i > 1
    <3>1. i - 1 \in 1..m /\ i + 1 - 1 = i /\ i - 1 + 1 = i /\ i # 1 /\ i + 1 # 1
          /\ (i - 1 < k <=> i <= k)
      BY <1>6, <2>2
    <3> QED
      BY <1>7, <3>1 DEF SeqBefore
  <2> QED
    BY <2>1, <2>2
<1>10. Placed(log, at2)'
  <2>1. log[next_seq' - 1] = sent' /\ last_seq' \in {NoSeq, at2[0]}
    BY <1>2, <1>4, <1>8 DEF Placed
  <2>2. \A i \in 0..m : at2[i] < next_seq'
    <3>1. \A i \in 0..m : i \in 0..len /\ i + 1 \in 0..len
      BY <1>6
    <3> QED
      BY <1>2, <1>4, <1>8, <3>1 DEF Placed
  <2>3. ASSUME NEW i \in 1..m
        PROVE  IF channel'[i].seq = NoSeq
               THEN at2[i] = at2[i - 1] /\ channel'[i].kind = "trades"
               ELSE /\ at2[i] = channel'[i].seq /\ Says(channel'[i], at2[i], log)
                    /\ SeqBefore(i)' = NoSeq => at2[i] = at2[i - 1] + 1
    <3>1. CASE i < k
      <4>1. i \in 1..len /\ i \in 0..m /\ i - 1 \in 0..m /\ i - 1 < k /\ i \in 1..m + 1 /\ i <= k
        BY <1>6, <3>1
      <4>2. at2[i] = at[i] /\ at2[i - 1] = at[i - 1] /\ channel'[i] = channel[i]
            /\ SeqBefore(i)' = SeqBefore(i)
        BY <1>7, <1>8, <1>9, <3>1, <4>1
      <4> QED
        BY <1>2, <4>1, <4>2 DEF Placed
    <3>2. CASE i = k
      <4>1. i + 1 \in 1..len /\ k < len /\ i \in 0..m /\ ~(i < k) /\ i \in 1..m + 1 /\ i <= k
        BY <1>6, <3>2
      <4>2. at2[i] = at[i + 1] /\ channel'[i] = channel[i + 1] /\ SeqBefore(i)' = SeqBefore(i)
        BY <1>7, <1>8, <1>9, <4>1
      <4>3. channel[i + 1].seq # NoSeq /\ SeqBefore(i) # NoSeq
        BY <1>5, <3>2, <4>1
      <4> QED
        BY <1>2, <4>1, <4>2, <4>3 DEF Placed
    <3>3. CASE i > k
      <4>1. i + 1 \in 1..len /\ i \in 0..m /\ ~(i < k) /\ i - 1 \in 0..m /\ ~(i - 1 < k)
            /\ i - 1 + 1 = i /\ i + 1 - 1 = i /\ i \in 1..m + 1 /\ ~(i <= k)
        BY <1>6, <3>3
      <4>2. at2[i] = at[i + 1] /\ at2[i - 1] = at[i] /\ channel'[i] = channel[i + 1]
            /\ SeqBefore(i)' = SeqBefore(i + 1)
        BY <1>7, <1>8, <1>9, <4>1
      <4> QED
        BY <1>2, <4>1, <4>2 DEF Placed
    <3> QED
      BY <3>1, <3>2, <3>3
  <2>4. SeqBefore(m + 1)' = NoSeq => at2[m] = next_seq' - 1
    <3>1. CASE k = len
      BY <1>5, <1>6, <1>9, <3>1
    <3>2. CASE k < len
      <4>1. m + 1 \in 1..m + 1 /\ ~(m + 1 <= k) /\ m + 1 + 1 = len + 1 /\ m \in 0..m /\ ~(m < k)
            /\ m + 1 = len
        BY <1>6, <3>2
      <4>2. SeqBefore(m + 1)' = SeqBefore(len + 1) /\ at2[m] = at[len]
        BY <1>8, <1>9, <4>1
      <4> QED
        BY <1>2, <1>4, <4>2 DEF Placed
    <3> QED
      BY <3>1, <3>2
  <2> QED
    BY <1>7, <2>1, <2>2, <2>3, <2>4 DEF Placed
<1>11. BookAt(log, at2)'
  <2>1. at2[0] = at[0]
    BY <1>8
  <2> QED
    BY <1>2, <1>4, <2>1 DEF BookAt
<1> QED
  BY <1>7, <1>10, <1>11 DEF ConnectionInv

(* A message comes twice.                                                  *)
LEMMA DuplicatePlaces ==
  ASSUME FeedIInv, Duplicate, link \in {"open", "closed"}
  PROVE  ConnectionInv'
<1>1. PICK len \in Nat : \E log \in Logs, at \in [0..len -> Int] :
           /\ len = Len(channel) /\ Placed(log, at) /\ BookAt(log, at)
           /\ FeedTypes /\ book # Wrong /\ next_seq \in Nat /\ last_seq \in Nat \cup {NoSeq}
           /\ \A k \in 1..len : channel[k].seq \in Nat \cup {NoSeq}
  BY Places
<1>2. PICK log \in Logs, at \in [0..len -> Int] :
           /\ len = Len(channel) /\ Placed(log, at) /\ BookAt(log, at)
           /\ FeedTypes /\ book # Wrong /\ next_seq \in Nat /\ last_seq \in Nat \cup {NoSeq}
           /\ \A k \in 1..len : channel[k].seq \in Nat \cup {NoSeq}
  BY <1>1
<1>3. PICK k \in 1..len : channel' = InsertAt(channel, k, channel[k])
  <2>1. DOMAIN channel = 1..len
    BY <1>2, ChannelFacts, LenProperties
  <2> QED
    BY <2>1 DEF Duplicate
<1>4. UNCHANGED <<link, next_seq, version, sent, last_seq, book>> /\ Len(channel) < MaxChannel
  BY DEF Duplicate
<1>5. PICK m \in Nat : m = len + 1
  OBVIOUS
<1>6. Len(channel') = m /\ \A i \in 1..m : channel'[i] = IF i <= k THEN channel[i] ELSE channel[i - 1]
  BY <1>2, <1>3, <1>4, <1>5, RepeatedTypes
<1>7. PICK at2 \in [0..m -> Int] : \A i \in 0..m : at2[i] = IF i <= k THEN at[i] ELSE at[i - 1]
  <2> DEFINE new == [i \in 0..m |-> IF i <= k THEN at[i] ELSE at[i - 1]]
  <2>1. new \in [0..m -> Int] /\ \A i \in 0..m : new[i] = IF i <= k THEN at[i] ELSE at[i - 1]
    BY <1>2, <1>5
  <2> QED
    BY <2>1
<1>8. \A i \in 1..m + 1 : SeqBefore(i)' = IF i <= k + 1 THEN SeqBefore(i) ELSE SeqBefore(i - 1)
  <2> SUFFICES ASSUME NEW i \in 1..m + 1
               PROVE  SeqBefore(i)' = IF i <= k + 1 THEN SeqBefore(i) ELSE SeqBefore(i - 1)
    OBVIOUS
  <2>1. CASE i = 1
    BY <1>4, <2>1 DEF SeqBefore
  <2>2. CASE i > 1
    <3>1. i - 1 \in 1..m /\ i # 1 /\ (i - 1 <= k <=> i <= k + 1) /\ (~(i <= k + 1) => i - 1 # 1)
      BY <1>5, <2>2
    <3> QED
      BY <1>6, <3>1 DEF SeqBefore
  <2> QED
    BY <2>1, <2>2
<1>9. Placed(log, at2)'
  <2>1. log[next_seq' - 1] = sent' /\ last_seq' \in {NoSeq, at2[0]}
    BY <1>2, <1>4, <1>7 DEF Placed
  <2>2. \A i \in 0..m : at2[i] < next_seq'
    <3>1. \A i \in 0..m : (i <= k => i \in 0..len) /\ (~(i <= k) => i - 1 \in 0..len)
      BY <1>5
    <3> QED
      BY <1>2, <1>4, <1>7, <3>1 DEF Placed
  <2>3. ASSUME NEW i \in 1..m
        PROVE  IF channel'[i].seq = NoSeq
               THEN at2[i] = at2[i - 1] /\ channel'[i].kind = "trades"
               ELSE /\ at2[i] = channel'[i].seq /\ Says(channel'[i], at2[i], log)
                    /\ SeqBefore(i)' = NoSeq => at2[i] = at2[i - 1] + 1
    <3>1. CASE i <= k
      <4>1. i \in 1..len /\ i \in 0..m /\ i - 1 \in 0..m /\ i - 1 <= k /\ i \in 1..m + 1 /\ i <= k + 1
        BY <1>5, <3>1
      <4>2. at2[i] = at[i] /\ at2[i - 1] = at[i - 1] /\ channel'[i] = channel[i]
            /\ SeqBefore(i)' = SeqBefore(i)
        BY <1>6, <1>7, <1>8, <3>1, <4>1
      <4> QED
        BY <1>2, <4>1, <4>2 DEF Placed
    <3>2. CASE i = k + 1
      <4>1. /\ k \in 1..len /\ i \in 0..m /\ k \in 0..m /\ ~(i <= k) /\ i \in 1..m + 1 /\ i <= k + 1
            /\ i - 1 = k /\ i # 1
        BY <1>5, <3>2
      <4>2. at2[i] = at[k] /\ at2[i - 1] = at[k] /\ channel'[i] = channel[k]
            /\ SeqBefore(i)' = SeqBefore(i)
        BY <1>6, <1>7, <1>8, <4>1
      <4>3. SeqBefore(i) = channel[k].seq
        BY <4>1 DEF SeqBefore
      <4> QED
        BY <1>2, <4>1, <4>2, <4>3 DEF Placed
    <3>3. CASE i > k + 1
      <4>1. i - 1 \in 1..len /\ i \in 0..m /\ ~(i <= k) /\ i - 1 \in 0..m /\ ~(i - 1 <= k)
            /\ i \in 1..m + 1 /\ ~(i <= k + 1)
        BY <1>5, <3>3
      <4>2. at2[i] = at[i - 1] /\ at2[i - 1] = at[i - 1 - 1] /\ channel'[i] = channel[i - 1]
            /\ SeqBefore(i)' = SeqBefore(i - 1)
        BY <1>6, <1>7, <1>8, <4>1
      <4> QED
        BY <1>2, <4>1, <4>2 DEF Placed
    <3> QED
      BY <3>1, <3>2, <3>3
  <2>4. SeqBefore(m + 1)' = NoSeq => at2[m] = next_seq' - 1
    <3>1. /\ m + 1 \in 1..m + 1 /\ ~(m + 1 <= k + 1) /\ m + 1 - 1 = len + 1 /\ m \in 0..m /\ ~(m <= k)
          /\ m - 1 = len
      BY <1>5
    <3>2. SeqBefore(m + 1)' = SeqBefore(len + 1) /\ at2[m] = at[len]
      BY <1>7, <1>8, <3>1
    <3> QED
      BY <1>2, <1>4, <3>2 DEF Placed
  <2> QED
    BY <1>6, <2>1, <2>2, <2>3, <2>4 DEF Placed
<1>10. BookAt(log, at2)'
  <2>1. at2[0] = at[0]
    BY <1>7
  <2> QED
    BY <1>2, <1>4, <2>1 DEF BookAt
<1> QED
  BY <1>6, <1>9, <1>10 DEF ConnectionInv

(* What is read without a gap is the next the venue had sent, so a change  *)
(* is applied to the version it was made from.                             *)
LEMMA ReadPlaces ==
  ASSUME FeedIInv, ReadMessage
  PROVE  ConnectionInv' /\ book' # Wrong
<1>1. /\ link \in {"open", "closed"} /\ channel # <<>> /\ ~Gap(Head(channel))
      /\ last_seq' = Head(channel).seq /\ book' = Dispatched(Head(channel))
      /\ channel' = Tail(channel) /\ UNCHANGED <<link, next_seq, version, sent, faults>>
  BY DEF ReadMessage, Readable
<1>2. PICK len \in Nat : \E log \in Logs, at \in [0..len -> Int] :
           /\ len = Len(channel) /\ Placed(log, at) /\ BookAt(log, at)
           /\ FeedTypes /\ book # Wrong /\ next_seq \in Nat /\ last_seq \in Nat \cup {NoSeq}
           /\ \A k \in 1..len : channel[k].seq \in Nat \cup {NoSeq}
  BY <1>1, Places
<1>3. PICK log \in Logs, at \in [0..len -> Int] :
           /\ len = Len(channel) /\ Placed(log, at) /\ BookAt(log, at)
           /\ FeedTypes /\ book # Wrong /\ next_seq \in Nat /\ last_seq \in Nat \cup {NoSeq}
           /\ \A k \in 1..len : channel[k].seq \in Nat \cup {NoSeq}
  BY <1>2
<1>4. /\ Head(channel) = channel[1] /\ channel[1].version \in Versions /\ len >= 1
      /\ Len(channel') = len - 1 /\ \A k \in 1..len - 1 : channel'[k] = channel[k + 1]
      /\ channel[1] \in Messages
  BY <1>1, <1>3, ReadTypes
<1>5. PICK m \in Nat : m = len - 1
  BY <1>4
<1>6. PICK at2 \in [0..m -> Int] : \A i \in 0..m : at2[i] = at[i + 1]
  <2> DEFINE new == [i \in 0..m |-> at[i + 1]]
  <2>1. new \in [0..m -> Int] /\ \A i \in 0..m : new[i] = at[i + 1]
    BY <1>3, <1>5
  <2> QED
    BY <2>1
<1>7. \A i \in 1..m + 1 : SeqBefore(i)' = SeqBefore(i + 1)
  <2> SUFFICES ASSUME NEW i \in 1..m + 1 PROVE SeqBefore(i)' = SeqBefore(i + 1)
    OBVIOUS
  <2>1. CASE i = 1
    BY <1>1, <1>4, <2>1 DEF SeqBefore
  <2>2. CASE i > 1
    <3>1. i - 1 \in 1..len - 1 /\ i # 1 /\ i + 1 # 1 /\ i - 1 + 1 = i /\ i + 1 - 1 = i
      BY <1>5, <2>2
    <3>2. channel'[i - 1] = channel[i]
      BY <1>4, <3>1
    <3>3. SeqBefore(i)' = channel'[i - 1].seq /\ SeqBefore(i + 1) = channel[i].seq
      BY <3>1 DEF SeqBefore
    <3> QED
      BY <3>2, <3>3
  <2> QED
    BY <2>1, <2>2
<1>8. IF channel[1].seq = NoSeq
      THEN at[1] = at[0] /\ channel[1].kind = "trades"
      ELSE /\ at[1] = channel[1].seq /\ Says(channel[1], at[1], log)
           /\ at[1] = at[0] + 1 /\ at[1] - 1 = at[0]
  <2>1. 1 \in 1..len /\ SeqBefore(1) = last_seq /\ 1 - 1 = 0
    BY <1>4 DEF SeqBefore
  <2>2. last_seq \in {NoSeq, at[0]} /\ at[0] \in Int
    BY <1>3 DEF Placed
  <2>3. IF channel[1].seq = NoSeq
        THEN at[1] = at[0] /\ channel[1].kind = "trades"
        ELSE /\ at[1] = channel[1].seq /\ Says(channel[1], at[1], log)
             /\ last_seq = NoSeq => at[1] = at[0] + 1
    BY <1>3, <2>1 DEF Placed
  <2> QED
    BY <1>1, <1>4, <2>2, <2>3 DEF Gap
<1>9. /\ log[at[1]] # NoSeq => book' = log[at[1]]
      /\ book' # Wrong
  <2>1. at[0] \in Int /\ at[0] + 1 - 1 = at[0]
    BY <1>3
  <2>2. CASE channel[1].seq = NoSeq \/ channel[1].kind = "trades"
    <3>1. channel[1].kind = "trades" /\ log[at[1]] = log[at[0]]
      BY <1>8, <2>1, <2>2 DEF Says
    <3>2. book' = book
      BY <1>1, <1>4, <3>1 DEF Dispatched
    <3> QED
      BY <1>3, <3>1, <3>2 DEF BookAt
  <2>3. CASE channel[1].seq # NoSeq /\ channel[1].kind = "snapshot"
    <3>1. log[at[1]] = channel[1].version /\ book' = channel[1].version
      BY <1>1, <1>4, <1>8, <2>3 DEF Says, Dispatched
    <3> QED
      BY <1>4, <3>1, FeedAssumption DEF Wrong, Versions
  <2>4. CASE channel[1].seq # NoSeq /\ channel[1].kind = "update"
    <3>1. /\ log[at[1]] = channel[1].version /\ log[at[0]] = channel[1].version - 1
          /\ channel[1].version > 0
      BY <1>8, <2>1, <2>4 DEF Says
    <3>2. channel[1].version \in Int /\ channel[1].version - 1 # NoSeq
      BY <1>4, <3>1 DEF NoSeq, Versions
    <3>3. book = channel[1].version - 1
      BY <1>3, <3>1, <3>2 DEF BookAt
    <3>4. book' = channel[1].version
      BY <1>1, <1>4, <2>4, <3>3 DEF Dispatched
    <3> QED
      BY <3>1, <3>2, <3>4 DEF Wrong
  <2> QED
    BY <1>4, <2>2, <2>3, <2>4 DEF Messages
<1>10. Placed(log, at2)'
  <2>1. log[next_seq' - 1] = sent' /\ last_seq' \in {NoSeq, at2[0]}
    BY <1>1, <1>3, <1>4, <1>6, <1>8 DEF Placed
  <2>2. \A i \in 0..m : at2[i] < next_seq'
    <3>1. \A i \in 0..m : i + 1 \in 0..len
      BY <1>5
    <3> QED
      BY <1>1, <1>3, <1>6, <3>1 DEF Placed
  <2>3. ASSUME NEW i \in 1..m
        PROVE  IF channel'[i].seq = NoSeq
               THEN at2[i] = at2[i - 1] /\ channel'[i].kind = "trades"
               ELSE /\ at2[i] = channel'[i].seq /\ Says(channel'[i], at2[i], log)
                    /\ SeqBefore(i)' = NoSeq => at2[i] = at2[i - 1] + 1
    <3>1. /\ i + 1 \in 1..len /\ i \in 0..m /\ i - 1 \in 0..m /\ i - 1 + 1 = i /\ i + 1 - 1 = i
          /\ i \in 1..m + 1 /\ i \in 1..len - 1
      BY <1>5
    <3>2. at2[i] = at[i + 1] /\ at2[i - 1] = at[i] /\ channel'[i] = channel[i + 1]
          /\ SeqBefore(i)' = SeqBefore(i + 1)
      BY <1>4, <1>6, <1>7, <3>1
    <3>3. PICK j \in 1..len : j = i + 1 /\ j - 1 = i
      BY <3>1
    <3>4. \A k \in 1..len :
            IF channel[k].seq = NoSeq
            THEN at[k] = at[k - 1] /\ channel[k].kind = "trades"
            ELSE /\ at[k] = channel[k].seq /\ Says(channel[k], at[k], log)
                 /\ SeqBefore(k) = NoSeq => at[k] = at[k - 1] + 1
      BY <1>3 DEF Placed
    <3>5. IF channel[j].seq = NoSeq
          THEN at[j] = at[j - 1] /\ channel[j].kind = "trades"
          ELSE /\ at[j] = channel[j].seq /\ Says(channel[j], at[j], log)
               /\ SeqBefore(j) = NoSeq => at[j] = at[j - 1] + 1
      BY <3>4
    <3> QED
      BY <3>2, <3>3, <3>5
  <2>4. SeqBefore(m + 1)' = NoSeq => at2[m] = next_seq' - 1
    <3>1. m + 1 \in 1..m + 1 /\ m + 1 + 1 = len + 1 /\ m \in 0..m /\ m + 1 = len
      BY <1>5
    <3>2. SeqBefore(m + 1)' = SeqBefore(len + 1) /\ at2[m] = at[len]
      BY <1>6, <1>7, <3>1
    <3> QED
      BY <1>1, <1>3, <3>2 DEF Placed
  <2>5. Len(channel') = m
    BY <1>4, <1>5
  <2> QED
    BY <2>1, <2>2, <2>3, <2>4, <2>5 DEF Placed
<1>11. BookAt(log, at2)'
  <2>1. at2[0] = at[1]
    BY <1>6
  <2> QED
    BY <1>9, <2>1 DEF BookAt
<1>12. ConnectionInv'
  BY <1>4, <1>5, <1>10, <1>11 DEF ConnectionInv
<1> QED
  BY <1>9, <1>12

LEMMA StillPlaces ==
  ASSUME ConnectionInv, UNCHANGED <<channel, next_seq, sent, last_seq, book>>
  PROVE  ConnectionInv'
BY DEF ConnectionInv, Placed, BookAt, SeqBefore

(***************************************************************************)
(* The invariant is inductive.                                             *)
(***************************************************************************)
LEMMA FeedKeeps ==
  ASSUME "lose_blind" \notin Faults
  PROVE  FeedIInv /\ [Next]_vars => FeedIInv'
<1> SUFFICES ASSUME FeedIInv, [Next]_vars PROVE FeedIInv'
  OBVIOUS
<1>1. FeedTypes'
  BY TypesKeep DEF FeedIInv
<1>2. book # Wrong /\ Empty # Wrong
  BY DEF FeedIInv, Empty, Wrong
<1>3. CASE Connect
  BY <1>1, <1>3, ConnectPlaces DEF FeedIInv
<1>4. CASE ReadGap
  BY <1>1, <1>2, <1>4 DEF ReadGap, FeedIInv
<1>5. CASE ReadMessage
  BY <1>1, <1>5, ReadPlaces DEF FeedIInv
<1>6. CASE ReadEnd
  BY <1>1, <1>2, <1>6 DEF ReadEnd, FeedIInv
<1>7. CASE VenueMoves
  BY <1>1, <1>2, <1>7, StillPlaces DEF VenueMoves, FeedIInv
<1>8. CASE VenueSends
  <2>1. ConnectionInv'
    BY <1>8, SendPlaces
  <2> QED
    BY <1>1, <1>2, <1>8, <2>1 DEF VenueSends, FeedIInv
<1>9. CASE VenueSendsUnnumbered
  <2>1. ConnectionInv'
    BY <1>9, UnnumberedPlaces
  <2> QED
    BY <1>1, <1>2, <1>9, <2>1 DEF VenueSendsUnnumbered, FeedIInv
<1>10. CASE Lose
  <2>1. link \in {"open", "closed"} => ConnectionInv'
    BY <1>10, LosePlaces
  <2> QED
    BY <1>1, <1>2, <1>10, <2>1 DEF Lose, FeedIInv
<1>11. CASE Duplicate
  <2>1. link \in {"open", "closed"} => ConnectionInv'
    BY <1>11, DuplicatePlaces
  <2> QED
    BY <1>1, <1>2, <1>11, <2>1 DEF Duplicate, FeedIInv
<1>12. CASE Break
  BY <1>1, <1>2, <1>12 DEF Break, FeedIInv
<1>13. CASE VenueCloses
  BY <1>1, <1>2, <1>13, StillPlaces DEF VenueCloses, FeedIInv
<1>14. CASE UNCHANGED vars
  BY <1>1, <1>2, <1>14, StillPlaces DEF vars, FeedIInv
<1> QED
  BY <1>3, <1>4, <1>5, <1>6, <1>7, <1>8, <1>9, <1>10, <1>11, <1>12, <1>13, <1>14
     DEF Next, Adapter, Venue, Network

(***************************************************************************)
(* Theorems.                                                               *)
(***************************************************************************)

(* Whatever the network does, the task's state is well formed: a book of   *)
(* the venue's, none, or a wrong one, and no more in flight than there may *)
(* be (_dispatch, stream_market_data).                                     *)
THEOREM FeedTypesTheorem == Spec => []TypeOK
<1>1. Init => FeedTypes
  BY FeedInitially DEF FeedIInv
<1>2. FeedTypes /\ [Next]_vars => FeedTypes'
  BY TypesKeep
<1>3. FeedTypes => TypeOK
  BY DEF FeedTypes
<1> QED
  BY <1>1, <1>2, <1>3, PTL DEF Spec

(* As long as every loss lies between two numbers, checking each number    *)
(* against the last (stream_market_data) is enough: however losses,        *)
(* repeats, unnumbered messages, breaks and closings follow each other,    *)
(* no change is ever applied to a book it was not made from.               *)
THEOREM BookTheorem ==
  ASSUME "lose_blind" \notin Faults
  PROVE  Spec => []BookNeverWrong
<1>1. Init => FeedIInv
  BY FeedInitially
<1>2. FeedIInv /\ [Next]_vars => FeedIInv'
  BY FeedKeeps
<1>3. FeedIInv => BookNeverWrong
  BY DEF FeedIInv, BookNeverWrong
<1> QED
  BY <1>1, <1>2, <1>3, PTL DEF Spec

(* Under the same losses, once everything sent on the open connection has  *)
(* been read, a book that is shown is the version the venue sent last.     *)
THEOREM ChannelTheorem ==
  ASSUME "lose_blind" \notin Faults
  PROVE  Spec => []BookFollowsChannel
<1>1. Init => FeedIInv
  BY FeedInitially
<1>2. FeedIInv /\ [Next]_vars => FeedIInv'
  BY FeedKeeps
<1>3. FeedIInv => BookFollowsChannel
  <2> SUFFICES ASSUME FeedIInv, link = "open", last_seq # NoSeq, next_seq = last_seq + 1
               PROVE  book = sent \/ sent = NoSeq
    BY DEF BookFollowsChannel
  <2>1. PICK log \in Logs, at \in [0..Len(channel) -> Int] : Placed(log, at) /\ BookAt(log, at)
    BY DEF FeedIInv, ConnectionInv
  <2>2. last_seq = at[0] /\ log[next_seq - 1] = sent
    BY <2>1 DEF Placed
  <2>3. next_seq - 1 = last_seq
    BY ChannelFacts DEF FeedIInv, NoSeq
  <2> QED
    BY <2>1, <2>2, <2>3 DEF BookAt
<1> QED
  BY <1>1, <1>2, <1>3, PTL DEF Spec
=============================================================================
