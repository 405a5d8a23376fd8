---------------------------- MODULE Outbox_proofs ----------------------------
(***************************************************************************)
(* Proofs about Outbox: what the queue's operations do to a queue whose    *)
(* byte count is exact, and from that the inductive invariant of the       *)
(* specification.                                                          *)
(***************************************************************************)
EXTENDS Outbox, Sums_proofs

----------------------------------------------------------------------------
(* The inductive invariant.                                                *)

\* The losses on the way to the queue that control still has to report.
Missed(packets) == Total([i \in 1..Len(packets) |-> IF packets[i].what = "missed" THEN 1 ELSE 0])

\* What a client can know to be lost or received once it has been told all that
\* goes out before the records.
Known == heard.records + heard.lost + q.lost + Missed(q.control)

\* A stream with a forwarder was announced, or will be before its frames; only
\* such a stream has frames.
StartsOK ==
  /\ heard.early = {}
  /\ ~q.closed => \A s \in Streams : task[s] # "none" =>
       s \in heard.started \/ \E i \in 1..Len(q.control) :
                                  q.control[i].what = "started" /\ q.control[i].id = s
  /\ \A i \in 1..Len(q.audio) : task[q.audio[i].id] # "none"
  /\ \A i \in 1..Len(q.media) : task[q.media[i].id] # "none"

\* What a client was or will be told to have stopped is a stream that stopped.
StopsOK ==
  /\ heard.stopped \subseteq stops
  /\ \A i \in 1..Len(q.control) : q.control[i].what = "stopped" => q.control[i].id \in stops
  /\ \A i \in 1..Len(q.audio) : q.audio[i].id \in heard.stopped => q.audio[i].late
  /\ \A i \in 1..Len(q.media) : q.media[i].id \in heard.stopped => q.media[i].late

\* The i-th record waiting is at most the i-th after what a client can know of.
RecordsOK ==
  /\ \A i \in 1..Len(q.decoded) : q.decoded[i].n <= Known + i
  /\ ~q.closed => pushed.records <= Known + Len(q.decoded)

\* A record that was missed was made.
MissedOK == pushed.missed <= pushed.records

\* The inductive invariant.
IInv ==
  /\ TypeOK /\ BytesExact /\ EveryPacketAccounted
  /\ StartsOK /\ StopsOK /\ RecordsOK /\ MissedOK

----------------------------------------------------------------------------
(* Packets, and sums over a lane.                                          *)

Packets == Controls \cup Records \cup Frames
SizeOf == [p \in Packets |-> p.size]
MissOf == [p \in Packets |-> IF p.what = "missed" THEN 1 ELSE 0]

LEMMA PacketSizes ==
  /\ \A p \in Controls : p \in Packets /\ p.size = 1
  /\ \A p \in Records : p \in Packets /\ p.size = 1 /\ p.n \in Nat /\ p.what = "record"
  /\ \A p \in Frames : p \in Packets /\ p.size \in FrameSizes /\ p.size \in Nat /\ p.id \in Streams
                         /\ p.what = "frame"
  /\ \A p \in Packets : p.size \in Nat
<1>1. \A p \in Controls : p.size = 1
  BY DEF Controls
<1>2. \A p \in Records : p.size = 1 /\ p.n \in Nat /\ p.what = "record"
  BY DEF Records
<1>3. \A p \in Frames : p.size \in FrameSizes /\ p.id \in Streams /\ p.what = "frame"
  BY DEF Frames
<1>4. \A n \in FrameSizes : n \in Nat
  BY OutboxAssumption
<1>5. \A p : p \in Packets <=> p \in Controls \/ p \in Records \/ p \in Frames
  BY DEF Packets
<1> QED
  BY <1>1, <1>2, <1>3, <1>4, <1>5

LEMMA Weights == SizeOf \in [Packets -> Nat] /\ MissOf \in [Packets -> Nat]
BY PacketSizes DEF SizeOf, MissOf

LEMMA LanesHoldPackets ==
  /\ \A s \in Seq(Controls) : s \in Seq(Packets)
  /\ \A s \in Seq(Records) : s \in Seq(Packets)
  /\ \A s \in Seq(Frames) : s \in Seq(Packets)
<1>1. Controls \subseteq Packets /\ Records \subseteq Packets /\ Frames \subseteq Packets
  BY DEF Packets
<1> QED
  BY <1>1, SeqMonotonic

LEMMA BytesIsSum == ASSUME NEW s \in Seq(Packets) PROVE Bytes(s) = SumOf(SizeOf, s)
<1>1. \A i \in 1..Len(s) : s[i] \in Packets
  OBVIOUS
<1>2. \A i \in 1..Len(s) : SizeOf[s[i]] = s[i].size
  BY <1>1 DEF SizeOf
<1>3. Mapped(SizeOf, s) = [i \in 1..Len(s) |-> s[i].size]
  BY <1>2 DEF Mapped
<1> QED
  BY <1>3 DEF Bytes, SumOf

LEMMA MissedIsSum == ASSUME NEW s \in Seq(Packets) PROVE Missed(s) = SumOf(MissOf, s)
<1>1. \A i \in 1..Len(s) : s[i] \in Packets
  OBVIOUS
<1>2. \A i \in 1..Len(s) : MissOf[s[i]] = IF s[i].what = "missed" THEN 1 ELSE 0
  BY <1>1 DEF MissOf
<1>3. Mapped(MissOf, s) = [i \in 1..Len(s) |-> IF s[i].what = "missed" THEN 1 ELSE 0]
  BY <1>2 DEF Mapped
<1> QED
  BY <1>3 DEF Missed, SumOf

LEMMA BytesType == ASSUME NEW s \in Seq(Packets) PROVE Bytes(s) \in Nat
BY BytesIsSum, SumType, Weights

LEMMA MissedType == ASSUME NEW s \in Seq(Packets) PROVE Missed(s) \in Nat
BY MissedIsSum, SumType, Weights

LEMMA NoBytes == Bytes(<<>>) = 0 /\ Missed(<<>>) = 0
<1>1. <<>> \in Seq(Packets)
  OBVIOUS
<1> QED
  BY <1>1, BytesIsSum, MissedIsSum, SumEmpty, Weights

LEMMA BytesConcat ==
  ASSUME NEW s \in Seq(Packets), NEW t \in Seq(Packets)
  PROVE  Bytes(s \o t) = Bytes(s) + Bytes(t)
<1>1. s \o t \in Seq(Packets)
  OBVIOUS
<1>2. SumOf(SizeOf, s \o t) = SumOf(SizeOf, s) + SumOf(SizeOf, t)
  BY SumConcat, Weights, Zenon
<1> QED
  BY <1>1, <1>2, BytesIsSum

LEMMA BytesAppend ==
  ASSUME NEW s \in Seq(Packets), NEW p \in Packets
  PROVE  /\ Bytes(Append(s, p)) = Bytes(s) + p.size
         /\ Missed(Append(s, p)) = Missed(s) + IF p.what = "missed" THEN 1 ELSE 0
<1>1. Append(s, p) \in Seq(Packets)
  OBVIOUS
<1>2. SumOf(SizeOf, Append(s, p)) = SumOf(SizeOf, s) + SizeOf[p]
  BY SumAppend, Weights, Zenon
<1>3. SumOf(MissOf, Append(s, p)) = SumOf(MissOf, s) + MissOf[p]
  BY SumAppend, Weights, Zenon
<1>4. SizeOf[p] = p.size /\ MissOf[p] = IF p.what = "missed" THEN 1 ELSE 0
  BY DEF SizeOf, MissOf
<1>5. /\ Bytes(Append(s, p)) = SumOf(SizeOf, Append(s, p)) /\ Bytes(s) = SumOf(SizeOf, s)
      /\ Missed(Append(s, p)) = SumOf(MissOf, Append(s, p)) /\ Missed(s) = SumOf(MissOf, s)
  BY <1>1, BytesIsSum, MissedIsSum
<1> QED
  BY <1>2, <1>3, <1>4, <1>5

LEMMA BytesTail ==
  ASSUME NEW s \in Seq(Packets), s # <<>>
  PROVE  Bytes(s) = s[1].size + Bytes(Tail(s)) /\ s[1].size \in Nat
<1>1. Tail(s) \in Seq(Packets) /\ Head(s) \in Packets /\ Head(s) = s[1]
  OBVIOUS
<1>2. SumOf(SizeOf, s) = SizeOf[Head(s)] + SumOf(SizeOf, Tail(s))
  BY SumTail, Weights, Zenon
<1>3. SizeOf[Head(s)] = s[1].size
  BY <1>1 DEF SizeOf
<1> QED
  BY <1>1, <1>2, <1>3, BytesIsSum, PacketSizes

LEMMA BytesCut ==
  ASSUME NEW s \in Seq(Packets), NEW n \in 0..Len(s)
  PROVE  /\ Bytes(s) = Bytes(SubSeq(s, 1, n)) + Bytes(Without(s, n))
         /\ Bytes(SubSeq(s, 1, n)) \in Nat /\ Bytes(Without(s, n)) \in Nat
<1> DEFINE a == SubSeq(s, 1, n)
           b == SubSeq(s, n + 1, Len(s))
<1>1. a \in Seq(Packets) /\ b \in Seq(Packets)
  BY Cut, Zenon
<1>2. SumOf(SizeOf, s) = SumOf(SizeOf, a) + SumOf(SizeOf, b)
  BY SumCut, Weights, Zenon
<1> HIDE DEF a, b
<1>3. Bytes(s) = Bytes(a) + Bytes(b) /\ Bytes(a) \in Nat /\ Bytes(b) \in Nat
  BY <1>1, <1>2, BytesIsSum, BytesType
<1> QED
  BY <1>3 DEF a, b, Without

LEMMA BytesOut ==
  ASSUME NEW s \in Seq(Packets), NEW i \in 1..Len(s)
  PROVE  /\ Bytes(s) = s[i].size + Bytes(RemoveAt(s, i)) /\ s[i].size \in Nat
         /\ Bytes(RemoveAt(s, i)) \in Nat
         /\ Missed(s) = Missed(RemoveAt(s, i)) + IF s[i].what = "missed" THEN 1 ELSE 0
<1> DEFINE o == Out(s, i)
<1>1. o \in Seq(Packets) /\ s[i] \in Packets
  BY TakenOut, Zenon
<1>2. SumOf(SizeOf, s) = SizeOf[s[i]] + SumOf(SizeOf, o)
  BY SumOut, Weights, Zenon
<1>3. SumOf(MissOf, s) = MissOf[s[i]] + SumOf(MissOf, o)
  BY SumOut, Weights, Zenon
<1>4. o = RemoveAt(s, i)
  BY DEF Out, RemoveAt
<1> HIDE DEF o
<1>5. SizeOf[s[i]] = s[i].size /\ (MissOf[s[i]] = IF s[i].what = "missed" THEN 1 ELSE 0)
      /\ s[i].size \in Nat
  BY <1>1, PacketSizes DEF SizeOf, MissOf
<1>6. /\ Bytes(o) = SumOf(SizeOf, o) /\ Bytes(s) = SumOf(SizeOf, s) /\ Bytes(o) \in Nat
      /\ Missed(o) = SumOf(MissOf, o) /\ Missed(s) = SumOf(MissOf, s) /\ Missed(o) \in Nat
  BY <1>1, BytesIsSum, MissedIsSum, BytesType, MissedType
<1>7. /\ Bytes(s) = s[i].size + Bytes(o)
      /\ Missed(s) = Missed(o) + IF s[i].what = "missed" THEN 1 ELSE 0
  BY <1>2, <1>3, <1>5, <1>6
<1> QED
  BY <1>4, <1>5, <1>6, <1>7

\* Control that reports no loss.
LEMMA NothingMissed ==
  ASSUME NEW s \in Seq(Packets), \A i \in 1..Len(s) : s[i].what # "missed"
  PROVE  Missed(s) = 0
<1>1. \A i \in 1..Len(s) : s[i] \in Packets
  OBVIOUS
<1>2. \A i \in 1..Len(s) : MissOf[s[i]] = 0
  BY <1>1 DEF MissOf
<1>3. SumOf(MissOf, s) = 0
  BY <1>2, SumZero, Weights, Zenon
<1> QED
  BY <1>3, MissedIsSum

----------------------------------------------------------------------------
(* What the operations do to a queue.                                      *)

\* Every element of b is one of a.
Keeps(a, b) == \A i \in 1..Len(b) : \E j \in 1..Len(a) : b[i] = a[j]

\* The byte count is what is queued.
Exact(k) == k.bytes = Bytes(k.control) + Bytes(k.decoded) + Bytes(k.audio) + Bytes(k.media)

Good(k) == k \in Queues /\ Within(k) /\ Exact(k)

\* The frames and records of a queue, and those it has let go of.
Held(k) == k.dropped + Len(k.audio) + Len(k.media) + Len(k.decoded)

\* The lanes that are no business of frames.
SameRest(k, r) ==
  r.control = k.control /\ r.decoded = k.decoded /\ r.lost = k.lost /\ r.closed = k.closed

LEMMA Limits ==
  /\ ControlLimit \in Nat /\ DecodedLimit \in Nat /\ AudioLimit \in Nat /\ MediaLimit \in Nat
  /\ ByteLimit \in Nat /\ FrameLimit \in Nat
BY OutboxAssumption

\* The fields of a queue.
LEMMA Fields ==
  ASSUME NEW k \in Queues
  PROVE  /\ k.control \in Seq(Controls) /\ k.decoded \in Seq(Records)
         /\ k.audio \in Seq(Frames) /\ k.media \in Seq(Frames)
         /\ k.control \in Seq(Packets) /\ k.decoded \in Seq(Packets)
         /\ k.audio \in Seq(Packets) /\ k.media \in Seq(Packets)
         /\ k.bytes \in Nat /\ k.dropped \in Nat /\ k.lost \in Nat /\ k.closed \in BOOLEAN
         /\ Len(k.control) \in Nat /\ Len(k.decoded) \in Nat
         /\ Len(k.audio) \in Nat /\ Len(k.media) \in Nat
         /\ Bytes(k.control) \in Nat /\ Bytes(k.decoded) \in Nat
         /\ Bytes(k.audio) \in Nat /\ Bytes(k.media) \in Nat
<1>1. /\ k.control \in Seq(Controls) /\ k.decoded \in Seq(Records)
      /\ k.audio \in Seq(Frames) /\ k.media \in Seq(Frames)
      /\ k.bytes \in Nat /\ k.dropped \in Nat /\ k.lost \in Nat /\ k.closed \in BOOLEAN
  BY DEF Queues
<1>2. /\ k.control \in Seq(Packets) /\ k.decoded \in Seq(Packets)
      /\ k.audio \in Seq(Packets) /\ k.media \in Seq(Packets)
  BY <1>1, LanesHoldPackets
<1>3. /\ Len(k.control) \in Nat /\ Len(k.decoded) \in Nat
      /\ Len(k.audio) \in Nat /\ Len(k.media) \in Nat
  BY <1>1
<1> QED
  BY <1>1, <1>2, <1>3, BytesType

\* The oldest n of a lane of frames are gone.
LEMMA FramesCut ==
  ASSUME NEW s \in Seq(Frames), NEW n \in 0..Len(s)
  PROVE  /\ Without(s, n) \in Seq(Frames) /\ Len(Without(s, n)) = Len(s) - n
         /\ Keeps(s, Without(s, n))
         /\ Bytes(s) = Bytes(SubSeq(s, 1, n)) + Bytes(Without(s, n))
         /\ Bytes(SubSeq(s, 1, n)) \in Nat /\ Bytes(Without(s, n)) \in Nat
<1> DEFINE w == Without(s, n)
<1>1. /\ w \in Seq(Frames) /\ Len(w) = Len(s) - n
      /\ \A i \in 1..(Len(s) - n) : w[i] = s[n + i]
  BY Cut, Zenon DEF Without
<1>2. /\ Bytes(s) = Bytes(SubSeq(s, 1, n)) + Bytes(w)
      /\ Bytes(SubSeq(s, 1, n)) \in Nat /\ Bytes(w) \in Nat
  BY LanesHoldPackets, BytesCut
<1> HIDE DEF w
<1>3. Keeps(s, w)
  <2> SUFFICES ASSUME NEW i \in 1..Len(w) PROVE \E j \in 1..Len(s) : w[i] = s[j]
    BY DEF Keeps
  <2>1. n + i \in 1..Len(s) /\ w[i] = s[n + i]
    BY <1>1
  <2> QED
    BY <2>1
<1> QED
  BY <1>1, <1>2, <1>3 DEF w

LEMMA RecordsCut ==
  ASSUME NEW s \in Seq(Records), NEW n \in 0..Len(s)
  PROVE  /\ Without(s, n) \in Seq(Records) /\ Len(Without(s, n)) = Len(s) - n
         /\ \A i \in 1..(Len(s) - n) : Without(s, n)[i] = s[n + i]
         /\ Bytes(s) = Bytes(SubSeq(s, 1, n)) + Bytes(Without(s, n))
         /\ Bytes(SubSeq(s, 1, n)) \in Nat /\ Bytes(Without(s, n)) \in Nat
<1> DEFINE w == Without(s, n)
<1>1. /\ w \in Seq(Records) /\ Len(w) = Len(s) - n
      /\ \A i \in 1..(Len(s) - n) : w[i] = s[n + i]
  BY Cut, Zenon DEF Without
<1>2. /\ Bytes(s) = Bytes(SubSeq(s, 1, n)) + Bytes(w)
      /\ Bytes(SubSeq(s, 1, n)) \in Nat /\ Bytes(w) \in Nat
  BY LanesHoldPackets, BytesCut
<1> QED
  BY <1>1, <1>2

\* One frame is taken out.
LEMMA FrameOut ==
  ASSUME NEW s \in Seq(Frames), NEW i \in 1..Len(s)
  PROVE  /\ RemoveAt(s, i) \in Seq(Frames) /\ Len(RemoveAt(s, i)) = Len(s) - 1
         /\ Keeps(s, RemoveAt(s, i))
         /\ Bytes(s) = s[i].size + Bytes(RemoveAt(s, i)) /\ s[i].size \in Nat
         /\ Bytes(RemoveAt(s, i)) \in Nat
<1> DEFINE w == RemoveAt(s, i)
<1>1. /\ w \in Seq(Frames) /\ Len(w) = Len(s) - 1
      /\ \A j \in 1..Len(w) : w[j] = IF j < i THEN s[j] ELSE s[j + 1]
  <2>1. w = Out(s, i)
    BY DEF RemoveAt, Out
  <2> HIDE DEF w
  <2> QED
    BY <2>1, TakenOut, Zenon
<1>2. Bytes(s) = s[i].size + Bytes(w) /\ s[i].size \in Nat /\ Bytes(w) \in Nat
  BY LanesHoldPackets, BytesOut
<1> HIDE DEF w
<1>3. Keeps(s, w)
  <2> SUFFICES ASSUME NEW j \in 1..Len(w) PROVE \E m \in 1..Len(s) : w[j] = s[m]
    BY DEF Keeps
  <2>1. j \in 1..Len(s) /\ j + 1 \in 1..Len(s)
    BY <1>1
  <2>2. CASE j < i
    BY <1>1, <2>1, <2>2
  <2>3. CASE ~(j < i)
    BY <1>1, <2>1, <2>3
  <2> QED
    BY <2>2, <2>3
<1> QED
  BY <1>1, <1>2, <1>3 DEF w

\* One control message is taken out.
LEMMA ControlOut ==
  ASSUME NEW s \in Seq(Controls), NEW i \in 1..Len(s)
  PROVE  /\ RemoveAt(s, i) \in Seq(Controls) /\ Len(RemoveAt(s, i)) = Len(s) - 1
         /\ Keeps(s, RemoveAt(s, i))
         /\ \A j \in 1..Len(s) : j = i \/ \E m \in 1..Len(RemoveAt(s, i)) : RemoveAt(s, i)[m] = s[j]
         /\ Bytes(s) = s[i].size + Bytes(RemoveAt(s, i)) /\ s[i].size \in Nat
         /\ Bytes(RemoveAt(s, i)) \in Nat /\ s[i] \in Controls
         /\ Missed(s) = Missed(RemoveAt(s, i)) + IF s[i].what = "missed" THEN 1 ELSE 0
<1> DEFINE w == RemoveAt(s, i)
<1>1. /\ w \in Seq(Controls) /\ Len(w) = Len(s) - 1 /\ s[i] \in Controls
      /\ \A j \in 1..Len(w) : w[j] = IF j < i THEN s[j] ELSE s[j + 1]
  <2>1. w = Out(s, i)
    BY DEF RemoveAt, Out
  <2> HIDE DEF w
  <2> QED
    BY <2>1, TakenOut, Zenon
<1>2. /\ Bytes(s) = s[i].size + Bytes(w) /\ s[i].size \in Nat /\ Bytes(w) \in Nat
      /\ Missed(s) = Missed(w) + IF s[i].what = "missed" THEN 1 ELSE 0
  <2>1. s \in Seq(Packets)
    BY LanesHoldPackets
  <2> QED
    BY <2>1, BytesOut
<1> HIDE DEF w
<1>3. Keeps(s, w)
  <2> SUFFICES ASSUME NEW j \in 1..Len(w) PROVE \E m \in 1..Len(s) : w[j] = s[m]
    BY DEF Keeps
  <2>1. j \in 1..Len(s) /\ j + 1 \in 1..Len(s)
    BY <1>1
  <2>2. CASE j < i
    BY <1>1, <2>1, <2>2
  <2>3. CASE ~(j < i)
    BY <1>1, <2>1, <2>3
  <2> QED
    BY <2>2, <2>3
<1>4. ASSUME NEW j \in 1..Len(s), j # i PROVE \E m \in 1..Len(w) : w[m] = s[j]
  <2>1. CASE j < i
    <3>1. j \in 1..Len(w) /\ w[j] = s[j]
      BY <1>1, <2>1
    <3> QED
      BY <3>1
  <2>2. CASE j > i
    <3>1. j - 1 \in 1..Len(w) /\ ~(j - 1 < i) /\ (j - 1) + 1 = j
      BY <1>1, <2>2
    <3>2. w[j - 1] = s[j]
      BY <1>1, <3>1
    <3> QED
      BY <3>1, <3>2
  <2> QED
    BY <1>4, <2>1, <2>2
<1> QED
  BY <1>1, <1>2, <1>3, <1>4 DEF w

LEMMA KeepsAll == ASSUME NEW s PROVE Keeps(s, s)
BY DEF Keeps

LEMMA KeepsOn == ASSUME NEW a, NEW b, NEW c, Keeps(a, b), Keeps(b, c) PROVE Keeps(a, c)
BY DEF Keeps

LEMMA LeastIn ==
  ASSUME NEW S \in SUBSET Nat, S # {} PROVE Min(S) \in S /\ \A y \in S : Min(S) <= y
BY LeastNumber DEF Min

\* One element is put behind a lane.
LEMMA AppendOne ==
  ASSUME NEW P, NEW s \in Seq(P), NEW e \in P
  PROVE  /\ Append(s, e) \in Seq(P) /\ Len(Append(s, e)) = Len(s) + 1
         /\ Append(s, e)[Len(s) + 1] = e /\ Len(s) + 1 \in 1..Len(Append(s, e))
         /\ \A i \in 1..Len(s) : Append(s, e)[i] = s[i]
         /\ \A i \in 1..Len(Append(s, e)) :
               Append(s, e)[i] = e \/ \E j \in 1..Len(s) : Append(s, e)[i] = s[j]
<1>1. /\ Append(s, e) \in Seq(P) /\ Len(Append(s, e)) = Len(s) + 1 /\ Len(s) \in Nat
      /\ Append(s, e)[Len(s) + 1] = e
      /\ \A i \in 1..Len(s) : Append(s, e)[i] = s[i]
  OBVIOUS
<1>2. \A i \in 1..(Len(s) + 1) : i \in 1..Len(s) \/ i = Len(s) + 1
  BY <1>1
<1>3. Len(s) + 1 \in 1..(Len(s) + 1)
  BY <1>1
<1> QED
  BY <1>1, <1>2, <1>3

\* i frames of sound and j others.
Cuts(k, i, j) == i \in 0..Len(k.audio) /\ j \in 0..Len(k.media)

\* Frames that are too old are counted.
LEMMA ExpiredOK ==
  ASSUME NEW k, Good(k), NEW i, NEW j, Cuts(k, i, j)
  PROVE  /\ Good(Expired(k, i, j)) /\ SameRest(k, Expired(k, i, j))
         /\ Keeps(k.audio, Expired(k, i, j).audio) /\ Keeps(k.media, Expired(k, i, j).media)
         /\ Held(Expired(k, i, j)) = Held(k)
<1> DEFINE e == Expired(k, i, j)
           a == Without(k.audio, i)
           m == Without(k.media, j)
           ga == Bytes(SubSeq(k.audio, 1, i))
           gm == Bytes(SubSeq(k.media, 1, j))
<1>1. k \in Queues /\ Within(k) /\ Exact(k)
  BY DEF Good
<1>t. k.audio \in Seq(Frames) /\ k.media \in Seq(Frames) /\ k.dropped \in Nat
  BY <1>1, Fields
<1>l. Len(k.decoded) \in Nat /\ Len(k.audio) \in Nat /\ Len(k.media) \in Nat /\ k.dropped \in Nat
  BY <1>1, Fields
<1>b. /\ Bytes(k.control) \in Nat /\ Bytes(k.decoded) \in Nat /\ k.bytes \in Nat
      /\ Bytes(k.audio) \in Nat /\ Bytes(k.media) \in Nat
      /\ k.bytes = Bytes(k.control) + Bytes(k.decoded) + Bytes(k.audio) + Bytes(k.media)
  BY <1>1, Fields DEF Exact
<1>w. /\ Len(k.control) <= ControlLimit /\ Len(k.decoded) <= DecodedLimit
      /\ Len(k.audio) <= AudioLimit /\ Len(k.media) <= MediaLimit /\ k.bytes <= ByteLimit
  BY <1>1 DEF Within
<1>3. /\ a \in Seq(Frames) /\ Len(a) = Len(k.audio) - i /\ Keeps(k.audio, a)
      /\ Bytes(k.audio) = ga + Bytes(a) /\ ga \in Nat /\ Bytes(a) \in Nat
  BY <1>t, FramesCut DEF Cuts
<1>4. /\ m \in Seq(Frames) /\ Len(m) = Len(k.media) - j /\ Keeps(k.media, m)
      /\ Bytes(k.media) = gm + Bytes(m) /\ gm \in Nat /\ Bytes(m) \in Nat
  BY <1>t, FramesCut DEF Cuts
<1>n. Len(a) <= Len(k.audio) /\ Len(m) <= Len(k.media) /\ i \in Nat /\ j \in Nat
  BY <1>3, <1>4, <1>l, SMTT(30) DEF Cuts
<1>5. e = [k EXCEPT !.audio = a, !.media = m, !.bytes = k.bytes - ga - gm,
                    !.dropped = k.dropped + i + j]
  BY DEF Expired
<1> HIDE DEF e, a, m, ga, gm
<1>6. /\ k.bytes - ga - gm = Bytes(k.control) + Bytes(k.decoded) + Bytes(a) + Bytes(m)
      /\ k.bytes - ga - gm \in Nat /\ k.bytes - ga - gm <= k.bytes
  <2>1. /\ Bytes(k.audio) = ga + Bytes(a) /\ ga \in Nat /\ Bytes(a) \in Nat
        /\ Bytes(k.media) = gm + Bytes(m) /\ gm \in Nat /\ Bytes(m) \in Nat
    BY <1>3, <1>4
  <2>2. k.bytes - ga - gm = Bytes(k.control) + Bytes(k.decoded) + Bytes(a) + Bytes(m)
    BY <1>b, <2>1
  <2>3. Bytes(k.control) + Bytes(k.decoded) + Bytes(a) + Bytes(m) \in Nat
    BY <1>b, <2>1
  <2>4. k.bytes - ga - gm <= k.bytes
    BY <1>b, <2>1
  <2> QED
    BY <2>2, <2>3, <2>4
<1>7. /\ e \in Queues /\ e.control = k.control /\ e.decoded = k.decoded /\ e.audio = a
      /\ e.media = m /\ e.lost = k.lost /\ e.closed = k.closed /\ e.bytes = k.bytes - ga - gm
      /\ e.dropped = k.dropped + i + j
  <2> DEFINE b == k.bytes - ga - gm
             d == k.dropped + i + j
  <2>1. b \in Nat /\ d \in Nat /\ a \in Seq(Frames) /\ m \in Seq(Frames)
    <3>1. b \in Nat
      BY <1>6
    <3>2. d \in Nat
      BY <1>l, <1>n
    <3> QED
      BY <3>1, <3>2, <1>3, <1>4
  <2> HIDE DEF b, d
  <2>2. e = [k EXCEPT !.audio = a, !.media = m, !.bytes = b, !.dropped = d]
    BY <1>5 DEF b, d
  <2>3. /\ e \in Queues /\ e.control = k.control /\ e.decoded = k.decoded /\ e.audio = a
        /\ e.media = m /\ e.lost = k.lost /\ e.closed = k.closed /\ e.bytes = b /\ e.dropped = d
    BY <1>1, <2>1, <2>2 DEF Queues
  <2> QED
    BY <2>3 DEF b, d
<1>8. Within(e)
  <2>1. Len(e.audio) <= AudioLimit /\ Len(e.media) <= MediaLimit
    <3> DEFINE x == Len(a)
               y == Len(m)
               la == Len(k.audio)
               lm == Len(k.media)
    <3>1. x \in Nat /\ y \in Nat
      BY <1>3, <1>4
    <3>2. /\ x <= la /\ la <= AudioLimit /\ la \in Nat
          /\ y <= lm /\ lm <= MediaLimit /\ lm \in Nat
      BY <1>w, <1>n, <1>l
    <3> HIDE DEF x, y, la, lm
    <3>3. x <= AudioLimit /\ y <= MediaLimit
      BY <3>1, <3>2, Limits
    <3> QED
      BY <3>3, <1>7 DEF x, y
  <2>2. e.bytes <= ByteLimit
    BY <1>6, <1>7, <1>b, <1>w, Limits
  <2> QED
    BY <2>1, <2>2, <1>7, <1>w DEF Within
<1>9. Exact(e)
  BY <1>6, <1>7 DEF Exact
<1>10. Held(e) = Held(k)
  <2> DEFINE la == Len(k.audio)
             lm == Len(k.media)
             ld == Len(k.decoded)
  <2>t. la \in Nat /\ lm \in Nat /\ ld \in Nat /\ k.dropped \in Nat
    BY <1>l
  <2>1. Held(e) = (k.dropped + i + j) + (la - i) + (lm - j) + ld
    BY <1>3, <1>4, <1>7 DEF Held
  <2>h. Held(k) = k.dropped + la + lm + ld
    BY DEF Held
  <2> HIDE DEF la, lm, ld
  <2> QED
    BY <2>1, <2>t, <1>n, <2>h
<1> QED
  BY <1>3, <1>4, <1>7, <1>8, <1>9, <1>10 DEF Good, SameRest, e

\* A frame that is replaced is counted.
LEMMA ReplacedOK ==
  ASSUME NEW k, Good(k), NEW f \in Frames
  PROVE  /\ Good(Replaced(k, f)) /\ SameRest(k, Replaced(k, f))
         /\ Keeps(k.audio, Replaced(k, f).audio) /\ Keeps(k.media, Replaced(k, f).media)
         /\ Held(Replaced(k, f)) = Held(k)
<1> DEFINE r == Replaced(k, f)
           same == {i \in 1..Len(k.media) : k.media[i].id = f.id}
           i == Min(same)
           m == RemoveAt(k.media, i)
           g == k.media[i].size
<1>1. k \in Queues /\ Within(k) /\ Exact(k)
  BY DEF Good
<1>t. k.audio \in Seq(Frames) /\ k.media \in Seq(Frames) /\ k.dropped \in Nat
  BY <1>1, Fields
<1>l. Len(k.decoded) \in Nat /\ Len(k.audio) \in Nat /\ Len(k.media) \in Nat /\ k.dropped \in Nat
  BY <1>1, Fields
<1>b. /\ Bytes(k.control) \in Nat /\ Bytes(k.decoded) \in Nat /\ k.bytes \in Nat
      /\ Bytes(k.audio) \in Nat /\ Bytes(k.media) \in Nat
      /\ k.bytes = Bytes(k.control) + Bytes(k.decoded) + Bytes(k.audio) + Bytes(k.media)
  BY <1>1, Fields DEF Exact
<1>w. /\ Len(k.control) <= ControlLimit /\ Len(k.decoded) <= DecodedLimit
      /\ Len(k.audio) <= AudioLimit /\ Len(k.media) <= MediaLimit /\ k.bytes <= ByteLimit
  BY <1>1 DEF Within
<1>3. CASE f.id \in AudioStreams \/ same = {}
  <2>1. r = k
    BY <1>3 DEF Replaced
  <2> QED
    BY <2>1, KeepsAll DEF SameRest
<1>4. CASE ~(f.id \in AudioStreams \/ same = {})
  <2>1. r = [k EXCEPT !.media = m, !.bytes = k.bytes - g, !.dropped = k.dropped + 1]
    BY <1>4 DEF Replaced
  <2>2. same \in SUBSET Nat /\ same # {} /\ \A x \in same : x \in 1..Len(k.media)
    BY <1>4, <1>l
  <2> HIDE DEF same
  <2>3. i \in 1..Len(k.media)
    BY <2>2, LeastIn
  <2> HIDE DEF i
  <2>4. /\ m \in Seq(Frames) /\ Len(m) = Len(k.media) - 1 /\ Keeps(k.media, m)
        /\ Bytes(k.media) = g + Bytes(m) /\ g \in Nat /\ Bytes(m) \in Nat
    BY <1>t, <2>3, FrameOut
  <2> HIDE DEF r, m, g
  <2>6. k.bytes - g = Bytes(k.control) + Bytes(k.decoded) + Bytes(k.audio) + Bytes(m)
        /\ k.bytes - g \in Nat /\ k.bytes - g <= k.bytes
    <3>1. Bytes(k.media) = g + Bytes(m) /\ g \in Nat /\ Bytes(m) \in Nat
      BY <2>4
    <3> QED
      BY <3>1, <1>b
  <2>7. /\ r \in Queues /\ r.control = k.control /\ r.decoded = k.decoded /\ r.audio = k.audio
        /\ r.media = m /\ r.lost = k.lost /\ r.closed = k.closed /\ r.bytes = k.bytes - g
        /\ r.dropped = k.dropped + 1
    <3> DEFINE b == k.bytes - g
               d == k.dropped + 1
    <3>1. b \in Nat /\ d \in Nat /\ m \in Seq(Frames)
      BY <1>l, <2>4, <2>6
    <3> HIDE DEF b, d
    <3>2. r = [k EXCEPT !.media = m, !.bytes = b, !.dropped = d]
      BY <2>1 DEF b, d
    <3>3. /\ r \in Queues /\ r.control = k.control /\ r.decoded = k.decoded /\ r.audio = k.audio
          /\ r.media = m /\ r.lost = k.lost /\ r.closed = k.closed /\ r.bytes = b /\ r.dropped = d
      BY <1>1, <3>1, <3>2 DEF Queues
    <3> QED
      BY <3>3 DEF b, d
  <2>8. Within(r)
    <3>1. Len(r.media) <= MediaLimit
      BY <1>l, <1>w, <2>4, <2>7, Limits
    <3>2. r.bytes <= ByteLimit
      BY <1>b, <1>w, <2>6, <2>7, Limits
    <3> QED
      BY <3>1, <3>2, <1>w, <2>7 DEF Within
  <2>9. Exact(r)
    BY <2>6, <2>7 DEF Exact
  <2>10. Held(r) = Held(k)
    <3> DEFINE la == Len(k.audio)
               lm == Len(k.media)
               ld == Len(k.decoded)
    <3>t. la \in Nat /\ lm \in Nat /\ ld \in Nat /\ k.dropped \in Nat
      BY <1>l
    <3>1. Held(r) = (k.dropped + 1) + la + (lm - 1) + ld
      BY <2>4, <2>7 DEF Held
    <3>h. Held(k) = k.dropped + la + lm + ld
      BY DEF Held
    <3> HIDE DEF la, lm, ld
    <3> QED
      BY <3>1, <3>t, <3>h
  <2> QED
    BY <2>4, <2>7, <2>8, <2>9, <2>10, KeepsAll DEF Good, SameRest, r
<1> QED
  BY <1>3, <1>4

\* A frame is taken in or counted; it disturbs no other lane.
LEMMA PushFrameOK ==
  ASSUME NEW k, Good(k), NEW f \in Frames
  PROVE  LET r == PushFrame(k, f)
         IN /\ Good(r) /\ SameRest(k, r) /\ Held(r) = Held(k) + 1
            /\ \A i \in 1..Len(r.audio) : r.audio[i] = f \/ \E j \in 1..Len(k.audio) : r.audio[i] = k.audio[j]
            /\ \A i \in 1..Len(r.media) : r.media[i] = f \/ \E j \in 1..Len(k.media) : r.media[i] = k.media[j]
<1> DEFINE b == Replaced(k, f)
           r == PushFrame(k, f)
           audio == f.id \in AudioStreams
           full == IF audio THEN Len(b.audio) >= AudioLimit ELSE Len(b.media) >= MediaLimit
           no == f.size > FrameLimit \/ b.bytes + f.size > ByteLimit \/ full
           aa == Append(b.audio, f)
           mm == Append(b.media, f)
<1>1. /\ Good(b) /\ SameRest(k, b) /\ Keeps(k.audio, b.audio) /\ Keeps(k.media, b.media)
      /\ Held(b) = Held(k)
  BY ReplacedOK
<1>2. r = IF no THEN [b EXCEPT !.dropped = b.dropped + 1]
          ELSE IF audio THEN [b EXCEPT !.audio = aa, !.bytes = b.bytes + f.size]
          ELSE [b EXCEPT !.media = mm, !.bytes = b.bytes + f.size]
  BY Zenon DEF PushFrame
<1>3. b \in Queues /\ Within(b) /\ Exact(b)
  BY <1>1 DEF Good
<1>4. f.size \in Nat /\ f \in Packets
  BY PacketSizes
<1> HIDE DEF b, r
<1>t. /\ b.audio \in Seq(Frames) /\ b.media \in Seq(Frames)
      /\ b.audio \in Seq(Packets) /\ b.media \in Seq(Packets)
  BY <1>3, Fields
<1>l. /\ Len(b.decoded) \in Nat /\ Len(b.audio) \in Nat /\ Len(b.media) \in Nat
      /\ b.dropped \in Nat /\ b.bytes \in Nat
  BY <1>3, Fields
<1>b. /\ Bytes(b.control) \in Nat /\ Bytes(b.decoded) \in Nat /\ b.bytes \in Nat
      /\ Bytes(b.audio) \in Nat /\ Bytes(b.media) \in Nat
      /\ b.bytes = Bytes(b.control) + Bytes(b.decoded) + Bytes(b.audio) + Bytes(b.media)
  BY <1>3, Fields DEF Exact
<1>w. /\ Len(b.control) <= ControlLimit /\ Len(b.decoded) <= DecodedLimit
      /\ Len(b.audio) <= AudioLimit /\ Len(b.media) <= MediaLimit /\ b.bytes <= ByteLimit
  BY <1>3 DEF Within
<1>6. /\ aa \in Seq(Frames) /\ Len(aa) = Len(b.audio) + 1
      /\ \A i \in 1..Len(aa) : aa[i] = f \/ \E j \in 1..Len(b.audio) : aa[i] = b.audio[j]
  BY <1>t, AppendOne
<1>7. /\ mm \in Seq(Frames) /\ Len(mm) = Len(b.media) + 1
      /\ \A i \in 1..Len(mm) : mm[i] = f \/ \E j \in 1..Len(b.media) : mm[i] = b.media[j]
  <2> DEFINE x == b.media
  <2>1. x \in Seq(Frames)
    BY <1>t
  <2> HIDE DEF x
  <2>2. /\ Append(x, f) \in Seq(Frames) /\ Len(Append(x, f)) = Len(x) + 1
        /\ \A i \in 1..Len(Append(x, f)) :
              Append(x, f)[i] = f \/ \E j \in 1..Len(x) : Append(x, f)[i] = x[j]
    BY <2>1, AppendOne
  <2> QED
    BY <2>2 DEF x
<1>8. Bytes(aa) = Bytes(b.audio) + f.size /\ Bytes(mm) = Bytes(b.media) + f.size
  BY <1>4, <1>t, BytesAppend
<1> HIDE DEF aa, mm
<1>9. SUFFICES /\ Good(r) /\ SameRest(b, r) /\ Held(r) = Held(b) + 1
               /\ \A i \in 1..Len(r.audio) :
                     r.audio[i] = f \/ \E j \in 1..Len(b.audio) : r.audio[i] = b.audio[j]
               /\ \A i \in 1..Len(r.media) :
                     r.media[i] = f \/ \E j \in 1..Len(b.media) : r.media[i] = b.media[j]
  <2>1. SameRest(b, r) => SameRest(k, r)
    BY <1>1 DEF SameRest
  <2>2. (\A i \in 1..Len(r.audio) :
            r.audio[i] = f \/ \E j \in 1..Len(b.audio) : r.audio[i] = b.audio[j])
        => \A i \in 1..Len(r.audio) :
            r.audio[i] = f \/ \E j \in 1..Len(k.audio) : r.audio[i] = k.audio[j]
    BY <1>1 DEF Keeps
  <2>3. (\A i \in 1..Len(r.media) :
            r.media[i] = f \/ \E j \in 1..Len(b.media) : r.media[i] = b.media[j])
        => \A i \in 1..Len(r.media) :
            r.media[i] = f \/ \E j \in 1..Len(k.media) : r.media[i] = k.media[j]
    BY <1>1 DEF Keeps
  <2> QED
    BY <2>1, <2>2, <2>3, <1>1 DEF r
<1>10. CASE no
  <2>1. r = [b EXCEPT !.dropped = b.dropped + 1]
    BY <1>2, <1>10
  <2>2. /\ r \in Queues /\ r.control = b.control /\ r.decoded = b.decoded /\ r.audio = b.audio
        /\ r.media = b.media /\ r.lost = b.lost /\ r.closed = b.closed /\ r.bytes = b.bytes
        /\ r.dropped = b.dropped + 1
    <3> DEFINE d == b.dropped + 1
    <3>1. d \in Nat
      BY <1>l
    <3> HIDE DEF d
    <3>2. r = [b EXCEPT !.dropped = d]
      BY <2>1 DEF d
    <3>3. /\ r \in Queues /\ r.control = b.control /\ r.decoded = b.decoded /\ r.audio = b.audio
          /\ r.media = b.media /\ r.lost = b.lost /\ r.closed = b.closed /\ r.bytes = b.bytes
          /\ r.dropped = d
      BY <1>3, <3>1, <3>2 DEF Queues
    <3> QED
      BY <3>3 DEF d
  <2>3. Within(r) /\ Exact(r)
    BY <1>3, <2>2 DEF Within, Exact
  <2>4. Held(r) = Held(b) + 1
    <3> DEFINE la == Len(b.audio)
               lm == Len(b.media)
               ld == Len(b.decoded)
    <3>t. la \in Nat /\ lm \in Nat /\ ld \in Nat /\ b.dropped \in Nat
      BY <1>l
    <3>1. Held(r) = (b.dropped + 1) + la + lm + ld
      BY <2>2 DEF Held
    <3>h. Held(b) = b.dropped + la + lm + ld
      BY DEF Held
    <3> HIDE DEF la, lm, ld
    <3> QED
      BY <3>1, <3>t, <3>h
  <2> QED
    BY <2>2, <2>3, <2>4 DEF Good, SameRest
<1>11. CASE ~no /\ audio
  <2>1. r = [b EXCEPT !.audio = aa, !.bytes = b.bytes + f.size]
    BY <1>2, <1>11
  <2>2. b.bytes + f.size <= ByteLimit /\ Len(b.audio) < AudioLimit
    BY <1>4, <1>l, <1>11, Limits
  <2> HIDE DEF no, audio, full
  <2>3. /\ r \in Queues /\ r.control = b.control /\ r.decoded = b.decoded /\ r.audio = aa
        /\ r.media = b.media /\ r.lost = b.lost /\ r.closed = b.closed
        /\ r.bytes = b.bytes + f.size /\ r.dropped = b.dropped
    <3> DEFINE c == b.bytes + f.size
    <3>1. c \in Nat /\ aa \in Seq(Frames)
      BY <1>4, <1>l, <1>6
    <3> HIDE DEF c
    <3>2. r = [b EXCEPT !.audio = aa, !.bytes = c]
      BY <2>1 DEF c
    <3>3. /\ r \in Queues /\ r.control = b.control /\ r.decoded = b.decoded /\ r.audio = aa
          /\ r.media = b.media /\ r.lost = b.lost /\ r.closed = b.closed /\ r.bytes = c
          /\ r.dropped = b.dropped
      BY <1>3, <3>1, <3>2 DEF Queues
    <3> QED
      BY <3>3 DEF c
  <2>4. Within(r)
    <3>1. Len(aa) <= AudioLimit
      BY <1>l, <1>6, <2>2, Limits
    <3> QED
      BY <3>1, <1>w, <2>2, <2>3 DEF Within
  <2>5. Exact(r)
    <3>1. b.bytes + f.size = Bytes(b.control) + Bytes(b.decoded) + Bytes(aa) + Bytes(b.media)
      BY <1>4, <1>8, <1>b
    <3> QED
      BY <3>1, <2>3 DEF Exact
  <2>6. Held(r) = Held(b) + 1
    <3> DEFINE la == Len(b.audio)
               lm == Len(b.media)
               ld == Len(b.decoded)
    <3>t. la \in Nat /\ lm \in Nat /\ ld \in Nat /\ b.dropped \in Nat
      BY <1>l
    <3>1. Held(r) = b.dropped + (la + 1) + lm + ld
      BY <1>6, <2>3 DEF Held
    <3>h. Held(b) = b.dropped + la + lm + ld
      BY DEF Held
    <3> HIDE DEF la, lm, ld
    <3> QED
      BY <3>1, <3>t, <3>h
  <2>7. \A i \in 1..Len(aa) : aa[i] = f \/ \E j \in 1..Len(b.audio) : aa[i] = b.audio[j]
    BY <1>6
  <2> QED
    BY <2>3, <2>4, <2>5, <2>6, <2>7 DEF Good, SameRest
<1>12. CASE ~no /\ ~audio
  <2>1. r = [b EXCEPT !.media = mm, !.bytes = b.bytes + f.size]
    BY <1>2, <1>12
  <2>2. b.bytes + f.size <= ByteLimit /\ Len(b.media) < MediaLimit
    BY <1>4, <1>l, <1>12, Limits
  <2> HIDE DEF no, audio, full
  <2>3. /\ r \in Queues /\ r.control = b.control /\ r.decoded = b.decoded /\ r.audio = b.audio
        /\ r.media = mm /\ r.lost = b.lost /\ r.closed = b.closed
        /\ r.bytes = b.bytes + f.size /\ r.dropped = b.dropped
    <3> DEFINE c == b.bytes + f.size
    <3>1. c \in Nat /\ mm \in Seq(Frames)
      BY <1>4, <1>l, <1>7
    <3> HIDE DEF c
    <3>2. r = [b EXCEPT !.media = mm, !.bytes = c]
      BY <2>1 DEF c
    <3>3. /\ r \in Queues /\ r.control = b.control /\ r.decoded = b.decoded /\ r.audio = b.audio
          /\ r.media = mm /\ r.lost = b.lost /\ r.closed = b.closed /\ r.bytes = c
          /\ r.dropped = b.dropped
      BY <1>3, <3>1, <3>2 DEF Queues
    <3> QED
      BY <3>3 DEF c
  <2>4. Within(r)
    <3>1. Len(mm) <= MediaLimit
      BY <1>l, <1>7, <2>2, Limits
    <3> QED
      BY <3>1, <1>w, <2>2, <2>3 DEF Within
  <2>5. Exact(r)
    <3>1. b.bytes + f.size = Bytes(b.control) + Bytes(b.decoded) + Bytes(b.audio) + Bytes(mm)
      BY <1>4, <1>8, <1>b
    <3> QED
      BY <3>1, <2>3 DEF Exact
  <2>6. Held(r) = Held(b) + 1
    <3> DEFINE la == Len(b.audio)
               lm == Len(b.media)
               ld == Len(b.decoded)
    <3>t. la \in Nat /\ lm \in Nat /\ ld \in Nat /\ b.dropped \in Nat
      BY <1>l
    <3>1. Held(r) = b.dropped + la + (lm + 1) + ld
      BY <1>7, <2>3 DEF Held
    <3>h. Held(b) = b.dropped + la + lm + ld
      BY DEF Held
    <3> HIDE DEF la, lm, ld
    <3> QED
      BY <3>1, <3>t, <3>h
  <2>7. \A i \in 1..Len(mm) : mm[i] = f \/ \E j \in 1..Len(b.media) : mm[i] = b.media[j]
    BY <1>7
  <2> QED
    BY <2>3, <2>4, <2>5, <2>6, <2>7 DEF Good, SameRest
<1> QED
  BY <1>10, <1>11, <1>12

\* n records.
Sheds(k, n) == n \in 0..Len(k.decoded)

\* Records that are shed are counted twice: as dropped, and as lost.
LEMMA ShedOK ==
  ASSUME NEW k, Good(k), NEW n, Sheds(k, n)
  PROVE  LET r == Shed(k, n)
         IN /\ Good(r) /\ r.control = k.control /\ r.audio = k.audio /\ r.media = k.media
            /\ r.closed = k.closed /\ r.decoded = Without(k.decoded, n) /\ r.lost = k.lost + n
            /\ r.dropped = k.dropped + n
            /\ r.bytes = k.bytes - Bytes(SubSeq(k.decoded, 1, n)) /\ Held(r) = Held(k)
            /\ Len(r.decoded) = Len(k.decoded) - n
<1> DEFINE r == Shed(k, n)
           w == Without(k.decoded, n)
           g == Bytes(SubSeq(k.decoded, 1, n))
           c == k.bytes - g
           d == k.dropped + n
           x == k.lost + n
<1>1. k \in Queues /\ Within(k) /\ Exact(k)
  BY DEF Good
<1>t. k.decoded \in Seq(Records) /\ k.dropped \in Nat /\ k.lost \in Nat
  BY <1>1, Fields
<1>l. Len(k.decoded) \in Nat /\ Len(k.audio) \in Nat /\ Len(k.media) \in Nat /\ k.dropped \in Nat
  BY <1>1, Fields
<1>b. /\ Bytes(k.control) \in Nat /\ Bytes(k.decoded) \in Nat /\ k.bytes \in Nat
      /\ Bytes(k.audio) \in Nat /\ Bytes(k.media) \in Nat
      /\ k.bytes = Bytes(k.control) + Bytes(k.decoded) + Bytes(k.audio) + Bytes(k.media)
  BY <1>1, Fields DEF Exact
<1>w. /\ Len(k.control) <= ControlLimit /\ Len(k.decoded) <= DecodedLimit
      /\ Len(k.audio) <= AudioLimit /\ Len(k.media) <= MediaLimit /\ k.bytes <= ByteLimit
  BY <1>1 DEF Within
<1>n. n \in Nat /\ n <= Len(k.decoded)
  BY <1>l DEF Sheds
<1>2. /\ w \in Seq(Records) /\ Len(w) = Len(k.decoded) - n
      /\ Bytes(k.decoded) = g + Bytes(w) /\ g \in Nat /\ Bytes(w) \in Nat
  BY <1>t, RecordsCut DEF Sheds
<1>3. r = [k EXCEPT !.decoded = w, !.bytes = c, !.dropped = d, !.lost = x]
  BY DEF Shed
<1> HIDE DEF r, w, g
<1>4. /\ c = Bytes(k.control) + Bytes(w) + Bytes(k.audio) + Bytes(k.media) /\ c \in Nat /\ c <= k.bytes
  <2>1. Bytes(k.decoded) = g + Bytes(w) /\ g \in Nat /\ Bytes(w) \in Nat
    BY <1>2
  <2> QED
    BY <1>b, <2>1
<1>5. d \in Nat /\ x \in Nat
  BY <1>t, <1>n
<1> HIDE DEF c, d, x
<1>6. /\ r \in Queues /\ r.control = k.control /\ r.decoded = w /\ r.audio = k.audio
      /\ r.media = k.media /\ r.lost = x /\ r.closed = k.closed /\ r.bytes = c /\ r.dropped = d
  <2>1. c \in Nat /\ w \in Seq(Records)
    BY <1>2, <1>4
  <2> QED
    BY <1>1, <1>3, <1>5, <2>1 DEF Queues
<1>7. Within(r)
  <2>1. Len(w) <= DecodedLimit
    BY <1>l, <1>n, <1>w, <1>2, Limits
  <2>2. c <= ByteLimit
    BY <1>b, <1>w, <1>4, Limits
  <2> QED
    BY <2>1, <2>2, <1>w, <1>6 DEF Within
<1>8. Exact(r)
  BY <1>4, <1>6 DEF Exact
<1>9. Held(r) = Held(k)
  <2> DEFINE la == Len(k.audio)
             lm == Len(k.media)
             ld == Len(k.decoded)
  <2>1. la \in Nat /\ lm \in Nat /\ ld \in Nat /\ k.dropped \in Nat /\ n \in Nat
    BY <1>l, <1>n
  <2>2. Held(r) = (k.dropped + n) + la + lm + (ld - n)
    BY <1>2, <1>6 DEF Held, d
  <2>3. Held(k) = k.dropped + la + lm + ld
    BY DEF Held
  <2> HIDE DEF la, lm, ld
  <2> QED
    BY <2>1, <2>2, <2>3
<1> QED
  BY <1>2, <1>6, <1>7, <1>8, <1>9 DEF Good, r, w, x, d, c, g

\* n records made way for p, or all of them did and it was still too much.
TakesRecord(k, r, n, p) ==
  /\ Sheds(k, n)
  /\ \/ r.decoded = Append(Without(k.decoded, n), p) /\ r.lost = k.lost + n
     \/ n = Len(k.decoded) /\ r.decoded = Without(k.decoded, n) /\ r.lost = k.lost + n + 1

LEMMA PushLossyOK ==
  ASSUME NEW k, Good(k), NEW p \in Records
  PROVE  LET r == PushLossy(k, p)
         IN /\ Good(r) /\ r.control = k.control /\ r.audio = k.audio /\ r.media = k.media
            /\ r.closed = k.closed /\ Held(r) = Held(k) + 1
            /\ \E n : TakesRecord(k, r, n, p)
<1> DEFINE Fits(n) == /\ Len(k.decoded) - n < DecodedLimit
                      /\ k.bytes - Bytes(SubSeq(k.decoded, 1, n)) + p.size <= ByteLimit
           enough == {n \in 0..Len(k.decoded) : Fits(n)}
           r == PushLossy(k, p)
<1>1. k \in Queues
  BY DEF Good
<1>l. Len(k.decoded) \in Nat
  BY <1>1, Fields
<1>p. p.size \in Nat /\ p.size = 1 /\ p \in Packets
  BY PacketSizes
<1>2. r = IF enough # {}
          THEN [Shed(k, Min(enough)) EXCEPT !.decoded = Append(@, p), !.bytes = @ + p.size]
          ELSE [Shed(k, Len(k.decoded)) EXCEPT !.dropped = @ + 1, !.lost = @ + 1]
  BY Zenon DEF PushLossy
<1>3. CASE enough # {}
  <2> DEFINE n == Min(enough)
             b == Shed(k, n)
             w == Append(b.decoded, p)
             c == b.bytes + p.size
  <2>1. n \in enough
    <3>1. enough \in SUBSET Nat
      BY <1>l
    <3> HIDE DEF enough
    <3> QED
      BY <1>3, <3>1, LeastIn
  <2>2. Sheds(k, n) /\ Fits(n)
    BY <2>1 DEF Sheds
  <2>3. /\ Good(b) /\ b.control = k.control /\ b.audio = k.audio /\ b.media = k.media
        /\ b.closed = k.closed /\ b.decoded = Without(k.decoded, n) /\ b.lost = k.lost + n
        /\ b.bytes = k.bytes - Bytes(SubSeq(k.decoded, 1, n)) /\ Held(b) = Held(k)
        /\ Len(b.decoded) = Len(k.decoded) - n
    BY <2>2, ShedOK
  <2>4. r = [b EXCEPT !.decoded = w, !.bytes = c]
    BY <1>2, <1>3
  <2>5. Len(b.decoded) < DecodedLimit /\ b.bytes + p.size <= ByteLimit
    BY <2>2, <2>3
  <2> HIDE DEF enough, r, b, n
  <2>6. b \in Queues /\ Within(b) /\ Exact(b)
    BY <2>3 DEF Good
  <2>l. /\ Len(b.decoded) \in Nat /\ Len(b.audio) \in Nat /\ Len(b.media) \in Nat
        /\ b.dropped \in Nat /\ b.bytes \in Nat
    BY <2>6, Fields
  <2>b. /\ Bytes(b.control) \in Nat /\ Bytes(b.decoded) \in Nat /\ b.bytes \in Nat
        /\ Bytes(b.audio) \in Nat /\ Bytes(b.media) \in Nat
        /\ b.bytes = Bytes(b.control) + Bytes(b.decoded) + Bytes(b.audio) + Bytes(b.media)
    BY <2>6, Fields DEF Exact
  <2>w. /\ Len(b.control) <= ControlLimit /\ Len(b.audio) <= AudioLimit /\ Len(b.media) <= MediaLimit
    BY <2>6 DEF Within
  <2>7. w \in Seq(Records) /\ Len(w) = Len(b.decoded) + 1 /\ Bytes(w) = Bytes(b.decoded) + p.size
    <3>1. b.decoded \in Seq(Records) /\ b.decoded \in Seq(Packets)
      BY <2>6, Fields
    <3>2. Bytes(w) = Bytes(b.decoded) + p.size
      BY <3>1, <1>p, BytesAppend
    <3> QED
      BY <3>1, <3>2, AppendOne
  <2>8. c \in Nat /\ c = Bytes(b.control) + Bytes(w) + Bytes(b.audio) + Bytes(b.media) /\ c <= ByteLimit
    <3>1. Bytes(w) = Bytes(b.decoded) + p.size
      BY <2>7
    <3> QED
      BY <3>1, <2>b, <1>p, <2>5
  <2> HIDE DEF w, c
  <2>9. /\ r \in Queues /\ r.control = b.control /\ r.decoded = w /\ r.audio = b.audio
        /\ r.media = b.media /\ r.lost = b.lost /\ r.closed = b.closed /\ r.bytes = c
        /\ r.dropped = b.dropped
    <3>1. c \in Nat /\ w \in Seq(Records)
      BY <2>7, <2>8
    <3> QED
      BY <2>4, <2>6, <3>1 DEF Queues
  <2>10. Within(r)
    <3>1. Len(w) <= DecodedLimit
      BY <2>5, <2>7, <2>l, Limits
    <3> QED
      BY <3>1, <2>8, <2>9, <2>w DEF Within
  <2>11. Exact(r)
    BY <2>8, <2>9 DEF Exact
  <2>12. Held(r) = Held(b) + 1
    <3> DEFINE la == Len(b.audio)
               lm == Len(b.media)
               ld == Len(b.decoded)
    <3>1. la \in Nat /\ lm \in Nat /\ ld \in Nat /\ b.dropped \in Nat
      BY <2>l
    <3>2. Held(r) = b.dropped + la + lm + (ld + 1)
      BY <2>7, <2>9 DEF Held
    <3>3. Held(b) = b.dropped + la + lm + ld
      BY DEF Held
    <3> HIDE DEF la, lm, ld
    <3> QED
      BY <3>1, <3>2, <3>3
  <2>13. TakesRecord(k, r, n, p)
    BY <2>2, <2>3, <2>9 DEF TakesRecord, w
  <2> QED
    BY <2>3, <2>9, <2>10, <2>11, <2>12, <2>13 DEF Good, r
<1>4. CASE enough = {}
  <2> DEFINE n == Len(k.decoded)
             b == Shed(k, n)
             d == b.dropped + 1
             x == b.lost + 1
  <2>1. Sheds(k, n)
    BY <1>l DEF Sheds
  <2>2. /\ Good(b) /\ b.control = k.control /\ b.audio = k.audio /\ b.media = k.media
        /\ b.closed = k.closed /\ b.decoded = Without(k.decoded, n) /\ b.lost = k.lost + n
        /\ Held(b) = Held(k)
    BY <2>1, ShedOK
  <2>3. r = [b EXCEPT !.dropped = d, !.lost = x]
    BY <1>2, <1>4
  <2> HIDE DEF enough, r, b
  <2>4. b \in Queues /\ Within(b) /\ Exact(b)
    BY <2>2 DEF Good
  <2>l. /\ Len(b.decoded) \in Nat /\ Len(b.audio) \in Nat /\ Len(b.media) \in Nat
        /\ b.dropped \in Nat
    BY <2>4, Fields
  <2>5. d \in Nat /\ x \in Nat
    BY <2>4, Fields
  <2> HIDE DEF d, x
  <2>6. /\ r \in Queues /\ r.control = b.control /\ r.decoded = b.decoded /\ r.audio = b.audio
        /\ r.media = b.media /\ r.lost = x /\ r.closed = b.closed /\ r.bytes = b.bytes
        /\ r.dropped = d
    BY <2>3, <2>4, <2>5 DEF Queues
  <2>7. Within(r) /\ Exact(r)
    BY <2>4, <2>6 DEF Within, Exact
  <2>8. Held(r) = Held(b) + 1
    <3> DEFINE la == Len(b.audio)
               lm == Len(b.media)
               ld == Len(b.decoded)
    <3>1. la \in Nat /\ lm \in Nat /\ ld \in Nat /\ b.dropped \in Nat
      BY <2>l
    <3>2. Held(r) = (b.dropped + 1) + la + lm + ld
      BY <2>6 DEF Held, d
    <3>3. Held(b) = b.dropped + la + lm + ld
      BY DEF Held
    <3> HIDE DEF la, lm, ld
    <3> QED
      BY <3>1, <3>2, <3>3
  <2>9. TakesRecord(k, r, n, p)
    BY <2>1, <2>2, <2>6 DEF TakesRecord, x
  <2> QED
    BY <2>2, <2>6, <2>7, <2>8, <2>9 DEF Good, r
<1> QED
  BY <1>3, <1>4

\* The bytes of the first n of two lanes, one behind the other.
LEMMA FramesPrefix ==
  ASSUME NEW s \in Seq(Frames), NEW t \in Seq(Frames), NEW n \in Nat, n <= Len(s) + Len(t)
  PROVE  /\ n <= Len(s) => Bytes(SubSeq(s \o t, 1, n)) = Bytes(SubSeq(s, 1, n))
         /\ n > Len(s) => Bytes(SubSeq(s \o t, 1, n)) = Bytes(s) + Bytes(SubSeq(t, 1, n - Len(s)))
<1> DEFINE u == s \o t
<1>0. Len(s) \in Nat /\ Len(t) \in Nat
  OBVIOUS
<1>1. ASSUME n <= Len(s) PROVE Bytes(SubSeq(u, 1, n)) = Bytes(SubSeq(s, 1, n))
  <2>1. CASE n = 0
    <3>1. SubSeq(u, 1, n) = <<>> /\ SubSeq(s, 1, n) = <<>>
      <4>1. u \in Seq(Frames)
        BY ConcatProperties
      <4> HIDE DEF u
      <4> QED
        BY <2>1, <4>1, SubSeqEmpty
    <3> QED
      BY <3>1
  <2>2. CASE n # 0
    <3>1. 1 \in 1..Len(s) /\ n \in 1..Len(s)
      BY <1>0, <1>1, <2>2
    <3>2. SubSeq(u, 1, n) = SubSeq(s, 1, n)
      BY <3>1, SubSeqOfConcat1, Zenon
    <3> QED
      BY <3>2
  <2> QED
    BY <2>1, <2>2
<1>2. ASSUME n > Len(s) PROVE Bytes(SubSeq(u, 1, n)) = Bytes(s) + Bytes(SubSeq(t, 1, n - Len(s)))
  <2> DEFINE m == n - Len(s)
             g == Bytes(SubSeq(t, 1, m))
             wt == Without(t, m)
             wu == Without(u, n)
  <2>0. /\ u \in Seq(Frames) /\ Len(u) = Len(s) + Len(t)
        /\ s \in Seq(Packets) /\ t \in Seq(Packets) /\ u \in Seq(Packets)
    <3>1. u \in Seq(Frames) /\ Len(u) = Len(s) + Len(t)
      BY ConcatProperties
    <3> QED
      BY <3>1, LanesHoldPackets
  <2>1. m \in 0..Len(t) /\ n \in 0..Len(u)
    BY <1>0, <1>2, <2>0
  <2>2. Bytes(u) = Bytes(s) + Bytes(t)
    BY <2>0, BytesConcat
  <2>3. Bytes(t) = g + Bytes(wt) /\ g \in Nat /\ Bytes(wt) \in Nat
    BY <2>0, <2>1, BytesCut
  <2>4. /\ Bytes(u) = Bytes(SubSeq(u, 1, n)) + Bytes(wu)
        /\ Bytes(SubSeq(u, 1, n)) \in Nat /\ Bytes(wu) \in Nat
    <3> HIDE DEF u
    <3> QED
      BY <2>0, <2>1, BytesCut
  <2>5. wu = wt
    <3>1. CASE n = Len(s) + Len(t)
      <4>1. wu = <<>>
        <5> HIDE DEF u
        <5>1. n + 1 \in Nat /\ n + 1 > Len(u) /\ Len(u) \in Nat /\ Len(u) = n
          BY <1>0, <2>0, <3>1
        <5> QED
          BY <5>1, <2>0 DEF Without
      <4>2. wt = <<>>
        <5>1. m + 1 \in Nat /\ m = Len(t)
          BY <1>0, <3>1
        <5> HIDE DEF m
        <5> QED
          BY <5>1, <1>0 DEF Without
      <4> QED
        BY <4>1, <4>2
    <3>2. CASE n # Len(s) + Len(t)
      <4>1. /\ n + 1 \in (Len(s) + 1)..(Len(s) + Len(t))
            /\ Len(s) + Len(t) \in (Len(s) + 1)..(Len(s) + Len(t))
        BY <1>0, <1>2, <3>2
      <4>2. SubSeq(u, n + 1, Len(s) + Len(t))
               = SubSeq(t, (n + 1) - Len(s), (Len(s) + Len(t)) - Len(s))
        BY <4>1, SubSeqOfConcat2, Zenon
      <4>3. (n + 1) - Len(s) = m + 1 /\ (Len(s) + Len(t)) - Len(s) = Len(t)
        BY <1>0
      <4> HIDE DEF u, m
      <4> QED
        BY <4>2, <4>3, <2>0 DEF Without
    <3> QED
      BY <3>1, <3>2
  <2>6. Bytes(s) \in Nat
    BY <2>0, BytesType
  <2> HIDE DEF m, g, wt, wu, u
  <2>7. Bytes(SubSeq(u, 1, n)) = Bytes(s) + g
    <3> DEFINE z == Bytes(SubSeq(u, 1, n))
    <3>1. z \in Nat /\ Bytes(u) = z + Bytes(wt)
      BY <2>4, <2>5
    <3> HIDE DEF z
    <3>2. z = Bytes(s) + g
      BY <3>1, <2>2, <2>3, <2>6
    <3> QED
      BY <3>2 DEF z
  <2> QED
    BY <2>7 DEF u, g, m
<1> QED
  BY <1>1, <1>2

\* n frames make way for control.
Cleared(k, n) ==
  [k EXCEPT !.media = Without(@, n),
            !.audio = IF n > Len(k.media) THEN Without(@, n - Len(k.media)) ELSE @,
            !.bytes = @ - Bytes(SubSeq(k.media \o k.audio, 1, n)),
            !.dropped = @ + n]

Clears(k, n) == n \in 0..Len(k.media \o k.audio)

LEMMA ClearedOK ==
  ASSUME NEW k, Good(k), NEW n, Clears(k, n)
  PROVE  LET r == Cleared(k, n)
         IN /\ Good(r) /\ SameRest(k, r) /\ Keeps(k.audio, r.audio) /\ Keeps(k.media, r.media)
            /\ Held(r) = Held(k) /\ r.bytes = k.bytes - Bytes(SubSeq(k.media \o k.audio, 1, n))
<1> DEFINE r == Cleared(k, n)
           a == IF n > Len(k.media) THEN Without(k.audio, n - Len(k.media)) ELSE k.audio
           m == Without(k.media, n)
           g == Bytes(SubSeq(k.media \o k.audio, 1, n))
           c == k.bytes - g
           d == k.dropped + n
           la == Len(k.audio)
           lm == Len(k.media)
           ld == Len(k.decoded)
<1>1. k \in Queues /\ Within(k) /\ Exact(k)
  BY DEF Good
<1>t. k.audio \in Seq(Frames) /\ k.media \in Seq(Frames) /\ k.dropped \in Nat
  BY <1>1, Fields
<1>l. ld \in Nat /\ la \in Nat /\ lm \in Nat /\ k.dropped \in Nat
  BY <1>1, Fields
<1>b. /\ Bytes(k.control) \in Nat /\ Bytes(k.decoded) \in Nat /\ k.bytes \in Nat
      /\ Bytes(k.audio) \in Nat /\ Bytes(k.media) \in Nat
      /\ k.bytes = Bytes(k.control) + Bytes(k.decoded) + Bytes(k.audio) + Bytes(k.media)
  BY <1>1, Fields DEF Exact
<1>w. /\ Len(k.control) <= ControlLimit /\ Len(k.decoded) <= DecodedLimit
      /\ la <= AudioLimit /\ lm <= MediaLimit /\ k.bytes <= ByteLimit
  BY <1>1 DEF Within
<1>n. n \in Nat /\ n <= lm + la
  <2>1. Len(k.media \o k.audio) = lm + la
    BY <1>t, ConcatProperties
  <2>2. n \in 0..(lm + la)
    BY <2>1 DEF Clears
  <2> HIDE DEF lm, la
  <2> QED
    BY <2>2, <1>l
<1>2. r = [k EXCEPT !.audio = a, !.media = m, !.bytes = c, !.dropped = d]
  BY DEF Cleared
<1>3. /\ a \in Seq(Frames) /\ m \in Seq(Frames) /\ Keeps(k.audio, a) /\ Keeps(k.media, m)
      /\ Len(a) \in Nat /\ Len(m) \in Nat /\ Len(a) + Len(m) = (la + lm) - n
      /\ Len(a) <= la /\ Len(m) <= lm
      /\ Bytes(a) \in Nat /\ Bytes(m) \in Nat /\ g \in Nat
      /\ Bytes(k.audio) + Bytes(k.media) = g + (Bytes(a) + Bytes(m))
  <2>1. CASE n <= lm
    <3>1. a = k.audio
      BY <2>1, <1>l, <1>n
    <3>2. n \in 0..lm
      BY <2>1, <1>l, <1>n
    <3>3. /\ m \in Seq(Frames) /\ Len(m) = lm - n /\ Keeps(k.media, m)
          /\ Bytes(k.media) = Bytes(SubSeq(k.media, 1, n)) + Bytes(m)
          /\ Bytes(SubSeq(k.media, 1, n)) \in Nat /\ Bytes(m) \in Nat
      BY <3>2, <1>t, FramesCut
    <3>4. g = Bytes(SubSeq(k.media, 1, n))
      BY <2>1, <1>t, <1>n, FramesPrefix
    <3> HIDE DEF a, m, g
    <3>5. Len(a) \in Nat /\ Len(m) \in Nat /\ Len(a) + Len(m) = (la + lm) - n /\ Len(a) <= la /\ Len(m) <= lm
      <4>1. Len(a) = la /\ Len(m) = lm - n
        BY <3>1, <3>3
      <4> HIDE DEF la, lm
      <4> QED
        BY <4>1, <2>1, <1>l, <1>n
    <3>6. Bytes(a) \in Nat /\ Bytes(m) \in Nat /\ g \in Nat
      BY <3>1, <3>3, <3>4, <1>b
    <3>7. Bytes(k.audio) + Bytes(k.media) = g + (Bytes(a) + Bytes(m))
      <4>1. Bytes(k.media) = g + Bytes(m) /\ Bytes(k.audio) = Bytes(a)
        BY <3>1, <3>3, <3>4
      <4> HIDE DEF la, lm
      <4> QED
        BY <4>1, <3>6
    <3> QED
      BY <3>1, <3>3, <3>5, <3>6, <3>7, <1>t, KeepsAll
  <2>2. CASE n > lm
    <3> DEFINE j == n - lm
    <3>1. a = Without(k.audio, j)
      BY <2>2
    <3>2. j \in 0..la /\ j \in Nat
      <4> HIDE DEF la, lm
      <4> QED
        BY <2>2, <1>l, <1>n
    <3>3. /\ Without(k.audio, j) \in Seq(Frames) /\ Len(Without(k.audio, j)) = la - j
          /\ Keeps(k.audio, Without(k.audio, j))
          /\ Bytes(k.audio) = Bytes(SubSeq(k.audio, 1, j)) + Bytes(Without(k.audio, j))
          /\ Bytes(SubSeq(k.audio, 1, j)) \in Nat /\ Bytes(Without(k.audio, j)) \in Nat
      <4> HIDE DEF j
      <4> QED
        BY <3>2, <1>t, FramesCut
    <3>4. g = Bytes(k.media) + Bytes(SubSeq(k.audio, 1, j))
      BY <2>2, <1>t, <1>n, FramesPrefix
    <3>5. m = <<>>
      <4>1. n + 1 \in Nat /\ lm < n + 1
        BY <2>2, <1>l, <1>n
      <4>2. SubSeq(k.media, n + 1, Len(k.media)) = <<>>
        BY <4>1, <1>l, <1>t, SubSeqEmpty
      <4> QED
        BY <4>2 DEF Without
    <3> HIDE DEF a, m, g
    <3>6. Len(a) \in Nat /\ Len(m) \in Nat /\ Len(a) + Len(m) = (la + lm) - n /\ Len(a) <= la /\ Len(m) <= lm
      <4>1. Len(a) = la - j /\ Len(m) = 0
        BY <3>1, <3>3, <3>5
      <4> HIDE DEF la, lm
      <4> QED
        BY <4>1, <2>2, <1>l, <1>n
    <3>7. Bytes(a) \in Nat /\ Bytes(m) = 0 /\ g \in Nat
      BY <3>1, <3>3, <3>4, <3>5, <1>b, NoBytes
    <3>8. Bytes(k.audio) + Bytes(k.media) = g + (Bytes(a) + Bytes(m))
      <4> DEFINE y == Bytes(SubSeq(k.audio, 1, j))
      <4>1. Bytes(k.audio) = y + Bytes(a) /\ g = Bytes(k.media) + y /\ y \in Nat
        BY <3>1, <3>3, <3>4
      <4> HIDE DEF y, j, la, lm
      <4> QED
        BY <4>1, <3>7, <1>b
    <3>9. m \in Seq(Frames) /\ Keeps(k.media, m)
      BY <3>5 DEF Keeps
    <3>10. a \in Seq(Frames) /\ Keeps(k.audio, a)
      BY <3>1, <3>3
    <3>11. Bytes(m) \in Nat
      BY <3>7
    <3> HIDE DEF la, lm
    <3> QED
      BY <3>6, <3>7, <3>8, <3>9, <3>10, <3>11
  <2>3. n <= lm \/ n > lm
    <3> HIDE DEF la, lm
    <3> QED
      BY <1>l, <1>n
  <2> QED
    BY <2>1, <2>2, <2>3
<1> HIDE DEF r, a, m, g
<1>4. /\ c = Bytes(k.control) + Bytes(k.decoded) + Bytes(a) + Bytes(m) /\ c \in Nat /\ c <= k.bytes
  <2>1. /\ Bytes(a) \in Nat /\ Bytes(m) \in Nat /\ g \in Nat
        /\ Bytes(k.audio) + Bytes(k.media) = g + (Bytes(a) + Bytes(m))
    BY <1>3
  <2> HIDE DEF la, lm, ld
  <2> QED
    BY <1>b, <2>1
<1>5. d \in Nat
  BY <1>l, <1>n
<1> HIDE DEF c, d
<1>6. /\ r \in Queues /\ r.control = k.control /\ r.decoded = k.decoded /\ r.audio = a
      /\ r.media = m /\ r.lost = k.lost /\ r.closed = k.closed /\ r.bytes = c /\ r.dropped = d
  <2>1. c \in Nat /\ a \in Seq(Frames) /\ m \in Seq(Frames)
    BY <1>3, <1>4
  <2> QED
    BY <1>1, <1>2, <1>5, <2>1 DEF Queues
<1>7. Within(r)
  <2>1. Len(a) <= AudioLimit /\ Len(m) <= MediaLimit
    <3>1. Len(a) \in Nat /\ Len(m) \in Nat /\ Len(a) <= la /\ Len(m) <= lm
      BY <1>3
    <3> QED
      BY <3>1, <1>l, <1>w, Limits
  <2>2. c <= ByteLimit
    BY <1>b, <1>w, <1>4, Limits
  <2> QED
    BY <2>1, <2>2, <1>w, <1>6 DEF Within
<1>8. Exact(r)
  BY <1>4, <1>6 DEF Exact
<1>9. Held(r) = Held(k)
  <2> DEFINE ra == Len(a)
             rm == Len(m)
  <2>1. Held(r) = (k.dropped + n) + ra + rm + ld
    BY <1>6 DEF Held, d
  <2>2. Held(k) = k.dropped + la + lm + ld
    BY DEF Held
  <2>3. ra \in Nat /\ rm \in Nat /\ ra + rm = (la + lm) - n
    BY <1>3
  <2> HIDE DEF ra, rm, la, lm, ld
  <2> QED
    BY <2>1, <2>2, <2>3, <1>l, <1>n
<1> QED
  BY <1>3, <1>6, <1>7, <1>8, <1>9 DEF Good, SameRest, r, c, g

\* Control is taken in, or the queue is closed.
LEMMA PushControlOK ==
  ASSUME NEW k, Good(k), NEW p \in Controls
  PROVE  LET r == PushControl(k, p)
         IN /\ Good(r) /\ r.decoded = k.decoded /\ r.lost = k.lost
            /\ Keeps(k.audio, r.audio) /\ Keeps(k.media, r.media) /\ Held(r) = Held(k)
            /\ \/ r.closed = TRUE /\ r.control = k.control
               \/ r.closed = k.closed /\ r.control = Append(k.control, p)
<1> DEFINE r == PushControl(k, p)
           frames == k.media \o k.audio
           Fits(m) == k.bytes - Bytes(SubSeq(frames, 1, m)) + p.size <= ByteLimit
           ns == {Len(frames)} \cup {m \in 0..Len(frames) : Fits(m)}
           n == Min(ns)
           b == Cleared(k, n)
<1>1. k \in Queues /\ Within(k) /\ Exact(k)
  BY DEF Good
<1>p. p.size \in Nat /\ p.size = 1 /\ p \in Packets
  BY PacketSizes
<1>2. r = IF Len(k.control) >= ControlLimit \/ p.size > ByteLimit
          THEN [k EXCEPT !.closed = TRUE]
          ELSE IF Fits(n)
          THEN [b EXCEPT !.control = Append(@, p), !.bytes = @ + p.size]
          ELSE [b EXCEPT !.closed = TRUE]
  BY Zenon DEF PushControl, Cleared
<1>3. Clears(k, n)
  <2>1. Len(frames) \in Nat
    <3>1. k.media \in Seq(Frames) /\ k.audio \in Seq(Frames)
      BY <1>1, Fields
    <3>2. frames \in Seq(Frames)
      BY <3>1, ConcatProperties
    <3> HIDE DEF frames
    <3> QED
      BY <3>2
  <2>2. ns \in SUBSET Nat /\ ns # {} /\ \A x \in ns : x \in 0..Len(frames)
    <3> HIDE DEF frames, Fits
    <3> QED
      BY <2>1
  <2> HIDE DEF ns
  <2>3. n \in ns
    BY <2>2, LeastIn
  <2> QED
    BY <2>2, <2>3 DEF Clears
<1>4. /\ Good(b) /\ SameRest(k, b) /\ Keeps(k.audio, b.audio) /\ Keeps(k.media, b.media)
      /\ Held(b) = Held(k) /\ b.bytes = k.bytes - Bytes(SubSeq(frames, 1, n))
  BY <1>3, ClearedOK
<1>5. Fits(n) => b.bytes + p.size <= ByteLimit
  BY <1>4
<1>6. ASSUME NEW x, Good(x)
      PROVE  LET y == [x EXCEPT !.closed = TRUE]
             IN /\ Good(y) /\ y.control = x.control /\ y.decoded = x.decoded /\ y.lost = x.lost
                /\ y.audio = x.audio /\ y.media = x.media /\ Held(y) = Held(x) /\ y.closed = TRUE
  <2> DEFINE y == [x EXCEPT !.closed = TRUE]
  <2>1. /\ y \in Queues /\ y.control = x.control /\ y.decoded = x.decoded /\ y.lost = x.lost
        /\ y.audio = x.audio /\ y.media = x.media /\ y.bytes = x.bytes /\ y.dropped = x.dropped
        /\ y.closed = TRUE
    BY <1>6 DEF Good, Queues
  <2> HIDE DEF y
  <2>2. Good(y) /\ Held(y) = Held(x)
    BY <1>6, <2>1 DEF Good, Within, Exact, Held
  <2> QED
    BY <2>1, <2>2 DEF y
<1>7. CASE Len(k.control) >= ControlLimit \/ p.size > ByteLimit
  <2>1. r = [k EXCEPT !.closed = TRUE]
    BY <1>2, <1>7
  <2> HIDE DEF r, b, n
  <2>2. /\ Good(r) /\ r.control = k.control /\ r.decoded = k.decoded /\ r.lost = k.lost
        /\ r.audio = k.audio /\ r.media = k.media /\ Held(r) = Held(k) /\ r.closed = TRUE
    BY <2>1, <1>6
  <2> QED
    BY <2>2, KeepsAll DEF r
<1>8. CASE ~(Len(k.control) >= ControlLimit \/ p.size > ByteLimit) /\ ~Fits(n)
  <2>1. r = [b EXCEPT !.closed = TRUE]
    BY <1>2, <1>8
  <2> HIDE DEF r, b, n
  <2>2. /\ Good(r) /\ r.control = b.control /\ r.decoded = b.decoded /\ r.lost = b.lost
        /\ r.audio = b.audio /\ r.media = b.media /\ Held(r) = Held(b) /\ r.closed = TRUE
    BY <2>1, <1>4, <1>6
  <2> QED
    BY <2>2, <1>4 DEF r, SameRest
<1>9. CASE ~(Len(k.control) >= ControlLimit \/ p.size > ByteLimit) /\ Fits(n)
  <2> DEFINE w == Append(b.control, p)
             c == b.bytes + p.size
  <2>1. r = [b EXCEPT !.control = w, !.bytes = c]
    BY <1>2, <1>9
  <2>2. c <= ByteLimit
    BY <1>5, <1>9
  <2> HIDE DEF r, b, n
  <2>3. b \in Queues /\ Within(b) /\ Exact(b) /\ b.control = k.control
    BY <1>4 DEF Good, SameRest
  <2>4. w \in Seq(Controls) /\ Len(w) = Len(b.control) + 1 /\ Bytes(w) = Bytes(b.control) + p.size
    <3>1. b.control \in Seq(Controls) /\ b.control \in Seq(Packets)
      BY <2>3, Fields
    <3>2. Bytes(w) = Bytes(b.control) + p.size
      BY <3>1, <1>p, BytesAppend
    <3> QED
      BY <3>1, <3>2, AppendOne
  <2>5. c \in Nat /\ c = Bytes(w) + Bytes(b.decoded) + Bytes(b.audio) + Bytes(b.media)
    <3>1. /\ Bytes(b.control) \in Nat /\ Bytes(b.decoded) \in Nat /\ b.bytes \in Nat
          /\ Bytes(b.audio) \in Nat /\ Bytes(b.media) \in Nat
          /\ b.bytes = Bytes(b.control) + Bytes(b.decoded) + Bytes(b.audio) + Bytes(b.media)
      BY <2>3, Fields DEF Exact
    <3>2. Bytes(w) = Bytes(b.control) + p.size
      BY <2>4
    <3> HIDE DEF w
    <3> QED
      BY <3>1, <3>2, <1>p
  <2> HIDE DEF w, c
  <2>6. /\ r \in Queues /\ r.control = w /\ r.decoded = b.decoded /\ r.audio = b.audio
        /\ r.media = b.media /\ r.lost = b.lost /\ r.closed = b.closed /\ r.bytes = c
        /\ r.dropped = b.dropped
    <3>1. c \in Nat /\ w \in Seq(Controls)
      BY <2>4, <2>5
    <3> QED
      BY <2>1, <2>3, <3>1 DEF Queues
  <2>7. Within(r)
    <3>1. Len(b.control) \in Nat /\ Len(b.control) < ControlLimit
      <4>1. Len(k.control) \in Nat
        BY <1>1, Fields
      <4> QED
        BY <4>1, <2>3, <1>9, Limits
    <3>2. Len(w) <= ControlLimit
      BY <3>1, <2>4, Limits
    <3> QED
      BY <3>2, <2>2, <2>3, <2>6 DEF Within
  <2>8. Exact(r)
    BY <2>5, <2>6 DEF Exact
  <2>9. Held(r) = Held(b)
    BY <2>6 DEF Held
  <2>10. r.control = Append(k.control, p) /\ r.closed = k.closed /\ r.decoded = k.decoded
         /\ r.lost = k.lost
    BY <2>3, <2>6, <1>4 DEF SameRest, w
  <2>11. Keeps(k.audio, r.audio) /\ Keeps(k.media, r.media) /\ Held(r) = Held(k) /\ Good(r)
    BY <2>3, <2>6, <2>7, <2>8, <2>9, <1>4 DEF Good
  <2> QED
    BY <2>10, <2>11 DEF r
<1> QED
  BY <1>7, <1>8, <1>9

----------------------------------------------------------------------------
(* What Enqueue does.                                                      *)

LEMMA ControlsAre ==
  ASSUME NEW p \in Controls
  PROVE  /\ p.what \in {"started", "stopped", "event", "missed"}
         /\ p.what \in {"started", "stopped"} => p.id \in Streams
BY DEF Controls

LEMMA EnqueueControl ==
  ASSUME Good(q), NEW p \in Controls, Enqueue(p)
  PROVE  /\ Good(q') /\ permit' \in BOOLEAN /\ q'.decoded = q.decoded /\ q'.lost = q.lost
         /\ Keeps(q.audio, q'.audio) /\ Keeps(q.media, q'.media) /\ Held(q') = Held(q)
         /\ q.closed => q'.closed
         /\ q'.control = q.control \/ q'.control = Append(q.control, p)
         /\ ~q'.closed => q'.control = Append(q.control, p)
<1>1. PICK i \in 0..Len(q.audio), j \in 0..Len(q.media) : q' = Push(q, p, i, j)
  BY DEF Enqueue
<1>2. permit' \in BOOLEAN
  BY DEF Enqueue, NotifyOne
<1>3. p.what # "record" /\ p.what # "frame"
  BY ControlsAre
<1> DEFINE e == Expired(q, i, j)
           r == PushControl(e, p)
<1>4. q' = IF q.closed THEN q ELSE r
  BY <1>1, <1>3 DEF Push
<1>5. Cuts(q, i, j)
  BY <1>1 DEF Cuts
<1>6. /\ Good(e) /\ SameRest(q, e) /\ Keeps(q.audio, e.audio) /\ Keeps(q.media, e.media)
      /\ Held(e) = Held(q)
  BY <1>5, ExpiredOK
<1>7. /\ Good(r) /\ r.decoded = e.decoded /\ r.lost = e.lost
      /\ Keeps(e.audio, r.audio) /\ Keeps(e.media, r.media) /\ Held(r) = Held(e)
      /\ \/ r.closed = TRUE /\ r.control = e.control
         \/ r.closed = e.closed /\ r.control = Append(e.control, p)
  BY <1>6, PushControlOK
<1> HIDE DEF e, r
<1>8. CASE q.closed
  BY <1>2, <1>4, <1>8, KeepsAll
<1>9. CASE ~q.closed
  <2>1. q' = r
    BY <1>4, <1>9
  <2>2. Keeps(q.audio, r.audio) /\ Keeps(q.media, r.media)
    BY <1>6, <1>7, KeepsOn
  <2>3. /\ r.decoded = q.decoded /\ r.lost = q.lost /\ Held(r) = Held(q) /\ e.closed = q.closed
        /\ e.control = q.control
    BY <1>6, <1>7 DEF SameRest
  <2>4. ~r.closed => r.control = Append(q.control, p)
    BY <2>3, <1>7
  <2>5. r.control = q.control \/ r.control = Append(q.control, p)
    BY <2>3, <1>7
  <2> QED
    BY <1>2, <1>7, <1>9, <2>1, <2>2, <2>3, <2>4, <2>5
<1> QED
  BY <1>8, <1>9

LEMMA EnqueueFrame ==
  ASSUME Good(q), NEW f \in Frames, Enqueue(f), ~q.closed
  PROVE  /\ Good(q') /\ permit' \in BOOLEAN /\ SameRest(q, q') /\ Held(q') = Held(q) + 1
         /\ \A i \in 1..Len(q'.audio) :
               q'.audio[i] = f \/ \E j \in 1..Len(q.audio) : q'.audio[i] = q.audio[j]
         /\ \A i \in 1..Len(q'.media) :
               q'.media[i] = f \/ \E j \in 1..Len(q.media) : q'.media[i] = q.media[j]
<1>1. PICK i \in 0..Len(q.audio), j \in 0..Len(q.media) : q' = Push(q, f, i, j)
  BY DEF Enqueue
<1>2. permit' \in BOOLEAN
  BY DEF Enqueue, NotifyOne
<1>3. f.what = "frame"
  BY PacketSizes
<1> DEFINE e == Expired(q, i, j)
           r == PushFrame(e, f)
<1>4. q' = r
  BY <1>1, <1>3 DEF Push
<1>5. Cuts(q, i, j)
  BY <1>1 DEF Cuts
<1>6. /\ Good(e) /\ SameRest(q, e) /\ Keeps(q.audio, e.audio) /\ Keeps(q.media, e.media)
      /\ Held(e) = Held(q)
  BY <1>5, ExpiredOK
<1>7. /\ Good(r) /\ SameRest(e, r) /\ Held(r) = Held(e) + 1
      /\ \A x \in 1..Len(r.audio) : r.audio[x] = f \/ \E y \in 1..Len(e.audio) : r.audio[x] = e.audio[y]
      /\ \A x \in 1..Len(r.media) : r.media[x] = f \/ \E y \in 1..Len(e.media) : r.media[x] = e.media[y]
  BY <1>6, PushFrameOK
<1> HIDE DEF e, r
<1>8. SameRest(q, r)
  BY <1>6, <1>7 DEF SameRest
<1>9. \A x \in 1..Len(r.audio) : r.audio[x] = f \/ \E y \in 1..Len(q.audio) : r.audio[x] = q.audio[y]
  BY <1>6, <1>7 DEF Keeps
<1>10. \A x \in 1..Len(r.media) : r.media[x] = f \/ \E y \in 1..Len(q.media) : r.media[x] = q.media[y]
  BY <1>6, <1>7 DEF Keeps
<1> QED
  BY <1>2, <1>4, <1>6, <1>7, <1>8, <1>9, <1>10

LEMMA EnqueueRecord ==
  ASSUME Good(q), NEW p \in Records, Enqueue(p), ~q.closed
  PROVE  /\ Good(q') /\ permit' \in BOOLEAN /\ q'.control = q.control /\ q'.closed = q.closed
         /\ Keeps(q.audio, q'.audio) /\ Keeps(q.media, q'.media) /\ Held(q') = Held(q) + 1
         /\ \E n : TakesRecord(q, q', n, p)
<1>1. PICK i \in 0..Len(q.audio), j \in 0..Len(q.media) : q' = Push(q, p, i, j)
  BY DEF Enqueue
<1>2. permit' \in BOOLEAN
  BY DEF Enqueue, NotifyOne
<1>3. p.what = "record"
  BY PacketSizes
<1> DEFINE e == Expired(q, i, j)
           r == PushLossy(e, p)
<1>4. q' = r
  BY <1>1, <1>3 DEF Push
<1>5. Cuts(q, i, j)
  BY <1>1 DEF Cuts
<1>6. /\ Good(e) /\ SameRest(q, e) /\ Keeps(q.audio, e.audio) /\ Keeps(q.media, e.media)
      /\ Held(e) = Held(q)
  BY <1>5, ExpiredOK
<1>7. /\ Good(r) /\ r.control = e.control /\ r.audio = e.audio /\ r.media = e.media
      /\ r.closed = e.closed /\ Held(r) = Held(e) + 1
      /\ \E n : TakesRecord(e, r, n, p)
  BY <1>6, PushLossyOK
<1> HIDE DEF e, r
<1>8. \E n : TakesRecord(q, r, n, p)
  BY <1>6, <1>7 DEF SameRest, TakesRecord, Sheds
<1> QED
  BY <1>2, <1>4, <1>6, <1>7, <1>8 DEF SameRest

\* A closed queue takes nothing.
LEMMA EnqueueClosed ==
  ASSUME NEW p, Enqueue(p), q.closed PROVE q' = q /\ permit' \in BOOLEAN
BY DEF Enqueue, Push, NotifyOne

----------------------------------------------------------------------------
(* What a step that is not the writer's may do.                            *)

\* Nothing is said to the client; control stays, and what is new of it, or of the
\* frames, is of a stream that was announced, and of one that stopped if it says so.
Feeds ==
  /\ heard' = heard /\ stops \subseteq stops' /\ (q.closed => q'.closed)
  /\ q'.control = q.control
       \/ \E p \in Controls : q'.control = Append(q.control, p) /\ (p.what = "stopped" => p.id \in stops')
  /\ \A i \in 1..Len(q'.audio) :
        \/ \E j \in 1..Len(q.audio) : q'.audio[i] = q.audio[j]
        \/ /\ task'[q'.audio[i].id] # "none"
           /\ q'.audio[i].id \in stops => q'.audio[i].late
  /\ \A i \in 1..Len(q'.media) :
        \/ \E j \in 1..Len(q.media) : q'.media[i] = q.media[j]
        \/ /\ task'[q'.media[i].id] # "none"
           /\ q'.media[i].id \in stops => q'.media[i].late
  /\ \A s \in Streams :
        \/ task[s] # "none" /\ task'[s] # "none"
        \/ task'[s] = "none"
        \/ ~q'.closed => \E i \in 1..Len(q'.control) :
                            q'.control[i].what = "started" /\ q'.control[i].id = s
  /\ \A s \in Streams : task[s] # "none" => task'[s] # "none"

\* What was in control still is.
LEMMA ControlGrows ==
  ASSUME TypeOK, Feeds
  PROVE  /\ Keeps(q'.control, q.control)
         /\ \A i \in 1..Len(q'.control) :
               \/ \E j \in 1..Len(q.control) : q'.control[i] = q.control[j]
               \/ q'.control[i].what = "stopped" => q'.control[i].id \in stops'
<1>1. CASE q'.control = q.control
  BY <1>1, KeepsAll
<1>2. ASSUME NEW p \in Controls, q'.control = Append(q.control, p),
             p.what = "stopped" => p.id \in stops'
      PROVE  /\ Keeps(q'.control, q.control)
             /\ \A i \in 1..Len(q'.control) :
                   \/ \E j \in 1..Len(q.control) : q'.control[i] = q.control[j]
                   \/ q'.control[i].what = "stopped" => q'.control[i].id \in stops'
  <2> DEFINE c == q.control
             d == Append(c, p)
  <2>1. c \in Seq(Controls) /\ Len(c) \in Nat
    BY Fields DEF TypeOK
  <2>2. /\ Len(d) = Len(c) + 1 /\ \A i \in 1..Len(c) : d[i] = c[i]
        /\ \A i \in 1..Len(d) : d[i] = p \/ \E j \in 1..Len(c) : d[i] = c[j]
    <3> HIDE DEF c
    <3> QED
      BY <2>1, AppendOne
  <2> HIDE DEF c, d
  <2>3. Keeps(d, c)
    <3> SUFFICES ASSUME NEW i \in 1..Len(c) PROVE \E j \in 1..Len(d) : c[i] = d[j]
      BY DEF Keeps
    <3>1. i \in 1..Len(d) /\ d[i] = c[i]
      BY <2>1, <2>2
    <3> QED
      BY <3>1
  <2>4. \A i \in 1..Len(d) : \/ \E j \in 1..Len(c) : d[i] = c[j]
                             \/ d[i].what = "stopped" => d[i].id \in stops'
    BY <2>2, <1>2
  <2> QED
    BY <2>3, <2>4, <1>2 DEF c, d
<1> QED
  BY <1>1, <1>2 DEF Feeds

LEMMA FeedsStarts ==
  ASSUME TypeOK, StartsOK, Feeds PROVE StartsOK'
<1>1. heard' = heard /\ heard'.early = {}
  BY DEF Feeds, StartsOK
<1>2. ASSUME ~q'.closed, NEW s \in Streams, task'[s] # "none"
      PROVE  s \in heard'.started \/ \E i \in 1..Len(q'.control) :
                                        q'.control[i].what = "started" /\ q'.control[i].id = s
  <2>1. CASE task[s] = "none"
    BY <1>2, <2>1 DEF Feeds
  <2>2. CASE task[s] # "none"
    <3>1. ~q.closed
      BY <1>2 DEF Feeds
    <3>2. s \in heard.started \/ \E i \in 1..Len(q.control) :
                                    q.control[i].what = "started" /\ q.control[i].id = s
      BY <2>2, <3>1 DEF StartsOK
    <3>3. Keeps(q'.control, q.control)
      BY ControlGrows
    <3> QED
      BY <1>1, <3>2, <3>3 DEF Keeps
  <2> QED
    BY <2>1, <2>2
<1>3. ASSUME NEW i \in 1..Len(q'.audio) PROVE task'[q'.audio[i].id] # "none"
  <2>1. ASSUME NEW j \in 1..Len(q.audio), q'.audio[i] = q.audio[j] PROVE task'[q'.audio[i].id] # "none"
    <3>1. q.audio[j].id \in Streams
      <4>1. q.audio \in Seq(Frames)
        BY Fields DEF TypeOK
      <4>2. q.audio[j] \in Frames
        BY <4>1
      <4> QED
        BY <4>2, PacketSizes
    <3>2. task[q.audio[j].id] # "none"
      BY DEF StartsOK
    <3> QED
      BY <2>1, <3>1, <3>2 DEF Feeds
  <2> QED
    BY <2>1 DEF Feeds
<1>4. ASSUME NEW i \in 1..Len(q'.media) PROVE task'[q'.media[i].id] # "none"
  <2>1. ASSUME NEW j \in 1..Len(q.media), q'.media[i] = q.media[j] PROVE task'[q'.media[i].id] # "none"
    <3>1. q.media[j].id \in Streams
      <4>1. q.media \in Seq(Frames)
        BY Fields DEF TypeOK
      <4>2. q.media[j] \in Frames
        BY <4>1
      <4> QED
        BY <4>2, PacketSizes
    <3>2. task[q.media[j].id] # "none"
      BY DEF StartsOK
    <3> QED
      BY <2>1, <3>1, <3>2 DEF Feeds
  <2> QED
    BY <2>1 DEF Feeds
<1> QED
  BY <1>1, <1>2, <1>3, <1>4 DEF StartsOK

LEMMA FeedsStops ==
  ASSUME TypeOK, StopsOK, Feeds PROVE StopsOK'
<1>1. heard'.stopped = heard.stopped /\ heard.stopped \subseteq stops /\ stops \subseteq stops'
  BY DEF Feeds, StopsOK
<1>2. ASSUME NEW i \in 1..Len(q'.control), q'.control[i].what = "stopped"
      PROVE  q'.control[i].id \in stops'
  BY <1>1, <1>2, ControlGrows DEF StopsOK
<1>3. ASSUME NEW i \in 1..Len(q'.audio), q'.audio[i].id \in heard.stopped PROVE q'.audio[i].late
  BY <1>1, <1>3 DEF StopsOK, Feeds
<1>4. ASSUME NEW i \in 1..Len(q'.media), q'.media[i].id \in heard.stopped PROVE q'.media[i].late
  BY <1>1, <1>4 DEF StopsOK, Feeds
<1> QED
  BY <1>1, <1>2, <1>3, <1>4 DEF StopsOK

----------------------------------------------------------------------------
(* The parts of the invariant, and what keeps each.                        *)

\* Everything but the queue has its type.
OthersOK ==
  /\ writer \in {"check", "wait", "write", "done"}
  /\ task \in [Tasks -> {"none", "await", "busy", "hold", "reopen", "closed", "over"}]
  /\ aborted \subseteq Tasks /\ subs \subseteq Streams /\ stops \subseteq Streams
  /\ pushed \in [frames : [Streams -> 0..MaxFrames], total : Nat, records : 0..MaxRecords,
                 missed : 0..MaxRecords, events : 0..MaxEvents]
  /\ heard \in [started : SUBSET Streams, stopped : SUBSET Streams, records : Nat, last : Nat,
                lost : Nat, frames : Nat, early : SUBSET Streams, after : SUBSET Streams]

LEMMA TypeIs == TypeOK <=> q \in Queues /\ Within(q) /\ permit \in BOOLEAN /\ OthersOK
BY DEF TypeOK, OthersOK

LEMMA GoodIs == ASSUME TypeOK, BytesExact PROVE Good(q)
BY DEF TypeOK, BytesExact, Good, Exact

LEMMA IsGood == ASSUME Good(q'), permit' \in BOOLEAN, OthersOK' PROVE TypeOK' /\ BytesExact'
BY DEF TypeOK, OthersOK, BytesExact, Good, Exact

LEMMA Maxima == MaxFrames \in Nat /\ MaxRecords \in Nat /\ MaxEvents \in Nat
BY OutboxAssumption

Pushes == [frames : [Streams -> 0..MaxFrames], total : Nat, records : 0..MaxRecords,
           missed : 0..MaxRecords, events : 0..MaxEvents]
Hearings == [started : SUBSET Streams, stopped : SUBSET Streams, records : Nat, last : Nat,
             lost : Nat, frames : Nat, early : SUBSET Streams, after : SUBSET Streams]

LEMMA Pushed ==
  ASSUME NEW h \in Pushes
  PROVE  h.total \in Nat /\ h.records \in Nat /\ h.missed \in Nat /\ h.events \in Nat
<1>1. h.total \in Nat /\ h.records \in 0..MaxRecords /\ h.missed \in 0..MaxRecords
      /\ h.events \in 0..MaxEvents
  BY DEF Pushes
<1> QED
  BY <1>1, Maxima

LEMMA Heard ==
  ASSUME NEW h \in Hearings
  PROVE  h.records \in Nat /\ h.lost \in Nat /\ h.frames \in Nat /\ h.last \in Nat
BY DEF Hearings

\* The counters of a state and of the next.
LEMMA Counters ==
  /\ OthersOK => pushed \in Pushes /\ heard \in Hearings
  /\ OthersOK' => pushed' \in Pushes /\ heard' \in Hearings
BY DEF OthersOK, Pushes, Hearings

LEMMA HeldType == ASSUME NEW k \in Queues PROVE Held(k) \in Nat
<1> DEFINE la == Len(k.audio)
           lm == Len(k.media)
           ld == Len(k.decoded)
<1>1. k.dropped \in Nat /\ la \in Nat /\ lm \in Nat /\ ld \in Nat
  BY Fields
<1>2. Held(k) = k.dropped + la + lm + ld
  BY DEF Held
<1> HIDE DEF la, lm, ld
<1> QED
  BY <1>1, <1>2

\* What went out and what is held is what came in.
AccountOf(pd, h, k) == pd.total + pd.records - pd.missed = h.frames + h.records + Held(k)

LEMMA AccountIs ==
  ASSUME NEW k \in Queues, NEW h \in Hearings, NEW pd
  PROVE  AccountOf(pd, h, k) <=>
            pd.total + pd.records - pd.missed =
              h.frames + h.records + k.dropped + Len(k.audio) + Len(k.media) + Len(k.decoded)
<1> DEFINE la == Len(k.audio)
           lm == Len(k.media)
           ld == Len(k.decoded)
           qd == k.dropped
           hf == h.frames
           hr == h.records
<1>1. la \in Nat /\ lm \in Nat /\ ld \in Nat /\ qd \in Nat
  BY Fields
<1>2. hf \in Nat /\ hr \in Nat
  BY Heard
<1>3. Held(k) = qd + la + lm + ld
  BY DEF Held
<1> HIDE DEF la, lm, ld, qd, hf, hr
<1>5. hf + hr + qd + la + lm + ld = hf + hr + (qd + la + lm + ld)
  BY <1>1, <1>2
<1>6. hf + hr + Held(k) = hf + hr + qd + la + lm + ld
  BY <1>3, <1>5
<1> QED
  BY <1>6 DEF AccountOf, la, lm, ld, qd, hf, hr

LEMMA Accounts ==
  /\ TypeOK => (EveryPacketAccounted <=> AccountOf(pushed, heard, q))
  /\ TypeOK' => (EveryPacketAccounted' <=> AccountOf(pushed', heard', q'))
<1>1. TypeOK => q \in Queues /\ heard \in Hearings
  BY DEF TypeOK, Hearings
<1>2. TypeOK' => q' \in Queues /\ heard' \in Hearings
  BY DEF TypeOK, Hearings
<1>3. TypeOK => (EveryPacketAccounted <=> AccountOf(pushed, heard, q))
  BY <1>1, AccountIs DEF EveryPacketAccounted
<1>4. TypeOK' => (EveryPacketAccounted' <=> AccountOf(pushed', heard', q'))
  BY <1>2, AccountIs DEF EveryPacketAccounted
<1> QED
  BY <1>3, <1>4

LEMMA Counted ==
  ASSUME TypeOK, TypeOK', EveryPacketAccounted, heard' = heard,
         (pushed'.total + pushed'.records - pushed'.missed) + Held(q)
            = (pushed.total + pushed.records - pushed.missed) + Held(q')
  PROVE  EveryPacketAccounted'
<1> DEFINE a == pushed.total + pushed.records - pushed.missed
           b == pushed'.total + pushed'.records - pushed'.missed
           h == heard.frames + heard.records
           x == Held(q)
           y == Held(q')
<1>1. x \in Nat /\ y \in Nat
  <2>1. q \in Queues /\ q' \in Queues
    BY DEF TypeOK
  <2> QED
    BY <2>1, HeldType
<1>2. a \in Int /\ b \in Int /\ h \in Nat
  <2>1. pushed \in Pushes /\ pushed' \in Pushes /\ heard \in Hearings
    BY DEF TypeOK, Pushes, Hearings
  <2>2. /\ pushed.total \in Nat /\ pushed.records \in Nat /\ pushed.missed \in Nat
        /\ heard.records \in Nat /\ heard.frames \in Nat
    BY <2>1, Pushed, Heard
  <2>3. pushed'.total \in Nat /\ pushed'.records \in Nat /\ pushed'.missed \in Nat
    BY <2>1, Pushed
  <2> QED
    BY <2>2, <2>3
<1>3. a = h + x
  BY Accounts DEF AccountOf
<1>4. b + x = a + y
  OBVIOUS
<1>5. EveryPacketAccounted' <=> b = h + y
  BY Accounts DEF AccountOf
<1> HIDE DEF a, b, h, x, y
<1> QED
  BY <1>1, <1>2, <1>3, <1>4, <1>5

KnownOf(h, k) == h.records + h.lost + k.lost + Missed(k.control)

LEMMA KnownType ==
  ASSUME NEW k \in Queues, NEW h \in Hearings
  PROVE  /\ KnownOf(h, k) \in Nat /\ h.records \in Nat /\ h.lost \in Nat /\ k.lost \in Nat
         /\ Missed(k.control) \in Nat /\ k.control \in Seq(Packets) /\ k.control \in Seq(Controls)
<1>2. h.records \in Nat /\ h.lost \in Nat
  BY Heard
<1>3. k.lost \in Nat /\ k.control \in Seq(Packets) /\ k.control \in Seq(Controls)
  BY Fields
<1>4. Missed(k.control) \in Nat
  BY <1>3, MissedType
<1>5. KnownOf(h, k) \in Nat
  BY <1>2, <1>3, <1>4 DEF KnownOf
<1> QED
  BY <1>2, <1>3, <1>4, <1>5

LEMMA KnownIs ==
  /\ Known = KnownOf(heard, q) /\ Known' = KnownOf(heard', q')
  /\ TypeOK => q \in Queues /\ heard \in Hearings /\ pushed \in Pushes /\ OthersOK
  /\ TypeOK' => q' \in Queues /\ heard' \in Hearings /\ pushed' \in Pushes /\ OthersOK'
<1>1. Known = KnownOf(heard, q) /\ Known' = KnownOf(heard', q')
  BY DEF Known, KnownOf
<1>2. TypeOK => q \in Queues /\ heard \in Hearings /\ pushed \in Pushes /\ OthersOK
  BY DEF TypeOK, Hearings, Pushes, OthersOK
<1>3. TypeOK' => q' \in Queues /\ heard' \in Hearings /\ pushed' \in Pushes /\ OthersOK'
  BY DEF TypeOK, Hearings, Pushes, OthersOK
<1> QED
  BY <1>1, <1>2, <1>3

\* The records stay, and a client can know of more.
LEMMA RecordsStay ==
  ASSUME TypeOK, TypeOK', RecordsOK, q'.decoded = q.decoded, Known' >= Known, q.closed => q'.closed,
         q'.closed \/ pushed'.records <= pushed.records + (Known' - Known)
  PROVE  RecordsOK'
<1> DEFINE a == Known
           b == Known'
           ld == Len(q.decoded)
<1>1. a \in Nat /\ b \in Nat
  <2>1. Known \in Nat
    BY KnownIs, KnownType
  <2>2. Known' \in Nat
    BY KnownIs, KnownType
  <2> QED
    BY <2>1, <2>2
<1>2. ld \in Nat /\ q.decoded \in Seq(Records)
  BY Fields DEF TypeOK
<1>3. pushed.records \in Nat /\ pushed'.records \in Nat
  BY KnownIs, Pushed
<1>4. ASSUME NEW i \in 1..ld PROVE q.decoded[i].n <= b + i
  <2>1. q.decoded[i].n <= a + i
    BY DEF RecordsOK
  <2>2. q.decoded[i].n \in Nat /\ i \in Nat
    <3>1. q.decoded[i] \in Records /\ i \in Nat
      BY <1>2
    <3> QED
      BY <3>1, PacketSizes
  <2> DEFINE n == q.decoded[i].n
  <2> HIDE DEF n, a, b
  <2>3. b >= a
    BY DEF a, b
  <2>4. n <= a + i /\ n \in Nat /\ i \in Nat
    BY <2>1, <2>2 DEF a, n
  <2>5. n <= b + i
    BY <2>3, <2>4, <1>1
  <2> QED
    BY <2>5 DEF n
<1>5. ASSUME ~q'.closed PROVE pushed'.records <= b + ld
  <2>1. pushed.records <= a + ld
    BY <1>5 DEF RecordsOK
  <2>2. pushed'.records <= pushed.records + (b - a)
    BY <1>5
  <2> HIDE DEF a, b, ld
  <2> QED
    BY <2>1, <2>2, <1>1, <1>2, <1>3
<1> HIDE DEF a, b
<1>6. (\A i \in 1..Len(q'.decoded) : q'.decoded[i].n <= b + i)
      /\ (~q'.closed => pushed'.records <= b + Len(q'.decoded))
  BY <1>4, <1>5
<1> QED
  BY <1>6 DEF RecordsOK, b

\* A step that leaves the queue alone.
LEMMA QueueRests ==
  ASSUME IInv, q' = q, permit' \in BOOLEAN, heard' = heard, OthersOK', stops \subseteq stops',
         pushed'.total = pushed.total, pushed'.records = pushed.records,
         pushed'.missed = pushed.missed,
         \A s \in Streams : task[s] = "none" <=> task'[s] = "none"
  PROVE  IInv'
<1>1. Good(q) /\ Good(q')
  BY GoodIs DEF IInv
<1>2. TypeOK /\ TypeOK' /\ BytesExact'
  <2>1. TypeOK' /\ BytesExact'
    BY <1>1, IsGood
  <2> QED
    BY <2>1 DEF IInv
<1>3. EveryPacketAccounted'
  BY DEF IInv, EveryPacketAccounted
<1>4. Feeds
  BY DEF Feeds
<1>5. StartsOK' /\ StopsOK'
  BY <1>2, <1>4, FeedsStarts, FeedsStops DEF IInv
<1>6. RecordsOK'
  <2>1. Known' = Known
    BY DEF Known
  <2> QED
    BY <2>1 DEF IInv, RecordsOK
<1>7. MissedOK'
  BY DEF IInv, MissedOK
<1> QED
  BY <1>2, <1>3, <1>5, <1>6, <1>7 DEF IInv

\* A step that puts in control.
LEMMA ControlFed ==
  ASSUME IInv, NEW p \in Controls, Enqueue(p), heard' = heard, OthersOK', stops \subseteq stops',
         p.what = "stopped" => p.id \in stops',
         pushed'.total = pushed.total,
         pushed'.records - pushed'.missed = pushed.records - pushed.missed,
         pushed'.records = pushed.records
            \/ (p.what = "missed" /\ pushed'.records = pushed.records + 1),
         \A s \in Streams : task[s] # "none" => task'[s] # "none",
         \A s \in Streams : (task[s] = "none" /\ task'[s] # "none") => (p.what = "started" /\ p.id = s)
  PROVE  IInv'
<1>1. Good(q)
  BY GoodIs DEF IInv
<1>2. /\ Good(q') /\ permit' \in BOOLEAN /\ q'.decoded = q.decoded /\ q'.lost = q.lost
      /\ Keeps(q.audio, q'.audio) /\ Keeps(q.media, q'.media) /\ Held(q') = Held(q)
      /\ q.closed => q'.closed
      /\ q'.control = q.control \/ q'.control = Append(q.control, p)
      /\ ~q'.closed => q'.control = Append(q.control, p)
  BY <1>1, EnqueueControl
<1>3. TypeOK /\ TypeOK' /\ BytesExact'
  <2>1. TypeOK' /\ BytesExact'
    BY <1>2, IsGood
  <2> QED
    BY <2>1 DEF IInv
<1>c. /\ pushed.total \in Nat /\ pushed.records \in Nat /\ pushed.missed \in Nat
      /\ pushed'.total \in Nat /\ pushed'.records \in Nat /\ pushed'.missed \in Nat
  BY <1>3, KnownIs, Pushed
<1>4. EveryPacketAccounted'
  <2>1. (pushed'.total + pushed'.records - pushed'.missed)
           = (pushed.total + pushed.records - pushed.missed)
    BY <1>c
  <2> QED
    BY <2>1, <1>2, <1>3, Counted DEF IInv
<1>5. q.control \in Seq(Controls) /\ q.control \in Seq(Packets) /\ p \in Packets
  BY <1>3, KnownIs, KnownType, PacketSizes
<1>6. /\ Append(q.control, p)[Len(q.control) + 1] = p
      /\ Len(q.control) + 1 \in 1..Len(Append(q.control, p))
  <2> DEFINE c == q.control
  <2>1. c \in Seq(Controls)
    BY <1>5
  <2> HIDE DEF c
  <2>2. Append(c, p)[Len(c) + 1] = p /\ Len(c) + 1 \in 1..Len(Append(c, p))
    BY <2>1, AppendOne
  <2> QED
    BY <2>2 DEF c
<1>7. Feeds
  <2>1. ASSUME NEW s \in Streams, task[s] = "none", task'[s] # "none", ~q'.closed
        PROVE  \E i \in 1..Len(q'.control) : q'.control[i].what = "started" /\ q'.control[i].id = s
    BY <1>2, <1>6, <2>1
  <2>2. \A i \in 1..Len(q'.audio) : \E j \in 1..Len(q.audio) : q'.audio[i] = q.audio[j]
    BY <1>2 DEF Keeps
  <2>3. \A i \in 1..Len(q'.media) : \E j \in 1..Len(q.media) : q'.media[i] = q.media[j]
    BY <1>2 DEF Keeps
  <2>4. \A s \in Streams :
          \/ task[s] # "none" /\ task'[s] # "none"
          \/ task'[s] = "none"
          \/ ~q'.closed => \E i \in 1..Len(q'.control) :
                              q'.control[i].what = "started" /\ q'.control[i].id = s
    BY <2>1
  <2>5. q'.control = q.control
         \/ \E x \in Controls : q'.control = Append(q.control, x) /\ (x.what = "stopped" => x.id \in stops')
    BY <1>2
  <2> QED
    BY <1>2, <2>2, <2>3, <2>4, <2>5 DEF Feeds
<1>8. StartsOK' /\ StopsOK'
  BY <1>3, <1>7, FeedsStarts, FeedsStops DEF IInv
<1>9. RecordsOK'
  <2> DEFINE m == Missed(q.control)
             m2 == Missed(q'.control)
             h == heard.records + heard.lost + q.lost
             e == IF p.what = "missed" THEN 1 ELSE 0
  <2>1. h \in Nat /\ m \in Nat /\ e \in Nat
    <3>1. heard.records \in Nat /\ heard.lost \in Nat /\ q.lost \in Nat /\ m \in Nat
      BY <1>3, KnownIs, KnownType
    <3> HIDE DEF m
    <3> QED
      BY <3>1
  <2>2. m2 = m \/ m2 = m + e
    BY <1>2, <1>5, BytesAppend
  <2>3. ~q'.closed => m2 = m + e
    BY <1>2, <1>5, BytesAppend
  <2>4. Known = h + m /\ Known' = h + m2
    BY <1>2 DEF Known
  <2>5. pushed'.records = pushed.records \/ (e = 1 /\ pushed'.records = pushed.records + 1)
    OBVIOUS
  <2> HIDE DEF m, m2, h, e
  <2>6. Known' >= Known
    BY <2>1, <2>2, <2>4
  <2>7. q'.closed \/ pushed'.records <= pushed.records + (Known' - Known)
    <3>1. CASE ~q'.closed
      <4>1. Known' - Known = e
        BY <2>1, <2>3, <2>4, <3>1
      <4> QED
        BY <4>1, <2>1, <2>5, <1>c
    <3> QED
      BY <3>1
  <2> QED
    BY <1>2, <1>3, <2>6, <2>7, RecordsStay DEF IInv
<1>10. MissedOK'
  <2>1. pushed.missed <= pushed.records
    BY DEF IInv, MissedOK
  <2>2. pushed'.missed <= pushed'.records
    BY <2>1, <1>c
  <2> QED
    BY <2>2 DEF MissedOK
<1> QED
  BY <1>3, <1>4, <1>8, <1>9, <1>10 DEF IInv

\* A step that takes frames from the queue, or closes it, and says nothing.
LEMMA QueueShrinks ==
  ASSUME IInv, Good(q'), permit' \in BOOLEAN, heard' = heard, OthersOK', stops' = stops,
         pushed' = pushed, \A s \in Streams : task[s] = "none" <=> task'[s] = "none",
         q'.control = q.control, q'.decoded = q.decoded, q'.lost = q.lost, q.closed => q'.closed,
         Keeps(q.audio, q'.audio), Keeps(q.media, q'.media), Held(q') = Held(q)
  PROVE  IInv'
<1>2. TypeOK /\ TypeOK' /\ BytesExact'
  <2>1. TypeOK' /\ BytesExact'
    BY IsGood
  <2> QED
    BY <2>1 DEF IInv
<1>3. EveryPacketAccounted'
  BY <1>2, Counted DEF IInv
<1>4. Feeds
  BY DEF Feeds, Keeps
<1>5. StartsOK' /\ StopsOK'
  BY <1>2, <1>4, FeedsStarts, FeedsStops DEF IInv
<1>6. RecordsOK'
  <2>1. Known' = Known
    BY DEF Known
  <2> QED
    BY <2>1 DEF IInv, RecordsOK
<1>7. MissedOK'
  BY DEF IInv, MissedOK
<1> QED
  BY <1>2, <1>3, <1>5, <1>6, <1>7 DEF IInv

\* Of the frames in the queue only f may be new.
OnlyNew(f) ==
  /\ \A i \in 1..Len(q'.audio) :
        q'.audio[i] = f \/ \E j \in 1..Len(q.audio) : q'.audio[i] = q.audio[j]
  /\ \A i \in 1..Len(q'.media) :
        q'.media[i] = f \/ \E j \in 1..Len(q.media) : q'.media[i] = q.media[j]

\* A forwarder's frame goes into a lane, or is only counted.
LEMMA FrameFed ==
  ASSUME IInv, Good(q'), permit' \in BOOLEAN, heard' = heard, OthersOK', stops' = stops,
         SameRest(q, q'), Held(q') = Held(q) + 1, NEW f,
         task'[f.id] # "none", f.id \in stops => f.late,
         pushed'.total = pushed.total + 1, pushed'.records = pushed.records,
         pushed'.missed = pushed.missed,
         \A s \in Streams : task[s] = "none" <=> task'[s] = "none", OnlyNew(f)
  PROVE  IInv'
<1>2. TypeOK /\ TypeOK' /\ BytesExact'
  <2>1. TypeOK' /\ BytesExact'
    BY IsGood
  <2> QED
    BY <2>1 DEF IInv
<1>r. /\ q'.control = q.control /\ q'.decoded = q.decoded /\ q'.lost = q.lost
      /\ (q.closed => q'.closed)
  BY DEF SameRest
<1>3. EveryPacketAccounted'
  <2> DEFINE x == Held(q)
             y == Held(q')
  <2>1. x \in Nat /\ y = x + 1
    BY <1>2, KnownIs, HeldType
  <2>2. pushed.total \in Nat /\ pushed.records \in Nat /\ pushed.missed \in Nat
    BY <1>2, KnownIs, Pushed
  <2> HIDE DEF x, y
  <2>3. (pushed'.total + pushed'.records - pushed'.missed) + x
           = (pushed.total + pushed.records - pushed.missed) + y
    BY <2>1, <2>2
  <2> QED
    BY <2>3, <1>2, Counted DEF IInv, x, y
<1>4. Feeds
  <2>1. \A i \in 1..Len(q'.audio) :
          \/ \E j \in 1..Len(q.audio) : q'.audio[i] = q.audio[j]
          \/ /\ task'[q'.audio[i].id] # "none"
             /\ q'.audio[i].id \in stops => q'.audio[i].late
    BY DEF OnlyNew
  <2>2. \A i \in 1..Len(q'.media) :
          \/ \E j \in 1..Len(q.media) : q'.media[i] = q.media[j]
          \/ /\ task'[q'.media[i].id] # "none"
             /\ q'.media[i].id \in stops => q'.media[i].late
    BY DEF OnlyNew
  <2> QED
    BY <2>1, <2>2, <1>r DEF Feeds
<1>5. StartsOK' /\ StopsOK'
  BY <1>2, <1>4, FeedsStarts, FeedsStops DEF IInv
<1>6. RecordsOK'
  <2>1. Known' = Known
    BY <1>r DEF Known
  <2> QED
    BY <2>1, <1>r DEF IInv, RecordsOK
<1>7. MissedOK'
  BY DEF IInv, MissedOK
<1> QED
  BY <1>2, <1>3, <1>5, <1>6, <1>7 DEF IInv

\* A record goes into its lane, or is lost and counted as lost.
LEMMA RecordFed ==
  ASSUME IInv, NEW p \in Records, Enqueue(p), ~q.closed, p.n = pushed.records + 1,
         heard' = heard, OthersOK', stops' = stops,
         pushed'.total = pushed.total, pushed'.records = pushed.records + 1,
         pushed'.missed = pushed.missed,
         \A s \in Streams : task[s] = "none" <=> task'[s] = "none"
  PROVE  IInv'
<1>1. Good(q)
  BY GoodIs DEF IInv
<1>2. /\ Good(q') /\ permit' \in BOOLEAN /\ q'.control = q.control /\ q'.closed = q.closed
      /\ Keeps(q.audio, q'.audio) /\ Keeps(q.media, q'.media) /\ Held(q') = Held(q) + 1
      /\ \E n : TakesRecord(q, q', n, p)
  BY <1>1, EnqueueRecord
<1>3. TypeOK /\ TypeOK' /\ BytesExact'
  <2>1. TypeOK' /\ BytesExact'
    BY <1>2, IsGood
  <2> QED
    BY <2>1 DEF IInv
<1>c. pushed.total \in Nat /\ pushed.records \in Nat /\ pushed.missed \in Nat
  BY <1>3, KnownIs, Pushed
<1>4. EveryPacketAccounted'
  <2> DEFINE x == Held(q)
             y == Held(q')
  <2>1. x \in Nat /\ y = x + 1
    BY <1>2, <1>3, KnownIs, HeldType
  <2> HIDE DEF x, y
  <2>3. (pushed'.total + pushed'.records - pushed'.missed) + x
           = (pushed.total + pushed.records - pushed.missed) + y
    BY <2>1, <1>c
  <2> QED
    BY <2>3, <1>3, Counted DEF IInv, x, y
<1>5. Feeds
  BY <1>2 DEF Feeds, Keeps
<1>6. StartsOK' /\ StopsOK'
  BY <1>3, <1>5, FeedsStarts, FeedsStops DEF IInv
<1>7. MissedOK'
  <2>1. pushed.missed <= pushed.records
    BY DEF IInv, MissedOK
  <2>2. pushed'.missed <= pushed'.records
    BY <2>1, <1>c
  <2> QED
    BY <2>2 DEF MissedOK
<1>8. RecordsOK'
  <2>1. PICK n : TakesRecord(q, q', n, p)
    BY <1>2
  <2> DEFINE w == Without(q.decoded, n)
             ld == Len(q.decoded)
             a == Known
             b == Known'
             m == Missed(q.control)
             h == heard.records + heard.lost
  <2>2. n \in 0..ld /\ ld \in Nat /\ q.decoded \in Seq(Records)
    <3>1. q.decoded \in Seq(Records)
      BY <1>3, KnownIs, Fields
    <3> QED
      BY <3>1, <2>1 DEF TakesRecord, Sheds
  <2>3. w \in Seq(Records) /\ Len(w) = ld - n /\ \A i \in 1..(ld - n) : w[i] = q.decoded[n + i]
    BY <2>2, RecordsCut
  <2>4. h \in Nat /\ m \in Nat /\ q.lost \in Nat /\ a \in Nat
    <3>1. heard.records \in Nat /\ heard.lost \in Nat /\ q.lost \in Nat /\ m \in Nat
      BY <1>3, KnownIs, KnownType
    <3>2. a \in Nat
      BY <1>3, KnownIs, KnownType
    <3> HIDE DEF m
    <3> QED
      BY <3>1, <3>2
  <2>5. a = h + q.lost + m /\ b = h + q'.lost + m
    BY <1>2 DEF Known
  <2>n. n \in Nat /\ n <= ld /\ ld - n \in Nat
    <3> HIDE DEF ld
    <3> QED
      BY <2>2
  <2>6. ASSUME NEW i \in 1..ld PROVE q.decoded[i].n <= a + i /\ q.decoded[i].n \in Nat
    <3>1. q.decoded[i].n <= a + i
      BY DEF IInv, RecordsOK
    <3>2. q.decoded[i] \in Records
      BY <2>2
    <3> QED
      BY <3>1, <3>2, PacketSizes
  <2>7. pushed.records <= a + ld
    BY DEF IInv, RecordsOK
  <2>8. ASSUME NEW i \in 1..(ld - n) PROVE w[i].n <= (a + n) + i /\ w[i].n \in Nat
    <3>1. w[i] = q.decoded[n + i]
      BY <2>3
    <3>2. n + i \in 1..ld
      <4> HIDE DEF ld
      <4> QED
        BY <2>n, <2>2
    <3> DEFINE v == q.decoded[n + i].n
    <3>3. v <= a + (n + i) /\ v \in Nat
      BY <3>2, <2>6
    <3>4. w[i].n = v
      BY <3>1
    <3>5. i \in Nat
      <4> HIDE DEF ld
      <4> QED
        BY <2>n
    <3> HIDE DEF v, w, a, ld
    <3> QED
      BY <3>3, <3>4, <3>5, <2>n, <2>4
  <2>9. CASE q'.decoded = Append(w, p) /\ q'.lost = q.lost + n
    <3> DEFINE z == Append(w, p)
    <3>1. b = a + n
      <4> HIDE DEF a, b, h, m, w, ld
      <4> QED
        BY <2>4, <2>5, <2>9, <2>n
    <3>2. Len(z) = (ld - n) + 1 /\ z[(ld - n) + 1] = p /\ \A i \in 1..(ld - n) : z[i] = w[i]
      <4> HIDE DEF w
      <4>1. Len(z) = Len(w) + 1 /\ z[Len(w) + 1] = p /\ \A i \in 1..Len(w) : z[i] = w[i]
        BY <2>3, AppendOne
      <4>2. Len(w) = ld - n
        BY <2>3
      <4> HIDE DEF z, ld
      <4> QED
        BY <4>1, <4>2
    <3>3. ASSUME NEW i \in 1..((ld - n) + 1) PROVE z[i].n <= b + i
      <4>1. CASE i \in 1..(ld - n)
        <5>1. z[i] = w[i] /\ w[i].n <= (a + n) + i
          BY <4>1, <3>2, <2>8
        <5> HIDE DEF z, w, a, b, ld
        <5> QED
          BY <5>1, <3>1
      <4>2. CASE i = (ld - n) + 1
        <5>1. z[i].n = pushed.records + 1
          BY <4>2, <3>2
        <5> HIDE DEF z, w, a, b, ld
        <5>2. pushed.records + 1 <= (a + n) + ((ld - n) + 1)
          BY <2>7, <2>n, <2>2, <2>4, <1>c
        <5> QED
          BY <5>1, <5>2, <4>2, <3>1
      <4>3. i \in 1..(ld - n) \/ i = (ld - n) + 1
        <5> HIDE DEF ld, z, w, a, b
        <5> QED
          BY <2>n
      <4> QED
        BY <4>1, <4>2, <4>3
    <3>4. pushed'.records <= b + Len(z)
      <4>1. pushed.records + 1 <= (a + n) + ((ld - n) + 1)
        <5> HIDE DEF z, w, a, b, ld
        <5> QED
          BY <2>7, <2>n, <2>2, <2>4, <1>c
      <4> QED
        BY <4>1, <3>1, <3>2
    <3>5. Len(q'.decoded) = (ld - n) + 1 /\ q'.decoded = z
      BY <2>9, <3>2
    <3> HIDE DEF z, b
    <3>6. (\A i \in 1..Len(q'.decoded) : q'.decoded[i].n <= b + i)
          /\ pushed'.records <= b + Len(q'.decoded)
      BY <3>3, <3>4, <3>5
    <3> QED
      BY <3>6 DEF RecordsOK, b
  <2>10. CASE n = ld /\ q'.decoded = w /\ q'.lost = q.lost + n + 1
    <3>1. b = a + n + 1
      <4> HIDE DEF a, b, h, m, w, ld
      <4> QED
        BY <2>4, <2>5, <2>10, <2>n
    <3>2. Len(w) = 0
      <4> HIDE DEF w, ld
      <4> QED
        BY <2>3, <2>10, <2>n
    <3>3. pushed'.records <= b
      <4> HIDE DEF w, a, b, ld
      <4> QED
        BY <2>7, <2>10, <2>n, <2>4, <1>c, <3>1
    <3>4. b \in Nat
      <4> HIDE DEF w, a, b, ld
      <4> QED
        BY <2>4, <2>n, <3>1
    <3>5. (\A i \in 1..Len(q'.decoded) : q'.decoded[i].n <= b + i)
          /\ pushed'.records <= b + Len(q'.decoded)
      <4>1. Len(q'.decoded) = 0
        BY <2>10, <3>2
      <4> HIDE DEF w, a, b, ld
      <4> QED
        BY <4>1, <3>3, <3>4, <1>c
    <3> HIDE DEF b
    <3> QED
      BY <3>5 DEF RecordsOK, b
  <2> QED
    BY <2>1, <2>9, <2>10 DEF TakesRecord
<1> QED
  BY <1>3, <1>4, <1>6, <1>7, <1>8 DEF IInv

----------------------------------------------------------------------------
(* One lemma per action.                                                   *)

LEMMA ControlIn ==
  /\ \A s \in Streams : Control("started", s) \in Controls /\ Control("stopped", s) \in Controls
  /\ Control("event", NoStream) \in Controls /\ Control("missed", NoStream) \in Controls
  /\ \A w, i : Control(w, i).what = w /\ Control(w, i).id = i
BY DEF Control, Controls

LEMMA StreamTasks == Streams \subseteq Tasks /\ {"session", "events", "decoded"} \subseteq Tasks
BY DEF Tasks

LEMMA StartsHolding == Init => IInv
<1> SUFFICES ASSUME Init PROVE IInv
  OBVIOUS
<1>1. /\ q.control = <<>> /\ q.decoded = <<>> /\ q.audio = <<>> /\ q.media = <<>>
      /\ q.bytes = 0 /\ q.dropped = 0 /\ q.lost = 0 /\ q.closed = FALSE
  BY DEF Init
<1>2. q \in Queues
  BY DEF Init, Queues
<1>3. Within(q)
  BY <1>1, Limits DEF Within
<1>4. OthersOK
  <2>1. task \in [Tasks -> {"none", "await", "busy", "hold", "reopen", "closed", "over"}]
    BY DEF Init
  <2>2. pushed \in [frames : [Streams -> 0..MaxFrames], total : Nat, records : 0..MaxRecords,
                    missed : 0..MaxRecords, events : 0..MaxEvents]
    BY Maxima DEF Init
  <2>3. heard \in [started : SUBSET Streams, stopped : SUBSET Streams, records : Nat, last : Nat,
                   lost : Nat, frames : Nat, early : SUBSET Streams, after : SUBSET Streams]
    BY DEF Init
  <2> QED
    BY <2>1, <2>2, <2>3 DEF Init, OthersOK
<1>5. TypeOK
  BY <1>2, <1>3, <1>4, TypeIs DEF Init
<1>6. BytesExact
  BY <1>1, NoBytes DEF BytesExact
<1>7. EveryPacketAccounted
  BY <1>1 DEF EveryPacketAccounted, Init
<1>8. StartsOK
  <2>1. \A s \in Streams : task[s] = "none"
    BY StreamTasks DEF Init
  <2> QED
    BY <1>1, <2>1 DEF StartsOK, Init
<1>9. StopsOK
  BY <1>1 DEF StopsOK, Init
<1>10. RecordsOK
  <2>1. Known = 0
    BY <1>1, NoBytes DEF Known, Init
  <2> QED
    BY <1>1, <2>1 DEF RecordsOK, Init
<1>11. MissedOK
  BY DEF MissedOK, Init
<1> QED
  BY <1>5, <1>6, <1>7, <1>8, <1>9, <1>10, <1>11 DEF IInv

LEMMA InvOthers == IInv => OthersOK /\ TypeOK
BY TypeIs DEF IInv

LEMMA SubscribeKeeps == ASSUME IInv, NEW s \in Streams, Subscribe(s) PROVE IInv'
<1> DEFINE p == Control("started", s)
<1>1. p \in Controls /\ p.what = "started" /\ p.id = s
  BY ControlIn
<1>2. /\ Enqueue(p) /\ task[s] = "none" /\ task' = [task EXCEPT ![s] = "await"]
      /\ subs' = subs \cup {s} /\ writer' = writer /\ aborted' = aborted /\ pushed' = pushed
      /\ stops' = stops /\ heard' = heard
  BY DEF Subscribe
<1>3. OthersOK /\ task \in [Tasks -> {"none", "await", "busy", "hold", "reopen", "closed", "over"}]
  BY InvOthers DEF OthersOK
<1>4. OthersOK'
  BY <1>2, <1>3 DEF OthersOK
<1>5. \A t \in Streams : task'[t] = IF t = s THEN "await" ELSE task[t]
  BY <1>2, <1>3, StreamTasks
<1> HIDE DEF p
<1>6. /\ \A t \in Streams : task[t] # "none" => task'[t] # "none"
      /\ \A t \in Streams : (task[t] = "none" /\ task'[t] # "none") => (p.what = "started" /\ p.id = t)
  BY <1>1, <1>5
<1>7. /\ pushed'.total = pushed.total /\ pushed'.records = pushed.records
      /\ pushed'.records - pushed'.missed = pushed.records - pushed.missed
      /\ stops \subseteq stops' /\ (p.what = "stopped" => p.id \in stops')
  BY <1>1, <1>2
<1> QED
  BY <1>1, <1>2, <1>4, <1>6, <1>7, ControlFed

LEMMA UnsubscribeKeeps == ASSUME IInv, NEW s \in Streams, Unsubscribe(s) PROVE IInv'
<1> DEFINE p == Control("stopped", s)
<1>1. p \in Controls /\ p.what = "stopped" /\ p.id = s
  BY ControlIn
<1>2. /\ Enqueue(p) /\ task' = task /\ aborted' = aborted \cup {s}
      /\ subs' = subs \ {s} /\ writer' = writer /\ pushed' = pushed
      /\ stops' = stops \cup {s} /\ heard' = heard
  BY DEF Unsubscribe
<1>3. OthersOK
  BY InvOthers
<1>4. OthersOK'
  BY <1>2, <1>3, StreamTasks DEF OthersOK
<1> HIDE DEF p
<1>6. /\ \A t \in Streams : task[t] # "none" => task'[t] # "none"
      /\ \A t \in Streams : (task[t] = "none" /\ task'[t] # "none") => (p.what = "started" /\ p.id = t)
  BY <1>2
<1>7. /\ pushed'.total = pushed.total /\ pushed'.records = pushed.records
      /\ pushed'.records - pushed'.missed = pushed.records - pushed.missed
      /\ stops \subseteq stops' /\ (p.what = "stopped" => p.id \in stops')
  BY <1>1, <1>2
<1> QED
  BY <1>1, <1>2, <1>4, <1>6, <1>7, ControlFed

LEMMA SourceClosedKeeps == ASSUME IInv, NEW s \in Streams, SourceClosed(s) PROVE IInv'
<1> DEFINE p == Control("stopped", s)
<1>1. p \in Controls /\ p.what = "stopped" /\ p.id = s
  BY ControlIn
<1>2. /\ Enqueue(p) /\ task[s] # "none" /\ task' = [task EXCEPT ![s] = "over"] /\ aborted' = aborted
      /\ subs' = subs /\ writer' = writer /\ pushed' = pushed
      /\ stops' = stops \cup {s} /\ heard' = heard
  BY DEF SourceClosed
<1>3. OthersOK /\ task \in [Tasks -> {"none", "await", "busy", "hold", "reopen", "closed", "over"}]
  BY InvOthers DEF OthersOK
<1>4. OthersOK'
  BY <1>2, <1>3, StreamTasks DEF OthersOK
<1>5. \A t \in Streams : task'[t] = IF t = s THEN "over" ELSE task[t]
  BY <1>2, <1>3, StreamTasks
<1> HIDE DEF p
<1>6. /\ \A t \in Streams : task[t] # "none" => task'[t] # "none"
      /\ \A t \in Streams : (task[t] = "none" /\ task'[t] # "none") => (p.what = "started" /\ p.id = t)
  BY <1>2, <1>5
<1>7. /\ pushed'.total = pushed.total /\ pushed'.records = pushed.records
      /\ pushed'.records - pushed'.missed = pushed.records - pushed.missed
      /\ stops \subseteq stops' /\ (p.what = "stopped" => p.id \in stops')
  BY <1>1, <1>2
<1> QED
  BY <1>1, <1>2, <1>4, <1>6, <1>7, ControlFed

\* The session, the events and the decoded records are no streams.
LEMMA DisconnectKeeps == ASSUME IInv, NEW revoked \in BOOLEAN, Disconnect(revoked) PROVE IInv'
<1> DEFINE p == Control("event", NoStream)
<1>1. p \in Controls /\ p.what = "event"
  BY ControlIn
<1>2. /\ IF revoked THEN Enqueue(p) ELSE permit' = TRUE /\ q' = q
      /\ task["session"] = "await" /\ task' = [task EXCEPT !["session"] = "over"] /\ aborted' = Tasks
      /\ subs' = subs /\ writer' = writer /\ pushed' = pushed /\ stops' = stops /\ heard' = heard
  BY DEF Disconnect, DropNotifies
<1>3. OthersOK /\ task \in [Tasks -> {"none", "await", "busy", "hold", "reopen", "closed", "over"}]
  BY InvOthers DEF OthersOK
<1>4. OthersOK'
  BY <1>2, <1>3, StreamTasks DEF OthersOK
<1>5. \A t \in Streams : task[t] = "none" <=> task'[t] = "none"
  BY <1>2, <1>3, StreamTasks
<1> HIDE DEF p
<1>6. CASE revoked
  <2>1. /\ \A t \in Streams : task[t] # "none" => task'[t] # "none"
        /\ \A t \in Streams : (task[t] = "none" /\ task'[t] # "none") => (p.what = "started" /\ p.id = t)
    BY <1>5
  <2>2. /\ pushed'.total = pushed.total /\ pushed'.records = pushed.records
        /\ pushed'.records - pushed'.missed = pushed.records - pushed.missed
        /\ stops \subseteq stops' /\ (p.what = "stopped" => p.id \in stops')
    BY <1>1, <1>2
  <2>3. Enqueue(p)
    BY <1>2, <1>6
  <2> QED
    BY <1>1, <1>2, <1>4, <2>1, <2>2, <2>3, ControlFed
<1>7. CASE ~revoked
  <2>1. q' = q /\ permit' \in BOOLEAN
    BY <1>2, <1>7
  <2> QED
    BY <1>2, <1>4, <1>5, <2>1, QueueRests
<1> QED
  BY <1>6, <1>7

LEMMA ReceiveKeeps == ASSUME IInv, NEW s \in Streams, Receive(s) PROVE IInv'
<1>2. /\ task[s] = "await" /\ task' = [task EXCEPT ![s] = "busy"] /\ aborted' = aborted
      /\ subs' = subs /\ writer' = writer /\ pushed' = pushed /\ stops' = stops /\ heard' = heard
      /\ q' = q /\ permit' = permit
  BY DEF Receive
<1>3. OthersOK /\ task \in [Tasks -> {"none", "await", "busy", "hold", "reopen", "closed", "over"}] /\ permit \in BOOLEAN
  BY InvOthers, TypeIs DEF OthersOK
<1>4. OthersOK'
  BY <1>2, <1>3 DEF OthersOK
<1>5. \A t \in Streams : task[t] = "none" <=> task'[t] = "none"
  BY <1>2, <1>3, StreamTasks
<1>6. permit' \in BOOLEAN /\ stops \subseteq stops'
  BY <1>2, <1>3
<1> QED
  BY <1>2, <1>4, <1>5, <1>6, QueueRests

LEMMA CancelKeeps == ASSUME IInv, NEW t \in Tasks, Cancel(t) PROVE IInv'
<1>2. /\ task[t] # "none" /\ task' = [task EXCEPT ![t] = "over"] /\ aborted' = aborted
      /\ subs' = subs /\ writer' = writer /\ pushed' = pushed /\ stops' = stops /\ heard' = heard
      /\ q' = q /\ permit' = TRUE
  BY DEF Cancel, DropNotifies
<1>3. OthersOK /\ task \in [Tasks -> {"none", "await", "busy", "hold", "reopen", "closed", "over"}]
  BY InvOthers DEF OthersOK
<1>4. OthersOK'
  BY <1>2, <1>3 DEF OthersOK
<1>5. \A s \in Streams : task[s] = "none" <=> task'[s] = "none"
  BY <1>2, <1>3, StreamTasks
<1>6. permit' \in BOOLEAN /\ stops \subseteq stops'
  BY <1>2
<1> QED
  BY <1>2, <1>4, <1>5, <1>6, QueueRests

LEMMA WakeKeeps == ASSUME IInv, Woken \/ Written PROVE IInv'
<1>2. /\ task' = task /\ aborted' = aborted
      /\ subs' = subs /\ writer' = "check" /\ pushed' = pushed /\ stops' = stops /\ heard' = heard
      /\ q' = q /\ (permit' = FALSE \/ permit' = permit)
  BY DEF Woken, Written
<1>3. OthersOK /\ permit \in BOOLEAN
  BY InvOthers, TypeIs
<1>4. OthersOK'
  BY <1>2, <1>3 DEF OthersOK
<1>6. permit' \in BOOLEAN /\ stops \subseteq stops'
  BY <1>2, <1>3
<1> QED
  BY <1>2, <1>4, <1>6, QueueRests

\* What Forwarded counts.
LEMMA ForwardedOK ==
  ASSUME OthersOK, NEW s \in Streams, pushed.frames[s] < MaxFrames, pushed' = Forwarded(s)
  PROVE  /\ pushed' \in Pushes /\ pushed'.total = pushed.total + 1
         /\ pushed'.records = pushed.records /\ pushed'.missed = pushed.missed
<1> DEFINE fr == [pushed.frames EXCEPT ![s] = @ + 1]
           n == pushed.total + 1
<1>1. pushed \in Pushes
  BY Counters
<1>2. pushed.frames \in [Streams -> 0..MaxFrames] /\ pushed.total \in Nat
  BY <1>1 DEF Pushes
<1>3. fr \in [Streams -> 0..MaxFrames] /\ n \in Nat
  BY <1>2, Maxima
<1>4. pushed' = [pushed EXCEPT !.frames = fr, !.total = n]
  BY DEF Forwarded
<1> HIDE DEF fr, n
<1>5. /\ pushed' \in Pushes /\ pushed'.total = n
      /\ pushed'.records = pushed.records /\ pushed'.missed = pushed.missed
  BY <1>1, <1>3, <1>4 DEF Pushes
<1> QED
  BY <1>5 DEF n

LEMMA FrameIn ==
  ASSUME NEW s \in Streams, NEW size \in FrameSizes
  PROVE  /\ Frame(s, size) \in Frames /\ Frame(s, size).id = s
         /\ s \in stops => Frame(s, size).late
<1>1. (s \in stops) \in BOOLEAN
  OBVIOUS
<1>2. Frame(s, size) \in Frames
  BY <1>1 DEF Frame, Frames
<1>3. Frame(s, size).id = s
  BY DEF Frame
<1>4. Frame(s, size).late = (s \in stops)
  BY DEF Frame
<1> QED
  BY <1>2, <1>3, <1>4

LEMMA SendFrameKeeps ==
  ASSUME IInv, NEW s \in Streams, NEW size \in FrameSizes, SendFrame(s, size) PROVE IInv'
<1>1. /\ task[s] # "none" /\ pushed.frames[s] < MaxFrames
      /\ writer' = writer /\ aborted' = aborted /\ subs' = subs /\ stops' = stops /\ heard' = heard
  BY DEF SendFrame
<1>3. OthersOK /\ task \in [Tasks -> {"none", "await", "busy", "hold", "reopen", "closed", "over"}]
  BY InvOthers DEF OthersOK
<1>4. CASE q.closed
  <2>1. task' = [task EXCEPT ![s] = "over"] /\ permit' = TRUE /\ q' = q /\ pushed' = pushed
    BY <1>4 DEF SendFrame, DropNotifies
  <2>2. OthersOK'
    BY <1>1, <1>3, <2>1 DEF OthersOK
  <2>3. \A t \in Streams : task[t] = "none" <=> task'[t] = "none"
    BY <1>1, <1>3, <2>1, StreamTasks
  <2>4. permit' \in BOOLEAN /\ stops \subseteq stops'
    BY <1>1, <2>1
  <2> QED
    BY <1>1, <2>1, <2>2, <2>3, <2>4, QueueRests
<1>5. CASE ~q.closed
  <2> DEFINE f == Frame(s, size)
  <2>1. Enqueue(f) /\ pushed' = Forwarded(s)
    BY <1>5 DEF SendFrame
  <2>2. PICK next \in {"await", "busy"} : task' = [task EXCEPT ![s] = next]
    BY <1>5 DEF SendFrame, Again
  <2>3. f \in Frames /\ f.id = s /\ (s \in stops => f.late)
    BY FrameIn
  <2> HIDE DEF f
  <2>4. /\ pushed' \in Pushes /\ pushed'.total = pushed.total + 1
        /\ pushed'.records = pushed.records /\ pushed'.missed = pushed.missed
    BY <1>1, <1>3, <2>1, ForwardedOK
  <2>5. OthersOK'
    <3>1. task' \in [Tasks -> {"none", "await", "busy", "hold", "reopen", "closed", "over"}]
      BY <1>3, <2>2
    <3> QED
      BY <1>1, <1>3, <2>4, <3>1 DEF OthersOK, Pushes
  <2>6. \A t \in Streams : task[t] = "none" <=> task'[t] = "none"
    BY <1>1, <1>3, <2>2, StreamTasks
  <2>7. Good(q)
    BY GoodIs DEF IInv
  <2>8. /\ Good(q') /\ permit' \in BOOLEAN /\ SameRest(q, q') /\ Held(q') = Held(q) + 1
        /\ OnlyNew(f)
    BY <1>5, <2>1, <2>3, <2>7, EnqueueFrame DEF OnlyNew
  <2>9. task'[f.id] # "none" /\ (f.id \in stops => f.late)
    BY <1>1, <2>3, <2>6
  <2> QED
    BY <1>1, <2>4, <2>5, <2>6, <2>8, <2>9, FrameFed
<1> QED
  BY <1>4, <1>5

\* What Unnoticed counts.
LEMMA UnnoticedOK ==
  ASSUME OthersOK, NEW s \in Streams, pushed.frames[s] < MaxFrames, pushed' = Unnoticed(s)
  PROVE  /\ pushed' \in Pushes /\ pushed'.total = pushed.total
         /\ pushed'.records = pushed.records /\ pushed'.missed = pushed.missed
<1> DEFINE fr == [pushed.frames EXCEPT ![s] = @ + 1]
<1>1. pushed \in Pushes
  BY Counters
<1>2. pushed.frames \in [Streams -> 0..MaxFrames]
  BY <1>1 DEF Pushes
<1>3. fr \in [Streams -> 0..MaxFrames]
  BY <1>2, Maxima
<1>4. pushed' = [pushed EXCEPT !.frames = fr]
  BY DEF Unnoticed
<1> HIDE DEF fr
<1> QED
  BY <1>1, <1>3, <1>4 DEF Pushes

\* A forwarder passes over a frame and says nothing.
LEMMA UnnoticedKeeps ==
  ASSUME IInv, NEW s \in Streams, NEW next \in {"await", "busy", "hold"},
         task[s] # "none", pushed.frames[s] < MaxFrames, permit' = permit, q' = q,
         writer' = writer, aborted' = aborted, subs' = subs, stops' = stops, heard' = heard,
         pushed' = Unnoticed(s), task' = [task EXCEPT ![s] = next]
  PROVE  IInv'
<1>3. OthersOK /\ task \in [Tasks -> {"none", "await", "busy", "hold", "reopen", "closed", "over"}] /\ permit \in BOOLEAN
  BY InvOthers, TypeIs DEF OthersOK
<1>4. /\ pushed' \in Pushes /\ pushed'.total = pushed.total
      /\ pushed'.records = pushed.records /\ pushed'.missed = pushed.missed
  BY <1>3, UnnoticedOK
<1>5. OthersOK'
  <2>1. task' \in [Tasks -> {"none", "await", "busy", "hold", "reopen", "closed", "over"}]
    BY <1>3
  <2> QED
    BY <1>3, <1>4, <2>1 DEF OthersOK, Pushes
<1>6. \A t \in Streams : task[t] = "none" <=> task'[t] = "none"
  BY <1>3, StreamTasks
<1>7. permit' \in BOOLEAN /\ stops \subseteq stops'
  BY <1>3
<1> QED
  BY <1>4, <1>5, <1>6, <1>7, QueueRests

\* A forwarder counts a frame it does not send.
LEMMA CountedKeeps ==
  ASSUME IInv, NEW s \in Streams, NEW next \in {"await", "busy", "hold"},
         task[s] # "none", pushed.frames[s] < MaxFrames, permit' = permit,
         writer' = writer, aborted' = aborted, subs' = subs, stops' = stops, heard' = heard,
         pushed' = Forwarded(s), task' = [task EXCEPT ![s] = next],
         q' = [q EXCEPT !.dropped = @ + 1]
  PROVE  IInv'
<1>3. OthersOK /\ task \in [Tasks -> {"none", "await", "busy", "hold", "reopen", "closed", "over"}] /\ permit \in BOOLEAN
  BY InvOthers, TypeIs DEF OthersOK
<1>4. /\ pushed' \in Pushes /\ pushed'.total = pushed.total + 1
      /\ pushed'.records = pushed.records /\ pushed'.missed = pushed.missed
  BY <1>3, ForwardedOK
<1>5. OthersOK'
  <2>1. task' \in [Tasks -> {"none", "await", "busy", "hold", "reopen", "closed", "over"}]
    BY <1>3
  <2> QED
    BY <1>3, <1>4, <2>1 DEF OthersOK, Pushes
<1>6. \A t \in Streams : task[t] = "none" <=> task'[t] = "none"
  BY <1>3, StreamTasks
<1>7. q \in Queues /\ Within(q) /\ Exact(q)
  BY GoodIs DEF IInv, Good
<1> DEFINE d == q.dropped + 1
<1>8. d \in Nat
  BY <1>7, Fields
<1>9. q' = [q EXCEPT !.dropped = d]
  OBVIOUS
<1> HIDE DEF d
<1>10. /\ q' \in Queues /\ q'.control = q.control /\ q'.decoded = q.decoded /\ q'.audio = q.audio
       /\ q'.media = q.media /\ q'.lost = q.lost /\ q'.closed = q.closed /\ q'.bytes = q.bytes
       /\ q'.dropped = d
  BY <1>7, <1>8, <1>9 DEF Queues
<1>11. Good(q')
  BY <1>7, <1>10 DEF Good, Within, Exact
<1>12. Held(q') = Held(q) + 1
  <2> DEFINE la == Len(q.audio)
             lm == Len(q.media)
             ld == Len(q.decoded)
  <2>1. la \in Nat /\ lm \in Nat /\ ld \in Nat /\ q.dropped \in Nat
    BY <1>7, Fields
  <2>2. Held(q') = (q.dropped + 1) + la + lm + ld
    BY <1>10 DEF Held, d
  <2>3. Held(q) = q.dropped + la + lm + ld
    BY DEF Held
  <2> HIDE DEF la, lm, ld
  <2> QED
    BY <2>1, <2>2, <2>3
<1>13. SameRest(q, q')
  BY <1>10 DEF SameRest
<1> DEFINE f == [id |-> s, late |-> TRUE]
<1>14. f.id = s /\ f.late
  OBVIOUS
<1> HIDE DEF f
<1>15. OnlyNew(f)
  BY <1>10 DEF OnlyNew
<1>16. task'[f.id] # "none" /\ (f.id \in stops => f.late) /\ permit' \in BOOLEAN
  BY <1>3, <1>6, <1>14
<1> QED
  BY <1>4, <1>5, <1>6, <1>11, <1>12, <1>13, <1>15, <1>16, FrameFed

LEMMA SkipFrameKeeps == ASSUME IInv, NEW s \in Streams, SkipFrame(s) PROVE IInv'
<1>1. PICK next \in {"await", "busy", "hold"} : task' = [task EXCEPT ![s] = next]
  BY DEF SkipFrame, Again
<1>2. /\ task[s] # "none" /\ pushed.frames[s] < MaxFrames /\ permit' = permit
      /\ writer' = writer /\ aborted' = aborted /\ subs' = subs /\ stops' = stops /\ heard' = heard
      /\ pushed' = Forwarded(s) /\ q' = [q EXCEPT !.dropped = @ + 1]
  BY DEF SkipFrame
<1> QED
  BY <1>1, <1>2, CountedKeeps

\* The loop of try_recv, and the throttle of a spectrum.
LEMMA DrainKeeps ==
  ASSUME IInv, NEW s \in Streams, Drain(s) \/ DrainLagged(s) \/ Throttled(s) PROVE IInv'
<1>1. pushed.frames[s] \in Nat /\ MaxFrames \in Nat
  <2>1. pushed \in Pushes
    BY InvOthers, Counters
  <2> QED
    BY <2>1, Maxima DEF Pushes
<1>2. PICK next \in {"await", "busy", "hold"} : task' = [task EXCEPT ![s] = next]
  BY DEF Drain, DrainLagged, Throttled, Again
<1>3. /\ task[s] # "none" /\ permit' = permit
      /\ writer' = writer /\ aborted' = aborted /\ subs' = subs /\ stops' = stops /\ heard' = heard
  BY DEF Drain, DrainLagged, Throttled
<1>4. pushed.frames[s] < MaxFrames
  BY <1>1 DEF Drain, DrainLagged, Throttled
<1>5. \/ pushed' = Forwarded(s) /\ q' = [q EXCEPT !.dropped = @ + 1]
      \/ pushed' = Unnoticed(s) /\ q' = q
  BY DEF Drain, DrainLagged, Throttled
<1> QED
  BY <1>2, <1>3, <1>4, <1>5, CountedKeeps, UnnoticedKeeps

\* Asking for another source.
LEMMA ReopenKeeps == ASSUME IInv, NEW s \in Streams, Reopen(s) \/ Reopened(s) PROVE IInv'
<1>1. PICK next \in {"await", "reopen", "closed"} : task' = [task EXCEPT ![s] = next]
  BY DEF Reopen, Reopened
<1>2. /\ task[s] # "none" /\ aborted' = aborted
      /\ subs' = subs /\ writer' = writer /\ pushed' = pushed /\ stops' = stops /\ heard' = heard
      /\ q' = q /\ permit' = permit
  BY DEF Reopen, Reopened
<1>3. OthersOK /\ task \in [Tasks -> {"none", "await", "busy", "hold", "reopen", "closed", "over"}] /\ permit \in BOOLEAN
  BY InvOthers, TypeIs DEF OthersOK
<1>4. OthersOK'
  BY <1>1, <1>2, <1>3 DEF OthersOK
<1>5. \A t \in Streams : task[t] = "none" <=> task'[t] = "none"
  BY <1>1, <1>2, <1>3, StreamTasks
<1>6. permit' \in BOOLEAN /\ stops \subseteq stops'
  BY <1>2, <1>3
<1> QED
  BY <1>2, <1>4, <1>5, <1>6, QueueRests

LEMMA SendEventKeeps == ASSUME IInv, SendEvent PROVE IInv'
<1> DEFINE p == Control("event", NoStream)
<1>1. p \in Controls /\ p.what = "event"
  BY ControlIn
<1>2. /\ Enqueue(p) /\ task["events"] = "await" /\ pushed.events < MaxEvents
      /\ pushed' = [pushed EXCEPT !.events = @ + 1]
      /\ task' = [task EXCEPT !["events"] = IF q'.closed THEN "over" ELSE "await"]
      /\ writer' = writer /\ aborted' = aborted /\ subs' = subs /\ stops' = stops /\ heard' = heard
  BY DEF SendEvent
<1> HIDE DEF p
<1>3. OthersOK /\ task \in [Tasks -> {"none", "await", "busy", "hold", "reopen", "closed", "over"}] /\ pushed \in Pushes
  BY InvOthers, Counters DEF OthersOK
<1>4. /\ pushed' \in Pushes /\ pushed'.total = pushed.total /\ pushed'.records = pushed.records
      /\ pushed'.missed = pushed.missed
  <2> DEFINE n == pushed.events + 1
  <2>1. n \in 0..MaxEvents
    <3>1. pushed.events \in 0..MaxEvents
      BY <1>3 DEF Pushes
    <3> QED
      BY <3>1, <1>2, Maxima
  <2>2. pushed' = [pushed EXCEPT !.events = n]
    BY <1>2
  <2> HIDE DEF n
  <2> QED
    BY <2>1, <2>2, <1>3 DEF Pushes
<1>5. task' \in [Tasks -> {"none", "await", "busy", "hold", "reopen", "closed", "over"}]
      /\ \A t \in Streams : task[t] = "none" <=> task'[t] = "none"
  BY <1>2, <1>3, StreamTasks
<1>6. OthersOK'
  BY <1>2, <1>3, <1>4, <1>5 DEF OthersOK, Pushes
<1>7. /\ \A t \in Streams : task[t] # "none" => task'[t] # "none"
      /\ \A t \in Streams : (task[t] = "none" /\ task'[t] # "none") => (p.what = "started" /\ p.id = t)
  BY <1>5
<1>8. /\ pushed'.records - pushed'.missed = pushed.records - pushed.missed
      /\ stops \subseteq stops' /\ (p.what = "stopped" => p.id \in stops')
  BY <1>1, <1>2, <1>4
<1> QED
  BY <1>1, <1>2, <1>4, <1>6, <1>7, <1>8, ControlFed

LEMMA MissDecodedKeeps == ASSUME IInv, MissDecoded PROVE IInv'
<1> DEFINE p == Control("missed", NoStream)
<1>1. p \in Controls /\ p.what = "missed"
  BY ControlIn
<1>2. /\ Enqueue(p) /\ task["decoded"] = "await" /\ pushed.records < MaxRecords
      /\ pushed' = [pushed EXCEPT !.records = @ + 1, !.missed = @ + 1]
      /\ task' = [task EXCEPT !["decoded"] = IF q'.closed THEN "over" ELSE "await"]
      /\ writer' = writer /\ aborted' = aborted /\ subs' = subs /\ stops' = stops /\ heard' = heard
  BY DEF MissDecoded
<1> HIDE DEF p
<1>3. OthersOK /\ task \in [Tasks -> {"none", "await", "busy", "hold", "reopen", "closed", "over"}] /\ pushed \in Pushes
  BY InvOthers, Counters DEF OthersOK
<1>c. pushed.records \in 0..MaxRecords /\ pushed.missed \in 0..MaxRecords
  BY <1>3 DEF Pushes
<1>4. /\ pushed' \in Pushes /\ pushed'.total = pushed.total /\ pushed'.records = pushed.records + 1
      /\ pushed'.missed = pushed.missed + 1
  <2> DEFINE n == pushed.records + 1
             m == pushed.missed + 1
  <2>1. n \in 0..MaxRecords /\ m \in 0..MaxRecords
    <3>1. pushed.missed <= pushed.records
      BY DEF IInv, MissedOK
    <3> QED
      BY <3>1, <1>2, <1>c, Maxima
  <2>2. pushed' = [pushed EXCEPT !.records = n, !.missed = m]
    BY <1>2
  <2> HIDE DEF n, m
  <2>3. /\ pushed' \in Pushes /\ pushed'.total = pushed.total /\ pushed'.records = n
        /\ pushed'.missed = m
    BY <2>1, <2>2, <1>3 DEF Pushes
  <2> QED
    BY <2>3 DEF n, m
<1>5. task' \in [Tasks -> {"none", "await", "busy", "hold", "reopen", "closed", "over"}]
      /\ \A t \in Streams : task[t] = "none" <=> task'[t] = "none"
  BY <1>2, <1>3, StreamTasks
<1>6. OthersOK'
  BY <1>2, <1>3, <1>4, <1>5 DEF OthersOK, Pushes
<1>7. /\ \A t \in Streams : task[t] # "none" => task'[t] # "none"
      /\ \A t \in Streams : (task[t] = "none" /\ task'[t] # "none") => (p.what = "started" /\ p.id = t)
  BY <1>5
<1>8. /\ pushed'.records - pushed'.missed = pushed.records - pushed.missed
      /\ stops \subseteq stops' /\ (p.what = "stopped" => p.id \in stops')
  BY <1>1, <1>2, <1>4, <1>c, Maxima
<1> QED
  BY <1>1, <1>2, <1>4, <1>6, <1>7, <1>8, ControlFed

LEMMA SendDecodedKeeps == ASSUME IInv, SendDecoded PROVE IInv'
<1> DEFINE p == Record(pushed.records + 1)
<1>2. /\ Enqueue(p) /\ task["decoded"] = "await" /\ pushed.records < MaxRecords
      /\ pushed' = IF q.closed THEN pushed ELSE [pushed EXCEPT !.records = @ + 1]
      /\ task' = [task EXCEPT !["decoded"] = IF q.closed THEN "over" ELSE "await"]
      /\ writer' = writer /\ aborted' = aborted /\ subs' = subs /\ stops' = stops /\ heard' = heard
  BY DEF SendDecoded
<1>3. OthersOK /\ task \in [Tasks -> {"none", "await", "busy", "hold", "reopen", "closed", "over"}] /\ pushed \in Pushes
  BY InvOthers, Counters DEF OthersOK
<1>c. pushed.records \in 0..MaxRecords
  BY <1>3 DEF Pushes
<1>1. p \in Records /\ p.n = pushed.records + 1
  <2>1. pushed.records + 1 \in Nat
    BY <1>c, Maxima
  <2> QED
    BY <2>1 DEF Record, Records
<1> HIDE DEF p
<1>5. task' \in [Tasks -> {"none", "await", "busy", "hold", "reopen", "closed", "over"}]
      /\ \A t \in Streams : task[t] = "none" <=> task'[t] = "none"
  BY <1>2, <1>3, StreamTasks
<1>6. CASE q.closed
  <2>1. q' = q /\ permit' \in BOOLEAN
    BY <1>2, <1>6, EnqueueClosed
  <2>2. pushed' = pushed /\ stops \subseteq stops'
    BY <1>2, <1>6
  <2>3. OthersOK'
    BY <1>2, <1>3, <1>5, <2>2 DEF OthersOK
  <2> QED
    BY <1>2, <1>5, <2>1, <2>2, <2>3, QueueRests
<1>7. CASE ~q.closed
  <2>1. /\ pushed' \in Pushes /\ pushed'.total = pushed.total /\ pushed'.records = pushed.records + 1
        /\ pushed'.missed = pushed.missed
    <3> DEFINE n == pushed.records + 1
    <3>1. n \in 0..MaxRecords
      BY <1>2, <1>c, Maxima
    <3>2. pushed' = [pushed EXCEPT !.records = n]
      BY <1>2, <1>7
    <3> HIDE DEF n
    <3>3. /\ pushed' \in Pushes /\ pushed'.total = pushed.total /\ pushed'.records = n
          /\ pushed'.missed = pushed.missed
      BY <3>1, <3>2, <1>3 DEF Pushes
    <3> QED
      BY <3>3 DEF n
  <2>2. OthersOK'
    BY <1>2, <1>3, <1>5, <2>1 DEF OthersOK, Pushes
  <2> QED
    BY <1>1, <1>2, <1>5, <1>7, <2>1, <2>2, RecordFed
<1> QED
  BY <1>6, <1>7

LEMMA WriterGivesUpKeeps == ASSUME IInv, WriterGivesUp PROVE IInv'
<1>1. /\ q' = [q EXCEPT !.closed = TRUE] /\ writer' = "done" /\ permit' = permit /\ task' = task
      /\ aborted' = aborted /\ subs' = subs /\ pushed' = pushed /\ stops' = stops /\ heard' = heard
  BY DEF WriterGivesUp
<1>2. q \in Queues /\ Within(q) /\ Exact(q)
  BY GoodIs DEF IInv, Good
<1>3. /\ q' \in Queues /\ q'.control = q.control /\ q'.decoded = q.decoded /\ q'.audio = q.audio
      /\ q'.media = q.media /\ q'.lost = q.lost /\ q'.closed = TRUE /\ q'.bytes = q.bytes
      /\ q'.dropped = q.dropped
  BY <1>1, <1>2 DEF Queues
<1>4. Good(q') /\ Held(q') = Held(q)
  BY <1>2, <1>3 DEF Good, Within, Exact, Held
<1>5. OthersOK' /\ permit' \in BOOLEAN
  BY <1>1, InvOthers, TypeIs DEF OthersOK
<1>6. Keeps(q.audio, q'.audio) /\ Keeps(q.media, q'.media)
  BY <1>3, KeepsAll
<1>7. (q.closed => q'.closed) /\ \A s \in Streams : task[s] = "none" <=> task'[s] = "none"
  BY <1>1, <1>3
<1> QED
  BY <1>1, <1>3, <1>4, <1>5, <1>6, <1>7, QueueShrinks

----------------------------------------------------------------------------
(* The writer.  The parts of the invariant for a queue k that lost its old *)
(* frames and for one that a packet was taken from, and for what the       *)
(* client then heard.                                                      *)

StartsAt(k, h, tk) ==
  /\ h.early = {}
  /\ ~k.closed => \A s \in Streams : tk[s] # "none" =>
       s \in h.started \/ \E i \in 1..Len(k.control) :
                             k.control[i].what = "started" /\ k.control[i].id = s
  /\ \A i \in 1..Len(k.audio) : tk[k.audio[i].id] # "none"
  /\ \A i \in 1..Len(k.media) : tk[k.media[i].id] # "none"

StopsAt(k, h, st) ==
  /\ h.stopped \subseteq st
  /\ \A i \in 1..Len(k.control) : k.control[i].what = "stopped" => k.control[i].id \in st
  /\ \A i \in 1..Len(k.audio) : k.audio[i].id \in h.stopped => k.audio[i].late
  /\ \A i \in 1..Len(k.media) : k.media[i].id \in h.stopped => k.media[i].late

RecordsAt(k, h, made) ==
  /\ \A i \in 1..Len(k.decoded) : k.decoded[i].n <= KnownOf(h, k) + i
  /\ ~k.closed => made <= KnownOf(h, k) + Len(k.decoded)

Fine(k, h, pd, tk, st) ==
  /\ Good(k) /\ h \in Hearings /\ AccountOf(pd, h, k)
  /\ StartsAt(k, h, tk) /\ StopsAt(k, h, st) /\ RecordsAt(k, h, pd.records)

LEMMA FineIs ==
  /\ IInv => Fine(q, heard, pushed, task, stops)
  /\ OthersOK' /\ permit' \in BOOLEAN /\ Fine(q', heard', pushed', task', stops') /\ MissedOK' => IInv'
<1>1. ASSUME IInv PROVE Fine(q, heard, pushed, task, stops)
  <2>1. TypeOK /\ Good(q)
    BY <1>1, GoodIs DEF IInv
  <2>2. AccountOf(pushed, heard, q) /\ heard \in Hearings
    BY <1>1, <2>1, Accounts, KnownIs DEF IInv
  <2>3. StartsAt(q, heard, task)
    BY <1>1 DEF IInv, StartsOK, StartsAt
  <2>4. StopsAt(q, heard, stops)
    BY <1>1 DEF IInv, StopsOK, StopsAt
  <2>5. RecordsAt(q, heard, pushed.records)
    BY <1>1, KnownIs DEF IInv, RecordsOK, RecordsAt
  <2> QED
    BY <2>1, <2>2, <2>3, <2>4, <2>5 DEF Fine
<1>2. ASSUME OthersOK', permit' \in BOOLEAN, Fine(q', heard', pushed', task', stops'), MissedOK'
      PROVE  IInv'
  <2>0. Good(q')
    BY <1>2 DEF Fine
  <2>1. TypeOK' /\ BytesExact'
    BY <1>2, <2>0, IsGood
  <2>2. EveryPacketAccounted'
    BY <1>2, <2>1, Accounts DEF Fine
  <2>3. StartsOK'
    BY <1>2 DEF Fine, StartsOK, StartsAt
  <2>4. StopsOK'
    BY <1>2 DEF Fine, StopsOK, StopsAt
  <2>5. RecordsOK'
    BY <1>2, KnownIs DEF Fine, RecordsOK, RecordsAt
  <2> QED
    BY <1>2, <2>1, <2>2, <2>3, <2>4, <2>5 DEF IInv
<1> QED
  BY <1>1, <1>2

LEMMA ExpiredFine ==
  ASSUME NEW k, NEW h, NEW pd, NEW tk, NEW st, Fine(k, h, pd, tk, st), NEW i, NEW j, Cuts(k, i, j)
  PROVE  Fine(Expired(k, i, j), h, pd, tk, st) /\ Expired(k, i, j).closed = k.closed
<1> DEFINE e == Expired(k, i, j)
<1>1. /\ Good(e) /\ SameRest(k, e) /\ Keeps(k.audio, e.audio) /\ Keeps(k.media, e.media)
      /\ Held(e) = Held(k)
  BY ExpiredOK DEF Fine
<1> HIDE DEF e
<1>2. AccountOf(pd, h, e)
  BY <1>1 DEF Fine, AccountOf
<1>3. StartsAt(e, h, tk)
  <2>1. StartsAt(k, h, tk)
    BY DEF Fine
  <2>2. e.control = k.control /\ e.closed = k.closed
    BY <1>1 DEF SameRest
  <2>3. \A x \in 1..Len(e.audio) : tk[e.audio[x].id] # "none"
    BY <1>1, <2>1 DEF StartsAt, Keeps
  <2>4. \A x \in 1..Len(e.media) : tk[e.media[x].id] # "none"
    BY <1>1, <2>1 DEF StartsAt, Keeps
  <2> QED
    BY <2>1, <2>2, <2>3, <2>4 DEF StartsAt
<1>4. StopsAt(e, h, st)
  BY <1>1 DEF Fine, StopsAt, Keeps, SameRest
<1>5. RecordsAt(e, h, pd.records)
  BY <1>1 DEF Fine, RecordsAt, KnownOf, SameRest
<1>6. Fine(e, h, pd, tk, st) /\ e.closed = k.closed
  BY <1>1, <1>2, <1>3, <1>4, <1>5 DEF Fine, SameRest
<1> QED
  BY <1>6 DEF e

\* What pop takes, and when.
LEMMA LaneIs ==
  ASSUME NEW k \in Queues
  PROVE  \/ Lane(k)[1] = "lost" /\ k.lost > 0
         \/ /\ Lane(k)[1] = "control" /\ k.lost = 0 /\ Lane(k)[2] \in 1..Len(k.control)
            /\ ~Waits(k, k.control[Lane(k)[2]])
         \/ /\ k.lost = 0 /\ \A i \in 1..Len(k.control) : k.control[i].what = "stopped"
            /\ \/ Lane(k)[1] = "audio" /\ k.audio # <<>>
               \/ Lane(k)[1] = "decoded" /\ k.decoded # <<>>
               \/ Lane(k)[1] = "media" /\ k.media # <<>>
               \/ Lane(k)[1] = "none"
<1> DEFINE ready == {i \in 1..Len(k.control) : ~Waits(k, k.control[i])}
<1>1. Lane(k) = IF k.lost > 0 THEN <<"lost", 0>>
                ELSE IF ready # {} THEN <<"control", Min(ready)>>
                ELSE IF k.audio # <<>> THEN <<"audio", 1>>
                ELSE IF k.decoded # <<>> THEN <<"decoded", 1>>
                ELSE IF k.media # <<>> THEN <<"media", 1>>
                ELSE <<"none", 0>>
  BY Zenon DEF Lane
<1>2. k.lost \in Nat /\ Len(k.control) \in Nat
  BY Fields
<1>3. ready # {} => Min(ready) \in 1..Len(k.control) /\ ~Waits(k, k.control[Min(ready)])
  <2>1. ready \in SUBSET Nat /\ \A i \in ready : i \in 1..Len(k.control) /\ ~Waits(k, k.control[i])
    BY <1>2
  <2> HIDE DEF ready
  <2> QED
    BY <2>1, LeastIn
<1>4. ready = {} => \A i \in 1..Len(k.control) : k.control[i].what = "stopped"
  BY DEF Waits
<1> HIDE DEF ready
<1>5. CASE k.lost > 0
  BY <1>1, <1>5
<1>6. CASE ~(k.lost > 0) /\ ready # {}
  <2>1. Lane(k) = <<"control", Min(ready)>> /\ k.lost = 0
    BY <1>1, <1>2, <1>6
  <2>2. Lane(k)[1] = "control" /\ Lane(k)[2] = Min(ready)
    BY <2>1
  <2> QED
    BY <1>3, <1>6, <2>1, <2>2
<1>7. CASE ~(k.lost > 0) /\ ready = {}
  <2>1. k.lost = 0
    BY <1>2, <1>7
  <2>2. \/ Lane(k)[1] = "audio" /\ k.audio # <<>>
        \/ Lane(k)[1] = "decoded" /\ k.decoded # <<>>
        \/ Lane(k)[1] = "media" /\ k.media # <<>>
        \/ Lane(k)[1] = "none"
    BY <1>1, <1>7
  <2> QED
    BY <1>4, <1>7, <2>1, <2>2
<1> QED
  BY <1>5, <1>6, <1>7

\* A loss is reported.
LEMMA PopLost ==
  ASSUME NEW k, NEW pd, NEW tk, NEW st, Fine(k, heard, pd, tk, st), Lane(k)[1] = "lost"
  PROVE  Fine(Popped(k), Told(k), pd, tk, st) /\ Told(k).records = heard.records
<1> DEFINE r == Popped(k)
           h == Told(k)
           hl == heard.lost + k.lost
<1>1. k \in Queues /\ Within(k) /\ Exact(k) /\ heard \in Hearings
  BY DEF Fine, Good
<1>2. r = [k EXCEPT !.lost = 0]
  BY DEF Popped
<1>3. h = [heard EXCEPT !.lost = hl]
  BY DEF Told
<1>4. hl \in Nat
  BY <1>1, KnownType
<1> HIDE DEF r, h, hl
<1>5. /\ r \in Queues /\ r.control = k.control /\ r.decoded = k.decoded /\ r.audio = k.audio
      /\ r.media = k.media /\ r.lost = 0 /\ r.closed = k.closed /\ r.bytes = k.bytes
      /\ r.dropped = k.dropped
  BY <1>1, <1>2 DEF Queues
<1>6. /\ h \in Hearings /\ h.started = heard.started /\ h.stopped = heard.stopped
      /\ h.records = heard.records /\ h.lost = hl /\ h.frames = heard.frames /\ h.early = heard.early
  BY <1>1, <1>3, <1>4 DEF Hearings
<1>7. Good(r) /\ Held(r) = Held(k)
  BY <1>1, <1>5 DEF Good, Within, Exact, Held
<1>8. AccountOf(pd, h, r)
  BY <1>6, <1>7 DEF Fine, AccountOf
<1>9. StartsAt(r, h, tk)
  BY <1>5, <1>6 DEF Fine, StartsAt
<1>10. StopsAt(r, h, st)
  BY <1>5, <1>6 DEF Fine, StopsAt
<1>11. KnownOf(h, r) = KnownOf(heard, k)
  <2> DEFINE m == Missed(k.control)
  <2>1. heard.records \in Nat /\ heard.lost \in Nat /\ k.lost \in Nat /\ m \in Nat
    BY <1>1, KnownType
  <2>2. KnownOf(h, r) = heard.records + (heard.lost + k.lost) + 0 + m
    BY <1>5, <1>6 DEF KnownOf, hl
  <2>3. KnownOf(heard, k) = heard.records + heard.lost + k.lost + m
    BY DEF KnownOf
  <2> HIDE DEF m
  <2> QED
    BY <2>1, <2>2, <2>3
<1>12. RecordsAt(r, h, pd.records)
  BY <1>5, <1>11 DEF Fine, RecordsAt
<1>13. Fine(r, h, pd, tk, st) /\ h.records = heard.records
  BY <1>6, <1>7, <1>8, <1>9, <1>10, <1>12 DEF Fine
<1> QED
  BY <1>13 DEF r, h

\* Two lanes of frames, one behind the other, have the frames of both.
LEMMA BothLanes ==
  ASSUME NEW s \in Seq(Frames), NEW t \in Seq(Frames)
  PROVE  /\ Keeps(s \o t, s) /\ Keeps(s \o t, t)
         /\ \A x \in 1..Len(s \o t) : \/ \E y \in 1..Len(s) : (s \o t)[x] = s[y]
                                      \/ \E y \in 1..Len(t) : (s \o t)[x] = t[y]
<1> DEFINE u == s \o t
           ls == Len(s)
           lt == Len(t)
<1>1. /\ Len(u) = ls + lt /\ \A x \in 1..(ls + lt) : u[x] = IF x <= ls THEN s[x] ELSE t[x - ls]
      /\ ls \in Nat /\ lt \in Nat
  BY ConcatProperties
<1> HIDE DEF u, ls, lt
<1>2. ASSUME NEW x \in 1..ls PROVE \E y \in 1..Len(u) : s[x] = u[y]
  <2>1. x \in 1..(ls + lt) /\ x <= ls
    BY <1>1
  <2>2. u[x] = s[x]
    BY <1>1, <2>1
  <2> QED
    BY <1>1, <2>1, <2>2
<1>3. ASSUME NEW x \in 1..lt PROVE \E y \in 1..Len(u) : t[x] = u[y]
  <2> DEFINE y == ls + x
  <2>1. y \in 1..(ls + lt) /\ ~(y <= ls) /\ y - ls = x
    BY <1>1
  <2> HIDE DEF y
  <2>2. u[y] = t[x]
    BY <1>1, <2>1
  <2> QED
    BY <1>1, <2>1, <2>2
<1>4. ASSUME NEW x \in 1..(ls + lt)
      PROVE  (\E y \in 1..ls : u[x] = s[y]) \/ (\E y \in 1..lt : u[x] = t[y])
  <2>1. CASE x <= ls
    <3>1. x \in 1..ls /\ u[x] = s[x]
      BY <1>1, <2>1
    <3> QED
      BY <3>1
  <2>2. CASE ~(x <= ls)
    <3>1. x - ls \in 1..lt
      BY <1>1, <2>2
    <3>2. u[x] = t[x - ls]
      BY <1>1, <2>2
    <3> QED
      BY <3>1, <3>2
  <2> QED
    BY <2>1, <2>2
<1>5. Keeps(u, s) /\ Keeps(u, t)
  BY <1>2, <1>3 DEF Keeps, ls, lt
<1>6. \A x \in 1..Len(u) : \/ \E y \in 1..Len(s) : u[x] = s[y]
                           \/ \E y \in 1..Len(t) : u[x] = t[y]
  BY <1>1, <1>4 DEF ls, lt
<1> QED
  BY <1>5, <1>6 DEF u

\* A control message is ready: it is there, and does not wait for its frames.
Ready(k) == Lane(k)[2] \in 1..Len(k.control) /\ ~Waits(k, k.control[Lane(k)[2]])

\* A control message is sent.
LEMMA PopControl ==
  ASSUME NEW k, NEW pd, NEW tk, NEW st, Fine(k, heard, pd, tk, st), Lane(k)[1] = "control", Ready(k)
  PROVE  Fine(Popped(k), Told(k), pd, tk, st) /\ Told(k).records = heard.records
<1> DEFINE r == Popped(k)
           h == Told(k)
           i == Lane(k)[2]
           p == k.control[i]
           w == RemoveAt(k.control, i)
           c == k.bytes - p.size
           hs == IF p.what = "started" THEN heard.started \cup {p.id} ELSE heard.started
           ht == IF p.what = "stopped" THEN heard.stopped \cup {p.id} ELSE heard.stopped
           hl == IF p.what = "missed" THEN heard.lost + 1 ELSE heard.lost
<1>1. k \in Queues /\ Within(k) /\ Exact(k) /\ heard \in Hearings
  BY DEF Fine, Good
<1>2. r = [k EXCEPT !.control = w, !.bytes = c]
  BY DEF Popped
<1>3. h = [heard EXCEPT !.started = hs, !.stopped = ht, !.lost = hl]
  BY DEF Told
<1>i. i \in 1..Len(k.control) /\ ~Waits(k, p)
  BY DEF Ready
<1> HIDE DEF i
<1>4. /\ w \in Seq(Controls) /\ Len(w) = Len(k.control) - 1 /\ Keeps(k.control, w)
      /\ \A j \in 1..Len(k.control) : j = i \/ \E m \in 1..Len(w) : w[m] = k.control[j]
      /\ Bytes(k.control) = p.size + Bytes(w) /\ p.size \in Nat /\ Bytes(w) \in Nat /\ p \in Controls
      /\ Missed(k.control) = Missed(w) + IF p.what = "missed" THEN 1 ELSE 0
  <2>1. k.control \in Seq(Controls)
    BY <1>1, Fields
  <2> QED
    BY <1>i, <2>1, ControlOut
<1>p. /\ p.what \in {"started", "stopped"} => p.id \in Streams
  BY <1>4, ControlsAre
<1> HIDE DEF r, h, p, w
<1>5. c \in Nat /\ c = Bytes(w) + Bytes(k.decoded) + Bytes(k.audio) + Bytes(k.media) /\ c <= k.bytes
  <2>1. /\ Bytes(k.control) \in Nat /\ Bytes(k.decoded) \in Nat /\ k.bytes \in Nat
        /\ Bytes(k.audio) \in Nat /\ Bytes(k.media) \in Nat
        /\ k.bytes = Bytes(k.control) + Bytes(k.decoded) + Bytes(k.audio) + Bytes(k.media)
    BY <1>1, Fields DEF Exact
  <2>2. Bytes(k.control) = p.size + Bytes(w) /\ p.size \in Nat /\ Bytes(w) \in Nat
    BY <1>4
  <2> QED
    BY <2>1, <2>2
<1>6. hs \in SUBSET Streams /\ ht \in SUBSET Streams /\ hl \in Nat
  <2>1. heard.started \in SUBSET Streams /\ heard.stopped \in SUBSET Streams /\ heard.lost \in Nat
    BY <1>1 DEF Hearings
  <2> QED
    BY <2>1, <1>p
<1> HIDE DEF c, hs, ht, hl
<1>7. /\ r \in Queues /\ r.control = w /\ r.decoded = k.decoded /\ r.audio = k.audio
      /\ r.media = k.media /\ r.lost = k.lost /\ r.closed = k.closed /\ r.bytes = c
      /\ r.dropped = k.dropped
  <2>1. w \in Seq(Controls) /\ c \in Nat
    BY <1>4, <1>5
  <2> QED
    BY <1>1, <1>2, <2>1 DEF Queues
<1>8. /\ h \in Hearings /\ h.started = hs /\ h.stopped = ht
      /\ h.records = heard.records /\ h.lost = hl /\ h.frames = heard.frames /\ h.early = heard.early
  BY <1>1, <1>3, <1>6 DEF Hearings
<1>9. Good(r) /\ Held(r) = Held(k)
  <2>1. Len(w) <= ControlLimit
    <3>1. Len(k.control) <= ControlLimit /\ Len(k.control) \in Nat
      BY <1>1, Fields DEF Within
    <3> QED
      BY <3>1, <1>4, Limits
  <2>2. c <= ByteLimit
    <3>1. k.bytes <= ByteLimit /\ k.bytes \in Nat
      BY <1>1, Fields DEF Within
    <3> QED
      BY <3>1, <1>5, Limits
  <2>3. Within(r)
    BY <1>1, <1>7, <2>1, <2>2 DEF Within
  <2>4. Exact(r)
    BY <1>5, <1>7 DEF Exact
  <2>5. Held(r) = Held(k)
    BY <1>7 DEF Held
  <2> QED
    BY <1>7, <2>3, <2>4, <2>5 DEF Good
<1>10. AccountOf(pd, h, r)
  BY <1>8, <1>9 DEF Fine, AccountOf
<1>11. StartsAt(r, h, tk)
  <2>0. StartsAt(k, heard, tk)
    BY DEF Fine
  <2>1. ASSUME ~r.closed, NEW s \in Streams, tk[s] # "none"
        PROVE  s \in hs \/ \E x \in 1..Len(w) : w[x].what = "started" /\ w[x].id = s
    <3>1. s \in heard.started \/ \E x \in 1..Len(k.control) :
                                    k.control[x].what = "started" /\ k.control[x].id = s
      BY <1>7, <2>0, <2>1 DEF StartsAt
    <3>2. CASE s \in heard.started
      BY <3>2 DEF hs
    <3>3. ASSUME NEW x \in 1..Len(k.control), k.control[x].what = "started", k.control[x].id = s
          PROVE  s \in hs \/ \E y \in 1..Len(w) : w[y].what = "started" /\ w[y].id = s
      <4>1. CASE x = i
        BY <3>3, <4>1 DEF hs, p
      <4>2. CASE x # i
        BY <3>3, <4>2, <1>4
      <4> QED
        BY <4>1, <4>2
    <3> QED
      BY <3>1, <3>2, <3>3
  <2>2. \A x \in 1..Len(r.audio) : tk[r.audio[x].id] # "none"
    BY <1>7, <2>0 DEF StartsAt
  <2>3. \A x \in 1..Len(r.media) : tk[r.media[x].id] # "none"
    BY <1>7, <2>0 DEF StartsAt
  <2>4. h.early = {}
    BY <1>8, <2>0 DEF StartsAt
  <2>5. ~r.closed => \A s \in Streams : tk[s] # "none" =>
          s \in h.started \/ \E x \in 1..Len(r.control) :
                                r.control[x].what = "started" /\ r.control[x].id = s
    BY <1>7, <1>8, <2>1
  <2> QED
    BY <2>2, <2>3, <2>4, <2>5 DEF StartsAt
<1>12. StopsAt(r, h, st)
  <2>0. StopsAt(k, heard, st)
    BY DEF Fine
  <2>1. ht \subseteq st
    <3>1. p.what = "stopped" => p.id \in st
      BY <1>i, <2>0 DEF StopsAt, p
    <3>2. heard.stopped \subseteq st
      BY <2>0 DEF StopsAt
    <3> QED
      BY <3>1, <3>2 DEF ht
  <2>2. \A x \in 1..Len(w) : w[x].what = "stopped" => w[x].id \in st
    BY <1>4, <2>0 DEF StopsAt, Keeps
  <2>u. Keeps(k.audio \o k.media, k.audio) /\ Keeps(k.audio \o k.media, k.media)
    BY <1>1, Fields, BothLanes
  <2>w. p.what = "stopped" => \A x \in 1..Len(k.audio \o k.media) : (k.audio \o k.media)[x].id # p.id
    BY <1>i DEF Waits
  <2>x. p.what = "stopped" => /\ \A x \in 1..Len(k.audio) : k.audio[x].id # p.id
                              /\ \A x \in 1..Len(k.media) : k.media[x].id # p.id
    BY <2>u, <2>w DEF Keeps
  <2>3. ASSUME NEW x \in 1..Len(k.audio), k.audio[x].id \in ht PROVE k.audio[x].late
    <3>1. k.audio[x].id \in heard.stopped
      BY <2>3, <2>x DEF ht
    <3> QED
      BY <3>1, <2>0 DEF StopsAt
  <2>4. ASSUME NEW x \in 1..Len(k.media), k.media[x].id \in ht PROVE k.media[x].late
    <3>1. k.media[x].id \in heard.stopped
      BY <2>4, <2>x DEF ht
    <3> QED
      BY <3>1, <2>0 DEF StopsAt
  <2> QED
    BY <1>7, <1>8, <2>1, <2>2, <2>3, <2>4 DEF StopsAt
<1>13. KnownOf(h, r) = KnownOf(heard, k)
  <2> DEFINE m == Missed(k.control)
             n == Missed(w)
             e == IF p.what = "missed" THEN 1 ELSE 0
  <2>1. heard.records \in Nat /\ heard.lost \in Nat /\ k.lost \in Nat /\ m \in Nat
    BY <1>1, KnownType
  <2>2. m = n + e /\ e \in Nat
    BY <1>4
  <2>n. n \in Nat
    BY <1>4, LanesHoldPackets, MissedType
  <2>3. hl = heard.lost + e
    BY <2>1 DEF hl
  <2>4. KnownOf(h, r) = heard.records + hl + k.lost + n
    BY <1>7, <1>8 DEF KnownOf
  <2>5. KnownOf(heard, k) = heard.records + heard.lost + k.lost + m
    BY DEF KnownOf
  <2> HIDE DEF m, n, e
  <2> QED
    BY <2>1, <2>2, <2>n, <2>3, <2>4, <2>5
<1>14. RecordsAt(r, h, pd.records)
  BY <1>7, <1>13 DEF Fine, RecordsAt
<1>15. Fine(r, h, pd, tk, st) /\ h.records = heard.records
  BY <1>8, <1>9, <1>10, <1>11, <1>12, <1>14 DEF Fine
<1> QED
  BY <1>15 DEF r, h

LEMMA FramesTail ==
  ASSUME NEW s \in Seq(Frames), s # <<>>
  PROVE  /\ Tail(s) \in Seq(Frames) /\ Len(Tail(s)) = Len(s) - 1 /\ Keeps(s, Tail(s))
         /\ s[1] \in Frames /\ 1 \in 1..Len(s) /\ Len(s) \in Nat
         /\ Bytes(s) = s[1].size + Bytes(Tail(s)) /\ s[1].size \in Nat /\ Bytes(Tail(s)) \in Nat
<1>1. /\ Tail(s) \in Seq(Frames) /\ Len(Tail(s)) = Len(s) - 1 /\ Len(s) \in Nat /\ Len(s) > 0
      /\ \A i \in 1..(Len(s) - 1) : Tail(s)[i] = s[i + 1]
  BY HeadTailProperties
<1>2. 1 \in 1..Len(s) /\ s[1] \in Frames
  BY <1>1
<1>3. Keeps(s, Tail(s))
  <2> SUFFICES ASSUME NEW i \in 1..Len(Tail(s)) PROVE \E j \in 1..Len(s) : Tail(s)[i] = s[j]
    BY DEF Keeps
  <2>1. i + 1 \in 1..Len(s) /\ Tail(s)[i] = s[i + 1]
    BY <1>1
  <2> QED
    BY <2>1
<1>4. Bytes(s) = s[1].size + Bytes(Tail(s)) /\ s[1].size \in Nat /\ Bytes(Tail(s)) \in Nat
  BY <1>1, LanesHoldPackets, BytesTail, BytesType
<1> QED
  BY <1>1, <1>2, <1>3, <1>4

LEMMA RecordsTail ==
  ASSUME NEW s \in Seq(Records), s # <<>>
  PROVE  /\ Tail(s) \in Seq(Records) /\ Len(Tail(s)) = Len(s) - 1
         /\ \A i \in 1..(Len(s) - 1) : Tail(s)[i] = s[i + 1]
         /\ s[1] \in Records /\ 1 \in 1..Len(s) /\ Len(s) \in Nat
         /\ Bytes(s) = s[1].size + Bytes(Tail(s)) /\ s[1].size \in Nat /\ Bytes(Tail(s)) \in Nat
<1>1. /\ Tail(s) \in Seq(Records) /\ Len(Tail(s)) = Len(s) - 1 /\ Len(s) \in Nat /\ Len(s) > 0
      /\ \A i \in 1..(Len(s) - 1) : Tail(s)[i] = s[i + 1]
  BY HeadTailProperties
<1>2. 1 \in 1..Len(s) /\ s[1] \in Records
  BY <1>1
<1>4. Bytes(s) = s[1].size + Bytes(Tail(s)) /\ s[1].size \in Nat /\ Bytes(Tail(s)) \in Nat
  BY <1>1, LanesHoldPackets, BytesTail, BytesType
<1> QED
  BY <1>1, <1>2, <1>4

\* All the control there is waits for frames.
AllStopped(k) == \A i \in 1..Len(k.control) : k.control[i].what = "stopped"

\* The client gets frame f.
Hears(h, f) ==
  h = [heard EXCEPT !.frames = @ + 1, !.early = @ \cup ({f.id} \ heard.started),
                    !.after = @ \cup ({f.id} \cap heard.stopped)]

\* A frame that left a queue is sent.
LEMMA FrameSent ==
  ASSUME NEW k, NEW pd, NEW tk, NEW st, Fine(k, heard, pd, tk, st), ~k.closed, AllStopped(k),
         NEW r, Good(r), SameRest(k, r), Keeps(k.audio, r.audio), Keeps(k.media, r.media),
         Held(k) = Held(r) + 1, NEW f \in Frames, tk[f.id] # "none", NEW h, Hears(h, f)
  PROVE  Fine(r, h, pd, tk, st) /\ h.records = heard.records
<1> DEFINE hf == heard.frames + 1
           he == heard.early \cup ({f.id} \ heard.started)
           ha == heard.after \cup ({f.id} \cap heard.stopped)
<1>1. k \in Queues /\ heard \in Hearings /\ r \in Queues /\ f.id \in Streams
  BY PacketSizes DEF Fine, Good
<1>2. h = [heard EXCEPT !.frames = hf, !.early = he, !.after = ha]
  BY DEF Hears
<1>3. hf \in Nat /\ he \in SUBSET Streams /\ ha \in SUBSET Streams
  <2>1. heard.frames \in Nat /\ heard.early \in SUBSET Streams /\ heard.after \in SUBSET Streams
    BY <1>1 DEF Hearings
  <2> QED
    BY <1>1, <2>1
<1>4. StartsAt(k, heard, tk)
  BY DEF Fine
<1>5. he = {}
  <2>1. f.id \in heard.started
    <3>1. \/ f.id \in heard.started
          \/ \E i \in 1..Len(k.control) : k.control[i].what = "started" /\ k.control[i].id = f.id
      BY <1>1, <1>4 DEF StartsAt
    <3> QED
      BY <3>1 DEF AllStopped
  <2>2. heard.early = {}
    BY <1>4 DEF StartsAt
  <2> QED
    BY <2>1, <2>2
<1> HIDE DEF hf, he, ha
<1>6. /\ h \in Hearings /\ h.started = heard.started /\ h.stopped = heard.stopped
      /\ h.records = heard.records /\ h.lost = heard.lost /\ h.frames = hf /\ h.early = he
  BY <1>1, <1>2, <1>3 DEF Hearings
<1>7. r.control = k.control /\ r.decoded = k.decoded /\ r.lost = k.lost /\ r.closed = k.closed
  BY DEF SameRest
<1>8. AccountOf(pd, h, r)
  <2> DEFINE x == Held(k)
             y == Held(r)
             a == pd.total + pd.records - pd.missed
             b == heard.frames
             c == heard.records
  <2>1. x = y + 1 /\ x \in Nat /\ y \in Nat
    BY <1>1, HeldType
  <2>2. b \in Nat /\ c \in Nat
    BY <1>1, Heard
  <2>3. a = b + c + x
    BY DEF Fine, AccountOf
  <2>4. AccountOf(pd, h, r) <=> a = (b + 1) + c + y
    BY <1>6 DEF AccountOf, hf
  <2> HIDE DEF x, y, a, b, c
  <2> QED
    BY <2>1, <2>2, <2>3, <2>4
<1>9. StartsAt(r, h, tk)
  <2>1. ASSUME NEW x \in 1..Len(r.audio) PROVE tk[r.audio[x].id] # "none"
    <3>1. PICK y \in 1..Len(k.audio) : r.audio[x] = k.audio[y]
      BY DEF Keeps
    <3>2. tk[k.audio[y].id] # "none"
      BY <1>4 DEF StartsAt
    <3> QED
      BY <3>1, <3>2
  <2>2. ASSUME NEW x \in 1..Len(r.media) PROVE tk[r.media[x].id] # "none"
    <3>1. PICK y \in 1..Len(k.media) : r.media[x] = k.media[y]
      BY DEF Keeps
    <3>2. tk[k.media[y].id] # "none"
      BY <1>4 DEF StartsAt
    <3> QED
      BY <3>1, <3>2
  <2> QED
    BY <1>4, <1>5, <1>6, <1>7, <2>1, <2>2 DEF StartsAt
<1>10. StopsAt(r, h, st)
  <2>0. StopsAt(k, heard, st)
    BY DEF Fine
  <2>1. \A x \in 1..Len(r.audio) : r.audio[x].id \in heard.stopped => r.audio[x].late
    BY <2>0 DEF StopsAt, Keeps
  <2>2. \A x \in 1..Len(r.media) : r.media[x].id \in heard.stopped => r.media[x].late
    BY <2>0 DEF StopsAt, Keeps
  <2> QED
    BY <2>0, <1>6, <1>7, <2>1, <2>2 DEF StopsAt
<1>11. RecordsAt(r, h, pd.records)
  <2>1. KnownOf(h, r) = KnownOf(heard, k)
    BY <1>6, <1>7 DEF KnownOf
  <2>2. RecordsAt(k, heard, pd.records)
    BY DEF Fine
  <2> QED
    BY <1>7, <2>1, <2>2 DEF RecordsAt
<1> QED
  BY <1>6, <1>8, <1>9, <1>10, <1>11 DEF Fine

\* A frame of sound is sent.
LEMMA PopAudio ==
  ASSUME NEW k, NEW pd, NEW tk, NEW st, Fine(k, heard, pd, tk, st), Lane(k)[1] = "audio",
         k.audio # <<>>, ~k.closed, AllStopped(k)
  PROVE  Fine(Popped(k), Told(k), pd, tk, st) /\ Told(k).records = heard.records
<1> DEFINE r == Popped(k)
           h == Told(k)
           f == k.audio[1]
           w == Tail(k.audio)
           c == k.bytes - f.size
<1>1. k \in Queues /\ Within(k) /\ Exact(k)
  BY DEF Fine, Good
<1>2. r = [k EXCEPT !.audio = w, !.bytes = c]
  BY DEF Popped
<1>3. Hears(h, f)
  BY DEF Told, Hears
<1>4. /\ w \in Seq(Frames) /\ Len(w) = Len(k.audio) - 1 /\ Keeps(k.audio, w)
      /\ f \in Frames /\ 1 \in 1..Len(k.audio)
      /\ Bytes(k.audio) = f.size + Bytes(w) /\ f.size \in Nat /\ Bytes(w) \in Nat
  <2>1. k.audio \in Seq(Frames)
    BY <1>1, Fields
  <2> QED
    BY <2>1, FramesTail
<1>5. tk[f.id] # "none"
  BY <1>4 DEF Fine, StartsAt
<1> HIDE DEF r, h, f, w
<1>6. c \in Nat /\ c = Bytes(k.control) + Bytes(k.decoded) + Bytes(w) + Bytes(k.media) /\ c <= k.bytes
  <2> DEFINE bc == Bytes(k.control)
             bd == Bytes(k.decoded)
             ba == Bytes(k.audio)
             bm == Bytes(k.media)
             bw == Bytes(w)
             z == f.size
             b == k.bytes
  <2>1. /\ bc \in Nat /\ bd \in Nat /\ ba \in Nat /\ bm \in Nat /\ b \in Nat
        /\ b = bc + bd + ba + bm
    BY <1>1, Fields DEF Exact
  <2>2. ba = z + bw /\ z \in Nat /\ bw \in Nat
    BY <1>4
  <2> HIDE DEF bc, bd, ba, bm, bw, z, b
  <2>3. b - z \in Nat /\ b - z = bc + bd + bw + bm /\ b - z <= b
    BY <2>1, <2>2
  <2> QED
    BY <2>3 DEF bc, bd, bm, bw, z, b
<1> HIDE DEF c
<1>7. /\ r \in Queues /\ r.control = k.control /\ r.decoded = k.decoded /\ r.audio = w
      /\ r.media = k.media /\ r.lost = k.lost /\ r.closed = k.closed /\ r.bytes = c
      /\ r.dropped = k.dropped
  <2>1. w \in Seq(Frames) /\ c \in Nat
    BY <1>4, <1>6
  <2> QED
    BY <1>1, <1>2, <2>1 DEF Queues
<1>8. Good(r) /\ Held(k) = Held(r) + 1
  <2> DEFINE la == Len(k.audio)
             lm == Len(k.media)
             ld == Len(k.decoded)
             lw == Len(w)
             d == k.dropped
  <2>1. /\ la \in Nat /\ lm \in Nat /\ ld \in Nat /\ d \in Nat /\ lw = la - 1 /\ k.bytes \in Nat
    BY <1>1, <1>4, Fields
  <2>2. Held(k) = d + la + lm + ld /\ Held(r) = d + lw + lm + ld
    BY <1>7 DEF Held
  <2>3. la <= AudioLimit /\ k.bytes <= ByteLimit
    BY <1>1 DEF Within
  <2> HIDE DEF la, lm, ld, lw, d
  <2>4. Held(k) = Held(r) + 1
    BY <2>1, <2>2
  <2>5. lw <= AudioLimit /\ c <= ByteLimit
    BY <2>1, <2>3, <1>6, Limits
  <2>6. Within(r)
    BY <1>1, <1>7, <2>5 DEF Within, lw
  <2>7. Exact(r)
    BY <1>6, <1>7 DEF Exact
  <2> QED
    BY <1>7, <2>4, <2>6, <2>7 DEF Good
<1>9. SameRest(k, r) /\ Keeps(k.audio, r.audio) /\ Keeps(k.media, r.media)
  BY <1>4, <1>7, KeepsAll DEF SameRest
<1>10. Fine(r, h, pd, tk, st) /\ h.records = heard.records
  <2>1. f \in Frames
    BY <1>4
  <2> QED
    BY <2>1, <1>3, <1>5, <1>8, <1>9, FrameSent
<1> QED
  BY <1>10 DEF r, h

\* Another frame is sent.
LEMMA PopMedia ==
  ASSUME NEW k, NEW pd, NEW tk, NEW st, Fine(k, heard, pd, tk, st), Lane(k)[1] = "media",
         k.media # <<>>, ~k.closed, AllStopped(k)
  PROVE  Fine(Popped(k), Told(k), pd, tk, st) /\ Told(k).records = heard.records
<1> DEFINE r == Popped(k)
           h == Told(k)
           f == k.media[1]
           w == Tail(k.media)
           c == k.bytes - f.size
<1>1. k \in Queues /\ Within(k) /\ Exact(k)
  BY DEF Fine, Good
<1>2. r = [k EXCEPT !.media = w, !.bytes = c]
  BY DEF Popped
<1>3. Hears(h, f)
  BY DEF Told, Hears
<1>4. /\ w \in Seq(Frames) /\ Len(w) = Len(k.media) - 1 /\ Keeps(k.media, w)
      /\ f \in Frames /\ 1 \in 1..Len(k.media)
      /\ Bytes(k.media) = f.size + Bytes(w) /\ f.size \in Nat /\ Bytes(w) \in Nat
  <2>1. k.media \in Seq(Frames)
    BY <1>1, Fields
  <2> QED
    BY <2>1, FramesTail
<1>5. tk[f.id] # "none"
  BY <1>4 DEF Fine, StartsAt
<1> HIDE DEF r, h, f, w
<1>6. c \in Nat /\ c = Bytes(k.control) + Bytes(k.decoded) + Bytes(k.audio) + Bytes(w) /\ c <= k.bytes
  <2> DEFINE bc == Bytes(k.control)
             bd == Bytes(k.decoded)
             ba == Bytes(k.media)
             bm == Bytes(k.audio)
             bw == Bytes(w)
             z == f.size
             b == k.bytes
  <2>1. /\ bc \in Nat /\ bd \in Nat /\ ba \in Nat /\ bm \in Nat /\ b \in Nat
        /\ b = bc + bd + bm + ba
    BY <1>1, Fields DEF Exact
  <2>2. ba = z + bw /\ z \in Nat /\ bw \in Nat
    BY <1>4
  <2> HIDE DEF bc, bd, ba, bm, bw, z, b
  <2>3. b - z \in Nat /\ b - z = bc + bd + bm + bw /\ b - z <= b
    BY <2>1, <2>2
  <2> QED
    BY <2>3 DEF bc, bd, bm, bw, z, b
<1> HIDE DEF c
<1>7. /\ r \in Queues /\ r.control = k.control /\ r.decoded = k.decoded /\ r.media = w
      /\ r.audio = k.audio /\ r.lost = k.lost /\ r.closed = k.closed /\ r.bytes = c
      /\ r.dropped = k.dropped
  <2>1. w \in Seq(Frames) /\ c \in Nat
    BY <1>4, <1>6
  <2> QED
    BY <1>1, <1>2, <2>1 DEF Queues
<1>8. Good(r) /\ Held(k) = Held(r) + 1
  <2> DEFINE la == Len(k.media)
             lm == Len(k.audio)
             ld == Len(k.decoded)
             lw == Len(w)
             d == k.dropped
  <2>1. /\ la \in Nat /\ lm \in Nat /\ ld \in Nat /\ d \in Nat /\ lw = la - 1 /\ k.bytes \in Nat
    BY <1>1, <1>4, Fields
  <2>2. Held(k) = d + lm + la + ld /\ Held(r) = d + lm + lw + ld
    BY <1>7 DEF Held
  <2>3. la <= MediaLimit /\ k.bytes <= ByteLimit
    BY <1>1 DEF Within
  <2> HIDE DEF la, lm, ld, lw, d
  <2>4. Held(k) = Held(r) + 1
    BY <2>1, <2>2
  <2>5. lw <= MediaLimit /\ c <= ByteLimit
    BY <2>1, <2>3, <1>6, Limits
  <2>6. Within(r)
    BY <1>1, <1>7, <2>5 DEF Within, lw
  <2>7. Exact(r)
    BY <1>6, <1>7 DEF Exact
  <2> QED
    BY <1>7, <2>4, <2>6, <2>7 DEF Good
<1>9. SameRest(k, r) /\ Keeps(k.media, r.media) /\ Keeps(k.audio, r.audio)
  BY <1>4, <1>7, KeepsAll DEF SameRest
<1>10. Fine(r, h, pd, tk, st) /\ h.records = heard.records
  <2>1. f \in Frames
    BY <1>4
  <2> QED
    BY <2>1, <1>3, <1>5, <1>8, <1>9, FrameSent
<1> QED
  BY <1>10 DEF r, h

\* A record is sent: it is the one after the last the client knows of, or the
\* client was told of what lies between.
LEMMA PopDecoded ==
  ASSUME NEW k, NEW pd, NEW tk, NEW st, Fine(k, heard, pd, tk, st), Lane(k)[1] = "decoded",
         k.decoded # <<>>, ~k.closed, AllStopped(k), k.lost = 0, pd.records \in Nat
  PROVE  Fine(Popped(k), Told(k), pd, tk, st) /\ Told(k).last <= Told(k).records + Told(k).lost
<1> DEFINE r == Popped(k)
           h == Told(k)
           e == k.decoded[1]
           w == Tail(k.decoded)
           c == k.bytes - e.size
           hr == heard.records + 1
           hn == e.n
<1>1. k \in Queues /\ Within(k) /\ Exact(k) /\ heard \in Hearings
  BY DEF Fine, Good
<1>2. r = [k EXCEPT !.decoded = w, !.bytes = c]
  BY DEF Popped
<1>3. h = [heard EXCEPT !.records = hr, !.last = hn]
  BY DEF Told
<1>s. k.decoded \in Seq(Records)
  BY <1>1, Fields
<1>4. /\ w \in Seq(Records) /\ Len(w) = Len(k.decoded) - 1
      /\ \A i \in 1..(Len(k.decoded) - 1) : w[i] = k.decoded[i + 1]
      /\ e \in Records /\ 1 \in 1..Len(k.decoded)
      /\ Bytes(k.decoded) = e.size + Bytes(w) /\ e.size \in Nat /\ Bytes(w) \in Nat
  BY <1>s, RecordsTail
<1>5. hr \in Nat /\ hn \in Nat
  <2>1. e \in Records
    BY <1>4
  <2> QED
    BY <1>1, <2>1, Heard, PacketSizes
<1> HIDE DEF r, h, e, w
<1>6. c \in Nat /\ c = Bytes(k.control) + Bytes(w) + Bytes(k.audio) + Bytes(k.media) /\ c <= k.bytes
  <2> DEFINE bc == Bytes(k.control)
             bd == Bytes(k.decoded)
             ba == Bytes(k.audio)
             bm == Bytes(k.media)
             bw == Bytes(w)
             z == e.size
             b == k.bytes
  <2>1. /\ bc \in Nat /\ bd \in Nat /\ ba \in Nat /\ bm \in Nat /\ b \in Nat
        /\ b = bc + bd + ba + bm
    BY <1>1, Fields DEF Exact
  <2>2. bd = z + bw /\ z \in Nat /\ bw \in Nat
    BY <1>4
  <2> HIDE DEF bc, bd, ba, bm, bw, z, b
  <2>3. b - z \in Nat /\ b - z = bc + bw + ba + bm /\ b - z <= b
    BY <2>1, <2>2
  <2> QED
    BY <2>3 DEF bc, ba, bm, bw, z, b
<1> HIDE DEF c, hr, hn
<1>7. /\ r \in Queues /\ r.control = k.control /\ r.decoded = w /\ r.audio = k.audio
      /\ r.media = k.media /\ r.lost = k.lost /\ r.closed = k.closed /\ r.bytes = c
      /\ r.dropped = k.dropped
  <2>1. w \in Seq(Records) /\ c \in Nat
    BY <1>4, <1>6
  <2> QED
    BY <1>1, <1>2, <2>1 DEF Queues
<1>8. /\ h \in Hearings /\ h.started = heard.started /\ h.stopped = heard.stopped
      /\ h.records = hr /\ h.last = hn /\ h.lost = heard.lost /\ h.frames = heard.frames
      /\ h.early = heard.early
  BY <1>1, <1>3, <1>5 DEF Hearings
<1>9. Good(r) /\ Held(k) = Held(r) + 1
  <2> DEFINE la == Len(k.audio)
             lm == Len(k.media)
             ld == Len(k.decoded)
             lw == Len(w)
             d == k.dropped
  <2>1. /\ la \in Nat /\ lm \in Nat /\ ld \in Nat /\ d \in Nat /\ lw = ld - 1 /\ k.bytes \in Nat
    BY <1>1, <1>4, Fields
  <2>2. Held(k) = d + la + lm + ld /\ Held(r) = d + la + lm + lw
    BY <1>7 DEF Held
  <2>3. ld <= DecodedLimit /\ k.bytes <= ByteLimit
    BY <1>1 DEF Within
  <2> HIDE DEF la, lm, ld, lw, d
  <2>4. Held(k) = Held(r) + 1
    BY <2>1, <2>2
  <2>5. lw <= DecodedLimit /\ c <= ByteLimit
    BY <2>1, <2>3, <1>6, Limits
  <2>6. Within(r)
    BY <1>1, <1>7, <2>5 DEF Within, lw
  <2>7. Exact(r)
    BY <1>6, <1>7 DEF Exact
  <2> QED
    BY <1>7, <2>4, <2>6, <2>7 DEF Good
<1>10. AccountOf(pd, h, r)
  <2> DEFINE x == Held(k)
             y == Held(r)
             a == pd.total + pd.records - pd.missed
             f == heard.frames
             g == heard.records
  <2>1. x = y + 1 /\ x \in Nat /\ y \in Nat
    BY <1>1, <1>7, <1>9, HeldType
  <2>2. f \in Nat /\ g \in Nat
    BY <1>1, Heard
  <2>3. a = f + g + x
    BY DEF Fine, AccountOf
  <2>4. AccountOf(pd, h, r) <=> a = f + (g + 1) + y
    BY <1>8 DEF AccountOf, hr
  <2> HIDE DEF x, y, a, f, g
  <2> QED
    BY <2>1, <2>2, <2>3, <2>4
<1>11. StartsAt(r, h, tk)
  BY <1>7, <1>8 DEF Fine, StartsAt
<1>12. StopsAt(r, h, st)
  BY <1>7, <1>8 DEF Fine, StopsAt
<1> DEFINE a == KnownOf(heard, k)
           b == KnownOf(h, r)
           ld == Len(k.decoded)
<1>13. b = a + 1 /\ a \in Nat /\ b = hr + heard.lost
  <2> DEFINE m == Missed(k.control)
             g == heard.records
             o == heard.lost
  <2>1. g \in Nat /\ o \in Nat /\ k.control \in Seq(Packets)
    BY <1>1, KnownType
  <2>2. m = 0
    <3>1. \A i \in 1..Len(k.control) : k.control[i].what # "missed"
      BY DEF AllStopped
    <3> QED
      BY <2>1, <3>1, NothingMissed
  <2>3. a = g + o + 0 + m
    BY DEF KnownOf
  <2>4. b = (g + 1) + o + 0 + m
    BY <1>7, <1>8 DEF KnownOf, hr
  <2>5. hr + heard.lost = (g + 1) + o
    BY DEF hr
  <2> HIDE DEF m, g, o, a, b
  <2> QED
    BY <2>1, <2>2, <2>3, <2>4, <2>5
<1>14. ld \in Nat /\ \A i \in 1..ld : k.decoded[i].n <= a + i /\ k.decoded[i].n \in Nat
  <2>1. \A i \in 1..ld : k.decoded[i].n <= a + i
    BY DEF Fine, RecordsAt
  <2>2. \A i \in 1..ld : k.decoded[i] \in Records
    BY <1>s
  <2>3. ld \in Nat
    BY <1>s
  <2> QED
    BY <2>1, <2>2, <2>3, PacketSizes
<1>15. pd.records <= a + ld
  BY DEF Fine, RecordsAt
<1>16. ASSUME NEW i \in 1..(ld - 1) PROVE w[i].n <= b + i
  <2>1. w[i] = k.decoded[i + 1]
    BY <1>4
  <2>2. i + 1 \in 1..ld /\ i \in Nat
    <3> HIDE DEF ld
    <3> QED
      BY <1>14
  <2> DEFINE v == k.decoded[i + 1].n
  <2>3. v <= a + (i + 1) /\ v \in Nat
    BY <2>2, <1>14
  <2>4. w[i].n = v
    BY <2>1
  <2> HIDE DEF v, a, b, ld
  <2> QED
    BY <2>2, <2>3, <2>4, <1>13
<1>17. RecordsAt(r, h, pd.records)
  <2>1. Len(w) = ld - 1
    BY <1>4
  <2>2. pd.records <= b + (ld - 1)
    <3> HIDE DEF a, b, ld
    <3> QED
      BY <1>13, <1>14, <1>15
  <2> HIDE DEF a, b, ld
  <2>3. (\A i \in 1..Len(r.decoded) : r.decoded[i].n <= b + i) /\ pd.records <= b + Len(r.decoded)
    BY <1>7, <1>16, <2>1, <2>2
  <2> QED
    BY <2>3 DEF RecordsAt, b
<1>18. h.last <= h.records + h.lost
  <2>1. hn <= a + 1
    BY <1>4, <1>14 DEF hn, e
  <2> HIDE DEF a, b
  <2> QED
    BY <2>1, <1>8, <1>13
<1>19. Fine(r, h, pd, tk, st)
  BY <1>8, <1>9, <1>10, <1>11, <1>12, <1>17 DEF Fine
<1> QED
  BY <1>18, <1>19 DEF r, h

\* recv takes from the queue, or finds it empty or closed; only what it takes
\* from the lane of records counts as a record heard.
LEMMA RecvKeeps ==
  ASSUME IInv, Recv
  PROVE  IInv' /\ (heard'.records # heard.records => heard'.last <= heard'.records + heard'.lost)
<1>1. /\ permit' = permit /\ task' = task /\ aborted' = aborted /\ subs' = subs /\ pushed' = pushed
      /\ stops' = stops
  BY DEF Recv
<1>2. OthersOK /\ permit \in BOOLEAN /\ MissedOK
  BY InvOthers, TypeIs DEF IInv
<1>3. permit' \in BOOLEAN /\ MissedOK'
  BY <1>1, <1>2 DEF MissedOK
<1>4. CASE q.closed
  <2>1. q' = q /\ heard' = heard /\ writer' = "done"
    BY <1>4 DEF Recv
  <2>2. OthersOK'
    BY <1>1, <1>2, <2>1 DEF OthersOK
  <2>3. IInv'
    BY <1>1, <1>3, <2>1, <2>2, QueueRests
  <2> QED
    BY <2>1, <2>3
<1>5. CASE ~q.closed
  <2>1. PICK i \in 0..Len(q.audio), j \in 0..Len(q.media) :
          LET k == Expired(q, i, j)
          IN IF Lane(k)[1] # "none"
             THEN q' = Popped(k) /\ heard' = Told(k) /\ writer' = "write"
             ELSE /\ q' = [k EXCEPT !.closed = NoSenders]
                  /\ writer' = IF NoSenders THEN "done" ELSE "wait"
                  /\ UNCHANGED heard
    BY <1>5 DEF Recv
  <2> DEFINE k == Expired(q, i, j)
  <2>c. Cuts(q, i, j)
    BY DEF Cuts
  <2>f. Fine(q, heard, pushed, task, stops) /\ Good(q)
    <3>1. Fine(q, heard, pushed, task, stops)
      BY FineIs
    <3> QED
      BY <3>1 DEF Fine
  <2>2. Fine(k, heard, pushed, task, stops) /\ k.closed = q.closed
    BY <2>c, <2>f, ExpiredFine
  <2>3. /\ Good(k) /\ SameRest(q, k) /\ Keeps(q.audio, k.audio) /\ Keeps(q.media, k.media)
        /\ Held(k) = Held(q)
    BY <2>c, <2>f, ExpiredOK
  <2>4. /\ Lane(k)[1] # "none" => q' = Popped(k) /\ heard' = Told(k) /\ writer' = "write"
        /\ Lane(k)[1] = "none" => /\ q' = [k EXCEPT !.closed = NoSenders]
                                  /\ writer' = IF NoSenders THEN "done" ELSE "wait"
                                  /\ heard' = heard
    BY <2>1
  <2> HIDE DEF k
  <2>5. CASE Lane(k)[1] = "none"
    <3> DEFINE nb == NoSenders
    <3>1. nb \in BOOLEAN /\ q' = [k EXCEPT !.closed = nb]
      BY <2>4, <2>5 DEF NoSenders
    <3>2. k \in Queues /\ Within(k) /\ Exact(k)
      BY <2>3 DEF Good
    <3> HIDE DEF nb
    <3>3. /\ q' \in Queues /\ q'.control = k.control /\ q'.decoded = k.decoded /\ q'.audio = k.audio
          /\ q'.media = k.media /\ q'.lost = k.lost /\ q'.bytes = k.bytes /\ q'.dropped = k.dropped
      BY <3>1, <3>2 DEF Queues
    <3>4. Good(q') /\ Held(q') = Held(q)
      <4>1. Good(q')
        BY <3>2, <3>3 DEF Good, Within, Exact
      <4>2. Held(q') = Held(k)
        BY <3>3 DEF Held
      <4> QED
        BY <4>1, <4>2, <2>3
    <3>5. /\ q'.control = q.control /\ q'.decoded = q.decoded /\ q'.lost = q.lost
          /\ (q.closed => q'.closed)
      BY <1>5, <2>3, <3>3 DEF SameRest
    <3>6. Keeps(q.audio, q'.audio) /\ Keeps(q.media, q'.media)
      BY <2>3, <3>3
    <3>7. writer' \in {"done", "wait"} /\ heard' = heard
      BY <2>4, <2>5
    <3>8. OthersOK'
      BY <1>1, <1>2, <3>7 DEF OthersOK
    <3>9. IInv'
      BY <1>1, <1>3, <3>4, <3>5, <3>6, <3>7, <3>8, QueueShrinks
    <3> QED
      BY <3>7, <3>9
  <2>6. CASE Lane(k)[1] # "none"
    <3>1. q' = Popped(k) /\ heard' = Told(k) /\ writer' = "write"
      BY <2>4, <2>6
    <3>p. pushed.records \in Nat
      BY <1>2, Counters, Pushed
    <3>2. /\ Fine(Popped(k), Told(k), pushed, task, stops)
          /\ Told(k).records # heard.records => Told(k).last <= Told(k).records + Told(k).lost
      <4>0. k \in Queues /\ ~k.closed
        BY <1>5, <2>2, <2>3 DEF Good
      <4>1. \/ Lane(k)[1] = "lost" /\ k.lost > 0
            \/ Lane(k)[1] = "control" /\ Ready(k)
            \/ /\ k.lost = 0 /\ AllStopped(k)
               /\ \/ Lane(k)[1] = "audio" /\ k.audio # <<>>
                  \/ Lane(k)[1] = "decoded" /\ k.decoded # <<>>
                  \/ Lane(k)[1] = "media" /\ k.media # <<>>
        BY <4>0, <2>6, LaneIs DEF Ready, AllStopped
      <4>2. CASE Lane(k)[1] = "lost"
        BY <4>2, <2>2, PopLost
      <4>3. CASE Lane(k)[1] = "control" /\ Ready(k)
        BY <4>3, <2>2, PopControl
      <4>4. CASE AllStopped(k) /\ Lane(k)[1] = "audio" /\ k.audio # <<>>
        BY <4>0, <4>4, <2>2, PopAudio
      <4>5. CASE k.lost = 0 /\ AllStopped(k) /\ Lane(k)[1] = "decoded" /\ k.decoded # <<>>
        BY <4>0, <4>5, <2>2, <3>p, PopDecoded
      <4>6. CASE AllStopped(k) /\ Lane(k)[1] = "media" /\ k.media # <<>>
        BY <4>0, <4>6, <2>2, PopMedia
      <4> QED
        BY <4>1, <4>2, <4>3, <4>4, <4>5, <4>6
    <3>3. Fine(q', heard', pushed', task', stops')
      BY <1>1, <3>1, <3>2
    <3>4. heard' \in Hearings
      BY <3>3 DEF Fine
    <3>5. OthersOK'
      BY <1>1, <1>2, <3>1, <3>4 DEF OthersOK, Hearings
    <3>6. IInv'
      BY <1>3, <3>3, <3>5, FineIs
    <3> QED
      BY <3>1, <3>2, <3>6
  <2> QED
    BY <2>5, <2>6
<1> QED
  BY <1>4, <1>5

----------------------------------------------------------------------------
(* The theorems.                                                           *)

\* Nothing but recv tells the client anything.
LEMMA OnlyRecvTells == ASSUME Next, ~Recv PROVE heard' = heard
<1>1. ASSUME NEW s \in Streams, Subscribe(s) \/ Unsubscribe(s) \/ Receive(s) \/ Forward(s)
      PROVE  heard' = heard
  BY <1>1 DEF Subscribe, Unsubscribe, Receive, Forward, SourceClosed, SkipFrame, SendFrame,
              Drain, DrainLagged, Throttled, Reopen, Reopened
<1>2. ASSUME NEW revoked \in BOOLEAN, Disconnect(revoked) PROVE heard' = heard
  BY <1>2 DEF Disconnect
<1>3. CASE SendEvent \/ SendDecoded \/ MissDecoded \/ Woken \/ Written \/ WriterGivesUp
  BY <1>3 DEF SendEvent, SendDecoded, MissDecoded, Woken, Written, WriterGivesUp
<1>4. ASSUME NEW t \in Tasks, Cancel(t) PROVE heard' = heard
  BY <1>4 DEF Cancel
<1> QED
  BY <1>1, <1>2, <1>3, <1>4 DEF Next, Session

LEMMA StepKeeps == ASSUME IInv, [Next]_vars PROVE IInv'
<1>1. CASE UNCHANGED vars
  <2>1. /\ q' = q /\ permit' = permit /\ writer' = writer /\ task' = task /\ aborted' = aborted
        /\ subs' = subs /\ pushed' = pushed /\ stops' = stops /\ heard' = heard
    BY <1>1 DEF vars
  <2>2. OthersOK /\ permit \in BOOLEAN
    BY InvOthers, TypeIs
  <2>3. OthersOK' /\ permit' \in BOOLEAN
    BY <2>1, <2>2 DEF OthersOK
  <2> QED
    BY <2>1, <2>3, QueueRests
<1>2. ASSUME NEW s \in Streams, Subscribe(s) \/ Unsubscribe(s) \/ Receive(s) PROVE IInv'
  BY <1>2, SubscribeKeeps, UnsubscribeKeeps, ReceiveKeeps
<1>3. ASSUME NEW revoked \in BOOLEAN, Disconnect(revoked) PROVE IInv'
  BY <1>3, DisconnectKeeps
<1>4. ASSUME NEW s \in Streams, Forward(s) PROVE IInv'
  <2>1. CASE SourceClosed(s)
    BY <2>1, SourceClosedKeeps
  <2>2. CASE SkipFrame(s)
    BY <2>2, SkipFrameKeeps
  <2>3. ASSUME NEW size \in FrameSizes, SendFrame(s, size) PROVE IInv'
    BY <2>3, SendFrameKeeps
  <2>4. CASE Drain(s) \/ DrainLagged(s) \/ Throttled(s)
    BY <2>4, DrainKeeps
  <2>5. CASE Reopen(s) \/ Reopened(s)
    BY <2>5, ReopenKeeps
  <2> QED
    BY <1>4, <2>1, <2>2, <2>3, <2>4, <2>5 DEF Forward
<1>5. CASE SendEvent
  BY <1>5, SendEventKeeps
<1>6. CASE SendDecoded
  BY <1>6, SendDecodedKeeps
<1>7. CASE MissDecoded
  BY <1>7, MissDecodedKeeps
<1>8. ASSUME NEW t \in Tasks, Cancel(t) PROVE IInv'
  BY <1>8, CancelKeeps
<1>9. CASE Recv
  BY <1>9, RecvKeeps
<1>10. CASE Woken \/ Written
  BY <1>10, WakeKeeps
<1>11. CASE WriterGivesUp
  BY <1>11, WriterGivesUpKeeps
<1> QED
  BY <1>1, <1>2, <1>3, <1>4, <1>5, <1>6, <1>7, <1>8, <1>9, <1>10, <1>11 DEF Next, Session

\* Every reachable state of the outbox has the inductive invariant.
THEOREM OutboxInvariant == Spec => []IInv
<1>1. Init => IInv
  BY StartsHolding
<1>2. IInv /\ [Next]_vars => IInv'
  BY StepKeeps
<1> QED
  BY <1>1, <1>2, PTL DEF Spec

\* The queue and the tasks keep their types, and no lane and no budget of
\* outbox.rs is ever exceeded, whatever the limits are.
THEOREM OutboxTypeCorrect == Spec => []TypeOK
<1>1. IInv => TypeOK
  BY DEF IInv
<1> QED
  BY <1>1, OutboxInvariant, PTL

\* Queue::bytes is what is queued: no push, replacement, expiry or pop takes a
\* size twice or forgets one.
THEOREM BytesAreCounted == Spec => []BytesExact
<1>1. IInv => BytesExact
  BY DEF IInv
<1> QED
  BY <1>1, OutboxInvariant, PTL

\* The dropped count clients are shown is right: every frame and record was sent,
\* waits, or is in it, once.
THEOREM NoPacketVanishes == Spec => []EveryPacketAccounted
<1>1. IInv => EveryPacketAccounted
  BY DEF IInv
<1> QED
  BY <1>1, OutboxInvariant, PTL

\* A client is told that a stream started before it is sent a frame of it.
THEOREM StartIsHeardFirst == Spec => []StartComesFirst
<1>1. IInv => StartComesFirst
  BY DEF IInv, StartsOK, StartComesFirst
<1> QED
  BY <1>1, OutboxInvariant, PTL

\* pop holds a StreamStopped back until the frames queued before it are gone.
THEOREM StopFollowsItsFrames == Spec => []StopsBehindItsFrames
<1>1. ASSUME IInv PROVE StopsBehindItsFrames
  <2> DEFINE u == q.audio \o q.media
  <2>1. q.audio \in Seq(Frames) /\ q.media \in Seq(Frames)
    BY <1>1, Fields DEF IInv, TypeOK
  <2>2. \A x \in 1..Len(u) : \/ \E y \in 1..Len(q.audio) : u[x] = q.audio[y]
                             \/ \E y \in 1..Len(q.media) : u[x] = q.media[y]
    BY <2>1, BothLanes
  <2> HIDE DEF u
  <2>3. \A x \in 1..Len(u) : u[x].id \in heard.stopped => u[x].late
    BY <1>1, <2>2 DEF IInv, StopsOK
  <2> QED
    BY <2>3 DEF StopsBehindItsFrames, u
<1> QED
  BY <1>1, OutboxInvariant, PTL

\* No record is taken for the successor of one it does not follow: pop reports
\* what was shed, and control what was missed, before the next record.
THEOREM LossesAreToldInTime == Spec => GapsExplained
<1>1. IInv /\ [Next]_vars =>
        [heard'.records # heard.records => heard'.last <= heard'.records + heard'.lost]_vars
  <2> SUFFICES ASSUME IInv, Next
               PROVE  heard'.records # heard.records => heard'.last <= heard'.records + heard'.lost
    OBVIOUS
  <2>1. CASE Recv
    BY <2>1, RecvKeeps
  <2>2. CASE ~Recv
    BY <2>2, OnlyRecvTells
  <2> QED
    BY <2>1, <2>2
<1> QED
  BY <1>1, OutboxInvariant, PTL DEF Spec, GapsExplained

=============================================================================
