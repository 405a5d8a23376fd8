----------------------- MODULE CaptureRing_refinement ------------------------
(***************************************************************************)
(* The capture ring implements LossyFifo, for every value of its constants.*)
(* The argument rests on the inductive invariant of CaptureRing_proofs: a  *)
(* block is pushed at the edge, and the run that is judged lies at the     *)
(* front of the ring.                                                      *)
(***************************************************************************)
EXTENDS CaptureRing_proofs

\* Taking a piece off the front and adding one at the back commute.
LEMMA FrontAndBack ==
  ASSUME NEW s \in Seq(Nat), NEW b \in Seq(Nat), NEW n \in 0..Len(s)
  PROVE  SubSeq(s \o b, n + 1, Len(s \o b)) = SubSeq(s, n + 1, Len(s)) \o b
<1> DEFINE t == s \o b
           l == SubSeq(t, n + 1, Len(t))
           f == SubSeq(s, n + 1, Len(s))
<1>1. /\ t \in Seq(Nat) /\ Len(t) = Len(s) + Len(b)
      /\ \A i \in 1..Len(s) + Len(b) : t[i] = IF i <= Len(s) THEN s[i] ELSE b[i - Len(s)]
  BY ConcatProperties
<1>2. Len(s) \in Nat /\ Len(b) \in Nat /\ n \in Nat /\ n <= Len(s)
  OBVIOUS
<1> HIDE DEF t
<1>3. /\ l \in Seq(Nat) /\ Len(l) = Len(s) + Len(b) - n
      /\ \A i \in 1..Len(s) + Len(b) - n : l[i] = t[n + i]
  <2>1. \A i \in n + 1..Len(t) : t[i] \in Nat
    BY <1>1, <1>2
  <2>2. /\ l \in Seq(Nat) /\ Len(l) = IF n + 1 <= Len(t) THEN Len(t) - (n + 1) + 1 ELSE 0
        /\ \A i \in 1..Len(t) - (n + 1) + 1 : l[i] = t[n + 1 + i - 1]
    BY <1>1, <1>2, <2>1, SubSeqProperties
  <2> HIDE DEF l
  <2>3. QED
    BY <1>1, <1>2, <2>2
<1>4. /\ f \in Seq(Nat) /\ Len(f) = Len(s) - n
      /\ \A i \in 1..Len(s) - n : f[i] = s[n + i]
  <2>1. \A i \in n + 1..Len(s) : s[i] \in Nat
    BY <1>2
  <2>2. /\ f \in Seq(Nat) /\ Len(f) = IF n + 1 <= Len(s) THEN Len(s) - (n + 1) + 1 ELSE 0
        /\ \A i \in 1..Len(s) - (n + 1) + 1 : f[i] = s[n + 1 + i - 1]
    BY <1>2, <2>1, SubSeqProperties
  <2> HIDE DEF f
  <2>3. QED
    BY <1>2, <2>2
<1> HIDE DEF l, f
<1> DEFINE g == f \o b
<1>5. /\ g \in Seq(Nat) /\ Len(g) = Len(f) + Len(b)
      /\ \A i \in 1..Len(f) + Len(b) : g[i] = IF i <= Len(f) THEN f[i] ELSE b[i - Len(f)]
  BY <1>4, ConcatProperties
<1> HIDE DEF g
<1>6. ASSUME NEW i \in 1..Len(l) PROVE l[i] = g[i]
  <2>1. i \in Nat /\ 1 <= i /\ i <= Len(s) + Len(b) - n
    BY <1>2, <1>3
  <2>2. i \in 1..Len(s) + Len(b) - n /\ n + i \in 1..Len(s) + Len(b)
    BY <1>2, <2>1
  <2>3. l[i] = IF n + i <= Len(s) THEN s[n + i] ELSE b[n + i - Len(s)]
    <3>1. l[i] = t[n + i]
      BY <1>3, <2>2
    <3> DEFINE k == n + i
    <3>2. k \in 1..Len(s) + Len(b)
      BY <2>2
    <3> HIDE DEF k
    <3>3. t[k] = IF k <= Len(s) THEN s[k] ELSE b[k - Len(s)]
      BY <1>1, <3>2
    <3>4. QED
      BY <3>1, <3>3 DEF k
  <2>4. i \in 1..Len(f) + Len(b)
    BY <1>2, <1>4, <2>1
  <2>5. g[i] = IF i <= Len(f) THEN f[i] ELSE b[i - Len(f)]
    BY <1>5, <2>4
  <2>6. CASE n + i <= Len(s)
    <3>1. i <= Len(f) /\ i \in 1..Len(s) - n
      BY <1>2, <1>4, <2>1, <2>6
    <3>2. f[i] = s[n + i]
      BY <1>4, <3>1
    <3>3. QED
      BY <2>3, <2>5, <2>6, <3>1, <3>2
  <2>7. CASE ~(n + i <= Len(s))
    <3>1. ~(i <= Len(f)) /\ i - Len(f) = n + i - Len(s)
      BY <1>2, <1>4, <2>1, <2>7
    <3>2. QED
      BY <2>3, <2>5, <2>7, <3>1
  <2>8. QED
    BY <2>6, <2>7
<1>7. l = g
  <2>1. Len(l) = Len(g)
    BY <1>2, <1>3, <1>4, <1>5
  <2>2. QED
    BY <1>3, <1>5, <1>6, <2>1, SeqEqual
<1>8. QED
  BY <1>7 DEF g, l, f, t

\* A step that the queue does not see.
LEMMA Unseen ==
  ASSUME Waiting' = Waiting, out' = out, Edge' = Edge
  PROVE  UNCHANGED Fifo!fifo
BY DEF Fifo!fifo

----------------------------------------------------------------------------
(* One lemma for each step of LossyFifo.                                   *)

\* A block arrives: the capture has come to where it starts, or to its end
\* when nothing of it fits.
LEMMA OfferLoses ==
  ASSUME RingAssumption, IInv, NEW n \in Blocks, NEW skip \in Gaps, Offer(n, skip)
  PROVE  Fifo!Lose
<1>1. n \in Nat /\ skip \in Nat /\ next \in Nat \cup {-1} /\ ppc = "idle"
  BY RingAssumption DEF IInv, TypeOK, ProducerOK, Offer, None
<1>2. Waiting' = Waiting /\ out' = out
  BY DEF Offer, Waiting, consumer
<1>3. Edge = (IF next = None THEN 0 ELSE next)
  BY <1>1 DEF Edge
<1>4. Edge' \in {Edge + skip, Edge + skip + n}
  <2>1. next' = Edge + skip + n /\ next' # None
    BY <1>1, <1>3 DEF Offer, None
  <2>2. CASE Least(n, Slots) = 0
    BY <2>1, <2>2, <1>1 DEF Offer, Edge
  <2>3. CASE Least(n, Slots) # 0
    BY <2>3, <1>3 DEF Offer, Edge
  <2>4. QED
    BY <2>2, <2>3
<1>5. Edge \in Nat
  BY <1>1, <1>3 DEF None
<1>6. QED
  BY <1>1, <1>2, <1>4, <1>5 DEF Fifo!Lose

\* A block without a span slot is lost; with one, nothing has happened yet.
LEMMA ClaimLoses ==
  ASSUME RingAssumption, IInv, Claim
  PROVE  Fifo!Lose
<1>1. /\ ppc = "claim" /\ next = pstart + pn /\ pstart \in Nat /\ pn \in Nat
      /\ next' = next /\ pstart' = pstart /\ next # None
  BY DEF IInv, TypeOK, ProducerOK, Fits, Pushing, Claim, None
<1>2. Waiting' = Waiting /\ out' = out
  BY DEF Claim, Waiting, consumer, history
<1>3. Edge = pstart /\ Edge' \in {pstart, next}
  BY <1>1 DEF Edge, Claim
<1>4. QED
  BY <1>1, <1>2, <1>3 DEF Fifo!Lose

\* The samples of a block are committed at the edge, which moves to its end.
LEMMA CommitEnqueues ==
  ASSUME RingAssumption, IInv, CommitSamples
  PROVE  Fifo!Enqueue
<1> DEFINE b == [i \in 1..plen |-> pstart + i - 1]
<1>1. /\ ppc = "fill" /\ next = pstart + pn /\ pstart \in Nat /\ pn \in Nat /\ plen \in Nat
      /\ next' = next /\ next # None /\ 1 <= plen /\ plen <= pn
  BY DEF IInv, TypeOK, ProducerOK, Fits, Pushing, CommitSamples, None
<1>2. Edge = pstart /\ Edge' = pstart + pn
  BY <1>1 DEF Edge, CommitSamples
<1>3. b \in Seq(Nat)
  BY <1>1, BlockSeq
<1>4. ring' = ring \o b /\ ring \in Seq(Nat) /\ cpc' = cpc /\ clen' = clen /\ out' = out
  BY DEF CommitSamples, IInv, TypeOK, SharedOK, consumer, history
<1>5. Waiting' = Waiting \o b
  <2>1. CASE cpc \in {"pop", "commit"}
    <3>1. clen <= cspan.len /\ cspan.len <= Len(ring) /\ 1 <= clen
      BY <2>1, ReadingFits DEF IInv, Reading
    <3>2. clen \in 0..Len(ring)
      BY <3>1 DEF IInv, TypeOK, SharedOK, ConsumerOK, Span
    <3> HIDE DEF b
    <3>3. SubSeq(ring \o b, clen + 1, Len(ring \o b)) = SubSeq(ring, clen + 1, Len(ring)) \o b
      BY <1>3, <1>4, <3>2, FrontAndBack
    <3>4. QED
      BY <2>1, <1>4, <3>3 DEF Waiting
  <2>2. CASE cpc \notin {"pop", "commit"}
    BY <2>2, <1>4 DEF Waiting
  <2>3. QED
    BY <2>1, <2>2
<1>6. plen \in 1..(Edge' - Edge)
  BY <1>1, <1>2
<1>7. Waiting' = Waiting \o [i \in 1..plen |-> Edge + i - 1]
  BY <1>2, <1>5
<1>8. Edge' \in Nat
  BY <1>1, <1>2
<1>9. QED
  BY <1>4, <1>6, <1>7, <1>8 DEF Fifo!Enqueue

\* What is judged is at the front: it is delivered under the index of its first
\* sample, or discarded.
LEMMA JudgeTakes ==
  ASSUME RingAssumption, IInv, Judge
  PROVE  Fifo!Deliver \/ Fifo!Discard
<1>1. cpc = "judge" /\ cpc' = "pop" /\ ring' = ring /\ clen' = clen
  BY DEF Judge
<1>2. clen <= cspan.len /\ cspan.len <= Len(ring) /\ 1 <= clen
  BY <1>1, ReadingFits DEF IInv, Reading
<1>3. clen \in 1..Len(ring)
  BY <1>2 DEF IInv, TypeOK, SharedOK, ConsumerOK, Span
<1>4. Waiting = ring /\ Waiting' = SubSeq(ring, clen + 1, Len(ring))
  BY <1>1 DEF Waiting
<1>5. Edge' = Edge
  BY DEF Judge, Edge, producer
<1>6. Fifo!Taken(clen)
  BY <1>4, <1>5 DEF Fifo!Taken
<1>7. CASE Fresh
  <2>1. cspan.start = ring[1]
    BY <1>7, HandedOver DEF IInv
  <2>2. out' = [start |-> Waiting[1], samples |-> SubSeq(Waiting, 1, clen)]
    BY <1>4, <1>7, <2>1 DEF Judge
  <2>3. QED
    BY <1>3, <1>4, <1>6, <2>2 DEF Fifo!Deliver
<1>8. CASE ~Fresh
  <2>1. out' = out
    BY <1>8 DEF Judge
  <2>2. QED
    BY <1>3, <1>4, <1>6, <2>1 DEF Fifo!Discard
<1>9. QED
  BY <1>7, <1>8

\* Everything else is a matter between the two threads.
LEMMA RestUnseen ==
  ASSUME IInv,
         \/ Tick \/ CountPush \/ Debit \/ CommitSpan
         \/ (\E limit \in Limits : TakeSpan(limit))
         \/ ReadChunk \/ CountPop \/ Release \/ Freed
         \/ UNCHANGED vars
  PROVE  UNCHANGED Fifo!fifo
<1>1. CASE Tick \/ UNCHANGED vars
  BY <1>1, Unseen DEF Tick, vars, shared, producer, consumer, history, Waiting, Edge
<1>2. CASE CountPush \/ Debit
  <2>1. Waiting' = Waiting /\ out' = out
    BY <1>2 DEF CountPush, Debit, consumer, history, Waiting
  <2>2. Edge' = Edge
    BY <1>2 DEF CountPush, Debit, Edge
  <2>3. QED
    BY <2>1, <2>2, Unseen
<1>3. CASE CommitSpan
  <2>1. Waiting' = Waiting /\ out' = out
    BY <1>3 DEF CommitSpan, consumer, history, Waiting
  <2>2. Edge' = Edge
    BY <1>3 DEF CommitSpan, Edge
  <2>3. QED
    BY <2>1, <2>2, Unseen
<1>4. CASE (\E limit \in Limits : TakeSpan(limit)) \/ ReadChunk \/ CountPop \/ Freed
  <2>1. Waiting' = Waiting /\ out' = out
    BY <1>4 DEF TakeSpan, ReadChunk, CountPop, Freed, history, Waiting, shared
  <2>2. Edge' = Edge
    BY <1>4 DEF TakeSpan, ReadChunk, CountPop, Freed, producer, Edge
  <2>3. QED
    BY <2>1, <2>2, Unseen
<1>5. CASE Release
  <2>1. Waiting' = Waiting /\ out' = out
    BY <1>5 DEF Release, history, Waiting
  <2>2. Edge' = Edge
    BY <1>5 DEF Release, producer, Edge
  <2>3. QED
    BY <2>1, <2>2, Unseen
<1>6. QED
  BY <1>1, <1>2, <1>3, <1>4, <1>5

----------------------------------------------------------------------------

\* The producer, the consumer and the two rings between them implement one
\* lossy queue of capture indices.
THEOREM RingIsALossyFifo == Spec => ImplementsLossyFifo
<1>1. Init => Fifo!Init
  BY DEF Init, Fifo!Init, Waiting, Edge
<1>2. IInv /\ [Next]_vars => [Fifo!Next]_(Fifo!fifo)
  <2> SUFFICES ASSUME IInv, [Next]_vars
               PROVE  Fifo!Next \/ UNCHANGED Fifo!fifo
    OBVIOUS
  <2>1. CASE \E n \in Blocks, skip \in Gaps : Offer(n, skip)
    BY <2>1, OfferLoses, RingAssumption DEF Fifo!Next
  <2>2. CASE Claim
    BY <2>2, ClaimLoses, RingAssumption DEF Fifo!Next
  <2>3. CASE CommitSamples
    BY <2>3, CommitEnqueues, RingAssumption DEF Fifo!Next
  <2>4. CASE Judge
    BY <2>4, JudgeTakes, RingAssumption DEF Fifo!Next
  <2>5. CASE \/ Tick \/ CountPush \/ Debit \/ CommitSpan
             \/ (\E limit \in Limits : TakeSpan(limit))
             \/ ReadChunk \/ CountPop \/ Release \/ Freed
             \/ UNCHANGED vars
    BY <2>5, RestUnseen
  <2>6. QED
    BY <2>1, <2>2, <2>3, <2>4, <2>5 DEF Next, Push, Consume
<1>3. QED
  BY <1>1, <1>2, RingInvariant, PTL DEF Spec, ImplementsLossyFifo, Fifo!Spec

=============================================================================
