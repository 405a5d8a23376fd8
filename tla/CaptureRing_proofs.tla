------------------------- MODULE CaptureRing_proofs -------------------------
(***************************************************************************)
(* Proofs about CaptureRing, for every value of its constants.             *)
(***************************************************************************)
EXTENDS CaptureRing, SequenceTheorems, TLAPS

----------------------------------------------------------------------------
(* The inductive invariant.  None of the properties is inductive by        *)
(* itself: each holds between steps of push and consume_fresh_at because   *)
(* of what the other thread is in the middle of.                           *)

Pushing == {"claim", "count", "debit", "fill", "stamp"}
Reading == {"read", "judge", "pop", "commit"}

\* Samples of the block being pushed that no counter and no ring holds yet.
Unpushed == IF ppc \in {"claim", "count", "debit"} THEN pn
            ELSE IF ppc = "fill" THEN plen ELSE 0

\* Samples already delivered or dropped that still lie in the ring.
Unreleased == IF cpc \in {"pop", "commit"} THEN clen ELSE 0

\* The counters, each corrected by what is half done.
SamplesCounted ==
  /\ next = None <=> first = None
  /\ (IF next = None THEN 0 ELSE next - first)
       = delivered + dropped + Len(ring) + Unpushed - Unreleased

QueuedExact ==
  queued = Len(ring) + (IF ppc \in {"debit", "fill"} THEN plen ELSE 0)
                     - (IF cpc = "commit" THEN clen ELSE 0)

RoomExact ==
  free = Capacity - Len(ring) - (IF ppc = "fill" THEN plen ELSE 0)
                              - (IF cpc = "free" THEN clen ELSE 0)

Counted == SamplesCounted /\ QueuedExact /\ RoomExact

\* The block being pushed fits the ring.
Fits ==
  /\ Len(ring) <= Capacity
  /\ ppc \in Pushing => /\ next = pstart + pn
                        /\ 1 <= plen /\ plen <= pn
  /\ ppc \in Pushing \ {"stamp"} => plen <= Capacity - Len(ring)

\* The span at the front of the ring, being consumed or waiting to be.
Held == IF cpc \in Reading THEN cspan
        ELSE IF cpc = "free" THEN Rest(cspan, clen)
        ELSE pending

Stamping == IF ppc = "stamp" THEN plen ELSE 0

Last == Len(spans) + 1

\* offs says where in the ring each span begins: behind the held one, one
\* after the other, up to the end of the ring or of the block not stamped yet.
Layout(offs) ==
  /\ offs[1] = Held.len
  /\ offs[Last] + Stamping = Len(ring)
  /\ \A k \in 1..Len(spans) : /\ spans[k].len >= 1
                              /\ offs[k + 1] = offs[k] + spans[k].len
                              /\ \A j \in 1..spans[k].len :
                                   ring[offs[k] + j] = spans[k].start + j - 1
  /\ \A j, k \in 1..Last : j <= k => offs[j] + (k - j) <= offs[k]
  /\ \A j \in 1..Held.len : ring[j] = Held.start + j - 1
  /\ ppc = "stamp" =>
       \A j \in 1..plen : ring[offs[Last] + j] = pstart + j - 1

LaidOut == \E offs \in [1..Last -> 0..Len(ring)] : Layout(offs)

Consuming ==
  /\ cpc \in Reading \cup {"free"} => 1 <= clen /\ clen <= cspan.len
  /\ cpc # "idle" => pending = NoSpan

OutEnd == out.start + Len(out.samples)

\* Everything in the ring, and everything still to come, lies behind what the
\* DSP was handed last.
Ordered ==
  /\ \A i, j \in 1..Len(ring) : i < j => ring[i] < ring[j]
  /\ \A j \in 1..Len(ring) : next # None /\ ring[j] < next
  /\ ppc \in Pushing \ {"stamp"} => \A j \in 1..Len(ring) : ring[j] < pstart
  /\ \A j \in 1..Len(ring) : j > Unreleased => OutEnd <= ring[j]
  /\ next # None => OutEnd <= next
  /\ next = None => OutEnd = 0
  /\ ppc \in Pushing \ {"stamp"} => OutEnd <= pstart

NoLoss ==
  Lossless => /\ dropped = 0 /\ ~recovering
              /\ clock <= MaxTime /\ cnow <= MaxTime
              /\ ppc \in Pushing => pn = plen

IInv == /\ TypeOK /\ Counted /\ Fits /\ LaidOut /\ Consuming
        /\ Ordered /\ ReceivedAtItsIndex /\ NoLoss

----------------------------------------------------------------------------
(* What the pieces of the invariant give each other.                       *)

\* The sequence a block is written as has its length.
LEMMA BlockSeq ==
  ASSUME NEW n \in Nat, NEW start \in Nat
  PROVE  LET b == [i \in 1..n |-> start + i - 1]
         IN b \in Seq(Nat) /\ Len(b) = n /\ \A i \in 1..n : b[i] = start + i - 1
  OBVIOUS

\* The span being consumed never promises more than the ring holds.
LEMMA HeldFits ==
  ASSUME TypeOK, LaidOut
  PROVE  /\ Held.len <= Len(ring)
         /\ Len(spans) <= Len(ring)
<1>1. PICK offs \in [1..Last -> 0..Len(ring)] : Layout(offs)
  BY DEF LaidOut
<1>2. Len(spans) \in Nat /\ Len(ring) \in Nat
  BY DEF TypeOK, SharedOK
<1>3. 1 \in 1..Last /\ Last \in 1..Last
  BY <1>2 DEF Last
<1>4. offs[1] \in 0..Len(ring) /\ offs[Last] \in 0..Len(ring)
  BY <1>1, <1>3
<1>5. offs[1] = Held.len /\ offs[1] + (Last - 1) <= offs[Last]
  BY <1>1, <1>2, <1>3 DEF Layout, Last
<1>6. QED
  BY <1>2, <1>4, <1>5 DEF Last

LEMMA ReadingFits ==
  ASSUME TypeOK, LaidOut, Consuming, cpc \in Reading
  PROVE  clen <= cspan.len /\ cspan.len <= Len(ring) /\ 1 <= clen
<1>1. Held = cspan
  BY DEF Held
<1>2. QED
  BY <1>1, HeldFits DEF Consuming

\* The type invariant is preserved by every step.
LEMMA TypeStep ==
  ASSUME RingAssumption, IInv, [Next]_vars
  PROVE  TypeOK'
<1> USE DEF TypeOK
<1>0. TypeOK /\ Counted /\ Fits /\ LaidOut /\ Consuming
  BY DEF IInv
<1>1. CASE Tick
  BY <1>0, <1>1 DEF Tick, producer, consumer, history,
     SharedOK, ProducerOK, ConsumerOK, HistoryOK
<1>2. CASE \E n \in Blocks, skip \in Gaps : Offer(n, skip)
  <2>1. PICK n \in Blocks, skip \in Gaps : Offer(n, skip)
    BY <1>2
  <2>2. n \in Nat /\ skip \in Nat /\ Slots \in Nat
    BY <1>0, RingAssumption DEF Fits, Slots, SharedOK
  <2>3. SharedOK'
    BY <1>0, <2>1, <2>2 DEF Offer, SharedOK, ProducerOK, None
  <2>4. ProducerOK'
    BY <1>0, <2>1, <2>2 DEF Offer, Least, ProducerOK, None, PushSteps
  <2>5. ConsumerOK'
    BY <1>0, <2>1 DEF Offer, ConsumerOK, consumer
  <2>6. HistoryOK'
    BY <1>0, <2>1, <2>2 DEF Offer, HistoryOK, ProducerOK, None
  <2>7. QED
    BY <2>3, <2>4, <2>5, <2>6
<1>3. CASE Claim
  <2>1. SharedOK'
    BY <1>0, <1>3 DEF Claim, SharedOK, ProducerOK
  <2>2. ProducerOK'
    BY <1>0, <1>3 DEF Claim, ProducerOK, PushSteps
  <2>3. ConsumerOK' /\ HistoryOK'
    BY <1>0, <1>3 DEF Claim, ConsumerOK, HistoryOK, consumer, history
  <2>4. QED
    BY <2>1, <2>2, <2>3
<1>4. CASE CountPush
  <2>1. SharedOK'
    BY <1>0, <1>4 DEF CountPush, SharedOK, ProducerOK
  <2>2. ProducerOK'
    BY <1>0, <1>4 DEF CountPush, ProducerOK, PushSteps
  <2>3. ConsumerOK' /\ HistoryOK'
    BY <1>0, <1>4 DEF CountPush, ConsumerOK, HistoryOK, consumer, history
  <2>4. QED
    BY <2>1, <2>2, <2>3
<1>5. CASE Debit
  <2>1. SharedOK'
    BY <1>0, <1>5 DEF Debit, SharedOK, ProducerOK, Fits, Pushing
  <2>2. ProducerOK'
    BY <1>0, <1>5 DEF Debit, ProducerOK, PushSteps
  <2>3. ConsumerOK' /\ HistoryOK'
    BY <1>0, <1>5 DEF Debit, ConsumerOK, HistoryOK, consumer, history
  <2>4. QED
    BY <2>1, <2>2, <2>3
<1>6. CASE CommitSamples
  <2>1. SharedOK'
    BY <1>0, <1>6, BlockSeq DEF CommitSamples, SharedOK, ProducerOK
  <2>2. ProducerOK'
    BY <1>0, <1>6 DEF CommitSamples, ProducerOK, PushSteps
  <2>3. ConsumerOK' /\ HistoryOK'
    BY <1>0, <1>6 DEF CommitSamples, ConsumerOK, HistoryOK, consumer, history
  <2>4. QED
    BY <2>1, <2>2, <2>3
<1>7. CASE CommitSpan
  <2>1. SharedOK'
    BY <1>0, <1>7 DEF CommitSpan, SharedOK, ProducerOK, Span
  <2>2. ProducerOK'
    BY <1>0, <1>7 DEF CommitSpan, ProducerOK, PushSteps
  <2>3. ConsumerOK' /\ HistoryOK'
    BY <1>0, <1>7 DEF CommitSpan, ConsumerOK, HistoryOK, consumer, history
  <2>4. QED
    BY <2>1, <2>2, <2>3
<1>8. CASE \E limit \in Limits : TakeSpan(limit)
  <2>1. PICK limit \in Limits : TakeSpan(limit)
    BY <1>8
  <2>2. limit \in Nat
    BY RingAssumption
  <2>3. cspan' \in Span /\ spans' \in Seq(Span)
    BY <1>0, <2>1 DEF TakeSpan, SharedOK, ConsumerOK
  <2>4. SharedOK'
    BY <1>0, <2>1, <2>3 DEF TakeSpan, SharedOK
  <2>5. ConsumerOK'
    BY <1>0, <2>1, <2>2, <2>3
       DEF TakeSpan, Least, SharedOK, ConsumerOK, ConsumeSteps, Span, NoSpan
  <2>6. ProducerOK' /\ HistoryOK'
    BY <1>0, <2>1 DEF TakeSpan, ProducerOK, HistoryOK, producer, history
  <2>7. QED
    BY <2>4, <2>5, <2>6
<1>9. CASE ReadChunk
  <2>1. ConsumerOK'
    BY <1>0, <1>9 DEF ReadChunk, ConsumerOK, ConsumeSteps
  <2>2. SharedOK' /\ ProducerOK' /\ HistoryOK'
    BY <1>0, <1>9 DEF ReadChunk, SharedOK, ProducerOK, HistoryOK, shared,
       producer, history
  <2>3. QED
    BY <2>1, <2>2
<1>10. CASE Judge
  <2>0. cpc \in Reading
    BY <1>10 DEF Judge, Reading
  <2>1. clen \in 1..Len(ring)
    <3>1. clen <= cspan.len /\ cspan.len <= Len(ring) /\ 1 <= clen
      BY <1>0, <2>0, ReadingFits
    <3>2. QED
      BY <1>0, <3>1 DEF ConsumerOK, SharedOK, Span
  <2>2. SubSeq(ring, 1, clen) \in Seq(Nat)
    BY <1>0, <2>1, SubSeqProperties DEF SharedOK
  <2>3. SharedOK'
    BY <1>0, <1>10 DEF Judge, SharedOK, ConsumerOK
  <2>4. ConsumerOK'
    BY <1>0, <1>10 DEF Judge, ConsumerOK, ConsumeSteps
  <2>5. HistoryOK'
    <3>1. out' \in [start : Nat, samples : Seq(Nat)]
      <4>1. cspan.start \in Nat
        BY <1>0 DEF ConsumerOK, Span
      <4>2. CASE Fresh
        <5>1. out' = [start |-> cspan.start, samples |-> SubSeq(ring, 1, clen)]
          BY <1>10, <4>2 DEF Judge
        <5>2. QED
          BY <2>2, <4>1, <5>1
      <4>3. CASE ~Fresh
        BY <1>0, <1>10, <4>3 DEF Judge, HistoryOK
      <4>4. QED
        BY <4>2, <4>3
    <3>2. delivered' \in Nat /\ episodes' \in Nat
      BY <1>0, <1>10 DEF Judge, HistoryOK, ConsumerOK
    <3>3. QED
      BY <1>0, <1>10, <3>1, <3>2 DEF Judge, HistoryOK
  <2>6. ProducerOK'
    BY <1>0, <1>10 DEF Judge, ProducerOK, producer
  <2>7. QED
    BY <2>3, <2>4, <2>5, <2>6
<1>11. CASE CountPop
  <2>0. cpc \in Reading
    BY <1>11 DEF CountPop, Reading
  <2>1. clen <= Len(ring)
    <3>1. clen <= cspan.len /\ cspan.len <= Len(ring)
      BY <1>0, <2>0, ReadingFits
    <3>2. QED
      BY <1>0, <3>1 DEF ConsumerOK, SharedOK, Span
  <2>2. queued - clen \in Nat
    BY <1>0, <1>11, <2>1 DEF CountPop, Counted, QueuedExact, SharedOK, ProducerOK, ConsumerOK
  <2>3. SharedOK'
    BY <1>0, <1>11, <2>2 DEF CountPop, SharedOK
  <2>4. ConsumerOK'
    BY <1>0, <1>11 DEF CountPop, ConsumerOK, ConsumeSteps
  <2>5. ProducerOK' /\ HistoryOK'
    BY <1>0, <1>11 DEF CountPop, ProducerOK, HistoryOK, producer, history
  <2>6. QED
    BY <2>3, <2>4, <2>5
<1>12. CASE Release
  <2>0. cpc \in Reading
    BY <1>12 DEF Release, Reading
  <2>1. clen <= Len(ring)
    <3>1. clen <= cspan.len /\ cspan.len <= Len(ring)
      BY <1>0, <2>0, ReadingFits
    <3>2. QED
      BY <1>0, <3>1 DEF ConsumerOK, SharedOK, Span
  <2>2. ring' \in Seq(Nat)
    BY <1>0, <1>12, <2>1, SubSeqProperties DEF Release, SharedOK, ConsumerOK
  <2>3. SharedOK'
    BY <1>0, <1>12, <2>2 DEF Release, SharedOK
  <2>4. ConsumerOK'
    BY <1>0, <1>12 DEF Release, ConsumerOK, ConsumeSteps
  <2>5. ProducerOK' /\ HistoryOK'
    BY <1>0, <1>12 DEF Release, ProducerOK, HistoryOK, producer, history
  <2>6. QED
    BY <2>3, <2>4, <2>5
<1>13. CASE Freed
  <2>1. SharedOK'
    BY <1>0, <1>13 DEF Freed, SharedOK, ConsumerOK
  <2>2. ConsumerOK'
    BY <1>0, <1>13 DEF Freed, Rest, NoSpan, Span, ConsumerOK, ConsumeSteps
  <2>3. ProducerOK' /\ HistoryOK'
    BY <1>0, <1>13 DEF Freed, ProducerOK, HistoryOK, producer, history
  <2>4. QED
    BY <2>1, <2>2, <2>3
<1>14. CASE UNCHANGED vars
  BY <1>0, <1>14 DEF vars, shared, producer, consumer, history,
     SharedOK, ProducerOK, ConsumerOK, HistoryOK
<1>15. QED
  BY <1>1, <1>2, <1>3, <1>4, <1>5, <1>6, <1>7, <1>8, <1>9, <1>10, <1>11,
     <1>12, <1>13, <1>14 DEF Next, Push, Consume

\* What the two steps that change the sample ring do to it.
LEMMA CommitRing ==
  ASSUME TypeOK, CommitSamples
  PROVE  /\ Len(ring') = Len(ring) + plen
         /\ \A i \in 1..Len(ring) : ring'[i] = ring[i]
         /\ \A j \in 1..plen : ring'[Len(ring) + j] = pstart + j - 1
<1> DEFINE b == [i \in 1..plen |-> pstart + i - 1]
<1>1. b \in Seq(Nat) /\ Len(b) = plen /\ \A i \in 1..plen : b[i] = pstart + i - 1
  BY BlockSeq DEF TypeOK, ProducerOK
<1>2. ring' = ring \o b /\ ring \in Seq(Nat) /\ plen \in Nat
  BY DEF CommitSamples, TypeOK, SharedOK, ProducerOK
<1> HIDE DEF b
<1>3. /\ Len(ring \o b) = Len(ring) + Len(b)
      /\ \A i \in 1..Len(ring) + Len(b) :
           (ring \o b)[i] = IF i <= Len(ring) THEN ring[i] ELSE b[i - Len(ring)]
  BY <1>1, <1>2, ConcatProperties
<1>4. Len(ring) \in Nat
  BY <1>2
<1>5. QED
  BY <1>1, <1>2, <1>3, <1>4

LEMMA ReleaseRing ==
  ASSUME TypeOK, LaidOut, Consuming, Release
  PROVE  /\ clen \in 1..Len(ring)
         /\ Len(ring') = Len(ring) - clen
         /\ \A i \in 1..Len(ring) - clen : ring'[i] = ring[clen + i]
<1>1. cpc \in Reading
  BY DEF Release, Reading
<1>2. clen <= cspan.len /\ cspan.len <= Len(ring) /\ 1 <= clen
  BY <1>1, ReadingFits
<1>3. clen \in Nat /\ cspan.len \in Nat /\ ring \in Seq(Nat) /\ Len(ring) \in Nat
  BY DEF TypeOK, SharedOK, ConsumerOK, Span
<1>4. clen \in 1..Len(ring)
  BY <1>2, <1>3
<1>5. /\ Len(SubSeq(ring, clen + 1, Len(ring))) =
           IF clen + 1 <= Len(ring) THEN Len(ring) - (clen + 1) + 1 ELSE 0
      /\ \A i \in 1..Len(ring) - (clen + 1) + 1 :
           SubSeq(ring, clen + 1, Len(ring))[i] = ring[clen + 1 + i - 1]
  <2>1. \A i \in clen + 1 .. Len(ring) : ring[i] \in Nat
    BY <1>3, <1>4
  <2>2. QED
    BY <1>3, <2>1, SubSeqProperties
<1>6. ring' = SubSeq(ring, clen + 1, Len(ring))
  BY DEF Release
<1>7. QED
  BY <1>3, <1>4, <1>5, <1>6

----------------------------------------------------------------------------
(* The other conjuncts, one lemma each.                                    *)

LEMMA SamplesCountedStep ==
  ASSUME RingAssumption, IInv, [Next]_vars
  PROVE  SamplesCounted'
<1>0. /\ TypeOK /\ SamplesCounted /\ Fits /\ LaidOut /\ Consuming
      /\ Len(ring) \in Nat /\ dropped \in Nat /\ delivered \in Nat
      /\ next \in Nat \cup {-1} /\ first \in Nat \cup {-1}
      /\ pn \in Nat /\ plen \in Nat /\ clen \in Nat
  BY DEF IInv, Counted, TypeOK, SharedOK, ProducerOK, ConsumerOK, HistoryOK, None
<1> USE DEF SamplesCounted, Unpushed, Unreleased, None
<1>1. CASE UNCHANGED <<ring, dropped, producer, cpc, clen, first, delivered>>
  BY <1>0, <1>1 DEF producer
<1>2. CASE \E n \in Blocks, skip \in Gaps : Offer(n, skip)
  <2>1. PICK n \in Blocks, skip \in Gaps : Offer(n, skip)
    BY <1>2
  <2>2. n \in Nat /\ skip \in Nat /\ Slots \in Nat
    BY <1>0, RingAssumption DEF Fits, Slots
  <2> DEFINE start == (IF next = None THEN 0 ELSE next) + skip
             gap == IF next = None THEN 0 ELSE start - next
  <2>3. /\ UNCHANGED <<ring, cpc, clen, delivered>> /\ ppc = "idle"
        /\ next' = start + n
        /\ first' = IF next = None THEN start ELSE first
    BY <2>1 DEF Offer, consumer
  <2>4. \/ dropped' = dropped + gap + n /\ ppc' = ppc
        \/ dropped' = dropped + gap /\ ppc' = "claim" /\ pn' = n
    BY <2>1 DEF Offer
  <2>5. next' # None /\ first' # None
    BY <1>0, <2>2, <2>3
  <2>6. next' - first' = delivered' + dropped' + Len(ring') + Unpushed' - Unreleased'
    <3>1. CASE next = None
      <4>1. delivered + dropped + Len(ring) - Unreleased = 0
        BY <1>0, <2>3, <3>1
      <4>2. QED
        BY <1>0, <2>2, <2>3, <2>4, <3>1, <4>1
    <3>2. CASE next # None
      BY <1>0, <2>2, <2>3, <2>4, <3>2
    <3>3. QED
      BY <3>1, <3>2
  <2>7. QED
    BY <2>5, <2>6
<1>3. CASE Claim
  <2>1. /\ UNCHANGED <<ring, cpc, clen, delivered, first, next, pn, plen>>
        /\ ppc = "claim"
        /\ \/ ppc' = "count" /\ dropped' = dropped
           \/ ppc' = "idle" /\ dropped' = dropped + pn
    BY <1>3 DEF Claim, consumer, history
  <2>2. QED
    BY <1>0, <2>1
<1>4. CASE CountPush
  BY <1>0, <1>4 DEF CountPush, consumer, history
<1>5. CASE Debit
  <2>1. /\ UNCHANGED <<ring, cpc, clen, delivered, first, next, pn, plen>>
        /\ ppc = "debit" /\ ppc' = "fill" /\ dropped' = dropped + (pn - plen)
    BY <1>5 DEF Debit, consumer, history
  <2>2. QED
    BY <1>0, <2>1
<1>6. CASE CommitSamples
  <2>1. /\ UNCHANGED <<dropped, cpc, clen, delivered, first, next, pn, plen>>
        /\ ppc = "fill" /\ ppc' = "stamp"
    BY <1>6 DEF CommitSamples, consumer, history
  <2>2. QED
    BY <1>0, <1>6, <2>1, CommitRing
<1>7. CASE CommitSpan
  BY <1>0, <1>7 DEF CommitSpan, consumer, history
<1>8. CASE \E limit \in Limits : TakeSpan(limit)
  BY <1>0, <1>8 DEF TakeSpan, producer, history
<1>9. CASE ReadChunk
  BY <1>0, <1>9 DEF ReadChunk, producer, history, shared
<1>10. CASE Judge
  <2>1. /\ UNCHANGED <<ring, ppc, next, pn, plen, clen, first>>
        /\ cpc = "judge" /\ cpc' = "pop"
        /\ \/ delivered' = delivered + clen /\ dropped' = dropped
           \/ delivered' = delivered /\ dropped' = dropped + clen
    <3>1. CASE Fresh
      BY <1>10, <3>1 DEF Judge, producer
    <3>2. CASE ~Fresh
      BY <1>10, <3>2 DEF Judge, producer
    <3>3. QED
      BY <3>1, <3>2
  <2>2. QED
    BY <1>0, <2>1
<1>11. CASE CountPop
  BY <1>0, <1>11 DEF CountPop, producer, history
<1>12. CASE Release
  <2>1. /\ UNCHANGED <<dropped, ppc, next, pn, plen, clen, first, delivered>>
        /\ cpc = "commit" /\ cpc' = "free"
    BY <1>12 DEF Release, producer, history
  <2>2. Len(ring') = Len(ring) - clen
    BY <1>0, <1>12, ReleaseRing
  <2>3. QED
    BY <1>0, <2>1, <2>2
<1>13. CASE Freed
  BY <1>0, <1>13 DEF Freed, producer, history
<1>14. QED
  BY <1>1, <1>2, <1>3, <1>4, <1>5, <1>6, <1>7, <1>8, <1>9, <1>10, <1>11,
     <1>12, <1>13 DEF Next, Push, Consume, Tick, vars, shared, consumer, history

\* The two gauges, from the steps that move them or the ring.
LEMMA GaugesStep ==
  ASSUME RingAssumption, IInv, [Next]_vars
  PROVE  QueuedExact' /\ RoomExact'
<1>0. /\ TypeOK /\ QueuedExact /\ RoomExact /\ LaidOut /\ Consuming
      /\ Len(ring) \in Nat /\ queued \in Nat /\ free \in Int
      /\ plen \in Nat /\ clen \in Nat /\ Capacity \in Nat
  BY RingAssumption DEF IInv, Counted, TypeOK, SharedOK, ProducerOK, ConsumerOK
<1> USE DEF QueuedExact, RoomExact
<1>1. CASE UNCHANGED <<ring, queued, free, producer, cpc, clen>>
  BY <1>0, <1>1 DEF producer
<1>2. CASE \E n \in Blocks, skip \in Gaps : Offer(n, skip)
  BY <1>0, <1>2 DEF Offer, consumer
<1>3. CASE Claim \/ CountPush \/ Debit \/ CommitSpan
  <2>1. CASE Claim
    BY <1>0, <2>1 DEF Claim, consumer
  <2>2. CASE CountPush
    BY <1>0, <2>2 DEF CountPush, consumer
  <2>3. CASE Debit
    BY <1>0, <2>3 DEF Debit, consumer
  <2>4. CASE CommitSpan
    BY <1>0, <2>4 DEF CommitSpan, consumer
  <2>5. QED
    BY <1>3, <2>1, <2>2, <2>3, <2>4
<1>4. CASE CommitSamples
  <2>1. /\ UNCHANGED <<queued, free, cpc, clen, plen>>
        /\ ppc = "fill" /\ ppc' = "stamp"
    BY <1>4 DEF CommitSamples, consumer
  <2>2. QED
    BY <1>0, <1>4, <2>1, CommitRing
<1>5. CASE \E limit \in Limits : TakeSpan(limit)
  BY <1>0, <1>5 DEF TakeSpan, producer
<1>6. CASE ReadChunk
  BY <1>0, <1>6 DEF ReadChunk, producer, shared
<1>7. CASE Judge \/ CountPop \/ Freed
  <2>1. CASE Judge
    BY <1>0, <2>1 DEF Judge, producer
  <2>2. CASE CountPop
    BY <1>0, <2>2 DEF CountPop, producer
  <2>3. CASE Freed
    BY <1>0, <2>3 DEF Freed, producer
  <2>4. QED
    BY <1>7, <2>1, <2>2, <2>3
<1>8. CASE Release
  <2>1. /\ UNCHANGED <<queued, free, ppc, clen, plen>>
        /\ cpc = "commit" /\ cpc' = "free"
    BY <1>8 DEF Release, producer
  <2>2. Len(ring') = Len(ring) - clen
    BY <1>0, <1>8, ReleaseRing
  <2>3. QED
    BY <1>0, <2>1, <2>2
<1>9. QED
  BY <1>1, <1>2, <1>3, <1>4, <1>5, <1>6, <1>7, <1>8
     DEF Next, Push, Consume, Tick, vars, shared, consumer

LEMMA FitsStep ==
  ASSUME RingAssumption, IInv, [Next]_vars
  PROVE  Fits'
<1>0. /\ TypeOK /\ Fits /\ LaidOut /\ Consuming
      /\ Len(ring) \in Nat
  BY DEF IInv, TypeOK, SharedOK
<1> USE DEF TypeOK, Fits, Pushing
<1>1. CASE UNCHANGED <<ring, producer>>
  BY <1>0, <1>1 DEF producer
<1>2. CASE \E n \in Blocks, skip \in Gaps : Offer(n, skip)
  <2>1. PICK n \in Blocks, skip \in Gaps : Offer(n, skip)
    BY <1>2
  <2>2. n \in Nat /\ skip \in Nat /\ Slots \in Nat
    BY <1>0, RingAssumption DEF Slots
  <2>3. QED
    BY <1>0, <2>1, <2>2 DEF Offer, Least, Slots, ProducerOK, None
<1>3. CASE Claim \/ CountPush \/ Debit
  BY <1>0, <1>3 DEF Claim, CountPush, Debit
<1>4. CASE CommitSamples
  BY <1>0, <1>4, CommitRing, RingAssumption DEF CommitSamples, ProducerOK
<1>5. CASE CommitSpan
  BY <1>0, <1>5 DEF CommitSpan
<1>6. CASE Release
  BY <1>0, <1>6, ReleaseRing, RingAssumption DEF Release, producer, ProducerOK, ConsumerOK
<1>7. QED
  BY <1>1, <1>2, <1>3, <1>4, <1>5, <1>6 DEF Next, Push, Consume, Tick, TakeSpan,
     ReadChunk, Judge, CountPop, Freed, vars, shared

LEMMA ConsumingStep ==
  ASSUME RingAssumption, IInv, [Next]_vars
  PROVE  Consuming'
<1>0. TypeOK /\ Consuming /\ LaidOut /\ Len(ring) \in Nat
  BY DEF IInv, TypeOK, SharedOK
<1> USE DEF Consuming, Reading
<1>1. CASE UNCHANGED consumer
  BY <1>0, <1>1 DEF consumer
<1>2. CASE \E limit \in Limits : TakeSpan(limit)
  <2>1. PICK limit \in Limits : TakeSpan(limit)
    BY <1>2
  <2>2. limit \in Nat \ {0}
    BY RingAssumption
  <2>3. cspan'.len >= 1 /\ cspan'.len \in Nat
    <3>1. CASE pending.len > 0
      BY <1>0, <2>1, <3>1 DEF TakeSpan, TypeOK, ConsumerOK, Span
    <3>2. CASE ~(pending.len > 0)
      <4>1. Len(spans) > 0 /\ cspan' = Head(spans) /\ spans \in Seq(Span)
        BY <1>0, <2>1, <3>2 DEF TakeSpan, TypeOK, SharedOK
      <4>2. Head(spans) = spans[1] /\ 1 \in 1..Len(spans) /\ spans[1] \in Span
        BY <4>1
      <4>3. spans[1].len >= 1
        BY <1>0, <4>2 DEF LaidOut, Layout
      <4>4. QED
        BY <4>1, <4>2, <4>3 DEF Span
    <3>3. QED
      BY <3>1, <3>2
  <2>4. QED
    BY <1>0, <2>1, <2>2, <2>3 DEF TakeSpan, Least
<1>3. CASE ReadChunk
  <2>1. cpc \in Reading
    BY <1>3 DEF ReadChunk
  <2>2. clen <= Len(ring)
    <3>1. clen <= cspan.len /\ cspan.len <= Len(ring)
      BY <1>0, <2>1, ReadingFits
    <3>2. QED
      BY <1>0, <3>1 DEF TypeOK, SharedOK, ConsumerOK, Span
  <2>3. QED
    BY <1>0, <1>3, <2>2 DEF ReadChunk, TypeOK, ConsumerOK
<1>4. CASE Judge \/ CountPop \/ Release \/ Freed
  BY <1>0, <1>4 DEF Judge, CountPop, Release, Freed
<1>5. QED
  BY <1>1, <1>2, <1>3, <1>4 DEF Next, Push, Consume, Tick, Offer, Claim, CountPush,
     Debit, CommitSamples, CommitSpan, vars, consumer

LEMMA NoLossStep ==
  ASSUME RingAssumption, IInv, [Next]_vars
  PROVE  NoLoss'
<1> SUFFICES ASSUME Lossless
             PROVE  NoLoss'
  BY DEF NoLoss, Lossless
<1>0. /\ TypeOK /\ Counted /\ Fits /\ LaidOut
      /\ dropped = 0 /\ ~recovering /\ clock <= MaxTime /\ cnow <= MaxTime
      /\ ppc \in Pushing => pn = plen
      /\ Len(ring) \in Nat /\ clock \in Nat /\ cnow \in Nat /\ MaxTime \in Nat
      /\ MaxAge \in Nat /\ plen \in Nat /\ clen \in Nat /\ cspan.queued \in Nat
  BY RingAssumption DEF IInv, NoLoss, TypeOK, SharedOK, ProducerOK, ConsumerOK, Span
<1> USE DEF NoLoss, Pushing
<1>1. CASE UNCHANGED <<dropped, clock, recovering, cnow, producer>>
  BY <1>0, <1>1 DEF producer
<1>2. CASE Tick
  BY <1>0, <1>2 DEF Tick, producer, consumer
<1>3. CASE \E n \in Blocks, skip \in Gaps : Offer(n, skip)
  <2>1. PICK n \in Blocks, skip \in Gaps : Offer(n, skip)
    BY <1>3
  <2>2. n \in Nat /\ skip = 0 /\ Slots \in Nat /\ next \in Nat \cup {-1}
    BY <1>0, RingAssumption DEF Fits, Slots, Lossless, TypeOK, ProducerOK, None
  <2>3. n <= Slots
    <3>1. ppc = "idle" /\ n <= free
      BY <2>1 DEF Offer, RoomFor, Lossless
    <3>2. free <= Slots
      BY <1>0, <3>1, RingAssumption DEF Counted, RoomExact, Slots
    <3>3. free \in Int
      BY <1>0 DEF TypeOK, SharedOK
    <3>4. QED
      BY <2>2, <3>1, <3>2, <3>3
  <2>4. Least(n, Slots) = n
    BY <2>3 DEF Least
  <2>5. UNCHANGED <<clock, recovering, cnow>>
    BY <2>1 DEF Offer, consumer
  <2>6. /\ \/ dropped' = dropped + 0 + 0 /\ ppc' = "idle"
           \/ dropped' = dropped + 0 /\ pn' = plen'
    BY <2>1, <2>2, <2>4 DEF Offer, None
  <2>7. QED
    BY <1>0, <2>5, <2>6
<1>4. CASE Claim
  <2>1. Len(spans) < SpanCapacity
    <3>1. plen <= Capacity - Len(ring) /\ 1 <= plen
      BY <1>0, <1>4 DEF Claim, Fits
    <3>2. Len(spans) <= Len(ring)
      BY <1>0, HeldFits
    <3>3. Len(spans) \in Nat
      BY <1>0 DEF TypeOK, SharedOK
    <3>4. QED
      BY <1>0, <3>1, <3>2, <3>3, RingAssumption DEF Lossless
  <2>2. QED
    BY <1>0, <1>4, <2>1 DEF Claim, consumer
<1>5. CASE CountPush
  BY <1>0, <1>5 DEF CountPush, consumer
<1>6. CASE Debit
  <2>1. pn = plen /\ dropped' = dropped + (pn - plen)
    BY <1>0, <1>6 DEF Debit
  <2>2. QED
    BY <1>0, <1>6, <2>1 DEF Debit, consumer
<1>7. CASE CommitSamples \/ CommitSpan
  BY <1>0, <1>7 DEF CommitSamples, CommitSpan, consumer
<1>8. CASE \E limit \in Limits : TakeSpan(limit)
  BY <1>0, <1>8 DEF TakeSpan, producer
<1>9. CASE Judge
  <2>1. Age <= MaxAge
    BY <1>0 DEF Age, Lossless
  <2>2. ~Stale
    BY <1>0, <2>1 DEF Stale, Age
  <2>3. ~Recovering
    BY <1>0, <2>2 DEF Recovering
  <2>4. Fresh
    BY <2>1, <2>3 DEF Fresh
  <2>5. dropped' = dropped /\ ~recovering' /\ UNCHANGED <<clock, cnow, producer>>
    BY <1>9, <2>3, <2>4 DEF Judge
  <2>6. QED
    BY <1>0, <2>5 DEF producer
<1>10. QED
  BY <1>1, <1>2, <1>3, <1>4, <1>5, <1>6, <1>7, <1>8, <1>9 DEF Next, Push, Consume,
     ReadChunk, CountPop, Release, Freed, vars, shared, consumer

\* A run handed to the DSP is the front of the ring, whose samples lie in the
\* ring as the span says.
LEMMA HandedOver ==
  ASSUME TypeOK, LaidOut, Consuming, Judge, Fresh
  PROVE  /\ clen \in 1..Len(ring)
         /\ out'.start = cspan.start /\ cspan.start = ring[1]
         /\ Len(out'.samples) = clen
         /\ \A i \in 1..clen : /\ out'.samples[i] = ring[i]
                                /\ ring[i] = cspan.start + i - 1
<1>1. cpc \in Reading
  BY DEF Judge, Reading
<1>2. clen <= cspan.len /\ cspan.len <= Len(ring) /\ 1 <= clen
  BY <1>1, ReadingFits
<1>3. /\ clen \in Nat /\ cspan.len \in Nat /\ cspan.start \in Nat
      /\ ring \in Seq(Nat) /\ Len(ring) \in Nat
  BY DEF TypeOK, SharedOK, ConsumerOK, Span
<1>4. clen \in 1..Len(ring)
  BY <1>2, <1>3
<1>5. \A i \in 1..clen : ring[i] = cspan.start + i - 1
  <2>1. PICK offs \in [1..Last -> 0..Len(ring)] : Layout(offs)
    BY DEF LaidOut
  <2>2. Held = cspan
    BY <1>1 DEF Held
  <2>3. \A j \in 1..cspan.len : ring[j] = cspan.start + j - 1
    BY <2>1, <2>2 DEF Layout
  <2>4. QED
    BY <1>2, <1>3, <2>3
<1>6. /\ Len(SubSeq(ring, 1, clen)) = clen
      /\ \A i \in 1..clen : SubSeq(ring, 1, clen)[i] = ring[i]
  <2>1. \A i \in 1..clen : ring[i] \in Nat
    BY <1>3, <1>4
  <2>2. /\ Len(SubSeq(ring, 1, clen)) = IF 1 <= clen THEN clen - 1 + 1 ELSE 0
        /\ \A i \in 1..clen - 1 + 1 : SubSeq(ring, 1, clen)[i] = ring[1 + i - 1]
    BY <1>3, <2>1, SubSeqProperties
  <2>3. QED
    BY <1>2, <1>3, <2>2
<1>7. out' = [start |-> cspan.start, samples |-> SubSeq(ring, 1, clen)]
  BY DEF Judge
<1>8. out'.start = cspan.start /\ out'.samples = SubSeq(ring, 1, clen)
  BY <1>7
<1>9. ring[1] = cspan.start
  BY <1>2, <1>3, <1>5
<1>10. QED
  BY <1>4, <1>5, <1>6, <1>8, <1>9

LEMMA IndexStep ==
  ASSUME RingAssumption, IInv, [Next]_vars
  PROVE  ReceivedAtItsIndex'
<1>0. TypeOK /\ LaidOut /\ Consuming /\ ReceivedAtItsIndex
  BY DEF IInv
<1>1. CASE UNCHANGED out
  BY <1>0, <1>1 DEF ReceivedAtItsIndex
<1>2. CASE Judge /\ Fresh
  BY <1>0, <1>2, HandedOver DEF ReceivedAtItsIndex
<1>3. CASE Judge /\ ~Fresh
  BY <1>0, <1>3 DEF Judge, ReceivedAtItsIndex
<1>4. QED
  BY <1>1, <1>2, <1>3 DEF Next, Push, Consume, Tick, Offer, Claim, CountPush, Debit,
     CommitSamples, CommitSpan, TakeSpan, ReadChunk, CountPop, Release, Freed,
     vars, history

LEMMA OrderedStep ==
  ASSUME RingAssumption, IInv, [Next]_vars
  PROVE  Ordered'
<1>0. /\ TypeOK /\ Fits /\ LaidOut /\ Consuming /\ Ordered
      /\ Len(ring) \in Nat /\ \A j \in 1..Len(ring) : ring[j] \in Nat
      /\ next \in Nat \cup {-1} /\ pstart \in Nat /\ pn \in Nat /\ plen \in Nat
      /\ clen \in Nat /\ OutEnd \in Nat
  <2>1. /\ TypeOK /\ Fits /\ LaidOut /\ Consuming /\ Ordered
        /\ Len(ring) \in Nat /\ ring \in Seq(Nat)
        /\ next \in Nat \cup {-1} /\ pstart \in Nat /\ pn \in Nat /\ plen \in Nat
        /\ clen \in Nat /\ out.start \in Nat /\ out.samples \in Seq(Nat)
    BY DEF IInv, TypeOK, SharedOK, ProducerOK, ConsumerOK, HistoryOK, None
  <2>2. Len(out.samples) \in Nat
    BY <2>1
  <2>3. QED
    BY <2>1, <2>2 DEF OutEnd
<1> USE DEF None
<1>1. CASE UNCHANGED <<ring, next, pstart, cpc, clen, out>> /\
           (ppc' \in Pushing \ {"stamp"} => ppc \in Pushing \ {"stamp"})
  <2>1. OutEnd' = OutEnd /\ Unreleased' = Unreleased
    BY <1>1 DEF OutEnd, Unreleased
  <2>2. QED
    BY <1>0, <1>1, <2>1 DEF Ordered
<1>2. CASE \E n \in Blocks, skip \in Gaps : Offer(n, skip)
  <2>1. PICK n \in Blocks, skip \in Gaps : Offer(n, skip)
    BY <1>2
  <2>2. n \in Nat /\ skip \in Nat
    BY RingAssumption
  <2> DEFINE start == (IF next = None THEN 0 ELSE next) + skip
  <2>3. /\ UNCHANGED <<ring, cpc, clen, out>> /\ next' = start + n
        /\ ppc = "idle" /\ (ppc' = "idle" \/ pstart' = start)
    BY <2>1 DEF Offer, consumer
  <2>4. OutEnd' = OutEnd /\ Unreleased' = Unreleased
    BY <2>3 DEF OutEnd, Unreleased
  <2>5. OutEnd <= start /\ \A j \in 1..Len(ring) : ring[j] < start
    BY <1>0, <2>2 DEF Ordered
  <2>6. start \in Nat
    BY <1>0, <2>2
  <2> HIDE DEF start
  <2>7. QED
    BY <1>0, <2>2, <2>3, <2>4, <2>5, <2>6 DEF Ordered, Pushing
<1>3. CASE CommitSamples
  <2>1. /\ UNCHANGED <<next, pstart, plen, cpc, clen, out>>
        /\ ppc = "fill" /\ ppc' = "stamp"
    BY <1>3 DEF CommitSamples, consumer, history
  <2>2. OutEnd' = OutEnd /\ Unreleased' = Unreleased
    BY <2>1 DEF OutEnd, Unreleased
  <2>3. /\ Len(ring') = Len(ring) + plen
        /\ \A i \in 1..Len(ring) : ring'[i] = ring[i]
        /\ \A j \in 1..plen : ring'[Len(ring) + j] = pstart + j - 1
    BY <1>0, <1>3, CommitRing
  <2>4. /\ next = pstart + pn /\ plen <= pn /\ OutEnd <= pstart
        /\ \A j \in 1..Len(ring) : ring[j] < pstart
    BY <1>0, <2>1 DEF Ordered, Fits, Pushing
  <2>5. \A i \in 1..Len(ring') :
          \/ i \in 1..Len(ring) /\ ring'[i] = ring[i]
          \/ i > Len(ring) /\ ring'[i] = pstart + (i - Len(ring)) - 1
    <3>1. ASSUME NEW i \in 1..Len(ring'), i > Len(ring)
          PROVE  ring'[i] = pstart + (i - Len(ring)) - 1
      <4>1. i - Len(ring) \in 1..plen /\ Len(ring) + (i - Len(ring)) = i
        BY <1>0, <2>3, <3>1
      <4>2. ring'[Len(ring) + (i - Len(ring))] = pstart + (i - Len(ring)) - 1
        BY <2>3, <4>1
      <4>3. QED
        BY <4>1, <4>2
    <3>2. QED
      BY <1>0, <2>3, <3>1
  <2>6. \A i, j \in 1..Len(ring') : i < j => ring'[i] < ring'[j]
    BY <1>0, <2>3, <2>4, <2>5 DEF Ordered
  <2>7. \A j \in 1..Len(ring') : next' # None /\ ring'[j] < next'
    BY <1>0, <2>1, <2>3, <2>4, <2>5 DEF Ordered
  <2>8. \A j \in 1..Len(ring') : j > Unreleased => OutEnd <= ring'[j]
    BY <1>0, <2>3, <2>4, <2>5 DEF Ordered
  <2>9. QED
    BY <1>0, <2>1, <2>2, <2>6, <2>7, <2>8 DEF Ordered, Pushing
<1>4. CASE \E limit \in Limits : TakeSpan(limit)
  <2>1. /\ UNCHANGED <<ring, next, ppc, pstart, out>>
        /\ cpc = "idle" /\ cpc' = "read"
    BY <1>4 DEF TakeSpan, producer, history
  <2>2. OutEnd' = OutEnd /\ Unreleased' = Unreleased
    BY <2>1 DEF OutEnd, Unreleased
  <2>3. QED
    BY <1>0, <2>1, <2>2 DEF Ordered
<1>5. CASE ReadChunk \/ CountPop \/ Freed
  <2>1. UNCHANGED <<ring, next, ppc, pstart, out, clen>>
    BY <1>5 DEF ReadChunk, CountPop, Freed, producer, history, shared
  <2>2. OutEnd' = OutEnd /\ Unreleased' = Unreleased
    BY <1>5, <2>1 DEF OutEnd, Unreleased, ReadChunk, CountPop, Freed
  <2>3. QED
    BY <1>0, <2>1, <2>2 DEF Ordered
<1>6. CASE Judge
  <2>1. /\ UNCHANGED <<ring, next, ppc, pstart>>
        /\ Unreleased' = clen /\ Unreleased = 0
    BY <1>6 DEF Judge, producer, Unreleased
  <2>2. CASE Fresh
    <3>1. /\ clen \in 1..Len(ring)
          /\ out'.start = cspan.start
          /\ Len(out'.samples) = clen
          /\ ring[clen] = cspan.start + clen - 1
      BY <1>0, <1>6, <2>2, HandedOver
    <3>2. cspan.start \in Nat
      BY <1>0 DEF TypeOK, ConsumerOK, Span
    <3>3. OutEnd' = ring[clen] + 1
      BY <1>0, <3>1, <3>2 DEF OutEnd
    <3>4. \A j \in 1..Len(ring) : j > clen => ring[clen] < ring[j]
      BY <1>0, <3>1 DEF Ordered
    <3>5. QED
      BY <1>0, <2>1, <3>1, <3>3, <3>4 DEF Ordered
  <2>3. CASE ~Fresh
    <3>1. OutEnd' = OutEnd
      BY <1>6, <2>3 DEF Judge, OutEnd
    <3>2. QED
      BY <1>0, <2>1, <3>1 DEF Ordered
  <2>4. QED
    BY <2>2, <2>3
<1>7. CASE Release
  <2>1. UNCHANGED <<next, ppc, pstart, out>>
    BY <1>7 DEF Release, producer, history
  <2>2. OutEnd' = OutEnd /\ Unreleased = clen /\ Unreleased' = 0
    BY <1>7, <2>1 DEF OutEnd, Unreleased, Release
  <2>3. /\ clen \in 1..Len(ring) /\ Len(ring') = Len(ring) - clen
        /\ \A i \in 1..Len(ring) - clen : ring'[i] = ring[clen + i]
    BY <1>0, <1>7, ReleaseRing
  <2>4. \A i \in 1..Len(ring') : /\ clen + i \in 1..Len(ring) /\ clen + i > clen
                                /\ ring'[i] = ring[clen + i]
    BY <1>0, <2>3
  <2>5. \A i, j \in 1..Len(ring') : i < j => ring'[i] < ring'[j]
    <3>1. \A i, j \in 1..Len(ring') : i < j => clen + i < clen + j
      BY <1>0, <2>3
    <3>2. QED
      BY <1>0, <2>4, <3>1 DEF Ordered
  <2>6. /\ \A j \in 1..Len(ring') : next # None /\ ring'[j] < next /\ OutEnd <= ring'[j]
        /\ ppc \in Pushing \ {"stamp"} => \A j \in 1..Len(ring') : ring'[j] < pstart
    BY <1>0, <2>2, <2>4 DEF Ordered
  <2>7. QED
    BY <1>0, <2>1, <2>2, <2>5, <2>6 DEF Ordered
<1>8. CASE Claim \/ CountPush \/ Debit \/ CommitSpan
  BY <1>1, <1>8 DEF Claim, CountPush, Debit, CommitSpan, consumer, history, Pushing
<1>9. CASE Tick \/ UNCHANGED vars
  BY <1>1, <1>9 DEF Tick, vars, shared, producer, consumer, history
<1>10. QED
  BY <1>2, <1>3, <1>4, <1>5, <1>6, <1>7, <1>8, <1>9 DEF Next, Push, Consume

\* A step that leaves the rings, the front span and the stamp alone.
LEMMA LayoutKept ==
  ASSUME LaidOut, UNCHANGED <<ring, spans>>, Held' = Held,
         \/ ppc # "stamp" /\ ppc' # "stamp"
         \/ UNCHANGED <<ppc, plen, pstart>>
  PROVE  LaidOut'
<1>1. PICK offs \in [1..Last -> 0..Len(ring)] : Layout(offs)
  BY DEF LaidOut
<1>2. Last' = Last /\ Stamping' = Stamping
  BY DEF Last, Stamping
<1>3. Layout(offs)'
  BY <1>1, <1>2 DEF Layout
<1>4. QED
  BY <1>1, <1>2, <1>3 DEF LaidOut

LEMMA LaidOutStep ==
  ASSUME RingAssumption, IInv, [Next]_vars
  PROVE  LaidOut'
<1>0. /\ TypeOK /\ Fits /\ LaidOut /\ Consuming
      /\ ring \in Seq(Nat) /\ spans \in Seq(Span) /\ Len(ring) \in Nat
      /\ Len(spans) \in Nat /\ Last = Len(spans) + 1
      /\ plen \in Nat /\ pstart \in Nat /\ clen \in Nat
      /\ cspan \in Span /\ pending \in Span
  BY DEF IInv, TypeOK, SharedOK, ProducerOK, ConsumerOK, Last
<1>1. PICK offs \in [1..Last -> 0..Len(ring)] : Layout(offs)
  BY <1>0 DEF LaidOut
<1>20. /\ Len(ring) \in Nat /\ Len(spans) \in Nat /\ Last = Len(spans) + 1
      /\ plen \in Nat /\ pstart \in Nat /\ clen \in Nat
  BY <1>0
<1>21. \A k \in 1..Last : offs[k] \in Nat /\ offs[k] <= Len(ring)
  <2>1. TAKE k \in 1..Last
  <2>2. offs[k] \in 0..Len(ring)
    BY <1>1
  <2>3. QED
    BY <1>20, <2>2
<1>22. \A k \in 1..Len(spans) : /\ spans[k].len \in Nat /\ spans[k].start \in Nat
                               /\ k \in 1..Last /\ k + 1 \in 1..Last
  <2>1. TAKE k \in 1..Len(spans)
  <2>2. spans[k] \in Span
    BY <1>0
  <2>3. QED
    BY <1>20, <2>2 DEF Span
<1>2. /\ Last \in 1..Last /\ 1 \in 1..Last
      /\ \A k \in 1..Last : offs[k] \in Nat /\ offs[k] <= Len(ring)
      /\ \A k \in 1..Len(spans) : k \in 1..Last /\ k + 1 \in 1..Last
      /\ \A k \in 1..Len(spans) : spans[k].len \in Nat /\ spans[k].start \in Nat
  <2>1. Last \in 1..Last /\ 1 \in 1..Last
    BY <1>20
  <2>2. QED
    BY <1>21, <1>22, <2>1
<1>3. CASE Tick \/ Claim \/ CountPush \/ Debit \/ UNCHANGED vars
  <2>1. UNCHANGED <<ring, spans, consumer, plen, pstart>>
    BY <1>3 DEF Tick, Claim, CountPush, Debit, vars, shared, producer
  <2>2. Held' = Held
    BY <2>1 DEF Held, consumer
  <2>3. QED
    BY <1>0, <1>3, <2>1, <2>2, LayoutKept DEF Tick, Claim, CountPush, Debit, vars, producer
<1>4. CASE \E n \in Blocks, skip \in Gaps : Offer(n, skip)
  <2>1. UNCHANGED <<ring, spans, consumer>> /\ ppc # "stamp" /\ ppc' # "stamp"
    BY <1>4 DEF Offer
  <2>2. Held' = Held
    BY <2>1 DEF Held, consumer
  <2>3. QED
    BY <1>0, <2>1, <2>2, LayoutKept
<1>5. CASE CommitSamples
  <2>1. /\ UNCHANGED <<spans, consumer, plen, pstart>>
        /\ ppc = "fill" /\ ppc' = "stamp"
    BY <1>5 DEF CommitSamples
  <2>2. Held' = Held /\ Last' = Last /\ Stamping = 0 /\ Stamping' = plen
    BY <2>1 DEF Held, consumer, Last, Stamping
  <2>3. /\ Len(ring') = Len(ring) + plen
        /\ \A i \in 1..Len(ring) : ring'[i] = ring[i]
        /\ \A j \in 1..plen : ring'[Len(ring) + j] = pstart + j - 1
    BY <1>0, <1>5, CommitRing
  <2>4. offs[Last] = Len(ring)
    BY <1>0, <1>1, <1>2, <2>2 DEF Layout
  <2>5. offs \in [1..Last' -> 0..Len(ring')]
    BY <1>0, <1>1, <2>2, <2>3
  <2>6. \A j \in 1..Held.len : ring'[j] = Held.start + j - 1
    <3>1. Held.len \in Nat /\ Held.len <= Len(ring)
      BY <1>0, <1>1, <1>2 DEF Layout
    <3>2. QED
      BY <1>0, <1>1, <2>3, <3>1 DEF Layout
  <2>7. \A k \in 1..Len(spans) : \A j \in 1..spans[k].len :
          ring'[offs[k] + j] = spans[k].start + j - 1
    <3>1. \A k \in 1..Len(spans) : \A j \in 1..spans[k].len :
            offs[k] + j \in 1..Len(ring)
      <4>1. TAKE k \in 1..Len(spans)
      <4>2. TAKE j \in 1..spans[k].len
      <4>3. offs[k + 1] = offs[k] + spans[k].len /\ offs[k + 1] <= Len(ring)
        BY <1>1, <1>2 DEF Layout
      <4>4. offs[k] \in Nat /\ spans[k].len \in Nat
        BY <1>2
      <4>5. QED
        BY <1>20, <4>3, <4>4
    <3>2. QED
      BY <1>1, <2>3, <3>1 DEF Layout
  <2>8. Layout(offs)'
    BY <1>0, <1>1, <2>1, <2>2, <2>3, <2>4, <2>6, <2>7 DEF Layout
  <2>9. QED
    BY <2>5, <2>8 DEF LaidOut
<1>6. CASE CommitSpan
  <2> DEFINE s == [start |-> pstart, len |-> plen, queued |-> clock]
  <2>1. /\ UNCHANGED <<ring, consumer, plen, pstart>>
        /\ ppc = "stamp" /\ ppc' = "idle" /\ spans' = Append(spans, s)
    BY <1>6 DEF CommitSpan
  <2>2. /\ Len(spans') = Len(spans) + 1 /\ spans'[Last] = s
        /\ \A k \in 1..Len(spans) : spans'[k] = spans[k]
    BY <1>0, <2>1
  <2>3. /\ Held' = Held /\ Last' = Last + 1 /\ Stamping = plen /\ Stamping' = 0
        /\ 1 <= plen
    BY <1>0, <2>1, <2>2 DEF Held, consumer, Last, Stamping, Fits, Pushing
  <2>4. offs[Last] + plen = Len(ring)
    BY <1>1, <2>3 DEF Layout
  <2>5. PICK new \in [1..Last' -> 0..Len(ring')] :
          new[Last + 1] = Len(ring) /\ \A k \in 1..Last : new[k] = offs[k]
    <3> DEFINE f == [k \in 1..(Last + 1) |-> IF k = Last + 1 THEN Len(ring) ELSE offs[k]]
    <3>1. f \in [1..Last' -> 0..Len(ring')]
      BY <1>0, <1>2, <2>1, <2>3
    <3>2. f[Last + 1] = Len(ring) /\ \A k \in 1..Last : f[k] = offs[k]
      BY <1>0
    <3> HIDE DEF f
    <3>3. QED
      BY <3>1, <3>2
  <2>6. new[Last + 1] = Len(ring) /\ \A k \in 1..Last : new[k] = offs[k]
    BY <2>5
  <2>7. \A k \in 1..Len(spans') :
          /\ spans'[k].len >= 1
          /\ new[k + 1] = new[k] + spans'[k].len
          /\ \A j \in 1..spans'[k].len : ring[new[k] + j] = spans'[k].start + j - 1
    <3>1. TAKE k \in 1..Len(spans')
    <3>2. CASE k = Last
      <4>1. spans'[k].len = plen /\ spans'[k].start = pstart
        BY <2>2, <3>2
      <4>2. \A j \in 1..plen : ring[offs[Last] + j] = pstart + j - 1
        BY <1>1, <2>1 DEF Layout
      <4>3. QED
        BY <1>2, <2>3, <2>4, <2>6, <3>2, <4>1, <4>2
    <3>3. CASE k \in 1..Len(spans)
      <4>1. spans'[k] = spans[k] /\ new[k] = offs[k] /\ new[k + 1] = offs[k + 1]
        BY <1>0, <1>2, <2>2, <2>6, <3>3
      <4>2. QED
        BY <1>1, <3>3, <4>1 DEF Layout
    <3>4. k = Last \/ k \in 1..Len(spans)
      BY <1>20, <2>2
    <3>5. QED
      BY <3>2, <3>3, <3>4
  <2>8. \A j, k \in 1..(Last + 1) : j <= k => new[j] + (k - j) <= new[k]
    <3>1. ASSUME NEW j \in 1..(Last + 1), NEW k \in 1..(Last + 1), j <= k
          PROVE  new[j] + (k - j) <= new[k]
      <4>1. CASE k = Last + 1 /\ j \in 1..Last
        <5>1. offs[j] + (Last - j) <= offs[Last]
          BY <1>0, <1>1, <1>2, <4>1 DEF Layout
        <5>2. new[j] = offs[j] /\ new[k] = Len(ring) /\ offs[j] \in Nat /\ offs[Last] \in Nat
          BY <1>2, <2>6, <4>1
        <5>3. QED
          BY <1>20, <2>3, <2>4, <4>1, <5>1, <5>2
      <4>2. CASE k \in 1..Last
        <5>1. j \in 1..Last
          BY <1>0, <3>1, <4>2
        <5>2. QED
          BY <1>1, <2>6, <3>1, <4>2, <5>1 DEF Layout
      <4>3. CASE k = Last + 1 /\ j = Last + 1
        BY <1>0, <2>6, <4>3
      <4>4. QED
        BY <1>0, <3>1, <4>1, <4>2, <4>3
    <3>2. QED
      BY <3>1
  <2>9. Layout(new)'
    <3>1. new[1] = Held.len /\ \A j \in 1..Held.len : ring[j] = Held.start + j - 1
      BY <1>1, <1>2, <2>6 DEF Layout
    <3>2. new[Last + 1] + 0 = Len(ring)
      BY <1>20, <2>6
    <3>3. QED
      BY <2>1, <2>3, <2>7, <2>8, <3>1, <3>2 DEF Layout
  <2>10. QED
    BY <2>5, <2>9 DEF LaidOut
<1>7. CASE \E limit \in Limits : TakeSpan(limit)
  <2>1. /\ UNCHANGED <<ring, ppc, plen, pstart>> /\ cpc = "idle" /\ cpc' = "read"
        /\ cspan' = IF pending.len > 0 THEN pending ELSE Head(spans)
        /\ spans' = IF pending.len > 0 THEN spans ELSE Tail(spans)
        /\ pending.len > 0 \/ Len(spans) > 0
    BY <1>7 DEF TakeSpan, producer
  <2>2. Held = pending /\ Held' = cspan'
    BY <2>1 DEF Held, Reading
  <2>3. CASE pending.len > 0
    BY <1>0, <2>1, <2>2, <2>3, LayoutKept
  <2>4. CASE ~(pending.len > 0)
    <3>1. /\ Len(spans) > 0 /\ Held' = spans[1] /\ spans' = Tail(spans)
          /\ Held.len = 0
      BY <1>0, <2>1, <2>2, <2>4 DEF Span
    <3>2. /\ Len(spans') = Len(spans) - 1 /\ Last' = Len(spans)
          /\ \A k \in 1..Len(spans') : spans'[k] = spans[k + 1] /\ k + 1 \in 1..Len(spans)
          /\ Stamping' = Stamping
      BY <1>0, <2>1, <3>1 DEF Last, Stamping
    <3>4. PICK new \in [1..Last' -> 0..Len(ring')] :
            \A k \in 1..Len(spans) : new[k] = offs[k + 1]
      <4> DEFINE f == [k \in 1..Len(spans) |-> offs[k + 1]]
      <4>1. f \in [1..Last' -> 0..Len(ring')] /\ \A k \in 1..Len(spans) : f[k] = offs[k + 1]
        BY <1>1, <1>2, <2>1, <3>2
      <4> HIDE DEF f
      <4>2. QED
        BY <4>1
    <3>3. \A k \in 1..Len(spans) : new[k] = offs[k + 1]
      BY <3>4
    <3>5. offs[1] = 0 /\ offs[2] = spans[1].len /\ 1 \in 1..Len(spans)
      <4>1. 1 \in 1..Len(spans)
        BY <1>0, <3>1
      <4>2. offs[1] = 0 /\ offs[1 + 1] = offs[1] + spans[1].len
        BY <1>1, <3>1, <4>1 DEF Layout
      <4>3. QED
        BY <1>2, <4>1, <4>2
    <3>6. new[1] = spans[1].len /\ new[Last'] = offs[Last]
      <4>1. Len(spans) \in 1..Len(spans) /\ Last = Len(spans) + 1
        BY <1>20, <3>1
      <4>2. new[1] = offs[1 + 1] /\ new[Len(spans)] = offs[Len(spans) + 1]
        BY <3>3, <3>5, <4>1
      <4>3. QED
        BY <3>2, <3>5, <4>1, <4>2
    <3>7. \A k \in 1..Len(spans') :
            /\ spans'[k].len >= 1
            /\ new[k + 1] = new[k] + spans'[k].len
            /\ \A j \in 1..spans'[k].len : ring[new[k] + j] = spans'[k].start + j - 1
      <4>1. TAKE k \in 1..Len(spans')
      <4>2. /\ spans'[k] = spans[k + 1] /\ k + 1 \in 1..Len(spans)
            /\ new[k] = offs[k + 1] /\ new[k + 1] = offs[(k + 1) + 1]
        BY <1>20, <3>1, <3>2, <3>3
      <4>3. QED
        BY <1>1, <4>2 DEF Layout
    <3>8. \A j, k \in 1..Last' : j <= k => new[j] + (k - j) <= new[k]
      <4>1. ASSUME NEW j \in 1..Last', NEW k \in 1..Last', j <= k
            PROVE  new[j] + (k - j) <= new[k]
        <5>1. /\ j + 1 \in 1..Last /\ k + 1 \in 1..Last /\ j + 1 <= k + 1
              /\ new[j] = offs[j + 1] /\ new[k] = offs[k + 1]
              /\ (k + 1) - (j + 1) = k - j
          BY <1>0, <3>2, <3>3, <4>1
        <5>2. offs[j + 1] + ((k + 1) - (j + 1)) <= offs[k + 1]
          BY <1>1, <5>1 DEF Layout
        <5>3. QED
          BY <5>1, <5>2
      <4>2. QED
        BY <4>1
    <3>9. \A j \in 1..spans[1].len : ring[j] = spans[1].start + j - 1
      <4>1. \A j \in 1..spans[1].len : ring[offs[1] + j] = spans[1].start + j - 1
        BY <1>1, <3>5 DEF Layout
      <4>2. \A j \in 1..spans[1].len : offs[1] + j = j
        BY <1>2, <3>5
      <4>3. QED
        BY <4>1, <4>2
    <3>10. Layout(new)'
      <4>1. /\ offs[Last] + Stamping = Len(ring)
            /\ ppc = "stamp" => \A j \in 1..plen : ring[offs[Last] + j] = pstart + j - 1
        BY <1>1 DEF Layout
      <4>2. QED
        BY <2>1, <3>1, <3>2, <3>6, <3>7, <3>8, <3>9, <4>1 DEF Layout
    <3>11. QED
      BY <3>4, <3>10 DEF LaidOut
  <2>5. QED
    BY <2>3, <2>4
<1>8. CASE ReadChunk \/ Judge \/ CountPop
  <2>1. UNCHANGED <<ring, spans, cspan, ppc, plen, pstart>>
    BY <1>8 DEF ReadChunk, Judge, CountPop, shared, producer
  <2>2. Held' = Held
    <3>1. Held = cspan
      BY <1>8 DEF ReadChunk, Judge, CountPop, Held, Reading
    <3>2. Held' = cspan
      BY <1>8, <2>1 DEF ReadChunk, Judge, CountPop, Held, Reading
    <3>3. QED
      BY <3>1, <3>2
  <2>3. QED
    BY <1>0, <2>1, <2>2, LayoutKept
<1>9. CASE Freed
  <2>1. UNCHANGED <<ring, spans, ppc, plen, pstart>>
    BY <1>9 DEF Freed, producer
  <2>2. Held' = Held
    BY <1>9 DEF Freed, Held, Reading
  <2>3. QED
    BY <1>0, <2>1, <2>2, LayoutKept
<1>10. CASE Release
  <2>1. UNCHANGED <<spans, cspan, clen, ppc, plen, pstart>>
    BY <1>10 DEF Release, producer
  <2>2. /\ clen \in 1..Len(ring) /\ Len(ring') = Len(ring) - clen
        /\ \A i \in 1..Len(ring) - clen : ring'[i] = ring[clen + i]
    BY <1>0, <1>10, ReleaseRing
  <2>3. /\ Held = cspan /\ Held' = Rest(cspan, clen)
        /\ clen <= cspan.len /\ cspan.len \in Nat /\ cspan.start \in Nat
    BY <1>0, <1>10, <2>1 DEF Release, Held, Reading, Consuming, Span
  <2>4. Last' = Last /\ Stamping' = Stamping
    BY <2>1 DEF Last, Stamping
  <2>5. \A k \in 1..Last : cspan.len <= offs[k]
    <3>1. TAKE k \in 1..Last
    <3>2. offs[1] = cspan.len /\ offs[1] + (k - 1) <= offs[k]
      BY <1>0, <1>1, <1>2, <2>3 DEF Layout
    <3>3. QED
      BY <1>0, <1>2, <2>3, <3>2
  <2>7. PICK new \in [1..Last' -> 0..Len(ring')] :
          \A k \in 1..Last : new[k] = offs[k] - clen
    <3> DEFINE f == [k \in 1..Last |-> offs[k] - clen]
    <3>0. \A k \in 1..Last : offs[k] - clen \in 0..Len(ring')
      <4>1. TAKE k \in 1..Last
      <4>2. offs[k] \in Nat /\ offs[k] <= Len(ring) /\ cspan.len <= offs[k]
        BY <1>2, <2>5
      <4>3. QED
        BY <1>20, <2>2, <2>3, <4>2
    <3>1. f \in [1..Last' -> 0..Len(ring')] /\ \A k \in 1..Last : f[k] = offs[k] - clen
      BY <2>4, <3>0
    <3> HIDE DEF f
    <3>2. QED
      BY <3>1
  <2>6. \A k \in 1..Last : new[k] = offs[k] - clen
    BY <2>7
  <2>8. new[1] = Held'.len /\ \A j \in 1..Held'.len : ring'[j] = Held'.start + j - 1
    <3>1. offs[1] = cspan.len /\ \A j \in 1..cspan.len : ring[j] = cspan.start + j - 1
      BY <1>1, <2>3 DEF Layout
    <3>2. CASE cspan.len > clen
      <4>1. Held'.len = cspan.len - clen /\ Held'.start = cspan.start + clen
        BY <2>3, <3>2 DEF Rest
      <4>2. ASSUME NEW j \in 1..(cspan.len - clen)
            PROVE  ring'[j] = cspan.start + clen + j - 1
        <5>1. clen + j \in 1..cspan.len /\ cspan.len <= Len(ring)
          BY <1>20, <1>2, <2>3, <3>1
        <5>2. j \in 1..Len(ring) - clen
          BY <1>20, <2>3, <5>1
        <5>3. ring'[j] = ring[clen + j]
          BY <2>2, <5>2
        <5>4. ring[clen + j] = cspan.start + (clen + j) - 1
          BY <3>1, <5>1
        <5>5. QED
          BY <1>20, <2>3, <5>3, <5>4
      <4>3. QED
        BY <1>2, <2>6, <3>1, <4>1, <4>2
    <3>3. CASE ~(cspan.len > clen)
      <4>1. Held' = NoSpan /\ cspan.len = clen
        BY <1>0, <2>3, <3>3 DEF Rest
      <4>2. Held'.len = 0
        BY <4>1 DEF NoSpan
      <4>3. QED
        BY <1>0, <1>2, <2>6, <3>1, <4>1, <4>2
    <3>4. QED
      BY <3>2, <3>3
  <2>9. \A k \in 1..Len(spans) :
          /\ spans[k].len >= 1
          /\ new[k + 1] = new[k] + spans[k].len
          /\ \A j \in 1..spans[k].len : ring'[new[k] + j] = spans[k].start + j - 1
    <3>1. TAKE k \in 1..Len(spans)
    <3>2. /\ spans[k].len >= 1 /\ offs[k + 1] = offs[k] + spans[k].len
          /\ \A j \in 1..spans[k].len : ring[offs[k] + j] = spans[k].start + j - 1
          /\ new[k] = offs[k] - clen /\ new[k + 1] = offs[k + 1] - clen
          /\ offs[k] \in Nat /\ offs[k + 1] \in Nat /\ offs[k + 1] <= Len(ring)
          /\ clen <= offs[k] /\ spans[k].len \in Nat
      <4>1. /\ spans[k].len >= 1 /\ offs[k + 1] = offs[k] + spans[k].len
            /\ \A j \in 1..spans[k].len : ring[offs[k] + j] = spans[k].start + j - 1
        BY <1>1 DEF Layout
      <4>2. /\ k \in 1..Last /\ k + 1 \in 1..Last /\ spans[k].len \in Nat
            /\ offs[k] \in Nat /\ offs[k + 1] \in Nat /\ offs[k + 1] <= Len(ring)
        BY <1>2
      <4>3. new[k] = offs[k] - clen /\ new[k + 1] = offs[k + 1] - clen /\ cspan.len <= offs[k]
        BY <2>5, <2>6, <4>2
      <4>4. clen <= offs[k]
        BY <1>20, <2>3, <4>2, <4>3
      <4>5. QED
        BY <4>1, <4>2, <4>3, <4>4
    <3>3. ASSUME NEW j \in 1..spans[k].len
          PROVE  ring'[new[k] + j] = ring[offs[k] + j]
      <4>0. /\ new[k] = offs[k] - clen /\ offs[k] \in Nat /\ clen <= offs[k]
            /\ offs[k] + spans[k].len <= Len(ring) /\ spans[k].len \in Nat
        BY <3>2
      <4>1. new[k] + j \in 1..Len(ring) - clen /\ clen + (new[k] + j) = offs[k] + j
        BY <1>20, <4>0
      <4>2. ring'[new[k] + j] = ring[clen + (new[k] + j)]
        BY <2>2, <4>1
      <4>3. QED
        BY <4>1, <4>2
    <3>4. QED
      <4>1. new[k + 1] = new[k] + spans[k].len
        BY <1>20, <3>2
      <4>2. QED
        BY <3>2, <3>3, <4>1
  <2>10. \A j, k \in 1..Last : j <= k => new[j] + (k - j) <= new[k]
    <3>1. ASSUME NEW j \in 1..Last, NEW k \in 1..Last, j <= k
          PROVE  new[j] + (k - j) <= new[k]
      <4>1. offs[j] + (k - j) <= offs[k]
        BY <1>1, <3>1 DEF Layout
      <4>2. QED
        BY <1>0, <1>2, <2>6, <4>1
    <3>2. QED
      BY <3>1
  <2>11. ppc = "stamp" => \A j \in 1..plen : ring'[new[Last] + j] = pstart + j - 1
    <3>1. SUFFICES ASSUME ppc = "stamp", NEW j \in 1..plen
                   PROVE  ring'[new[Last] + j] = pstart + j - 1
      OBVIOUS
    <3>2. offs[Last] + plen = Len(ring) /\ ring[offs[Last] + j] = pstart + j - 1
      BY <1>1, <3>1 DEF Layout, Stamping
    <3>3. /\ new[Last] + j \in 1..Len(ring) - clen
          /\ clen + (new[Last] + j) = offs[Last] + j
      <4>1. clen <= offs[Last] /\ new[Last] = offs[Last] - clen /\ offs[Last] \in Nat
        BY <1>0, <1>2, <2>3, <2>5, <2>6
      <4>2. QED
        BY <1>20, <3>2, <4>1
    <3>4. ring'[new[Last] + j] = ring[clen + (new[Last] + j)]
      BY <2>2, <3>3
    <3>5. QED
      BY <3>2, <3>3, <3>4
  <2>12. new[Last] + Stamping = Len(ring')
    <3>1. offs[Last] + Stamping = Len(ring) /\ Stamping \in Nat
      BY <1>20, <1>1 DEF Layout, Stamping
    <3>2. new[Last] = offs[Last] - clen /\ offs[Last] \in Nat
      BY <1>2, <2>6
    <3>3. QED
      BY <1>20, <2>2, <3>1, <3>2
  <2>13. Layout(new)'
    BY <2>1, <2>4, <2>8, <2>9, <2>10, <2>11, <2>12 DEF Layout
  <2>14. QED
    BY <2>7, <2>13 DEF LaidOut
<1>11. QED
  BY <1>3, <1>4, <1>5, <1>6, <1>7, <1>8, <1>9, <1>10 DEF Next, Push, Consume

----------------------------------------------------------------------------
(* The theorems.                                                           *)

LEMMA InitIInv ==
  ASSUME RingAssumption, Init
  PROVE  IInv
<1> USE DEF Init, NoSpan, None
<1>1. Len(ring) = 0 /\ Len(spans) = 0 /\ Len(out.samples) = 0
  OBVIOUS
<1>2. TypeOK
  <2>1. SharedOK
    BY RingAssumption DEF SharedOK
  <2>2. ProducerOK
    BY DEF ProducerOK, PushSteps
  <2>3. NoSpan \in Span
    BY DEF Span
  <2>4. ConsumerOK
    BY <2>3 DEF ConsumerOK, ConsumeSteps
  <2>5. HistoryOK
    BY DEF HistoryOK
  <2>6. QED
    BY <2>1, <2>2, <2>4, <2>5 DEF TypeOK
<1>3. Counted
  BY <1>1, RingAssumption DEF Counted, SamplesCounted, QueuedExact, RoomExact,
     Unpushed, Unreleased
<1>4. Fits /\ Consuming
  BY <1>1, RingAssumption DEF Fits, Consuming, Pushing, Reading
<1>5. LaidOut
  <2>1. Last = 1 /\ Stamping = 0 /\ Held = NoSpan
    BY <1>1 DEF Last, Stamping, Held, Reading
  <2>2. PICK offs \in [1..Last -> 0..Len(ring)] : offs[1] = 0
    <3>1. [k \in 1..1 |-> 0] \in [1..Last -> 0..Len(ring)]
      BY <1>1, <2>1
    <3>2. [k \in 1..1 |-> 0][1] = 0
      OBVIOUS
    <3>3. QED
      BY <3>1, <3>2
  <2>3. Layout(offs)
    BY <1>1, <2>1, <2>2 DEF Layout
  <2>4. QED
    BY <2>3 DEF LaidOut
<1>6. Ordered /\ ReceivedAtItsIndex
  BY <1>1 DEF Ordered, ReceivedAtItsIndex, Pushing, Unreleased, OutEnd
<1>7. NoLoss
  BY RingAssumption DEF NoLoss, Pushing
<1>8. QED
  BY <1>2, <1>3, <1>4, <1>5, <1>6, <1>7 DEF IInv

\* The invariant holds throughout: both threads' counters, the two rings and
\* the order of what was delivered fit together at every step of either.
THEOREM RingInvariant == Spec => []IInv
<1>1. Init => IInv
  BY InitIInv, RingAssumption
<1>2. IInv /\ [Next]_vars => IInv'
  <2> SUFFICES ASSUME IInv, [Next]_vars
               PROVE  IInv'
    OBVIOUS
  <2>1. TypeOK'
    BY TypeStep, RingAssumption
  <2>2. Counted'
    BY SamplesCountedStep, GaugesStep, RingAssumption DEF Counted
  <2>3. Fits' /\ Consuming' /\ NoLoss'
    BY FitsStep, ConsumingStep, NoLossStep, RingAssumption
  <2>4. LaidOut' /\ Ordered' /\ ReceivedAtItsIndex'
    BY LaidOutStep, OrderedStep, IndexStep, RingAssumption
  <2>5. QED
    BY <2>1, <2>2, <2>3, <2>4 DEF IInv
<1>3. QED
  BY <1>1, <1>2, PTL DEF Spec

\* Types hold, and the unsigned queue gauge both threads update never wraps.
THEOREM TypeCorrect == Spec => []TypeOK
<1>1. IInv => TypeOK
  BY DEF IInv
<1>2. QED
  BY <1>1, RingInvariant, PTL

\* However push and consume_fresh_at interleave, no sample is lost or counted
\* twice: delivered, dropped and queued add up to what was captured.
THEOREM SamplesAddUp == Spec => []EverySampleAccounted
<1>1. IInv => EverySampleAccounted
  <2> SUFFICES ASSUME IInv, ppc = "idle", cpc = "idle"
               PROVE  /\ next # None => next - first = delivered + dropped + Len(ring)
                      /\ queued = Len(ring)
                      /\ free = Capacity - Len(ring)
    BY DEF EverySampleAccounted
  <2>1. /\ Len(ring) \in Nat /\ Capacity \in Nat /\ dropped \in Nat /\ delivered \in Nat
        /\ SamplesCounted /\ QueuedExact /\ RoomExact
    BY RingAssumption DEF IInv, Counted, TypeOK, SharedOK, HistoryOK
  <2>2. Unpushed = 0 /\ Unreleased = 0
    BY DEF Unpushed, Unreleased
  <2>3. next # None => next - first = delivered + dropped + Len(ring)
    BY <2>1, <2>2 DEF SamplesCounted
  <2>4. QED
    BY <2>1, <2>3 DEF QueuedExact, RoomExact
<1>2. QED
  BY <1>1, RingInvariant, PTL

\* The consumer never finds a span without its samples.
THEOREM SpansBacked == Spec => []SpanAlwaysBacked
<1>1. IInv => SpanAlwaysBacked
  <2> SUFFICES ASSUME IInv, cpc \in Reading
               PROVE  clen <= Len(ring)
    BY DEF SpanAlwaysBacked, Reading
  <2>1. clen <= cspan.len /\ cspan.len <= Len(ring)
    BY ReadingFits DEF IInv
  <2>2. QED
    BY <2>1 DEF IInv, TypeOK, SharedOK, ConsumerOK, Span
<1>2. QED
  BY <1>1, RingInvariant, PTL

\* Every sample the DSP receives is the one captured at the index it is given.
THEOREM IndexFaithful == Spec => []ReceivedAtItsIndex
<1>1. IInv => ReceivedAtItsIndex
  BY DEF IInv
<1>2. QED
  BY <1>1, RingInvariant, PTL

\* The room a waiting source reads is never more than the ring can take.
THEOREM RoomHonest == Spec => []RoomIsHonest
<1>1. IInv => RoomIsHonest
  BY RingAssumption DEF IInv, Counted, RoomExact, RoomIsHonest, Slots, TypeOK, SharedOK,
     ConsumerOK
<1>2. QED
  BY <1>1, RingInvariant, PTL

\* A source that waits for room loses nothing.
THEOREM Backpressure == Spec => []BackpressuredLosesNothing
<1>1. IInv => BackpressuredLosesNothing
  BY DEF IInv, NoLoss, BackpressuredLosesNothing
<1>2. QED
  BY <1>1, RingInvariant, PTL

\* The DSP never sees a capture index twice or going backwards.
THEOREM InOrder == Spec => ReceivedInOrder
<1>1. IInv /\ [Next]_vars => [out' # out => out'.start >= out.start + Len(out.samples)]_vars
  <2> SUFFICES ASSUME IInv, [Next]_vars, out' # out
               PROVE  out'.start >= out.start + Len(out.samples)
    OBVIOUS
  <2>1. Judge
    BY DEF Next, Push, Consume, Tick, Offer, Claim, CountPush, Debit, CommitSamples,
       CommitSpan, TakeSpan, ReadChunk, CountPop, Release, Freed, vars, history
  <2>2. Fresh
    BY <2>1 DEF Judge
  <2>3. out'.start = ring[1] /\ clen \in 1..Len(ring)
    BY <2>1, <2>2, HandedOver DEF IInv
  <2>4. Unreleased = 0 /\ 1 \in 1..Len(ring)
    BY <2>1, <2>3 DEF Judge, Unreleased, IInv, TypeOK, SharedOK
  <2>5. OutEnd <= ring[1]
    BY <2>4 DEF IInv, Ordered
  <2>6. ring[1] \in Nat /\ OutEnd \in Nat
    BY <2>4 DEF IInv, TypeOK, SharedOK, HistoryOK, OutEnd
  <2>7. QED
    BY <2>3, <2>5, <2>6 DEF OutEnd
<1>2. QED
  BY <1>1, RingInvariant, PTL DEF Spec, ReceivedInOrder

\* A consumer that recovers has met two stale runs with a fresh one between
\* them, and one that remembers a stale run has met one.
StallsCounted ==
  /\ lastStale # None => episodes >= 1
  /\ recovering => episodes >= 2

LEMMA StallsStayCounted ==
  ASSUME IInv, StallsCounted, [Next]_vars
  PROVE  StallsCounted'
<1>1. CASE Judge
  <2>1. episodes \in Nat /\ episodes' \in Nat /\ episodes' >= episodes
    BY <1>1 DEF Judge, IInv, TypeOK, HistoryOK
  <2>2. Stale /\ (freshSinceStale \/ lastStale = None) => episodes' = episodes + 1
    BY <1>1 DEF Judge
  <2>3. lastStale' # None => episodes' >= 1
    BY <1>1, <2>1, <2>2 DEF Judge, StallsCounted
  <2>4. ASSUME recovering'
        PROVE  episodes' >= 2
    <3>0. recovering' = (Recovering /\ ~Fresh)
      BY <1>1 DEF Judge
    <3>1. Recovering
      BY <2>4, <3>0, Zenon
    <3>2. CASE recovering
      <4>1. episodes >= 2
        BY <3>2, Zenon DEF StallsCounted
      <4>2. QED
        BY <2>1, <4>1
    <3>3. CASE Stale /\ freshSinceStale /\ lastStale # None
      BY <2>1, <2>2, <3>3 DEF StallsCounted
    <3>4. QED
      BY <3>1, <3>2, <3>3 DEF Recovering
  <2>5. QED
    BY <2>3, <2>4 DEF StallsCounted
<1>2. CASE ~Judge
  <2>1. UNCHANGED <<lastStale, recovering, episodes>>
    BY <1>2 DEF Next, Push, Consume, Tick, Offer, Claim, CountPush, Debit, CommitSamples,
       CommitSpan, TakeSpan, ReadChunk, CountPop, Release, Freed, vars, history, consumer
  <2>2. QED
    BY <2>1 DEF StallsCounted
<1>3. QED
  BY <1>1, <1>2

\* consume_fresh_at discards a run that is within the age limit only when the
\* consumer has fallen behind before: one isolated stall never costs it.
THEOREM FreshIsKept == Spec => IsolatedStallKeepsFresh
<1>1. Init => StallsCounted
  BY DEF Init, StallsCounted
<1>2. IInv /\ StallsCounted /\ [Next]_vars => StallsCounted'
  BY StallsStayCounted
<1>3. IInv /\ StallsCounted /\ [Next]_vars
        => [dropped' # dropped /\ cpc = "judge" /\ cpc' = "pop" /\ ~Stale
              => episodes >= 2]_vars
  <2> SUFFICES ASSUME IInv, StallsCounted, [Next]_vars, dropped' # dropped,
                      cpc = "judge", cpc' = "pop", ~Stale
               PROVE  episodes >= 2
    OBVIOUS
  <2>1. Judge
    BY DEF Next, Push, Consume, Tick, Offer, Claim, CountPush, Debit, CommitSamples,
       CommitSpan, TakeSpan, ReadChunk, CountPop, Release, Freed, vars, consumer, shared
  <2>2. ~Fresh
    BY <2>1 DEF Judge
  <2>3. Age \in Int /\ MaxAge \in Nat
    BY RingAssumption DEF Age, IInv, TypeOK, ConsumerOK, Span
  <2>4. recovering
    BY <2>2, <2>3 DEF Fresh, Stale, Recovering
  <2>5. QED
    BY <2>4 DEF StallsCounted
<1>4. QED
  BY <1>1, <1>2, <1>3, RingInvariant, PTL DEF Spec, IsolatedStallKeepsFresh
=============================================================================
