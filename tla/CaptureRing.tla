----------------------------- MODULE CaptureRing -----------------------------
(***************************************************************************)
(* One lane's capture ring (crates/engine/src/capture_ring.rs): the radio  *)
(* thread pushes blocks of samples, the DSP thread consumes them.  Two     *)
(* lock-free single-producer single-consumer rings lie between them, one   *)
(* of samples and one of spans (where a run of samples sits in the         *)
(* capture), together with the counters both threads update: how much is   *)
(* queued, how much was dropped (QueueMetrics, crates/engine/src/          *)
(* metrics.rs) and how much room is left (SinkRoom, crates/device/src/     *)
(* lib.rs).  Neither push nor consume_fresh is atomic, so every access to  *)
(* something the other thread sees is an action of its own.                *)
(*                                                                         *)
(* A sample is abstracted to the capture index it was taken at, so that    *)
(* "the right sample under the right index" can be said.                   *)
(***************************************************************************)
EXTENDS Integers, Sequences

CONSTANTS
  Capacity,       \* slots of the sample ring
  SpanCapacity,   \* slots of the span ring, capacity.min(SPAN_CAPACITY)
  MaxAge,         \* max_age: a span older than this is discarded
  Backpressured,  \* TRUE: the source waits for room (playback), FALSE: a radio
  Blocks,         \* lengths of the blocks the source pushes
  Gaps,           \* samples a driver reports lost between two blocks
  Limits,         \* lengths the DSP loop asks for
  MaxIndex,       \* bound: the capture ends here
  MaxTime         \* bound: the clock stops here

ASSUME RingAssumption ==
  /\ Capacity \in Nat \ {0}
  /\ SpanCapacity \in 1..Capacity
  /\ MaxAge \in Nat
  /\ Backpressured \in BOOLEAN
  /\ Blocks \subseteq Nat
  /\ Gaps \subseteq Nat
  /\ Limits \subseteq Nat \ {0}
  /\ MaxIndex \in Nat
  /\ MaxTime \in Nat

None == -1   \* an Option<u64> that is None

VARIABLES
  \* shared between the two threads
  ring,        \* samples: the committed samples, oldest first
  spans,       \* spans: the committed spans, oldest first
  queued,      \* QueueMetrics.queued
  dropped,     \* QueueMetrics.dropped
  free,        \* SinkRoom.free, which may be negative for a while
  clock,       \* QueueMetrics.now()
  \* the producer, and push's locals while it is in push
  next, ppc, pstart, pn, plen,
  \* the consumer, and consume_fresh_at's locals while it is in there
  pending, recovering, lastStale, freshSinceStale, cpc, cspan, clen, cnow,
  \* history: what the properties compare the code's counters with
  first,       \* index of the first sample pushed
  delivered,   \* samples handed to receive
  out,         \* the last run handed to receive, and the index it was given
  episodes     \* stale runs met, a fresh one between each and the next

shared == <<ring, spans, queued, dropped, free, clock>>
producer == <<next, ppc, pstart, pn, plen>>
consumer == <<pending, recovering, lastStale, freshSinceStale,
              cpc, cspan, clen, cnow>>
history == <<first, delivered, out, episodes>>
vars == <<shared, producer, consumer, history>>

Span == [start : Nat, len : Nat, queued : Nat]
NoSpan == [start |-> 0, len |-> 0, queued |-> 0]

Least(a, b) == IF a <= b THEN a ELSE b

----------------------------------------------------------------------------

Init ==
  /\ ring = <<>> /\ spans = <<>>
  /\ queued = 0 /\ dropped = 0 /\ free = Capacity /\ clock = 0
  /\ next = None /\ ppc = "idle" /\ pstart = 0 /\ pn = 0 /\ plen = 0
  /\ pending = NoSpan /\ recovering = FALSE /\ lastStale = None
  /\ freshSinceStale = FALSE
  /\ cpc = "idle" /\ cspan = NoSpan /\ clen = 0 /\ cnow = 0
  /\ first = None /\ delivered = 0
  /\ out = [start |-> 0, samples |-> <<>>] /\ episodes = 0

Tick ==
  /\ clock < MaxTime
  /\ clock' = clock + 1
  /\ UNCHANGED <<ring, spans, queued, dropped, free, producer, consumer, history>>

----------------------------------------------------------------------------
(* CaptureProducer::push, on the radio's thread.                           *)

\* What a backpressured source waits for before it pushes n samples.
RoomFor(n) == Backpressured => n <= free

Slots == Capacity - Len(ring)

\* The block arrives: the gap in front of it is counted, and what fits of it
\* is decided.  `skip` samples were reported lost by the driver since the
\* last block (RxSink::dropped, VirtualLaneSink::skip).
Offer(n, skip) ==
  LET start == (IF next = None THEN 0 ELSE next) + skip
      len == Least(n, Slots)
      gap == IF next = None THEN 0 ELSE start - next
  IN /\ ppc = "idle"
     /\ RoomFor(n)
     /\ start + n <= MaxIndex
     /\ next' = start + n
     /\ first' = IF next = None THEN start ELSE first
     /\ IF len = 0
        THEN /\ dropped' = dropped + gap + n
             /\ UNCHANGED <<ppc, pstart, pn, plen>>
        ELSE /\ dropped' = dropped + gap
             /\ ppc' = "claim"
             /\ pstart' = start /\ pn' = n /\ plen' = len
     /\ UNCHANGED <<ring, spans, queued, free, clock, consumer,
                    delivered, out, episodes>>

ClaimUncounted ==
  /\ ppc = "claim"
  /\ ppc' = IF Len(spans) < SpanCapacity THEN "count" ELSE "idle"
  /\ UNCHANGED <<ring, spans, queued, dropped, free, clock, next, pstart, pn, plen,
                 consumer, history>>

\* A span slot is claimed first; without one the whole block is dropped.
Claim ==
  /\ ppc = "claim"
  /\ IF Len(spans) < SpanCapacity
     THEN ppc' = "count" /\ UNCHANGED dropped
     ELSE ppc' = "idle" /\ dropped' = dropped + pn
  /\ UNCHANGED <<ring, spans, queued, free, clock, next, pstart, pn, plen,
                 consumer, history>>

CountPushForgotten ==
  /\ ppc = "count"
  /\ ppc' = "debit"
  /\ UNCHANGED <<shared, next, pstart, pn, plen, consumer, history>>

CountPush ==
  /\ ppc = "count"
  /\ queued' = queued + plen
  /\ ppc' = "debit"
  /\ UNCHANGED <<ring, spans, dropped, free, clock, next, pstart, pn, plen,
                 consumer, history>>

DebitForgotten ==
  /\ ppc = "debit"
  /\ dropped' = dropped + (pn - plen)
  /\ ppc' = "fill"
  /\ UNCHANGED <<ring, spans, queued, free, clock, next, pstart, pn, plen,
                 consumer, history>>

Debit ==
  /\ ppc = "debit"
  /\ free' = free - plen
  /\ dropped' = dropped + (pn - plen)
  /\ ppc' = "fill"
  /\ UNCHANGED <<ring, spans, queued, clock, next, pstart, pn, plen,
                 consumer, history>>

\* The samples are committed before the span that describes them.
CommitSamples ==
  /\ ppc = "fill"
  /\ ring' = ring \o [i \in 1..plen |-> pstart + i - 1]
  /\ ppc' = "stamp"
  /\ UNCHANGED <<spans, queued, dropped, free, clock, next, pstart, pn, plen,
                 consumer, history>>

CommitSpanWholeBlock ==
  /\ ppc = "stamp"
  /\ spans' = Append(spans, [start |-> pstart, len |-> pn, queued |-> clock])
  /\ ppc' = "idle"
  /\ UNCHANGED <<ring, queued, dropped, free, clock, next, pstart, pn, plen,
                 consumer, history>>

CommitSpan ==
  /\ ppc = "stamp"
  /\ spans' = Append(spans, [start |-> pstart, len |-> plen, queued |-> clock])
  /\ ppc' = "idle"
  /\ UNCHANGED <<ring, queued, dropped, free, clock, next, pstart, pn, plen,
                 consumer, history>>

Push == \/ \E n \in Blocks, skip \in Gaps : Offer(n, skip)
        \/ Claim \/ CountPush \/ Debit \/ CommitSamples \/ CommitSpan

----------------------------------------------------------------------------
(* CaptureConsumer::consume_fresh, on the DSP thread.                      *)

\* The time is read, then the span left over from last time or the next one.
TakeSpan(limit) ==
  /\ cpc = "idle"
  /\ pending.len > 0 \/ Len(spans) > 0
  /\ cspan' = IF pending.len > 0 THEN pending ELSE Head(spans)
  /\ spans' = IF pending.len > 0 THEN spans ELSE Tail(spans)
  /\ pending' = NoSpan
  /\ clen' = Least(cspan'.len, limit)
  /\ cnow' = clock
  /\ cpc' = "read"
  /\ UNCHANGED <<ring, queued, dropped, free, clock, producer, recovering,
                 lastStale, freshSinceStale, history>>

Age == cnow - cspan.queued

Stale == Age > MaxAge

RecoveringAtOnce ==
  \/ recovering
  \/ Stale /\ lastStale # None /\ cnow - lastStale <= MaxAge

\* Two stale runs within MaxAge of each other, a fresh one between them, mean
\* the consumer keeps falling behind.
Recovering ==
  \/ recovering
  \/ /\ Stale
     /\ freshSinceStale
     /\ lastStale # None
     /\ cnow - lastStale <= MaxAge

Fresh == Age <= (IF Recovering THEN MaxAge \div 2 ELSE MaxAge)

\* read_chunk: without the samples the span promises, the span is kept.
ReadChunk ==
  /\ cpc = "read"
  /\ IF Len(ring) < clen
     THEN pending' = cspan /\ cpc' = "idle"
     ELSE pending' = pending /\ cpc' = "judge"
  /\ UNCHANGED <<shared, producer, recovering, lastStale, freshSinceStale,
                 cspan, clen, cnow, history>>

\* The run is judged and either handed to the DSP or counted as dropped.
Judge ==
  /\ cpc = "judge"
  /\ recovering' = (Recovering /\ ~Fresh)
  /\ lastStale' = IF Stale THEN cnow ELSE lastStale
  /\ freshSinceStale' = (Fresh \/ (freshSinceStale /\ ~Stale))
  /\ IF Fresh
     THEN /\ out' = [start |-> cspan.start, samples |-> SubSeq(ring, 1, clen)]
          /\ delivered' = delivered + clen
          /\ UNCHANGED dropped
     ELSE /\ dropped' = dropped + clen
          /\ UNCHANGED <<out, delivered>>
  /\ episodes' = IF Stale /\ (freshSinceStale \/ lastStale = None)
                 THEN episodes + 1 ELSE episodes
  /\ cpc' = "pop"
  /\ UNCHANGED <<ring, spans, queued, free, clock, producer,
                 pending, cspan, clen, cnow, first>>

CountPop ==
  /\ cpc = "pop"
  /\ queued' = queued - clen
  /\ cpc' = "commit"
  /\ UNCHANGED <<ring, spans, dropped, free, clock, producer, pending, recovering,
                 lastStale, freshSinceStale, cspan, clen, cnow, history>>

ReleaseSpan ==
  /\ cpc = "commit"
  /\ ring' = SubSeq(ring, cspan.len + 1, Len(ring))
  /\ cpc' = "free"
  /\ UNCHANGED <<spans, queued, dropped, free, clock, producer, pending, recovering,
                 lastStale, freshSinceStale, cspan, clen, cnow, history>>

Release ==
  /\ cpc = "commit"
  /\ ring' = SubSeq(ring, clen + 1, Len(ring))
  /\ cpc' = "free"
  /\ UNCHANGED <<spans, queued, dropped, free, clock, producer, pending, recovering,
                 lastStale, freshSinceStale, cspan, clen, cnow, history>>

\* What is left of a span once n of its samples were consumed.
RestKeepsStart(span, n) ==
  IF span.len > n THEN [span EXCEPT !.len = @ - n] ELSE NoSpan

RestForgotten(span, n) == NoSpan

Rest(span, n) ==
  IF span.len > n
  THEN [start |-> span.start + n, len |-> span.len - n, queued |-> span.queued]
  ELSE NoSpan

\* The room is published after the slots are really free, and what is left of
\* the span is kept for the next call.
Freed ==
  /\ cpc = "free"
  /\ free' = free + clen
  /\ pending' = Rest(cspan, clen)
  /\ cpc' = "idle"
  /\ UNCHANGED <<ring, spans, queued, dropped, clock, producer, recovering,
                 lastStale, freshSinceStale, cspan, clen, cnow, history>>

Consume == \/ \E limit \in Limits : TakeSpan(limit)
           \/ ReadChunk \/ Judge \/ CountPop \/ Release \/ Freed

----------------------------------------------------------------------------

Next == Tick \/ Push \/ Consume

\* The DSP loop polls the ring at least every IDLE_PARK, woken or not, and a
\* push that has begun runs to its end; nothing makes the source go on.
Fairness ==
  /\ WF_vars(Consume)
  /\ WF_vars(Claim \/ CountPush \/ Debit \/ CommitSamples \/ CommitSpan)

Spec == Init /\ [][Next]_vars /\ Fairness

----------------------------------------------------------------------------
(* Properties.                                                             *)

PushSteps == {"idle", "claim", "count", "debit", "fill", "stamp"}
ConsumeSteps == {"idle", "read", "judge", "pop", "commit", "free"}

SharedOK ==
  /\ ring \in Seq(Nat) /\ spans \in Seq(Span)
  /\ queued \in Nat /\ dropped \in Nat /\ free \in Int /\ clock \in Nat

ProducerOK ==
  /\ next \in Nat \cup {None} /\ ppc \in PushSteps
  /\ pstart \in Nat /\ pn \in Nat /\ plen \in Nat

ConsumerOK ==
  /\ pending \in Span /\ recovering \in BOOLEAN
  /\ lastStale \in Nat \cup {None} /\ freshSinceStale \in BOOLEAN
  /\ cpc \in ConsumeSteps /\ cspan \in Span /\ clen \in Nat /\ cnow \in Nat

HistoryOK ==
  /\ first \in Nat \cup {None} /\ delivered \in Nat
  /\ out \in [start : Nat, samples : Seq(Nat)] /\ episodes \in Nat

\* Types; QueueMetrics.queued in particular, which is unsigned and updated by
\* both threads, never wraps below zero.
TypeOK == SharedOK /\ ProducerOK /\ ConsumerOK /\ HistoryOK

\* Whenever neither thread is inside the ring, every sample of the capture
\* since the first one was delivered, counted as dropped (once, whether the
\* driver lost it, the ring had no slot, the span ring had none or it went
\* stale) or still lies in the ring, and the two gauges agree with the ring.
EverySampleAccounted ==
  ppc = "idle" /\ cpc = "idle" =>
    /\ next # None => next - first = delivered + dropped + Len(ring)
    /\ queued = Len(ring)
    /\ free = Capacity - Len(ring)

\* A span the consumer holds is always backed by committed samples: the early
\* return of consume_fresh_at after a failed read_chunk is never taken.
SpanAlwaysBacked ==
  cpc \in {"read", "judge", "pop", "commit"} => clen <= Len(ring)

\* What receive is handed is what was captured at the index it is told.
ReceivedAtItsIndex ==
  \A i \in 1..Len(out.samples) : out.samples[i] = out.start + i - 1

\* The DSP never sees a capture index twice or going backwards.
ReceivedInOrder ==
  [][out' # out => out'.start >= out.start + Len(out.samples)]_vars

\* Between two pushes the advertised room is never more than the ring can
\* take, although both sides change it at another moment than the ring.
RoomIsHonest == ppc = "idle" => free <= Slots

\* A source that waits for room (and that reports no loss of its own) loses
\* nothing on the way, given a span slot per sample and no age limit.
Lossless == /\ Backpressured
            /\ SpanCapacity = Capacity
            /\ MaxTime <= MaxAge
            /\ Gaps = {0}
BackpressuredLosesNothing == Lossless => dropped = 0

\* A run within the age limit is only discarded when the consumer has fallen
\* behind before: one isolated stall never costs it.
IsolatedStallKeepsFresh ==
  [][dropped' # dropped /\ cpc = "judge" /\ cpc' = "pop" /\ ~Stale
       => episodes >= 2]_vars

\* What is committed to the ring is eventually taken out of it again.
Drained == \A i \in 0..MaxIndex :
  (\E k \in 1..Len(ring) : ring[k] = i) ~> ~(\E k \in 1..Len(ring) : ring[k] = i)

----------------------------------------------------------------------------
(* The ring as a queue: what was judged has left it, although its slots    *)
(* are released later, and a block that is being pushed enters it when its *)
(* samples are committed.                                                  *)

Waiting == IF cpc \in {"pop", "commit"} THEN SubSeq(ring, clen + 1, Len(ring)) ELSE ring

Edge == IF ppc \in {"claim", "count", "debit", "fill"} THEN pstart
        ELSE IF next = None THEN 0 ELSE next

Fifo == INSTANCE LossyFifo WITH queue <- Waiting, got <- out, edge <- Edge

\* The two rings, the span that is consumed in pieces, the early returns of
\* push and the discarding of stale runs amount to one queue that loses
\* samples only at its ends: every step of either thread is a step of LossyFifo
\* or nothing to it.
ImplementsLossyFifo == Fifo!Spec

=============================================================================
