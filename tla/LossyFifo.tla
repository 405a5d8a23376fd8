------------------------------ MODULE LossyFifo ------------------------------
(***************************************************************************)
(* What a lane's capture ring promises the two threads that share it: one  *)
(* queue of capture indices, in order, that may lose any of them at either *)
(* end.  The producer queues the head of a block, in one piece, or none of *)
(* it; the consumer takes a piece off the front, which the DSP is handed   *)
(* together with the index of its first sample, or never sees.             *)
(***************************************************************************)
EXTENDS Integers, Sequences

VARIABLES
  queue,  \* the capture indices of the samples that wait
  got,    \* the last piece handed to the DSP
  edge    \* the capture has come to here: what is queued next is not before it

fifo == <<queue, got, edge>>

Init == queue = <<>> /\ got = [start |-> 0, samples |-> <<>>] /\ edge = 0

\* The capture goes on and what it took is lost, or there was none.
Lose == /\ edge' \in Nat /\ edge' >= edge
        /\ UNCHANGED <<queue, got>>

\* A block ends at the new edge, and as much of its head as fits is queued.
Enqueue == /\ edge' \in Nat
           /\ \E len \in 1..(edge' - edge) :
                queue' = queue \o [i \in 1..len |-> edge + i - 1]
           /\ UNCHANGED got

Taken(n) == queue' = SubSeq(queue, n + 1, Len(queue)) /\ UNCHANGED edge

Deliver == \E n \in 1..Len(queue) :
             /\ Taken(n)
             /\ got' = [start |-> queue[1], samples |-> SubSeq(queue, 1, n)]

Discard == \E n \in 1..Len(queue) : Taken(n) /\ UNCHANGED got

Next == Lose \/ Enqueue \/ Deliver \/ Discard

Spec == Init /\ [][Next]_fifo
=============================================================================
