--------------------------- MODULE MCRadioControl ----------------------------
(* Runtimes are interchangeable, and so are the threads of clients.         *)
EXTENDS RadioControl, TLC

\* Two lanes at the lower rate; a patch asks for one lane at the rate it has, or
\* for the higher rate.
TwoLanes == [center |-> 1, rate |-> 1, lanes |-> 2]
OneLane == {[rate |-> 1, lanes |-> 1], [rate |-> 2]}
Away == {[center |-> 2]}

Symmetric == Permutations(Runtimes) \cup Permutations(Clients)
=============================================================================
