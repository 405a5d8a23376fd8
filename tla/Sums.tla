-------------------------------- MODULE Sums ---------------------------------
(***************************************************************************)
(* The sum of a sequence of numbers, as a recursive function, so that it   *)
(* can be evaluated and reasoned about.                                    *)
(***************************************************************************)
EXTENDS Naturals, Sequences

Total(w) ==
  LET sum[i \in 0..Len(w)] == IF i = 0 THEN 0 ELSE sum[i - 1] + w[i]
  IN sum[Len(w)]
=============================================================================
