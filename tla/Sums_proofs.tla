----------------------------- MODULE Sums_proofs -----------------------------
(***************************************************************************)
(* What Total computes.  The library's induction theorems take an operator *)
(* as a parameter; a set of numbers that has 0 and, with a number, the     *)
(* next one, is all the induction that is needed here.                     *)
(***************************************************************************)
EXTENDS Sums, Integers, SequenceTheorems, WellFoundedInduction, TLAPS

\* Every set of natural numbers that has an element has a least one.
LEMMA LeastNumber ==
  ASSUME NEW T \in SUBSET Nat, T # {}
  PROVE  \E x \in T : \A y \in T : x <= y
<1> DEFINE R == {ss \in Nat \X Nat : ss[1] < ss[2]}
<1>1. IsWellFoundedOn(R, Nat)
  BY NatLessThanWellFounded, Zenon DEF OpToRel
<1> HIDE DEF R
<1>2. PICK x \in T : \A y \in T : ~(<<y, x>> \in R)
  BY <1>1, WFMin
<1>3. \A y \in T : ~(y < x)
  BY <1>2 DEF R
<1>4. QED
  BY <1>3

LEMMA Induction ==
  ASSUME NEW n \in Nat, NEW S, 0 \in S, \A i \in 1..n : i - 1 \in S => i \in S
  PROVE  \A i \in 0..n : i \in S
<1> DEFINE T == {i \in 0..n : i \notin S}
<1>1. SUFFICES ASSUME T # {} PROVE FALSE
  OBVIOUS
<1>2. T \in SUBSET Nat
  OBVIOUS
<1>3. \A i \in T : i \in 0..n /\ i \notin S
  OBVIOUS
<1>4. \A i \in 0..n : i \in S \/ i \in T
  OBVIOUS
<1> HIDE DEF T
<1>5. PICK x \in T : \A y \in T : x <= y
  BY <1>1, <1>2, LeastNumber
<1>6. x \in 1..n /\ x - 1 \notin T
  BY <1>3, <1>5
<1>7. x - 1 \in S
  BY <1>4, <1>6
<1>8. QED
  BY <1>3, <1>6, <1>7

----------------------------------------------------------------------------

\* f[i] is the sum of the first i numbers of w, up to n.
PrefixSums(w, n, f) ==
  f \in [0..n -> Nat] /\ f[0] = 0 /\ \A i \in 1..n : f[i] = f[i - 1] + w[i]

LEMMA PrefixSumsExist == ASSUME NEW w \in Seq(Nat) PROVE \E f : PrefixSums(w, Len(w), f)
<1> DEFINE S == {n \in 0..Len(w) : \E f : PrefixSums(w, n, f)}
<1>1. 0 \in S
  <2>1. PrefixSums(w, 0, [i \in 0..0 |-> 0])
    BY DEF PrefixSums
  <2>2. QED
    BY <2>1
<1>2. ASSUME NEW n \in 1..Len(w), n - 1 \in S PROVE n \in S
  <2>1. PICK f : PrefixSums(w, n - 1, f)
    BY <1>2
  <2>2. /\ f \in [0..(n - 1) -> Nat] /\ f[0] = 0 /\ \A i \in 1..(n - 1) : f[i] = f[i - 1] + w[i]
        /\ n \in Nat \ {0} /\ w[n] \in Nat
    BY <2>1 DEF PrefixSums
  <2> DEFINE g == [i \in 0..n |-> IF i = n THEN f[n - 1] + w[n] ELSE f[i]]
  <2>3. g \in [0..n -> Nat] /\ g[0] = 0
    BY <2>2
  <2>4. ASSUME NEW i \in 1..n PROVE g[i] = g[i - 1] + w[i]
    <3>1. CASE i = n
      BY <2>2, <3>1
    <3>2. CASE i # n
      BY <2>2, <3>2
    <3>3. QED
      BY <3>1, <3>2
  <2>5. PrefixSums(w, n, g)
    BY <2>3, <2>4 DEF PrefixSums
  <2>6. QED
    BY <2>5
<1> HIDE DEF S
<1>3. Len(w) \in Nat
  OBVIOUS
<1>4. \A i \in 0..Len(w) : i \in S
  BY <1>1, <1>2, <1>3, Induction
<1>5. QED
  BY <1>3, <1>4 DEF S

LEMMA TotalIsLast ==
  ASSUME NEW w \in Seq(Nat)
  PROVE  \E f : PrefixSums(w, Len(w), f) /\ Total(w) = f[Len(w)]
<1> DEFINE Is(f) == f = [i \in 0..Len(w) |-> IF i = 0 THEN 0 ELSE f[i - 1] + w[i]]
           sum == CHOOSE f : Is(f)
<1>1. \E f : Is(f)
  <2>1. PICK f : f \in [0..Len(w) -> Nat] /\ f[0] = 0 /\ \A i \in 1..Len(w) : f[i] = f[i - 1] + w[i]
    BY PrefixSumsExist DEF PrefixSums
  <2>2. f = [i \in 0..Len(w) |-> f[i]]
    BY <2>1
  <2>3. \A i \in 0..Len(w) : f[i] = IF i = 0 THEN 0 ELSE f[i - 1] + w[i]
    BY <2>1
  <2>4. [i \in 0..Len(w) |-> f[i]] = [i \in 0..Len(w) |-> IF i = 0 THEN 0 ELSE f[i - 1] + w[i]]
    BY <2>3, Zenon
  <2>5. QED
    BY <2>2, <2>4
<1>2. Is(sum)
  BY <1>1
<1>3. Total(w) = sum[Len(w)]
  BY DEF Total
<1> HIDE DEF sum
<1>4. /\ sum = [i \in 0..Len(w) |-> sum[i]]
      /\ \A i \in 0..Len(w) : sum[i] = IF i = 0 THEN 0 ELSE sum[i - 1] + w[i]
  BY <1>2
<1> HIDE DEF Is
<1>5. sum[0] = 0 /\ Len(w) \in Nat
  BY <1>4
<1>6. ASSUME NEW i \in 1..Len(w) PROVE sum[i] = sum[i - 1] + w[i] /\ w[i] \in Nat
  BY <1>4
<1>7. \A i \in 0..Len(w) : sum[i] \in Nat
  <2> DEFINE S == {m \in 0..Len(w) : sum[m] \in Nat}
  <2>1. 0 \in S
    BY <1>5
  <2>2. ASSUME NEW i \in 1..Len(w), i - 1 \in S PROVE i \in S
    BY <1>6, <2>2
  <2> HIDE DEF S
  <2>3. \A i \in 0..Len(w) : i \in S
    BY <1>5, <2>1, <2>2, Induction
  <2>4. QED
    BY <2>3 DEF S
<1>8. sum \in [0..Len(w) -> Nat]
  BY <1>4, <1>7
<1>9. PrefixSums(w, Len(w), sum)
  BY <1>5, <1>6, <1>8 DEF PrefixSums
<1>10. QED
  BY <1>3, <1>9

LEMMA TotalType == ASSUME NEW w \in Seq(Nat) PROVE Total(w) \in Nat
<1>1. Len(w) \in Nat
  OBVIOUS
<1>2. QED
  BY <1>1, TotalIsLast DEF PrefixSums

LEMMA TotalEmpty == Total(<<>>) = 0
<1>1. <<>> \in Seq(Nat) /\ Len(<<>>) = 0
  OBVIOUS
<1>2. QED
  BY <1>1, TotalIsLast DEF PrefixSums

LEMMA TotalSingle == ASSUME NEW x \in Nat PROVE Total(<<x>>) = x
<1>1. <<x>> \in Seq(Nat) /\ Len(<<x>>) = 1 /\ <<x>>[1] = x
  OBVIOUS
<1>2. PICK f : PrefixSums(<<x>>, Len(<<x>>), f) /\ Total(<<x>>) = f[Len(<<x>>)]
  BY <1>1, TotalIsLast
<1>3. QED
  BY <1>1, <1>2 DEF PrefixSums

LEMMA TotalConcat ==
  ASSUME NEW v \in Seq(Nat), NEW w \in Seq(Nat)
  PROVE  Total(v \o w) = Total(v) + Total(w)
<1> DEFINE a == Len(v)
           b == Len(w)
           u == v \o w
<1>1. /\ a \in Nat /\ b \in Nat /\ Len(u) = a + b /\ u \in Seq(Nat)
      /\ \A i \in 1..a : u[i] = v[i]
      /\ \A i \in 1..b : u[a + i] = w[i] /\ w[i] \in Nat
  OBVIOUS
<1> HIDE DEF u
<1>2. PICK f : PrefixSums(u, Len(u), f) /\ Total(u) = f[Len(u)]
  BY <1>1, TotalIsLast
<1>3. PICK g : PrefixSums(v, a, g) /\ Total(v) = g[a]
  BY TotalIsLast
<1>4. PICK h : PrefixSums(w, b, h) /\ Total(w) = h[b]
  BY TotalIsLast
<1> HIDE DEF a, b
<1>5. /\ f[0] = 0 /\ \A i \in 1..(a + b) : f[i] = f[i - 1] + u[i]
      /\ g \in [0..a -> Nat] /\ g[0] = 0 /\ \A i \in 1..a : g[i] = g[i - 1] + v[i]
      /\ h \in [0..b -> Nat] /\ h[0] = 0 /\ \A i \in 1..b : h[i] = h[i - 1] + w[i]
  BY <1>1, <1>2, <1>3, <1>4 DEF PrefixSums
<1>6. \A i \in 0..a : f[i] = g[i]
  <2> DEFINE S == {i \in 0..a : f[i] = g[i]}
  <2>1. 0 \in S
    BY <1>1, <1>5
  <2>2. ASSUME NEW i \in 1..a, i - 1 \in S PROVE i \in S
    <3>1. i \in 1..(a + b) /\ f[i - 1] = g[i - 1] /\ u[i] = v[i]
      BY <1>1, <2>2
    <3>2. QED
      BY <1>5, <3>1
  <2> HIDE DEF S
  <2>3. \A i \in 0..a : i \in S
    BY <1>1, <2>1, <2>2, Induction
  <2>4. QED
    BY <2>3 DEF S
<1>7. \A i \in 0..b : f[a + i] = g[a] + h[i]
  <2> DEFINE S == {i \in 0..b : f[a + i] = g[a] + h[i]}
  <2>1. 0 \in S
    BY <1>1, <1>5, <1>6
  <2>2. ASSUME NEW i \in 1..b, i - 1 \in S PROVE i \in S
    <3>1. a + i \in 1..(a + b) /\ (a + i) - 1 = a + (i - 1) /\ i - 1 \in 0..b
      BY <1>1
    <3>2. f[a + i] = f[(a + i) - 1] + u[a + i] /\ u[a + i] = w[i] /\ w[i] \in Nat
      BY <1>1, <1>5, <3>1
    <3>5. h[i] = h[i - 1] + w[i] /\ h[i - 1] \in Nat /\ g[a] \in Nat
      <4>1. h[i] = h[i - 1] + w[i]
        BY <1>5
      <4>2. h[i - 1] \in Nat
        BY <1>5, <3>1
      <4>3. a \in 0..a
        BY <1>1
      <4>4. g[a] \in Nat
        BY <1>5, <4>3
      <4> QED
        BY <4>1, <4>2, <4>4
    <3>3. f[a + (i - 1)] = g[a] + h[i - 1]
      BY <2>2
    <3>4. QED
      BY <3>1, <3>2, <3>3, <3>5
  <2> HIDE DEF S
  <2>3. \A i \in 0..b : i \in S
    BY <1>1, <2>1, <2>2, Induction
  <2>4. QED
    BY <2>3 DEF S
<1>8. f[a + b] = g[a] + h[b]
  BY <1>1, <1>7
<1>9. Total(u) = Total(v) + Total(w)
  BY <1>1, <1>2, <1>3, <1>4, <1>8
<1>10. QED
  BY <1>9 DEF u

LEMMA TotalAppend ==
  ASSUME NEW w \in Seq(Nat), NEW x \in Nat PROVE Total(Append(w, x)) = Total(w) + x
<1>1. Append(w, x) = w \o <<x>> /\ <<x>> \in Seq(Nat)
  OBVIOUS
<1>2. QED
  BY <1>1, TotalConcat, TotalSingle

\* The sum is the sum of a beginning and of the rest.
LEMMA TotalSplit ==
  ASSUME NEW w \in Seq(Nat), NEW n \in 0..Len(w)
  PROVE  /\ SubSeq(w, 1, n) \in Seq(Nat) /\ SubSeq(w, n + 1, Len(w)) \in Seq(Nat)
         /\ Total(w) = Total(SubSeq(w, 1, n)) + Total(SubSeq(w, n + 1, Len(w)))
<1>1. Len(w) \in Nat /\ n \in Nat /\ n <= Len(w) /\ \A i \in 1..Len(w) : w[i] \in Nat
  OBVIOUS
<1>2. SubSeq(w, 1, n) \in Seq(Nat) /\ SubSeq(w, n + 1, Len(w)) \in Seq(Nat)
  BY <1>1, SubSeqProperties
<1>3. SubSeq(w, 1, n) \o SubSeq(w, n + 1, Len(w)) = SubSeq(w, 1, Len(w))
  <2>1. 1 \in 1..(Len(w) + 1) /\ n \in (1 - 1)..Len(w) /\ Len(w) \in n..Len(w)
    BY <1>1
  <2>2. QED
    BY <2>1, ConcatAdjacentSubSeq, Zenon
<1>4. SubSeq(w, 1, Len(w)) = w
  BY SubSeqFull
<1>5. QED
  BY <1>2, <1>3, <1>4, TotalConcat

LEMMA TotalTail ==
  ASSUME NEW w \in Seq(Nat), w # <<>>
  PROVE  Total(w) = Head(w) + Total(Tail(w)) /\ Head(w) \in Nat /\ Tail(w) \in Seq(Nat)
<1>1. w = <<Head(w)>> \o Tail(w) /\ <<Head(w)>> \in Seq(Nat) /\ Tail(w) \in Seq(Nat) /\ Head(w) \in Nat
  OBVIOUS
<1>2. QED
  BY <1>1, TotalConcat, TotalSingle

----------------------------------------------------------------------------
(* Sums over the elements of a sequence.                                   *)

\* What f gives for each element of s, and its sum.
Mapped(f, s) == [i \in 1..Len(s) |-> f[s[i]]]
SumOf(f, s) == Total(Mapped(f, s))

LEMMA MappedType ==
  ASSUME NEW P, NEW f \in [P -> Nat], NEW s \in Seq(P)
  PROVE  /\ Mapped(f, s) \in Seq(Nat) /\ Len(Mapped(f, s)) = Len(s)
         /\ \A i \in 1..Len(s) : Mapped(f, s)[i] = f[s[i]]
<1>1. Len(s) \in Nat /\ \A i \in 1..Len(s) : s[i] \in P
  OBVIOUS
<1>2. \A i \in 1..Len(s) : f[s[i]] \in Nat
  BY <1>1
<1> QED
  BY <1>1, <1>2 DEF Mapped

LEMMA SumType ==
  ASSUME NEW P, NEW f \in [P -> Nat], NEW s \in Seq(P) PROVE SumOf(f, s) \in Nat
BY MappedType, TotalType DEF SumOf

LEMMA SumEmpty == ASSUME NEW P, NEW f \in [P -> Nat] PROVE SumOf(f, <<>>) = 0
<1> DEFINE w == Mapped(f, <<>>)
<1>1. <<>> \in Seq(P) /\ Len(<<>>) = 0
  OBVIOUS
<1>2. w \in Seq(Nat) /\ Len(w) = 0
  BY <1>1, MappedType
<1> HIDE DEF w
<1>3. w = <<>>
  BY <1>2
<1> QED
  BY <1>3, TotalEmpty DEF SumOf, w

LEMMA SumConcat ==
  ASSUME NEW P, NEW f \in [P -> Nat], NEW s \in Seq(P), NEW t \in Seq(P)
  PROVE  SumOf(f, s \o t) = SumOf(f, s) + SumOf(f, t)
<1> DEFINE u == s \o t
           a == Mapped(f, s)
           b == Mapped(f, t)
           c == Mapped(f, u)
<1>1. /\ u \in Seq(P) /\ Len(u) = Len(s) + Len(t) /\ Len(s) \in Nat /\ Len(t) \in Nat
      /\ \A i \in 1..Len(u) : u[i] = IF i <= Len(s) THEN s[i] ELSE t[i - Len(s)]
  BY ConcatProperties
<1> HIDE DEF u
<1>2. /\ a \in Seq(Nat) /\ Len(a) = Len(s) /\ \A i \in 1..Len(s) : a[i] = f[s[i]]
      /\ b \in Seq(Nat) /\ Len(b) = Len(t) /\ \A i \in 1..Len(t) : b[i] = f[t[i]]
      /\ c \in Seq(Nat) /\ Len(c) = Len(u) /\ \A i \in 1..Len(u) : c[i] = f[u[i]]
  <2> HIDE DEF a, b, c
  <2>1. ASSUME NEW x \in Seq(P)
        PROVE  /\ Mapped(f, x) \in Seq(Nat) /\ Len(Mapped(f, x)) = Len(x)
               /\ \A i \in 1..Len(x) : Mapped(f, x)[i] = f[x[i]]
    <3>1. Len(x) \in Nat /\ \A i \in 1..Len(x) : x[i] \in P
      OBVIOUS
    <3>2. \A i \in 1..Len(x) : f[x[i]] \in Nat
      BY <3>1
    <3> QED
      BY <3>1, <3>2 DEF Mapped
  <2>2. a = Mapped(f, s) /\ b = Mapped(f, t) /\ c = Mapped(f, u)
    BY DEF a, b, c
  <2>3. u \in Seq(P)
    BY <1>1
  <2> QED
    BY <2>1, <2>2, <2>3
<1> HIDE DEF a, b, c
<1>3. /\ a \o b \in Seq(Nat) /\ Len(a \o b) = Len(s) + Len(t)
      /\ \A i \in 1..(Len(s) + Len(t)) : (a \o b)[i] = IF i <= Len(s) THEN a[i] ELSE b[i - Len(s)]
  <2>1. /\ a \o b \in Seq(Nat) /\ Len(a \o b) = Len(a) + Len(b)
        /\ \A i \in 1..(Len(a) + Len(b)) :
              (a \o b)[i] = IF i <= Len(a) THEN a[i] ELSE b[i - Len(a)]
    <3>1. a \in Seq(Nat) /\ b \in Seq(Nat)
      BY <1>2
    <3> QED
      BY <3>1, ConcatProperties
  <2>2. Len(a) = Len(s) /\ Len(b) = Len(t)
    BY <1>2
  <2> QED
    BY <2>1, <2>2, Zenon
<1>4. \A i \in 1..Len(c) : c[i] = (a \o b)[i]
  <2> SUFFICES ASSUME NEW i \in 1..Len(u) PROVE c[i] = (a \o b)[i]
    BY <1>2
  <2>1. CASE i <= Len(s)
    <3>1. i \in 1..Len(s) /\ i \in 1..(Len(s) + Len(t))
      BY <2>1, <1>1
    <3>2. c[i] = f[u[i]] /\ u[i] = s[i] /\ a[i] = f[s[i]]
      BY <2>1, <3>1, <1>1, <1>2
    <3>3. (a \o b)[i] = a[i]
      BY <2>1, <3>1, <1>3
    <3> QED
      BY <3>2, <3>3
  <2>2. CASE ~(i <= Len(s))
    <3>1. i - Len(s) \in 1..Len(t) /\ i \in 1..(Len(s) + Len(t))
      BY <2>2, <1>1
    <3>2. c[i] = f[u[i]] /\ u[i] = t[i - Len(s)]
      BY <2>2, <3>1, <1>1, <1>2
    <3>3. b[i - Len(s)] = f[t[i - Len(s)]]
      BY <3>1, <1>2
    <3>4. (a \o b)[i] = b[i - Len(s)]
      BY <2>2, <3>1, <1>3
    <3> QED
      BY <3>2, <3>3, <3>4
  <2> QED
    BY <2>1, <2>2
<1>5. c = a \o b
  BY <1>1, <1>2, <1>3, <1>4, SeqEqual, Zenon
<1>6. Total(c) = Total(a) + Total(b)
  BY <1>2, <1>5, TotalConcat
<1> QED
  BY <1>6 DEF SumOf, a, b, c, u

LEMMA SumSingle ==
  ASSUME NEW P, NEW f \in [P -> Nat], NEW e \in P PROVE SumOf(f, <<e>>) = f[e] /\ f[e] \in Nat
<1> DEFINE t == <<e>>
           w == Mapped(f, t)
<1>1. t \in Seq(P) /\ Len(t) = 1 /\ t[1] = e /\ f[e] \in Nat
  OBVIOUS
<1> HIDE DEF t
<1>2. w \in Seq(Nat) /\ Len(w) = 1 /\ w[1] = f[e]
  <2>1. w \in Seq(Nat) /\ Len(w) = Len(t) /\ \A i \in 1..Len(t) : w[i] = f[t[i]]
    BY <1>1, MappedType, Zenon
  <2> HIDE DEF w
  <2> QED
    BY <1>1, <2>1
<1> HIDE DEF w
<1>3. w = <<f[e]>>
  BY <1>1, <1>2
<1>4. SumOf(f, t) = f[e]
  BY <1>1, <1>3, TotalSingle DEF SumOf, w
<1> QED
  BY <1>1, <1>4 DEF t

LEMMA SumAppend ==
  ASSUME NEW P, NEW f \in [P -> Nat], NEW s \in Seq(P), NEW e \in P
  PROVE  SumOf(f, Append(s, e)) = SumOf(f, s) + f[e]
<1> DEFINE t == <<e>>
<1>1. Append(s, e) = s \o t /\ t \in Seq(P)
  OBVIOUS
<1>2. SumOf(f, t) = f[e]
  BY SumSingle, Zenon
<1> HIDE DEF t
<1>3. SumOf(f, s \o t) = SumOf(f, s) + SumOf(f, t)
  BY <1>1, SumConcat, Zenon
<1> QED
  BY <1>1, <1>2, <1>3

LEMMA SumTail ==
  ASSUME NEW P, NEW f \in [P -> Nat], NEW s \in Seq(P), s # <<>>
  PROVE  SumOf(f, s) = f[Head(s)] + SumOf(f, Tail(s)) /\ f[Head(s)] \in Nat
<1>1. s = <<Head(s)>> \o Tail(s) /\ <<Head(s)>> \in Seq(P) /\ Tail(s) \in Seq(P) /\ Head(s) \in P
  OBVIOUS
<1> QED
  BY <1>1, SumConcat, SumSingle

\* A sequence cut in two.
LEMMA Cut ==
  ASSUME NEW P, NEW s \in Seq(P), NEW n \in 0..Len(s)
  PROVE  /\ SubSeq(s, 1, n) \in Seq(P) /\ Len(SubSeq(s, 1, n)) = n
         /\ \A i \in 1..n : SubSeq(s, 1, n)[i] = s[i]
         /\ SubSeq(s, n + 1, Len(s)) \in Seq(P) /\ Len(SubSeq(s, n + 1, Len(s))) = Len(s) - n
         /\ \A i \in 1..(Len(s) - n) : SubSeq(s, n + 1, Len(s))[i] = s[n + i]
         /\ s = SubSeq(s, 1, n) \o SubSeq(s, n + 1, Len(s))
<1>1. Len(s) \in Nat /\ n \in Nat /\ n <= Len(s) /\ \A i \in 1..Len(s) : s[i] \in P
  OBVIOUS
<1>2. /\ SubSeq(s, 1, n) \in Seq(P) /\ Len(SubSeq(s, 1, n)) = n
      /\ \A i \in 1..n : SubSeq(s, 1, n)[i] = s[i]
  <2>1. \A i \in 1..n : s[i] \in P
    BY <1>1
  <2>2. /\ SubSeq(s, 1, n) \in Seq(P) /\ Len(SubSeq(s, 1, n)) = IF 1 <= n THEN n - 1 + 1 ELSE 0
        /\ \A i \in 1..(n - 1 + 1) : SubSeq(s, 1, n)[i] = s[1 + i - 1]
    BY <1>1, <2>1, SubSeqProperties
  <2> QED
    BY <1>1, <2>2
<1>3. /\ SubSeq(s, n + 1, Len(s)) \in Seq(P) /\ Len(SubSeq(s, n + 1, Len(s))) = Len(s) - n
      /\ \A i \in 1..(Len(s) - n) : SubSeq(s, n + 1, Len(s))[i] = s[n + i]
  <2>1. \A i \in (n + 1)..Len(s) : s[i] \in P
    BY <1>1
  <2>2. /\ SubSeq(s, n + 1, Len(s)) \in Seq(P)
        /\ Len(SubSeq(s, n + 1, Len(s)))
              = IF n + 1 <= Len(s) THEN Len(s) - (n + 1) + 1 ELSE 0
        /\ \A i \in 1..(Len(s) - (n + 1) + 1) : SubSeq(s, n + 1, Len(s))[i] = s[(n + 1) + i - 1]
    BY <1>1, <2>1, SubSeqProperties
  <2> QED
    BY <1>1, <2>2
<1>4. SubSeq(s, 1, n) \o SubSeq(s, n + 1, Len(s)) = SubSeq(s, 1, Len(s))
  <2>1. 1 \in 1..(Len(s) + 1) /\ n \in (1 - 1)..Len(s) /\ Len(s) \in n..Len(s)
    BY <1>1
  <2> QED
    BY <2>1, ConcatAdjacentSubSeq, Zenon
<1> QED
  BY <1>2, <1>3, <1>4, SubSeqFull

LEMMA SumCut ==
  ASSUME NEW P, NEW f \in [P -> Nat], NEW s \in Seq(P), NEW n \in 0..Len(s)
  PROVE  SumOf(f, s) = SumOf(f, SubSeq(s, 1, n)) + SumOf(f, SubSeq(s, n + 1, Len(s)))
<1> DEFINE a == SubSeq(s, 1, n)
           b == SubSeq(s, n + 1, Len(s))
<1>1. a \in Seq(P) /\ b \in Seq(P) /\ s = a \o b
  BY Cut, Zenon
<1> HIDE DEF a, b
<1>2. SumOf(f, a \o b) = SumOf(f, a) + SumOf(f, b)
  BY <1>1, SumConcat, Zenon
<1> QED
  BY <1>1, <1>2 DEF a, b

\* One element is taken out.
Out(s, i) == SubSeq(s, 1, i - 1) \o SubSeq(s, i + 1, Len(s))

LEMMA TakenOut ==
  ASSUME NEW P, NEW s \in Seq(P), NEW i \in 1..Len(s)
  PROVE  /\ Out(s, i) \in Seq(P) /\ Len(Out(s, i)) = Len(s) - 1 /\ s[i] \in P
         /\ \A j \in 1..Len(Out(s, i)) : Out(s, i)[j] = IF j < i THEN s[j] ELSE s[j + 1]
<1> DEFINE a == SubSeq(s, 1, i - 1)
           b == SubSeq(s, i + 1, Len(s))
<1>1. Len(s) \in Nat /\ i - 1 \in 0..Len(s) /\ i \in 0..Len(s) /\ i \in Nat /\ s[i] \in P
  OBVIOUS
<1>2. /\ a \in Seq(P) /\ Len(a) = i - 1 /\ \A j \in 1..(i - 1) : a[j] = s[j]
      /\ b \in Seq(P) /\ Len(b) = Len(s) - i /\ \A j \in 1..(Len(s) - i) : b[j] = s[i + j]
  BY <1>1, Cut
<1> HIDE DEF a, b
<1>3. /\ a \o b \in Seq(P) /\ Len(a \o b) = Len(s) - 1
      /\ \A j \in 1..(Len(s) - 1) : (a \o b)[j] = IF j <= i - 1 THEN a[j] ELSE b[j - (i - 1)]
  BY <1>1, <1>2, ConcatProperties
<1>4. ASSUME NEW j \in 1..(Len(s) - 1) PROVE (a \o b)[j] = IF j < i THEN s[j] ELSE s[j + 1]
  <2>1. CASE j < i
    BY <1>1, <1>2, <1>3, <2>1
  <2>2. CASE ~(j < i)
    <3>1. j - (i - 1) \in 1..(Len(s) - i) /\ i + (j - (i - 1)) = j + 1 /\ ~(j <= i - 1)
      BY <1>1, <2>2
    <3> QED
      BY <1>2, <1>3, <2>2, <3>1
  <2> QED
    BY <2>1, <2>2
<1> QED
  BY <1>1, <1>3, <1>4 DEF Out, a, b

LEMMA SumOut ==
  ASSUME NEW P, NEW f \in [P -> Nat], NEW s \in Seq(P), NEW i \in 1..Len(s)
  PROVE  SumOf(f, s) = f[s[i]] + SumOf(f, Out(s, i)) /\ f[s[i]] \in Nat
<1>1. Len(s) \in Nat /\ i \in 0..Len(s) /\ i - 1 \in 0..Len(s) /\ s[i] \in P /\ i \in Nat
      /\ 1 \in 1..Len(s) /\ i \in 1..Len(s)
  OBVIOUS
<1>2. SubSeq(s, 1, i) = SubSeq(s, 1, i - 1) \o <<s[i]>>
  BY <1>1, SubSeqRecursiveSecond
<1>3. /\ SubSeq(s, 1, i - 1) \in Seq(P) /\ SubSeq(s, i + 1, Len(s)) \in Seq(P)
      /\ <<s[i]>> \in Seq(P)
  BY <1>1, Cut
<1>4. SumOf(f, s) = SumOf(f, SubSeq(s, 1, i)) + SumOf(f, SubSeq(s, i + 1, Len(s)))
  BY <1>1, SumCut
<1>5. SumOf(f, SubSeq(s, 1, i)) = SumOf(f, SubSeq(s, 1, i - 1)) + f[s[i]] /\ f[s[i]] \in Nat
  <2> DEFINE a == SubSeq(s, 1, i - 1)
             b == <<s[i]>>
  <2>1. a \in Seq(P) /\ b \in Seq(P)
    BY <1>3
  <2>2. SumOf(f, b) = f[s[i]] /\ f[s[i]] \in Nat
    BY <1>1, SumSingle, Zenon
  <2> HIDE DEF a, b
  <2>3. SumOf(f, a \o b) = SumOf(f, a) + SumOf(f, b)
    BY <2>1, SumConcat, Zenon
  <2> QED
    BY <1>2, <2>2, <2>3 DEF a, b
<1>6. SumOf(f, Out(s, i)) = SumOf(f, SubSeq(s, 1, i - 1)) + SumOf(f, SubSeq(s, i + 1, Len(s)))
  BY <1>3, SumConcat DEF Out
<1>7. /\ SumOf(f, SubSeq(s, 1, i - 1)) \in Nat /\ SumOf(f, SubSeq(s, i + 1, Len(s))) \in Nat
  BY <1>3, SumType
<1> QED
  BY <1>4, <1>5, <1>6, <1>7

\* Nothing adds up to nothing.
LEMMA SumZero ==
  ASSUME NEW P, NEW f \in [P -> Nat], NEW s \in Seq(P), \A i \in 1..Len(s) : f[s[i]] = 0
  PROVE  SumOf(f, s) = 0
<1> DEFINE w == Mapped(f, s)
           n == Len(w)
<1>1. w \in Seq(Nat) /\ n \in Nat /\ \A i \in 1..n : w[i] = 0
  BY MappedType
<1>2. PICK g : PrefixSums(w, n, g) /\ Total(w) = g[n]
  BY <1>1, TotalIsLast
<1> HIDE DEF w, n
<1>3. g[0] = 0 /\ \A i \in 1..n : g[i] = g[i - 1] + 0
  BY <1>1, <1>2 DEF PrefixSums
<1> DEFINE S == {i \in 0..n : g[i] = 0}
<1>4. 0 \in S
  BY <1>1, <1>3
<1>5. \A i \in 1..n : i - 1 \in S => i \in S
  BY <1>1, <1>3
<1> HIDE DEF S
<1>6. \A i \in 0..n : i \in S
  BY <1>1, <1>4, <1>5, Induction
<1>7. n \in S
  BY <1>1, <1>6
<1> QED
  BY <1>2, <1>7 DEF S, SumOf, w
=============================================================================
