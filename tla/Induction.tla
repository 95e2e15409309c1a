----------------------------- MODULE Induction -----------------------------
(***************************************************************************)
(* Induction over the natural numbers as a statement about sets, and       *)
(* definition by primitive recursion, for the recursive functions by which *)
(* the models translate the loops of the code (Manager.all, LoadFromFile,  *)
(* readTLSPayload under ReadExactly).                                      *)
(***************************************************************************)
EXTENDS Naturals, WellFoundedInduction, TLAPS

(* Every set of natural numbers that is not empty has a least member.      *)
LEMMA LeastNatural ==
  ASSUME NEW T, T \subseteq Nat, T # {}
  PROVE  \E n \in T : \A m \in T : n <= m
<1> DEFINE R == OpToRel(<, Nat)
<1>1. IsWellFoundedOn(R, Nat)
  BY NatLessThanWellFounded
<1>2. PICK n \in T : \A m \in T : <<m, n>> \notin R
  <2> HIDE DEF R
  <2> QED BY <1>1, WFMin
<1>3. ASSUME NEW m \in T PROVE n <= m
  <2>1. m \in Nat /\ n \in Nat OBVIOUS
  <2>2. m < n => <<m, n>> \in R
    BY <2>1 DEF OpToRel
  <2>3. ~(m < n) BY <2>2, <1>2
  <2> HIDE DEF R
  <2> QED BY <2>1, <2>3
<1> HIDE DEF R
<1> QED BY <1>3

(* A set that holds zero and the successor of each natural number in it    *)
(* holds them all.                                                         *)
LEMMA NaturalInduction ==
  ASSUME NEW T, 0 \in T, \A n \in Nat : n \in T => n + 1 \in T
  PROVE  \A n \in Nat : n \in T
<1> DEFINE U == Nat \ T
<1> SUFFICES ASSUME U # {} PROVE FALSE OBVIOUS
<1>1. PICK n \in U : \A m \in U : n <= m
  BY LeastNatural
<1>2. n # 0 /\ n \in Nat OBVIOUS
<1>3. n - 1 \in Nat /\ n - 1 < n /\ n - 1 + 1 = n BY <1>2
<1>4. n - 1 \in T BY <1>1, <1>3
<1> QED BY <1>1, <1>3, <1>4

-----------------------------------------------------------------------------
(* The same up to a bound, for the steps of a loop.                        *)
LEMMA LoopInduction ==
  ASSUME NEW N \in Nat, NEW T, 0 \in T,
         \A n \in 0..(N - 1) : n \in T => n + 1 \in T
  PROVE  \A n \in 0..N : n \in T
<1> DEFINE U == {n \in Nat : n <= N => n \in T}
<1>1. 0 \in U OBVIOUS
<1>2. ASSUME NEW n \in Nat, n \in U PROVE n + 1 \in U
  <2> SUFFICES ASSUME n + 1 <= N PROVE n + 1 \in T OBVIOUS
  <2>1. n \in 0..(N - 1) /\ n \in T BY <1>2
  <2> QED BY <2>1
<1>3. \A n \in Nat : n \in U
  <2> HIDE DEF U
  <2> QED BY <1>1, <1>2, NaturalInduction
<1> QED BY <1>3

(* The values of a loop that starts with c and takes the step g.           *)
Iterates(f, S, c, g) ==
  /\ f \in [Nat -> S] /\ f[0] = c
  /\ \A n \in Nat : f[n + 1] = g[<<n, f[n]>>]

(* A value c and a step g define a sequence of values.                     *)
LEMMA PrimitiveRecursion ==
  ASSUME NEW S, NEW c \in S, NEW g \in [Nat \X S -> S]
  PROVE  \E f : Iterates(f, S, c, g)
<1> DEFINE Upto(n, h) ==
      /\ h \in [0..n -> S] /\ h[0] = c
      /\ \A m \in 0..(n - 1) : h[m + 1] = g[<<m, h[m]>>]
<1>1. \A n \in Nat : \E h : Upto(n, h)
  <2> DEFINE T == {n \in Nat : \E h : Upto(n, h)}
  <2>1. 0 \in T
    <3>1. Upto(0, [m \in 0..0 |-> c]) OBVIOUS
    <3> QED BY <3>1
  <2>2. ASSUME NEW n \in Nat, n \in T PROVE n + 1 \in T
    <3>1. PICK h : Upto(n, h) BY <2>2
    <3> DEFINE k == [m \in 0..(n + 1) |-> IF m = n + 1 THEN g[<<n, h[n]>>] ELSE h[m]]
    <3>2. h[n] \in S /\ g[<<n, h[n]>>] \in S BY <3>1
    <3>3. k \in [0..(n + 1) -> S]
      BY <3>1, <3>2
    <3>4. k[0] = c BY <3>1
    <3>5. ASSUME NEW m \in 0..(n + 1 - 1) PROVE k[m + 1] = g[<<m, k[m]>>]
      <4>1. m \in Nat /\ m <= n /\ m + 1 \in 0..(n + 1) BY <3>5
      <4>2. k[m] = h[m] BY <4>1
      <4>3. CASE m = n BY <4>1, <4>2, <4>3
      <4>4. CASE m # n
        <5>1. m \in 0..(n - 1) /\ m + 1 # n + 1 BY <4>1, <4>4
        <5>2. k[m + 1] = h[m + 1] BY <4>1, <5>1
        <5> HIDE DEF k
        <5> QED BY <3>1, <4>2, <5>1, <5>2
      <4> QED BY <4>3, <4>4
    <3>6. Upto(n + 1, k)
      <4> HIDE DEF k
      <4> QED BY <3>3, <3>4, <3>5
    <3> HIDE DEF k, Upto
    <3> QED BY <3>6
  <2>3. \A n \in Nat : n \in T
    <3> HIDE DEF T
    <3> QED BY <2>1, <2>2, NaturalInduction
  <2> QED BY <2>3
<1>2. \A i \in Nat : \A n, m \in Nat : \A h, k :
        i <= n /\ i <= m /\ Upto(n, h) /\ Upto(m, k) => h[i] = k[i]
  <2> DEFINE T == {i \in Nat : \A n, m \in Nat : \A h, k :
                     i <= n /\ i <= m /\ Upto(n, h) /\ Upto(m, k) => h[i] = k[i]}
  <2>1. 0 \in T OBVIOUS
  <2>2. ASSUME NEW i \in Nat, i \in T PROVE i + 1 \in T
    <3> SUFFICES ASSUME NEW n \in Nat, NEW m \in Nat, NEW h, NEW k,
                        i + 1 <= n, i + 1 <= m, Upto(n, h), Upto(m, k)
                 PROVE  h[i + 1] = k[i + 1]
      OBVIOUS
    <3>1. h[i] = k[i] BY <2>2
    <3>2. i \in 0..(n - 1) /\ i \in 0..(m - 1) OBVIOUS
    <3> QED BY <3>1, <3>2
  <2>3. \A i \in Nat : i \in T
    <3> HIDE DEF T
    <3> QED BY <2>1, <2>2, NaturalInduction
  <2> QED BY <2>3
<1> DEFINE H(n) == CHOOSE h : Upto(n, h)
           f == [n \in Nat |-> H(n)[n]]
<1>3. \A n \in Nat : Upto(n, H(n))
  <2> HIDE DEF Upto
  <2> QED BY <1>1
<1>4. f \in [Nat -> S] /\ f[0] = c
  <2>1. ASSUME NEW n \in Nat PROVE H(n)[n] \in S
    <3> HIDE DEF H
    <3> QED BY <1>3
  <2>2. H(0)[0] = c
    <3> HIDE DEF H
    <3> QED BY <1>3
  <2> HIDE DEF H
  <2> QED BY <2>1, <2>2
<1>5. ASSUME NEW n \in Nat PROVE f[n + 1] = g[<<n, f[n]>>]
  <2> HIDE DEF H
  <2>1. H(n + 1)[n + 1] = g[<<n, H(n + 1)[n]>>]
    BY <1>3
  <2>2. H(n + 1)[n] = H(n)[n]
    <3>1. n + 1 \in Nat /\ n <= n + 1 /\ n <= n OBVIOUS
    <3>2. Upto(n, H(n)) /\ Upto(n + 1, H(n + 1)) BY <1>3, <3>1
    <3> HIDE DEF Upto
    <3> QED BY <1>2, <3>1, <3>2
  <2> QED BY <2>1, <2>2
<1>6. Iterates(f, S, c, g)
  <2> HIDE DEF f
  <2> QED BY <1>4, <1>5 DEF Iterates
<1> HIDE DEF f
<1> QED BY <1>6

(* The values of a loop of N passes, whose n-th pass is g of n.            *)
Passes(f, S, c, N, g) ==
  /\ f \in [0..N -> S] /\ f[0] = c
  /\ \A n \in 1..N : f[n] = g[<<n, f[n - 1]>>]

(* They exist as well.                                                     *)
LEMMA LoopRecursion ==
  ASSUME NEW S, NEW c \in S, NEW N \in Nat, NEW g \in [(1..N) \X S -> S]
  PROVE  \E f : Passes(f, S, c, N, g)
<1> DEFINE Pass(n, s) == IF n < N THEN g[<<n + 1, s>>] ELSE s
           k == [x \in Nat \X S |-> Pass(x[1], x[2])]
<1>1. k \in [Nat \X S -> S]
  <2>1. ASSUME NEW n \in Nat, NEW s \in S PROVE Pass(n, s) \in S
    <3>1. CASE n < N
      <4>1. n + 1 \in 1..N BY <3>1
      <4> QED BY <3>1, <4>1
    <3> QED BY <3>1
  <2> HIDE DEF Pass
  <2> QED BY <2>1
<1>2. PICK f : Iterates(f, S, c, k)
  <2> HIDE DEF k
  <2> QED BY <1>1, PrimitiveRecursion
<1> DEFINE h == [n \in 0..N |-> f[n]]
<1>3. h \in [0..N -> S] /\ h[0] = c BY <1>2 DEF Iterates
<1>4. ASSUME NEW n \in 1..N PROVE h[n] = g[<<n, h[n - 1]>>]
  <2>1. n - 1 \in Nat /\ n - 1 \in 0..N /\ n \in 0..N /\ (n - 1) + 1 = n /\ n - 1 < N
    OBVIOUS
  <2>2. f[n] = k[<<n - 1, f[n - 1]>>]
    <3> HIDE DEF k
    <3> QED BY <1>2, <2>1 DEF Iterates
  <2>3. k[<<n - 1, f[n - 1]>>] = Pass(n - 1, f[n - 1])
    <3> HIDE DEF Pass
    <3> QED BY <1>2, <2>1 DEF Iterates
  <2>4. h[n] = f[n] /\ h[n - 1] = f[n - 1] BY <2>1
  <2> HIDE DEF h, k
  <2> QED BY <2>1, <2>2, <2>3, <2>4
<1>5. Passes(h, S, c, N, g)
  <2> HIDE DEF h
  <2> QED BY <1>3, <1>4 DEF Passes
<1> HIDE DEF h
<1> QED BY <1>5
=============================================================================
