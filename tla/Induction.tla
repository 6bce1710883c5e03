------------------------------ MODULE Induction -----------------------------
(***************************************************************************)
(* Induction over the naturals in the form that needs no operator as a     *)
(* parameter: over a set of numbers.                                       *)
(***************************************************************************)
EXTENDS Integers, Sequences, WellFoundedInduction, TLAPS

\* A set of natural numbers with a member has a least one.
LEMMA LeastNumber ==
  ASSUME NEW S \in SUBSET Nat, S # {}
  PROVE  \E n \in S : \A m \in S : n <= m
<1> DEFINE R == OpToRel(<, Nat)
<1>1. IsWellFoundedOn(R, Nat)
  BY NatLessThanWellFounded
<1>2. PICK n \in S : \A m \in S : ~ (<<m, n>> \in R)
  BY <1>1, WFMin
<1>3. \A m \in S : m \in Nat /\ n \in Nat /\ <<m, n>> \in Nat \X Nat
  OBVIOUS
<1>4. \A m \in S : ~ (m < n)
  BY <1>2, <1>3 DEF OpToRel
<1> QED
  BY <1>4

\* A set that holds 0, and the successor of every number it holds, holds all.
LEMMA SetInduction ==
  ASSUME NEW S, 0 \in S, \A n \in Nat : n \in S => n + 1 \in S
  PROVE  Nat \subseteq S
<1> SUFFICES ASSUME NEW k \in Nat, k \notin S PROVE FALSE
  OBVIOUS
<1>1. Nat \ S \in SUBSET Nat /\ Nat \ S # {}
  OBVIOUS
<1>2. PICK n \in Nat \ S : \A m \in Nat \ S : n <= m
  BY <1>1, LeastNumber
<1>3. n # 0 /\ n - 1 \in Nat /\ n - 1 + 1 = n /\ ~ (n <= n - 1)
  BY <1>2
<1> QED
  BY <1>2, <1>3

\* Of the numbers of a set that are at most v, one is the greatest.
LEMMA GreatestUpTo ==
  ASSUME NEW S \in SUBSET Nat, NEW v \in Nat, NEW q0 \in S, q0 <= v
  PROVE  \E n \in S : n <= v /\ \A q \in S : q <= v => q <= n
<1> DEFINE D == {d \in Nat : \E q \in S : q + d = v}
<1>1. v - q0 \in D
  BY q0 + (v - q0) = v, v - q0 \in Nat
<1>2. PICK d \in D : \A e \in D : d <= e
  BY <1>1, LeastNumber
<1>3. PICK n \in S : n + d = v
  BY <1>2
<1>4. ASSUME NEW q \in S, q <= v
      PROVE  q <= n
  <2>1. q + (v - q) = v /\ v - q \in Nat
    BY <1>4
  <2>2. d <= v - q
    BY <1>2, <2>1
  <2> QED
    BY <1>3, <2>2
<1>5. d \in Nat
  BY <1>2
<1> QED
  BY <1>3, <1>4, <1>5

-----------------------------------------------------------------------------
(* Functions defined by recursion: step[<<n, x>>] is the value at n + 1    *)
(* where x is the value at n.                                              *)

\* The first n values of one.
Unfolds(g, n, start, step) ==
  g[0] = start /\ \A k \in 0 .. (n - 1) : g[k + 1] = step[<<k, g[k]>>]

\* One that starts in V, by steps that stay in V, has values in V.
LEMMA UnfoldingsExist ==
  ASSUME NEW V, NEW start \in V, NEW step \in [Nat \X V -> V], NEW n \in Nat
  PROVE  \E g \in [0 .. n -> V] : Unfolds(g, n, start, step)
<1> DEFINE S == {k \in Nat : \E g \in [0 .. k -> V] : Unfolds(g, k, start, step)}
<1>1. 0 \in S
  <2> DEFINE g == [k \in 0 .. 0 |-> start]
  <2>1. g \in [0 .. 0 -> V] /\ Unfolds(g, 0, start, step)
    BY DEF Unfolds
  <2> QED
    BY <2>1
<1>2. ASSUME NEW k \in Nat, k \in S
      PROVE  k + 1 \in S
  <2>1. PICK g \in [0 .. k -> V] : Unfolds(g, k, start, step)
    BY <1>2
  <2> DEFINE h == [j \in 0 .. (k + 1) |-> IF j = k + 1 THEN step[<<k, g[k]>>] ELSE g[j]]
  <2>2. h \in [0 .. (k + 1) -> V]
    <3> SUFFICES ASSUME NEW j \in 0 .. (k + 1) PROVE h[j] \in V
      OBVIOUS
    <3>1. CASE j = k + 1
      <4>1. g[k] \in V /\ <<k, g[k]>> \in Nat \X V
        OBVIOUS
      <4> QED
        BY <3>1, <4>1
    <3>2. CASE j # k + 1
      BY <3>2
    <3> QED
      BY <3>1, <3>2
  <2>3. h[0] = start
    BY <2>1 DEF Unfolds
  <2>4. ASSUME NEW j \in 0 .. (k + 1 - 1) PROVE h[j + 1] = step[<<j, h[j]>>]
    <3>0. \A i \in 0 .. k : h[i] = g[i]
      OBVIOUS
    <3>1. CASE j = k
      <4>1. h[k + 1] = step[<<k, g[k]>>] /\ k \in 0 .. k
        OBVIOUS
      <4> HIDE DEF h
      <4> QED
        BY <3>0, <3>1, <4>1
    <3>2. CASE j # k
      <4>1. j \in 0 .. (k - 1) /\ j + 1 \in 0 .. k /\ j \in 0 .. k
        BY <3>2
      <4>2. g[j + 1] = step[<<j, g[j]>>]
        BY <2>1, <4>1 DEF Unfolds
      <4> HIDE DEF h
      <4> QED
        BY <3>0, <4>1, <4>2
    <3> QED
      BY <3>1, <3>2
  <2> HIDE DEF h
  <2>5. Unfolds(h, k + 1, start, step)
    BY <2>3, <2>4 DEF Unfolds
  <2> QED
    BY <2>2, <2>5
<1> HIDE DEF S
<1>3. Nat \subseteq S
  BY <1>1, <1>2, SetInduction
<1> QED
  BY <1>3 DEF S

\* The same where an element depends on all before it: step[<<x1, ..., xn>>] is
\* the one after x1, ..., xn.
Grows(f, n, step) == \A i \in 1 .. n : f[i] = step[[j \in 1 .. (i - 1) |-> f[j]]]

LEMMA SequencesGrow ==
  ASSUME NEW V, NEW step \in [Seq(V) -> V], NEW n \in Nat
  PROVE  \E f \in [1 .. n -> V] : Grows(f, n, step)
<1> DEFINE S == {k \in Nat : \E f \in [1 .. k -> V] : Grows(f, k, step)}
<1>1. 0 \in S
  <2> DEFINE f == [i \in 1 .. 0 |-> step[<<>>]]
  <2>1. f \in [1 .. 0 -> V]
    OBVIOUS
  <2>2. \A i \in 1 .. 0 : FALSE
    OBVIOUS
  <2> HIDE DEF f
  <2> QED
    BY <2>1, <2>2 DEF Grows
<1>2. ASSUME NEW k \in Nat, k \in S
      PROVE  k + 1 \in S
  <2>0. PICK f \in [1 .. k -> V] : Grows(f, k, step)
    BY <1>2
  <2>1. \A i \in 1 .. k : f[i] = step[[j \in 1 .. (i - 1) |-> f[j]]]
    BY <2>0 DEF Grows
  <2> DEFINE h == [i \in 1 .. (k + 1) |-> IF i = k + 1 THEN step[f] ELSE f[i]]
  <2>2. f \in Seq(V)
    BY <2>1
  <2>3. h \in [1 .. (k + 1) -> V]
    BY <2>1, <2>2
  <2>4. h[k + 1] = step[f] /\ \A i \in 1 .. k : h[i] = f[i]
    OBVIOUS
  <2> HIDE DEF h
  <2>5. ASSUME NEW i \in 1 .. (k + 1) PROVE h[i] = step[[j \in 1 .. (i - 1) |-> h[j]]]
    <3>1. CASE i = k + 1
      <4>1. [j \in 1 .. k |-> h[j]] = f /\ (k + 1) - 1 = k
        BY <2>1, <2>4
      <4> QED
        BY <2>4, <3>1, <4>1
    <3>2. CASE i # k + 1
      <4>1. i \in 1 .. k /\ \A j \in 1 .. (i - 1) : j \in 1 .. k
        BY <3>2
      <4>2. [j \in 1 .. (i - 1) |-> h[j]] = [j \in 1 .. (i - 1) |-> f[j]]
        BY <2>4, <4>1
      <4> QED
        BY <2>1, <2>4, <4>1, <4>2
    <3> QED
      BY <3>1, <3>2
  <2>6. Grows(h, k + 1, step)
    BY <2>5 DEF Grows
  <2> QED
    BY <2>3, <2>6
<1> HIDE DEF S
<1>3. Nat \subseteq S
  BY <1>1, <1>2, SetInduction
<1> QED
  BY <1>3 DEF S

=============================================================================
