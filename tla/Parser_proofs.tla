---------------------------- MODULE Parser_proofs ----------------------------
(***************************************************************************)
(* Proofs about module Parser: whatever the schema, what the parser        *)
(* accepts has at every version one body in force, whose items are all     *)
(* that is seen there; and the members of an enum are numbered as that     *)
(* body numbers them.                                                      *)
(***************************************************************************)
EXTENDS Parser, Induction

-----------------------------------------------------------------------------
(* Facts about the operators.                                              *)

LEMMA PlacesAre ==
  ASSUME NEW s, NEW p
  PROVE  p \in Places(s) <=>
           \E m \in 1 .. Len(s.modules) : \E g \in 1 .. Len(s.modules[m].groups) : p = <<m, g>>
BY DEF Places

LEMMA SchemaFacts ==
  ASSUME NEW s, IsSchema(s), NEW p \in Places(s)
  PROVE  /\ Len(Bodies(s, p)) \in Nat \ {0}
         /\ DOMAIN Bodies(s, p) = 1 .. Len(Bodies(s, p))
         /\ DOMAIN Spans(s, p) = 1 .. Len(Bodies(s, p))
         /\ \A k \in 1 .. Len(Bodies(s, p)) : IsRange(Spans(s, p)[k])
<1> DEFINE b == Bodies(s, p)
<1>1. b \in Seq(Elements(b)) /\ b # <<>> /\ \A k \in DOMAIN b : IsRange(Spans(s, p)[k])
  BY DEF IsSchema, IsSequence
<1>2. Len(b) \in Nat \ {0} /\ DOMAIN b = 1 .. Len(b)
  <2> HIDE DEF b
  <2> QED
    BY <1>1
<1>3. DOMAIN Spans(s, p) = DOMAIN b
  BY DEF Spans
<1> QED
  BY <1>1, <1>2, <1>3

\* Appending a sequence makes a sequence, and of the elements of both.
LEMMA Appended ==
  ASSUME NEW s, NEW t, IsSequence(s), IsSequence(t)
  PROVE  /\ IsSequence(s \o t)
         /\ \A x \in Elements(s \o t) : x \in Elements(s) \/ x \in Elements(t)
<1> DEFINE S == Elements(s) T == Elements(t) U == S \cup T
<1>1. s \in Seq(S) /\ t \in Seq(T)
  BY DEF IsSequence
<1> HIDE DEF S, T
<1>2. s \in Seq(U) /\ t \in Seq(U)
  BY <1>1
<1>3. s \o t \in Seq(U) /\ \A i \in 1 .. Len(s \o t) : (s \o t)[i] \in U
  BY <1>2
<1>4. Elements(s \o t) \subseteq U
  BY <1>3 DEF Elements
<1> DEFINE st == s \o t
<1> HIDE DEF st, U
<1>5. st \in Seq(Elements(st))
  <2>1. st \in Seq(U)
    BY <1>3 DEF st
  <2>2. Len(st) \in Nat /\ st = [i \in 1 .. Len(st) |-> st[i]]
    BY <2>1
  <2>3. \A i \in 1 .. Len(st) : st[i] \in Elements(st)
    BY DEF Elements
  <2> QED
    BY <2>2, <2>3
<1> QED
  BY <1>4, <1>5 DEF IsSequence, S, T, U, st

\* What a body adds: a part for each item.
LEMMA PartsAre ==
  ASSUME NEW s, IsSchema(s), NEW p \in Places(s), NEW k \in 1 .. Len(Bodies(s, p)),
         NEW items, items = Bodies(s, p)[k].items
  PROVE  /\ IsRange(Spans(s, p)[k])
         /\ items \in Seq(Elements(items)) /\ Len(items) \in Nat /\ DOMAIN items = 1 .. Len(items)
         /\ \A i \in 1 .. Len(items) : IsRange(items[i])
         /\ PartsOf(s, p, k) \in Seq(Elements(PartsOf(s, p, k))) /\ Len(PartsOf(s, p, k)) = Len(items)
         /\ \A i \in 1 .. Len(items) :
              PartsOf(s, p, k)[i] = Part(k, i, Number(s, p, k, i), Tighten(items[i], Spans(s, p)[k]))
<1> DEFINE parts == PartsOf(s, p, k)
           range == Spans(s, p)[k]
<1>1. k \in DOMAIN Bodies(s, p) /\ IsRange(range)
  BY SchemaFacts
<1>2. items \in Seq(Elements(items)) /\ \A i \in DOMAIN items : IsRange(items[i])
  BY <1>1 DEF IsSchema, IsSequence
<1>3. parts = [i \in DOMAIN items |-> Part(k, i, Number(s, p, k, i), Tighten(items[i], range))]
  BY DEF PartsOf, PartsOver
<1> HIDE DEF parts, range
<1>4. Len(items) \in Nat /\ DOMAIN items = 1 .. Len(items)
  BY <1>2
<1>5. DOMAIN parts = 1 .. Len(items) /\ Len(parts) = Len(items)
  BY <1>3, <1>4
<1>6. parts \in Seq(Elements(parts))
  BY <1>3, <1>4, <1>5 DEF Elements
<1> QED
  BY <1>1, <1>2, <1>3, <1>4, <1>5, <1>6 DEF parts, range

\* What a body adds lies in the body's range.
LEMMA PartsLie ==
  ASSUME NEW s, IsSchema(s), NEW p \in Places(s), NEW k \in 1 .. Len(Bodies(s, p))
  PROVE  /\ IsSequence(PartsOf(s, p, k))
         /\ \A x \in Elements(PartsOf(s, p, k)) :
              /\ x.body = k /\ IsRange(x)
              /\ Spans(s, p)[k].since <= x.since /\ x.until <= Spans(s, p)[k].until
<1> DEFINE items == Bodies(s, p)[k].items
           parts == PartsOf(s, p, k)
           range == Spans(s, p)[k]
<1>1. /\ IsRange(range) /\ Len(items) \in Nat
      /\ parts \in Seq(Elements(parts)) /\ Len(parts) = Len(items)
      /\ \A i \in 1 .. Len(items) : IsRange(items[i])
      /\ \A i \in 1 .. Len(items) :
           parts[i] = Part(k, i, Number(s, p, k, i), Tighten(items[i], range))
  BY PartsAre
<1> HIDE DEF items, parts, range
<1>2. DOMAIN parts = 1 .. Len(items)
  BY <1>1
<1>3. ASSUME NEW i \in 1 .. Len(items)
      PROVE  /\ parts[i].body = k /\ IsRange(parts[i])
             /\ range.since <= parts[i].since /\ parts[i].until <= range.until
  <2>1. IsRange(items[i]) /\ IsRange(range)
    BY <1>1
  <2>2. parts[i] = Part(k, i, Number(s, p, k, i), Tighten(items[i], range))
    BY <1>1
  <2> QED
    BY <2>1, <2>2, OpenAssumption DEF Part, Tighten, Later, Earlier, IsRange
<1> QED
  BY <1>1, <1>2, <1>3 DEF Elements, IsSequence, parts, range

-----------------------------------------------------------------------------
(* Selecting from a sequence.                                              *)

\* Two sequences of the same elements are one.
LEMMA SameSequence ==
  ASSUME NEW T, NEW xs \in Seq(T), NEW ys \in Seq(T), Len(xs) = Len(ys),
         \A i \in 1 .. Len(xs) : xs[i] = ys[i]
  PROVE  xs = ys
OBVIOUS

LEMMA NothingAdded ==
  ASSUME NEW T, NEW xs \in Seq(T)
  PROVE  xs \o <<>> = xs /\ <<>> \o xs = xs
<1>1. /\ xs \o <<>> \in Seq(T) /\ Len(xs \o <<>>) = Len(xs)
      /\ \A i \in 1 .. Len(xs) : (xs \o <<>>)[i] = xs[i]
  OBVIOUS
<1>2. /\ <<>> \o xs \in Seq(T) /\ Len(<<>> \o xs) = Len(xs)
      /\ \A i \in 1 .. Len(xs) : (<<>> \o xs)[i] = xs[i]
  OBVIOUS
<1> DEFINE us == xs \o <<>> vs == <<>> \o xs
<1>3. us = xs
  <2> HIDE DEF us
  <2> QED
    BY <1>1, SameSequence DEF us
<1>4. vs = xs
  <2> HIDE DEF vs
  <2> QED
    BY <1>2, SameSequence DEF vs
<1> QED
  BY <1>3, <1>4

AddsLast(xs, ys, y) == Append(xs \o ys, y) = xs \o Append(ys, y)

LEMMA AddedLast ==
  ASSUME NEW T, NEW xs \in Seq(T), NEW ys \in Seq(T), NEW y \in T
  PROVE  AddsLast(xs, ys, y)
<1> DEFINE us == Append(xs \o ys, y) vs == xs \o Append(ys, y)
           n == Len(xs) + Len(ys)
<1>1. /\ xs \o ys \in Seq(T) /\ Len(xs \o ys) = n
      /\ Append(ys, y) \in Seq(T) /\ Len(Append(ys, y)) = Len(ys) + 1
      /\ Len(xs) \in Nat /\ Len(ys) \in Nat
  OBVIOUS
<1>2. us \in Seq(T) /\ vs \in Seq(T) /\ Len(us) = n + 1 /\ Len(vs) = n + 1
  BY <1>1
<1>3. ASSUME NEW i \in 1 .. (n + 1) PROVE us[i] = vs[i]
  <2>1. CASE i \in 1 .. Len(xs)
    <3>1. i \in 1 .. n
      BY <1>1, <2>1
    <3>2. us[i] = (xs \o ys)[i]
      BY <1>1, <3>1
    <3>3. (xs \o ys)[i] = xs[i] /\ vs[i] = xs[i]
      BY <1>1, <2>1
    <3> QED
      BY <3>2, <3>3
  <2>2. CASE i \in (Len(xs) + 1) .. n
    <3>1. i \in 1 .. n /\ i - Len(xs) \in 1 .. Len(ys)
      BY <1>1, <2>2
    <3>2. us[i] = (xs \o ys)[i]
      BY <1>1, <3>1
    <3>3. (xs \o ys)[i] = ys[i - Len(xs)]
      BY <1>1, <2>2
    <3>4. vs[i] = Append(ys, y)[i - Len(xs)]
      BY <1>1, <2>2
    <3>5. Append(ys, y)[i - Len(xs)] = ys[i - Len(xs)]
      BY <3>1
    <3> QED
      BY <3>2, <3>3, <3>4, <3>5
  <2>3. CASE i = n + 1
    <3>1. us[i] = y
      BY <1>1, <2>3
    <3>2. vs[i] = Append(ys, y)[i - Len(xs)] /\ i - Len(xs) = Len(ys) + 1
      BY <1>1, <2>3
    <3>3. Append(ys, y)[Len(ys) + 1] = y
      OBVIOUS
    <3> QED
      BY <3>1, <3>2, <3>3
  <2> QED
    BY <1>1, <2>1, <2>2, <2>3
<1> HIDE DEF us, vs, n
<1>4. us = vs
  BY <1>2, <1>3, SameSequence
<1> QED
  BY <1>4 DEF AddsLast, us, vs

\* g[n] are the selected among the first n.
Selects(g, xs, S) ==
  /\ g[0] = <<>>
  /\ \A n \in 1 .. Len(xs) : g[n] = IF n \in S THEN Append(g[n - 1], xs[n]) ELSE g[n - 1]

LEMMA SelectedUnfolds ==
  ASSUME NEW T, NEW xs \in Seq(T), NEW S
  PROVE  \E g \in [0 .. Len(xs) -> Seq(T)] : Selects(g, xs, S) /\ Selected(xs, S) = g[Len(xs)]
<1> DEFINE len == Len(xs)
           step == [ny \in Nat \X Seq(T) |->
                      IF ny[1] + 1 \in S /\ ny[1] + 1 <= len THEN Append(ny[2], xs[ny[1] + 1]) ELSE ny[2]]
           F(f) == [n \in 0 .. len |->
                      IF n = 0 THEN <<>> ELSE IF n \in S THEN Append(f[n - 1], xs[n]) ELSE f[n - 1]]
           to == CHOOSE f : f = F(f)
<1>1. len \in Nat /\ <<>> \in Seq(T)
  OBVIOUS
<1>2. step \in [Nat \X Seq(T) -> Seq(T)]
  <2>1. \A n \in Nat, y \in Seq(T) : n + 1 <= len => Append(y, xs[n + 1]) \in Seq(T)
    OBVIOUS
  <2>2. ASSUME NEW ny \in Nat \X Seq(T)
        PROVE  (IF ny[1] + 1 \in S /\ ny[1] + 1 <= len THEN Append(ny[2], xs[ny[1] + 1]) ELSE ny[2]) \in Seq(T)
    <3>1. ny[1] \in Nat /\ ny[2] \in Seq(T)
      OBVIOUS
    <3> HIDE DEF len
    <3> QED
      BY <2>1, <3>1
  <2> HIDE DEF len
  <2> QED
    BY <2>2
<1>3. PICK g \in [0 .. len -> Seq(T)] : Unfolds(g, len, <<>>, step)
  <2> HIDE DEF step, len
  <2> QED
    BY <1>1, <1>2, UnfoldingsExist
<1>4. \A n \in 1 .. len : g[n] = IF n \in S THEN Append(g[n - 1], xs[n]) ELSE g[n - 1]
  <2> SUFFICES ASSUME NEW n \in 1 .. len
               PROVE  g[n] = IF n \in S THEN Append(g[n - 1], xs[n]) ELSE g[n - 1]
    OBVIOUS
  <2>1. n - 1 \in 0 .. (len - 1) /\ (n - 1) + 1 = n /\ n - 1 \in Nat /\ n <= len /\ g[n - 1] \in Seq(T)
    BY <1>1
  <2>2. g[n] = step[<<n - 1, g[n - 1]>>]
    BY <1>3, <2>1 DEF Unfolds
  <2>3. step[<<n - 1, g[n - 1]>>] = IF n \in S THEN Append(g[n - 1], xs[n]) ELSE g[n - 1]
    BY <2>1
  <2> QED
    BY <2>2, <2>3
<1>5. g[0] = <<>>
  BY <1>3 DEF Unfolds
<1>6. g = F(g)
  <2>1. \A n \in 0 .. len : g[n] = IF n = 0 THEN <<>> ELSE IF n \in S THEN Append(g[n - 1], xs[n]) ELSE g[n - 1]
    <3>1. \A n \in 0 .. len : n = 0 \/ (n # 0 /\ n \in 1 .. len)
      BY <1>1
    <3> HIDE DEF len
    <3> QED
      BY <1>4, <1>5, <3>1
  <2> HIDE DEF len
  <2> QED
    BY <2>1
<1>7. to = F(to)
  <2> HIDE DEF F
  <2> QED
    BY <1>6
<1>8. Selected(xs, S) = to[len]
  BY DEF Selected
<1> HIDE DEF to
<1>9. \A n \in 0 .. len : to[n] = g[n]
  <2> DEFINE K == {n \in Nat : n <= len => to[n] = g[n]}
  <2>1. 0 \in K
    BY <1>1, <1>5, <1>7
  <2>2. ASSUME NEW n \in Nat, n \in K PROVE n + 1 \in K
    <3>1. SUFFICES ASSUME n + 1 <= len PROVE to[n + 1] = g[n + 1]
      OBVIOUS
    <3>2. n + 1 \in 0 .. len /\ n + 1 \in 1 .. len /\ n + 1 # 0 /\ (n + 1) - 1 = n /\ n <= len
      BY <1>1, <3>1
    <3>3. to[n] = g[n]
      BY <2>2, <3>2
    <3> HIDE DEF len
    <3>4. to[n + 1] = IF n + 1 \in S THEN Append(to[n], xs[n + 1]) ELSE to[n]
      BY <1>7, <3>2
    <3>5. g[n + 1] = IF n + 1 \in S THEN Append(g[n], xs[n + 1]) ELSE g[n]
      BY <1>4, <3>2
    <3> QED
      BY <3>3, <3>4, <3>5
  <2> HIDE DEF K
  <2>3. Nat \subseteq K
    BY <2>1, <2>2, SetInduction
  <2>4. \A n \in 0 .. len : n \in Nat /\ n <= len
    BY <1>1
  <2> QED
    BY <2>3, <2>4 DEF K
<1>10. len \in 0 .. len
  BY <1>1
<1>11. Selected(xs, S) = g[len]
  <2> HIDE DEF len
  <2> QED
    BY <1>8, <1>9, <1>10
<1> QED
  BY <1>4, <1>5, <1>11 DEF Selects

LEMMA SelectedType ==
  ASSUME NEW T, NEW xs \in Seq(T), NEW S
  PROVE  Selected(xs, S) \in Seq(T)
BY SelectedUnfolds

LEMMA SelectedNone ==
  ASSUME NEW T, NEW xs \in Seq(T), NEW S, S \cap (1 .. Len(xs)) = {}
  PROVE  Selected(xs, S) = <<>>
<1>1. PICK g \in [0 .. Len(xs) -> Seq(T)] : Selects(g, xs, S) /\ Selected(xs, S) = g[Len(xs)]
  BY SelectedUnfolds
<1> DEFINE K == {n \in Nat : n <= Len(xs) => g[n] = <<>>}
<1>2. 0 \in K
  BY <1>1 DEF Selects
<1>3. ASSUME NEW n \in Nat, n \in K PROVE n + 1 \in K
  <2>1. SUFFICES ASSUME n + 1 <= Len(xs) PROVE g[n + 1] = <<>>
    OBVIOUS
  <2>2. n + 1 \in 1 .. Len(xs) /\ (n + 1) - 1 = n /\ n <= Len(xs)
    BY <2>1
  <2>3. n + 1 \notin S /\ g[n] = <<>>
    BY <1>3, <2>2
  <2> QED
    BY <1>1, <2>2, <2>3 DEF Selects
<1> HIDE DEF K
<1>4. Len(xs) \in K
  BY <1>2, <1>3, SetInduction
<1> QED
  BY <1>1, <1>4 DEF K

\* From a sequence in two parts: from one, then from the other.
LEMMA SelectedBoth ==
  ASSUME NEW T, NEW xs \in Seq(T), NEW ys \in Seq(T), NEW S, NEW X, NEW Y,
         \A n \in 1 .. Len(xs) : n \in S <=> n \in X,
         \A n \in 1 .. Len(ys) : Len(xs) + n \in S <=> n \in Y
  PROVE  Selected(xs \o ys, S) = Selected(xs, X) \o Selected(ys, Y)
<1> DEFINE a == Len(xs) b == Len(ys) zs == xs \o ys
<1>1. /\ a \in Nat /\ b \in Nat /\ zs \in Seq(T) /\ Len(zs) = a + b
      /\ \A n \in 1 .. a : zs[n] = xs[n]
      /\ \A n \in 1 .. b : zs[a + n] = ys[n]
  OBVIOUS
<1> HIDE DEF zs
<1>2. PICK f \in [0 .. a -> Seq(T)] : Selects(f, xs, X) /\ Selected(xs, X) = f[a]
  BY SelectedUnfolds
<1>3. PICK g \in [0 .. b -> Seq(T)] : Selects(g, ys, Y) /\ Selected(ys, Y) = g[b]
  BY SelectedUnfolds
<1>0. zs \in Seq(T)
  BY <1>1
<1> HIDE DEF a, b
<1>4. PICK h \in [0 .. Len(zs) -> Seq(T)] : Selects(h, zs, S) /\ Selected(zs, S) = h[Len(zs)]
  BY <1>0, SelectedUnfolds
<1>5. /\ f[0] = <<>> /\ g[0] = <<>> /\ h[0] = <<>>
      /\ \A n \in 1 .. a : f[n] = IF n \in X THEN Append(f[n - 1], xs[n]) ELSE f[n - 1]
      /\ \A n \in 1 .. b : g[n] = IF n \in Y THEN Append(g[n - 1], ys[n]) ELSE g[n - 1]
      /\ \A n \in 1 .. (a + b) : h[n] = IF n \in S THEN Append(h[n - 1], zs[n]) ELSE h[n - 1]
  BY <1>1, <1>2, <1>3, <1>4 DEF Selects, a, b
<1> DEFINE K == {n \in Nat : n <= a => h[n] = f[n]}
           P(n) == h[a + n] = f[a] \o g[n]
           L == {n \in Nat : n <= b => P(n)}
<1>6. 0 \in K
  BY <1>5
<1>7. ASSUME NEW n \in Nat, n \in K PROVE n + 1 \in K
  <2>1. SUFFICES ASSUME n + 1 <= a PROVE h[n + 1] = f[n + 1]
    OBVIOUS
  <2>2. n + 1 \in 1 .. a /\ n + 1 \in 1 .. (a + b) /\ (n + 1) - 1 = n /\ n <= a
    BY <1>1, <2>1
  <2>3. h[n] = f[n]
    BY <1>7, <2>2
  <2>4. n + 1 \in S <=> n + 1 \in X
    BY <2>2 DEF a
  <2>5. zs[n + 1] = xs[n + 1]
    BY <1>1, <2>2
  <2>6. h[n + 1] = IF n + 1 \in S THEN Append(h[n], zs[n + 1]) ELSE h[n]
    BY <1>5, <2>2
  <2>7. f[n + 1] = IF n + 1 \in X THEN Append(f[n], xs[n + 1]) ELSE f[n]
    BY <1>5, <2>2
  <2> QED
    BY <2>3, <2>4, <2>5, <2>6, <2>7
<1>8. Nat \subseteq K
  <2> HIDE DEF K
  <2> QED
    BY <1>6, <1>7, SetInduction
<1>9. h[a] = f[a] /\ f[a] \in Seq(T)
  BY <1>1, <1>2, <1>8
<1>10. P(0)
  <2>1. a + 0 = a /\ f[a] \o <<>> = f[a]
    BY <1>1, <1>9, NothingAdded
  <2> QED
    BY <1>5, <1>9, <2>1
<1>11. ASSUME NEW n \in Nat, n \in L PROVE n + 1 \in L
  <2>1. SUFFICES ASSUME n + 1 <= b PROVE P(n + 1)
    <3> HIDE DEF P
    <3> QED
      BY DEF L
  <2>2. /\ n + 1 \in 1 .. b /\ a + (n + 1) \in 1 .. (a + b) /\ (a + (n + 1)) - 1 = a + n
        /\ (n + 1) - 1 = n /\ n <= b /\ n \in 0 .. b
    BY <1>1, <2>1
  <2>3. h[a + n] = f[a] \o g[n] /\ g[n] \in Seq(T)
    BY <1>3, <1>11, <2>2 DEF L
  <2>4. a + (n + 1) \in S <=> n + 1 \in Y
    BY <2>2 DEF a, b
  <2>5. zs[a + (n + 1)] = ys[n + 1] /\ ys[n + 1] \in T
    BY <1>1, <2>2 DEF b
  <2>6. h[a + (n + 1)] = IF a + (n + 1) \in S THEN Append(h[a + n], zs[a + (n + 1)]) ELSE h[a + n]
    BY <1>5, <2>2
  <2>7. g[n + 1] = IF n + 1 \in Y THEN Append(g[n], ys[n + 1]) ELSE g[n]
    BY <1>5, <2>2
  <2>8. Append(f[a] \o g[n], ys[n + 1]) = f[a] \o Append(g[n], ys[n + 1])
    <3> DEFINE p == f[a] q == g[n] y == ys[n + 1]
    <3>1. p \in Seq(T) /\ q \in Seq(T) /\ y \in T
      BY <1>9, <2>3, <2>5
    <3> HIDE DEF p, q, y
    <3>2. AddsLast(p, q, y)
      BY <3>1, AddedLast
    <3> QED
      BY <3>2 DEF AddsLast, p, q, y
  <2> QED
    BY <2>3, <2>4, <2>5, <2>6, <2>7, <2>8
<1>12. Nat \subseteq L
  <2>1. 0 \in L
    <3> HIDE DEF P
    <3> QED
      BY <1>10
  <2> HIDE DEF L
  <2> QED
    BY <2>1, <1>11, SetInduction
<1>13. P(b)
  <2> HIDE DEF P
  <2> QED
    BY <1>1, <1>12
<1> QED
  BY <1>1, <1>2, <1>3, <1>4, <1>13 DEF zs, a, b

\* From two sequences that belong together element by element.
LEMMA SelectedAlike ==
  ASSUME NEW T, NEW U, NEW xs \in Seq(T), NEW ys \in Seq(U), Len(xs) = Len(ys), NEW S, NEW R,
         \A n \in 1 .. Len(xs) : <<xs[n], ys[n]>> \in R
  PROVE  /\ Len(Selected(xs, S)) = Len(Selected(ys, S))
         /\ \A i \in 1 .. Len(Selected(xs, S)) : <<Selected(xs, S)[i], Selected(ys, S)[i]>> \in R
<1> DEFINE a == Len(xs)
<1>1. a \in Nat /\ a = Len(ys) /\ \A n \in 1 .. a : xs[n] \in T /\ ys[n] \in U
  OBVIOUS
<1>2. PICK f \in [0 .. a -> Seq(T)] : Selects(f, xs, S) /\ Selected(xs, S) = f[a]
  BY SelectedUnfolds
<1>3. PICK g \in [0 .. a -> Seq(U)] : Selects(g, ys, S) /\ Selected(ys, S) = g[a]
  BY <1>1, SelectedUnfolds
<1>4. /\ f[0] = <<>> /\ g[0] = <<>>
      /\ \A n \in 1 .. a : f[n] = IF n \in S THEN Append(f[n - 1], xs[n]) ELSE f[n - 1]
      /\ \A n \in 1 .. a : g[n] = IF n \in S THEN Append(g[n - 1], ys[n]) ELSE g[n - 1]
      /\ \A n \in 1 .. a : <<xs[n], ys[n]>> \in R
  BY <1>1, <1>2, <1>3 DEF Selects
<1> HIDE DEF a
<1> DEFINE Pair(p, q) == Len(p) = Len(q) /\ \A i \in 1 .. Len(p) : <<p[i], q[i]>> \in R
           K == {n \in Nat : n <= a => Pair(f[n], g[n])}
<1>5. 0 \in K
  BY <1>4
<1>6. ASSUME NEW n \in Nat, n \in K PROVE n + 1 \in K
  <2>1. SUFFICES ASSUME n + 1 <= a PROVE Pair(f[n + 1], g[n + 1])
    BY DEF K
  <2>2. n + 1 \in 1 .. a /\ (n + 1) - 1 = n /\ n <= a /\ n \in 0 .. a
    BY <1>1, <2>1
  <2>3. Pair(f[n], g[n]) /\ f[n] \in Seq(T) /\ g[n] \in Seq(U)
    BY <1>6, <2>2
  <2>4. /\ f[n + 1] = IF n + 1 \in S THEN Append(f[n], xs[n + 1]) ELSE f[n]
        /\ g[n + 1] = IF n + 1 \in S THEN Append(g[n], ys[n + 1]) ELSE g[n]
    BY <1>4, <2>2
  <2>5. xs[n + 1] \in T /\ ys[n + 1] \in U /\ <<xs[n + 1], ys[n + 1]>> \in R
    BY <1>1, <1>4, <2>2
  <2>6. \A p \in Seq(T), q \in Seq(U), x \in T, y \in U :
          Pair(p, q) /\ <<x, y>> \in R => Pair(Append(p, x), Append(q, y))
    <3> SUFFICES ASSUME NEW p \in Seq(T), NEW q \in Seq(U), NEW x \in T, NEW y \in U,
                        Pair(p, q), <<x, y>> \in R
                 PROVE  Pair(Append(p, x), Append(q, y))
      OBVIOUS
    <3>1. /\ Len(Append(p, x)) = Len(p) + 1 /\ Len(Append(q, y)) = Len(p) + 1 /\ Len(p) \in Nat
          /\ Append(p, x)[Len(p) + 1] = x /\ Append(q, y)[Len(p) + 1] = y
          /\ \A i \in 1 .. Len(p) : Append(p, x)[i] = p[i] /\ Append(q, y)[i] = q[i]
      OBVIOUS
    <3>2. \A i \in 1 .. (Len(p) + 1) : i \in 1 .. Len(p) \/ i = Len(p) + 1
      BY <3>1
    <3> QED
      BY <3>1, <3>2
  <2> HIDE DEF Pair
  <2> QED
    BY <2>3, <2>4, <2>5, <2>6
<1>7. Nat \subseteq K
  <2> HIDE DEF K
  <2> QED
    BY <1>5, <1>6, SetInduction
<1>8. Pair(f[a], g[a])
  BY <1>1, <1>7
<1> QED
  BY <1>2, <1>3, <1>8

\* At a version in the range of a body, what the body added is the items there;
\* at another, nothing.
LEMMA PartsShow ==
  ASSUME NEW s, IsSchema(s), NEW p \in Places(s), NEW k \in 1 .. Len(Bodies(s, p)), NEW v \in Nat
  PROVE  /\ Covers(Spans(s, p)[k], v) =>
              ItemsOf(s, p, Seen(PartsOf(s, p, k), v)) = ItemsFor(Bodies(s, p)[k], v)
         /\ ~Covers(Spans(s, p)[k], v) => Seen(PartsOf(s, p, k), v) = <<>>
<1> DEFINE items == Bodies(s, p)[k].items
           parts == PartsOf(s, p, k)
           range == Spans(s, p)[k]
           There == {i \in DOMAIN parts : Covers(parts[i], v)}
<1>1. /\ IsRange(range) /\ Len(items) \in Nat /\ DOMAIN items = 1 .. Len(items)
      /\ items \in Seq(Elements(items))
      /\ parts \in Seq(Elements(parts)) /\ Len(parts) = Len(items)
      /\ \A i \in 1 .. Len(items) : IsRange(items[i])
      /\ \A i \in 1 .. Len(items) :
           parts[i] = Part(k, i, Number(s, p, k, i), Tighten(items[i], range))
  BY PartsAre
<1>2. /\ Seen(parts, v) = Selected(parts, There)
      /\ ItemsFor(Bodies(s, p)[k], v) = Selected(items, {i \in DOMAIN items : Covers(items[i], v)})
  BY DEF Seen, ItemsFor
<1>3. \A x : ItemOf(s, p, x) = Bodies(s, p)[x.body].items[x.item]
  BY DEF ItemOf
<1>4. \A i \in 1 .. Len(items) : ItemOf(s, p, parts[i]) = items[i]
  <2>1. Bodies(s, p)[k].items = items
    OBVIOUS
  <2> HIDE DEF items, parts, range
  <2> SUFFICES ASSUME NEW i \in 1 .. Len(items) PROVE ItemOf(s, p, parts[i]) = items[i]
    OBVIOUS
  <2>2. parts[i].body = k /\ parts[i].item = i
    <3>1. parts[i] = Part(k, i, Number(s, p, k, i), Tighten(items[i], range))
      BY <1>1
    <3> QED
      BY <3>1 DEF Part
  <2>3. ItemOf(s, p, parts[i]) = Bodies(s, p)[parts[i].body].items[parts[i].item]
    BY <1>3
  <2>4. ItemOf(s, p, parts[i]) = Bodies(s, p)[k].items[i]
    BY <2>2, <2>3
  <2> QED
    BY <2>1, <2>4
<1> DEFINE of(x) == ItemOf(s, p, x)
           R == {xy \in Elements(parts) \X Elements(items) : of(xy[1]) = xy[2]}
           seen == Selected(parts, There)
           meant == Selected(items, There)
<1>5. ItemsOf(s, p, seen) = [i \in DOMAIN seen |-> of(seen[i])]
  BY DEF ItemsOf
<1> HIDE DEF items, parts, range, of
<1>6. DOMAIN parts = 1 .. Len(items)
  BY <1>1
<1>7. ASSUME NEW i \in 1 .. Len(items)
      PROVE  Covers(parts[i], v) <=> Covers(items[i], v) /\ Covers(range, v)
  <2>1. IsRange(items[i]) /\ IsRange(range)
    BY <1>1
  <2>2. /\ parts[i].since = Later(items[i].since, range.since)
        /\ parts[i].until = Earlier(items[i].until, range.until)
    <3>1. parts[i] = Part(k, i, Number(s, p, k, i), Tighten(items[i], range))
      BY <1>1
    <3> DEFINE tight == Tighten(items[i], range)
    <3>2. tight.since = Later(items[i].since, range.since) /\ tight.until = Earlier(items[i].until, range.until)
      BY DEF Tighten
    <3> HIDE DEF tight
    <3>3. parts[i].since = tight.since /\ parts[i].until = tight.until
      BY <3>1 DEF Part, tight
    <3> QED
      BY <3>2, <3>3
  <2> QED
    BY <2>1, <2>2, OpenAssumption DEF Covers, Later, Earlier, IsRange
<1>8. ASSUME Covers(range, v) PROVE ItemsOf(s, p, seen) = meant
  <2>1. \A i \in 1 .. Len(parts) : <<parts[i], items[i]>> \in R
    BY <1>1, <1>4, <1>6 DEF Elements, of
  <2> HIDE DEF R, There
  <2>2. /\ Len(seen) = Len(meant) /\ \A i \in 1 .. Len(seen) : <<seen[i], meant[i]>> \in R
        /\ seen \in Seq(Elements(parts)) /\ meant \in Seq(Elements(items))
    <3> DEFINE T == Elements(parts) U == Elements(items)
    <3>1. parts \in Seq(T) /\ items \in Seq(U) /\ Len(parts) = Len(items)
      BY <1>1
    <3> HIDE DEF T, U
    <3>2. seen \in Seq(T) /\ meant \in Seq(U)
      BY <3>1, SelectedType
    <3>3. /\ Len(Selected(parts, There)) = Len(Selected(items, There))
          /\ \A i \in 1 .. Len(Selected(parts, There)) : <<Selected(parts, There)[i], Selected(items, There)[i]>> \in R
      BY <2>1, <3>1, SelectedAlike
    <3> QED
      BY <3>2, <3>3 DEF T, U
  <2> HIDE DEF seen, meant
  <2>3. DOMAIN seen = 1 .. Len(meant) /\ meant = [i \in 1 .. Len(meant) |-> meant[i]]
    BY <2>2
  <2>4. \A i \in 1 .. Len(meant) : of(seen[i]) = meant[i]
    BY <2>2 DEF R
  <2> QED
    BY <1>5, <2>3, <2>4
<1>9. ASSUME Covers(range, v) PROVE There = {i \in DOMAIN items : Covers(items[i], v)}
  BY <1>1, <1>6, <1>7, <1>9
<1>10. ASSUME ~Covers(range, v) PROVE seen = <<>>
  <2>1. There \cap (1 .. Len(parts)) = {}
    BY <1>1, <1>6, <1>7, <1>10
  <2> HIDE DEF There
  <2> QED
    BY <1>1, <2>1, SelectedNone
<1> QED
  BY <1>2, <1>8, <1>9, <1>10 DEF parts, items, range

\* At a version, what is seen of more is what was seen and what is seen of it.
LEMMA SeenBoth ==
  ASSUME NEW T, NEW xs \in Seq(T), NEW ys \in Seq(T), NEW v
  PROVE  Seen(xs \o ys, v) = Seen(xs, v) \o Seen(ys, v)
<1> DEFINE There(zs) == {i \in DOMAIN zs : Covers(zs[i], v)}
<1>1. /\ \A n \in 1 .. Len(xs) : n \in DOMAIN (xs \o ys) /\ n \in DOMAIN xs /\ (xs \o ys)[n] = xs[n]
      /\ \A n \in 1 .. Len(ys) :
           Len(xs) + n \in DOMAIN (xs \o ys) /\ n \in DOMAIN ys /\ (xs \o ys)[Len(xs) + n] = ys[n]
  OBVIOUS
<1>2. /\ \A n \in 1 .. Len(xs) : n \in There(xs \o ys) <=> n \in There(xs)
      /\ \A n \in 1 .. Len(ys) : Len(xs) + n \in There(xs \o ys) <=> n \in There(ys)
  BY <1>1
<1> DEFINE both == There(xs \o ys) left == There(xs) right == There(ys)
<1>3. Selected(xs \o ys, both) = Selected(xs, left) \o Selected(ys, right)
  <2> HIDE DEF both, left, right
  <2>1. /\ \A n \in 1 .. Len(xs) : n \in both <=> n \in left
        /\ \A n \in 1 .. Len(ys) : Len(xs) + n \in both <=> n \in right
    BY <1>2 DEF both, left, right
  <2> QED
    BY <2>1, SelectedBoth
<1> QED
  BY <1>3 DEF Seen

-----------------------------------------------------------------------------
(* Numbering.                                                              *)

LEMMA SiblingsAreAbove ==
  ASSUME NEW items, NEW i \in DOMAIN items, DOMAIN items = 1 .. Len(items), Len(items) \in Nat,
         MembersParse(items), items[i].how = "sibling"
  PROVE  SiblingOf(items, i) \in 1 .. (i - 1)
<1> DEFINE Is_(j) == items[j].name = items[i].of
           S == {j \in 1 .. (i - 1) : Is_(j)}
<1>1. i \in Nat /\ i - 1 \in Nat /\ \A j \in 1 .. (i - 1) : j \in Nat
  OBVIOUS
<1>2. PICK q \in S : TRUE
  BY DEF MembersParse
<1>3. S \in SUBSET Nat /\ q \in S /\ q <= i - 1 /\ i - 1 \in Nat
  BY <1>1
<1> HIDE DEF Is_
<1>4. PICK j \in S : \A h \in S : h <= i - 1 => h <= j
  <2> DEFINE v == i - 1
  <2> HIDE DEF S, v
  <2>1. S \in SUBSET Nat /\ v \in Nat /\ q \in S /\ q <= v
    BY <1>3 DEF v
  <2>2. \E j \in S : j <= v /\ \A h \in S : h <= v => h <= j
    BY <2>1, GreatestUpTo
  <2> QED
    BY <2>2 DEF v
<1>5. \A h \in (j + 1) .. (i - 1) : ~Is_(h)
  <2> SUFFICES ASSUME NEW h \in (j + 1) .. (i - 1), Is_(h) PROVE FALSE
    OBVIOUS
  <2>1. h \in 1 .. (i - 1) /\ ~(h <= j) /\ h <= i - 1
    BY <1>1
  <2> QED
    BY <1>4, <2>1
<1>6. /\ j \in 1 .. (i - 1) /\ items[j].name = items[i].of
      /\ \A h \in (j + 1) .. (i - 1) : items[h].name # items[i].of
  BY <1>4, <1>5 DEF Is_
<1> QED
  BY <1>6 DEF SiblingOf

\* The members of a body that parses are numbered one by one.
LEMMA NumbersUnfold ==
  ASSUME NEW items, items \in Seq(Elements(items)), MembersParse(items),
         \A i \in DOMAIN items : IsMember(items[i])
  PROVE  \A i \in 1 .. Len(items) :
           /\ NumbersOf(items)[i] \in Int
           /\ items[i].how = "number" => NumbersOf(items)[i] = items[i].number
           /\ items[i].how = "auto" =>
                NumbersOf(items)[i] = IF i = 1 THEN 0 ELSE NumbersOf(items)[i - 1] + items[i - 1].count
<1> DEFINE len == Len(items)
           D == DOMAIN items
           Next_(i, ns) ==
             IF items[i].how = "number" THEN items[i].number
             ELSE IF items[i].how = "sibling" THEN ns[SiblingOf(items, i)] + items[i].number
             ELSE IF i = 1 THEN 0 ELSE ns[i - 1] + items[i - 1].count
           step == [ns \in Seq(Int) |-> IF Len(ns) + 1 \in D THEN Next_(Len(ns) + 1, ns) ELSE 0]
           F(f) == [i \in DOMAIN items |-> Next_(i, f)]
           n == CHOOSE f : f = F(f)
<1>1. len \in Nat /\ D = 1 .. len
  OBVIOUS
<1>2. \A i \in D : items[i].how \in {"number", "sibling", "auto"} /\ items[i].number \in Int /\ items[i].count \in Int
  BY DEF IsMember
<1>3. \A i \in D : items[i].how = "sibling" => SiblingOf(items, i) \in 1 .. (i - 1)
  BY <1>1, SiblingsAreAbove
<1>4. \A i \in D : i \in Nat /\ (i # 1 => i - 1 \in D /\ i - 1 \in 1 .. (i - 1))
  BY <1>1
<1>5. NumbersOf(items) = n
  BY DEF NumbersOf
<1>6. step \in [Seq(Int) -> Int]
  <2> SUFFICES ASSUME NEW ns \in Seq(Int), Len(ns) + 1 \in D PROVE Next_(Len(ns) + 1, ns) \in Int
    OBVIOUS
  <2> DEFINE i == Len(ns) + 1
  <2>1. i - 1 = Len(ns) /\ (\A j \in 1 .. Len(ns) : ns[j] \in Int) /\ i \in D
    OBVIOUS
  <2> HIDE DEF i, D, len
  <2>2. Next_(i, ns) \in Int
    BY <1>2, <1>3, <1>4, <2>1
  <2> QED
    BY <2>2 DEF i
<1> HIDE DEF n
<1>7. PICK f \in [1 .. len -> Int] : Grows(f, len, step)
  <2>1. len \in Nat
    BY <1>1
  <2> HIDE DEF step, len
  <2> QED
    BY <1>6, <2>1, SequencesGrow
<1>8. \A i \in D : f[i] = Next_(i, f)
  <2> SUFFICES ASSUME NEW i \in D PROVE f[i] = Next_(i, f)
    OBVIOUS
  <2> DEFINE ns == [j \in 1 .. (i - 1) |-> f[j]]
  <2>1. \A j \in 1 .. (i - 1) : j \in 1 .. len
    BY <1>1
  <2>2. ns \in [1 .. (i - 1) -> Int] /\ i - 1 \in Nat
    BY <1>1, <1>7, <2>1
  <2>3. ns \in Seq(Int) /\ Len(ns) + 1 = i
    <3> HIDE DEF ns
    <3> QED
      BY <2>2
  <2>4. f[i] = Next_(i, ns)
    <3>1. step[ns] = IF Len(ns) + 1 \in D THEN Next_(Len(ns) + 1, ns) ELSE 0
      BY <2>3
    <3> HIDE DEF step, ns, Next_
    <3>2. f[i] = step[ns]
      BY <1>1, <1>7 DEF Grows, ns
    <3> QED
      BY <2>3, <3>1, <3>2
  <2>5. \A j \in 1 .. (i - 1) : ns[j] = f[j]
    OBVIOUS
  <2> HIDE DEF ns, D, len
  <2> QED
    BY <1>2, <1>3, <1>4, <2>4, <2>5
<1>9. f = F(f)
  <2> HIDE DEF Next_, len
  <2> QED
    BY <1>1, <1>7, <1>8
<1>10. n = F(n)
  <2> HIDE DEF F
  <2> QED
    BY <1>9 DEF n
<1>11. \A i \in D : n[i] = Next_(i, n)
  <2> HIDE DEF Next_
  <2> QED
    BY <1>10
<1> DEFINE K == {k \in Nat : k <= len => \A i \in 1 .. k : n[i] \in Int}
<1>12. 0 \in K
  OBVIOUS
<1>13. ASSUME NEW k \in Nat, k \in K PROVE k + 1 \in K
  <2>1. SUFFICES ASSUME k + 1 <= len PROVE \A i \in 1 .. (k + 1) : n[i] \in Int
    OBVIOUS
  <2>2. /\ k + 1 \in D /\ k <= len /\ (k + 1) - 1 = k
        /\ \A i \in 1 .. (k + 1) : i \in 1 .. k \/ i = k + 1
    BY <1>1, <2>1
  <2>3. \A i \in 1 .. k : n[i] \in Int
    BY <1>13, <2>2
  <2> HIDE DEF D, len
  <2> DEFINE i == k + 1
  <2>4. i \in D /\ i - 1 = k
    BY <2>2
  <2> HIDE DEF i
  <2> SUFFICES n[i] \in Int
    BY <2>2, <2>3 DEF i
  <2>5. n[i] = Next_(i, n)
    BY <1>11, <2>4
  <2>0. items[i].number \in Int
    BY <1>2, <2>4
  <2>6. CASE items[i].how = "number"
    BY <2>0, <2>5, <2>6
  <2>7. CASE items[i].how = "sibling"
    <3>1. n[SiblingOf(items, i)] \in Int
      BY <1>3, <2>3, <2>4, <2>7
    <3>2. n[i] = n[SiblingOf(items, i)] + items[i].number
      BY <2>5, <2>7
    <3> QED
      BY <2>0, <3>1, <3>2
  <2>8. CASE items[i].how = "auto"
    <3>1. i # 1 => n[i - 1] \in Int /\ items[i - 1].count \in Int
      BY <1>2, <1>4, <2>3, <2>4
    <3> QED
      BY <2>5, <2>8, <3>1
  <2> QED
    BY <1>2, <2>4, <2>6, <2>7, <2>8
<1> HIDE DEF K
<1>14. len \in K
  BY <1>1, <1>12, <1>13, SetInduction
<1>15. \A i \in D : n[i] \in Int
  BY <1>1, <1>14 DEF K
<1> HIDE DEF D, len
<1>16. ASSUME NEW i \in D
       PROVE  /\ n[i] \in Int
              /\ items[i].how = "number" => n[i] = items[i].number
              /\ items[i].how = "auto" => n[i] = IF i = 1 THEN 0 ELSE n[i - 1] + items[i - 1].count
  BY <1>11, <1>15
<1> QED
  BY <1>1, <1>5, <1>16 DEF len

\* _renumber: what is not auto() keeps its number, what is follows on.
LEMMA RenumberedUnfolds ==
  ASSUME NEW s, NEW p, NEW T, NEW seen \in Seq(T),
         \A i \in 1 .. Len(seen) : seen[i].number \in Int /\ ItemOf(s, p, seen[i]).count \in Int
  PROVE  \A i \in 1 .. Len(seen) :
           Renumbered(s, p, seen)[i] =
             IF ItemOf(s, p, seen[i]).how # "auto" THEN seen[i].number
             ELSE IF i = 1 THEN 0 ELSE Renumbered(s, p, seen)[i - 1] + ItemOf(s, p, seen[i - 1]).count
<1> DEFINE len == Len(seen)
           Next_(i, ns) ==
             IF ItemOf(s, p, seen[i]).how # "auto" THEN seen[i].number
             ELSE IF i = 1 THEN 0 ELSE ns[i - 1] + ItemOf(s, p, seen[i - 1]).count
           step == [ns \in Seq(Int) |-> IF Len(ns) + 1 \in 1 .. len THEN Next_(Len(ns) + 1, ns) ELSE 0]
           F(f) == [i \in DOMAIN seen |-> Next_(i, f)]
           n == CHOOSE f : f = F(f)
<1>1. len \in Nat /\ DOMAIN seen = 1 .. len
  OBVIOUS
<1>2. Renumbered(s, p, seen) = n
  BY DEF Renumbered
<1> HIDE DEF n
<1>3. \A i \in 1 .. len : i \in Nat /\ (i # 1 => i - 1 \in 1 .. len)
  BY <1>1
<1>4. step \in [Seq(Int) -> Int]
  <2> SUFFICES ASSUME NEW ns \in Seq(Int), Len(ns) + 1 \in 1 .. len PROVE Next_(Len(ns) + 1, ns) \in Int
    OBVIOUS
  <2> DEFINE i == Len(ns) + 1
  <2>1. i - 1 = Len(ns) /\ (i # 1 => ns[i - 1] \in Int) /\ i \in 1 .. len
    OBVIOUS
  <2> HIDE DEF i, len
  <2>2. seen[i].number \in Int /\ (i # 1 => ItemOf(s, p, seen[i - 1]).count \in Int)
    BY <1>3, <2>1 DEF len
  <2>3. Next_(i, ns) \in Int
    BY <2>1, <2>2
  <2> QED
    BY <2>3 DEF i
<1>5. PICK f \in [1 .. len -> Int] : Grows(f, len, step)
  <2>1. len \in Nat
    BY <1>1
  <2> HIDE DEF step, len
  <2> QED
    BY <1>4, <2>1, SequencesGrow
<1>6. \A i \in 1 .. len : f[i] = Next_(i, f)
  <2> SUFFICES ASSUME NEW i \in 1 .. len PROVE f[i] = Next_(i, f)
    OBVIOUS
  <2> DEFINE ns == [j \in 1 .. (i - 1) |-> f[j]]
  <2>1. \A j \in 1 .. (i - 1) : j \in 1 .. len
    BY <1>1
  <2>2. ns \in [1 .. (i - 1) -> Int] /\ i - 1 \in Nat
    BY <1>1, <1>5, <2>1
  <2>3. ns \in Seq(Int) /\ Len(ns) + 1 = i
    <3> HIDE DEF ns
    <3> QED
      BY <2>2
  <2>4. f[i] = Next_(i, ns)
    <3>1. step[ns] = IF Len(ns) + 1 \in 1 .. len THEN Next_(Len(ns) + 1, ns) ELSE 0
      BY <2>3
    <3> HIDE DEF step, ns, Next_
    <3>2. f[i] = step[ns]
      BY <1>5 DEF Grows, ns
    <3> QED
      BY <2>3, <3>1, <3>2
  <2>5. i # 1 => ns[i - 1] = f[i - 1]
    BY <1>1
  <2> HIDE DEF ns, len
  <2> QED
    BY <2>4, <2>5
<1>7. f = F(f)
  <2> HIDE DEF Next_, len
  <2> QED
    BY <1>1, <1>5, <1>6
<1>8. n = F(n)
  <2> HIDE DEF F
  <2> QED
    BY <1>7 DEF n
<1>9. \A i \in 1 .. len : n[i] = Next_(i, n)
  <2> HIDE DEF Next_, len
  <2> QED
    BY <1>1, <1>8
<1> QED
  BY <1>2, <1>9

-----------------------------------------------------------------------------
(* Types.                                                                  *)

\* TypeOK with where the schema is from and what phase allows what; and each
\* part lies in the range of its body.
PassInv ==
  /\ IsSchema(schema)
  /\ place \in Places(schema)
  /\ phase \in {"group", "ranges", "bodies", "rejected", "done"}
  /\ at \in 0 .. Len(Bodies(schema, place))
  /\ phase = "ranges" => at # 0
  /\ phase \in {"group", "ranges"} => parsed = <<>>
  /\ IsSequence(parsed)
  /\ \A x \in Elements(parsed) :
       /\ x.body \in 1 .. at /\ IsRange(x)
       /\ Spans(schema, place)[x.body].since <= x.since
       /\ x.until <= Spans(schema, place)[x.body].until

LEMMA NothingParsed ==
  /\ IsSequence(<<>>)
  /\ Elements(<<>>) = {}
BY DEF IsSequence, Elements

LEMMA PassStarts == Init => PassInv
<1> SUFFICES ASSUME Init PROVE PassInv
  OBVIOUS
<1>1. IsSchema(schema)
  BY SourcesAssumption DEF Init
<1>2. place \in Places(schema)
  <2>1. 1 \in 1 .. Len(schema.modules) /\ 1 \in 1 .. Len(schema.modules[1].groups)
    BY <1>1 DEF IsSchema
  <2>2. place = <<1, 1>>
    BY DEF Init
  <2> QED
    BY <2>1, <2>2, PlacesAre
<1>3. at \in 0 .. Len(Bodies(schema, place))
  BY <1>1, <1>2, SchemaFacts DEF Init
<1> QED
  BY <1>1, <1>2, <1>3, NothingParsed DEF Init, PassInv

LEMMA PassGoesTo ==
  ASSUME PassInv, NEW p \in Places(schema), GoTo(p)
  PROVE  PassInv'
<1>1. 0 \in 0 .. Len(Bodies(schema, p))
  BY SchemaFacts DEF PassInv
<1> QED
  BY <1>1, NothingParsed DEF PassInv, GoTo

LEMMA PassParses ==
  ASSUME PassInv, ParseBody
  PROVE  PassInv'
<1> DEFINE k == at + 1
           parts == PartsOf(schema, place, k)
<1>1. /\ IsSchema(schema) /\ place \in Places(schema)
      /\ at \in Nat /\ k \in 1 .. Len(Bodies(schema, place)) /\ Len(Bodies(schema, place)) \in Nat
  BY SchemaFacts DEF PassInv, ParseBody
<1>2. /\ IsSequence(parts)
      /\ \A x \in Elements(parts) :
           /\ x.body = k /\ IsRange(x)
           /\ Spans(schema, place)[k].since <= x.since /\ x.until <= Spans(schema, place)[k].until
  BY <1>1, PartsLie
<1>3. IsSequence(parsed \o parts)
      /\ \A x \in Elements(parsed \o parts) : x \in Elements(parsed) \/ x \in Elements(parts)
  BY <1>2, Appended DEF PassInv
<1>4. /\ parsed' = parsed \o parts /\ at' = k /\ phase = "bodies"
      /\ UNCHANGED <<schema, place, phase>>
  BY DEF ParseBody
<1> HIDE DEF parts
<1>5. ASSUME NEW x \in Elements(parsed \o parts)
      PROVE  /\ x.body \in 1 .. k /\ IsRange(x)
             /\ Spans(schema, place)[x.body].since <= x.since
             /\ x.until <= Spans(schema, place)[x.body].until
  <2>1. CASE x \in Elements(parsed)
    <3>1. x.body \in 1 .. at
      BY <2>1 DEF PassInv
    <3>2. x.body \in 1 .. k
      BY <3>1, <1>1
    <3> QED
      BY <2>1, <3>2 DEF PassInv
  <2>2. CASE x \in Elements(parts)
    <3>1. k \in 1 .. k
      BY <1>1
    <3> QED
      BY <2>2, <3>1, <1>2
  <2> QED
    BY <1>3, <2>1, <2>2
<1>6. k \in 0 .. Len(Bodies(schema, place))
  BY <1>1
<1> HIDE DEF k
<1> QED
  BY <1>1, <1>3, <1>4, <1>5, <1>6 DEF PassInv

LEMMA PassStep == PassInv /\ [Next]_vars => PassInv'
<1> SUFFICES ASSUME PassInv, [Next]_vars PROVE PassInv'
  OBVIOUS
<1> DEFINE bodies == Bodies(schema, place)
<1>1. /\ IsSchema(schema) /\ place \in Places(schema)
      /\ at \in Nat /\ at <= Len(bodies) /\ Len(bodies) \in Nat \ {0}
  BY SchemaFacts DEF PassInv
<1>2. CASE Begin
  <2>1. 1 \in 0 .. Len(bodies)
    BY <1>1
  <2> QED
    BY <1>2, <2>1, NothingParsed DEF Begin, PassInv
<1>3. CASE NextRange
  <2>1. at + 1 \in 0 .. Len(bodies) /\ at + 1 # 0
    BY <1>1, <1>3 DEF NextRange
  <2> QED
    BY <1>3, <2>1, NothingParsed DEF NextRange, PassInv
<1>4. CASE RangesTile
  <2>1. 0 \in 0 .. Len(bodies)
    BY <1>1
  <2> QED
    BY <1>4, <2>1, NothingParsed DEF RangesTile, PassInv
<1>5. CASE ParseBody
  BY <1>5, PassParses
<1>6. CASE NextGroup
  <2>1. <<place[1], place[2] + 1>> \in Places(schema)
    BY <1>1, <1>6, PlacesAre DEF NextGroup, IsSchema
  <2> QED
    BY <1>6, <2>1, PassGoesTo DEF NextGroup
<1>7. CASE NextModule
  <2> DEFINE m == place[1] + 1
  <2>0. m \in 1 .. Len(schema.modules)
    BY <1>1, <1>7, PlacesAre DEF NextModule, IsSchema
  <2> HIDE DEF m
  <2>2. 1 \in 1 .. Len(schema.modules[m].groups)
    BY <1>1, <2>0 DEF IsSchema
  <2>1. <<m, 1>> \in Places(schema)
    BY <2>0, <2>2, PlacesAre
  <2> QED
    BY <1>7, <2>1, PassGoesTo DEF NextModule, m
<1>8. CASE Finish
  BY <1>8 DEF Finish, IsParsed, PassInv
<1>9. CASE Reject
  BY <1>9 DEF Reject, PassInv
<1>10. CASE UNCHANGED vars
  BY <1>10 DEF vars, PassInv
<1> QED
  BY <1>2, <1>3, <1>4, <1>5, <1>6, <1>7, <1>8, <1>9, <1>10 DEF Next, Stopped

LEMMA PassHolds == Spec => []PassInv
BY PassStarts, PassStep, PTL DEF Spec

\* Every reachable state of the parser is well typed, whatever the schema.
THEOREM TypeCorrect == Spec => []TypeOK
<1>1. PassInv => TypeOK
  <2> SUFFICES ASSUME PassInv PROVE TypeOK
    OBVIOUS
  <2>1. at \in 0 .. Len(Bodies(schema, place)) /\ Len(Bodies(schema, place)) \in Nat
    BY SchemaFacts DEF PassInv
  <2>2. ASSUME NEW i \in DOMAIN parsed
        PROVE  parsed[i] \in Elements(parsed)
    <3>1. parsed \in Seq(Elements(parsed))
      BY DEF PassInv, IsSequence
    <3>2. DOMAIN parsed = 1 .. Len(parsed)
      BY <3>1
    <3> QED
      BY <3>2 DEF Elements
  <2>3. \A i \in DOMAIN parsed :
          parsed[i].body \in 1 .. Len(Bodies(schema, place)) /\ parsed[i].since \in 0 .. Open
    BY <2>1, <2>2 DEF PassInv, IsRange
  <2> QED
    BY <2>1, <2>3 DEF PassInv, TypeOK
<1> QED
  BY <1>1, PassHolds, PTL

-----------------------------------------------------------------------------
(* One body in force.                                                      *)

\* The first n ranges of a name, taken in order, follow one another and leave
\* out no version between the first and the last.
Tiled(s, p, n) ==
  /\ \A j, k \in 1 .. n : j < k => Spans(s, p)[j].until <= Spans(s, p)[k].since
  /\ \A v \in Versions :
       Spans(s, p)[1].since <= v /\ v < Spans(s, p)[n].until =>
         \E k \in 1 .. n : Covers(Spans(s, p)[k], v)

TilingInv ==
  /\ phase = "ranges" /\ Ordered(schema, place) => Tiled(schema, place, at)
  /\ phase = "bodies" /\ Ordered(schema, place) =>
       Tiled(schema, place, Len(Bodies(schema, place)))

LEMMA TiledFirst ==
  ASSUME NEW s, NEW p
  PROVE  Tiled(s, p, 1)
BY VersionsAssumption DEF Tiled, Covers

LEMMA TiledNext ==
  ASSUME NEW s, IsSchema(s), NEW p \in Places(s), Ordered(s, p),
         NEW n \in 1 .. Len(Bodies(s, p)), n < Len(Bodies(s, p)),
         Tiled(s, p, n), Meets(Spans(s, p)[n], Spans(s, p)[n + 1])
  PROVE  Tiled(s, p, n + 1)
<1> DEFINE S == Spans(s, p)
           len == Len(Bodies(s, p))
<1>1. len \in Nat /\ DOMAIN S = 1 .. len /\ \A k \in 1 .. len : IsRange(S[k])
  BY SchemaFacts
<1>2. \A k \in 1 .. len : S[k].since \in Nat /\ S[k].until \in Nat /\ S[k].since < S[k].until
  BY <1>1, OpenAssumption DEF IsRange, Ordered
<1>3. S[n].until = S[n + 1].since
  BY DEF Meets
<1>4. /\ \A j, k \in 1 .. n : j < k => S[j].until <= S[k].since
      /\ \A v \in Versions : S[1].since <= v /\ v < S[n].until => \E k \in 1 .. n : Covers(S[k], v)
  BY DEF Tiled
<1>5. n \in 1 .. len /\ n + 1 \in 1 .. len /\ n \in Nat
  BY <1>1
<1> HIDE DEF S, len
<1>6. ASSUME NEW j \in 1 .. (n + 1), NEW k \in 1 .. (n + 1), j < k
      PROVE  S[j].until <= S[k].since
  <2>1. CASE k \in 1 .. n
    <3>1. j \in 1 .. n
      BY <2>1, <1>5, <1>6
    <3> QED
      BY <2>1, <3>1, <1>4, <1>6
  <2>2. CASE k = n + 1
    <3>1. j \in 1 .. n
      BY <2>2, <1>5, <1>6
    <3>2. CASE j = n
      BY <3>2, <2>2, <1>2, <1>3, <1>5
    <3>3. CASE j < n
      <4>1. S[j].until <= S[n].since
        BY <3>1, <3>3, <1>4, <1>5
      <4>2. S[n].since < S[n].until
        BY <1>2, <1>5
      <4>3. j \in 1 .. len
        BY <3>1, <1>1, <1>5
      <4> QED
        BY <4>1, <4>2, <4>3, <1>2, <1>3, <1>5, <2>2
    <3> QED
      BY <3>1, <3>2, <3>3, <1>5
  <2> QED
    BY <2>1, <2>2, <1>5
<1>7. ASSUME NEW v \in Versions, S[1].since <= v, v < S[n + 1].until
      PROVE  \E k \in 1 .. (n + 1) : Covers(S[k], v)
  <2>1. v \in Nat
    BY VersionsAssumption
  <2>2. CASE v < S[n].until
    <3>1. PICK k \in 1 .. n : Covers(S[k], v)
      BY <2>2, <1>4, <1>7
    <3>2. k \in 1 .. (n + 1)
      BY <1>5
    <3> QED
      BY <3>1, <3>2
  <2>3. CASE S[n].until <= v
    <3>1. Covers(S[n + 1], v)
      BY <2>3, <1>3, <1>7 DEF Covers
    <3>2. n + 1 \in 1 .. (n + 1)
      BY <1>5
    <3> QED
      BY <3>1, <3>2
  <2> QED
    BY <2>1, <2>2, <2>3, <1>2, <1>5
<1> QED
  BY <1>6, <1>7 DEF Tiled, S

\* Of ranges that are tiled at most one holds a version.
LEMMA TiledApart ==
  ASSUME NEW s, IsSchema(s), NEW p \in Places(s), Tiled(s, p, Len(Bodies(s, p))),
         NEW v \in Nat,
         NEW j \in 1 .. Len(Bodies(s, p)), NEW k \in 1 .. Len(Bodies(s, p)),
         Covers(Spans(s, p)[j], v), Covers(Spans(s, p)[k], v)
  PROVE  j = k
<1> DEFINE S == Spans(s, p)
           len == Len(Bodies(s, p))
<1>1. /\ len \in Nat
      /\ S[j].since \in Nat /\ S[j].until \in Nat /\ S[k].since \in Nat /\ S[k].until \in Nat
  BY SchemaFacts, OpenAssumption DEF IsRange
<1>2. /\ j < k => S[j].until <= S[k].since
      /\ k < j => S[k].until <= S[j].since
  BY DEF Tiled
<1>3. S[j].since <= v /\ v < S[j].until /\ S[k].since <= v /\ v < S[k].until
  BY DEF Covers
<1> HIDE DEF S, len
<1>4. ~(j < k) /\ ~(k < j)
  BY <1>1, <1>2, <1>3
<1>5. j \in Nat /\ k \in Nat
  BY <1>1 DEF len
<1> QED
  BY <1>4, <1>5

LEMMA TilingStep == PassInv /\ TilingInv /\ [Next]_vars => TilingInv'
<1> SUFFICES ASSUME PassInv, TilingInv, [Next]_vars PROVE TilingInv'
  OBVIOUS
<1>1. /\ IsSchema(schema) /\ place \in Places(schema)
      /\ at \in Nat /\ at <= Len(Bodies(schema, place)) /\ Len(Bodies(schema, place)) \in Nat \ {0}
  BY SchemaFacts DEF PassInv
<1>2. CASE Begin
  <2>1. phase' = "ranges" /\ at' = 1 /\ UNCHANGED <<schema, place>>
    BY <1>2 DEF Begin
  <2> QED
    BY <2>1, TiledFirst DEF TilingInv
<1>3. CASE NextRange
  <2>1. /\ phase = "ranges" /\ phase' = "ranges" /\ at' = at + 1 /\ UNCHANGED <<schema, place>>
        /\ at < Len(Bodies(schema, place)) /\ Meets(Spans(schema, place)[at], Spans(schema, place)[at + 1])
    BY <1>3 DEF NextRange
  <2>2. at \in 1 .. Len(Bodies(schema, place))
    BY <1>1, <2>1 DEF PassInv
  <2>3. Ordered(schema, place) => Tiled(schema, place, at + 1)
    BY <1>1, <2>1, <2>2, TiledNext DEF TilingInv
  <2> QED
    BY <2>1, <2>3 DEF TilingInv
<1>4. CASE RangesTile
  <2>1. /\ phase = "ranges" /\ at = Len(Bodies(schema, place))
        /\ phase' = "bodies" /\ UNCHANGED <<schema, place>>
    BY <1>4 DEF RangesTile
  <2> QED
    BY <2>1 DEF TilingInv
<1>5. CASE ParseBody
  <2>1. phase = "bodies" /\ phase' = "bodies" /\ UNCHANGED <<schema, place>>
    BY <1>5 DEF ParseBody
  <2> QED
    BY <2>1 DEF TilingInv
<1>6. CASE NextGroup \/ NextModule \/ Finish \/ Reject
  <2>1. phase' \in {"group", "done", "rejected"}
    BY <1>6 DEF NextGroup, NextModule, GoTo, Finish, Reject
  <2> QED
    BY <2>1 DEF TilingInv
<1>7. CASE UNCHANGED vars
  <2>1. UNCHANGED <<schema, place, phase, at>>
    BY <1>7 DEF vars
  <2> QED
    BY <2>1 DEF TilingInv
<1> QED
  BY <1>2, <1>3, <1>4, <1>5, <1>6, <1>7 DEF Next, Stopped

LEMMA TilingHolds == Spec => []TilingInv
<1>1. Init => TilingInv
  BY DEF Init, TilingInv
<1> QED
  BY <1>1, TilingStep, PassHolds, PTL DEF Spec

\* What is parsed of a name is, at a version, the items in force of the body
\* whose range holds the version, when that body is parsed, and else nothing.
SeenInv ==
  phase = "bodies" /\ Ordered(schema, place) =>
    \A v \in Versions :
      /\ \A k \in 1 .. at : Covers(Spans(schema, place)[k], v) =>
           ItemsOf(schema, place, Seen(parsed, v)) = ItemsFor(Bodies(schema, place)[k], v)
      /\ (\A k \in 1 .. at : ~Covers(Spans(schema, place)[k], v)) => Seen(parsed, v) = <<>>

LEMMA NothingSeen ==
  ASSUME NEW v
  PROVE  Seen(<<>>, v) = <<>>
<1> DEFINE There == {i \in DOMAIN <<>> : Covers(<<>>[i], v)}
<1>1. <<>> \in Seq({}) /\ There \cap (1 .. Len(<<>>)) = {}
  OBVIOUS
<1>2. Selected(<<>>, There) = <<>>
  <2> HIDE DEF There
  <2> QED
    BY <1>1, SelectedNone
<1> QED
  BY <1>2 DEF Seen

LEMMA SeenParses == PassInv /\ TilingInv /\ SeenInv /\ ParseBody => SeenInv'
<1> SUFFICES ASSUME PassInv, TilingInv, SeenInv, ParseBody, Ordered(schema, place)' PROVE SeenInv'
  BY DEF SeenInv
<1> DEFINE len == Len(Bodies(schema, place))
           S == Spans(schema, place)
           new == PartsOf(schema, place, at + 1)
<1>1. /\ phase = "bodies" /\ at < len /\ parsed' = parsed \o new /\ at' = at + 1
      /\ UNCHANGED <<schema, place, phase>>
  BY DEF ParseBody
<1>2. /\ IsSchema(schema) /\ place \in Places(schema) /\ at \in 0 .. len /\ len \in Nat \ {0}
      /\ Ordered(schema, place)
  BY <1>1, SchemaFacts DEF PassInv
<1>3. at \in Nat /\ at + 1 \in 1 .. len
  BY <1>1, <1>2
<1>4. Tiled(schema, place, len)
  BY <1>1, <1>2 DEF TilingInv
<1>5. IsSequence(parsed) /\ IsSequence(new)
  BY <1>2, <1>3, PartsLie DEF PassInv
<1> HIDE DEF len, S, new
<1> SUFFICES ASSUME NEW v \in Versions
             PROVE  /\ \A k \in 1 .. (at + 1) : Covers(S[k], v) =>
                         ItemsOf(schema, place, Seen(parsed', v)) = ItemsFor(Bodies(schema, place)[k], v)
                    /\ (\A k \in 1 .. (at + 1) : ~Covers(S[k], v)) => Seen(parsed', v) = <<>>
  BY <1>1 DEF SeenInv, S
<1>6. v \in Nat
  BY VersionsAssumption
<1>7. /\ \A k \in 1 .. at : Covers(S[k], v) =>
           ItemsOf(schema, place, Seen(parsed, v)) = ItemsFor(Bodies(schema, place)[k], v)
      /\ (\A k \in 1 .. at : ~Covers(S[k], v)) => Seen(parsed, v) = <<>>
  BY <1>1, <1>2 DEF SeenInv, S
<1>8. /\ Covers(S[at + 1], v) =>
           ItemsOf(schema, place, Seen(new, v)) = ItemsFor(Bodies(schema, place)[at + 1], v)
      /\ ~Covers(S[at + 1], v) => Seen(new, v) = <<>>
  BY <1>2, <1>3, <1>6, PartsShow DEF S, new, len
<1> DEFINE T == Elements(parsed) \cup Elements(new)
<1>9. parsed \in Seq(T) /\ new \in Seq(T)
  BY <1>5 DEF IsSequence
<1> HIDE DEF T
<1>10. Seen(parsed', v) = Seen(parsed, v) \o Seen(new, v)
  BY <1>1, <1>9, SeenBoth
<1>11. Seen(parsed, v) \in Seq(T) /\ Seen(new, v) \in Seq(T)
  BY <1>9, SelectedType DEF Seen
<1>12. CASE Covers(S[at + 1], v)
  <2>1. \A k \in 1 .. (at + 1) : Covers(S[k], v) => k = at + 1
    BY <1>2, <1>3, <1>4, <1>6, <1>12, TiledApart DEF S, len
  <2>2. \A k \in 1 .. at : ~Covers(S[k], v)
    BY <1>3, <2>1
  <2>3. Seen(parsed', v) = Seen(new, v)
    BY <1>7, <1>10, <1>11, <2>2, NothingAdded
  <2>4. at + 1 \in 1 .. (at + 1)
    BY <1>3
  <2> QED
    BY <1>8, <1>12, <2>1, <2>3, <2>4
<1>13. CASE ~Covers(S[at + 1], v)
  <2>1. Seen(parsed', v) = Seen(parsed, v)
    BY <1>8, <1>10, <1>11, <1>13, NothingAdded
  <2>2. \A k \in 1 .. (at + 1) : k \in 1 .. at \/ k = at + 1
    BY <1>3
  <2>3. \A k \in 1 .. at : k \in 1 .. (at + 1)
    BY <1>3
  <2> QED
    BY <1>7, <1>13, <2>1, <2>2, <2>3
<1> QED
  BY <1>12, <1>13

LEMMA SeenStep == PassInv /\ TilingInv /\ SeenInv /\ [Next]_vars => SeenInv'
<1> SUFFICES ASSUME PassInv, TilingInv, SeenInv, [Next]_vars PROVE SeenInv'
  OBVIOUS
<1>1. CASE RangesTile
  <2>1. parsed' = <<>> /\ at' = 0
    BY <1>1, NothingParsed DEF RangesTile, PassInv
  <2>2. \A k \in 1 .. 0 : FALSE
    OBVIOUS
  <2> QED
    BY <2>1, <2>2, NothingSeen DEF SeenInv
<1>2. CASE ParseBody
  BY <1>2, SeenParses
<1>3. CASE Begin \/ NextRange \/ NextGroup \/ NextModule \/ Finish \/ Reject
  <2>1. phase' # "bodies"
    BY <1>3 DEF Begin, NextRange, NextGroup, NextModule, GoTo, Finish, Reject
  <2> QED
    BY <2>1 DEF SeenInv
<1>4. CASE UNCHANGED vars
  <2>1. UNCHANGED <<schema, place, phase, at, parsed>>
    BY <1>4 DEF vars
  <2> QED
    BY <2>1 DEF SeenInv
<1> QED
  BY <1>1, <1>2, <1>3, <1>4 DEF Next, Stopped

LEMMA SeenHolds == Spec => []SeenInv
<1>1. Init => SeenInv
  BY DEF Init, SeenInv
<1> QED
  BY <1>1, SeenStep, PassHolds, TilingHolds, PTL DEF Spec

LEMMA TilingShows == PassInv /\ TilingInv /\ SeenInv => OneBodyInForce
<1> SUFFICES ASSUME PassInv, TilingInv, SeenInv, phase = "bodies", Ordered(schema, place), NEW v \in Versions
             PROVE  /\ Spans(schema, place)[1].since <= v /\ v < Last(Spans(schema, place)).until =>
                          \E k \in DOMAIN Spans(schema, place) : Covers(Spans(schema, place)[k], v)
                    /\ \A i, j \in DOMAIN parsed :
                         Covers(parsed[i], v) /\ Covers(parsed[j], v) => parsed[i].body = parsed[j].body
  BY DEF OneBodyInForce, SeenInv
<1> DEFINE S == Spans(schema, place)
           len == Len(Bodies(schema, place))
<1>1. /\ IsSchema(schema) /\ place \in Places(schema) /\ at \in 0 .. len
      /\ len \in Nat \ {0} /\ DOMAIN S = 1 .. len /\ \A k \in 1 .. len : IsRange(S[k])
  BY SchemaFacts DEF PassInv
<1>2. Tiled(schema, place, len)
  BY DEF TilingInv
<1>3. v \in Nat
  BY VersionsAssumption
<1>4. Last(S) = S[len]
  <2>1. S = [k \in 1 .. len |-> S[k]]
    BY <1>1 DEF Spans
  <2>2. Len(S) = len
    <3> HIDE DEF S, len
    <3> QED
      BY <1>1, <2>1
  <2> QED
    BY <2>2 DEF Last
<1>5. S[1].since <= v /\ v < Last(S).until => \E k \in DOMAIN S : Covers(S[k], v)
  BY <1>1, <1>2, <1>4 DEF Tiled
<1>6. ASSUME NEW i \in DOMAIN parsed, Covers(parsed[i], v)
      PROVE  parsed[i].body \in 1 .. len /\ Covers(S[parsed[i].body], v)
  <2>1. parsed[i] \in Elements(parsed)
    <3>1. parsed \in Seq(Elements(parsed))
      BY DEF PassInv, IsSequence
    <3>2. DOMAIN parsed = 1 .. Len(parsed)
      BY <3>1
    <3> QED
      BY <3>2 DEF Elements
  <2> DEFINE x == parsed[i]
  <2>2. /\ x.body \in 1 .. at /\ IsRange(x)
        /\ S[x.body].since <= x.since /\ x.until <= S[x.body].until
    BY <2>1 DEF PassInv
  <2>3. x.since <= v /\ v < x.until
    BY <1>6 DEF Covers
  <2> HIDE DEF x, S, len
  <2>4. x.body \in 1 .. len
    BY <2>2, <1>1
  <2>5. /\ S[x.body].since \in Nat /\ S[x.body].until \in Nat
        /\ x.since \in Nat /\ x.until \in Nat
    BY <2>2, <2>4, <1>1, OpenAssumption DEF IsRange
  <2>6. S[x.body].since <= v /\ v < S[x.body].until
    BY <2>2, <2>3, <2>5, <1>3
  <2> QED
    BY <2>4, <2>6 DEF Covers, x
<1>7. ASSUME NEW i \in DOMAIN parsed, NEW j \in DOMAIN parsed, Covers(parsed[i], v), Covers(parsed[j], v)
      PROVE  parsed[i].body = parsed[j].body
  BY <1>1, <1>2, <1>3, <1>6, <1>7, TiledApart
<1> QED
  BY <1>5, <1>7

\* OneBodyInForce: of a schema whose class statements each end after they begin
\* the parser accepts no name with a gap between its bodies, and at every version
\* the members or fields in force are those of one body, none dropped and none
\* counted twice (_check_redeclaration, _tighten).
THEOREM OneBody == Spec => []OneBodyInForce
BY PassHolds, TilingHolds, SeenHolds, TilingShows, PTL

-----------------------------------------------------------------------------
(* The numbers of an enum.                                                 *)

\* Each part stands for an item of its body and has the number the body gives
\* it; and the bodies of an enum that are parsed define their members against
\* earlier ones.
PartsInv ==
  phase = "bodies" =>
    /\ \A x \in Elements(parsed) :
         /\ x.item \in DOMAIN Bodies(schema, place)[x.body].items
         /\ x.number = Number(schema, place, x.body, x.item)
    /\ GroupAt(schema, place).kind = "enum" =>
         \A k \in 1 .. at : MembersParse(Bodies(schema, place)[k].items)

LEMMA PartsNumbered ==
  ASSUME NEW s, IsSchema(s), NEW p \in Places(s), NEW k \in 1 .. Len(Bodies(s, p)),
         NEW x \in Elements(PartsOf(s, p, k))
  PROVE  /\ x.body = k /\ x.item \in DOMAIN Bodies(s, p)[k].items
         /\ x.number = Number(s, p, k, x.item)
<1> DEFINE items == Bodies(s, p)[k].items
           parts == PartsOf(s, p, k)
           range == Spans(s, p)[k]
<1>1. /\ Len(parts) = Len(items) /\ DOMAIN items = 1 .. Len(items)
      /\ \A i \in 1 .. Len(items) :
           parts[i] = Part(k, i, Number(s, p, k, i), Tighten(items[i], range))
  BY PartsAre
<1> HIDE DEF items, range
<1>2. PICK i \in 1 .. Len(items) : x = parts[i]
  BY <1>1 DEF Elements
<1> HIDE DEF parts
<1>3. x = Part(k, i, Number(s, p, k, i), Tighten(items[i], range))
  BY <1>1, <1>2
<1>4. x.body = k /\ x.item = i /\ x.number = Number(s, p, k, i)
  BY <1>3 DEF Part
<1> QED
  BY <1>1, <1>4 DEF items

LEMMA PartsParse == PassInv /\ PartsInv /\ ParseBody => PartsInv'
<1> SUFFICES ASSUME PassInv, PartsInv, ParseBody PROVE PartsInv'
  OBVIOUS
<1> DEFINE len == Len(Bodies(schema, place))
           new == PartsOf(schema, place, at + 1)
<1>1. /\ phase = "bodies" /\ at < len /\ parsed' = parsed \o new /\ at' = at + 1
      /\ UNCHANGED <<schema, place, phase>>
      /\ BodyParses(schema, place, Bodies(schema, place)[at + 1])
  BY DEF ParseBody
<1>2. IsSchema(schema) /\ place \in Places(schema) /\ at \in Nat /\ at + 1 \in 1 .. len
  BY <1>1, SchemaFacts DEF PassInv
<1> HIDE DEF len
<1>3. ASSUME NEW x \in Elements(new)
      PROVE  /\ x.item \in DOMAIN Bodies(schema, place)[x.body].items
             /\ x.number = Number(schema, place, x.body, x.item)
  <2>1. /\ x.body = at + 1 /\ x.item \in DOMAIN Bodies(schema, place)[at + 1].items
        /\ x.number = Number(schema, place, at + 1, x.item)
    BY <1>2, PartsNumbered DEF len
  <2> QED
    BY <2>1
<1>4. IsSequence(parsed) /\ IsSequence(new)
  BY <1>2, PartsLie DEF PassInv, len
<1> HIDE DEF new
<1>5. \A x \in Elements(parsed') : x \in Elements(parsed) \/ x \in Elements(new)
  BY <1>1, <1>4, Appended
<1>6. \A x \in Elements(parsed') :
        /\ x.item \in DOMAIN Bodies(schema, place)[x.body].items
        /\ x.number = Number(schema, place, x.body, x.item)
  BY <1>1, <1>3, <1>5 DEF PartsInv
<1>7. ASSUME GroupAt(schema, place).kind = "enum", NEW k \in 1 .. (at + 1)
      PROVE  MembersParse(Bodies(schema, place)[k].items)
  <2>1. MembersParse(Bodies(schema, place)[at + 1].items)
    BY <1>1, <1>7 DEF BodyParses
  <2>2. k \in 1 .. at \/ k = at + 1
    BY <1>2
  <2> QED
    BY <1>1, <1>7, <2>1, <2>2 DEF PartsInv
<1> QED
  BY <1>1, <1>6, <1>7 DEF PartsInv

LEMMA PartsStep == PassInv /\ PartsInv /\ [Next]_vars => PartsInv'
<1> SUFFICES ASSUME PassInv, PartsInv, [Next]_vars PROVE PartsInv'
  OBVIOUS
<1>1. CASE RangesTile
  <2>1. parsed' = <<>> /\ at' = 0
    BY <1>1 DEF RangesTile, PassInv
  <2>2. (\A k \in 1 .. 0 : FALSE) /\ Elements(<<>>) = {}
    BY NothingParsed
  <2> QED
    BY <2>1, <2>2 DEF PartsInv
<1>2. CASE ParseBody
  BY <1>2, PartsParse
<1>3. CASE Begin \/ NextRange \/ NextGroup \/ NextModule \/ Finish \/ Reject
  <2>1. phase' # "bodies"
    BY <1>3 DEF Begin, NextRange, NextGroup, NextModule, GoTo, Finish, Reject
  <2> QED
    BY <2>1 DEF PartsInv
<1>4. CASE UNCHANGED vars
  <2>1. UNCHANGED <<schema, place, phase, at, parsed>>
    BY <1>4 DEF vars
  <2> QED
    BY <2>1 DEF PartsInv
<1> QED
  BY <1>1, <1>2, <1>3, <1>4 DEF Next, Stopped

LEMMA PartsHold == Spec => []PartsInv
<1>1. Init => PartsInv
  BY DEF Init, PartsInv
<1> QED
  BY <1>1, PartsStep, PassHolds, PTL DEF Spec

\* The parts seen of an enum, and the items they stand for.
StandFor(s, p, seen, items) ==
  /\ Len(seen) = Len(items)
  /\ \A i \in 1 .. Len(seen) :
       /\ seen[i].body \in 1 .. Len(Bodies(s, p)) /\ MembersParse(Bodies(s, p)[seen[i].body].items)
       /\ seen[i].item \in DOMAIN Bodies(s, p)[seen[i].body].items
       /\ seen[i].number = Number(s, p, seen[i].body, seen[i].item)
       /\ items[i] = ItemOf(s, p, seen[i])

LEMMA ItemsStood ==
  ASSUME NEW s, IsSchema(s), NEW p \in Places(s), GroupAt(s, p).kind = "enum",
         NEW T, NEW seen \in Seq(T), NEW items, StandFor(s, p, seen, items)
  PROVE  \A i \in 1 .. Len(seen) :
           /\ IsMember(items[i]) /\ seen[i].number \in Int
           /\ items[i].how = "number" => seen[i].number = items[i].number
<1> SUFFICES ASSUME NEW i \in 1 .. Len(seen)
             PROVE  /\ IsMember(items[i]) /\ seen[i].number \in Int
                    /\ items[i].how = "number" => seen[i].number = items[i].number
  OBVIOUS
<1> DEFINE k == seen[i].body n == seen[i].item body == Bodies(s, p)[k].items
<1>1. /\ k \in 1 .. Len(Bodies(s, p)) /\ MembersParse(body) /\ n \in DOMAIN body
      /\ seen[i].number = Number(s, p, k, n) /\ items[i] = ItemOf(s, p, seen[i])
  BY DEF StandFor
<1>2. items[i] = body[n] /\ seen[i].number = NumbersOf(body)[n]
  BY <1>1 DEF ItemOf, Number
<1>3. body \in Seq(Elements(body)) /\ \A j \in DOMAIN body : IsMember(body[j])
  <2>1. k \in DOMAIN Bodies(s, p)
    BY <1>1, SchemaFacts
  <2> QED
    BY <2>1 DEF IsSchema, IsSequence
<1> HIDE DEF k, n, body
<1>4. n \in 1 .. Len(body)
  BY <1>1, <1>3
<1>5. /\ NumbersOf(body)[n] \in Int
      /\ body[n].how = "number" => NumbersOf(body)[n] = body[n].number
  BY <1>1, <1>3, <1>4, NumbersUnfold
<1>6. IsMember(body[n])
  BY <1>1, <1>3
<1> QED
  BY <1>2, <1>5, <1>6

\* They have the numbers of those items, as if these stood alone, up to the
\* first that is written against a sibling.
LEMMA NumberedAlone ==
  ASSUME NEW s, IsSchema(s), NEW p \in Places(s), GroupAt(s, p).kind = "enum",
         NEW T, NEW seen \in Seq(T), NEW items, items \in Seq(Elements(items)),
         StandFor(s, p, seen, items), MembersParse(items),
         NEW i \in 1 .. Len(seen), \A j \in 1 .. i : items[j].how # "sibling"
  PROVE  Renumbered(s, p, seen)[i] = NumbersOf(items)[i]
<1> DEFINE len == Len(seen) r == Renumbered(s, p, seen) n == NumbersOf(items)
<1>1. /\ len \in Nat /\ len = Len(items) /\ DOMAIN items = 1 .. len
      /\ \A j \in 1 .. len : ItemOf(s, p, seen[j]) = items[j]
  BY DEF StandFor
<1>2. \A j \in 1 .. len :
        /\ IsMember(items[j]) /\ seen[j].number \in Int
        /\ items[j].how = "number" => seen[j].number = items[j].number
  BY ItemsStood
<1>3. \A j \in 1 .. len :
        /\ items[j].how = "number" => n[j] = items[j].number
        /\ items[j].how = "auto" => n[j] = IF j = 1 THEN 0 ELSE n[j - 1] + items[j - 1].count
  BY <1>1, <1>2, NumbersUnfold
<1>4. \A j \in 1 .. len : seen[j].number \in Int /\ ItemOf(s, p, seen[j]).count \in Int
  BY <1>1, <1>2 DEF IsMember
<1>5. \A j \in 1 .. len :
        r[j] = IF ItemOf(s, p, seen[j]).how # "auto" THEN seen[j].number
               ELSE IF j = 1 THEN 0 ELSE r[j - 1] + ItemOf(s, p, seen[j - 1]).count
  BY <1>4, RenumberedUnfolds
<1> HIDE DEF len, r, n
<1>6. i \in 1 .. len
  BY DEF len
<1> DEFINE K == {k \in Nat : k + 1 <= i => r[k + 1] = n[k + 1]}
<1>7. ASSUME NEW j \in 1 .. len, j <= i, j # 1 => r[j - 1] = n[j - 1]
      PROVE  r[j] = n[j]
  <2>0. j \in 1 .. i
    BY <1>1, <1>6, <1>7
  <2>1. items[j].how \in {"number", "auto"}
    BY <1>2, <2>0 DEF IsMember
  <2>2. CASE items[j].how = "number"
    <3>1. r[j] = seen[j].number
      BY <1>1, <1>5, <2>2
    <3> QED
      BY <1>2, <1>3, <2>2, <3>1
  <2>3. CASE items[j].how = "auto"
    <3>1. CASE j = 1
      BY <1>1, <1>3, <1>5, <2>3, <3>1
    <3>2. CASE j # 1
      <4>1. j - 1 \in 1 .. len
        BY <1>1, <3>2
      <4>2. r[j] = r[j - 1] + items[j - 1].count
        BY <1>1, <1>5, <2>3, <3>2, <4>1
      <4>3. n[j] = n[j - 1] + items[j - 1].count
        BY <1>3, <2>3, <3>2
      <4> QED
        BY <1>7, <3>2, <4>2, <4>3
    <3> QED
      BY <3>1, <3>2
  <2> QED
    BY <2>1, <2>2, <2>3
<1>8. 0 \in K
  <2>1. 1 \in 1 .. len /\ 1 <= i /\ 0 + 1 = 1
    BY <1>1, <1>6
  <2> QED
    BY <1>7, <2>1
<1>9. ASSUME NEW k \in Nat, k \in K PROVE k + 1 \in K
  <2> SUFFICES ASSUME (k + 1) + 1 <= i PROVE r[(k + 1) + 1] = n[(k + 1) + 1]
    OBVIOUS
  <2>1. (k + 1) + 1 \in 1 .. len /\ ((k + 1) + 1) - 1 = k + 1 /\ k + 1 <= i
    BY <1>1, <1>6
  <2>2. r[k + 1] = n[k + 1]
    BY <1>9, <2>1
  <2> QED
    BY <1>7, <2>1, <2>2
<1> HIDE DEF K
<1>10. i - 1 \in K /\ (i - 1) + 1 = i
  <2>1. Nat \subseteq K
    BY <1>8, <1>9, SetInduction
  <2> QED
    BY <1>1, <1>6, <2>1
<1>11. r[i] = n[i]
  BY <1>6, <1>10 DEF K
<1> QED
  BY <1>11 DEF r, n

\* From the first member that is written against a sibling on.
PastDerived(items) == {i \in DOMAIN items : \E j \in 1 .. i : items[j].how = "sibling"}

\* An enum that is parsed means at every version what the class statement for the
\* version says, where that would parse by itself.
EnumMeant ==
  IsParsed /\ GroupAt(schema, place).kind = "enum" /\ Ordered(schema, place) =>
    \A v \in Versions, k \in DOMAIN Bodies(schema, place) :
      LET items == ItemsFor(Bodies(schema, place)[k], v)
      IN  Covers(Spans(schema, place)[k], v) /\ MembersParse(items) =>
            MeantBy(schema, place, parsed, Bodies(schema, place)[k], v, PastDerived(items))

LEMMA PartsMean == PassInv /\ SeenInv /\ PartsInv => EnumMeant
<1> SUFFICES ASSUME PassInv, SeenInv, PartsInv, IsParsed,
                    GroupAt(schema, place).kind = "enum", Ordered(schema, place),
                    NEW v \in Versions, NEW k \in DOMAIN Bodies(schema, place),
                    Covers(Spans(schema, place)[k], v),
                    MembersParse(ItemsFor(Bodies(schema, place)[k], v))
             PROVE  MeantBy(schema, place, parsed, Bodies(schema, place)[k], v,
                            PastDerived(ItemsFor(Bodies(schema, place)[k], v)))
  BY DEF EnumMeant
<1> DEFINE items == ItemsFor(Bodies(schema, place)[k], v)
           seen == Seen(parsed, v)
           len == Len(Bodies(schema, place))
           T == Elements(parsed)
<1>1. /\ IsSchema(schema) /\ place \in Places(schema) /\ phase = "bodies" /\ at = len
      /\ len \in Nat /\ k \in 1 .. len
  BY SchemaFacts DEF PassInv, IsParsed
<1>2. ItemsOf(schema, place, seen) = items
  BY <1>1 DEF SeenInv
<1>3. seen \in Seq(T)
  BY SelectedType DEF Seen, PassInv, IsSequence
<1>4. items \in Seq(Elements(items)) /\ Len(items) = Len(seen) /\ DOMAIN items = 1 .. Len(seen)
      /\ \A i \in 1 .. Len(seen) : items[i] = ItemOf(schema, place, seen[i])
  <2> HIDE DEF seen, items, T
  <2>1. DOMAIN seen = 1 .. Len(seen) /\ Len(seen) \in Nat
    BY <1>3
  <2>2. items = [i \in 1 .. Len(seen) |-> ItemOf(schema, place, seen[i])]
    BY <1>2, <2>1 DEF ItemsOf
  <2>3. Len(items) = Len(seen) /\ DOMAIN items = 1 .. Len(seen)
    BY <2>1, <2>2
  <2>4. \A i \in 1 .. Len(seen) : items[i] \in Elements(items)
    BY <2>3 DEF Elements
  <2>5. items \in [1 .. Len(seen) -> Elements(items)]
    BY <2>2, <2>4
  <2> QED
    BY <2>1, <2>2, <2>3, <2>5
<1>5. StandFor(schema, place, seen, items)
  <2> HIDE DEF items
  <2> SUFFICES ASSUME NEW i \in 1 .. Len(seen)
               PROVE  /\ seen[i].body \in 1 .. len /\ MembersParse(Bodies(schema, place)[seen[i].body].items)
                      /\ seen[i].item \in DOMAIN Bodies(schema, place)[seen[i].body].items
                      /\ seen[i].number = Number(schema, place, seen[i].body, seen[i].item)
    BY <1>4 DEF StandFor
  <2> HIDE DEF seen, len
  <2>1. seen[i] \in Elements(parsed)
    BY <1>3
  <2>2. seen[i].body \in 1 .. len
    BY <1>1, <2>1 DEF PassInv
  <2> QED
    BY <1>1, <2>1, <2>2 DEF PartsInv
<1> HIDE DEF len, T
<1>6. ASSUME NEW i \in 1 .. Len(seen), i \notin PastDerived(items)
      PROVE  Renumbered(schema, place, seen)[i] = NumbersOf(items)[i]
  <2>1. \A j \in 1 .. i : items[j].how # "sibling"
    BY <1>4, <1>6 DEF PastDerived
  <2> HIDE DEF seen, items
  <2>2. MembersParse(items)
    BY DEF items
  <2> QED
    BY <1>1, <1>3, <1>4, <1>5, <2>1, <2>2, NumberedAlone
<1> DEFINE view == EnumView(schema, place, seen) meant == MembersFor(Bodies(schema, place)[k], v)
<1>7. /\ view = [i \in DOMAIN seen |->
           [name |-> ItemOf(schema, place, seen[i]).name, count |-> ItemOf(schema, place, seen[i]).count,
            number |-> Renumbered(schema, place, seen)[i]]]
      /\ meant = [i \in DOMAIN items |->
           [name |-> items[i].name, count |-> items[i].count, number |-> NumbersOf(items)[i]]]
  BY DEF EnumView, NumberedAs, MembersFor, Alone
<1>8. SameMembers(view, meant, PastDerived(items))
  <2> HIDE DEF view, meant, seen, items
  <2>1. DOMAIN seen = 1 .. Len(seen) /\ Len(seen) \in Nat
    BY <1>3
  <2>2. /\ Len(view) = Len(seen) /\ Len(meant) = Len(seen)
        /\ DOMAIN view = 1 .. Len(seen)
    BY <1>4, <1>7, <2>1
  <2>3. ASSUME NEW i \in 1 .. Len(seen)
        PROVE  /\ view[i].name = meant[i].name /\ view[i].count = meant[i].count
               /\ i \in PastDerived(items) \/ view[i].number = meant[i].number
    <3>1. /\ view[i].name = items[i].name /\ view[i].count = items[i].count
          /\ view[i].number = Renumbered(schema, place, seen)[i]
      BY <1>4, <1>7, <2>1
    <3>2. /\ meant[i].name = items[i].name /\ meant[i].count = items[i].count
          /\ meant[i].number = NumbersOf(items)[i]
      BY <1>4, <1>7
    <3> QED
      BY <1>6, <3>1, <3>2
  <2> QED
    BY <2>2, <2>3 DEF SameMembers
<1> QED
  BY <1>8 DEF MeantBy

\* EnumMeant: of any enum the parser accepts, the members the pool sees at a version
\* (_snapshot_view) are those of the one class statement whose range holds it, in
\* order, numbered as that statement alone would number them (_enum_number and
\* _renumber agree) up to the first that is written against a sibling.
THEOREM EnumsMeant == Spec => []EnumMeant
BY PassHolds, SeenHolds, PartsHold, PartsMean, PTL
=============================================================================
