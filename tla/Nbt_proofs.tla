----------------------------- MODULE Nbt_proofs -----------------------------
(***************************************************************************)
(* Proofs about modules NbtTree and Nbt: the lists of a tree keep to one   *)
(* type; what is written is read back, and refused wherever it is cut;     *)
(* what is accepted is written and read back; and where in a frame a       *)
(* compound or a number stands makes no difference.  They hold for every   *)
(* width of a byte, every tree and every frame.                            *)
(*                                                                         *)
(* First what calls make of a tree, then what reading comes to, by         *)
(* induction on what is left of a frame: of any frame, of a frame and what *)
(* it begins with, and of what was written of a tree, from its leaves.     *)
(***************************************************************************)
EXTENDS Nbt, Induction

\* Tags whose parts are among them; even ones, if e says so.
Kin(S, e) == \A t \in S : IsTag(t) /\ (e => Even(t)) /\ \A k \in Parts(t) : t.v[k] \in S

\* The tree is a compound, of a set of tags that holds the parts of its members.
TreeInv ==
  /\ Shallow(root) /\ root.type = Compound
  /\ \E S : root \in S /\ Kin(S, FALSE)
  /\ ~ retyped => \E S : root \in S /\ Kin(S, TRUE)

-----------------------------------------------------------------------------
(* References.                                                             *)

\* The steps of references into the tags of S.
Steps(S) == [at : UNION {Parts(u) : u \in S}, tag : S]

\* A reference leads from tag to tag by what the tags hold.
IsWay(t, ref) ==
  \A n \in 1 .. Len(ref) :
    /\ ref[n].at \in Parts(Tip(t, SubSeq(ref, 1, n - 1)))
    /\ ref[n].tag = Tip(t, SubSeq(ref, 1, n - 1)).v[ref[n].at]

LEMMA TipWithin ==
  ASSUME NEW S, NEW t \in S, NEW ref \in Seq(Steps(S))
  PROVE  Tip(t, ref) \in S
<1>1. CASE ref = <<>>
  BY <1>1 DEF Tip
<1>2. CASE ref # <<>>
  <2>1. ref[Len(ref)] \in Steps(S)
    BY <1>2
  <2>2. ref[Len(ref)].tag \in S
    BY <2>1 DEF Steps
  <2> QED
    BY <1>2, <2>2 DEF Tip, Last
<1> QED
  BY <1>1, <1>2

\* What a reference has beyond one that it begins with
Rest(ref, source) == SubSeq(ref, Len(source) + 1, Len(ref))

\* leads from the tag that one leads to where the whole leads.
LEMMA RestIsWay ==
  ASSUME NEW S, NEW t, NEW ref \in Seq(Steps(S)), IsWay(t, ref),
         NEW source \in Seq(Steps(S)), IsStrictPrefix(source, ref),
         NEW u, u = Tip(t, source)
  PROVE  /\ Rest(ref, source) \in Seq(Steps(S)) /\ Rest(ref, source) # <<>>
         /\ IsWay(u, Rest(ref, source)) /\ Tip(u, Rest(ref, source)) = Tip(t, ref)
<1> DEFINE way == Rest(ref, source)
<1>1. PICK m \in 0 .. (Len(ref) - 1) :
        way = SubSeq(ref, m + 1, Len(ref)) /\ u = Tip(t, SubSeq(ref, 1, m))
  <2>1. Len(source) <= Len(ref) /\ SubSeq(source, 1, Len(source)) = SubSeq(ref, 1, Len(source)) /\ source # ref
    BY DEF IsStrictPrefix, IsPrefix
  <2>2. SubSeq(source, 1, Len(source)) = source /\ SubSeq(ref, 1, Len(ref)) = ref
        /\ Len(source) \in Nat /\ Len(ref) \in Nat
    OBVIOUS
  <2>3. Len(source) \in 0 .. (Len(ref) - 1) /\ SubSeq(ref, 1, Len(source)) = source
    BY <2>1, <2>2
  <2> QED
    BY <2>3 DEF Rest
<1> HIDE DEF way
<1>2. /\ way \in Seq(Steps(S)) /\ Len(way) = Len(ref) - m /\ way # <<>>
      /\ m \in Nat /\ Len(ref) \in Nat /\ m < Len(ref)
      /\ \A i \in 1 .. Len(way) : way[i] = ref[m + i]
  <2>1. ASSUME NEW T, NEW s \in Seq(T), NEW r, r = SubSeq(s, m + 1, Len(s)), m < Len(s)
        PROVE  r \in Seq(T) /\ Len(r) = Len(s) - m /\ r # <<>> /\ \A i \in 1 .. Len(r) : r[i] = s[m + i]
    <3>1. m + 1 \in 1 .. Len(s) /\ Len(s) \in Nat /\ m \in Nat
      BY <2>1
    <3>2. r \in Seq(T) /\ Len(r) = Len(s) - m
      BY <2>1, <3>1
    <3>3. \A i \in 1 .. Len(r) : r[i] = s[m + i]
      <4>1. ASSUME NEW k \in 1 .. Len(s), NEW i \in 1 .. (Len(s) - k + 1)
            PROVE  SubSeq(s, k, Len(s))[i] = s[k + i - 1]
        OBVIOUS
      <4>2. ASSUME NEW i \in 1 .. Len(r) PROVE i \in 1 .. (Len(s) - (m + 1) + 1) /\ (m + 1) + i - 1 = m + i
        BY <3>1, <3>2
      <4> QED
        BY <2>1, <3>1, <4>1, <4>2
    <3>4. r # <<>>
      BY <3>1, <3>2
    <3> QED
      BY <3>2, <3>3, <3>4
  <2>2. m \in Nat /\ Len(ref) \in Nat /\ m < Len(ref)
    OBVIOUS
  <2> QED
    BY <1>1, <2>1, <2>2
<1>3. ASSUME NEW s \in Seq(Steps(S)), NEW j \in 1 .. Len(s)
      PROVE  SubSeq(s, 1, j) # <<>> /\ Len(SubSeq(s, 1, j)) = j /\ SubSeq(s, 1, j)[j] = s[j]
  <2>1. Len(SubSeq(s, 1, j)) = j /\ j # 0 /\ Len(<<>>) = 0
    OBVIOUS
  <2>2. SubSeq(s, 1, j)[j] = s[j]
    OBVIOUS
  <2>3. SubSeq(s, 1, j) # <<>>
    BY <2>1
  <2> QED
    BY <2>1, <2>2, <2>3
<1>4. ASSUME NEW j \in 0 .. Len(way)
      PROVE  Tip(u, SubSeq(way, 1, j)) = Tip(t, SubSeq(ref, 1, m + j))
  <2>1. CASE j = 0
    <3>1. SubSeq(way, 1, j) = <<>> /\ m + j = m
      BY <1>2, <2>1
    <3> QED
      BY <1>1, <3>1 DEF Tip
  <2>2. CASE j # 0
    <3>1. j \in 1 .. Len(way) /\ m + j \in 1 .. Len(ref) /\ j \in Nat /\ m + j \in Nat
      BY <1>2, <2>2
    <3> DEFINE a == SubSeq(way, 1, j)
               b == SubSeq(ref, 1, m + j)
    <3>2. a # <<>> /\ Len(a) = j /\ a[j] = way[j] /\ b # <<>> /\ Len(b) = m + j /\ b[m + j] = ref[m + j]
      BY <1>2, <1>3, <3>1
    <3>3. way[j] = ref[m + j]
      BY <1>2, <3>1
    <3> HIDE DEF a, b
    <3>4. Tip(u, a) = a[j].tag /\ Tip(t, b) = b[m + j].tag
      BY <3>2 DEF Tip, Last
    <3> QED
      BY <3>2, <3>3, <3>4 DEF a, b
  <2> QED
    BY <2>1, <2>2
<1>5. IsWay(u, way)
  <2>1. ASSUME NEW n \in 1 .. Len(way)
        PROVE  /\ way[n].at \in Parts(Tip(u, SubSeq(way, 1, n - 1)))
               /\ way[n].tag = Tip(u, SubSeq(way, 1, n - 1)).v[way[n].at]
    <3>1. n - 1 \in 0 .. Len(way) /\ m + n \in 1 .. Len(ref) /\ m + (n - 1) = (m + n) - 1 /\ way[n] = ref[m + n]
      BY <1>2
    <3>2. Tip(u, SubSeq(way, 1, n - 1)) = Tip(t, SubSeq(ref, 1, (m + n) - 1))
      BY <1>4, <3>1
    <3> QED
      BY <3>1, <3>2 DEF IsWay
  <2> QED
    BY <2>1 DEF IsWay
<1>6. Tip(u, way) = Tip(t, ref)
  <2>1. Len(way) \in 0 .. Len(way) /\ m + Len(way) = Len(ref)
        /\ SubSeq(way, 1, Len(way)) = way /\ SubSeq(ref, 1, Len(ref)) = ref
    BY <1>2
  <2> QED
    BY <1>4, <2>1
<1> QED
  BY <1>2, <1>5, <1>6 DEF way

LEMMA OnwardWithin ==
  ASSUME NEW e \in BOOLEAN, NEW S, Kin(S, e), NEW t \in S, NEW ref \in Seq(Steps(S)), IsWay(t, ref),
         NEW further \in Onward(t, ref)
  PROVE  further \in Seq(Steps(S)) /\ IsWay(t, further)
<1> DEFINE u == Tip(t, ref)
<1>1. PICK k \in Parts(u) : further = Append(ref, [at |-> k, tag |-> u.v[k]])
  BY DEF Onward, Step
<1>2. u \in S
  BY TipWithin
<1>3. [at |-> k, tag |-> u.v[k]] \in Steps(S)
  <2>1. u.v[k] \in S /\ k \in UNION {Parts(w) : w \in S}
    BY <1>2 DEF Kin
  <2> QED
    BY <2>1 DEF Steps
<1> DEFINE s == [at |-> k, tag |-> u.v[k]]
<1>4. s.at = k /\ s.tag = u.v[k]
  OBVIOUS
<1>5. s \in Steps(S) /\ further = Append(ref, s)
  BY <1>1, <1>3
<1> HIDE DEF s
<1>6. /\ further \in Seq(Steps(S)) /\ Len(further) = Len(ref) + 1 /\ Len(ref) \in Nat
      /\ further[Len(ref) + 1] = s
      /\ \A n \in 1 .. Len(ref) : further[n] = ref[n]
  BY <1>5
<1>7. \A n \in 1 .. (Len(ref) + 1) : SubSeq(further, 1, n - 1) = SubSeq(ref, 1, n - 1)
  BY <1>5, <1>6
<1>8. SubSeq(ref, 1, (Len(ref) + 1) - 1) = ref
  BY <1>6
<1>9. ASSUME NEW n \in 1 .. Len(further)
      PROVE  /\ further[n].at \in Parts(Tip(t, SubSeq(further, 1, n - 1)))
             /\ further[n].tag = Tip(t, SubSeq(further, 1, n - 1)).v[further[n].at]
  <2>1. CASE n \in 1 .. Len(ref)
    <3>1. n \in 1 .. (Len(ref) + 1)
      BY <1>6
    <3>2. further[n] = ref[n] /\ SubSeq(further, 1, n - 1) = SubSeq(ref, 1, n - 1)
      BY <1>6, <1>7, <2>1, <3>1
    <3> QED
      BY <2>1, <3>2 DEF IsWay
  <2>2. CASE n = Len(ref) + 1
    <3>1. further[n] = s /\ SubSeq(further, 1, n - 1) = ref
      BY <1>6, <1>7, <1>8, <2>2
    <3> QED
      BY <1>4, <3>1
  <2> QED
    BY <1>6, <2>1, <2>2
<1> QED
  BY <1>6, <1>9 DEF IsWay

\* References are found level by level.
Levels(f, t, d) == f = [n \in 0 .. d |-> IF n = 0 THEN {<<>>} ELSE UNION {Onward(t, r) : r \in f[n - 1]}]

LEMMA LevelsExist ==
  ASSUME NEW t, NEW d \in Nat
  PROVE  \E f : Levels(f, t, d)
<1> DEFINE Longer(X) == UNION {Onward(t, r) : r \in X}
           F(f, m) == [n \in 0 .. m |-> IF n = 0 THEN {<<>>} ELSE Longer(f[n - 1])]
           K == {m \in Nat : \E f : f = F(f, m)}
<1> HIDE DEF Longer
<1>1. 0 \in K
  <2> DEFINE f == [n \in 0 .. 0 |-> {<<>>}]
  <2>1. f = F(f, 0)
    OBVIOUS
  <2> QED
    BY <2>1
<1>2. ASSUME NEW m \in Nat, m \in K PROVE m + 1 \in K
  <2>1. PICK f : f = F(f, m)
    BY <1>2
  <2>2. \A n \in 0 .. m : f[n] = IF n = 0 THEN {<<>>} ELSE Longer(f[n - 1])
    BY <2>1
  <2> DEFINE h == [n \in 0 .. (m + 1) |-> IF n = m + 1 THEN Longer(f[m]) ELSE f[n]]
  <2>3. \A n \in 0 .. m : h[n] = f[n]
    OBVIOUS
  <2>4. h[m + 1] = Longer(f[m])
    OBVIOUS
  <2>5. h = [n \in 0 .. (m + 1) |-> h[n]]
    OBVIOUS
  <2> HIDE DEF h
  <2>6. ASSUME NEW n \in 0 .. (m + 1) PROVE h[n] = IF n = 0 THEN {<<>>} ELSE Longer(h[n - 1])
    <3>1. CASE n = m + 1
      <4>1. n # 0 /\ n - 1 = m /\ m \in 0 .. m
        BY <3>1
      <4> QED
        BY <2>3, <2>4, <3>1, <4>1
    <3>2. CASE n # m + 1
      <4>1. n \in 0 .. m /\ (n # 0 => n - 1 \in 0 .. m)
        BY <3>2
      <4> QED
        BY <2>2, <2>3, <4>1
    <3> QED
      BY <3>1, <3>2
  <2>7. h = F(h, m + 1)
    BY <2>5, <2>6
  <2> QED
    BY <2>7
<1> HIDE DEF K
<1>3. d \in K
  BY <1>1, <1>2, SetInduction
<1> QED
  BY <1>3 DEF K, Longer, Levels

LEMMA ReferencesWithin ==
  ASSUME NEW e \in BOOLEAN, NEW S, Kin(S, e), NEW t \in S, NEW ref \in References(t)
  PROVE  ref \in Seq(Steps(S)) /\ IsWay(t, ref)
<1> DEFINE D == MaxDepth
           to == CHOOSE f : f = [n \in 0 .. D |-> IF n = 0 THEN {<<>>} ELSE UNION {Onward(t, r) : r \in f[n - 1]}]
           Good(r) == r \in Seq(Steps(S)) /\ IsWay(t, r)
           K == {n \in Nat : n <= D => \A r \in to[n] : Good(r)}
<1>1. Levels(to, t, D)
  <2>1. to = CHOOSE f : Levels(f, t, D)
    BY DEF Levels
  <2> HIDE DEF to
  <2> QED
    BY <2>1, LevelsExist, DepthAssumption
<1>2. References(t) = UNION {to[n] : n \in 0 .. D}
  BY DEF References
<1> HIDE DEF to
<1>3. /\ D \in Nat /\ to[0] = {<<>>}
      /\ \A n \in 1 .. D : to[n] = UNION {Onward(t, r) : r \in to[n - 1]}
  BY <1>1, DepthAssumption DEF Levels
<1>4. 0 \in K
  <2>1. Good(<<>>)
    BY DEF IsWay
  <2> HIDE DEF Good
  <2> QED
    BY <1>3, <2>1
<1>5. ASSUME NEW n \in Nat, n \in K PROVE n + 1 \in K
  <2>1. SUFFICES ASSUME n + 1 <= D, NEW r \in to[n + 1] PROVE Good(r)
    BY DEF K
  <2>2. n + 1 \in 1 .. D /\ (n + 1) - 1 = n /\ n <= D
    BY <1>3, <2>1
  <2>3. to[n + 1] = UNION {Onward(t, q) : q \in to[n]}
    BY <1>3, <2>2
  <2>4. PICK q \in to[n] : r \in Onward(t, q)
    BY <2>1, <2>3
  <2>5. Good(q)
    BY <1>5, <2>2, <2>4
  <2> QED
    BY <2>4, <2>5, OnwardWithin
<1> HIDE DEF K
<1>6. Nat \subseteq K
  BY <1>4, <1>5, SetInduction
<1>7. PICK n \in 0 .. D : ref \in to[n]
  BY <1>2
<1> QED
  BY <1>3, <1>6, <1>7 DEF K

-----------------------------------------------------------------------------
(* Replacing.                                                              *)

\* So is a tag replaced: a[n] is the tag n steps out, b[n] what it holds the
\* one inside by.
Grafts(f, x, a, b, d) == f = [n \in 0 .. d |-> IF n = 0 THEN x ELSE [a[n] EXCEPT !.v[b[n]] = f[n - 1]]]

LEMMA GraftsExist ==
  ASSUME NEW x, NEW a, NEW b, NEW d \in Nat
  PROVE  \E f : Grafts(f, x, a, b, d)
<1> DEFINE Graft(n, y) == [a[n] EXCEPT !.v[b[n]] = y]
           F(f, m) == [n \in 0 .. m |-> IF n = 0 THEN x ELSE Graft(n, f[n - 1])]
           K == {m \in Nat : \E f : f = F(f, m)}
<1> HIDE DEF Graft
<1>1. 0 \in K
  <2> DEFINE f == [n \in 0 .. 0 |-> x]
  <2>1. f = F(f, 0)
    OBVIOUS
  <2> QED
    BY <2>1
<1>2. ASSUME NEW m \in Nat, m \in K PROVE m + 1 \in K
  <2>1. PICK f : f = F(f, m)
    BY <1>2
  <2>2. \A n \in 0 .. m : f[n] = IF n = 0 THEN x ELSE Graft(n, f[n - 1])
    BY <2>1
  <2> DEFINE h == [n \in 0 .. (m + 1) |-> IF n = m + 1 THEN Graft(n, f[m]) ELSE f[n]]
  <2>3. \A n \in 0 .. m : h[n] = f[n]
    OBVIOUS
  <2>4. h[m + 1] = Graft(m + 1, f[m])
    OBVIOUS
  <2>5. h = [n \in 0 .. (m + 1) |-> h[n]]
    OBVIOUS
  <2> HIDE DEF h
  <2>6. ASSUME NEW n \in 0 .. (m + 1) PROVE h[n] = IF n = 0 THEN x ELSE Graft(n, h[n - 1])
    <3>1. CASE n = m + 1
      <4>1. n # 0 /\ n - 1 = m /\ m \in 0 .. m
        BY <3>1
      <4> QED
        BY <2>3, <2>4, <3>1, <4>1
    <3>2. CASE n # m + 1
      <4>1. n \in 0 .. m /\ (n # 0 => n - 1 \in 0 .. m)
        BY <3>2
      <4> QED
        BY <2>2, <2>3, <4>1
    <3> QED
      BY <3>1, <3>2
  <2>7. h = F(h, m + 1)
    BY <2>5, <2>6
  <2> QED
    BY <2>7
<1> HIDE DEF K
<1>3. d \in K
  BY <1>1, <1>2, SetInduction
<1> QED
  BY <1>3 DEF K, Graft, Grafts

\* What may stand in the place of u, in the family S.
Fits(x, S, e) == IsTag(x) /\ (e => Even(x)) /\ \A k \in Parts(x) : x.v[k] \in S

\* A tag of the family with one of its parts replaced by one of its type, unless
\* it is a compound's.
LEMMA PartReplaced ==
  ASSUME NEW e \in BOOLEAN, NEW S, NEW u, NEW k \in Parts(u), NEW y \in S, IsTag(u), e => Even(u),
         \A j \in Parts(u) : u.v[j] \in S,
         e /\ u.type = List => y.type = u.v[k].type
  PROVE  LET w == [u EXCEPT !.v[k] = y] IN Fits(w, S, e) /\ w.type = u.type
<1> DEFINE w == [u EXCEPT !.v[k] = y]
<1>1. u = [type |-> u.type, of |-> u.of, v |-> u.v]
  BY DEF IsTag
<1>2. w = [type |-> u.type, of |-> u.of, v |-> [u.v EXCEPT ![k] = y]]
  BY <1>1
<1> HIDE DEF w
<1>3. u.type \in {List, Compound} /\ Parts(u) = DOMAIN u.v /\ k \in DOMAIN u.v
  BY DEF Parts
<1>4. /\ w = [type |-> w.type, of |-> w.of, v |-> w.v] /\ w.type = u.type /\ w.of = u.of
      /\ DOMAIN w.v = DOMAIN u.v
  BY <1>2
<1>5. \A j \in DOMAIN u.v : w.v[j] = IF j = k THEN y ELSE u.v[j]
  BY <1>2, <1>3
<1>6. w.v = [j \in DOMAIN w.v |-> w.v[j]]
  BY <1>2
<1>7. u.type = List => w.v \in Seq({w.v[i] : i \in DOMAIN w.v}) /\ Len(w.v) = Len(u.v)
  <2>1. SUFFICES ASSUME u.type = List PROVE w.v \in Seq({w.v[i] : i \in DOMAIN w.v}) /\ Len(w.v) = Len(u.v)
    OBVIOUS
  <2>2. Len(u.v) \in Nat /\ DOMAIN u.v = 1 .. Len(u.v)
    BY <2>1 DEF IsTag
  <2> DEFINE E == {w.v[i] : i \in DOMAIN w.v}
  <2>3. w.v \in [1 .. Len(u.v) -> E]
    BY <1>4, <1>6, <2>2
  <2> HIDE DEF E
  <2>4. w.v \in Seq(E) /\ Len(w.v) = Len(u.v)
    BY <2>2, <2>3
  <2> QED
    BY <2>4 DEF E
<1>8. IsTag(w)
  <2>1. u.type # End /\ u.type # Value /\ u.type # Bytes
    BY <1>3 DEF End, Value, Bytes, List, Compound
  <2> QED
    BY <1>4, <1>6, <1>7, <2>1 DEF IsTag, Countable
<1>9. e => Even(w)
  BY <1>3, <1>4, <1>5 DEF Even
<1>10. \A j \in Parts(w) : w.v[j] \in S
  BY <1>3, <1>4, <1>5 DEF Parts
<1> QED
  BY <1>4, <1>8, <1>9, <1>10 DEF Fits, w

LEMMA WithStays ==
  ASSUME NEW e \in BOOLEAN, NEW S, Kin(S, e), NEW t \in S, NEW ref \in Seq(Steps(S)), IsWay(t, ref),
         NEW x, Fits(x, S, e),
         e /\ ref # <<>> /\ Tip(t, Front(ref)).type = List => x.type = Tip(t, ref).type
  PROVE  /\ \E R : With(t, ref, x) \in R /\ Kin(R, e)
         /\ With(t, ref, x).type = IF ref = <<>> THEN x.type ELSE t.type
<1> DEFINE L == Len(ref)
           Upto(n) == Tip(t, SubSeq(ref, 1, L - n))
           a == [n \in 1 .. L |-> Upto(n)]
           b == [n \in 1 .. L |-> ref[L - n + 1].at]
           F(f) == [n \in 0 .. L |-> IF n = 0 THEN x ELSE [Upto(n) EXCEPT !.v[ref[L - n + 1].at] = f[n - 1]]]
           G(f) == [n \in 0 .. L |-> IF n = 0 THEN x ELSE [a[n] EXCEPT !.v[b[n]] = f[n - 1]]]
           from == CHOOSE f : f = F(f)
<1>1. L \in Nat
  OBVIOUS
<1>2. from = F(from)
  <2>1. PICK f : Grafts(f, x, a, b, L)
    <3> HIDE DEF L, a, b
    <3> QED
      BY <1>1, GraftsExist
  <2>2. f = G(f)
    BY <2>1 DEF Grafts
  <2>3. G(f) = F(f)
    <3>1. ASSUME NEW n \in 0 .. L, n # 0 PROVE a[n] = Upto(n) /\ b[n] = ref[L - n + 1].at
      <4>1. n \in 1 .. L
        BY <1>1, <3>1
      <4> HIDE DEF L, Upto
      <4> QED
        BY <4>1
    <3> HIDE DEF L, a, b, Upto
    <3> QED
      BY <3>1
  <2>4. f = F(f)
    BY <2>2, <2>3
  <2> HIDE DEF F
  <2> QED
    BY <2>4
<1>3. With(t, ref, x) = from[L]
  BY DEF With
<1> HIDE DEF from
<1>4. /\ from[0] = x
      /\ \A n \in 1 .. L : from[n] = [Upto(n) EXCEPT !.v[ref[L - n + 1].at] = from[n - 1]]
  <2> HIDE DEF L, Upto
  <2>1. \A n \in 0 .. L : from[n] = IF n = 0 THEN x ELSE [Upto(n) EXCEPT !.v[ref[L - n + 1].at] = from[n - 1]]
    BY <1>2
  <2>2. 0 \in 0 .. L /\ \A n \in 1 .. L : n \in 0 .. L /\ n # 0
    BY <1>1
  <2> QED
    BY <2>1, <2>2
<1> DEFINE R == S \cup {from[n] : n \in 0 .. L}
           Well(n) == Fits(from[n], R, e) /\ (n > 0 => from[n].type = Upto(n).type)
           K == {n \in Nat : n <= L => Well(n)}
<1>5. ASSUME NEW n \in 0 .. L PROVE Upto(n) \in S /\ from[n] \in R
  <2>1. SubSeq(ref, 1, L - n) \in Seq(Steps(S))
    BY <1>1
  <2> QED
    BY <2>1, TipWithin
<1>6. ASSUME NEW n \in 0 .. (L - 1)
      PROVE  /\ ref[L - n].at \in Parts(Upto(n + 1))
             /\ Upto(n + 1).v[ref[L - n].at] = Upto(n)
  <2>1. L - n \in 1 .. Len(ref) /\ (L - n) - 1 = L - (n + 1) /\ L - n \in 1 .. L
    BY <1>1
  <2>2. /\ ref[L - n].at \in Parts(Upto(n + 1))
        /\ ref[L - n].tag = Upto(n + 1).v[ref[L - n].at]
    BY <2>1 DEF IsWay
  <2>3. Upto(n) = ref[L - n].tag
    <3> DEFINE r == SubSeq(ref, 1, L - n)
    <3>1. r # <<>> /\ Len(r) = L - n /\ r[L - n] = ref[L - n]
      <4>1. \A m \in 1 .. Len(ref) :
              LET q == SubSeq(ref, 1, m) IN q # <<>> /\ Len(q) = m /\ q[m] = ref[m]
        OBVIOUS
      <4> QED
        BY <2>1, <4>1
    <3>2. Upto(n) = Tip(t, r)
      OBVIOUS
    <3> HIDE DEF L, r, Upto
    <3> QED
      BY <3>1, <3>2 DEF Tip, Last
  <2> QED
    BY <2>2, <2>3
<1>7. L > 0 => Tip(t, Front(ref)) = Upto(1) /\ Tip(t, ref) = Upto(0) /\ ref # <<>>
  <2>1. L > 0 => Front(ref) = SubSeq(ref, 1, L - 1) /\ SubSeq(ref, 1, L - 0) = ref /\ ref # <<>>
    BY <1>1 DEF Front
  <2> QED
    BY <2>1
<1> HIDE DEF Upto
<1>8. 0 \in K
  <2>1. Fits(x, R, e)
    BY DEF Fits
  <2> HIDE DEF R
  <2> QED
    BY <1>4, <2>1
<1>9. ASSUME NEW n \in Nat, n \in K PROVE n + 1 \in K
  <2>1. SUFFICES ASSUME n + 1 <= L PROVE Well(n + 1)
    BY DEF K
  <2>2. n \in 0 .. (L - 1) /\ n + 1 \in 1 .. L /\ n \in 0 .. L /\ n + 1 \in 0 .. L
        /\ L - (n + 1) + 1 = L - n /\ (n + 1) - 1 = n /\ n <= L
    BY <1>1, <2>1
  <2> DEFINE u == Upto(n + 1)
             k == ref[L - n].at
             y == from[n]
  <2>3. from[n + 1] = [u EXCEPT !.v[k] = y]
    BY <1>4, <2>2
  <2>4. Well(n)
    BY <1>9, <2>2
  <2>5. u \in S /\ k \in Parts(u) /\ u.v[k] = Upto(n)
    BY <1>5, <1>6, <2>2
  <2>6. y \in R
    BY <1>5, <2>2
  <2>7. IsTag(u) /\ (e => Even(u)) /\ \A j \in Parts(u) : u.v[j] \in R
    BY <2>5 DEF Kin
  <2>8. e /\ u.type = List => y.type = u.v[k].type
    <3>1. CASE n = 0
      <4>1. L > 0 /\ Upto(n) = Upto(0) /\ u = Upto(1) /\ y = x
        BY <1>1, <1>4, <2>2, <3>1
      <4> QED
        BY <1>7, <2>5, <4>1
    <3>2. CASE n # 0
      <4>1. n > 0
        BY <2>2, <3>2
      <4> QED
        BY <2>4, <2>5, <4>1
    <3> QED
      BY <3>1, <3>2
  <2>9. u = Upto(n + 1)
    OBVIOUS
  <2> HIDE DEF R, u, k, y
  <2>10. Fits([u EXCEPT !.v[k] = y], R, e) /\ [u EXCEPT !.v[k] = y].type = u.type
    BY <2>5, <2>6, <2>7, <2>8, PartReplaced
  <2> QED
    BY <2>3, <2>9, <2>10
<1> HIDE DEF K
<1>10. Nat \subseteq K
  BY <1>8, <1>9, SetInduction
<1>11. \A n \in 0 .. L : Fits(from[n], R, e)
  <2>1. \A n \in 0 .. L : n \in Nat /\ n <= L
    BY <1>1
  <2> HIDE DEF L, R
  <2> QED
    BY <1>10, <2>1 DEF K
<1>12. \A u \in S : Fits(u, R, e)
  BY DEF Kin, Fits
<1>13. Kin(R, e)
  <2>1. \A u \in R : Fits(u, R, e)
    BY <1>11, <1>12
  <2> HIDE DEF R
  <2> QED
    BY <2>1 DEF Fits, Kin
<1>14. With(t, ref, x) \in R
  <2>1. L \in 0 .. L
    BY <1>1
  <2> HIDE DEF L
  <2> QED
    BY <1>3, <2>1
<1>15. With(t, ref, x).type = IF ref = <<>> THEN x.type ELSE t.type
  <2>1. CASE ref = <<>>
    <3>1. L = 0
      BY <2>1
    <3> HIDE DEF L
    <3> QED
      BY <1>3, <1>4, <2>1, <3>1
  <2>2. CASE ref # <<>>
    <3>1. L > 0
      BY <2>2
    <3>2. Upto(L) = t
      <4>1. L - L = 0 /\ SubSeq(ref, 1, 0) = <<>>
        BY <1>1
      <4> HIDE DEF L
      <4>2. Upto(L) = Tip(t, <<>>)
        BY <4>1 DEF Upto
      <4> QED
        BY <4>2 DEF Tip
    <3> HIDE DEF L, R
    <3>3. Well(L)
      BY <1>1, <1>10 DEF K
    <3> QED
      BY <1>3, <2>2, <3>1, <3>2, <3>3
  <2> QED
    BY <2>1, <2>2
<1> HIDE DEF R
<1> QED
  BY <1>13, <1>14, <1>15

-----------------------------------------------------------------------------
(* What the calls put in a tag's place.                                    *)

\* What a container becomes when it is emptied, and what one begins as.
LEMMA EmptiedFits ==
  ASSUME NEW e \in BOOLEAN, NEW S, NEW type \in {Bytes, List, Compound}
  PROVE  Fits(Tag(type, <<>>), S, e) /\ Tag(type, <<>>).type = type
<1> DEFINE u == Tag(type, <<>>)
<1>1. /\ u = [type |-> u.type, of |-> u.of, v |-> u.v]
      /\ u.type = type /\ u.of = End /\ u.v = <<>> /\ DOMAIN u.v = {}
  BY DEF Tag
<1> HIDE DEF u
<1>2. u.v = [n \in DOMAIN u.v |-> u.v[n]]
  BY <1>1
<1>3. u.v \in Seq({u.v[i] : i \in DOMAIN u.v})
  BY <1>1
<1>4. IsTag(u)
  <2>1. Countable(u.v) /\ u.v \in Seq(Byte) /\ DOMAIN u.v \subseteq Byte
    BY <1>1, SizeAssumption, BaseAssumption DEF Countable
  <2>2. type \in End .. Compound /\ End \in End .. Compound /\ type # End /\ type # Value
    BY DEF End, Value, Bytes, List, Compound
  <2> QED
    BY <1>1, <1>2, <1>3, <2>1, <2>2 DEF IsTag
<1> QED
  BY <1>1, <1>4 DEF Fits, Even, Parts, u

\* What a list becomes when the elements are v.
LEMMA ElementsFit ==
  ASSUME NEW e \in BOOLEAN, NEW S, NEW of \in End .. Compound, NEW v \in Seq(S), Countable(v),
         NEW u, u = [type |-> List, of |-> of, v |-> v],
         e => \A i \in DOMAIN v : v[i].type = of /\ of # End
  PROVE  Fits(u, S, e)
<1>1. u.type = List /\ u.of = of /\ u.v = v
  OBVIOUS
<1>2. DOMAIN v = 1 .. Len(v) /\ Len(v) \in Nat /\ \A i \in DOMAIN v : v[i] \in S
  OBVIOUS
<1>3. v \in Seq({v[i] : i \in DOMAIN v})
  <2> DEFINE E == {v[i] : i \in DOMAIN v}
  <2>1. v = [i \in 1 .. Len(v) |-> v[i]] /\ \A i \in 1 .. Len(v) : v[i] \in E
    BY <1>2
  <2> HIDE DEF E
  <2>2. v \in [1 .. Len(v) -> E]
    BY <2>1
  <2>3. v \in Seq(E)
    BY <1>2, <2>2
  <2> QED
    BY <2>3 DEF E
<1>4. u.type \in End .. Compound /\ u.type # Compound /\ u.type # End /\ u.type # Value /\ u.type # Bytes
  BY <1>1 DEF End, Value, Bytes, List, Compound
<1>5. IsTag(u)
  BY <1>1, <1>3, <1>4 DEF IsTag
<1> QED
  BY <1>1, <1>2, <1>5 DEF Fits, Even, Parts

\* What a compound becomes when the entries are v.
LEMMA EntriesFit ==
  ASSUME NEW e \in BOOLEAN, NEW S, NEW v, v = [n \in DOMAIN v |-> v[n]], DOMAIN v \subseteq Byte,
         \A n \in DOMAIN v : v[n] \in S, NEW u, u = [type |-> Compound, of |-> End, v |-> v]
  PROVE  Fits(u, S, e)
<1>1. u.type = Compound /\ u.of = End /\ u.v = v /\ u.type # List
  BY DEF List, Compound
<1>2. IsTag(u)
  BY <1>1 DEF IsTag, End, Value, Bytes, List, Compound
<1> QED
  BY <1>1, <1>2 DEF Fits, Even, Parts

\* push_back: a list that has a type takes no other, one that has none has no
\* elements.
LEMMA PushedFits ==
  ASSUME NEW e \in BOOLEAN, NEW S, NEW t, Fits(t, S, e), t.type = List, Len(t.v) < MaxSize,
         NEW x \in S, IsTag(x), CanHold(t, x)
  PROVE  Fits(Pushed(t, x), S, e) /\ Pushed(t, x).type = t.type
<1>1. t = [type |-> List, of |-> t.of, v |-> t.v] /\ t.v \in Seq({t.v[i] : i \in DOMAIN t.v})
  BY DEF Fits, IsTag
<1>2. \A i \in DOMAIN t.v : t.v[i] \in S /\ (e => t.v[i].type = t.of /\ t.of # End)
  BY DEF Fits, Even, Parts
<1>3. t.v \in Seq(S)
  <2>1. {t.v[i] : i \in DOMAIN t.v} \subseteq S
    BY <1>2
  <2> QED
    BY <1>1, <2>1
<1> DEFINE u == Pushed(t, x)
<1>4. u = [type |-> List, of |-> x.type, v |-> Append(t.v, x)]
  BY DEF Pushed
<1> HIDE DEF u
<1> DEFINE v == Append(t.v, x)
<1>5. v \in Seq(S)
  BY <1>3
<1>6. ASSUME e, NEW i \in DOMAIN v PROVE v[i].type = x.type /\ x.type # End
  <2>1. i = Len(t.v) + 1 \/ (i \in DOMAIN t.v /\ v[i] = t.v[i])
    <3>1. ASSUME NEW w \in Seq(S), NEW n \in DOMAIN Append(w, x)
          PROVE  n = Len(w) + 1 \/ (n \in DOMAIN w /\ Append(w, x)[n] = w[n])
      <4>1. n \in 1 .. Len(w) \/ n = Len(w) + 1
        OBVIOUS
      <4> QED
        BY <4>1
    <3> QED
      BY <1>3, <3>1
  <2>2. v[Len(t.v) + 1] = x
    BY <1>3
  <2> HIDE DEF v
  <2> QED
    BY <1>2, <1>6, <2>1, <2>2 DEF CanHold
<1>7. Countable(v)
  <2>1. Len(v) = Len(t.v) + 1 /\ Len(t.v) \in Nat
    BY <1>3
  <2> HIDE DEF v
  <2> QED
    BY <2>1, SizeAssumption, BaseAssumption DEF Countable
<1> HIDE DEF v
<1>8. x.type \in End .. Compound
  BY DEF IsTag
<1>9. Fits([type |-> List, of |-> x.type, v |-> v], S, e)
  BY <1>5, <1>6, <1>7, <1>8, ElementsFit
<1> QED
  BY <1>1, <1>4, <1>9 DEF u, v

\* Tag::emplace_back
LEMMA PushedOrNot ==
  ASSUME NEW e \in BOOLEAN, NEW S, NEW t, Fits(t, S, e), t.type = List => Len(t.v) < MaxSize,
         NEW x \in S, IsTag(x), NEW u, u = IF t.type = List /\ CanHold(t, x) THEN Pushed(t, x) ELSE t
  PROVE  Fits(u, S, e) /\ u.type = t.type
<1>1. CASE t.type = List /\ CanHold(t, x)
  BY <1>1, PushedFits
<1>2. CASE ~ (t.type = List /\ CanHold(t, x))
  BY <1>2
<1> QED
  BY <1>1, <1>2

\* erase
LEMMA ErasedFits ==
  ASSUME NEW e \in BOOLEAN, NEW S, NEW t, Fits(t, S, e), t.type = List, NEW i \in DOMAIN t.v,
         NEW u, u = [t EXCEPT !.v = RemoveAt(@, i)]
  PROVE  Fits(u, S, e) /\ u.type = t.type
<1>1. t = [type |-> List, of |-> t.of, v |-> t.v] /\ t.v \in Seq({t.v[j] : j \in DOMAIN t.v})
  BY DEF Fits, IsTag
<1> DEFINE Held == {y \in S : e => y.type = t.of /\ t.of # End}
<1>2. \A j \in DOMAIN t.v : t.v[j] \in Held
  BY DEF Fits, Even, Parts
<1>3. t.v \in Seq(Held)
  <2>1. {t.v[j] : j \in DOMAIN t.v} \subseteq Held
    BY <1>2
  <2> HIDE DEF Held
  <2> QED
    BY <1>1, <2>1
<1> DEFINE v == RemoveAt(t.v, i)
<1>4. v \in Seq(Held) /\ Len(v) <= Len(t.v) /\ Len(v) \in Nat
  <2>1. ASSUME NEW H, NEW w \in Seq(H), NEW j \in DOMAIN w
        PROVE  RemoveAt(w, j) \in Seq(H) /\ Len(RemoveAt(w, j)) <= Len(w) /\ Len(RemoveAt(w, j)) \in Nat
    <3>1. j \in 1 .. Len(w) /\ Len(w) \in Nat
      OBVIOUS
    <3>2. SubSeq(w, 1, j - 1) \in Seq(H) /\ Len(SubSeq(w, 1, j - 1)) = j - 1
      BY <3>1
    <3>3. SubSeq(w, j + 1, Len(w)) \in Seq(H) /\ Len(SubSeq(w, j + 1, Len(w))) = Len(w) - j
      BY <3>1
    <3>4. ASSUME NEW a \in Seq(H), NEW b \in Seq(H)
          PROVE  a \o b \in Seq(H) /\ Len(a \o b) = Len(a) + Len(b)
      OBVIOUS
    <3> HIDE DEF v
    <3> QED
      BY <3>1, <3>2, <3>3, <3>4 DEF RemoveAt
  <2> HIDE DEF Held
  <2> QED
    BY <1>3, <2>1
<1>5. u = [type |-> List, of |-> t.of, v |-> v]
  BY <1>1
<1> HIDE DEF v
<1>6. v \in Seq(S) /\ (e => \A j \in DOMAIN v : v[j].type = t.of /\ t.of # End)
  <2>1. Held \subseteq S /\ \A y \in Held : e => y.type = t.of /\ t.of # End
    OBVIOUS
  <2> HIDE DEF Held
  <2>2. \A j \in DOMAIN v : v[j] \in Held
    BY <1>4
  <2> QED
    BY <1>4, <2>1, <2>2
<1>7. Countable(v) /\ t.of \in End .. Compound
  <2>1. Countable(t.v) /\ t.of \in End .. Compound /\ Len(t.v) \in Nat
    BY <1>3 DEF Fits, IsTag
  <2> HIDE DEF Held
  <2> QED
    BY <1>4, <2>1, BaseAssumption DEF Countable
<1>8. Fits(u, S, e)
  <2> HIDE DEF Held
  <2> QED
    BY <1>5, <1>6, <1>7, ElementsFit
<1> QED
  BY <1>1, <1>5, <1>8

\* emplace, insert, try_emplace, merge and, the other way round, insert_or_assign
LEMMA JoinedFits ==
  ASSUME NEW e \in BOOLEAN, NEW S, NEW t, t = [type |-> Compound, of |-> End, v |-> t.v],
         NEW v, NEW w, DOMAIN v \subseteq Byte, DOMAIN w \subseteq Byte,
         \A n \in DOMAIN v : v[n] \in S, \A n \in DOMAIN w : w[n] \in S,
         NEW u, u = [t EXCEPT !.v = Joined(v, w)]
  PROVE  Fits(u, S, e) /\ u.type = t.type
<1> DEFINE j == Joined(v, w)
<1>1. /\ j = [n \in DOMAIN j |-> j[n]] /\ DOMAIN j \subseteq Byte
      /\ \A n \in DOMAIN j : j[n] \in S
  BY DEF Joined
<1> HIDE DEF j
<1>2. u = [type |-> Compound, of |-> End, v |-> j]
  BY DEF j
<1>3. Fits(u, S, e)
  BY <1>1, <1>2, EntriesFit
<1> QED
  BY <1>2, <1>3

-----------------------------------------------------------------------------
(* Calls.                                                                  *)

\* A family that tags are replaced in: those of the tree, and those calls bring.
LEMMA Widened ==
  ASSUME NEW e \in BOOLEAN, NEW S, Kin(S, e)
  PROVE  Kin(S \cup Arguments \cup {EndTag}, e)
<1> DEFINE T == S \cup Arguments \cup {EndTag}
<1>1. IsTag(EndTag) /\ Even(EndTag) /\ Parts(EndTag) = {}
  BY DEF EndTag, Tag, IsTag, Even, Parts, End, Value, Bytes, List, Compound
<1>2. ASSUME NEW t \in S PROVE IsTag(t) /\ (e => Even(t)) /\ \A k \in Parts(t) : t.v[k] \in T
  BY DEF Kin
<1>3. ASSUME NEW t \in Arguments PROVE IsTag(t) /\ (e => Even(t)) /\ \A k \in Parts(t) : t.v[k] \in T
  BY ArgumentsAssumption DEF Family
<1>4. ASSUME NEW t \in T PROVE IsTag(t) /\ (e => Even(t)) /\ \A k \in Parts(t) : t.v[k] \in T
  <2>1. t \in S \/ t \in Arguments \/ t = EndTag
    OBVIOUS
  <2> HIDE DEF T
  <2> QED
    BY <1>1, <1>2, <1>3, <2>1
<1> QED
  BY <1>4 DEF Kin

\* A reference of the tree leads to a tag of the family,
LEMMA LedTo ==
  ASSUME NEW e \in BOOLEAN, NEW S, Kin(S, e), root \in S, NEW ref \in References(root)
  PROVE  At(ref) \in S /\ Fits(At(ref), S, e)
<1>1. At(ref) \in S
  BY ReferencesWithin, TipWithin DEF At
<1> QED
  BY <1>1 DEF Kin, Fits

\* and one to an element of a list to no End tag.
LEMMA ElementIsNoEnd ==
  ASSUME NEW e \in BOOLEAN, NEW S, Kin(S, e), root \in S, NEW ref \in References(root),
         e, ref # <<>>, At(Front(ref)).type = List
  PROVE  At(ref).type # End
<1> DEFINE n == Len(ref)
           u == At(Front(ref))
<1>1. ref \in Seq(Steps(S)) /\ IsWay(root, ref)
  BY ReferencesWithin
<1>2. n \in 1 .. Len(ref) /\ Front(ref) = SubSeq(ref, 1, n - 1) /\ Front(ref) \in Seq(Steps(S))
  BY <1>1 DEF Front
<1>3. u \in S
  BY <1>2, TipWithin DEF At
<1>4. ref[n].at \in Parts(u) /\ ref[n].tag = u.v[ref[n].at]
  BY <1>1, <1>2 DEF IsWay, At
<1>5. At(ref) = ref[n].tag
  BY DEF At, Tip, Last
<1>6. \A i \in DOMAIN u.v : u.v[i].type = u.of /\ u.of # End
  BY <1>3 DEF Kin, Even
<1>7. Parts(u) = DOMAIN u.v
  BY DEF Parts
<1> HIDE DEF n, u
<1> QED
  BY <1>4, <1>5, <1>6, <1>7

\* The root is a compound of a family still.
Kept(e) == root'.type = Compound /\ \E R : root' \in R /\ Kin(R, e)

\* A call keeps the family when what it puts in a tag's place fits there.
LEMMA CallStays ==
  ASSUME NEW e \in BOOLEAN, NEW S, Kin(S, e), root \in S, NEW ref \in References(root), NEW x, Fits(x, S, e), Call(ref, x),
         e /\ ref # <<>> /\ At(Front(ref)).type = List => x.type = At(ref).type,
         root.type = Compound, ref = <<>> => x.type = Compound
  PROVE  Kept(e)
<1>1. ref \in Seq(Steps(S)) /\ IsWay(root, ref)
  BY ReferencesWithin
<1>2. /\ \E R : With(root, ref, x) \in R /\ Kin(R, e)
      /\ With(root, ref, x).type = IF ref = <<>> THEN x.type ELSE root.type
  BY <1>1, WithStays DEF At
<1> QED
  BY <1>2 DEF Call, Kept

\* What End became, what was no End stayed.
LEMMA BecomeFits ==
  ASSUME NEW e \in BOOLEAN, NEW S, NEW t, Fits(t, S, e), NEW empty \in {ListOf(End), EmptyCompound}
  PROVE  Fits(Become(t, empty), S, e) /\ (t.type # End => Become(t, empty).type = t.type)
<1>1. CASE t.type = End
  <2>1. empty = Tag(List, <<>>) \/ empty = Tag(Compound, <<>>)
    BY DEF ListOf, EmptyCompound, Tag
  <2>2. Fits(empty, S, e)
    BY <2>1, EmptiedFits
  <2> QED
    BY <1>1, <2>2 DEF Become
<1>2. CASE t.type # End
  BY <1>2 DEF Become
<1> QED
  BY <1>1, <1>2

\* What Tag's and CompoundTag's members put in the place of a tag t.
LEMMA Emplaced ==
  ASSUME NEW e \in BOOLEAN, NEW S, NEW t, Fits(t, S, e),
         NEW v, DOMAIN v \subseteq Byte, \A n \in DOMAIN v : v[n] \in S,
         NEW u, u = IF t.type = Compound THEN [t EXCEPT !.v = Joined(@, v)] ELSE t
  PROVE  Fits(u, S, e) /\ u.type = t.type
<1>1. CASE t.type = Compound
  <2>1. t = [type |-> Compound, of |-> End, v |-> t.v] /\ DOMAIN t.v \subseteq Byte
    <3>1. t.type # List
      BY <1>1 DEF List, Compound
    <3> QED
      BY <1>1, <3>1 DEF Fits, IsTag
  <2>2. \A n \in DOMAIN t.v : t.v[n] \in S
    BY <1>1 DEF Fits, Parts
  <2>3. u = [t EXCEPT !.v = Joined(t.v, v)]
    BY <1>1
  <2> QED
    BY <2>1, <2>2, <2>3, JoinedFits
<1>2. CASE t.type # Compound
  BY <1>2
<1> QED
  BY <1>1, <1>2

LEMMA EntryOf ==
  ASSUME NEW S, NEW name \in Byte, NEW x \in S
  PROVE  DOMAIN Entry(name, x) \subseteq Byte /\ \A n \in DOMAIN Entry(name, x) : Entry(name, x)[n] \in S
BY DEF Entry

\* Every call that does not assign leaves a tag of the type it found, unless it
\* found End, and so stays.
LEMMA Changed ==
  ASSUME NEW e \in BOOLEAN, NEW S, Kin(S, e), root \in S, NEW ref \in References(root), NEW t, NEW x, Fits(x, S, e),
         x.type = t.type, At(ref).type # End => t.type = At(ref).type, Call(ref, x), root.type = Compound
  PROVE  Kept(e)
<1>1. e /\ ref # <<>> /\ At(Front(ref)).type = List => x.type = At(ref).type
  BY ElementIsNoEnd
<1>2. ref = <<>> => x.type = Compound
  <2>1. ref = <<>> => At(ref) = root
    BY DEF At, Tip
  <2> QED
    BY <2>1 DEF End, Compound
<1> QED
  BY <1>1, <1>2, CallStays

\* The compound merge goes through is of a family that holds the tree's, also
\* where it changes as it is gone through.
LEMMA MetFits ==
  ASSUME NEW e \in BOOLEAN, NEW S, Kin(S, e), root \in S,
         NEW ref \in References(root), NEW source \in References(root),
         At(ref).type = Compound, At(source).type = Compound
  PROVE  \E R : S \subseteq R /\ Kin(R, e) /\ Fits(Met(ref, source), R, e) /\ Met(ref, source).type = Compound
<1>1. /\ ref \in Seq(Steps(S)) /\ IsWay(root, ref) /\ source \in Seq(Steps(S))
      /\ Fits(At(ref), S, e) /\ Fits(At(source), S, e) /\ At(source) \in S
  BY ReferencesWithin, LedTo
<1>2. CASE ~ IsStrictPrefix(source, ref)
  BY <1>1, <1>2 DEF Met
<1>3. CASE IsStrictPrefix(source, ref)
  <2> DEFINE way == Rest(ref, source)
             v == At(ref).v
             w == Lesser(At(source).v, Head(way).at)
             x == [At(ref) EXCEPT !.v = Joined(@, w)]
             met == With(At(source), way, x)
  <2>1. way \in Seq(Steps(S)) /\ way # <<>> /\ IsWay(At(source), way) /\ Tip(At(source), way) = At(ref)
    <3>1. At(source) = Tip(root, source) /\ At(ref) = Tip(root, ref)
      BY DEF At
    <3> HIDE DEF v, w, x, met
    <3> QED
      BY <1>1, <1>3, <3>1, RestIsWay
  <2>2. met = Met(ref, source)
    BY <1>3 DEF Met, Rest
  <2>3. /\ At(ref) = [type |-> Compound, of |-> End, v |-> v]
        /\ DOMAIN v \subseteq Byte /\ \A n \in DOMAIN v : v[n] \in S
    BY <1>1 DEF Fits, IsTag, Parts, List, Compound
  <2>4. DOMAIN w \subseteq Byte /\ \A n \in DOMAIN w : w[n] \in S
    <3>1. /\ DOMAIN At(source).v \subseteq Byte
          /\ \A n \in DOMAIN At(source).v : At(source).v[n] \in S
      BY <1>1 DEF Fits, IsTag, Parts
    <3> HIDE DEF way
    <3> QED
      BY <3>1 DEF Lesser, Restrict
  <2> HIDE DEF way, w
  <2>5. Fits(x, S, e) /\ x.type = Compound
    <3> DEFINE t == At(ref)
    <3>1. x = [t EXCEPT !.v = Joined(v, w)] /\ t = [type |-> Compound, of |-> End, v |-> t.v]
      BY <2>3
    <3>2. t.type = Compound
      OBVIOUS
    <3> HIDE DEF v, x, t
    <3> QED
      BY <2>3, <2>4, <3>1, <3>2, JoinedFits
  <2> HIDE DEF x, v
  <2>6. (\E R : met \in R /\ Kin(R, e)) /\ met.type = Compound
    BY <1>1, <2>1, <2>5, WithStays
  <2> HIDE DEF met
  <2>7. PICK R : met \in R /\ Kin(R, e)
    BY <2>6
  <2>8. Kin(S \cup R, e) /\ Fits(met, S \cup R, e)
    BY <2>7 DEF Kin, Fits
  <2> QED
    BY <2>2, <2>6, <2>8
<1> QED
  BY <1>2, <1>3

LEMMA StepKin ==
  ASSUME NEW e \in BOOLEAN, e => ~ retyped', Calls, NEW S0, root \in S0, Kin(S0, e), root.type = Compound
  PROVE  Kept(e)
<1>1. e => ~ retyped'
  OBVIOUS
<1>2. List # Compound
  BY DEF List, Compound
<1>3. PICK S : root \in S /\ Kin(S, e) /\ Arguments \subseteq S /\ EndTag \in S
  <2>1. Kin(S0 \cup Arguments \cup {EndTag}, e)
    BY Widened
  <2> QED
    BY <2>1
<1>4. PICK ref \in References(root) :
        \/ \E x \in Arguments : EmplaceBack(ref, x)
        \/ \E x \in Arguments : Assign(ref, x)
        \/ \E name \in Names, x \in Arguments : Emplace(ref, name, x)
        \/ \E name \in Names : Subscript(ref, name)
        \/ \E name \in Names, x \in Arguments : InsertOrAssign(ref, name, x)
        \/ Clear(ref)
        \/ \E i \in 1..MaxSize : EraseElement(ref, i)
        \/ \E name \in Names : EraseEntry(ref, name)
        \/ \E source \in References(root) : Merge(ref, source)
  BY DEF Calls
<1> DEFINE at == At(ref)
<1>5. Fits(at, S, e)
  BY <1>3, <1>4, LedTo
<1> HIDE DEF at
<1>6. ASSUME NEW x \in Arguments, EmplaceBack(ref, x) PROVE Kept(e)
  <2> DEFINE t == Become(at, ListOf(End))
             u == IF t.type = List /\ CanHold(t, x) THEN Pushed(t, x) ELSE t
  <2>1. Fits(t, S, e) /\ (at.type # End => t.type = at.type)
    BY <1>5, BecomeFits
  <2>2. Call(ref, u)
    BY <1>6 DEF EmplaceBack, at
  <2> HIDE DEF t
  <2>3. (t.type = List => Len(t.v) < MaxSize) /\ x \in S /\ IsTag(x)
    BY <1>3, <1>6 DEF EmplaceBack, at, t, Kin
  <2>4. Fits(u, S, e) /\ u.type = t.type
    BY <2>1, <2>3, PushedOrNot
  <2> HIDE DEF u
  <2> QED
    BY <1>3, <2>1, <2>2, <2>4, Changed DEF at
<1>7. ASSUME NEW x \in Arguments, Assign(ref, x) PROVE Kept(e)
  <2>1. Fits(x, S, e)
    BY <1>3 DEF Kin, Fits
  <2>2. e /\ At(Front(ref)).type = List => x.type = At(ref).type
    BY <1>1, <1>7 DEF Assign
  <2>3. Call(ref, x) /\ ref # <<>>
    BY <1>7 DEF Assign
  <2> QED
    BY <1>3, <2>1, <2>2, <2>3, CallStays
<1>8. ASSUME NEW name \in Names, NEW x \in S, Emplace(ref, name, x) PROVE Kept(e)
  <2> DEFINE t == Become(at, EmptyCompound)
             u == IF t.type = Compound THEN [t EXCEPT !.v = Joined(@, Entry(name, x))] ELSE t
  <2>1. Fits(t, S, e) /\ (at.type # End => t.type = at.type)
    BY <1>5, BecomeFits
  <2>2. Call(ref, u)
    BY <1>8 DEF Emplace, at
  <2> HIDE DEF t
  <2>3. Fits(u, S, e) /\ u.type = t.type
    <3> DEFINE v == Entry(name, x)
    <3>1. DOMAIN v \subseteq Byte /\ \A n \in DOMAIN v : v[n] \in S
      BY NamesAssumption, EntryOf
    <3> HIDE DEF v
    <3>2. u = IF t.type = Compound THEN [t EXCEPT !.v = Joined(@, v)] ELSE t
      BY DEF v
    <3> HIDE DEF u
    <3> QED
      BY <2>1, <3>1, <3>2, Emplaced
  <2> HIDE DEF u
  <2> QED
    BY <1>3, <2>1, <2>2, <2>3, Changed DEF at
<1>9. ASSUME NEW name \in Names, Subscript(ref, name) PROVE Kept(e)
  BY <1>3, <1>8, <1>9 DEF Subscript
<1>10. ASSUME NEW name \in Names, NEW x \in Arguments, InsertOrAssign(ref, name, x)
       PROVE  Kept(e)
  <2> DEFINE u == [at EXCEPT !.v = Joined(Entry(name, x), at.v)]
  <2>1. Call(ref, u) /\ at.type = Compound
    BY <1>10 DEF InsertOrAssign, at
  <2>2. /\ at = [type |-> Compound, of |-> End, v |-> at.v] /\ DOMAIN at.v \subseteq Byte
        /\ \A n \in DOMAIN at.v : at.v[n] \in S
    BY <1>2, <1>5, <2>1 DEF Fits, IsTag, Parts
  <2>3. Fits(u, S, e) /\ u.type = at.type
    <3> DEFINE v == Entry(name, x)
    <3>1. DOMAIN v \subseteq Byte /\ \A n \in DOMAIN v : v[n] \in S
      BY <1>3, NamesAssumption, EntryOf
    <3> HIDE DEF v
    <3>2. u = [at EXCEPT !.v = Joined(v, at.v)]
      BY DEF v
    <3> HIDE DEF u
    <3> QED
      BY <2>2, <3>1, <3>2, JoinedFits
  <2> HIDE DEF u
  <2> QED
    BY <1>3, <2>1, <2>3, Changed DEF at
<1>11. ASSUME Clear(ref) PROVE Kept(e)
  <2> DEFINE u == Tag(at.type, <<>>)
  <2>1. Call(ref, u) /\ at.type \in {Bytes, List, Compound}
    BY <1>11 DEF Clear, at
  <2>2. Fits(u, S, e) /\ u.type = at.type
    BY <2>1, EmptiedFits
  <2> HIDE DEF u
  <2> QED
    BY <1>3, <2>1, <2>2, Changed DEF at
<1>12. ASSUME NEW i \in 1..MaxSize, EraseElement(ref, i) PROVE Kept(e)
  <2> DEFINE u == [at EXCEPT !.v = RemoveAt(@, i)]
  <2>1. Call(ref, u) /\ at.type = List /\ i \in DOMAIN at.v
    BY <1>12 DEF EraseElement, at
  <2>2. Fits(u, S, e) /\ u.type = at.type
    BY <1>5, <2>1, ErasedFits
  <2> HIDE DEF u
  <2> QED
    BY <1>3, <2>1, <2>2, Changed DEF at
<1>13. ASSUME NEW name \in Names, EraseEntry(ref, name) PROVE Kept(e)
  <2> DEFINE v == [n \in DOMAIN at.v \ {name} |-> at.v[n]]
             u == [at EXCEPT !.v = v]
  <2>1. Call(ref, u) /\ at.type = Compound
    BY <1>13 DEF EraseEntry, Restrict, at
  <2>2. /\ at = [type |-> Compound, of |-> End, v |-> at.v] /\ DOMAIN at.v \subseteq Byte
        /\ \A n \in DOMAIN at.v : at.v[n] \in S
    BY <1>2, <1>5, <2>1 DEF Fits, IsTag, Parts
  <2>3. v = [n \in DOMAIN v |-> v[n]] /\ DOMAIN v \subseteq Byte /\ \A n \in DOMAIN v : v[n] \in S
    BY <2>2
  <2> HIDE DEF v
  <2>4. u = [type |-> Compound, of |-> End, v |-> v]
    BY <2>2
  <2> HIDE DEF u
  <2>5. Fits(u, S, e) /\ u.type = at.type
    BY <2>1, <2>3, <2>4, EntriesFit
  <2> QED
    BY <1>3, <2>1, <2>5, Changed DEF at
<1>14. ASSUME NEW source \in References(root), Merge(ref, source) PROVE Kept(e)
  <2> DEFINE met == Met(ref, source)
             w == met.v
             u == [at EXCEPT !.v = Joined(at.v, w)]
  <2>1. Call(ref, u) /\ at.type = Compound /\ At(source).type = Compound
    BY <1>14 DEF Merge, at
  <2>2. PICK R : S \subseteq R /\ Kin(R, e) /\ Fits(met, R, e) /\ met.type = Compound
    BY <1>3, <2>1, MetFits DEF at
  <2> HIDE DEF met
  <2>3. /\ at = [type |-> Compound, of |-> End, v |-> at.v] /\ DOMAIN at.v \subseteq Byte
        /\ \A n \in DOMAIN at.v : at.v[n] \in R
    BY <1>2, <1>5, <2>1, <2>2 DEF Fits, IsTag, Parts
  <2>4. DOMAIN w \subseteq Byte /\ \A n \in DOMAIN w : w[n] \in R
    BY <2>2 DEF Fits, Parts, IsTag
  <2> HIDE DEF w
  <2>5. Fits(u, R, e) /\ u.type = at.type
    BY <2>3, <2>4, JoinedFits
  <2> HIDE DEF u
  <2> QED
    BY <1>3, <2>1, <2>2, <2>5, Changed DEF at
<1> QED
  BY <1>3, <1>4, <1>6, <1>7, <1>8, <1>9, <1>10, <1>11, <1>12, <1>13, <1>14

LEMMA StepTree ==
  ASSUME TreeInv, Calls
  PROVE  TreeInv'
<1>1. Shallow(root)'
  BY DEF Calls, EmplaceBack, Emplace, Subscript, InsertOrAssign, Assign, Clear, EraseElement, EraseEntry, Merge, Call
<1>2. Kept(FALSE)
  BY StepKin DEF TreeInv
<1>3. ASSUME ~ retyped' PROVE Kept(TRUE)
  <2>1. ~ retyped
    BY <1>3 DEF Calls, EmplaceBack, Emplace, Subscript, InsertOrAssign, Assign, Clear, EraseElement, EraseEntry, Merge
  <2> QED
    BY <1>3, <2>1, StepKin DEF TreeInv
<1> QED
  BY <1>1, <1>2, <1>3 DEF TreeInv, Kept

LEMMA EmptyTree ==
  ASSUME Empty
  PROVE  TreeInv
<1>1. ASSUME NEW e \in BOOLEAN PROVE root \in {EmptyCompound} /\ Kin({EmptyCompound}, e)
  <2>1. Fits(EmptyCompound, {EmptyCompound}, e)
    BY EmptiedFits DEF EmptyCompound
  <2> QED
    BY <2>1 DEF Kin, Fits, Empty
<1>2. ASSUME NEW ref \in References(root) PROVE Parts(Tip(root, ref)) = {}
  <2>1. Tip(root, ref) \in {EmptyCompound}
    BY <1>1, ReferencesWithin, TipWithin
  <2> QED
    BY <2>1 DEF Parts, EmptyCompound, Tag
<1>3. root.type = Compound
  BY DEF Empty, EmptyCompound, Tag
<1> QED
  BY <1>1, <1>2, <1>3 DEF TreeInv, Shallow

LEMMA TreeInvariant == Building => []TreeInv
<1>1. TreeInv /\ [Calls]_tree => TreeInv'
  <2>1. CASE UNCHANGED tree
    BY <2>1 DEF tree, TreeInv
  <2> QED
    BY <2>1, StepTree
<1> QED
  BY <1>1, EmptyTree, PTL DEF Building

LEMMA ListsStay == Building => []ListsAreUniform
<1>1. TreeInv => ListsAreUniform
  <2> SUFFICES ASSUME TreeInv, ~ retyped, NEW ref \in References(root)
               PROVE  Even(Tip(root, ref))
    BY DEF ListsAreUniform, Uniform
  <2>1. PICK S : root \in S /\ Kin(S, TRUE)
    BY DEF TreeInv
  <2>2. At(ref) \in S
    BY <2>1, LedTo
  <2> QED
    BY <2>1, <2>2 DEF Kin, At
<1> QED
  BY <1>1, TreeInvariant, PTL

-----------------------------------------------------------------------------
(* Numbers of a byte.                                                      *)

Powers(f, k) == f = [j \in 0 .. k |-> IF j = 0 THEN 1 ELSE Base * f[j - 1]]

LEMMA PowersExist ==
  ASSUME NEW k \in Nat
  PROVE  \E f : Powers(f, k)
<1> DEFINE step == [x \in Nat \X Nat |-> Base * x[2]]
<1>1. step \in [Nat \X Nat -> Nat]
  BY BaseAssumption
<1>2. \A j \in Nat, x \in Nat : step[<<j, x>>] = Base * x
  OBVIOUS
<1> HIDE DEF step
<1>3. PICK f \in [0 .. k -> Nat] : Unfolds(f, k, 1, step)
  BY <1>1, UnfoldingsExist
<1>4. ASSUME NEW j \in 0 .. k PROVE f[j] = IF j = 0 THEN 1 ELSE Base * f[j - 1]
  <2>1. CASE j = 0
    BY <1>3, <2>1 DEF Unfolds
  <2>2. CASE j # 0
    <3>1. j - 1 \in 0 .. (k - 1) /\ (j - 1) + 1 = j /\ j - 1 \in Nat /\ f[j - 1] \in Nat
      BY <2>2
    <3>2. f[(j - 1) + 1] = step[<<j - 1, f[j - 1]>>]
      BY <1>3, <3>1 DEF Unfolds
    <3> QED
      BY <1>2, <2>2, <3>1, <3>2
  <2> QED
    BY <2>1, <2>2
<1>5. f = [j \in 0 .. k |-> IF j = 0 THEN 1 ELSE Base * f[j - 1]]
  BY <1>4
<1> QED
  BY <1>5 DEF Powers

LEMMA PowerUnfolds ==
  ASSUME NEW k \in Nat
  PROVE  \E f : Powers(f, k) /\ Power(k) = f[k]
<1> DEFINE power == CHOOSE f : f = [j \in 0 .. k |-> IF j = 0 THEN 1 ELSE Base * f[j - 1]]
<1>1. power = CHOOSE f : Powers(f, k)
  BY DEF Powers
<1>2. Power(k) = power[k]
  BY DEF Power
<1> HIDE DEF power
<1> QED
  BY <1>1, <1>2, PowersExist

LEMMA ByteCapacity ==
  /\ Power(0) = 1 /\ Power(1) = Base
  /\ Capacity(U8) = Base /\ Capacity(I8) = Base
<1>1. PICK f : Powers(f, 0) /\ Power(0) = f[0]
  BY PowerUnfolds
<1>2. f[0] = 1
  BY <1>1 DEF Powers
<1>3. PICK g : Powers(g, 1) /\ Power(1) = g[1]
  BY PowerUnfolds
<1>4. g[1] = Base * g[0] /\ g[0] = 1
  BY <1>3 DEF Powers
<1> QED
  BY <1>1, <1>2, <1>3, <1>4, BaseAssumption DEF Capacity, U8, I8

\* What a byte says as a number, and as a count.
Signed(b) == IF 2 * b >= Base THEN b - Base ELSE b

LEMMA ByteWritten ==
  ASSUME NEW n \in Byte, NEW w \in {U8, I8}
  PROVE  WriteNumber(n, w) = <<n>>
<1>1. w.bytes = 1 /\ w.big = FALSE /\ Capacity(w) = Base
  <2>1. w.bytes = 1 /\ w.big = FALSE
    BY DEF U8, I8
  <2>2. Capacity(w) = Base
    BY ByteCapacity
  <2> QED
    BY <2>1, <2>2
<1>2. n % Base = n /\ n \div 1 = n /\ 1 - 1 = 0
  BY BaseAssumption DEF Byte
<1>3. WriteNumber(n, w) = [i \in 1 .. 1 |-> ((n % Base) \div Power(i - 1)) % Base]
  BY <1>1 DEF WriteNumber, Ordered
<1>4. \A i \in 1 .. 1 : i = 1
  OBVIOUS
<1>5. \A i \in 1 .. 1 : ((n % Base) \div Power(i - 1)) % Base = n
  BY <1>2, <1>4, ByteCapacity
<1> QED
  BY <1>3, <1>5

LEMMA ByteNumber ==
  ASSUME NEW b \in Byte
  PROVE  Number(<<b>>, U8) = b /\ Number(<<b>>, I8) = Signed(b)
<1>1. ASSUME NEW w \in {U8, I8}
      PROVE  Number(<<b>>, w) = Cast(b, w)
  <2> DEFINE F(f) == [k \in 0 .. 1 |-> IF k = 0 THEN 0 ELSE f[k - 1] + Power(k - 1) * <<b>>[k]]
             lowest == CHOOSE f : f = F(f)
  <2>1. w.bytes = 1 /\ w.big = FALSE
    BY DEF U8, I8
  <2>2. Number(<<b>>, w) = Cast(lowest[1], w)
    BY <2>1 DEF Number, Ordered
  <2>3. \E f : f = F(f)
    <3> DEFINE f == [k \in 0 .. 1 |-> IF k = 0 THEN 0 ELSE b]
    <3>1. f[0] = 0 /\ f[1] = b
      OBVIOUS
    <3>2. \A k \in 0 .. 1 : k = 0 \/ k = 1
      OBVIOUS
    <3>3. f[1] = f[1 - 1] + Power(1 - 1) * <<b>>[1]
      BY <3>1, ByteCapacity, BaseAssumption DEF Byte
    <3>4. \A k \in 0 .. 1 : f[k] = IF k = 0 THEN 0 ELSE f[k - 1] + Power(k - 1) * <<b>>[k]
      BY <3>1, <3>2, <3>3
    <3>5. f = [k \in 0 .. 1 |-> f[k]]
      OBVIOUS
    <3> HIDE DEF f
    <3>6. f = F(f)
      BY <3>4, <3>5
    <3> QED
      BY <3>6
  <2>4. lowest = F(lowest)
    BY <2>3
  <2> HIDE DEF lowest
  <2>5. lowest[0] = 0 /\ lowest[1] = lowest[0] + Power(0) * b
    BY <2>4
  <2>6. lowest[1] = b
    BY <2>5, ByteCapacity, BaseAssumption DEF Byte
  <2> QED
    BY <2>2, <2>6
<1>2. b % Base = b
  BY BaseAssumption DEF Byte
<1>3. Cast(b, U8) = b
  BY <1>2, ByteCapacity DEF Cast, U8
<1>4. Cast(b, I8) = Signed(b)
  BY <1>2, ByteCapacity DEF Cast, I8, U8, Signed
<1> QED
  BY <1>1, <1>3, <1>4

-----------------------------------------------------------------------------
(* Readers.                                                                *)

\* A reader, and those there are.
State(s, p, v) == [status |-> s, pos |-> p, value |-> v]

Reader(q) == \E s \in {"ok", "message_size", "illegal_byte_sequence"} : \E p, v : q = State(s, p, v)

LEMMA SingleByte ==
  ASSUME NEW B, NEW f \in Seq(B), NEW i \in 1 .. Len(f)
  PROVE  SubSeq(f, i, i) = <<f[i]>>
<1>1. Len(SubSeq(f, i, i)) = 1
  OBVIOUS
<1>2. SubSeq(f, i, i)[1] = f[i]
  OBVIOUS
<1>3. SubSeq(f, i, i) \in Seq(B)
  OBVIOUS
<1>4. ASSUME NEW s \in Seq(B), Len(s) = 1 PROVE s = <<s[1]>>
  BY <1>4
<1> QED
  BY <1>1, <1>2, <1>3, <1>4

\* The number a byte is read as.
Meant(b, w) == IF w = U8 THEN b ELSE Signed(b)

LEMMA ByteRead ==
  ASSUME NEW f \in Seq(Byte), NEW p \in 0 .. Len(f), NEW v, NEW w \in {U8, I8}
  PROVE  ReadNumber(State("ok", p, v), f, w) =
           IF p = Len(f) THEN State("message_size", p, v)
           ELSE State("ok", p + 1, Meant(f[p + 1], w))
<1> DEFINE r == State("ok", p, v)
<1>1. w.bytes = 1 /\ (w = U8 \/ w = I8) /\ U8 # I8
  BY DEF U8, I8
<1>2. r = [status |-> "ok", pos |-> p, value |-> v] /\ r.pos = p
  BY DEF State
<1>3. CASE p = Len(f)
  <2>1. ReadNumber(r, f, w) = [r EXCEPT !.status = "message_size"]
    BY <1>1, <1>2, <1>3 DEF ReadNumber, Fail
  <2> QED
    BY <1>2, <1>3, <2>1 DEF State
<1>4. CASE p # Len(f)
  <2>1. p \in Nat /\ p + 1 \in 1 .. Len(f) /\ f[p + 1] \in Byte
    BY <1>4
  <2>2. SubSeq(f, p + 1, p + 1) = <<f[p + 1]>>
    BY <2>1, SingleByte
  <2> DEFINE n == Number(<<f[p + 1]>>, w)
  <2>3. n = Meant(f[p + 1], w)
    BY <1>1, <2>1, ByteNumber DEF Meant
  <2>4. ReadNumber(r, f, w) = [r EXCEPT !.pos = p + 1, !.value = n]
    <3>1. r.pos + w.bytes = p + 1 /\ ~ (r.pos + w.bytes > Len(f)) /\ r.pos + 1 = p + 1
      BY <1>1, <1>2, <1>4
    <3> HIDE DEF r
    <3> QED
      BY <1>1, <1>2, <2>2, <3>1 DEF ReadNumber
  <2> HIDE DEF n, r
  <2>5. ReadNumber(r, f, w) = State("ok", p + 1, n)
    BY <1>2, <2>4 DEF State
  <2> QED
    BY <1>4, <2>3, <2>5 DEF r
<1> QED
  BY <1>3, <1>4

-----------------------------------------------------------------------------
(* What the steps of a reader make of one that has failed, and of one that *)
(* has not.                                                                *)

Failed(q) == \E c \in {"message_size", "illegal_byte_sequence"} : \E p, v : q = State(c, p, v)

LEMMA FailureStays ==
  ASSUME NEW q, Failed(q), NEW t, NEW u, NEW f, NEW read
  PROVE  /\ As(q, t) = q /\ AsBytes(q) = q /\ Behind(t, q) = q /\ Titled(t, q) = q /\ Before(t, q) = q
         /\ ReadBytes(q, read) = q /\ ListElements(t, q, read) = q /\ ReadList(q, f, read) = q
         /\ NamedPayload(t, q, read) = q /\ NamedTag(q, f, read) = q /\ ReadCompound(q, read) = q
         /\ ReadMore(q, t, u, read) = q /\ RootOf(q) = q
<1>1. q.status # "ok"
  BY DEF Failed, State
<1> QED
  BY <1>1 DEF As, AsBytes, Behind, Titled, Before, ReadBytes, ListElements, ReadList, NamedPayload, NamedTag,
              ReadCompound, ReadMore, RootOf

LEMMA AsOn ==
  ASSUME NEW p, NEW v, NEW t
  PROVE  As(State("ok", p, v), t) =
           State("ok", p, [t EXCEPT !.v = v])
BY DEF As, State

LEMMA AsBytesOn ==
  ASSUME NEW p, NEW v
  PROVE  AsBytes(State("ok", p, v)) =
           State("ok", p, Tag(Bytes, [i \in DOMAIN v |-> v[i].v]))
BY DEF AsBytes, State

LEMMA BehindOn ==
  ASSUME NEW p, NEW v, NEW t
  PROVE  Behind(t, State("ok", p, v)) =
           State("ok", p, <<t>> \o v)
BY DEF Behind, State

LEMMA TitledOn ==
  ASSUME NEW p, NEW v, NEW name
  PROVE  Titled(name, State("ok", p, v)) =
           State("ok", p, [name |-> name, tag |-> v[1]])
BY DEF Titled, State

LEMMA BeforeOn ==
  ASSUME NEW p, NEW v, NEW entry
  PROVE  Before(entry, State("ok", p, v)) =
           State("ok", p, Entered(entry, v[1]))
BY DEF Before, State

LEMMA ReadElementsOn ==
  ASSUME NEW p, NEW v, NEW type, NEW read
  PROVE  ReadElements(type, State("ok", p, v), read) =
           read[<<type, IF v > 0 THEN v ELSE 0, p>>]
BY DEF ReadElements, State

LEMMA ReadBytesOn ==
  ASSUME NEW p, NEW v, NEW read
  PROVE  ReadBytes(State("ok", p, v), read) =
           AsBytes(ReadElements(Value, State("ok", p, v), read))
BY DEF ReadBytes, State

LEMMA ReadListOn ==
  ASSUME NEW p, NEW v, NEW f, NEW read
  PROVE  ReadList(State("ok", p, v), f, read) =
           ListElements(v, ReadNumber(State("ok", p, v), f, I8), read)
BY DEF ReadList, State

LEMMA NamedPayloadOn ==
  ASSUME NEW p, NEW v, NEW type, NEW read
  PROVE  NamedPayload(type, State("ok", p, v), read) =
           Titled(v, read[<<type, 1, p>>])
BY DEF NamedPayload, State

LEMMA ReadMoreOn ==
  ASSUME NEW p, NEW v, NEW type, NEW n, NEW read
  PROVE  ReadMore(State("ok", p, v), type, n, read) =
           Behind(v, read[<<type, n - 1, p>>])
BY DEF ReadMore, State

LEMMA ListElementsOn ==
  ASSUME NEW p, NEW v, NEW type, NEW read
  PROVE  ListElements(type, State("ok", p, v), read) =
           IF type > Compound \/ (v > 0 /\ type = End) THEN State("illegal_byte_sequence", p, v)
           ELSE As(ReadElements(type, State("ok", p, v), read), ListOf(type))
BY DEF ListElements, Fail, State

LEMMA NamedTagOn ==
  ASSUME NEW p, NEW v, NEW f, NEW read
  PROVE  NamedTag(State("ok", p, v), f, read) =
           IF v = End THEN State("ok", p, [name |-> 0, tag |-> EndTag])
           ELSE IF v > Compound THEN State("illegal_byte_sequence", p, v)
           ELSE NamedPayload(v, ReadNumber(State("ok", p, v), f, U8), read)
BY DEF NamedTag, Fail, State

LEMMA ReadCompoundOn ==
  ASSUME NEW p, NEW v, NEW read
  PROVE  ReadCompound(State("ok", p, v), read) =
           IF v.tag.type = End THEN State("ok", p, EmptyCompound) ELSE Before(v, read[<<Compound, 1, p>>])
BY DEF ReadCompound, State

LEMMA RootOfOn ==
  ASSUME NEW p, NEW v
  PROVE  RootOf(State("ok", p, v)) =
           IF v.tag.type # Compound THEN State("illegal_byte_sequence", p, v) ELSE State("ok", p, v.tag)
BY DEF RootOf, Fail, State

\* How many elements a count says there are.
Count(b) == IF Signed(b) > 0 THEN Signed(b) ELSE 0

LEMMA CountInBounds ==
  ASSUME NEW b \in Byte
  PROVE  /\ Count(b) \in Byte /\ 2 * Count(b) < Base /\ (2 * b < Base => Count(b) = b)
         /\ Count(b) = IF Meant(b, I8) > 0 THEN Meant(b, I8) ELSE 0
         /\ Meant(b, I8) > 0 <=> Count(b) > 0
         /\ Meant(b, U8) = b
<1>1. U8 # I8
  BY DEF U8, I8
<1> QED
  BY <1>1, BaseAssumption DEF Count, Signed, Meant, Byte

LEMMA EndRead ==
  ASSUME NEW p, NEW f, NEW read
  PROVE  ReadTag(End, Start(p), f, read) = State("ok", p, EndTag)
BY DEF ReadTag, Start, State, End, Value, Bytes, List, Compound

LEMMA ValueRead ==
  ASSUME NEW f \in Seq(Byte), NEW p \in 0 .. Len(f), NEW read
  PROVE  ReadTag(Value, Start(p), f, read) =
           IF p = Len(f) THEN State("message_size", p, <<>>) ELSE State("ok", p + 1, Tag(Value, f[p + 1]))
<1> DEFINE q == ReadNumber(Start(p), f, U8)
<1>1. ReadTag(Value, Start(p), f, read) = As(q, Tag(Value, 0))
  BY DEF ReadTag, End, Value, Bytes, List, Compound
<1>2. Start(p) = State("ok", p, <<>>)
  BY DEF Start, State
<1>3. q = IF p = Len(f) THEN State("message_size", p, <<>>) ELSE State("ok", p + 1, Meant(f[p + 1], U8))
  BY <1>2, ByteRead
<1> HIDE DEF q
<1>4. CASE p = Len(f)
  <2>1. Failed(q)
    BY <1>3, <1>4 DEF Failed
  <2> QED
    BY <1>1, <1>3, <1>4, <2>1, FailureStays
<1>5. CASE p # Len(f)
  <2>1. f[p + 1] \in Byte
    BY <1>5
  <2>2. q = State("ok", p + 1, f[p + 1])
    BY <1>3, <1>5, <2>1, CountInBounds
  <2>3. [Tag(Value, 0) EXCEPT !.v = f[p + 1]] = Tag(Value, f[p + 1])
    BY DEF Tag
  <2> QED
    BY <1>1, <1>5, <2>2, <2>3, AsOn
<1> QED
  BY <1>4, <1>5

LEMMA BytesRead ==
  ASSUME NEW f \in Seq(Byte), NEW p \in 0 .. Len(f), NEW read
  PROVE  ReadTag(Bytes, Start(p), f, read) =
           IF p = Len(f) THEN State("message_size", p, <<>>)
           ELSE AsBytes(read[<<Value, Count(f[p + 1]), p + 1>>])
<1> DEFINE q == ReadNumber(Start(p), f, I8)
<1>1. ReadTag(Bytes, Start(p), f, read) = ReadBytes(q, read)
  BY DEF ReadTag, End, Value, Bytes, List, Compound
<1>2. Start(p) = State("ok", p, <<>>)
  BY DEF Start, State
<1>3. q = IF p = Len(f) THEN State("message_size", p, <<>>) ELSE State("ok", p + 1, Meant(f[p + 1], I8))
  BY <1>2, ByteRead
<1> HIDE DEF q
<1>4. CASE p = Len(f)
  <2>1. Failed(q)
    BY <1>3, <1>4 DEF Failed
  <2> QED
    BY <1>1, <1>3, <1>4, <2>1, FailureStays
<1>5. CASE p # Len(f)
  <2>1. f[p + 1] \in Byte
    BY <1>5
  <2>2. ReadBytes(q, read) = AsBytes(ReadElements(Value, q, read))
    BY <1>3, <1>5, ReadBytesOn
  <2>3. ReadElements(Value, q, read) = read[<<Value, IF Meant(f[p + 1], I8) > 0 THEN Meant(f[p + 1], I8) ELSE 0, p + 1>>]
    BY <1>3, <1>5, ReadElementsOn
  <2>4. Count(f[p + 1]) = IF Meant(f[p + 1], I8) > 0 THEN Meant(f[p + 1], I8) ELSE 0
    BY <2>1, CountInBounds
  <2> QED
    BY <1>1, <1>5, <2>2, <2>3, <2>4
<1> QED
  BY <1>4, <1>5

LEMMA ListRead ==
  ASSUME NEW f \in Seq(Byte), NEW p \in 0 .. Len(f), NEW read
  PROVE  ReadTag(List, Start(p), f, read) =
           IF p = Len(f) THEN State("message_size", p, <<>>)
           ELSE IF p + 1 = Len(f) THEN State("message_size", p + 1, f[p + 1])
           ELSE IF f[p + 1] > Compound \/ (Count(f[p + 2]) > 0 /\ f[p + 1] = End)
             THEN State("illegal_byte_sequence", p + 2, Signed(f[p + 2]))
           ELSE As(read[<<f[p + 1], Count(f[p + 2]), p + 2>>], ListOf(f[p + 1]))
<1> DEFINE q == ReadNumber(Start(p), f, U8)
<1>1. ReadTag(List, Start(p), f, read) = ReadList(q, f, read)
  BY DEF ReadTag, End, Value, Bytes, List, Compound
<1>2. Start(p) = State("ok", p, <<>>)
  BY DEF Start, State
<1>3. q = IF p = Len(f) THEN State("message_size", p, <<>>) ELSE State("ok", p + 1, Meant(f[p + 1], U8))
  BY <1>2, ByteRead
<1> HIDE DEF q
<1>4. CASE p = Len(f)
  <2>1. Failed(q)
    BY <1>3, <1>4 DEF Failed
  <2> QED
    BY <1>1, <1>3, <1>4, <2>1, FailureStays
<1>5. CASE p # Len(f)
  <2>1. f[p + 1] \in Byte /\ p + 1 \in 0 .. Len(f) /\ (p + 1) + 1 = p + 2
    BY <1>5
  <2>2. q = State("ok", p + 1, f[p + 1])
    BY <1>3, <1>5, <2>1, CountInBounds
  <2> DEFINE c == ReadNumber(q, f, I8)
  <2>3. ReadList(q, f, read) = ListElements(f[p + 1], c, read)
    BY <2>2, ReadListOn
  <2>4. c = IF p + 1 = Len(f) THEN State("message_size", p + 1, f[p + 1]) ELSE State("ok", p + 2, Meant(f[p + 2], I8))
    BY <2>1, <2>2, ByteRead
  <2> HIDE DEF c
  <2>5. CASE p + 1 = Len(f)
    <3>1. Failed(c)
      BY <2>4, <2>5 DEF Failed
    <3> QED
      BY <1>1, <1>5, <2>3, <2>4, <2>5, <3>1, FailureStays
  <2>6. CASE p + 1 # Len(f)
    <3>1. f[p + 2] \in Byte
      BY <1>5, <2>6
    <3> DEFINE n == Meant(f[p + 2], I8)
               t == f[p + 1]
    <3>2. Count(f[p + 2]) = (IF n > 0 THEN n ELSE 0) /\ (n > 0 <=> Count(f[p + 2]) > 0) /\ n = Signed(f[p + 2])
      BY <3>1, CountInBounds DEF Meant, U8, I8
    <3>3. c = State("ok", p + 2, n)
      BY <2>4, <2>6
    <3> HIDE DEF n, t
    <3>4. ListElements(t, c, read) =
            IF t > Compound \/ (n > 0 /\ t = End) THEN State("illegal_byte_sequence", p + 2, n)
            ELSE As(ReadElements(t, c, read), ListOf(t))
      BY <3>3, ListElementsOn
    <3>5. ReadElements(t, c, read) = read[<<t, IF n > 0 THEN n ELSE 0, p + 2>>]
      BY <3>3, ReadElementsOn
    <3> QED
      BY <1>1, <1>5, <2>3, <2>6, <3>2, <3>4, <3>5 DEF t
  <2> QED
    BY <2>5, <2>6
<1> QED
  BY <1>4, <1>5

LEMMA NamedRead ==
  ASSUME NEW f \in Seq(Byte), NEW p \in 0 .. Len(f), NEW read
  PROVE  ReadNamedTag(Start(p), f, read) =
           IF p = Len(f) THEN State("message_size", p, <<>>)
           ELSE IF f[p + 1] = End THEN State("ok", p + 1, [name |-> 0, tag |-> EndTag])
           ELSE IF f[p + 1] > Compound THEN State("illegal_byte_sequence", p + 1, f[p + 1])
           ELSE IF p + 1 = Len(f) THEN State("message_size", p + 1, f[p + 1])
           ELSE Titled(f[p + 2], read[<<f[p + 1], 1, p + 2>>])
<1> DEFINE q == ReadNumber(Start(p), f, U8)
<1>1. ReadNamedTag(Start(p), f, read) = NamedTag(q, f, read)
  BY DEF ReadNamedTag
<1>2. Start(p) = State("ok", p, <<>>)
  BY DEF Start, State
<1>3. q = IF p = Len(f) THEN State("message_size", p, <<>>) ELSE State("ok", p + 1, Meant(f[p + 1], U8))
  BY <1>2, ByteRead
<1> HIDE DEF q
<1>4. CASE p = Len(f)
  <2>1. Failed(q)
    BY <1>3, <1>4 DEF Failed
  <2> QED
    BY <1>1, <1>3, <1>4, <2>1, FailureStays
<1>5. CASE p # Len(f)
  <2>1. f[p + 1] \in Byte /\ p + 1 \in 0 .. Len(f) /\ (p + 1) + 1 = p + 2
    BY <1>5
  <2> DEFINE t == f[p + 1]
  <2>2. q = State("ok", p + 1, t)
    BY <1>3, <1>5, <2>1, CountInBounds
  <2> DEFINE c == ReadNumber(q, f, U8)
  <2>3. c = IF p + 1 = Len(f) THEN State("message_size", p + 1, t) ELSE State("ok", p + 2, Meant(f[p + 2], U8))
    BY <2>1, <2>2, ByteRead
  <2> HIDE DEF t, c
  <2>4. NamedTag(q, f, read) =
          IF t = End THEN State("ok", p + 1, [name |-> 0, tag |-> EndTag])
          ELSE IF t > Compound THEN State("illegal_byte_sequence", p + 1, t)
          ELSE NamedPayload(t, c, read)
    BY <2>2, NamedTagOn DEF c
  <2>5. CASE p + 1 = Len(f)
    <3>1. Failed(c)
      BY <2>3, <2>5 DEF Failed
    <3>2. NamedPayload(t, c, read) = c
      BY <3>1, FailureStays
    <3> QED
      BY <1>1, <1>5, <2>3, <2>4, <2>5, <3>2 DEF t
  <2>6. CASE p + 1 # Len(f)
    <3>1. f[p + 2] \in Byte
      BY <1>5, <2>6
    <3>2. c = State("ok", p + 2, f[p + 2])
      BY <2>3, <2>6, <3>1, CountInBounds
    <3>3. NamedPayload(t, c, read) = Titled(f[p + 2], read[<<t, 1, p + 2>>])
      BY <3>2, NamedPayloadOn
    <3> QED
      BY <1>1, <1>5, <2>4, <2>6, <3>3 DEF t
  <2> QED
    BY <2>5, <2>6
<1> QED
  BY <1>4, <1>5

LEMMA CompoundRead ==
  ASSUME NEW f, NEW p, NEW read
  PROVE  ReadTag(Compound, Start(p), f, read) = ReadCompound(ReadNamedTag(Start(p), f, read), read)
BY DEF ReadTag, End, Value, Bytes, List, Compound

-----------------------------------------------------------------------------
(* What may be sent: tags in which every list is even, and no name is given *)
(* an End tag.                                                              *)

Sealed(t) == t.type = Compound => \A k \in Parts(t) : t.v[k].type # End

Genuine(S) == \A t \in S : IsTag(t) /\ Even(t) /\ Sealed(t) /\ \A k \in Parts(t) : t.v[k] \in S

Whole(t) == \E S : t \in S /\ Genuine(S)

LEMMA WholeMade ==
  ASSUME NEW t, IsTag(t), Even(t), Sealed(t), \A k \in Parts(t) : Whole(t.v[k])
  PROVE  Whole(t)
<1> DEFINE of(x) == CHOOSE S : x \in S /\ Genuine(S)
           U == {t} \cup UNION {of(t.v[k]) : k \in Parts(t)}
<1>1. \A k \in Parts(t) : t.v[k] \in of(t.v[k]) /\ Genuine(of(t.v[k]))
  BY DEF Whole
<1> HIDE DEF of
<1>2. Genuine(U)
  <2>1. SUFFICES ASSUME NEW u \in U
                 PROVE  IsTag(u) /\ Even(u) /\ Sealed(u) /\ \A k \in Parts(u) : u.v[k] \in U
    BY DEF Genuine
  <2>2. CASE u = t
    BY <1>1, <2>2
  <2>3. CASE \E j \in Parts(t) : u \in of(t.v[j])
    <3>1. PICK j \in Parts(t) : u \in of(t.v[j])
      BY <2>3
    <3>2. IsTag(u) /\ Even(u) /\ Sealed(u) /\ \A k \in Parts(u) : u.v[k] \in of(t.v[j])
      BY <1>1, <3>1 DEF Genuine
    <3> QED
      BY <3>2
  <2> QED
    BY <2>1, <2>2, <2>3
<1> QED
  BY <1>2 DEF Whole

LEMMA WholeParts ==
  ASSUME NEW t, Whole(t)
  PROVE  IsTag(t) /\ Even(t) /\ Sealed(t) /\ \A k \in Parts(t) : Whole(t.v[k])
BY DEF Whole, Genuine

LEMMA Simple ==
  /\ Whole(EndTag) /\ EndTag.type = End
  /\ Whole(EmptyCompound) /\ EmptyCompound.type = Compound
  /\ \A b \in Byte : Whole(Tag(Value, b)) /\ Tag(Value, b).type = Value
<1>1. ASSUME NEW t, IsTag(t), Parts(t) = {} PROVE Whole(t)
  <2>1. Even(t) /\ Sealed(t)
    BY <1>1 DEF Even, Sealed, Parts
  <2> QED
    BY <1>1, <2>1, WholeMade
<1>2. IsTag(EndTag) /\ Parts(EndTag) = {} /\ EndTag.type = End
  BY DEF IsTag, EndTag, Tag, Parts, End, Value, Bytes, List, Compound
<1>3. IsTag(EmptyCompound) /\ Parts(EmptyCompound) = {} /\ EmptyCompound.type = Compound
  BY DEF IsTag, EmptyCompound, Tag, Parts, End, Value, Bytes, List, Compound
<1>4. ASSUME NEW b \in Byte
      PROVE  IsTag(Tag(Value, b)) /\ Parts(Tag(Value, b)) = {} /\ Tag(Value, b).type = Value
  BY DEF IsTag, Tag, Parts, End, Value, Bytes, List, Compound
<1> QED
  BY <1>1, <1>2, <1>3, <1>4

-----------------------------------------------------------------------------
(* What reading comes to.                                                  *)

\* n tags of a type.
Elements(v, type, n) == v = [i \in 1 .. n |-> v[i]] /\ \A i \in 1 .. n : v[i].type = type /\ Whole(v[i])

\* Of tags; of one; and of one with a name.
Good(type, n, p, f, q) ==
  \/ Failed(q)
  \/ \E end \in p .. Len(f) : \E v :
       q = State("ok", end, v) /\ Elements(v, type, n) /\ (type # End /\ n > 0 => end > p)

GoodTag(type, from, f, q) ==
  \/ Failed(q)
  \/ \E end \in from .. Len(f) : \E t : q = State("ok", end, t) /\ t.type = type /\ Whole(t)

GoodEntry(from, f, q) ==
  \/ Failed(q)
  \/ \E end \in from .. Len(f) : \E name \in Byte : \E t :
       q = State("ok", end, [name |-> name, tag |-> t]) /\ Whole(t)

LEMMA AsBytesGood ==
  ASSUME NEW f, NEW p, NEW q, NEW n \in Byte, 2 * n < Base, Good(Value, n, p, f, q)
  PROVE  GoodTag(Bytes, p, f, AsBytes(q))
<1>1. CASE Failed(q)
  BY <1>1, FailureStays DEF GoodTag
<1>2. CASE \E end \in p .. Len(f) : \E v : q = State("ok", end, v) /\ Elements(v, Value, n)
  <2>1. PICK end \in p .. Len(f) : \E v : q = State("ok", end, v) /\ Elements(v, Value, n)
    BY <1>2
  <2>2. PICK v : q = State("ok", end, v) /\ Elements(v, Value, n)
    BY <2>1
  <2>3. n \in Nat /\ DOMAIN v = 1 .. n
    BY <2>2 DEF Elements, Byte
  <2> DEFINE b == [i \in DOMAIN v |-> v[i].v]
             t == Tag(Bytes, b)
  <2>4. AsBytes(q) = State("ok", end, t)
    BY <2>2, AsBytesOn
  <2>5. \A i \in 1 .. n : v[i].v \in Byte
    <3>1. \A i \in 1 .. n : v[i].type = Value /\ IsTag(v[i])
      BY <2>2, WholeParts DEF Elements
    <3> QED
      BY <3>1 DEF IsTag
  <2>6. b \in [1 .. n -> Byte]
    BY <2>3, <2>5
  <2> HIDE DEF b
  <2>7. b \in Seq(Byte) /\ Len(b) = n
    BY <2>3, <2>6
  <2>8. t = [type |-> Bytes, of |-> End, v |-> b]
    BY DEF Tag
  <2> HIDE DEF t
  <2>9. IsTag(t) /\ Parts(t) = {} /\ t.type = Bytes
    BY <2>7, <2>8 DEF IsTag, Countable, Parts, End, Value, Bytes, List, Compound
  <2>10. Whole(t)
    <3>1. Even(t) /\ Sealed(t)
      BY <2>9 DEF Even, Sealed, Bytes, List, Compound
    <3> QED
      BY <2>9, <3>1, WholeMade
  <2> QED
    BY <2>4, <2>9, <2>10 DEF GoodTag
<1> QED
  BY <1>1, <1>2 DEF Good

LEMMA AsListGood ==
  ASSUME NEW f, NEW p, NEW q, NEW n \in Byte, 2 * n < Base, NEW type \in End .. Compound, n > 0 => type # End,
         Good(type, n, p, f, q)
  PROVE  GoodTag(List, p, f, As(q, ListOf(type)))
<1>1. CASE Failed(q)
  BY <1>1, FailureStays DEF GoodTag
<1>2. CASE \E end \in p .. Len(f) : \E v : q = State("ok", end, v) /\ Elements(v, type, n)
  <2>1. PICK end \in p .. Len(f) : \E v : q = State("ok", end, v) /\ Elements(v, type, n)
    BY <1>2
  <2>2. PICK v : q = State("ok", end, v) /\ Elements(v, type, n)
    BY <2>1
  <2>3. n \in Nat /\ DOMAIN v = 1 .. n /\ v = [i \in 1 .. n |-> v[i]]
    BY <2>2 DEF Elements, Byte
  <2> DEFINE t == [ListOf(type) EXCEPT !.v = v]
  <2>4. As(q, ListOf(type)) = State("ok", end, t)
    BY <2>2, AsOn
  <2>5. t = [type |-> List, of |-> type, v |-> v]
    <3>1. ListOf(type) = [type |-> List, of |-> type, v |-> <<>>]
      BY DEF ListOf, Tag
    <3> QED
      BY <3>1
  <2> HIDE DEF t
  <2>6. v \in Seq({v[i] : i \in DOMAIN v}) /\ Len(v) = n
    <3> DEFINE E == {v[i] : i \in DOMAIN v}
    <3>1. v \in [1 .. n -> E]
      BY <2>3
    <3> HIDE DEF E
    <3>2. v \in Seq(E) /\ Len(v) = n
      BY <2>3, <3>1
    <3> QED
      BY <3>2 DEF E
  <2>7. IsTag(t) /\ Parts(t) = 1 .. n /\ t.type = List /\ t.v = v
    BY <2>3, <2>5, <2>6 DEF IsTag, Countable, Parts, End, Value, Bytes, List, Compound
  <2>8. \A i \in 1 .. n : v[i].type = type /\ Whole(v[i])
    BY <2>2 DEF Elements
  <2>9. Even(t)
    BY <2>3, <2>5, <2>8 DEF Even
  <2>10. Sealed(t)
    BY <2>7 DEF Sealed, List, Compound
  <2>11. Whole(t)
    BY <2>7, <2>8, <2>9, <2>10, WholeMade
  <2> QED
    BY <2>4, <2>7, <2>11 DEF GoodTag
<1> QED
  BY <1>1, <1>2 DEF Good

LEMMA SingleElement ==
  ASSUME NEW f, NEW p, NEW q, NEW type, Good(type, 1, p, f, q), ~ Failed(q)
  PROVE  \E end \in p .. Len(f) : \E v : q = State("ok", end, v) /\ v = <<v[1]>> /\ v[1].type = type /\ Whole(v[1])
                                          /\ (type # End => end > p)
<1>1. PICK end \in p .. Len(f) : \E v :
        q = State("ok", end, v) /\ Elements(v, type, 1) /\ (type # End => end > p)
  BY DEF Good
<1>2. PICK v : q = State("ok", end, v) /\ Elements(v, type, 1)
  BY <1>1
<1>3. v = [i \in 1 .. 1 |-> v[i]] /\ v[1].type = type /\ Whole(v[1])
  BY <1>2 DEF Elements
<1>4. v = <<v[1]>>
  <2> DEFINE y == v[1]
  <2>1. \A i \in 1 .. 1 : v[i] = y
    OBVIOUS
  <2>2. v = [i \in 1 .. 1 |-> y]
    BY <1>3, <2>1
  <2> HIDE DEF y
  <2>3. v = <<y>>
    BY <2>2
  <2> QED
    BY <2>3 DEF y
<1> QED
  BY <1>1, <1>2, <1>3, <1>4

LEMMA TitledGood ==
  ASSUME NEW f, NEW p, NEW q, NEW name \in Byte, NEW type, Good(type, 1, p, f, q)
  PROVE  GoodEntry(p, f, Titled(name, q))
<1>1. CASE Failed(q)
  BY <1>1, FailureStays DEF GoodEntry
<1>2. CASE ~ Failed(q)
  <2>1. PICK end \in p .. Len(f) : \E v : q = State("ok", end, v) /\ Whole(v[1])
    BY <1>2, SingleElement
  <2>2. PICK v : q = State("ok", end, v) /\ Whole(v[1])
    BY <2>1
  <2>3. Titled(name, q) = State("ok", end, [name |-> name, tag |-> v[1]])
    BY <2>2, TitledOn
  <2> QED
    BY <2>2, <2>3 DEF GoodEntry
<1> QED
  BY <1>1, <1>2

LEMMA BehindGood ==
  ASSUME NEW f, NEW p \in Nat, NEW at \in Nat, p <= at, NEW type, type # End => at > p, NEW n \in Nat \ {0},
         NEW t, t.type = type, Whole(t), NEW q, Good(type, n - 1, at, f, q)
  PROVE  Good(type, n, p, f, Behind(t, q))
<1>1. CASE Failed(q)
  BY <1>1, FailureStays DEF Good
<1>2. CASE \E end \in at .. Len(f) : \E v : q = State("ok", end, v) /\ Elements(v, type, n - 1)
  <2>1. PICK end \in at .. Len(f) : \E v : q = State("ok", end, v) /\ Elements(v, type, n - 1)
    BY <1>2
  <2>2. PICK v : q = State("ok", end, v) /\ Elements(v, type, n - 1)
    BY <2>1
  <2>3. n - 1 \in Nat /\ v = [i \in 1 .. (n - 1) |-> v[i]] /\ \A i \in 1 .. (n - 1) : v[i].type = type /\ Whole(v[i])
    BY <2>2 DEF Elements
  <2> DEFINE w == <<t>> \o v
             E == {v[i] : i \in 1 .. (n - 1)} \cup {t}
  <2>4. Behind(t, q) = State("ok", end, w)
    BY <2>2, BehindOn
  <2>5. v \in [1 .. (n - 1) -> E]
    BY <2>3
  <2>6. \A x \in E : x.type = type /\ Whole(x)
    BY <2>3
  <2>7. t \in E
    OBVIOUS
  <2> HIDE DEF E
  <2>8. v \in Seq(E) /\ Len(v) = n - 1 /\ <<t>> \in Seq(E) /\ Len(<<t>>) = 1
    BY <2>3, <2>5, <2>7
  <2>9. w \in Seq(E) /\ Len(w) = n
    BY <2>8
  <2> HIDE DEF w
  <2>10. Elements(w, type, n)
    BY <2>6, <2>9 DEF Elements
  <2>11. end \in p .. Len(f) /\ (type # End => end > p)
    OBVIOUS
  <2> QED
    BY <2>4, <2>10, <2>11 DEF Good
<1> QED
  BY <1>1, <1>2 DEF Good

LEMMA BeforeGood ==
  ASSUME NEW f, NEW p, NEW q, NEW name \in Byte, NEW t, Whole(t), t.type # End, Good(Compound, 1, p, f, q)
  PROVE  GoodTag(Compound, p, f, Before([name |-> name, tag |-> t], q))
<1> DEFINE entry == [name |-> name, tag |-> t]
<1>1. CASE Failed(q)
  BY <1>1, FailureStays DEF GoodTag
<1>2. CASE ~ Failed(q)
  <2>1. PICK end \in p .. Len(f) : \E v : q = State("ok", end, v) /\ v[1].type = Compound /\ Whole(v[1])
    BY <1>2, SingleElement
  <2>2. PICK v : q = State("ok", end, v) /\ v[1].type = Compound /\ Whole(v[1])
    BY <2>1
  <2> DEFINE c == v[1]
             w == Joined(Entry(name, t), c.v)
             u == Entered(entry, c)
  <2>3. Before(entry, q) = State("ok", end, u)
    BY <2>2, BeforeOn
  <2>4. c.type = Compound /\ Whole(c)
    BY <2>2
  <2>5. IsTag(c) /\ Sealed(c) /\ \A k \in Parts(c) : Whole(c.v[k])
    BY <2>4, WholeParts
  <2> HIDE DEF c
  <2>6. /\ c = [type |-> Compound, of |-> End, v |-> c.v] /\ DOMAIN c.v \subseteq Byte /\ Parts(c) = DOMAIN c.v
        /\ \A k \in DOMAIN c.v : Whole(c.v[k]) /\ c.v[k].type # End
    <3>1. Compound # List
      BY DEF List, Compound
    <3> QED
      BY <2>4, <2>5, <3>1 DEF IsTag, Parts, Sealed
  <2>7. /\ DOMAIN w \subseteq Byte /\ w = [k \in DOMAIN w |-> w[k]]
        /\ \A k \in DOMAIN w : Whole(w[k]) /\ w[k].type # End
    <3>1. DOMAIN Entry(name, t) = {name} /\ Entry(name, t)[name] = t
      BY DEF Entry
    <3>2. w = [k \in {name} \cup DOMAIN c.v |-> IF k \in {name} THEN Entry(name, t)[k] ELSE c.v[k]]
      BY <3>1 DEF Joined
    <3> QED
      BY <2>6, <3>1, <3>2
  <2>8. u = [type |-> Compound, of |-> End, v |-> w]
    <3>1. entry.name = name /\ entry.tag = t
      OBVIOUS
    <3>2. u = [c EXCEPT !.v = w]
      BY <3>1 DEF Entered
    <3> QED
      BY <2>6, <3>2
  <2> HIDE DEF u, w
  <2>9. IsTag(u) /\ Parts(u) = DOMAIN w /\ u.v = w /\ u.type = Compound
    BY <2>7, <2>8 DEF IsTag, Parts, End, Value, Bytes, List, Compound
  <2>10. Even(u) /\ Sealed(u)
    BY <2>7, <2>9 DEF Even, Sealed, List, Compound
  <2>11. Whole(u)
    BY <2>7, <2>9, <2>10, WholeMade
  <2> QED
    BY <2>3, <2>9, <2>11 DEF GoodTag
<1> QED
  BY <1>1, <1>2

-----------------------------------------------------------------------------
(* A step of a reader, where later ones are good.                          *)

Later(f, read, p, n) ==
  \A type \in End .. Compound, k \in Byte, at \in 0 .. Len(f) :
    at > p \/ (at = p /\ k < n) => Good(type, k, at, f, read[<<type, k, at>>])

LEMMA EntryGood ==
  ASSUME NEW f \in Seq(Byte), NEW p \in 0 .. Len(f), NEW read, Later(f, read, p, 0)
  PROVE  GoodEntry(p + 1, f, ReadNamedTag(Start(p), f, read))
<1> DEFINE q == ReadNamedTag(Start(p), f, read)
<1>1. q = IF p = Len(f) THEN State("message_size", p, <<>>)
          ELSE IF f[p + 1] = End THEN State("ok", p + 1, [name |-> 0, tag |-> EndTag])
          ELSE IF f[p + 1] > Compound THEN State("illegal_byte_sequence", p + 1, f[p + 1])
          ELSE IF p + 1 = Len(f) THEN State("message_size", p + 1, f[p + 1])
          ELSE Titled(f[p + 2], read[<<f[p + 1], 1, p + 2>>])
  BY NamedRead
<1> HIDE DEF q
<1>2. CASE p = Len(f)
  BY <1>1, <1>2 DEF GoodEntry, Failed, q
<1>3. CASE p # Len(f) /\ f[p + 1] = End
  <2>1. 0 \in Byte /\ p + 1 \in (p + 1) .. Len(f)
    BY <1>3, BaseAssumption DEF Byte
  <2> QED
    BY <1>1, <1>3, <2>1, Simple DEF GoodEntry, q
<1>4. CASE p # Len(f) /\ f[p + 1] # End /\ (f[p + 1] > Compound \/ p + 1 = Len(f))
  BY <1>1, <1>4 DEF GoodEntry, Failed, q
<1>5. CASE p # Len(f) /\ f[p + 1] # End /\ ~ (f[p + 1] > Compound) /\ p + 1 # Len(f)
  <2> DEFINE name == f[p + 2]
             type == f[p + 1]
             r == read[<<type, 1, p + 2>>]
  <2>1. type \in End .. Compound /\ name \in Byte /\ 1 \in Byte /\ p + 2 \in 0 .. Len(f) /\ p + 2 > p
    <3>1. f[p + 1] \in Byte /\ f[p + 2] \in Byte
      BY <1>5
    <3>2. f[p + 1] \in Int /\ 1 \in Byte
      BY <3>1, BaseAssumption DEF Byte
    <3>3. p + 2 \in 0 .. Len(f) /\ p + 2 > p
      BY <1>5
    <3>4. \A b \in Byte : b # End /\ ~ (b > Compound) => b \in End .. Compound
      BY BaseAssumption DEF Byte, End, Compound
    <3> QED
      BY <1>5, <3>1, <3>2, <3>3, <3>4
  <2>2. q = Titled(name, r)
    BY <1>1, <1>5
  <2> HIDE DEF name, type
  <2>3. Good(type, 1, p + 2, f, r)
    BY <2>1 DEF Later
  <2> HIDE DEF r
  <2>4. GoodEntry(p + 2, f, q)
    BY <2>1, <2>2, <2>3, TitledGood
  <2>5. \A end \in (p + 2) .. Len(f) : end \in (p + 1) .. Len(f)
    OBVIOUS
  <2> QED
    BY <2>4, <2>5 DEF GoodEntry, q
<1> QED
  BY <1>2, <1>3, <1>4, <1>5

LEMMA RestGood ==
  ASSUME NEW f \in Seq(Byte), NEW p \in Nat, NEW read, Later(f, read, p, 0), NEW from \in Nat, from > p,
         NEW entry, GoodEntry(from, f, entry)
  PROVE  GoodTag(Compound, from, f, ReadCompound(entry, read))
<1>1. CASE Failed(entry)
  BY <1>1, FailureStays DEF GoodTag
<1>2. CASE ~ Failed(entry)
  <2>1. PICK end \in from .. Len(f) : \E name \in Byte : \E t :
          entry = State("ok", end, [name |-> name, tag |-> t]) /\ Whole(t)
    BY <1>2 DEF GoodEntry
  <2>2. PICK name \in Byte : \E t : entry = State("ok", end, [name |-> name, tag |-> t]) /\ Whole(t)
    BY <2>1
  <2>3. PICK t : entry = State("ok", end, [name |-> name, tag |-> t]) /\ Whole(t)
    BY <2>2
  <2> DEFINE v == [name |-> name, tag |-> t]
  <2>4. v.tag = t
    OBVIOUS
  <2>5. ReadCompound(entry, read) =
          IF v.tag.type = End THEN State("ok", end, EmptyCompound) ELSE Before(v, read[<<Compound, 1, end>>])
    <3> HIDE DEF v
    <3> QED
      BY <2>3, ReadCompoundOn DEF v
  <2>6. CASE t.type = End
    <3>1. ReadCompound(entry, read) = State("ok", end, EmptyCompound)
      BY <2>4, <2>5, <2>6
    <3> QED
      BY <3>1, Simple DEF GoodTag
  <2>7. CASE t.type # End
    <3> DEFINE r == read[<<Compound, 1, end>>]
    <3>1. ReadCompound(entry, read) = Before(v, r)
      BY <2>4, <2>5, <2>7
    <3>2. Compound \in End .. Compound /\ 1 \in Byte /\ end \in 0 .. Len(f) /\ end > p
      BY BaseAssumption DEF Byte, End, Compound
    <3>3. Good(Compound, 1, end, f, r)
      BY <3>2 DEF Later
    <3> HIDE DEF r
    <3>4. GoodTag(Compound, end, f, Before(v, r))
      BY <2>3, <2>7, <3>3, BeforeGood
    <3>5. \A e \in end .. Len(f) : e \in from .. Len(f)
      OBVIOUS
    <3> HIDE DEF v
    <3> QED
      BY <3>1, <3>4, <3>5 DEF GoodTag
  <2> QED
    BY <2>6, <2>7
<1> QED
  BY <1>1, <1>2

LEMMA TagGood ==
  ASSUME NEW f \in Seq(Byte), NEW p \in 0 .. Len(f), NEW read, Later(f, read, p, 0), NEW type \in End .. Compound
  PROVE  GoodTag(type, IF type = End THEN p ELSE p + 1, f, ReadTag(type, Start(p), f, read))
<1> DEFINE q == ReadTag(type, Start(p), f, read)
<1>0. type \in {End, Value, Bytes, List, Compound}
  BY DEF End, Value, Bytes, List, Compound
<1>1. CASE type = End
  <2>1. q = State("ok", p, EndTag)
    BY <1>1, EndRead
  <2>2. p \in p .. Len(f)
    OBVIOUS
  <2> QED
    BY <1>1, <2>1, <2>2, Simple DEF GoodTag
<1>2. CASE type = Value
  <2>1. q = IF p = Len(f) THEN State("message_size", p, <<>>) ELSE State("ok", p + 1, Tag(Value, f[p + 1]))
    BY <1>2, ValueRead
  <2>2. type # End
    BY <1>2 DEF End, Value
  <2> HIDE DEF q
  <2>3. CASE p = Len(f)
    BY <2>1, <2>3 DEF GoodTag, Failed, q
  <2>4. CASE p # Len(f)
    <3>1. f[p + 1] \in Byte /\ p + 1 \in (p + 1) .. Len(f)
      BY <2>4
    <3>2. q = State("ok", p + 1, Tag(Value, f[p + 1]))
      BY <2>1, <2>4
    <3> QED
      BY <1>2, <2>2, <3>1, <3>2, Simple DEF GoodTag, q
  <2> QED
    BY <2>3, <2>4
<1>3. CASE type = Bytes
  <2>1. q = IF p = Len(f) THEN State("message_size", p, <<>>) ELSE AsBytes(read[<<Value, Count(f[p + 1]), p + 1>>])
    BY <1>3, BytesRead
  <2>2. type # End
    BY <1>3 DEF End, Bytes
  <2> HIDE DEF q
  <2>3. CASE p = Len(f)
    BY <2>1, <2>3 DEF GoodTag, Failed, q
  <2>4. CASE p # Len(f)
    <3> DEFINE n == Count(f[p + 1])
               r == read[<<Value, n, p + 1>>]
    <3>1. f[p + 1] \in Byte /\ p + 1 \in 0 .. Len(f) /\ Value \in End .. Compound /\ p + 1 > p
      BY <2>4 DEF End, Value, Compound
    <3>2. n \in Byte /\ 2 * n < Base
      BY <3>1, CountInBounds
    <3>3. q = AsBytes(r)
      BY <2>1, <2>4
    <3> HIDE DEF n
    <3>4. Good(Value, n, p + 1, f, r)
      BY <3>1, <3>2 DEF Later
    <3> HIDE DEF r
    <3>5. GoodTag(Bytes, p + 1, f, q)
      BY <3>2, <3>3, <3>4, AsBytesGood
    <3> QED
      BY <1>3, <2>2, <3>5 DEF q
  <2> QED
    BY <2>3, <2>4
<1>4. CASE type = List
  <2>1. q = IF p = Len(f) THEN State("message_size", p, <<>>)
            ELSE IF p + 1 = Len(f) THEN State("message_size", p + 1, f[p + 1])
            ELSE IF f[p + 1] > Compound \/ (Count(f[p + 2]) > 0 /\ f[p + 1] = End)
              THEN State("illegal_byte_sequence", p + 2, Signed(f[p + 2]))
            ELSE As(read[<<f[p + 1], Count(f[p + 2]), p + 2>>], ListOf(f[p + 1]))
    BY <1>4, ListRead
  <2>2. type # End
    BY <1>4 DEF End, List
  <2> HIDE DEF q
  <2>3. CASE p = Len(f) \/ p + 1 = Len(f)
    BY <2>1, <2>3 DEF GoodTag, Failed, q
  <2>4. CASE p # Len(f) /\ p + 1 # Len(f)
    <3> DEFINE n == Count(f[p + 2])
               of == f[p + 1]
               r == read[<<of, n, p + 2>>]
    <3>1. f[p + 2] \in Byte /\ of \in Byte /\ p + 2 \in 0 .. Len(f) /\ p + 2 > p
      BY <2>4
    <3>2. n \in Byte /\ 2 * n < Base
      BY <3>1, CountInBounds
    <3>3. CASE of > Compound \/ (n > 0 /\ of = End)
      BY <2>1, <2>4, <3>3 DEF GoodTag, Failed, q
    <3>4. CASE ~ (of > Compound \/ (n > 0 /\ of = End))
      <4>1. q = As(r, ListOf(of))
        BY <2>1, <2>4, <3>4
      <4> HIDE DEF n, of
      <4>2. of \in End .. Compound /\ (n > 0 => of # End)
        BY <3>1, <3>4, BaseAssumption DEF Byte, End, Compound
      <4>3. Good(of, n, p + 2, f, r)
        BY <3>1, <3>2, <4>2 DEF Later
      <4> HIDE DEF r
      <4>4. GoodTag(List, p + 2, f, q)
        BY <3>2, <4>1, <4>2, <4>3, AsListGood
      <4>5. \A e \in (p + 2) .. Len(f) : e \in (p + 1) .. Len(f)
        OBVIOUS
      <4>6. GoodTag(List, p + 1, f, q)
        BY <4>4, <4>5 DEF GoodTag
      <4> QED
        BY <1>4, <2>2, <4>6 DEF q
    <3> QED
      BY <3>3, <3>4
  <2> QED
    BY <2>3, <2>4
<1>5. CASE type = Compound
  <2>1. q = ReadCompound(ReadNamedTag(Start(p), f, read), read)
    BY <1>5, CompoundRead
  <2>2. type # End /\ p \in Nat /\ p + 1 \in Nat /\ p + 1 > p
    BY <1>5 DEF End, Compound
  <2>3. GoodTag(Compound, p + 1, f, q)
    BY <2>1, <2>2, EntryGood, RestGood
  <2> HIDE DEF q
  <2> QED
    BY <1>5, <2>2, <2>3 DEF q
<1> QED
  BY <1>0, <1>1, <1>2, <1>3, <1>4, <1>5

LEMMA TagsGood ==
  ASSUME NEW f \in Seq(Byte), NEW p \in 0 .. Len(f), NEW n \in Byte, NEW read, Later(f, read, p, n),
         NEW type \in End .. Compound
  PROVE  Good(type, n, p, f, ReadTags(type, n, p, f, read))
<1>1. CASE n = 0
  <2>1. ReadTags(type, n, p, f, read) = State("ok", p, <<>>)
    BY <1>1 DEF ReadTags, Start, State
  <2>2. Elements(<<>>, type, n) /\ p \in p .. Len(f) /\ ~ (n > 0)
    BY <1>1 DEF Elements
  <2> QED
    BY <2>1, <2>2 DEF Good
<1>2. CASE n # 0
  <2> DEFINE tag == ReadTag(type, Start(p), f, read)
             from == IF type = End THEN p ELSE p + 1
  <2>1. ReadTags(type, n, p, f, read) = ReadMore(tag, type, n, read)
    BY <1>2 DEF ReadTags
  <2>2. n \in Nat /\ n > 0 /\ n - 1 \in Byte
    BY <1>2, BaseAssumption DEF Byte
  <2>3. GoodTag(type, from, f, tag)
    <3>1. Later(f, read, p, 0)
      BY <2>2 DEF Later, Byte
    <3> QED
      BY <3>1, TagGood
  <2> HIDE DEF tag
  <2>4. CASE Failed(tag)
    BY <2>1, <2>4, FailureStays DEF Good
  <2>5. CASE ~ Failed(tag)
    <3>1. PICK at \in from .. Len(f) : \E t : tag = State("ok", at, t) /\ t.type = type /\ Whole(t)
      BY <2>3, <2>5 DEF GoodTag
    <3>2. PICK t : tag = State("ok", at, t) /\ t.type = type /\ Whole(t)
      BY <3>1
    <3> DEFINE r == read[<<type, n - 1, at>>]
    <3>3. ReadMore(tag, type, n, read) = Behind(t, r)
      BY <3>2, ReadMoreOn
    <3>4. at \in 0 .. Len(f) /\ at >= p /\ (type # End => at > p) /\ (at > p \/ (at = p /\ n - 1 < n))
      BY <2>2
    <3>5. Good(type, n - 1, at, f, r)
      BY <2>2, <3>4 DEF Later
    <3> HIDE DEF r
    <3>6. n \in Nat \ {0} /\ p \in Nat /\ at \in Nat /\ p <= at
      BY <2>2, <3>4
    <3>7. Good(type, n, p, f, Behind(t, r))
      BY <3>2, <3>4, <3>5, <3>6, BehindGood
    <3> QED
      BY <2>1, <3>3, <3>7
  <2> QED
    BY <2>4, <2>5
<1> QED
  BY <1>1, <1>2

-----------------------------------------------------------------------------
(* Reading a frame that was cut: what m bytes of it say is said as before,  *)
(* and what needs more fails for want of them.                              *)

Short(c) == \E p, v : c = State("message_size", p, v)

\* q of the frame f, c of its first m bytes.
Alike(q, c, m, f) ==
  \/ c = q /\ (Failed(q) \/ \E at \in 0 .. m : \E v : q = State("ok", at, v))
  \/ Failed(q) /\ m # Len(f)
  \/ Short(c) /\ \E at \in (m + 1) .. Len(f) : \E v : q = State("ok", at, v)

LaterAlike(f, m, whole, cut, p, n) ==
  \A type \in End .. Compound, k \in Byte, at \in 0 .. m :
    at > p \/ (at = p /\ k < n) => Alike(whole[<<type, k, at>>], cut[<<type, k, at>>], m, f)

LEMMA Apart == ASSUME NEW q, Failed(q) PROVE ~ \E p, v : q = State("ok", p, v)
<1>1. q.status # "ok"
  BY DEF Failed, State
<1>2. \A p, v : State("ok", p, v).status = "ok"
  BY DEF State
<1> QED
  BY <1>1, <1>2

LEMMA Carried ==
  ASSUME NEW m, NEW f, NEW q, NEW c, Alike(q, c, m, f), NEW q1, NEW c1,
         Failed(q) => q1 = q, \A at, v : q = State("ok", at, v) => \E w : q1 = State("ok", at, w),
         Short(c) => c1 = c, c = q => c1 = q1
  PROVE  Alike(q1, c1, m, f)
<1>1. CASE c = q /\ (Failed(q) \/ \E at \in 0 .. m : \E v : q = State("ok", at, v))
  BY <1>1 DEF Alike
<1>2. CASE Failed(q) /\ m # Len(f)
  BY <1>2 DEF Alike
<1>3. CASE Short(c) /\ \E at \in (m + 1) .. Len(f) : \E v : q = State("ok", at, v)
  BY <1>3 DEF Alike
<1> QED
  BY <1>1, <1>2, <1>3 DEF Alike

LEMMA ShortFails == ASSUME NEW c, Short(c) PROVE Failed(c)
BY DEF Short, Failed

LEMMA MadeAlike ==
  ASSUME NEW m, NEW f, NEW q, NEW c, Alike(q, c, m, f), NEW t
  PROVE  /\ Alike(As(q, t), As(c, t), m, f)
         /\ Alike(AsBytes(q), AsBytes(c), m, f)
         /\ Alike(Behind(t, q), Behind(t, c), m, f)
         /\ Alike(Titled(t, q), Titled(t, c), m, f)
         /\ Alike(Before(t, q), Before(t, c), m, f)
<1>1. Short(c) => Failed(c)
  BY ShortFails
<1>2. ASSUME NEW x, Failed(x)
      PROVE  As(x, t) = x /\ AsBytes(x) = x /\ Behind(t, x) = x /\ Titled(t, x) = x /\ Before(t, x) = x
  BY <1>2, FailureStays
<1>3. ASSUME NEW at, NEW v, q = State("ok", at, v)
      PROVE  /\ \E w : As(q, t) = State("ok", at, w)
             /\ \E w : AsBytes(q) = State("ok", at, w)
             /\ \E w : Behind(t, q) = State("ok", at, w)
             /\ \E w : Titled(t, q) = State("ok", at, w)
             /\ \E w : Before(t, q) = State("ok", at, w)
  <2>1. \E w : As(q, t) = State("ok", at, w)
    <3> DEFINE w == [t EXCEPT !.v = v]
    <3>1. As(q, t) = State("ok", at, w)
      BY <1>3, AsOn
    <3> HIDE DEF w
    <3> QED
      BY <3>1
  <2>2. \E w : AsBytes(q) = State("ok", at, w)
    BY <1>3, AsBytesOn
  <2>3. \E w : Behind(t, q) = State("ok", at, w)
    BY <1>3, BehindOn
  <2>4. \E w : Titled(t, q) = State("ok", at, w)
    BY <1>3, TitledOn
  <2>5. \E w : Before(t, q) = State("ok", at, w)
    BY <1>3, BeforeOn
  <2> QED
    BY <2>1, <2>2, <2>3, <2>4, <2>5
<1>4. Alike(As(q, t), As(c, t), m, f)
  BY <1>1, <1>2, <1>3, Carried
<1>5. Alike(AsBytes(q), AsBytes(c), m, f)
  BY <1>1, <1>2, <1>3, Carried
<1>6. Alike(Behind(t, q), Behind(t, c), m, f)
  BY <1>1, <1>2, <1>3, Carried
<1>7. Alike(Titled(t, q), Titled(t, c), m, f)
  BY <1>1, <1>2, <1>3, Carried
<1>8. Alike(Before(t, q), Before(t, c), m, f)
  BY <1>1, <1>2, <1>3, Carried
<1> QED
  BY <1>4, <1>5, <1>6, <1>7, <1>8

\* What went on behind the cut.
Past(at, f, q) == Failed(q) \/ \E end \in at .. Len(f) : \E v : q = State("ok", end, v)

LEMMA GoodIsPast ==
  ASSUME NEW at, NEW f, NEW q
  PROVE  /\ \A type, n : Good(type, n, at, f, q) => Past(at, f, q)
         /\ \A type : GoodTag(type, at, f, q) => Past(at, f, q)
         /\ GoodEntry(at, f, q) => Past(at, f, q)
BY DEF Good, GoodTag, GoodEntry, Past

LEMMA PastTheCut ==
  ASSUME NEW f \in Seq(Byte), NEW m \in 0 .. (Len(f) - 1), NEW at \in Nat, at > m, NEW q, Past(at, f, q),
         NEW c, Short(c)
  PROVE  Alike(q, c, m, f)
<1>1. \A end \in at .. Len(f) : end \in (m + 1) .. Len(f)
  OBVIOUS
<1>2. m # Len(f)
  OBVIOUS
<1> QED
  BY <1>1, <1>2 DEF Past, Alike

LEMMA CutFrame ==
  ASSUME NEW f \in Seq(Byte), NEW m \in 0 .. Len(f)
  PROVE  LET g == SubSeq(f, 1, m)
         IN  g \in Seq(Byte) /\ Len(g) = m /\ \A i \in 1 .. m : g[i] = f[i]
OBVIOUS

LEMMA EntryAlike ==
  ASSUME NEW f \in Seq(Byte), NEW m \in 0 .. Len(f), NEW p \in 0 .. m, NEW whole, NEW cut,
         Later(f, whole, p, 0), LaterAlike(f, m, whole, cut, p, 0)
  PROVE  Alike(ReadNamedTag(Start(p), f, whole), ReadNamedTag(Start(p), SubSeq(f, 1, m), cut), m, f)
<1> DEFINE g == SubSeq(f, 1, m)
           q == ReadNamedTag(Start(p), f, whole)
           c == ReadNamedTag(Start(p), g, cut)
<1>0. SUFFICES Alike(q, c, m, f)
  OBVIOUS
<1>1. g \in Seq(Byte) /\ Len(g) = m /\ \A i \in 1 .. m : g[i] = f[i]
  BY CutFrame
<1> HIDE DEF g
<1>2. p \in 0 .. Len(f) /\ p \in 0 .. Len(g) /\ m \in Nat /\ Len(f) \in Nat /\ p \in Nat
  BY <1>1
<1>3. q = IF p = Len(f) THEN State("message_size", p, <<>>)
          ELSE IF f[p + 1] = End THEN State("ok", p + 1, [name |-> 0, tag |-> EndTag])
          ELSE IF f[p + 1] > Compound THEN State("illegal_byte_sequence", p + 1, f[p + 1])
          ELSE IF p + 1 = Len(f) THEN State("message_size", p + 1, f[p + 1])
          ELSE Titled(f[p + 2], whole[<<f[p + 1], 1, p + 2>>])
  BY <1>2, NamedRead
<1>4. c = IF p = m THEN State("message_size", p, <<>>)
          ELSE IF g[p + 1] = End THEN State("ok", p + 1, [name |-> 0, tag |-> EndTag])
          ELSE IF g[p + 1] > Compound THEN State("illegal_byte_sequence", p + 1, g[p + 1])
          ELSE IF p + 1 = m THEN State("message_size", p + 1, g[p + 1])
          ELSE Titled(g[p + 2], cut[<<g[p + 1], 1, p + 2>>])
  BY <1>1, <1>2, NamedRead
<1>5. GoodEntry(p + 1, f, q)
  BY <1>2, EntryGood
<1> HIDE DEF q, c
<1>6. CASE p = m
  <2>1. CASE p = Len(f)
    BY <1>3, <1>4, <1>6, <2>1 DEF Alike, Failed
  <2>2. CASE p # Len(f)
    <3>1. Short(c) /\ m \in 0 .. (Len(f) - 1) /\ p + 1 \in Nat /\ p + 1 > m
      BY <1>2, <1>4, <1>6, <2>2 DEF Short
    <3> QED
      BY <1>5, <3>1, GoodIsPast, PastTheCut
  <2> QED
    BY <2>1, <2>2
<1>7. CASE p # m
  <2>1. p # Len(f) /\ p + 1 \in 1 .. m /\ g[p + 1] = f[p + 1] /\ f[p + 1] \in Byte /\ p + 1 \in 0 .. m
    BY <1>1, <1>2, <1>7
  <2> DEFINE type == f[p + 1]
  <2>2. CASE type = End
    BY <1>3, <1>4, <1>7, <2>1, <2>2 DEF Alike
  <2>3. CASE type # End /\ type > Compound
    BY <1>3, <1>4, <1>7, <2>1, <2>3 DEF Alike, Failed
  <2>4. CASE type # End /\ ~ (type > Compound) /\ p + 1 = m
    <3>1. CASE m = Len(f)
      BY <1>3, <1>4, <1>7, <2>1, <2>4, <3>1 DEF Alike, Failed
    <3>2. CASE m # Len(f)
      <4>1. c = State("message_size", p + 1, g[p + 1])
        BY <1>4, <1>7, <2>1, <2>4
      <4>2. q = Titled(f[p + 2], whole[<<type, 1, p + 2>>])
        BY <1>3, <2>1, <2>4, <3>2
      <4>3. Past(p + 2, f, q)
        <5> DEFINE name == f[p + 2]
                   r == whole[<<type, 1, p + 2>>]
        <5>1. type \in End .. Compound /\ name \in Byte /\ 1 \in Byte /\ p + 2 \in 0 .. Len(f) /\ p + 2 > p
          <6>1. name \in Byte /\ p + 2 \in 0 .. Len(f) /\ p + 2 > p
            BY <1>2, <2>4, <3>2
          <6>2. \A b \in Byte : b # End /\ ~ (b > Compound) => b \in End .. Compound
            BY BaseAssumption DEF Byte, End, Compound
          <6>3. 1 \in Byte
            BY BaseAssumption DEF Byte
          <6> QED
            BY <2>1, <2>4, <6>1, <6>2, <6>3
        <5>2. Good(type, 1, p + 2, f, r)
          BY <5>1 DEF Later
        <5> HIDE DEF r, name, type
        <5>3. GoodEntry(p + 2, f, Titled(name, r))
          BY <5>1, <5>2, TitledGood
        <5>4. q = Titled(name, r)
          BY <4>2 DEF name, r, type
        <5> QED
          BY <5>3, <5>4, GoodIsPast
      <4>4. Short(c) /\ m \in 0 .. (Len(f) - 1) /\ p + 2 \in Nat /\ p + 2 > m
        BY <1>2, <2>4, <3>2, <4>1 DEF Short
      <4> QED
        BY <4>3, <4>4, PastTheCut
    <3> QED
      BY <3>1, <3>2
  <2>5. CASE type # End /\ ~ (type > Compound) /\ p + 1 # m
    <3>1. p + 2 \in 1 .. m /\ p + 2 \in 0 .. m /\ p + 2 > p /\ g[p + 2] = f[p + 2] /\ p + 1 # Len(f)
      BY <1>1, <1>2, <2>1, <2>5
    <3>2. type \in End .. Compound /\ 1 \in Byte
      <4>1. \A b \in Byte : b # End /\ ~ (b > Compound) => b \in End .. Compound
        BY BaseAssumption DEF Byte, End, Compound
      <4>2. 1 \in Byte
        BY BaseAssumption DEF Byte
      <4> QED
        BY <2>1, <2>5, <4>1, <4>2
    <3>3. Alike(whole[<<type, 1, p + 2>>], cut[<<type, 1, p + 2>>], m, f)
      BY <3>1, <3>2 DEF LaterAlike
    <3>4. q = Titled(f[p + 2], whole[<<type, 1, p + 2>>]) /\ c = Titled(f[p + 2], cut[<<type, 1, p + 2>>])
      BY <1>3, <1>4, <1>7, <2>1, <2>5, <3>1
    <3> QED
      BY <3>3, <3>4, MadeAlike
  <2> QED
    BY <2>2, <2>3, <2>4, <2>5
<1> QED
  BY <1>6, <1>7

LEMMA RestAlike ==
  ASSUME NEW f \in Seq(Byte), NEW m \in 0 .. Len(f), NEW p \in 0 .. m, NEW whole, NEW cut,
         Later(f, whole, p, 0), LaterAlike(f, m, whole, cut, p, 0),
         NEW q, NEW c, GoodEntry(p + 1, f, q), Alike(q, c, m, f)
  PROVE  Alike(ReadCompound(q, whole), ReadCompound(c, cut), m, f)
<1>1. CASE Failed(q)
  <2>1. ReadCompound(q, whole) = q
    BY <1>1, FailureStays
  <2>2. CASE c = q
    <3>1. ReadCompound(c, cut) = c
      BY <1>1, <2>2, FailureStays
    <3> QED
      BY <1>1, <2>1, <2>2, <3>1 DEF Alike
  <2>3. CASE c # q
    <3>1. m # Len(f)
      BY <1>1, <2>3, Apart DEF Alike
    <3> QED
      BY <1>1, <2>1, <3>1 DEF Alike
  <2> QED
    BY <2>2, <2>3
<1>2. CASE ~ Failed(q)
  <2>1. PICK end \in (p + 1) .. Len(f) : \E name \in Byte : \E t :
          q = State("ok", end, [name |-> name, tag |-> t]) /\ Whole(t)
    BY <1>2 DEF GoodEntry
  <2>2. PICK name \in Byte : \E t : q = State("ok", end, [name |-> name, tag |-> t]) /\ Whole(t)
    BY <2>1
  <2>3. PICK t : q = State("ok", end, [name |-> name, tag |-> t]) /\ Whole(t)
    BY <2>2
  <2> DEFINE v == [name |-> name, tag |-> t]
  <2>4. v.tag = t /\ q = State("ok", end, v)
    BY <2>3
  <2>5. \A a, w : q = State("ok", a, w) => a = end
    BY <2>4 DEF State
  <2> HIDE DEF v
  <2>6. CASE end <= m
    <3>1. c = q
      BY <1>2, <2>5, <2>6 DEF Alike
    <3>2. \A read : ReadCompound(q, read) =
            IF v.tag.type = End THEN State("ok", end, EmptyCompound) ELSE Before(v, read[<<Compound, 1, end>>])
      BY <2>4, ReadCompoundOn
    <3>3. end \in 0 .. m
      BY <2>6
    <3>4. CASE t.type = End
      <4>1. ReadCompound(q, whole) = State("ok", end, EmptyCompound) /\ ReadCompound(q, cut) = State("ok", end, EmptyCompound)
        BY <2>4, <3>2, <3>4
      <4> QED
        BY <3>1, <3>3, <4>1 DEF Alike
    <3>5. CASE t.type # End
      <4>1. /\ ReadCompound(q, whole) = Before(v, whole[<<Compound, 1, end>>])
            /\ ReadCompound(q, cut) = Before(v, cut[<<Compound, 1, end>>])
        BY <2>4, <3>2, <3>5
      <4>2. Compound \in End .. Compound /\ 1 \in Byte /\ end > p
        BY BaseAssumption DEF Byte, End, Compound
      <4>3. Alike(whole[<<Compound, 1, end>>], cut[<<Compound, 1, end>>], m, f)
        BY <3>3, <4>2 DEF LaterAlike
      <4> QED
        BY <3>1, <4>1, <4>3, MadeAlike
    <3> QED
      BY <3>4, <3>5
  <2>7. CASE end > m
    <3>1. Short(c)
      <4>1. ~ \E at \in 0 .. m : \E w : q = State("ok", at, w)
        BY <2>5, <2>7
      <4> QED
        BY <1>2, <4>1 DEF Alike
    <3>2. ReadCompound(c, cut) = c
      BY <3>1, ShortFails, FailureStays
    <3>3. GoodTag(Compound, end, f, ReadCompound(q, whole))
      <4>1. GoodEntry(end, f, q)
        <5>1. end \in end .. Len(f)
          OBVIOUS
        <5> QED
          BY <2>3, <5>1 DEF GoodEntry
      <4>2. end \in Nat /\ end > p /\ p \in Nat
        OBVIOUS
      <4> QED
        BY <4>1, <4>2, RestGood
    <3>4. m \in 0 .. (Len(f) - 1) /\ end \in Nat
      BY <2>7
    <3> QED
      BY <2>7, <3>1, <3>2, <3>3, <3>4, GoodIsPast, PastTheCut
  <2> QED
    BY <2>6, <2>7
<1> QED
  BY <1>1, <1>2

LEMMA TagAlike ==
  ASSUME NEW f \in Seq(Byte), NEW m \in 0 .. Len(f), NEW p \in 0 .. m, NEW whole, NEW cut,
         Later(f, whole, p, 0), LaterAlike(f, m, whole, cut, p, 0), NEW type \in End .. Compound
  PROVE  Alike(ReadTag(type, Start(p), f, whole), ReadTag(type, Start(p), SubSeq(f, 1, m), cut), m, f)
<1> DEFINE g == SubSeq(f, 1, m)
           q == ReadTag(type, Start(p), f, whole)
           c == ReadTag(type, Start(p), g, cut)
<1>0. SUFFICES Alike(q, c, m, f)
  OBVIOUS
<1>1. g \in Seq(Byte) /\ Len(g) = m /\ \A i \in 1 .. m : g[i] = f[i]
  BY CutFrame
<1>2. type = Compound => Alike(q, c, m, f)
  <2>1. p \in 0 .. Len(f)
    OBVIOUS
  <2> DEFINE e == ReadNamedTag(Start(p), f, whole)
             d == ReadNamedTag(Start(p), g, cut)
  <2>2. Alike(e, d, m, f)
    BY EntryAlike
  <2>3. GoodEntry(p + 1, f, e)
    BY <2>1, EntryGood
  <2>4. type = Compound => q = ReadCompound(e, whole) /\ c = ReadCompound(d, cut)
    BY CompoundRead
  <2> HIDE DEF e, d, g, q, c
  <2> QED
    BY <2>2, <2>3, <2>4, RestAlike
<1> HIDE DEF g
<1>3. p \in 0 .. Len(f) /\ p \in 0 .. Len(g) /\ m \in Nat /\ Len(f) \in Nat /\ p \in Nat
  BY <1>1
<1>4. GoodTag(type, IF type = End THEN p ELSE p + 1, f, q)
  BY <1>3, TagGood
<1>5. type \in {End, Value, Bytes, List, Compound}
  BY DEF End, Value, Bytes, List, Compound
<1>6. CASE type = End
  <2>1. q = State("ok", p, EndTag) /\ c = State("ok", p, EndTag)
    BY <1>6, EndRead
  <2> HIDE DEF q, c
  <2> QED
    BY <2>1 DEF Alike
<1>7. CASE p = m /\ type \in {Value, Bytes, List}
  <2>1. type # End
    BY <1>7 DEF End, Value, Bytes, List
  <2>2. c = State("message_size", p, <<>>)
    <3>1. type = Value => c = State("message_size", p, <<>>)
      BY <1>1, <1>3, <1>7, ValueRead
    <3>2. type = Bytes => c = State("message_size", p, <<>>)
      BY <1>1, <1>3, <1>7, BytesRead
    <3>3. type = List => c = State("message_size", p, <<>>)
      BY <1>1, <1>3, <1>7, ListRead
    <3> QED
      BY <1>7, <3>1, <3>2, <3>3
  <2>3. CASE p = Len(f)
    <3>1. type = Value => q = State("message_size", p, <<>>)
      BY <1>3, <2>3, ValueRead
    <3>2. type = Bytes => q = State("message_size", p, <<>>)
      BY <1>3, <2>3, BytesRead
    <3>3. type = List => q = State("message_size", p, <<>>)
      BY <1>3, <2>3, ListRead
    <3>4. q = State("message_size", p, <<>>)
      BY <1>7, <3>1, <3>2, <3>3
    <3> HIDE DEF q, c
    <3> QED
      BY <2>2, <3>4 DEF Alike, Failed
  <2>4. CASE p # Len(f)
    <3> HIDE DEF q, c
    <3>1. Short(c) /\ m \in 0 .. (Len(f) - 1) /\ p + 1 \in Nat /\ p + 1 > m
      BY <1>3, <1>7, <2>2, <2>4 DEF Short
    <3>2. GoodTag(type, p + 1, f, q)
      BY <1>4, <2>1
    <3> QED
      BY <3>1, <3>2, GoodIsPast, PastTheCut
  <2> QED
    BY <2>3, <2>4
<1>8. CASE p # m /\ type = Value
  <2>1. p # Len(f) /\ g[p + 1] = f[p + 1] /\ p + 1 \in 0 .. m
    BY <1>1, <1>3, <1>8
  <2>2. q = State("ok", p + 1, Tag(Value, f[p + 1]))
    BY <1>3, <1>8, <2>1, ValueRead
  <2>3. c = State("ok", p + 1, Tag(Value, f[p + 1]))
    BY <1>1, <1>3, <1>8, <2>1, ValueRead
  <2> HIDE DEF q, c
  <2> QED
    BY <2>1, <2>2, <2>3 DEF Alike
<1>9. CASE p # m /\ type = Bytes
  <2>1. p # Len(f) /\ g[p + 1] = f[p + 1] /\ p + 1 \in 0 .. m /\ p + 1 > p /\ f[p + 1] \in Byte
    BY <1>1, <1>3, <1>9
  <2> DEFINE n == Count(f[p + 1])
  <2>2. q = AsBytes(whole[<<Value, n, p + 1>>])
    BY <1>3, <1>9, <2>1, BytesRead
  <2>3. c = AsBytes(cut[<<Value, n, p + 1>>])
    BY <1>1, <1>3, <1>9, <2>1, BytesRead
  <2>4. n \in Byte /\ Value \in End .. Compound
    <3>1. n \in Byte
      BY <2>1, CountInBounds
    <3> QED
      BY <3>1 DEF End, Value, Compound
  <2> HIDE DEF q, c, n
  <2>5. Alike(whole[<<Value, n, p + 1>>], cut[<<Value, n, p + 1>>], m, f)
    BY <2>1, <2>4 DEF LaterAlike
  <2> QED
    BY <2>2, <2>3, <2>5, MadeAlike
<1>10. CASE p # m /\ type = List
  <2>1. /\ p # Len(f) /\ g[p + 1] = f[p + 1] /\ p + 1 \in 0 .. m /\ p + 1 > p /\ f[p + 1] \in Byte
        /\ p + 1 \in 0 .. Len(f)
    BY <1>1, <1>3, <1>10
  <2> DEFINE of == f[p + 1]
  <2>2. q = IF p + 1 = Len(f) THEN State("message_size", p + 1, of)
            ELSE IF of > Compound \/ (Count(f[p + 2]) > 0 /\ of = End)
              THEN State("illegal_byte_sequence", p + 2, Signed(f[p + 2]))
            ELSE As(whole[<<of, Count(f[p + 2]), p + 2>>], ListOf(of))
    BY <1>3, <1>10, <2>1, ListRead
  <2>3. c = IF p + 1 = m THEN State("message_size", p + 1, of)
            ELSE IF of > Compound \/ (Count(g[p + 2]) > 0 /\ of = End)
              THEN State("illegal_byte_sequence", p + 2, Signed(g[p + 2]))
            ELSE As(cut[<<of, Count(g[p + 2]), p + 2>>], ListOf(of))
    BY <1>1, <1>3, <1>10, <2>1, ListRead
  <2> HIDE DEF q, c
  <2>4. CASE p + 1 = Len(f)
    <3>1. p + 1 = m
      BY <1>3, <1>10, <2>4
    <3> QED
      BY <2>2, <2>3, <2>4, <3>1 DEF Alike, Failed
  <2>5. CASE p + 1 # Len(f)
    <3> DEFINE n == Count(f[p + 2])
               r == whole[<<of, n, p + 2>>]
    <3>1. n \in Byte /\ 2 * n < Base /\ p + 2 \in 0 .. Len(f) /\ p + 2 > p
      <4>1. f[p + 2] \in Byte /\ p + 2 \in 0 .. Len(f) /\ p + 2 > p
        BY <1>3, <2>1, <2>5
      <4> QED
        BY <4>1, CountInBounds
    <3>2. CASE p + 1 = m
      <4>1. Short(c) /\ m \in 0 .. (Len(f) - 1) /\ p + 2 \in Nat /\ p + 2 > m
        BY <1>3, <2>3, <2>5, <3>2 DEF Short
      <4>2. Past(p + 2, f, q)
        <5>1. CASE of > Compound \/ (n > 0 /\ of = End)
          BY <2>2, <2>5, <5>1 DEF Past, Failed
        <5>2. CASE ~ (of > Compound \/ (n > 0 /\ of = End))
          <6>1. q = As(r, ListOf(of))
            BY <2>2, <2>5, <5>2
          <6> HIDE DEF n, of
          <6>2. of \in End .. Compound /\ (n > 0 => of # End)
            <7>1. \A b \in Byte : ~ (b > Compound) => b \in End .. Compound
              BY BaseAssumption DEF Byte, End, Compound
            <7>2. of \in Byte
              BY <2>1 DEF of
            <7> QED
              BY <5>2, <7>1, <7>2
          <6>3. Good(of, n, p + 2, f, r)
            BY <3>1, <6>2 DEF Later
          <6> HIDE DEF r
          <6>4. GoodTag(List, p + 2, f, q)
            BY <3>1, <6>1, <6>2, <6>3, AsListGood
          <6> QED
            BY <6>4, GoodIsPast
        <5> QED
          BY <5>1, <5>2
      <4> QED
        BY <4>1, <4>2, PastTheCut
    <3>3. CASE p + 1 # m
      <4>1. g[p + 2] = f[p + 2] /\ p + 2 \in 0 .. m
        BY <1>1, <1>3, <1>10, <3>3
      <4>2. CASE of > Compound \/ (n > 0 /\ of = End)
        <5>1. /\ q = State("illegal_byte_sequence", p + 2, Signed(f[p + 2]))
              /\ c = State("illegal_byte_sequence", p + 2, Signed(f[p + 2]))
          BY <2>2, <2>3, <2>5, <3>3, <4>1, <4>2
        <5> QED
          BY <5>1 DEF Alike, Failed
      <4>3. CASE ~ (of > Compound \/ (n > 0 /\ of = End))
        <5>1. q = As(whole[<<of, n, p + 2>>], ListOf(of)) /\ c = As(cut[<<of, n, p + 2>>], ListOf(of))
          BY <2>2, <2>3, <2>5, <3>3, <4>1, <4>3
        <5> HIDE DEF n, of
        <5>2. of \in End .. Compound
          <6>1. \A b \in Byte : ~ (b > Compound) => b \in End .. Compound
            BY BaseAssumption DEF Byte, End, Compound
          <6>2. of \in Byte
            BY <2>1 DEF of
          <6> QED
            BY <4>3, <6>1, <6>2
        <5>3. Alike(whole[<<of, n, p + 2>>], cut[<<of, n, p + 2>>], m, f)
          BY <3>1, <4>1, <5>2 DEF LaterAlike
        <5> QED
          BY <5>1, <5>3, MadeAlike
      <4> QED
        BY <4>2, <4>3
    <3> QED
      BY <3>2, <3>3
  <2> QED
    BY <2>4, <2>5
<1> HIDE DEF q, c
<1> QED
  BY <1>2, <1>5, <1>6, <1>7, <1>8, <1>9, <1>10

LEMMA TagsAlike ==
  ASSUME NEW f \in Seq(Byte), NEW m \in 0 .. Len(f), NEW p \in 0 .. m, NEW n \in Byte, NEW whole, NEW cut,
         Later(f, whole, p, n), LaterAlike(f, m, whole, cut, p, n), NEW type \in End .. Compound
  PROVE  Alike(ReadTags(type, n, p, f, whole), ReadTags(type, n, p, SubSeq(f, 1, m), cut), m, f)
<1> DEFINE g == SubSeq(f, 1, m)
<1>1. CASE n = 0
  <2>1. ReadTags(type, n, p, f, whole) = State("ok", p, <<>>) /\ ReadTags(type, n, p, g, cut) = State("ok", p, <<>>)
    BY <1>1 DEF ReadTags, Start, State
  <2> QED
    BY <2>1 DEF Alike
<1>2. CASE n # 0
  <2> DEFINE q == ReadTag(type, Start(p), f, whole)
             c == ReadTag(type, Start(p), g, cut)
  <2>1. ReadTags(type, n, p, f, whole) = ReadMore(q, type, n, whole) /\ ReadTags(type, n, p, g, cut) = ReadMore(c, type, n, cut)
    BY <1>2 DEF ReadTags
  <2>2. n \in Nat /\ n > 0 /\ n - 1 \in Byte /\ n - 1 < n
    BY <1>2, BaseAssumption DEF Byte
  <2>3. Later(f, whole, p, 0) /\ LaterAlike(f, m, whole, cut, p, 0)
    BY <2>2 DEF Later, LaterAlike, Byte
  <2>4. Alike(q, c, m, f)
    BY <2>3, TagAlike
  <2>5. GoodTag(type, IF type = End THEN p ELSE p + 1, f, q)
    <3>1. p \in 0 .. Len(f)
      OBVIOUS
    <3> QED
      BY <2>3, <3>1, TagGood
  <2> SUFFICES Alike(ReadMore(q, type, n, whole), ReadMore(c, type, n, cut), m, f)
    BY <2>1
  <2> HIDE DEF q, c, g
  <2>6. CASE Failed(q)
    <3>1. ReadMore(q, type, n, whole) = q
      BY <2>6, FailureStays
    <3>2. CASE c = q
      <4>1. ReadMore(c, type, n, cut) = c
        BY <2>6, <3>2, FailureStays
      <4> QED
        BY <2>6, <3>1, <3>2, <4>1 DEF Alike
    <3>3. CASE c # q
      <4>1. m # Len(f)
        BY <2>4, <2>6, <3>3, Apart DEF Alike
      <4> QED
        BY <2>6, <3>1, <4>1 DEF Alike
    <3> QED
      BY <3>2, <3>3
  <2>7. CASE ~ Failed(q)
    <3>1. PICK at \in p .. Len(f) : \E t : q = State("ok", at, t)
      <4>1. PICK at \in (IF type = End THEN p ELSE p + 1) .. Len(f) : \E t : q = State("ok", at, t)
        BY <2>5, <2>7 DEF GoodTag
      <4>2. at \in p .. Len(f)
        OBVIOUS
      <4> QED
        BY <4>1, <4>2
    <3>2. PICK t : q = State("ok", at, t)
      BY <3>1
    <3>3. \A a, w : q = State("ok", a, w) => a = at
      BY <3>2 DEF State
    <3> DEFINE r == whole[<<type, n - 1, at>>]
               s == cut[<<type, n - 1, at>>]
    <3>4. ReadMore(q, type, n, whole) = Behind(t, r) /\ ReadMore(q, type, n, cut) = Behind(t, s)
      BY <3>2, ReadMoreOn
    <3>5. CASE at <= m
      <4>1. c = q
        BY <2>4, <2>7, <3>3, <3>5 DEF Alike
      <4>2. at \in 0 .. m /\ (at > p \/ (at = p /\ n - 1 < n))
        BY <2>2, <3>5
      <4>3. Alike(r, s, m, f)
        BY <2>2, <4>2 DEF LaterAlike
      <4> HIDE DEF r, s
      <4> QED
        BY <3>4, <4>1, <4>3, MadeAlike
    <3>6. CASE at > m
      <4>1. Short(c)
        <5>1. ~ \E a \in 0 .. m : \E w : q = State("ok", a, w)
          BY <3>3, <3>6
        <5> QED
          BY <2>4, <2>7, <5>1 DEF Alike
      <4>2. ReadMore(c, type, n, cut) = c /\ Behind(t, c) = c
        BY <4>1, ShortFails, FailureStays
      <4>3. Good(type, n - 1, at, f, r)
        <5>1. at \in 0 .. Len(f) /\ at > p
          BY <3>6
        <5> QED
          BY <2>2, <5>1 DEF Later
      <4> HIDE DEF r, s
      <4>4. m \in 0 .. (Len(f) - 1) /\ at \in Nat
        BY <3>6
      <4>5. Alike(r, c, m, f)
        BY <3>6, <4>1, <4>3, <4>4, GoodIsPast, PastTheCut
      <4>6. Alike(Behind(t, r), Behind(t, c), m, f)
        BY <4>5, MadeAlike
      <4> QED
        BY <3>4, <4>2, <4>6
    <3> QED
      BY <3>5, <3>6
  <2> QED
    BY <2>6, <2>7
<1> QED
  BY <1>1, <1>2

-----------------------------------------------------------------------------
(* What remains to be read gets less: by a position, or by a tag at one.    *)

Remaining(n, p, d) == (d - p) * Base + n

LEMMA LessRemains ==
  ASSUME NEW d \in Nat, NEW n \in Byte, NEW k \in Byte, NEW p \in 0 .. d, NEW at \in 0 .. d, at > p \/ (at = p /\ k < n)
  PROVE  Remaining(n, p, d) \in Nat /\ Remaining(k, at, d) \in Nat /\ Remaining(k, at, d) < Remaining(n, p, d)
<1>1. Base \in Nat /\ Base >= 2 /\ n \in Nat /\ k \in Nat /\ n < Base /\ k < Base
  BY BaseAssumption DEF Byte
<1>2. PICK a \in Nat : a = d - p
  OBVIOUS
<1>3. PICK b \in Nat : b = d - at
  OBVIOUS
<1>4. a * Base \in Nat /\ b * Base \in Nat
  BY <1>1
<1>5. CASE at > p
  <2>1. PICK c \in Nat : a = b + 1 + c
    <3>1. a - b - 1 \in Nat /\ a = b + 1 + (a - b - 1)
      BY <1>2, <1>3, <1>5
    <3> QED
      BY <3>1
  <2>2. a * Base = b * Base + Base + c * Base /\ c * Base \in Nat
    BY <1>1, <2>1
  <2> QED
    BY <1>1, <1>2, <1>3, <1>4, <2>2 DEF Remaining
<1>6. CASE at = p /\ k < n
  <2>1. a = b
    BY <1>2, <1>3, <1>6
  <2> QED
    BY <1>1, <1>2, <1>3, <1>4, <1>6, <2>1 DEF Remaining
<1> QED
  BY <1>5, <1>6

LEMMA RemainingBound ==
  ASSUME NEW d \in Nat, NEW n \in Byte, NEW p \in 0 .. d
  PROVE  Remaining(n, p, d) \in Nat
<1>1. Base \in Nat /\ n \in Nat
  BY BaseAssumption DEF Byte
<1>2. PICK a \in Nat : a = d - p
  OBVIOUS
<1>3. a * Base \in Nat
  BY <1>1
<1> QED
  BY <1>1, <1>2, <1>3 DEF Remaining

LEMMA ByRemaining ==
  ASSUME NEW d \in Nat, NEW X,
         \A n \in Byte, p \in 0 .. d :
           (\A k \in Byte, at \in 0 .. d : at > p \/ (at = p /\ k < n) => <<k, at>> \in X) => <<n, p>> \in X
  PROVE  \A n \in Byte, p \in 0 .. d : <<n, p>> \in X
<1> DEFINE K == {j \in Nat : \A n \in Byte, p \in 0 .. d : Remaining(n, p, d) < j => <<n, p>> \in X}
<1>1. 0 \in K
  BY RemainingBound
<1>2. ASSUME NEW j \in Nat, j \in K PROVE j + 1 \in K
  <2> SUFFICES ASSUME NEW n \in Byte, NEW p \in 0 .. d, Remaining(n, p, d) < j + 1 PROVE <<n, p>> \in X
    OBVIOUS
  <2>1. ASSUME NEW k \in Byte, NEW at \in 0 .. d, at > p \/ (at = p /\ k < n) PROVE <<k, at>> \in X
    <3>1. Remaining(k, at, d) < j
      BY <2>1, LessRemains
    <3> QED
      BY <1>2, <3>1
  <2> QED
    BY <2>1
<1> HIDE DEF K
<1>3. Nat \subseteq K
  BY <1>1, <1>2, SetInduction
<1>4. SUFFICES ASSUME NEW n \in Byte, NEW p \in 0 .. d PROVE <<n, p>> \in X
  OBVIOUS
<1>5. Remaining(n, p, d) + 1 \in K /\ Remaining(n, p, d) < Remaining(n, p, d) + 1
  BY <1>3, RemainingBound
<1> QED
  BY <1>5 DEF K

-----------------------------------------------------------------------------
(* There is a reader that reads by itself.                                 *)

Tasks(f) == (End .. Compound) \X Byte \X (0 .. Len(f))

LEMMA TasksAre ==
  ASSUME NEW f
  PROVE  /\ \A type \in End .. Compound, n \in Byte, p \in 0 .. Len(f) :
              <<type, n, p>> \in Tasks(f) /\ <<type, n, p>>[1] = type /\ <<type, n, p>>[2] = n /\ <<type, n, p>>[3] = p
         /\ \A x \in Tasks(f) :
              x = <<x[1], x[2], x[3]>> /\ x[1] \in End .. Compound /\ x[2] \in Byte /\ x[3] \in 0 .. Len(f)
BY DEF Tasks

Reads(read, f) == read = [x \in Tasks(f) |-> ReadTags(x[1], x[2], x[3], f, read)]

LEMMA ReadsSo ==
  ASSUME NEW f, NEW read, Reads(read, f), NEW type \in End .. Compound, NEW n \in Byte, NEW p \in 0 .. Len(f)
  PROVE  read[<<type, n, p>>] = ReadTags(type, n, p, f, read)
<1> DEFINE x == <<type, n, p>>
<1>1. x \in Tasks(f) /\ x[1] = type /\ x[2] = n /\ x[3] = p
  BY TasksAre
<1> HIDE DEF x
<1>2. read[x] = ReadTags(x[1], x[2], x[3], f, read)
  BY <1>1 DEF Reads
<1>3. read[x] = ReadTags(type, n, p, f, read)
  BY <1>1, <1>2
<1> QED
  BY <1>3 DEF x

SameLater(f, g, h, p, n) ==
  \A t \in End .. Compound, k \in Byte, at \in 0 .. Len(f) :
    at > p \/ (at = p /\ k < n) => g[<<t, k, at>>] = h[<<t, k, at>>]

LEMMA SameReads ==
  ASSUME NEW f \in Seq(Byte), NEW g, NEW h, NEW p \in 0 .. Len(f), NEW n \in Byte, NEW type \in End .. Compound,
         Later(f, g, p, n), SameLater(f, g, h, p, n)
  PROVE  ReadTags(type, n, p, f, g) = ReadTags(type, n, p, f, h)
<1> DEFINE m == Len(f)
<1>1. LaterAlike(f, m, g, h, p, n)
  <2> SUFFICES ASSUME NEW t \in End .. Compound, NEW k \in Byte, NEW at \in 0 .. m, at > p \/ (at = p /\ k < n)
               PROVE  Alike(g[<<t, k, at>>], h[<<t, k, at>>], m, f)
    BY DEF LaterAlike
  <2> DEFINE q == g[<<t, k, at>>]
             c == h[<<t, k, at>>]
  <2>1. Good(t, k, at, f, q) /\ q = c
    BY DEF Later, SameLater
  <2> HIDE DEF q, c
  <2>2. \A end \in at .. Len(f) : end \in 0 .. m
    OBVIOUS
  <2>3. Failed(q) \/ \E end \in 0 .. m : \E v : q = State("ok", end, v)
    BY <2>1, <2>2 DEF Good
  <2>4. Alike(q, c, m, f)
    BY <2>1, <2>3 DEF Alike
  <2> QED
    BY <2>4 DEF q, c
<1>2. SubSeq(f, 1, m) = f
  OBVIOUS
<1>3. m \in 0 .. Len(f) /\ p \in 0 .. m
  OBVIOUS
<1>4. Alike(ReadTags(type, n, p, f, g), ReadTags(type, n, p, f, h), m, f)
  <2> HIDE DEF m
  <2>1. Alike(ReadTags(type, n, p, f, g), ReadTags(type, n, p, SubSeq(f, 1, m), h), m, f)
    BY <1>1, <1>3, TagsAlike
  <2> QED
    BY <1>2, <2>1
<1>5. ~ \E at \in (m + 1) .. Len(f) : TRUE
  OBVIOUS
<1> QED
  BY <1>4, <1>5 DEF Alike

LEMMA ReadersExist ==
  ASSUME NEW f \in Seq(Byte)
  PROVE  \E read : Reads(read, f)
<1> DEFINE d == Len(f)
           Upto(g, k) ==
             /\ g = [x \in Tasks(f) |-> g[x]]
             /\ \A type \in End .. Compound, n \in Byte, p \in 0 .. d :
                  Remaining(n, p, d) < k =>
                    g[<<type, n, p>>] = ReadTags(type, n, p, f, g) /\ Good(type, n, p, f, g[<<type, n, p>>])
           K == {k \in Nat : \E g : Upto(g, k)}
<1>0. d \in Nat
  OBVIOUS
<1>1. 0 \in K
  <2> DEFINE g == [x \in Tasks(f) |-> 0]
  <2>1. g = [x \in Tasks(f) |-> g[x]]
    OBVIOUS
  <2>2. \A n \in Byte, p \in 0 .. d : ~ (Remaining(n, p, d) < 0)
    BY <1>0, RemainingBound
  <2> HIDE DEF g, d
  <2>3. Upto(g, 0)
    BY <2>1, <2>2
  <2> QED
    BY <2>3
<1>2. ASSUME NEW k \in Nat, k \in K PROVE k + 1 \in K
  <2>1. PICK g : Upto(g, k)
    BY <1>2
  <2> DEFINE h == [x \in Tasks(f) |-> ReadTags(x[1], x[2], x[3], f, g)]
  <2>2. h = [x \in Tasks(f) |-> h[x]]
    OBVIOUS
  <2>3. ASSUME NEW type \in End .. Compound, NEW n \in Byte, NEW p \in 0 .. d
        PROVE  h[<<type, n, p>>] = ReadTags(type, n, p, f, g)
    <3> DEFINE x == <<type, n, p>>
    <3>1. x \in Tasks(f) /\ x[1] = type /\ x[2] = n /\ x[3] = p
      BY TasksAre
    <3> HIDE DEF x
    <3>2. h[x] = ReadTags(type, n, p, f, g)
      BY <3>1
    <3> QED
      BY <3>2 DEF x
  <2> HIDE DEF h, d
  <2>4. ASSUME NEW type \in End .. Compound, NEW n \in Byte, NEW p \in 0 .. d, Remaining(n, p, d) < k + 1
        PROVE  h[<<type, n, p>>] = ReadTags(type, n, p, f, h) /\ Good(type, n, p, f, h[<<type, n, p>>])
    <3>1. ASSUME NEW t \in End .. Compound, NEW j \in Byte, NEW at \in 0 .. d, at > p \/ (at = p /\ j < n)
          PROVE  Good(t, j, at, f, g[<<t, j, at>>]) /\ g[<<t, j, at>>] = h[<<t, j, at>>]
      <4>1. Remaining(j, at, d) < k
        BY <1>0, <2>4, <3>1, LessRemains
      <4>2. g[<<t, j, at>>] = ReadTags(t, j, at, f, g) /\ Good(t, j, at, f, g[<<t, j, at>>])
        BY <2>1, <4>1
      <4> QED
        BY <2>3, <4>2
    <3>2. Later(f, g, p, n)
      BY <3>1 DEF Later, d
    <3>3. p \in 0 .. Len(f)
      BY DEF d
    <3>4. ReadTags(type, n, p, f, g) = ReadTags(type, n, p, f, h)
      <4>1. SameLater(f, g, h, p, n)
        BY <3>1 DEF d, SameLater
      <4> QED
        BY <3>2, <3>3, <4>1, SameReads
    <3>5. Good(type, n, p, f, ReadTags(type, n, p, f, g))
      BY <3>2, <3>3, TagsGood
    <3>6. h[<<type, n, p>>] = ReadTags(type, n, p, f, g)
      BY <2>3
    <3> QED
      BY <3>4, <3>5, <3>6
  <2>5. Upto(h, k + 1)
    BY <2>2, <2>4
  <2> QED
    BY <2>5
<1> HIDE DEF K
<1>3. Nat \subseteq K
  BY <1>1, <1>2, SetInduction
<1> DEFINE last == (d + 1) * Base
<1>4. last \in Nat
  BY <1>0, BaseAssumption
<1>5. \A n \in Byte, p \in 0 .. d : Remaining(n, p, d) < last
  <2> SUFFICES ASSUME NEW n \in Byte, NEW p \in 0 .. d PROVE Remaining(n, p, d) < last
    OBVIOUS
  <2>1. Base \in Nat /\ n \in Nat /\ n < Base
    BY BaseAssumption DEF Byte
  <2>2. PICK a \in Nat : a = d - p /\ a <= d
    BY <1>0
  <2>3. PICK b \in Nat : a + b = d
    <3>1. a + (d - a) = d /\ d - a \in Nat
      BY <1>0, <2>2
    <3> QED
      BY <3>1
  <2>4. last = a * Base + b * Base + Base /\ b * Base \in Nat /\ a * Base \in Nat
    BY <2>1, <2>3
  <2> HIDE DEF last
  <2> QED
    BY <2>1, <2>2, <2>4 DEF Remaining
<1> HIDE DEF last
<1>6. PICK g : Upto(g, last)
  BY <1>3, <1>4 DEF K
<1>7. \A x \in Tasks(f) : g[x] = ReadTags(x[1], x[2], x[3], f, g)
  BY <1>5, <1>6, TasksAre
<1>8. g = [x \in Tasks(f) |-> ReadTags(x[1], x[2], x[3], f, g)]
  BY <1>6, <1>7
<1> QED
  BY <1>8 DEF Reads

LEMMA ReadersRead ==
  ASSUME NEW f \in Seq(Byte)
  PROVE  Reads(Readers(f), f)
<1> DEFINE read == CHOOSE r : r = [x \in (End .. Compound) \X Byte \X (0 .. Len(f)) |-> ReadTags(x[1], x[2], x[3], f, r)]
<1>1. read = CHOOSE r : Reads(r, f)
  BY DEF Reads, Tasks
<1>2. Readers(f) = read
  BY DEF Readers
<1> HIDE DEF read
<1> QED
  BY <1>1, <1>2, ReadersExist

LEMMA ReadersGood ==
  ASSUME NEW f \in Seq(Byte), NEW type \in End .. Compound, NEW n \in Byte, NEW p \in 0 .. Len(f)
  PROVE  Good(type, n, p, f, Readers(f)[<<type, n, p>>])
<1> DEFINE read == Readers(f)
           d == Len(f)
           X == {x \in Byte \X (0 .. d) : \A t \in End .. Compound : Good(t, x[1], x[2], f, read[<<t, x[1], x[2]>>])}
<1>1. Reads(read, f)
  BY ReadersRead
<1> HIDE DEF read
<1>2. ASSUME NEW k \in Byte, NEW at \in 0 .. d
      PROVE  <<k, at>> \in X <=> \A t \in End .. Compound : Good(t, k, at, f, read[<<t, k, at>>])
  <2> DEFINE x == <<k, at>>
  <2>1. x \in Byte \X (0 .. d) /\ x[1] = k /\ x[2] = at
    OBVIOUS
  <2> HIDE DEF x
  <2>2. x \in X <=> \A t \in End .. Compound : Good(t, k, at, f, read[<<t, k, at>>])
    BY <2>1
  <2> QED
    BY <2>2 DEF x
<1> HIDE DEF X
<1>3. ASSUME NEW k \in Byte, NEW at \in 0 .. d,
             \A j \in Byte, a \in 0 .. d : a > at \/ (a = at /\ j < k) => <<j, a>> \in X
      PROVE  <<k, at>> \in X
  <2>1. Later(f, read, at, k)
    BY <1>2, <1>3 DEF Later
  <2>2. ASSUME NEW t \in End .. Compound PROVE Good(t, k, at, f, read[<<t, k, at>>])
    <3>1. read[<<t, k, at>>] = ReadTags(t, k, at, f, read)
      BY <1>1, ReadsSo
    <3> QED
      BY <2>1, <3>1, TagsGood
  <2> QED
    BY <1>2, <2>2
<1>4. <<n, p>> \in X
  <2>1. d \in Nat
    OBVIOUS
  <2> HIDE DEF d
  <2>2. \A k \in Byte, at \in 0 .. d : <<k, at>> \in X
    BY <1>3, <2>1, ByRemaining
  <2> QED
    BY <2>2 DEF d
<1>5. Good(type, n, p, f, read[<<type, n, p>>])
  BY <1>2, <1>4
<1> QED
  BY <1>5 DEF read

LEMMA ReadersAlike ==
  ASSUME NEW f \in Seq(Byte), NEW m \in 0 .. Len(f), NEW type \in End .. Compound, NEW n \in Byte, NEW p \in 0 .. m
  PROVE  Alike(Readers(f)[<<type, n, p>>], Readers(SubSeq(f, 1, m))[<<type, n, p>>], m, f)
<1> DEFINE g == SubSeq(f, 1, m)
           whole == Readers(f)
           cut == Readers(g)
           X == {x \in Byte \X (0 .. m) :
                   \A t \in End .. Compound : Alike(whole[<<t, x[1], x[2]>>], cut[<<t, x[1], x[2]>>], m, f)}
<1>0. g \in Seq(Byte) /\ Len(g) = m /\ m \in Nat
  OBVIOUS
<1>1. Reads(whole, f) /\ Reads(cut, g)
  <2> HIDE DEF g
  <2> QED
    BY <1>0, ReadersRead
<1>2. ASSUME NEW k \in Byte, NEW at \in 0 .. m
      PROVE  <<k, at>> \in X <=> \A t \in End .. Compound : Alike(whole[<<t, k, at>>], cut[<<t, k, at>>], m, f)
  <2> DEFINE x == <<k, at>>
  <2>1. x \in Byte \X (0 .. m) /\ x[1] = k /\ x[2] = at
    OBVIOUS
  <2> HIDE DEF x, whole, cut
  <2>2. x \in X <=> \A t \in End .. Compound : Alike(whole[<<t, k, at>>], cut[<<t, k, at>>], m, f)
    BY <2>1
  <2> QED
    BY <2>2 DEF x
<1>3. \A t \in End .. Compound, k \in Byte, at \in 0 .. Len(f) : Good(t, k, at, f, whole[<<t, k, at>>])
  BY ReadersGood
<1> SUFFICES Alike(whole[<<type, n, p>>], cut[<<type, n, p>>], m, f)
  OBVIOUS
<1> HIDE DEF X, whole, cut
<1>4. ASSUME NEW k \in Byte, NEW at \in 0 .. m,
             \A j \in Byte, a \in 0 .. m : a > at \/ (a = at /\ j < k) => <<j, a>> \in X
      PROVE  <<k, at>> \in X
  <2>1. Later(f, whole, at, k)
    BY <1>3 DEF Later
  <2>2. LaterAlike(f, m, whole, cut, at, k)
    BY <1>2, <1>4 DEF LaterAlike
  <2>3. ASSUME NEW t \in End .. Compound PROVE Alike(whole[<<t, k, at>>], cut[<<t, k, at>>], m, f)
    <3>1. at \in 0 .. Len(f) /\ at \in 0 .. Len(g)
      BY <1>0
    <3>2. whole[<<t, k, at>>] = ReadTags(t, k, at, f, whole)
      BY <1>1, <3>1, ReadsSo
    <3>3. cut[<<t, k, at>>] = ReadTags(t, k, at, g, cut)
      <4> HIDE DEF g
      <4> QED
        BY <1>1, <3>1, ReadsSo
    <3>4. Alike(ReadTags(t, k, at, f, whole), ReadTags(t, k, at, g, cut), m, f)
      BY <2>1, <2>2, TagsAlike
    <3> QED
      BY <3>2, <3>3, <3>4
  <2> QED
    BY <1>2, <2>3
<1>5. \A k \in Byte, at \in 0 .. m : <<k, at>> \in X
  <2>1. m \in Nat
    BY <1>0
  <2> QED
    BY <1>4, <2>1, ByRemaining
<1> QED
  BY <1>2, <1>5

-----------------------------------------------------------------------------
(* Frames.                                                                 *)

LEMMA FieldGood ==
  ASSUME NEW f \in Seq(Byte), NEW p \in 0 .. Len(f)
  PROVE  Failed(DeserializeAt(f, p)) \/ \E end \in p .. Len(f) : \E t :
           DeserializeAt(f, p) = State("ok", end, t) /\ t.type = Compound /\ Whole(t)
<1> DEFINE q == ReadNamedTag(Start(p), f, Readers(f))
<1>1. Later(f, Readers(f), p, 0)
  BY ReadersGood DEF Later
<1>3. GoodEntry(p + 1, f, q)
  BY <1>1, EntryGood
<1>4. DeserializeAt(f, p) = RootOf(q)
  BY DEF DeserializeAt
<1> HIDE DEF q
<1>5. CASE Failed(q)
  BY <1>4, <1>5, FailureStays
<1>6. CASE ~ Failed(q)
  <2>1. PICK end \in (p + 1) .. Len(f) : \E name \in Byte : \E t :
          q = State("ok", end, [name |-> name, tag |-> t]) /\ Whole(t)
    BY <1>3, <1>6 DEF GoodEntry
  <2>2. PICK name \in Byte : \E t : q = State("ok", end, [name |-> name, tag |-> t]) /\ Whole(t)
    BY <2>1
  <2>3. PICK t : q = State("ok", end, [name |-> name, tag |-> t]) /\ Whole(t)
    BY <2>2
  <2> DEFINE v == [name |-> name, tag |-> t]
  <2>4. v.tag = t /\ q = State("ok", end, v) /\ end \in p .. Len(f)
    BY <2>3
  <2> HIDE DEF v
  <2>5. RootOf(q) = IF t.type # Compound THEN State("illegal_byte_sequence", end, v) ELSE State("ok", end, t)
    BY <2>4, RootOfOn
  <2>6. CASE t.type = Compound
    BY <1>4, <2>3, <2>4, <2>5, <2>6
  <2>7. CASE t.type # Compound
    BY <1>4, <2>5, <2>7 DEF Failed
  <2> QED
    BY <2>6, <2>7
<1> QED
  BY <1>5, <1>6

LEMMA DeserializeGood ==
  ASSUME NEW f \in Seq(Byte)
  PROVE  Failed(Deserialize(f)) \/ \E end \in 0 .. Len(f) : \E t :
           Deserialize(f) = State("ok", end, t) /\ t.type = Compound /\ Whole(t)
<1>1. 0 \in 0 .. Len(f)
  OBVIOUS
<1> QED
  BY <1>1, FieldGood DEF Deserialize

\* A frame in which a compound ends at the last byte, and one that was cut off it.
LEMMA FieldCut ==
  ASSUME NEW f \in Seq(Byte), NEW m \in 0 .. (Len(f) - 1), NEW p \in 0 .. m, NEW t,
         DeserializeAt(f, p) = State("ok", Len(f), t)
  PROVE  DeserializeAt(SubSeq(f, 1, m), p).status = "message_size"
<1> DEFINE g == SubSeq(f, 1, m)
           q == ReadNamedTag(Start(p), f, Readers(f))
           c == ReadNamedTag(Start(p), g, Readers(g))
<1>0. m \in 0 .. Len(f) /\ p \in 0 .. Len(f)
  OBVIOUS
<1>1. Later(f, Readers(f), p, 0)
  BY <1>0, ReadersGood DEF Later
<1>2. LaterAlike(f, m, Readers(f), Readers(g), p, 0)
  BY <1>0, ReadersAlike DEF LaterAlike
<1>3. Alike(q, c, m, f)
  BY <1>0, <1>1, <1>2, EntryAlike
<1>4. DeserializeAt(f, p) = RootOf(q) /\ DeserializeAt(g, p) = RootOf(c)
  BY DEF DeserializeAt
<1> SUFFICES DeserializeAt(g, p).status = "message_size"
  OBVIOUS
<1> HIDE DEF q, c, g
<1>5. q.status = "ok" /\ q.pos = Len(f)
  <2>1. RootOf(q).status = "ok" /\ RootOf(q).pos = Len(f)
    BY <1>4 DEF State
  <2> QED
    BY <2>1 DEF RootOf, Fail
<1>6. ~ Failed(q)
  BY <1>5 DEF Failed, State
<1>7. \A at, v : q = State("ok", at, v) => at = Len(f)
  BY <1>5 DEF State
<1>8. Short(c)
  <2>1. ~ \E at \in 0 .. m : \E v : q = State("ok", at, v)
    BY <1>7
  <2> QED
    BY <1>3, <1>6, <2>1 DEF Alike
<1>9. RootOf(c) = c
  BY <1>8, ShortFails, FailureStays
<1> QED
  BY <1>4, <1>8, <1>9 DEF Short, State

LEMMA DeserializeCut ==
  ASSUME NEW f \in Seq(Byte), NEW m \in 0 .. (Len(f) - 1), NEW t, Deserialize(f) = State("ok", Len(f), t)
  PROVE  Deserialize(SubSeq(f, 1, m)).status = "message_size"
<1>1. 0 \in 0 .. m
  OBVIOUS
<1> QED
  BY <1>1, FieldCut DEF Deserialize

LEMMA WholeThroughout ==
  ASSUME NEW t, Whole(t)
  PROVE  Uniform(t) /\ Closed(t)
<1>1. PICK S : t \in S /\ Genuine(S)
  BY DEF Whole
<1>2. Kin(S, TRUE)
  BY <1>1 DEF Genuine, Kin
<1>3. \A ref \in References(t) : Tip(t, ref) \in S
  BY <1>1, <1>2, ReferencesWithin, TipWithin
<1> QED
  BY <1>1, <1>3 DEF Uniform, Closed, Genuine, Sealed

-----------------------------------------------------------------------------
(* A tree by its references, from the leaves up.                           *)

LEMMA EmptyReference ==
  ASSUME NEW t
  PROVE  <<>> \in References(t) /\ Tip(t, <<>>) = t
<1> DEFINE to == CHOOSE f : f = [n \in 0 .. MaxDepth |-> IF n = 0 THEN {<<>>} ELSE UNION {Onward(t, r) : r \in f[n - 1]}]
<1>1. Levels(to, t, MaxDepth)
  <2>1. to = CHOOSE f : Levels(f, t, MaxDepth)
    BY DEF Levels
  <2> HIDE DEF to
  <2> QED
    BY <2>1, LevelsExist, DepthAssumption
<1>2. References(t) = UNION {to[n] : n \in 0 .. MaxDepth}
  BY DEF References
<1> HIDE DEF to
<1>3. to[0] = {<<>>} /\ 0 \in 0 .. MaxDepth
  BY <1>1, DepthAssumption DEF Levels
<1> QED
  BY <1>2, <1>3 DEF Tip

LEMMA AReferenceOnward ==
  ASSUME NEW e \in BOOLEAN, NEW S, Kin(S, e), NEW t \in S, Shallow(t), NEW ref \in References(t),
         NEW k \in Parts(Tip(t, ref))
  PROVE  LET further == Append(ref, Step(Tip(t, ref), k))
         IN  /\ further \in References(t) /\ Tip(t, further) = Tip(t, ref).v[k]
             /\ ref \in Seq(Steps(S)) /\ further \in Seq(Steps(S)) /\ Len(further) = Len(ref) + 1
             /\ Len(further) <= MaxDepth
<1> DEFINE D == MaxDepth
           to == CHOOSE f : f = [n \in 0 .. D |-> IF n = 0 THEN {<<>>} ELSE UNION {Onward(t, r) : r \in f[n - 1]}]
           K == {n \in Nat : n <= D => \A r \in to[n] : Len(r) = n}
           further == Append(ref, Step(Tip(t, ref), k))
<1>1. Levels(to, t, D)
  <2>1. to = CHOOSE f : Levels(f, t, D)
    BY DEF Levels
  <2> HIDE DEF to
  <2> QED
    BY <2>1, LevelsExist, DepthAssumption
<1>2. References(t) = UNION {to[n] : n \in 0 .. D}
  BY DEF References
<1> HIDE DEF to
<1>3. /\ D \in Nat /\ to[0] = {<<>>}
      /\ \A n \in 1 .. D : to[n] = UNION {Onward(t, r) : r \in to[n - 1]}
  BY <1>1, DepthAssumption DEF Levels
<1>4. 0 \in K
  BY <1>3
<1>5. ASSUME NEW n \in Nat, n \in K PROVE n + 1 \in K
  <2>1. SUFFICES ASSUME n + 1 <= D, NEW r \in to[n + 1] PROVE Len(r) = n + 1
    BY DEF K
  <2>2. n + 1 \in 1 .. D /\ (n + 1) - 1 = n /\ n <= D /\ n \in 0 .. D
    BY <1>3, <2>1
  <2>3. PICK q \in to[n] : r \in Onward(t, q)
    BY <1>3, <2>1, <2>2
  <2>4. q \in Seq(Steps(S)) /\ Len(q) = n
    BY <1>2, <1>5, <2>2, <2>3, ReferencesWithin
  <2>5. PICK x : r = Append(q, x)
    BY <2>3 DEF Onward
  <2>6. Len(Append(q, x)) = Len(q) + 1
    BY <2>4
  <2> QED
    BY <2>4, <2>5, <2>6
<1> HIDE DEF K
<1>6. Nat \subseteq K
  BY <1>4, <1>5, SetInduction
<1>7. PICK n \in 0 .. D : ref \in to[n]
  BY <1>2
<1>8. Len(ref) = n
  BY <1>3, <1>6, <1>7 DEF K
<1>9. n + 1 \in 1 .. D /\ (n + 1) - 1 = n
  <2>1. n # D
    BY <1>8 DEF Shallow
  <2> QED
    BY <1>3, <2>1
<1>10. further \in Onward(t, ref)
  BY DEF Onward
<1>11. further \in to[n + 1]
  BY <1>3, <1>7, <1>9, <1>10
<1>12. further \in References(t)
  BY <1>2, <1>9, <1>11
<1>13. ref \in Seq(Steps(S)) /\ further \in Seq(Steps(S))
  BY <1>12, ReferencesWithin
<1>14. Len(further) = Len(ref) + 1 /\ further # <<>> /\ further[Len(further)] = Step(Tip(t, ref), k)
  BY <1>13
<1>15. Tip(t, further) = Tip(t, ref).v[k]
  <2>1. Tip(t, further) = Step(Tip(t, ref), k).tag
    BY <1>14 DEF Tip, Last
  <2> QED
    BY <2>1 DEF Step
<1> QED
  BY <1>8, <1>9, <1>12, <1>13, <1>14, <1>15

LEMMA ReferenceDepth ==
  ASSUME NEW e \in BOOLEAN, NEW S, Kin(S, e), NEW t \in S, NEW ref \in References(t)
  PROVE  Len(ref) \in Nat /\ ref \in Seq(Steps(S))
BY ReferencesWithin

LEMMA FromTheLeaves ==
  ASSUME NEW e \in BOOLEAN, NEW S, Kin(S, e), NEW t \in S, Shallow(t), NEW X,
         \A ref \in References(t) :
           (\A k \in Parts(Tip(t, ref)) : Append(ref, Step(Tip(t, ref), k)) \in X) => ref \in X
  PROVE  References(t) \subseteq X
<1> DEFINE K == {n \in Nat : \A ref \in References(t) : Len(ref) + n >= MaxDepth + 1 => ref \in X}
<1>1. 0 \in K
  <2> SUFFICES ASSUME NEW ref \in References(t), Len(ref) + 0 >= MaxDepth + 1 PROVE ref \in X
    OBVIOUS
  <2>1. Len(ref) \in Nat /\ MaxDepth \in Nat
    BY ReferenceDepth, DepthAssumption
  <2>2. ASSUME NEW k \in Parts(Tip(t, ref)) PROVE FALSE
    BY <2>1, AReferenceOnward
  <2> QED
    BY <2>2
<1>2. ASSUME NEW n \in Nat, n \in K PROVE n + 1 \in K
  <2> SUFFICES ASSUME NEW ref \in References(t), Len(ref) + (n + 1) >= MaxDepth + 1 PROVE ref \in X
    OBVIOUS
  <2>1. Len(ref) \in Nat /\ MaxDepth \in Nat
    BY ReferenceDepth, DepthAssumption
  <2>2. ASSUME NEW k \in Parts(Tip(t, ref)) PROVE Append(ref, Step(Tip(t, ref), k)) \in X
    <3> DEFINE further == Append(ref, Step(Tip(t, ref), k))
    <3>1. further \in References(t) /\ Len(further) = Len(ref) + 1
      BY AReferenceOnward
    <3> HIDE DEF further
    <3>2. Len(further) + n >= MaxDepth + 1
      BY <2>1, <3>1
    <3>3. further \in X
      BY <1>2, <3>1, <3>2
    <3> QED
      BY <3>3 DEF further
  <2> QED
    BY <2>2
<1> HIDE DEF K
<1>3. Nat \subseteq K
  BY <1>1, <1>2, SetInduction
<1>4. SUFFICES ASSUME NEW ref \in References(t) PROVE ref \in X
  OBVIOUS
<1>5. Len(ref) \in Nat /\ MaxDepth + 1 \in Nat /\ Len(ref) + (MaxDepth + 1) >= MaxDepth + 1
  BY ReferenceDepth, DepthAssumption
<1> QED
  BY <1>3, <1>5 DEF K

-----------------------------------------------------------------------------
(* Payloads.                                                               *)

\* What is written behind ref, where w is behind the others.
Written(t, ref, w) ==
  WriteTag(Tip(t, ref), [k \in Parts(Tip(t, ref)) |-> w[Append(ref, Step(Tip(t, ref), k))]])

LEMMA PayloadsExist ==
  ASSUME NEW e \in BOOLEAN, NEW S, Kin(S, e), NEW t \in S, Shallow(t)
  PROVE  \E w : w = [ref \in References(t) |-> Written(t, ref, w)]
<1> DEFINE Upto(w, n) ==
             /\ w = [ref \in References(t) |-> w[ref]]
             /\ \A ref \in References(t) : Len(ref) + n >= MaxDepth + 1 => w[ref] = Written(t, ref, w)
           K == {n \in Nat : \E w : Upto(w, n)}
<1>0. MaxDepth \in Nat /\ \A ref \in References(t) : Len(ref) \in Nat
  BY DepthAssumption, ReferenceDepth
<1>1. ASSUME NEW n \in Nat, NEW v, n = 0 \/ Upto(v, n - 1)
      PROVE  \E w : Upto(w, n)
  <2> DEFINE w == [ref \in References(t) |-> Written(t, ref, v)]
  <2>1. w = [ref \in References(t) |-> w[ref]] /\ \A ref \in References(t) : w[ref] = Written(t, ref, v)
    OBVIOUS
  <2> HIDE DEF w
  <2>2. ASSUME NEW ref \in References(t), Len(ref) + n >= MaxDepth + 1
        PROVE  w[ref] = Written(t, ref, w)
    <3> DEFINE u == Tip(t, ref)
    <3>1. ASSUME NEW k \in Parts(u)
          PROVE  v[Append(ref, Step(u, k))] = w[Append(ref, Step(u, k))]
      <4> DEFINE further == Append(ref, Step(u, k))
      <4>1. further \in References(t) /\ Len(further) = Len(ref) + 1 /\ Len(further) <= MaxDepth
        BY AReferenceOnward
      <4> HIDE DEF further
      <4>2. n # 0 /\ Len(further) + (n - 1) >= MaxDepth + 1
        BY <1>0, <2>2, <4>1
      <4>3. v[further] = Written(t, further, v)
        BY <1>1, <4>1, <4>2
      <4>4. v[further] = w[further]
        BY <2>1, <4>1, <4>3
      <4> QED
        BY <4>4 DEF further
    <3>2. [k \in Parts(u) |-> v[Append(ref, Step(u, k))]] = [k \in Parts(u) |-> w[Append(ref, Step(u, k))]]
      BY <3>1
    <3>3. Written(t, ref, v) = Written(t, ref, w)
      BY <3>2 DEF Written
    <3> QED
      BY <2>1, <3>3
  <2>3. Upto(w, n)
    BY <2>1, <2>2
  <2> QED
    BY <2>3
<1>2. 0 \in K
  BY <1>1
<1>3. ASSUME NEW n \in Nat, n \in K PROVE n + 1 \in K
  <2>1. PICK v : Upto(v, n)
    BY <1>3
  <2> HIDE DEF Upto
  <2>2. n + 1 \in Nat /\ (n + 1) - 1 = n
    OBVIOUS
  <2>3. \E w : Upto(w, n + 1)
    BY <1>1, <2>1, <2>2
  <2> QED
    BY <2>2, <2>3
<1> HIDE DEF K
<1>4. Nat \subseteq K
  BY <1>2, <1>3, SetInduction
<1>5. PICK w : Upto(w, MaxDepth + 1)
  <2>1. MaxDepth + 1 \in K
    BY <1>0, <1>4
  <2> QED
    BY <2>1 DEF K
<1>6. \A ref \in References(t) : w[ref] = Written(t, ref, w)
  BY <1>0, <1>5
<1>7. w = [ref \in References(t) |-> Written(t, ref, w)]
  BY <1>5, <1>6
<1> QED
  BY <1>7

LEMMA PayloadsWritten ==
  ASSUME NEW e \in BOOLEAN, NEW S, Kin(S, e), NEW t \in S, Shallow(t), NEW ref \in References(t)
  PROVE  Payloads(t)[ref] = Written(t, ref, Payloads(t))
<1> DEFINE w == CHOOSE x : x = [r \in References(t) |->
                  WriteTag(Tip(t, r), [k \in Parts(Tip(t, r)) |-> x[Append(r, Step(Tip(t, r), k))]])]
<1>1. w = CHOOSE x : x = [r \in References(t) |-> Written(t, r, x)]
  BY DEF Written
<1>2. Payloads(t) = w
  BY DEF Payloads
<1> HIDE DEF w
<1>3. w = [r \in References(t) |-> Written(t, r, w)]
  BY <1>1, PayloadsExist
<1>4. w[ref] = Written(t, ref, w)
  BY <1>3
<1> QED
  BY <1>2, <1>4

-----------------------------------------------------------------------------
(* One sequence after another.                                             *)

\* f[i] is the first i of s, joined.
Flattens(f, s) == f = [i \in 1 .. Len(s) |-> IF i = 1 THEN s[i] ELSE f[i - 1] \o s[i]]

LEMMA FlatteningsExist ==
  ASSUME NEW B, NEW s \in Seq(Seq(B)), s # <<>>
  PROVE  \E f : Flattens(f, s) /\ \A i \in 1 .. Len(s) : f[i] \in Seq(B)
<1> DEFINE n == Len(s)
           V == Seq(B)
           step == [x \in Nat \X V |-> IF x[1] + 2 <= n THEN x[2] \o s[x[1] + 2] ELSE x[2]]
<1>1. n \in Nat /\ n >= 1 /\ \A i \in 1 .. n : s[i] \in V
  OBVIOUS
<1>2. step \in [Nat \X V -> V]
  <2> SUFFICES ASSUME NEW x \in Nat \X V PROVE step[x] \in V
    OBVIOUS
  <2>1. x[1] \in Nat /\ x[2] \in V
    OBVIOUS
  <2>2. CASE x[1] + 2 <= n
    <3>1. x[1] + 2 \in 1 .. n
      BY <1>1, <2>1, <2>2
    <3>2. s[x[1] + 2] \in V
      BY <1>1, <3>1
    <3> QED
      BY <2>1, <2>2, <3>2
  <2>3. CASE ~ (x[1] + 2 <= n)
    BY <2>1, <2>3
  <2> QED
    BY <2>2, <2>3
<1>3. ASSUME NEW k \in Nat, NEW y \in V, k + 2 <= n
      PROVE  step[<<k, y>>] = y \o s[k + 2]
  BY <1>3
<1> HIDE DEF step
<1>4. PICK g \in [0 .. n -> V] : Unfolds(g, n, s[1], step)
  <2>1. s[1] \in V
    BY <1>1
  <2> HIDE DEF V, n
  <2> QED
    BY <1>1, <1>2, <2>1, UnfoldingsExist
<1> DEFINE f == [i \in 1 .. n |-> g[i - 1]]
<1>5. \A i \in 1 .. n : f[i] \in V /\ f[i] = g[i - 1]
  <2>1. \A i \in 1 .. n : i - 1 \in 0 .. n
    BY <1>1
  <2> QED
    BY <1>4, <2>1
<1>6. f = [i \in 1 .. n |-> f[i]]
  OBVIOUS
<1> HIDE DEF f
<1>7. ASSUME NEW i \in 1 .. n PROVE f[i] = IF i = 1 THEN s[i] ELSE f[i - 1] \o s[i]
  <2>1. CASE i = 1
    <3>1. f[1] = g[0] /\ g[0] = s[1]
      <4>1. 1 - 1 = 0 /\ 1 \in 1 .. n
        BY <1>1
      <4> QED
        BY <1>4, <1>5, <4>1 DEF Unfolds
    <3> QED
      BY <2>1, <3>1
  <2>2. CASE i # 1
    <3>1. i - 2 \in 0 .. (n - 1) /\ (i - 2) + 1 = i - 1 /\ i - 1 \in 1 .. n /\ (i - 1) - 1 = i - 2 /\ i - 2 \in Nat
          /\ (i - 2) + 2 = i /\ (i - 2) + 2 <= n
      BY <1>1, <2>2
    <3>2. g[i - 1] = step[<<i - 2, g[i - 2]>>]
      BY <1>4, <3>1 DEF Unfolds
    <3>3. f[i] = g[i - 1] /\ f[i - 1] = g[i - 2] /\ f[i - 1] \in V
      BY <1>5, <3>1
    <3>4. step[<<i - 2, f[i - 1]>>] = f[i - 1] \o s[i]
      BY <1>3, <3>1, <3>3
    <3> QED
      BY <2>2, <3>2, <3>3, <3>4
  <2> QED
    BY <2>1, <2>2
<1>8. Flattens(f, s)
  BY <1>6, <1>7 DEF Flattens
<1> QED
  BY <1>5, <1>8

\* Where the pieces lie: from e[i - 1] to e[i].
Lies(x, s, e) ==
  /\ e \in [0 .. Len(s) -> Nat] /\ e[0] = 0 /\ e[Len(s)] = Len(x)
  /\ \A i \in 1 .. Len(s) :
       /\ e[i] = e[i - 1] + Len(s[i]) /\ e[i] <= Len(x)
       /\ \A j \in 1 .. Len(s[i]) : x[e[i - 1] + j] = s[i][j]

LEMMA FlattenedOf ==
  ASSUME NEW s, Len(s) # 0, NEW B, s \in Seq(Seq(B))
  PROVE  \E f : Flattens(f, s) /\ FlattenSeq(s) = f[Len(s)] /\ \A i \in 1 .. Len(s) : f[i] \in Seq(B)
<1> DEFINE flatten == CHOOSE f : f = [i \in 1 .. Len(s) |-> IF i = 1 THEN s[i] ELSE f[i - 1] \o s[i]]
<1>1. flatten = CHOOSE f : Flattens(f, s)
  BY DEF Flattens
<1>2. FlattenSeq(s) = flatten[Len(s)]
  BY DEF FlattenSeq
<1> HIDE DEF flatten
<1>3. s # <<>>
  OBVIOUS
<1>4. Flattens(flatten, s)
  BY <1>1, <1>3, FlatteningsExist
<1>5. \A i \in 1 .. Len(s) : flatten[i] = IF i = 1 THEN s[i] ELSE flatten[i - 1] \o s[i]
  BY <1>4 DEF Flattens
<1> DEFINE K == {i \in Nat : i + 1 <= Len(s) => flatten[i + 1] \in Seq(B)}
<1>6. 0 \in K
  <2>1. 1 \in 1 .. Len(s) /\ s[1] \in Seq(B) /\ 0 + 1 = 1
    OBVIOUS
  <2> QED
    BY <1>5, <2>1
<1>7. ASSUME NEW i \in Nat, i \in K PROVE i + 1 \in K
  <2> SUFFICES ASSUME (i + 1) + 1 <= Len(s) PROVE flatten[(i + 1) + 1] \in Seq(B)
    OBVIOUS
  <2>1. /\ (i + 1) + 1 \in 1 .. Len(s) /\ (i + 1) + 1 # 1 /\ ((i + 1) + 1) - 1 = i + 1 /\ i + 1 <= Len(s)
        /\ s[(i + 1) + 1] \in Seq(B)
    OBVIOUS
  <2>2. flatten[i + 1] \in Seq(B)
    BY <1>7, <2>1
  <2>3. flatten[(i + 1) + 1] = flatten[i + 1] \o s[(i + 1) + 1]
    BY <1>5, <2>1
  <2> QED
    BY <2>1, <2>2, <2>3
<1> HIDE DEF K
<1>8. Nat \subseteq K
  BY <1>6, <1>7, SetInduction
<1>9. ASSUME NEW i \in 1 .. Len(s) PROVE flatten[i] \in Seq(B)
  <2>1. i - 1 \in Nat /\ (i - 1) + 1 = i /\ i <= Len(s)
    OBVIOUS
  <2> QED
    BY <1>8, <2>1 DEF K
<1> QED
  BY <1>2, <1>4, <1>9

LEMMA FlattenedLies ==
  ASSUME NEW B, NEW s \in Seq(Seq(B))
  PROVE  FlattenSeq(s) \in Seq(B) /\ \E e : Lies(FlattenSeq(s), s, e)
<1>1. CASE Len(s) = 0
  <2>1. FlattenSeq(s) = <<>> /\ s = <<>>
    BY <1>1 DEF FlattenSeq
  <2> DEFINE e == [i \in 0 .. 0 |-> 0]
  <2>2. e \in [0 .. 0 -> Nat] /\ e[0] = 0
    OBVIOUS
  <2> HIDE DEF e
  <2>3. Lies(<<>>, <<>>, e)
    BY <2>2 DEF Lies
  <2> QED
    BY <2>1, <2>3
<1>2. CASE Len(s) # 0
  <2> DEFINE n == Len(s)
  <2>1. PICK f : Flattens(f, s) /\ FlattenSeq(s) = f[n] /\ \A i \in 1 .. n : f[i] \in Seq(B)
    BY <1>2, FlattenedOf
  <2>2. n \in Nat /\ n >= 1 /\ \A i \in 1 .. n : s[i] \in Seq(B)
    BY <1>2
  <2>3. \A i \in 1 .. n : f[i] = IF i = 1 THEN s[i] ELSE f[i - 1] \o s[i]
    BY <2>1 DEF Flattens
  <2> DEFINE e == [i \in 0 .. n |-> IF i = 0 THEN 0 ELSE Len(f[i])]
  <2>4. e \in [0 .. n -> Nat]
    <3>1. \A i \in 1 .. n : Len(f[i]) \in Nat
      BY <2>1
    <3> HIDE DEF n
    <3> QED
      BY <2>2, <3>1
  <2>5. e[0] = 0 /\ \A i \in 1 .. n : e[i] = Len(f[i])
    BY <2>2
  <2> HIDE DEF e
  <2>6. ASSUME NEW i \in 1 .. n
        PROVE  /\ e[i] = e[i - 1] + Len(s[i])
               /\ \A j \in 1 .. Len(s[i]) : f[i][e[i - 1] + j] = s[i][j]
               /\ i # 1 => e[i - 1] <= e[i] /\ \A j \in 1 .. e[i - 1] : f[i][j] = f[i - 1][j]
    <3>1. CASE i = 1
      <4>1. f[i] = s[i] /\ e[i - 1] = 0 /\ s[i] \in Seq(B) /\ e[i] = Len(f[i])
        BY <2>2, <2>3, <2>5, <3>1
      <4> QED
        BY <3>1, <4>1
    <3>2. CASE i # 1
      <4>1. i - 1 \in 1 .. n
        BY <2>2, <3>2
      <4> DEFINE a == f[i - 1]
                 b == s[i]
      <4>2. f[i] = a \o b /\ a \in Seq(B) /\ b \in Seq(B) /\ e[i - 1] = Len(a) /\ e[i] = Len(f[i])
        BY <2>1, <2>2, <2>3, <2>5, <3>2, <4>1
      <4> HIDE DEF a, b
      <4>3. Len(a \o b) = Len(a) + Len(b) /\ \A j \in 1 .. Len(b) : (a \o b)[Len(a) + j] = b[j]
        BY <4>2
      <4>4. \A j \in 1 .. Len(a) : (a \o b)[j] = a[j]
        BY <4>2
      <4>5. Len(a) \in Nat /\ Len(b) \in Nat
        BY <4>2
      <4>6. e[i] = e[i - 1] + Len(b) /\ e[i - 1] <= e[i]
        BY <4>2, <4>3, <4>5
      <4>7. \A j \in 1 .. Len(b) : f[i][e[i - 1] + j] = b[j]
        BY <4>2, <4>3
      <4>8. \A j \in 1 .. e[i - 1] : f[i][j] = a[j]
        BY <4>2, <4>4
      <4> QED
        BY <4>6, <4>7, <4>8 DEF a, b
    <3> QED
      BY <3>1, <3>2
  <2> DEFINE Laid(h) == \A i \in 1 .. h : /\ e[i] <= e[h]
                                          /\ \A j \in 1 .. Len(s[i]) : f[h][e[i - 1] + j] = s[i][j]
             K == {k \in Nat : k + 1 <= n => Laid(k + 1)}
  <2>7. 0 \in K
    <3>1. \A i \in 1 .. 1 : i = 1
      OBVIOUS
    <3>2. 1 \in 1 .. n /\ e[1] \in Nat
      BY <2>2, <2>4
    <3> HIDE DEF n
    <3> QED
      BY <2>6, <3>1, <3>2
  <2>8. ASSUME NEW k \in Nat, k \in K PROVE k + 1 \in K
    <3> SUFFICES ASSUME (k + 1) + 1 <= n PROVE Laid((k + 1) + 1)
      OBVIOUS
    <3> DEFINE h == (k + 1) + 1
    <3>1. h \in 1 .. n /\ h # 1 /\ h - 1 = k + 1 /\ k + 1 <= n /\ k + 1 \in 1 .. n /\ h - 1 \in 1 .. n
      BY <2>2
    <3>2. Laid(h - 1)
      BY <2>8, <3>1
    <3> HIDE DEF h
    <3> SUFFICES Laid(h)
      BY DEF h
    <3>3. e[h - 1] <= e[h] /\ \A j \in 1 .. e[h - 1] : f[h][j] = f[h - 1][j]
      BY <2>6, <3>1
    <3>4. ASSUME NEW i \in 1 .. h
          PROVE  e[i] <= e[h] /\ \A j \in 1 .. Len(s[i]) : f[h][e[i - 1] + j] = s[i][j]
      <4>1. CASE i = h
        <5>1. e[h] \in Nat
          BY <2>4, <3>1
        <5> QED
          BY <2>6, <3>1, <4>1, <5>1
      <4>2. CASE i # h
        <5>1. i \in 1 .. (h - 1) /\ i \in 1 .. n /\ i - 1 \in 0 .. n /\ i \in 0 .. n /\ h \in 0 .. n /\ h - 1 \in 0 .. n
          BY <2>2, <3>1, <4>2
        <5>2. e[i] \in Nat /\ e[i - 1] \in Nat /\ e[h] \in Nat /\ e[h - 1] \in Nat
          BY <2>4, <5>1
        <5>3. e[i] <= e[h - 1] /\ \A j \in 1 .. Len(s[i]) : f[h - 1][e[i - 1] + j] = s[i][j]
          BY <3>2, <5>1
        <5>4. ASSUME NEW j \in 1 .. Len(s[i]) PROVE f[h][e[i - 1] + j] = s[i][j]
          <6>1. e[i] = e[i - 1] + Len(s[i]) /\ Len(s[i]) \in Nat
            BY <2>2, <2>6, <5>1
          <6>2. e[i - 1] + j \in 1 .. e[h - 1]
            <7> DEFINE a == e[i - 1]
                       b == e[i]
                       c == e[h - 1]
                       l == Len(s[i])
            <7>1. a \in Nat /\ c \in Nat /\ l \in Nat /\ a + l <= c /\ j \in 1 .. l
              BY <5>2, <5>3, <6>1
            <7> HIDE DEF a, c, l
            <7>2. a + j \in 1 .. c
              BY <7>1
            <7> QED
              BY <7>2 DEF a, c
          <6> QED
            BY <3>3, <5>3, <6>2
        <5>5. e[i] <= e[h]
          BY <3>3, <5>2, <5>3
        <5> QED
          BY <5>4, <5>5
      <4> QED
        BY <4>1, <4>2
    <3> QED
      BY <3>4
  <2> HIDE DEF K
  <2>9. Nat \subseteq K
    BY <2>7, <2>8, SetInduction
  <2>10. Laid(n)
    <3>1. n - 1 \in Nat /\ (n - 1) + 1 = n /\ n <= n
      BY <2>2
    <3> HIDE DEF Laid, n
    <3>2. Laid((n - 1) + 1)
      BY <2>9, <3>1 DEF K
    <3> QED
      BY <3>1, <3>2
  <2>11. n \in 1 .. n /\ e[n] = Len(f[n])
    BY <2>2, <2>5
  <2>12. Lies(f[n], s, e)
    BY <2>4, <2>5, <2>6, <2>10, <2>11 DEF Lies
  <2> QED
    BY <2>1, <2>11, <2>12
<1> QED
  BY <1>1, <1>2

-----------------------------------------------------------------------------
(* What lies where in a frame.                                             *)

Holds(f, p, w) == w \in Seq(Byte) /\ p \in Nat /\ p + Len(w) <= Len(f) /\ \A i \in 1 .. Len(w) : f[p + i] = w[i]

Joins(c, a, b) == a \in Seq(Byte) /\ b \in Seq(Byte) /\ c = a \o b

Splits(f, p, a, b, c) == Holds(f, p, a) /\ Holds(f, p + Len(a), b) /\ Len(c) = Len(a) + Len(b)

LEMMA HoldsBoth ==
  ASSUME NEW f \in Seq(Byte), NEW p, NEW a, NEW b, NEW c, Joins(c, a, b), Holds(f, p, c)
  PROVE  Splits(f, p, a, b, c)
<1>0. a \in Seq(Byte) /\ b \in Seq(Byte) /\ c = a \o b
  BY DEF Joins
<1>1. /\ Len(a \o b) = Len(a) + Len(b) /\ \A i \in 1 .. Len(a) : (a \o b)[i] = a[i]
      /\ \A i \in 1 .. Len(b) : (a \o b)[Len(a) + i] = b[i]
      /\ Len(a) \in Nat /\ Len(b) \in Nat /\ Len(f) \in Nat
  BY <1>0
<1>2. p \in Nat /\ p + Len(a \o b) <= Len(f) /\ \A i \in 1 .. Len(a \o b) : f[p + i] = (a \o b)[i]
  BY <1>0 DEF Holds
<1>3. ASSUME NEW i \in 1 .. Len(a) PROVE f[p + i] = a[i]
  <2>1. i \in 1 .. Len(a \o b)
    BY <1>1
  <2> QED
    BY <1>1, <1>2, <2>1
<1>4. ASSUME NEW i \in 1 .. Len(b) PROVE f[(p + Len(a)) + i] = b[i]
  <2>1. Len(a) + i \in 1 .. Len(a \o b) /\ (p + Len(a)) + i = p + (Len(a) + i)
    BY <1>1, <1>2
  <2> QED
    BY <1>1, <1>2, <2>1
<1>5. p + Len(a) \in Nat /\ p + Len(a) <= Len(f) /\ (p + Len(a)) + Len(b) <= Len(f)
  <2>1. p + (Len(a) + Len(b)) <= Len(f)
    BY <1>1, <1>2
  <2> QED
    BY <1>1, <1>2, <2>1
<1>6. Holds(f, p, a)
  BY <1>0, <1>2, <1>3, <1>5 DEF Holds
<1>7. Holds(f, p + Len(a), b)
  BY <1>0, <1>4, <1>5 DEF Holds
<1> QED
  BY <1>0, <1>1, <1>6, <1>7 DEF Splits

HoldsEach(f, p, s, e) ==
  /\ e \in [0 .. Len(s) -> 0 .. Len(f)] /\ e[0] = p /\ e[Len(s)] = p + Len(FlattenSeq(s))
  /\ \A i \in 1 .. Len(s) : Holds(f, e[i - 1], s[i]) /\ e[i] = e[i - 1] + Len(s[i])

LEMMA HoldsFlattened ==
  ASSUME NEW f \in Seq(Byte), NEW p, NEW s \in Seq(Seq(Byte)), Holds(f, p, FlattenSeq(s))
  PROVE  \E e : HoldsEach(f, p, s, e)
<1> DEFINE x == FlattenSeq(s)
<1>1. PICK a : Lies(x, s, a)
  BY FlattenedLies
<1>2. x \in Seq(Byte) /\ p \in Nat /\ p + Len(x) <= Len(f) /\ \A i \in 1 .. Len(x) : f[p + i] = x[i]
  BY DEF Holds
<1> HIDE DEF x
<1>3. Len(x) \in Nat /\ Len(f) \in Nat /\ Len(s) \in Nat /\ \A i \in 1 .. Len(s) : s[i] \in Seq(Byte) /\ Len(s[i]) \in Nat
  BY <1>2
<1> DEFINE e == [i \in 0 .. Len(s) |-> p + a[i]]
<1>4. a \in [0 .. Len(s) -> Nat] /\ a[0] = 0 /\ a[Len(s)] = Len(x)
  BY <1>1 DEF Lies
<1>5. \A i \in 1 .. Len(s) : /\ a[i] = a[i - 1] + Len(s[i]) /\ a[i] <= Len(x)
                             /\ \A j \in 1 .. Len(s[i]) : x[a[i - 1] + j] = s[i][j]
  BY <1>1 DEF Lies
<1>6. \A i \in 0 .. Len(s) : a[i] \in Nat /\ a[i] <= Len(x)
  <2> SUFFICES ASSUME NEW i \in 0 .. Len(s) PROVE a[i] \in Nat /\ a[i] <= Len(x)
    OBVIOUS
  <2>1. CASE i = 0
    BY <1>3, <1>4, <2>1
  <2>2. CASE i # 0
    <3>1. i \in 1 .. Len(s)
      BY <1>3, <2>2
    <3> QED
      BY <1>4, <1>5, <3>1
  <2> QED
    BY <2>1, <2>2
<1>7. \A i \in 0 .. Len(s) : e[i] = p + a[i]
  OBVIOUS
<1>8. e \in [0 .. Len(s) -> 0 .. Len(f)]
  <2> SUFFICES ASSUME NEW i \in 0 .. Len(s) PROVE p + a[i] \in 0 .. Len(f)
    OBVIOUS
  <2> QED
    BY <1>2, <1>3, <1>6
<1> HIDE DEF e
<1>9. e[0] = p /\ e[Len(s)] = p + Len(x)
  <2>1. 0 \in 0 .. Len(s) /\ Len(s) \in 0 .. Len(s)
    BY <1>3
  <2>2. e[0] = p + a[0] /\ e[Len(s)] = p + a[Len(s)]
    BY <1>7, <2>1
  <2>3. p + 0 = p
    BY <1>2
  <2> QED
    BY <1>4, <2>2, <2>3
<1>10. ASSUME NEW i \in 1 .. Len(s)
       PROVE  Holds(f, e[i - 1], s[i]) /\ e[i] = e[i - 1] + Len(s[i])
  <2>1. i \in 0 .. Len(s) /\ i - 1 \in 0 .. Len(s)
    BY <1>3
  <2>2. e[i] = p + a[i] /\ e[i - 1] = p + a[i - 1] /\ a[i] = a[i - 1] + Len(s[i]) /\ a[i] <= Len(x) /\ a[i - 1] \in Nat
    BY <1>5, <1>6, <1>7, <2>1
  <2>3. s[i] \in Seq(Byte) /\ Len(s[i]) \in Nat
    BY <1>3
  <2>4. e[i] = e[i - 1] + Len(s[i]) /\ e[i - 1] \in Nat /\ e[i - 1] + Len(s[i]) <= Len(f)
    BY <1>2, <1>3, <2>2, <2>3
  <2>5. ASSUME NEW j \in 1 .. Len(s[i]) PROVE f[e[i - 1] + j] = s[i][j]
    <3>1. a[i - 1] + j \in 1 .. Len(x) /\ e[i - 1] + j = p + (a[i - 1] + j)
      BY <1>2, <1>3, <2>2, <2>3
    <3>2. x[a[i - 1] + j] = s[i][j]
      BY <1>5
    <3> QED
      BY <1>2, <3>1, <3>2
  <2> QED
    BY <2>3, <2>4, <2>5 DEF Holds
<1> QED
  BY <1>8, <1>9, <1>10 DEF x, HoldsEach

-----------------------------------------------------------------------------
(* What is written are bytes.                                              *)

LEMMA CountWritten ==
  ASSUME NEW v, Len(v) \in Nat, Countable(v)
  PROVE  /\ Len(v) \in Byte /\ WriteCount(v) = <<Len(v)>> /\ Count(Len(v)) = Len(v)
         /\ WriteCount(v) \in Seq(Byte) /\ Len(WriteCount(v)) = 1
<1> DEFINE n == Len(v)
<1>1. n \in Byte /\ 2 * n < Base
  BY BaseAssumption DEF Countable, Byte
<1>2. WriteCount(v) = WriteNumber(n, I8)
  BY DEF WriteCount
<1> HIDE DEF n
<1>3. WriteNumber(n, I8) = <<n>>
  BY <1>1, ByteWritten
<1>4. Count(n) = n
  BY <1>1, CountInBounds
<1>5. <<n>> \in Seq(Byte) /\ Len(<<n>>) = 1
  BY <1>1
<1> QED
  BY <1>1, <1>2, <1>3, <1>4, <1>5 DEF n

\* What is written of a compound's entries, name by name.
EntriesOf(t, w) ==
  [n \in 1 .. Base |-> IF n - 1 \in DOMAIN t.v THEN WriteNamedTag(n - 1, t.v[n - 1].type, w[n - 1]) ELSE <<>>]

LEMMA EntriesAreBytes ==
  ASSUME NEW t, NEW w, DOMAIN t.v \subseteq Byte, \A k \in DOMAIN t.v : w[k] \in Seq(Byte) /\ t.v[k].type \in End .. Compound
  PROVE  EntriesOf(t, w) \in Seq(Seq(Byte)) /\ Len(EntriesOf(t, w)) = Base
<1> DEFINE s == EntriesOf(t, w)
<1>1. ASSUME NEW n \in 1 .. Base PROVE s[n] \in Seq(Byte)
  <2> DEFINE x == IF n - 1 \in DOMAIN t.v THEN WriteNamedTag(n - 1, t.v[n - 1].type, w[n - 1]) ELSE <<>>
  <2>1. s[n] = x
    BY DEF EntriesOf
  <2>2. CASE n - 1 \in DOMAIN t.v
    <3> DEFINE type == t.v[n - 1].type
               k == n - 1
    <3>1. k \in Byte /\ w[k] \in Seq(Byte) /\ type \in End .. Compound
      BY <2>2
    <3>2. x = WriteNamedTag(k, type, w[k])
      BY <2>2
    <3> HIDE DEF type, k, x
    <3>3. type \in Byte /\ End \in Byte
      BY <3>1, TypesAssumption, BaseAssumption DEF Byte, End, Compound
    <3>4. <<End>> \in Seq(Byte) /\ <<type, k>> \in Seq(Byte)
      BY <3>1, <3>3
    <3>5. <<type, k>> \o w[k] \in Seq(Byte)
      BY <3>1, <3>4
    <3> QED
      BY <2>1, <3>2, <3>4, <3>5 DEF WriteNamedTag
  <2>3. CASE n - 1 \notin DOMAIN t.v
    BY <2>1, <2>3
  <2> QED
    BY <2>2, <2>3
<1>2. s = [n \in 1 .. Base |-> s[n]]
  BY DEF EntriesOf
<1> HIDE DEF s
<1>3. s \in [1 .. Base -> Seq(Byte)] /\ Base \in Nat
  BY <1>1, <1>2, BaseAssumption
<1> QED
  BY <1>3 DEF s

LEMMA TypesDiffer ==
  /\ End # Value /\ End # Bytes /\ End # List /\ End # Compound /\ Value # Bytes /\ Value # List /\ Value # Compound
  /\ Bytes # List /\ Bytes # Compound /\ List # Compound
  /\ \A type \in End .. Compound : type \in {End, Value, Bytes, List, Compound} /\ type \in Byte /\ ~ (type > Compound)
BY TypesAssumption, BaseAssumption DEF End, Value, Bytes, List, Compound, Byte

LEMMA WrittenTag ==
  ASSUME NEW t, NEW w
  PROVE  /\ t.type = End => WriteTag(t, w) = <<>>
         /\ t.type = Value => WriteTag(t, w) = <<t.v>>
         /\ t.type = Bytes => WriteTag(t, w) = WriteCount(t.v) \o t.v
         /\ t.type = List => WriteTag(t, w) = <<t.of>> \o WriteCount(t.v) \o FlattenSeq(w)
         /\ t.type = Compound => WriteTag(t, w) = FlattenSeq(EntriesOf(t, w)) \o <<End>>
BY TypesDiffer DEF WriteTag, WriteEntries, EntriesOf

\* The shape of a tag that has parts.
LEMMA Shapes ==
  ASSUME NEW t, IsTag(t)
  PROVE  /\ t.type = List =>
              /\ Parts(t) = DOMAIN t.v /\ Len(t.v) \in Nat /\ DOMAIN t.v = 1 .. Len(t.v) /\ Countable(t.v)
              /\ t = [type |-> List, of |-> t.of, v |-> t.v] /\ t.v = [i \in 1 .. Len(t.v) |-> t.v[i]]
              /\ t.of \in End .. Compound
         /\ t.type = Compound =>
              /\ Parts(t) = DOMAIN t.v /\ DOMAIN t.v \subseteq Byte
              /\ t = [type |-> Compound, of |-> End, v |-> t.v] /\ t.v = [n \in DOMAIN t.v |-> t.v[n]]
         /\ t.type = Bytes => t.v \in Seq(Byte) /\ Countable(t.v) /\ t = [type |-> Bytes, of |-> End, v |-> t.v]
         /\ t.type = Value => t.v \in Byte /\ t = [type |-> Value, of |-> End, v |-> t.v]
         /\ t.type = End => t = [type |-> End, of |-> End, v |-> <<>>]
<1>1. t.type = List =>
        /\ Parts(t) = DOMAIN t.v /\ Len(t.v) \in Nat /\ DOMAIN t.v = 1 .. Len(t.v) /\ Countable(t.v)
        /\ t = [type |-> List, of |-> t.of, v |-> t.v] /\ t.v = [i \in 1 .. Len(t.v) |-> t.v[i]]
        /\ t.of \in End .. Compound
  <2> SUFFICES ASSUME t.type = List
               PROVE  /\ Parts(t) = DOMAIN t.v /\ Len(t.v) \in Nat /\ DOMAIN t.v = 1 .. Len(t.v) /\ Countable(t.v)
                      /\ t = [type |-> List, of |-> t.of, v |-> t.v] /\ t.v = [i \in 1 .. Len(t.v) |-> t.v[i]]
                      /\ t.of \in End .. Compound
    OBVIOUS
  <2>1. t = [type |-> List, of |-> t.of, v |-> t.v] /\ t.of \in End .. Compound /\ Countable(t.v)
    BY DEF IsTag
  <2>2. t.v \in Seq({t.v[i] : i \in DOMAIN t.v})
    BY DEF IsTag
  <2>3. Parts(t) = DOMAIN t.v
    BY DEF Parts
  <2> QED
    BY <2>1, <2>2, <2>3
<1>2. t.type = Compound =>
        /\ Parts(t) = DOMAIN t.v /\ DOMAIN t.v \subseteq Byte
        /\ t = [type |-> Compound, of |-> End, v |-> t.v] /\ t.v = [n \in DOMAIN t.v |-> t.v[n]]
  BY TypesDiffer DEF IsTag, Parts
<1>3. t.type = Bytes => t.v \in Seq(Byte) /\ Countable(t.v) /\ t = [type |-> Bytes, of |-> End, v |-> t.v]
  BY TypesDiffer DEF IsTag
<1>4. t.type = Value => t.v \in Byte /\ t = [type |-> Value, of |-> End, v |-> t.v]
  BY TypesDiffer DEF IsTag
<1>5. t.type = End => t = [type |-> End, of |-> End, v |-> <<>>]
  BY TypesDiffer DEF IsTag
<1> QED
  BY <1>1, <1>2, <1>3, <1>4, <1>5

LEMMA TagBytes ==
  ASSUME NEW t, IsTag(t), NEW w, \A k \in Parts(t) : w[k] \in Seq(Byte) /\ t.v[k].type \in End .. Compound,
         t.type = List => w = [k \in Parts(t) |-> w[k]]
  PROVE  WriteTag(t, w) \in Seq(Byte)
<1>1. t.type \in {End, Value, Bytes, List, Compound}
  BY TypesDiffer DEF IsTag
<1>2. CASE t.type = End
  <2>1. WriteTag(t, w) = <<>>
    BY <1>2, WrittenTag
  <2>2. <<>> \in Seq(Byte)
    OBVIOUS
  <2> QED
    BY <2>1, <2>2
<1>3. CASE t.type = Value
  <2>1. t.v \in Byte
    BY <1>3, Shapes
  <2>2. <<t.v>> \in Seq(Byte)
    BY <2>1
  <2> QED
    BY <1>3, <2>2, WrittenTag
<1>4. CASE t.type = Bytes
  <2>1. t.v \in Seq(Byte) /\ Countable(t.v)
    BY <1>4, Shapes
  <2>2. Len(t.v) \in Nat
    BY <2>1
  <2>3. WriteCount(t.v) \in Seq(Byte)
    BY <2>1, <2>2, CountWritten
  <2>4. WriteCount(t.v) \o t.v \in Seq(Byte)
    BY <2>1, <2>3
  <2> QED
    BY <1>4, <2>4, WrittenTag
<1>5. CASE t.type = List
  <2>1. /\ Len(t.v) \in Nat /\ Countable(t.v) /\ Parts(t) = 1 .. Len(t.v) /\ t.of \in End .. Compound
    BY <1>5, Shapes
  <2>2. w \in [1 .. Len(t.v) -> Seq(Byte)]
    BY <1>5, <2>1
  <2>3. w \in Seq(Seq(Byte))
    BY <2>1, <2>2
  <2>4. FlattenSeq(w) \in Seq(Byte)
    BY <2>3, FlattenedLies
  <2>5. WriteCount(t.v) \in Seq(Byte)
    BY <2>1, CountWritten
  <2>6. <<t.of>> \in Seq(Byte)
    BY <2>1, TypesDiffer
  <2>7. <<t.of>> \o WriteCount(t.v) \o FlattenSeq(w) \in Seq(Byte)
    BY <2>4, <2>5, <2>6
  <2> QED
    BY <1>5, <2>7, WrittenTag
<1>6. CASE t.type = Compound
  <2>1. Parts(t) = DOMAIN t.v /\ DOMAIN t.v \subseteq Byte
    BY <1>6, Shapes
  <2>2. EntriesOf(t, w) \in Seq(Seq(Byte))
    BY <2>1, EntriesAreBytes
  <2>3. FlattenSeq(EntriesOf(t, w)) \in Seq(Byte)
    BY <2>2, FlattenedLies
  <2>4. <<End>> \in Seq(Byte)
    BY BaseAssumption DEF End, Byte
  <2>5. FlattenSeq(EntriesOf(t, w)) \o <<End>> \in Seq(Byte)
    BY <2>3, <2>4
  <2> QED
    BY <1>6, <2>5, WrittenTag
<1> QED
  BY <1>1, <1>2, <1>3, <1>4, <1>5, <1>6

LEMMA PayloadBytes ==
  ASSUME NEW e \in BOOLEAN, NEW S, Kin(S, e), NEW t \in S, Shallow(t), NEW ref \in References(t)
  PROVE  Payloads(t)[ref] \in Seq(Byte)
<1> DEFINE w == Payloads(t)
           X == {r \in References(t) : w[r] \in Seq(Byte)}
<1>1. ASSUME NEW r \in References(t), \A k \in Parts(Tip(t, r)) : Append(r, Step(Tip(t, r), k)) \in X
      PROVE  r \in X
  <2> DEFINE u == Tip(t, r)
             z == [k \in Parts(u) |-> w[Append(r, Step(u, k))]]
  <2>1. u \in S
    BY ReferencesWithin, TipWithin
  <2>2. IsTag(u) /\ \A k \in Parts(u) : IsTag(u.v[k])
    BY <2>1 DEF Kin
  <2>3. \A k \in Parts(u) : u.v[k].type \in End .. Compound
    BY <2>2 DEF IsTag
  <2>4. \A k \in Parts(u) : z[k] \in Seq(Byte)
    BY <1>1
  <2>5. w[r] = WriteTag(u, z)
    BY PayloadsWritten DEF Written
  <2>6. z = [k \in Parts(u) |-> z[k]]
    OBVIOUS
  <2> HIDE DEF u, z, w
  <2>7. w[r] \in Seq(Byte)
    BY <2>2, <2>3, <2>4, <2>5, <2>6, TagBytes
  <2> QED
    BY <2>7
<1> HIDE DEF X
<1>2. References(t) \subseteq X
  BY <1>1, FromTheLeaves
<1> QED
  BY <1>2 DEF X

-----------------------------------------------------------------------------
(* What is written is read back.                                           *)

LEMMA NoneRead ==
  ASSUME NEW f \in Seq(Byte), NEW read, Reads(read, f), NEW type \in End .. Compound, NEW p \in 0 .. Len(f)
  PROVE  read[<<type, 0, p>>] = State("ok", p, <<>>)
<1>1. 0 \in Byte
  BY BaseAssumption DEF Byte
<1>2. read[<<type, 0, p>>] = ReadTags(type, 0, p, f, read)
  BY <1>1, ReadsSo
<1> QED
  BY <1>2 DEF ReadTags, Start, State

LEMMA SomeRead ==
  ASSUME NEW f \in Seq(Byte), NEW read, Reads(read, f), NEW type \in End .. Compound, NEW p \in 0 .. Len(f),
         NEW n \in Nat, n + 1 \in Byte, NEW at, NEW t, ReadTag(type, Start(p), f, read) = State("ok", at, t)
  PROVE  read[<<type, n + 1, p>>] = Behind(t, read[<<type, n, at>>])
<1>1. read[<<type, n + 1, p>>] = ReadTags(type, n + 1, p, f, read)
  BY ReadsSo
<1>2. n + 1 # 0 /\ (n + 1) - 1 = n
  OBVIOUS
<1>3. ReadTags(type, n + 1, p, f, read) = ReadMore(State("ok", at, t), type, n + 1, read)
  BY <1>2 DEF ReadTags
<1>4. ReadMore(State("ok", at, t), type, n + 1, read) = Behind(t, read[<<type, (n + 1) - 1, at>>])
  BY ReadMoreOn
<1> QED
  BY <1>1, <1>2, <1>3, <1>4

LEMMA SingleRead ==
  ASSUME NEW f \in Seq(Byte), NEW read, Reads(read, f), NEW type \in End .. Compound, NEW p \in 0 .. Len(f),
         NEW at \in 0 .. Len(f), NEW t, ReadTag(type, Start(p), f, read) = State("ok", at, t)
  PROVE  read[<<type, 1, p>>] = State("ok", at, <<t>>)
<1>1. 0 \in Nat /\ 0 + 1 = 1 /\ 1 \in Byte
  BY BaseAssumption DEF Byte
<1>2. read[<<type, 0 + 1, p>>] = Behind(t, read[<<type, 0, at>>])
  BY <1>1, SomeRead
<1>3. read[<<type, 0, at>>] = State("ok", at, <<>>)
  BY NoneRead
<1>4. Behind(t, State("ok", at, <<>>)) = State("ok", at, <<t>> \o <<>>)
  BY BehindOn
<1>5. <<t>> \o <<>> = <<t>>
  OBVIOUS
<1> QED
  BY <1>1, <1>2, <1>3, <1>4, <1>5

LEMMA BothInOrder ==
  ASSUME NEW B, NEW a, a \in Seq(B), NEW b, b \in Seq(B)
  PROVE  /\ a \o b \in Seq(B) /\ Len(a \o b) = Len(a) + Len(b)
         /\ \A i \in 1 .. Len(a) : (a \o b)[i] = a[i]
         /\ \A i \in 1 .. Len(b) : (a \o b)[Len(a) + i] = b[i]
<1>1. a \o b \in Seq(B)
  OBVIOUS
<1>2. Len(a \o b) = Len(a) + Len(b) /\ \A i \in 1 .. Len(a) : (a \o b)[i] = a[i]
  OBVIOUS
<1>3. \A i \in 1 .. Len(b) : (a \o b)[Len(a) + i] = b[i]
  OBVIOUS
<1> QED
  BY <1>1, <1>2, <1>3

LEMMA Prepended ==
  ASSUME NEW B, NEW x \in B, NEW b \in Seq(B)
  PROVE  <<x>> \o b = [i \in 1 .. Len(b) + 1 |-> IF i = 1 THEN x ELSE b[i - 1]]
<1> DEFINE a == <<x>>
<1>10. a \in Seq(B)
  OBVIOUS
<1>1. Len(a) = 1 /\ a[1] = x /\ Len(b) \in Nat
  OBVIOUS
<1> HIDE DEF a
<1>2. /\ a \o b \in Seq(B) /\ Len(a \o b) = Len(a) + Len(b)
      /\ \A i \in 1 .. Len(a) : (a \o b)[i] = a[i]
      /\ \A i \in 1 .. Len(b) : (a \o b)[Len(a) + i] = b[i]
  BY <1>10, BothInOrder
<1> DEFINE c == a \o b
<1>20. /\ c \in Seq(B) /\ Len(c) = Len(b) + 1 /\ c[1] = x /\ \A i \in 1 .. Len(b) : c[1 + i] = b[i]
  <2>1. c \in Seq(B) /\ Len(c) = Len(a) + Len(b) /\ (\A i \in 1 .. Len(a) : c[i] = a[i]) /\ \A i \in 1 .. Len(b) : c[Len(a) + i] = b[i]
    BY <1>2
  <2> HIDE DEF c
  <2> QED
    BY <1>1, <2>1
<1> HIDE DEF c
<1>3. \A i \in 1 .. Len(b) + 1 : c[i] = IF i = 1 THEN x ELSE b[i - 1]
  <2>1. SUFFICES ASSUME NEW i \in 1 .. Len(b) + 1 PROVE c[i] = IF i = 1 THEN x ELSE b[i - 1]
    OBVIOUS
  <2>2. CASE i = 1
    BY <1>20, <2>2
  <2>3. CASE i # 1
    <3>1. i - 1 \in 1 .. Len(b) /\ 1 + (i - 1) = i
      BY <1>1, <2>3
    <3> QED
      BY <1>20, <2>3, <3>1
  <2> QED
    BY <2>2, <2>3
<1>4. c = [i \in 1 .. Len(b) + 1 |-> c[i]]
  BY <1>20
<1>5. c = [i \in 1 .. Len(b) + 1 |-> IF i = 1 THEN x ELSE b[i - 1]]
  BY <1>3, <1>4
<1> QED
  BY <1>5 DEF a, c

\* Tags of a type, one behind the other from e[0] to e[n].
Follows(f, read, type, n, e, v) ==
  /\ e \in [0 .. n -> 0 .. Len(f)] /\ v = [i \in 1 .. n |-> v[i]]
  /\ \A i \in 1 .. n : ReadTag(type, Start(e[i - 1]), f, read) = State("ok", e[i], v[i])

LEMMA SequenceRead ==
  ASSUME NEW f \in Seq(Byte), NEW read, Reads(read, f), NEW type \in End .. Compound, NEW n \in Byte,
         NEW e, NEW v, Follows(f, read, type, n, e, v)
  PROVE  read[<<type, n, e[0]>>] = State("ok", e[n], v)
<1> DEFINE Latter(j) == [i \in 1 .. j |-> v[(n - j) + i]]
           K == {j \in Nat : j <= n => read[<<type, j, e[n - j]>>] = State("ok", e[n], Latter(j))}
<1>0. n \in Nat /\ Base \in Nat /\ n < Base /\ \A j \in Nat : j < Base => j \in Byte
  BY BaseAssumption DEF Byte
<1>00. e \in [0 .. n -> 0 .. Len(f)]
  BY DEF Follows
<1>1. 0 \in K
  <2>1. n - 0 = n /\ n \in 0 .. n
    BY <1>0
  <2>2. e[n] \in 0 .. Len(f)
    BY <1>00, <2>1
  <2>3. Latter(0) = <<>>
    OBVIOUS
  <2>4. read[<<type, 0, e[n]>>] = State("ok", e[n], <<>>)
    BY <2>2, NoneRead
  <2> HIDE DEF Latter
  <2> QED
    BY <2>1, <2>3, <2>4
<1>2. ASSUME NEW j \in Nat, j \in K PROVE j + 1 \in K
  <2> SUFFICES ASSUME j + 1 <= n PROVE read[<<type, j + 1, e[n - (j + 1)]>>] = State("ok", e[n], Latter(j + 1))
    OBVIOUS
  <2> DEFINE m == n - j
  <2>1. /\ j <= n /\ j + 1 < Base /\ m \in Nat /\ m \in 0 .. n /\ m \in 1 .. n
        /\ n - (j + 1) = m - 1 /\ m - 1 \in 0 .. n
    BY <1>0
  <2>2. read[<<type, j, e[m]>>] = State("ok", e[n], Latter(j))
    BY <1>2, <2>1
  <2>3. Latter(j) = [i \in 1 .. j |-> v[m + i]] /\ Latter(j + 1) = [i \in 1 .. j + 1 |-> v[(m - 1) + i]]
    BY <2>1
  <2>4. \A i \in 1 .. j : m + i \in 1 .. n
    BY <1>0
  <2> HIDE DEF m, Latter, K
  <2> SUFFICES read[<<type, j + 1, e[m - 1]>>] = State("ok", e[n], Latter(j + 1))
    BY <2>1
  <2>5. e[m - 1] \in 0 .. Len(f) /\ j + 1 \in Byte
    BY <1>0, <1>00, <2>1
  <2>6. ReadTag(type, Start(e[m - 1]), f, read) = State("ok", e[m], v[m])
    BY <2>1 DEF Follows
  <2>7. read[<<type, j + 1, e[m - 1]>>] = Behind(v[m], read[<<type, j, e[m]>>])
    BY <2>5, <2>6, SomeRead
  <2>8. Behind(v[m], State("ok", e[n], Latter(j))) = State("ok", e[n], <<v[m]>> \o Latter(j))
    BY BehindOn
  <2>9. <<v[m]>> \o Latter(j) = Latter(j + 1)
    <3> DEFINE b == Latter(j)
               B == {v[i] : i \in 1 .. n}
    <3>1. b \in [1 .. j -> B] /\ \A i \in 1 .. j : b[i] = v[m + i]
      BY <2>3, <2>4
    <3>2. v[m] \in B
      BY <2>1
    <3> HIDE DEF B, b
    <3>3. b \in Seq(B) /\ Len(b) = j
      BY <3>1
    <3>4. <<v[m]>> \o b = [i \in 1 .. j + 1 |-> IF i = 1 THEN v[m] ELSE b[i - 1]]
      BY <3>2, <3>3, Prepended
    <3>5. \A i \in 1 .. j + 1 : (IF i = 1 THEN v[m] ELSE b[i - 1]) = v[(m - 1) + i]
      <4>1. SUFFICES ASSUME NEW i \in 1 .. j + 1 PROVE (IF i = 1 THEN v[m] ELSE b[i - 1]) = v[(m - 1) + i]
        OBVIOUS
      <4>2. CASE i = 1
        <5>1. (m - 1) + 1 = m
          BY <2>1
        <5> QED
          BY <4>2, <5>1
      <4>3. CASE i # 1
        <5>1. i - 1 \in 1 .. j /\ m + (i - 1) = (m - 1) + i
          BY <2>1, <4>3
        <5> QED
          BY <3>1, <4>3, <5>1
      <4> QED
        BY <4>2, <4>3
    <3>6. <<v[m]>> \o b = Latter(j + 1)
      BY <2>3, <3>4, <3>5
    <3> QED
      BY <3>6 DEF b
  <2> QED
    BY <2>2, <2>7, <2>8, <2>9
<1> HIDE DEF K
<1>3. Nat \subseteq K
  BY <1>1, <1>2, SetInduction
<1>4. n - n = 0 /\ n <= n
  BY <1>0
<1>5. read[<<type, n, e[n - n]>>] = State("ok", e[n], Latter(n))
  BY <1>0, <1>3, <1>4 DEF K
<1>6. Latter(n) = v
  <2>1. \A i \in 1 .. n : (n - n) + i = i
    BY <1>0
  <2>2. Latter(n) = [i \in 1 .. n |-> v[i]]
    BY <2>1
  <2> QED
    BY <2>2 DEF Follows
<1> HIDE DEF Latter
<1> QED
  BY <1>4, <1>5, <1>6

LEMMA ValueBack ==
  ASSUME NEW f \in Seq(Byte), NEW read, NEW b \in Byte, NEW p, Holds(f, p, <<b>>)
  PROVE  ReadTag(Value, Start(p), f, read) = State("ok", p + 1, Tag(Value, b)) /\ p \in 0 .. Len(f) /\ p + 1 \in 0 .. Len(f)
<1>1. p \in Nat /\ p + 1 <= Len(f) /\ f[p + 1] = b
  BY DEF Holds
<1>2. p \in 0 .. Len(f) /\ p # Len(f) /\ p + 1 \in 0 .. Len(f)
  BY <1>1
<1> QED
  BY <1>1, <1>2, ValueRead

\* What is written of an array, and of a list whose elements are x.
OfBytes(t) == WriteCount(t.v) \o t.v
OfList(t, x) == <<t.of>> \o WriteCount(t.v) \o x

LEMMA BytesBack ==
  ASSUME NEW f \in Seq(Byte), NEW read, Reads(read, f), NEW t, IsTag(t), t.type = Bytes, NEW p, Holds(f, p, OfBytes(t))
  PROVE  ReadTag(Bytes, Start(p), f, read) = State("ok", p + Len(OfBytes(t)), t)
<1> DEFINE n == Len(t.v)
           b == t.v
<1>1. b \in Seq(Byte) /\ Countable(b) /\ t = [type |-> Bytes, of |-> End, v |-> b] /\ n \in Nat
  <2>1. b \in Seq(Byte) /\ Countable(b) /\ t = [type |-> Bytes, of |-> End, v |-> b]
    BY Shapes
  <2> QED
    BY <2>1
<1>2. n \in Byte /\ WriteCount(b) = <<n>> /\ Count(n) = n /\ <<n>> \in Seq(Byte) /\ Len(<<n>>) = 1
  BY <1>1, CountWritten
<1>3. Holds(f, p, <<n>>) /\ Holds(f, p + 1, b) /\ Len(WriteCount(b) \o b) = 1 + n
  <2> DEFINE a == <<n>>
  <2>1. Holds(f, p, a \o b) /\ a \in Seq(Byte) /\ Len(a) = 1 /\ WriteCount(b) = a
    BY <1>2 DEF OfBytes
  <2> DEFINE c == a \o b
  <2>3. Holds(f, p, c) /\ Joins(c, a, b)
    BY <1>1, <2>1 DEF Joins
  <2> HIDE DEF a, b, c
  <2>2. Splits(f, p, a, b, c)
    BY <2>3, HoldsBoth
  <2>4. Holds(f, p, a) /\ Holds(f, p + Len(a), b) /\ Len(c) = Len(a) + Len(b)
    BY <2>2 DEF Splits
  <2> QED
    BY <2>1, <2>4 DEF a, b, c
<1>4. p \in Nat /\ f[p + 1] = n /\ p + 1 <= Len(f) /\ p # Len(f) /\ p \in 0 .. Len(f)
  BY <1>2, <1>3 DEF Holds
<1>5. (p + 1) + n <= Len(f) /\ \A i \in 1 .. n : f[(p + 1) + i] = b[i]
  BY <1>3 DEF Holds
<1> HIDE DEF b
<1> DEFINE e == [i \in 0 .. n |-> (p + 1) + i]
           v == [i \in 1 .. n |-> Tag(Value, b[i])]
<1>6. e \in [0 .. n -> 0 .. Len(f)]
  BY <1>1, <1>4, <1>5
<1>7. ASSUME NEW i \in 1 .. n
      PROVE  ReadTag(Value, Start(e[i - 1]), f, read) = State("ok", e[i], v[i])
  <2>1. /\ e[i - 1] = p + i /\ e[i] = (p + i) + 1 /\ v[i] = Tag(Value, b[i]) /\ f[(p + i) + 1] = b[i]
        /\ p + i \in 0 .. Len(f) /\ p + i # Len(f)
    <3>1. i - 1 \in 0 .. n /\ i \in 0 .. n /\ (p + 1) + (i - 1) = p + i /\ (p + 1) + i = (p + i) + 1
      BY <1>1, <1>4
    <3>2. p + i \in 0 .. Len(f) /\ p + i # Len(f)
      BY <1>1, <1>4, <1>5
    <3>3. e[i - 1] = p + i /\ e[i] = (p + i) + 1 /\ v[i] = Tag(Value, b[i])
      BY <3>1
    <3> QED
      BY <1>5, <3>1, <3>2, <3>3
  <2> HIDE DEF e, v
  <2>2. ReadTag(Value, Start(p + i), f, read) = State("ok", (p + i) + 1, Tag(Value, f[(p + i) + 1]))
    BY <2>1, ValueRead
  <2> QED
    BY <2>1, <2>2
<1>8. e[0] = p + 1 /\ e[n] = (p + 1) + n
  <2>1. 0 \in 0 .. n /\ n \in 0 .. n /\ (p + 1) + 0 = p + 1
    BY <1>1, <1>4
  <2> QED
    BY <2>1
<1>9. \A i \in 1 .. n : v[i] = Tag(Value, b[i])
  OBVIOUS
<1>10. v = [i \in 1 .. n |-> v[i]] /\ DOMAIN v = 1 .. n
  OBVIOUS
<1> HIDE DEF e, v
<1>11. read[<<Value, n, p + 1>>] = State("ok", (p + 1) + n, v)
  <2>1. Value \in End .. Compound
    BY DEF End, Value, Compound
  <2> HIDE DEF n
  <2>2. Follows(f, read, Value, n, e, v)
    BY <1>6, <1>7, <1>10 DEF Follows
  <2>3. read[<<Value, n, e[0]>>] = State("ok", e[n], v)
    BY <1>2, <2>1, <2>2, SequenceRead
  <2> QED
    BY <1>8, <1>10, <2>3
<1>12. ReadTag(Bytes, Start(p), f, read) = AsBytes(read[<<Value, n, p + 1>>])
  BY <1>2, <1>4, BytesRead
<1>13. AsBytes(State("ok", (p + 1) + n, v)) = State("ok", (p + 1) + n, Tag(Bytes, [i \in DOMAIN v |-> v[i].v]))
  BY AsBytesOn
<1>14. Tag(Bytes, [i \in DOMAIN v |-> v[i].v]) = t
  <2>1. \A i \in 1 .. n : v[i].v = b[i]
    <3>1. SUFFICES ASSUME NEW i \in 1 .. n PROVE v[i].v = b[i]
      OBVIOUS
    <3>2. v[i] = [type |-> Value, of |-> End, v |-> b[i]]
      BY <1>9 DEF Tag
    <3> QED
      BY <3>2
  <2>2. [i \in DOMAIN v |-> v[i].v] = [i \in 1 .. n |-> b[i]]
    BY <1>10, <2>1
  <2>3. [i \in 1 .. n |-> b[i]] = b
    BY <1>1 DEF b
  <2> QED
    BY <1>1, <2>2, <2>3 DEF Tag
<1>15. (p + 1) + n = p + (1 + n)
  BY <1>1, <1>4
<1> QED
  BY <1>3, <1>11, <1>12, <1>13, <1>14, <1>15 DEF b, OfBytes

\* What was written for x, b, is read back where it lies; and what was written for the
\* elements of a list, and for the entries of a compound, w.
BackAt(f, read, type, at, b, x) ==
  Holds(f, at, b) => ReadTag(type, Start(at), f, read) = State("ok", at + Len(b), x)

ReadsParts(f, read, t, w) ==
  /\ w \in Seq(Seq(Byte)) /\ Len(w) = Len(t.v)
  /\ \A i \in DOMAIN t.v, at \in Nat : BackAt(f, read, t.v[i].type, at, w[i], t.v[i])

ReadsNamed(f, read, t, w) ==
  \A k \in DOMAIN t.v :
    /\ w[k] \in Seq(Byte) /\ t.v[k].type \in End .. Compound
    /\ \A at \in Nat : BackAt(f, read, t.v[k].type, at, w[k], t.v[k])

LEMMA ListBack ==
  ASSUME NEW f \in Seq(Byte), NEW read, Reads(read, f), NEW t, IsTag(t), Even(t), t.type = List,
         NEW w, NEW p,
         Holds(f, p, OfList(t, FlattenSeq(w))), ReadsParts(f, read, t, w)
  PROVE  ReadTag(List, Start(p), f, read) = State("ok", p + Len(OfList(t, FlattenSeq(w))), t)
<1> DEFINE n == Len(t.v)
           of == t.of
           x == FlattenSeq(w)
<1>1. /\ n \in Nat /\ DOMAIN t.v = 1 .. n /\ Countable(t.v) /\ t = [type |-> List, of |-> of, v |-> t.v]
      /\ t.v = [i \in 1 .. n |-> t.v[i]] /\ of \in End .. Compound
  BY Shapes
<1>2. n \in Byte /\ WriteCount(t.v) = <<n>> /\ Count(n) = n /\ <<n>> \in Seq(Byte) /\ Len(<<n>>) = 1
  BY <1>1, CountWritten
<1>3. of \in Byte /\ ~ (of > Compound) /\ <<of>> \in Seq(Byte) /\ Len(<<of>>) = 1
  BY <1>1, TypesDiffer
<1>0. w \in Seq(Seq(Byte)) /\ Len(w) = n
  BY DEF ReadsParts
<1>4. x \in Seq(Byte)
  BY <1>0, FlattenedLies
<1>5. \A i \in 1 .. n : t.v[i].type = of /\ of # End
  BY <1>1 DEF Even
<1> HIDE DEF of, x
<1>6. Holds(f, p, <<of>> \o <<n>> \o x)
  BY <1>2 DEF of, x, OfList
<1>7. <<of>> \o <<n>> \in Seq(Byte) /\ Len(<<of>> \o <<n>>) = 2
  BY <1>2, <1>3
<1>8. Holds(f, p, <<of>> \o <<n>>) /\ Holds(f, p + 2, x) /\ Len(<<of>> \o <<n>> \o x) = 2 + Len(x)
  <2> DEFINE a == <<of>> \o <<n>>
  <2>1. Holds(f, p, a \o x) /\ a \in Seq(Byte) /\ Len(a) = 2
    BY <1>6, <1>7
  <2> DEFINE c == a \o x
  <2>3. Holds(f, p, c) /\ Joins(c, a, x)
    BY <1>4, <2>1 DEF Joins
  <2> HIDE DEF a, c
  <2>2. Splits(f, p, a, x, c)
    BY <2>3, HoldsBoth
  <2>4. Holds(f, p, a) /\ Holds(f, p + Len(a), x) /\ Len(c) = Len(a) + Len(x)
    BY <2>2 DEF Splits
  <2> QED
    BY <2>1, <2>4 DEF a, c
<1>9. /\ p \in Nat /\ f[p + 1] = of /\ f[p + 2] = n /\ p + 2 <= Len(f)
      /\ p \in 0 .. Len(f) /\ p # Len(f) /\ p + 1 # Len(f)
  <2>1. (<<of>> \o <<n>>)[1] = of /\ (<<of>> \o <<n>>)[2] = n
    OBVIOUS
  <2>2. p \in Nat /\ p + 2 <= Len(f) /\ \A i \in 1 .. 2 : f[p + i] = (<<of>> \o <<n>>)[i]
    BY <1>7, <1>8 DEF Holds
  <2> QED
    BY <2>1, <2>2
<1> HIDE DEF n
<1>10. PICK e :
         /\ e \in [0 .. n -> 0 .. Len(f)] /\ e[0] = p + 2 /\ e[n] = (p + 2) + Len(x)
         /\ \A i \in 1 .. n : Holds(f, e[i - 1], w[i]) /\ e[i] = e[i - 1] + Len(w[i])
  <2>1. Holds(f, p + 2, FlattenSeq(w)) /\ w \in Seq(Seq(Byte))
    BY <1>0, <1>8 DEF x
  <2>2. \E e : HoldsEach(f, p + 2, w, e)
    BY <2>1, HoldsFlattened
  <2> QED
    BY <1>0, <2>2 DEF x, HoldsEach
<1>11. ASSUME NEW i \in 1 .. n
       PROVE  ReadTag(of, Start(e[i - 1]), f, read) = State("ok", e[i], t.v[i])
  <2>1. Holds(f, e[i - 1], w[i]) /\ e[i] = e[i - 1] + Len(w[i]) /\ t.v[i].type = of
    BY <1>5, <1>10
  <2>2. e[i - 1] \in Nat
    BY <2>1 DEF Holds
  <2> QED
    BY <1>1, <2>1, <2>2 DEF ReadsParts, BackAt
<1>12. read[<<of, n, p + 2>>] = State("ok", (p + 2) + Len(x), t.v)
  <2> DEFINE v == t.v
  <2>1. \A i \in 1 .. n : ReadTag(of, Start(e[i - 1]), f, read) = State("ok", e[i], v[i])
    BY <1>11
  <2>2. v = [i \in 1 .. n |-> v[i]]
    BY <1>1
  <2> HIDE DEF v
  <2>5. Follows(f, read, of, n, e, v)
    BY <1>10, <2>1, <2>2 DEF Follows
  <2>3. read[<<of, n, e[0]>>] = State("ok", e[n], v)
    <3>1. n \in Byte /\ of \in End .. Compound
      BY <1>1, <1>2
    <3> QED
      BY <2>5, <3>1, SequenceRead
  <2>4. read[<<of, n, p + 2>>] = State("ok", (p + 2) + Len(x), v)
    BY <1>10, <2>2, <2>3
  <2> QED
    BY <2>4 DEF v
<1>13. ReadTag(List, Start(p), f, read) = As(read[<<of, n, p + 2>>], ListOf(of))
  <2>1. n > 0 => of # End
    <3>1. n > 0 => 1 \in 1 .. n
      BY <1>1
    <3> QED
      BY <1>5, <3>1
  <2> DEFINE x1 == f[p + 1]
             x2 == f[p + 2]
             q == ReadTag(List, Start(p), f, read)
  <2>2. q = IF p = Len(f) THEN State("message_size", p, <<>>)
            ELSE IF p + 1 = Len(f) THEN State("message_size", p + 1, x1)
            ELSE IF x1 > Compound \/ (Count(x2) > 0 /\ x1 = End)
              THEN State("illegal_byte_sequence", p + 2, Signed(x2))
            ELSE As(read[<<x1, Count(x2), p + 2>>], ListOf(x1))
    BY <1>9, ListRead
  <2>3. x1 = of /\ x2 = n
    BY <1>9
  <2> HIDE DEF x1, x2, q
  <2>4. q = IF of > Compound \/ (n > 0 /\ of = End) THEN State("illegal_byte_sequence", p + 2, Signed(n))
            ELSE As(read[<<of, n, p + 2>>], ListOf(of))
    BY <1>2, <1>9, <2>2, <2>3
  <2>5. q = As(read[<<of, n, p + 2>>], ListOf(of))
    BY <1>3, <2>1, <2>4
  <2> QED
    BY <2>5 DEF q
<1>14. As(State("ok", (p + 2) + Len(x), t.v), ListOf(of)) = State("ok", (p + 2) + Len(x), [ListOf(of) EXCEPT !.v = t.v])
  BY AsOn
<1>15. [ListOf(of) EXCEPT !.v = t.v] = t
  <2>1. ListOf(of) = [type |-> List, of |-> of, v |-> <<>>]
    BY DEF ListOf, Tag
  <2>2. [ListOf(of) EXCEPT !.v = t.v] = [type |-> List, of |-> of, v |-> t.v]
    BY <2>1
  <2> QED
    BY <1>1, <2>2
<1>16. (p + 2) + Len(x) = p + Len(<<of>> \o <<n>> \o x)
  <2>1. Len(x) \in Nat
    BY <1>4
  <2> QED
    BY <1>8, <1>9, <2>1
<1>17. ReadTag(List, Start(p), f, read) = State("ok", p + Len(<<of>> \o <<n>> \o x), t)
  BY <1>12, <1>13, <1>14, <1>15, <1>16
<1> QED
  BY <1>2, <1>17 DEF of, x, OfList

-----------------------------------------------------------------------------
(* Compounds.                                                              *)

\* What is written of a tag with a name, and of a compound whose parts' payloads are w.
Named(type, name, b) == <<type, name>> \o b
OfCompound(t, w) == FlattenSeq(EntriesOf(t, w)) \o <<End>>

LEMMA EntryBack ==
  ASSUME NEW f \in Seq(Byte), NEW read, Reads(read, f), NEW type \in End .. Compound, type # End, NEW name \in Byte,
         NEW b, b \in Seq(Byte), NEW p, Holds(f, p, Named(type, name, b)), NEW x,
         BackAt(f, read, type, p + 2, b, x)
  PROVE  /\ ReadNamedTag(Start(p), f, read) = State("ok", p + Len(Named(type, name, b)), [name |-> name, tag |-> x])
         /\ p \in 0 .. Len(f) /\ p + Len(Named(type, name, b)) \in 0 .. Len(f)
<1> DEFINE a == <<type, name>>
           c == Named(type, name, b)
<1>1. type \in Byte
  BY TypesDiffer
<1>2. a \in Seq(Byte)
  BY <1>1
<1>3. Len(a) = 2 /\ a[1] = type /\ a[2] = name
  OBVIOUS
<1>4. Joins(c, a, b) /\ Holds(f, p, c)
  BY <1>2 DEF Joins, Named
<1> HIDE DEF a, c
<1>5. Holds(f, p, a) /\ Holds(f, p + Len(a), b) /\ Len(c) = Len(a) + Len(b)
  <2>1. Splits(f, p, a, b, c)
    BY <1>4, HoldsBoth
  <2> QED
    BY <2>1 DEF Splits
<1>6. Holds(f, p + 2, b) /\ Len(c) = 2 + Len(b)
  BY <1>3, <1>5
<1>7. p \in Nat /\ p + 2 <= Len(f) /\ f[p + 1] = type /\ f[p + 2] = name
  <2>1. p \in Nat /\ p + Len(a) <= Len(f) /\ \A i \in 1 .. Len(a) : f[p + i] = a[i]
    BY <1>5 DEF Holds
  <2>2. 1 \in 1 .. 2 /\ 2 \in 1 .. 2
    OBVIOUS
  <2> QED
    BY <1>3, <2>1, <2>2
<1>8. (p + 2) + Len(b) <= Len(f) /\ Len(b) \in Nat /\ Len(f) \in Nat
  <2>1. (p + 2) + Len(b) <= Len(f)
    BY <1>6 DEF Holds
  <2> QED
    BY <2>1
<1> DEFINE end == (p + 2) + Len(b)
<1>9. /\ p \in 0 .. Len(f) /\ p + 2 \in 0 .. Len(f) /\ end \in 0 .. Len(f) /\ end = p + Len(c)
      /\ p # Len(f) /\ p + 1 # Len(f)
  BY <1>6, <1>7, <1>8
<1>10. ReadTag(type, Start(p + 2), f, read) = State("ok", end, x)
  BY <1>6 DEF BackAt
<1> HIDE DEF end
<1>11. read[<<type, 1, p + 2>>] = State("ok", end, <<x>>)
  BY <1>9, <1>10, SingleRead
<1>12. Titled(name, State("ok", end, <<x>>)) = State("ok", end, [name |-> name, tag |-> x])
  <2> DEFINE v == <<x>>
  <2>1. v[1] = x
    OBVIOUS
  <2> HIDE DEF v
  <2>2. Titled(name, State("ok", end, v)) = State("ok", end, [name |-> name, tag |-> v[1]])
    BY TitledOn
  <2>3. Titled(name, State("ok", end, v)) = State("ok", end, [name |-> name, tag |-> x])
    BY <2>1, <2>2
  <2> QED
    BY <2>3 DEF v
<1>13. ReadNamedTag(Start(p), f, read) = Titled(name, read[<<type, 1, p + 2>>])
  <2> DEFINE x1 == f[p + 1]
             x2 == f[p + 2]
             q == ReadNamedTag(Start(p), f, read)
  <2>1. q = IF p = Len(f) THEN State("message_size", p, <<>>)
            ELSE IF x1 = End THEN State("ok", p + 1, [name |-> 0, tag |-> EndTag])
            ELSE IF x1 > Compound THEN State("illegal_byte_sequence", p + 1, x1)
            ELSE IF p + 1 = Len(f) THEN State("message_size", p + 1, x1)
            ELSE Titled(x2, read[<<x1, 1, p + 2>>])
    BY <1>9, NamedRead
  <2>2. x1 = type /\ x2 = name /\ ~ (type > Compound)
    BY <1>7, TypesDiffer
  <2> HIDE DEF x1, x2, q
  <2>3. q = Titled(name, read[<<type, 1, p + 2>>])
    BY <1>9, <2>1, <2>2
  <2> QED
    BY <2>3 DEF q
<1>14. ReadNamedTag(Start(p), f, read) = State("ok", end, [name |-> name, tag |-> x])
  BY <1>11, <1>12, <1>13
<1> QED
  BY <1>9, <1>14 DEF c

\* A compound without the entries of the names below n.
From(t, n) == {m \in DOMAIN t.v : m >= n}
Above(t, n) == [type |-> Compound, of |-> End, v |-> [m \in From(t, n) |-> t.v[m]]]

LEMMA AboveAll ==
  ASSUME NEW t, IsTag(t), t.type = Compound
  PROVE  Above(t, Base) = EmptyCompound /\ Above(t, 0) = t
<1>1. DOMAIN t.v \subseteq Byte /\ t = [type |-> Compound, of |-> End, v |-> t.v] /\ t.v = [n \in DOMAIN t.v |-> t.v[n]]
  BY Shapes
<1>2. \A n \in Byte : n >= 0 /\ ~ (n >= Base)
  BY BaseAssumption DEF Byte
<1>3. From(t, Base) = {} /\ From(t, 0) = DOMAIN t.v
  BY <1>1, <1>2 DEF From
<1>4. Above(t, Base) = EmptyCompound
  <2>1. [m \in {} |-> t.v[m]] = <<>>
    OBVIOUS
  <2> QED
    BY <1>3, <2>1 DEF Above, EmptyCompound, Tag
<1>5. Above(t, 0) = t
  BY <1>1, <1>3 DEF Above
<1> QED
  BY <1>4, <1>5

LEMMA AboveNext ==
  ASSUME NEW t, IsTag(t), t.type = Compound, NEW n \in Nat
  PROVE  /\ n \notin DOMAIN t.v => Above(t, n) = Above(t, n + 1)
         /\ n \in DOMAIN t.v => Entered([name |-> n, tag |-> t.v[n]], Above(t, n + 1)) = Above(t, n)
<1>1. DOMAIN t.v \subseteq Nat
  <2>1. DOMAIN t.v \subseteq Byte
    BY Shapes
  <2> QED
    BY <2>1 DEF Byte
<1>2. From(t, n) = From(t, n + 1) \cup ({n} \cap DOMAIN t.v) /\ n \notin From(t, n + 1)
  BY <1>1 DEF From
<1>3. n \notin DOMAIN t.v => Above(t, n) = Above(t, n + 1)
  BY <1>2 DEF Above
<1>4. ASSUME n \in DOMAIN t.v PROVE Entered([name |-> n, tag |-> t.v[n]], Above(t, n + 1)) = Above(t, n)
  <2> DEFINE x == t.v[n]
             w == [m \in From(t, n + 1) |-> t.v[m]]
             entry == [name |-> n, tag |-> x]
             y == Joined(Entry(n, x), w)
  <2>1. Above(t, n + 1) = [type |-> Compound, of |-> End, v |-> w]
    BY DEF Above
  <2>2. entry.name = n /\ entry.tag = x
    OBVIOUS
  <2>3. y = [m \in From(t, n) |-> t.v[m]]
    <3>1. DOMAIN Entry(n, x) = {n} /\ Entry(n, x)[n] = x
      BY DEF Entry
    <3>2. DOMAIN w = From(t, n + 1) /\ \A m \in From(t, n + 1) : w[m] = t.v[m]
      OBVIOUS
    <3> HIDE DEF w
    <3>3. y = [m \in {n} \cup From(t, n + 1) |-> IF m \in {n} THEN Entry(n, x)[m] ELSE w[m]]
      BY <3>1, <3>2 DEF Joined
    <3>4. {n} \cup From(t, n + 1) = From(t, n)
      BY <1>2, <1>4
    <3>5. \A m \in From(t, n) : (IF m \in {n} THEN Entry(n, x)[m] ELSE w[m]) = t.v[m]
      BY <3>1, <3>2, <3>4
    <3> QED
      BY <3>3, <3>4, <3>5
  <2> HIDE DEF w, entry
  <2>4. Entered(entry, Above(t, n + 1)) = [Above(t, n + 1) EXCEPT !.v = y]
    <3>1. Above(t, n + 1).v = w
      BY <2>1
    <3> DEFINE c == Above(t, n + 1)
    <3> HIDE DEF c
    <3>2. Entered(entry, c) = [c EXCEPT !.v = Joined(Entry(entry.name, entry.tag), c.v)]
      BY DEF Entered
    <3> QED
      BY <2>2, <3>1, <3>2 DEF c
  <2> HIDE DEF y
  <2>5. Entered(entry, Above(t, n + 1)) = [type |-> Compound, of |-> End, v |-> y]
    BY <2>1, <2>4
  <2> QED
    BY <2>3, <2>5 DEF Above, entry
<1> QED
  BY <1>3, <1>4

LEMMA CompoundBack ==
  ASSUME NEW f \in Seq(Byte), NEW read, Reads(read, f), NEW t, IsTag(t), Sealed(t), t.type = Compound, NEW w, NEW p,
         Holds(f, p, OfCompound(t, w)), ReadsNamed(f, read, t, w)
  PROVE  ReadTag(Compound, Start(p), f, read) = State("ok", p + Len(OfCompound(t, w)), t)
<1> DEFINE s == EntriesOf(t, w)
           x == FlattenSeq(s)
           z == <<End>>
           c == OfCompound(t, w)
<1>1. \A k \in DOMAIN t.v : k \in Byte /\ w[k] \in Seq(Byte) /\ t.v[k].type \in End .. Compound /\ t.v[k].type # End
  <2>1. DOMAIN t.v \subseteq Byte /\ Parts(t) = DOMAIN t.v
    BY Shapes
  <2> QED
    BY <2>1 DEF ReadsNamed, Sealed
<1>2. s \in Seq(Seq(Byte)) /\ Len(s) = Base
  BY <1>1, EntriesAreBytes
<1>3. x \in Seq(Byte)
  BY <1>2, FlattenedLies
<1>4. z \in Seq(Byte)
  <2>1. End \in Byte
    BY BaseAssumption DEF End, Byte
  <2> QED
    BY <2>1
<1>5. Len(z) = 1 /\ z[1] = End
  OBVIOUS
<1>6. Joins(c, x, z) /\ Holds(f, p, c)
  BY <1>3, <1>4 DEF Joins, OfCompound
<1>7. \A n \in 0 .. (Base - 1) :
        /\ n \notin DOMAIN t.v => s[n + 1] = <<>>
        /\ n \in DOMAIN t.v => s[n + 1] = Named(t.v[n].type, n, w[n])
  <2>1. SUFFICES ASSUME NEW n \in 0 .. (Base - 1)
                 PROVE  /\ n \notin DOMAIN t.v => s[n + 1] = <<>>
                        /\ n \in DOMAIN t.v => s[n + 1] = Named(t.v[n].type, n, w[n])
    OBVIOUS
  <2> DEFINE m == n + 1
  <2>2. m \in 1 .. Base /\ m - 1 = n
    BY BaseAssumption
  <2> HIDE DEF m
  <2>3. s[m] = IF m - 1 \in DOMAIN t.v THEN WriteNamedTag(m - 1, t.v[m - 1].type, w[m - 1]) ELSE <<>>
    BY <2>2 DEF EntriesOf
  <2>4. s[m] = IF n \in DOMAIN t.v THEN WriteNamedTag(n, t.v[n].type, w[n]) ELSE <<>>
    BY <2>2, <2>3
  <2>5. ASSUME n \in DOMAIN t.v PROVE WriteNamedTag(n, t.v[n].type, w[n]) = Named(t.v[n].type, n, w[n])
    <3>1. t.v[n].type # End
      BY <1>1, <2>5
    <3> QED
      BY <3>1 DEF WriteNamedTag, Named
  <2> QED
    BY <2>4, <2>5 DEF m
<1> HIDE DEF s, x, z, c
<1>8. Holds(f, p, x) /\ Holds(f, p + Len(x), z) /\ Len(c) = Len(x) + Len(z)
  <2>1. Splits(f, p, x, z, c)
    BY <1>6, HoldsBoth
  <2> QED
    BY <2>1 DEF Splits
<1> DEFINE end == p + Len(x)
<1>9. p \in Nat /\ end \in 0 .. Len(f) /\ end # Len(f) /\ f[end + 1] = End /\ end + 1 = p + Len(c)
  <2>1. p \in Nat /\ Len(x) \in Nat /\ Len(f) \in Nat
    BY <1>3, <1>8 DEF Holds
  <2>2. end \in Nat /\ end + Len(z) <= Len(f) /\ \A i \in 1 .. Len(z) : f[end + i] = z[i]
    BY <1>8 DEF Holds
  <2> HIDE DEF end
  <2>3. end + 1 <= Len(f) /\ f[end + 1] = End
    BY <1>5, <2>2
  <2>4. end + 1 = p + Len(c)
    BY <1>5, <1>8, <2>1 DEF end
  <2> QED
    BY <2>1, <2>2, <2>3, <2>4
<1>10. PICK e : /\ e \in [0 .. Base -> 0 .. Len(f)] /\ e[0] = p /\ e[Base] = end
                /\ \A i \in 1 .. Base : Holds(f, e[i - 1], s[i]) /\ e[i] = e[i - 1] + Len(s[i])
  <2>1. Holds(f, p, FlattenSeq(s))
    BY <1>8 DEF x
  <2>2. s \in Seq(Seq(Byte))
    BY <1>2
  <2>3. \E e : HoldsEach(f, p, s, e)
    BY <2>1, <2>2, HoldsFlattened
  <2> QED
    BY <1>2, <2>3 DEF x, HoldsEach
<1> HIDE DEF end
<1> DEFINE K == {j \in Nat : j <= Base =>
                   ReadTag(Compound, Start(e[Base - j]), f, read) = State("ok", end + 1, Above(t, Base - j))}
<1>11. 0 \in K
  <2>1. Base - 0 = Base /\ Base \in Nat
    BY BaseAssumption
  <2>2. ReadNamedTag(Start(end), f, read) = State("ok", end + 1, [name |-> 0, tag |-> EndTag])
    <3> DEFINE x1 == f[end + 1]
               x2 == f[end + 2]
               q == ReadNamedTag(Start(end), f, read)
    <3>1. q = IF end = Len(f) THEN State("message_size", end, <<>>)
              ELSE IF x1 = End THEN State("ok", end + 1, [name |-> 0, tag |-> EndTag])
              ELSE IF x1 > Compound THEN State("illegal_byte_sequence", end + 1, x1)
              ELSE IF end + 1 = Len(f) THEN State("message_size", end + 1, x1)
              ELSE Titled(x2, read[<<x1, 1, end + 2>>])
      BY <1>9, NamedRead
    <3>2. x1 = End
      BY <1>9
    <3> HIDE DEF x1, x2, q
    <3>3. q = State("ok", end + 1, [name |-> 0, tag |-> EndTag])
      BY <1>9, <3>1, <3>2
    <3> QED
      BY <3>3 DEF q
  <2>3. ReadCompound(State("ok", end + 1, [name |-> 0, tag |-> EndTag]), read) = State("ok", end + 1, EmptyCompound)
    <3> DEFINE v == [name |-> 0, tag |-> EndTag]
    <3>1. v.tag = EndTag
      OBVIOUS
    <3> HIDE DEF v
    <3>2. v.tag.type = End
      BY <3>1, Simple
    <3>3. ReadCompound(State("ok", end + 1, v), read) = State("ok", end + 1, EmptyCompound)
      BY <3>2, ReadCompoundOn
    <3> QED
      BY <3>3 DEF v
  <2>4. ReadTag(Compound, Start(end), f, read) = State("ok", end + 1, Above(t, Base))
    BY <2>2, <2>3, CompoundRead, AboveAll
  <2> QED
    BY <1>10, <2>1, <2>4
<1>12. ASSUME NEW j \in Nat, j \in K PROVE j + 1 \in K
  <2> SUFFICES ASSUME j + 1 <= Base
               PROVE  ReadTag(Compound, Start(e[Base - (j + 1)]), f, read) = State("ok", end + 1, Above(t, Base - (j + 1)))
    OBVIOUS
  <2> DEFINE n == Base - (j + 1)
             at == e[n]
             next == e[n + 1]
             rest == Above(t, n + 1)
  <2>1. /\ Base \in Nat /\ n \in Nat /\ n \in 0 .. (Base - 1) /\ n + 1 \in 1 .. Base /\ (n + 1) - 1 = n /\ n + 1 = Base - j
        /\ n \in 0 .. Base /\ n + 1 \in 0 .. Base /\ j <= Base /\ n \in Byte
    BY BaseAssumption DEF Byte
  <2>2. ReadTag(Compound, Start(next), f, read) = State("ok", end + 1, rest)
    BY <1>12, <2>1
  <2>3. Holds(f, at, s[n + 1]) /\ next = at + Len(s[n + 1]) /\ at \in 0 .. Len(f) /\ next \in 0 .. Len(f)
    BY <1>10, <2>1
  <2> HIDE DEF n, K
  <2> SUFFICES ReadTag(Compound, Start(at), f, read) = State("ok", end + 1, Above(t, n))
    BY DEF n
  <2>4. CASE n \notin DOMAIN t.v
    <3>1. s[n + 1] = <<>>
      BY <1>7, <2>1, <2>4
    <3>2. next = at + Len(<<>>)
      BY <2>3, <3>1
    <3> HIDE DEF next, at
    <3>3. next = at
      BY <2>3, <3>2
    <3> QED
      BY <2>1, <2>2, <2>4, <3>3, AboveNext
  <2>5. CASE n \in DOMAIN t.v
    <3> DEFINE type == t.v[n].type
               y == t.v[n]
               b == w[n]
               entry == [name |-> n, tag |-> y]
    <3>1. /\ s[n + 1] = Named(type, n, b) /\ b \in Seq(Byte) /\ type \in End .. Compound /\ type # End
      BY <1>1, <1>7, <2>1, <2>5
    <3>2. entry.tag.type # End
      BY <3>1
    <3>3. Entered(entry, rest) = Above(t, n)
      BY <2>1, <2>5, AboveNext
    <3>4. at \in Nat /\ at + 2 \in Nat
      BY <2>3 DEF Holds
    <3>5. BackAt(f, read, type, at + 2, b, y)
      BY <2>5, <3>4 DEF ReadsNamed
    <3> HIDE DEF at, next, type, y, b, rest
    <3>6. Holds(f, at, Named(type, n, b)) /\ next = at + Len(Named(type, n, b))
      BY <2>3, <3>1
    <3>7. ReadNamedTag(Start(at), f, read) = State("ok", next, entry)
      BY <2>1, <3>1, <3>5, <3>6, EntryBack
    <3> HIDE DEF entry
    <3>8. ReadCompound(State("ok", next, entry), read) = Before(entry, read[<<Compound, 1, next>>])
      BY <3>2, ReadCompoundOn
    <3>9. read[<<Compound, 1, next>>] = State("ok", end + 1, <<rest>>)
      <4>1. Compound \in End .. Compound /\ end + 1 \in 0 .. Len(f)
        BY <1>9 DEF End, Compound
      <4> QED
        BY <2>2, <2>3, <4>1, SingleRead
    <3>10. Before(entry, State("ok", end + 1, <<rest>>)) = State("ok", end + 1, Entered(entry, rest))
      <4> DEFINE v == <<rest>>
      <4>1. v[1] = rest
        OBVIOUS
      <4> HIDE DEF v
      <4>2. Before(entry, State("ok", end + 1, v)) = State("ok", end + 1, Entered(entry, v[1]))
        BY BeforeOn
      <4>3. Before(entry, State("ok", end + 1, v)) = State("ok", end + 1, Entered(entry, rest))
        BY <4>1, <4>2
      <4> QED
        BY <4>3 DEF v
    <3> QED
      BY <3>3, <3>7, <3>8, <3>9, <3>10, CompoundRead
  <2> QED
    BY <2>4, <2>5
<1> HIDE DEF K
<1>13. Nat \subseteq K
  BY <1>11, <1>12, SetInduction
<1>14. Base \in Nat /\ Base <= Base /\ Base - Base = 0
  BY BaseAssumption
<1>15. ReadTag(Compound, Start(e[Base - Base]), f, read) = State("ok", end + 1, Above(t, Base - Base))
  BY <1>13, <1>14 DEF K
<1>16. ReadTag(Compound, Start(p), f, read) = State("ok", p + Len(c), t)
  BY <1>9, <1>10, <1>14, <1>15, AboveAll
<1> QED
  BY <1>16 DEF c

-----------------------------------------------------------------------------
(* Trees.                                                                  *)

LEMMA TagBack ==
  ASSUME NEW f \in Seq(Byte), NEW read, Reads(read, f), NEW t, IsTag(t), Even(t), Sealed(t), NEW w, NEW p,
         t.type = List => ReadsParts(f, read, t, w), t.type = Compound => ReadsNamed(f, read, t, w)
  PROVE  BackAt(f, read, t.type, p, WriteTag(t, w), t)
<1> SUFFICES ASSUME Holds(f, p, WriteTag(t, w))
             PROVE  ReadTag(t.type, Start(p), f, read) = State("ok", p + Len(WriteTag(t, w)), t)
  BY DEF BackAt
<1>1. t.type \in {End, Value, Bytes, List, Compound}
  BY TypesDiffer DEF IsTag
<1>2. CASE t.type = End
  <2>1. WriteTag(t, w) = <<>> /\ t = [type |-> End, of |-> End, v |-> <<>>]
    BY <1>2, Shapes, WrittenTag
  <2>2. t = EndTag
    BY <2>1 DEF EndTag, Tag
  <2>3. p \in Nat /\ Len(<<>>) = 0
    BY <2>1 DEF Holds
  <2>4. p + Len(<<>>) = p
    BY <2>3
  <2>5. ReadTag(End, Start(p), f, read) = State("ok", p, EndTag)
    BY EndRead
  <2> QED
    BY <1>2, <2>1, <2>2, <2>4, <2>5
<1>3. CASE t.type = Value
  <2>1. WriteTag(t, w) = <<t.v>> /\ t.v \in Byte /\ t = [type |-> Value, of |-> End, v |-> t.v]
    BY <1>3, Shapes, WrittenTag
  <2>2. t = Tag(Value, t.v)
    BY <2>1 DEF Tag
  <2>3. ReadTag(Value, Start(p), f, read) = State("ok", p + 1, Tag(Value, t.v))
    <3> DEFINE b == t.v
    <3>1. b \in Byte /\ Holds(f, p, <<b>>)
      BY <2>1
    <3> HIDE DEF b
    <3>2. ReadTag(Value, Start(p), f, read) = State("ok", p + 1, Tag(Value, b))
      BY <3>1, ValueBack
    <3> QED
      BY <3>2 DEF b
  <2>4. p + Len(<<t.v>>) = p + 1
    OBVIOUS
  <2> QED
    BY <1>3, <2>1, <2>2, <2>3, <2>4
<1>4. CASE t.type = Bytes
  <2>1. WriteTag(t, w) = OfBytes(t)
    BY <1>4, WrittenTag DEF OfBytes
  <2>2. Holds(f, p, OfBytes(t))
    BY <2>1
  <2>3. ReadTag(Bytes, Start(p), f, read) = State("ok", p + Len(OfBytes(t)), t)
    BY <1>4, <2>2, BytesBack
  <2> QED
    BY <1>4, <2>1, <2>3
<1>5. CASE t.type = List
  <2>1. WriteTag(t, w) = OfList(t, FlattenSeq(w))
    BY <1>5, WrittenTag DEF OfList
  <2>2. Holds(f, p, OfList(t, FlattenSeq(w))) /\ ReadsParts(f, read, t, w)
    BY <1>5, <2>1
  <2>3. ReadTag(List, Start(p), f, read) = State("ok", p + Len(OfList(t, FlattenSeq(w))), t)
    BY <1>5, <2>2, ListBack
  <2> QED
    BY <1>5, <2>1, <2>3
<1>6. CASE t.type = Compound
  <2>1. WriteTag(t, w) = OfCompound(t, w)
    BY <1>6, WrittenTag DEF OfCompound
  <2>2. Holds(f, p, OfCompound(t, w)) /\ ReadsNamed(f, read, t, w)
    BY <1>6, <2>1
  <2>3. ReadTag(Compound, Start(p), f, read) = State("ok", p + Len(OfCompound(t, w)), t)
    BY <1>6, <2>2, CompoundBack
  <2> QED
    BY <1>6, <2>1, <2>3
<1> QED
  BY <1>1, <1>2, <1>3, <1>4, <1>5, <1>6

LEMMA TreeBack ==
  ASSUME NEW S, Genuine(S), NEW t \in S, Shallow(t), NEW f \in Seq(Byte), NEW read, Reads(read, f),
         NEW ref \in References(t), NEW p
  PROVE  BackAt(f, read, Tip(t, ref).type, p, Payloads(t)[ref], Tip(t, ref))
<1> DEFINE w == Payloads(t)
           X == {r \in References(t) : \A at : BackAt(f, read, Tip(t, r).type, at, w[r], Tip(t, r))}
<1>0. PICK e \in BOOLEAN : Kin(S, e)
  <2>1. Kin(S, TRUE)
    BY DEF Kin, Genuine
  <2> QED
    BY <2>1
<1>1. ASSUME NEW r \in References(t), \A k \in Parts(Tip(t, r)) : Append(r, Step(Tip(t, r), k)) \in X
      PROVE  r \in X
  <2> DEFINE u == Tip(t, r)
             z == [k \in Parts(u) |-> w[Append(r, Step(u, k))]]
  <2>1. u \in S
    BY <1>0, ReferencesWithin, TipWithin
  <2>2. IsTag(u) /\ Even(u) /\ Sealed(u) /\ \A k \in Parts(u) : IsTag(u.v[k])
    BY <2>1 DEF Genuine
  <2>3. w[r] = WriteTag(u, z)
    BY <1>0, PayloadsWritten DEF Written
  <2>4. ASSUME NEW k \in Parts(u)
        PROVE  /\ z[k] \in Seq(Byte) /\ u.v[k].type \in End .. Compound
               /\ \A at : BackAt(f, read, u.v[k].type, at, z[k], u.v[k])
    <3> DEFINE further == Append(r, Step(u, k))
    <3>1. further \in References(t) /\ Tip(t, further) = u.v[k]
      BY <1>0, AReferenceOnward
    <3>2. further \in X
      BY <1>1
    <3>3. z[k] = w[further]
      OBVIOUS
    <3> HIDE DEF further, z, w, u
    <3>4. \A at : BackAt(f, read, Tip(t, further).type, at, w[further], Tip(t, further))
      BY <3>2
    <3>5. w[further] \in Seq(Byte)
      BY <1>0, <3>1, PayloadBytes DEF w
    <3>6. u.v[k].type \in End .. Compound
      BY <2>2 DEF IsTag
    <3> QED
      BY <3>1, <3>3, <3>4, <3>5, <3>6
  <2>5. z = [k \in Parts(u) |-> z[k]]
    OBVIOUS
  <2> HIDE DEF u, z, w, X
  <2>6. ASSUME u.type = List PROVE ReadsParts(f, read, u, z)
    <3>1. Len(u.v) \in Nat /\ DOMAIN u.v = 1 .. Len(u.v) /\ Parts(u) = DOMAIN u.v
      BY <2>2, <2>6, Shapes
    <3> DEFINE n == Len(u.v)
    <3>2. n \in Nat /\ z = [k \in 1 .. n |-> z[k]] /\ \A k \in 1 .. n : z[k] \in Seq(Byte)
      BY <2>4, <2>5, <3>1
    <3> HIDE DEF n
    <3>3. z \in [1 .. n -> Seq(Byte)]
      BY <3>2
    <3>4. z \in Seq(Seq(Byte)) /\ Len(z) = n
      BY <3>2, <3>3
    <3> QED
      BY <2>4, <3>1, <3>4 DEF ReadsParts, n
  <2>7. ASSUME u.type = Compound PROVE ReadsNamed(f, read, u, z)
    <3>1. Parts(u) = DOMAIN u.v
      BY <2>2, <2>7, Shapes
    <3> QED
      BY <2>4, <3>1 DEF ReadsNamed
  <2>8. \A at : BackAt(f, read, u.type, at, WriteTag(u, z), u)
    BY <2>2, <2>6, <2>7, TagBack
  <2> QED
    BY <2>3, <2>8 DEF X, u
<1> HIDE DEF X
<1>2. References(t) \subseteq X
  BY <1>0, <1>1, FromTheLeaves
<1> QED
  BY <1>2 DEF X

LEMMA FieldBack ==
  ASSUME NEW S, Genuine(S), NEW t \in S, Shallow(t), t.type = Compound,
         NEW f \in Seq(Byte), NEW p, Holds(f, p, Serialize(t))
  PROVE  DeserializeAt(f, p) = State("ok", p + Len(Serialize(t)), t)
<1> DEFINE b == Payloads(t)[<<>>]
           read == Readers(f)
<1>0. Kin(S, TRUE) /\ TRUE \in BOOLEAN
  BY DEF Kin, Genuine
<1>1. <<>> \in References(t) /\ Tip(t, <<>>) = t
  BY EmptyReference
<1>2. b \in Seq(Byte)
  BY <1>0, <1>1, PayloadBytes
<1>3. Serialize(t) = Named(Compound, 0, b)
  BY TypesDiffer DEF Serialize, WriteNamedTag, Named
<1>4. 0 \in Byte /\ Compound \in Byte /\ Compound \in End .. Compound /\ Compound # End
  BY BaseAssumption, TypesAssumption DEF Byte, End, Compound
<1> HIDE DEF b
<1>6. Reads(read, f)
  BY ReadersRead
<1>7. Holds(f, p, Named(Compound, 0, b))
  BY <1>3
<1> HIDE DEF read
<1>8. BackAt(f, read, Compound, p + 2, b, t)
  <2>1. BackAt(f, read, Tip(t, <<>>).type, p + 2, Payloads(t)[<<>>], Tip(t, <<>>))
    BY <1>1, <1>6, TreeBack
  <2> QED
    BY <1>1, <2>1 DEF b
<1> DEFINE end == p + Len(Named(Compound, 0, b))
           v == [name |-> 0, tag |-> t]
<1>9. ReadNamedTag(Start(p), f, read) = State("ok", end, v)
  BY <1>2, <1>4, <1>6, <1>7, <1>8, EntryBack
<1>10. v.tag = t
  OBVIOUS
<1>11. end = p + Len(Serialize(t))
  BY <1>3
<1> HIDE DEF v, end
<1>12. RootOf(State("ok", end, v)) = State("ok", end, t)
  BY <1>10, RootOfOn
<1> QED
  BY <1>9, <1>11, <1>12 DEF DeserializeAt, read

LEMMA FrameBytes ==
  ASSUME NEW e \in BOOLEAN, NEW S, Kin(S, e), NEW t \in S, Shallow(t), t.type = Compound
  PROVE  Serialize(t) \in Seq(Byte)
<1> DEFINE b == Payloads(t)[<<>>]
           a == <<Compound, 0>>
<1>1. b \in Seq(Byte)
  <2>1. <<>> \in References(t)
    BY EmptyReference
  <2> QED
    BY <2>1, PayloadBytes
<1>2. a \in Seq(Byte)
  <2>1. 0 \in Byte /\ Compound \in Byte
    BY BaseAssumption, TypesAssumption DEF Byte, Compound
  <2> QED
    BY <2>1
<1>3. Serialize(t) = a \o b
  BY TypesDiffer DEF Serialize, WriteNamedTag
<1> HIDE DEF a, b
<1>4. a \o b \in Seq(Byte)
  BY <1>1, <1>2
<1> QED
  BY <1>3, <1>4

LEMMA FrameBack ==
  ASSUME NEW S, Genuine(S), NEW t \in S, Shallow(t), t.type = Compound
  PROVE  Serialize(t) \in Seq(Byte) /\ Deserialize(Serialize(t)) = State("ok", Len(Serialize(t)), t)
<1> DEFINE w == Serialize(t)
<1>1. w \in Seq(Byte)
  <2>1. Kin(S, TRUE) /\ TRUE \in BOOLEAN
    BY DEF Kin, Genuine
  <2>2. PICK e \in BOOLEAN : Kin(S, e)
    BY <2>1
  <2> QED
    BY <2>2, FrameBytes
<1>2. \A g \in Seq(Byte) : Holds(g, 0, w) => DeserializeAt(g, 0) = State("ok", 0 + Len(w), t)
  BY FieldBack
<1> HIDE DEF w
<1>3. Holds(w, 0, w) /\ 0 + Len(w) = Len(w)
  <2>1. \A i \in 1 .. Len(w) : 0 + i = i
    BY <1>1
  <2> QED
    BY <1>1, <2>1 DEF Holds
<1>4. Deserialize(w) = State("ok", Len(w), t)
  BY <1>1, <1>2, <1>3 DEF Deserialize
<1> QED
  BY <1>1, <1>4 DEF w

\* A tree that is uniform and closed, as a reader's.
LEMMA GenuineTree ==
  ASSUME NEW e \in BOOLEAN, NEW S, Kin(S, e), NEW t \in S, Shallow(t), Uniform(t), Closed(t)
  PROVE  \E R : t \in R /\ Genuine(R)
<1> DEFINE R == {Tip(t, ref) : ref \in References(t)}
<1>1. t \in R
  <2>1. <<>> \in References(t) /\ Tip(t, <<>>) = t
    BY EmptyReference
  <2> QED
    BY <2>1
<1>2. ASSUME NEW ref \in References(t)
      PROVE  LET u == Tip(t, ref) IN IsTag(u) /\ Even(u) /\ Sealed(u) /\ \A k \in Parts(u) : u.v[k] \in R
  <2> DEFINE u == Tip(t, ref)
  <2>1. u \in S
    BY ReferencesWithin, TipWithin
  <2>2. IsTag(u) /\ Even(u) /\ Sealed(u)
    BY <2>1 DEF Kin, Uniform, Closed, Sealed
  <2>3. ASSUME NEW k \in Parts(u) PROVE u.v[k] \in R
    <3> DEFINE further == Append(ref, Step(u, k))
    <3>1. further \in References(t) /\ Tip(t, further) = u.v[k]
      BY AReferenceOnward
    <3> QED
      BY <3>1
  <2> QED
    BY <2>2, <2>3
<1>3. Genuine(R)
  BY <1>2 DEF Genuine
<1> QED
  BY <1>1, <1>3

-----------------------------------------------------------------------------
(* What arrives, and what is read.                                         *)

\* What is cut off is the beginning of what was written, and the reader has seen what arrived.
CutOff(f, whole) == \E n \in 0 .. (Len(whole) - 1) : f = SubSeq(whole, 1, n)

FrameInv ==
  /\ fate \in {"unsent", "whole", "cut", "foreign"}
  /\ frame \in Seq(Byte)
  /\ fate = "whole" => frame = Serialize(root)
  /\ fate = "cut" => CutOff(frame, Serialize(root))
  /\ fate = "unsent" => reader.status = "none"
  /\ reader.status = "none" \/ reader = Deserialize(frame)

LEMMA CutIsBytes ==
  ASSUME NEW whole \in Seq(Byte), NEW f, CutOff(f, whole)
  PROVE  f \in Seq(Byte)
<1>1. PICK n \in 0 .. (Len(whole) - 1) : f = SubSeq(whole, 1, n)
  BY DEF CutOff
<1>2. SubSeq(whole, 1, n) \in Seq(Byte)
  OBVIOUS
<1> QED
  BY <1>1, <1>2

LEMMA RootBytes ==
  ASSUME TreeInv
  PROVE  Serialize(root) \in Seq(Byte)
<1>1. PICK S : root \in S /\ Kin(S, FALSE)
  BY DEF TreeInv
<1>2. PICK e \in BOOLEAN : Kin(S, e)
  BY <1>1
<1> QED
  BY <1>1, <1>2, FrameBytes DEF TreeInv

LEMMA SpecBuilds == Spec => Building
<1>1. Init => Empty
  BY DEF Init
<1>2. [Next]_vars => [Calls]_tree
  BY DEF Next, vars, tree, Build, Arrive, Cut, Deliver, Read, Done
<1> QED
  BY <1>1, <1>2, PTL DEF Spec, Building

LEMMA FrameInitially ==
  ASSUME Init
  PROVE  FrameInv
<1>1. frame \in Seq(Byte)
  <2>1. CASE frame = <<>>
    BY <2>1
  <2>2. CASE frame \in Frames
    BY <2>2, FramesAssumption
  <2> QED
    BY <2>1, <2>2 DEF Init
<1>2. reader.status = "none"
  BY DEF Init
<1> QED
  BY <1>1, <1>2 DEF Init, FrameInv

LEMMA FrameStep ==
  ASSUME TreeInv, FrameInv, [Next]_vars
  PROVE  FrameInv'
<1>1. CASE Build
  BY <1>1 DEF Build, FrameInv
<1>2. CASE Arrive
  BY <1>2, RootBytes DEF Arrive, Deliver, FrameInv
<1>3. CASE Cut
  <2>1. PICK n \in 0 .. (Len(Serialize(root)) - 1) : Deliver(SubSeq(Serialize(root), 1, n), "cut")
    BY <1>3 DEF Cut
  <2>2. frame' = SubSeq(Serialize(root), 1, n) /\ fate' = "cut" /\ fate = "unsent" /\ reader' = reader /\ root' = root
    BY <2>1 DEF Deliver
  <2>3. CutOff(frame', Serialize(root))
    BY <2>2 DEF CutOff
  <2>4. frame' \in Seq(Byte)
    BY <2>3, RootBytes, CutIsBytes
  <2>5. CutOff(frame, Serialize(root))'
    BY <2>2, <2>3
  <2> QED
    BY <2>2, <2>4, <2>5 DEF FrameInv
<1>4. CASE Read
  <2>1. frame' = frame /\ fate' = fate /\ root' = root /\ reader' = Deserialize(frame) /\ fate # "unsent"
    BY <1>4 DEF Read
  <2>2. reader' = Deserialize(frame')
    BY <2>1
  <2> QED
    BY <2>1, <2>2 DEF FrameInv
<1>5. CASE UNCHANGED vars
  BY <1>5 DEF vars, FrameInv
<1> QED
  BY <1>1, <1>2, <1>3, <1>4, <1>5 DEF Next, Done

LEMMA FrameInvariant == Spec => []TreeInv /\ []FrameInv
<1>1. Spec => []TreeInv
  BY SpecBuilds, TreeInvariant, PTL
<1>2. Init => FrameInv
  BY FrameInitially
<1>3. TreeInv /\ FrameInv /\ [Next]_vars => FrameInv'
  BY FrameStep
<1> QED
  BY <1>1, <1>2, <1>3, PTL DEF Spec

-----------------------------------------------------------------------------
\* Whatever is called, in whatever order and on whatever references, every list
\* of the tree has the type of its elements, and none of them is End, as long as
\* no element of a list is assigned a tag of another type: ListTag checks what
\* is appended (nbt.hpp's push_back and emplace_back) and cannot check what a
\* reference is given.
THEOREM ListsStayUniform == Spec => []ListsAreUniform
BY SpecBuilds, ListsStay, PTL

\* What a client has built is read back as it was, up to its last byte, when it
\* is uniform and gives no name an End tag; and wherever it is cut, reading it
\* fails with the stream's error, whatever tree and of whatever depth: nothing
\* that nbt.hpp writes can be mistaken for something shorter.
THEOREM WrittenIsReadBack == Spec => []ReadBack
<1>1. TreeInv /\ FrameInv => ReadBack
  <2> SUFFICES ASSUME TreeInv, FrameInv, reader.status # "none", fate # "foreign", Uniform(root), Closed(root)
               PROVE  IF fate = "whole" THEN reader = [status |-> "ok", pos |-> Len(frame), value |-> root]
                      ELSE reader.status = "message_size"
    BY DEF ReadBack
  <2> DEFINE whole == Serialize(root)
  <2>1. PICK S : root \in S /\ Genuine(S)
    <3>1. PICK R : root \in R /\ Kin(R, FALSE)
      BY DEF TreeInv
    <3>2. PICK e \in BOOLEAN : Kin(R, e)
      BY <3>1
    <3> QED
      BY <3>1, <3>2, GenuineTree DEF TreeInv
  <2>2. whole \in Seq(Byte) /\ Deserialize(whole) = State("ok", Len(whole), root)
    BY <2>1, FrameBack DEF TreeInv
  <2>3. reader = Deserialize(frame) /\ fate \in {"whole", "cut"}
    BY DEF FrameInv
  <2>4. CASE fate = "whole"
    BY <2>2, <2>3, <2>4 DEF FrameInv, State
  <2>5. CASE fate = "cut"
    <3>1. PICK n \in 0 .. (Len(whole) - 1) : frame = SubSeq(whole, 1, n)
      BY <2>5 DEF FrameInv, CutOff
    <3> HIDE DEF whole
    <3>2. Deserialize(SubSeq(whole, 1, n)).status = "message_size"
      BY <2>2, DeserializeCut
    <3> QED
      BY <2>3, <2>5, <3>1, <3>2
  <2> QED
    BY <2>3, <2>4, <2>5
<1> QED
  BY <1>1, FrameInvariant, PTL

\* Whatever bytes arrive, what is accepted is uniform and gives no name an End
\* tag, and what nbt.hpp writes of it is read back as the same tree.
THEOREM AcceptedIsReadBack == Spec => []AcceptedIsStable
<1>1. FrameInv => AcceptedIsStable
  <2> SUFFICES ASSUME FrameInv, reader.status = "ok"
               PROVE  /\ Uniform(reader.value) /\ Closed(reader.value)
                      /\ Shallow(reader.value) =>
                           Deserialize(Serialize(reader.value)) = [reader EXCEPT !.pos = Len(Serialize(reader.value))]
    BY DEF AcceptedIsStable
  <2>1. reader = Deserialize(frame) /\ frame \in Seq(Byte)
    BY DEF FrameInv
  <2>2. PICK end \in 0 .. Len(frame) : \E t : Deserialize(frame) = State("ok", end, t) /\ t.type = Compound /\ Whole(t)
    <3>1. ~ Failed(Deserialize(frame))
      BY <2>1 DEF Failed, State
    <3> QED
      BY <2>1, <3>1, DeserializeGood
  <2>3. PICK t : Deserialize(frame) = State("ok", end, t) /\ t.type = Compound /\ Whole(t)
    BY <2>2
  <2>4. reader = [status |-> "ok", pos |-> end, value |-> t]
    BY <2>1, <2>3 DEF State
  <2>5. Uniform(t) /\ Closed(t)
    BY <2>3, WholeThroughout
  <2>6. ASSUME Shallow(t) PROVE Deserialize(Serialize(t)) = State("ok", Len(Serialize(t)), t)
    <3>1. PICK S : t \in S /\ Genuine(S)
      BY <2>3 DEF Whole
    <3> QED
      BY <2>3, <2>6, <3>1, FrameBack
  <2>7. [reader EXCEPT !.pos = Len(Serialize(t))] = State("ok", Len(Serialize(t)), t)
    BY <2>4 DEF State
  <2>8. reader.value = t
    BY <2>4
  <2> QED
    BY <2>5, <2>6, <2>7, <2>8
<1> QED
  BY <1>1, FrameInvariant, PTL

\* The whole of what a frame begins with, if it is short of w's bytes from p on.
LEMMA Completed ==
  ASSUME NEW f \in Seq(Byte), NEW p \in 0 .. Len(f), NEW w \in Seq(Byte), Len(f) < p + Len(w),
         \A i \in 1 .. Len(w) : p + i <= Len(f) => f[p + i] = w[i]
  PROVE  \E g \in Seq(Byte) : Holds(g, p, w) /\ Len(g) = p + Len(w) /\ f = SubSeq(g, 1, Len(f))
<1> DEFINE n == p + Len(w)
           g == [i \in 1 .. n |-> IF i <= p THEN f[i] ELSE w[i - p]]
<1>1. n \in Nat /\ p \in Nat /\ Len(f) \in Nat /\ Len(w) \in Nat /\ Len(f) < n
  OBVIOUS
<1>2. \A i \in 1 .. n : (i <= p => i \in 1 .. Len(f)) /\ (~ (i <= p) => i - p \in 1 .. Len(w))
  OBVIOUS
<1>3. \A i \in 1 .. n : IF i <= p THEN f[i] \in Byte ELSE w[i - p] \in Byte
  <2> SUFFICES ASSUME NEW i \in 1 .. n PROVE IF i <= p THEN f[i] \in Byte ELSE w[i - p] \in Byte
    OBVIOUS
  <2>1. CASE i <= p
    <3>1. i \in 1 .. Len(f)
      BY <1>2, <2>1
    <3> QED
      BY <2>1, <3>1
  <2>2. CASE ~ (i <= p)
    <3> DEFINE j == i - p
    <3>1. j \in 1 .. Len(w)
      BY <1>2, <2>2
    <3> HIDE DEF j
    <3>2. w[j] \in Byte
      BY <3>1
    <3> QED
      BY <2>2, <3>2 DEF j
  <2> QED
    BY <2>1, <2>2
<1> HIDE DEF n
<1>4. g \in [1 .. n -> Byte]
  BY <1>3
<1>5. g \in Seq(Byte) /\ Len(g) = n
  <2> HIDE DEF g
  <2> QED
    BY <1>1, <1>4
<1>6. \A i \in 1 .. Len(w) : p + i \in 1 .. n /\ ~ (p + i <= p) /\ (p + i) - p = i
  BY <1>1 DEF n
<1>7. \A i \in 1 .. Len(w) : g[p + i] = w[i]
  BY <1>6
<1>8. ASSUME NEW i \in 1 .. Len(f) PROVE f[i] = g[i]
  <2>1. i \in 1 .. n
    BY <1>1
  <2>2. CASE i <= p
    BY <2>1, <2>2
  <2>3. CASE ~ (i <= p)
    <3>1. i - p \in 1 .. Len(w) /\ p + (i - p) = i /\ i <= Len(f)
      BY <1>2, <2>1, <2>3
    <3>2. f[p + (i - p)] = w[i - p]
      BY <3>1
    <3> QED
      BY <2>1, <2>3, <3>1, <3>2
  <2> QED
    BY <2>2, <2>3
<1> HIDE DEF g
<1>9. Holds(g, p, w)
  BY <1>1, <1>5, <1>7 DEF Holds, n
<1>10. f = SubSeq(g, 1, Len(f))
  <2>1. SubSeq(g, 1, Len(f)) \in Seq(Byte) /\ Len(SubSeq(g, 1, Len(f))) = Len(f)
    BY <1>1, <1>5
  <2>2. \A i \in 1 .. Len(f) : SubSeq(g, 1, Len(f))[i] = g[i]
    BY <1>1, <1>5
  <2> DEFINE h == SubSeq(g, 1, Len(f))
  <2>3. h \in Seq(Byte) /\ Len(h) = Len(f) /\ \A i \in 1 .. Len(f) : h[i] = f[i]
    BY <1>8, <2>1, <2>2
  <2> HIDE DEF h
  <2>4. h = f
    BY <2>3
  <2> QED
    BY <2>4 DEF h
<1> QED
  BY <1>5, <1>9, <1>10 DEF n

\* A CompoundTag is a field like any other: of what its Serializer writes,
\* wherever in a frame it stands and whatever follows, it makes the same tree
\* and stops behind it, and of a beginning of it that ends with the frame it
\* makes nothing but the stream's error.  This is what StructsRoundTrip and
\* CutItemsAreRefused ask of the codec of each field of a struct (Mirrors).
THEOREM CompoundFieldsMirror ==
  ASSUME NEW t, Whole(t), Shallow(t), t.type = Compound, NEW f \in Seq(Byte), NEW p \in 0 .. Len(f),
         \A i \in 1 .. Len(Serialize(t)) : p + i <= Len(f) => f[p + i] = Serialize(t)[i]
  PROVE  IF p + Len(Serialize(t)) <= Len(f)
         THEN DeserializeAt(f, p) = State("ok", p + Len(Serialize(t)), t)
         ELSE DeserializeAt(f, p).status = "message_size"
<1> DEFINE w == Serialize(t)
<1>0. PICK S : t \in S /\ Genuine(S)
  BY DEF Whole
<1>1. w \in Seq(Byte)
  <2>1. Kin(S, TRUE) /\ TRUE \in BOOLEAN
    BY <1>0 DEF Kin, Genuine
  <2>2. PICK e \in BOOLEAN : Kin(S, e)
    BY <2>1
  <2> QED
    BY <1>0, <2>2, FrameBytes
<1>2. \A g \in Seq(Byte) : Holds(g, p, w) => DeserializeAt(g, p) = State("ok", p + Len(w), t)
  BY <1>0, FieldBack
<1>3. \A i \in 1 .. Len(w) : p + i <= Len(f) => f[p + i] = w[i]
  OBVIOUS
<1> HIDE DEF w
<1>4. CASE p + Len(w) <= Len(f)
  <2>1. \A i \in 1 .. Len(w) : p + i <= Len(f)
    BY <1>1, <1>4
  <2>2. Holds(f, p, w)
    BY <1>1, <1>3, <1>4, <2>1 DEF Holds
  <2> QED
    BY <1>2, <1>4, <2>2 DEF w
<1>5. CASE ~ (p + Len(w) <= Len(f))
  <2>1. Len(f) < p + Len(w)
    BY <1>1, <1>5
  <2>2. PICK g \in Seq(Byte) : Holds(g, p, w) /\ Len(g) = p + Len(w) /\ f = SubSeq(g, 1, Len(f))
    BY <1>1, <1>3, <2>1, Completed
  <2>3. DeserializeAt(g, p) = State("ok", Len(g), t)
    BY <1>2, <2>2
  <2>4. Len(f) \in 0 .. (Len(g) - 1)
    BY <2>1, <2>2
  <2> DEFINE m == Len(f)
  <2>5. m \in 0 .. (Len(g) - 1) /\ p \in 0 .. m /\ f = SubSeq(g, 1, m)
    BY <2>2, <2>4
  <2> HIDE DEF m
  <2>6. DeserializeAt(SubSeq(g, 1, m), p).status = "message_size"
    BY <2>3, <2>5, FieldCut
  <2> QED
    BY <1>5, <2>5, <2>6 DEF w
<1> QED
  BY <1>4, <1>5

\* Of any bytes, wherever a CompoundTag is read from, its Serializer makes a tree
\* that can be written and read back, and passes no more than there is; or fails.
THEOREM CompoundFieldsAnswer ==
  ASSUME NEW f \in Seq(Byte), NEW p \in 0 .. Len(f)
  PROVE  \/ DeserializeAt(f, p).status # "ok"
         \/ \E end \in p .. Len(f) : \E t :
              DeserializeAt(f, p) = State("ok", end, t) /\ t.type = Compound /\ Whole(t) /\ Uniform(t) /\ Closed(t)
<1>1. CASE Failed(DeserializeAt(f, p))
  BY <1>1 DEF Failed, State
<1>2. CASE ~ Failed(DeserializeAt(f, p))
  <2>1. PICK end \in p .. Len(f) : \E t : DeserializeAt(f, p) = State("ok", end, t) /\ t.type = Compound /\ Whole(t)
    BY <1>2, FieldGood
  <2> QED
    BY <2>1, WholeThroughout
<1> QED
  BY <1>1, <1>2

-----------------------------------------------------------------------------
(* Numbers of any width.                                                   *)

LEMMA PowerIsPositive ==
  ASSUME NEW k \in Nat
  PROVE  Power(k) \in Nat \ {0} /\ Power(k + 1) = Base * Power(k)
<1> DEFINE K == {j \in Nat : Power(j) \in Nat \ {0}}
<1>1. ASSUME NEW j \in Nat PROVE Power(j + 1) = Base * Power(j)
  <2>1. PICK f : Powers(f, j) /\ Power(j) = f[j]
    BY PowerUnfolds
  <2>2. PICK g : Powers(g, j + 1) /\ Power(j + 1) = g[j + 1]
    BY PowerUnfolds
  <2> DEFINE S == {i \in Nat : i <= j => g[i] = f[i]}
  <2>3. 0 \in S
    BY <2>1, <2>2 DEF Powers
  <2>4. ASSUME NEW i \in Nat, i \in S PROVE i + 1 \in S
    <3> SUFFICES ASSUME i + 1 <= j PROVE g[i + 1] = f[i + 1]
      OBVIOUS
    <3>1. i + 1 \in 0 .. j /\ i + 1 \in 0 .. (j + 1) /\ i + 1 # 0 /\ (i + 1) - 1 = i
      OBVIOUS
    <3>2. g[i + 1] = Base * g[i]
      BY <2>2, <3>1 DEF Powers
    <3>3. f[i + 1] = Base * f[i]
      BY <2>1, <3>1 DEF Powers
    <3>4. g[i] = f[i]
      BY <2>4
    <3> QED
      BY <3>2, <3>3, <3>4
  <2> HIDE DEF S
  <2>5. j \in S
    BY <2>3, <2>4, SetInduction
  <2>6. g[j] = f[j]
    BY <2>5 DEF S
  <2>7. j + 1 \in 0 .. (j + 1) /\ j + 1 # 0 /\ (j + 1) - 1 = j
    OBVIOUS
  <2>8. g[j + 1] = Base * g[j]
    BY <2>2, <2>7 DEF Powers
  <2> QED
    BY <2>1, <2>2, <2>6, <2>8
<1>2. 0 \in K
  BY ByteCapacity
<1>3. ASSUME NEW j \in Nat, j \in K PROVE j + 1 \in K
  <2>1. Power(j + 1) = Base * Power(j) /\ Power(j) \in Nat \ {0}
    BY <1>1, <1>3
  <2>2. \A a, b \in Nat \ {0} : a * b \in Nat \ {0}
    OBVIOUS
  <2>3. Base \in Nat \ {0}
    BY BaseAssumption
  <2> QED
    BY <2>1, <2>2, <2>3
<1> HIDE DEF K
<1>4. k \in K
  BY <1>2, <1>3, SetInduction
<1> QED
  BY <1>1, <1>4 DEF K

\* A quotient and a remainder are the only ones.
LEMMA TheRemainder ==
  ASSUME NEW m \in Nat \ {0}, NEW u \in Int, NEW s \in Int, NEW v \in 0 .. (m - 1), u = m * s + v
  PROVE  u % m = v
<1>1. PICK x \in Int, y \in 0 .. (m - 1) : u = m * x + y /\ u % m = y
  <2>1. u \div m \in Int /\ u % m \in 0 .. (m - 1) /\ u = m * (u \div m) + (u % m)
    OBVIOUS
  <2> QED
    BY <2>1
<1>2. ASSUME NEW a \in Int, NEW b \in Int, NEW c \in 0 .. (m - 1), NEW d \in 0 .. (m - 1),
             a < b, m * a + c = m * b + d
      PROVE  FALSE
  <2>1. PICK e \in Nat : b = a + 1 + e
    <3>1. b = a + 1 + (b - a - 1) /\ b - a - 1 \in Nat
      BY <1>2
    <3> QED
      BY <3>1
  <2>2. m * b = m * a + m + m * e
    BY <2>1
  <2>3. m * e \in Nat /\ m * a \in Int
    OBVIOUS
  <2> DEFINE me == m * e
             ma == m * a
             mb == m * b
  <2>4. mb = ma + m + me /\ me \in Nat /\ ma \in Int /\ ma + c = mb + d
    BY <1>2, <2>2, <2>3
  <2> HIDE DEF me, ma, mb
  <2> QED
    BY <2>4
<1>3. ~ (x < s) /\ ~ (s < x)
  BY <1>1, <1>2
<1>4. x = s
  BY <1>3
<1>5. m * s \in Int
  OBVIOUS
<1> DEFINE w == m * s
<1>6. u = w + v /\ u = w + y /\ w \in Int
  BY <1>1, <1>4, <1>5
<1> HIDE DEF w
<1>7. v = y
  BY <1>6
<1> QED
  BY <1>1, <1>7

\* The digits below one, and it.
LEMMA NextDigit ==
  ASSUME NEW a \in Nat \ {0}, NEW b \in Nat \ {0}, NEW u \in Nat
  PROVE  u % (b * a) = (u % a) + a * ((u \div a) % b)
<1>1. PICK q \in Nat, r \in 0 .. (a - 1) : q = u \div a /\ r = u % a /\ u = a * q + r
  <2>1. u \div a \in Nat /\ u % a \in 0 .. (a - 1) /\ u = a * (u \div a) + (u % a)
    OBVIOUS
  <2> QED
    BY <2>1
<1>2. PICK s \in Nat, t \in 0 .. (b - 1) : t = q % b /\ q = b * s + t
  <2>1. q \div b \in Nat /\ q % b \in 0 .. (b - 1) /\ q = b * (q \div b) + (q % b)
    OBVIOUS
  <2> QED
    BY <2>1
<1>3. b * a \in Nat \ {0} /\ a * t \in Nat
  OBVIOUS
<1>4. u = (b * a) * s + (a * t + r)
  <2>1. a * (b * s + t) = (b * a) * s + a * t
    OBVIOUS
  <2>2. a * q = a * (b * s + t)
    BY <1>2
  <2>3. a * q \in Nat /\ (b * a) * s \in Nat
    BY <1>3
  <2> DEFINE x == a * q
             y == (b * a) * s
             z == a * t
  <2>4. x = y + z /\ u = x + r /\ x \in Nat /\ y \in Nat /\ z \in Nat
    BY <1>1, <1>3, <2>1, <2>2, <2>3
  <2> HIDE DEF x, y, z
  <2>5. u = y + (z + r)
    BY <2>4
  <2> QED
    BY <2>5 DEF y, z
<1>5. a * t + r \in 0 .. (b * a - 1)
  <2>1. PICK d \in Nat : b = t + 1 + d
    <3>1. b = t + 1 + (b - t - 1) /\ b - t - 1 \in Nat
      OBVIOUS
    <3> QED
      BY <3>1
  <2>2. b * a = a * t + a + a * d /\ a * d \in Nat
    BY <2>1
  <2> DEFINE x == b * a
             y == a * t
             z == a * d
  <2>3. x = y + a + z /\ z \in Nat /\ y \in Nat
    BY <1>3, <2>2
  <2> HIDE DEF x, y, z
  <2>4. y + r \in 0 .. (x - 1)
    BY <2>3
  <2> QED
    BY <2>4 DEF x, y
<1> DEFINE m == b * a
           v == a * t + r
<1>6. m \in Nat \ {0} /\ v \in 0 .. (m - 1) /\ u = m * s + v
  BY <1>3, <1>4, <1>5
<1> HIDE DEF m, v
<1>7. u % m = v
  BY <1>6, TheRemainder
<1>8. u % (b * a) = a * t + r
  BY <1>7 DEF m, v
<1> QED
  BY <1>1, <1>2, <1>3, <1>8

IsWidth(w) == w.bytes \in Nat /\ w.signed \in BOOLEAN /\ w.big \in BOOLEAN

\* The bytes of a number, lowest first.
DigitsOf(n, w) == [i \in 1 .. w.bytes |-> ((n % Capacity(w)) \div Power(i - 1)) % Base]

LEMMA DigitsAreBytes ==
  ASSUME NEW n \in Int, NEW w, IsWidth(w)
  PROVE  /\ Capacity(w) \in Nat \ {0} /\ n % Capacity(w) \in 0 .. (Capacity(w) - 1)
         /\ DigitsOf(n, w) \in [1 .. w.bytes -> Byte] /\ DigitsOf(n, w) \in Seq(Byte)
         /\ Len(DigitsOf(n, w)) = w.bytes
<1>1. Capacity(w) \in Nat \ {0}
  BY PowerIsPositive DEF Capacity, IsWidth
<1> DEFINE u == n % Capacity(w)
<1>2. u \in 0 .. (Capacity(w) - 1)
  BY <1>1
<1>3. ASSUME NEW i \in 1 .. w.bytes PROVE (u \div Power(i - 1)) % Base \in Byte
  <2>1. Power(i - 1) \in Nat \ {0}
    BY PowerIsPositive DEF IsWidth
  <2>2. u \in Nat
    BY <1>1, <1>2
  <2> HIDE DEF u
  <2>3. u \div Power(i - 1) \in Nat
    BY <2>1, <2>2
  <2> QED
    BY <2>3, BaseAssumption DEF Byte
<1>4. DigitsOf(n, w) = [i \in 1 .. w.bytes |-> (u \div Power(i - 1)) % Base]
  BY DEF DigitsOf
<1> HIDE DEF u
<1>5. DigitsOf(n, w) \in [1 .. w.bytes -> Byte]
  BY <1>3, <1>4
<1>6. w.bytes \in Nat
  BY DEF IsWidth
<1> HIDE DEF DigitsOf
<1>7. DigitsOf(n, w) \in Seq(Byte) /\ Len(DigitsOf(n, w)) = w.bytes
  BY <1>5, <1>6
<1> QED
  BY <1>1, <1>2, <1>5, <1>7 DEF u

\* Turning the bytes round twice leaves them as they were.
LEMMA OrderedTwice ==
  ASSUME NEW b \in Seq(Byte), NEW w, IsWidth(w)
  PROVE  Ordered(b, w) \in Seq(Byte) /\ Len(Ordered(b, w)) = Len(b) /\ Ordered(Ordered(b, w), w) = b
<1>1. CASE ~ w.big
  BY <1>1 DEF Ordered
<1>2. CASE w.big
  <2> DEFINE c == Reverse(b)
  <2>1. c = [i \in 1 .. Len(b) |-> b[(Len(b) - i) + 1]]
    BY DEF Reverse
  <2>2. \A i \in 1 .. Len(b) : (Len(b) - i) + 1 \in 1 .. Len(b) /\ (Len(b) - ((Len(b) - i) + 1)) + 1 = i
    OBVIOUS
  <2>3. \A i \in 1 .. Len(b) : b[(Len(b) - i) + 1] \in Byte
    BY <2>2
  <2>4. c \in Seq(Byte) /\ Len(c) = Len(b)
    BY <2>1, <2>3
  <2>5. Reverse(c) = [i \in 1 .. Len(c) |-> c[(Len(c) - i) + 1]]
    BY DEF Reverse
  <2>6. \A i \in 1 .. Len(b) : c[(Len(b) - i) + 1] = b[i]
    BY <2>1, <2>2
  <2> HIDE DEF c
  <2>7. Reverse(c) = [i \in 1 .. Len(b) |-> b[i]]
    BY <2>4, <2>5, <2>6
  <2>8. Reverse(c) = b
    BY <2>7
  <2> QED
    BY <1>2, <2>4, <2>8 DEF Ordered, c
<1> QED
  BY <1>1, <1>2

\* What the first digits come to, for each number of them.
Sums(f, b, d) == f = [k \in 0 .. d |-> IF k = 0 THEN 0 ELSE f[k - 1] + Power(k - 1) * b[k]]

LEMMA SumsExist ==
  ASSUME NEW d \in Nat, NEW b \in [1 .. d -> Byte]
  PROVE  \E f : Sums(f, b, d)
<1> DEFINE digit == [k \in Nat |-> IF k + 1 \in 1 .. d THEN b[k + 1] ELSE 0]
           step == [x \in Nat \X Nat |-> x[2] + Power(x[1]) * digit[x[1]]]
<1>1. \A k \in Nat : digit[k] \in Nat
  BY BaseAssumption DEF Byte
<1>2. \A k \in 1 .. d : k - 1 \in Nat /\ digit[k - 1] = b[k]
  OBVIOUS
<1> HIDE DEF digit
<1>3. \A j, x \in Nat : x + Power(j) * digit[j] \in Nat
  <2> SUFFICES ASSUME NEW j \in Nat, NEW x \in Nat PROVE x + Power(j) * digit[j] \in Nat
    OBVIOUS
  <2>1. Power(j) \in Nat /\ digit[j] \in Nat
    BY <1>1, PowerIsPositive
  <2> QED
    BY <2>1
<1>4. step \in [Nat \X Nat -> Nat]
  <2> SUFFICES ASSUME NEW x \in Nat \X Nat PROVE x[2] + Power(x[1]) * digit[x[1]] \in Nat
    OBVIOUS
  <2> QED
    BY <1>3
<1>5. \A j, x \in Nat : step[<<j, x>>] = x + Power(j) * digit[j]
  OBVIOUS
<1> HIDE DEF step
<1>6. PICK f \in [0 .. d -> Nat] : Unfolds(f, d, 0, step)
  BY <1>4, UnfoldingsExist
<1>7. ASSUME NEW k \in 0 .. d PROVE f[k] = IF k = 0 THEN 0 ELSE f[k - 1] + Power(k - 1) * b[k]
  <2>1. CASE k = 0
    BY <1>6, <2>1 DEF Unfolds
  <2>2. CASE k # 0
    <3>1. k - 1 \in 0 .. (d - 1) /\ (k - 1) + 1 = k /\ k - 1 \in Nat /\ f[k - 1] \in Nat /\ k \in 1 .. d
      BY <2>2
    <3>2. f[(k - 1) + 1] = step[<<k - 1, f[k - 1]>>]
      BY <1>6, <3>1 DEF Unfolds
    <3>3. step[<<k - 1, f[k - 1]>>] = f[k - 1] + Power(k - 1) * digit[k - 1]
      BY <1>5, <3>1
    <3> QED
      BY <1>2, <2>2, <3>1, <3>2, <3>3
  <2> QED
    BY <2>1, <2>2
<1>8. f = [k \in 0 .. d |-> IF k = 0 THEN 0 ELSE f[k - 1] + Power(k - 1) * b[k]]
  BY <1>7
<1> QED
  BY <1>8 DEF Sums

\* The first k digits of u are what is left of it by the k-th power.
LEMMA SumsAre ==
  ASSUME NEW d \in Nat, NEW u \in Nat, NEW b, NEW f, Sums(f, b, d),
         \A i \in 1 .. d : b[i] = (u \div Power(i - 1)) % Base
  PROVE  f[d] = u % Power(d)
<1> DEFINE K == {k \in Nat : k <= d => f[k] = u % Power(k)}
<1>1. 0 \in K
  <2>1. f[0] = 0
    BY DEF Sums
  <2>2. u % 1 = 0
    OBVIOUS
  <2> QED
    BY <2>1, <2>2, ByteCapacity
<1>2. ASSUME NEW k \in Nat, k \in K PROVE k + 1 \in K
  <2> SUFFICES ASSUME k + 1 <= d PROVE f[k + 1] = u % Power(k + 1)
    OBVIOUS
  <2>1. k + 1 \in 0 .. d /\ k + 1 \in 1 .. d /\ k + 1 # 0 /\ (k + 1) - 1 = k
    OBVIOUS
  <2>2. f[k + 1] = f[k] + Power(k) * b[k + 1]
    BY <2>1 DEF Sums
  <2>3. b[k + 1] = (u \div Power(k)) % Base
    BY <2>1
  <2>4. f[k] = u % Power(k)
    BY <1>2
  <2>5. Power(k) \in Nat \ {0} /\ Power(k + 1) = Base * Power(k) /\ Base \in Nat \ {0}
    BY PowerIsPositive, BaseAssumption
  <2>6. u % (Base * Power(k)) = (u % Power(k)) + Power(k) * ((u \div Power(k)) % Base)
    BY <2>5, NextDigit
  <2> QED
    BY <2>2, <2>3, <2>4, <2>5, <2>6
<1> HIDE DEF K
<1>3. d \in K
  BY <1>1, <1>2, SetInduction
<1> QED
  BY <1>3 DEF K

LEMMA NumberOfDigits ==
  ASSUME NEW n \in Int, NEW w, IsWidth(w)
  PROVE  Number(WriteNumber(n, w), w) = Cast(n, w)
<1> DEFINE b == DigitsOf(n, w)
           d == w.bytes
           u == n % Capacity(w)
           F(f) == [k \in 0 .. d |-> IF k = 0 THEN 0 ELSE f[k - 1] + Power(k - 1) * Ordered(WriteNumber(n, w), w)[k]]
           lowest == CHOOSE f : f = F(f)
<1>1. WriteNumber(n, w) = Ordered(b, w)
  BY DEF WriteNumber, DigitsOf
<1>2. Ordered(WriteNumber(n, w), w) = b
  BY <1>1, OrderedTwice, DigitsAreBytes
<1>3. Number(WriteNumber(n, w), w) = Cast(lowest[d], w)
  BY DEF Number
<1>4. \A i \in 1 .. d : b[i] = (u \div Power(i - 1)) % Base
  BY DEF DigitsOf
<1>5. d \in Nat /\ b \in [1 .. d -> Byte] /\ Capacity(w) \in Nat \ {0} /\ u \in 0 .. (Capacity(w) - 1)
  BY DigitsAreBytes DEF IsWidth
<1>6. Capacity(w) = Power(d)
  BY DEF Capacity
<1> HIDE DEF b, d, u
<1>7. lowest = CHOOSE f : Sums(f, b, d)
  BY <1>2 DEF Sums
<1> HIDE DEF lowest
<1>8. Sums(lowest, b, d)
  BY <1>5, <1>7, SumsExist
<1>9. lowest[d] = u % Power(d)
  BY <1>4, <1>5, <1>8, SumsAre
<1>10. u % Capacity(w) = u
  <2>1. u = Capacity(w) * 0 + u /\ u \in Int /\ 0 \in Int
    BY <1>5
  <2> QED
    BY <1>5, <2>1, TheRemainder
<1>11. lowest[d] = u
  BY <1>6, <1>9, <1>10
<1>12. Cast(u, w) = Cast(n, w)
  BY <1>10 DEF Cast, u
<1> QED
  BY <1>3, <1>11, <1>12

\* A number that a width has.
InRange(n, w) ==
  IF w.signed THEN 0 - Capacity(w) <= 2 * n /\ 2 * n < Capacity(w) ELSE 0 <= n /\ n < Capacity(w)

LEMMA CastKeeps ==
  ASSUME NEW n \in Int, NEW w, IsWidth(w), InRange(n, w)
  PROVE  Cast(n, w) = n
<1> DEFINE c == Capacity(w)
<1>1. c \in Nat \ {0}
  BY DigitsAreBytes
<1>2. c = Capacity(w) /\ w.signed \in BOOLEAN
  BY DEF IsWidth
<1> HIDE DEF c
<1>3. CASE n >= 0
  <2>1. n = c * 0 + n /\ n \in 0 .. (c - 1) /\ 0 \in Int
    BY <1>1, <1>2, <1>3 DEF InRange
  <2>2. n % c = n
    BY <1>1, <2>1, TheRemainder
  <2> QED
    BY <1>1, <1>2, <1>3, <2>2 DEF Cast, InRange
<1>4. CASE n < 0
  <2>1. n = c * (0 - 1) + (n + c) /\ n + c \in 0 .. (c - 1) /\ 0 - 1 \in Int
    BY <1>1, <1>2, <1>4 DEF InRange
  <2>2. n % c = n + c
    BY <1>1, <2>1, TheRemainder
  <2> QED
    BY <1>1, <1>2, <1>4, <2>2 DEF Cast, InRange
<1> QED
  BY <1>3, <1>4

\* Whatever width and byte order stream.hpp writes a number in, its reader
\* makes of these bytes, wherever they stand, the number cast to that width,
\* and stops behind them; and it is the number itself if the width has it.
THEOREM NumbersComeBack ==
  ASSUME NEW n \in Int, NEW w, IsWidth(w), NEW f \in Seq(Byte), NEW p \in Nat, NEW v,
         p + w.bytes <= Len(f), SubSeq(f, p + 1, p + w.bytes) = WriteNumber(n, w)
  PROVE  /\ ReadNumber(State("ok", p, v), f, w) = State("ok", p + w.bytes, Cast(n, w))
         /\ InRange(n, w) => Cast(n, w) = n
<1>1. InRange(n, w) => Cast(n, w) = n
  BY CastKeeps
<1> DEFINE r == State("ok", p, v)
           x == Number(WriteNumber(n, w), w)
<1>2. x = Cast(n, w)
  BY NumberOfDigits
<1>3. r = [status |-> "ok", pos |-> p, value |-> v] /\ r.pos = p
  BY DEF State
<1>4. ~ (r.pos + w.bytes > Len(f))
  BY <1>3 DEF IsWidth
<1> HIDE DEF r, x
<1>5. ReadNumber(r, f, w) = [r EXCEPT !.pos = p + w.bytes, !.value = x]
  BY <1>3, <1>4 DEF ReadNumber, x
<1>6. ReadNumber(r, f, w) = [status |-> "ok", pos |-> p + w.bytes, value |-> x]
  BY <1>3, <1>5
<1> QED
  BY <1>1, <1>2, <1>6 DEF r, State
=============================================================================
