---------------------------- MODULE Stream_proofs ----------------------------
(***************************************************************************)
(* Stream: the base-128 forms are read back as they were written, for      *)
(* every width of the integer, every size of the bitset and every value.   *)
(***************************************************************************)
EXTENDS Stream, SequenceTheorems, TLAPS

-----------------------------------------------------------------------------
(* Words.                                                                  *)

\* What is left of a word after n groups.
From(w, n) == {b - 7 * n : b \in {c \in w : c >= 7 * n}}

LEMMA LowFrom ==
  ASSUME NEW w \in SUBSET Nat, NEW n \in Nat
  PROVE  Low(From(w, n)) = {k \in 0..6 : 7 * n + k \in w}
<1>1. ASSUME NEW k \in Low(From(w, n)) PROVE k \in 0..6 /\ 7 * n + k \in w
  <2>1. PICK b \in w : b >= 7 * n /\ k = b - 7 * n
    BY <1>1 DEF Low, From
  <2>2. k \in 0..6 /\ 7 * n + k = b
    BY <1>1, <2>1 DEF Low
  <2> QED BY <2>1, <2>2
<1>2. ASSUME NEW k \in 0..6, 7 * n + k \in w PROVE k \in Low(From(w, n))
  <2>1. 7 * n + k >= 7 * n /\ (7 * n + k) - 7 * n = k
    OBVIOUS
  <2> QED BY <1>2, <2>1 DEF Low, From
<1> QED BY <1>1, <1>2

LEMMA ShiftFrom ==
  ASSUME NEW w \in SUBSET Nat, NEW n \in Nat
  PROVE  Shift(From(w, n)) = From(w, n + 1)
<1>1. ASSUME NEW x \in Shift(From(w, n)) PROVE x \in From(w, n + 1)
  <2>1. PICK c \in From(w, n) : c >= 7 /\ x = c - 7
    BY <1>1 DEF Shift
  <2>2. PICK b \in w : b >= 7 * n /\ c = b - 7 * n
    BY <2>1 DEF From
  <2>3. b >= 7 * (n + 1) /\ x = b - 7 * (n + 1)
    BY <2>1, <2>2
  <2> QED BY <2>3 DEF From
<1>2. ASSUME NEW x \in From(w, n + 1) PROVE x \in Shift(From(w, n))
  <2>1. PICK b \in w : b >= 7 * (n + 1) /\ x = b - 7 * (n + 1)
    BY <1>2 DEF From
  <2>2. b >= 7 * n /\ b - 7 * n >= 7 /\ x = (b - 7 * n) - 7
    BY <2>1
  <2>3. b - 7 * n \in From(w, n)
    BY <2>2 DEF From
  <2> QED BY <2>2, <2>3 DEF Shift
<1> QED BY <1>1, <1>2

LEMMA FromEmpty ==
  ASSUME NEW w, NEW n \in Nat
  PROVE  From(w, n) # {} <=> \E b \in w : b >= 7 * n
BY DEF From

LEMMA FromStart ==
  ASSUME NEW w \in SUBSET Nat PROVE From(w, 0) = w
<1>1. ASSUME NEW x \in w PROVE x \in From(w, 0)
  <2>1. x >= 7 * 0 /\ x - 7 * 0 = x
    OBVIOUS
  <2> QED BY <2>1 DEF From
<1>2. ASSUME NEW x \in From(w, 0) PROVE x \in w
  <2>1. PICK b \in w : b >= 7 * 0 /\ x = b - 7 * 0
    BY <1>2 DEF From
  <2> QED BY <2>1
<1> QED BY <1>1, <1>2

\* The zigzag form keeps to the width and is undone on the other side.
LEMMA DoubledIn ==
  ASSUME NEW w \in SUBSET (0..Bits-1)
  PROVE  Doubled(w) \subseteq 0..Bits-1 /\ 0 \notin Doubled(w)
<1>1. ASSUME NEW x \in Doubled(w) PROVE x \in 0..Bits-1 /\ x # 0
  <2>1. PICK b \in w \ {Bits-1} : x = b + 1
    BY <1>1 DEF Doubled
  <2>2. b \in 0..Bits-1 /\ b # Bits-1
    BY <2>1
  <2> QED BY <2>1, <2>2, SizesAssumption
<1> QED BY <1>1

LEMMA HalvedIn ==
  ASSUME NEW u \in SUBSET (0..Bits-1)
  PROVE  Halved(u) \subseteq 0..Bits-1 /\ Bits-1 \notin Halved(u)
<1>1. ASSUME NEW x \in Halved(u) PROVE x \in 0..Bits-1 /\ x # Bits-1
  <2>1. PICK b \in u \ {0} : x = b - 1
    BY <1>1 DEF Halved
  <2>2. b \in 0..Bits-1 /\ b # 0
    BY <2>1
  <2> QED BY <2>1, <2>2, SizesAssumption
<1> QED BY <1>1

LEMMA ZigZagIn ==
  ASSUME NEW w \in SUBSET (0..Bits-1)
  PROVE  ZigZag(w) \subseteq 0..Bits-1
BY DoubledIn DEF ZigZag

LEMMA UnZigZagIn ==
  ASSUME NEW u \in SUBSET (0..Bits-1)
  PROVE  UnZigZag(u) \subseteq 0..Bits-1
BY HalvedIn DEF UnZigZag

LEMMA ZigZagUndone ==
  ASSUME NEW w \in SUBSET (0..Bits-1)
  PROVE  UnZigZag(ZigZag(w)) = w
<1>b. Bits \in Nat \ {0}
  BY SizesAssumption
<1>1. CASE Bits-1 \notin w
  <2>1. ZigZag(w) = Doubled(w) /\ 0 \notin Doubled(w)
    BY <1>1, DoubledIn DEF ZigZag
  <2>2. UnZigZag(ZigZag(w)) = Halved(Doubled(w))
    BY <2>1 DEF UnZigZag
  <2>3. ASSUME NEW x \in w PROVE x \in Halved(Doubled(w))
    <3>1. x + 1 \in Doubled(w) \ {0} /\ (x + 1) - 1 = x
      BY <1>1, <1>b DEF Doubled
    <3> QED BY <3>1 DEF Halved
  <2>4. ASSUME NEW x \in Halved(Doubled(w)) PROVE x \in w
    <3>1. PICK c \in Doubled(w) : x = c - 1
      BY <2>4 DEF Halved
    <3>2. PICK b \in w : c = b + 1
      BY <3>1 DEF Doubled
    <3> QED BY <1>b, <3>1, <3>2
  <2> QED BY <2>2, <2>3, <2>4
<1>2. CASE Bits-1 \in w
  <2>1. ZigZag(w) = (0..Bits-1) \ Doubled(w) /\ 0 \in ZigZag(w)
    BY <1>b, <1>2, DoubledIn DEF ZigZag
  <2>2. UnZigZag(ZigZag(w)) = (0..Bits-1) \ Halved(ZigZag(w))
    BY <2>1 DEF UnZigZag
  <2>3. ASSUME NEW x \in 0..Bits-1 PROVE x \in Halved(ZigZag(w)) <=> x \notin w
    <3>1. x \in Halved(ZigZag(w)) <=> x + 1 \in ZigZag(w)
      <4>1. ASSUME x + 1 \in ZigZag(w) PROVE x \in Halved(ZigZag(w))
        <5>1. x + 1 \in ZigZag(w) \ {0} /\ (x + 1) - 1 = x
          BY <4>1, <1>b
        <5> QED BY <5>1 DEF Halved
      <4>2. ASSUME x \in Halved(ZigZag(w)) PROVE x + 1 \in ZigZag(w)
        <5>1. PICK c \in ZigZag(w) \ {0} : x = c - 1
          BY <4>2 DEF Halved
        <5>2. c \in 0..Bits-1
          BY ZigZagIn, <5>1
        <5>3. c = x + 1
          BY <1>b, <5>1, <5>2
        <5> QED BY <5>1, <5>3
      <4> QED BY <4>1, <4>2
    <3>2. x + 1 \in Doubled(w) <=> x \in w /\ x # Bits-1
      <4>1. ASSUME x + 1 \in Doubled(w) PROVE x \in w /\ x # Bits-1
        <5>1. PICK b \in w \ {Bits-1} : x + 1 = b + 1
          BY <4>1 DEF Doubled
        <5>2. x = b
          BY <1>b, <5>1
        <5> QED BY <5>1, <5>2
      <4>2. ASSUME x \in w, x # Bits-1 PROVE x + 1 \in Doubled(w)
        BY <4>2 DEF Doubled
      <4> QED BY <4>1, <4>2
    <3>3. CASE x = Bits-1
      <4>1. x + 1 \notin 0..Bits-1
        BY <1>b, <3>3
      <4> QED BY <1>2, <2>1, <3>1, <3>3, <4>1
    <3>4. CASE x # Bits-1
      <4>1. x + 1 \in 0..Bits-1
        BY <1>b, <3>4
      <4> QED BY <2>1, <3>1, <3>2, <3>4, <4>1
    <3> QED BY <3>3, <3>4
  <2> QED BY <2>2, <2>3
<1> QED BY <1>1, <1>2

-----------------------------------------------------------------------------
(* Types.                                                                  *)

LEMMA WidthNat == Width \in Nat \ {0} /\ MaxBytes \in Nat \ {0}
                  /\ 7 * MaxBytes >= Width /\ 7 * (MaxBytes - 1) < Width
<1>1. Width \in Nat \ {0}
  BY SizesAssumption DEF Width
<1> QED BY <1>1 DEF MaxBytes

LEMMA TypesStart == Init => TypeOK
<1> SUFFICES ASSUME Init PROVE TypeOK
  OBVIOUS
<1>w. wire \in Seq(Byte) /\ Len(wire) \in Nat
  BY BytesAssumption DEF Init, InitWrite, InitForeign
<1>1. start \in Nat /\ sent \in Nat /\ pos \in Nat /\ g \in Nat /\ top \in 0..Size
      /\ acc = {} /\ status = "none" /\ sent = Len(wire)
  BY <1>w, SizesAssumption DEF Init
<1>2. CASE InitWrite /\ kind = "bitset"
  <2>1. Width = Size /\ value \subseteq 0..(Size-1) /\ bits = {} /\ fate = "unsent" /\ phase = "scan"
    BY <1>2, ValuesAssumption DEF InitWrite, Width
  <2> QED BY <1>w, <1>1, <1>2, <2>1 DEF TypeOK, Kinds
<1>3. CASE InitWrite /\ kind # "bitset"
  <2>1. Width = Bits /\ value \subseteq 0..Bits-1 /\ kind \in Kinds
        /\ bits = Dumped /\ fate = "unsent" /\ phase = "write"
    BY <1>3, ValuesAssumption DEF InitWrite, Width, Kinds
  <2>2. Dumped \subseteq 0..Bits-1
    BY <2>1, ZigZagIn DEF Dumped
  <2> QED BY <1>w, <1>1, <2>1, <2>2 DEF TypeOK
<1>4. CASE InitForeign
  <2>1. kind \in Kinds /\ value = {} /\ bits = {} /\ fate = "foreign" /\ phase = "read"
    BY <1>4 DEF InitForeign
  <2> QED BY <1>w, <1>1, <2>1 DEF TypeOK
<1> QED BY <1>2, <1>3, <1>4 DEF Init

LEMMA ShiftIn ==
  ASSUME NEW w \in SUBSET (0..Bits-1) PROVE Shift(w) \subseteq 0..Bits-1
<1>1. ASSUME NEW x \in Shift(w) PROVE x \in 0..Bits-1
  <2>1. PICK c \in w : c >= 7 /\ x = c - 7
    BY <1>1 DEF Shift
  <2>2. c \in 0..Bits-1
    BY <2>1
  <2> QED BY <2>1, <2>2, SizesAssumption
<1> QED BY <1>1

\* A byte that is there is a byte, and its bits have places.
LEMMA CurrentIn ==
  ASSUME TypeOK, InBounds
  PROVE  /\ Current \in Byte /\ Current.bits \subseteq 0..6 /\ Current.more \in BOOLEAN
         /\ Placed \subseteq Nat
<1>1. Current \in Byte
  BY DEF TypeOK, InBounds, Current
<1>2. Current.bits \subseteq 0..6 /\ Current.more \in BOOLEAN
  BY <1>1 DEF Byte
<1> QED BY <1>1, <1>2 DEF Placed, TypeOK

LEMMA TypesStep == TypeOK /\ [Next]_vars => TypeOK'
<1> SUFFICES ASSUME TypeOK, [Next]_vars PROVE TypeOK'
  OBVIOUS
<1>w. Width \in Nat \ {0} /\ MaxBytes \in Nat
  BY WidthNat
<1>k. ASSUME UNCHANGED kind PROVE Width' = Width
  BY <1>k DEF Width
<1>1. CASE WriteGroup
  <2>1. [bits |-> Low(bits), more |-> Shift(bits) # {}] \in Byte
    BY DEF Byte, Low
  <2>2. wire' \in Seq(Byte) /\ Len(wire') \in Nat
    BY <1>1, <2>1 DEF WriteGroup, TypeOK
  <2>3. Shift(bits) \subseteq 0..Bits-1
    BY ShiftIn DEF TypeOK
  <2> QED BY <1>1, <1>k, <2>2, <2>3 DEF WriteGroup, TypeOK
<1>2. CASE SkipZero
  <2>1. top' \in 0..Size
    BY <1>2, SizesAssumption DEF SkipZero, TypeOK
  <2> QED BY <1>2, <1>k, <2>1 DEF SkipZero, TypeOK
<1>3. CASE BeginDump
  BY <1>3, <1>k DEF BeginDump, TypeOK
<1>4. CASE DumpGroup
  <2>1. [bits |-> {k \in 0..6 : g * 7 + k < Size /\ g * 7 + k \in value}, more |-> g + 1 < Groups] \in Byte
    BY DEF Byte
  <2>2. wire' \in Seq(Byte) /\ Len(wire') \in Nat
    BY <1>4, <2>1 DEF DumpGroup, TypeOK
  <2> QED BY <1>4, <1>k, <2>2 DEF DumpGroup, TypeOK
<1>5. CASE Arrive
  <2>1. PICK after \in Frames : wire' = wire \o after
    BY <1>5 DEF Arrive
  <2>2. wire' \in Seq(Byte)
    BY <2>1, BytesAssumption DEF TypeOK
  <2> QED BY <1>5, <1>k, <2>2 DEF Arrive, Deliver, TypeOK
<1>6. CASE Cut
  <2>1. PICK n \in start .. (sent - 1) : wire' = SubSeq(wire, 1, n)
    BY <1>6 DEF Cut
  <2>2. wire' \in Seq(Byte)
    <3>1. n \in Nat /\ n <= Len(wire)
      BY <1>6 DEF TypeOK, Cut
    <3> QED BY <2>1, <3>1 DEF TypeOK
  <2> QED BY <1>6, <1>k, <2>2 DEF Cut, Deliver, TypeOK
<1>7. CASE ReadPastEnd
  BY <1>7, <1>k DEF ReadPastEnd, Return, writer, TypeOK
<1>8. CASE ReadGroup
  <2>1. InBounds /\ kind # "bitset"
    BY <1>8 DEF ReadGroup
  <2>2. acc' \subseteq 0..(Width-1)
    BY <1>8, <2>1 DEF ReadGroup, TypeOK, Width
  <2>3. g' \in Nat
    BY <1>8 DEF ReadGroup, TypeOK
  <2>4. (phase' = "read" /\ status' = "none") \/ (phase' = "done" /\ status' = "ok")
    BY <1>8 DEF ReadGroup, Return, TypeOK
  <2> QED BY <1>8, <1>k, <2>2, <2>3, <2>4 DEF ReadGroup, writer, TypeOK
<1>9. CASE ReadTooLong
  BY <1>9, <1>k DEF ReadTooLong, Return, writer, TypeOK
<1>10. CASE RefuseBit
  BY <1>10, <1>k DEF RefuseBit, Return, writer, TypeOK
<1>11. CASE LoadGroup
  <2>1. acc' \subseteq 0..(Width-1)
    BY <1>11 DEF LoadGroup, TypeOK, Width
  <2>2. g' \in Nat
    BY <1>11 DEF LoadGroup, TypeOK
  <2>3. (phase' = "read" /\ status' = "none") \/ (phase' = "done" /\ status' \in {"ok", "value_too_large"})
    BY <1>11 DEF LoadGroup, Return, TypeOK
  <2> QED BY <1>11, <1>k, <2>1, <2>2, <2>3 DEF LoadGroup, writer, TypeOK
<1>12. CASE Done \/ UNCHANGED vars
  BY <1>12, <1>k DEF Done, vars, TypeOK
<1> QED
  BY <1>1, <1>2, <1>3, <1>4, <1>5, <1>6, <1>7, <1>8, <1>9, <1>10, <1>11, <1>12 DEF Next

\* Every reachable state is well typed: in particular what a reader has put
\* together never leaves the width (BinaryReader::readVarInt, Serializer<std::bitset<N>>).
THEOREM TypeCorrect == Spec => []TypeOK
BY TypesStart, TypesStep, PTL DEF Spec

-----------------------------------------------------------------------------
(* Writing.                                                                *)

LEMMA DumpedIn == TypeOK => Dumped \in SUBSET Nat /\ Dumped \subseteq 0..(Width-1)
<1> SUFFICES ASSUME TypeOK PROVE Dumped \subseteq 0..(Width-1)
  BY WidthNat
<1>1. CASE kind = "signed"
  BY <1>1, ZigZagIn DEF TypeOK, Width, Dumped
<1>2. CASE kind # "signed"
  BY <1>2 DEF TypeOK, Dumped
<1> QED BY <1>1, <1>2

LEMMA WriterStarts == Init => StreamInv
<1> SUFFICES ASSUME Init PROVE StreamInv
  OBVIOUS
<1>t. TypeOK
  BY TypesStart
<1>d. /\ g = 0 /\ pos = 0 /\ acc = {} /\ status = "none" /\ sent = Len(wire)
      /\ Len(wire) \in Nat
  BY <1>t DEF Init, TypeOK
<1>1. CASE InitWrite
  <2>1. start = Len(wire) /\ fate = "unsent" /\ phase \in {"scan", "write"}
    BY <1>1 DEF Init, InitWrite
  <2>2. ASSUME phase = "scan" PROVE kind = "bitset" /\ \A b \in value : b < top
    <3>1. kind = "bitset" /\ top = Size
      BY <1>1, <2>2 DEF Init, InitWrite
    <3> QED BY <1>t, <3>1, SizesAssumption DEF TypeOK, Width
  <2>3. ASSUME phase = "write"
        PROVE  kind # "bitset" /\ bits = {b - 7 * 0 : b \in {c \in Dumped : c >= 7 * 0}}
    <3>1. kind # "bitset" /\ bits = Dumped
      BY <1>1, <2>3 DEF InitWrite
    <3> QED BY <1>t, <3>1, DumpedIn, FromStart DEF From
  <2>4. WriterInv
    BY <1>d, <2>1, <2>2, <2>3 DEF WriterInv
  <2> QED BY <2>1, <2>4 DEF StreamInv, ArrivalInv, ReaderInv, ReadContract
<1>2. CASE InitForeign
  <2>1. start = 0 /\ fate = "foreign" /\ phase = "read"
    BY <1>2 DEF Init, InitForeign
  <2>2. WriterInv
    BY <1>d, <2>1 DEF WriterInv
  <2>3. Continued(wire, start, 0) /\ Denoted(wire, start, 0) = {}
    BY DEF Continued, Denoted
  <2>4. ReaderInv
    BY <1>d, <2>1, <2>3, WidthNat DEF ReaderInv
  <2> QED BY <2>1, <2>2, <2>4 DEF StreamInv, ArrivalInv, ReadContract
<1> QED BY <1>1, <1>2 DEF Init

\* A byte more, and the end when no bit is left.
LEMMA ByteWritten ==
  ASSUME TypeOK, WriterInv, phase = "write",
         NEW c \in Byte, wire' = Append(wire, c),
         c = Emitted(Dumped, Len(wire) - start)
  PROVE  LET n == Len(wire) - start
         IN  /\ n \in Nat
             /\ Len(wire') = start + n + 1
             /\ \A i \in 0..n : wire'[start + i + 1] = Emitted(Dumped, i)
             /\ n > 0 => \E b \in Dumped : b >= 7 * n
             /\ c.more <=> \E b \in Dumped : b >= 7 * (n + 1)
<1> DEFINE n == Len(wire) - start
<1>1. n \in Nat /\ Len(wire) = start + n
  BY DEF TypeOK, WriterInv
<1>2. \A i \in 0..(n - 1) : wire[start + i + 1] = Emitted(Dumped, i)
  BY DEF WriterInv
<1>3. Len(wire') = start + n + 1 /\ wire'[start + n + 1] = c
  BY <1>1 DEF TypeOK
<1>4. ASSUME NEW i \in 0..n PROVE wire'[start + i + 1] = Emitted(Dumped, i)
  <2>1. CASE i = n
    BY <1>3, <2>1
  <2>2. CASE i # n
    <3>1. i \in 0..(n - 1) /\ start + i + 1 \in 1..Len(wire)
      BY <1>1, <2>2 DEF TypeOK
    <3>2. wire'[start + i + 1] = wire[start + i + 1]
      BY <3>1 DEF TypeOK
    <3> QED BY <1>2, <3>1, <3>2
  <2> QED BY <2>1, <2>2
<1>5. c.more <=> \E b \in Dumped : b >= 7 * (n + 1)
  BY DEF Emitted
<1>6. n > 0 => \E b \in Dumped : b >= 7 * n
  BY DEF WriterInv
<1> QED BY <1>1, <1>3, <1>4, <1>5, <1>6

\* What a finished dump leaves in the buffer.
LEMMA DumpFinished ==
  ASSUME TypeOK, WriterInv, phase = "write", phase' = "sent",
         UNCHANGED <<kind, value, start, fate, acc>>, sent' = Len(wire'),
         NEW c \in Byte, wire' = Append(wire, c),
         c = Emitted(Dumped, Len(wire) - start), ~ c.more
  PROVE  StreamInv'
<1> DEFINE n == Len(wire) - start
<1>1. /\ n \in Nat /\ Len(wire') = start + n + 1
      /\ \A i \in 0..n : wire'[start + i + 1] = Emitted(Dumped, i)
      /\ n > 0 => \E b \in Dumped : b >= 7 * n
      /\ ~ \E b \in Dumped : b >= 7 * (n + 1)
  BY ByteWritten
<1>2. Dumped' = Dumped /\ Dumped \in SUBSET Nat
  BY DumpedIn DEF Dumped
<1>3. sent' - start' = n + 1 /\ start \in Nat /\ fate = "unsent" /\ acc = {}
  BY <1>1 DEF TypeOK, WriterInv
<1>4. WriterInv'
  BY <1>1, <1>3 DEF WriterInv
<1>5. \A b \in Dumped : b < 7 * (n + 1)
  BY <1>1, <1>2
<1>6. ArrivalInv'
  <2> DEFINE m == sent' - start'
  <2>1. m = n + 1 /\ m > 0 /\ m - 1 = n
    BY <1>1, <1>3
  <2>2. \A i \in 0..(m - 1) : wire'[start' + i + 1] = Emitted(Dumped', i)
    BY <1>1, <1>2, <2>1
  <2>3. (m > 1 => \E b \in Dumped' : b >= 7 * (m - 1)) /\ (\A b \in Dumped' : b < 7 * m)
    BY <1>1, <1>2, <1>5, <2>1
  <2>4. Len(wire') = sent' /\ fate' = "unsent"
    BY <1>3
  <2> HIDE DEF m
  <2> QED BY <2>1, <2>2, <2>3, <2>4 DEF ArrivalInv, m, Emitted
<1> QED BY <1>4, <1>6 DEF StreamInv, ReaderInv, ReadContract

LEMMA WrittenGroup ==
  ASSUME TypeOK, StreamInv, WriteGroup
  PROVE  StreamInv'
<1> DEFINE n == Len(wire) - start
           c == [bits |-> Low(bits), more |-> Shift(bits) # {}]
<1>1. phase = "write" /\ kind # "bitset" /\ WriterInv /\ fate = "unsent" /\ n \in Nat
  BY DEF WriteGroup, StreamInv, TypeOK, WriterInv
<1>2. bits = From(Dumped, n) /\ Dumped \in SUBSET Nat
  BY <1>1, DumpedIn DEF WriterInv, From
<1>3. Shift(bits) = From(Dumped, n + 1)
  BY <1>1, <1>2, ShiftFrom
<1>4. c = Emitted(Dumped, n)
  <2>1. Low(bits) = {k \in 0..6 : 7 * n + k \in Dumped}
    BY <1>1, <1>2, LowFrom
  <2>2. (Shift(bits) # {}) <=> \E b \in Dumped : b >= 7 * (n + 1)
    BY <1>1, <1>3, FromEmpty
  <2> QED BY <2>1, <2>2 DEF Emitted
<1>5. c \in Byte
  BY DEF Byte, Low
<1>6. CASE Shift(bits) = {}
  <2>1. ~ c.more /\ phase' = "sent" /\ wire' = Append(wire, c) /\ sent' = Len(wire')
        /\ UNCHANGED <<kind, value, start, fate, acc>>
    BY <1>6 DEF WriteGroup
  <2> QED BY <1>1, <1>4, <1>5, <2>1, DumpFinished
<1>7. CASE Shift(bits) # {}
  <2>1. wire' = Append(wire, c) /\ phase' = "write" /\ bits' = Shift(bits) /\ sent' = Len(wire')
        /\ UNCHANGED <<kind, value, start, fate, acc>>
    BY <1>7 DEF WriteGroup
  <2>2. /\ Len(wire') = start + n + 1
        /\ \A i \in 0..n : wire'[start + i + 1] = Emitted(Dumped, i)
        /\ \E b \in Dumped : b >= 7 * (n + 1)
    BY <1>1, <1>4, <1>5, <1>7, <2>1, ByteWritten
  <2>3. Dumped' = Dumped
    BY <2>1 DEF Dumped
  <2>4. bits' = {b - 7 * (n + 1) : b \in {e \in Dumped : e >= 7 * (n + 1)}}
    BY <1>3, <2>1 DEF From
  <2>5. WriterInv'
    <3> DEFINE m == Len(wire') - start'
    <3>1. m = n + 1 /\ m - 1 = n /\ m > 0 /\ start' <= Len(wire')
      BY <1>1, <2>1, <2>2 DEF TypeOK
    <3>2. \A i \in 0..(m - 1) : wire'[start' + i + 1] = Emitted(Dumped', i)
      BY <2>1, <2>2, <2>3, <3>1
    <3>3. (\E b \in Dumped' : b >= 7 * m) /\ bits' = {b - 7 * m : b \in {e \in Dumped' : e >= 7 * m}}
      BY <2>2, <2>3, <2>4, <3>1
    <3>4. kind' # "bitset" /\ fate' = "unsent" /\ acc' = {} /\ phase' = "write" /\ start' <= sent'
      BY <1>1, <2>1, <3>1 DEF WriterInv
    <3> HIDE DEF m
    <3> QED BY <3>1, <3>2, <3>3, <3>4 DEF WriterInv, m, Emitted
  <2> QED BY <1>1, <2>1, <2>5 DEF StreamInv, ArrivalInv, ReaderInv, ReadContract
<1> QED BY <1>6, <1>7

LEMMA WriterScans ==
  ASSUME TypeOK, StreamInv, SkipZero \/ BeginDump
  PROVE  StreamInv'
<1>1. /\ phase = "scan" /\ WriterInv /\ fate = "unsent" /\ kind = "bitset" /\ g = 0
      /\ UNCHANGED <<kind, value, wire, start, sent, fate, g, acc>>
      /\ phase' \in {"scan", "write"}
      /\ Len(wire) = start /\ start <= sent /\ acc = {} /\ \A b \in value : b < top
  BY DEF SkipZero, BeginDump, StreamInv, WriterInv, TypeOK
<1>2. value \subseteq 0..(Size-1) /\ top \in 0..Size /\ Size \in Nat
  BY <1>1, SizesAssumption DEF TypeOK, Width
<1>3. CASE SkipZero
  <2>1. phase' = "scan" /\ top' = top - 1 /\ top - 1 \notin value
    BY <1>1, <1>3 DEF SkipZero
  <2>2. \A b \in value : b < top - 1
    BY <1>1, <1>2, <2>1
  <2>3. WriterInv'
    BY <1>1, <2>1, <2>2 DEF WriterInv, TypeOK
  <2> QED BY <1>1, <2>1, <2>3 DEF StreamInv, ArrivalInv, ReaderInv, ReadContract
<1>4. CASE BeginDump
  <2>1. phase' = "write" /\ top' = top /\ (top > 0 => top - 1 \in value)
    BY <1>2, <1>4 DEF BeginDump
  <2>2. Len(wire') - start' = 0
    BY <1>1 DEF TypeOK
  <2>3. WriterInv'
    BY <1>1, <2>1, <2>2 DEF WriterInv, TypeOK
  <2> QED BY <1>1, <2>1, <2>3 DEF StreamInv, ArrivalInv, ReaderInv, ReadContract
<1> QED BY <1>3, <1>4

LEMMA DumpedGroup ==
  ASSUME TypeOK, StreamInv, DumpGroup
  PROVE  StreamInv'
<1> DEFINE n == Len(wire) - start
           c == [bits |-> {k \in 0..6 : g * 7 + k < Size /\ g * 7 + k \in value},
                 more |-> g + 1 < Groups]
<1>1. phase = "write" /\ kind = "bitset" /\ WriterInv /\ fate = "unsent" /\ n \in Nat
      /\ g = n /\ Dumped = value
  BY DEF DumpGroup, StreamInv, TypeOK, WriterInv, Dumped
<1>2. value \subseteq 0..(Size-1) /\ top \in 0..Size /\ Size \in Nat
  BY <1>1, SizesAssumption DEF TypeOK, Width
<1>3. (\A b \in value : b < top) /\ (top > 0 => top - 1 \in value)
  BY <1>1 DEF WriterInv
<1>4. (g + 1 < Groups) <=> \E b \in value : b >= 7 * (n + 1)
  <2>1. CASE top = 0
    <3>1. value = {} /\ Groups = 1
      BY <1>2, <1>3, <2>1 DEF Groups
    <3> QED BY <1>1, <3>1
  <2>2. CASE top > 0
    <3>1. Groups = (top + 6) \div 7
      BY <2>2 DEF Groups
    <3>2. (n + 1 < (top + 6) \div 7) <=> top - 1 >= 7 * (n + 1)
      BY <1>1, <1>2, <2>2
    <3>3. (\E b \in value : b >= 7 * (n + 1)) <=> top - 1 >= 7 * (n + 1)
      <4>1. ASSUME NEW b \in value, b >= 7 * (n + 1) PROVE top - 1 >= 7 * (n + 1)
        <5>1. b \in Nat /\ b < top
          BY <1>2, <1>3
        <5> QED BY <1>1, <1>2, <4>1, <5>1
      <4> QED BY <1>3, <2>2, <4>1
    <3> QED BY <1>1, <3>1, <3>2, <3>3
  <2> QED BY <1>2, <2>1, <2>2
<1>5. c = Emitted(Dumped, n)
  <2>1. {k \in 0..6 : g * 7 + k < Size /\ g * 7 + k \in value} = {k \in 0..6 : 7 * n + k \in value}
    <3> HIDE DEF n
    <3>1. ASSUME NEW k \in 0..6
          PROVE  (g * 7 + k < Size /\ g * 7 + k \in value) <=> 7 * n + k \in value
      <4>1. g * 7 + k = 7 * n + k
        BY <1>1
      <4>2. 7 * n + k \in value => 7 * n + k < Size
        BY <1>1, <1>2
      <4> QED BY <4>1, <4>2
    <3> QED BY <3>1
  <2>2. (g + 1 < Groups) <=> \E b \in Dumped : b >= 7 * (n + 1)
    BY <1>1, <1>4
  <2>3. {k \in 0..6 : 7 * n + k \in value} = {k \in 0..6 : 7 * n + k \in Dumped}
    BY <1>1
  <2>4. (g + 1 < Groups) \in BOOLEAN
    BY <1>1, <1>2 DEF Groups
  <2> QED BY <2>1, <2>2, <2>3, <2>4 DEF Emitted
<1>6. c \in Byte
  BY DEF Byte
<1>7. CASE ~ (g + 1 < Groups)
  <2>1. ~ c.more /\ phase' = "sent" /\ wire' = Append(wire, c) /\ sent' = Len(wire')
        /\ UNCHANGED <<kind, value, start, fate, acc>>
    BY <1>7 DEF DumpGroup
  <2> HIDE DEF c
  <2> QED BY <1>1, <1>5, <1>6, <2>1, DumpFinished
<1>8. CASE g + 1 < Groups
  <2>1. wire' = Append(wire, c) /\ phase' = "write" /\ g' = g + 1 /\ sent' = Len(wire') /\ c.more
        /\ UNCHANGED <<kind, value, start, fate, top, acc>>
    BY <1>8 DEF DumpGroup
  <2>2. /\ Len(wire') = start + n + 1
        /\ \A i \in 0..n : wire'[start + i + 1] = Emitted(Dumped, i)
        /\ \E b \in Dumped : b >= 7 * (n + 1)
    <3> HIDE DEF c
    <3> QED BY <1>1, <1>5, <1>6, <2>1, ByteWritten
  <2>3. Dumped' = Dumped
    BY <2>1 DEF Dumped
  <2>4. WriterInv'
    <3> HIDE DEF c
    <3> DEFINE m == Len(wire') - start'
    <3>1. m = n + 1 /\ m - 1 = n /\ m > 0 /\ start' <= Len(wire') /\ g' = m
      BY <1>1, <2>1, <2>2 DEF TypeOK
    <3>2. \A i \in 0..(m - 1) : wire'[start' + i + 1] = Emitted(Dumped', i)
      BY <2>1, <2>2, <2>3, <3>1
    <3>3. \E b \in Dumped' : b >= 7 * m
      BY <2>2, <2>3, <3>1
    <3>4. kind' = "bitset" /\ fate' = "unsent" /\ acc' = {} /\ phase' = "write" /\ start' <= sent'
          /\ (\A b \in value' : b < top') /\ (top' > 0 => top' - 1 \in value')
      BY <1>1, <1>3, <2>1, <3>1 DEF WriterInv
    <3> HIDE DEF m
    <3> QED BY <3>1, <3>2, <3>3, <3>4 DEF WriterInv, m, Emitted
  <2> QED BY <1>1, <2>1, <2>4 DEF StreamInv, ArrivalInv, ReaderInv, ReadContract
<1> QED BY <1>7, <1>8

LEMMA Delivered ==
  ASSUME TypeOK, StreamInv, Arrive \/ Cut
  PROVE  StreamInv'
<1> DEFINE n == sent - start
<1>1. /\ phase = "sent" /\ WriterInv /\ fate = "unsent" /\ ArrivalInv /\ acc = {}
      /\ UNCHANGED <<kind, value, start, sent, acc>>
      /\ phase' = "read" /\ pos' = start /\ g' = 0 /\ fate' \in {"whole", "cut"}
      /\ Len(wire) = sent
  BY DEF Arrive, Cut, Deliver, StreamInv, WriterInv, TypeOK
<1>2. /\ n > 0
      /\ n > 1 => \E b \in Dumped : b >= 7 * (n - 1)
      /\ \A b \in Dumped : b < 7 * n
      /\ \A i \in 0..(n - 1) : wire[start + i + 1] = Emitted(Dumped, i)
  BY <1>1 DEF ArrivalInv, TypeOK
<1>3. /\ start <= Len(wire')
      /\ \A j \in 1..sent : j <= Len(wire') => wire'[j] = wire[j]
      /\ fate' = "whole" => sent <= Len(wire')
      /\ fate' = "cut" => Len(wire') < sent
  <2>1. CASE Arrive
    <3>1. PICK after \in Frames : wire' = wire \o after
      BY <2>1 DEF Arrive
    <3>2. after \in Seq(Byte) /\ wire \in Seq(Byte) /\ fate' = "whole"
      BY <2>1, BytesAssumption DEF TypeOK, Arrive
    <3> QED BY <1>1, <1>2, <3>1, <3>2 DEF TypeOK
  <2>2. CASE Cut
    <3>1. PICK m \in start .. (sent - 1) : wire' = SubSeq(wire, 1, m)
      BY <2>2 DEF Cut
    <3>2. m \in Nat /\ m < Len(wire) /\ start <= m /\ wire \in Seq(Byte) /\ fate' = "cut"
      BY <1>1, <2>2 DEF TypeOK, Cut
    <3>3. Len(wire') = m /\ \A j \in 1..m : wire'[j] = wire[j]
      BY <3>1, <3>2
    <3> QED BY <1>1, <3>2, <3>3 DEF TypeOK
  <2> QED BY <2>1, <2>2
<1>4. Dumped' = Dumped
  BY <1>1 DEF Dumped
<1>5. WriterInv'
  BY <1>1, <1>3 DEF WriterInv
<1>6. ArrivalInv'
  <2>1. ASSUME NEW i \in 0..(n - 1), start + i + 1 <= Len(wire')
        PROVE  wire'[start + i + 1] = Emitted(Dumped, i)
    <3>1. start + i + 1 \in 1..sent
      BY DEF TypeOK
    <3> QED BY <1>2, <1>3, <2>1, <3>1
  <2>2. n = sent' - start'
    BY <1>1
  <2> HIDE DEF n
  <2> QED BY <1>1, <1>2, <1>3, <1>4, <2>1, <2>2 DEF ArrivalInv, Emitted
<1>7. ReaderInv'
  <2>1. Continued(wire, start, 0)' /\ Denoted(wire, start, 0)' = {}
    BY <1>1 DEF Continued, Denoted
  <2>2. MaxBytes' \in Nat \ {0} /\ Width' = Width
    BY <1>1, WidthNat DEF MaxBytes, Width
  <2> QED BY <1>1, <1>3, <2>1, <2>2 DEF ReaderInv, TypeOK
<1> QED BY <1>1, <1>5, <1>6, <1>7 DEF StreamInv, ReadContract

-----------------------------------------------------------------------------
(* Reading.                                                                *)

\* One byte more, read at the place of its group.
LEMMA ByteRead ==
  ASSUME TypeOK, StreamInv, phase = "read", InBounds
  PROVE  /\ g \in Nat /\ pos = start + g /\ pos + 1 <= Len(wire) /\ Current = wire[start + g + 1]
         /\ Continued(wire, start, g) /\ (Continued(wire, start, g + 1) <=> Current.more)
         /\ Denoted(wire, start, g + 1) = Denoted(wire, start, g) \cup Placed
<1>1. /\ g \in Nat /\ start \in Nat /\ pos = start + g /\ pos + 1 <= Len(wire)
      /\ Current = wire[start + g + 1] /\ Continued(wire, start, g)
  BY DEF StreamInv, ReaderInv, TypeOK, InBounds, Current
<1>2. Continued(wire, start, g + 1) <=> Current.more
  <2>1. ASSUME Current.more, NEW i \in 0..g PROVE wire[start + i + 1].more
    <3>1. CASE i = g
      BY <1>1, <2>1, <3>1
    <3>2. CASE i # g
      <4>1. i \in 0..(g - 1)
        BY <1>1, <3>2
      <4> QED BY <1>1, <4>1 DEF Continued
    <3> QED BY <3>1, <3>2
  <2>2. (g + 1) - 1 = g /\ g \in 0..g
    BY <1>1
  <2> QED BY <1>1, <2>1, <2>2 DEF Continued
<1>3. Current.bits \subseteq 0..6
  BY CurrentIn
<1>4. ASSUME NEW b \in Denoted(wire, start, g + 1) PROVE b \in Denoted(wire, start, g) \cup Placed
  <2>1. PICK i \in 0..g : \E k \in wire[start + i + 1].bits : b = 7 * i + k
    BY <1>1, <1>4 DEF Denoted
  <2>2. PICK k \in wire[start + i + 1].bits : b = 7 * i + k
    BY <2>1
  <2>3. CASE i = g
    BY <1>1, <2>2, <2>3 DEF Placed
  <2>4. CASE i # g
    <3>1. i \in 0..(g - 1) /\ start + i + 1 \in 1..Len(wire)
      BY <1>1, <2>4
    <3>2. wire[start + i + 1].bits \subseteq 0..6
      <4>1. wire[start + i + 1] \in Byte
        BY <3>1 DEF TypeOK
      <4> QED BY <4>1 DEF Byte
    <3>3. b \in 0..(7 * g - 1)
      <4>1. k \in 0..6
        BY <2>2, <3>2
      <4>2. i \in Nat /\ i + 1 <= g /\ g \in Nat
        BY <1>1, <3>1
      <4>3. 7 * i + k \in 0..(7 * g - 1)
        BY <4>1, <4>2
      <4> QED BY <2>2, <4>3
    <3> QED BY <2>2, <3>1, <3>3 DEF Denoted
  <2> QED BY <2>3, <2>4
<1>5. Placed \subseteq Denoted(wire, start, g + 1)
  <2>1. ASSUME NEW k \in Current.bits PROVE 7 * g + k \in Denoted(wire, start, g + 1)
    <3>1. k \in 0..6 /\ g \in 0..((g + 1) - 1) /\ 7 * g + k \in 0..(7 * (g + 1) - 1)
      BY <1>1, <1>3
    <3> QED BY <1>1, <3>1 DEF Denoted
  <2> QED BY <2>1 DEF Placed
<1>6. Denoted(wire, start, g) \subseteq Denoted(wire, start, g + 1)
  <2>1. ASSUME NEW b \in Denoted(wire, start, g) PROVE b \in Denoted(wire, start, g + 1)
    <3>1. b \in 0..(7 * g - 1) /\ \E i \in 0..(g - 1) : \E k \in wire[start + i + 1].bits : b = 7 * i + k
      BY <2>1 DEF Denoted
    <3>2. b \in 0..(7 * (g + 1) - 1) /\ 0..(g - 1) \subseteq 0..((g + 1) - 1)
      BY <1>1, <3>1
    <3> QED BY <3>1, <3>2 DEF Denoted
  <2> QED BY <2>1
<1> QED BY <1>1, <1>2, <1>4, <1>5, <1>6

\* The reader leaves what was written alone.
LEMMA WriterKept ==
  ASSUME TypeOK, StreamInv, phase = "read", phase' \in {"read", "done"}, UNCHANGED <<writer, wire>>
  PROVE  /\ WriterInv' /\ ArrivalInv'
         /\ Width' = Width /\ MaxBytes' = MaxBytes
         /\ kind' = kind /\ start' = start /\ wire' = wire
<1>1. fate # "unsent" /\ UNCHANGED <<kind, value, start, sent, fate, wire>>
  BY DEF TypeOK, writer
<1>2. WriterInv'
  BY <1>1 DEF StreamInv, WriterInv
<1>3. Dumped' = Dumped
  BY <1>1 DEF Dumped
<1>4. ArrivalInv'
  BY <1>1, <1>3 DEF StreamInv, ArrivalInv, Emitted
<1>5. Width' = Width
  BY <1>1 DEF Width
<1>6. MaxBytes' = MaxBytes
  BY <1>5 DEF MaxBytes
<1> QED BY <1>1, <1>2, <1>4, <1>5, <1>6

LEMMA ReaderGoesOn ==
  ASSUME TypeOK, StreamInv, ReadGroup \/ LoadGroup, phase' = "read"
  PROVE  StreamInv'
<1>1. /\ phase = "read" /\ InBounds /\ UNCHANGED <<writer, wire>> /\ pos' = pos + 1
      /\ Current.more /\ g' = g + 1
  BY DEF ReadGroup, LoadGroup, Return
<1>2. kind' = kind
  BY <1>1 DEF writer
<1>3. /\ g \in Nat /\ pos = start + g /\ pos + 1 <= Len(wire)
      /\ Continued(wire, start, g + 1) /\ Denoted(wire, start, g + 1) = Denoted(wire, start, g) \cup Placed
      /\ start \in Nat /\ start' = start
  BY <1>1, ByteRead DEF writer, TypeOK
<1>4. /\ WriterInv' /\ ArrivalInv' /\ Width' = Width /\ MaxBytes' = MaxBytes
  BY <1>1, <1>3, WriterKept
<1>5. /\ acc = Denoted(wire, start, g) \cap (0..(Width-1))
      /\ kind = "bitset" => g < MaxBytes /\ Denoted(wire, start, g) \subseteq 0..(Width-1)
  BY <1>1 DEF StreamInv, ReaderInv
<1>6. CASE ReadGroup
  <2>1. kind # "bitset" /\ g < MaxBytes /\ Width = Bits /\ acc' = acc \cup (Placed \cap (0..Bits-1))
    BY <1>6 DEF ReadGroup, Width
  <2>2. acc' = Denoted(wire, start, g + 1) \cap (0..(Width-1))
    BY <1>3, <1>5, <2>1
  <2>3. ReaderInv'
    BY <1>1, <1>2, <1>3, <1>4, <2>1, <2>2, WidthNat DEF ReaderInv
  <2> QED BY <1>4, <2>3 DEF StreamInv, ReadContract
<1>7. CASE LoadGroup
  <2>1. kind = "bitset" /\ Width = Size /\ acc' = acc \cup Placed /\ Placed \subseteq 0..(Size-1)
        /\ ~ (g + 1) * 7 >= Size
    BY <1>1, <1>7 DEF LoadGroup, Width, Return
  <2>2. acc' = Denoted(wire, start, g + 1) \cap (0..(Width-1)) /\ Denoted(wire, start, g + 1) \subseteq 0..(Width-1)
    BY <1>3, <1>5, <2>1
  <2>3. g + 1 < MaxBytes
    BY <1>3, <2>1, SizesAssumption DEF MaxBytes
  <2>4. ReaderInv'
    BY <1>1, <1>2, <1>3, <1>4, <2>1, <2>2, <2>3, WidthNat DEF ReaderInv
  <2> QED BY <1>4, <2>4 DEF StreamInv, ReadContract
<1> QED BY <1>6, <1>7

\* Where a byte read is the last one.
LEMMA ReaderReturns ==
  ASSUME TypeOK, StreamInv, ReadGroup \/ LoadGroup \/ RefuseBit, phase' = "done"
  PROVE  StreamInv'
<1>1. /\ phase = "read" /\ InBounds /\ UNCHANGED <<writer, wire>> /\ pos' = pos + 1
  BY DEF ReadGroup, LoadGroup, RefuseBit
<1>2. kind' = kind /\ start' = start /\ wire' = wire
  BY <1>1 DEF writer
<1>3. /\ g \in Nat /\ pos = start + g /\ pos + 1 <= Len(wire) /\ Current = wire[start + g + 1]
      /\ Continued(wire, start, g) /\ (Continued(wire, start, g + 1) <=> Current.more)
      /\ Denoted(wire, start, g + 1) = Denoted(wire, start, g) \cup Placed /\ start \in Nat
  BY <1>1, ByteRead DEF TypeOK
<1>4. /\ WriterInv' /\ ArrivalInv' /\ Width' = Width /\ MaxBytes' = MaxBytes
  BY <1>1, <1>3, WriterKept
<1>5. /\ acc = Denoted(wire, start, g) \cap (0..(Width-1)) /\ MaxBytes \in Nat
      /\ kind = "bitset" => g < MaxBytes /\ Denoted(wire, start, g) \subseteq 0..(Width-1)
  BY <1>1, WidthNat DEF StreamInv, ReaderInv
<1>6. pos' - start' = g + 1 /\ (g + 1) - 1 = g /\ start' + (g + 1) = start + g + 1
  BY <1>1, <1>2, <1>3
<1> DEFINE fits == Denoted(wire, start, g + 1) \subseteq 0..(Width-1)
<1>7. CASE ReadGroup
  <2>1. /\ kind # "bitset" /\ g < MaxBytes /\ Width = Bits /\ status' = "ok" /\ ~ Current.more
        /\ acc' = acc \cup (Placed \cap (0..Bits-1))
    BY <1>7 DEF ReadGroup, Return, Width
  <2>2. acc' = Denoted(wire, start, g + 1) \cap (0..(Width-1))
    BY <1>3, <1>5, <2>1
  <2>3. ReadContract'
    BY <1>1, <1>2, <1>3, <1>4, <1>5, <1>6, <2>1, <2>2 DEF ReadContract
  <2> QED BY <1>4, <2>3 DEF StreamInv, ReaderInv
<1>8. CASE LoadGroup
  <2>1. /\ kind = "bitset" /\ Width = Size /\ acc' = acc \cup Placed /\ Placed \subseteq 0..(Size-1)
        /\ \/ status' = "ok" /\ ~ Current.more
           \/ status' = "value_too_large" /\ Current.more /\ (g + 1) * 7 >= Size
    <3>1. kind = "bitset" /\ Width = Size /\ acc' = acc \cup Placed /\ Placed \subseteq 0..(Size-1)
      BY <1>8 DEF LoadGroup, Width
    <3>2. CASE ~ Current.more
      <4>1. status' = "ok"
        BY <1>8, <3>2 DEF LoadGroup, Return
      <4> QED BY <3>1, <3>2, <4>1
    <3>3. CASE Current.more
      <4>1. status' = "value_too_large" /\ (g + 1) * 7 >= Size
        BY <1>1, <1>8, <3>3 DEF LoadGroup, Return
      <4> QED BY <3>1, <3>3, <4>1
    <3> QED BY <3>2, <3>3
  <2>2. acc' = Denoted(wire, start, g + 1) \cap (0..(Width-1)) /\ fits
    <3>1. Denoted(wire, start, g) \cup Placed \subseteq 0..(Width-1) /\ acc = Denoted(wire, start, g)
      BY <1>5, <2>1
    <3> QED BY <1>3, <2>1, <3>1
  <2>3. g < MaxBytes /\ ((g + 1) * 7 >= Size => g + 1 = MaxBytes)
    <3>1. g < MaxBytes /\ Size \in Nat /\ 7 * (MaxBytes - 1) < Size
      BY <1>5, <2>1, WidthNat
    <3> QED BY <1>3, <1>5, <3>1
  <2>4. ReadContract'
    BY <1>1, <1>2, <1>3, <1>4, <1>5, <1>6, <2>1, <2>2, <2>3 DEF ReadContract
  <2> QED BY <1>4, <2>4 DEF StreamInv, ReaderInv
<1>9. CASE RefuseBit
  <2>1. kind = "bitset" /\ Width = Size /\ ~ Placed \subseteq 0..(Size-1) /\ status' = "value_too_large"
    BY <1>9 DEF RefuseBit, Width, Return
  <2>2. ~ fits /\ g < MaxBytes
    BY <1>3, <1>5, <2>1
  <2>3. ReadContract'
    BY <1>1, <1>2, <1>3, <1>4, <1>5, <1>6, <2>1, <2>2 DEF ReadContract
  <2> QED BY <1>4, <2>3 DEF StreamInv, ReaderInv
<1> QED BY <1>7, <1>8, <1>9

\* Where none is read.
LEMMA ReaderStops ==
  ASSUME TypeOK, StreamInv, ReadPastEnd \/ ReadTooLong
  PROVE  StreamInv'
<1>1. /\ phase = "read" /\ phase' = "done" /\ UNCHANGED <<writer, wire>> /\ pos' = pos /\ acc' = acc
      /\ kind' = kind /\ start' = start /\ wire' = wire
  BY DEF ReadPastEnd, ReadTooLong, Return, writer
<1>2. /\ g \in Nat /\ pos = start + g /\ pos <= Len(wire) /\ Continued(wire, start, g) /\ start \in Nat
      /\ g <= MaxBytes /\ MaxBytes \in Nat
      /\ kind = "bitset" => g < MaxBytes /\ Denoted(wire, start, g) \subseteq 0..(Width-1)
  BY <1>1, WidthNat DEF StreamInv, ReaderInv, TypeOK
<1>3. /\ WriterInv' /\ ArrivalInv' /\ Width' = Width /\ MaxBytes' = MaxBytes
  BY <1>1, <1>2, WriterKept
<1>4. pos' - start' = g
  BY <1>1, <1>2
<1>5. \/ status' = "message_size" /\ pos = Len(wire) /\ g < MaxBytes
      \/ status' = "value_too_large" /\ g = MaxBytes
  BY <1>2 DEF ReadPastEnd, ReadTooLong, Return, InBounds, TypeOK
<1>6. ReadContract'
  BY <1>1, <1>2, <1>3, <1>4, <1>5 DEF ReadContract
<1> QED BY <1>1, <1>3, <1>6 DEF StreamInv, ReaderInv

\* Every step keeps the invariant, and so it always holds.
LEMMA StreamStep == TypeOK /\ StreamInv /\ [Next]_vars => StreamInv'
<1> SUFFICES ASSUME TypeOK, StreamInv, [Next]_vars PROVE StreamInv'
  OBVIOUS
<1>1. CASE WriteGroup
  BY <1>1, WrittenGroup
<1>2. CASE SkipZero \/ BeginDump
  BY <1>2, WriterScans
<1>3. CASE DumpGroup
  BY <1>3, DumpedGroup
<1>4. CASE Arrive \/ Cut
  BY <1>4, Delivered
<1>5. CASE ReadPastEnd \/ ReadTooLong
  BY <1>5, ReaderStops
<1>6. CASE ReadGroup \/ LoadGroup
  <2>1. phase' \in {"read", "done"}
    BY <1>6 DEF ReadGroup, LoadGroup, Return
  <2> QED BY <1>6, <2>1, ReaderGoesOn, ReaderReturns
<1>7. CASE RefuseBit
  <2>1. phase' = "done"
    BY <1>7 DEF RefuseBit, Return
  <2> QED BY <1>7, <2>1, ReaderReturns
<1>8. CASE Done \/ UNCHANGED vars
  <2>1. UNCHANGED vars
    BY <1>8 DEF Done
  <2>2. Width' = Width /\ Dumped' = Dumped
    BY <2>1 DEF vars, Width, Dumped
  <2>3. MaxBytes' = MaxBytes
    BY <2>2 DEF MaxBytes
  <2>4. WriterInv' /\ ArrivalInv'
    BY <2>1, <2>2 DEF vars, StreamInv, WriterInv, ArrivalInv
  <2>5. ReaderInv' /\ ReadContract'
    BY <2>1, <2>2, <2>3 DEF vars, StreamInv, ReaderInv, ReadContract
  <2> QED BY <2>4, <2>5 DEF StreamInv
<1> QED BY <1>1, <1>2, <1>3, <1>4, <1>5, <1>6, <1>7, <1>8 DEF Next

\* What the writing and the reading loops keep true: the bytes so far are the
\* first of the dump, and the bits so far are theirs.
THEOREM StreamKept == Spec => []StreamInv
<1>1. Init => TypeOK /\ StreamInv
  BY TypesStart, WriterStarts
<1>2. TypeOK /\ StreamInv /\ [Next]_vars => (TypeOK /\ StreamInv)'
  BY TypesStep, StreamStep
<1> QED BY <1>1, <1>2, PTL DEF Spec

\* Of any bytes whatever, a reader answers what the format says they are.
THEOREM ReadAsSpecified == Spec => []ReadContract
<1>1. StreamInv => ReadContract
  BY DEF StreamInv
<1> QED BY <1>1, StreamKept, PTL

-----------------------------------------------------------------------------
(* Both ends.                                                              *)

LEMMA EmittedDenoted ==
  ASSUME NEW w, NEW s \in Nat, NEW n \in Nat, NEW d \in SUBSET Nat,
         \A i \in 0..(n - 1) : w[s + i + 1] = Emitted(d, i)
  PROVE  \A b : b \in Denoted(w, s, n) <=> b \in d /\ b < 7 * n
<1>1. ASSUME NEW b \in Denoted(w, s, n) PROVE b \in d /\ b < 7 * n
  <2>1. PICK i \in 0..(n - 1) : \E k \in w[s + i + 1].bits : b = 7 * i + k
    BY <1>1 DEF Denoted
  <2>2. PICK k \in Emitted(d, i).bits : b = 7 * i + k
    BY <2>1
  <2>3. 7 * i + k \in d
    BY <2>2 DEF Emitted
  <2>4. b < 7 * n
    BY <1>1 DEF Denoted
  <2> QED BY <2>2, <2>3, <2>4
<1>2. ASSUME NEW b \in d, b < 7 * n PROVE b \in Denoted(w, s, n)
  <2> DEFINE i == b \div 7
             k == b % 7
  <2>1. i \in 0..(n - 1) /\ k \in 0..6 /\ b = 7 * i + k /\ b \in 0..(7 * n - 1)
    BY <1>2
  <2> HIDE DEF i, k
  <2>2. k \in Emitted(d, i).bits
    BY <1>2, <2>1 DEF Emitted
  <2>3. k \in w[s + i + 1].bits
    BY <2>1, <2>2
  <2> QED BY <2>1, <2>3 DEF Denoted
<1> QED BY <1>1, <1>2

\* What a whole dump says of its length, and which of its bytes is the last.
LEMMA DumpLength ==
  ASSUME TypeOK, StreamInv, phase = "sent" \/ fate \in {"whole", "cut"}
  PROVE  LET n == sent - start
         IN  /\ start \in Nat /\ n \in 1..MaxBytes
             /\ Dumped \in SUBSET Nat /\ Dumped \subseteq 0..(Width-1)
             /\ \A i \in 0..(n - 2) : Emitted(Dumped, i).more
             /\ ~ Emitted(Dumped, n - 1).more
             /\ \A b \in Dumped : b < 7 * n
             /\ n > 1 => \E b \in Dumped : b >= 7 * (n - 1)
             /\ \A i \in 0..(n - 1) :
                   start + i + 1 <= Len(wire) => wire[start + i + 1] = Emitted(Dumped, i)
<1> DEFINE n == sent - start
<1>1. /\ n \in Nat \ {0} /\ start \in Nat
      /\ n > 1 => \E b \in Dumped : b >= 7 * (n - 1)
      /\ \A b \in Dumped : b < 7 * n
      /\ \A i \in 0..(n - 1) : start + i + 1 <= Len(wire) => wire[start + i + 1] = Emitted(Dumped, i)
  BY DEF StreamInv, ArrivalInv, TypeOK
<1>2. Dumped \in SUBSET Nat /\ Dumped \subseteq 0..(Width-1)
  BY DumpedIn
<1>w. Width \in Nat \ {0} /\ MaxBytes \in Nat \ {0} /\ 7 * MaxBytes >= Width
  BY WidthNat
<1> HIDE DEF n
<1>3. n <= MaxBytes
  <2>1. CASE n > 1
    <3>1. PICK b \in Dumped : b >= 7 * (n - 1)
      BY <1>1, <2>1
    <3>2. b \in 0..(Width-1)
      BY <1>2
    <3> QED BY <1>1, <1>w, <3>1, <3>2
  <2> QED BY <1>1, <1>w, <2>1
<1>4. ASSUME NEW i \in 0..(n - 2) PROVE Emitted(Dumped, i).more
  <2>1. PICK b \in Dumped : b >= 7 * (n - 1)
    BY <1>1
  <2>2. b >= 7 * (i + 1)
    BY <1>1, <1>2, <2>1
  <2> QED BY <2>2 DEF Emitted
<1>5. ~ Emitted(Dumped, n - 1).more
  <2>1. \A b \in Dumped : ~ b >= 7 * ((n - 1) + 1)
    BY <1>1, <1>2
  <2> QED BY <2>1 DEF Emitted
<1>6. n \in 1..MaxBytes
  BY <1>1, <1>3, <1>w
<1> QED BY <1>1, <1>2, <1>4, <1>5, <1>6 DEF n

LEMMA WholeIsRead == TypeOK /\ StreamInv => RoundTrip
<1> SUFFICES ASSUME TypeOK, StreamInv, phase = "done", fate = "whole"
             PROVE  status = "ok" /\ Returned = value /\ pos = sent
  BY DEF RoundTrip
<1> DEFINE n == sent - start
           m == pos - start
<1>1. /\ start \in Nat /\ n \in 1..MaxBytes
      /\ Dumped \in SUBSET Nat /\ Dumped \subseteq 0..(Width-1)
      /\ \A b \in Dumped : b < 7 * n
      /\ ~ Emitted(Dumped, n - 1).more
      /\ \A i \in 0..(n - 2) : Emitted(Dumped, i).more
      /\ \A i \in 0..(n - 1) : start + i + 1 <= Len(wire) => wire[start + i + 1] = Emitted(Dumped, i)
  BY DumpLength
<1>2. sent <= Len(wire) /\ sent \in Nat /\ pos \in Nat /\ Len(wire) \in Nat
  BY DEF StreamInv, ArrivalInv, TypeOK
<1>w. Width \in Nat /\ MaxBytes \in Nat
  BY WidthNat
<1>3. /\ \A i \in 0..(n - 1) : wire[start + i + 1] = Emitted(Dumped, i)
      /\ \A i \in 0..(n - 2) : wire[start + i + 1].more
      /\ ~ wire[start + (n - 1) + 1].more
  <2>1. ASSUME NEW i \in 0..(n - 1) PROVE wire[start + i + 1] = Emitted(Dumped, i)
    <3>1. start + i + 1 <= Len(wire)
      BY <1>1, <1>2, <1>w
    <3> QED BY <1>1, <3>1
  <2>2. ASSUME NEW i \in 0..(n - 2) PROVE wire[start + i + 1].more
    <3>1. i \in 0..(n - 1)
      BY <1>1, <1>2, <1>w
    <3> QED BY <1>1, <2>1, <3>1
  <2>3. n - 1 \in 0..(n - 1)
    BY <1>1, <1>w
  <2> QED BY <1>1, <2>1, <2>2, <2>3
<1>4. m \in 0..MaxBytes /\ pos <= Len(wire)
  BY DEF StreamInv, ReadContract
<1>5. ASSUME Continued(wire, start, m) PROVE m < n
  BY <1>1, <1>3, <1>4, <1>5, <1>w DEF Continued
<1>6. ASSUME m > 0, Continued(wire, start, m - 1) PROVE m <= n
  BY <1>1, <1>3, <1>4, <1>6, <1>w DEF Continued
<1>7. status # "message_size"
  BY <1>1, <1>2, <1>4, <1>5 DEF StreamInv, ReadContract
<1>8. ASSUME m <= n PROVE \A b : b \in Denoted(wire, start, m) <=> b \in Dumped /\ b < 7 * m
  <2>1. \A i \in 0..(m - 1) : wire[start + i + 1] = Emitted(Dumped, i)
    BY <1>1, <1>3, <1>4, <1>8, <1>w
  <2>2. m \in Nat
    BY <1>4, <1>w
  <2> HIDE DEF m
  <2> QED BY <1>1, <2>1, <2>2, EmittedDenoted
<1>9. status # "value_too_large"
  <2> SUFFICES ASSUME status = "value_too_large" PROVE FALSE
    OBVIOUS
  <2>1. \/ m = MaxBytes /\ Continued(wire, start, m)
        \/ m > 0 /\ Continued(wire, start, m - 1) /\ ~ Denoted(wire, start, m) \subseteq 0..(Width-1)
    BY DEF StreamInv, ReadContract
  <2>2. CASE m = MaxBytes /\ Continued(wire, start, m)
    BY <1>1, <1>5, <1>w, <2>2
  <2>3. CASE m > 0 /\ Continued(wire, start, m - 1) /\ ~ Denoted(wire, start, m) \subseteq 0..(Width-1)
    BY <1>1, <1>6, <1>8, <2>3
  <2> QED BY <2>1, <2>2, <2>3
<1>10. status = "ok"
  BY <1>7, <1>9 DEF TypeOK
<1>11. /\ m > 0 /\ Continued(wire, start, m - 1) /\ ~ wire[start + m].more
       /\ acc = Denoted(wire, start, m) \cap (0..(Width-1))
  BY <1>10 DEF StreamInv, ReadContract
<1>12. m = n
  <2>1. m <= n
    BY <1>6, <1>11
  <2>2. CASE m < n
    <3>1. m - 1 \in 0..(n - 2) /\ start + (m - 1) + 1 = start + m
      BY <1>1, <1>4, <1>11, <1>w, <2>2
    <3> QED BY <1>3, <1>11, <3>1
  <2> QED BY <1>1, <1>4, <1>w, <2>1, <2>2
<1>13. acc = Dumped
  <2>1. m <= n
    BY <1>6, <1>11
  <2>2. \A b : b \in Denoted(wire, start, m) <=> b \in Dumped /\ b < 7 * m
    BY <1>8, <2>1
  <2> HIDE DEF m, n
  <2>3. Denoted(wire, start, m) = Dumped
    BY <1>1, <1>12, <2>2
  <2> QED BY <1>1, <1>11, <2>3
<1>14. Returned = value
  <2>1. CASE kind = "signed"
    BY <1>13, <2>1, ZigZagUndone DEF Returned, Dumped, TypeOK, Width
  <2> QED BY <1>13, <2>1 DEF Returned, Dumped
<1>15. pos = sent
  BY <1>1, <1>2, <1>12
<1> QED BY <1>10, <1>14, <1>15

LEMMA CutIsSeen == TypeOK /\ StreamInv => CutRefused
<1> SUFFICES ASSUME TypeOK, StreamInv, phase = "done", fate = "cut"
             PROVE  status = "message_size"
  BY DEF CutRefused
<1> DEFINE n == sent - start
           m == pos - start
<1>1. /\ start \in Nat /\ n \in 1..MaxBytes
      /\ Dumped \in SUBSET Nat /\ Dumped \subseteq 0..(Width-1)
      /\ \A i \in 0..(n - 2) : Emitted(Dumped, i).more
      /\ \A i \in 0..(n - 1) : start + i + 1 <= Len(wire) => wire[start + i + 1] = Emitted(Dumped, i)
  BY DumpLength
<1>2. Len(wire) < sent /\ sent \in Nat /\ pos \in Nat /\ Len(wire) \in Nat
  BY DEF StreamInv, ArrivalInv, TypeOK
<1>w. Width \in Nat /\ MaxBytes \in Nat
  BY WidthNat
<1>3. m \in 0..MaxBytes /\ pos <= Len(wire)
  BY DEF StreamInv, ReadContract
<1>4. m < n /\ \A i \in 0..(m - 1) : wire[start + i + 1] = Emitted(Dumped, i)
  BY <1>1, <1>2, <1>3, <1>w
<1>5. \A i \in 0..(m - 1) : wire[start + i + 1].more
  BY <1>1, <1>3, <1>4, <1>w
<1>6. status # "ok"
  <2> SUFFICES ASSUME m > 0 PROVE wire[start + m].more
    BY DEF StreamInv, ReadContract
  <2>1. m - 1 \in 0..(m - 1) /\ start + (m - 1) + 1 = start + m
    BY <1>1, <1>3, <1>w
  <2> QED BY <1>5, <2>1
<1>7. \A b : b \in Denoted(wire, start, m) <=> b \in Dumped /\ b < 7 * m
  <2>1. m \in Nat
    BY <1>3, <1>w
  <2> HIDE DEF m
  <2> QED BY <1>1, <1>4, <2>1, EmittedDenoted
<1>8. status # "value_too_large"
  <2> SUFFICES ASSUME status = "value_too_large" PROVE FALSE
    OBVIOUS
  <2>1. m = MaxBytes \/ ~ Denoted(wire, start, m) \subseteq 0..(Width-1)
    BY DEF StreamInv, ReadContract
  <2>2. m # MaxBytes
    BY <1>1, <1>4, <1>w
  <2> QED BY <1>1, <1>7, <2>1, <2>2
<1> QED BY <1>6, <1>8 DEF TypeOK

LEMMA DumpIsShort == TypeOK /\ StreamInv => Shortest
<1> SUFFICES ASSUME TypeOK, StreamInv, phase = "sent"
             PROVE  sent - start \in 1..MaxBytes /\ (sent - start > 1 => wire[sent].bits # {})
  BY DEF Shortest
<1> DEFINE n == sent - start
<1>1. /\ start \in Nat /\ n \in 1..MaxBytes
      /\ Dumped \in SUBSET Nat
      /\ \A b \in Dumped : b < 7 * n
      /\ n > 1 => \E b \in Dumped : b >= 7 * (n - 1)
      /\ \A i \in 0..(n - 1) : start + i + 1 <= Len(wire) => wire[start + i + 1] = Emitted(Dumped, i)
  BY DumpLength
<1>2. Len(wire) = sent /\ sent \in Nat
  BY DEF StreamInv, ArrivalInv, TypeOK
<1>w. MaxBytes \in Nat
  BY WidthNat
<1>3. ASSUME n > 1 PROVE wire[sent].bits # {}
  <2>1. PICK b \in Dumped : b >= 7 * (n - 1) /\ b < 7 * n
    BY <1>1, <1>3
  <2>2. /\ b - 7 * (n - 1) \in 0..6 /\ 7 * (n - 1) + (b - 7 * (n - 1)) = b
        /\ n - 1 \in 0..(n - 1) /\ start + (n - 1) + 1 = sent
    BY <1>1, <1>2, <1>w, <2>1
  <2>3. wire[sent] = Emitted(Dumped, n - 1)
    BY <1>1, <1>2, <2>2
  <2> HIDE DEF n
  <2>4. b - 7 * (n - 1) \in Emitted(Dumped, n - 1).bits
    BY <2>1, <2>2 DEF Emitted
  <2> QED BY <2>3, <2>4
<1> QED BY <1>1, <1>3

\* What arrives whole is read as the value that was written, whatever follows it
\* (writeVarInt and readVarInt, the two halves of Serializer<std::bitset<N>>).
THEOREM RoundTripHolds == Spec => []RoundTrip
BY TypeCorrect, StreamKept, WholeIsRead, PTL

\* What arrives cut short is refused as such by either reader.
THEOREM CutIsRefused == Spec => []CutRefused
BY TypeCorrect, StreamKept, CutIsSeen, PTL

\* Neither writer puts more bytes than the value needs or the reader allows.
THEOREM ShortestHolds == Spec => []Shortest
BY TypeCorrect, StreamKept, DumpIsShort, PTL
=============================================================================
